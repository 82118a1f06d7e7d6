------------------------------ MODULE MCDepth ------------------------------
EXTENDS Depth, TLC

Symmetry == Permutations(Symbols) \cup Permutations(Slots)

\* Books that fit, one with an ask too many and one with a bid too many.
SomeBooks == {
    [asks |-> <<1, 2>>, bids |-> <<2>>],
    [asks |-> <<1, 1, 2>>, bids |-> <<2, 1>>],
    [asks |-> <<>>, bids |-> <<1, 1, 1>>]}

SomeDecimals == {
    [value |-> 0, base |-> 0],
    [value |-> 7, base |-> 0],
    [value |-> 65, base |-> 1],
    [value |-> 1234, base |-> 3],
    [value |-> 7001, base |-> 3]}

\* 1.25, 12.5, 13, 4 and 13000.
SomeTexts == {
    [digits |-> 125, length |-> 4, places |-> 2],
    [digits |-> 125, length |-> 4, places |-> 1],
    [digits |-> 13, length |-> 2, places |-> NoPoint],
    [digits |-> 13000, length |-> 5, places |-> NoPoint],
    [digits |-> 4, length |-> 1, places |-> NoPoint]}

\* 0, 3, 1.25, 0.04, 0.0012 and -3.
SomeDoubles == {
    [digits |-> 0, places |-> 0],
    [digits |-> 3, places |-> 0],
    [digits |-> 125, places |-> 2],
    [digits |-> 4, places |-> 2],
    [digits |-> 12, places |-> 4],
    [digits |-> -3, places |-> 0]}

\* Zero, a value with few places, and one with more than an int has digits:
\* adding to them runs off, or around the end of base.
SomeLeftovers == {
    [value |-> 0, base |-> 0],
    [value |-> 126, base |-> 2],
    [value |-> 13, base |-> 5],
    [value |-> 1, base |-> 14]}

IntEnd == -512

=============================================================================
