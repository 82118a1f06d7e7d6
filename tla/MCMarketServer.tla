--------------------------- MODULE MCMarketServer ---------------------------
(* Instances of MarketServer for TLC.                                      *)
EXTENDS MarketServer, TLC

CONSTANTS btc, eth

TwoSymbols == {btc, eth}

\* The stations treat symbols alike.
SymbolSymmetry == Permutations(TwoSymbols)
=============================================================================
