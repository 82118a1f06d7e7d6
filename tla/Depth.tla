------------------------------- MODULE Depth -------------------------------
(***************************************************************************)
(* What becomes of the storage of a depth update on its way from the hub   *)
(* to the clients.  The stations copy SDepthData with memcpy, although its *)
(* symbol is a std::string: every copy points to the characters of the     *)
(* task that on_depth posted, which are given back when DataReceive's      *)
(* handler returns.  The enhanced data of a new symbol get a second owner  *)
(* besides their package: an entry of depth_data_.  Three threads are      *)
(* involved, DataReceive's, DataProcess's and the front server's; a fourth *)
(* may exit.                                                               *)
(*                                                                         *)
(* Storage that was given back keeps its characters until something else   *)
(* is put there.  Reading storage that is gone altogether ends the process *)
(* and with it the behaviour.  Whether a package runs the destructors of   *)
(* its fields is the library's affair: if it did, the process would end at *)
(* the first package.                                                      *)
(*                                                                         *)
(* What matters here of a symbol is which entry of depth_data_ it finds.   *)
(* The price of the first book stands for the calculations the hub makes   *)
(* with SDecimal.                                                          *)
(***************************************************************************)
EXTENDS Decimal, Sequences, FiniteSets

CONSTANTS
    Symbols,        \* the trading symbols the hub knows
    Books,          \* the books it may push: the volumes of asks and of bids
    LevelCount,     \* DEPCH_LEVEL_COUNT
    Slots,          \* places the task of an update can be put
    MaxPushes,      \* bound: updates pushed
    Decimals,       \* decimals, texts and doubles the hub calculates with
    Texts,
    Doubles,
    Leftovers,      \* what the storage of a decimal may hold before it is made
    MaxCalculations, \* bound: calculations made for the first price
    Units           \* the places after the point in which prices are compared

ASSUME DepthAssumption ==
    /\ Books \subseteq [asks: Seq(Nat), bids: Seq(Nat)]
    /\ LevelCount \in Nat /\ MaxPushes \in Nat /\ MaxCalculations \in Nat
    /\ Units \in Nat /\ IntDigits <= Units
    /\ Decimals \subseteq SDecimal /\ Leftovers \subseteq SDecimal
    /\ Texts \subseteq Text
    /\ Doubles \subseteq [digits: Int, places: Nat]

Other == "other"        \* characters that are no symbol
NoUpdate == 0
Updates == 1..MaxPushes

VARIABLES
    pushed,         \* the updates pushed: symbol, book and slot of each
    text,           \* of each slot: the characters in it
    owner,          \* of each slot: the update whose task is in it, or NoUpdate
    torn,           \* history: updates whose symbol changed between its lookup
                    \* in depth_data_ and its insertion
    receive,        \* DataReceive: its tasks, and whether the first was delivered
    process,        \* DataProcess: its tasks, and its handler
    object,         \* of each update: its enhanced data
    depth_data_,    \* of each key: the update whose enhanced data it owns
    fsQueue,        \* updates posted to the front server
    sent,           \* what was sent to the clients: update, sums
    calc            \* the hub's last calculation

vars == <<pushed, text, owner, torn, receive, process, object, depth_data_, fsQueue, sent, calc>>

Unmade == [sums |-> <<>>, spoilt |-> FALSE, refs |-> 0, freed |-> {}]
Handling(at, n) == [at |-> at, n |-> n, sought |-> Other]
Idle == Handling("idle", NoUpdate)
NoCalculation == [made |-> 0, op |-> "none", left |-> Zero, right |-> Zero, out |-> Zero]
Quote == calc.out

Init ==
    /\ pushed = <<>>
    /\ text = [s \in Slots |-> Other]
    /\ owner = [s \in Slots |-> NoUpdate]
    /\ torn = {}
    /\ receive = [tasks |-> <<>>, delivered |-> FALSE]
    /\ process = [tasks |-> <<>>, handler |-> Idle]
    /\ object = [n \in Updates |-> Unmade]
    /\ depth_data_ = <<>>
    /\ fsQueue = <<>>
    /\ sent = {}
    /\ calc = NoCalculation

\* Where an update was posted, and the symbol its copies seem to have.
Slot(n) == pushed[n].slot
Read(n) == text[Slot(n)]

-----------------------------------------------------------------------------
(* The hub: it calculates a price, and pushes a book.                      *)

Calculate(op, left, right, out) ==
    /\ calc' = [made |-> calc.made + 1, op |-> op, left |-> left, right |-> right, out |-> out]
    /\ UNCHANGED <<pushed, text, owner, torn, receive, process, object, depth_data_, fsQueue, sent>>

HubPrice ==
    /\ calc.made < MaxCalculations /\ pushed = <<>>
    /\ \/ \E d \in Decimals :
            \/ Calculate("plus", Quote, d, Plus(Quote, d))
            \/ Calculate("minus", Quote, d, Minus(Quote, d))
       \/ \E precise \in 0..2 : Calculate("round", Quote, precise, Rounded(Quote, precise))
       \/ \E t \in Texts, precise \in {-1, 1}, ceiling \in BOOLEAN : \E a \in FromText(t, precise, ceiling) :
            Calculate("text", t, precise, a)
       \/ \E d \in Doubles, start \in Leftovers : \E a \in FromDouble(start, d.digits, d.places, InitTolerance) :
            Calculate("construct", d, start, a)
       \/ \E d \in Doubles : \E a \in FromDouble(Quote, d.digits, d.places, Tolerance) :
            Calculate("from", d, Quote, a)

\* on_depth: the update is copied, properly, into a task.  The task may be
\* put where an earlier one was.
OnDepth(symbol, book, slot) ==
    /\ Len(pushed) < MaxPushes /\ owner[slot] = NoUpdate
    /\ pushed' = Append(pushed, [symbol |-> symbol, book |-> book, slot |-> slot])
    /\ text' = [text EXCEPT ![slot] = symbol]
    /\ owner' = [owner EXCEPT ![slot] = Len(pushed')]
    /\ receive' = [receive EXCEPT !.tasks = Append(@, Len(pushed'))]
    /\ calc' = NoCalculation
    /\ UNCHANGED <<torn, process, object, depth_data_, fsQueue, sent>>

\* Anything may be put where a task was.
Overwrite(slot) ==
    /\ owner[slot] = NoUpdate /\ text[slot] # Other
    /\ text' = [text EXCEPT ![slot] = Other]
    /\ UNCHANGED <<pushed, owner, torn, receive, process, object, depth_data_, fsQueue, sent, calc>>

-----------------------------------------------------------------------------
(* DataReceive.                                                            *)

\* handle_depth_data: a package with a copy of the update is delivered.
HandleDepthData ==
    /\ receive.tasks # <<>> /\ ~receive.delivered
    /\ receive' = [receive EXCEPT !.delivered = TRUE]
    /\ process' = [process EXCEPT !.tasks = Append(@, Head(receive.tasks))]
    /\ UNCHANGED <<pushed, text, owner, torn, object, depth_data_, fsQueue, sent, calc>>

\* The handler has returned, and its task is destructed.
ReturnDepthData ==
    /\ receive.delivered
    /\ receive' = [tasks |-> Tail(receive.tasks), delivered |-> FALSE]
    /\ owner' = [owner EXCEPT ![Slot(Head(receive.tasks))] = NoUpdate]
    /\ UNCHANGED <<pushed, text, torn, process, object, depth_data_, fsQueue, sent, calc>>

-----------------------------------------------------------------------------
(* EnhancedDepthData.  Its two arrays and the copy of the update follow    *)
(* each other in storage, so that an index which is too large for the one  *)
(* is an index into the next.                                              *)

AskIndex(i) == i
BidIndex(i) == LevelCount + i

\* The volumes of one side up to each of its levels.
Sums(volumes) ==
    LET sum[i \in 0..Len(volumes)] == IF i = 0 THEN 0 ELSE sum[i - 1] + volumes[i]
    IN  sum

\* mutant: an ask too many stays in the bids' array.
AccumulateBidsFirst(book) ==
    LET asks == {AskIndex(i) : i \in 1..Len(book.asks)}
        bids == {BidIndex(i) : i \in 1..Len(book.bids)}
    IN  [x \in asks \cup bids |-> IF x \in asks THEN Sums(book.asks)[x] ELSE Sums(book.bids)[x - LevelCount]]
\* init: the asks first, then the bids; an ask too many is overwritten by
\* the first bid.
Accumulate(book) ==
    LET asks == {AskIndex(i) : i \in 1..Len(book.asks)}
        bids == {BidIndex(i) : i \in 1..Len(book.bids)}
    IN  [x \in asks \cup bids |-> IF x \in bids THEN Sums(book.bids)[x - LevelCount] ELSE Sums(book.asks)[x]]

\* What lies behind both arrays is the update, its symbol first.
Enhanced(book) ==
    LET sums == Accumulate(book)
    IN  [sums |-> sums, spoilt |-> \E x \in DOMAIN sums : x > 2 * LevelCount, refs |-> 1, freed |-> {}]

-----------------------------------------------------------------------------
(* DataProcess: process_sdepth_package, between whose steps the characters *)
(* of the symbol may change.                                               *)

Handler(at, n) == [process EXCEPT !.handler = Handling(at, n)]

\* Where the handler goes on: not at all once the symbol is spoilt.
Found(n) ==
    IF object'[n].spoilt THEN Handling("fault", n)
    ELSE IF Read(n) \in DOMAIN depth_data_ THEN Handling("deliver", n)
    ELSE [Handling("store", n) EXCEPT !.sought = Read(n)]

\* A package with enhanced data is made, and its symbol looked up.
MakeEnhanced ==
    /\ process.handler = Idle /\ process.tasks # <<>>
    /\ LET n == Head(process.tasks)
       IN  /\ object' = [object EXCEPT ![n] = Enhanced(pushed[n].book)]
           /\ process' = [tasks |-> Tail(process.tasks), handler |-> Found(n)]
    /\ UNCHANGED <<pushed, text, owner, torn, receive, depth_data_, fsQueue, sent, calc>>

\* One package less that refers to the enhanced data: the last frees them.
Dropped(objects, n) ==
    [objects EXCEPT ![n].refs = @ - 1, ![n].freed = IF objects[n].refs = 1 THEN @ \cup {"package"} ELSE @]

\* An entry is an owner that counts on its own: when it goes, the data go,
\* whatever the packages do.
Overthrown(keys) ==
    [n \in Updates |-> IF \E key \in keys \cap DOMAIN depth_data_ : depth_data_[key] = n
                        THEN [object[n] EXCEPT !.freed = @ \cup {"entry"}] ELSE object[n]]

\* depth_data_[symbol] = get_object(): the key is a copy of the characters.
\* (The announcement of the symbol, which follows, is the stations' model's.)
StoreObject ==
    /\ process.handler.at = "store"
    /\ LET n == process.handler.n
           key == Read(n)
       IN  /\ object' = Overthrown({key})
           /\ depth_data_' = [k \in DOMAIN depth_data_ \cup {key} |-> IF k = key THEN n ELSE depth_data_[k]]
           /\ torn' = IF key # process.handler.sought THEN torn \cup {n} ELSE torn
           /\ process' = Handler("deliver", n)
    /\ UNCHANGED <<pushed, text, owner, receive, fsQueue, sent, calc>>

\* mutant: the entry is refreshed with every update.
DeliverAndRefresh ==
    /\ process.handler.at = "deliver"
    /\ LET n == process.handler.n
           key == Read(n)
       IN  /\ object' = [Overthrown({key}) EXCEPT ![n].refs = 2]
           /\ depth_data_' = [k \in DOMAIN depth_data_ \cup {key} |-> IF k = key THEN n ELSE depth_data_[k]]
           /\ fsQueue' = Append(fsQueue, n)
           /\ process' = Handler("return", n)
    /\ UNCHANGED <<pushed, text, owner, torn, receive, sent, calc>>
\* deliver_response: the front server's task shares the package.
DeliverEnhanced ==
    /\ process.handler.at = "deliver"
    /\ object' = [object EXCEPT ![process.handler.n].refs = 2]
    /\ fsQueue' = Append(fsQueue, process.handler.n)
    /\ process' = Handler("return", process.handler.n)
    /\ UNCHANGED <<pushed, text, owner, torn, receive, depth_data_, sent, calc>>

ReturnEnhanced ==
    /\ process.handler.at = "return"
    /\ object' = Dropped(object, process.handler.n)
    /\ process' = [process EXCEPT !.handler = Idle]
    /\ UNCHANGED <<pushed, text, owner, torn, receive, depth_data_, fsQueue, sent, calc>>

\* exit destructs DataProcess, whatever its thread is doing, and depth_data_
\* with it: every entry frees what it owns.  Whether an exit gets so far is
\* the affair of Lifecycle: the front server is destructed before.
DestroyDataProcess ==
    /\ object' = Overthrown(DOMAIN depth_data_)
    /\ process' = Handler("destroyed", process.handler.n)
    /\ UNCHANGED <<pushed, text, owner, torn, receive, depth_data_, fsQueue, sent, calc>>

-----------------------------------------------------------------------------
(* The front server: process_enhanceddata_package.                         *)

\* What get_json_str puts out of the sums: as many as the book has levels.
Printed(n) ==
    LET sums == object[n].sums
        book == pushed[n].book
    IN  [asks |-> [i \in 1..Len(book.asks) |-> sums[AskIndex(i)]],
         bids |-> [i \in 1..Len(book.bids) |-> sums[BidIndex(i)]]]

\* Out of storage that an entry has given back it may print anything, which
\* is not kept in sent.
Broadcast ==
    /\ fsQueue # <<>>
    /\ LET n == Head(fsQueue)
       IN  /\ sent' = IF object[n].freed = {} THEN sent \cup {[n |-> n, levels |-> Printed(n)]} ELSE sent
           /\ object' = Dropped(object, n)
    /\ fsQueue' = Tail(fsQueue)
    /\ UNCHANGED <<pushed, text, owner, torn, receive, process, depth_data_, calc>>

-----------------------------------------------------------------------------

Hub ==
    \/ HubPrice
    \/ \E symbol \in Symbols, book \in Books, slot \in Slots : OnDepth(symbol, book, slot)
    \/ \E slot \in Slots : Overwrite(slot)

DataReceiveStep == HandleDepthData \/ ReturnDepthData
DataProcessStep == MakeEnhanced \/ StoreObject \/ DeliverEnhanced \/ ReturnEnhanced

Alive == process.handler.at \notin {"fault", "destroyed"}

Next == Alive /\ (Hub \/ DataReceiveStep \/ DataProcessStep \/ Broadcast \/ DestroyDataProcess)

Spec == Init /\ [][Next]_vars

-----------------------------------------------------------------------------

(* The enhanced data of a new symbol have two owners that do not know of   *)
(* each other, their packages and an entry of depth_data_.  As long as     *)
(* DataProcess is not destructed the entries free nothing, because none is *)
(* ever replaced: for that the symbol would have to change between its     *)
(* lookup (data_process.cpp:96) and its insertion (98).  What is freed     *)
(* twice, or while a package refers to it, is then what the entries own    *)
(* when DataProcess is destructed, the first data of each symbol.          *)
EntriesFreeAtExit ==
    /\ \A n \in Updates : "entry" \in object[n].freed =>
          \/ process.handler.at = "destroyed" /\ \E key \in DOMAIN depth_data_ : depth_data_[key] = n
          \/ \E key \in DOMAIN depth_data_ : depth_data_[key] \in torn
    /\ \A n \in Updates : object[n].refs > 0 => "package" \notin object[n].freed

(* The sums that are sent, from storage that was not given back, are those *)
(* of the volumes up to each level, for every side that fits into its      *)
(* array; too many asks do no harm to the bids.                            *)
SumsRight ==
    \A x \in sent, side \in {"asks", "bids"} :
        LET volumes == pushed[x.n].book[side]
            sums == x.levels[side]
        IN  Len(volumes) <= LevelCount =>
                /\ DOMAIN sums = DOMAIN volumes
                /\ \A i \in DOMAIN sums : sums[i] = volumes[i] + IF i = 1 THEN 0 ELSE sums[i - 1]

-----------------------------------------------------------------------------
(* The worth of a decimal, in the smallest units.                          *)
Worth(a) == a.value * Power[Units - a.base]
Within(x, bound) == x <= bound /\ -x <= bound

\* Two decimals whose comparison stays within both integer types.
Near(a, d) ==
    /\ a.base <= Units /\ d.base <= Units
    /\ Fine(a, d) - Coarse(a, d) <= IntDigits
    /\ \A x \in {a, d} : Worth(x) < ValueRange * Power[Units - Fine(a, d)]

(* Prices compare, add and subtract as their worth does, whatever their    *)
(* bases, unless rescaling the coarser one overflows or the result leaves  *)
(* the range of value (the operators of SDecimal).                         *)
ArithmeticRight ==
    LET a == calc.left
        d == calc.right
        exact == IF calc.op = "plus" THEN Worth(a) + Worth(d) ELSE Worth(a) - Worth(d)
    IN  /\ \A e \in Decimals :
              Near(Quote, e) => /\ Less(Quote, e) <=> Worth(Quote) < Worth(e)
                                /\ Equals(Quote, e) <=> Worth(Quote) = Worth(e)
        /\ calc.op \in {"plus", "minus"} /\ Near(a, d) /\ exact \in 0..ValueRange * Power[Units - Fine(a, d)] - 1
              => Worth(calc.out) = exact

(* Rounding to fewer places never raises a price, and lowers it by less    *)
(* than a unit of the last place kept.                                     *)
RoundsDown ==
    LET a == calc.left
    IN  calc.op = "round" /\ a.base <= Units /\ a.base - calc.right <= IntDigits =>
            /\ Worth(calc.out) <= Worth(a)
            /\ Worth(a) - Worth(calc.out) < Power[Units - calc.out.base]

(* A price read from a text is less than two units of its last place off,  *)
(* unless the text has no point and is cut, as long as it needs no more    *)
(* places than an int has digits and is in the range of value.             *)
TextsNear ==
    LET a == calc.left
        exact == a.digits * Power[Units - Places(a)]
    IN  (calc.op = "text" /\ Places(a) <= Units /\ Quote.base <= IntDigits
            /\ (a.places # NoPoint \/ calc.right = -1)
            /\ exact < (ValueRange - 1) * Power[Units - Quote.base])
        => Within(Worth(Quote) - exact, 2 * Power[Units - Quote.base] - 1)

(* A price made of a positive double is within the bias of it, or adding   *)
(* places was given up, which is not the case if fewer places than an int  *)
(* has digits were there at first and that many suffice.  That holds       *)
(* whatever the storage of the price held before; but what a negative      *)
(* double leaves there is just that (decimal.h:17-19, 37-45).              *)
DoublesNear ==
    LET a == calc.left
        start == calc.right
        exact == a.digits * Power[Units - a.places]
        tolerance == IF calc.op = "construct" THEN InitTolerance ELSE Tolerance
        near == Quote.base <= IntDigits /\ Within((Worth(Quote) - exact) * tolerance, exact)
        gaveUp == Quote.base = (start.base + Limit + 1) % BaseRange
        suffices == /\ start.base < IntDigits /\ a.places <= IntDigits
                    /\ a.digits * Power[IntDigits - a.places] \in tolerance..ValueRange - 1
    IN  calc.op \in {"construct", "from"} /\ a.places <= Units =>
            /\ a.digits > 0 => (near \/ gaveUp) /\ (suffices => near)
            /\ a.digits = 0 => Quote.value = 0

\* Conversions to SDecimal, of either kind.
ConversionsNear == TextsNear /\ DoublesNear

=============================================================================
