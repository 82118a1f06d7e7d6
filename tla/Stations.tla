------------------------------ MODULE Stations ------------------------------
(***************************************************************************)
(* The two stations every market data update crosses before it reaches the *)
(* front server: DataReceive (hub callbacks, data_receive.cpp) and         *)
(* DataProcess (data_process.cpp).  Each station runs the tasks posted to  *)
(* its own io_service, one after the other, on its own thread; a station   *)
(* hands a package on by posting a task to its neighbour.                  *)
(*                                                                         *)
(* A package keeps what the stations tell apart: its type id, the symbols  *)
(* its field names and the number of the hub update it carries.  Package   *)
(* ids are left out, no station reads them.                                *)
(***************************************************************************)
EXTENDS Integers, Sequences, FiniteSets

CONSTANTS
    Symbols,      \* the trading symbols the hub knows
    MaxUpdates,   \* bound: depth updates pushed by the hub
    MaxExtras,    \* bound: kline pushes, test packages and resync requests
    IsTest,       \* DataReceive::is_test_
    Resync        \* whether anybody calls FrontServer::request_all_symbol

ASSUME SymbolsAssumption == IsFiniteSet(Symbols)
ASSUME BoundsAssumption == MaxUpdates \in Nat /\ MaxExtras \in Nat
ASSUME SwitchAssumption == IsTest \in BOOLEAN /\ Resync \in BOOLEAN

VARIABLES
    phase,        \* how far ServerEngine::launch has come
    clock,        \* updates pushed so far; update k is the k-th one
    extras,       \* environment calls other than depth pushes, so far
    drQueue,      \* tasks posted to DataReceive's io_service
    dpQueue,      \* tasks posted to DataProcess's io_service
    processing,   \* what the running DataProcess handler has yet to deliver
    fsQueue,      \* tasks posted to FrontServer's io_service
    depth_data    \* DataProcess::depth_data_: the update stored per symbol

stationVars == <<phase, clock, extras, drQueue, dpQueue, processing, fsQueue,
                 depth_data>>

-----------------------------------------------------------------------------
(* Packages, and the tasks that carry them.                                *)

Tids == {"SDepthData", "KlineData", "EnhancedDepthData", "SymbolData", "RtnDepth"}

Package == [tid: Tids, syms: SUBSET Symbols, n: 0..MaxUpdates]

Pkg(tid, syms, n) == [tid |-> tid, syms |-> syms, n |-> n]

\* mutant: GetNewEnhancedDepthDataPackage without prepare_response.
EnhancedUnprepared(pkg) == Pkg("Unset", pkg.syms, pkg.n)
EnhancedDepth(pkg) == Pkg("EnhancedDepthData", pkg.syms, pkg.n)

\* mutant: GetNewSymbolDataPackage without set_symbols.
AnnouncementEmpty(syms) == Pkg("SymbolData", {}, 0)
Announcement(syms) == Pkg("SymbolData", syms, 0)

\* DataProcess is posted both requests (from the front) and responses.
Task == [call: {"request", "response"}, pkg: Package]

Response(pkg) == [call |-> "response", pkg |-> pkg]
SymbolRequest == [call |-> "request", pkg |-> Pkg("SymbolData", {}, 0)]

\* The symbols with an entry in depth_data_ (update 0 stands for no entry).
Stored == {s \in Symbols : depth_data[s] # 0}

StationsTypeOK ==
    /\ phase \in {"constructed", "receiving", "processing", "serving"}
    /\ clock \in 0..MaxUpdates
    /\ extras \in 0..MaxExtras
    /\ drQueue \in Seq(Package)
    /\ dpQueue \in Seq(Task)
    /\ processing \in Seq(Package)
    /\ fsQueue \in Seq(Package)
    /\ depth_data \in [Symbols -> 0..MaxUpdates]

StationsInit ==
    /\ phase = "constructed"
    /\ clock = 0
    /\ extras = 0
    /\ drQueue = <<>>
    /\ dpQueue = <<>>
    /\ processing = <<>>
    /\ fsQueue = <<>>
    /\ depth_data = [s \in Symbols |-> 0]

-----------------------------------------------------------------------------
(* ServerEngine::launch, one station after the other.  The pool runs       *)
(* already; the hub may call back as soon as DataReceive is launched.      *)

LaunchReceive ==
    /\ phase = "constructed"
    /\ phase' = "receiving"
    /\ UNCHANGED <<clock, extras, drQueue, dpQueue, processing, fsQueue, depth_data>>

LaunchProcess ==
    /\ phase = "receiving"
    /\ phase' = "processing"
    /\ UNCHANGED <<clock, extras, drQueue, dpQueue, processing, fsQueue, depth_data>>

LaunchFront ==
    /\ phase = "processing"
    /\ phase' = "serving"
    /\ UNCHANGED <<clock, extras, drQueue, dpQueue, processing, fsQueue, depth_data>>

-----------------------------------------------------------------------------
(* DataReceive.                                                            *)

\* A hub thread pushes a depth update of symbol s: the callback copies it
\* into a task for the station's thread.
OnDepth(s) ==
    /\ phase # "constructed"
    /\ clock < MaxUpdates
    /\ clock' = clock + 1
    /\ drQueue' = Append(drQueue, Pkg("SDepthData", {s}, clock + 1))
    /\ UNCHANGED <<phase, extras, dpQueue, processing, fsQueue, depth_data>>

OnKline(s) ==
    /\ phase # "constructed"
    /\ extras < MaxExtras
    /\ extras' = extras + 1
    /\ drQueue' = Append(drQueue, Pkg("KlineData", {s}, 0))
    /\ UNCHANGED <<phase, clock, dpQueue, processing, fsQueue, depth_data>>

\* The package handle_depth_data makes of a depth task.
HandleDepthData ==
    /\ drQueue # <<>>
    /\ Head(drQueue).tid = "SDepthData"
    /\ drQueue' = Tail(drQueue)
    /\ dpQueue' = Append(dpQueue, Response(Head(drQueue)))
    /\ UNCHANGED <<phase, clock, extras, processing, fsQueue, depth_data>>

\* handle_kline_data has an empty body: klines end here.
HandleKlineData ==
    /\ drQueue # <<>>
    /\ Head(drQueue).tid = "KlineData"
    /\ drQueue' = Tail(drQueue)
    /\ UNCHANGED <<phase, clock, extras, dpQueue, processing, fsQueue, depth_data>>

\* The test thread delivers from its own thread, past DataReceive's queue.
TestMain ==
    /\ IsTest
    /\ phase # "constructed"
    /\ extras < MaxExtras
    /\ extras' = extras + 1
    /\ dpQueue' = Append(dpQueue, Response(Pkg("RtnDepth", {}, 0)))
    /\ UNCHANGED <<phase, clock, drQueue, processing, fsQueue, depth_data>>

-----------------------------------------------------------------------------
(* DataProcess.                                                            *)

\* FrontServer::request_all_symbol, posted to DataProcess.
RequestAllSymbol ==
    /\ Resync
    /\ phase = "serving"
    /\ extras < MaxExtras
    /\ extras' = extras + 1
    /\ dpQueue' = Append(dpQueue, SymbolRequest)
    /\ UNCHANGED <<phase, clock, drQueue, processing, fsQueue, depth_data>>

\* The handler at the head of the queue starts when the last one is done.
NextTaskIs(call) ==
    /\ processing = <<>>
    /\ dpQueue # <<>>
    /\ Head(dpQueue).call = call
    /\ dpQueue' = Tail(dpQueue)

\* handle_request_message: a request for symbols is answered with the keys
\* of depth_data_.
HandleRequest ==
    /\ NextTaskIs("request")
    /\ fsQueue' = Append(fsQueue, Announcement(Stored))
    /\ UNCHANGED <<phase, clock, extras, drQueue, processing, depth_data>>

\* handle_response_message of anything but a depth package: passed on.
PassOn ==
    /\ NextTaskIs("response")
    /\ LET pkg == Head(dpQueue).pkg IN
        /\ pkg.tid # "SDepthData"
        /\ fsQueue' = Append(fsQueue, pkg)
    /\ UNCHANGED <<phase, clock, extras, drQueue, processing, depth_data>>

\* mutant: no call of process_new_symbol.
AnnounceNothing(queue, new) == queue
\* process_new_symbol, called for a symbol without an entry.
Announce(queue, new) == IF new = {} THEN queue ELSE Append(queue, Announcement(new))

\* mutant: the package is delivered only if the symbol is not new.
DeliverKnown(pkg, new) == IF new = {} THEN <<EnhancedDepth(pkg)>> ELSE <<>>
\* What process_sdepth_package delivers in its last call.
ToDeliver(pkg, new) == <<EnhancedDepth(pkg)>>

\* process_sdepth_package up to its last call: the first update of a symbol
\* is stored and the symbol announced; stored entries are never refreshed.
ProcessSDepth ==
    /\ NextTaskIs("response")
    /\ LET pkg == Head(dpQueue).pkg
           new == pkg.syms \ Stored
       IN  /\ pkg.tid = "SDepthData"
           /\ depth_data' = [s \in Symbols |-> IF s \in new THEN pkg.n ELSE depth_data[s]]
           /\ fsQueue' = Announce(fsQueue, new)
           /\ processing' = ToDeliver(pkg, new)
    /\ UNCHANGED <<phase, clock, extras, drQueue>>

\* The last call of process_sdepth_package.  The front server's thread may
\* have handled the announcement by now.
DeliverDepth ==
    /\ processing # <<>>
    /\ fsQueue' = Append(fsQueue, Head(processing))
    /\ processing' = Tail(processing)
    /\ UNCHANGED <<phase, clock, extras, drQueue, dpQueue, depth_data>>

Launch == LaunchReceive \/ LaunchProcess \/ LaunchFront

Environment ==
    \/ \E s \in Symbols : OnDepth(s) \/ OnKline(s)
    \/ TestMain
    \/ RequestAllSymbol

DataReceiveStep == HandleDepthData \/ HandleKlineData

DataProcessStep == HandleRequest \/ PassOn \/ ProcessSDepth \/ DeliverDepth

StationStep == Launch \/ Environment \/ DataReceiveStep \/ DataProcessStep
=============================================================================
