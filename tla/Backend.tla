------------------------------ MODULE Backend ------------------------------
(***************************************************************************)
(* Backend.New and Backend.Start (src/core/backend.go): the main          *)
(* goroutine launches the monitor, filter and RPC services in goroutines, *)
(* installs the deferred cleanup, registers for SIGINT/SIGTERM on a       *)
(* buffered channel and blocks on it; when the signal arrives it stops    *)
(* the RPC and filter services and returns, which ends the process.       *)
(*                                                                         *)
(* The services' own loops are outside src/: the monitor persists blocks  *)
(* one after the other, the filter indexes persisted blocks from the      *)
(* block it was started with. A goroutine launched by `go` runs its       *)
(* Start at some later step, possibly after the cleanup stopped it. A     *)
(* signal that arrives before signal.Notify ends the process at once.      *)
(***************************************************************************)
EXTENDS Naturals, FiniteSets

CONSTANT NumBlocks    \* blocks the monitor can persist in a run

Services == {"monitor", "filter", "rpc"}

VARIABLES
    main,           \* the main goroutine's position in New/Start
    lastPersisted,  \* Backend.lastPersisted
    pending,        \* services whose `go s.Start()` has not run Start yet
    svc,            \* service -> "new" | "running" | "stopped"
    signalled,      \* SIGINT or SIGTERM has been sent
    buffered,       \* the signal sits in the sigs channel
    persisted,      \* the database's persisted frontier (blocks 0..persisted-1)
    filterFrom,     \* the block filter.Start was given
    filtered        \* the blocks the filter has indexed

vars == <<main, lastPersisted, pending, svc, signalled, buffered, persisted,
          filterFrom, filtered>>

Blocks == 0..(NumBlocks - 1)
Positions == {"goMonitor", "goFilter", "goRpc", "notify", "wait", "recv",
              "stopRpc", "stopFilter", "exited", "killed"}
Alive == main \notin {"exited", "killed"}

\* New: a fresh in-memory database, whose last persisted block is read once.
Init ==
    /\ persisted = 0
    /\ lastPersisted = persisted
    /\ main = "goMonitor"
    /\ pending = {}
    /\ svc = [s \in Services |-> "new"]
    /\ signalled = FALSE /\ buffered = FALSE
    /\ filterFrom = 0
    /\ filtered = {}

-----------------------------------------------------------------------------
(***************************************************************************)
(* The main goroutine.                                                     *)
(***************************************************************************)
Step(from, to) == main = from /\ main' = to

GoMonitor ==
    /\ Step("goMonitor", "goFilter")
    /\ pending' = pending \cup {"monitor"}
    /\ UNCHANGED <<lastPersisted, svc, signalled, buffered, persisted,
                   filterFrom, filtered>>

\* go b.filter.Start(b.lastPersisted): the argument is evaluated here.
GoFilter ==
    /\ Step("goFilter", "goRpc")
    /\ filterFrom' = lastPersisted
    /\ pending' = pending \cup {"filter"}
    /\ UNCHANGED <<lastPersisted, svc, signalled, buffered, persisted, filtered>>

GoRpc ==
    /\ Step("goRpc", "notify")
    /\ pending' = pending \cup {"rpc"}
    /\ UNCHANGED <<lastPersisted, svc, signalled, buffered, persisted,
                   filterFrom, filtered>>

\* defer registered, sigs := make(chan os.Signal, 1), signal.Notify.
Notify ==
    /\ Step("notify", "wait")
    /\ UNCHANGED <<lastPersisted, pending, svc, signalled, buffered, persisted,
                   filterFrom, filtered>>

\* Notify has returned; the goroutine reaches <-sigs and blocks there.
WaitSignal ==
    /\ Step("wait", "recv")
    /\ UNCHANGED <<lastPersisted, pending, svc, signalled, buffered, persisted,
                   filterFrom, filtered>>

\* <-sigs returns: Start begins to return and runs the deferred cleanup.
Receive ==
    /\ main = "recv" /\ buffered
    /\ main' = "stopRpc"
    /\ buffered' = FALSE
    /\ UNCHANGED <<lastPersisted, pending, svc, signalled, persisted,
                   filterFrom, filtered>>

\* The deferred b.rpc.Stop() and b.filter.Stop(); then the process ends.
StopService(from, to, s) ==
    /\ Step(from, to)
    /\ svc' = [svc EXCEPT ![s] = "stopped"]
    /\ UNCHANGED <<lastPersisted, pending, signalled, buffered, persisted,
                   filterFrom, filtered>>

StopRpc == StopService("stopRpc", "stopFilter", "rpc")
StopFilter == StopService("stopFilter", "exited", "filter")

MainStep == GoMonitor \/ GoFilter \/ GoRpc \/ Notify \/ WaitSignal \/ Receive
            \/ StopRpc \/ StopFilter

-----------------------------------------------------------------------------
(***************************************************************************)
(* The environment and the service goroutines.                             *)
(***************************************************************************)
KilledAt == {"goMonitor", "goFilter", "goRpc", "notify"}

\* Mutant: sigs unbuffered; signal.Notify's non-blocking send is dropped
\* unless the main goroutine is already blocked in <-sigs.
SignalUnbuffered ==
    /\ Alive /\ ~signalled
    /\ signalled' = TRUE
    /\ IF main \in KilledAt
       THEN main' = "killed" /\ UNCHANGED buffered
       ELSE buffered' = (main = "recv") /\ UNCHANGED main
    /\ UNCHANGED <<lastPersisted, pending, svc, persisted, filterFrom, filtered>>

\* SIGINT/SIGTERM: queued on sigs once Notify ran, fatal before.
Signal ==
    /\ Alive /\ ~signalled
    /\ signalled' = TRUE
    /\ IF main \in KilledAt
       THEN main' = "killed" /\ UNCHANGED buffered
       ELSE buffered' = TRUE /\ UNCHANGED main
    /\ UNCHANGED <<lastPersisted, pending, svc, persisted, filterFrom, filtered>>

\* A launched goroutine runs s.Start().
StartService(s) ==
    /\ Alive /\ s \in pending
    /\ pending' = pending \ {s}
    /\ svc' = [svc EXCEPT ![s] = "running"]
    /\ UNCHANGED <<main, lastPersisted, signalled, buffered, persisted,
                   filterFrom, filtered>>

\* The running monitor persists the next block.
PersistBlock ==
    /\ Alive /\ svc["monitor"] = "running"
    /\ persisted < NumBlocks
    /\ persisted' = persisted + 1
    /\ UNCHANGED <<main, lastPersisted, pending, svc, signalled, buffered,
                   filterFrom, filtered>>

\* The running filter indexes its next persisted block.
FilterBlock ==
    /\ Alive /\ svc["filter"] = "running"
    /\ \E b \in filterFrom..(persisted - 1) :
          /\ b \notin filtered
          /\ \A x \in filterFrom..(b - 1) : x \in filtered
          /\ filtered' = filtered \cup {b}
    /\ UNCHANGED <<main, lastPersisted, pending, svc, signalled, buffered,
                   persisted, filterFrom>>

Next ==
    \/ MainStep \/ Signal \/ PersistBlock \/ FilterBlock
    \/ \E s \in Services : StartService(s)

(***************************************************************************)
(* The Go scheduler runs every runnable goroutine eventually: weak        *)
(* fairness for the main goroutine and each service. Signals are not      *)
(* forced.                                                                 *)
(***************************************************************************)
Spec == /\ Init /\ [][Next]_vars
        /\ WF_vars(MainStep) /\ WF_vars(PersistBlock) /\ WF_vars(FilterBlock)
        /\ \A s \in Services : WF_vars(StartService(s))

-----------------------------------------------------------------------------
(***************************************************************************)
(* Properties                                                              *)
(***************************************************************************)

(***************************************************************************)
(* Every SIGINT or SIGTERM ends the process: before signal.Notify by the  *)
(* default action, after it through <-sigs and the deferred cleanup. A    *)
(* signal arriving between Notify and the receive is kept only because    *)
(* sigs has a buffer of one; signal.Notify never blocks to deliver.       *)
(***************************************************************************)
ShutdownOnSignal == signalled ~> ~Alive

=============================================================================
