----------------------------- MODULE Lifecycle -----------------------------
(***************************************************************************)
(* The life of a node (src/main.go): main opens the store, starts one part *)
(* after the other, waits for an interrupt, and stops what it has deferred *)
(* to stop, last first.  Miner, RPC server and the printer of the sync     *)
(* state are goroutines: they get to run when the scheduler likes, main    *)
(* waits for none of them, and has nothing to stop the miner and the       *)
(* printer with.                                                           *)
(***************************************************************************)
EXTENDS Naturals, Sequences, SequencesExt

Goroutines == {"miner", "rpc", "printer"}

Parts == {"store", "spv", "server"} \cup Goroutines

\* What a part works with once it runs: what it was given in its config.
Uses ==
  [p \in Parts |->
     CASE p = "server"         -> {"store", "spv"}
       [] p \in {"miner", "rpc"} -> {"store", "spv", "server"}
       [] p = "printer"        -> {"store", "server"}
       [] OTHER                -> {}]

VARIABLES
  enabled,   \* what the configuration enables of miner and RPC server
  step,      \* what main does next, or how it ended
  signalled, \* the interrupt channel has something to receive
  defers,    \* the deferred stops
  up,        \* the parts that run; the store runs when it is open
  pending,   \* goroutines that were created and have not run yet
  unstopped, \* parts that were stopped before they ran
  late,      \* pairs of a part and a part that it used while that was down
  interrupted  \* there was an interrupt

lifeVars == <<enabled, step, signalled, defers, up, pending, unstopped, late, interrupted>>

Ended == {"returned", "fatal", "killed"}

-----------------------------------------------------------------------------
LifeInit ==
  /\ enabled \in SUBSET {"miner", "rpc"}
  /\ step = "interrupts" /\ signalled = FALSE
  /\ defers = << >> /\ up = {} /\ pending = {} /\ unstopped = {} /\ late = {}
  /\ interrupted = FALSE

\* What main does at step s, before it goes on to step next.
At(s, next) == step = s /\ step' = next

NewInterrupt ==
  /\ At("interrupts", "store")
  /\ UNCHANGED <<enabled, signalled, defers, up, pending, unstopped, late, interrupted>>

\* Mutant of StartPart: nothing is deferred.
StartPartOnly(p) ==
  /\ up' = up \cup {p}
  /\ UNCHANGED <<enabled, signalled, defers, pending, unstopped, late, interrupted>>

\* A part is started and its stop deferred.
StartPart(p) ==
  /\ up' = up \cup {p}
  /\ defers' = Append(defers, p)
  /\ UNCHANGED <<enabled, signalled, pending, unstopped, late, interrupted>>

OpenStore == At("store", "address") /\ StartPart("store")

GenesisAddress ==
  /\ At("address", "spv")
  /\ UNCHANGED <<enabled, signalled, defers, up, pending, unstopped, late, interrupted>>

StartSpv == At("spv", "chain") /\ StartPart("spv")

NewChain ==
  /\ At("chain", "server")
  /\ UNCHANGED <<enabled, signalled, defers, up, pending, unstopped, late, interrupted>>

StartServer == At("server", "miner") /\ StartPart("server")

\* Each of these may fail: os.Exit runs no deferred call.
Fatal ==
  /\ step \in {"store", "address", "spv", "chain", "server"}
  /\ step' = "fatal"
  /\ UNCHANGED <<enabled, signalled, defers, up, pending, unstopped, late, interrupted>>

Go(S) == pending' = pending \cup (S \cap (enabled \cup {"printer"}))

GoMiner ==
  /\ At("miner", "rpc") /\ Go({"miner"})
  /\ UNCHANGED <<enabled, signalled, defers, up, unstopped, late, interrupted>>

GoRPC ==
  /\ At("rpc", "printer") /\ Go({"rpc"})
  /\ defers' = IF "rpc" \in enabled THEN Append(defers, "rpc") ELSE defers
  /\ UNCHANGED <<enabled, signalled, up, unstopped, late, interrupted>>

GoPrinter ==
  /\ At("printer", "wait") /\ Go({"printer"})
  /\ UNCHANGED <<enabled, signalled, defers, up, unstopped, late, interrupted>>

Wait ==
  /\ signalled /\ At("wait", "stopping")
  /\ UNCHANGED <<enabled, signalled, defers, up, pending, unstopped, late, interrupted>>

\* Stopping a part that has not run is in vain (base library).
Stop(p) ==
  /\ up' = up \ {p}
  /\ unstopped' = IF p \in up THEN unstopped ELSE unstopped \cup {p}

\* Mutant of RunDeferred: the deferred calls run first in, first out.
RunDeferredFirst ==
  /\ step = "stopping" /\ defers # << >>
  /\ Stop(Head(defers)) /\ defers' = Tail(defers)
  /\ UNCHANGED <<enabled, step, signalled, pending, late, interrupted>>

RunDeferred ==
  /\ step = "stopping" /\ defers # << >>
  /\ Stop(Last(defers)) /\ defers' = Front(defers)
  /\ UNCHANGED <<enabled, step, signalled, pending, late, interrupted>>

Return ==
  /\ defers = << >> /\ At("stopping", "returned")
  /\ UNCHANGED <<enabled, signalled, defers, up, pending, unstopped, late, interrupted>>

MainStep ==
  \/ NewInterrupt \/ OpenStore \/ GenesisAddress \/ StartSpv \/ NewChain \/ StartServer
  \/ Fatal \/ GoMiner \/ GoRPC \/ GoPrinter \/ Wait \/ RunDeferred \/ Return

-----------------------------------------------------------------------------
(* Everything else happens while the process is there.                     *)

\* A goroutine starts to run; the RPC server may find its port taken.
Run(g) ==
  /\ step \notin Ended /\ g \in pending
  /\ pending' = pending \ {g}
  /\ up' = up \cup {g} \/ (g = "rpc" /\ UNCHANGED up)
  /\ UNCHANGED <<enabled, step, signalled, defers, unstopped, late, interrupted>>

\* A part that runs uses another, which may be down.
Use(p, q) ==
  /\ step \notin Ended /\ p \in up /\ q \in Uses[p]
  /\ late' = IF q \in up THEN late ELSE late \cup {<<p, q>>}
  /\ UNCHANGED <<enabled, step, signalled, defers, up, pending, unstopped, interrupted>>

\* Mutant of Interrupt: a signal that nobody is waiting for is dropped.
InterruptUnbuffered ==
  /\ step \notin Ended
  /\ IF step = "interrupts"
     THEN step' = "killed" /\ UNCHANGED signalled
     ELSE signalled' = (signalled \/ step = "wait") /\ UNCHANGED step
  /\ interrupted' = TRUE
  /\ UNCHANGED <<enabled, defers, up, pending, unstopped, late>>

\* The signal waits in the channel; before NewInterrupt it ends the process.
Interrupt ==
  /\ step \notin Ended
  /\ IF step = "interrupts"
     THEN step' = "killed" /\ UNCHANGED signalled
     ELSE signalled' = TRUE /\ UNCHANGED step
  /\ interrupted' = TRUE
  /\ UNCHANGED <<enabled, defers, up, pending, unstopped, late>>

LifeNext ==
  \/ MainStep
  \/ \E g \in Goroutines : Run(g)
  \/ \E p, q \in Parts : Use(p, q)
  \/ Interrupt

\* Main is a goroutine that the scheduler does not starve, and no start or
\* stop hangs.
LifeSpec == LifeInit /\ [][LifeNext]_lifeVars /\ WF_lifeVars(MainStep)

-----------------------------------------------------------------------------
(* Properties.                                                             *)

\* A part that main has no hold on: the miner, the printer, and an RPC server
\* whose Stop came before its Start.
Abandoned(p) == p \in {"miner", "printer"} \cup unstopped

\* Nothing uses a part that is not there yet, and what uses a part that is
\* gone is abandoned and does so while main is stopping: the order of the
\* deferred calls protects everything else.
LateUsersAbandoned ==
  \A pair \in late : step \in {"stopping", "returned"} /\ Abandoned(pair[1])

\* A node that returns was interrupted, has closed its store and has stopped
\* whatever it had started but the abandoned.
ReturnStopsAll ==
  step = "returned" => interrupted /\ \A p \in up : Abandoned(p)

\* An interrupt ends the node, even if it comes while the node is starting.
InterruptEnds == interrupted ~> step \in Ended
=============================================================================
