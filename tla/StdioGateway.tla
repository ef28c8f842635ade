---------------------------- MODULE StdioGateway ----------------------------
(***************************************************************************)
(* The stdio transport with turns that may run sandboxed code: the turn of *)
(* a message waits for the promise of its code run.                        *)
(***************************************************************************)
EXTENDS StdioTransport

CONSTANTS
  RunMessages,  \* bound: the messages whose turn may run code
  Timeouts, Grace, MaxDelay, MaxAge   \* see CodeRunWorker

VARIABLE run

Worker == INSTANCE CodeRunWorker WITH Runs <- RunMessages

ASSUME GatewayAssumption ==
  /\ RunMessages \subseteq Numbers
  /\ Worker!WorkerConstants

vars == <<sent, wire, lineBuffer, drains, runtime, runtimes, out, run>>

Init == InitTransport /\ Worker!InitRun

\* The turn of drain d waits for its code run.
WaitsForRun(d) ==
  drains[d].msg \in RunMessages /\ run[drains[d].msg].promise = "pending"

\* The turn passed its gates and executes its code run.
TurnRunsCode(d) ==
  /\ drains[d].pc = "turn"
  /\ drains[d].msg \in RunMessages
  /\ Worker!StartRun(drains[d].msg)
  /\ UNCHANGED transportVars

\* The turn ends without a code run or after it is settled.
GatewayTurnEnds(d) ==
  /\ drains[d].pc = "turn"
  /\ ~WaitsForRun(d)
  /\ TurnEnds(d)
  /\ UNCHANGED run

Next ==
  \/ (PipeStep \/ BootstrapSucceeds) /\ UNCHANGED run
  \/ \E d \in DOMAIN drains :
       (DrainStep(d) /\ UNCHANGED run) \/ TurnRunsCode(d) \/ GatewayTurnEnds(d)
  \/ \E r \in RunMessages : Worker!WorkerStep(r) /\ UNCHANGED transportVars

\* Event-loop fairness: chunks arrive, a drain that can move moves, the
\* bootstrap settles and a turn that waits for nothing ends.  The client and
\* the code it has run are not fair.
Fairness ==
  /\ WF_vars(\E n \in 1 .. Len(wire) : Data(n) /\ UNCHANGED run)
  /\ WF_vars(BootstrapSucceeds /\ UNCHANGED run)
  /\ \A d \in 1 .. 2 * MaxMessages :
       /\ WF_vars(d \in DOMAIN drains /\ DrainStep(d) /\ UNCHANGED run)
       /\ WF_vars(d \in DOMAIN drains /\ GatewayTurnEnds(d))
  /\ \A r \in RunMessages :
       /\ WF_vars(Worker!Deliver(r) /\ UNCHANGED transportVars)
       /\ WF_vars(Worker!TimerFires(r) /\ UNCHANGED transportVars)
       /\ WF_vars(Worker!Tick(r) /\ UNCHANGED transportVars)
       /\ WF_vars(Worker!WorkerTerminates(r) /\ UNCHANGED transportVars)

Spec == Init /\ [][Next]_vars

FairSpec == Spec /\ Fairness

-----------------------------------------------------------------------------
(* Properties.                                                             *)

TypeOK == TransportTypeOK /\ Worker!RunTypeOK

\* A settled run leaves no timer that could fire (runInWorker).
TimerReleased ==
  \A r \in RunMessages : Worker!Settled(r) => run[r].timer # "armed"

\* A turn waits for a code run whose worker exited with code 0 without having
\* posted a message, and no event or timer is left to settle the promise.
Abandoned(r) ==
  /\ run[r].promise = "pending" /\ run[r].worker = "exited"
  /\ run[r].inbox = <<>> /\ run[r].timer # "armed"

\* Every message that has an answer is answered in the end, unless a code run
\* is abandoned: timeouts, failing workers and failing bootstraps do not block
\* the queue.
AnsweredUnlessAbandoned ==
  \A i \in Numbers :
    (i <= Len(sent) /\ DeservesAnswer(sent[i]))
      ~> (IsAnswered(i) \/ \E r \in RunMessages : Abandoned(r))

\* Every message that has an answer is answered in the end ("timeout + memory
\* cap" bound a code run).
EveryMessageAnswered ==
  \A i \in Numbers :
    (i <= Len(sent) /\ DeservesAnswer(sent[i])) ~> IsAnswered(i)

\* The worker of a settled run is stopped, though its script may have more to
\* do (runInWorker terminates it).
WorkerReleased ==
  \A r \in RunMessages : Worker!Settled(r) ~> run[r].worker \in Worker!Gone
=============================================================================
