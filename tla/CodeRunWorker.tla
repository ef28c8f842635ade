---------------------------- MODULE CodeRunWorker ----------------------------
(***************************************************************************)
(* runInWorker: a code run in a worker thread.  The main thread makes a    *)
(* worker, a timer and a promise; the worker's message, error and exit     *)
(* events and the timer race for the promise, and whichever comes first    *)
(* settles it.  Every run has a worker, a timer and a promise of its own   *)
(* (they live in one closure), so a late event of one run cannot disturb   *)
(* another.                                                                *)
(*                                                                         *)
(* A value is abstracted to its presence.  Time is counted per run in      *)
(* units of which MaxDelay is the largest a timer can wait: setTimeout     *)
(* keeps its delay in 31 bits and takes 1 for a larger one.                *)
(***************************************************************************)
EXTENDS Naturals, Sequences

CONSTANTS
  Runs,       \* code runs
  Timeouts,   \* timeoutMs of a request; the preflight accepts any positive one
  Grace,      \* grace period of the timer over the timeout of the vm
  MaxDelay,   \* largest delay of setTimeout
  MaxAge      \* bound on the time a run is observed for

\* What the constants must satisfy; the module that composes assumes it.
WorkerConstants ==
  /\ Timeouts \subseteq Nat \ {0}
  /\ Grace \in Nat /\ MaxDelay \in Nat \ {0} /\ MaxAge \in Nat
  /\ \A t \in Timeouts : t + Grace <= MaxDelay => t + Grace <= MaxAge

VARIABLE run   \* the runs: worker, its undelivered events, timer, promise

\* "lingering" has posted its message, "exited" ended with code 0, "failed"
\* with code 1.
WorkerStates ==
  {"absent", "working", "lingering", "terminating", "exited", "failed"}

Gone == {"exited", "failed"}

Events == {"value", "failure", "error", "exit 0", "exit 1"}

Promises == {"none", "pending", "resolved", "rejected", "timed out"}

Run ==
  [worker : WorkerStates, inbox : Seq(Events),
   timer : {"unset", "armed", "cleared", "fired"},
   timeoutMs : Timeouts \cup {0}, age : 0 .. MaxAge, promise : Promises]

NoRun ==
  [worker |-> "absent", inbox |-> <<>>, timer |-> "unset", timeoutMs |-> 0,
   age |-> 0, promise |-> "none"]

InitRun == run = [r \in Runs |-> NoRun]

Settled(r) == run[r].promise \notin {"none", "pending"}

-----------------------------------------------------------------------------
(* The main thread.                                                        *)

\* The delay a timer really waits when asked for d.
Delay(d) == IF d > MaxDelay THEN 1 ELSE d

Started(t) ==
  [NoRun EXCEPT !.worker = "working", !.timer = "armed", !.timeoutMs = t,
                !.promise = "pending"]

\* The request passed the preflight: worker, timer and handlers are set up.
StartRun(r) ==
  /\ run[r].promise = "none"
  /\ \E t \in Timeouts : run' = [run EXCEPT ![r] = Started(t)]

\* The first call of resolve or reject counts.
Settle(o, outcome) ==
  [o EXCEPT !.promise = IF @ = "pending" THEN outcome ELSE @]

ClearTimeout(o) ==
  [o EXCEPT !.timer = IF @ = "armed" THEN "cleared" ELSE @]

Terminate(o) ==
  [o EXCEPT !.worker = IF @ \in Gone THEN @ ELSE "terminating"]

\* Mutant: an error leaves the timer armed.
HandledTimerKept(o, event) ==
  CASE event = "value"   -> Settle(Terminate(ClearTimeout(o)), "resolved")
    [] event = "failure" -> Settle(Terminate(ClearTimeout(o)), "rejected")
    [] event \in {"error", "exit 1"} -> Settle(o, "rejected")
    [] event = "exit 0"  -> ClearTimeout(o)

\* Mutant: a message does not terminate its worker.
HandledNotTerminated(o, event) ==
  CASE event = "value"   -> Settle(ClearTimeout(o), "resolved")
    [] event = "exit 0"  -> ClearTimeout(o)
    [] OTHER             -> Settle(ClearTimeout(o), "rejected")

\* Mutant: no exit of the worker settles the promise.
HandledExitIgnored(o, event) ==
  CASE event = "value"   -> Settle(Terminate(ClearTimeout(o)), "resolved")
    [] event = "failure" -> Settle(Terminate(ClearTimeout(o)), "rejected")
    [] event = "error"   -> Settle(ClearTimeout(o), "rejected")
    [] OTHER             -> ClearTimeout(o)

\* The handlers of the events of the worker.
Handled(o, event) ==
  CASE event = "value"   -> Settle(Terminate(ClearTimeout(o)), "resolved")
    [] event = "failure" -> Settle(Terminate(ClearTimeout(o)), "rejected")
    [] event = "error"   -> Settle(ClearTimeout(o), "rejected")
    [] event = "exit 0"  -> ClearTimeout(o)
    [] event = "exit 1"  -> Settle(ClearTimeout(o), "rejected")

\* The event loop delivers an event of the worker.
Deliver(r) ==
  /\ run[r].inbox # <<>>
  /\ run' = [run EXCEPT ![r] =
       Handled([run[r] EXCEPT !.inbox = Tail(@)], Head(run[r].inbox))]

\* The timer, due since timeoutMs + Grace, is served.
TimerFires(r) ==
  /\ run[r].timer = "armed"
  /\ run[r].age >= Delay(run[r].timeoutMs + Grace)
  /\ run' = [run EXCEPT ![r] =
       Settle(Terminate([run[r] EXCEPT !.timer = "fired"]), "timed out")]

\* Time passes for a run whose timer is armed.
Tick(r) ==
  /\ run[r].timer = "armed"
  /\ run[r].age < MaxAge
  /\ run' = [run EXCEPT ![r].age = @ + 1]

-----------------------------------------------------------------------------
(* The worker thread.                                                      *)

WorkerMoves(r, from, to, events) ==
  /\ run[r].worker = from
  /\ run' = [run EXCEPT ![r].worker = to, ![r].inbox = @ \o events]

\* The script's promise fulfils, or it rejects, the script throws or the vm
\* times out: the worker posts a message.  What else the script started may
\* keep the worker alive.
WorkerPosts(r) ==
  \E message \in {"value", "failure"} :
    WorkerMoves(r, "working", "lingering", <<message>>)

\* An error nobody catches: the script does not compile, its value cannot be
\* cloned, the memory cap is exceeded.
WorkerFails(r) == WorkerMoves(r, "working", "failed", <<"error", "exit 1">>)

\* The memory cap can also end the thread without an error event.
WorkerDies(r) ==
  \E from \in {"working", "lingering"} : WorkerMoves(r, from, "failed", <<"exit 1">>)

\* Nothing is left to do: the script's promise is still pending, with no event
\* that could settle it, or its message is posted.
WorkerEnds(r) ==
  \E from \in {"working", "lingering"} : WorkerMoves(r, from, "exited", <<"exit 0">>)

WorkerTerminates(r) == WorkerMoves(r, "terminating", "failed", <<"exit 1">>)

-----------------------------------------------------------------------------
WorkerStep(r) ==
  \/ Deliver(r) \/ TimerFires(r) \/ Tick(r)
  \/ WorkerPosts(r) \/ WorkerFails(r) \/ WorkerDies(r) \/ WorkerEnds(r)
  \/ WorkerTerminates(r)


-----------------------------------------------------------------------------
\* The type of the runs, part of the type invariant of the gateway.
RunTypeOK == run \in [Runs -> Run]
=============================================================================
