--------------------------- MODULE TurnController ---------------------------
(***************************************************************************)
(* The turn controller of the gateway, for one work scope                  *)
(* (runSessionId:workId).  Agents send turns; a turn is a chain of         *)
(* JavaScript segments separated by awaits on real I/O, and only between   *)
(* two segments can another turn run.  Slots are the turns in flight: one  *)
(* slot is the stdio transport, which answers a message before it takes    *)
(* the next, two or more are POST /turn of the dashboard server, which     *)
(* calls handleTurn on the same controller for every request.              *)
(*                                                                         *)
(* A session object belongs to the turn that created it until the turn     *)
(* ends and puts it in the sessions Map, so two first turns of one agent   *)
(* make two objects: obj[a][s] is the object that slot s made for agent a. *)
(* The arrays of planGraphProgress are shared by the sessions that copied  *)
(* the record (`{...planGraphProgress}` is shallow) while its two numbers  *)
(* are not: lists[k] holds the arrays of the k-th accepted plan.           *)
(*                                                                         *)
(* Token counts are abstracted to "over the threshold or not", the context *)
(* pack to "none", "empty" or "files", and what a request carries to what  *)
(* the handlers branch on.                                                 *)
(***************************************************************************)
EXTENDS Naturals, FiniteSets

CONSTANTS
  Agents,      \* agent ids of the work scope
  Slots,       \* turns that may be in flight at once
  Plans,       \* plan documents the validator accepts
  Nodes,       \* plan node ids
  Kind,        \* Kind[p][n]: the kind of node n in plan p, or "absent"
  MapsTo,      \* MapsTo[p][n]: mapsToNodeIds of a validate node
  MaxAccepts,  \* bound on the number of accepted plans
  None         \* no agent, no slot, no plan, no node

NodeKinds == {"change", "validate", "side_effect", "escalate"}

ASSUME ConstantsAssumption ==
  /\ None \notin Agents \cup Slots \cup Plans \cup Nodes
  /\ IsFiniteSet(Nodes)
  /\ Kind \in [Plans -> [Nodes -> NodeKinds \cup {"absent"}]]
  /\ MapsTo \in [Plans -> [Nodes -> SUBSET Nodes]]
  /\ MaxAccepts \in Nat

VARIABLES
  sessions,    \* the sessions Map: the slot whose object agent a is mapped to
  first,       \* the agent inserted first: Map iteration meets it first
  obj,         \* the session objects
  lists,       \* the arrays of each accepted plan's progress record
  accepts,     \* number of plans accepted so far
  turn         \* the turns in flight

vars == <<sessions, first, obj, lists, accepts, turn>>

-----------------------------------------------------------------------------
(* Run states, verbs and capabilities.                                     *)

RunStates == {"UNINITIALIZED", "PLANNING", "PLAN_ACCEPTED",
              "BLOCKED_BUDGET", "FAILED", "COMPLETED"}

\* Verbs whose handler leaves the session alone are told apart only by the
\* capability gate: read_file_lines stands for the reads and
\* write_scratch_file, run_automation_recipe for itself.
PrePlanCapabilities ==
  {"read_file_lines", "submit_execution_plan", "escalate", "signal_task_complete"}

PostPlanCapabilities == PrePlanCapabilities \cup
  {"apply_code_patch", "run_sandboxed_code", "execute_gated_side_effect",
   "run_automation_recipe"}

BudgetSafeVerbs == {"initialize_work", "escalate", "signal_task_complete"}

\* Mutant: COMPLETED keeps the verbs of PLANNING.
CapabilitiesForStateUnfrozen(st) ==
  CASE st = "UNINITIALIZED"  -> {"initialize_work"}
    [] st = "PLAN_ACCEPTED"  -> PostPlanCapabilities
    [] st = "BLOCKED_BUDGET" -> BudgetSafeVerbs
    [] st = "FAILED"         -> {"signal_task_complete"}
    [] OTHER                 -> PrePlanCapabilities

CapabilitiesForState(st) ==
  CASE st = "UNINITIALIZED"             -> {"initialize_work"}
    [] st = "PLAN_ACCEPTED"             -> PostPlanCapabilities
    [] st = "BLOCKED_BUDGET"            -> BudgetSafeVerbs
    [] st \in {"FAILED", "COMPLETED"}   -> {"signal_task_complete"}
    [] OTHER                            -> PrePlanCapabilities

-----------------------------------------------------------------------------
(* Session objects, progress lists and turns.                              *)

PackStates == {"none", "empty", "files"}

Session ==
  [state : RunStates, spent : BOOLEAN, contextPack : PackStates,
   planGraph : Plans \cup {None}, progress : 0 .. MaxAccepts,
   totalNodes : Nat, completedNodes : Nat]

NewSession ==
  [state |-> "UNINITIALIZED", spent |-> FALSE, contextPack |-> "none",
   planGraph |-> None, progress |-> 0, totalNodes |-> 0, completedNodes |-> 0]

ProgressLists == [done : SUBSET Nodes, eligible : SUBSET Nodes]

EmptyLists == [done |-> {}, eligible |-> {}]

Phases == {"idle", "logged", "observing", "initializing", "initialized",
           "validating", "accepting", "accepted", "mutating",
           "escalating", "escalated", "completing"}

\* blocked, state and pack are what the turn read of the budget, the run state
\* and the context pack before it waited; verb and node belong to a mutation,
\* plan and record (the number of the progress record it creates) to a
\* submission.
Turn ==
  [phase : Phases, agent : Agents \cup {None}, sess : Slots \cup {None},
   blocked : BOOLEAN, state : RunStates, pack : PackStates,
   verb : PostPlanCapabilities \cup {None}, node : Nodes \cup {None},
   plan : Plans \cup {None}, record : 0 .. MaxAccepts]

NoTurn ==
  [phase |-> "idle", agent |-> None, sess |-> None, blocked |-> FALSE,
   state |-> "UNINITIALIZED", pack |-> "none", verb |-> None, node |-> None,
   plan |-> None, record |-> 0]

NodesOfKind(p, kinds) == {n \in Nodes : Kind[p][n] \in kinds}

Actionable(p) == NodesOfKind(p, {"change", "validate", "side_effect"})

\* markEligibleValidateNodes: the validate nodes that become eligible once
\* the nodes of done are completed.
EligibleNow(p, done) ==
  {v \in NodesOfKind(p, {"validate"}) :
     /\ v \notin done
     /\ MapsTo[p][v] # {}
     /\ MapsTo[p][v] \subseteq done}

\* Mutant: a completed validate node stays eligible.
MarkedStillEligible(l, p, n) ==
  LET done == l.done \cup {n}
  IN  [done |-> done, eligible |-> l.eligible \cup EligibleNow(p, done)]

\* markNodeCompleted on the shared arrays, for a session whose plan is p.
Marked(l, p, n) ==
  LET done == l.done \cup {n}
  IN  [done |-> done, eligible |-> (l.eligible \ {n}) \cup EligibleNow(p, done)]

TypeOK ==
  /\ sessions \in [Agents -> Slots \cup {None}]
  /\ first \in Agents \cup {None}
  /\ obj \in [Agents -> [Slots -> Session]]
  /\ lists \in [1 .. MaxAccepts -> ProgressLists]
  /\ accepts \in 0 .. MaxAccepts
  /\ turn \in [Slots -> Turn]
  /\ \A s \in Slots : turn[s].phase # "idle" =>
       turn[s].agent \in Agents /\ turn[s].sess \in Slots
  /\ \A s \in Slots : turn[s].phase = "mutating" => turn[s].node \in Nodes
  /\ \A s \in Slots : turn[s].phase = "accepting" => turn[s].plan \in Plans /\ turn[s].record # 0

Init ==
  /\ sessions = [a \in Agents |-> None]
  /\ first = None
  /\ obj = [a \in Agents |-> [s \in Slots |-> NewSession]]
  /\ lists = [k \in 1 .. MaxAccepts |-> EmptyLists]
  /\ accepts = 0
  /\ turn = [s \in Slots |-> NoTurn]

-----------------------------------------------------------------------------
(* The object a turn works on, and the end of a turn.                      *)

Obj(s) == obj[turn[s].agent][turn[s].sess]

\* The run state a dispatched turn sees.
StateOf(s) == IF turn[s].blocked THEN "BLOCKED_BUDGET" ELSE Obj(s).state

\* Mutant: the state a handler asks for is not clamped.
ClampNothing(s, st) == st

\* The budget clamp on the state the turn ends in.
Clamp(s, st) ==
  IF turn[s].blocked /\ st \notin {"COMPLETED", "FAILED"}
    THEN "BLOCKED_BUDGET" ELSE st

\* The turn writes the run state it ends in on its session, puts the session
\* in the Map and releases its slot; objs are the session objects its last
\* segment leaves.
Finish(s, objs, st) ==
  LET a == turn[s].agent
      c == turn[s].sess
  IN  /\ obj' = [objs EXCEPT ![a][c].state = Clamp(s, st)]
      /\ sessions' = [sessions EXCEPT ![a] = c]
      /\ first' = IF first = None THEN a ELSE first
      /\ turn' = [turn EXCEPT ![s] = NoTurn]

\* The turn's object with one field changed.
Update(s, o) == [obj EXCEPT ![turn[s].agent][turn[s].sess] = o]

\* The turn waits for I/O in phase ph.
Await(s, ph) == turn' = [turn EXCEPT ![s].phase = ph]

-----------------------------------------------------------------------------
(* ensureSession and consumeBudget, up to the await of logInput.           *)

\* Mutant: the context pack is not inherited.
InheritedWithoutPack ==
  IF first = None THEN NewSession
  ELSE [obj[first][sessions[first]] EXCEPT !.spent = FALSE, !.contextPack = "none"]

\* The state a new agent copies from the first session of the Map.
Inherited ==
  IF first = None THEN NewSession
  ELSE [obj[first][sessions[first]] EXCEPT !.spent = FALSE]

\* A turn begins: the agent's session, or a new one that inherits from a
\* sibling, is charged, which may take it over the threshold.
Begin(s, a) ==
  /\ turn[s].phase = "idle"
  /\ \E over \in BOOLEAN :
       LET known == sessions[a] # None
           c == IF known THEN sessions[a] ELSE s
           o == IF known THEN obj[a][c] ELSE Inherited
           spent == o.spent \/ over
       IN  /\ obj' = [obj EXCEPT ![a][c] = [o EXCEPT !.spent = spent]]
           /\ turn' = [turn EXCEPT ![s] =
                [NoTurn EXCEPT !.phase = "logged", !.agent = a, !.sess = c,
                               !.blocked = spent]]
  /\ UNCHANGED <<sessions, first, lists, accepts>>

\* A handler, or the event log, fails with an exception: the turn is over,
\* its session keeps its state and a new session is never put in the Map.
Throw(s) ==
  /\ \/ turn[s].phase \in {"logged", "observing", "initializing", "validating",
                           "escalated"}
     \/ turn[s].phase = "mutating" /\ turn[s].verb # "apply_code_patch"
  /\ turn' = [turn EXCEPT ![s] = NoTurn]
  /\ UNCHANGED <<sessions, first, obj, lists, accepts>>

-----------------------------------------------------------------------------
(* The budget gate, the capability gate and what each handler does in the  *)
(* segment it is dispatched in.                                            *)

\* The budget gate refuses a verb that is not budget-safe.
DenyBudget(s) ==
  /\ turn[s].phase = "logged"
  /\ turn[s].blocked
  /\ Finish(s, obj, "BLOCKED_BUDGET")
  /\ UNCHANGED <<lists, accepts>>

\* The capability gate, a malformed request or a guard of the handler refuses
\* the turn before any I/O: the turn ends in the run state it saw.
DenySync(s) ==
  /\ turn[s].phase = "logged"
  /\ Finish(s, obj, StateOf(s))
  /\ UNCHANGED <<lists, accepts>>

\* verb passes both gates.
Dispatched(s, verb) ==
  /\ turn[s].phase = "logged"
  /\ turn[s].blocked => verb \in BudgetSafeVerbs
  /\ verb \in CapabilitiesForState(StateOf(s))

HandleObserving(s) ==
  /\ \E verb \in {"read_file_lines", "run_automation_recipe"} : Dispatched(s, verb)
  /\ turn' = [turn EXCEPT ![s].phase = "observing", ![s].state = StateOf(s)]
  /\ UNCHANGED <<sessions, first, obj, lists, accepts>>

HandleInitializeWork(s) ==
  /\ Dispatched(s, "initialize_work")
  /\ Await(s, "initializing")
  /\ UNCHANGED <<sessions, first, obj, lists, accepts>>

HandleSubmitPlan(s) ==
  /\ Dispatched(s, "submit_execution_plan")
  /\ Await(s, "validating")
  /\ UNCHANGED <<sessions, first, obj, lists, accepts>>

HandleEscalate(s) ==
  /\ Dispatched(s, "escalate")
  /\ turn' = [turn EXCEPT ![s].phase = "escalating", ![s].state = StateOf(s),
                          ![s].pack = Obj(s).contextPack]
  /\ UNCHANGED <<sessions, first, obj, lists, accepts>>

\* A mutation of node n passes the guards of its handler and the collision
\* guard, and starts its I/O.
StartMutation(s, verb, kinds, n) ==
  /\ Dispatched(s, verb)
  /\ Obj(s).planGraph # None
  /\ n \in NodesOfKind(Obj(s).planGraph, kinds)
  /\ turn' = [turn EXCEPT ![s].phase = "mutating", ![s].state = StateOf(s),
                          ![s].verb = verb, ![s].node = n]
  /\ UNCHANGED <<sessions, first, obj, lists, accepts>>

HandlePatchApply(s, n) ==
  /\ StartMutation(s, "apply_code_patch", {"change"}, n)
  /\ Obj(s).contextPack = "files"

HandleCodeRun(s, n) ==
  StartMutation(s, "run_sandboxed_code", {"change", "validate"}, n)

HandleSideEffect(s, n) ==
  StartMutation(s, "execute_gated_side_effect", {"side_effect"}, n)

\* Mutant: one node may be missing.
RemainingOffByOne(o) ==
  IF o.progress = 0 \/ o.totalNodes <= o.completedNodes + 1 THEN 0
  ELSE o.totalNodes - o.completedNodes

\* remainingNodes as signal_task_complete computes it; 0 without a plan.
Remaining(o) ==
  IF o.progress = 0 \/ o.totalNodes <= o.completedNodes THEN 0
  ELSE o.totalNodes - o.completedNodes

\* signal_task_complete is rejected with WORK_INCOMPLETE.
DenyIncomplete(s) ==
  /\ Dispatched(s, "signal_task_complete")
  /\ Remaining(Obj(s)) > 0
  /\ Finish(s, obj, StateOf(s))
  /\ UNCHANGED <<lists, accepts>>

\* signal_task_complete passes the gate and reads the memory store.
HandleSignalTaskComplete(s) ==
  /\ Dispatched(s, "signal_task_complete")
  /\ Remaining(Obj(s)) = 0
  /\ Await(s, "completing")
  /\ UNCHANGED <<sessions, first, obj, lists, accepts>>

-----------------------------------------------------------------------------
(* The later segments of the handlers.                                     *)

\* A handler without effect on the session returns, or a patch or a code run
\* fails: no stateOverride, the run state read at dispatch is written back.
FinishUnchanged(s) ==
  /\ \/ turn[s].phase = "observing"
     \/ turn[s].phase = "mutating" /\ turn[s].verb # "execute_gated_side_effect"
  /\ Finish(s, obj, turn[s].state)
  /\ UNCHANGED <<lists, accepts>>

\* createContextPack wrote the pack; the session refers to it.
StorePack(s) ==
  /\ turn[s].phase = "initializing"
  /\ \E files \in {"empty", "files"} :
       obj' = Update(s, [Obj(s) EXCEPT !.contextPack = files])
  /\ Await(s, "initialized")
  /\ UNCHANGED <<sessions, first, lists, accepts>>

FinishInitializeWork(s) ==
  /\ turn[s].phase = "initialized"
  /\ Finish(s, obj, "PLANNING")
  /\ UNCHANGED <<lists, accepts>>

\* The validator, the pack hash, the identity or the worktree root rejects
\* the plan.
RejectPlan(s) ==
  /\ turn[s].phase = "validating"
  /\ Finish(s, obj, "PLANNING")
  /\ UNCHANGED <<lists, accepts>>

\* Mutant: the turn forgets the plan it was submitted with.
StorePlanLost(s, p) ==
  /\ turn[s].phase = "validating"
  /\ accepts < MaxAccepts
  /\ accepts' = accepts + 1
  /\ obj' = Update(s, [Obj(s) EXCEPT !.planGraph = p])
  /\ turn' = [turn EXCEPT ![s].phase = "accepting", ![s].record = accepts + 1]
  /\ UNCHANGED <<sessions, first, lists>>

\* The plan passes: it replaces the session's plan, and the scope allowlist
\* is read while the old progress record is still there.  At most MaxAccepts
\* plans pass.
StorePlan(s, p) ==
  /\ turn[s].phase = "validating"
  /\ accepts < MaxAccepts
  /\ accepts' = accepts + 1
  /\ obj' = Update(s, [Obj(s) EXCEPT !.planGraph = p])
  /\ turn' = [turn EXCEPT ![s].phase = "accepting", ![s].plan = p,
                          ![s].record = accepts + 1]
  /\ UNCHANGED <<sessions, first, lists>>

\* Mutant: the counter survives a new plan.
ResetProgressKeepCount(s) ==
  /\ turn[s].phase = "accepting"
  /\ lists' = [lists EXCEPT ![turn[s].record] = EmptyLists]
  /\ obj' = Update(s, [Obj(s) EXCEPT
       !.progress = turn[s].record,
       !.totalNodes = Cardinality(Actionable(turn[s].plan))])
  /\ Await(s, "accepted")
  /\ UNCHANGED <<sessions, first, accepts>>

\* A fresh progress record replaces the old one.  totalNodes is counted on
\* the plan this turn carries, which a concurrent turn may have replaced on
\* the session.
ResetProgress(s) ==
  /\ turn[s].phase = "accepting"
  /\ lists' = [lists EXCEPT ![turn[s].record] = EmptyLists]
  /\ obj' = Update(s, [Obj(s) EXCEPT
       !.progress = turn[s].record,
       !.totalNodes = Cardinality(Actionable(turn[s].plan)),
       !.completedNodes = 0])
  /\ Await(s, "accepted")
  /\ UNCHANGED <<sessions, first, accepts>>

FinishSubmitPlan(s) ==
  /\ turn[s].phase = "accepted"
  /\ Finish(s, obj, "PLAN_ACCEPTED")
  /\ UNCHANGED <<lists, accepts>>

\* The mutation succeeded: the node is marked on the progress record the
\* session has now, whose completedNodes is refreshed only if the node is
\* new to the shared array.
CompleteNode(s) ==
  /\ turn[s].phase = "mutating"
  /\ LET o == Obj(s)
         k == o.progress
         n == turn[s].node
     IN  IF k = 0 \/ n \in lists[k].done
           THEN /\ Finish(s, obj, "PLAN_ACCEPTED")
                /\ UNCHANGED lists
           ELSE LET l == Marked(lists[k], o.planGraph, n)
                IN /\ lists' = [lists EXCEPT ![k] = l]
                   /\ Finish(s, Update(s, [o EXCEPT !.completedNodes = Cardinality(l.done)]),
                             "PLAN_ACCEPTED")
  /\ UNCHANGED accepts

\* Mutant: an escalation that finds nothing writes back the pack it read,
\* even if there was none.
EnrichPackStale(s) ==
  /\ turn[s].phase = "escalating"
  /\ \E found \in BOOLEAN :
       obj' = Update(s, [Obj(s) EXCEPT
                !.contextPack = IF found THEN "files" ELSE turn[s].pack])
  /\ Await(s, "escalated")
  /\ UNCHANGED <<sessions, first, lists, accepts>>

\* The escalation sets the session's pack to the one it read before the disk
\* pack was updated, grown if the search found files that pack did not have.
EnrichPack(s) ==
  /\ turn[s].phase = "escalating"
  /\ \E found \in BOOLEAN :
       LET pack == CASE found                            -> "files"
                     [] ~found /\ turn[s].pack = "none"  -> "empty"
                     [] ~found /\ turn[s].pack # "none"  -> turn[s].pack
       IN  obj' = Update(s, [Obj(s) EXCEPT !.contextPack = pack])
  /\ Await(s, "escalated")
  /\ UNCHANGED <<sessions, first, lists, accepts>>

\* The siblings in the Map receive the files they lack, and the turn ends.
PropagatePack(s) ==
  /\ turn[s].phase = "escalated"
  /\ LET receives(b, c) == /\ b # turn[s].agent
                           /\ sessions[b] = c
                           /\ Obj(s).contextPack = "files"
         objs == [b \in Agents |-> [c \in Slots |->
                    IF receives(b, c)
                      THEN [obj[b][c] EXCEPT !.contextPack = "files"]
                      ELSE obj[b][c]]]
     IN  Finish(s, objs, turn[s].state)
  /\ UNCHANGED <<lists, accepts>>

FinishSignalTaskComplete(s) ==
  /\ turn[s].phase = "completing"
  /\ Finish(s, obj, "COMPLETED")
  /\ UNCHANGED <<lists, accepts>>

-----------------------------------------------------------------------------
(* Specifications.                                                         *)

\* The steps that continue a turn, without those that refuse or abort it.
Continue(s) ==
  \/ FinishUnchanged(s)
  \/ StorePack(s) \/ FinishInitializeWork(s)
  \/ RejectPlan(s) \/ (\E p \in Plans : StorePlan(s, p))
  \/ ResetProgress(s) \/ FinishSubmitPlan(s)
  \/ CompleteNode(s)
  \/ EnrichPack(s) \/ PropagatePack(s)
  \/ FinishSignalTaskComplete(s)

DispatchVerb(s) ==
  \/ DenyBudget(s) \/ DenySync(s)
  \/ HandleObserving(s) \/ HandleInitializeWork(s) \/ HandleSubmitPlan(s)
  \/ \E n \in Nodes : HandlePatchApply(s, n) \/ HandleCodeRun(s, n)
                         \/ HandleSideEffect(s, n)
  \/ HandleEscalate(s) \/ DenyIncomplete(s) \/ HandleSignalTaskComplete(s)

Next ==
  \E s \in Slots :
    \/ \E a \in Agents : Begin(s, a)
    \/ Throw(s)
    \/ DispatchVerb(s)
    \/ Continue(s)

Spec == Init /\ [][Next]_vars

-----------------------------------------------------------------------------
(* Properties.                                                             *)

\* Every session object of the process; the sessions of the Map; those of
\* them whose plan and progress record are not being replaced.
Objects == {obj[a][s] : a \in Agents, s \in Slots}

Known == {a \in Agents : sessions[a] # None}

Registered == {obj[a][sessions[a]] : a \in Known}

Settled ==
  {obj[a][sessions[a]] : a \in
     {b \in Known : \A s \in Slots : turn[s].agent = b => turn[s].phase # "accepting"}}

\* Every actionable node of a session's plan is in its progress array.
AllDone(o) == Actionable(o.planGraph) \subseteq lists[o.progress].done

\* A session that may read or submit has a context pack and one that may
\* mutate has a plan and its progress record, whatever was inherited,
\* escalated, rejected or interleaved (isInPack: "PLANNING+ states where
\* contextPack MUST exist"; canExecuteMutation).
WorkingStateIsEquipped ==
  \A o \in Objects :
    /\ o.state \in {"PLANNING", "PLAN_ACCEPTED"} => o.contextPack # "none"
    /\ o.state = "PLAN_ACCEPTED" => o.planGraph # None /\ o.progress # 0

\* The progress counter of a session never claims more nodes than the shared
\* array holds, however the array is shared and turns interleave
\* (markNodeCompleted).
CounterWithinList ==
  \A o \in Objects :
    o.progress # 0 => o.completedNodes <= Cardinality(lists[o.progress].done)

\* The list that the answer of a mutation gives as eligibleValidateNodeIds is
\* exactly the validate nodes of the session's plan that are not completed and
\* whose mapped nodes all are, also when a sibling shares it
\* (markEligibleValidateNodes, attachValidateAdvisory).  It is not the list
\* "progress.pendingValidations" of every response, which makeResponse fills
\* with all validate nodes that are not completed.
EligibleExact ==
  \A o \in Settled :
    o.progress # 0 =>
      lists[o.progress].eligible = EligibleNow(o.planGraph, lists[o.progress].done)

\* No node is both completed and in the list of eligible validate nodes, for any
\* interleaving (markNodeCompleted).
EligibleNotDone ==
  \A k \in 1 .. MaxAccepts : lists[k].done \cap lists[k].eligible = {}

\* A completed session that has a plan has every actionable node of that plan
\* completed, though its counter may have been copied from a sibling and its
\* array shared with it ("MCP verifies all nodes complete; rejects if
\* remainingNodes > 0").
CompletedIsDone ==
  \A o \in Registered : o.state = "COMPLETED" /\ o.progress # 0 => AllDone(o)

\* The gate of signal_task_complete, at the moment it is evaluated, lets a
\* session with a plan through only if every actionable node of that plan is
\* completed: the counter it compares is not fed by nodes of another plan.
GateSound ==
  [][\A s \in Slots :
       (turn[s].phase = "logged" /\ turn'[s].phase = "completing" /\ Obj(s).progress # 0)
       => AllDone(Obj(s))]_vars

\* A completed session leaves COMPLETED only when its own budget is spent.
CompletedFrozenWithinBudget ==
  [][\A a \in Known :
       LET o == obj[a][sessions[a]]
           p == obj'[a][sessions'[a]]
       IN  (o.state = "COMPLETED" /\ p.state # "COMPLETED")
           => p.spent /\ p.state = "BLOCKED_BUDGET"]_vars

\* A session over its threshold that was stopped never works again: it stays
\* blocked, or is completed (the budget clamp of handleTurn).
SpentNeverResumes ==
  [][LET stopped == {"BLOCKED_BUDGET", "COMPLETED"}
     IN  \A a \in Known :
           LET o == obj[a][sessions[a]]
           IN  o.spent /\ o.state \in stopped
               => obj'[a][sessions'[a]].state \in stopped]_vars

\* When the progress array holds every actionable node of a session's plan,
\* the session counts no remaining node: signal_task_complete is "rejected if
\* remainingNodes > 0" and for no other reason.
NoPhantomRemaining ==
  \A o \in Settled : o.progress # 0 /\ AllDone(o) => Remaining(o) = 0

\* COMPLETED means "All validation nodes passed".
CompletedMeansValidated ==
  \A o \in Registered :
    o.state = "COMPLETED" =>
      /\ o.planGraph # None /\ o.progress # 0
      /\ NodesOfKind(o.planGraph, {"validate"}) \subseteq lists[o.progress].done
=============================================================================
