------------------------ MODULE TurnControllerProofs ------------------------
(***************************************************************************)
(* What holds of the turn controller however turns overlap, for any number *)
(* of agents, turns in flight, plans and nodes: its types, with the lemmas *)
(* on how a turn begins, moves and ends that the other proofs use; what    *)
(* its progress records count; and what a working session has.  Then what  *)
(* holds behind a transport that serves one turn at a time, up to the      *)
(* refinement of WorkLifecycle.                                            *)
(*                                                                         *)
(* Neither what the records count nor what a working session has is        *)
(* inductive. A turn ends in a run state it read before it waited, so the  *)
(* invariant has to say, of every turn in flight, that the session still   *)
(* has what that state needs (TurnEquipped); this survives the other turns *)
(* because a session only gains a pack, a plan and a progress record,      *)
(* except when the first turn of an agent replaces an object, and such an  *)
(* object belongs to no other turn (Ownership).                            *)
(***************************************************************************)
EXTENDS TurnControllerStdio, FiniteSetTheorems, TLAPS

-----------------------------------------------------------------------------
(* Types.                                                                  *)

\* The agent met first in the Map is in the Map.
FirstKnown == first # None => sessions[first] # None

TypeInv == TypeOK /\ FirstKnown

LEMMA ActionableCount ==
  ASSUME NEW p
  PROVE  Cardinality(Actionable(p)) \in Nat
<1>1. Actionable(p) \subseteq Nodes
  BY DEF Actionable, NodesOfKind
<1>. QED BY <1>1, FS_Subset, FS_CardinalityType, ConstantsAssumption

LEMMA ListCount ==
  ASSUME NEW l \in ProgressLists, NEW p, NEW n \in Nodes
  PROVE  /\ Marked(l, p, n) \in ProgressLists
         /\ Cardinality(l.done) \in Nat
         /\ Cardinality(Marked(l, p, n).done) \in Nat
         /\ Cardinality(l.done) <= Cardinality(Marked(l, p, n).done)
<1>1. Marked(l, p, n).done = l.done \cup {n}
  BY DEF Marked
<1>2. l.done \subseteq Nodes /\ l.eligible \subseteq Nodes
  BY DEF ProgressLists
<1>3. EligibleNow(p, l.done \cup {n}) \subseteq Nodes
  BY DEF EligibleNow, NodesOfKind
<1>4. Marked(l, p, n) \in ProgressLists
  BY <1>2, <1>3 DEF Marked, ProgressLists
<1>5. IsFiniteSet(l.done) /\ IsFiniteSet(Marked(l, p, n).done)
  BY <1>1, <1>2, FS_Subset, ConstantsAssumption
<1>. QED BY <1>1, <1>4, <1>5, FS_Subset, FS_CardinalityType

LEMMA InitType == Init => TypeInv
  BY ConstantsAssumption DEF Init, TypeInv, TypeOK, FirstKnown, Session, NewSession,
     RunStates, PackStates, ProgressLists, EmptyLists, Turn, NoTurn, Phases

LEMMA EndsIn ==
  ASSUME NEW o \in Session, NEW st \in RunStates
  PROVE  /\ [o EXCEPT !.state = st] \in Session
         /\ [o EXCEPT !.state = st].state = st
  BY DEF Session

\* What the end of a turn leaves, for whatever objects and run state it ends with.
LEMMA FinishType ==
  ASSUME TypeInv, NEW s \in Slots, turn[s].phase # "idle",
         NEW objs \in [Agents -> [Slots -> Session]], NEW st \in RunStates,
         Finish(s, objs, st),
         lists' \in [1 .. MaxAccepts -> ProgressLists], accepts' \in 0 .. MaxAccepts
  PROVE  TypeInv'
<1>1. turn[s].agent \in Agents /\ turn[s].sess \in Slots
  BY DEF TypeInv, TypeOK
<1>2. Clamp(s, st) \in RunStates
  BY DEF Clamp, RunStates
<1>3. obj' \in [Agents -> [Slots -> Session]]
  <2>1. obj' = [objs EXCEPT ![turn[s].agent] =
                  [objs[turn[s].agent] EXCEPT ![turn[s].sess] =
                    [objs[turn[s].agent][turn[s].sess] EXCEPT !.state = Clamp(s, st)]]]
    BY DEF Finish
  <2>2. [objs[turn[s].agent][turn[s].sess] EXCEPT !.state = Clamp(s, st)] \in Session
    <3>1. objs[turn[s].agent][turn[s].sess] \in Session
      BY <1>1
    <3>. QED BY <1>2, <3>1, EndsIn
  <2>. QED BY <1>1, <2>1, <2>2
<1>4. turn' \in [Slots -> Turn] /\ turn' = [turn EXCEPT ![s] = NoTurn]
  BY ConstantsAssumption DEF TypeInv, TypeOK, Finish, NoTurn, Turn, Phases, RunStates, PackStates
<1>5. sessions' \in [Agents -> Slots \cup {None}] /\ first' \in Agents \cup {None}
  BY <1>1 DEF TypeInv, TypeOK, Finish
<1>6. FirstKnown'
  BY <1>1, ConstantsAssumption DEF TypeInv, TypeOK, FirstKnown, Finish
<1>7. \A t \in Slots : turn'[t].phase # "idle" => turn'[t] = turn[t]
  BY <1>4 DEF TypeInv, TypeOK, NoTurn
<1>. QED BY <1>3, <1>4, <1>5, <1>6, <1>7 DEF TypeInv, TypeOK

\* A step that only changes the objects and the turn of slot s.
LEMMA StepType ==
  ASSUME TypeInv, NEW s \in Slots, NEW t \in Turn,
         turn' = [turn EXCEPT ![s] = t],
         t.phase # "idle" => t.agent \in Agents /\ t.sess \in Slots,
         t.phase = "mutating" => t.node \in Nodes,
         t.phase = "accepting" => t.plan \in Plans /\ t.record # 0,
         obj' \in [Agents -> [Slots -> Session]],
         lists' \in [1 .. MaxAccepts -> ProgressLists], accepts' \in 0 .. MaxAccepts,
         UNCHANGED <<sessions, first>>
  PROVE  TypeInv'
  BY DEF TypeInv, TypeOK, FirstKnown

LEMMA StateType ==
  ASSUME TypeInv, NEW s \in Slots, turn[s].phase # "idle"
  PROVE  /\ turn[s] \in Turn /\ turn[s].agent \in Agents /\ turn[s].sess \in Slots
         /\ Obj(s) \in Session /\ StateOf(s) \in RunStates
  BY DEF TypeInv, TypeOK, Obj, StateOf, Session, RunStates

LEMMA UpdateType ==
  ASSUME TypeInv, NEW s \in Slots, turn[s].phase # "idle", NEW o \in Session
  PROVE  Update(s, o) \in [Agents -> [Slots -> Session]]
  BY DEF TypeInv, TypeOK, Update

LEMMA AwaitType ==
  ASSUME TypeInv, NEW s \in Slots, turn[s].phase # "idle",
         NEW ph \in Phases \ {"mutating", "accepting"}, Await(s, ph),
         obj' \in [Agents -> [Slots -> Session]],
         UNCHANGED <<sessions, first, accepts>>,
         lists' \in [1 .. MaxAccepts -> ProgressLists]
  PROVE  TypeInv'
<1>. DEFINE t == [turn[s] EXCEPT !.phase = ph]
<1>1. t \in Turn /\ t.phase = ph /\ t.agent = turn[s].agent /\ t.sess = turn[s].sess
  BY StateType DEF Turn
<1>2. turn' = [turn EXCEPT ![s] = t]
  BY DEF Await
<1>3. accepts' \in 0 .. MaxAccepts
  BY DEF TypeInv, TypeOK
<1>. HIDE DEF t
<1>. QED BY <1>1, <1>2, <1>3, StateType, StepType

LEMMA BeginType ==
  ASSUME TypeInv, NEW s \in Slots, NEW a \in Agents, Begin(s, a)
  PROVE  TypeInv'
<1>1. Inherited \in Session
  <2>1. CASE first = None
    BY <2>1, ConstantsAssumption DEF Inherited, NewSession, Session, RunStates, PackStates
  <2>2. CASE first # None
    <3>1. first \in Agents /\ sessions[first] \in Slots
      BY <2>2 DEF TypeInv, TypeOK, FirstKnown
    <3>2. obj[first][sessions[first]] \in Session
      BY <3>1 DEF TypeInv, TypeOK
    <3>. QED BY <2>2, <3>2 DEF Inherited, Session
  <2>. QED BY <2>1, <2>2
<1>2. PICK over \in BOOLEAN :
        LET known == sessions[a] # None
            c == IF known THEN sessions[a] ELSE s
            o == IF known THEN obj[a][c] ELSE Inherited
            spent == o.spent \/ over
        IN  /\ obj' = [obj EXCEPT ![a][c] = [o EXCEPT !.spent = spent]]
            /\ turn' = [turn EXCEPT ![s] =
                 [NoTurn EXCEPT !.phase = "logged", !.agent = a, !.sess = c,
                                !.blocked = spent]]
  BY DEF Begin
<1>. DEFINE c == IF sessions[a] # None THEN sessions[a] ELSE s
            o == IF sessions[a] # None THEN obj[a][c] ELSE Inherited
            spent == o.spent \/ over
            t == [NoTurn EXCEPT !.phase = "logged", !.agent = a, !.sess = c,
                                !.blocked = spent]
<1>3. c \in Slots /\ o \in Session
  BY <1>1 DEF TypeInv, TypeOK
<1>4. [o EXCEPT !.spent = spent] \in Session /\ spent \in BOOLEAN
  BY <1>3 DEF Session
<1>5. obj' \in [Agents -> [Slots -> Session]]
  <2>. HIDE DEF c, o, spent
  <2>1. obj' = [obj EXCEPT ![a][c] = [o EXCEPT !.spent = spent]]
    BY <1>2 DEF c, o, spent
  <2>. QED BY <1>3, <1>4, <2>1 DEF TypeInv, TypeOK
<1>6. t \in Turn /\ t.phase = "logged" /\ t.agent = a /\ t.sess = c
  <2>1. NoTurn \in Turn
    BY ConstantsAssumption DEF NoTurn, Turn, Phases, RunStates, PackStates
  <2>. HIDE DEF c, o, spent
  <2>. QED BY <1>3, <1>4, <2>1 DEF Turn, Phases
<1>7. turn' = [turn EXCEPT ![s] = t]
  BY <1>2
<1>8. UNCHANGED <<sessions, first, lists, accepts>>
  BY DEF Begin
<1>9. lists' \in [1 .. MaxAccepts -> ProgressLists] /\ accepts' \in 0 .. MaxAccepts
  BY <1>8 DEF TypeInv, TypeOK
<1>. HIDE DEF c, o, spent, t
<1>. QED BY <1>3, <1>5, <1>6, <1>7, <1>8, <1>9, StepType

LEMMA DispatchType ==
  ASSUME TypeInv, NEW s \in Slots, DispatchVerb(s)
  PROVE  TypeInv'
<1>1. ASSUME turn[s].phase # "idle", NEW st \in RunStates, Finish(s, obj, st),
             UNCHANGED <<lists, accepts>>
      PROVE  TypeInv'
  BY <1>1, FinishType DEF TypeInv, TypeOK
<1>2. ASSUME turn[s].phase # "idle",
             NEW ph \in {"initializing", "validating", "completing"}, Await(s, ph),
             UNCHANGED <<sessions, first, obj, lists, accepts>>
      PROVE  TypeInv'
  BY <1>2, AwaitType DEF TypeInv, TypeOK, Phases
<1>3. turn[s].phase = "logged"
  BY DEF DispatchVerb, DenyBudget, DenySync, Dispatched, HandleObserving, HandleInitializeWork,
     HandleSubmitPlan, HandlePatchApply, HandleCodeRun, HandleSideEffect, StartMutation,
     HandleEscalate, DenyIncomplete, HandleSignalTaskComplete
<1>4. "BLOCKED_BUDGET" \in RunStates /\ StateOf(s) \in RunStates
  BY <1>3, StateType DEF RunStates
<1>5. CASE DenyBudget(s) \/ DenySync(s) \/ DenyIncomplete(s)
  BY <1>1, <1>3, <1>4, <1>5 DEF DenyBudget, DenySync, DenyIncomplete
<1>6. CASE HandleInitializeWork(s) \/ HandleSubmitPlan(s) \/ HandleSignalTaskComplete(s)
  BY <1>2, <1>3, <1>6 DEF HandleInitializeWork, HandleSubmitPlan, HandleSignalTaskComplete
<1>7. ASSUME NEW t \in Turn, turn' = [turn EXCEPT ![s] = t],
             t.phase \in {"observing", "mutating", "escalating"},
             t.agent = turn[s].agent, t.sess = turn[s].sess,
             t.phase = "mutating" => t.node \in Nodes,
             UNCHANGED <<sessions, first, obj, lists, accepts>>
      PROVE  TypeInv'
  <2>1. /\ obj' \in [Agents -> [Slots -> Session]]
        /\ lists' \in [1 .. MaxAccepts -> ProgressLists]
        /\ accepts' \in 0 .. MaxAccepts
    BY <1>7 DEF TypeInv, TypeOK
  <2>. QED BY <1>3, <1>7, <2>1, StateType, StepType
<1>8. CASE HandleObserving(s)
  <2>. DEFINE t == [turn[s] EXCEPT !.phase = "observing", !.state = StateOf(s)]
  <2>1. /\ t \in Turn /\ t.phase = "observing"
        /\ t.agent = turn[s].agent /\ t.sess = turn[s].sess
    BY <1>3, <1>4, StateType DEF Turn, Phases
  <2>2. turn' = [turn EXCEPT ![s] = t] /\ UNCHANGED <<sessions, first, obj, lists, accepts>>
    BY <1>8 DEF HandleObserving
  <2>. HIDE DEF t
  <2>. QED BY <1>7, <2>1, <2>2
<1>9. CASE HandleEscalate(s)
  <2>. DEFINE t == [turn[s] EXCEPT !.phase = "escalating", !.state = StateOf(s),
                                   !.pack = Obj(s).contextPack]
  <2>1. Obj(s).contextPack \in PackStates
    BY <1>3, StateType DEF Session
  <2>2. /\ t \in Turn /\ t.phase = "escalating"
        /\ t.agent = turn[s].agent /\ t.sess = turn[s].sess
    BY <1>3, <1>4, <2>1, StateType DEF Turn, Phases
  <2>3. turn' = [turn EXCEPT ![s] = t] /\ UNCHANGED <<sessions, first, obj, lists, accepts>>
    BY <1>9 DEF HandleEscalate
  <2>. HIDE DEF t
  <2>. QED BY <1>7, <2>2, <2>3
<1>10. ASSUME NEW verb \in PostPlanCapabilities, NEW kinds, NEW n \in Nodes,
              StartMutation(s, verb, kinds, n)
       PROVE  TypeInv'
  <2>. DEFINE t == [turn[s] EXCEPT !.phase = "mutating", !.state = StateOf(s),
                                   !.verb = verb, !.node = n]
  <2>1. /\ t \in Turn /\ t.phase = "mutating" /\ t.node = n
        /\ t.agent = turn[s].agent /\ t.sess = turn[s].sess
    BY <1>3, <1>4, StateType DEF Turn, Phases
  <2>2. turn' = [turn EXCEPT ![s] = t] /\ UNCHANGED <<sessions, first, obj, lists, accepts>>
    BY <1>10 DEF StartMutation
  <2>. HIDE DEF t
  <2>. QED BY <1>7, <2>1, <2>2
<1>11. CASE \E n \in Nodes : HandlePatchApply(s, n) \/ HandleCodeRun(s, n)
                               \/ HandleSideEffect(s, n)
  BY <1>10, <1>11 DEF HandlePatchApply, HandleCodeRun, HandleSideEffect, PostPlanCapabilities
<1>. QED BY <1>5, <1>6, <1>8, <1>9, <1>11 DEF DispatchVerb

\* The fields the later segments write on the turn's session object.
LEMMA SessionUpdates ==
  ASSUME NEW o \in Session
  PROVE  /\ \A pk \in PackStates : [o EXCEPT !.contextPack = pk] \in Session
         /\ \A p \in Plans : [o EXCEPT !.planGraph = p] \in Session
         /\ \A k \in 0 .. MaxAccepts, m \in Nat :
              [o EXCEPT !.progress = k, !.totalNodes = m, !.completedNodes = 0] \in Session
         /\ \A m \in Nat : [o EXCEPT !.completedNodes = m] \in Session
  BY DEF Session

LEMMA ContinueType ==
  ASSUME TypeInv, NEW s \in Slots, Continue(s)
  PROVE  TypeInv'
<1>1. turn[s].phase # "idle"
  BY DEF Continue, FinishUnchanged, StorePack, FinishInitializeWork, RejectPlan, StorePlan,
     ResetProgress, FinishSubmitPlan, CompleteNode, EnrichPack, PropagatePack,
     FinishSignalTaskComplete
<1>2. /\ turn[s] \in Turn /\ turn[s].state \in RunStates /\ turn[s].record \in 0 .. MaxAccepts
      /\ turn[s].pack \in PackStates
      /\ turn[s].agent \in Agents /\ turn[s].sess \in Slots /\ Obj(s) \in Session
  BY <1>1, StateType DEF Turn
<1>3. /\ obj \in [Agents -> [Slots -> Session]]
      /\ lists \in [1 .. MaxAccepts -> ProgressLists]
      /\ accepts \in 0 .. MaxAccepts
  BY DEF TypeInv, TypeOK
<1>4. ASSUME NEW st \in RunStates, Finish(s, obj, st), UNCHANGED <<lists, accepts>>
      PROVE  TypeInv'
  BY <1>1, <1>3, <1>4, FinishType
<1>5. CASE \/ FinishUnchanged(s) \/ FinishInitializeWork(s) \/ RejectPlan(s)
           \/ FinishSubmitPlan(s) \/ FinishSignalTaskComplete(s)
  BY <1>2, <1>4, <1>5 DEF FinishUnchanged, FinishInitializeWork, RejectPlan, FinishSubmitPlan,
     FinishSignalTaskComplete, RunStates
<1>6. CASE StorePack(s)
  <2>1. PICK files \in {"empty", "files"} :
          obj' = Update(s, [Obj(s) EXCEPT !.contextPack = files])
    BY <1>6 DEF StorePack
  <2>2. obj' \in [Agents -> [Slots -> Session]]
    BY <1>1, <1>2, <2>1, SessionUpdates, UpdateType DEF PackStates
  <2>. QED BY <1>1, <1>3, <1>6, <2>2, AwaitType DEF StorePack, Phases
<1>7. ASSUME NEW p \in Plans, StorePlan(s, p)
      PROVE  TypeInv'
  <2>. DEFINE t == [turn[s] EXCEPT !.phase = "accepting", !.plan = p, !.record = accepts + 1]
  <2>1. accepts' = accepts + 1 /\ accepts + 1 \in 1 .. MaxAccepts
    BY <1>3, <1>7, ConstantsAssumption DEF StorePlan
  <2>2. /\ t \in Turn /\ t.phase = "accepting" /\ t.plan = p /\ t.record = accepts + 1
        /\ t.agent = turn[s].agent /\ t.sess = turn[s].sess
    <3>1. accepts + 1 \in 0 .. MaxAccepts /\ p \in Plans \cup {None} /\ "accepting" \in Phases
      BY <1>3, <2>1, ConstantsAssumption DEF Phases
    <3>. QED BY <1>2, <3>1 DEF Turn
  <2>3. /\ turn' = [turn EXCEPT ![s] = t] /\ UNCHANGED <<sessions, first, lists>>
        /\ obj' = Update(s, [Obj(s) EXCEPT !.planGraph = p])
    BY <1>7 DEF StorePlan
  <2>4. obj' \in [Agents -> [Slots -> Session]]
    BY <1>1, <1>2, <2>3, SessionUpdates, UpdateType
  <2>5. t.record # 0
    BY <1>3, <2>2
  <2>6. accepts' \in 0 .. MaxAccepts /\ lists' \in [1 .. MaxAccepts -> ProgressLists]
    BY <1>3, <2>1, <2>3
  <2>. HIDE DEF t
  <2>. QED BY <1>2, <2>2, <2>3, <2>4, <2>5, <2>6, StepType
<1>8. CASE ResetProgress(s)
  <2>1. obj' \in [Agents -> [Slots -> Session]]
    <3>1. Cardinality(Actionable(turn[s].plan)) \in Nat
      BY ActionableCount
    <3>. QED BY <1>1, <1>2, <1>8, <3>1, SessionUpdates, UpdateType DEF ResetProgress
  <2>2. lists' \in [1 .. MaxAccepts -> ProgressLists]
    BY <1>3, <1>8 DEF ResetProgress, EmptyLists, ProgressLists
  <2>3. Await(s, "accepted") /\ UNCHANGED <<sessions, first, accepts>>
    BY <1>8 DEF ResetProgress
  <2>. QED BY <1>1, <2>1, <2>2, <2>3, AwaitType DEF Phases
<1>9. CASE CompleteNode(s)
  <2>. DEFINE k == Obj(s).progress
              n == turn[s].node
              l == Marked(lists[k], Obj(s).planGraph, n)
  <2>1. "PLAN_ACCEPTED" \in RunStates
    BY DEF RunStates
  <2>2. n \in Nodes /\ k \in 0 .. MaxAccepts
    BY <1>2, <1>9 DEF CompleteNode, TypeInv, TypeOK, Session
  <2>3. CASE k = 0 \/ n \in lists[k].done
    BY <1>4, <1>9, <2>1, <2>3 DEF CompleteNode
  <2>4. CASE ~(k = 0 \/ n \in lists[k].done)
    <3>1. /\ lists' = [lists EXCEPT ![k] = l] /\ UNCHANGED accepts
          /\ Finish(s, Update(s, [Obj(s) EXCEPT !.completedNodes = Cardinality(l.done)]),
                    "PLAN_ACCEPTED")
      BY <1>9, <2>4 DEF CompleteNode
    <3>2. lists[k] \in ProgressLists
      BY <1>3, <2>2, <2>4, ConstantsAssumption
    <3>3. l \in ProgressLists /\ Cardinality(l.done) \in Nat
      BY <2>2, <3>2, ListCount
    <3>4. Update(s, [Obj(s) EXCEPT !.completedNodes = Cardinality(l.done)])
            \in [Agents -> [Slots -> Session]]
      <4>. HIDE DEF l
      <4>. QED BY <1>1, <1>2, <3>3, SessionUpdates, UpdateType
    <3>5. lists' \in [1 .. MaxAccepts -> ProgressLists]
      BY <1>3, <3>1, <3>3
    <3>. HIDE DEF l
    <3>. QED BY <1>1, <1>3, <2>1, <3>1, <3>4, <3>5, FinishType
  <2>. QED BY <2>3, <2>4
<1>10. CASE EnrichPack(s)
  <2>1. obj' \in [Agents -> [Slots -> Session]]
    <3>1. PICK pack \in PackStates : obj' = Update(s, [Obj(s) EXCEPT !.contextPack = pack])
      BY <1>2, <1>10 DEF EnrichPack, PackStates
    <3>. QED BY <1>1, <1>2, <3>1, SessionUpdates, UpdateType
  <2>. QED BY <1>1, <1>3, <1>10, <2>1, AwaitType DEF EnrichPack, Phases
<1>11. CASE PropagatePack(s)
  <2>. DEFINE objs == [b \in Agents |-> [c \in Slots |->
                         IF b # turn[s].agent /\ sessions[b] = c /\ Obj(s).contextPack = "files"
                           THEN [obj[b][c] EXCEPT !.contextPack = "files"]
                           ELSE obj[b][c]]]
  <2>1. Finish(s, objs, turn[s].state) /\ UNCHANGED <<lists, accepts>>
    BY <1>11 DEF PropagatePack
  <2>2. objs \in [Agents -> [Slots -> Session]]
    BY <1>3, SessionUpdates DEF PackStates
  <2>. HIDE DEF objs
  <2>. QED BY <1>1, <1>2, <1>3, <2>1, <2>2, FinishType
<1>. QED BY <1>5, <1>6, <1>7, <1>8, <1>9, <1>10, <1>11 DEF Continue

LEMMA ThrowType ==
  ASSUME TypeInv, NEW s \in Slots, Throw(s)
  PROVE  TypeInv'
<1>1. NoTurn \in Turn /\ NoTurn.phase = "idle"
  BY ConstantsAssumption DEF NoTurn, Turn, Phases, RunStates, PackStates
<1>2. turn' = [turn EXCEPT ![s] = NoTurn] /\ UNCHANGED <<sessions, first, obj, lists, accepts>>
  BY DEF Throw
<1>3. /\ obj' \in [Agents -> [Slots -> Session]]
      /\ lists' \in [1 .. MaxAccepts -> ProgressLists]
      /\ accepts' \in 0 .. MaxAccepts
  BY <1>2 DEF TypeInv, TypeOK
<1>. QED BY <1>1, <1>2, <1>3, StepType

LEMMA NextType == TypeInv /\ [Next]_vars => TypeInv'
<1>1. ASSUME TypeInv, UNCHANGED vars PROVE TypeInv'
  BY <1>1 DEF vars, TypeInv, TypeOK, FirstKnown
<1>. QED BY <1>1, BeginType, ThrowType, DispatchType, ContinueType DEF Next

\* The state of the turn controller keeps its types, and the Map's first
\* session is in the Map, for any number of agents, slots, plans and nodes.
THEOREM TypeCorrect == Spec => []TypeOK
<1>1. TypeInv => TypeOK
  BY DEF TypeInv
<1>. QED BY <1>1, InitType, NextType, PTL DEF Spec

-----------------------------------------------------------------------------
(* CounterWithinList and EligibleNotDone hold for any number of agents,    *)
(* turns in flight, plans and nodes.                                       *)
(*                                                                         *)
(* The counter of a session is copied with the number of its progress      *)
(* record, so an array must never be emptied under a session that counts   *)
(* on it: the record a submission is about to create is one no session has *)
(* and no other submission creates (AcceptingFresh).                       *)

RecordsOpened == \A a \in Agents, c \in Slots : obj[a][c].progress <= accepts

AcceptingFresh ==
  \A s \in Slots : turn[s].phase = "accepting" =>
    /\ turn[s].record <= accepts
    /\ \A a \in Agents, c \in Slots : obj[a][c].progress # turn[s].record
    /\ \A r \in Slots \ {s} : turn[r].phase = "accepting" => turn[r].record # turn[s].record

WithinList(o) == o.progress # 0 => o.completedNodes <= Cardinality(lists[o.progress].done)

Counted == \A a \in Agents, c \in Slots : WithinList(obj[a][c])

ProgressInv == RecordsOpened /\ AcceptingFresh /\ Counted

LEMMA InitProgress == Init => ProgressInv
  BY ConstantsAssumption DEF Init, ProgressInv, RecordsOpened, AcceptingFresh, Counted, WithinList,
     NewSession, NoTurn

-----------------------------------------------------------------------------
(* Steps that keep the records: each object has the record and the counter *)
(* some object had.                                                        *)

SameCount(o1, o2) == o1.progress = o2.progress /\ o1.completedNodes = o2.completedNodes

Inherits(o) ==
  o.progress = 0 \/ \E b \in Agents, d \in Slots : SameCount(o, obj[b][d])

\* A new run state leaves the counting alone.
LEMMA OnlyState ==
  ASSUME NEW o \in Session, NEW st
  PROVE  /\ [o EXCEPT !.state = st].progress = o.progress
         /\ [o EXCEPT !.state = st].completedNodes = o.completedNodes
BY DEF Session

LEMMA KeepProgress ==
  ASSUME TypeInv, ProgressInv, UNCHANGED <<lists, accepts>>,
         \A a \in Agents, c \in Slots : Inherits(obj'[a][c]),
         \A r \in Slots : turn'[r].phase = "accepting" => turn'[r] = turn[r]
  PROVE  ProgressInv'
<1>1. RecordsOpened'
  <2>1. SUFFICES ASSUME NEW a \in Agents, NEW c \in Slots
                 PROVE  obj'[a][c].progress <= accepts
    BY DEF RecordsOpened
  <2>2. accepts \in Nat BY ConstantsAssumption DEF TypeInv, TypeOK
  <2>3. Inherits(obj'[a][c]) OBVIOUS
  <2>. QED BY <2>2, <2>3 DEF ProgressInv, RecordsOpened, Inherits, SameCount
<1>2. AcceptingFresh'
  <2>1. SUFFICES ASSUME NEW s \in Slots, turn'[s].phase = "accepting"
                 PROVE  /\ turn'[s].record <= accepts'
                        /\ \A a \in Agents, c \in Slots : obj'[a][c].progress # turn'[s].record
                        /\ \A r \in Slots \ {s} :
                             turn'[r].phase = "accepting" => turn'[r].record # turn'[s].record
    BY DEF AcceptingFresh
  <2>2. turn'[s] = turn[s] /\ turn[s].record # 0
    BY <2>1 DEF TypeInv, TypeOK
  <2>. QED BY <2>1, <2>2 DEF ProgressInv, AcceptingFresh, Inherits, SameCount
<1>3. Counted'
  <2>1. SUFFICES ASSUME NEW a \in Agents, NEW c \in Slots, obj'[a][c].progress # 0
                 PROVE  obj'[a][c].completedNodes <= Cardinality(lists'[obj'[a][c].progress].done)
    BY DEF Counted, WithinList
  <2>2. PICK b \in Agents, d \in Slots : SameCount(obj'[a][c], obj[b][d])
    BY <2>1 DEF Inherits
  <2>3. WithinList(obj[b][d])
    BY DEF ProgressInv, Counted
  <2>. QED BY <2>1, <2>2, <2>3 DEF WithinList, SameCount
<1>. QED BY <1>1, <1>2, <1>3 DEF ProgressInv

\* A turn ends, and the objects it leaves have the records and counters they had.
LEMMA FinishKeeps ==
  ASSUME TypeInv, ProgressInv, NEW s \in Slots, turn[s].phase # "idle",
         NEW objs \in [Agents -> [Slots -> Session]], NEW st, Finish(s, objs, st),
         \A a \in Agents, c \in Slots : SameCount(objs[a][c], obj[a][c]),
         UNCHANGED <<lists, accepts>>
  PROVE  ProgressInv'
<1>1. turn[s].agent \in Agents /\ turn[s].sess \in Slots /\ turn \in [Slots -> Turn]
  BY DEF TypeInv, TypeOK
<1>2. ASSUME NEW a \in Agents, NEW c \in Slots PROVE Inherits(obj'[a][c])
  <2>1. objs[a][c] \in Session
    OBVIOUS
  <2>2. obj'[a][c] \in {objs[a][c], [objs[a][c] EXCEPT !.state = Clamp(s, st)]}
    BY <1>1 DEF Finish
  <2>3. SameCount([objs[a][c] EXCEPT !.state = Clamp(s, st)], objs[a][c])
    BY <2>1 DEF SameCount, Session
  <2>4. SameCount(objs[a][c], obj[a][c])
    OBVIOUS
  <2>5. SameCount(obj'[a][c], obj[a][c])
    BY <2>2, <2>3, <2>4 DEF SameCount
  <2>. QED BY <2>5 DEF Inherits
<1>3. \A r \in Slots : turn'[r].phase = "accepting" => turn'[r] = turn[r]
  BY <1>1 DEF Finish, NoTurn
<1>. QED BY <1>2, <1>3, KeepProgress

\* A turn moves on, and its object keeps its record and its counter.
LEMMA MoveKeeps ==
  ASSUME TypeInv, ProgressInv, NEW s \in Slots, turn[s].phase # "idle",
         NEW t, turn' = [turn EXCEPT ![s] = t], t.phase # "accepting",
         NEW o, obj' = Update(s, o), SameCount(o, Obj(s)),
         UNCHANGED <<lists, accepts>>
  PROVE  ProgressInv'
<1>1. /\ turn[s].agent \in Agents /\ turn[s].sess \in Slots
      /\ turn \in [Slots -> Turn] /\ obj \in [Agents -> [Slots -> Session]]
  BY DEF TypeInv, TypeOK
<1>2. ASSUME NEW a \in Agents, NEW c \in Slots PROVE Inherits(obj'[a][c])
  <2>1. \/ obj'[a][c] = obj[a][c]
        \/ obj'[a][c] = o /\ a = turn[s].agent /\ c = turn[s].sess
    BY <1>1 DEF Update
  <2>. QED BY <2>1 DEF Inherits, SameCount, Obj
<1>3. \A r \in Slots : turn'[r].phase = "accepting" => turn'[r] = turn[r]
  BY <1>1
<1>. QED BY <1>2, <1>3, KeepProgress

\* The objects are left alone and no turn starts to accept a plan.
LEMMA StayKeeps ==
  ASSUME TypeInv, ProgressInv, UNCHANGED <<obj, lists, accepts>>,
         \A r \in Slots : turn'[r].phase = "accepting" => turn'[r] = turn[r]
  PROVE  ProgressInv'
  BY KeepProgress DEF Inherits, SameCount

-----------------------------------------------------------------------------
(* The actions.                                                            *)

LEMMA BeginProgress ==
  ASSUME TypeInv, ProgressInv, NEW s \in Slots, NEW a \in Agents, Begin(s, a)
  PROVE  ProgressInv'
<1>1. PICK over \in BOOLEAN :
        LET known == sessions[a] # None
            c == IF known THEN sessions[a] ELSE s
            o == IF known THEN obj[a][c] ELSE Inherited
            spent == o.spent \/ over
        IN  /\ obj' = [obj EXCEPT ![a][c] = [o EXCEPT !.spent = spent]]
            /\ turn' = [turn EXCEPT ![s] =
                 [NoTurn EXCEPT !.phase = "logged", !.agent = a, !.sess = c,
                                !.blocked = spent]]
  BY DEF Begin
<1>. DEFINE c == IF sessions[a] # None THEN sessions[a] ELSE s
            o == IF sessions[a] # None THEN obj[a][c] ELSE Inherited
            o2 == [o EXCEPT !.spent = o.spent \/ over]
<1>2. /\ UNCHANGED <<lists, accepts>>
      /\ turn \in [Slots -> Turn] /\ obj \in [Agents -> [Slots -> Session]]
  BY DEF Begin, TypeInv, TypeOK
<1>3. c \in Slots
  BY DEF TypeInv, TypeOK
<1>4. Inherits(o2)
  <2>1. CASE sessions[a] # None
    <3>1. o = obj[a][c] /\ o \in Session
      BY <1>2, <1>3, <2>1
    <3>. HIDE DEF o, c
    <3>2. SameCount(o2, obj[a][c])
      BY <3>1 DEF SameCount, Session
    <3>. QED BY <1>3, <3>2 DEF Inherits
  <2>2. CASE sessions[a] = None /\ first # None
    <3>1. first \in Agents /\ sessions[first] \in Slots
      BY <2>2 DEF TypeInv, TypeOK, FirstKnown
    <3>2. /\ obj[first][sessions[first]] \in Session
          /\ o = [obj[first][sessions[first]] EXCEPT !.spent = FALSE]
      BY <1>2, <2>2, <3>1 DEF Inherited
    <3>. HIDE DEF o, c
    <3>3. SameCount(o2, obj[first][sessions[first]])
      BY <3>2 DEF SameCount, Session
    <3>. QED BY <3>1, <3>3 DEF Inherits
  <2>3. CASE sessions[a] = None /\ first = None
    BY <2>3 DEF Inherited, NewSession, Inherits
  <2>. QED BY <2>1, <2>2, <2>3
<1>5. \A b \in Agents, d \in Slots : Inherits(obj'[b][d])
  <2>1. SUFFICES ASSUME NEW b \in Agents, NEW d \in Slots PROVE Inherits(obj'[b][d])
    OBVIOUS
  <2>2. obj' = [obj EXCEPT ![a][c] = o2]
    BY <1>1
  <2>. HIDE DEF c, o2
  <2>3. obj'[b][d] \in {o2, obj[b][d]}
    BY <1>2, <1>3, <2>2
  <2>. QED BY <1>4, <2>3 DEF Inherits, SameCount
<1>6. \A r \in Slots : turn'[r].phase = "accepting" => turn'[r] = turn[r]
  BY <1>1, <1>2 DEF NoTurn
<1>. QED BY <1>2, <1>5, <1>6, KeepProgress

LEMMA ThrowProgress ==
  ASSUME TypeInv, ProgressInv, NEW s \in Slots, Throw(s)
  PROVE  ProgressInv'
<1>1. \A r \in Slots : turn'[r].phase = "accepting" => turn'[r] = turn[r]
  BY DEF Throw, NoTurn, TypeInv, TypeOK
<1>. QED BY <1>1, StayKeeps DEF Throw

LEMMA DispatchProgress ==
  ASSUME TypeInv, ProgressInv, NEW s \in Slots, DispatchVerb(s)
  PROVE  ProgressInv'
<1>1. turn[s].phase = "logged" /\ UNCHANGED <<lists, accepts>>
  BY DEF DispatchVerb, DenyBudget, DenySync, Dispatched, HandleObserving, HandleInitializeWork,
     HandleSubmitPlan, HandlePatchApply, HandleCodeRun, HandleSideEffect, StartMutation,
     HandleEscalate, DenyIncomplete, HandleSignalTaskComplete
<1>2. turn \in [Slots -> Turn] /\ obj \in [Agents -> [Slots -> Session]]
  BY DEF TypeInv, TypeOK
<1>3. CASE DenyBudget(s) \/ DenySync(s) \/ DenyIncomplete(s)
  <2>1. PICK st : Finish(s, obj, st)
    BY <1>3 DEF DenyBudget, DenySync, DenyIncomplete
  <2>2. \A a \in Agents, c \in Slots : SameCount(obj[a][c], obj[a][c])
    BY DEF SameCount
  <2>. QED BY <1>1, <1>2, <2>1, <2>2, FinishKeeps
<1>4. CASE ~(DenyBudget(s) \/ DenySync(s) \/ DenyIncomplete(s))
  <2>1. UNCHANGED obj
    BY <1>4 DEF DispatchVerb, HandleObserving, HandleInitializeWork, HandleSubmitPlan,
       HandlePatchApply, HandleCodeRun, HandleSideEffect, StartMutation,
       HandleEscalate, HandleSignalTaskComplete
  <2>2. \A r \in Slots : turn'[r].phase = "accepting" => turn'[r] = turn[r]
    BY <1>2, <1>4 DEF DispatchVerb, HandleObserving, HandleInitializeWork, HandleSubmitPlan,
       HandlePatchApply, HandleCodeRun, HandleSideEffect, StartMutation,
       HandleEscalate, HandleSignalTaskComplete, Await, Turn
  <2>. QED BY <1>1, <2>1, <2>2, StayKeeps
<1>. QED BY <1>3, <1>4

\* The next record is one no session has and no other submission creates.
LEMMA StorePlanProgress ==
  ASSUME TypeInv, ProgressInv, NEW s \in Slots, NEW p \in Plans, StorePlan(s, p)
  PROVE  ProgressInv'
<1>1. /\ turn[s] \in Turn /\ turn[s].agent \in Agents /\ turn[s].sess \in Slots
      /\ Obj(s) \in Session /\ accepts \in 0 .. MaxAccepts
      /\ turn \in [Slots -> Turn] /\ obj \in [Agents -> [Slots -> Session]]
  BY StateType DEF StorePlan, TypeInv, TypeOK
<1>2. SameCount([Obj(s) EXCEPT !.planGraph = p], Obj(s))
  BY <1>1 DEF SameCount, Session
<1>3. \A a \in Agents, c \in Slots : SameCount(obj'[a][c], obj[a][c])
  <2>1. SUFFICES ASSUME NEW a \in Agents, NEW c \in Slots
                 PROVE  SameCount(obj'[a][c], obj[a][c])
    OBVIOUS
  <2>2. \/ obj'[a][c] = obj[a][c]
        \/ /\ obj'[a][c] = [Obj(s) EXCEPT !.planGraph = p]
           /\ a = turn[s].agent /\ c = turn[s].sess
    BY <1>1 DEF StorePlan, Update
  <2>. QED BY <1>2, <2>2 DEF SameCount, Obj
<1>4. /\ turn'[s].phase = "accepting" /\ turn'[s].record = accepts + 1
      /\ \A r \in Slots \ {s} : turn'[r] = turn[r]
      /\ accepts' = accepts + 1 /\ lists' = lists
  BY <1>1 DEF StorePlan, Turn
<1>5. \A a \in Agents, c \in Slots :
        obj[a][c].progress <= accepts /\ obj[a][c].progress \in Nat
  BY <1>1, ConstantsAssumption DEF ProgressInv, RecordsOpened, Session
<1>6. RecordsOpened'
  BY <1>1, <1>3, <1>4, <1>5, ConstantsAssumption DEF RecordsOpened, SameCount
<1>7. \A r \in Slots : turn[r].phase = "accepting" =>
        turn[r].record <= accepts /\ turn[r].record \in Nat
  BY <1>1, ConstantsAssumption DEF ProgressInv, AcceptingFresh, Turn
<1>8. AcceptingFresh'
  <2>1. \A r \in Slots \ {s} : turn'[r].phase = "accepting" =>
          /\ turn'[r].record <= accepts' /\ turn'[r].record # turn'[s].record
          /\ \A a \in Agents, c \in Slots : obj'[a][c].progress # turn'[r].record
          /\ \A q \in Slots \ {r, s} :
               turn'[q].phase = "accepting" => turn'[q].record # turn'[r].record
    BY <1>1, <1>3, <1>4, <1>7, ConstantsAssumption DEF ProgressInv, AcceptingFresh, SameCount
  <2>2. /\ turn'[s].record <= accepts'
        /\ \A a \in Agents, c \in Slots : obj'[a][c].progress # turn'[s].record
    BY <1>1, <1>3, <1>4, <1>5, ConstantsAssumption DEF SameCount
  <2>. QED BY <2>1, <2>2 DEF AcceptingFresh
<1>9. Counted'
  BY <1>3, <1>4 DEF ProgressInv, Counted, WithinList, SameCount
<1>. QED BY <1>6, <1>8, <1>9 DEF ProgressInv

\* Emptying the new record takes nothing from the sessions of other records.
LEMMA ResetProgressProgress ==
  ASSUME TypeInv, ProgressInv, NEW s \in Slots, ResetProgress(s)
  PROVE  ProgressInv'
<1>. DEFINE k == turn[s].record
            o == [Obj(s) EXCEPT !.progress = k,
                                !.totalNodes = Cardinality(Actionable(turn[s].plan)),
                                !.completedNodes = 0]
<1>1. /\ turn[s] \in Turn /\ turn[s].agent \in Agents /\ turn[s].sess \in Slots
      /\ Obj(s) \in Session
      /\ turn \in [Slots -> Turn] /\ obj \in [Agents -> [Slots -> Session]]
      /\ lists \in [1 .. MaxAccepts -> ProgressLists]
  BY StateType DEF ResetProgress, TypeInv, TypeOK
<1>2. /\ k \in 1 .. MaxAccepts /\ k <= accepts
      /\ \A a \in Agents, c \in Slots : obj[a][c].progress # k
      /\ \A r \in Slots \ {s} : turn[r].phase = "accepting" => turn[r].record # k
  BY <1>1, ConstantsAssumption
     DEF ResetProgress, TypeInv, TypeOK, Turn, ProgressInv, AcceptingFresh
<1>3. /\ lists' = [lists EXCEPT ![k] = EmptyLists] /\ accepts' = accepts
      /\ obj' = Update(s, o)
      /\ turn' = [turn EXCEPT ![s] = [turn[s] EXCEPT !.phase = "accepted"]]
  BY DEF ResetProgress, Await
<1>4. o.progress = k /\ o.completedNodes = 0
  BY <1>1 DEF Session
<1>5. turn'[s].phase = "accepted" /\ \A r \in Slots \ {s} : turn'[r] = turn[r]
  BY <1>1, <1>3 DEF Turn
<1>6. \A a \in Agents, c \in Slots :
        obj'[a][c] = obj[a][c] \/ (obj'[a][c].progress = k /\ obj'[a][c].completedNodes = 0)
  <2>. HIDE DEF o
  <2>. QED BY <1>1, <1>3, <1>4 DEF Update
<1>. HIDE DEF o, k
<1>7. RecordsOpened'
  BY <1>2, <1>3, <1>6 DEF ProgressInv, RecordsOpened
<1>8. AcceptingFresh'
  BY <1>2, <1>3, <1>5, <1>6 DEF ProgressInv, AcceptingFresh
<1>9. Counted'
  <2>1. SUFFICES ASSUME NEW a \in Agents, NEW c \in Slots, obj'[a][c].progress # 0
                 PROVE  obj'[a][c].completedNodes <= Cardinality(lists'[obj'[a][c].progress].done)
    BY DEF Counted, WithinList
  <2>2. CASE obj'[a][c] = obj[a][c]
    <3>1. lists'[obj[a][c].progress] = lists[obj[a][c].progress]
      <4>1. obj[a][c].progress \in 1 .. MaxAccepts /\ obj[a][c].progress # k
        BY <1>1, <1>2, <2>1, <2>2, ConstantsAssumption DEF Session
      <4>. QED BY <1>1, <1>3, <4>1
    <3>. QED BY <2>1, <2>2, <3>1 DEF ProgressInv, Counted, WithinList
  <2>3. CASE obj'[a][c].progress = k /\ obj'[a][c].completedNodes = 0
    <3>1. lists'[k].done = {}
      BY <1>1, <1>2, <1>3 DEF EmptyLists
    <3>. QED BY <2>3, <3>1, FS_EmptySet
  <2>. QED BY <1>6, <2>2, <2>3
<1>. QED BY <1>7, <1>8, <1>9 DEF ProgressInv

\* Marking a node lets the array of every session grow or stay.
LEMMA CompleteNodeProgress ==
  ASSUME TypeInv, ProgressInv, NEW s \in Slots, CompleteNode(s)
  PROVE  ProgressInv'
<1>. DEFINE k == Obj(s).progress
            n == turn[s].node
            l == Marked(lists[k], Obj(s).planGraph, n)
            o == [Obj(s) EXCEPT !.completedNodes = Cardinality(l.done)]
<1>1. /\ turn[s].phase = "mutating" /\ turn[s].agent \in Agents /\ turn[s].sess \in Slots
      /\ Obj(s) \in Session /\ n \in Nodes /\ UNCHANGED accepts
      /\ turn \in [Slots -> Turn] /\ obj \in [Agents -> [Slots -> Session]]
      /\ lists \in [1 .. MaxAccepts -> ProgressLists]
  BY StateType DEF CompleteNode, TypeInv, TypeOK
<1>2. CASE Finish(s, obj, "PLAN_ACCEPTED") /\ UNCHANGED lists
  <2>1. \A a \in Agents, c \in Slots : SameCount(obj[a][c], obj[a][c])
    BY DEF SameCount
  <2>. QED BY <1>1, <1>2, <2>1, FinishKeeps
<1>3. CASE /\ k # 0 /\ lists' = [lists EXCEPT ![k] = l]
           /\ Finish(s, Update(s, o), "PLAN_ACCEPTED")
  <2>1. k \in 1 .. MaxAccepts
    BY <1>1, <1>3, ConstantsAssumption DEF Session
  <2>2. /\ l \in ProgressLists /\ Cardinality(l.done) \in Nat
        /\ Cardinality(lists[k].done) \in Nat
        /\ Cardinality(lists[k].done) <= Cardinality(l.done)
    BY <1>1, <2>1, ListCount
  <2>3. \A j \in 1 .. MaxAccepts :
          /\ Cardinality(lists[j].done) \in Nat /\ Cardinality(lists'[j].done) \in Nat
          /\ Cardinality(lists[j].done) <= Cardinality(lists'[j].done)
          /\ j = k => Cardinality(lists'[j].done) = Cardinality(l.done)
    <3>1. \A j \in 1 .. MaxAccepts : Cardinality(lists[j].done) \in Nat
      BY <1>1, ListCount
    <3>. HIDE DEF l, k
    <3>. QED BY <1>1, <1>3, <2>1, <2>2, <3>1
  <2>4. o.progress = k /\ o.completedNodes = Cardinality(l.done) /\ o \in Session
    <3>. HIDE DEF l
    <3>. QED BY <1>1, <2>2 DEF Session
  <2>5. \A a \in Agents, c \in Slots :
          \/ SameCount(obj'[a][c], obj[a][c])
          \/ obj'[a][c].progress = k /\ obj'[a][c].completedNodes = Cardinality(l.done)
    <3>1. SUFFICES ASSUME NEW a \in Agents, NEW c \in Slots
                   PROVE  \/ SameCount(obj'[a][c], obj[a][c])
                          \/ /\ obj'[a][c].progress = k
                             /\ obj'[a][c].completedNodes = Cardinality(l.done)
      OBVIOUS
    <3>. HIDE DEF o, l, k
    <3>2. \/ obj'[a][c] = obj[a][c]
          \/ obj'[a][c] = [o EXCEPT !.state = Clamp(s, "PLAN_ACCEPTED")]
      <4> DEFINE objs == Update(s, o)
                 st == Clamp(s, "PLAN_ACCEPTED")
      <4>1. /\ turn[s].agent \in Agents /\ turn[s].sess \in Slots
            /\ obj \in [Agents -> [Slots -> Session]]
        BY <1>1
      <4>2. /\ objs \in [Agents -> [Slots -> Session]]
            /\ objs[a][c] = IF a = turn[s].agent /\ c = turn[s].sess THEN o ELSE obj[a][c]
        BY <4>1, <2>4 DEF Update
      <4>3. obj' = [objs EXCEPT ![turn[s].agent][turn[s].sess].state = st]
        BY <1>3 DEF Finish
      <4>. HIDE DEF objs, st
      <4>4. obj'[a][c] = IF a = turn[s].agent /\ c = turn[s].sess
                         THEN [objs[a][c] EXCEPT !.state = st] ELSE objs[a][c]
        BY <4>1, <4>2, <4>3, Zenon
      <4>. QED BY <4>2, <4>4 DEF st
    <3>3. /\ [o EXCEPT !.state = Clamp(s, "PLAN_ACCEPTED")].progress = k
          /\ [o EXCEPT !.state = Clamp(s, "PLAN_ACCEPTED")].completedNodes = Cardinality(l.done)
      BY <2>4, OnlyState
    <3>. QED BY <3>2, <3>3 DEF SameCount
  <2>6. \A r \in Slots : turn'[r].phase = "accepting" => turn'[r] = turn[r]
    BY <1>1, <1>3, Zenon DEF Finish, NoTurn
  <2>7. \E b \in Agents, d \in Slots : obj[b][d].progress = k
    BY <1>1, Zenon DEF Obj
  <2>. HIDE DEF k, l, o, n
  <2>8. RecordsOpened'
    BY <1>1, <2>5, <2>7 DEF ProgressInv, RecordsOpened, SameCount
  <2>9. AcceptingFresh'
    BY <1>1, <2>5, <2>6, <2>7 DEF ProgressInv, AcceptingFresh, SameCount
  <2>10. Counted'
    <3>1. SUFFICES ASSUME NEW a \in Agents, NEW c \in Slots, obj'[a][c].progress # 0
                   PROVE  obj'[a][c].completedNodes
                            <= Cardinality(lists'[obj'[a][c].progress].done)
      BY DEF Counted, WithinList
    <3>2. CASE SameCount(obj'[a][c], obj[a][c])
      <4>1. obj[a][c].progress \in 1 .. MaxAccepts /\ obj[a][c].completedNodes \in Nat
        BY <1>1, <3>1, <3>2, ConstantsAssumption DEF SameCount, Session
      <4>2. obj[a][c].completedNodes <= Cardinality(lists[obj[a][c].progress].done)
        BY <3>1, <3>2 DEF SameCount, ProgressInv, Counted, WithinList
      <4>. QED BY <2>3, <3>2, <4>1, <4>2 DEF SameCount
    <3>3. CASE obj'[a][c].progress = k /\ obj'[a][c].completedNodes = Cardinality(l.done)
      BY <2>1, <2>2, <2>3, <3>3
    <3>. QED BY <2>5, <3>2, <3>3
  <2>. QED BY <2>8, <2>9, <2>10 DEF ProgressInv
<1>. QED BY <1>2, <1>3 DEF CompleteNode

LEMMA ContinueProgress ==
  ASSUME TypeInv, ProgressInv, NEW s \in Slots, Continue(s)
  PROVE  ProgressInv'
<1>1. turn[s].phase # "idle"
  BY DEF Continue, FinishUnchanged, StorePack, FinishInitializeWork, RejectPlan, StorePlan,
     ResetProgress, FinishSubmitPlan, CompleteNode, EnrichPack, PropagatePack,
     FinishSignalTaskComplete
<1>2. /\ turn[s] \in Turn /\ Obj(s) \in Session
      /\ obj \in [Agents -> [Slots -> Session]]
  BY <1>1, StateType DEF TypeInv, TypeOK
<1>3. CASE \/ FinishUnchanged(s) \/ FinishInitializeWork(s) \/ RejectPlan(s)
           \/ FinishSubmitPlan(s) \/ FinishSignalTaskComplete(s)
  <2>1. PICK st : Finish(s, obj, st) /\ UNCHANGED <<lists, accepts>>
    BY <1>3 DEF FinishUnchanged, FinishInitializeWork, RejectPlan, FinishSubmitPlan,
       FinishSignalTaskComplete
  <2>2. \A a \in Agents, c \in Slots : SameCount(obj[a][c], obj[a][c])
    BY DEF SameCount
  <2>. QED BY <1>1, <1>2, <2>1, <2>2, FinishKeeps
<1>4. CASE StorePack(s) \/ EnrichPack(s)
  <2>. DEFINE Stores(ph, pack) ==
         /\ Await(s, ph) /\ UNCHANGED <<lists, accepts>>
         /\ obj' = Update(s, [Obj(s) EXCEPT !.contextPack = pack])
  <2>1. ASSUME StorePack(s) PROVE \E pack : Stores("initialized", pack)
    BY <2>1 DEF StorePack
  <2>2. ASSUME EnrichPack(s) PROVE \E pack : Stores("escalated", pack)
    BY <2>2 DEF EnrichPack
  <2>. HIDE DEF Stores
  <2>3. PICK ph, pack : ph \in {"initialized", "escalated"} /\ Stores(ph, pack)
    BY <1>4, <2>1, <2>2
  <2>4. SameCount([Obj(s) EXCEPT !.contextPack = pack], Obj(s))
    BY <1>2 DEF SameCount, Session
  <2>5. /\ turn' = [turn EXCEPT ![s] = [turn[s] EXCEPT !.phase = ph]]
        /\ [turn[s] EXCEPT !.phase = ph].phase # "accepting"
    BY <1>2, <2>3 DEF Await, Turn, Stores
  <2>. QED BY <1>1, <2>3, <2>4, <2>5, MoveKeeps DEF Stores
<1>5. CASE PropagatePack(s)
  <2>. DEFINE objs == [b \in Agents |-> [c \in Slots |->
                         IF b # turn[s].agent /\ sessions[b] = c /\ Obj(s).contextPack = "files"
                           THEN [obj[b][c] EXCEPT !.contextPack = "files"]
                           ELSE obj[b][c]]]
  <2>1. Finish(s, objs, turn[s].state) /\ UNCHANGED <<lists, accepts>>
    BY <1>5 DEF PropagatePack
  <2>2. \A o \in Session :
          /\ [o EXCEPT !.contextPack = "files"] \in Session
          /\ SameCount([o EXCEPT !.contextPack = "files"], o) /\ SameCount(o, o)
    BY DEF Session, SameCount, PackStates
  <2>3. objs \in [Agents -> [Slots -> Session]]
    BY <1>2, <2>2
  <2>4. \A a \in Agents, c \in Slots : SameCount(objs[a][c], obj[a][c])
    BY <1>2, <2>2
  <2>. HIDE DEF objs
  <2>. QED BY <1>1, <2>1, <2>3, <2>4, FinishKeeps
<1>. QED BY <1>3, <1>4, <1>5, StorePlanProgress, ResetProgressProgress, CompleteNodeProgress
         DEF Continue

LEMMA NextProgress == TypeInv /\ ProgressInv /\ [Next]_vars => ProgressInv'
<1>1. ASSUME TypeInv, ProgressInv, UNCHANGED vars PROVE ProgressInv'
  BY <1>1, StayKeeps DEF vars
<1>. QED BY <1>1, BeginProgress, ThrowProgress, DispatchProgress, ContinueProgress DEF Next

\* However agents share and copy progress records and their turns interleave,
\* no session counts more completed nodes than its progress array holds.
THEOREM CounterBounded == Spec => []CounterWithinList
<1>1. ProgressInv => CounterWithinList
  BY DEF ProgressInv, Counted, WithinList, CounterWithinList, Objects
<1>. QED BY <1>1, InitType, InitProgress, NextType, NextProgress, PTL DEF Spec

-----------------------------------------------------------------------------
(* Pending validations.                                                    *)

LEMMA MarkedDisjoint ==
  ASSUME NEW l, NEW p, NEW n, l.done \cap l.eligible = {}
  PROVE  Marked(l, p, n).done \cap Marked(l, p, n).eligible = {}
<1> DEFINE done == l.done \cup {n}
<1>1. Marked(l, p, n) =
        [done |-> done, eligible |-> (l.eligible \ {n}) \cup EligibleNow(p, done)]
  BY DEF Marked
<1>2. done \cap EligibleNow(p, done) = {}
  <2>. HIDE DEF done
  <2>. QED BY Zenon DEF EligibleNow
<1>. QED BY <1>1, <1>2

LEMMA NextEligible == TypeInv /\ EligibleNotDone /\ [Next]_vars => EligibleNotDone'
<1>1. SUFFICES ASSUME TypeInv, EligibleNotDone, [Next]_vars PROVE EligibleNotDone'
  OBVIOUS
<1>2. lists \in [1 .. MaxAccepts -> ProgressLists]
  BY <1>1 DEF TypeInv, TypeOK
<1>3. CASE UNCHANGED lists
  BY <1>1, <1>3 DEF EligibleNotDone
<1>4. ASSUME NEW s \in Slots, ResetProgress(s) PROVE EligibleNotDone'
  BY <1>1, <1>2, <1>4 DEF ResetProgress, EligibleNotDone, EmptyLists
<1>5. ASSUME NEW s \in Slots, CompleteNode(s) PROVE EligibleNotDone'
  <2>. DEFINE k == Obj(s).progress
              l == Marked(lists[k], Obj(s).planGraph, turn[s].node)
  <2>1. UNCHANGED lists \/ (k # 0 /\ lists' = [lists EXCEPT ![k] = l])
    BY <1>5 DEF CompleteNode
  <2>2. CASE k # 0 /\ lists' = [lists EXCEPT ![k] = l]
    <3>1. k \in 1 .. MaxAccepts
      BY <1>1, <1>5, <2>2, StateType, ConstantsAssumption DEF CompleteNode, Session
    <3>2. l.done \cap l.eligible = {}
      BY <1>1, <3>1, MarkedDisjoint DEF EligibleNotDone
    <3>. HIDE DEF k, l
    <3>. QED BY <1>1, <1>2, <2>2, <3>1, <3>2 DEF EligibleNotDone
  <2>. QED BY <1>3, <2>1, <2>2
<1>6. ASSUME NEW s \in Slots, DispatchVerb(s) PROVE UNCHANGED lists
  BY <1>6 DEF DispatchVerb, DenyBudget, DenySync, HandleObserving, HandleInitializeWork,
     HandleSubmitPlan, HandlePatchApply, HandleCodeRun, HandleSideEffect, StartMutation,
     HandleEscalate, DenyIncomplete, HandleSignalTaskComplete
<1>7. ASSUME NEW s \in Slots, Continue(s)
      PROVE  UNCHANGED lists \/ ResetProgress(s) \/ CompleteNode(s)
  BY <1>7, Zenon
     DEF Continue, FinishUnchanged, StorePack, FinishInitializeWork, RejectPlan, StorePlan,
     FinishSubmitPlan, EnrichPack, PropagatePack, FinishSignalTaskComplete
<1>. QED BY <1>1, <1>3, <1>4, <1>5, <1>6, <1>7, Zenon DEF Next, Begin, Throw, vars

\* For any interleaving, plan and sharing of progress arrays, no node is both
\* completed and pending validation.
THEOREM PendingNotDone == Spec => []EligibleNotDone
<1>1. Init => EligibleNotDone
  BY DEF Init, EligibleNotDone, EmptyLists
<1>. QED BY <1>1, InitType, NextType, NextEligible, PTL DEF Spec

-----------------------------------------------------------------------------
(* What a working session has.                                             *)

\* Until an agent is in the Map, each of its turns works on its own object.
Ownership ==
  \A s \in Slots :
    (turn[s].phase # "idle" /\ sessions[turn[s].agent] = None) => turn[s].sess = s

Equipped(o) ==
  /\ o.state \in {"PLANNING", "PLAN_ACCEPTED"} => o.contextPack # "none"
  /\ o.state = "PLAN_ACCEPTED" => o.planGraph # None /\ o.progress # 0

\* The phases whose turn ends in the run state it read at dispatch.
Resuming == {"observing", "mutating", "escalating", "escalated"}

NeedsPack(t) ==
  \/ t.phase \in {"initialized", "validating", "accepting", "accepted"}
  \/ t.phase \in Resuming /\ t.state \in {"PLANNING", "PLAN_ACCEPTED"}

NeedsPlan(t) ==
  \/ t.phase \in {"accepting", "accepted"}
  \/ t.phase \in Resuming /\ t.state = "PLAN_ACCEPTED"

NeedsRecord(t) ==
  \/ t.phase = "accepted"
  \/ t.phase \in Resuming /\ t.state = "PLAN_ACCEPTED"

\* o has what turn t relies on.
Serves(o, t) ==
  /\ NeedsPack(t) => o.contextPack # "none"
  /\ NeedsPlan(t) => o.planGraph # None
  /\ NeedsRecord(t) => o.progress # 0

TurnEquipped ==
  \A s \in Slots :
    /\ turn[s].phase # "idle" => Serves(Obj(s), turn[s])
    /\ turn[s].phase = "mutating" => turn[s].state = "PLAN_ACCEPTED"

ObjectsEquipped == \A a \in Agents, c \in Slots : Equipped(obj[a][c])

EquippedInv == Ownership /\ ObjectsEquipped /\ TurnEquipped

-----------------------------------------------------------------------------
(* Steps that only move a turn, and steps that end one.                    *)

\* o2 still has what o1 had.
Gains(o1, o2) ==
  /\ o1.contextPack # "none" => o2.contextPack # "none"
  /\ o1.planGraph # None => o2.planGraph # None
  /\ o1.progress # 0 => o2.progress # 0

LEMMA GainsServes ==
  ASSUME NEW o1, NEW o2, Gains(o1, o2)
  PROVE  /\ \A t : Serves(o1, t) => Serves(o2, t)
         /\ Equipped(o1) /\ o2.state = o1.state => Equipped(o2)
  BY DEF Gains, Serves, Equipped

\* Turn s moves on and writes o on its object.
LEMMA MoveEquipped ==
  ASSUME TypeInv, EquippedInv, NEW s \in Slots, turn[s].phase # "idle",
         NEW t, turn' = [turn EXCEPT ![s] = t],
         t.agent = turn[s].agent, t.sess = turn[s].sess,
         NEW o, obj' = Update(s, o), o.state = Obj(s).state, Gains(Obj(s), o),
         Serves(o, t), t.phase = "mutating" => t.state = "PLAN_ACCEPTED",
         UNCHANGED sessions
  PROVE  EquippedInv'
<1>1. turn[s].agent \in Agents /\ turn[s].sess \in Slots
  BY DEF TypeInv, TypeOK
<1>2. obj \in [Agents -> [Slots -> Session]] /\ turn \in [Slots -> Turn]
  BY DEF TypeInv, TypeOK
<1>3. /\ obj'[turn[s].agent][turn[s].sess] = o
      /\ \A a \in Agents, c \in Slots :
           obj'[a][c] = obj[a][c] \/ (a = turn[s].agent /\ c = turn[s].sess)
  BY <1>1, <1>2 DEF Update
<1>4. \A a \in Agents, c \in Slots :
        Gains(obj[a][c], obj'[a][c]) /\ obj'[a][c].state = obj[a][c].state
  BY <1>3 DEF Obj, Gains
<1>5. ObjectsEquipped'
  BY <1>4, GainsServes DEF EquippedInv, ObjectsEquipped
<1>6. Ownership'
  BY <1>2 DEF EquippedInv, Ownership
<1>7. TurnEquipped'
  <2>1. SUFFICES ASSUME NEW r \in Slots
                 PROVE  /\ turn'[r].phase # "idle" => Serves(Obj(r)', turn'[r])
                        /\ turn'[r].phase = "mutating" => turn'[r].state = "PLAN_ACCEPTED"
    BY DEF TurnEquipped
  <2>2. CASE r = s
    BY <1>2, <1>3, <2>2 DEF Obj
  <2>3. CASE r # s
    <3>1. turn'[r] = turn[r]
      BY <1>2, <2>3
    <3>2. turn[r].phase # "idle" =>
            turn[r].agent \in Agents /\ turn[r].sess \in Slots /\ Serves(Obj(r), turn[r])
      BY DEF EquippedInv, TurnEquipped, TypeInv, TypeOK
    <3>. QED BY <1>4, <3>1, <3>2, GainsServes DEF EquippedInv, TurnEquipped, Obj
  <2>. QED BY <2>2, <2>3
<1>. QED BY <1>5, <1>6, <1>7 DEF EquippedInv

\* Turn s moves on and leaves the objects alone.
LEMMA StayEquipped ==
  ASSUME TypeInv, EquippedInv, NEW s \in Slots, turn[s].phase # "idle",
         NEW t, turn' = [turn EXCEPT ![s] = t],
         t.agent = turn[s].agent, t.sess = turn[s].sess,
         Serves(Obj(s), t), t.phase = "mutating" => t.state = "PLAN_ACCEPTED",
         UNCHANGED <<sessions, obj>>
  PROVE  EquippedInv'
<1>1. obj' = Update(s, Obj(s))
  <2>1. turn[s].agent \in Agents /\ turn[s].sess \in Slots
    BY DEF TypeInv, TypeOK
  <2>2. obj[turn[s].agent] = [obj[turn[s].agent] EXCEPT ![turn[s].sess] = Obj(s)]
    BY <2>1 DEF TypeInv, TypeOK, Obj
  <2>3. obj = [obj EXCEPT ![turn[s].agent] =
                 [obj[turn[s].agent] EXCEPT ![turn[s].sess] = Obj(s)]]
    BY <2>1, <2>2 DEF TypeInv, TypeOK
  <2>. QED BY <2>3 DEF Update
<1>2. Gains(Obj(s), Obj(s))
  BY DEF Gains
<1>. QED BY <1>1, <1>2, MoveEquipped

\* Turn s ends in run state st and leaves the objects objs.
LEMMA FinishEquipped ==
  ASSUME TypeInv, EquippedInv, NEW s \in Slots, turn[s].phase # "idle",
         NEW objs \in [Agents -> [Slots -> Session]], NEW st \in RunStates,
         \A a \in Agents, c \in Slots :
           Gains(obj[a][c], objs[a][c]) /\ objs[a][c].state = obj[a][c].state,
         LET o == objs[turn[s].agent][turn[s].sess]
         IN  /\ st \in {"PLANNING", "PLAN_ACCEPTED"} => o.contextPack # "none"
             /\ st = "PLAN_ACCEPTED" => o.planGraph # None /\ o.progress # 0,
         Finish(s, objs, st)
  PROVE  EquippedInv'
<1>. DEFINE a0 == turn[s].agent
            c0 == turn[s].sess
<1>1. a0 \in Agents /\ c0 \in Slots
  BY DEF TypeInv, TypeOK
<1>2. sessions \in [Agents -> Slots \cup {None}] /\ turn \in [Slots -> Turn]
  BY DEF TypeInv, TypeOK
<1>3. /\ obj' = [objs EXCEPT ![a0][c0].state = Clamp(s, st)]
      /\ sessions' = [sessions EXCEPT ![a0] = c0]
      /\ turn' = [turn EXCEPT ![s] = NoTurn]
  BY DEF Finish
<1>. HIDE DEF a0, c0
<1>4. \A a \in Agents, c \in Slots :
        /\ obj'[a][c].contextPack = objs[a][c].contextPack
        /\ obj'[a][c].planGraph = objs[a][c].planGraph
        /\ obj'[a][c].progress = objs[a][c].progress
        /\ a = a0 /\ c = c0 => obj'[a][c].state = Clamp(s, st)
        /\ ~(a = a0 /\ c = c0) => obj'[a][c].state = objs[a][c].state
  <2>1. \A a \in Agents, c \in Slots :
          obj'[a][c] = IF a = a0 /\ c = c0
                         THEN [objs[a][c] EXCEPT !.state = Clamp(s, st)]
                         ELSE objs[a][c]
    BY <1>1, <1>3
  <2>2. \A o \in Session :
          /\ [o EXCEPT !.state = Clamp(s, st)].contextPack = o.contextPack
          /\ [o EXCEPT !.state = Clamp(s, st)].planGraph = o.planGraph
          /\ [o EXCEPT !.state = Clamp(s, st)].progress = o.progress
          /\ [o EXCEPT !.state = Clamp(s, st)].state = Clamp(s, st)
    BY DEF Session
  <2>3. ASSUME NEW a \in Agents, NEW c \in Slots
        PROVE  /\ obj'[a][c].contextPack = objs[a][c].contextPack
               /\ obj'[a][c].planGraph = objs[a][c].planGraph
               /\ obj'[a][c].progress = objs[a][c].progress
               /\ a = a0 /\ c = c0 => obj'[a][c].state = Clamp(s, st)
               /\ ~(a = a0 /\ c = c0) => obj'[a][c].state = objs[a][c].state
    <3>1. objs[a][c] \in Session
      OBVIOUS
    <3>2. CASE a = a0 /\ c = c0
      <4>1. obj'[a][c] = [objs[a][c] EXCEPT !.state = Clamp(s, st)]
        BY <2>1, <3>2
      <4>. QED BY <2>2, <3>1, <3>2, <4>1
    <3>3. CASE ~(a = a0 /\ c = c0)
      BY <2>1, <3>3
    <3>. QED BY <3>2, <3>3
  <2>. QED BY <2>3
<1>5. ObjectsEquipped'
  <2>1. SUFFICES ASSUME NEW a \in Agents, NEW c \in Slots
                 PROVE  Equipped(obj'[a][c])
    BY DEF ObjectsEquipped
  <2>2. CASE a = a0 /\ c = c0
    <3>1. Clamp(s, st) \in {st, "BLOCKED_BUDGET"}
      BY DEF Clamp
    <3>. QED BY <1>4, <2>2, <3>1 DEF Equipped, a0, c0
  <2>3. CASE ~(a = a0 /\ c = c0)
    <3>1. Equipped(objs[a][c])
      BY GainsServes DEF EquippedInv, ObjectsEquipped
    <3>. QED BY <1>4, <2>3, <3>1 DEF Equipped
  <2>. QED BY <2>2, <2>3
<1>6. \A r \in Slots : turn'[r].phase # "idle" => r # s /\ turn'[r] = turn[r]
  BY <1>2, <1>3 DEF NoTurn
<1>7. Ownership'
  <2>1. \A a \in Agents : sessions'[a] = None => sessions[a] = None
    BY <1>1, <1>2, <1>3, ConstantsAssumption
  <2>. QED BY <1>6, <2>1 DEF EquippedInv, Ownership, TypeInv, TypeOK
<1>8. TurnEquipped'
  <2>1. SUFFICES ASSUME NEW r \in Slots, turn'[r].phase # "idle"
                 PROVE  /\ Serves(Obj(r)', turn'[r])
                        /\ turn'[r].phase = "mutating" => turn'[r].state = "PLAN_ACCEPTED"
    BY DEF TurnEquipped
  <2>2. turn'[r] = turn[r] /\ turn[r].agent \in Agents /\ turn[r].sess \in Slots
    BY <1>6, <2>1 DEF TypeInv, TypeOK
  <2>3. Serves(Obj(r), turn[r]) /\ (turn[r].phase = "mutating" => turn[r].state = "PLAN_ACCEPTED")
    BY <2>1, <2>2 DEF EquippedInv, TurnEquipped
  <2>4. Gains(Obj(r), Obj(r)')
    BY <1>4, <2>2 DEF Obj, Gains
  <2>. QED BY <2>2, <2>3, <2>4, GainsServes
<1>. QED BY <1>5, <1>7, <1>8 DEF EquippedInv

-----------------------------------------------------------------------------
(* The actions.                                                            *)

LEMMA InitEquipped == Init => EquippedInv
  BY DEF Init, EquippedInv, Ownership, ObjectsEquipped, TurnEquipped, Equipped,
     NewSession, NoTurn, Serves, NeedsPack, NeedsPlan, NeedsRecord, Resuming

LEMMA BeginEquipped ==
  ASSUME TypeInv, EquippedInv, NEW s \in Slots, NEW a \in Agents, Begin(s, a)
  PROVE  EquippedInv'
<1>1. PICK over \in BOOLEAN :
        LET known == sessions[a] # None
            c == IF known THEN sessions[a] ELSE s
            o == IF known THEN obj[a][c] ELSE Inherited
            spent == o.spent \/ over
        IN  /\ obj' = [obj EXCEPT ![a][c] = [o EXCEPT !.spent = spent]]
            /\ turn' = [turn EXCEPT ![s] =
                 [NoTurn EXCEPT !.phase = "logged", !.agent = a, !.sess = c,
                                !.blocked = spent]]
  BY DEF Begin
<1>. DEFINE c == IF sessions[a] # None THEN sessions[a] ELSE s
            o == IF sessions[a] # None THEN obj[a][c] ELSE Inherited
            o2 == [o EXCEPT !.spent = o.spent \/ over]
<1>2. /\ turn[s].phase = "idle" /\ UNCHANGED sessions
      /\ turn \in [Slots -> Turn] /\ obj \in [Agents -> [Slots -> Session]]
  BY DEF Begin, TypeInv, TypeOK
<1>3. c \in Slots
  BY DEF TypeInv, TypeOK
<1>4. /\ obj' = [obj EXCEPT ![a][c] = o2]
      /\ turn'[s].phase = "logged" /\ turn'[s].agent = a /\ turn'[s].sess = c
      /\ \A r \in Slots \ {s} : turn'[r] = turn[r]
  BY <1>1, <1>2 DEF NoTurn
<1>5. Equipped(o) /\ Equipped(o2)
  <2>1. CASE sessions[a] # None
    <3>1. o \in Session /\ Equipped(o)
      BY <1>2, <1>3, <2>1 DEF EquippedInv, ObjectsEquipped
    <3>. HIDE DEF o
    <3>. QED BY <3>1 DEF Equipped, Session
  <2>2. CASE sessions[a] = None /\ first # None
    <3>1. first \in Agents /\ sessions[first] \in Slots
      BY <2>2 DEF TypeInv, TypeOK, FirstKnown
    <3>2. obj[first][sessions[first]] \in Session /\ Equipped(obj[first][sessions[first]])
      BY <1>2, <3>1 DEF EquippedInv, ObjectsEquipped
    <3>. QED BY <2>2, <3>2 DEF Inherited, Equipped, Session
  <2>3. CASE sessions[a] = None /\ first = None
    BY <2>3 DEF Inherited, NewSession, Equipped
  <2>. QED BY <2>1, <2>2, <2>3
<1>6. ObjectsEquipped'
  <2>. HIDE DEF c, o2
  <2>. QED BY <1>2, <1>3, <1>4, <1>5 DEF EquippedInv, ObjectsEquipped
<1>7. Ownership'
  BY <1>2, <1>4 DEF EquippedInv, Ownership
<1>8. TurnEquipped'
  <2>1. SUFFICES ASSUME NEW r \in Slots, turn'[r].phase # "idle"
                 PROVE  /\ Serves(Obj(r)', turn'[r])
                        /\ turn'[r].phase = "mutating" => turn'[r].state = "PLAN_ACCEPTED"
    BY DEF TurnEquipped
  <2>2. CASE r = s
    BY <1>4, <2>2 DEF Serves, NeedsPack, NeedsPlan, NeedsRecord, Resuming
  <2>3. CASE r # s
    <3>1. /\ turn'[r] = turn[r] /\ turn[r].agent \in Agents /\ turn[r].sess \in Slots
          /\ Serves(Obj(r), turn[r])
          /\ turn[r].phase = "mutating" => turn[r].state = "PLAN_ACCEPTED"
      BY <1>4, <2>1, <2>3 DEF EquippedInv, TurnEquipped, TypeInv, TypeOK
    <3>2. Gains(Obj(r), Obj(r)')
      <4>1. CASE turn[r].agent = a /\ turn[r].sess = c
        <5>1. sessions[a] # None
          BY <2>1, <2>3, <3>1, <4>1 DEF EquippedInv, Ownership
        <5>2. o = Obj(r) /\ o \in Session /\ Obj(r)' = o2
          <6>. HIDE DEF o2
          <6>. QED BY <1>2, <1>3, <1>4, <3>1, <4>1, <5>1 DEF Obj
        <5>. HIDE DEF o
        <5>. QED BY <5>2 DEF Gains, Session
      <4>2. CASE ~(turn[r].agent = a /\ turn[r].sess = c)
        <5>1. Obj(r)' = Obj(r)
          <6>. HIDE DEF c, o2
          <6>. QED BY <1>2, <1>3, <1>4, <3>1, <4>2 DEF Obj
        <5>. QED BY <5>1 DEF Gains
      <4>. QED BY <4>1, <4>2
    <3>. QED BY <3>1, <3>2, GainsServes
  <2>. QED BY <2>2, <2>3
<1>. QED BY <1>6, <1>7, <1>8 DEF EquippedInv

LEMMA ThrowEquipped ==
  ASSUME TypeInv, EquippedInv, NEW s \in Slots, Throw(s)
  PROVE  EquippedInv'
<1>1. /\ turn' = [turn EXCEPT ![s] = NoTurn] /\ UNCHANGED <<sessions, obj>>
      /\ turn \in [Slots -> Turn]
  BY DEF Throw, TypeInv, TypeOK
<1>2. \A r \in Slots : turn'[r].phase # "idle" => turn'[r] = turn[r] /\ Obj(r)' = Obj(r)
  BY <1>1 DEF NoTurn, Obj
<1>3. NoTurn.phase = "idle"
  BY DEF NoTurn
<1>. QED BY <1>1, <1>2, <1>3 DEF EquippedInv, Ownership, ObjectsEquipped, TurnEquipped

\* What the run state a turn sees guarantees of its object, and which states
\* offer the verbs that rely on it.
LEMMA SeenState ==
  ASSUME TypeInv, EquippedInv, NEW s \in Slots, turn[s].phase # "idle"
  PROVE  /\ StateOf(s) \in {"PLANNING", "PLAN_ACCEPTED"} => Obj(s).contextPack # "none"
         /\ StateOf(s) = "PLAN_ACCEPTED" => Obj(s).planGraph # None /\ Obj(s).progress # 0
  BY DEF EquippedInv, ObjectsEquipped, Equipped, TypeInv, TypeOK, StateOf, Obj

LEMMA Offered ==
  ASSUME NEW st \in RunStates
  PROVE  /\ "submit_execution_plan" \in CapabilitiesForState(st) =>
              st \in {"PLANNING", "PLAN_ACCEPTED"}
         /\ \A verb \in {"apply_code_patch", "run_sandboxed_code", "execute_gated_side_effect"} :
              verb \in CapabilitiesForState(st) => st = "PLAN_ACCEPTED"
  BY DEF RunStates, CapabilitiesForState, PrePlanCapabilities, PostPlanCapabilities,
     BudgetSafeVerbs

LEMMA DispatchEquipped ==
  ASSUME TypeInv, EquippedInv, NEW s \in Slots, DispatchVerb(s)
  PROVE  EquippedInv'
<1>1. turn[s].phase = "logged"
  BY DEF DispatchVerb, DenyBudget, DenySync, Dispatched, HandleObserving, HandleInitializeWork,
     HandleSubmitPlan, HandlePatchApply, HandleCodeRun, HandleSideEffect, StartMutation,
     HandleEscalate, DenyIncomplete, HandleSignalTaskComplete
<1>2. /\ turn[s] \in Turn /\ StateOf(s) \in RunStates /\ "BLOCKED_BUDGET" \in RunStates
      /\ obj \in [Agents -> [Slots -> Session]]
      /\ turn[s].agent \in Agents /\ turn[s].sess \in Slots
  BY <1>1, StateType DEF TypeInv, TypeOK, RunStates
<1>3. /\ StateOf(s) \in {"PLANNING", "PLAN_ACCEPTED"} => Obj(s).contextPack # "none"
      /\ StateOf(s) = "PLAN_ACCEPTED" => Obj(s).planGraph # None /\ Obj(s).progress # 0
  BY <1>1, SeenState
<1>4. CASE DenyBudget(s) \/ DenySync(s) \/ DenyIncomplete(s)
  <2>1. PICK st \in {"BLOCKED_BUDGET", StateOf(s)} : Finish(s, obj, st)
    BY <1>4 DEF DenyBudget, DenySync, DenyIncomplete
  <2>2. \A a \in Agents, c \in Slots :
          Gains(obj[a][c], obj[a][c]) /\ obj[a][c].state = obj[a][c].state
    BY DEF Gains
  <2>3. /\ st \in {"PLANNING", "PLAN_ACCEPTED"} =>
             obj[turn[s].agent][turn[s].sess].contextPack # "none"
        /\ st = "PLAN_ACCEPTED" =>
             /\ obj[turn[s].agent][turn[s].sess].planGraph # None
             /\ obj[turn[s].agent][turn[s].sess].progress # 0
    BY <1>3 DEF Obj
  <2>. QED BY <1>1, <1>2, <2>1, <2>2, <2>3, FinishEquipped
<1>5. CASE HandleInitializeWork(s) \/ HandleSubmitPlan(s) \/ HandleSignalTaskComplete(s)
  <2>1. PICK ph \in {"initializing", "validating", "completing"} :
          /\ Await(s, ph) /\ UNCHANGED <<sessions, obj>>
          /\ ph = "validating" => "submit_execution_plan" \in CapabilitiesForState(StateOf(s))
    BY <1>5 DEF HandleInitializeWork, HandleSubmitPlan, HandleSignalTaskComplete, Dispatched
  <2>. DEFINE t == [turn[s] EXCEPT !.phase = ph]
  <2>2. t.phase = ph /\ t.agent = turn[s].agent /\ t.sess = turn[s].sess
    BY <1>2 DEF Turn
  <2>3. turn' = [turn EXCEPT ![s] = t]
    BY <2>1 DEF Await
  <2>. HIDE DEF t
  <2>4. Serves(Obj(s), t)
    BY <1>2, <1>3, <2>1, <2>2, Offered DEF Serves, NeedsPack, NeedsPlan, NeedsRecord, Resuming
  <2>. QED BY <1>1, <2>1, <2>2, <2>3, <2>4, StayEquipped
<1>6. ASSUME NEW t, turn' = [turn EXCEPT ![s] = t],
             t.phase \in {"observing", "mutating", "escalating"},
             t.agent = turn[s].agent, t.sess = turn[s].sess, t.state = StateOf(s),
             t.phase = "mutating" => StateOf(s) = "PLAN_ACCEPTED",
             UNCHANGED <<sessions, obj>>
      PROVE  EquippedInv'
  <2>1. Serves(Obj(s), t)
    BY <1>3, <1>6 DEF Serves, NeedsPack, NeedsPlan, NeedsRecord
  <2>. QED BY <1>1, <1>6, <2>1, StayEquipped
<1>7. CASE HandleObserving(s)
  <2>. DEFINE t == [turn[s] EXCEPT !.phase = "observing", !.state = StateOf(s)]
  <2>1. /\ t.phase = "observing" /\ t.state = StateOf(s)
        /\ t.agent = turn[s].agent /\ t.sess = turn[s].sess
    BY <1>2 DEF Turn
  <2>2. turn' = [turn EXCEPT ![s] = t] /\ UNCHANGED <<sessions, obj>>
    BY <1>7 DEF HandleObserving
  <2>. HIDE DEF t
  <2>. QED BY <1>6, <2>1, <2>2
<1>8. CASE HandleEscalate(s)
  <2>. DEFINE t == [turn[s] EXCEPT !.phase = "escalating", !.state = StateOf(s),
                                   !.pack = Obj(s).contextPack]
  <2>1. /\ t.phase = "escalating" /\ t.state = StateOf(s)
        /\ t.agent = turn[s].agent /\ t.sess = turn[s].sess
    BY <1>2 DEF Turn
  <2>2. turn' = [turn EXCEPT ![s] = t] /\ UNCHANGED <<sessions, obj>>
    BY <1>8 DEF HandleEscalate
  <2>. HIDE DEF t
  <2>. QED BY <1>6, <2>1, <2>2
<1>9. ASSUME NEW verb \in {"apply_code_patch", "run_sandboxed_code", "execute_gated_side_effect"},
             NEW kinds, NEW n, StartMutation(s, verb, kinds, n)
      PROVE  EquippedInv'
  <2>. DEFINE t == [turn[s] EXCEPT !.phase = "mutating", !.state = StateOf(s),
                                   !.verb = verb, !.node = n]
  <2>1. /\ t.phase = "mutating" /\ t.state = StateOf(s)
        /\ t.agent = turn[s].agent /\ t.sess = turn[s].sess
    BY <1>2 DEF Turn
  <2>2. turn' = [turn EXCEPT ![s] = t] /\ UNCHANGED <<sessions, obj>>
    BY <1>9 DEF StartMutation
  <2>3. StateOf(s) = "PLAN_ACCEPTED"
    BY <1>2, <1>9, Offered DEF StartMutation, Dispatched
  <2>. HIDE DEF t
  <2>. QED BY <1>6, <2>1, <2>2, <2>3
<1>10. CASE \E n \in Nodes : HandlePatchApply(s, n) \/ HandleCodeRun(s, n)
                               \/ HandleSideEffect(s, n)
  BY <1>9, <1>10 DEF HandlePatchApply, HandleCodeRun, HandleSideEffect
<1>. QED BY <1>4, <1>5, <1>7, <1>8, <1>10 DEF DispatchVerb

LEMMA ContinueEquipped ==
  ASSUME TypeInv, TypeInv', EquippedInv, NEW s \in Slots, Continue(s)
  PROVE  EquippedInv'
<1>1. turn[s].phase # "idle"
  BY DEF Continue, FinishUnchanged, StorePack, FinishInitializeWork, RejectPlan, StorePlan,
     ResetProgress, FinishSubmitPlan, CompleteNode, EnrichPack, PropagatePack,
     FinishSignalTaskComplete
<1>2. /\ turn[s] \in Turn /\ turn[s].state \in RunStates
      /\ turn[s].agent \in Agents /\ turn[s].sess \in Slots /\ Obj(s) \in Session
      /\ obj \in [Agents -> [Slots -> Session]]
  BY <1>1, StateType DEF Turn, TypeInv, TypeOK
<1>3. /\ Serves(Obj(s), turn[s])
      /\ turn[s].phase = "mutating" => turn[s].state = "PLAN_ACCEPTED"
  BY <1>1 DEF EquippedInv, TurnEquipped
<1>4. ASSUME NEW st \in RunStates, Finish(s, obj, st),
             st \in {"PLANNING", "PLAN_ACCEPTED"} => Obj(s).contextPack # "none",
             st = "PLAN_ACCEPTED" => Obj(s).planGraph # None /\ Obj(s).progress # 0
      PROVE  EquippedInv'
  <2>1. \A a \in Agents, c \in Slots :
          Gains(obj[a][c], obj[a][c]) /\ obj[a][c].state = obj[a][c].state
    BY DEF Gains
  <2>. QED BY <1>1, <1>2, <1>4, <2>1, FinishEquipped DEF Obj
<1>5. CASE FinishUnchanged(s)
  <2>1. Finish(s, obj, turn[s].state) /\ turn[s].phase \in {"observing", "mutating"}
    BY <1>5 DEF FinishUnchanged
  <2>. QED BY <1>2, <1>3, <1>4, <2>1
           DEF Serves, NeedsPack, NeedsPlan, NeedsRecord, Resuming
<1>6. CASE FinishInitializeWork(s) \/ RejectPlan(s)
  <2>1. Finish(s, obj, "PLANNING") /\ turn[s].phase \in {"initialized", "validating"}
    BY <1>6 DEF FinishInitializeWork, RejectPlan
  <2>. QED BY <1>3, <1>4, <2>1 DEF Serves, NeedsPack, RunStates
<1>7. CASE FinishSubmitPlan(s)
  <2>1. Finish(s, obj, "PLAN_ACCEPTED") /\ turn[s].phase = "accepted"
    BY <1>7 DEF FinishSubmitPlan
  <2>. QED BY <1>3, <1>4, <2>1 DEF Serves, NeedsPack, NeedsPlan, NeedsRecord, RunStates
<1>8. CASE FinishSignalTaskComplete(s)
  BY <1>4, <1>8 DEF FinishSignalTaskComplete, RunStates
\* The turn moves on with o on its object.
<1>9. ASSUME NEW t, turn' = [turn EXCEPT ![s] = t], t.phase # "mutating",
             t.agent = turn[s].agent, t.sess = turn[s].sess,
             NEW o, obj' = Update(s, o), o.state = Obj(s).state,
             Gains(Obj(s), o), Serves(o, t), UNCHANGED sessions
      PROVE  EquippedInv'
  BY <1>1, <1>9, MoveEquipped
<1>10. CASE StorePack(s)
  <2>1. PICK files \in {"empty", "files"} :
          obj' = Update(s, [Obj(s) EXCEPT !.contextPack = files])
    BY <1>10 DEF StorePack
  <2>. DEFINE t == [turn[s] EXCEPT !.phase = "initialized"]
              o == [Obj(s) EXCEPT !.contextPack = files]
  <2>2. /\ t.phase = "initialized" /\ t.agent = turn[s].agent /\ t.sess = turn[s].sess
        /\ turn' = [turn EXCEPT ![s] = t] /\ UNCHANGED sessions
    BY <1>2, <1>10 DEF StorePack, Await, Turn
  <2>3. /\ o.state = Obj(s).state /\ o.contextPack # "none"
        /\ o.planGraph = Obj(s).planGraph /\ o.progress = Obj(s).progress
    BY <1>2 DEF Session
  <2>. HIDE DEF t, o
  <2>4. Gains(Obj(s), o) /\ Serves(o, t)
    BY <2>2, <2>3 DEF Gains, Serves, NeedsPlan, NeedsRecord, Resuming
  <2>. QED BY <1>9, <2>1, <2>2, <2>3, <2>4 DEF o
<1>11. ASSUME NEW p \in Plans, StorePlan(s, p) PROVE EquippedInv'
  <2>. DEFINE t == [turn[s] EXCEPT !.phase = "accepting", !.plan = p, !.record = accepts + 1]
              o == [Obj(s) EXCEPT !.planGraph = p]
  <2>1. /\ t.phase = "accepting" /\ t.agent = turn[s].agent /\ t.sess = turn[s].sess
        /\ turn' = [turn EXCEPT ![s] = t] /\ UNCHANGED sessions
        /\ obj' = Update(s, o) /\ turn[s].phase = "validating"
    BY <1>2, <1>11 DEF StorePlan, Turn
  <2>2. /\ o.state = Obj(s).state /\ o.contextPack = Obj(s).contextPack
        /\ o.planGraph # None /\ o.progress = Obj(s).progress
    BY <1>2, ConstantsAssumption DEF Session
  <2>. HIDE DEF t, o
  <2>3. Gains(Obj(s), o) /\ Serves(o, t)
    BY <1>3, <2>1, <2>2 DEF Gains, Serves, NeedsPack, NeedsRecord, Resuming
  <2>. QED BY <1>9, <2>1, <2>2, <2>3
<1>12. CASE ResetProgress(s)
  <2>. DEFINE t == [turn[s] EXCEPT !.phase = "accepted"]
              o == [Obj(s) EXCEPT !.progress = turn[s].record,
                                  !.totalNodes = Cardinality(Actionable(turn[s].plan)),
                                  !.completedNodes = 0]
  <2>1. /\ t.phase = "accepted" /\ t.agent = turn[s].agent /\ t.sess = turn[s].sess
        /\ turn' = [turn EXCEPT ![s] = t] /\ UNCHANGED sessions
        /\ obj' = Update(s, o) /\ turn[s].phase = "accepting"
    BY <1>2, <1>12 DEF ResetProgress, Await, Turn
  <2>2. turn[s].record # 0
    BY <2>1 DEF TypeInv, TypeOK
  <2>3. /\ o.state = Obj(s).state /\ o.contextPack = Obj(s).contextPack
        /\ o.planGraph = Obj(s).planGraph /\ o.progress # 0
    BY <1>2, <2>2 DEF Session
  <2>. HIDE DEF t, o
  <2>4. Gains(Obj(s), o) /\ Serves(o, t)
    BY <1>3, <2>1, <2>3 DEF Gains, Serves, NeedsPack, NeedsPlan, Resuming
  <2>. QED BY <1>9, <2>1, <2>3, <2>4
<1>13. CASE CompleteNode(s)
  <2>1. /\ turn[s].phase = "mutating"
        /\ Obj(s).contextPack # "none" /\ Obj(s).planGraph # None /\ Obj(s).progress # 0
    BY <1>3, <1>13 DEF CompleteNode, Serves, NeedsPack, NeedsPlan, NeedsRecord, Resuming
  <2>. DEFINE l == Marked(lists[Obj(s).progress], Obj(s).planGraph, turn[s].node)
              o == [Obj(s) EXCEPT !.completedNodes = Cardinality(l.done)]
  <2>2. CASE Finish(s, obj, "PLAN_ACCEPTED")
    BY <1>4, <2>1, <2>2 DEF RunStates
  <2>3. CASE Finish(s, Update(s, o), "PLAN_ACCEPTED") /\ Obj(s).progress \in 1 .. MaxAccepts
    <3>1. Cardinality(l.done) \in Nat
      BY <2>1, <2>3, ListCount DEF TypeInv, TypeOK
    <3>2. /\ o \in Session /\ o.state = Obj(s).state /\ o.contextPack = Obj(s).contextPack
          /\ o.planGraph = Obj(s).planGraph /\ o.progress = Obj(s).progress
      <4>. HIDE DEF l
      <4>. QED BY <1>2, <3>1 DEF Session
    <3>. HIDE DEF o
    <3>3. Update(s, o) \in [Agents -> [Slots -> Session]]
      BY <1>1, <3>2, UpdateType
    <3>4. /\ Update(s, o)[turn[s].agent][turn[s].sess] = o
          /\ \A a \in Agents, c \in Slots :
               Update(s, o)[a][c] = obj[a][c] \/ (a = turn[s].agent /\ c = turn[s].sess)
      BY <1>2 DEF Update
    <3>5. \A a \in Agents, c \in Slots :
            Gains(obj[a][c], Update(s, o)[a][c]) /\ Update(s, o)[a][c].state = obj[a][c].state
      BY <3>2, <3>4 DEF Gains, Obj
    <3> DEFINE objs == Update(s, o)
    <3>6. /\ objs \in [Agents -> [Slots -> Session]] /\ Finish(s, objs, "PLAN_ACCEPTED")
          /\ \A a \in Agents, c \in Slots :
               Gains(obj[a][c], objs[a][c]) /\ objs[a][c].state = obj[a][c].state
      BY <2>3, <3>3, <3>5
    <3>7. PICK p : p = objs[turn[s].agent][turn[s].sess] OBVIOUS
    <3>8. p.contextPack # "none" /\ p.planGraph # None /\ p.progress # 0
      BY <2>1, <3>2, <3>4, <3>7
    <3>9. "PLAN_ACCEPTED" \in RunStates /\ turn[s].phase # "idle" BY <2>1 DEF RunStates
    <3>. HIDE DEF objs
    <3>. QED BY <1>1, <3>6, <3>7, <3>8, <3>9, FinishEquipped
  <2>4. Obj(s).progress \in 1 .. MaxAccepts
    BY <1>2, <2>1, ConstantsAssumption DEF Session
  <2>. QED BY <1>13, <2>2, <2>3, <2>4 DEF CompleteNode
<1>14. CASE EnrichPack(s)
  <2>1. PICK pack \in {"empty", "files"} \cup {turn[s].pack} :
          /\ obj' = Update(s, [Obj(s) EXCEPT !.contextPack = pack])
          /\ pack # "none"
    BY <1>14 DEF EnrichPack
  <2>. DEFINE t == [turn[s] EXCEPT !.phase = "escalated"]
              o == [Obj(s) EXCEPT !.contextPack = pack]
  <2>2. /\ t.phase = "escalated" /\ t.agent = turn[s].agent /\ t.sess = turn[s].sess
        /\ t.state = turn[s].state /\ turn[s].phase = "escalating"
        /\ turn' = [turn EXCEPT ![s] = t] /\ UNCHANGED sessions
    BY <1>2, <1>14 DEF EnrichPack, Await, Turn
  <2>3. /\ o.state = Obj(s).state /\ o.contextPack # "none"
        /\ o.planGraph = Obj(s).planGraph /\ o.progress = Obj(s).progress
    BY <1>2, <2>1 DEF Session
  <2>. HIDE DEF t, o
  <2>4. Gains(Obj(s), o) /\ Serves(o, t)
    BY <1>3, <2>2, <2>3 DEF Gains, Serves, NeedsPlan, NeedsRecord, Resuming
  <2>. QED BY <1>9, <2>1, <2>2, <2>3, <2>4 DEF o
<1>15. CASE PropagatePack(s)
  <2>. DEFINE objs == [b \in Agents |-> [c \in Slots |->
                         IF b # turn[s].agent /\ sessions[b] = c /\ Obj(s).contextPack = "files"
                           THEN [obj[b][c] EXCEPT !.contextPack = "files"]
                           ELSE obj[b][c]]]
  <2>1. Finish(s, objs, turn[s].state) /\ turn[s].phase = "escalated"
    BY <1>15 DEF PropagatePack
  <2>2. \A o \in Session :
          /\ [o EXCEPT !.contextPack = "files"] \in Session
          /\ [o EXCEPT !.contextPack = "files"].state = o.state
          /\ Gains(o, [o EXCEPT !.contextPack = "files"])
    BY DEF Session, Gains, PackStates
  <2>3. objs \in [Agents -> [Slots -> Session]]
    BY <1>2, <2>2
  <2>4. \A a \in Agents, c \in Slots :
          Gains(obj[a][c], objs[a][c]) /\ objs[a][c].state = obj[a][c].state
    <3>1. SUFFICES ASSUME NEW a \in Agents, NEW c \in Slots
                   PROVE  Gains(obj[a][c], objs[a][c]) /\ objs[a][c].state = obj[a][c].state
      OBVIOUS
    <3>2. obj[a][c] \in Session /\ Gains(obj[a][c], obj[a][c])
      BY <1>2 DEF Gains
    <3>3. objs[a][c] \in {obj[a][c], [obj[a][c] EXCEPT !.contextPack = "files"]}
      OBVIOUS
    <3>. HIDE DEF objs
    <3>. QED BY <2>2, <3>2, <3>3
  <2>5. objs[turn[s].agent][turn[s].sess] = Obj(s)
    BY <1>2 DEF Obj
  <2>6. /\ turn[s].state \in {"PLANNING", "PLAN_ACCEPTED"} => Obj(s).contextPack # "none"
        /\ turn[s].state = "PLAN_ACCEPTED" => Obj(s).planGraph # None /\ Obj(s).progress # 0
    BY <1>3, <2>1 DEF Serves, NeedsPack, NeedsPlan, NeedsRecord, Resuming
  <2>. HIDE DEF objs
  <2>. QED BY <1>1, <1>2, <2>1, <2>3, <2>4, <2>5, <2>6, FinishEquipped
<1>. QED BY <1>5, <1>6, <1>7, <1>8, <1>10, <1>11, <1>12, <1>13, <1>14, <1>15 DEF Continue

LEMMA NextEquipped == TypeInv /\ TypeInv' /\ EquippedInv /\ [Next]_vars => EquippedInv'
<1>1. ASSUME EquippedInv, UNCHANGED vars PROVE EquippedInv'
  BY <1>1 DEF vars, EquippedInv, Ownership, ObjectsEquipped, TurnEquipped, Obj
<1>. QED BY <1>1, BeginEquipped, ThrowEquipped, DispatchEquipped, ContinueEquipped DEF Next

\* However turns of several agents interleave, whatever an agent inherits and
\* whatever is escalated, replanned or rejected, a session in PLANNING or
\* PLAN_ACCEPTED has a context pack and one in PLAN_ACCEPTED has a plan and a
\* progress record.
THEOREM WorkingSessionsEquipped == Spec => []WorkingStateIsEquipped
<1>1. EquippedInv => WorkingStateIsEquipped
  BY DEF EquippedInv, ObjectsEquipped, Equipped, WorkingStateIsEquipped, Objects
<1>. QED BY <1>1, InitType, InitEquipped, NextType, NextEquipped, PTL DEF Spec

-----------------------------------------------------------------------------
(* The turn controller behind a transport that serves one turn at a time,  *)
(* for any number of agents, plans and nodes.                              *)
(*                                                                         *)
(* What a turn read when it was admitted may be stale when it ends: with   *)
(* several turns in flight most properties proved here fail.  With one     *)
(* turn nothing runs between its segments, which is what TurnAlone says,   *)
(* and every progress record is about the plan of the sessions that have   *)
(* it, which is what Books says: agents share a record when one copied the *)
(* other's session, and each of them writes to it and resets only its own  *)
(* reference.  AloneInv is the conjunction.  It is inductive with the      *)
(* types and with ProgressInv, which keeps a new plan off the record of an *)
(* old one, and it is what makes every step a step of WorkLifecycle.       *)

\* One turn in flight.
OneSlot == \A r, s \in Slots : r = s

Working == {"PLANNING", "PLAN_ACCEPTED"}

Resumes(s) == turn[s].phase \in {"observing", "mutating", "escalating", "escalated"}

\* What the turn found when it passed the gates is still so.
Admitted(s) ==
  LET ph == turn[s].phase
      st == StateOf(s)
  IN  /\ ph \in {"observing", "validating", "accepting", "accepted"} => st \in Working
      /\ ph = "mutating" => st = "PLAN_ACCEPTED"
      /\ ph \in {"initializing", "initialized"} => st \in {"UNINITIALIZED", "BLOCKED_BUDGET"}
      /\ ph \in {"escalating", "escalated"} => st \in Working \cup {"BLOCKED_BUDGET"}
      /\ Resumes(s) => turn[s].state = st

\* What the turn is about to do still fits its session.
Ready(s) ==
  LET ph == turn[s].phase
      o == Obj(s)
  IN  /\ ph = "mutating" => o.planGraph # None /\ turn[s].node \in Actionable(o.planGraph)
      /\ ph = "accepting" =>
           /\ o.planGraph = turn[s].plan
           /\ turn[s].record \in 1 .. accepts /\ lists[turn[s].record] = EmptyLists
      /\ ph = "accepted" => o.progress = turn[s].record
      /\ ph = "completing" => Remaining(o) = 0

TurnAlone(s) ==
  turn[s].phase # "idle" => turn[s].blocked = Obj(s).spent /\ Admitted(s) /\ Ready(s)

\* The agents whose session object is in use, but for the one whose plan is
\* being replaced.
Steady ==
  {a \in Agents :
     /\ sessions[a] # None \/ TurnsOf(a) # {}
     /\ \A s \in TurnsOf(a) : turn[s].phase # "accepting"}

\* The progress record of a session is about its plan.
Booked(o) ==
  /\ o.planGraph = None <=> o.progress = 0
  /\ o.progress # 0 =>
       /\ o.totalNodes = Cardinality(Actionable(o.planGraph))
       /\ lists[o.progress].done \subseteq Actionable(o.planGraph)
       /\ lists[o.progress].eligible = EligibleNow(o.planGraph, lists[o.progress].done)
       /\ o.state = "COMPLETED" => AllDone(o)

SamePlan ==
  \A a, b \in Steady, c \in Slots :
    obj[a][c].progress # 0 /\ obj[a][c].progress = obj[b][c].progress =>
      obj[a][c].planGraph = obj[b][c].planGraph

Unopened == \A k \in 1 .. MaxAccepts : k > accepts => lists[k] = EmptyLists

Books ==
  /\ \A a \in Steady, c \in Slots : Booked(obj[a][c])
  /\ SamePlan
  /\ Unopened

AloneInv == (\A s \in Slots : TurnAlone(s)) /\ Books

-----------------------------------------------------------------------------
(* Lemmas.                                                                 *)

LEMMA TurnsOfSlot ==
  ASSUME OneSlot, NEW s \in Slots
  PROVE  \A a : TurnsOf(a) = IF turn[s].phase # "idle" /\ turn[s].agent = a THEN {s} ELSE {}
BY DEF OneSlot, TurnsOf

LEMMA TurnsOfSlotNext ==
  ASSUME OneSlot, NEW s \in Slots
  PROVE  \A a : TurnsOf(a)' = IF turn'[s].phase # "idle" /\ turn'[s].agent = a THEN {s} ELSE {}
BY DEF OneSlot, TurnsOf

\* o1 has the plan and the record of o2, and is not newly completed.
Like(o1, o2) ==
  /\ o1.planGraph = o2.planGraph /\ o1.progress = o2.progress
  /\ o1.totalNodes = o2.totalNodes
  /\ o1.state = "COMPLETED" /\ o1.progress # 0 => o2.state = "COMPLETED" \/ AllDone(o2)

LEMMA BooksKept ==
  ASSUME OneSlot, Books, NEW s \in Slots, UNCHANGED lists,
         accepts' \in Nat, accepts \in Nat, accepts' >= accepts,
         \A a \in Steady' :
           \/ obj'[a][s].progress = 0 /\ obj'[a][s].planGraph = None
           \/ \E b \in Steady : Like(obj'[a][s], obj[b][s])
  PROVE  Books'
<1>1. \A c \in Slots : c = s BY DEF OneSlot
<1>2. \A a \in Steady', c \in Slots : Booked(obj[a][c])'
  <2>. SUFFICES ASSUME NEW a \in Steady' PROVE Booked(obj[a][s])'
    BY <1>1
  <2>1. CASE obj'[a][s].progress = 0 /\ obj'[a][s].planGraph = None
    BY <2>1 DEF Booked
  <2>2. ASSUME NEW b \in Steady, Like(obj'[a][s], obj[b][s]) PROVE Booked(obj[a][s])'
    <3>1. Booked(obj[b][s]) BY DEF Books
    <3>. QED BY <2>2, <3>1 DEF Booked, Like, AllDone
  <2>. QED BY <2>1, <2>2
<1>3. SamePlan'
  <2>. SUFFICES ASSUME NEW a \in Steady', NEW b \in Steady',
                obj'[a][s].progress # 0, obj'[a][s].progress = obj'[b][s].progress
       PROVE  obj'[a][s].planGraph = obj'[b][s].planGraph
    BY <1>1 DEF SamePlan
  <2>1. PICK x \in Steady : Like(obj'[a][s], obj[x][s]) OBVIOUS
  <2>2. PICK y \in Steady : Like(obj'[b][s], obj[y][s]) OBVIOUS
  <2>3. obj[x][s].progress # 0 /\ obj[x][s].progress = obj[y][s].progress
    BY <2>1, <2>2 DEF Like
  <2>4. obj[x][s].planGraph = obj[y][s].planGraph
    BY <2>3 DEF Books, SamePlan
  <2>. QED BY <2>1, <2>2, <2>4 DEF Like
<1>4. Unopened'
  BY ConstantsAssumption DEF Books, Unopened
<1>. QED BY <1>2, <1>3, <1>4 DEF Books

-----------------------------------------------------------------------------
(* Steps that leave the records alone.                                     *)

SameWork(o1, o2) ==
  /\ o1.state = o2.state /\ o1.planGraph = o2.planGraph
  /\ o1.progress = o2.progress /\ o1.totalNodes = o2.totalNodes

\* A turn moves on.
LEMMA MoveKept ==
  ASSUME OneSlot, TypeInv, AloneInv, NEW s \in Slots,
         turn[s].phase \notin {"idle", "accepting"}, turn'[s].agent = turn[s].agent,
         UNCHANGED <<sessions, lists, accepts>>,
         \A a \in Agents : SameWork(obj'[a][s], obj[a][s]),
         TurnAlone(s)'
  PROVE  AloneInv'
<1>1. \A c \in Slots : TurnAlone(c)' BY DEF OneSlot
<1>2. accepts \in Nat BY ConstantsAssumption DEF TypeInv, TypeOK
<1>3. \A a \in Steady' : a \in Steady
  BY TurnsOfSlot, TurnsOfSlotNext DEF Steady
<1>4. \A a \in Steady' : Like(obj'[a][s], obj[a][s])
  BY DEF SameWork, Like, Steady
<1>5. Books' BY <1>2, <1>3, <1>4, BooksKept DEF AloneInv
<1>. QED BY <1>1, <1>5 DEF AloneInv

\* o2 is o1 but for its run state st.
EndsAs(o2, o1, st) ==
  /\ o2.state = st /\ o2.spent = o1.spent
  /\ o2.planGraph = o1.planGraph /\ o2.progress = o1.progress
  /\ o2.totalNodes = o1.totalNodes

\* What the end of a turn writes.
LEMMA FinishWrites ==
  ASSUME OneSlot, TypeInv, NEW s \in Slots, turn[s].phase # "idle",
         NEW objs \in [Agents -> [Slots -> Session]], NEW st, Finish(s, objs, st)
  PROVE  /\ turn'[s] = NoTurn
         /\ turn[s].sess = s /\ turn[s].agent \in Agents
         /\ sessions'[turn[s].agent] = s
         /\ \A a \in Agents : a # turn[s].agent => sessions'[a] = sessions[a]
         /\ EndsAs(obj'[turn[s].agent][s], objs[turn[s].agent][s], Clamp(s, st))
         /\ \A a \in Agents : a # turn[s].agent => obj'[a][s] = objs[a][s]
<1>1. turn[s].sess \in Slots /\ turn[s].agent \in Agents BY DEF TypeInv, TypeOK
<1>2. turn[s].sess = s BY <1>1 DEF OneSlot
<1>3. obj'[turn[s].agent][s] = [objs[turn[s].agent][s] EXCEPT !.state = Clamp(s, st)]
  BY <1>1, <1>2 DEF Finish
<1>4. objs[turn[s].agent][s] \in Session BY <1>1
<1>5. EndsAs(obj'[turn[s].agent][s], objs[turn[s].agent][s], Clamp(s, st))
  BY <1>3, <1>4 DEF EndsAs, Session
<1>. QED BY <1>1, <1>2, <1>5 DEF Finish, TypeInv, TypeOK

LEMMA FinishKept ==
  ASSUME OneSlot, TypeInv, AloneInv, NEW s \in Slots,
         turn[s].phase \notin {"idle", "accepting"},
         NEW objs \in [Agents -> [Slots -> Session]], NEW st, Finish(s, objs, st),
         UNCHANGED <<lists, accepts>>,
         \A a \in Agents : SameWork(objs[a][s], obj[a][s]),
         st = "COMPLETED" =>
           Obj(s).state = "COMPLETED" \/ (Obj(s).progress # 0 => AllDone(Obj(s)))
  PROVE  AloneInv'
<1>. DEFINE a == turn[s].agent
<1>1. /\ turn'[s] = NoTurn /\ a \in Agents /\ turn[s].sess = s
      /\ sessions'[a] = s
      /\ \A b \in Agents : b # a => sessions'[b] = sessions[b]
      /\ EndsAs(obj'[a][s], objs[a][s], Clamp(s, st))
      /\ \A b \in Agents : b # a => obj'[b][s] = objs[b][s]
  BY FinishWrites
<1>2. /\ turn'[s].phase = "idle"
      /\ \A c \in Slots : TurnAlone(c)'
  BY <1>1 DEF OneSlot, TurnAlone, NoTurn
<1>3. accepts \in Nat BY ConstantsAssumption DEF TypeInv, TypeOK
<1>4. \A b \in Steady' : b \in Steady
  <2>1. \A b : TurnsOf(b) = IF b = a THEN {s} ELSE {} BY TurnsOfSlot
  <2>2. \A b : TurnsOf(b)' = {} BY <1>2, TurnsOfSlotNext
  <2>3. ASSUME NEW b \in Agents, sessions'[b] # None PROVE b = a \/ sessions[b] # None
    BY <1>1, <2>3
  <2>. QED BY <2>1, <2>2, <2>3 DEF Steady
<1>5. Clamp(s, st) = "COMPLETED" => st = "COMPLETED" BY DEF Clamp
<1>6. Like(obj'[a][s], obj[a][s])
  <2>1. Obj(s) = obj[a][s] BY <1>1 DEF Obj
  <2>2. SameWork(objs[a][s], obj[a][s]) BY <1>1
  <2>. QED BY <1>1, <1>5, <2>1, <2>2 DEF SameWork, Like, EndsAs
<1>7. \A b \in Steady' : Like(obj'[b][s], obj[b][s])
  <2>1. ASSUME NEW b \in Agents, b # a PROVE Like(obj'[b][s], obj[b][s])
    <3>1. SameWork(objs[b][s], obj[b][s]) /\ obj'[b][s] = objs[b][s] BY <1>1, <2>1
    <3>. QED BY <3>1 DEF SameWork, Like
  <2>. QED BY <1>6, <2>1 DEF Steady
<1>8. Books' BY <1>3, <1>4, <1>7, BooksKept DEF AloneInv
<1>. QED BY <1>2, <1>8 DEF AloneInv

\* The turn begins: its session is the agent's own, a sibling's copy or new.
LEMMA BeginWrites ==
  ASSUME OneSlot, TypeInv, NEW s \in Slots, NEW a \in Agents, Begin(s, a)
  PROVE  /\ turn[s].phase = "idle" /\ turn'[s].phase = "logged"
         /\ turn'[s].agent = a /\ turn'[s].sess = s
         /\ turn'[s].blocked = obj'[a][s].spent
         /\ \A b \in Agents : b # a => obj'[b][s] = obj[b][s]
         /\ \/ sessions[a] # None /\ SameWork(obj'[a][s], obj[a][s])
            \/ sessions[a] = None /\ first = None /\ SameWork(obj'[a][s], NewSession)
            \/ /\ sessions[a] = None /\ first \in Agents
               /\ sessions[first] # None /\ SameWork(obj'[a][s], obj[first][s])
<1>. DEFINE known == sessions[a] # None
            o == IF known THEN obj[a][s] ELSE Inherited
<1>1. known => sessions[a] = s BY DEF TypeInv, TypeOK, OneSlot
<1>2. PICK over \in BOOLEAN :
        /\ obj' = [obj EXCEPT ![a][s] = [o EXCEPT !.spent = o.spent \/ over]]
        /\ turn' = [turn EXCEPT ![s] =
             [NoTurn EXCEPT !.phase = "logged", !.agent = a, !.sess = s,
                            !.blocked = o.spent \/ over]]
  BY <1>1 DEF Begin
<1>3. first # None => first \in Agents /\ sessions[first] = s
  BY DEF TypeInv, TypeOK, FirstKnown, OneSlot
<1>4. Inherited \in Session
  <2>1. CASE first = None
    BY <2>1, ConstantsAssumption DEF Inherited, NewSession, Session, RunStates, PackStates
  <2>2. CASE first # None
    <3>1. obj[first][sessions[first]] \in Session
      BY <1>3, <2>2 DEF TypeInv, TypeOK
    <3>. QED BY <2>2, <3>1 DEF Inherited, Session
  <2>. QED BY <2>1, <2>2
<1>5. o \in Session BY <1>4 DEF TypeInv, TypeOK
<1>6. /\ obj'[a][s] = [o EXCEPT !.spent = o.spent \/ over]
      /\ \A b \in Agents : b # a => obj'[b][s] = obj[b][s]
  BY <1>2 DEF TypeInv, TypeOK
<1>7. SameWork(obj'[a][s], o) /\ obj'[a][s].spent = (o.spent \/ over)
  <2>. HIDE DEF o
  <2>. QED BY <1>5, <1>6 DEF SameWork, Session
<1>8. /\ turn'[s].phase = "logged" /\ turn'[s].agent = a /\ turn'[s].sess = s
      /\ turn'[s].blocked = obj'[a][s].spent
  <2>. HIDE DEF o
  <2>. QED BY <1>2, <1>7 DEF TypeInv, TypeOK, NoTurn
<1>9. turn[s].phase = "idle" BY DEF Begin
<1>10. CASE known BY <1>6, <1>7, <1>8, <1>9, <1>10
<1>11. CASE ~known /\ first = None
  BY <1>6, <1>7, <1>8, <1>9, <1>11 DEF Inherited
<1>12. CASE ~known /\ first # None
  <2>1. obj[first][s] \in Session /\ Inherited = [obj[first][s] EXCEPT !.spent = FALSE]
    BY <1>3, <1>12 DEF TypeInv, TypeOK, Inherited
  <2>2. SameWork(Inherited, obj[first][s]) BY <2>1 DEF Session, SameWork
  <2>3. SameWork(obj'[a][s], Inherited) BY <1>7, <1>12
  <2>4. SameWork(obj'[a][s], obj[first][s]) BY <2>2, <2>3 DEF SameWork
  <2>. HIDE DEF o
  <2>. QED BY <1>3, <1>6, <1>8, <1>9, <1>12, <2>4, ConstantsAssumption
<1>. QED BY <1>10, <1>11, <1>12

LEMMA BeginAlone ==
  ASSUME OneSlot, TypeInv, AloneInv, NEW s \in Slots, NEW a \in Agents, Begin(s, a)
  PROVE  AloneInv'
<1>1. /\ turn[s].phase = "idle" /\ turn'[s].phase = "logged"
      /\ turn'[s].agent = a /\ turn'[s].sess = s
      /\ turn'[s].blocked = obj'[a][s].spent
      /\ \A b \in Agents : b # a => obj'[b][s] = obj[b][s]
  BY BeginWrites
<1>2. \A c \in Slots : TurnAlone(c)'
  BY <1>1 DEF OneSlot, TurnAlone, Admitted, Ready, Resumes, Obj
<1>3. accepts \in Nat BY ConstantsAssumption DEF TypeInv, TypeOK
<1>4. UNCHANGED <<sessions, lists, accepts>> BY DEF Begin
<1>5. \A b \in Agents : sessions[b] # None => b \in Steady
  BY <1>1, TurnsOfSlot DEF Steady
<1>6. \A b \in Steady' : b = a \/ b \in Steady
  BY <1>1, <1>4, TurnsOfSlot, TurnsOfSlotNext DEF Steady
<1>7. \A b \in Steady' : b # a => Like(obj'[b][s], obj[b][s])
  BY <1>1 DEF Like, Steady
<1>8. \/ obj'[a][s].progress = 0 /\ obj'[a][s].planGraph = None
      \/ \E b \in Steady : Like(obj'[a][s], obj[b][s])
  <2>1. \A o1, o2 : SameWork(o1, o2) => Like(o1, o2) BY DEF SameWork, Like
  <2>2. \/ \E b \in Steady : SameWork(obj'[a][s], obj[b][s])
        \/ SameWork(obj'[a][s], NewSession)
    BY <1>5, BeginWrites
  <2>. QED BY <2>1, <2>2 DEF SameWork, NewSession
<1>9. Books' BY <1>3, <1>4, <1>6, <1>7, <1>8, BooksKept DEF AloneInv
<1>. QED BY <1>2, <1>9 DEF AloneInv

LEMMA ThrowAlone ==
  ASSUME OneSlot, TypeInv, AloneInv, NEW s \in Slots, Throw(s)
  PROVE  AloneInv'
<1>1. turn'[s].phase = "idle" /\ turn[s].phase \notin {"idle", "accepting"}
  BY DEF Throw, TypeInv, TypeOK, NoTurn
<1>2. \A c \in Slots : TurnAlone(c)' BY <1>1 DEF OneSlot, TurnAlone
<1>3. accepts \in Nat BY ConstantsAssumption DEF TypeInv, TypeOK
<1>4. UNCHANGED <<sessions, obj, lists, accepts>> BY DEF Throw
<1>5. \A b \in Steady' : b \in Steady
  BY <1>1, <1>4, TurnsOfSlot, TurnsOfSlotNext DEF Steady
<1>6. \A b \in Steady' : Like(obj'[b][s], obj[b][s]) BY <1>4 DEF Like
<1>7. Books' BY <1>3, <1>4, <1>5, <1>6, BooksKept DEF AloneInv
<1>. QED BY <1>2, <1>7 DEF AloneInv

\* Which run states let a verb through.
LEMMA Gates ==
  ASSUME NEW st \in RunStates
  PROVE  /\ \A verb \in {"read_file_lines", "submit_execution_plan"} :
              verb \in CapabilitiesForState(st) => st \in Working
         /\ \A verb \in {"run_automation_recipe", "apply_code_patch", "run_sandboxed_code",
                         "execute_gated_side_effect"} :
              verb \in CapabilitiesForState(st) => st = "PLAN_ACCEPTED"
         /\ "initialize_work" \in CapabilitiesForState(st) =>
              st \in {"UNINITIALIZED", "BLOCKED_BUDGET"}
         /\ "escalate" \in CapabilitiesForState(st) =>
              st \in Working \cup {"BLOCKED_BUDGET"}
BY DEF CapabilitiesForState, RunStates, PrePlanCapabilities, PostPlanCapabilities,
       BudgetSafeVerbs, Working

\* The turn passes the gates and waits.
LEMMA DispatchWrites ==
  ASSUME OneSlot, TypeInv, NEW s \in Slots, DispatchVerb(s),
         ~DenyBudget(s), ~DenySync(s), ~DenyIncomplete(s)
  PROVE  /\ turn[s].phase = "logged" /\ UNCHANGED <<sessions, obj, lists, accepts, first>>
         /\ turn'[s].agent = turn[s].agent /\ turn'[s].sess = turn[s].sess
         /\ turn'[s].blocked = turn[s].blocked
         /\ \/ turn'[s].phase = "observing" /\ turn'[s].state = StateOf(s)
               /\ StateOf(s) \in Working
            \/ turn'[s].phase = "initializing"
               /\ StateOf(s) \in {"UNINITIALIZED", "BLOCKED_BUDGET"}
            \/ turn'[s].phase = "validating" /\ StateOf(s) \in Working
            \/ turn'[s].phase = "mutating" /\ turn'[s].state = StateOf(s)
               /\ StateOf(s) = "PLAN_ACCEPTED" /\ Obj(s).planGraph # None
               /\ turn'[s].node \in Actionable(Obj(s).planGraph)
            \/ turn'[s].phase = "escalating" /\ turn'[s].state = StateOf(s)
               /\ StateOf(s) \in Working \cup {"BLOCKED_BUDGET"}
            \/ turn'[s].phase = "completing" /\ Remaining(Obj(s)) = 0
<1>1. turn[s] \in Turn /\ turn \in [Slots -> Turn] BY DEF TypeInv, TypeOK
<1>2. turn[s].phase = "logged"
  BY DEF DispatchVerb, HandleObserving, HandleInitializeWork, HandleSubmitPlan, HandlePatchApply,
         HandleCodeRun, HandleSideEffect, StartMutation, HandleEscalate,
         HandleSignalTaskComplete, Dispatched
<1>3. StateOf(s) \in RunStates BY <1>2, StateType
<1>4. CASE HandleObserving(s)
  <2>1. StateOf(s) \in Working
    BY <1>3, <1>4, Gates DEF HandleObserving, Dispatched, Working
  <2>. QED BY <1>1, <1>2, <1>4, <2>1 DEF HandleObserving, Turn
<1>5. CASE HandleInitializeWork(s)
  <2>1. StateOf(s) \in {"UNINITIALIZED", "BLOCKED_BUDGET"}
    BY <1>3, <1>5, Gates DEF HandleInitializeWork, Dispatched
  <2>. QED BY <1>1, <1>2, <1>5, <2>1 DEF HandleInitializeWork, Await, Turn
<1>6. CASE HandleSubmitPlan(s)
  <2>1. StateOf(s) \in Working
    BY <1>3, <1>6, Gates DEF HandleSubmitPlan, Dispatched
  <2>. QED BY <1>1, <1>2, <1>6, <2>1 DEF HandleSubmitPlan, Await, Turn
<1>7. ASSUME NEW n \in Nodes,
             HandlePatchApply(s, n) \/ HandleCodeRun(s, n) \/ HandleSideEffect(s, n)
      PROVE  /\ UNCHANGED <<sessions, obj, lists, accepts, first>>
             /\ turn'[s].agent = turn[s].agent /\ turn'[s].sess = turn[s].sess
             /\ turn'[s].blocked = turn[s].blocked
             /\ turn'[s].phase = "mutating" /\ turn'[s].state = StateOf(s)
             /\ StateOf(s) = "PLAN_ACCEPTED" /\ Obj(s).planGraph # None
             /\ turn'[s].node \in Actionable(Obj(s).planGraph)
  <2>1. PICK verb \in {"apply_code_patch", "run_sandboxed_code", "execute_gated_side_effect"},
             kinds \in SUBSET {"change", "validate", "side_effect"} :
          StartMutation(s, verb, kinds, n)
    BY <1>7 DEF HandlePatchApply, HandleCodeRun, HandleSideEffect
  <2>2. StateOf(s) = "PLAN_ACCEPTED"
    BY <1>3, <2>1, Gates DEF StartMutation, Dispatched
  <2>3. n \in Actionable(Obj(s).planGraph)
    BY <2>1 DEF StartMutation, Actionable, NodesOfKind
  <2>4. turn'[s] = [turn[s] EXCEPT !.phase = "mutating", !.state = StateOf(s),
                                   !.verb = verb, !.node = n]
    BY <1>1, <2>1 DEF StartMutation
  <2>. QED BY <1>1, <2>1, <2>2, <2>3, <2>4 DEF StartMutation, Turn
<1>8. CASE HandleEscalate(s)
  <2>1. StateOf(s) \in Working \cup {"BLOCKED_BUDGET"}
    BY <1>3, <1>8, Gates DEF HandleEscalate, Dispatched
  <2>. QED BY <1>1, <1>2, <1>8, <2>1 DEF HandleEscalate, Turn
<1>9. CASE HandleSignalTaskComplete(s)
  BY <1>1, <1>2, <1>9 DEF HandleSignalTaskComplete, Await, Turn
<1>. QED BY <1>2, <1>4, <1>5, <1>6, <1>7, <1>8, <1>9 DEF DispatchVerb

LEMMA DispatchAlone ==
  ASSUME OneSlot, TypeInv, AloneInv, NEW s \in Slots, DispatchVerb(s)
  PROVE  AloneInv'
<1>1. CASE DenyBudget(s) \/ DenySync(s) \/ DenyIncomplete(s)
  <2>1. /\ turn[s].phase = "logged" /\ UNCHANGED <<lists, accepts>>
        /\ \E st \in {"BLOCKED_BUDGET", StateOf(s)} : Finish(s, obj, st)
    BY <1>1 DEF DenyBudget, DenySync, DenyIncomplete, Dispatched
  <2>2. StateOf(s) = "COMPLETED" => Obj(s).state = "COMPLETED" BY DEF StateOf
  <2>3. \A a \in Agents : SameWork(obj[a][s], obj[a][s]) BY DEF SameWork
  <2>4. obj \in [Agents -> [Slots -> Session]] BY DEF TypeInv, TypeOK
  <2>. QED BY <2>1, <2>2, <2>3, <2>4, FinishKept
<1>2. CASE ~(DenyBudget(s) \/ DenySync(s) \/ DenyIncomplete(s))
  <2>1. /\ turn[s].phase = "logged"
        /\ UNCHANGED <<sessions, obj, lists, accepts>>
        /\ turn'[s].agent = turn[s].agent /\ turn'[s].sess = turn[s].sess
        /\ turn'[s].blocked = turn[s].blocked
    BY <1>2, DispatchWrites
  <2>2. Obj(s)' = Obj(s) /\ StateOf(s)' = StateOf(s) BY <2>1 DEF Obj, StateOf
  <2>3. turn[s].blocked = Obj(s).spent BY <2>1 DEF AloneInv, TurnAlone
  <2>4. turn'[s].blocked = Obj(s)'.spent BY <2>1, <2>2, <2>3
  <2>5. Admitted(s)' /\ Ready(s)'
    BY <1>2, <2>2, DispatchWrites DEF Admitted, Ready, Resumes, Working
  <2>6. TurnAlone(s)' BY <2>4, <2>5 DEF TurnAlone
  <2>7. \A a \in Agents : SameWork(obj'[a][s], obj[a][s]) BY <2>1 DEF SameWork
  <2>. QED BY <2>1, <2>6, <2>7, MoveKept
<1>. QED BY <1>1, <1>2

LEMMA AwaitWrites ==
  ASSUME TypeInv, NEW s \in Slots, NEW ph, Await(s, ph)
  PROVE  /\ turn'[s].phase = ph
         /\ turn'[s].agent = turn[s].agent /\ turn'[s].sess = turn[s].sess
         /\ turn'[s].blocked = turn[s].blocked /\ turn'[s].state = turn[s].state
         /\ turn'[s].plan = turn[s].plan /\ turn'[s].record = turn[s].record
BY DEF Await, TypeInv, TypeOK, Turn

LEMMA UpdateWrites ==
  ASSUME OneSlot, TypeInv, NEW s \in Slots, turn[s].phase # "idle",
         NEW o, obj' = Update(s, o)
  PROVE  /\ turn[s].agent \in Agents /\ turn[s].sess = s
         /\ Obj(s) = obj[turn[s].agent][s] /\ obj'[turn[s].agent][s] = o
         /\ \A b \in Agents : b # turn[s].agent => obj'[b][s] = obj[b][s]
<1>1. turn[s].agent \in Agents /\ turn[s].sess = s BY DEF TypeInv, TypeOK, OneSlot
<1>. QED BY <1>1 DEF Update, Obj, TypeInv, TypeOK

\* The pack of the turn's session changes and the turn waits.
LEMMA PackAlone ==
  ASSUME OneSlot, TypeInv, AloneInv, NEW s \in Slots, NEW ph, Await(s, ph),
         \/ turn[s].phase = "initializing" /\ ph = "initialized"
         \/ turn[s].phase = "escalating" /\ ph = "escalated",
         NEW pack, obj' = Update(s, [Obj(s) EXCEPT !.contextPack = pack]),
         UNCHANGED <<sessions, lists, accepts>>
  PROVE  AloneInv'
<1>. DEFINE o == [Obj(s) EXCEPT !.contextPack = pack]
<1>1. Obj(s) \in Session BY StateType
<1>2. SameWork(o, Obj(s)) /\ o.spent = Obj(s).spent BY <1>1 DEF SameWork, Session
<1>3. /\ turn[s].agent \in Agents /\ turn[s].sess = s
      /\ Obj(s) = obj[turn[s].agent][s] /\ obj'[turn[s].agent][s] = o
      /\ \A b \in Agents : b # turn[s].agent => obj'[b][s] = obj[b][s]
  BY UpdateWrites
<1>. HIDE DEF o
<1>4. \A b \in Agents : SameWork(obj'[b][s], obj[b][s])
  BY <1>2, <1>3 DEF SameWork
<1>5. /\ turn'[s].phase = ph
      /\ turn'[s].agent = turn[s].agent /\ turn'[s].sess = turn[s].sess
      /\ turn'[s].blocked = turn[s].blocked /\ turn'[s].state = turn[s].state
  BY AwaitWrites
<1>6. Obj(s)' = o BY <1>3, <1>5 DEF Obj
<1>7. StateOf(s)' = StateOf(s) BY <1>2, <1>5, <1>6 DEF StateOf, SameWork
<1>8. TurnAlone(s) BY DEF AloneInv
<1>9. turn'[s].blocked = Obj(s)'.spent BY <1>2, <1>5, <1>6, <1>8 DEF TurnAlone
<1>10. Admitted(s)' BY <1>5, <1>7, <1>8 DEF TurnAlone, Admitted, Resumes
<1>11. Ready(s)' BY <1>5 DEF Ready
<1>12. TurnAlone(s)' BY <1>9, <1>10, <1>11 DEF TurnAlone
<1>. QED BY <1>4, <1>5, <1>12, MoveKept

\* The arrays of a session's record.
LEMMA RecordType ==
  ASSUME TypeInv, NEW o \in Session, o.progress # 0
  PROVE  /\ o.progress \in 1 .. MaxAccepts /\ lists[o.progress] \in ProgressLists
         /\ lists[o.progress].done \subseteq Nodes
<1>1. PICK k : k = o.progress OBVIOUS
<1>2. k \in 0 .. MaxAccepts BY <1>1 DEF Session
<1>3. k \in 1 .. MaxAccepts BY <1>1, <1>2, ConstantsAssumption
<1>4. lists[k] \in ProgressLists BY <1>3 DEF TypeInv, TypeOK
<1>. QED BY <1>1, <1>3, <1>4 DEF ProgressLists

\* The counter says no node is missing: none is.
LEMMA NoneMissing ==
  ASSUME NEW o \in Session, o.progress # 0, Booked(o), WithinList(o), Remaining(o) = 0,
         lists[o.progress].done \subseteq Nodes
  PROVE  AllDone(o)
<1>. DEFINE D == lists[o.progress].done
            A == Actionable(o.planGraph)
<1>1. o.totalNodes \in Nat /\ o.completedNodes \in Nat BY DEF Session
<1>2. o.totalNodes <= o.completedNodes
  BY <1>1 DEF Remaining
<1>3. IsFiniteSet(A) /\ D \subseteq A /\ o.totalNodes = Cardinality(A)
  BY FS_Subset, ConstantsAssumption DEF Booked, Actionable, NodesOfKind
<1>4. o.completedNodes <= Cardinality(D) BY DEF WithinList
<1>5. IsFiniteSet(D) /\ Cardinality(D) \in Nat /\ Cardinality(A) \in Nat
  BY <1>3, FS_Subset, FS_CardinalityType
<1>6. Cardinality(A) <= Cardinality(D) BY <1>1, <1>2, <1>3, <1>4, <1>5
<1>7. D = A
  <2>. HIDE DEF D, A
  <2>. QED BY <1>3, <1>5, <1>6, FS_Subset
<1>. QED BY <1>7 DEF AllDone

LEMMA EndsAlone ==
  ASSUME OneSlot, TypeInv, ProgressInv, AloneInv, NEW s \in Slots,
         \/ FinishUnchanged(s) \/ FinishInitializeWork(s) \/ RejectPlan(s)
         \/ FinishSubmitPlan(s) \/ FinishSignalTaskComplete(s)
  PROVE  AloneInv'
<1>1. obj \in [Agents -> [Slots -> Session]] BY DEF TypeInv, TypeOK
<1>2. \A a \in Agents : SameWork(obj[a][s], obj[a][s]) BY DEF SameWork
<1>3. TurnAlone(s) BY DEF AloneInv
<1>4. CASE FinishSignalTaskComplete(s)
  <2>1. turn[s].phase = "completing" BY <1>4 DEF FinishSignalTaskComplete
  <2>2. Remaining(Obj(s)) = 0 BY <1>3, <2>1 DEF TurnAlone, Ready
  <2>3. turn[s].agent \in Agents /\ turn[s].sess \in Slots /\ Obj(s) \in Session
    BY <2>1, StateType
  <2>4. turn[s].agent \in Steady
    BY <2>1, <2>3, TurnsOfSlot DEF Steady
  <2>5. Booked(Obj(s)) /\ WithinList(Obj(s))
    BY <2>3, <2>4 DEF AloneInv, Books, ProgressInv, Counted, Obj
  <2>6. Obj(s).progress # 0 => lists[Obj(s).progress].done \subseteq Nodes
    BY <2>3, RecordType
  <2>7. Obj(s).progress # 0 => AllDone(Obj(s)) BY <2>2, <2>3, <2>5, <2>6, NoneMissing
  <2>. QED BY <1>1, <1>2, <1>4, <2>7, FinishKept DEF FinishSignalTaskComplete
<1>5. CASE FinishUnchanged(s)
  <2>1. turn[s].phase \in {"observing", "mutating"} BY <1>5 DEF FinishUnchanged
  <2>2. turn[s].state \in Working
    BY <1>3, <2>1 DEF TurnAlone, Admitted, Resumes, Working
  <2>. QED BY <1>1, <1>2, <1>5, <2>1, <2>2, FinishKept DEF FinishUnchanged, Working
<1>6. CASE FinishInitializeWork(s) \/ RejectPlan(s) \/ FinishSubmitPlan(s)
  <2>1. /\ turn[s].phase \notin {"idle", "accepting"} /\ UNCHANGED <<lists, accepts>>
        /\ \E st \in Working : Finish(s, obj, st)
    BY <1>6 DEF FinishInitializeWork, RejectPlan, FinishSubmitPlan, Working
  <2>. QED BY <1>1, <1>2, <2>1, FinishKept DEF Working
<1>. QED BY <1>4, <1>5, <1>6

SameState(o1, o2) == o1.state = o2.state /\ o1.spent = o2.spent

\* Propagation changes no other field of the siblings than the pack.
LEMMA PropagateWrites ==
  ASSUME TypeInv, NEW s \in Slots, PropagatePack(s)
  PROVE  /\ turn[s].phase = "escalated" /\ UNCHANGED <<lists, accepts>>
         /\ \E objs \in [Agents -> [Slots -> Session]] :
              /\ Finish(s, objs, turn[s].state)
              /\ \A b \in Agents, c \in Slots :
                   SameWork(objs[b][c], obj[b][c]) /\ SameState(objs[b][c], obj[b][c])
<1>1. PICK objs : /\ objs = [b \in Agents |-> [c \in Slots |->
                        IF /\ b # turn[s].agent /\ sessions[b] = c
                           /\ Obj(s).contextPack = "files"
                          THEN [obj[b][c] EXCEPT !.contextPack = "files"]
                          ELSE obj[b][c]]]
                  /\ Finish(s, objs, turn[s].state)
  BY DEF PropagatePack
<1>2. \A b \in Agents, c \in Slots :
        obj[b][c] \in Session /\ [obj[b][c] EXCEPT !.contextPack = "files"] \in Session
  <2>1. \A b \in Agents, c \in Slots : obj[b][c] \in Session BY DEF TypeInv, TypeOK
  <2>2. "files" \in PackStates BY DEF PackStates
  <2>. QED BY <2>1, <2>2, SessionUpdates
<1>3. objs \in [Agents -> [Slots -> Session]] BY <1>1, <1>2
<1>4. ASSUME NEW b \in Agents, NEW c \in Slots
      PROVE  SameWork(objs[b][c], obj[b][c]) /\ SameState(objs[b][c], obj[b][c])
  <2>1. objs[b][c] = obj[b][c] \/ objs[b][c] = [obj[b][c] EXCEPT !.contextPack = "files"]
    BY <1>1
  <2>. QED BY <1>2, <2>1 DEF SameWork, SameState, Session
<1>. QED BY <1>1, <1>3, <1>4 DEF PropagatePack

LEMMA PropagateAlone ==
  ASSUME OneSlot, TypeInv, AloneInv, NEW s \in Slots, PropagatePack(s)
  PROVE  AloneInv'
<1>1. turn[s].phase = "escalated" /\ UNCHANGED <<lists, accepts>> BY PropagateWrites
<1>2. turn[s].state # "COMPLETED"
  BY <1>1 DEF AloneInv, TurnAlone, Admitted, Resumes, Working
<1>. QED BY <1>1, <1>2, PropagateWrites, FinishKept

\* The new plan is on the session, its record is still to come.
LEMMA StorePlanAlone ==
  ASSUME OneSlot, TypeInv, AloneInv, NEW s \in Slots, NEW p \in Plans, StorePlan(s, p)
  PROVE  AloneInv'
<1>. DEFINE a == turn[s].agent
            o == [Obj(s) EXCEPT !.planGraph = p]
<1>1. turn[s].phase = "validating" /\ accepts < MaxAccepts /\ accepts' = accepts + 1
  BY DEF StorePlan
<1>2. accepts \in Nat /\ MaxAccepts \in Nat BY ConstantsAssumption DEF TypeInv, TypeOK
<1>3. /\ a \in Agents /\ turn[s].sess = s /\ obj'[a][s] = o
      /\ Obj(s) = obj[a][s]
      /\ \A b \in Agents : b # a => obj'[b][s] = obj[b][s]
  BY <1>1, UpdateWrites DEF StorePlan
<1>4. /\ turn'[s].phase = "accepting" /\ turn'[s].agent = a /\ turn'[s].sess = s
      /\ turn'[s].blocked = turn[s].blocked
      /\ turn'[s].plan = p /\ turn'[s].record = accepts + 1
  <2>1. turn'[s] = [turn[s] EXCEPT !.phase = "accepting", !.plan = p, !.record = accepts + 1]
    BY DEF StorePlan, TypeInv, TypeOK
  <2>2. turn[s] \in Turn BY DEF TypeInv, TypeOK
  <2>. QED BY <1>3, <2>1, <2>2 DEF Turn
<1>5. o.planGraph = p /\ o.spent = Obj(s).spent /\ o.state = Obj(s).state
  BY <1>1, StateType DEF Session
<1>. HIDE DEF o
<1>6. Obj(s)' = o BY <1>3, <1>4 DEF Obj
<1>7. StateOf(s)' = StateOf(s) BY <1>4, <1>5, <1>6 DEF StateOf
<1>8. TurnAlone(s) /\ Unopened BY DEF AloneInv, Books
<1>9. turn'[s].record \in 1 .. accepts' /\ lists'[turn'[s].record] = EmptyLists
  BY <1>1, <1>2, <1>4, <1>8 DEF Unopened, StorePlan
<1>10. turn'[s].blocked = Obj(s)'.spent
  BY <1>1, <1>4, <1>5, <1>6, <1>8 DEF TurnAlone
<1>11. Admitted(s)'
  BY <1>1, <1>4, <1>7, <1>8 DEF TurnAlone, Admitted, Resumes
<1>12. Ready(s)' BY <1>4, <1>5, <1>6, <1>9 DEF Ready
<1>13. \A c \in Slots : TurnAlone(c)'
  BY <1>10, <1>11, <1>12 DEF TurnAlone, OneSlot
<1>14. UNCHANGED <<sessions, lists>> BY DEF StorePlan
<1>15. \A b \in Steady' : b \in Steady /\ b # a
  BY <1>1, <1>4, <1>14, TurnsOfSlot, TurnsOfSlotNext DEF Steady
<1>16. \A b \in Steady' : Like(obj'[b][s], obj[b][s])
  BY <1>3, <1>15 DEF Like, Steady
<1>17. Books'
  BY <1>1, <1>2, <1>14, <1>15, <1>16, BooksKept DEF AloneInv
<1>. QED BY <1>13, <1>17 DEF AloneInv

\* The session gets the record of the plan it has.
LEMMA ResetProgressAlone ==
  ASSUME OneSlot, TypeInv, ProgressInv, AloneInv, NEW s \in Slots, ResetProgress(s)
  PROVE  AloneInv'
<1>. DEFINE a == turn[s].agent
            r == turn[s].record
            o == [Obj(s) EXCEPT !.progress = r,
                    !.totalNodes = Cardinality(Actionable(turn[s].plan)),
                    !.completedNodes = 0]
<1>1. turn[s].phase = "accepting" /\ UNCHANGED <<sessions, accepts>> BY DEF ResetProgress
<1>2. TurnAlone(s) BY DEF AloneInv
<1>3. /\ Obj(s).planGraph = turn[s].plan /\ r \in 1 .. accepts
      /\ lists[r] = EmptyLists /\ StateOf(s) \in Working
      /\ turn[s].blocked = Obj(s).spent /\ turn[s].plan # None
  BY <1>1, <1>2, ConstantsAssumption DEF TurnAlone, Admitted, Ready, TypeInv, TypeOK
<1>4. UNCHANGED lists
  BY <1>3 DEF ResetProgress, TypeInv, TypeOK
<1>5. /\ a \in Agents /\ turn[s].sess = s /\ obj'[a][s] = o
      /\ Obj(s) = obj[a][s]
      /\ \A b \in Agents : b # a => obj'[b][s] = obj[b][s]
  <2>1. turn[s].phase # "idle" /\ obj' = Update(s, o) BY <1>1 DEF ResetProgress
  <2>. HIDE DEF o
  <2>. QED BY <2>1, UpdateWrites
<1>6. /\ turn'[s].phase = "accepted" /\ turn'[s].agent = a /\ turn'[s].sess = s
      /\ turn'[s].blocked = turn[s].blocked /\ turn'[s].record = r
  BY <1>5, AwaitWrites DEF ResetProgress
<1>7. /\ o.planGraph = turn[s].plan /\ o.spent = Obj(s).spent /\ o.state = Obj(s).state
      /\ o.progress = r /\ o.totalNodes = Cardinality(Actionable(turn[s].plan))
  BY <1>1, <1>3, StateType DEF Session
<1>. HIDE DEF o
<1>8. Obj(s)' = o BY <1>5, <1>6 DEF Obj
<1>9. StateOf(s)' = StateOf(s) BY <1>6, <1>7, <1>8 DEF StateOf
<1>10. \A c \in Slots : TurnAlone(c)'
  BY <1>3, <1>6, <1>7, <1>8, <1>9 DEF OneSlot, TurnAlone, Admitted, Ready, Resumes
<1>11. r \in Nat /\ r # 0 /\ r <= accepts /\ accepts \in Nat
  BY <1>3, ConstantsAssumption DEF TypeInv, TypeOK
<1>12. ASSUME NEW b, b = a PROVE Booked(obj[b][s])'
  <2>1. EligibleNow(turn[s].plan, {}) = {} BY DEF EligibleNow
  <2>2. o.state # "COMPLETED"
    BY <1>3, <1>7 DEF StateOf, Working
  <2>3. obj'[b][s] = o /\ lists'[r] = EmptyLists BY <1>3, <1>4, <1>5, <1>12
  <2>4. EmptyLists.done = {} /\ EmptyLists.eligible = {} BY DEF EmptyLists
  <2>. HIDE DEF r
  <2>. QED BY <1>3, <1>7, <1>11, <2>1, <2>2, <2>3, <2>4 DEF Booked
<1>13. \A b \in Steady' : b # a => b \in Steady /\ obj'[b][s] = obj[b][s]
  BY <1>1, <1>5, <1>6, TurnsOfSlot, TurnsOfSlotNext DEF Steady
<1>14. \A b \in Agents : obj[b][s].progress # r
  BY <1>1 DEF ProgressInv, AcceptingFresh
<1>15. \A b \in Steady' : Booked(obj[b][s])'
  <2>1. \A b \in Steady : Booked(obj[b][s]) BY DEF AloneInv, Books
  <2>2. ASSUME NEW b \in Steady, obj'[b][s] = obj[b][s] PROVE Booked(obj[b][s])'
    BY <1>4, <2>1, <2>2 DEF Booked, AllDone
  <2>. QED BY <1>12, <1>13, <2>2
<1>16. ASSUME NEW b \in Steady', NEW d \in Steady',
              obj'[b][s].progress # 0, obj'[b][s].progress = obj'[d][s].progress
       PROVE  obj'[b][s].planGraph = obj'[d][s].planGraph
  <2>1. b \in Agents /\ d \in Agents BY DEF Steady
  <2>2. CASE b = a \/ d = a
    BY <1>5, <1>7, <1>13, <1>14, <1>16, <2>1, <2>2
  <2>3. CASE b # a /\ d # a
    BY <1>13, <1>16, <2>3 DEF AloneInv, Books, SamePlan
  <2>. QED BY <2>2, <2>3
<1>17. SamePlan' BY <1>16 DEF SamePlan, OneSlot
<1>18. Unopened' BY <1>1, <1>4 DEF AloneInv, Books, Unopened
<1>19. Books' BY <1>15, <1>17, <1>18 DEF Books, OneSlot
<1>. QED BY <1>10, <1>19 DEF AloneInv

LEMMA MarkedExact ==
  ASSUME NEW p, NEW l, NEW n \in Actionable(p),
         l.done \subseteq Actionable(p), l.eligible = EligibleNow(p, l.done)
  PROVE  LET m == Marked(l, p, n)
         IN  /\ m.done \subseteq Actionable(p) /\ l.done \subseteq m.done
             /\ m.eligible = EligibleNow(p, m.done)
BY DEF Marked, EligibleNow

LEMMA CompleteNodeAlone ==
  ASSUME OneSlot, TypeInv, ProgressInv, AloneInv, NEW s \in Slots, CompleteNode(s)
  PROVE  AloneInv'
<1>. DEFINE a == turn[s].agent
            k == Obj(s).progress
            n == turn[s].node
            p == Obj(s).planGraph
            l == Marked(lists[k], p, n)
            o == [Obj(s) EXCEPT !.completedNodes = Cardinality(l.done)]
            objs == Update(s, o)
<1>1. turn[s].phase = "mutating" /\ accepts' = accepts BY DEF CompleteNode
<1>2. /\ a \in Agents /\ turn[s].sess = s /\ Obj(s) = obj[a][s]
      /\ Obj(s) \in Session /\ n \in Nodes
      /\ obj \in [Agents -> [Slots -> Session]] /\ lists \in [1 .. MaxAccepts -> ProgressLists]
  BY <1>1 DEF TypeInv, TypeOK, OneSlot, Obj
<1>3. \A b \in Agents : SameWork(obj[b][s], obj[b][s]) BY DEF SameWork
<1>4. CASE Finish(s, obj, "PLAN_ACCEPTED") /\ UNCHANGED lists
  BY <1>1, <1>2, <1>3, <1>4, FinishKept
<1>5. CASE /\ k # 0 /\ lists' = [lists EXCEPT ![k] = l]
           /\ Finish(s, objs, "PLAN_ACCEPTED")
  <2>1. k \in 1 .. MaxAccepts
    <3>1. k \in 0 .. MaxAccepts BY <1>2 DEF Session
    <3>2. k # 0 /\ MaxAccepts \in Nat BY <1>5, ConstantsAssumption
    <3>. HIDE DEF k
    <3>. QED BY <3>1, <3>2
  <2>2. Cardinality(l.done) \in Nat
    <3>1. lists[k] \in ProgressLists BY <1>2, <2>1
    <3>. HIDE DEF k, p, n
    <3>. QED BY <1>2, <3>1, ListCount
  <2>3. o \in Session /\ SameWork(o, Obj(s))
    <3>. HIDE DEF l
    <3>. QED BY <1>2, <2>2 DEF Session, SameWork
  <2>4. objs \in [Agents -> [Slots -> Session]] BY <1>1, <2>3, UpdateType
  <2>5. objs[a][s] = o /\ \A b \in Agents : b # a => objs[b][s] = obj[b][s]
    BY <1>2 DEF Update
  <2>. HIDE DEF o, objs, l
  <2>6. /\ turn'[s] = NoTurn /\ sessions'[a] = s
        /\ \A b \in Agents : b # a => sessions'[b] = sessions[b]
        /\ EndsAs(obj'[a][s], objs[a][s], Clamp(s, "PLAN_ACCEPTED"))
        /\ \A b \in Agents : b # a => obj'[b][s] = objs[b][s]
    BY <1>1, <1>5, <2>4, FinishWrites
  <2>7. /\ turn'[s].phase = "idle"
        /\ \A c \in Slots : TurnAlone(c)'
    BY <2>6 DEF OneSlot, TurnAlone, NoTurn
  <2>8. a \in Steady
    <3>1. TurnsOf(a) = {s} BY <1>1, TurnsOfSlot
    <3>. QED BY <1>1, <1>2, <3>1 DEF Steady
  <2>9. \A b \in Steady' : b \in Steady
    <3>1. \A b : TurnsOf(b)' = {} BY <2>7, TurnsOfSlotNext
    <3>2. ASSUME NEW b \in Agents, sessions'[b] # None PROVE b = a \/ sessions[b] # None
      BY <2>6, <3>2
    <3>3. \A b : TurnsOf(b) = IF b = a THEN {s} ELSE {} BY <1>1, TurnsOfSlot
    <3>. QED BY <2>8, <3>1, <3>2, <3>3 DEF Steady
  <2>10. \A b \in Steady' :
           /\ obj'[b][s].planGraph = obj[b][s].planGraph
           /\ obj'[b][s].progress = obj[b][s].progress
           /\ obj'[b][s].totalNodes = obj[b][s].totalNodes
           /\ obj'[b][s].state = "COMPLETED" => obj[b][s].state = "COMPLETED"
    <3>1. Clamp(s, "PLAN_ACCEPTED") # "COMPLETED" BY DEF Clamp
    <3>. QED BY <1>2, <2>3, <2>5, <2>6, <3>1 DEF EndsAs, SameWork, Steady
  <2>11. TurnAlone(s) /\ Books BY DEF AloneInv
  <2>12. n \in Actionable(p) BY <1>1, <2>11 DEF TurnAlone, Ready
  <2>13. Booked(Obj(s)) BY <1>2, <2>8, <2>11 DEF Books
  <2>14. /\ l.done \subseteq Actionable(p) /\ lists[k].done \subseteq l.done
         /\ l.eligible = EligibleNow(p, l.done)
    BY <1>5, <2>12, <2>13, MarkedExact DEF Booked, l
  <2>15. ASSUME NEW b \in Steady' PROVE Booked(obj[b][s])'
    <3>1. b \in Steady /\ b \in Agents BY <2>9 DEF Steady
    <3>2. Booked(obj[b][s]) BY <2>11, <3>1 DEF Books
    <3>3. CASE obj[b][s].progress = k
      <4>1. obj[b][s].planGraph = p
        BY <1>2, <1>5, <2>8, <2>11, <3>1, <3>3 DEF Books, SamePlan
      <4>2. lists'[k] = l BY <1>2, <1>5, <2>1
      <4>. QED BY <2>10, <2>14, <3>2, <3>3, <4>1, <4>2 DEF Booked, AllDone
    <3>4. CASE obj[b][s].progress # k
      <4>1. obj[b][s].progress # 0 => lists'[obj[b][s].progress] = lists[obj[b][s].progress]
        <5>1. obj[b][s] \in Session BY <1>2, <3>1
        <5>2. obj[b][s].progress # 0 => obj[b][s].progress \in 1 .. MaxAccepts
          BY <5>1, ConstantsAssumption DEF Session
        <5>. QED BY <1>2, <1>5, <3>4, <5>2
      <4>. QED BY <2>10, <3>2, <4>1 DEF Booked, AllDone
    <3>. QED BY <3>3, <3>4
  <2>16. SamePlan'
    BY <2>9, <2>10, <2>11 DEF Books, SamePlan, OneSlot
  <2>17. Unopened'
    <3>1. k <= accepts BY <1>2 DEF ProgressInv, RecordsOpened
    <3>. QED BY <1>1, <1>2, <1>5, <2>1, <2>11, <3>1, ConstantsAssumption
         DEF Books, Unopened, TypeInv, TypeOK
  <2>18. Books' BY <2>15, <2>16, <2>17 DEF Books, OneSlot
  <2>. QED BY <2>7, <2>18 DEF AloneInv
<1>. QED BY <1>4, <1>5 DEF CompleteNode

LEMMA ContinueAlone ==
  ASSUME OneSlot, TypeInv, ProgressInv, AloneInv, NEW s \in Slots, Continue(s)
  PROVE  AloneInv'
<1>1. CASE StorePack(s)
  <2>1. PICK files \in {"empty", "files"} :
          obj' = Update(s, [Obj(s) EXCEPT !.contextPack = files])
    BY <1>1 DEF StorePack
  <2>. QED BY <1>1, <2>1, PackAlone DEF StorePack
<1>2. CASE EnrichPack(s)
  <2>1. PICK pack : obj' = Update(s, [Obj(s) EXCEPT !.contextPack = pack])
    BY <1>2 DEF EnrichPack
  <2>. QED BY <1>2, <2>1, PackAlone DEF EnrichPack
<1>. QED BY <1>1, <1>2, EndsAlone, PropagateAlone, StorePlanAlone, ResetProgressAlone,
            CompleteNodeAlone DEF Continue

LEMMA InitAlone == Init => AloneInv
<1>. SUFFICES ASSUME Init PROVE AloneInv
  OBVIOUS
<1>1. \A s \in Slots : TurnAlone(s) BY DEF Init, TurnAlone, NoTurn
<1>2. Steady = {} BY DEF Init, Steady, TurnsOf, NoTurn
<1>. QED BY <1>1, <1>2 DEF Init, AloneInv, Books, SamePlan, Unopened

LEMMA NextAlone ==
  ASSUME OneSlot
  PROVE  TypeInv /\ ProgressInv /\ AloneInv /\ [Next]_vars => AloneInv'
<1>1. ASSUME AloneInv, UNCHANGED vars PROVE AloneInv'
  <2>1. ASSUME NEW s \in Slots PROVE TurnAlone(s)'
    <3>1. TurnAlone(s) BY <1>1 DEF AloneInv
    <3>2. Obj(s)' = Obj(s) /\ StateOf(s)' = StateOf(s) BY <1>1 DEF vars, Obj, StateOf
    <3>. QED BY <1>1, <3>1, <3>2 DEF vars, TurnAlone, Admitted, Ready, Resumes
  <2>2. Steady' = Steady BY <1>1 DEF vars, Steady, TurnsOf
  <2>3. Books' BY <1>1, <2>2 DEF vars, AloneInv, Books, Booked, AllDone, SamePlan, Unopened
  <2>. QED BY <2>1, <2>3 DEF AloneInv
<1>. QED BY <1>1, BeginAlone, ThrowAlone, DispatchAlone, ContinueAlone DEF Next

\* One turn at a time: what a turn read when it was admitted is still so when it
\* ends, and every record is about the plan its session has.
LEMMA Alone ==
  ASSUME OneSlot
  PROVE  Spec => [](TypeInv /\ ProgressInv /\ AloneInv)
<1>1. TypeInv /\ ProgressInv /\ AloneInv /\ [Next]_vars => AloneInv' BY NextAlone
<1>. QED BY <1>1, InitType, InitProgress, InitAlone, NextType, NextProgress, PTL DEF Spec

\* The eligible validations kept for a session are exactly the validate nodes of
\* its plan that are not completed and whose mapped nodes all are, also when its
\* record is shared with a sibling (markEligibleValidateNodes).
THEOREM PendingExact ==
  ASSUME OneSlot
  PROVE  Spec => []EligibleExact
<1>1. TypeInv /\ AloneInv => EligibleExact
  <2>. SUFFICES ASSUME TypeInv, AloneInv, NEW a \in Known,
                       \A s \in Slots : turn[s].agent = a => turn[s].phase # "accepting",
                       obj[a][sessions[a]].progress # 0
       PROVE  LET o == obj[a][sessions[a]]
              IN  lists[o.progress].eligible = EligibleNow(o.planGraph, lists[o.progress].done)
    BY DEF EligibleExact, Settled
  <2>1. a \in Steady /\ sessions[a] \in Slots
    BY DEF Known, Steady, TurnsOf, TypeInv, TypeOK
  <2>. QED BY <2>1 DEF AloneInv, Books, Booked
<1>. QED BY <1>1, Alone, PTL

\* A completed session that has a plan has every actionable node of it
\* completed, though its counter may be a copy and its array shared
\* (signal_task_complete).
THEOREM CompletedDone ==
  ASSUME OneSlot
  PROVE  Spec => []CompletedIsDone
<1>1. TypeInv /\ AloneInv => CompletedIsDone
  <2>. SUFFICES ASSUME TypeInv, AloneInv, NEW a \in Known,
                       obj[a][sessions[a]].state = "COMPLETED",
                       obj[a][sessions[a]].progress # 0
       PROVE  AllDone(obj[a][sessions[a]])
    BY DEF CompletedIsDone, Registered
  <2>1. a \in Agents /\ sessions[a] \in Slots
    BY DEF Known, TypeInv, TypeOK
  <2>2. ASSUME NEW s \in TurnsOf(a), turn[s].phase = "accepting" PROVE FALSE
    <3>1. s \in Slots /\ turn[s].agent = a /\ turn[s].sess = sessions[a]
      BY <2>1, <2>2 DEF TurnsOf, TypeInv, TypeOK, OneSlot
    <3>2. TurnAlone(s) BY <3>1 DEF AloneInv
    <3>. QED BY <2>2, <3>1, <3>2 DEF TurnAlone, Admitted, StateOf, Obj, Working
  <2>3. a \in Steady BY <2>1, <2>2 DEF Known, Steady
  <2>. QED BY <2>1, <2>3 DEF AloneInv, Books, Booked
<1>. QED BY <1>1, Alone, PTL

\* The gate of signal_task_complete counts the nodes of the session's own plan
\* as long as no other turn replaces the plan under a running mutation.
THEOREM GateSoundAlone ==
  ASSUME OneSlot
  PROVE  Spec => GateSound
<1>1. TypeInv /\ ProgressInv /\ AloneInv /\ [Next]_vars =>
        [\A s \in Slots :
           (turn[s].phase = "logged" /\ turn'[s].phase = "completing" /\ Obj(s).progress # 0)
           => AllDone(Obj(s))]_vars
  <2>. SUFFICES ASSUME TypeInv, ProgressInv, AloneInv, Next, NEW s \in Slots,
                       turn[s].phase = "logged", turn'[s].phase = "completing",
                       Obj(s).progress # 0
       PROVE  AllDone(Obj(s))
    OBVIOUS
  <2>1. turn[s].agent \in Agents /\ Obj(s) \in Session /\ Obj(s) = obj[turn[s].agent][s]
    BY StateType DEF Obj, OneSlot
  <2>2. turn[s].agent \in Steady BY <2>1, TurnsOfSlot DEF Steady
  <2>3. Booked(Obj(s)) /\ WithinList(Obj(s))
    BY <2>1, <2>2 DEF AloneInv, Books, ProgressInv, Counted
  <2>4. DispatchVerb(s) /\ ~DenyBudget(s) /\ ~DenySync(s) /\ ~DenyIncomplete(s)
    <3>1. DispatchVerb(s) \/ (\E a \in Agents : Begin(s, a)) \/ Throw(s) \/ Continue(s)
      BY DEF Next, OneSlot
    <3>2. ~Continue(s)
      BY DEF Continue, FinishUnchanged, StorePack, FinishInitializeWork, RejectPlan, StorePlan,
         ResetProgress, FinishSubmitPlan, CompleteNode, EnrichPack, PropagatePack,
         FinishSignalTaskComplete
    <3>3. ~(\E a \in Agents : Begin(s, a)) BY DEF Begin
    <3>4. ASSUME turn'[s] = NoTurn PROVE FALSE BY <3>4 DEF NoTurn
    <3>5. ~Throw(s) BY <3>4 DEF Throw, TypeInv, TypeOK
    <3>6. ~DenyBudget(s) /\ ~DenySync(s) /\ ~DenyIncomplete(s)
      BY <3>4 DEF DenyBudget, DenySync, DenyIncomplete, Finish, TypeInv, TypeOK
    <3>. QED BY <3>1, <3>2, <3>3, <3>5, <3>6
  <2>5. Remaining(Obj(s)) = 0 BY <2>4, DispatchWrites
  <2>6. lists[Obj(s).progress].done \subseteq Nodes
    BY <2>1, RecordType
  <2>. QED BY <2>1, <2>3, <2>5, <2>6, NoneMissing
<1>. QED BY <1>1, Alone, PTL DEF Spec, GateSound

-----------------------------------------------------------------------------
(* Run states: what a step may make of the state of a session in the Map.  *)

\* A turn that was not blocked ends in COMPLETED if its session was, and a
\* blocked one does not end in FAILED.
MayEnd(s, st) ==
  /\ ~turn[s].blocked /\ Obj(s).state = "COMPLETED" => st = "COMPLETED"
  /\ turn[s].blocked => st # "FAILED"

\* The end of a turn changes no other field that matters.
Ending(s) ==
  \E objs, st :
    /\ objs \in [Agents -> [Slots -> Session]]
    /\ turn[s].phase # "idle"
    /\ Finish(s, objs, st) /\ MayEnd(s, st)
    /\ \A a \in Agents : SameState(objs[a][s], obj[a][s])

StateKept(s) ==
  /\ UNCHANGED sessions
  /\ \A a \in Agents : obj'[a][s].state = obj[a][s].state /\ (obj[a][s].spent => obj'[a][s].spent)

LEMMA BeginState ==
  ASSUME OneSlot, TypeInv, NEW s \in Slots, NEW a \in Agents, Begin(s, a)
  PROVE  \A b \in Known : /\ sessions'[b] = sessions[b] /\ sessions[b] = s
                          /\ obj'[b][s].state = obj[b][s].state
                          /\ obj[b][s].spent => obj'[b][s].spent
<1>1. UNCHANGED sessions BY DEF Begin
<1>2. \A b \in Known : sessions[b] = s BY DEF Known, TypeInv, TypeOK, OneSlot
<1>3. \A b \in Agents : b # a => obj'[b][s] = obj[b][s] BY BeginWrites
<1>4. ASSUME a \in Known
      PROVE  obj'[a][s].state = obj[a][s].state /\ (obj[a][s].spent => obj'[a][s].spent)
  <2>1. PICK over \in BOOLEAN :
          obj' = [obj EXCEPT ![a][s] = [obj[a][s] EXCEPT !.spent = obj[a][s].spent \/ over]]
    BY <1>2, <1>4 DEF Begin, Known
  <2>2. obj[a][s] \in Session BY DEF TypeInv, TypeOK
  <2>3. obj'[a][s] = [obj[a][s] EXCEPT !.spent = obj[a][s].spent \/ over]
    BY <2>1 DEF TypeInv, TypeOK
  <2>. QED BY <2>2, <2>3 DEF Session
<1>. QED BY <1>1, <1>2, <1>3, <1>4 DEF Known

LEMMA EndState ==
  ASSUME OneSlot, TypeInv, AloneInv, NEW s \in Slots, DispatchVerb(s) \/ Continue(s)
  PROVE  Ending(s) \/ StateKept(s)
<1>. DEFINE a == turn[s].agent
<1>1. obj \in [Agents -> [Slots -> Session]] BY DEF TypeInv, TypeOK
<1>2. \A b \in Agents : SameState(obj[b][s], obj[b][s]) BY DEF SameState
<1>3. TurnAlone(s) BY DEF AloneInv
<1>4. CASE DenyBudget(s) \/ DenySync(s) \/ DenyIncomplete(s)
  <2>1. PICK st \in {"BLOCKED_BUDGET", StateOf(s)} :
          turn[s].phase = "logged" /\ Finish(s, obj, st) /\ (st = StateOf(s) \/ turn[s].blocked)
    BY <1>4 DEF DenyBudget, DenySync, DenyIncomplete, Dispatched
  <2>2. MayEnd(s, st) BY <2>1 DEF MayEnd, StateOf
  <2>. QED BY <1>1, <1>2, <2>1, <2>2 DEF Ending
<1>5. CASE DispatchVerb(s) /\ ~(DenyBudget(s) \/ DenySync(s) \/ DenyIncomplete(s))
  BY <1>5, DispatchWrites DEF StateKept
<1>6. CASE FinishUnchanged(s) \/ FinishInitializeWork(s) \/ RejectPlan(s)
           \/ FinishSubmitPlan(s) \/ FinishSignalTaskComplete(s)
  <2>1. PICK st \in Working \cup {"COMPLETED"} :
          turn[s].phase # "idle" /\ Finish(s, obj, st) /\ MayEnd(s, st)
    BY <1>3, <1>6 DEF FinishUnchanged, FinishInitializeWork, RejectPlan, FinishSubmitPlan,
       FinishSignalTaskComplete, MayEnd, TurnAlone, Admitted, Resumes, StateOf, Working
  <2>. QED BY <1>1, <1>2, <2>1 DEF Ending
<1>7. CASE PropagatePack(s)
  <2>1. turn[s].phase = "escalated" BY <1>7, PropagateWrites
  <2>2. MayEnd(s, turn[s].state)
    BY <1>3, <2>1 DEF MayEnd, TurnAlone, Admitted, Resumes, StateOf, Working
  <2>. QED BY <1>7, <2>1, <2>2, PropagateWrites DEF Ending
<1>8. CASE CompleteNode(s)
  <2>1. turn[s].phase = "mutating" BY <1>8 DEF CompleteNode
  <2>2. MayEnd(s, "PLAN_ACCEPTED")
    BY <1>3, <2>1 DEF MayEnd, TurnAlone, Admitted, StateOf
  <2>3. CASE Finish(s, obj, "PLAN_ACCEPTED") BY <1>1, <1>2, <2>1, <2>2, <2>3 DEF Ending
  <2>4. ASSUME NEW m \in Nat,
               Finish(s, Update(s, [Obj(s) EXCEPT !.completedNodes = m]), "PLAN_ACCEPTED")
        PROVE  Ending(s)
    <3>. DEFINE o == [Obj(s) EXCEPT !.completedNodes = m]
                objs == Update(s, o)
    <3>1. Obj(s) \in Session /\ turn[s].agent \in Agents /\ turn[s].sess = s
      BY <2>1, StateType DEF OneSlot
    <3>2. o \in Session /\ SameState(o, Obj(s)) BY <3>1 DEF Session, SameState
    <3>3. objs \in [Agents -> [Slots -> Session]] BY <2>1, <3>2, UpdateType
    <3>4. \A b \in Agents : SameState(objs[b][s], obj[b][s])
      <4>. HIDE DEF o
      <4>. QED BY <1>1, <1>2, <3>1, <3>2 DEF Update, Obj
    <3>. QED BY <2>1, <2>2, <2>4, <3>3, <3>4 DEF Ending
  <2>5. CASE Obj(s).progress # 0
    <3>. DEFINE l == Marked(lists[Obj(s).progress], Obj(s).planGraph, turn[s].node)
    <3>1. Obj(s).progress \in 0 .. MaxAccepts /\ turn[s].node \in Nodes
      BY <2>1, StateType DEF Session, TypeInv, TypeOK
    <3>2. lists[Obj(s).progress] \in ProgressLists
      BY <2>5, <3>1, ConstantsAssumption DEF TypeInv, TypeOK
    <3>3. Cardinality(l.done) \in Nat BY <3>1, <3>2, ListCount
    <3>. HIDE DEF l
    <3>4. \/ Finish(s, obj, "PLAN_ACCEPTED")
          \/ Finish(s, Update(s, [Obj(s) EXCEPT !.completedNodes = Cardinality(l.done)]),
                    "PLAN_ACCEPTED")
      BY <1>8 DEF CompleteNode, l
    <3>. QED BY <2>3, <2>4, <3>3, <3>4
  <2>. QED BY <1>8, <2>3, <2>5 DEF CompleteNode
<1>9. CASE StorePack(s) \/ EnrichPack(s) \/ ResetProgress(s) \/ (\E p \in Plans : StorePlan(s, p))
  <2>1. turn[s].phase # "idle" /\ UNCHANGED sessions
    BY <1>9 DEF StorePack, EnrichPack, ResetProgress, StorePlan
  <2>2. PICK o : obj' = Update(s, o) /\ SameState(o, Obj(s))
    <3>1. Obj(s) \in Session BY <2>1, StateType
    <3>2. \A pk : SameState([Obj(s) EXCEPT !.contextPack = pk], Obj(s))
      BY <3>1 DEF Session, SameState
    <3>3. \A p : SameState([Obj(s) EXCEPT !.planGraph = p], Obj(s))
      BY <3>1 DEF Session, SameState
    <3>4. \A k, m : SameState([Obj(s) EXCEPT !.progress = k, !.totalNodes = m,
                                             !.completedNodes = 0], Obj(s))
      BY <3>1 DEF Session, SameState
    <3>5. CASE StorePack(s) BY <3>2, <3>5 DEF StorePack
    <3>6. CASE EnrichPack(s) BY <3>2, <3>6 DEF EnrichPack
    <3>7. CASE ResetProgress(s) BY <3>4, <3>7 DEF ResetProgress
    <3>8. CASE \E p \in Plans : StorePlan(s, p) BY <3>3, <3>8 DEF StorePlan
    <3>. QED BY <1>9, <3>5, <3>6, <3>7, <3>8
  <2>. QED BY <2>1, <2>2, UpdateWrites DEF StateKept, SameState
<1>. QED BY <1>4, <1>5, <1>6, <1>7, <1>8, <1>9 DEF Continue

\* A step of the system, for a session of the Map.
LEMMA StateStep ==
  ASSUME OneSlot, TypeInv, AloneInv, Next, NEW b \in Known
  PROVE  LET o == obj[b][sessions[b]]
             p == obj'[b][sessions'[b]]
         IN  /\ o.state = "COMPLETED" /\ p.state # "COMPLETED" =>
                  p.spent /\ p.state = "BLOCKED_BUDGET"
             /\ o.spent /\ o.state \in {"BLOCKED_BUDGET", "COMPLETED"} =>
                  p.state \in {"BLOCKED_BUDGET", "COMPLETED"}
<1>1. PICK s \in Slots : \/ \E a \in Agents : Begin(s, a)
                         \/ Throw(s) \/ DispatchVerb(s) \/ Continue(s)
  BY DEF Next
<1>2. b \in Agents /\ sessions[b] = s BY DEF Known, TypeInv, TypeOK, OneSlot
<1>3. CASE \E a \in Agents : Begin(s, a) BY <1>2, <1>3, BeginState
<1>4. CASE Throw(s) BY <1>4 DEF Throw
<1>5. CASE StateKept(s) BY <1>2, <1>5 DEF StateKept
<1>6. CASE Ending(s)
  <2>1. PICK objs, st :
          /\ objs \in [Agents -> [Slots -> Session]]
          /\ turn[s].phase # "idle" /\ Finish(s, objs, st) /\ MayEnd(s, st)
          /\ \A a \in Agents : SameState(objs[a][s], obj[a][s])
    BY <1>6 DEF Ending
  <2>2. /\ turn[s].agent \in Agents /\ turn[s].sess = s
        /\ sessions'[b] = s
        /\ EndsAs(obj'[turn[s].agent][s], objs[turn[s].agent][s], Clamp(s, st))
        /\ b # turn[s].agent => obj'[b][s] = objs[b][s]
    BY <1>2, <2>1, FinishWrites
  <2>3. CASE b # turn[s].agent BY <1>2, <2>1, <2>2, <2>3 DEF SameState
  <2>4. CASE b = turn[s].agent
    <3>1. Obj(s) = obj[b][s] /\ turn[s].blocked = Obj(s).spent
      BY <2>1, <2>2, <2>4 DEF AloneInv, TurnAlone, Obj
    <3>2. obj'[b][s].state = Clamp(s, st) /\ obj'[b][s].spent = obj[b][s].spent
      BY <2>1, <2>2, <2>4 DEF EndsAs, SameState
    <3>. QED BY <1>2, <2>1, <2>2, <3>1, <3>2 DEF Clamp, MayEnd
  <2>. QED BY <2>3, <2>4
<1>. QED BY <1>1, <1>3, <1>4, <1>5, <1>6, EndState

\* A completed session leaves COMPLETED only when its own budget is spent: no
\* turn writes the state it found earlier over it (handleTurn).
THEOREM CompletedFrozen ==
  ASSUME OneSlot
  PROVE  Spec => CompletedFrozenWithinBudget
<1>1. TypeInv /\ AloneInv /\ [Next]_vars =>
        [\A a \in Known :
           LET o == obj[a][sessions[a]]
               p == obj'[a][sessions'[a]]
           IN  (o.state = "COMPLETED" /\ p.state # "COMPLETED")
               => p.spent /\ p.state = "BLOCKED_BUDGET"]_vars
  BY StateStep
<1>. QED BY <1>1, Alone, PTL DEF Spec, CompletedFrozenWithinBudget

\* A session over its threshold that was stopped never works again (the budget
\* clamp of handleTurn).
THEOREM SpentStaysStopped ==
  ASSUME OneSlot
  PROVE  Spec => SpentNeverResumes
<1>1. TypeInv /\ AloneInv /\ [Next]_vars =>
        [LET stopped == {"BLOCKED_BUDGET", "COMPLETED"}
         IN  \A a \in Known :
               LET o == obj[a][sessions[a]]
               IN  o.spent /\ o.state \in stopped
                   => obj'[a][sessions'[a]].state \in stopped]_vars
  BY StateStep
<1>. QED BY <1>1, Alone, PTL DEF Spec, SpentNeverResumes

-----------------------------------------------------------------------------
(* What the refinement mapping shows of the one turn in flight.            *)

\* a's turn is in flight.
At(s, a) == turn[s].phase # "idle" /\ turn[s].agent = a

ViewOf(s) ==
  /\ \A a \in Agents :
       /\ SessionOf(a) = IF sessions[a] # None \/ At(s, a) THEN obj[a][s] ELSE NewSession
       /\ LET replacing == At(s, a) /\ turn[s].phase \in {"accepting", "accepted"}
          IN  /\ PhaseOf(a) = IF replacing THEN "PLAN_ACCEPTED" ELSE SessionOf(a).state
              /\ BookOf(a) = IF replacing THEN turn[s].record ELSE SessionOf(a).progress
  /\ Visitor = IF turn[s].phase # "idle" /\ sessions[turn[s].agent] = None
                 THEN turn[s].agent ELSE None

View == \A s \in Slots : ViewOf(s)

LEMMA TheView ==
  ASSUME OneSlot
  PROVE  TypeInv => View
<1>. SUFFICES ASSUME TypeInv, NEW s \in Slots PROVE ViewOf(s)
  BY DEF View
<1>1. /\ turn[s].phase # "idle" => turn[s].agent \in Agents /\ turn[s].sess = s
      /\ \A a \in Agents : sessions[a] # None => sessions[a] = s
  BY DEF TypeInv, TypeOK, OneSlot
<1>2. \A a \in Agents : TurnsOf(a) = IF At(s, a) THEN {s} ELSE {}
  BY TurnsOfSlot DEF At
<1>3. \A a \in Agents :
        Accepting(a) = IF At(s, a) /\ turn[s].phase \in {"accepting", "accepted"} THEN {s} ELSE {}
  BY <1>2 DEF Accepting
<1>4. \A c : (CHOOSE x \in {c} : TRUE) = c OBVIOUS
<1>5. ASSUME NEW a \in Agents
      PROVE  /\ SessionOf(a) = IF sessions[a] # None \/ At(s, a) THEN obj[a][s] ELSE NewSession
             /\ LET replacing == At(s, a) /\ turn[s].phase \in {"accepting", "accepted"}
                IN  /\ PhaseOf(a) = IF replacing THEN "PLAN_ACCEPTED" ELSE SessionOf(a).state
                    /\ BookOf(a) = IF replacing THEN turn[s].record ELSE SessionOf(a).progress
  <2>1. SessionOf(a) = IF sessions[a] # None \/ At(s, a) THEN obj[a][s] ELSE NewSession
    BY <1>1, <1>2, <1>4 DEF SessionOf, Obj, At
  <2>2. PhaseOf(a) = IF Accepting(a) # {} THEN "PLAN_ACCEPTED" ELSE SessionOf(a).state
    BY DEF PhaseOf
  <2>3. BookOf(a) = IF Accepting(a) # {} THEN turn[s].record ELSE SessionOf(a).progress
    BY <1>3, <1>4 DEF BookOf
  <2>. QED BY <1>3, <2>1, <2>2, <2>3
<1>6. Visitor = IF turn[s].phase # "idle" /\ sessions[turn[s].agent] = None
                  THEN turn[s].agent ELSE None
  <2>1. CASE turn[s].phase # "idle" /\ sessions[turn[s].agent] = None
    <3>1. \A a \in Agents : sessions[a] = None /\ TurnsOf(a) # {} <=> a = turn[s].agent
      BY <1>1, <1>2, <2>1 DEF At
    <3>2. Visitor \in Agents /\ sessions[Visitor] = None /\ TurnsOf(Visitor) # {}
      BY <1>1, <2>1, <3>1 DEF Visitor
    <3>. QED BY <2>1, <3>1, <3>2
  <2>2. CASE ~(turn[s].phase # "idle" /\ sessions[turn[s].agent] = None)
    <3>1. ~ \E a \in Agents : sessions[a] = None /\ TurnsOf(a) # {}
      BY <1>2, <2>2 DEF At
    <3>. QED BY <2>2, <3>1 DEF Visitor
  <2>. QED BY <2>1, <2>2
<1>. QED BY <1>5, <1>6 DEF ViewOf

LEMMA TheViewNext ==
  ASSUME OneSlot
  PROVE  TypeInv' => View'
BY TheView, PTL

-----------------------------------------------------------------------------
(* Steps of the lifecycle, from what they do to what is read off the       *)
(* controller.                                                             *)

PlanOf(a) == SessionOf(a).planGraph

Same(a) ==
  /\ PhaseOf(a)' = PhaseOf(a) /\ PlanOf(a)' = PlanOf(a) /\ BookOf(a)' = BookOf(a)

\* The books and the agents but for a are left alone.
AllBut(a) ==
  /\ \A b \in Agents : b # a => Same(b)
  /\ UNCHANGED lists /\ accepts' = accepts

LifecycleStep == [Lifecycle!Next]_(Lifecycle!lifecycle)

LEMMA IsVisit ==
  ASSUME NEW a \in Agents, AllBut(a), Same(a), Visitor' \in {Visitor, None}
  PROVE  LifecycleStep
<1>1. \A b \in Agents : Same(b) BY DEF AllBut
<1>2. CASE Visitor' = None
  <2>1. Lifecycle!Visit BY <1>1, <1>2 DEF Lifecycle!Visit, Same, PlanOf, AllBut
  <2>. QED BY <2>1 DEF LifecycleStep, Lifecycle!Next
<1>3. CASE Visitor' = Visitor
  BY <1>1, <1>3 DEF LifecycleStep, Lifecycle!lifecycle, Same, PlanOf, AllBut
<1>. QED BY <1>2, <1>3

LEMMA IsEnter ==
  ASSUME NEW a \in Agents, AllBut(a), NEW st, PhaseOf(a)' = st, PlanOf(a)' = PlanOf(a),
         BookOf(a)' = BookOf(a), Visitor' \in {Visitor, None}
  PROVE  Lifecycle!Enter(a, st)
BY DEF Lifecycle!Enter, Lifecycle!TurnMayEnd, Same, PlanOf, AllBut

LEMMA OthersSame ==
  ASSUME OneSlot, TypeInv, TypeInv', NEW s \in Slots, NEW a,
         turn[s].phase # "idle" => turn[s].agent = a,
         turn'[s].phase # "idle" => turn'[s].agent = a,
         \A b \in Agents : b # a =>
           sessions'[b] = sessions[b] /\ SameWork(obj'[b][s], obj[b][s])
  PROVE  \A b \in Agents : b # a => Same(b)
<1>1. ViewOf(s) /\ ViewOf(s)' BY TheView, TheViewNext DEF View
<1>. SUFFICES ASSUME NEW b \in Agents, b # a PROVE Same(b)
  OBVIOUS
<1>2. ~At(s, b) /\ ~At(s, b)' BY DEF At
<1>3. /\ SessionOf(b) = IF sessions[b] # None THEN obj[b][s] ELSE NewSession
      /\ PhaseOf(b) = SessionOf(b).state /\ BookOf(b) = SessionOf(b).progress
  BY <1>1, <1>2 DEF ViewOf
<1>4. /\ SessionOf(b)' = IF sessions'[b] # None THEN obj'[b][s] ELSE NewSession
      /\ PhaseOf(b)' = SessionOf(b)'.state /\ BookOf(b)' = SessionOf(b)'.progress
  BY <1>1, <1>2 DEF ViewOf
<1>5. sessions'[b] = sessions[b] /\ SameWork(obj'[b][s], obj[b][s]) OBVIOUS
<1>. QED BY <1>3, <1>4, <1>5 DEF Same, PlanOf, SameWork

\* While its turn is in flight, an agent shows the turn's session.
LEMMA OwnView ==
  ASSUME OneSlot, TypeInv, NEW s \in Slots, turn[s].phase # "idle"
  PROVE  LET a == turn[s].agent
         IN  /\ a \in Agents /\ turn[s].sess = s /\ Obj(s) = obj[a][s] /\ SessionOf(a) = Obj(s)
             /\ PhaseOf(a) = IF turn[s].phase \in {"accepting", "accepted"}
                               THEN "PLAN_ACCEPTED" ELSE Obj(s).state
             /\ BookOf(a) = IF turn[s].phase \in {"accepting", "accepted"}
                              THEN turn[s].record ELSE Obj(s).progress
             /\ Visitor = IF sessions[a] = None THEN a ELSE None
<1>1. ViewOf(s) BY TheView DEF View
<1>2. turn[s].agent \in Agents /\ turn[s].sess = s BY DEF TypeInv, TypeOK, OneSlot
<1>. QED BY <1>1, <1>2 DEF ViewOf, At, Obj

LEMMA OwnViewNext ==
  ASSUME OneSlot, TypeInv', NEW s \in Slots, turn'[s].phase # "idle",
         NEW a, a = turn'[s].agent
  PROVE  /\ Obj(s)' = obj'[a][s] /\ SessionOf(a)' = Obj(s)'
         /\ PhaseOf(a)' = IF turn'[s].phase \in {"accepting", "accepted"}
                            THEN "PLAN_ACCEPTED" ELSE Obj(s)'.state
         /\ BookOf(a)' = IF turn'[s].phase \in {"accepting", "accepted"}
                           THEN turn'[s].record ELSE Obj(s)'.progress
         /\ Visitor' = IF sessions'[a] = None THEN a ELSE None
<1>1. ViewOf(s)' BY TheViewNext DEF View
<1>2. a \in Agents /\ turn'[s].sess = s BY DEF TypeInv, TypeOK, OneSlot
<1>. QED BY <1>1, <1>2 DEF ViewOf, At, Obj

\* A turn that replaces no plan moves on.
LEMMA WaitView ==
  ASSUME OneSlot, TypeInv, TypeInv', NEW s \in Slots,
         turn[s].phase \notin {"idle", "accepting", "accepted"},
         turn'[s].phase \notin {"idle", "accepting", "accepted"},
         turn'[s].agent = turn[s].agent,
         UNCHANGED <<sessions, lists, accepts>>,
         \A a \in Agents : SameWork(obj'[a][s], obj[a][s])
  PROVE  LifecycleStep
<1>. DEFINE a == turn[s].agent
<1>1. /\ a \in Agents /\ Obj(s) = obj[a][s] /\ SessionOf(a) = Obj(s)
      /\ PhaseOf(a) = Obj(s).state /\ BookOf(a) = Obj(s).progress
      /\ Visitor = IF sessions[a] = None THEN a ELSE None
  BY OwnView
<1>2. ASSUME NEW b, b = turn'[s].agent
      PROVE  /\ Obj(s)' = obj'[b][s] /\ SessionOf(b)' = Obj(s)'
             /\ PhaseOf(b)' = Obj(s)'.state /\ BookOf(b)' = Obj(s)'.progress
             /\ Visitor' = IF sessions'[b] = None THEN b ELSE None
  BY <1>2, OwnViewNext
<1>3. ASSUME NEW b, b = a PROVE Same(b)
  BY <1>1, <1>2, <1>3 DEF Same, PlanOf, SameWork
<1>4. \A b \in Agents : b # a => Same(b) BY OthersSame
<1>5. ASSUME NEW b, b = a PROVE AllBut(b)
  BY <1>4, <1>5 DEF AllBut
<1>6. Visitor' = Visitor BY <1>1, <1>2
<1>. QED BY <1>1, <1>3, <1>5, <1>6, IsVisit

\* A turn that changes neither plan nor record ends.
LEMMA EndView ==
  ASSUME OneSlot, TypeInv, TypeInv', NEW s \in Slots, turn[s].phase # "idle",
         NEW objs \in [Agents -> [Slots -> Session]], NEW st, Finish(s, objs, st),
         \A b \in Agents : SameWork(objs[b][s], obj[b][s]),
         NEW a, a = turn[s].agent
  PROVE  /\ \A b \in Agents : b # a => Same(b)
         /\ PhaseOf(a)' = Clamp(s, st)
         /\ PlanOf(a)' = PlanOf(a) /\ BookOf(a)' = Obj(s).progress
         /\ Visitor' = None
<1>1. /\ turn'[s] = NoTurn /\ a \in Agents /\ turn[s].sess = s
      /\ sessions'[a] = s
      /\ \A b \in Agents : b # a => sessions'[b] = sessions[b]
      /\ EndsAs(obj'[a][s], objs[a][s], Clamp(s, st))
      /\ \A b \in Agents : b # a => obj'[b][s] = objs[b][s]
  BY FinishWrites
<1>2. turn'[s].phase = "idle" BY <1>1 DEF NoTurn
<1>3. \A b \in Agents : b # a => Same(b)
  <2>1. \A b \in Agents : b # a => sessions'[b] = sessions[b] /\ SameWork(obj'[b][s], obj[b][s])
    BY <1>1
  <2>. QED BY <1>2, <2>1, OthersSame
<1>4. s # None BY ConstantsAssumption
<1>5. ViewOf(s)' BY TheViewNext DEF View
<1>6. ~At(s, a)' BY <1>2 DEF At
<1>7. /\ SessionOf(a)' = obj'[a][s]
      /\ PhaseOf(a)' = obj'[a][s].state /\ BookOf(a)' = obj'[a][s].progress
      /\ Visitor' = None
  BY <1>1, <1>2, <1>4, <1>5, <1>6 DEF ViewOf
<1>8. SessionOf(a) = Obj(s) /\ Obj(s) = obj[a][s] BY OwnView
<1>9. SameWork(objs[a][s], obj[a][s]) BY <1>1
<1>10. PlanOf(a)' = PlanOf(a) /\ BookOf(a)' = Obj(s).progress
  BY <1>1, <1>7, <1>8, <1>9 DEF EndsAs, SameWork, PlanOf
<1>11. PhaseOf(a)' = Clamp(s, st) BY <1>1, <1>7 DEF EndsAs
<1>. QED BY <1>3, <1>7, <1>10, <1>11

-----------------------------------------------------------------------------
(* Every step of the controller is one of the lifecycle, or none.          *)

LEMMA BeginMapped ==
  ASSUME OneSlot, TypeInv, TypeInv', NEW s \in Slots, NEW a \in Agents, Begin(s, a)
  PROVE  LifecycleStep
<1>1. /\ turn[s].phase = "idle" /\ turn'[s].phase = "logged"
      /\ turn'[s].agent = a /\ turn'[s].sess = s
      /\ \A b \in Agents : b # a => obj'[b][s] = obj[b][s]
      /\ \/ sessions[a] # None /\ SameWork(obj'[a][s], obj[a][s])
         \/ sessions[a] = None /\ first = None /\ SameWork(obj'[a][s], NewSession)
         \/ /\ sessions[a] = None /\ first \in Agents
            /\ sessions[first] # None /\ SameWork(obj'[a][s], obj[first][s])
  BY BeginWrites
<1>2. UNCHANGED <<sessions, lists, accepts>> BY DEF Begin
<1>3. AllBut(a)
  <2>1. \A b \in Agents : b # a => sessions'[b] = sessions[b] /\ SameWork(obj'[b][s], obj[b][s])
    BY <1>1, <1>2 DEF SameWork
  <2>. QED BY <1>1, <1>2, <2>1, OthersSame DEF AllBut
<1>4. /\ SessionOf(a)' = obj'[a][s]
      /\ PhaseOf(a)' = obj'[a][s].state /\ BookOf(a)' = obj'[a][s].progress
      /\ Visitor' = IF sessions'[a] = None THEN a ELSE None
  BY <1>1, OwnViewNext
<1>5. /\ \A b \in Agents :
           /\ SessionOf(b) = IF sessions[b] # None THEN obj[b][s] ELSE NewSession
           /\ PhaseOf(b) = SessionOf(b).state /\ BookOf(b) = SessionOf(b).progress
      /\ Visitor = None
  BY <1>1, TheView DEF View, ViewOf, At
<1>6. CASE sessions[a] # None /\ SameWork(obj'[a][s], obj[a][s])
  <2>1. Same(a) BY <1>4, <1>5, <1>6 DEF Same, PlanOf, SameWork
  <2>2. Visitor' = None BY <1>2, <1>4, <1>6
  <2>. QED BY <1>3, <2>1, <2>2, IsVisit
<1>7. CASE sessions[a] = None /\ SameWork(obj'[a][s], NewSession)
  <2>1. Same(a) BY <1>4, <1>5, <1>7 DEF Same, PlanOf, SameWork
  <2>2. Visitor' = a BY <1>2, <1>4, <1>7
  <2>3. PhaseOf(a) = "UNINITIALIZED" /\ SessionOf(a).planGraph = None
    BY <1>5, <1>7 DEF NewSession
  <2>4. \A b \in Agents : Same(b) BY <1>3, <2>1 DEF AllBut
  <2>5. Lifecycle!Visit
    BY <1>3, <2>2, <2>3, <2>4 DEF Lifecycle!Visit, Same, PlanOf, AllBut
  <2>. QED BY <2>5 DEF LifecycleStep, Lifecycle!Next
<1>8. CASE /\ sessions[a] = None /\ first \in Agents
           /\ sessions[first] # None /\ SameWork(obj'[a][s], obj[first][s])
  <2>1. /\ PhaseOf(a) = "UNINITIALIZED" /\ SessionOf(a).planGraph = None /\ BookOf(a) = 0
    BY <1>5, <1>8 DEF NewSession
  <2>2. /\ PhaseOf(a)' = PhaseOf(first) /\ BookOf(a)' = BookOf(first)
        /\ SessionOf(a)'.planGraph = SessionOf(first).planGraph
    BY <1>4, <1>5, <1>8 DEF SameWork
  <2>3. Visitor' = a BY <1>2, <1>4, <1>8
  <2>4. Lifecycle!Join(a, first)
    BY <1>3, <1>8, <2>1, <2>2, <2>3 DEF Lifecycle!Join, AllBut, Same, PlanOf
  <2>. QED BY <1>8, <2>4 DEF LifecycleStep, Lifecycle!Next
<1>. QED BY <1>1, <1>6, <1>7, <1>8

LEMMA ThrowMapped ==
  ASSUME OneSlot, TypeInv, TypeInv', NEW s \in Slots, Throw(s)
  PROVE  LifecycleStep
<1>1. PICK a : a = turn[s].agent OBVIOUS
<1>2. /\ turn'[s].phase = "idle" /\ turn[s].phase \notin {"idle", "accepting", "accepted"}
      /\ UNCHANGED <<sessions, obj, lists, accepts>>
  BY DEF Throw, TypeInv, TypeOK, NoTurn
<1>3. /\ a \in Agents /\ SessionOf(a) = obj[a][s]
      /\ PhaseOf(a) = obj[a][s].state /\ BookOf(a) = obj[a][s].progress
      /\ Visitor = IF sessions[a] = None THEN a ELSE None
  BY <1>1, <1>2, OwnView
<1>4. ViewOf(s)' /\ ~At(s, a)' BY <1>2, TheViewNext DEF View, At
<1>5. /\ SessionOf(a)' = IF sessions[a] # None THEN obj[a][s] ELSE NewSession
      /\ PhaseOf(a)' = SessionOf(a)'.state /\ BookOf(a)' = SessionOf(a)'.progress
      /\ Visitor' = None
  BY <1>2, <1>3, <1>4 DEF ViewOf
<1>6. AllBut(a)
  <2>1. \A b \in Agents : b # a => sessions'[b] = sessions[b] /\ SameWork(obj'[b][s], obj[b][s])
    BY <1>2 DEF SameWork
  <2>. QED BY <1>1, <1>2, <2>1, OthersSame DEF AllBut
<1>7. CASE sessions[a] # None
  <2>1. Same(a) BY <1>3, <1>5, <1>7 DEF Same, PlanOf
  <2>. QED BY <1>3, <1>5, <1>6, <2>1, IsVisit
<1>8. CASE sessions[a] = None
  <2>1. /\ PhaseOf(a)' = "UNINITIALIZED" /\ SessionOf(a)'.planGraph = None /\ BookOf(a)' = 0
    BY <1>5, <1>8 DEF NewSession
  <2>2. Lifecycle!Forget(a)
    BY <1>3, <1>5, <1>6, <1>8, <2>1 DEF Lifecycle!Forget, AllBut, Same, PlanOf
  <2>. QED BY <1>3, <2>2 DEF LifecycleStep, Lifecycle!Next
<1>. QED BY <1>7, <1>8

\* The turn ends blocked, or in the state its session has.
LEMMA QuietEndMapped ==
  ASSUME OneSlot, TypeInv, TypeInv', NEW s \in Slots,
         turn[s].phase \notin {"idle", "accepting", "accepted"},
         NEW objs \in [Agents -> [Slots -> Session]], NEW st, Finish(s, objs, st),
         \A b \in Agents : SameWork(objs[b][s], obj[b][s]),
         UNCHANGED <<lists, accepts>>,
         Clamp(s, st) \in {"BLOCKED_BUDGET", Obj(s).state}
  PROVE  LifecycleStep
<1>1. PICK a : a = turn[s].agent OBVIOUS
<1>2. /\ a \in Agents /\ PhaseOf(a) = Obj(s).state /\ BookOf(a) = Obj(s).progress
  BY <1>1, OwnView
<1>3. /\ \A b \in Agents : b # a => Same(b)
      /\ PhaseOf(a)' = Clamp(s, st)
      /\ PlanOf(a)' = PlanOf(a) /\ BookOf(a)' = BookOf(a)
      /\ Visitor' = None
  BY <1>1, <1>2, EndView
<1>4. AllBut(a) BY <1>3 DEF AllBut
<1>5. CASE Clamp(s, st) = "BLOCKED_BUDGET"
  <2>1. Lifecycle!Block(a)
    BY <1>2, <1>3, <1>4, <1>5, IsEnter DEF Lifecycle!Block
  <2>. QED BY <1>2, <2>1 DEF LifecycleStep, Lifecycle!Next
<1>6. CASE Clamp(s, st) = Obj(s).state
  <2>1. Same(a) BY <1>2, <1>3, <1>6 DEF Same
  <2>. QED BY <1>2, <1>3, <1>4, <2>1, IsVisit
<1>. QED BY <1>5, <1>6

LEMMA DispatchMapped ==
  ASSUME OneSlot, TypeInv, TypeInv', AloneInv, NEW s \in Slots, DispatchVerb(s)
  PROVE  LifecycleStep
<1>1. \A a \in Agents : SameWork(obj[a][s], obj[a][s]) BY DEF SameWork
<1>2. obj \in [Agents -> [Slots -> Session]] BY DEF TypeInv, TypeOK
<1>3. CASE DenyBudget(s) \/ DenySync(s) \/ DenyIncomplete(s)
  <2>1. /\ turn[s].phase = "logged" /\ UNCHANGED <<lists, accepts>>
        /\ \E st \in {"BLOCKED_BUDGET", StateOf(s)} :
             Finish(s, obj, st) /\ (st = StateOf(s) \/ turn[s].blocked)
    BY <1>3 DEF DenyBudget, DenySync, DenyIncomplete, Dispatched
  <2>2. PICK st \in {"BLOCKED_BUDGET", StateOf(s)} :
          Finish(s, obj, st) /\ (st = StateOf(s) \/ turn[s].blocked)
    BY <2>1
  <2>3. Clamp(s, st) \in {"BLOCKED_BUDGET", Obj(s).state}
    BY <2>2 DEF Clamp, StateOf
  <2>. QED BY <1>1, <1>2, <2>1, <2>2, <2>3, QuietEndMapped
<1>4. CASE ~(DenyBudget(s) \/ DenySync(s) \/ DenyIncomplete(s))
  <2>1. UNCHANGED <<sessions, obj, lists, accepts>> BY <1>4, DispatchWrites
  <2>2. \A a \in Agents : SameWork(obj'[a][s], obj[a][s]) BY <1>1, <2>1
  <2>. QED BY <1>4, <2>1, <2>2, DispatchWrites, WaitView
<1>. QED BY <1>3, <1>4

LEMMA EndsMapped ==
  ASSUME OneSlot, TypeInv, TypeInv', AloneInv, NEW s \in Slots,
         FinishUnchanged(s) \/ FinishInitializeWork(s) \/ RejectPlan(s) \/ PropagatePack(s)
  PROVE  LifecycleStep
<1>1. PICK a : a = turn[s].agent OBVIOUS
<1>2. TurnAlone(s) BY DEF AloneInv
<1>3. \A b \in Agents : SameWork(obj[b][s], obj[b][s]) BY DEF SameWork
<1>4. obj \in [Agents -> [Slots -> Session]] BY DEF TypeInv, TypeOK
<1>5. CASE FinishUnchanged(s) \/ PropagatePack(s)
  <2>1. /\ turn[s].phase \in {"observing", "mutating", "escalated"} /\ UNCHANGED <<lists, accepts>>
        /\ \E objs \in [Agents -> [Slots -> Session]] :
             /\ Finish(s, objs, turn[s].state)
             /\ \A b \in Agents : SameWork(objs[b][s], obj[b][s])
    BY <1>3, <1>4, <1>5, PropagateWrites DEF FinishUnchanged
  <2>2. turn[s].state = StateOf(s)
    BY <1>2, <2>1 DEF TurnAlone, Admitted, Resumes
  <2>3. Clamp(s, turn[s].state) \in {"BLOCKED_BUDGET", Obj(s).state}
    BY <2>2 DEF Clamp, StateOf
  <2>. QED BY <2>1, <2>3, QuietEndMapped
<1>6. CASE RejectPlan(s)
  <2>1. turn[s].phase = "validating" /\ Finish(s, obj, "PLANNING") /\ UNCHANGED <<lists, accepts>>
    BY <1>6 DEF RejectPlan
  <2>2. ~turn[s].blocked /\ Obj(s).state \in Working
    BY <1>2, <2>1 DEF TurnAlone, Admitted, StateOf, Working
  <2>3. /\ a \in Agents /\ PhaseOf(a) = Obj(s).state /\ BookOf(a) = Obj(s).progress
    BY <1>1, <2>1, OwnView
  <2>4. /\ \A b \in Agents : b # a => Same(b)
        /\ PhaseOf(a)' = Clamp(s, "PLANNING")
        /\ PlanOf(a)' = PlanOf(a) /\ BookOf(a)' = BookOf(a) /\ Visitor' = None
    BY <1>1, <1>3, <1>4, <2>1, <2>3, EndView
  <2>5. AllBut(a) /\ Clamp(s, "PLANNING") = "PLANNING"
    BY <2>1, <2>2, <2>4 DEF AllBut, Clamp
  <2>6. Lifecycle!Enter(a, "PLANNING") BY <2>3, <2>4, <2>5, IsEnter
  <2>7. Lifecycle!Reject(a) BY <2>2, <2>3, <2>6 DEF Lifecycle!Reject, Working
  <2>. QED BY <2>3, <2>7 DEF LifecycleStep, Lifecycle!Next
<1>7. CASE FinishInitializeWork(s)
  <2>1. /\ turn[s].phase = "initialized" /\ Finish(s, obj, "PLANNING")
        /\ UNCHANGED <<lists, accepts>>
    BY <1>7 DEF FinishInitializeWork
  <2>2. CASE turn[s].blocked
    <3>1. Clamp(s, "PLANNING") = "BLOCKED_BUDGET" BY <2>2 DEF Clamp
    <3>. QED BY <1>3, <1>4, <2>1, <3>1, QuietEndMapped
  <2>3. CASE ~turn[s].blocked
    <3>1. Obj(s).state \in {"UNINITIALIZED", "BLOCKED_BUDGET"}
      BY <1>2, <2>1, <2>3 DEF TurnAlone, Admitted, StateOf
    <3>2. /\ a \in Agents /\ PhaseOf(a) = Obj(s).state /\ BookOf(a) = Obj(s).progress
      BY <1>1, <2>1, OwnView
    <3>3. /\ \A b \in Agents : b # a => Same(b)
          /\ PhaseOf(a)' = Clamp(s, "PLANNING")
          /\ PlanOf(a)' = PlanOf(a) /\ BookOf(a)' = BookOf(a) /\ Visitor' = None
      BY <1>1, <1>3, <1>4, <2>1, <3>2, EndView
    <3>4. AllBut(a) /\ Clamp(s, "PLANNING") = "PLANNING"
      BY <2>1, <2>3, <3>3 DEF AllBut, Clamp
    <3>5. Lifecycle!Enter(a, "PLANNING") BY <3>2, <3>3, <3>4, IsEnter
    <3>6. Lifecycle!Initialize(a) BY <3>1, <3>2, <3>5 DEF Lifecycle!Initialize
    <3>. QED BY <3>2, <3>6 DEF LifecycleStep, Lifecycle!Next
  <2>. QED BY <2>2, <2>3
<1>. QED BY <1>5, <1>6, <1>7

\* signal_task_complete is answered when the book is full.
LEMMA CompleteMapped ==
  ASSUME OneSlot, TypeInv, TypeInv', ProgressInv, AloneInv, NEW s \in Slots,
         FinishSignalTaskComplete(s)
  PROVE  LifecycleStep
<1>1. PICK a : a = turn[s].agent OBVIOUS
<1>2. turn[s].phase = "completing" /\ Finish(s, obj, "COMPLETED") /\ UNCHANGED <<lists, accepts>>
  BY DEF FinishSignalTaskComplete
<1>3. \A b \in Agents : SameWork(obj[b][s], obj[b][s]) BY DEF SameWork
<1>4. obj \in [Agents -> [Slots -> Session]] BY DEF TypeInv, TypeOK
<1>5. /\ a \in Agents /\ PhaseOf(a) = Obj(s).state /\ BookOf(a) = Obj(s).progress
      /\ SessionOf(a) = Obj(s) /\ Obj(s) = obj[a][s] /\ Obj(s) \in Session
  BY <1>1, <1>2, <1>4, OwnView
<1>6. /\ \A b \in Agents : b # a => Same(b)
      /\ PhaseOf(a)' = Clamp(s, "COMPLETED")
      /\ PlanOf(a)' = PlanOf(a) /\ BookOf(a)' = BookOf(a) /\ Visitor' = None
  BY <1>1, <1>2, <1>3, <1>4, <1>5, EndView
<1>7. AllBut(a) /\ Clamp(s, "COMPLETED") = "COMPLETED"
  BY <1>2, <1>6 DEF AllBut, Clamp
<1>8. Lifecycle!Enter(a, "COMPLETED") BY <1>5, <1>6, <1>7, IsEnter
<1>9. a \in Steady BY <1>1, <1>2, <1>5, TurnsOfSlot DEF Steady
<1>10. Booked(Obj(s)) /\ WithinList(Obj(s)) /\ Remaining(Obj(s)) = 0
  BY <1>2, <1>5, <1>9 DEF AloneInv, TurnAlone, Ready, Books, ProgressInv, Counted
<1>11. ASSUME Obj(s).planGraph # None
       PROVE  Actionable(Obj(s).planGraph) \subseteq lists[Obj(s).progress].done
  <2>1. Obj(s).progress # 0 BY <1>10, <1>11 DEF Booked
  <2>2. lists[Obj(s).progress].done \subseteq Nodes
    BY <1>5, <2>1, RecordType
  <2>. QED BY <1>5, <1>10, <2>1, <2>2, NoneMissing DEF AllDone
<1>12. Obj(s).planGraph # None =>
         Obj(s).planGraph \in Plans /\ Obj(s).progress \in 1 .. MaxAccepts
  BY <1>5, <1>10, ConstantsAssumption DEF Session, Booked
<1>13. Lifecycle!Complete(a)
  BY <1>5, <1>8, <1>11, <1>12 DEF Lifecycle!Complete
<1>. QED BY <1>5, <1>13 DEF LifecycleStep, Lifecycle!Next

\* The pack of the turn's session changes.
LEMMA PackMapped ==
  ASSUME OneSlot, TypeInv, TypeInv', NEW s \in Slots, StorePack(s) \/ EnrichPack(s)
  PROVE  LifecycleStep
<1>1. /\ turn[s].phase \in {"initializing", "escalating"}
      /\ UNCHANGED <<sessions, lists, accepts>>
      /\ \E ph \in {"initialized", "escalated"} : Await(s, ph)
      /\ \E pack : obj' = Update(s, [Obj(s) EXCEPT !.contextPack = pack])
  BY DEF StorePack, EnrichPack
<1>2. PICK pack : obj' = Update(s, [Obj(s) EXCEPT !.contextPack = pack]) BY <1>1
<1>3. PICK o : o = [Obj(s) EXCEPT !.contextPack = pack] OBVIOUS
<1>4. \A b \in Agents : SameWork(obj'[b][s], obj[b][s])
  <2>1. SameWork(o, Obj(s)) BY <1>1, <1>3, StateType DEF Session, SameWork
  <2>2. obj' = Update(s, o) BY <1>2, <1>3
  <2>3. turn[s].phase # "idle" BY <1>1
  <2>4. /\ turn[s].agent \in Agents /\ Obj(s) = obj[turn[s].agent][s]
        /\ obj'[turn[s].agent][s] = o
        /\ \A b \in Agents : b # turn[s].agent => obj'[b][s] = obj[b][s]
    BY <2>2, <2>3, UpdateWrites
  <2>. QED BY <2>1, <2>4 DEF SameWork
<1>5. turn'[s].phase \in {"initialized", "escalated"} /\ turn'[s].agent = turn[s].agent
  BY <1>1, AwaitWrites
<1>. QED BY <1>1, <1>4, <1>5, WaitView

\* A plan counts as accepted from here on.
LEMMA StorePlanMapped ==
  ASSUME OneSlot, TypeInv, TypeInv', AloneInv, NEW s \in Slots, NEW p \in Plans,
         StorePlan(s, p)
  PROVE  LifecycleStep
<1>1. PICK a : a = turn[s].agent OBVIOUS
<1>2. /\ turn[s].phase = "validating" /\ accepts < MaxAccepts /\ accepts' = accepts + 1
      /\ UNCHANGED <<sessions, lists>>
  BY DEF StorePlan
<1>3. /\ a \in Agents /\ obj'[a][s] = [Obj(s) EXCEPT !.planGraph = p]
      /\ \A b \in Agents : b # a => obj'[b][s] = obj[b][s]
  BY <1>1, <1>2, UpdateWrites DEF StorePlan
<1>4. obj'[a][s].planGraph = p BY <1>2, <1>3, StateType DEF Session
<1>5. turn'[s].phase = "accepting" /\ turn'[s].agent = a /\ turn'[s].record = accepts + 1
  BY <1>1 DEF StorePlan, TypeInv, TypeOK, Turn
<1>6. PhaseOf(a) = Obj(s).state /\ Visitor = IF sessions[a] = None THEN a ELSE None
  BY <1>1, <1>2, OwnView
<1>7. Obj(s).state \in Working
  BY <1>2 DEF AloneInv, TurnAlone, Admitted, StateOf, Working
<1>8. /\ SessionOf(a)' = obj'[a][s] /\ PhaseOf(a)' = "PLAN_ACCEPTED"
      /\ BookOf(a)' = accepts + 1 /\ Visitor' = Visitor
  BY <1>2, <1>5, <1>6, OwnViewNext
<1>9. \A b \in Agents : b # a => Same(b)
  <2>1. \A b \in Agents : b # a => sessions'[b] = sessions[b] /\ SameWork(obj'[b][s], obj[b][s])
    BY <1>2, <1>3 DEF SameWork
  <2>. QED BY <1>1, <1>5, <2>1, OthersSame
<1>10. Lifecycle!Accept(a, p)
  <2>1. SessionOf(a)'.planGraph = p BY <1>4, <1>8
  <2>2. PhaseOf(a) \in Working BY <1>6, <1>7
  <2>. QED BY <1>2, <1>3, <1>8, <1>9, <2>1, <2>2
       DEF Lifecycle!Accept, Lifecycle!TurnMayEnd, Same, PlanOf, Working
<1>. QED BY <1>3, <1>10 DEF LifecycleStep, Lifecycle!Next

LEMMA ResetProgressMapped ==
  ASSUME OneSlot, TypeInv, TypeInv', AloneInv, NEW s \in Slots, ResetProgress(s)
  PROVE  LifecycleStep
<1>1. PICK a : a = turn[s].agent OBVIOUS
<1>2. turn[s].phase = "accepting" /\ UNCHANGED <<sessions, accepts>> BY DEF ResetProgress
<1>3. lists[turn[s].record] = EmptyLists
  BY <1>2 DEF AloneInv, TurnAlone, Ready
<1>4. UNCHANGED lists BY <1>3 DEF ResetProgress, TypeInv, TypeOK
<1>5. PICK o : /\ obj' = Update(s, o) /\ o.planGraph = Obj(s).planGraph
  <2>1. Obj(s) \in Session BY <1>2, StateType
  <2>2. \A k, m : [Obj(s) EXCEPT !.progress = k, !.totalNodes = m, !.completedNodes = 0].planGraph
                  = Obj(s).planGraph
    BY <2>1 DEF Session
  <2>. QED BY <2>2 DEF ResetProgress
<1>6. /\ a \in Agents /\ obj'[a][s] = o
      /\ \A b \in Agents : b # a => obj'[b][s] = obj[b][s]
  BY <1>1, <1>2, <1>5, UpdateWrites
<1>7. turn'[s].phase = "accepted" /\ turn'[s].agent = a /\ turn'[s].record = turn[s].record
  BY <1>1, AwaitWrites DEF ResetProgress
<1>8. /\ SessionOf(a) = Obj(s) /\ PhaseOf(a) = "PLAN_ACCEPTED" /\ BookOf(a) = turn[s].record
      /\ Visitor = IF sessions[a] = None THEN a ELSE None
  BY <1>1, <1>2, OwnView
<1>9. /\ SessionOf(a)' = o /\ PhaseOf(a)' = "PLAN_ACCEPTED" /\ BookOf(a)' = turn[s].record
      /\ Visitor' = Visitor
  BY <1>2, <1>6, <1>7, <1>8, OwnViewNext
<1>10. Same(a) BY <1>5, <1>8, <1>9 DEF Same, PlanOf
<1>11. \A b \in Agents : b # a => Same(b)
  <2>1. \A b \in Agents : b # a => sessions'[b] = sessions[b] /\ SameWork(obj'[b][s], obj[b][s])
    BY <1>2, <1>6 DEF SameWork
  <2>. QED BY <1>1, <1>7, <2>1, OthersSame
<1>12. AllBut(a) BY <1>2, <1>4, <1>11 DEF AllBut
<1>. QED BY <1>6, <1>9, <1>10, <1>12, IsVisit

LEMMA FinishSubmitPlanMapped ==
  ASSUME OneSlot, TypeInv, TypeInv', AloneInv, NEW s \in Slots, FinishSubmitPlan(s)
  PROVE  LifecycleStep
<1>1. PICK a : a = turn[s].agent OBVIOUS
<1>2. /\ turn[s].phase = "accepted" /\ Finish(s, obj, "PLAN_ACCEPTED")
      /\ UNCHANGED <<lists, accepts>>
  BY DEF FinishSubmitPlan
<1>3. ~turn[s].blocked /\ Obj(s).progress = turn[s].record
  BY <1>2 DEF AloneInv, TurnAlone, Admitted, Ready, StateOf, Working
<1>4. a \in Agents /\ PhaseOf(a) = "PLAN_ACCEPTED" /\ BookOf(a) = turn[s].record
  BY <1>1, <1>2, OwnView
<1>5. /\ \A b \in Agents : b # a => Same(b)
      /\ PhaseOf(a)' = Clamp(s, "PLAN_ACCEPTED")
      /\ PlanOf(a)' = PlanOf(a) /\ BookOf(a)' = Obj(s).progress /\ Visitor' = None
  <2>1. \A b \in Agents : SameWork(obj[b][s], obj[b][s]) BY DEF SameWork
  <2>2. obj \in [Agents -> [Slots -> Session]] BY DEF TypeInv, TypeOK
  <2>. QED BY <1>1, <1>2, <2>1, <2>2, EndView
<1>6. Same(a) BY <1>3, <1>4, <1>5 DEF Same, Clamp
<1>7. AllBut(a) BY <1>2, <1>5 DEF AllBut
<1>. QED BY <1>4, <1>5, <1>6, <1>7, IsVisit

\* The node is written in the book, unless it is there.
LEMMA CompleteNodeMapped ==
  ASSUME OneSlot, TypeInv, TypeInv', AloneInv, NEW s \in Slots, CompleteNode(s)
  PROVE  LifecycleStep
<1>. DEFINE k == Obj(s).progress
            n == turn[s].node
            p == Obj(s).planGraph
            l == Marked(lists[k], p, n)
            o == [Obj(s) EXCEPT !.completedNodes = Cardinality(l.done)]
<1>1. PICK a : a = turn[s].agent OBVIOUS
<1>2. turn[s].phase = "mutating" /\ accepts' = accepts BY DEF CompleteNode
<1>3. /\ ~turn[s].blocked /\ Obj(s).state = "PLAN_ACCEPTED"
      /\ p # None /\ n \in Actionable(p)
  BY <1>2 DEF AloneInv, TurnAlone, Admitted, Ready, StateOf
<1>4. /\ a \in Agents /\ Obj(s) = obj[a][s] /\ SessionOf(a) = Obj(s)
      /\ PhaseOf(a) = "PLAN_ACCEPTED" /\ BookOf(a) = k
  BY <1>1, <1>2, <1>3, OwnView
<1>5. \A b \in Agents : SameWork(obj[b][s], obj[b][s]) BY DEF SameWork
<1>6. /\ obj \in [Agents -> [Slots -> Session]] /\ lists \in [1 .. MaxAccepts -> ProgressLists]
      /\ Obj(s) \in Session /\ n \in Nodes
  BY <1>2, StateType DEF TypeInv, TypeOK
<1>7. ASSUME NEW objs \in [Agents -> [Slots -> Session]], Finish(s, objs, "PLAN_ACCEPTED"),
             \A b \in Agents : SameWork(objs[b][s], obj[b][s])
      PROVE  /\ \A b \in Agents : Same(b)
             /\ Visitor' = None
  <2>1. /\ \A b \in Agents : b # a => Same(b)
        /\ PhaseOf(a)' = Clamp(s, "PLAN_ACCEPTED")
        /\ PlanOf(a)' = PlanOf(a) /\ BookOf(a)' = k /\ Visitor' = None
    BY <1>1, <1>2, <1>7, EndView
  <2>2. Same(a) BY <1>3, <1>4, <2>1 DEF Same, Clamp
  <2>. QED BY <2>1, <2>2
<1>8. CASE Finish(s, obj, "PLAN_ACCEPTED") /\ UNCHANGED lists
  <2>1. (\A b \in Agents : Same(b)) /\ Visitor' = None BY <1>5, <1>6, <1>7, <1>8
  <2>2. AllBut(a) BY <1>2, <1>8, <2>1 DEF AllBut
  <2>. QED BY <1>4, <2>1, <2>2, IsVisit
<1>9. CASE /\ k # 0 /\ lists' = [lists EXCEPT ![k] = l]
           /\ Finish(s, Update(s, o), "PLAN_ACCEPTED")
  <2>1. k \in 1 .. MaxAccepts
    <3>1. k \in 0 .. MaxAccepts BY <1>6 DEF Session
    <3>2. k # 0 /\ MaxAccepts \in Nat BY <1>9, ConstantsAssumption
    <3>. HIDE DEF k
    <3>. QED BY <3>1, <3>2
  <2>2. Cardinality(l.done) \in Nat BY <1>6, <2>1, ListCount
  <2>3. o \in Session /\ SameWork(o, Obj(s))
    <3>. HIDE DEF l
    <3>. QED BY <1>6, <2>2 DEF Session, SameWork
  <2>4. Update(s, o) \in [Agents -> [Slots -> Session]] BY <1>2, <2>3, UpdateType
  <2>5. \A b \in Agents : SameWork(Update(s, o)[b][s], obj[b][s])
    <3>1. turn[s].sess = s BY <1>2, OwnView
    <3>. HIDE DEF o
    <3>. QED BY <1>1, <1>4, <1>5, <1>6, <2>3, <3>1 DEF Update
  <2>6. (\A b \in Agents : Same(b)) /\ Visitor' = None BY <1>7, <1>9, <2>4, <2>5
  <2>7. p \in Plans BY <1>3, <1>6 DEF Session
  <2>8. l.done = lists[k].done \cup {n} BY DEF Marked
  <2>9. [i \in 1 .. MaxAccepts |-> lists'[i].done] =
          [[i \in 1 .. MaxAccepts |-> lists[i].done] EXCEPT ![k] = lists[k].done \cup {n}]
    <3>. HIDE DEF l, k
    <3>. QED BY <1>6, <1>9, <2>1, <2>8
  <2>10. ASSUME NEW m, m = n PROVE Lifecycle!Perform(a, m)
    <3>. HIDE DEF l, o
    <3>1. SessionOf(a).planGraph = p BY <1>4
    <3>. HIDE DEF p, k
    <3>. QED BY <1>2, <1>3, <1>4, <2>1, <2>6, <2>7, <2>9, <2>10, <3>1
         DEF Lifecycle!Perform, Lifecycle!TurnMayEnd, Same, PlanOf
  <2>11. \E m \in Nodes : Lifecycle!Perform(a, m)
    <3>1. PICK m \in Nodes : m = n BY <1>6
    <3>. QED BY <2>10, <3>1
  <2>. QED BY <1>4, <2>11 DEF LifecycleStep, Lifecycle!Next
<1>10. \/ Finish(s, obj, "PLAN_ACCEPTED") /\ UNCHANGED lists
       \/ /\ k # 0 /\ lists' = [lists EXCEPT ![k] = l]
          /\ Finish(s, Update(s, o), "PLAN_ACCEPTED")
  BY DEF CompleteNode
<1>. HIDE DEF k, l, o
<1>. QED BY <1>8, <1>9, <1>10

LEMMA ContinueMapped ==
  ASSUME OneSlot, TypeInv, TypeInv', ProgressInv, AloneInv, NEW s \in Slots, Continue(s)
  PROVE  LifecycleStep
BY EndsMapped, CompleteMapped, PackMapped, StorePlanMapped, ResetProgressMapped,
   FinishSubmitPlanMapped, CompleteNodeMapped DEF Continue

LEMMA InitMapped ==
  ASSUME OneSlot
  PROVE  Init => Lifecycle!Init
<1>. SUFFICES ASSUME Init PROVE Lifecycle!Init
  OBVIOUS
<1>1. \A a : TurnsOf(a) = {} /\ Accepting(a) = {}
  BY DEF Init, TurnsOf, Accepting, NoTurn
<1>2. \A a \in Agents : SessionOf(a) = NewSession /\ PhaseOf(a) = "UNINITIALIZED" /\ BookOf(a) = 0
  BY <1>1 DEF Init, SessionOf, PhaseOf, BookOf, NewSession
<1>3. Visitor = None BY <1>1 DEF Visitor
<1>. QED BY <1>2, <1>3 DEF Lifecycle!Init, Init, NewSession, EmptyLists

LEMMA NextMapped ==
  ASSUME OneSlot
  PROVE  /\ TypeInv /\ ProgressInv /\ AloneInv /\ TypeInv' /\ [Next]_vars
         => [Lifecycle!Next]_(Lifecycle!lifecycle)
<1>1. ASSUME UNCHANGED vars PROVE LifecycleStep
  BY <1>1 DEF vars, LifecycleStep, Lifecycle!lifecycle, PhaseOf, BookOf, SessionOf, Accepting,
     TurnsOf, Obj, Visitor
<1>2. ASSUME TypeInv, ProgressInv, AloneInv, TypeInv', Next PROVE LifecycleStep
  BY <1>2, BeginMapped, ThrowMapped, DispatchMapped, ContinueMapped DEF Next
<1>. QED BY <1>1, <1>2 DEF LifecycleStep

\* One turn at a time, the controller implements the abstract lifecycle: every
\* step of it is a step the lifecycle allows an agent, or changes nothing of it.
THEOREM Implements ==
  ASSUME OneSlot
  PROVE  Spec => ImplementsLifecycle
<1>1. Init => Lifecycle!Init BY InitMapped
<1>2. TypeInv /\ ProgressInv /\ AloneInv /\ TypeInv' /\ [Next]_vars
        => [Lifecycle!Next]_(Lifecycle!lifecycle)
  BY NextMapped
<1>. QED BY <1>1, <1>2, Alone, PTL DEF Spec, ImplementsLifecycle, Lifecycle!Spec
=============================================================================
