------------------------- MODULE WorkLifecycleProofs -------------------------
(***************************************************************************)
(* The invariants of the abstract lifecycle, for every set of agents,      *)
(* plans and nodes.  An agent completes with its book full, and stays so   *)
(* because a book is only written to and an agent only changes book on     *)
(* another accepted plan, which takes it out of COMPLETED; PlanHasBook is  *)
(* what makes the book of an agent with a plan one of those written to.    *)
(***************************************************************************)
EXTENDS WorkLifecycle, TLAPS

\* The invariant is inductive.
IInv == TypeOK /\ PlanHasBook /\ CompletedIsDone

LEMMA InitInv == LifecycleConstants /\ Init => IInv
  BY DEF LifecycleConstants, Init, IInv, TypeOK, PlanHasBook, CompletedIsDone, RunStates

LEMMA EnterInv ==
  ASSUME LifecycleConstants, IInv, NEW a \in Agents, NEW st \in RunStates, Enter(a, st),
         st = "PLAN_ACCEPTED" => plan[a] # None,
         st = "COMPLETED" /\ plan[a] # None => Todo[plan[a]] \subseteq done[book[a]]
  PROVE  IInv'
<1>1. TypeOK'
  BY DEF IInv, TypeOK, Enter, TurnMayEnd
<1>2. PlanHasBook'
  BY DEF IInv, TypeOK, Enter, PlanHasBook
<1>3. CompletedIsDone'
  BY DEF IInv, TypeOK, Enter, CompletedIsDone
<1>. QED BY <1>1, <1>2, <1>3 DEF IInv

LEMMA JoinInv ==
  ASSUME LifecycleConstants, IInv, NEW a \in Agents, NEW b \in Agents, Join(a, b)
  PROVE  IInv'
<1>1. TypeOK'
  BY DEF IInv, TypeOK, Join
<1>2. PlanHasBook'
  BY DEF IInv, TypeOK, Join, PlanHasBook
<1>3. CompletedIsDone'
  BY DEF IInv, TypeOK, Join, CompletedIsDone
<1>. QED BY <1>1, <1>2, <1>3 DEF IInv

LEMMA ForgetInv ==
  ASSUME LifecycleConstants, IInv, NEW a \in Agents, Forget(a)
  PROVE  IInv'
<1>1. TypeOK'
  BY DEF LifecycleConstants, IInv, TypeOK, Forget, RunStates
<1>2. PlanHasBook'
  BY DEF IInv, TypeOK, Forget, PlanHasBook
<1>3. CompletedIsDone'
  BY DEF IInv, TypeOK, Forget, CompletedIsDone
<1>. QED BY <1>1, <1>2, <1>3 DEF IInv

LEMMA AcceptInv ==
  ASSUME LifecycleConstants, IInv, NEW a \in Agents, NEW p \in Plans, Accept(a, p)
  PROVE  IInv'
<1>1. TypeOK'
  BY DEF LifecycleConstants, IInv, TypeOK, Accept, TurnMayEnd, RunStates
<1>2. PlanHasBook'
  BY DEF LifecycleConstants, IInv, TypeOK, Accept, PlanHasBook
<1>3. CompletedIsDone'
  BY DEF IInv, TypeOK, Accept, CompletedIsDone
<1>. QED BY <1>1, <1>2, <1>3 DEF IInv

\* Writing a node in the book of one agent keeps every book full that was.
LEMMA PerformInv ==
  ASSUME LifecycleConstants, IInv, NEW a \in Agents, NEW n \in Nodes, Perform(a, n)
  PROVE  IInv'
<1>1. TypeOK'
  BY DEF IInv, TypeOK, Perform, TurnMayEnd
<1>2. PlanHasBook'
  BY DEF IInv, Perform, PlanHasBook
<1>3. CompletedIsDone'
  <2>1. SUFFICES ASSUME NEW b \in Agents, phase[b] = "COMPLETED", plan[b] # None
                 PROVE  Todo[plan[b]] \subseteq done'[book[b]]
    BY DEF CompletedIsDone, Perform
  <2>2. Todo[plan[b]] \subseteq done[book[b]]
    BY <2>1 DEF IInv, CompletedIsDone
  <2>3. book[b] \in 1 .. MaxBooks
    BY <2>1 DEF LifecycleConstants, IInv, TypeOK, PlanHasBook
  <2>4. done[book[b]] \subseteq done'[book[b]]
    BY <2>3 DEF IInv, TypeOK, Perform
  <2>. QED BY <2>2, <2>4
<1>. QED BY <1>1, <1>2, <1>3 DEF IInv

LEMMA VisitInv ==
  ASSUME LifecycleConstants, IInv, Visit
  PROVE  IInv'
  BY DEF IInv, TypeOK, PlanHasBook, CompletedIsDone, Visit

LEMMA NextInv == LifecycleConstants /\ IInv /\ [Next]_lifecycle => IInv'
<1>1. SUFFICES ASSUME LifecycleConstants, IInv, [Next]_lifecycle PROVE IInv'
  OBVIOUS
<1>2. CASE UNCHANGED lifecycle
  BY <1>1, <1>2 DEF IInv, TypeOK, PlanHasBook, CompletedIsDone, lifecycle
<1>3. CASE Visit
  BY <1>1, <1>3, VisitInv
<1>4. ASSUME NEW a \in Agents, NEW b \in Agents, Join(a, b) PROVE IInv'
  BY <1>1, <1>4, JoinInv
<1>5. ASSUME NEW a \in Agents, Forget(a) PROVE IInv'
  BY <1>1, <1>5, ForgetInv
<1>6. ASSUME NEW a \in Agents, Initialize(a) \/ Reject(a) \/ Block(a) PROVE IInv'
  <2>1. \E st \in {"PLANNING", "BLOCKED_BUDGET"} : Enter(a, st)
    BY <1>6 DEF Initialize, Reject, Block
  <2>. QED BY <1>1, <2>1, EnterInv DEF RunStates
<1>7. ASSUME NEW a \in Agents, Complete(a) PROVE IInv'
  <2>1. Enter(a, "COMPLETED") /\ (plan[a] # None => Todo[plan[a]] \subseteq done[book[a]])
    BY <1>7 DEF Complete
  <2>. QED BY <1>1, <2>1, EnterInv DEF RunStates
<1>8. ASSUME NEW a \in Agents, NEW p \in Plans, Accept(a, p) PROVE IInv'
  BY <1>1, <1>8, AcceptInv
<1>9. ASSUME NEW a \in Agents, NEW n \in Nodes, Perform(a, n) PROVE IInv'
  BY <1>1, <1>9, PerformInv
<1>. QED BY <1>1, <1>2, <1>3, <1>4, <1>5, <1>6, <1>7, <1>8, <1>9 DEF Next

\* The abstract lifecycle keeps its types.
THEOREM LifecycleTypeOK ==
  ASSUME LifecycleConstants PROVE Spec => []TypeOK
<1>1. IInv => TypeOK
  BY DEF IInv
<1>2. (Init => IInv) /\ (IInv /\ [Next]_lifecycle => IInv')
  BY InitInv, NextInv
<1>. QED BY <1>1, <1>2, PTL DEF Spec

\* An agent has a plan if and only if it has a book to write its work in.
THEOREM LifecyclePlanHasBook ==
  ASSUME LifecycleConstants PROVE Spec => []PlanHasBook
<1>1. IInv => PlanHasBook
  BY DEF IInv
<1>2. (Init => IInv) /\ (IInv /\ [Next]_lifecycle => IInv')
  BY InitInv, NextInv
<1>. QED BY <1>1, <1>2, PTL DEF Spec

\* A completed agent with a plan has performed every node of it, or a sibling
\* that shares its book has: the completion gate of signal_task_complete
\* cannot be bypassed by joining, forgetting, resubmitting or blocking.
THEOREM LifecycleCompletedIsDone ==
  ASSUME LifecycleConstants PROVE Spec => []CompletedIsDone
<1>1. IInv => CompletedIsDone
  BY DEF IInv
<1>2. (Init => IInv) /\ (IInv /\ [Next]_lifecycle => IInv')
  BY InitInv, NextInv
<1>. QED BY <1>1, <1>2, PTL DEF Spec
=============================================================================
