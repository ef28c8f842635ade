---------------------------- MODULE WorkLifecycle ----------------------------
(***************************************************************************)
(* What the gateway promises of a work scope, without turns: each agent is *)
(* in one run state and under at most one accepted plan, agents that join  *)
(* take over a sibling's state, plan and book, the nodes performed under a *)
(* plan are kept in a book every agent of that plan writes to, and an      *)
(* agent completes only when its book holds every node of its plan.        *)
(* TurnController implements it on the stdio transport.                    *)
(***************************************************************************)
EXTENDS Naturals

CONSTANTS
  Agents, Plans, Nodes,
  Todo,        \* Todo[p]: the nodes of plan p that have to be performed
  MaxBooks,    \* bound on the number of accepted plans
  None

\* What the theorems assume of the constants; TurnControllerStdio substitutes
\* constants of TurnController that satisfy it.
LifecycleConstants ==
  /\ None \notin Agents \cup Plans
  /\ Todo \in [Plans -> SUBSET Nodes]
  /\ MaxBooks \in Nat

VARIABLES
  phase,       \* run state of each agent
  plan,        \* the plan each agent works under
  book,        \* the number of the book that plan's work is written in
  done,        \* the nodes written in each book
  books,       \* number of books opened
  visitor      \* an agent whose first turn is not over

lifecycle == <<phase, plan, book, done, books, visitor>>

RunStates == {"UNINITIALIZED", "PLANNING", "PLAN_ACCEPTED",
              "BLOCKED_BUDGET", "FAILED", "COMPLETED"}

TypeOK ==
  /\ phase \in [Agents -> RunStates]
  /\ plan \in [Agents -> Plans \cup {None}]
  /\ book \in [Agents -> 0 .. MaxBooks]
  /\ done \in [1 .. MaxBooks -> SUBSET Nodes]
  /\ books \in 0 .. MaxBooks
  /\ visitor \in Agents \cup {None}

Init ==
  /\ phase = [a \in Agents |-> "UNINITIALIZED"]
  /\ plan = [a \in Agents |-> None]
  /\ book = [a \in Agents |-> 0]
  /\ done = [k \in 1 .. MaxBooks |-> {}]
  /\ books = 0
  /\ visitor = None

\* The first turn of the visitor, if there is one, may be over after a step.
TurnMayEnd == visitor' \in {visitor, None}

Enter(a, st) ==
  /\ phase' = [phase EXCEPT ![a] = st]
  /\ TurnMayEnd
  /\ UNCHANGED <<plan, book, done, books>>

\* A new agent takes over the state, the plan and the book of a sibling.
Join(a, b) ==
  /\ phase[a] = "UNINITIALIZED" /\ plan[a] = None /\ book[a] = 0
  /\ phase' = [phase EXCEPT ![a] = phase[b]]
  /\ plan' = [plan EXCEPT ![a] = plan[b]]
  /\ book' = [book EXCEPT ![a] = book[b]]
  /\ visitor' = a
  /\ UNCHANGED <<done, books>>

\* The first turn of an agent fails: the agent was never there.
Forget(a) ==
  /\ visitor = a
  /\ phase' = [phase EXCEPT ![a] = "UNINITIALIZED"]
  /\ plan' = [plan EXCEPT ![a] = None]
  /\ book' = [book EXCEPT ![a] = 0]
  /\ visitor' = None
  /\ UNCHANGED <<done, books>>

Initialize(a) ==
  phase[a] \in {"UNINITIALIZED", "BLOCKED_BUDGET"} /\ Enter(a, "PLANNING")

Reject(a) ==
  phase[a] \in {"PLANNING", "PLAN_ACCEPTED"} /\ Enter(a, "PLANNING")

Accept(a, p) ==
  /\ phase[a] \in {"PLANNING", "PLAN_ACCEPTED"}
  /\ books < MaxBooks
  /\ books' = books + 1
  /\ phase' = [phase EXCEPT ![a] = "PLAN_ACCEPTED"]
  /\ plan' = [plan EXCEPT ![a] = p]
  /\ book' = [book EXCEPT ![a] = books + 1]
  /\ TurnMayEnd
  /\ UNCHANGED done

Perform(a, n) ==
  /\ phase[a] = "PLAN_ACCEPTED"
  /\ n \in Todo[plan[a]]
  /\ done' = [done EXCEPT ![book[a]] = @ \cup {n}]
  /\ TurnMayEnd
  /\ UNCHANGED <<phase, plan, book, books>>

Block(a) == Enter(a, "BLOCKED_BUDGET")

Complete(a) ==
  /\ plan[a] # None => Todo[plan[a]] \subseteq done[book[a]]
  /\ Enter(a, "COMPLETED")

\* The first turn of an agent with nothing to take over begins, or the first
\* turn of an agent ends.
Visit ==
  /\ \/ visitor' = None
     \/ \E a \in Agents : /\ visitor' = a
                          /\ phase[a] = "UNINITIALIZED" /\ plan[a] = None
  /\ UNCHANGED <<phase, plan, book, done, books>>

Next ==
  \/ Visit
  \/ \E a \in Agents :
       \/ Block(a) \/ Initialize(a) \/ Reject(a) \/ Complete(a)
       \/ \E p \in Plans : Accept(a, p)
       \/ \E n \in Nodes : Perform(a, n)
       \/ \E b \in Agents : Join(a, b)
       \/ Forget(a)

Spec == Init /\ [][Next]_lifecycle

-----------------------------------------------------------------------------
\* An agent has a plan if and only if it writes in a book, one that was
\* opened, and it has both in PLAN_ACCEPTED.
PlanHasBook ==
  \A a \in Agents :
    /\ book[a] <= books
    /\ plan[a] # None <=> book[a] # 0
    /\ phase[a] = "PLAN_ACCEPTED" => plan[a] # None

\* A completed agent with a plan has every node of that plan in its book.
CompletedIsDone ==
  \A a \in Agents :
    (phase[a] = "COMPLETED" /\ plan[a] # None)
    => Todo[plan[a]] \subseteq done[book[a]]
=============================================================================
