------------------------- MODULE TurnControllerStdio -------------------------
(***************************************************************************)
(* The turn controller behind the stdio transport, one turn at a time,     *)
(* implements WorkLifecycle.  An agent's lifecycle is read off its session *)
(* in the Map or, during its first turn, off the object that turn created. *)
(* From the moment a plan replaces the session's plan until the turn ends, *)
(* the plan counts as accepted and its progress record as the agent's      *)
(* book, although the record is only created after the next await.         *)
(***************************************************************************)
EXTENDS TurnController

TurnsOf(a) == {s \in Slots : turn[s].phase # "idle" /\ turn[s].agent = a}

Accepting(a) == {s \in TurnsOf(a) : turn[s].phase \in {"accepting", "accepted"}}

SessionOf(a) ==
  IF sessions[a] # None THEN obj[a][sessions[a]]
  ELSE IF TurnsOf(a) = {} THEN NewSession
  ELSE LET s == CHOOSE s \in TurnsOf(a) : TRUE IN Obj(s)

PhaseOf(a) == IF Accepting(a) # {} THEN "PLAN_ACCEPTED" ELSE SessionOf(a).state

BookOf(a) ==
  IF Accepting(a) # {}
    THEN LET s == CHOOSE s \in Accepting(a) : TRUE IN turn[s].record
    ELSE SessionOf(a).progress

Visitor ==
  IF \E a \in Agents : sessions[a] = None /\ TurnsOf(a) # {}
    THEN CHOOSE a \in Agents : sessions[a] = None /\ TurnsOf(a) # {}
    ELSE None

Lifecycle == INSTANCE WorkLifecycle WITH
  Todo     <- [p \in Plans |-> Actionable(p)],
  MaxBooks <- MaxAccepts,
  phase    <- [a \in Agents |-> PhaseOf(a)],
  plan     <- [a \in Agents |-> SessionOf(a).planGraph],
  book     <- [a \in Agents |-> BookOf(a)],
  done     <- [k \in 1 .. MaxAccepts |-> lists[k].done],
  books    <- accepts,
  visitor  <- Visitor

\* Every step of the turn controller is a step of the lifecycle the
\* architecture describes, or none: sessions only take the transitions of its
\* state machine, joining agents take over what a sibling has, and completion
\* needs every node of the plan.
ImplementsLifecycle == Lifecycle!Spec
=============================================================================
