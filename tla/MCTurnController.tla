-------------------------- MODULE MCTurnController --------------------------
(***************************************************************************)
(* Instances of TurnController for TLC.  Plan p1 changes (n1) and checks   *)
(* (n2); plan p2 reuses their ids the other way round, as a resubmitted    *)
(* plan may; plan p3 is p1 with a side effect (n3) after the check.        *)
(***************************************************************************)
EXTENDS TurnControllerStdio, TLC

CONSTANTS p1, p2, p3, n1, n2, n3

MCKind ==
  [p \in Plans |-> [n \in Nodes |->
     CASE n = n3 -> IF p = p3 THEN "side_effect" ELSE "absent"
       [] n = n1 -> IF p = p2 THEN "validate" ELSE "change"
       [] n = n2 -> IF p = p2 THEN "change" ELSE "validate"]]

MCMapsTo ==
  [p \in Plans |-> [n \in Nodes |->
     IF MCKind[p][n] = "validate" THEN {n1, n2} \ {n} ELSE {}]]

\* What the validator asks of a plan's nodes: a validate node maps to change
\* nodes, every change node is mapped to, and a side effect follows a check.
ValidPlan(p) ==
  LET mapped == UNION {MapsTo[p][v] : v \in NodesOfKind(p, {"validate"})}
  IN  /\ mapped = NodesOfKind(p, {"change"})
      /\ \A v \in NodesOfKind(p, {"validate"}) : MapsTo[p][v] # {}
      /\ NodesOfKind(p, {"side_effect"}) # {} => NodesOfKind(p, {"validate"}) # {}

ASSUME \A p \in Plans : ValidPlan(p)

AgentSymmetry == Permutations(Agents)

SlotSymmetry == Permutations(Slots)

-----------------------------------------------------------------------------
(* States are told apart by what some step may still read: not by session  *)
(* objects that are neither in the Map nor held by a turn, nor by progress *)
(* records that no such object and no submission refers to.                *)

InUse(a, c) ==
  sessions[a] = c \/ \E s \in Slots : turn[s].agent = a /\ turn[s].sess = c

Referred(k) ==
  \/ \E a \in Agents, c \in Slots : InUse(a, c) /\ obj[a][c].progress = k
  \/ \E s \in Slots : turn[s].record = k

Reachable ==
  <<sessions, first,
    [a \in Agents |-> [c \in Slots |-> IF InUse(a, c) THEN obj[a][c] ELSE NewSession]],
    [k \in 1 .. MaxAccepts |-> IF Referred(k) THEN lists[k] ELSE EmptyLists],
    accepts, turn>>
=============================================================================
