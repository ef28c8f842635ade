----------------------------- MODULE MCMutations -----------------------------
(***************************************************************************)
(* An instance of Mutations: plan p1 changes one file twice; plan p2       *)
(* changes it under another spelling, as node n1 too, and has a side       *)
(* effect.  Symbol x is also given with white space around it (xBlank).    *)
(***************************************************************************)
EXTENDS Mutations, TLC

CONSTANTS p1, p2, n1, n2, a, alias, x, xBlank, g, e

MCKind ==
  (p1 :> (n1 :> "change" @@ n2 :> "change"))
    @@ (p2 :> (n1 :> "change" @@ n2 :> "side_effect"))

MCTarget == (p1 :> (n1 :> a @@ n2 :> a)) @@ (p2 :> (n1 :> alias @@ n2 :> a))

MCTargetSymbols == [p \in Plans |-> [n \in Nodes |-> Symbols]]

MCGates == (p1 :> {}) @@ (p2 :> {e})

MCFileOf == [name \in Names |-> "f"]

MCTrimmed == [t \in Effects |-> IF t = xBlank THEN x ELSE t]

MCDeclared == {{x}, {xBlank, g, e}}

SlotSymmetry == Permutations(Slots)
=============================================================================
