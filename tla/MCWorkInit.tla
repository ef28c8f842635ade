------------------------------ MODULE MCWorkInit ------------------------------
(***************************************************************************)
(* Instances of WorkInit: two agents of one work item; two inbox files     *)
(* with the same content; one indexed file below a folder that an          *)
(* approved memory says has no ADP left, although the prompt mentions it.  *)
(***************************************************************************)
EXTENDS WorkInit

MCContentOf == [f \in InboxFiles |-> "note"]

MCRefText == [r \in Refs |-> IF r = "swagger:1" THEN {"swagger"} ELSE {}]

MCAnchorsOf == [f \in IndexedFiles |-> {"src", "src/a"}]

MCSignals ==
  <<[anchor |-> "src/a", flag |-> "migration_adp_present", value |-> "false"]>>

MCTickets == {[bug |-> TRUE, labels |-> {}]}

MCAttachments == {<<"attachment:a">>}

MCMaxVerbs == [s \in Sessions |-> IF s = "s1" THEN 2 ELSE 1]
=============================================================================
