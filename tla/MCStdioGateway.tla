--------------------------- MODULE MCStdioGateway ---------------------------
(***************************************************************************)
(* Instances of the stdio gateway for TLC.                                 *)
(***************************************************************************)
EXTENDS StdioGateway

\* Every form of line, and turns with and without an answer.
MCMessages ==
  {[form |-> "blank", method |-> "none"],
   [form |-> "not json", method |-> "none"],
   [form |-> "request", method |-> "plain"],
   [form |-> "notification", method |-> "call"],
   [form |-> "request", method |-> "call"]}

\* Turns only.
MCCalls == {[form |-> "request", method |-> "call"]}
=============================================================================
