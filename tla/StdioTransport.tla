--------------------------- MODULE StdioTransport ---------------------------
(***************************************************************************)
(* The stdio transport of the gateway: newline-delimited JSON-RPC.  The    *)
(* client writes lines without waiting for answers, the pipe cuts them     *)
(* into chunks anywhere, and every chunk appends to lineBuffer and chains  *)
(* one more drainLines to drainChain.  A drain takes complete lines off    *)
(* the buffer until none is left; it waits for the runtime and for the     *)
(* turn of each tools/call before it takes the next line.                  *)
(*                                                                         *)
(* A line is its text and its newline, each a unit the pipe keeps whole;   *)
(* a message is abstracted to its form and to what its method leads to.    *)
(* A dashboard is not started (MCP_ENABLE_DASHBOARD is unset).             *)
(***************************************************************************)
EXTENDS Naturals, Sequences, FiniteSetsExt

CONSTANTS
  Messages,     \* what the client may send, a subset of MessageKinds
  MaxMessages   \* bound on the number of messages

VARIABLES
  sent,       \* the messages, in the order the client wrote them
  wire,       \* units written by the client and not yet received
  lineBuffer, \* units received and not yet taken
  drains,     \* the links of drainChain, one per chunk
  runtime,    \* the state of runtimePromise
  runtimes,   \* number of runtimes that were brought up
  out         \* the answers, in the order they were written

transportVars == <<sent, wire, lineBuffer, drains, runtime, runtimes, out>>

\* "plain" stands for the methods answered from constants, "unknown" for
\* methods and tools that do not exist, "call" for a turn.
MessageKinds ==
  [form : {"blank", "not json", "not rpc"}, method : {"none"}]
    \cup [form : {"request", "notification"}, method : {"plain", "unknown", "call"}]

ASSUME TransportAssumption == Messages \subseteq MessageKinds /\ MaxMessages \in Nat

Numbers == 1 .. MaxMessages

Units == [msg : Numbers, part : {"text", "newline"}]

\* A link of drainChain waits for the links before it, scans the buffer, waits
\* for the runtime or for the turn of message msg, and is done.
Drain == [pc : {"chained", "scanning", "bootstrap", "turn", "done"}, msg : Numbers \cup {0}]

Answers == [msg : Numbers, ok : BOOLEAN]

TransportTypeOK ==
  /\ sent \in Seq(Messages) /\ Len(sent) <= MaxMessages
  /\ wire \in Seq(Units) /\ lineBuffer \in Seq(Units)
  /\ drains \in Seq(Drain)
  /\ runtime \in {"none", "starting", "up"}
  /\ runtimes \in Nat
  /\ out \in Seq(Answers)

InitTransport ==
  /\ sent = <<>> /\ wire = <<>> /\ lineBuffer = <<>> /\ drains = <<>>
  /\ runtime = "none" /\ runtimes = 0 /\ out = <<>>

-----------------------------------------------------------------------------
(* The client and the pipe.                                                *)

LineOf(i) == <<[msg |-> i, part |-> "text"], [msg |-> i, part |-> "newline"]>>

ClientWrites(m) ==
  /\ Len(sent) < MaxMessages
  /\ sent' = Append(sent, m)
  /\ wire' = wire \o LineOf(Len(sent) + 1)
  /\ UNCHANGED <<lineBuffer, drains, runtime, runtimes, out>>

\* A chunk of n units arrives.
Data(n) ==
  /\ n \in 1 .. Len(wire)
  /\ lineBuffer' = lineBuffer \o SubSeq(wire, 1, n)
  /\ wire' = SubSeq(wire, n + 1, Len(wire))
  /\ drains' = Append(drains, [pc |-> "chained", msg |-> 0])
  /\ UNCHANGED <<sent, runtime, runtimes, out>>

-----------------------------------------------------------------------------
(* drainLines.                                                             *)

Goto(d, pc, i) == drains' = [drains EXCEPT ![d] = [pc |-> pc, msg |-> i]]

\* writeResponse, for a message that has an answer.
Respond(i, ok) ==
  out' = IF sent[i].form = "notification" THEN out ELSE Append(out, [msg |-> i, ok |-> ok])

\* Mutant: a chunk is drained without waiting for the chain.
DrainStartsUnchained(d) ==
  /\ drains[d].pc = "chained"
  /\ Goto(d, "scanning", 0)
  /\ UNCHANGED <<sent, wire, lineBuffer, runtime, runtimes, out>>

\* A link of the chain starts when all before it are done.
DrainStarts(d) ==
  /\ drains[d].pc = "chained"
  /\ \A c \in 1 .. d - 1 : drains[c].pc = "done"
  /\ Goto(d, "scanning", 0)
  /\ UNCHANGED <<sent, wire, lineBuffer, runtime, runtimes, out>>

Newlines == {k \in DOMAIN lineBuffer : lineBuffer[k].part = "newline"}

\* Mutant: an incomplete line does not stay in the buffer.
DrainEndsClearing(d) ==
  /\ drains[d].pc = "scanning"
  /\ Newlines = {}
  /\ lineBuffer' = <<>>
  /\ Goto(d, "done", 0)
  /\ UNCHANGED <<sent, wire, runtime, runtimes, out>>

DrainEnds(d) ==
  /\ drains[d].pc = "scanning"
  /\ Newlines = {}
  /\ Goto(d, "done", 0)
  /\ UNCHANGED <<sent, wire, lineBuffer, runtime, runtimes, out>>

\* What the first line of the buffer is parsed to: a line that is not exactly
\* the text of one message is not JSON.
Form(line) ==
  IF line = <<>> THEN "blank"
  ELSE IF Len(line) > 1 THEN "not json"
  ELSE sent[line[1].msg].form

\* The message the first line belongs to.
FirstMessage == lineBuffer[1].msg

FirstLine == SubSeq(lineBuffer, 1, Min(Newlines) - 1)

\* The first line leaves the buffer.
TakesLine(d) ==
  /\ drains[d].pc = "scanning"
  /\ Newlines # {}
  /\ lineBuffer' = SubSeq(lineBuffer, Min(Newlines) + 1, Len(lineBuffer))
  /\ UNCHANGED <<sent, wire>>

SkipBlank(d) ==
  /\ TakesLine(d)
  /\ Form(FirstLine) = "blank"
  /\ UNCHANGED <<drains, runtime, runtimes, out>>

RefuseLine(d) ==
  /\ TakesLine(d)
  /\ Form(FirstLine) \in {"not json", "not rpc"}
  /\ Respond(FirstMessage, FALSE)
  /\ UNCHANGED <<drains, runtime, runtimes>>

\* A method that is answered, or refused, without waiting.
DispatchPlain(d) ==
  /\ TakesLine(d)
  /\ Form(FirstLine) \in {"request", "notification"}
  /\ sent[FirstMessage].method # "call"
  /\ Respond(FirstMessage, sent[FirstMessage].method = "plain")
  /\ UNCHANGED <<drains, runtime, runtimes>>

\* Mutant: ensureRuntime does not keep the runtime.
DispatchCallUncached(d) ==
  /\ TakesLine(d)
  /\ Form(FirstLine) \in {"request", "notification"}
  /\ sent[FirstMessage].method = "call"
  /\ runtime' = "starting"
  /\ Goto(d, "bootstrap", FirstMessage)
  /\ UNCHANGED <<runtimes, out>>

\* tools/call: ensureRuntime starts the runtime unless there is one, or one
\* is starting.
DispatchCall(d) ==
  /\ TakesLine(d)
  /\ Form(FirstLine) \in {"request", "notification"}
  /\ sent[FirstMessage].method = "call"
  /\ runtime' = IF runtime = "none" THEN "starting" ELSE runtime
  /\ Goto(d, IF runtime = "up" THEN "turn" ELSE "bootstrap", FirstMessage)
  /\ UNCHANGED <<runtimes, out>>

\* bootstrapRuntime resolves: whoever waits for it begins its turn.
BootstrapSucceeds ==
  /\ runtime = "starting"
  /\ runtime' = "up"
  /\ runtimes' = runtimes + 1
  /\ drains' = [d \in DOMAIN drains |->
       IF drains[d].pc = "bootstrap" THEN [drains[d] EXCEPT !.pc = "turn"] ELSE drains[d]]
  /\ UNCHANGED <<sent, wire, lineBuffer, out>>

\* Mutant: the rejected promise is kept.
BootstrapFailsCached(d) ==
  /\ runtime = "starting"
  /\ drains[d].pc = "bootstrap"
  /\ runtime' = "rejected"
  /\ Respond(drains[d].msg, FALSE)
  /\ Goto(d, "scanning", 0)
  /\ UNCHANGED <<sent, wire, lineBuffer, runtimes>>

\* bootstrapRuntime rejects: the promise is dropped and the call is answered
\* with the error.
BootstrapFails(d) ==
  /\ runtime = "starting"
  /\ drains[d].pc = "bootstrap"
  /\ runtime' = "none"
  /\ Respond(drains[d].msg, FALSE)
  /\ Goto(d, "scanning", 0)
  /\ UNCHANGED <<sent, wire, lineBuffer, runtimes>>

\* The turn returns or throws (a call without a verb throws at once).
TurnEnds(d) ==
  /\ drains[d].pc = "turn"
  /\ \E ok \in BOOLEAN : Respond(drains[d].msg, ok)
  /\ Goto(d, "scanning", 0)
  /\ UNCHANGED <<sent, wire, lineBuffer, runtime, runtimes>>

-----------------------------------------------------------------------------
DrainStep(d) ==
  \/ DrainStarts(d) \/ DrainEnds(d)
  \/ SkipBlank(d) \/ RefuseLine(d) \/ DispatchPlain(d) \/ DispatchCall(d)
  \/ BootstrapFails(d)

PipeStep ==
  \/ \E m \in Messages : ClientWrites(m)
  \/ \E n \in 1 .. Len(wire) : Data(n)

-----------------------------------------------------------------------------
(* Properties.                                                             *)

DeservesAnswer(m) == m.form \notin {"blank", "notification"}

IsAnswered(i) == \E k \in DOMAIN out : out[k].msg = i

\* However the pipe cuts the lines and whatever a drain waits for, every
\* message is answered at most once, in the order of sending and without
\* leaving one out, and nothing else is answered (drainLines, drainChain).
AnswersInOrder ==
  /\ \A j, k \in DOMAIN out : j < k => out[j].msg < out[k].msg
  /\ \A k \in DOMAIN out : out[k].msg <= Len(sent) /\ DeservesAnswer(sent[out[k].msg])
  /\ \A k \in DOMAIN out : \A i \in 1 .. out[k].msg : DeservesAnswer(sent[i]) => IsAnswered(i)

\* Once every chunk is received and every drain is done, every message is
\* answered and nothing is left in the buffer.
NothingForgotten ==
  (wire = <<>> /\ \A d \in DOMAIN drains : drains[d].pc = "done")
    => /\ lineBuffer = <<>>
       /\ \A i \in 1 .. Len(sent) : DeservesAnswer(sent[i]) => IsAnswered(i)

\* Turns never overlap on this transport: the one-slot instance of the turn
\* controller is the stdio gateway.
OneTurnAtATime ==
  \A c, d \in DOMAIN drains :
    drains[c].pc \in {"bootstrap", "turn"} /\ drains[d].pc \in {"bootstrap", "turn"} => c = d

\* The gateway never has a second runtime, whose sessions would start empty,
\* however often the bootstrap failed before it succeeded (ensureRuntime).
OneRuntime == runtimes <= 1
=============================================================================
