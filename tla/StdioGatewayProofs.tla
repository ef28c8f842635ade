------------------------- MODULE StdioGatewayProofs -------------------------
(***************************************************************************)
(* Proofs about the stdio gateway, for any number of messages, any chunks  *)
(* and any code runs.  TransportInv is about the chain of drains and the   *)
(* runtime: turns never overlap, there is never a second runtime.  RunInv  *)
(* is about single code runs: a settled one has no armed timer.  QueueInv  *)
(* is about the messages: with t of them taken off the buffer, the buffer  *)
(* and the wire hold the units of the others in order, and the first t, or *)
(* all of them but the call in flight, are answered.                       *)
(***************************************************************************)
EXTENDS StdioGateway, WellFoundedInduction, TLAPS

\* A link of drainChain that left "chained" has only finished links before it.
Chained ==
  \A c, d \in DOMAIN drains : c < d => drains[c].pc = "done" \/ drains[d].pc = "chained"

\* A drain that waits for the runtime or a turn knows its message.
DrainHasMessage ==
  \A d \in DOMAIN drains : drains[d].pc \in {"bootstrap", "turn"} => drains[d].msg \in Numbers

\* A runtime is counted exactly when it is up.
Counted == runtimes = (IF runtime = "up" THEN 1 ELSE 0)

TransportInv == TransportTypeOK /\ DrainHasMessage /\ Chained /\ Counted

-----------------------------------------------------------------------------
(* Links of the chain.                                                     *)

\* Moving the one link that is not chained or done keeps the chain; only the
\* first link that is not done may leave "chained".
LEMMA GotoKeeps ==
  ASSUME TransportInv, NEW d \in DOMAIN drains, NEW pc, NEW i \in Numbers \cup {0},
         pc \in {"scanning", "bootstrap", "turn", "done"},
         pc \in {"bootstrap", "turn"} => i \in Numbers,
         \A c \in DOMAIN drains : c < d => drains[c].pc = "done",
         \A c \in DOMAIN drains : d < c => drains[c].pc = "chained",
         Goto(d, pc, i)
  PROVE  drains' \in Seq(Drain) /\ DrainHasMessage' /\ Chained'
<1>. DEFINE link == [pc |-> pc, msg |-> i]
<1>1. drains \in Seq(Drain) BY DEF TransportInv, TransportTypeOK
<1>2. link \in Drain BY DEF Drain
<1>. HIDE DEF link
<1>3. /\ drains' = [drains EXCEPT ![d] = link]
      /\ drains' \in Seq(Drain) /\ DOMAIN drains' = DOMAIN drains
  BY <1>1, <1>2 DEF Goto, link
<1>4. \A c \in DOMAIN drains : drains'[c] = IF c = d THEN link ELSE drains[c]
  BY <1>1, <1>3
<1>5. link.pc = pc /\ link.msg = i BY DEF link
<1>6. DrainHasMessage'
  BY <1>3, <1>4, <1>5 DEF TransportInv, DrainHasMessage, Numbers
<1>7. Chained'
  <2>. SUFFICES ASSUME NEW b \in DOMAIN drains, NEW c \in DOMAIN drains, b < c
       PROVE  drains'[b].pc = "done" \/ drains'[c].pc = "chained"
    BY <1>3 DEF Chained
  <2>1. CASE b = d BY <2>1, <1>4, <1>1
  <2>2. CASE c = d BY <2>2, <1>4, <1>1
  <2>3. CASE b # d /\ c # d BY <2>3, <1>4 DEF TransportInv, Chained
  <2>. QED BY <2>1, <2>2, <2>3
<1>. QED BY <1>3, <1>6, <1>7

\* The links around one that is neither chained nor done.
LEMMA Around ==
  ASSUME TransportInv, NEW d \in DOMAIN drains,
         drains[d].pc \notin {"chained", "done"}
  PROVE  /\ \A c \in DOMAIN drains : c < d => drains[c].pc = "done"
         /\ \A c \in DOMAIN drains : d < c => drains[c].pc = "chained"
BY DEF TransportInv, Chained

\* A set of naturals has a least element.
LEMMA LeastElement ==
  ASSUME NEW S, S \subseteq Nat, S # {}
  PROVE  Min(S) \in S /\ \A y \in S : Min(S) <= y
<1>1. PICK x \in S : \A y \in S : <<y, x>> \notin OpToRel(<, Nat)
  BY WFMin, NatLessThanWellFounded, Zenon
<1>2. \A y \in S : ~ (y < x)
  BY <1>1 DEF OpToRel
<1>3. \A y \in S : x =< y
  BY <1>2
<1>. QED BY <1>3 DEF Min

\* A response is an answer with the message's number.
LEMMA RespondType ==
  ASSUME TransportTypeOK, NEW i \in Numbers, NEW ok \in BOOLEAN, Respond(i, ok)
  PROVE  out' \in Seq(Answers)
<1>1. [msg |-> i, ok |-> ok] \in Answers BY DEF Answers
<1>. QED BY <1>1 DEF TransportTypeOK, Respond

\* Taking the first line leaves a buffer of units, and its message is one.
LEMMA TakesLineType ==
  ASSUME TransportTypeOK, NEW d, TakesLine(d)
  PROVE  /\ lineBuffer' \in Seq(Units)
         /\ FirstMessage \in Numbers
<1>1. PICK k \in DOMAIN lineBuffer : lineBuffer[k].part = "newline"
  BY DEF TakesLine, Newlines
<1>2. lineBuffer \in Seq(Units) /\ Len(lineBuffer) \in Nat /\ 1 \in DOMAIN lineBuffer
  BY <1>1 DEF TransportTypeOK
<1>3. lineBuffer[1] \in Units BY <1>2
<1>4. \A m \in Newlines : m \in Nat BY <1>2 DEF Newlines
<1>5. Min(Newlines) \in Newlines
  BY <1>1, <1>4, LeastElement DEF Newlines
<1>6. SubSeq(lineBuffer, Min(Newlines) + 1, Len(lineBuffer)) \in Seq(Units)
  BY <1>2, <1>4, <1>5
<1>. QED BY <1>3, <1>6 DEF TakesLine, FirstMessage, Units

-----------------------------------------------------------------------------
(* Every action keeps TransportInv.                                        *)

LEMMA PipeKeeps ==
  ASSUME TransportInv, PipeStep
  PROVE  TransportInv'
<1>. USE TransportAssumption
<1>1. TransportTypeOK BY DEF TransportInv
<1>2. CASE \E m \in Messages : ClientWrites(m)
  <2>1. PICK m \in Messages : ClientWrites(m) BY <1>2
  <2>2. Len(sent) + 1 \in Numbers BY <1>1, <2>1 DEF TransportTypeOK, ClientWrites, Numbers
  <2>3. LineOf(Len(sent) + 1) \in Seq(Units) BY <2>2 DEF LineOf, Units
  <2>4. TransportTypeOK' BY <1>1, <2>1, <2>3 DEF TransportTypeOK, ClientWrites
  <2>. QED BY <2>1, <2>4 DEF ClientWrites, TransportInv, DrainHasMessage, Chained, Counted
<1>3. CASE \E n \in 1 .. Len(wire) : Data(n)
  <2>. DEFINE link == [pc |-> "chained", msg |-> 0]
  <2>1. PICK n \in 1 .. Len(wire) : Data(n) BY <1>3
  <2>2. link \in Drain BY DEF Drain
  <2>3. link.pc = "chained" OBVIOUS
  <2>4. drains' = Append(drains, link) BY <2>1 DEF Data
  <2>. HIDE DEF link
  <2>5. /\ drains \in Seq(Drain) /\ drains' \in Seq(Drain)
        /\ DOMAIN drains' = DOMAIN drains \cup {Len(drains) + 1}
        /\ \A d \in DOMAIN drains : drains'[d] = drains[d] /\ d <= Len(drains)
        /\ drains'[Len(drains) + 1] = link
    BY <1>1, <2>2, <2>4 DEF TransportTypeOK
  <2>6. /\ SubSeq(wire, 1, n) \in Seq(Units)
        /\ SubSeq(wire, n + 1, Len(wire)) \in Seq(Units)
    BY <1>1 DEF TransportTypeOK
  <2>7. TransportTypeOK' BY <1>1, <2>1, <2>5, <2>6 DEF TransportTypeOK, Data
  <2>8. DrainHasMessage' BY <2>3, <2>5 DEF DrainHasMessage, TransportInv
  <2>9. Chained'
    <3>. SUFFICES ASSUME NEW b \in DOMAIN drains', NEW c \in DOMAIN drains', b < c
         PROVE  drains'[b].pc = "done" \/ drains'[c].pc = "chained"
      BY DEF Chained
    <3>1. CASE c = Len(drains) + 1 BY <3>1, <2>3, <2>5
    <3>2. CASE c \in DOMAIN drains
      <4>1. b \in DOMAIN drains BY <3>2, <2>5
      <4>. QED BY <3>2, <4>1, <2>5 DEF TransportInv, Chained
    <3>. QED BY <3>1, <3>2, <2>5
  <2>. QED BY <2>1, <2>7, <2>8, <2>9 DEF TransportInv, Counted, Data
<1>. QED BY <1>2, <1>3 DEF PipeStep

LEMMA BootstrapKeeps ==
  ASSUME TransportInv, BootstrapSucceeds
  PROVE  TransportInv'
<1>1. TransportTypeOK BY DEF TransportInv
<1>2. /\ DOMAIN drains' = DOMAIN drains
      /\ \A d \in DOMAIN drains :
           drains'[d] = IF drains[d].pc = "bootstrap"
                          THEN [drains[d] EXCEPT !.pc = "turn"] ELSE drains[d]
  BY DEF BootstrapSucceeds
<1>3. \A d \in DOMAIN drains : drains[d] \in Drain
  BY <1>1 DEF TransportTypeOK
<1>4. \A d \in DOMAIN drains :
        /\ drains'[d] \in Drain
        /\ drains'[d].msg = drains[d].msg
        /\ drains'[d].pc = IF drains[d].pc = "bootstrap" THEN "turn" ELSE drains[d].pc
  BY <1>2, <1>3 DEF Drain
<1>5. drains' \in Seq(Drain)
  <2>1. DOMAIN drains = 1 .. Len(drains) /\ Len(drains) \in Nat
    BY <1>1 DEF TransportTypeOK
  <2>2. drains' \in [1 .. Len(drains) -> Drain]
    BY <1>2, <1>4, <2>1 DEF BootstrapSucceeds
  <2>. QED BY <2>1, <2>2
<1>6. TransportTypeOK' BY <1>1, <1>5 DEF TransportTypeOK, BootstrapSucceeds
<1>7. DrainHasMessage' BY <1>2, <1>4 DEF TransportInv, DrainHasMessage
<1>8. Chained' BY <1>2, <1>4 DEF TransportInv, Chained
<1>9. Counted' BY <1>1 DEF TransportInv, Counted, BootstrapSucceeds, TransportTypeOK
<1>. QED BY <1>6, <1>7, <1>8, <1>9 DEF TransportInv

\* Drains that stay where they are.
LEMMA RefusalKeeps ==
  ASSUME TransportInv, NEW d \in DOMAIN drains,
         SkipBlank(d) \/ RefuseLine(d) \/ DispatchPlain(d)
  PROVE  TransportInv'
<1>1. TransportTypeOK BY DEF TransportInv
<1>2. TakesLine(d) BY DEF SkipBlank, RefuseLine, DispatchPlain
<1>3. lineBuffer' \in Seq(Units) /\ FirstMessage \in Numbers BY <1>1, <1>2, TakesLineType
<1>4. out' \in Seq(Answers)
  <2>1. CASE SkipBlank(d) BY <2>1, <1>1 DEF SkipBlank, TransportTypeOK
  <2>2. CASE RefuseLine(d) BY <2>2, <1>1, <1>3, RespondType DEF RefuseLine
  <2>3. CASE DispatchPlain(d)
    BY <2>3, <1>1, <1>3, RespondType DEF DispatchPlain
  <2>. QED BY <2>1, <2>2, <2>3
<1>5. UNCHANGED <<sent, wire, drains, runtime, runtimes>>
  BY DEF SkipBlank, RefuseLine, DispatchPlain, TakesLine
<1>6. TransportTypeOK' BY <1>1, <1>3, <1>4, <1>5 DEF TransportTypeOK
<1>. QED BY <1>5, <1>6 DEF TransportInv, DrainHasMessage, Chained, Counted

LEMMA DrainKeeps ==
  ASSUME TransportInv, NEW d \in DOMAIN drains, DrainStep(d)
  PROVE  TransportInv'
<1>1. TransportTypeOK BY DEF TransportInv
<1>2. CASE DrainStarts(d)
  <2>1. \A c \in DOMAIN drains : c < d => drains[c].pc = "done"
    BY <1>1, <1>2 DEF DrainStarts, TransportTypeOK
  <2>2. \A c \in DOMAIN drains : d < c => drains[c].pc = "chained"
    BY <1>2 DEF DrainStarts, TransportInv, Chained
  <2>3. drains' \in Seq(Drain) /\ DrainHasMessage' /\ Chained'
    BY <1>2, <2>1, <2>2, GotoKeeps DEF DrainStarts
  <2>. QED BY <1>1, <1>2, <2>3 DEF TransportInv, TransportTypeOK, Counted, DrainStarts
<1>3. CASE DrainEnds(d)
  <2>1. drains' \in Seq(Drain) /\ DrainHasMessage' /\ Chained'
    BY <1>3, Around, GotoKeeps DEF DrainEnds
  <2>. QED BY <1>1, <1>3, <2>1 DEF TransportInv, TransportTypeOK, Counted, DrainEnds
<1>4. CASE DispatchCall(d)
  <2>1. lineBuffer' \in Seq(Units) /\ FirstMessage \in Numbers
    BY <1>1, <1>4, TakesLineType DEF DispatchCall
  <2>2. drains[d].pc = "scanning" BY <1>4 DEF DispatchCall, TakesLine
  <2>3. PICK pc \in {"turn", "bootstrap"} : Goto(d, pc, FirstMessage)
    BY <1>4 DEF DispatchCall
  <2>4. drains' \in Seq(Drain) /\ DrainHasMessage' /\ Chained'
    BY <2>1, <2>2, <2>3, Around, GotoKeeps
  <2>. QED BY <1>1, <1>4, <2>1, <2>4
       DEF TransportInv, TransportTypeOK, Counted, DispatchCall, TakesLine
<1>5. CASE BootstrapFails(d)
  <2>1. drains[d].msg \in Numbers BY <1>5 DEF BootstrapFails, TransportInv, DrainHasMessage
  <2>2. out' \in Seq(Answers) BY <1>1, <1>5, <2>1, RespondType DEF BootstrapFails
  <2>3. drains' \in Seq(Drain) /\ DrainHasMessage' /\ Chained'
    BY <1>5, Around, GotoKeeps DEF BootstrapFails
  <2>. QED BY <1>1, <1>5, <2>2, <2>3
       DEF TransportInv, TransportTypeOK, Counted, BootstrapFails
<1>. QED BY <1>2, <1>3, <1>4, <1>5, RefusalKeeps DEF DrainStep

LEMMA TurnKeeps ==
  ASSUME TransportInv, NEW d \in DOMAIN drains, TurnEnds(d)
  PROVE  TransportInv'
<1>1. TransportTypeOK BY DEF TransportInv
<1>2. drains[d].msg \in Numbers BY DEF TurnEnds, TransportInv, DrainHasMessage
<1>3. out' \in Seq(Answers) BY <1>1, <1>2, RespondType DEF TurnEnds
<1>4. drains' \in Seq(Drain) /\ DrainHasMessage' /\ Chained'
  BY Around, GotoKeeps DEF TurnEnds
<1>. QED BY <1>1, <1>3, <1>4 DEF TransportInv, TransportTypeOK, Counted, TurnEnds

-----------------------------------------------------------------------------
(* Theorems.                                                               *)

\* The invariant of the transport: types, the order of the chain, and the
\* count of runtimes (drainChain, ensureRuntime).
THEOREM TransportCorrect == Spec => []TransportInv
<1>1. Init => TransportInv
  <2>1. Init => TransportTypeOK
    BY TransportAssumption DEF Init, InitTransport, TransportTypeOK
  <2>2. Init => DOMAIN drains = {} /\ Counted BY DEF Init, InitTransport, Counted
  <2>. QED BY <2>1, <2>2 DEF TransportInv, DrainHasMessage, Chained
<1>2. TransportInv /\ [Next]_vars => TransportInv'
  <2>. SUFFICES ASSUME TransportInv, [Next]_vars PROVE TransportInv' OBVIOUS
  <2>1. CASE UNCHANGED transportVars
    BY <2>1 DEF transportVars, TransportInv, TransportTypeOK, DrainHasMessage, Chained, Counted
  <2>2. CASE PipeStep BY <2>2, PipeKeeps
  <2>3. CASE BootstrapSucceeds BY <2>3, BootstrapKeeps
  <2>4. CASE \E d \in DOMAIN drains : DrainStep(d) BY <2>4, DrainKeeps
  <2>5. CASE \E d \in DOMAIN drains : TurnEnds(d) BY <2>5, TurnKeeps
  <2>. QED BY <2>1, <2>2, <2>3, <2>4, <2>5
       DEF Next, vars, transportVars, TurnRunsCode, GatewayTurnEnds
<1>. QED BY <1>1, <1>2, PTL DEF Spec

\* Turns never overlap on stdio, so the one-slot instances of the turn
\* controller are those of this transport (drainChain).
THEOREM TurnsNeverOverlap == Spec => []OneTurnAtATime
<1>1. TransportInv => OneTurnAtATime
  <2>. SUFFICES ASSUME TransportInv, NEW c \in DOMAIN drains, NEW d \in DOMAIN drains,
                drains[c].pc \in {"bootstrap", "turn"},
                drains[d].pc \in {"bootstrap", "turn"}
       PROVE  c = d
    BY DEF OneTurnAtATime
  <2>1. c \in Nat /\ d \in Nat BY DEF TransportInv, TransportTypeOK
  <2>2. ~ (c < d) /\ ~ (d < c) BY DEF TransportInv, Chained
  <2>. QED BY <2>1, <2>2
<1>. QED BY <1>1, TransportCorrect, PTL

\* There is never a second runtime, however often the bootstrap fails
\* (ensureRuntime).
THEOREM RuntimeUnique == Spec => []OneRuntime
<1>1. TransportInv => OneRuntime BY DEF TransportInv, Counted, OneRuntime
<1>. QED BY <1>1, TransportCorrect, PTL

-----------------------------------------------------------------------------
(* Code runs.                                                              *)

\* What the handlers of the worker's events leave of a run.
LEMMA HandledRun ==
  ASSUME NEW o \in Worker!Run, NEW event \in Worker!Events
  PROVE  LET h == Worker!Handled(o, event)
         IN  /\ h \in Worker!Run
             /\ h.timer # "armed"
<1>1. PICK c : c = Worker!ClearTimeout(o) OBVIOUS
<1>2. c \in Worker!Run /\ c.timer # "armed"
  BY <1>1 DEF Worker!ClearTimeout, Worker!Run
<1>3. PICK t : t = Worker!Terminate(c) OBVIOUS
<1>4. t \in Worker!Run /\ t.timer # "armed"
  BY <1>2, <1>3 DEF Worker!Terminate, Worker!Run, Worker!WorkerStates
<1>5. ASSUME NEW x \in {c, t}, NEW outcome \in {"resolved", "rejected"}
      PROVE  LET h == Worker!Settle(x, outcome)
             IN  h \in Worker!Run /\ h.timer # "armed"
  BY <1>2, <1>4 DEF Worker!Settle, Worker!Run, Worker!Promises
<1>6. Worker!Handled(o, event) \in
        {c, Worker!Settle(c, "rejected"), Worker!Settle(t, "resolved"), Worker!Settle(t, "rejected")}
  BY <1>1, <1>3 DEF Worker!Handled, Worker!Events
<1>. QED BY <1>2, <1>5, <1>6

\* What the firing of the timer leaves of a run.
LEMMA FiredRun ==
  ASSUME NEW o \in Worker!Run
  PROVE  LET h == Worker!Settle(Worker!Terminate([o EXCEPT !.timer = "fired"]), "timed out")
         IN  /\ h \in Worker!Run
             /\ h.timer = "fired"
<1>1. PICK f : f = [o EXCEPT !.timer = "fired"] OBVIOUS
<1>2. f \in Worker!Run /\ f.timer = "fired"
  BY <1>1 DEF Worker!Run
<1>3. PICK t : t = Worker!Terminate(f) OBVIOUS
<1>4. t \in Worker!Run /\ t.timer = "fired"
  BY <1>2, <1>3 DEF Worker!Terminate, Worker!Run, Worker!WorkerStates
<1>5. PICK h : h = Worker!Settle(t, "timed out") OBVIOUS
<1>6. h \in Worker!Run /\ h.timer = "fired"
  BY <1>4, <1>5 DEF Worker!Settle, Worker!Run, Worker!Promises
<1>. QED BY <1>1, <1>3, <1>5, <1>6

SettledReleased(o) == o.promise \notin {"none", "pending"} => o.timer # "armed"

RunSound(o) == o \in Worker!Run /\ SettledReleased(o)

RunInv == Worker!RunTypeOK /\ \A r \in RunMessages : RunSound(run[r])

\* Only run r changes, to o.
LEMMA RunChanges ==
  ASSUME RunInv, NEW r \in RunMessages, NEW o, RunSound(o), run' = [run EXCEPT ![r] = o]
  PROVE  RunInv'
BY DEF RunInv, RunSound, Worker!RunTypeOK

LEMMA WorkerMovesKeeps ==
  ASSUME RunInv, NEW r \in RunMessages, NEW from, NEW to \in Worker!WorkerStates,
         NEW events \in Seq(Worker!Events), Worker!WorkerMoves(r, from, to, events)
  PROVE  RunInv'
<1>. DEFINE o == [run[r] EXCEPT !.worker = to, !.inbox = run[r].inbox \o events]
<1>1. run[r] \in Worker!Run /\ RunSound(run[r]) BY DEF RunInv, Worker!RunTypeOK
<1>2. run[r].inbox \o events \in Seq(Worker!Events)
  <2>1. run[r].inbox \in Seq(Worker!Events) BY <1>1 DEF Worker!Run
  <2>. QED BY <2>1
<1>3. o \in Worker!Run BY <1>1, <1>2 DEF Worker!Run
<1>4. o.promise = run[r].promise /\ o.timer = run[r].timer
  BY <1>1 DEF Worker!Run
<1>5. RunSound(o)
  <2>. HIDE DEF o
  <2>. QED BY <1>1, <1>3, <1>4 DEF RunSound, SettledReleased
<1>6. run' = [run EXCEPT ![r] = o] BY DEF Worker!WorkerMoves
<1>. HIDE DEF o
<1>. QED BY <1>5, <1>6, RunChanges

LEMMA WorkerKeeps ==
  ASSUME RunInv, NEW r \in RunMessages, Worker!WorkerStep(r)
  PROVE  RunInv'
<1>1. run[r] \in Worker!Run /\ RunSound(run[r]) BY DEF RunInv, Worker!RunTypeOK
<1>2. Grace \in Nat /\ MaxDelay \in Nat /\ MaxAge \in Nat /\ Timeouts \subseteq Nat
  BY GatewayAssumption DEF Worker!WorkerConstants
<1>3. run[r].timeoutMs \in Nat /\ run[r].age \in Nat
  <2>1. run[r].timeoutMs \in Timeouts \cup {0} /\ run[r].age \in 0 .. MaxAge
    BY <1>1 DEF Worker!Run
  <2>2. PICK t \in Timeouts \cup {0}, age \in 0 .. MaxAge : t = run[r].timeoutMs /\ age = run[r].age
    BY <2>1
  <2>. QED BY <1>2, <2>2
<1>4. CASE Worker!Deliver(r)
  <2>1. PICK o : o = [run[r] EXCEPT !.inbox = Tail(run[r].inbox)] OBVIOUS
  <2>2. /\ run[r].inbox \in Seq(Worker!Events) /\ run[r].inbox # <<>>
    BY <1>1, <1>4 DEF Worker!Deliver, Worker!Run
  <2>3. Tail(run[r].inbox) \in Seq(Worker!Events) /\ Head(run[r].inbox) \in Worker!Events
    BY <2>2
  <2>4. o \in Worker!Run
    BY <1>1, <2>1, <2>3 DEF Worker!Run
  <2>5. PICK h : h = Worker!Handled(o, Head(run[r].inbox)) OBVIOUS
  <2>6. h \in Worker!Run /\ h.timer # "armed"
    BY <2>3, <2>4, <2>5, HandledRun
  <2>7. RunSound(h) BY <2>6 DEF RunSound, SettledReleased
  <2>8. run' = [run EXCEPT ![r] = h] BY <1>4, <2>1, <2>5 DEF Worker!Deliver
  <2>. QED BY <2>7, <2>8, RunChanges
<1>5. CASE Worker!TimerFires(r)
  <2>1. PICK h : h = Worker!Settle(Worker!Terminate([run[r] EXCEPT !.timer = "fired"]), "timed out")
    OBVIOUS
  <2>2. h \in Worker!Run /\ h.timer = "fired"
    BY <1>1, <2>1, FiredRun
  <2>3. RunSound(h) BY <2>2 DEF RunSound, SettledReleased
  <2>4. run' = [run EXCEPT ![r] = h] BY <1>5, <2>1 DEF Worker!TimerFires
  <2>. QED BY <2>3, <2>4, RunChanges
<1>6. CASE Worker!Tick(r)
  <2>1. PICK o : o = [run[r] EXCEPT !.age = run[r].age + 1] OBVIOUS
  <2>2. run[r].timer = "armed" /\ run[r].age + 1 \in 0 .. MaxAge
    BY <1>2, <1>3, <1>6 DEF Worker!Tick
  <2>3. /\ o \in Worker!Run /\ o.promise = run[r].promise /\ o.timer = run[r].timer
    BY <1>1, <2>1, <2>2 DEF Worker!Run
  <2>4. RunSound(o) BY <1>1, <2>2, <2>3 DEF RunSound, SettledReleased
  <2>5. run' = [run EXCEPT ![r] = o] BY <1>6, <2>1 DEF Worker!Tick
  <2>. QED BY <2>4, <2>5, RunChanges
<1>7. CASE \/ Worker!WorkerPosts(r) \/ Worker!WorkerFails(r) \/ Worker!WorkerDies(r)
           \/ Worker!WorkerEnds(r) \/ Worker!WorkerTerminates(r)
  <2>1. /\ \A e \in Worker!Events : <<e>> \in Seq(Worker!Events)
        /\ <<"error", "exit 1">> \in Seq(Worker!Events)
        /\ \A e \in {"value", "failure", "exit 0", "exit 1"} : e \in Worker!Events
    BY DEF Worker!Events
  <2>2. \E from, to \in Worker!WorkerStates, events \in Seq(Worker!Events) :
          Worker!WorkerMoves(r, from, to, events)
    BY <1>7, <2>1 DEF Worker!WorkerPosts, Worker!WorkerFails, Worker!WorkerDies,
       Worker!WorkerEnds, Worker!WorkerTerminates, Worker!WorkerStates
  <2>. QED BY <2>2, WorkerMovesKeeps
<1>. QED BY <1>4, <1>5, <1>6, <1>7 DEF Worker!WorkerStep

LEMMA StartRunKeeps ==
  ASSUME RunInv, NEW r \in RunMessages, Worker!StartRun(r)
  PROVE  RunInv'
<1>1. PICK t \in Timeouts : run' = [run EXCEPT ![r] = Worker!Started(t)]
  BY DEF Worker!StartRun
<1>2. PICK o : o = Worker!Started(t) OBVIOUS
<1>3. MaxAge \in Nat BY GatewayAssumption DEF Worker!WorkerConstants
<1>4. o = [worker |-> "working", inbox |-> <<>>, timer |-> "armed", timeoutMs |-> t,
           age |-> 0, promise |-> "pending"]
  BY <1>2 DEF Worker!Started, Worker!NoRun
<1>5. o \in Worker!Run /\ o.promise = "pending"
  <2>1. <<>> \in Seq(Worker!Events) OBVIOUS
  <2>. QED BY <1>3, <1>4, <2>1 DEF Worker!Run, Worker!WorkerStates, Worker!Promises
<1>6. RunSound(o) BY <1>5 DEF RunSound, SettledReleased
<1>. QED BY <1>1, <1>2, <1>6, RunChanges

LEMMA RunsCorrect == Spec => []RunInv
<1>1. Init => RunInv
  <2>. SUFFICES ASSUME Init PROVE RunInv
    OBVIOUS
  <2>1. MaxAge \in Nat BY GatewayAssumption DEF Worker!WorkerConstants
  <2>2. <<>> \in Seq(Worker!Events) OBVIOUS
  <2>3. Worker!NoRun \in Worker!Run /\ Worker!NoRun.promise = "none"
    BY <2>1, <2>2 DEF Worker!Run, Worker!NoRun, Worker!WorkerStates, Worker!Promises
  <2>4. RunSound(Worker!NoRun) BY <2>3 DEF RunSound, SettledReleased
  <2>. QED BY <2>3, <2>4 DEF Init, Worker!InitRun, RunInv, Worker!RunTypeOK
<1>2. RunInv /\ [Next]_vars => RunInv'
  <2>. SUFFICES ASSUME RunInv, [Next]_vars PROVE RunInv'
    OBVIOUS
  <2>1. CASE UNCHANGED run
    BY <2>1 DEF RunInv, RunSound, SettledReleased, Worker!RunTypeOK
  <2>2. CASE \E r \in RunMessages : Worker!WorkerStep(r) BY <2>2, WorkerKeeps
  <2>3. CASE \E d \in DOMAIN drains : TurnRunsCode(d) BY <2>3, StartRunKeeps DEF TurnRunsCode
  <2>. QED BY <2>1, <2>2, <2>3 DEF Next, vars, GatewayTurnEnds
<1>. QED BY <1>1, <1>2, PTL DEF Spec

\* The transport and the code runs keep their types.
THEOREM GatewayTyped == Spec => []TypeOK
<1>1. TransportInv /\ RunInv => TypeOK BY DEF TransportInv, RunInv, TypeOK
<1>. QED BY <1>1, TransportCorrect, RunsCorrect, PTL

\* The timer of a settled run cannot fire, whichever event settled it.
THEOREM TimersReleased == Spec => []TimerReleased
<1>1. RunInv => TimerReleased
  BY DEF RunInv, RunSound, SettledReleased, TimerReleased, Worker!Settled
<1>. QED BY <1>1, RunsCorrect, PTL

-----------------------------------------------------------------------------
(* The queue of messages.                                                  *)

\* The unit at position j of everything the client wrote: its lines are in
\* the order of sending, each its text and then its newline.
IsUnit(u, j) ==
  \/ u.part = "text" /\ j + 1 = 2 * u.msg
  \/ u.part = "newline" /\ j = 2 * u.msg

\* The lines of the first t messages were taken; the others are in the
\* buffer and on the wire, in order and cut nowhere but between them.
Framed(t) ==
  /\ Len(lineBuffer) + Len(wire) + 2 * t = 2 * Len(sent)
  /\ \A k \in DOMAIN lineBuffer : IsUnit(lineBuffer[k], 2 * t + k)
  /\ \A k \in DOMAIN wire : IsUnit(wire[k], 2 * t + Len(lineBuffer) + k)

\* The first c messages are answered where they deserve it, in order, and no
\* other is.
AnsweredUpTo(c) ==
  /\ \A j, k \in DOMAIN out : j < k => out[j].msg < out[k].msg
  /\ \A k \in DOMAIN out : out[k].msg <= c /\ DeservesAnswer(sent[out[k].msg])
  /\ \A i \in 1 .. c : DeservesAnswer(sent[i]) => IsAnswered(i)

\* The drains that took a call they have not answered.
InFlight == {d \in DOMAIN drains : drains[d].pc \in {"bootstrap", "turn"}}

\* Of the t messages taken the first c are answered: all of them, or all but
\* the last, whose call is in flight.
Queue(t, c) ==
  /\ Framed(t) /\ AnsweredUpTo(c)
  /\ InFlight = {} => c = t
  /\ \A d \in InFlight : drains[d].msg = t /\ c + 1 = t /\ sent[t].form # "blank"

\* A complete line has a drain that will take it.
Drained == Newlines # {} => \E d \in DOMAIN drains : drains[d].pc # "done"

QueueInv == Drained /\ \E t, c \in Nat : Queue(t, c)

\* No more messages are answered than taken, or taken than sent.
LEMMA QueueBounds ==
  ASSUME TransportTypeOK, NEW t \in Nat, NEW c \in Nat, Queue(t, c)
  PROVE  c <= t /\ t <= Len(sent)
<1>1. Len(lineBuffer) \in Nat /\ Len(wire) \in Nat /\ Len(sent) \in Nat
  BY DEF TransportTypeOK
<1>2. t <= Len(sent) BY <1>1 DEF Queue, Framed
<1>3. CASE InFlight = {} BY <1>2, <1>3 DEF Queue
<1>4. CASE InFlight # {}
  <2>1. PICK d \in InFlight : TRUE BY <1>4
  <2>. QED BY <1>2, <2>1 DEF Queue
<1>. QED BY <1>3, <1>4

\* The first line of the buffer is the line of the message after those taken,
\* whole, and taking it leaves the lines after it.
LEMMA TakesNext ==
  ASSUME TransportTypeOK, NEW t \in Nat, Framed(t), NEW d, TakesLine(d)
  PROVE  /\ Framed(t + 1)'
         /\ t + 1 <= Len(sent)
         /\ FirstMessage = t + 1
         /\ Form(FirstLine) = sent[t + 1].form
<1>1. /\ lineBuffer \in Seq(Units) /\ Len(lineBuffer) \in Nat
      /\ DOMAIN lineBuffer = 1 .. Len(lineBuffer)
      /\ Len(wire) \in Nat /\ Len(sent) \in Nat
  BY DEF TransportTypeOK
<1>2. PICK k \in DOMAIN lineBuffer : lineBuffer[k].part = "newline"
  BY DEF TakesLine, Newlines
<1>3. \A j \in DOMAIN lineBuffer :
        lineBuffer[j].msg \in Nat /\ IsUnit(lineBuffer[j], 2 * t + j)
  <2>. TAKE j \in DOMAIN lineBuffer
  <2>1. lineBuffer[j] \in Units BY <1>1
  <2>. QED BY <2>1, TransportAssumption DEF Framed, Units, Numbers
<1>4. lineBuffer[1].part = "text" /\ lineBuffer[1].msg = t + 1
  <2>1. 1 \in DOMAIN lineBuffer BY <1>1, <1>2
  <2>. QED BY <2>1, <1>3 DEF IsUnit
<1>5. k # 1 BY <1>2, <1>4
<1>6. 2 \in DOMAIN lineBuffer BY <1>1, <1>2, <1>5
<1>7. lineBuffer[2].part = "newline" BY <1>3, <1>6 DEF IsUnit
<1>8. Min(Newlines) = 2
  <2>1. Newlines \subseteq Nat /\ 2 \in Newlines /\ 1 \notin Newlines
    BY <1>1, <1>4, <1>6, <1>7 DEF Newlines
  <2>2. Min(Newlines) \in Newlines /\ Min(Newlines) <= 2 BY <2>1, LeastElement
  <2>3. Newlines \subseteq DOMAIN lineBuffer BY DEF Newlines
  <2>4. PICK m : m = Min(Newlines) OBVIOUS
  <2>5. m \in 1 .. Len(lineBuffer) /\ m <= 2 /\ m # 1
    BY <2>1, <2>2, <2>3, <2>4, <1>1
  <2>. QED BY <2>4, <2>5
<1>9. t + 1 <= Len(sent) BY <1>1, <1>6 DEF Framed
<1>10. FirstLine # <<>> /\ Len(FirstLine) = 1 /\ FirstLine[1] = lineBuffer[1]
  <2>1. FirstLine = SubSeq(lineBuffer, 1, 1) BY <1>8 DEF FirstLine
  <2>. QED BY <2>1, <1>1, <1>6
<1>11. Form(FirstLine) = sent[t + 1].form
  BY <1>4, <1>10 DEF Form
<1>12. /\ lineBuffer' = SubSeq(lineBuffer, 3, Len(lineBuffer))
       /\ wire' = wire /\ sent' = sent
  BY <1>8 DEF TakesLine
<1>13. /\ Len(lineBuffer') = Len(lineBuffer) - 2
       /\ DOMAIN lineBuffer' = 1 .. Len(lineBuffer) - 2
       /\ \A j \in 1 .. Len(lineBuffer) - 2 : lineBuffer'[j] = lineBuffer[j + 2]
  BY <1>1, <1>6, <1>12
<1>14. \A j \in DOMAIN lineBuffer' : IsUnit(lineBuffer'[j], 2 * (t + 1) + j)
  <2>. TAKE j \in DOMAIN lineBuffer'
  <2>1. j + 2 \in DOMAIN lineBuffer /\ j \in Nat BY <1>1, <1>13
  <2>2. IsUnit(lineBuffer[j + 2], 2 * t + (j + 2)) BY <2>1, <1>3
  <2>3. 2 * t + (j + 2) = 2 * (t + 1) + j BY <2>1
  <2>. QED BY <2>2, <2>3, <1>13
<1>15. \A j \in DOMAIN wire' : IsUnit(wire'[j], 2 * (t + 1) + Len(lineBuffer') + j)
  <2>. TAKE j \in DOMAIN wire'
  <2>0. wire \in Seq(Units) BY DEF TransportTypeOK
  <2>1. j \in DOMAIN wire /\ j \in Nat BY <2>0, <1>12
  <2>2. IsUnit(wire[j], 2 * t + Len(lineBuffer) + j) BY <2>1 DEF Framed
  <2>3. 2 * t + Len(lineBuffer) + j = 2 * (t + 1) + Len(lineBuffer') + j BY <2>1, <1>1, <1>13
  <2>. QED BY <2>2, <2>3, <1>12
<1>16. Len(lineBuffer') + Len(wire') + 2 * (t + 1) = 2 * Len(sent')
  <2>1. Len(lineBuffer) + Len(wire) + 2 * t = 2 * Len(sent) BY DEF Framed
  <2>2. Len(wire') = Len(wire) /\ Len(sent') = Len(sent) BY <1>12
  <2>3. Len(lineBuffer') = Len(lineBuffer) - 2 BY <1>13
  <2>. QED BY <2>1, <2>2, <2>3, <1>1
<1>. QED BY <1>4, <1>9, <1>11, <1>14, <1>15, <1>16 DEF Framed, FirstMessage

\* Answering the next message, or passing over it if it deserves no answer.
LEMMA AnswersNext ==
  ASSUME TransportTypeOK, NEW c \in Nat, c + 1 <= Len(sent), AnsweredUpTo(c), sent' = sent,
         \/ sent[c + 1].form = "blank" /\ out' = out
         \/ sent[c + 1].form # "blank" /\ \E ok \in BOOLEAN : Respond(c + 1, ok)
  PROVE  AnsweredUpTo(c + 1)'
<1>1. out \in Seq(Answers) BY DEF TransportTypeOK
<1>2. \A k \in DOMAIN out : out[k].msg \in Nat 
  <2>. TAKE k \in DOMAIN out
  <2>1. out[k] \in Answers BY <1>1
  <2>. QED BY <2>1, TransportAssumption DEF Answers, Numbers
<1>3. CASE ~ DeservesAnswer(sent[c + 1])
  <2>1. out' = out BY <1>3 DEF Respond, DeservesAnswer
  <2>2. \A k \in DOMAIN out : out[k].msg <= c + 1 BY <1>2 DEF AnsweredUpTo
  <2>3. \A i \in 1 .. c + 1 : DeservesAnswer(sent[i]) => i \in 1 .. c BY <1>3
  <2>. QED BY <2>1, <2>2, <2>3 DEF AnsweredUpTo, IsAnswered, DeservesAnswer
<1>4. CASE DeservesAnswer(sent[c + 1])
  <2>1. PICK ok \in BOOLEAN : out' = Append(out, [msg |-> c + 1, ok |-> ok])
    BY <1>4 DEF Respond, DeservesAnswer
  <2>2. PICK a : a = [msg |-> c + 1, ok |-> ok] OBVIOUS
  <2>3. out' = Append(out, a) BY <2>1, <2>2
  <2>msg. a.msg = c + 1 BY <2>2
  <2>4. /\ DOMAIN out = 1 .. Len(out) /\ DOMAIN out' = 1 .. Len(out) + 1 /\ Len(out) \in Nat
        /\ \A k \in DOMAIN out : out'[k] = out[k]
        /\ out'[Len(out) + 1] = a
    BY <1>1, <2>3
  <2>5. \A k \in DOMAIN out : out[k].msg <= c /\ DeservesAnswer(sent[out[k].msg])
    BY DEF AnsweredUpTo
  <2>6. \A j, k \in DOMAIN out' : j < k => out'[j].msg < out'[k].msg
    <3>. SUFFICES ASSUME NEW j \in DOMAIN out', NEW k \in DOMAIN out', j < k
         PROVE  out'[j].msg < out'[k].msg
      OBVIOUS
    <3>1. j \in DOMAIN out BY <2>4
    <3>2. CASE k \in DOMAIN out BY <3>1, <3>2, <2>4 DEF AnsweredUpTo
    <3>3. CASE k = Len(out) + 1 BY <3>1, <3>3, <2>msg, <2>4, <2>5, <1>2
    <3>. QED BY <3>2, <3>3, <2>4
  <2>7. \A k \in DOMAIN out' : out'[k].msg <= c + 1 /\ DeservesAnswer(sent[out'[k].msg])
    <3>. TAKE k \in DOMAIN out'
    <3>1. CASE k \in DOMAIN out BY <3>1, <2>4, <2>5, <1>2
    <3>2. CASE k = Len(out) + 1 BY <3>2, <2>msg, <2>4, <1>4
    <3>. QED BY <3>1, <3>2, <2>4
  <2>8. \A i \in 1 .. c + 1 : DeservesAnswer(sent[i]) => IsAnswered(i)'
    <3>. SUFFICES ASSUME NEW i \in 1 .. c + 1, DeservesAnswer(sent[i])
         PROVE  IsAnswered(i)'
      OBVIOUS
    <3>1. CASE i \in 1 .. c
      <4>1. PICK k \in DOMAIN out : out[k].msg = i BY <3>1 DEF AnsweredUpTo, IsAnswered
      <4>. QED BY <4>1, <2>4 DEF IsAnswered
    <3>2. CASE i = c + 1 BY <3>2, <2>msg, <2>4 DEF IsAnswered
    <3>. QED BY <3>1, <3>2
  <2>. QED BY <2>6, <2>7, <2>8 DEF AnsweredUpTo, DeservesAnswer, IsAnswered
<1>. QED BY <1>3, <1>4

\* When the one link that may move does, it alone can be in flight.
LEMMA Flight ==
  ASSUME TransportTypeOK, NEW d \in DOMAIN drains, NEW pc, NEW i,
         \A c \in DOMAIN drains : c < d => drains[c].pc = "done",
         \A c \in DOMAIN drains : d < c => drains[c].pc = "chained",
         Goto(d, pc, i)
  PROVE  /\ InFlight \subseteq {d}
         /\ InFlight' = IF pc \in {"bootstrap", "turn"} THEN {d} ELSE {}
         /\ DOMAIN drains' = DOMAIN drains
         /\ drains'[d].pc = pc /\ drains'[d].msg = i
<1>1. drains \in Seq(Drain) /\ DOMAIN drains \subseteq Nat BY DEF TransportTypeOK
<1>2. PICK l : l = [pc |-> pc, msg |-> i] OBVIOUS
<1>3. l.pc = pc /\ l.msg = i /\ drains' = [drains EXCEPT ![d] = l] BY <1>2 DEF Goto
<1>4. /\ DOMAIN drains' = DOMAIN drains
      /\ \A c \in DOMAIN drains : drains'[c] = IF c = d THEN l ELSE drains[c]
  BY <1>1, <1>3
<1>5. \A c \in DOMAIN drains : c # d => drains[c].pc \in {"done", "chained"}
  <2>. TAKE c \in DOMAIN drains
  <2>1. c < d \/ c = d \/ d < c BY <1>1
  <2>. QED BY <2>1
<1>. QED BY <1>3, <1>4, <1>5 DEF InFlight

\* Every step that leaves the messages, the buffer, the answers and the
\* drains' calls alone keeps the queue.
LEMMA PipeQueues ==
  ASSUME TransportInv, QueueInv, PipeStep
  PROVE  QueueInv'
<1>1. /\ sent \in Seq(Messages) /\ wire \in Seq(Units) /\ lineBuffer \in Seq(Units)
      /\ out \in Seq(Answers) /\ drains \in Seq(Drain)
      /\ Len(sent) \in Nat /\ Len(wire) \in Nat /\ Len(lineBuffer) \in Nat /\ Len(drains) \in Nat
  BY DEF TransportInv, TransportTypeOK
<1>2. PICK t \in Nat, c \in Nat : Queue(t, c) BY DEF QueueInv
<1>3. c <= t /\ t <= Len(sent) BY <1>2, QueueBounds DEF TransportInv
<1>len. Len(sent) \in Nat /\ Len(wire) \in Nat /\ Len(lineBuffer) \in Nat
  BY <1>1
<1>4. CASE \E m \in Messages : ClientWrites(m)
  <2>1. PICK m \in Messages : ClientWrites(m) BY <1>4
  <2>2. /\ DOMAIN sent = 1 .. Len(sent) /\ Len(sent') = Len(sent) + 1
        /\ \A i \in 1 .. Len(sent) : sent'[i] = sent[i]
    BY <1>1, <2>1 DEF ClientWrites
  <2>3. PICK a, b : /\ a = [msg |-> Len(sent) + 1, part |-> "text"]
                    /\ b = [msg |-> Len(sent) + 1, part |-> "newline"]
    OBVIOUS
  <2>4. /\ a.part = "text" /\ a.msg = Len(sent) + 1
        /\ b.part = "newline" /\ b.msg = Len(sent) + 1
    BY <2>3
  <2>5. wire' = wire \o <<a, b>> BY <2>1, <2>3 DEF ClientWrites, LineOf
  <2>6. /\ Len(wire') = Len(wire) + 2
        /\ DOMAIN wire' = 1 .. Len(wire) + 2
        /\ \A k \in 1 .. Len(wire) : wire'[k] = wire[k]
        /\ wire'[Len(wire) + 1] = a /\ wire'[Len(wire) + 2] = b
    <3>1. wire \in Seq(Units \cup {a, b}) /\ <<a, b>> \in Seq(Units \cup {a, b}) BY <1>1
    <3>. QED BY <3>1, <2>5
  <2>7. Len(lineBuffer) + Len(wire) + 2 * t = 2 * Len(sent) BY <1>2 DEF Queue, Framed
  <2>8. \A k \in DOMAIN wire' : IsUnit(wire'[k], 2 * t + Len(lineBuffer) + k)
    <3>. TAKE k \in DOMAIN wire'
    <3>1. CASE k \in 1 .. Len(wire)
      <4>1. k \in DOMAIN wire BY <3>1, <1>1
      <4>. QED BY <4>1, <3>1, <2>6, <1>2 DEF Queue, Framed
    <3>2. CASE k = Len(wire) + 1
      <4>1. 2 * t + Len(lineBuffer) + k + 1 = 2 * (Len(sent) + 1) BY <3>2, <2>7, <1>len
      <4>2. wire'[k] = a BY <3>2, <2>6
      <4>. QED BY <4>1, <4>2, <2>4 DEF IsUnit
    <3>3. CASE k = Len(wire) + 2
      <4>1. 2 * t + Len(lineBuffer) + k = 2 * (Len(sent) + 1) BY <3>3, <2>7, <1>len
      <4>2. wire'[k] = b BY <3>3, <2>6
      <4>. QED BY <4>1, <4>2, <2>4 DEF IsUnit
    <3>4. k \in 1 .. Len(wire) + 2 BY <2>6
    <3>. QED BY <3>1, <3>2, <3>3, <3>4, <1>len
  <2>9. lineBuffer' = lineBuffer /\ drains' = drains /\ out' = out
    BY <2>1 DEF ClientWrites
  <2>10. Framed(t)'
    <3>1. Len(lineBuffer') + Len(wire') + 2 * t = 2 * Len(sent')
      <4>1. /\ Len(sent') = Len(sent) + 1 /\ Len(wire') = Len(wire) + 2
            /\ Len(lineBuffer') = Len(lineBuffer)
        BY <2>2, <2>6, <2>9
      <4>. QED BY <4>1, <2>7, <1>len
    <3>. QED BY <3>1, <2>8, <2>9, <1>2 DEF Queue, Framed
  <2>11. AnsweredUpTo(c)'
    <3>1. \A i \in 1 .. c : sent'[i] = sent[i] BY <1>1, <1>3, <2>2
    <3>2. \A k \in DOMAIN out : out[k].msg \in 1 .. c
      <4>. TAKE k \in DOMAIN out
      <4>1. out[k] \in Answers BY <1>1
      <4>2. out[k].msg \in 1 .. MaxMessages BY <4>1 DEF Answers, Numbers
      <4>3. out[k].msg <= c BY <1>2 DEF Queue, AnsweredUpTo
      <4>. QED BY <4>2, <4>3, TransportAssumption
    <3>. QED BY <3>1, <3>2, <2>9, <1>2 DEF Queue, AnsweredUpTo, DeservesAnswer, IsAnswered
  <2>12. \A d \in InFlight : sent'[t] = sent[t] BY <1>1, <1>2, <1>3, <2>2 DEF Queue
  <2>13. Queue(t, c)' BY <2>9, <2>10, <2>11, <2>12, <1>2 DEF Queue, InFlight
  <2>14. Drained' BY <2>9 DEF QueueInv, Drained, Newlines
  <2>. QED BY <2>13, <2>14 DEF QueueInv
<1>5. CASE \E n \in 1 .. Len(wire) : Data(n)
  <2>1. PICK n \in 1 .. Len(wire) : Data(n) BY <1>5
  <2>2. PICK p, q : p = SubSeq(wire, 1, n) /\ q = SubSeq(wire, n + 1, Len(wire)) OBVIOUS
  <2>3. /\ p \in Seq(Units) /\ Len(p) = n
        /\ \A k \in 1 .. n : p[k] = wire[k]
    BY <1>1, <2>1, <2>2
  <2>4. /\ q \in Seq(Units) /\ Len(q) = Len(wire) - n
        /\ \A k \in 1 .. Len(wire) - n : q[k] = wire[n + k]
    BY <1>1, <2>1, <2>2
  <2>5. lineBuffer' = lineBuffer \o p /\ wire' = q /\ sent' = sent /\ out' = out
    BY <2>1, <2>2 DEF Data
  <2>6. /\ Len(lineBuffer') = Len(lineBuffer) + n
        /\ DOMAIN lineBuffer' = 1 .. Len(lineBuffer) + n
        /\ \A k \in 1 .. Len(lineBuffer) : lineBuffer'[k] = lineBuffer[k]
        /\ \A k \in 1 .. n : lineBuffer'[Len(lineBuffer) + k] = wire[k]
    BY <1>1, <2>3, <2>5
  <2>7. /\ \A k \in 1 .. Len(lineBuffer) : IsUnit(lineBuffer[k], 2 * t + k)
        /\ \A k \in 1 .. Len(wire) : IsUnit(wire[k], 2 * t + Len(lineBuffer) + k)
    BY <1>1, <1>2 DEF Queue, Framed
  <2>8. \A k \in DOMAIN lineBuffer' : IsUnit(lineBuffer'[k], 2 * t + k)
    <3>. TAKE k \in DOMAIN lineBuffer'
    <3>1. CASE k \in 1 .. Len(lineBuffer) BY <3>1, <2>6, <2>7
    <3>2. CASE k \notin 1 .. Len(lineBuffer)
      <4>1. PICK j \in 1 .. n : k = Len(lineBuffer) + j
        <5>1. k \in Nat /\ k <= Len(lineBuffer) + n /\ n \in Nat BY <2>6, <2>1, <1>len
        <5>2. k > Len(lineBuffer) BY <3>2, <2>6, <1>len
        <5>3. k - Len(lineBuffer) \in 1 .. n BY <5>1, <5>2, <1>len
        <5>4. k = Len(lineBuffer) + (k - Len(lineBuffer)) BY <5>1, <1>len
        <5>. QED BY <5>3, <5>4
      <4>2. j \in 1 .. Len(wire) BY <2>1, <1>1
      <4>3. IsUnit(wire[j], 2 * t + Len(lineBuffer) + j) BY <4>2, <2>7
      <4>4. 2 * t + Len(lineBuffer) + j = 2 * t + k BY <4>1, <1>1
      <4>. QED BY <4>1, <4>3, <4>4, <2>6
    <3>. QED BY <3>1, <3>2
  <2>9. \A k \in DOMAIN wire' : IsUnit(wire'[k], 2 * t + Len(lineBuffer') + k)
    <3>. TAKE k \in DOMAIN wire'
    <3>1. k \in 1 .. Len(wire) - n BY <2>4, <2>5
    <3>2. n + k \in 1 .. Len(wire) BY <3>1, <2>1, <1>1
    <3>3. IsUnit(wire[n + k], 2 * t + Len(lineBuffer) + (n + k)) BY <3>2, <2>7
    <3>4. 2 * t + Len(lineBuffer) + (n + k) = 2 * t + Len(lineBuffer') + k
      BY <3>1, <2>1, <2>6, <1>1
    <3>. QED BY <3>1, <3>3, <3>4, <2>4, <2>5
  <2>10. Framed(t)'
    <3>1. Len(wire') = Len(wire) - n BY <2>4, <2>5
    <3>2. Len(lineBuffer) + Len(wire) + 2 * t = 2 * Len(sent) BY <1>2 DEF Queue, Framed
    <3>3. Len(lineBuffer') + Len(wire') + 2 * t = 2 * Len(sent')
      <4>1. Len(lineBuffer') = Len(lineBuffer) + n /\ n \in Nat /\ sent' = sent
        BY <2>1, <2>5, <2>6
      <4>. QED BY <3>1, <3>2, <4>1, <1>len
    <3>. QED BY <3>3, <2>8, <2>9 DEF Framed
  <2>11. AnsweredUpTo(c)'
    BY <2>5, <1>2 DEF Queue, AnsweredUpTo, DeservesAnswer, IsAnswered
  <2>12. PICK l : l = [pc |-> "chained", msg |-> 0] OBVIOUS
  <2>13. l.pc = "chained" /\ drains' = Append(drains, l) BY <2>1, <2>12 DEF Data
  <2>14. /\ DOMAIN drains' = DOMAIN drains \cup {Len(drains) + 1}
         /\ \A d \in DOMAIN drains : drains'[d] = drains[d]
         /\ drains'[Len(drains) + 1].pc = "chained"
    BY <1>1, <2>13
  <2>15. InFlight' = InFlight BY <2>14 DEF InFlight
  <2>16. \A d \in InFlight : drains'[d] = drains[d] BY <2>14 DEF InFlight
  <2>17. Queue(t, c)' BY <1>2, <2>5, <2>10, <2>11, <2>15, <2>16 DEF Queue
  <2>18. Drained' BY <2>14 DEF Drained
  <2>. QED BY <2>17, <2>18 DEF QueueInv
<1>. QED BY <1>4, <1>5 DEF PipeStep

\* A link that starts or ends, with nothing in flight, and a link that stays
\* while it takes and answers a line, or skips it.
LEMMA ScanQueues ==
  ASSUME TransportInv, QueueInv, NEW d \in DOMAIN drains,
         drains[d].pc \in {"chained", "scanning"},
         drains[d].pc = "chained" => \A b \in DOMAIN drains : b < d => drains[b].pc = "done"
  PROVE  /\ InFlight = {}
         /\ \A b \in DOMAIN drains : b < d => drains[b].pc = "done"
         /\ \A b \in DOMAIN drains : d < b => drains[b].pc = "chained"
         /\ \E t \in Nat : Queue(t, t)
<1>1. \A b \in DOMAIN drains : b < d => drains[b].pc = "done"
  BY Around
<1>2. \A b \in DOMAIN drains : d < b => drains[b].pc = "chained"
  BY DEF TransportInv, Chained
<1>3. InFlight = {}
  <2>1. DOMAIN drains \subseteq Nat BY DEF TransportInv, TransportTypeOK
  <2>2. ASSUME NEW b \in DOMAIN drains PROVE drains[b].pc \notin {"bootstrap", "turn"}
    <3>1. b < d \/ b = d \/ d < b BY <2>1
    <3>. QED BY <3>1, <1>1, <1>2
  <2>. QED BY <2>2 DEF InFlight
<1>4. PICK t \in Nat, c \in Nat : Queue(t, c) BY DEF QueueInv
<1>5. c = t BY <1>3, <1>4 DEF Queue
<1>. QED BY <1>1, <1>2, <1>3, <1>4, <1>5

LEMMA StartEndQueues ==
  ASSUME TransportInv, QueueInv, NEW d \in DOMAIN drains, DrainStarts(d) \/ DrainEnds(d)
  PROVE  QueueInv'
<1>1. TransportTypeOK BY DEF TransportInv
<1>2. d \in Nat /\ DOMAIN drains = 1 .. Len(drains) BY <1>1 DEF TransportTypeOK
<1>3. drains[d].pc = "chained" => \A b \in DOMAIN drains : b < d => drains[b].pc = "done"
  <2>. SUFFICES ASSUME drains[d].pc = "chained", NEW b \in DOMAIN drains, b < d
       PROVE  drains[b].pc = "done"
    OBVIOUS
  <2>1. b \in 1 .. d - 1 BY <1>1, <1>2 DEF TransportTypeOK
  <2>. QED BY <2>1 DEF DrainStarts, DrainEnds
<1>4. drains[d].pc \in {"chained", "scanning"} BY DEF DrainStarts, DrainEnds
<1>5. /\ InFlight = {}
      /\ \A b \in DOMAIN drains : b < d => drains[b].pc = "done"
      /\ \A b \in DOMAIN drains : d < b => drains[b].pc = "chained"
  BY <1>3, <1>4, ScanQueues
<1>6. PICK t \in Nat : Queue(t, t) BY <1>3, <1>4, ScanQueues
<1>7. PICK pc \in {"scanning", "done"} :
        /\ Goto(d, pc, 0)
        /\ pc = "done" => Newlines = {}
        /\ sent' = sent /\ wire' = wire /\ lineBuffer' = lineBuffer /\ out' = out
  BY DEF DrainStarts, DrainEnds
<1>8. InFlight' = {} /\ d \in DOMAIN drains' /\ drains'[d].pc = pc
  BY <1>1, <1>5, <1>7, Flight
<1>9. Queue(t, t)'
  BY <1>5, <1>6, <1>7, <1>8 DEF Queue, Framed, AnsweredUpTo, IsAnswered
<1>10. Drained' BY <1>7, <1>8 DEF Drained, Newlines
<1>. QED BY <1>9, <1>10 DEF QueueInv

\* A line that is answered, or skipped, at once.
LEMMA LineQueues ==
  ASSUME TransportInv, QueueInv, NEW d \in DOMAIN drains,
         SkipBlank(d) \/ RefuseLine(d) \/ DispatchPlain(d)
  PROVE  QueueInv'
<1>1. TransportTypeOK BY DEF TransportInv
<1>2. TakesLine(d) /\ drains[d].pc = "scanning" /\ drains' = drains
  BY DEF SkipBlank, RefuseLine, DispatchPlain, TakesLine
<1>3. InFlight = {} /\ \E t \in Nat : Queue(t, t) BY <1>2, ScanQueues
<1>4. PICK t \in Nat : Queue(t, t) BY <1>3
<1>5. /\ Framed(t + 1)' /\ t + 1 <= Len(sent)
      /\ FirstMessage = t + 1 /\ Form(FirstLine) = sent[t + 1].form
  BY <1>1, <1>2, <1>4, TakesNext DEF Queue
<1>6. sent' = sent BY <1>2 DEF TakesLine
<1>7. \/ sent[t + 1].form = "blank" /\ out' = out
      \/ sent[t + 1].form # "blank" /\ \E ok \in BOOLEAN : Respond(t + 1, ok)
  <2>1. CASE SkipBlank(d) BY <2>1, <1>5 DEF SkipBlank
  <2>2. CASE RefuseLine(d) BY <2>2, <1>5 DEF RefuseLine
  <2>3. CASE DispatchPlain(d)
    <3>1. (sent[FirstMessage].method = "plain") \in BOOLEAN OBVIOUS
    <3>. QED BY <2>3, <3>1, <1>5 DEF DispatchPlain
  <2>. QED BY <2>1, <2>2, <2>3
<1>8. AnsweredUpTo(t + 1)' BY <1>1, <1>4, <1>5, <1>6, <1>7, AnswersNext DEF Queue
<1>9. InFlight' = {} BY <1>2, <1>3 DEF InFlight
<1>10. Queue(t + 1, t + 1)' BY <1>5, <1>8, <1>9 DEF Queue
<1>11. Drained' BY <1>2 DEF Drained
<1>12. t + 1 \in Nat OBVIOUS
<1>. QED BY <1>10, <1>11, <1>12 DEF QueueInv

\* A call is taken and stays in flight.
LEMMA CallQueues ==
  ASSUME TransportInv, QueueInv, NEW d \in DOMAIN drains, DispatchCall(d)
  PROVE  QueueInv'
<1>1. TransportTypeOK BY DEF TransportInv
<1>2. TakesLine(d) /\ drains[d].pc = "scanning" BY DEF DispatchCall, TakesLine
<1>3. /\ InFlight = {}
      /\ \A b \in DOMAIN drains : b < d => drains[b].pc = "done"
      /\ \A b \in DOMAIN drains : d < b => drains[b].pc = "chained"
      /\ \E t \in Nat : Queue(t, t)
  BY <1>2, ScanQueues
<1>4. PICK t \in Nat : Queue(t, t) BY <1>3
<1>5. /\ Framed(t + 1)' /\ t + 1 <= Len(sent)
      /\ FirstMessage = t + 1 /\ Form(FirstLine) = sent[t + 1].form
  BY <1>1, <1>2, <1>4, TakesNext DEF Queue
<1>6. PICK pc \in {"bootstrap", "turn"} : Goto(d, pc, t + 1) BY <1>5 DEF DispatchCall
<1>7. /\ InFlight' = {d} /\ d \in DOMAIN drains'
      /\ drains'[d].pc = pc /\ drains'[d].msg = t + 1
  <2>1. /\ InFlight' = IF pc \in {"bootstrap", "turn"} THEN {d} ELSE {}
        /\ DOMAIN drains' = DOMAIN drains
        /\ drains'[d].pc = pc /\ drains'[d].msg = t + 1
    BY <1>1, <1>3, <1>6, Flight
  <2>. QED BY <2>1
<1>8. sent' = sent /\ out' = out BY <1>2 DEF TakesLine, DispatchCall
<1>9. AnsweredUpTo(t)' BY <1>4, <1>8 DEF Queue, AnsweredUpTo, IsAnswered
<1>10. sent[t + 1].form # "blank" BY <1>5 DEF DispatchCall
<1>11. Queue(t + 1, t)' BY <1>5, <1>7, <1>8, <1>9, <1>10 DEF Queue
<1>12. Drained' BY <1>7 DEF Drained
<1>13. t + 1 \in Nat OBVIOUS
<1>. QED BY <1>11, <1>12, <1>13 DEF QueueInv

\* The call in flight is answered.
LEMMA AnswerQueues ==
  ASSUME TransportInv, QueueInv, NEW d \in DOMAIN drains,
         drains[d].pc \in {"bootstrap", "turn"},
         \E ok \in BOOLEAN : Respond(drains[d].msg, ok),
         Goto(d, "scanning", 0),
         UNCHANGED <<sent, wire, lineBuffer>>
  PROVE  QueueInv'
<1>1. TransportTypeOK BY DEF TransportInv
<1>2. PICK t \in Nat, c \in Nat : Queue(t, c) BY DEF QueueInv
<1>3. d \in InFlight BY DEF InFlight
<1>4. drains[d].msg = t /\ c + 1 = t /\ sent[t].form # "blank" BY <1>2, <1>3 DEF Queue
<1>5. t <= Len(sent) BY <1>1, <1>2, QueueBounds
<1>6. AnsweredUpTo(c + 1)' BY <1>1, <1>2, <1>4, <1>5, AnswersNext DEF Queue
<1>7. Framed(t)' BY <1>2 DEF Queue, Framed
<1>8. InFlight' = {} /\ d \in DOMAIN drains' /\ drains'[d].pc = "scanning"
  BY <1>1, Around, Flight
<1>9. Queue(t, t)' BY <1>4, <1>6, <1>7, <1>8 DEF Queue
<1>10. Drained' BY <1>8 DEF Drained
<1>. QED BY <1>9, <1>10 DEF QueueInv

\* The calls that waited for the runtime stay in flight.
LEMMA BootstrapQueues ==
  ASSUME TransportInv, QueueInv, BootstrapSucceeds
  PROVE  QueueInv'
<1>1. drains \in Seq(Drain) BY DEF TransportInv, TransportTypeOK
<1>2. PICK t \in Nat, c \in Nat : Queue(t, c) BY DEF QueueInv
<1>3. /\ DOMAIN drains' = DOMAIN drains
      /\ \A d \in DOMAIN drains :
           drains'[d] = IF drains[d].pc = "bootstrap" THEN [drains[d] EXCEPT !.pc = "turn"]
                        ELSE drains[d]
  BY <1>1 DEF BootstrapSucceeds
<1>4. \A d \in DOMAIN drains :
        /\ drains'[d].msg = drains[d].msg
        /\ drains'[d].pc = IF drains[d].pc = "bootstrap" THEN "turn" ELSE drains[d].pc
  <2>. TAKE d \in DOMAIN drains
  <2>1. drains[d] \in Drain BY <1>1
  <2>. QED BY <2>1, <1>3 DEF Drain
<1>5. InFlight' = InFlight BY <1>3, <1>4 DEF InFlight
<1>6. sent' = sent /\ wire' = wire /\ lineBuffer' = lineBuffer /\ out' = out
  BY DEF BootstrapSucceeds
<1>7. \A d \in InFlight : drains'[d].msg = drains[d].msg BY <1>4 DEF InFlight
<1>8. Queue(t, c)'
  BY <1>2, <1>5, <1>6, <1>7 DEF Queue, Framed, AnsweredUpTo, IsAnswered
<1>9. Drained' BY <1>3, <1>4, <1>6 DEF QueueInv, Drained, Newlines
<1>. QED BY <1>8, <1>9 DEF QueueInv

LEMMA QueueCorrect == Spec => []QueueInv
<1>1. Init => QueueInv
  <2>. SUFFICES ASSUME Init PROVE QueueInv OBVIOUS
  <2>1. sent = <<>> /\ wire = <<>> /\ lineBuffer = <<>> /\ drains = <<>> /\ out = <<>>
    BY DEF Init, InitTransport
  <2>2. InFlight = {} /\ Drained BY <2>1 DEF InFlight, Drained, Newlines
  <2>3. Framed(0) BY <2>1 DEF Framed
  <2>4. AnsweredUpTo(0) BY <2>1 DEF AnsweredUpTo
  <2>5. Queue(0, 0) BY <2>2, <2>3, <2>4 DEF Queue
  <2>. QED BY <2>2, <2>5 DEF QueueInv
<1>2. TransportInv /\ QueueInv /\ [Next]_vars => QueueInv'
  <2>. SUFFICES ASSUME TransportInv, QueueInv, [Next]_vars PROVE QueueInv' OBVIOUS
  <2>1. CASE UNCHANGED transportVars
    <3>1. PICK t \in Nat, c \in Nat : Queue(t, c) BY DEF QueueInv
    <3>2. Framed(t)' BY <2>1, <3>1 DEF transportVars, Queue, Framed
    <3>3. AnsweredUpTo(c)' BY <2>1, <3>1 DEF transportVars, Queue, AnsweredUpTo, IsAnswered
    <3>4. Queue(t, c)' BY <2>1, <3>1, <3>2, <3>3 DEF transportVars, Queue, InFlight
    <3>5. Drained' BY <2>1 DEF transportVars, QueueInv, Drained, Newlines
    <3>. QED BY <3>4, <3>5 DEF QueueInv
  <2>2. CASE PipeStep BY <2>2, PipeQueues
  <2>3. CASE BootstrapSucceeds BY <2>3, BootstrapQueues
  <2>4. ASSUME NEW d \in DOMAIN drains, DrainStep(d) PROVE QueueInv'
    <3>1. CASE DrainStarts(d) \/ DrainEnds(d) BY <3>1, StartEndQueues
    <3>2. CASE SkipBlank(d) \/ RefuseLine(d) \/ DispatchPlain(d) BY <3>2, LineQueues
    <3>3. CASE DispatchCall(d) BY <3>3, CallQueues
    <3>4. CASE BootstrapFails(d)
      <4>1. FALSE \in BOOLEAN OBVIOUS
      <4>. QED BY <3>4, <4>1, AnswerQueues DEF BootstrapFails
    <3>. QED BY <2>4, <3>1, <3>2, <3>3, <3>4 DEF DrainStep
  <2>5. ASSUME NEW d \in DOMAIN drains, TurnEnds(d) PROVE QueueInv'
    <3>1. /\ drains[d].pc = "turn" /\ Goto(d, "scanning", 0)
          /\ UNCHANGED <<sent, wire, lineBuffer>>
      BY <2>5 DEF TurnEnds
    <3>2. \E ok \in BOOLEAN : Respond(drains[d].msg, ok) BY <2>5 DEF TurnEnds
    <3>. QED BY <3>1, <3>2, AnswerQueues
  <2>. QED BY <2>1, <2>2, <2>3, <2>4, <2>5
       DEF Next, vars, transportVars, TurnRunsCode, GatewayTurnEnds
<1>. QED BY <1>1, <1>2, TransportCorrect, PTL DEF Spec

\* However the pipe cuts the lines, messages are answered in the order of
\* sending, each that deserves it, none twice (drainLines, drainChain).
THEOREM OrderedAnswers == Spec => []AnswersInOrder
<1>1. TransportInv /\ QueueInv => AnswersInOrder
  <2>. SUFFICES ASSUME TransportInv, QueueInv PROVE AnswersInOrder OBVIOUS
  <2>1. PICK t \in Nat, c \in Nat : Queue(t, c) BY DEF QueueInv
  <2>2. c <= t /\ t <= Len(sent) BY <2>1, QueueBounds DEF TransportInv
  <2>3. \A k \in DOMAIN out : out[k].msg \in 1 .. c
    <3>. TAKE k \in DOMAIN out
    <3>1. out[k] \in Answers BY DEF TransportInv, TransportTypeOK
    <3>2. out[k].msg \in 1 .. MaxMessages BY <3>1 DEF Answers, Numbers
    <3>3. out[k].msg <= c BY <2>1 DEF Queue, AnsweredUpTo
    <3>. QED BY <3>2, <3>3, TransportAssumption
  <2>4. Len(sent) \in Nat BY DEF TransportInv, TransportTypeOK
  <2>5. \A k \in DOMAIN out : out[k].msg <= Len(sent) BY <2>2, <2>3, <2>4
  <2>6. \A k \in DOMAIN out : 1 .. out[k].msg \subseteq 1 .. c BY <2>3
  <2>. QED BY <2>1, <2>5, <2>6 DEF Queue, AnsweredUpTo, AnswersInOrder
<1>. QED BY <1>1, TransportCorrect, QueueCorrect, PTL

\* Once everything sent is received and every drain is done, every message is
\* answered and no part of a line is left (drainLines, lineBuffer).
THEOREM NoneForgotten == Spec => []NothingForgotten
<1>1. TransportInv /\ QueueInv => NothingForgotten
  <2>. SUFFICES ASSUME TransportInv, QueueInv, wire = <<>>,
                       \A d \in DOMAIN drains : drains[d].pc = "done"
       PROVE  /\ lineBuffer = <<>>
              /\ \A i \in 1 .. Len(sent) : DeservesAnswer(sent[i]) => IsAnswered(i)
    BY DEF NothingForgotten
  <2>1. PICK t \in Nat, c \in Nat : Queue(t, c) BY DEF QueueInv
  <2>2. InFlight = {} BY DEF InFlight
  <2>3. c = t BY <2>1, <2>2 DEF Queue
  <2>4. Newlines = {} BY DEF QueueInv, Drained
  <2>5. /\ lineBuffer \in Seq(Units) /\ Len(lineBuffer) \in Nat /\ Len(sent) \in Nat
        /\ DOMAIN lineBuffer = 1 .. Len(lineBuffer)
    BY DEF TransportInv, TransportTypeOK
  <2>6. Len(lineBuffer) + 2 * t = 2 * Len(sent) BY <2>1, <2>5 DEF Queue, Framed
  <2>7. Len(lineBuffer) = 0
    <3>. SUFFICES ASSUME Len(lineBuffer) # 0 PROVE FALSE OBVIOUS
    <3>1. 2 \in DOMAIN lineBuffer BY <2>5, <2>6
    <3>2. lineBuffer[2] \in Units /\ lineBuffer[2].part # "newline"
      BY <3>1, <2>4, <2>5 DEF Newlines
    <3>3. lineBuffer[2].msg \in Nat BY <3>2, TransportAssumption DEF Units, Numbers
    <3>4. 2 * t + 2 + 1 = 2 * lineBuffer[2].msg BY <3>1, <3>2, <2>1 DEF Queue, Framed, IsUnit
    <3>. QED BY <3>3, <3>4
  <2>8. lineBuffer = <<>> /\ t = Len(sent) BY <2>5, <2>6, <2>7
  <2>. QED BY <2>1, <2>3, <2>8 DEF Queue, AnsweredUpTo
<1>. QED BY <1>1, TransportCorrect, QueueCorrect, PTL
=============================================================================
