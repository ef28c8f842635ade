------------------------------ MODULE EventStore ------------------------------
(***************************************************************************)
(* The observability events: every append first writes a line to           *)
(* events.jsonl, waits, and then pushes the event on a ring in memory that *)
(* the dashboard digests are computed from.  The ring starts empty in      *)
(* every life of the process; the file is never read.                      *)
(*                                                                         *)
(* An event is a number, in the order the appends were called, and the     *)
(* deny reasons in its payload; without an array of them it has "none".    *)
(***************************************************************************)
EXTENDS Integers, FiniteSets, SequencesExt

CONSTANTS
  Writers,     \* turns that may append at the same time
  DenyReasons, \* bound: the deny reasons an event may carry
  Limit,       \* the ring drops its oldest event above this length
  MaxEvents    \* bound on the events appended

ASSUME EventsAssumption == Limit \in Nat \ {0} /\ MaxEvents \in Nat

NoReasons == <<"none">>

Events == [number : 1 .. MaxEvents, denyReasons : DenyReasons \cup {NoReasons}]

VARIABLES
  file,      \* events.jsonl
  ring,      \* recentEvents
  append,    \* the append of each writer: whether its line is written
  appended,  \* number of appends called
  pushed     \* history: the events pushed in this life, in order

eventVars == <<file, ring, append, appended, pushed>>

NoAppend == [phase |-> "idle"]

EventsInit ==
  /\ file = <<>>
  /\ ring = <<>>
  /\ append = [w \in Writers |-> NoAppend]
  /\ appended = 0
  /\ pushed = <<>>

EventsTypeOK ==
  /\ file \in Seq(Events) /\ ring \in Seq(Events)
  /\ \A w \in Writers : append[w] = NoAppend \/ append[w].event \in Events

BeginAppend(w) ==
  /\ append[w] = NoAppend
  /\ appended < MaxEvents
  /\ appended' = appended + 1
  /\ \E d \in DenyReasons \cup {NoReasons} :
       append' = [append EXCEPT ![w] =
         [phase |-> "writing", event |-> [number |-> appended + 1, denyReasons |-> d]]]
  /\ UNCHANGED <<file, ring, pushed>>

\* Lines of appends in flight land in any order.
AppendJsonl(w) ==
  /\ append[w].phase = "writing"
  /\ append' = [append EXCEPT ![w].phase = "written"]
  /\ file' = Append(file, append[w].event)
  /\ UNCHANGED <<ring, appended, pushed>>

\* Mutant: the oldest event is dropped one too early.
PushEarly(r, e) ==
  IF Len(r) + 1 >= Limit THEN Tail(Append(r, e)) ELSE Append(r, e)

Push(r, e) ==
  IF Len(r) + 1 > Limit THEN Tail(Append(r, e)) ELSE Append(r, e)

Remember(w) ==
  /\ append[w].phase = "written"
  /\ append' = [append EXCEPT ![w] = NoAppend]
  /\ ring' = Push(ring, append[w].event)
  /\ pushed' = Append(pushed, append[w].event)
  /\ UNCHANGED <<file, appended>>

\* A new life of the process.
EventsRestart ==
  /\ file # <<>>
  /\ ring' = <<>>
  /\ pushed' = <<>>
  /\ append' = [w \in Writers |-> NoAppend]
  /\ UNCHANGED <<file, appended>>

EventsNext ==
  \/ EventsRestart
  \/ \E w \in Writers : BeginAppend(w) \/ AppendJsonl(w) \/ Remember(w)

EventsSpec == EventsInit /\ [][EventsNext]_eventVars

-----------------------------------------------------------------------------
(* What the digests are computed from.                                     *)

\* The ring is exactly the latest events of this life, up to its limit, each
\* of which is in the file first: an event is dropped only to make room, and a
\* digest never shows what events.jsonl does not have (append).
RingIsLatest ==
  /\ IsSuffix(ring, pushed)
  /\ Len(ring) = IF Len(pushed) < Limit THEN Len(pushed) ELSE Limit
  /\ ToSet(pushed) \subseteq ToSet(file)
=============================================================================
