------------------------------- MODULE StoreProofs -------------------------------
(***************************************************************************)
(* Proofs about what the gateway keeps in files: the memory records, the   *)
(* event log with its ring, and the context pack with its copies.  For any *)
(* number of turns, agents, records and events, whatever the interleaving, *)
(* and with the death of the process between any two steps: what keeps a   *)
(* record in the file and time from promoting it early, that the ring is   *)
(* the latest events, that copies stay within the pack on disk, that the   *)
(* agents of a run see the same files, and that packs do not shrink.       *)
(***************************************************************************)
EXTENDS MemoryStore, EventStore, ContextPack, SequenceTheorems, WellFoundedInduction,
        TLAPS

-----------------------------------------------------------------------------
(* Memory records.                                                         *)


WritingPhases == {"opening", "truncated"}

RecordShape(r) ==
  r = [enforcement |-> r.enforcement, state |-> r.state,
       createdAt |-> r.createdAt, updatedAt |-> r.updatedAt, origin |-> r.origin]

\* A record that time has not changed too early.
Timely(r) ==
  /\ RecordShape(r)
  /\ r.createdAt \in Int /\ r.updatedAt \in Int
  /\ r.state = "provisional" => r.updatedAt >= r.createdAt + Contest
  /\ r.state = "expired" => r.updatedAt >= r.createdAt + Contest + Expiry
  /\ r.state # "approved" =>
       r.origin = "friction" /\ r.enforcement \notin HumanApprovalRequired

AllTimely(text) == \A i \in DOMAIN text : Timely(text[i])

LaneShape(l) ==
  /\ l = [phase |-> l.phase, todo |-> l.todo, now |-> l.now, text |-> l.text,
          change |-> l.change]
  /\ l.now \in Int
  /\ AllTimely(l.text) /\ AllTimely(l.change)

\* The text that a write is about to leave has its own change, and every record
\* that is not exposed as it was last written.
Knows(l) ==
  /\ \A i \in DOMAIN l.change : i \in DOMAIN l.text /\ l.text[i] = l.change[i]
  /\ \A i \in (DOMAIN written \ exposed) \ DOMAIN l.change :
       i \in DOMAIN l.text /\ l.text[i] = written[i]

MemoryInv ==
  /\ clock \in Int
  /\ lane = [t \in Turns |-> lane[t]]
  /\ \A t \in Turns : LaneShape(lane[t])
  /\ \A t \in Turns : lane[t].phase \in WritingPhases => Knows(lane[t])
  /\ AllTimely(store.records)
  /\ RecordsAsWritten

-----------------------------------------------------------------------------
(* Texts and records.                                                      *)

LEMMA TextWithSound ==
  ASSUME NEW change, NEW records
  PROVE  /\ DOMAIN TextWith(records, change) = DOMAIN change \cup DOMAIN records
         /\ \A i \in DOMAIN change : TextWith(records, change)[i] = change[i]
         /\ \A i \in DOMAIN records \ DOMAIN change :
              TextWith(records, change)[i] = records[i]
         /\ AllTimely(change) /\ AllTimely(records) =>
              AllTimely(TextWith(records, change))
<1>1. /\ DOMAIN TextWith(records, change) = DOMAIN change \cup DOMAIN records
      /\ \A i \in DOMAIN change : TextWith(records, change)[i] = change[i]
      /\ \A i \in DOMAIN records \ DOMAIN change :
           TextWith(records, change)[i] = records[i]
  BY DEF TextWith, Changed
<1> QED
  BY <1>1 DEF AllTimely

LEMMA NoRecordsTimely == AllTimely(NoRecords) /\ DOMAIN NoRecords = {}
BY DEF AllTimely, NoRecords

\* What can be read is timely.
LEMMA ReadAllTimely == MemoryInv => AllTimely(ReadAll)
BY NoRecordsTimely DEF MemoryInv, ReadAll

\* The promotion lane changes no record before its time.
LEMMA PromotedTimely ==
  ASSUME NEW records, AllTimely(records), NEW now \in Int
  PROVE  AllTimely(Promoted(records, now))
<1> DEFINE due == {i \in DOMAIN records :
                     CanPromote(records[i], now) \/ CanExpire(records[i], now)}
<1> DEFINE after(r) == [r EXCEPT !.updatedAt = now,
                          !.state = IF @ = "pending" THEN "provisional" ELSE "expired"]
<1>1. Promoted(records, now) = [i \in due |-> after(records[i])]
  BY DEF Promoted
<1>2. ASSUME NEW i \in due PROVE Timely(after(records[i]))
  <2>1. PICK r : r = records[i]
    OBVIOUS
  <2>2. Timely(r) /\ (CanPromote(r, now) \/ CanExpire(r, now))
    BY <2>1 DEF AllTimely
  <2>3. PICK s : s = after(r)
    OBVIOUS
  <2>4. PICK x : x = IF r.state = "pending" THEN "provisional" ELSE "expired"
    OBVIOUS
  <2>5. s = [r EXCEPT !.updatedAt = now, !.state = x]
    BY <2>3, <2>4
  <2>6. s = [enforcement |-> r.enforcement, state |-> x, createdAt |-> r.createdAt,
             updatedAt |-> now, origin |-> r.origin]
    BY <2>2, <2>5 DEF Timely, RecordShape
  <2>7. /\ RecordShape(s) /\ s.enforcement = r.enforcement /\ s.state = x
        /\ s.createdAt = r.createdAt /\ s.updatedAt = now /\ s.origin = r.origin
    BY <2>6 DEF RecordShape
  <2>8. /\ r.createdAt \in Int /\ r.updatedAt \in Int
        /\ r.state = "provisional" => r.updatedAt >= r.createdAt + Contest
        /\ r.state # "approved" =>
             r.origin = "friction" /\ r.enforcement \notin HumanApprovalRequired
    BY <2>2 DEF Timely
  <2>9. ASSUME CanPromote(r, now) PROVE Timely(s)
    <3>1. x = "provisional" /\ r.state = "pending" /\ now - r.createdAt >= Contest
      BY <2>4, <2>9 DEF CanPromote
    <3>2. now >= r.createdAt + Contest
      BY <2>8, <3>1, MemoryAssumption
    <3>3. /\ s.createdAt \in Int /\ s.updatedAt \in Int /\ s.state # "expired"
          /\ s.updatedAt >= s.createdAt + Contest
      BY <2>7, <2>8, <3>1, <3>2
    <3>4. s.origin = "friction" /\ s.enforcement \notin HumanApprovalRequired
      BY <2>7, <2>8, <3>1
    <3>5. RecordShape(s)
      BY <2>7
    <3> QED
      BY <3>3, <3>4, <3>5 DEF Timely
  <2>10. ASSUME CanExpire(r, now) PROVE Timely(s)
    <3>1. x = "expired" /\ r.state = "provisional" /\ now - r.updatedAt >= Expiry
      BY <2>4, <2>10 DEF CanExpire
    <3>2. now >= r.createdAt + Contest + Expiry
      BY <2>8, <3>1, MemoryAssumption
    <3>3. /\ s.createdAt \in Int /\ s.updatedAt \in Int /\ s.state # "provisional"
          /\ s.updatedAt >= s.createdAt + Contest + Expiry
      BY <2>7, <2>8, <3>1, <3>2
    <3>4. s.origin = "friction" /\ s.enforcement \notin HumanApprovalRequired
      BY <2>7, <2>8, <3>1
    <3>5. RecordShape(s)
      BY <2>7
    <3> QED
      BY <3>3, <3>4, <3>5 DEF Timely
  <2> QED
    BY <2>1, <2>2, <2>3, <2>9, <2>10
<1> HIDE DEF due, after
<1> QED
  BY <1>1, <1>2 DEF AllTimely

-----------------------------------------------------------------------------
(* The steps.                                                              *)

\* A step that leaves the file alone and starts no write.
LEMMA QuietStep ==
  ASSUME MemoryInv, clock' \in Int, UNCHANGED <<store, written, exposed>>,
         lane' = [t \in Turns |-> lane'[t]],
         \A t \in Turns :
           \/ lane'[t] = lane[t]
           \/ LaneShape(lane'[t]) /\ lane'[t].phase \notin WritingPhases
  PROVE  MemoryInv'
<1>1. store' = store /\ written' = written /\ exposed' = exposed
  OBVIOUS
<1>2. ASSUME NEW t \in Turns PROVE LaneShape(lane'[t])
  BY DEF MemoryInv
<1>3. ASSUME NEW t \in Turns, lane'[t].phase \in WritingPhases
      PROVE  Knows(lane[t])'
  BY <1>1, <1>3 DEF MemoryInv, Knows
<1>4. RecordsAsWritten'
  BY <1>1 DEF MemoryInv, RecordsAsWritten
<1> QED
  BY <1>1, <1>2, <1>3, <1>4 DEF MemoryInv

\* A lane that goes to another phase with the shape it must have.
LEMMA QuietLane ==
  ASSUME MemoryInv, NEW t \in Turns, NEW l, LaneShape(l),
         l.phase \notin WritingPhases, lane' = [lane EXCEPT ![t] = l],
         UNCHANGED <<store, clock, written, exposed>>
  PROVE  MemoryInv'
<1>1. lane' = [u \in Turns |-> IF u = t THEN l ELSE lane[u]]
  BY DEF MemoryInv
<1>2. clock' \in Int
  BY DEF MemoryInv
<1> QED
  BY <1>1, <1>2, QuietStep

\* A lane with its phase, text and change replaced, written out.
LEMMA OpenedLane ==
  ASSUME NEW l, LaneShape(l), NEW phase, NEW text, NEW change
  PROVE  [l EXCEPT !.phase = phase, !.change = change, !.text = text] =
           [phase |-> phase, todo |-> l.todo, now |-> l.now, text |-> text,
            change |-> change]
<1>1. PICK p, d, n, x, c :
        l = [phase |-> p, todo |-> d, now |-> n, text |-> x, change |-> c]
  BY DEF LaneShape
<1>2. PICK m : m = [l EXCEPT !.phase = phase]
  OBVIOUS
<1>3. m = [phase |-> phase, todo |-> d, now |-> n, text |-> x, change |-> c]
  BY <1>1, <1>2
<1>4. PICK w : w = [m EXCEPT !.change = change]
  OBVIOUS
<1>5. w = [phase |-> phase, todo |-> d, now |-> n, text |-> x, change |-> change]
  BY <1>3, <1>4
<1>6. [w EXCEPT !.text = text] =
        [phase |-> phase, todo |-> d, now |-> n, text |-> text, change |-> change]
  BY <1>5
<1>7. [l EXCEPT !.phase = phase, !.change = change, !.text = text] =
        [w EXCEPT !.text = text]
  BY <1>1, <1>2, <1>4
<1>8. l.todo = d /\ l.now = n
  BY <1>1
<1> QED
  BY <1>6, <1>7, <1>8

LEMMA ReadStep ==
  ASSUME MemoryInv, NEW t \in Turns, NEW change, AllTimely(change),
         ReadRecords(t, change)
  PROVE  MemoryInv'
<1>a. PICK text : text = TextWith(ReadAll, change)
  OBVIOUS
<1>b. PICK l : l = [lane[t] EXCEPT !.phase = "opening", !.change = change,
                                   !.text = text]
  OBVIOUS
<1>1. /\ lane = [u \in Turns |-> lane[u]] /\ LaneShape(lane[t])
      /\ clock \in Int /\ AllTimely(store.records)
  BY DEF MemoryInv
<1>2. /\ l = [phase |-> "opening", todo |-> lane[t].todo, now |-> lane[t].now,
              text |-> text, change |-> change]
  <2>1. \A m, p, x, c : LaneShape(m) =>
          [m EXCEPT !.phase = p, !.change = c, !.text = x] =
            [phase |-> p, todo |-> m.todo, now |-> m.now, text |-> x, change |-> c]
    BY OpenedLane
  <2> QED
    BY <1>1, <1>b, <2>1, Zenon
<1>3. lane' = [u \in Turns |-> IF u = t THEN l ELSE lane[u]]
  BY <1>1, <1>a, <1>b DEF ReadRecords
<1>4. /\ store' = store /\ clock' = clock /\ written' = written
      /\ exposed' = IF store.state = "text" THEN exposed
                    ELSE exposed \cup DOMAIN written
  BY DEF ReadRecords
<1>5. /\ AllTimely(text) /\ DOMAIN text = DOMAIN change \cup DOMAIN ReadAll
      /\ \A i \in DOMAIN change : text[i] = change[i]
      /\ \A i \in DOMAIN ReadAll \ DOMAIN change : text[i] = ReadAll[i]
  <2>1. AllTimely(ReadAll)
    BY ReadAllTimely
  <2>2. \A records : AllTimely(records) =>
          /\ AllTimely(TextWith(records, change))
          /\ DOMAIN TextWith(records, change) = DOMAIN change \cup DOMAIN records
          /\ \A i \in DOMAIN change : TextWith(records, change)[i] = change[i]
          /\ \A i \in DOMAIN records \ DOMAIN change :
               TextWith(records, change)[i] = records[i]
    BY TextWithSound
  <2> QED
    BY <1>a, <2>1, <2>2, Zenon
<1>6. \A i \in (DOMAIN written \ exposed') \ DOMAIN change :
        i \in DOMAIN text /\ text[i] = written[i]
  <2>1. CASE store.state = "text"
    BY <1>4, <1>5, <2>1 DEF MemoryInv, RecordsAsWritten, ReadAll
  <2>2. CASE store.state # "text"
    BY <1>4, <2>2
  <2> QED
    BY <2>1, <2>2
<1>7. LaneShape(l) /\ l.text = text /\ l.change = change
  BY <1>1, <1>2, <1>5 DEF LaneShape
<1>8. ASSUME NEW u \in Turns, lane'[u].phase \in WritingPhases
      PROVE  Knows(lane[u])'
  <2>1. CASE u = t
    BY <1>3, <1>4, <1>5, <1>6, <1>7, <2>1 DEF Knows
  <2>2. CASE u # t
    <3>1. lane'[u] = lane[u] /\ Knows(lane[u])
      BY <1>3, <1>8, <2>2 DEF MemoryInv
    <3> QED
      BY <1>4, <3>1 DEF Knows
  <2> QED
    BY <2>1, <2>2
<1>9. RecordsAsWritten'
  BY <1>4 DEF MemoryInv, RecordsAsWritten
<1>10. \A u \in Turns : LaneShape(lane'[u])
  BY <1>3, <1>7 DEF MemoryInv
<1> QED
  BY <1>1, <1>3, <1>4, <1>8, <1>9, <1>10 DEF MemoryInv

LEMMA TruncateStep ==
  ASSUME MemoryInv, NEW t \in Turns, TruncateRecords(t)
  PROVE  MemoryInv'
<1> DEFINE l == [lane[t] EXCEPT !.phase = "truncated"]
<1>1. /\ lane = [u \in Turns |-> lane[u]] /\ LaneShape(lane[t])
      /\ clock \in Int /\ lane[t].phase = "opening" /\ Knows(lane[t])
  BY DEF MemoryInv, TruncateRecords, WritingPhases
<1>2. l = [phase |-> "truncated", todo |-> lane[t].todo, now |-> lane[t].now,
           text |-> lane[t].text, change |-> lane[t].change]
  BY <1>1 DEF LaneShape
<1>3. lane' = [u \in Turns |-> IF u = t THEN l ELSE lane[u]]
  BY <1>1 DEF TruncateRecords
<1>4. /\ store' = [state |-> "blank", records |-> NoRecords]
      /\ clock' = clock /\ written' = written /\ exposed' = exposed
  BY DEF TruncateRecords
<1> HIDE DEF l
<1>5. LaneShape(l) /\ l.text = lane[t].text /\ l.change = lane[t].change
  BY <1>1, <1>2 DEF LaneShape
<1>6. ASSUME NEW u \in Turns, lane'[u].phase \in WritingPhases
      PROVE  Knows(lane[u])'
  <2>1. lane'[u].text = lane[u].text /\ lane'[u].change = lane[u].change
    BY <1>3, <1>5
  <2>2. Knows(lane[u])
    BY <1>1, <1>3, <1>6 DEF MemoryInv
  <2> QED
    BY <1>4, <2>1, <2>2 DEF Knows
<1>7. RecordsAsWritten' /\ AllTimely(store'.records)
  BY <1>4, NoRecordsTimely DEF RecordsAsWritten
<1>8. \A u \in Turns : LaneShape(lane'[u])
  BY <1>3, <1>5 DEF MemoryInv
<1> QED
  BY <1>1, <1>3, <1>4, <1>6, <1>7, <1>8 DEF MemoryInv

LEMMA WriteStep ==
  ASSUME MemoryInv, NEW t \in Turns, WriteAll(t)
  PROVE  MemoryInv'
<1> DEFINE text == lane[t].text
<1> DEFINE l == [lane[t] EXCEPT !.phase = "logging"]
<1>1. /\ lane = [u \in Turns |-> lane[u]] /\ LaneShape(lane[t])
      /\ clock \in Int /\ Knows(lane[t])
  BY DEF MemoryInv, WriteAll, WritingPhases
<1>2. l = [phase |-> "logging", todo |-> lane[t].todo, now |-> lane[t].now,
           text |-> lane[t].text, change |-> lane[t].change]
  BY <1>1 DEF LaneShape
<1>3. lane' = [u \in Turns |-> IF u = t THEN l ELSE lane[u]] /\ clock' = clock
  BY <1>1 DEF WriteAll
<1>4. /\ \/ store' = [state |-> "text", records |-> text]
         \/ store' = [state |-> "garbled", records |-> NoRecords]
      /\ written' = Changed(written, lane[t].change)
      /\ exposed' = exposed \cup UNION {UnknownTo(u, text) : u \in Turns \ {t}}
  BY DEF WriteAll
<1> HIDE DEF l
<1>5. LaneShape(l) /\ l.phase \notin WritingPhases
  BY <1>1, <1>2 DEF LaneShape, WritingPhases
<1>6. /\ DOMAIN written' = DOMAIN lane[t].change \cup DOMAIN written
      /\ \A i \in DOMAIN lane[t].change : written'[i] = lane[t].change[i]
      /\ \A i \in DOMAIN written \ DOMAIN lane[t].change : written'[i] = written[i]
  BY <1>4 DEF Changed
<1>7. \A i \in DOMAIN written' \ exposed' :
        i \in DOMAIN text /\ text[i] = written'[i]
  BY <1>1, <1>4, <1>6 DEF Knows
<1>8. RecordsAsWritten'
  BY <1>4, <1>7 DEF RecordsAsWritten
<1>9. AllTimely(store'.records)
  BY <1>1, <1>4, NoRecordsTimely DEF LaneShape
<1>10. ASSUME NEW u \in Turns, lane'[u].phase \in WritingPhases
       PROVE  Knows(lane[u])'
  <2>1. u # t /\ lane'[u] = lane[u] /\ Knows(lane[u])
    BY <1>3, <1>5, <1>10 DEF MemoryInv
  <2>2. \A i \in DOMAIN text \ exposed' :
          i \in DOMAIN lane[u].text /\ lane[u].text[i] = text[i]
    BY <1>4, <1>10, <2>1 DEF UnknownTo, WritingPhases
  <2>3. ASSUME NEW i \in (DOMAIN written' \ exposed') \ DOMAIN lane[u].change
        PROVE  i \in DOMAIN lane[u].text /\ lane[u].text[i] = written'[i]
    BY <1>7, <2>2
  <2> QED
    BY <2>1, <2>3 DEF Knows
<1>11. \A u \in Turns : LaneShape(lane'[u])
  BY <1>3, <1>5 DEF MemoryInv
<1> QED
  BY <1>1, <1>3, <1>8, <1>9, <1>10, <1>11 DEF MemoryInv

\* The steps of an operation that do not read or write the file.
LEMMA IdleShape == LaneShape(IdleLane) /\ IdleLane.phase = "idle"
BY NoRecordsTimely DEF LaneShape, IdleLane

LEMMA CreateStep ==
  ASSUME MemoryInv, NEW t \in Turns, NEW record, Timely(record), NEW todo,
         StartCreate(t, record, todo)
  PROVE  MemoryInv'
<1> DEFINE l == [phase |-> "reading", todo |-> todo, now |-> clock,
                 text |-> NoRecords, change |-> [i \in {created + 1} |-> record]]
<1>1. lane' = [lane EXCEPT ![t] = l] /\ UNCHANGED <<store, clock, written, exposed>>
  BY DEF StartCreate
<1>2. AllTimely([i \in {created + 1} |-> record])
  BY DEF AllTimely
<1>3. LaneShape(l) /\ l.phase \notin WritingPhases
  BY <1>2, NoRecordsTimely DEF MemoryInv, LaneShape, WritingPhases
<1> HIDE DEF l
<1> QED
  BY <1>1, <1>3, QuietLane

LEMMA LogStep ==
  ASSUME MemoryInv, NEW t \in Turns, LogOperation(t)
  PROVE  MemoryInv'
<1> DEFINE l == IF lane[t].todo = {} THEN IdleLane
                ELSE [lane[t] EXCEPT !.phase = "renaming", !.text = NoRecords]
<1>1. LaneShape(lane[t])
  BY DEF MemoryInv
<1>2. lane' = [lane EXCEPT ![t] = l] /\ UNCHANGED <<store, clock, written, exposed>>
  BY DEF LogOperation
<1>3. LaneShape(l) /\ l.phase \notin WritingPhases
  <2>1. CASE lane[t].todo = {}
    BY <2>1, IdleShape DEF WritingPhases
  <2>2. CASE lane[t].todo # {}
    <3>1. l = [phase |-> "renaming", todo |-> lane[t].todo, now |-> lane[t].now,
               text |-> NoRecords, change |-> lane[t].change]
      BY <1>1, <2>2 DEF LaneShape
    <3> QED
      BY <1>1, <3>1, NoRecordsTimely DEF LaneShape, WritingPhases
  <2> QED
    BY <2>1, <2>2
<1> HIDE DEF l
<1> QED
  BY <1>2, <1>3, QuietLane

LEMMA SkipStep ==
  ASSUME MemoryInv, NEW t \in Turns, NEW f, SkipOverride(t, f)
  PROVE  MemoryInv'
<1> DEFINE l == [lane[t] EXCEPT !.todo = @ \ {f}]
<1>1. LaneShape(lane[t]) /\ lane[t].phase = "scanning"
  BY DEF MemoryInv, SkipOverride
<1>2. lane' = [lane EXCEPT ![t] = l] /\ UNCHANGED <<store, clock, written, exposed>>
  BY DEF SkipOverride
<1>3. l = [phase |-> "scanning", todo |-> lane[t].todo \ {f}, now |-> lane[t].now,
           text |-> lane[t].text, change |-> lane[t].change]
  BY <1>1 DEF LaneShape
<1>4. LaneShape(l) /\ l.phase \notin WritingPhases
  BY <1>1, <1>3 DEF LaneShape, WritingPhases
<1> HIDE DEF l
<1> QED
  BY <1>2, <1>4, QuietLane

\* The lanes of the promotion and of a scan that starts, goes on or ends.
LEMMA LaneStep ==
  ASSUME MemoryInv, NEW t \in Turns,
         \/ RunAutoPromotion(t) \/ NothingToPromote(t) \/ IngestOverrideFiles(t)
         \/ ScanEnds(t) \/ RenameOverride(t)
  PROVE  MemoryInv'
<1>1. IdleLane = [phase |-> "idle", todo |-> {}, now |-> 0, text |-> NoRecords,
                  change |-> NoRecords]
  BY DEF IdleLane
<1>2. PICK l : /\ lane' = [lane EXCEPT ![t] = l]
               /\ \/ l = IdleLane
                  \/ l = [IdleLane EXCEPT !.phase = "reading", !.now = clock]
                  \/ l = [IdleLane EXCEPT !.phase = "scanning", !.todo = overrides]
                  \/ l = [IdleLane EXCEPT !.phase = "scanning",
                                          !.todo = lane[t].todo \ {OverrideOf(t)}]
  BY DEF RunAutoPromotion, NothingToPromote, IngestOverrideFiles, ScanEnds,
         RenameOverride
<1>3. UNCHANGED <<store, clock, written, exposed>>
  BY DEF RunAutoPromotion, NothingToPromote, IngestOverrideFiles, ScanEnds,
         RenameOverride
<1>4. PICK phase, todo, time :
        /\ l = [phase |-> phase, todo |-> todo, now |-> time, text |-> NoRecords,
                change |-> NoRecords]
        /\ phase \notin WritingPhases /\ time \in {0, clock}
  <2>1. "idle" \notin WritingPhases /\ "reading" \notin WritingPhases
    BY DEF WritingPhases
  <2>2. l = [IdleLane EXCEPT !.phase = "reading", !.now = clock] =>
          l = [phase |-> "reading", todo |-> {}, now |-> clock, text |-> NoRecords,
               change |-> NoRecords]
    BY <1>1
  <2>3. ASSUME NEW todo, l = [IdleLane EXCEPT !.phase = "scanning", !.todo = todo]
        PROVE  l = [phase |-> "scanning", todo |-> todo, now |-> 0,
                    text |-> NoRecords, change |-> NoRecords]
    BY <1>1, <2>3
  <2>4. "scanning" \notin WritingPhases
    BY DEF WritingPhases
  <2> QED
    <3>1. CASE l = IdleLane
      BY <1>1, <2>1, <3>1, Zenon
    <3>2. CASE l # IdleLane
      BY <1>2, <2>1, <2>2, <2>3, <2>4, <3>2
    <3> QED
      BY <3>1, <3>2
<1>5. LaneShape(l) /\ l.phase \notin WritingPhases
  BY <1>4, NoRecordsTimely DEF MemoryInv, LaneShape
<1> QED
  BY <1>2, <1>3, <1>5, QuietLane

LEMMA FailStep ==
  ASSUME MemoryInv, NEW t \in Turns, OperationFails(t)
  PROVE  MemoryInv'
<1>1. PICK rest : rest = lane[t].todo \ Held(t)
  OBVIOUS
<1>2. PICK l : /\ l = IF lane[t].todo = {} THEN IdleLane
                      ELSE [IdleLane EXCEPT !.phase = "scanning", !.todo = rest]
  OBVIOUS
<1>3. /\ lane' = [lane EXCEPT ![t] = l]
      /\ UNCHANGED <<store, clock, written, exposed>>
  BY <1>1, <1>2 DEF OperationFails, MemoryInv
<1>a. IdleLane = [phase |-> "idle", todo |-> {}, now |-> 0, text |-> NoRecords,
                  change |-> NoRecords]
  BY DEF IdleLane
<1>4. ASSUME NEW k, k = [IdleLane EXCEPT !.phase = "scanning", !.todo = rest]
      PROVE  k = [phase |-> "scanning", todo |-> rest, now |-> 0, text |-> NoRecords,
                  change |-> NoRecords]
  BY <1>a, <1>4
<1>5. LaneShape(l) /\ l.phase \notin WritingPhases
  <2>1. CASE l = IdleLane
    BY <2>1, IdleShape DEF WritingPhases
  <2>2. CASE l # IdleLane
    <3>1. l = [phase |-> "scanning", todo |-> rest, now |-> 0, text |-> NoRecords,
               change |-> NoRecords]
      BY <1>2, <1>4, <2>2
    <3> QED
      BY <3>1, NoRecordsTimely DEF LaneShape, WritingPhases
  <2> QED
    BY <2>1, <2>2
<1> QED
  BY <1>3, <1>5, QuietLane

LEMMA OperateStep ==
  ASSUME MemoryInv, NEW t \in Turns, Operate(t)
  PROVE  MemoryInv'
<1>1. CASE CreateFromFriction(t)
  <2>1. Timely(NewRecord("strategy_signal", "pending", "friction"))
    BY DEF MemoryInv, Timely, RecordShape, NewRecord, HumanApprovalRequired
  <2> QED
    BY <1>1, <2>1, CreateStep DEF CreateFromFriction
<1>2. CASE AddToRecords(t)
  BY <1>2, ReadStep DEF AddToRecords, MemoryInv, LaneShape
<1>3. CASE PromoteRecords(t)
  <2>1. AllTimely(Promoted(ReadAll, lane[t].now))
    BY ReadAllTimely, PromotedTimely DEF MemoryInv, LaneShape
  <2> QED
    BY <1>3, <2>1, ReadStep DEF PromoteRecords
<1>4. ASSUME NEW f \in Overrides, TakeOverride(t, f) PROVE MemoryInv'
  <2>1. Timely(NewRecord(Enforcement[f], "approved", f))
    BY DEF MemoryInv, Timely, RecordShape, NewRecord
  <2> QED
    BY <1>4, <2>1, CreateStep DEF TakeOverride
<1>5. ASSUME NEW f \in Overrides, SkipOverride(t, f) PROVE MemoryInv'
  BY <1>5, SkipStep
<1>6. CASE TruncateRecords(t)
  BY <1>6, TruncateStep
<1>7. CASE WriteAll(t)
  BY <1>7, WriteStep
<1>8. CASE LogOperation(t)
  BY <1>8, LogStep
<1>9. CASE \/ RunAutoPromotion(t) \/ NothingToPromote(t) \/ IngestOverrideFiles(t)
           \/ ScanEnds(t) \/ RenameOverride(t)
  BY <1>9, LaneStep
<1>10. CASE OperationFails(t)
  BY <1>10, FailStep
<1> QED
  BY <1>1, <1>2, <1>3, <1>4, <1>5, <1>6, <1>7, <1>8, <1>9, <1>10 DEF Operate

LEMMA MemoryStep == MemoryInv /\ [MemoryNext]_memoryVars => MemoryInv'
<1> SUFFICES ASSUME MemoryInv, [MemoryNext]_memoryVars PROVE MemoryInv'
  OBVIOUS
<1>1. CASE MemoryCrash
  <2>1. lane' = [t \in Turns |-> IdleLane] /\ clock' = clock
    BY <1>1 DEF MemoryCrash
  <2>2. UNCHANGED <<store, written, exposed>>
    BY <1>1 DEF MemoryCrash
  <2>3. IdleLane.phase \notin WritingPhases /\ clock \in Int
    BY IdleShape DEF WritingPhases, MemoryInv
  <2> QED
    BY <2>1, <2>2, <2>3, IdleShape, QuietStep
<1>2. CASE ClockTicks
  <2>1. clock' \in Int /\ lane' = lane /\ UNCHANGED <<store, written, exposed>>
    BY <1>2 DEF ClockTicks, MemoryInv
  <2>2. lane' = [t \in Turns |-> lane'[t]]
    BY <2>1 DEF MemoryInv
  <2> QED
    BY <2>1, <2>2, QuietStep
<1>3. CASE UNCHANGED memoryVars
  <2>1. /\ lane' = lane /\ clock' = clock /\ UNCHANGED <<store, written, exposed>>
    BY <1>3 DEF memoryVars
  <2>2. clock' \in Int /\ lane' = [t \in Turns |-> lane'[t]]
    BY <2>1 DEF MemoryInv
  <2> QED
    BY <2>1, <2>2, QuietStep
<1> QED
  BY <1>1, <1>2, <1>3, OperateStep DEF MemoryNext

LEMMA MemoryStarts == MemoryInit => MemoryInv
<1> SUFFICES ASSUME MemoryInit PROVE MemoryInv
  OBVIOUS
<1>1. lane = [t \in Turns |-> IdleLane]
  BY DEF MemoryInit
<1>2. \A t \in Turns : lane[t].phase \notin WritingPhases /\ LaneShape(lane[t])
  BY <1>1, IdleShape DEF WritingPhases
<1>3. AllTimely(store.records) /\ RecordsAsWritten
  BY NoRecordsTimely DEF MemoryInit, RecordsAsWritten
<1> QED
  BY <1>1, <1>2, <1>3 DEF MemoryInit, MemoryInv

LEMMA MemoryInvariant == MemorySpec => []MemoryInv
BY MemoryStarts, MemoryStep, PTL DEF MemorySpec

\* However many turns create, ingest and promote at once, and wherever the
\* process dies: a record leaves the file, or goes back to an earlier state,
\* only by a write that was in flight when it was written, or by one whose
\* text was read while the file had none (readAll, writeAll).
THEOREM RecordsKept == MemorySpec => []RecordsAsWritten
<1>1. MemoryInv => RecordsAsWritten
  BY DEF MemoryInv
<1> QED
  BY <1>1, MemoryInvariant, PTL

\* Whatever was lost or written back: no record is promoted or expires before
\* its windows are over, and what people must approve is not promoted by time
\* (runAutoPromotion).
THEOREM NonePromotedEarly == MemorySpec => []PromotedOnTime
<1>1. MemoryInv => PromotedOnTime
  BY DEF MemoryInv, AllTimely, Timely, PromotedOnTime
<1> QED
  BY <1>1, MemoryInvariant, PTL


-----------------------------------------------------------------------------
(* Events.                                                                 *)

Appends == {NoAppend} \cup [phase : {"writing", "written"}, event : Events]

\* The ring holds the last events pushed, as many as the limit lets it.
Latest ==
  /\ Len(ring) = IF Len(pushed) < Limit THEN Len(pushed) ELSE Limit
  /\ \A i \in 1 .. Len(ring) : ring[i] = pushed[Len(pushed) - Len(ring) + i]

\* The line of an event is in the file before the event is pushed.
WrittenFirst ==
  /\ \A w \in Writers : append[w].phase = "written" => append[w].event \in ToSet(file)
  /\ ToSet(pushed) \subseteq ToSet(file)

EventInv ==
  /\ file \in Seq(Events) /\ ring \in Seq(Events) /\ pushed \in Seq(Events)
  /\ append \in [Writers -> Appends] /\ appended \in Nat
  /\ Latest /\ WrittenFirst

LEMMA BeginAppendKeeps ==
  ASSUME EventInv, NEW w \in Writers, BeginAppend(w)
  PROVE  EventInv'
<1>1. PICK d \in DenyReasons \cup {NoReasons} :
        append' = [append EXCEPT ![w] =
          [phase |-> "writing", event |-> [number |-> appended + 1, denyReasons |-> d]]]
  BY DEF BeginAppend
<1>2. PICK e : e = [number |-> appended + 1, denyReasons |-> d] OBVIOUS
<1>3. e \in Events
  BY <1>2, EventsAssumption DEF EventInv, BeginAppend, Events
<1>4. PICK a : a = [phase |-> "writing", event |-> e] OBVIOUS
<1>5. a \in Appends /\ a.phase = "writing" BY <1>3, <1>4 DEF Appends
<1>6. append' = [append EXCEPT ![w] = a] BY <1>1, <1>2, <1>4
<1>7. append' \in [Writers -> Appends] BY <1>5, <1>6 DEF EventInv
<1>8. \A v \in Writers : append'[v] = IF v = w THEN a ELSE append[v]
  BY <1>6 DEF EventInv
<1>9. WrittenFirst' BY <1>5, <1>8 DEF EventInv, WrittenFirst, BeginAppend
<1>10. UNCHANGED <<file, ring, pushed>> /\ appended' \in Nat
  BY DEF BeginAppend, EventInv
<1>. QED BY <1>7, <1>9, <1>10 DEF EventInv, Latest

LEMMA AppendJsonlKeeps ==
  ASSUME EventInv, NEW w \in Writers, AppendJsonl(w)
  PROVE  EventInv'
<1>1. PICK e : e = append[w].event OBVIOUS
<1>2. append[w] \in [phase : {"writing", "written"}, event : Events]
  BY DEF EventInv, AppendJsonl, Appends, NoAppend
<1>3. e \in Events BY <1>1, <1>2
<1>4. file' = Append(file, e) /\ UNCHANGED <<ring, pushed, appended>>
  BY <1>1 DEF AppendJsonl
<1>5. /\ file' \in Seq(Events)
      /\ ToSet(file) \subseteq ToSet(file') /\ e \in ToSet(file')
  <2>1. file \in Seq(Events) BY DEF EventInv
  <2>2. /\ DOMAIN file \subseteq DOMAIN file' /\ file' \in Seq(Events)
        /\ \A i \in DOMAIN file : file'[i] = file[i]
        /\ Len(file) + 1 \in DOMAIN file' /\ file'[Len(file) + 1] = e
    BY <2>1, <1>3, <1>4
  <2>. QED BY <2>2 DEF ToSet
<1>6. PICK a : a = [append[w] EXCEPT !.phase = "written"] OBVIOUS
<1>7. a \in Appends /\ a.event = e BY <1>1, <1>2, <1>6 DEF Appends
<1>8. append' = [append EXCEPT ![w] = a] BY <1>6 DEF AppendJsonl
<1>9. /\ append' \in [Writers -> Appends]
      /\ \A v \in Writers : append'[v] = IF v = w THEN a ELSE append[v]
  BY <1>7, <1>8 DEF EventInv
<1>10. WrittenFirst' BY <1>4, <1>5, <1>7, <1>9 DEF EventInv, WrittenFirst
<1>. QED BY <1>4, <1>5, <1>9, <1>10 DEF EventInv, Latest

LEMMA RememberKeeps ==
  ASSUME EventInv, NEW w \in Writers, Remember(w)
  PROVE  EventInv'
<1>1. PICK e : e = append[w].event OBVIOUS
<1>2. append[w] \in [phase : {"writing", "written"}, event : Events]
  BY DEF EventInv, Remember, Appends, NoAppend
<1>3. e \in Events /\ e \in ToSet(file)
  BY <1>1, <1>2 DEF EventInv, WrittenFirst, Remember
<1>4. /\ ring \in Seq(Events) /\ pushed \in Seq(Events)
      /\ Len(ring) \in Nat /\ Len(pushed) \in Nat /\ Limit \in Nat \ {0}
  BY EventsAssumption DEF EventInv
<1>5. pushed' = Append(pushed, e) /\ ring' = Push(ring, e) /\ file' = file /\ appended' = appended
  BY <1>1 DEF Remember
<1>6. /\ pushed' \in Seq(Events) /\ Len(pushed') = Len(pushed) + 1
      /\ \A i \in 1 .. Len(pushed) : pushed'[i] = pushed[i]
      /\ pushed'[Len(pushed) + 1] = e
  BY <1>3, <1>4, <1>5
<1>7. PICK r : r = Append(ring, e) OBVIOUS
<1>8. /\ r \in Seq(Events) /\ Len(r) = Len(ring) + 1
      /\ \A i \in 1 .. Len(ring) : r[i] = ring[i]
      /\ r[Len(ring) + 1] = e
  BY <1>3, <1>4, <1>7
<1>9. Len(ring) = IF Len(pushed) < Limit THEN Len(pushed) ELSE Limit
  BY DEF EventInv, Latest
<1>10. \A i \in 1 .. Len(r) : r[i] = pushed'[Len(pushed') - Len(r) + i]
  <2>. TAKE i \in 1 .. Len(r)
  <2>1. CASE i \in 1 .. Len(ring)
    <3>1. ring[i] = pushed[Len(pushed) - Len(ring) + i] BY <2>1 DEF EventInv, Latest
    <3>2. Len(pushed) - Len(ring) + i \in 1 .. Len(pushed) BY <2>1, <1>4, <1>9
    <3>3. Len(pushed') - Len(r) + i = Len(pushed) - Len(ring) + i BY <2>1, <1>4, <1>6, <1>8
    <3>. QED BY <3>1, <3>2, <3>3, <2>1, <1>6, <1>8
  <2>2. CASE i = Len(ring) + 1
    <3>1. Len(pushed') - Len(r) + i = Len(pushed) + 1 BY <2>2, <1>4, <1>6, <1>8
    <3>. QED BY <3>1, <2>2, <1>6, <1>8
  <2>3. i \in 1 .. Len(ring) + 1 BY <1>8
  <2>. QED BY <2>1, <2>2, <2>3, <1>4
<1>11. ring' \in Seq(Events) /\ Latest'
  <2>1. CASE Len(ring) + 1 > Limit
    <3>1. ring' = Tail(r) BY <2>1, <1>5, <1>7 DEF Push
    <3>2. /\ ring' \in Seq(Events) /\ Len(ring') = Len(ring)
          /\ \A i \in 1 .. Len(ring) : ring'[i] = r[i + 1]
      BY <3>1, <1>4, <1>8
    <3>3. Len(ring) = Limit /\ Len(pushed) >= Limit BY <2>1, <1>4, <1>9
    <3>4. \A i \in 1 .. Len(ring') : ring'[i] = pushed'[Len(pushed') - Len(ring') + i]
      <4>. TAKE i \in 1 .. Len(ring')
      <4>1. i \in 1 .. Len(ring) /\ i + 1 \in 1 .. Len(r) BY <3>2, <1>4, <1>8
      <4>2. r[i + 1] = pushed'[Len(pushed') - Len(r) + (i + 1)] BY <4>1, <1>10
      <4>3. Len(pushed') - Len(r) + (i + 1) = Len(pushed') - Len(ring') + i
        BY <4>1, <3>2, <1>4, <1>6, <1>8
      <4>. QED BY <4>1, <4>2, <4>3, <3>2
    <3>5. Len(ring') = IF Len(pushed') < Limit THEN Len(pushed') ELSE Limit
      BY <3>2, <3>3, <1>4, <1>6
    <3>. QED BY <3>2, <3>4, <3>5 DEF Latest
  <2>2. CASE ~ (Len(ring) + 1 > Limit)
    <3>1. ring' = r BY <2>2, <1>5, <1>7 DEF Push
    <3>2. Len(ring') = IF Len(pushed') < Limit THEN Len(pushed') ELSE Limit
      BY <2>2, <3>1, <1>4, <1>6, <1>8, <1>9
    <3>. QED BY <3>1, <3>2, <1>8, <1>10 DEF Latest
  <2>. QED BY <2>1, <2>2
<1>12. /\ append' \in [Writers -> Appends]
       /\ \A v \in Writers : append'[v] = IF v = w THEN NoAppend ELSE append[v]
  BY DEF EventInv, Remember, Appends
<1>13. ToSet(pushed') \subseteq ToSet(file)
  <2>. SUFFICES ASSUME NEW i \in 1 .. Len(pushed) + 1 PROVE pushed'[i] \in ToSet(file)
    BY <1>6 DEF ToSet
  <2>1. CASE i \in 1 .. Len(pushed)
    <3>1. pushed[i] \in ToSet(pushed) BY <2>1, <1>4 DEF ToSet
    <3>. QED BY <3>1, <2>1, <1>6 DEF EventInv, WrittenFirst
  <2>2. CASE i = Len(pushed) + 1 BY <2>2, <1>3, <1>6
  <2>. QED BY <2>1, <2>2, <1>4
<1>14. NoAppend.phase # "written" BY DEF NoAppend
<1>15. WrittenFirst' BY <1>5, <1>12, <1>13, <1>14 DEF EventInv, WrittenFirst
<1>. QED BY <1>5, <1>6, <1>11, <1>12, <1>15 DEF EventInv

LEMMA EmptyLife ==
  ASSUME file \in Seq(Events), ring = <<>>, pushed = <<>>, appended \in Nat,
         append = [w \in Writers |-> NoAppend]
  PROVE  EventInv
<1>1. Latest BY EventsAssumption DEF Latest
<1>2. WrittenFirst BY DEF WrittenFirst, NoAppend, ToSet
<1>3. append \in [Writers -> Appends] BY DEF Appends
<1>. QED BY <1>1, <1>2, <1>3 DEF EventInv

LEMMA EventInvariant == EventsSpec => []EventInv
<1>1. EventsInit => EventInv BY EmptyLife DEF EventsInit
<1>2. EventInv /\ [EventsNext]_eventVars => EventInv'
  <2>. SUFFICES ASSUME EventInv, [EventsNext]_eventVars PROVE EventInv' OBVIOUS
  <2>1. CASE EventsRestart
    <3>1. /\ file' \in Seq(Events) /\ ring' = <<>> /\ pushed' = <<>> /\ appended' \in Nat
          /\ append' = [w \in Writers |-> NoAppend]
      BY <2>1 DEF EventsRestart, EventInv
    <3>2. Latest' BY <3>1, EventsAssumption DEF Latest
    <3>3. WrittenFirst' BY <3>1 DEF WrittenFirst, NoAppend, ToSet
    <3>4. append' \in [Writers -> Appends] BY <3>1 DEF Appends
    <3>. QED BY <3>1, <3>2, <3>3, <3>4 DEF EventInv
  <2>2. CASE UNCHANGED eventVars
    BY <2>2 DEF eventVars, EventInv, Latest, WrittenFirst
  <2>. QED BY <2>1, <2>2, BeginAppendKeeps, AppendJsonlKeeps, RememberKeeps DEF EventsNext
<1>. QED BY <1>1, <1>2, PTL DEF EventsSpec

\* Whatever the order in which overlapping appends reach the file and the
\* ring, the ring is the latest events of this life and each of them is in
\* events.jsonl (append).
THEOREM RingLatest == EventsSpec => []RingIsLatest
<1>1. EventInv => RingIsLatest
  <2>. SUFFICES ASSUME EventInv PROVE RingIsLatest OBVIOUS
  <2>1. /\ Len(ring) \in Nat /\ Len(pushed) \in Nat /\ Limit \in Nat
        /\ DOMAIN ring = 1 .. Len(ring) /\ DOMAIN pushed = 1 .. Len(pushed)
    BY EventsAssumption DEF EventInv
  <2>2. Len(ring) <= Len(pushed) BY <2>1 DEF EventInv, Latest
  <2>3. PICK r, p : r = Reverse(ring) /\ p = Reverse(pushed) OBVIOUS
  <2>4. /\ r \in Seq(Events) /\ Len(r) = Len(ring)
        /\ \A i \in 1 .. Len(ring) : r[i] = ring[Len(ring) - i + 1]
    BY <2>1, <2>3 DEF Reverse, EventInv
  <2>5. /\ p \in Seq(Events) /\ Len(p) = Len(pushed)
        /\ \A i \in 1 .. Len(pushed) : p[i] = pushed[Len(pushed) - i + 1]
    BY <2>1, <2>3 DEF Reverse, EventInv
  <2>6. \A i \in 1 .. Len(ring) : r[i] = p[i]
    <3>. TAKE i \in 1 .. Len(ring)
    <3>1. Len(ring) - i + 1 \in 1 .. Len(ring) BY <2>1
    <3>2. ring[Len(ring) - i + 1] = pushed[Len(pushed) - Len(ring) + (Len(ring) - i + 1)]
      BY <3>1 DEF EventInv, Latest
    <3>3. Len(pushed) - Len(ring) + (Len(ring) - i + 1) = Len(pushed) - i + 1 BY <2>1
    <3>4. i \in 1 .. Len(pushed) BY <2>1, <2>2
    <3>. QED BY <3>2, <3>3, <3>4, <2>4, <2>5
  <2>7. IsPrefix(r, p)
    <3>1. SubSeq(r, 1, Len(r)) = SubSeq(p, 1, Len(r)) BY <2>1, <2>2, <2>4, <2>5, <2>6
    <3>. QED BY <3>1, <2>2, <2>4, <2>5 DEF IsPrefix
  <2>. QED BY <2>3, <2>7 DEF RingIsLatest, IsSuffix, EventInv, Latest, WrittenFirst
<1>. QED BY <1>1, EventInvariant, PTL

FileLists == Seq(PackFiles)

-----------------------------------------------------------------------------
(* Context packs: lists of files.                                          *)

LEMMA LeastNumber ==
  ASSUME NEW S, S \subseteq Nat, S # {}
  PROVE  \E m \in S : \A n \in S : m <= n
<1>1. PICK m \in S : \A n \in S : <<n, m>> \notin OpToRel(<, Nat)
  BY WFMin, NatLessThanWellFounded, Zenon
<1>2. \A n \in S : ~ (n < m) BY <1>1 DEF OpToRel
<1>. QED BY <1>2

LEMMA JoinedLists ==
  ASSUME NEW s \in FileLists, NEW u \in FileLists
  PROVE  s \o u \in FileLists /\ FilesOf(s \o u) = FilesOf(s) \cup FilesOf(u)
<1>1. s \o u \in FileLists BY DEF FileLists
<1>2. PICK c : c = s \o u OBVIOUS
<1>3. Len(s) \in Nat /\ Len(u) \in Nat /\ c \in Seq(PackFiles)
  BY <1>1, <1>2 DEF FileLists
<1>4. /\ Len(c) = Len(s) + Len(u)
      /\ \A i \in 1 .. Len(s) : c[i] = s[i]
      /\ \A i \in 1 .. Len(u) : c[Len(s) + i] = u[i]
  BY <1>2 DEF FileLists
<1>5. /\ DOMAIN s = 1 .. Len(s) /\ DOMAIN u = 1 .. Len(u) /\ DOMAIN c = 1 .. Len(c)
  BY <1>3 DEF FileLists
<1>6. FilesOf(s) \subseteq FilesOf(c)
  <2>1. \A i \in 1 .. Len(s) : i \in 1 .. Len(c) BY <1>3, <1>4
  <2>. QED BY <2>1, <1>4, <1>5 DEF FilesOf, ToSet
<1>7. FilesOf(u) \subseteq FilesOf(c)
  <2>1. \A i \in 1 .. Len(u) : Len(s) + i \in 1 .. Len(c) BY <1>3, <1>4
  <2>. QED BY <2>1, <1>4, <1>5 DEF FilesOf, ToSet
<1>8. ASSUME NEW i \in 1 .. Len(c) PROVE c[i] \in FilesOf(s) \cup FilesOf(u)
  <2>1. CASE i \in 1 .. Len(s) BY <2>1, <1>4, <1>5 DEF FilesOf, ToSet
  <2>2. CASE i \notin 1 .. Len(s)
    <3>1. PICK k \in 1 .. Len(u) : i = Len(s) + k
      <4>1. i - Len(s) \in 1 .. Len(u) /\ i = Len(s) + (i - Len(s)) BY <2>2, <1>3, <1>4
      <4>. QED BY <4>1
    <3>. QED BY <3>1, <1>4, <1>5 DEF FilesOf, ToSet
  <2>. QED BY <2>1, <2>2
<1>9. FilesOf(c) \subseteq FilesOf(s) \cup FilesOf(u) BY <1>5, <1>8 DEF FilesOf, ToSet
<1>. QED BY <1>1, <1>2, <1>6, <1>7, <1>9

\* Two lists without a common file, each with every file once.
LEMMA JoinedOnce ==
  ASSUME NEW s \in FileLists, NEW u \in FileLists, IsInjective(s), IsInjective(u),
         FilesOf(s) \cap FilesOf(u) = {}
  PROVE  IsInjective(s \o u)
<1>1. PICK c : c = s \o u OBVIOUS
<1>2. /\ Len(s) \in Nat /\ Len(u) \in Nat
      /\ DOMAIN s = 1 .. Len(s) /\ DOMAIN u = 1 .. Len(u)
  BY DEF FileLists
<1>3. /\ DOMAIN c = 1 .. (Len(s) + Len(u))
      /\ \A i \in 1 .. Len(s) : c[i] = s[i]
      /\ \A i \in 1 .. (Len(s) + Len(u)) : i > Len(s) => c[i] = u[i - Len(s)]
  BY <1>1 DEF FileLists
<1>4. ASSUME NEW i \in DOMAIN c, NEW j \in DOMAIN c, c[i] = c[j] PROVE i = j
  <2>1. /\ i \in DOMAIN s \/ (i - Len(s) \in DOMAIN u /\ i > Len(s))
        /\ j \in DOMAIN s \/ (j - Len(s) \in DOMAIN u /\ j > Len(s))
    BY <1>2, <1>3
  <2>2. CASE i \in DOMAIN s /\ j \in DOMAIN s
    BY <2>2, <1>2, <1>3, <1>4 DEF IsInjective
  <2>3. CASE i > Len(s) /\ j > Len(s)
    <3>1. i - Len(s) \in DOMAIN u /\ j - Len(s) \in DOMAIN u BY <2>1, <2>3, <1>2
    <3>2. u[i - Len(s)] = u[j - Len(s)] BY <2>3, <1>3, <1>4
    <3>3. i - Len(s) = j - Len(s) BY <3>1, <3>2 DEF IsInjective
    <3>4. i \in Nat /\ j \in Nat BY <1>2, <1>3
    <3>. QED BY <3>3, <3>4, <1>2
  <2>4. \A k, l \in DOMAIN c :
          k \in DOMAIN s /\ l > Len(s) /\ l - Len(s) \in DOMAIN u => c[k] # c[l]
    <3>. TAKE k, l \in DOMAIN c
    <3>. HAVE k \in DOMAIN s /\ l > Len(s) /\ l - Len(s) \in DOMAIN u
    <3>1. c[k] = s[k] /\ c[l] = u[l - Len(s)] BY <1>2, <1>3
    <3>2. s[k] \in FilesOf(s) /\ u[l - Len(s)] \in FilesOf(u) BY DEF FilesOf, ToSet
    <3>. QED BY <3>1, <3>2
  <2>. QED BY <2>1, <2>2, <2>3, <2>4, <1>4
<1>. QED BY <1>1, <1>4 DEF IsInjective

StepOf(F, found, had, i) ==
  IF i = 0 THEN <<>>
  ELSE IF found[i] \in had THEN F[i - 1]
  ELSE Append(F[i - 1], found[i])

Keeps(F, found, had, n) == F = [i \in 0 .. n |-> StepOf(F, found, had, i)]

LEMMA KeepsUpTo ==
  ASSUME NEW found, NEW had, NEW n \in Nat
  PROVE  \E F : Keeps(F, found, had, n)
<1>. DEFINE Good(k) == \E F : Keeps(F, found, had, k)
            Bad == {k \in Nat : ~Good(k)}
<1>. SUFFICES Bad = {} OBVIOUS
<1>. SUFFICES ASSUME Bad # {} PROVE FALSE OBVIOUS
<1>1. PICK m \in Bad : \A k \in Bad : m <= k BY LeastNumber
<1>2. m # 0
  <2>1. PICK F : F = [i \in 0 .. 0 |-> <<>>] OBVIOUS
  <2>2. F = [i \in 0 .. 0 |-> StepOf(F, found, had, i)] BY <2>1 DEF StepOf
  <2>3. Good(0) BY <2>2 DEF Keeps
  <2>. QED BY <2>3
<1>3. m - 1 \in Nat /\ m \in Nat /\ Good(m - 1) BY <1>1, <1>2
<1>4. PICK F : F = [i \in 0 .. (m - 1) |-> StepOf(F, found, had, i)] BY <1>3 DEF Keeps
<1>5. PICK G : G = [i \in 0 .. m |-> StepOf(F, found, had, i)] OBVIOUS
<1>6. \A i \in 0 .. (m - 1) : G[i] = F[i]
  <2>. TAKE i \in 0 .. (m - 1)
  <2>1. i \in 0 .. m BY <1>3
  <2>2. F[i] = StepOf(F, found, had, i) BY <1>4, Zenon
  <2>3. G[i] = StepOf(F, found, had, i) BY <1>5, <2>1, Zenon
  <2>. QED BY <2>2, <2>3
<1>7. \A i \in 0 .. m : StepOf(F, found, had, i) = StepOf(G, found, had, i)
  <2>. TAKE i \in 0 .. m
  <2>1. CASE i = 0 BY <2>1 DEF StepOf
  <2>2. CASE i # 0
    <3>1. i - 1 \in 0 .. (m - 1) BY <2>2, <1>3
    <3>2. G[i - 1] = F[i - 1] BY <3>1, <1>6
    <3>. QED BY <3>2, <2>2 DEF StepOf
  <2>. QED BY <2>1, <2>2
<1>8. G = [i \in 0 .. m |-> StepOf(G, found, had, i)] BY <1>5, <1>7
<1>9. Good(m) BY <1>8 DEF Keeps
<1>. QED BY <1>1, <1>9

LEMMA MissingSound ==
  ASSUME NEW found \in FileLists, NEW files
  PROVE  /\ Missing(found, files) \in FileLists
         /\ FilesOf(Missing(found, files)) = FilesOf(found) \ FilesOf(files)
         /\ IsInjective(found) => IsInjective(Missing(found, files))
<1>. DEFINE had == FilesOf(files)
            N == Len(found)
            keep == CHOOSE F : F = [i \in 0 .. N |->
                      IF i = 0 THEN <<>>
                      ELSE IF found[i] \in had THEN F[i - 1]
                      ELSE Append(F[i - 1], found[i])]
<1>1. N \in Nat /\ DOMAIN found = 1 .. N /\ \A i \in 1 .. N : found[i] \in PackFiles
  BY DEF FileLists
<1>2. keep = [i \in 0 .. N |-> IF i = 0 THEN <<>>
                               ELSE IF found[i] \in had THEN keep[i - 1]
                               ELSE Append(keep[i - 1], found[i])]
  <2>. HIDE DEF N, had
  <2>1. \E F : F = [i \in 0 .. N |-> IF i = 0 THEN <<>>
                                     ELSE IF found[i] \in had THEN F[i - 1]
                                     ELSE Append(F[i - 1], found[i])]
    <3>1. PICK h, n : h = had /\ n = N OBVIOUS
    <3>2. n \in Nat BY <3>1, <1>1
    <3>3. PICK F : Keeps(F, found, h, n) BY <3>2, KeepsUpTo, Zenon
    <3>4. F = [i \in 0 .. N |-> IF i = 0 THEN <<>>
                                ELSE IF found[i] \in had THEN F[i - 1]
                                ELSE Append(F[i - 1], found[i])]
      BY <3>1, <3>3, Zenon DEF Keeps, StepOf
    <3>. QED BY <3>4, Zenon
  <2>. QED BY <2>1, Zenon
<1>3. Missing(found, files) = keep[N] BY Zenon DEF Missing
<1>. DEFINE Prefix(i) == {found[j] : j \in 1 .. i}
            Good(i) == /\ keep[i] \in FileLists /\ FilesOf(keep[i]) = Prefix(i) \ had
                       /\ IsInjective(found) => IsInjective(keep[i])
            Bad == {i \in 0 .. N : ~Good(i)}
<1>. HIDE DEF keep, N, had
<1>4. Bad = {}
  <2>. SUFFICES ASSUME Bad # {} PROVE FALSE OBVIOUS
  <2>1. Bad \subseteq Nat BY <1>1
  <2>2. PICK m \in Bad : \A k \in Bad : m <= k BY <2>1, LeastNumber
  <2>3. m # 0
    <3>1. 0 \in 0 .. N BY <1>1
    <3>2. keep[0] = <<>> BY <1>2, <3>1
    <3>3. keep[0] \in FileLists /\ FilesOf(keep[0]) = {}
      BY <3>2 DEF FileLists, FilesOf, ToSet
    <3>4. Prefix(0) = {} OBVIOUS
    <3>5. IsInjective(keep[0]) BY <3>2 DEF IsInjective
    <3>. QED BY <3>3, <3>4, <3>5, <2>2
  <2>4. m \in 1 .. N /\ m - 1 \in 0 .. N /\ m \in 0 .. N BY <2>2, <2>3, <1>1
  <2>5. Good(m - 1)
    <3>1. m \in Nat /\ ~ (m <= m - 1) BY <2>4, <1>1
    <3>2. m - 1 \notin Bad BY <3>1, <2>2
    <3>. QED BY <3>2, <2>4
  <2>6. keep[m] = IF found[m] \in had THEN keep[m - 1] ELSE Append(keep[m - 1], found[m])
    BY <2>4, <2>3, <1>2
  <2>7. Prefix(m) = Prefix(m - 1) \cup {found[m]}
    <3>1. 1 .. m = (1 .. (m - 1)) \cup {m} BY <2>4, <1>1
    <3>. QED BY <3>1
  <2>8. CASE found[m] \in had
    <3>1. keep[m] = keep[m - 1] BY <2>6, <2>8
    <3>. QED BY <3>1, <2>5, <2>7, <2>8, <2>2
  <2>9. CASE found[m] \notin had
    <3>1. keep[m] = keep[m - 1] \o <<found[m]>>
      <4>1. keep[m] = Append(keep[m - 1], found[m]) BY <2>6, <2>9
      <4>2. keep[m - 1] \in Seq(PackFiles) /\ found[m] \in PackFiles
        BY <2>5, <2>4, <1>1 DEF FileLists
      <4>3. PICK k : k = keep[m - 1] OBVIOUS
      <4>4. PICK f : f = found[m] OBVIOUS
      <4>5. Append(k, f) = k \o <<f>> BY <4>2, <4>3, <4>4, AppendIsConcat
      <4>. QED BY <4>1, <4>3, <4>4, <4>5
    <3>2. <<found[m]>> \in FileLists /\ FilesOf(<<found[m]>>) = {found[m]}
      BY <2>4, <1>1 DEF FileLists, FilesOf, ToSet
    <3>3. keep[m] \in FileLists /\ FilesOf(keep[m]) = FilesOf(keep[m - 1]) \cup {found[m]}
      <4>1. PICK k, u : k = keep[m - 1] /\ u = <<found[m]>> OBVIOUS
      <4>2. k \in FileLists /\ u \in FileLists BY <4>1, <3>2, <2>5
      <4>3. k \o u \in FileLists /\ FilesOf(k \o u) = FilesOf(k) \cup FilesOf(u)
        BY <4>2, JoinedLists
      <4>. QED BY <4>1, <4>3, <3>1, <3>2
    <3>4. ASSUME IsInjective(found) PROVE IsInjective(keep[m])
      <4>1. found[m] \notin Prefix(m - 1)
        BY <3>4, <2>4, <1>1 DEF IsInjective
      <4>2. FilesOf(keep[m - 1]) \cap FilesOf(<<found[m]>>) = {} BY <4>1, <3>2, <2>5
      <4>3. PICK k, u : k = keep[m - 1] /\ u = <<found[m]>> OBVIOUS
      <4>4. IsInjective(k) /\ k \in FileLists BY <4>3, <3>4, <2>5
      <4>5. u \in FileLists /\ IsInjective(u) BY <4>3, <3>2 DEF IsInjective
      <4>6. IsInjective(k \o u) BY <4>2, <4>3, <4>4, <4>5, JoinedOnce
      <4>. QED BY <4>3, <4>6, <3>1
    <3>. QED BY <3>3, <3>4, <2>5, <2>7, <2>9, <2>2
  <2>. QED BY <2>8, <2>9
<1>5. Good(N)
  <2>. HIDE DEF Good
  <2>1. N \in 0 .. N BY <1>1
  <2>. QED BY <2>1, <1>4
<1>6. Prefix(N) = FilesOf(found) BY <1>1 DEF FilesOf, ToSet
<1>. QED BY <1>3, <1>5, <1>6 DEF had

-----------------------------------------------------------------------------
(* The invariant of the packs.                                             *)

TurnPhases ==
  {"creating", "writing", "reading", "enriching", "merging", "ending", "joined"}

TurnRecords ==
  [phase : TurnPhases, verb : {"initialize_work", "escalate", "other"},
   agent : PackAgents, creation : Nat, previous : FileLists, found : FileLists,
   base : FileLists, merged : FileLists, added : FileLists]

CopyShape(c) == c = [files |-> c.files, hash |-> c.hash] /\ c.files \in FileLists

\* What a turn knows from its phase.
TurnFits(t) ==
  /\ packTurn[t] \in TurnRecords
  /\ packTurn[t].phase \in {"creating", "writing"} =>
       packTurn[t].verb = "initialize_work"
  /\ packTurn[t].phase \in {"reading", "enriching", "merging"} =>
       packTurn[t].verb = "escalate"
  /\ packTurn[t].phase = "joined" => packTurn[t].verb = "other"
  /\ packTurn[t].phase \notin {"creating", "writing"} => Initialized(packTurn[t].agent)
  /\ packTurn[t].phase \in {"enriching", "merging"} =>
       FilesOf(packTurn[t].base) \cup FilesOf(packTurn[t].added)
         \subseteq FilesOf(packTurn[t].merged)

PackShapes ==
  /\ disk \in [state : {"missing", "text", "blank"}, creation : Nat, files : FileLists]
  /\ packs \in Nat
  /\ DOMAIN pack = PackAgents
  /\ \A a \in PackAgents : CopyShape(pack[a])

TurnsFit ==
  /\ DOMAIN packTurn = PackTurns
  /\ \A t \in PackTurns : packTurn[t] # NoTurn => TurnFits(t)

\* A session with a pack is in the Map or in its first turn.
SessionsHeld ==
  /\ known \subseteq PackAgents
  /\ \A a \in known : Initialized(a)
  /\ \A a \in PackAgents : Initialized(a) => a \in known \/ InFlight(a)

WithinDisk ==
  \A a \in PackAgents \ estranged : FilesOf(pack[a].files) \subseteq FilesOf(disk.files)

\* The turn of an agent whose end hands its files to the siblings.
Hands(t, a) ==
  packTurn[t].phase = "ending" /\ packTurn[t].verb = "escalate" /\ packTurn[t].agent = a

\* The files that the turns of a run are about to hand on.
Handed(run) ==
  {f \in PackFiles : \E t \in PackTurns, a \in PackAgents :
     Hands(t, a) /\ RunOf[a] = run /\ f \in FilesOf(pack[a].files)}

Agreement ==
  \A a, b \in PackAgents \ apart :
    (RunOf[a] = RunOf[b] /\ Initialized(a) /\ Initialized(b)) =>
      FilesOf(pack[a].files) \subseteq FilesOf(pack[b].files) \cup Handed(RunOf[a])

PackInv == PackShapes /\ TurnsFit /\ SessionsHeld /\ WithinDisk /\ Agreement

-----------------------------------------------------------------------------
(* What most steps have in common.                                         *)

\* A turn is what it was but for one, and no session loses its pack.
LEMMA OneTurnChanges ==
  ASSUME PackInv, NEW t \in PackTurns,
         DOMAIN packTurn' = PackTurns,
         \A s \in PackTurns \ {t} : packTurn'[s] = packTurn[s],
         \A a \in PackAgents : Initialized(a) => Initialized(a)',
         packTurn'[t] # NoTurn => TurnFits(t)'
  PROVE  TurnsFit'
<1>. SUFFICES ASSUME NEW s \in PackTurns \ {t}, packTurn'[s] # NoTurn PROVE TurnFits(s)'
  BY DEF TurnsFit
<1>1. TurnFits(s) /\ packTurn'[s] = packTurn[s] BY DEF PackInv, TurnsFit
<1>2. packTurn[s].agent \in PackAgents BY <1>1 DEF TurnFits, TurnRecords
<1>. QED BY <1>1, <1>2 DEF TurnFits

\* Whoever was in flight still is, if a turn keeps its agent.
LEMMA StillHeld ==
  ASSUME PackInv, NEW t \in PackTurns,
         \A s \in PackTurns \ {t} : packTurn'[s] = packTurn[s],
         packTurn'[t] # NoTurn,
         packTurn[t] # NoTurn => packTurn'[t].agent = packTurn[t].agent,
         known' = known,
         \A a \in PackAgents : Initialized(a) => Initialized(a)',
         \A a \in PackAgents : Initialized(a)' => Initialized(a) \/ packTurn'[t].agent = a
  PROVE  SessionsHeld'
<1>1. ASSUME NEW a \in PackAgents, Initialized(a)' PROVE a \in known' \/ InFlight(a)'
  <2>1. CASE packTurn'[t].agent = a BY <2>1 DEF InFlight
  <2>2. CASE packTurn'[t].agent # a
    <3>1. a \in known \/ InFlight(a) BY <2>2, <1>1 DEF PackInv, SessionsHeld
    <3>2. ASSUME InFlight(a) PROVE InFlight(a)'
      <4>1. PICK s \in PackTurns : packTurn[s] # NoTurn /\ packTurn[s].agent = a
        BY <3>2 DEF InFlight
      <4>2. s # t BY <4>1, <2>2
      <4>. QED BY <4>1, <4>2 DEF InFlight
    <3>. QED BY <3>1, <3>2
  <2>. QED BY <2>1, <2>2
<1>. QED BY <1>1 DEF PackInv, SessionsHeld

\* Nothing that is about to be handed on is lost if the copies keep their files.
LEMMA HandedKeeps ==
  ASSUME NEW run,
         \A s \in PackTurns, a \in PackAgents :
           Hands(s, a) /\ RunOf[a] = run => Hands(s, a)',
         \A a \in PackAgents : RunOf[a] = run =>
           FilesOf(pack[a].files) \subseteq FilesOf(pack'[a].files)
  PROVE  Handed(run) \subseteq Handed(run)'
BY DEF Handed

\* Steps that change no list of files and end no turn.
LEMMA FilesAsBefore ==
  ASSUME PackInv,
         \A a \in PackAgents : pack'[a].files = pack[a].files,
         \A a \in PackAgents : Initialized(a)' => Initialized(a),
         estranged' = estranged, apart' = apart, disk'.files = disk.files,
         \A s \in PackTurns, a \in PackAgents : Hands(s, a) => Hands(s, a)'
  PROVE  WithinDisk' /\ Agreement'
<1>1. \A run : Handed(run) \subseteq Handed(run)' BY HandedKeeps
<1>2. WithinDisk' BY DEF WithinDisk, PackInv
<1>3. Agreement' BY <1>1 DEF Agreement, PackInv
<1>. QED BY <1>2, <1>3

\* One agent's copy changes: its siblings are apart, or it grows and the turn
\* is about to hand it on.
LEMMA OneCopyChanges ==
  ASSUME PackInv, NEW a \in PackAgents,
         \A b \in PackAgents \ {a} : pack'[b] = pack[b],
         \A s \in PackTurns, b \in PackAgents \ {a} : Hands(s, b) => Hands(s, b)',
         apart \ {a} \subseteq apart',
         \/ Holders(a) \ {a} \subseteq apart'
         \/ /\ apart \subseteq apart' /\ Initialized(a)
            /\ FilesOf(pack[a].files) \subseteq FilesOf(pack'[a].files)
            /\ FilesOf(pack'[a].files) \subseteq PackFiles
            /\ \E s \in PackTurns : Hands(s, a)'
  PROVE  Agreement'
<1>. SUFFICES ASSUME NEW x \in PackAgents \ apart', NEW y \in PackAgents \ apart',
                     RunOf[x] = RunOf[y], Initialized(x)', Initialized(y)', x # y
              PROVE  FilesOf(pack'[x].files) \subseteq FilesOf(pack'[y].files)
                                                         \cup Handed(RunOf[x])'
  BY DEF Agreement
<1>1. CASE RunOf[x] # RunOf[a]
  <2>1. Handed(RunOf[x]) \subseteq Handed(RunOf[x])' BY <1>1 DEF Handed
  <2>2. x # a /\ y # a BY <1>1
  <2>3. pack'[x] = pack[x] /\ pack'[y] = pack[y] BY <2>2
  <2>4. Initialized(x) /\ Initialized(y) /\ x \notin apart /\ y \notin apart
    BY <2>2, <2>3 DEF Initialized
  <2>. QED BY <2>1, <2>3, <2>4 DEF PackInv, Agreement
<1>2. CASE RunOf[x] = RunOf[a] /\ Holders(a) \ {a} \subseteq apart'
  <2>1. PICK z \in {x, y} : z # a OBVIOUS
  <2>2. Initialized(z) BY <2>1 DEF Initialized
  <2>. QED BY <2>1, <2>2, <1>2 DEF Holders
<1>3. CASE /\ RunOf[x] = RunOf[a]
           /\ apart \subseteq apart' /\ Initialized(a)
           /\ FilesOf(pack[a].files) \subseteq FilesOf(pack'[a].files)
           /\ FilesOf(pack'[a].files) \subseteq PackFiles
           /\ \E s \in PackTurns : Hands(s, a)'
  <2>1. FilesOf(pack'[a].files) \subseteq Handed(RunOf[x])' BY <1>3 DEF Handed
  <2>2. Handed(RunOf[x]) \subseteq Handed(RunOf[x])'
    <3>. SUFFICES ASSUME NEW f \in Handed(RunOf[x]) PROVE f \in Handed(RunOf[x])' OBVIOUS
    <3>1. PICK s \in PackTurns, b \in PackAgents :
            Hands(s, b) /\ RunOf[b] = RunOf[x] /\ f \in FilesOf(pack[b].files)
      BY DEF Handed
    <3>2. CASE b = a BY <3>1, <3>2, <2>1, <1>3
    <3>3. CASE b # a BY <3>1, <3>3 DEF Handed
    <3>. QED BY <3>2, <3>3
  <2>3. Initialized(x) /\ Initialized(y) /\ x \notin apart /\ y \notin apart
    BY <1>3 DEF Initialized
  <2>4. FilesOf(pack[x].files) \subseteq FilesOf(pack[y].files) \cup Handed(RunOf[x])
    BY <2>3 DEF PackInv, Agreement
  <2>5. FilesOf(pack[y].files) \subseteq FilesOf(pack'[y].files) BY <1>3
  <2>6. FilesOf(pack'[x].files) \subseteq FilesOf(pack[x].files) \cup Handed(RunOf[x])'
    <3>1. CASE x = a BY <3>1, <2>1
    <3>2. CASE x # a BY <3>2
    <3>. QED BY <3>1, <3>2
  <2>. QED BY <2>2, <2>4, <2>5, <2>6
<1>. QED BY <1>1, <1>2, <1>3

-----------------------------------------------------------------------------
(* The steps.                                                              *)

\* What a record of a turn in flight says.
LEMMA TurnFacts ==
  ASSUME PackInv, NEW t \in PackTurns, packTurn[t].phase \in TurnPhases
  PROVE  /\ packTurn[t] # NoTurn /\ TurnFits(t) /\ packTurn[t].agent \in PackAgents
         /\ packTurn[t].previous \in FileLists /\ packTurn[t].found \in FileLists
         /\ packTurn[t].base \in FileLists /\ packTurn[t].merged \in FileLists
         /\ packTurn[t].added \in FileLists /\ packTurn[t].creation \in Nat
<1>1. packTurn[t] # NoTurn BY DEF NoTurn, TurnPhases
<1>2. TurnFits(t) BY <1>1 DEF PackInv, TurnsFit
<1>. QED BY <1>1, <1>2 DEF TurnFits, TurnRecords

\* A turn as it starts.
LEMMA FirstRecord ==
  ASSUME PackInv, NEW a \in PackAgents, NEW phase \in TurnPhases,
         NEW verb \in {"initialize_work", "escalate", "other"}
  PROVE  /\ Turn(phase, verb, a) \in TurnRecords
         /\ Turn(phase, verb, a).phase = phase /\ Turn(phase, verb, a).verb = verb
         /\ Turn(phase, verb, a).agent = a
BY DEF PackInv, PackShapes, CopyShape, Turn, TurnRecords, FileLists

LEMMA PhaseOfNoTurn == NoTurn.phase = "idle" /\ NoTurn.phase \notin TurnPhases
BY DEF NoTurn, TurnPhases

LEMMA InitializeKeeps ==
  ASSUME PackInv, NEW t \in PackTurns, NEW a \in PackAgents, HandleInitialize(t, a)
  PROVE  PackInv'
<1>1. PICK files \in FirstFiles :
        packTurn' = [packTurn EXCEPT ![t] =
          [Turn("creating", "initialize_work", a) EXCEPT !.creation = packs + 1,
                                                         !.found = files]]
  BY DEF HandleInitialize
<1>2. PICK r : r = [Turn("creating", "initialize_work", a) EXCEPT
                      !.creation = packs + 1, !.found = files] OBVIOUS
<1>3. packs \in Nat /\ files \in FileLists
  BY PackAssumption DEF PackInv, PackShapes, FileLists
<1>4. /\ r \in TurnRecords /\ r.phase = "creating" /\ r.verb = "initialize_work"
      /\ r.agent = a
  <2>1. PICK q : q = Turn("creating", "initialize_work", a) OBVIOUS
  <2>2. /\ q \in TurnRecords /\ q.phase = "creating" /\ q.verb = "initialize_work"
        /\ q.agent = a
    BY <2>1, FirstRecord DEF TurnPhases
  <2>3. r = [q EXCEPT !.creation = packs + 1, !.found = files] BY <1>2, <2>1
  <2>4. packs + 1 \in Nat BY <1>3
  <2>. QED BY <2>2, <2>3, <2>4, <1>3 DEF TurnRecords, TurnPhases
<1>5. packTurn' = [packTurn EXCEPT ![t] = r] BY <1>1, <1>2
<1>6. /\ DOMAIN packTurn' = PackTurns /\ packTurn'[t] = r
      /\ \A s \in PackTurns \ {t} : packTurn'[s] = packTurn[s]
  BY <1>5 DEF PackInv, TurnsFit
<1>7. packTurn[t] = NoTurn /\ UNCHANGED <<disk, pack, known, estranged, apart>>
      /\ packs' = packs + 1
  BY DEF HandleInitialize
<1>8. \A b \in PackAgents : Initialized(b)' = Initialized(b) BY <1>7 DEF Initialized
<1>9. packTurn'[t] # NoTurn BY <1>4, <1>6, PhaseOfNoTurn DEF TurnPhases
<1>10. TurnsFit'
  <2>1. TurnFits(t)' BY <1>4, <1>6 DEF TurnFits
  <2>. QED BY <2>1, <1>6, <1>8, OneTurnChanges
<1>11. SessionsHeld' BY <1>6, <1>7, <1>8, <1>9, StillHeld
<1>12. \A s \in PackTurns, b \in PackAgents : Hands(s, b) => Hands(s, b)'
  BY <1>6, <1>7, PhaseOfNoTurn DEF Hands, TurnPhases
<1>13. WithinDisk' /\ Agreement' BY <1>7, <1>8, <1>12, FilesAsBefore
<1>14. PackShapes' BY <1>7, <1>3 DEF PackInv, PackShapes
<1>. QED BY <1>10, <1>11, <1>13, <1>14 DEF PackInv

LEMMA TruncateKeeps ==
  ASSUME PackInv, NEW t \in PackTurns, TruncatePack(t)
  PROVE  PackInv'
<1>1. packTurn[t].phase \in {"creating", "enriching"} BY DEF TruncatePack
<1>2. packTurn[t] # NoTurn /\ TurnFits(t) BY <1>1, TurnFacts DEF TurnPhases
<1>3. PICK p : p = IF packTurn[t].phase = "creating" THEN "writing" ELSE "merging" OBVIOUS
<1>4. PICK r : r = [packTurn[t] EXCEPT !.phase = p] OBVIOUS
<1>5. packTurn' = [packTurn EXCEPT ![t] = r]
  BY <1>3, <1>4 DEF TruncatePack, PackInv, TurnsFit
<1>6. /\ r \in TurnRecords /\ r.phase = p /\ r.verb = packTurn[t].verb
      /\ r.agent = packTurn[t].agent /\ r.base = packTurn[t].base
      /\ r.added = packTurn[t].added /\ r.merged = packTurn[t].merged
  BY <1>2, <1>3, <1>4 DEF TurnFits, TurnRecords, TurnPhases
<1>7. /\ DOMAIN packTurn' = PackTurns /\ packTurn'[t] = r
      /\ \A s \in PackTurns \ {t} : packTurn'[s] = packTurn[s]
  BY <1>5 DEF PackInv, TurnsFit
<1>8. UNCHANGED <<pack, known, packs, estranged, apart>>
      /\ disk' = [disk EXCEPT !.state = "blank"]
  BY DEF TruncatePack
<1>9. \A b \in PackAgents : Initialized(b)' = Initialized(b) BY <1>8 DEF Initialized
<1>10. packTurn'[t] # NoTurn BY <1>3, <1>6, <1>7, PhaseOfNoTurn DEF TurnPhases
<1>11. TurnsFit'
  <2>1. TurnFits(t)' BY <1>1, <1>2, <1>3, <1>6, <1>7, <1>8 DEF TurnFits, Initialized
  <2>. QED BY <2>1, <1>7, <1>9, OneTurnChanges
<1>12. SessionsHeld' BY <1>6, <1>7, <1>8, <1>9, <1>10, StillHeld
<1>13. \A s \in PackTurns, b \in PackAgents : Hands(s, b) => Hands(s, b)'
  BY <1>1, <1>7 DEF Hands
<1>14. PackShapes' /\ disk'.files = disk.files BY <1>8 DEF PackInv, PackShapes
<1>15. WithinDisk' /\ Agreement' BY <1>8, <1>9, <1>13, <1>14, FilesAsBefore
<1>. QED BY <1>11, <1>12, <1>14, <1>15 DEF PackInv

LEMMA ReadKeeps ==
  ASSUME PackInv, NEW t \in PackTurns, ReadPack(t)
  PROVE  PackInv'
<1>1. PICK files : files = IF disk.state = "text" THEN disk.files ELSE <<>> OBVIOUS
<1>2. PICK c : c = IF disk.state = "text" THEN disk.creation ELSE 0 OBVIOUS
<1>3. packTurn[t].phase = "reading" BY DEF ReadPack
<1>4. packTurn[t] # NoTurn /\ TurnFits(t) /\ packTurn[t].found \in FileLists
  BY <1>3, TurnFacts DEF TurnPhases
<1>5. files \in FileLists /\ c \in Nat
  BY <1>1, <1>2 DEF PackInv, PackShapes, FileLists
<1>6. PICK new : new = Missing(packTurn[t].found, files) OBVIOUS
<1>7. new \in FileLists BY <1>4, <1>6, MissingSound
<1>8. PICK all : all = files \o new OBVIOUS
<1>9. all \in FileLists /\ FilesOf(all) = FilesOf(files) \cup FilesOf(new)
  BY <1>5, <1>7, <1>8, JoinedLists
<1>10. PICK r : r = [packTurn[t] EXCEPT !.phase = "enriching", !.creation = c,
                       !.base = files, !.merged = all, !.added = new] OBVIOUS
<1>11. packTurn' = [packTurn EXCEPT ![t] = r]
  BY <1>1, <1>2, <1>6, <1>8, <1>10 DEF ReadPack, Merged, PackInv, TurnsFit
<1>12. /\ r \in TurnRecords /\ r.phase = "enriching" /\ r.verb = packTurn[t].verb
       /\ r.agent = packTurn[t].agent /\ r.base = files /\ r.added = new
       /\ r.merged = all
  BY <1>4, <1>5, <1>7, <1>9, <1>10 DEF TurnFits, TurnRecords, TurnPhases
<1>13. /\ DOMAIN packTurn' = PackTurns /\ packTurn'[t] = r
       /\ \A s \in PackTurns \ {t} : packTurn'[s] = packTurn[s]
  BY <1>11 DEF PackInv, TurnsFit
<1>14. UNCHANGED <<disk, pack, known, packs, estranged, apart>> BY DEF ReadPack
<1>15. \A b \in PackAgents : Initialized(b)' = Initialized(b) BY <1>14 DEF Initialized
<1>16. packTurn'[t] # NoTurn BY <1>12, <1>13, PhaseOfNoTurn DEF TurnPhases
<1>17. TurnsFit'
  <2>1. TurnFits(t)' BY <1>3, <1>4, <1>9, <1>12, <1>13, <1>14 DEF TurnFits, Initialized
  <2>. QED BY <2>1, <1>13, <1>15, OneTurnChanges
<1>18. SessionsHeld' BY <1>12, <1>13, <1>14, <1>15, <1>16, StillHeld
<1>19. \A s \in PackTurns, b \in PackAgents : Hands(s, b) => Hands(s, b)'
  BY <1>3, <1>13 DEF Hands
<1>20. WithinDisk' /\ Agreement' BY <1>14, <1>15, <1>19, FilesAsBefore
<1>21. PackShapes' BY <1>14 DEF PackInv, PackShapes
<1>. QED BY <1>17, <1>18, <1>20, <1>21 DEF PackInv

\* A copy that was written is not the empty one.
LEMMA WrittenCopy ==
  ASSUME NEW files \in FileLists, NEW c, NEW s
  PROVE  /\ CopyShape([files |-> files, hash |-> PayloadHash(c, s)])
         /\ [files |-> files, hash |-> PayloadHash(c, s)] # NoPack
         /\ CopyShape([files |-> files, hash |-> ScopeHash(s)])
         /\ [files |-> files, hash |-> ScopeHash(s)] # NoPack
<1>1. <<"payload", c, s>> # <<"none">> /\ <<"scope", s>> # <<"none">> OBVIOUS
<1>. QED BY <1>1 DEF CopyShape, NoPack, PayloadHash, ScopeHash

\* The turn of an agent writes its session and is about to end: what follows
\* whatever it writes.
LEMMA CopyWritten ==
  ASSUME PackInv, NEW t \in PackTurns, packTurn[t].phase \in TurnPhases,
         NEW copy, CopyShape(copy), copy # NoPack,
         pack' = [pack EXCEPT ![packTurn[t].agent] = copy],
         packTurn' = [packTurn EXCEPT ![t].phase = "ending"],
         known' = known
  PROVE  /\ pack'[packTurn[t].agent] = copy
         /\ \A b \in PackAgents \ {packTurn[t].agent} : pack'[b] = pack[b]
         /\ DOMAIN pack' = PackAgents /\ \A b \in PackAgents : CopyShape(pack'[b])
         /\ TurnsFit' /\ SessionsHeld'
         /\ \A s \in PackTurns, b \in PackAgents : Hands(s, b) => Hands(s, b)'
         /\ packTurn[t].verb = "escalate" =>
              \A b \in {packTurn[t].agent} : Hands(t, b)'
<1>1. /\ packTurn[t] # NoTurn /\ TurnFits(t) /\ packTurn[t].agent \in PackAgents
  BY TurnFacts
<1>2. PICK a : a = packTurn[t].agent OBVIOUS
<1>3. PICK r : r = [packTurn[t] EXCEPT !.phase = "ending"] OBVIOUS
<1>4. packTurn' = [packTurn EXCEPT ![t] = r] BY <1>3 DEF PackInv, TurnsFit
<1>5. /\ r \in TurnRecords /\ r.phase = "ending" /\ r.verb = packTurn[t].verb
      /\ r.agent = a
  BY <1>1, <1>2, <1>3 DEF TurnFits, TurnRecords, TurnPhases
<1>6. /\ DOMAIN packTurn' = PackTurns /\ packTurn'[t] = r
      /\ \A s \in PackTurns \ {t} : packTurn'[s] = packTurn[s]
  BY <1>4 DEF PackInv, TurnsFit
<1>7. /\ pack'[a] = copy /\ \A b \in PackAgents \ {a} : pack'[b] = pack[b]
      /\ DOMAIN pack' = PackAgents
  BY <1>1, <1>2 DEF PackInv, PackShapes
<1>8. \A b \in PackAgents : CopyShape(pack'[b]) BY <1>7 DEF PackInv, PackShapes
<1>9. /\ Initialized(a)'
      /\ \A b \in PackAgents : Initialized(b) => Initialized(b)'
      /\ \A b \in PackAgents : Initialized(b)' => Initialized(b) \/ b = a
  BY <1>7 DEF Initialized
<1>10. packTurn'[t] # NoTurn BY <1>5, <1>6, PhaseOfNoTurn DEF TurnPhases
<1>11. TurnsFit'
  <2>1. TurnFits(t)' BY <1>5, <1>6, <1>9 DEF TurnFits
  <2>. QED BY <2>1, <1>6, <1>9, OneTurnChanges
<1>12. SessionsHeld' BY <1>2, <1>5, <1>6, <1>9, <1>10, StillHeld
<1>13. \A s \in PackTurns, b \in PackAgents : Hands(s, b) => Hands(s, b)'
  BY <1>2, <1>5, <1>6 DEF Hands
<1>14. packTurn[t].verb = "escalate" => Hands(t, a)' BY <1>5, <1>6 DEF Hands
<1>. QED BY <1>2, <1>7, <1>8, <1>11, <1>12, <1>13, <1>14

LEMMA CreateKeeps ==
  ASSUME PackInv, NEW t \in PackTurns, CreateContextPack(t)
  PROVE  PackInv'
<1>1. packTurn[t].phase = "writing" BY DEF CreateContextPack
<1>2. /\ packTurn[t].agent \in PackAgents /\ packTurn[t].found \in FileLists
      /\ packTurn[t].creation \in Nat /\ packTurn[t].phase \in TurnPhases
  BY <1>1, TurnFacts DEF TurnPhases
<1>3. PICK a, files, c : /\ a = packTurn[t].agent /\ files = packTurn[t].found
                         /\ c = packTurn[t].creation
  OBVIOUS
<1>4. PICK copy : copy = [files |-> files, hash |-> PayloadHash(c, files)] OBVIOUS
<1>5. copy.files = files /\ CopyShape(copy) /\ copy # NoPack
  BY <1>2, <1>3, <1>4, WrittenCopy
<1>6. /\ pack' = [pack EXCEPT ![packTurn[t].agent] = copy]
      /\ packTurn' = [packTurn EXCEPT ![t].phase = "ending"]
      /\ known' = known /\ packs' = packs
      /\ disk' = [state |-> "text", creation |-> c, files |-> files]
      /\ estranged' = {b \in PackAgents \ {a} : Initialized(b)}
      /\ apart' = (apart \cup Holders(a)) \ {a}
  BY <1>3, <1>4 DEF CreateContextPack
<1>7. /\ pack'[a] = copy /\ \A b \in PackAgents \ {a} : pack'[b] = pack[b]
      /\ DOMAIN pack' = PackAgents /\ \A b \in PackAgents : CopyShape(pack'[b])
      /\ TurnsFit' /\ SessionsHeld'
      /\ \A s \in PackTurns, b \in PackAgents : Hands(s, b) => Hands(s, b)'
  BY <1>2, <1>3, <1>5, <1>6, CopyWritten
<1>8. PackShapes' BY <1>2, <1>3, <1>6, <1>7 DEF PackInv, PackShapes
<1>9. WithinDisk'
  <2>. SUFFICES ASSUME NEW b \in PackAgents \ estranged'
                PROVE  FilesOf(pack'[b].files) \subseteq FilesOf(disk'.files)
    BY DEF WithinDisk
  <2>1. CASE b = a BY <2>1, <1>5, <1>6, <1>7
  <2>2. CASE b # a
    <3>1. pack'[b] = NoPack BY <2>2, <1>6, <1>7 DEF Initialized
    <3>. QED BY <3>1 DEF NoPack, FilesOf, ToSet
  <2>. QED BY <2>1, <2>2
<1>10. Agreement'
  <2>1. apart \ {a} \subseteq apart' /\ Holders(a) \ {a} \subseteq apart' BY <1>6
  <2>. QED BY <2>1, <1>2, <1>3, <1>7, OneCopyChanges
<1>. QED BY <1>7, <1>8, <1>9, <1>10 DEF PackInv

LEMMA EnrichKeeps ==
  ASSUME PackInv, NEW t \in PackTurns, EnrichContextPack(t)
  PROVE  PackInv'
<1>1. packTurn[t].phase = "merging" BY DEF EnrichContextPack
<1>2. /\ packTurn[t].phase \in TurnPhases /\ TurnFits(t)
      /\ packTurn[t].agent \in PackAgents /\ packTurn[t].creation \in Nat
      /\ packTurn[t].previous \in FileLists /\ packTurn[t].added \in FileLists
      /\ packTurn[t].merged \in FileLists
  BY <1>1, TurnFacts DEF TurnPhases
<1>3. PICK a : a = packTurn[t].agent OBVIOUS
<1>4. PICK files : files = packTurn[t].previous \o packTurn[t].added OBVIOUS
<1>5. /\ files \in FileLists
      /\ FilesOf(files) = FilesOf(packTurn[t].previous) \cup FilesOf(packTurn[t].added)
  BY <1>2, <1>4, JoinedLists
<1>6. PICK copy : copy = GrownCopy(t) OBVIOUS
<1>7. copy.files = files /\ CopyShape(copy) /\ copy # NoPack
  BY <1>4, <1>5, <1>6, WrittenCopy DEF GrownCopy
<1>8. /\ pack' = [pack EXCEPT ![packTurn[t].agent] = copy]
      /\ packTurn' = [packTurn EXCEPT ![t].phase = "ending"]
      /\ known' = known /\ packs' = packs
      /\ disk' = [state |-> "text", creation |-> packTurn[t].creation,
                  files |-> packTurn[t].merged]
      /\ estranged' = estranged \cup
           (IF Overwrites(t) THEN {b \in PackAgents : Initialized(b)}
            ELSE IF Stale(t) THEN {a} ELSE {})
      /\ apart' = IF Stale(t) THEN apart \cup Holders(a) ELSE apart
  BY <1>3, <1>6 DEF EnrichContextPack, ApartIfStale
<1>9. /\ pack'[a] = copy /\ \A b \in PackAgents \ {a} : pack'[b] = pack[b]
      /\ DOMAIN pack' = PackAgents /\ \A b \in PackAgents : CopyShape(pack'[b])
      /\ TurnsFit' /\ SessionsHeld'
      /\ \A s \in PackTurns, b \in PackAgents : Hands(s, b) => Hands(s, b)'
      /\ packTurn[t].verb = "escalate" => Hands(t, a)'
  <2>1. packTurn[t].phase \in TurnPhases /\ CopyShape(copy) /\ copy # NoPack BY <1>2, <1>7
  <2>2. /\ pack' = [pack EXCEPT ![packTurn[t].agent] = copy]
        /\ packTurn' = [packTurn EXCEPT ![t].phase = "ending"]
        /\ known' = known
    BY <1>8
  <2>. QED BY <2>1, <2>2, <1>3, CopyWritten
<1>10. packTurn[t].verb = "escalate" /\ Initialized(a) BY <1>1, <1>2, <1>3 DEF TurnFits
<1>11. PackShapes'
  <2>1. disk' \in [state : {"missing", "text", "blank"}, creation : Nat, files : FileLists]
    BY <1>2, <1>8
  <2>. QED BY <2>1, <1>8, <1>9 DEF PackInv, PackShapes
<1>12. WithinDisk'
  <2>. SUFFICES ASSUME NEW b \in PackAgents \ estranged'
                PROVE  FilesOf(pack'[b].files) \subseteq FilesOf(disk'.files)
    BY DEF WithinDisk
  <2>1. CASE Overwrites(t)
    <3>1. b # a /\ pack'[b] = NoPack BY <2>1, <1>8, <1>9, <1>10 DEF Initialized
    <3>. QED BY <3>1 DEF NoPack, FilesOf, ToSet
  <2>2. CASE ~ Overwrites(t)
    <3>1. /\ FilesOf(disk.files) \subseteq FilesOf(packTurn[t].merged)
          /\ FilesOf(packTurn[t].added) \subseteq FilesOf(packTurn[t].merged)
      BY <2>2, <1>1, <1>2 DEF Overwrites, TurnFits
    <3>2. b \notin estranged /\ FilesOf(pack[b].files) \subseteq FilesOf(disk.files)
      BY <1>8 DEF PackInv, WithinDisk
    <3>3. CASE b = a
      <4>1. packTurn[t].previous = pack[a].files BY <2>2, <3>3, <1>3, <1>8 DEF Stale
      <4>. QED BY <4>1, <3>1, <3>2, <3>3, <1>5, <1>7, <1>8, <1>9
    <3>4. CASE b # a BY <3>1, <3>2, <3>4, <1>8, <1>9
    <3>. QED BY <3>3, <3>4
  <2>. QED BY <2>1, <2>2
<1>13. Agreement'
  <2>1. apart \subseteq apart' BY <1>8
  <2>2. CASE Stale(t)
    <3>1. Holders(a) \ {a} \subseteq apart' BY <2>2, <1>8
    <3>. QED BY <3>1, <2>1, <1>2, <1>3, <1>9, OneCopyChanges
  <2>3. CASE ~ Stale(t)
    <3>1. FilesOf(pack[a].files) \subseteq FilesOf(pack'[a].files)
      BY <2>3, <1>3, <1>5, <1>7, <1>9 DEF Stale
    <3>2. FilesOf(pack'[a].files) \subseteq PackFiles
      BY <1>5, <1>7, <1>9 DEF FileLists, FilesOf, ToSet
    <3>. QED BY <3>1, <3>2, <2>1, <1>2, <1>3, <1>9, <1>10, OneCopyChanges
  <2>. QED BY <2>2, <2>3
<1>. QED BY <1>9, <1>11, <1>12, <1>13 DEF PackInv

LEMMA EnrichFailsKeeps ==
  ASSUME PackInv, NEW t \in PackTurns, EnrichFails(t)
  PROVE  PackInv'
<1>1. packTurn[t].phase \in {"enriching", "merging"} BY DEF EnrichFails
<1>2. /\ packTurn[t].phase \in TurnPhases /\ TurnFits(t)
      /\ packTurn[t].agent \in PackAgents
      /\ packTurn[t].previous \in FileLists /\ packTurn[t].found \in FileLists
  BY <1>1, TurnFacts DEF TurnPhases
<1>3. PICK a : a = packTurn[t].agent OBVIOUS
<1>4. PICK new : new = Missing(packTurn[t].found, packTurn[t].previous) OBVIOUS
<1>5. new \in FileLists BY <1>2, <1>4, MissingSound
<1>6. PICK files : files = packTurn[t].previous \o new OBVIOUS
<1>7. /\ files \in FileLists
      /\ FilesOf(packTurn[t].previous) \subseteq FilesOf(files)
  BY <1>2, <1>5, <1>6, JoinedLists
<1>8. PICK copy : copy = [files |-> files, hash |-> ScopeHash(FilesOf(files))] OBVIOUS
<1>9. copy.files = files /\ CopyShape(copy) /\ copy # NoPack
  BY <1>7, <1>8, WrittenCopy
<1>10. /\ pack' = [pack EXCEPT ![packTurn[t].agent] = copy]
       /\ packTurn' = [packTurn EXCEPT ![t].phase = "ending"]
       /\ known' = known
  BY <1>4, <1>6, <1>8 DEF EnrichFails
<1>11. /\ UNCHANGED <<disk, packs>> /\ estranged' = estranged \cup {a}
       /\ apart' = IF Stale(t) THEN apart \cup Holders(a) ELSE apart
  BY <1>3 DEF EnrichFails, ApartIfStale
<1>12. /\ pack'[a] = copy /\ \A b \in PackAgents \ {a} : pack'[b] = pack[b]
       /\ DOMAIN pack' = PackAgents /\ \A b \in PackAgents : CopyShape(pack'[b])
       /\ TurnsFit' /\ SessionsHeld'
       /\ \A s \in PackTurns, b \in PackAgents : Hands(s, b) => Hands(s, b)'
       /\ packTurn[t].verb = "escalate" => Hands(t, a)'
  BY <1>2, <1>3, <1>9, <1>10, CopyWritten
<1>13. packTurn[t].verb = "escalate" /\ Initialized(a) BY <1>1, <1>2, <1>3 DEF TurnFits
<1>14. PackShapes' BY <1>11, <1>12 DEF PackInv, PackShapes
<1>15. WithinDisk' BY <1>11, <1>12 DEF PackInv, WithinDisk
<1>16. Agreement'
  <2>1. apart \subseteq apart' BY <1>11
  <2>2. CASE Stale(t)
    <3>1. Holders(a) \ {a} \subseteq apart' BY <2>2, <1>11
    <3>. QED BY <3>1, <2>1, <1>2, <1>3, <1>12, OneCopyChanges
  <2>3. CASE ~ Stale(t)
    <3>1. FilesOf(pack[a].files) \subseteq FilesOf(pack'[a].files)
      BY <2>3, <1>3, <1>7, <1>9, <1>12 DEF Stale
    <3>2. FilesOf(pack'[a].files) \subseteq PackFiles
      BY <1>7, <1>9, <1>12 DEF FileLists, FilesOf, ToSet
    <3>. QED BY <3>1, <3>2, <2>1, <1>2, <1>3, <1>12, <1>13, OneCopyChanges
  <2>. QED BY <2>2, <2>3
<1>. QED BY <1>12, <1>14, <1>15, <1>16 DEF PackInv

\* A turn that may escalate is not about to hand on.
LEMMA WorkingTurn ==
  ASSUME PackInv, NEW t \in PackTurns, NEW a \in PackAgents, Works(t, a)
  PROVE  /\ packTurn[t] = NoTurn \/ packTurn[t].agent = a
         /\ packTurn[t].phase # "ending"
BY PhaseOfNoTurn DEF Works, TurnPhases

LEMMA EscalateKeeps ==
  ASSUME PackInv, NEW t \in PackTurns, NEW a \in PackAgents, HandleEscalatePack(t, a)
  PROVE  PackInv'
<1>1. PICK found \in Findings \ {<<>>} :
        packTurn' = [packTurn EXCEPT ![t] =
          [Turn("reading", "escalate", a) EXCEPT !.found = found]]
  BY DEF HandleEscalatePack
<1>2. found \in FileLists
  <2>1. PICK m \in 0 .. 2 : found \in [1 .. m -> PackFiles] BY DEF Findings, SeqOf
  <2>. QED BY <2>1 DEF FileLists
<1>3. PICK q : q = Turn("reading", "escalate", a) OBVIOUS
<1>4. /\ q \in TurnRecords /\ q.phase = "reading" /\ q.verb = "escalate" /\ q.agent = a
  BY <1>3, FirstRecord DEF TurnPhases
<1>5. PICK r : r = [q EXCEPT !.found = found] OBVIOUS
<1>6. /\ r \in TurnRecords /\ r.phase = "reading" /\ r.verb = "escalate" /\ r.agent = a
  BY <1>2, <1>4, <1>5 DEF TurnRecords, TurnPhases
<1>7. packTurn' = [packTurn EXCEPT ![t] = r] BY <1>1, <1>3, <1>5
<1>8. /\ DOMAIN packTurn' = PackTurns /\ packTurn'[t] = r
      /\ \A s \in PackTurns \ {t} : packTurn'[s] = packTurn[s]
  BY <1>7 DEF PackInv, TurnsFit
<1>9. UNCHANGED <<disk, pack, known, packs, estranged, apart>> /\ Initialized(a)
  BY DEF HandleEscalatePack
<1>10. packTurn[t] = NoTurn \/ packTurn[t].agent = a BY WorkingTurn DEF HandleEscalatePack
<1>11. packTurn[t].phase # "ending" BY WorkingTurn DEF HandleEscalatePack
<1>12. \A b \in PackAgents : Initialized(b)' = Initialized(b) BY <1>9 DEF Initialized
<1>13. packTurn'[t] # NoTurn BY <1>6, <1>8, PhaseOfNoTurn DEF TurnPhases
<1>14. TurnsFit'
  <2>1. TurnFits(t)' BY <1>6, <1>8, <1>9 DEF TurnFits, Initialized
  <2>. QED BY <2>1, <1>8, <1>12, OneTurnChanges
<1>15. SessionsHeld' BY <1>6, <1>8, <1>9, <1>10, <1>12, <1>13, StillHeld
<1>16. \A s \in PackTurns, b \in PackAgents : Hands(s, b) => Hands(s, b)'
  BY <1>8, <1>11 DEF Hands
<1>17. WithinDisk' /\ Agreement' BY <1>9, <1>12, <1>16, FilesAsBefore
<1>18. PackShapes' BY <1>9 DEF PackInv, PackShapes
<1>. QED BY <1>14, <1>15, <1>17, <1>18 DEF PackInv

LEMMA EscalateInMemoryKeeps ==
  ASSUME PackInv, NEW t \in PackTurns, NEW a \in PackAgents, HandleEscalateInMemory(t, a)
  PROVE  PackInv' /\ FilesOf(pack[a].files) \subseteq FilesOf(pack'[a].files)
<1>1. pack[a].files \in FileLists BY DEF PackInv, PackShapes, CopyShape
<1>2. PICK new : new = Missing(<<>>, pack[a].files) OBVIOUS
<1>3. new \in FileLists /\ FilesOf(new) = {}
  <2>1. <<>> \in FileLists /\ FilesOf(<<>>) = {} BY DEF FileLists, FilesOf, ToSet
  <2>. QED BY <2>1, <1>2, MissingSound
<1>4. PICK files : files = pack[a].files \o new OBVIOUS
<1>5. files \in FileLists /\ FilesOf(files) = FilesOf(pack[a].files)
  <2>1. PICK had : had = pack[a].files OBVIOUS
  <2>2. had \o new \in FileLists /\ FilesOf(had \o new) = FilesOf(had) \cup FilesOf(new)
    BY <2>1, <1>1, <1>3, JoinedLists
  <2>3. files = had \o new BY <2>1, <1>4
  <2>. QED BY <2>1, <2>2, <2>3, <1>3
<1>6. PICK copy : copy = [files |-> files, hash |-> ScopeHash(FilesOf(files))] OBVIOUS
<1>7. copy.files = files /\ CopyShape(copy) /\ copy # NoPack
  BY <1>5, <1>6, WrittenCopy
<1>8. PICK r : r = Turn("ending", "escalate", a) OBVIOUS
<1>9. /\ r \in TurnRecords /\ r.phase = "ending" /\ r.verb = "escalate" /\ r.agent = a
  BY <1>8, FirstRecord DEF TurnPhases
<1>10. /\ pack' = [pack EXCEPT ![a] = copy]
       /\ packTurn' = [packTurn EXCEPT ![t] = r]
       /\ UNCHANGED <<disk, known, packs, estranged, apart>> /\ Initialized(a)
  BY <1>2, <1>4, <1>6, <1>8 DEF HandleEscalateInMemory, InMemory
<1>11. /\ DOMAIN packTurn' = PackTurns /\ packTurn'[t] = r
       /\ \A s \in PackTurns \ {t} : packTurn'[s] = packTurn[s]
  BY <1>10 DEF PackInv, TurnsFit
<1>12. /\ pack'[a] = copy /\ \A b \in PackAgents \ {a} : pack'[b] = pack[b]
       /\ DOMAIN pack' = PackAgents
  BY <1>10 DEF PackInv, PackShapes
<1>13. \A b \in PackAgents : CopyShape(pack'[b]) BY <1>7, <1>12 DEF PackInv, PackShapes
<1>14. \A b \in PackAgents : Initialized(b)' = Initialized(b)
  BY <1>7, <1>10, <1>12 DEF Initialized
<1>15. packTurn[t] = NoTurn \/ packTurn[t].agent = a
  BY WorkingTurn DEF HandleEscalateInMemory
<1>16. packTurn[t].phase # "ending" BY WorkingTurn DEF HandleEscalateInMemory
<1>17. packTurn'[t] # NoTurn BY <1>9, <1>11, PhaseOfNoTurn DEF TurnPhases
<1>18. TurnsFit'
  <2>1. TurnFits(t)' BY <1>7, <1>9, <1>11, <1>12 DEF TurnFits, Initialized
  <2>. QED BY <2>1, <1>11, <1>14, OneTurnChanges
<1>19. SessionsHeld' BY <1>9, <1>10, <1>11, <1>14, <1>15, <1>17, StillHeld
<1>20. /\ \A s \in PackTurns, b \in PackAgents : Hands(s, b) => Hands(s, b)'
       /\ Hands(t, a)'
  BY <1>9, <1>11, <1>16 DEF Hands
<1>21. FilesOf(pack[a].files) = FilesOf(pack'[a].files) BY <1>5, <1>7, <1>12
<1>22. WithinDisk'
  <2>1. \A b \in PackAgents : FilesOf(pack[b].files) = FilesOf(pack'[b].files)
    BY <1>12, <1>21
  <2>. QED BY <2>1, <1>10 DEF WithinDisk, PackInv
<1>23. FilesOf(pack'[a].files) \subseteq PackFiles
  BY <1>5, <1>7, <1>12 DEF FileLists, FilesOf, ToSet
<1>24. Agreement' BY <1>10, <1>12, <1>20, <1>21, <1>23, OneCopyChanges
<1>25. PackShapes' BY <1>10, <1>12, <1>13 DEF PackInv, PackShapes
<1>. QED BY <1>18, <1>19, <1>21, <1>22, <1>24, <1>25 DEF PackInv

LEMMA JoinKeeps ==
  ASSUME PackInv, NEW t \in PackTurns, NEW a \in PackAgents, JoinWork(t, a)
  PROVE  PackInv'
<1>1. PICK b \in Siblings(a) :
        /\ pack' = [pack EXCEPT ![a] = pack[b]]
        /\ estranged' = IF b \in estranged THEN estranged \cup {a} ELSE estranged
        /\ apart' = IF b \in apart THEN apart \cup {a} ELSE apart
  BY DEF JoinWork
<1>2. b \in PackAgents /\ b # a /\ RunOf[b] = RunOf[a] /\ Initialized(b)
  BY DEF Siblings, PackInv, SessionsHeld
<1>3. ~ Initialized(a) BY DEF JoinWork, PackInv, SessionsHeld
<1>4. PICK r : r = Turn("joined", "other", a) OBVIOUS
<1>5. /\ r \in TurnRecords /\ r.phase = "joined" /\ r.verb = "other" /\ r.agent = a
  BY <1>4, FirstRecord DEF TurnPhases
<1>6. /\ packTurn' = [packTurn EXCEPT ![t] = r] /\ packTurn[t] = NoTurn
      /\ UNCHANGED <<disk, known, packs>>
  BY <1>4 DEF JoinWork
<1>7. /\ DOMAIN packTurn' = PackTurns /\ packTurn'[t] = r
      /\ \A s \in PackTurns \ {t} : packTurn'[s] = packTurn[s]
  BY <1>6 DEF PackInv, TurnsFit
<1>8. /\ pack'[a] = pack[b] /\ \A c \in PackAgents \ {a} : pack'[c] = pack[c]
      /\ DOMAIN pack' = PackAgents
  BY <1>1 DEF PackInv, PackShapes
<1>9. \A c \in PackAgents : CopyShape(pack'[c]) BY <1>2, <1>8 DEF PackInv, PackShapes
<1>10. /\ Initialized(a)'
       /\ \A c \in PackAgents : Initialized(c) => Initialized(c)'
       /\ \A c \in PackAgents : Initialized(c)' => Initialized(c) \/ c = a
  BY <1>2, <1>8 DEF Initialized
<1>11. packTurn'[t] # NoTurn BY <1>5, <1>7, PhaseOfNoTurn DEF TurnPhases
<1>12. TurnsFit'
  <2>1. TurnFits(t)' BY <1>5, <1>7, <1>10 DEF TurnFits
  <2>. QED BY <2>1, <1>7, <1>10, OneTurnChanges
<1>13. SessionsHeld' BY <1>5, <1>6, <1>7, <1>10, <1>11, StillHeld
<1>14. \A s \in PackTurns, c \in PackAgents : Hands(s, c) => Hands(s, c)'
  BY <1>6, <1>7, PhaseOfNoTurn DEF Hands, TurnPhases
<1>15. WithinDisk'
  <2>. SUFFICES ASSUME NEW c \in PackAgents \ estranged'
                PROVE  FilesOf(pack'[c].files) \subseteq FilesOf(disk.files)
    BY <1>6 DEF WithinDisk
  <2>1. CASE c = a BY <2>1, <1>1, <1>2, <1>8 DEF PackInv, WithinDisk
  <2>2. CASE c # a BY <2>2, <1>1, <1>8 DEF PackInv, WithinDisk
  <2>. QED BY <2>1, <2>2
<1>16. Agreement'
  <2>. DEFINE Source(c) == IF c = a THEN b ELSE c
  <2>1. \A c \in PackAgents \ apart' :
          Source(c) \in PackAgents \ apart /\ RunOf[Source(c)] = RunOf[c]
          /\ pack'[c] = pack[Source(c)]
    BY <1>1, <1>2, <1>8
  <2>2. \A c \in PackAgents : Initialized(c)' => Initialized(Source(c))
    BY <1>2, <1>10
  <2>3. \A run : Handed(run) \subseteq Handed(run)'
    <3>1. FilesOf(pack[a].files) = {} BY <1>3 DEF Initialized, NoPack, FilesOf, ToSet
    <3>. QED BY <3>1, <1>8, <1>14, HandedKeeps
  <2>. HIDE DEF Source
  <2>4. \A x, y \in PackAgents \ apart' :
          (RunOf[x] = RunOf[y] /\ Initialized(x)' /\ Initialized(y)') =>
            FilesOf(pack'[x].files) \subseteq FilesOf(pack'[y].files) \cup Handed(RunOf[x])
    BY <2>1, <2>2 DEF PackInv, Agreement
  <2>. QED BY <2>3, <2>4 DEF Agreement
<1>17. PackShapes' BY <1>6, <1>8, <1>9 DEF PackInv, PackShapes
<1>. QED BY <1>12, <1>13, <1>15, <1>16, <1>17 DEF PackInv

\* A sibling's copy has its own files and the source's.
LEMMA SiblingCopySound ==
  ASSUME PackInv, NEW a \in PackAgents, NEW b \in PackAgents, Initialized(b)
  PROVE  /\ CopyShape(SiblingCopy(a, b)) /\ SiblingCopy(a, b) # NoPack
         /\ FilesOf(SiblingCopy(a, b).files) =
              FilesOf(pack[b].files) \cup FilesOf(pack[a].files)
<1>1. PICK source, own : source = pack[a].files /\ own = pack[b].files OBVIOUS
<1>2. source \in FileLists /\ own \in FileLists
  BY <1>1 DEF PackInv, PackShapes, CopyShape
<1>3. PICK new : new = Missing(source, own) OBVIOUS
<1>4. new \in FileLists /\ FilesOf(new) = FilesOf(source) \ FilesOf(own)
  BY <1>2, <1>3, MissingSound
<1>5. CASE new = <<>>
  <2>1. FilesOf(new) = {} BY <1>5 DEF FilesOf, ToSet
  <2>2. SiblingCopy(a, b) = pack[b] BY <1>1, <1>3, <1>5 DEF SiblingCopy
  <2>. QED BY <2>1, <2>2, <1>1, <1>4 DEF Initialized, PackInv, PackShapes
<1>6. CASE new # <<>>
  <2>1. PICK files : files = own \o new OBVIOUS
  <2>2. files \in FileLists /\ FilesOf(files) = FilesOf(own) \cup FilesOf(new)
    BY <2>1, <1>2, <1>4, JoinedLists
  <2>3. files # <<>>
    <3>1. Len(own) \in Nat /\ Len(new) \in Nat \ {0} BY <1>2, <1>4, <1>6 DEF FileLists
    <3>2. Len(files) = Len(own) + Len(new) BY <2>1, <1>2, <1>4 DEF FileLists
    <3>. QED BY <3>1, <3>2
  <2>4. SiblingCopy(a, b) = [files |-> files, hash |-> pack[a].hash]
    BY <2>1, <1>1, <1>3, <1>6 DEF SiblingCopy
  <2>5. SiblingCopy(a, b).files = files BY <2>4
  <2>6. CopyShape(SiblingCopy(a, b)) BY <2>2, <2>4 DEF CopyShape
  <2>7. SiblingCopy(a, b) # NoPack BY <2>3, <2>5 DEF NoPack
  <2>. QED BY <2>2, <2>5, <2>6, <2>7, <1>1, <1>4
<1>. QED BY <1>5, <1>6

LEMMA EndsKeeps ==
  ASSUME PackInv, NEW t \in PackTurns, PackTurnEnds(t)
  PROVE  /\ PackInv'
         /\ \A b \in PackAgents : FilesOf(pack[b].files) \subseteq FilesOf(pack'[b].files)
<1>1. packTurn[t].phase \in {"ending", "joined"} BY DEF PackTurnEnds
<1>2. TurnFits(t) /\ packTurn[t].agent \in PackAgents BY <1>1, TurnFacts DEF TurnPhases
<1>3. PICK a : a = packTurn[t].agent OBVIOUS
<1>4. a \in PackAgents /\ Initialized(a) BY <1>1, <1>2, <1>3 DEF TurnFits
<1>5. PICK missing : missing =
        {b \in PackAgents \ known : RunOf[b] = RunOf[a] /\ b # a /\ InFlight(b)}
  OBVIOUS
<1>6. /\ packTurn' = [packTurn EXCEPT ![t] = NoTurn] /\ known' = known \cup {a}
      /\ UNCHANGED <<disk, packs>>
      /\ IF packTurn[t].verb = "escalate"
         THEN /\ pack' = [b \in PackAgents |->
                            IF b \in Siblings(a) THEN SiblingCopy(a, b) ELSE pack[b]]
              /\ estranged' = estranged \cup
                   (IF a \in estranged THEN {b \in Siblings(a) : pack'[b] # pack[b]}
                    ELSE {})
              /\ apart' = apart \cup missing
         ELSE UNCHANGED <<pack, estranged, apart>>
  BY <1>3, <1>5 DEF PackTurnEnds
<1>7. /\ DOMAIN packTurn' = PackTurns /\ packTurn'[t] = NoTurn
      /\ \A s \in PackTurns \ {t} : packTurn'[s] = packTurn[s]
  BY <1>6 DEF PackInv, TurnsFit
<1>8. \A b \in Siblings(a) : b \in PackAgents /\ b # a /\ RunOf[b] = RunOf[a] /\ Initialized(b)
  BY DEF Siblings, PackInv, SessionsHeld
<1>9. /\ DOMAIN pack' = PackAgents /\ \A b \in PackAgents : CopyShape(pack'[b])
      /\ \A b \in PackAgents \ Siblings(a) : pack'[b] = pack[b]
      /\ \A b \in PackAgents : Initialized(b)' = Initialized(b)
      /\ packTurn[t].verb = "escalate" => \A b \in Siblings(a) :
           FilesOf(pack'[b].files) = FilesOf(pack[b].files) \cup FilesOf(pack[a].files)
  <2>1. CASE packTurn[t].verb = "escalate"
    <3>1. \A b \in PackAgents :
            pack'[b] = IF b \in Siblings(a) THEN SiblingCopy(a, b) ELSE pack[b]
      BY <2>1, <1>6
    <3>2. DOMAIN pack' = PackAgents BY <2>1, <1>6
    <3>3. \A b \in Siblings(a) :
            /\ CopyShape(pack'[b]) /\ pack'[b] # NoPack
            /\ FilesOf(pack'[b].files) = FilesOf(pack[b].files) \cup FilesOf(pack[a].files)
      BY <3>1, <1>4, <1>8, SiblingCopySound
    <3>4. \A b \in PackAgents \ Siblings(a) : pack'[b] = pack[b] BY <3>1
    <3>5. \A b \in PackAgents : CopyShape(pack'[b])
      BY <3>3, <3>4 DEF PackInv, PackShapes
    <3>. QED BY <3>2, <3>3, <3>4, <3>5, <1>8 DEF Initialized
  <2>2. CASE packTurn[t].verb # "escalate"
    BY <2>2, <1>6 DEF PackInv, PackShapes, Initialized
  <2>. QED BY <2>1, <2>2
<1>10. \A b \in PackAgents : FilesOf(pack[b].files) \subseteq FilesOf(pack'[b].files)
  <2>1. CASE packTurn[t].verb = "escalate" BY <2>1, <1>9
  <2>2. CASE packTurn[t].verb # "escalate" BY <2>2, <1>6
  <2>. QED BY <2>1, <2>2
<1>11. PackShapes' BY <1>6, <1>9 DEF PackInv, PackShapes
<1>12. TurnsFit' BY <1>7, <1>9, OneTurnChanges
<1>13. SessionsHeld'
  <2>1. known' \subseteq PackAgents /\ \A b \in known' : Initialized(b)'
    BY <1>4, <1>6, <1>9 DEF PackInv, SessionsHeld
  <2>2. ASSUME NEW b \in PackAgents, Initialized(b)', b # a, b \notin known
        PROVE  InFlight(b)'
    <3>1. InFlight(b) BY <2>2, <1>9 DEF PackInv, SessionsHeld
    <3>2. PICK s \in PackTurns : packTurn[s] # NoTurn /\ packTurn[s].agent = b
      BY <3>1 DEF InFlight
    <3>3. s # t BY <3>2, <2>2, <1>3
    <3>. QED BY <3>2, <3>3, <1>7 DEF InFlight
  <2>. QED BY <2>1, <2>2, <1>6 DEF SessionsHeld
<1>14. WithinDisk' /\ Agreement'
  <2>1. CASE packTurn[t].verb # "escalate"
    <3>1. UNCHANGED <<pack, estranged, apart, disk>> BY <2>1, <1>6
    <3>2. \A s \in PackTurns, b \in PackAgents : Hands(s, b) => Hands(s, b)'
      BY <2>1, <1>7 DEF Hands
    <3>. QED BY <3>1, <3>2, <1>9, FilesAsBefore
  <2>2. CASE packTurn[t].verb = "escalate"
    <3>1. WithinDisk'
      <4>. SUFFICES ASSUME NEW b \in PackAgents \ estranged'
                    PROVE  FilesOf(pack'[b].files) \subseteq FilesOf(disk.files)
        BY <1>6 DEF WithinDisk
      <4>1. b \notin estranged BY <2>2, <1>6
      <4>2. FilesOf(pack[b].files) \subseteq FilesOf(disk.files)
        BY <4>1 DEF PackInv, WithinDisk
      <4>3. CASE pack'[b] = pack[b] BY <4>2, <4>3
      <4>4. CASE pack'[b] # pack[b]
        <5>1. b \in Siblings(a) /\ a \notin estranged BY <4>4, <2>2, <1>6, <1>9
        <5>2. FilesOf(pack[a].files) \subseteq FilesOf(disk.files)
          BY <5>1, <1>4 DEF PackInv, WithinDisk
        <5>. QED BY <5>1, <5>2, <4>2, <2>2, <1>9
      <4>. QED BY <4>3, <4>4
    <3>2. Agreement'
      <4>. SUFFICES ASSUME NEW x \in PackAgents \ apart', NEW y \in PackAgents \ apart',
                           RunOf[x] = RunOf[y], Initialized(x)', Initialized(y)'
                    PROVE  FilesOf(pack'[x].files) \subseteq FilesOf(pack'[y].files)
                                                               \cup Handed(RunOf[x])'
        BY DEF Agreement
      <4>1. FilesOf(pack[x].files) \subseteq FilesOf(pack[y].files) \cup Handed(RunOf[x])
        BY <2>2, <1>6, <1>9 DEF PackInv, Agreement
      <4>2. CASE RunOf[x] # RunOf[a]
        <5>1. pack'[x] = pack[x] /\ pack'[y] = pack[y] BY <4>2, <1>8, <1>9
        <5>2. \A s \in PackTurns, b \in PackAgents :
                Hands(s, b) /\ RunOf[b] = RunOf[x] => Hands(s, b)'
          BY <4>2, <1>3, <1>7 DEF Hands
        <5>3. Handed(RunOf[x]) \subseteq Handed(RunOf[x])' BY <5>2, <1>10, HandedKeeps
        <5>. QED BY <5>1, <5>3, <4>1
      <4>3. CASE RunOf[x] = RunOf[a]
        <5>1. FilesOf(pack'[x].files) \subseteq FilesOf(pack[x].files) \cup FilesOf(pack[a].files)
          BY <2>2, <1>9
        <5>2. FilesOf(pack[a].files) \subseteq FilesOf(pack'[y].files)
          <6>1. CASE y = a BY <6>1, <1>10
          <6>2. CASE y \in Siblings(a) BY <6>2, <2>2, <1>9
          <6>3. CASE y # a /\ y \notin Siblings(a)
            <7>1. y \notin known BY <6>3, <4>3 DEF Siblings
            <7>2. InFlight(y) BY <7>1, <1>9 DEF PackInv, SessionsHeld
            <7>3. y \in missing BY <7>1, <7>2, <6>3, <4>3, <1>5
            <7>. QED BY <7>3, <2>2, <1>6
          <6>. QED BY <6>1, <6>2, <6>3
        <5>3. Handed(RunOf[x]) \subseteq Handed(RunOf[x])' \cup FilesOf(pack[a].files)
          <6>. SUFFICES ASSUME NEW f \in Handed(RunOf[x])
                        PROVE  f \in Handed(RunOf[x])' \cup FilesOf(pack[a].files)
            OBVIOUS
          <6>1. PICK s \in PackTurns, b \in PackAgents :
                  Hands(s, b) /\ RunOf[b] = RunOf[x] /\ f \in FilesOf(pack[b].files)
            BY DEF Handed
          <6>2. CASE s = t BY <6>1, <6>2, <1>3 DEF Hands
          <6>3. CASE s # t
            <7>1. Hands(s, b)' BY <6>1, <6>3, <1>7 DEF Hands
            <7>2. f \in PackFiles /\ f \in FilesOf(pack'[b].files)
              BY <6>1, <1>10 DEF Handed
            <7>. QED BY <7>1, <7>2, <6>1 DEF Handed
          <6>. QED BY <6>2, <6>3
        <5>4. FilesOf(pack[y].files) \subseteq FilesOf(pack'[y].files) BY <1>10
        <5>. QED BY <5>1, <5>2, <5>3, <5>4, <4>1
      <4>. QED BY <4>2, <4>3
    <3>. QED BY <3>1, <3>2
  <2>. QED BY <2>1, <2>2
<1>. QED BY <1>10, <1>11, <1>12, <1>13, <1>14 DEF PackInv

\* A life of the process without sessions.
LEMMA RestartKeeps ==
  ASSUME PackInv, PackRestart
  PROVE  PackInv'
<1>1. /\ UNCHANGED <<disk, packs>>
      /\ pack' = [a \in PackAgents |-> NoPack] /\ known' = {}
      /\ packTurn' = [t \in PackTurns |-> NoTurn]
  BY DEF PackRestart
<1>2. NoPack.files = <<>> /\ CopyShape(NoPack) BY DEF NoPack, CopyShape, FileLists
<1>3. \A a \in PackAgents : ~ Initialized(a)' BY <1>1 DEF Initialized
<1>4. PackShapes' BY <1>1, <1>2 DEF PackInv, PackShapes
<1>5. TurnsFit' BY <1>1 DEF TurnsFit
<1>6. SessionsHeld' BY <1>1, <1>3 DEF SessionsHeld
<1>7. WithinDisk' BY <1>1, <1>2 DEF WithinDisk, FilesOf, ToSet
<1>8. Agreement' BY <1>3 DEF Agreement
<1>. QED BY <1>4, <1>5, <1>6, <1>7, <1>8 DEF PackInv

LEMMA PackInitInv == PackInit => PackInv
<1>. SUFFICES ASSUME PackInit PROVE PackInv OBVIOUS
<1>1. NoPack.files = <<>> /\ CopyShape(NoPack) /\ <<>> \in FileLists
  BY DEF NoPack, CopyShape, FileLists
<1>2. \A a \in PackAgents : pack[a] = NoPack BY DEF PackInit
<1>3. \A a \in PackAgents : ~ Initialized(a) BY <1>2 DEF Initialized
<1>4. PackShapes BY <1>1, <1>2 DEF PackInit, PackShapes
<1>5. TurnsFit BY DEF PackInit, TurnsFit
<1>6. SessionsHeld BY <1>3 DEF PackInit, SessionsHeld
<1>7. WithinDisk BY <1>1, <1>2 DEF WithinDisk, FilesOf, ToSet
<1>8. Agreement BY <1>3 DEF Agreement
<1>. QED BY <1>4, <1>5, <1>6, <1>7, <1>8 DEF PackInv

LEMMA PackStepKeeps == PackInv /\ [PackNext]_packVars => PackInv'
<1>. SUFFICES ASSUME PackInv, [PackNext]_packVars PROVE PackInv' OBVIOUS
<1>1. CASE UNCHANGED packVars
  BY <1>1 DEF packVars, PackInv, PackShapes, TurnsFit, TurnFits, SessionsHeld,
     WithinDisk, Agreement, Handed, Hands, Initialized, InFlight
<1>2. CASE PackNext
  BY <1>2, RestartKeeps, JoinKeeps, InitializeKeeps, EscalateInMemoryKeeps,
     EscalateKeeps, TruncateKeeps, CreateKeeps, ReadKeeps, EnrichKeeps,
     EnrichFailsKeeps, EndsKeeps
  DEF PackNext
<1>. QED BY <1>1, <1>2

LEMMA PackInvariant == PackSpec => []PackInv
BY PackInitInv, PackStepKeeps, PTL DEF PackSpec

\* No agent whose session is not estranged is shown a file that the pack on disk
\* lacks, in any interleaving of the turns of any number of agents and runs
\* (enrichContextPack, escalate, propagatePackToSiblings, ensureSession).
THEOREM CopiesOfPack == PackSpec => []CopiesWithinDisk
<1>1. PackInv => CopiesWithinDisk
  BY DEF PackInv, SessionsHeld, WithinDisk, CopiesWithinDisk
<1>. QED BY <1>1, PackInvariant, PTL

\* When no turn is in flight, the sessions of a run that are not apart have the
\* same files, whatever the number of agents (propagatePackToSiblings).
THEOREM OneAllSee == PackSpec => []SiblingsAgree
<1>1. PackInv => SiblingsAgree
  <2>. SUFFICES ASSUME PackInv, \A t \in PackTurns : packTurn[t] = NoTurn,
                       NEW a \in known \ apart, NEW b \in known \ apart,
                       RunOf[a] = RunOf[b], Initialized(a), Initialized(b)
                PROVE  FilesOf(pack[a].files) = FilesOf(pack[b].files)
    BY DEF SiblingsAgree
  <2>1. \A run : Handed(run) = {} BY PhaseOfNoTurn DEF Handed, Hands, TurnPhases
  <2>2. a \in PackAgents \ apart /\ b \in PackAgents \ apart BY DEF PackInv, SessionsHeld
  <2>3. FilesOf(pack[a].files) \subseteq FilesOf(pack[b].files)
    BY <2>1, <2>2 DEF PackInv, Agreement
  <2>4. FilesOf(pack[b].files) \subseteq FilesOf(pack[a].files)
    BY <2>1, <2>2 DEF PackInv, Agreement
  <2>. QED BY <2>3, <2>4
<1>. QED BY <1>1, PackInvariant, PTL

\* A turn that writes a session which nobody else wrote meanwhile adds to it.
LEMMA WriteAdds ==
  ASSUME PackInv, NEW t \in PackTurns, ~ Stale(t),
         NEW new \in FileLists, packTurn[t].phase \in TurnPhases
  PROVE  FilesOf(pack[packTurn[t].agent].files)
           \subseteq FilesOf(packTurn[t].previous \o new)
<1>1. packTurn[t].previous \in FileLists BY TurnFacts
<1>2. packTurn[t].previous = pack[packTurn[t].agent].files BY DEF Stale
<1>3. PICK s : s = packTurn[t].previous OBVIOUS
<1>4. FilesOf(s \o new) = FilesOf(s) \cup FilesOf(new) BY <1>1, <1>3, JoinedLists
<1>. QED BY <1>2, <1>3, <1>4

LEMMA EnrichGrows ==
  ASSUME PackInv, NEW t \in PackTurns, EnrichContextPack(t)
  PROVE  CopiesGrow /\ DiskGrows
<1>1. packTurn[t].phase = "merging" BY DEF EnrichContextPack
<1>2. /\ packTurn[t].phase \in TurnPhases /\ TurnFits(t)
      /\ packTurn[t].agent \in PackAgents /\ packTurn[t].added \in FileLists
  BY <1>1, TurnFacts DEF TurnPhases
<1>3. PICK a : a = packTurn[t].agent OBVIOUS
<1>4. /\ pack'[a].files = packTurn[t].previous \o packTurn[t].added
      /\ \A b \in PackAgents \ {a} : pack'[b] = pack[b]
      /\ disk'.files = packTurn[t].merged
  BY <1>2, <1>3 DEF EnrichContextPack, GrownCopy, PackInv, PackShapes
<1>5. ~ Stale(t) => FilesOf(pack[a].files) \subseteq FilesOf(pack'[a].files)
  <2>1. PICK new : new = packTurn[t].added OBVIOUS
  <2>. QED BY <2>1, <1>2, <1>3, <1>4, WriteAdds
<1>6. CopiesGrow BY <1>1, <1>3, <1>4, <1>5 DEF CopiesGrow, PackInv, SessionsHeld
<1>7. DiskGrows BY <1>1, <1>2, <1>4 DEF DiskGrows, Overwrites, TurnFits
<1>. QED BY <1>6, <1>7

LEMMA EnrichFailsGrows ==
  ASSUME PackInv, NEW t \in PackTurns, EnrichFails(t)
  PROVE  CopiesGrow /\ DiskGrows
<1>1. packTurn[t].phase \in {"enriching", "merging"} BY DEF EnrichFails
<1>2. /\ packTurn[t].phase \in TurnPhases /\ packTurn[t].agent \in PackAgents
      /\ packTurn[t].found \in FileLists
  BY <1>1, TurnFacts DEF TurnPhases
<1>3. PICK a : a = packTurn[t].agent OBVIOUS
<1>4. PICK new : new = Missing(packTurn[t].found, packTurn[t].previous) OBVIOUS
<1>5. new \in FileLists BY <1>2, <1>4, MissingSound
<1>6. /\ pack'[a].files = packTurn[t].previous \o new
      /\ \A b \in PackAgents \ {a} : pack'[b] = pack[b]
      /\ disk' = disk
  BY <1>2, <1>3, <1>4 DEF EnrichFails, PackInv, PackShapes
<1>7. ~ Stale(t) => FilesOf(pack[a].files) \subseteq FilesOf(pack'[a].files)
  BY <1>2, <1>3, <1>5, <1>6, WriteAdds
<1>8. CopiesGrow BY <1>1, <1>3, <1>6, <1>7 DEF CopiesGrow, PackInv, SessionsHeld
<1>. QED BY <1>6, <1>8 DEF DiskGrows

LEMMA CreateGrows ==
  ASSUME PackInv, NEW t \in PackTurns, CreateContextPack(t)
  PROVE  CopiesGrow /\ DiskGrows
<1>1. packTurn[t].phase = "writing" BY DEF CreateContextPack
<1>2. \A b \in PackAgents \ {packTurn[t].agent} : pack'[b] = pack[b]
  BY DEF CreateContextPack, PackInv, PackShapes
<1>. QED BY <1>1, <1>2 DEF CopiesGrow, DiskGrows, PackInv, SessionsHeld

LEMMA PackStepGrows == PackInv /\ [PackNext]_packVars => [CopiesGrow /\ DiskGrows]_packVars
<1>. SUFFICES ASSUME PackInv, PackNext PROVE CopiesGrow /\ DiskGrows OBVIOUS
<1>1. ASSUME NEW t \in PackTurns, NEW a \in PackAgents, JoinWork(t, a)
      PROVE  CopiesGrow /\ DiskGrows
  <2>1. a \notin known /\ \A b \in PackAgents \ {a} : pack'[b] = pack[b]
    BY <1>1 DEF JoinWork, PackInv, PackShapes
  <2>. QED BY <2>1, <1>1 DEF JoinWork, CopiesGrow, DiskGrows, PackInv, SessionsHeld
<1>2. ASSUME NEW t \in PackTurns, NEW a \in PackAgents, HandleEscalateInMemory(t, a)
      PROVE  CopiesGrow /\ DiskGrows
  <2>1. \A b \in PackAgents \ {a} : pack'[b] = pack[b]
    BY <1>2 DEF HandleEscalateInMemory, PackInv, PackShapes
  <2>2. FilesOf(pack[a].files) \subseteq FilesOf(pack'[a].files)
    BY <1>2, EscalateInMemoryKeeps
  <2>. QED BY <2>1, <2>2, <1>2
       DEF HandleEscalateInMemory, CopiesGrow, DiskGrows, PackInv, SessionsHeld
<1>3. ASSUME NEW t \in PackTurns, PackTurnEnds(t)
      PROVE  CopiesGrow /\ DiskGrows
  BY <1>3, EndsKeeps DEF PackTurnEnds, CopiesGrow, DiskGrows, PackInv, SessionsHeld
<1>4. ASSUME NEW t \in PackTurns, TruncatePack(t) PROVE CopiesGrow /\ DiskGrows
  BY <1>4 DEF TruncatePack, CopiesGrow, DiskGrows, PackInv, PackShapes
<1>5. CASE PackRestart BY <1>5 DEF PackRestart, CopiesGrow, DiskGrows
<1>6. CASE UNCHANGED <<disk, pack>> BY <1>6 DEF CopiesGrow, DiskGrows
<1>. QED
  BY <1>1, <1>2, <1>3, <1>4, <1>5, <1>6, EnrichGrows, EnrichFailsGrows, CreateGrows
  DEF PackNext, HandleInitialize, HandleEscalatePack, ReadPack

\* No copy loses a file but by its own agent's initialize_work or by a write
\* from an older state of it, and the pack on disk only by a new creation or by
\* a write from an older state (enrichContextPack, propagatePackToSiblings).
THEOREM PacksGrow == PackSpec => PackNeverShrinks
BY PackStepGrows, PackInvariant, PTL DEF PackSpec, PackNeverShrinks

-----------------------------------------------------------------------------
(* Types.                                                                  *)

\* What is in the file, in the ring and on its way is events.
THEOREM EventsTyped == EventsSpec => []EventsTypeOK
<1>1. EventInv => EventsTypeOK
  BY DEF EventInv, EventsTypeOK, Appends
<1> QED
  BY <1>1, EventInvariant, PTL

-----------------------------------------------------------------------------
(* Each file once.                                                         *)

\* The lists of a turn: what was found, and, once the pack was read, what it
\* lacked and what it becomes.
ListsOnce(t) ==
  /\ IsInjective(packTurn[t].found)
  /\ packTurn[t].creation <= packs
  /\ packTurn[t].phase \in {"enriching", "merging"} =>
       /\ IsInjective(packTurn[t].merged) /\ IsInjective(packTurn[t].added)
       /\ FilesOf(packTurn[t].added) \cap FilesOf(packTurn[t].base) = {}

OnceInv ==
  /\ IsInjective(disk.files) /\ disk.creation <= packs
  /\ estranged \subseteq PackAgents /\ apart \subseteq PackAgents
  /\ \A a \in PackAgents \ estranged : IsInjective(pack[a].files)
  /\ \A t \in PackTurns : packTurn[t].phase \in TurnPhases => ListsOnce(t)

LEMMA EmptyOnce == IsInjective(<<>>) /\ IsInjective(NoPack.files)
BY DEF IsInjective, NoPack

\* A turn is what it was but for one.
LEMMA OthersOnce ==
  ASSUME PackInv, OnceInv, NEW t \in PackTurns, packs' \in Nat, packs' >= packs,
         \A s \in PackTurns \ {t} : packTurn'[s] = packTurn[s],
         packTurn'[t].phase \in TurnPhases => ListsOnce(t)'
  PROVE  \A s \in PackTurns : packTurn'[s].phase \in TurnPhases => ListsOnce(s)'
<1>. SUFFICES ASSUME NEW s \in PackTurns \ {t}, packTurn'[s].phase \in TurnPhases
              PROVE  ListsOnce(s)'
  OBVIOUS
<1>1. packTurn'[s] = packTurn[s] OBVIOUS
<1>2. ListsOnce(s) BY <1>1 DEF OnceInv
<1>3. packTurn[s].creation \in Nat /\ packs \in Nat BY <1>1, TurnFacts DEF PackInv, PackShapes
<1>. QED BY <1>1, <1>2, <1>3 DEF ListsOnce

\* What a list lacks of another, behind it.
LEMMA GrownOnce ==
  ASSUME NEW had \in FileLists, NEW found \in FileLists,
         IsInjective(had), IsInjective(found)
  PROVE  /\ IsInjective(had \o Missing(found, had))
         /\ IsInjective(Missing(found, had))
         /\ FilesOf(Missing(found, had)) \cap FilesOf(had) = {}
<1>1. PICK new : new = Missing(found, had) OBVIOUS
<1>2. /\ new \in FileLists /\ IsInjective(new)
      /\ FilesOf(new) = FilesOf(found) \ FilesOf(had)
  BY <1>1, MissingSound
<1>3. FilesOf(had) \cap FilesOf(new) = {} BY <1>2
<1>. QED BY <1>1, <1>2, <1>3, JoinedOnce

LEMMA InitializeOnce ==
  ASSUME PackInv, OnceInv, NEW t \in PackTurns, NEW a \in PackAgents,
         HandleInitialize(t, a)
  PROVE  OnceInv'
<1>1. PICK files \in FirstFiles :
        packTurn' = [packTurn EXCEPT ![t] =
          [Turn("creating", "initialize_work", a) EXCEPT !.creation = packs + 1,
                                                         !.found = files]]
  BY DEF HandleInitialize
<1>2. /\ packTurn'[t].phase = "creating" /\ packTurn'[t].creation = packs + 1
      /\ packTurn'[t].found = files
      /\ \A s \in PackTurns \ {t} : packTurn'[s] = packTurn[s]
  BY <1>1 DEF PackInv, TurnsFit, Turn
<1>3. UNCHANGED <<disk, pack, estranged, apart>> /\ packs' = packs + 1
  BY DEF HandleInitialize
<1>4. packs \in Nat /\ disk.creation \in Nat BY DEF PackInv, PackShapes
<1>5. IsInjective(files) BY PackAssumption
<1>6. ListsOnce(t)' BY <1>2, <1>3, <1>4, <1>5 DEF ListsOnce
<1>7. \A s \in PackTurns : packTurn'[s].phase \in TurnPhases => ListsOnce(s)'
  BY <1>2, <1>3, <1>4, <1>6, OthersOnce
<1>. QED BY <1>3, <1>4, <1>7 DEF OnceInv

LEMMA EscalateOnce ==
  ASSUME PackInv, OnceInv, NEW t \in PackTurns, NEW a \in PackAgents,
         HandleEscalatePack(t, a)
  PROVE  OnceInv'
<1>1. PICK found \in Findings \ {<<>>} :
        packTurn' = [packTurn EXCEPT ![t] =
          [Turn("reading", "escalate", a) EXCEPT !.found = found]]
  BY DEF HandleEscalatePack
<1>2. /\ packTurn'[t].phase = "reading" /\ packTurn'[t].creation = 0
      /\ packTurn'[t].found = found
      /\ \A s \in PackTurns \ {t} : packTurn'[s] = packTurn[s]
  BY <1>1 DEF PackInv, TurnsFit, Turn
<1>3. UNCHANGED <<disk, pack, packs, estranged, apart>> BY DEF HandleEscalatePack
<1>4. packs \in Nat BY DEF PackInv, PackShapes
<1>5. IsInjective(found) BY DEF Findings
<1>6. ListsOnce(t)' BY <1>2, <1>3, <1>4, <1>5 DEF ListsOnce
<1>7. \A s \in PackTurns : packTurn'[s].phase \in TurnPhases => ListsOnce(s)'
  BY <1>2, <1>3, <1>4, <1>6, OthersOnce
<1>. QED BY <1>3, <1>7 DEF OnceInv

\* What was found joins the session's own list; nothing was.
LEMMA EscalateInMemoryOnce ==
  ASSUME PackInv, OnceInv, NEW t \in PackTurns, NEW a \in PackAgents,
         HandleEscalateInMemory(t, a)
  PROVE  OnceInv'
<1>1. PICK had : had = pack[a].files OBVIOUS
<1>2. had \in FileLists /\ <<>> \in FileLists
  BY <1>1 DEF PackInv, PackShapes, CopyShape, FileLists
<1>3. PICK files : files = had \o Missing(<<>>, had) OBVIOUS
<1>4. IsInjective(had) => IsInjective(files) BY <1>2, <1>3, GrownOnce, EmptyOnce
<1>5. /\ pack' = [pack EXCEPT ![a] = [files |-> files, hash |-> ScopeHash(FilesOf(files))]]
      /\ packTurn' = [packTurn EXCEPT ![t] = Turn("ending", "escalate", a)]
      /\ UNCHANGED <<disk, packs, estranged, apart>>
  BY <1>1, <1>3 DEF HandleEscalateInMemory, InMemory
<1>6. /\ pack'[a].files = files /\ \A b \in PackAgents \ {a} : pack'[b] = pack[b]
  BY <1>5 DEF PackInv, PackShapes
<1>7. \A b \in PackAgents \ estranged' : IsInjective(pack'[b].files)
  BY <1>1, <1>4, <1>5, <1>6 DEF OnceInv
<1>8. /\ packTurn'[t].phase = "ending" /\ packTurn'[t].creation = 0
      /\ packTurn'[t].found = <<>>
      /\ \A s \in PackTurns \ {t} : packTurn'[s] = packTurn[s]
  BY <1>5 DEF PackInv, TurnsFit, Turn
<1>9. packs \in Nat BY DEF PackInv, PackShapes
<1>10. ListsOnce(t)' BY <1>5, <1>8, <1>9, EmptyOnce DEF ListsOnce
<1>11. \A s \in PackTurns : packTurn'[s].phase \in TurnPhases => ListsOnce(s)'
  BY <1>5, <1>8, <1>9, <1>10, OthersOnce
<1>. QED BY <1>5, <1>7, <1>11 DEF OnceInv

LEMMA ReadOnce ==
  ASSUME PackInv, OnceInv, NEW t \in PackTurns, ReadPack(t)
  PROVE  OnceInv'
<1>1. PICK files : files = IF disk.state = "text" THEN disk.files ELSE <<>> OBVIOUS
<1>2. PICK c : c = IF disk.state = "text" THEN disk.creation ELSE 0 OBVIOUS
<1>3. packTurn[t].phase = "reading" /\ packTurn[t].phase \in TurnPhases
  BY DEF ReadPack, TurnPhases
<1>4. packTurn[t].found \in FileLists /\ IsInjective(packTurn[t].found)
  BY <1>3, TurnFacts DEF OnceInv, ListsOnce
<1>5. files \in FileLists /\ IsInjective(files)
  BY <1>1, EmptyOnce DEF PackInv, PackShapes, FileLists, OnceInv
<1>6. PICK new, all : new = Missing(packTurn[t].found, files) /\ all = files \o new
  OBVIOUS
<1>7. IsInjective(all) /\ IsInjective(new) /\ FilesOf(new) \cap FilesOf(files) = {}
  BY <1>4, <1>5, <1>6, GrownOnce
<1>8. packTurn' = [packTurn EXCEPT ![t] =
        [packTurn[t] EXCEPT !.phase = "enriching", !.creation = c, !.base = files,
                            !.merged = all, !.added = new]]
  BY <1>1, <1>2, <1>6 DEF ReadPack, Merged, PackInv, TurnsFit
<1>9. /\ packTurn'[t].creation = c /\ packTurn'[t].found = packTurn[t].found
      /\ packTurn'[t].base = files /\ packTurn'[t].merged = all
      /\ packTurn'[t].added = new
      /\ \A s \in PackTurns \ {t} : packTurn'[s] = packTurn[s]
  <2>1. packTurn[t] \in TurnRecords BY <1>3, TurnFacts DEF TurnFits
  <2>. QED BY <2>1, <1>8 DEF PackInv, TurnsFit, TurnRecords
<1>10. UNCHANGED <<disk, pack, packs, estranged, apart>> BY DEF ReadPack
<1>11. packs \in Nat /\ c <= packs BY <1>2 DEF PackInv, PackShapes, OnceInv
<1>12. ListsOnce(t)' BY <1>4, <1>7, <1>9, <1>10, <1>11 DEF ListsOnce
<1>13. \A s \in PackTurns : packTurn'[s].phase \in TurnPhases => ListsOnce(s)'
  BY <1>9, <1>10, <1>11, <1>12, OthersOnce
<1>. QED BY <1>10, <1>13 DEF OnceInv

\* A turn that goes on keeps its lists.
LEMMA PhaseOnce ==
  ASSUME PackInv, OnceInv, NEW t \in PackTurns, packTurn[t].phase \in TurnPhases,
         NEW p, p = "merging" => packTurn[t].phase = "enriching", p # "enriching",
         packTurn' = [packTurn EXCEPT ![t].phase = p], packs' = packs
  PROVE  \A s \in PackTurns : packTurn'[s].phase \in TurnPhases => ListsOnce(s)'
<1>1. packTurn[t] \in TurnRecords /\ ListsOnce(t)
  BY TurnFacts DEF TurnFits, OnceInv
<1>2. packTurn' = [packTurn EXCEPT ![t] = [packTurn[t] EXCEPT !.phase = p]]
  BY DEF PackInv, TurnsFit
<1>3. /\ packTurn'[t] = [packTurn[t] EXCEPT !.phase = p]
      /\ \A s \in PackTurns \ {t} : packTurn'[s] = packTurn[s]
  BY <1>2 DEF PackInv, TurnsFit
<1>4. /\ packTurn'[t].phase = p /\ packTurn'[t].creation = packTurn[t].creation
      /\ packTurn'[t].found = packTurn[t].found /\ packTurn'[t].base = packTurn[t].base
      /\ packTurn'[t].merged = packTurn[t].merged
      /\ packTurn'[t].added = packTurn[t].added
  BY <1>1, <1>3 DEF TurnRecords
<1>5. ListsOnce(t)' BY <1>1, <1>4 DEF ListsOnce
<1>6. packs' \in Nat /\ packs' >= packs BY DEF PackInv, PackShapes
<1>. QED BY <1>3, <1>5, <1>6, OthersOnce

LEMMA TruncateOnce ==
  ASSUME PackInv, OnceInv, NEW t \in PackTurns, TruncatePack(t)
  PROVE  OnceInv'
<1>1. PICK p : p = IF packTurn[t].phase = "creating" THEN "writing" ELSE "merging" OBVIOUS
<1>2. /\ packTurn' = [packTurn EXCEPT ![t].phase = p] /\ packs' = packs
      /\ packTurn[t].phase \in TurnPhases /\ p # "enriching"
      /\ p = "merging" => packTurn[t].phase = "enriching"
  <2>1. packTurn' = [packTurn EXCEPT ![t] = [packTurn[t] EXCEPT !.phase = p]]
    BY <1>1 DEF TruncatePack, PackInv, TurnsFit
  <2>. QED BY <2>1, <1>1 DEF TruncatePack, TurnPhases, PackInv, TurnsFit
<1>3. \A s \in PackTurns : packTurn'[s].phase \in TurnPhases => ListsOnce(s)'
  BY <1>2, PhaseOnce
<1>4. UNCHANGED <<pack, packs, estranged, apart>> /\ disk' = [disk EXCEPT !.state = "blank"]
  BY DEF TruncatePack
<1>5. disk'.files = disk.files /\ disk'.creation = disk.creation
  BY <1>4 DEF PackInv, PackShapes
<1>. QED BY <1>3, <1>4, <1>5 DEF OnceInv

LEMMA CreateOnce ==
  ASSUME PackInv, OnceInv, NEW t \in PackTurns, CreateContextPack(t)
  PROVE  OnceInv'
<1>1. packTurn[t].phase = "writing" /\ packTurn[t].phase \in TurnPhases
  BY DEF CreateContextPack, TurnPhases
<1>2. /\ packTurn[t].agent \in PackAgents /\ ListsOnce(t)
  BY <1>1, TurnFacts DEF OnceInv
<1>3. PICK a, files, c : /\ a = packTurn[t].agent /\ files = packTurn[t].found
                         /\ c = packTurn[t].creation
  OBVIOUS
<1>4. IsInjective(files) /\ c <= packs BY <1>2, <1>3 DEF ListsOnce
<1>5. /\ pack' = [pack EXCEPT ![a] = [files |-> files, hash |-> PayloadHash(c, files)]]
      /\ packTurn' = [packTurn EXCEPT ![t].phase = "ending"] /\ packs' = packs
      /\ disk' = [state |-> "text", creation |-> c, files |-> files]
      /\ estranged' = {b \in PackAgents \ {a} : Initialized(b)}
      /\ apart' = (apart \cup Holders(a)) \ {a}
  BY <1>3 DEF CreateContextPack
<1>6. /\ pack'[a].files = files /\ \A b \in PackAgents \ {a} : pack'[b] = pack[b]
  BY <1>2, <1>3, <1>5 DEF PackInv, PackShapes
<1>7. \A b \in PackAgents \ estranged' : IsInjective(pack'[b].files)
  <2>. TAKE b \in PackAgents \ estranged'
  <2>1. CASE b = a BY <2>1, <1>4, <1>6
  <2>2. CASE b # a
    <3>1. pack'[b] = NoPack BY <2>2, <1>5, <1>6 DEF Initialized
    <3>. QED BY <3>1, EmptyOnce
  <2>. QED BY <2>1, <2>2
<1>8. \A s \in PackTurns : packTurn'[s].phase \in TurnPhases => ListsOnce(s)'
  BY <1>1, <1>5, PhaseOnce
<1>9. estranged' \subseteq PackAgents /\ apart' \subseteq PackAgents
  BY <1>5 DEF OnceInv, Holders
<1>. QED BY <1>4, <1>5, <1>7, <1>8, <1>9 DEF OnceInv

\* A session gets what the disk lacked only if it had no more than the disk.
LEMMA EnrichOnce ==
  ASSUME PackInv, OnceInv, NEW t \in PackTurns, EnrichContextPack(t)
  PROVE  OnceInv'
<1>1. packTurn[t].phase = "merging" /\ packTurn[t].phase \in TurnPhases
  BY DEF EnrichContextPack, TurnPhases
<1>2. /\ packTurn[t].agent \in PackAgents /\ ListsOnce(t) /\ TurnFits(t)
      /\ packTurn[t].previous \in FileLists /\ packTurn[t].added \in FileLists
  BY <1>1, TurnFacts DEF OnceInv
<1>3. PICK a, files : a = packTurn[t].agent
                      /\ files = packTurn[t].previous \o packTurn[t].added
  OBVIOUS
<1>4. /\ pack' = [pack EXCEPT ![a] =
           [files |-> files, hash |-> PayloadHash(packTurn[t].creation, packTurn[t].merged)]]
      /\ packTurn' = [packTurn EXCEPT ![t].phase = "ending"] /\ packs' = packs
      /\ disk' = [state |-> "text", creation |-> packTurn[t].creation,
                  files |-> packTurn[t].merged]
      /\ estranged' = estranged \cup
           (IF Overwrites(t) THEN {b \in PackAgents : Initialized(b)}
            ELSE IF Stale(t) THEN {a} ELSE {})
      /\ apart' = IF Stale(t) THEN apart \cup Holders(a) ELSE apart
  BY <1>3 DEF EnrichContextPack, ApartIfStale, GrownCopy
<1>5. /\ pack'[a].files = files /\ \A b \in PackAgents \ {a} : pack'[b] = pack[b]
  BY <1>2, <1>3, <1>4 DEF PackInv, PackShapes
<1>6. /\ IsInjective(packTurn[t].merged) /\ IsInjective(packTurn[t].added)
      /\ FilesOf(packTurn[t].added) \cap FilesOf(packTurn[t].base) = {}
      /\ packTurn[t].creation <= packs
  BY <1>1, <1>2 DEF ListsOnce
<1>7. ASSUME a \notin estranged' PROVE IsInjective(files)
  <2>1. Initialized(a) BY <1>1, <1>2, <1>3 DEF TurnFits
  <2>2. ~ Overwrites(t) /\ ~ Stale(t) /\ a \notin estranged
    BY <2>1, <1>2, <1>3, <1>4, <1>7
  <2>3. packTurn[t].previous = pack[a].files /\ packTurn[t].base = disk.files
    BY <2>2, <1>3 DEF Stale, Overwrites
  <2>4. FilesOf(pack[a].files) \subseteq FilesOf(disk.files)
    BY <2>2, <1>2, <1>3 DEF PackInv, WithinDisk
  <2>5. FilesOf(packTurn[t].previous) \cap FilesOf(packTurn[t].added) = {}
    BY <2>3, <2>4, <1>6
  <2>6. IsInjective(packTurn[t].previous) BY <2>2, <2>3, <1>2, <1>3 DEF OnceInv
  <2>. QED BY <2>5, <2>6, <1>2, <1>3, <1>6, JoinedOnce
<1>8. \A b \in PackAgents \ estranged' : IsInjective(pack'[b].files)
  BY <1>4, <1>5, <1>7 DEF OnceInv
<1>9. \A s \in PackTurns : packTurn'[s].phase \in TurnPhases => ListsOnce(s)'
  BY <1>1, <1>4, PhaseOnce
<1>10. estranged' \subseteq PackAgents /\ apart' \subseteq PackAgents
  BY <1>2, <1>3, <1>4 DEF OnceInv, Holders
<1>. QED BY <1>4, <1>6, <1>8, <1>9, <1>10 DEF OnceInv

LEMMA EnrichFailsOnce ==
  ASSUME PackInv, OnceInv, NEW t \in PackTurns, EnrichFails(t)
  PROVE  OnceInv'
<1>1. packTurn[t].phase \in TurnPhases BY DEF EnrichFails, TurnPhases
<1>2. PICK a : a = packTurn[t].agent OBVIOUS
<1>3. a \in PackAgents BY <1>1, <1>2, TurnFacts
<1>4. /\ packTurn' = [packTurn EXCEPT ![t].phase = "ending"]
      /\ UNCHANGED <<disk, packs>> /\ estranged' = estranged \cup {a}
      /\ apart' = IF Stale(t) THEN apart \cup Holders(a) ELSE apart
      /\ \A b \in PackAgents \ {a} : pack'[b] = pack[b]
  BY <1>2 DEF EnrichFails, ApartIfStale, PackInv, PackShapes
<1>5. \A b \in PackAgents \ estranged' : IsInjective(pack'[b].files)
  BY <1>4 DEF OnceInv
<1>6. \A s \in PackTurns : packTurn'[s].phase \in TurnPhases => ListsOnce(s)'
  BY <1>1, <1>4, PhaseOnce
<1>7. estranged' \subseteq PackAgents /\ apart' \subseteq PackAgents
  BY <1>3, <1>4 DEF OnceInv, Holders
<1>. QED BY <1>4, <1>5, <1>6, <1>7 DEF OnceInv

LEMMA JoinOnce ==
  ASSUME PackInv, OnceInv, NEW t \in PackTurns, NEW a \in PackAgents, JoinWork(t, a)
  PROVE  OnceInv'
<1>1. PICK b \in Siblings(a) :
        /\ pack' = [pack EXCEPT ![a] = pack[b]]
        /\ estranged' = IF b \in estranged THEN estranged \cup {a} ELSE estranged
        /\ apart' = IF b \in apart THEN apart \cup {a} ELSE apart
  BY DEF JoinWork
<1>2. b \in PackAgents BY DEF Siblings, PackInv, SessionsHeld
<1>3. /\ pack'[a] = pack[b] /\ \A c \in PackAgents \ {a} : pack'[c] = pack[c]
  BY <1>1 DEF PackInv, PackShapes
<1>4. \A c \in PackAgents \ estranged' : IsInjective(pack'[c].files)
  <2>. TAKE c \in PackAgents \ estranged'
  <2>1. CASE c = a BY <2>1, <1>1, <1>2, <1>3 DEF OnceInv
  <2>2. CASE c # a BY <2>2, <1>1, <1>3 DEF OnceInv
  <2>. QED BY <2>1, <2>2
<1>5. packTurn' = [packTurn EXCEPT ![t] = Turn("joined", "other", a)]
      /\ UNCHANGED <<disk, packs>>
  BY DEF JoinWork
<1>6. /\ packTurn'[t].phase = "joined" /\ packTurn'[t].creation = 0
      /\ packTurn'[t].found = <<>>
      /\ \A s \in PackTurns \ {t} : packTurn'[s] = packTurn[s]
  BY <1>5 DEF PackInv, TurnsFit, Turn
<1>7. packs \in Nat BY DEF PackInv, PackShapes
<1>8. ListsOnce(t)' BY <1>5, <1>6, <1>7, EmptyOnce DEF ListsOnce
<1>9. \A s \in PackTurns : packTurn'[s].phase \in TurnPhases => ListsOnce(s)'
  BY <1>5, <1>6, <1>7, <1>8, OthersOnce
<1>10. estranged' \subseteq PackAgents /\ apart' \subseteq PackAgents
  BY <1>1 DEF OnceInv
<1>. QED BY <1>4, <1>5, <1>9, <1>10 DEF OnceInv

LEMMA EndsOnce ==
  ASSUME PackInv, OnceInv, NEW t \in PackTurns, PackTurnEnds(t)
  PROVE  OnceInv'
<1>1. PICK a : a = packTurn[t].agent OBVIOUS
<1>2. packTurn[t].phase \in TurnPhases BY DEF PackTurnEnds, TurnPhases
<1>3. a \in PackAgents BY <1>1, <1>2, TurnFacts
<1>4. packTurn' = [packTurn EXCEPT ![t] = NoTurn] /\ UNCHANGED <<disk, packs>>
  BY DEF PackTurnEnds
<1>5. /\ packTurn'[t].phase \notin TurnPhases
      /\ \A s \in PackTurns \ {t} : packTurn'[s] = packTurn[s]
  BY <1>4, PhaseOfNoTurn DEF PackInv, TurnsFit
<1>6. packs' \in Nat /\ packs' >= packs BY <1>4 DEF PackInv, PackShapes
<1>7. \A s \in PackTurns : packTurn'[s].phase \in TurnPhases => ListsOnce(s)'
  BY <1>5, <1>6, OthersOnce
<1>8. CASE packTurn[t].verb # "escalate"
  <2>1. UNCHANGED <<pack, estranged, apart>> BY <1>8 DEF PackTurnEnds
  <2>. QED BY <2>1, <1>4, <1>7 DEF OnceInv
<1>9. CASE packTurn[t].verb = "escalate"
  <2>1. /\ pack' = [b \in PackAgents |->
                      IF b \in Siblings(a) THEN SiblingCopy(a, b) ELSE pack[b]]
        /\ estranged' = estranged \cup
             (IF a \in estranged THEN {b \in Siblings(a) : pack'[b] # pack[b]} ELSE {})
        /\ apart' \subseteq apart \cup PackAgents
    BY <1>1, <1>9 DEF PackTurnEnds
  <2>2. Siblings(a) \subseteq PackAgents BY DEF Siblings, PackInv, SessionsHeld
  <2>3. estranged' \subseteq PackAgents /\ apart' \subseteq PackAgents
    BY <2>1, <2>2 DEF OnceInv
  <2>4. \A b \in PackAgents \ estranged' : IsInjective(pack'[b].files)
    <3>. TAKE b \in PackAgents \ estranged'
    <3>1. IsInjective(pack[b].files) BY <2>1 DEF OnceInv
    <3>2. CASE pack'[b] = pack[b] BY <3>1, <3>2
    <3>3. CASE pack'[b] # pack[b]
      <4>1. b \in Siblings(a) /\ pack'[b] = SiblingCopy(a, b) BY <3>3, <2>1
      <4>2. a \notin estranged BY <4>1, <3>3, <2>1
      <4>3. PICK source, own : source = pack[a].files /\ own = pack[b].files OBVIOUS
      <4>4. /\ source \in FileLists /\ own \in FileLists
            /\ IsInjective(source) /\ IsInjective(own)
        BY <4>2, <4>3, <3>1, <1>3 DEF PackInv, PackShapes, CopyShape, OnceInv
      <4>5. IsInjective(own \o Missing(source, own)) BY <4>4, GrownOnce
      <4>6. pack'[b].files = own \o Missing(source, own)
        <5>1. PICK new : new = Missing(source, own) OBVIOUS
        <5>2. SiblingCopy(a, b) = IF new = <<>> THEN pack[b]
                                  ELSE [files |-> own \o new, hash |-> pack[a].hash]
          BY <5>1, <4>3 DEF SiblingCopy
        <5>3. new # <<>> BY <5>2, <4>1, <3>3
        <5>. QED BY <5>1, <5>2, <5>3, <4>1
      <4>. QED BY <4>5, <4>6
    <3>. QED BY <3>2, <3>3
  <2>. QED BY <2>3, <2>4, <1>4, <1>7 DEF OnceInv
<1>. QED BY <1>8, <1>9

LEMMA RestartOnce ==
  ASSUME PackInv, OnceInv, PackRestart
  PROVE  OnceInv'
<1>1. /\ UNCHANGED <<disk, packs>>
      /\ pack' = [a \in PackAgents |-> NoPack] /\ estranged' = {} /\ apart' = {}
      /\ packTurn' = [t \in PackTurns |-> NoTurn]
  BY DEF PackRestart
<1>. QED BY <1>1, EmptyOnce, PhaseOfNoTurn DEF OnceInv

LEMMA OnceStep == PackInv /\ OnceInv /\ [PackNext]_packVars => OnceInv'
<1>. SUFFICES ASSUME PackInv, OnceInv, [PackNext]_packVars PROVE OnceInv' OBVIOUS
<1>1. CASE UNCHANGED packVars BY <1>1 DEF packVars, OnceInv, ListsOnce
<1>2. CASE PackNext
  BY <1>2, RestartOnce, JoinOnce, InitializeOnce, EscalateInMemoryOnce, EscalateOnce,
     TruncateOnce, CreateOnce, ReadOnce, EnrichOnce, EnrichFailsOnce, EndsOnce
  DEF PackNext
<1>. QED BY <1>1, <1>2

LEMMA OnceStarts == PackInit => OnceInv
BY EmptyOnce, PhaseOfNoTurn DEF PackInit, OnceInv

\* The pack on disk and the copies are lists of files, and a copy that is of the
\* pack on disk lists each file once, however pack, session and siblings grow.
THEOREM PacksTyped == PackSpec => []PackTypeOK
<1>1. PackSpec => [](PackInv /\ OnceInv)
  BY PackInvariant, OnceStarts, OnceStep, PTL DEF PackSpec
<1>2. PackInv /\ OnceInv => PackTypeOK
  <2>. SUFFICES ASSUME PackInv, OnceInv PROVE PackTypeOK OBVIOUS
  <2>1. \A s \in FileLists : FilesOf(s) \subseteq PackFiles BY DEF FileLists, FilesOf, ToSet
  <2>2. /\ disk \in [state : {"missing", "text", "blank"}, creation : Nat, files : FileLists]
        /\ packs \in Nat
        /\ \A a \in PackAgents : pack[a].files \in FileLists
    BY DEF PackInv, PackShapes, CopyShape
  <2>3. disk.creation \in 0 .. packs BY <2>2 DEF OnceInv
  <2>. QED BY <2>1, <2>2, <2>3 DEF PackTypeOK, OnceInv, PackInv, SessionsHeld
<1>. QED BY <1>1, <1>2, PTL

-----------------------------------------------------------------------------
\* A text is of records that were created.
TextTypes(text) ==
  DOMAIN text \subseteq 1 .. created /\ \A i \in DOMAIN text : text[i] \in Records

LaneTypes(l) ==
  /\ l.phase \in {"idle", "scanning", "reading", "opening", "truncated", "logging",
                  "renaming"}
  /\ l.now \in 0 .. MaxTime
  /\ TextTypes(l.text) /\ TextTypes(l.change)

MemoryTypes ==
  /\ created \in 0 .. MaxRecords /\ clock \in 0 .. MaxTime
  /\ store.state \in {"text", "blank", "garbled"} /\ TextTypes(store.records)
  /\ overrides \subseteq Overrides /\ twice \subseteq Overrides
  /\ DOMAIN written \subseteq 1 .. created /\ exposed \subseteq 1 .. created
  /\ \A t \in Turns : LaneTypes(lane[t])

LEMMA NoRecordsTyped == TextTypes(NoRecords) /\ TextTypes(NoRecords)'
BY DEF TextTypes, NoRecords

\* What was created stays so.
LEMMA TextKept ==
  ASSUME NEW text, created \in Nat, created' \in Nat, created' >= created,
         TextTypes(text)
  PROVE  TextTypes(text)'
BY DEF TextTypes

\* Turns hold files of the folder only.
LEMMA HeldTyped ==
  ASSUME MemoryTypes, NEW t \in Turns
  PROVE  Held(t) \subseteq Overrides /\ Recorded(t) \subseteq Overrides
<1>1. TextTypes(lane[t].change) BY DEF MemoryTypes, LaneTypes
<1>2. \A i \in DOMAIN lane[t].change :
        lane[t].change[i].origin \in Overrides \cup {"friction"}
  BY <1>1 DEF TextTypes, Records
<1>. QED BY <1>2 DEF Held, Recorded

\* A step that moves one lane and writes no file.
LEMMA LaneMoves ==
  ASSUME MemoryInv, MemoryTypes, NEW t \in Turns, NEW l,
         lane' = [lane EXCEPT ![t] = l], LaneTypes(l)',
         created' \in created .. MaxRecords, clock' = clock, written' = written,
         store' = store, overrides' \subseteq overrides, twice' \subseteq Overrides,
         exposed' \subseteq exposed \cup DOMAIN written
  PROVE  MemoryTypes'
<1>1. /\ created \in Nat /\ created' \in Nat /\ created' >= created
      /\ created' \in 0 .. MaxRecords
  BY MemoryAssumption DEF MemoryTypes
<1>2. ASSUME NEW u \in Turns PROVE LaneTypes(lane[u])'
  <2>1. CASE u = t BY <2>1 DEF MemoryInv
  <2>2. CASE u # t
    <3>1. PICK m : m = lane[u] OBVIOUS
    <3>2. lane'[u] = m BY <3>1, <2>2 DEF MemoryInv
    <3>3. LaneTypes(m) BY <3>1 DEF MemoryTypes
    <3>4. TextTypes(m.text)' /\ TextTypes(m.change)' BY <3>3, <1>1, TextKept DEF LaneTypes
    <3>. QED BY <3>2, <3>3, <3>4 DEF LaneTypes
  <2>. QED BY <2>1, <2>2
<1>3. TextTypes(store.records)'
  <2>1. PICK text : text = store.records /\ text = store'.records OBVIOUS
  <2>. QED BY <2>1, <1>1, TextKept DEF MemoryTypes
<1>4. DOMAIN written' \subseteq 1 .. created' /\ exposed' \subseteq 1 .. created'
  BY <1>1 DEF MemoryTypes
<1>. QED BY <1>1, <1>2, <1>3, <1>4 DEF MemoryTypes

LEMMA IdleTyped ==
  ASSUME MemoryTypes, clock' = clock
  PROVE  LaneTypes(IdleLane)'
BY NoRecordsTyped, MemoryAssumption DEF LaneTypes, IdleLane

LEMMA CreateTyped ==
  ASSUME MemoryInv, MemoryTypes, NEW t \in Turns, NEW record \in Records, NEW todo,
         StartCreate(t, record, todo), twice' \subseteq Overrides
  PROVE  MemoryTypes'
<1>1. PICK change : change = [i \in {created + 1} |-> record] OBVIOUS
<1>2. PICK l : l = [phase |-> "reading", todo |-> todo, now |-> clock,
                    text |-> NoRecords, change |-> change] OBVIOUS
<1>3. /\ created' = created + 1 /\ created \in Nat /\ created' \in created .. MaxRecords
      /\ lane' = [lane EXCEPT ![t] = l]
      /\ UNCHANGED <<store, overrides, clock, written, exposed>>
  BY <1>1, <1>2, MemoryAssumption DEF StartCreate, MemoryTypes
<1>4. TextTypes(change)'
  <2>1. DOMAIN change = {created'} /\ \A i \in DOMAIN change : change[i] = record
    BY <1>1, <1>3
  <2>2. created' \in 1 .. created' BY <1>3
  <2>. QED BY <2>1, <2>2 DEF TextTypes, Records
<1>5. LaneTypes(l)' BY <1>2, <1>4, NoRecordsTyped DEF LaneTypes, MemoryTypes
<1>. QED BY <1>3, <1>5, LaneMoves

LEMMA ReadRecordsTyped ==
  ASSUME MemoryInv, MemoryTypes, NEW t \in Turns, NEW change, TextTypes(change),
         ReadRecords(t, change)
  PROVE  MemoryTypes'
<1>1. PICK had : had = ReadAll OBVIOUS
<1>2. TextTypes(had) BY <1>1, NoRecordsTyped DEF ReadAll, MemoryTypes
<1>3. PICK text : text = TextWith(had, change) OBVIOUS
<1>4. TextTypes(text)
  <2>1. /\ DOMAIN text = DOMAIN change \cup DOMAIN had
        /\ \A i \in DOMAIN change : text[i] = change[i]
        /\ \A i \in DOMAIN had \ DOMAIN change : text[i] = had[i]
    <3>1. \A records :
            /\ DOMAIN TextWith(records, change) = DOMAIN change \cup DOMAIN records
            /\ \A i \in DOMAIN change : TextWith(records, change)[i] = change[i]
            /\ \A i \in DOMAIN records \ DOMAIN change :
                 TextWith(records, change)[i] = records[i]
      BY TextWithSound
    <3>. QED BY <1>3, <3>1, Zenon
  <2>. QED BY <2>1, <1>2 DEF TextTypes
<1>5. PICK l : l = [lane[t] EXCEPT !.phase = "opening", !.change = change, !.text = text]
  OBVIOUS
<1>6. l = [phase |-> "opening", todo |-> lane[t].todo, now |-> lane[t].now,
           text |-> text, change |-> change]
  <2>1. \A m, p, x, c : LaneShape(m) =>
          [m EXCEPT !.phase = p, !.change = c, !.text = x] =
            [phase |-> p, todo |-> m.todo, now |-> m.now, text |-> x, change |-> c]
    BY OpenedLane
  <2>2. LaneShape(lane[t]) BY DEF MemoryInv
  <2>. QED BY <1>5, <2>1, <2>2, Zenon
<1>7. /\ lane' = [lane EXCEPT ![t] = l]
      /\ UNCHANGED <<store, overrides, clock, created, written, twice>>
      /\ exposed' \subseteq exposed \cup DOMAIN written
  BY <1>1, <1>3, <1>5 DEF ReadRecords, MemoryInv
<1>8. TextTypes(text)' /\ TextTypes(change)' BY <1>4, <1>7 DEF TextTypes
<1>9. LaneTypes(l)' BY <1>6, <1>8 DEF LaneTypes, MemoryTypes
<1>10. created' \in created .. MaxRecords /\ twice' \subseteq Overrides
  BY <1>7, MemoryAssumption DEF MemoryTypes
<1>. QED BY <1>7, <1>9, <1>10, LaneMoves

\* The promotion lane makes records of records.
LEMMA PromotedTyped ==
  ASSUME NEW records, TextTypes(records), NEW now \in 0 .. MaxTime
  PROVE  TextTypes(Promoted(records, now))
<1>. DEFINE due == {i \in DOMAIN records :
                      CanPromote(records[i], now) \/ CanExpire(records[i], now)}
            after(r) == [r EXCEPT !.updatedAt = now,
                           !.state = IF @ = "pending" THEN "provisional" ELSE "expired"]
<1>1. Promoted(records, now) = [i \in due |-> after(records[i])] BY DEF Promoted
<1>2. ASSUME NEW r \in Records PROVE after(r) \in Records
  <2>1. PICK x : x = IF r.state = "pending" THEN "provisional" ELSE "expired" OBVIOUS
  <2>2. x \in MemoryStates BY <2>1 DEF MemoryStates
  <2>3. PICK s : s = [r EXCEPT !.updatedAt = now, !.state = x] OBVIOUS
  <2>4. s \in Records BY <2>2, <2>3 DEF Records
  <2>5. after(r) = s BY <2>1, <2>3
  <2>. QED BY <2>4, <2>5
<1>. HIDE DEF after
<1>3. \A i \in due : i \in DOMAIN records /\ after(records[i]) \in Records
  BY <1>2 DEF TextTypes
<1>. HIDE DEF due
<1>. QED BY <1>1, <1>3 DEF TextTypes

LEMMA TruncateTyped ==
  ASSUME MemoryInv, MemoryTypes, NEW t \in Turns, TruncateRecords(t)
  PROVE  MemoryTypes'
<1>1. PICK m : m = lane[t] OBVIOUS
<1>2. LaneShape(m) /\ LaneTypes(m) BY <1>1 DEF MemoryInv, MemoryTypes
<1>3. PICK l : l = [m EXCEPT !.phase = "truncated"] OBVIOUS
<1>4. l = [phase |-> "truncated", todo |-> m.todo, now |-> m.now, text |-> m.text,
           change |-> m.change]
  BY <1>2, <1>3 DEF LaneShape
<1>5. /\ lane' = [lane EXCEPT ![t] = l]
      /\ store' = [state |-> "blank", records |-> NoRecords]
      /\ UNCHANGED <<overrides, clock, created, written, exposed, twice>>
  BY <1>1, <1>3 DEF TruncateRecords, MemoryInv
<1>6. LaneTypes(l)' BY <1>2, <1>4, <1>5 DEF LaneTypes, TextTypes
<1>7. \A u \in Turns : lane'[u] = IF u = t THEN l ELSE lane[u] BY <1>5 DEF MemoryInv
<1>8. \A u \in Turns : LaneTypes(lane[u])'
  BY <1>5, <1>6, <1>7 DEF MemoryTypes, LaneTypes, TextTypes
<1>9. TextTypes(store.records)' BY <1>5, NoRecordsTyped
<1>. QED BY <1>5, <1>8, <1>9 DEF MemoryTypes

LEMMA WriteTyped ==
  ASSUME MemoryInv, MemoryTypes, NEW t \in Turns, WriteAll(t)
  PROVE  MemoryTypes'
<1>1. PICK m : m = lane[t] OBVIOUS
<1>2. LaneShape(m) /\ LaneTypes(m) BY <1>1 DEF MemoryInv, MemoryTypes
<1>3. PICK l : l = [m EXCEPT !.phase = "logging"] OBVIOUS
<1>4. l = [phase |-> "logging", todo |-> m.todo, now |-> m.now, text |-> m.text,
           change |-> m.change]
  BY <1>2, <1>3 DEF LaneShape
<1>5. /\ lane' = [lane EXCEPT ![t] = l]
      /\ \/ store' = [state |-> "text", records |-> m.text]
         \/ store' = [state |-> "garbled", records |-> NoRecords]
      /\ written' = Changed(written, m.change)
      /\ exposed' = exposed \cup UNION {UnknownTo(u, m.text) : u \in Turns \ {t}}
      /\ UNCHANGED <<overrides, clock, created, twice>>
  BY <1>1, <1>3 DEF WriteAll, MemoryInv
<1>6. LaneTypes(l)' BY <1>2, <1>4, <1>5 DEF LaneTypes, TextTypes
<1>7. \A u \in Turns : lane'[u] = IF u = t THEN l ELSE lane[u] BY <1>5 DEF MemoryInv
<1>8. \A u \in Turns : LaneTypes(lane[u])'
  BY <1>5, <1>6, <1>7 DEF MemoryTypes, LaneTypes, TextTypes
<1>9. store'.state \in {"text", "blank", "garbled"} /\ TextTypes(store.records)'
  BY <1>2, <1>5, NoRecordsTyped DEF LaneTypes, TextTypes
<1>10. DOMAIN written' \subseteq 1 .. created'
  BY <1>2, <1>5 DEF Changed, LaneTypes, TextTypes, MemoryTypes
<1>11. exposed' \subseteq 1 .. created'
  <2>1. \A u \in Turns : UnknownTo(u, m.text) \subseteq DOMAIN m.text BY DEF UnknownTo
  <2>2. DOMAIN m.text \subseteq 1 .. created /\ exposed \subseteq 1 .. created
    BY <1>2 DEF LaneTypes, TextTypes, MemoryTypes
  <2>3. UNION {UnknownTo(u, m.text) : u \in Turns \ {t}} \subseteq 1 .. created
    BY <2>1, <2>2
  <2>4. exposed' \subseteq 1 .. created BY <2>2, <2>3, <1>5
  <2>. QED BY <2>4, <1>5
<1>. QED BY <1>5, <1>8, <1>9, <1>10, <1>11 DEF MemoryTypes

\* A lane that starts, goes on or ends without the file.
LEMMA LaneTyped ==
  ASSUME MemoryInv, MemoryTypes, NEW t \in Turns,
         \/ RunAutoPromotion(t) \/ NothingToPromote(t) \/ IngestOverrideFiles(t)
         \/ ScanEnds(t) \/ RenameOverride(t) \/ LogOperation(t) \/ OperationFails(t)
         \/ \E f \in Overrides : SkipOverride(t, f)
  PROVE  MemoryTypes'
<1>1. PICK m : m = lane[t] OBVIOUS
<1>2. LaneShape(m) /\ LaneTypes(m) BY <1>1 DEF MemoryInv, MemoryTypes
<1>3. /\ UNCHANGED <<store, clock, created, written, exposed>>
      /\ overrides' \subseteq overrides /\ twice' \subseteq twice \cup Recorded(t)
  BY DEF RunAutoPromotion, NothingToPromote, IngestOverrideFiles, ScanEnds,
         RenameOverride, LogOperation, OperationFails, SkipOverride
<1>4. \E l : lane' = [lane EXCEPT ![t] = l] /\ LaneTypes(l)'
  <2>1. IdleLane = [phase |-> "idle", todo |-> {}, now |-> 0, text |-> NoRecords,
                    change |-> NoRecords]
    BY DEF IdleLane
  <2>2. \A todo, time : time \in {0, clock} =>
          /\ LaneTypes([IdleLane EXCEPT !.phase = "scanning", !.todo = todo])'
          /\ LaneTypes([IdleLane EXCEPT !.phase = "reading", !.now = time])'
    BY <2>1, <1>3, NoRecordsTyped, MemoryAssumption DEF LaneTypes, MemoryTypes
  <2>3. CASE RunAutoPromotion(t) BY <2>2, <2>3 DEF RunAutoPromotion
  <2>4. CASE NothingToPromote(t) \/ ScanEnds(t)
    BY <2>4, <1>3, IdleTyped DEF NothingToPromote, ScanEnds
  <2>5. CASE IngestOverrideFiles(t) \/ RenameOverride(t)
    BY <2>2, <2>5 DEF IngestOverrideFiles, RenameOverride
  <2>6. CASE LogOperation(t)
    <3>1. PICK l : l = IF m.todo = {} THEN IdleLane
                       ELSE [m EXCEPT !.phase = "renaming", !.text = NoRecords] OBVIOUS
    <3>2. lane' = [lane EXCEPT ![t] = l] BY <3>1, <2>6, <1>1 DEF LogOperation, MemoryInv
    <3>3. CASE m.todo = {} BY <3>1, <3>2, <3>3, <1>3, IdleTyped
    <3>4. CASE m.todo # {}
      <4>1. l = [phase |-> "renaming", todo |-> m.todo, now |-> m.now,
                 text |-> NoRecords, change |-> m.change]
        BY <3>1, <3>4, <1>2 DEF LaneShape
      <4>2. LaneTypes(l)' BY <4>1, <1>2, <1>3, NoRecordsTyped DEF LaneTypes, TextTypes
      <4>. QED BY <4>2, <3>2
    <3>. QED BY <3>3, <3>4
  <2>7. ASSUME NEW f \in Overrides, SkipOverride(t, f)
        PROVE  \E l : lane' = [lane EXCEPT ![t] = l] /\ LaneTypes(l)'
    <3>1. PICK l : l = [m EXCEPT !.todo = m.todo \ {f}] OBVIOUS
    <3>2. lane' = [lane EXCEPT ![t] = l] BY <3>1, <2>7, <1>1 DEF SkipOverride, MemoryInv
    <3>3. l = [phase |-> m.phase, todo |-> m.todo \ {f}, now |-> m.now,
               text |-> m.text, change |-> m.change]
      BY <3>1, <1>2 DEF LaneShape
    <3>4. LaneTypes(l)' BY <3>3, <1>2, <1>3 DEF LaneTypes, TextTypes
    <3>. QED BY <3>2, <3>4
  <2>8. CASE OperationFails(t)
    <3>1. \A todo : LaneTypes([IdleLane EXCEPT !.phase = "scanning", !.todo = todo])'
      BY <2>2
    <3>2. CASE m.todo = {} BY <3>2, <2>8, <1>1, <1>3, IdleTyped DEF OperationFails
    <3>3. CASE m.todo # {}
      <4>1. PICK rest : rest = lane[t].todo \ Held(t) OBVIOUS
      <4>2. lane' = [lane EXCEPT ![t] =
              [IdleLane EXCEPT !.phase = "scanning", !.todo = rest]]
        BY <4>1, <3>3, <2>8, <1>1 DEF OperationFails
      <4>. QED BY <4>2, <3>1
    <3>. QED BY <3>2, <3>3
  <2>. QED BY <2>3, <2>4, <2>5, <2>6, <2>7, <2>8
<1>5. created' \in created .. MaxRecords BY <1>3, MemoryAssumption DEF MemoryTypes
<1>6. twice' \subseteq Overrides BY <1>3, HeldTyped DEF MemoryTypes
<1>. QED BY <1>3, <1>4, <1>5, <1>6, LaneMoves

LEMMA OperateTyped ==
  ASSUME MemoryInv, MemoryTypes, NEW t \in Turns, Operate(t)
  PROVE  MemoryTypes'
<1>1. LaneTypes(lane[t]) /\ clock \in 0 .. MaxTime BY DEF MemoryTypes
<1>2. CASE CreateFromFriction(t)
  <2>1. NewRecord("strategy_signal", "pending", "friction") \in Records
    BY <1>1 DEF NewRecord, Records, Enforcements, MemoryStates
  <2>2. twice' \subseteq Overrides BY <1>2 DEF CreateFromFriction, MemoryTypes
  <2>. QED BY <1>2, <2>1, <2>2, CreateTyped DEF CreateFromFriction
<1>3. CASE AddToRecords(t) BY <1>1, <1>3, ReadRecordsTyped DEF AddToRecords, LaneTypes
<1>4. CASE PromoteRecords(t)
  <2>1. TextTypes(ReadAll) BY NoRecordsTyped DEF ReadAll, MemoryTypes
  <2>2. TextTypes(Promoted(ReadAll, lane[t].now)) BY <2>1, <1>1, PromotedTyped DEF LaneTypes
  <2>. QED BY <2>2, <1>4, ReadRecordsTyped DEF PromoteRecords
<1>5. ASSUME NEW f \in Overrides, TakeOverride(t, f) PROVE MemoryTypes'
  <2>1. f \notin Malformed BY <1>5 DEF TakeOverride
  <2>2. NewRecord(Enforcement[f], "approved", f) \in Records
    BY <2>1, <1>1 DEF NewRecord, Records, Enforcements, MemoryStates
  <2>3. twice' \subseteq Overrides BY <1>5 DEF TakeOverride, MemoryTypes
  <2>. QED BY <2>2, <2>3, <1>5, CreateTyped DEF TakeOverride
<1>. QED BY <1>2, <1>3, <1>4, <1>5, TruncateTyped, WriteTyped, LaneTyped DEF Operate

LEMMA MemoryTypesStep == MemoryInv /\ MemoryTypes /\ [MemoryNext]_memoryVars => MemoryTypes'
<1>. SUFFICES ASSUME MemoryInv, MemoryTypes, [MemoryNext]_memoryVars PROVE MemoryTypes'
  OBVIOUS
<1>1. CASE MemoryCrash
  <2>1. /\ lane' = [t \in Turns |-> IdleLane]
        /\ UNCHANGED <<store, overrides, clock, created, written, exposed>>
        /\ twice' = twice \cup UNION {Recorded(t) : t \in Turns}
    BY <1>1 DEF MemoryCrash
  <2>2. LaneTypes(IdleLane)' BY <2>1, IdleTyped
  <2>3. twice' \subseteq Overrides BY <2>1, HeldTyped DEF MemoryTypes
  <2>. QED BY <2>1, <2>2, <2>3 DEF MemoryTypes, TextTypes, LaneTypes
<1>2. CASE ClockTicks
  <2>1. /\ clock' \in 0 .. MaxTime
        /\ UNCHANGED <<store, overrides, lane, created, written, exposed, twice>>
    BY <1>2, MemoryAssumption DEF ClockTicks, MemoryTypes
  <2>. QED BY <2>1 DEF MemoryTypes, TextTypes, LaneTypes
<1>3. CASE UNCHANGED memoryVars
  BY <1>3 DEF memoryVars, MemoryTypes, TextTypes, LaneTypes
<1>. QED BY <1>1, <1>2, <1>3, OperateTyped DEF MemoryNext

LEMMA MemoryTypesStart == MemoryInit => MemoryTypes
<1>. SUFFICES ASSUME MemoryInit PROVE MemoryTypes OBVIOUS
<1>1. 0 \in 0 .. MaxTime /\ 0 \in 0 .. MaxRecords BY MemoryAssumption
<1>2. LaneTypes(IdleLane) BY <1>1, NoRecordsTyped DEF LaneTypes, IdleLane
<1>3. DOMAIN NoRecords = {} BY NoRecordsTimely
<1>. QED BY <1>1, <1>2, <1>3, NoRecordsTyped DEF MemoryInit, MemoryTypes

\* The file, and what any turn is about to write, has records that were created,
\* each of a state, two times of the clock and an origin.
THEOREM MemoryTyped == MemorySpec => []MemoryTypeOK
<1>1. MemoryInit => MemoryTypes BY MemoryTypesStart
<1>2. MemoryTypes => MemoryTypeOK
  BY DEF MemoryTypes, MemoryTypeOK, LaneTypes, TextTypes
<1>. QED BY <1>1, <1>2, MemoryTypesStep, MemoryInvariant, PTL DEF MemorySpec

-----------------------------------------------------------------------------
(* Overrides are ingested once.                                            *)

\* The id of a record tells, wherever the record is, the origin it has.
AgreesWith(text, o) == \A i \in DOMAIN text : text[i].origin = o[i]

\* What an operation makes known of an override: one record, of a file that is
\* still on the list of its scan.
LaneOnce(l, o) ==
  /\ AgreesWith(l.text, o) /\ AgreesWith(l.change, o)
  /\ \A i, j \in DOMAIN l.change : o[i] # "friction" => i = j
  /\ \A i \in DOMAIN l.change : o[i] # "friction" => o[i] \in l.todo
  /\ l.phase \in {"idle", "scanning"} => DOMAIN l.change = {}
  /\ l.phase \in {"opening", "truncated", "logging", "renaming"} => DOMAIN l.change # {}
  /\ l.phase \in {"logging", "renaming"} => DOMAIN l.change \subseteq DOMAIN written

\* The overrides among the origins of a lane's change, once they are written.
HeldBy(l) == {l.change[i].origin : i \in DOMAIN l.change} \ {"friction"}

RecordedBy(l) == IF l.phase \in {"logging", "renaming"} THEN HeldBy(l) ELSE {}

\* The records written and those under way.
LiveIds == DOMAIN written \cup UNION {DOMAIN lane[t].change : t \in Turns}

\* An override that is renamed was recorded; one that is not in doubt has one
\* record, and while its file is there, the turn that wrote it is to rename it.
OnceWith(o) ==
  /\ AgreesWith(store.records, o) /\ AgreesWith(written, o)
  /\ \A t \in Turns : LaneOnce(lane[t], o)
  /\ \A f \in Overrides \ overrides : \E i \in DOMAIN written : o[i] = f
  /\ \A f \in Overrides \ twice : \A i, j \in LiveIds : o[i] = f /\ o[j] = f => i = j
  /\ \A i \in DOMAIN written : o[i] \in overrides \ twice =>
       \E t \in Turns : o[i] \in RecordedBy(lane[t])

OverridesInv == \E o \in [Nat -> Overrides \cup {"friction"}] : OnceWith(o)

LEMMA HeldOfLane ==
  ASSUME NEW t \in Turns
  PROVE  Held(t) = HeldBy(lane[t]) /\ Recorded(t) = RecordedBy(lane[t])
BY DEF Held, HeldBy, Recorded, RecordedBy

LEMMA IdleOnce ==
  ASSUME NEW o
  PROVE  /\ LaneOnce(IdleLane, o) /\ LaneOnce(IdleLane, o)'
         /\ DOMAIN IdleLane.change = {} /\ RecordedBy(IdleLane) = {}
<1>1. /\ IdleLane.phase = "idle" /\ IdleLane.text = NoRecords
      /\ IdleLane.change = NoRecords
  BY DEF IdleLane
<1>. QED BY <1>1, NoRecordsTimely DEF LaneOnce, AgreesWith, RecordedBy

\* A step that moves one lane, writes nothing, and puts no override into its
\* change; what the lane had recorded stays recorded, is renamed or is in doubt.
LEMMA OnceMoves ==
  ASSUME MemoryInv, MemoryTypes, NEW o \in [Nat -> Overrides \cup {"friction"}],
         OnceWith(o), NEW t \in Turns, NEW l, lane' = [lane EXCEPT ![t] = l],
         LaneOnce(l, o)', written' = written, AgreesWith(store.records, o)',
         overrides' \subseteq overrides, twice \subseteq twice',
         \A f \in overrides \ overrides' : \E i \in DOMAIN written : o[i] = f,
         \A i \in DOMAIN l.change : o[i] = "friction" \/ i \in DOMAIN lane[t].change,
         \A f \in RecordedBy(lane[t]) : f \in overrides' \ twice' => f \in RecordedBy(l)
  PROVE  OnceWith(o)'
<1>1. \A u \in Turns : lane'[u] = IF u = t THEN l ELSE lane[u] BY DEF MemoryInv
<1>2. ASSUME NEW u \in Turns PROVE LaneOnce(lane[u], o)'
  BY <1>1 DEF OnceWith, LaneOnce, AgreesWith
<1>3. \A f \in Overrides \ overrides' : \E i \in DOMAIN written' : o[i] = f
  BY DEF OnceWith
<1>4. ASSUME NEW i \in LiveIds', o[i] # "friction" PROVE i \in LiveIds
  <2>1. CASE i \in DOMAIN written' BY <2>1 DEF LiveIds
  <2>2. CASE i \notin DOMAIN written'
    <3>1. PICK u \in Turns : i \in DOMAIN lane'[u].change BY <2>2 DEF LiveIds
    <3>2. i \in DOMAIN lane[u].change BY <3>1, <1>1, <1>4
    <3>. QED BY <3>2 DEF LiveIds
  <2>. QED BY <2>1, <2>2
<1>5. ASSUME NEW f \in Overrides \ twice', NEW i \in LiveIds', NEW j \in LiveIds',
             o[i] = f /\ o[j] = f
      PROVE  i = j
  <2>1. f # "friction" /\ f \in Overrides \ twice BY MemoryAssumption
  <2>2. i \in LiveIds /\ j \in LiveIds BY <1>4, <1>5, <2>1
  <2>. QED BY <1>5, <2>1, <2>2 DEF OnceWith
<1>6. ASSUME NEW i \in DOMAIN written', o[i] \in overrides' \ twice'
      PROVE  \E u \in Turns : o[i] \in RecordedBy(lane'[u])
  <2>1. PICK u \in Turns : o[i] \in RecordedBy(lane[u]) BY <1>6 DEF OnceWith
  <2>2. o[i] \in RecordedBy(lane'[u]) BY <1>1, <1>6, <2>1
  <2>. QED BY <2>2
<1>7. AgreesWith(written, o)' BY DEF OnceWith, AgreesWith
<1>8. \A u \in Turns : RecordedBy(lane[u])' = RecordedBy(lane'[u])
  BY DEF RecordedBy, HeldBy
<1>. QED BY <1>2, <1>3, <1>5, <1>6, <1>7, <1>8 DEF OnceWith

\* A new record: its id is new, and if an override is taken that no turn holds
\* and that is not in doubt, there is no other record of it.
LEMMA CreateKeepsOnce ==
  ASSUME MemoryInv, MemoryTypes, NEW o \in [Nat -> Overrides \cup {"friction"}],
         OnceWith(o), NEW t \in Turns, NEW record, NEW todo,
         StartCreate(t, record, todo), lane[t].phase \in {"idle", "scanning"},
         \/ record.origin = "friction" /\ twice' = twice
         \/ /\ record.origin \in overrides \cap todo
            /\ twice' = twice \cup ({record.origin} \cap UNION {Held(u) : u \in Turns})
  PROVE  OverridesInv'
<1>1. PICK n : n = created + 1 OBVIOUS
<1>2. n \in Nat /\ created \in Nat BY <1>1, MemoryAssumption DEF MemoryTypes
<1>3. PICK g : g = record.origin OBVIOUS
<1>4. g \in Overrides \cup {"friction"} BY <1>3 DEF MemoryTypes
<1>5. PICK p : p = [o EXCEPT ![n] = g] OBVIOUS
<1>6. /\ p \in [Nat -> Overrides \cup {"friction"}] /\ p[n] = g
      /\ \A i \in 1 .. created : p[i] = o[i]
  BY <1>1, <1>2, <1>4, <1>5
<1>7. PICK change : change = [i \in {n} |-> record] OBVIOUS
<1>8. PICK l : l = [phase |-> "reading", todo |-> todo, now |-> clock,
                    text |-> NoRecords, change |-> change] OBVIOUS
<1>9. /\ lane' = [lane EXCEPT ![t] = l] /\ UNCHANGED <<store, overrides, written>>
  BY <1>1, <1>7, <1>8 DEF StartCreate
<1>10. \A u \in Turns : lane'[u] = IF u = t THEN l ELSE lane[u] BY <1>9 DEF MemoryInv
<1>11. /\ DOMAIN written \subseteq 1 .. created
       /\ DOMAIN store.records \subseteq 1 .. created
       /\ \A u \in Turns : /\ DOMAIN lane[u].text \subseteq 1 .. created
                           /\ DOMAIN lane[u].change \subseteq 1 .. created
  BY DEF MemoryTypes, LaneTypes, TextTypes
<1>12. AgreesWith(store.records, p)' /\ AgreesWith(written, p)'
  BY <1>6, <1>9, <1>11 DEF OnceWith, AgreesWith
<1>13. LaneOnce(l, p)'
  <2>1. /\ l.text = NoRecords /\ l.change = change /\ l.phase = "reading"
        /\ l.todo = todo /\ DOMAIN change = {n} /\ change[n].origin = g
    BY <1>3, <1>7, <1>8
  <2>2. g # "friction" => g \in todo BY <1>3
  <2>. QED BY <1>6, <2>1, <2>2, NoRecordsTimely DEF LaneOnce, AgreesWith
<1>14. ASSUME NEW u \in Turns PROVE LaneOnce(lane[u], p)'
  <2>1. CASE u = t BY <2>1, <1>10, <1>13
  <2>2. CASE u # t
    <3>1. LaneOnce(lane[u], o) BY DEF OnceWith
    <3>2. lane'[u] = lane[u] BY <2>2, <1>10
    <3>. QED BY <3>1, <3>2, <1>6, <1>9, <1>11 DEF LaneOnce, AgreesWith
  <2>. QED BY <2>1, <2>2
<1>15. \A f \in Overrides \ overrides' : \E i \in DOMAIN written' : p[i] = f
  BY <1>6, <1>9, <1>11 DEF OnceWith
<1>16. LiveIds' \subseteq LiveIds \cup {n} /\ LiveIds \subseteq 1 .. created
  <2>1. \A u \in Turns : DOMAIN lane'[u].change \subseteq DOMAIN lane[u].change \cup {n}
    BY <1>7, <1>8, <1>10
  <2>. QED BY <2>1, <1>9, <1>11 DEF LiveIds
<1>17. ASSUME NEW i \in LiveIds, o[i] = g, g # "friction" PROVE g \in twice'
  <2>1. g \in overrides /\ g \in Overrides BY <1>3, <1>17 DEF MemoryTypes
  <2>2. CASE \E u \in Turns : i \in DOMAIN lane[u].change
    <3>1. PICK u \in Turns : i \in DOMAIN lane[u].change BY <2>2
    <3>2. lane[u].change[i].origin = g BY <3>1, <1>17 DEF OnceWith, LaneOnce, AgreesWith
    <3>3. g \in Held(u) BY <3>1, <3>2, <1>17 DEF Held
    <3>. QED BY <3>3, <1>3, <1>17
  <2>3. CASE \A u \in Turns : i \notin DOMAIN lane[u].change
    <3>1. i \in DOMAIN written BY <2>3, <1>17 DEF LiveIds
    <3>2. CASE g \in twice BY <3>2, <1>3, <1>17
    <3>3. CASE g \notin twice
      <4>1. PICK u \in Turns : g \in RecordedBy(lane[u])
        BY <3>1, <3>3, <2>1, <1>17 DEF OnceWith
      <4>2. g \in Held(u) BY <4>1 DEF RecordedBy, HeldBy, Held
      <4>. QED BY <4>2, <1>3, <1>17
    <3>. QED BY <3>2, <3>3
  <2>. QED BY <2>2, <2>3
<1>18. ASSUME NEW f \in Overrides \ twice', NEW i \in LiveIds', NEW j \in LiveIds',
              p[i] = f /\ p[j] = f
       PROVE  i = j
  <2>1. f # "friction" /\ f \notin twice BY <1>3, MemoryAssumption
  <2>2. CASE i # n /\ j # n
    <3>1. i \in LiveIds /\ j \in LiveIds /\ o[i] = f /\ o[j] = f
      BY <2>2, <1>6, <1>16, <1>18
    <3>. QED BY <3>1, <2>1 DEF OnceWith
  <2>3. CASE i = n /\ j # n
    <3>1. j \in LiveIds /\ o[j] = f /\ f = g BY <2>3, <1>6, <1>16, <1>18
    <3>. QED BY <3>1, <2>1, <1>17
  <2>4. CASE i # n /\ j = n
    <3>1. i \in LiveIds /\ o[i] = f /\ f = g BY <2>4, <1>6, <1>16, <1>18
    <3>. QED BY <3>1, <2>1, <1>17
  <2>. QED BY <2>2, <2>3, <2>4
<1>19. ASSUME NEW i \in DOMAIN written', p[i] \in overrides' \ twice'
       PROVE  \E u \in Turns : p[i] \in RecordedBy(lane[u])'
  <2>1. p[i] = o[i] /\ o[i] \in overrides \ twice BY <1>6, <1>9, <1>11, <1>19, <1>3
  <2>2. PICK u \in Turns : o[i] \in RecordedBy(lane[u]) BY <2>1, <1>9, <1>19 DEF OnceWith
  <2>3. u # t BY <2>2 DEF RecordedBy
  <2>4. lane'[u] = lane[u] BY <2>3, <1>10
  <2>. QED BY <2>1, <2>2, <2>4 DEF RecordedBy, HeldBy
<1>20. OnceWith(p)' BY <1>12, <1>14, <1>15, <1>18, <1>19 DEF OnceWith
<1>. QED BY <1>6, <1>20 DEF OverridesInv

\* A text is read, and the change with it is what the operation has made, or the
\* promotion of records that are none of an override.
LEMMA ReadKeepsOnce ==
  ASSUME MemoryInv, MemoryTypes, NEW o \in [Nat -> Overrides \cup {"friction"}],
         OnceWith(o), NEW t \in Turns, NEW change, ReadRecords(t, change),
         AllTimely(change), AgreesWith(change, o), DOMAIN change # {},
         \A i \in DOMAIN change :
           o[i] = "friction" \/ change = lane[t].change
  PROVE  OnceWith(o)'
<1>1. PICK had : had = ReadAll OBVIOUS
<1>2. AgreesWith(had, o)
  BY <1>1, NoRecordsTimely DEF ReadAll, OnceWith, AgreesWith
<1>3. PICK text : text = TextWith(had, change) OBVIOUS
<1>4. AgreesWith(text, o)
  <2>1. /\ DOMAIN text = DOMAIN change \cup DOMAIN had
        /\ \A i \in DOMAIN change : text[i] = change[i]
        /\ \A i \in DOMAIN had \ DOMAIN change : text[i] = had[i]
    BY <1>3 DEF TextWith, Changed
  <2>. QED BY <2>1, <1>2 DEF AgreesWith
<1>5. PICK l : l = [lane[t] EXCEPT !.phase = "opening", !.change = change, !.text = text]
  OBVIOUS
<1>6. l = [phase |-> "opening", todo |-> lane[t].todo, now |-> lane[t].now,
           text |-> text, change |-> change]
  <2>1. \A m, p, x, c : LaneShape(m) =>
          [m EXCEPT !.phase = p, !.change = c, !.text = x] =
            [phase |-> p, todo |-> m.todo, now |-> m.now, text |-> x, change |-> c]
    BY OpenedLane
  <2>2. LaneShape(lane[t]) BY DEF MemoryInv
  <2>. QED BY <1>5, <2>1, <2>2, Zenon
<1>7. /\ lane' = [lane EXCEPT ![t] = l] /\ lane[t].phase = "reading"
      /\ UNCHANGED <<store, overrides, written, twice>>
  BY <1>1, <1>3, <1>5 DEF ReadRecords, MemoryInv
<1>8. LaneOnce(lane[t], o) BY DEF OnceWith
<1>9. /\ \A i, j \in DOMAIN change : o[i] # "friction" => i = j
      /\ \A i \in DOMAIN change : o[i] # "friction" => o[i] \in lane[t].todo
  BY <1>8 DEF LaneOnce
<1>10. LaneOnce(l, o)' BY <1>4, <1>6, <1>9 DEF LaneOnce, AgreesWith
<1>11. AgreesWith(store.records, o)' BY <1>7 DEF OnceWith, AgreesWith
<1>12. RecordedBy(lane[t]) = {} BY <1>7 DEF RecordedBy
<1>13. \A i \in DOMAIN l.change : o[i] = "friction" \/ i \in DOMAIN lane[t].change
  BY <1>6
<1>14. /\ overrides' \subseteq overrides /\ twice \subseteq twice' /\ written' = written
       /\ overrides \ overrides' = {}
  BY <1>7
<1>. QED BY <1>7, <1>10, <1>11, <1>12, <1>13, <1>14, OnceMoves

\* Time promotes no record of an override.
LEMMA PromotedOfFriction ==
  ASSUME MemoryInv, MemoryTypes, NEW o, OnceWith(o), NEW now
  PROVE  \A i \in DOMAIN Promoted(ReadAll, now) :
           /\ o[i] = "friction" /\ Promoted(ReadAll, now)[i].origin = o[i]
<1>1. PICK had : had = ReadAll OBVIOUS
<1>2. AgreesWith(had, o) /\ AllTimely(had)
  BY <1>1, NoRecordsTimely, ReadAllTimely DEF ReadAll, OnceWith, AgreesWith
<1>3. TextTypes(had) BY <1>1, NoRecordsTyped DEF ReadAll, MemoryTypes
<1>. SUFFICES ASSUME NEW i \in DOMAIN Promoted(had, now)
              PROVE  o[i] = "friction" /\ Promoted(had, now)[i].origin = o[i]
  BY <1>1
<1>4. /\ i \in DOMAIN had
      /\ CanPromote(had[i], now) \/ CanExpire(had[i], now)
      /\ Promoted(had, now)[i] =
           [had[i] EXCEPT !.updatedAt = now,
              !.state = IF @ = "pending" THEN "provisional" ELSE "expired"]
  BY DEF Promoted
<1>5. had[i].state # "approved" BY <1>4 DEF CanPromote, CanExpire
<1>6. had[i].origin = "friction" BY <1>2, <1>4, <1>5 DEF AllTimely, Timely
<1>7. had[i] \in Records BY <1>3, <1>4 DEF TextTypes
<1>8. Promoted(had, now)[i].origin = had[i].origin BY <1>4, <1>7 DEF Records
<1>. QED BY <1>2, <1>4, <1>6, <1>8 DEF AgreesWith

\* A write makes its change known, and its override recorded.
LEMMA WriteKeepsOnce ==
  ASSUME MemoryInv, MemoryTypes, NEW o \in [Nat -> Overrides \cup {"friction"}],
         OnceWith(o), NEW t \in Turns, WriteAll(t)
  PROVE  OnceWith(o)'
<1>1. PICK m : m = lane[t] OBVIOUS
<1>2. /\ LaneShape(m) /\ LaneOnce(m, o) /\ m.phase = "truncated"
  BY <1>1 DEF MemoryInv, OnceWith, WriteAll
<1>3. PICK l : l = [m EXCEPT !.phase = "logging"] OBVIOUS
<1>4. l = [phase |-> "logging", todo |-> m.todo, now |-> m.now, text |-> m.text,
           change |-> m.change]
  BY <1>2, <1>3 DEF LaneShape
<1>5. /\ lane' = [lane EXCEPT ![t] = l]
      /\ \/ store' = [state |-> "text", records |-> m.text]
         \/ store' = [state |-> "garbled", records |-> NoRecords]
      /\ written' = Changed(written, m.change)
      /\ UNCHANGED <<overrides, twice>>
  BY <1>1, <1>3 DEF WriteAll, MemoryInv
<1>6. \A u \in Turns : lane'[u] = IF u = t THEN l ELSE lane[u] BY <1>5 DEF MemoryInv
<1>7. /\ DOMAIN written' = DOMAIN written \cup DOMAIN m.change
      /\ \A i \in DOMAIN m.change : written'[i] = m.change[i]
      /\ \A i \in DOMAIN written \ DOMAIN m.change : written'[i] = written[i]
  BY <1>5 DEF Changed
<1>8. AgreesWith(written, o)'
  BY <1>2, <1>7 DEF OnceWith, LaneOnce, AgreesWith
<1>9. AgreesWith(store.records, o)'
  <2>1. store'.records = m.text \/ store'.records = NoRecords BY <1>5
  <2>. QED BY <2>1, <1>2, NoRecordsTimely DEF LaneOnce, AgreesWith
<1>10. LaneOnce(l, o)' BY <1>2, <1>4, <1>7 DEF LaneOnce, AgreesWith
<1>11. ASSUME NEW u \in Turns PROVE LaneOnce(lane[u], o)'
  <2>1. CASE u = t BY <2>1, <1>6, <1>10
  <2>2. CASE u # t
    <3>1. LaneOnce(lane[u], o) /\ lane'[u] = lane[u] BY <2>2, <1>6 DEF OnceWith
    <3>. QED BY <3>1, <1>7 DEF LaneOnce, AgreesWith
  <2>. QED BY <2>1, <2>2
<1>12. \A f \in Overrides \ overrides' : \E i \in DOMAIN written' : o[i] = f
  BY <1>5, <1>7 DEF OnceWith
<1>13. LiveIds' \subseteq LiveIds
  <2>1. \A u \in Turns : DOMAIN lane'[u].change = DOMAIN lane[u].change
    BY <1>1, <1>4, <1>6
  <2>. QED BY <2>1, <1>1, <1>7 DEF LiveIds
<1>14. \A f \in Overrides \ twice' : \A i, j \in LiveIds' : o[i] = f /\ o[j] = f => i = j
  BY <1>5, <1>13 DEF OnceWith
<1>15. ASSUME NEW i \in DOMAIN written', o[i] \in overrides' \ twice'
       PROVE  \E u \in Turns : o[i] \in RecordedBy(lane[u])'
  <2>1. CASE i \in DOMAIN m.change
    <3>1. o[i] # "friction" BY <1>5, <1>15, MemoryAssumption DEF MemoryTypes
    <3>2. l.change[i].origin = o[i] BY <2>1, <1>2, <1>4 DEF LaneOnce, AgreesWith
    <3>3. lane'[t] = l /\ l.phase = "logging" /\ l.change = m.change BY <1>4, <1>6
    <3>. QED BY <2>1, <3>1, <3>2, <3>3 DEF RecordedBy, HeldBy
  <2>2. CASE i \notin DOMAIN m.change
    <3>1. i \in DOMAIN written BY <2>2, <1>7
    <3>2. PICK u \in Turns : o[i] \in RecordedBy(lane[u])
      BY <3>1, <1>5, <1>15 DEF OnceWith
    <3>3. u # t BY <3>2, <1>1, <1>2 DEF RecordedBy
    <3>4. lane'[u] = lane[u] BY <3>3, <1>6
    <3>. QED BY <3>2, <3>4 DEF RecordedBy, HeldBy
  <2>. QED BY <2>1, <2>2
<1>. QED BY <1>8, <1>9, <1>11, <1>12, <1>14, <1>15 DEF OnceWith

\* The steps that write nothing: what a lane drops it has not recorded, has
\* renamed, or leaves in doubt.
LEMMA LaneKeepsOnce ==
  ASSUME MemoryInv, MemoryTypes, NEW o \in [Nat -> Overrides \cup {"friction"}],
         OnceWith(o), NEW t \in Turns,
         \/ RunAutoPromotion(t) \/ NothingToPromote(t) \/ IngestOverrideFiles(t)
         \/ ScanEnds(t) \/ RenameOverride(t) \/ LogOperation(t) \/ OperationFails(t)
         \/ TruncateRecords(t) \/ \E f \in Overrides : SkipOverride(t, f)
  PROVE  OnceWith(o)'
<1>1. PICK m : m = lane[t] OBVIOUS
<1>2. LaneShape(m) /\ LaneOnce(m, o) BY <1>1 DEF MemoryInv, OnceWith
<1>3. IdleLane = [phase |-> "idle", todo |-> {}, now |-> 0, text |-> NoRecords,
                  change |-> NoRecords]
  BY DEF IdleLane
<1>4. /\ written' = written /\ overrides' \subseteq overrides /\ twice \subseteq twice'
  BY DEF RunAutoPromotion, NothingToPromote, IngestOverrideFiles, ScanEnds,
         RenameOverride, LogOperation, OperationFails, TruncateRecords, SkipOverride
<1>5. AgreesWith(store.records, o)'
  <2>1. store' = store \/ store'.records = NoRecords
    BY DEF RunAutoPromotion, NothingToPromote, IngestOverrideFiles, ScanEnds,
           RenameOverride, LogOperation, OperationFails, TruncateRecords, SkipOverride
  <2>. QED BY <2>1, NoRecordsTimely DEF OnceWith, AgreesWith
<1>6. CASE RunAutoPromotion(t) \/ NothingToPromote(t) \/ IngestOverrideFiles(t) \/ ScanEnds(t)
  <2>1. PICK l : /\ lane' = [lane EXCEPT ![t] = l]
                 /\ LaneOnce(l, o)' /\ DOMAIN l.change = {}
    <3>1. CASE RunAutoPromotion(t)
      <4>1. PICK l : l = [IdleLane EXCEPT !.phase = "reading", !.now = clock] OBVIOUS
      <4>2. l.phase = "reading" /\ l.text = NoRecords /\ l.change = NoRecords
        BY <4>1, <1>3
      <4>3. lane' = [lane EXCEPT ![t] = l] BY <3>1, <4>1 DEF RunAutoPromotion
      <4>4. LaneOnce(l, o)' /\ DOMAIN l.change = {}
        BY <4>2, NoRecordsTimely DEF LaneOnce, AgreesWith
      <4>. QED BY <4>3, <4>4
    <3>2. CASE IngestOverrideFiles(t)
      <4>1. PICK l : l = [IdleLane EXCEPT !.phase = "scanning", !.todo = overrides] OBVIOUS
      <4>2. l.phase = "scanning" /\ l.text = NoRecords /\ l.change = NoRecords
        BY <4>1, <1>3
      <4>3. lane' = [lane EXCEPT ![t] = l] BY <3>2, <4>1 DEF IngestOverrideFiles
      <4>4. LaneOnce(l, o)' /\ DOMAIN l.change = {}
        BY <4>2, NoRecordsTimely DEF LaneOnce, AgreesWith
      <4>. QED BY <4>3, <4>4
    <3>3. CASE NothingToPromote(t) \/ ScanEnds(t)
      BY <3>3, IdleOnce DEF NothingToPromote, ScanEnds
    <3>. QED BY <1>6, <3>1, <3>2, <3>3
  <2>2. overrides' = overrides
    BY <1>6 DEF RunAutoPromotion, NothingToPromote, IngestOverrideFiles, ScanEnds
  <2>3. RecordedBy(lane[t]) = {}
    BY <1>6 DEF RunAutoPromotion, NothingToPromote, IngestOverrideFiles, ScanEnds, RecordedBy
  <2>. QED BY <2>1, <2>2, <2>3, <1>4, <1>5, OnceMoves
<1>7. CASE RenameOverride(t)
  <2>1. PICK i \in DOMAIN m.change : OverrideOf(t) = m.change[i].origin
    <3>1. DOMAIN m.change # {} BY <1>1, <1>2, <1>7 DEF RenameOverride, LaneOnce
    <3>. QED BY <3>1, <1>1 DEF OverrideOf
  <2>2. /\ m.phase = "renaming" /\ overrides' = overrides \ {OverrideOf(t)}
    BY <1>1, <1>7 DEF RenameOverride
  <2>3. i \in DOMAIN written /\ o[i] = OverrideOf(t)
    BY <2>1, <2>2, <1>2 DEF LaneOnce, AgreesWith
  <2>4. HeldBy(m) \subseteq {OverrideOf(t)}
    BY <2>1, <2>3, <1>2 DEF HeldBy, LaneOnce, AgreesWith
  <2>5. PICK rest : rest = lane[t].todo \ {OverrideOf(t)} OBVIOUS
  <2>6. PICK l : l = [IdleLane EXCEPT !.phase = "scanning", !.todo = rest] OBVIOUS
  <2>7. lane' = [lane EXCEPT ![t] = l] BY <1>7, <2>5, <2>6 DEF RenameOverride
  <2>8. LaneOnce(l, o)' /\ DOMAIN l.change = {}
    <3>1. l.phase = "scanning" /\ l.text = NoRecords /\ l.change = NoRecords
      BY <1>3, <2>6
    <3>. QED BY <3>1, NoRecordsTimely DEF LaneOnce, AgreesWith
  <2>9. \A f \in RecordedBy(lane[t]) : f \notin overrides' \ twice'
    BY <2>2, <2>4, <1>1 DEF RecordedBy
  <2>10. \A f \in overrides \ overrides' : \E j \in DOMAIN written : o[j] = f
    BY <2>2, <2>3
  <2>. QED BY <2>7, <2>8, <2>9, <2>10, <1>4, <1>5, OnceMoves
<1>8. CASE LogOperation(t)
  <2>1. overrides' = overrides /\ m.phase = "logging" BY <1>1, <1>8 DEF LogOperation
  <2>2. CASE m.todo = {}
    <3>1. lane' = [lane EXCEPT ![t] = IdleLane]
      BY <1>1, <1>8, <2>2 DEF LogOperation, MemoryInv
    <3>2. HeldBy(m) = {} BY <2>2, <1>2 DEF HeldBy, LaneOnce, AgreesWith
    <3>3. RecordedBy(lane[t]) = {} BY <3>2, <1>1 DEF RecordedBy
    <3>. QED BY <3>1, <3>3, <2>1, <1>4, <1>5, IdleOnce, OnceMoves
  <2>3. CASE m.todo # {}
    <3>1. PICK l : l = [m EXCEPT !.phase = "renaming", !.text = NoRecords] OBVIOUS
    <3>2. l = [phase |-> "renaming", todo |-> m.todo, now |-> m.now,
               text |-> NoRecords, change |-> m.change]
      BY <3>1, <1>2 DEF LaneShape
    <3>3. lane' = [lane EXCEPT ![t] = l]
      BY <3>1, <2>3, <1>1, <1>8 DEF LogOperation, MemoryInv
    <3>4. LaneOnce(l, o)'
      BY <3>2, <2>1, <1>2, <1>4, NoRecordsTimely DEF LaneOnce, AgreesWith
    <3>5. RecordedBy(lane[t]) = RecordedBy(l)
      BY <3>2, <2>1, <1>1 DEF RecordedBy, HeldBy
    <3>6. \A i \in DOMAIN l.change : i \in DOMAIN lane[t].change BY <3>2, <1>1
    <3>. QED BY <3>3, <3>4, <3>5, <3>6, <2>1, <1>4, <1>5, OnceMoves
  <2>. QED BY <2>2, <2>3
<1>9. CASE OperationFails(t)
  <2>1. overrides' = overrides /\ twice' = twice \cup Recorded(t)
    BY <1>9 DEF OperationFails
  <2>2. \A f \in RecordedBy(lane[t]) : f \notin overrides' \ twice'
    BY <2>1, HeldOfLane
  <2>3. CASE m.todo = {}
    <3>1. lane' = [lane EXCEPT ![t] = IdleLane]
      BY <2>3, <1>1, <1>9 DEF OperationFails, MemoryInv
    <3>. QED BY <3>1, <2>1, <2>2, <1>4, <1>5, IdleOnce, OnceMoves
  <2>4. CASE m.todo # {}
    <3>1. PICK rest : rest = lane[t].todo \ Held(t) OBVIOUS
    <3>2. PICK l : l = [IdleLane EXCEPT !.phase = "scanning", !.todo = rest] OBVIOUS
    <3>3. lane' = [lane EXCEPT ![t] = l]
      BY <3>1, <3>2, <2>4, <1>1, <1>9 DEF OperationFails
    <3>4. l.phase = "scanning" /\ l.text = NoRecords /\ l.change = NoRecords
      BY <1>3, <3>2
    <3>5. LaneOnce(l, o)' /\ DOMAIN l.change = {}
      BY <3>4, NoRecordsTimely DEF LaneOnce, AgreesWith
    <3>. QED BY <3>3, <3>5, <2>1, <2>2, <1>4, <1>5, OnceMoves
  <2>. QED BY <2>3, <2>4
<1>10. CASE TruncateRecords(t) \/ \E f \in Overrides : SkipOverride(t, f)
  <2>1. overrides' = overrides /\ m.phase \in {"opening", "scanning"}
    BY <1>1, <1>10 DEF TruncateRecords, SkipOverride
  <2>2. RecordedBy(lane[t]) = {} BY <2>1, <1>1 DEF RecordedBy
  <2>3. CASE TruncateRecords(t)
    <3>1. PICK l : l = [m EXCEPT !.phase = "truncated"] OBVIOUS
    <3>2. l = [phase |-> "truncated", todo |-> m.todo, now |-> m.now, text |-> m.text,
               change |-> m.change]
      BY <3>1, <1>2 DEF LaneShape
    <3>3. lane' = [lane EXCEPT ![t] = l] /\ m.phase = "opening"
      BY <3>1, <2>3, <1>1 DEF TruncateRecords, MemoryInv
    <3>4. LaneOnce(l, o)' BY <3>2, <3>3, <1>2 DEF LaneOnce, AgreesWith
    <3>5. \A i \in DOMAIN l.change : i \in DOMAIN lane[t].change BY <3>2, <1>1
    <3>. QED BY <3>3, <3>4, <3>5, <2>1, <2>2, <1>4, <1>5, OnceMoves
  <2>4. ASSUME NEW f \in Overrides, SkipOverride(t, f) PROVE OnceWith(o)'
    <3>1. PICK l : l = [m EXCEPT !.todo = m.todo \ {f}] OBVIOUS
    <3>2. l = [phase |-> m.phase, todo |-> m.todo \ {f}, now |-> m.now,
               text |-> m.text, change |-> m.change]
      BY <3>1, <1>2 DEF LaneShape
    <3>3. lane' = [lane EXCEPT ![t] = l] /\ m.phase = "scanning"
      BY <3>1, <2>4, <1>1 DEF SkipOverride, MemoryInv
    <3>4. DOMAIN m.change = {} BY <3>3, <1>2 DEF LaneOnce
    <3>5. LaneOnce(l, o)' BY <3>2, <3>3, <3>4, <1>2 DEF LaneOnce, AgreesWith
    <3>6. DOMAIN l.change = {} BY <3>2, <3>4
    <3>. QED BY <3>3, <3>5, <3>6, <2>1, <2>2, <1>4, <1>5, OnceMoves
  <2>. QED BY <1>10, <2>3, <2>4
<1>. QED BY <1>6, <1>7, <1>8, <1>9, <1>10

LEMMA OverridesStep ==
  MemoryInv /\ MemoryTypes /\ OverridesInv /\ [MemoryNext]_memoryVars => OverridesInv'
<1>. SUFFICES ASSUME MemoryInv, MemoryTypes, OverridesInv, [MemoryNext]_memoryVars
              PROVE  OverridesInv'
  OBVIOUS
<1>1. PICK o \in [Nat -> Overrides \cup {"friction"}] : OnceWith(o) BY DEF OverridesInv
<1>2. OnceWith(o)' => OverridesInv' BY DEF OverridesInv
<1>3. CASE MemoryCrash
  <2>1. /\ lane' = [t \in Turns |-> IdleLane]
        /\ UNCHANGED <<store, overrides, written>>
        /\ twice' = twice \cup UNION {Recorded(t) : t \in Turns}
    BY <1>3 DEF MemoryCrash
  <2>2. \A t \in Turns : LaneOnce(lane[t], o)' /\ DOMAIN lane'[t].change = {}
    BY <2>1, IdleOnce
  <2>3. LiveIds' \subseteq LiveIds BY <2>1, <2>2 DEF LiveIds
  <2>4. \A f \in Overrides \ twice' : \A i, j \in LiveIds' : o[i] = f /\ o[j] = f => i = j
    BY <1>1, <2>1, <2>3 DEF OnceWith
  <2>5. ASSUME NEW i \in DOMAIN written', o[i] \in overrides' \ twice' PROVE FALSE
    <3>1. PICK t \in Turns : o[i] \in RecordedBy(lane[t]) BY <1>1, <2>1, <2>5 DEF OnceWith
    <3>2. o[i] \in Recorded(t) BY <3>1, HeldOfLane
    <3>. QED BY <3>2, <2>1, <2>5
  <2>6. /\ AgreesWith(store.records, o)' /\ AgreesWith(written, o)'
        /\ \A f \in Overrides \ overrides' : \E i \in DOMAIN written' : o[i] = f
    BY <1>1, <2>1 DEF OnceWith, AgreesWith
  <2>7. OnceWith(o)' BY <2>2, <2>4, <2>5, <2>6 DEF OnceWith
  <2>. QED BY <2>7, <1>2
<1>4. CASE ClockTicks \/ UNCHANGED memoryVars
  <2>1. UNCHANGED <<store, overrides, lane, written, twice>>
    BY <1>4 DEF ClockTicks, memoryVars
  <2>2. \A t \in Turns : LaneOnce(lane[t], o)'
    BY <1>1, <2>1 DEF OnceWith, LaneOnce, AgreesWith
  <2>3. LiveIds' = LiveIds BY <2>1 DEF LiveIds
  <2>4. \A t \in Turns : RecordedBy(lane[t])' = RecordedBy(lane[t])
    BY <2>1 DEF RecordedBy, HeldBy
  <2>5. AgreesWith(store.records, o)' /\ AgreesWith(written, o)'
    BY <1>1, <2>1 DEF OnceWith, AgreesWith
  <2>6. OnceWith(o)' BY <1>1, <2>1, <2>2, <2>3, <2>4, <2>5 DEF OnceWith
  <2>. QED BY <2>6, <1>2
<1>5. ASSUME NEW t \in Turns, Operate(t) PROVE OverridesInv'
  <2>1. LaneShape(lane[t]) /\ LaneOnce(lane[t], o) BY <1>1 DEF MemoryInv, OnceWith
  <2>2. CASE CreateFromFriction(t)
    <3>1. PICK record : /\ StartCreate(t, record, {}) /\ record.origin = "friction"
      BY <2>2 DEF CreateFromFriction, NewRecord
    <3>2. lane[t].phase = "idle" /\ twice' = twice BY <2>2 DEF CreateFromFriction
    <3>. QED BY <3>1, <3>2, <1>1, CreateKeepsOnce
  <2>3. ASSUME NEW f \in Overrides, TakeOverride(t, f) PROVE OverridesInv'
    <3>1. PICK record : StartCreate(t, record, lane[t].todo) /\ record.origin = f
      BY <2>3 DEF TakeOverride, NewRecord
    <3>2. /\ lane[t].phase = "scanning" /\ f \in overrides \cap lane[t].todo
          /\ twice' = twice \cup ({f} \cap UNION {Held(u) : u \in Turns})
      BY <2>3 DEF TakeOverride
    <3>. QED BY <3>1, <3>2, <1>1, CreateKeepsOnce
  <2>4. CASE AddToRecords(t)
    <3>1. /\ DOMAIN lane[t].change # {} /\ ReadRecords(t, lane[t].change)
          /\ AllTimely(lane[t].change) /\ AgreesWith(lane[t].change, o)
      BY <2>1, <2>4 DEF AddToRecords, LaneShape, LaneOnce
    <3>2. OnceWith(o)' BY <3>1, <1>1, ReadKeepsOnce
    <3>. QED BY <3>2, <1>2
  <2>5. CASE PromoteRecords(t)
    <3>1. PICK change : change = Promoted(ReadAll, lane[t].now) OBVIOUS
    <3>2. ReadRecords(t, change) /\ change # NoRecords
      BY <2>5, <3>1 DEF PromoteRecords
    <3>3. DOMAIN change # {}
      <4>1. change = [i \in DOMAIN change |-> change[i]] BY <3>1 DEF Promoted
      <4>. QED BY <4>1, <3>2 DEF NoRecords
    <3>4. AllTimely(change) BY <3>1, <2>1, ReadAllTimely, PromotedTimely DEF LaneShape
    <3>5. \A i \in DOMAIN change : o[i] = "friction" /\ change[i].origin = o[i]
      BY <3>1, <1>1, PromotedOfFriction
    <3>6. AgreesWith(change, o) BY <3>5 DEF AgreesWith
    <3>7. OnceWith(o)' BY <3>2, <3>3, <3>4, <3>5, <3>6, <1>1, ReadKeepsOnce
    <3>. QED BY <3>7, <1>2
  <2>6. CASE WriteAll(t) BY <2>6, <1>1, <1>2, WriteKeepsOnce
  <2>. QED BY <2>2, <2>3, <2>4, <2>5, <2>6, <1>1, <1>2, <1>5, LaneKeepsOnce DEF Operate
<1>. QED BY <1>3, <1>4, <1>5 DEF MemoryNext

\* However many turns ingest the folder at once, whatever fails and wherever the
\* process dies: the file of an override goes only when its record was written,
\* and there is one record of it, unless it was taken while another turn held it
\* or was recorded and not renamed (ingestOverrideFiles).
THEOREM OverridesOnce == MemorySpec => []OverrideOnce
<1>1. MemoryInit => OverridesInv
  <2>. SUFFICES ASSUME MemoryInit PROVE OverridesInv OBVIOUS
  <2>1. PICK o : o = [i \in Nat |-> "friction"] OBVIOUS
  <2>2. o \in [Nat -> Overrides \cup {"friction"}] BY <2>1
  <2>3. /\ overrides = Overrides /\ DOMAIN written = {} /\ DOMAIN store.records = {}
        /\ \A t \in Turns : lane[t] = IdleLane
    BY NoRecordsTimely DEF MemoryInit
  <2>4. LiveIds = {} BY <2>3, IdleOnce DEF LiveIds
  <2>5. \A t \in Turns : LaneOnce(lane[t], o) BY <2>3, IdleOnce
  <2>6. OnceWith(o) BY <2>3, <2>4, <2>5 DEF OnceWith, AgreesWith
  <2>. QED BY <2>2, <2>6 DEF OverridesInv
<1>2. MemoryTypes /\ OverridesInv => OverrideOnce
  <2>. SUFFICES ASSUME MemoryTypes, OverridesInv PROVE OverrideOnce OBVIOUS
  <2>1. PICK o \in [Nat -> Overrides \cup {"friction"}] : OnceWith(o) BY DEF OverridesInv
  <2>2. \A i \in DOMAIN written : written[i].origin = o[i] /\ i \in LiveIds
    BY <2>1 DEF OnceWith, AgreesWith, LiveIds
  <2>3. \A f \in Overrides \ overrides : \E i \in DOMAIN written : o[i] = f
    BY <2>1 DEF OnceWith
  <2>4. \A f \in Overrides \ twice :
          \A i, j \in DOMAIN written : o[i] = f /\ o[j] = f => i = j
    BY <2>1, <2>2 DEF OnceWith
  <2>. QED BY <2>2, <2>3, <2>4 DEF OverrideOnce
<1>3. MemoryInit => MemoryTypes
  BY MemoryTypesStart
<1>. QED BY <1>1, <1>2, <1>3, OverridesStep, MemoryTypesStep, MemoryInvariant, PTL
         DEF MemorySpec

=============================================================================
