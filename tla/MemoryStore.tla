----------------------------- MODULE MemoryStore -----------------------------
(***************************************************************************)
(* The memory records of the gateway: one JSON file, records.json, that    *)
(* every operation reads as a whole and writes back as a whole, without a  *)
(* lock.  Turns create a record for a repeated rejection, ingest the       *)
(* override files that people drop, and run the promotion lane; turns of   *)
(* POST /turn do so at the same time, and the process may die in between.  *)
(*                                                                         *)
(* A record is its enforcement type, state, two times and origin.  Time is *)
(* counted in units of the shortest window.  Friction records are strategy *)
(* signals, as their only caller makes them; nothing in the program calls  *)
(* transition, scaffoldFewShot or exportAsGraphSeed.                       *)
(***************************************************************************)
EXTENDS Integers

CONSTANTS
  Turns,            \* turns that may be in flight
  Overrides,        \* files dropped into the overrides folder
  Enforcement,      \* Enforcement[f]: the type an override declares
  Malformed,        \* the overrides that are not JSON
  Contest, Expiry,  \* contestWindowHours and provisionalExpiryHours
  MaxTime,          \* bound on the clock
  MaxRecords        \* bound on the records created

ASSUME MemoryAssumption ==
  /\ Contest \in Nat /\ Expiry \in Nat /\ MaxTime \in Nat /\ MaxRecords \in Nat
  /\ Malformed \subseteq Overrides /\ "friction" \notin Overrides

\* The types there are, and whatever else an override declares.
Enforcements ==
  {"few_shot", "plan_rule", "strategy_signal", "informational"}
    \cup {Enforcement[f] : f \in Overrides \ Malformed}

AutoPromotable == {"informational", "strategy_signal"}

HumanApprovalRequired == {"plan_rule"}

MemoryStates == {"pending", "provisional", "approved", "rejected", "expired"}

Ids == 1 .. MaxRecords

VARIABLES
  store,      \* records.json: its state and, when it is a text, its records
  overrides,  \* the override files not yet renamed to .processed
  lane,       \* the memory operation of each turn
  clock,
  created,    \* number of records created
  written,    \* history: each record as the operation that made or changed it wrote it
  exposed,    \* history: records that a write in flight does not know
  twice       \* history: overrides whose record may be made again

memoryVars ==
  <<store, overrides, lane, clock, created, written, exposed, twice>>

Records ==
  [enforcement : Enforcements, state : MemoryStates, createdAt : 0 .. MaxTime,
   updatedAt : 0 .. MaxTime, origin : Overrides \cup {"friction"}]

\* Functions from some of the ids to records.
Collections == UNION {[I -> Records] : I \in SUBSET Ids}

NoRecords == [i \in {} |-> i]

\* What an operation is about to write, and what of it is its own doing.
IdleLane ==
  [phase |-> "idle", todo |-> {}, now |-> 0, text |-> NoRecords, change |-> NoRecords]

MemoryInit ==
  /\ store = [state |-> "text", records |-> NoRecords]
  /\ overrides = Overrides
  /\ lane = [t \in Turns |-> IdleLane]
  /\ clock = 0
  /\ created = 0
  /\ written = NoRecords
  /\ exposed = {}
  /\ twice = {}

MemoryTypeOK ==
  /\ store.state \in {"text", "blank", "garbled"}
  /\ DOMAIN store.records \subseteq 1 .. created
  /\ \A i \in DOMAIN store.records : store.records[i] \in Records
  /\ overrides \subseteq Overrides
  /\ \A t \in Turns :
       /\ lane[t].phase \in {"idle", "scanning", "reading", "opening",
                             "truncated", "logging", "renaming"}
       /\ DOMAIN lane[t].change \subseteq 1 .. created
  /\ exposed \subseteq 1 .. created
  /\ twice \subseteq Overrides

-----------------------------------------------------------------------------
(* Reading and writing records.json.                                       *)

\* Whatever cannot be parsed is taken for no records.
ReadAll == IF store.state = "text" THEN store.records ELSE NoRecords

\* The records with some of them changed or added.
Changed(records, change) ==
  [i \in DOMAIN records \cup DOMAIN change |->
     IF i \in DOMAIN change THEN change[i] ELSE records[i]]

\* Mutant: only what changed is written.
TextOfChange(records, change) == change

\* The text that is written back: everything read, with the change in it.
TextWith(records, change) == Changed(records, change)

\* An operation that read while there was no text knows no record at all.
ReadRecords(t, change) ==
  /\ lane[t].phase = "reading"
  /\ lane' = [lane EXCEPT ![t].phase = "opening",
                          ![t].change = change,
                          ![t].text = TextWith(ReadAll, change)]
  /\ exposed' = IF store.state = "text" THEN exposed
                ELSE exposed \cup DOMAIN written
  /\ UNCHANGED <<store, overrides, clock, created, written, twice>>

\* writeFile empties the file before it writes.
TruncateRecords(t) ==
  /\ lane[t].phase = "opening"
  /\ lane' = [lane EXCEPT ![t].phase = "truncated"]
  /\ store' = [state |-> "blank", records |-> NoRecords]
  /\ UNCHANGED <<overrides, clock, created, written, exposed, twice>>

\* The records that an operation in flight knows otherwise than they are in text.
UnknownTo(t, text) ==
  IF lane[t].phase \in {"opening", "truncated"}
  THEN {i \in DOMAIN text :
          i \notin DOMAIN lane[t].text \/ lane[t].text[i] # text[i]}
  ELSE {}

\* The text lands in the file; over the text of another writer, which may be
\* longer, it may leave something that is not JSON.
WriteAll(t) ==
  LET text == lane[t].text IN
  /\ lane[t].phase = "truncated"
  /\ \/ store' = [state |-> "text", records |-> text]
     \/ /\ store.state # "blank"
        /\ store' = [state |-> "garbled", records |-> NoRecords]
  /\ written' = Changed(written, lane[t].change)
  /\ exposed' = exposed \cup UNION {UnknownTo(u, text) : u \in Turns \ {t}}
  /\ lane' = [lane EXCEPT ![t].phase = "logging"]
  /\ UNCHANGED <<overrides, clock, created, twice>>

-----------------------------------------------------------------------------
(* The operations.                                                         *)

NewRecord(enforcement, state, origin) ==
  [enforcement |-> enforcement, state |-> state,
   createdAt |-> clock, updatedAt |-> clock, origin |-> origin]

\* The id and the record are made before the file is read.
StartCreate(t, record, todo) ==
  /\ created < MaxRecords
  /\ created' = created + 1
  /\ lane' = [lane EXCEPT ![t] =
       [phase |-> "reading", todo |-> todo, now |-> clock, text |-> NoRecords,
        change |-> [i \in {created + 1} |-> record]]]
  /\ UNCHANGED <<store, overrides, clock, written, exposed>>

CreateFromFriction(t) ==
  /\ lane[t].phase = "idle"
  /\ StartCreate(t, NewRecord("strategy_signal", "pending", "friction"), {})
  /\ UNCHANGED twice

AddToRecords(t) ==
  /\ DOMAIN lane[t].change # {}
  /\ ReadRecords(t, lane[t].change)

\* The promotion lane starts: its time is taken before it reads.
RunAutoPromotion(t) ==
  /\ lane[t].phase = "idle"
  /\ lane' = [lane EXCEPT ![t] = [IdleLane EXCEPT !.phase = "reading", !.now = clock]]
  /\ UNCHANGED <<store, overrides, clock, created, written, exposed, twice>>

CanPromote(r, now) ==
  /\ r.state = "pending"
  /\ r.enforcement \in AutoPromotable \ HumanApprovalRequired
  /\ now - r.createdAt >= Contest

\* Mutant: the age of a provisional record is counted from its creation.
ExpiresByCreation(r, now) == r.state = "provisional" /\ now - r.createdAt >= Expiry

CanExpire(r, now) == r.state = "provisional" /\ now - r.updatedAt >= Expiry

\* What the lane changes: pending records to provisional, provisional ones to
\* expired, each at most one step in a run.
Promoted(records, now) ==
  LET due == {i \in DOMAIN records :
                CanPromote(records[i], now) \/ CanExpire(records[i], now)}
  IN [i \in due |->
        [records[i] EXCEPT !.updatedAt = now,
           !.state = IF @ = "pending" THEN "provisional" ELSE "expired"]]

PromoteRecords(t) ==
  /\ DOMAIN lane[t].change = {}
  /\ Promoted(ReadAll, lane[t].now) # NoRecords
  /\ ReadRecords(t, Promoted(ReadAll, lane[t].now))

NothingToPromote(t) ==
  /\ lane[t].phase = "reading"
  /\ DOMAIN lane[t].change = {}
  /\ Promoted(ReadAll, lane[t].now) = NoRecords
  /\ lane' = [lane EXCEPT ![t] = IdleLane]
  /\ UNCHANGED <<store, overrides, clock, created, written, exposed, twice>>

\* The overrides folder is listed, and its files are taken one by one.
IngestOverrideFiles(t) ==
  /\ lane[t].phase = "idle"
  /\ overrides # {}
  /\ lane' = [lane EXCEPT ![t] = [IdleLane EXCEPT !.phase = "scanning", !.todo = overrides]]
  /\ UNCHANGED <<store, overrides, clock, created, written, exposed, twice>>

\* The file that an override record was made from.
OverrideOf(t) == lane[t].change[CHOOSE i \in DOMAIN lane[t].change : TRUE].origin

\* The override that a turn has taken and not yet renamed, and those of them
\* whose record is in the file.
Held(t) == {lane[t].change[i].origin : i \in DOMAIN lane[t].change} \ {"friction"}

Recorded(t) == IF lane[t].phase \in {"logging", "renaming"} THEN Held(t) ELSE {}

\* Mutant: a file of the listing is taken without reading it again.
TakesListed(t, f) ==
  /\ lane[t].phase = "scanning"
  /\ f \in lane[t].todo
  /\ f \notin Malformed
  /\ StartCreate(t, NewRecord(Enforcement[f], "approved", f), lane[t].todo)
  /\ twice' = twice \cup ({f} \cap UNION {Held(u) : u \in Turns})

\* A file is read and made a record of, which another turn may be doing too.
TakeOverride(t, f) ==
  /\ lane[t].phase = "scanning"
  /\ f \in lane[t].todo \cap overrides
  /\ f \notin Malformed
  /\ StartCreate(t, NewRecord(Enforcement[f], "approved", f), lane[t].todo)
  /\ twice' = twice \cup ({f} \cap UNION {Held(u) : u \in Turns})

\* A file that is gone, or is not JSON, is passed over.
SkipOverride(t, f) ==
  /\ lane[t].phase = "scanning"
  /\ f \in lane[t].todo
  /\ f \notin overrides \/ f \in Malformed
  /\ lane' = [lane EXCEPT ![t].todo = @ \ {f}]
  /\ UNCHANGED <<store, overrides, clock, created, written, exposed, twice>>

ScanEnds(t) ==
  /\ lane[t].phase = "scanning"
  /\ lane[t].todo = {}
  /\ lane' = [lane EXCEPT ![t] = IdleLane]
  /\ UNCHANGED <<store, overrides, clock, created, written, exposed, twice>>

\* The ledger, the changelog or the event of a promotion is appended; an
\* override then has its file renamed.
LogOperation(t) ==
  /\ lane[t].phase = "logging"
  /\ lane' = [lane EXCEPT ![t] =
       IF @.todo = {} THEN IdleLane ELSE [@ EXCEPT !.phase = "renaming", !.text = NoRecords]]
  /\ UNCHANGED <<store, overrides, clock, created, written, exposed, twice>>

\* If another turn renamed the file, the error is swallowed.
RenameOverride(t) ==
  /\ lane[t].phase = "renaming"
  /\ overrides' = overrides \ {OverrideOf(t)}
  /\ lane' = [lane EXCEPT ![t] =
       [IdleLane EXCEPT !.phase = "scanning", !.todo = lane[t].todo \ {OverrideOf(t)}]]
  /\ UNCHANGED <<store, clock, created, written, exposed, twice>>

\* A write, an append or the renaming fails.  The error ends the operation; that
\* of an override is swallowed, its file stays and the next one is taken.
OperationFails(t) ==
  /\ lane[t].phase \in {"opening", "truncated", "logging", "renaming"}
  /\ lane' = [lane EXCEPT ![t] =
       IF @.todo = {} THEN IdleLane
       ELSE [IdleLane EXCEPT !.phase = "scanning", !.todo = lane[t].todo \ Held(t)]]
  /\ twice' = twice \cup Recorded(t)
  /\ UNCHANGED <<store, overrides, clock, created, written, exposed>>

\* The process dies: what was in flight is gone, and the files stay as they are.
MemoryCrash ==
  /\ \E t \in Turns : lane[t].phase # "idle"
  /\ lane' = [t \in Turns |-> IdleLane]
  /\ twice' = twice \cup UNION {Recorded(t) : t \in Turns}
  /\ UNCHANGED <<store, overrides, clock, created, written, exposed>>

ClockTicks ==
  /\ clock < MaxTime
  /\ clock' = clock + 1
  /\ UNCHANGED <<store, overrides, lane, created, written, exposed, twice>>

Operate(t) ==
  \/ CreateFromFriction(t)
  \/ AddToRecords(t)
  \/ RunAutoPromotion(t)
  \/ PromoteRecords(t)
  \/ NothingToPromote(t)
  \/ IngestOverrideFiles(t)
  \/ \E f \in Overrides : TakeOverride(t, f) \/ SkipOverride(t, f)
  \/ ScanEnds(t)
  \/ TruncateRecords(t)
  \/ WriteAll(t)
  \/ LogOperation(t)
  \/ RenameOverride(t)
  \/ OperationFails(t)

MemoryNext == MemoryCrash \/ ClockTicks \/ \E t \in Turns : Operate(t)

MemorySpec == MemoryInit /\ [][MemoryNext]_memoryVars

-----------------------------------------------------------------------------
(* What may go wrong with the records.                                     *)

\* A record is in the file, exactly as it was last written, unless some write
\* was in flight that did not know it, or the file was read while it had no
\* text: overlapping turns and torn files are the only ways memory is lost or
\* goes back to an earlier state (readAll, writeAll and their callers).
RecordsAsWritten ==
  store.state = "text" =>
    \A i \in DOMAIN written \ exposed :
      i \in DOMAIN store.records /\ store.records[i] = written[i]

\* "Each file is processed once and renamed": an override whose file is gone
\* was made a record of, and only one, unless a turn took it while another one
\* held it, or it was recorded and not renamed because the process died or an
\* error was swallowed (ingestOverrideFiles reads, creates and renames with
\* awaits between, beside other turns that do the same).
OverrideOnce ==
  \A f \in Overrides :
    LET its == {i \in DOMAIN written : written[i].origin = f}
    IN /\ f \notin overrides => its # {}
       /\ f \notin twice => \A i, j \in its : i = j

\* However stale the text an operation writes back: a record is provisional
\* only a contest window after it was made, expires only a further expiry
\* window later, and what people must approve is never promoted by time.
PromotedOnTime ==
  \A i \in DOMAIN store.records :
    LET r == store.records[i] IN
    /\ r.state = "provisional" => r.updatedAt >= r.createdAt + Contest
    /\ r.state = "expired" => r.updatedAt >= r.createdAt + Contest + Expiry
    /\ r.state # "approved" =>
         r.origin = "friction" /\ r.enforcement \notin HumanApprovalRequired
=============================================================================
