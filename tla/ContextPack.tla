------------------------------ MODULE ContextPack ------------------------------
(***************************************************************************)
(* The context pack of one work item: a JSON file on disk, and the copies  *)
(* {ref, hash, files} on the sessions of the agents.  initialize_work      *)
(* creates the pack, escalate grows it, a new agent takes a sibling's      *)
(* copy, and submit_execution_plan compares the plan's pack hash with the  *)
(* session's.  The file is per work item, the sessions are per run: agents *)
(* of two runs of one work share the file and not their sessions.          *)
(*                                                                         *)
(* A hash is the text it was computed of: of a payload, whose other fields *)
(* are the creation it comes from, or of the sorted file list alone, which *)
(* is what escalate hashes when it does not touch the file.  A session is  *)
(* in the Map from the end of its first turn on, and an agent's first turn *)
(* is over before it sends another.  A spent session that escalates before *)
(* it ever had a pack is not modelled.                                     *)
(***************************************************************************)
EXTENDS Integers, FiniteSets, SequencesExt

CONSTANTS
  PackAgents, \* agents of the work item
  RunOf,      \* RunOf[a]: the run an agent belongs to
  Blockable,  \* the agents whose budget may run out: they may initialize again
  PackTurns,  \* turns that may be in flight
  PackFiles,  \* files the index may find
  FirstFiles, \* bound: the scopes that initialize_work may grow
  MaxPacks,       \* bound on the packs created
  MaxEscalations  \* bound on the escalations

\* A grown scope is collected in a Set (initializeWorkHandler.ts).
ASSUME PackAssumption ==
  FirstFiles \subseteq Seq(PackFiles) /\ \A files \in FirstFiles : IsInjective(files)

NoPack == [files |-> <<>>, hash |-> <<"none">>]

PayloadHash(creation, files) == <<"payload", creation, files>>

ScopeHash(files) == <<"scope", files>>

VARIABLES
  disk,      \* context-pack.json: its state, creation and file list
  pack,      \* pack[a]: the session's copy
  known,     \* the agents whose session is in the Map
  packTurn,  \* the turn in each slot
  packs,     \* number of packs created
  escalations,  \* number of escalations
  estranged, \* history: agents whose copy is no longer of the pack on disk
  apart      \* history: agents whose copy may differ from their siblings'

packVars == <<disk, pack, known, packTurn, packs, escalations, estranged, apart>>

NoTurn == [phase |-> "idle"]

FilesOf(seq) == ToSet(seq)

PackInit ==
  /\ disk = [state |-> "missing", creation |-> 0, files |-> <<>>]
  /\ pack = [a \in PackAgents |-> NoPack]
  /\ known = {}
  /\ packTurn = [t \in PackTurns |-> NoTurn]
  /\ packs = 0
  /\ escalations = 0
  /\ estranged = {}
  /\ apart = {}

PackTypeOK ==
  /\ disk.state \in {"missing", "text", "blank"}
  /\ FilesOf(disk.files) \subseteq PackFiles
  /\ disk.creation \in 0 .. packs
  /\ \A a \in PackAgents :
       /\ FilesOf(pack[a].files) \subseteq PackFiles
       /\ a \notin estranged => IsInjective(pack[a].files)
  /\ known \subseteq PackAgents
  /\ estranged \subseteq PackAgents /\ apart \subseteq PackAgents

Siblings(a) == {b \in known \ {a} : RunOf[b] = RunOf[a]}

Initialized(a) == pack[a] # NoPack

\* The agents of a run whose sessions have a copy of a pack.
Holders(a) == {b \in PackAgents : RunOf[b] = RunOf[a] /\ Initialized(b)}

InFlight(a) == \E t \in PackTurns : packTurn[t] # NoTurn /\ packTurn[t].agent = a

Turn(phase, verb, a) ==
  [phase |-> phase, verb |-> verb, agent |-> a, creation |-> 0,
   previous |-> pack[a].files, found |-> <<>>, base |-> <<>>, merged |-> <<>>,
   added |-> <<>>]

-----------------------------------------------------------------------------
(* initialize_work.                                                        *)

\* A session of its own, or a spent one: the pack is created anew, and the
\* scope grows from the index, not from what the session had.
HandleInitialize(t, a) ==
  /\ packTurn[t] = NoTurn
  /\ packs < MaxPacks
  /\ Initialized(a) => a \in Blockable
  /\ a \in known \/ (Siblings(a) = {} /\ ~InFlight(a))
  /\ packs' = packs + 1
  /\ \E files \in FirstFiles :
       packTurn' = [packTurn EXCEPT ![t] =
         [Turn("creating", "initialize_work", a) EXCEPT !.creation = packs + 1,
                                                        !.found = files]]
  /\ UNCHANGED <<disk, pack, known, estranged, apart, escalations>>

\* Every write empties the file first; a read in between fails.
TruncatePack(t) ==
  /\ packTurn[t].phase \in {"creating", "enriching"}
  /\ disk' = [disk EXCEPT !.state = "blank"]
  /\ packTurn' = [packTurn EXCEPT
       ![t].phase = IF @ = "creating" THEN "writing" ELSE "merging"]
  /\ UNCHANGED <<pack, known, packs, estranged, apart, escalations>>

\* The new pack lands on disk, and on the session of its agent.
CreateContextPack(t) ==
  LET a == packTurn[t].agent  files == packTurn[t].found  c == packTurn[t].creation
  IN
  /\ packTurn[t].phase = "writing"
  /\ disk' = [state |-> "text", creation |-> c, files |-> files]
  /\ pack' = [pack EXCEPT ![a] = [files |-> files, hash |-> PayloadHash(c, files)]]
  /\ estranged' = {b \in PackAgents \ {a} : Initialized(b)}
  /\ apart' = (apart \cup Holders(a)) \ {a}
  /\ packTurn' = [packTurn EXCEPT ![t].phase = "ending"]
  /\ UNCHANGED <<known, packs, escalations>>

-----------------------------------------------------------------------------
(* escalate.                                                               *)

\* The files found for a request, each once, in the order they were found.
Findings == {s \in SeqOf(PackFiles, 2) : IsInjective(s)}

\* What a list of files adds to another, in its own order.
Missing(found, files) ==
  LET keep[i \in 0 .. Len(found)] ==
        IF i = 0 THEN <<>>
        ELSE IF found[i] \in FilesOf(files) THEN keep[i - 1]
        ELSE Append(keep[i - 1], found[i])
  IN keep[Len(found)]

\* Nothing was found, or there is no pack: the delta is computed in memory,
\* and the hash is not that of the pack.
InMemory(a, found) ==
  LET added == Missing(found, pack[a].files)
      merged == pack[a].files \o added
  IN [files |-> merged, hash |-> ScopeHash(FilesOf(merged))]

\* The session that a turn works with: the agent's own, or its sibling's copy.
Works(t, a) ==
  \/ a \in known /\ packTurn[t] = NoTurn
  \/ packTurn[t] # NoTurn /\ packTurn[t].agent = a /\ packTurn[t].phase = "joined"

HandleEscalateInMemory(t, a) ==
  /\ Works(t, a) /\ Initialized(a)
  /\ pack' = [pack EXCEPT ![a] = InMemory(a, <<>>)]
  /\ packTurn' = [packTurn EXCEPT ![t] = Turn("ending", "escalate", a)]
  /\ escalations < MaxEscalations
  /\ escalations' = escalations + 1
  /\ UNCHANGED <<disk, known, packs, estranged, apart>>

\* What the session has is read before the pack on disk is.
HandleEscalatePack(t, a) ==
  /\ Works(t, a) /\ Initialized(a)
  /\ \E found \in Findings \ {<<>>} :
       packTurn' = [packTurn EXCEPT ![t] =
         [Turn("reading", "escalate", a) EXCEPT !.found = found]]
  /\ escalations < MaxEscalations
  /\ escalations' = escalations + 1
  /\ UNCHANGED <<disk, pack, known, packs, estranged, apart>>

\* Mutant: the file list is written without what it had.
MergedAnew(files, found) == found

Merged(files, found) == files \o Missing(found, files)

\* The pack on disk, or a fresh start if it cannot be read, with what it lacks.
ReadPack(t) ==
  LET files == IF disk.state = "text" THEN disk.files ELSE <<>> IN
  /\ packTurn[t].phase = "reading"
  /\ packTurn' = [packTurn EXCEPT ![t].phase = "enriching",
                                  ![t].creation =
                                    IF disk.state = "text" THEN disk.creation ELSE 0,
                                  ![t].base = files,
                                  ![t].merged = Merged(files, packTurn[t].found),
                                  ![t].added = Missing(packTurn[t].found, files)]
  /\ UNCHANGED <<disk, pack, known, packs, estranged, apart, escalations>>

\* Mutant: the session takes what was found, whatever the disk had.
GrownCopyOfFound(t) ==
  [files |-> packTurn[t].added,
   hash |-> PayloadHash(packTurn[t].creation, packTurn[t].merged)]

\* The session's copy: what it had before, and what the disk did not have.
GrownCopy(t) ==
  [files |-> packTurn[t].previous \o packTurn[t].added,
   hash |-> PayloadHash(packTurn[t].creation, packTurn[t].merged)]

\* The pack on disk was written since it was read, or could not be read.
Overwrites(t) ==
  \/ packTurn[t].creation # disk.creation
  \/ packTurn[t].base # disk.files

\* Another turn wrote the session's copy since this turn read it.
Stale(t) == packTurn[t].previous # pack[packTurn[t].agent].files

\* What it takes from the session may have been handed to a sibling already.
ApartIfStale(t) ==
  apart' = IF Stale(t) THEN apart \cup Holders(packTurn[t].agent) ELSE apart

EnrichContextPack(t) ==
  /\ packTurn[t].phase = "merging"
  /\ disk' = [state |-> "text", creation |-> packTurn[t].creation,
              files |-> packTurn[t].merged]
  /\ pack' = [pack EXCEPT ![packTurn[t].agent] = GrownCopy(t)]
  /\ estranged' = estranged \cup
       (IF Overwrites(t) THEN {b \in PackAgents : Initialized(b)}
        ELSE IF Stale(t) THEN {packTurn[t].agent} ELSE {})
  /\ ApartIfStale(t)
  /\ packTurn' = [packTurn EXCEPT ![t].phase = "ending"]
  /\ UNCHANGED <<known, packs, escalations>>

\* The file cannot be read or written: the session grows in memory alone.
EnrichFails(t) ==
  LET a == packTurn[t].agent
      added == Missing(packTurn[t].found, packTurn[t].previous)
      merged == packTurn[t].previous \o added
  IN
  /\ packTurn[t].phase \in {"enriching", "merging"}
  /\ pack' = [pack EXCEPT ![a] = [files |-> merged, hash |-> ScopeHash(FilesOf(merged))]]
  /\ estranged' = estranged \cup {a}
  /\ ApartIfStale(t)
  /\ packTurn' = [packTurn EXCEPT ![t].phase = "ending"]
  /\ UNCHANGED <<disk, known, packs, escalations>>

-----------------------------------------------------------------------------
(* The end of a turn, and what siblings see.                               *)

\* Mutant: the sibling's own files are dropped.
SiblingCopyReplaced(a, b) == pack[a]

\* A sibling keeps its files and gains those it lacks, with the source's hash;
\* if it lacks none, it keeps its hash too.
SiblingCopy(a, b) ==
  LET new == Missing(pack[a].files, pack[b].files) IN
  IF new = <<>> THEN pack[b]
  ELSE [files |-> pack[b].files \o new, hash |-> pack[a].hash]

\* The first turn of an agent whose run has a session: it takes its copy.
JoinWork(t, a) ==
  /\ packTurn[t] = NoTurn
  /\ a \notin known /\ ~InFlight(a)
  /\ \E b \in Siblings(a) :
       /\ pack' = [pack EXCEPT ![a] = pack[b]]
       /\ estranged' = IF b \in estranged THEN estranged \cup {a} ELSE estranged
       /\ apart' = IF b \in apart THEN apart \cup {a} ELSE apart
  /\ packTurn' = [packTurn EXCEPT ![t] = Turn("joined", "other", a)]
  /\ UNCHANGED <<disk, known, packs, escalations>>

\* Escalation hands its pack to the siblings in the Map; initialize_work does
\* not.  An agent in its first turn is not in the Map yet and misses it.
PackTurnEnds(t) ==
  LET a == packTurn[t].agent
      missing == {b \in PackAgents \ known : RunOf[b] = RunOf[a] /\ b # a /\ InFlight(b)}
  IN
  /\ packTurn[t].phase \in {"ending", "joined"}
  /\ IF packTurn[t].verb = "escalate"
     THEN /\ pack' = [b \in PackAgents |->
                        IF b \in Siblings(a) THEN SiblingCopy(a, b) ELSE pack[b]]
          /\ estranged' = estranged \cup
               (IF a \in estranged THEN {b \in Siblings(a) : pack'[b] # pack[b]} ELSE {})
          /\ apart' = apart \cup missing
     ELSE UNCHANGED <<pack, estranged, apart>>
  /\ known' = known \cup {a}
  /\ packTurn' = [packTurn EXCEPT ![t] = NoTurn]
  /\ UNCHANGED <<disk, packs, escalations>>

\* A new life of the process: the sessions are gone, the pack stays.
PackRestart ==
  /\ known # {}
  /\ pack' = [a \in PackAgents |-> NoPack]
  /\ known' = {}
  /\ estranged' = {}
  /\ apart' = {}
  /\ packTurn' = [t \in PackTurns |-> NoTurn]
  /\ UNCHANGED <<disk, packs, escalations>>

PackNext ==
  \/ PackRestart
  \/ \E a \in PackAgents :
       \E t \in PackTurns :
            \/ JoinWork(t, a)
            \/ HandleInitialize(t, a)
            \/ HandleEscalateInMemory(t, a)
            \/ HandleEscalatePack(t, a)
  \/ \E t \in PackTurns :
       \/ TruncatePack(t)
       \/ CreateContextPack(t)
       \/ ReadPack(t)
       \/ EnrichContextPack(t)
       \/ EnrichFails(t)
       \/ PackTurnEnds(t)

PackSpec == PackInit /\ [][PackNext]_packVars

-----------------------------------------------------------------------------
(* What the copies promise.                                                *)

\* No agent is shown a file that the pack on disk lacks, unless it is estranged:
\* another agent created the pack anew, a turn wrote the disk or the session
\* from an older state of it, or the disk could not be written.  Growth on disk, on
\* the session and on its siblings goes together (enrichContextPack, escalate,
\* propagatePackToSiblings, ensureSession).
CopiesWithinDisk ==
  disk.state = "text" =>
    \A a \in known \ estranged : FilesOf(pack[a].files) \subseteq FilesOf(disk.files)

\* The agents of a run have the same files whenever no turn is in flight: what
\* one agent found, all see (propagatePackToSiblings).  Apart are those that had
\* a copy when another agent of the run initialized again, when a session was
\* written from an older state of it, or when their own first turn was in flight
\* while an escalation was handed on; and who joined with the copy of one of these.
SiblingsAgree ==
  (\A t \in PackTurns : packTurn[t] = NoTurn) =>
    \A a, b \in known \ apart :
      (RunOf[a] = RunOf[b] /\ Initialized(a) /\ Initialized(b)) =>
        FilesOf(pack[a].files) = FilesOf(pack[b].files)

\* No copy loses a file but by its own agent's initialize_work, or by a write
\* from an older state of it.
CopiesGrow ==
  \A a \in known \cap known' :
    \/ FilesOf(pack[a].files) \subseteq FilesOf(pack'[a].files)
    \/ \E t \in PackTurns : packTurn[t].phase = "writing" /\ packTurn[t].agent = a
    \/ \E t \in PackTurns :
         /\ packTurn[t].phase \in {"enriching", "merging"}
         /\ packTurn[t].agent = a /\ Stale(t)

\* The pack on disk loses files only by a new creation, or by such a write.
DiskGrows ==
  \/ FilesOf(disk.files) \subseteq FilesOf(disk'.files)
  \/ \E t \in PackTurns : packTurn[t].phase = "writing"
  \/ \E t \in PackTurns : packTurn[t].phase = "merging" /\ Overwrites(t)

\* "Monotonic pack growth" (escalateHandler.ts): what the copies and the disk keep.
PackNeverShrinks == [][CopiesGrow /\ DiskGrows]_packVars
=============================================================================
