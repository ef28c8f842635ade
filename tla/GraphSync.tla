------------------------------- MODULE GraphSync -------------------------------
(***************************************************************************)
(* The graph commands of cli.ts: sync drops the graph, applies the Cypher  *)
(* scripts and upserts the seed rows one by one; export writes what        *)
(* changed since a watermark kept in a file.  Each is a process of its     *)
(* own, and the connection may fail at any step.  Nothing else in the      *)
(* repository writes to the graph.                                         *)
(*                                                                         *)
(* A seed row is a node or a relationship, with the key that conflicts are *)
(* found by, its version (0: no usable metadata), the rank of its JSON     *)
(* text, and the time it says it was updated; or a direct query, or a line *)
(* that is not a row, or a policy row that lacks a field.  Direct queries  *)
(* run before the keyed rows and may write anything; here they leave the   *)
(* graph alone, as no seed file of the repository has one.  One sync runs  *)
(* at a time: only exports overlap it.  Time advances with each process.   *)
(* MERGE is external: it is Neo4j's.                                       *)
(***************************************************************************)
EXTENDS Integers, FiniteSets, SequencesExt

CONSTANTS
  Seeds,        \* the seeds there may be: rows in the order of the sorted files
  Constrained,  \* labels with a uniqueness constraint on the id
  MaxProcesses  \* bound on the processes that run

NeverSynced == 0

IsKeyed(row) == row.kind \in {"node", "rel"}

\* The entities a row speaks of, with the labels it gives them.
Mentions(row) ==
  IF row.kind = "node" THEN {[id |-> row.id, labels |-> row.labels]}
  ELSE {[id |-> row.from, labels |-> {row.fromLabel}],
        [id |-> row.to, labels |-> {row.toLabel}]}

\* A key is made of the id and the labels of a node, or of the ids of the ends
\* and more (seedRowKey).  The seed files give an entity the same labels
\* wherever they speak of it, or at least one that a constraint is on.  A row
\* without labels is an Entity (sanitizeLabels).
ASSUME RowsAssumption ==
  \A seed \in Seeds :
    /\ seed \in Seq(ToSet(seed))
    /\ \A r \in ToSet(seed) : r.kind = "node" => r.labels # {} /\ r.updated \in Nat
    /\ \A r, s \in {row \in ToSet(seed) : IsKeyed(row)} :
         /\ r.key = s.key =>
              /\ r.kind = s.kind
              /\ r.kind = "node" => r.id = s.id /\ r.labels = s.labels
              /\ r.kind = "rel" => r.from = s.from /\ r.to = s.to
         /\ \A m \in Mentions(r), n \in Mentions(s) :
              m.id = n.id =>
                m.labels = n.labels \/ m.labels \cap n.labels \cap Constrained # {}

VARIABLES
  graph,       \* nodes: id, labels, when updated; and relationships
  watermark,   \* _watermarks.json, NeverSynced when it is empty
  syncing,     \* the sync process: its phase, seed and the rows to apply
  exporting,   \* the export process: its phase and what it read
  exported,    \* history: ids exported since the graph was dropped
  now,         \* number of processes started
  outcome      \* history: how the last sync ended, and whether an export overlapped

graphVars == <<graph, watermark, syncing, exporting, exported, now, outcome>>

NotSyncing == [phase |-> "idle"]

NotExporting == [phase |-> "idle"]

GraphInit ==
  /\ graph = [nodes |-> {}, rels |-> {}]
  /\ watermark = NeverSynced
  /\ syncing = NotSyncing
  /\ exporting = NotExporting
  /\ exported = {}
  /\ now = 0
  /\ outcome = [ended |-> "none", overlapped |-> FALSE]

GraphTypeOK ==
  /\ \A n \in graph.nodes : n.labels # {} /\ n.updated \in Nat
  /\ \A r \in graph.rels : \E n \in graph.nodes : n.id = r.from
  /\ watermark \in 0 .. now
  /\ outcome.ended \in {"none", "ok", "failed"}

-----------------------------------------------------------------------------
(* The seed: which rows are applied.                                       *)

\* Two rows of one key: versions must grow along the files, and rows without
\* metadata are decided by their text.
Conflicts(existing, candidate) ==
  /\ existing.version # 0 /\ candidate.version # 0
  /\ existing # candidate
  /\ candidate.version <= existing.version

ResolveConflict(existing, candidate) ==
  IF existing.version # 0 /\ candidate.version # 0 THEN candidate
  ELSE IF candidate.rank >= existing.rank THEN candidate ELSE existing

\* keyedRows with one more row: each key stays at the place it first had.
WithRow(rows, row) ==
  IF ~IsKeyed(row) THEN rows
  ELSE IF \A i \in DOMAIN rows : rows[i].key # row.key THEN Append(rows, row)
  ELSE [i \in DOMAIN rows |->
          IF rows[i].key = row.key THEN ResolveConflict(rows[i], row) ELSE rows[i]]

\* keyedRows after each number of rows of a seed.
Keyed(seed) ==
  LET keyed[i \in 0 .. Len(seed)] ==
        IF i = 0 THEN <<>> ELSE WithRow(keyed[i - 1], seed[i])
  IN keyed

KeyedRows(seed) == Keyed(seed)[Len(seed)]

\* A seed is refused for a policy row that lacks fields, or a row that changes
\* what its key has and does not raise the version.
Refused(seed) ==
  \E i \in DOMAIN seed :
    \/ seed[i].kind = "incomplete_policy"
    \/ /\ IsKeyed(seed[i])
       /\ \E j \in DOMAIN Keyed(seed)[i - 1] :
            LET existing == Keyed(seed)[i - 1][j]
            IN existing.key = seed[i].key /\ Conflicts(existing, seed[i])

-----------------------------------------------------------------------------
(* MERGE.                                                                  *)

Matching(id, labels) == {n \in graph.nodes : n.id = id /\ labels \subseteq n.labels}

\* A node that a constraint forbids beside a new one with these labels.
Clashing(id, labels) ==
  {n \in graph.nodes : n.id = id /\ n.labels \cap labels \cap Constrained # {}}

\* A node row matches on all its labels, and makes a node if none matches.
MergeNode(row, time) ==
  [graph EXCEPT !.nodes =
     (@ \ Matching(row.id, row.labels))
       \cup {[id |-> row.id, labels |-> n.labels, updated |-> time] :
               n \in Matching(row.id, row.labels)}
       \cup IF Matching(row.id, row.labels) # {} THEN {}
            ELSE {[id |-> row.id, labels |-> row.labels, updated |-> time]}]

\* A relationship row matches its ends on one label each, and makes them too.
MergeRel(row) ==
  LET End(id, label) ==
        IF Matching(id, {label}) # {} THEN {}
        ELSE {[id |-> id, labels |-> {label}, updated |-> NeverSynced]}
  IN [nodes |-> graph.nodes \cup End(row.from, row.fromLabel)
                            \cup End(row.to, row.toLabel),
      rels  |-> graph.rels \cup {[from |-> row.from, to |-> row.to]}]

\* The update time of a row, if it has none the time of the sync.
Updated(row, time) == IF row.updated = NeverSynced THEN time ELSE row.updated

Upserted(row, time) ==
  IF row.kind = "node" THEN MergeNode(row, Updated(row, time)) ELSE MergeRel(row)

Violates(row) ==
  /\ row.kind = "node"
  /\ Matching(row.id, row.labels) = {}
  /\ Clashing(row.id, row.labels) # {}

-----------------------------------------------------------------------------
(* sync.                                                                   *)

\* The first of the candidate URIs that answers is used; if none does, the
\* process ends before it touches anything.
SyncConnects ==
  /\ syncing = NotSyncing
  /\ now < MaxProcesses
  /\ now' = now + 1
  /\ \E seed \in Seeds :
       syncing' = [phase |-> "connected", seed |-> seed, rows |-> <<>>, time |-> now + 1]
  /\ UNCHANGED <<graph, watermark, exporting, exported, outcome>>

\* Mutant: the graph is not dropped first.
DropNothing ==
  /\ syncing.phase = "connected"
  /\ syncing' = [syncing EXCEPT !.phase = "dropped"]
  /\ outcome' = [ended |-> "none", overlapped |-> exporting # NotExporting]
  /\ UNCHANGED <<graph, watermark, exporting, exported, now>>

DropAll ==
  /\ syncing.phase = "connected"
  /\ graph' = [nodes |-> {}, rels |-> {}]
  /\ exported' = {}
  /\ syncing' = [syncing EXCEPT !.phase = "dropped"]
  /\ outcome' = [ended |-> "none", overlapped |-> exporting # NotExporting]
  /\ UNCHANGED <<watermark, exporting, now>>

\* The scripts ran; the seed files are read and merged.  Only now is a seed
\* found to be refused, with the graph already empty.
ReadSeed ==
  /\ syncing.phase = "dropped"
  /\ ~Refused(syncing.seed)
  /\ syncing' = [syncing EXCEPT !.phase = "applying", !.rows = KeyedRows(syncing.seed)]
  /\ UNCHANGED <<graph, watermark, exporting, exported, now, outcome>>

UpsertRow ==
  /\ syncing.phase = "applying"
  /\ syncing.rows # <<>>
  /\ ~Violates(Head(syncing.rows))
  /\ graph' = Upserted(Head(syncing.rows), syncing.time)
  /\ syncing' = [syncing EXCEPT !.rows = Tail(@)]
  /\ UNCHANGED <<watermark, exporting, exported, now, outcome>>

\* Mutant: the watermark stays.
SyncEndsOnly ==
  /\ syncing.phase = "applying"
  /\ syncing.rows = <<>>
  /\ syncing' = NotSyncing
  /\ outcome' = [outcome EXCEPT !.ended = "ok"]
  /\ UNCHANGED <<graph, watermark, exporting, exported, now>>

\* The next export starts from the whole graph.
SyncEnds ==
  /\ syncing.phase = "applying"
  /\ syncing.rows = <<>>
  /\ watermark' = NeverSynced
  /\ syncing' = NotSyncing
  /\ outcome' = [outcome EXCEPT !.ended = "ok"]
  /\ UNCHANGED <<graph, exporting, exported, now>>

\* The connection is lost, the seed is refused or a constraint is violated.
\* Nothing is undone.
SyncFails ==
  /\ syncing # NotSyncing
  /\ syncing' = NotSyncing
  /\ outcome' = [outcome EXCEPT !.ended =
       IF syncing.phase = "connected" THEN @ ELSE "failed"]
  /\ UNCHANGED <<graph, watermark, exporting, exported, now>>

-----------------------------------------------------------------------------
(* export.                                                                 *)

\* The watermark and the time are taken before anything is read.
ExportStarts ==
  /\ exporting = NotExporting
  /\ now < MaxProcesses
  /\ now' = now + 1
  /\ exporting' = [phase |-> "querying", since |-> watermark, time |-> now + 1,
                   ids |-> {}]
  /\ outcome' = [outcome EXCEPT !.overlapped = @ \/ syncing # NotSyncing]
  /\ UNCHANGED <<graph, watermark, syncing, exported>>

ReadNodes ==
  /\ exporting.phase = "querying"
  /\ exporting' = [exporting EXCEPT !.phase = "writing",
       !.ids = {n.id : n \in {m \in graph.nodes :
                  exporting.since = NeverSynced \/ m.updated > exporting.since}}]
  /\ UNCHANGED <<graph, watermark, syncing, exported, now, outcome>>

\* The bucket files are written, then the watermark.
WriteExport ==
  /\ exporting.phase = "writing"
  /\ exported' = exported \cup exporting.ids
  /\ exporting' = [exporting EXCEPT !.phase = "marking"]
  /\ UNCHANGED <<graph, watermark, syncing, now, outcome>>

ExportEnds ==
  /\ exporting.phase = "marking"
  /\ watermark' = exporting.time
  /\ exporting' = NotExporting
  /\ UNCHANGED <<graph, syncing, exported, now, outcome>>

ExportFails ==
  /\ exporting # NotExporting
  /\ exporting' = NotExporting
  /\ UNCHANGED <<graph, watermark, syncing, exported, now, outcome>>

GraphNext ==
  \/ SyncConnects \/ DropAll \/ ReadSeed \/ UpsertRow \/ SyncEnds \/ SyncFails
  \/ ExportStarts \/ ReadNodes \/ WriteExport \/ ExportEnds \/ ExportFails

GraphSpec == GraphInit /\ [][GraphNext]_graphVars

-----------------------------------------------------------------------------
(* What the graph promises.                                                *)

\* "Sync flow is reproducible from .ai/graph/seed": when the last sync ended
\* well, the graph has each entity and relationship of one seed once and nothing
\* else, whatever failed or was exported before; the ends of relationships and
\* the node rows for them meet in one node that has the labels of them all to
\* be found by, in whatever order they come (sync, upsertNode,
\* upsertRelationship).
SyncedIsSeed ==
  (outcome.ended = "ok" /\ syncing = NotSyncing) =>
    \E seed \in Seeds :
      LET rows == {row \in ToSet(seed) : IsKeyed(row)}
          mentioned == UNION {Mentions(row) : row \in rows}
      IN /\ ~Refused(seed)
         /\ {n.id : n \in graph.nodes} = {m.id : m \in mentioned}
         /\ \A m, n \in graph.nodes : m.id = n.id => m = n
         /\ \A m \in mentioned : \E n \in graph.nodes :
              n.id = m.id /\ m.labels \subseteq n.labels
         /\ graph.rels = {[from |-> row.from, to |-> row.to] :
                            row \in {r \in rows : r.kind = "rel"}}

\* A completed sync loses no delta: every node was exported since, or the next
\* export will have it, provided no export ran into the sync (the watermark
\* and the update times that exportSnapshot compares).
NothingLeftOut ==
  (outcome = [ended |-> "ok", overlapped |-> FALSE] /\ syncing = NotSyncing) =>
    \A n \in graph.nodes :
      \/ n.id \in exported
      \/ watermark = NeverSynced \/ n.updated > watermark
      \/ exporting # NotExporting
=============================================================================
