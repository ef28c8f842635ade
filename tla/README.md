# Verification of the MCP controller gateway

This directory holds TLA+ models of the gateway under `src/.ai/mcp-controller/src`, TLC
configurations that check them and TLAPS proofs about them. Paths below are relative to
`src/.ai/mcp-controller/src` unless they start with `src/`.

The gateway gives coding agents one tool, `controller_turn`. A turn names a verb; the gateway
decides from the *run state* of the agent's session whether the verb is allowed, runs its handler
and answers with the new run state. An agent initializes a work item (the gateway builds a
*context pack*, the files the agent may see), submits a *plan graph*, performs the plan's nodes
(patches, sandboxed code runs, side effects), and signals completion, which the gateway grants
when the plan's nodes are done.

## 1. The system

| Component | State | Operations | Hard behaviour |
|---|---|---|---|
| Turn controller `domains/controller/turnController.ts` | `sessions` Map, one session object per run:work:agent | `handleTurn`, `dispatchVerb`, `ensureSession`, `propagatePackToSiblings` | every handler awaits I/O, and the run state it ends in was read before; agents inherit from siblings; budget clamp |
| Handlers `domains/controller/handlers` | fields of the session, artifacts on disk | initialize, submit plan, patch, code run, side effect, escalate, complete, reads, recipes | several writes with awaits between them; early returns; exceptions |
| Capability matrix, budget | none / `usedTokens` | `capabilitiesForState`, `consumeBudget` | which verbs a blocked or completed session still has |
| Transports `mcp/stdioServer.ts`, `domains/dashboard/httpServer.ts` | message buffer, drain chain, bootstrap promise / none | line or header framing, sequential drain; POST /turn | the stdio drain answers one message before the next; POST /turn does not wait |
| Collision guard, patch execution `domains/patch-exec` | reservations per run:work; files of the worktree | `assertAndReserve`, `applyStructuredPatch` | reservations outlive failures; read-modify-write of files |
| Sandboxed code `domains/code-run`, `infrastructure/vm` | a worker thread and a timer per run | `executeCodeRun`, `runInWorker` | message, error, exit and timeout race; some exits settle nothing |
| Context pack `domains/context-pack/contextPackService.ts` | pack file on disk, `{ref, hash, files}` on sessions | create, enrich | disk and sessions diverge; growth must be monotonic; hash gates plans |
| Plan validation `domains/plan-graph`, `domains/evidence-policy` | none | `validatePlanGraph`, enforcement rules | cycles, attachments, memory rules |
| Memory records `domains/memory` | `records.json` | create, transition, promote, ingest overrides | unlocked read-modify-write of one file, torn reads |
| Observability `domains/observability` | ring of 5000 events, JSONL file | append, digests | digests over a ring that forgets |
| Initialization `handlers/initializeWorkHandler.ts`, strategy, inbox | signature, strategy and artifacts of a session; inbox files | ingest, fetch, select strategy, apply overrides | each step decides on what an earlier one left; inbox files are consumed before the turn succeeds |
| Read verbs `handlers/readHandlers.ts`, `domains/worktree-scope` | none | range, file list, search | four spellings of one file, brought to two different forms |
| Connectors, HTTP kernel `domains/connectors`, `infrastructure/http` | artifact registry; cache, `lastRequestAt` | `fetchJson`, register | retry, throttle, cache expiry |
| Graph `domains/graph-ops`, `infrastructure/neo4j` | Neo4j, seed files, watermark | sync, export | partial failure of a multi-step sync; an export beside it |
| Proof chains `domains/proof-chains` | none | two walks through the graph | any query may fail; guesses from the index |
| Indexing, seed facts, anchors `domains/indexing`, `graph-ops/seedFactsFromIndex.ts` | in-memory index; six seed files | rebuild in three passes, search, write rows | files change between the passes; names resolved by search |
| Retrieval, parsers, word index | none | score, parse, search | pure, large |
| Evaluation, configuration, scripts | files | batch | none |

**How they interact.** A transport calls `handleTurn`; the controller finds or creates the
session, charges it, logs the input (the first await) and calls the verb's handler with the
session object itself. Handlers write its fields, consult the services above and return a result
with an optional `stateOverride`; `handleTurn` clamps the state to the budget, writes it on the
session, puts the session in the Map and runs the memory lane. Escalation also writes the other
sessions of the work. JavaScript runs one segment at a time, so turns interleave only at awaits
on real I/O. On stdio there is one turn in flight; on POST /turn there are as many as requests.

**What makes each component correct.** Controller: a session only has a run state whose verbs it
can serve; a completed session has its plan done; progress is counted once and reported exactly;
a spent session does not work again; siblings see the same work. Transport: every request is
answered, in order. Collision guard: two operations that overlap never both run, and an operation
that does not run blocks nothing. Code run: a run always answers within its timeout. Context pack:
a session never has a file the disk pack lacks, and never loses one. Plan validation: the verdict
is that of the rules, for any graph. Memory: no record is lost and none is promoted early.
HTTP kernel: at most `maxRetries + 1` attempts, spaced by the interval. Graph: a failed sync is
repeated. Events: digests count what the ring holds. Initialization: what the inbox holds reaches a
session once, and the strategy answered is that of the signature beside it (it is not always: see
the findings). Reads: whether a file is shown depends on the file
and not on its spelling. Proof chains: a partial chain is in order and never called complete. Seed
files: an edge joins nodes that have rows.

`PROJECT.json` lists every component with its status and every hazard with its line.

## 2. Modules

| Module | What it is |
|---|---|
| `TurnController` | the controller and the effect of every handler on the sessions, for any number of turns in flight |
| `WorkLifecycle` | what the architecture promises of a work scope: run states, plans and the books their work is written in, no turns |
| `TurnControllerStdio` | refinement mapping: one turn at a time implements `WorkLifecycle` |
| `MCTurnController` | plans and symmetries for TLC |
| `TurnControllerProofs` | proofs for any number of slots (types, equipped sessions, counters, validate nodes still eligible) and for one (exact progress, completion, budget, the refinement) |
| `WorkLifecycleProofs` | proofs about the abstract lifecycle |
| `StdioTransport` | lines, chunks, the drain chain, dispatch and the single-flight bootstrap |
| `CodeRunWorker` | the worker, the timer and the promise of each code run |
| `StdioGateway` | composes the two: the turn of a message waits for its code run |
| `MCStdioGateway` | the messages for TLC |
| `StdioGatewayProofs` | proofs about the transport, its queue and the code runs |
| `Mutations` | the collision guard of one work scope and the patches, code runs and side effects it lets through |
| `MCMutations` | two plans on one file, for TLC |
| `MutationsProofs` | proofs of `TypeOK`, `RunningDisjoint` and `EditsSurvive` |
| `MemoryStore` | `records.json` and the turns that read it as a whole and write it back |
| `ContextPack` | the pack on disk, its copies on the sessions, and how both grow |
| `PlanReview` | the verdict on a plan graph: validator, evidence, plan rules, graph policies |
| `WorkInit` | initialization and the connector verbs: inbox, fetches, signature, strategy, overrides |
| `ReadVerbs` | pack check, allowlist and resolution of names in the read verbs |
| `ProofChains` | the two walks through the graph, and the pack judged by them |
| `SeedFacts` | the index in three passes and the six seed files made of it |
| `GraphSync` | the sync and export commands over an external graph |
| `HttpKernel` | `fetchJson`: cache, throttle, retries |
| `EventStore` | the event log and the ring of recent events |
| `MCServices` | instances of the ten modules above for TLC, one in focus per behaviour |
| `MCWorkInit` | two agents, an inbox and a memory for `WorkInit` |
| `StoreProofs` | proofs about what is kept in files: records, overrides, events, packs |
| `SessionProofs` | proofs about what a session is told and shown: inbox, names of files, verdicts on plans, proof chains |
| `ConnectionProofs` | proofs about `HttpKernel`, `GraphSync` and `SeedFacts` |
| `ServicesProofs` | the composition of `MCServices` is one of each component, so its theorems hold there |

### TurnController

*State.* `obj[a][s]` is the session object that the turn in slot `s` created for agent `a`, and
`sessions[a]` the slot whose object the Map holds: two first turns of one agent create two
objects, and the one that ends last stays in the Map. `first` is the agent inserted first, from
which new agents inherit (Map iteration order and the `break` of `ensureSession`). The session's
`planGraphProgress` is split as the code splits it: its two numbers are on the object, its two
arrays in `lists[k]`, which all sessions that copied the record with `{...}` share. `turn[s]` is a
turn in flight: its phase (the await it waits at), and what it read before and still uses.

*Actions.* `Begin` is `handleTurn` up to the await of `logInput`. `DenyBudget` and `DenySync` are
the gates and every synchronous refusal; `Handle...` is a handler up to its first await;
`StorePack`, `StorePlan`, `ResetProgress`, `EnrichPack` are the segments between awaits that write
the session; `Finish...`, `RejectPlan`, `CompleteNode` and `PropagatePack` run to the end of the
turn, with the clamp and `sessions.set`. `Throw` is an exception: both transports answer it with
an error, the session keeps what was written and a new session is not put in the Map.

*Abstractions.* Tokens are "over the threshold" or not, and charging may cross it at any turn. A
context pack is absent, empty or non-empty: the handlers branch on presence (`isInPack`), and a
patch needs a file in it. Verbs whose handlers leave the session alone are represented by one per
capability set. The validator, the scope and collision checks, the patch and the code run are
nondeterministic verdicts, each with all the outcomes the handler distinguishes. Rejection and
action counts, artifacts, prompts, scope allowlist and enforcement bundle do not influence what is
modelled and are left out; so is `finalizeTurn`, which only touches the memory and event stores
after the session is written.

*Bounds.* `MaxAccepts` bounds the number of accepted plans (each has a record of its own); two is
enough for a resubmission under a plan in use, which is where records and plans can be mixed up.
One slot is the stdio transport (`StdioGatewayProofs` proves that it has one turn in flight); two slots give every pairwise interleaving. Two agents give one
that shares and one that is shared with. `stdio` and `http` compare states by what a step may still
read (`Reachable`, a VIEW): not by objects of failed first turns and records that nothing refers to.
The proofs are not subject to these bounds.

### WorkLifecycle

Per agent a run state, a plan and the number of the *book* in which the work under that plan is
written. Agents `Join` (taking over a sibling's state, plan and book), initialize, have plans
rejected or accepted (with a new, empty book), perform nodes, get blocked, and complete only if
their book holds every node of their plan. `Forget` is a first turn that failed. The mapping in
`TurnControllerStdio` reads an agent off its session in the Map or, during its first turn, off the
object that turn created, and counts a plan as accepted from the moment it replaces the old one.

### StdioTransport, CodeRunWorker, StdioGateway

*State.* The client writes messages on `wire`, in two units each (text and newline) that the pipe
may cut between; `lineBuffer` holds what arrived and was not taken. Every chunk adds a link to
`drains`, which is `drainChain`: a link waits for the links before it, scans the buffer, waits for
the runtime or for a turn, and is done. `runtime` is `runtimePromise`, `out` the answers. In
`CodeRunWorker`, `run[r]` is the closure of `runInWorker`: worker thread, undelivered events,
timer and promise.

*Actions.* `Data` is the `data` handler, `DrainStarts` to `DrainEnds` the segments of
`drainLines`, with one action for each way a line is answered; `DispatchCall` is `ensureRuntime`,
whose promise `BootstrapSucceeds` and `BootstrapFails` settle. `StdioGateway` lets a turn start a
code run (`TurnRunsCode`) and end only when the run is settled. The worker posts a message, fails,
is killed by its memory cap, or ends by itself; `Deliver` runs the handler of an event and
`TimerFires` that of the timer. A worker that ends by itself with the script's promise pending is
the ordinary behaviour of Node for a promise that nothing will settle.

*Abstractions and bounds.* Two messages, of every form of line; one of them may run code. A text is
one unit, so a chunk may end before, between or after text and newline. Time is counted per run
while its timer is armed. `Timeouts = {1, 3}` with `MaxDelay = 3` has a timeout that `setTimeout`
can wait and one it cannot. The dashboard is off. A second code run would have a closure of its
own, and the transport runs one turn at a time, so one is enough.

### Mutations

*State.* `reservations` is the guard's list for one `runSessionId:workId`, shared by all agents of
the scope. `turn[s]` is a mutation in flight with its operation id (verb and node, without the
plan), its effects and, for a patch, the text it will write. `file[f]` is a text as the set of
edits in it; it may be blank (truncated, not yet written) or garbled (two writers at once).

*Actions.* `HandlePatchApply`, `HandleCodeRun` and `HandleSideEffect` run from the checks of the
plan node through the guard to the first await; `RefusePatch` is a request that reserves and is
then found not to match its node. `ReadFile`, `Truncate` and `WriteFile` are the awaits of
`applyStructuredPatch` and `writeText`; `ReadNoMatch` is a patch that changes nothing; `Report`
is the artifact bundle; `Fail` ends a mutation at any await.

*Abstractions.* The checks before the guard only refuse: any sequence of requests that the guard
sees is possible. A scope has plans of one worktree root, so a spelling has one file (`FileOf`).
The guard compares each class of effects separately; here the classes are disjoint sets.
`validate` nodes run code as `change` nodes do. Other writers of the worktree are outside.

*Bounds.* Two slots, as the hazards are pairwise; two patches (`MaxTurns`) and any number of other
operations; one file with two spellings, one symbol with and without white space around it, one
graph mutation and one gated side effect. `Declared` has a request with the plain symbol and one
with everything else. One life of the process: a restart empties the guard and ends all turns.

### MemoryStore

*State.* `store` is `records.json`: a text, blank (truncated) or garbled. `lane[t]` is the memory
operation of a turn with the text it is about to write and what of that text is its own change;
`written`, `exposed` and `twice` are history: each record as it was last written, the records that
some write in flight did not know, and the overrides that may be made a record of again.

*Actions.* `ReadRecords` (in `AddToRecords` and `PromoteRecords`), `TruncateRecords` and `WriteAll`
are the awaits of `readAll` and `writeAll`; a write over another one may leave a text that is not
JSON. `TakeOverride`, `SkipOverride`, `LogOperation` and `RenameOverride` are the loop of
`ingestOverrideFiles`; `RunAutoPromotion` takes its time before it reads. `OperationFails` is a
write, an append or a rename that throws: of an override the error is swallowed, its file stays and
the loop goes on with the next. `MemoryCrash` ends all operations at any step. A record is its
enforcement, state, two times and origin.

`OverrideOnce` is what `memoryService.ts:286` says, "Each file is processed once and renamed", as far
as the code makes it so: a file that is gone was recorded, and recorded once, unless two turns held
it together, or a turn that had recorded it did not come to rename it (`twice`).

### ContextPack

*State.* `disk` is `context-pack.json`, shared by all runs of a work item; `pack[a]` the copy
`{files, hash}` on a session; `known` the sessions in the Map; `packTurn[t]` what a turn read and
still uses. Two histories say where copies may depart: `estranged` has the agents whose copy may
have files that the disk lacks, because another creation, a stale write or a failing write came
between; `apart` those whose copy may differ from a sibling's, because one of their run created the
pack anew, an escalation wrote from what the session had before another turn changed it, or an
escalation ended while they were in their first turn. Who joins takes over both from whom it copies.

*Actions.* `HandleInitialize` and `CreateContextPack`; `HandleEscalatePack`, `ReadPack`,
`EnrichContextPack` and the in-memory fallback of `EnrichFails`; `JoinWork` is inheritance in
`ensureSession`, `PackTurnEnds` the propagation to siblings. A hash is what it was computed of.

### PlanReview

Operators for every check of `validatePlanGraph` on a plan that keeps what the checks look at: the
cycle search with its two sets is `Visit`, compared with `CanBeOrdered`, which says that no set of
nodes waits for itself. `Verdict` collects the codes, `SubmitPlan` is the action; the
search calls itself with one id more in `visiting`, so `Visits` is a function of that depth.

### WorkInit, ProofChains

`WorkInit` follows an initialization from await to await: the scope, the memory query, the inbox
files (copied and made artifacts, those that can be, then renamed), the tickets and API
descriptions, strategy and overrides, and the exception of any of them. `FetchJira` and
`FetchSwagger` are the connector verbs, whose later fetch gives the session's next turn another
signature. Texts are sets of signal classes; of several signals on one flag the last counts
(`LastOn`). The corpus has the refs of artifacts and the keys of their metadata too (`RefText`,
`ArtifactText`): every inbox file has the key `copiedTo`, in which the signal `dto` occurs.
`TurnStarts` is what every turn does before its verb: it keeps the first prompt and selects a
strategy without overrides, and `envelope` is the pair that its response carries; `ResponseStrategy`
is what the handler's own strategy makes of it. That two first turns of one agent make two objects
is in `TurnController`; here a session is one object. `ProofChains` is the step of the same turn between: each query of a walk
is an action that finds something, nothing, or fails; then come the guesses from the index and the
missing anchors of the pack.

### ReadVerbs

A name is a form (relative, with a leading dot, absolute, with a leading slash) and a path.
`ToRepoRelative` is the pack's way of comparing, `Resolve` that of allowlist and disk, against a
worktree root that may be below the repository. `ReadRange`, `ReadSymbol`, `GrepLexeme`,
`ReadNeighbors` and `ListDir` are the verbs; `shown` is the last answer.

### SeedFacts, GraphSync

`SeedFacts` reads the files in three passes (`ReadTemplates`, `ReadSymbols`, `ReadRoutes`, one file
at a time), in which an `EditFile` may fall anywhere, and then has an operator per kind of row, with
the searches that resolve names. A name is a sequence of words, and the words may differ in case
alone: `Lower` is the key under which the index files and finds a symbol, so a search may find
symbols of another case, and enough of them hide the one of the very name behind the limit. Routes are listed in preorder with a level, from which `Above` and `Flattened` read off the
parents that the code's recursion carries. `GraphSync` is the two commands of `cli.ts` as processes: a
sync drops, reads, upserts row by row and clears the watermark; an export takes watermark and time
first. A seed row has a key, a version and a rank of its text; MERGE is Neo4j's. Direct query rows,
which run before the keyed ones and may write anything, leave the graph alone here: no seed file of
the repository has one, and what one does is its own text. One sync runs at a time, beside any
export.

### HttpKernel, EventStore

A call of `fetchJson` is new, throttled, sent, in backoff, done or failed; `sends` is the history of
requests, each with its time and how many preceded its call at the throttle. An append of
`EventStore` waits for its line before it pushes on the ring; `pushed` is the history of pushes.

### MCServices

The ten modules share no variable, so their product says nothing that each alone does not. `focus`
is chosen in the initial state and only that component takes steps; the others stay in one initial
state. The state space is the sum of theirs, and an invariant of one component is checked in all its
behaviours.

## 3. Runs

| Run | Instance | Shows |
|---|---|---|
| `stdio` | 2 agents, 1 slot, plans {check, change} and {change, check, side effect} that give the same ids other roles, 2 accepts | types; working sessions are equipped; counters stay within the shared array; the eligible list is exactly the validate nodes not done whose mapped nodes are; a completed session with a plan has every node done; a session leaves COMPLETED only over budget; a spent session never works again; the turn controller implements `WorkLifecycle` |
| `http` | 1 agent, 2 slots, two plans that give the same ids other roles, 2 accepts | what concurrent POST /turn requests cannot break |
| `patches` | 2 slots, 2 plans on one file, 2 patches | different operations never run on a common effect; an edit is lost only to a mutation that had read it, to its own operation, or to another spelling of its file |
| `reserved` | as `patches` | violated: with nothing running, a change node is refused as colliding |
| `phantom` | 2 agents, 1 slot, plans {change, check} and {check, change}, 2 accepts | violated: a joined agent is refused completion although every node is done |
| `planless` | as `phantom` | violated: COMPLETED without a plan |
| `http_gate` | 1 agent, 2 slots, a plan and one that adds a side effect | violated: a completion between the two writes of a submission passes on the old counter |
| `queue` | 2 messages of every form, 1 code run | answers are in order and complete, turns do not overlap, there is one runtime, timers and workers are released, and a message stays unanswered only behind an abandoned code run |
| `hang` | 2 calls, 1 code run | violated: a code run that settles nothing blocks the queue |
| `services` | see below | types; records stay as written and are promoted on time; an override is made one record; the ring is the latest events; no session shows a file the disk lacks, siblings agree, packs only grow; a synchronised graph is its seed and leaves nothing out of exports; requests are spaced and answered for their own key; a plan is accepted only if it can be carried out; inbox files arrive once; chains are in order; edges have ends; spelling does not matter |
| `signals` | 2 sessions, 1 memory | violated: a strategy signal of the folders a session works in is not applied |
| `envelope` | as `signals` | violated: a response carries a strategy that its signature does not select |

The runs of the turn controller and of the mutations check deadlock: something can always begin or
continue. Those of the stdio gateway do not, as the client stops after `MaxMessages`; nor do
`services`, `signals` and `envelope`, whose processes, calls and verbs are bounded and end.

**Bounds of `services`.** Each is the smallest at which the hazard of its component occurs.
Memories: two turns, one override that is JSON and one that is not, two records, windows of one unit
and two units of time, so that a record can be promoted and expire and two writes can overlap twice.
Events: a ring of two and three events of two writers. Packs: two agents of one run, two files, two
creations and two escalations. Graph: four processes, so that a failed sync is followed by an export,
a second sync and a second export; seeds with an edge before its nodes, with versions in both
orders, and with rows that end in an error. HTTP: two calls, two keys, one retry, an interval of two
in seven units of time. Plans: three nodes in every shape of dependencies (with a missing and a
repeated id), and each defect of an otherwise good plan, with and without memories and policies.
Reads: two files and a configuration file, the four spellings of each, two worktree roots. Sources:
two files of three contents, with names that differ in case, one edit at any point of the passes. Initializations: two sessions, two inbox
files of one content, one verb after it, a prompt that mentions no API description.

**Fairness** is assumed in `queue` and `hang` only: the event loop delivers what has arrived
(chunks, events of workers, due timers), time passes, the bootstrap settles, a turn that waits for
no code run ends, and a terminated worker exits. Nothing is assumed of the client or of the
script: it may run, linger or end at any time. The turn controller has no liveness run, as the
turns it is made of may wait for a code run for ever; the HTTP kernel has none, as a request has no
timeout and a server need not answer.

`CompletedIsDone`, `EligibleExact` and the refinement hold on stdio and not with concurrent turns:
`http_gate` shows why. `CompletedFrozenWithinBudget` is not checked there either: two first turns
of one agent make two session objects, and the slower replaces a completed one in the Map.

## 4. Findings

* **A joined agent is refused completion of finished work** (`turnController.ts:249`,
  `mutationHandlers.ts:29`). The copied record shares the array of completed ids but not the
  counter, and the counter is only refreshed by a session that adds an id itself.
* **Completion without a plan** (`retrospectiveHandler.ts:29`). The gate looks at
  `planGraphProgress` only.
* **Plan and progress are replaced in two steps** (`planHandlers.ts:142`), visible to concurrent
  POST /turn requests.
* **A code run that settles nothing hangs the gateway** (`infrastructure/vm/safeVmRunner.ts:88`).
  A worker that exits with code 0 before it posted a message clears the timer, and no handler
  settles the promise; on stdio no later message is answered.

* **Reservations are never released** (`domains/patch-exec/collisionGuard.ts:70`). A finished,
  failed or misaddressed patch keeps its file and symbols, so a plan with two change nodes on one
  file cannot be carried out in one life of the process.

* **A strategy beside a signature that does not select it** (`turnController.ts:122`). The envelope
  of the response to `initialize_work` pairs the strategy that the handler chose, with overrides and
  after its fetches, with the signature that the turn started with;
  `domains/strategy/contextSignature.ts:6` says that the strategy is a pure function of the
  signature. Turns of other verbs answer both without the overrides (`turnController.ts:66-78`).
* **Strategy signals are looked up too early** (`initializeWorkHandler.ts:91`). The memories are
  asked for with the files of the session before this initialization fills them; the architecture
  says that they override the signature.

Not findings, but what the theorems must leave out: the operation id of a patch has no plan and no
turn, so two patches of one node id overlap and the later write wins; two spellings of a file are
two effects to the guard; and effects are trimmed when reserved but not when compared. A record is lost
when two turns overlap or a reader meets the truncated file (`exposed`); a copy of the pack departs
from the disk when another agent creates the pack anew or a turn writes from an old state
(`estranged`), and from a sibling's for the reasons that `apart` names; two throttled requests go
out together; a name with a leading slash is useless. An override is recorded again when two turns
read it before either renamed it, and when a turn that recorded it fails or dies before the rename
(`twice`). A timeout over 2^31-1 ms expires at once (`safeVmRunner.ts`). A guard that only another
case of letters was found for has an edge to a symbol that no row describes
(`seedFactsFromIndex.ts:417`).

Smaller disagreements that were met while modelling, and that no property is about:

* Plans: `planHandlers.ts:108` advises to fetch the pack again for a new hash, but an escalation
  without findings gives the session a hash that is not the pack's. `planRejectionFix` explains
  PLAN_POLICY_VIOLATION as an unsupported codemod only, while graph policies deny with it too. A
  plan rule that requires an `escalate` step with a target can never be met.
* Packs: files that the disk has already are not reported as added, so a session of another run
  does not get them; a pack is sufficient when a required chain has one link.
* Graph: the README of `graph-ops` breaks ties by version, time and author, but `resolveConflict`
  throws on equal versions. Exported node rows have no id at top level and are skipped by
  `parseSeedRow`. No generated seed has the nodes where the proof chains start. Graph policies are
  not applied while Neo4j is down.
* Proof chains: `missingLinks` may list a kind that a direct search then found.
* Initialization: inbox files are deduplicated within a session, not across; they stay processed
  when the turn then fails; an override of `has_swagger` leaves the guessed task that was derived
  from it; a ticket fetched automatically does not reach the signature.
* Reads: `list_directory_contents` is denied for a directory that is not itself in the pack.
* HTTP: nothing throws HTTP_TIMEOUT_ERROR.
* Index: `getIndexedFilePaths` is documented as relative and returns absolute paths; a default child
  route with the full path of its parent is dropped with its guards.

## 5. Proofs

Every theorem is of a specification as it is model-checked, for all values of its constants that
satisfy the named assumption; where a further hypothesis is needed it stands in the theorem.

**Turn controller, any slots** (`TurnControllerProofs`, from `ConstantsAssumption`: nodes finite,
`None` distinct, kinds and mappings total).

* `TypeCorrect`: `TypeOK` with `FirstKnown` (the agent met first is in the Map) is inductive.
  `FinishType`, `StepType` and `AwaitType` state once what ending and moving a turn preserve.
* `WorkingSessionsEquipped`: `WorkingStateIsEquipped` is not inductive, because a turn writes back
  a run state it read before waiting. `TurnEquipped` says what each turn in flight relies on.
  It survives the other turns because sessions only gain packs, plans and records (`Gains`);
  the one step that replaces an object, the first turn of an agent, cannot take one from another
  turn (`Ownership`).
* `CounterBounded`: emptying a progress record must not undercut a session that counts on it.
  `AcceptingFresh` says that the record a submission is about to create is nobody else's.
* `PendingNotDone`: no node that is done is in the list of eligible validate nodes that a refused
  completion is answered with; inductive with the types.

**Turn controller, one turn at a time** (`TurnControllerProofs`). The theorems have the
hypothesis `OneSlot`, which is the stdio transport: `TurnsNeverOverlap` proves that it never has two
turns in flight. Without it they are false: with two slots, which is `POST /turn`, TLC finds a
violation of each (of `EligibleExact` only with two agents and two plans). `http_gate` is the one
that is kept as a run.

* `AloneInv` is what one turn buys. `TurnAlone`: what the turn found when it was admitted (run state,
  budget, plan, remaining nodes) is still so at each of its awaits. `Books`: the progress record of a
  session is about its plan, sessions that share a record share the plan, and records not yet opened
  are empty. With the types and `ProgressInv` it is inductive.
* From it: `PendingExact` (of the same list, that it misses none), `CompletedDone`, `GateSoundAlone` (the gate of `signal_task_complete`),
  and as action properties `CompletedFrozen` and `SpentStaysStopped`.
* `Implements`: the refinement of `WorkLifecycle`. Each action is shown to be a lifecycle step or a
  stutter from what it does to phase, plan and book of its agent (`Same`, `AllBut`); `View` says what
  the mapping reads off while the turn is in flight.
* `LifecycleTypeOK`, `LifecyclePlanHasBook`, `LifecycleCompletedIsDone`: the abstract lifecycle's
  invariants, from `LifecycleConstants` (`WorkLifecycleProofs`).

**Stdio gateway** (`StdioGatewayProofs`, from `TransportAssumption` and `GatewayAssumption`): for
any messages, chunks and code runs.

* `TurnsNeverOverlap`, `RuntimeUnique`, `GatewayTyped`: a link of the chain has begun only if all
  before it are done, and the number of runtimes is one exactly when the promise is fulfilled
  (`TransportInv`).
* `TimersReleased`: the invariant of one run, `RunSound`, is kept by each event that
  the worker, the timer or the drain brings.
* `OrderedAnswers`, `NoneForgotten`: `QueueInv` says that of the messages sent the first `t` have been
  taken, that the first `c` are answered where they deserve it, that `c` is `t` or one less with its
  call in flight, that the buffer and the wire hold exactly the rest, cut only between lines and
  texts (`Framed`), and that a complete line has a drain that will take it (`Drained`).

**Mutations** (`MutationsProofs`, from `MutationsAssumption`).

* `MutationsTyped`, `OperationsDisjoint`: `RunningDisjoint` needs that whatever runs has its effects,
  trimmed, among the reservations (`Held`).
* `EditsSurvivePatches`: an action property. `EditInv` says that every edit in a file or in the
  text of a patch is reserved by the operation that made it, and that while a patch is in flight
  every edit made under its spelling is of its own operation (`OneEditor`).

**What is kept in files** (`StoreProofs`, from `MemoryAssumption`, `EventsAssumption`,
`PackAssumption`).

* `RecordsKept`, `NonePromotedEarly`: the text that a write in flight is about to leave has every
  record as it was last written, except its own changes and what is exposed (`Knows`); so does the
  file. That every record in the file or in a text in flight is `Timely` is inductive, as the lane
  only adds to times.
* `OverridesOnce`: the origin of a record is told by its id, in the file and in every text in flight;
  an override that is not `twice` has at most one record or change in flight, and whoever has written
  it is about to rename its file or has done so (`OverridesInv`).
* `RingLatest`: the ring is the tail of what was pushed (`Latest`), and the line of an event is in
  the file before the event is pushed (`WrittenFirst`).
* `CopiesOfPack`, `OneAllSee`, `PacksGrow`: `PackInv`. `TurnsFit` says what a turn knows of the pack
  it read; `WithinDisk` is the first property; `Agreement` says that of two agents of a run the copy
  of one is within the copy of the other together with what escalations that are ending are about to
  hand on (`Handed`), from which `SiblingsAgree` follows once no turn is in flight. Looking for this
  invariant with three agents showed that `SiblingsAgree` had excepted too little, hence `apart`.
* `MemoryTyped`, `EventsTyped`, `PacksTyped`: a record has a state, times and an enforcement of the
  model wherever it is, in the file or in a text in flight (`MemoryTypes`). That a copy lists each
  file once needs `OnceInv`: what a turn found, merged and added is listed once too, and what it adds
  is not in what it adds to. It holds of copies that no other creation has estranged.

**Connections and seeds** (`ConnectionProofs`, from `HttpAssumption`, `RowsAssumption`,
`SeedAssumption`, `ContentsAssumption`).

* `RequestsSpaced`, `AnswersOwnKey`: a throttled call is due an interval after every request that
  preceded it at the throttle (`CallSound`), and no request is later than `lastRequestAt`; the number
  of requests of a call is counted by its attempts, one less while it is throttled.
* `NoDeltaLost`: while the graph is filled no export runs, or it is remembered that one did
  (`FillInv`); once a sync has ended well, each phase of an export knows which nodes are still due
  (`ExportInv`), and the watermark only moves when all are exported.
* `GraphIsSeed`: while a sync fills the graph, the rows that were applied and those still to come are
  the rows of the seed that won their key (`Applied`), and the graph holds exactly the applied ones
  (`HoldsRows`). That each key keeps one row is shown of the fold over the rows by an induction over
  its prefixes (`KeyedRows`). `RowsAssumption` says what the generated seeds do: the rows that name one entity give it
  the same labels, or a label that has a constraint. Without it MERGE makes two nodes of one entity.
* `SeedEdgesResolve`: `SeedsInv` says that each list of the index keeps its elements as the passes go
  on, that the first route of an id is the one that counts, that a folder that is walked has a walked
  parent, and that the files written so far are those of the index as it stands, which no pass
  changes while the command writes. `EdgesResolve` excepts what the code leaves open: guards that no
  symbol has the very name of, guards with a symbol of the same name in other letters, which may
  take its place among the hits, and forced anchors below no anchor (`anchorSeeder.ts:53-84`).
* `HttpTyped`, `GraphTyped`, `SeedTyped`: the second needs that the ids of nodes stay while there are
  relationships, the third that no pass goes further than the files it was given.

**Sessions** (`SessionProofs`, from `WorkInitAssumption`, `ReadAssumption`, `RulesAssumption`,
`PlansAssumption`; proof chains from none).

* `DroppedReachesOnce`: `InboxOnce` counts; `InboxInv` says the same without counting. A file that
  could be renamed and was taken is not in the inbox any more and was taken by one session; no two
  artifacts of a session have one content (`Distinct`), which survives because what a session takes
  has none of its contents (`TakenContents`); and what is away from the inbox is with a session or
  dropped. `DistinctCount` turns it into cardinalities.
* `NamesByMeaning`: an action property. `Placed` and `Resolved` say what a name of each form means,
  `PackMeans` and `ScopeMeans` restate the two checks by places. `ReadAssumption` says of the paths
  below the repository that they are not empty and do not start with the root's own segment, which
  is what tells an absolute name from one that only starts with a slash.
* `PlansJudgedSoundly`: no step is hard, the cycle search is. It finds a cycle exactly when the nodes
  cannot be ordered: what is visited can be ordered after all that it waits for, what is being
  visited waits for the node in hand, and a node met while it is being visited waits for itself. The
  rest of the verdict is compared check by check. `RulesAssumption` says that memory rules have codes
  of their own, as `src/.ai/how-to/memory-system.md:101` shows them; the code would take any, and a rule
  whose code is PLAN_NOT_ATOMIC would be reported as a cycle.
* `ChainsPartialNotFabricated`: the links of a walk lie before the position it has reached, in order,
  and every kind that it passed without a link is listed (`GoesOn`, `Ended` in `ChainInv`); what is
  guessed afterwards fills kinds that were missing.
* `ReadTyped`, `WorkTyped`, `ChainTyped`, `ReviewTyped`.

**The services together** (`ServicesProofs`). `ServicesAreComponents`: a behaviour of the
composition is one of each of the ten components, because a step of the one in focus leaves the
variables of the others alone. So each theorem about a component is one about the composition that
`services` checks; `ServicesTyped` draws the conclusion for the types of all ten.

Only model-checked: the liveness properties `AnsweredUnlessAbandoned` and `WorkerReleased`, as
`ENABLED` and fairness are beyond the prover. Only shown by a counterexample, and not proved to be
false: the seven properties of the runs that expect a violation.

## 6. Not modelled

* **Retrieval, parsers, word index**: computed in one go from their input, without state. Their
  results are inputs of the models (`Findings`, the contents of files).
* **Evaluation, scripts, configuration**: clients of the system, or read once before it starts.
* **Recipes, the read-only endpoints of the dashboard, the answers' texts**: they change no state
  that another step reads.
* **Legacy promotion, `transition`, `scaffoldFewShot`, `exportAsGraphSeed`**: nothing calls them.
* **Names with `..` and backslashes**, `scopedFs`, and code runs without a memory cap.

## 7. Plan

What a next step would add, in this order.

1. The components of `services` that meet in one turn composed: `WorkInit`, `ProofChains` and
   `ContextPack` on the sessions of `TurnController`.
2. Of that composition, the refinement of `WorkLifecycle`, and that a plan is judged by the pack and
   the memories its session was given.
3. Recipes and the slicing of tickets, as operators.
