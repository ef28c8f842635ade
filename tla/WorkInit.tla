-------------------------------- MODULE WorkInit --------------------------------
(***************************************************************************)
(* initialize_work and the connector verbs: what a session is told about   *)
(* its work.  Files of the inbox become artifacts and are renamed, tickets *)
(* and API descriptions are fetched, and a strategy is chosen from what    *)
(* all of it says, with the overrides of strategy_signal memories.  Every  *)
(* turn also selects a strategy as it starts, for the envelope of its      *)
(* response.                                                               *)
(*                                                                         *)
(* Sessions of POST /turn interleave at the awaits.  A text is the set of  *)
(* signal classes that its words match: the prompt and the lexemes, refs   *)
(* of artifacts with the keys of their metadata, labels of a ticket.  What *)
(* args.anchors raises, words raise too.  initialize_work is open to a new *)
(* session and, as any verb that is safe for the budget, to one that is    *)
(* blocked by its budget.                                                  *)
(***************************************************************************)
EXTENDS Integers, FiniteSets, SequencesExt, Functions

CONSTANTS
  Sessions,       \* first turns of agents, and their sessions
  Prompts,        \* the texts that prompts and lexemes may be
  IndexText,      \* the text of guard and directive names
  InboxFiles,     \* files dropped into .ai/inbox
  ContentOf,      \* ContentOf[f]: what is in the file
  IndexedFiles,   \* files the index found
  RefText,        \* RefText[r]: the text of a ref and of the keys that came with it
  AnchorsOf,      \* AnchorsOf[f]: the anchors of a file, with their ancestors
  Signals,        \* active strategy_signal memories: anchor, flag and value
  Tickets,        \* what Jira may answer: whether it is a bug, and its labels
  AllowedByPlan,  \* bound: the allowlists that plans bring
  Attachments,    \* bound: the refs of args.attachments, as sequences
  MaxVerbs        \* MaxVerbs[s]: bound on the verbs of a session

Flags == {"has_swagger", "mentions_aggrid", "behind_federation_boundary",
          "touches_shadow_dom", "migration_adp_present",
          "sdf_contract_available", "has_route_guards"}

\* The flag that the words of a class raise; words of debugging raise none.
FlagOf == [has_swagger |-> "swagger", mentions_aggrid |-> "aggrid",
           behind_federation_boundary |-> "federation",
           touches_shadow_dom |-> "shadow", migration_adp_present |-> "migration",
           sdf_contract_available |-> "sdf", has_route_guards |-> "guard"]

Classes == Range(FlagOf) \cup {"debug"}

Strategies == {"migration_adp_to_sdf", "debug_symptom_trace",
               "api_contract_feature", "ui_aggrid_feature"}

NoContent == "none"  \* of an artifact that is only a reference

\* What artifacts are called by: bound, one ticket and one API description.
Refs == InboxFiles \cup {"jira:1", "swagger:1"} \cup UNION {ToSet(a) : a \in Attachments}

ASSUME WorkInitAssumption ==
  /\ Prompts \subseteq SUBSET Classes /\ IndexText \subseteq Classes
  /\ IsFiniteSet(InboxFiles) /\ Attachments \subseteq Seq(STRING)
  /\ ContentOf \in [InboxFiles -> STRING \ {NoContent}]
  /\ RefText \in [Refs -> SUBSET Classes]
  /\ AllowedByPlan \subseteq SUBSET IndexedFiles
  /\ MaxVerbs \in [Sessions -> Nat]

VARIABLES
  inbox,      \* the files of the inbox not renamed to .processed
  work,       \* the session objects
  takes,      \* history: which session took which content from which file
  stuck,      \* history: files that were taken but could not be renamed
  dropped     \* history: contents that went with a session that was not kept

workInitVars == <<inbox, work, takes, stuck, dropped>>

NoTicket == [bug |-> FALSE, labels |-> {}]

NoSelection == [strategy |-> "none", signature |-> [flags |-> {}, task |-> "unknown"]]

\* Of a session: its first prompt, and what the request in hand says with it; the
\* strategy and the signature that initialize_work ended with; the envelope of the
\* response.
NewWork ==
  [phase |-> "idle", state |-> "UNINITIALIZED", prompt |-> {}, text |-> {},
   artifacts |-> <<>>, slice |-> NoTicket, active |-> <<>>, allowed |-> {},
   files |-> {}, strategy |-> NoSelection.strategy,
   signature |-> NoSelection.signature, envelope |-> NoSelection, verbs |-> 0]

WorkInitInit ==
  /\ inbox = InboxFiles
  /\ work = [s \in Sessions |-> NewWork]
  /\ takes = {}
  /\ stuck = {}
  /\ dropped = {}

WorkInitTypeOK ==
  /\ inbox \subseteq InboxFiles /\ stuck \subseteq InboxFiles
  /\ \A s \in Sessions :
       /\ work[s].phase \in {"idle", "memories", "jira", "swagger", "packing", "fetching"}
       /\ work[s].state \in {"UNINITIALIZED", "PLANNING", "PLAN_ACCEPTED", "BLOCKED_BUDGET"}
       /\ work[s].strategy \in Strategies \cup {"none"}
       /\ work[s].signature.flags \subseteq Flags
       /\ work[s].envelope.strategy \in Strategies \cup {"none"}
       /\ work[s].envelope.signature.flags \subseteq Flags

-----------------------------------------------------------------------------
(* The context signature and the decision table.                           *)

HasSource(artifacts, source) == \E i \in DOMAIN artifacts : artifacts[i].source = source

\* inferTaskType
TaskOf(bug, corpus, flags) ==
  IF bug THEN "debug"
  ELSE IF "migration_adp_present" \in flags THEN "migration"
  ELSE IF "debug" \in corpus THEN "debug"
  ELSE IF "has_swagger" \in flags THEN "api_contract"
  ELSE IF "mentions_aggrid" \in flags THEN "ui_feature" ELSE "unknown"

\* Every inbox file has a key copiedTo in its metadata, in lower case copiedto: its
\* last letters are the signal dto of has_swagger.
ArtifactText(a) ==
  RefText[a.ref] \cup (IF a.content = NoContent THEN {} ELSE {"swagger"})

\* A label raises the flag it names.  The summary of a fetched ticket is the
\* gateway's own wording, and its other fields are looked for where they are
\* not, so that only a slice made by an earlier fetch_jira says anything.  What
\* was indexed is given by initialize_work only.
ComputeContextSignature(w, indexed) ==
  LET corpus == w.text \cup indexed \cup (w.slice.labels \cap Classes)
                  \cup UNION {ArtifactText(w.artifacts[i]) : i \in DOMAIN w.artifacts}
      flags == {f \in Flags :
                  \/ FlagOf[f] \in corpus
                  \/ f = "has_swagger" /\ HasSource(w.artifacts, "swagger")}
  IN [flags |-> flags, task |-> TaskOf(w.slice.bug, corpus, flags)]

SelectStrategyFromSignature(sig) ==
  IF "migration_adp_present" \in sig.flags THEN "migration_adp_to_sdf"
  ELSE IF sig.task = "debug" THEN "debug_symptom_trace"
  ELSE IF "has_swagger" \in sig.flags \/ sig.task = "api_contract"
  THEN "api_contract_feature" ELSE "ui_aggrid_feature"

\* The signals on a flag after which none on it comes.
LastOn(active, flag) ==
  {i \in DOMAIN active :
     active[i].flag = flag
     /\ \A j \in DOMAIN active : active[j].flag = flag => j <= i}

\* The value of an override replaces what was computed, or what an earlier one
\* had put there; what the task was guessed from is not looked at again.
Overridden(sig, active) ==
  LET guesses == LastOn(active, "task_type_guess") IN
  [flags |-> {f \in Flags :
                IF LastOn(active, f) = {} THEN f \in sig.flags
                ELSE \E i \in LastOn(active, f) : active[i].value # "false"},
   task |-> IF guesses = {} THEN sig.task
            ELSE active[CHOOSE i \in guesses : TRUE].value]

ApplyStrategySignalOverrides(base, active) ==
  LET signature == Overridden(base, active) IN
  [signature |-> signature, strategy |-> SelectStrategyFromSignature(signature)]

\* A request comes: the session keeps its first prompt (one without any of the
\* words is as good as none), lexemes are of the request, and a strategy is
\* selected from what is known before the verb is handled, whatever memories say.
TurnStarts(w, said, lexemes) ==
  LET prompt == IF w.prompt = {} THEN said ELSE w.prompt
      asked == [w EXCEPT !.prompt = prompt, !.text = prompt \cup lexemes]
      signature == ComputeContextSignature(asked, {})
  IN [asked EXCEPT !.envelope =
        [signature |-> signature, strategy |-> SelectStrategyFromSignature(signature)]]

Lexemes == Prompts \cup {{}}

-----------------------------------------------------------------------------
(* The inbox.                                                              *)

InboxArtifact(f) == [source |-> "attachment", ref |-> f, content |-> ContentOf[f]]

ContentsOf(artifacts) ==
  {artifacts[i].content : i \in DOMAIN artifacts} \ {NoContent}

\* Mutant: what the session has already is not looked at.
TakingsAnew(known) ==
  {taken \in SUBSET inbox :
     \A f, g \in taken : ContentOf[f] = ContentOf[g] => f = g}

\* Of several files with one content a session takes the first, in any order the
\* directory has; the others stay as they are, and so does a file that cannot be
\* read or copied.
Takings(known) ==
  {taken \in SUBSET inbox :
     /\ \A f \in taken : ContentOf[f] \notin known
     /\ \A f, g \in taken : ContentOf[f] = ContentOf[g] => f = g}

-----------------------------------------------------------------------------
(* initialize_work.                                                        *)

\* The inbox is read, copied and renamed without an await; what cannot be
\* renamed is taken all the same.  Then args.attachments are passed through.
BeginWork(s) ==
  /\ work[s].phase = "idle"
  /\ work[s].state \in {"UNINITIALIZED", "BLOCKED_BUDGET"}
  /\ work[s].verbs < MaxVerbs[s]
  /\ \E said \in Prompts, lexemes \in Lexemes, attached \in Attachments,
        taken \in Takings(ContentsOf(work[s].artifacts)) :
       \E kept \in SUBSET taken :
         /\ inbox' = inbox \ (taken \ kept)
         /\ stuck' = stuck \cup kept
         /\ takes' = takes \cup {<<s, f>> : f \in taken}
         /\ work' = [work EXCEPT ![s] =
              [TurnStarts(work[s], said, lexemes) EXCEPT !.phase = "memories",
                 !.verbs = @ + 1,
                 !.artifacts = @ \o SetToSeq({InboxArtifact(f) : f \in taken})
                   \o [i \in DOMAIN attached |->
                        [source |-> "attachment", ref |-> attached[i],
                         content |-> NoContent]]]]
  /\ UNCHANGED dropped

\* The memories of the anchors of the allowed files: without an allowlist there
\* are no files yet.
QueryMemories(s) ==
  /\ work[s].phase = "memories"
  /\ LET anchors == UNION {AnchorsOf[f] : f \in work[s].allowed} IN
     work' = [work EXCEPT ![s].phase = "jira",
                ![s].active = SelectSeq(Signals, LAMBDA m : m.anchor \in anchors)]
  /\ UNCHANGED <<inbox, takes, stuck, dropped>>

\* A ticket key in the prompt, and no ticket yet; a failure to fetch is ignored.
AutoFetchJira(s) ==
  /\ work[s].phase = "jira"
  /\ \E found \in
          {<<>>, <<[source |-> "jira", ref |-> "jira:1", content |-> NoContent]>>} :
       /\ found # <<>> => work[s].slice = NoTicket
       /\ work' = [work EXCEPT ![s].phase = "swagger", ![s].artifacts = @ \o found]
  /\ UNCHANGED <<inbox, takes, stuck, dropped>>

\* A mention of an API, and a URL among the lexemes; then, with no await
\* between, the strategy is chosen.
AutoFetchSwagger(s) ==
  /\ work[s].phase = "swagger"
  /\ \E found \in
          {<<>>, <<[source |-> "swagger", ref |-> "swagger:1", content |-> NoContent]>>} :
       LET fetched == [work[s] EXCEPT !.artifacts = @ \o found]
           chosen == ApplyStrategySignalOverrides(
                       ComputeContextSignature(fetched, IndexText), work[s].active)
       IN /\ found # <<>> => "swagger" \in work[s].text
          /\ work' = [work EXCEPT ![s] =
               [fetched EXCEPT !.phase = "packing", !.strategy = chosen.strategy,
                               !.signature = chosen.signature]]
  /\ UNCHANGED <<inbox, takes, stuck, dropped>>

\* The response has the strategy of the handler beside the signature that the
\* turn started with.
ResponseStrategy(w) == [w.envelope EXCEPT !.strategy = w.strategy]

\* The pack is written with the allowed files, or all that were indexed.
OpenWork(s) ==
  /\ work[s].phase = "packing"
  /\ work' = [work EXCEPT ![s].phase = "idle",
                ![s].files = IF work[s].allowed = {} THEN IndexedFiles ELSE work[s].allowed,
                ![s].state = IF @ = "UNINITIALIZED" THEN "PLANNING" ELSE @,
                ![s].envelope = ResponseStrategy(work[s])]
  /\ UNCHANGED <<inbox, takes, stuck, dropped>>

\* The pack cannot be written: the turn fails, and a new session is not kept.
WorkFails(s) ==
  /\ work[s].phase = "packing"
  /\ IF work[s].state = "UNINITIALIZED"
     THEN /\ work' = [work EXCEPT ![s] = NewWork]
          /\ dropped' = dropped \cup ContentsOf(work[s].artifacts)
     ELSE /\ work' = [work EXCEPT ![s].phase = "idle"]
          /\ UNCHANGED dropped
  /\ UNCHANGED <<inbox, takes, stuck>>

-----------------------------------------------------------------------------
(* The connector verbs, and what else the session lives through.           *)

RecordArtifact(artifacts, a) ==
  IF \E i \in DOMAIN artifacts : artifacts[i].ref = a.ref THEN artifacts
  ELSE Append(artifacts, a)

BeginFetch(s) ==
  /\ work[s].phase = "idle"
  /\ work[s].state \in {"PLANNING", "PLAN_ACCEPTED"}
  /\ work[s].verbs < MaxVerbs[s]
  /\ \E said \in Prompts, lexemes \in Lexemes :
       work' = [work EXCEPT ![s] =
         [TurnStarts(work[s], said, lexemes) EXCEPT !.phase = "fetching", !.verbs = @ + 1]]
  /\ UNCHANGED <<inbox, takes, stuck, dropped>>

\* Without a base URL the answer is a placeholder, which says nothing.
FetchJira(s) ==
  /\ work[s].phase = "fetching"
  /\ \E ticket \in Tickets \cup {NoTicket} :
       work' = [work EXCEPT ![s].phase = "idle", ![s].slice = ticket,
         ![s].artifacts = RecordArtifact(@,
           [source |-> "jira", ref |-> "jira:1", content |-> NoContent])]
  /\ UNCHANGED <<inbox, takes, stuck, dropped>>

FetchSwagger(s) ==
  /\ work[s].phase = "fetching"
  /\ work' = [work EXCEPT ![s].phase = "idle",
       ![s].artifacts = RecordArtifact(@,
         [source |-> "swagger", ref |-> "swagger:1", content |-> NoContent])]
  /\ UNCHANGED <<inbox, takes, stuck, dropped>>

\* No token, an error of the server, an answer that is not JSON.
FetchFails(s) ==
  /\ work[s].phase = "fetching"
  /\ work' = [work EXCEPT ![s].phase = "idle"]
  /\ UNCHANGED <<inbox, takes, stuck, dropped>>

\* Bound: only while there are verbs left.
PlanAccepted(s) ==
  /\ work[s].phase = "idle"
  /\ work[s].verbs < MaxVerbs[s]
  /\ work[s].state = "PLANNING"
  /\ \E said \in Prompts, lexemes \in Lexemes, allowed \in AllowedByPlan :
       work' = [work EXCEPT ![s] =
         [TurnStarts(work[s], said, lexemes) EXCEPT !.state = "PLAN_ACCEPTED",
                                                    !.allowed = allowed]]
  /\ UNCHANGED <<inbox, takes, stuck, dropped>>

\* Bound: only while there are verbs left.
BudgetBlocks(s) ==
  /\ work[s].phase = "idle"
  /\ work[s].verbs < MaxVerbs[s]
  /\ work[s].state \in {"PLANNING", "PLAN_ACCEPTED"}
  /\ \E said \in Prompts, lexemes \in Lexemes :
       work' = [work EXCEPT ![s] =
         [TurnStarts(work[s], said, lexemes) EXCEPT !.state = "BLOCKED_BUDGET"]]
  /\ UNCHANGED <<inbox, takes, stuck, dropped>>

WorkInitNext ==
  \E s \in Sessions :
    \/ BeginWork(s) \/ QueryMemories(s) \/ AutoFetchJira(s) \/ AutoFetchSwagger(s)
    \/ OpenWork(s) \/ WorkFails(s)
    \/ BeginFetch(s) \/ FetchJira(s) \/ FetchSwagger(s) \/ FetchFails(s)
    \/ PlanAccepted(s) \/ BudgetBlocks(s)

WorkInitSpec == WorkInitInit /\ [][WorkInitNext]_workInitVars

-----------------------------------------------------------------------------
(* What may go wrong with what a session is told.                          *)

\* What people drop into the inbox reaches exactly one session, and is an
\* artifact of it once: a content comes twice only if it was dropped twice or a
\* file of it could not be renamed, a session never has it twice however often
\* it is initialised, and what was renamed is with a session unless that one's
\* first turn failed (ingestInboxFiles and its caller).
InboxOnce ==
  /\ \A f \in InboxFiles \ stuck : Cardinality({s \in Sessions : <<s, f>> \in takes}) <= 1
  /\ \A s \in Sessions :
       Cardinality({i \in DOMAIN work[s].artifacts :
                      work[s].artifacts[i].content # NoContent})
         = Cardinality(ContentsOf(work[s].artifacts))
  /\ \A f \in InboxFiles \ inbox :
       \/ \E s \in Sessions : ContentOf[f] \in ContentsOf(work[s].artifacts)
       \/ ContentOf[f] \in dropped

\* "Strategy selection is a pure function of this vector": the strategy of a
\* response is the one that the decision table gives for the signature beside it
\* (domains/strategy/contextSignature.ts, line 6).
EnvelopeOfSignature ==
  \A s \in Sessions :
    work[s].phase = "idle" /\ work[s].envelope.strategy # "none" =>
      work[s].envelope.strategy = SelectStrategyFromSignature(work[s].envelope.signature)

\* "`strategy_signal` memories override ContextSignature features": an active
\* memory of an anchor that the files of the session's pack lie in has its say in
\* the signature (.ai/mcp-controller/specs/architecture_v2.md, section 4).
SignalsOverride ==
  \A s \in Sessions :
    work[s].phase = "idle" /\ work[s].strategy # "none" =>
      \A i \in DOMAIN Signals :
        /\ Signals[i].flag \in Flags
        /\ \E f \in work[s].files : Signals[i].anchor \in AnchorsOf[f]
        /\ \A j \in DOMAIN Signals : Signals[j].flag = Signals[i].flag => j = i
        => (Signals[i].value # "false") = (Signals[i].flag \in work[s].signature.flags)
=============================================================================
