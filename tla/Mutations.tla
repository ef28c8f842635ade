------------------------------ MODULE Mutations ------------------------------
(***************************************************************************)
(* The mutations of one work scope (runSessionId:workId): the collision    *)
(* guard all agents of the scope share, and what the verbs do after it let *)
(* them through.  A patch reads its file, waits, and writes it back, so    *)
(* what keeps patches from each other is the guard alone.                  *)
(*                                                                         *)
(* The checks before the guard (run state, context pack, scope allowlist)  *)
(* only refuse, without effect; Names are the spellings that pass them.    *)
(* The four classes of effects are disjoint here, as the guard compares    *)
(* them separately.  The reservations are a set: the guard's list may hold *)
(* an entry several times.  One life of the process is modelled.           *)
(***************************************************************************)
EXTENDS Naturals

CONSTANTS
  Slots,          \* turns that may be in flight
  Plans, Nodes,   \* plans of the sessions of the scope, and their nodes
  Kind,           \* Kind[p][n]: kind of a node of a plan
  Target,         \* Target[p][n]: targetFile of a change node
  TargetSymbols,  \* TargetSymbols[p][n]: targetSymbols of a change node
  Gates,          \* Gates[p]: commit gates of the side effects of a plan
  Names, Files,   \* spellings of files, and files
  FileOf,         \* FileOf[name]: the file a spelling resolves to
  Symbols, GraphMutations, Externals,  \* the other classes of effects
  Trimmed,        \* Trimmed[t]: t without white space around it
  Declared,       \* bound: the effect sets a request may declare
  MaxTurns        \* bound on the number of patches that begin

Effects == Names \cup Symbols \cup GraphMutations \cup Externals

Operations == [verb : {"patch", "code_run", "side_effect"}, node : Nodes]

ASSUME MutationsAssumption ==
  /\ FileOf \in [Names -> Files]
  /\ Trimmed \in [Effects -> Effects]
  /\ Declared \subseteq SUBSET Effects
  /\ MaxTurns \in Nat
  /\ Target \in [Plans -> [Nodes -> Names]]
  /\ TargetSymbols \in [Plans -> [Nodes -> SUBSET Symbols]]
  /\ Gates \in [Plans -> SUBSET Externals]

VARIABLES
  reservations,  \* of the collision guard
  turn,          \* the mutation in each slot
  file,          \* what is in the files
  turns          \* number of patches that began

vars == <<reservations, turn, file, turns>>

Reservations == [operation : Operations, effects : SUBSET Effects]

\* An edit is known by the turn that made it.
Edits == [turn : 1 .. MaxTurns, operation : Operations, name : Names]

\* A file is blank between truncation and write; "garbled" holds parts of two
\* texts.
Texts == [state : {"text", "blank", "garbled"}, edits : SUBSET Edits]

Blank == [state |-> "blank", edits |-> {}]

Garbled == [state |-> "garbled", edits |-> {}]

Phases == {"idle", "reading", "writing", "truncated", "running", "reporting"}

\* A mutation in flight: its operation and effects; for a patch the name it
\* was given, its number, and the text it will write.
Turns ==
  [phase : Phases, operation : Operations, effects : SUBSET Effects,
   name : Names, number : 0 .. MaxTurns, after : Texts]

Idle(s) == turn[s].phase = "idle"

TypeOK ==
  /\ reservations \subseteq Reservations
  /\ \A s \in Slots : Idle(s) \/ turn[s] \in Turns
  /\ DOMAIN turn = Slots
  /\ file \in [Files -> Texts]
  /\ turns \in 0 .. MaxTurns

Nothing == [phase |-> "idle"]

Init ==
  /\ reservations = {}
  /\ turn = [s \in Slots |-> Nothing]
  /\ file = [f \in Files |-> [state |-> "text", edits |-> {}]]
  /\ turns = 0

-----------------------------------------------------------------------------
(* The collision guard.                                                    *)

\* Mutant: only files are compared.
CollidesFilesOnly(operation, effects) ==
  \E r \in reservations :
    r.operation # operation /\ r.effects \cap effects \cap Names # {}

\* A reservation of another operation has an effect in common; what is
\* reserved was trimmed, what is asked for is compared as it was given.
Collides(operation, effects) ==
  \E r \in reservations : r.operation # operation /\ r.effects \cap effects # {}

\* External effects need a commit gate of the plan.
Gated(p, effects) == effects \cap Externals \subseteq Gates[p]

\* Mutant: the operation runs without a reservation.
AssertOnly(p, operation, effects) ==
  /\ Gated(p, effects)
  /\ ~Collides(operation, effects)
  /\ UNCHANGED reservations

\* Nothing ever takes a reservation back.
AssertAndReserve(p, operation, effects) ==
  /\ Gated(p, effects)
  /\ ~Collides(operation, effects)
  /\ reservations' = reservations \cup
       {[operation |-> operation, effects |-> {Trimmed[t] : t \in effects}]}

Operation(verb, n) == [verb |-> verb, node |-> n]

Begin(s, phase, operation, effects, name, number) ==
  turn' = [turn EXCEPT ![s] =
    [phase |-> phase, operation |-> operation, effects |-> effects,
     name |-> name, number |-> number, after |-> Blank]]

-----------------------------------------------------------------------------
(* The handlers.                                                           *)

\* The request of a patch passed the guard and is what its node says.
HandlePatchApply(s, p, n, name, symbols) ==
  /\ Idle(s)
  /\ Kind[p][n] = "change"
  /\ turns < MaxTurns
  /\ AssertAndReserve(p, Operation("patch", n), {name} \cup symbols)
  /\ name = Target[p][n] /\ symbols \subseteq TargetSymbols[p][n]
  /\ Begin(s, "reading", Operation("patch", n), {name} \cup symbols, name, turns + 1)
  /\ turns' = turns + 1
  /\ UNCHANGED file

\* Whether the request names the file and the symbols of its node is only
\* checked after the reservation.
RefusePatch(s, p, n, name, symbols) ==
  /\ Idle(s)
  /\ Kind[p][n] = "change"
  /\ AssertAndReserve(p, Operation("patch", n), {name} \cup symbols)
  /\ name # Target[p][n] \/ ~(symbols \subseteq TargetSymbols[p][n])
  /\ UNCHANGED <<turn, file, turns>>

HandleCodeRun(s, p, n, effects) ==
  /\ Idle(s)
  /\ Kind[p][n] \in {"change", "validate"}
  /\ AssertAndReserve(p, Operation("code_run", n), effects)
  /\ Begin(s, "running", Operation("code_run", n), effects, Target[p][n], 0)
  /\ UNCHANGED <<file, turns>>

HandleSideEffect(s, p, n, effects) ==
  /\ Idle(s)
  /\ Kind[p][n] = "side_effect"
  /\ AssertAndReserve(p, Operation("side_effect", n), effects)
  /\ Begin(s, "reporting", Operation("side_effect", n), effects, Target[p][n], 0)
  /\ UNCHANGED <<file, turns>>

-----------------------------------------------------------------------------
(* applyStructuredPatch and what follows it.                               *)

FileIn(s) == FileOf[turn[s].name]

EditOf(s) ==
  [turn |-> turn[s].number, operation |-> turn[s].operation, name |-> turn[s].name]

Goto(s, phase) == turn' = [turn EXCEPT ![s].phase = phase]

\* The file is read and the patch applies to its text; it does not apply to a
\* file another writer has truncated.
ReadFile(s) ==
  /\ turn[s].phase = "reading"
  /\ file[FileIn(s)].state # "blank"
  /\ turn' = [turn EXCEPT ![s].phase = "writing",
               ![s].after = [file[FileIn(s)] EXCEPT !.edits = @ \cup {EditOf(s)}]]
  /\ UNCHANGED <<reservations, file, turns>>

\* The text to find does not occur: nothing is written, and the patch counts.
ReadNoMatch(s) ==
  /\ turn[s].phase = "reading"
  /\ Goto(s, "reporting")
  /\ UNCHANGED <<reservations, file, turns>>

\* writeFile opens the file, which truncates it ...
Truncate(s) ==
  /\ turn[s].phase = "writing"
  /\ file' = [file EXCEPT ![FileIn(s)] = Blank]
  /\ Goto(s, "truncated")
  /\ UNCHANGED <<reservations, turns>>

\* ... and writes the text from its beginning.  If another writer wrote since,
\* what that text is longer by remains.
WriteFile(s) ==
  /\ turn[s].phase = "truncated"
  /\ \E text \in {turn[s].after, Garbled} :
       /\ text = Garbled => file[FileIn(s)].state # "blank"
       /\ file' = [file EXCEPT ![FileIn(s)] = text]
  /\ Goto(s, "reporting")
  /\ UNCHANGED <<reservations, turns>>

CodeRunSucceeds(s) ==
  /\ turn[s].phase = "running"
  /\ Goto(s, "reporting")
  /\ UNCHANGED <<reservations, file, turns>>

\* The artifacts are written and the turn ends.
Report(s) ==
  /\ turn[s].phase = "reporting"
  /\ turn' = [turn EXCEPT ![s] = Nothing]
  /\ UNCHANGED <<reservations, file, turns>>

\* Mutant: a failed mutation stays where it was.
FailStuck(s) ==
  /\ ~Idle(s)
  /\ Goto(s, "failed")
  /\ UNCHANGED <<reservations, file, turns>>

\* The code run fails, or a file cannot be read or written; the reservation
\* stays.
Fail(s) ==
  /\ ~Idle(s)
  /\ turn' = [turn EXCEPT ![s] = Nothing]
  /\ UNCHANGED <<reservations, file, turns>>

-----------------------------------------------------------------------------
Request(s, p, n) ==
  \E effects \in Declared :
    \/ \E name \in Names :
         \/ HandlePatchApply(s, p, n, name, effects \cap Symbols)
         \/ RefusePatch(s, p, n, name, effects \cap Symbols)
    \/ HandleCodeRun(s, p, n, effects \cap (GraphMutations \cup Externals))
    \/ HandleSideEffect(s, p, n, effects)

Continue(s) ==
  \/ ReadFile(s) \/ ReadNoMatch(s) \/ Truncate(s) \/ WriteFile(s)
  \/ CodeRunSucceeds(s) \/ Report(s) \/ Fail(s)

Next ==
  \E s \in Slots : (\E p \in Plans, n \in Nodes : Request(s, p, n)) \/ Continue(s)

Spec == Init /\ [][Next]_vars

-----------------------------------------------------------------------------
(* Properties.                                                             *)

\* Effects that the guard compares as it reserved them.
Clean == {t \in Effects : Trimmed[t] = t}

\* Two mutations of different operations that run at the same time have no
\* effect in common, unless it was declared with white space around it
\* ("Collisions reject before execution").
RunningDisjoint ==
  \A s, u \in Slots :
    (~Idle(s) /\ ~Idle(u) /\ turn[s].operation # turn[u].operation)
      => turn[s].effects \cap turn[u].effects \cap Clean = {}

\* An edit only disappears from a file when a mutation writes that had read it
\* (and may fail before it has written all), or one of the same operation, or
\* one that spells the file differently: the guard keeps every other patch
\* from the file between its read and its write.
EditsSurvive ==
  [][\A f \in Files : \A e \in file[f].edits \ file'[f].edits :
       \E s \in Slots :
         /\ turn[s].phase \in {"writing", "truncated"} /\ FileIn(s) = f
         /\ turn'[s].phase # turn[s].phase
         /\ \/ e \in turn[s].after.edits
            \/ e.operation = turn[s].operation
            \/ e.name # turn[s].name
            \/ turn[s].name \notin Clean]_vars

\* When no mutation runs, no change node of a plan is refused because of a
\* collision ("per-session file/symbol reservation during mutations").
IdleScopeBlocksNothing ==
  (\A s \in Slots : Idle(s)) =>
    \A p \in Plans, n \in Nodes :
      Kind[p][n] = "change"
        => ~Collides(Operation("patch", n), {Target[p][n]} \cup TargetSymbols[p][n])
=============================================================================
