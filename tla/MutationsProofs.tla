--------------------------- MODULE MutationsProofs ---------------------------
(***************************************************************************)
(* For any number of turns, plans, nodes, files and effects: mutations of  *)
(* different operations that run at the same time are disjoint, and an     *)
(* edit is only lost to its own operation or to another spelling.          *)
(***************************************************************************)
EXTENDS Mutations, TLAPS

-----------------------------------------------------------------------------
(* Types.                                                                  *)

\* A patch that is about to read has a number.
Numbered == \A s \in Slots : turn[s].phase = "reading" => turn[s].number # 0

TypeInv == TypeOK /\ Numbered

\* Setting one slot to a turn of the right type keeps the types of all.
LEMMA SetTurn ==
  ASSUME TypeInv, NEW s \in Slots, NEW t, turn' = [turn EXCEPT ![s] = t],
         t \in Turns \/ t = Nothing, t.phase = "reading" => t.number # 0
  PROVE  /\ DOMAIN turn' = Slots
         /\ \A u \in Slots : Idle(u)' \/ turn'[u] \in Turns
         /\ Numbered'
<1>1. \A u \in Slots : turn'[u] = IF u = s THEN t ELSE turn[u]
  BY DEF TypeInv, TypeOK
<1>2. t = Nothing => t.phase = "idle"
  BY DEF Nothing
<1>3. \A u \in Slots : Idle(u)' \/ turn'[u] \in Turns
  BY <1>1, <1>2 DEF TypeInv, TypeOK, Idle
<1>4. Numbered'
  BY <1>1 DEF TypeInv, Numbered
<1>. QED BY <1>3, <1>4 DEF TypeInv, TypeOK

\* A new phase, other than "reading", is a turn of the right type.
LEMMA GotoType ==
  ASSUME TypeInv, NEW s \in Slots, ~Idle(s),
         NEW ph \in Phases \ {"reading"}, Goto(s, ph)
  PROVE  /\ DOMAIN turn' = Slots
         /\ \A u \in Slots : Idle(u)' \/ turn'[u] \in Turns
         /\ Numbered'
<1>. DEFINE t == [turn[s] EXCEPT !.phase = ph]
<1>1. turn[s] \in Turns
  BY DEF TypeInv, TypeOK
<1>2. t \in Turns /\ t.phase # "reading"
  BY <1>1 DEF Turns, Phases
<1>3. turn' = [turn EXCEPT ![s] = t]
  BY DEF Goto
<1>. HIDE DEF t
<1>. QED BY <1>2, <1>3, SetTurn

LEMMA ReserveType ==
  ASSUME TypeInv, NEW p \in Plans, NEW o \in Operations, NEW e \in SUBSET Effects,
         AssertAndReserve(p, o, e)
  PROVE  reservations' \subseteq Reservations
BY MutationsAssumption DEF TypeInv, TypeOK, AssertAndReserve, Reservations

LEMMA BeginType ==
  ASSUME TypeInv, NEW s \in Slots, NEW ph \in Phases, NEW o \in Operations,
         NEW e \in SUBSET Effects, NEW name \in Names, NEW number \in 0 .. MaxTurns,
         ph = "reading" => number # 0, Begin(s, ph, o, e, name, number)
  PROVE  /\ DOMAIN turn' = Slots
         /\ \A u \in Slots : Idle(u)' \/ turn'[u] \in Turns
         /\ Numbered'
<1>. DEFINE t == [phase |-> ph, operation |-> o, effects |-> e, name |-> name,
                  number |-> number, after |-> Blank]
<1>1. Blank \in Texts BY DEF Blank, Texts
<1>2. t \in Turns /\ (t.phase = "reading" => t.number # 0)
  BY <1>1 DEF Turns
<1>3. turn' = [turn EXCEPT ![s] = t]
  BY DEF Begin
<1>. HIDE DEF t
<1>. QED BY <1>2, <1>3, SetTurn

\* What a request of slot s for node n of plan p may be.
LEMMA RequestForms ==
  ASSUME NEW s \in Slots, NEW p \in Plans, NEW n \in Nodes, Request(s, p, n)
  PROVE  \/ \E name \in Names, symbols \in SUBSET Symbols :
              \/ HandlePatchApply(s, p, n, name, symbols)
              \/ RefusePatch(s, p, n, name, symbols)
         \/ \E effects \in SUBSET Effects :
              HandleCodeRun(s, p, n, effects) \/ HandleSideEffect(s, p, n, effects)
BY MutationsAssumption DEF Request

LEMMA OperationType ==
  ASSUME NEW n \in Nodes
  PROVE  /\ Operation("patch", n) \in Operations
         /\ Operation("code_run", n) \in Operations
         /\ Operation("side_effect", n) \in Operations
BY DEF Operation, Operations

LEMMA RequestType ==
  ASSUME TypeInv, NEW s \in Slots, NEW p \in Plans, NEW n \in Nodes, Request(s, p, n)
  PROVE  TypeInv'
<1>1. CASE \E name \in Names, symbols \in SUBSET Symbols :
             HandlePatchApply(s, p, n, name, symbols)
  <2>1. PICK name \in Names, symbols \in SUBSET Symbols :
          HandlePatchApply(s, p, n, name, symbols)
    BY <1>1
  <2>2. {name} \cup symbols \in SUBSET Effects
    BY DEF Effects
  <2>3. reservations' \subseteq Reservations
    BY <2>1, <2>2, OperationType, ReserveType DEF HandlePatchApply
  <2>4. turns \in Nat /\ turns < MaxTurns /\ turns' = turns + 1
    BY <2>1, MutationsAssumption DEF HandlePatchApply, TypeInv, TypeOK
  <2>5. turns' \in 0 .. MaxTurns /\ turns + 1 # 0
    BY <2>4, MutationsAssumption
  <2>6. /\ DOMAIN turn' = Slots /\ Numbered'
        /\ \A u \in Slots : Idle(u)' \/ turn'[u] \in Turns
    BY <2>1, <2>2, <2>4, <2>5, OperationType, BeginType DEF HandlePatchApply, Phases
  <2>. QED BY <2>1, <2>3, <2>5, <2>6 DEF HandlePatchApply, TypeInv, TypeOK
<1>2. CASE \E name \in Names, symbols \in SUBSET Symbols :
             RefusePatch(s, p, n, name, symbols)
  <2>1. PICK name \in Names, symbols \in SUBSET Symbols :
          RefusePatch(s, p, n, name, symbols)
    BY <1>2
  <2>2. {name} \cup symbols \in SUBSET Effects
    BY DEF Effects
  <2>3. reservations' \subseteq Reservations
    BY <2>1, <2>2, OperationType, ReserveType DEF RefusePatch
  <2>. QED BY <2>1, <2>3 DEF RefusePatch, TypeInv, TypeOK, Numbered, Idle
<1>3. CASE \E effects \in SUBSET Effects :
             HandleCodeRun(s, p, n, effects) \/ HandleSideEffect(s, p, n, effects)
  <2>1. PICK effects \in SUBSET Effects :
          HandleCodeRun(s, p, n, effects) \/ HandleSideEffect(s, p, n, effects)
    BY <1>3
  <2>2. reservations' \subseteq Reservations
    BY <2>1, OperationType, ReserveType DEF HandleCodeRun, HandleSideEffect
  <2>3. Target[p][n] \in Names /\ 0 \in 0 .. MaxTurns
    BY MutationsAssumption
  <2>4. /\ DOMAIN turn' = Slots /\ Numbered'
        /\ \A u \in Slots : Idle(u)' \/ turn'[u] \in Turns
    <3>1. CASE HandleCodeRun(s, p, n, effects)
      BY <3>1, <2>3, OperationType, BeginType DEF HandleCodeRun, Phases
    <3>2. CASE HandleSideEffect(s, p, n, effects)
      BY <3>2, <2>3, OperationType, BeginType DEF HandleSideEffect, Phases
    <3>. QED BY <2>1, <3>1, <3>2
  <2>. QED BY <2>1, <2>2, <2>4 DEF HandleCodeRun, HandleSideEffect, TypeInv, TypeOK
<1>. QED BY <1>1, <1>2, <1>3, RequestForms

\* Slot s makes a step of the mutation it holds.
LEMMA ContinueType ==
  ASSUME TypeInv, NEW s \in Slots, Continue(s)
  PROVE  TypeInv'
<1>. DEFINE TurnsTyped == /\ DOMAIN turn' = Slots /\ Numbered'
                          /\ \A u \in Slots : Idle(u)' \/ turn'[u] \in Turns
<1>1. ASSUME NEW f, f \in Files, NEW text \in Texts, file' = [file EXCEPT ![f] = text]
      PROVE  file' \in [Files -> Texts]
  BY <1>1 DEF TypeInv, TypeOK
<1>2. ~Idle(s) => turn[s] \in Turns /\ FileIn(s) \in Files
  BY MutationsAssumption DEF TypeInv, TypeOK, FileIn, Turns
<1>3. CASE ReadFile(s)
  <2>1. ~Idle(s) /\ turn[s] \in Turns /\ FileIn(s) \in Files
    BY <1>2, <1>3 DEF ReadFile, Idle
  <2>. DEFINE after == [file[FileIn(s)] EXCEPT !.edits = @ \cup {EditOf(s)}]
              t == [turn[s] EXCEPT !.phase = "writing", !.after = after]
  <2>2. turn[s].number \in 1 .. MaxTurns
    BY <1>3, <2>1, MutationsAssumption DEF ReadFile, TypeInv, Numbered, Turns
  <2>3. EditOf(s) \in Edits
    BY <2>1, <2>2 DEF EditOf, Edits, Turns
  <2>4. file[FileIn(s)] \in Texts
    BY <2>1 DEF TypeInv, TypeOK
  <2>5. after \in Texts
    BY <2>3, <2>4 DEF Texts
  <2>. HIDE DEF after
  <2>6. t \in Turns /\ t.phase # "reading"
    BY <2>1, <2>5 DEF Turns, Phases
  <2>7. turn' = [turn EXCEPT ![s] = t]
    BY <1>3, <2>1 DEF ReadFile, after, TypeInv, TypeOK
  <2>. HIDE DEF t
  <2>8. TurnsTyped
    BY <2>6, <2>7, SetTurn
  <2>. QED BY <1>3, <2>8 DEF ReadFile, TypeInv, TypeOK
<1>4. CASE ReadNoMatch(s) \/ CodeRunSucceeds(s)
  <2>1. ~Idle(s) /\ Goto(s, "reporting")
    BY <1>4 DEF ReadNoMatch, CodeRunSucceeds, Idle
  <2>2. TurnsTyped
    BY <2>1, GotoType DEF Phases
  <2>. QED BY <1>4, <2>2 DEF ReadNoMatch, CodeRunSucceeds, TypeInv, TypeOK
<1>5. CASE Truncate(s)
  <2>1. ~Idle(s) /\ Goto(s, "truncated") /\ Blank \in Texts
    BY <1>5 DEF Truncate, Idle, Blank, Texts
  <2>2. TurnsTyped
    BY <2>1, GotoType DEF Phases
  <2>3. file' \in [Files -> Texts]
    BY <1>1, <1>2, <1>5, <2>1 DEF Truncate
  <2>. QED BY <1>5, <2>2, <2>3 DEF Truncate, TypeInv, TypeOK
<1>6. CASE WriteFile(s)
  <2>1. ~Idle(s) /\ Goto(s, "reporting") /\ Garbled \in Texts
    BY <1>6 DEF WriteFile, Idle, Garbled, Texts
  <2>2. TurnsTyped
    BY <2>1, GotoType DEF Phases
  <2>3. turn[s].after \in Texts
    BY <1>2, <2>1 DEF Turns
  <2>4. file' \in [Files -> Texts]
    BY <1>1, <1>2, <1>6, <2>1, <2>3 DEF WriteFile
  <2>. QED BY <1>6, <2>2, <2>4 DEF WriteFile, TypeInv, TypeOK
<1>7. CASE Report(s) \/ Fail(s)
  <2>1. turn' = [turn EXCEPT ![s] = Nothing] /\ Nothing.phase # "reading"
    BY <1>7 DEF Report, Fail, Nothing
  <2>2. TurnsTyped
    BY <2>1, SetTurn
  <2>. QED BY <1>7, <2>2 DEF Report, Fail, TypeInv, TypeOK
<1>. QED BY <1>3, <1>4, <1>5, <1>6, <1>7 DEF Continue

LEMMA TypeInitially == Init => TypeInv
BY MutationsAssumption DEF Init, TypeInv, TypeOK, Numbered, Idle, Nothing, Texts

LEMMA TypeStep == TypeInv /\ [Next]_vars => TypeInv'
<1>. SUFFICES ASSUME TypeInv, [Next]_vars PROVE TypeInv'
  OBVIOUS
<1>1. CASE Next
  BY <1>1, RequestType, ContinueType DEF Next
<1>2. CASE UNCHANGED vars
  BY <1>2 DEF vars, TypeInv, TypeOK, Numbered, Idle
<1>. QED BY <1>1, <1>2

\* The reservations, the mutations in flight and the files keep their types,
\* for any number of each.
THEOREM MutationsTyped == Spec => []TypeOK
<1>1. TypeInv => TypeOK BY DEF TypeInv
<1>. QED BY <1>1, TypeInitially, TypeStep, PTL DEF Spec

-----------------------------------------------------------------------------
(* Exclusion.                                                              *)

\* What a running mutation declared is reserved under its operation, trimmed.
Held ==
  \A s \in Slots :
    ~Idle(s) => [operation |-> turn[s].operation,
                 effects |-> {Trimmed[t] : t \in turn[s].effects}] \in reservations

ExclusionInv == TypeInv /\ Held /\ RunningDisjoint

\* A mutation that goes on, or ends, holds what it held.
LEMMA ContinueKeeps ==
  ASSUME TypeInv, NEW s \in Slots, Continue(s)
  PROVE  /\ reservations' = reservations
         /\ \A u \in Slots : ~Idle(u)' =>
              /\ ~Idle(u)
              /\ turn'[u].operation = turn[u].operation
              /\ turn'[u].effects = turn[u].effects
              /\ turn'[u].name = turn[u].name
              /\ turn'[u].number = turn[u].number
<1>1. \A u \in Slots : u # s => turn'[u] = turn[u]
  BY DEF Continue, ReadFile, ReadNoMatch, Truncate, WriteFile, CodeRunSucceeds,
         Report, Fail, Goto, TypeInv, TypeOK
<1>2. ~Idle(s)
  BY DEF Continue, ReadFile, ReadNoMatch, Truncate, WriteFile, CodeRunSucceeds,
         Report, Fail, Idle
<1>3. turn[s] \in Turns
  BY <1>2 DEF TypeInv, TypeOK
<1>4. ~Idle(s)' =>
        /\ turn'[s].operation = turn[s].operation
        /\ turn'[s].effects = turn[s].effects
        /\ turn'[s].name = turn[s].name
        /\ turn'[s].number = turn[s].number
  <2>1. CASE Report(s) \/ Fail(s)
    BY <2>1 DEF Report, Fail, Idle, Nothing, TypeInv, TypeOK
  <2>2. CASE ReadFile(s)
    BY <2>2, <1>3 DEF ReadFile, TypeInv, TypeOK, Turns
  <2>3. ASSUME NEW ph, Goto(s, ph)
        PROVE  /\ turn'[s].operation = turn[s].operation
               /\ turn'[s].effects = turn[s].effects
               /\ turn'[s].name = turn[s].name
               /\ turn'[s].number = turn[s].number
    BY <2>3, <1>3 DEF Goto, TypeInv, TypeOK, Turns
  <2>4. CASE ReadNoMatch(s) \/ Truncate(s) \/ WriteFile(s) \/ CodeRunSucceeds(s)
    BY <2>3, <2>4 DEF ReadNoMatch, Truncate, WriteFile, CodeRunSucceeds
  <2>. QED BY <2>1, <2>2, <2>4 DEF Continue
<1>5. reservations' = reservations
  BY DEF Continue, ReadFile, ReadNoMatch, Truncate, WriteFile, CodeRunSucceeds,
         Report, Fail
<1>6. \A u \in Slots : u # s => (Idle(u)' <=> Idle(u))
  BY <1>1 DEF Idle
<1>. QED BY <1>1, <1>2, <1>4, <1>5, <1>6

\* A mutation that begins in slot s is disjoint from those that run.
LEMMA BeginExcludes ==
  ASSUME ExclusionInv, NEW s \in Slots, NEW p \in Plans, NEW o \in Operations,
         NEW e \in SUBSET Effects, AssertAndReserve(p, o, e),
         NEW ph \in Phases \ {"idle"}, NEW name \in Names,
         NEW number \in 0 .. MaxTurns, Begin(s, ph, o, e, name, number)
  PROVE  Held' /\ RunningDisjoint'
<1>1. /\ turn'[s].operation = o /\ turn'[s].effects = e
      /\ \A u \in Slots : u # s => turn'[u] = turn[u]
  BY DEF Begin, ExclusionInv, TypeInv, TypeOK
<1>2. /\ reservations \subseteq reservations'
      /\ [operation |-> o, effects |-> {Trimmed[t] : t \in e}] \in reservations'
  BY DEF AssertAndReserve
<1>3. Held'
  BY <1>1, <1>2 DEF Held, ExclusionInv, Idle
<1>4. ASSUME NEW u \in Slots, u # s, ~Idle(u), turn[u].operation # o
      PROVE  turn[u].effects \cap e \cap Clean = {}
  <2>. DEFINE r == [operation |-> turn[u].operation,
                    effects |-> {Trimmed[t] : t \in turn[u].effects}]
  <2>1. r \in reservations
    BY <1>4 DEF ExclusionInv, Held
  <2>2. r.effects \cap e = {}
    BY <1>4, <2>1 DEF AssertAndReserve, Collides
  <2>3. turn[u].effects \cap Clean \subseteq r.effects
    BY DEF Clean
  <2>. QED BY <2>2, <2>3
<1>5. RunningDisjoint'
  <2>. SUFFICES ASSUME NEW u \in Slots, NEW v \in Slots, ~Idle(u)', ~Idle(v)',
                       turn'[u].operation # turn'[v].operation
                PROVE  turn'[u].effects \cap turn'[v].effects \cap Clean = {}
    BY DEF RunningDisjoint, Clean
  <2>1. CASE u # s /\ v # s
    BY <2>1, <1>1 DEF ExclusionInv, RunningDisjoint, Idle
  <2>2. CASE u = s /\ v # s
    BY <2>2, <1>1, <1>4 DEF Idle
  <2>3. CASE v = s /\ u # s
    BY <2>3, <1>1, <1>4 DEF Idle
  <2>. QED BY <2>1, <2>2, <2>3
<1>. QED BY <1>3, <1>5

LEMMA ExclusionStep == ExclusionInv /\ [Next]_vars => ExclusionInv'
<1>. SUFFICES ASSUME ExclusionInv, [Next]_vars PROVE ExclusionInv'
  OBVIOUS
<1>1. TypeInv /\ TypeInv'
  BY TypeStep DEF ExclusionInv
<1>2. ASSUME NEW s \in Slots, Continue(s) PROVE Held' /\ RunningDisjoint'
  BY <1>1, <1>2, ContinueKeeps DEF ExclusionInv, Held, RunningDisjoint, Clean
<1>3. ASSUME NEW s \in Slots, NEW p \in Plans, NEW n \in Nodes, Request(s, p, n)
      PROVE  Held' /\ RunningDisjoint'
  <2>1. ASSUME NEW name \in Names, NEW symbols \in SUBSET Symbols,
               HandlePatchApply(s, p, n, name, symbols)
        PROVE  Held' /\ RunningDisjoint'
    <3>1. {name} \cup symbols \in SUBSET Effects /\ "reading" \in Phases \ {"idle"}
      BY DEF Effects, Phases
    <3>2. turns + 1 \in 0 .. MaxTurns
      BY <2>1, <1>1, MutationsAssumption DEF HandlePatchApply, TypeInv, TypeOK
    <3>. QED BY <2>1, <3>1, <3>2, OperationType, BeginExcludes DEF HandlePatchApply
  <2>2. ASSUME NEW name \in Names, NEW symbols \in SUBSET Symbols,
               RefusePatch(s, p, n, name, symbols)
        PROVE  Held' /\ RunningDisjoint'
    BY <2>2 DEF RefusePatch, AssertAndReserve, ExclusionInv, Held, RunningDisjoint, Idle, Clean
  <2>3. ASSUME NEW effects \in SUBSET Effects,
               HandleCodeRun(s, p, n, effects) \/ HandleSideEffect(s, p, n, effects)
        PROVE  Held' /\ RunningDisjoint'
    <3>1. /\ Target[p][n] \in Names /\ 0 \in 0 .. MaxTurns
          /\ "running" \in Phases \ {"idle"} /\ "reporting" \in Phases \ {"idle"}
      BY MutationsAssumption DEF Phases
    <3>2. CASE HandleCodeRun(s, p, n, effects)
      BY <3>1, <3>2, OperationType, BeginExcludes DEF HandleCodeRun
    <3>3. CASE HandleSideEffect(s, p, n, effects)
      BY <3>1, <3>3, OperationType, BeginExcludes DEF HandleSideEffect
    <3>. QED BY <2>3, <3>2, <3>3
  <2>. QED BY <1>3, <2>1, <2>2, <2>3, RequestForms
<1>4. CASE UNCHANGED vars
  <2>1. turn' = turn /\ reservations' = reservations
    BY <1>4 DEF vars
  <2>2. Held /\ RunningDisjoint
    BY DEF ExclusionInv
  <2>3. Held'
    BY <2>1, <2>2 DEF Held, Idle
  <2>4. RunningDisjoint'
    BY <2>1, <2>2 DEF RunningDisjoint, Idle, Clean
  <2>. QED BY <1>1, <2>3, <2>4 DEF ExclusionInv
<1>. QED BY <1>1, <1>2, <1>3, <1>4 DEF Next, ExclusionInv

LEMMA ExclusionInitially == Init => ExclusionInv
<1>. SUFFICES ASSUME Init PROVE ExclusionInv
  OBVIOUS
<1>1. \A s \in Slots : Idle(s)
  BY DEF Init, Idle, Nothing
<1>. QED BY <1>1, TypeInitially DEF ExclusionInv, Held, RunningDisjoint

\* However requests interleave, mutations of different operations that run at
\* the same time have no effect in common (white space aside).
THEOREM OperationsDisjoint == Spec => []RunningDisjoint
<1>1. ExclusionInv => RunningDisjoint BY DEF ExclusionInv
<1>. QED BY <1>1, ExclusionInitially, ExclusionStep, PTL DEF Spec

-----------------------------------------------------------------------------
(* Edits.                                                                  *)

Patching(s) == turn[s].phase \in {"reading", "writing", "truncated"}

\* Edits that are in a file or that a mutation is about to write.
InPlay(e) ==
  \/ \E f \in Files : e \in file[f].edits
  \/ \E s \in Slots : ~Idle(s) /\ e \in turn[s].after.edits

\* The file of an edit is reserved under the operation that made it.
EditHeld(e) ==
  \E r \in reservations : r.operation = e.operation /\ Trimmed[e.name] \in r.effects

\* A patch declares the file it was given, and the edits of a file by that
\* spelling are of its own operation.
OneEditor ==
  \A s \in Slots : Patching(s) =>
    /\ turn[s].name \in turn[s].effects
    /\ \A e : InPlay(e) /\ e.name = turn[s].name /\ e.name \in Clean
                => e.operation = turn[s].operation

EditInv == ExclusionInv /\ (\A e : InPlay(e) => EditHeld(e)) /\ OneEditor

\* A step after which no edit is in play that was not before, and every patch
\* in flight is one that was, keeps the invariant.
LEMMA NothingNew ==
  ASSUME EditInv, reservations \subseteq reservations',
         \A e : InPlay(e)' => InPlay(e),
         \A u \in Slots : Patching(u)' =>
           /\ Patching(u)
           /\ turn'[u].name = turn[u].name
           /\ turn'[u].operation = turn[u].operation
           /\ turn'[u].effects = turn[u].effects
  PROVE  (\A e : InPlay(e) => EditHeld(e))' /\ OneEditor'
<1>1. ASSUME NEW e, InPlay(e)' PROVE EditHeld(e)'
  BY <1>1 DEF EditInv, EditHeld
<1>2. OneEditor'
  <2>. SUFFICES ASSUME NEW u \in Slots, Patching(u)'
       PROVE  /\ turn'[u].name \in turn'[u].effects
              /\ \A e : InPlay(e)' /\ e.name = turn'[u].name /\ e.name \in Clean
                          => e.operation = turn'[u].operation
    BY DEF OneEditor, Clean
  <2>. QED BY DEF EditInv, OneEditor
<1>. QED BY <1>1, <1>2

\* A turn begins in slot s that has read nothing yet.
LEMMA BeginInPlay ==
  ASSUME TypeInv, NEW s \in Slots, NEW ph, NEW o, NEW effects, NEW name, NEW number,
         Begin(s, ph, o, effects, name, number), file' = file, Idle(s)
  PROVE  /\ \A e : InPlay(e)' => InPlay(e)
         /\ \A u \in Slots : u # s => turn'[u] = turn[u]
         /\ turn'[s].phase = ph /\ turn'[s].operation = o
         /\ turn'[s].effects = effects /\ turn'[s].name = name
<1>1. /\ \A u \in Slots : u # s => turn'[u] = turn[u]
      /\ turn'[s] = [phase |-> ph, operation |-> o, effects |-> effects, name |-> name,
                     number |-> number, after |-> Blank]
  BY DEF Begin, TypeInv, TypeOK
<1>2. turn'[s].after.edits = {}
  BY <1>1 DEF Blank
<1>3. ASSUME NEW e, InPlay(e)' PROVE InPlay(e)
  BY <1>1, <1>2, <1>3 DEF InPlay, Idle
<1>. QED BY <1>1, <1>3

LEMMA RequestEdits ==
  ASSUME EditInv, NEW s \in Slots, NEW p \in Plans, NEW n \in Nodes, Request(s, p, n)
  PROVE  (\A e : InPlay(e) => EditHeld(e))' /\ OneEditor'
<1>0. TypeInv
  BY DEF EditInv, ExclusionInv
<1>1. ASSUME NEW name \in Names, NEW symbols \in SUBSET Symbols,
             HandlePatchApply(s, p, n, name, symbols)
      PROVE  (\A e : InPlay(e) => EditHeld(e))' /\ OneEditor'
  <2>. DEFINE o == Operation("patch", n)
              effects == {name} \cup symbols
  <2>1. /\ \A e : InPlay(e)' => InPlay(e)
        /\ \A u \in Slots : u # s => turn'[u] = turn[u]
        /\ turn'[s].operation = o /\ turn'[s].effects = effects /\ turn'[s].name = name
    BY <1>0, <1>1, BeginInPlay DEF HandlePatchApply
  <2>2. reservations \subseteq reservations' /\ ~Collides(o, effects)
    BY <1>1 DEF HandlePatchApply, AssertAndReserve
  <2>. HIDE DEF o, effects
  <2>3. ASSUME NEW e, InPlay(e)' PROVE EditHeld(e)'
    BY <2>1, <2>2, <2>3 DEF EditInv, EditHeld
  <2>4. ASSUME NEW e, InPlay(e)', e.name = name, e.name \in Clean
        PROVE  e.operation = o
    <3>1. EditHeld(e)
      BY <2>1, <2>4 DEF EditInv
    <3>2. PICK r \in reservations : r.operation = e.operation /\ Trimmed[e.name] \in r.effects
      BY <3>1 DEF EditHeld
    <3>3. name \in r.effects /\ name \in effects
      BY <2>4, <3>2 DEF Clean, effects
    <3>. QED BY <2>2, <3>2, <3>3 DEF Collides
  <2>5. ASSUME NEW u \in Slots, u # s, Patching(u)'
        PROVE  /\ turn'[u].name \in turn'[u].effects
               /\ \A e : InPlay(e)' /\ e.name = turn'[u].name /\ e.name \in Clean
                           => e.operation = turn'[u].operation
    BY <2>1, <2>5 DEF EditInv, OneEditor, Patching
  <2>6. turn'[s].name \in turn'[s].effects
    BY <2>1 DEF effects
  <2>7. OneEditor'
    <3>. SUFFICES ASSUME NEW u \in Slots, Patching(u)'
         PROVE  /\ turn'[u].name \in turn'[u].effects
                /\ \A e : InPlay(e)' /\ e.name = turn'[u].name /\ e.name \in Clean
                            => e.operation = turn'[u].operation
      BY DEF OneEditor, Clean
    <3>. QED BY <2>1, <2>4, <2>5, <2>6
  <2>. QED BY <2>3, <2>7
<1>2. ASSUME NEW name \in Names, NEW symbols \in SUBSET Symbols,
             RefusePatch(s, p, n, name, symbols)
      PROVE  (\A e : InPlay(e) => EditHeld(e))' /\ OneEditor'
  <2>1. turn' = turn /\ file' = file /\ reservations \subseteq reservations'
    BY <1>2 DEF RefusePatch, AssertAndReserve
  <2>. QED BY <2>1, NothingNew DEF InPlay, Idle, Patching
<1>3. ASSUME NEW effects \in SUBSET Effects,
             HandleCodeRun(s, p, n, effects) \/ HandleSideEffect(s, p, n, effects)
      PROVE  (\A e : InPlay(e) => EditHeld(e))' /\ OneEditor'
  <2>1. reservations \subseteq reservations'
    BY <1>3 DEF HandleCodeRun, HandleSideEffect, AssertAndReserve
  <2>2. /\ \A e : InPlay(e)' => InPlay(e)
        /\ \A u \in Slots : u # s => turn'[u] = turn[u]
        /\ turn'[s].phase \in {"running", "reporting"}
    <3>1. CASE HandleCodeRun(s, p, n, effects)
      BY <1>0, <3>1, BeginInPlay DEF HandleCodeRun
    <3>2. CASE HandleSideEffect(s, p, n, effects)
      BY <1>0, <3>2, BeginInPlay DEF HandleSideEffect
    <3>. QED BY <1>3, <3>1, <3>2
  <2>3. \A u \in Slots : Patching(u)' => u # s
    BY <2>2 DEF Patching
  <2>. QED BY <2>1, <2>2, <2>3, NothingNew DEF Patching
<1>. QED BY <1>1, <1>2, <1>3, RequestForms

\* The edit that a patch adds when it reads is of its own operation, and so
\* are those of the other patches of the file by that spelling.
LEMMA ReadFileEdits ==
  ASSUME EditInv, NEW s \in Slots, ReadFile(s)
  PROVE  (\A e : InPlay(e) => EditHeld(e))' /\ OneEditor'
<1>. DEFINE mine == EditOf(s)
<1>1. /\ TypeInv /\ Held /\ RunningDisjoint
      /\ Patching(s) /\ ~Idle(s) /\ turn[s] \in Turns /\ turn[s].name \in turn[s].effects
  BY DEF EditInv, ExclusionInv, OneEditor, ReadFile, Patching, Idle, TypeInv, TypeOK
<1>2. FileIn(s) \in Files
  BY <1>1, MutationsAssumption DEF FileIn, Turns
<1>3. /\ \A u \in Slots : u # s => turn'[u] = turn[u]
      /\ turn'[s].operation = turn[s].operation /\ turn'[s].name = turn[s].name
      /\ turn'[s].effects = turn[s].effects
  BY <1>1 DEF ReadFile, TypeInv, TypeOK, Turns
<1>4. turn'[s].after.edits = file[FileIn(s)].edits \cup {mine}
  <2>1. file[FileIn(s)] \in Texts
    BY <1>1, <1>2 DEF TypeInv, TypeOK
  <2>2. turn'[s].after = [file[FileIn(s)] EXCEPT !.edits = @ \cup {mine}]
    BY <1>1 DEF ReadFile, TypeInv, TypeOK, Turns
  <2>. QED BY <2>1, <2>2 DEF Texts
<1>5. mine.operation = turn[s].operation /\ mine.name = turn[s].name
  BY DEF EditOf
<1>. HIDE DEF mine
<1>6. file' = file /\ reservations' = reservations
  BY DEF ReadFile
<1>7. ASSUME NEW e, InPlay(e)', e # mine PROVE InPlay(e)
  BY <1>1, <1>2, <1>3, <1>4, <1>6, <1>7 DEF InPlay, Idle
<1>8. EditHeld(mine)
  <2>. DEFINE r == [operation |-> turn[s].operation,
                    effects |-> {Trimmed[t] : t \in turn[s].effects}]
  <2>1. r \in reservations
    BY <1>1 DEF Held
  <2>2. Trimmed[mine.name] \in r.effects /\ r.operation = mine.operation
    BY <1>1, <1>5
  <2>. QED BY <2>1, <2>2 DEF EditHeld
<1>9. ASSUME NEW e, InPlay(e)' PROVE EditHeld(e)'
  BY <1>6, <1>7, <1>8, <1>9 DEF EditInv, EditHeld
<1>10. ASSUME NEW u \in Slots, Patching(u), turn[u].name = mine.name, mine.name \in Clean
       PROVE  mine.operation = turn[u].operation
  <2>1. ~Idle(u) /\ turn[u].name \in turn[u].effects
    BY <1>10 DEF EditInv, OneEditor, Patching, Idle
  <2>2. turn[s].name \in turn[s].effects \cap turn[u].effects \cap Clean
    BY <1>1, <1>5, <1>10, <2>1
  <2>. QED BY <1>1, <1>5, <2>1, <2>2 DEF RunningDisjoint
<1>11. \A u \in Slots : Patching(u)' =>
         /\ Patching(u) /\ turn'[u].name = turn[u].name
         /\ turn'[u].operation = turn[u].operation /\ turn'[u].effects = turn[u].effects
  BY <1>1, <1>3 DEF Patching
<1>12. ASSUME NEW u \in Slots, Patching(u)'
       PROVE  /\ turn'[u].name \in turn'[u].effects
              /\ \A e : InPlay(e)' /\ e.name = turn'[u].name /\ e.name \in Clean
                          => e.operation = turn'[u].operation
  BY <1>7, <1>10, <1>11, <1>12 DEF EditInv, OneEditor
<1>13. OneEditor'
  BY <1>12 DEF OneEditor, Clean
<1>. QED BY <1>9, <1>13

LEMMA ContinueEdits ==
  ASSUME EditInv, NEW s \in Slots, Continue(s)
  PROVE  (\A e : InPlay(e) => EditHeld(e))' /\ OneEditor'
<1>1. TypeInv
  BY DEF EditInv, ExclusionInv
<1>2. /\ reservations' = reservations
      /\ \A u \in Slots : ~Idle(u)' =>
           /\ ~Idle(u)
           /\ turn'[u].operation = turn[u].operation
           /\ turn'[u].effects = turn[u].effects
           /\ turn'[u].name = turn[u].name
  BY <1>1, ContinueKeeps
<1>3. CASE ReadFile(s)
  BY <1>3, ReadFileEdits
<1>4. CASE ~ReadFile(s)
  <2>1. \A u \in Slots : u # s => turn'[u] = turn[u]
    BY <1>4, <1>1 DEF Continue, ReadNoMatch, Truncate, WriteFile, CodeRunSucceeds,
         Report, Fail, Goto, TypeInv, TypeOK
  <2>2. ~Idle(s)' => /\ turn'[s].after = turn[s].after
                     /\ turn'[s].phase \in {"truncated", "reporting"}
                     /\ turn'[s].phase = "truncated" => turn[s].phase = "writing"
    <3>1. CASE Report(s) \/ Fail(s)
      BY <3>1, <1>1 DEF Report, Fail, Idle, Nothing, TypeInv, TypeOK
    <3>2. CASE ReadNoMatch(s) \/ Truncate(s) \/ WriteFile(s) \/ CodeRunSucceeds(s)
      <4>1. ~Idle(s) /\ turn[s] \in Turns
        BY <3>2, <1>1 DEF ReadNoMatch, Truncate, WriteFile, CodeRunSucceeds, Idle,
             TypeInv, TypeOK
      <4>. QED BY <3>2, <4>1, <1>1 DEF ReadNoMatch, Truncate, WriteFile, CodeRunSucceeds,
             Goto, TypeInv, TypeOK, Turns
    <3>. QED BY <1>4, <3>1, <3>2 DEF Continue
  <2>3. \A u \in Slots : Patching(u)' => Patching(u) /\ ~Idle(u)'
    BY <2>1, <2>2 DEF Patching, Idle
  <2>4. ASSUME NEW f \in Files, NEW e, e \in file'[f].edits
        PROVE  InPlay(e)
    <3>1. CASE file' = file
      BY <3>1, <2>4 DEF InPlay
    <3>2. CASE Truncate(s)
      BY <3>2, <2>4, <1>1 DEF Truncate, InPlay, Blank, TypeInv, TypeOK
    <3>3. CASE WriteFile(s)
      <4>1. ~Idle(s)
        BY <3>3 DEF WriteFile, Idle
      <4>2. e \in file[f].edits \/ e \in turn[s].after.edits \/ e \in Garbled.edits
        BY <3>3, <2>4, <1>1 DEF WriteFile, TypeInv, TypeOK
      <4>. QED BY <4>1, <4>2 DEF InPlay, Garbled
    <3>. QED BY <1>4, <3>1, <3>2, <3>3 DEF Continue, ReadNoMatch, CodeRunSucceeds, Report, Fail
  <2>5. ASSUME NEW e, InPlay(e)' PROVE InPlay(e)
    BY <2>1, <2>2, <2>4, <2>5, <1>2 DEF InPlay, Idle
  <2>. QED BY <1>2, <2>3, <2>5, NothingNew
<1>. QED BY <1>3, <1>4

LEMMA EditStep == EditInv /\ [Next]_vars => EditInv'
<1>. SUFFICES ASSUME EditInv, [Next]_vars PROVE EditInv'
  OBVIOUS
<1>1. ExclusionInv'
  BY ExclusionStep DEF EditInv
<1>2. CASE Next
  BY <1>1, <1>2, RequestEdits, ContinueEdits DEF Next, EditInv
<1>3. CASE UNCHANGED vars
  <2>1. turn' = turn /\ reservations' = reservations /\ file' = file
    BY <1>3 DEF vars
  <2>2. (\A e : InPlay(e) => EditHeld(e))' /\ OneEditor'
    BY <2>1, NothingNew DEF InPlay, Idle, Patching
  <2>. QED BY <1>1, <2>2 DEF EditInv
<1>. QED BY <1>2, <1>3

LEMMA EditInitially == Init => EditInv
<1>. SUFFICES ASSUME Init PROVE EditInv
  OBVIOUS
<1>1. \A s \in Slots : Idle(s) /\ ~Patching(s)
  BY DEF Init, Idle, Patching, Nothing
<1>2. \A f \in Files : file[f].edits = {}
  BY DEF Init
<1>. QED BY <1>1, <1>2, ExclusionInitially DEF EditInv, InPlay, OneEditor

\* The step of the property: an edit that disappears was written over.
LEMMA WriterKnown ==
  ASSUME EditInv, Next, NEW f \in Files, NEW e \in file[f].edits \ file'[f].edits
  PROVE  \E s \in Slots :
           /\ turn[s].phase \in {"writing", "truncated"} /\ FileIn(s) = f
           /\ turn'[s].phase # turn[s].phase
           /\ \/ e \in turn[s].after.edits
              \/ e.operation = turn[s].operation
              \/ e.name # turn[s].name
              \/ turn[s].name \notin Clean
<1>1. PICK s \in Slots : (\E p \in Plans, n \in Nodes : Request(s, p, n)) \/ Continue(s)
  BY DEF Next
<1>0. Truncate(s) \/ WriteFile(s)
  <2>1. file' # file
    OBVIOUS
  <2>2. ASSUME NEW p \in Plans, NEW n \in Nodes, Request(s, p, n) PROVE FALSE
    <3>1. PICK effects \in Declared :
            \/ \E name \in Names :
                 \/ HandlePatchApply(s, p, n, name, effects \cap Symbols)
                 \/ RefusePatch(s, p, n, name, effects \cap Symbols)
            \/ HandleCodeRun(s, p, n, effects \cap (GraphMutations \cup Externals))
            \/ HandleSideEffect(s, p, n, effects)
      BY <2>2 DEF Request
    <3>2. ASSUME NEW name \in Names
          PROVE  /\ ~HandlePatchApply(s, p, n, name, effects \cap Symbols)
                 /\ ~RefusePatch(s, p, n, name, effects \cap Symbols)
      BY <2>1 DEF HandlePatchApply, RefusePatch
    <3>3. /\ ~HandleCodeRun(s, p, n, effects \cap (GraphMutations \cup Externals))
          /\ ~HandleSideEffect(s, p, n, effects)
      BY <2>1 DEF HandleCodeRun, HandleSideEffect
    <3>. QED BY <3>1, <3>2, <3>3
  <2>3. ~ReadFile(s) /\ ~ReadNoMatch(s) /\ ~CodeRunSucceeds(s) /\ ~Report(s) /\ ~Fail(s)
    BY <2>1 DEF ReadFile, ReadNoMatch, CodeRunSucceeds, Report, Fail
  <2>. QED BY <1>1, <2>2, <2>3 DEF Continue
<1>2. TypeInv
  BY DEF EditInv, ExclusionInv
<1>3. turn[s].phase \in {"writing", "truncated"} /\ turn[s] \in Turns
  BY <1>0, <1>2 DEF Truncate, WriteFile, TypeInv, TypeOK, Idle
<1>4. turn'[s].phase # turn[s].phase
  BY <1>0, <1>2, <1>3 DEF Truncate, WriteFile, Goto, TypeInv, TypeOK, Turns
<1>5. FileIn(s) = f
  BY <1>0, <1>2 DEF Truncate, WriteFile, TypeInv, TypeOK
<1>6. InPlay(e) /\ Patching(s)
  BY <1>3 DEF InPlay, Patching
<1>7. e.name = turn[s].name /\ e.name \in Clean => e.operation = turn[s].operation
  BY <1>6 DEF EditInv, OneEditor
<1>. QED BY <1>3, <1>4, <1>5, <1>7

\* An edit is only lost to a mutation that had read it, to its own operation
\* or to a patch that spells the file differently.
THEOREM EditsSurvivePatches == Spec => EditsSurvive
<1>1. EditInv /\ [Next]_vars =>
        [\A f \in Files : \A e \in file[f].edits \ file'[f].edits :
           \E s \in Slots :
             /\ turn[s].phase \in {"writing", "truncated"} /\ FileIn(s) = f
             /\ turn'[s].phase # turn[s].phase
             /\ \/ e \in turn[s].after.edits
                \/ e.operation = turn[s].operation
                \/ e.name # turn[s].name
                \/ turn[s].name \notin Clean]_vars
  BY WriterKnown
<1>. QED BY <1>1, EditInitially, EditStep, PTL DEF Spec, EditsSurvive
=============================================================================
