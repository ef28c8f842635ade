------------------------------ MODULE SessionProofs ------------------------------
(***************************************************************************)
(* Proofs about what a session is told of its work and what it gets to     *)
(* see: files of the inbox reach one session once, for any sessions, files *)
(* and tickets; and how a file is named does not matter, for any paths,    *)
(* packs and allowlists; and the verdict on a plan tells those that can be *)
(* carried out from those that cannot, for any plans, rules and policies;  *)
(* and proof chains are partial rather than fabricated.                    *)
(***************************************************************************)
EXTENDS WorkInit, ReadVerbs, PlanReview, ProofChains, FiniteSetTheorems,
        WellFoundedInduction, TLAPS

-----------------------------------------------------------------------------
(* Artifacts.                                                              *)

Contents == {NoContent} \cup {ContentOf[f] : f \in InboxFiles}

Artifacts == [source : {"attachment", "jira", "swagger"}, ref : Refs, content : Contents]

\* The artifacts that carry a content.
Carrying(artifacts) == {i \in DOMAIN artifacts : artifacts[i].content # NoContent}

Distinct(artifacts) ==
  \A i, j \in Carrying(artifacts) : artifacts[i].content = artifacts[j].content => i = j

\* As many artifacts with a content as contents.
LEMMA DistinctCount ==
  ASSUME NEW artifacts \in Seq(Artifacts), Distinct(artifacts)
  PROVE  Cardinality(Carrying(artifacts)) = Cardinality(ContentsOf(artifacts))
<1>. DEFINE S == Carrying(artifacts)
            T == ContentsOf(artifacts)
<1>1. IsFiniteSet(S)
  <2>1. IsFiniteSet(1 .. Len(artifacts)) BY FS_Interval
  <2>2. S \in SUBSET (1 .. Len(artifacts)) BY DEF Carrying
  <2>. QED BY <2>1, <2>2, FS_Subset
<1>2. PICK f : f = [i \in S |-> artifacts[i].content] OBVIOUS
<1>3. f \in [S -> T] BY <1>2 DEF Carrying, ContentsOf
<1>4. \A i, j \in S : f[i] = f[j] => i = j BY <1>2 DEF Distinct
<1>5. \A c \in T : \E i \in S : f[i] = c BY <1>2 DEF Carrying, ContentsOf
<1>6. f \in Bijection(S, T)
  BY <1>3, <1>4, <1>5 DEF Bijection, Injection, Surjection, IsInjective
<1>7. ExistsBijection(S, T) BY <1>6 DEF ExistsBijection
<1>. QED BY <1>1, <1>7, FS_Bijection

TakenAs(taken) == SetToSeq({InboxArtifact(f) : f \in taken})

\* What a session takes from the inbox, as a sequence: each file once.
LEMMA TakenSequence ==
  ASSUME NEW taken \in SUBSET InboxFiles, NEW q,
         q = TakenAs(taken)
  PROVE  /\ q \in Seq(Artifacts)
         /\ \A i \in DOMAIN q : \E f \in taken : q[i] = InboxArtifact(f)
         /\ \A f \in taken : \E i \in DOMAIN q : q[i] = InboxArtifact(f)
         /\ \A i, j \in DOMAIN q : q[i] = q[j] => i = j
<1>. DEFINE S == {InboxArtifact(f) : f \in taken}
<1>1. IsFiniteSet(taken) BY FS_Subset, WorkInitAssumption
<1>2. IsFiniteSet(S)
  <2>1. PICK g : g = [f \in taken |-> InboxArtifact(f)] OBVIOUS
  <2>2. g \in Surjection(taken, S) BY <2>1 DEF Surjection
  <2>. QED BY <2>2, <1>1, FS_Surjection
<1>3. PICK n : n = Cardinality(S) OBVIOUS
<1>4. n \in Nat /\ ExistsBijection(1 .. n, S) BY <1>2, <1>3, FS_CardinalityType
<1>5. q \in [1 .. n -> S] /\ IsInjective(q)
  <2>1. \E f \in [1 .. n -> S] : IsInjective(f)
    BY <1>4 DEF ExistsBijection, Bijection, Injection
  <2>2. q = CHOOSE f \in [1 .. n -> S] : IsInjective(f) BY <1>3, Zenon DEF SetToSeq, TakenAs
  <2>. HIDE DEF S
  <2>. QED BY <2>1, <2>2
<1>6. q \in Surjection(1 .. n, S)
  <2>1. q \in Injection(1 .. n, S) BY <1>5 DEF Injection
  <2>2. Cardinality(1 .. n) = Cardinality(S) BY <1>3, <1>4, FS_Interval
  <2>. QED BY <2>1, <2>2, <1>2, FS_Injection
<1>7. S \subseteq Artifacts
  <2>. SUFFICES ASSUME NEW f \in taken PROVE InboxArtifact(f) \in Artifacts OBVIOUS
  <2>1. f \in Refs /\ ContentOf[f] \in Contents BY DEF Refs, Contents
  <2>. QED BY <2>1 DEF InboxArtifact, Artifacts
<1>8. DOMAIN q = 1 .. n /\ \A i \in 1 .. n : q[i] \in S BY <1>5
<1>9. q \in Seq(Artifacts)
  <2>1. q \in [1 .. n -> Artifacts] BY <1>5, <1>7
  <2>. QED BY <2>1, <1>4
<1>10. \A x \in S : \E i \in 1 .. n : q[i] = x BY <1>6 DEF Surjection
<1>11. \A i \in DOMAIN q : \E f \in taken : q[i] = InboxArtifact(f) BY <1>8
<1>12. \A f \in taken : \E i \in DOMAIN q : q[i] = InboxArtifact(f)
  <2>1. \A f \in taken : InboxArtifact(f) \in S OBVIOUS
  <2>. HIDE DEF S
  <2>. QED BY <2>1, <1>8, <1>10
<1>13. \A i, j \in DOMAIN q : q[i] = q[j] => i = j BY <1>5 DEF IsInjective
<1>. HIDE DEF S
<1>. QED BY <1>9, <1>11, <1>12, <1>13

\* Two sequences of artifacts, one after the other.
LEMMA JoinedArtifacts ==
  ASSUME NEW u \in Seq(Artifacts), NEW v \in Seq(Artifacts),
         Distinct(u), Distinct(v),
         \A i \in Carrying(v) : v[i].content \notin ContentsOf(u)
  PROVE  /\ u \o v \in Seq(Artifacts) /\ Distinct(u \o v)
         /\ ContentsOf(u \o v) = ContentsOf(u) \cup ContentsOf(v)
<1>1. PICK w : w = u \o v OBVIOUS
<1>2. w \in Seq(Artifacts) BY <1>1
<1>3. Len(u) \in Nat /\ Len(v) \in Nat /\ Len(w) = Len(u) + Len(v) BY <1>1
<1>4. /\ \A i \in 1 .. Len(u) : w[i] = u[i]
      /\ \A i \in 1 .. Len(v) : w[Len(u) + i] = v[i]
  BY <1>1
<1>5. /\ DOMAIN u = 1 .. Len(u) /\ DOMAIN v = 1 .. Len(v) /\ DOMAIN w = 1 .. Len(w)
  BY <1>2
<1>6. \A i \in 1 .. Len(w) :
        i \in 1 .. Len(u) \/ \E k \in 1 .. Len(v) : i = Len(u) + k
  <2>. TAKE i \in 1 .. Len(w)
  <2>1. CASE i \in 1 .. Len(u) BY <2>1
  <2>2. CASE i \notin 1 .. Len(u)
    <3>1. i - Len(u) \in 1 .. Len(v) /\ i = Len(u) + (i - Len(u)) BY <2>2, <1>3
    <3>. QED BY <3>1
  <2>. QED BY <2>1, <2>2
<1>7. ASSUME NEW i \in Carrying(w), NEW j \in Carrying(w), w[i].content = w[j].content
      PROVE  i = j
  <2>1. i \in 1 .. Len(w) /\ j \in 1 .. Len(w) BY <1>5 DEF Carrying
  <2>2. CASE i \in 1 .. Len(u) /\ j \in 1 .. Len(u)
    <3>1. i \in Carrying(u) /\ j \in Carrying(u) BY <2>2, <1>4, <1>5 DEF Carrying
    <3>. QED BY <3>1, <2>2, <1>4, <1>7 DEF Distinct
  <2>3. ASSUME NEW k \in 1 .. Len(v), NEW l \in 1 .. Len(v),
               i = Len(u) + k, j = Len(u) + l
        PROVE  i = j
    <3>1. k \in Carrying(v) /\ l \in Carrying(v) BY <2>3, <1>4, <1>5 DEF Carrying
    <3>. QED BY <3>1, <2>3, <1>4, <1>7 DEF Distinct
  <2>4. ASSUME NEW x \in 1 .. Len(u), NEW k \in 1 .. Len(v), w[x].content # NoContent,
               w[x].content = w[Len(u) + k].content
        PROVE  FALSE
    <3>1. k \in Carrying(v) BY <2>4, <1>4, <1>5 DEF Carrying
    <3>2. u[x].content \in ContentsOf(u) BY <2>4, <1>4, <1>5 DEF ContentsOf
    <3>. QED BY <3>1, <3>2, <2>4, <1>4
  <2>5. w[i].content # NoContent /\ w[j].content # NoContent BY DEF Carrying
  <2>. QED BY <2>1, <2>2, <2>3, <2>4, <2>5, <1>6, <1>7
<1>8. Distinct(w) BY <1>7 DEF Distinct
<1>9. ContentsOf(w) = ContentsOf(u) \cup ContentsOf(v)
  <2>1. \A i \in 1 .. Len(u) : i \in 1 .. Len(w) BY <1>3
  <2>2. \A i \in 1 .. Len(v) : Len(u) + i \in 1 .. Len(w) BY <1>3
  <2>3. ContentsOf(u) \subseteq ContentsOf(w) BY <2>1, <1>4, <1>5 DEF ContentsOf
  <2>4. ContentsOf(v) \subseteq ContentsOf(w) BY <2>2, <1>4, <1>5 DEF ContentsOf
  <2>5. ContentsOf(w) \subseteq ContentsOf(u) \cup ContentsOf(v)
    <3>. SUFFICES ASSUME NEW i \in 1 .. Len(w), w[i].content # NoContent
                  PROVE  w[i].content \in ContentsOf(u) \cup ContentsOf(v)
      BY <1>5 DEF ContentsOf
    <3>1. CASE i \in 1 .. Len(u) BY <3>1, <1>4, <1>5 DEF ContentsOf
    <3>2. CASE \E k \in 1 .. Len(v) : i = Len(u) + k BY <3>2, <1>4, <1>5 DEF ContentsOf
    <3>. QED BY <3>1, <3>2, <1>6
  <2>. QED BY <2>3, <2>4, <2>5
<1>. QED BY <1>1, <1>2, <1>8, <1>9

\* Artifacts without contents.
LEMMA ReferencesOnly ==
  ASSUME NEW u \in Seq(Artifacts), \A i \in DOMAIN u : u[i].content = NoContent
  PROVE  Carrying(u) = {} /\ ContentsOf(u) = {} /\ Distinct(u)
BY DEF Carrying, ContentsOf, Distinct

-----------------------------------------------------------------------------
(* The sessions of initialize_work.                                        *)

\* What is assigned to the fields does not change which fields there are.
Fields == {"phase", "state", "prompt", "text", "artifacts", "slice", "active", "allowed",
           "files", "strategy", "signature", "envelope", "verbs"}

\* A session: artifacts of which no two have one content.
Sound(w) ==
  /\ w = [x \in Fields |-> w[x]]
  /\ w.artifacts \in Seq(Artifacts)
  /\ Distinct(w.artifacts)

\* Every file that is away from the inbox was taken, or its content is with a
\* session, or went with one; a file that could be renamed was taken once.
InboxInv ==
  /\ inbox \subseteq InboxFiles
  /\ stuck \subseteq InboxFiles
  /\ takes \subseteq Sessions \X InboxFiles
  /\ work = [s \in Sessions |-> work[s]]
  /\ \A s \in Sessions : Sound(work[s])
  /\ \A s \in Sessions, f \in InboxFiles \ stuck :
       <<s, f>> \in takes =>
         /\ f \notin inbox
         /\ \A t \in Sessions : <<t, f>> \in takes => t = s
  /\ \A f \in InboxFiles \ inbox :
       \/ \E s \in Sessions : ContentOf[f] \in ContentsOf(work[s].artifacts)
       \/ ContentOf[f] \in dropped

\* A step that gives one session a record that is as sound and says no less, and
\* leaves the inbox alone.
LEMMA SessionGoesOn ==
  ASSUME InboxInv, NEW s \in Sessions, NEW v, work' = [work EXCEPT ![s] = v],
         Sound(v), ContentsOf(work[s].artifacts) \subseteq ContentsOf(v.artifacts),
         UNCHANGED <<inbox, takes, stuck, dropped>>
  PROVE  InboxInv'
<1>1. work' = [t \in Sessions |-> IF t = s THEN v ELSE work[t]] BY DEF InboxInv
<1>2. \A t \in Sessions : work'[t] = IF t = s THEN v ELSE work[t] BY <1>1
<1>3. work' = [t \in Sessions |-> work'[t]] BY <1>1
<1>4. \A t \in Sessions : Sound(work'[t]) BY <1>2 DEF InboxInv
<1>5. ASSUME NEW f \in InboxFiles \ inbox
      PROVE  \/ \E t \in Sessions : ContentOf[f] \in ContentsOf(work'[t].artifacts)
             \/ ContentOf[f] \in dropped
  <2>1. CASE ContentOf[f] \in dropped BY <2>1
  <2>2. ASSUME NEW t \in Sessions, ContentOf[f] \in ContentsOf(work[t].artifacts)
        PROVE  ContentOf[f] \in ContentsOf(work'[t].artifacts)
    BY <2>2, <1>2
  <2>. QED BY <2>1, <2>2 DEF InboxInv
<1>. QED BY <1>3, <1>4, <1>5 DEF InboxInv

LEMMA InboxStarts == WorkInitInit => InboxInv
<1>. SUFFICES ASSUME WorkInitInit PROVE InboxInv OBVIOUS
<1>1. PICK w : w = NewWork OBVIOUS
<1>2. w = [x \in Fields |-> w[x]] BY <1>1 DEF NewWork, Fields
<1>3. w.artifacts = <<>> BY <1>1 DEF NewWork
<1>4. <<>> \in Seq(Artifacts) /\ Distinct(<<>>) BY DEF Distinct, Carrying
<1>5. Sound(w) BY <1>2, <1>3, <1>4 DEF Sound
<1>6. work = [s \in Sessions |-> w] BY <1>1 DEF WorkInitInit
<1>7. inbox = InboxFiles /\ takes = {} /\ stuck = {} BY DEF WorkInitInit
<1>. HIDE DEF WorkInitInit
<1>. QED BY <1>5, <1>6, <1>7 DEF InboxInv

\* A step that leaves the artifacts of a session alone.
LEMMA TellsTheSame ==
  ASSUME InboxInv, NEW s \in Sessions, NEW v, work' = [work EXCEPT ![s] = v],
         v = [x \in Fields |-> v[x]],
         v.artifacts = work[s].artifacts, UNCHANGED <<inbox, takes, stuck, dropped>>
  PROVE  InboxInv'
<1>1. Sound(work[s]) BY DEF InboxInv
<1>2. Sound(v) BY <1>1 DEF Sound
<1>. QED BY <1>2, SessionGoesOn

\* The start of a turn sets the prompt, the text and the envelope of a session.
LEMMA TurnStarted ==
  ASSUME NEW w, w = [x \in Fields |-> w[x]], NEW said, NEW lexemes, NEW t,
         t = TurnStarts(w, said, lexemes)
  PROVE  /\ t = [x \in Fields |-> t[x]]
         /\ \A x \in Fields \ {"prompt", "text", "envelope"} : t[x] = w[x]
         /\ t.envelope.strategy \in Strategies /\ t.envelope.signature.flags \subseteq Flags
<1>1. PICK prompt : prompt = IF w.prompt = {} THEN said ELSE w.prompt OBVIOUS
<1>2. PICK text : text = prompt \cup lexemes OBVIOUS
<1>3. PICK asked : asked = [w EXCEPT !.prompt = prompt, !.text = text] OBVIOUS
<1>4. PICK signature : signature = ComputeContextSignature(asked, {}) OBVIOUS
<1>5. PICK strategy : strategy = SelectStrategyFromSignature(signature) OBVIOUS
<1>6. t = [asked EXCEPT !.envelope = [signature |-> signature, strategy |-> strategy]]
  BY <1>1, <1>2, <1>3, <1>4, <1>5, Zenon DEF TurnStarts
<1>7. PICK e : e = [signature |-> signature, strategy |-> strategy] OBVIOUS
<1>8. /\ asked = [x \in Fields |-> asked[x]]
      /\ \A x \in Fields \ {"prompt", "text"} : asked[x] = w[x]
  BY <1>3 DEF Fields
<1>9. /\ t = [x \in Fields |-> t[x]] /\ t.envelope = e
      /\ \A x \in Fields \ {"envelope"} : t[x] = asked[x]
  BY <1>6, <1>7, <1>8 DEF Fields
<1>10. strategy \in Strategies BY <1>5 DEF SelectStrategyFromSignature, Strategies
<1>11. PICK flags, task :
         /\ signature = [flags |-> flags, task |-> task] /\ flags \subseteq Flags
  BY <1>4, Zenon DEF ComputeContextSignature
<1>12. signature.flags \subseteq Flags BY <1>11
<1>. QED BY <1>7, <1>8, <1>9, <1>10, <1>12

LEMMA QueryMemoriesInv ==
  ASSUME InboxInv, NEW s \in Sessions, QueryMemories(s)  PROVE InboxInv'
<1>1. PICK w : w = work[s] OBVIOUS
<1>2. w = [x \in Fields |-> w[x]] BY <1>1 DEF InboxInv, Sound
<1>3. PICK a : work' = [work EXCEPT ![s].phase = "jira", ![s].active = a]
  BY DEF QueryMemories
<1>4. PICK v : v = [w EXCEPT !.phase = "jira", !.active = a] OBVIOUS
<1>5. work' = [work EXCEPT ![s] = v] BY <1>1, <1>3, <1>4 DEF InboxInv
<1>6. /\ v = [x \in Fields |-> v[x]] /\ v.artifacts = w.artifacts
  BY <1>2, <1>4 DEF Fields
<1>7. UNCHANGED <<inbox, takes, stuck, dropped>> BY DEF QueryMemories
<1>. QED BY <1>1, <1>5, <1>6, <1>7, TellsTheSame

LEMMA FetchBeginsInv ==
  ASSUME InboxInv, NEW s \in Sessions, BeginFetch(s)  PROVE InboxInv'
<1>1. PICK w : w = work[s] OBVIOUS
<1>2. w = [x \in Fields |-> w[x]] BY <1>1 DEF InboxInv, Sound
<1>3. PICK said, lexemes :
        work' = [work EXCEPT ![s] =
          [TurnStarts(work[s], said, lexemes) EXCEPT !.phase = "fetching", !.verbs = @ + 1]]
  BY Zenon DEF BeginFetch
<1>4. PICK t : t = TurnStarts(w, said, lexemes) OBVIOUS
<1>5. /\ t = [x \in Fields |-> t[x]]
      /\ \A x \in Fields \ {"prompt", "text", "envelope"} : t[x] = w[x]
  BY <1>2, <1>4, TurnStarted
<1>6. PICK v : v = [t EXCEPT !.phase = "fetching", !.verbs = @ + 1] OBVIOUS
<1>7. work' = [work EXCEPT ![s] = v] BY <1>1, <1>3, <1>4, <1>6
<1>8. v = [x \in Fields |-> v[x]] /\ v.artifacts = w.artifacts
  BY <1>5, <1>6 DEF Fields
<1>9. UNCHANGED <<inbox, takes, stuck, dropped>> BY DEF BeginFetch
<1>. QED BY <1>1, <1>7, <1>8, <1>9, TellsTheSame

LEMMA PhaseInv ==
  ASSUME InboxInv, NEW s \in Sessions, work' = [work EXCEPT ![s].phase = "idle"],
         UNCHANGED <<inbox, takes, stuck, dropped>>
  PROVE  InboxInv'
<1>1. PICK w : w = work[s] OBVIOUS
<1>2. w = [x \in Fields |-> w[x]] BY <1>1 DEF InboxInv, Sound
<1>3. PICK v : v = [w EXCEPT !.phase = "idle"] OBVIOUS
<1>4. work' = [work EXCEPT ![s] = v] BY <1>1, <1>3 DEF InboxInv
<1>5. /\ v = [x \in Fields |-> v[x]] /\ v.artifacts = w.artifacts
  BY <1>2, <1>3 DEF Fields
<1>. QED BY <1>1, <1>4, <1>5, TellsTheSame

LEMMA PlanAcceptedInv ==
  ASSUME InboxInv, NEW s \in Sessions, PlanAccepted(s)  PROVE InboxInv'
<1>1. PICK w : w = work[s] OBVIOUS
<1>2. w = [x \in Fields |-> w[x]] BY <1>1 DEF InboxInv, Sound
<1>3. PICK said \in Prompts, lexemes \in Lexemes, a \in AllowedByPlan :
        work' = [work EXCEPT ![s] =
          [TurnStarts(work[s], said, lexemes) EXCEPT !.state = "PLAN_ACCEPTED",
                                                     !.allowed = a]]
  BY Zenon DEF PlanAccepted
<1>4. PICK t : t = TurnStarts(w, said, lexemes) OBVIOUS
<1>5. /\ t = [x \in Fields |-> t[x]]
      /\ \A x \in Fields \ {"prompt", "text", "envelope"} : t[x] = w[x]
  BY <1>2, <1>4, TurnStarted
<1>6. PICK v : v = [t EXCEPT !.state = "PLAN_ACCEPTED", !.allowed = a] OBVIOUS
<1>7. work' = [work EXCEPT ![s] = v] BY <1>1, <1>3, <1>4, <1>6
<1>8. v = [x \in Fields |-> v[x]] /\ v.artifacts = w.artifacts
  BY <1>5, <1>6 DEF Fields
<1>9. UNCHANGED <<inbox, takes, stuck, dropped>> BY DEF PlanAccepted
<1>. QED BY <1>1, <1>7, <1>8, <1>9, TellsTheSame

LEMMA BudgetBlocksInv ==
  ASSUME InboxInv, NEW s \in Sessions, BudgetBlocks(s)  PROVE InboxInv'
<1>1. PICK w : w = work[s] OBVIOUS
<1>2. w = [x \in Fields |-> w[x]] BY <1>1 DEF InboxInv, Sound
<1>3. PICK said, lexemes :
        work' = [work EXCEPT ![s] =
          [TurnStarts(work[s], said, lexemes) EXCEPT !.state = "BLOCKED_BUDGET"]]
  BY Zenon DEF BudgetBlocks
<1>4. PICK t : t = TurnStarts(w, said, lexemes) OBVIOUS
<1>5. /\ t = [x \in Fields |-> t[x]]
      /\ \A x \in Fields \ {"prompt", "text", "envelope"} : t[x] = w[x]
  BY <1>2, <1>4, TurnStarted
<1>6. PICK v : v = [t EXCEPT !.state = "BLOCKED_BUDGET"] OBVIOUS
<1>7. work' = [work EXCEPT ![s] = v] BY <1>1, <1>3, <1>4, <1>6
<1>8. v = [x \in Fields |-> v[x]] /\ v.artifacts = w.artifacts
  BY <1>5, <1>6 DEF Fields
<1>9. UNCHANGED <<inbox, takes, stuck, dropped>> BY DEF BudgetBlocks
<1>. QED BY <1>1, <1>7, <1>8, <1>9, TellsTheSame

LEMMA OpenWorkInv ==
  ASSUME InboxInv, NEW s \in Sessions, OpenWork(s)  PROVE InboxInv'
<1>1. PICK w : w = work[s] OBVIOUS
<1>2. w = [x \in Fields |-> w[x]] BY <1>1 DEF InboxInv, Sound
<1>3. PICK a : a = IF w.allowed = {} THEN IndexedFiles ELSE w.allowed OBVIOUS
<1>4. PICK b : b = IF w.state = "UNINITIALIZED" THEN "PLANNING" ELSE w.state OBVIOUS
<1>5. PICK c : c = ResponseStrategy(w) OBVIOUS
<1>6. PICK v : v = [w EXCEPT !.phase = "idle", !.files = a, !.state = b,
                             !.envelope = c]
  OBVIOUS
<1>7. work' = [work EXCEPT ![s] = v]
  BY <1>1, <1>2, <1>3, <1>4, <1>5, <1>6 DEF InboxInv, OpenWork, Fields
<1>8. v = [x \in Fields |-> v[x]] /\ v.artifacts = w.artifacts
  BY <1>2, <1>6 DEF Fields
<1>9. UNCHANGED <<inbox, takes, stuck, dropped>> BY DEF OpenWork
<1>. QED BY <1>1, <1>7, <1>8, <1>9, TellsTheSame

\* References that come after the artifacts there are say nothing new.
LEMMA ReferencesAfter ==
  ASSUME NEW u \in Seq(Artifacts), Distinct(u), NEW r \in Seq(Artifacts),
         \A i \in DOMAIN r : r[i].content = NoContent
  PROVE  /\ u \o r \in Seq(Artifacts) /\ Distinct(u \o r)
         /\ ContentsOf(u \o r) = ContentsOf(u)
<1>1. Carrying(r) = {} /\ ContentsOf(r) = {} /\ Distinct(r) BY ReferencesOnly
<1>2. \A i \in Carrying(r) : r[i].content \notin ContentsOf(u) BY <1>1
<1>3. /\ u \o r \in Seq(Artifacts) /\ Distinct(u \o r)
      /\ ContentsOf(u \o r) = ContentsOf(u) \cup ContentsOf(r)
  BY <1>1, <1>2, JoinedArtifacts
<1>. QED BY <1>1, <1>3

\* What a connector found, if anything.
FoundOf(source, ref, found) ==
  found = <<>> \/ found = <<[source |-> source, ref |-> ref, content |-> NoContent]>>

LEMMA FoundReferences ==
  ASSUME NEW source \in {"attachment", "jira", "swagger"}, NEW ref \in Refs, NEW found,
         FoundOf(source, ref, found)
  PROVE  /\ found \in Seq(Artifacts)
         /\ \A i \in DOMAIN found : found[i].content = NoContent
<1>1. PICK a : a = [source |-> source, ref |-> ref, content |-> NoContent] OBVIOUS
<1>2. a \in Artifacts /\ a.content = NoContent BY <1>1 DEF Artifacts, Contents
<1>3. found = <<>> \/ found = <<a>> BY <1>1 DEF FoundOf
<1>4. CASE found = <<>> BY <1>4
<1>5. CASE found = <<a>>
  <2>1. <<a>> \in Seq(Artifacts) BY <1>2
  <2>2. \A i \in DOMAIN <<a>> : <<a>>[i] = a OBVIOUS
  <2>. QED BY <1>2, <1>5, <2>1, <2>2
<1>. QED BY <1>3, <1>4, <1>5

LEMMA AutoFetchJiraInv ==
  ASSUME InboxInv, NEW s \in Sessions, AutoFetchJira(s)  PROVE InboxInv'
<1>1. PICK w : w = work[s] OBVIOUS
<1>2. Sound(w) BY <1>1 DEF InboxInv
<1>3. PICK found :
        /\ FoundOf("jira", "jira:1", found)
        /\ work' = [work EXCEPT ![s].phase = "swagger", ![s].artifacts = @ \o found]
  BY DEF AutoFetchJira, FoundOf
<1>4. found \in Seq(Artifacts) /\ \A i \in DOMAIN found : found[i].content = NoContent
  <2>1. "jira:1" \in Refs BY DEF Refs
  <2>2. FoundOf("jira", "jira:1", found) BY <1>3
  <2>. QED BY <2>1, <2>2, FoundReferences
<1>5. PICK a : a = w.artifacts \o found OBVIOUS
<1>6. a \in Seq(Artifacts) /\ Distinct(a) /\ ContentsOf(a) = ContentsOf(w.artifacts)
  BY <1>2, <1>4, <1>5, ReferencesAfter DEF Sound
<1>7. PICK v : v = [w EXCEPT !.phase = "swagger", !.artifacts = a] OBVIOUS
<1>8. w = [x \in Fields |-> w[x]] BY <1>2 DEF Sound
<1>9. work' = [work EXCEPT ![s] = v]
  BY <1>1, <1>3, <1>5, <1>7, <1>8 DEF InboxInv, Fields
<1>10. /\ v = [x \in Fields |-> v[x]] /\ v.artifacts = a
  BY <1>7, <1>8 DEF Fields
<1>11. Sound(v) BY <1>2, <1>6, <1>10 DEF Sound
<1>12. UNCHANGED <<inbox, takes, stuck, dropped>> BY DEF AutoFetchJira
<1>. QED BY <1>1, <1>6, <1>9, <1>10, <1>11, <1>12, SessionGoesOn

\* The session with what was found, the strategy chosen and the signature.
SwaggerChosen(s, w, found, brought, chosen) ==
  /\ FoundOf("swagger", "swagger:1", found)
  /\ brought = [w EXCEPT !.artifacts = @ \o found]
  /\ chosen = ApplyStrategySignalOverrides(
               ComputeContextSignature(brought, IndexText), w.active)
  /\ work' = [work EXCEPT ![s] =
       [brought EXCEPT !.phase = "packing", !.strategy = chosen.strategy,
                       !.signature = chosen.signature]]

LEMMA SwaggerFetched ==
  ASSUME NEW s \in Sessions, NEW w, w = work[s], AutoFetchSwagger(s)
  PROVE  \E found, brought, chosen : SwaggerChosen(s, w, found, brought, chosen)
<1>1. PICK found \in
           {<<>>, <<[source |-> "swagger", ref |-> "swagger:1", content |-> NoContent]>>} :
        LET brought == [work[s] EXCEPT !.artifacts = @ \o found]
            chosen == ApplyStrategySignalOverrides(
                        ComputeContextSignature(brought, IndexText), work[s].active)
        IN work' = [work EXCEPT ![s] =
             [brought EXCEPT !.phase = "packing", !.strategy = chosen.strategy,
                             !.signature = chosen.signature]]
  BY Zenon DEF AutoFetchSwagger
<1>2. FoundOf("swagger", "swagger:1", found) BY <1>1 DEF FoundOf
<1>. WITNESS found, [w EXCEPT !.artifacts = @ \o found],
             ApplyStrategySignalOverrides(
               ComputeContextSignature([w EXCEPT !.artifacts = @ \o found], IndexText),
               w.active)
<1>. QED BY <1>1, <1>2, Zenon DEF SwaggerChosen

LEMMA AutoFetchSwaggerInv ==
  ASSUME InboxInv, NEW s \in Sessions, AutoFetchSwagger(s)  PROVE InboxInv'
<1>1. PICK w : w = work[s] OBVIOUS
<1>2. Sound(w) BY <1>1 DEF InboxInv
<1>3. PICK found, brought, chosen : SwaggerChosen(s, w, found, brought, chosen)
  BY <1>1, SwaggerFetched
<1>4. found \in Seq(Artifacts) /\ \A i \in DOMAIN found : found[i].content = NoContent
  <2>1. "swagger:1" \in Refs BY DEF Refs
  <2>2. FoundOf("swagger", "swagger:1", found) BY <1>3 DEF SwaggerChosen
  <2>. QED BY <2>1, <2>2, FoundReferences
<1>5. PICK a : a = w.artifacts \o found OBVIOUS
<1>6. a \in Seq(Artifacts) /\ Distinct(a) /\ ContentsOf(a) = ContentsOf(w.artifacts)
  BY <1>2, <1>4, <1>5, ReferencesAfter DEF Sound
<1>7. PICK strategy, sig : strategy = chosen.strategy /\ sig = chosen.signature OBVIOUS
<1>8. w = [x \in Fields |-> w[x]] BY <1>2 DEF Sound
<1>9. PICK v : v = [brought EXCEPT !.phase = "packing", !.strategy = strategy,
                                    !.signature = sig]
  OBVIOUS
<1>10. work' = [work EXCEPT ![s] = v] BY <1>3, <1>7, <1>9 DEF SwaggerChosen
<1>11. brought = [x \in Fields |-> IF x = "artifacts" THEN a ELSE w[x]]
  <2>1. brought = [w EXCEPT !.artifacts = a] BY <1>3, <1>5 DEF SwaggerChosen
  <2>. QED BY <2>1, <1>8 DEF Fields
<1>12. v = [x \in Fields |-> v[x]] /\ v.artifacts = a BY <1>9, <1>11 DEF Fields
<1>13. Sound(v) BY <1>6, <1>12 DEF Sound
<1>14. UNCHANGED <<inbox, takes, stuck, dropped>> BY DEF AutoFetchSwagger
<1>. QED BY <1>1, <1>6, <1>10, <1>12, <1>13, <1>14, SessionGoesOn

\* A reference is recorded once, and says nothing.
LEMMA RecordedReference ==
  ASSUME NEW u \in Seq(Artifacts), Distinct(u), NEW a \in Artifacts,
         a.content = NoContent
  PROVE  /\ RecordArtifact(u, a) \in Seq(Artifacts) /\ Distinct(RecordArtifact(u, a))
         /\ ContentsOf(RecordArtifact(u, a)) = ContentsOf(u)
<1>1. CASE RecordArtifact(u, a) = u BY <1>1
<1>2. CASE RecordArtifact(u, a) = Append(u, a)
  <2>1. PICK r : r = <<a>> OBVIOUS
  <2>2. r \in Seq(Artifacts) /\ \A i \in DOMAIN r : r[i].content = NoContent BY <2>1
  <2>3. RecordArtifact(u, a) = u \o r BY <2>1, <1>2
  <2>4. /\ u \o r \in Seq(Artifacts) /\ Distinct(u \o r)
        /\ ContentsOf(u \o r) = ContentsOf(u)
    BY <2>2, ReferencesAfter
  <2>. QED BY <2>3, <2>4
<1>. QED BY <1>1, <1>2 DEF RecordArtifact

LEMMA FetchJiraInv ==
  ASSUME InboxInv, NEW s \in Sessions, FetchJira(s)  PROVE InboxInv'
<1>1. PICK w : w = work[s] OBVIOUS
<1>2. Sound(w) BY <1>1 DEF InboxInv
<1>3. PICK a : a = [source |-> "jira", ref |-> "jira:1", content |-> NoContent] OBVIOUS
<1>4. a \in Artifacts /\ a.content = NoContent BY <1>3 DEF Artifacts, Refs, Contents
<1>5. PICK u : u = RecordArtifact(w.artifacts, a) OBVIOUS
<1>6. u \in Seq(Artifacts) /\ Distinct(u) /\ ContentsOf(u) = ContentsOf(w.artifacts)
  BY <1>2, <1>4, <1>5, RecordedReference DEF Sound
<1>7. PICK ticket :
        work' = [work EXCEPT ![s].phase = "idle", ![s].slice = ticket,
                   ![s].artifacts = RecordArtifact(@, a)]
  BY <1>3 DEF FetchJira
<1>8. PICK v : v = [w EXCEPT !.phase = "idle", !.slice = ticket, !.artifacts = u] OBVIOUS
<1>9. w = [x \in Fields |-> w[x]] BY <1>2 DEF Sound
<1>10. work' = [work EXCEPT ![s] = v]
  BY <1>1, <1>5, <1>7, <1>8, <1>9 DEF InboxInv, Fields
<1>11. /\ v = [x \in Fields |-> v[x]] /\ v.artifacts = u
  BY <1>8, <1>9 DEF Fields
<1>12. Sound(v) BY <1>2, <1>6, <1>11 DEF Sound
<1>13. UNCHANGED <<inbox, takes, stuck, dropped>> BY DEF FetchJira
<1>. QED BY <1>1, <1>6, <1>10, <1>11, <1>12, <1>13, SessionGoesOn

LEMMA FetchSwaggerInv ==
  ASSUME InboxInv, NEW s \in Sessions, FetchSwagger(s)  PROVE InboxInv'
<1>1. PICK w : w = work[s] OBVIOUS
<1>2. Sound(w) BY <1>1 DEF InboxInv
<1>3. PICK a : a = [source |-> "swagger", ref |-> "swagger:1", content |-> NoContent]
  OBVIOUS
<1>4. a \in Artifacts /\ a.content = NoContent BY <1>3 DEF Artifacts, Refs, Contents
<1>5. PICK u : u = RecordArtifact(w.artifacts, a) OBVIOUS
<1>6. u \in Seq(Artifacts) /\ Distinct(u) /\ ContentsOf(u) = ContentsOf(w.artifacts)
  BY <1>2, <1>4, <1>5, RecordedReference DEF Sound
<1>7. work' = [work EXCEPT ![s].phase = "idle", ![s].artifacts = RecordArtifact(@, a)]
  BY <1>3 DEF FetchSwagger
<1>8. PICK v : v = [w EXCEPT !.phase = "idle", !.artifacts = u] OBVIOUS
<1>9. w = [x \in Fields |-> w[x]] BY <1>2 DEF Sound
<1>10. work' = [work EXCEPT ![s] = v]
  BY <1>1, <1>5, <1>7, <1>8, <1>9 DEF InboxInv, Fields
<1>11. /\ v = [x \in Fields |-> v[x]] /\ v.artifacts = u
  BY <1>8, <1>9 DEF Fields
<1>12. Sound(v) BY <1>2, <1>6, <1>11 DEF Sound
<1>13. UNCHANGED <<inbox, takes, stuck, dropped>> BY DEF FetchSwagger
<1>. QED BY <1>1, <1>6, <1>10, <1>11, <1>12, <1>13, SessionGoesOn

\* What a session takes has contents that it does not have, each once.
LEMMA TakenContents ==
  ASSUME InboxInv, NEW known, NEW taken \in Takings(known), NEW q,
         q = TakenAs(taken)
  PROVE  /\ q \in Seq(Artifacts) /\ Distinct(q)
         /\ ContentsOf(q) = {ContentOf[f] : f \in taken}
         /\ \A i \in Carrying(q) : q[i].content \notin known
<1>1. taken \in SUBSET InboxFiles BY DEF Takings, InboxInv
<1>2. /\ q \in Seq(Artifacts)
      /\ \A i \in DOMAIN q : \E f \in taken : q[i] = InboxArtifact(f)
      /\ \A f \in taken : \E i \in DOMAIN q : q[i] = InboxArtifact(f)
      /\ \A i, j \in DOMAIN q : q[i] = q[j] => i = j
  BY <1>1, TakenSequence
<1>3. \A f \in taken : InboxArtifact(f).content = ContentOf[f] BY DEF InboxArtifact
<1>4. \A f \in taken : ContentOf[f] # NoContent BY <1>1, WorkInitAssumption
<1>5. \A f, g \in taken : ContentOf[f] = ContentOf[g] => f = g BY DEF Takings
<1>6. \A f \in taken : ContentOf[f] \notin known BY DEF Takings
<1>7. Distinct(q)
  <2>. SUFFICES ASSUME NEW i \in DOMAIN q, NEW j \in DOMAIN q, q[i].content = q[j].content
                PROVE  i = j
    BY DEF Distinct, Carrying
  <2>1. PICK f \in taken : q[i] = InboxArtifact(f) BY <1>2
  <2>2. PICK g \in taken : q[j] = InboxArtifact(g) BY <1>2
  <2>3. f = g BY <2>1, <2>2, <1>3, <1>5
  <2>. QED BY <2>1, <2>2, <2>3, <1>2
<1>8. ContentsOf(q) = {ContentOf[f] : f \in taken}
  <2>1. ASSUME NEW i \in DOMAIN q PROVE q[i].content \in {ContentOf[f] : f \in taken}
    <3>1. PICK f \in taken : q[i] = InboxArtifact(f) BY <1>2
    <3>2. q[i].content = ContentOf[f] BY <3>1, <1>3
    <3>. QED BY <3>2
  <2>2. ASSUME NEW f \in taken PROVE ContentOf[f] \in ContentsOf(q)
    <3>1. PICK i \in DOMAIN q : q[i] = InboxArtifact(f) BY <1>2
    <3>2. q[i].content = ContentOf[f] BY <3>1, <1>3
    <3>. QED BY <3>2, <1>4 DEF ContentsOf
  <2>. QED BY <2>1, <2>2 DEF ContentsOf
<1>9. \A i \in Carrying(q) : q[i].content \notin known BY <1>2, <1>3, <1>6 DEF Carrying
<1>. QED BY <1>2, <1>7, <1>8, <1>9

\* args.attachments, passed through.
LEMMA AttachedReferences ==
  ASSUME NEW attached \in Attachments, NEW r,
         r = [i \in DOMAIN attached |->
               [source |-> "attachment", ref |-> attached[i], content |-> NoContent]]
  PROVE  r \in Seq(Artifacts) /\ \A i \in DOMAIN r : r[i].content = NoContent
<1>1. attached \in Seq(STRING) BY WorkInitAssumption
<1>2. PICK n \in Nat : DOMAIN attached = 1 .. n BY <1>1
<1>3. ASSUME NEW i \in 1 .. n
      PROVE  [source |-> "attachment", ref |-> attached[i], content |-> NoContent]
               \in Artifacts
  <2>1. attached[i] \in ToSet(attached) BY <1>2 DEF ToSet
  <2>2. attached[i] \in Refs BY <2>1 DEF Refs
  <2>. QED BY <2>2 DEF Artifacts, Contents
<1>4. r \in [1 .. n -> Artifacts] BY <1>2, <1>3
<1>5. \A i \in DOMAIN r : r[i].content = NoContent OBVIOUS
<1>. QED BY <1>4, <1>5

LEMMA BeginWorkInv ==
  ASSUME InboxInv, NEW s \in Sessions, BeginWork(s)  PROVE InboxInv'
<1>1. PICK w : w = work[s] OBVIOUS
<1>2. Sound(w) BY <1>1 DEF InboxInv
<1>3. PICK known : known = ContentsOf(w.artifacts) OBVIOUS
<1>4. PICK said \in Prompts, lexemes \in Lexemes, attached \in Attachments,
           taken \in Takings(ContentsOf(work[s].artifacts)) :
        \E kept \in SUBSET taken :
          /\ inbox' = inbox \ (taken \ kept)
          /\ stuck' = stuck \cup kept
          /\ takes' = takes \cup {<<s, f>> : f \in taken}
          /\ work' = [work EXCEPT ![s] =
               [TurnStarts(work[s], said, lexemes) EXCEPT !.phase = "memories",
                  !.verbs = @ + 1,
                  !.artifacts = @ \o SetToSeq({InboxArtifact(f) : f \in taken})
                    \o [i \in DOMAIN attached |->
                         [source |-> "attachment", ref |-> attached[i],
                          content |-> NoContent]]]]
  BY Zenon DEF BeginWork
<1>5. PICK kept \in SUBSET taken :
          /\ inbox' = inbox \ (taken \ kept)
          /\ stuck' = stuck \cup kept
          /\ takes' = takes \cup {<<s, f>> : f \in taken}
          /\ work' = [work EXCEPT ![s] =
               [TurnStarts(work[s], said, lexemes) EXCEPT !.phase = "memories",
                  !.verbs = @ + 1,
                  !.artifacts = @ \o SetToSeq({InboxArtifact(f) : f \in taken})
                    \o [i \in DOMAIN attached |->
                         [source |-> "attachment", ref |-> attached[i],
                          content |-> NoContent]]]]
  BY <1>4, Zenon
<1>6. PICK q, r :
         /\ q = TakenAs(taken)
         /\ r = [i \in DOMAIN attached |->
                  [source |-> "attachment", ref |-> attached[i], content |-> NoContent]]
  OBVIOUS
<1>7. /\ taken \in Takings(known)
      /\ inbox' = inbox \ (taken \ kept)
      /\ stuck' = stuck \cup kept
      /\ takes' = takes \cup {<<s, f>> : f \in taken}
      /\ work' = [work EXCEPT ![s] =
                    [TurnStarts(work[s], said, lexemes) EXCEPT !.phase = "memories",
                       !.verbs = @ + 1, !.artifacts = @ \o q \o r]]
  <2>1. taken \in Takings(known) BY <1>1, <1>3, <1>4
  <2>. QED BY <2>1, <1>5, <1>6, Zenon DEF TakenAs
<1>8. /\ q \in Seq(Artifacts) /\ Distinct(q)
      /\ ContentsOf(q) = {ContentOf[f] : f \in taken}
      /\ \A i \in Carrying(q) : q[i].content \notin known
  BY <1>7, <1>6, TakenContents
<1>9. r \in Seq(Artifacts) /\ \A i \in DOMAIN r : r[i].content = NoContent
  BY <1>6, AttachedReferences
<1>10. PICK u : u = w.artifacts OBVIOUS
<1>11. u \in Seq(Artifacts) /\ Distinct(u) BY <1>2, <1>10 DEF Sound
<1>12. PICK x : x = u \o q OBVIOUS
<1>13. x \in Seq(Artifacts) /\ Distinct(x) /\ ContentsOf(x) = known \cup ContentsOf(q)
  BY <1>3, <1>8, <1>10, <1>11, <1>12, JoinedArtifacts
<1>14. PICK a : a = x \o r OBVIOUS
<1>15. a \in Seq(Artifacts) /\ Distinct(a) /\ ContentsOf(a) = known \cup ContentsOf(q)
  BY <1>9, <1>13, <1>14, ReferencesAfter
<1>16. w = [y \in Fields |-> w[y]] BY <1>2 DEF Sound
<1>17. PICK turn : turn = TurnStarts(w, said, lexemes) OBVIOUS
<1>18. /\ turn = [y \in Fields |-> turn[y]]
       /\ \A y \in Fields \ {"prompt", "text", "envelope"} : turn[y] = w[y]
  BY <1>16, <1>17, TurnStarted
<1>19. turn.artifacts = w.artifacts BY <1>18 DEF Fields
<1>20. PICK v : v = [turn EXCEPT !.phase = "memories", !.verbs = @ + 1, !.artifacts = a]
  OBVIOUS
<1>21. work' = [work EXCEPT ![s] = v]
  <2>1. a = turn.artifacts \o q \o r BY <1>10, <1>12, <1>14, <1>19
  <2>2. work' = [work EXCEPT ![s] = [turn EXCEPT !.phase = "memories", !.verbs = @ + 1,
                                              !.artifacts = @ \o q \o r]]
    BY <1>1, <1>7, <1>17
  <2>. QED BY <2>1, <2>2, <1>20
<1>22. v = [y \in Fields |-> v[y]] /\ v.artifacts = a BY <1>20, <1>18 DEF Fields
<1>23. Sound(v) BY <1>15, <1>22 DEF Sound
<1>24. \A t \in Sessions : work'[t] = IF t = s THEN v ELSE work[t]
  BY <1>21 DEF InboxInv
<1>25. taken \in SUBSET inbox BY <1>7 DEF Takings
<1>26. /\ inbox' \subseteq InboxFiles /\ stuck' \subseteq InboxFiles
       /\ takes' \subseteq Sessions \X InboxFiles
  BY <1>7, <1>25 DEF InboxInv
<1>27. work' = [t \in Sessions |-> work'[t]] BY <1>21 DEF InboxInv
<1>28. \A t \in Sessions : Sound(work'[t]) BY <1>23, <1>24 DEF InboxInv
<1>29. ASSUME NEW t \in Sessions, NEW f \in InboxFiles \ stuck', <<t, f>> \in takes'
       PROVE  f \notin inbox' /\ \A p \in Sessions : <<p, f>> \in takes' => p = t
  <2>1. f \notin stuck /\ f \notin kept BY <1>7
  <2>2. CASE f \in taken
    <3>1. f \notin inbox' BY <1>7, <2>1, <2>2
    <3>2. \A p \in Sessions : <<p, f>> \notin takes BY <2>1, <2>2, <1>25 DEF InboxInv
    <3>3. \A p \in Sessions : <<p, f>> \in takes' => p = s BY <1>7, <3>2
    <3>. QED BY <3>1, <3>3, <1>29
  <2>3. CASE f \notin taken
    <3>1. \A p \in Sessions : <<p, f>> \in takes' => <<p, f>> \in takes BY <1>7, <2>3
    <3>2. f \notin inbox BY <3>1, <1>29, <2>1 DEF InboxInv
    <3>3. \A p \in Sessions : <<p, f>> \in takes => p = t BY <3>1, <1>29, <2>1 DEF InboxInv
    <3>. QED BY <3>1, <3>2, <3>3, <1>7
  <2>. QED BY <2>2, <2>3
<1>30. \A t \in Sessions : ContentsOf(work[t].artifacts) \subseteq ContentsOf(work'[t].artifacts)
  BY <1>1, <1>3, <1>15, <1>22, <1>24
<1>31. ASSUME NEW f \in InboxFiles \ inbox'
       PROVE  \/ \E t \in Sessions : ContentOf[f] \in ContentsOf(work'[t].artifacts)
              \/ ContentOf[f] \in dropped'
  <2>1. CASE f \in taken
    <3>1. ContentOf[f] \in ContentsOf(a) BY <2>1, <1>8, <1>15
    <3>2. work'[s].artifacts = a BY <1>22, <1>24
    <3>. QED BY <3>1, <3>2
  <2>2. CASE f \notin taken
    <3>1. f \in InboxFiles \ inbox BY <2>2, <1>7
    <3>2. dropped' = dropped BY DEF BeginWork
    <3>3. \/ \E t \in Sessions : ContentOf[f] \in ContentsOf(work[t].artifacts)
          \/ ContentOf[f] \in dropped
      BY <3>1 DEF InboxInv
    <3>. QED BY <3>2, <3>3, <1>30
  <2>. QED BY <2>1, <2>2
<1>. QED BY <1>26, <1>27, <1>28, <1>29, <1>31 DEF InboxInv

\* Contents that a new session had are noted as dropped.
LEMMA WorkFailsInv ==
  ASSUME InboxInv, NEW s \in Sessions, WorkFails(s)  PROVE InboxInv'
<1>1. CASE work[s].state # "UNINITIALIZED" BY <1>1, PhaseInv DEF WorkFails
<1>2. CASE work[s].state = "UNINITIALIZED"
  <2>1. PICK v : v = NewWork OBVIOUS
  <2>2. /\ work' = [work EXCEPT ![s] = v] /\ UNCHANGED <<inbox, takes, stuck>>
        /\ dropped' = dropped \cup ContentsOf(work[s].artifacts)
    BY <1>2, <2>1 DEF WorkFails
  <2>3. v = [x \in Fields |-> v[x]] BY <2>1 DEF NewWork, Fields
  <2>4. v.artifacts = <<>> BY <2>1 DEF NewWork
  <2>5. <<>> \in Seq(Artifacts) /\ Distinct(<<>>) BY DEF Distinct, Carrying
  <2>6. Sound(v) BY <2>3, <2>4, <2>5 DEF Sound
  <2>7. \A t \in Sessions : work'[t] = IF t = s THEN v ELSE work[t]
    BY <2>2 DEF InboxInv
  <2>8. work' = [t \in Sessions |-> work'[t]] BY <2>2 DEF InboxInv
  <2>9. \A t \in Sessions : Sound(work'[t]) BY <2>6, <2>7 DEF InboxInv
  <2>10. ASSUME NEW f \in InboxFiles \ inbox
         PROVE  \/ \E t \in Sessions : ContentOf[f] \in ContentsOf(work'[t].artifacts)
                \/ ContentOf[f] \in dropped'
    <3>1. CASE ContentOf[f] \in dropped BY <3>1, <2>2
    <3>2. ASSUME NEW t \in Sessions, ContentOf[f] \in ContentsOf(work[t].artifacts)
          PROVE  \/ ContentOf[f] \in ContentsOf(work'[t].artifacts)
                 \/ ContentOf[f] \in dropped'
      BY <3>2, <2>2, <2>7
    <3>. QED BY <3>1, <3>2 DEF InboxInv
  <2>. QED BY <2>2, <2>8, <2>9, <2>10 DEF InboxInv
<1>. QED BY <1>1, <1>2

LEMMA InboxStep == InboxInv /\ [WorkInitNext]_workInitVars => InboxInv'
<1>. SUFFICES ASSUME InboxInv, [WorkInitNext]_workInitVars PROVE InboxInv' OBVIOUS
<1>1. CASE UNCHANGED workInitVars
  BY <1>1 DEF workInitVars, InboxInv, Sound
<1>2. ASSUME NEW s \in Sessions, BeginWork(s) PROVE InboxInv' BY <1>2, BeginWorkInv
<1>3. ASSUME NEW s \in Sessions, QueryMemories(s) PROVE InboxInv'
  BY <1>3, QueryMemoriesInv
<1>4. ASSUME NEW s \in Sessions, AutoFetchJira(s) PROVE InboxInv'
  BY <1>4, AutoFetchJiraInv
<1>5. ASSUME NEW s \in Sessions, AutoFetchSwagger(s) PROVE InboxInv'
  BY <1>5, AutoFetchSwaggerInv
<1>6. ASSUME NEW s \in Sessions, OpenWork(s) PROVE InboxInv' BY <1>6, OpenWorkInv
<1>7. ASSUME NEW s \in Sessions, WorkFails(s) PROVE InboxInv' BY <1>7, WorkFailsInv
<1>8. ASSUME NEW s \in Sessions, BeginFetch(s) PROVE InboxInv' BY <1>8, FetchBeginsInv
<1>9. ASSUME NEW s \in Sessions, FetchJira(s) PROVE InboxInv' BY <1>9, FetchJiraInv
<1>10. ASSUME NEW s \in Sessions, FetchSwagger(s) PROVE InboxInv'
  BY <1>10, FetchSwaggerInv
<1>11. ASSUME NEW s \in Sessions, FetchFails(s) PROVE InboxInv'
  <2>1. /\ work' = [work EXCEPT ![s].phase = "idle"]
        /\ UNCHANGED <<inbox, takes, stuck, dropped>>
    BY <1>11 DEF FetchFails
  <2>. QED BY <2>1, PhaseInv
<1>12. ASSUME NEW s \in Sessions, PlanAccepted(s) PROVE InboxInv'
  BY <1>12, PlanAcceptedInv
<1>13. ASSUME NEW s \in Sessions, BudgetBlocks(s) PROVE InboxInv'
  BY <1>13, BudgetBlocksInv
<1>. QED BY <1>1, <1>2, <1>3, <1>4, <1>5, <1>6, <1>7, <1>8, <1>9, <1>10, <1>11, <1>12,
            <1>13
         DEF WorkInitNext

LEMMA InboxAlways == WorkInitSpec => []InboxInv
BY InboxStarts, InboxStep, PTL DEF WorkInitSpec

\* InboxOnce for any sessions, files and contents: what people drop into the inbox
\* reaches one session, once, unless it could not be renamed; and nothing that was
\* renamed is lost, unless with a session that was not kept.
THEOREM DroppedReachesOnce == WorkInitSpec => []InboxOnce
<1>1. InboxInv => InboxOnce
  <2>. SUFFICES ASSUME InboxInv PROVE InboxOnce OBVIOUS
  <2>1. ASSUME NEW f \in InboxFiles \ stuck
        PROVE  Cardinality({s \in Sessions : <<s, f>> \in takes}) <= 1
    <3>1. CASE {s \in Sessions : <<s, f>> \in takes} = {}
      <4>1. Cardinality({s \in Sessions : <<s, f>> \in takes}) = 0 BY <3>1, FS_EmptySet
      <4>. QED BY <4>1
    <3>2. ASSUME NEW t \in Sessions, <<t, f>> \in takes
          PROVE  Cardinality({s \in Sessions : <<s, f>> \in takes}) <= 1
      <4>1. {s \in Sessions : <<s, f>> \in takes} = {t} BY <3>2 DEF InboxInv
      <4>2. Cardinality({s \in Sessions : <<s, f>> \in takes}) = 1 BY <4>1, FS_Singleton
      <4>. QED BY <4>2
    <3>. QED BY <3>1, <3>2
  <2>2. ASSUME NEW s \in Sessions
        PROVE  Cardinality({i \in DOMAIN work[s].artifacts :
                              work[s].artifacts[i].content # NoContent})
                 = Cardinality(ContentsOf(work[s].artifacts))
    <3>1. PICK u : u = work[s].artifacts OBVIOUS
    <3>2. u \in Seq(Artifacts) /\ Distinct(u) BY <3>1 DEF InboxInv, Sound
    <3>3. Cardinality(Carrying(u)) = Cardinality(ContentsOf(u)) BY <3>2, DistinctCount
    <3>. QED BY <3>1, <3>3 DEF Carrying
  <2>. QED BY <2>1, <2>2 DEF InboxOnce, InboxInv
<1>. QED BY <1>1, InboxAlways, PTL

-----------------------------------------------------------------------------
(* Names and what they mean.                                               *)

NamesHeld ==
  /\ packNames \subseteq Names
  /\ readPlan.allowed \subseteq Names

\* The place of a path in the repository, and back.
LEMMA Placed ==
  ASSUME NEW path \in RepoPaths
  PROVE  /\ IsStrictPrefix(Repo, Repo \o path) /\ ~IsStrictPrefix(Repo, path)
         /\ SubSeq(Repo \o path, 2, Len(Repo \o path)) = path
         /\ \A other \in RepoPaths : Repo \o other = Repo \o path => other = path
<1>1. path \in Seq(STRING) /\ path # <<>> /\ ~IsPrefix(Repo, path) BY ReadAssumption
<1>2. PICK r : r = Repo \o path OBVIOUS
<1>3. PICK n \in Nat : n = Len(path) BY <1>1
<1>4. n > 0 BY <1>1, <1>3
<1>5. /\ r \in Seq(STRING \cup {"repo"}) /\ Len(r) = n + 1 /\ r[1] = "repo"
      /\ \A i \in 1 .. n : r[i + 1] = path[i]
  BY <1>1, <1>2, <1>3 DEF Repo
<1>6. IsStrictPrefix(Repo, r)
  <2>1. SubSeq(Repo, 1, 1) = SubSeq(r, 1, 1) BY <1>4, <1>5 DEF Repo
  <2>2. Len(Repo) = 1 BY DEF Repo
  <2>3. IsPrefix(Repo, r) BY <2>1, <2>2, <1>3, <1>5 DEF IsPrefix
  <2>4. Len(r) # Len(Repo) BY <2>2, <1>3, <1>4, <1>5
  <2>. QED BY <2>3, <2>4 DEF IsStrictPrefix
<1>7. ~IsStrictPrefix(Repo, path) BY <1>1 DEF IsStrictPrefix
<1>8. SubSeq(r, 2, Len(r)) = path
  <2>1. PICK q : q = SubSeq(r, 2, Len(r)) OBVIOUS
  <2>2. q \in Seq(STRING \cup {"repo"}) /\ Len(q) = n BY <2>1, <1>3, <1>5
  <2>3. \A i \in 1 .. n : q[i] = r[i + 1] BY <2>1, <1>3, <1>5
  <2>4. \A i \in 1 .. n : q[i] = path[i] BY <2>3, <1>5
  <2>5. q = path BY <2>2, <2>4, <1>1, <1>3
  <2>. QED BY <2>1, <2>5
<1>9. ASSUME NEW other \in RepoPaths, Repo \o other = r PROVE other = path
  <2>1. other \in Seq(STRING) BY ReadAssumption
  <2>2. Len(other) \in Nat /\ Len(r) = Len(other) + 1 BY <2>1, <1>9 DEF Repo
  <2>3. Len(other) = n BY <2>2, <1>3, <1>5
  <2>4. \A i \in 1 .. n : r[i + 1] = other[i] BY <2>1, <2>3, <1>3, <1>9 DEF Repo
  <2>5. \A i \in 1 .. n : other[i] = path[i] BY <2>4, <1>5
  <2>. QED BY <2>1, <2>3, <2>5, <1>1, <1>3
<1>. QED BY <1>2, <1>6, <1>7, <1>8, <1>9

LEMMA Resolved ==
  ASSUME NEW name \in Names
  PROVE  /\ name.path \in RepoPaths
         /\ name.form # "rooted" => Resolve(Repo, name) = Repo \o name.path
         /\ name.form = "rooted" => Resolve(Repo, name) = name.path
         /\ IsSafePath(Repo, name) <=> name.form # "rooted"
<1>1. name.path \in RepoPaths /\ name.form \in {"relative", "dotted", "absolute", "rooted"}
  BY ReadAssumption DEF Names
<1>2. name.form # "rooted" => Resolve(Repo, name) = Repo \o name.path
  BY <1>1 DEF Resolve
<1>3. name.form = "rooted" => Resolve(Repo, name) = name.path BY DEF Resolve
<1>4. IsStrictPrefix(Repo, Repo \o name.path) /\ ~IsStrictPrefix(Repo, name.path)
  BY <1>1, Placed
<1>5. IsSafePath(Repo, name) <=> name.form # "rooted"
  <2>1. CASE name.form = "rooted" BY <2>1, <1>3, <1>4 DEF IsSafePath
  <2>2. CASE name.form # "rooted" BY <2>2, <1>2, <1>4 DEF IsSafePath, IsStrictPrefix
  <2>. QED BY <2>1, <2>2
<1>. QED BY <1>1, <1>2, <1>3, <1>5

\* A name of a set means a place exactly if a name of the set has its path.
LEMMA MeansPath ==
  ASSUME NEW names \in SUBSET Names, NEW path \in RepoPaths
  PROVE  Repo \o path \in Means(names) <=> \E n \in names : n.path = path
<1>1. ASSUME NEW n \in names, Repo \o path = Repo \o n.path PROVE n.path = path
  <2>1. n.path \in RepoPaths BY Resolved
  <2>. QED BY <1>1, <2>1, Placed
<1>. QED BY <1>1 DEF Means

\* The pack check, said of the place.
LEMMA PackMeans ==
  ASSUME NamesHeld, NEW name \in Names, Repo \o name.path \in OnDisk
  PROVE  (IsInPack(name) <=> Repo \o name.path \in Visible)
<1>1. PICK path : path = name.path OBVIOUS
<1>2. path \in RepoPaths BY <1>1, Resolved
<1>3. PICK f : f = Repo \o path OBVIOUS
<1>4. SubSeq(f, 2, Len(f)) = path BY <1>2, <1>3, Placed
<1>5. f \in OpenLocations <=> InScratch(path) \/ IsAiBypassPath(path)
  BY <1>1, <1>3, <1>4 DEF OpenLocations
<1>6. f \in Means(packNames) <=> \E n \in packNames : n.path = path
  BY <1>2, <1>3, MeansPath DEF NamesHeld
<1>7. f \in Visible <=> /\ packNames # {}
                        /\ f \in Means(packNames) \/ f \in OpenLocations
  BY DEF Visible
<1>8. IsInPack(name) <=> /\ packNames # {}
                         /\ \/ InScratch(path) \/ IsAiBypassPath(path)
                            \/ \E n \in packNames : n.path = path
  BY <1>1 DEF IsInPack, ToRepoRelative
<1>9. IsInPack(name) <=> f \in Visible BY <1>5, <1>6, <1>7, <1>8
<1>. QED BY <1>1, <1>3, <1>9

\* The allowlist check, said of the place.
LEMMA ScopeMeans ==
  ASSUME NamesHeld, NEW name \in Names, ReadRoot = Repo, name.form # "rooted"
  PROVE  ScopeAllowsFile(name) <=>
           (readPlan.allowed # {} =>
              Repo \o name.path \in Means({a \in readPlan.allowed : a.form # "rooted"}))
<1>1. PICK useful : useful = {a \in readPlan.allowed : a.form # "rooted"} OBVIOUS
<1>2. useful \in SUBSET Names BY <1>1 DEF NamesHeld
<1>3. name.path \in RepoPaths BY Resolved
<1>4. Repo \o name.path \in Means(useful) <=> \E a \in useful : a.path = name.path
  BY <1>2, <1>3, MeansPath
<1>5. ASSUME NEW a \in readPlan.allowed
      PROVE  IsSafePath(Repo, a) /\ Resolve(Repo, a) = Repo \o name.path
             <=> a \in useful /\ a.path = name.path
  <2>1. /\ a.path \in RepoPaths
        /\ a.form # "rooted" => Resolve(Repo, a) = Repo \o a.path
        /\ (IsSafePath(Repo, a) <=> a.form # "rooted")
    BY Resolved DEF NamesHeld
  <2>2. Repo \o a.path = Repo \o name.path => a.path = name.path
    BY <2>1, <1>3, Placed
  <2>. QED BY <2>1, <2>2, <1>1
<1>6. IsSafePath(Repo, name) /\ Resolve(Repo, name) = Repo \o name.path BY Resolved
<1>7. ScopeAllowsFile(name) <=>
        (readPlan.allowed # {} =>
           \E a \in readPlan.allowed :
             IsSafePath(Repo, a) /\ Resolve(Repo, a) = Repo \o name.path)
  BY <1>6 DEF ScopeAllowsFile
<1>8. (\E a \in readPlan.allowed :
         IsSafePath(Repo, a) /\ Resolve(Repo, a) = Repo \o name.path)
      <=> \E a \in useful : a.path = name.path
  BY <1>1, <1>5
<1>. QED BY <1>1, <1>4, <1>7, <1>8

LEMMA RangeMeans ==
  ASSUME NamesHeld, NEW name \in Names, ReadRange(name)  PROVE ShowsWhatIsMeant
<1>1. PICK useful : useful = {a \in readPlan.allowed : a.form # "rooted"} OBVIOUS
<1>2. PICK code : code =
        IF ~IsInPack(name) THEN "PACK_SCOPE_VIOLATION"
        ELSE IF ScopeAllowsFile(name) /\ Resolve(ReadRoot, name) \in OnDisk
        THEN "none" ELSE "PLAN_SCOPE_VIOLATION"
  OBVIOUS
<1>3. shown'.verb = "read_range" /\ shown'.asked = {name} /\ shown'.code = code
  BY <1>2 DEF ReadRange
<1>4. ASSUME ReadRoot = Repo
      PROVE  code = "none" <=>
               (/\ name.form # "rooted"
                /\ Repo \o name.path \in OnDisk \cap Visible
                /\ readPlan.allowed # {} => Repo \o name.path \in Means(useful))
  <2>1. code = "none" <=>
          IsInPack(name) /\ ScopeAllowsFile(name) /\ Resolve(Repo, name) \in OnDisk
    BY <1>2, <1>4
  <2>2. CASE name.form = "rooted"
    <3>1. ~IsSafePath(Repo, name) BY <2>2, Resolved
    <3>. QED BY <3>1, <2>1, <2>2, <1>4 DEF ScopeAllowsFile
  <2>3. CASE name.form # "rooted"
    <3>1. Resolve(Repo, name) = Repo \o name.path BY <2>3, Resolved
    <3>2. Repo \o name.path \in OnDisk => (IsInPack(name) <=> Repo \o name.path \in Visible)
      BY PackMeans
    <3>3. ScopeAllowsFile(name) <=>
            (readPlan.allowed # {} => Repo \o name.path \in Means(useful))
      BY <2>3, <1>1, <1>4, ScopeMeans
    <3>. QED BY <3>1, <3>2, <3>3, <2>1, <2>3
  <2>. QED BY <2>2, <2>3
<1>5. shown'.verb # "search" BY <1>3
<1>. QED BY <1>1, <1>3, <1>4, <1>5, Zenon DEF ShowsWhatIsMeant

LEMMA HitsMean ==
  ASSUME NamesHeld, NEW hits \in SUBSET Indexed, ShowHits(hits)  PROVE ShowsWhatIsMeant
<1>1. shown'.verb = "search" /\ shown'.asked = hits
      /\ shown'.files = {Resolve(Repo, h) : h \in {x \in hits : IsInPack(x)}}
  BY DEF ShowHits
<1>2. ASSUME NEW h \in hits
      PROVE  /\ Resolve(Repo, h) = Repo \o h.path
             /\ (IsInPack(h) <=> Repo \o h.path \in Visible)
  <2>1. h \in Names /\ h.form = "absolute" /\ Resolve(Repo, h) \in OnDisk BY DEF Indexed
  <2>2. Resolve(Repo, h) = Repo \o h.path BY <2>1, Resolved
  <2>. QED BY <2>1, <2>2, PackMeans
<1>3. {Resolve(Repo, h) : h \in {x \in hits : IsInPack(x)}} = Means(hits) \cap Visible
  BY <1>2 DEF Means
<1>4. shown'.verb # "read_range" BY <1>1
<1>. QED BY <1>1, <1>3, <1>4, Zenon DEF ShowsWhatIsMeant

LEMMA NamesStep ==
  ASSUME NamesHeld, [ReadNext]_readVars
  PROVE  NamesHeld' /\ (shown' = shown \/ ShowsWhatIsMeant)
<1>1. CASE UNCHANGED readVars BY <1>1 DEF readVars, NamesHeld
<1>2. ASSUME NEW hits \in SUBSET Indexed, ShowHits(hits)
      PROVE  NamesHeld' /\ ShowsWhatIsMeant
  <2>1. NamesHeld' BY <1>2 DEF ShowHits, NamesHeld
  <2>. QED BY <2>1, <1>2, HitsMean
<1>3. CASE ReadSymbol BY <1>2, <1>3 DEF ReadSymbol
<1>4. CASE GrepLexeme BY <1>2, <1>4 DEF GrepLexeme
<1>5. CASE ReadNeighbors
  <2>1. PICK symbols \in SUBSET Indexed, lexical \in SUBSET Indexed :
          ShowHits(symbols \cup lexical)
    BY <1>5 DEF ReadNeighbors
  <2>2. symbols \cup lexical \in SUBSET Indexed OBVIOUS
  <2>. QED BY <2>1, <2>2, <1>2
<1>6. ASSUME NEW name \in Names, PackGrows(name) PROVE NamesHeld' /\ shown' = shown
  BY <1>6 DEF PackGrows, NamesHeld
<1>7. ASSUME NEW name \in Names, ReadRange(name) PROVE NamesHeld' /\ ShowsWhatIsMeant
  <2>1. NamesHeld' BY <1>7 DEF ReadRange, NamesHeld
  <2>. QED BY <2>1, <1>7, RangeMeans
<1>8. ASSUME NEW name \in Names, ListDir(name) PROVE NamesHeld' /\ ShowsWhatIsMeant
  <2>1. NamesHeld' BY <1>8 DEF ListDir, NamesHeld
  <2>2. shown'.verb = "list_dir" BY <1>8 DEF ListDir
  <2>3. shown'.verb # "read_range" /\ shown'.verb # "search" BY <2>2
  <2>. QED BY <2>1, <2>3, Zenon DEF ShowsWhatIsMeant
<1>9. ASSUME NEW root \in PlanRoots, NEW allowed \in Allowlists, PlanComes(root, allowed)
      PROVE  NamesHeld' /\ shown' = shown
  <2>1. readPlan'.allowed = allowed /\ packNames' = packNames /\ shown' = shown
    BY <1>9 DEF PlanComes
  <2>2. allowed \subseteq Names BY ReadAssumption
  <2>. QED BY <2>1, <2>2 DEF NamesHeld
<1>. QED BY <1>1, <1>3, <1>4, <1>5, <1>6, <1>7, <1>8, <1>9 DEF ReadNext

\* NamingDoesNotMatter for any paths, forms, packs, allowlists and files: while the
\* plan works in the repository itself, what a read shows depends on the places that
\* pack, allowlist and request mean, and a search shows what the pack means always.
THEOREM NamesByMeaning == ReadSpec => NamingDoesNotMatter
<1>1. ReadInit => NamesHeld
  <2>. SUFFICES ASSUME ReadInit PROVE NamesHeld OBVIOUS
  <2>1. packNames \subseteq Names BY ReadAssumption DEF ReadInit
  <2>2. readPlan.allowed = {} BY DEF ReadInit
  <2>. QED BY <2>1, <2>2 DEF NamesHeld
<1>2. NamesHeld /\ [ReadNext]_readVars => NamesHeld' BY NamesStep
<1>3. NamesHeld /\ [ReadNext]_readVars => [shown' = shown \/ ShowsWhatIsMeant]_readVars
  BY NamesStep
<1>. QED BY <1>1, <1>2, <1>3, PTL DEF ReadSpec, NamingDoesNotMatter

-----------------------------------------------------------------------------
(* PlanReview: the search for a cycle.                                     *)

LEMMA LeastNatural ==
  ASSUME NEW S, S \subseteq Nat, S # {}
  PROVE  \E m \in S : \A n \in S : m <= n
<1>1. PICK m \in S : \A n \in S : <<n, m>> \notin OpToRel(<, Nat)
  BY WFMin, NatLessThanWellFounded, Zenon
<1>2. \A n \in S : ~ (n < m) BY <1>1 DEF OpToRel
<1> QED
  BY <1>2

EachUpTo(after, visit, ids, search, n) ==
  after = [i \in 0 .. n |-> IF i = 0 THEN search ELSE visit[ids[i]][after[i - 1]]]

LEMMA EachExists ==
  ASSUME NEW visit, NEW ids, NEW search, NEW n \in Nat
  PROVE  \E after : EachUpTo(after, visit, ids, search, n)
<1> DEFINE Step(K, i) == IF i = 0 THEN search ELSE visit[ids[i]][K[i - 1]]
           Bad == {k \in Nat : ~\E K : EachUpTo(K, visit, ids, search, k)}
<1> SUFFICES ASSUME Bad # {} PROVE FALSE
  OBVIOUS
<1>1. PICK m \in Bad : \A k \in Bad : m <= k
  BY LeastNatural
<1>2. m # 0
  <2>1. PICK K : K = [i \in 0 .. 0 |-> search]
    OBVIOUS
  <2>2. \A i \in 0 .. 0 : search = Step(K, i)
    OBVIOUS
  <2>3. K = [i \in 0 .. 0 |-> Step(K, i)]
    <3> HIDE DEF Step
    <3> QED
      BY <2>1, <2>2
  <2>4. EachUpTo(K, visit, ids, search, 0)
    BY <2>3, Zenon DEF EachUpTo
  <2> QED
    BY <1>1, <2>4
<1>3. m - 1 \in Nat /\ m \in Nat /\ \E K : EachUpTo(K, visit, ids, search, m - 1)
  BY <1>1, <1>2
<1>4. PICK K : K = [i \in 0 .. (m - 1) |-> Step(K, i)]
  BY <1>3 DEF EachUpTo
<1>5. PICK L : L = [i \in 0 .. m |-> Step(K, i)]
  OBVIOUS
<1>6. \A i \in 0 .. (m - 1) : L[i] = K[i]
  <2> HIDE DEF Step
  <2> TAKE i \in 0 .. (m - 1)
  <2>1. i \in 0 .. m
    BY <1>3
  <2>2. K[i] = Step(K, i)
    BY <1>4, Zenon
  <2>3. L[i] = Step(K, i)
    BY <1>5, <2>1, Zenon
  <2> QED
    BY <2>2, <2>3
<1>7. \A i \in 0 .. m : Step(K, i) = Step(L, i)
  <2> TAKE i \in 0 .. m
  <2>1. CASE i = 0
    BY <2>1
  <2>2. CASE i # 0
    <3>1. i - 1 \in 0 .. (m - 1)
      BY <2>2, <1>3
    <3>2. L[i - 1] = K[i - 1]
      BY <3>1, <1>6
    <3> QED
      BY <3>2, <2>2
  <2> QED
    BY <2>1, <2>2
<1>8. L = [i \in 0 .. m |-> Step(L, i)]
  <2> HIDE DEF Step
  <2> QED
    BY <1>5, <1>7
<1> QED
  BY <1>1, <1>8 DEF EachUpTo

\* What is searched below a list of ids, one id after the other.
LEMMA EachDefined ==
  ASSUME NEW visit, NEW ids, NEW search, Len(ids) \in Nat
  PROVE  \E after : /\ VisitEach(visit, ids, search) = after[Len(ids)]
                    /\ after[0] = search
                    /\ \A i \in 1 .. Len(ids) : after[i] = visit[ids[i]][after[i - 1]]
<1>1. PICK n : n = Len(ids)
  OBVIOUS
<1>2. \E K : K = [i \in 0 .. n |-> IF i = 0 THEN search ELSE visit[ids[i]][K[i - 1]]]
  <2>1. \E K : EachUpTo(K, visit, ids, search, n)
    BY <1>1, EachExists
  <2> QED
    BY <2>1, Zenon DEF EachUpTo
<1>3. PICK A : A = CHOOSE K : K = [i \in 0 .. n |->
                     IF i = 0 THEN search ELSE visit[ids[i]][K[i - 1]]]
  OBVIOUS
<1>4. VisitEach(visit, ids, search) = A[n]
  BY <1>1, <1>3, Zenon DEF VisitEach
<1>5. A = [i \in 0 .. n |-> IF i = 0 THEN search ELSE visit[ids[i]][A[i - 1]]]
  BY <1>2, <1>3, Zenon
<1>6. \A i \in 0 .. n : A[i] = IF i = 0 THEN search ELSE visit[ids[i]][A[i - 1]]
  BY <1>5
<1>7. 0 \in 0 .. n /\ \A i \in 1 .. n : i \in 0 .. n /\ i # 0
  BY <1>1
<1> QED
  BY <1>1, <1>4, <1>6, <1>7

VisitAt(visit, plan, depth) ==
  [id \in NamedIn(plan) |-> [search \in Searches(NamedIn(plan)) |->
     IF depth = 0 THEN [search EXCEPT !.cycle = TRUE]
     ELSE Visit(visit, plan, id, search)]]

VisitsUpTo(V, plan, n) == V = [depth \in 0 .. n |-> VisitAt(V[depth - 1], plan, depth)]

LEMMA VisitsExist ==
  ASSUME NEW plan, NEW n \in Nat
  PROVE  \E V : VisitsUpTo(V, plan, n)
<1> DEFINE Step(K, i) == VisitAt(K[i - 1], plan, i)
           Bad == {k \in Nat : ~\E K : VisitsUpTo(K, plan, k)}
<1> SUFFICES ASSUME Bad # {} PROVE FALSE
  OBVIOUS
<1>0. \A K, L : Step(K, 0) = Step(L, 0)
  BY DEF VisitAt
<1>1. PICK m \in Bad : \A k \in Bad : m <= k
  BY LeastNatural
<1>2. m # 0
  <2>1. PICK K : K = [i \in 0 .. 0 |-> Step(<<>>, 0)]
    OBVIOUS
  <2>2. \A i \in 0 .. 0 : Step(<<>>, 0) = Step(K, i)
    <3> HIDE DEF Step
    <3>1. \A i \in 0 .. 0 : i = 0
      OBVIOUS
    <3> QED
      BY <1>0, <3>1
  <2>3. K = [i \in 0 .. 0 |-> Step(K, i)]
    <3> HIDE DEF Step
    <3> QED
      BY <2>1, <2>2
  <2> QED
    BY <1>1, <2>3 DEF VisitsUpTo
<1>3. m - 1 \in Nat /\ m \in Nat /\ \E K : VisitsUpTo(K, plan, m - 1)
  BY <1>1, <1>2
<1>4. PICK K : K = [i \in 0 .. (m - 1) |-> Step(K, i)]
  BY <1>3 DEF VisitsUpTo
<1>5. PICK L : L = [i \in 0 .. m |-> Step(K, i)]
  OBVIOUS
<1>6. \A i \in 0 .. (m - 1) : L[i] = K[i]
  <2> HIDE DEF Step
  <2> TAKE i \in 0 .. (m - 1)
  <2>1. i \in 0 .. m
    BY <1>3
  <2>2. K[i] = Step(K, i)
    BY <1>4, Zenon
  <2>3. L[i] = Step(K, i)
    BY <1>5, <2>1, Zenon
  <2> QED
    BY <2>2, <2>3
<1>7. \A i \in 0 .. m : Step(K, i) = Step(L, i)
  <2> TAKE i \in 0 .. m
  <2>1. CASE i = 0
    BY <1>0, <2>1
  <2>2. CASE i # 0
    <3>1. i - 1 \in 0 .. (m - 1)
      BY <2>2, <1>3
    <3>2. L[i - 1] = K[i - 1]
      BY <3>1, <1>6
    <3> QED
      BY <3>2, <2>2
  <2> QED
    BY <2>1, <2>2
<1>8. L = [i \in 0 .. m |-> Step(L, i)]
  <2> HIDE DEF Step
  <2> QED
    BY <1>5, <1>7
<1> QED
  BY <1>1, <1>8 DEF VisitsUpTo

LEMMA VisitsDefined ==
  ASSUME NEW plan, Cardinality(NamedIn(plan)) \in Nat
  PROVE  \E V : /\ Visits(plan) = V[Cardinality(NamedIn(plan))]
                /\ \A depth \in 0 .. Cardinality(NamedIn(plan)) :
                     V[depth] = VisitAt(V[depth - 1], plan, depth)
<1>1. PICK n : n = Cardinality(NamedIn(plan))
  OBVIOUS
<1> DEFINE Eq(V) == V = [depth \in 0 .. n |->
                      [id \in NamedIn(plan) |-> [search \in Searches(NamedIn(plan)) |->
                         IF depth = 0 THEN [search EXCEPT !.cycle = TRUE]
                         ELSE Visit(V[depth - 1], plan, id, search)]]]
<1>2. \E V : Eq(V)
  <2>1. \E V : VisitsUpTo(V, plan, n)
    BY <1>1, VisitsExist
  <2> QED
    BY <2>1, Zenon DEF VisitsUpTo, VisitAt
<1>3. Visits(plan) = (CHOOSE V : Eq(V))[n]
  BY <1>1, Zenon DEF Visits
<1>4. PICK V : V = CHOOSE W : Eq(W)
  OBVIOUS
<1>5. Eq(V)
  <2> HIDE DEF Eq
  <2> QED
    BY <1>2, <1>4, Zenon
<1>6. V = [depth \in 0 .. n |-> VisitAt(V[depth - 1], plan, depth)]
  BY <1>5, Zenon DEF VisitAt
<1>7. \A depth \in 0 .. n : V[depth] = VisitAt(V[depth - 1], plan, depth)
  BY <1>6
<1>8. Visits(plan) = V[n]
  <2> HIDE DEF Eq
  <2> QED
    BY <1>3, <1>4
<1> QED
  BY <1>1, <1>7, <1>8

Dep(plan, id) == ToSet(DependenciesOf(plan, id))

\* Ids that all depend on one another: none of them can come first.
StuckIds(plan, S) == S # {} /\ \A id \in S : Dep(plan, id) \cap S # {}

Cyclic(plan) == \E S \in SUBSET NamedIn(plan) : StuckIds(plan, S)

\* What was visited can be put in an order.
SoundlyVisited(plan, visited) ==
  /\ \A id \in visited : Dep(plan, id) \subseteq visited
  /\ \A S \in SUBSET visited : ~StuckIds(plan, S)

\* A search that may go on: what is being visited leads back to itself or to
\* the id that is visited next, and there is room for n more ids.
SearchFits(plan, id, s, n) ==
  /\ s \in Searches(NamedIn(plan))
  /\ ~s.cycle
  /\ s.visiting \cap s.visited = {}
  /\ SoundlyVisited(plan, s.visited)
  /\ Cardinality(NamedIn(plan) \ s.visiting) <= n
  /\ \A v \in s.visiting : Dep(plan, v) \cap (s.visiting \cup {id}) # {}

\* What a search s has become once ids were visited.
SearchedTo(plan, s, t, ids) ==
  /\ t \in Searches(NamedIn(plan))
  /\ t.cycle => Cyclic(plan)
  /\ ~t.cycle => /\ t.visiting = s.visiting
                 /\ s.visited \cup ids \subseteq t.visited
                 /\ t.visiting \cap t.visited = {}
                 /\ SoundlyVisited(plan, t.visited)

\* visit does what it should wherever there is room for n more ids.
VisitsWell(plan, visit, n) ==
  \A id \in NamedIn(plan), s \in Searches(NamedIn(plan)) :
    /\ s.cycle => visit[id][s] = s
    /\ SearchFits(plan, id, s, n) => SearchedTo(plan, s, visit[id][s], {id})

\* The ids of a list, visited one after the other.
LEMMA EachSearched ==
  ASSUME NEW plan, NEW visit, NEW n, NEW ids \in Seq(NamedIn(plan)),
         VisitsWell(plan, visit, n),
         NEW s \in Searches(NamedIn(plan)),
         ~s.cycle, s.visiting \cap s.visited = {}, SoundlyVisited(plan, s.visited),
         \A i \in 1 .. Len(ids) : SearchFits(plan, ids[i], s, n)
  PROVE  SearchedTo(plan, s, VisitEach(visit, ids, s), ToSet(ids))
<1>1. Len(ids) \in Nat /\ \A i \in 1 .. Len(ids) : ids[i] \in NamedIn(plan)
  OBVIOUS
<1>2. PICK after : /\ VisitEach(visit, ids, s) = after[Len(ids)]
                   /\ after[0] = s
                   /\ \A i \in 1 .. Len(ids) : after[i] = visit[ids[i]][after[i - 1]]
  BY <1>1, EachDefined
<1> DEFINE First(i) == {ids[j] : j \in 1 .. i}
           P(i) == SearchedTo(plan, s, after[i], First(i))
           Bad == {i \in 0 .. Len(ids) : ~P(i)}
<1>3. P(0)
  BY <1>2 DEF SearchedTo
<1>4. ASSUME NEW i \in 1 .. Len(ids), P(i - 1)
      PROVE  P(i)
  <2>1. PICK a : a = after[i - 1]
    OBVIOUS
  <2>2. PICK d : d = ids[i]
    OBVIOUS
  <2>3. d \in NamedIn(plan) /\ after[i] = visit[d][a] /\ SearchFits(plan, d, s, n)
    BY <1>1, <1>2, <2>1, <2>2
  <2>4. SearchedTo(plan, s, a, First(i - 1))
    BY <1>4, <2>1
  <2>5. First(i) = First(i - 1) \cup {d}
    BY <2>2, <1>1
  <2> HIDE DEF First
  <2>6. CASE a.cycle
    <3>1. after[i] = a
      BY <2>3, <2>4, <2>6 DEF VisitsWell, SearchedTo
    <3> QED
      BY <3>1, <2>4, <2>6 DEF SearchedTo
  <2>7. CASE ~a.cycle
    <3>1. SearchFits(plan, d, a, n)
      BY <2>3, <2>4, <2>7 DEF SearchFits, SearchedTo
    <3>2. SearchedTo(plan, a, after[i], {d})
      BY <2>3, <3>1, <2>4 DEF VisitsWell, SearchedTo
    <3> QED
      BY <2>4, <2>5, <2>7, <3>2 DEF SearchedTo
  <2> QED
    BY <2>6, <2>7
<1>5. Bad = {}
  <2> SUFFICES ASSUME Bad # {} PROVE FALSE
    OBVIOUS
  <2> HIDE DEF P
  <2>0. Bad \subseteq Nat
    BY <1>1
  <2>1. PICK m \in Bad : \A k \in Bad : m <= k
    <3> HIDE DEF Bad
    <3> QED
      BY <2>0, LeastNatural
  <2>2. m \in 1 .. Len(ids)
    BY <1>1, <1>3, <2>1
  <2>3. P(m - 1)
    BY <1>1, <2>1, <2>2
  <2> QED
    BY <1>4, <2>1, <2>2, <2>3
<1>6. SearchedTo(plan, s, after[Len(ids)], First(Len(ids)))
  <2> HIDE DEF P
  <2>1. Len(ids) \in 0 .. Len(ids)
    BY <1>1
  <2>2. P(Len(ids))
    BY <1>5, <2>1
  <2> QED
    BY <2>2 DEF P
<1>7. First(Len(ids)) = ToSet(ids)
  BY <1>1 DEF ToSet
<1> QED
  BY <1>2, <1>6, <1>7

\* What is visited with what it depends on can be put in an order with it.
LEMMA VisitedInOrder ==
  ASSUME NEW plan, NEW id, NEW visited, id \notin visited,
         SoundlyVisited(plan, visited), Dep(plan, id) \subseteq visited
  PROVE  SoundlyVisited(plan, visited \cup {id})
<1>1. ASSUME NEW S \in SUBSET (visited \cup {id}), StuckIds(plan, S)
      PROVE  FALSE
  <2>1. \A v \in S \cap visited : Dep(plan, v) \cap (S \cap visited) # {}
    BY <1>1 DEF SoundlyVisited, StuckIds
  <2>2. S \cap visited # {}
    BY <1>1 DEF StuckIds
  <2>3. StuckIds(plan, S \cap visited)
    BY <2>1, <2>2 DEF StuckIds
  <2> QED
    BY <2>3 DEF SoundlyVisited
<1> QED
  BY <1>1 DEF SoundlyVisited

LEMMA VisitSearched ==
  ASSUME NEW plan, NEW visit, NEW n \in Nat, VisitsWell(plan, visit, n),
         IsFiniteSet(NamedIn(plan)),
         NEW id \in NamedIn(plan), DependenciesOf(plan, id) \in Seq(NamedIn(plan)),
         NEW s, SearchFits(plan, id, s, n + 1)
  PROVE  SearchedTo(plan, s, Visit(visit, plan, id, s), {id})
<1>1. /\ s \in Searches(NamedIn(plan)) /\ ~s.cycle
      /\ s.visiting \subseteq NamedIn(plan)
  BY DEF SearchFits, Searches
<1>2. CASE id \in s.visited
  BY <1>1, <1>2 DEF Visit, SearchFits, SearchedTo
<1>3. CASE id \in s.visiting
  <2>1. StuckIds(plan, s.visiting)
    BY <1>3 DEF SearchFits, StuckIds
  <2>2. Cyclic(plan)
    BY <1>1, <2>1 DEF Cyclic
  <2>3. id \notin s.visited
    BY <1>3 DEF SearchFits
  <2>4. Visit(visit, plan, id, s) = [s EXCEPT !.cycle = TRUE]
    BY <1>1, <1>3, <2>3 DEF Visit
  <2> QED
    BY <1>1, <2>2, <2>4 DEF SearchedTo, Searches
<1>4. CASE id \notin s.visiting /\ id \notin s.visited
  <2>1. PICK b : b = [s EXCEPT !.visiting = s.visiting \cup {id}]
    OBVIOUS
  <2>2. PICK below : below = VisitEach(visit, DependenciesOf(plan, id), b)
    OBVIOUS
  <2>3. Visit(visit, plan, id, s) =
          IF below.cycle THEN below
          ELSE [below EXCEPT !.visiting = below.visiting \ {id},
                             !.visited = below.visited \cup {id}]
    BY <1>1, <1>4, <2>1, <2>2, Zenon DEF Visit
  <2>4. /\ b \in Searches(NamedIn(plan)) /\ ~b.cycle
        /\ b.visiting = s.visiting \cup {id} /\ b.visited = s.visited
    BY <1>1, <2>1 DEF Searches
  <2>5. b.visiting \cap b.visited = {} /\ SoundlyVisited(plan, b.visited)
    BY <1>4, <2>4 DEF SearchFits
  <2>6. Cardinality(NamedIn(plan) \ b.visiting) <= n
    <3>1. PICK left : left = NamedIn(plan) \ s.visiting
      OBVIOUS
    <3>2. IsFiniteSet(left) /\ Cardinality(left) \in Nat
      BY <3>1, FS_Subset, FS_CardinalityType
    <3>3. Cardinality(left) <= n + 1 /\ id \in left
      BY <1>4, <3>1 DEF SearchFits
    <3>4. Cardinality(left \ {id}) = Cardinality(left) - 1
      BY <3>2, <3>3, FS_RemoveElement
    <3>5. NamedIn(plan) \ b.visiting = left \ {id}
      BY <2>4, <3>1
    <3>6. Cardinality(left \ {id}) <= n
      BY <3>2, <3>3, <3>4
    <3> QED
      BY <3>5, <3>6
  <2>7. PICK deps : deps = DependenciesOf(plan, id)
    OBVIOUS
  <2>8. /\ deps \in Seq(NamedIn(plan)) /\ ToSet(deps) = Dep(plan, id)
        /\ \A i \in 1 .. Len(deps) : deps[i] \in Dep(plan, id)
    BY <2>7 DEF Dep, ToSet
  <2>9. \A i \in 1 .. Len(deps) : SearchFits(plan, deps[i], b, n)
    BY <2>4, <2>5, <2>6, <2>8 DEF SearchFits
  <2>10. SearchedTo(plan, b, below, Dep(plan, id))
    BY <2>2, <2>4, <2>5, <2>7, <2>8, <2>9, EachSearched
  <2>11. CASE below.cycle
    BY <2>3, <2>10, <2>11 DEF SearchedTo
  <2>12. CASE ~below.cycle
    <3>1. PICK t : t = Visit(visit, plan, id, s)
      OBVIOUS
    <3>2. /\ below \in Searches(NamedIn(plan))
          /\ below.visiting = s.visiting \cup {id}
          /\ s.visited \cup Dep(plan, id) \subseteq below.visited
          /\ below.visiting \cap below.visited = {}
          /\ SoundlyVisited(plan, below.visited)
      BY <2>4, <2>10, <2>12 DEF SearchedTo
    <3>3. /\ t \in Searches(NamedIn(plan)) /\ ~t.cycle
          /\ t.visiting = below.visiting \ {id}
          /\ t.visited = below.visited \cup {id}
      <4>1. t = [below EXCEPT !.visiting = below.visiting \ {id},
                               !.visited = below.visited \cup {id}]
        BY <2>3, <2>12, <3>1
      <4> QED
        BY <2>12, <3>2, <4>1 DEF Searches
    <3>4. SoundlyVisited(plan, t.visited)
      <4>1. PICK visited : visited = below.visited
        OBVIOUS
      <4>2. id \notin visited /\ SoundlyVisited(plan, visited) /\ Dep(plan, id) \subseteq visited
        BY <3>2, <4>1
      <4>3. SoundlyVisited(plan, visited \cup {id})
        BY <4>2, VisitedInOrder
      <4> QED
        BY <3>3, <4>1, <4>3
    <3>5. /\ t.visiting = s.visiting
          /\ s.visited \cup {id} \subseteq t.visited
          /\ t.visiting \cap t.visited = {}
      BY <1>4, <3>2, <3>3
    <3> QED
      BY <3>1, <3>3, <3>4, <3>5 DEF SearchedTo
  <2> QED
    BY <2>11, <2>12
<1> QED
  BY <1>2, <1>3, <1>4

Listed(plan) ==
  /\ IsFiniteSet(NamedIn(plan))
  /\ \A id \in NamedIn(plan) : DependenciesOf(plan, id) \in Seq(NamedIn(plan))

LEMMA VisitsSearch ==
  ASSUME NEW plan, Listed(plan)
  PROVE  VisitsWell(plan, Visits(plan), Cardinality(NamedIn(plan)))
<1>1. PICK c : c = Cardinality(NamedIn(plan))
  OBVIOUS
<1>2. c \in Nat
  BY <1>1, FS_CardinalityType DEF Listed
<1>3. PICK V : /\ Visits(plan) = V[c]
               /\ \A depth \in 0 .. c : V[depth] = VisitAt(V[depth - 1], plan, depth)
  BY <1>1, <1>2, VisitsDefined
<1>4. ASSUME NEW depth \in 0 .. c, NEW id \in NamedIn(plan), NEW s \in Searches(NamedIn(plan))
      PROVE  V[depth][id][s] = IF depth = 0 THEN [s EXCEPT !.cycle = TRUE]
                               ELSE Visit(V[depth - 1], plan, id, s)
  <2>1. V[depth] = VisitAt(V[depth - 1], plan, depth)
    BY <1>3
  <2> DEFINE Result(search) == IF depth = 0 THEN [search EXCEPT !.cycle = TRUE]
                               ELSE Visit(V[depth - 1], plan, id, search)
  <2>2. V[depth][id] = [search \in Searches(NamedIn(plan)) |-> Result(search)]
    BY <2>1 DEF VisitAt
  <2>3. V[depth][id][s] = Result(s)
    <3> HIDE DEF Result
    <3> QED
      BY <2>2
  <2> QED
    BY <2>3
<1>5. VisitsWell(plan, V[0], 0)
  <2> SUFFICES ASSUME NEW id \in NamedIn(plan), NEW s \in Searches(NamedIn(plan))
               PROVE  /\ s.cycle => V[0][id][s] = s
                      /\ SearchFits(plan, id, s, 0) => SearchedTo(plan, s, V[0][id][s], {id})
    BY DEF VisitsWell
  <2>1. PICK t : t = V[0][id][s]
    OBVIOUS
  <2>2. t = [s EXCEPT !.cycle = TRUE]
    BY <1>2, <1>4, <2>1
  <2>3. s.cycle => t = s
    BY <2>2 DEF Searches
  <2>4. ASSUME SearchFits(plan, id, s, 0)
        PROVE  Cyclic(plan)
    <3>1. PICK left : left = NamedIn(plan) \ s.visiting
      OBVIOUS
    <3>2. IsFiniteSet(left) /\ Cardinality(left) \in Nat
      BY <3>1, FS_Subset, FS_CardinalityType DEF Listed
    <3>3. Cardinality(left) = 0
      BY <2>4, <3>1, <3>2 DEF SearchFits
    <3>4. left = {}
      BY <3>2, <3>3, FS_EmptySet
    <3>5. id \in s.visiting /\ s.visiting \subseteq NamedIn(plan)
      BY <3>1, <3>4 DEF Searches
    <3>6. StuckIds(plan, s.visiting)
      BY <2>4, <3>5 DEF SearchFits, StuckIds
    <3> QED
      BY <3>5, <3>6 DEF Cyclic
  <2>5. t \in Searches(NamedIn(plan)) /\ t.cycle
    BY <2>2 DEF Searches
  <2> QED
    BY <2>1, <2>3, <2>4, <2>5 DEF SearchedTo
<1>6. ASSUME NEW m \in 1 .. c, VisitsWell(plan, V[m - 1], m - 1)
      PROVE  VisitsWell(plan, V[m], m)
  <2> SUFFICES ASSUME NEW id \in NamedIn(plan), NEW s \in Searches(NamedIn(plan))
               PROVE  /\ s.cycle => V[m][id][s] = s
                      /\ SearchFits(plan, id, s, m) => SearchedTo(plan, s, V[m][id][s], {id})
    BY DEF VisitsWell
  <2>1. V[m][id][s] = Visit(V[m - 1], plan, id, s)
    <3>1. m \in 0 .. c /\ m # 0
      BY <1>2
    <3> QED
      BY <1>4, <3>1, Zenon
  <2>2. s.cycle => Visit(V[m - 1], plan, id, s) = s
    BY DEF Visit
  <2>3. PICK n \in Nat : n = m - 1
    BY <1>2
  <2>6. PICK visit : visit = V[m - 1]
    OBVIOUS
  <2>4. VisitsWell(plan, visit, n) /\ m = n + 1
    BY <1>2, <1>6, <2>3, <2>6
  <2>5. ASSUME SearchFits(plan, id, s, m)
        PROVE  SearchedTo(plan, s, Visit(visit, plan, id, s), {id})
    <3>1. SearchFits(plan, id, s, n + 1)
      BY <2>4, <2>5
    <3> QED
      BY <2>4, <3>1, VisitSearched DEF Listed
  <2> QED
    BY <2>1, <2>2, <2>6, <2>5
<1> DEFINE P(m) == VisitsWell(plan, V[m], m)
           Bad == {m \in 0 .. c : ~P(m)}
<1>7. Bad = {}
  <2> SUFFICES ASSUME Bad # {} PROVE FALSE
    OBVIOUS
  <2>0. P(0) /\ \A k \in 1 .. c : P(k - 1) => P(k)
    BY <1>5, <1>6
  <2> HIDE DEF P
  <2>4. Bad \subseteq Nat
    BY <1>2
  <2>1. PICK m \in Bad : \A k \in Bad : m <= k
    <3> HIDE DEF Bad
    <3> QED
      BY <2>4, LeastNatural
  <2>2. m \in 1 .. c
    BY <1>2, <2>0, <2>1
  <2>3. P(m - 1)
    BY <1>2, <2>1, <2>2
  <2> QED
    BY <2>0, <2>1, <2>2, <2>3
<1> QED
  BY <1>1, <1>2, <1>3, <1>7

-----------------------------------------------------------------------------
(* PlanReview: what a plan lists.                                          *)

LEMMA FiniteRange ==
  ASSUME NEW T, NEW q \in Seq(T)
  PROVE  IsFiniteSet(ToSet(q))
<1>1. PICK n \in Nat : n = Len(q)
  OBVIOUS
<1>2. q \in Surjection(1 .. n, ToSet(q))
  BY <1>1 DEF Surjection, ToSet
<1>3. IsFiniteSet(1 .. n)
  BY FS_Interval
<1> QED
  BY <1>2, <1>3, FS_Surjection

\* The nodes that count for an id: the last of it.
LEMMA LastOfId ==
  ASSUME NEW plan, plan.nodes \in Seq(ToSet(plan.nodes)), NEW id
  PROVE  \/ id \notin IdsOf(NodesOf(plan)) /\ DependenciesOf(plan, id) = <<>>
         \/ \E i \in DOMAIN plan.nodes : /\ plan.nodes[i].id = id
                                         /\ DependenciesOf(plan, id) = plan.nodes[i].dependsOn
<1> DEFINE at == {i \in DOMAIN plan.nodes : plan.nodes[i].id = id}
<1>1. PICK n \in Nat : n = Len(plan.nodes)
  OBVIOUS
<1>2. DOMAIN plan.nodes = 1 .. n
  BY <1>1
<1>3. CASE at = {}
  <2>1. id \notin IdsOf(NodesOf(plan))
    BY <1>3 DEF IdsOf, NodesOf, ToSet
  <2> QED
    BY <1>3, <2>1 DEF DependenciesOf
<1>4. CASE at # {}
  <2>1. PICK ends : ends = {n - i : i \in at}
    OBVIOUS
  <2>2. ends \subseteq Nat /\ ends # {}
    BY <1>2, <1>4, <2>1
  <2>3. PICK e \in ends : \A k \in ends : e <= k
    BY <2>2, LeastNatural
  <2>4. PICK i \in at : e = n - i
    BY <2>1, <2>3
  <2>5. \A j \in at : j <= i
    <3> TAKE j \in at
    <3>1. n - j \in ends
      BY <2>1
    <3>2. n - i <= n - j /\ i \in Nat /\ j \in Nat
      BY <1>2, <2>3, <2>4, <3>1
    <3> QED
      BY <3>2
  <2>6. PICK k : k = CHOOSE m \in at : \A j \in at : j <= m
    OBVIOUS
  <2>7. k \in at
    BY <2>5, <2>6
  <2>8. DependenciesOf(plan, id) = plan.nodes[k].dependsOn
    BY <1>4, <2>6 DEF DependenciesOf
  <2> QED
    BY <2>7, <2>8
<1> QED
  BY <1>3, <1>4

LEMMA PlansListed ==
  ASSUME NEW plan \in Plans
  PROVE  Listed(plan)
<1>1. plan.nodes \in Seq(ToSet(plan.nodes))
  BY PlansAssumption
<1>2. PICK nodes : nodes = NodesOf(plan)
  OBVIOUS
<1>3. \A n \in nodes : n.dependsOn \in Seq(DependsOn(n))
  BY <1>2, PlansAssumption DEF NodesOf, DependsOn
<1>4. IsFiniteSet(nodes)
  BY <1>1, <1>2, FiniteRange DEF NodesOf
<1>5. IsFiniteSet(IdsOf(nodes))
  <2>1. PICK f : f = [n \in nodes |-> n.id]
    OBVIOUS
  <2>2. f \in Surjection(nodes, IdsOf(nodes))
    BY <2>1 DEF Surjection, IdsOf
  <2> QED
    BY <1>4, <2>2, FS_Surjection
<1>6. IsFiniteSet(UNION {DependsOn(n) : n \in nodes})
  <2>1. PICK sets : sets = {DependsOn(n) : n \in nodes}
    OBVIOUS
  <2>2. PICK f : f = [n \in nodes |-> DependsOn(n)]
    OBVIOUS
  <2>3. f \in Surjection(nodes, sets)
    BY <2>1, <2>2 DEF Surjection
  <2>4. IsFiniteSet(sets)
    BY <1>4, <2>3, FS_Surjection
  <2>5. \A d \in sets : IsFiniteSet(d)
    BY <1>3, <2>1, FiniteRange DEF DependsOn
  <2>6. IsFiniteSet(UNION sets)
    BY <2>4, <2>5, FS_UNION
  <2> QED
    BY <2>1, <2>6
<1>7. IsFiniteSet(NamedIn(plan))
  BY <1>2, <1>5, <1>6, FS_Union DEF NamedIn
<1>8. ASSUME NEW id \in NamedIn(plan)
      PROVE  DependenciesOf(plan, id) \in Seq(NamedIn(plan))
  <2>1. CASE DependenciesOf(plan, id) = <<>>
    BY <2>1
  <2>2. ASSUME NEW i \in DOMAIN plan.nodes,
               DependenciesOf(plan, id) = plan.nodes[i].dependsOn
        PROVE  DependenciesOf(plan, id) \in Seq(NamedIn(plan))
    <3>1. PICK n : n = plan.nodes[i]
      OBVIOUS
    <3>2. n \in nodes
      BY <1>2, <3>1 DEF NodesOf, ToSet
    <3>3. DependsOn(n) \subseteq NamedIn(plan)
      BY <1>2, <3>2 DEF NamedIn
    <3>4. PICK d : d = n.dependsOn
      OBVIOUS
    <3>5. d \in Seq(DependsOn(n))
      BY <1>3, <3>2, <3>4
    <3>6. d \in Seq(NamedIn(plan))
      BY <3>3, <3>5
    <3> QED
      BY <2>2, <3>1, <3>4, <3>6
  <2> QED
    BY <1>1, <2>1, <2>2, LastOfId
<1> QED
  BY <1>7, <1>8 DEF Listed

\* The search finds a cycle just when some ids cannot be put in an order.
LEMMA CycleFound ==
  ASSUME NEW plan \in Plans
  PROVE  HasDependencyCycle(plan) <=> Cyclic(plan)
<1>1. Listed(plan) /\ plan.nodes \in Seq(ToSet(plan.nodes))
  BY PlansListed, PlansAssumption
<1>2. PICK n : n = Cardinality(NamedIn(plan))
  OBVIOUS
<1>3. PICK ids : ids = [i \in DOMAIN plan.nodes |-> plan.nodes[i].id]
  OBVIOUS
<1>4. PICK s : s = [cycle |-> FALSE, visiting |-> {}, visited |-> {}]
  OBVIOUS
<1>5. PICK t : t = VisitEach(Visits(plan), ids, s)
  OBVIOUS
<1>6. HasDependencyCycle(plan) = t.cycle
  BY <1>3, <1>4, <1>5 DEF HasDependencyCycle
<1>7. ids \in Seq(NamedIn(plan)) /\ ToSet(ids) = IdsOf(NodesOf(plan))
  <2>1. PICK m \in Nat : m = Len(plan.nodes)
    BY <1>1
  <2>2. DOMAIN plan.nodes = 1 .. m
    BY <1>1, <2>1
  <2>3. \A i \in 1 .. m : plan.nodes[i].id \in IdsOf(NodesOf(plan))
    BY <2>2 DEF IdsOf, NodesOf, ToSet
  <2>4. \A i \in 1 .. m : plan.nodes[i].id \in NamedIn(plan)
    BY <2>3 DEF NamedIn
  <2>5. ids \in Seq(NamedIn(plan)) /\ DOMAIN ids = 1 .. m
    BY <1>3, <2>2, <2>4
  <2>6. \A i \in 1 .. m : ids[i] = plan.nodes[i].id
    BY <1>3, <2>2
  <2> QED
    BY <2>2, <2>5, <2>6 DEF IdsOf, NodesOf, ToSet
<1>8. /\ s \in Searches(NamedIn(plan)) /\ ~s.cycle
      /\ s.visiting = {} /\ s.visited = {}
  BY <1>4 DEF Searches
<1>9. SoundlyVisited(plan, s.visited)
  BY <1>8 DEF SoundlyVisited, StuckIds
<1>10. Cardinality(NamedIn(plan) \ s.visiting) <= n
  <2>1. NamedIn(plan) \ s.visiting = NamedIn(plan)
    BY <1>8
  <2>2. n \in Nat
    BY <1>1, <1>2, FS_CardinalityType DEF Listed
  <2> QED
    BY <1>2, <2>1, <2>2
<1>11. VisitsWell(plan, Visits(plan), n)
  BY <1>1, <1>2, VisitsSearch
<1>12. \A i \in 1 .. Len(ids) : SearchFits(plan, ids[i], s, n)
  BY <1>8, <1>9, <1>10 DEF SearchFits
<1>13. SearchedTo(plan, s, t, ToSet(ids))
  <2>1. s.visiting \cap s.visited = {}
    BY <1>8
  <2> QED
    BY <1>5, <1>7, <1>8, <1>9, <1>11, <1>12, <2>1, EachSearched
<1>14. ASSUME ~t.cycle, NEW S \in SUBSET NamedIn(plan), StuckIds(plan, S)
       PROVE  FALSE
  <2>1. IdsOf(NodesOf(plan)) \subseteq t.visited /\ SoundlyVisited(plan, t.visited)
    BY <1>7, <1>13, <1>14 DEF SearchedTo
  <2>2. ASSUME NEW id \in S
        PROVE  id \in IdsOf(NodesOf(plan))
    <3>1. DependenciesOf(plan, id) # <<>>
      BY <1>14 DEF StuckIds, Dep, ToSet
    <3> QED
      BY <1>1, <3>1, LastOfId DEF IdsOf, NodesOf, ToSet
  <2> QED
    BY <1>14, <2>1, <2>2 DEF SoundlyVisited
<1>15. t.cycle => Cyclic(plan)
  BY <1>13 DEF SearchedTo
<1> QED
  BY <1>6, <1>14, <1>15 DEF Cyclic

-----------------------------------------------------------------------------
(* PlanReview: what a verdict is worth.                                    *)

UniqueIds(plan) ==
  \A i, j \in DOMAIN plan.nodes : plan.nodes[i].id = plan.nodes[j].id => i = j

LEMMA DependenciesOfNode ==
  ASSUME NEW plan \in Plans, UniqueIds(plan), NEW n \in NodesOf(plan)
  PROVE  /\ Dep(plan, n.id) = DependsOn(n)
         /\ n.id \in NamedIn(plan)
         /\ \A m \in NodesOf(plan) : m.id = n.id => m = n
<1>1. plan.nodes \in Seq(ToSet(plan.nodes))
  BY PlansAssumption
<1>2. PICK j \in DOMAIN plan.nodes : n = plan.nodes[j]
  BY DEF NodesOf, ToSet
<1>3. \A m \in NodesOf(plan) : m.id = n.id => m = n
  BY <1>2 DEF UniqueIds, NodesOf, ToSet
<1>4. n.id \in IdsOf(NodesOf(plan))
  BY DEF IdsOf
<1>5. PICK id : id = n.id
  OBVIOUS
<1>6. PICK i \in DOMAIN plan.nodes : /\ plan.nodes[i].id = id
                                     /\ DependenciesOf(plan, id) = plan.nodes[i].dependsOn
  BY <1>1, <1>4, <1>5, LastOfId
<1>7. i = j
  BY <1>2, <1>5, <1>6 DEF UniqueIds
<1>8. Dep(plan, id) = DependsOn(n)
  BY <1>2, <1>6, <1>7 DEF Dep, DependsOn
<1> QED
  BY <1>3, <1>4, <1>5, <1>8 DEF NamedIn

\* Ids that cannot be put in an order are ids of nodes that cannot.
LEMMA OrderOfNodes ==
  ASSUME NEW plan \in Plans, UniqueIds(plan)
  PROVE  Cyclic(plan) <=> ~CanBeOrdered(NodesOf(plan))
<1>1. ASSUME NEW S \in SUBSET NamedIn(plan), StuckIds(plan, S)
      PROVE  ~CanBeOrdered(NodesOf(plan))
  <2>1. PICK held : held = {n \in NodesOf(plan) : n.id \in S}
    OBVIOUS
  <2>2. ASSUME NEW id \in S
        PROVE  id \in IdsOf(held)
    <3>1. DependenciesOf(plan, id) # <<>>
      BY <1>1 DEF StuckIds, Dep, ToSet
    <3>2. id \in IdsOf(NodesOf(plan))
      <4>1. plan.nodes \in Seq(ToSet(plan.nodes))
        BY PlansAssumption
      <4> QED
        BY <3>1, <4>1, LastOfId DEF IdsOf, NodesOf, ToSet
    <3> QED
      BY <2>1, <3>2 DEF IdsOf
  <2>3. held # {} /\ S = IdsOf(held)
    <3>1. S \subseteq IdsOf(held)
      BY <2>2
    <3>2. IdsOf(held) \subseteq S
      BY <2>1 DEF IdsOf
    <3>3. S # {}
      BY <1>1 DEF StuckIds
    <3>4. PICK id \in S : id \in IdsOf(held)
      BY <3>1, <3>3
    <3>5. held # {}
      BY <3>4 DEF IdsOf
    <3> QED
      BY <3>1, <3>2, <3>5
  <2>4. \A n \in held : DependsOn(n) \cap IdsOf(held) # {}
    BY <1>1, <2>1, <2>3, DependenciesOfNode DEF StuckIds
  <2>5. held \in SUBSET NodesOf(plan)
    BY <2>1
  <2> QED
    BY <2>3, <2>4, <2>5 DEF CanBeOrdered
<1>2. ASSUME NEW held \in SUBSET NodesOf(plan), held # {},
             \A n \in held : DependsOn(n) \cap IdsOf(held) # {}
      PROVE  Cyclic(plan)
  <2>1. IdsOf(held) \subseteq NamedIn(plan) /\ IdsOf(held) # {}
    BY <1>2 DEF IdsOf, NamedIn
  <2>2. ASSUME NEW id \in IdsOf(held)
        PROVE  Dep(plan, id) \cap IdsOf(held) # {}
    <3>1. PICK n \in held : n.id = id
      BY DEF IdsOf
    <3>2. Dep(plan, id) = DependsOn(n)
      BY <3>1, DependenciesOfNode
    <3> QED
      BY <1>2, <3>1, <3>2
  <2>3. StuckIds(plan, IdsOf(held))
    BY <2>1, <2>2 DEF StuckIds
  <2> QED
    BY <2>1, <2>3 DEF Cyclic
<1> QED
  BY <1>1, <1>2 DEF Cyclic, CanBeOrdered

\* validateNodeGraph rejects the plans whose ids are not unique or whose nodes
\* cannot be put in an order, and no others.
LEMMA GraphJudged ==
  ASSUME NEW plan \in Plans
  PROVE  GraphCodes(plan) = IF UniqueIds(plan) /\ CanBeOrdered(NodesOf(plan)) THEN {}
                            ELSE {"PLAN_NOT_ATOMIC"}
<1>1. PICK n \in Nat : DOMAIN plan.nodes = 1 .. n
  BY PlansAssumption
<1>2. (\E i, j \in DOMAIN plan.nodes : i < j /\ plan.nodes[i].id = plan.nodes[j].id)
        <=> ~UniqueIds(plan)
  BY <1>1 DEF UniqueIds
<1>3. UniqueIds(plan) => (HasDependencyCycle(plan) <=> ~CanBeOrdered(NodesOf(plan)))
  BY CycleFound, OrderOfNodes
<1> QED
  BY <1>2, <1>3 DEF GraphCodes, If

LEMMA AcceptedExecutable ==
  ASSUME NEW plan \in Plans, NEW memories, NEW bundle, NEW hash,
         Verdict(plan, memories, bundle, hash) = {}
  PROVE  Executable(plan)
<1>1. GraphCodes(plan) = {} /\ NodesCodes(plan) = {}
  BY DEF Verdict, ValidatePlanGraph
<1>2. UniqueIds(plan) /\ CanBeOrdered(NodesOf(plan))
  BY <1>1, GraphJudged
<1>3. /\ \A n \in NodesOf(plan) : NodeCodes(plan, n) = {}
      /\ IdsOf(OfKind(plan, "change")) \subseteq Mapped(plan)
  <2>1. plan.nodes # <<>>
    BY <1>1 DEF NodesCodes
  <2>2. ASSUME NEW n \in NodesOf(plan), NEW code \in NodeCodes(plan, n)
        PROVE  code \in NodesCodes(plan)
    BY <2>1 DEF NodesCodes
  <2>3. MappingCodes(plan) \subseteq NodesCodes(plan)
    BY <2>1 DEF NodesCodes
  <2> QED
    BY <1>1, <2>2, <2>3 DEF MappingCodes, If
<1>4. ASSUME NEW n \in NodesOf(plan)
      PROVE  DependsOn(n) \subseteq IdsOf(NodesOf(plan))
  BY <1>3 DEF NodeCodes, If
<1>5. ASSUME NEW c \in OfKind(plan, "change")
      PROVE  \E v \in OfKind(plan, "validate") : c.id \in v.mapsTo
  <2>1. c.id \in Mapped(plan)
    BY <1>3 DEF IdsOf
  <2> QED
    BY <2>1 DEF Mapped
<1>6. ASSUME NEW s \in OfKind(plan, "side_effect")
      PROVE  \E v \in OfKind(plan, "validate") : v.id \in DependsOn(s)
  <2>1. s \in NodesOf(plan) /\ s.kind = "side_effect"
    BY DEF OfKind
  <2>2. NodeCodes(plan, s) = {} /\ s.common
    BY <1>3, <2>1 DEF NodeCodes
  <2>3. SideEffectCodes(plan, s) = {}
    BY <2>1, <2>2 DEF NodeCodes
  <2>4. DependsOn(s) \cap IdsOf(OfKind(plan, "validate")) # {}
    BY <2>3 DEF SideEffectCodes, If
  <2> QED
    BY <2>4 DEF IdsOf
<1> QED
  BY <1>2, <1>4, <1>5, <1>6 DEF Executable, UniqueIds

\* The plans the codes of nodes call not atomic.
LEMMA NodesNotAtomic ==
  ASSUME NEW plan, Executable(plan),
         \A n \in NodesOf(plan) : n.common /\ n.filled,
         \A v \in OfKind(plan, "validate") : v.mapsTo \subseteq IdsOf(OfKind(plan, "change"))
  PROVE  "PLAN_NOT_ATOMIC" \notin NodesCodes(plan)
<1>1. ASSUME NEW n \in NodesOf(plan)
      PROVE  "PLAN_NOT_ATOMIC" \notin NodeCodes(plan, n)
  <2>1. DependsOn(n) \subseteq IdsOf(NodesOf(plan))
    BY DEF Executable
  <2>2. "PLAN_NOT_ATOMIC" \notin ChangeCodes(n, plan.policy)
    BY DEF ChangeCodes, EvidenceCodes, If
  <2>3. n.kind = "validate" => "PLAN_NOT_ATOMIC" \notin ValidateCodes(plan, n)
    BY DEF ValidateCodes, OfKind, If
  <2>4. "PLAN_NOT_ATOMIC" \notin SideEffectCodes(plan, n)
    BY DEF SideEffectCodes, If
  <2> QED
    BY <2>1, <2>2, <2>3, <2>4 DEF NodeCodes, If
<1>2. IdsOf(OfKind(plan, "change")) \subseteq Mapped(plan)
  <2> SUFFICES ASSUME NEW c \in OfKind(plan, "change")
               PROVE  c.id \in Mapped(plan)
    BY DEF IdsOf
  <2>1. PICK v \in OfKind(plan, "validate") : c.id \in v.mapsTo
    BY DEF Executable
  <2>2. v.common /\ v.filled
    BY DEF OfKind
  <2> QED
    BY <2>1, <2>2 DEF Mapped
<1> QED
  BY <1>1, <1>2 DEF NodesCodes, MappingCodes, If

LEMMA NotAtomicReal ==
  ASSUME NEW plan \in Plans, NEW memories \in Memories, NEW bundle, NEW hash,
         "PLAN_NOT_ATOMIC" \in Verdict(plan, memories, bundle, hash),
         \A n \in NodesOf(plan) : n.common /\ n.filled,
         \A v \in OfKind(plan, "validate") : v.mapsTo \subseteq IdsOf(OfKind(plan, "change"))
  PROVE  ~Executable(plan)
<1> SUFFICES ASSUME Executable(plan) PROVE FALSE
  OBVIOUS
<1>1. "PLAN_NOT_ATOMIC" \notin NodesCodes(plan)
  BY NodesNotAtomic
<1>2. "PLAN_NOT_ATOMIC" \notin GraphCodes(plan)
  BY GraphJudged DEF Executable, UniqueIds
<1>3. "PLAN_NOT_ATOMIC" \notin RuleCodes(plan, ActiveRules(memories))
  BY RulesAssumption DEF RuleCodes, ActiveRules
<1>4. "PLAN_NOT_ATOMIC" \notin RuleCodes(plan, GraphPolicyRules(bundle))
  BY DEF RuleCodes, GraphPolicyRules, EphemeralRule
<1>5. /\ "PLAN_NOT_ATOMIC" \notin EnvelopeCodes(plan)
      /\ "PLAN_NOT_ATOMIC" \notin AttachmentCodes(plan)
      /\ "PLAN_NOT_ATOMIC" \notin MigrationCitationCodes(plan)
      /\ "PLAN_NOT_ATOMIC" \notin MigrationCoverageCodes(plan, bundle)
  BY DEF EnvelopeCodes, AttachmentCodes, MigrationCitationCodes, MigrationCoverageCodes, If
<1>6. "PLAN_NOT_ATOMIC" \notin ValidatePlanGraph(plan, memories, bundle)
  BY <1>1, <1>2, <1>3, <1>4, <1>5 DEF ValidatePlanGraph
<1> QED
  BY <1>6 DEF Verdict, If

\* A plan that is accepted can be carried out (unique ids, no dangling
\* dependency, an order in which dependencies come first, a validation of every
\* change, no side effect before any), and a plan of complete nodes that can be
\* is never called not atomic: for any plans, rules and policies.
THEOREM PlansJudgedSoundly == ReviewSpec => []VerdictIsSound
<1>1. ReviewInit => VerdictIsSound
  BY DEF ReviewInit, VerdictIsSound, AcceptedIsExecutable, NotAtomicIsReal
<1>2. ASSUME VerdictIsSound, ReviewNext
      PROVE  VerdictIsSound'
  <2>1. PICK plan \in Plans, memories \in Memories, bundle \in Bundles, hash \in PackHashes :
          SubmitPlan(plan, memories, bundle, hash)
    BY <1>2 DEF ReviewNext
  <2>2. AcceptedIsExecutable'
    <3>1. CASE rejections' = {}
      BY <2>1, <3>1, AcceptedExecutable DEF SubmitPlan, AcceptedIsExecutable
    <3>2. CASE rejections' # {}
      BY <1>2, <2>1, <3>2 DEF SubmitPlan, VerdictIsSound, AcceptedIsExecutable
    <3> QED
      BY <3>1, <3>2
  <2>3. NotAtomicIsReal'
    BY <2>1, NotAtomicReal DEF SubmitPlan, NotAtomicIsReal
  <2> QED
    BY <2>2, <2>3 DEF VerdictIsSound
<1>3. VerdictIsSound /\ UNCHANGED reviewVars => VerdictIsSound'
  BY DEF reviewVars, VerdictIsSound, AcceptedIsExecutable, NotAtomicIsReal
<1> QED
  BY <1>1, <1>2, <1>3, PTL DEF ReviewSpec

\* Whatever a plan is rejected with is a code of a check or of a memory's rule.
LEMMA VerdictTyped ==
  ASSUME NEW plan \in Plans, NEW memories \in Memories, NEW bundle, NEW hash
  PROVE  Verdict(plan, memories, bundle, hash) \subseteq RejectionCodes
<1>1. EnvelopeCodes(plan) \cup GraphCodes(plan) \cup AttachmentCodes(plan)
        \cup MigrationCitationCodes(plan) \cup MigrationCoverageCodes(plan, bundle)
        \cup MappingCodes(plan)
      \subseteq RejectionCodes
  BY DEF EnvelopeCodes, GraphCodes, AttachmentCodes, MigrationCitationCodes,
         MigrationCoverageCodes, MappingCodes, If, RejectionCodes
<1>2. ASSUME NEW node PROVE NodeCodes(plan, node) \subseteq RejectionCodes
  <2>1. ChangeCodes(node, plan.policy) \subseteq RejectionCodes
    BY DEF ChangeCodes, EvidenceCodes, If, RejectionCodes
  <2>2. ValidateCodes(plan, node) \cup SideEffectCodes(plan, node)
          \subseteq RejectionCodes
    BY DEF ValidateCodes, SideEffectCodes, If, RejectionCodes
  <2>3. If(~(DependsOn(node) \subseteq IdsOf(NodesOf(plan))), "PLAN_NOT_ATOMIC")
          \cup If(~node.filled, "PLAN_MISSING_REQUIRED_FIELDS")
          \cup {"PLAN_MISSING_REQUIRED_FIELDS"}
        \subseteq RejectionCodes
    BY DEF If, RejectionCodes
  <2>. QED BY <2>1, <2>2, <2>3 DEF NodeCodes
<1>3. NodesCodes(plan) \subseteq RejectionCodes
  <2>1. "PLAN_MISSING_REQUIRED_FIELDS" \in RejectionCodes BY DEF RejectionCodes
  <2>. QED BY <1>1, <1>2, <2>1 DEF NodesCodes
<1>4. RuleCodes(plan, ActiveRules(memories)) \subseteq RejectionCodes
  BY DEF RuleCodes, ActiveRules, RejectionCodes
<1>5. RuleCodes(plan, GraphPolicyRules(bundle)) \subseteq RejectionCodes
  BY DEF RuleCodes, GraphPolicyRules, EphemeralRule, RejectionCodes
<1>6. ValidatePlanGraph(plan, memories, bundle) \subseteq RejectionCodes
  BY <1>1, <1>3, <1>4, <1>5 DEF ValidatePlanGraph
<1>7. If(~HashAgrees(plan, hash) \/ ~plan.ownSession \/ ~plan.worktreeInScope,
         "PLAN_SCOPE_VIOLATION") \subseteq RejectionCodes
  BY DEF If, RejectionCodes
<1>. QED BY <1>6, <1>7 DEF Verdict

\* The plan under review is one that was submitted, its codes are codes, and the
\* session's plan is that plan or none.
THEOREM ReviewTyped == ReviewSpec => []ReviewTypeOK
<1>1. ReviewInit => ReviewTypeOK
  BY DEF ReviewInit, ReviewTypeOK
<1>2. ASSUME ReviewTypeOK, ReviewNext
      PROVE  ReviewTypeOK'
  <2>1. PICK plan \in Plans, memories \in Memories, bundle \in Bundles,
             hash \in PackHashes : SubmitPlan(plan, memories, bundle, hash)
    BY <1>2 DEF ReviewNext
  <2>2. reviewed' \in Plans \cup {NoPlan}
    BY <2>1 DEF SubmitPlan
  <2>3. rejections' \subseteq RejectionCodes
    BY <2>1, VerdictTyped DEF SubmitPlan
  <2>4. planGraph' \in {NoPlan, reviewed'}
    BY <1>2, <2>1 DEF SubmitPlan, ReviewTypeOK
  <2>. QED BY <2>2, <2>3, <2>4 DEF ReviewTypeOK
<1>3. ReviewTypeOK /\ UNCHANGED reviewVars => ReviewTypeOK'
  BY DEF reviewVars, ReviewTypeOK
<1>. QED BY <1>1, <1>2, <1>3, PTL DEF ReviewSpec

-----------------------------------------------------------------------------
(* ProofChains: chains in the order of their path.                         *)

Length(type) == IF type = "aggrid" THEN 8 ELSE 5

\* A chain whose links are in the order of the path, each before position p.
LinksBefore(type, chain, p) ==
  /\ chain \in Seq([kind : ToSet(Path(type)), source : {"graph", "ast"}])
  /\ \E place \in [DOMAIN chain -> 1 .. (p - 1)] :
       /\ \A i \in DOMAIN chain : chain[i].kind = Path(type)[place[i]]
       /\ \A i, j \in DOMAIN chain : i < j => place[i] < place[j]

FromGraph(type, chain, p) ==
  Len(chain) = p /\ \A i \in 1 .. p : chain[i] = Link(Path(type)[i], "graph")

\* The kinds of a path are distinct.
LEMMA PathKinds ==
  ASSUME NEW type \in ChainTypes
  PROVE  /\ Len(Path(type)) = Length(type) /\ DOMAIN Path(type) = 1 .. Length(type)
         /\ \A p, q \in 1 .. Length(type) : Path(type)[p] = Path(type)[q] => p = q
<1>1. CASE type = "aggrid"
  BY <1>1 DEF Path, Length, AgGridKinds
<1>2. CASE type = "federation"
  BY <1>2 DEF Path, Length, FederationKinds
<1> QED
  BY <1>1, <1>2 DEF ChainTypes

LEMMA EmptyChain ==
  ASSUME NEW type \in ChainTypes, NEW p \in Nat
  PROVE  LinksBefore(type, <<>>, p)
<1>1. PICK chain : chain = <<>>
  OBVIOUS
<1>2. chain \in Seq([kind : ToSet(Path(type)), source : {"graph", "ast"}]) /\ DOMAIN chain = {}
  BY <1>1
<1>3. PICK place : place = [i \in {} |-> 1]
  OBVIOUS
<1>4. place \in [DOMAIN chain -> 1 .. (p - 1)]
  BY <1>2, <1>3
<1> QED
  BY <1>1, <1>2, <1>4 DEF LinksBefore

\* A link of a later kind may follow.
LEMMA LinkAppended ==
  ASSUME NEW type \in ChainTypes, NEW chain, NEW p \in 1 .. Length(type),
         NEW n \in Nat, p < n,
         NEW source \in {"graph", "ast"}, LinksBefore(type, chain, p)
  PROVE  LinksBefore(type, Append(chain, Link(Path(type)[p], source)), n)
<1>1. PICK m \in Nat : m = Len(chain)
  BY DEF LinksBefore
<1>2. PICK place \in [1 .. m -> 1 .. (p - 1)] :
        /\ \A i \in 1 .. m : chain[i].kind = Path(type)[place[i]]
        /\ \A i, j \in 1 .. m : i < j => place[i] < place[j]
  <2>1. DOMAIN chain = 1 .. m
    BY <1>1 DEF LinksBefore
  <2> QED
    BY <2>1 DEF LinksBefore
<1>3. PICK link : link = Link(Path(type)[p], source)
  OBVIOUS
<1>4. link \in [kind : ToSet(Path(type)), source : {"graph", "ast"}] /\ link.kind = Path(type)[p]
  <2>1. Path(type)[p] \in ToSet(Path(type))
    BY PathKinds DEF ToSet
  <2> QED
    BY <1>3, <2>1 DEF Link
<1>5. PICK longer : longer = Append(chain, link)
  OBVIOUS
<1>6. /\ longer \in Seq([kind : ToSet(Path(type)), source : {"graph", "ast"}])
      /\ DOMAIN longer = 1 .. (m + 1)
      /\ \A i \in 1 .. m : longer[i] = chain[i]
      /\ longer[m + 1] = link
  BY <1>1, <1>4, <1>5 DEF LinksBefore
<1>7. PICK after : after = [i \in 1 .. (m + 1) |-> IF i = m + 1 THEN p ELSE place[i]]
  OBVIOUS
<1>8. \A i \in 1 .. m : after[i] = place[i] /\ place[i] \in 1 .. (p - 1) /\ i \in 1 .. (m + 1)
  BY <1>1, <1>2, <1>7
<1>9. after[m + 1] = p
  BY <1>1, <1>7
<1>10. \A i \in 1 .. (m + 1) : i \in 1 .. m \/ i = m + 1
  BY <1>1
<1>11. after \in [1 .. (m + 1) -> 1 .. (n - 1)]
  BY <1>7, <1>8, <1>9, <1>10
<1>12. \A i \in 1 .. (m + 1) : longer[i].kind = Path(type)[after[i]]
  BY <1>2, <1>4, <1>6, <1>8, <1>9, <1>10
<1>13. \A i, j \in 1 .. (m + 1) : i < j => after[i] < after[j]
  BY <1>1, <1>2, <1>8, <1>9, <1>10
<1> QED
  BY <1>3, <1>5, <1>6, <1>11, <1>12, <1>13 DEF LinksBefore

LEMMA LinksBeforeLater ==
  ASSUME NEW type, NEW chain, NEW p \in Nat, NEW n \in Nat, p <= n, LinksBefore(type, chain, p)
  PROVE  LinksBefore(type, chain, n)
<1>1. PICK place \in [DOMAIN chain -> 1 .. (p - 1)] :
        /\ \A i \in DOMAIN chain : chain[i].kind = Path(type)[place[i]]
        /\ \A i, j \in DOMAIN chain : i < j => place[i] < place[j]
  BY DEF LinksBefore
<1>2. place \in [DOMAIN chain -> 1 .. (n - 1)]
  BY <1>1
<1> QED
  BY <1>1, <1>2 DEF LinksBefore

\* A kind that is not before p is not the kind of a link.
LEMMA NoSuchLink ==
  ASSUME NEW type \in ChainTypes, NEW chain, NEW p \in 1 .. Length(type),
         LinksBefore(type, chain, p), NEW q \in p .. Length(type)
  PROVE  ~HasKind(chain, Path(type)[q])
BY PathKinds DEF LinksBefore, HasKind

-----------------------------------------------------------------------------
(* ProofChains: the walk.                                                  *)

\* What the graph knew of an ag-Grid chain up to position p: all but the trigger.
KnownBefore(chain, p) ==
  \A q \in 1 .. (p - 1) : q # 4 => HasKind(chain, AgGridKinds[q])

\* A walk that goes on.
GoesOn(type, w) ==
  /\ w.at \in 1 .. Length(type)
  /\ LinksBefore(type, w.chain, w.at)
  /\ w.missing = {} => FromGraph(type, w.chain, w.at - 1)
  /\ type = "aggrid" => KnownBefore(w.chain, w.at)

\* A walk that is over, however it ended.
Ended(type, w) ==
  /\ LinksBefore(type, w.chain, Length(type) + 1)
  /\ w.missing = {} /\ HasKind(w.chain, Path(type)[Length(type)])
       => FromGraph(type, w.chain, Length(type))

AnyKind == ToSet(AgGridKinds) \cup ToSet(FederationKinds)

Links == [kind : AnyKind, source : {"graph", "ast"}]

LEMMA ChainOfLinks ==
  ASSUME NEW type \in ChainTypes, NEW chain, NEW p, LinksBefore(type, chain, p)
  PROVE  chain \in Seq(Links)
<1>1. PICK ofPath : ofPath = [kind : ToSet(Path(type)), source : {"graph", "ast"}]
  OBVIOUS
<1>2. ofPath \subseteq Links
  BY <1>1 DEF Links, AnyKind, Path
<1>3. chain \in Seq(ofPath)
  BY <1>1 DEF LinksBefore
<1> QED
  BY <1>2, <1>3

Walks ==
  [type    : ChainTypes,
   phase   : {"due", "query", "direct", "ended", "pack", "policies", "rules", "done"},
   at      : Nat,
   chain   : Seq(Links),
   missing : SUBSET AnyKind]

InOrder(type, result) ==
  LET path == Path(type)
      Position(i) == CHOOSE p \in DOMAIN path : path[p] = result.chain[i].kind
  IN result # NoBuild =>
       /\ \A i, j \in DOMAIN result.chain : i < j => Position(i) < Position(j)
       /\ \A kind \in ToSet(path) : HasKind(result.chain, kind) \/ kind \in result.missing
       /\ result.complete =>
            \A p \in DOMAIN path : result.chain[p] = Link(path[p], "graph")

ChainInv ==
  /\ walk \in Walks
  /\ walk.phase = "due" => walk.at = 1 /\ walk.chain = <<>> /\ walk.missing = {}
  /\ walk.phase \in {"query", "direct"} => GoesOn(walk.type, walk)
  /\ walk.phase = "direct" => /\ walk.type = "federation" /\ walk.at <= 2
                              /\ walk.missing # {}
  /\ walk.phase = "ended" => Ended(walk.type, walk)
  /\ DOMAIN built = ChainTypes
  /\ \A type \in ChainTypes : InOrder(type, built[type])

LEMMA GuessedKind ==
  ASSUME NEW chain, NEW q \in 1 .. 8, NEW p \in 1 .. 8,
         LinksBefore("aggrid", chain, p),
         q < p => HasKind(chain, AgGridKinds[q]),
         NEW n \in 1 .. 8, p <= n, q < n
  PROVE  LinksBefore("aggrid", GuessKind(chain, AgGridKinds[q]), n)
<1>1. CASE HasKind(chain, AgGridKinds[q])
  <2>1. GuessKind(chain, AgGridKinds[q]) = chain
    BY <1>1 DEF GuessKind
  <2> QED
    BY <2>1, LinksBeforeLater
<1>2. CASE ~HasKind(chain, AgGridKinds[q])
  <2>1. GuessKind(chain, AgGridKinds[q]) = Append(chain, Link(AgGridKinds[q], "ast"))
    BY <1>2 DEF GuessKind
  <2>2. LinksBefore("aggrid", chain, q)
    BY <1>2, LinksBeforeLater
  <2>3. Path("aggrid") = AgGridKinds /\ q \in 1 .. Length("aggrid") /\ "aggrid" \in ChainTypes
    BY DEF Path, Length, ChainTypes
  <2>4. LinksBefore("aggrid", Append(chain, Link(Path("aggrid")[q], "ast")), n)
    BY <2>2, <2>3, LinkAppended
  <2> QED
    BY <2>1, <2>3, <2>4
<1> QED
  BY <1>1, <1>2

\* Guessed links come after the links there are, and never end the chain.
LEMMA GuessedInOrder ==
  ASSUME NEW chain, NEW p \in 1 .. 8, LinksBefore("aggrid", chain, p), KnownBefore(chain, p)
  PROVE  LinksBefore("aggrid", Guess(chain), 8)
<1>1. AgGridKinds[5] = "Route" /\ AgGridKinds[6] = "Component"
  BY DEF AgGridKinds
<1>2. PICK once : once = GuessKind(chain, "Route")
  OBVIOUS
<1>3. PICK m \in 1 .. 8 : m = IF p <= 5 THEN 6 ELSE p
  OBVIOUS
<1>4. LinksBefore("aggrid", once, m)
  <2>1. 5 < p => HasKind(chain, AgGridKinds[5])
    BY DEF KnownBefore
  <2>2. LinksBefore("aggrid", GuessKind(chain, AgGridKinds[5]), m)
    BY <1>3, <2>1, GuessedKind
  <2> QED
    BY <1>1, <1>2, <2>2
<1>5. 6 < m => HasKind(once, AgGridKinds[6])
  <2>1. ASSUME 6 < m
        PROVE  p = m /\ HasKind(chain, AgGridKinds[5]) /\ HasKind(chain, AgGridKinds[6])
    BY <1>3, <2>1 DEF KnownBefore
  <2> QED
    BY <1>1, <1>2, <2>1 DEF GuessKind
<1>6. PICK l \in 1 .. 8 : l = IF m <= 6 THEN 7 ELSE m
  OBVIOUS
<1>7. LinksBefore("aggrid", GuessKind(once, AgGridKinds[6]), l)
  BY <1>4, <1>5, <1>6, GuessedKind
<1>8. LinksBefore("aggrid", GuessKind(once, "Component"), 8)
  BY <1>1, <1>6, <1>7, LinksBeforeLater
<1>9. LinksBefore("aggrid", chain, 8)
  BY LinksBeforeLater
<1> QED
  BY <1>2, <1>8, <1>9 DEF Guess

\* A chain before the last position is a chain that ended.
LEMMA EndedEarly ==
  ASSUME NEW type \in ChainTypes, NEW w, NEW p \in 1 .. Length(type),
         LinksBefore(type, w.chain, p)
  PROVE  Ended(type, w)
<1>1. Length(type) \in Nat /\ Length(type) \in p .. Length(type)
  BY DEF Length
<1>2. PICK chain : chain = w.chain
  OBVIOUS
<1>3. LinksBefore(type, chain, Length(type) + 1)
  BY <1>1, <1>2, LinksBeforeLater
<1>4. ~HasKind(chain, Path(type)[Length(type)])
  BY <1>1, <1>2, NoSuchLink
<1> QED
  BY <1>2, <1>3, <1>4 DEF Ended

LEMMA FinishedInOrder ==
  ASSUME NEW type \in ChainTypes, NEW w, Ended(type, w)
  PROVE  InOrder(type, Finished(type, w.chain, w.missing))
<1>1. PICK chain, missing : chain = w.chain /\ missing = w.missing
  OBVIOUS
<1>2. PICK whole : whole = IF type = "federation" /\ chain = <<>> /\ request.indexed
                           THEN <<Link("FederationMapping", "ast")>> ELSE chain
  OBVIOUS
<1>3. PICK lacking : lacking = missing \cup {kind \in ToSet(Path(type)) : ~HasKind(whole, kind)}
  OBVIOUS
<1>4. PICK result : result = Finished(type, chain, missing)
  OBVIOUS
<1>5. /\ result.chain = whole /\ result.missing = lacking
      /\ result.complete <=> lacking = {} /\ Len(whole) >= LeastLinks(type)
  BY <1>2, <1>3, <1>4 DEF Finished
<1>6. Length(type) \in Nat /\ Length(type) >= 5 /\ DOMAIN Path(type) = 1 .. Length(type)
  BY PathKinds DEF Length
<1>7. /\ LinksBefore(type, whole, Length(type) + 1)
      /\ missing = {} /\ HasKind(whole, Path(type)[Length(type)])
           => FromGraph(type, whole, Length(type))
  <2>1. CASE whole = chain
    BY <1>1, <2>1 DEF Ended
  <2>2. CASE whole # chain
    <3>1. type = "federation" /\ whole = <<Link("FederationMapping", "ast")>>
      BY <1>2, <2>2
    <3>2. Path(type)[2] = "FederationMapping" /\ Length(type) = 5
      BY <3>1 DEF Path, FederationKinds, Length
    <3>3. LinksBefore(type, <<>>, 2)
      BY EmptyChain
    <3>6. 2 \in 1 .. Length(type) /\ 3 \in Nat /\ 2 < 3
      BY <3>2
    <3>7. PICK none : none = <<>>
      OBVIOUS
    <3>8. LinksBefore(type, Append(none, Link(Path(type)[2], "ast")), 3)
      BY <3>3, <3>6, <3>7, LinkAppended
    <3>4. LinksBefore(type, Append(<<>>, Link(Path(type)[2], "ast")), 3)
      BY <3>7, <3>8
    <3>5. LinksBefore(type, whole, 3)
      BY <3>1, <3>2, <3>4
    <3> QED
      BY <1>6, <3>2, <3>5, LinksBeforeLater, NoSuchLink
  <2> QED
    BY <2>1, <2>2
<1>8. ASSUME NEW i \in DOMAIN whole, NEW j \in DOMAIN whole, i < j
      PROVE  (CHOOSE p \in DOMAIN Path(type) : Path(type)[p] = whole[i].kind)
               < (CHOOSE p \in DOMAIN Path(type) : Path(type)[p] = whole[j].kind)
  <2>1. PICK place \in [DOMAIN whole -> 1 .. Length(type)] :
          /\ \A k \in DOMAIN whole : whole[k].kind = Path(type)[place[k]]
          /\ \A k, l \in DOMAIN whole : k < l => place[k] < place[l]
    BY <1>6, <1>7 DEF LinksBefore
  <2>2. \A k \in DOMAIN whole :
          (CHOOSE p \in DOMAIN Path(type) : Path(type)[p] = whole[k].kind) = place[k]
    BY <1>6, <2>1, PathKinds
  <2> QED
    BY <1>8, <2>1, <2>2
<1>9. \A kind \in ToSet(Path(type)) : HasKind(whole, kind) \/ kind \in lacking
  BY <1>3
<1>10. ASSUME lacking = {}, NEW p \in DOMAIN Path(type)
       PROVE  whole[p] = Link(Path(type)[p], "graph")
  <2>1. Path(type)[Length(type)] \in ToSet(Path(type))
    BY <1>6 DEF ToSet
  <2>2. missing = {} /\ HasKind(whole, Path(type)[Length(type)])
    BY <1>3, <1>10, <2>1
  <2> QED
    BY <1>6, <1>7, <2>2 DEF FromGraph
<1> QED
  BY <1>1, <1>4, <1>5, <1>8, <1>9, <1>10 DEF InOrder

-----------------------------------------------------------------------------
(* ProofChains: the steps.                                                 *)

LEMMA CaughtEnds ==
  ASSUME ChainInv, Caught, NEW p \in 1 .. Length(walk.type),
         LinksBefore(walk.type, walk.chain, p),
         walk.type = "aggrid" => KnownBefore(walk.chain, p)
  PROVE  /\ walk' \in Walks /\ walk'.phase = "ended" /\ Ended(walk'.type, walk')
<1>1. walk \in Walks
  BY DEF ChainInv
<1>2. PICK chain : chain = IF walk.type = "aggrid" THEN Guess(walk.chain) ELSE walk.chain
  OBVIOUS
<1>3. walk' = [walk EXCEPT !.phase = "ended", !.chain = chain]
  BY <1>2 DEF Caught
<1>4. PICK q \in 1 .. Length(walk.type) : LinksBefore(walk.type, chain, q)
  <2>1. CASE walk.type = "aggrid"
    <3>1. Length(walk.type) = 8 /\ Length("aggrid") = 8
      BY <2>1 DEF Length
    <3>2. LinksBefore("aggrid", Guess(walk.chain), 8)
      BY <2>1, <3>1, GuessedInOrder
    <3> QED
      BY <1>2, <2>1, <3>1, <3>2
  <2>2. CASE walk.type # "aggrid"
    BY <1>2, <2>2
  <2> QED
    BY <2>1, <2>2
<1>5. chain \in Seq(Links)
  BY <1>1, <1>4, ChainOfLinks DEF Walks
<1>6. /\ walk' \in Walks /\ walk'.phase = "ended"
      /\ walk'.type = walk.type /\ walk'.chain = chain /\ walk.type \in ChainTypes
  BY <1>1, <1>3, <1>5 DEF Walks
<1>7. LinksBefore(walk'.type, walk'.chain, q) /\ walk'.type \in ChainTypes
      /\ q \in 1 .. Length(walk'.type)
  BY <1>4, <1>6
<1>8. Ended(walk'.type, walk')
  BY <1>7, EndedEarly
<1> QED
  BY <1>6, <1>8

LEMMA ConnectStep ==
  ASSUME ChainInv, Connect
  PROVE  ChainInv'
<1>1. walk \in Walks /\ walk.phase = "due" /\ walk.at = 1 /\ walk.chain = <<>> /\ walk.missing = {}
  BY DEF ChainInv, Connect
<1>2. walk.type \in ChainTypes /\ 1 \in 1 .. Length(walk.type)
  BY <1>1 DEF Walks, ChainTypes, Length
<1>3. LinksBefore(walk.type, walk.chain, 1) /\ KnownBefore(walk.chain, 1)
  <2>1. LinksBefore(walk.type, <<>>, 1)
    BY <1>2, EmptyChain
  <2> QED
    BY <1>1, <2>1 DEF KnownBefore
<1>4. UNCHANGED built
  BY DEF Connect
<1>5. CASE walk' = [walk EXCEPT !.phase = "query"]
  <2>1. /\ walk' \in Walks /\ walk'.phase = "query" /\ walk'.type = walk.type
        /\ walk'.at = 1 /\ walk'.chain = walk.chain /\ walk'.missing = {}
    BY <1>1, <1>5 DEF Walks
  <2>2. FromGraph(walk.type, walk.chain, 0)
    BY <1>1 DEF FromGraph
  <2>3. GoesOn(walk'.type, walk')
    BY <1>2, <1>3, <2>1, <2>2 DEF GoesOn
  <2> QED
    BY <1>4, <2>1, <2>3 DEF ChainInv
<1>6. CASE Caught
  <2>1. walk' \in Walks /\ walk'.phase = "ended" /\ Ended(walk'.type, walk')
    BY <1>2, <1>3, <1>6, CaughtEnds
  <2> QED
    BY <1>4, <2>1 DEF ChainInv
<1> QED
  BY <1>5, <1>6 DEF Connect

LEMMA FoundStep ==
  ASSUME ChainInv, Found
  PROVE  ChainInv'
<1>1. PICK type, at, chain, missing :
        type = walk.type /\ at = walk.at /\ chain = walk.chain /\ missing = walk.missing
  OBVIOUS
<1>2. walk \in Walks /\ type \in ChainTypes /\ walk.phase = "query" /\ GoesOn(type, walk)
  BY <1>1 DEF ChainInv, Found, Walks
<1>3. /\ at \in 1 .. Length(type) /\ LinksBefore(type, chain, at)
      /\ missing = {} => FromGraph(type, chain, at - 1)
      /\ type = "aggrid" => KnownBefore(chain, at)
  BY <1>1, <1>2 DEF GoesOn
<1>4. PICK link : link = Link(Path(type)[at], "graph")
  OBVIOUS
<1>5. PICK longer : longer = Append(chain, link)
  OBVIOUS
<1>6. Length(type) \in Nat /\ Len(Path(type)) = Length(type) /\ at \in Nat
  BY <1>2, <1>3, PathKinds DEF Length
<1>7. LinksBefore(type, longer, at + 1)
  <2>1. at + 1 \in Nat /\ at < at + 1
    BY <1>6
  <2> QED
    BY <1>2, <1>3, <1>4, <1>5, <2>1, LinkAppended
<1>8. /\ Len(chain) \in Nat /\ Len(longer) = Len(chain) + 1
      /\ \A i \in 1 .. Len(chain) : longer[i] = chain[i]
      /\ longer[Len(chain) + 1] = link
      /\ DOMAIN chain = 1 .. Len(chain) /\ DOMAIN longer = 1 .. (Len(chain) + 1)
  BY <1>3, <1>5 DEF LinksBefore
<1>9. missing = {} => FromGraph(type, longer, at)
  <2> SUFFICES ASSUME FromGraph(type, chain, at - 1) PROVE FromGraph(type, longer, at)
    BY <1>3
  <2>1. Len(chain) = at - 1
    BY DEF FromGraph
  <2>2. \A i \in 1 .. (at - 1) : longer[i] = Link(Path(type)[i], "graph")
    BY <1>8, <2>1 DEF FromGraph
  <2>3. longer[at] = Link(Path(type)[at], "graph")
    BY <1>4, <1>6, <1>8, <2>1
  <2>4. \A i \in 1 .. at : i \in 1 .. (at - 1) \/ i = at
    BY <1>6
  <2> QED
    BY <1>6, <1>8, <2>1, <2>2, <2>3, <2>4 DEF FromGraph
<1>10. type = "aggrid" => KnownBefore(longer, at + 1)
  <2> SUFFICES ASSUME type = "aggrid", NEW q \in 1 .. at, q # 4
               PROVE  HasKind(longer, AgGridKinds[q])
    BY <1>6 DEF KnownBefore
  <2>1. CASE q < at
    <3>1. HasKind(chain, AgGridKinds[q])
      BY <1>3, <1>6, <2>1 DEF KnownBefore
    <3> QED
      BY <1>8, <3>1 DEF HasKind
  <2>2. CASE q = at
    <3>1. link.kind = AgGridKinds[q]
      BY <1>4, <2>2 DEF Link, Path
    <3> QED
      BY <1>8, <3>1 DEF HasKind
  <2> QED
    BY <1>6, <2>1, <2>2
<1>11. longer \in Seq(Links)
  BY <1>2, <1>7, ChainOfLinks
<1>12. PICK n, phase : /\ n = IF at = Len(Path(type)) THEN at ELSE at + 1
                       /\ phase = IF at = Len(Path(type)) THEN "ended" ELSE "query"
  OBVIOUS
<1>13. walk' = [walk EXCEPT !.chain = longer, !.at = n, !.phase = phase]
  BY <1>1, <1>2, <1>4, <1>5, <1>12 DEF Found, Kind
<1>14. /\ walk' \in Walks /\ walk'.type = type /\ walk'.chain = longer
       /\ walk'.at = n /\ walk'.phase = phase /\ walk'.missing = missing
  <2>1. n \in Nat /\ phase \in {"query", "ended"}
    BY <1>6, <1>12
  <2> QED
    BY <1>1, <1>2, <1>11, <1>13, <2>1 DEF Walks
<1>15. UNCHANGED built
  BY DEF Found
<1>16. CASE at = Length(type)
  <2>1. Ended(type, walk')
    BY <1>7, <1>9, <1>14, <1>16 DEF Ended
  <2>2. phase = "ended"
    BY <1>6, <1>12, <1>16
  <2> QED
    BY <1>14, <1>15, <2>1, <2>2 DEF ChainInv
<1>17. CASE at # Length(type)
  <2>1. n = at + 1 /\ phase = "query"
    BY <1>6, <1>12, <1>17
  <2>2. at + 1 \in 1 .. Length(type) /\ (at + 1) - 1 = at
    BY <1>3, <1>6, <1>17
  <2>3. GoesOn(type, walk')
    BY <1>7, <1>9, <1>10, <1>14, <2>1, <2>2 DEF GoesOn
  <2> QED
    BY <1>14, <1>15, <2>1, <2>3 DEF ChainInv
<1> QED
  BY <1>16, <1>17

LEMMA NoTableStep ==
  ASSUME ChainInv, NoTable
  PROVE  ChainInv'
<1>1. walk \in Walks /\ walk.phase = "query" /\ GoesOn(walk.type, walk)
  BY DEF ChainInv, NoTable
<1>2. walk.type = "aggrid" /\ walk.at = 1 /\ walk.at \in 1 .. Length(walk.type)
  BY <1>1 DEF NoTable, Kind, GoesOn, Walks, ChainTypes, Path, Length, AgGridKinds, FederationKinds
<1>3. LinksBefore("aggrid", walk.chain, 1)
  BY <1>1, <1>2 DEF GoesOn
<1>4. PICK guessed : guessed = IF request.indexed THEN <<Link("agGridTable", "ast")>> ELSE walk.chain
  OBVIOUS
<1>5. PICK p \in 1 .. 8 : LinksBefore("aggrid", guessed, p) /\ KnownBefore(guessed, p)
  <2>1. CASE ~request.indexed
    BY <1>3, <1>4, <2>1 DEF KnownBefore
  <2>2. CASE request.indexed
    <3>1. PICK none : none = <<>>
      OBVIOUS
    <3>2. "aggrid" \in ChainTypes /\ 1 \in 1 .. Length("aggrid") /\ 2 \in Nat /\ 1 < 2
      BY DEF ChainTypes, Length
    <3>3. LinksBefore("aggrid", none, 1)
      BY <3>1, <3>2, EmptyChain
    <3>4. LinksBefore("aggrid", Append(none, Link(Path("aggrid")[1], "ast")), 2)
      BY <3>2, <3>3, LinkAppended
    <3>5. Path("aggrid")[1] = "agGridTable" /\ AgGridKinds[1] = "agGridTable"
      BY DEF Path, AgGridKinds
    <3>6. LinksBefore("aggrid", guessed, 2)
      BY <1>4, <2>2, <3>1, <3>4, <3>5
    <3>7. HasKind(guessed, AgGridKinds[1])
      BY <1>4, <2>2, <3>5 DEF HasKind, Link
    <3> QED
      BY <3>6, <3>7 DEF KnownBefore
  <2> QED
    BY <2>1, <2>2
<1>6. LinksBefore("aggrid", Guess(guessed), 8)
  BY <1>5, GuessedInOrder
<1>7. PICK chain, missing : /\ chain = Guess(guessed)
                            /\ missing = IF request.indexed THEN walk.missing
                                         ELSE walk.missing \cup {"agGridTable"}
  OBVIOUS
<1>8. walk' = [walk EXCEPT !.phase = "ended", !.chain = chain, !.missing = missing]
  <2>1. Kind = "agGridTable"
    BY DEF NoTable
  <2> QED
    BY <1>4, <1>7, <2>1 DEF NoTable
<1>9. chain \in Seq(Links)
  BY <1>6, <1>7, ChainOfLinks DEF ChainTypes
<1>10. missing \subseteq AnyKind
  BY <1>1, <1>7 DEF Walks, AnyKind, ToSet, AgGridKinds
<1>11. /\ walk' \in Walks /\ walk'.phase = "ended" /\ walk'.type = "aggrid"
       /\ walk'.chain = chain
  BY <1>1, <1>2, <1>8, <1>9, <1>10 DEF Walks
<1>12. Ended("aggrid", walk')
  <2>1. "aggrid" \in ChainTypes /\ 8 \in 1 .. Length("aggrid")
    BY DEF ChainTypes, Length
  <2> QED
    BY <1>6, <1>7, <1>11, <2>1, EndedEarly
<1> QED
  BY <1>11, <1>12 DEF ChainInv, NoTable

LEMMA NotFoundStep ==
  ASSUME ChainInv, NotFound
  PROVE  ChainInv'
<1>1. walk \in Walks /\ walk.type \in ChainTypes /\ walk.phase = "query" /\ GoesOn(walk.type, walk)
  BY DEF ChainInv, NotFound, Walks
<1>2. PICK type, at : type = walk.type /\ at = walk.at
  OBVIOUS
<1>3. at \in 1 .. Length(type) /\ Length(type) \in Nat /\ Kind = Path(type)[at]
      /\ LinksBefore(type, walk.chain, at)
  BY <1>1, <1>2 DEF GoesOn, Length, Kind
<1>4. PICK missing : missing = walk.missing \cup {Kind}
  OBVIOUS
<1>5. missing # {} /\ missing \subseteq AnyKind
  <2>1. Kind \in ToSet(Path(type))
    BY <1>1, <1>2, <1>3, PathKinds DEF ToSet
  <2> QED
    BY <1>1, <1>2, <1>4, <2>1 DEF Walks, AnyKind, Path
<1>6. PICK n, phase :
        /\ n = IF Kind = "NavTrigger" THEN at + 1 ELSE at
        /\ phase = CASE Kind = "NavTrigger" -> "query"
                     [] Kind \in {"HostRoute", "FederationMapping"} -> "direct"
                     [] OTHER -> "ended"
  OBVIOUS
<1>7. walk' = [walk EXCEPT !.missing = missing, !.at = n, !.phase = phase]
  BY <1>2, <1>4, <1>6 DEF NotFound
<1>8. phase \in {"query", "direct", "ended"} /\ n \in Nat
  BY <1>3, <1>6
<1>9. /\ walk' \in Walks /\ walk'.type = type /\ walk'.chain = walk.chain
      /\ walk'.at = n /\ walk'.phase = phase /\ walk'.missing = missing
  BY <1>1, <1>2, <1>5, <1>7, <1>8 DEF Walks
<1>10. UNCHANGED built
  BY DEF NotFound
<1>11. CASE Kind = "NavTrigger"
  <2>1. type = "aggrid" /\ at = 4
    BY <1>1, <1>2, <1>3, <1>11 DEF ChainTypes, Path, Length, AgGridKinds, FederationKinds
  <2>2. n = 5 /\ phase = "query" /\ 5 \in 1 .. Length(type)
    BY <1>6, <1>11, <2>1 DEF Length
  <2>3. LinksBefore(type, walk.chain, 5)
    BY <1>3, <2>1, LinksBeforeLater
  <2>4. KnownBefore(walk.chain, 5)
    BY <1>1, <1>2, <2>1 DEF GoesOn, KnownBefore
  <2>5. GoesOn(type, walk')
    BY <1>5, <1>9, <2>2, <2>3, <2>4 DEF GoesOn
  <2> QED
    BY <1>9, <1>10, <2>2, <2>5 DEF ChainInv
<1>12. CASE Kind \in {"HostRoute", "FederationMapping"}
  <2>1. type = "federation" /\ at <= 2
    BY <1>1, <1>2, <1>3, <1>12 DEF ChainTypes, Path, Length, AgGridKinds, FederationKinds
  <2>2. n = at /\ phase = "direct"
    BY <1>6, <1>12
  <2>3. GoesOn(type, walk')
    BY <1>3, <1>5, <1>9, <2>1, <2>2 DEF GoesOn
  <2> QED
    BY <1>5, <1>9, <1>10, <2>1, <2>2, <2>3 DEF ChainInv
<1>13. CASE Kind \notin {"NavTrigger", "HostRoute", "FederationMapping"}
  <2>1. phase = "ended"
    BY <1>6, <1>13
  <2>2. Ended(type, walk')
    BY <1>1, <1>2, <1>3, <1>9, EndedEarly
  <2> QED
    BY <1>9, <1>10, <2>1, <2>2 DEF ChainInv
<1> QED
  BY <1>11, <1>12, <1>13

LEMMA DirectSearchStep ==
  ASSUME ChainInv, DirectSearch
  PROVE  ChainInv'
<1>1. /\ walk \in Walks /\ walk.phase = "direct" /\ GoesOn(walk.type, walk)
      /\ walk.type = "federation" /\ walk.at <= 2 /\ walk.missing # {}
  BY DEF ChainInv, DirectSearch
<1>2. PICK chain : chain = walk.chain
  OBVIOUS
<1>3. LinksBefore("federation", chain, 2)
  <2>1. LinksBefore("federation", chain, walk.at) /\ walk.at \in Nat
    BY <1>1, <1>2 DEF GoesOn, Length, Walks
  <2> QED
    BY <1>1, <2>1, LinksBeforeLater
<1>4. "federation" \in ChainTypes /\ Length("federation") = 5
      /\ Path("federation")[2] = "FederationMapping" /\ Path("federation") = FederationKinds
  BY DEF ChainTypes, Length, Path, FederationKinds
<1>5. LinksBefore("federation", Append(chain, Link("FederationMapping", "graph")), 6)
  <2>1. 2 \in 1 .. Length("federation") /\ 6 \in Nat /\ 2 < 6
    BY <1>4
  <2>2. LinksBefore("federation", Append(chain, Link(Path("federation")[2], "graph")), 6)
    BY <1>3, <1>4, <2>1, LinkAppended
  <2> QED
    BY <1>4, <2>2
<1>6. LinksBefore("federation", chain, 6)
  BY <1>3, LinksBeforeLater
<1>7. PICK longer : /\ walk' = [walk EXCEPT !.phase = "ended", !.chain = longer]
                    /\ LinksBefore("federation", longer, 6)
  BY <1>2, <1>5, <1>6 DEF DirectSearch
<1>8. longer \in Seq(Links)
  BY <1>4, <1>7, ChainOfLinks
<1>9. /\ walk' \in Walks /\ walk'.phase = "ended" /\ walk'.type = "federation"
      /\ walk'.chain = longer /\ walk'.missing = walk.missing
  BY <1>1, <1>7, <1>8 DEF Walks
<1>10. Ended("federation", walk')
  BY <1>1, <1>4, <1>7, <1>9 DEF Ended
<1> QED
  BY <1>9, <1>10 DEF ChainInv, DirectSearch

LEMMA QueryFailsStep ==
  ASSUME ChainInv, QueryFails
  PROVE  ChainInv'
<1>1. GoesOn(walk.type, walk) /\ Caught /\ UNCHANGED built
  BY DEF ChainInv, QueryFails
<1>2. walk' \in Walks /\ walk'.phase = "ended" /\ Ended(walk'.type, walk')
  BY <1>1, CaughtEnds DEF GoesOn
<1> QED
  BY <1>1, <1>2 DEF ChainInv

\* A chain is built, or its build is given up, and the next one is due.
LEMMA NextBuild ==
  ASSUME ChainInv, walk' = AfterBuild(walk.type), DOMAIN built' = ChainTypes,
         \A type \in ChainTypes : InOrder(type, built'[type])
  PROVE  ChainInv'
<1>1. PICK phase \in {"due", "pack"} :
        walk' = [type |-> "federation", phase |-> phase, at |-> 1, chain |-> <<>>, missing |-> {}]
  BY DEF AfterBuild, Start
<1>2. walk' \in Walks
  BY <1>1 DEF Walks, ChainTypes
<1>3. /\ walk'.phase = "due" \/ walk'.phase = "pack"
      /\ walk'.at = 1 /\ walk'.chain = <<>> /\ walk'.missing = {}
  BY <1>1
<1> QED
  BY <1>2, <1>3 DEF ChainInv

LEMMA ReturnStep ==
  ASSUME ChainInv, Return
  PROVE  ChainInv'
<1>1. walk.type \in ChainTypes /\ Ended(walk.type, walk)
  BY DEF ChainInv, Return, Walks
<1>2. PICK result : result = Finished(walk.type, walk.chain, walk.missing)
  OBVIOUS
<1>3. InOrder(walk.type, result)
  BY <1>1, <1>2, FinishedInOrder
<1>4. built' = [built EXCEPT ![walk.type] = result] /\ walk' = AfterBuild(walk.type)
  BY <1>2 DEF Return
<1>5. DOMAIN built' = ChainTypes /\ \A type \in ChainTypes : InOrder(type, built'[type])
  BY <1>1, <1>3, <1>4 DEF ChainInv
<1> QED
  BY <1>4, <1>5, NextBuild

LEMMA OtherSteps ==
  ASSUME ChainInv, CreatePack \/ QueryGraphPolicies
  PROVE  ChainInv'
<1>1. walk \in Walks /\ UNCHANGED built
  BY DEF ChainInv, CreatePack, QueryGraphPolicies
<1>2. PICK phase \in {"policies", "rules", "done"} : walk' = [walk EXCEPT !.phase = phase]
  BY DEF CreatePack, QueryGraphPolicies
<1>3. walk' \in Walks /\ walk'.phase = phase
  BY <1>1, <1>2 DEF Walks
<1> QED
  BY <1>1, <1>3 DEF ChainInv

LEMMA ChainAlways == ChainSpec => []ChainInv
<1>1. ChainInit => ChainInv
  <2> SUFFICES ASSUME ChainInit PROVE ChainInv
    OBVIOUS
  <2>1. walk \in Walks /\ walk.phase = "due" /\ walk.at = 1 /\ walk.chain = <<>> /\ walk.missing = {}
    BY DEF ChainInit, Start, Walks, ChainTypes
  <2>2. DOMAIN built = ChainTypes /\ \A type \in ChainTypes : built[type] = NoBuild
    BY DEF ChainInit
  <2>3. \A type \in ChainTypes : InOrder(type, built[type])
    BY <2>2 DEF InOrder
  <2> QED
    BY <2>1, <2>2, <2>3 DEF ChainInv
<1>2. ASSUME ChainInv, [ChainNext]_chainVars
      PROVE  ChainInv'
  <2>1. CASE Connect
    BY <1>2, <2>1, ConnectStep
  <2>2. CASE Found
    BY <1>2, <2>2, FoundStep
  <2>3. CASE NoTable
    BY <1>2, <2>3, NoTableStep
  <2>4. CASE NotFound
    BY <1>2, <2>4, NotFoundStep
  <2>5. CASE DirectSearch
    BY <1>2, <2>5, DirectSearchStep
  <2>6. CASE QueryFails
    BY <1>2, <2>6, QueryFailsStep
  <2>7. CASE Return
    BY <1>2, <2>7, ReturnStep
  <2>8. CASE NoChain
    <3>1. UNCHANGED built
      BY <2>8 DEF NoChain
    <3>2. DOMAIN built' = ChainTypes /\ \A type \in ChainTypes : InOrder(type, built'[type])
      BY <1>2, <3>1 DEF ChainInv
    <3> QED
      BY <1>2, <2>8, <3>2, NextBuild DEF NoChain
  <2>9. CASE CreatePack \/ QueryGraphPolicies
    BY <1>2, <2>9, OtherSteps
  <2>10. CASE UNCHANGED chainVars
    BY <1>2, <2>10 DEF chainVars, ChainInv, GoesOn, Ended
  <2> QED
    BY <1>2, <2>1, <2>2, <2>3, <2>4, <2>5, <2>6, <2>7, <2>8, <2>9, <2>10 DEF ChainNext
<1> QED
  BY <1>1, <1>2, PTL DEF ChainSpec

\* Wherever a walk through the graph breaks off and whatever is guessed after
\* it, the links are in the order of the path, what is left out is listed and
\* a complete chain is that of the graph alone.
THEOREM ChainsPartialNotFabricated == ChainSpec => []ChainInOrder
<1>1. ChainInv => ChainInOrder
  BY DEF ChainInv, InOrder, ChainInOrder
<1> QED
  BY <1>1, ChainAlways, PTL

-----------------------------------------------------------------------------
(* Types.                                                                  *)

\* The pack of a session, its plan and what it was shown keep their types.
THEOREM ReadTyped == ReadSpec => []ReadTypeOK
<1>1. ReadInit => ReadTypeOK
  <2>. SUFFICES ASSUME ReadInit PROVE ReadTypeOK OBVIOUS
  <2>1. packNames \subseteq Names BY ReadAssumption DEF ReadInit
  <2>2. readPlan = [submitted |-> FALSE, root |-> Repo, allowed |-> {}] BY DEF ReadInit
  <2>3. shown.verb = "none" BY DEF ReadInit, NothingShown
  <2>. QED BY <2>1, <2>2, <2>3 DEF ReadTypeOK
<1>2. ASSUME ReadTypeOK, [ReadNext]_readVars PROVE ReadTypeOK'
  <2>1. ASSUME NEW hits, ShowHits(hits) PROVE ReadTypeOK'
    <3>1. shown'.verb = "search" /\ UNCHANGED <<packNames, readPlan>>
      BY <2>1 DEF ShowHits
    <3>. QED BY <1>2, <3>1 DEF ReadTypeOK
  <2>2. ASSUME NEW name \in Names, PackGrows(name) \/ ReadRange(name) \/ ListDir(name)
        PROVE  ReadTypeOK'
    <3>1. CASE PackGrows(name) BY <1>2, <3>1 DEF PackGrows, ReadTypeOK
    <3>2. CASE ReadRange(name)
      <4>1. shown'.verb = "read_range" /\ UNCHANGED <<packNames, readPlan>>
        BY <3>2 DEF ReadRange
      <4>. QED BY <1>2, <4>1 DEF ReadTypeOK
    <3>3. CASE ListDir(name)
      <4>1. shown'.verb = "list_dir" /\ UNCHANGED <<packNames, readPlan>>
        BY <3>3 DEF ListDir
      <4>. QED BY <1>2, <4>1 DEF ReadTypeOK
    <3>. QED BY <2>2, <3>1, <3>2, <3>3
  <2>3. ASSUME NEW root \in PlanRoots, NEW allowed \in Allowlists, PlanComes(root, allowed)
        PROVE  ReadTypeOK'
    BY <1>2, <2>3, ReadAssumption DEF PlanComes, ReadTypeOK
  <2>4. CASE UNCHANGED readVars BY <1>2, <2>4 DEF readVars, ReadTypeOK
  <2>. QED BY <1>2, <2>1, <2>2, <2>3, <2>4 DEF ReadNext, ReadSymbol, GrepLexeme, ReadNeighbors
<1>. QED BY <1>1, <1>2, PTL DEF ReadSpec

\* The types of a session.
WorkTypes(w) ==
  /\ w.phase \in {"idle", "memories", "jira", "swagger", "packing", "fetching"}
  /\ w.state \in {"UNINITIALIZED", "PLANNING", "PLAN_ACCEPTED", "BLOCKED_BUDGET"}
  /\ w.strategy \in Strategies \cup {"none"}
  /\ w.signature.flags \subseteq Flags
  /\ w.envelope.strategy \in Strategies \cup {"none"}
  /\ w.envelope.signature.flags \subseteq Flags

\* A step that keeps the types of one session.
LEMMA WorkTypesKept ==
  ASSUME InboxInv, NEW s \in Sessions, NEW v, work' = [work EXCEPT ![s] = v],
         WorkTypes(v), \A t \in Sessions : WorkTypes(work[t])
  PROVE  \A t \in Sessions : WorkTypes(work'[t])
<1>1. \A t \in Sessions : work'[t] = IF t = s THEN v ELSE work[t] BY DEF InboxInv
<1>. QED BY <1>1

LEMMA ChosenTypes ==
  ASSUME NEW base, NEW active, NEW chosen,
         chosen = ApplyStrategySignalOverrides(base, active)
  PROVE  chosen.strategy \in Strategies /\ chosen.signature.flags \subseteq Flags
<1>1. PICK sig : sig = Overridden(base, active) OBVIOUS
<1>2. sig.flags \subseteq Flags BY <1>1 DEF Overridden
<1>3. PICK strategy : strategy = SelectStrategyFromSignature(sig) OBVIOUS
<1>4. strategy \in Strategies BY <1>3 DEF SelectStrategyFromSignature, Strategies
<1>5. chosen = [signature |-> sig, strategy |-> strategy]
  BY <1>1, <1>3, Zenon DEF ApplyStrategySignalOverrides
<1>. QED BY <1>2, <1>4, <1>5

\* The inbox and the sessions keep their types, whatever the signals name.
THEOREM WorkTyped == WorkInitSpec => []WorkInitTypeOK
<1> DEFINE Typed == \A s \in Sessions : WorkTypes(work[s])
<1>1. WorkInitInit => Typed
  <2>. SUFFICES ASSUME WorkInitInit, NEW s \in Sessions PROVE WorkTypes(work[s]) OBVIOUS
  <2>1. work[s] = NewWork BY DEF WorkInitInit
  <2>. QED BY <2>1 DEF NewWork, NoSelection, WorkTypes
<1>2. ASSUME Typed, InboxInv, [WorkInitNext]_workInitVars PROVE Typed'
  <2>1. ASSUME NEW s \in Sessions, NEW w, w = work[s],
               w = [x \in Fields |-> w[x]], WorkTypes(w)
        PROVE  /\ BeginWork(s) => Typed'
               /\ QueryMemories(s) => Typed'
               /\ AutoFetchJira(s) => Typed'
               /\ AutoFetchSwagger(s) => Typed'
               /\ OpenWork(s) => Typed'
               /\ WorkFails(s) => Typed'
               /\ BeginFetch(s) => Typed'
               /\ FetchJira(s) => Typed'
               /\ FetchSwagger(s) => Typed'
               /\ FetchFails(s) => Typed'
               /\ PlanAccepted(s) => Typed'
               /\ BudgetBlocks(s) => Typed'
    <3>0. work = [t \in Sessions |-> work[t]] BY <1>2 DEF InboxInv
    <3>1. ASSUME BeginWork(s) PROVE Typed'
      <4>1. PICK said \in Prompts, lexemes \in Lexemes, attached \in Attachments,
                 taken \in Takings(ContentsOf(work[s].artifacts)) :
              \E kept \in SUBSET taken :
                /\ inbox' = inbox \ (taken \ kept)
                /\ stuck' = stuck \cup kept
                /\ takes' = takes \cup {<<s, f>> : f \in taken}
                /\ work' = [work EXCEPT ![s] =
                     [TurnStarts(work[s], said, lexemes) EXCEPT !.phase = "memories",
                        !.verbs = @ + 1,
                        !.artifacts = @ \o SetToSeq({InboxArtifact(f) : f \in taken})
                          \o [i \in DOMAIN attached |->
                               [source |-> "attachment", ref |-> attached[i],
                                content |-> NoContent]]]]
        BY <3>1, Zenon DEF BeginWork
      <4>2. PICK t : t = TurnStarts(w, said, lexemes) OBVIOUS
      <4>3. PICK artifacts :
              work' = [work EXCEPT ![s] = [t EXCEPT !.phase = "memories",
                         !.verbs = @ + 1, !.artifacts = artifacts]]
        BY <2>1, <4>1, <4>2, Zenon
      <4>4. PICK v : v = [t EXCEPT !.phase = "memories", !.verbs = @ + 1,
                                   !.artifacts = artifacts] OBVIOUS
      <4>5. work' = [work EXCEPT ![s] = v] BY <4>3, <4>4
      <4>6. /\ t = [x \in Fields |-> t[x]]
            /\ \A x \in Fields \ {"prompt", "text", "envelope"} : t[x] = w[x]
            /\ t.envelope.strategy \in Strategies
            /\ t.envelope.signature.flags \subseteq Flags
        BY <2>1, <4>2, TurnStarted
      <4>7. v.phase = "memories" /\ v.state = w.state /\ v.strategy = w.strategy
            /\ v.signature = w.signature /\ v.envelope = t.envelope
        BY <4>4, <4>6 DEF Fields
      <4>8. WorkTypes(v) BY <2>1, <4>6, <4>7 DEF WorkTypes
      <4>. QED BY <1>2, <4>5, <4>8, WorkTypesKept
    <3>2. ASSUME QueryMemories(s) PROVE Typed'
      <4>1. PICK a : work' = [work EXCEPT ![s].phase = "jira", ![s].active = a]
        BY <3>2 DEF QueryMemories
      <4>2. PICK v : v = [w EXCEPT !.phase = "jira", !.active = a] OBVIOUS
      <4>3. work' = [work EXCEPT ![s] = v] BY <2>1, <3>0, <4>1, <4>2 DEF Fields
      <4>4. v.phase = "jira" /\ v.state = w.state /\ v.strategy = w.strategy
            /\ v.signature = w.signature /\ v.envelope = w.envelope
        BY <2>1, <4>2 DEF Fields
      <4>5. WorkTypes(v) BY <2>1, <4>4 DEF WorkTypes
      <4>. QED BY <1>2, <4>3, <4>5, WorkTypesKept
    <3>3. ASSUME AutoFetchJira(s) PROVE Typed'
      <4>1. PICK a : work' = [work EXCEPT ![s].phase = "swagger", ![s].artifacts = a]
        BY <3>3 DEF AutoFetchJira
      <4>2. PICK v : v = [w EXCEPT !.phase = "swagger", !.artifacts = a] OBVIOUS
      <4>3. work' = [work EXCEPT ![s] = v] BY <2>1, <3>0, <4>1, <4>2 DEF Fields
      <4>4. v.phase = "swagger" /\ v.state = w.state /\ v.strategy = w.strategy
            /\ v.signature = w.signature /\ v.envelope = w.envelope
        BY <2>1, <4>2 DEF Fields
      <4>5. WorkTypes(v) BY <2>1, <4>4 DEF WorkTypes
      <4>. QED BY <1>2, <4>3, <4>5, WorkTypesKept
    <3>4. ASSUME AutoFetchSwagger(s) PROVE Typed'
      <4>0. PICK found, brought, chosen : SwaggerChosen(s, w, found, brought, chosen)
        BY <2>1, <3>4, SwaggerFetched, Zenon
      <4>1. /\ brought = [w EXCEPT !.artifacts = @ \o found]
            /\ chosen = ApplyStrategySignalOverrides(
                          ComputeContextSignature(brought, IndexText), w.active)
            /\ work' = [work EXCEPT ![s] =
                 [brought EXCEPT !.phase = "packing", !.strategy = chosen.strategy,
                                 !.signature = chosen.signature]]
        BY <4>0, Zenon DEF SwaggerChosen
      <4>2. chosen.strategy \in Strategies /\ chosen.signature.flags \subseteq Flags
        BY <4>1, ChosenTypes
      <4>3. PICK strategy, signature :
              strategy = chosen.strategy /\ signature = chosen.signature OBVIOUS
      <4>4. PICK v : v = [brought EXCEPT !.phase = "packing", !.strategy = strategy,
                                         !.signature = signature] OBVIOUS
      <4>5. work' = [work EXCEPT ![s] = v] BY <4>1, <4>3, <4>4
      <4>6. brought = [x \in Fields |-> brought[x]] /\ brought.state = w.state
            /\ brought.envelope = w.envelope
        BY <2>1, <4>1 DEF Fields
      <4>7. v.phase = "packing" /\ v.state = w.state /\ v.strategy = strategy
            /\ v.signature = signature /\ v.envelope = w.envelope
        BY <4>4, <4>6 DEF Fields
      <4>8. WorkTypes(v) BY <2>1, <4>2, <4>3, <4>7 DEF WorkTypes
      <4>. QED BY <1>2, <4>5, <4>8, WorkTypesKept
    <3>5. ASSUME OpenWork(s) PROVE Typed'
      <4>1. PICK a : work' = [work EXCEPT ![s].phase = "idle", ![s].files = a,
                       ![s].state = IF @ = "UNINITIALIZED" THEN "PLANNING" ELSE @,
                       ![s].envelope = ResponseStrategy(work[s])]
        BY <3>5 DEF OpenWork
      <4>2. PICK state : state = IF w.state = "UNINITIALIZED" THEN "PLANNING" ELSE w.state
        OBVIOUS
      <4>3. PICK strategy, e : /\ strategy = w.strategy
                               /\ e = [w.envelope EXCEPT !.strategy = strategy]
                               /\ e = ResponseStrategy(w)
        BY DEF ResponseStrategy
      <4>4. PICK v : v = [w EXCEPT !.phase = "idle", !.files = a, !.state = state,
                                   !.envelope = e] OBVIOUS
      <4>5. work' = [work EXCEPT ![s] = v]
        BY <2>1, <3>0, <4>1, <4>2, <4>3, <4>4 DEF Fields
      <4>6. v.phase = "idle" /\ v.state = state /\ v.strategy = w.strategy
            /\ v.signature = w.signature /\ v.envelope = e
        BY <2>1, <4>4 DEF Fields
      <4>7. state \in {"UNINITIALIZED", "PLANNING", "PLAN_ACCEPTED", "BLOCKED_BUDGET"}
        BY <2>1, <4>2 DEF WorkTypes
      <4>8. e.strategy \in Strategies \cup {"none"} /\ e.signature.flags \subseteq Flags
        BY <2>1, <4>3 DEF WorkTypes
      <4>9. WorkTypes(v) BY <2>1, <4>6, <4>7, <4>8 DEF WorkTypes
      <4>. QED BY <1>2, <4>5, <4>9, WorkTypesKept
    <3>6. ASSUME work' = [work EXCEPT ![s].phase = "idle"] PROVE Typed'
      <4>1. PICK v : v = [w EXCEPT !.phase = "idle"] OBVIOUS
      <4>2. work' = [work EXCEPT ![s] = v] BY <2>1, <3>0, <3>6, <4>1 DEF Fields
      <4>3. v.phase = "idle" /\ v.state = w.state /\ v.strategy = w.strategy
            /\ v.signature = w.signature /\ v.envelope = w.envelope
        BY <2>1, <4>1 DEF Fields
      <4>4. WorkTypes(v) BY <2>1, <4>3 DEF WorkTypes
      <4>. QED BY <1>2, <4>2, <4>4, WorkTypesKept
    <3>7. ASSUME WorkFails(s) PROVE Typed'
      <4>1. CASE work' = [work EXCEPT ![s].phase = "idle"] BY <3>6, <4>1
      <4>2. CASE work' = [work EXCEPT ![s] = NewWork]
        <5>1. PICK v : v = NewWork OBVIOUS
        <5>2. WorkTypes(v) BY <5>1 DEF NewWork, NoSelection, WorkTypes
        <5>. QED BY <1>2, <4>2, <5>1, <5>2, WorkTypesKept
      <4>. QED BY <3>7, <4>1, <4>2 DEF WorkFails
    <3>8. ASSUME BeginFetch(s) PROVE Typed'
      <4>1. PICK said, lexemes :
              work' = [work EXCEPT ![s] = [TurnStarts(work[s], said, lexemes) EXCEPT
                         !.phase = "fetching", !.verbs = @ + 1]]
        BY <3>8, Zenon DEF BeginFetch
      <4>2. PICK t : t = TurnStarts(w, said, lexemes) OBVIOUS
      <4>3. PICK v : v = [t EXCEPT !.phase = "fetching", !.verbs = @ + 1] OBVIOUS
      <4>4. work' = [work EXCEPT ![s] = v] BY <2>1, <4>1, <4>2, <4>3
      <4>5. /\ t = [x \in Fields |-> t[x]]
            /\ \A x \in Fields \ {"prompt", "text", "envelope"} : t[x] = w[x]
            /\ t.envelope.strategy \in Strategies
            /\ t.envelope.signature.flags \subseteq Flags
        BY <2>1, <4>2, TurnStarted
      <4>6. v.phase = "fetching" /\ v.state = w.state /\ v.strategy = w.strategy
            /\ v.signature = w.signature /\ v.envelope = t.envelope
        BY <4>3, <4>5 DEF Fields
      <4>7. WorkTypes(v) BY <2>1, <4>5, <4>6 DEF WorkTypes
      <4>. QED BY <1>2, <4>4, <4>7, WorkTypesKept
    <3>9. ASSUME FetchJira(s) \/ FetchSwagger(s) PROVE Typed'
      <4>1. PICK slice, a :
              \/ work' = [work EXCEPT ![s].phase = "idle", ![s].slice = slice,
                                      ![s].artifacts = a]
              \/ work' = [work EXCEPT ![s].phase = "idle", ![s].artifacts = a]
        BY <3>9 DEF FetchJira, FetchSwagger
      <4>2. PICK v : \/ v = [w EXCEPT !.phase = "idle", !.slice = slice, !.artifacts = a]
                        /\ work' = [work EXCEPT ![s] = v]
                     \/ v = [w EXCEPT !.phase = "idle", !.artifacts = a]
                        /\ work' = [work EXCEPT ![s] = v]
        BY <2>1, <3>0, <4>1 DEF Fields
      <4>3. v.phase = "idle" /\ v.state = w.state /\ v.strategy = w.strategy
            /\ v.signature = w.signature /\ v.envelope = w.envelope
        BY <2>1, <4>2 DEF Fields
      <4>4. work' = [work EXCEPT ![s] = v] BY <4>2
      <4>5. WorkTypes(v) BY <2>1, <4>3 DEF WorkTypes
      <4>. QED BY <1>2, <4>4, <4>5, WorkTypesKept
    <3>10. ASSUME NEW said, NEW lexemes, NEW t, t = TurnStarts(w, said, lexemes),
                  NEW v, work' = [work EXCEPT ![s] = v],
                  NEW state \in {"PLAN_ACCEPTED", "BLOCKED_BUDGET"}, v.state = state,
                  \A x \in {"phase", "strategy", "signature", "envelope"} : v[x] = t[x]
           PROVE  Typed'
      <4>1. /\ \A x \in Fields \ {"prompt", "text", "envelope"} : t[x] = w[x]
            /\ t.envelope.strategy \in Strategies
            /\ t.envelope.signature.flags \subseteq Flags
        BY <2>1, <3>10, TurnStarted
      <4>2. v.phase = w.phase /\ v.strategy = w.strategy /\ v.signature = w.signature
            /\ v.envelope = t.envelope
        BY <3>10, <4>1 DEF Fields
      <4>3. WorkTypes(v) BY <2>1, <3>10, <4>1, <4>2 DEF WorkTypes
      <4>. QED BY <1>2, <3>10, <4>3, WorkTypesKept
    <3>11. ASSUME PlanAccepted(s) PROVE Typed'
      <4>1. PICK said \in Prompts, lexemes \in Lexemes, allowed \in AllowedByPlan :
              work' = [work EXCEPT ![s] = [TurnStarts(work[s], said, lexemes) EXCEPT
                                  !.state = "PLAN_ACCEPTED", !.allowed = allowed]]
        BY <3>11, Zenon DEF PlanAccepted
      <4>2. PICK t : t = TurnStarts(w, said, lexemes) OBVIOUS
      <4>3. PICK v : v = [t EXCEPT !.state = "PLAN_ACCEPTED", !.allowed = allowed] OBVIOUS
      <4>4. work' = [work EXCEPT ![s] = v] BY <2>1, <4>1, <4>2, <4>3
      <4>5. t = [x \in Fields |-> t[x]] BY <2>1, <4>2, TurnStarted
      <4>6. /\ v.state = "PLAN_ACCEPTED"
            /\ \A x \in {"phase", "strategy", "signature", "envelope"} : v[x] = t[x]
        BY <4>3, <4>5 DEF Fields
      <4>. QED BY <3>10, <4>2, <4>4, <4>6
    <3>12. ASSUME BudgetBlocks(s) PROVE Typed'
      <4>1. PICK said \in Prompts, lexemes \in Lexemes :
              work' = [work EXCEPT ![s] = [TurnStarts(work[s], said, lexemes) EXCEPT
                                  !.state = "BLOCKED_BUDGET"]]
        BY <3>12, Zenon DEF BudgetBlocks
      <4>2. PICK t : t = TurnStarts(w, said, lexemes) OBVIOUS
      <4>3. PICK v : v = [t EXCEPT !.state = "BLOCKED_BUDGET"] OBVIOUS
      <4>4. work' = [work EXCEPT ![s] = v] BY <2>1, <4>1, <4>2, <4>3
      <4>5. t = [x \in Fields |-> t[x]] BY <2>1, <4>2, TurnStarted
      <4>6. /\ v.state = "BLOCKED_BUDGET"
            /\ \A x \in {"phase", "strategy", "signature", "envelope"} : v[x] = t[x]
        BY <4>3, <4>5 DEF Fields
      <4>. QED BY <3>10, <4>2, <4>4, <4>6
    <3>. QED BY <3>1, <3>2, <3>3, <3>4, <3>5, <3>6, <3>7, <3>8, <3>9, <3>11, <3>12
         DEF FetchFails
  <2>2. \A s \in Sessions : work[s] = [x \in Fields |-> work[s][x]]
    BY <1>2 DEF InboxInv, Sound
  <2>3. CASE UNCHANGED workInitVars BY <1>2, <2>3 DEF workInitVars
  <2>. HIDE DEF Typed
  <2>4. \A s \in Sessions : WorkTypes(work[s]) BY <1>2 DEF Typed
  <2>. QED BY <1>2, <2>1, <2>2, <2>3, <2>4 DEF WorkInitNext
<1>3. Typed /\ InboxInv => WorkInitTypeOK BY DEF InboxInv, WorkTypes, WorkInitTypeOK
<1>. HIDE DEF Typed
<1>. QED BY <1>1, <1>2, <1>3, InboxAlways, PTL DEF WorkInitSpec

\* What a walk found missing is of its path.
ChainTyping == ChainTypeOK /\ walk.missing \subseteq ToSet(Path(walk.type))

\* The walk, the chains that were built and the verdict on them keep their types:
\* no walk goes further than its path, and what is missing is of the path.
THEOREM ChainTyped == ChainSpec => []ChainTypeOK
<1>1. ChainInit => ChainTyping
  <2>. SUFFICES ASSUME ChainInit PROVE ChainTyping OBVIOUS
  <2>1. /\ walk.type = "aggrid" /\ walk.at = 1 /\ walk.phase = "due" /\ walk.missing = {}
    BY DEF ChainInit, Start
  <2>2. \A type \in ChainTypes : built[type].missing = {} BY DEF ChainInit, NoBuild
  <2>. QED BY <2>1, <2>2 DEF ChainInit, ChainTyping, ChainTypeOK, ChainTypes
<1>2. ASSUME ChainTyping, ChainInv, [ChainNext]_chainVars PROVE ChainTyping'
  <2>1. PICK type, at, missing :
          type = walk.type /\ at = walk.at /\ missing = walk.missing
    OBVIOUS
  <2>2. /\ type \in ChainTypes /\ at \in 1 .. 8 /\ missing \subseteq ToSet(Path(type))
        /\ walk = [type |-> type, phase |-> walk.phase, at |-> at,
                   chain |-> walk.chain, missing |-> missing]
    BY <1>2, <2>1 DEF ChainTyping, ChainTypeOK, ChainInv, Walks
  <2>3. Length(type) \in 5 .. 8 /\ Len(Path(type)) = Length(type)
        /\ DOMAIN Path(type) = 1 .. Length(type)
    BY <2>2, PathKinds DEF Length
  <2>4. walk.phase = "query" => at \in 1 .. Length(type) /\ Kind \in ToSet(Path(type))
    <3>. SUFFICES ASSUME walk.phase = "query"
                  PROVE  at \in 1 .. Length(type) /\ Kind \in ToSet(Path(type))
      OBVIOUS
    <3>1. at \in 1 .. Length(type) BY <1>2, <2>1 DEF ChainInv, GoesOn
    <3>2. Kind = Path(type)[at] BY <2>1 DEF Kind
    <3>. QED BY <3>1, <3>2, <2>3 DEF ToSet
  <2>5. ASSUME UNCHANGED <<request, built, verdict, fetched>>,
               walk'.type = type, walk'.at \in 1 .. 8,
               walk'.missing \subseteq ToSet(Path(type)),
               walk'.phase \in {"due", "query", "direct", "ended", "pack", "policies",
                                "rules", "done"}
        PROVE  ChainTyping'
    BY <1>2, <2>2, <2>5 DEF ChainTyping, ChainTypeOK
  <2>6. ASSUME Caught
        PROVE  /\ walk'.type = type /\ walk'.at = at /\ walk'.missing = missing
               /\ walk'.phase = "ended"
    BY <2>2, <2>6 DEF Caught
  <2>7. CASE Connect
    <3>1. /\ walk'.type = type /\ walk'.at = at /\ walk'.missing = missing
          /\ walk'.phase \in {"query", "ended"}
      BY <2>2, <2>6, <2>7 DEF Connect
    <3>. QED BY <3>1, <2>2, <2>5, <2>7 DEF Connect
  <2>8. CASE Found
    <3>1. PICK n, phase : /\ n = IF at = Len(Path(type)) THEN at ELSE at + 1
                          /\ phase = IF at = Len(Path(type)) THEN "ended" ELSE walk.phase
      OBVIOUS
    <3>2. PICK chain : walk' = [walk EXCEPT !.chain = chain, !.at = n, !.phase = phase]
      BY <2>1, <2>8, <3>1 DEF Found
    <3>3. /\ walk'.type = type /\ walk'.at = n /\ walk'.missing = missing
          /\ walk'.phase = phase
      BY <2>2, <3>2
    <3>4. n \in 1 .. 8 /\ phase \in {"query", "ended"}
      BY <2>3, <2>4, <2>8, <3>1 DEF Found
    <3>. QED BY <3>3, <3>4, <2>2, <2>5, <2>8 DEF Found
  <2>9. CASE NoTable
    <3>1. PICK chain, more : /\ walk' = [walk EXCEPT !.phase = "ended", !.chain = chain,
                                                    !.missing = more]
                             /\ more = missing \/ more = missing \cup {Kind}
      BY <2>1, <2>9 DEF NoTable
    <3>2. /\ walk'.type = type /\ walk'.at = at /\ walk'.missing = more
          /\ walk'.phase = "ended"
      BY <2>2, <3>1
    <3>3. more \subseteq ToSet(Path(type)) BY <2>2, <2>4, <2>9, <3>1 DEF NoTable
    <3>. QED BY <3>2, <3>3, <2>2, <2>5, <2>9 DEF NoTable
  <2>10. CASE NotFound
    <3>1. PICK n, phase :
            /\ n = IF Kind = "NavTrigger" THEN at + 1 ELSE at
            /\ phase = CASE Kind = "NavTrigger" -> "query"
                         [] Kind \in {"HostRoute", "FederationMapping"} -> "direct"
                         [] OTHER -> "ended"
      OBVIOUS
    <3>2. walk' = [walk EXCEPT !.missing = missing \cup {Kind}, !.at = n, !.phase = phase]
      BY <2>1, <2>10, <3>1 DEF NotFound
    <3>3. /\ walk'.type = type /\ walk'.at = n /\ walk'.missing = missing \cup {Kind}
          /\ walk'.phase = phase
      BY <2>2, <3>2
    <3>4. phase \in {"query", "direct", "ended"} BY <3>1
    <3>5. n \in 1 .. 8
      <4>1. CASE Kind # "NavTrigger" BY <2>2, <3>1, <4>1
      <4>2. CASE Kind = "NavTrigger"
        <5>1. at # 8
          <6>. SUFFICES ASSUME at = 8 PROVE FALSE OBVIOUS
          <6>1. walk.type = "aggrid"
            BY <2>1, <2>2, <2>4, <2>10 DEF NotFound, ChainTypes, Length
          <6>2. Kind = "Definition" BY <6>1, <2>1 DEF Kind, Path, AgGridKinds
          <6>. QED BY <6>2, <4>2
        <5>. QED BY <5>1, <2>2, <3>1, <4>2
      <4>. QED BY <4>1, <4>2
    <3>6. missing \cup {Kind} \subseteq ToSet(Path(type)) BY <2>2, <2>4, <2>10 DEF NotFound
    <3>. QED BY <3>3, <3>4, <3>5, <3>6, <2>5, <2>10 DEF NotFound
  <2>11. CASE DirectSearch
    <3>1. PICK chain : walk' = [walk EXCEPT !.phase = "ended", !.chain = chain]
      BY <2>11 DEF DirectSearch
    <3>2. /\ walk'.type = type /\ walk'.at = at /\ walk'.missing = missing
          /\ walk'.phase = "ended"
      BY <2>2, <3>1
    <3>. QED BY <3>2, <2>2, <2>5, <2>11 DEF DirectSearch
  <2>12. CASE QueryFails BY <2>2, <2>5, <2>6, <2>12 DEF QueryFails
  <2>13. ASSUME walk' = AfterBuild(type)
         PROVE  /\ walk'.type = "federation" /\ walk'.at = 1 /\ walk'.missing = {}
                /\ walk'.phase \in {"due", "pack"}
    BY <2>13 DEF AfterBuild, Start
  <2>14. CASE Return
    <3>1. PICK result : result = Finished(type, walk.chain, missing) OBVIOUS
    <3>2. result.missing \subseteq ToSet(Path(type)) BY <2>2, <3>1 DEF Finished
    <3>3. built' = [built EXCEPT ![type] = result] /\ UNCHANGED <<request, verdict, fetched>>
      BY <2>1, <2>14, <3>1 DEF Return
    <3>4. \A t \in ChainTypes : built'[t].missing \subseteq ToSet(Path(t))
      <4>. TAKE t \in ChainTypes
      <4>1. DOMAIN built = ChainTypes BY <1>2 DEF ChainInv
      <4>2. built'[t] = IF t = type THEN result ELSE built[t] BY <3>3, <4>1
      <4>. QED BY <1>2, <3>2, <4>2 DEF ChainTyping, ChainTypeOK
    <3>5. walk' = AfterBuild(type) BY <2>1, <2>14 DEF Return
    <3>. QED BY <1>2, <2>13, <3>3, <3>4, <3>5 DEF ChainTyping, ChainTypeOK, ChainTypes
  <2>15. CASE NoChain
    <3>1. walk' = AfterBuild(type) /\ UNCHANGED <<request, built, verdict, fetched>>
      BY <2>1, <2>15 DEF NoChain
    <3>. QED BY <1>2, <2>13, <3>1 DEF ChainTyping, ChainTypeOK, ChainTypes
  <2>16. CASE CreatePack
    <3>1. /\ verdict' \subseteq ChainTypes \cup Anchors
          /\ UNCHANGED <<request, built, fetched>>
          /\ walk' = [walk EXCEPT !.phase = "policies"]
      BY <1>2, <2>16 DEF CreatePack, MissingAnchors, ChainTyping, ChainTypeOK, Requests
    <3>2. /\ walk'.type = type /\ walk'.at = at /\ walk'.missing = missing
          /\ walk'.phase = "policies"
      BY <2>2, <3>1
    <3>. QED BY <1>2, <2>2, <3>1, <3>2 DEF ChainTyping, ChainTypeOK
  <2>17. CASE QueryGraphPolicies
    <3>1. PICK phase \in {"rules", "done"} : walk' = [walk EXCEPT !.phase = phase]
      BY <2>17 DEF QueryGraphPolicies
    <3>2. /\ walk'.type = type /\ walk'.at = at /\ walk'.missing = missing
          /\ walk'.phase = phase
      BY <2>2, <3>1
    <3>3. fetched' \subseteq {"policies", "rules"}
      BY <1>2, <2>17 DEF QueryGraphPolicies, ChainTyping, ChainTypeOK
    <3>4. UNCHANGED <<request, built, verdict>> BY <2>17 DEF QueryGraphPolicies
    <3>. QED BY <1>2, <2>2, <3>2, <3>3, <3>4 DEF ChainTyping, ChainTypeOK
  <2>18. CASE UNCHANGED chainVars
    BY <1>2, <2>18 DEF chainVars, ChainTyping, ChainTypeOK
  <2>. QED BY <1>2, <2>7, <2>8, <2>9, <2>10, <2>11, <2>12, <2>14, <2>15, <2>16, <2>17,
              <2>18
           DEF ChainNext
<1>3. ChainTyping => ChainTypeOK BY DEF ChainTyping
<1>. QED BY <1>1, <1>2, <1>3, ChainAlways, PTL DEF ChainSpec
=============================================================================
