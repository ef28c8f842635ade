------------------------------- MODULE ReadVerbs -------------------------------
(***************************************************************************)
(* The read verbs of one session: what they check before they show a file. *)
(* The pack names files as whoever put them there wrote them: relative,    *)
(* with a leading dot, or absolute as the index has them; so do the        *)
(* requests and the allowlist of a plan.  The pack check brings all names  *)
(* to one form relative to the repository; the allowlist check and the     *)
(* read itself resolve them against the worktree root of the plan, which   *)
(* may lie below the repository.                                           *)
(*                                                                         *)
(* A location is the sequence of its segments.  The repository is the      *)
(* gateway's own (MCP_TARGET_REPO_ROOT is not set), so that scratch areas  *)
(* lie in it.  Names with ".." and backslashes are left out.               *)
(***************************************************************************)
EXTENDS Integers, FiniteSets, SequencesExt

CONSTANTS
  RepoPaths,      \* the paths below the repository that names may have
  ReadForms,      \* the forms a name may be written in
  PackLists,      \* the packs that initialize_work may build
  Allowlists,     \* the allowlists a plan may come with
  PlanRoots,      \* the worktree roots a plan may have, below the repository
  OnDisk,         \* the locations that are files
  MaxNames        \* bound on the names in the pack

Repo == <<"repo">>

Names == [form : ReadForms, path : RepoPaths]

ASSUME ReadAssumption ==
  /\ \A path \in RepoPaths : path \in Seq(STRING) /\ path # <<>>
  /\ \A path \in RepoPaths : ~IsPrefix(Repo, path)  \* Repo is a root of its own
  /\ OnDisk \subseteq Seq(STRING)
  /\ ReadForms \subseteq {"relative", "dotted", "absolute", "rooted"}
  /\ PackLists \subseteq SUBSET Names
  /\ Allowlists \subseteq SUBSET Names
  /\ \A root \in PlanRoots : IsPrefix(Repo, root)
  /\ MaxNames \in Nat

VARIABLES
  packNames,   \* contextPack.files
  readPlan,    \* whether there is a plan, its worktreeRoot and scopeAllowlist
  shown        \* the last answer of a read verb

readVars == <<packNames, readPlan, shown>>

NothingShown == [verb |-> "none"]

ReadInit ==
  /\ packNames \in PackLists
  /\ readPlan = [submitted |-> FALSE, root |-> Repo, allowed |-> {}]
  /\ shown = NothingShown

ReadTypeOK ==
  /\ packNames \subseteq Names
  /\ readPlan \in [submitted : BOOLEAN, root : PlanRoots \cup {Repo},
                   allowed : SUBSET Names]
  /\ shown.verb \in {"none", "read_range", "search", "list_dir"}

-----------------------------------------------------------------------------
(* The pack check.                                                         *)

\* Mutant: a leading dot stays.
KeepsDot(name) == IF name.form = "dotted" THEN <<".">> \o name.path ELSE name.path

\* Repository prefix, leading dot and leading slash are stripped.
ToRepoRelative(name) == name.path

\* Somewhere below a work area of the gateway.
InScratch(path) ==
  \E i \in 1 .. Len(path) - 3 : SubSeq(path, i, i + 2) = <<".ai", "tmp", "work">>

IsAiBypassPath(path) ==
  /\ Len(path) > 2
  /\ \/ path[1] = ".ai" /\ path[2] \in {"config", "how-to", "docs"}
     \/ SubSeq(path, 1, 3) = <<".ai", "memory", "overrides">> /\ Len(path) > 3

\* An empty pack denies even what is open to every session.
IsInPack(name) ==
  /\ packNames # {}
  /\ LET path == ToRepoRelative(name) IN
       \/ InScratch(path)
       \/ IsAiBypassPath(path)
       \/ \E p \in packNames : ToRepoRelative(p) = path

-----------------------------------------------------------------------------
(* Names against a root.                                                   *)

\* path.resolve
Resolve(root, name) ==
  CASE name.form \in {"relative", "dotted"} -> root \o name.path
    [] name.form = "absolute" -> Repo \o name.path
    [] name.form = "rooted" -> name.path

IsSafePath(root, name) == IsStrictPrefix(root, Resolve(root, name))

\* Also the root itself.
IsSafeDir(root, name) == IsPrefix(root, Resolve(root, name))

ReadRoot == IF readPlan.submitted THEN readPlan.root ELSE Repo

\* Names of the allowlist that leave the root are dropped; if none is left, the
\* list still denies everything.
ScopeAllowsFile(name) ==
  /\ IsSafePath(ReadRoot, name)
  /\ readPlan.allowed # {} =>
       \E a \in readPlan.allowed :
         IsSafePath(ReadRoot, a) /\ Resolve(ReadRoot, a) = Resolve(ReadRoot, name)

-----------------------------------------------------------------------------
(* The verbs.                                                              *)

\* Escalation puts a file in the pack.
PackGrows(name) ==
  /\ Cardinality(packNames) < MaxNames
  /\ packNames' = packNames \cup {name}
  /\ UNCHANGED <<readPlan, shown>>

\* An accepted plan brings its root and its allowlist; an allowlist that cannot
\* be read is none.
PlanComes(root, allowed) ==
  /\ readPlan' = [submitted |-> TRUE, root |-> root, allowed |-> allowed]
  /\ UNCHANGED <<packNames, shown>>

ReadRange(name) ==
  /\ shown' =
       [verb |-> "read_range", asked |-> {name},
        code |-> IF ~IsInPack(name) THEN "PACK_SCOPE_VIOLATION"
                 ELSE IF ScopeAllowsFile(name) /\ Resolve(ReadRoot, name) \in OnDisk
                 THEN "none" ELSE "PLAN_SCOPE_VIOLATION",
        files |-> {Resolve(ReadRoot, name)}]
  /\ UNCHANGED <<packNames, readPlan>>

\* Any names that the index finds, all absolute; what is not in the pack is left
\* out, and it is an error when nothing else was found.
ShowHits(hits) ==
  LET kept == {h \in hits : IsInPack(h)} IN
  /\ shown' =
       [verb |-> "search", asked |-> hits,
        code |-> IF kept = {} /\ hits # {} THEN "PACK_SCOPE_VIOLATION" ELSE "none",
        files |-> {Resolve(Repo, h) : h \in kept}]
  /\ UNCHANGED <<packNames, readPlan>>

Indexed == {n \in Names : n.form = "absolute" /\ Resolve(Repo, n) \in OnDisk}

ReadSymbol == \E hits \in SUBSET Indexed : ShowHits(hits)

\* The lines found, by file.
GrepLexeme == \E hits \in SUBSET Indexed : ShowHits(hits)

\* Symbol matches and lexical matches are filtered apart and counted together.
ReadNeighbors ==
  \E symbols, lexical \in SUBSET Indexed : ShowHits(symbols \cup lexical)

\* A directory must itself be named by the pack; no allowlist is asked.
ListDir(name) ==
  /\ shown' =
       [verb |-> "list_dir", asked |-> {name},
        code |-> IF ~IsInPack(name) THEN "PACK_SCOPE_VIOLATION"
                 ELSE IF /\ IsSafeDir(ReadRoot, name)
                         /\ \E f \in OnDisk : IsStrictPrefix(Resolve(ReadRoot, name), f)
                 THEN "none" ELSE "PLAN_SCOPE_VIOLATION",
        files |-> {f \in OnDisk : IsStrictPrefix(Resolve(ReadRoot, name), f)}]
  /\ UNCHANGED <<packNames, readPlan>>

ReadNext ==
  \/ ReadSymbol \/ GrepLexeme \/ ReadNeighbors
  \/ \E name \in Names : PackGrows(name) \/ ReadRange(name) \/ ListDir(name)
  \/ \E root \in PlanRoots, allowed \in Allowlists : PlanComes(root, allowed)

ReadSpec == ReadInit /\ [][ReadNext]_readVars

-----------------------------------------------------------------------------
(* What the session gets to see.                                           *)

\* The files that the pack means, or that are open to every session.
Means(names) == {Repo \o n.path : n \in names}

OpenLocations ==
  {f \in OnDisk :
     LET path == SubSeq(f, 2, Len(f)) IN InScratch(path) \/ IsAiBypassPath(path)}

\* What a session may see, however it is named.
Visible == IF packNames = {} THEN {} ELSE Means(packNames) \cup OpenLocations

ShowsWhatIsMeant ==
  LET useful == {a \in readPlan.allowed : a.form # "rooted"}
  IN /\ (shown'.verb = "read_range" /\ ReadRoot = Repo) =>
          \A name \in shown'.asked :
            (shown'.code = "none") =
              (/\ name.form # "rooted"
               /\ Repo \o name.path \in OnDisk \cap Visible
               /\ readPlan.allowed # {} =>
                    Repo \o name.path \in Means(useful))
     /\ shown'.verb = "search" => shown'.files = Means(shown'.asked) \cap Visible

\* How a file is named does not matter: while the plan works in the repository
\* itself, a range is read exactly when the file exists, the pack means it (or
\* it is open), and the allowlist is empty or means it, whichever forms the
\* pack, the list and the request use; only a name that starts with a slash is
\* useless, in a request and in an allowlist.  Searches show what the pack means
\* under every root (isInPack against scopeAllowsFile and normalizeSafePath).
NamingDoesNotMatter == [][shown' = shown \/ ShowsWhatIsMeant]_readVars
=============================================================================
