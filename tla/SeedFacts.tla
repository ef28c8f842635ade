------------------------------- MODULE SeedFacts -------------------------------
(***************************************************************************)
(* The seed-facts command: the indexing service reads the source files in  *)
(* three passes (templates, symbols, routes) while they may be edited, and *)
(* the seed generator turns the index into six files of rows, written one  *)
(* after the other; the command may die between two of them.  Graph        *)
(* synchronisation creates any node an edge names, so an edge to an id no  *)
(* row has leaves a node without properties in the graph.                  *)
(*                                                                         *)
(* The parsers are abstracted: what a file holds is what they would find   *)
(* in it.  A folder is the sequence of its names below the repository, a   *)
(* source file that of its folder and its own name.  The name of a symbol  *)
(* is the sequence of its words, so that one name may occur in another; a  *)
(* word may have upper-case letters, which the map of symbols is blind to. *)
(* Routes are listed as they are nested: each with its level, after the    *)
(* route it is a child of.                                                 *)
(***************************************************************************)
EXTENDS Integers, FiniteSets, SequencesExt

CONSTANTS
  SourceFiles,     \* the source files, in the order of their paths
  FileContents,    \* what a file may hold
  LowerCase,       \* word -> the word in lower case
  Folders,         \* the folders of the repository
  IgnoredFolders,  \* those .gitignore or the hard exclusions leave out
  UnanchoredFolders,  \* those the anchor patterns leave out besides
  ForcedAnchors,   \* anchorIncludeOverrides
  AnchorDepth,     \* anchorAutoSeedMaxDepth
  HeaderLimit,     \* the limit the command gives getSymbolHeaders
  SearchLimit,     \* the limit of the symbol searches
  MaxEdits         \* bound on the edits of source files

\* A file that is gone reads as an error and is skipped by every pass.
Gone == [exists |-> FALSE]

ASSUME SeedAssumption ==
  /\ Gone \in FileContents
  /\ IgnoredFolders \cup UnanchoredFolders \subseteq Folders
  /\ \A folder \in Folders :
       /\ folder \in Seq(ToSet(folder))
       /\ folder # <<>> => Front(folder) \in Folders
  /\ AnchorDepth \in Nat /\ HeaderLimit \in Nat \ {0} /\ SearchLimit \in Nat
  /\ MaxEdits \in Nat

\* What the parsers find in a file is listed.
ASSUME ContentsAssumption ==
  /\ SourceFiles \in Seq(ToSet(SourceFiles))
  /\ \A content \in FileContents \ {Gone} :
       /\ content.exists
       /\ content.symbols \in Seq(ToSet(content.symbols))
       /\ content.routes \in Seq(ToSet(content.routes))

VARIABLES
  tree,      \* source file -> what it holds now
  edits,
  pass,      \* where the command stands, and the next file of the pass
  index,     \* the IndexingService of the command
  seedFiles, \* seed file -> the rows it holds, on disk
  fresh      \* whether the last command wrote all its files, of an index that
             \* the header limit did not cut

seedVars == <<tree, edits, pass, index, seedFiles, fresh>>

SeedFileOrder ==
  <<"anchors", "symbols", "components", "routes", "directives", "edges">>

EmptyIndex ==
  [files |-> <<>>, hits |-> <<>>, usages |-> {}, links |-> {},
   directives |-> <<>>, routes |-> <<>>]

Idle == [name |-> "idle", next |-> 1]

SeedInit ==
  /\ tree \in [ToSet(SourceFiles) -> FileContents]
  /\ edits = 0
  /\ pass = Idle
  /\ index = EmptyIndex
  /\ seedFiles = [file \in ToSet(SeedFileOrder) |-> {}]
  /\ fresh = FALSE

SeedTypeOK ==
  /\ tree \in [ToSet(SourceFiles) -> FileContents]
  /\ edits \in 0 .. MaxEdits
  /\ pass \in [name : {"idle", "templates", "symbols", "routes", "writing"},
               next : 1 .. Len(index.files) + Len(SeedFileOrder) + 1]
  /\ ToSet(index.files) \subseteq ToSet(SourceFiles)
  /\ DOMAIN seedFiles = ToSet(SeedFileOrder)
  /\ fresh \in BOOLEAN

-----------------------------------------------------------------------------
(* Indexing.                                                               *)

Within(folder, path) == IsPrefix(folder, path)

\* The elements at some positions of a list, in their order.
Chosen(list, at) ==
  FlattenSeq([i \in DOMAIN list |-> IF i \in at THEN <<list[i]>> ELSE <<>>])

Collected ==
  Chosen(SourceFiles,
    {i \in DOMAIN SourceFiles :
       /\ tree[SourceFiles[i]].exists
       /\ \A folder \in IgnoredFolders : ~Within(folder, SourceFiles[i])})

\* The route that a route is a child of: the last one before it that is nested
\* one level less.
Above(routes, i) ==
  {j \in 1 .. i - 1 :
     /\ routes[j].level = routes[i].level - 1
     /\ \A k \in j + 1 .. i - 1 : routes[k].level >= routes[i].level}

\* A path is the sequence of its segments, empty at the root.
Flattened(routes, file) ==
  LET full[i \in DOMAIN routes] ==
        IF Above(routes, i) = {} THEN routes[i].segment
        ELSE full[CHOOSE j \in Above(routes, i) : TRUE] \o routes[i].segment
  IN [i \in DOMAIN routes |->
        [path |-> full[i], file |-> file,
         parents |-> {full[j] : j \in Above(routes, i)},
         guards |-> routes[i].guards, loads |-> routes[i].loads]]

Lower(name) == [i \in DOMAIN name |-> LowerCase[name[i]]]

\* The map of symbols has its hits by the names in lower case.
Named(hits, key) ==
  Chosen(hits, {i \in DOMAIN hits : Lower(hits[i].name) = key})

\* Its entries, in the order their keys first came.
Entries(hits) ==
  FlattenSeq([i \in DOMAIN hits |->
    IF \E j \in 1 .. i - 1 : Lower(hits[j].name) = Lower(hits[i].name)
    THEN <<>>
    ELSE Named(hits, Lower(hits[i].name))])

UpTo(limit, seq) == SubSeq(seq, 1, IF Len(seq) < limit THEN Len(seq) ELSE limit)

OccursIn(key, name) ==
  \E i \in 0 .. Len(name) - Len(key) : SubSeq(name, i + 1, i + Len(key)) = key

\* searchSymbol: the hits of the key, then those whose key contains it.
SearchSymbol(hits, query, limit) ==
  LET key == Lower(query)
      entries == Entries(hits)
      others == {i \in DOMAIN entries :
                   /\ Lower(entries[i].name) # key
                   /\ OccursIn(key, Lower(entries[i].name))}
  IN UpTo(limit, Named(hits, key) \o Chosen(entries, others))

SymbolHeaders == UpTo(HeaderLimit, Entries(index.hits))

\* getResolvedGuards: among the hits found one of the very name, otherwise the
\* first hit.
ResolvedGuard(name) ==
  LET found == SearchSymbol(index.hits, name, SearchLimit)
      own == Chosen(found, {i \in DOMAIN found : found[i].name = name})
  IN UpTo(1, own \o found)

\* getResolvedDirectives: a symbol of the name with "Directive" after it, or
\* of the name itself, in any case of letters; otherwise the first hit of the
\* first search with any.
ResolvedDirective(name) ==
  LET class == name \o <<"Directive">>
      suffixed == SearchSymbol(index.hits, class, SearchLimit)
      plain == SearchSymbol(index.hits, name, SearchLimit)
  IN CASE suffixed # <<>> /\ Lower(suffixed[1].name) = Lower(class) -> suffixed
       [] plain # <<>> /\ Lower(plain[1].name) = Lower(name) -> plain
       [] suffixed # <<>> -> suffixed
       [] OTHER -> plain

-----------------------------------------------------------------------------
(* Anchors.                                                                *)

\* The folders the walk reaches, no deeper than the limit and below none that
\* is excluded, with their parents.
Walked ==
  {folder \in Folders \ {<<>>} :
     /\ Len(folder) <= AnchorDepth + 1
     /\ \A out \in IgnoredFolders \cup UnanchoredFolders : ~Within(out, folder)}

AnchorFolders == Walked \cup (ForcedAnchors \cap Folders)

AnchorId(folder) == <<"anchor", folder>>

\* The deepest anchor above a file, if there is one.
AnchorsAbove(path) ==
  LET above == {folder \in AnchorFolders : Within(folder, path)}
  IN {AnchorId(folder) : folder \in
        {deep \in above : \A other \in above : Len(other) <= Len(deep)}}

-----------------------------------------------------------------------------
(* Rows: a node has an id, an edge a type and the ids of its two ends.     *)

Node(id) == [id |-> id]
Edge(type, from, to) == [type |-> type, from |-> from, to |-> to]
InAnchor(id, path) ==
  {Edge("IN_ANCHOR", id, anchor) : anchor \in AnchorsAbove(path)}

FileId(path) == <<"file", path>>
SymbolId(kind, path, name) == <<"sym", kind, path, name>>
HitId(hit) == SymbolId(hit.kind, hit.file, hit.name)
ComponentId(tag) == <<"component", tag>>
UsageId(usage) == <<"usage", usage.file, usage.tag>>
RouteId(path, file) == <<"route", file, path>>
GuardId(name) == <<"guard", name>>
DirectiveId(name) == <<"directive", name>>

Headers == ToSet(SymbolHeaders)

\* A second route of the same file and path is left out with its guards.
Routes ==
  {index.routes[i] : i \in {j \in DOMAIN index.routes :
     \A k \in 1 .. j - 1 :
       RouteId(index.routes[k].path, index.routes[k].file)
         # RouteId(index.routes[j].path, index.routes[j].file)}}

Guards == UNION {route.guards : route \in Routes}
DirectivesUsed == {use.name : use \in ToSet(index.directives)}

\* A link refers to the route its path was last seen for.
LinkedRoutes(link) ==
  LET ofPath == {i \in DOMAIN index.routes : index.routes[i].path = link.path}
      last == {i \in ofPath : \A j \in ofPath : j <= i}
  IN {RouteId(index.routes[i].path, index.routes[i].file) : i \in last}

AnchorRows ==
  {Node(AnchorId(folder)) : folder \in AnchorFolders}
  \cup {Edge("CONTAINS", AnchorId(Front(folder)), AnchorId(folder)) :
          folder \in {deep \in AnchorFolders : Len(deep) > 1}}

SymbolEdges ==
  UNION {{Edge("DECLARES", FileId(hit.file), HitId(hit))}
         \cup InAnchor(HitId(hit), hit.file) : hit \in Headers}

UsageEdges ==
  UNION {{Edge("HAS_USAGE", ComponentId(usage.tag), UsageId(usage))}
         \cup InAnchor(UsageId(usage), usage.file) : usage \in index.usages}

\* The definition of a guard is joined by the guard's own name.
GuardEdges ==
  UNION {{Edge("GUARD_DEFINED_IN", GuardId(name),
               SymbolId(hit.kind, hit.file, name)) :
            hit \in ToSet(ResolvedGuard(name))} : name \in Guards}

EdgesOfRoute(route) ==
  LET id == RouteId(route.path, route.file)
  IN {Edge("GUARDED_BY", id, GuardId(name)) : name \in route.guards}
     \cup {Edge("CHILD_OF", id, RouteId(parent, route.file)) :
             parent \in route.parents}
     \cup {Edge("LOADS", id, FileId(path)) : path \in route.loads}
     \cup InAnchor(id, route.file)

EdgesOfLink(link) ==
  {Edge("REFERENCES_ROUTE", FileId(link.file), id) : id \in LinkedRoutes(link)}

RouteEdges ==
  (UNION {EdgesOfRoute(route) : route \in Routes})
    \cup (UNION {EdgesOfLink(link) : link \in index.links})

\* Mutant: the definition of a directive is joined by the directive's name.
DefinedByOwnName(name) ==
  {Edge("DIRECTIVE_DEFINED_IN", DirectiveId(name),
        SymbolId(hit.kind, hit.file, name)) :
     hit \in ToSet(UpTo(1, ResolvedDirective(name)))}

\* The definition of a directive is joined by the name of the class found.
DefinedIn(name) ==
  {Edge("DIRECTIVE_DEFINED_IN", DirectiveId(name), HitId(hit)) :
     hit \in ToSet(UpTo(1, ResolvedDirective(name)))}

DirectiveEdges ==
  {Edge("USES_DIRECTIVE", FileId(use.file), DirectiveId(use.name)) :
     use \in ToSet(index.directives)}
  \cup UNION {DefinedIn(name) : name \in DirectivesUsed}

Rows(file) ==
  CASE file = "anchors" -> AnchorRows
    [] file = "symbols" -> {Node(HitId(hit)) : hit \in Headers}
    [] file = "components" ->
         {Node(ComponentId(usage.tag)) : usage \in index.usages}
         \cup {Node(UsageId(usage)) : usage \in index.usages}
    [] file = "routes" ->
         {Node(RouteId(route.path, route.file)) : route \in Routes}
         \cup {Node(GuardId(name)) : name \in Guards}
    [] file = "directives" ->
         {Node(DirectiveId(name)) : name \in DirectivesUsed}
    [] file = "edges" -> SymbolEdges \cup UsageEdges \cup GuardEdges
                         \cup RouteEdges \cup DirectiveEdges

-----------------------------------------------------------------------------
(* Steps.                                                                  *)

\* External: a source file is edited, removed or restored.
EditFile ==
  /\ edits < MaxEdits
  /\ \E f \in DOMAIN tree : \E content \in FileContents \ {tree[f]} :
       tree' = [tree EXCEPT ![f] = content]
  /\ edits' = edits + 1
  /\ UNCHANGED <<pass, index, seedFiles, fresh>>

\* A new process of the command: its index is empty, the files are listed.
StartSeeding ==
  /\ pass = Idle
  /\ pass' = [name |-> "templates", next |-> 1]
  /\ index' = [EmptyIndex EXCEPT !.files = Collected]
  /\ fresh' = FALSE
  /\ UNCHANGED <<tree, edits, seedFiles>>

Current == index.files[pass.next]
Advance == pass' = [pass EXCEPT !.next = @ + 1]

\* The first pass reads each file and parses the templates in it.
ReadTemplates ==
  /\ pass.name = "templates" /\ pass.next <= Len(index.files)
  /\ Advance
  /\ index' =
       IF ~tree[Current].exists THEN index
       ELSE LET content == tree[Current]
            IN [index EXCEPT
                  !.usages = @ \cup {[file |-> Current, tag |-> tag] :
                                       tag \in content.tags},
                  !.links = @ \cup {[file |-> Current, path |-> path] :
                                      path \in content.links},
                  !.directives = @ \o [i \in DOMAIN content.directives |->
                     [file |-> Current, name |-> content.directives[i]]]]
  /\ UNCHANGED <<tree, edits, seedFiles, fresh>>

\* The second pass parses the files one after the other; it has no await, but
\* other processes may edit the files that it has not come to.
ReadSymbols ==
  /\ pass.name = "symbols" /\ pass.next <= Len(index.files)
  /\ Advance
  /\ index' = [index EXCEPT !.hits =
       IF ~tree[Current].exists THEN @
       ELSE @ \o [s \in DOMAIN tree[Current].symbols |->
                    [name |-> tree[Current].symbols[s].name, file |-> Current,
                     kind |-> tree[Current].symbols[s].kind]]]
  /\ UNCHANGED <<tree, edits, seedFiles, fresh>>

ReadRoutes ==
  /\ pass.name = "routes" /\ pass.next <= Len(index.files)
  /\ Advance
  /\ index' = [index EXCEPT !.routes =
       IF tree[Current].exists
       THEN @ \o Flattened(tree[Current].routes, Current) ELSE @]
  /\ UNCHANGED <<tree, edits, seedFiles, fresh>>

\* After the last file of a pass the next one starts, and after the last pass
\* the writing.
EndPass ==
  /\ pass.name \in {"templates", "symbols", "routes"}
  /\ pass.next > Len(index.files)
  /\ pass' = [name |-> CASE pass.name = "templates" -> "symbols"
                         [] pass.name = "symbols" -> "routes"
                         [] pass.name = "routes" -> "writing",
              next |-> 1]
  /\ UNCHANGED <<tree, edits, index, seedFiles, fresh>>

WriteSeedFile ==
  /\ pass.name = "writing"
  /\ LET file == SeedFileOrder[pass.next]
     IN seedFiles' = [seedFiles EXCEPT ![file] = Rows(file)]
  /\ IF pass.next = Len(SeedFileOrder)
     THEN /\ pass' = Idle /\ index' = EmptyIndex
          /\ fresh' = (Len(Entries(index.hits)) <= HeaderLimit)
     ELSE Advance /\ UNCHANGED <<fresh, index>>
  /\ UNCHANGED <<tree, edits>>

\* The process dies between two files: old rows stay beside the new ones.
SeedingDies ==
  /\ pass.name = "writing"
  /\ pass' = Idle
  /\ index' = EmptyIndex
  /\ UNCHANGED <<tree, edits, seedFiles, fresh>>

SeedNext ==
  \/ EditFile \/ StartSeeding \/ ReadTemplates \/ ReadSymbols \/ ReadRoutes
  \/ EndPass \/ WriteSeedFile \/ SeedingDies

SeedSpec == SeedInit /\ [][SeedNext]_seedVars

-----------------------------------------------------------------------------

RowsOnDisk == UNION Range(seedFiles)
EdgesOnDisk == {row \in RowsOnDisk : "type" \in DOMAIN row}

\* Edges refer to ids that were resolved, not guessed: when a command wrote all
\* its files, whatever was edited between its passes, both ends of every edge
\* are rows of nodes.  Files of the repository have no rows; a guard is joined
\* by its own name, to a symbol that does not exist, when no symbol has that
\* very name (one of a longer name or of another case of letters was found), or
\* when one in another case of letters took its place among the hits; and an
\* anchor that was forced may be below a folder that is none.
EdgesResolve ==
  fresh =>
    \A edge \in EdgesOnDisk : \A id \in {edge.from, edge.to} :
      \/ id[1] = "file"
      \/ Node(id) \in RowsOnDisk
      \/ /\ edge.type = "GUARD_DEFINED_IN"
         /\ \/ \A row \in seedFiles["symbols"] : row.id[4] # id[4]
            \/ \E row \in seedFiles["symbols"] :
                 row.id[4] # id[4] /\ Lower(row.id[4]) = Lower(id[4])
      \/ /\ edge.type = "CONTAINS" /\ id = edge.from
         /\ edge.to[2] \in ForcedAnchors \ Walked
=============================================================================
