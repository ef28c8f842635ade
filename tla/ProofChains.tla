------------------------------ MODULE ProofChains ------------------------------
(***************************************************************************)
(* The proof chains of one initialize_work: the ag-Grid origin chain, then *)
(* the federation chain, each walked through the graph one query at a time *)
(* with a client of its own; then the context pack that is judged by them  *)
(* and the policies of the graph.  The graph is external: a query finds    *)
(* something, finds nothing or fails.  When the graph gives out, links are *)
(* guessed from the symbol index; what is not found is listed as missing.  *)
(***************************************************************************)
EXTENDS Integers, SequencesExt

AgGridKinds ==
  <<"agGridTable", "ColumnDef", "CellRenderer", "NavTrigger", "Route",
    "Component", "Service", "Definition">>

FederationKinds ==
  <<"HostRoute", "FederationMapping", "RemoteExpose", "RemoteRoute",
    "DestinationComponent">>

ChainTypes == {"aggrid", "federation"}
Path(type) == IF type = "aggrid" THEN AgGridKinds ELSE FederationKinds
LeastLinks(type) == IF type = "aggrid" THEN 4 ELSE 3

VARIABLES
  request,   \* what the request and its signature ask for
  walk,      \* the build in progress
  built,     \* chain type -> what its build returned
  verdict,   \* the anchors the context pack says are missing
  fetched    \* what the policy queries brought for the enforcement bundle

chainVars == <<request, walk, built, verdict, fetched>>

\* The symbol index finds the seed or not, the same for every list of hints.
Requests ==
  [needs : SUBSET ChainTypes, seed : BOOLEAN, indexed : BOOLEAN]

Anchors == {"entrypoint", "definition"}

NoBuild == [chain |-> <<>>, missing |-> {}, complete |-> FALSE]
Start(type, phase) ==
  [type |-> type, phase |-> phase, at |-> 1, chain |-> <<>>, missing |-> {}]

ChainInit ==
  /\ request \in Requests
  /\ walk = Start("aggrid", "due")
  /\ built = [type \in ChainTypes |-> NoBuild]
  /\ verdict = {}
  /\ fetched = {}

ChainTypeOK ==
  /\ request \in Requests
  /\ walk.type \in ChainTypes /\ walk.at \in 1 .. 8
  /\ walk.phase \in {"due", "query", "direct", "ended", "pack", "policies",
                     "rules", "done"}
  /\ \A type \in ChainTypes : built[type].missing \subseteq ToSet(Path(type))
  /\ verdict \subseteq ChainTypes \cup Anchors
  /\ fetched \subseteq {"policies", "rules"}

-----------------------------------------------------------------------------
(* The walk.                                                               *)

Kind == Path(walk.type)[walk.at]
HasKind(chain, kind) == \E i \in DOMAIN chain : chain[i].kind = kind
Link(kind, source) == [kind |-> kind, source |-> source]

\* Mutant: the guessed links are appended without looking for their kind.
GuessBlindly(chain) ==
  IF request.indexed
  THEN chain \o <<Link("Route", "ast"), Link("Component", "ast")>> ELSE chain

GuessKind(chain, kind) ==
  IF HasKind(chain, kind) THEN chain ELSE Append(chain, Link(kind, "ast"))

\* resolveChainViaFallback: guessed links fill the kinds the graph left out.
Guess(chain) ==
  IF request.indexed THEN GuessKind(GuessKind(chain, "Route"), "Component")
  ELSE chain

\* The catch: the ag-Grid chain falls back to the index, the federation
\* chain keeps what it has.
Caught ==
  walk' = [walk EXCEPT !.phase = "ended",
             !.chain = IF walk.type = "aggrid" THEN Guess(@) ELSE @]

\* The chain is required and there is something to look for: connect.
Connect ==
  /\ walk.phase = "due"
  /\ walk.type \in request.needs /\ request.seed
  /\ \/ walk' = [walk EXCEPT !.phase = "query"]
     \/ Caught
  /\ UNCHANGED <<request, built, verdict, fetched>>

Found ==
  /\ walk.phase = "query"
  /\ walk' = [walk EXCEPT
       !.chain = Append(@, Link(Kind, "graph")),
       !.at = IF @ = Len(Path(walk.type)) THEN @ ELSE @ + 1,
       !.phase = IF walk.at = Len(Path(walk.type)) THEN "ended" ELSE @]
  /\ UNCHANGED <<request, built, verdict, fetched>>

\* The table itself is guessed from the index when the graph does not know it.
NoTable ==
  /\ walk.phase = "query" /\ Kind = "agGridTable"
  /\ walk' = [walk EXCEPT !.phase = "ended",
       !.chain = Guess(IF request.indexed THEN <<Link(Kind, "ast")>> ELSE @),
       !.missing = IF request.indexed THEN @ ELSE @ \cup {Kind}]
  /\ UNCHANGED <<request, built, verdict, fetched>>

\* Without a trigger the route is looked for by the seed; without a host
\* route or its mapping, a federation boundary is looked for directly.
NotFound ==
  /\ walk.phase = "query" /\ Kind # "agGridTable"
  /\ walk' = [walk EXCEPT
       !.missing = @ \cup {Kind},
       !.at = IF Kind = "NavTrigger" THEN @ + 1 ELSE @,
       !.phase = CASE Kind = "NavTrigger" -> "query"
                   [] Kind \in {"HostRoute", "FederationMapping"} -> "direct"
                   [] OTHER -> "ended"]
  /\ UNCHANGED <<request, built, verdict, fetched>>

DirectSearch ==
  /\ walk.phase = "direct"
  /\ \E hit \in BOOLEAN :
       walk' = [walk EXCEPT !.phase = "ended",
           !.chain = IF hit THEN Append(@, Link("FederationMapping", "graph"))
                     ELSE @]
  /\ UNCHANGED <<request, built, verdict, fetched>>

QueryFails ==
  /\ walk.phase \in {"query", "direct"}
  /\ Caught
  /\ UNCHANGED <<request, built, verdict, fetched>>

-----------------------------------------------------------------------------
(* The result.                                                             *)

AfterBuild(type) ==
  Start("federation", IF type = "aggrid" THEN "due" ELSE "pack")

\* A federation chain with no link at all is guessed from the index.
Finished(type, chain, missing) ==
  LET whole == IF type = "federation" /\ chain = <<>> /\ request.indexed
               THEN <<Link("FederationMapping", "ast")>> ELSE chain
      lacking == missing
                 \cup {kind \in ToSet(Path(type)) : ~HasKind(whole, kind)}
  IN [chain |-> whole, missing |-> lacking,
      complete |-> lacking = {} /\ Len(whole) >= LeastLinks(type)]

Return ==
  /\ walk.phase = "ended"
  /\ built' = [built EXCEPT ![walk.type] =
                 Finished(walk.type, walk.chain, walk.missing)]
  /\ walk' = AfterBuild(walk.type)
  /\ UNCHANGED <<request, verdict, fetched>>

\* The chain is not required, or closing the client fails: the error is
\* swallowed with all that was found.
NoChain ==
  /\ \/ walk.phase = "due" /\ (walk.type \notin request.needs \/ ~request.seed)
     \/ walk.phase = "ended"
  /\ walk' = AfterBuild(walk.type)
  /\ UNCHANGED <<request, built, verdict, fetched>>

\* What createContextPack finds missing: an entrypoint and a definition, given
\* by the request or by the retrieval, and of each required chain a link, given
\* or built.  It does not ask whether the chain is complete.
MissingAnchors(given, reranked) ==
  (Anchors \ (given \cup reranked))
  \cup {type \in request.needs \ given : built[type].chain = <<>>}

CreatePack ==
  /\ walk.phase = "pack"
  /\ \E given \in SUBSET (ChainTypes \cup Anchors) :
     \E reranked \in SUBSET Anchors :
       verdict' = MissingAnchors(given, reranked)
  /\ walk' = [walk EXCEPT !.phase = "policies"]
  /\ UNCHANGED <<request, built, fetched>>

\* queryGraphPolicies: an error ends the queries, what was read is kept.
QueryGraphPolicies ==
  /\ walk.phase \in {"policies", "rules"}
  /\ \/ /\ fetched' = fetched \cup {walk.phase}
        /\ walk' = [walk EXCEPT !.phase =
                      IF @ = "policies" THEN "rules" ELSE "done"]
     \/ fetched' = fetched /\ walk' = [walk EXCEPT !.phase = "done"]
  /\ UNCHANGED <<request, built, verdict>>

ChainNext ==
  \/ Connect \/ Found \/ NoTable \/ NotFound \/ DirectSearch \/ QueryFails
  \/ Return \/ NoChain \/ CreatePack \/ QueryGraphPolicies

ChainSpec == ChainInit /\ [][ChainNext]_chainVars

-----------------------------------------------------------------------------

\* A chain is partial rather than fabricated: wherever the walk broke off and
\* whatever was guessed after it, its links are in the order of the path with
\* no kind twice, each kind of the path is a link or listed as missing, and a
\* chain called complete is the whole path as the graph has it, with no link
\* guessed from the index.
ChainInOrder ==
  \A type \in ChainTypes :
    LET result == built[type]
        path == Path(type)
        Position(i) == CHOOSE p \in DOMAIN path : path[p] = result.chain[i].kind
    IN result # NoBuild =>
         /\ \A i, j \in DOMAIN result.chain : i < j => Position(i) < Position(j)
         /\ \A kind \in ToSet(path) :
              HasKind(result.chain, kind) \/ kind \in result.missing
         /\ result.complete =>
              \A p \in DOMAIN path : result.chain[p] = Link(path[p], "graph")
=============================================================================
