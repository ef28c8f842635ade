------------------------------- MODULE MCServices -------------------------------
(***************************************************************************)
(* Instances of the components that the verbs of the gateway and the       *)
(* graph command are built on.  They share no variables, so a behaviour    *)
(* has one of them in focus from its first state on: only that one takes   *)
(* steps, and the others stay in one of their initial states.              *)
(***************************************************************************)
EXTENDS MemoryStore, EventStore, ContextPack, GraphSync, HttpKernel,
        PlanReview, ReadVerbs, MCWorkInit, ProofChains, SeedFacts

VARIABLE focus

-----------------------------------------------------------------------------
(* Memories: every override demands a rule of plans.                       *)

MCEnforcement == [f \in Overrides |-> "plan_rule"]

(* Events with no, one and two deny reasons.                               *)

MCDenyReasons == {<<>>, <<"d1">>, <<"d1", "d2">>}

(* Context packs: two agents of one run.                                   *)

MCRunOf == [a \in PackAgents |-> "r1"]
MCFirstFiles == {<<"f1">>}

(* Seeds: an edge before one of its nodes, two versions of a policy, the   *)
(* same in the wrong order, and rows that end in an error.                 *)

EntityRow(id, labels, version, updated) ==
  [kind |-> "node", key |-> <<id, "">>, id |-> id, labels |-> labels,
   version |-> version, rank |-> version + updated, updated |-> updated]

EdgeRow(from, fromLabel, to, toLabel) ==
  [kind |-> "rel", key |-> <<from, to>>, from |-> from, fromLabel |-> fromLabel,
   to |-> to, toLabel |-> toLabel, version |-> 0, rank |-> 1]

anchorRow == EntityRow("anchor", {"Entity", "DomainAnchor"}, 0, 0)
symbolRow == EntityRow("symbol", {"SymbolDefinition"}, 0, 0)
symbolEdge == EdgeRow("symbol", "SymbolDefinition", "anchor", "DomainAnchor")
policyRow(v) == EntityRow("policy", {"Entity", "Policy"}, v, 1)
policyEdge == EdgeRow("policy", "Entity", "anchor", "Entity")

MCSeeds ==
  {<<anchorRow, symbolEdge, symbolRow, policyRow(1)>>,
   <<anchorRow, policyRow(1), policyRow(2), policyEdge, [kind |-> "query"],
     EntityRow("rule", {"Entity"}, 1, 1)>>,
   <<policyRow(2), policyRow(1)>>,
   <<anchorRow, [kind |-> "incomplete_policy"]>>}

-----------------------------------------------------------------------------
(* Plans: a change, a validation and a third node in every shape that      *)
(* dependencies can give them, and one defect at a time.                   *)

Ref(prefix, base, form) ==
  [prefix |-> prefix, base |-> base, form |-> form, supported |-> TRUE]

ticketRef == Ref("plain", "ticket", 1)
fileRef == Ref("plain", "file", 1)
inboxRef == Ref("inbox", "mail", 1)
codemodRef == [Ref("codemod", "x", 1) EXCEPT !.supported = FALSE]
ruleRef == Ref("migration", "MR", 1)

PlainNode(id, kind, deps) ==
  [id |-> id, kind |-> kind, dependsOn |-> SetToSeq(deps), common |-> TRUE,
   filled |-> TRUE, targets |-> {}, mapsTo |-> {}]

ChangeNode(deps) ==
  [id |-> "a", kind |-> "change", dependsOn |-> SetToSeq(deps), common |-> TRUE,
   filled |-> TRUE, targets |-> {"adp-x"}, createsSymbol |-> FALSE,
   guarded |-> FALSE, mapsTo |-> {}, citations |-> {ticketRef},
   codeEvidence |-> {fileRef}, policyRefs |-> {}, artifactRefs |-> {},
   targetTags |-> {}]

ValidateNode(id, deps, maps) ==
  [PlainNode(id, "validate", deps) EXCEPT !.mapsTo = maps]

PlanOf(nodes) ==
  [nodes |-> nodes, filled |-> TRUE, reasons |-> "complete", strategy |-> "ui",
   policy |-> [minRequirement |-> 0, minCode |-> 1, minPolicy |-> 0,
               allowSingle |-> TRUE],
   packHash |-> "h1", ownSession |-> TRUE, worktreeInScope |-> TRUE]

ShapedPlans ==
  {PlanOf(<<ChangeNode(p), ValidateNode(id, q, maps), PlainNode("c", kind, r)>>) :
     p \in SUBSET {"b", "c"}, q \in SUBSET {"a", "c"}, r \in SUBSET {"b", "gone"},
     maps \in {{"a"}, {"a", "c"}, {}}, id \in {"a", "b"},
     kind \in {"side_effect", "escalate"}}

goodChange == ChangeNode({})
GoodPlan(change) == PlanOf(<<change, ValidateNode("b", {"a"}, {"a"})>>)
goodPlan == GoodPlan(goodChange)

DefectivePlans ==
  {PlanOf(<<>>)}
  \cup {GoodPlan([goodChange EXCEPT !.citations = c, !.policyRefs = p,
                                    !.artifactRefs = a, !.guarded = g]) :
          c \in {{}, {ticketRef}, {ticketRef, inboxRef}, {codemodRef}, {ruleRef}},
          p \in {{}, {ruleRef}}, a \in {{}, {inboxRef}}, g \in BOOLEAN}
  \cup {[goodPlan EXCEPT !.filled = FALSE], [goodPlan EXCEPT !.reasons = "none"],
        [goodPlan EXCEPT !.reasons = "incomplete"],
        [goodPlan EXCEPT !.strategy = "migration_adp_to_sdf"],
        [goodPlan EXCEPT !.packHash = "h2"], [goodPlan EXCEPT !.packHash = NoHash],
        [goodPlan EXCEPT !.ownSession = FALSE],
        [goodPlan EXCEPT !.worktreeInScope = FALSE]}
  \cup {GoodPlan(change) : change \in
          {[goodChange EXCEPT !.filled = FALSE], [goodChange EXCEPT !.common = FALSE],
           [goodChange EXCEPT !.codeEvidence = {}],
           [goodChange EXCEPT !.targets = {}],
           [goodChange EXCEPT !.targetTags = {"adp-x"}],
           [goodChange EXCEPT !.targetTags = {"adp-x"}, !.policyRefs = {ruleRef}]}}

MCPlans == ShapedPlans \cup DefectivePlans

MCMemories ==
  {{}, {[enforcement |-> "plan_rule", state |-> "approved",
         rule |-> [deny |-> "MEMORY",
                   steps |-> {[kind |-> "validate", pattern |-> AnyTarget],
                              [kind |-> "side_effect", pattern |-> AnyTarget]}]]}}

MCBundles ==
  {NoBundle,
   [policies |->
      {[type |-> "ui_intent", components |-> {"adp-x"}, grounded |-> TRUE,
        hardDeny |-> TRUE],
       [type |-> "component_intent", components |-> {"adp-x"}, grounded |-> FALSE,
        hardDeny |-> TRUE]},
    migrationRules |-> {[id |-> "MR", fromTag |-> "adp-x", approved |-> TRUE]}]}

-----------------------------------------------------------------------------
(* Reads: a plan may work in the repository or in a folder of it.          *)

srcA == <<"src", "a">>
baseConfig == <<".ai", "config", "base">>

MCRepoPaths == {srcA, <<"a">>, baseConfig}
NameOf(form, path) == [form |-> form, path |-> path]

MCPackLists == {{}, {NameOf("absolute", srcA)}, {NameOf("dotted", <<"a">>)}}

MCAllowlists ==
  {{}, {NameOf("dotted", srcA)}, {NameOf("rooted", srcA)},
   {NameOf("absolute", srcA), NameOf("relative", <<"a">>)}}

MCPlanRoots == {Repo, Repo \o <<"src">>}

MCOnDisk == {Repo \o srcA, Repo \o <<"a">>, Repo \o baseConfig}

-----------------------------------------------------------------------------
(* Sources: one file of definitions, one of templates and routes.          *)

guardsFile == <<"src", "guards">>
routesFile == <<"src", "app", "routes">>

RouteOf(level, segment, guards) ==
  [level |-> level, segment |-> segment, guards |-> guards,
   loads |-> {guardsFile}]

definitions ==
  [exists |-> TRUE, tags |-> {}, links |-> {}, directives |-> <<>>,
   routes |-> <<>>,
   symbols |-> <<[name |-> <<"Auth", "Guard">>, kind |-> "class"],
                 [name |-> <<"AUTH", "Guard">>, kind |-> "class"],
                 [name |-> <<"auth", "Guard">>, kind |-> "function"],
                 [name |-> <<"Role", "Directive">>, kind |-> "class"]>>]

templates ==
  [exists |-> TRUE, tags |-> {"adp-grid"}, links |-> {<<"home">>},
   directives |-> <<<<"role">>, <<"other">>>>,
   symbols |-> <<[name |-> <<"Auth">>, kind |-> "class"]>>,
   routes |-> <<RouteOf(0, <<>>, {}),
               RouteOf(1, <<"home">>, {<<"auth", "Guard">>, <<"AUTH", "Guard">>}),
               RouteOf(2, <<>>, {<<"guard">>, <<"Auth">>})>>]

MCLowerCase ==
  [word \in {"auth", "Auth", "AUTH", "guard", "Guard", "role", "Role",
             "Directive", "other"} |->
     CASE word \in {"Auth", "AUTH"} -> "auth" [] word = "Guard" -> "guard"
       [] word = "Role" -> "role" [] word = "Directive" -> "directive"
       [] OTHER -> word]

MCSourceFiles == <<routesFile, guardsFile>>
MCFileContents == {Gone, definitions, templates}

MCFolders ==
  {<<>>, <<"src">>, <<"src", "app">>, <<"dist">>, <<"dist", "lib">>, <<".tools">>}
MCIgnoredFolders == {<<"dist">>}
MCUnanchoredFolders == {<<".tools">>}
MCForcedAnchors == {<<".tools">>, <<"dist", "lib">>}

-----------------------------------------------------------------------------
(* One component at a time.                                                *)

Components ==
  {"memories", "events", "packs", "graph", "http", "plans", "reads", "work",
   "chains", "seeds"}

ServicesInit ==
  /\ focus \in Components
  /\ MemoryInit /\ EventsInit /\ PackInit /\ GraphInit /\ HttpInit
  /\ ReviewInit /\ ReadInit /\ WorkInitInit /\ ChainInit /\ SeedInit
  /\ focus # "reads" => packNames = {}
  /\ focus # "chains" =>
       request = [needs |-> {}, seed |-> FALSE, indexed |-> FALSE]
  /\ focus # "seeds" => tree = [f \in ToSet(MCSourceFiles) |-> Gone]

InFocus(component, Step) == focus = component /\ UNCHANGED focus /\ Step

ServicesNext ==
  \/ /\ InFocus("memories", MemoryNext)
     /\ UNCHANGED <<eventVars, packVars, graphVars, httpVars, reviewVars,
                    readVars, workInitVars, chainVars, seedVars>>
  \/ /\ InFocus("events", EventsNext)
     /\ UNCHANGED <<memoryVars, packVars, graphVars, httpVars, reviewVars,
                    readVars, workInitVars, chainVars, seedVars>>
  \/ /\ InFocus("packs", PackNext)
     /\ UNCHANGED <<memoryVars, eventVars, graphVars, httpVars, reviewVars,
                    readVars, workInitVars, chainVars, seedVars>>
  \/ /\ InFocus("graph", GraphNext)
     /\ UNCHANGED <<memoryVars, eventVars, packVars, httpVars, reviewVars,
                    readVars, workInitVars, chainVars, seedVars>>
  \/ /\ InFocus("http", HttpNext)
     /\ UNCHANGED <<memoryVars, eventVars, packVars, graphVars, reviewVars,
                    readVars, workInitVars, chainVars, seedVars>>
  \/ /\ InFocus("plans", ReviewNext)
     /\ UNCHANGED <<memoryVars, eventVars, packVars, graphVars, httpVars,
                    readVars, workInitVars, chainVars, seedVars>>
  \/ /\ InFocus("reads", ReadNext)
     /\ UNCHANGED <<memoryVars, eventVars, packVars, graphVars, httpVars,
                    reviewVars, workInitVars, chainVars, seedVars>>
  \/ /\ InFocus("work", WorkInitNext)
     /\ UNCHANGED <<memoryVars, eventVars, packVars, graphVars, httpVars,
                    reviewVars, readVars, chainVars, seedVars>>
  \/ /\ InFocus("chains", ChainNext)
     /\ UNCHANGED <<memoryVars, eventVars, packVars, graphVars, httpVars,
                    reviewVars, readVars, workInitVars, seedVars>>
  \/ /\ InFocus("seeds", SeedNext)
     /\ UNCHANGED <<memoryVars, eventVars, packVars, graphVars, httpVars,
                    reviewVars, readVars, workInitVars, chainVars>>

servicesVars ==
  <<focus, memoryVars, eventVars, packVars, graphVars, httpVars, reviewVars,
    readVars, workInitVars, chainVars, seedVars>>

ServicesSpec == ServicesInit /\ [][ServicesNext]_servicesVars

\* The variables of every component keep to their types.
ServicesTypeOK ==
  /\ focus \in Components
  /\ MemoryTypeOK /\ EventsTypeOK /\ PackTypeOK /\ GraphTypeOK /\ HttpTypeOK
  /\ ReviewTypeOK /\ ReadTypeOK /\ WorkInitTypeOK /\ ChainTypeOK /\ SeedTypeOK
=============================================================================
