------------------------------ MODULE PlanReview ------------------------------
(***************************************************************************)
(* submit_execution_plan up to the point where the plan is the session's:  *)
(* validatePlanGraph with the evidence policy, the plan rules of memories  *)
(* and of graph policies, then the pack hash, the identity and the         *)
(* worktree root.                                                          *)
(*                                                                         *)
(* A plan keeps what the verdict depends on: of an envelope, whether its   *)
(* fields are filled; of a node its id, kind, dependencies and, by kind,   *)
(* whether its fields are filled, what it targets (the patterns its file,  *)
(* symbols or hooks contain), what it maps to, and its sources.  Lists     *)
(* that are only searched are sets; dependencies are in the order in which *)
(* they are visited.  A source has a prefix, a base and a form; sources    *)
(* that differ in form only are one source to the evidence policy.         *)
(***************************************************************************)
EXTENDS Integers, FiniteSets, SequencesExt

CONSTANTS
  Plans,        \* the plans an agent may submit
  Memories,     \* the sets of plan rules of memories active for the plan's files
  Bundles,      \* the enforcement bundles, NoBundle before initialize_work made one
  NoBundle,
  PackHashes    \* the pack hashes a session may have, NoHash for none

\* The rules of memories have codes of their own, as their documents show; the
\* code would take any.
ASSUME RulesAssumption ==
  \A memories \in Memories : \A m \in memories :
    m.enforcement = "plan_rule" => m.rule.deny # "PLAN_NOT_ATOMIC"

\* Nodes and dependencies are listed.
ASSUME PlansAssumption ==
  \A plan \in Plans :
    /\ plan.nodes \in Seq(ToSet(plan.nodes))
    /\ \A n \in ToSet(plan.nodes) : n.dependsOn \in Seq(ToSet(n.dependsOn))

NoHash == "none"
NoPlan == [nodes |-> <<>>]

VARIABLES
  reviewed,     \* the plan under review and what it is judged by
  rejections,   \* the codes of the answer
  planGraph     \* session.planGraph

reviewVars == <<reviewed, rejections, planGraph>>

NodesOf(plan) == ToSet(plan.nodes)

OfKind(plan, kind) == {n \in NodesOf(plan) : n.kind = kind}

IdsOf(nodes) == {n.id : n \in nodes}

DependsOn(node) == ToSet(node.dependsOn)

If(condition, code) == IF condition THEN {code} ELSE {}

-----------------------------------------------------------------------------
(* validateEnvelope and validateStrategyReasons.                           *)

\* The pack hash is one of the required fields.
EnvelopeCodes(plan) ==
  If(~plan.filled \/ plan.packHash = NoHash, "PLAN_MISSING_REQUIRED_FIELDS")
    \cup If(plan.filled /\ plan.reasons = "none", "PLAN_STRATEGY_MISMATCH")
    \cup If(plan.reasons = "incomplete", "PLAN_STRATEGY_MISMATCH")

-----------------------------------------------------------------------------
(* validateNodeGraph: a depth-first search over the last definition of     *)
(* each id, from every node in turn.                                       *)

DependenciesOf(plan, id) ==
  LET at == {i \in DOMAIN plan.nodes : plan.nodes[i].id = id} IN
  IF at = {} THEN <<>> ELSE plan.nodes[CHOOSE i \in at : \A j \in at : j <= i].dependsOn

NamedIn(plan) == IdsOf(NodesOf(plan)) \cup UNION {DependsOn(n) : n \in NodesOf(plan)}

Searches(ids) == [cycle : BOOLEAN, visiting : SUBSET ids, visited : SUBSET ids]

\* The ids of a list are visited one after the other.
VisitEach(visit, ids, search) ==
  LET after[i \in 0 .. Len(ids)] ==
        IF i = 0 THEN search ELSE visit[ids[i]][after[i - 1]]
  IN after[Len(ids)]

\* Mutant: a node found again on another path counts as a cycle.
VisitKeepsVisiting(visit, plan, id, search) ==
  IF search.cycle \/ id \in search.visiting
  THEN [search EXCEPT !.cycle = TRUE]
  ELSE VisitEach(visit, DependenciesOf(plan, id),
                 [search EXCEPT !.visiting = @ \cup {id}])

Visit(visit, plan, id, search) ==
  IF search.cycle \/ id \in search.visited THEN search
  ELSE IF id \in search.visiting THEN [search EXCEPT !.cycle = TRUE]
  ELSE LET below == VisitEach(visit, DependenciesOf(plan, id),
                              [search EXCEPT !.visiting = @ \cup {id}])
       IN IF below.cycle THEN below
          ELSE [below EXCEPT !.visiting = @ \ {id}, !.visited = @ \cup {id}]

\* visit, of all that may be visited.  It calls itself with one id more in
\* visiting, so as often within itself as there are ids.
Visits(plan) ==
  LET ids == NamedIn(plan)
      visits[depth \in 0 .. Cardinality(ids)] ==
        [id \in ids |-> [search \in Searches(ids) |->
           IF depth = 0 THEN [search EXCEPT !.cycle = TRUE]
           ELSE Visit(visits[depth - 1], plan, id, search)]]
  IN visits[Cardinality(ids)]

HasDependencyCycle(plan) ==
  VisitEach(Visits(plan), [i \in DOMAIN plan.nodes |-> plan.nodes[i].id],
            [cycle |-> FALSE, visiting |-> {}, visited |-> {}]).cycle

GraphCodes(plan) ==
  If(\/ \E i, j \in DOMAIN plan.nodes : i < j /\ plan.nodes[i].id = plan.nodes[j].id
     \/ HasDependencyCycle(plan),
     "PLAN_NOT_ATOMIC")

-----------------------------------------------------------------------------
(* validateChangeEvidencePolicy.                                           *)

Canonical(source) == [prefix |-> source.prefix, base |-> source.base]

Sources(node) == node.citations \cup node.codeEvidence \cup node.policyRefs

AtLeast(n) == IF n > 1 THEN n ELSE 1

IsGuarded(node, policy) == policy.allowSingle /\ node.guarded

EvidenceCodes(node, policy) ==
  If(\/ Cardinality(node.citations) < AtLeast(policy.minRequirement)
     \/ Cardinality(node.codeEvidence) < AtLeast(policy.minCode)
     \/ Cardinality(node.policyRefs) < policy.minPolicy
     \/ /\ Cardinality({Canonical(s) : s \in Sources(node)}) < 2
        /\ ~IsGuarded(node, policy),
     "PLAN_EVIDENCE_INSUFFICIENT")

-----------------------------------------------------------------------------
(* validateNodes.                                                          *)

\* The second count of validateChangeNode is of listed sources, not distinct
\* ones: it rejects nothing that the evidence policy lets through.
ChangeCodes(node, policy) ==
  If(~node.filled, "PLAN_MISSING_REQUIRED_FIELDS")
    \cup If(node.targets = {} /\ ~node.createsSymbol, "PLAN_SCOPE_VIOLATION")
    \cup EvidenceCodes(node, policy)
    \cup If(\E s \in node.citations : s.prefix = "codemod" /\ ~s.supported,
            "PLAN_POLICY_VIOLATION")

ValidateCodes(plan, node) ==
  IF ~node.filled \/ node.mapsTo = {} THEN {"PLAN_VERIFICATION_WEAK"}
  ELSE If(~(node.mapsTo \subseteq IdsOf(OfKind(plan, "change"))), "PLAN_NOT_ATOMIC")

SideEffectCodes(plan, node) ==
  If(~node.filled \/ DependsOn(node) \cap IdsOf(OfKind(plan, "validate")) = {},
     "EXEC_UNGATED_SIDE_EFFECT")

\* A node without the common fields is judged no further.
NodeCodes(plan, node) ==
  IF ~node.common THEN {"PLAN_MISSING_REQUIRED_FIELDS"}
  ELSE If(~(DependsOn(node) \subseteq IdsOf(NodesOf(plan))), "PLAN_NOT_ATOMIC")
         \cup CASE node.kind = "change" -> ChangeCodes(node, plan.policy)
                [] node.kind = "validate" -> ValidateCodes(plan, node)
                [] node.kind = "side_effect" -> SideEffectCodes(plan, node)
                [] node.kind = "escalate" ->
                     If(~node.filled, "PLAN_MISSING_REQUIRED_FIELDS")
                [] OTHER -> {"PLAN_MISSING_REQUIRED_FIELDS"}

\* Only the validate nodes that were judged complete map changes.
Mapped(plan) ==
  UNION {n.mapsTo : n \in {m \in OfKind(plan, "validate") : m.common /\ m.filled}}

MappingCodes(plan) ==
  If(~(IdsOf(OfKind(plan, "change")) \subseteq Mapped(plan)), "PLAN_NOT_ATOMIC")

NodesCodes(plan) ==
  IF plan.nodes = <<>> THEN {"PLAN_MISSING_REQUIRED_FIELDS"}
  ELSE MappingCodes(plan) \cup UNION {NodeCodes(plan, n) : n \in NodesOf(plan)}

-----------------------------------------------------------------------------
(* Rules: of memories, and of grounded graph policies that hard deny.      *)

AnyTarget == "any"

\* An escalate or side_effect node contains no pattern.
Meets(node, step) ==
  /\ node.kind = step.kind
  /\ \/ step.pattern = AnyTarget
     \/ node.kind \in {"change", "validate"} /\ step.pattern \in node.targets

CheckPlanRule(plan, rule) ==
  \A step \in rule.steps : \E n \in NodesOf(plan) : Meets(n, step)

\* graphPolicyToEphemeralRule.  What an intent forbids is looked for among the
\* changes; what a component intent is about, among the hooks.
EphemeralRule(policy) ==
  [deny  |-> "PLAN_POLICY_VIOLATION",
   steps |->
     CASE policy.type = "ui_intent" ->
            {[kind |-> "change", pattern |-> c] : c \in policy.components}
       [] policy.type = "component_intent" ->
            {[kind |-> "validate", pattern |-> c] : c \in policy.components}
       [] policy.type = "macro_constraint" ->
            {[kind |-> "validate", pattern |-> AnyTarget]}]

\* computeEnforcementBundle: the others are advice.
GraphPolicyRules(bundle) ==
  {EphemeralRule(p) : p \in {q \in bundle.policies : q.grounded /\ q.hardDeny}}

RuleCodes(plan, rules) == {r.deny : r \in {s \in rules : ~CheckPlanRule(plan, s)}}

\* Only memories that are active and carry a plan rule count.
ActiveRules(memories) ==
  {m.rule : m \in {n \in memories : n.enforcement = "plan_rule"
                                      /\ n.state \in {"approved", "provisional"}}}

-----------------------------------------------------------------------------
(* Attachments and migration rules.                                        *)

AttachmentCodes(plan) ==
  If(\E n \in OfKind(plan, "change") :
       \E s \in n.citations :
         s.prefix \in {"inbox", "attachment"} /\ s \notin n.artifactRefs,
     "PLAN_MISSING_ARTIFACT_REF")

MigrationCitationCodes(plan) ==
  If(/\ plan.strategy = "migration_adp_to_sdf"
     /\ \E n \in OfKind(plan, "change") :
          \A s \in n.policyRefs \cup n.citations : s.prefix # "migration",
     "PLAN_MIGRATION_RULE_MISSING")

\* An approved rule for a tag some change names must be a policy reference of
\* some change.
MigrationCoverageCodes(plan, bundle) ==
  LET changes == OfKind(plan, "change") IN
  If(\E r \in bundle.migrationRules :
       /\ r.approved
       /\ \E n \in changes : r.fromTag \in n.targetTags
       /\ \A n \in changes : \A s \in n.policyRefs : s.base # r.id,
     "PLAN_MIGRATION_RULE_MISSING")

ValidatePlanGraph(plan, memories, bundle) ==
  EnvelopeCodes(plan) \cup GraphCodes(plan) \cup NodesCodes(plan)
    \cup RuleCodes(plan, ActiveRules(memories))
    \cup AttachmentCodes(plan) \cup MigrationCitationCodes(plan)
    \cup IF bundle = NoBundle THEN {}
         ELSE RuleCodes(plan, GraphPolicyRules(bundle))
                \cup MigrationCoverageCodes(plan, bundle)

-----------------------------------------------------------------------------
(* handleSubmitPlan.  Three checks follow a plan that is valid, and each   *)
(* ends the review with one code.                                          *)

\* Missing hashes are not compared.
HashAgrees(plan, hash) == NoHash \in {hash, plan.packHash} \/ plan.packHash = hash

Verdict(plan, memories, bundle, hash) ==
  LET invalid == ValidatePlanGraph(plan, memories, bundle) IN
  IF invalid # {} THEN invalid
  ELSE If(~HashAgrees(plan, hash) \/ ~plan.ownSession \/ ~plan.worktreeInScope,
          "PLAN_SCOPE_VIOLATION")

ReviewInit ==
  /\ reviewed = NoPlan
  /\ rejections = {}
  /\ planGraph = NoPlan

\* Each plan is judged in a session of its own.
SubmitPlan(plan, memories, bundle, hash) ==
  /\ reviewed = NoPlan
  /\ reviewed' = plan
  /\ rejections' = Verdict(plan, memories, bundle, hash)
  /\ planGraph' = IF rejections' = {} THEN plan ELSE planGraph

ReviewNext ==
  \E plan \in Plans, memories \in Memories, bundle \in Bundles, hash \in PackHashes :
    SubmitPlan(plan, memories, bundle, hash)

ReviewSpec == ReviewInit /\ [][ReviewNext]_reviewVars

\* The codes of the checks, and those that the plan rules of memories deny with.
RejectionCodes ==
  {"PLAN_MISSING_REQUIRED_FIELDS", "PLAN_STRATEGY_MISMATCH", "PLAN_NOT_ATOMIC",
   "PLAN_EVIDENCE_INSUFFICIENT", "PLAN_SCOPE_VIOLATION", "PLAN_POLICY_VIOLATION",
   "PLAN_VERIFICATION_WEAK", "EXEC_UNGATED_SIDE_EFFECT",
   "PLAN_MISSING_ARTIFACT_REF", "PLAN_MIGRATION_RULE_MISSING"}
  \cup {m.rule.deny : m \in {n \in UNION Memories : n.enforcement = "plan_rule"}}

ReviewTypeOK ==
  /\ reviewed \in Plans \cup {NoPlan}
  /\ rejections \subseteq RejectionCodes
  /\ planGraph \in {NoPlan, reviewed}

-----------------------------------------------------------------------------
(* What a verdict is worth.                                                *)

\* The nodes can be put in an order in which dependencies come first.
CanBeOrdered(nodes) ==
  ~\E stuck \in SUBSET nodes :
     stuck # {} /\ \A n \in stuck : DependsOn(n) \cap IdsOf(stuck) # {}

\* An accepted plan can be carried out: ids are unique, every dependency is a
\* node, the nodes can be ordered, every change has a validate node to prove
\* it and no side effect comes before all validations (validateNodeGraph,
\* validateNodes).
Executable(plan) ==
  LET nodes == NodesOf(plan) IN
  /\ \A i, j \in DOMAIN plan.nodes : plan.nodes[i].id = plan.nodes[j].id => i = j
  /\ \A n \in nodes : DependsOn(n) \subseteq IdsOf(nodes)
  /\ CanBeOrdered(nodes)
  /\ \A c \in OfKind(plan, "change") :
       \E v \in OfKind(plan, "validate") : c.id \in v.mapsTo
  /\ \A s \in OfKind(plan, "side_effect") :
       \E v \in OfKind(plan, "validate") : v.id \in DependsOn(s)

AcceptedIsExecutable == planGraph # NoPlan => Executable(planGraph)

\* "Graph integrity issue: either duplicate nodeIds, a dependency cycle,
\* dangling dependsOn references, or a change node has no corresponding
\* validate node" (planRejectionFix): a plan of complete nodes that can be
\* carried out, and whose validate nodes name only changes, is never rejected
\* as PLAN_NOT_ATOMIC.
NotAtomicIsReal ==
  (/\ "PLAN_NOT_ATOMIC" \in rejections
   /\ \A n \in NodesOf(reviewed) : n.common /\ n.filled
   /\ \A v \in OfKind(reviewed, "validate") :
        v.mapsTo \subseteq IdsOf(OfKind(reviewed, "change"))) =>
    ~Executable(reviewed)

\* The verdict tells plans that can be carried out from those that cannot.
VerdictIsSound == AcceptedIsExecutable /\ NotAtomicIsReal
=============================================================================
