-------------------------------- MODULE Engines --------------------------------
(***************************************************************************)
(* The pure computations of the system.  A service asks an engine with one *)
(* of the inputs of a small set and waits for the answer; an edited        *)
(* document starts from one that was loaded.  Each engine is a module of   *)
(* its own, which also says what a right answer is.                        *)
(***************************************************************************)
EXTENDS Naturals, Integers, FiniteSets, Sequences, SequencesExt

CONSTANTS None, NodeIds, ConnectionIds, AssumptionIds, MAX_COMMANDS

VARIABLES engine, given, found

vars == <<engine, given, found>>

IR         == INSTANCE ArchitectureIR
Graph      == INSTANCE StepGraph
Assessment == INSTANCE MigrationAssessment
Evidence   == INSTANCE MigrationEvidence
Reliability == INSTANCE Reliability
Constraints == INSTANCE Constraints
Validation == INSTANCE Validation
Capacity   == INSTANCE Capacity
Cost       == INSTANCE Cost
Drift      == INSTANCE DriftEngine

Init == engine = "none" /\ given = None /\ found = None

Ask(name, inputs) ==
    /\ engine = "none" /\ engine' = name
    /\ given' \in inputs /\ found' = None

Answer(name, result) ==
    /\ engine = name /\ found = None
    /\ found' = result
    /\ UNCHANGED <<engine, given>>

Return ==
    /\ found # None
    /\ engine' = "none" /\ given' = None /\ found' = None

Answered(name) == engine = name /\ found # None

-----------------------------------------------------------------------------
(* Architecture documents.                                                  *)

AskLoad == Ask("load", IR!Documents)
Load == Answer("load", IF IR!Valid(given) THEN given ELSE IR!Invalid)

Edit ==
    /\ Answered("load") /\ ~ IR!IsRefused(found)
    /\ \E commands \in IR!CommandLists :
          /\ engine' = "edit" /\ given' = [ir |-> found, commands |-> commands]
          /\ found' = IR!ApplyCommands(found, commands)

AskConfigure ==
    Ask("configure", [old : {c \in IR!Configured : IR!Attributable(c) /\ IR!ConfigurationProblems(c, "service") = {}},
                      values : UNION {[S -> {None, 0, 1}] : S \in SUBSET IR!Properties}])
Configure ==
    LET c == IR!Configure(given.old, given.values, "author")
    IN Answer("configure", IF IR!ConfigurationProblems(c, "service") = {} THEN c ELSE IR!Invalid)

\* A document that loads has no node inside itself, at any depth.
ForestKept == Answered("load") /\ ~ IR!IsRefused(found) => IR!IsForest(found.nodes)

\* Removing elements takes everything that refers to them: an edit that only
\* removes is refused for an unknown element, never for its result.
RemovalNeverInvalid ==
    Answered("edit") /\ (\A i \in DOMAIN given.commands : given.commands[i].op \in {"remove_nodes", "remove_connections"})
        => found # IR!Invalid

\* The diff of a document and its edit, replayed on the document, gives the
\* edit.
DiffReplays ==
    Answered("edit") /\ ~ IR!IsRefused(found) =>
        LET d == IR!Diff(given.ir, found)
        IN /\ IR!Patched(given.ir.nodes, d.nodes, found.nodes) = found.nodes
           /\ IR!Patched(given.ir.connections, d.connections, found.connections) = found.connections

\* A value keeps the author who stated it until someone states another one;
\* a value that is gone has none.
AuthorsTrue ==
    Answered("configure") /\ ~ IR!IsRefused(found) =>
        /\ IR!Attributable(found)
        /\ \A p \in IR!Properties :
              /\ found.by[p] = "author" => found.values[p] # None /\ (found.values[p] # given.old.values[p] \/ p \in given.old.unknown)
              /\ found.values[p] # given.old.values[p] => found.by[p] \in {None, "author"}

\* Loading and editing a document: no node ends up inside itself, removals
\* are complete, the diff shows everything and values keep their authors.
EditsExact == ForestKept /\ RemovalNeverInvalid /\ DiffReplays /\ AuthorsTrue

-----------------------------------------------------------------------------
(* Migration planning.                                                      *)

AskSequence == Ask("sequence", [graph : Graph!Graphs, parallel : {{}, {2, 3, 4}}])
Sequence ==
    LET g == given.graph
    IN Answer("sequence",
              [cycles |-> Graph!Cycles(g), order |-> Graph!Order(g),
               stages |-> IF Graph!Cycles(g) = {} THEN Graph!Stages(g, given.parallel) ELSE <<>>])

AskPlan ==
    Ask("plan", [source : Assessment!Sources, target : Assessment!Targets,
                 preferred : {"rolling", "blue_green", "replication_cutover", "canary"}, stated : {{3}}])
Plan == Answer("plan", Assessment!Generate(given.source, given.target, given.preferred))
Assess ==
    /\ Answered("plan")
    /\ engine' = "proposal" /\ found' = Assessment!Proposal(found, given.source, given.target, "no", given.stated)
    /\ UNCHANGED given

AskEvidence == Ask("evidence", Evidence!Inputs)
Integrate == Answer("evidence", Evidence!Integrate(given.engine, given.analyses, given.candidate))

\* The dependency graph reports exactly the groups of steps that wait for
\* each other; the order has every step that waits for none of them, after
\* all it waits for, the least step first wherever there is a choice; the
\* stages hold every step once, none before what it waits for, and only
\* steps that may run together share one.
OrderExact ==
    Answered("sequence") =>
        LET g == given.graph
            At(n) == CHOOSE i \in DOMAIN found.stages : n \in found.stages[i]
        IN /\ found.cycles = {S \in SUBSET DOMAIN g : Graph!IsCycle(g, S)}
           /\ ToSet(found.order) = Graph!Orderable(g)
           /\ \A i \in DOMAIN found.order :
                 LET done == {found.order[j] : j \in 1 .. i - 1}
                     ready == {n \in DOMAIN g \ done : g[n] \subseteq done}
                 IN found.order[i] \in ready /\ \A n \in ready : found.order[i] <= n
           /\ found.cycles = {} =>
                 /\ \A n \in DOMAIN g : Cardinality({i \in DOMAIN found.stages : n \in found.stages[i]}) = 1
                 /\ \A n \in DOMAIN g : \A d \in g[n] : At(d) < At(n)
                 /\ \A i \in DOMAIN found.stages : Cardinality(found.stages[i]) > 1 => found.stages[i] \subseteq given.parallel

\* The planner's steps never wait for themselves, and everything derived
\* from them is accepted by the proposal and its parts.
ProposalLegal ==
    Answered("proposal") =>
        /\ Assessment!Acyclic(found) /\ Assessment!Consistent(found)
        /\ \A r \in found.risks : Assessment!RiskLegal(r)
        /\ \A r \in found.rollbacks : Assessment!RollbackLegal(r)
        /\ \A c \in found.checkpoints : Assessment!CheckpointLegal(c)

\* Every consequential step waits for a person, nothing is retired while a
\* later step names it, and no added component is used before it is there:
\* the one exception is the cutover of a re-routed connection.
OnlyReroutesUnprepared ==
    Answered("proposal") =>
        \A m \in found.missing : m[1] = "provisioned" /\ m[3] \in {<<t, m[3][2], "">> : t \in {"prepare", "cutover"}}
                                 /\ m[3][2] \in DOMAIN given.source.connections

\* Data is never removed before it has been copied, checked and switched to
\* its new place, and a removal without a new place is announced as a loss.
DataMovedFirst ==
    Answered("proposal") =>
        \A k \in DOMAIN found.steps :
            (found.steps[k].reversibility = "irreversible" /\ k[1] = "decommission") =>
                IF \E p \in found.pairs : p[1] = k[2]
                THEN {<<"backfill", k[2], "">>, <<"verify", k[2], "consistency">>, <<"cutover", k[2], "">>}
                        \subseteq Assessment!Before(found.steps, k)
                ELSE \E r \in found.risks : r.key = <<"data_loss", k[2]>> /\ k \in r.steps

\* A verdict on the target rests on a finished analysis of that very
\* revision, a pass on a complete one and a cost increase on equal prices.
EvidenceUsedSoundly == Answered("evidence") => Evidence!EvidenceSound(given, found)

\* The steps of a plan are in an order that works, legal as a proposal, and
\* never lose data or skip a review; stored evidence is used for what it shows.
PlanSound ==
    OrderExact /\ ProposalLegal /\ OnlyReroutesUnprepared /\ DataMovedFirst /\ EvidenceUsedSoundly

-----------------------------------------------------------------------------
(* Reliability.                                                             *)

AskPaths == Ask("paths", Reliability!Architectures)
Paths == Answer("paths", Reliability!Topology(given))

AskComponent == Ask("component", Reliability!Facts)
EstimateComponent == Answer("component", Reliability!Component(given))

AskObjective ==
    Ask("objective", [requirement : Reliability!Requirements, subjects : SeqOf({None, 0, 1, 2}, 2)])
JudgeObjective == Answer("objective", Reliability!Judge(given.requirement, given.subjects))

\* The availability of a request path is the chance that the request is
\* served, over all the ways its components can be up and down.
PathExact == Answered("paths") => Reliability!PathExact(given, found)

\* Every component that no request is served without is reported unless it
\* declares a spare, and so is every set of components that require each
\* other.
SinglePointsExact == Answered("paths") => Reliability!SinglePointsExact(given, found)

\* A stated availability is never replaced by a derived one, a derived one is
\* the chance that enough independent replicas are up, and a value that is
\* not established has a reason.
EstimateSound == Answered("component") => Reliability!EstimateSound(given, found)

\* An objective is satisfied only when every subject has a known value that
\* meets it, and violated only when one misses it.
VerdictSound == Answered("objective") => Reliability!VerdictSound(given.requirement, given.subjects, found)

\* Paths, single points of failure, estimates and verdicts are what the
\* declared facts imply, and no more.
ReliabilityExact == PathExact /\ SinglePointsExact /\ EstimateSound /\ VerdictSound

-----------------------------------------------------------------------------
(* Component constraints and validation.                                    *)

AskConstraints == Ask("constraints", [node : Constraints!NodeInputs, spec : Constraints!SpecInputs])
EvaluateConstraints == Answer("constraints", Constraints!EvaluateReference(given.node, given.spec))

AskValidate == Ask("validate", Validation!Contexts)
Validate == Answer("validate", Validation!Validate(given))

\* A component's constraint is judged on what the node states, the cycles of
\* waiting calls are all reported, a policy breach always blocks, a rule that
\* fails takes no other with it, and a verdict is definite only when the
\* values that are not stated cannot change it.
ValidationExact ==
    /\ Answered("constraints") => Constraints!EvaluationSound(given.node, given.spec, found)
    /\ Answered("validate") => Validation!ResultSound(given, found)

-----------------------------------------------------------------------------
(* Capacity.                                                                *)

\* One run: the demand is handed on node by node, then every component is
\* estimated and compared with its demand; a scenario is a run of its own,
\* compared with the one it starts from.
Baseline(context) == [context |-> context, scenario |-> None, before |-> None, cost |-> None]
AskCapacity == Ask("capacity", {Baseline(c) : c \in Capacity!Contexts})
StartCapacity ==
    /\ engine = "capacity" /\ found = None
    /\ IF Capacity!Refusal(given.context) # None
       THEN Answer("capacity", Capacity!Refusal(given.context))
       ELSE engine' = "traffic" /\ found' = Capacity!Start(given.context) /\ UNCHANGED given
Propagate ==
    /\ engine = "traffic" /\ found.ready # {}
    /\ found' = Capacity!Handle(given.context, found)
    /\ UNCHANGED <<engine, given>>
Propagated ==
    /\ engine = "traffic" /\ found.ready = {}
    /\ engine' = "demand" /\ found' = Capacity!Propagated(given.context, found)
    /\ UNCHANGED given
EstimateComponents ==
    /\ engine = "demand"
    /\ engine' = "components" /\ found' = [demand |-> found, components |-> Capacity!Components(given.context, found)]
    /\ UNCHANGED given
FindBottlenecks ==
    /\ engine = "components"
    /\ engine' = "result" /\ found' = Capacity!Result(given.context, found.demand, found.components)
    /\ UNCHANGED given
Scenario ==
    /\ engine = "result" /\ given.before = None /\ given.cost = None
    /\ \E s \in Capacity!Scenarios :
          IF Capacity!ScenarioRefusal(given.context, s) # None
          THEN engine' = "capacity" /\ found' = Capacity!ScenarioRefusal(given.context, s) /\ UNCHANGED given
          ELSE /\ engine' = "capacity" /\ found' = None
               /\ given' = [context |-> Capacity!ScenarioContext(given.context, s), scenario |-> s, before |-> found, cost |-> None]
ScaleOut ==
    /\ engine = "result"
    /\ engine' = "scaling" /\ found' = Capacity!ScalingOptions(given.context.ir, found)
    /\ given' = [given EXCEPT !.before = found]

\* The demand of a component is what the workload sends it over all ways that
\* lead there, and known whenever all of them are; what is over its capacity
\* is reported and nothing else; an answer to it is enough and no more; a
\* workload that grows multiplies every demand.
CapacityExact ==
    /\ engine = "result" => Capacity!CapacityExact(given.context, found)
    /\ engine = "result" /\ given.before # None => Capacity!ScenarioExact(given.scenario, given.before, found)
    /\ engine = "scaling" => Capacity!ScalingExact(given.context, given.before, found)

-----------------------------------------------------------------------------
(* Cost.                                                                    *)

\* An analysis is refused for the capacity analysis it cites, or prices every
\* component, with the usage of that analysis if there is one; a scenario of
\* it first runs the capacity engine again, is priced the same and compared.
CostOf(context, scenario, before) ==
    [context |-> Capacity!Context(context.ir, context.load), scenario |-> None, before |-> None,
     cost |-> [context |-> context, scenario |-> scenario, before |-> before]]
AskCost == Ask("cost", {CostOf(c, None, None) : c \in {d \in Cost!Contexts : d.cited # "current"}})
AskCostWithCapacity == Ask("capacity", {CostOf(c, None, None) : c \in {d \in Cost!Contexts : d.cited = "current"}})
RefuseCost ==
    /\ engine = "cost" /\ Cost!Incompatible(given.cost.context) # None
    /\ Answer("cost", Cost!Incompatible(given.cost.context))
PriceCost ==
    /\ \/ engine = "cost" /\ found = None /\ Cost!Incompatible(given.cost.context) = None /\ UNCHANGED given
       \/ engine = "scaling" /\ given.cost # None
          /\ given' = [given EXCEPT !.cost.context.basis = Cost!Basis(given.context.load, given.before, found)]
    /\ engine' = "priced" /\ found' = Cost!Analyze(given'.cost.context)
SummarizeCost ==
    /\ engine = "priced"
    /\ engine' = "summarized" /\ found' = [result |-> found, summary |-> Cost!Summarize(found)]
    /\ UNCHANGED given
ProjectCost ==
    /\ engine = "summarized" /\ given.cost.before = None
    /\ \E s \in Cost!Scenarios :
          LET context == given.cost.context
              refusal == Cost!ProjectionRefusal(context, s)
          IN IF refusal # None THEN engine' = "cost" /\ found' = refusal /\ UNCHANGED given
             ELSE /\ engine' = (IF context.basis = None THEN "cost" ELSE "capacity") /\ found' = None
                  /\ given' = CostOf(Cost!Project(context, s), s, found.result)

\* A line costs what its units cost one by one at the one price that applies;
\* nothing is left out or counted twice in a total, none of it rests on usage
\* that is not known, and a comparison explains its difference.
CostExact ==
    engine = "summarized" =>
        /\ Cost!LinesExact(given.cost.context, found.result)
        /\ Cost!TotalsExact(given.cost.context, found.result, found.summary)
        /\ Cost!UsageExact(given.cost.context, found.result)
        /\ given.cost.before # None =>
              Cost!ComparisonExact(given.cost.scenario, given.cost.before, found.result, Cost!Comparison(given.cost.before, found.result))

\* Demands, capacities and costs are what the declared facts imply.
AmountsExact == CapacityExact /\ CostExact

-----------------------------------------------------------------------------
(* Drift.                                                                   *)

\* Inputs that cannot be compared end the analysis; a person who reads its
\* findings confirms or retracts an identity, and asks again.
AskDrift == Ask("drift", Drift!Inputs)
AssessDrift ==
    /\ engine = "drift"
    /\ engine' = "assessed" /\ found' = Drift!assess(given.baseline, given.run, Drift!current(given.confirmed))
    /\ UNCHANGED given
RefuseDrift ==
    /\ engine = "assessed" /\ Drift!Status(found) = "incompatible"
    /\ engine' = "compared" /\ found' = [matching |-> None, result |-> Drift!Incompatible(found)]
    /\ UNCHANGED given
MatchDrift ==
    /\ engine = "assessed" /\ Drift!Status(found) # "incompatible"
    /\ engine' = "matched" /\ found' = Drift!Matching(given, found)
    /\ UNCHANGED given
CompareDrift ==
    /\ engine = "matched"
    /\ engine' = "compared" /\ found' = [matching |-> found, result |-> Drift!Compared(given, found)]
    /\ UNCHANGED given
ConfirmIdentity ==
    /\ engine = "compared" /\ Len(given.confirmed) < given.confirmations
    /\ \E node \in DOMAIN given.baseline.nodes, key \in {"p", "r", None} :
          given' = [given EXCEPT !.confirmed = Append(@, [node |-> node, key |-> key])]
    /\ engine' = "drift" /\ found' = None

\* Every element is compared once or has a reason, no two findings become
\* one item, what is confirmed rests on what was read, and a revision that
\* holds what the run declares shows no difference.
DriftExact == engine = "compared" => Drift!DriftSound(given, found.matching, found.result)

-----------------------------------------------------------------------------
Next ==
    \/ AskLoad \/ Load \/ Edit \/ AskConfigure \/ Configure
    \/ AskSequence \/ Sequence \/ AskPlan \/ Plan \/ Assess \/ AskEvidence \/ Integrate
    \/ AskPaths \/ Paths \/ AskComponent \/ EstimateComponent \/ AskObjective \/ JudgeObjective
    \/ AskConstraints \/ EvaluateConstraints \/ AskValidate \/ Validate
    \/ AskCapacity \/ StartCapacity \/ Propagate \/ Propagated \/ EstimateComponents \/ FindBottlenecks
    \/ Scenario \/ ScaleOut
    \/ AskCost \/ AskCostWithCapacity \/ RefuseCost \/ PriceCost \/ SummarizeCost \/ ProjectCost
    \/ AskDrift \/ AssessDrift \/ RefuseDrift \/ MatchDrift \/ CompareDrift \/ ConfirmIdentity
    \/ Return
Spec == Init /\ [][Next]_vars
=============================================================================
