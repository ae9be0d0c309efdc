------------------------------ MODULE Validation ------------------------------
(***************************************************************************)
(* engines/validation: the rules a revision is checked against, which of   *)
(* them a request may leave out or re-grade, and the verdict on every      *)
(* requirement in force.  An element's value of a property is stated,      *)
(* marked unknown or absent; texts are left out, what a finding names is   *)
(* kept.                                                                   *)
(***************************************************************************)
EXTENDS Naturals, FiniteSets, Sequences, SequencesExt, FiniteSetsExt, TLC

CONSTANT None

Constraints == INSTANCE Constraints

-----------------------------------------------------------------------------
(* Documents: what the rules read of nodes and connections.                 *)

\* Identifiers are numbers, those of connections apart from those of nodes.
Get(e, p) == IF p \in DOMAIN e.config THEN e.config[p] ELSE None
Components(ir) == {n \in DOMAIN ir.nodes : ir.nodes[n].kind # "boundary"}
Children(ir, b) == {n \in DOMAIN ir.nodes : ir.nodes[n].parent = b}
Element(ir, e) == IF e \in DOMAIN ir.nodes THEN ir.nodes[e] ELSE ir.connections[e]

\* The node, then the boundaries containing it, innermost first.
Ancestry(ir, n) ==
    LET Up(path, i) == LET p == ir.nodes[path[Len(path)]].parent
                       IN IF p = None THEN path ELSE Append(path, p)
    IN FoldLeft(Up, <<n>>, [i \in 1 .. Cardinality(DOMAIN ir.nodes) - 1 |-> i])

Finding(rule, code, severity, entities, fields) ==
    [rule |-> rule, code |-> code, severity |-> severity, entities |-> entities, fields |-> fields,
     blocking |-> FALSE, policy |-> None, requirement |-> None, evidence |-> None]

\* What identifies a finding in every run of the same content.
FindingId(f) == <<f.rule, f.code, f.entities, f.fields, f.requirement, f.policy>>

-----------------------------------------------------------------------------
(* rules/consistency.py.                                                    *)

DisconnectedComponents(ir) ==
    IF Cardinality(Components(ir)) < 2 THEN {}
    ELSE {Finding("structure.disconnected-component", "disconnected", "medium", {n}, {"connections"}) :
             n \in {m \in Components(ir) : \A c \in DOMAIN ir.connections :
                                              m \notin {ir.connections[c].source, ir.connections[c].target}}}

EmptyBoundaries(ir) ==
    {Finding("structure.empty-boundary", "empty_boundary", "low", {b}, {}) :
        b \in {n \in DOMAIN ir.nodes \ Components(ir) : Children(ir, n) = {}}}

\* strongly_connected: the nodes in the order a depth-first walk leaves them,
\* then, from the last left, what reaches each one backwards.
Left(edges, order) ==
    LET Visit(w, i) ==
            IF w.stack = <<>>
            THEN LET rest == {k \in DOMAIN order : order[k] \notin w.seen}
                 IN IF rest = {} THEN w
                    ELSE [w EXCEPT !.stack = <<order[Min(rest)]>>, !.seen = @ \cup {order[Min(rest)]}]
            ELSE LET top  == w.stack[Len(w.stack)]
                     next == {k \in DOMAIN order : order[k] \notin w.seen /\ <<top, order[k]>> \in edges}
                 IN IF next = {}
                    THEN [w EXCEPT !.stack = Front(@), !.left = Append(@, top)]
                    ELSE [w EXCEPT !.stack = Append(@, order[Min(next)]), !.seen = @ \cup {order[Min(next)]}]
    IN FoldLeft(Visit, [stack |-> <<>>, seen |-> {}, left |-> <<>>], [i \in 1 .. 3 * Len(order) |-> i]).left

Backwards(edges, start, assigned) ==
    LET Grow(S, i) == S \cup {e[1] : e \in {d \in edges : d[2] \in S /\ d[1] \notin assigned}}
    IN FoldLeft(Grow, {start}, [i \in 1 .. Cardinality(edges) |-> i])

StronglyConnected_forwardOrder(edges, order) ==
    LET Take(groups, n) == IF n \in UNION groups THEN groups ELSE groups \cup {Backwards(edges, n, UNION groups)}
    IN FoldLeft(Take, {}, Left(edges, order))
StronglyConnected(edges, order) ==
    LET Take(groups, n) == IF n \in UNION groups THEN groups ELSE groups \cup {Backwards(edges, n, UNION groups)}
    IN FoldLeft(Take, {}, Reverse(Left(edges, order)))

Calls(ir, includeUnstated) ==
    {c \in DOMAIN ir.connections :
        /\ ir.connections[c].kind = "request"
        /\ ir.connections[c].interaction \in {"synchronous"} \cup (IF includeUnstated THEN {None} ELSE {})}

Edges(ir, connections) == {<<ir.connections[c].source, ir.connections[c].target>> : c \in connections}

SynchronousCycles(ir, includeUnstated) ==
    LET calls == Calls(ir, includeUnstated)
        edges == Edges(ir, calls)
        order == SetToSortSeq(UNION {{e[1], e[2]} : e \in edges}, <)
    IN {Finding("structure.synchronous-cycle", "synchronous_cycle", "high",
                group \cup {c \in calls : ir.connections[c].source \in group /\ ir.connections[c].target \in group}, {}) :
           group \in {g \in StronglyConnected(edges, order) : Cardinality(g) > 1}}

DeprecatedConnections(ir) ==
    LET old(n) == ir.nodes[n].lifecycle = "deprecated"
    IN {LET s == ir.connections[c].source
            t == ir.connections[c].target
        IN IF old(t) THEN Finding("structure.deprecated-dependency", "depends_on_deprecated", "medium", {c, s, t}, {"target_id"})
           ELSE Finding("structure.deprecated-dependency", "deprecated_source", "low", {c, s, t}, {"source_id"}) :
           c \in {d \in DOMAIN ir.connections : old(ir.connections[d].source) # old(ir.connections[d].target)}}

CurrentSchema == 2
SchemaVersion(schema) ==
    IF schema >= CurrentSchema THEN {}
    ELSE {Finding("structure.schema-version", "upgraded_on_read", "info", {}, {"schema_version"})}

-----------------------------------------------------------------------------
(* rules/completeness.py and rules/configuration.py.                        *)

UnknownValues(ir) ==
    {Finding("completeness.unknown-values", "unknown_value", "low", {e}, Element(ir, e).unknown) :
        e \in {d \in DOMAIN ir.nodes \cup DOMAIN ir.connections : Element(ir, d).unknown # {}}}

ReplicasWithinAutoscaling(ir) ==
    LET rule == "configuration.replicas-autoscaling"
        outside(n, bound) ==
            LET replicas == Get(ir.nodes[n], "replicas")
                limit == Get(ir.nodes[n], bound)
            IN /\ replicas # None /\ limit # None
               /\ IF bound = "autoscaling_min_replicas" THEN replicas < limit ELSE replicas > limit
    IN {Finding(rule, "replicas_outside_autoscaling", "medium", {o[1]}, {"replicas", o[2]}) :
           o \in {p \in (DOMAIN ir.nodes) \X {"autoscaling_min_replicas", "autoscaling_max_replicas"} : outside(p[1], p[2])}}

\* availability_zones is the number of zones listed.
ZonesMatchMultiAz(ir) ==
    LET rule == "configuration.availability-zones"
        fields == {"multi_az", "availability_zones"}
        both == {n \in DOMAIN ir.nodes : Get(ir.nodes[n], "multi_az") # None /\ Get(ir.nodes[n], "availability_zones") # None}
    IN {Finding(rule, "multi_az_single_zone", "medium", {n}, fields) :
           n \in {m \in both : ir.nodes[m].config.multi_az /\ ir.nodes[m].config.availability_zones < 2}}
       \cup {Finding(rule, "zones_without_multi_az", "low", {n}, fields) :
           n \in {m \in both : ~ ir.nodes[m].config.multi_az /\ ir.nodes[m].config.availability_zones >= 2}}

BackupsRetained(ir) ==
    LET rule == "configuration.backups"
        fields == {"backup_enabled", "backup_retention_seconds"}
        both == {n \in DOMAIN ir.nodes : Get(ir.nodes[n], "backup_enabled") # None /\ Get(ir.nodes[n], "backup_retention_seconds") # None}
    IN {Finding(rule, "backups_not_retained", "medium", {n}, fields) :
           n \in {m \in both : ir.nodes[m].config.backup_enabled /\ ir.nodes[m].config.backup_retention_seconds = 0}}
       \cup {Finding(rule, "retention_without_backups", "low", {n}, fields) :
           n \in {m \in both : ~ ir.nodes[m].config.backup_enabled /\ ir.nodes[m].config.backup_retention_seconds > 0}}

RetriesNeedTimeouts(ir) ==
    {Finding("configuration.retries-without-timeout", "retries_without_timeout", "medium", {c}, {"retries", "timeout_seconds"}) :
        c \in {d \in DOMAIN ir.connections :
                  LET e == ir.connections[d]
                  IN /\ e.kind \in {"request", "data_access"} /\ e.interaction # "asynchronous"
                     /\ Get(e, "retries") \notin {None, 0}
                     /\ Get(e, "timeout_seconds") = None /\ "timeout_seconds" \notin e.unknown}}

DeadLetterOnConsumers(ir) ==
    {Finding("configuration.dead-letter", "dead_letter_not_consumer", "low", {c}, {"dead_letter", "kind"}) :
        c \in {d \in DOMAIN ir.connections : Get(ir.connections[d], "dead_letter") = TRUE /\ ir.connections[d].kind # "consume"}}

-----------------------------------------------------------------------------
(* rules/components.py: one finding per node, code and property, as severe  *)
(* as the most severe check it groups.                                      *)

Severities == <<"critical", "high", "medium", "low", "info">>
Rank(severity) == CHOOSE i \in DOMAIN Severities : Severities[i] = severity
MostSevere(severities) == Severities[Min({Rank(s) : s \in severities})]

ComponentSeverity(f) ==
    IF f.outcome = "cannot_evaluate" THEN "info" ELSE IF f.severity = None THEN "medium" ELSE f.severity

ComponentCode(f) ==
    CASE f.check[1] = "kind_not_modeled" -> "component_kind_not_modeled"
      [] f.check[1] = "deprecated"       -> "component_specification_deprecated"
      [] f.check[1] = "not_in_catalog"   -> "component_not_in_catalog"
      [] f.check[1] = "planned"          -> "component_not_specified"
      [] OTHER -> CASE f.outcome = "violation"       -> "component_constraint_violated"
                    [] f.outcome = "warning"         -> "component_recommendation_not_met"
                    [] f.outcome = "cannot_evaluate" -> "component_check_not_evaluable"

ComponentConstraints(ir, catalog) ==
    LET reported(n) == {f \in Constraints!EvaluateReference(ir.nodes[n], catalog[ir.nodes[n].component]) :
                           f.outcome \in {"violation", "warning", "cannot_evaluate"}}
    IN IF catalog = None THEN {}
       ELSE UNION {{LET same == {g \in reported(n) : ComponentCode(g) = ComponentCode(f) /\ g.property = f.property}
                    IN Finding("configuration.component-constraints", ComponentCode(f),
                               MostSevere({ComponentSeverity(g) : g \in same}), {n}, {f.property} \ {None}) : f \in reported(n)} :
                      n \in {m \in DOMAIN ir.nodes : ir.nodes[m].component # None}}

-----------------------------------------------------------------------------
(* rules/policy.py: mandatory, and a breach of the policy blocks.           *)

HasPolicy(policy) ==
    /\ policy # None
    /\ policy.allowed \cup policy.prohibited \cup policy.regions # {} \/ policy.tls \/ policy.max # None

Blocking(rule, code, entities, fields, setting) ==
    [Finding(rule, code, "high", entities, fields) EXCEPT !.blocking = TRUE, !.policy = setting]

Technologies(ir, policy) ==
    LET rule == "policy.technology"
        of(n) == ir.nodes[n].technology
    IN {[Finding(rule, "technology_unstated", "low", {n}, {"technology"}) EXCEPT !.policy = "allowed_technologies"] :
           n \in {m \in DOMAIN ir.nodes : /\ of(m) = None /\ policy.allowed # {}
                                          /\ ir.nodes[m].kind \notin {"client", "external", "boundary"}}}
       \cup {Blocking(rule, "prohibited_technology", {n}, {"technology.name"}, "prohibited_technologies") :
           n \in {m \in DOMAIN ir.nodes : of(m) \in policy.prohibited}}
       \cup {Blocking(rule, "technology_not_allowed", {n}, {"technology.name"}, "allowed_technologies") :
           n \in {m \in DOMAIN ir.nodes : /\ of(m) # None /\ of(m) \notin policy.prohibited
                                          /\ policy.allowed # {} /\ of(m) \notin policy.allowed}}

Regions(ir, policy) ==
    IF policy.regions = {} THEN {}
    ELSE {[Finding("policy.region", "region_unknown", "low", {n}, {"region"}) EXCEPT !.policy = "allowed_regions"] :
             n \in {m \in DOMAIN ir.nodes : "region" \in ir.nodes[m].unknown}}
         \cup {Blocking("policy.region", "region_not_allowed", {n}, {"region"}, "allowed_regions") :
             n \in {m \in DOMAIN ir.nodes : Get(ir.nodes[m], "region") \notin policy.regions \cup {None}}}

Communicates(c) == c.kind # "dependency"

EncryptionInTransit(ir, policy) ==
    LET used == {c \in DOMAIN ir.connections : policy.tls /\ Communicates(ir.connections[c])}
        tls(c) == Get(ir.connections[c], "tls")
    IN {Blocking("policy.tls", "tls_disabled", {c}, {"tls"}, "require_tls") : c \in {d \in used : tls(d) = FALSE}}
       \cup {[Finding("policy.tls", "tls_unstated", "medium", {c}, {"tls"}) EXCEPT !.policy = "require_tls"] :
                c \in {d \in used : tls(d) = None /\ ~ ir.connections[d].encrypted}}

ComponentCount(ir, policy) ==
    IF policy.max = None \/ Cardinality(Components(ir)) <= policy.max THEN {}
    ELSE {Blocking("policy.component-count", "too_many_components", {}, {"nodes"}, "max_components")}

-----------------------------------------------------------------------------
(* rules/requirements.py: traceability.                                     *)

InForce == {"active", "satisfied"}

\* A reference is <<requirement, version or None>>.
Referencing(ir, r) ==
    [elements |-> {e \in DOMAIN ir.nodes \cup DOMAIN ir.connections : \E ref \in Element(ir, e).refs : ref[1] = r},
     versions |-> {ref[2] : ref \in {q \in ir.refs \cup UNION {Element(ir, e).refs : e \in DOMAIN ir.nodes \cup DOMAIN ir.connections} : q[1] = r}}]

About(r, code, severity, entities) ==
    [Finding("requirements.traceability", code, severity, entities, {"requirement_refs"}) EXCEPT !.requirement = r]

Traceability(ir, requirements) ==
    LET live == DOMAIN requirements
        referenced == {ref[1] : ref \in ir.refs \cup UNION {Element(ir, e).refs : e \in DOMAIN ir.nodes \cup DOMAIN ir.connections}}
        Elements(r) == Referencing(ir, r).elements
    IN {About(r, "unreferenced_requirement", "medium", {}) :
           r \in {q \in live \ referenced : requirements[q].status \in InForce}}
       \cup {[About(None, "unknown_requirement_reference", "low", Elements(r)) EXCEPT !.evidence = r] : r \in referenced \ live}
       \cup {About(r, "reference_not_in_force", "low", Elements(r)) :
           r \in {q \in referenced \cap live : requirements[q].status \notin InForce}}
       \cup {About(r, "outdated_requirement_reference", "info", Elements(r)) :
           r \in {q \in referenced \cap live : \E v \in Referencing(ir, q).versions \ {None} : v < requirements[q].version}}

-----------------------------------------------------------------------------
(* rules/requirements.py: verdicts.  Sizes and durations are in the unit of *)
(* the constraint; a duration is stated in seconds.                         *)

NodeKinds == {"client", "gateway", "service", "worker", "database", "cache", "storage", "queue", "cdn",
              "load_balancer", "observability", "external", "boundary"}
Deployed == NodeKinds \ {"client", "external", "boundary"}
HoldsData == {"database", "cache", "storage", "queue", "observability"}
Stores == {"database", "storage"}
ScopeKinds == [service |-> {"service", "worker"}, api |-> {"service", "gateway"}, database |-> {"database"},
               queue |-> {"queue"}, data |-> HoldsData]
MsPerSecond == 1000

Judged(verdict, entities) == [verdict |-> verdict, entities |-> entities]

Complies(value, c) ==
    CASE c.operator = "range"     -> c.low <= value /\ value <= c.high
      [] c.operator = "at_least"  -> value >= c.low
      [] c.operator = "more_than" -> value > c.low
      [] c.operator = "at_most"   -> value <= c.low
      [] c.operator = "less_than" -> value < c.low
      [] c.operator = "exactly"   -> value = c.low

\* The kinds of node a requirement is about; none when its scope is elsewhere.
ConcernedKinds(r, default) == IF r.scope \in DOMAIN ScopeKinds THEN default \cap ScopeKinds[r.scope] ELSE default
Concerned(ir, r, default) == {n \in DOMAIN ir.nodes : ir.nodes[n].kind \in ConcernedKinds(r, default)}

\* When no node can be judged; None when some are.
NoConcern(ir, r, default) ==
    IF ConcernedKinds(r, default) = {} THEN Judged("not_verifiable", {})
    ELSE IF Concerned(ir, r, default) = {} THEN Judged("not_applicable", {}) ELSE None

Effective_skipsUnknown(ir, n, p) ==
    LET path == Ancestry(ir, n)
        said == {i \in DOMAIN path : Get(ir.nodes[path[i]], p) # None}
    IN IF said = {} THEN None ELSE Get(ir.nodes[path[Min(said)]], p)
\* The value on the node or on the nearest boundary that says anything.
Effective(ir, n, p) ==
    LET path == Ancestry(ir, n)
        said == {i \in DOMAIN path : p \in ir.nodes[path[i]].unknown \/ Get(ir.nodes[path[i]], p) # None}
    IN IF said = {} THEN None ELSE Get(ir.nodes[path[Min(said)]], p)

JudgeRegions(ir, r) ==
    LET default  == IF r.category = "data_residency" THEN HoldsData ELSE Deployed
        region   == [n \in Concerned(ir, r, default) |-> Effective(ir, n, "region")]
        outside  == {n \in DOMAIN region : region[n] \notin r.constraint.values \cup {None}}
        unstated == {n \in DOMAIN region : region[n] = None}
    IN IF NoConcern(ir, r, default) # None THEN NoConcern(ir, r, default)
       ELSE IF outside # {} THEN Judged("violated", outside)
       ELSE IF unstated # {} THEN Judged("not_verifiable", unstated)
       ELSE Judged("satisfied", DOMAIN region)

SumOver(S, f) == FoldSet(LAMBDA n, sum : sum + f[n], 0, S)

JudgeStorage(ir, r) ==
    LET nodes    == Concerned(ir, r, Stores)
        size     == [n \in nodes |-> Get(ir.nodes[n], "storage_bytes")]
        unstated == {n \in nodes : size[n] = None}
    IN IF NoConcern(ir, r, Stores) # None THEN NoConcern(ir, r, Stores)
       ELSE IF unstated # {} THEN Judged("not_verifiable", unstated)
       ELSE Judged(IF Complies(SumOver(nodes, size), r.constraint) THEN "satisfied" ELSE "violated", nodes)

\* Only nodes that say something about retention are concerned.
Stating(ir, r) ==
    {n \in DOMAIN ir.nodes : /\ "retention_seconds" \in DOMAIN ir.nodes[n].config \cup ir.nodes[n].unknown
                             /\ r.scope \in DOMAIN ScopeKinds => ir.nodes[n].kind \in ScopeKinds[r.scope]}

JudgeRetention(ir, r) ==
    LET seconds(n) == Get(ir.nodes[n], "retention_seconds")
        unknown == {n \in Stating(ir, r) : seconds(n) = None}
        failing == {n \in Stating(ir, r) \ unknown : ~ Complies(seconds(n) * MsPerSecond, r.constraint)}
    IN IF failing # {} THEN Judged("violated", failing)
       ELSE IF unknown # {} \/ Stating(ir, r) = {} THEN Judged("not_verifiable", unknown)
       ELSE Judged("satisfied", Stating(ir, r))

JudgeInTransit(ir) ==
    LET used     == {c \in DOMAIN ir.connections : Communicates(ir.connections[c])}
        tls(c)   == Get(ir.connections[c], "tls")
        disabled == {c \in used : tls(c) = FALSE}
        unstated == {c \in used : tls(c) # TRUE /\ ~ ir.connections[c].encrypted}
    IN IF used = {} THEN Judged("not_applicable", {})
       ELSE IF disabled # {} THEN Judged("violated", disabled)
       ELSE IF unstated # {} THEN Judged("not_verifiable", unstated)
       ELSE Judged("satisfied", used)

Judge(ir, r) ==
    CASE r.constraint.metric = "regions"   -> JudgeRegions(ir, r)
      [] r.constraint.metric = "storage"   -> JudgeStorage(ir, r)
      [] r.constraint.metric = "retention" -> JudgeRetention(ir, r)
      [] r.constraint.metric = "in_transit" -> JudgeInTransit(ir)
      [] OTHER                             -> Judged("not_verifiable", {})

Verdicts(ir, requirements) ==
    [r \in {q \in DOMAIN requirements : requirements[q].status \in InForce} |-> Judge(ir, requirements[r])]

\* The priority of a requirement is the severity of its violation.
Violations(ir, requirements) ==
    LET verdicts == Verdicts(ir, requirements)
    IN {[Finding("requirements.verdicts", "requirement_violated", requirements[r].priority, verdicts[r].entities, {})
            EXCEPT !.requirement = r, !.blocking = requirements[r].priority = "critical"] :
           r \in {q \in DOMAIN verdicts : verdicts[q].verdict = "violated"}}

-----------------------------------------------------------------------------
(* engine.py: which rules run, and what becomes of their results.           *)

PolicyRules == {"policy.technology", "policy.region", "policy.tls", "policy.component-count"}
MandatoryRules == PolicyRules \cup {"structure.schema-version"}
Rules == MandatoryRules \cup
    {"structure.disconnected-component", "structure.empty-boundary", "structure.synchronous-cycle",
     "structure.deprecated-dependency", "completeness.unknown-values", "configuration.replicas-autoscaling",
     "configuration.availability-zones", "configuration.backups", "configuration.retries-without-timeout",
     "configuration.dead-letter", "configuration.component-constraints", "requirements.traceability",
     "requirements.verdicts"}

\* The one parameter a rule declares is a truth value.
ParameterProblem(rule, value) == rule # "structure.synchronous-cycle" \/ value \notin {"true", "false"}

Refused(reason) == [refused |-> reason, rules |-> {}]

Select_mandatoryOnRequest(config) == [refused |-> None, rules |-> IF config.rules = None THEN Rules ELSE config.rules]
Select(config) ==
    LET chosen == IF config.rules = None THEN Rules ELSE config.rules \cup MandatoryRules
    IN CASE config.profile \notin {"default", "strict"} -> Refused("unknown_profile")
         [] config.rules # None /\ config.rules \ Rules # {} -> Refused("unknown_rule")
         [] OTHER ->
            IF ~ (DOMAIN config.parameters \cup DOMAIN config.overrides \subseteq chosen) THEN Refused("rule_not_selected")
            ELSE IF \E rule \in DOMAIN config.parameters : ParameterProblem(rule, config.parameters[rule]) THEN Refused("parameter")
            ELSE IF DOMAIN config.overrides \cap MandatoryRules # {} THEN Refused("mandatory_rule")
            ELSE [refused |-> None, rules |-> chosen]

EvaluatePolicy(rule, ir, policy) ==
    CASE rule = "policy.technology"      -> Technologies(ir, policy)
      [] rule = "policy.region"          -> Regions(ir, policy)
      [] rule = "policy.tls"             -> EncryptionInTransit(ir, policy)
      [] rule = "policy.component-count" -> ComponentCount(ir, policy)

Evaluate(rule, context) ==
    LET ir == context.ir
        policy == context.policy
        parameters == context.config.parameters
    IN CASE rule = "structure.disconnected-component"      -> DisconnectedComponents(ir)
         [] rule = "structure.empty-boundary"              -> EmptyBoundaries(ir)
         [] rule = "structure.synchronous-cycle"           ->
               SynchronousCycles(ir, rule \in DOMAIN parameters => parameters[rule] = "true")
         [] rule = "structure.deprecated-dependency"       -> DeprecatedConnections(ir)
         [] rule = "structure.schema-version"              -> SchemaVersion(context.schema)
         [] rule = "completeness.unknown-values"           -> UnknownValues(ir)
         [] rule = "configuration.replicas-autoscaling"    -> ReplicasWithinAutoscaling(ir)
         [] rule = "configuration.availability-zones"      -> ZonesMatchMultiAz(ir)
         [] rule = "configuration.backups"                 -> BackupsRetained(ir)
         [] rule = "configuration.retries-without-timeout" -> RetriesNeedTimeouts(ir)
         [] rule = "configuration.dead-letter"             -> DeadLetterOnConsumers(ir)
         [] rule = "configuration.component-constraints"   -> ComponentConstraints(ir, context.catalog)
         [] rule \in PolicyRules                           ->
               IF HasPolicy(policy) THEN EvaluatePolicy(rule, ir, policy) ELSE {}
         [] rule = "requirements.traceability"             -> Traceability(ir, context.requirements)
         [] rule = "requirements.verdicts"                 -> Violations(ir, context.requirements)

Override(f, config) == IF f.rule \in DOMAIN config.overrides THEN [f EXCEPT !.severity = config.overrides[f.rule]] ELSE f

\* What no rule of the run could check.
Limitations(context) ==
    (IF context.catalog = None THEN {"catalog_unavailable"}
     ELSE {"components_not_referenced" : n \in {m \in DOMAIN context.ir.nodes :
              context.ir.nodes[m].kind \notin {"client", "boundary"} /\ context.ir.nodes[m].component = None}})
    \cup (IF HasPolicy(context.policy) THEN {} ELSE {"no_policy"})

\* A rule that crashes is a failure of its own; the others still count.
Validate(context) ==
    LET selected == Select(context.config)
        ran == selected.rules \ context.crashing
    IN [refused |-> selected.refused, rules |-> selected.rules,
        findings |-> {Override(f, context.config) : f \in UNION {Evaluate(rule, context) : rule \in ran}},
        verdicts |-> IF "requirements.verdicts" \in ran THEN Verdicts(context.ir, context.requirements) ELSE <<>>,
        failures |-> selected.rules \cap context.crashing,
        limitations |-> Limitations(context)]

-----------------------------------------------------------------------------
(* What a right result is.                                                  *)

\* The sets of components that wait for each other, and no larger one.
WaitingSets(edges) ==
    LET nodes == UNION {{e[1], e[2]} : e \in edges}
        reach == [n \in nodes |-> FoldLeft(LAMBDA S, i : S \cup {e[2] : e \in {d \in edges : d[1] \in S}}, {n}, [i \in 1 .. Cardinality(nodes) |-> i])]
    IN {{m \in nodes : m \in reach[n] /\ n \in reach[m]} : n \in {k \in nodes : \E m \in nodes \ {k} : m \in reach[k] /\ k \in reach[m]}}

CyclesExact(context, result) ==
    "structure.synchronous-cycle" \in result.rules \ result.failures =>
        LET parameters == context.config.parameters
            unstated == "structure.synchronous-cycle" \in DOMAIN parameters => parameters["structure.synchronous-cycle"] = "true"
        IN {f.entities \cap DOMAIN context.ir.nodes : f \in {g \in result.findings : g.code = "synchronous_cycle"}}
               = WaitingSets(Edges(context.ir, Calls(context.ir, unstated)))

\* The policy is broken by something the architecture states.
Breached(ir, policy) ==
    \/ \E n \in DOMAIN ir.nodes :
          \/ ir.nodes[n].technology \in policy.prohibited
          \/ policy.allowed # {} /\ ir.nodes[n].technology \notin policy.allowed \cup {None}
          \/ policy.regions # {} /\ Get(ir.nodes[n], "region") \notin policy.regions \cup {None}
    \/ policy.tls /\ \E c \in DOMAIN ir.connections : Communicates(ir.connections[c]) /\ Get(ir.connections[c], "tls") = FALSE
    \/ policy.max # None /\ Cardinality(Components(ir)) > policy.max

PolicyEnforced(context, result) ==
    LET breaches == {f \in result.findings : f.rule \in PolicyRules /\ f.blocking}
    IN /\ \A f \in breaches : f.severity = "high"
       /\ PolicyRules \cap result.failures = {} =>
             (breaches # {}) = (context.policy # None /\ Breached(context.ir, context.policy))

\* A failed rule leaves no finding, and no finding is from a rule that did not run.
RulesIsolated(result) == \A f \in result.findings : f.rule \in result.rules \ result.failures

\* Two findings of a run never have the same identifier, references to
\* requirements that are gone excepted.
FindingsDistinct(findings) ==
    \A f, g \in findings : FindingId(f) = FindingId(g) => f = g
KnownDistinct(findings) == FindingsDistinct({f \in findings : f.code # "unknown_requirement_reference"})

\* The values an element may really have.
Possible(value, universe) == IF value = None THEN universe ELSE {value}
RegionOf(ir, n) ==
    LET path == Ancestry(ir, n)
        certain == {Get(ir.nodes[path[i]], "region") : i \in {j \in DOMAIN path :
                       /\ Get(ir.nodes[path[j]], "region") # None
                       /\ \A k \in 1 .. j - 1 : Get(ir.nodes[path[k]], "region") = None /\ "region" \notin ir.nodes[path[k]].unknown}}
    IN IF certain = {} THEN {"eu", "us"} ELSE certain

\* Every way the values that are not stated may turn out: does it meet r?
Outcomes(ir, r) ==
    LET c == r.constraint
        Sizes(nodes) == {f \in [nodes -> 0 .. 2] : \A n \in nodes : f[n] \in Possible(Get(ir.nodes[n], "storage_bytes"), 0 .. 2)}
        kinds == ConcernedKinds(r, IF r.category = "data_residency" THEN HoldsData ELSE Deployed)
    IN CASE c.metric = "regions" ->
               {\A n \in DOMAIN f : f[n] \in c.values :
                   f \in {g \in [{n \in DOMAIN ir.nodes : ir.nodes[n].kind \in kinds} -> {"eu", "us"}] : \A n \in DOMAIN g : g[n] \in RegionOf(ir, n)}}
         [] c.metric = "storage" -> {Complies(SumOver(DOMAIN f, f), c) : f \in Sizes(Concerned(ir, r, Stores))}
         [] c.metric = "retention" ->
               {\A n \in Stating(ir, r) : Complies(f[n] * MsPerSecond, c) :
                   f \in {g \in [Stating(ir, r) -> 0 .. 2] : \A n \in DOMAIN g : g[n] \in Possible(Get(ir.nodes[n], "retention_seconds"), 0 .. 2)}}
         [] c.metric = "in_transit" ->
               {\A n \in DOMAIN f : f[n] :
                   f \in {g \in [{n \in DOMAIN ir.connections : Communicates(ir.connections[n])} -> BOOLEAN] :
                             \A n \in DOMAIN g : g[n] \in Possible(Get(ir.connections[n], "tls"), IF ir.connections[n].encrypted THEN {TRUE} ELSE BOOLEAN)}}
         [] OTHER -> BOOLEAN

\* A verdict is definite only when it is right however things turn out.
VerdictsSound(context, result) ==
    "requirements.verdicts" \in result.rules \ result.failures =>
        /\ DOMAIN result.verdicts = {r \in DOMAIN context.requirements : context.requirements[r].status \in InForce}
        /\ \A r \in DOMAIN result.verdicts :
              LET v == result.verdicts[r].verdict
                  outcomes == Outcomes(context.ir, context.requirements[r])
              IN /\ v = "satisfied" => outcomes = {TRUE}
                 /\ v = "violated" => outcomes = {FALSE}
                 /\ (v = "violated") = \E f \in result.findings : f.code = "requirement_violated" /\ f.requirement = r

ResultSound(context, result) ==
    result.refused = None =>
        /\ MandatoryRules \subseteq result.rules
        /\ CyclesExact(context, result) /\ PolicyEnforced(context, result) /\ RulesIsolated(result)
        /\ KnownDistinct(result.findings) /\ VerdictsSound(context, result)

-----------------------------------------------------------------------------
(* Inputs.                                                                  *)

Node(f) == f @@ [kind |-> "service", parent |-> None, technology |-> None, lifecycle |-> "active", config |-> <<>>,
                 unknown |-> {}, refs |-> {}, component |-> None, version |-> None]
Connection(f) == f @@ [source |-> 1, target |-> 2, kind |-> "request", interaction |-> None, encrypted |-> FALSE,
                       config |-> <<>>, unknown |-> {}, refs |-> {}]
Document(nodes, connections) == [nodes |-> nodes, connections |-> connections, refs |-> {}]

Default == [profile |-> "default", rules |-> None, parameters |-> <<>>, overrides |-> <<>>]
Context(f) == f @@ [policy |-> None, requirements |-> <<>>, catalog |-> None, config |-> Default, crashing |-> {}, schema |-> 2]

\* A property that is stated, marked unknown or absent.
Stated(p, v) == IF v = None THEN <<>> ELSE p :> v
InRegion(r) == [config |-> IF r \in {None, "unknown"} THEN <<>> ELSE [region |-> r],
                unknown |-> IF r = "unknown" THEN {"region"} ELSE {}]

Pairs == <<<<1, 2>>, <<2, 1>>, <<2, 3>>, <<3, 1>>>>
CallContexts ==
    {Context([ir |-> Document([n \in 1 .. 3 |-> Node([lifecycle |-> IF n = 1 THEN old ELSE "active"])],
                              [c \in {10 + i : i \in {j \in 1 .. 4 : how[j] # "none"}} |->
                                  Connection([source |-> Pairs[c - 10][1], target |-> Pairs[c - 10][2],
                                              interaction |-> IF how[c - 10] = "unstated" THEN None ELSE how[c - 10]])]),
              config |-> [Default EXCEPT !.parameters = parameters]]) :
        how \in [1 .. 4 -> {"none", "synchronous", "unstated", "asynchronous"}], old \in {"active", "deprecated"},
        parameters \in {<<>>, "structure.synchronous-cycle" :> "false"}}

SettingContexts ==
    {Context([ir |-> Document(<<Node([config |-> Stated("replicas", r) @@ Stated("autoscaling_min_replicas", low) @@ Stated("autoscaling_max_replicas", high)]),
                               Node([kind |-> "boundary"]), Node([kind |-> "client", parent |-> 2])>>, <<>>), schema |-> schema]) :
        r \in {None, 1, 3}, low \in {None, 2}, high \in {None, 2}, schema \in {1, 2}}
    \cup
    {Context([ir |-> Document(<<Node([kind |-> "database", config |-> Stated("multi_az", m) @@ Stated("availability_zones", z)
                                                  @@ Stated("backup_enabled", b) @@ Stated("backup_retention_seconds", t)])>>, <<>>)]) :
        m \in BOOLEAN \cup {None}, z \in {None, 1, 2}, b \in BOOLEAN \cup {None}, t \in {None, 0, 1}}
    \cup
    {Context([ir |-> Document(<<Node(<<>>), Node([kind |-> "queue"])>>,
                              11 :> Connection([kind |-> kind, interaction |-> how, unknown |-> unknown,
                                                config |-> Stated("retries", r) @@ Stated("timeout_seconds", t) @@ Stated("dead_letter", d)])),
              config |-> [Default EXCEPT !.overrides = "configuration.dead-letter" :> "high"]]) :
        kind \in {"request", "consume"}, how \in {None, "asynchronous"}, r \in {None, 0, 1}, t \in {None, 1}, d \in {None, TRUE},
        unknown \in {{}, {"timeout_seconds"}}}

NoPolicy == [allowed |-> {}, prohibited |-> {}, regions |-> {}, tls |-> FALSE, max |-> None]
Policies == {None, NoPolicy, [NoPolicy EXCEPT !.allowed = {"t"}], [NoPolicy EXCEPT !.prohibited = {"t"}],
             [NoPolicy EXCEPT !.regions = {"eu"}, !.tls = TRUE], [NoPolicy EXCEPT !.max = 1]}
Configs == {Default, [Default EXCEPT !.rules = {"structure.empty-boundary"}], [Default EXCEPT !.rules = {"none"}],
            [Default EXCEPT !.profile = "none"], [Default EXCEPT !.overrides = "policy.region" :> "info"],
            [Default EXCEPT !.parameters = "policy.region" :> "true"],
            [Default EXCEPT !.rules = {}, !.overrides = "configuration.backups" :> "low"]}
PolicyContexts ==
    {Context([ir |-> Document(<<Node([technology |-> t] @@ InRegion(r)),
                                Node([kind |-> "client"])>>,
                              11 :> Connection([kind |-> kind, encrypted |-> e, config |-> Stated("tls", s)])),
              policy |-> policy, config |-> config, crashing |-> crashing]) :
        t \in {None, "t", "u"}, r \in {None, "unknown", "eu", "us"}, e \in BOOLEAN, s \in BOOLEAN \cup {None},
        kind \in {"request", "dependency"}, policy \in Policies, config \in {Default},  crashing \in {{}, {"policy.region"}}}
    \cup
    {Context([ir |-> Document(<<Node([technology |-> "t", config |-> [region |-> "us"]])>>, <<>>), policy |-> policy, config |-> config]) :
        policy \in Policies, config \in Configs}

Requirement(f) == f @@ [version |-> 1, status |-> "active", priority |-> "high", scope |-> "system", category |-> "none",
                        constraint |-> [metric |-> "latency"]]
Quantity(metric, operator, low) == [metric |-> metric, operator |-> operator, low |-> low, high |-> low + 1]
Operators == {"range", "at_least", "more_than", "at_most", "less_than", "exactly"}

VerdictContexts ==
    {Context([ir |-> Document(<<Node([kind |-> "database", parent |-> 3] @@ InRegion(r1)),
                                Node(InRegion(r2)),
                                Node([kind |-> "boundary"] @@ InRegion(r3))>>, <<>>),
              requirements |-> <<Requirement([scope |-> scope, category |-> category, constraint |-> [metric |-> "regions", values |-> {"eu"}]])>>]) :
        r1 \in {None, "unknown", "eu", "us"}, r2 \in {None, "eu"}, r3 \in {None, "unknown", "eu", "us"},
        scope \in {"system", "database", "queue"}, category \in {"none", "data_residency"}}
    \cup
    {Context([ir |-> Document(<<Node([kind |-> "database", config |-> Stated(p, v1)]), Node([kind |-> "database", config |-> Stated(p, v2)]),
                                Node([kind |-> "queue", unknown |-> unknown])>>, <<>>),
              requirements |-> <<Requirement([scope |-> scope, priority |-> "critical",
                                  constraint |-> Quantity(IF p = "storage_bytes" THEN "storage" ELSE "retention", o, IF p = "storage_bytes" THEN 2 ELSE 1000)])>>]) :
        p \in {"storage_bytes", "retention_seconds"}, v1 \in {None, 0, 1, 2}, v2 \in {None, 1, 2}, o \in Operators,
        scope \in {"system", "database", "service"}, unknown \in {{}, {"retention_seconds"}}}
    \cup
    {Context([ir |-> Document(<<Node(<<>>), Node(<<>>)>>, <<>> @@ (11 :> Connection([config |-> Stated("tls", s1), encrypted |-> e1]))
                                @@ (12 :> Connection([kind |-> kind, config |-> Stated("tls", s2), encrypted |-> e2]))),
              requirements |-> <<Requirement([status |-> status, constraint |-> [metric |-> "in_transit"]])>>]) :
        s1 \in BOOLEAN \cup {None}, s2 \in BOOLEAN \cup {None}, e1 \in BOOLEAN, e2 \in BOOLEAN, kind \in {"request", "dependency"},
        status \in {"active", "draft", "satisfied"}}

\* Nodes and the document refer to requirements that are there, drafts or gone.
TraceContexts ==
    {Context([ir |-> [Document(<<Node([refs |-> refs1]), Node([kind |-> "client", refs |-> refs2])>>, 11 :> Connection(<<>>)) EXCEPT !.refs = refs],
              requirements |-> <<Requirement([version |-> 2]), Requirement([status |-> status])>>]) :
        refs1 \in SUBSET {<<1, 1>>, <<1, None>>, <<2, 1>>, <<3, None>>}, refs2 \in {{}, {<<1, 2>>}, {<<4, None>>}},
        refs \in {{}, {<<3, None>>, <<4, 1>>}}, status \in {"draft", "active"}}

ComponentContexts ==
    {Context([ir |-> Document(<<Node([kind |-> "database", component |-> component, config |-> Stated("replicas", r)]), Node([kind |-> "client"])>>,
                              11 :> Connection(<<>>)),
              catalog |-> [a |-> [status |-> status, kinds |-> {kind}, required |-> {"replicas", "engine"},
                                  constraints |-> <<Constraints!Plain, [Constraints!Plain EXCEPT !.severity = "critical", !.limit = 2]>>],
                           b |-> None]]) :
        component \in {None, "a", "b"}, r \in {None, 1, 2, 3}, status \in {"supported", "deprecated", "planned"}, kind \in {"database", "cache"}}

Contexts == CallContexts \cup SettingContexts \cup PolicyContexts \cup VerdictContexts \cup TraceContexts \cup ComponentContexts
=============================================================================
