----------------------------- MODULE DriftEngine -----------------------------
(***************************************************************************)
(* engines/drift: a baseline revision compared with a discovery run.       *)
(* First whether the two can be compared, then which elements are the      *)
(* same, then where they differ and how far the evidence for it goes.      *)
(*                                                                         *)
(* A node of an accepted discovery has the key of its entity as its id, a  *)
(* connection the id of its relationship.  A place is an artifact and a    *)
(* position in it.  Texts are present or absent.                           *)
(***************************************************************************)
EXTENDS Naturals, FiniteSets, Sequences, SequencesExt, FiniteSetsExt, TLC

CONSTANT None

SourceType == {"kubernetes", "docker_compose", "terraform_json", "architecture_json"}
IMAGE_SOURCES == {"kubernetes", "docker_compose"}
SHARED_RULES == {"discovery-catalog", "discovery-configuration", "discovery-relationships", "discovery-proposal"}
SOURCE_RULES ==
    "kubernetes-kinds" :> "kubernetes" @@ "compose-kinds" :> "docker_compose"
    @@ "terraform-kinds" :> "terraform_json" @@ "architecture-json" :> "architecture_json"
CONFIDENT == {"exact_match", "mapped"}
IR_SCHEMA_VERSION == 2
RESULT_VERSION == 1

\* One pair of properties that a workload declares, and that must agree, and
\* one that a database does.
Properties == {"cpu_request_cores", "cpu_limit_cores", "instance_class"}
DECLARABLE(type) ==
    CASE type \in IMAGE_SOURCES      -> {"cpu_request_cores", "cpu_limit_cores"}
      [] type = "terraform_json"     -> {"instance_class"}
      [] type = "architecture_json"  -> Properties

Outcomes == <<"compatible", "compatible_with_warnings", "partially_comparable", "cannot_determine", "incompatible">>
worst(outcomes) == Outcomes[Max({i \in DOMAIN Outcomes : Outcomes[i] \in outcomes})]

-----------------------------------------------------------------------------
(* sources.py and identity.py.                                              *)

\* A person's provenance names no source type.
discovered_from(e) ==
    IF e.provenance = None \/ e.provenance.reference = None \/ e.provenance.actor \notin SourceType
    THEN None
    ELSE [type |-> e.provenance.actor, artifact |-> e.provenance.reference[1], reference |-> e.provenance.reference]

Components(run) == {k \in DOMAIN run.entities : run.entities[k].role = "component"}
coverage_of(run) ==
    LET Read(as) == {a \in DOMAIN run.artifacts : run.artifacts[a].status \in as}
    IN [inspected |-> Read({"parsed"}), partial |-> Read({"partial"}), unread |-> Read({"unsupported", "failed"}),
        unresolved |-> \/ run.unsupported \/ run.errors
                       \/ \E k \in Components(run) : run.entities[k].mapping.status \notin CONFIDENT
                       \/ \E r \in DOMAIN run.relationships : run.relationships[r].target = None]
Complete(coverage) == coverage.partial = {} /\ coverage.unread = {} /\ ~coverage.unresolved

\* The latest confirmation of a node counts; a retracted one maps to nothing.
current(confirmed) ==
    LET Latest(n) == confirmed[Max({i \in DOMAIN confirmed : confirmed[i].node = n})].key
        named     == {confirmed[i].node : i \in DOMAIN confirmed}
    IN [n \in {m \in named : Latest(m) # None} |-> Latest(n)]

-----------------------------------------------------------------------------
(* compatibility.py: assess.                                                *)

Schema(b) == IF b.schema = IR_SCHEMA_VERSION THEN "compatible"
             ELSE IF b.schema < IR_SCHEMA_VERSION THEN "compatible_with_warnings" ELSE "incompatible"
ResultVersion(run) == IF run.version = RESULT_VERSION THEN "compatible" ELSE "incompatible"

affected(changed) ==
    {SOURCE_RULES[n] : n \in changed \cap DOMAIN SOURCE_RULES} \cup (changed \cap SourceType)

\* The outcome, and the source types that are not comparable.
Versions(b, run, read) ==
    LET changed == {n \in DOMAIN b.source \cap DOMAIN run.extractors : b.source[n] # run.extractors[n]}
    IN IF b.source = None THEN <<"compatible_with_warnings", {}>>
       ELSE IF changed = {} THEN <<"compatible", {}>>
       ELSE IF changed \cap SHARED_RULES # {} THEN <<"incompatible", read>>
       ELSE <<IF read # {} /\ read \subseteq affected(changed) THEN "incompatible" ELSE "partially_comparable",
              affected(changed)>>

SourceTypes(origins, read) ==
    LET wanted == {o.type : o \in origins}
    IN IF origins = {} THEN "compatible_with_warnings"
       ELSE IF wanted \cap read = {} THEN "incompatible"
       ELSE IF wanted \subseteq read THEN "compatible" ELSE "partially_comparable"

SourceCoverage(coverage) ==
    IF coverage.inspected = {} /\ coverage.partial = {} THEN "incompatible"
    ELSE IF coverage.partial # {} \/ coverage.unread # {} THEN "partially_comparable"
    ELSE IF Complete(coverage) THEN "compatible" ELSE "compatible_with_warnings"

\* Identifiers of every entity count here, whatever its role.
Identity(b, run, mappings) ==
    LET Shared(n) == n \in DOMAIN run.entities \/ (n \in DOMAIN mappings /\ mappings[n] \in DOMAIN run.entities)
    IN IF DOMAIN b.nodes # {} /\ ~ \E n \in DOMAIN b.nodes : Shared(n) THEN "cannot_determine" ELSE "compatible"

Freshness(b, run) ==
    IF b.latest > b.number \/ run.requested < b.created THEN "compatible_with_warnings" ELSE "compatible"

Origins(b) ==
    {discovered_from(e) : e \in {b.nodes[n] : n \in DOMAIN b.nodes} \cup {b.connections[c] : c \in DOMAIN b.connections}}
        \ {None}

assess(b, run, mappings) ==
    LET coverage    == coverage_of(run)
        read        == {run.artifacts[a].type : a \in coverage.inspected \cup coverage.partial}
        origins     == Origins(b)
        uninspected == {o.artifact : o \in origins} \ coverage.inspected
        versions    == Versions(b, run, read)
    IN [checks |-> [ir_schema |-> Schema(b), discovery_result |-> ResultVersion(run),
                    extractor_versions |-> versions[1], source_types |-> SourceTypes(origins, read),
                    source_coverage |-> SourceCoverage(coverage),
                    artifact_coverage |-> IF uninspected = {} THEN "compatible" ELSE "partially_comparable",
                    identity |-> Identity(b, run, mappings), freshness |-> Freshness(b, run)],
        coverage |-> coverage, not_comparable |-> versions[2], uninspected |-> uninspected]

Status(assessment) == worst({assessment.checks[d] : d \in DOMAIN assessment.checks})

-----------------------------------------------------------------------------
(* matching.py.                                                             *)

NodeMatch(baseline, key, method, candidates, reason) ==
    [baseline |-> baseline, key |-> key, method |-> method, candidates |-> candidates, reason |-> reason]

\* What a node claims: the entity of its own id before the one of its mapping.
Claim(n, keys, mappings) ==
    IF n \in keys THEN n
    ELSE IF n \in DOMAIN mappings /\ mappings[n] \in keys THEN mappings[n] ELSE None

match_nodes(b, run, mappings, excluded) ==
    LET keys  == Components(run) \ excluded
        nodes == DOMAIN b.nodes \ excluded
        Claimants(k) == {n \in nodes : Claim(n, keys, mappings) = k}
        free  == {k \in keys : Claimants(k) = {}}
        alone == {n \in nodes : Claim(n, keys, mappings) = None}
        lost  == alone \cap DOMAIN mappings
        Near(n) == LET from == discovered_from(b.nodes[n])
                   IN IF n \in alone \ lost /\ from # None
                      THEN {k \in free : run.entities[k].place = from.reference} ELSE {}
        Far(k)  == {n \in nodes : k \in Near(n)}
        Single(k) == LET n == CHOOSE m \in Claimants(k) : TRUE
                     IN {NodeMatch(n, k, IF n = k THEN "same_id" ELSE "confirmed_mapping", {}, FALSE)}
        Several(k) == {NodeMatch(n, None, "ambiguous", {k}, TRUE) : n \in Claimants(k)}
                          \cup {NodeMatch(None, k, "ambiguous", Claimants(k), TRUE)}
    IN UNION {IF Cardinality(Claimants(k)) = 1 THEN Single(k) ELSE Several(k) : k \in keys \ free}
       \cup {IF Near(n) # {} THEN NodeMatch(n, None, "ambiguous", Near(n), TRUE)
             ELSE NodeMatch(n, None, "unmatched", {}, n \in lost) : n \in alone}
       \cup {IF Far(k) # {} THEN NodeMatch(None, k, "ambiguous", Far(k), TRUE)
             ELSE NodeMatch(None, k, "unmatched", {}, FALSE) : k \in free}

Matched(m) == m.method \in {"same_id", "confirmed_mapping", "signature"}
baseline_of(nodes) ==
    LET Of(k) == {m \in nodes : Matched(m) /\ m.key = k}
    IN [k \in {m.key : m \in {x \in nodes : Matched(x)}} |-> (CHOOSE m \in Of(k) : TRUE).baseline]

\* A reference to a service is followed to the workload it selects.
service_routes(run, rels) ==
    LET selects == {r \in rels : run.relationships[r].target # None /\ run.relationships[r].selector
                                 /\ run.entities[run.relationships[r].source].role = "routing"}
        Of(k) == CHOOSE r \in selects : run.relationships[r].source = k
    IN [k \in {run.relationships[r].source : r \in selects} |-> run.relationships[Of(k)].target]

endpoints(run, rels) ==
    LET routes == service_routes(run, rels)
        To(r) == LET t == run.relationships[r].target
                 IN IF t = None \/ run.entities[t].role # "routing" THEN t
                    ELSE IF t \in DOMAIN routes THEN routes[t] ELSE None
        joined == {r \in rels : {run.relationships[r].source, To(r)} \subseteq Components(run)}
    IN [r \in joined |-> <<run.relationships[r].source, To(r)>>]

ConnectionMatch(baseline, rels, method, pair, candidates) ==
    [baseline |-> baseline, relationships |-> rels, method |-> method, pair |-> pair, candidates |-> candidates]

Pair(c) == <<c.source_id, c.target_id>>

\* The connections of the baseline, in the order of the document: what an
\* earlier one of the same endpoints and kind took is gone.
baseline_side(b, run, connections, pair_of) ==
    LET Conn(c)  == b.connections[c]
        same     == {c \in connections : c \in DOMAIN pair_of /\ pair_of[c] = Pair(Conn(c))}
        rest     == connections \ same
        Group(c) == {r \in DOMAIN pair_of \ same : pair_of[r] = Pair(Conn(c))}
        Siblings(c) == {d \in rest : Pair(Conn(d)) = Pair(Conn(c))}
        Taken(c) == \E d \in Siblings(c) : Conn(d).kind = Conn(c).kind /\ Conn(d).at < Conn(c).at
        Chosen(c) == IF Siblings(c) = {c} THEN Group(c)
                     ELSE IF Taken(c) THEN {} ELSE {r \in Group(c) : run.relationships[r].kind = Conn(c).kind}
        Unknown(c) == {r \in Group(c) : run.relationships[r].kind = None}
    IN {ConnectionMatch(c, {c}, "same_id", Pair(Conn(c)), {}) : c \in same}
       \cup {IF Chosen(c) # {} THEN ConnectionMatch(c, Chosen(c), "signature", Pair(Conn(c)), {})
             ELSE IF Unknown(c) # {} THEN ConnectionMatch(c, {}, "ambiguous", Pair(Conn(c)), Unknown(c))
             ELSE ConnectionMatch(c, {}, "unmatched", Pair(Conn(c)), {}) : c \in rest}

match_connections(b, run, nodes, excluded) ==
    LET ends     == endpoints(run, DOMAIN run.relationships \ excluded)
        of       == baseline_of(nodes)
        inside   == {r \in DOMAIN ends : {ends[r][1], ends[r][2]} \subseteq DOMAIN of}
        pair_of  == [r \in inside |-> <<of[ends[r][1]], of[ends[r][2]]>>]
        sides    == baseline_side(b, run, DOMAIN b.connections \ excluded, pair_of)
        taken    == UNION {m.relationships \cup m.candidates : m \in sides}
        Known(k) == IF k \in DOMAIN of THEN of[k] ELSE k
        outside  == [r \in DOMAIN ends \ inside |-> <<Known(ends[r][1]), Known(ends[r][2])>>]
        Added(pairs, left) ==
            {ConnectionMatch(None, {r \in left : pairs[r] = p}, "unmatched", p, {}) : p \in {pairs[r] : r \in left}}
    IN sides \cup Added(pair_of, inside \ taken) \cup Added(outside, DOMAIN outside)

-----------------------------------------------------------------------------
(* comparison.py.                                                           *)

Difference(type, element, subject) ==
    [type |-> type, element |-> element, subject |-> subject, path |-> None, baseline |-> None, key |-> None,
     stated |-> FALSE, redacted |-> FALSE, evidence |-> FALSE, locations |-> {}, reference |-> None,
     source |-> None, artifact |-> None, inferred |-> FALSE, candidates |-> {}, notes |-> FALSE]

\* A rule that relates two properties stands for the validity of a node.
Fits(values) ==
    {"cpu_request_cores", "cpu_limit_cores"} \subseteq DOMAIN values
        => values["cpu_request_cores"] <= values["cpu_limit_cores"]

\* A stated value that discovery could not read is None.
ComparedProperties(node, entity) ==
    (DOMAIN node.values \cup DOMAIN entity.configuration) \cap DECLARABLE(entity.type)
UnreadProperties(node, entity) ==
    {p \in ComparedProperties(node, entity) \cap DOMAIN entity.configuration : entity.configuration[p] = None}
\* What the source type cannot state stays, and what it could not be read of.
DeclaredValues(node, entity) ==
    LET read == {p \in ComparedProperties(node, entity) \cap DOMAIN entity.configuration : entity.configuration[p] # None}
        kept == DOMAIN node.values \ (ComparedProperties(node, entity) \ UnreadProperties(node, entity))
    IN [p \in read \cup kept |-> IF p \in read THEN entity.configuration[p] ELSE node.values[p]]
DeclaredTechnology(node, entity) ==
    IF entity.technology = None THEN node.technology
    ELSE [name |-> entity.technology.name,
          version |-> IF entity.technology.version = None /\ node.technology # None
                      THEN node.technology.version ELSE entity.technology.version]
\* The configuration is a new one: preserved and unknown settings are not in it.
declared(node, entity) ==
    [node EXCEPT !.kind = IF entity.kind = None THEN @ ELSE entity.kind,
                 !.component = IF entity.mapping.status \in CONFIDENT THEN entity.mapping.component ELSE @,
                 !.technology = DeclaredTechnology(node, entity),
                 !.values = DeclaredValues(node, entity), !.unknown = {}, !.extra = {}]

Paths == {"kind", "component", "technology.name", "technology.version", "configuration.unknown",
          "configuration.extra.note", "configuration.extra.password"} \cup Properties
Field(node, path) ==
    CASE path = "kind"               -> node.kind
      [] path = "component"          -> node.component
      [] path = "technology.name"    -> IF node.technology = None THEN None ELSE node.technology.name
      [] path = "technology.version" -> IF node.technology = None THEN None ELSE node.technology.version
      [] path \in Properties         -> IF path \in DOMAIN node.values THEN node.values[path] ELSE None
      [] path = "configuration.unknown" -> IF node.unknown = {} THEN None ELSE node.unknown
      [] OTHER                       -> IF path \in node.extra THEN path ELSE None
Settings == Properties \cup {"configuration.unknown", "configuration.extra.note", "configuration.extra.password"}
is_secret_path(path) == path = "configuration.extra.password"

TypeOf(path) ==
    CASE path \in Properties -> "resource_changed"
      [] path \in Settings \ Properties -> "configuration_changed"
      [] path = "component"  -> "mapping_changed"
      [] OTHER               -> "component_modified"

node_differences(n, node, k, entity) ==
    LET now == declared(node, entity)
        On(type) == [Difference(type, "node", <<"node", n>>) EXCEPT !.baseline = n, !.key = k, !.evidence = TRUE, !.source = entity.type]
        Change(path) ==
            [On(TypeOf(path)) EXCEPT
               !.path = path, !.stated = Field(now, path) # None /\ ~is_secret_path(path), !.redacted = is_secret_path(path),
               !.locations = {entity.place},
               !.reference = IF discovered_from(node) = None THEN None ELSE discovered_from(node).reference,
               !.inferred = \/ path = "kind" /\ entity.inferred
                            \/ path = "component" /\ entity.mapping.status = "mapped" /\ entity.type \in IMAGE_SOURCES,
               !.notes = path \in Settings /\ Field(now, path) = None]
    IN IF ~Fits(DeclaredValues(node, entity)) THEN {[On("unresolved_difference") EXCEPT !.notes = TRUE]}
       ELSE {[On("unresolved_difference") EXCEPT !.path = p, !.notes = TRUE] : p \in UnreadProperties(node, entity)}
            \cup {Change(path) : path \in {p \in Paths : Field(node, p) # Field(now, p)}}

missing_node(n, node, match) ==
    LET from == discovered_from(node)
        gone == [Difference("component_removed", "node", <<"node", n>>) EXCEPT !.baseline = n, !.notes = match.reason]
    IN IF from = None THEN gone
       ELSE [gone EXCEPT !.reference = from.reference, !.artifact = from.artifact, !.source = from.type]

added_node(k, entity) ==
    [Difference("component_added", "node", <<"node", k>>) EXCEPT
       !.key = k, !.stated = entity.kind # None, !.evidence = TRUE, !.locations = {entity.place}, !.source = entity.type,
       !.notes = entity.kind = None]

\* The baseline node that has the id of the entity states the same ambiguity.
ambiguous_nodes_bothSides(b, run, matches) ==
    {[Difference("unresolved_difference", "node", <<"node", IF m.baseline # None THEN m.baseline ELSE m.key>>) EXCEPT
        !.baseline = m.baseline, !.key = m.key, !.candidates = m.candidates, !.notes = TRUE,
        !.source = IF m.key = None THEN None ELSE run.entities[m.key].type, !.evidence = m.key # None] :
     m \in {x \in matches : x.method = "ambiguous"}}
ambiguous_nodes(b, run, matches) ==
    {[Difference("unresolved_difference", "node", <<"node", IF m.baseline # None THEN m.baseline ELSE m.key>>) EXCEPT
        !.baseline = m.baseline, !.key = m.key, !.candidates = m.candidates, !.notes = TRUE,
        !.source = IF m.key = None THEN None ELSE run.entities[m.key].type, !.evidence = m.key # None] :
     m \in {x \in matches : x.method = "ambiguous" /\ (x.baseline # None \/ x.key \notin DOMAIN b.nodes)}}

node_side(b, run, matches) ==
    LET With(method) == {m \in matches : m.method = method}
    IN UNION {node_differences(m.baseline, b.nodes[m.baseline], m.key, run.entities[m.key]) : m \in {x \in matches : Matched(x)}}
       \cup ambiguous_nodes(b, run, matches)
       \cup {missing_node(m.baseline, b.nodes[m.baseline], m) : m \in {x \in With("unmatched") : x.baseline # None}}
       \cup {added_node(m.key, run.entities[m.key]) : m \in {x \in With("unmatched") : x.baseline = None}}

FirstOf(rels) == CHOOSE r \in rels : TRUE
connection_difference(b, run, m, matched_nodes) ==
    LET rels   == run.relationships
        stated == {rels[r].kind : r \in m.relationships} \ {None}
        from   == IF m.relationships = {} THEN None
                  ELSE run.entities[rels[FirstOf(m.relationships)].source].type
        Found(d) == [d EXCEPT !.evidence = TRUE, !.locations = {rels[r].place : r \in m.relationships}, !.source = from]
        On(type) == [Difference(type, "connection", <<"connection", m.baseline>>) EXCEPT !.baseline = m.baseline]
    IN IF m.baseline = None
       THEN {Found([Difference("connection_added", "connection", <<"connection">> \o m.pair) EXCEPT
                      !.key = FirstOf(m.relationships), !.stated = stated # {}, !.notes = stated = {}])}
       ELSE LET c == b.connections[m.baseline]
                origin == discovered_from(c)
            IN IF Matched(m)
               THEN IF stated = {} \/ c.kind \in stated THEN {}
                    ELSE {Found([On("connection_modified") EXCEPT !.path = "kind", !.key = FirstOf(m.relationships), !.stated = TRUE])}
               ELSE IF m.method = "ambiguous"
               THEN {[On("unresolved_difference") EXCEPT !.candidates = m.candidates, !.notes = TRUE]}
               ELSE {[On("connection_removed") EXCEPT
                        !.reference = IF origin = None THEN None ELSE origin.reference,
                        !.artifact = IF origin = None THEN None ELSE origin.artifact,
                        !.source = IF origin = None THEN None ELSE origin.type,
                        !.notes = ~ {c.source_id, c.target_id} \subseteq matched_nodes]}

differences(b, run, nodes, connections) ==
    LET matched_nodes == {m.baseline : m \in {x \in nodes : Matched(x)}}
    IN node_side(b, run, nodes)
       \cup UNION {connection_difference(b, run, m, matched_nodes) : m \in connections}

-----------------------------------------------------------------------------
(* classification.py.                                                       *)

REMOVED == {"component_removed", "connection_removed"}
ADDED == {"component_added", "connection_added"}
VALUED == {"configuration_changed", "resource_changed", "component_modified", "connection_modified", "mapping_changed"}

Finding(d, classification, limited) ==
    [type |-> d.type, element |-> d.element, subject |-> d.subject, path |-> d.path, baseline |-> d.baseline,
     key |-> d.key, redacted |-> d.redacted, stated |-> d.stated, evidence |-> d.evidence, locations |-> d.locations,
     reference |-> d.reference, classification |-> classification,
     limitations |-> d.notes \/ limited \/ d.candidates # {} \/ classification # "confirmed",
     impact |-> {}, references |-> {}]

removal(d, assessment) ==
    IF d.artifact = None THEN "unknown"
    ELSE IF d.artifact \in assessment.coverage.partial THEN "potential"
    ELSE IF d.artifact \notin assessment.coverage.inspected THEN "unknown"
    ELSE IF d.notes THEN "potential" ELSE "confirmed"

partly_read_unreadOnly(d, assessment) == \E place \in d.locations : place[1] \in assessment.coverage.unread
partly_read(d, assessment) == \E place \in d.locations : place[1] \in assessment.coverage.partial

classify_difference(d, assessment) ==
    LET limited == \/ partly_read(d, assessment)
                   \/ IF d.type \in ADDED THEN assessment.checks.identity # "compatible" ELSE d.inferred
                   \/ d.path # None /\ ~d.stated /\ ~d.redacted
    IN IF d.source \in assessment.not_comparable THEN Finding(d, "not_comparable", TRUE)
       ELSE IF d.type = "unresolved_difference" THEN Finding(d, "unknown", FALSE)
       ELSE IF d.type \in REMOVED THEN Finding(d, removal(d, assessment), removal(d, assessment) # "confirmed")
       ELSE Finding(d, IF limited THEN "potential" ELSE "confirmed", limited)

scope(type, subject, classification) == Finding(Difference(type, "scope", subject), classification, TRUE)
incompatibility(assessment) ==
    {scope("comparison_incompatible", <<"compatibility", d>>, "not_comparable") :
     d \in {x \in DOMAIN assessment.checks : assessment.checks[x] = "incompatible"}}
classify(found, assessment) ==
    {classify_difference(d, assessment) : d \in found}
    \cup {scope("coverage_changed", <<"artifact", a>>, "unknown") : a \in assessment.uninspected}

-----------------------------------------------------------------------------
(* impact.py.                                                               *)

\* Which engines read a property of a component.
Catalog ==
    "c" :> ("cpu_limit_cores" :> {"capacity", "cost"})
    @@ "d" :> ("cpu_limit_cores" :> {"capacity"} @@ "instance_class" :> {"cost"})
STRUCTURE == {"component_added", "component_removed", "component_modified", "mapping_changed"}
CONNECTIONS == {"capacity", "reliability", "security"}

property_engines(p, component) ==
    IF component \in DOMAIN Catalog /\ p \in DOMAIN Catalog[component] THEN Catalog[component][p]
    ELSE UNION {Catalog[c][p] : c \in {x \in DOMAIN Catalog : p \in DOMAIN Catalog[x]}}
relevance(f, b) ==
    IF f.element = "scope" \/ f.classification = "not_comparable" THEN {}
    ELSE IF f.element = "connection" THEN CONNECTIONS
    ELSE IF f.path \in Settings THEN property_engines(f.path, b.nodes[f.baseline].component)
    ELSE IF f.type \in STRUCTURE THEN {"validation"} ELSE {}

\* The stored analyses of the engine, the one to use first.
reference(engine, stored, b) ==
    LET current_ones == SelectSeq(stored, LAMBDA a : a.number = b.number /\ a.hash = b.hash)
        Ref(state, a) == [engine |-> engine, state |-> state, analysis |-> a]
    IN IF current_ones # <<>> THEN Ref("current", current_ones[1].id)
       ELSE IF stored # <<>> THEN Ref("stale", stored[1].id) ELSE Ref("missing", None)
references(b, e) ==
    {<<"requirement", r>> : r \in IF e \in DOMAIN b.nodes THEN b.nodes[e].refs
                                  ELSE IF e \in DOMAIN b.connections THEN b.connections[e].refs ELSE {}}
    \cup {<<"decision", d>> : d \in {x \in DOMAIN b.decisions : e \in b.decisions[x]}}
contextualize(findings, b, evidence) ==
    {[f EXCEPT !.impact = {reference(e, IF e \in DOMAIN evidence THEN evidence[e] ELSE <<>>, b) : e \in relevance(f, b)},
               !.references = IF f.element = "scope" THEN {} ELSE references(b, f.baseline)] : f \in findings}

-----------------------------------------------------------------------------
(* engine.py and analyses.py.                                               *)

has_warnings(assessment, findings) ==
    \/ Status(assessment) # "compatible" \/ ~Complete(assessment.coverage)
    \/ \E f \in findings : f.classification # "confirmed"
finish(assessment, findings) ==
    IF Status(assessment) = "incompatible" THEN "incompatible_inputs"
    ELSE IF has_warnings(assessment, findings) THEN "completed_with_warnings" ELSE "completed"

Result(assessment, findings) ==
    [assessment |-> assessment, findings |-> findings, status |-> finish(assessment, findings)]
Incompatible(assessment) == Result(assessment, incompatibility(assessment))
Matching(input, assessment) ==
    LET nodes == match_nodes(input.baseline, input.run, current(input.confirmed), input.exclude)
    IN [assessment |-> assessment, nodes |-> nodes,
        connections |-> match_connections(input.baseline, input.run, nodes, input.exclude)]
Compared(input, matching) ==
    LET found == differences(input.baseline, input.run, matching.nodes, matching.connections)
    IN Result(matching.assessment,
              contextualize(classify(found, matching.assessment), input.baseline, input.evidence))

\* What the result and its findings are refused for.
FindingLegal(f) ==
    /\ f.type \in REMOVED => f.baseline # None
    /\ f.type \in ADDED => f.key # None
    /\ f.type \in VALUED => f.path # None
    /\ f.redacted => ~f.stated
    /\ f.classification = "confirmed" => f.evidence \/ f.reference # None
    /\ f.classification # "confirmed" => f.limitations
    /\ \A i \in f.impact : (i.state = "missing") = (i.analysis = None)
ResultLegal(result) ==
    /\ \A f \in result.findings : FindingLegal(f)
    /\ \A f, g \in result.findings : <<f.type, f.subject, f.path>> = <<g.type, g.subject, g.path>> => f = g
    /\ result.status = "incompatible_inputs" => \A f \in result.findings : f.classification = "not_comparable"

-----------------------------------------------------------------------------
(* Inputs.                                                                  *)

Nothing == [x \in {} |-> x]
Entity(type, place) ==
    [type |-> type, role |-> "component", place |-> place, kind |-> "service", inferred |-> FALSE,
     mapping |-> [status |-> "exact_match", component |-> "c"], technology |-> None, configuration |-> Nothing]
Routing(place) ==
    [Entity("kubernetes", place) EXCEPT !.role = "routing", !.kind = None,
                                        !.mapping = [status |-> "unmapped", component |-> None]]
\* The node an entity is accepted as.
Accepted(e) ==
    [provenance |-> [actor |-> e.type, reference |-> e.place], kind |-> e.kind, component |-> e.mapping.component,
     technology |-> e.technology, values |-> e.configuration, unknown |-> {}, extra |-> {}, refs |-> {}]
Personal(element) == [element EXCEPT !.provenance = [actor |-> "person", reference |-> None]]

Extractors == [n \in {"kubernetes", "terraform_json", "kubernetes-kinds", "discovery-catalog"} |-> 1]
Artifact(type, status) == [type |-> type, status |-> status]
OneArtifact == "a" :> Artifact("kubernetes", "parsed")
Baseline(nodes, connections) ==
    [nodes |-> nodes, connections |-> connections, decisions |-> Nothing, schema |-> 2, number |-> 1, latest |-> 1,
     created |-> 1, hash |-> "h", source |-> Extractors]
Run(artifacts, entities, relationships) ==
    [artifacts |-> artifacts, entities |-> entities, relationships |-> relationships, extractors |-> Extractors,
     version |-> 1, requested |-> 1, unsupported |-> FALSE, errors |-> FALSE]
Input(baseline, run) ==
    [baseline |-> baseline, run |-> run, confirmed |-> <<>>, exclude |-> {}, evidence |-> Nothing, confirmations |-> 0]

P == Entity("kubernetes", <<"a", 1>>)
Q == Entity("terraform_json", <<"b", 1>>)
OnlyP == "p" :> P

\* What was read, with which versions.
Statuses == {"parsed", "partial", "unsupported", "failed"}
CoverageInputs ==
    {LET all  == "a" :> Artifact("kubernetes", s[1]) @@ "b" :> Artifact("terraform_json", s[2])
         arts == [x \in {y \in DOMAIN all : all[y].status # None} |-> all[x]]
         keys == {k \in {"p", "q"} : s[IF k = "p" THEN 1 ELSE 2] \in {"parsed", "partial"}}
         ents == [k \in keys |-> IF k = "p" THEN P ELSE Q]
         run  == [Run(arts, ents, Nothing) EXCEPT !.extractors = [x \in DOMAIN Extractors |-> IF x = changed THEN 2 ELSE 1]]
     IN Input([Baseline(nodes, Nothing) EXCEPT !.source = IF changed = None THEN None ELSE @], run) :
     s \in (Statuses \cup {None}) \X (Statuses \cup {None}),
     changed \in DOMAIN Extractors \cup {None, "none"},
     nodes \in {"p" :> Accepted(P), "p" :> Accepted(P) @@ "q" :> Accepted(Q),
                "p" :> Personal(Accepted(P)) @@ "q" :> Personal(Accepted(Q))}}
VersionInputs ==
    {Input([Baseline("p" :> Accepted(P), Nothing) EXCEPT !.schema = schema, !.latest = latest, !.created = created],
           [Run(OneArtifact, OnlyP, Nothing) EXCEPT !.version = version, !.unsupported = unsupported, !.errors = errors]) :
     schema \in 1 .. 3, latest \in {1, 2}, created \in {1, 2}, version \in {1, 2},
     unsupported \in BOOLEAN, errors \in BOOLEAN}

\* Who is who: nodes and entities at two places, and what a person confirms.
IdentityInputs ==
    {LET places == <<<<"a", 1>>, <<"a", 2>>>>
         Stands(i) == IF i = 3 THEN Personal(Accepted(P)) ELSE Accepted(Entity("kubernetes", places[i]))
         ns == "p" :> n[1] @@ "q" :> n[2]
         es == "p" :> e[1] @@ "r" :> e[2]
         nodes == [x \in {y \in DOMAIN ns : ns[y] # 0} |-> Stands(ns[x])]
         ents  == [x \in {y \in DOMAIN es : es[y] # 0} |-> IF es[x] = 3 THEN Routing(<<"a", 3>>) ELSE Entity("kubernetes", places[es[x]])]
     IN [Input(Baseline(nodes, Nothing), Run(OneArtifact, ents, Nothing)) EXCEPT !.exclude = exclude, !.confirmations = 2] :
     n \in (0 .. 3) \X {0, 1, 3}, e \in {0, 1, 3} \X (0 .. 2), exclude \in {{}, {"p"}}}

\* Which reference is which connection.
Relationship(target, kind) ==
    [source |-> "p", target |-> target, kind |-> kind, selector |-> FALSE, place |-> <<"a", 1>>]
Link(kind, at) ==
    [source_id |-> "p", target_id |-> "q", kind |-> kind, at |-> at, refs |-> {},
     provenance |-> [actor |-> "kubernetes", reference |-> <<"a", 1>>]]
ConnectionInputs ==
    {LET q2   == Entity("kubernetes", <<"a", 2>>)
         all  == "c1" :> r[1] @@ "r2" :> r[2]
         To(t) == IF t = "other" THEN other ELSE IF t = "service" THEN "s" ELSE None
         rels == [x \in {y \in DOMAIN all : all[y] # None} |-> Relationship(To(all[x][1]), all[x][2])]
         run  == Run(OneArtifact, "p" :> P @@ other :> q2 @@ "s" :> Routing(<<"a", 3>>),
                     rels @@ "s1" :> [Relationship(other, None) EXCEPT !.source = "s", !.selector = TRUE])
     IN [Input(Baseline("p" :> Accepted(P) @@ "q" :> Accepted(q2), links), run) EXCEPT !.exclude = exclude] :
     r \in LET rs == ({"other", "service"} \X {None, "call", "data"}) \cup {<<"gone", None>>, None} IN rs \X rs,
     other \in {"q", "t"}, exclude \in {{}, {"c1"}},
     links \in {Nothing, "c1" :> Link("call", 1), "c1" :> Personal(Link("data", 1)),
                "c1" :> Link("call", 1) @@ "c2" :> Link("data", 2), "c1" :> Link("call", 1) @@ "c2" :> Link("call", 2)}}

\* What the same node declares.
ValueInputs ==
    UNION {{LET e == [Entity(type, <<"a", 1>>) EXCEPT !.configuration = conf]
            IN Input(Baseline("p" :> [Accepted(e) EXCEPT !.values = values], Nothing),
                     Run("a" :> Artifact(type, status), "p" :> e, Nothing)) :
            conf \in UNION {[S -> {1, 2, None}] : S \in SUBSET DECLARABLE(type)}, status \in {"parsed", "partial"},
            values \in {Nothing, "cpu_request_cores" :> 1, "cpu_request_cores" :> 2 @@ "cpu_limit_cores" :> 2,
                        "instance_class" :> 1, [p \in Properties |-> 1]}} :
           type \in {"kubernetes", "terraform_json", "architecture_json"}}
StructureInputs ==
    {LET e == [P EXCEPT !.kind = kind[1], !.inferred = kind[2], !.mapping = mapping, !.technology = technology]
     IN Input(Baseline("p" :> [Accepted(P) EXCEPT !.technology = had, !.extra = extra, !.unknown = unknown], Nothing),
              Run(OneArtifact, "p" :> e, Nothing)) :
     kind \in {<<None, FALSE>>, <<"service", FALSE>>, <<"database", FALSE>>, <<"database", TRUE>>},
     mapping \in {[status |-> "exact_match", component |-> "c"], [status |-> "exact_match", component |-> "d"],
                  [status |-> "mapped", component |-> "d"],
                  [status |-> "ambiguous", component |-> None]},
     technology \in {None, [name |-> "x", version |-> None], [name |-> "x", version |-> "2"]},
     had \in {None, [name |-> "x", version |-> "1"]},
     extra \in {{}, {"configuration.extra.note"}, {"configuration.extra.note", "configuration.extra.password"}},
     unknown \in {{}, {"instance_class"}}}

\* What the other engines stored about the revision.
Stored(id, number) == [id |-> id, number |-> number, hash |-> "h"]
ImpactInputs ==
    {[Input([Baseline("p" :> [Accepted(P) EXCEPT !.component = component, !.values = "cpu_limit_cores" :> 1, !.refs = {"req"}],
                      Nothing) EXCEPT !.decisions = "adr" :> {"p"}],
            Run(OneArtifact, "p" :> [P EXCEPT !.configuration = "cpu_limit_cores" :> 2,
                                              !.mapping = [status |-> "ambiguous", component |-> None]], Nothing))
        EXCEPT !.evidence = "capacity" :> stored] :
     component \in {None, "c", "d"},
     stored \in {<<>>, <<Stored("x", 1)>>, <<Stored("x", 2)>>, <<Stored("x", 2), Stored("y", 1)>>}}

Inputs ==
    CoverageInputs \cup VersionInputs \cup IdentityInputs \cup ConnectionInputs \cup ValueInputs \cup StructureInputs
    \cup ImpactInputs

-----------------------------------------------------------------------------
(* What a right answer is.                                                  *)

\* Every element of either side has one match, or one reason why it has none;
\* no two are matched to the same one.
Accounted(input, matching) ==
    LET nodes   == matching.nodes
        conns   == matching.connections
        ends    == endpoints(input.run, DOMAIN input.run.relationships \ input.exclude)
        Once(S) == Cardinality(S) = 1
    IN /\ \A n \in DOMAIN input.baseline.nodes \ input.exclude : Once({m \in nodes : m.baseline = n})
       /\ \A k \in Components(input.run) \ input.exclude : Once({m \in nodes : m.key = k})
       /\ \A c \in DOMAIN input.baseline.connections \ input.exclude : Once({m \in conns : m.baseline = c})
       /\ \A r \in DOMAIN ends : /\ Cardinality({m \in conns : r \in m.relationships}) <= 1
                                 /\ \E m \in conns : r \in m.relationships \cup m.candidates
       /\ \A m \in nodes \cup conns : m.baseline \notin input.exclude

\* A person reviews one item for each subject and property: no two findings
\* of a result are about the same.
OneItemEach(result) ==
    \A f, g \in result.findings : <<f.element, f.subject, f.path>> = <<g.element, g.subject, g.path>> => f = g

\* What is confirmed rests on artifacts that were read completely; what is
\* confirmed to be gone is not in the run under any identity known for it.
ConfirmedProven(input, matching, result) ==
    LET inspected == coverage_of(input.run).inspected
        Mine(c) == Pair(input.baseline.connections[c])
        Rels(c) == UNION {m.relationships : m \in {x \in matching.connections : x.pair = Mine(c) /\ x.baseline # c /\ x.baseline # None}}
        Kind(r) == input.run.relationships[r].kind
        Gone(f) ==
            IF f.type = "component_removed"
            THEN /\ f.baseline \notin Components(input.run) \cup DOMAIN current(input.confirmed)
                 /\ \A k \in Components(input.run) \ input.exclude :
                       input.run.entities[k].place = f.reference => \E m \in matching.nodes : m.key = k /\ m.method # "unmatched"
            ELSE \A m \in {x \in matching.connections : x.pair = Mine(f.baseline)} : \A r \in m.relationships \cup m.candidates :
                    r \in Rels(f.baseline) \/ Kind(r) \notin {None, input.baseline.connections[f.baseline].kind}
    IN \A f \in {x \in result.findings : x.classification = "confirmed"} :
          /\ \A place \in f.locations : place[1] \in inspected
          /\ f.type \in REMOVED => f.reference[1] \in inspected /\ Gone(f)

\* A revision that holds what the run declares shows no difference, but for
\* the preserved and the unknown settings, which no source can declare.
Echoes(input) ==
    LET b == input.baseline  run == input.run
    IN /\ input.exclude = {} /\ current(input.confirmed) = <<>>
       /\ DOMAIN b.nodes = Components(run)
       /\ \A n \in DOMAIN b.nodes : [b.nodes[n] EXCEPT !.unknown = {}, !.extra = {}, !.refs = {}] = Accepted(run.entities[n])
       /\ DOMAIN b.connections = {r \in DOMAIN run.relationships : ~run.relationships[r].selector}
       /\ \A c \in DOMAIN b.connections :
             /\ run.relationships[c].kind = b.connections[c].kind /\ c \in DOMAIN endpoints(run, DOMAIN run.relationships)
             /\ endpoints(run, DOMAIN run.relationships)[c] = Pair(b.connections[c])
EchoSilent(input, result) ==
    Echoes(input) /\ Status(result.assessment) # "incompatible" =>
        /\ \A f \in result.findings : f.type = "coverage_changed" \/ f.path \in Settings \ Properties
        /\ (\A n \in DOMAIN input.baseline.nodes : input.baseline.nodes[n].extra = {} /\ input.baseline.nodes[n].unknown = {})
              /\ Status(result.assessment) = "compatible"
           => result.findings = {} /\ result.status = "completed"

DriftSound(input, matching, result) ==
    ResultLegal(result) /\ OneItemEach(result) /\ EchoSilent(input, result)
    /\ (matching # None => Accounted(input, matching) /\ ConfirmedProven(input, matching, result))

=============================================================================
