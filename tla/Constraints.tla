------------------------------ MODULE Constraints ------------------------------
(***************************************************************************)
(* engines/constraints: a node's configuration checked against the         *)
(* specification of the catalog component it refers to.  replicas is a     *)
(* property with numbers, engine one with names; a node's value of a       *)
(* property is stated, marked unknown or not there at all.                 *)
(***************************************************************************)
EXTENDS Naturals, FiniteSets, Sequences, FiniteSetsExt, TLC

CONSTANT None

Universe == [replicas |-> 0 .. 2, engine |-> {"x", "y"}]
Numeric(p) == p = "replicas"

-----------------------------------------------------------------------------
(* What a specification may say.                                            *)

Bounds == {"at_most", "at_least", "between"}
Lists == {"one_of", "not_one_of"}
Advisory == {"recommended_range", "configurable_limit"}

\* Constraint._semantics.
ConstraintLegal(c) ==
    LET stated == {n \in {c.limit, c.minimum, c.maximum} : n # None}
    IN /\ (c.type = "unknown") = (c.comparison = None)
       /\ c.type = "unknown" => stated = {} /\ c.values = {}
       /\ c.comparison \in Bounds => Numeric(c.property) /\ c.values = {}
       /\ c.comparison \in {"at_most", "at_least"} => c.limit # None /\ c.minimum = None /\ c.maximum = None
       /\ c.comparison = "between" =>
             c.limit = None /\ c.minimum # None /\ c.maximum # None /\ c.minimum <= c.maximum
       /\ c.comparison \in Lists => stated = {} /\ c.values # {} /\ c.values \subseteq Universe[c.property]
       /\ c.type = "unsupported_configuration" => c.comparison = "not_one_of"
       /\ (c.type = "conditional_limit") = (c.conditions # <<>>)
       /\ c.type \in Advisory => c.severity \in {"medium", "low", "info"}

-----------------------------------------------------------------------------
(* evaluator.py.                                                            *)

Holds(c, value) ==
    CASE c.comparison = "one_of"     -> value \in c.values
      [] c.comparison = "not_one_of" -> value \notin c.values
      [] c.comparison = "at_most"    -> value <= c.limit
      [] c.comparison = "at_least"   -> value >= c.limit
      [] c.comparison = "between"    -> c.minimum <= value /\ value <= c.maximum

Stated(node, p) == IF p \in node.unknown \/ p \notin DOMAIN node.config THEN None ELSE node.config[p]

ConditionHolds_whenUnstated(node, condition) ==
    Stated(node, condition.property) \in condition.values \cup {None}

\* Condition.holds: None when the value is not stated.
ConditionHolds(node, condition) ==
    LET value == Stated(node, condition.property)
    IN IF value = None THEN None ELSE value \in condition.values

\* Why the constraint cannot be compared here, None when it can: the first
\* condition that does not hold decides.
Precondition(node, c) ==
    LET open == {i \in DOMAIN c.conditions : ConditionHolds(node, c.conditions[i]) # TRUE}
    IN CASE c.type = "unknown"                                       -> "cannot_evaluate"
         [] c.versions # {} /\ node.version = None                   -> "cannot_evaluate"
         [] c.versions # {} /\ node.version \notin c.versions \cup {None} -> "not_applicable"
         [] c.type # "unknown" /\ (c.versions = {} \/ node.version \in c.versions) ->
              IF open = {} THEN None
              ELSE IF ConditionHolds(node, c.conditions[Min(open)]) = None THEN "cannot_evaluate"
              ELSE "not_applicable"

\* The outcome of one constraint on one node.
Evaluated(node, c) ==
    LET blocked == Precondition(node, c)
        value   == Stated(node, c.property)
    IN IF blocked # None THEN blocked
       ELSE IF value = None THEN "cannot_evaluate"
       ELSE IF Holds(c, value) THEN "pass"
       ELSE IF c.type \in Advisory THEN "warning" ELSE "violation"

Finding(check, property, outcome, severity) ==
    [check |-> check, property |-> property, outcome |-> outcome, severity |-> severity]

\* reference(): what is wrong with referring to this specification at all.
ReferenceFindings(node, spec) ==
    IF spec.status = "planned" THEN {Finding(<<"planned", 0>>, None, "cannot_evaluate", None)}
    ELSE {Finding(<<"deprecated", 0>>, None, "warning", "low") : s \in {spec.status} \cap {"deprecated"}}
         \cup IF node.kind \notin spec.kinds THEN {Finding(<<"kind_not_modeled", 0>>, None, "violation", "medium")}
              ELSE {Finding(<<"required_value_missing", 0>>, p, "cannot_evaluate", None) :
                       p \in {q \in spec.required : Stated(node, q) = None}}

Evaluable(node, spec) == spec.status # "planned" /\ node.kind \in spec.kinds

\* Constraints are numbered: the number is the constraint's id.
EvaluateNode(node, spec) ==
    ReferenceFindings(node, spec)
    \cup IF ~ Evaluable(node, spec) THEN {}
         ELSE {LET c == spec.constraints[i]
                   outcome == Evaluated(node, c)
               IN Finding(<<"constraint", i>>, c.property, outcome, IF outcome \in {"warning", "violation"} THEN c.severity ELSE None) :
                  i \in DOMAIN spec.constraints}

NotInCatalog == {Finding(<<"not_in_catalog", 0>>, None, "cannot_evaluate", None)}

\* evaluate_architecture, for one node: None is a component the catalog lacks.
EvaluateReference(node, spec) == IF spec = None THEN NotInCatalog ELSE EvaluateNode(node, spec)

-----------------------------------------------------------------------------
(* What the outcomes mean: the values that are not stated may be anything.  *)

Completions(node) ==
    {v \in [replicas : Universe.replicas, engine : Universe.engine] :
        \A p \in DOMAIN v : Stated(node, p) # None => v[p] = Stated(node, p)}
Versions(node) == IF node.version = None THEN {"14", "15"} ELSE {node.version}

Applies(c, values, version) ==
    /\ c.versions # {} => version \in c.versions
    /\ \A i \in DOMAIN c.conditions : values[c.conditions[i].property] \in c.conditions[i].values

EvaluationSound(node, spec, findings) ==
    spec # None =>
        \A i \in DOMAIN spec.constraints :
            LET c == spec.constraints[i]
                of == {f \in findings : f.check = <<"constraint", i>>}
            IN /\ Cardinality(of) = IF Evaluable(node, spec) THEN 1 ELSE 0
               /\ \A f \in of, values \in Completions(node), version \in Versions(node) :
                     /\ f.outcome = "pass" => Applies(c, values, version) /\ Holds(c, values[c.property])
                     /\ f.outcome \in {"warning", "violation"} =>
                           Applies(c, values, version) /\ ~ Holds(c, values[c.property])
                     /\ f.outcome = "not_applicable" => ~ Applies(c, values, version)
                     /\ f.outcome = "warning" => f.severity \notin {"critical", "high"}

-----------------------------------------------------------------------------
(* Inputs.                                                                  *)

Plain == [type |-> "hard_limit", property |-> "replicas", comparison |-> "at_most", limit |-> 1,
          minimum |-> None, maximum |-> None, values |-> {}, conditions |-> <<>>, versions |-> {}, severity |-> "medium"]

On(p, vs) == [property |-> p, values |-> vs]

ConstraintInputs ==
    {c \in {[Plain EXCEPT !.type = t[1], !.comparison = t[2], !.limit = t[3], !.minimum = t[4], !.maximum = t[4],
                          !.values = t[5], !.property = t[6], !.conditions = conditions, !.versions = versions,
                          !.severity = t[7]] :
              t \in {<<"hard_limit", "at_most", 1, None, {}, "replicas", "high">>,
                     <<"recommended_range", "between", None, 1, {}, "replicas", "low">>,
                     <<"configurable_limit", "at_least", 2, None, {}, "replicas", "critical">>,
                     <<"conditional_limit", "at_least", 1, None, {}, "replicas", "high">>,
                     <<"unsupported_configuration", "not_one_of", None, None, {"x"}, "engine", "high">>,
                     <<"conditional_limit", "one_of", None, None, {"x"}, "engine", "medium">>,
                     <<"unknown", None, None, None, {}, "engine", "info">>},
              conditions \in {<<>>, <<On("engine", {"x"})>>, <<On("replicas", {0, 1}), On("engine", {"y"})>>},
              versions \in {{}, {"14"}}} : ConstraintLegal(c)}

Config(r, e) ==
    (IF r = None THEN <<>> ELSE [replicas |-> r]) @@ (IF e = None THEN <<>> ELSE [engine |-> e])

NodeInputs ==
    {n \in [kind : {"database"}, unknown : SUBSET {"replicas", "engine"}, version : {None, "14", "15"},
            config : {Config(r, e) : r \in Universe.replicas \cup {None}, e \in Universe.engine \cup {None}}] :
        n.unknown \cap DOMAIN n.config = {}}

SpecInputs ==
    {[status |-> "supported", kinds |-> {"database"}, required |-> {"replicas"}, constraints |-> <<c>>] : c \in ConstraintInputs}
    \cup [status : {"planned", "deprecated"}, kinds : {{"database"}, {"cache"}}, required : {{"engine"}}, constraints : {<<Plain>>}]
    \cup {None}
=============================================================================
