------------------------------ MODULE Reliability ------------------------------
(***************************************************************************)
(* engines/reliability: what a request entering the architecture needs, how*)
(* available it is, which components nothing stands in for and whether the *)
(* stated objectives are met.  Node 0 is the client, 1..4 are components.  *)
(* A probability is a fraction <<numerator, denominator>>; None is a value *)
(* that is not declared.                                                   *)
(***************************************************************************)
EXTENDS Naturals, FiniteSets, Sequences, SequencesExt, FiniteSetsExt, Combinatorics

CONSTANT None

Graph == INSTANCE StepGraph

-----------------------------------------------------------------------------
(* dependency.py: which connections a request waits for.                    *)

Waiting == {"request", "data_access"}

Role(c) ==
    CASE c.kind = "replication"                                        -> "not_a_dependency"
      [] c.critical = "no"                                             -> "optional"
      [] c.kind = "dependency"                                         -> "required"
      [] c.kind \in Waiting /\ c.interaction # "asynchronous"          -> "required"
      [] OTHER                                                         -> "optional"

Required(ir) == {c \in ir.connections : Role(c) = "required"}
Targets(ir, n) == {c.target : c \in {d \in Required(ir) : d.source = n}}

\* What entry requires, without entering avoid or following unavailable.
Closure(ir, entry, avoid, unavailable) ==
    LET Follow(S, i) == S \cup ({c.target : c \in {d \in Required(ir) \ unavailable : d.source \in S}} \ avoid)
    IN FoldLeft(Follow, {entry}, [i \in 1 .. Cardinality(ir.nodes) |-> i])

Components(ir, entry) == Closure(ir, entry, {}, {}) \cap (ir.nodes \ {0})

\* Every component that requires n, directly or not.
Affected(ir, n) ==
    LET Follow(S, i) == S \cup {c.source : c \in {d \in Required(ir) : d.target \in S}}
    IN FoldLeft(Follow, {n}, [i \in 1 .. Cardinality(ir.nodes) |-> i]) \ {n}

-----------------------------------------------------------------------------
(* failure_propagation.py: the availability of a path.                      *)

Times(a, b) == <<a[1] * b[1], a[2] * b[2]>>
Not(a) == <<a[2] - a[1], a[2]>>
Plus(a, b) == IF a[2] = b[2] THEN <<a[1] + b[1], a[2]>> ELSE <<a[1] * b[2] + b[1] * a[2], a[2] * b[2]>>
Same(a, b) == a[1] * b[2] = b[1] * a[2]
ProductOver(S, value(_)) == MapThenFoldSet(Times, <<1, 1>>, value, LAMBDA T : CHOOSE e \in T : TRUE, S)

\* P(at least k of these independent events): exactly[j + 1] is P(j so far).
AtLeast(k, probabilities) ==
    LET Add(exactly, p) ==
            [j \in 1 .. Len(exactly) + 1 |->
                LET stays == IF j <= Len(exactly) THEN exactly[j][1] * (p[2] - p[1]) ELSE 0
                    grows == IF j > 1 THEN exactly[j - 1][1] * p[1] ELSE 0
                IN <<stays + grows, exactly[1][2] * p[2]>>]
        exactly == FoldLeft(Add, <<<<1, 1>>>>, probabilities)
        some    == SubSeq(exactly, k + 1, Len(exactly))
    IN <<FoldLeft(LAMBDA sum, e : sum + e[1], 0, some), exactly[1][2]>>

Groups(ir, required) ==
    {g \in {ir.group[n] : n \in required} \ {None} : Cardinality({n \in required : ir.group[n] = g}) > 1}

Members(ir, required, g) == {n \in required : ir.group[n] = g}

Exclusive_alsoReachedOtherwise(ir, entry, required, members) ==
    LET reach  == [m \in members |-> Closure(ir, m, {}, {}) \cap required]
        common == {n \in required : \A m \in members : n \in reach[m]}
    IN [m \in members |-> (reach[m] \ common) \cup {m}]

\* What only member m requires: not what the path reaches without the group,
\* nor what every member requires.
Exclusive(ir, entry, required, members) ==
    LET without == Closure(ir, entry, members, {})
        reach   == [m \in members |-> Closure(ir, m, {}, {}) \cap required]
        common  == {n \in required : \A m \in members : n \in reach[m]}
    IN [m \in members |-> (reach[m] \ (without \cup common)) \cup {m}]

\* Why the members' branches cannot be told apart, if they cannot.
Entangled(branches, others) ==
    \/ \E a, b \in DOMAIN branches : a # b /\ branches[a] \cap branches[b] # {}
    \/ \E m \in DOMAIN branches : branches[m] \cap others # {}

\* The members agree on how many must serve, fail apart and fail over.
Composable(ir, members) ==
    /\ \A m \in members : ir.independent[m] /\ ir.automatic[m]
    /\ \E k \in 1 .. Cardinality(members) : \A m \in members : ir.min_healthy[m] = k

\* The availability of the path, or None.
Compose(ir, entry) ==
    LET required == Components(ir, entry)
        groups   == Groups(ir, required)
        grouped  == UNION {Members(ir, required, g) : g \in groups}
        Branches(g) == Exclusive(ir, entry, required, Members(ir, required, g))
        single   == {g \in groups : ~ Entangled(Branches(g), grouped \ Members(ir, required, g))}
        series   == required \ UNION {UNION Range(Branches(g)) : g \in single}
        Of(S)    == ProductOver(S, LAMBDA n : ir.availability[n])
        Group(g) == LET members == SetToSortSeq(Members(ir, required, g), <)
                    IN AtLeast(ir.min_healthy[members[1]], [i \in DOMAIN members |-> Of(Branches(g)[members[i]])])
    IN IF \/ required = {} \/ groups # single
          \/ \E n \in required : ir.availability[n] = None
          \/ \E g \in groups : ~ Composable(ir, Members(ir, required, g))
       THEN None
       ELSE Times(Of(series), ProductOver(groups, Group))

-----------------------------------------------------------------------------
(* What the value should be: the chance that the entry is served, over all  *)
(* the ways components can be up.  A component that requires a member of a  *)
(* group requires enough of its members.                                    *)

Serves(ir, entry, up) ==
    LET required == Components(ir, entry)
        groups   == Groups(ir, required)
        Met(n, ok) == \A t \in Targets(ir, n) :
            IF ir.group[t] \in groups
            THEN \E m \in Members(ir, required, ir.group[t]) :
                    Cardinality(Members(ir, required, ir.group[t]) \cap ok) >= ir.min_healthy[m]
            ELSE t \in ok
        Narrow(ok, i) == {n \in ok : Met(n, ok)}
    IN entry \in FoldLeft(Narrow, up \cup {entry}, [i \in 1 .. Cardinality(ir.nodes) + 1 |-> i])

Chance(ir, entry) ==
    LET required == Components(ir, entry)
        P(up) == ProductOver(required, LAMBDA n : IF n \in up THEN ir.availability[n] ELSE Not(ir.availability[n]))
    IN MapThenFoldSet(Plus, <<0, 1>>, P, LAMBDA T : CHOOSE e \in T : TRUE, {U \in SUBSET required : Serves(ir, entry, U)})

-----------------------------------------------------------------------------
(* spof.py: what nothing stands in for.                                     *)

\* TRUE with a spare, FALSE without, None when not declared.
Tolerates(ir, n) ==
    CASE ir.group[n] # None /\ Cardinality({m \in ir.nodes \ {0} : ir.group[m] = ir.group[n]}) >= 2 -> TRUE
      [] ir.replicas[n] = None -> None
      [] OTHER -> ir.replicas[n] >= 2 /\ (ir.spare[n] = None \/ ir.spare[n] < ir.replicas[n])

SinglePoints_called(ir, entries) ==
    {n \in UNION {Targets(ir, e) : e \in entries} : Tolerates(ir, n) # TRUE}

SinglePoints(ir, entries) ==
    {n \in UNION {Components(ir, e) : e \in entries} : Tolerates(ir, n) # TRUE}

CircularSets(ir) == Graph!Cycles([n \in ir.nodes |-> Targets(ir, n)])

\* A member that no path reaches while another is needed.
Unrouted(ir, entries) ==
    LET needed == UNION {Components(ir, e) : e \in entries}
    IN {n \in ir.nodes \ ({0} \cup needed) : ir.group[n] # None /\ \E m \in needed : ir.group[m] = ir.group[n]}

Topology(ir) ==
    [path |-> Compose(ir, 0), single |-> SinglePoints(ir, {0}), circular |-> CircularSets(ir),
     unrouted |-> Unrouted(ir, {0}), affected |-> [n \in ir.nodes |-> Affected(ir, n)]]

-----------------------------------------------------------------------------
(* availability.py and engine.py: the estimates of one component, each      *)
(* model in its order of precedence.                                        *)

KOfN(a, n, k) ==
    LET Power(x, i) == FoldLeft(LAMBDA p, j : Times(p, x), <<1, 1>>, [j \in 1 .. i |-> j])
        Exactly(i)  == Times(<<choose(n, i), 1>>, Times(Power(a, i), Power(Not(a), n - i)))
    IN FoldLeft(LAMBDA sum, j : Plus(sum, Exactly(j)), <<0, 1>>, [j \in 1 .. n - k + 1 |-> j + k - 1])

Value(v) == [value |-> v, missing |-> {}]
Lacks(missing) == [value |-> None, missing |-> missing]

Replicated(f, a) ==
    CASE a = None                                  -> Lacks({"replica_availability"})
      [] f.replicas = 1                            -> Value(a)
      [] f.replicas = 0                            -> Lacks({"positive.replicas"})
      [] f.min_healthy = None                      -> Lacks({"min_healthy_replicas"})
      [] f.min_healthy > f.replicas                -> Lacks({"consistent.min_healthy_replicas"})
      [] f.independence # "independent"            -> Lacks({"failure_independence"})
      [] f.failover # "automatic"                  -> Lacks({"failover_mode"})
      [] OTHER                                     -> Value(KOfN(a, f.replicas, f.min_healthy))

\* MTBF over MTBF plus MTTR, undefined when both are zero.
Repaired(f) == IF f.mtbf + f.mttr = 0 THEN Lacks({"mtbf_plus_mttr"}) ELSE Value(<<f.mtbf, f.mtbf + f.mttr>>)

Recovery(f) ==
    CASE f.failover = "automatic" /\ f.failover_seconds # None -> Value(f.failover_seconds)
      [] f.mttr # None                                         -> Value(f.mttr)
      [] OTHER                                                 -> Lacks({"mttr_seconds"})

DataLoss(f) ==
    LET windows == (IF f.replication = "synchronous" THEN {0} ELSE {})
                     \cup (IF f.replication = "asynchronous" THEN {f.lag} ELSE {}) \cup {f.backup}
    IN IF windows \ {None} = {} THEN Lacks({"backup_interval_seconds"}) ELSE Value(Min(windows \ {None}))

Models == <<[id |-> "declared", resource |-> "availability", needs |-> {"availability"}],
            [id |-> "declared_replica", resource |-> "replica_availability", needs |-> {"replica_availability"}],
            [id |-> "mtbf_mttr", resource |-> "replica_availability", needs |-> {"mtbf", "mttr"}],
            [id |-> "replicas", resource |-> "availability", needs |-> {"replicas"}],
            [id |-> "recovery", resource |-> "recovery_time", needs |-> {}],
            [id |-> "data_loss", resource |-> "data_loss_window", needs |-> {}]>>
Resources == {Models[i].resource : i \in DOMAIN Models}

Estimate(m, f, known) ==
    CASE m.id = "declared"         -> Value(f.availability)
      [] m.id = "declared_replica" -> Value(f.replica_availability)
      [] m.id = "mtbf_mttr"        -> Repaired(f)
      [] m.id = "replicas"         -> Replicated(f, known["replica_availability"])
      [] m.id = "recovery"         -> Recovery(f)
      [] OTHER                     -> DataLoss(f)

\* A later model never replaces what an earlier one established.
Settled_never(m, known) == FALSE

Settled(m, known) == known[m.resource] # None

Component(f) ==
    LET Apply(c, m) ==
            LET lacking == {p \in m.needs : f[p] = None}
                e       == Estimate(m, f, c.known)
            IN CASE Settled(m, c.known) -> c
                 [] lacking # {}        -> [c EXCEPT !.lacking[m.resource] = @ \cup lacking]
                 [] OTHER -> [c EXCEPT !.known[m.resource] = IF e.value = None THEN @ ELSE e.value,
                                       !.lacking[m.resource] = @ \cup e.missing]
        c == FoldLeft(Apply, [known |-> [r \in Resources |-> None], lacking |-> [r \in Resources |-> {}]], Models)
    IN [known |-> c.known,
        missing |-> UNION {c.lacking[r] : r \in {x \in Resources : c.known[x] = None}},
        status |-> IF \E r \in Resources : c.known[r] # None THEN "estimated" ELSE "insufficient_input"]

-----------------------------------------------------------------------------
(* sla.py and slo.py: requirements become objectives, objectives verdicts.  *)

Floors == {"at_least", "equals", "more_than"}
Ceilings == {"at_most", "equals", "less_than"}

\* "skipped", a verdict at once, or an objective to check.
Translate(r) ==
    CASE ~ r.in_force \/ r.deleted \/ r.type # "availability"          -> "skipped"
      [] r.constraint # "quantity"              -> "not_verifiable"
      [] r.scope = "unmodelled"                                        -> "not_verifiable"
      [] r.scope = "absent_kind"                                       -> "not_applicable"
      [] r.metric = "availability" /\ r.operator \in Floors            -> "objective"
      [] r.metric = "rto" /\ r.operator \in Ceilings                   -> "objective"
      [] OTHER                                                         -> "not_verifiable"

Strict(r) == r.operator \in {"more_than", "less_than"}
Met(r, v) ==
    CASE r.metric = "rto" /\ Strict(r)   -> v < r.target
      [] r.metric = "rto"                -> v <= r.target
      [] Strict(r)                       -> v > r.target
      [] OTHER                           -> v >= r.target

Verdict_knownOnly(r, subjects) ==
    IF subjects = <<>> THEN "not_applicable"
    ELSE IF \E i \in DOMAIN subjects : subjects[i] # None /\ ~ Met(r, subjects[i]) THEN "violated" ELSE "satisfied"

Verdict(r, subjects) ==
    CASE subjects = <<>> -> "not_applicable"
      [] \E i \in DOMAIN subjects : subjects[i] # None /\ ~ Met(r, subjects[i]) -> "violated"
      [] \E i \in DOMAIN subjects : subjects[i] = None -> "not_verifiable"
      [] OTHER -> "satisfied"

Judge(r, subjects) == IF Translate(r) = "objective" THEN Verdict(r, subjects) ELSE Translate(r)

-----------------------------------------------------------------------------
(* Inputs.                                                                  *)

Sync(s, t) == [source |-> s, target |-> t, kind |-> "request", interaction |-> "synchronous", critical |-> "unstated"]
Possible == {Sync(0, 1), Sync(0, 3), Sync(0, 4), Sync(1, 3), Sync(1, 4), Sync(3, 2), Sync(4, 2), Sync(3, 4)}
Soft == {{}} \cup {{[Sync(1, 2) EXCEPT !.kind = "dependency", !.critical = critical]} : critical \in {"unstated", "no"}}

Architectures ==
    {[nodes |-> 0 .. 4, connections |-> links \cup soft,
      group |-> [n \in 0 .. 4 |-> IF n \in {3, 4} THEN "g" ELSE IF v.nested /\ n \in {1, 2} THEN "h" ELSE None],
      min_healthy |-> [n \in 0 .. 4 |-> IF n = 3 THEN v.k[1] ELSE IF n = 4 THEN v.k[2] ELSE 1],
      independent |-> [n \in 0 .. 4 |-> TRUE], automatic |-> [n \in 0 .. 4 |-> TRUE],
      availability |-> [n \in 0 .. 4 |-> IF n = 2 /\ v.unknown THEN None ELSE <<n, 5>>],
      replicas |-> [n \in 0 .. 4 |-> IF n = 2 THEN IF v.unknown THEN None ELSE 2 ELSE 1],
      spare |-> [n \in 0 .. 4 |-> IF n = 2 THEN v.k[1] ELSE None]] :
        links \in SUBSET Possible, soft \in Soft,
        v \in {[nested |-> FALSE, unknown |-> FALSE, k |-> <<1, 1>>], [nested |-> TRUE, unknown |-> FALSE, k |-> <<1, 1>>],
               [nested |-> FALSE, unknown |-> FALSE, k |-> <<2, 2>>], [nested |-> FALSE, unknown |-> TRUE, k |-> <<1, 2>>]}}

Facts ==
    [availability : {None, <<1, 2>>}, replica_availability : {None, <<2, 3>>}, mtbf : {None, 0, 1}, mttr : {None, 0, 1},
     replicas : {None, 0, 1, 2, 3}, min_healthy : {None, 1, 2}, independence : {None, "independent", "correlated"},
     failover : {None, "automatic", "none"}, failover_seconds : {None}, replication : {None}, lag : {None}, backup : {None}]
    \cup
    [availability : {None}, replica_availability : {None}, mtbf : {None}, mttr : {None, 1}, replicas : {None},
     min_healthy : {None}, independence : {None}, failover : {"automatic", "none"}, failover_seconds : {None, 0, 2},
     replication : {None, "synchronous", "asynchronous"}, lag : {None, 1}, backup : {None, 2}]

Requirements ==
    [in_force : BOOLEAN, deleted : BOOLEAN, type : {"availability", "performance"},
     constraint : {"none", "quantity"}, scope : {"system", "absent_kind", "unmodelled"},
     metric : {"availability", "rto", "mtbf"}, operator : Floors \cup Ceilings, target : {1}]

-----------------------------------------------------------------------------
(* What right answers are.                                                  *)

\* A member that requires another member of its own group.
ChainedGroups(ir) ==
    \E n \in ir.nodes : ir.group[n] # None /\ \E m \in Closure(ir, n, {}, {}) \ {n} : ir.group[m] = ir.group[n]

PathExact(ir, result) ==
    /\ (result.path # None /\ ~ ChainedGroups(ir)) => Same(result.path, Chance(ir, 0))
    /\ \A n \in ir.nodes : result.affected[n] = {m \in ir.nodes \ {n} : n \in Closure(ir, m, {}, {})}

\* Whatever no request is served without is reported or has a spare; exactly
\* the components that require each other are reported as circular.
SinglePointsExact(ir, result) ==
    LET Lost(n) == ~ Serves(ir, 0, ir.nodes \ {n})
        Mutual(S) == Cardinality(S) > 1 /\ \A n \in S : S = {m \in ir.nodes : m \in Closure(ir, n, {}, {}) /\ n \in Closure(ir, m, {}, {})}
    IN /\ \A n \in ir.nodes \ {0} : Lost(n) => n \in result.single \/ Tolerates(ir, n) = TRUE
       /\ result.circular = {S \in SUBSET ir.nodes : Mutual(S)}

EstimateSound(f, c) ==
    /\ f.availability # None => c.known["availability"] = f.availability
    /\ (c.known["availability"] # None /\ f.availability = None /\ f.replicas >= 2) =>
          /\ f.independence = "independent" /\ f.failover = "automatic" /\ f.min_healthy <= f.replicas
          /\ Same(c.known["availability"],
                  AtLeast(f.min_healthy, [i \in 1 .. f.replicas |-> c.known["replica_availability"]]))
    /\ f.replica_availability # None => c.known["replica_availability"] = f.replica_availability
    /\ (\E r \in Resources : c.known[r] = None) => c.missing # {}

VerdictSound(r, subjects, verdict) ==
    /\ verdict = "skipped" <=> ~ (r.in_force /\ ~ r.deleted /\ r.type = "availability")
    /\ verdict = "satisfied" => subjects # <<>> /\ \A i \in DOMAIN subjects :
          /\ subjects[i] # None
          /\ CASE r.operator = "at_least"  -> subjects[i] >= r.target
               [] r.operator = "at_most"   -> subjects[i] <= r.target
               [] r.operator = "more_than" -> subjects[i] > r.target
               [] r.operator = "less_than" -> subjects[i] < r.target
               [] OTHER                    -> TRUE
    /\ verdict = "violated" => \E i \in DOMAIN subjects : subjects[i] # None /\ (subjects[i] # r.target \/ Strict(r))
=============================================================================
