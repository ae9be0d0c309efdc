------------------------- MODULE MigrationAssessment -------------------------
(***************************************************************************)
(* engines/migration: what follows the planner's steps before a proposal   *)
(* is built.  Downtime is assessed, the data that moves is stated, the     *)
(* order is judged, compatibility is questioned and risks, rollbacks and   *)
(* checkpoints are derived, each legal for the entity that holds it.       *)
(* Wording is left out: a text is present or absent.                       *)
(***************************************************************************)
EXTENDS MigrationPlanner, FiniteSetsExt

Down == {Known, Potential}
Only(S) == CHOOSE e \in S : TRUE

\* The elements of one kind of change, plannable or not.
Ids(source, target, change) == {c.id : c \in {d \in RelevantChanges(source, target) : d.change = change}}

-----------------------------------------------------------------------------
(* availability.py                                                          *)

\* Restarted in place with at most one declared instance.
Interrupts(step, source, added) ==
    /\ step.type = "configure" /\ Cardinality(step.elements) = 1 /\ step.pattern # "rolling"
    /\ step.downtime = Unstated
    /\ LET e == Only(step.elements)
       IN e \notin added /\ e \in DOMAIN source.nodes /\ source.nodes[e].replicas = 1

Assess_withoutPerson(step, source, added) ==
    IF Interrupts(step, source, added) THEN [step EXCEPT !.downtime = Potential] ELSE step

Assess(step, source, added) ==
    IF Interrupts(step, source, added) THEN [step EXCEPT !.downtime = Potential, !.manual = TRUE] ELSE step

DowntimeFindings(steps, allowed) ==
    LET down == {k \in DOMAIN steps : steps[k].downtime \in Down}
    IN CASE down = {} \/ allowed = "yes" -> {}
         [] allowed = "unstated"         -> {<<"missing_information", "downtime_allowed">>}
         [] OTHER                        -> {<<"constraint_conflict", k>> : k \in down}

-----------------------------------------------------------------------------
(* data_migration.py                                                        *)

Concerning(steps, e) == {k \in DOMAIN steps : e \in steps[k].elements /\ steps[k].type # "provision"}

\* new = 0: the data is removed, not moved.
DataMigrations(changes, pairs, steps, stated) ==
    LET removed == {c.id : c \in {d \in changes : d.stateful /\ d.change = "removed"}} \ {p[1] : p \in pairs}
        Entry(old, new) == [old |-> old, new |-> new, steps |-> Concerning(steps, old),
                            replicated |-> new # 0 /\ <<"replicate", old, "">> \in DOMAIN steps,
                            scope |-> {old, new} \cap stated # {}]
    IN {Entry(p[1], p[2]) : p \in pairs} \cup {Entry(old, 0) : old \in removed}

DataFindings(data) == {<<"missing_information", m.old>> : m \in {x \in data : ~ x.scope}}

-----------------------------------------------------------------------------
(* sequencing.py: what must come before a step.                             *)

Before(steps, k) ==
    LET Widen(S, i) == S \cup UNION {steps[m].after : m \in S}
    IN FoldLeft(Widen, steps[k].after, [i \in 1 .. Cardinality(DOMAIN steps) |-> i])

Provisions(step, e, connections) ==
    /\ step.type = "provision" /\ e \in step.elements
    /\ step.elements = {e} \/ e \in connections

Missing(steps, k, added, connections, removed) ==
    LET step   == steps[k]
        before == Before(steps, k)
        types  == {steps[b].type : b \in before}
    IN {<<"provisioned", e, k>> : e \in {x \in added \cap step.elements :
            /\ ~ Provisions(step, x, connections)
            /\ ~ \E b \in before : Provisions(steps[b], x, connections)}}
       \cup {<<"retired", e, k>> : e \in {x \in removed \cap step.elements :
            /\ step.type = "decommission" /\ Cardinality(step.elements) = 1
            /\ \E m \in DOMAIN steps \ (before \cup {k}) : x \in steps[m].elements}}
       \cup {<<"verified", 0, k>> : x \in {y \in {step} :
            \/ y.type = "cutover" /\ types \cap {"verify", "prepare"} = {}
            \/ y.type = "decommission" /\ "verify" \notin types}}
       \cup {<<"manual", 0, k>> : x \in {y \in {step} :
            (y.type = "cutover" \/ y.reversibility = Irrev \/ y.downtime \in Down) /\ ~ y.manual}}

-----------------------------------------------------------------------------
(* compatibility.py                                                         *)

Asked(subject, id, elements) == [key |-> <<subject, id>>, elements |-> elements]

Compatibility(source, target, changes, pairs, steps) ==
    LET replaced == UNION {{p[1], p[2]} : p \in pairs}
        modified == {c \in changes : c.change = "modified"}
        With(pattern, e) == \E k \in DOMAIN steps : steps[k].pattern = pattern /\ e \in steps[k].elements
        Of(S, subject) == {Asked(subject, x, {x}) : x \in S}
    IN {Asked(a, p[1], {p[1], p[2]}) : a \in {"data_model", "schema", "clients", "authentication", "rollback"}, p \in pairs}
       \cup {Asked("version", p[1], {p[1], p[2]}) : p \in
                {q \in pairs : source.nodes[q[1]].technology # target.nodes[q[2]].technology}}
       \cup UNION {Of({c.id : c \in {d \in modified : d.element = "node" /\ "technology" \in d.aspects}} \ replaced, a) :
                a \in {"application", "version"}}
       \cup Of({c.id : c \in {d \in modified : d.element = "connection" /\ "protocol" \in d.fields}}, "protocol")
       \cup Of({c.id : c \in {d \in modified : d.element = "connection" /\ "tls" \in d.fields}}, "authentication")
       \cup Of({c.id : c \in {d \in modified : With("rolling", d.id)}}, "mixed_versions")
       \cup Of({c.id : c \in {d \in modified : With("blue_green", d.id)}}, "environments")

-----------------------------------------------------------------------------
(* rollback.py: the recovery of the high-impact steps.                      *)

Consider(key, step, action, retained, preconditions, limitations) ==
    [step |-> key, reversibility |-> step.reversibility, action |-> action, retained |-> retained,
     preconditions |-> preconditions, limitations |-> limitations]

Existing(step, steps) == step.elements # {} /\ \A e \in step.elements : <<"provision", e, "">> \notin DOMAIN steps

Recovery(k, steps) ==
    LET step == steps[k]
    IN CASE step.type = "cutover" -> {Consider(k, step, TRUE, TRUE, TRUE, TRUE)}
         [] step.type = "decommission" ->
              {Consider(k, step, step.reversibility # Irrev, step.reversibility = Irrev, TRUE, TRUE)}
         [] step.type \in {"backfill", "replicate"} -> {Consider(k, step, TRUE, FALSE, FALSE, FALSE)}
         [] step.type = "prepare" /\ k[3] = "freeze" -> {Consider(k, step, TRUE, FALSE, FALSE, FALSE)}
         [] step.type = "configure" /\ Existing(step, steps) ->
              {Consider(k, step, TRUE, FALSE, TRUE, step.pattern # "rolling")}
         [] step.reversibility = Irrev -> {Consider(k, step, FALSE, FALSE, FALSE, TRUE)}
         [] OTHER -> {}

Rollbacks(steps) == UNION {Recovery(k, steps) : k \in DOMAIN steps}

\* RollbackConsideration: a recoverable step says how, a conditional one
\* under what, the others why not.
RollbackLegal(r) ==
    /\ r.reversibility \in {Rev, Cond} => r.action
    /\ r.reversibility = Cond => r.preconditions
    /\ r.reversibility \notin {Rev, Cond} => r.limitations

-----------------------------------------------------------------------------
(* risk.py                                                                  *)

Risk(key, status, preconditions, steps) ==
    [key |-> key, status |-> status, preconditions |-> preconditions, steps |-> steps]

RiskLegal(r) == r.status = "potential" => r.preconditions

DataRisks(data, steps) ==
    {IF m.new = 0 THEN Risk(<<"data_loss", m.old>>, IF m.scope THEN "potential" ELSE "confirmed", m.scope, m.steps)
     ELSE Risk(<<"data_loss", m.old>>, "potential", TRUE, m.steps) : m \in data}
    \cup {Risk(<<"divergence", m.old>>, "potential", TRUE, {<<"cutover", m.old, "">>} \cap DOMAIN steps) :
            m \in {x \in data : x.new # 0}}

DowntimeRisks_conditionsOfKnown(steps) ==
    {Risk(<<"downtime", k>>, IF steps[k].downtime = Known THEN "confirmed" ELSE "potential",
          steps[k].downtime = Known, {k}) : k \in {x \in DOMAIN steps : steps[x].downtime \in Down}}

DowntimeRisks(steps) ==
    {Risk(<<"downtime", k>>, IF steps[k].downtime = Known THEN "confirmed" ELSE "potential",
          steps[k].downtime # Known, {k}) : k \in {x \in DOMAIN steps : steps[x].downtime \in Down}}

ReversibilityRisks(steps) ==
    {Risk(<<"irreversible", k>>, "confirmed", FALSE, {k}) : k \in {x \in DOMAIN steps : steps[x].reversibility = Irrev}}

StrategyRisks(steps) ==
    {Risk(<<"capacity", k>>, "potential", TRUE, {k}) : k \in {x \in DOMAIN steps :
        \/ steps[x].type = "configure" /\ steps[x].pattern = "rolling"
        \/ steps[x].type \in {"replicate", "backfill"} /\ steps[x].downtime \notin Down}}
    \cup {Risk(<<"cost", k>>, "potential", TRUE, {k}) : k \in {x \in DOMAIN steps :
        steps[x].type = "provision" /\ steps[x].pattern = "blue_green"}}

\* One risk for the first element of each group of open questions.
CompatibilityRisks(questions) ==
    {Risk(<<"compatibility", Min(q.elements)>>, "unknown", FALSE, {}) : q \in questions}

SettingsRisks(source, target, changes) ==
    LET Was(c, f) == IF c.element = "node" THEN source.nodes[c.id][f] ELSE source.connections[c.id][f]
        off == {<<c, f>> \in changes \X {"encrypted", "tls"} :
                   c.change = "modified" /\ f \in c.fields /\ Was(c, f)}
    IN {Risk(<<"security", x[1].id, x[2]>>, "confirmed", FALSE, {}) : x \in off}

OrderingRisks(missing) == {Risk(<<"ordering", m>>, "confirmed", FALSE, {m[3]}) : m \in missing}

-----------------------------------------------------------------------------
(* checkpoints.py                                                           *)

Checkpoint(key, status, basis, steps) ==
    [key |-> key, status |-> status, basis |-> basis, steps |-> steps, evidence |-> {}]

CheckpointLegal(c) ==
    /\ c.status \in {"pass", "fail", "warning"} => c.basis = "modeled" /\ \E e \in c.evidence : e.state = "current"
    /\ c.basis = "manual" => c.status \in {"manual_verification_required", "not_run"}

EngineChecks ==
    [capacity      |-> {"scaling", "resources", "provisioning", "decommissioning"},
     security      |-> {"security", "provisioning", "protocol"},
     observability |-> {"observability", "provisioning"}]

EngineCheckpoints(relevant) ==
    LET aspects == UNION {c.aspects : c \in relevant}
    IN {Checkpoint(<<e, "target">>, "not_run", "modeled", {}) :
           e \in {"validation" : x \in aspects} \cup {x \in DOMAIN EngineChecks : aspects \cap EngineChecks[x] # {}}}

DataCheckpoints(data, steps) ==
    {Checkpoint(<<"consistency", m.old>>, "manual_verification_required", "manual",
                {<<"verify", m.old, "consistency">>} \cap DOMAIN steps) : m \in {x \in data : x.new # 0}}
    \cup {Checkpoint(<<"replication_lag", m.old>>, "cannot_evaluate", "runtime_observed",
                {<<"replicate", m.old, "">>} \cap DOMAIN steps) : m \in {x \in data : x.replicated}}

HealthCheckpoints(steps, target, added) ==
    LET strategic == UNION {steps[k].elements : k \in {x \in DOMAIN steps : steps[x].pattern \in {"rolling", "blue_green"}}}
    IN {Checkpoint(<<"health", k>>, "not_run", "runtime_observed", {k}) : k \in {x \in DOMAIN steps :
           /\ steps[x].type = "verify" /\ x[3] = "" /\ Cardinality(steps[x].elements) = 1
           /\ x[2] \in DOMAIN target.nodes \cap (strategic \cup added)}}

ManualCheckpoints(steps) ==
    {Checkpoint(<<IF steps[k].type = "cutover" THEN "cutover" ELSE "manual", k>>,
                "manual_verification_required", "manual", {k}) :
        k \in {x \in DOMAIN steps : steps[x].type = "cutover" \/ steps[x].manual}}

RollbackCheckpoints(rollbacks) ==
    {Checkpoint(<<"rollback", r.step>>, "manual_verification_required", "manual", {r.step}) :
        r \in {x \in rollbacks : x.retained}}

-----------------------------------------------------------------------------
(* planner.generate and the proposal it builds.                             *)

Blocking == {"missing_information", "unsupported", "manual_interpretation", "missing_prerequisite", "constraint_conflict"}
Status(p) == IF p.steps = <<>> \/ \E f \in p.findings : f[1] \in Blocking THEN "needs_information" ELSE "draft"

Proposal(plan, source, target, allowed, stated) ==
    LET relevant  == RelevantChanges(source, target)
        changes   == Plannable(source, target)
        added     == Ids(source, target, "added")
        steps     == [k \in DOMAIN plan.steps |-> Assess(plan.steps[k], source, added)]
        data      == DataMigrations(changes, plan.pairs, steps, stated)
        missing   == UNION {Missing(steps, k, added, added \cap DOMAIN target.connections,
                                    Ids(source, target, "removed")) : k \in DOMAIN steps}
        questions == Compatibility(source, target, changes, plan.pairs, steps)
        rollbacks == Rollbacks(steps)
    IN [steps |-> steps, pairs |-> plan.pairs, strategy |-> plan.strategy, data |-> data, missing |-> missing,
        questions |-> questions, rollbacks |-> rollbacks,
        findings |-> DowntimeFindings(steps, allowed) \cup DataFindings(data)
                       \cup {<<"missing_prerequisite", m>> : m \in missing}
                       \cup {<<c.interpretation, c.id>> : c \in relevant \ changes},
        risks |-> DataRisks(data, steps) \cup DowntimeRisks(steps) \cup ReversibilityRisks(steps) \cup StrategyRisks(steps)
                    \cup CompatibilityRisks(questions) \cup SettingsRisks(source, target, changes) \cup OrderingRisks(missing),
        checkpoints |-> EngineCheckpoints(relevant) \cup DataCheckpoints(data, steps)
                    \cup HealthCheckpoints(steps, target, added) \cup ManualCheckpoints(steps) \cup RollbackCheckpoints(rollbacks)]

\* Keys are unique, and only the plan's own steps are named.
Consistent(p) ==
    LET Unique(S) == Cardinality({x.key : x \in S}) = Cardinality(S)
    IN /\ Unique(p.risks) /\ Unique(p.checkpoints) /\ Unique(p.questions)
       /\ Cardinality({r.step : r \in p.rollbacks}) = Cardinality(p.rollbacks)
       /\ Cardinality({m.old : m \in p.data}) = Cardinality(p.data)
       /\ UNION {x.steps : x \in p.risks \cup p.data} \subseteq DOMAIN p.steps
       /\ UNION {x.steps : x \in p.checkpoints} \subseteq DOMAIN p.steps

\* Two architectures: a service 1 with databases 2 and 3 behind a gateway 4.
Service(technology, replicas, health) ==
    [kind |-> "service", technology |-> technology, replicas |-> replicas, health_check |-> health,
     replication_mode |-> "none", encrypted |-> FALSE]
Database(technology, mode, encrypted) ==
    [kind |-> "database", technology |-> technology, replicas |-> 0, health_check |-> FALSE,
     replication_mode |-> mode, encrypted |-> encrypted]
Gateway == [kind |-> "gateway", technology |-> "g", replicas |-> 0, health_check |-> FALSE,
            replication_mode |-> "none", encrypted |-> FALSE]
Link(source, target, protocol, tls) == [source |-> source, target |-> target, protocol |-> protocol, tls |-> tls]

Sources ==
    {[nodes |-> 1 :> Service("s", replicas, FALSE) @@ 2 :> Database("a", "none", TRUE) @@ 4 :> Gateway
                  @@ (IF both THEN 3 :> Database("a", "none", FALSE) ELSE <<>>),
      connections |-> 14 :> Link(4, 1, "http", FALSE) @@ 11 :> Link(1, 2, "sql", TRUE)] :
        replicas \in 0 .. 2, both \in BOOLEAN}

Targets ==
    {t \in {[nodes |-> one @@ two @@ three @@ 4 :> Gateway, connections |-> gate @@ link] :
        one \in {<<>>, 1 :> Service("s", 0, FALSE), 1 :> Service("s", 2, TRUE), 1 :> Service("t", 2, FALSE)},
        two \in {<<>>, 2 :> Database("a", "none", TRUE), 2 :> Database("b", "synchronous", TRUE),
                 2 :> Database("a", "none", FALSE)},
        three \in {<<>>, 3 :> Database("a", "none", FALSE), 3 :> Database("b", "asynchronous", FALSE)},
        gate \in {<<>>, 14 :> Link(4, 1, "http", FALSE)},
        link \in {<<>>, 11 :> Link(1, 2, "sql", TRUE), 11 :> Link(1, 3, "sql", TRUE), 11 :> Link(1, 2, "http", FALSE)}} :
     \A x \in DOMAIN t.connections : {t.connections[x].source, t.connections[x].target} \subseteq DOMAIN t.nodes}

Acyclic(p) == \A k \in DOMAIN p.steps : k \notin Before(p.steps, k)
=============================================================================
