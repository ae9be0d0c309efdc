--------------------------- MODULE MigrationPlanner ---------------------------
(***************************************************************************)
(* engines/migration: a source and a target architecture become classified *)
(* changes, the changes become steps that wait for each other, and the     *)
(* steps are sequenced, assessed and held against the stored analyses.     *)
(*                                                                         *)
(* Identifiers are numbers, so that the order in which the planner walks   *)
(* them is the order of the numbers; connections are walked before nodes   *)
(* (MigrationChange.sort_key starts with the word "connection" or "node"). *)
(* A step key <<"verify", 1, "unused">> is "verify:1:unused" of the code.  *)
(***************************************************************************)
EXTENDS Naturals, FiniteSets, Sequences, SequencesExt

Stateful  == {"database"}
Stateless == {"service", "gateway"}
Routers   == {"gateway"}
MIN_ROLLING_REPLICAS == 2

Sorted(S) == SetToSortSeq(S, <)

-----------------------------------------------------------------------------
(* changes.py: what the fields of a modified element mean.                  *)

\* The aspects a changed field touches, by its category in the diff.
AspectsOf(field) ==
    CASE field = "kind"                            -> {"role"}
      [] field = "technology"                      -> {"technology"}
      [] field \in {"source", "target"}            -> {"routing"}
      [] field = "protocol"                        -> {"protocol"}
      [] field = "parent"                          -> {"grouping"}
      [] field \in {"name", "metadata"}            -> {"metadata"}
      [] field = "requirement_refs"                -> {"traceability"}
      [] field = "unknown"                         -> {"unknown_values"}
      [] field = "extra"                           -> {"unrecognized"}
      [] field = "replicas"                        -> {"resources", "scaling"}
      [] field = "region"                          -> {"configuration", "placement"}
      [] field \in {"encrypted", "tls"}             -> {"configuration", "security"}
      [] OTHER                                     -> {"configuration"}

\* A person must interpret what no pattern plans.
NeedsPerson(field, stateful) ==
    \/ field \in {"parent", "unknown", "extra"}
    \/ field = "region" /\ stateful

Interpretation(fields, stateful) ==
    CASE "kind" \in fields                                 -> "unsupported"
      [] \E f \in fields : NeedsPerson(f, stateful)        -> "manual_interpretation"
      [] OTHER                                             -> "supported"

Relevant(fields) == UNION {AspectsOf(f) : f \in fields} \ {"metadata", "traceability"} # {}

\* One change of an element present before, after or both.
Modified(element, id, was, now) ==
    LET fields   == {f \in DOMAIN was : was[f] # now[f]}
        stateful == element = "node" /\ now.kind \in Stateful
    IN [element |-> element, id |-> id, change |-> "modified", fields |-> fields,
        aspects |-> UNION {AspectsOf(f) : f \in fields}, stateful |-> stateful,
        kind |-> IF element = "node" THEN now.kind ELSE "connection",
        interpretation |-> Interpretation(fields, stateful)]

Whole(element, id, change, e) ==
    [element |-> element, id |-> id, change |-> change, fields |-> {},
     aspects |-> {"topology", IF change = "added" THEN "provisioning" ELSE "decommissioning"}
                    \cup (IF element = "connection" THEN {"routing"} ELSE {}),
     stateful |-> element = "node" /\ e.kind \in Stateful,
     kind |-> IF element = "node" THEN e.kind ELSE "connection",
     interpretation |-> IF element = "node" /\ e.kind = "boundary" THEN "manual_interpretation"
                        ELSE "supported"]

Elements(element, old, new) ==
    {Whole(element, x, "added", new[x]) : x \in DOMAIN new \ DOMAIN old}
      \cup {Whole(element, x, "removed", old[x]) : x \in DOMAIN old \ DOMAIN new}
      \cup {Modified(element, x, old[x], new[x]) :
              x \in {y \in DOMAIN old \cap DOMAIN new :
                        \E f \in DOMAIN old[y] : old[y][f] # new[y][f]}}

\* The migration-relevant changes, and those of them a pattern can plan.
RelevantChanges(source, target) ==
    {c \in Elements("node", source.nodes, target.nodes)
             \cup Elements("connection", source.connections, target.connections) :
        c.change = "modified" => Relevant(c.fields)}

Plannable(source, target) ==
    {c \in RelevantChanges(source, target) : c.interpretation = "supported"}

-----------------------------------------------------------------------------
(* patternbook.py and patterns.py: the strategies.                          *)

\* Pairs of components whose data moves from the first to the second.
StatefulReplacements(changes) ==
    LET nodes   == {c \in changes : c.element = "node" /\ c.stateful}
        removed == {c \in nodes : c.change = "removed"}
        added   == {c \in nodes : c.change = "added"}
    IN {<<c.id, c.id>> : c \in {x \in nodes : x.change = "modified" /\ "technology" \in x.aspects}}
         \cup {<<old.id, new.id>> : old \in {r \in removed :
                    Cardinality({a \in added : a.kind = r.kind}) = 1}, new \in added}

StatelessModified(changes) ==
    {c.id : c \in {x \in changes : /\ x.element = "node" /\ x.change = "modified"
                                   /\ x.kind \in Stateless}}

Incoming(ir, n) == {ir.connections[x].source :
                       x \in {y \in DOMAIN ir.connections : ir.connections[y].target = n}}

\* The elements a strategy covers, and whether all it needs is declared.
Rolling(source, target, changes) ==
    LET subjects == StatelessModified(changes)
    IN [subjects |-> subjects,
        supported |-> subjects # {} /\ \A n \in subjects :
            /\ source.nodes[n].replicas >= MIN_ROLLING_REPLICAS
            /\ target.nodes[n].replicas >= MIN_ROLLING_REPLICAS
            /\ target.nodes[n].health_check]

BlueGreen(source, target, changes) ==
    LET subjects == StatelessModified(changes)
    IN [subjects |-> subjects,
        supported |-> subjects # {} /\ \A n \in subjects :
            \E m \in Incoming(target, n) : target.nodes[m].kind \in Routers]

ReplicationCutover(source, target, changes) ==
    LET pairs == StatefulReplacements(changes)
    IN [subjects |-> UNION {{p[1], p[2]} : p \in pairs},
        supported |-> pairs # {} /\ \A p \in pairs : target.nodes[p[2]].replication_mode # "none"]

InPlace(source, target, changes) ==
    [subjects |-> {c.id : c \in changes}, supported |-> changes # {}]

Unsupported(source, target, changes) == [subjects |-> {}, supported |-> FALSE]

Strategies == {"in_place", "rolling", "blue_green", "replication_cutover", "canary"}
Option(strategy, source, target, changes) ==
    CASE strategy = "in_place"            -> InPlace(source, target, changes)
      [] strategy = "rolling"             -> Rolling(source, target, changes)
      [] strategy = "blue_green"          -> BlueGreen(source, target, changes)
      [] strategy = "replication_cutover" -> ReplicationCutover(source, target, changes)
      [] OTHER                            -> Unsupported(source, target, changes)

\* The preferred strategy when it is supported, else in place ("" for none).
Chosen(preferred, source, target, changes) ==
    IF preferred \in Strategies /\ Option(preferred, source, target, changes).supported THEN preferred
    ELSE IF Option("in_place", source, target, changes).supported THEN "in_place" ELSE ""

-----------------------------------------------------------------------------
(* planner.py: the steps of one change.  drafts maps keys to steps.         *)

Step(type, elements, after, downtime, reversibility, manual, pattern) ==
    [type |-> type, elements |-> elements, after |-> after, downtime |-> downtime,
     reversibility |-> reversibility, manual |-> manual, pattern |-> pattern]

\* key waits for every step of on that exists.
Depend(drafts, key, on) ==
    IF key \notin DOMAIN drafts THEN drafts
    ELSE [drafts EXCEPT ![key].after = @ \cup ((on \cap DOMAIN drafts) \ {key})]

Online == "modeled_online"
Known == "known_downtime"
Potential == "potential_downtime"
Unstated == "unknown"
Rev == "reversible"
Cond == "conditionally_reversible"
Irrev == "irreversible"

Provision(drafts, c, target) ==
    LET p == <<"provision", c.id, "">>  f == <<"configure", c.id, "">>  v == <<"verify", c.id, "">>
        conn == target.connections[c.id]
    IN (IF c.element = "connection"
        THEN p :> Step("provision", {c.id, conn.source, conn.target}, {}, Unstated, Rev, FALSE, "provision")
             @@ v :> Step("verify", {c.id}, {p}, Online, Rev, FALSE, "provision")
        ELSE p :> Step("provision", {c.id}, {}, Online, Rev, FALSE, "provision")
             @@ f :> Step("configure", {c.id}, {p}, Online, Rev, FALSE, "provision")
             @@ v :> Step("verify", {c.id}, {f}, Online, Rev, FALSE, "provision")) @@ drafts

BlueGreenSteps(drafts, c, target) ==
    LET g == <<"provision", c.id, "green">>  vg == <<"verify", c.id, "green">>
        x == <<"cutover", c.id, "">>  v == <<"verify", c.id, "">>  d == <<"decommission", c.id, "blue">>
        S(type, after, downtime, rev, manual) ==
            Step(type, IF type = "cutover" THEN {c.id} \cup Incoming(target, c.id) ELSE {c.id},
                 after, downtime, rev, manual, "blue_green")
    IN g :> S("provision", {}, Online, Rev, FALSE)
       @@ vg :> S("verify", {g}, Online, Rev, FALSE)
       @@ x :> S("cutover", {vg}, Online, Rev, TRUE)
       @@ v :> S("verify", {x}, Unstated, Rev, FALSE)
       @@ d :> S("decommission", {v}, Online, Cond, FALSE) @@ drafts

Reconfigure(drafts, c, target, strategy, covered) ==
    LET f == <<"configure", c.id, "">>  v == <<"verify", c.id, "">>
        rolled == strategy = "rolling" /\ c.id \in covered
    IN IF strategy = "blue_green" /\ c.id \in covered THEN BlueGreenSteps(drafts, c, target)
       ELSE f :> (IF rolled THEN Step("configure", {c.id}, {}, Online, Rev, FALSE, "rolling")
                  ELSE Step("configure", {c.id}, {}, Unstated, Cond, FALSE, "reconfigure"))
            @@ v :> Step("verify", {c.id}, {f}, Unstated, Rev, FALSE, "reconfigure") @@ drafts

\* The dependency on the verification of the endpoints is taken from the
\* steps that exist so far.
Reroute(drafts, c, target) ==
    LET p == <<"prepare", c.id, "">>  x == <<"cutover", c.id, "">>  v == <<"verify", c.id, "">>
        conn == target.connections[c.id]
        added == p :> Step("prepare", {c.id}, {}, Unstated, Rev, FALSE, "reroute")
                 @@ x :> Step("cutover", {c.id, conn.source, conn.target}, {p}, Unstated, Cond, TRUE, "reroute")
                 @@ v :> Step("verify", {c.id}, {x}, Unstated, Rev, FALSE, "reroute") @@ drafts
    IN Depend(added, p, {<<"verify", conn.target, "">>, <<"verify", conn.source, "">>})

Decommission(drafts, c) ==
    LET u == <<"verify", c.id, "unused">>
    IN u :> Step("verify", {c.id}, {}, Unstated, Rev, c.stateful, "decommission")
       @@ <<"decommission", c.id, "">> :>
            Step("decommission", {c.id}, {u}, Unstated, IF c.stateful THEN Irrev ELSE Cond, c.stateful, "decommission")
       @@ drafts

\* What the cutover of moved data waits for.
SwitchAfter_copy(copy, check) == {copy}

SwitchAfter(copy, check) == {check}

\* Move the data of old to new: replicated, or copied with writes stopped.
Replace(drafts, old, new, replicated) ==
    LET pattern == IF replicated THEN "replication_cutover" ELSE "in_place"
        same    == old = new
        ready   == IF same THEN <<"provision", new, "target">> ELSE <<"verify", new, "">>
        first   == IF replicated THEN <<"replicate", old, "">> ELSE <<"prepare", old, "freeze">>
        copy    == <<"backfill", old, "">>  check == <<"verify", old, "consistency">>
        switch  == <<"cutover", old, "">>   traffic == <<"verify", new, "traffic">>
        S(type, elements, after, downtime, rev, manual) ==
            Step(type, elements, after, downtime, rev, manual, pattern)
    IN (IF same THEN <<"decommission", old, "source">> :> S("decommission", {old}, {traffic}, Unstated, Irrev, TRUE)
                     @@ ready :> S("provision", {new}, {}, Online, Rev, FALSE)
        ELSE <<>>)
       @@ first :> (IF replicated THEN S("replicate", {old, new}, {ready}, Online, Rev, FALSE)
                    ELSE S("prepare", {old}, {ready}, Known, Rev, TRUE))
       @@ copy :> S("backfill", {old, new}, {first}, IF replicated THEN Online ELSE Known, Rev, ~replicated)
       @@ check :> S("verify", {old, new}, {copy}, Unstated, Rev, TRUE)
       @@ switch :> S("cutover", {old, new}, SwitchAfter(copy, check), IF replicated THEN Potential ELSE Known, Cond, TRUE)
       @@ traffic :> S("verify", {new}, {switch}, Unstated, Rev, TRUE)
       @@ drafts

-----------------------------------------------------------------------------
(* _Generator.order and generate.                                           *)

DependAll(drafts, S) ==
    [k \in DOMAIN drafts |->
        [drafts[k] EXCEPT !.after = @ \cup ((UNION {d[2] : d \in {e \in S : e[1] = k}} \cap DOMAIN drafts) \ {k})]]

Order(drafts, source, target, changes, pairs) ==
    DependAll(drafts,
        {<<<<"provision", x, "">>, {<<"verify", target.connections[x].source, "">>,
                                    <<"verify", target.connections[x].target, "">>}>> :
            x \in DOMAIN target.connections}
        \cup {<<<<"cutover", p[1], "">>, {<<"verify", x, "">> :
                  x \in {y \in DOMAIN target.connections : target.connections[y].target = p[2]}}>> : p \in pairs}
        \cup {<<<<"verify", p[1], "unused">>, {<<"cutover", p[1], "">>, <<"verify", p[2], "traffic">>}>> : p \in pairs}
        \cup UNION {{<<<<"verify", x, "unused">>, {<<"cutover", p[1], "">>}>> :
                  x \in {y \in DOMAIN source.connections :
                            p[1] \in {source.connections[y].source, source.connections[y].target}}} : p \in pairs}
        \cup UNION {{<<<<"verify", n, "unused">>, {<<"decommission", x, "">>}>> :
                  n \in {source.connections[x].source, source.connections[x].target}} : x \in DOMAIN source.connections}
        \cup UNION {{<<<<"verify", source.connections[c.id][f], "unused">>, {<<"verify", c.id, "">>}>> :
                  f \in c.fields \cap {"source", "target"}} : c \in {d \in changes : d.element = "connection"}})

Generate(source, target, preferred) ==
    LET changes  == Plannable(source, target)
        pairs    == StatefulReplacements(changes)
        replaced == UNION {{p[1], p[2]} : p \in pairs}
        strategy == Chosen(preferred, source, target, changes)
        covered  == Option(strategy, source, target, changes).subjects
        Of(e, x) == CHOOSE c \in changes : c.element = e /\ c.id = x
        Carry(d, c) ==
            IF c.element = "node" /\ c.id \in replaced THEN d
            ELSE CASE c.change = "added"   -> Provision(d, c, target)
                   [] c.change = "removed" -> Decommission(d, c)
                   [] c.element = "connection" /\ c.aspects \cap {"routing", "protocol"} # {} -> Reroute(d, c, target)
                   [] OTHER                -> Reconfigure(d, c, target, strategy, covered)
        Move(d, p) ==
            LET one == IF p[1] = p[2] THEN d ELSE Provision(d, Of("node", p[2]), target)
                two == Replace(one, p[1], p[2], strategy = "replication_cutover" /\ p[2] \in covered)
            IN IF p[1] = p[2] THEN two ELSE Decommission(two, Of("node", p[1]))
        InOrder(e) == [i \in 1..Cardinality({c \in changes : c.element = e}) |->
                          Of(e, Sorted({c.id : c \in {d \in changes : d.element = e}})[i])]
        moves == SetToSortSeq(pairs, LAMBDA p, q : p[1] < q[1])
        drafts == FoldLeft(Move, FoldLeft(Carry, <<>>, InOrder("connection") \o InOrder("node")), moves)
    IN [steps |-> Order(drafts, source, target, changes, pairs), pairs |-> pairs, strategy |-> strategy]
=============================================================================
