------------------------------- MODULE Capacity -------------------------------
(***************************************************************************)
(* engines/capacity: how the demand of a workload reaches every component, *)
(* what the components' declared facts let them take, and what follows     *)
(* from the two.  Fractions (traffic ratios, hit ratios, shares, targets)  *)
(* are whole numbers of halves; every other number is exact.  A value that *)
(* is not established is None, never zero.                                 *)
(***************************************************************************)
EXTENDS Naturals, FiniteSets, Sequences, SequencesExt, FiniteSetsExt, TLC

CONSTANT None

\* 10^15, the magnitude a quantity may not reach, and a half of one.
MaxQuantity == 200
One == 2

Get(e, p) == IF p \in DOMAIN e.config THEN e.config[p] ELSE None
Quantity(v) == IF v >= MaxQuantity THEN None ELSE v

-----------------------------------------------------------------------------
(* workload.py: the demand, as stated.                                      *)

Rated == {"request_response", "event_stream"}
Forbidden == [request_response |-> {"batch_size", "batch_interval"},
              event_stream |-> {"batch_size", "batch_interval", "read_ratio", "response_payload"},
              batch |-> {"peak_rate", "average_rate", "response_payload"}]
WorkloadLegal(w) ==
    /\ \A f \in Forbidden[w.type] : w[f] = None
    /\ w.type \in Rated => /\ w.peak_rate \notin {None, 0}
                           /\ w.average_rate # None => w.average_rate <= w.peak_rate
    /\ w.type = "batch" => w.batch_size \notin {None, 0} /\ w.batch_interval \notin {None, 0}
    /\ w.read_ratio # None => w.read_ratio <= One
    /\ w.target_utilization # None => w.target_utilization \in 1 .. One

DesignRate(w) == IF w.type = "batch" THEN w.batch_size \div w.batch_interval ELSE w.peak_rate

-----------------------------------------------------------------------------
(* traffic.py.                                                              *)

Forward == {"request", "data_access", "publish"}
Flows(ir) ==
    [c \in {d \in DOMAIN ir.connections : ir.connections[d].kind \in Forward \cup {"consume"}} |->
        IF ir.connections[c].kind = "consume" THEN <<ir.connections[c].target, ir.connections[c].source>>
        ELSE <<ir.connections[c].source, ir.connections[c].target>>]

Resource(c) ==
    CASE c.kind = "request" -> "request_rate"
      [] c.kind = "data_access" -> IF Get(c, "access") = None THEN "operation_rate"
                                   ELSE IF Get(c, "access") = "read" THEN "read_operation_rate" ELSE "write_operation_rate"
      [] OTHER -> "event_rate"
EntryResource == [request_response |-> "request_rate", event_stream |-> "event_rate", batch |-> "operation_rate"]
Dimension(resource) == IF resource \in {"request_rate", "event_rate"} THEN resource ELSE "operation_rate"

\* Eighths of the upstream work, None when something is missing to know it.
Eighths == One * One * One
Multiplier(c, load) ==
    LET ratio == Get(c, "traffic_ratio")
        calls == Get(c, "calls_per_request")
        hit   == Get(c, "cache_hit_ratio")
    IN IF (ratio = None /\ calls = None) \/ (Get(c, "access") # None /\ load.read_ratio = None) THEN None
       ELSE (IF ratio = None THEN One ELSE ratio) * (IF calls = None THEN 1 ELSE calls)
          * (IF hit = None THEN One ELSE One - hit)
          * (IF Get(c, "access") = None THEN One
             ELSE IF Get(c, "access") = "read" THEN load.read_ratio ELSE One - load.read_ratio)

Entries(context) ==
    IF context.entries # None THEN context.entries
    ELSE {n \in DOMAIN context.ir.nodes : context.ir.nodes[n].kind = "client"}

Demand(via, resource, amount) == [via |-> via, resource |-> resource, amount |-> amount]
Total(demand) == FoldSet(LAMBDA d, sum : sum + d.amount, 0, demand)
WorkOf(demand) == Total(demand)
MixedUnits(demand) == Cardinality({Dimension(d.resource) : d \in demand}) > 1

\* One node whose upstream nodes have all been handled: what it sends on.
Handle(context, s) ==
    LET ir       == context.ir
        flows    == Flows(ir)
        n        == Min(s.ready)
        outgoing == {c \in DOMAIN flows : flows[c][1] = n}
        mixed    == MixedUnits(s.demand[n])
        unmodeled == n \notin Entries(context) /\ outgoing # {} /\ \A c \in DOMAIN flows : flows[c][2] # n
        base     == IF mixed \/ unmodeled THEN None
                    ELSE WorkOf(s.demand[n]) + IF n \in Entries(context) THEN DesignRate(context.load) ELSE 0
        factor(c) == Multiplier(ir.connections[c], context.load)
        unrouted == {c \in outgoing : base # None /\ factor(c) = None}
        amount(c) == (base * factor(c)) \div Eighths
        carried  == {c \in outgoing \ unrouted : base # None}
        beyond   == {c \in carried : Quantity(amount(c)) = None}
        sent     == carried \ beyond
        spoilt   == s.incomplete \cup (IF mixed THEN {n} ELSE {})
        left     == [m \in DOMAIN ir.nodes |-> s.indegree[m] - Cardinality({c \in outgoing : flows[c][2] = m})]
    IN [s EXCEPT
        !.ready = (@ \ {n}) \cup {m \in DOMAIN ir.nodes : left[m] = 0 /\ s.indegree[m] > 0},
        !.indegree = left,
        !.incomplete = spoilt \cup {flows[c][2] : c \in IF base = None \/ n \in spoilt THEN outgoing ELSE unrouted \cup beyond},
        !.demand = [m \in DOMAIN ir.nodes |->
                       s.demand[m] \cup {Demand(c, Resource(ir.connections[c]), amount(c)) : c \in {d \in sent : flows[d][2] = m}}],
        !.unsupported = @ \cup (IF unmodeled THEN {<<n, "unmodeled_source">>} ELSE {})
                          \cup (IF mixed THEN {<<n, "mixed_work_units">>} ELSE {})
                          \cup {<<c, "routing_unspecified">> : c \in unrouted} \cup {<<c, "demand_overflow">> : c \in beyond}]

SharesExceed(context) ==
    LET shares == {c \in DOMAIN Flows(context.ir) : /\ Flows(context.ir)[c][1] \in Entries(context)
                                                   /\ Get(context.ir.connections[c], "traffic_ratio") # None}
    IN FoldSet(LAMBDA c, sum : sum + Get(context.ir.connections[c], "traffic_ratio"), 0, shares) > One

NoPropagation(ir) == [demand |-> [n \in DOMAIN ir.nodes |-> {}], connections |-> {}, incomplete |-> {}, unsupported |-> {}]

\* Before the first node, and when no node is left whose upstream nodes have
\* all been handled: those that remain are on a cycle, or behind one.
Start(context) ==
    LET indegree == [n \in DOMAIN context.ir.nodes |-> Cardinality({c \in DOMAIN Flows(context.ir) : Flows(context.ir)[c][2] = n})]
    IN [ready |-> {n \in DOMAIN indegree : indegree[n] = 0}, indegree |-> indegree, incomplete |-> {},
        demand |-> [n \in DOMAIN indegree |-> {}],
        unsupported |-> IF SharesExceed(context) THEN {<<"workload", "entry_shares_exceed_total">>} ELSE {}]

Propagated(context, end) ==
    LET ir == context.ir
        cyclic == {n \in DOMAIN ir.nodes : end.indegree[n] > 0}
    IN IF Entries(context) = {}
       THEN [NoPropagation(ir) EXCEPT !.unsupported = {<<"workload", "no_entry">>}]
       ELSE [demand |-> [n \in DOMAIN ir.nodes |->
                            (IF n \in cyclic THEN {} ELSE end.demand[n])
                            \cup IF n \in Entries(context) /\ ir.nodes[n].kind # "client"
                                 THEN {Demand(None, EntryResource[context.load.type], DesignRate(context.load))} ELSE {}],
             connections |-> UNION {end.demand[n] : n \in DOMAIN ir.nodes \ cyclic},
             incomplete |-> end.incomplete \cup cyclic,
             unsupported |-> end.unsupported \cup {<<n, "cyclic_traffic">> : n \in cyclic}]

-----------------------------------------------------------------------------
(* rps.py, compute.py, concurrency.py, storage.py, bandwidth.py: what a     *)
(* component can take and what it needs.  A model runs when its inputs are  *)
(* all there.                                                               *)

Running == {"service", "worker", "gateway", "load_balancer", "database", "cache", "queue", "observability"}
Deployed == Running \cup {"cdn", "storage", "external"}
OutOfScope == {"client", "boundary"}

Model(kinds, configuration, workload) == [kinds |-> kinds, configuration |-> configuration, workload |-> workload]
Models ==
    ("declared-throughput" :> Model(Deployed, {"throughput_limit_per_second"}, {}))
    @@ ("replica-throughput" :> Model(Running, {"throughput_per_replica_per_second", "replicas"}, {}))
    @@ ("cpu-demand" :> Model({"service", "worker", "gateway"}, {"cpu_core_seconds_per_request"}, {}))
    @@ ("connection-pool" :> Model({"database", "cache", "gateway", "load_balancer"}, {"max_connections"}, {}))
    @@ ("storage-growth" :> Model({"database", "storage", "queue"}, {"storage_bytes"}, {"request_payload"}))
    @@ ("network-bandwidth" :> Model(Deployed, {}, {"request_payload"}))

MissingInputs(model, node, load) ==
    (Models[model].configuration \ DOMAIN node.config) \cup {f \in Models[model].workload : load[f] = None}

Estimate(model, resource, value, missing) ==
    [model |-> model, resource |-> resource, value |-> value, missing |-> IF value = None THEN missing ELSE {}]
Known(estimates) == {e \in estimates : e.value # None}

CpuLimit(node) ==
    LET lacks == {"replicas", "cpu_limit_cores"} \ DOMAIN node.config
    IN IF lacks # {} THEN Estimate("cpu-demand", "cpu", None, lacks)
       ELSE Estimate("cpu-demand", "cpu", Quantity(node.config.replicas * node.config.cpu_limit_cores), {"magnitude"})

\* One pool for each source, the largest its connections declare.
PoolOf(ir, n, source) ==
    LET incoming == {c \in DOMAIN ir.connections : ir.connections[c].target = n /\ ir.connections[c].source = source}
        sizes == {Get(ir.connections[c], "pool_size") : c \in incoming} \ {None}
    IN IF sizes = {} THEN None ELSE Max(sizes)
Pooled(ir, n) ==
    {ir.connections[c].source : c \in {d \in DOMAIN ir.connections :
        ir.connections[d].target = n /\ (Get(ir.connections[d], "pool_size") # None \/ ir.connections[d].kind = "data_access")}}
PoolConnections(ir, n) ==
    LET lacks(s) == PoolOf(ir, n, s) = None \/ Get(ir.nodes[s], "replicas") = None
    IN IF \E s \in Pooled(ir, n) : lacks(s)
       THEN Estimate("connection-pool", "connections", None, {"pool_size or replicas"})
       ELSE Estimate("connection-pool", "connections",
                     Quantity(FoldSet(LAMBDA s, sum : sum + PoolOf(ir, n, s) * Get(ir.nodes[s], "replicas"), 0, Pooled(ir, n))), {})

\* Bytes written per second; None when they are not known.
Writes == {"write_operation_rate", "event_rate"}
Growth(node, demand, complete, load) ==
    IF ~ complete \/ \E d \in demand : d.resource = "operation_rate" THEN None
    ELSE Total({d \in demand : d.resource \in Writes}) * load.request_payload
         * IF node.kind = "queue" /\ Get(node, "replication_factor") \notin {None, 0} THEN Get(node, "replication_factor") ELSE 1

Limits(model, ir, n) ==
    LET node == ir.nodes[n]
        stated(resource, p) == {Estimate(model, resource, IF Get(node, p) = None THEN None ELSE Quantity(Get(node, p)), {p})}
    IN CASE model = "declared-throughput" -> stated("work_rate", "throughput_limit_per_second")
         [] model = "replica-throughput"  ->
               {Estimate(model, "work_rate", Quantity(node.config.throughput_per_replica_per_second * node.config.replicas), {"magnitude"})}
         [] model = "cpu-demand"          -> {CpuLimit(node)}
         [] model = "connection-pool"     -> stated("connections", "max_connections")
         [] model = "storage-growth"      -> stated("storage", "storage_bytes")
         [] model = "network-bandwidth"   -> stated("bandwidth", "network_bandwidth_bytes_per_second")

\* The parts a bandwidth estimate names: bytes in and out per second.
Ingress(demand, load) == WorkOf(demand) * load.request_payload
Egress(demand, load) ==
    Total({d \in demand : d.resource = "request_rate"}) * IF load.response_payload = None THEN 0 ELSE load.response_payload

\* time_to_full is in whole seconds.
Amounts(model, ir, n, demand, complete, load) ==
    LET node     == ir.nodes[n]
        growth   == Growth(node, demand, complete, load)
        requests == Total({d \in demand : d.resource = "request_rate"})
        known(resource, value) == Estimate(model, resource, Quantity(value), {"magnitude"})
    IN CASE model = "cpu-demand" ->
               {Estimate(model, "cpu", IF complete THEN Quantity(WorkOf(demand) * node.config.cpu_core_seconds_per_request) ELSE None, {"demand"})}
         [] model = "connection-pool" -> {PoolConnections(ir, n)}
         [] model = "storage-growth" ->
               IF growth = None THEN {Estimate(model, "storage_growth", None, IF complete THEN {"access"} ELSE {"demand"})}
               ELSE {known("storage_growth", growth)}
                    \cup IF Get(node, "retention_seconds") # None THEN {known("storage", growth * node.config.retention_seconds)}
                         ELSE IF growth > 0 THEN {known("time_to_full", node.config.storage_bytes \div growth)} ELSE {}
         [] model = "network-bandwidth" ->
               LET lacks == (IF complete THEN {} ELSE {"demand"})
                            \cup IF requests > 0 /\ load.response_payload = None THEN {"response_payload"} ELSE {}
               IN {IF lacks # {} THEN Estimate(model, "bandwidth", None, lacks)
                   ELSE known("bandwidth", Ingress(demand, load) + Egress(demand, load))}
         [] OTHER -> {}

\* A model whose output says of an unknown value nothing that is missing is
\* refused; one that crashes is a failure of its own.
EstimateLegal(e) == e.value = None => e.missing # {}
OutputLegal(estimates) == estimates # {} /\ \A e \in estimates : EstimateLegal(e)

Component(context, n, demand, complete) ==
    LET node       == context.ir.nodes[n]
        applicable == {m \in context.models : node.kind \in Models[m].kinds}
        lacking    == {m \in applicable : MissingInputs(m, node, context.load) # {}}
        output(m)  == Limits(m, context.ir, n) \cup Amounts(m, context.ir, n, demand, complete, context.load)
        failed     == {m \in applicable \ lacking : m \in context.crashing \/ ~ OutputLegal(output(m))}
        applied    == applicable \ failed
        ran        == applied \ lacking
        limits     == UNION {Limits(m, context.ir, n) : m \in ran}
        amounts    == UNION {Amounts(m, context.ir, n, demand, complete, context.load) : m \in ran}
    IN [node |-> n, demand |-> demand, limits |-> limits, resources |-> amounts, models |-> applied,
        missing |-> UNION {MissingInputs(m, node, context.load) : m \in lacking} \cup UNION {e.missing : e \in limits \cup amounts},
        status |-> IF applied = {} THEN "unsupported"
                   ELSE IF Known(limits \cup amounts) # {} THEN "estimated" ELSE "insufficient_input",
        problems |-> IF applicable = {} THEN {<<n, "no_model">>} ELSE {<<n, "model_failed">> : m \in failed}]

-----------------------------------------------------------------------------
(* headroom.py: demand against capacity.                                    *)

Binding(limits) == IF Known(limits) = {} THEN None ELSE Min({e.value : e \in Known(limits)})

Pair(n, resource, demand, capacity, target) ==
    [node |-> n, resource |-> resource, demand |-> demand, capacity |-> capacity, target |-> target]

Utilization(component, target, complete) ==
    LET of(resource) == {e \in component.limits : e.resource = resource}
        amount(resource) == (CHOOSE e \in component.resources : e.resource = resource).value
    IN (IF component.demand = {} /\ of("work_rate") = {} THEN {}
        ELSE {Pair(component.node, "work_rate", IF complete THEN Quantity(WorkOf(component.demand)) ELSE None, Binding(of("work_rate")), target)})
       \cup {Pair(component.node, r, amount(r), Binding(of(r)), target) :
               r \in {e.resource : e \in component.resources} \cap {e.resource : e \in component.limits}}

State(u) ==
    CASE u.demand = 0                          -> "idle"
      [] u.demand = None \/ u.capacity = None  -> "unknown"
      [] OTHER -> IF u.capacity = 0 THEN "no_capacity"
                  ELSE IF u.demand < u.capacity THEN "below" ELSE IF u.demand = u.capacity THEN "at" ELSE "above"

\* ratio > share, a share being a number of halves.
HasRatio(u) == u.demand # None /\ u.capacity \notin {None, 0}
AboveShare(u, share) == HasRatio(u) /\ u.demand * One > share * u.capacity

\* Demand that someone waits for, or that enters here.
OnWaitedPath(ir, demand) ==
    \E d \in demand : \/ d.via = None
                      \/ /\ ir.connections[d.via].critical # FALSE
                         /\ ir.connections[d.via].interaction # "asynchronous"

Condition_targetOnly(u) ==
    IF u.target # None /\ AboveShare(u, u.target) THEN "above_target" ELSE None
Condition(u) ==
    CASE State(u) = "above"       -> "exceeds_capacity"
      [] State(u) = "at"          -> "at_capacity"
      [] State(u) = "no_capacity" -> "no_capacity"
      [] OTHER -> IF State(u) = "below" /\ u.target # None /\ (u.target # None => AboveShare(u, u.target)) THEN "above_target" ELSE None

Bottlenecks(ir, component, pairs) ==
    {[node |-> u.node, resource |-> u.resource,
      condition |-> IF Condition(u) = None THEN "unknown_capacity" ELSE Condition(u),
      certainty |-> IF u.demand # None /\ u.capacity # None THEN "modeled" ELSE "candidate", utilization |-> u] :
        u \in {v \in pairs : \/ Condition(v) # None
                             \/ /\ v.resource = "work_rate" /\ State(v) = "unknown" /\ v.demand # None
                                /\ OnWaitedPath(ir, component.demand)}}

-----------------------------------------------------------------------------
(* engine.py and results.py.                                                *)

DeriveStatus(components) ==
    LET statuses == {c.status : c \in components}
    IN IF statuses = {"estimated"} THEN "completed"
       ELSE IF "estimated" \in statuses THEN "partial"
       ELSE IF "insufficient_input" \in statuses THEN "insufficient_input" ELSE "unsupported"

Refusal(context) ==
    IF ~ (context.models \subseteq DOMAIN Models) THEN "unknown_model"
    ELSE IF ~ (Entries(context) \subseteq DOMAIN context.ir.nodes) THEN "unknown_entry" ELSE None

Scope(ir) == {n \in DOMAIN ir.nodes : ir.nodes[n].kind \notin OutOfScope}
Components(context, propagated) ==
    {Component(context, n, propagated.demand[n], n \notin propagated.incomplete) : n \in Scope(context.ir)}

Result(context, propagated, components) ==
    LET pairs(c) == Utilization(c, context.load.target_utilization, c.node \notin propagated.incomplete)
    IN [components |-> components, connections |-> propagated.connections,
        utilization |-> UNION {pairs(c) : c \in components},
        bottlenecks |-> UNION {Bottlenecks(context.ir, c, pairs(c)) : c \in components},
        unsupported |-> propagated.unsupported \cup UNION {c.problems : c \in components}
                        \cup {<<n, "demand_incomplete">> : n \in {m \in propagated.incomplete \cap Scope(context.ir) :
                                                 <<m, "cyclic_traffic">> \notin propagated.unsupported}},
        status |-> DeriveStatus(components)]

IncompleteNodes(result) == {u[1] : u \in {v \in result.unsupported : v[2] \in {"demand_incomplete", "cyclic_traffic"}}}

\* Summary: the workload's smallest known multiple that saturates something,
\* as <<capacity, demand>>, and whether every component reached is known.
LinearResources == {"work_rate", "cpu", "bandwidth", "storage", "storage_growth"}
Multiples(result) ==
    {<<u.capacity, u.demand>> : u \in {v \in result.utilization : v.resource \in LinearResources /\ v.demand \notin {None, 0} /\ v.capacity # None}}
Saturation(result) ==
    IF Multiples(result) = {} THEN None
    ELSE CHOOSE m \in Multiples(result) : \A k \in Multiples(result) : m[1] * k[2] <= k[1] * m[2]
SaturationComplete(result) ==
    LET reached == {c \in result.components : c.node \in IncompleteNodes(result) \/ \E d \in c.demand : d.amount > 0}
    IN /\ reached # {} /\ IncompleteNodes(result) = {} /\ ~ \E u \in result.unsupported : u[2] = "no_entry"
       /\ \A c \in reached : \E u \in result.utilization : u.node = c.node /\ u.resource = "work_rate" /\ HasRatio(u)

-----------------------------------------------------------------------------
(* operating_envelope.py and scenarios.py.                                  *)

Goal(u) == IF u.target = None THEN One ELSE u.target
Ceil(a, b) == (a + b - 1) \div b
Option(n, resource, kind, required) == [node |-> n, resource |-> resource, kind |-> kind, required |-> required]

\* The limit that binds, the declared one when two are equal.
BindingModel(limits) ==
    LET least == {e \in Known(limits) : e.resource = "work_rate" /\ \A f \in Known(limits) : f.resource = "work_rate" => e.value <= f.value}
    IN IF \E e \in least : e.model = "declared-throughput" THEN "declared-throughput" ELSE "replica-throughput"

\* Required cores are <<cores, parts>>; replicas are whole.
Options_floor(node, component, u) ==
    IF u.resource = "work_rate" /\ BindingModel(component.limits) = "replica-throughput"
    THEN {Option(u.node, "work_rate", "horizontal", (u.demand * One) \div (node.config.throughput_per_replica_per_second * Goal(u)))} ELSE {}
Options(node, component, u) ==
    CASE u.resource = "work_rate" ->
            IF BindingModel(component.limits) = "replica-throughput" /\ Get(node, "throughput_per_replica_per_second") # 0
            THEN {Option(u.node, "work_rate", "horizontal", Ceil(u.demand * One, node.config.throughput_per_replica_per_second * Goal(u)))}
            ELSE {}
      [] u.resource = "cpu" ->
            IF Get(node, "replicas") \in {None, 0} \/ Get(node, "cpu_limit_cores") \in {None, 0} THEN {}
            ELSE {Option(u.node, "cpu", "vertical", <<u.demand * One, node.config.replicas * Goal(u)>>),
                  Option(u.node, "cpu", "horizontal", Ceil(u.demand * One, node.config.cpu_limit_cores * Goal(u)))}
      [] OTHER -> {}

\* Every resource above its goal has options or is listed as having none.
ScalingOptions(ir, result) ==
    LET over(c) == {u \in result.utilization : u.node = c.node /\ AboveShare(u, Goal(u))}
        all == {<<c, u>> \in result.components \X result.utilization : u \in over(c)}
    IN [options |-> UNION {Options(ir.nodes[p[1].node], p[1], p[2]) : p \in all},
        unsupported |-> {<<p[1].node, p[2].resource>> : p \in {q \in all : Options(ir.nodes[q[1].node], q[1], q[2]) = {}}}]

\* At most one way to change the workload; changes is keyed by element and property.
Changeable == [node |-> {"replicas", "throughput_limit_per_second", "throughput_per_replica_per_second", "cpu_limit_cores"},
               connection |-> {"traffic_ratio", "calls_per_request", "cache_hit_ratio"}]
ScenarioLegal(s) ==
    LET ways == {<<"growth", s.growth # None>>, <<"growth_rate", s.growth_rate # None \/ s.periods # None>>, <<"target_rate", s.target_rate # None>>}
    IN /\ Cardinality({w \in ways : w[2]}) <= 1
       /\ (s.growth_rate = None) = (s.periods = None) /\ s.periods # 0
       /\ s.growth # 0 /\ s.target_rate # 0 /\ s.target_utilization # 0

Factor(s) ==
    IF s.growth # None THEN s.growth ELSE IF s.growth_rate # None THEN (1 + s.growth_rate) ^ s.periods ELSE None

\* A rate of the workload under the scenario; target rates scale the average with the peak.
Scaled(load, s, rate) ==
    CASE rate = None            -> None
      [] s.target_rate # None   -> (rate * s.target_rate) \div load.peak_rate
      [] OTHER                  -> IF Factor(s) = None THEN rate ELSE rate * Factor(s)
ScenarioLoad(load, s) ==
    [load EXCEPT !.peak_rate = Scaled(load, s, @), !.average_rate = Scaled(load, s, @),
                 !.batch_interval = IF @ = None \/ Factor(s) = None THEN @ ELSE @ \div Factor(s),
                 !.target_utilization = IF s.target_utilization # None THEN s.target_utilization ELSE @]

ScenarioRefusal(context, s) ==
    LET elements == DOMAIN context.ir.nodes \cup DOMAIN context.ir.connections
        allowed(e) == IF e \in DOMAIN context.ir.nodes THEN Changeable.node ELSE Changeable.connection
    IN CASE ~ ScenarioLegal(s)                                              -> "invalid_scenario"
         [] s.target_rate # None /\ context.load.type = "batch"             -> "not_applicable_to_batch"
         [] \E k \in DOMAIN s.changes : k[1] \notin elements               -> "not_found"
         [] \E k \in DOMAIN s.changes : k[2] \notin allowed(k[1])          -> "not_changeable_here"
         [] OTHER -> LET load == ScenarioLoad(context.load, s)
                     IN IF Quantity(DesignRate(load)) = None \/ ~ WorkloadLegal(load) THEN "out_of_range" ELSE None

ApplyChanges(ir, changes) ==
    LET changed(e, id) == [e EXCEPT !.config = [p \in {k[2] : k \in {q \in DOMAIN changes : q[1] = id}} |-> changes[<<id, p>>]] @@ @]
    IN [ir EXCEPT !.nodes = [n \in DOMAIN @ |-> changed(@[n], n)],
                  !.connections = [c \in DOMAIN @ |-> changed(@[c], c)]]

ScenarioContext(context, s) ==
    [context EXCEPT !.load = ScenarioLoad(@, s), !.ir = ApplyChanges(@, s.changes)]

BottleneckKeys(result) == {<<b.node, b.resource, b.condition>> : b \in result.bottlenecks}
Compare(before, after) ==
    [resources |-> {<<u.node, u.resource>> : u \in before.utilization \cup after.utilization},
     new |-> BottleneckKeys(after) \ BottleneckKeys(before), resolved |-> BottleneckKeys(before) \ BottleneckKeys(after)]

-----------------------------------------------------------------------------
(* What a right result is.                                                  *)

Reaches(ir) ==
    LET edges == {Flows(ir)[c] : c \in DOMAIN Flows(ir)}
    IN FoldLeft(LAMBDA S, i : S \cup {<<p[1][1], p[2][2]>> : p \in {q \in S \X edges : q[1][2] = q[2][1]}}, edges,
                [i \in 1 .. Cardinality(DOMAIN ir.nodes) |-> i])

\* All ways from an entry to a node, as the connections taken.
MaxHops == 3
Walks(ir, entries, n) ==
    LET flows == Flows(ir)
        Longer(W, i) == W \cup {Append(w, c) : <<w, c>> \in {q \in W \X DOMAIN flows : flows[q[1][Len(q[1])]][2] = flows[q[2]][1]}}
        all == FoldLeft(Longer, {<<c>> : c \in {d \in DOMAIN flows : flows[d][1] \in entries}}, [i \in 2 .. MaxHops |-> i])
    IN {w \in all : flows[w[Len(w)]][2] = n}

\* What the workload sends over each of them together, in 1 / 8^MaxHops.
Arriving(context, walks) ==
    LET share(w) == FoldLeft(LAMBDA amount, c : amount * Multiplier(context.ir.connections[c], context.load), DesignRate(context.load), w)
                    * Eighths ^ (MaxHops - Len(w))
    IN FoldSet(LAMBDA w, sum : sum + share(w), 0, walks)

\* Something upstream keeps the demand of n from being known.
Spoilt(context, n) ==
    LET ir     == context.ir
        flows  == Flows(ir)
        before == {m \in DOMAIN ir.nodes : <<m, n>> \in Reaches(ir)}
        into(m) == {c \in DOMAIN flows : flows[c][2] = m}
    IN \/ \E m \in before \cup {n} : <<m, m>> \in Reaches(ir)
       \/ \E m \in before : m \notin Entries(context) /\ into(m) = {}
       \/ \E m \in before \cup {n} : \E c \in into(m) : Multiplier(ir.connections[c], context.load) = None
       \/ \E m \in before \cup {n} : Cardinality({Dimension(Resource(ir.connections[c])) : c \in into(m)}) > 1
       \/ \E m \in before \cup {n} : \E c \in into(m) :
             Arriving(context, {w \in Walks(ir, Entries(context), m) : w[Len(w)] = c}) >= MaxQuantity * Eighths ^ MaxHops

\* The demand of a node is what arrives over all ways to it, and it is
\* reported as incomplete exactly when something upstream is not known.
DemandExact(context, result) ==
    Entries(context) # {} =>
        \A c \in result.components :
            LET demand == {d \in c.demand : d.via # None}
            IN /\ (c.node \in IncompleteNodes(result)) = Spoilt(context, c.node)
               /\ c.node \notin IncompleteNodes(result) =>
                     Total(demand) * Eighths ^ MaxHops = Arriving(context, Walks(context.ir, Entries(context), c.node))

\* What a component states it can take, whichever model says so.
StatedCapacity(node) ==
    {Get(node, "throughput_limit_per_second")}
    \cup {IF Get(node, "replicas") = None \/ Get(node, "throughput_per_replica_per_second") = None \/ node.kind \notin Running THEN None
          ELSE node.config.replicas * node.config.throughput_per_replica_per_second}

\* A component is over its capacity exactly when its demand is known and
\* above a capacity it states, and is not passed as sound when it may be.
BottlenecksExact(context, result) ==
    \A c \in result.components :
        LET stated == {v \in StatedCapacity(context.ir.nodes[c.node]) \ {None} : Quantity(v) # None}
            of == {b \in result.bottlenecks : b.node = c.node /\ b.resource = "work_rate"}
            known == c.node \notin IncompleteNodes(result) /\ Quantity(WorkOf(c.demand)) # None
        IN context.crashing = {} =>
             /\ (\E b \in of : b.condition = "exceeds_capacity") =
                   (known /\ (\E v \in stated : WorkOf(c.demand) > v) /\ 0 \notin stated)
             /\ \A b \in of : b.certainty = "modeled" => known /\ stated # {}
             /\ (known /\ WorkOf(c.demand) > 0 /\ stated = {} /\ \E d \in c.demand : d.via = None) =>
                   \E b \in of : b.certainty = "candidate"

\* results.py: what the types of a result refuse.
ComponentLegal(c) ==
    /\ (c.status = "unsupported") = (c.models = {})
    /\ c.status = "insufficient_input" => c.missing # {}
UtilizationLegal(u) == u.target # None => u.target \in 1 .. One
BottleneckLegal(b) == (b.certainty = "modeled") = (b.utilization.demand # None /\ b.utilization.capacity # None)
ResultLegal(result) ==
    /\ \A c \in result.components : ComponentLegal(c) /\ \A e \in c.limits \cup c.resources : EstimateLegal(e)
    /\ \A u \in result.utilization : UtilizationLegal(u)
    /\ \A b \in result.bottlenecks : BottleneckLegal(b)
    /\ \A c, d \in result.components : c.node = d.node => c = d

\* The result is one its types accept; an estimated component has a known
\* value, one without a model is listed, and a workload that saturates
\* nothing below a multiple is within every known capacity up to it.
ComponentsLegal(result) ==
    /\ ResultLegal(result)
    /\ \A c \in result.components :
          /\ (c.status = "estimated") = (Known(c.limits \cup c.resources) # {})
          /\ c.status = "unsupported" => \E u \in result.unsupported : u[1] = c.node
    /\ Saturation(result) # None =>
          \A u \in result.utilization :
             (u.resource \in LinearResources /\ HasRatio(u)) => u.demand * Saturation(result)[1] <= u.capacity * Saturation(result)[2]
    /\ SaturationComplete(result) => \A b \in result.bottlenecks : b.resource = "work_rate" => b.certainty = "modeled"

CapacityExact(context, result) ==
    DemandExact(context, result) /\ BottlenecksExact(context, result) /\ ComponentsLegal(result)

\* The option is enough for the limit it is about, and nothing less is.
ScalingExact(context, result, scaling) ==
    \A o \in scaling.options :
        LET u == CHOOSE v \in result.utilization : v.node = o.node /\ v.resource = o.resource
            node == context.ir.nodes[o.node]
            each == IF o.resource = "cpu" THEN node.config.cpu_limit_cores ELSE node.config.throughput_per_replica_per_second
            enough(replicas) == u.demand * One <= Goal(u) * each * replicas
        IN o.kind = "horizontal" => enough(o.required) /\ ~ enough(o.required - 1)

\* A workload that only grows multiplies every demand and resolves no
\* demand over its capacity whose amount can still be stated.
ScenarioExact(s, before, result) ==
    (s.changes = <<>> /\ Factor(s) # None /\ s.target_utilization = None /\ IncompleteNodes(before) = IncompleteNodes(result)) =>
        /\ \A c \in result.components :
              c.node \notin IncompleteNodes(result) =>
                  \A b \in {e \in before.components : e.node = c.node} : Total(c.demand) = Factor(s) * Total(b.demand)
        /\ \A k \in Compare(before, result).resolved :
              k[3] = "exceeds_capacity" => \E u \in result.utilization : u.node = k[1] /\ u.resource = k[2] /\ u.demand = None

-----------------------------------------------------------------------------
(* Inputs.                                                                  *)

Stated(p, v) == IF v = None THEN <<>> ELSE p :> v
Node(kind, config) == [kind |-> kind, config |-> config]
Connection(source, target, kind, config) ==
    [source |-> source, target |-> target, kind |-> kind, config |-> config, critical |-> None, interaction |-> None]
Load == [type |-> "request_response", peak_rate |-> 64, average_rate |-> None, batch_size |-> None, batch_interval |-> None, read_ratio |-> 1, request_payload |-> 1, response_payload |-> None,
         target_utilization |-> None]
BatchLoad == [Load EXCEPT !.type = "batch", !.peak_rate = None, !.batch_size = 768, !.batch_interval = 12]
Context(ir, load) == [ir |-> ir, load |-> load, entries |-> None, models |-> DOMAIN Models, crashing |-> {}]

Ratios == [half |-> [traffic_ratio |-> 1], calls |-> [calls_per_request |-> 2], unstated |-> <<>>,
           cached |-> [traffic_ratio |-> 2, cache_hit_ratio |-> 1], read |-> [traffic_ratio |-> 2, access |-> "read"]]
Links == [c \in 11 .. 16 |-> <<<<1, 2>>, <<1, 3>>, <<2, 3>>, <<3, 4>>, <<2, 4>>, <<3, 2>>>>[c - 10]]
TrafficContexts ==
    {Context([nodes |-> <<Node("client", <<>>), Node("service", <<>>), Node("service", [throughput_limit_per_second |-> 40]), Node("database", <<>>)>>,
              connections |-> [c \in {d \in 11 .. 16 : how[d] # "none"} |->
                                 Connection(Links[c][1], Links[c][2],
                                            IF c = 13 THEN of.kind ELSE IF Links[c][2] = 4 THEN "data_access" ELSE "request", Ratios[how[c]])]],
             [Load EXCEPT !.read_ratio = of.read]) :
        how \in {h \in [11 .. 16 -> DOMAIN Ratios \cup {"none"}] :
                   /\ h[11] \in {"none", "half", "calls"} /\ h[12] \in {"none", "half", "unstated"}
                   /\ h[13] \in {"none", "half", "calls"} /\ h[14] \in {"none", "cached", "read"}
                   /\ h[15] \in {"none", "read", "calls"} /\ h[16] \in {"none", "half"}},
        of \in {[kind |-> "request", read |-> 1], [kind |-> "publish", read |-> 1], [kind |-> "request", read |-> None]}}

\* A service that is called by the client, or is itself the entry.
ServiceContexts ==
    {[Context([nodes |-> <<Node("client", <<>>),
                           Node("service", Stated("replicas", replicas) @@ Stated("throughput_per_replica_per_second", each)
                                           @@ Stated("throughput_limit_per_second", limit) @@ Stated("cpu_limit_cores", cores)
                                           @@ [cpu_core_seconds_per_request |-> 1])>>,
               connections |-> 11 :> Connection(1, 2, "request", how)],
              [(IF entries = None THEN Load ELSE BatchLoad) EXCEPT !.target_utilization = target]) EXCEPT !.entries = entries, !.crashing = crashing] :
        replicas \in {None, 0, 2, 3}, each \in {None, 15}, limit \in {None, 30, 64}, cores \in {None, 16},
        how \in {Ratios.half, Ratios.calls, Ratios.unstated}, target \in {None, 1}, entries \in {None, {2}, {9}},
        crashing \in {{}, {"cpu-demand"}}}

\* A database behind a service, with a pool and writes to store.
StoreContexts ==
    {Context([nodes |-> <<Node("client", <<>>), Node("service", Stated("replicas", replicas)),
                          Node("database", Stated("max_connections", most) @@ Stated("storage_bytes", bytes) @@ Stated("retention_seconds", retention))>>,
              connections |-> 11 :> Connection(1, 2, "request", Ratios.half)
                              @@ 12 :> Connection(2, 3, "data_access", Stated("pool_size", pool) @@ Stated("access", access) @@ Ratios.half)],
             [Load EXCEPT !.request_payload = payload]) :
        replicas \in {None, 2}, most \in {None, 6, 8}, bytes \in {None, 100}, retention \in {None, 1, 9}, pool \in {None, 4},
        access \in {None, "write"}, payload \in {None, 1}}

Contexts == TrafficContexts \cup ServiceContexts \cup StoreContexts

NoChange == [growth |-> None, growth_rate |-> None, periods |-> None, target_rate |-> None, target_utilization |-> None, changes |-> <<>>]
Scenarios ==
    {[NoChange EXCEPT !.growth = g] : g \in {0, 2, 3, 4}}
    \cup {[NoChange EXCEPT !.target_rate = 16], [NoChange EXCEPT !.target_rate = 32, !.growth = 2],
          [NoChange EXCEPT !.target_utilization = 1, !.growth = 2],
          [NoChange EXCEPT !.growth_rate = 1, !.periods = 2], [NoChange EXCEPT !.growth_rate = 1],
          [NoChange EXCEPT !.changes = <<2, "replicas">> :> 5], [NoChange EXCEPT !.changes = <<2, "traffic_ratio">> :> 1],
          [NoChange EXCEPT !.changes = <<7, "replicas">> :> 5], [NoChange EXCEPT !.changes = <<11, "traffic_ratio">> :> 1]}
=============================================================================
