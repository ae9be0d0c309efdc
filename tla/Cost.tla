--------------------------------- MODULE Cost ---------------------------------
(***************************************************************************)
(* engines/cost and core/domain/cost: what the components of a revision    *)
(* cost in a month, from a list of prices and from what a capacity         *)
(* analysis of the same revision says they are used for.  Amounts are      *)
(* whole numbers of the smallest amount that is stored; a sku stands for   *)
(* provider, service and SKU together; a day is a number.  What is not     *)
(* known is None, never zero.                                              *)
(***************************************************************************)
EXTENDS Integers, FiniteSets, Sequences, SequencesExt, FiniteSetsExt, TLC

CONSTANT None

Cap == INSTANCE Capacity

\* Stand-ins for 730 hours, 3600 seconds, 10^9 bytes, 90 days and 10^15.
HoursPerMonth == 4
SecondsPerHour == 2
BytesPerGB == 2
MaxAgeDays == 3
MaxAmount == 100000

Get(node, p) == IF p \in DOMAIN node.config THEN node.config[p] ELSE None
SumOf(f, S) == FoldSet(LAMBDA x, sum : sum + f[x], 0, S)

-----------------------------------------------------------------------------
(* pricing.py and lookup.py.                                                *)

Tier(up_to, price) == [up_to |-> up_to, price |-> price]
FixedUnits == {"month", "hour"}

TiersLegal(tiers) ==
    /\ tiers # <<>>
    /\ \A i \in DOMAIN tiers : (tiers[i].up_to = None) = (i = Len(tiers))
    /\ \A i \in 1 .. Len(tiers) - 1 : tiers[i].up_to > IF i = 1 THEN 0 ELSE tiers[i - 1].up_to
RecordLegal(r) ==
    /\ r.per > 0
    /\ (r.model = "fixed") = (r.unit \in FixedUnits)
    /\ IF r.model = "tiered" THEN r.price = None /\ TiersLegal(r.tiers) ELSE r.tiers = <<>> /\ r.price # None
    /\ r.effective_to # None => r.effective_to > r.effective_from
EffectiveOn(r, day) == r.effective_from <= day /\ (r.effective_to # None => day < r.effective_to)

Least(a, b) == IF a < b THEN a ELSE b
TierStep(quantity, acc, tier) ==
    LET upper == IF tier.up_to = None THEN quantity ELSE tier.up_to
        used  == Least(quantity, upper) - acc.lower
    IN IF acc.done \/ used <= 0 THEN [acc EXCEPT !.done = TRUE]
       ELSE [total |-> acc.total + used * tier.price, lower |-> upper, done |-> FALSE]
\* Half to even.
Rounded(amount, per) ==
    LET whole == amount \div per
        twice == 2 * (amount % per)
    IN whole + IF twice > per \/ (twice = per /\ whole % 2 = 1) THEN 1 ELSE 0
Charge_lastTier(r, quantity) ==
    Rounded(quantity * (IF r.model = "tiered" THEN r.tiers[Len(r.tiers)].price ELSE r.price), r.per)
Charge(r, quantity) ==
    Rounded(IF r.model # "tiered" THEN quantity * r.price
            ELSE FoldLeft(LAMBDA acc, tier : TierStep(quantity, acc, tier), [total |-> 0, lower |-> 0, done |-> FALSE], r.tiers).total,
            r.per)

Stale(r, day) == r.retrieved_at = None \/ day - r.retrieved_at > MaxAgeDays

\* The steps of a lookup, each with what is missing when it leaves nothing.
Steps(records, q) ==
    LET same      == {r \in records : r.sku = q.sku}
        here      == {r \in same : r.region = q.region}
        priced    == {r \in here : r.currency = q.currency}
        effective == {r \in priced : EffectiveOn(r, q.day)}
    IN <<<<same, "price">>, <<here, "price.region">>, <<priced, "price.currency">>, <<effective, "price.effective_date">>,
         <<{r \in effective : q.conditions \subseteq r.conditions}, "price.conditions">>>>
Winners_anyDate(matching) == matching
Winners(matching) == {r \in matching : \A o \in matching : o.effective_from <= r.effective_from}

NoPrice(missing) == [record |-> None, missing |-> missing]
Lookup(records, q) ==
    LET steps   == Steps(records, q)
        failed  == {i \in DOMAIN steps : steps[i][1] = {}}
        winners == Winners(steps[Len(steps)][1])
    IN IF failed # {} THEN NoPrice(steps[Min(failed)][2])
       ELSE IF Cardinality(winners) > 1 THEN NoPrice("price.unambiguous")
       ELSE IF \E r \in winners : r.unit # q.unit THEN NoPrice("price.unit")
       ELSE [record |-> CHOOSE r \in winners : TRUE, missing |-> None]

-----------------------------------------------------------------------------
(* capacity.py and usage.py: monthly usage, as the capacity analysis        *)
(* establishes it.                                                          *)

IncompleteDemand == {"demand_incomplete", "cyclic_traffic", "mixed_work_units", "demand_overflow", "routing_unspecified"}
Basis(load, result, scaling) ==
    [load |-> load, components |-> result.components,
     incomplete |-> {u[1] : u \in {v \in result.unsupported : v[2] \in IncompleteDemand}},
     no_entry |-> \E u \in result.unsupported : u[2] = "no_entry",
     scaling |-> {o \in scaling.options : o.kind = "horizontal"}]
DemandKnown(basis, n) == ~ basis.no_entry /\ n \notin basis.incomplete
RequiredReplicas(basis, n) ==
    LET required == {o.required : o \in {p \in basis.scaling : p.node = n}}
    IN IF required = {} THEN None ELSE Max(required)

\* The sustained part of what the analysis designed for.
Sustained(basis, design) ==
    IF basis.load.type = "batch" THEN design
    ELSE IF basis.load.average_rate = None THEN None ELSE (design * basis.load.average_rate) \div Cap!DesignRate(basis.load)

Usage(quantity, missing) == [quantity |-> quantity, missing |-> missing]
Monthly(basis, design, periods) ==
    IF Sustained(basis, design) = None THEN Usage(None, {"workload.average_rate"}) ELSE Usage(Sustained(basis, design) * periods, {})

ComponentOf(basis, n) == {c \in basis.components : c.node = n}
Estimated(c, resource) == {e \in c.resources : e.resource = resource}
Unestimated(c, resource) ==
    LET lacks == UNION {e.missing : e \in Estimated(c, resource)}
    IN Usage(None, IF lacks = {} THEN {"capacity." \o resource} ELSE lacks)

Work(c, basis, hours) ==
    IF ~ DemandKnown(basis, c.node) THEN Usage(None, {"capacity.demand"})
    ELSE IF Cap!MixedUnits(c.demand) THEN Usage(None, {"capacity.mixed_work_units"})
    ELSE Monthly(basis, Cap!Total(c.demand), hours * SecondsPerHour)
Transfer(c, basis, hours, direction) ==
    IF ~ \E e \in Estimated(c, "bandwidth") : e.value # None THEN Unestimated(c, "bandwidth")
    ELSE LET design == IF direction = "egress" THEN Cap!Egress(c.demand, basis.load) ELSE Cap!Ingress(c.demand, basis.load)
             month  == Monthly(basis, design, hours * SecondsPerHour)
         IN IF month.quantity = None THEN month ELSE Usage(month.quantity \div BytesPerGB, {})
StoredUsage(c, basis) ==
    IF ~ \E e \in Estimated(c, "storage") : e.value # None THEN Unestimated(c, "storage")
    ELSE Monthly(basis, (CHOOSE e \in Estimated(c, "storage") : TRUE).value \div BytesPerGB, 1)

Measured(n, context, what) ==
    IF context.basis = None THEN Usage(None, {"capacity." \o what})
    ELSE IF ComponentOf(context.basis, n) = {} THEN Usage(None, {"capacity.component"})
    ELSE LET c == CHOOSE d \in ComponentOf(context.basis, n) : TRUE
         IN CASE what = "requests" -> Work(c, context.basis, context.hours)
              [] what = "transfer" -> Transfer(c, context.basis, context.hours, "egress")
              [] what = "ingested" -> Transfer(c, context.basis, context.hours, "ingress")
              [] what = "stored"   -> StoredUsage(c, context.basis)

-----------------------------------------------------------------------------
(* mapping.py and the models: what to bill for a node.                      *)

\* The region of the node or of the nearest boundary around it that has one.
RECURSIVE Region(_, _)
Region(nodes, n) ==
    IF Get(nodes[n], "region") # None THEN Get(nodes[n], "region")
    ELSE IF nodes[n].parent = None THEN None ELSE Region(nodes, nodes[n].parent)

MainSku(node, instance_class) ==
    IF Get(node, "pricing_sku") # None THEN Get(node, "pricing_sku")
    ELSE IF instance_class THEN Get(node, "instance_class") ELSE None
StorageSku(node) == Get(node, "pricing_storage_sku")

Charged(resource, kind, unit, sku, usage) ==
    [resource |-> resource, kind |-> kind, unit |-> unit, sku |-> sku, quantity |-> usage.quantity, missing |-> usage.missing, stepwise |-> FALSE]

Replicas(n, node, context) ==
    LET required == IF context.from_capacity /\ context.basis # None THEN RequiredReplicas(context.basis, n) ELSE None
    IN IF required # None THEN required ELSE Get(node, "replicas")
InstanceHours(n, node, context) ==
    LET count == Replicas(n, node, context)
    IN [Charged("instances", "fixed", "instance_hour", MainSku(node, TRUE),
                IF count = None THEN Usage(None, {"configuration.replicas"}) ELSE Usage(count * context.hours, {}))
        EXCEPT !.stepwise = context.from_capacity /\ context.basis # None /\ RequiredReplicas(context.basis, n) # None]
Hourly(node, context) ==
    Charged("hours", "fixed", "hour", MainSku(node, TRUE),
            Usage((IF Get(node, "replicas") = None THEN 1 ELSE Get(node, "replicas")) * context.hours, {}))
Subscription(node) == Charged("subscription", "fixed", "month", MainSku(node, FALSE), Usage(1, {}))
Provisioned(node, sku) ==
    Charged("storage", "fixed", "gb_month", sku,
            IF Get(node, "storage_bytes") = None THEN Usage(None, {"configuration.storage_bytes"})
            ELSE Usage(node.config.storage_bytes \div BytesPerGB, {}))
Requests(n, node, context) == Charged("requests", "usage", "request", MainSku(node, FALSE), Measured(n, context, "requests"))
DeclaresStorage(node) == Get(node, "storage_bytes") # None \/ StorageSku(node) # None

Serverless(node) == Get(node, "deployment_model") = "serverless"
OnPremises(node) == Get(node, "deployment_model") = "on_premises"
NotBilled == {"client", "boundary"}

ComputeCharges(n, node, context) == {IF Serverless(node) THEN Requests(n, node, context) ELSE InstanceHours(n, node, context)}
DatabaseCharges(n, node, context) ==
    ComputeCharges(n, node, context) \cup IF node.kind = "cache" THEN {} ELSE {Provisioned(node, StorageSku(node))}
MessagingCharges(n, node, context) ==
    IF Serverless(node) THEN {Requests(n, node, context)}
    ELSE {InstanceHours(n, node, context)} \cup IF DeclaresStorage(node) THEN {Provisioned(node, StorageSku(node))} ELSE {}
ObservabilityCharges(n, node, context) ==
    IF Get(node, "deployment_model") \in {"managed_service", "serverless"}
    THEN {Charged("ingestion", "usage", "gb", MainSku(node, FALSE), Measured(n, context, "ingested"))}
    ELSE {InstanceHours(n, node, context)} \cup IF DeclaresStorage(node) THEN {Provisioned(node, StorageSku(node))} ELSE {}
NetworkCharges(n, node, context) ==
    {IF node.kind = "cdn" THEN Charged("data_transfer", "usage", "gb", MainSku(node, FALSE), Measured(n, context, "transfer"))
     ELSE Hourly(node, context)}
\* The measured volume, else the declared one.
StorageCharges(n, node, context) ==
    LET measured == Measured(n, context, "stored")
        usage    == Charged("storage", "usage", "gb_month", MainSku(node, FALSE), measured)
    IN IF context.basis = None THEN {Provisioned(node, MainSku(node, FALSE))}
       ELSE IF measured.quantity # None THEN {usage}
       ELSE IF Get(node, "storage_bytes") # None THEN {Provisioned(node, MainSku(node, FALSE))}
       ELSE {[usage EXCEPT !.missing = @ \cup {"configuration.storage_bytes"}]}

ModelOf == [service |-> "compute", worker |-> "compute", gateway |-> "compute", database |-> "database", cache |-> "database",
            storage |-> "storage", load_balancer |-> "networking", cdn |-> "networking", queue |-> "messaging",
            observability |-> "observability", external |-> "external"]
Category == [compute |-> "compute", database |-> "database", storage |-> "storage", networking |-> "network",
             messaging |-> "messaging", observability |-> "observability", external |-> "managed_service"]
Charges(n, node, context) ==
    CASE ModelOf[node.kind] = "compute"       -> ComputeCharges(n, node, context)
      [] ModelOf[node.kind] = "database"      -> DatabaseCharges(n, node, context)
      [] ModelOf[node.kind] = "storage"       -> StorageCharges(n, node, context)
      [] ModelOf[node.kind] = "networking"    -> NetworkCharges(n, node, context)
      [] ModelOf[node.kind] = "messaging"     -> MessagingCharges(n, node, context)
      [] ModelOf[node.kind] = "observability" -> ObservabilityCharges(n, node, context)
      [] ModelOf[node.kind] = "external"      -> {Subscription(node)}

-----------------------------------------------------------------------------
(* calculator.py: every charge is priced in the same way.                   *)

PricedLine(line, quantity, found) ==
    IF found.record = None THEN [line EXCEPT !.missing = {found.missing}]
    ELSE IF Charge(found.record, quantity) >= MaxAmount THEN [line EXCEPT !.missing = {"magnitude"}]
    ELSE [line EXCEPT !.monthly = Charge(found.record, quantity), !.price = found.record]
Price(n, node, c, context) ==
    LET region == Region(context.ir.nodes, n)
        missing == (IF c.missing # {} THEN c.missing ELSE IF c.quantity = None THEN {"quantity"} ELSE {})
                   \cup {m[1] : m \in {x \in {<<"configuration.pricing_sku", c.sku>>, <<"configuration.region", region>>,
                                              <<"project.cloud_provider", context.provider>>} : x[2] = None}}
        line == [node |-> n, resource |-> c.resource, category |-> IF c.resource = "storage" THEN "storage" ELSE Category[ModelOf[node.kind]],
                 kind |-> c.kind, quantity |-> c.quantity, monthly |-> None, price |-> None, stepwise |-> c.stepwise, missing |-> missing]
    IN IF missing # {} THEN line
       ELSE PricedLine(line, c.quantity,
                       Lookup(context.records, [sku |-> c.sku, region |-> region, currency |-> context.currency, day |-> context.day, unit |-> c.unit,
                                                conditions |-> IF Get(node, "pricing_conditions") = None THEN {} ELSE node.config.pricing_conditions]))

\* Only the model of external services also prices what runs on premises.
NodeLines(n, context) ==
    LET node == context.ir.nodes[n]
    IN CASE node.kind \notin DOMAIN ModelOf           -> [lines |-> {}, unsupported |-> {<<n, "no_cost_model">>}]
         [] ModelOf[node.kind] \in context.crashing   -> [lines |-> {}, unsupported |-> {<<n, "model_failed">>}]
         [] OnPremises(node) /\ node.kind # "external" -> [lines |-> {}, unsupported |-> {<<n, "on_premises">>}]
         [] OTHER -> [lines |-> {Price(n, node, c, context) : c \in Charges(n, node, context)}, unsupported |-> {}]

Billed(context) == {n \in DOMAIN context.ir.nodes : context.ir.nodes[n].kind \notin NotBilled}
Analyze(context) ==
    LET of    == [n \in Billed(context) |-> NodeLines(n, context)]
        lines == UNION {of[n].lines : n \in Billed(context)}
    IN [lines |-> lines, unsupported |-> UNION {of[n].unsupported : n \in Billed(context)},
        limitations |->
            {"estimate_not_invoice"}
            \cup (IF \E l \in lines : l.price # None /\ Stale(l.price, context.day) THEN {"stale_pricing"} ELSE {})
            \cup (IF context.provider = None THEN {"no_provider"} ELSE {})
            \cup (IF context.basis # None THEN {"capacity_usage"}
                  ELSE IF \E l \in lines : l.missing \cap {"capacity." \o w : w \in {"requests", "transfer", "ingested", "stored"}} # {}
                  THEN {"no_capacity_analysis"} ELSE {})]

-----------------------------------------------------------------------------
(* results.py and aggregation.py.                                           *)

Priced(lines) == {l \in lines : l.monthly # None}
Sum(lines) == FoldSet(LAMBDA l, sum : sum + l.monthly, 0, Priced(lines))
Status(result) ==
    CASE Priced(result.lines) = {} -> IF result.lines = {} THEN "unsupported" ELSE "insufficient_pricing"
      [] OTHER -> IF Priced(result.lines) = result.lines /\ result.unsupported = {} THEN "completed" ELSE "partial"
Totals(result) ==
    [monthly |-> Sum(result.lines), unknown |-> Cardinality(result.lines \ Priced(result.lines)), unsupported |-> Cardinality(result.unsupported)]
Complete(totals) == totals.unknown = 0 /\ totals.unsupported = 0

Sensitivity(l) ==
    IF l.price = None THEN None
    ELSE IF l.kind = "usage" THEN (IF l.price.model = "tiered" THEN "tiered" ELSE "linear")
    ELSE IF l.stepwise THEN "stepwise" ELSE "fixed"

\* The value by which a view groups a line.
Views == {"component", "resource", "category", "kind", "region", "sensitivity"}
GroupOf(view, l) ==
    CASE view = "component"   -> l.node
      [] view = "resource"    -> l.resource
      [] view = "category"    -> l.category
      [] view = "kind"        -> l.kind
      [] view = "region"      -> IF l.price = None THEN None ELSE l.price.region
      [] view = "sensitivity" -> Sensitivity(l)
\* Largest first.
Breakdown_knownOnly(lines, view) ==
    LET group(k) == {l \in Priced(lines) : GroupOf(view, l) = k}
    IN {[key |-> k, monthly |-> Sum(group(k)), priced |-> Cardinality(group(k)), unknown |-> 0] : k \in {GroupOf(view, l) : l \in Priced(lines)}}
Breakdown(lines, view) ==
    LET group(k) == {l \in lines : GroupOf(view, l) = k}
    IN {[key |-> k, monthly |-> Sum(group(k)), priced |-> Cardinality(Priced(group(k))),
         unknown |-> Cardinality(group(k) \ Priced(group(k)))] : k \in {GroupOf(view, l) : l \in lines}}
Largest(shares) ==
    LET known == {s \in shares : s.priced > 0}
    IN IF known = {} THEN None ELSE (CHOOSE s \in known : \A t \in known : t.monthly <= s.monthly).monthly
Summarize(result) ==
    LET lines == result.lines
    IN [status |-> Status(result), totals |-> Totals(result), views |-> [v \in Views |-> Breakdown(lines, v)],
        unknown |-> lines \ Priced(lines),
        largest |-> Largest(Breakdown(lines, "component")),
        fixed |-> Sum({l \in lines : l.kind = "fixed"}), usage |-> Sum({l \in lines : l.kind = "usage"}),
        sensitive |-> Sum({l \in Priced(lines) : Sensitivity(l) # "fixed"})]

-----------------------------------------------------------------------------
(* The capacity analysis that a request cites, and scenarios.               *)

\* capacity.py, check: another revision's analysis is refused, never combined.
Citations == [none |-> None, current |-> None, another_revision |-> "revision", failed |-> "no_result"]
Incompatible(context) == Citations[context.cited]

ChangesWorkload(s) == Cap!Factor(s.scenario) # None \/ s.scenario.target_rate # None
ProjectionRefusal(context, s) ==
    LET capacity == Cap!ScenarioRefusal(Cap!Context(context.ir, context.load), s.scenario)
    IN CASE ~ Cap!ScenarioLegal(s.scenario)                             -> "invalid_scenario"
         [] s.hours # None /\ s.hours \notin 1 .. HoursPerMonth         -> "operating_hours_per_month"
         [] context.basis = None /\ (ChangesWorkload(s) \/ s.from_capacity = TRUE) -> "needs_capacity_analysis"
         [] capacity # None                                             -> capacity
         [] OTHER -> IF context.basis # None /\ context.models_changed THEN "capacity_models_changed" ELSE None
\* What the projected run starts from; its capacity is computed anew.
Project(context, s) ==
    [context EXCEPT !.ir = Cap!ApplyChanges(@, s.scenario.changes), !.load = Cap!ScenarioLoad(@, s.scenario), !.basis = None,
                    !.hours = IF s.hours = None THEN @ ELSE s.hours,
                    !.from_capacity = IF s.from_capacity = None THEN @ ELSE s.from_capacity = TRUE]

LineAt(lines, k) == {l \in lines : <<l.node, l.resource>> = k}
Keys(lines) == {<<l.node, l.resource>> : l \in lines}
Amounts(lines, k) == {l.monthly : l \in LineAt(lines, k)}
Quantities(lines, k) == {l.quantity : l \in LineAt(lines, k)}
Same_byTotal(before, after, k) == Amounts(before, k) = Amounts(after, k)
Same(before, after, k) ==
    /\ LineAt(before, k) # {} /\ LineAt(after, k) # {}
    /\ None \notin Amounts(before, k) \cup Amounts(after, k)
    /\ Quantities(before, k) = Quantities(after, k) /\ Amounts(before, k) = Amounts(after, k)
Deltas(before, after) ==
    {[key |-> k, before |-> Amounts(before, k), after |-> Amounts(after, k)] :
        k \in {x \in Keys(before) \cup Keys(after) : ~ Same(before, after, x)}}
Comparison(before, after) ==
    LET complete == Complete(Totals(before)) /\ Complete(Totals(after))
        base     == Totals(before).monthly
    IN [changed |-> Deltas(before.lines, after.lines), complete |-> complete,
        difference |-> Totals(after).monthly - base,
        undefined |-> IF ~ complete THEN "incomplete" ELSE IF base = 0 THEN "zero_baseline" ELSE None]

-----------------------------------------------------------------------------
(* What a right result is.                                                  *)

\* Unit by unit: each costs what the first tier costs that reaches it.
UnitPrice(r, i) ==
    IF r.model # "tiered" THEN r.price
    ELSE r.tiers[Min({t \in DOMAIN r.tiers : r.tiers[t].up_to = None \/ i <= r.tiers[t].up_to})].price
AmountOf(r, quantity) == Rounded(SumOf([i \in 1 .. quantity |-> UnitPrice(r, i)], 1 .. quantity), r.per)

\* The prices that could apply to a line on the day.
Candidates(context, sku, region, conditions) ==
    {r \in context.records : /\ r.sku = sku /\ r.region = region /\ r.currency = context.currency
                             /\ r.effective_from <= context.day /\ (r.effective_to = None \/ r.effective_to > context.day)
                             /\ conditions \subseteq r.conditions}

\* A line is priced with the one price that applies and is the latest, and
\* its amount is that of its units one by one; if it is not priced something
\* is missing, and a line for which nothing is missing is priced.
LinesExact(context, result) ==
    \A l \in result.lines :
        LET node == context.ir.nodes[l.node]
            conditions == IF Get(node, "pricing_conditions") = None THEN {} ELSE node.config.pricing_conditions
        IN /\ (l.monthly = None) = (l.missing # {}) /\ (l.monthly = None) = (l.price = None)
           /\ l.price # None =>
                 LET could == Candidates(context, l.price.sku, Region(context.ir.nodes, l.node), conditions)
                 IN /\ context.provider # None /\ l.price \in could
                    /\ \A r \in could \ {l.price} : r.effective_from < l.price.effective_from
                    /\ l.monthly = AmountOf(l.price, l.quantity) /\ l.monthly < MaxAmount
           /\ \A c \in Charges(l.node, node, context) :
                 LET could == Candidates(context, c.sku, Region(context.ir.nodes, l.node), conditions)
                 IN c.resource = l.resource =>
                       /\ l.missing \in {{"price"}, {"price.region"}, {"price.currency"}, {"price.effective_date"}, {"price.conditions"}} => could = {}
                       /\ l.missing = {"price.unambiguous"} =>
                             \E r, o \in could : r # o /\ \A x \in could : x.effective_from <= r.effective_from /\ x.effective_from <= o.effective_from

\* Nothing is left out and nothing is added: every component that is billed
\* has a line or is reported, no resource has two lines, the groups of every
\* view add up to the total, which is complete only when all is known.
TotalsExact(context, result, summary) ==
    /\ Billed(context) = {l.node : l \in result.lines} \cup {u[1] : u \in result.unsupported}
    /\ Cardinality(Keys(result.lines)) = Cardinality(result.lines)
    /\ \A v \in Views :
          /\ summary.totals.monthly = FoldSet(LAMBDA s, sum : sum + s.monthly, 0, summary.views[v])
          /\ Cardinality(result.lines) = FoldSet(LAMBDA s, sum : sum + s.priced + s.unknown, 0, summary.views[v])
    /\ summary.fixed + summary.usage = summary.totals.monthly
    /\ (summary.status = "completed") = (Complete(summary.totals) /\ result.lines # {})
    /\ Complete(summary.totals) => \A l \in result.lines : l.monthly # None

\* A usage that is billed rests on demand that the capacity analysis knows,
\* and the replicas that are billed are enough where it requires some.
UsageExact(context, result) ==
    \A l \in Priced(result.lines) :
        /\ l.kind = "usage" => context.basis # None /\ (l.resource = "requests" => DemandKnown(context.basis, l.node))
        /\ (l.resource = "instances" /\ context.from_capacity /\ context.basis # None) =>
              \A o \in context.basis.scaling : o.node = l.node => o.required * context.hours <= l.quantity

\* What a comparison lists explains its difference, and a workload that only
\* grows makes nothing cheaper.
ComparisonExact(s, before, after, comparison) ==
    /\ comparison.complete =>
          comparison.difference = FoldSet(LAMBDA d, sum : sum + SumOf([x \in d.after |-> x], d.after) - SumOf([x \in d.before |-> x], d.before),
                                          0, comparison.changed)
    /\ \A l \in (before.lines \cup after.lines) \ Priced(before.lines \cup after.lines) :
          \E d \in comparison.changed : d.key = <<l.node, l.resource>>
    /\ (s.scenario.changes = <<>> /\ s.hours = None /\ s.from_capacity = None) =>
          \A b \in Priced(before.lines), a \in Priced(after.lines) :
             (<<a.node, a.resource>> = <<b.node, b.resource>> /\ a.kind = b.kind) => a.monthly >= b.monthly

-----------------------------------------------------------------------------
(* Inputs.                                                                  *)

Record(sku, unit, price) ==
    [sku |-> sku, region |-> "near", currency |-> "EUR", unit |-> unit, per |-> 1, model |-> IF unit \in FixedUnits THEN "fixed" ELSE "per_unit",
     price |-> price, tiers |-> <<>>, conditions |-> {}, effective_from |-> 1, effective_to |-> None, retrieved_at |-> 5]
Today == 6
Node(kind, config, parent) == [kind |-> kind, config |-> config, parent |-> parent]
\* Only legal prices are stored.
Context(ir, records) ==
    [ir |-> ir, load |-> Cap!Load, records |-> {r \in records : RecordLegal(r)}, currency |-> "EUR", day |-> Today, provider |-> "provider", hours |-> HoursPerMonth,
     from_capacity |-> FALSE, crashing |-> {}, models_changed |-> FALSE, cited |-> "none", basis |-> None]
Alone(nodes) == [nodes |-> nodes, connections |-> <<>>]

\* A service whose price is looked for among prices that all nearly apply.
Hourly3 == Record("small", "instance_hour", 3)
Offers ==
    {Hourly3, [Hourly3 EXCEPT !.effective_from = 4, !.price = 5], [Hourly3 EXCEPT !.effective_from = 4, !.retrieved_at = None],
     [Hourly3 EXCEPT !.effective_from = 7], [Hourly3 EXCEPT !.effective_to = 6], [Hourly3 EXCEPT !.effective_to = 7, !.retrieved_at = 2],
     [Hourly3 EXCEPT !.region = "far"], [Hourly3 EXCEPT !.currency = "USD"], [Hourly3 EXCEPT !.conditions = {"reserved"}],
     Record("small", "hour", 2), Record("large", "instance_hour", 7), [Hourly3 EXCEPT !.price = MaxAmount, !.effective_from = 5]}
LookupContexts ==
    {[Context(Alone(<<Node("service", [replicas |-> 2] @@ Cap!Stated("pricing_sku", of.sku) @@ Cap!Stated("instance_class", of.class)
                                      @@ Cap!Stated("region", of.region) @@ Cap!Stated("pricing_conditions", of.conditions), 2),
                      Node("boundary", Cap!Stated("region", of.outer), None)>>), records)
      EXCEPT !.provider = of.provider, !.crashing = of.crashing] :
        records \in {S \in SUBSET Offers : Cardinality(S) <= 2},
        of \in {x \in [sku : {None, "small"}, class : {None, "large"}, region : {None, "far"}, outer : {None, "near"},
                       conditions : {None, {"reserved"}}, provider : {"provider"}, crashing : {{}}] :
                   x.sku = None \/ x.class = None => x.region = None}
               \cup {[sku |-> "small", class |-> None, region |-> "near", outer |-> None, conditions |-> None, provider |-> None, crashing |-> {}],
                     [sku |-> "small", class |-> None, region |-> "near", outer |-> None, conditions |-> None, provider |-> "provider", crashing |-> {"compute"}]}}

\* An amount at, below and above the edges of its tiers.
TierContexts ==
    {[Context(Alone(<<Node("service", Cap!Stated("replicas", replicas) @@ [pricing_sku |-> "small", region |-> "near"], None)>>),
              {[Hourly3 EXCEPT !.model = "tiered", !.price = None, !.per = per, !.tiers = tiers]}) EXCEPT !.hours = hours] :
        replicas \in {None} \cup 0 .. 4, hours \in 1 .. HoursPerMonth, per \in 1 .. 3,
        tiers \in {<<Tier(None, 3)>>, <<Tier(4, 5), Tier(None, 1)>>, <<Tier(4, 0), Tier(10, 3), Tier(None, 2)>>,
                  <<Tier(4, 1), Tier(4, 2), Tier(None, 1)>>}}

\* Every kind of component, with and without usage that is measured.
PriceList == {Record("class", "instance_hour", 3), Record("hours", "hour", 2), Record("calls", "request", 1), Record("volume", "gb", 4),
              Record("disk", "gb_month", 2), Record("plan", "month", 9)}
Kinds == DOMAIN ModelOf \cup {"client"}
KindLoad(average) == [Cap!Load EXCEPT !.peak_rate = 16, !.average_rate = average, !.response_payload = 1]
SkusOf(kind) ==
    CASE kind = "storage" -> {"disk"} [] kind = "cdn" -> {"volume"} [] kind = "load_balancer" -> {"hours"} [] kind = "external" -> {"plan"}
      [] kind = "observability" -> {"class", "volume"} [] OTHER -> {"class", "calls"}
KindInputs ==
    {x \in [kind : Kinds, deployment : {None, "serverless", "managed_service", "on_premises"}, bytes : {None, 8}, replicas : {None, 2},
            sku : {"class", "hours", "calls", "volume", "disk", "plan"}, storage : {None, "disk"},
            how : {[traffic_ratio |-> 2, access |-> "write"], <<>>},
            cited : {[as |-> "none", average |-> None], [as |-> "current", average |-> None], [as |-> "current", average |-> 8]}] :
        /\ x.sku \in SkusOf(x.kind)
        /\ x.deployment \in {"on_premises", "managed_service"} => x.kind \in {"observability", "external", "service"}
        /\ x.storage # None => x.kind \in {"database", "queue", "observability"}
        /\ x.bytes # None => x.kind \in {"database", "queue", "observability", "storage"}
        /\ x.how = <<>> => x.replicas = 2 /\ x.cited.average # None}
KindContexts ==
    {[Context([nodes |-> <<Node("client", <<>>, None),
                           Node(x.kind, [region |-> "near", throughput_per_replica_per_second |-> 4, retention_seconds |-> 2, pricing_sku |-> x.sku]
                                        @@ Cap!Stated("deployment_model", x.deployment) @@ Cap!Stated("storage_bytes", x.bytes)
                                        @@ Cap!Stated("replicas", x.replicas) @@ Cap!Stated("pricing_storage_sku", x.storage), None)>>,
               connections |-> 11 :> Cap!Connection(1, 2, IF x.kind \in {"database", "storage"} THEN "data_access" ELSE "request", x.how)],
              PriceList)
      EXCEPT !.load = IF x.cited.as = "none" THEN Cap!Load ELSE KindLoad(x.cited.average), !.cited = x.cited.as,
             !.from_capacity = x.cited.as = "current"] : x \in KindInputs}
Citing ==
    {[c EXCEPT !.cited = cited, !.models_changed = TRUE] :
        cited \in {"current", "another_revision", "failed"},
        c \in {d \in TierContexts : d.hours = 1}}
Contexts == LookupContexts \cup TierContexts \cup KindContexts \cup Citing

NoChange == [scenario |-> Cap!NoChange, hours |-> None, from_capacity |-> None]
Scenarios ==
    {NoChange, [NoChange EXCEPT !.scenario.growth = 2], [NoChange EXCEPT !.scenario.changes = <<2, "replicas">> :> 3],
     [NoChange EXCEPT !.scenario.changes = <<1, "replicas">> :> 3], [NoChange EXCEPT !.hours = 2], [NoChange EXCEPT !.hours = 0],
     [NoChange EXCEPT !.from_capacity = TRUE], [NoChange EXCEPT !.from_capacity = FALSE, !.scenario.growth = 2]}
=============================================================================
