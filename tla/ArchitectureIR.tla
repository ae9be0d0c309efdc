---------------------------- MODULE ArchitectureIR ----------------------------
(***************************************************************************)
(* The architecture document: what makes one valid, the semantic edits     *)
(* and the comparison of two documents.                                    *)
(* A node keeps its kind, its parent and its name; a connection its        *)
(* endpoints and kind; assumptions and decisions are the elements that     *)
(* refer to others ("subjects").  Configurations are in the second half.   *)
(***************************************************************************)
EXTENDS Naturals, FiniteSets, Sequences, SequencesExt

CONSTANTS NodeIds, ConnectionIds, AssumptionIds, None, MAX_COMMANDS

\* src/core/architecture_ir/component.py: only a boundary contains nodes, and
\* only the other kinds can be connected.
NodeKind == {"service", "boundary"}
ConnectionKind == {"request", "dependency"}

Node == [kind: NodeKind, parent: NodeIds \cup {None}, name: {"n", "m"}]
Connection == [source: NodeIds, target: NodeIds, kind: ConnectionKind]
\* The documents: each collection is a function from the identifiers in use.
Empty == [nodes |-> <<>>, connections |-> <<>>, subjects |-> <<>>]

Ids(ir) == DOMAIN ir.nodes \cup DOMAIN ir.connections \cup DOMAIN ir.subjects

-----------------------------------------------------------------------------
(* Validity: ArchitectureIR.problems.                                       *)

InContainmentCycle_direct(n, nodes) ==
    LET p == nodes[n].parent
    IN p \in DOMAIN nodes /\ (p = n \/ nodes[p].parent = n)

\* Follow the parents of n; the walk ends at a node seen before.
InContainmentCycle(n, nodes) ==
    LET Parent(m) == IF m \in DOMAIN nodes THEN nodes[m].parent ELSE None
        Walk[k \in 0..Cardinality(NodeIds)] ==
            IF k = 0 THEN Parent(n)
            ELSE IF Walk[k - 1] \in {None, n} THEN Walk[k - 1] ELSE Parent(Walk[k - 1])
    IN Walk[Cardinality(NodeIds)] = n

\* The codes of the problems of n's parent.
ContainmentProblems(nodes) ==
    {<<n, CASE nodes[n].parent \notin DOMAIN nodes             -> "dangling_reference"
            [] nodes[nodes[n].parent].kind # "boundary"        -> "invalid_parent"
            [] OTHER                                           -> "containment_cycle">> :
        n \in {m \in DOMAIN nodes : /\ nodes[m].parent # None
                                    /\ nodes[m].parent \in DOMAIN nodes =>
                                          \/ nodes[nodes[m].parent].kind # "boundary"
                                          \/ InContainmentCycle(m, nodes)}}

ConnectionProblems(ir) ==
    LET c == ir.connections
    IN {x \in DOMAIN c :
          \/ c[x].source = c[x].target
          \/ \E n \in {c[x].source, c[x].target} :
                n \notin DOMAIN ir.nodes \/ ir.nodes[n].kind = "boundary"
          \/ \E y \in DOMAIN c \ {x} : c[y] = c[x]}

ReferenceProblems(ir) ==
    {a \in DOMAIN ir.subjects :
        ~ ir.subjects[a] \subseteq (DOMAIN ir.nodes \cup DOMAIN ir.connections)}

DuplicateIds(ir) ==
    (DOMAIN ir.nodes \cap DOMAIN ir.connections)
        \cup ((DOMAIN ir.nodes \cup DOMAIN ir.connections) \cap DOMAIN ir.subjects)

Valid(ir) ==
    /\ DuplicateIds(ir) = {}
    /\ ContainmentProblems(ir.nodes) = {}
    /\ ConnectionProblems(ir) = {}
    /\ ReferenceProblems(ir) = {}

-----------------------------------------------------------------------------
(* Edits: apply_commands.  A command that does not fit its draft refuses    *)
(* the whole list; so does a result that is not valid.                      *)

Refused == [refused |-> "invalid_architecture_command"]
Invalid == [refused |-> "invalid_architecture"]
\* The uncaught KeyError of a connection that is deleted twice.
Failed  == [refused |-> "internal_error"]
IsRefused(draft) == "refused" \in DOMAIN draft
Without(f, S) == [x \in DOMAIN f \ S |-> f[x]]
With(f, x, v) == [y \in DOMAIN f \cup {x} |-> IF y = x THEN v ELSE f[y]]
Forget(ir, S) == [ir EXCEPT !.subjects = [a \in DOMAIN @ |-> @[a] \ S]]

RemoveNodes_subjectsOfConnectionsKept(ir, removed) ==
    LET attached == {x \in DOMAIN ir.connections :
                        {ir.connections[x].source, ir.connections[x].target} \cap removed # {}}
    IN IF \/ ~ removed \subseteq DOMAIN ir.nodes
          \/ \E n \in DOMAIN ir.nodes \ removed : ir.nodes[n].parent \in removed
       THEN Refused
       ELSE Forget([ir EXCEPT !.nodes = Without(@, removed),
                              !.connections = Without(@, attached)], removed)

RemoveNodes(ir, removed) ==
    LET attached == {x \in DOMAIN ir.connections :
                        {ir.connections[x].source, ir.connections[x].target} \cap removed # {}}
    IN IF \/ ~ removed \subseteq DOMAIN ir.nodes
          \/ \E n \in DOMAIN ir.nodes \ removed : ir.nodes[n].parent \in removed
       THEN Refused
       ELSE Forget([ir EXCEPT !.nodes = Without(@, removed),
                              !.connections = Without(@, attached)],
                   removed \cup attached)

\* ids is the list of the request, in which an identifier may be repeated.
RemoveConnections(ir, ids) ==
    LET removed == ToSet(ids)
    IN IF ~ removed \subseteq DOMAIN ir.connections THEN Refused
       ELSE IF Len(ids) # Cardinality(removed) THEN Failed
       ELSE Forget([ir EXCEPT !.connections = Without(@, removed)], removed)

ApplyOne(ir, c) ==
    CASE c.op = "add_node" ->
            IF c.id \in Ids(ir) THEN Refused
            ELSE [ir EXCEPT !.nodes = With(@, c.id, c.node)]
      [] c.op = "remove_nodes" -> RemoveNodes(ir, c.ids)
      [] c.op = "add_connection" ->
            IF c.id \in Ids(ir) \/ ~ {c.connection.source, c.connection.target} \subseteq DOMAIN ir.nodes
            THEN Refused
            ELSE [ir EXCEPT !.connections = With(@, c.id, c.connection)]
      [] c.op = "remove_connections" -> RemoveConnections(ir, c.ids)
      [] c.op = "rename_node" ->
            IF c.id \in DOMAIN ir.nodes THEN [ir EXCEPT !.nodes[c.id].name = c.name] ELSE Refused

ApplyCommands(ir, commands) ==
    LET Step(draft, c) == IF IsRefused(draft) THEN draft ELSE ApplyOne(draft, c)
        result == FoldLeft(Step, ir, commands)
    IN IF commands = <<>> \/ Len(commands) > MAX_COMMANDS THEN Refused
       ELSE IF IsRefused(result) \/ Valid(result) THEN result ELSE Invalid

-----------------------------------------------------------------------------
(* Comparison: diff.py.  An element is added, removed or modified; of a     *)
(* modified one only the fields that differ are reported.                   *)

FieldChanges_keyFieldsOnly(was, now) ==
    {[field |-> f, after |-> now[f]] : f \in {g \in DOMAIN was \ {"name"} : was[g] # now[g]}}

FieldChanges(was, now) ==
    {[field |-> f, after |-> now[f]] : f \in {g \in DOMAIN was : was[g] # now[g]}}

Elements(old, new) ==
    {[id |-> x, change |-> "added", fields |-> {}] : x \in DOMAIN new \ DOMAIN old}
      \cup {[id |-> x, change |-> "removed", fields |-> {}] : x \in DOMAIN old \ DOMAIN new}
      \cup {[id |-> x, change |-> "modified", fields |-> FieldChanges(old[x], new[x])] :
              x \in {y \in DOMAIN old \cap DOMAIN new : FieldChanges(old[y], new[y]) # {}}}

Diff(before, after) ==
    [nodes |-> Elements(before.nodes, after.nodes),
     connections |-> Elements(before.connections, after.connections),
     subjects |-> Elements([a \in DOMAIN before.subjects |-> [subject_ids |-> before.subjects[a]]],
                           [a \in DOMAIN after.subjects |-> [subject_ids |-> after.subjects[a]]])]

-----------------------------------------------------------------------------
(* Configurations: configuration.py and _configure of commands.py.  Two     *)
(* properties that form an ordered pair stand for the property table: one   *)
(* entry has a type, the kinds it applies to and a least value.             *)

NODE_PROPERTIES ==
    [p \in {"autoscaling_min_replicas", "autoscaling_max_replicas"} |->
        [applies_to |-> {"service"}, minimum |-> 0]]
OrderedPairs == {<<"autoscaling_min_replicas", "autoscaling_max_replicas">>}
Properties == DOMAIN NODE_PROPERTIES

\* values: None is absent.  by: whom each value is attributed to.
Configured == [values: [Properties -> {None, 0, 1}], unknown: SUBSET Properties,
               by: [Properties -> {None, "before"}]]

ConfigurationProblems(c, owner) ==
    {p \in Properties : c.values[p] # None /\ p \in c.unknown}
      \cup {p \in Properties :
              /\ c.values[p] # None \/ p \in c.unknown
              /\ \/ owner \notin NODE_PROPERTIES[p].applies_to
                 \/ c.values[p] # None /\ c.values[p] < NODE_PROPERTIES[p].minimum}
      \cup {pair[1] : pair \in {q \in OrderedPairs : /\ c.values[q[1]] # None
                                                     /\ c.values[q[2]] # None
                                                     /\ c.values[q[1]] > c.values[q[2]]}}

\* What annotation_problems requires of the attributions of an element.
Attributable(c) == \A p \in Properties : c.by[p] # None => c.values[p] # None \/ p \in c.unknown

Changed_always(c, new, p) == TRUE

\* The value now stated for p is attributed to the author of the change.
Changed(c, new, p) == new[p] # c.values[p] \/ p \in c.unknown

\* given is a function from the properties named; None clears one.
Configure(c, given, author) ==
    LET cleared == {p \in DOMAIN given : given[p] = None}
        new     == [p \in Properties |-> IF p \in DOMAIN given THEN given[p] ELSE c.values[p]]
    IN [values  |-> new,
        unknown |-> c.unknown \ DOMAIN given,
        by      |-> [p \in Properties |->
                        CASE p \in cleared                                  -> None
                          [] p \in DOMAIN given \ cleared /\ Changed(c, new, p) -> author
                          [] OTHER                                          -> c.by[p]]]

-----------------------------------------------------------------------------
(* Inputs and properties.                                                   *)

\* Documents with every containment, and documents with every connection and
\* every reference to what they hold.
Documents ==
    {[Empty EXCEPT !.nodes = n] :
        n \in UNION {[S -> [kind: NodeKind, parent: NodeIds \cup {None}, name: {"n"}]] : S \in SUBSET NodeIds}}
      \cup
    UNION {{[nodes |-> [n \in NodeIds |-> [kind |-> "service", parent |-> None, name |-> "n"]],
             connections |-> e, subjects |-> s] :
                s \in [AssumptionIds -> SUBSET (NodeIds \cup DOMAIN e)]} :
             e \in UNION {[S -> {c \in Connection : c.kind = "request"}] : S \in SUBSET ConnectionIds}}

Added == [op: {"add_node"}, id: NodeIds, node: [kind: NodeKind, parent: NodeIds \cup {None}, name: {"n"}]]
Removed == [op: {"remove_nodes"}, ids: SUBSET NodeIds \ {{}}]
Connected == [op: {"add_connection"}, id: ConnectionIds, connection: {c \in Connection : c.source # c.target}]
Disconnected == [op: {"remove_connections"}, ids: SeqOf(ConnectionIds, 2) \ {<<>>}]
Renamed == [op: {"rename_node"}, id: NodeIds, name: {"m"}]

\* One command, or an addition followed by another change of the nodes.
CommandLists ==
    {<<c>> : c \in Added \cup Removed \cup Connected \cup Disconnected \cup Renamed}
      \cup {<<c, d>> : c \in {x \in Added : x.node.kind = "boundary"}, d \in Added \cup Removed}

IsForest(nodes) ==
    \A S \in SUBSET DOMAIN nodes : S # {} => \E n \in S : nodes[n].parent \notin S

\* Apply a diff to the document it starts from.
Patched(old, changes, new) ==
    LET Of(x) == CHOOSE e \in changes : e.id = x
        touched == {e.id : e \in changes}
        gone == {e.id : e \in {d \in changes : d.change = "removed"}}
        come == {e.id : e \in {d \in changes : d.change = "added"}}
        After(x, f) == IF \E g \in Of(x).fields : g.field = f
                       THEN (CHOOSE g \in Of(x).fields : g.field = f).after ELSE old[x][f]
    IN [x \in (DOMAIN old \ gone) \cup come |->
          IF x \in come THEN new[x]
          ELSE IF x \notin touched THEN old[x]
          ELSE [f \in DOMAIN old[x] |-> After(x, f)]]
=============================================================================
