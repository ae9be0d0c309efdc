------------------------------ MODULE StepGraph ------------------------------
(***************************************************************************)
(* engines/migration/dependency_graph.py and the stages of sequencing.py:  *)
(* which steps wait for which.  A graph maps every step to the steps it    *)
(* depends on, some of which may not exist; steps are ordered by key, here *)
(* by number.                                                              *)
(***************************************************************************)
EXTENDS Naturals, FiniteSets, Sequences, SequencesExt, FiniteSetsExt

Edges(g, n) == SetToSortSeq(g[n] \cap DOMAIN g, <)
Unknown(g) == {n \in DOMAIN g : ~ g[n] \subseteq DOMAIN g}

\* f applied n times; f leaves a finished state alone.
Iterate(f(_), state, n) == FoldLeft(LAMBDA s, i : f(s), state, [i \in 1 .. n |-> i])
Enough(g) == Cardinality(DOMAIN g) * (Cardinality(DOMAIN g) + 1)

-----------------------------------------------------------------------------
(* Tarjan's components, with an explicit stack of half-read edge lists.     *)

Enter(t, n, g) ==
    [t EXCEPT !.index = @ @@ (n :> Cardinality(DOMAIN t.index)),
              !.low   = @ @@ (n :> Cardinality(DOMAIN t.index)),
              !.stack = Append(@, n),
              !.work  = Append(@, [node |-> n, edges |-> Edges(g, n)])]

OnStack(t) == ToSet(t.stack)

\* The edges that still matter: to a step not met yet, or to one on the stack.
Live(t, edges) == SelectSeq(edges, LAMBDA e : e \notin DOMAIN t.index \/ e \in OnStack(t))

After(edges, e) == SubSeq(edges, 1 + CHOOSE i \in DOMAIN edges : edges[i] = e, Len(edges))

Lower(t, n, value) == IF value < t.low[n] THEN [t EXCEPT !.low[n] = value] ELSE t

Follow(t, g) ==
    LET node == Last(t.work).node
        next == Head(Live(t, Last(t.work).edges))
        rest == [t EXCEPT !.work[Len(t.work)].edges = After(@, next)]
    IN IF next \in DOMAIN t.index THEN Lower(rest, node, t.index[next]) ELSE Enter(rest, next, g)

\* The step is left: its component ends with it when nothing lower was found.
Leave(t) ==
    LET node == Last(t.work).node
        work == Front(t.work)
        up   == IF work = <<>> THEN [t EXCEPT !.work = work]
                ELSE Lower([t EXCEPT !.work = work], Last(work).node, t.low[node])
        at   == CHOOSE i \in DOMAIN t.stack : t.stack[i] = node
        group == {t.stack[i] : i \in at .. Len(t.stack)}
    IN IF t.low[node] # t.index[node] THEN up
       ELSE [up EXCEPT !.stack = SubSeq(@, 1, at - 1),
                       !.groups = IF Cardinality(group) > 1 THEN @ \cup {group} ELSE @]

TarjanStep(t, g) ==
    LET fresh == DOMAIN g \ DOMAIN t.index
    IN IF t.work # <<>>
       THEN IF Live(t, Last(t.work).edges) # <<>> THEN Follow(t, g) ELSE Leave(t)
       ELSE IF fresh = {} THEN t ELSE Enter(t, Min(fresh), g)

Cycles(g) ==
    LET Advance(t) == TarjanStep(t, g)
    IN Iterate(Advance, [index |-> <<>>, low |-> <<>>, stack |-> <<>>, work |-> <<>>, groups |-> {}],
               Enough(g)).groups

-----------------------------------------------------------------------------
(* Ancestors, Kahn's order, levels and stages.                              *)

Ancestors(g, n) ==
    LET Widen(S) == S \cup UNION {g[m] \cap DOMAIN g : m \in S}
    IN Iterate(Widen, g[n] \cap DOMAIN g, Cardinality(DOMAIN g))

\* The freed steps are appended, and the list is not sorted again.
Kahn_unsorted(k) ==
    IF k.ready = <<>> THEN k
    ELSE LET n == Head(k.ready)
             waiting == [m \in DOMAIN k.waiting |-> k.waiting[m] \ {n}]
             freed == {m \in DOMAIN waiting : n \in k.waiting[m] /\ waiting[m] = {}}
         IN [ready |-> Tail(k.ready) \o SetToSortSeq(freed, <), waiting |-> waiting,
             done |-> Append(k.done, n)]

Kahn(k) ==
    IF k.ready = <<>> THEN k
    ELSE LET n == Head(k.ready)
             waiting == [m \in DOMAIN k.waiting |-> k.waiting[m] \ {n}]
             freed == {m \in DOMAIN waiting : n \in k.waiting[m] /\ waiting[m] = {}}
         IN [ready |-> SetToSortSeq(ToSet(Tail(k.ready)) \cup freed, <), waiting |-> waiting,
             done |-> Append(k.done, n)]

Order(g) ==
    LET waiting == [n \in DOMAIN g |-> g[n] \cap DOMAIN g]
    IN Iterate(Kahn, [ready |-> SetToSortSeq({n \in DOMAIN g : waiting[n] = {}}, <),
                      waiting |-> waiting, done |-> <<>>], Cardinality(DOMAIN g)).done

Level(g) ==
    FoldLeft(LAMBDA level, n : level @@ (n :> 1 + Max({0} \cup {level[d] : d \in g[n]})), <<>>, Order(g))

\* Steps of one level that say they may run together share a stage.
Stages(g, parallel) ==
    LET level == Level(g)
        Of(l) == {n \in DOMAIN g : level[n] = l}
        Together(l) == IF Cardinality(Of(l) \cap parallel) < 2 THEN {} ELSE Of(l) \cap parallel
        Alone(l) == [i \in 1 .. Cardinality(Of(l) \ Together(l)) |->
                        {SetToSortSeq(Of(l) \ Together(l), <)[i]}]
        AtLevel(l) == (IF Together(l) = {} THEN <<>> ELSE <<Together(l)>>) \o Alone(l)
    IN FoldLeft(LAMBDA s, l : s \o AtLevel(l), <<>>, [l \in 1 .. Cardinality(DOMAIN g) |-> l])

-----------------------------------------------------------------------------
(* What they should be: over the paths of the graph, which are all the      *)
(* subsets of steps that contain a step's dependencies when they contain    *)
(* the step.                                                                *)

Graphs == {g \in [1 .. 4 -> SUBSET (1 .. 4)] : \A n \in 1 .. 4 : n \notin g[n]}

Waits(g, n) == LET closed == {S \in SUBSET DOMAIN g : g[n] \subseteq S /\ \A m \in S : g[m] \subseteq S}
               IN {m \in DOMAIN g : \A S \in closed : m \in S}
IsCycle(g, S) == Cardinality(S) > 1 /\ \E n \in S : S = {m \in DOMAIN g : m \in Waits(g, n) /\ n \in Waits(g, m)}
Cyclic(g) == {n \in DOMAIN g : n \in Waits(g, n)}
Orderable(g) == {n \in DOMAIN g : Waits(g, n) \cap Cyclic(g) = {} /\ n \notin Cyclic(g)}
=============================================================================
