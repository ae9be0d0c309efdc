--------------------------- MODULE DatabaseProofs ---------------------------
(* Theorems about the lists and reads of Database, for every number of rows, *)
(* of changes meanwhile, of rows in one INSERT, and every size of a page.    *)
EXTENDS Database, FiniteSetTheorems, TLAPS

----------------------------------------------------------------------------
(* The inductive invariant. *)

RowType == [id : Nat, place : Places, key : Nat, tag : BOOLEAN, gone : BOOLEAN]
Entry == [id : Nat, position : Nat \X Nat, place : Places, gone : BOOLEAN]
Orders == [descending : BOOLEAN, tied : BOOLEAN]
WalkStates == {"none", "open", "done", "refused", "elsewhere", "closed"}

PagesTypeOK ==
    /\ service \in Services
    /\ asked.size \in Nat \ {0}
    /\ rows \in SUBSET RowType /\ IsFiniteSet(rows)
    /\ events \in Nat /\ events <= MAX_EVENTS
    /\ walk \in [state : WalkStates, cursor : {<<>>} \cup (Nat \X Nat), by : Orders, shown : Seq(Entry)]

(* A row has its own id, and where the order has no tie-breaker the rows   *)
(* of the owner have keys of their own.                                    *)
Numbered ==
    /\ \A r \in rows : r.id <= MAX_ROWS + events \/ r.id = MAX_ROWS + MAX_EVENTS + 1
    /\ \A r, s \in rows : r.id = s.id => r = s
    /\ ~service.query.order.tied =>
         /\ \A r \in Ours : r.key <= MAX_ROWS + events
         /\ \A r, s \in Ours : r.key = s.key => r = s

Spaced(shown, order) == \A i, j \in 1..Len(shown) : i < j => Comes(order, shown[i].position, shown[j].position)
(* The pages so far are in order, and what they showed is not after the    *)
(* cursor.                                                                 *)
Progressed ==
    /\ walk.by = service.query.order
    /\ walk.cursor # <<>> => Paged
    /\ Going("open") /\ walk.cursor = <<>> => walk.shown = <<>>
    /\ Spaced(walk.shown, service.query.order)
    /\ walk.cursor # <<>> =>
         \A i \in 1..Len(walk.shown) : ~Comes(service.query.order, walk.cursor, walk.shown[i].position)

(* What a row has to satisfy whatever is deleted above it. *)
Wanted(r) ==
    /\ "owner" \in service.query.where => r.place.owner = "us"
    /\ "architecture" \in service.query.where => r.place.architecture = asked.architecture
    /\ "analysis" \in service.query.where => r.place.analysis = asked.analysis
    /\ "id" \in service.query.where => r.id = asked.id
    /\ "deleted" \in service.query.hides => ~r.gone
    /\ asked.filter = "changed" => r.tag
    /\ asked.filter = "architecture" => r.place.architecture = asked.architecture
Alive(r) ==
    service.first = "live rows" \/ "of deleted" \in service.query.hides => r.place.architecture \notin hidden
Ahead(r) == walk.cursor = <<>> \/ Comes(service.query.order, walk.cursor, Position(service.query.order, r))
(* A row that is due and was not shown yet is still ahead of the cursor. *)
Promised ==
    /\ Going("none") => due = {}
    /\ Going("open") => \A i \in due : \E r \in rows : r.id = i /\ Wanted(r) /\ (i \in ShownIds \/ Ahead(r) \/ ~Alive(r))
    /\ Going("done") => Living(due) \subseteq ShownIds

WalkInv == PagesTypeOK /\ Numbered /\ Progressed /\ Promised /\ ReadsScoped

----------------------------------------------------------------------------
(* What is true of every list and read of the API. *)

AscendingCursors ==
    {"decisions", "drift_items", "version", "evolution_candidates", "validation_findings",
     "capacity_components", "cost_line_items", "reliability_components", "reliability_findings",
     "security_components", "security_findings", "observability_components",
     "observability_findings", "simulation_components", "simulation_deltas", "pricing_records"}
OrderOf(kind) ==
    IF kind = "name" THEN Alphabetical
    ELSE IF kind \in {"requirement_set", "architecture_revisions"} THEN Descending
    ELSE IF kind \in AscendingCursors THEN Ascending
    ELSE Newest

Sound(s) ==
    /\ s.query.order \in Orders
    /\ "owner" \in s.query.where \/ (s.first = "architecture" /\ "architecture" \in s.query.where)
    /\ s.first \in {"analysis", "snapshot"} => "analysis" \in s.query.where
    /\ "of deleted" \in s.query.hides => s.first # "live rows" /\ "architecture" \in s.query.where
    /\ "deleted" \in s.life => "deleted" \in s.query.hides
    /\ "moved" \in s.life => s.query.order.tied
    /\ s.table = s.adds.table \/ s.table \in s.adds.below
    /\ s.cursor.kind # "" => s.query.order = OrderOf(s.cursor.kind)
    /\ s.cursor.kind = "" => s.cursor = NoCursor

LEMMA ServicesSound == \A s \in Services : Sound(s)
  <1> USE DEF Sound, Orders, OrderOf, AscendingCursors, Owner, InArchitecture, InAnalysis, Newest, Alphabetical,
              Ascending, Descending, Nothing, Deleted, OfDeleted, Select, Single, Adds, Cursor,
              NoCursor, List, Read, Fixed, Growing, Reviewed, Lasting, Moving, Removable
  <1>1. Sound(list_projects)
    BY DEF list_projects, projects_add, projects_list, ProjectCursor
  <1>2. Sound(list_projects_by_update)
    BY DEF list_projects_by_update, projects_add, projects_list, ProjectCursor
  <1>3. Sound(list_projects_by_name)
    BY DEF list_projects_by_name, projects_add, projects_list, ProjectCursor
  <1>4. Sound(organization_log)
    BY DEF organization_log, audit_record, audit_list, audit_cursor
  <1>5. Sound(list_pending)
    BY DEF list_pending, invitations_add, invitations_list_pending
  <1>6. Sound(get_pending)
    BY DEF get_pending, invitations_add, invitations_get_pending
  <1>7. Sound(get_membership)
    BY DEF get_membership, memberships_add, memberships_get
  <1>8. Sound(list_members)
    BY DEF list_members, memberships_add, memberships_list_members
  <1>9. Sound(list_sessions)
    BY DEF list_sessions, sessions_add, sessions_list_active
  <1>10. Sound(revoke_owned)
    BY DEF revoke_owned, sessions_add, sessions_revoke_owned
  <1>11. Sound(list_snapshots)
    BY DEF list_snapshots, pricing_add, pricing_list, snapshot_cursor
  <1>12. Sound(get_snapshot)
    BY DEF get_snapshot, pricing_add, pricing_record
  <1>13. Sound(list_records)
    BY DEF list_records, pricing_add, pricing_list_records, record_cursor
  <1>14. Sound(get_requirement)
    BY DEF get_requirement, requirements_add, requirements_live
  <1>15. Sound(list_requirements)
    BY DEF list_requirements, requirements_add, requirements_list, RequirementCursor
  <1>16. Sound(analyze_requirements)
    BY DEF analyze_requirements, requirements_add, requirements_list_by_status
  <1>17. Sound(list_versions)
    BY DEF list_versions, requirements_add, requirements_list_versions, versions_of_live, version_cursor
  <1>18. Sound(get_version)
    BY DEF get_version, requirements_add, requirements_get_version, versions_of_live
  <1>19. Sound(list_requirement_sets)
    BY DEF list_requirement_sets, requirement_sets_add, requirement_sets_list, set_cursor
  <1>20. Sound(get_requirement_set)
    BY DEF get_requirement_set, requirement_sets_add, requirement_sets_get
  <1>21. Sound(get_planning_input)
    BY DEF get_planning_input, requirement_sets_add, requirement_sets_get_planning_input
  <1>22. Sound(get_requirement_analysis)
    BY DEF get_requirement_analysis, requirement_analyses_add, requirement_analyses_get
  <1>23. Sound(get_architecture)
    BY DEF get_architecture, architectures_add, architectures_get
  <1>24. Sound(list_architectures)
    BY DEF list_architectures, architectures_add, architectures_list, architecture_cursor
  <1>25. Sound(get_architecture_version)
    BY DEF get_architecture_version, architectures_add, architectures_get_revision
  <1>26. Sound(history)
    BY DEF history, architectures_add, architectures_list_revisions, revision_cursor
  <1>27. Sound(get_validation_run)
    BY DEF get_validation_run, validations_add, validations_get
  <1>28. Sound(list_validation_runs)
    BY DEF list_validation_runs, validations_add, validations_list, validation_runs_cursor
  <1>29. Sound(list_validation_findings)
    BY DEF list_validation_findings, validations_add, validations_list_findings, validation_findings_cursor
  <1>30. Sound(get_capacity_analysis)
    BY DEF get_capacity_analysis, capacity_add, capacity_get
  <1>31. Sound(list_capacity_analyses)
    BY DEF list_capacity_analyses, capacity_add, capacity_list, capacity_analyses_cursor
  <1>32. Sound(list_capacity_components)
    BY DEF list_capacity_components, capacity_add, capacity_list_components, capacity_components_cursor
  <1>33. Sound(list_capacity_bottlenecks)
    BY DEF list_capacity_bottlenecks, capacity_add, capacity_list_bottlenecks
  <1>34. Sound(get_cost_analysis)
    BY DEF get_cost_analysis, cost_add, cost_get
  <1>35. Sound(list_cost_analyses)
    BY DEF list_cost_analyses, cost_add, cost_list, cost_analyses_cursor
  <1>36. Sound(list_cost_line_items)
    BY DEF list_cost_line_items, cost_add, cost_list_line_items, cost_line_items_cursor
  <1>37. Sound(get_reliability_analysis)
    BY DEF get_reliability_analysis, reliability_add, reliability_get
  <1>38. Sound(list_reliability_analyses)
    BY DEF list_reliability_analyses, reliability_add, reliability_list, reliability_analyses_cursor
  <1>39. Sound(list_reliability_components)
    BY DEF list_reliability_components, reliability_add, reliability_list_components,
           reliability_components_cursor
  <1>40. Sound(list_reliability_findings)
    BY DEF list_reliability_findings, reliability_add, reliability_list_findings, reliability_findings_cursor
  <1>41. Sound(get_security_analysis)
    BY DEF get_security_analysis, security_add, security_get
  <1>42. Sound(list_security_analyses)
    BY DEF list_security_analyses, security_add, security_list, security_analyses_cursor
  <1>43. Sound(list_security_components)
    BY DEF list_security_components, security_add, security_list_components, security_components_cursor
  <1>44. Sound(list_security_findings)
    BY DEF list_security_findings, security_add, security_list_findings, security_findings_cursor
  <1>45. Sound(get_observability_analysis)
    BY DEF get_observability_analysis, observability_add, observability_get
  <1>46. Sound(list_observability_analyses)
    BY DEF list_observability_analyses, observability_add, observability_list, observability_analyses_cursor
  <1>47. Sound(list_observability_components)
    BY DEF list_observability_components, observability_add, observability_list_components,
           observability_components_cursor
  <1>48. Sound(list_observability_findings)
    BY DEF list_observability_findings, observability_add, observability_list_findings,
           observability_findings_cursor
  <1>49. Sound(get_simulation)
    BY DEF get_simulation, simulations_add, simulations_get
  <1>50. Sound(list_simulations)
    BY DEF list_simulations, simulations_add, simulations_list, simulations_cursor
  <1>51. Sound(list_simulation_components)
    BY DEF list_simulation_components, simulations_add, simulations_list_components,
           simulation_components_cursor
  <1>52. Sound(list_simulation_deltas)
    BY DEF list_simulation_deltas, simulations_add, simulations_list_deltas, simulation_deltas_cursor
  <1>53. Sound(compare)
    BY DEF compare, simulations_add, simulations_rows
  <1>54. Sound(get_evolution_analysis)
    BY DEF get_evolution_analysis, evolution_add, evolution_get
  <1>55. Sound(list_evolution_analyses)
    BY DEF list_evolution_analyses, evolution_add, evolution_list, evolution_analyses_cursor
  <1>56. Sound(list_evolution_candidates)
    BY DEF list_evolution_candidates, evolution_add, evolution_list_candidates, evolution_candidates_cursor
  <1>57. Sound(get_candidate)
    BY DEF get_candidate, evolution_add, evolution_get_candidate
  <1>58. Sound(alternatives)
    BY DEF alternatives, evolution_add, evolution_candidates
  <1>59. Sound(get_decision)
    BY DEF get_decision, decisions_add, decisions_get
  <1>60. Sound(list_decisions)
    BY DEF list_decisions, decisions_add, decisions_list, decision_cursor
  <1>61. Sound(get_plan)
    BY DEF get_plan, migrations_add, migrations_get
  <1>62. Sound(plan_history)
    BY DEF plan_history, migrations_add, migrations_history
  <1>63. Sound(list_plans)
    BY DEF list_plans, migrations_add, migrations_list_latest, plan_cursor
  <1>64. Sound(get_run)
    BY DEF get_run, discovery_add, discovery_get
  <1>65. Sound(list_runs)
    BY DEF list_runs, discovery_add, discovery_list, run_cursor
  <1>66. Sound(get_drift_analysis)
    BY DEF get_drift_analysis, drift_add_analysis, drift_get_analysis
  <1>67. Sound(list_drift_analyses)
    BY DEF list_drift_analyses, drift_add_analysis, drift_list_analyses, drift_analyses_cursor
  <1>68. Sound(get_item)
    BY DEF get_item, drift_add_items, drift_get_item
  <1>69. Sound(list_items)
    BY DEF list_items, drift_add_items, drift_list_items, drift_items_cursor
  <1>70. Sound(mappings)
    BY DEF mappings, drift_add_mapping, drift_mappings
  <1> HIDE DEF Sound
  <1> QED BY <1>1, <1>2, <1>3, <1>4, <1>5, <1>6, <1>7, <1>8, <1>9, <1>10, <1>11, <1>12, <1>13, <1>14, <1>15,
           <1>16, <1>17, <1>18, <1>19, <1>20, <1>21, <1>22, <1>23, <1>24, <1>25, <1>26, <1>27,
           <1>28, <1>29, <1>30, <1>31, <1>32, <1>33, <1>34, <1>35, <1>36, <1>37, <1>38, <1>39,
           <1>40, <1>41, <1>42, <1>43, <1>44, <1>45, <1>46, <1>47, <1>48, <1>49, <1>50, <1>51,
           <1>52, <1>53, <1>54, <1>55, <1>56, <1>57, <1>58, <1>59, <1>60, <1>61, <1>62, <1>63,
           <1>64, <1>65, <1>66, <1>67, <1>68, <1>69, <1>70 DEF Services

----------------------------------------------------------------------------
(* Orders and sorted rows. *)

LEMMA ComesOrders ==
    ASSUME NEW order \in Orders
    PROVE  /\ \A p \in Nat \X Nat : ~Comes(order, p, p)
           /\ \A p, q \in Nat \X Nat : p # q => Comes(order, p, q) \/ Comes(order, q, p)
           /\ \A p, q, x \in Nat \X Nat : Comes(order, p, q) /\ Comes(order, q, x) => Comes(order, p, x)
  BY DEF Comes, Less, Orders

LEMMA PositionType ==
    ASSUME NEW order \in Orders, NEW r \in RowType
    PROVE  Position(order, r) \in Nat \X Nat
  BY DEF Position, Orders, RowType

(* No two of the rows have the same position. *)
Apart(some, order) == \A r, s \in some : Position(order, r) = Position(order, s) => r = s
Precedes(order, r, s) == Comes(order, Position(order, r), Position(order, s))

LEMMA PrecedesOrders ==
    ASSUME NEW order \in Orders, NEW some \in SUBSET RowType, Apart(some, order)
    PROVE  /\ \A r \in some : ~Precedes(order, r, r)
           /\ \A r, s \in some : r # s => Precedes(order, r, s) \/ Precedes(order, s, r)
           /\ \A r, s, x \in some : Precedes(order, r, s) /\ Precedes(order, s, x) => Precedes(order, r, x)
  BY ComesOrders, PositionType DEF Precedes, Apart

LEMMA SmallerSet ==
    ASSUME NEW S, IsFiniteSet(S), NEW T \in SUBSET S, T # S
    PROVE  Cardinality(T) < Cardinality(S)
  <1>1. IsFiniteSet(T) /\ Cardinality(T) <= Cardinality(S) /\ Cardinality(T) # Cardinality(S)
    BY FS_Subset
  <1>2. Cardinality(T) \in Nat /\ Cardinality(S) \in Nat
    BY <1>1, FS_CardinalityType
  <1> QED BY <1>1, <1>2

LEMMA RankBounds ==
    ASSUME NEW order \in Orders, NEW some \in SUBSET RowType, IsFiniteSet(some), Apart(some, order), NEW r \in some
    PROVE  Rank(some, order, r) \in 0..(Cardinality(some) - 1)
  <1>1. PICK before \in SUBSET some : before = {s \in some : Precedes(order, s, r)}
    OBVIOUS
  <1>2. r \notin before
    BY <1>1, PrecedesOrders
  <1>3. Cardinality(before) < Cardinality(some)
    BY <1>2, SmallerSet
  <1>4. Cardinality(before) \in Nat /\ Cardinality(some) \in Nat
    BY FS_Subset, FS_CardinalityType
  <1>5. Rank(some, order, r) = Cardinality(before)
    BY <1>1 DEF Rank, Precedes
  <1> QED BY <1>3, <1>4, <1>5

LEMMA RankAscends ==
    ASSUME NEW order \in Orders, NEW some \in SUBSET RowType, IsFiniteSet(some), Apart(some, order),
           NEW r \in some, NEW s \in some, Precedes(order, r, s)
    PROVE  Rank(some, order, r) < Rank(some, order, s)
  <1>1. PICK before \in SUBSET some : before = {x \in some : Precedes(order, x, r)}
    OBVIOUS
  <1>2. PICK more \in SUBSET some : more = {x \in some : Precedes(order, x, s)}
    OBVIOUS
  <1>3. IsFiniteSet(more)
    BY FS_Subset
  <1>4. before \subseteq more /\ r \in more /\ r \notin before
    BY <1>1, <1>2, PrecedesOrders
  <1>5. Cardinality(before) < Cardinality(more)
    BY <1>3, <1>4, SmallerSet
  <1>6. Rank(some, order, r) = Cardinality(before) /\ Rank(some, order, s) = Cardinality(more)
    BY <1>1, <1>2 DEF Rank, Precedes
  <1> QED BY <1>5, <1>6

LEMMA RanksUsed ==
    ASSUME NEW order \in Orders, NEW some \in SUBSET RowType, IsFiniteSet(some), Apart(some, order),
           NEW k \in 0..(Cardinality(some) - 1)
    PROVE  \E r \in some : Rank(some, order, r) = k
  <1> DEFINE c == Cardinality(some)
             T == 0..(c - 1)
             rank == [r \in some |-> Rank(some, order, r)]
  <1>1. c \in Nat
    BY FS_CardinalityType
  <1>2. IsFiniteSet(T) /\ Cardinality(T) = c
    <2> HIDE DEF c
    <2>1. 0 \in Int /\ c - 1 \in Int
      BY <1>1
    <2>2. IsFiniteSet(T) /\ Cardinality(T) = IF 0 > c - 1 THEN 0 ELSE (c - 1) - 0 + 1
      BY <2>1, FS_Interval
    <2> QED BY <1>1, <2>2
  <1>3. PICK f \in [some -> T] : \A r \in some : f[r] = Rank(some, order, r)
    <2>1. \A r \in some : Rank(some, order, r) \in T
      BY RankBounds
    <2>2. rank \in [some -> T]
      BY <2>1
    <2> QED BY <2>2
  <1>4. \A r, s \in some : r # s => f[r] # f[s]
    <2> SUFFICES ASSUME NEW r \in some, NEW s \in some, r # s PROVE f[r] # f[s]
      OBVIOUS
    <2>1. f[r] \in Int /\ f[s] \in Int
      BY <1>1, <1>3
    <2>2. Rank(some, order, r) < Rank(some, order, s) \/ Rank(some, order, s) < Rank(some, order, r)
      BY PrecedesOrders, RankAscends
    <2> QED BY <1>3, <2>1, <2>2
  <1> HIDE DEF T
  <1>5. f \in Injection(some, T)
    BY <1>4 DEF Injection, IsInjective
  <1>6. f \in Surjection(some, T)
    BY <1>1, <1>2, <1>5, FS_Injection
  <1>7. k \in T
    BY DEF T
  <1> QED BY <1>3, <1>6, <1>7 DEF Surjection

(* Sorted lists all of the rows, each before those that come after it. *)
LEMMA SortedSound ==
    ASSUME NEW order \in Orders, NEW some \in SUBSET RowType, IsFiniteSet(some), Apart(some, order)
    PROVE  /\ Sorted(some, order) \in Seq(some) /\ Len(Sorted(some, order)) \in Nat
           /\ \A i, j \in 1..Len(Sorted(some, order)) :
                i < j => Precedes(order, Sorted(some, order)[i], Sorted(some, order)[j])
           /\ \A r \in some : \E k \in 1..Len(Sorted(some, order)) : Sorted(some, order)[k] = r
  <1> DEFINE list == Sorted(some, order)
             c == Cardinality(some)
  <1>1. c \in Nat
    BY FS_CardinalityType
  <1>2. list = [k \in 1..c |-> CHOOSE r \in some : Rank(some, order, r) = k - 1]
    BY DEF Sorted
  <1>3. \A k \in 1..c : list[k] \in some /\ Rank(some, order, list[k]) = k - 1
    <2> TAKE k \in 1..c
    <2>1. k - 1 \in 0..(c - 1)
      BY <1>1
    <2>2. \E r \in some : Rank(some, order, r) = k - 1
      BY <2>1, RanksUsed
    <2>3. list[k] = CHOOSE r \in some : Rank(some, order, r) = k - 1
      BY <1>2
    <2> HIDE DEF list
    <2> QED BY <2>2, <2>3
  <1>4. list \in Seq(some) /\ Len(list) = c
    <2>1. list \in [1..c -> some]
      BY <1>2, <1>3
    <2> HIDE DEF list, c
    <2> QED BY <1>1, <2>1
  <1> HIDE DEF list
  <1>5. \A i, j \in 1..c : i < j => Precedes(order, list[i], list[j])
    <2> SUFFICES ASSUME NEW i \in 1..c, NEW j \in 1..c, i < j PROVE Precedes(order, list[i], list[j])
      OBVIOUS
    <2>1. PICK r \in some, s \in some : r = list[i] /\ s = list[j]
      BY <1>3
    <2>2. Rank(some, order, r) = i - 1 /\ Rank(some, order, s) = j - 1
      BY <1>3, <2>1
    <2>3. ~Precedes(order, s, r)
      BY <1>1, <2>2, RankAscends
    <2>4. r # s
      BY <1>1, <2>2
    <2> QED BY <2>1, <2>3, <2>4, PrecedesOrders
  <1>6. \A r \in some : \E k \in 1..c : list[k] = r
    <2> SUFFICES ASSUME NEW r \in some PROVE \E k \in 1..c : list[k] = r
      OBVIOUS
    <2>1. Rank(some, order, r) \in 0..(c - 1)
      BY RankBounds
    <2>2. PICK k \in 1..c : k = Rank(some, order, r) + 1
      BY <1>1, <2>1
    <2>3. PICK s \in some : s = list[k] /\ Rank(some, order, s) = k - 1
      BY <1>3
    <2>4. Rank(some, order, s) = Rank(some, order, r)
      BY <1>1, <2>1, <2>2, <2>3
    <2>5. ~Precedes(order, r, s) /\ ~Precedes(order, s, r)
      BY <1>1, <2>1, <2>4, RankAscends
    <2>6. s = r
      BY <2>5, PrecedesOrders
    <2> QED BY <2>2, <2>3, <2>6
  <1> QED BY <1>1, <1>4, <1>5, <1>6 DEF list

----------------------------------------------------------------------------
(* What a read finds. *)

Order == service.query.order
From ==
    {r \in rows : Matches(service.query, r)
                  /\ (walk.cursor # <<>> => Comes(Order, walk.cursor, Position(Order, r)))}
Fetched == Selected(service.query, walk.cursor, IF Paged THEN asked.size + 1 ELSE 0)

LEMMA ServiceSound ==
    ASSUME PagesTypeOK
    PROVE  Sound(service) /\ Order \in Orders
  <1>1. Sound(service)
    BY ServicesSound DEF PagesTypeOK
  <1> QED BY <1>1 DEF Sound, Order

LEMMA PlaceFacts ==
    /\ \A p \in Places : p.owner = "us" <=> p.architecture \in {"a1", "a2"}
    /\ \A p \in Places : p.owner = "us" <=> p.analysis \in {"n1", "n2"}
  BY DEF Places, Here, Beside, Elsewhere, Place

(* What the caller may see of a row. *)
InScope(place, gone) ==
    /\ place.owner = "us"
    /\ Level(service) = "architecture" => place.architecture = asked.architecture
    /\ Level(service) = "analysis" => place.analysis = asked.analysis
    /\ "deleted" \in service.life => ~gone

LEMMA MatchesInScope ==
    ASSUME PagesTypeOK, Found, NEW r \in rows, Matches(service.query, r)
    PROVE  r \in Ours /\ InScope(r.place, r.gone)
  <1>1. r.place \in Places
    BY DEF PagesTypeOK, RowType
  <1>2. r.place.owner = "us"
    <2>1. CASE "owner" \in service.query.where
      BY <2>1 DEF Matches
    <2>2. CASE service.first = "architecture" /\ "architecture" \in service.query.where
      <3>1. ArchitectureFound(asked.architecture)
        BY <2>2 DEF Found
      <3>2. r.place.architecture = asked.architecture
        BY <2>2 DEF Matches
      <3> QED BY <1>1, <3>1, <3>2, PlaceFacts DEF ArchitectureFound
    <2> QED BY <2>1, <2>2, ServiceSound DEF Sound
  <1>3. Level(service) = "architecture" => r.place.architecture = asked.architecture
    BY DEF Level, Matches
  <1>4. Level(service) = "analysis" => r.place.analysis = asked.analysis
    BY ServiceSound DEF Level, Matches, Sound
  <1>5. "deleted" \in service.life => ~r.gone
    BY ServiceSound DEF Matches, Sound
  <1> QED BY <1>2, <1>3, <1>4, <1>5 DEF InScope, Ours

LEMMA FromSound ==
    ASSUME PagesTypeOK, Numbered, Found
    PROVE  From \in SUBSET RowType /\ From \subseteq rows /\ IsFiniteSet(From) /\ Apart(From, Order)
  <1>1. From \subseteq rows /\ From \in SUBSET RowType
    BY DEF From, PagesTypeOK
  <1>2. IsFiniteSet(From)
    BY <1>1, FS_Subset DEF PagesTypeOK
  <1>3. ASSUME NEW r \in From, NEW s \in From, Position(Order, r) = Position(Order, s)
        PROVE  r = s
    <2>1. r \in Ours /\ s \in Ours
      BY MatchesInScope DEF From
    <2>2. CASE Order.tied
      <3>1. r.id = s.id
        BY <1>3, <2>2 DEF Position
      <3> QED BY <1>1, <3>1 DEF Numbered
    <2>3. CASE ~Order.tied
      <3>1. r.key = s.key
        BY <1>3, <2>3 DEF Position
      <3> QED BY <2>1, <2>3, <3>1 DEF Numbered, Order
    <2> QED BY <2>2, <2>3
  <1> QED BY <1>1, <1>2, <1>3 DEF Apart

(* A page shows the first of some rows after the cursor; the next cursor   *)
(* is none when these are all, and otherwise lies between the page and the *)
(* rest.                                                                   *)
Reads(page, next, some) ==
    /\ next \in {<<>>} \cup (Nat \X Nat)
    /\ \A i, j \in 1..Len(page) : i < j => Precedes(Order, page[i], page[j])
    /\ next = <<>> => \A r \in some : \E k \in 1..Len(page) : page[k] = r
    /\ next # <<>> =>
         /\ Paged
         /\ \A k \in 1..Len(page) : ~Comes(Order, next, Position(Order, page[k]))
         /\ \A r \in some : (\E k \in 1..Len(page) : page[k] = r) \/ Comes(Order, next, Position(Order, r))
         /\ walk.cursor # <<>> => Comes(Order, walk.cursor, next)

LEMMA FirstRows ==
    ASSUME NEW S, NEW s \in Seq(S), NEW m \in 0..Len(s)
    PROVE  /\ SubSeq(s, 1, m) \in Seq(S) /\ Len(SubSeq(s, 1, m)) = m
           /\ \A k \in 1..m : SubSeq(s, 1, m)[k] = s[k]
  OBVIOUS

LEMMA RangeOf ==
    ASSUME NEW S, NEW s \in Seq(S)
    PROVE  Range(s) = {s[k] : k \in 1..Len(s)} /\ Range(s) \subseteq S
  <1>1. DOMAIN s = 1..Len(s)
    OBVIOUS
  <1> QED BY <1>1 DEF Range

LEMMA NotEmptyPair == \A p \in Nat \X Nat : p # <<>>
  OBVIOUS

LEMMA AllRead ==
    ASSUME PagesTypeOK, Numbered, Found
    PROVE  Sorted(From, Order) \in Seq(From) /\ Reads(Sorted(From, Order), <<>>, From)
  BY FromSound, ServiceSound, SortedSound DEF Reads

LEMMA SomeRead ==
    ASSUME PagesTypeOK, Numbered, Found, Paged,
           NEW list, list = Sorted(From, Order), NEW m \in Nat \ {0}, m < Len(list),
           NEW page \in Seq(From), Len(page) = m, \A k \in 1..m : page[k] = list[k]
    PROVE  Reads(page, Position(Order, list[m]), From)
  <1> DEFINE next == Position(Order, list[m])
  <1>1. /\ Order \in Orders /\ From \in SUBSET RowType
        /\ list \in Seq(From) /\ Len(list) \in Nat
        /\ \A i, j \in 1..Len(list) : i < j => Precedes(Order, list[i], list[j])
        /\ \A r \in From : \E k \in 1..Len(list) : list[k] = r
    BY FromSound, ServiceSound, SortedSound
  <1>2. \A k \in 1..m : k \in 1..Len(list) /\ list[k] \in From
    <2> TAKE k \in 1..m
    <2>1. k \in 1..Len(list)
      BY <1>1
    <2> QED BY <1>1, <2>1
  <1>3. next \in Nat \X Nat
    <2>1. m \in 1..m
      OBVIOUS
    <2>2. list[m] \in RowType
      BY <1>1, <1>2, <2>1
    <2> QED BY <1>1, <2>2, PositionType
  <1>4. \A i, j \in 1..Len(page) : i < j => Precedes(Order, page[i], page[j])
    <2> SUFFICES ASSUME NEW i \in 1..m, NEW j \in 1..m, i < j PROVE Precedes(Order, list[i], list[j])
      OBVIOUS
    <2> QED BY <1>1, <1>2
  <1>5. \A k \in 1..Len(page) : ~Comes(Order, next, Position(Order, page[k]))
    <2> SUFFICES ASSUME NEW k \in 1..m, Comes(Order, next, Position(Order, list[k])) PROVE FALSE
      OBVIOUS
    <2>1. k \in 1..Len(list) /\ list[k] \in From
      BY <1>1, <1>2
    <2>2. Position(Order, list[k]) \in Nat \X Nat
      BY <1>1, <2>1, PositionType
    <2>3. k # m
      BY <1>1, <1>3, ComesOrders
    <2>4. Comes(Order, Position(Order, list[k]), next)
      BY <1>1, <1>2, <2>1, <2>3 DEF Precedes
    <2> QED BY <1>1, <1>3, <2>2, <2>4, ComesOrders
  <1>6. ASSUME NEW r \in From, \A k \in 1..Len(page) : page[k] # r
        PROVE  Comes(Order, next, Position(Order, r))
    <2>1. PICK k \in 1..Len(list) : list[k] = r
      BY <1>1
    <2>2. m < k
      BY <1>1, <1>6, <2>1
    <2> QED BY <1>1, <1>2, <2>1, <2>2 DEF Precedes
  <1>7. walk.cursor # <<>> => Comes(Order, walk.cursor, next)
    BY <1>2 DEF From
  <1>8. next # <<>>
    BY <1>3, NotEmptyPair
  <1> QED BY <1>3, <1>4, <1>5, <1>6, <1>7, <1>8 DEF Reads

LEMMA PageRead ==
    ASSUME PagesTypeOK, Numbered, Found
    PROVE  \E page \in Seq(From) :
             /\ Items(Fetched) = IF service.first = "live rows" THEN LivingOf(page) ELSE page
             /\ Reads(page, IF Paged THEN NextCursor(Fetched) ELSE <<>>, From)
  <1>1. PICK list : list = Sorted(From, Order)
    OBVIOUS
  <1>2. PICK size \in Nat \ {0} : size = asked.size
    BY DEF PagesTypeOK
  <1>3. list \in Seq(From) /\ Len(list) \in Nat /\ Reads(list, <<>>, From)
    BY <1>1, AllRead
  <1>4. Fetched = IF ~Paged \/ Len(list) <= size + 1 THEN list ELSE SubSeq(list, 1, size + 1)
    <2>1. Fetched = LET limit == IF Paged THEN size + 1 ELSE 0
                    IN  IF limit = 0 \/ Len(list) <= limit THEN list ELSE SubSeq(list, 1, limit)
      BY <1>1, <1>2 DEF Fetched, Selected, From, Order
    <2>2. size + 1 # 0
      BY <1>2
    <2> QED BY <2>1, <2>2
  <1>5. CASE ~Paged
    <2>1. Items(Fetched) = IF service.first = "live rows" THEN LivingOf(list) ELSE list
      BY <1>4, <1>5 DEF Items
    <2> QED BY <1>3, <1>5, <2>1
  <1>6. CASE Paged /\ Len(list) <= size
    <2>1. Fetched = list /\ ~(Len(Fetched) > asked.size)
      BY <1>2, <1>3, <1>4, <1>6
    <2>2. Items(Fetched) = IF service.first = "live rows" THEN LivingOf(list) ELSE list
      BY <2>1 DEF Items
    <2>3. NextCursor(Fetched) = <<>>
      BY <2>1 DEF NextCursor
    <2> QED BY <1>3, <1>6, <2>2, <2>3
  <1>7. CASE Paged /\ ~(Len(list) <= size)
    <2>1. PICK found \in Seq(From) : found = Fetched /\ Len(found) = size + 1 /\ \A k \in 1..(size + 1) : found[k] = list[k]
      <3>1. size + 1 \in 0..Len(list)
        BY <1>2, <1>3, <1>7
      <3>2. CASE Len(list) = size + 1
        BY <1>2, <1>3, <1>4, <3>2
      <3>3. CASE Len(list) # size + 1
        <4>1. Fetched = SubSeq(list, 1, size + 1)
          BY <1>2, <1>3, <1>4, <1>7, <3>1, <3>3
        <4> QED BY <1>3, <3>1, <4>1, FirstRows
      <3> QED BY <3>2, <3>3
    <2>2. PICK page \in Seq(From) : page = SubSeq(found, 1, size) /\ Len(page) = size /\ \A k \in 1..size : page[k] = found[k]
      <3>1. size \in 0..Len(found)
        BY <1>2, <2>1
      <3>2. /\ SubSeq(found, 1, size) \in Seq(From) /\ Len(SubSeq(found, 1, size)) = size
            /\ \A k \in 1..size : SubSeq(found, 1, size)[k] = found[k]
        BY <3>1, FirstRows
      <3> QED BY <3>2
    <2>3. \A k \in 1..size : page[k] = list[k]
      BY <1>2, <2>1, <2>2
    <2>4. Items(Fetched) = IF service.first = "live rows" THEN LivingOf(page) ELSE page
      <3>1. Len(Fetched) > asked.size /\ SubSeq(Fetched, 1, asked.size) = page
        BY <1>2, <2>1, <2>2
      <3> QED BY <1>7, <3>1 DEF Items
    <2>5. NextCursor(Fetched) = Position(Order, list[size])
      BY <1>2, <2>1 DEF NextCursor, Order
    <2>6. size < Len(list)
      BY <1>2, <1>3, <1>7
    <2>7. Reads(page, Position(Order, list[size]), From)
      BY <1>1, <1>2, <1>7, <2>2, <2>3, <2>6, SomeRead
    <2> QED BY <1>7, <2>4, <2>5, <2>7
  <1> QED BY <1>5, <1>6, <1>7

LEMMA ItemsRead ==
    ASSUME PagesTypeOK, Numbered, Found
    PROVE  /\ Items(Fetched) \in Seq(From)
           /\ Reads(Items(Fetched), IF Paged THEN NextCursor(Fetched) ELSE <<>>, {r \in From : Alive(r)})
  <1>1. PICK page \in Seq(From) :
             /\ Items(Fetched) = IF service.first = "live rows" THEN LivingOf(page) ELSE page
             /\ Reads(page, IF Paged THEN NextCursor(Fetched) ELSE <<>>, From)
    BY PageRead
  <1>2. CASE service.first # "live rows"
    BY <1>1, <1>2 DEF Reads
  <1>3. CASE service.first = "live rows"
    <2>1. PICK living \in SUBSET From : living = {r \in Range(page) : r.place.architecture \notin hidden}
      BY RangeOf
    <2>2. living \in SUBSET RowType /\ IsFiniteSet(living) /\ Apart(living, Order)
      <3>1. From \in SUBSET RowType /\ IsFiniteSet(From) /\ Apart(From, Order)
        BY FromSound
      <3> QED BY <2>1, <3>1, FS_Subset DEF Apart
    <2>3. PICK list : list = Items(Fetched) /\ list = Sorted(living, Order)
      BY <1>1, <1>3, <2>1 DEF LivingOf, Order
    <2>4. /\ list \in Seq(living) /\ Len(list) \in Nat
          /\ \A i, j \in 1..Len(list) : i < j => Precedes(Order, list[i], list[j])
          /\ \A r \in living : \E k \in 1..Len(list) : list[k] = r
      BY <2>2, <2>3, ServiceSound, SortedSound
    <2>5. list \in Seq(From)
      BY <2>1, <2>4
    <2>6. \A r \in From : Alive(r) => r.place.architecture \notin hidden
      BY <1>3 DEF Alive
    <2>7. \A k \in 1..Len(page) : page[k].place.architecture \notin hidden => page[k] \in living
      BY <2>1, RangeOf
    <2>8. \A k \in 1..Len(list) : \E j \in 1..Len(page) : list[k] = page[j]
      <3> TAKE k \in 1..Len(list)
      <3>1. list[k] \in living
        BY <2>4
      <3> QED BY <2>1, <3>1, RangeOf
    <2>9. \A r \in From : Alive(r) /\ (\E j \in 1..Len(page) : page[j] = r) => \E k \in 1..Len(list) : list[k] = r
      BY <2>4, <2>6, <2>7
    <2>10. PICK next : next = IF Paged THEN NextCursor(Fetched) ELSE <<>>
      OBVIOUS
    <2>11. Reads(page, next, From)
      BY <1>1, <2>10
    <2>12. Reads(list, next, {r \in From : Alive(r)})
      <3>1. \A k \in 1..Len(list) : next # <<>> => ~Comes(Order, next, Position(Order, list[k]))
        BY <2>8, <2>11 DEF Reads
      <3>2. next = <<>> => \A r \in {s \in From : Alive(s)} : \E k \in 1..Len(list) : list[k] = r
        BY <2>9, <2>11 DEF Reads
      <3>3. next # <<>> => \A r \in {s \in From : Alive(s)} :
              (\E k \in 1..Len(list) : list[k] = r) \/ Comes(Order, next, Position(Order, r))
        BY <2>9, <2>11 DEF Reads
      <3> QED BY <2>4, <2>11, <3>1, <3>2, <3>3, Zenon DEF Reads
    <2> QED BY <2>3, <2>5, <2>10, <2>12
  <1> QED BY <1>2, <1>3

----------------------------------------------------------------------------
(* Reading a page. *)

LEMMA Joined ==
    ASSUME NEW S, NEW s \in Seq(S), NEW t \in Seq(S)
    PROVE  /\ s \o t \in Seq(S) /\ Len(s \o t) = Len(s) + Len(t)
           /\ \A k \in 1..Len(s) : (s \o t)[k] = s[k]
           /\ \A k \in 1..Len(t) : (s \o t)[Len(s) + k] = t[k]
           /\ \A k \in 1..Len(s \o t) : k \in 1..Len(s) \/ (k - Len(s) \in 1..Len(t) /\ (s \o t)[k] = t[k - Len(s)])
  OBVIOUS

LEMMA WantedMatches ==
    ASSUME NEW r, Wanted(r), Alive(r)
    PROVE  Matches(service.query, r)
  BY DEF Wanted, Alive, Matches

LEMMA LivingAlive ==
    ASSUME PagesTypeOK, NEW i \in Living(due), NEW r \in rows, r.id = i, Wanted(r)
    PROVE  i \in due /\ Alive(r)
  <1>1. CASE service.first = "live rows"
    BY <1>1 DEF Living, Alive
  <1>2. CASE service.first # "live rows" /\ "of deleted" \in service.query.hides
    <2>1. asked.architecture \notin hidden /\ i \in due
      BY <1>2 DEF Living
    <2>2. r.place.architecture = asked.architecture
      BY <1>2, ServiceSound DEF Sound, Wanted
    <2> QED BY <2>1, <2>2 DEF Alive
  <1>3. CASE service.first # "live rows" /\ "of deleted" \notin service.query.hides
    BY <1>3 DEF Living, Alive
  <1> QED BY <1>1, <1>2, <1>3

(* The state of the walk after a page of items. *)
PageTurned(items, next) ==
    /\ items \in Seq(From) /\ Reads(items, next, {r \in From : Alive(r)})
    /\ walk' = [walk EXCEPT !.state = IF next = <<>> THEN "done" ELSE "open", !.cursor = next,
                            !.shown = @ \o [i \in 1..Len(items) |-> Shown(items[i])]]
    /\ UNCHANGED <<service, asked, rows, hidden, due, events>>

LEMMA ReadPageTurns ==
    ASSUME PagesTypeOK, Numbered, ReadPage
    PROVE  Found /\ Going("open") /\ \E items, next : PageTurned(items, next)
  <1>1. Found /\ Going("open")
    BY DEF ReadPage
  <1>2. PageTurned(Items(Fetched), IF Paged THEN NextCursor(Fetched) ELSE <<>>)
    BY <1>1, ItemsRead, Zenon DEF ReadPage, PageTurned, Fetched
  <1> QED BY <1>1, <1>2

(* What the page adds, and how it appears at the end of what was shown. *)
Extends(more, items) ==
    /\ more \in Seq(Entry) /\ Len(more) = Len(items)
    /\ \A k \in 1..Len(items) : more[k] = Shown(items[k])
    /\ walk'.shown = walk.shown \o more

LEMMA ShownType ==
    ASSUME PagesTypeOK, NEW r \in RowType
    PROVE  Shown(r) \in Entry /\ Shown(r).position = Position(Order, r) /\ Shown(r).id = r.id
           /\ Shown(r).place = r.place /\ Shown(r).gone = r.gone
  <1>1. Position(Order, r) \in Nat \X Nat
    BY ServiceSound, PositionType
  <1> QED BY <1>1 DEF Shown, Entry, RowType, Order

LEMMA PageAdds ==
    ASSUME PagesTypeOK, Numbered, Found, NEW items, NEW next, PageTurned(items, next)
    PROVE  \E more : Extends(more, items)
  <1>1. items \in Seq(RowType)
    BY FromSound DEF PageTurned
  <1>2. PICK more : more = [i \in 1..Len(items) |-> Shown(items[i])]
    OBVIOUS
  <1>3. \A i \in 1..Len(items) : Shown(items[i]) \in Entry
    BY <1>1, ShownType
  <1>4. more \in Seq(Entry) /\ Len(more) = Len(items)
    <2>1. more \in [1..Len(items) -> Entry] /\ Len(items) \in Nat
      BY <1>1, <1>2, <1>3
    <2> QED BY <2>1
  <1>5. walk'.shown = walk.shown \o more
    BY <1>2 DEF PageTurned, PagesTypeOK
  <1> QED BY <1>2, <1>4, <1>5 DEF Extends

(* What a step that only moves the walk leaves alone. *)
LEMMA SameRows ==
    ASSUME UNCHANGED <<service, asked, rows, hidden, due, events>>
    PROVE  /\ Numbered => Numbered'
           /\ (Order' = Order /\ Paged' = Paged /\ Level(service)' = Level(service))
           /\ \A r : (Wanted(r)' <=> Wanted(r)) /\ (Alive(r)' <=> Alive(r))
           /\ Living(due)' = Living(due)
           /\ \A place, gone : InScope(place, gone)' <=> InScope(place, gone)
  BY DEF Numbered, Ours, Order, Paged, Level, Wanted, Alive, Living, InScope

LEMMA TurnedType ==
    ASSUME PagesTypeOK, NEW items, NEW next, PageTurned(items, next), NEW more, Extends(more, items)
    PROVE  PagesTypeOK' /\ walk'.cursor = next /\ walk'.by = walk.by
           /\ walk'.state = IF next = <<>> THEN "done" ELSE "open"
  <1>1. next \in {<<>>} \cup (Nat \X Nat)
    BY DEF PageTurned, Reads
  <1>2. walk'.shown \in Seq(Entry)
    BY Joined DEF Extends, PagesTypeOK
  <1>3. /\ walk'.cursor = next /\ walk'.by = walk.by
        /\ walk'.state = IF next = <<>> THEN "done" ELSE "open"
        /\ walk' = [state |-> walk'.state, cursor |-> next, by |-> walk.by, shown |-> walk'.shown]
    BY DEF PageTurned, PagesTypeOK
  <1>4. walk'.state \in WalkStates
    BY <1>3 DEF WalkStates
  <1> QED BY <1>1, <1>2, <1>3, <1>4 DEF PagesTypeOK, PageTurned

LEMMA TurnedSpaced ==
    ASSUME PagesTypeOK, Numbered, Progressed, Found, Going("open"),
           NEW items, NEW next, PageTurned(items, next), NEW more, Extends(more, items)
    PROVE  Spaced(walk'.shown, Order)
  <1>1. /\ Order \in Orders /\ items \in Seq(From) /\ From \in SUBSET RowType
        /\ walk.shown \in Seq(Entry) /\ more \in Seq(Entry) /\ Len(more) = Len(items)
        /\ Len(items) \in Nat /\ Len(walk.shown) \in Nat
    BY FromSound, ServiceSound DEF PageTurned, Extends, PagesTypeOK
  <1>2. \A k \in 1..Len(items) : items[k] \in From /\ more[k].position = Position(Order, items[k])
    BY <1>1, ShownType DEF Extends
  <1>3. \A p \in Entry : p.position \in Nat \X Nat
    BY DEF Entry
  <1>4. ASSUME NEW i \in 1..Len(walk.shown), NEW j \in 1..Len(items)
        PROVE  Comes(Order, walk.shown[i].position, more[j].position)
    <2>1. walk.cursor # <<>>
      BY <1>1, <1>4 DEF Progressed
    <2>2. walk.cursor \in Nat \X Nat
      BY <2>1 DEF PagesTypeOK
    <2>3. ~Comes(Order, walk.cursor, walk.shown[i].position)
      BY <2>1 DEF Progressed, Order
    <2>4. Comes(Order, walk.cursor, more[j].position)
      BY <1>2, <2>1 DEF From
    <2>5. walk.shown[i].position \in Nat \X Nat /\ more[j].position \in Nat \X Nat
      BY <1>1, <1>3
    <2> QED BY <1>1, <2>2, <2>3, <2>4, <2>5, ComesOrders
  <1>5. \A i, j \in 1..Len(more) : i < j => Comes(Order, more[i].position, more[j].position)
    BY <1>1, <1>2 DEF PageTurned, Reads, Precedes
  <1>6. \A i, j \in 1..Len(walk.shown) : i < j => Comes(Order, walk.shown[i].position, walk.shown[j].position)
    BY DEF Progressed, Spaced, Order
  <1> SUFFICES ASSUME NEW i \in 1..Len(walk'.shown), NEW j \in 1..Len(walk'.shown), i < j
               PROVE  Comes(Order, walk'.shown[i].position, walk'.shown[j].position)
    BY DEF Spaced
  <1>7. walk'.shown = walk.shown \o more
    BY DEF Extends
  <1>8. PICK n \in Nat : n = Len(walk.shown)
    BY <1>1
  <1>9. \/ i \in 1..n /\ walk'.shown[i] = walk.shown[i]
        \/ i - n \in 1..Len(more) /\ walk'.shown[i] = more[i - n]
    BY <1>1, <1>7, <1>8, Joined
  <1>10. \/ j \in 1..n /\ walk'.shown[j] = walk.shown[j]
         \/ j - n \in 1..Len(more) /\ walk'.shown[j] = more[j - n]
    BY <1>1, <1>7, <1>8, Joined
  <1>11. CASE i \in 1..n /\ j \in 1..n
    BY <1>1, <1>6, <1>7, <1>8, <1>11, Joined
  <1>12. CASE i \in 1..n /\ j \notin 1..n
    BY <1>1, <1>4, <1>8, <1>9, <1>10, <1>12, <1>7, Joined
  <1>13. CASE i \notin 1..n
    <2>1. i - n \in 1..Len(more) /\ walk'.shown[i] = more[i - n]
      BY <1>9, <1>13
    <2>2. i \in Int /\ j \in Int
      BY <1>1, <1>7, Joined
    <2>3. j \notin 1..n /\ i - n < j - n
      BY <1>8, <1>13, <2>1, <2>2
    <2> QED BY <1>5, <1>10, <2>1, <2>3
  <1> QED BY <1>11, <1>12, <1>13

LEMMA TurnedBehind ==
    ASSUME PagesTypeOK, Numbered, Progressed, Found, Going("open"),
           NEW items, NEW next, PageTurned(items, next), NEW more, Extends(more, items), next # <<>>,
           NEW i \in 1..Len(walk'.shown)
    PROVE  ~Comes(Order, next, walk'.shown[i].position)
  <1>1. /\ Order \in Orders /\ items \in Seq(From) /\ From \in SUBSET RowType
        /\ walk.shown \in Seq(Entry) /\ more \in Seq(Entry) /\ Len(more) = Len(items)
    BY FromSound, ServiceSound DEF PageTurned, Extends, PagesTypeOK
  <1>2. \A k \in 1..Len(items) : more[k].position = Position(Order, items[k])
    BY <1>1, ShownType DEF Extends
  <1>3. walk'.shown = walk.shown \o more
    BY DEF Extends
  <1>4. \/ i \in 1..Len(walk.shown) /\ walk'.shown[i] = walk.shown[i]
        \/ i - Len(walk.shown) \in 1..Len(more) /\ walk'.shown[i] = more[i - Len(walk.shown)]
    BY <1>1, <1>3, Joined
  <1>5. CASE i \in 1..Len(walk.shown) /\ walk'.shown[i] = walk.shown[i]
    <2>1. walk.cursor # <<>>
      BY <1>1, <1>5 DEF Progressed
    <2>2. walk.cursor \in Nat \X Nat /\ next \in Nat \X Nat
      BY <2>1 DEF PagesTypeOK, PageTurned, Reads
    <2>3. ~Comes(Order, walk.cursor, walk.shown[i].position) /\ Comes(Order, walk.cursor, next)
      <3>1. Comes(Order, walk.cursor, next)
        BY <2>1 DEF PageTurned, Reads
      <3>2. ~Comes(Order, walk.cursor, walk.shown[i].position)
        BY <1>5, <2>1 DEF Progressed, Order
      <3> QED BY <3>1, <3>2
    <2>4. walk.shown[i].position \in Nat \X Nat
      <3>1. walk.shown[i] \in Entry
        BY <1>1, <1>5
      <3> QED BY <3>1 DEF Entry
    <2> QED BY <1>1, <1>5, <2>2, <2>3, <2>4, ComesOrders
  <1>6. CASE i - Len(walk.shown) \in 1..Len(more) /\ walk'.shown[i] = more[i - Len(walk.shown)]
    BY <1>1, <1>2, <1>6 DEF PageTurned, Reads
  <1> QED BY <1>4, <1>5, <1>6

(* A row that is due, alive and not shown before is on the page, or ahead. *)
LEMMA TurnedDue ==
    ASSUME PagesTypeOK, Numbered, Found, NEW items, NEW next, PageTurned(items, next),
           NEW more, Extends(more, items),
           NEW r \in rows, Wanted(r), Alive(r), r.id \in ShownIds \/ Ahead(r)
    PROVE  r.id \in ShownIds' \/ (next # <<>> /\ Comes(Order, next, Position(Order, r)))
  <1>1. /\ items \in Seq(From) /\ From \in SUBSET RowType
        /\ walk.shown \in Seq(Entry) /\ more \in Seq(Entry) /\ Len(more) = Len(items)
        /\ walk'.shown = walk.shown \o more
    BY FromSound DEF PageTurned, Extends, PagesTypeOK
  <1>2. /\ Len(walk'.shown) = Len(walk.shown) + Len(more) /\ Len(walk.shown) \in Nat /\ Len(more) \in Nat
        /\ \A k \in 1..Len(walk.shown) : walk'.shown[k] = walk.shown[k]
        /\ \A k \in 1..Len(more) : walk'.shown[Len(walk.shown) + k] = more[k]
    <2>1. Len(walk.shown) \in Nat /\ Len(more) \in Nat
      BY <1>1
    <2>2. PICK old \in Seq(Entry) : old = walk.shown
      BY <1>1
    <2>3. PICK new \in Seq(Entry) : new = more
      BY <1>1
    <2>4. /\ Len(old \o new) = Len(old) + Len(new)
          /\ \A k \in 1..Len(old) : (old \o new)[k] = old[k]
          /\ \A k \in 1..Len(new) : (old \o new)[Len(old) + k] = new[k]
      BY Joined
    <2>5. walk'.shown = old \o new
      BY <1>1, <2>2, <2>3
    <2> QED BY <2>1, <2>2, <2>3, <2>4, <2>5, Zenon
  <1>3. CASE r.id \in ShownIds
    <2>1. PICK k \in 1..Len(walk.shown) : walk.shown[k].id = r.id
      BY <1>3 DEF ShownIds
    <2>2. k \in 1..Len(walk'.shown) /\ walk'.shown[k].id = r.id
      BY <1>2, <2>1
    <2> QED BY <2>2 DEF ShownIds
  <1>4. CASE Ahead(r)
    <2>1. r \in {s \in From : Alive(s)}
      BY <1>4, WantedMatches DEF From, Ahead, Order
    <2>2. (\E k \in 1..Len(items) : items[k] = r) \/ (next # <<>> /\ Comes(Order, next, Position(Order, r)))
      BY <2>1 DEF PageTurned, Reads
    <2>3. ASSUME NEW k \in 1..Len(items), items[k] = r PROVE r.id \in ShownIds'
      <3>1. more[k].id = r.id
        BY <1>1, <2>3, ShownType DEF Extends
      <3>2. Len(walk.shown) + k \in 1..Len(walk'.shown) /\ walk'.shown[Len(walk.shown) + k].id = r.id
        BY <1>1, <1>2, <2>3, <3>1
      <3> QED BY <3>2 DEF ShownIds
    <2> QED BY <2>2, <2>3
  <1> QED BY <1>3, <1>4

LEMMA ScopedEntries == ReadsScoped <=> \A i \in 1..Len(walk.shown) : InScope(walk.shown[i].place, walk.shown[i].gone)
  BY DEF ReadsScoped, InScope

LEMMA TurnedScoped ==
    ASSUME PagesTypeOK, Numbered, Found, NEW items, NEW next, PageTurned(items, next),
           NEW more, Extends(more, items), ReadsScoped
    PROVE  ReadsScoped'
  <1>1. /\ items \in Seq(From) /\ From \in SUBSET RowType /\ From \subseteq rows
        /\ walk.shown \in Seq(Entry) /\ more \in Seq(Entry) /\ Len(more) = Len(items)
        /\ walk'.shown = walk.shown \o more
    BY FromSound DEF PageTurned, Extends, PagesTypeOK
  <1>2. \A k \in 1..Len(more) : InScope(more[k].place, more[k].gone)
    <2> TAKE k \in 1..Len(more)
    <2>1. items[k] \in From
      BY <1>1
    <2>2. InScope(items[k].place, items[k].gone)
      BY <2>1, MatchesInScope DEF From
    <2>3. more[k].place = items[k].place /\ more[k].gone = items[k].gone
      BY <1>1, <2>1, ShownType DEF Extends
    <2> QED BY <2>2, <2>3
  <1>3. \A k \in 1..Len(walk'.shown) : InScope(walk'.shown[k].place, walk'.shown[k].gone)
    <2> TAKE k \in 1..Len(walk'.shown)
    <2>1. \/ k \in 1..Len(walk.shown) /\ walk'.shown[k] = walk.shown[k]
          \/ k - Len(walk.shown) \in 1..Len(more) /\ walk'.shown[k] = more[k - Len(walk.shown)]
      BY <1>1, Joined
    <2> QED BY <1>2, <2>1, ScopedEntries
  <1>4. \A place, gone : InScope(place, gone)' <=> InScope(place, gone)
    BY SameRows DEF PageTurned
  <1> QED BY <1>3, <1>4 DEF ReadsScoped, InScope

LEMMA ReadPageKeeps ==
    ASSUME WalkInv, ReadPage
    PROVE  WalkInv'
  <1>1. PagesTypeOK /\ Numbered /\ Progressed /\ Promised /\ ReadsScoped
    BY DEF WalkInv
  <1>2. Found /\ Going("open")
    BY <1>1, ReadPageTurns
  <1>3. PICK items, next : PageTurned(items, next)
    BY <1>1, ReadPageTurns
  <1>4. PICK more : Extends(more, items)
    BY <1>1, <1>2, <1>3, PageAdds
  <1>5. /\ PagesTypeOK' /\ walk'.cursor = next /\ walk'.by = walk.by
        /\ walk'.state = IF next = <<>> THEN "done" ELSE "open"
    BY <1>1, <1>3, <1>4, TurnedType
  <1>6. UNCHANGED <<service, asked, rows, hidden, due, events>>
    BY <1>3 DEF PageTurned
  <1>7. /\ Numbered' /\ Order' = Order /\ Paged' = Paged /\ Living(due)' = Living(due)
        /\ \A r : (Wanted(r)' <=> Wanted(r)) /\ (Alive(r)' <=> Alive(r))
    BY <1>1, <1>6, SameRows
  <1>8. Progressed'
    <2>1. walk'.by = service'.query.order
      BY <1>1, <1>5, <1>6 DEF Progressed
    <2>2. walk'.cursor # <<>> => Paged'
      BY <1>3, <1>5, <1>7 DEF PageTurned, Reads
    <2>3. ~(walk'.state = "open" /\ walk'.cursor = <<>>)
      BY <1>5
    <2>4. Spaced(walk'.shown, service'.query.order)
      BY <1>1, <1>2, <1>3, <1>4, <1>6, TurnedSpaced DEF Order
    <2>5. walk'.cursor # <<>> =>
            \A i \in 1..Len(walk'.shown) : ~Comes(service'.query.order, walk'.cursor, walk'.shown[i].position)
      BY <1>1, <1>2, <1>3, <1>4, <1>5, <1>6, TurnedBehind DEF Order
    <2> QED BY <2>1, <2>2, <2>3, <2>4, <2>5 DEF Progressed, Going, Spaced
  <1>9. Promised'
    <2>1. \A i \in due : \E r \in rows : r.id = i /\ Wanted(r) /\ (i \in ShownIds \/ Ahead(r) \/ ~Alive(r))
      BY <1>1, <1>2 DEF Promised
    <2>2. CASE next # <<>>
      <3>1. ASSUME NEW i \in due
            PROVE  \E r \in rows : r.id = i /\ Wanted(r) /\ (i \in ShownIds' \/ Comes(Order, next, Position(Order, r)) \/ ~Alive(r))
        <4>1. PICK r \in rows : r.id = i /\ Wanted(r) /\ (i \in ShownIds \/ Ahead(r) \/ ~Alive(r))
          BY <2>1
        <4> QED BY <1>1, <1>2, <1>3, <1>4, <4>1, TurnedDue
      <3>2. Order' = service'.query.order
        BY DEF Order
      <3> QED BY <1>5, <1>6, <1>7, <2>2, <3>1, <3>2 DEF Promised, Going, Ahead
    <2>3. CASE next = <<>>
      <3>1. ASSUME NEW i \in Living(due) PROVE i \in ShownIds'
        <4>1. i \in due
          BY DEF Living
        <4>2. PICK r \in rows : r.id = i /\ Wanted(r) /\ (i \in ShownIds \/ Ahead(r) \/ ~Alive(r))
          BY <2>1, <4>1
        <4>3. Alive(r)
          BY <1>1, <4>2, LivingAlive
        <4> QED BY <1>1, <1>2, <1>3, <1>4, <2>3, <4>2, <4>3, TurnedDue
      <3> QED BY <1>5, <1>7, <2>3, <3>1 DEF Promised, Going
    <2> QED BY <2>2, <2>3
  <1>10. ReadsScoped'
    BY <1>1, <1>2, <1>3, <1>4, TurnedScoped
  <1> QED BY <1>5, <1>7, <1>8, <1>9, <1>10 DEF WalkInv

----------------------------------------------------------------------------
(* The other steps. *)

LEMMA StopKeeps ==
    ASSUME WalkInv, UNCHANGED <<service, asked, rows, hidden, due, events>>,
           NEW state \in {"refused", "elsewhere", "closed"},
           walk' = [walk EXCEPT !.state = state, !.by = service.query.order]
    PROVE  WalkInv'
  <1>1. PagesTypeOK /\ Numbered /\ Progressed /\ ReadsScoped
    BY DEF WalkInv
  <1>2. walk'.cursor = walk.cursor /\ walk'.shown = walk.shown /\ walk'.state = state /\ walk'.by = service.query.order
    BY <1>1 DEF PagesTypeOK
  <1>3. PagesTypeOK'
    <2>1. service.query.order \in Orders
      BY <1>1, ServiceSound DEF Order
    <2>2. walk' \in [state : WalkStates, cursor : {<<>>} \cup (Nat \X Nat), by : Orders, shown : Seq(Entry)]
      BY <1>1, <2>1 DEF PagesTypeOK, WalkStates
    <2> QED BY <1>1, <2>2 DEF PagesTypeOK
  <1>4. Numbered' /\ Paged' = Paged /\ Level(service)' = Level(service)
    BY <1>1, SameRows
  <1>5. Progressed'
    BY <1>1, <1>2, <1>4 DEF Progressed, Going, Spaced
  <1>6. Promised'
    BY <1>2 DEF Promised, Going
  <1>7. ReadsScoped'
    BY <1>1, <1>2, <1>4 DEF ReadsScoped
  <1> QED BY <1>3, <1>4, <1>5, <1>6, <1>7 DEF WalkInv

LEMMA SameBy ==
    ASSUME WalkInv, NEW state
    PROVE  [walk EXCEPT !.state = state] = [walk EXCEPT !.state = state, !.by = service.query.order]
  BY DEF WalkInv, Progressed, PagesTypeOK

LEMMA StopsKeep ==
    ASSUME WalkInv, Refuse \/ Close
    PROVE  WalkInv'
  <1>1. CASE Refuse
    BY <1>1, SameBy, StopKeeps DEF Refuse
  <1>2. CASE Close
    BY <1>2, SameBy, StopKeeps DEF Close
  <1> QED BY <1>1, <1>2

(* A list takes the cursors of lists with its order only. *)
LEMMA AcceptsSame ==
    ASSUME PagesTypeOK, Paged, NEW other \in Services, Accepts(service.cursor, other)
    PROVE  other.query.order = service.query.order
  <1>1. Sound(service) /\ Sound(other)
    BY ServicesSound DEF PagesTypeOK
  <1>2. service.cursor.kind # ""
    BY <1>1 DEF Sound, Paged
  <1> QED BY <1>1, <1>2 DEF Sound, Accepts

LEMMA ReplayKeeps ==
    ASSUME WalkInv, Replay
    PROVE  WalkInv'
  <1>1. PagesTypeOK /\ Paged
    BY DEF WalkInv, Progressed, Replay
  <1>2. PICK other \in Services \ {service} :
          \/ /\ Accepts(service.cursor, other)
             /\ walk' = [walk EXCEPT !.state = "elsewhere", !.by = other.query.order]
          \/ /\ ~Accepts(service.cursor, other)
             /\ walk' = [walk EXCEPT !.state = "refused"]
    BY DEF Replay
  <1>3. UNCHANGED <<service, asked, rows, hidden, due, events>>
    BY DEF Replay
  <1>4. CASE Accepts(service.cursor, other)
    <2>1. walk' = [walk EXCEPT !.state = "elsewhere", !.by = service.query.order]
      BY <1>1, <1>2, <1>4, AcceptsSame
    <2> QED BY <1>3, <2>1, StopKeeps
  <1>5. CASE ~Accepts(service.cursor, other)
    BY <1>2, <1>3, <1>5, SameBy, StopKeeps
  <1> QED BY <1>4, <1>5

(* Rows change meanwhile: what is still due is still there. *)
LEMMA ChangesKeep ==
    ASSUME WalkInv, Going("open"), UNCHANGED <<service, asked, walk>>, hidden \subseteq hidden',
           events < MAX_EVENTS, events' = events + 1,
           rows' \in SUBSET RowType, IsFiniteSet(rows'), Numbered',
           due' \subseteq due, \A r \in rows : r.id \in due' => r \in rows'
    PROVE  WalkInv'
  <1>1. PagesTypeOK /\ Progressed /\ Promised /\ ReadsScoped
    BY DEF WalkInv
  <1>2. PagesTypeOK'
    <2>1. events' \in Nat /\ events' <= MAX_EVENTS
      BY <1>1, PagesAssumption DEF PagesTypeOK
    <2> QED BY <1>1, <2>1 DEF PagesTypeOK
  <1>3. Paged' = Paged /\ Level(service)' = Level(service) /\ ShownIds' = ShownIds /\ walk'.state = "open"
    BY DEF Paged, Level, ShownIds, Going
  <1>4. Progressed'
    BY <1>1, <1>3 DEF Progressed, Going, Spaced
  <1>5. \A r : (Wanted(r)' <=> Wanted(r)) /\ (Ahead(r)' <=> Ahead(r)) /\ (Alive(r)' => Alive(r))
    BY DEF Wanted, Ahead, Alive
  <1>6. ASSUME NEW i \in due'
        PROVE  \E r \in rows' : r.id = i /\ Wanted(r)' /\ (i \in ShownIds' \/ Ahead(r)' \/ ~Alive(r)')
    <2>1. PICK r \in rows : r.id = i /\ Wanted(r) /\ (i \in ShownIds \/ Ahead(r) \/ ~Alive(r))
      BY <1>1 DEF Promised
    <2> QED BY <1>3, <1>5, <2>1
  <1>7. Promised'
    BY <1>3, <1>6 DEF Promised, Going
  <1>8. ReadsScoped'
    BY <1>1, <1>3 DEF ReadsScoped
  <1> QED BY <1>2, <1>4, <1>7, <1>8 DEF WalkInv

LEMMA PutKeeps ==
    ASSUME WalkInv, Going("open"), UNCHANGED <<service, asked, walk, hidden>>,
           events < MAX_EVENTS, events' = events + 1,
           NEW r \in Ours, NEW changed \in RowType, Put(r, changed),
           changed.id = r.id, changed.place = r.place, Order.tied \/ changed.key = r.key
    PROVE  WalkInv'
  <1>1. PagesTypeOK /\ Numbered
    BY DEF WalkInv
  <1>2. rows' = (rows \ {r}) \union {changed} /\ due' = due \ {r.id} /\ r \in rows
    BY DEF Put, Ours
  <1>3. IsFiniteSet(rows') /\ rows' \in SUBSET RowType
    <2>1. IsFiniteSet(rows \ {r})
      BY <1>1, FS_RemoveElement DEF PagesTypeOK
    <2>2. IsFiniteSet((rows \ {r}) \union {changed})
      BY <2>1, FS_AddElement
    <2> QED BY <1>1, <1>2, <2>2 DEF PagesTypeOK
  <1>4. Numbered'
    <2>1. \A s \in rows' : s.id <= MAX_ROWS + events' \/ s.id = MAX_ROWS + MAX_EVENTS + 1
      <3>1. \A s \in rows : s.id <= MAX_ROWS + events \/ s.id = MAX_ROWS + MAX_EVENTS + 1
        BY <1>1 DEF Numbered
      <3>2. \A s \in rows : s.id \in Nat /\ events \in Nat /\ MAX_ROWS \in Nat
        BY <1>1, PagesAssumption DEF PagesTypeOK, RowType
      <3>3. \A s \in rows : s.id <= MAX_ROWS + events' \/ s.id = MAX_ROWS + MAX_EVENTS + 1
        BY <3>1, <3>2
      <3> QED BY <1>2, <3>3
    <2>2. \A s, x \in rows' : s.id = x.id => s = x
      BY <1>1, <1>2 DEF Numbered
    <2>3. ASSUME ~service.query.order.tied
          PROVE  (\A s \in Ours' : s.key <= MAX_ROWS + events') /\ \A s, x \in Ours' : s.key = x.key => s = x
      <3>1. changed.key = r.key
        BY <2>3 DEF Order
      <3>2. /\ \A s \in Ours : s.key <= MAX_ROWS + events
            /\ \A s, x \in Ours : s.key = x.key => s = x
        BY <1>1, <2>3 DEF Numbered
      <3>3. \A s \in Ours' : s = changed \/ (s \in Ours /\ s # r)
        BY <1>2 DEF Ours
      <3>4. \A s \in Ours : s.key \in Nat /\ events \in Nat /\ MAX_ROWS \in Nat
        BY <1>1, PagesAssumption DEF PagesTypeOK, RowType, Ours
      <3>5. \A s \in Ours' : s.key <= MAX_ROWS + events'
        BY <3>1, <3>2, <3>3, <3>4
      <3>6. \A s, x \in Ours' : s.key = x.key => s = x
        BY <3>1, <3>2, <3>3
      <3> QED BY <3>5, <3>6
    <2> QED BY <2>1, <2>2, <2>3 DEF Numbered
  <1>5. due' \subseteq due /\ \A s \in rows : s.id \in due' => s \in rows'
    BY <1>2
  <1> QED BY <1>3, <1>4, <1>5, ChangesKeep

LEMMA EditsKeep ==
    ASSUME WalkInv, Change \/ Delete \/ Move
    PROVE  WalkInv'
  <1>1. PagesTypeOK
    BY DEF WalkInv
  <1>2. /\ Going("open") /\ UNCHANGED <<service, asked, walk, hidden>>
        /\ events < MAX_EVENTS /\ events' = events + 1
    BY DEF Change, Delete, Move, Event, Quiet
  <1>3. \A r \in Ours : r \in RowType
    BY <1>1 DEF PagesTypeOK, Ours
  <1>4. CASE Change
    <2>1. PICK r \in Ours : Put(r, [r EXCEPT !.tag = ~@])
      BY <1>4 DEF Change
    <2>2. PICK changed : changed = [r EXCEPT !.tag = ~@]
      OBVIOUS
    <2>3. changed \in RowType /\ changed.id = r.id /\ changed.place = r.place /\ changed.key = r.key
      BY <1>3, <2>2 DEF RowType
    <2> QED BY <1>2, <2>1, <2>2, <2>3, PutKeeps
  <1>5. CASE Delete
    <2>1. PICK r \in Ours : Put(r, [r EXCEPT !.gone = TRUE])
      BY <1>5 DEF Delete
    <2>2. PICK changed : changed = [r EXCEPT !.gone = TRUE]
      OBVIOUS
    <2>3. changed \in RowType /\ changed.id = r.id /\ changed.place = r.place /\ changed.key = r.key
      BY <1>3, <2>2 DEF RowType
    <2> QED BY <1>2, <2>1, <2>2, <2>3, PutKeeps
  <1>6. CASE Move
    <2>1. PICK r \in Ours, key \in 1..3 : Put(r, [r EXCEPT !.key = key])
      BY <1>6 DEF Move
    <2>2. PICK changed : changed = [r EXCEPT !.key = key]
      OBVIOUS
    <2>3. changed \in RowType /\ changed.id = r.id /\ changed.place = r.place
      BY <1>3, <2>2 DEF RowType
    <2>4. Order.tied
      BY <1>1, <1>6, ServiceSound DEF Move, Event, Sound, Order
    <2> QED BY <1>2, <2>1, <2>2, <2>3, <2>4, PutKeeps
  <1> QED BY <1>4, <1>5, <1>6

(* The same rows, or fewer, after one more event. *)
LEMMA FewerNumbered ==
    ASSUME PagesTypeOK, Numbered, UNCHANGED service, rows' \subseteq rows, events' = events + 1
    PROVE  Numbered'
  <1>1. \A r \in rows : r.id \in Nat /\ r.key \in Nat /\ events \in Nat /\ MAX_ROWS \in Nat
    BY PagesAssumption DEF PagesTypeOK, RowType
  <1>2. Ours' \subseteq Ours /\ Ours \subseteq rows
    BY DEF Ours
  <1> QED BY <1>1, <1>2 DEF Numbered

LEMMA RemovalsKeep ==
    ASSUME WalkInv, RemoveRow \/ DeleteArchitecture
    PROVE  WalkInv'
  <1>1. PagesTypeOK /\ Numbered
    BY DEF WalkInv
  <1>2. CASE RemoveRow
    <2>1. PICK r \in Ours : rows' = rows \ {r} /\ due' = due \ {r.id}
      BY <1>2 DEF RemoveRow
    <2>2. /\ Going("open") /\ UNCHANGED <<service, asked, walk>> /\ hidden \subseteq hidden'
          /\ events < MAX_EVENTS /\ events' = events + 1
      BY <1>2 DEF RemoveRow, Event, Quiet
    <2>3. rows' \in SUBSET RowType /\ IsFiniteSet(rows')
      BY <1>1, <2>1, FS_RemoveElement DEF PagesTypeOK
    <2>4. Numbered'
      BY <1>1, <2>1, <2>2, FewerNumbered
    <2>5. due' \subseteq due /\ \A s \in rows : s.id \in due' => s \in rows'
      BY <2>1
    <2> QED BY <2>2, <2>3, <2>4, <2>5, ChangesKeep
  <1>3. CASE DeleteArchitecture
    <2>1. /\ Going("open") /\ UNCHANGED <<service, asked, walk, rows, due>> /\ hidden \subseteq hidden'
          /\ events < MAX_EVENTS /\ events' = events + 1
      BY <1>3 DEF DeleteArchitecture
    <2>2. Numbered'
      BY <1>1, <2>1, FewerNumbered
    <2>3. rows' \in SUBSET RowType /\ IsFiniteSet(rows')
      BY <1>1, <2>1 DEF PagesTypeOK
    <2> QED BY <2>1, <2>2, <2>3, ChangesKeep
  <1> QED BY <1>2, <1>3

LEMMA NewRow ==
    ASSUME NEW id \in Nat, NEW place \in Places, NEW key \in Nat, NEW tag \in BOOLEAN
    PROVE  /\ Row(id, place, key, tag) \in RowType
           /\ Row(id, place, key, tag).id = id /\ Row(id, place, key, tag).place = place
           /\ Row(id, place, key, tag).key = key /\ Row(id, place, key, tag).tag = tag
           /\ Row(id, place, key, tag).gone = FALSE
  BY DEF Row, RowType

LEMMA PlacesThere == Here \in Places /\ Beside \in Places /\ Elsewhere \in Places
  BY DEF Places

LEMMA AddKeeps ==
    ASSUME WalkInv, Add
    PROVE  WalkInv'
  <1>1. PagesTypeOK /\ Numbered
    BY DEF WalkInv
  <1>2. /\ Going("open") /\ UNCHANGED <<service, asked, walk>> /\ hidden \subseteq hidden'
        /\ events < MAX_EVENTS /\ events' = events + 1 /\ due' = due
    BY DEF Add, Event, Quiet
  <1>3. PICK key \in NewKeys, tag \in BOOLEAN : rows' = rows \union {Row(MAX_ROWS + events + 1, Here, key, tag)}
    BY DEF Add
  <1>4. events \in Nat /\ MAX_ROWS \in Nat /\ MAX_EVENTS \in Nat
    BY <1>1, PagesAssumption DEF PagesTypeOK
  <1>5. key \in Nat /\ (~Order.tied => key = MAX_ROWS + events + 1)
    BY <1>4 DEF NewKeys, Order
  <1>6. PICK new \in RowType : new = Row(MAX_ROWS + events + 1, Here, key, tag)
    <2>1. MAX_ROWS + events + 1 \in Nat
      BY <1>4
    <2> QED BY <1>5, <2>1, NewRow, PlacesThere
  <1>7. new.id = MAX_ROWS + events + 1 /\ new.key = key
    BY <1>6 DEF Row
  <1>8. rows' = rows \union {new}
    BY <1>3, <1>6
  <1>9. rows' \in SUBSET RowType /\ IsFiniteSet(rows')
    BY <1>1, <1>8, FS_AddElement DEF PagesTypeOK
  <1>10. \A r \in rows : r.id \in Nat /\ r.key \in Nat
    BY <1>1 DEF PagesTypeOK, RowType
  <1>11. Numbered'
    <2>1. \A r \in rows : r.id <= MAX_ROWS + events' \/ r.id = MAX_ROWS + MAX_EVENTS + 1
      BY <1>1, <1>2, <1>4, <1>10 DEF Numbered
    <2>2. new.id <= MAX_ROWS + events'
      BY <1>2, <1>4, <1>7
    <2>3. \A r \in rows : r.id # new.id
      BY <1>1, <1>2, <1>4, <1>7, <1>10 DEF Numbered
    <2>4. \A r, s \in rows' : r.id = s.id => r = s
      BY <1>1, <1>8, <2>3 DEF Numbered
    <2>5. ASSUME ~service.query.order.tied
          PROVE  (\A r \in Ours' : r.key <= MAX_ROWS + events') /\ \A r, s \in Ours' : r.key = s.key => r = s
      <3>1. /\ \A r \in Ours : r.key <= MAX_ROWS + events
            /\ \A r, s \in Ours : r.key = s.key => r = s
        BY <1>1, <2>5 DEF Numbered
      <3>2. new.key = MAX_ROWS + events + 1
        BY <1>5, <1>7, <2>5 DEF Order
      <3>3. \A r \in Ours' : r = new \/ r \in Ours
        BY <1>8 DEF Ours
      <3>4. \A r \in Ours : r.key \in Nat
        BY <1>10 DEF Ours
      <3>5. \A r \in Ours' : r.key <= MAX_ROWS + events'
        BY <1>2, <1>4, <3>1, <3>2, <3>3, <3>4
      <3>6. \A r \in Ours : r.key # new.key
        BY <1>4, <3>1, <3>2, <3>4
      <3>7. \A r, s \in Ours' : r.key = s.key => r = s
        BY <3>1, <3>3, <3>6
      <3> QED BY <3>5, <3>7
    <2>6. \A r \in rows' : r.id <= MAX_ROWS + events' \/ r.id = MAX_ROWS + MAX_EVENTS + 1
      BY <1>8, <2>1, <2>2
    <2>7. UNCHANGED service
      BY <1>2
    <2> QED BY <2>4, <2>5, <2>6, <2>7 DEF Numbered
  <1> QED BY <1>2, <1>8, <1>9, <1>11, ChangesKeep

LEMMA PagesNextKeeps == WalkInv /\ [PagesNext]_pageVars => WalkInv'
  <1> SUFFICES ASSUME WalkInv, [PagesNext]_pageVars PROVE WalkInv'
    OBVIOUS
  <1>1. CASE ReadPage
    BY <1>1, ReadPageKeeps
  <1>2. CASE Refuse \/ Close
    BY <1>2, StopsKeep
  <1>3. CASE Replay
    BY <1>3, ReplayKeeps
  <1>4. CASE Add
    BY <1>4, AddKeeps
  <1>5. CASE Change \/ Delete \/ Move
    BY <1>5, EditsKeep
  <1>6. CASE RemoveRow \/ DeleteArchitecture
    BY <1>6, RemovalsKeep
  <1>7. CASE UNCHANGED pageVars
    <2>1. UNCHANGED <<service, asked, rows, hidden, due, events>> /\ UNCHANGED walk
      BY <1>7 DEF pageVars
    <2>2. PagesTypeOK'
      BY <2>1 DEF WalkInv, PagesTypeOK
    <2>3. Numbered'
      BY <2>1, SameRows DEF WalkInv
    <2>4. Progressed'
      BY <2>1 DEF WalkInv, Progressed, Going, Paged, Spaced
    <2>5. ReadsScoped'
      BY <2>1 DEF WalkInv, ReadsScoped, Level
    <2>6. Promised'
      <3>1. ShownIds' = ShownIds /\ \A r : Ahead(r)' <=> Ahead(r)
        BY <2>1 DEF ShownIds, Ahead
      <3>2. (\A r : (Wanted(r)' <=> Wanted(r)) /\ (Alive(r)' <=> Alive(r))) /\ Living(due)' = Living(due)
        BY <2>1, SameRows
      <3>3. UNCHANGED <<rows, due>> /\ \A state : Going(state)' <=> Going(state)
        BY <2>1 DEF Going
      <3> QED BY <3>1, <3>2, <3>3 DEF WalkInv, Promised
    <2> QED BY <2>2, <2>3, <2>4, <2>5, <2>6 DEF WalkInv
  <1> QED BY <1>1, <1>2, <1>3, <1>4, <1>5, <1>6, <1>7 DEF PagesNext

----------------------------------------------------------------------------
(* At first: every row of an add is stored, in whatever batches.             *)

LEMMA AskedSize ==
    ASSUME asked \in Asked
    PROVE  asked.size \in Nat \ {0}
  <1>1. PICK where \in Wheres, filter \in {"none"} \union service.query.filters, size \in IF Paged THEN Sizes ELSE {1},
             id \in IF "id" \in service.query.where THEN {0, 1, MAX_ROWS + MAX_EVENTS + 1} ELSE {0} :
             asked = [architecture |-> where[1], analysis |-> where[2], filter |-> filter, size |-> size, id |-> id]
    BY DEF Asked
  <1>2. size \in Nat \ {0}
    BY PagesAssumption
  <1>3. asked.size = size
    BY <1>1
  <1> QED BY <1>2, <1>3

LEMMA KeysSound ==
    ASSUME NEW n \in Nat, NEW keys \in Keys(n)
    PROVE  /\ keys \in [1..n -> Nat]
           /\ ~service.query.order.tied =>
                /\ \A i \in 1..n : keys[i] \in 1..n
                /\ \A i, j \in 1..n : keys[i] = keys[j] => i = j
  <1>1. CASE service.query.order.tied
    <2>1. keys \in [1..n -> 1..2]
      BY <1>1 DEF Keys
    <2> QED BY <1>1, <2>1
  <1>2. CASE ~service.query.order.tied
    <2>1. keys = [i \in 1..n |-> i] \/ keys = [i \in 1..n |-> n + 1 - i]
      BY <1>2 DEF Keys
    <2> QED BY <2>1
  <1> QED BY <1>1, <1>2

LEMMA GivenSound ==
    ASSUME NEW n \in Nat, NEW keys \in [1..n -> Nat], NEW tagged
    PROVE  LET given == Given(n, keys, tagged)
           IN  /\ given \in SUBSET RowType /\ IsFiniteSet(given) /\ Cardinality(given) = n
               /\ \A r \in given : r.id \in 1..n /\ r.place = Here /\ r.key = keys[r.id]
               /\ \A r, s \in given : r.id = s.id => r = s
  <1> DEFINE given == Given(n, keys, tagged)
             f == [i \in 1..n |-> Row(i, Here, keys[i], i \in tagged)]
  <1>1. \A i \in 1..n : f[i] = Row(i, Here, keys[i], i \in tagged)
    OBVIOUS
  <1>2. \A i \in 1..n : f[i] \in RowType /\ f[i].id = i /\ f[i].place = Here /\ f[i].key = keys[i]
    <2>1. SUFFICES ASSUME NEW i \in 1..n
                   PROVE  f[i] \in RowType /\ f[i].id = i /\ f[i].place = Here /\ f[i].key = keys[i]
      OBVIOUS
    <2>2. i \in Nat /\ keys[i] \in Nat /\ (i \in tagged) \in BOOLEAN
      OBVIOUS
    <2>3. PICK tag \in BOOLEAN : tag = (i \in tagged)
      BY <2>2
    <2>4. f[i] = Row(i, Here, keys[i], tag)
      BY <1>1, <2>3
    <2>5. PICK key \in Nat : key = keys[i]
      BY <2>2
    <2>6. f[i] = Row(i, Here, key, tag)
      BY <2>4, <2>5
    <2> HIDE DEF f
    <2>7. /\ Row(i, Here, key, tag) \in RowType
          /\ Row(i, Here, key, tag).id = i /\ Row(i, Here, key, tag).place = Here /\ Row(i, Here, key, tag).key = key
      BY <2>2, PlacesThere DEF Row, RowType
    <2> QED BY <2>5, <2>6, <2>7
  <1>3. given = {f[i] : i \in 1..n}
    BY <1>1 DEF Given
  <1>4. DOMAIN f = 1..n /\ f \in [1..n -> given]
    BY <1>3
  <1> HIDE DEF f, given
  <1>5. f \in Surjection(1..n, given) /\ f \in Injection(1..n, given)
    <2>1. \A r \in given : \E i \in 1..n : f[i] = r
      BY <1>3
    <2>2. \A i, j \in 1..n : f[i] = f[j] => i = j
      BY <1>2
    <2> QED BY <1>4, <2>1, <2>2 DEF Surjection, Injection, IsInjective
  <1>6. IsFiniteSet(1..n) /\ Cardinality(1..n) = n
    BY FS_Interval
  <1>7. IsFiniteSet(given) /\ Cardinality(given) = n
    BY <1>5, <1>6, FS_Surjection
  <1>8. given \in SUBSET RowType /\ \A r \in given : r.id \in 1..n /\ r.place = Here /\ r.key = keys[r.id]
    BY <1>2, <1>3
  <1>9. \A r, s \in given : r.id = s.id => r = s
    BY <1>2, <1>3
  <1> QED BY <1>7, <1>8, <1>9 DEF given

LEMMA Rounded ==
    ASSUME NEW i \in Nat, NEW b \in Nat \ {0}, NEW r \in 0..(b - 1), r <= i
    PROVE  i - r \in Nat /\ i - r <= i /\ i < (i - r) + b
  OBVIOUS

LEMMA Remainder ==
    ASSUME NEW i \in Nat, NEW b \in Nat \ {0}
    PROVE  \E m \in Nat : m <= i /\ i < m + b /\ m % b = 0
  <1>1. (i - (i % b)) % b = 0
    <2>1. i = b * (i \div b) + (i % b) /\ i \div b \in Int /\ i % b \in Int
      OBVIOUS
    <2>2. PICK q \in Int, r \in Int : q = i \div b /\ r = i % b /\ i = b * q + r
      BY <2>1, Zenon
    <2>3. i - r = b * q
      BY <2>2
    <2>4. (b * q) % b = 0
      OBVIOUS
    <2> QED BY <2>2, <2>3, <2>4, Zenon
  <1>2. i % b <= i
    OBVIOUS
  <1>3. i % b \in 0..(b - 1)
    OBVIOUS
  <1>4. i - (i % b) \in Nat /\ i - (i % b) <= i /\ i < (i - (i % b)) + b
    BY <1>2, <1>3, Rounded, Zenon
  <1> QED BY <1>1, <1>4, Zenon

LEMMA LeastOfTwo ==
    ASSUME NEW a \in Int, NEW b \in Int
    PROVE  Min({a, b}) \in {a, b} /\ Min({a, b}) <= a /\ Min({a, b}) <= b
  <1>1. \E x \in {a, b} : \A y \in {a, b} : x <= y
    BY DEF Min
  <1> QED BY <1>1 DEF Min

(* The batches cover every row. *)
LEMMA BatchesCover ==
    ASSUME NEW n \in Nat, NEW i \in 0..(n - 1)
    PROVE  \E batch \in Batches(n) : i \in batch
  <1>1. BATCH \in Nat \ {0} /\ i \in Nat
    BY PagesAssumption
  <1>2. PICK start \in Nat : start <= i /\ i < start + BATCH /\ start % BATCH = 0
    BY <1>1, Remainder
  <1>3. start \in 0..(n - 1)
    BY <1>1, <1>2
  <1>4. PICK least : least = Min({start + BATCH, n})
    OBVIOUS
  <1>5. least \in {start + BATCH, n}
    <2>1. start + BATCH \in Int /\ n \in Int
      BY <1>1
    <2> QED BY <1>4, <2>1, LeastOfTwo
  <1>6. i \in start..(least - 1)
    BY <1>1, <1>2, <1>5
  <1> QED BY <1>2, <1>3, <1>4, <1>6 DEF Batches

LEMMA AllStored ==
    ASSUME service \in Services, NEW n \in Nat, NEW given, Cardinality(given) = n, \A r \in given : r.id \in 1..n
    PROVE  Stored(service.adds, service.table, given) = given
  <1>1. service.table = service.adds.table \/ service.table \in service.adds.below
    BY ServicesSound DEF Sound
  <1>2. \A r \in given : \E batch \in Batches(n) : r.id - 1 \in batch
    <2>1. SUFFICES ASSUME NEW r \in given PROVE \E batch \in Batches(n) : r.id - 1 \in batch
      OBVIOUS
    <2>2. r.id - 1 \in 0..(n - 1)
      OBVIOUS
    <2> QED BY <2>2, BatchesCover
  <1> QED BY <1>1, <1>2 DEF Stored

LEMMA OthersSound ==
    /\ Others \in SUBSET RowType /\ IsFiniteSet(Others)
    /\ \A r \in Others : r.id = 0 \/ r.id = MAX_ROWS + MAX_EVENTS + 1
    /\ \A r, s \in Others : r.id = s.id => r = s
    /\ \A r \in Others : r.place.owner = "us" => r.id # 0 /\ (~service.query.order.tied => r.key = 0)
  <1> DEFINE far == Row(0, Elsewhere, 1, TRUE)
             key == IF service.query.order.tied THEN 1 ELSE 0
             last == MAX_ROWS + MAX_EVENTS + 1
             near == Row(last, Beside, key, TRUE)
  <1>1. Others = {far, near}
    BY DEF Others
  <1>2. last \in Nat \ {0} /\ key \in Nat
    BY PagesAssumption
  <1> HIDE DEF last
  <1>3. far \in RowType /\ far.id = 0 /\ far.place = Elsewhere /\ near \in RowType /\ near.id = last /\ near.key = key
    <2>1. far \in RowType /\ far.id = 0 /\ far.place = Elsewhere
      BY PlacesThere DEF Row, RowType
    <2>2. PICK k \in Nat : k = key
      BY <1>2
    <2>3. near = Row(last, Beside, k, TRUE)
      BY <2>2
    <2>4. Row(last, Beside, k, TRUE) \in RowType
          /\ Row(last, Beside, k, TRUE).id = last /\ Row(last, Beside, k, TRUE).key = k
      BY <1>2, PlacesThere DEF Row, RowType
    <2> HIDE DEF far, near, key
    <2> QED BY <2>1, <2>2, <2>3, <2>4
  <1> HIDE DEF far, near
  <1>4. far.place.owner # "us"
    <2>1. Elsewhere.owner = "them"
      BY DEF Elsewhere, Place
    <2> QED BY <1>3, <2>1
  <1>5. IsFiniteSet({far, near})
    <2>1. IsFiniteSet({far})
      BY FS_Singleton
    <2>2. IsFiniteSet({far} \cup {near})
      BY <2>1, FS_AddElement
    <2>3. {far} \cup {near} = {far, near}
      OBVIOUS
    <2> QED BY <2>2, <2>3
  <1> QED BY <1>1, <1>2, <1>3, <1>4, <1>5 DEF last

(* The rows at first. *)
LEMMA FirstRowsSound ==
    ASSUME PagesInit
    PROVE  \E given :
              /\ rows = Others \union given /\ rows \in SUBSET RowType /\ IsFiniteSet(rows)
              /\ due = {r.id : r \in {g \in rows : Matches(service.query, g)}}
              /\ Numbered
  <1>1. service \in Services /\ events = 0
    BY DEF PagesInit
  <1>2. PICK n \in 0..MAX_ROWS : \E keys \in Keys(n), untagged \in IF asked.filter = "changed" THEN {0, 2} ELSE {0} :
          LET given == Given(n, keys, 1..n \ {untagged})
          IN  /\ rows = Others \union Stored(service.adds, service.table, given)
              /\ due = {r.id : r \in {g \in given \union Others : Matches(service.query, g)}}
    BY DEF PagesInit
  <1>3. PICK keys \in Keys(n), untagged \in {0, 2} :
          LET given == Given(n, keys, 1..n \ {untagged})
          IN  /\ rows = Others \union Stored(service.adds, service.table, given)
              /\ due = {r.id : r \in {g \in given \union Others : Matches(service.query, g)}}
    BY <1>2
  <1>4. PICK given : given = Given(n, keys, 1..n \ {untagged})
    OBVIOUS
  <1>5. /\ rows = Others \union Stored(service.adds, service.table, given)
        /\ due = {r.id : r \in {g \in given \union Others : Matches(service.query, g)}}
    BY <1>3, <1>4
  <1>6. n \in Nat /\ n <= MAX_ROWS /\ MAX_ROWS \in Nat /\ MAX_EVENTS \in Nat
    BY PagesAssumption
  <1>7. /\ keys \in [1..n -> Nat]
        /\ ~service.query.order.tied =>
             /\ \A i \in 1..n : keys[i] \in 1..n
             /\ \A i, j \in 1..n : keys[i] = keys[j] => i = j
    BY <1>6, KeysSound
  <1>8. /\ given \in SUBSET RowType /\ IsFiniteSet(given) /\ Cardinality(given) = n
        /\ \A r \in given : r.id \in 1..n /\ r.place = Here /\ r.key = keys[r.id]
        /\ \A r, s \in given : r.id = s.id => r = s
    <2>1. PICK tagged : tagged = 1..n \ {untagged}
      OBVIOUS
    <2>2. given = Given(n, keys, tagged)
      BY <1>4, <2>1, Zenon
    <2>3. LET some == Given(n, keys, tagged)
          IN  /\ some \in SUBSET RowType /\ IsFiniteSet(some) /\ Cardinality(some) = n
              /\ \A r \in some : r.id \in 1..n /\ r.place = Here /\ r.key = keys[r.id]
              /\ \A r, s \in some : r.id = s.id => r = s
      BY <1>6, <1>7, GivenSound, Zenon
    <2> QED BY <2>2, <2>3, Zenon
  <1>9. Stored(service.adds, service.table, given) = given
    BY <1>1, <1>6, <1>8, AllStored
  <1>10. rows = Others \union given /\ due = {r.id : r \in {g \in rows : Matches(service.query, g)}}
    <2>1. rows = given \union Others
      BY <1>5, <1>9
    <2> QED BY <1>5, <2>1
  <1>11. rows \in SUBSET RowType /\ IsFiniteSet(rows)
    BY <1>8, <1>10, OthersSound, FS_Union
  <1>12. \A r \in given : r.id <= MAX_ROWS /\ r.id # 0 /\ r.id # MAX_ROWS + MAX_EVENTS + 1
    BY <1>6, <1>8
  <1>13. \A r \in rows : r.id <= MAX_ROWS + events \/ r.id = MAX_ROWS + MAX_EVENTS + 1
    BY <1>1, <1>6, <1>10, <1>12, OthersSound
  <1>14. \A r, s \in rows : r.id = s.id => r = s
    BY <1>8, <1>10, <1>12, OthersSound
  <1>15. ASSUME ~service.query.order.tied
         PROVE  (\A r \in Ours : r.key <= MAX_ROWS + events) /\ \A r, s \in Ours : r.key = s.key => r = s
    <2>1. \A r \in given : r.key \in 1..n
      BY <1>7, <1>8, <1>15
    <2>2. \A r, s \in given : r.key = s.key => r = s
      BY <1>7, <1>8, <1>15
    <2>3. \A r \in Ours : r \in given \/ (r \in Others /\ r.id = MAX_ROWS + MAX_EVENTS + 1 /\ r.key = 0)
      BY <1>10, <1>15, OthersSound DEF Ours
    <2>4. \A r \in Ours : r.key <= MAX_ROWS + events
      BY <1>1, <1>6, <2>1, <2>3
    <2>5. \A r, s \in Ours : r.key = s.key => r = s
      BY <2>1, <2>2, <2>3, OthersSound
    <2> QED BY <2>4, <2>5
  <1>16. Numbered
    BY <1>13, <1>14, <1>15 DEF Numbered
  <1> QED BY <1>10, <1>11, <1>16

LEMMA EmptyShown ==
    ASSUME walk.shown = <<>>
    PROVE  ReadsScoped /\ Spaced(walk.shown, service.query.order) /\ walk.shown \in Seq(Entry)
  BY DEF ReadsScoped, Spaced

LEMMA PagesInitSound == PagesInit => WalkInv
  <1> SUFFICES ASSUME PagesInit PROVE WalkInv
    OBVIOUS
  <1>1. /\ service \in Services /\ asked \in Asked /\ hidden = {} /\ events = 0
        /\ walk = [state |-> "open", cursor |-> <<>>, by |-> service.query.order, shown |-> <<>>]
    BY DEF PagesInit
  <1>2. PICK given :
              /\ rows = Others \union given /\ rows \in SUBSET RowType /\ IsFiniteSet(rows)
              /\ due = {r.id : r \in {g \in rows : Matches(service.query, g)}}
              /\ Numbered
    BY FirstRowsSound
  <1>3. service.query.order \in Orders
    BY <1>1, ServicesSound DEF Sound
  <1>4. walk.state = "open" /\ walk.cursor = <<>> /\ walk.by = service.query.order /\ walk.shown = <<>>
    BY <1>1
  <1>5. PagesTypeOK
    <2>1. asked.size \in Nat \ {0}
      BY <1>1, AskedSize
    <2>2. walk \in [state : WalkStates, cursor : {<<>>} \cup (Nat \X Nat), by : Orders, shown : Seq(Entry)]
      BY <1>1, <1>3, EmptyShown DEF WalkStates
    <2>3. events \in Nat /\ events <= MAX_EVENTS
      BY <1>1, PagesAssumption
    <2> QED BY <1>1, <1>2, <2>1, <2>2, <2>3 DEF PagesTypeOK
  <1>6. Progressed
    BY <1>4, EmptyShown DEF Progressed
  <1>7. Promised
    <2>1. \A r : Matches(service.query, r) => Wanted(r)
      BY DEF Matches, Wanted
    <2>2. \A r : Ahead(r)
      BY <1>4 DEF Ahead
    <2>3. ASSUME NEW i \in due
          PROVE  \E r \in rows : r.id = i /\ Wanted(r) /\ (i \in ShownIds \/ Ahead(r) \/ ~Alive(r))
      <3>1. PICK r \in rows : Matches(service.query, r) /\ r.id = i
        BY <1>2
      <3> QED BY <2>1, <2>2, <3>1
    <2> QED BY <1>4, <2>3 DEF Promised, Going
  <1> QED BY <1>2, <1>4, <1>5, <1>6, <1>7, EmptyShown DEF WalkInv

LEMMA UnreadSound == Unread => WalkInv
  <1> SUFFICES ASSUME Unread PROVE WalkInv
    OBVIOUS
  <1>1. /\ service = list_projects /\ asked \in Asked
        /\ walk = [state |-> "none", cursor |-> <<>>, by |-> service.query.order, shown |-> <<>>]
        /\ rows = {} /\ hidden = {} /\ due = {} /\ events = 0
    BY DEF Unread
  <1>2. service \in Services
    BY <1>1 DEF Services
  <1>3. service.query.order \in Orders
    BY <1>2, ServicesSound DEF Sound
  <1>4. walk.state = "none" /\ walk.cursor = <<>> /\ walk.by = service.query.order /\ walk.shown = <<>>
    BY <1>1
  <1>5. PagesTypeOK
    <2>1. asked.size \in Nat \ {0}
      BY <1>1, AskedSize
    <2>2. walk \in [state : WalkStates, cursor : {<<>>} \cup (Nat \X Nat), by : Orders, shown : Seq(Entry)]
      BY <1>1, <1>3, EmptyShown DEF WalkStates
    <2>3. events \in Nat /\ events <= MAX_EVENTS
      BY <1>1, PagesAssumption
    <2>4. rows \in SUBSET RowType /\ IsFiniteSet(rows)
      BY <1>1, FS_EmptySet
    <2> QED BY <1>2, <2>1, <2>2, <2>3, <2>4 DEF PagesTypeOK
  <1>6. Numbered
    BY <1>1 DEF Numbered, Ours
  <1>7. Progressed
    BY <1>4, EmptyShown DEF Progressed
  <1>8. Promised
    BY <1>1, <1>4 DEF Promised, Going
  <1> QED BY <1>4, <1>5, <1>6, <1>7, <1>8, EmptyShown DEF WalkInv

----------------------------------------------------------------------------
(* Theorems. *)

LEMMA WalkInvKept == DatabaseSpec => []WalkInv
  <1>1. DatabaseInit => WalkInv
    BY PagesInitSound, UnreadSound DEF DatabaseInit
  <1>2. WalkInv /\ [DatabaseNext]_<<vars, pageVars>> => WalkInv'
    <2> SUFFICES ASSUME WalkInv, [DatabaseNext]_<<vars, pageVars>> PROVE WalkInv'
      OBVIOUS
    <2>1. [PagesNext]_pageVars
      BY DEF DatabaseNext, Migrate, Page
    <2> QED BY <2>1, PagesNextKeeps
  <1> QED BY <1>1, <1>2, PTL DEF DatabaseSpec

LEMMA WalkInvExact == WalkInv => WalksExact
  <1> SUFFICES ASSUME WalkInv PROVE WalksExact
    OBVIOUS
  <1>1. walk.shown \in Seq(Entry) /\ Spaced(walk.shown, service.query.order) /\ walk.by = service.query.order
    BY DEF WalkInv, PagesTypeOK, Progressed
  <1>2. Ordered(walk.shown)
    <2>1. SUFFICES ASSUME NEW i \in 1..(Len(walk.shown) - 1)
                   PROVE  Comes(service.query.order, walk.shown[i].position, walk.shown[i + 1].position)
      BY DEF Ordered
    <2>2. i \in 1..Len(walk.shown) /\ i + 1 \in 1..Len(walk.shown) /\ i < i + 1
      <3>1. Len(walk.shown) \in Nat
        BY <1>1
      <3> QED BY <3>1
    <2> QED BY <1>1, <2>2 DEF Spaced
  <1>3. Going("done") => Living(due) \subseteq ShownIds
    BY DEF WalkInv, Promised
  <1> QED BY <1>1, <1>2, <1>3 DEF WalksExact

(* Every list of the API, read page by page while other transactions add,   *)
(* change, move, delete and remove rows (the list methods of the services   *)
(* and the cursors of their repositories): the pages together are in the    *)
(* order of the list with no position twice, the last page leaves out no    *)
(* row that was stored before the first one and not touched since, and no   *)
(* list takes a cursor that was made for another order.                     *)
THEOREM WalksExactHolds == DatabaseSpec => []WalksExact
  BY WalkInvKept, WalkInvExact, PTL

(* Every list and every single read of the API shows only rows of the       *)
(* caller's owner, below the architecture or analysis that was asked for,   *)
(* and none that was deleted before the page was read.                      *)
THEOREM ReadsScopedHolds == DatabaseSpec => []ReadsScoped
  <1>1. WalkInv => ReadsScoped
    BY DEF WalkInv
  <1> QED BY <1>1, WalkInvKept, PTL
=============================================================================
