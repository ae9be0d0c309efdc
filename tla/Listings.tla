------------------------------ MODULE Listings ------------------------------
(***************************************************************************)
(* What the API reads: every list and every single read of the services,    *)
(* with the query of the repository behind it, the cursor of its pages and  *)
(* what the repository stores for it.                                       *)
(*                                                                         *)
(* The owner of a row is a project, or an organization where the rows       *)
(* belong to one.  A row lies below an architecture (or a requirement, a    *)
(* snapshot, a plan), and some rows below an analysis of it.                *)
(***************************************************************************)
EXTENDS Sequences

\* Columns a query compares with what was asked for.
Owner == {"owner"}
InArchitecture == {"owner", "architecture"}
InAnalysis == {"owner", "analysis"}

\* The order of a list; cursors hold the columns of the order.
Newest == [descending |-> TRUE, tied |-> TRUE]     \* by a moment, then by the id
Alphabetical == [descending |-> FALSE, tied |-> TRUE]
Ascending == [descending |-> FALSE, tied |-> FALSE]   \* by a number, position, name or id that is unique
Descending == [descending |-> TRUE, tied |-> FALSE]

\* hides: rows that were deleted (or superseded, accepted, revoked), rows of a parent that was.
Nothing == {}
Deleted == {"deleted"}
OfDeleted == {"of deleted"}
Select(where, hides, order, filters) == [where |-> where, hides |-> hides, order |-> order, filters |-> filters]
Single(where, hides) == Select(where \union {"id"}, hides, Ascending, {})

\* What a repository writes with one add: its row, and rows below it.
Adds(table, below) == [table |-> table, below |-> below]

Cursor(kind, parts) == [kind |-> kind, parts |-> parts]
NoCursor == Cursor("", 0)
\* What a service reads first, and refuses to go on without.
List(table, adds, first, query, cursor, life) ==
    [table |-> table, adds |-> adds, first |-> first, query |-> query, cursor |-> cursor, life |-> life]
Read(table, adds, first, query) == List(table, adds, first, query, NoCursor, query.hides \intersect {"deleted"})

\* What may happen to a row while it is listed.
Fixed == {}
Growing == {"added"}
Reviewed == {"added", "changed"}
Lasting == {"added", "changed", "deleted"}
Moving == Lasting \union {"moved"}
Removable == {"added", "removed"}

-----------------------------------------------------------------------------
(* Projects and organizations.                                              *)

projects_add == Adds("projects", {})
projects_list(order) == Select(Owner, Deleted, order, {"changed"})
ProjectCursor(sort) == Cursor(sort, 3)
list_projects == List("projects", projects_add, "owner", projects_list(Newest), ProjectCursor("created_at"), Lasting)
list_projects_by_update ==
    List("projects", projects_add, "owner", projects_list(Newest), ProjectCursor("updated_at"), Moving)
list_projects_by_name ==
    List("projects", projects_add, "owner", projects_list(Alphabetical), ProjectCursor("name"), Moving)

audit_record == Adds("audit_logs", {})
audit_list == Select(Owner, Nothing, Newest, {})
audit_cursor == Cursor("audit", 3)
organization_log == List("audit_logs", audit_record, "owner", audit_list, audit_cursor, Growing)

invitations_add == Adds("invitations", {})
invitations_list_pending == Select(Owner, Deleted, Newest, {})
list_pending == List("invitations", invitations_add, "owner", invitations_list_pending, NoCursor, {"added", "deleted"})
invitations_get_pending == Single(Owner, Deleted)
get_pending == Read("invitations", invitations_add, "owner", invitations_get_pending)

memberships_add == Adds("organization_members", {})
memberships_get == Single(Owner, Nothing)
get_membership == Read("organization_members", memberships_add, "owner", memberships_get)
memberships_list_members == Select(Owner, Nothing, Alphabetical, {})
list_members ==
    List("organization_members", memberships_add, "owner", memberships_list_members, NoCursor, Removable \union {"moved"})

\* The owner of a session is its user.
sessions_add == Adds("sessions", {})
sessions_list_active == Select(Owner, Deleted, Newest, {})
list_sessions == List("sessions", sessions_add, "owner", sessions_list_active, NoCursor, Moving)
sessions_revoke_owned == Single(Owner, Deleted)
revoke_owned == Read("sessions", sessions_add, "owner", sessions_revoke_owned)

pricing_add == Adds("pricing_snapshots", {"pricing_records"})
pricing_list == Select(Owner, Nothing, Newest, {})
snapshot_cursor == Cursor("pricing_snapshots", 3)
list_snapshots == List("pricing_snapshots", pricing_add, "owner", pricing_list, snapshot_cursor, Growing)
pricing_record == Single(Owner, Nothing)
get_snapshot == Read("pricing_snapshots", pricing_add, "owner", pricing_record)
pricing_list_records == Select(InAnalysis, Nothing, Ascending, {"changed"})
record_cursor == Cursor("pricing_records", 2)
list_records == List("pricing_records", pricing_add, "snapshot", pricing_list_records, record_cursor, Fixed)

-----------------------------------------------------------------------------
(* Requirements.                                                            *)

requirements_add == Adds("requirements", {"requirement_versions"})
requirements_live == Single(Owner, Deleted)
get_requirement == Read("requirements", requirements_add, "owner", requirements_live)
requirements_list == Select(Owner, Deleted, Newest, {"changed"})
RequirementCursor == Cursor("created_at", 3)
list_requirements == List("requirements", requirements_add, "owner", requirements_list, RequirementCursor, Lasting)
requirements_list_by_status == Select(Owner, Deleted, Ascending, {"changed"})
analyze_requirements ==
    List("requirements", requirements_add, "owner", requirements_list_by_status, NoCursor, Lasting)
\* The versions of a requirement lie below it.
versions_of_live == InArchitecture
requirements_list_versions == Select(versions_of_live, OfDeleted, Ascending, {})
version_cursor == Cursor("version", 2)
list_versions ==
    List("requirement_versions", requirements_add, "owner", requirements_list_versions, version_cursor, Growing)
requirements_get_version == Single(versions_of_live, OfDeleted)
get_version == Read("requirement_versions", requirements_add, "owner", requirements_get_version)

requirement_sets_add == Adds("requirement_sets", {"requirement_set_items"})
requirement_sets_list == Select(Owner, Nothing, Descending, {})
set_cursor == Cursor("requirement_set", 2)
list_requirement_sets ==
    List("requirement_sets", requirement_sets_add, "owner", requirement_sets_list, set_cursor, Growing)
requirement_sets_get == Single(Owner, Nothing)
get_requirement_set == Read("requirement_sets", requirement_sets_add, "owner", requirement_sets_get)
requirement_sets_get_planning_input == Single(Owner, Nothing)
get_planning_input == Read("requirement_sets", requirement_sets_add, "owner", requirement_sets_get_planning_input)

requirement_analyses_add == Adds("requirement_analyses", {})
requirement_analyses_get == Single(Owner, Nothing)
get_requirement_analysis == Read("requirement_analyses", requirement_analyses_add, "owner", requirement_analyses_get)

-----------------------------------------------------------------------------
(* Architectures.                                                           *)

architectures_add == Adds("architectures", {"architecture_revisions"})
architectures_get == Single(Owner, Deleted)
get_architecture == Read("architectures", architectures_add, "owner", architectures_get)
architectures_list == Select(Owner, Deleted, Newest, {"changed"})
architecture_cursor == Cursor("architectures", 3)
list_architectures == List("architectures", architectures_add, "owner", architectures_list, architecture_cursor, Lasting)
\* Not scoped by the project: the architecture was found in it before.
architectures_get_revision == Single({"architecture"}, Nothing)
get_architecture_version == Read("architecture_revisions", architectures_add, "architecture", architectures_get_revision)
architectures_list_revisions == Select({"architecture"}, Nothing, Descending, {})
revision_cursor == Cursor("architecture_revisions", 2)
history_unresolved ==
    List("architecture_revisions", architectures_add, "owner", architectures_list_revisions, revision_cursor, Growing)
history ==
    List("architecture_revisions", architectures_add, "architecture", architectures_list_revisions, revision_cursor, Growing)

-----------------------------------------------------------------------------
(* Analyses: kept as they were stored, hidden with their architecture.      *)

validations_add == Adds("validation_runs", {"validation_findings"})
validations_get == Single(InArchitecture, Nothing)
get_validation_run == Read("validation_runs", validations_add, "architecture", validations_get)
validations_list == Select(InArchitecture, Nothing, Newest, {"changed"})
validation_runs_cursor == Cursor("validation_runs", 3)
list_validation_runs ==
    List("validation_runs", validations_add, "architecture", validations_list, validation_runs_cursor, Growing)
validations_list_findings == Select(InAnalysis, Nothing, Ascending, {"changed"})
validation_findings_cursor == Cursor("validation_findings", 2)
list_validation_findings ==
    List("validation_findings", validations_add, "analysis", validations_list_findings, validation_findings_cursor, Fixed)

capacity_add == Adds("capacity_analyses", {"capacity_components", "capacity_bottlenecks"})
capacity_get == Single(InArchitecture, Nothing)
get_capacity_analysis == Read("capacity_analyses", capacity_add, "architecture", capacity_get)
capacity_list == Select(InArchitecture, Nothing, Newest, {"changed"})
capacity_analyses_cursor == Cursor("capacity_analyses", 3)
list_capacity_analyses ==
    List("capacity_analyses", capacity_add, "architecture", capacity_list, capacity_analyses_cursor, Growing)
capacity_list_components == Select(InAnalysis, Nothing, Ascending, {"changed"})
capacity_components_cursor == Cursor("capacity_components", 2)
list_capacity_components ==
    List("capacity_components", capacity_add, "analysis", capacity_list_components, capacity_components_cursor, Fixed)
capacity_list_bottlenecks == Select(InAnalysis, Nothing, Ascending, {"changed"})
list_capacity_bottlenecks ==
    List("capacity_bottlenecks", capacity_add, "analysis", capacity_list_bottlenecks, NoCursor, Fixed)

cost_add == Adds("cost_analyses", {"cost_line_items"})
cost_get == Single(InArchitecture, Nothing)
get_cost_analysis == Read("cost_analyses", cost_add, "architecture", cost_get)
cost_list == Select(InArchitecture, Nothing, Newest, {"changed"})
cost_analyses_cursor == Cursor("cost_analyses", 3)
list_cost_analyses == List("cost_analyses", cost_add, "architecture", cost_list, cost_analyses_cursor, Growing)
cost_list_line_items == Select(InAnalysis, Nothing, Ascending, {"changed"})
cost_line_items_cursor == Cursor("cost_line_items", 3)
list_cost_line_items ==
    List("cost_line_items", cost_add, "analysis", cost_list_line_items, cost_line_items_cursor, Fixed)

reliability_add == Adds("reliability_analyses", {"reliability_components", "reliability_findings"})
reliability_get == Single(InArchitecture, Nothing)
get_reliability_analysis == Read("reliability_analyses", reliability_add, "architecture", reliability_get)
reliability_list == Select(InArchitecture, Nothing, Newest, {"changed"})
reliability_analyses_cursor == Cursor("reliability_analyses", 3)
list_reliability_analyses ==
    List("reliability_analyses", reliability_add, "architecture", reliability_list, reliability_analyses_cursor, Growing)
reliability_list_components == Select(InAnalysis, Nothing, Ascending, {"changed"})
reliability_components_cursor == Cursor("reliability_components", 2)
list_reliability_components ==
    List("reliability_components", reliability_add, "analysis", reliability_list_components, reliability_components_cursor, Fixed)
reliability_list_findings == Select(InAnalysis, Nothing, Ascending, {"changed"})
reliability_findings_cursor == Cursor("reliability_findings", 2)
list_reliability_findings ==
    List("reliability_findings", reliability_add, "analysis", reliability_list_findings, reliability_findings_cursor, Fixed)

security_add == Adds("security_analyses", {"security_components", "security_findings"})
security_get == Single(InArchitecture, Nothing)
get_security_analysis == Read("security_analyses", security_add, "architecture", security_get)
security_list == Select(InArchitecture, Nothing, Newest, {"changed"})
security_analyses_cursor == Cursor("security_analyses", 3)
list_security_analyses ==
    List("security_analyses", security_add, "architecture", security_list, security_analyses_cursor, Growing)
security_list_components == Select(InAnalysis, Nothing, Ascending, {"changed"})
security_components_cursor == Cursor("security_components", 2)
list_security_components ==
    List("security_components", security_add, "analysis", security_list_components, security_components_cursor, Fixed)
security_list_findings == Select(InAnalysis, Nothing, Ascending, {"changed"})
security_findings_cursor == Cursor("security_findings", 2)
list_security_findings ==
    List("security_findings", security_add, "analysis", security_list_findings, security_findings_cursor, Fixed)

observability_add == Adds("observability_analyses", {"observability_components", "observability_findings"})
observability_get == Single(InArchitecture, Nothing)
get_observability_analysis == Read("observability_analyses", observability_add, "architecture", observability_get)
observability_list == Select(InArchitecture, Nothing, Newest, {"changed"})
observability_analyses_cursor == Cursor("observability_analyses", 3)
list_observability_analyses ==
    List("observability_analyses", observability_add, "architecture", observability_list, observability_analyses_cursor, Growing)
observability_list_components == Select(InAnalysis, Nothing, Ascending, {"changed"})
observability_components_cursor == Cursor("observability_components", 2)
list_observability_components ==
    List("observability_components", observability_add, "analysis", observability_list_components, observability_components_cursor, Fixed)
observability_list_findings == Select(InAnalysis, Nothing, Ascending, {"changed"})
observability_findings_cursor == Cursor("observability_findings", 2)
list_observability_findings ==
    List("observability_findings", observability_add, "analysis", observability_list_findings, observability_findings_cursor, Fixed)

simulations_add == Adds("simulations", {"simulation_components", "simulation_deltas"})
simulations_get == Single(InArchitecture, Nothing)
get_simulation == Read("simulations", simulations_add, "architecture", simulations_get)
simulations_list == Select(InArchitecture, Nothing, Newest, {"changed"})
simulations_cursor == Cursor("simulations", 3)
list_simulations ==
    List("simulations", simulations_add, "architecture", simulations_list, simulations_cursor, Growing)
simulations_list_components == Select(InAnalysis, Nothing, Ascending, {"changed"})
simulation_components_cursor == Cursor("simulation_components", 2)
list_simulation_components ==
    List("simulation_components", simulations_add, "analysis", simulations_list_components, simulation_components_cursor, Fixed)
simulations_list_deltas == Select(InAnalysis, Nothing, Ascending, {"changed"})
simulation_deltas_cursor == Cursor("simulation_deltas", 2)
list_simulation_deltas ==
    List("simulation_deltas", simulations_add, "analysis", simulations_list_deltas, simulation_deltas_cursor, Fixed)
simulations_rows == Select(InAnalysis, Nothing, Ascending, {})
compare == List("simulation_deltas", simulations_add, "analysis", simulations_rows, NoCursor, Fixed)

evolution_add == Adds("evolution_analyses", {"evolution_candidates"})
evolution_get == Single(InArchitecture, Nothing)
get_evolution_analysis == Read("evolution_analyses", evolution_add, "architecture", evolution_get)
evolution_list == Select(InArchitecture, Nothing, Newest, {"changed"})
evolution_analyses_cursor == Cursor("evolution_analyses", 3)
list_evolution_analyses ==
    List("evolution_analyses", evolution_add, "architecture", evolution_list, evolution_analyses_cursor, Growing)
evolution_list_candidates == Select(InAnalysis, Nothing, Ascending, {"changed"})
evolution_candidates_cursor == Cursor("evolution_candidates", 2)
list_evolution_candidates ==
    List("evolution_candidates", evolution_add, "analysis", evolution_list_candidates, evolution_candidates_cursor, Fixed)
evolution_get_candidate == Single(InAnalysis, Nothing)
get_candidate == Read("evolution_candidates", evolution_add, "analysis", evolution_get_candidate)
evolution_candidates == Select(InAnalysis, Nothing, Ascending, {})
alternatives == List("evolution_candidates", evolution_add, "analysis", evolution_candidates, NoCursor, Fixed)

-----------------------------------------------------------------------------
(* Decisions, migration plans, discovery and drift.                         *)

decisions_add == Adds("decisions", {})
decisions_get == Single(Owner, Nothing)
get_decision == Read("decisions", decisions_add, "owner", decisions_get)
decisions_list == Select(Owner, Nothing, Ascending, {"changed", "architecture"})
decision_cursor == Cursor("decisions", 2)
list_decisions == List("decisions", decisions_add, "owner", decisions_list, decision_cursor, Reviewed)

\* Superseded versions are hidden, and plans of deleted architectures.
migrations_add == Adds("migration_plan_versions", {})
migrations_get == Single(Owner, Nothing)
get_plan == Read("migration_plan_versions", migrations_add, "live rows", migrations_get)
migrations_history == Select(InArchitecture, Nothing, Ascending, {})
plan_history == List("migration_plan_versions", migrations_add, "architecture", migrations_history, NoCursor, Growing)
migrations_list_latest == Select(Owner, Deleted, Newest, {"changed", "architecture"})
plan_cursor == Cursor("migration_plans", 3)
list_plans == List("migration_plan_versions", migrations_add, "live rows", migrations_list_latest, plan_cursor, Lasting)

discovery_add == Adds("discovery_runs", {})
discovery_get == Single(Owner, Nothing)
get_run == Read("discovery_runs", discovery_add, "owner", discovery_get)
discovery_list == Select(Owner, Nothing, Newest, {"changed"})
run_cursor == Cursor("discovery_runs", 3)
list_runs == List("discovery_runs", discovery_add, "owner", discovery_list, run_cursor, Removable)

drift_add_analysis == Adds("drift_analyses", {})
drift_get_analysis == Single(Owner, Nothing)
get_drift_analysis == Read("drift_analyses", drift_add_analysis, "owner", drift_get_analysis)
drift_list_analyses == Select(Owner, Nothing, Newest, {"changed", "architecture"})
drift_analyses_cursor == Cursor("drift_analyses", 3)
list_drift_analyses ==
    List("drift_analyses", drift_add_analysis, "owner", drift_list_analyses, drift_analyses_cursor, Growing)
drift_add_items == Adds("drift_items", {})
drift_get_item == Single(Owner, Nothing)
get_item == Read("drift_items", drift_add_items, "owner", drift_get_item)
drift_list_items == Select(Owner, Nothing, Ascending, {"changed", "architecture"})
drift_items_cursor == Cursor("drift_items", 2)
list_items == List("drift_items", drift_add_items, "owner", drift_list_items, drift_items_cursor, Reviewed)
drift_add_mapping == Adds("drift_identity_mappings", {})
drift_mappings == Select(InArchitecture, Nothing, Alphabetical, {})
mappings == List("drift_identity_mappings", drift_add_mapping, "architecture", drift_mappings, NoCursor, Growing)
-----------------------------------------------------------------------------
Services ==
    {list_projects, list_projects_by_update, list_projects_by_name, organization_log, list_pending, get_pending,
     get_membership, list_members, list_sessions, revoke_owned, list_snapshots, get_snapshot, list_records,
     get_requirement, list_requirements, analyze_requirements, list_versions, get_version, list_requirement_sets,
     get_requirement_set, get_planning_input, get_requirement_analysis, get_architecture, list_architectures,
     get_architecture_version, history, get_validation_run, list_validation_runs, list_validation_findings, get_capacity_analysis,
     list_capacity_analyses, list_capacity_components, list_capacity_bottlenecks, get_cost_analysis,
     list_cost_analyses, list_cost_line_items, get_reliability_analysis, list_reliability_analyses,
     list_reliability_components, list_reliability_findings, get_security_analysis, list_security_analyses,
     list_security_components, list_security_findings, get_observability_analysis, list_observability_analyses,
     list_observability_components, list_observability_findings, get_simulation, list_simulations,
     list_simulation_components, list_simulation_deltas, compare, get_evolution_analysis, list_evolution_analyses,
     list_evolution_candidates, get_candidate, alternatives, get_decision, list_decisions, get_plan, plan_history,
     list_plans, get_run, list_runs, get_drift_analysis, list_drift_analyses, get_item, list_items, mappings}
=============================================================================
