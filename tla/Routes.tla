------------------------------- MODULE Routes -------------------------------
(***************************************************************************)
(* The routes of the API, in the order create_app registers them.  A route *)
(* is its method and path, the statuses it answers when it succeeds, what   *)
(* FastAPI resolves before it runs, whether it reads a body, which limit it *)
(* enforces first, and how the service it calls decides that the caller may *)
(* do this.  Every path is below API_PREFIX.                                *)
(***************************************************************************)
EXTENDS Sequences

CONSTANT None

\* Parameters of a path, by the type the route declares for them.
Id == "{uuid}"
Number == "{int}"
Str == "{str}"

\* What a route depends on, resolved in this order before it runs.
Public == <<>>
SameOrigin == <<[on |-> "origin"]>>
SignedIn == <<[on |-> "user"]>>
Member == SignedIn \o <<[on |-> "membership"]>>
InOrganization(permission) == Member \o <<[on |-> "permission", needs |-> permission]>>
InProject(permission) == SignedIn \o <<[on |-> "project"], [on |-> "permission", needs |-> permission]>>

\* The action whose rate is limited, and what the route tells the limiter.
Limit(action, told) == [action |-> action, told |-> told]
Unlimited == Limit(None, {})
PerAddress(action) == Limit(action, {"ip"})
PerEmail(action) == Limit(action, {"ip", "email"})
PerUser(action) == Limit(action, {"ip", "user"})

\* The checks of the service: on the membership the route resolved, or on the
\* one read in the service's transaction; one of needs, None for any member.
Nothing == <<>>
Held(permission) == <<[fresh |-> FALSE, needs |-> {permission}]>>
Fresh(permission) == <<[fresh |-> TRUE, needs |-> {permission}]>>
Twice(permission) == Fresh(permission) \o Fresh(permission)
AnyMember == <<[fresh |-> TRUE, needs |-> {None, "MEMBER_REMOVE"}]>>
AcceptsProposal ==
    Fresh("ARCHITECTURE_DISCOVER") \o <<[fresh |-> TRUE, needs |-> {"ARCHITECTURE_CREATE", "ARCHITECTURE_UPDATE"}]>>
    \o Fresh("ARCHITECTURE_DISCOVER")

Body == TRUE
NoBody == FALSE
Route(method, path, success, before, body, limit, checks) ==
    [method |-> method, path |-> path, success |-> success, before |-> before, body |-> body, limit |-> limit,
     checks |-> checks]
Shows(path) == Route("GET", path, {200}, SignedIn, NoBody, Unlimited, Nothing)
Reads(path, permission) == Route("GET", path, {200}, SignedIn, NoBody, Unlimited, Fresh(permission))
Lists(path, before, checks) == Route("GET", path, {200}, before, NoBody, Unlimited, checks)
Changes(method, path, success, body, limit, checks) == Route(method, path, success, SignedIn, body, limit, checks)

Auth == <<"auth">>
Me == <<"me">>
OneOrganization == <<"organizations", Id>>
OneProject == <<"projects", Id>>
OneArchitecture == OneProject \o <<"architectures", Id>>
OneRequirement == OneProject \o <<"requirements", Id>>
OneDecision == OneProject \o <<"decisions", Id>>
OnePlan == OneProject \o <<"migration-plans", Id>>
OneVersion == OnePlan \o <<"versions", Number>>
OneRun == OneProject \o <<"discovery-runs", Id>>
OneComponent == <<"components", Str, Str>>

\* auth.py
register == Route("POST", Auth \o <<"register">>, {202}, Public, Body, PerAddress("register"), Nothing)
verify_email == Route("POST", Auth \o <<"verify-email">>, {200}, Public, Body, PerAddress("verify_email"), Nothing)
resend_verification ==
    Route("POST", Auth \o <<"resend-verification">>, {202}, Public, Body, PerEmail("resend_verification"), Nothing)
login == Route("POST", Auth \o <<"login">>, {200}, SameOrigin, Body, PerEmail("login"), Nothing)
refresh == Route("POST", Auth \o <<"refresh">>, {200}, SameOrigin, NoBody, PerAddress("refresh"), Nothing)
logout == Route("POST", Auth \o <<"logout">>, {204}, SameOrigin, NoBody, Unlimited, Nothing)
forgot_password ==
    Route("POST", Auth \o <<"forgot-password">>, {202}, Public, Body, PerEmail("forgot_password"), Nothing)
reset_password ==
    Route("POST", Auth \o <<"reset-password">>, {200}, Public, Body, PerAddress("reset_password"), Nothing)
\* users.py
get_me == Shows(Me)
list_sessions == Shows(Me \o <<"sessions">>)
revoke_session == Route("DELETE", Me \o <<"sessions", Id>>, {204}, SignedIn, NoBody, Unlimited, Nothing)
change_password == Route("PATCH", Me \o <<"password">>, {204}, SignedIn, Body, PerUser("confirm_password"), Nothing)
update_profile == Route("PATCH", Me, {200}, SignedIn, Body, Unlimited, Nothing)
delete_account == Route("DELETE", Me, {204}, SignedIn, Body, PerUser("confirm_password"), Nothing)
\* organizations.py
list_organizations == Shows(<<"organizations">>)
create_organization ==
    Route("POST", <<"organizations">>, {201}, SignedIn, Body, PerUser("create_organization"), Nothing)
get_organization == Lists(OneOrganization, InOrganization("ORGANIZATION_READ"), Nothing)
update_organization ==
    Route("PATCH", OneOrganization, {200}, InOrganization("ORGANIZATION_UPDATE"), Body, Unlimited,
        Held("ORGANIZATION_UPDATE"))
delete_organization ==
    Route("DELETE", OneOrganization, {204}, InOrganization("ORGANIZATION_DELETE"), NoBody, Unlimited,
        Held("ORGANIZATION_DELETE"))
list_members == Lists(OneOrganization \o <<"members">>, InOrganization("MEMBER_READ"), Held("MEMBER_READ"))
change_role ==
    Route("PATCH", OneOrganization \o <<"members", Id>>, {200}, InOrganization("MEMBER_UPDATE_ROLE"), Body,
        Unlimited, Fresh("MEMBER_UPDATE_ROLE"))
remove_member == Route("DELETE", OneOrganization \o <<"members", Id>>, {204}, Member, NoBody, Unlimited, AnyMember)
list_invitations ==
    Lists(OneOrganization \o <<"invitations">>, InOrganization("MEMBER_INVITE"), Held("MEMBER_INVITE"))
create_invitation ==
    Route("POST", OneOrganization \o <<"invitations">>, {201}, InOrganization("MEMBER_INVITE"), Body,
        PerUser("create_invitation"), Fresh("MEMBER_INVITE"))
revoke_invitation ==
    Route("DELETE", OneOrganization \o <<"invitations", Id>>, {204}, InOrganization("MEMBER_INVITE"), NoBody,
        Unlimited, Fresh("MEMBER_INVITE"))
audit_log == Lists(OneOrganization \o <<"audit-log">>, InOrganization("AUDIT_READ"), Held("AUDIT_READ"))
\* invitations.py
accept_invitation ==
    Route("POST", <<"invitations", Str, "accept">>, {200}, SignedIn, NoBody, PerAddress("accept_invitation"), Nothing)
\* projects.py
list_projects == Lists(OneOrganization \o <<"projects">>, InOrganization("PROJECT_READ"), Held("PROJECT_READ"))
create_project ==
    Route("POST", OneOrganization \o <<"projects">>, {201}, InOrganization("PROJECT_CREATE"), Body,
        PerUser("create_project"), Held("PROJECT_CREATE") \o Fresh("PROJECT_CREATE"))
get_project == Lists(OneProject, InProject("PROJECT_READ"), Nothing)
update_project ==
    Route("PATCH", OneProject, {200}, InProject("PROJECT_UPDATE"), Body, Unlimited, Fresh("PROJECT_UPDATE"))
get_architecture_policy == Lists(OneProject \o <<"architecture-policy">>, InProject("PROJECT_READ"), Nothing)
put_architecture_policy ==
    Route("PUT", OneProject \o <<"architecture-policy">>, {200}, InProject("PROJECT_POLICY_UPDATE"), Body, Unlimited,
        Fresh("PROJECT_POLICY_UPDATE"))
archive_project ==
    Route("POST", OneProject \o <<"archive">>, {200}, InProject("PROJECT_ARCHIVE"), NoBody, Unlimited,
        Fresh("PROJECT_ARCHIVE"))
restore_project ==
    Route("POST", OneProject \o <<"restore">>, {200}, InProject("PROJECT_ARCHIVE"), NoBody, Unlimited,
        Fresh("PROJECT_ARCHIVE"))
delete_project ==
    Route("DELETE", OneProject, {204}, InProject("PROJECT_DELETE"), NoBody, Unlimited, Fresh("PROJECT_DELETE"))
\* requirements.py
list_requirements == Reads(OneProject \o <<"requirements">>, "REQUIREMENT_READ")
create_requirement ==
    Changes("POST", OneProject \o <<"requirements">>, {201}, Body, PerUser("create_requirement"),
        Fresh("REQUIREMENT_CREATE"))
analyze_requirements == Reads(OneProject \o <<"requirements", "analysis">>, "REQUIREMENT_READ")
get_requirement == Reads(OneRequirement, "REQUIREMENT_READ")
update_requirement == Changes("PATCH", OneRequirement, {200}, Body, Unlimited, Fresh("REQUIREMENT_UPDATE"))
delete_requirement == Changes("DELETE", OneRequirement, {204}, NoBody, Unlimited, Fresh("REQUIREMENT_DELETE"))
validate_requirement ==
    Changes("POST", OneRequirement \o <<"validate">>, {200}, NoBody, Unlimited, Fresh("REQUIREMENT_READ"))
list_requirement_versions == Reads(OneRequirement \o <<"versions">>, "REQUIREMENT_READ")
get_requirement_version == Reads(OneRequirement \o <<"versions", Number>>, "REQUIREMENT_READ")
\* requirement_sets.py
create_requirement_set ==
    Changes("POST", OneProject \o <<"requirement-sets">>, {201}, Body, PerUser("create_requirement_set"),
        Fresh("REQUIREMENT_SET_CREATE"))
list_requirement_sets == Reads(OneProject \o <<"requirement-sets">>, "REQUIREMENT_READ")
get_requirement_set == Reads(OneProject \o <<"requirement-sets", Id>>, "REQUIREMENT_READ")
get_planning_input == Reads(OneProject \o <<"requirement-sets", Id, "planning-input">>, "REQUIREMENT_READ")
\* requirement_analyses.py
create_requirement_analysis ==
    Changes("POST", OneProject \o <<"requirement-analyses">>, {201}, Body, PerUser("analyze_requirements"),
        Twice("REQUIREMENT_CREATE"))
get_requirement_analysis == Reads(OneProject \o <<"requirement-analyses", Id>>, "REQUIREMENT_READ")
promote_candidates ==
    Changes("POST", OneProject \o <<"requirement-analyses", Id, "promote">>, {200}, Body, Unlimited,
        Fresh("REQUIREMENT_CREATE"))
\* architectures.py
create_architecture ==
    Changes("POST", OneProject \o <<"architectures">>, {201}, Body, PerUser("create_architecture"),
        Twice("ARCHITECTURE_CREATE"))
list_architectures == Reads(OneProject \o <<"architectures">>, "ARCHITECTURE_READ")
get_architecture == Reads(OneArchitecture, "ARCHITECTURE_READ")
update_architecture ==
    Changes("PATCH", OneArchitecture, {200}, Body, PerUser("edit_architecture"), Fresh("ARCHITECTURE_UPDATE"))
archive_architecture ==
    Changes("POST", OneArchitecture \o <<"archive">>, {200}, NoBody, Unlimited, Fresh("ARCHITECTURE_UPDATE"))
restore_architecture ==
    Changes("POST", OneArchitecture \o <<"restore">>, {200}, NoBody, Unlimited, Fresh("ARCHITECTURE_UPDATE"))
delete_architecture == Changes("DELETE", OneArchitecture, {204}, NoBody, Unlimited, Fresh("ARCHITECTURE_DELETE"))
replace_architecture_content ==
    Changes("PUT", OneArchitecture \o <<"content">>, {200, 201}, Body, PerUser("edit_architecture"),
        Twice("ARCHITECTURE_UPDATE"))
edit_architecture ==
    Changes("POST", OneArchitecture \o <<"commands">>, {200, 201}, Body, PerUser("edit_architecture"),
        Twice("ARCHITECTURE_UPDATE"))
save_architecture_layout ==
    Changes("PUT", OneArchitecture \o <<"layout">>, {204}, Body, PerUser("save_architecture_layout"),
        Fresh("ARCHITECTURE_UPDATE"))
list_architecture_versions == Reads(OneArchitecture \o <<"versions">>, "ARCHITECTURE_READ")
get_architecture_version == Reads(OneArchitecture \o <<"versions", Number>>, "ARCHITECTURE_READ")
restore_architecture_version ==
    Changes("POST", OneArchitecture \o <<"versions", Number, "restore">>, {200, 201}, Body,
        PerUser("edit_architecture"), Fresh("ARCHITECTURE_UPDATE"))
compare_architecture_versions == Reads(OneArchitecture \o <<"compare">>, "ARCHITECTURE_READ")
\* validations.py
run_validation ==
    Changes("POST", OneArchitecture \o <<"validations">>, {201}, Body, PerUser("run_validation"),
        Fresh("ARCHITECTURE_VALIDATE"))
list_validation_runs == Reads(OneArchitecture \o <<"validations">>, "ARCHITECTURE_READ")
get_validation_run == Reads(OneArchitecture \o <<"validations", Id>>, "ARCHITECTURE_READ")
list_validation_findings == Reads(OneArchitecture \o <<"validations", Id, "findings">>, "ARCHITECTURE_READ")
list_validation_rules == Shows(<<"validation", "rules">>)
\* capacity.py
run_capacity_analysis ==
    Changes("POST", OneArchitecture \o <<"capacity-analyses">>, {201}, Body, PerUser("run_capacity_analysis"),
        Twice("ARCHITECTURE_ANALYZE"))
list_capacity_analyses == Reads(OneArchitecture \o <<"capacity-analyses">>, "ARCHITECTURE_READ")
get_capacity_analysis == Reads(OneArchitecture \o <<"capacity-analyses", Id>>, "ARCHITECTURE_READ")
list_capacity_components == Reads(OneArchitecture \o <<"capacity-analyses", Id, "components">>, "ARCHITECTURE_READ")
list_capacity_bottlenecks == Reads(OneArchitecture \o <<"capacity-analyses", Id, "bottlenecks">>, "ARCHITECTURE_READ")
list_capacity_scenarios == Reads(OneArchitecture \o <<"capacity-analyses", Id, "scenarios">>, "ARCHITECTURE_READ")
list_capacity_models == Shows(<<"capacity", "models">>)
\* pricing.py
create_pricing_snapshot ==
    Route("POST", OneOrganization \o <<"pricing-snapshots">>, {201}, InOrganization("PRICING_MANAGE"), Body,
        PerUser("create_pricing_snapshot"), Held("PRICING_MANAGE") \o Fresh("PRICING_MANAGE"))
list_pricing_snapshots ==
    Lists(OneOrganization \o <<"pricing-snapshots">>, InOrganization("ORGANIZATION_READ"), Held("ORGANIZATION_READ"))
get_pricing_snapshot ==
    Lists(OneOrganization \o <<"pricing-snapshots", Id>>, InOrganization("ORGANIZATION_READ"),
        Held("ORGANIZATION_READ"))
list_pricing_records ==
    Lists(OneOrganization \o <<"pricing-snapshots", Id, "records">>, InOrganization("ORGANIZATION_READ"),
        Held("ORGANIZATION_READ"))
\* cost.py
run_cost_analysis ==
    Changes("POST", OneArchitecture \o <<"cost-analyses">>, {201}, Body, PerUser("run_cost_analysis"),
        Twice("ARCHITECTURE_ANALYZE"))
list_cost_analyses == Reads(OneArchitecture \o <<"cost-analyses">>, "ARCHITECTURE_READ")
get_cost_analysis == Reads(OneArchitecture \o <<"cost-analyses", Id>>, "ARCHITECTURE_READ")
list_cost_line_items == Reads(OneArchitecture \o <<"cost-analyses", Id, "line-items">>, "ARCHITECTURE_READ")
list_cost_models == Shows(<<"cost", "models">>)
\* reliability.py
run_reliability_analysis ==
    Changes("POST", OneArchitecture \o <<"reliability-analyses">>, {201}, Body, PerUser("run_reliability_analysis"),
        Twice("ARCHITECTURE_ANALYZE"))
list_reliability_analyses == Reads(OneArchitecture \o <<"reliability-analyses">>, "ARCHITECTURE_READ")
get_reliability_analysis == Reads(OneArchitecture \o <<"reliability-analyses", Id>>, "ARCHITECTURE_READ")
list_reliability_components ==
    Reads(OneArchitecture \o <<"reliability-analyses", Id, "components">>, "ARCHITECTURE_READ")
list_reliability_findings == Reads(OneArchitecture \o <<"reliability-analyses", Id, "findings">>, "ARCHITECTURE_READ")
list_reliability_models == Shows(<<"reliability", "models">>)
\* security.py
run_security_analysis ==
    Changes("POST", OneArchitecture \o <<"security-analyses">>, {201}, Body, PerUser("run_security_analysis"),
        Twice("ARCHITECTURE_ANALYZE"))
list_security_analyses == Reads(OneArchitecture \o <<"security-analyses">>, "ARCHITECTURE_READ")
get_security_analysis == Reads(OneArchitecture \o <<"security-analyses", Id>>, "ARCHITECTURE_READ")
list_security_components == Reads(OneArchitecture \o <<"security-analyses", Id, "components">>, "ARCHITECTURE_READ")
list_security_findings == Reads(OneArchitecture \o <<"security-analyses", Id, "findings">>, "ARCHITECTURE_READ")
list_security_analyzers == Shows(<<"security", "analyzers">>)
\* observability.py
run_observability_analysis ==
    Changes("POST", OneArchitecture \o <<"observability-analyses">>, {201}, Body,
        PerUser("run_observability_analysis"), Twice("ARCHITECTURE_ANALYZE"))
list_observability_analyses == Reads(OneArchitecture \o <<"observability-analyses">>, "ARCHITECTURE_READ")
get_observability_analysis == Reads(OneArchitecture \o <<"observability-analyses", Id>>, "ARCHITECTURE_READ")
list_observability_components ==
    Reads(OneArchitecture \o <<"observability-analyses", Id, "components">>, "ARCHITECTURE_READ")
list_observability_findings ==
    Reads(OneArchitecture \o <<"observability-analyses", Id, "findings">>, "ARCHITECTURE_READ")
list_observability_analyzers == Shows(<<"observability", "analyzers">>)
\* simulations.py
run_simulation ==
    Changes("POST", OneArchitecture \o <<"simulations">>, {201}, Body, PerUser("run_simulation"),
        Twice("ARCHITECTURE_ANALYZE"))
list_simulations == Reads(OneArchitecture \o <<"simulations">>, "ARCHITECTURE_READ")
get_simulation == Reads(OneArchitecture \o <<"simulations", Id>>, "ARCHITECTURE_READ")
list_simulation_components == Reads(OneArchitecture \o <<"simulations", Id, "components">>, "ARCHITECTURE_READ")
list_simulation_deltas == Reads(OneArchitecture \o <<"simulations", Id, "deltas">>, "ARCHITECTURE_READ")
compare_simulations == Reads(OneArchitecture \o <<"simulations", Id, "comparisons", Id>>, "ARCHITECTURE_READ")
get_simulation_catalog == Shows(<<"simulation", "catalog">>)
\* evolution.py
run_evolution_analysis ==
    Changes("POST", OneArchitecture \o <<"evolution-analyses">>, {201}, Body, PerUser("run_evolution_analysis"),
        Twice("ARCHITECTURE_EVOLVE"))
list_evolution_analyses == Reads(OneArchitecture \o <<"evolution-analyses">>, "ARCHITECTURE_READ")
get_evolution_analysis == Reads(OneArchitecture \o <<"evolution-analyses", Id>>, "ARCHITECTURE_READ")
list_evolution_candidates == Reads(OneArchitecture \o <<"evolution-analyses", Id, "candidates">>, "ARCHITECTURE_READ")
get_evolution_candidate ==
    Reads(OneArchitecture \o <<"evolution-analyses", Id, "candidates", Str>>, "ARCHITECTURE_READ")
get_evolution_alternatives ==
    Reads(OneArchitecture \o <<"evolution-analyses", Id, "alternatives">>, "ARCHITECTURE_READ")
get_evolution_catalog == Shows(<<"evolution", "catalog">>)
\* components.py
list_component_categories == Shows(<<"components", "categories">>)
list_components == Shows(<<"components">>)
get_component == Shows(OneComponent)
list_component_versions == Shows(OneComponent \o <<"versions">>)
evaluate_component_configuration ==
    Route("POST", OneComponent \o <<"evaluate">>, {200}, SignedIn, Body, PerUser("evaluate_component_configuration"),
        Nothing)
\* decisions.py
draft_decision == Changes("POST", OneProject \o <<"decisions">>, {201}, Body, Unlimited, Fresh("ARCHITECTURE_EVOLVE"))
list_decisions == Reads(OneProject \o <<"decisions">>, "ARCHITECTURE_READ")
get_decision == Reads(OneDecision, "ARCHITECTURE_READ")
get_decision_document ==
    Changes("GET", OneDecision \o <<"document">>, {200}, NoBody, Unlimited, Twice("ARCHITECTURE_READ"))
accept_decision == Changes("POST", OneDecision \o <<"accept">>, {200}, Body, Unlimited, Fresh("ARCHITECTURE_EVOLVE"))
reject_decision == Changes("POST", OneDecision \o <<"reject">>, {200}, Body, Unlimited, Fresh("ARCHITECTURE_EVOLVE"))
supersede_decision ==
    Changes("POST", OneDecision \o <<"supersede">>, {200}, Body, Unlimited, Fresh("ARCHITECTURE_EVOLVE"))
link_decision_revision ==
    Changes("POST", OneDecision \o <<"resulting-revision">>, {200}, Body, Unlimited, Fresh("ARCHITECTURE_EVOLVE"))
\* migration_plans.py
create_plan == Changes("POST", OneProject \o <<"migration-plans">>, {201}, Body, Unlimited, Twice("MIGRATION_PLAN"))
list_plans == Reads(OneProject \o <<"migration-plans">>, "ARCHITECTURE_READ")
get_plan == Reads(OnePlan, "ARCHITECTURE_READ")
get_history == Reads(OnePlan \o <<"versions">>, "ARCHITECTURE_READ")
get_version == Reads(OneVersion, "ARCHITECTURE_READ")
get_steps == Reads(OneVersion \o <<"steps">>, "ARCHITECTURE_READ")
get_risks == Reads(OneVersion \o <<"risks">>, "ARCHITECTURE_READ")
get_checkpoints == Reads(OneVersion \o <<"checkpoints">>, "ARCHITECTURE_READ")
get_rollbacks == Reads(OneVersion \o <<"rollbacks">>, "ARCHITECTURE_READ")
regenerate_plan ==
    Route("POST", OnePlan \o <<"regenerate">>, {200}, SignedIn, Body, Unlimited,
        Fresh("MIGRATION_PLAN") \o Fresh("MIGRATION_PLAN") \o Fresh("MIGRATION_PLAN"))
submit_plan == Changes("POST", OneVersion \o <<"submit">>, {200}, NoBody, Unlimited, Fresh("MIGRATION_PLAN"))
approve_plan == Changes("POST", OneVersion \o <<"approve">>, {200}, Body, Unlimited, Fresh("MIGRATION_APPROVE"))
reject_plan == Changes("POST", OneVersion \o <<"reject">>, {200}, Body, Unlimited, Fresh("MIGRATION_APPROVE"))
archive_plan == Changes("POST", OneVersion \o <<"archive">>, {200}, NoBody, Unlimited, Fresh("MIGRATION_PLAN"))
\* discovery.py
run_discovery ==
    Changes("POST", OneProject \o <<"discovery-runs">>, {201}, Body, PerUser("run_discovery"),
        Twice("ARCHITECTURE_DISCOVER"))
list_discovery_runs == Reads(OneProject \o <<"discovery-runs">>, "ARCHITECTURE_READ")
get_discovery_run == Reads(OneRun, "ARCHITECTURE_READ")
list_discovery_findings == Reads(OneRun \o <<"findings">>, "ARCHITECTURE_READ")
get_discovery_proposal == Reads(OneRun \o <<"proposal">>, "ARCHITECTURE_READ")
decide_discovery_candidate ==
    Changes("POST", OneRun \o <<"decisions">>, {200}, Body, Unlimited, Fresh("ARCHITECTURE_DISCOVER"))
accept_discovery_proposal == Route("POST", OneRun \o <<"accept">>, {201}, SignedIn, Body, Unlimited, AcceptsProposal)
compare_discovery_runs == Reads(OneRun \o <<"comparison">>, "ARCHITECTURE_READ")
compare_discovery_with_baseline == Reads(OneRun \o <<"baseline-comparison">>, "ARCHITECTURE_READ")
delete_discovery_run == Changes("DELETE", OneRun, {204}, NoBody, Unlimited, Fresh("ARCHITECTURE_DISCOVER"))
\* drift.py
run_drift_analysis ==
    Changes("POST", OneProject \o <<"drift-analyses">>, {201}, Body, PerUser("run_drift_analysis"),
        Twice("ARCHITECTURE_DRIFT"))
list_drift_analyses == Reads(OneProject \o <<"drift-analyses">>, "ARCHITECTURE_READ")
get_drift_analysis == Reads(OneProject \o <<"drift-analyses", Id>>, "ARCHITECTURE_READ")
list_drift_findings == Reads(OneProject \o <<"drift-analyses", Id, "findings">>, "ARCHITECTURE_READ")
get_drift_finding == Reads(OneProject \o <<"drift-analyses", Id, "findings", Str>>, "ARCHITECTURE_READ")
list_drift_items == Reads(OneProject \o <<"drift-items">>, "ARCHITECTURE_READ")
get_drift_item == Reads(OneProject \o <<"drift-items", Id>>, "ARCHITECTURE_READ")
review_drift_item ==
    Changes("POST", OneProject \o <<"drift-items", Id, "review">>, {200}, Body, Unlimited,
        Fresh("ARCHITECTURE_DRIFT"))
list_identity_mappings == Reads(OneArchitecture \o <<"identity-mappings">>, "ARCHITECTURE_READ")
confirm_identity_mapping ==
    Changes("POST", OneArchitecture \o <<"identity-mappings">>, {201}, Body, Unlimited, Fresh("ARCHITECTURE_DRIFT"))

Routes ==
    <<register, verify_email, resend_verification, login, refresh, logout, forgot_password, reset_password>>
    \o <<get_me, list_sessions, revoke_session, change_password, update_profile, delete_account>>
    \o <<list_organizations, create_organization, get_organization, update_organization, delete_organization,
         list_members, change_role, remove_member, list_invitations, create_invitation, revoke_invitation, audit_log>>
    \o <<accept_invitation>>
    \o <<list_projects, create_project, get_project, update_project, get_architecture_policy,
         put_architecture_policy, archive_project, restore_project, delete_project>>
    \o <<list_requirements, create_requirement, analyze_requirements, get_requirement, update_requirement,
         delete_requirement, validate_requirement, list_requirement_versions, get_requirement_version>>
    \o <<create_requirement_set, list_requirement_sets, get_requirement_set, get_planning_input>>
    \o <<create_requirement_analysis, get_requirement_analysis, promote_candidates>>
    \o <<create_architecture, list_architectures, get_architecture, update_architecture, archive_architecture,
         restore_architecture, delete_architecture, replace_architecture_content, edit_architecture,
         save_architecture_layout, list_architecture_versions, get_architecture_version,
         restore_architecture_version, compare_architecture_versions>>
    \o <<run_validation, list_validation_runs, get_validation_run, list_validation_findings, list_validation_rules>>
    \o <<run_capacity_analysis, list_capacity_analyses, get_capacity_analysis, list_capacity_components,
         list_capacity_bottlenecks, list_capacity_scenarios, list_capacity_models>>
    \o <<create_pricing_snapshot, list_pricing_snapshots, get_pricing_snapshot, list_pricing_records>>
    \o <<run_cost_analysis, list_cost_analyses, get_cost_analysis, list_cost_line_items, list_cost_models>>
    \o <<run_reliability_analysis, list_reliability_analyses, get_reliability_analysis, list_reliability_components,
         list_reliability_findings, list_reliability_models>>
    \o <<run_security_analysis, list_security_analyses, get_security_analysis, list_security_components,
         list_security_findings, list_security_analyzers>>
    \o <<run_observability_analysis, list_observability_analyses, get_observability_analysis,
         list_observability_components, list_observability_findings, list_observability_analyzers>>
    \o <<run_simulation, list_simulations, get_simulation, list_simulation_components, list_simulation_deltas,
         compare_simulations, get_simulation_catalog>>
    \o <<run_evolution_analysis, list_evolution_analyses, get_evolution_analysis, list_evolution_candidates,
         get_evolution_candidate, get_evolution_alternatives, get_evolution_catalog>>
    \o <<list_component_categories, list_components, get_component, list_component_versions,
         evaluate_component_configuration>>
    \o <<draft_decision, list_decisions, get_decision, get_decision_document, accept_decision, reject_decision,
         supersede_decision, link_decision_revision>>
    \o <<create_plan, list_plans, get_plan, get_history, get_version, get_steps, get_risks, get_checkpoints,
         get_rollbacks, regenerate_plan, submit_plan, approve_plan, reject_plan, archive_plan>>
    \o <<run_discovery, list_discovery_runs, get_discovery_run, list_discovery_findings, get_discovery_proposal,
         decide_discovery_candidate, accept_discovery_proposal, compare_discovery_runs,
         compare_discovery_with_baseline, delete_discovery_run>>
    \o <<run_drift_analysis, list_drift_analyses, get_drift_analysis, list_drift_findings, get_drift_finding,
         list_drift_items, get_drift_item, review_drift_item, list_identity_mappings, confirm_identity_mapping>>

=============================================================================
