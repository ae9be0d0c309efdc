-------------------------------- MODULE Schema --------------------------------
(***************************************************************************)
(* persistence/models: the tables as the application declares them, each   *)
(* with its keys (primary and unique), indexes, check constraints and      *)
(* foreign keys.  A check is its name; a column appears where a key or a   *)
(* foreign key is made of it, or where a migration adds it to a table that *)
(* has rows.                                                               *)
(***************************************************************************)
EXTENDS Sequences, FiniteSets

Table(keys, indexes, checks, fks) == [keys |-> keys, indexes |-> indexes, checks |-> checks, fks |-> fks, columns |-> {}]
Fk(columns, table, key, ondelete) == [columns |-> columns, table |-> table, key |-> key, ondelete |-> ondelete]

\* The keys and references that recur.
ID == <<"id">>
SCOPED == <<"id", "project_id">>
ToUser(column, ondelete) == Fk(<<column>>, "users", ID, ondelete)
ToOrganization(ondelete) == Fk(<<"organization_id">>, "organizations", ID, ondelete)
ToProject == Fk(<<"project_id">>, "projects", ID, "RESTRICT")
InProject(column, table) == Fk(<<column, "project_id">>, table, SCOPED, "RESTRICT")
ToRevision(architecture, number) ==
    Fk(<<architecture, number>>, "architecture_revisions", <<"architecture_id", "number">>, "RESTRICT")
\* Deferred to the end of the transaction that inserts both rows.
CurrentVersion == Fk(<<"id", "current_version">>, "requirement_versions", <<"requirement_id", "version">>, "NO ACTION")
CurrentRevision == Fk(<<"id", "current_revision">>, "architecture_revisions", <<"architecture_id", "number">>, "NO ACTION")

\* A column that came after its table: may it be empty?
Column(name, value) == <<name, value>>
With(table, columns) == [table EXCEPT !.columns = columns]

-----------------------------------------------------------------------------
ArchitectureRecord ==
    With(Table({ID, SCOPED}, {"ix_project_id_created_at_id_live", "uq_project_id_name_live"},
               {"current_revision_positive", "name_length", "description_length", "status_valid",
                "archived_at_matches_status", "deleted_only_when_archived"}, {ToProject, CurrentRevision}),
         {Column("name", "required"), Column("description", "required"), Column("status", "required"), Column("updated_by_user_id", "optional"),
          Column("archived_at", "optional"), Column("deleted_at", "optional")})
ArchitectureRevisionRecord ==
    With(Table({ID, <<"architecture_id", "number">>}, {},
          {"number_positive", "restores_an_earlier_revision", "parent_is_previous", "ir_schema_version_positive",
           "content_hash_format", "source_valid", "summary_length", "reason_length", "ir_object", "ir_size"},
          {InProject("architecture_id", "architectures"), ToRevision("architecture_id", "parent_number"),
           InProject("requirement_set_id", "requirement_sets"), ToRevision("architecture_id", "restored_from_number")}),
         {Column("restored_from_number", "optional")})
ArchitectureLayoutRecord ==
    Table({<<"architecture_id">>}, {}, {"positions_object", "positions_size"},
          {InProject("architecture_id", "architectures")})
AuditLogRecord ==
    Table({ID}, {"ix_organization_id_created_at", "ix_actor_user_id_created_at"}, {"action_format", "user_agent_length"},
          {})
CapacityAnalysisRecord ==
    Table({ID, SCOPED}, {"ix_architecture_id_requested_at_id"},
          {"status", "revision_number_positive", "revision_content_hash_format", "label_length", "finished_has_result",
           "failed_has_error", "inputs_object", "scenarios_array"},
          {InProject("architecture_id", "architectures"), ToRevision("architecture_id", "revision_number")})
CapacityComponentRecord ==
    Table({ID, <<"analysis_id", "node_id">>}, {}, {"status", "data_object"},
          {InProject("analysis_id", "capacity_analyses")})
CapacityBottleneckRecord ==
    Table({ID, <<"analysis_id", "position">>}, {}, {"position_non_negative", "condition", "certainty", "data_object"},
          {InProject("analysis_id", "capacity_analyses")})
CostAnalysisRecord ==
    Table({ID, SCOPED}, {"ix_architecture_id_requested_at_id", "ix_snapshot_id", "ix_capacity_analysis_id"},
          {"status", "revision_number_positive", "revision_content_hash_format", "currency_format", "label_length",
           "finished_has_result", "failed_has_error", "inputs_object", "scenarios_array"},
          {InProject("architecture_id", "architectures"), ToRevision("architecture_id", "revision_number"),
           Fk(<<"snapshot_id", "organization_id">>, "pricing_snapshots", <<"id", "organization_id">>, "RESTRICT"),
           InProject("capacity_analysis_id", "capacity_analyses")})
CostLineItemRecord ==
    Table({ID, <<"analysis_id", "element_id", "resource">>}, {}, {"category", "kind", "status", "data_object"},
          {InProject("analysis_id", "cost_analyses")})
DecisionRecord ==
    Table({ID, SCOPED, <<"project_id", "number">>}, {},
          {"status", "number_positive", "title_length", "decided_unless_proposed", "accepted_has_option",
           "superseded_has_successor", "link_complete", "options_array"},
          {InProject("architecture_id", "architectures"), InProject("superseded_by", "decisions"),
           ToRevision("architecture_id", "resulting_revision_number")})
DiscoveryRunRecord ==
    Table({ID, SCOPED}, {"ix_project_listing", "ix_baseline"},
          {"status", "source_type", "label_length", "baseline_complete", "result_when_completed", "error_when_failed",
           "fingerprint_format", "sources_fingerprint_format", "result_object", "result_size", "decisions_array",
           "acceptances_array"},
          {ToProject, InProject("baseline_architecture_id", "architectures"),
           ToRevision("baseline_architecture_id", "baseline_revision_number")})
DriftAnalysisRecord ==
    Table({ID, SCOPED}, {"ix_project_listing", "ix_architecture", "ix_discovery_run"},
          {"status", "result_when_compared", "error_when_failed", "fingerprint_format", "request_object", "result_size",
           "revision_positive"},
          {ToProject, InProject("architecture_id", "architectures"),
           ToRevision("architecture_id", "baseline_revision_number"), InProject("discovery_run_id", "discovery_runs")})
DriftItemRecord ==
    Table({ID, <<"architecture_id", "key">>}, {"ix_listing"},
          {"element", "type", "classification", "status", "key_format", "history_array", "links_array", "artifacts_array"},
          {InProject("architecture_id", "architectures"), InProject("first_analysis_id", "drift_analyses"),
           InProject("last_analysis_id", "drift_analyses")})
DriftIdentityMappingRecord ==
    Table({ID}, {"ix_architecture"}, {"baseline_id_length", "discovered_key_length", "note_length"},
          {InProject("architecture_id", "architectures")})
EmailVerificationTokenRecord ==
    Table({ID, <<"token_hash">>}, {"ix_user_id_outstanding"}, {"token_hash_length", "single_outcome"},
          {ToUser("user_id", "CASCADE")})
EvolutionAnalysisRecord ==
    Table({ID, SCOPED}, {"ix_architecture_id_requested_at_id"},
          {"status", "revision_number_positive", "revision_content_hash_format", "label_length", "finished_has_result",
           "failed_has_error", "inputs_object", "goals_array", "findings_array"},
          {InProject("architecture_id", "architectures"), ToRevision("architecture_id", "revision_number")})
EvolutionCandidateRecord ==
    Table({ID, <<"analysis_id", "candidate_id">>, <<"analysis_id", "position">>}, {},
          {"candidate_id_format", "position_non_negative", "category", "validation", "data_object"},
          {InProject("analysis_id", "evolution_analyses")})
InvitationRecord ==
    Table({ID, <<"token_hash">>}, {"uq_pending_email", "ix_organization_id_created_at"},
          {"token_hash_length", "email_format", "role", "single_outcome", "accepted_state"},
          {ToOrganization("CASCADE"), ToUser("invited_by_user_id", "SET NULL"), ToUser("accepted_by_user_id", "SET NULL")})
MigrationPlanVersionRecord ==
    Table({ID, <<"plan_id", "version">>}, {"ix_project_listing"},
          {"status", "target_kind", "version_positive", "source_content_hash_format", "target_content_hash_format",
           "fingerprint_format", "candidate_target_complete", "target_after_source", "title_length", "proposal_object",
           "request_object", "reviews_array"},
          {InProject("architecture_id", "architectures"), ToRevision("architecture_id", "source_revision_number"),
           ToRevision("architecture_id", "target_revision_number")})
ObservabilityAnalysisRecord ==
    Table({ID, SCOPED}, {"ix_architecture_id_requested_at_id"},
          {"status", "revision_number_positive", "revision_content_hash_format", "label_length", "finished_has_result",
           "failed_has_error", "inputs_object", "checks_array"},
          {InProject("architecture_id", "architectures"), ToRevision("architecture_id", "revision_number")})
ObservabilityComponentRecord ==
    Table({ID, <<"analysis_id", "node_id">>}, {},
          {"criticality", "data_object", "logging", "metrics", "tracing", "health_checks", "alerting"},
          {InProject("analysis_id", "observability_analyses")})
ObservabilityFindingRecord ==
    Table({ID, <<"analysis_id", "position">>, <<"analysis_id", "finding_id">>}, {},
          {"position_non_negative", "finding_id_format", "type", "category", "basis", "type_fixes_category_and_basis",
           "severity", "certainty", "dimension", "data_object"}, {InProject("analysis_id", "observability_analyses")})
OrganizationRecord ==
    Table({ID}, {}, {"name_length"}, {})
OrganizationMemberRecord ==
    Table({ID, <<"organization_id", "user_id">>}, {"ix_user_id"}, {"role"},
          {ToOrganization("CASCADE"), ToUser("user_id", "CASCADE")})
PasswordResetTokenRecord ==
    Table({ID, <<"token_hash">>}, {"ix_user_id_outstanding"}, {"token_hash_length", "single_outcome"},
          {ToUser("user_id", "CASCADE")})
PricingSnapshotRecord ==
    Table({ID, <<"id", "organization_id">>}, {"ix_organization_id_created_at_id"},
          {"name_length", "description_length", "content_hash_format", "record_count_range"},
          {ToOrganization("RESTRICT")})
PricingRecordRow ==
    Table({ID, <<"snapshot_id", "record_id">>}, {}, {"currency_format", "data_object"},
          {Fk(<<"snapshot_id", "organization_id">>, "pricing_snapshots", <<"id", "organization_id">>, "RESTRICT")})
ProjectRecord ==
    With(Table({ID}, {"uq_organization_id_slug_live", "ix_organization_id_created_at_id"},
          {"name_length", "slug_format", "description_length", "status", "settings_object", "architecture_policy_object",
           "archived_state", "deleted_requires_archived"},
          {ToOrganization("RESTRICT"), ToUser("created_by_user_id", "SET NULL")}),
         {Column("architecture_policy", "required")})
ReliabilityAnalysisRecord ==
    Table({ID, SCOPED}, {"ix_architecture_id_requested_at_id"},
          {"status", "revision_number_positive", "revision_content_hash_format", "label_length", "finished_has_result",
           "failed_has_error", "inputs_object", "paths_array", "objectives_array"},
          {InProject("architecture_id", "architectures"), ToRevision("architecture_id", "revision_number")})
ReliabilityComponentRecord ==
    Table({ID, <<"analysis_id", "node_id">>}, {}, {"status", "data_object"},
          {InProject("analysis_id", "reliability_analyses")})
ReliabilityFindingRecord ==
    Table({ID, <<"analysis_id", "position">>, <<"analysis_id", "finding_id">>}, {},
          {"position_non_negative", "finding_id_format", "type", "severity", "certainty", "data_object"},
          {InProject("analysis_id", "reliability_analyses")})
content_checks ==
    {"type", "category_format", "title_length", "statement_length", "priority", "status", "source", "confidence_range",
     "machine_confidence", "user_without_confidence", "scope", "structured_data_object", "structured_data_size"}
RequirementRecord ==
    With(Table({ID, <<"project_id", "number">>, SCOPED}, {"ix_project_id_created_at_id_live", "uq_origin_live"},
               content_checks \cup {"origin_complete", "origin_candidate_key_format", "number_positive", "current_version_positive"},
               {ToProject, ToUser("created_by_user_id", "SET NULL"), CurrentVersion,
                InProject("origin_analysis_id", "requirement_analyses")}),
         {Column("scope", "required"), Column("origin_analysis_id", "optional"), Column("origin_candidate_key", "optional")})
RequirementVersionRecord ==
    With(Table({ID, <<"requirement_id", "version">>}, {}, content_checks \cup {"version_positive", "change_reason_length"},
               {Fk(<<"requirement_id">>, "requirements", ID, "RESTRICT")}),
         {Column("scope", "required")})
RequirementAnalysisRecord ==
    Table({ID, SCOPED}, {"ix_project_id_created_at_id"},
          {"raw_input_length", "input_sha256_format", "engine_version_length", "result_object", "result_size"},
          {ToProject})
RequirementSetRecord ==
    Table({ID, <<"project_id", "number">>, SCOPED}, {},
          {"number_positive", "name_length", "description_length", "schema_version_positive", "content_hash_format",
           "requirement_count_positive", "planning_input_object", "planning_input_size"}, {ToProject})
RequirementSetItemRecord ==
    Table({<<"requirement_set_id", "requirement_id">>}, {"ix_requirement_id_version"}, {"version_positive"},
          {InProject("requirement_set_id", "requirement_sets"), InProject("requirement_id", "requirements"),
           Fk(<<"requirement_id", "version">>, "requirement_versions", <<"requirement_id", "version">>, "RESTRICT")})
SecurityAnalysisRecord ==
    Table({ID, SCOPED}, {"ix_architecture_id_requested_at_id"},
          {"status", "revision_number_positive", "revision_content_hash_format", "label_length", "finished_has_result",
           "failed_has_error", "inputs_object", "trust_zones_array", "checks_array"},
          {InProject("architecture_id", "architectures"), ToRevision("architecture_id", "revision_number")})
SecurityComponentRecord ==
    Table({ID, <<"analysis_id", "node_id">>}, {}, {"coverage", "data_object"},
          {InProject("analysis_id", "security_analyses")})
SecurityFindingRecord ==
    Table({ID, <<"analysis_id", "position">>, <<"analysis_id", "finding_id">>}, {},
          {"position_non_negative", "finding_id_format", "type", "category", "basis", "type_fixes_category_and_basis",
           "severity", "certainty", "threat", "data_object"}, {InProject("analysis_id", "security_analyses")})
SessionRecord ==
    Table({ID}, {"ix_user_id_active"},
          {"refresh_token_hash_length", "revocation_state", "revoked_reason", "user_agent_length"},
          {ToUser("user_id", "CASCADE")})
SimulationRecord ==
    Table({ID, SCOPED}, {"ix_architecture_id_requested_at_id"},
          {"status", "revision_number_positive", "revision_content_hash_format", "label_length", "finished_has_result",
           "failed_has_error", "inputs_object", "runs_array", "entries_array"},
          {InProject("architecture_id", "architectures"), ToRevision("architecture_id", "revision_number")})
SimulationComponentRecord ==
    Table({ID, <<"simulation_id", "node_id">>}, {}, {"impact", "data_object"},
          {InProject("simulation_id", "simulations")})
SimulationDeltaRecord ==
    Table({ID, <<"simulation_id", "position">>, <<"simulation_id", "analysis", "element_id", "metric">>}, {},
          {"position_non_negative", "analysis", "data_object"}, {InProject("simulation_id", "simulations")})
UserRecord ==
    Table({ID}, {"uq_email_lower"}, {"email_format", "name_length", "status", "deleted_state"}, {})
ValidationRunRecord ==
    Table({ID, SCOPED}, {"ix_architecture_id_requested_at_id"},
          {"status", "revision_number_positive", "revision_content_hash_format", "profile_length",
           "completed_has_result", "failed_has_error", "inputs_object"},
          {InProject("architecture_id", "architectures"), ToRevision("architecture_id", "revision_number")})
ValidationFindingRecord ==
    Table({ID, <<"run_id", "position">>, <<"run_id", "finding_id">>}, {},
          {"position_non_negative", "severity", "category", "entity_ids_array", "data_object"},
          {InProject("run_id", "validation_runs")})

Declared ==
    [architectures |-> ArchitectureRecord, architecture_revisions |-> ArchitectureRevisionRecord,
     architecture_layouts |-> ArchitectureLayoutRecord, audit_logs |-> AuditLogRecord,
     capacity_analyses |-> CapacityAnalysisRecord, capacity_components |-> CapacityComponentRecord,
     capacity_bottlenecks |-> CapacityBottleneckRecord, cost_analyses |-> CostAnalysisRecord,
     cost_line_items |-> CostLineItemRecord, decisions |-> DecisionRecord, discovery_runs |-> DiscoveryRunRecord,
     drift_analyses |-> DriftAnalysisRecord, drift_items |-> DriftItemRecord,
     drift_identity_mappings |-> DriftIdentityMappingRecord, email_verification_tokens |-> EmailVerificationTokenRecord,
     evolution_analyses |-> EvolutionAnalysisRecord, evolution_candidates |-> EvolutionCandidateRecord,
     invitations |-> InvitationRecord, migration_plan_versions |-> MigrationPlanVersionRecord,
     observability_analyses |-> ObservabilityAnalysisRecord, observability_components |-> ObservabilityComponentRecord,
     observability_findings |-> ObservabilityFindingRecord, organizations |-> OrganizationRecord,
     organization_members |-> OrganizationMemberRecord, password_reset_tokens |-> PasswordResetTokenRecord,
     pricing_snapshots |-> PricingSnapshotRecord, pricing_records |-> PricingRecordRow, projects |-> ProjectRecord,
     reliability_analyses |-> ReliabilityAnalysisRecord, reliability_components |-> ReliabilityComponentRecord,
     reliability_findings |-> ReliabilityFindingRecord, requirements |-> RequirementRecord,
     requirement_versions |-> RequirementVersionRecord, requirement_analyses |-> RequirementAnalysisRecord,
     requirement_sets |-> RequirementSetRecord, requirement_set_items |-> RequirementSetItemRecord,
     security_analyses |-> SecurityAnalysisRecord, security_components |-> SecurityComponentRecord,
     security_findings |-> SecurityFindingRecord, sessions |-> SessionRecord, simulations |-> SimulationRecord,
     simulation_components |-> SimulationComponentRecord, simulation_deltas |-> SimulationDeltaRecord,
     users |-> UserRecord, validation_runs |-> ValidationRunRecord, validation_findings |-> ValidationFindingRecord]
=============================================================================
