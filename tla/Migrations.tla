------------------------------ MODULE Migrations ------------------------------
(***************************************************************************)
(* persistence/migrations: the database is brought from one revision of    *)
(* its schema to the next, or back, statement by statement, each revision  *)
(* in a transaction of its own (env.py).  What PostgreSQL accepts and does *)
(* is external to the repository.  A statement that the rows of a table do *)
(* not satisfy, or a lost connection, undoes the revision.                 *)
(***************************************************************************)
EXTENDS Schema, Naturals, SequencesExt

VARIABLES version, todo, target, schema, saved

vars == <<version, todo, target, schema, saved>>

-----------------------------------------------------------------------------
(* Statements.                                                              *)

CreateTable(t, keys, checks, fks) == <<"create_table", t, Table(keys, {}, checks, fks)>>
DropTable(t) == <<"drop_table", t, {}>>
AddColumn(t, column, value) == <<"add_column", t, <<column, value>>>>
SetNotNull(t, column) == <<"set_not_null", t, column>>
DropColumn(t, column) == <<"drop_column", t, column>>
Fill(t, column) == <<"update", t, column>>
AddKey(t, key) == <<"add_key", t, key>>
DropKey(t, key) == <<"drop_key", t, key>>
AddIndex(t, index) == <<"add_index", t, index>>
DropIndex(t, index) == <<"drop_index", t, index>>
AddCheck(t, check) == <<"add_check", t, check>>
DropCheck(t, check) == <<"drop_check", t, check>>
AddFk(t, fk) == <<"add_fk", t, fk>>
DropFk(t, fk) == <<"drop_fk", t, fk>>
AddFunction(f) == <<"add_function", f, {}>>
DropFunction(f) == <<"drop_function", f, {}>>
AddTrigger(t, name, f) == <<"add_trigger", t, <<name, f>>>>
DropTrigger(t, name) == <<"drop_trigger", t, name>>

\* A table's trigger on changes of its rows and the one on TRUNCATE.
Guarded(t, trigger, f) == <<AddTrigger(t, trigger, f), AddTrigger(t, "no_truncate", f)>>
Unguarded(t, trigger) == <<DropTrigger(t, "no_truncate"), DropTrigger(t, trigger)>>
\* The tables whose rows nobody changes share one function.
Guards(tables) ==
    FlattenSeq([i \in DOMAIN tables |-> Guarded(tables[i], "append_only", "requirement_sets_reject_change")])
Unguards(tables) == FlattenSeq([i \in DOMAIN tables |-> Unguarded(tables[i], "append_only")])

-----------------------------------------------------------------------------
(* What the database accepts, and what it does.                             *)

NoSchema == [tables |-> <<>>, functions |-> {}, triggers |-> {}]

References(s, t) == UNION {s.tables[o].fks : o \in DOMAIN s.tables \ {t}}
HasKey(s, t, keys, fk) == IF fk.table = t THEN fk.key \in keys ELSE fk.table \in DOMAIN s.tables /\ fk.key \in s.tables[fk.table].keys
TriggersOn(s, t) == {g \in s.triggers : g.table = t}

Accepted(s, st) ==
    LET t == st[2]
        x == st[3]
        known == t \in DOMAIN s.tables
        It == s.tables[t]
    IN CASE st[1] = "create_table" -> ~ known /\ \A f \in x.fks : HasKey(s, t, x.keys, f)
         [] st[1] = "drop_table"   -> known /\ \A f \in References(s, t) : f.table # t
         [] st[1] = "add_column"   -> known /\ x[2] # "required" /\ \A c \in It.columns : c[1] # x[1]
         [] st[1] = "set_not_null" -> known /\ <<x, "filled">> \in It.columns
         [] st[1] = "drop_column"  -> known /\ \E c \in It.columns : c[1] = x
         [] st[1] = "update"       -> known /\ \A g \in TriggersOn(s, t) : g.name = "no_truncate"
         [] st[1] = "add_key"      -> known /\ x \notin It.keys
         [] st[1] = "drop_key"     -> known /\ x \in It.keys /\ \A f \in References(s, "") : ~ (f.table = t /\ f.key = x)
         [] st[1] = "add_index"    -> known /\ x \notin It.indexes
         [] st[1] = "drop_index"   -> known /\ x \in It.indexes
         [] st[1] = "add_check"    -> known /\ x \notin It.checks
         [] st[1] = "drop_check"   -> known /\ x \in It.checks
         [] st[1] = "add_fk"       -> known /\ x \notin It.fks /\ HasKey(s, t, It.keys, x)
         [] st[1] = "drop_fk"      -> known /\ x \in It.fks
         [] st[1] = "add_function"  -> t \notin s.functions
         [] st[1] = "drop_function" -> t \in s.functions /\ \A g \in s.triggers : g.function # t
         [] st[1] = "add_trigger"  -> known /\ x[2] \in s.functions /\ \A g \in TriggersOn(s, t) : g.name # x[1]
         [] st[1] = "drop_trigger" -> \E g \in TriggersOn(s, t) : g.name = x

Without(f, x) == [y \in DOMAIN f \ {x} |-> f[y]]
OnTable(s, t, field, values) == [s EXCEPT !.tables[t][field] = values]

Executed(s, st) ==
    LET t == st[2]
        x == st[3]
    IN CASE st[1] = "create_table" -> [s EXCEPT !.tables = (t :> x) @@ @]
         [] st[1] = "drop_table"   -> [s EXCEPT !.tables = Without(@, t), !.triggers = @ \ TriggersOn(s, t)]
         [] st[1] = "add_column"   ->
               OnTable(s, t, "columns", s.tables[t].columns \cup {<<x[1], IF x[2] = "default" THEN "required" ELSE x[2]>>})
         [] st[1] = "update"       -> OnTable(s, t, "columns", {c \in s.tables[t].columns : c[1] # x} \cup {<<x, "filled">>})
         [] st[1] = "set_not_null" -> OnTable(s, t, "columns", {c \in s.tables[t].columns : c[1] # x} \cup {<<x, "required">>})
         [] st[1] = "drop_column"  -> OnTable(s, t, "columns", {c \in s.tables[t].columns : c[1] # x})
         [] st[1] = "add_key"      -> OnTable(s, t, "keys", s.tables[t].keys \cup {x})
         [] st[1] = "drop_key"     -> OnTable(s, t, "keys", s.tables[t].keys \ {x})
         [] st[1] = "add_index"    -> OnTable(s, t, "indexes", s.tables[t].indexes \cup {x})
         [] st[1] = "drop_index"   -> OnTable(s, t, "indexes", s.tables[t].indexes \ {x})
         [] st[1] = "add_check"    -> OnTable(s, t, "checks", s.tables[t].checks \cup {x})
         [] st[1] = "drop_check"   -> OnTable(s, t, "checks", s.tables[t].checks \ {x})
         [] st[1] = "add_fk"       -> OnTable(s, t, "fks", s.tables[t].fks \cup {x})
         [] st[1] = "drop_fk"      -> OnTable(s, t, "fks", s.tables[t].fks \ {x})
         [] st[1] = "add_function"  -> [s EXCEPT !.functions = @ \cup {t}]
         [] st[1] = "drop_function" -> [s EXCEPT !.functions = @ \ {t}]
         [] st[1] = "add_trigger"  -> [s EXCEPT !.triggers = @ \cup {[table |-> t, name |-> x[1], function |-> x[2]]}]
         [] st[1] = "drop_trigger" -> [s EXCEPT !.triggers = {g \in @ : ~ (g.table = t /\ g.name = x)}]

-----------------------------------------------------------------------------
(* The revisions.                                                           *)

\* 0001_identity_organizations_and_audit_log
CreateAuditLogs ==
    CreateTable("audit_logs", {ID}, {"action_format", "user_agent_length"}, {})
CreateOrganizations ==
    CreateTable("organizations", {ID}, {"name_length"}, {})
CreateUsers ==
    CreateTable("users", {ID}, {"deleted_state", "status", "name_length", "email_format"}, {})
CreateEmailVerificationTokens ==
    CreateTable("email_verification_tokens", {ID, <<"token_hash">>}, {"single_outcome", "token_hash_length"},
                {ToUser("user_id", "CASCADE")})
CreateInvitations ==
    CreateTable("invitations", {ID, <<"token_hash">>},
                {"role", "single_outcome", "accepted_state", "email_format", "token_hash_length"},
                {ToUser("accepted_by_user_id", "SET NULL"), ToUser("invited_by_user_id", "SET NULL"),
                 ToOrganization("CASCADE")})
CreateOrganizationMembers ==
    CreateTable("organization_members", {ID, <<"organization_id", "user_id">>}, {"role"},
                {ToOrganization("CASCADE"), ToUser("user_id", "CASCADE")})
CreatePasswordResetTokens ==
    CreateTable("password_reset_tokens", {ID, <<"token_hash">>}, {"single_outcome", "token_hash_length"},
                {ToUser("user_id", "CASCADE")})
CreateSessions ==
    CreateTable("sessions", {ID},
                {"revoked_reason", "revocation_state", "user_agent_length", "refresh_token_hash_length"},
                {ToUser("user_id", "CASCADE")})
CreateAuditLogGuard ==
    <<AddFunction("audit_logs_reject_change")>> \o Guarded("audit_logs", "append_only", "audit_logs_reject_change")
DropAuditLogGuard == Unguarded("audit_logs", "append_only") \o <<DropFunction("audit_logs_reject_change")>>
Upgrade0001 ==
    <<CreateAuditLogs, AddIndex("audit_logs", "ix_actor_user_id_created_at"),
      AddIndex("audit_logs", "ix_organization_id_created_at"), CreateOrganizations, CreateUsers,
      AddIndex("users", "uq_email_lower"), CreateEmailVerificationTokens,
      AddIndex("email_verification_tokens", "ix_user_id_outstanding"), CreateInvitations,
      AddIndex("invitations", "ix_organization_id_created_at"), AddIndex("invitations", "uq_pending_email"),
      CreateOrganizationMembers, AddIndex("organization_members", "ix_user_id"), CreatePasswordResetTokens,
      AddIndex("password_reset_tokens", "ix_user_id_outstanding"), CreateSessions,
      AddIndex("sessions", "ix_user_id_active")>> \o CreateAuditLogGuard
Downgrade0001 ==
    DropAuditLogGuard
    \o <<DropIndex("sessions", "ix_user_id_active"), DropTable("sessions"),
      DropIndex("password_reset_tokens", "ix_user_id_outstanding"), DropTable("password_reset_tokens"),
      DropIndex("organization_members", "ix_user_id"), DropTable("organization_members"),
      DropIndex("invitations", "uq_pending_email"), DropIndex("invitations", "ix_organization_id_created_at"),
      DropTable("invitations"), DropIndex("email_verification_tokens", "ix_user_id_outstanding"),
      DropTable("email_verification_tokens"), DropIndex("users", "uq_email_lower"), DropTable("users"),
      DropTable("organizations"), DropIndex("audit_logs", "ix_organization_id_created_at"),
      DropIndex("audit_logs", "ix_actor_user_id_created_at"), DropTable("audit_logs")>>

\* 0002_projects
CreateProjects ==
    CreateTable("projects", {ID},
                {"archived_state", "slug_format", "deleted_requires_archived", "settings_object", "status",
                 "description_length", "name_length"},
                {ToUser("created_by_user_id", "SET NULL"), ToOrganization("RESTRICT")})
Upgrade0002 ==
    <<CreateProjects, AddIndex("projects", "ix_organization_id_status_created_at_id"),
      AddIndex("projects", "uq_organization_id_slug_live")>>
Downgrade0002 ==
    <<DropIndex("projects", "uq_organization_id_slug_live"),
      DropIndex("projects", "ix_organization_id_status_created_at_id"), DropTable("projects")>>

\* 0003_requirements
CreateRequirements ==
    CreateTable("requirements", {ID, <<"project_id", "number">>},
                {"category_format", "structured_data_object", "priority", "ai_confidence", "source_user_ai", "status", "type",
                 "statement_length", "title_length", "confidence_range", "current_version_positive", "number_positive",
                 "structured_data_size"}, {ToUser("created_by_user_id", "SET NULL"), ToProject})
CreateRequirementVersions_cascade ==
    CreateTable("requirement_versions", {ID, <<"requirement_id", "version">>}, RequirementVersionRecord.checks,
                {Fk(<<"requirement_id">>, "requirements", ID, "CASCADE")})
CreateRequirementVersions ==
    CreateTable("requirement_versions", {ID, <<"requirement_id", "version">>},
                {"category_format", "structured_data_object", "priority", "ai_confidence", "source_user_ai", "status", "type",
                 "change_reason_length", "statement_length", "title_length", "confidence_range", "structured_data_size",
                 "version_positive"}, {Fk(<<"requirement_id">>, "requirements", ID, "RESTRICT")})
CreateVersionGuard ==
    <<AddFunction("requirement_versions_reject_change")>>
    \o Guarded("requirement_versions", "append_only", "requirement_versions_reject_change")
DropVersionGuard ==
    Unguarded("requirement_versions", "append_only") \o <<DropFunction("requirement_versions_reject_change")>>
Upgrade0003 ==
    <<CreateRequirements, AddIndex("requirements", "ix_project_id_created_at_id_live"), CreateRequirementVersions,
      AddFk("requirements", CurrentVersion)>> \o CreateVersionGuard
Downgrade0003 ==
    DropVersionGuard
    \o <<DropFk("requirements", CurrentVersion),
      DropTable("requirement_versions"), DropIndex("requirements", "ix_project_id_created_at_id_live"),
      DropTable("requirements")>>

\* 0004_requirement_sets
CreateRequirementSets ==
    CreateTable("requirement_sets", {ID, SCOPED, <<"project_id", "number">>},
                {"content_hash_format", "planning_input_object", "description_length", "name_length", "number_positive",
                 "planning_input_size", "requirement_count_positive", "schema_version_positive"}, {ToProject})
CreateRequirementSetItems ==
    CreateTable("requirement_set_items", {<<"requirement_set_id", "requirement_id">>}, {"version_positive"},
                {InProject("requirement_id", "requirements"),
                 Fk(<<"requirement_id", "version">>, "requirement_versions", <<"requirement_id", "version">>, "RESTRICT"),
                 InProject("requirement_set_id", "requirement_sets")})
CreateAppendOnlyGuards ==
    <<AddFunction("requirement_sets_reject_change")>> \o Guards(<<"requirement_sets", "requirement_set_items">>)
DropAppendOnlyGuards ==
    Unguards(<<"requirement_sets", "requirement_set_items">>) \o <<DropFunction("requirement_sets_reject_change")>>
Upgrade0004 ==
    <<AddKey("requirements", SCOPED), CreateRequirementSets, CreateRequirementSetItems,
      AddIndex("requirement_set_items", "ix_requirement_id_version")>> \o CreateAppendOnlyGuards
Downgrade0004 ==
    DropAppendOnlyGuards
    \o <<DropIndex("requirement_set_items", "ix_requirement_id_version"),
      DropTable("requirement_set_items"), DropTable("requirement_sets"), DropKey("requirements", SCOPED)>>

\* 0005_project_listing_index
Upgrade0005 ==
    <<AddIndex("projects", "ix_organization_id_created_at_id"),
      DropIndex("projects", "ix_organization_id_status_created_at_id")>>
Downgrade0005 ==
    <<DropIndex("projects", "ix_organization_id_created_at_id"),
      AddIndex("projects", "ix_organization_id_status_created_at_id")>>

\* 0006_requirement_scope_and_sources
Upgrade0006 ==
    <<AddColumn("requirements", "scope", "default"), AddCheck("requirements", "scope"),
      DropCheck("requirements", "source_user_ai"), AddCheck("requirements", "source"),
      DropCheck("requirements", "ai_confidence"), AddCheck("requirements", "machine_confidence"),
      AddCheck("requirements", "user_without_confidence"), AddColumn("requirement_versions", "scope", "default"),
      AddCheck("requirement_versions", "scope"), DropCheck("requirement_versions", "source_user_ai"),
      AddCheck("requirement_versions", "source"), DropCheck("requirement_versions", "ai_confidence"),
      AddCheck("requirement_versions", "machine_confidence"), AddCheck("requirement_versions", "user_without_confidence")>>
Downgrade0006 ==
    <<DropCheck("requirements", "user_without_confidence"), DropCheck("requirements", "machine_confidence"),
      AddCheck("requirements", "ai_confidence"), DropCheck("requirements", "source"), AddCheck("requirements", "source_user_ai"),
      DropCheck("requirements", "scope"), DropColumn("requirements", "scope"),
      DropCheck("requirement_versions", "user_without_confidence"),
      DropCheck("requirement_versions", "machine_confidence"), AddCheck("requirement_versions", "ai_confidence"),
      DropCheck("requirement_versions", "source"), AddCheck("requirement_versions", "source_user_ai"),
      DropCheck("requirement_versions", "scope"), DropColumn("requirement_versions", "scope")>>

\* 0007_requirement_analyses_and_provenance
CreateRequirementAnalyses ==
    CreateTable("requirement_analyses", {ID, SCOPED},
                {"input_sha256_format", "result_object", "engine_version_length", "raw_input_length", "result_size"},
                {ToProject})
Upgrade0007 ==
    <<CreateRequirementAnalyses, AddIndex("requirement_analyses", "ix_project_id_created_at_id"),
      AddColumn("requirements", "origin_analysis_id", "optional"),
      AddColumn("requirements", "origin_candidate_key", "optional"), AddIndex("requirements", "uq_origin_live"),
      AddFk("requirements", InProject("origin_analysis_id", "requirement_analyses")),
      AddCheck("requirements", "origin_complete"), AddCheck("requirements", "origin_candidate_key_format")>>
    \o Guards(<<"requirement_analyses">>)
Downgrade0007 ==
    Unguards(<<"requirement_analyses">>)
    \o <<DropCheck("requirements", "origin_candidate_key_format"), DropCheck("requirements", "origin_complete"),
      DropFk("requirements", InProject("origin_analysis_id", "requirement_analyses")),
      DropIndex("requirements", "uq_origin_live"), DropColumn("requirements", "origin_candidate_key"),
      DropColumn("requirements", "origin_analysis_id"), DropIndex("requirement_analyses", "ix_project_id_created_at_id"),
      DropTable("requirement_analyses")>>

\* 0008_architectures_and_revisions
CreateArchitectures ==
    CreateTable("architectures", {ID, SCOPED, <<"project_id">>}, {"current_revision_positive"}, {ToProject})
CreateArchitectureRevisions ==
    CreateTable("architecture_revisions", {ID, <<"architecture_id", "number">>, <<"project_id", "number">>},
                {"content_hash_format", "ir_object", "source_valid", "parent_is_previous", "summary_length",
                 "ir_schema_version_positive", "number_positive", "ir_size", "reason_length"},
                {ToRevision("architecture_id", "parent_number"), InProject("architecture_id", "architectures"),
                 InProject("requirement_set_id", "requirement_sets")})
CreateArchitectureLayouts ==
    CreateTable("architecture_layouts", {<<"architecture_id">>}, {"positions_object", "positions_size"},
                {InProject("architecture_id", "architectures")})
Upgrade0008 ==
    <<CreateArchitectures, CreateArchitectureRevisions, AddFk("architectures", CurrentRevision),
      CreateArchitectureLayouts>> \o Guards(<<"architecture_revisions">>)
Downgrade0008 ==
    Unguards(<<"architecture_revisions">>)
    \o <<DropTable("architecture_layouts"), DropFk("architectures", CurrentRevision), DropTable("architecture_revisions"),
      DropTable("architectures")>>

\* 0009_architecture_metadata_and_lifecycle
Upgrade0009 ==
    <<AddColumn("architectures", "name", "optional"), AddColumn("architectures", "description", "default"),
      AddColumn("architectures", "status", "default"), AddColumn("architectures", "updated_by_user_id", "optional"),
      AddColumn("architectures", "archived_at", "optional"), AddColumn("architectures", "deleted_at", "optional"),
      Fill("architectures", "name"), SetNotNull("architectures", "name"),
      DropKey("architectures", <<"project_id">>), AddIndex("architectures", "ix_project_id_created_at_id_live"),
      AddIndex("architectures", "uq_project_id_name_live"), AddCheck("architectures", "name_length"),
      AddCheck("architectures", "description_length"), AddCheck("architectures", "status_valid"),
      AddCheck("architectures", "archived_at_matches_status"), AddCheck("architectures", "deleted_only_when_archived"),
      AddColumn("architecture_revisions", "restored_from_number", "optional"),
      AddFk("architecture_revisions", ToRevision("architecture_id", "restored_from_number")),
      AddCheck("architecture_revisions", "restores_an_earlier_revision"),
      DropKey("architecture_revisions", <<"project_id", "number">>)>>
Downgrade0009 ==
    <<AddKey("architecture_revisions", <<"project_id", "number">>),
      DropCheck("architecture_revisions", "restores_an_earlier_revision"),
      DropFk("architecture_revisions", ToRevision("architecture_id", "restored_from_number")),
      DropColumn("architecture_revisions", "restored_from_number"), DropCheck("architectures", "name_length"),
      DropCheck("architectures", "description_length"), DropCheck("architectures", "status_valid"),
      DropCheck("architectures", "archived_at_matches_status"), DropCheck("architectures", "deleted_only_when_archived"),
      DropIndex("architectures", "uq_project_id_name_live"),
      DropIndex("architectures", "ix_project_id_created_at_id_live"), AddKey("architectures", <<"project_id">>),
      DropColumn("architectures", "deleted_at"), DropColumn("architectures", "archived_at"),
      DropColumn("architectures", "updated_by_user_id"), DropColumn("architectures", "status"),
      DropColumn("architectures", "description"), DropColumn("architectures", "name")>>

\* 0010_project_architecture_policy
Upgrade0010 ==
    <<AddColumn("projects", "architecture_policy", "default"), AddCheck("projects", "architecture_policy_object")>>
Downgrade0010 ==
    <<DropCheck("projects", "architecture_policy_object"), DropColumn("projects", "architecture_policy")>>

\* 0011_validation_runs_and_findings
CreateValidationRuns ==
    CreateTable("validation_runs", {ID, SCOPED},
                {"inputs_object", "revision_content_hash_format", "completed_has_result", "failed_has_error", "status",
                 "profile_length", "revision_number_positive"},
                {InProject("architecture_id", "architectures"), ToRevision("architecture_id", "revision_number")})
CreateValidationFindings ==
    CreateTable("validation_findings", {ID, <<"run_id", "finding_id">>, <<"run_id", "position">>},
                {"category", "data_object", "entity_ids_array", "severity", "position_non_negative"},
                {InProject("run_id", "validation_runs")})
Upgrade0011 ==
    <<CreateValidationRuns, AddIndex("validation_runs", "ix_architecture_id_requested_at_id"), CreateValidationFindings>>
    \o Guards(<<"validation_runs", "validation_findings">>)
Downgrade0011 ==
    Unguards(<<"validation_findings", "validation_runs">>)
    \o <<DropTable("validation_findings"), DropIndex("validation_runs", "ix_architecture_id_requested_at_id"),
      DropTable("validation_runs")>>

\* 0012_capacity_analyses
CreateCapacityAnalyses ==
    CreateTable("capacity_analyses", {ID, SCOPED},
                {"inputs_object", "scenarios_array", "revision_content_hash_format", "failed_has_error", "status",
                 "finished_has_result", "label_length", "revision_number_positive"},
                {InProject("architecture_id", "architectures"), ToRevision("architecture_id", "revision_number")})
CreateCapacityBottlenecks ==
    CreateTable("capacity_bottlenecks", {ID, <<"analysis_id", "position">>},
                {"certainty", "condition", "data_object", "position_non_negative"},
                {InProject("analysis_id", "capacity_analyses")})
CreateCapacityComponents ==
    CreateTable("capacity_components", {ID, <<"analysis_id", "node_id">>}, {"data_object", "status"},
                {InProject("analysis_id", "capacity_analyses")})
Upgrade0012 ==
    <<CreateCapacityAnalyses, AddIndex("capacity_analyses", "ix_architecture_id_requested_at_id"),
      CreateCapacityBottlenecks, CreateCapacityComponents>>
    \o Guards(<<"capacity_analyses", "capacity_components", "capacity_bottlenecks">>)
Downgrade0012 ==
    Unguards(Reverse(<<"capacity_analyses", "capacity_components", "capacity_bottlenecks">>))
    \o <<DropTable("capacity_components"), DropTable("capacity_bottlenecks"),
      DropIndex("capacity_analyses", "ix_architecture_id_requested_at_id"), DropTable("capacity_analyses")>>

\* 0013_pricing_snapshots
CreatePricingSnapshots ==
    CreateTable("pricing_snapshots", {ID, <<"id", "organization_id">>},
                {"content_hash_format", "name_length", "description_length", "record_count_range"},
                {ToOrganization("RESTRICT")})
CreatePricingRecords ==
    CreateTable("pricing_records", {ID, <<"snapshot_id", "record_id">>}, {"currency_format", "data_object"},
                {Fk(<<"snapshot_id", "organization_id">>, "pricing_snapshots", <<"id", "organization_id">>, "RESTRICT")})
Upgrade0013 ==
    <<CreatePricingSnapshots, AddIndex("pricing_snapshots", "ix_organization_id_created_at_id"), CreatePricingRecords>>
    \o Guards(<<"pricing_snapshots", "pricing_records">>)
Downgrade0013 ==
    Unguards(Reverse(<<"pricing_snapshots", "pricing_records">>))
    \o <<DropTable("pricing_records"), DropIndex("pricing_snapshots", "ix_organization_id_created_at_id"),
      DropTable("pricing_snapshots")>>

\* 0014_cost_analyses
CreateCostAnalyses ==
    CreateTable("cost_analyses", {ID, SCOPED},
                {"currency_format", "inputs_object", "scenarios_array", "revision_content_hash_format",
                 "failed_has_error", "status", "finished_has_result", "label_length", "revision_number_positive"},
                {InProject("architecture_id", "architectures"), ToRevision("architecture_id", "revision_number"),
                 InProject("capacity_analysis_id", "capacity_analyses"),
                 Fk(<<"snapshot_id", "organization_id">>, "pricing_snapshots", <<"id", "organization_id">>, "RESTRICT")})
CreateCostLineItems ==
    CreateTable("cost_line_items", {ID, <<"analysis_id", "element_id", "resource">>},
                {"category", "data_object", "kind", "status"}, {InProject("analysis_id", "cost_analyses")})
Upgrade0014 ==
    <<CreateCostAnalyses, AddIndex("cost_analyses", "ix_architecture_id_requested_at_id"),
      AddIndex("cost_analyses", "ix_capacity_analysis_id"), AddIndex("cost_analyses", "ix_snapshot_id"),
      CreateCostLineItems>> \o Guards(<<"cost_analyses", "cost_line_items">>)
Downgrade0014 ==
    Unguards(Reverse(<<"cost_analyses", "cost_line_items">>))
    \o <<DropTable("cost_line_items"), DropIndex("cost_analyses", "ix_snapshot_id"),
      DropIndex("cost_analyses", "ix_capacity_analysis_id"),
      DropIndex("cost_analyses", "ix_architecture_id_requested_at_id"), DropTable("cost_analyses")>>

\* 0015_reliability_analyses
CreateReliabilityAnalyses ==
    CreateTable("reliability_analyses", {ID, SCOPED},
                {"inputs_object", "objectives_array", "paths_array", "revision_content_hash_format", "failed_has_error",
                 "status", "finished_has_result", "label_length", "revision_number_positive"},
                {InProject("architecture_id", "architectures"), ToRevision("architecture_id", "revision_number")})
CreateReliabilityComponents ==
    CreateTable("reliability_components", {ID, <<"analysis_id", "node_id">>}, {"data_object", "status"},
                {InProject("analysis_id", "reliability_analyses")})
CreateReliabilityFindings ==
    CreateTable("reliability_findings", {ID, <<"analysis_id", "finding_id">>, <<"analysis_id", "position">>},
                {"certainty", "finding_id_format", "data_object", "severity", "type", "position_non_negative"},
                {InProject("analysis_id", "reliability_analyses")})
Upgrade0015 ==
    <<CreateReliabilityAnalyses, AddIndex("reliability_analyses", "ix_architecture_id_requested_at_id"),
      CreateReliabilityComponents, CreateReliabilityFindings>>
    \o Guards(<<"reliability_analyses", "reliability_components", "reliability_findings">>)
Downgrade0015 ==
    Unguards(Reverse(<<"reliability_analyses", "reliability_components", "reliability_findings">>))
    \o <<DropTable("reliability_findings"), DropTable("reliability_components"),
      DropIndex("reliability_analyses", "ix_architecture_id_requested_at_id"), DropTable("reliability_analyses")>>

\* 0016_security_analyses
CreateSecurityAnalyses ==
    CreateTable("security_analyses", {ID, SCOPED},
                {"checks_array", "inputs_object", "trust_zones_array", "revision_content_hash_format",
                 "failed_has_error", "status", "finished_has_result", "label_length", "revision_number_positive"},
                {InProject("architecture_id", "architectures"), ToRevision("architecture_id", "revision_number")})
CreateSecurityComponents ==
    CreateTable("security_components", {ID, <<"analysis_id", "node_id">>}, {"coverage", "data_object"},
                {InProject("analysis_id", "security_analyses")})
CreateSecurityFindings ==
    CreateTable("security_findings", {ID, <<"analysis_id", "finding_id">>, <<"analysis_id", "position">>},
                {"type_fixes_category_and_basis", "threat", "basis", "category", "certainty", "finding_id_format",
                 "data_object", "severity", "type", "position_non_negative"},
                {InProject("analysis_id", "security_analyses")})
Upgrade0016 ==
    <<CreateSecurityAnalyses, AddIndex("security_analyses", "ix_architecture_id_requested_at_id"),
      CreateSecurityComponents, CreateSecurityFindings>>
    \o Guards(<<"security_analyses", "security_components", "security_findings">>)
Downgrade0016 ==
    Unguards(Reverse(<<"security_analyses", "security_components", "security_findings">>))
    \o <<DropTable("security_findings"), DropTable("security_components"),
      DropIndex("security_analyses", "ix_architecture_id_requested_at_id"), DropTable("security_analyses")>>

\* 0017_observability_analyses
CreateObservabilityAnalyses ==
    CreateTable("observability_analyses", {ID, SCOPED},
                {"checks_array", "inputs_object", "revision_content_hash_format", "failed_has_error", "status",
                 "finished_has_result", "label_length", "revision_number_positive"},
                {InProject("architecture_id", "architectures"), ToRevision("architecture_id", "revision_number")})
CreateObservabilityComponents ==
    CreateTable("observability_components", {ID, <<"analysis_id", "node_id">>},
                {"alerting", "criticality", "health_checks", "data_object", "logging", "metrics", "tracing"},
                {InProject("analysis_id", "observability_analyses")})
CreateObservabilityFindings ==
    CreateTable("observability_findings", {ID, <<"analysis_id", "finding_id">>, <<"analysis_id", "position">>},
                {"type_fixes_category_and_basis", "basis", "category", "certainty", "dimension", "finding_id_format",
                 "data_object", "severity", "type", "position_non_negative"},
                {InProject("analysis_id", "observability_analyses")})
Upgrade0017 ==
    <<CreateObservabilityAnalyses, AddIndex("observability_analyses", "ix_architecture_id_requested_at_id"),
      CreateObservabilityComponents, CreateObservabilityFindings>>
    \o Guards(<<"observability_analyses", "observability_components", "observability_findings">>)
Downgrade0017 ==
    Unguards(Reverse(<<"observability_analyses", "observability_components", "observability_findings">>))
    \o <<DropTable("observability_findings"), DropTable("observability_components"),
      DropIndex("observability_analyses", "ix_architecture_id_requested_at_id"), DropTable("observability_analyses")>>

\* 0018_simulations
CreateSimulations ==
    CreateTable("simulations", {ID, SCOPED},
                {"entries_array", "inputs_object", "runs_array", "revision_content_hash_format", "failed_has_error",
                 "status", "finished_has_result", "label_length", "revision_number_positive"},
                {InProject("architecture_id", "architectures"), ToRevision("architecture_id", "revision_number")})
CreateSimulationComponents ==
    CreateTable("simulation_components", {ID, <<"simulation_id", "node_id">>}, {"impact", "data_object"},
                {InProject("simulation_id", "simulations")})
CreateSimulationDeltas ==
    CreateTable("simulation_deltas",
                {ID, <<"simulation_id", "analysis", "element_id", "metric">>, <<"simulation_id", "position">>},
                {"analysis", "data_object", "position_non_negative"}, {InProject("simulation_id", "simulations")})
Upgrade0018 ==
    <<CreateSimulations, AddIndex("simulations", "ix_architecture_id_requested_at_id"), CreateSimulationComponents,
      CreateSimulationDeltas>> \o Guards(<<"simulations", "simulation_components", "simulation_deltas">>)
Downgrade0018 ==
    Unguards(Reverse(<<"simulations", "simulation_components", "simulation_deltas">>))
    \o <<DropTable("simulation_deltas"), DropTable("simulation_components"),
      DropIndex("simulations", "ix_architecture_id_requested_at_id"), DropTable("simulations")>>

\* 0019_evolution_and_decisions
CreateDecisions ==
    CreateTable("decisions", {ID, SCOPED, <<"project_id", "number">>},
                {"decided_unless_proposed", "superseded_has_successor", "options_array", "status", "accepted_has_option",
                 "link_complete", "title_length", "number_positive"},
                {InProject("architecture_id", "architectures"),
                 ToRevision("architecture_id", "resulting_revision_number"), InProject("superseded_by", "decisions")})
CreateEvolutionAnalyses ==
    CreateTable("evolution_analyses", {ID, SCOPED},
                {"findings_array", "goals_array", "inputs_object", "revision_content_hash_format", "failed_has_error",
                 "status", "finished_has_result", "label_length", "revision_number_positive"},
                {InProject("architecture_id", "architectures"), ToRevision("architecture_id", "revision_number")})
CreateEvolutionCandidates ==
    CreateTable("evolution_candidates", {ID, <<"analysis_id", "candidate_id">>, <<"analysis_id", "position">>},
                {"candidate_id_format", "category", "data_object", "validation", "position_non_negative"},
                {InProject("analysis_id", "evolution_analyses")})
Upgrade0019 ==
    <<CreateDecisions, CreateEvolutionAnalyses, AddIndex("evolution_analyses", "ix_architecture_id_requested_at_id"),
      CreateEvolutionCandidates>> \o Guards(<<"evolution_analyses", "evolution_candidates">>)
Downgrade0019 ==
    Unguards(Reverse(<<"evolution_analyses", "evolution_candidates">>))
    \o <<DropTable("evolution_candidates"), DropIndex("evolution_analyses", "ix_architecture_id_requested_at_id"),
      DropTable("evolution_analyses"), DropTable("decisions")>>

\* 0020_migration_plan_versions
CreateMigrationPlanVersions ==
    CreateTable("migration_plan_versions", {ID, <<"plan_id", "version">>},
                {"candidate_target_complete", "fingerprint_format", "proposal_object", "request_object", "reviews_array",
                 "source_content_hash_format", "status", "target_content_hash_format", "target_after_source",
                 "target_kind", "title_length", "version_positive"},
                {InProject("architecture_id", "architectures"), ToRevision("architecture_id", "source_revision_number"),
                 ToRevision("architecture_id", "target_revision_number")})
CreateGuard0020 == <<AddFunction("migration_plan_versions_guard")>> \o Guarded("migration_plan_versions", "guard", "migration_plan_versions_guard")
DropGuard0020 == Unguarded("migration_plan_versions", "guard") \o <<DropFunction("migration_plan_versions_guard")>>
Upgrade0020 ==
    <<CreateMigrationPlanVersions, AddIndex("migration_plan_versions", "ix_project_listing")>> \o CreateGuard0020
Downgrade0020 ==
    DropGuard0020
    \o <<DropIndex("migration_plan_versions", "ix_project_listing"),
      DropTable("migration_plan_versions")>>

\* 0021_discovery_runs
CreateDiscoveryRuns ==
    CreateTable("discovery_runs", {ID},
                {"error_when_failed", "result_when_completed", "fingerprint_format", "acceptances_array",
                 "decisions_array", "result_object", "source_type", "sources_fingerprint_format", "status",
                 "baseline_complete", "label_length", "result_size"},
                {ToRevision("baseline_architecture_id", "baseline_revision_number"),
                 InProject("baseline_architecture_id", "architectures"), ToProject})
CreateGuard0021 == <<AddFunction("discovery_runs_guard")>> \o Guarded("discovery_runs", "guard", "discovery_runs_guard")
DropGuard0021 == Unguarded("discovery_runs", "guard") \o <<DropFunction("discovery_runs_guard")>>
Upgrade0021 ==
    <<CreateDiscoveryRuns, AddIndex("discovery_runs", "ix_baseline"), AddIndex("discovery_runs", "ix_project_listing")>> \o CreateGuard0021
Downgrade0021 ==
    DropGuard0021
    \o <<DropIndex("discovery_runs", "ix_project_listing"),
      DropIndex("discovery_runs", "ix_baseline"), DropTable("discovery_runs")>>

\* 0022_drift_detection
CreateDriftIdentityMappings ==
    CreateTable("drift_identity_mappings", {ID}, {"baseline_id_length", "discovered_key_length", "note_length"},
                {InProject("architecture_id", "architectures")})
CreateDriftAnalyses ==
    CreateTable("drift_analyses", {ID, SCOPED},
                {"error_when_failed", "result_when_compared", "fingerprint_format", "request_object", "status",
                 "revision_positive", "result_size"},
                {ToRevision("architecture_id", "baseline_revision_number"),
                 InProject("architecture_id", "architectures"), InProject("discovery_run_id", "discovery_runs"),
                 ToProject})
CreateDriftItems ==
    CreateTable("drift_items", {ID, <<"architecture_id", "key">>},
                {"classification", "element", "artifacts_array", "history_array", "links_array", "key_format", "status",
                 "type"},
                {InProject("architecture_id", "architectures"), InProject("first_analysis_id", "drift_analyses"),
                 InProject("last_analysis_id", "drift_analyses")})
CreateGuards0022 ==
    Guards(<<"drift_analyses", "drift_identity_mappings">>)
    \o <<AddFunction("drift_items_guard")>> \o Guarded("drift_items", "guard", "drift_items_guard")
DropGuards0022 ==
    Unguarded("drift_items", "guard") \o <<DropFunction("drift_items_guard")>>
    \o Unguards(<<"drift_analyses", "drift_identity_mappings">>)
Upgrade0022 ==
    <<AddKey("discovery_runs", SCOPED), CreateDriftIdentityMappings,
      AddIndex("drift_identity_mappings", "ix_architecture"), CreateDriftAnalyses,
      AddIndex("drift_analyses", "ix_architecture"), AddIndex("drift_analyses", "ix_discovery_run"),
      AddIndex("drift_analyses", "ix_project_listing"), CreateDriftItems, AddIndex("drift_items", "ix_listing")>>
    \o CreateGuards0022
Downgrade0022 ==
    DropGuards0022
    \o <<DropIndex("drift_items", "ix_listing"), DropTable("drift_items"),
      DropIndex("drift_analyses", "ix_project_listing"), DropIndex("drift_analyses", "ix_discovery_run"),
      DropIndex("drift_analyses", "ix_architecture"), DropTable("drift_analyses"),
      DropIndex("drift_identity_mappings", "ix_architecture"), DropTable("drift_identity_mappings"),
      DropKey("discovery_runs", SCOPED)>>

Upgrades ==
    <<Upgrade0001, Upgrade0002, Upgrade0003, Upgrade0004, Upgrade0005, Upgrade0006, Upgrade0007, Upgrade0008, Upgrade0009,
      Upgrade0010, Upgrade0011, Upgrade0012, Upgrade0013, Upgrade0014, Upgrade0015, Upgrade0016, Upgrade0017, Upgrade0018,
      Upgrade0019, Upgrade0020, Upgrade0021, Upgrade0022>>
Downgrades ==
    <<Downgrade0001, Downgrade0002, Downgrade0003, Downgrade0004, Downgrade0005, Downgrade0006, Downgrade0007, Downgrade0008,
      Downgrade0009, Downgrade0010, Downgrade0011, Downgrade0012, Downgrade0013, Downgrade0014, Downgrade0015, Downgrade0016,
      Downgrade0017, Downgrade0018, Downgrade0019, Downgrade0020, Downgrade0021, Downgrade0022>>
Latest == Len(Upgrades)

-----------------------------------------------------------------------------
(* Running them.                                                            *)

Init == version = 0 /\ target = 0 /\ todo = <<>> /\ schema = NoSchema /\ saved = NoSchema

Idle == target = version

Begin(to, statements) ==
    /\ Idle
    /\ target' = to /\ todo' = statements /\ saved' = schema
    /\ UNCHANGED <<version, schema>>
Upgrade == version < Latest /\ Begin(version + 1, Upgrades[version + 1])
Downgrade == version > 0 /\ Begin(version - 1, Downgrades[version])

Execute ==
    /\ ~ Idle /\ todo # <<>> /\ Accepted(schema, Head(todo))
    /\ schema' = Executed(schema, Head(todo)) /\ todo' = Tail(todo)
    /\ UNCHANGED <<version, target, saved>>

\* The number of the revision is stored in the transaction of its statements.
Commit ==
    /\ ~ Idle /\ todo = <<>>
    /\ version' = target
    /\ UNCHANGED <<target, todo, schema, saved>>

Rollback_kept == ~ Idle /\ target' = version /\ todo' = <<>> /\ UNCHANGED <<version, schema, saved>>
Rollback ==
    /\ ~ Idle
    /\ target' = version /\ todo' = <<>> /\ schema' = saved
    /\ UNCHANGED <<version, saved>>

Next == Upgrade \/ Downgrade \/ Execute \/ Commit \/ Rollback
Spec == Init /\ [][Next]_vars

-----------------------------------------------------------------------------
(* What the repositories write: the columns of their UPDATEs, the tables of *)
(* their DELETEs, and the unique indexes whose violation they handle.  Every *)
(* update of a table with timestamps also sets updated_at (Timestamps).     *)

Updates(t, columns) == [table |-> t, columns |-> columns, delete |-> FALSE]
Deletes(t) == [table |-> t, columns |-> {}, delete |-> TRUE]

ArchitectureWrites ==
    {Updates("architectures", {"name", "description", "status", "archived_at", "deleted_at", "updated_by_user_id", "updated_at"}),
     Updates("architectures", {"current_revision", "updated_by_user_id", "updated_at"}),
     Updates("architecture_layouts", {"positions", "updated_by_user_id", "updated_at"})}
DecisionWrites ==
    {Updates("decisions", {"status", "chosen_option", "rationale", "decided_by_user_id", "decided_at", "superseded_by",
                           "resulting_revision_number", "resulting_content_hash", "linked_by_user_id", "linked_at", "updated_at"})}
\* A run that was accepted, or that an analysis of drift used, is not deleted.
DiscoveryWrites == {Updates("discovery_runs", {"decisions", "acceptances", "updated_at"}), Deletes("discovery_runs")}
DriftWrites ==
    {Updates("drift_items", {"type", "classification", "last_analysis_id", "status", "history", "links", "artifacts",
                             "updated_at"})}
PlanWrites_retitled == {Updates("migration_plan_versions", {"title", "status", "reviews", "updated_at"})}
PlanWrites == {Updates("migration_plan_versions", {"status", "reviews", "updated_at"})}
RequirementWrites ==
    {Updates("requirements", {"content", "current_version", "updated_at"}), Updates("requirements", {"deleted_at", "updated_at"})}
ProjectWrites ==
    {Updates("projects", {"name", "description", "status", "settings", "architecture_policy", "archived_at",
                          "deleted_at", "updated_at"})}
OrganizationWrites ==
    {Updates("organizations", {"name", "deleted_at", "updated_at"}), Updates("organization_members", {"role", "updated_at"}),
     Deletes("organization_members")}
InvitationWrites ==
    {Updates("invitations", {"revoked_at", "updated_at"}),
     Updates("invitations", {"accepted_at", "accepted_by_user_id", "updated_at"})}
SessionWrites ==
    {Updates("sessions", {"refresh_token_hash", "previous_refresh_token_hash", "refreshed_at", "last_used_at", "updated_at"}),
     Updates("sessions", {"revoked_at", "revoked_reason", "updated_at"})}
TokenWrites ==
    {Updates(t, {c}) : t \in {"email_verification_tokens", "password_reset_tokens"}, c \in {"revoked_at", "consumed_at"}}
UserWrites ==
    {Updates("users", {"email_verified_at", "updated_at"}), Updates("users", {"password_hash", "updated_at"}),
     Updates("users", {"name", "avatar_url", "updated_at"}),
     Updates("users", {"status", "deleted_at", "email", "name", "password_hash", "avatar_url", "email_verified_at", "updated_at"})}
Writes ==
    ArchitectureWrites \cup DecisionWrites \cup DiscoveryWrites \cup DriftWrites \cup PlanWrites
        \cup RequirementWrites \cup ProjectWrites \cup OrganizationWrites \cup InvitationWrites
        \cup SessionWrites \cup TokenWrites \cup UserWrites
Caught ==
    {<<"architectures", "uq_project_id_name_live">>, <<"projects", "uq_organization_id_slug_live">>,
     <<"requirements", "uq_origin_live">>, <<"users", "uq_email_lower">>}

\* What the function of a trigger lets through.
Reviewed0020 == {"status", "reviews", "updated_at"}
Reviewed0021 == {"decisions", "acceptances", "updated_at"}
Identity0022 ==
    {"id", "project_id", "architecture_id", "key", "element", "subject", "path", "first_analysis_id", "created_at"}
LetsThrough(f, w) ==
    CASE f = "migration_plan_versions_guard" -> ~ w.delete /\ w.columns \subseteq Reviewed0020
      [] f = "discovery_runs_guard"          -> w.delete \/ w.columns \subseteq Reviewed0021
      [] f = "drift_items_guard"             -> ~ w.delete /\ w.columns \cap Identity0022 = {}
      [] OTHER                               -> FALSE

-----------------------------------------------------------------------------
(* Properties.                                                              *)

\* The schema that each revision leaves, from the one of the revision before.
After(s, statements) == FoldLeft(Executed, s, statements)
Reached ==
    LET left[v \in 0 .. Latest] ==
            IF v = 0 THEN NoSchema ELSE CHOOSE s \in {After(before, Upgrades[v]) : before \in {left[v - 1]}} : TRUE
    IN [v \in 0 .. Latest |-> left[v]]

RepositoriesServed(s) ==
    /\ \A w \in Writes : \A g \in TriggersOn(s, w.table) : LetsThrough(g.function, w)
    /\ \A c \in Caught : c[2] \in s.tables[c[1]].indexes

\* The chain of revisions can be walked in both directions: the database
\* never refuses a statement for what the schema is, a revision that is
\* undone or breaks off leaves exactly the schema before it, and the last one
\* leaves the tables, keys, indexes, checks and foreign keys that the
\* application declares, guards that let everything through that the
\* repositories write, and the unique indexes that they expect.
MigrationsExact ==
    /\ todo # <<>> => Accepted(schema, Head(todo))
    /\ Idle => schema = Reached[version]
    /\ Idle /\ version = Latest => schema.tables = Declared /\ RepositoriesServed(schema)

\* The tables that refuse to be changed, and all they refer to.
Kept(s) == {g.table : g \in s.triggers}
Held(f) == f.ondelete \in {"RESTRICT", "NO ACTION"}
Parents(s, T) == {f.table : f \in UNION {s.tables[t].fks : t \in T}}
\* No chain of references is longer than there are tables.
Ancestors(s, T) == FoldSet(LAMBDA t, U : U \cup Parents(s, U), T, DOMAIN s.tables)

\* Deleting any row neither removes nor changes a row of the history, nor a
\* row that the history refers to at any distance.
HistoryHeld ==
    /\ \A t \in Kept(schema) : \A f \in schema.tables[t].fks : Held(f)
    /\ \A t \in Ancestors(schema, Kept(schema)) : \A f \in schema.tables[t].fks : f.ondelete # "CASCADE"

\* A row of one project never refers to a row of another: every reference
\* between tables that belong to projects carries the project, by itself or
\* through another reference that starts with the same column.
OfProjects(s) == {t \in DOMAIN s.tables : SCOPED \in s.tables[t].keys \/ \E f \in s.tables[t].fks : "project_id" \in ToSet(f.columns)}
TenantsSeparate ==
    \A t \in OfProjects(schema) : \A f \in schema.tables[t].fks :
        f.table \in OfProjects(schema) =>
            \E o \in schema.tables[t].fks \cup {Fk(SCOPED, t, SCOPED, "")} :
                "project_id" \in ToSet(o.columns) /\ ToSet(o.columns) \cap ToSet(f.columns) # {}

\* What the rows of the history and of other tenants are protected by, in
\* every schema that the database is ever in.
RowsProtected == HistoryHeld /\ TenantsSeparate
=============================================================================
