------------------------------ MODULE Database ------------------------------
(***************************************************************************)
(* The database under the application: the migrations bring it to the      *)
(* schema of the application (docs/security/authentication.md, Makefile),   *)
(* and then clients read lists while other transactions write.              *)
(***************************************************************************)
EXTENDS Migrations, Pages

\* Before anybody reads.
Unread ==
    /\ service = list_projects /\ asked \in Asked /\ asked.filter = "none" /\ asked.size = Max(Sizes)
    /\ walk = [state |-> "none", cursor |-> <<>>, by |-> service.query.order, shown |-> <<>>]
    /\ rows = {} /\ hidden = {} /\ due = {} /\ events = 0
Serving == ~ Going("none")

\* An empty database, or one that the migrations have brought to the last
\* revision and that the application serves from then on.
Migrated == version = Latest /\ target = Latest /\ todo = <<>> /\ schema = Reached[Latest] /\ saved = schema
DatabaseInit == (Init /\ Unread) \/ (Migrated /\ PagesInit)

Migrate == ~ Serving /\ Next /\ UNCHANGED pageVars

\* A query names tables of the schema.
Tables == {service.table, service.adds.table} \union service.adds.below
Page == Serving /\ Tables \subseteq DOMAIN schema.tables /\ PagesNext /\ UNCHANGED vars

DatabaseNext == Migrate \/ Page
DatabaseSpec == DatabaseInit /\ [][DatabaseNext]_<<vars, pageVars>>

-----------------------------------------------------------------------------
\* While revisions are applied and undone (the schema does not change
\* afterwards): every statement is accepted, every revision leaves exactly
\* its own schema, and no row of the history or of another tenant can be
\* deleted or referred to.
SchemaExact == ~ Serving => MigrationsExact /\ RowsProtected
==============================================================================
