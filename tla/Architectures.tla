--------------------------- MODULE Architectures ---------------------------
(***************************************************************************)
(* The architectures of one project: creation, metadata, lifecycle,        *)
(* content revisions and layout (ArchitectureService), next to the         *)
(* lifecycle of the project itself (ProjectService), as the transactions   *)
(* of concurrent requests.                                                 *)
(*                                                                         *)
(* A request runs one transaction.  Its steps are the statements after     *)
(* which another transaction can matter: getting the project lock, getting *)
(* or reading the architecture row, and the write.  The write, the audit   *)
(* entry and the commit are one step, because everything written is        *)
(* protected by a lock the request holds, or is a single statement, and    *)
(* uncommitted rows are invisible to others (READ COMMITTED).              *)
(*                                                                         *)
(* An IR is represented by the set of its node identifiers.                *)
(***************************************************************************)
EXTENDS ProjectRow, Naturals, Sequences

CONSTANTS ArchitectureIds, \* uuid7 values, used and not yet used
          Seeded,          \* the architectures that exist at the start
          Nodes,           \* node identifiers an IR may contain
          Names,           \* architecture names
          Operations,      \* the operations the requests of this instance use
          Nobody           \* no lock holder, no author

ContentOps   == {"add_node", "remove_nodes", "replace", "restore_revision"}
LifecycleOps == {"archive", "restore", "delete"}
RowLockOps   == ContentOps \cup LifecycleOps \cup {"update_metadata"}
ProjectSteps == {"project_archive", "project_restore", "project_delete"}
ProjectOps   == ProjectSteps \cup {"project_update"}
AllOps       == RowLockOps \cup ProjectOps \cup {"create", "save_layout"}

ASSUME ArchitecturesAssumption ==
    /\ Seeded \subseteq ArchitectureIds
    /\ Operations \subseteq AllOps
    /\ Nobody \notin Requests
    /\ Names # {} /\ ArchitectureIds # {}

VARIABLES arch,            \* the architectures table
          revisions,       \* the architecture_revisions table, by number
          layout,          \* the architecture_layouts table
          archLock,        \* who holds each architecture row FOR UPDATE
          req              \* the requests

archVars == <<arch, revisions, layout>>
vars == <<project, projectLock, arch, revisions, layout, archLock, req>>

ArchStatus == {"none", "active", "archived", "deleted"}
Row == [status : ArchStatus, current : Nat, name : Names]
Revision == [content : SUBSET Nodes, parent : Nat, restored_from : Nat,
             author : Requests \cup {Nobody}]
Layout == [stored : BOOLEAN, positions : SUBSET Nodes]
Stages == {"idle", "asked", "admitted", "locked", "checked", "done"}
Answers == {"none", "ok", "refused", "conflict", "failed"}
Request == [pc : Stages, op : AllOps \cup {"none"}, arch : ArchitectureIds,
            base : Nat, nodes : SUBSET Nodes, from : Nat, name : Names,
            row : Row, answer : Answers, made : Nat]

TypeOK ==
    /\ ProjectTypeOK
    /\ arch \in [ArchitectureIds -> Row]
    /\ revisions \in [ArchitectureIds -> Seq(Revision)]
    /\ layout \in [ArchitectureIds -> Layout]
    /\ archLock \in [ArchitectureIds -> Requests \cup {Nobody}]
    /\ req \in [Requests -> Request]

Live(row) == row.status \in {"active", "archived"}

(* The partial unique index on (project, name) of rows not deleted. *)
NamesUniqueIn(rows) ==
    \A a, b \in ArchitectureIds :
        a # b /\ Live(rows[a]) /\ Live(rows[b]) => rows[a].name # rows[b].name

AnyName == CHOOSE n \in Names : TRUE
NoRow == [status |-> "none", current |-> 0, name |-> AnyName]
AnyArchitecture == CHOOSE a \in ArchitectureIds : TRUE
NoRequest == [pc |-> "idle", op |-> "none", arch |-> AnyArchitecture, base |-> 0,
              nodes |-> {}, from |-> 0, name |-> AnyName, row |-> NoRow,
              answer |-> "none", made |-> 0]
FirstRevision(nodes, r) ==
    [content |-> nodes, parent |-> 0, restored_from |-> 0, author |-> r]

Init ==
    /\ ProjectInit
    /\ \E name \in [ArchitectureIds -> Names], ir \in [Seeded -> SUBSET Nodes],
          status \in [Seeded -> {"active", "archived"}] :
          /\ arch = [a \in ArchitectureIds |->
                       IF a \in Seeded
                       THEN [status |-> status[a], current |-> 1, name |-> name[a]]
                       ELSE NoRow]
          /\ revisions = [a \in ArchitectureIds |->
                            IF a \in Seeded THEN <<FirstRevision(ir[a], Nobody)>> ELSE <<>>]
    /\ NamesUniqueIn(arch)
    /\ layout = [a \in ArchitectureIds |-> [stored |-> FALSE, positions |-> {}]]
    /\ archLock = [a \in ArchitectureIds |-> Nobody]
    /\ req = [r \in Requests |-> NoRequest]

----------------------------------------------------------------------------
(* Transactions. *)

At(r, stage, ops) == req[r].pc = stage /\ req[r].op \in ops

(* COMMIT or ROLLBACK ends every lock the transaction holds. *)
ReleaseLocks_projectOnly(r) == Unlock(r) /\ UNCHANGED archLock
ReleaseLocks(r) ==
    /\ Unlock(r)
    /\ archLock' = [a \in ArchitectureIds |->
                      IF archLock[a] = r THEN Nobody ELSE archLock[a]]

(* The answer to a request that made a revision, with the number of it. *)
AnswerMade(r, made) ==
    /\ ReleaseLocks(r)
    /\ req' = [req EXCEPT ![r] = [@ EXCEPT !.pc = "done", !.row = NoRow,
                                           !.answer = "ok", !.made = made]]

(* Any other answer; the request's arguments are of no further interest. *)
Answer(r, answer) ==
    /\ ReleaseLocks(r)
    /\ req' = [req EXCEPT ![r] = [NoRequest EXCEPT !.pc = "done", !.answer = answer]]

(* A transaction that ends without having written. *)
Finish(r, answer) == Answer(r, answer) /\ UNCHANGED <<project, archVars>>

----------------------------------------------------------------------------
(* What clients ask for. *)

Targets(op) ==
    CASE op = "create"     -> {a \in ArchitectureIds :
                                 /\ arch[a].status = "none"
                                 /\ \A q \in Requests : req[q].op = "create" => req[q].arch # a}
      [] op \in ProjectOps -> {AnyArchitecture}
      [] OTHER             -> {a \in ArchitectureIds : arch[a].status # "none"}
BaseChoices(op, a) == IF op \in ContentOps THEN 1 .. arch[a].current ELSE {0}
FromChoices(op, a) == IF op = "restore_revision" THEN 1 .. arch[a].current + 1 ELSE {0}
NameChoices(op) == IF op \in {"create", "update_metadata"} THEN Names ELSE {AnyName}
NodeChoices(op) ==
    CASE op \in {"add_node", "remove_nodes"}          -> {{n} : n \in Nodes}
      [] op \in {"create", "replace", "save_layout"} -> SUBSET Nodes
      [] OTHER                                        -> {{}}

(* A client read the architecture at some point, so the base version it    *)
(* names is the current revision or an earlier one.                        *)
Ask(r) ==
    /\ req[r].pc = "idle"
    /\ \E op \in Operations : \E a \in Targets(op) :
         \E base \in BaseChoices(op, a), from \in FromChoices(op, a),
            name \in NameChoices(op), nodes \in NodeChoices(op) :
            req' = [req EXCEPT ![r] =
                      [@ EXCEPT !.pc = "asked", !.op = op, !.arch = a, !.base = base,
                                !.from = from, !.name = name, !.nodes = nodes]]
    /\ UNCHANGED <<project, projectLock, archVars, archLock>>

LockModeOf(op) == IF op \in ProjectOps THEN "exclusive" ELSE "share"

(* The states of the project row in which an operation may proceed: the    *)
(* lifecycle steps only need a project that is not deleted.                *)
ProjectAdmits(op) == IF op \in ProjectSteps THEN project # "deleted" ELSE Modifiable

(* get_for_member finds the row, the permission is held, and the project   *)
(* is modifiable.                                                          *)
Admit(r) ==
    /\ req[r].pc = "asked"
    /\ Lock(r, LockModeOf(req[r].op))
    /\ ProjectAdmits(req[r].op)
    /\ req' = [req EXCEPT ![r].pc = "admitted"]
    /\ UNCHANGED <<project, archVars, archLock>>

(* ProjectNotFound or ProjectArchived. *)
ProjectRefuses(r) ==
    /\ req[r].pc = "asked"
    /\ Compatible(r, LockModeOf(req[r].op))
    /\ ~ProjectAdmits(req[r].op)
    /\ Finish(r, "refused")

(* The caller is not a member of the organization, or its role lacks the   *)
(* permission: memberships change in transactions of their own, at any time. *)
Denied(r) == req[r].pc = "asked" /\ Finish(r, "refused")

----------------------------------------------------------------------------
(* The project's own operations, under FOR UPDATE of its row. *)

StepOf(op) == CASE op = "project_archive" -> "archive"
                [] op = "project_restore" -> "restore"
                [] op = "project_delete"  -> "delete"

ProjectStep(r) ==
    /\ At(r, "admitted", ProjectSteps)
    /\ StepAllowed(StepOf(req[r].op))
    /\ project' = StepTarget(StepOf(req[r].op))
    /\ Answer(r, "ok")
    /\ UNCHANGED archVars

ProjectStepRefused(r) ==
    /\ At(r, "admitted", ProjectSteps)
    /\ ~StepAllowed(StepOf(req[r].op))
    /\ Finish(r, "refused")

(* Name, settings and policy: nothing the architectures depend on. *)
ProjectUpdate(r) == At(r, "admitted", {"project_update"}) /\ Finish(r, "ok")

----------------------------------------------------------------------------
(* The architecture row. *)

LockArchitecture_withoutLock(r) ==
    LET a == req[r].arch IN
    /\ At(r, "admitted", RowLockOps)
    /\ Live(arch[a])
    /\ req' = [req EXCEPT ![r].pc = "locked", ![r].row = arch[a]]
    /\ UNCHANGED <<project, projectLock, archVars, archLock>>
LockArchitecture(r) ==
    LET a == req[r].arch IN
    /\ At(r, "admitted", RowLockOps)
    /\ archLock[a] = Nobody
    /\ Live(arch[a])
    /\ archLock' = [archLock EXCEPT ![a] = r]
    /\ req' = [req EXCEPT ![r].pc = "locked", ![r].row = arch[a]]
    /\ UNCHANGED <<project, projectLock, archVars>>

ArchitectureNotFound(r) ==
    /\ At(r, "admitted", RowLockOps)
    /\ archLock[req[r].arch] = Nobody
    /\ ~Live(arch[req[r].arch])
    /\ Finish(r, "refused")

(* repository.save: writes the whole record the service computed from the  *)
(* row it read, except the revision pointer; the unique index may refuse.  *)
Saved(a, row) == [arch EXCEPT ![a].status = row.status, ![a].name = row.name]

SaveRow(r, row) ==
    /\ NamesUniqueIn(Saved(req[r].arch, row))
    /\ arch' = Saved(req[r].arch, row)
    /\ Answer(r, "ok")
    /\ UNCHANGED <<project, revisions, layout>>

UpdateMetadata(r) ==
    /\ At(r, "locked", {"update_metadata"})
    /\ req[r].row.status = "active"
    /\ SaveRow(r, [req[r].row EXCEPT !.name = req[r].name])

UpdateMetadataRefused(r) ==
    /\ At(r, "locked", {"update_metadata"})
    /\ \/ req[r].row.status # "active"
       \/ ~NamesUniqueIn(Saved(req[r].arch, [req[r].row EXCEPT !.name = req[r].name]))
    /\ Finish(r, "refused")

(* Architecture.archive, restore and delete. *)
LifecycleAllowed(op, status) == op = "delete" => status = "archived"
LifecycleTarget(op) == CASE op = "archive" -> "archived"
                         [] op = "restore" -> "active"
                         [] op = "delete"  -> "deleted"

Lifecycle(r) ==
    /\ At(r, "locked", LifecycleOps)
    /\ LifecycleAllowed(req[r].op, req[r].row.status)
    /\ SaveRow(r, [req[r].row EXCEPT !.status = LifecycleTarget(req[r].op)])

LifecycleRefused(r) ==
    /\ At(r, "locked", LifecycleOps)
    /\ ~LifecycleAllowed(req[r].op, req[r].row.status)
    /\ Finish(r, "refused")

(* repository.add: the row and revision 1. *)
WithNew(r) == [arch EXCEPT ![req[r].arch] =
                 [status |-> "active", current |-> 1, name |-> req[r].name]]

Create(r) ==
    /\ At(r, "admitted", {"create"})
    /\ NamesUniqueIn(WithNew(r))
    /\ arch' = WithNew(r)
    /\ revisions' = [revisions EXCEPT ![req[r].arch] = <<FirstRevision(req[r].nodes, r)>>]
    /\ AnswerMade(r, 1)
    /\ UNCHANGED <<project, layout>>

(* ArchitectureNameTaken. *)
CreateRefused(r) ==
    /\ At(r, "admitted", {"create"})
    /\ ~NamesUniqueIn(WithNew(r))
    /\ Finish(r, "refused")

----------------------------------------------------------------------------
(* Content: _revise and the builders of edit, replace, restore_revision. *)

ParentContent(r) == revisions[req[r].arch][req[r].base].content

(* apply_commands: a command that does not fit the parent is refused. *)
Applies(r) ==
    CASE req[r].op = "add_node"     -> req[r].nodes \cap ParentContent(r) = {}
      [] req[r].op = "remove_nodes" -> req[r].nodes \subseteq ParentContent(r)
      [] OTHER                      -> TRUE

NewContent(r) ==
    CASE req[r].op = "add_node"         -> ParentContent(r) \cup req[r].nodes
      [] req[r].op = "remove_nodes"     -> ParentContent(r) \ req[r].nodes
      [] req[r].op = "replace"          -> req[r].nodes
      [] req[r].op = "restore_revision" -> revisions[req[r].arch][req[r].from].content

(* ensure_modifiable, then load (only restore_revision loads a source). *)
Loads(r) ==
    /\ req[r].row.status = "active"
    /\ req[r].op = "restore_revision" => req[r].from \in 1 .. Len(revisions[req[r].arch])

(* The base version is compared with the row read under the lock, and once *)
(* more by the guarded UPDATE that moves current_revision.                 *)
BaseIsCurrent_atLeast(r) ==
    req[r].row.current >= req[r].base /\ arch[req[r].arch].current >= req[r].base
BaseIsCurrent(r) ==
    req[r].row.current = req[r].base /\ arch[req[r].arch].current = req[r].base

Revise_evenUnchanged(r) ==
    LET a == req[r].arch IN
    /\ At(r, "locked", ContentOps)
    /\ Loads(r) /\ BaseIsCurrent(r) /\ Applies(r)
    /\ revisions' = [revisions EXCEPT ![a] = Append(@,
                       [content |-> NewContent(r), parent |-> req[r].base,
                        restored_from |-> req[r].from, author |-> r])]
    /\ arch' = [arch EXCEPT ![a].current = req[r].base + 1]
    /\ AnswerMade(r, req[r].base + 1)
    /\ UNCHANGED <<project, layout>>
Revise(r) ==
    LET a == req[r].arch IN
    /\ At(r, "locked", ContentOps)
    /\ Loads(r) /\ BaseIsCurrent(r) /\ Applies(r)
    /\ NewContent(r) # ParentContent(r)
    /\ revisions' = [revisions EXCEPT ![a] = Append(@,
                       [content |-> NewContent(r), parent |-> req[r].base,
                        restored_from |-> req[r].from, author |-> r])]
    /\ arch' = [arch EXCEPT ![a].current = req[r].base + 1]
    /\ AnswerMade(r, req[r].base + 1)
    /\ UNCHANGED <<project, layout>>

(* ArchitectureUnchanged: success without a revision. *)
ReviseUnchanged(r) ==
    /\ At(r, "locked", ContentOps)
    /\ Loads(r) /\ BaseIsCurrent(r) /\ Applies(r)
    /\ NewContent(r) = ParentContent(r)
    /\ Finish(r, "ok")

(* ArchitectureVersionConflict. *)
ReviseConflict(r) ==
    /\ At(r, "locked", ContentOps)
    /\ Loads(r) /\ ~BaseIsCurrent(r)
    /\ Finish(r, "conflict")

ReviseRefused(r) ==
    /\ At(r, "locked", ContentOps)
    /\ ~Loads(r) \/ (BaseIsCurrent(r) /\ ~Applies(r))
    /\ Finish(r, "refused")

(* _check_references: the content names a requirement or requirement set   *)
(* the project does not have.  Requirements are not part of this module.   *)
UnknownReference(r) ==
    /\ \/ At(r, "admitted", {"create"})
       \/ /\ At(r, "locked", ContentOps)
          /\ Loads(r) /\ BaseIsCurrent(r) /\ Applies(r)
          /\ NewContent(r) # ParentContent(r)
    /\ Finish(r, "refused")

----------------------------------------------------------------------------
(* Layout: the architecture row is read, not locked. *)

PositionsFit(r) ==
    LET a == req[r].arch IN
    /\ arch[a].status = "active"
    /\ req[r].nodes \subseteq revisions[a][arch[a].current].content

CheckLayout(r) ==
    /\ At(r, "admitted", {"save_layout"})
    /\ PositionsFit(r)
    /\ req' = [req EXCEPT ![r].pc = "checked", ![r].row = arch[req[r].arch]]
    /\ UNCHANGED <<project, projectLock, archVars, archLock>>

LayoutRefused(r) ==
    /\ At(r, "admitted", {"save_layout"})
    /\ ~PositionsFit(r)
    /\ Finish(r, "refused")

(* INSERT ... ON CONFLICT DO UPDATE.  The first insert checks its foreign  *)
(* key, which waits for whoever holds the architecture row FOR UPDATE.     *)
SaveLayout(r) ==
    LET a == req[r].arch IN
    /\ At(r, "checked", {"save_layout"})
    /\ layout[a].stored \/ archLock[a] = Nobody
    /\ layout' = [layout EXCEPT ![a] = [stored |-> TRUE, positions |-> req[r].nodes]]
    /\ Answer(r, "ok")
    /\ UNCHANGED <<project, arch, revisions>>

----------------------------------------------------------------------------
(* Any transaction may fail before it commits: a lost connection, a        *)
(* cancelled request, a stopped process.  Nothing of it remains.           *)
Abort(r) == req[r].pc \notin {"idle", "done"} /\ Finish(r, "failed")

Step(r) ==
    \/ Admit(r) \/ ProjectRefuses(r) \/ Denied(r)
    \/ ProjectStep(r) \/ ProjectStepRefused(r) \/ ProjectUpdate(r)
    \/ LockArchitecture(r) \/ ArchitectureNotFound(r)
    \/ UpdateMetadata(r) \/ UpdateMetadataRefused(r)
    \/ Lifecycle(r) \/ LifecycleRefused(r)
    \/ Create(r) \/ CreateRefused(r)
    \/ Revise(r) \/ ReviseUnchanged(r) \/ ReviseConflict(r) \/ ReviseRefused(r)
    \/ UnknownReference(r)
    \/ CheckLayout(r) \/ LayoutRefused(r) \/ SaveLayout(r)

(* Nothing is left to do: a finite set of requests has been answered. *)
Quiescent == (\A r \in Requests : req[r].pc = "done") /\ UNCHANGED vars

Next == (\E r \in Requests : Ask(r) \/ Step(r) \/ Abort(r)) \/ Quiescent

Spec == Init /\ [][Next]_vars

(* A request in progress is not abandoned by the server: the event loop    *)
(* resumes it whenever the statement it waits for can complete.            *)
FairSpec == Spec /\ \A r \in Requests : WF_vars(Step(r))

----------------------------------------------------------------------------
(* The history of an architecture is what its content operations built:    *)
(* the row's current_revision points at the last revision, every revision  *)
(* has the previous one as its parent, a restored one has the content of   *)
(* the earlier one it names, and no two consecutive ones are equal.        *)
HistoryIntact ==
    \A a \in ArchitectureIds :
        /\ arch[a].current = Len(revisions[a])
        /\ \A n \in 1 .. Len(revisions[a]) :
             LET rev == revisions[a][n] IN
             /\ rev.parent = n - 1
             /\ n > 1 => rev.content # revisions[a][n - 1].content
             /\ rev.restored_from > 0 =>
                  /\ rev.restored_from < n
                  /\ rev.content = revisions[a][rev.restored_from].content

(* No lost update and no phantom one: a request answered with a new        *)
(* revision owns exactly the revision after its base version, an edit's    *)
(* content is its command applied to that base, and every revision belongs *)
(* to such a request; one that conflicted, was refused or died left none.  *)
AnsweredRevisions ==
    /\ \A r \in Requests : req[r].made > 0 =>
         LET revs == revisions[req[r].arch] IN
         /\ req[r].answer = "ok"
         /\ req[r].made = req[r].base + 1
         /\ req[r].made <= Len(revs)
         /\ revs[req[r].made].author = r
         /\ req[r].op = "add_node" =>
              revs[req[r].made].content = revs[req[r].base].content \cup req[r].nodes
         /\ req[r].op = "remove_nodes" =>
              revs[req[r].made].content = revs[req[r].base].content \ req[r].nodes
         /\ req[r].op \in {"create", "replace"} => revs[req[r].made].content = req[r].nodes
    /\ \A a \in ArchitectureIds : \A n \in 1 .. Len(revisions[a]) :
         LET r == revisions[a][n].author IN
         r # Nobody => req[r].arch = a /\ req[r].made = n

(* Every architecture is a revision log: whatever locks, statements, other *)
(* operations and failures come between, a content operation or a creation *)
(* in progress either appends the revision after its base or leaves none.  *)
Writing == {r \in Requests : req[r].op \in ContentOps \cup {"create"}}
WriteOf(r) == [writer |-> r, doc |-> req[r].arch, base |-> req[r].base]
Log == INSTANCE RevisionLog WITH
    Writers <- Requests, Documents <- ArchitectureIds,
    log <- [a \in ArchitectureIds |->
              [n \in 1 .. Len(revisions[a]) |-> revisions[a][n].author]],
    asks <- {WriteOf(r) : r \in {q \in Writing : req[q].pc # "done"}},
    wins <- {WriteOf(r) : r \in {q \in Writing : req[q].pc = "done"}}

ImplementsRevisionLog == Log!Spec

(* Archiving freezes the whole project: no architecture, revision or       *)
(* layout changes while the project is archived or deleted, whatever was   *)
(* in flight when it was archived.                                         *)
ProjectFreezes == [][archVars' # archVars => Modifiable]_vars

(* An archived architecture keeps its name and its content until it is     *)
(* restored, and a deleted one keeps them for ever.                        *)
ArchiveFreezes ==
    [][\A a \in ArchitectureIds : arch[a].status \in {"archived", "deleted"} =>
          /\ revisions'[a] = revisions[a]
          /\ arch'[a].name = arch[a].name
          /\ arch[a].status = "deleted" => arch'[a] = arch[a]]_vars

(* Every request is answered: the row locks cannot deadlock. *)
EveryRequestAnswered ==
    \A r \in Requests : req[r].pc = "asked" ~> req[r].pc = "done"

=============================================================================
