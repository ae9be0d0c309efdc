---------------------------- MODULE MigrationPlans ----------------------------
(***************************************************************************)
(* The migration plans of one architecture (MigrationPlanService): create  *)
(* and regenerate in their transactions, and the review of an exact        *)
(* version - submit, approve, reject, archive.                             *)
(*                                                                         *)
(* A plan is computed between two transactions and stored in a third one,  *)
(* which authorizes again under the shared project lock.  The version row  *)
(* is locked with SELECT ... ORDER BY version DESC LIMIT 1 FOR UPDATE: the *)
(* row is selected first, and read again if it had to be waited for.  The  *)
(* architecture is read without a lock.                                    *)
(*                                                                         *)
(* The planner is a function of the request and of what it plans with      *)
(* (models), so a proposal is that pair; revisions are immutable.          *)
(***************************************************************************)
EXTENDS ArchitectureHead, Sequences

CONSTANTS PlanIds,         \* uuid7 values, used and not yet used
          MaxVersions,     \* a plan with so many versions is not regenerated again
          MaxModels,       \* bound on deployments of the planner
          NoPlan

MigrationPlansConstants ==
    /\ NoPlan \notin PlanIds
    /\ MaxVersions \in Nat \ {0} /\ MaxModels \in Nat \ {0}

VARIABLES models,          \* the versions of the planner and its patterns
          versions,        \* the migration_plan_versions table, by plan and version
          rowLock,         \* the version row each request holds FOR UPDATE
          ask              \* the requests

tables == <<models, versions>>
vars == <<headVars, models, versions, rowLock, ask>>

PlanStatus == {"draft", "needs_information", "ready_for_review", "approved", "rejected",
               "superseded", "archived"}
TRANSITIONS ==
    [s \in PlanStatus |->
        CASE s = "draft"             -> {"ready_for_review", "superseded", "archived"}
          [] s = "needs_information" -> {"superseded", "archived"}
          [] s = "ready_for_review"  -> {"approved", "rejected", "superseded"}
          [] s = "approved"          -> {"superseded", "archived"}
          [] s = "rejected"          -> {"superseded", "archived"}
          [] s = "superseded"        -> {"archived"}
          [] s = "archived"          -> {}]
UNDER_REVIEW == {"ready_for_review", "approved"}
EXACT == {"approved", "rejected"}

(* A MigrationRequest: source revision, target revision (0: a candidate on *)
(* the source revision), and whether it states all the planner needs.      *)
Wish == {w \in [source : 1 .. MaxRevision, target : 0 .. MaxRevision, informed : BOOLEAN] :
           w.target = 0 \/ w.target > w.source}
Proposal == [wish : Wish, models : 1 .. MaxModels]
Event == [from : PlanStatus, to : PlanStatus, exact : BOOLEAN, print : Proposal]
Version == [proposal : Proposal, status : PlanStatus, reviews : Seq(Event)]

ReviewOps == {"submit", "approve", "reject", "archive"}
PlanningOps == {"create", "regenerate"}
Stages == {"idle", "asked", "recalled", "gathered", "planned", "admitted", "writable",
           "selected", "locked", "judged", "done"}
NoRow == <<>>
AnyWish == [source |-> 1, target |-> 0, informed |-> TRUE]
AnyProposal == [wish |-> AnyWish, models |-> 1]
Request == [pc : Stages, op : ReviewOps \cup PlanningOps \cup {"none"},
            plan : PlanIds \cup {NoPlan}, version : Nat, wish : Wish, revised : BOOLEAN,
            replace : BOOLEAN, print : Proposal, row : Version]

TypeOK ==
    /\ HeadTypeOK
    /\ models \in 1 .. MaxModels
    /\ versions \in [PlanIds -> Seq(Version)]
    /\ rowLock \in [Requests -> PlanIds \X (Nat \ {0}) \cup {NoRow}]
    /\ ask \in [Requests -> Request]

(* MigrationProposal.status. *)
StatusOf(proposal) == IF proposal.wish.informed THEN "draft" ELSE "needs_information"
Fresh(proposal) == [proposal |-> proposal, status |-> StatusOf(proposal), reviews |-> <<>>]
NoRequest == [pc |-> "idle", op |-> "none", plan |-> NoPlan, version |-> 0, wish |-> AnyWish,
              revised |-> FALSE, replace |-> FALSE, print |-> AnyProposal,
              row |-> Fresh(AnyProposal)]

(* MigrationPlanVersion.move. *)
Moved(version, to, print) ==
    [version EXCEPT !.status = to,
       !.reviews = Append(@, [from |-> version.status, to |-> to, exact |-> to \in EXACT,
                              print |-> IF to \in EXACT THEN print ELSE AnyProposal])]

(* The plans made before have a version, perhaps submitted already or in   *)
(* place of an earlier one.                                                *)
First(informed) == Fresh([wish |-> [AnyWish EXCEPT !.informed = informed], models |-> 1])
Submitted == Moved(First(TRUE), "ready_for_review", AnyProposal)
Starts ==
    [PlanIds -> {<<>>, <<First(TRUE)>>, <<First(FALSE)>>, <<Submitted>>,
                 <<Moved(First(FALSE), "superseded", AnyProposal), Submitted>>}]

Init ==
    /\ HeadInit
    /\ models = 1
    /\ versions \in Starts
    /\ rowLock = [r \in Requests |-> NoRow]
    /\ ask = [r \in Requests |-> NoRequest]

----------------------------------------------------------------------------

At(r, stage, ops) == ask[r].pc = stage /\ ask[r].op \in ops

Goto(r, stage) ==
    /\ ask' = [ask EXCEPT ![r].pc = stage]
    /\ UNCHANGED <<headVars, tables, rowLock>>

ReleaseRows(r) == rowLock' = [rowLock EXCEPT ![r] = NoRow]

Answer(r) ==
    /\ Unlock(r) /\ ReleaseRows(r)
    /\ ask' = [ask EXCEPT ![r] = [NoRequest EXCEPT !.pc = "done"]]
    /\ UNCHANGED <<project, head, headLock>>

Refuse(r) == Answer(r) /\ UNCHANGED tables

Asked(r, request) ==
    /\ ask' = [ask EXCEPT ![r] = [request EXCEPT !.pc = "asked"]]
    /\ UNCHANGED <<headVars, tables, rowLock>>

(* A reviewer names a version and the proposal it read, perhaps of another *)
(* version; a planner names a plan and, if it revises it, a new request.   *)
Ask(r) ==
    /\ ask[r].pc = "idle"
    /\ \/ \E p \in PlanIds, w \in Wish :
            /\ versions[p] = <<>> /\ \A q \in Requests : ask[q].op = "create" => ask[q].plan # p
            /\ Asked(r, [NoRequest EXCEPT !.op = "create", !.plan = p, !.wish = w])
       \/ \E p \in PlanIds, replace, revised \in BOOLEAN :
            \E w \in IF revised THEN Wish ELSE {AnyWish} :
               /\ Len(versions[p]) \in 1 .. MaxVersions - 1
               /\ Asked(r, [NoRequest EXCEPT !.op = "regenerate", !.plan = p, !.wish = w,
                              !.replace = replace, !.revised = revised])
       \/ \E p \in PlanIds, op \in ReviewOps : \E v \in 1 .. Len(versions[p]) :
            \E print \in IF op \in {"approve", "reject"}
                         THEN {versions[p][k].proposal : k \in 1 .. Len(versions[p])}
                         ELSE {AnyProposal} :
               Asked(r, [NoRequest EXCEPT !.op = op, !.plan = p, !.version = v, !.print = print])

(* What the caller is refused: no permission, no such project, a request   *)
(* the planner refuses, a lost permission when it stores.                  *)
Denied(r) == ask[r].pc \in {"asked", "recalled", "gathered", "planned"} /\ Refuse(r)

(* The planner deployed with other models: the process plans and judges    *)
(* freshness with the versions it has.                                     *)
Deploy ==
    /\ models < MaxModels
    /\ models' = models + 1
    /\ UNCHANGED <<headVars, versions, rowLock, ask>>

----------------------------------------------------------------------------
(* Planning. *)

(* regenerate reads the latest version's request in a transaction of its   *)
(* own; _version finds nothing under a deleted architecture.               *)
Recall(r) ==
    /\ At(r, "asked", {"regenerate"})
    /\ project # "deleted" /\ HeadFound
    /\ LET p == ask[r].plan IN
       ask' = [ask EXCEPT ![r].pc = "recalled",
                 ![r].wish = IF ask[r].revised THEN @ ELSE versions[p][Len(versions[p])].proposal.wish]
    /\ UNCHANGED <<headVars, tables, rowLock>>

(* _inputs: the revisions exist, the architecture is modifiable. *)
Gather(r) ==
    /\ At(r, "asked", {"create"}) \/ At(r, "recalled", {"regenerate"})
    /\ project # "deleted" /\ HeadModifiable
    /\ ask[r].wish.source <= head.current /\ ask[r].wish.target <= head.current
    /\ Goto(r, "gathered")

NothingToPlan(r) ==
    /\ At(r, "asked", PlanningOps) \/ At(r, "recalled", {"regenerate"})
    /\ \/ project = "deleted" \/ ~HeadModifiable
       \/ ask[r].wish.source > head.current \/ ask[r].wish.target > head.current
    /\ Refuse(r)

(* planner.plan, on a worker thread. *)
Plan(r) ==
    /\ At(r, "gathered", PlanningOps)
    /\ ask' = [ask EXCEPT ![r].pc = "planned", ![r].print = [wish |-> ask[r].wish, models |-> models]]
    /\ UNCHANGED <<headVars, tables, rowLock>>

(* project_access with ProjectLock.SHARE, of storing and of reviewing. *)
Admit(r) ==
    /\ At(r, "planned", PlanningOps) \/ At(r, "asked", ReviewOps)
    /\ Lock(r, "share") /\ Modifiable
    /\ ask' = [ask EXCEPT ![r].pc = "admitted"]
    /\ UNCHANGED <<project, head, headLock, tables, rowLock>>

Writable(r) == At(r, "admitted", PlanningOps) /\ HeadModifiable /\ Goto(r, "writable")

(* The architecture was archived or deleted since the request read it. *)
Unwritable(r) ==
    /\ \/ At(r, "admitted", PlanningOps) /\ ~HeadModifiable
       \/ At(r, "selected", {"regenerate"} \cup ReviewOps) /\ ~HeadFound
       \/ At(r, "locked", ReviewOps) /\ ~HeadModifiable
    /\ Refuse(r)

Store(r) ==
    /\ At(r, "writable", {"create"})
    /\ versions' = [versions EXCEPT ![ask[r].plan] = <<Fresh(ask[r].print)>>]
    /\ Answer(r)
    /\ UNCHANGED models

----------------------------------------------------------------------------
(* The version row. *)

(* The row a FOR UPDATE statement selects, before it waits for its lock.   *)
Select(r) ==
    /\ At(r, "writable", {"regenerate"}) \/ At(r, "admitted", ReviewOps)
    /\ ask' = [ask EXCEPT ![r].pc = "selected",
                 ![r].version = IF ask[r].op = "regenerate" THEN Len(versions[ask[r].plan]) ELSE @]
    /\ UNCHANGED <<headVars, tables, rowLock>>

LockVersion_notHeld(r) ==
    LET row == <<ask[r].plan, ask[r].version>> IN
    /\ At(r, "selected", {"regenerate"} \cup ReviewOps)
    /\ HeadFound
    /\ ask' = [ask EXCEPT ![r].pc = "locked", ![r].row = versions[row[1]][row[2]]]
    /\ UNCHANGED <<headVars, tables, rowLock>>
LockVersion(r) ==
    LET row == <<ask[r].plan, ask[r].version>> IN
    /\ At(r, "selected", {"regenerate"} \cup ReviewOps)
    /\ \A q \in Requests : rowLock[q] # row
    /\ HeadFound
    /\ rowLock' = [rowLock EXCEPT ![r] = row]
    /\ ask' = [ask EXCEPT ![r].pc = "locked", ![r].row = versions[row[1]][row[2]]]
    /\ UNCHANGED <<headVars, tables>>

Identical(r) == ask[r].print = ask[r].row.proposal
Replaceable_always(r) == "superseded" \in TRANSITIONS[ask[r].row.status]
Replaceable(r) ==
    /\ "superseded" \in TRANSITIONS[ask[r].row.status]
    /\ ask[r].row.status \in UNDER_REVIEW => ask[r].replace

(* The (plan, version) pair is unique: the new version takes a free number. *)
Regenerate(r) ==
    LET p == ask[r].plan IN
    /\ At(r, "locked", {"regenerate"})
    /\ ~Identical(r) /\ Replaceable(r)
    /\ Len(versions[p]) = ask[r].version
    /\ versions' = [versions EXCEPT ![p] =
                      Append([@ EXCEPT ![ask[r].version] = Moved(ask[r].row, "superseded", AnyProposal)],
                             Fresh(ask[r].print))]
    /\ Answer(r)
    /\ UNCHANGED models

RegenerateSame(r) ==
    /\ At(r, "locked", {"regenerate"})
    /\ Identical(r)
    /\ Answer(r) /\ UNCHANGED tables

RegenerateRefused(r) ==
    /\ At(r, "locked", {"regenerate"})
    /\ ~Identical(r) /\ ~Replaceable(r)
    /\ Refuse(r)

----------------------------------------------------------------------------
(* Review. *)

Reached(wish) == IF wish.target = 0 THEN wish.source ELSE wish.target

(* freshness: source and target are immutable and cited analyses are never *)
(* removed, so a newer revision and other models are what makes it stale.  *)
Stale(proposal) ==
    \/ head.current > Reached(proposal.wish)
    \/ models # proposal.models

VerdictOf(op) == CASE op = "submit"  -> "ready_for_review"
                   [] op = "approve" -> "approved"
                   [] op = "reject"  -> "rejected"
                   [] op = "archive" -> "archived"

Allowed_anyProposal(r) ==
    LET to == VerdictOf(ask[r].op) IN
    /\ ask[r].op \in {"submit", "approve"} => ~Stale(ask[r].row.proposal)
    /\ to \in TRANSITIONS[ask[r].row.status]
Allowed(r) ==
    LET to == VerdictOf(ask[r].op) IN
    /\ to \in EXACT => ask[r].print = ask[r].row.proposal
    /\ ask[r].op \in {"submit", "approve"} => ~Stale(ask[r].row.proposal)
    /\ to \in TRANSITIONS[ask[r].row.status]

(* ensure_modifiable, _current and the lifecycle, on an architecture that  *)
(* is not locked.                                                          *)
Judge(r) ==
    /\ At(r, "locked", ReviewOps)
    /\ HeadModifiable /\ Allowed(r)
    /\ Goto(r, "judged")

JudgeRefused(r) ==
    /\ At(r, "locked", ReviewOps)
    /\ HeadModifiable /\ ~Allowed(r)
    /\ Refuse(r)

(* update_review. *)
Review(r) ==
    /\ At(r, "judged", ReviewOps)
    /\ versions' = [versions EXCEPT ![ask[r].plan][ask[r].version] =
                      Moved(ask[r].row, VerdictOf(ask[r].op), ask[r].print)]
    /\ Answer(r)
    /\ UNCHANGED models

----------------------------------------------------------------------------

Step(r) == \/ Recall(r) \/ Gather(r) \/ NothingToPlan(r) \/ Plan(r) \/ Denied(r)
           \/ Admit(r) \/ Writable(r) \/ Unwritable(r) \/ Store(r)
           \/ Select(r) \/ LockVersion(r)
           \/ Regenerate(r) \/ RegenerateSame(r) \/ RegenerateRefused(r)
           \/ Judge(r) \/ JudgeRefused(r) \/ Review(r)

Work == (\E r \in Requests : Ask(r) \/ Step(r)) \/ Deploy

Next == \/ Work
        \/ HeadStep /\ UNCHANGED <<tables, rowLock, ask>>

Spec == Init /\ [][Next]_vars /\ \A r \in Requests : WF_vars(Step(r))

----------------------------------------------------------------------------
(* Properties. *)

(* A plan has one version that is not superseded by a later one, its last: *)
(* concurrent regenerations never leave two versions to review, nor none.  *)
OneCurrentVersion ==
    \A p \in PlanIds : \A v \in 1 .. Len(versions[p]) :
        (\E k \in 1 .. Len(versions[p][v].reviews) : versions[p][v].reviews[k].to = "superseded")
          <=> v < Len(versions[p])

(* The review history of a version is the path its status took, and every  *)
(* verdict in it names the proposal of that very version.                  *)
ReviewsTellStatus ==
    \A p \in PlanIds : \A v \in 1 .. Len(versions[p]) :
        LET version == versions[p][v]
            n == Len(version.reviews)
            After(k) == IF k = 0 THEN StatusOf(version.proposal) ELSE version.reviews[k].to
        IN /\ After(n) = version.status
           /\ \A k \in 1 .. n : /\ version.reviews[k].from = After(k - 1)
                                /\ version.reviews[k].exact => version.reviews[k].print = version.proposal

(* A stored version keeps its content and its recorded reviews: nothing a  *)
(* person approved or rejected is overwritten by a request that raced it.  *)
ReviewsKept ==
    [][\A p \in PlanIds : \A v \in 1 .. Len(versions[p]) :
         /\ v <= Len(versions'[p])
         /\ versions'[p][v].proposal = versions[p][v].proposal
         /\ SubSeq(versions'[p][v].reviews, 1, Len(versions[p][v].reviews)) = versions[p][v].reviews]_vars

(* A version under review or approved, as it is at that moment, is only    *)
(* superseded by a regeneration that asked to replace reviewed versions.   *)
NeverReplacedSilently ==
    [][\A p \in PlanIds : \A v \in 1 .. Len(versions[p]) :
         versions[p][v].status \in UNDER_REVIEW /\ versions'[p][v].status = "superseded" =>
            \E r \in Requests : ask[r].pc = "locked" /\ ask'[r].pc = "done"
                                /\ ask[r].plan = p /\ ask[r].replace]_vars

=============================================================================
