---------------------------- MODULE Requirements ----------------------------
(***************************************************************************)
(* The requirements of one project: creation, promotion of analysed        *)
(* candidates, versions, deletion, and the requirement sets that pin them  *)
(* (RequirementService, RequirementAnalysisService.promote,                *)
(* RequirementSetService), next to the lifecycle of the project.           *)
(*                                                                         *)
(* A request runs one transaction, in steps as in Architectures.  What a   *)
(* requirement says, apart from its status, is one value of Contents;      *)
(* whether a content is well formed, and whether the requirements of a set *)
(* contradict each other, is decided by pure functions that may refuse any *)
(* request without effect.                                                 *)
(***************************************************************************)
EXTENDS ProjectRow, Naturals, Sequences, FiniteSets

CONSTANTS RequirementIds,  \* uuid7 values, used and not yet used
          Seeded,          \* the requirements that exist at the start
          Contents,        \* what a requirement can say
          Candidates,      \* the candidates of the project's analyses
          Operations,      \* the operations of this instance
          Nobody           \* no lock holder, no origin

RowOps       == {"update", "delete"}
AddOps       == {"create", "promote"}
ProjectSteps == {"project_archive", "project_restore", "project_delete"}
AllOps       == RowOps \cup AddOps \cup ProjectSteps \cup {"create_set"}

Status == {"draft", "active", "satisfied", "invalid", "deprecated"}

ASSUME RequirementsAssumption ==
    /\ Seeded \subseteq RequirementIds
    /\ Operations \subseteq AllOps
    /\ Nobody \notin Requests \cup Candidates
    /\ Contents # {} /\ RequirementIds # {}
    /\ IsFiniteSet(RequirementIds) /\ IsFiniteSet(Candidates)

VARIABLES requirement,     \* the requirements table
          versions,        \* the requirement_versions table
          sets,            \* the requirement_sets table, by number
          rowLock,         \* who holds each requirement row FOR UPDATE
          req              \* the requests

tables == <<requirement, versions, sets>>
vars == <<project, projectLock, requirement, versions, sets, rowLock, req>>

State == [status : Status, content : Contents]
Row == [exists : BOOLEAN, deleted : BOOLEAN, number : Nat, version : Nat, state : State,
        origin : Candidates \cup {Nobody}]
Stages == {"idle", "asked", "admitted", "numbered", "locked", "selected", "done"}
Answers == {"none", "ok", "refused", "conflict", "collision", "failed"}
(* A set maps every requirement to the version it pins, 0 for none. *)
Pins == [RequirementIds -> Nat]
Request == [pc : Stages, op : AllOps \cup {"none"}, id : RequirementIds, expected : Nat,
            state : State, keys : SUBSET Candidates, chosen : SUBSET RequirementIds,
            number : Nat, row : Row, pins : Pins, answer : Answers]

TypeOK ==
    /\ ProjectTypeOK
    /\ requirement \in [RequirementIds -> Row]
    /\ versions \in [RequirementIds -> Seq(State)]
    /\ sets \in Seq(Pins)
    /\ rowLock \in [RequirementIds -> Requests \cup {Nobody}]
    /\ req \in [Requests -> Request]

AnyContent == CHOOSE c \in Contents : TRUE
AnyId == CHOOSE i \in RequirementIds : TRUE
Draft(c) == [status |-> "draft", content |-> c]
NoRow == [exists |-> FALSE, deleted |-> FALSE, number |-> 0, version |-> 0,
          state |-> Draft(AnyContent), origin |-> Nobody]
NewRow(number, state, origin) ==
    [exists |-> TRUE, deleted |-> FALSE, number |-> number, version |-> 1,
     state |-> state, origin |-> origin]
NoPins == [i \in RequirementIds |-> 0]
NoRequest == [pc |-> "idle", op |-> "none", id |-> AnyId, expected |-> 0,
              state |-> Draft(AnyContent), keys |-> {}, chosen |-> {}, number |-> 0,
              row |-> NoRow, pins |-> NoPins, answer |-> "none"]

Live(i) == requirement[i].exists /\ ~requirement[i].deleted
InForce == {"active", "satisfied"}

Init ==
    /\ ProjectInit
    /\ \E number \in [Seeded -> 1 .. Cardinality(Seeded)], state \in [Seeded -> State] :
         /\ \A i, j \in Seeded : i # j => number[i] # number[j]
         /\ \A i \in Seeded : state[i].status \in {"draft", "active"} /\ state[i].content = AnyContent
         /\ requirement = [i \in RequirementIds |->
                             IF i \in Seeded THEN NewRow(number[i], state[i], Nobody) ELSE NoRow]
         /\ versions = [i \in RequirementIds |-> IF i \in Seeded THEN <<state[i]>> ELSE <<>>]
    /\ sets = <<>>
    /\ rowLock = [i \in RequirementIds |-> Nobody]
    /\ req = [r \in Requests |-> NoRequest]

----------------------------------------------------------------------------
(* Transactions. *)

At(r, stage, ops) == req[r].pc = stage /\ req[r].op \in ops

ReleaseLocks_projectOnly(r) == Unlock(r) /\ UNCHANGED rowLock
ReleaseLocks(r) ==
    /\ Unlock(r)
    /\ rowLock' = [i \in RequirementIds |-> IF rowLock[i] = r THEN Nobody ELSE rowLock[i]]

(* A done update keeps what it asked for. *)
Answer(r, answer) ==
    /\ ReleaseLocks(r)
    /\ req' = [req EXCEPT ![r] =
         IF @.op = "update" /\ answer = "ok"
         THEN [NoRequest EXCEPT !.pc = "done", !.answer = answer, !.op = "update", !.id = req[r].id,
                                !.expected = req[r].expected, !.state = req[r].state]
         ELSE [NoRequest EXCEPT !.pc = "done", !.answer = answer]]

Finish(r, answer) == Answer(r, answer) /\ UNCHANGED <<project, tables>>

----------------------------------------------------------------------------
(* What clients ask for. *)

Asked(r, op, i, expected, state, keys, chosen) ==
    /\ req' = [req EXCEPT ![r] = [@ EXCEPT !.pc = "asked", !.op = op, !.id = i,
                 !.expected = expected, !.state = state, !.keys = keys, !.chosen = chosen]]
    /\ UNCHANGED <<project, projectLock, tables, rowLock>>

(* In a finite instance: identifiers for what the requests in flight add. *)
Fresh == {i \in RequirementIds : ~requirement[i].exists}
Claimed == Cardinality({q \in Requests : req[q].op = "create"})
             + Cardinality({c \in Requests \X Candidates : c[2] \in req[c[1]].keys})

(* A client read the requirement, so it expects its version or an earlier  *)
(* one; a person's own requirement may start active, others are drafts.    *)
Ask(r) ==
    /\ req[r].pc = "idle"
    /\ \E op \in Operations :
         \/ /\ op = "update"
            /\ \E i \in RequirementIds : \E expected \in 1 .. requirement[i].version, state \in State :
                 Asked(r, op, i, expected, state, {}, {})
         \/ /\ op = "delete"
            /\ \E i \in RequirementIds :
                 requirement[i].exists /\ Asked(r, op, i, 0, Draft(AnyContent), {}, {})
         \/ /\ op = "create" /\ Claimed < Cardinality(Fresh)
            /\ \E status \in {"draft", "active"} :
                 Asked(r, op, AnyId, 0, [status |-> status, content |-> AnyContent], {}, {})
         \/ /\ op = "promote"
            /\ \E keys \in SUBSET Candidates :
                 /\ keys # {} /\ Claimed + Cardinality(keys) <= Cardinality(Fresh)
                 /\ Asked(r, op, AnyId, 0, Draft(AnyContent), keys, {})
         \/ /\ op = "create_set"
            /\ \E chosen \in SUBSET {i \in RequirementIds : requirement[i].exists} :
                 Asked(r, op, AnyId, 0, Draft(AnyContent), {}, chosen)
         \/ /\ op \in ProjectSteps
            /\ Asked(r, op, AnyId, 0, Draft(AnyContent), {}, {})

(* Adding a requirement or a set excludes every other write. *)
LockModeOf_sharedSets(op) ==
    IF op \in RowOps \cup {"create_set"} THEN "share" ELSE "exclusive"
LockModeOf(op) == IF op \in RowOps THEN "share" ELSE "exclusive"

ProjectAdmits(op) == IF op \in ProjectSteps THEN project # "deleted" ELSE Modifiable

Admit(r) ==
    /\ req[r].pc = "asked"
    /\ Lock(r, LockModeOf(req[r].op))
    /\ ProjectAdmits(req[r].op)
    /\ req' = [req EXCEPT ![r].pc = "admitted"]
    /\ UNCHANGED <<project, tables, rowLock>>

(* ProjectNotFound, ProjectArchived or PermissionDenied, or a creation     *)
(* whose content is not valid.                                             *)
Refuses(r) ==
    /\ req[r].pc = "asked"
    /\ Compatible(r, LockModeOf(req[r].op))
    /\ Finish(r, "refused")

StepOf(op) == CASE op = "project_archive" -> "archive"
                [] op = "project_restore" -> "restore"
                [] op = "project_delete"  -> "delete"

ProjectStep(r) ==
    /\ At(r, "admitted", ProjectSteps)
    /\ StepAllowed(StepOf(req[r].op))
    /\ project' = StepTarget(StepOf(req[r].op))
    /\ Answer(r, "ok")
    /\ UNCHANGED tables

ProjectStepRefused(r) ==
    /\ At(r, "admitted", ProjectSteps)
    /\ ~StepAllowed(StepOf(req[r].op))
    /\ Finish(r, "refused")

----------------------------------------------------------------------------
(* New requirements: the next number, then the rows. *)

Numbers == {requirement[i].number : i \in {j \in RequirementIds : requirement[j].exists}}

(* max(number) + 1 over all rows, deleted ones included. *)
NextNumber_liveOnly ==
    1 + Cardinality({i \in RequirementIds : Live(i)})
NextNumber == CHOOSE n \in 1 .. Cardinality(RequirementIds) + 1 :
                 /\ \A m \in Numbers : m < n
                 /\ n = 1 \/ n - 1 \in Numbers

AllocateNumber(r) ==
    /\ At(r, "admitted", AddOps)
    /\ req' = [req EXCEPT ![r].pc = "numbered", ![r].number = NextNumber]
    /\ UNCHANGED <<project, projectLock, tables, rowLock>>

(* The candidates that have no live requirement yet: the partial unique    *)
(* index on the origin turns the others into CandidateAlreadyPromoted.     *)
Unpromoted(keys) ==
    {k \in keys : \A i \in RequirementIds : Live(i) => requirement[i].origin # k}

(* What the transaction inserts: requirements with consecutive numbers. *)
NewOrigins(r) == IF req[r].op = "create" THEN {Nobody} ELSE Unpromoted(req[r].keys)
NewNumbers(r) == req[r].number .. req[r].number + Cardinality(NewOrigins(r)) - 1

Rows(r, new, id, number) ==
    LET origin(i) == CHOOSE k \in new : id[k] = i
        added == {id[k] : k \in new}
    IN  /\ requirement' = [i \in RequirementIds |->
             IF i \in added THEN NewRow(number[origin(i)], req[r].state, origin(i))
             ELSE requirement[i]]
        /\ versions' = [i \in RequirementIds |->
             IF i \in added THEN <<req[r].state>> ELSE versions[i]]

Inserted(r) ==
    /\ \E id \in [NewOrigins(r) -> Fresh], number \in [NewOrigins(r) -> NewNumbers(r)] :
         /\ \A k, l \in NewOrigins(r) : k # l => id[k] # id[l] /\ number[k] # number[l]
         /\ Rows(r, NewOrigins(r), id, number)
    /\ Answer(r, "ok")
    /\ UNCHANGED <<project, sets>>

(* The unique constraint on (project, number) is the backstop. *)
AddRequirements(r) ==
    /\ At(r, "numbered", AddOps)
    /\ IF NewNumbers(r) \cap Numbers = {} THEN Inserted(r) ELSE Finish(r, "collision")

----------------------------------------------------------------------------
(* Versions: the row is locked, revised and saved. *)

LockRow(r) ==
    LET i == req[r].id IN
    /\ At(r, "admitted", RowOps)
    /\ rowLock[i] = Nobody
    /\ Live(i)
    /\ rowLock' = [rowLock EXCEPT ![i] = r]
    /\ req' = [req EXCEPT ![r].pc = "locked", ![r].row = requirement[i]]
    /\ UNCHANGED <<project, projectLock, tables>>

RequirementNotFound(r) ==
    /\ At(r, "admitted", RowOps)
    /\ rowLock[req[r].id] = Nobody
    /\ ~Live(req[r].id)
    /\ Finish(r, "refused")

TRANSITIONS == [draft      |-> {"active", "deprecated"},
                active     |-> {"satisfied", "invalid", "deprecated"},
                satisfied  |-> {"active", "deprecated"},
                invalid    |-> {"draft", "deprecated"},
                deprecated |-> {}]

CheckTransition(current, target) == target = current \/ target \in TRANSITIONS[current]

ContentLocked_deprecatedOnly(current, target) == current = "deprecated"
ContentLocked(current, target) ==
    current = "deprecated" \/ (current = "satisfied" /\ target # "active")

(* Requirement.revise, in the order of its checks. *)
Revisable(r) ==
    LET current == req[r].row.state  target == req[r].state IN
    /\ CheckTransition(current.status, target.status)
    /\ target.content # current.content => ~ContentLocked(current.status, target.status)

ExpectedIsCurrent_unchecked(r) == TRUE
ExpectedIsCurrent(r) == req[r].expected = req[r].row.version

(* save: the version, then the row if it still has the previous one. *)
Update(r) ==
    LET i == req[r].id IN
    /\ At(r, "locked", {"update"})
    /\ ExpectedIsCurrent(r) /\ req[r].state # req[r].row.state /\ Revisable(r)
    /\ requirement[i].version = req[r].row.version
    /\ versions' = [versions EXCEPT ![i] = Append(@, req[r].state)]
    /\ requirement' = [requirement EXCEPT ![i].version = req[r].row.version + 1,
                                          ![i].state = req[r].state]
    /\ Answer(r, "ok")
    /\ UNCHANGED <<project, sets>>

(* The changes leave everything as it is: success without a version. *)
UpdateUnchanged(r) ==
    /\ At(r, "locked", {"update"})
    /\ ExpectedIsCurrent(r) /\ req[r].state = req[r].row.state
    /\ ReleaseLocks(r)
    /\ req' = [req EXCEPT ![r] = [NoRequest EXCEPT !.pc = "done", !.answer = "ok"]]
    /\ UNCHANGED <<project, tables>>

(* RequirementVersionConflict. *)
UpdateConflict(r) ==
    At(r, "locked", {"update"}) /\ ~ExpectedIsCurrent(r) /\ Finish(r, "conflict")

(* InvalidStatusTransition, RequirementLocked, ChangeReasonRequired or a   *)
(* content that is not valid.                                              *)
UpdateRefused(r) ==
    /\ At(r, "locked", {"update"})
    /\ ExpectedIsCurrent(r) /\ req[r].state # req[r].row.state
    /\ Finish(r, "refused")

Delete(r) ==
    /\ At(r, "locked", {"delete"})
    /\ requirement' = [requirement EXCEPT ![req[r].id].deleted = TRUE]
    /\ Answer(r, "ok")
    /\ UNCHANGED <<project, versions, sets>>

----------------------------------------------------------------------------
(* Requirement sets: select, then pin what was selected. *)

(* Without a selection, every live requirement in force. *)
Selection(r) ==
    IF req[r].chosen # {} THEN req[r].chosen
    ELSE {i \in RequirementIds : Live(i) /\ requirement[i].state.status \in InForce}

Select(r) ==
    /\ At(r, "admitted", {"create_set"})
    /\ Selection(r) # {}
    /\ \A i \in Selection(r) : Live(i) /\ requirement[i].state.status \in InForce
    /\ req' = [req EXCEPT ![r].pc = "selected",
                          ![r].pins = [i \in RequirementIds |->
                             IF i \in Selection(r) THEN requirement[i].version ELSE 0]]
    /\ UNCHANGED <<project, projectLock, tables, rowLock>>

(* InvalidRequirementSet or RequirementSetConflicts. *)
SelectRefused(r) == At(r, "admitted", {"create_set"}) /\ Finish(r, "refused")

Pin(r) ==
    /\ At(r, "selected", {"create_set"})
    /\ sets' = Append(sets, req[r].pins)
    /\ Answer(r, "ok")
    /\ UNCHANGED <<project, requirement, versions>>

----------------------------------------------------------------------------
(* Any transaction may fail before it commits. *)
Abort(r) == req[r].pc \notin {"idle", "done"} /\ Finish(r, "failed")

Step(r) ==
    \/ Admit(r) \/ Refuses(r) \/ ProjectStep(r) \/ ProjectStepRefused(r)
    \/ AllocateNumber(r) \/ AddRequirements(r)
    \/ LockRow(r) \/ RequirementNotFound(r)
    \/ Update(r) \/ UpdateUnchanged(r) \/ UpdateConflict(r) \/ UpdateRefused(r) \/ Delete(r)
    \/ Select(r) \/ SelectRefused(r) \/ Pin(r)

(* Every request has been answered, and no client sends another. *)
Quiescent == (\A r \in Requests : req[r].pc \in {"idle", "done"}) /\ UNCHANGED vars

Next == (\E r \in Requests : Ask(r) \/ Step(r) \/ Abort(r)) \/ Quiescent

Spec == Init /\ [][Next]_vars

(* A request in progress is resumed whenever its next statement can run. *)
FairSpec == Spec /\ \A r \in Requests : WF_vars(Step(r))

----------------------------------------------------------------------------
(* References are allocated without gaps and never given out twice, not    *)
(* even after a requirement was deleted, and the unique constraint never   *)
(* has to refuse one: the project lock serializes allocation.              *)
ReferencesUnique ==
    LET all == {i \in RequirementIds : requirement[i].exists} IN
    /\ Numbers = 1 .. Cardinality(all)
    /\ \A r \in Requests : req[r].answer # "collision"

(* The history explains the requirement: its row, which is well-formed     *)
(* whatever requests overlapped, is its last version, and                  *)
(* every version follows from the one before by the status lifecycle; a    *)
(* deprecated requirement has no later version, and a satisfied one keeps  *)
(* its content until it is active again.                                   *)
HistoryLegal ==
    TypeOK /\ \A i \in RequirementIds :
        LET h == versions[i] IN
        /\ Len(h) = requirement[i].version
        /\ Len(h) > 0 => h[Len(h)] = requirement[i].state
        /\ \A v \in 2 .. Len(h) :
             /\ h[v] # h[v - 1]
             /\ CheckTransition(h[v - 1].status, h[v].status)
             /\ h[v - 1].status # "deprecated"
             /\ h[v - 1].status = "satisfied" /\ h[v].status # "active"
                  => h[v].content = h[v - 1].content

(* The register of a project is sound: references and histories, whatever  *)
(* was created, revised and deleted at the same time.                      *)
RegisterSound == ReferencesUnique /\ HistoryLegal

(* No lost update: a client whose update was accepted finds what it sent   *)
(* as the version right after the one it had read.                         *)
AcceptedUpdatesKept ==
    \A r \in Requests : req[r].op = "update" /\ req[r].answer = "ok" =>
        LET h == versions[req[r].id] IN
        /\ req[r].expected + 1 \in 1 .. Len(h)
        /\ h[req[r].expected + 1] = req[r].state

(* A set is a consistent view: at the moment it is stored, every version   *)
(* it pins is the current one of a live requirement in force, and sets     *)
(* already stored never change.                                            *)
SetsPinCurrent ==
    [][sets' # sets =>
         /\ Len(sets') = Len(sets) + 1
         /\ SubSeq(sets', 1, Len(sets)) = sets
         /\ \A i \in RequirementIds : sets'[Len(sets')][i] > 0 =>
              /\ Live(i)
              /\ requirement[i].version = sets'[Len(sets')][i]
              /\ requirement[i].state.status \in InForce]_vars

(* Every request is answered: the row locks cannot deadlock. *)
EveryRequestAnswered ==
    \A r \in Requests : req[r].pc = "asked" ~> req[r].pc = "done"

=============================================================================
