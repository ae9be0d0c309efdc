------------------------- MODULE RequirementsProofs -------------------------
(* Theorems about Requirements, for every number of requests, requirements *)
(* and candidates.                                                         *)
EXTENDS Requirements, FiniteSetTheorems, SequenceTheorems, TLAPS

USE DEF LockModes, ProjectStatus, Stages, Answers, Status

----------------------------------------------------------------------------
(* The inductive invariant. *)

InTransaction == {"admitted", "numbered", "locked", "selected"}

Existing == {i \in RequirementIds : requirement[i].exists}

(* A transaction keeps the project lock it was admitted with, and the lock *)
(* of whoever adds a requirement or a set excludes all others.             *)
Excludes ==
    \A r, q \in Requests : r # q /\ projectLock[r] = "exclusive" => projectLock[q] = "none"

HoldsProject(r) == req[r].pc \in InTransaction => projectLock[r] = LockModeOf(req[r].op)

(* The number a transaction allocated is still the next one. *)
HoldsNumber(r) ==
    req[r].pc = "numbered" =>
        req[r].op \in AddOps /\ req[r].number = Cardinality(Existing) + 1

(* The row a transaction read under its lock is still the row. *)
HoldsRow(r) ==
    req[r].pc = "locked" =>
        /\ req[r].op \in RowOps
        /\ rowLock[req[r].id] = r
        /\ req[r].row = requirement[req[r].id] /\ Live(req[r].id)

(* What a transaction selected is still live, current and in force. *)
PinsCurrent(pins) ==
    \A i \in RequirementIds : pins[i] > 0 =>
        /\ Live(i) /\ requirement[i].version = pins[i]
        /\ requirement[i].state.status \in InForce
HoldsPins(r) ==
    req[r].pc = "selected" => req[r].op = "create_set" /\ PinsCurrent(req[r].pins)

Unanswered(r) == req[r].pc # "done" => req[r].answer = "none"

Kept(r) ==
    req[r].op = "update" /\ req[r].answer = "ok" =>
        /\ req[r].expected + 1 \in 1 .. Len(versions[req[r].id])
        /\ versions[req[r].id][req[r].expected + 1] = req[r].state

Sound(r) ==
    /\ HoldsProject(r) /\ HoldsNumber(r) /\ HoldsRow(r) /\ HoldsPins(r)
    /\ Unanswered(r) /\ Kept(r)
    /\ req[r].answer # "collision"

(* The versions of one requirement, and the legal step from one to the     *)
(* next.                                                                   *)
Follows(before, after) ==
    /\ after # before
    /\ CheckTransition(before.status, after.status)
    /\ before.status # "deprecated"
    /\ before.status = "satisfied" /\ after.status # "active" => after.content = before.content
Legal(i) ==
    /\ Len(versions[i]) = requirement[i].version
    /\ Len(versions[i]) > 0 => versions[i][Len(versions[i])] = requirement[i].state
    /\ \A v \in 2 .. Len(versions[i]) : Follows(versions[i][v - 1], versions[i][v])
    /\ requirement[i].exists <=> requirement[i].version > 0

NumbersExact == Numbers = 1 .. Cardinality(Existing)

IInv ==
    /\ TypeOK
    /\ Excludes
    /\ \A r \in Requests : Sound(r)
    /\ \A i \in RequirementIds : Legal(i)
    /\ NumbersExact

----------------------------------------------------------------------------
(* What a step of r leaves alone: the other requests, the rows that they   *)
(* hold, every version there is; and every row while another transaction   *)
(* relies on all of them.                                                  *)

Respects(r) ==
    /\ \A q \in Requests \ {r} : req'[q] = req[q] /\ projectLock'[q] = projectLock[q]
    /\ \A i \in RequirementIds : rowLock[i] \in Requests \ {r} => rowLock'[i] = rowLock[i]
    /\ \A q \in Requests \ {r} : req[q].pc = "locked" =>
         requirement'[req[q].id] = requirement[req[q].id]
    /\ \A i \in RequirementIds :
         /\ Len(versions[i]) <= Len(versions'[i])
         /\ \A v \in 1 .. Len(versions[i]) : versions'[i][v] = versions[i][v]
    /\ \/ UNCHANGED requirement
       \/ \A q \in Requests \ {r} : req[q].pc \notin {"numbered", "selected"}

LEMMA StepKeeps ==
    ASSUME IInv, TypeOK', NEW r \in Requests, Respects(r), Sound(r)', Excludes', NumbersExact',
           \A i \in RequirementIds : Legal(i)'
    PROVE  IInv'
  <1>1. \A q \in Requests : /\ req[q] \in Request /\ q # Nobody /\ req[q].id \in RequirementIds
                            /\ req[q].expected \in Nat
    BY RequirementsAssumption DEF IInv, TypeOK, Request
  <1>2. ASSUME NEW q \in Requests \ {r}
        PROVE  Sound(q)'
    <2>1. req'[q] = req[q] /\ projectLock'[q] = projectLock[q] /\ Sound(q)
      BY DEF Respects, IInv
    <2>2. HoldsProject(q)'
      BY <2>1 DEF Sound, HoldsProject
    <2>3. HoldsNumber(q)'
      BY <2>1 DEF Sound, HoldsNumber, Respects, Existing
    <2>4. HoldsRow(q)'
      BY <1>1, <2>1 DEF Sound, HoldsRow, Respects, Live
    <2>5. HoldsPins(q)'
      BY <2>1 DEF Sound, HoldsPins, PinsCurrent, Live, Respects
    <2>6. Unanswered(q)'
      BY <2>1 DEF Sound, Unanswered
    <2>7. Kept(q)'
      <3>1. \A i \in RequirementIds : versions[i] \in Seq(State) /\ versions'[i] \in Seq(State)
        BY DEF IInv, TypeOK
      <3>2. \A i \in RequirementIds : Len(versions[i]) \in Nat /\ Len(versions'[i]) \in Nat
        BY <3>1
      <3> QED BY <1>1, <2>1, <3>2 DEF Sound, Kept, Respects
    <2> QED BY <2>1, <2>2, <2>3, <2>4, <2>5, <2>6, <2>7 DEF Sound
  <1> QED BY <1>2 DEF IInv

----------------------------------------------------------------------------
(* Types, and the end of a transaction. *)

LEMMA NoRowType == NoRow \in Row /\ Draft(AnyContent) \in State
  <1>1. AnyContent \in Contents
    BY RequirementsAssumption DEF AnyContent
  <1> QED BY <1>1 DEF NoRow, Row, Draft, State

LEMMA NoRequestType == NoRequest \in Request
  <1>1. AnyId \in RequirementIds
    BY RequirementsAssumption DEF AnyId
  <1>2. NoPins \in Pins
    BY DEF NoPins, Pins
  <1> QED BY <1>1, <1>2, NoRowType DEF NoRequest, Request

Ended(r, answer) ==
    /\ req' \in [Requests -> Request]
    /\ projectLock' \in [Requests -> LockModes]
    /\ rowLock' \in [RequirementIds -> Requests \cup {Nobody}]
    /\ \A q \in Requests \ {r} : req'[q] = req[q] /\ projectLock'[q] = projectLock[q]
    /\ \A i \in RequirementIds : rowLock[i] # r => rowLock'[i] = rowLock[i]
    /\ projectLock'[r] = "none"
    /\ req'[r].pc = "done" /\ req'[r].answer = answer
    /\ req'[r].op = "update" =>
         /\ req[r].op = "update" /\ answer = "ok"
         /\ req'[r].id = req[r].id /\ req'[r].expected = req[r].expected
         /\ req'[r].state = req[r].state

LEMMA ReleaseTypes ==
    ASSUME TypeOK, NEW r \in Requests, ReleaseLocks(r)
    PROVE  /\ projectLock' \in [Requests -> LockModes] /\ projectLock'[r] = "none"
           /\ \A q \in Requests \ {r} : projectLock'[q] = projectLock[q]
           /\ rowLock' \in [RequirementIds -> Requests \cup {Nobody}]
           /\ \A i \in RequirementIds : rowLock[i] # r => rowLock'[i] = rowLock[i]
  BY DEF ReleaseLocks, Unlock, TypeOK, ProjectTypeOK

LEMMA PlainAnswer ==
    ASSUME NEW answer \in Answers
    PROVE  LET done == [NoRequest EXCEPT !.pc = "done", !.answer = answer] IN
           done \in Request /\ done.pc = "done" /\ done.answer = answer /\ done.op = "none"
  <1>1. NoRequest \in Request /\ NoRequest.op = "none"
    BY NoRequestType DEF NoRequest
  <1> QED BY <1>1 DEF Request

LEMMA AnswerEnds ==
    ASSUME TypeOK, NEW r \in Requests, NEW answer \in Answers, Answer(r, answer)
    PROVE  Ended(r, answer)
  <1> DEFINE plain == [NoRequest EXCEPT !.pc = "done", !.answer = answer]
             kept == [NoRequest EXCEPT !.pc = "done", !.answer = answer, !.op = "update",
                                       !.id = req[r].id, !.expected = req[r].expected,
                                       !.state = req[r].state]
             done == IF req[r].op = "update" /\ answer = "ok" THEN kept ELSE plain
  <1>1. req[r] \in Request
    BY DEF TypeOK
  <1>2. plain \in Request /\ plain.pc = "done" /\ plain.answer = answer /\ plain.op = "none"
    BY PlainAnswer
  <1>3. /\ kept \in Request /\ kept.pc = "done" /\ kept.answer = answer /\ kept.id = req[r].id
        /\ kept.expected = req[r].expected /\ kept.state = req[r].state
    <2>1. NoRequest \in Request
      BY NoRequestType
    <2> QED BY <1>1, <2>1 DEF Request, AllOps, RowOps
  <1>4. req' = [req EXCEPT ![r] = done]
    BY DEF Answer, TypeOK
  <1> HIDE DEF plain, kept
  <1>5. req' \in [Requests -> Request] /\ req'[r] = done /\ \A q \in Requests \ {r} : req'[q] = req[q]
    BY <1>2, <1>3, <1>4 DEF TypeOK
  <1> QED BY <1>2, <1>3, <1>5, ReleaseTypes DEF Answer, Ended

LEMMA EndedExcludes ==
    ASSUME Excludes, NEW r \in Requests, NEW answer, Ended(r, answer)
    PROVE  Excludes'
  BY DEF Ended, Excludes

(* A transaction that ends and writes only what nobody else relies on. *)
LEMMA CommitKeeps ==
    ASSUME IInv, NEW r \in Requests, NEW answer \in Answers \ {"collision"}, Ended(r, answer),
           project' \in ProjectStatus,
           requirement' \in [RequirementIds -> Row],
           versions' \in [RequirementIds -> Seq(State)],
           sets' \in Seq(Pins),
           \A q \in Requests \ {r} : req[q].pc = "locked" =>
             requirement'[req[q].id] = requirement[req[q].id],
           \A i \in RequirementIds :
             /\ Len(versions[i]) <= Len(versions'[i])
             /\ \A v \in 1 .. Len(versions[i]) : versions'[i][v] = versions[i][v],
           \/ UNCHANGED requirement
           \/ \A q \in Requests \ {r} : req[q].pc \notin {"numbered", "selected"},
           NumbersExact', \A i \in RequirementIds : Legal(i)', Kept(r)'
    PROVE  IInv'
  <1>1. TypeOK'
    BY DEF IInv, TypeOK, ProjectTypeOK, Ended
  <1>2. Respects(r)
    BY DEF Ended, Respects
  <1>3. Sound(r)'
    BY DEF Ended, Sound, HoldsProject, HoldsNumber, HoldsRow, HoldsPins, Unanswered, InTransaction
  <1>4. Excludes'
    BY EndedExcludes DEF IInv
  <1> QED BY <1>1, <1>2, <1>3, <1>4, StepKeeps

LEMMA TablesSame ==
    ASSUME IInv, UNCHANGED tables
    PROVE  /\ requirement' \in [RequirementIds -> Row] /\ versions' \in [RequirementIds -> Seq(State)]
           /\ sets' \in Seq(Pins) /\ UNCHANGED <<requirement, versions>>
           /\ \A i \in RequirementIds :
                /\ Len(versions[i]) <= Len(versions'[i])
                /\ \A v \in 1 .. Len(versions[i]) : versions'[i][v] = versions[i][v]
           /\ NumbersExact' /\ \A i \in RequirementIds : Legal(i)'
  <1>1. UNCHANGED <<requirement, versions, sets>>
    BY DEF tables
  <1>2. \A i \in RequirementIds : Len(versions[i]) \in Nat
    BY DEF IInv, TypeOK
  <1>3. NumbersExact' /\ \A i \in RequirementIds : Legal(i)'
    BY <1>1 DEF IInv, NumbersExact, Numbers, Existing, Legal
  <1> QED BY <1>1, <1>2, <1>3 DEF IInv, TypeOK

LEMMA FinishKeeps ==
    ASSUME IInv, NEW r \in Requests, NEW answer \in {"refused", "conflict", "failed"},
           Finish(r, answer)
    PROVE  IInv'
  <1>1. Ended(r, answer) /\ UNCHANGED tables /\ project' = project
    BY AnswerEnds DEF IInv, Finish
  <1>2. Kept(r)'
    BY <1>1 DEF Ended, Kept
  <1> QED BY <1>1, <1>2, TablesSame, CommitKeeps DEF IInv, TypeOK, ProjectTypeOK

LEMMA UpdateUnchangedKeeps ==
    ASSUME IInv, NEW r \in Requests, UpdateUnchanged(r)
    PROVE  IInv'
  <1> DEFINE done == [NoRequest EXCEPT !.pc = "done", !.answer = "ok"]
  <1>1. done \in Request /\ done.pc = "done" /\ done.answer = "ok" /\ done.op = "none"
    BY PlainAnswer
  <1>2. req' = [req EXCEPT ![r] = done] /\ UNCHANGED <<project, tables>> /\ ReleaseLocks(r)
    BY DEF UpdateUnchanged
  <1> HIDE DEF done
  <1>3. Ended(r, "ok") /\ req'[r].op = "none"
    BY <1>1, <1>2, ReleaseTypes DEF IInv, TypeOK, Ended
  <1>4. Kept(r)'
    BY <1>3 DEF Kept
  <1> QED BY <1>2, <1>3, <1>4, TablesSame, CommitKeeps DEF IInv, TypeOK, ProjectTypeOK

LEMMA ProjectStepKeeps ==
    ASSUME IInv, NEW r \in Requests, ProjectStep(r)
    PROVE  IInv'
  <1>1. Ended(r, "ok") /\ UNCHANGED tables
    BY AnswerEnds DEF IInv, ProjectStep
  <1>2. project' \in ProjectStatus
    <2>1. StepOf(req[r].op) \in {"archive", "restore", "delete"}
      BY DEF ProjectStep, At, ProjectSteps, StepOf
    <2> QED BY <2>1 DEF ProjectStep, StepTarget
  <1>3. Kept(r)'
    BY <1>1 DEF Ended, Kept, ProjectStep, At, ProjectSteps
  <1> QED BY <1>1, <1>2, <1>3, TablesSame, CommitKeeps DEF IInv

----------------------------------------------------------------------------
(* The steps that take a lock, or read, and go on. *)

GoesOn(r) ==
    /\ req' \in [Requests -> Request]
    /\ \A q \in Requests \ {r} : req'[q] = req[q]
    /\ req'[r].pc # "done" /\ req'[r].answer = "none"
    /\ UNCHANGED <<project, tables>>

LEMMA GoesOnKeeps ==
    ASSUME IInv, NEW r \in Requests, GoesOn(r),
           projectLock' \in [Requests -> LockModes],
           \A q \in Requests \ {r} : projectLock'[q] = projectLock[q],
           rowLock' \in [RequirementIds -> Requests \cup {Nobody}],
           \A i \in RequirementIds : rowLock[i] \in Requests \ {r} => rowLock'[i] = rowLock[i],
           Excludes', HoldsProject(r)', HoldsNumber(r)', HoldsRow(r)', HoldsPins(r)'
    PROVE  IInv'
  <1>1. TypeOK'
    BY TablesSame DEF IInv, TypeOK, ProjectTypeOK, GoesOn
  <1>2. Respects(r)
    BY TablesSame DEF GoesOn, Respects
  <1>3. Sound(r)'
    BY DEF GoesOn, Sound, Unanswered, Kept
  <1> QED BY <1>1, <1>2, <1>3, TablesSame, StepKeeps DEF GoesOn

(* What Ask chooses. *)
LEMMA AskChoice ==
    ASSUME TypeOK, NEW r \in Requests, Ask(r)
    PROVE  \E op \in AllOps, i \in RequirementIds, expected \in Nat, state \in State,
              keys \in SUBSET Candidates, chosen \in SUBSET RequirementIds :
              Asked(r, op, i, expected, state, keys, chosen)
  <1>1. /\ AnyId \in RequirementIds /\ Draft(AnyContent) \in State /\ Operations \subseteq AllOps
        /\ \A status \in {"draft", "active"} : [status |-> status, content |-> AnyContent] \in State
    BY RequirementsAssumption, NoRowType DEF AnyId, AnyContent, State
  <1>2. \A i \in RequirementIds : \A expected \in 1 .. requirement[i].version : expected \in Nat
    BY DEF TypeOK, Row
  <1>3. 0 \in Nat /\ {} \in SUBSET Candidates /\ {} \in SUBSET RequirementIds
    OBVIOUS
  <1>4. PICK op \in Operations :
         \/ /\ op = "update"
            /\ \E i \in RequirementIds : \E expected \in 1 .. requirement[i].version, state \in State :
                 Asked(r, op, i, expected, state, {}, {})
         \/ /\ op = "delete"
            /\ \E i \in RequirementIds :
                 requirement[i].exists /\ Asked(r, op, i, 0, Draft(AnyContent), {}, {})
         \/ /\ op = "create" /\ Claimed < Cardinality(Fresh)
            /\ \E status \in {"draft", "active"} :
                 Asked(r, op, AnyId, 0, [status |-> status, content |-> AnyContent], {}, {})
         \/ /\ op = "promote"
            /\ \E keys \in SUBSET Candidates :
                 /\ keys # {} /\ Claimed + Cardinality(keys) <= Cardinality(Fresh)
                 /\ Asked(r, op, AnyId, 0, Draft(AnyContent), keys, {})
         \/ /\ op = "create_set"
            /\ \E chosen \in SUBSET {i \in RequirementIds : requirement[i].exists} :
                 Asked(r, op, AnyId, 0, Draft(AnyContent), {}, chosen)
         \/ /\ op \in ProjectSteps
            /\ Asked(r, op, AnyId, 0, Draft(AnyContent), {}, {})
    BY Zenon DEF Ask
  <1>5. op \in AllOps
    BY <1>1
  <1>6. CASE \E i \in RequirementIds : \E expected \in 1 .. requirement[i].version, state \in State :
                 Asked(r, op, i, expected, state, {}, {})
    BY <1>2, <1>3, <1>5, <1>6
  <1>7. CASE \E i \in RequirementIds : Asked(r, op, i, 0, Draft(AnyContent), {}, {})
    BY <1>1, <1>3, <1>5, <1>7
  <1>8. CASE \E status \in {"draft", "active"} :
                 Asked(r, op, AnyId, 0, [status |-> status, content |-> AnyContent], {}, {})
    BY <1>1, <1>3, <1>5, <1>8
  <1>9. CASE \E keys \in SUBSET Candidates : Asked(r, op, AnyId, 0, Draft(AnyContent), keys, {})
    BY <1>1, <1>3, <1>5, <1>9
  <1>10. CASE \E chosen \in SUBSET {i \in RequirementIds : requirement[i].exists} :
                 Asked(r, op, AnyId, 0, Draft(AnyContent), {}, chosen)
    <2>1. PICK chosen \in SUBSET {i \in RequirementIds : requirement[i].exists} :
                 Asked(r, op, AnyId, 0, Draft(AnyContent), {}, chosen)
      BY <1>10
    <2>2. chosen \in SUBSET RequirementIds
      OBVIOUS
    <2> QED BY <1>1, <1>3, <1>5, <2>1, <2>2
  <1>11. CASE Asked(r, op, AnyId, 0, Draft(AnyContent), {}, {})
    BY <1>1, <1>3, <1>5, <1>11
  <1> QED BY <1>4, <1>6, <1>7, <1>8, <1>9, <1>10, <1>11, Zenon

LEMMA AskKeeps ==
    ASSUME IInv, NEW r \in Requests, Ask(r)
    PROVE  IInv'
  <1>1. PICK op \in AllOps, i \in RequirementIds, expected \in Nat, state \in State,
             keys \in SUBSET Candidates, chosen \in SUBSET RequirementIds :
             Asked(r, op, i, expected, state, keys, chosen)
    BY AskChoice DEF IInv
  <1> DEFINE asked == [req[r] EXCEPT !.pc = "asked", !.op = op, !.id = i,
                 !.expected = expected, !.state = state, !.keys = keys, !.chosen = chosen]
  <1>2. req[r] \in Request /\ req[r].answer = "none"
    BY DEF IInv, TypeOK, Sound, Unanswered, Ask
  <1>3. asked \in Request /\ asked.pc = "asked" /\ asked.answer = "none"
    BY <1>2 DEF Request
  <1>4. req' = [req EXCEPT ![r] = asked] /\ UNCHANGED <<project, projectLock, tables, rowLock>>
    BY <1>1 DEF Asked
  <1> HIDE DEF asked
  <1>5. GoesOn(r) /\ req'[r].pc = "asked"
    BY <1>3, <1>4 DEF GoesOn, IInv, TypeOK
  <1>6. Excludes'
    BY <1>4 DEF IInv, Excludes
  <1>7. HoldsProject(r)' /\ HoldsNumber(r)' /\ HoldsRow(r)' /\ HoldsPins(r)'
    BY <1>5 DEF HoldsProject, HoldsNumber, HoldsRow, HoldsPins, InTransaction
  <1> QED BY <1>4, <1>5, <1>6, <1>7, GoesOnKeeps DEF IInv, TypeOK, ProjectTypeOK

LEMMA AdmitKeeps ==
    ASSUME IInv, NEW r \in Requests, Admit(r)
    PROVE  IInv'
  <1> DEFINE admitted == [req[r] EXCEPT !.pc = "admitted"]
             mode == LockModeOf(req[r].op)
  <1>1. req[r] \in Request /\ req[r].answer = "none"
    BY DEF IInv, TypeOK, Sound, Unanswered, Admit
  <1>2. /\ admitted \in Request /\ admitted.pc = "admitted" /\ admitted.answer = "none"
        /\ admitted.op = req[r].op
    BY <1>1 DEF Request
  <1>3. /\ req' = [req EXCEPT ![r] = admitted] /\ UNCHANGED <<project, tables, rowLock>>
        /\ Compatible(r, mode) /\ projectLock' = [projectLock EXCEPT ![r] = mode]
    BY DEF Admit, Lock
  <1>4. mode \in {"share", "exclusive"}
    BY DEF LockModeOf
  <1> HIDE DEF admitted, mode
  <1>5. /\ GoesOn(r) /\ req'[r].pc = "admitted" /\ req'[r].op = req[r].op
    BY <1>2, <1>3 DEF GoesOn, IInv, TypeOK
  <1>6. /\ projectLock' \in [Requests -> LockModes] /\ projectLock'[r] = mode
        /\ \A q \in Requests \ {r} : projectLock'[q] = projectLock[q]
    BY <1>3, <1>4 DEF IInv, TypeOK, ProjectTypeOK
  <1>7. Excludes'
    BY <1>3, <1>4, <1>6 DEF IInv, Excludes, Compatible
  <1>8. HoldsProject(r)' /\ HoldsNumber(r)' /\ HoldsRow(r)' /\ HoldsPins(r)'
    BY <1>5, <1>6 DEF HoldsProject, HoldsNumber, HoldsRow, HoldsPins, mode
  <1> QED BY <1>3, <1>5, <1>6, <1>7, <1>8, GoesOnKeeps DEF IInv, TypeOK

LEMMA LockRowKeeps ==
    ASSUME IInv, NEW r \in Requests, LockRow(r)
    PROVE  IInv'
  <1> DEFINE i == req[r].id
             locked == [req[r] EXCEPT !.pc = "locked", !.row = requirement[i]]
  <1>1. /\ req[r] \in Request /\ req[r].answer = "none" /\ req[r].pc = "admitted"
        /\ req[r].op \in RowOps /\ i \in RequirementIds /\ requirement[i] \in Row
        /\ projectLock[r] = LockModeOf(req[r].op)
    BY DEF IInv, TypeOK, Sound, Unanswered, HoldsProject, InTransaction, LockRow, At, Request
  <1>2. /\ locked \in Request /\ locked.pc = "locked" /\ locked.answer = "none"
        /\ locked.op = req[r].op /\ locked.id = i /\ locked.row = requirement[i]
    BY <1>1 DEF Request
  <1>3. /\ req' = [req EXCEPT ![r] = locked] /\ UNCHANGED <<project, projectLock, tables>>
        /\ rowLock[i] = Nobody /\ Live(i) /\ rowLock' = [rowLock EXCEPT ![i] = r]
    BY <1>1 DEF LockRow, IInv, TypeOK
  <1> HIDE DEF locked
  <1>4. GoesOn(r) /\ req'[r] = locked
    BY <1>2, <1>3 DEF GoesOn, IInv, TypeOK
  <1>5. /\ rowLock' \in [RequirementIds -> Requests \cup {Nobody}] /\ rowLock'[i] = r
        /\ \A j \in RequirementIds : rowLock[j] \in Requests => rowLock'[j] = rowLock[j]
    BY <1>1, <1>3, RequirementsAssumption DEF IInv, TypeOK
  <1>6. Excludes'
    BY <1>3 DEF IInv, Excludes
  <1>7. UNCHANGED requirement
    BY <1>3 DEF tables
  <1>8. HoldsProject(r)' /\ HoldsNumber(r)' /\ HoldsRow(r)' /\ HoldsPins(r)'
    BY <1>1, <1>2, <1>3, <1>4, <1>5, <1>7
       DEF HoldsProject, HoldsNumber, HoldsRow, HoldsPins, Live
  <1> QED BY <1>3, <1>4, <1>5, <1>6, <1>8, GoesOnKeeps DEF IInv, TypeOK, ProjectTypeOK

LEMMA SelectKeeps ==
    ASSUME IInv, NEW r \in Requests, Select(r)
    PROVE  IInv'
  <1> DEFINE pins == [i \in RequirementIds |-> IF i \in Selection(r) THEN requirement[i].version ELSE 0]
             selected == [req[r] EXCEPT !.pc = "selected", !.pins = pins]
  <1>1. /\ req[r] \in Request /\ req[r].answer = "none" /\ req[r].pc = "admitted"
        /\ req[r].op = "create_set" /\ projectLock[r] = LockModeOf(req[r].op)
    BY DEF IInv, TypeOK, Sound, Unanswered, HoldsProject, InTransaction, Select, At, Request
  <1>2. pins \in Pins
    BY DEF IInv, TypeOK, Row, Pins
  <1>3. PinsCurrent(pins)
    BY DEF Select, PinsCurrent
  <1>4. req' = [req EXCEPT ![r] = selected] /\ UNCHANGED <<project, projectLock, tables, rowLock>>
    BY DEF Select, IInv, TypeOK
  <1> HIDE DEF pins
  <1>5. /\ selected \in Request /\ selected.pc = "selected" /\ selected.answer = "none"
        /\ selected.op = "create_set" /\ selected.pins = pins
    BY <1>1, <1>2 DEF Request
  <1> HIDE DEF selected
  <1>6. GoesOn(r) /\ req'[r] = selected
    BY <1>4, <1>5 DEF GoesOn, IInv, TypeOK
  <1>7. UNCHANGED requirement /\ Excludes'
    BY <1>4 DEF tables, IInv, Excludes
  <1>8. PinsCurrent(req[r].pins)'
    BY <1>3, <1>5, <1>6, <1>7 DEF PinsCurrent, Live
  <1>9. HoldsProject(r)' /\ HoldsNumber(r)' /\ HoldsRow(r)' /\ HoldsPins(r)'
    BY <1>1, <1>4, <1>5, <1>6, <1>8 DEF HoldsProject, HoldsNumber, HoldsRow, HoldsPins
  <1> QED BY <1>4, <1>6, <1>7, <1>9, GoesOnKeeps DEF IInv, TypeOK, ProjectTypeOK

----------------------------------------------------------------------------
(* Numbers. *)

LEMMA ExistingFinite ==
    /\ IsFiniteSet(Existing) /\ Cardinality(Existing) \in Nat
    /\ Cardinality(RequirementIds) \in Nat
    /\ Cardinality(Existing) <= Cardinality(RequirementIds)
  <1>1. PICK E \in SUBSET RequirementIds : E = Existing
    BY DEF Existing
  <1>2. IsFiniteSet(E) /\ Cardinality(E) <= Cardinality(RequirementIds)
    BY RequirementsAssumption, FS_Subset
  <1>3. Cardinality(E) \in Nat /\ Cardinality(RequirementIds) \in Nat
    BY <1>2, RequirementsAssumption, FS_CardinalityType
  <1> QED BY <1>1, <1>2, <1>3

LEMMA NextNumberNext ==
    ASSUME NumbersExact
    PROVE  NextNumber = Cardinality(Existing) + 1
  <1> DEFINE c == Cardinality(Existing)
             top == Cardinality(RequirementIds)
  <1>1. c \in Nat /\ top \in Nat /\ c <= top /\ Numbers = 1 .. c
    BY ExistingFinite DEF NumbersExact
  <1> HIDE DEF c, top
  <1>2. /\ c + 1 \in 1 .. top + 1
        /\ \A m \in 1 .. c : m < c + 1
        /\ c + 1 = 1 \/ (c + 1) - 1 \in 1 .. c
    BY <1>1
  <1>3. \A n \in 1 .. top + 1 :
          (\A m \in 1 .. c : m < n) /\ (n = 1 \/ n - 1 \in 1 .. c) => n = c + 1
    <2> SUFFICES ASSUME NEW n \in 1 .. top + 1, \A m \in 1 .. c : m < n, n = 1 \/ n - 1 \in 1 .. c
                 PROVE  n = c + 1
      OBVIOUS
    <2>1. CASE c = 0
      BY <1>1, <2>1
    <2>2. CASE c # 0
      <3>1. c \in 1 .. c
        BY <1>1, <2>2
      <3> QED BY <1>1, <2>2, <3>1
    <2> QED BY <2>1, <2>2
  <1>4. NextNumber = CHOOSE n \in 1 .. top + 1 :
                        (\A m \in 1 .. c : m < n) /\ (n = 1 \/ n - 1 \in 1 .. c)
    BY <1>1 DEF NextNumber, top
  <1>5. NextNumber = c + 1
    BY <1>2, <1>3, <1>4
  <1> QED BY <1>5 DEF c

LEMMA AllocateNumberKeeps ==
    ASSUME IInv, NEW r \in Requests, AllocateNumber(r)
    PROVE  IInv'
  <1> DEFINE n == NextNumber
             numbered == [req[r] EXCEPT !.pc = "numbered", !.number = n]
  <1>1. /\ req[r] \in Request /\ req[r].answer = "none" /\ req[r].pc = "admitted"
        /\ req[r].op \in AddOps /\ projectLock[r] = LockModeOf(req[r].op)
    BY DEF IInv, TypeOK, Sound, Unanswered, HoldsProject, InTransaction, AllocateNumber, At, Request
  <1>2. n = Cardinality(Existing) + 1 /\ n \in Nat
    BY NextNumberNext, ExistingFinite DEF IInv
  <1>3. req' = [req EXCEPT ![r] = numbered] /\ UNCHANGED <<project, projectLock, tables, rowLock>>
    BY DEF AllocateNumber, IInv, TypeOK
  <1> HIDE DEF n
  <1>4. /\ numbered \in Request /\ numbered.pc = "numbered" /\ numbered.answer = "none"
        /\ numbered.op = req[r].op /\ numbered.number = n
    BY <1>1, <1>2 DEF Request
  <1> HIDE DEF numbered
  <1>5. GoesOn(r) /\ req'[r] = numbered
    BY <1>3, <1>4 DEF GoesOn, IInv, TypeOK
  <1>6. UNCHANGED requirement /\ Excludes'
    BY <1>3 DEF tables, IInv, Excludes
  <1>7. HoldsNumber(r)'
    BY <1>1, <1>2, <1>4, <1>5, <1>6 DEF HoldsNumber, Existing
  <1>8. HoldsProject(r)' /\ HoldsRow(r)' /\ HoldsPins(r)'
    BY <1>1, <1>3, <1>4, <1>5 DEF HoldsProject, HoldsRow, HoldsPins
  <1> QED BY <1>3, <1>5, <1>6, <1>7, <1>8, GoesOnKeeps DEF IInv, TypeOK, ProjectTypeOK

(* As many numbers as new requirements: each is used, and exactly once. *)
LEMMA NumbersUsedUp ==
    ASSUME NEW new, IsFiniteSet(new), NEW n \in Nat,
           NEW number \in [new -> n + 1 .. n + Cardinality(new)],
           \A k, l \in new : k # l => number[k] # number[l]
    PROVE  {number[k] : k \in new} = n + 1 .. n + Cardinality(new)
  <1> DEFINE c == Cardinality(new)
             T == n + 1 .. n + c
  <1>1. c \in Nat
    BY FS_CardinalityType
  <1>2. IsFiniteSet(T) /\ Cardinality(T) = c
    <2> HIDE DEF c
    <2>1. n + 1 \in Int /\ n + c \in Int
      BY <1>1
    <2>2. IsFiniteSet(T) /\ Cardinality(T) = IF n + 1 > n + c THEN 0 ELSE (n + c) - (n + 1) + 1
      BY <2>1, FS_Interval
    <2> QED BY <1>1, <2>2
  <1>3. number \in Injection(new, T)
    BY DEF Injection, IsInjective
  <1> HIDE DEF T
  <1>4. number \in Surjection(new, T)
    BY <1>2, <1>3, FS_Injection
  <1>5. {number[k] : k \in new} = T
    <2>1. \A k \in new : number[k] \in T
      BY <1>4 DEF Surjection
    <2>2. \A t \in T : \E k \in new : number[k] = t
      BY <1>4 DEF Surjection
    <2> QED BY <2>1, <2>2
  <1> QED BY <1>5 DEF T

LEMMA CountAdded ==
    ASSUME NEW E, IsFiniteSet(E), NEW new, IsFiniteSet(new),
           NEW added, ExistsBijection(new, added), E \cap added = {}
    PROVE  Cardinality(E \cup added) = Cardinality(E) + Cardinality(new)
  <1>3. IsFiniteSet(added) /\ Cardinality(added) = Cardinality(new)
    BY FS_Bijection
  <1>5. Cardinality(E \cup added) = Cardinality(E) + Cardinality(added) - Cardinality(E \cap added)
    BY <1>3, FS_Union
  <1>6. Cardinality(E \cap added) = 0
    BY FS_EmptySet
  <1>7. Cardinality(E) \in Nat /\ Cardinality(added) \in Nat
    BY <1>3, FS_CardinalityType
  <1> QED BY <1>3, <1>5, <1>6, <1>7

----------------------------------------------------------------------------
(* New requirements. *)

(* Nobody else is in a transaction while one adds requirements or a set. *)
LEMMA Alone ==
    ASSUME IInv, NEW r \in Requests, req[r].pc \in InTransaction, req[r].op \notin RowOps
    PROVE  \A q \in Requests \ {r} : req[q].pc \notin InTransaction
  <1>1. projectLock[r] = "exclusive"
    BY DEF IInv, Sound, HoldsProject, LockModeOf
  <1>2. \A q \in Requests \ {r} : projectLock[q] = "none"
    BY <1>1 DEF IInv, Excludes
  <1> QED BY <1>2 DEF IInv, Sound, HoldsProject, LockModeOf

LEMMA NewOriginsType ==
    ASSUME IInv, NEW r \in Requests
    PROVE  /\ NewOrigins(r) \in SUBSET (Candidates \cup {Nobody})
           /\ IsFiniteSet(NewOrigins(r)) /\ Cardinality(NewOrigins(r)) \in Nat
  <1>1. NewOrigins(r) = {Nobody} \/ NewOrigins(r) \in SUBSET Candidates
    BY DEF NewOrigins, Unpromoted, IInv, TypeOK, Request
  <1>2. PICK new \in SUBSET (Candidates \cup {Nobody}) : new = NewOrigins(r)
    BY <1>1
  <1>3. IsFiniteSet(new)
    <2>1. CASE new = {Nobody}
      BY <2>1, FS_Singleton
    <2>2. CASE new \in SUBSET Candidates
      BY <2>2, RequirementsAssumption, FS_Subset
    <2> QED BY <1>1, <1>2, <2>1, <2>2
  <1>4. Cardinality(new) \in Nat
    BY <1>3, FS_CardinalityType
  <1> QED BY <1>2, <1>3, <1>4

LEMMA NoCollision ==
    ASSUME IInv, NEW r \in Requests, At(r, "numbered", AddOps)
    PROVE  /\ NewNumbers(r) = Cardinality(Existing) + 1 .. Cardinality(Existing) + Cardinality(NewOrigins(r))
           /\ NewNumbers(r) \cap Numbers = {}
  <1> DEFINE c == Cardinality(Existing)
             m == Cardinality(NewOrigins(r))
  <1>1. c \in Nat /\ m \in Nat /\ req[r].number = c + 1 /\ Numbers = 1 .. c
    BY ExistingFinite, NewOriginsType DEF IInv, Sound, HoldsNumber, NumbersExact, At
  <1>2. NewNumbers(r) = req[r].number .. req[r].number + m - 1
    BY DEF NewNumbers
  <1> HIDE DEF c, m
  <1>3. NewNumbers(r) = c + 1 .. c + m
    BY <1>1, <1>2
  <1>4. NewNumbers(r) \cap Numbers = {}
    BY <1>1, <1>3
  <1> QED BY <1>3, <1>4 DEF c, m

(* Which rows Inserted writes. *)
Adds(r, new, id, number) ==
    /\ \A k, l \in new : k # l => id[k] # id[l] /\ number[k] # number[l]
    /\ requirement' \in [RequirementIds -> Row]
    /\ versions' \in [RequirementIds -> Seq(State)]
    /\ \A k \in new : /\ requirement'[id[k]] = NewRow(number[k], req[r].state, k)
                      /\ versions'[id[k]] = <<req[r].state>>
    /\ \A i \in RequirementIds : i \notin {id[k] : k \in new} =>
         requirement'[i] = requirement[i] /\ versions'[i] = versions[i]

LEMMA InsertedAdds ==
    ASSUME IInv, NEW r \in Requests, Inserted(r), At(r, "numbered", AddOps)
    PROVE  \E new \in SUBSET (Candidates \cup {Nobody}) :
             /\ new = NewOrigins(r) /\ IsFiniteSet(new)
             /\ \E id \in [new -> Fresh],
                   number \in [new -> Cardinality(Existing) + 1 .. Cardinality(Existing) + Cardinality(new)] :
                   Adds(r, new, id, number)
  <1>1. PICK new \in SUBSET (Candidates \cup {Nobody}) : new = NewOrigins(r) /\ IsFiniteSet(new)
    BY NewOriginsType
  <1>2. PICK c \in Nat : c = Cardinality(Existing)
    BY ExistingFinite
  <1> DEFINE range == c + 1 .. c + Cardinality(new)
  <1>3. NewNumbers(r) = range /\ range \subseteq Nat
    BY <1>1, <1>2, NoCollision, FS_CardinalityType
  <1>4. PICK id \in [new -> Fresh], number \in [new -> range] :
         /\ \A k, l \in new : k # l => id[k] # id[l] /\ number[k] # number[l]
         /\ Rows(r, new, id, number)
    BY <1>1, <1>3 DEF Inserted
  <1> HIDE DEF range
  <1> DEFINE origin(i) == CHOOSE k \in new : id[k] = i
             added == {id[k] : k \in new}
  <1>5. \A k \in new : origin(id[k]) = k
    BY <1>4
  <1>6. /\ requirement' = [i \in RequirementIds |->
                     IF i \in added THEN NewRow(number[origin(i)], req[r].state, origin(i))
                     ELSE requirement[i]]
        /\ versions' = [i \in RequirementIds |->
                     IF i \in added THEN <<req[r].state>> ELSE versions[i]]
    BY <1>4 DEF Rows
  <1>7. \A k \in new : id[k] \in added /\ id[k] \in RequirementIds
    BY DEF Fresh
  <1>8. \A i \in added : \E k \in new : i = id[k]
    OBVIOUS
  <1> HIDE DEF origin, added
  <1>9. \A k \in new : /\ requirement'[id[k]] = NewRow(number[k], req[r].state, k)
                       /\ versions'[id[k]] = <<req[r].state>>
    BY <1>5, <1>6, <1>7
  <1>10. \A i \in RequirementIds : i \notin added =>
           requirement'[i] = requirement[i] /\ versions'[i] = versions[i]
    BY <1>6
  <1>11. ASSUME NEW k \in new
         PROVE  NewRow(number[k], req[r].state, k) \in Row /\ <<req[r].state>> \in Seq(State)
    <2>1. req[r].state \in State /\ number[k] \in Nat /\ k \in Candidates \cup {Nobody}
      BY <1>3 DEF IInv, TypeOK, Request
    <2> QED BY <2>1 DEF NewRow, Row
  <1>12. \A i \in RequirementIds : requirement'[i] \in Row /\ versions'[i] \in Seq(State)
    <2> SUFFICES ASSUME NEW i \in RequirementIds
                 PROVE  requirement'[i] \in Row /\ versions'[i] \in Seq(State)
      OBVIOUS
    <2>1. CASE i \in added
      BY <1>8, <1>9, <1>11, <2>1
    <2>2. CASE i \notin added
      BY <1>10, <2>2 DEF IInv, TypeOK
    <2> QED BY <2>1, <2>2
  <1>13. requirement' \in [RequirementIds -> Row] /\ versions' \in [RequirementIds -> Seq(State)]
    BY <1>6, <1>12
  <1>14. Adds(r, new, id, number)
    BY <1>4, <1>9, <1>10, <1>13 DEF Adds, added
  <1> QED BY <1>1, <1>2, <1>14 DEF range

LEMMA AddsNumbers ==
    ASSUME IInv, NEW r \in Requests, NEW new, IsFiniteSet(new),
           NEW id \in [new -> Fresh],
           NEW number \in [new -> Cardinality(Existing) + 1 .. Cardinality(Existing) + Cardinality(new)],
           Adds(r, new, id, number)
    PROVE  NumbersExact'
  <1>1. PICK E \in SUBSET RequirementIds, F \in SUBSET RequirementIds : E = Existing /\ F = Fresh
    BY DEF Existing, Fresh
  <1> DEFINE c == Cardinality(E)
             m == Cardinality(new)
             added == {id[k] : k \in new}
             given == {number[k] : k \in new}
  <1>2. c \in Nat /\ m \in Nat /\ IsFiniteSet(E)
    BY <1>1, ExistingFinite, FS_CardinalityType
  <1>3. F \cap E = {} /\ id \in [new -> F] /\ added \subseteq RequirementIds /\ added \cap E = {}
    BY <1>1 DEF Existing, Fresh
  <1>4. given = c + 1 .. c + m
    BY <1>1, <1>2, NumbersUsedUp DEF Adds
  <1>5. Cardinality(E \cup added) = c + m
    <2>1. \A k, l \in new : k # l => id[k] # id[l]
      BY DEF Adds
    <2>2. id \in Bijection(new, added)
      BY <2>1 DEF Bijection, Injection, Surjection, IsInjective
    <2> HIDE DEF added, c, m
    <2>3. ExistsBijection(new, added)
      BY <2>2 DEF ExistsBijection
    <2>4. Cardinality(E \cup added) = Cardinality(E) + Cardinality(new)
      BY <1>2, <1>3, <2>3, CountAdded
    <2> QED BY <2>4 DEF c, m
  <1>6. \A k \in new : requirement'[id[k]].exists /\ requirement'[id[k]].number = number[k]
    <2>1. \A k \in new : requirement'[id[k]] = NewRow(number[k], req[r].state, k)
      BY DEF Adds
    <2>2. \A k \in new : /\ NewRow(number[k], req[r].state, k).exists = TRUE
                         /\ NewRow(number[k], req[r].state, k).number = number[k]
      BY DEF NewRow
    <2> QED BY <2>1, <2>2
  <1>7. \A i \in RequirementIds \ added : requirement'[i] = requirement[i]
    BY DEF Adds
  <1>8. \A i \in E : i \notin added /\ requirement'[i] = requirement[i]
    BY <1>3, <1>7
  <1>9. Existing' = E \cup added
    BY <1>1, <1>3, <1>6, <1>7, <1>8 DEF Existing
  <1>10. Numbers' = {requirement'[i].number : i \in E \cup added}
    BY <1>9 DEF Numbers, Existing
  <1>11. Numbers = {requirement[i].number : i \in E}
    BY <1>1 DEF Numbers, Existing
  <1>12. Numbers' = Numbers \cup given
    BY <1>6, <1>8, <1>10, <1>11
  <1>13. Numbers = 1 .. c
    BY <1>1 DEF IInv, NumbersExact
  <1> HIDE DEF c, m, added, given
  <1>14. Numbers' = 1 .. c + m
    BY <1>2, <1>4, <1>12, <1>13
  <1> QED BY <1>5, <1>9, <1>14 DEF NumbersExact

LEMMA AddRequirementsKeeps ==
    ASSUME IInv, NEW r \in Requests, AddRequirements(r)
    PROVE  IInv'
  <1>1. At(r, "numbered", AddOps)
    BY DEF AddRequirements
  <1>2. Inserted(r)
    BY <1>1, NoCollision DEF AddRequirements
  <1>3. Ended(r, "ok") /\ UNCHANGED <<project, sets>>
    BY <1>2, AnswerEnds DEF IInv, Inserted
  <1>4. PICK new \in SUBSET (Candidates \cup {Nobody}) :
             /\ new = NewOrigins(r) /\ IsFiniteSet(new)
             /\ \E id \in [new -> Fresh],
                   number \in [new -> Cardinality(Existing) + 1 .. Cardinality(Existing) + Cardinality(new)] :
                   Adds(r, new, id, number)
    BY <1>1, <1>2, InsertedAdds
  <1>5. PICK id \in [new -> Fresh],
             number \in [new -> Cardinality(Existing) + 1 .. Cardinality(Existing) + Cardinality(new)] :
             Adds(r, new, id, number)
    BY <1>4
  <1>6. NumbersExact'
    BY <1>4, <1>5, AddsNumbers
  <1>7. \A q \in Requests \ {r} : req[q].pc \notin InTransaction
    BY <1>1, Alone DEF At, AddOps, RowOps, InTransaction
  <1>8. /\ requirement' \in [RequirementIds -> Row] /\ versions' \in [RequirementIds -> Seq(State)]
    BY <1>5 DEF Adds
  <1>9. ASSUME NEW i \in RequirementIds
        PROVE  /\ Legal(i)' /\ Len(versions[i]) <= Len(versions'[i])
               /\ \A v \in 1 .. Len(versions[i]) : versions'[i][v] = versions[i][v]
    <2>1. Legal(i) /\ versions[i] \in Seq(State) /\ Len(versions[i]) \in Nat /\ requirement[i] \in Row
      BY DEF IInv, TypeOK
    <2>2. CASE i \notin {id[k] : k \in new}
      BY <1>5, <2>1, <2>2 DEF Adds, Legal
    <2>3. CASE i \in {id[k] : k \in new}
      <3>1. PICK k \in new : i = id[k]
        BY <2>3
      <3>2. ~ requirement[i].exists
        BY <3>1 DEF Fresh
      <3>3. Len(versions[i]) = 0
        BY <2>1, <3>2 DEF Legal, Row
      <3>4. /\ requirement'[i] = NewRow(number[k], req[r].state, k)
            /\ versions'[i] = <<req[r].state>>
        BY <1>5, <3>1 DEF Adds
      <3>5. /\ requirement'[i].exists /\ requirement'[i].version = 1
            /\ requirement'[i].state = req[r].state
        BY <3>4 DEF NewRow
      <3> QED BY <3>3, <3>4, <3>5 DEF Legal
    <2> QED BY <2>2, <2>3
  <1>10. Kept(r)'
    BY <1>1, <1>3 DEF Ended, Kept, At, AddOps
  <1> QED BY <1>3, <1>6, <1>7, <1>8, <1>9, <1>10, CommitKeeps
          DEF IInv, TypeOK, ProjectTypeOK, InTransaction

----------------------------------------------------------------------------
(* A locked row. *)

LEMMA LockedSound ==
    ASSUME IInv, NEW r \in Requests, req[r].pc = "locked"
    PROVE  /\ req[r] \in Request /\ req[r].op \in RowOps /\ req[r].id \in RequirementIds
           /\ req[r].row = requirement[req[r].id] /\ requirement[req[r].id] \in Row
           /\ Live(req[r].id) /\ req[r].state \in State /\ req[r].expected \in Nat
           /\ Legal(req[r].id) /\ versions[req[r].id] \in Seq(State)
           /\ \A q \in Requests \ {r} :
                /\ req[q].pc = "locked" => req[q].id # req[r].id
                /\ req[q].pc \notin {"numbered", "selected"}
  <1>1. /\ req[r] \in Request /\ req[r].op \in RowOps /\ req[r].id \in RequirementIds
        /\ req[r].row = requirement[req[r].id] /\ requirement[req[r].id] \in Row
        /\ Live(req[r].id) /\ req[r].state \in State /\ req[r].expected \in Nat
        /\ versions[req[r].id] \in Seq(State) /\ rowLock[req[r].id] = r
    BY DEF IInv, TypeOK, Sound, HoldsRow, Request
  <1>2. Legal(req[r].id)
    BY <1>1 DEF IInv
  <1>3. \A q \in Requests \ {r} : req[q].pc = "locked" => req[q].id # req[r].id
    BY <1>1 DEF IInv, Sound, HoldsRow
  <1>4. \A q \in Requests \ {r} : req[q].pc \notin {"numbered", "selected"}
    <2> SUFFICES ASSUME NEW q \in Requests \ {r}, req[q].pc \in {"numbered", "selected"}
                 PROVE  FALSE
      OBVIOUS
    <2>1. req[q].pc \in InTransaction /\ req[q].op \notin RowOps
      BY DEF IInv, Sound, HoldsNumber, HoldsPins, InTransaction, AddOps, RowOps
    <2> QED BY <2>1, Alone DEF InTransaction
  <1> QED BY <1>1, <1>2, <1>3, <1>4

LEMMA DeleteKeeps ==
    ASSUME IInv, NEW r \in Requests, Delete(r)
    PROVE  IInv'
  <1> DEFINE i == req[r].id
             row == [requirement[i] EXCEPT !.deleted = TRUE]
  <1>1. req[r].pc = "locked" /\ req[r].op = "delete"
    BY DEF Delete, At
  <1>2. i \in RequirementIds /\ requirement[i] \in Row
    BY <1>1, LockedSound
  <1>3. /\ row \in Row /\ row.exists = requirement[i].exists /\ row.version = requirement[i].version
        /\ row.state = requirement[i].state /\ row.number = requirement[i].number
    BY <1>2 DEF Row
  <1>4. requirement' = [requirement EXCEPT ![i] = row] /\ UNCHANGED <<project, versions, sets>>
    BY DEF Delete, IInv, TypeOK
  <1>5. Ended(r, "ok")
    BY AnswerEnds DEF IInv, Delete
  <1> HIDE DEF row
  <1>6. /\ requirement' \in [RequirementIds -> Row] /\ requirement'[i] = row
        /\ \A j \in RequirementIds \ {i} : requirement'[j] = requirement[j]
    BY <1>2, <1>3, <1>4 DEF IInv, TypeOK
  <1>7. \A j \in RequirementIds : /\ requirement'[j].exists = requirement[j].exists
                                  /\ requirement'[j].version = requirement[j].version
                                  /\ requirement'[j].state = requirement[j].state
                                  /\ requirement'[j].number = requirement[j].number
    BY <1>3, <1>6
  <1>8. NumbersExact'
    <2>1. Existing' = Existing
      BY <1>7 DEF Existing
    <2>2. Numbers' = Numbers
      BY <1>7 DEF Numbers
    <2> QED BY <2>1, <2>2 DEF IInv, NumbersExact
  <1>9. \A j \in RequirementIds : Legal(j)'
    BY <1>4, <1>7 DEF IInv, Legal
  <1>10. Kept(r)'
    BY <1>1, <1>5 DEF Ended, Kept
  <1>11. \A j \in RequirementIds : Len(versions[j]) \in Nat
    BY DEF IInv, TypeOK
  <1>12. /\ project' \in ProjectStatus /\ sets' \in Seq(Pins)
         /\ versions' \in [RequirementIds -> Seq(State)]
    BY <1>4 DEF IInv, TypeOK, ProjectTypeOK
  <1>13. \A q \in Requests \ {r} :
           /\ req[q].pc = "locked" => requirement'[req[q].id] = requirement[req[q].id]
           /\ req[q].pc \notin {"numbered", "selected"}
    <2>1. \A q \in Requests : req[q].id \in RequirementIds
      BY DEF IInv, TypeOK, Request
    <2> QED BY <1>1, <1>6, <2>1, LockedSound
  <1>14. \A j \in RequirementIds :
             /\ Len(versions[j]) <= Len(versions'[j])
             /\ \A v \in 1 .. Len(versions[j]) : versions'[j][v] = versions[j][v]
    BY <1>4, <1>11
  <1> QED BY <1>5, <1>6, <1>8, <1>9, <1>10, <1>12, <1>13, <1>14, CommitKeeps

(* A revision that Requirement.revise lets through follows the lifecycle. *)
LEMMA RevisionFollows ==
    ASSUME NEW r \in Requests, req[r].row.state \in State, req[r].state \in State,
           req[r].state # req[r].row.state, Revisable(r)
    PROVE  Follows(req[r].row.state, req[r].state)
  <1> DEFINE before == req[r].row.state
             after == req[r].state
  <1>1. /\ CheckTransition(before.status, after.status)
        /\ after.content # before.content =>
             /\ before.status # "deprecated"
             /\ ~ (before.status = "satisfied" /\ after.status # "active")
    BY DEF Revisable, ContentLocked
  <1>2. before.content = after.content => before.status # after.status
    BY DEF State
  <1>3. before.status # "deprecated"
    <2> SUFFICES ASSUME before.status = "deprecated" PROVE FALSE
      OBVIOUS
    <2>1. after.status = "deprecated"
      BY <1>1 DEF CheckTransition, TRANSITIONS
    <2> QED BY <1>1, <1>2, <2>1
  <1> QED BY <1>1, <1>3 DEF Follows

LEMMA UpdateKeeps ==
    ASSUME IInv, NEW r \in Requests, Update(r)
    PROVE  IInv'
  <1>1. req[r].pc = "locked" /\ req[r].op = "update"
    BY DEF Update, At
  <1>2. PICK i \in RequirementIds, s \in State, n \in Nat, m \in Nat :
             i = req[r].id /\ s = req[r].state /\ n = requirement[i].version /\ m = n + 1
    BY <1>1, LockedSound DEF Row
  <1> DEFINE h == versions[i]
             row == [requirement[i] EXCEPT !.version = m, !.state = s]
  <1>3. /\ requirement[i] \in Row /\ req[r].row = requirement[i] /\ requirement[i].exists
        /\ requirement[i].state \in State
        /\ Legal(i) /\ h \in Seq(State) /\ Len(h) = n /\ n > 0
    BY <1>1, <1>2, LockedSound DEF Live, Row, Legal
  <1>3a. /\ row \in Row /\ row.exists = requirement[i].exists /\ row.version = m
        /\ row.state = s /\ row.number = requirement[i].number
    BY <1>3 DEF Row
  <1>4. /\ requirement' = [requirement EXCEPT ![i] = row]
        /\ versions' = [versions EXCEPT ![i] = Append(h, s)]
        /\ UNCHANGED <<project, sets>> /\ req[r].expected = n
    BY <1>2, <1>3 DEF Update, ExpectedIsCurrent, IInv, TypeOK
  <1>5. Ended(r, "ok")
    BY AnswerEnds DEF IInv, Update
  <1>6. h[n] = requirement[i].state /\ Follows(h[n], s)
    <2>1. h[n] = requirement[i].state
      BY <1>3 DEF Legal
    <2>2. Follows(req[r].row.state, req[r].state)
      BY <1>2, <1>3, RevisionFollows DEF Update
    <2> QED BY <1>2, <1>3, <2>1, <2>2
  <1> HIDE DEF row, h
  <1>7. /\ requirement' \in [RequirementIds -> Row] /\ requirement'[i] = row
        /\ \A j \in RequirementIds \ {i} : requirement'[j] = requirement[j]
    BY <1>3a, <1>4 DEF IInv, TypeOK
  <1>8. /\ versions' \in [RequirementIds -> Seq(State)]
        /\ versions'[i] = Append(h, s)
        /\ \A j \in RequirementIds \ {i} : versions'[j] = versions[j]
    <2>1. Append(h, s) \in Seq(State)
      BY <1>3
    <2> QED BY <1>4, <2>1 DEF IInv, TypeOK
  <1>9. /\ Len(versions'[i]) = m /\ versions'[i][m] = s
        /\ \A v \in 1 .. n : versions'[i][v] = h[v]
    BY <1>2, <1>3, <1>8
  <1>10. Legal(i)'
    <2>1. \A v \in 2 .. m : Follows(versions'[i][v - 1], versions'[i][v])
      <3> SUFFICES ASSUME NEW v \in 2 .. m
                   PROVE  Follows(versions'[i][v - 1], versions'[i][v])
        OBVIOUS
      <3>1. CASE v = m
        <4>1. m - 1 = n /\ n \in 1 .. n
          BY <1>2, <1>3
        <4> QED BY <1>6, <1>9, <3>1, <4>1
      <3>2. CASE v # m
        <4>1. v \in 2 .. n /\ v \in 1 .. n /\ v - 1 \in 1 .. n
          BY <1>2, <3>2
        <4> QED BY <1>3, <1>9, <4>1 DEF Legal, h
      <3> QED BY <3>1, <3>2
    <2>2. /\ requirement'[i].version = m /\ requirement'[i].state = s /\ m > 0
      BY <1>2, <1>3, <1>3a, <1>7
    <2>4. requirement'[i].exists
      BY <1>3, <1>3a, <1>7, Zenon
    <2>3. \A v \in 2 .. Len(versions'[i]) : Follows(versions'[i][v - 1], versions'[i][v])
      BY <1>9, <2>1
    <2> QED BY <1>9, <2>2, <2>3, <2>4 DEF Legal
  <1>11. ASSUME NEW j \in RequirementIds \ {i} PROVE Legal(j)'
    BY <1>7, <1>8 DEF IInv, Legal
  <1>12. \A j \in RequirementIds :
             /\ Len(versions[j]) <= Len(versions'[j])
             /\ \A v \in 1 .. Len(versions[j]) : versions'[j][v] = versions[j][v]
    <2>1. \A j \in RequirementIds : Len(versions[j]) \in Nat
      BY DEF IInv, TypeOK
    <2>2. ASSUME NEW j \in RequirementIds \ {i}
          PROVE  /\ Len(versions[j]) <= Len(versions'[j])
                 /\ \A v \in 1 .. Len(versions[j]) : versions'[j][v] = versions[j][v]
      BY <1>8, <2>1
    <2>3. /\ Len(versions[i]) <= Len(versions'[i])
          /\ \A v \in 1 .. Len(versions[i]) : versions'[i][v] = versions[i][v]
      <3>1. Len(versions[i]) = n /\ n <= m
        BY <1>2, <1>3 DEF h
      <3> QED BY <1>9, <3>1 DEF h
    <2> QED BY <2>2, <2>3
  <1>13. NumbersExact'
    <2>1. \A j \in RequirementIds : /\ requirement'[j].exists = requirement[j].exists
                                    /\ requirement'[j].number = requirement[j].number
      BY <1>3a, <1>7
    <2>2. Existing' = Existing
      BY <2>1 DEF Existing
    <2>3. Numbers' = Numbers
      BY <2>1 DEF Numbers
    <2> QED BY <2>2, <2>3 DEF IInv, NumbersExact
  <1>14. Kept(r)'
    BY <1>1, <1>2, <1>4, <1>5, <1>9 DEF Ended, Kept
  <1>15. \A q \in Requests \ {r} :
           /\ req[q].pc = "locked" => requirement'[req[q].id] = requirement[req[q].id]
           /\ req[q].pc \notin {"numbered", "selected"}
    <2>1. \A q \in Requests : req[q].id \in RequirementIds
      BY DEF IInv, TypeOK, Request
    <2> QED BY <1>1, <1>2, <1>7, <2>1, LockedSound
  <1>16. project' \in ProjectStatus /\ sets' \in Seq(Pins)
    BY <1>4 DEF IInv, TypeOK, ProjectTypeOK
  <1>17. \A j \in RequirementIds : Legal(j)'
    BY <1>10, <1>11
  <1> QED BY <1>5, <1>7, <1>8, <1>12, <1>13, <1>14, <1>15, <1>16, <1>17, CommitKeeps

(* Pin stores what was selected, which is still current. *)
LEMMA PinStores ==
    ASSUME IInv, NEW r \in Requests, Pin(r)
    PROVE  \E pins \in Pins : sets' = Append(sets, pins) /\ PinsCurrent(pins)
  <1>1. req[r].pins \in Pins /\ PinsCurrent(req[r].pins) /\ sets' = Append(sets, req[r].pins)
    BY DEF Pin, At, IInv, TypeOK, Request, Sound, HoldsPins
  <1> QED BY <1>1

LEMMA PinKeeps ==
    ASSUME IInv, NEW r \in Requests, Pin(r)
    PROVE  IInv'
  <1>1. PICK pins \in Pins : sets' = Append(sets, pins)
    BY PinStores
  <1>2. Ended(r, "ok") /\ UNCHANGED <<project, requirement, versions>>
    BY AnswerEnds DEF IInv, Pin
  <1>3. sets' \in Seq(Pins)
    BY <1>1 DEF IInv, TypeOK
  <1>4. Kept(r)'
    BY <1>2 DEF Ended, Kept, Pin, At
  <1>5. NumbersExact' /\ \A i \in RequirementIds : Legal(i)'
    BY <1>2 DEF IInv, NumbersExact, Numbers, Existing, Legal
  <1>6. \A i \in RequirementIds : Len(versions[i]) \in Nat
    BY DEF IInv, TypeOK
  <1> QED BY <1>2, <1>3, <1>4, <1>5, <1>6, CommitKeeps DEF IInv, TypeOK, ProjectTypeOK

----------------------------------------------------------------------------
(* Every behaviour of the specification keeps the invariant. *)

LEMMA StepCases ==
    ASSUME NEW r \in Requests, Step(r) \/ Abort(r)
    PROVE  \/ Admit(r) \/ ProjectStep(r) \/ AllocateNumber(r) \/ AddRequirements(r) \/ LockRow(r)
           \/ Update(r) \/ UpdateUnchanged(r) \/ Delete(r) \/ Select(r) \/ Pin(r)
           \/ \E answer \in {"refused", "conflict", "failed"} : Finish(r, answer)
  <1>1. Refuses(r) \/ ProjectStepRefused(r) \/ RequirementNotFound(r) \/ UpdateConflict(r)
        \/ UpdateRefused(r) \/ SelectRefused(r) \/ Abort(r) =>
          \E answer \in {"refused", "conflict", "failed"} : Finish(r, answer)
    BY DEF Refuses, ProjectStepRefused, RequirementNotFound, UpdateConflict, UpdateRefused,
           SelectRefused, Abort
  <1> QED BY <1>1, Zenon DEF Step

LEMMA NextKeeps == IInv /\ [Next]_vars => IInv'
  <1> SUFFICES ASSUME IInv, [Next]_vars PROVE IInv'
    OBVIOUS
  <1>1. ASSUME NEW r \in Requests, Ask(r) PROVE IInv'
    BY <1>1, AskKeeps
  <1>2. ASSUME NEW r \in Requests, Step(r) \/ Abort(r) PROVE IInv'
    BY <1>2, StepCases, AdmitKeeps, ProjectStepKeeps, AllocateNumberKeeps, AddRequirementsKeeps,
       LockRowKeeps, UpdateKeeps, UpdateUnchangedKeeps, DeleteKeeps, SelectKeeps, PinKeeps,
       FinishKeeps
  <1>3. CASE UNCHANGED vars
    <2>1. UNCHANGED <<project, projectLock, requirement, versions, sets, rowLock, req>>
      BY <1>3 DEF vars
    <2>2. TypeOK' /\ Excludes'
      BY <2>1 DEF IInv, TypeOK, ProjectTypeOK, Excludes
    <2>3. NumbersExact' /\ \A i \in RequirementIds : Legal(i)'
      BY <2>1, TablesSame DEF tables
    <2>4. ASSUME NEW r \in Requests PROVE Sound(r)'
      <3>1. Sound(r) /\ Existing' = Existing
        BY <2>1 DEF IInv, Existing
      <3>2. HoldsRow(r)' /\ HoldsPins(r)'
        BY <2>1, <3>1 DEF Sound, HoldsRow, HoldsPins, PinsCurrent, Live
      <3>3. HoldsProject(r)' /\ HoldsNumber(r)' /\ Unanswered(r)' /\ Kept(r)'
        BY <2>1, <3>1 DEF Sound, HoldsProject, HoldsNumber, Unanswered, Kept
      <3> QED BY <2>1, <3>1, <3>2, <3>3 DEF Sound
    <2> QED BY <2>2, <2>3, <2>4 DEF IInv
  <1> QED BY <1>1, <1>2, <1>3 DEF Next, Quiescent

LEMMA InitHolds == Init => IInv
  <1> SUFFICES ASSUME Init PROVE IInv
    OBVIOUS
  <1>1. PICK number \in [Seeded -> 1 .. Cardinality(Seeded)], state \in [Seeded -> State] :
         /\ \A i, j \in Seeded : i # j => number[i] # number[j]
         /\ requirement = [i \in RequirementIds |->
                             IF i \in Seeded THEN NewRow(number[i], state[i], Nobody) ELSE NoRow]
         /\ versions = [i \in RequirementIds |-> IF i \in Seeded THEN <<state[i]>> ELSE <<>>]
    BY DEF Init
  <1>2. Seeded \subseteq RequirementIds /\ IsFiniteSet(Seeded) /\ Cardinality(Seeded) \in Nat
    BY RequirementsAssumption, FS_Subset, FS_CardinalityType
  <1>3. \A r \in Requests : req[r] = NoRequest
    BY DEF Init
  <1>4. NoRequest.pc = "idle" /\ NoRequest.op = "none" /\ NoRequest.answer = "none"
    BY DEF NoRequest
  <1>5. ASSUME NEW i \in Seeded
        PROVE  LET row == NewRow(number[i], state[i], Nobody) IN
               /\ row \in Row /\ row.exists = TRUE /\ row.version = 1
               /\ row.state = state[i] /\ row.number = number[i]
    <2>1. number[i] \in Nat /\ state[i] \in State
      BY <1>2
    <2> QED BY <2>1 DEF NewRow, Row
  <1>6. NoRow \in Row /\ NoRow.exists = FALSE /\ NoRow.version = 0
    BY NoRowType DEF NoRow
  <1>7. \A i \in Seeded : requirement[i] = NewRow(number[i], state[i], Nobody) /\ versions[i] = <<state[i]>>
    BY <1>1, <1>2
  <1>8. \A i \in RequirementIds \ Seeded : requirement[i] = NoRow /\ versions[i] = <<>>
    BY <1>1
  <1>9. TypeOK
    <2>1. requirement \in [RequirementIds -> Row]
      BY <1>1, <1>5, <1>6
    <2>2. \A i \in Seeded : <<state[i]>> \in Seq(State)
      OBVIOUS
    <2>3. versions \in [RequirementIds -> Seq(State)]
      BY <1>1, <2>2
    <2>4. sets \in Seq(Pins)
      BY DEF Init
    <2> QED BY <2>1, <2>3, <2>4, NoRequestType DEF Init, TypeOK, ProjectTypeOK, ProjectInit
  <1>10. Excludes
    BY DEF Init, ProjectInit, Excludes
  <1>11. \A r \in Requests : Sound(r)
    BY <1>3, <1>4 DEF Sound, HoldsProject, HoldsNumber, HoldsRow, HoldsPins, Unanswered, Kept,
                      InTransaction
  <1>12. ASSUME NEW i \in RequirementIds PROVE Legal(i)
    <2>1. CASE i \in Seeded
      <3>1. /\ requirement[i].exists = TRUE /\ requirement[i].version = 1
            /\ requirement[i].state = state[i] /\ versions[i] = <<state[i]>>
        BY <1>5, <1>7, <2>1
      <3>2. Len(versions[i]) = 1 /\ versions[i][1] = state[i]
        BY <3>1
      <3> QED BY <3>1, <3>2 DEF Legal
    <2>2. CASE i \notin Seeded
      BY <1>6, <1>8, <2>2 DEF Legal
    <2> QED BY <2>1, <2>2
  <1>13. NumbersExact
    <2>1. {number[i] : i \in Seeded} = 0 + 1 .. 0 + Cardinality(Seeded)
      <3>1. 0 + 1 .. 0 + Cardinality(Seeded) = 1 .. Cardinality(Seeded)
        BY <1>2
      <3>2. number \in [Seeded -> 0 + 1 .. 0 + Cardinality(Seeded)]
        BY <3>1
      <3> QED BY <1>1, <1>2, <3>2, NumbersUsedUp
    <2>2. Existing = Seeded
      BY <1>2, <1>5, <1>6, <1>7, <1>8 DEF Existing
    <2>3. Numbers = {requirement[i].number : i \in Seeded}
      BY <2>2 DEF Numbers, Existing
    <2>4. \A i \in Seeded : requirement[i].number = number[i]
      BY <1>5, <1>7
    <2>5. Numbers = {number[i] : i \in Seeded}
      BY <2>3, <2>4
    <2> QED BY <1>2, <2>1, <2>2, <2>5 DEF NumbersExact
  <1> QED BY <1>9, <1>10, <1>11, <1>12, <1>13 DEF IInv

LEMMA Invariance == Spec => []IInv
  BY InitHolds, NextKeeps, PTL DEF Spec

(* For any number of requirements and of requests that create, promote,    *)
(* revise and delete them at the same time, numbers are given out without  *)
(* a gap and without a collision, and every history is complete and        *)
(* follows the lifecycle of requirements/lifecycle.py.                     *)
THEOREM RegisterSoundHolds == Spec => []RegisterSound
  <1>1. IInv => RegisterSound
    <2> SUFFICES ASSUME IInv PROVE RegisterSound
      OBVIOUS
    <2>1. ReferencesUnique
      BY DEF IInv, NumbersExact, Existing, Sound, ReferencesUnique
    <2>2. HistoryLegal
      BY DEF IInv, Legal, Follows, HistoryLegal
    <2> QED BY <2>1, <2>2 DEF RegisterSound
  <1> QED BY <1>1, Invariance, PTL

(* No update is lost, however many clients revise the same requirement:    *)
(* what was answered "ok" is the version after the one the client read     *)
(* (RequirementService.update under the row lock).                         *)
THEOREM AcceptedUpdatesKeptHolds == Spec => []AcceptedUpdatesKept
  <1>1. IInv => AcceptedUpdatesKept
    BY DEF IInv, Sound, Kept, AcceptedUpdatesKept
  <1> QED BY <1>1, Invariance, PTL

LEMMA OthersKeepSets ==
    ASSUME Next, ~ UNCHANGED sets
    PROVE  \E r \in Requests : Pin(r)
  <1>1. PICK r \in Requests : Ask(r) \/ Step(r) \/ Abort(r)
    BY DEF Next, Quiescent, vars
  <1>2. Ask(r) => UNCHANGED sets
    BY DEF Ask, Asked, tables
  <1>3. Admit(r) \/ ProjectStep(r) \/ AllocateNumber(r) \/ AddRequirements(r) \/ LockRow(r)
        \/ Update(r) \/ UpdateUnchanged(r) \/ Delete(r) \/ Select(r) => UNCHANGED sets
    BY DEF Admit, ProjectStep, AllocateNumber, AddRequirements, Inserted, LockRow, Update,
           UpdateUnchanged, Delete, Select, Finish, tables
  <1>4. \A answer \in {"refused", "conflict", "failed"} : Finish(r, answer) => UNCHANGED sets
    BY DEF Finish, tables
  <1> QED BY <1>1, <1>2, <1>3, <1>4, StepCases

(* A stored set pins, for any number of requirements, exactly versions     *)
(* that are current, live and in force at the moment it is stored, and     *)
(* stored sets never change (RequirementSetService.create).                *)
THEOREM SetsPinCurrentHolds == Spec => SetsPinCurrent
  <1>1. IInv /\ [Next]_vars =>
          [sets' # sets =>
             /\ Len(sets') = Len(sets) + 1
             /\ SubSeq(sets', 1, Len(sets)) = sets
             /\ \A i \in RequirementIds : sets'[Len(sets')][i] > 0 =>
                  /\ Live(i)
                  /\ requirement[i].version = sets'[Len(sets')][i]
                  /\ requirement[i].state.status \in InForce]_vars
    <2> SUFFICES ASSUME IInv, Next, sets' # sets
                 PROVE  /\ Len(sets') = Len(sets) + 1
                        /\ SubSeq(sets', 1, Len(sets)) = sets
                        /\ PinsCurrent(sets'[Len(sets')])
      BY DEF PinsCurrent, vars
    <2>1. PICK r \in Requests : Pin(r)
      BY OthersKeepSets
    <2>2. PICK pins \in Pins : sets' = Append(sets, pins) /\ PinsCurrent(pins)
      BY <2>1, PinStores
    <2>3. sets \in Seq(Pins)
      BY DEF IInv, TypeOK
    <2>4. Len(sets') = Len(sets) + 1 /\ sets'[Len(sets')] = pins
      BY <2>2, <2>3
    <2>5. SubSeq(sets', 1, Len(sets)) = sets
      BY <2>2, <2>3
    <2> QED BY <2>2, <2>4, <2>5
  <1> QED BY <1>1, Invariance, PTL DEF SetsPinCurrent, Spec
=============================================================================
