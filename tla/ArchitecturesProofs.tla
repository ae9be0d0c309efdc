------------------------ MODULE ArchitecturesProofs ------------------------
(* Theorems about Architectures, for every set of requests, architectures, *)
(* nodes and names.                                                        *)
EXTENDS Architectures, TLAPS

USE DEF LockModes, ProjectStatus, ArchStatus, Stages, Answers

----------------------------------------------------------------------------
(* The inductive invariant. *)

InTransaction == {"admitted", "locked", "checked"}

(* A transaction keeps the project lock it was admitted with, and the lock *)
(* of a lifecycle step excludes every other transaction.                   *)
ProjectLocks ==
    /\ \A r \in Requests : req[r].pc \in InTransaction =>
         projectLock[r] = LockModeOf(req[r].op)
    /\ \A r, q \in Requests :
         r # q /\ projectLock[r] = "exclusive" => projectLock[q] = "none"

(* The project stays modifiable under a transaction that was let in. *)
AdmittedModifiable ==
    \A r \in Requests :
        req[r].pc \in InTransaction /\ req[r].op \notin ProjectSteps => Modifiable

(* The row a request read under its row lock is still the row. *)
RowFresh ==
    \A r \in Requests : req[r].pc = "locked" =>
        /\ archLock[req[r].arch] = r
        /\ req[r].row = arch[req[r].arch]
        /\ Live(req[r].row)
        /\ req[r].op \in RowLockOps

(* A new identifier belongs to one creation, and to no row until then. *)
Creating(r) == req[r].pc \in {"asked", "admitted"} /\ req[r].op = "create"
FreshIds ==
    /\ \A r \in Requests : Creating(r) => arch[req[r].arch].status = "none"
    /\ \A r, q \in Requests :
         r # q /\ Creating(r) /\ Creating(q) => req[r].arch # req[q].arch

(* What Ask chose. *)
Arguments ==
    \A r \in Requests : req[r].pc \notin {"idle", "done"} =>
        /\ req[r].op \in ContentOps => req[r].base >= 1
        /\ req[r].op # "restore_revision" => req[r].from = 0

IInv ==
    /\ TypeOK
    /\ ProjectLocks
    /\ AdmittedModifiable
    /\ RowFresh
    /\ FreshIds
    /\ Arguments
    /\ HistoryIntact

----------------------------------------------------------------------------
(* Types. *)

LEMMA NoRowType == NoRow \in Row
  <1>1. AnyName \in Names
    BY ArchitecturesAssumption DEF AnyName
  <1> QED BY <1>1 DEF NoRow, Row

LEMMA NoRequestType == NoRequest \in Request
  <1>1. AnyName \in Names
    BY ArchitecturesAssumption DEF AnyName
  <1>2. AnyArchitecture \in ArchitectureIds
    BY ArchitecturesAssumption DEF AnyArchitecture
  <1> QED BY <1>1, <1>2, NoRowType DEF NoRequest, Request

(* Ending a transaction keeps the lock tables and the requests typed. *)
LEMMA AnswerType ==
    ASSUME TypeOK, NEW r \in Requests, NEW answer \in Answers, Answer(r, answer)
    PROVE  /\ projectLock' \in [Requests -> LockModes]
           /\ archLock' \in [ArchitectureIds -> Requests \cup {Nobody}]
           /\ req' \in [Requests -> Request]
  <1>1. [NoRequest EXCEPT !.pc = "done", !.answer = answer] \in Request
    BY NoRequestType DEF Request
  <1> QED BY <1>1 DEF Answer, ReleaseLocks, Unlock, TypeOK, ProjectTypeOK

LEMMA AnswerMadeType ==
    ASSUME TypeOK, NEW r \in Requests, NEW made \in Nat, AnswerMade(r, made)
    PROVE  /\ projectLock' \in [Requests -> LockModes]
           /\ archLock' \in [ArchitectureIds -> Requests \cup {Nobody}]
           /\ req' \in [Requests -> Request]
  <1>1. [req[r] EXCEPT !.pc = "done", !.row = NoRow, !.answer = "ok", !.made = made] \in Request
    <2>1. req[r] \in Request
      BY DEF TypeOK
    <2>2. \A old \in Request :
            [old EXCEPT !.pc = "done", !.row = NoRow, !.answer = "ok", !.made = made] \in Request
      BY NoRowType DEF Request
    <2> QED BY <2>1, <2>2
  <1> QED BY <1>1 DEF AnswerMade, ReleaseLocks, Unlock, TypeOK, ProjectTypeOK

LEMMA FinishType ==
    ASSUME TypeOK, NEW r \in Requests, NEW answer \in Answers, Finish(r, answer)
    PROVE  TypeOK'
  BY AnswerType DEF Finish, archVars, TypeOK, ProjectTypeOK

(* What Ask chooses. *)
Asked(r, op, a, base, from, name, nodes) ==
    req' = [req EXCEPT ![r] =
              [@ EXCEPT !.pc = "asked", !.op = op, !.arch = a, !.base = base,
                        !.from = from, !.name = name, !.nodes = nodes]]

LEMMA AskChoice ==
    ASSUME TypeOK, NEW r \in Requests, Ask(r)
    PROVE  \E op \in AllOps, a \in ArchitectureIds, base \in Nat, from \in Nat,
              name \in Names, nodes \in SUBSET Nodes :
              /\ Asked(r, op, a, base, from, name, nodes)
              /\ IF op \in ContentOps THEN base >= 1 ELSE base = 0
              /\ op # "restore_revision" => from = 0
              /\ op = "create" =>
                   /\ arch[a].status = "none"
                   /\ \A q \in Requests : req[q].op = "create" => req[q].arch # a
  <1>1. PICK op \in Operations : \E a \in Targets(op) :
          \E base \in BaseChoices(op, a), from \in FromChoices(op, a),
             name \in NameChoices(op), nodes \in NodeChoices(op) :
             Asked(r, op, a, base, from, name, nodes)
    BY DEF Ask, Asked
  <1>2. PICK a \in Targets(op) :
          \E base \in BaseChoices(op, a), from \in FromChoices(op, a),
             name \in NameChoices(op), nodes \in NodeChoices(op) :
             Asked(r, op, a, base, from, name, nodes)
    BY <1>1
  <1>3. PICK base \in BaseChoices(op, a), from \in FromChoices(op, a),
             name \in NameChoices(op), nodes \in NodeChoices(op) :
             Asked(r, op, a, base, from, name, nodes)
    BY <1>2
  <1>4. op \in AllOps
    BY ArchitecturesAssumption
  <1>5. a \in ArchitectureIds
    BY ArchitecturesAssumption DEF Targets, AnyArchitecture
  <1>6. /\ base \in Nat /\ from \in Nat
        /\ IF op \in ContentOps THEN base >= 1 ELSE base = 0
        /\ op # "restore_revision" => from = 0
    BY <1>5 DEF BaseChoices, FromChoices, TypeOK, Row
  <1>7. name \in Names
    BY ArchitecturesAssumption DEF NameChoices, AnyName
  <1>8. nodes \in SUBSET Nodes
    BY DEF NodeChoices
  <1>9. op = "create" => /\ arch[a].status = "none"
                         /\ \A q \in Requests : req[q].op = "create" => req[q].arch # a
    BY DEF Targets, ProjectOps, ProjectSteps
  <1> QED BY <1>3, <1>4, <1>5, <1>6, <1>7, <1>8, <1>9

LEMMA AskType ==
    ASSUME TypeOK, NEW r \in Requests, Ask(r)
    PROVE  TypeOK'
  <1>1. PICK op \in AllOps, a \in ArchitectureIds, base \in Nat, from \in Nat,
             name \in Names, nodes \in SUBSET Nodes :
             Asked(r, op, a, base, from, name, nodes)
    BY AskChoice
  <1>2. [req[r] EXCEPT !.pc = "asked", !.op = op, !.arch = a, !.base = base,
                       !.from = from, !.name = name, !.nodes = nodes] \in Request
    <2>1. req[r] \in Request
      BY DEF TypeOK
    <2>2. \A old \in Request :
            [old EXCEPT !.pc = "asked", !.op = op, !.arch = a, !.base = base,
                        !.from = from, !.name = name, !.nodes = nodes] \in Request
      BY DEF Request
    <2> QED BY <2>1, <2>2
  <1> QED BY <1>1, <1>2 DEF Asked, Ask, archVars, TypeOK, ProjectTypeOK

(* The steps that end a transaction without a write are all Finish steps,  *)
(* so that a proof about every step has eleven cases.                      *)
LEMMA StepCases ==
    ASSUME [Next]_vars
    PROVE  \/ UNCHANGED vars
           \/ \E r \in Requests :
                \/ Ask(r) \/ Admit(r) \/ ProjectStep(r)
                \/ LockArchitecture(r) \/ CheckLayout(r)
                \/ UpdateMetadata(r) \/ Lifecycle(r)
                \/ Create(r) \/ Revise(r) \/ SaveLayout(r)
                \/ req[r].pc # "done" /\ \E answer \in Answers : Finish(r, answer)
  BY Zenon DEF Next, At, Step, Quiescent, Abort, ProjectRefuses, Denied, ProjectStepRefused,
         ProjectUpdate, ArchitectureNotFound, UpdateMetadataRefused, LifecycleRefused,
         CreateRefused, ReviseUnchanged, ReviseConflict, ReviseRefused,
         UnknownReference, LayoutRefused

LEMMA SaveRowType ==
    ASSUME TypeOK, NEW r \in Requests, NEW row \in Row, SaveRow(r, row)
    PROVE  TypeOK'
  <1>1. arch' \in [ArchitectureIds -> Row]
    BY DEF SaveRow, Saved, TypeOK, Row
  <1> QED BY <1>1, AnswerType DEF SaveRow, TypeOK, ProjectTypeOK

(* What the provers need to know of the content operations. *)
LEMMA ContentType ==
    ASSUME TypeOK, NEW r \in Requests, req[r].op \in ContentOps,
           req[r].base \in 1 .. Len(revisions[req[r].arch]), Loads(r)
    PROVE  /\ req[r].arch \in ArchitectureIds
           /\ ParentContent(r) \in SUBSET Nodes
           /\ NewContent(r) \in SUBSET Nodes
  <1> DEFINE revs == revisions[req[r].arch]
  <1>1. req[r] \in Request /\ revs \in Seq(Revision)
    BY DEF TypeOK, Request
  <1>2. \A n \in 1 .. Len(revs) : revs[n].content \in SUBSET Nodes
    <2>1. \A n \in 1 .. Len(revs) : revs[n] \in Revision
      BY <1>1
    <2> QED BY <2>1 DEF Revision
  <1>3. CASE req[r].op = "add_node"
    BY <1>1, <1>2, <1>3 DEF ParentContent, NewContent, Request
  <1>4. CASE req[r].op = "remove_nodes"
    BY <1>1, <1>2, <1>4 DEF ParentContent, NewContent, Request
  <1>5. CASE req[r].op = "replace"
    BY <1>1, <1>2, <1>5 DEF ParentContent, NewContent, Request
  <1>6. CASE req[r].op = "restore_revision"
    BY <1>1, <1>2, <1>6 DEF ParentContent, NewContent, Request, Loads
  <1> QED BY <1>3, <1>4, <1>5, <1>6 DEF ContentOps

----------------------------------------------------------------------------
(* The end of a transaction. *)

Ended(r) ==
    /\ req'[r].pc = "done" /\ projectLock'[r] = "none"
    /\ \A q \in Requests \ {r} : req'[q] = req[q] /\ projectLock'[q] = projectLock[q]
    /\ \A a \in ArchitectureIds : archLock[a] # r => archLock'[a] = archLock[a]

LEMMA AnswerEnds ==
    ASSUME TypeOK, NEW r \in Requests, NEW answer, Answer(r, answer)
    PROVE  Ended(r)
  BY NoRequestType DEF Answer, ReleaseLocks, Unlock, Ended, TypeOK, ProjectTypeOK, Request

LEMMA AnswerMadeEnds ==
    ASSUME TypeOK, NEW r \in Requests, NEW made, AnswerMade(r, made)
    PROVE  Ended(r)
  <1>1. req[r] \in Request
    BY DEF TypeOK
  <1>2. [req[r] EXCEPT !.pc = "done", !.row = NoRow, !.answer = "ok", !.made = made].pc = "done"
    BY <1>1 DEF Request
  <1> QED BY <1>2 DEF AnswerMade, ReleaseLocks, Unlock, Ended, TypeOK, ProjectTypeOK

LEMMA EndKeepsLocks ==
    ASSUME IInv, NEW r \in Requests, Ended(r), project' = project
    PROVE  ProjectLocks' /\ AdmittedModifiable' /\ Arguments'
  BY DEF IInv, Ended, ProjectLocks, AdmittedModifiable, Arguments, InTransaction, Modifiable

(* ... when it changed no row another request holds or is creating. *)
LEMMA EndKeepsRows ==
    ASSUME IInv, NEW r \in Requests, Ended(r),
           \A q \in Requests \ {r} : req[q].pc = "locked" \/ Creating(q) =>
               arch'[req[q].arch] = arch[req[q].arch]
    PROVE  RowFresh' /\ FreshIds'
  <1>1. \A q \in Requests : req[q].arch \in ArchitectureIds
    BY DEF IInv, TypeOK, Request
  <1>2. RowFresh'
    BY <1>1 DEF IInv, Ended, RowFresh, Live
  <1>3. FreshIds'
    BY DEF IInv, Ended, FreshIds, Creating
  <1> QED BY <1>2, <1>3

LEMMA FinishKeeps ==
    ASSUME IInv, NEW r \in Requests, NEW answer \in Answers, Finish(r, answer)
    PROVE  IInv'
  <1>1. Ended(r) /\ UNCHANGED <<project, arch, revisions>>
    BY AnswerEnds DEF Finish, archVars, IInv
  <1>2. TypeOK'
    BY FinishType DEF IInv
  <1>3. RowFresh' /\ FreshIds'
    BY <1>1, EndKeepsRows
  <1>4. ProjectLocks' /\ AdmittedModifiable' /\ Arguments'
    BY <1>1, EndKeepsLocks
  <1>5. HistoryIntact'
    BY <1>1 DEF IInv, HistoryIntact
  <1> QED BY <1>2, <1>3, <1>4, <1>5 DEF IInv

----------------------------------------------------------------------------
(* The start of a transaction. *)

LEMMA AskKeeps ==
    ASSUME IInv, NEW r \in Requests, Ask(r)
    PROVE  IInv'
  <1>1. TypeOK'
    BY AskType DEF IInv
  <1>2. PICK op \in AllOps, a \in ArchitectureIds, base \in Nat, from \in Nat,
             name \in Names, nodes \in SUBSET Nodes :
              /\ Asked(r, op, a, base, from, name, nodes)
              /\ op \in ContentOps => base >= 1
              /\ op # "restore_revision" => from = 0
              /\ op = "create" =>
                   /\ arch[a].status = "none"
                   /\ \A q \in Requests : req[q].op = "create" => req[q].arch # a
    BY AskChoice DEF IInv
  <1>3. req[r] \in Request
    BY DEF IInv, TypeOK
  <1>4. /\ req'[r].pc = "asked" /\ req'[r].op = op /\ req'[r].arch = a
        /\ req'[r].base = base /\ req'[r].from = from
        /\ \A q \in Requests \ {r} : req'[q] = req[q]
    BY <1>2, <1>3 DEF Asked, IInv, TypeOK, Request
  <1>5. UNCHANGED <<project, projectLock, arch, revisions, archLock>>
    BY DEF Ask, archVars
  <1>6. ProjectLocks' /\ AdmittedModifiable' /\ RowFresh'
    BY <1>4, <1>5 DEF IInv, ProjectLocks, AdmittedModifiable, RowFresh, InTransaction, Modifiable
  <1>7. Arguments'
    BY <1>2, <1>4 DEF IInv, Arguments
  <1>8. FreshIds'
    BY <1>2, <1>4, <1>5 DEF IInv, FreshIds, Creating
  <1>9. HistoryIntact'
    BY <1>5 DEF IInv, HistoryIntact
  <1> QED BY <1>1, <1>6, <1>7, <1>8, <1>9 DEF IInv

LEMMA AdmitKeeps ==
    ASSUME IInv, NEW r \in Requests, Admit(r)
    PROVE  IInv'
  <1> DEFINE op == req[r].op
  <1>1. req[r] \in Request /\ req[r].pc = "asked"
    BY DEF IInv, TypeOK, Admit
  <1>2. /\ req' = [req EXCEPT ![r].pc = "admitted"]
        /\ projectLock' = [projectLock EXCEPT ![r] = LockModeOf(op)]
        /\ UNCHANGED <<project, arch, revisions, layout, archLock>>
        /\ Compatible(r, LockModeOf(op)) /\ ProjectAdmits(op)
    BY DEF Admit, Lock, archVars
  <1>3. /\ req'[r].pc = "admitted" /\ req'[r] \in Request
        /\ req'[r].op = op /\ req'[r].arch = req[r].arch
        /\ req'[r].base = req[r].base /\ req'[r].from = req[r].from
        /\ \A q \in Requests \ {r} : req'[q] = req[q]
    BY <1>1, <1>2 DEF IInv, TypeOK, Request
  <1>4. LockModeOf(op) \in {"share", "exclusive"}
    BY DEF LockModeOf
  <1>5. TypeOK'
    BY <1>2, <1>3, <1>4 DEF IInv, TypeOK, ProjectTypeOK
  <1>6. ProjectLocks'
    BY <1>2, <1>3, <1>4 DEF IInv, TypeOK, ProjectTypeOK, ProjectLocks, Compatible
  <1>7. AdmittedModifiable'
    BY <1>2, <1>3 DEF IInv, AdmittedModifiable, ProjectAdmits, Modifiable
  <1>8. RowFresh' /\ Arguments'
    BY <1>1, <1>2, <1>3 DEF IInv, RowFresh, Arguments
  <1>9. FreshIds'
    BY <1>1, <1>2, <1>3 DEF IInv, FreshIds, Creating
  <1>10. HistoryIntact'
    BY <1>2 DEF IInv, HistoryIntact
  <1> QED BY <1>5, <1>6, <1>7, <1>8, <1>9, <1>10 DEF IInv

LEMMA LockArchitectureKeeps ==
    ASSUME IInv, NEW r \in Requests, LockArchitecture(r)
    PROVE  IInv'
  <1> DEFINE a == req[r].arch
  <1>1. /\ req[r] \in Request /\ req[r].pc = "admitted" /\ req[r].op \in RowLockOps
        /\ a \in ArchitectureIds /\ arch[a] \in Row
    BY DEF IInv, TypeOK, LockArchitecture, At, Request
  <1>2. /\ req' = [req EXCEPT ![r].pc = "locked", ![r].row = arch[a]]
        /\ archLock' = [archLock EXCEPT ![a] = r]
        /\ archLock[a] = Nobody /\ Live(arch[a])
        /\ UNCHANGED <<project, projectLock, arch, revisions, layout>>
    BY DEF LockArchitecture, archVars
  <1>3. /\ req'[r].pc = "locked" /\ req'[r].row = arch[a] /\ req'[r] \in Request
        /\ req'[r].op = req[r].op /\ req'[r].arch = a
        /\ req'[r].base = req[r].base /\ req'[r].from = req[r].from
        /\ \A q \in Requests \ {r} : req'[q] = req[q]
    BY <1>1, <1>2 DEF IInv, TypeOK, Request
  <1>4. TypeOK'
    BY <1>1, <1>2, <1>3 DEF IInv, TypeOK, ProjectTypeOK
  <1>5. ProjectLocks' /\ AdmittedModifiable'
    BY <1>1, <1>2, <1>3 DEF IInv, TypeOK, ProjectTypeOK, ProjectLocks, AdmittedModifiable, Modifiable,
                            InTransaction, LockModeOf
  <1>6. RowFresh'
    <2>1. \A q \in Requests : req[q].arch \in ArchitectureIds
      BY DEF IInv, TypeOK, Request
    <2>2. \A q \in Requests : q # Nobody
      BY ArchitecturesAssumption
    <2> QED BY <1>1, <1>2, <1>3, <2>1, <2>2 DEF IInv, TypeOK, RowFresh, Live
  <1>7. Arguments'
    BY <1>1, <1>3 DEF IInv, Arguments
  <1>8. FreshIds'
    <2>1. ~Creating(r)' /\ \A q \in Requests \ {r} : Creating(q)' <=> Creating(q)
      BY <1>3 DEF Creating
    <2> QED BY <1>2, <1>3, <2>1 DEF IInv, TypeOK, FreshIds
  <1>9. HistoryIntact'
    BY <1>2 DEF IInv, HistoryIntact
  <1> QED BY <1>4, <1>5, <1>6, <1>7, <1>8, <1>9 DEF IInv

LEMMA CheckLayoutKeeps ==
    ASSUME IInv, NEW r \in Requests, CheckLayout(r)
    PROVE  IInv'
  <1>1. /\ req[r] \in Request /\ req[r].pc = "admitted" /\ req[r].op = "save_layout"
        /\ arch[req[r].arch] \in Row
    BY DEF IInv, TypeOK, CheckLayout, At, Request
  <1>2. /\ req' = [req EXCEPT ![r].pc = "checked", ![r].row = arch[req[r].arch]]
        /\ UNCHANGED <<project, projectLock, arch, revisions, layout, archLock>>
    BY DEF CheckLayout, archVars
  <1>3. /\ req'[r].pc = "checked" /\ req'[r] \in Request /\ req'[r].op = req[r].op
        /\ req'[r].base = req[r].base /\ req'[r].from = req[r].from
        /\ \A q \in Requests \ {r} : req'[q] = req[q]
    BY <1>1, <1>2 DEF IInv, TypeOK, Request
  <1>4. TypeOK'
    BY <1>2, <1>3 DEF IInv, TypeOK, ProjectTypeOK
  <1>5. ProjectLocks' /\ AdmittedModifiable'
    BY <1>1, <1>2, <1>3 DEF IInv, TypeOK, ProjectTypeOK, ProjectLocks, AdmittedModifiable, Modifiable,
                            InTransaction, LockModeOf
  <1>6. RowFresh' /\ Arguments'
    BY <1>1, <1>2, <1>3 DEF IInv, TypeOK, RowFresh, Arguments, Live
  <1>8. FreshIds'
    <2>1. ~Creating(r)' /\ \A q \in Requests \ {r} : Creating(q)' <=> Creating(q)
      BY <1>3 DEF Creating
    <2> QED BY <1>2, <1>3, <2>1 DEF IInv, TypeOK, FreshIds
  <1>7. HistoryIntact'
    BY <1>2 DEF IInv, HistoryIntact
  <1> QED BY <1>4, <1>5, <1>6, <1>7, <1>8 DEF IInv

----------------------------------------------------------------------------
(* The writes. *)

LEMMA ProjectStepKeeps ==
    ASSUME IInv, NEW r \in Requests, ProjectStep(r)
    PROVE  IInv'
  <1>1. Answer(r, "ok") /\ UNCHANGED <<arch, revisions, layout>>
    BY DEF ProjectStep, archVars
  <1>2. Ended(r)
    BY <1>1, AnswerEnds DEF IInv
  <1>3. TypeOK'
    <2>1. project' \in ProjectStatus
      BY DEF ProjectStep, At, ProjectSteps, StepOf, StepTarget
    <2> QED BY <1>1, <2>1, AnswerType DEF IInv, TypeOK, ProjectTypeOK
  <1>4. RowFresh' /\ FreshIds'
    BY <1>1, <1>2, EndKeepsRows
  <1>5. ProjectLocks' /\ Arguments'
    BY <1>2 DEF IInv, Ended, ProjectLocks, Arguments, InTransaction
  <1>6. AdmittedModifiable'
    <2>1. projectLock[r] = "exclusive"
      BY DEF IInv, ProjectLocks, ProjectStep, At, InTransaction, LockModeOf, ProjectOps
    <2>2. \A q \in Requests \ {r} : req[q].pc \notin InTransaction
      BY <2>1 DEF IInv, ProjectLocks, LockModeOf
    <2> QED BY <1>2, <2>2 DEF Ended, AdmittedModifiable, InTransaction
  <1>7. HistoryIntact'
    BY <1>1 DEF IInv, HistoryIntact
  <1> QED BY <1>3, <1>4, <1>5, <1>6, <1>7 DEF IInv

(* A request that holds a row lock is the only one, and its row is not one *)
(* that is being created.                                                  *)
LEMMA LockedAlone ==
    ASSUME IInv, NEW r \in Requests, req[r].pc = "locked", NEW q \in Requests \ {r},
           req[q].pc = "locked" \/ Creating(q)
    PROVE  req[q].arch # req[r].arch
  BY DEF IInv, RowFresh, FreshIds, Live

LEMMA SaveRowKeeps ==
    ASSUME IInv, NEW r \in Requests, req[r].pc = "locked", NEW row \in Row, SaveRow(r, row)
    PROVE  IInv'
  <1> DEFINE a == req[r].arch
  <1>1. Ended(r) /\ UNCHANGED <<project, revisions>>
    BY AnswerEnds DEF SaveRow, IInv
  <1>2. arch' = [arch EXCEPT ![a].status = row.status, ![a].name = row.name]
    BY DEF SaveRow, Saved
  <1>3. TypeOK'
    BY SaveRowType DEF IInv
  <1>4. \A b \in ArchitectureIds : b # a => arch'[b] = arch[b]
    BY <1>2 DEF IInv, TypeOK, Row
  <1>8. \A b \in ArchitectureIds : arch'[b].current = arch[b].current
    BY <1>2 DEF IInv, TypeOK, Row
  <1>5. RowFresh' /\ FreshIds'
    <2>1. \A q \in Requests \ {r} : req[q].pc = "locked" \/ Creating(q) =>
            arch'[req[q].arch] = arch[req[q].arch]
      <3>1. SUFFICES ASSUME NEW q \in Requests \ {r}, req[q].pc = "locked" \/ Creating(q)
                     PROVE  arch'[req[q].arch] = arch[req[q].arch]
        OBVIOUS
      <3>2. req[q].arch # a
        BY <3>1, LockedAlone
      <3>3. req[q].arch \in ArchitectureIds
        BY DEF IInv, TypeOK, Request
      <3> QED BY <1>4, <3>2, <3>3
    <2> QED BY <1>1, <2>1, EndKeepsRows
  <1>6. ProjectLocks' /\ AdmittedModifiable' /\ Arguments'
    BY <1>1, EndKeepsLocks
  <1>7. HistoryIntact'
    <2>1. revisions' = revisions /\ \A b \in ArchitectureIds : arch'[b].current = arch[b].current
      BY <1>1, <1>8
    <2> QED BY <2>1 DEF IInv, HistoryIntact
  <1> QED BY <1>3, <1>5, <1>6, <1>7 DEF IInv

LEMMA SaveLayoutKeeps ==
    ASSUME IInv, NEW r \in Requests, SaveLayout(r)
    PROVE  IInv'
  <1>1. Ended(r) /\ UNCHANGED <<project, arch, revisions>>
    BY AnswerEnds DEF SaveLayout, IInv
  <1>2. TypeOK'
    <2>1. req[r] \in Request /\ Answer(r, "ok")
      BY DEF IInv, TypeOK, SaveLayout
    <2>2. layout' \in [ArchitectureIds -> Layout]
      BY <2>1 DEF IInv, TypeOK, SaveLayout, Layout, Request
    <2> QED BY <1>1, <2>1, <2>2, AnswerType DEF IInv, TypeOK, ProjectTypeOK
  <1>3. RowFresh' /\ FreshIds'
    BY <1>1, EndKeepsRows
  <1>4. ProjectLocks' /\ AdmittedModifiable' /\ Arguments'
    BY <1>1, EndKeepsLocks
  <1>5. HistoryIntact'
    BY <1>1 DEF IInv, HistoryIntact
  <1> QED BY <1>2, <1>3, <1>4, <1>5 DEF IInv

LEMMA CreateKeeps ==
    ASSUME IInv, NEW r \in Requests, Create(r)
    PROVE  IInv'
  <1> DEFINE a == req[r].arch
             first == FirstRevision(req[r].nodes, r)
  <1>1. AnswerMade(r, 1) /\ UNCHANGED <<project, layout>>
    BY DEF Create
  <1>2. Ended(r)
    BY <1>1, AnswerMadeEnds DEF IInv
  <1>3. /\ req[r] \in Request /\ a \in ArchitectureIds
        /\ Creating(r) /\ arch[a].status = "none"
    BY DEF IInv, TypeOK, Request, Create, At, FreshIds, Creating
  <1>4. /\ arch' = [arch EXCEPT ![a] = [status |-> "active", current |-> 1, name |-> req[r].name]]
        /\ revisions' = [revisions EXCEPT ![a] = <<first>>]
    BY DEF Create, WithNew
  <1>5. first \in Revision
    BY <1>3 DEF FirstRevision, Revision, Request
  <1>6. TypeOK'
    <2>1. arch' \in [ArchitectureIds -> Row]
      BY <1>3, <1>4 DEF IInv, TypeOK, Row, Request
    <2>2. revisions' \in [ArchitectureIds -> Seq(Revision)]
      BY <1>3, <1>4, <1>5 DEF IInv, TypeOK
    <2> QED BY <1>1, <2>1, <2>2, AnswerMadeType DEF IInv, TypeOK, ProjectTypeOK
  <1>7. RowFresh' /\ FreshIds'
    <2>1. \A q \in Requests \ {r} : req[q].pc = "locked" \/ Creating(q) =>
            arch'[req[q].arch] = arch[req[q].arch]
      <3>1. SUFFICES ASSUME NEW q \in Requests \ {r}, req[q].pc = "locked" \/ Creating(q)
                     PROVE  arch'[req[q].arch] = arch[req[q].arch]
        OBVIOUS
      <3>2. req[q].arch # a
        BY <1>3, <3>1 DEF IInv, FreshIds, RowFresh, Live
      <3>3. req[q].arch \in ArchitectureIds
        BY DEF IInv, TypeOK, Request
      <3> QED BY <1>4, <3>2, <3>3 DEF IInv, TypeOK
    <2> QED BY <1>2, <2>1, EndKeepsRows
  <1>8. ProjectLocks' /\ AdmittedModifiable' /\ Arguments'
    BY <1>1, <1>2, EndKeepsLocks
  <1>9. HistoryIntact'
    <2>1. SUFFICES ASSUME NEW b \in ArchitectureIds
                   PROVE  /\ arch'[b].current = Len(revisions'[b])
                          /\ \A n \in 1 .. Len(revisions'[b]) :
                               LET rev == revisions'[b][n] IN
                               /\ rev.parent = n - 1
                               /\ n > 1 => rev.content # revisions'[b][n - 1].content
                               /\ rev.restored_from > 0 =>
                                    /\ rev.restored_from < n
                                    /\ rev.content = revisions'[b][rev.restored_from].content
      BY DEF HistoryIntact
    <2>2. CASE b = a
      <3>1. arch'[b].current = 1 /\ revisions'[b] = <<first>>
        BY <1>3, <1>4, <2>2 DEF IInv, TypeOK
      <3>2. Len(<<first>>) = 1 /\ <<first>>[1] = first /\ first.parent = 0 /\ first.restored_from = 0
        BY DEF FirstRevision
      <3> QED BY <3>1, <3>2
    <2>3. CASE b # a
      <3>1. arch'[b] = arch[b] /\ revisions'[b] = revisions[b]
        BY <1>3, <1>4, <2>3 DEF IInv, TypeOK
      <3> QED BY <3>1 DEF IInv, HistoryIntact
    <2> QED BY <2>2, <2>3
  <1> QED BY <1>6, <1>7, <1>8, <1>9 DEF IInv

LEMMA ReviseKeeps ==
    ASSUME IInv, NEW r \in Requests, Revise(r)
    PROVE  IInv'
  <1> DEFINE a == req[r].arch
             old == revisions[a]
             new == [content |-> NewContent(r), parent |-> req[r].base,
                     restored_from |-> req[r].from, author |-> r]
  <1>1. AnswerMade(r, req[r].base + 1) /\ UNCHANGED <<project, layout>>
    BY DEF Revise
  <1>2. Ended(r)
    BY <1>1, AnswerMadeEnds DEF IInv
  <1>3. /\ req[r].pc = "locked" /\ req[r].op \in ContentOps /\ Loads(r)
        /\ NewContent(r) # ParentContent(r)
        /\ arch' = [arch EXCEPT ![a].current = req[r].base + 1]
        /\ revisions' = [revisions EXCEPT ![a] = Append(@, new)]
    BY DEF Revise, At
  <1>4. /\ req[r] \in Request /\ a \in ArchitectureIds /\ old \in Seq(Revision)
        /\ req[r].base \in Nat /\ req[r].from \in Nat
    BY DEF IInv, TypeOK, Request
  <1>5. req[r].base = Len(old) /\ req[r].base >= 1
    <2>1. arch[a].current = req[r].base
      BY DEF Revise, BaseIsCurrent
    <2> QED BY <1>3, <1>4, <2>1 DEF IInv, HistoryIntact, Arguments
  <1>6. NewContent(r) \in SUBSET Nodes /\ ParentContent(r) = old[Len(old)].content
    BY <1>3, <1>4, <1>5, ContentType DEF IInv, ParentContent
  <1>7. new \in Revision
    BY <1>4, <1>6 DEF Revision
  <1>8. TypeOK'
    <2>1. arch' \in [ArchitectureIds -> Row]
      <3>1. req[r].base + 1 \in Nat /\ arch \in [ArchitectureIds -> Row]
        BY <1>4 DEF IInv, TypeOK
      <3>2. [arch[a] EXCEPT !.current = req[r].base + 1] \in Row
        BY <1>4, <3>1 DEF Row
      <3>3. arch' = [arch EXCEPT ![a] = [arch[a] EXCEPT !.current = req[r].base + 1]]
        BY <1>3
      <3> QED BY <1>4, <3>1, <3>2, <3>3
    <2>2. revisions' \in [ArchitectureIds -> Seq(Revision)]
      <3>1. Append(old, new) \in Seq(Revision)
        BY <1>4, <1>7
      <3>2. revisions \in [ArchitectureIds -> Seq(Revision)]
        BY DEF IInv, TypeOK
      <3>3. revisions' = [revisions EXCEPT ![a] = Append(old, new)]
        BY <1>3
      <3> HIDE DEF new, old
      <3> QED BY <1>4, <3>1, <3>2, <3>3
    <2> QED BY <1>1, <1>4, <2>1, <2>2, AnswerMadeType DEF IInv, TypeOK, ProjectTypeOK
  <1>9. \A b \in ArchitectureIds : b # a => arch'[b] = arch[b]
    BY <1>3 DEF IInv, TypeOK, Row
  <1>10. RowFresh' /\ FreshIds'
    <2>1. \A q \in Requests \ {r} : req[q].pc = "locked" \/ Creating(q) =>
            arch'[req[q].arch] = arch[req[q].arch]
      <3>1. SUFFICES ASSUME NEW q \in Requests \ {r}, req[q].pc = "locked" \/ Creating(q)
                     PROVE  arch'[req[q].arch] = arch[req[q].arch]
        OBVIOUS
      <3>2. req[q].arch # a
        BY <1>3, <3>1, LockedAlone
      <3>3. req[q].arch \in ArchitectureIds
        BY DEF IInv, TypeOK, Request
      <3> QED BY <1>9, <3>2, <3>3
    <2> QED BY <1>2, <2>1, EndKeepsRows
  <1>11. ProjectLocks' /\ AdmittedModifiable' /\ Arguments'
    BY <1>1, <1>2, EndKeepsLocks
  <1>12. HistoryIntact'
    <2>1. SUFFICES ASSUME NEW b \in ArchitectureIds
                   PROVE  /\ arch'[b].current = Len(revisions'[b])
                          /\ \A n \in 1 .. Len(revisions'[b]) :
                               LET rev == revisions'[b][n] IN
                               /\ rev.parent = n - 1
                               /\ n > 1 => rev.content # revisions'[b][n - 1].content
                               /\ rev.restored_from > 0 =>
                                    /\ rev.restored_from < n
                                    /\ rev.content = revisions'[b][rev.restored_from].content
      BY DEF HistoryIntact
    <2>2. CASE b = a
      <3>1. revisions'[b] = Append(old, new) /\ arch'[b].current = Len(old) + 1
        BY <1>3, <1>4, <1>5, <2>2 DEF IInv, TypeOK, Row
      <3>2. Len(revisions'[b]) = Len(old) + 1
        BY <1>4, <1>7, <3>1
      <3>3. \A n \in 1 .. Len(old) : revisions'[b][n] = old[n]
        BY <1>4, <1>7, <3>1
      <3>4. revisions'[b][Len(old) + 1] = new
        BY <1>4, <1>7, <3>1
      <3>5. \A n \in 1 .. Len(old) :
               /\ old[n].parent = n - 1
               /\ n > 1 => old[n].content # old[n - 1].content
               /\ old[n].restored_from > 0 =>
                    /\ old[n].restored_from < n
                    /\ old[n].content = old[old[n].restored_from].content
               /\ old[n].restored_from \in Nat
        <4>1. \A n \in 1 .. Len(old) : old[n] \in Revision
          BY <1>4
        <4> QED BY <1>4, <4>1 DEF IInv, HistoryIntact, Revision
      <3>6. /\ new.parent = Len(old)
            /\ new.content # old[Len(old)].content
            /\ new.restored_from > 0 =>
                 /\ new.restored_from \in 1 .. Len(old)
                 /\ new.content = old[new.restored_from].content
        <4>1. new.parent = Len(old) /\ new.content # old[Len(old)].content
          BY <1>3, <1>5, <1>6
        <4>2. req[r].from > 0 => req[r].op = "restore_revision"
          BY <1>3 DEF IInv, Arguments
        <4>3. req[r].op = "restore_revision" =>
                req[r].from \in 1 .. Len(old) /\ NewContent(r) = old[req[r].from].content
          BY <1>3 DEF Loads, NewContent
        <4> QED BY <4>1, <4>2, <4>3
      <3>7. Len(old) \in Nat
        BY <1>4
      <3> HIDE DEF new, old
      <3>8. ASSUME NEW n \in 1 .. Len(revisions'[b])
            PROVE  LET rev == revisions'[b][n] IN
                   /\ rev.parent = n - 1
                   /\ n > 1 => rev.content # revisions'[b][n - 1].content
                   /\ rev.restored_from > 0 =>
                        /\ rev.restored_from < n
                        /\ rev.content = revisions'[b][rev.restored_from].content
        <4>1. CASE n \in 1 .. Len(old)
          <5>1. revisions'[b][n] = old[n]
            BY <3>3, <4>1
          <5>2. n > 1 => revisions'[b][n - 1] = old[n - 1]
            BY <3>3, <3>7, <4>1
          <5>3. old[n].restored_from > 0 =>
                  revisions'[b][old[n].restored_from] = old[old[n].restored_from]
            BY <3>3, <3>5, <3>7, <4>1
          <5> QED BY <3>5, <4>1, <5>1, <5>2, <5>3
        <4>2. CASE n = Len(old) + 1
          <5>1. revisions'[b][n] = new
            BY <3>4, <4>2
          <5>2. n > 1 => revisions'[b][n - 1] = old[Len(old)]
            BY <3>3, <3>7, <4>2
          <5>3. new.restored_from > 0 =>
                  revisions'[b][new.restored_from] = old[new.restored_from]
            BY <3>3, <3>6
          <5> QED BY <3>6, <3>7, <4>2, <5>1, <5>2, <5>3
        <4> QED BY <3>2, <3>7, <4>1, <4>2
      <3> QED BY <3>1, <3>2, <3>8
    <2>3. CASE b # a
      <3>1. arch'[b] = arch[b] /\ revisions'[b] = revisions[b]
        BY <1>3, <1>9, <2>3 DEF IInv, TypeOK
      <3> QED BY <3>1 DEF IInv, HistoryIntact
    <2> QED BY <2>2, <2>3
  <1> QED BY <1>8, <1>10, <1>11, <1>12 DEF IInv

----------------------------------------------------------------------------
(* Answers: what else is invariant of the requests that made a revision. *)

(* What Ask chose, kept by an answered request. *)
Bases ==
    \A r \in Requests :
        /\ req[r].op \in ContentOps => req[r].base >= 1
        /\ req[r].op = "create" => req[r].base = 0

(* A request in progress has made nothing, so it is nobody's author. *)
Unmade == \A r \in Requests : req[r].pc # "done" => req[r].made = 0

(* A row that does not exist has no history. *)
Unborn == \A a \in ArchitectureIds : arch[a].status = "none" => arch[a].current = 0

AInv == Bases /\ Unmade /\ Unborn /\ AnsweredRevisions

(* The parts of AnsweredRevisions: x is the answered request q.            *)
Owns(q, x, revs) ==
    /\ x.answer = "ok"
    /\ x.made = x.base + 1
    /\ x.made <= Len(revs)
    /\ revs[x.made].author = q
    /\ x.op = "add_node" => revs[x.made].content = revs[x.base].content \cup x.nodes
    /\ x.op = "remove_nodes" => revs[x.made].content = revs[x.base].content \ x.nodes
    /\ x.op \in {"create", "replace"} => revs[x.made].content = x.nodes

LEMMA OwnsKept ==
    ASSUME NEW q, NEW x, NEW revs, NEW longer, Owns(q, x, revs),
           x.made <= Len(longer), longer[x.made] = revs[x.made],
           x.op \in {"add_node", "remove_nodes"} => longer[x.base] = revs[x.base]
    PROVE  Owns(q, x, longer)
  BY DEF Owns

LEMMA AnsweredParts ==
    AnsweredRevisions <=>
      /\ \A q \in Requests : req[q].made > 0 => Owns(q, req[q], revisions[req[q].arch])
      /\ \A a \in ArchitectureIds : \A n \in 1 .. Len(revisions[a]) :
           revisions[a][n].author # Nobody =>
             /\ req[revisions[a][n].author].arch = a
             /\ req[revisions[a][n].author].made = n
  BY Zenon DEF AnsweredRevisions, Owns

LEMMA AnsweredPartsNext ==
    AnsweredRevisions' <=>
      /\ \A q \in Requests : req'[q].made > 0 => Owns(q, req'[q], revisions'[req'[q].arch])
      /\ \A a \in ArchitectureIds : \A n \in 1 .. Len(revisions'[a]) :
           revisions'[a][n].author # Nobody =>
             /\ req'[revisions'[a][n].author].arch = a
             /\ req'[revisions'[a][n].author].made = n
  BY Zenon DEF AnsweredRevisions, Owns

(* A step of a request that leaves the revisions alone. *)
LEMMA QuietStep ==
    ASSUME IInv, AInv, NEW r \in Requests, req[r].pc # "done",
           revisions' = revisions,
           \A q \in Requests \ {r} : req'[q] = req[q],
           req'[r].made = 0,
           req'[r].op \in ContentOps => req'[r].base >= 1,
           req'[r].op = "create" => req'[r].base = 0
    PROVE  Bases' /\ Unmade' /\ AnsweredRevisions'
  <1>1. Bases' /\ Unmade'
    BY DEF AInv, Bases, Unmade
  <1>2. ASSUME NEW q \in Requests, req'[q].made > 0
        PROVE  q # r /\ req'[q] = req[q]
    BY <1>2
  <1>3. ASSUME NEW a \in ArchitectureIds, NEW n \in 1 .. Len(revisions[a]),
               revisions[a][n].author # Nobody
        PROVE  LET q == revisions[a][n].author IN
               q \in Requests /\ req[q].arch = a /\ req[q].made = n /\ q # r
    <2>1. revisions[a][n] \in Revision
      BY DEF IInv, TypeOK
    <2>2. revisions[a][n].author \in Requests
      BY <1>3, <2>1 DEF Revision
    <2> QED BY <1>3, <2>2 DEF AInv, AnsweredRevisions, Unmade
  <1>4. AnsweredRevisions'
    <2>1. ASSUME NEW q \in Requests, req'[q].made > 0
          PROVE  Owns(q, req'[q], revisions'[req'[q].arch])
      BY <1>2, <2>1, AnsweredParts DEF AInv
    <2>2. ASSUME NEW a \in ArchitectureIds, NEW n \in 1 .. Len(revisions'[a]),
                 revisions'[a][n].author # Nobody
          PROVE  /\ req'[revisions'[a][n].author].arch = a
                 /\ req'[revisions'[a][n].author].made = n
      BY <1>3, <2>2
    <2> QED BY <2>1, <2>2, AnsweredPartsNext
  <1> QED BY <1>1, <1>4

(* A request appends its revision to the history of its architecture. *)
LEMMA WriteStep ==
    ASSUME IInv, AInv, NEW r \in Requests, req[r].pc # "done", NEW rev,
           AnswerMade(r, req[r].base + 1),
           req[r].base = Len(revisions[req[r].arch]),
           Len(revisions'[req[r].arch]) = req[r].base + 1,
           \A n \in 1 .. req[r].base : revisions'[req[r].arch][n] = revisions[req[r].arch][n],
           revisions'[req[r].arch][req[r].base + 1] = rev,
           \A b \in ArchitectureIds : b # req[r].arch => revisions'[b] = revisions[b],
           rev.author = r,
           req[r].op = "add_node" =>
               rev.content = revisions[req[r].arch][req[r].base].content \cup req[r].nodes,
           req[r].op = "remove_nodes" =>
               rev.content = revisions[req[r].arch][req[r].base].content \ req[r].nodes,
           req[r].op \in {"create", "replace"} => rev.content = req[r].nodes
    PROVE  Bases' /\ Unmade' /\ AnsweredRevisions'
  <1> DEFINE a == req[r].arch
             base == req[r].base
  <1>1. /\ req[r] \in Request /\ a \in ArchitectureIds /\ base \in Nat
        /\ \A q \in Requests : /\ req[q].arch \in ArchitectureIds
                               /\ req[q].base \in Nat /\ req[q].made \in Nat
    BY DEF IInv, TypeOK, Request
  <1>2. /\ req'[r].pc = "done" /\ req'[r].made = base + 1 /\ req'[r].answer = "ok"
        /\ req'[r].arch = a /\ req'[r].base = base
        /\ req'[r].op = req[r].op /\ req'[r].nodes = req[r].nodes
        /\ \A q \in Requests \ {r} : req'[q] = req[q]
    BY <1>1 DEF AnswerMade, IInv, TypeOK, Request
  <1>3. Bases' /\ Unmade'
    BY <1>2 DEF AInv, Bases, Unmade
  <1>4. \A b \in ArchitectureIds : \A n \in 1 .. Len(revisions[b]) :
          n \in 1 .. Len(revisions'[b]) /\ revisions'[b][n] = revisions[b][n]
    <2> SUFFICES ASSUME NEW b \in ArchitectureIds, NEW n \in 1 .. Len(revisions[b])
                 PROVE  n \in 1 .. Len(revisions'[b]) /\ revisions'[b][n] = revisions[b][n]
      OBVIOUS
    <2>1. CASE b = a
      BY <1>1, <2>1
    <2>2. CASE b # a
      BY <2>2
    <2> QED BY <2>1, <2>2
  <1>5. \A b \in ArchitectureIds : Len(revisions'[b]) \in Nat
    BY <1>1 DEF IInv, TypeOK
  <1>6. ASSUME NEW q \in Requests, req'[q].made > 0
        PROVE  Owns(q, req'[q], revisions'[req'[q].arch])
    <2>1. CASE q = r
      <3>1. req[r].op \in ContentOps => revisions'[a][base] = revisions[a][base]
        BY <1>1 DEF AInv, Bases
      <3> DEFINE x == req'[r]
                 revs == revisions'[a]
      <3>2. /\ x.answer = "ok" /\ x.made = x.base + 1 /\ x.base = base
            /\ x.made <= Len(revs) /\ revs[x.made] = rev
        BY <1>1, <1>2
      <3>3. x.op = "add_node" => rev.content = revs[x.base].content \cup x.nodes
        BY <1>2, <3>1 DEF ContentOps
      <3>4. x.op = "remove_nodes" => rev.content = revs[x.base].content \ x.nodes
        BY <1>2, <3>1 DEF ContentOps
      <3>5. x.op \in {"create", "replace"} => rev.content = x.nodes
        BY <1>2
      <3>6. Owns(r, x, revs)
        <4> HIDE DEF x, revs
        <4> QED BY <3>2, <3>3, <3>4, <3>5 DEF Owns
      <3> QED BY <1>2, <2>1, <3>6
    <2>2. CASE q # r
      <3> DEFINE b == req[q].arch
                 made == req[q].made
      <3>1. req'[q] = req[q] /\ made > 0 /\ b \in ArchitectureIds
        BY <1>1, <1>2, <1>6, <2>2
      <3>2. Owns(q, req[q], revisions[b])
        BY <3>1, AnsweredParts DEF AInv
      <3>3. revisions[b] \in Seq(Revision)
        BY <3>1 DEF IInv, TypeOK
      <3>4. made \in 1 .. Len(revisions[b])
        BY <1>1, <3>1, <3>2, <3>3 DEF Owns
      <3>5. made \in 1 .. Len(revisions'[b]) /\ revisions'[b][made] = revisions[b][made]
        BY <1>4, <3>1, <3>4
      <3>6. req[q].op \in ContentOps => revisions'[b][req[q].base] = revisions[b][req[q].base]
        <4>1. SUFFICES ASSUME req[q].op \in ContentOps
                       PROVE  req[q].base \in 1 .. Len(revisions[b])
          BY <1>4, <3>1
        <4>2. req[q].base >= 1
          BY <4>1 DEF AInv, Bases
        <4> QED BY <1>1, <3>2, <3>3, <4>2 DEF Owns
      <3>7. Owns(q, req[q], revisions'[b])
        <4>1. req[q].op \in {"add_node", "remove_nodes"} =>
                revisions'[b][req[q].base] = revisions[b][req[q].base]
          BY <3>6 DEF ContentOps
        <4>2. req[q].made <= Len(revisions'[b])
          BY <1>5, <3>1, <3>5
        <4> QED BY <3>2, <3>5, <4>1, <4>2, OwnsKept
      <3> QED BY <3>1, <3>7
    <2> QED BY <2>1, <2>2
  <1>7. ASSUME NEW b \in ArchitectureIds, NEW n \in 1 .. Len(revisions'[b]),
               revisions'[b][n].author # Nobody
        PROVE  /\ req'[revisions'[b][n].author].arch = b
               /\ req'[revisions'[b][n].author].made = n
    <2>1. CASE b = a /\ n = base + 1
      BY <1>2, <2>1
    <2>2. CASE ~(b = a /\ n = base + 1)
      <3> DEFINE q == revisions[b][n].author
      <3>1. revisions[b] \in Seq(Revision)
        BY DEF IInv, TypeOK
      <3>2. n \in 1 .. Len(revisions[b])
        BY <1>1, <2>2, <3>1
      <3>3. revisions'[b][n] = revisions[b][n] /\ revisions[b][n] \in Revision
        BY <1>4, <3>1, <3>2
      <3>4. q \in Requests
        BY <1>7, <3>3 DEF Revision
      <3>5. req[q].arch = b /\ req[q].made = n
        BY <1>7, <3>2, <3>3 DEF AInv, AnsweredRevisions
      <3>6. q # r
        BY <3>2, <3>5 DEF AInv, Unmade
      <3> QED BY <1>2, <3>3, <3>4, <3>5, <3>6
    <2> QED BY <2>1, <2>2
  <1>8. AnsweredRevisions'
    BY <1>6, <1>7, AnsweredPartsNext
  <1> QED BY <1>3, <1>8

(* An answer without a revision, whatever the transaction wrote. *)
LEMMA AnswerQuiet ==
    ASSUME IInv, AInv, NEW r \in Requests, req[r].pc # "done", NEW answer,
           Answer(r, answer), revisions' = revisions
    PROVE  Bases' /\ Unmade' /\ AnsweredRevisions'
  <1>1. /\ req'[r].made = 0 /\ req'[r].op = "none"
        /\ \A q \in Requests \ {r} : req'[q] = req[q]
    BY DEF Answer, NoRequest, IInv, TypeOK
  <1> QED BY <1>1, QuietStep DEF ContentOps

(* A step inside a transaction that keeps the operation and its base. *)
LEMMA ProgressQuiet ==
    ASSUME IInv, AInv, NEW r \in Requests,
           Admit(r) \/ LockArchitecture(r) \/ CheckLayout(r)
    PROVE  Bases' /\ Unmade' /\ AnsweredRevisions'
  <1>1. req[r] \in Request
    BY DEF IInv, TypeOK
  <1>2. /\ req[r].pc # "done" /\ revisions' = revisions
        /\ req'[r].made = req[r].made /\ req'[r].op = req[r].op /\ req'[r].base = req[r].base
        /\ \A q \in Requests \ {r} : req'[q] = req[q]
    <2>1. CASE Admit(r)
      BY <1>1, <2>1 DEF Admit, archVars, IInv, TypeOK, Request
    <2>2. CASE LockArchitecture(r)
      BY <1>1, <2>2 DEF LockArchitecture, At, archVars, IInv, TypeOK, Request
    <2>3. CASE CheckLayout(r)
      BY <1>1, <2>3 DEF CheckLayout, At, archVars, IInv, TypeOK, Request
    <2> QED BY <2>1, <2>2, <2>3
  <1>3. /\ req'[r].made = 0
        /\ req'[r].op \in ContentOps => req'[r].base >= 1
        /\ req'[r].op = "create" => req'[r].base = 0
    BY <1>2 DEF AInv, Unmade, Bases
  <1> QED BY <1>2, <1>3, QuietStep

LEMMA AskQuiet ==
    ASSUME IInv, AInv, NEW r \in Requests, Ask(r)
    PROVE  Bases' /\ Unmade' /\ AnsweredRevisions'
  <1>1. PICK op \in AllOps, a \in ArchitectureIds, base \in Nat, from \in Nat,
             name \in Names, nodes \in SUBSET Nodes :
              /\ Asked(r, op, a, base, from, name, nodes)
              /\ IF op \in ContentOps THEN base >= 1 ELSE base = 0
    BY AskChoice DEF IInv
  <1>2. req[r] \in Request /\ req[r].pc = "idle" /\ revisions' = revisions
    BY DEF Ask, archVars, IInv, TypeOK
  <1>3. /\ req'[r].made = req[r].made /\ req'[r].op = op /\ req'[r].base = base
        /\ \A q \in Requests \ {r} : req'[q] = req[q]
    BY <1>1, <1>2 DEF Asked, IInv, TypeOK, Request
  <1>4. /\ req'[r].made = 0
        /\ req'[r].op \in ContentOps => req'[r].base >= 1
        /\ req'[r].op = "create" => req'[r].base = 0
    BY <1>1, <1>2, <1>3 DEF AInv, Unmade, ContentOps
  <1> QED BY <1>2, <1>3, <1>4, QuietStep

LEMMA CreateAnswered ==
    ASSUME IInv, AInv, NEW r \in Requests, Create(r)
    PROVE  Bases' /\ Unmade' /\ AnsweredRevisions'
  <1> DEFINE a == req[r].arch
             first == FirstRevision(req[r].nodes, r)
  <1>1. /\ a \in ArchitectureIds /\ req[r].pc = "admitted" /\ req[r].op = "create"
        /\ revisions \in [ArchitectureIds -> Seq(Revision)]
    BY DEF Create, At, IInv, TypeOK, Request
  <1>2. req[r].base = 0 /\ Len(revisions[a]) = 0
    <2>1. arch[a].status = "none"
      BY <1>1 DEF IInv, FreshIds, Creating
    <2> QED BY <1>1, <2>1 DEF AInv, Bases, Unborn, IInv, HistoryIntact
  <1>3. revisions' = [revisions EXCEPT ![a] = <<first>>] /\ AnswerMade(r, 1)
    BY DEF Create
  <1>4. first.author = r /\ first.content = req[r].nodes
    BY DEF FirstRevision
  <1>5. Len(<<first>>) = 1 /\ <<first>>[1] = first
    OBVIOUS
  <1> HIDE DEF first
  <1>6. /\ Len(revisions'[a]) = 1 /\ revisions'[a][1] = first
        /\ \A b \in ArchitectureIds : b # a => revisions'[b] = revisions[b]
    BY <1>1, <1>3, <1>5
  <1>7. AnswerMade(r, req[r].base + 1)
    <2>1. req[r].base + 1 = 1
      BY <1>2
    <2> QED BY <1>3, <2>1
  <1>8. /\ req[r].pc # "done" /\ req[r].base = Len(revisions[a])
        /\ Len(revisions'[a]) = req[r].base + 1
        /\ \A n \in 1 .. req[r].base : revisions'[a][n] = revisions[a][n]
        /\ revisions'[a][req[r].base + 1] = first
        /\ \A b \in ArchitectureIds : b # a => revisions'[b] = revisions[b]
    BY <1>1, <1>2, <1>6
  <1>9. req[r].op \notin {"add_node", "remove_nodes"}
    BY <1>1
  <1> QED BY <1>4, <1>7, <1>8, <1>9, WriteStep

LEMMA ReviseAnswered ==
    ASSUME IInv, AInv, NEW r \in Requests, Revise(r)
    PROVE  Bases' /\ Unmade' /\ AnsweredRevisions'
  <1> DEFINE a == req[r].arch
             old == revisions[a]
             new == [content |-> NewContent(r), parent |-> req[r].base,
                     restored_from |-> req[r].from, author |-> r]
  <1>1. /\ a \in ArchitectureIds /\ req[r].pc = "locked" /\ req[r].op \in ContentOps
        /\ revisions \in [ArchitectureIds -> Seq(Revision)] /\ old \in Seq(Revision)
        /\ req[r].base \in Nat
    BY DEF Revise, At, IInv, TypeOK, Request
  <1>2. req[r].base = Len(old)
    BY <1>1 DEF Revise, BaseIsCurrent, IInv, HistoryIntact
  <1>3. revisions' = [revisions EXCEPT ![a] = Append(old, new)] /\ AnswerMade(r, req[r].base + 1)
    BY DEF Revise
  <1>4. /\ new.author = r
        /\ req[r].op = "add_node" => new.content = old[req[r].base].content \cup req[r].nodes
        /\ req[r].op = "remove_nodes" => new.content = old[req[r].base].content \ req[r].nodes
        /\ req[r].op \in {"create", "replace"} => new.content = req[r].nodes
    BY <1>1 DEF NewContent, ParentContent, ContentOps
  <1> HIDE DEF new
  <1>5. /\ Len(Append(old, new)) = req[r].base + 1
        /\ \A n \in 1 .. req[r].base : Append(old, new)[n] = old[n]
        /\ Append(old, new)[req[r].base + 1] = new
    BY <1>1, <1>2
  <1>6. /\ revisions'[a] = Append(old, new)
        /\ \A b \in ArchitectureIds : b # a => revisions'[b] = revisions[b]
    BY <1>1, <1>3
  <1> HIDE DEF old
  <1>7. /\ Len(revisions'[a]) = req[r].base + 1
        /\ \A n \in 1 .. req[r].base : revisions'[a][n] = old[n]
        /\ revisions'[a][req[r].base + 1] = new
    BY <1>5, <1>6
  <1> QED BY <1>1, <1>2, <1>3, <1>4, <1>6, <1>7, WriteStep DEF old

(* Rows come into being with a history, and their status never returns to  *)
(* none.                                                                   *)
LEMMA UnbornKept ==
    ASSUME IInv, AInv, [Next]_vars
    PROVE  Unborn'
  <1>1. CASE UNCHANGED arch
    BY <1>1 DEF AInv, Unborn
  <1>2. ASSUME NEW r \in Requests, NEW row, SaveRow(r, row), row.status # "none"
        PROVE  Unborn'
    <2>1. /\ arch' = [arch EXCEPT ![req[r].arch].status = row.status, ![req[r].arch].name = row.name]
          /\ arch \in [ArchitectureIds -> Row] /\ req[r].arch \in ArchitectureIds
      BY <1>2 DEF SaveRow, Saved, IInv, TypeOK, Request
    <2>2. arch'[req[r].arch].status = row.status
      BY <2>1 DEF Row
    <2>3. \A a \in ArchitectureIds : a # req[r].arch => arch'[a] = arch[a]
      BY <2>1 DEF Row
    <2> QED BY <1>2, <2>2, <2>3 DEF AInv, Unborn
  <1>3. ASSUME NEW r \in Requests, UpdateMetadata(r) PROVE Unborn'
    <2>1. /\ req[r].row.status = "active" /\ req[r] \in Request
          /\ SaveRow(r, [req[r].row EXCEPT !.name = req[r].name])
      BY <1>3 DEF UpdateMetadata, IInv, TypeOK
    <2>2. [req[r].row EXCEPT !.name = req[r].name].status = "active"
      BY <2>1 DEF Request, Row
    <2> QED BY <1>2, <2>1, <2>2
  <1>4. ASSUME NEW r \in Requests, Lifecycle(r) PROVE Unborn'
    <2>1. /\ req[r].op \in LifecycleOps /\ req[r] \in Request
          /\ SaveRow(r, [req[r].row EXCEPT !.status = LifecycleTarget(req[r].op)])
      BY <1>4 DEF Lifecycle, At, IInv, TypeOK
    <2>2. [req[r].row EXCEPT !.status = LifecycleTarget(req[r].op)].status # "none"
      BY <2>1 DEF Request, Row, LifecycleTarget, LifecycleOps
    <2> QED BY <1>2, <2>1, <2>2
  <1>5. ASSUME NEW r \in Requests, Create(r) PROVE Unborn'
    BY <1>5 DEF Create, WithNew, AInv, Unborn, IInv, TypeOK
  <1>6. ASSUME NEW r \in Requests, Revise(r) PROVE Unborn'
    <2> DEFINE a == req[r].arch
    <2>1. /\ arch' = [arch EXCEPT ![a].current = req[r].base + 1]
          /\ arch \in [ArchitectureIds -> Row] /\ a \in ArchitectureIds
          /\ Live(arch[a])
      BY <1>6 DEF Revise, At, IInv, TypeOK, Request, RowFresh
    <2>2. arch'[a].status = arch[a].status
      BY <2>1 DEF Row
    <2>3. \A b \in ArchitectureIds : b # a => arch'[b] = arch[b]
      BY <2>1 DEF Row
    <2> QED BY <2>1, <2>2, <2>3 DEF AInv, Unborn, Live
  <1>7. ASSUME NEW r \in Requests,
               \/ Ask(r) \/ Admit(r) \/ ProjectStep(r) \/ LockArchitecture(r) \/ CheckLayout(r)
               \/ SaveLayout(r) \/ \E answer \in Answers : Finish(r, answer)
        PROVE  UNCHANGED arch
    BY <1>7 DEF Ask, Admit, ProjectStep, LockArchitecture, CheckLayout, SaveLayout, Finish, archVars
  <1>8. UNCHANGED vars => UNCHANGED arch
    BY DEF vars
  <1> QED BY <1>1, <1>3, <1>4, <1>5, <1>6, <1>7, <1>8, StepCases

LEMMA NextAInv == IInv /\ AInv /\ [Next]_vars => AInv'
  <1> SUFFICES ASSUME IInv, AInv, [Next]_vars PROVE Bases' /\ Unmade' /\ AnsweredRevisions'
    BY UnbornKept DEF AInv
  <1>1. CASE UNCHANGED vars
    BY <1>1 DEF vars, AInv, Bases, Unmade, AnsweredRevisions
  <1>2. ASSUME NEW r \in Requests,
               \/ ProjectStep(r) \/ SaveLayout(r)
               \/ UpdateMetadata(r) \/ Lifecycle(r)
        PROVE  req[r].pc # "done" /\ Answer(r, "ok") /\ revisions' = revisions
    BY <1>2 DEF ProjectStep, SaveLayout, UpdateMetadata, Lifecycle, SaveRow, At, archVars
  <1>3. ASSUME NEW r \in Requests, NEW answer \in Answers, Finish(r, answer)
        PROVE  Answer(r, answer) /\ revisions' = revisions
    BY <1>3 DEF Finish, archVars
  <1> QED BY <1>1, <1>2, <1>3, StepCases, AnswerQuiet, ProgressQuiet, AskQuiet,
             CreateAnswered, ReviseAnswered

----------------------------------------------------------------------------
(* The theorems. *)

LEMMA InitIInv == Init => IInv
  <1> SUFFICES ASSUME Init PROVE IInv
    OBVIOUS
  <1>1. PICK name \in [ArchitectureIds -> Names], ir \in [Seeded -> SUBSET Nodes],
          status \in [Seeded -> {"active", "archived"}] :
          /\ arch = [a \in ArchitectureIds |->
                       IF a \in Seeded
                       THEN [status |-> status[a], current |-> 1, name |-> name[a]]
                       ELSE NoRow]
          /\ revisions = [a \in ArchitectureIds |->
                            IF a \in Seeded THEN <<FirstRevision(ir[a], Nobody)>> ELSE <<>>]
    BY DEF Init
  <1>2. /\ project = "active" /\ projectLock = [r \in Requests |-> "none"]
        /\ layout = [a \in ArchitectureIds |-> [stored |-> FALSE, positions |-> {}]]
        /\ archLock = [a \in ArchitectureIds |-> Nobody]
        /\ req = [r \in Requests |-> NoRequest]
    BY DEF Init, ProjectInit
  <1>3. \A r \in Requests : req[r].pc = "idle" /\ req[r] \in Request
    BY <1>2, NoRequestType DEF NoRequest
  <1>4. TypeOK
    <2>1. arch \in [ArchitectureIds -> Row]
      BY <1>1, NoRowType DEF Row
    <2>2. revisions \in [ArchitectureIds -> Seq(Revision)]
      <3>1. \A a \in Seeded : FirstRevision(ir[a], Nobody) \in Revision
        BY DEF FirstRevision, Revision
      <3> QED BY <1>1, <3>1
    <2>3. layout \in [ArchitectureIds -> Layout]
      BY <1>2 DEF Layout
    <2> QED BY <1>2, <1>3, <2>1, <2>2, <2>3 DEF TypeOK, ProjectTypeOK
  <1>5. ProjectLocks /\ AdmittedModifiable /\ RowFresh /\ FreshIds /\ Arguments
    BY <1>2, <1>3 DEF ProjectLocks, AdmittedModifiable, RowFresh, FreshIds, Arguments,
                      Creating, InTransaction
  <1>6. HistoryIntact
    <2>1. ASSUME NEW a \in Seeded
          PROVE  LET first == FirstRevision(ir[a], Nobody) IN
                 /\ arch[a].current = 1 /\ revisions[a] = <<first>>
                 /\ first.parent = 0 /\ first.restored_from = 0
      BY <1>1, ArchitecturesAssumption DEF FirstRevision
    <2>2. ASSUME NEW a \in ArchitectureIds \ Seeded
          PROVE  arch[a].current = 0 /\ revisions[a] = <<>>
      BY <1>1 DEF NoRow
    <2>3. SUFFICES ASSUME NEW a \in ArchitectureIds
                   PROVE  /\ arch[a].current = Len(revisions[a])
                          /\ \A n \in 1 .. Len(revisions[a]) :
                               LET rev == revisions[a][n] IN
                               /\ rev.parent = n - 1
                               /\ n > 1 => rev.content # revisions[a][n - 1].content
                               /\ rev.restored_from > 0 =>
                                    /\ rev.restored_from < n
                                    /\ rev.content = revisions[a][rev.restored_from].content
      BY DEF HistoryIntact
    <2>4. CASE a \in Seeded
      <3> DEFINE first == FirstRevision(ir[a], Nobody)
      <3>1. /\ arch[a].current = 1 /\ revisions[a] = <<first>>
            /\ first.parent = 0 /\ first.restored_from = 0
        BY <2>1, <2>4
      <3>2. Len(<<first>>) = 1 /\ <<first>>[1] = first
        OBVIOUS
      <3> HIDE DEF first
      <3> QED BY <3>1, <3>2
    <2>5. CASE a \notin Seeded
      <3>1. arch[a].current = 0 /\ revisions[a] = <<>>
        BY <2>2, <2>5
      <3> QED BY <3>1
    <2> QED BY <2>4, <2>5
  <1> QED BY <1>4, <1>5, <1>6 DEF IInv

LEMMA NextIInv == IInv /\ [Next]_vars => IInv'
  <1> SUFFICES ASSUME IInv, [Next]_vars PROVE IInv'
    OBVIOUS
  <1>1. CASE UNCHANGED vars
    BY <1>1 DEF vars, IInv, TypeOK, ProjectTypeOK, ProjectLocks, AdmittedModifiable, RowFresh,
                FreshIds, Arguments, HistoryIntact, Creating, Live, Modifiable, InTransaction
  <1>2. ASSUME NEW r \in Requests, UpdateMetadata(r) PROVE IInv'
    <2>1. /\ req[r].pc = "locked" /\ req[r] \in Request
          /\ SaveRow(r, [req[r].row EXCEPT !.name = req[r].name])
      BY <1>2 DEF UpdateMetadata, At, IInv, TypeOK
    <2>2. [req[r].row EXCEPT !.name = req[r].name] \in Row
      BY <2>1 DEF Request, Row
    <2> QED BY <2>1, <2>2, SaveRowKeeps
  <1>3. ASSUME NEW r \in Requests, Lifecycle(r) PROVE IInv'
    <2>1. /\ req[r].pc = "locked" /\ req[r] \in Request /\ req[r].op \in LifecycleOps
          /\ SaveRow(r, [req[r].row EXCEPT !.status = LifecycleTarget(req[r].op)])
      BY <1>3 DEF Lifecycle, At, IInv, TypeOK
    <2>2. LifecycleTarget(req[r].op) \in ArchStatus
      BY <2>1 DEF LifecycleTarget, LifecycleOps
    <2>3. [req[r].row EXCEPT !.status = LifecycleTarget(req[r].op)] \in Row
      BY <2>1, <2>2 DEF Request, Row
    <2> QED BY <2>1, <2>3, SaveRowKeeps
  <1> QED BY <1>1, <1>2, <1>3, StepCases, FinishKeeps, AskKeeps, AdmitKeeps, ProjectStepKeeps,
             LockArchitectureKeeps, CheckLayoutKeeps, CreateKeeps, ReviseKeeps, SaveLayoutKeeps

LEMMA Invariance == Spec => []IInv
  BY InitIInv, NextIInv, PTL DEF Spec

(* Rows, revisions, layouts, locks and requests keep their types. *)
THEOREM TypeCorrect == Spec => []TypeOK
  <1>1. IInv => TypeOK
    BY DEF IInv
  <1> QED BY <1>1, Invariance, PTL

(* The history of every architecture is intact: numbered without gaps,     *)
(* each revision built on the one before, restored ones equal to their     *)
(* source, the row pointing at the last (_revise, restored_revision).      *)
THEOREM HistoryCorrect == Spec => []HistoryIntact
  <1>1. IInv => HistoryIntact
    BY DEF IInv
  <1> QED BY <1>1, Invariance, PTL

LEMMA InitAInv == Init => AInv
  <1> SUFFICES ASSUME Init PROVE AInv
    OBVIOUS
  <1>1. PICK name \in [ArchitectureIds -> Names], ir \in [Seeded -> SUBSET Nodes],
          status \in [Seeded -> {"active", "archived"}] :
          /\ arch = [a \in ArchitectureIds |->
                       IF a \in Seeded
                       THEN [status |-> status[a], current |-> 1, name |-> name[a]]
                       ELSE NoRow]
          /\ revisions = [a \in ArchitectureIds |->
                            IF a \in Seeded THEN <<FirstRevision(ir[a], Nobody)>> ELSE <<>>]
    BY DEF Init
  <1>2. \A r \in Requests : req[r].made = 0 /\ req[r].op = "none"
    BY DEF Init, NoRequest
  <1>3. \A a \in ArchitectureIds : \A n \in 1 .. Len(revisions[a]) :
          revisions[a][n].author = Nobody
    <2> SUFFICES ASSUME NEW a \in ArchitectureIds, NEW n \in 1 .. Len(revisions[a])
                 PROVE  revisions[a][n].author = Nobody
      OBVIOUS
    <2>1. CASE a \in Seeded
      <3> DEFINE first == FirstRevision(ir[a], Nobody)
      <3>1. revisions[a] = <<first>> /\ first.author = Nobody
        BY <1>1, <2>1 DEF FirstRevision
      <3> HIDE DEF first
      <3> QED BY <3>1
    <2>2. CASE a \notin Seeded
      BY <1>1, <2>2
    <2> QED BY <2>1, <2>2
  <1>4. Bases /\ Unmade
    BY <1>2 DEF Bases, Unmade, ContentOps
  <1>5. Unborn
    BY <1>1 DEF Unborn, NoRow
  <1>6. AnsweredRevisions
    BY <1>2, <1>3, AnsweredParts
  <1> QED BY <1>4, <1>5, <1>6 DEF AInv

LEMMA AnswersInvariance == Spec => []AInv
  BY InitAInv, NextAInv, Invariance, PTL DEF Spec

(* No lost update and no phantom one: who was answered with a revision     *)
(* owns the one after its base version, with its command applied to it,    *)
(* and every revision belongs to such an answer (_revise).                 *)
THEOREM AnsweredCorrect == Spec => []AnsweredRevisions
  <1>1. AInv => AnsweredRevisions
    BY DEF AInv
  <1> QED BY <1>1, AnswersInvariance, PTL

(* Nothing under an archived or deleted project changes, whatever was in   *)
(* flight when it was archived (project_access, ensure_modifiable).        *)
THEOREM ProjectFreezesEverything == Spec => ProjectFreezes
  <1>1. IInv /\ [Next]_vars => [archVars' # archVars => Modifiable]_vars
    <2> SUFFICES ASSUME IInv, [Next]_vars, archVars' # archVars PROVE Modifiable
      OBVIOUS
    <2>1. ASSUME NEW r \in Requests, req[r].pc \in InTransaction, req[r].op \notin ProjectSteps
          PROVE  Modifiable
      BY <2>1 DEF IInv, AdmittedModifiable
    <2>2. ASSUME NEW r \in Requests, Lifecycle(r) \/ UpdateMetadata(r)
          PROVE  req[r].pc \in InTransaction /\ req[r].op \notin ProjectSteps
      BY <2>2 DEF Lifecycle, UpdateMetadata, At, InTransaction, LifecycleOps, ProjectSteps
    <2>3. ASSUME NEW r \in Requests, Create(r) \/ Revise(r) \/ SaveLayout(r)
          PROVE  req[r].pc \in InTransaction /\ req[r].op \notin ProjectSteps
      BY <2>3 DEF Create, Revise, SaveLayout, At, InTransaction, ContentOps, ProjectSteps
    <2>4. UNCHANGED vars => UNCHANGED archVars
      BY DEF vars, archVars
    <2>5. ASSUME NEW r \in Requests,
                 \/ Ask(r) \/ Admit(r) \/ ProjectStep(r) \/ LockArchitecture(r) \/ CheckLayout(r)
                 \/ \E answer \in Answers : Finish(r, answer)
          PROVE  UNCHANGED archVars
      BY <2>5 DEF Ask, Admit, ProjectStep, LockArchitecture, CheckLayout, Finish
    <2> QED BY <2>1, <2>2, <2>3, <2>4, <2>5, StepCases
  <1> QED BY <1>1, Invariance, PTL DEF Spec, ProjectFreezes

(* An archived architecture keeps its name and its content, and a deleted  *)
(* one never changes again (ensure_modifiable under the row lock).         *)
THEOREM ArchiveFreezesContent == Spec => ArchiveFreezes
  <1> DEFINE Frozen(a) == arch[a].status \in {"archived", "deleted"} =>
               /\ revisions'[a] = revisions[a]
               /\ arch'[a].name = arch[a].name
               /\ arch[a].status = "deleted" => arch'[a] = arch[a]
  <1>1. ASSUME IInv, [Next]_vars, NEW a \in ArchitectureIds PROVE Frozen(a)
    <2>1. CASE UNCHANGED <<arch, revisions>>
      BY <2>1
    <2>2. ASSUME NEW r \in Requests, NEW row \in Row, SaveRow(r, row), req[r].pc = "locked",
                 row.name = req[r].row.name \/ req[r].row.status = "active"
          PROVE  Frozen(a)
      <3>1. /\ req[r].row = arch[req[r].arch] /\ Live(arch[req[r].arch])
            /\ arch \in [ArchitectureIds -> Row] /\ req[r].arch \in ArchitectureIds
        BY <1>1, <2>2 DEF IInv, RowFresh, TypeOK, Request
      <3>2. /\ revisions' = revisions
            /\ arch' = [arch EXCEPT ![req[r].arch].status = row.status,
                                    ![req[r].arch].name = row.name]
        BY <2>2 DEF SaveRow, Saved
      <3>3. CASE a = req[r].arch
        <4>1. arch'[a].name = row.name
          BY <3>1, <3>2, <3>3 DEF Row
        <4> QED BY <2>2, <3>1, <3>2, <3>3, <4>1 DEF Live
      <3>4. CASE a # req[r].arch
        <4>1. arch'[a] = arch[a]
          BY <3>1, <3>2, <3>4 DEF Row
        <4> QED BY <3>2, <4>1
      <3> QED BY <3>3, <3>4
    <2>3. ASSUME NEW r \in Requests, UpdateMetadata(r) PROVE Frozen(a)
      <3>1. /\ req[r].pc = "locked" /\ req[r] \in Request /\ req[r].row.status = "active"
            /\ SaveRow(r, [req[r].row EXCEPT !.name = req[r].name])
        BY <1>1, <2>3 DEF UpdateMetadata, At, IInv, TypeOK
      <3>2. [req[r].row EXCEPT !.name = req[r].name] \in Row
        BY <3>1 DEF Request, Row
      <3> QED BY <2>2, <3>1, <3>2
    <2>4. ASSUME NEW r \in Requests, Lifecycle(r) PROVE Frozen(a)
      <3> DEFINE row == [req[r].row EXCEPT !.status = LifecycleTarget(req[r].op)]
      <3>1. /\ req[r].pc = "locked" /\ req[r] \in Request /\ req[r].op \in LifecycleOps
            /\ SaveRow(r, row)
        BY <1>1, <2>4 DEF Lifecycle, At, IInv, TypeOK
      <3>2. LifecycleTarget(req[r].op) \in ArchStatus
        BY <3>1 DEF LifecycleTarget, LifecycleOps
      <3>3. row \in Row /\ row.name = req[r].row.name
        BY <3>1, <3>2 DEF Request, Row
      <3> QED BY <2>2, <3>1, <3>3
    <2>5. ASSUME NEW r \in Requests, Create(r) PROVE Frozen(a)
      <3>1. /\ arch[req[r].arch].status = "none" /\ req[r].arch \in ArchitectureIds
        BY <1>1, <2>5 DEF IInv, TypeOK, Request, Create, At, FreshIds, Creating
      <3>2. a # req[r].arch => arch'[a] = arch[a] /\ revisions'[a] = revisions[a]
        BY <1>1, <2>5 DEF IInv, TypeOK, Create, WithNew
      <3> QED BY <3>1, <3>2
    <2>6. ASSUME NEW r \in Requests, Revise(r) PROVE Frozen(a)
      <3>1. arch[req[r].arch].status = "active"
        BY <1>1, <2>6 DEF IInv, RowFresh, Revise, At, Loads
      <3>2. a # req[r].arch => arch'[a] = arch[a] /\ revisions'[a] = revisions[a]
        BY <1>1, <2>6 DEF IInv, TypeOK, Revise, Row
      <3> QED BY <3>1, <3>2
    <2>7. ASSUME NEW r \in Requests,
                 \/ Ask(r) \/ Admit(r) \/ ProjectStep(r) \/ LockArchitecture(r) \/ CheckLayout(r)
                 \/ SaveLayout(r) \/ \E answer \in Answers : Finish(r, answer)
          PROVE  UNCHANGED <<arch, revisions>>
      BY <2>7 DEF Ask, Admit, ProjectStep, LockArchitecture, CheckLayout, SaveLayout, Finish, archVars
    <2>8. UNCHANGED vars => UNCHANGED <<arch, revisions>>
      BY DEF vars
    <2> HIDE DEF Frozen
    <2> QED BY <1>1, <2>1, <2>3, <2>4, <2>5, <2>6, <2>7, <2>8, StepCases
  <1>2. IInv /\ [Next]_vars => [\A a \in ArchitectureIds : Frozen(a)]_vars
    BY <1>1
  <1> QED BY <1>2, Invariance, PTL DEF Spec, ArchiveFreezes

----------------------------------------------------------------------------
(* Architectures implements RevisionLog.                                   *)

(* The abstract state, as the substitutions of Log spell it out. *)
LogOf(revs) == [n \in 1 .. Len(revs) |-> revs[n].author]
Logs == [a \in ArchitectureIds |->
           [n \in 1 .. Len(revisions[a]) |-> revisions[a][n].author]]
Pending == {WriteOf(r) : r \in {q \in Writing : req[q].pc # "done"}}
Written == {WriteOf(r) : r \in {q \in Writing : req[q].pc = "done"}}

WriteOps == ContentOps \cup {"create"}

(* A request that has not asked yet is not a writer. *)
Idle == \A r \in Requests : req[r].pc = "idle" => req[r].op = "none"

----------------------------------------------------------------------------
(* The abstract steps, on the substituted state. *)

Asks(r) ==
    /\ \A ask \in Pending \cup Written : ask.writer # r
    /\ \E d \in ArchitectureIds : \E base \in 0 .. Len(Logs[d]) :
         Pending' = Pending \cup {[writer |-> r, doc |-> d, base |-> base]}
    /\ Logs' = Logs /\ Written' = Written

Wins(r) ==
    /\ WriteOf(r) \in Pending
    /\ Len(Logs[req[r].arch]) = req[r].base
    /\ Logs' = [Logs EXCEPT ![req[r].arch] = Append(@, r)]
    /\ Pending' = Pending \ {WriteOf(r)}
    /\ Written' = Written \cup {WriteOf(r)}

Withdraws(r) ==
    /\ WriteOf(r) \in Pending
    /\ Pending' = Pending \ {WriteOf(r)}
    /\ Logs' = Logs /\ Written' = Written

Stutters == Logs' = Logs /\ Pending' = Pending /\ Written' = Written

LEMMA LogSteps ==
    ASSUME Stutters \/ \E r \in Requests : Asks(r) \/ Wins(r) \/ Withdraws(r)
    PROVE  [Log!Next]_(Log!logVars)
  <1>1. CASE Stutters
    BY <1>1 DEF Stutters, Logs, Pending, Written, Log!logVars
  <1>2. ASSUME NEW r \in Requests, Asks(r) PROVE Log!Next
    <2>1. PICK d \in ArchitectureIds : \E base \in 0 .. Len(Logs[d]) :
            Pending' = Pending \cup {[writer |-> r, doc |-> d, base |-> base]}
      BY <1>2 DEF Asks
    <2>2. PICK base \in 0 .. Len(Logs[d]) :
            Pending' = Pending \cup {[writer |-> r, doc |-> d, base |-> base]}
      BY <2>1
    <2>3. Log!Ask(r, d, base)
      BY <1>2, <2>2, Zenon DEF Asks, Log!Ask, Logs, Pending, Written
    <2> QED BY <2>2, <2>3, Zenon DEF Log!Next, Logs
  <1>3. ASSUME NEW r \in Requests, Wins(r) PROVE Log!Next
    <2>1. PICK ask \in Pending : ask = WriteOf(r)
      BY <1>3 DEF Wins
    <2>2. ask.writer = r /\ ask.doc = req[r].arch /\ ask.base = req[r].base
      BY <2>1 DEF WriteOf
    <2>3. Log!Win(ask)
      BY <1>3, <2>1, <2>2, Zenon DEF Wins, Log!Win, Logs, Pending, Written
    <2> QED BY <2>3, Zenon DEF Log!Next, Pending
  <1>4. ASSUME NEW r \in Requests, Withdraws(r) PROVE Log!Next
    <2>1. PICK ask \in Pending : ask = WriteOf(r)
      BY <1>4 DEF Withdraws
    <2>2. Log!Withdraw(ask)
      BY <1>4, <2>1, Zenon DEF Withdraws, Log!Withdraw, Logs, Pending, Written
    <2> QED BY <2>2, Zenon DEF Log!Next, Pending
  <1> QED BY <1>1, <1>2, <1>3, <1>4

----------------------------------------------------------------------------
(* The writes of one request, and those of the others. *)

OthersPending(r) == {WriteOf(q) : q \in {p \in Requests \ {r} :
                       req[p].op \in WriteOps /\ req[p].pc # "done"}}
OthersWritten(r) == {WriteOf(q) : q \in {p \in Requests \ {r} :
                       req[p].op \in WriteOps /\ req[p].pc = "done"}}
Own(r) == IF req[r].op \in WriteOps THEN {WriteOf(r)} ELSE {}

LEMMA Split ==
    ASSUME NEW r \in Requests
    PROVE  /\ Pending = OthersPending(r) \cup (IF req[r].pc # "done" THEN Own(r) ELSE {})
           /\ Written = OthersWritten(r) \cup (IF req[r].pc = "done" THEN Own(r) ELSE {})
  <1>1. Writing = {q \in Requests : req[q].op \in WriteOps}
    BY DEF Writing, WriteOps
  <1>2. Pending = OthersPending(r) \cup (IF req[r].pc # "done" THEN Own(r) ELSE {})
    BY <1>1 DEF Pending, OthersPending, Own
  <1>3. Written = OthersWritten(r) \cup (IF req[r].pc = "done" THEN Own(r) ELSE {})
    BY <1>1 DEF Written, OthersWritten, Own
  <1> QED BY <1>2, <1>3

LEMMA SplitNext ==
    ASSUME NEW r \in Requests
    PROVE  /\ Pending' = OthersPending(r)' \cup (IF req'[r].pc # "done" THEN Own(r)' ELSE {})
           /\ Written' = OthersWritten(r)' \cup (IF req'[r].pc = "done" THEN Own(r)' ELSE {})
  <1>1. Writing' = {q \in Requests : req'[q].op \in WriteOps}
    BY DEF Writing, WriteOps
  <1>2. Pending' = OthersPending(r)' \cup (IF req'[r].pc # "done" THEN Own(r)' ELSE {})
    BY <1>1 DEF Pending, OthersPending, Own
  <1>3. Written' = OthersWritten(r)' \cup (IF req'[r].pc = "done" THEN Own(r)' ELSE {})
    BY <1>1 DEF Written, OthersWritten, Own
  <1> QED BY <1>2, <1>3

LEMMA OthersApart ==
    ASSUME NEW r \in Requests
    PROVE  \A ask \in OthersPending(r) \cup OthersWritten(r) : ask.writer # r
  BY DEF OthersPending, OthersWritten, WriteOf

LEMMA OthersKept ==
    ASSUME NEW r \in Requests, \A q \in Requests \ {r} : req'[q] = req[q]
    PROVE  OthersPending(r)' = OthersPending(r) /\ OthersWritten(r)' = OthersWritten(r)
  BY DEF OthersPending, OthersWritten, WriteOf

----------------------------------------------------------------------------
(* The kinds of concrete steps. *)

(* A step inside a transaction. *)
LEMMA GoesOnStutters ==
    ASSUME NEW r \in Requests, \A q \in Requests \ {r} : req'[q] = req[q],
           revisions' = revisions, req[r].pc # "done", req'[r].pc # "done",
           req'[r].op = req[r].op, req'[r].arch = req[r].arch, req'[r].base = req[r].base
    PROVE  Stutters
  <1>1. Own(r)' = Own(r)
    BY DEF Own, WriteOf
  <1>2. Logs' = Logs
    BY DEF Logs
  <1> QED BY <1>1, <1>2, Split, SplitNext, OthersKept DEF Stutters

(* A step of a request that is no writer, before and after. *)
LEMMA NoWriterStutters ==
    ASSUME NEW r \in Requests, \A q \in Requests \ {r} : req'[q] = req[q],
           revisions' = revisions, req[r].op \notin WriteOps, req'[r].op \notin WriteOps
    PROVE  Stutters
  <1>1. Own(r)' = {} /\ Own(r) = {}
    BY DEF Own
  <1>2. Logs' = Logs
    BY DEF Logs
  <1> QED BY <1>1, <1>2, Split, SplitNext, OthersKept DEF Stutters

(* An answer without a revision. *)
LEMMA AnswerWithdraws ==
    ASSUME TypeOK, NEW r \in Requests, req[r].pc # "done", NEW answer,
           Answer(r, answer), revisions' = revisions
    PROVE  Stutters \/ Withdraws(r)
  <1>1. req'[r].op = "none" /\ \A q \in Requests \ {r} : req'[q] = req[q]
    BY DEF Answer, NoRequest, TypeOK
  <1>2. req'[r].op \notin WriteOps
    BY <1>1 DEF WriteOps, ContentOps
  <1>3. CASE req[r].op \notin WriteOps
    BY <1>1, <1>2, <1>3, NoWriterStutters
  <1>4. CASE req[r].op \in WriteOps
    <2>1. Own(r) = {WriteOf(r)} /\ Own(r)' = {}
      BY <1>2, <1>4 DEF Own
    <2>2. WriteOf(r) \notin OthersPending(r)
      BY OthersApart DEF WriteOf
    <2>3. Logs' = Logs
      BY DEF Logs
    <2>4. Pending = OthersPending(r) \cup {WriteOf(r)} /\ Written = OthersWritten(r)
      BY <2>1, Split
    <2>5. Pending' = OthersPending(r) /\ Written' = OthersWritten(r)
      BY <1>1, <2>1, SplitNext, OthersKept
    <2> QED BY <2>2, <2>3, <2>4, <2>5 DEF Withdraws
  <1> QED BY <1>3, <1>4

(* The log of a history. *)
LEMMA LogType ==
    ASSUME NEW revs \in Seq(Revision)
    PROVE  LogOf(revs) \in Seq(Requests \cup {Nobody}) /\ Len(LogOf(revs)) = Len(revs)
  <1>1. \A n \in 1 .. Len(revs) : revs[n].author \in Requests \cup {Nobody}
    <2>1. \A n \in 1 .. Len(revs) : revs[n] \in Revision
      OBVIOUS
    <2> QED BY <2>1 DEF Revision
  <1>2. Len(revs) \in Nat
    OBVIOUS
  <1> QED BY <1>1, <1>2 DEF LogOf

LEMMA LogAppend ==
    ASSUME NEW revs \in Seq(Revision), NEW longer \in Seq(Revision), NEW r \in Requests,
           Len(longer) = Len(revs) + 1,
           \A n \in 1 .. Len(revs) : longer[n] = revs[n],
           longer[Len(revs) + 1].author = r
    PROVE  LogOf(longer) = Append(LogOf(revs), r)
  <1> DEFINE old == LogOf(revs)
             new == LogOf(longer)
  <1>1. /\ old \in Seq(Requests \cup {Nobody}) /\ Len(old) = Len(revs)
        /\ new \in Seq(Requests \cup {Nobody}) /\ Len(new) = Len(revs) + 1
        /\ Len(revs) \in Nat
    BY LogType
  <1>2. \A n \in 1 .. Len(revs) : new[n] = old[n]
    BY <1>1 DEF LogOf
  <1>3. new[Len(revs) + 1] = r
    BY <1>1 DEF LogOf
  <1> HIDE DEF old, new
  <1>4. /\ Append(old, r) \in Seq(Requests \cup {Nobody})
        /\ Len(Append(old, r)) = Len(revs) + 1
        /\ \A n \in 1 .. Len(revs) + 1 : Append(old, r)[n] = new[n]
    BY <1>1, <1>2, <1>3
  <1> QED BY <1>1, <1>4 DEF old, new

(* The write of a revision, by Create or Revise. *)
LEMMA WriteWins ==
    ASSUME TypeOK, TypeOK', NEW r \in Requests, req[r].pc # "done", req[r].op \in WriteOps,
           AnswerMade(r, req[r].base + 1),
           req[r].base = Len(revisions[req[r].arch]),
           Len(revisions'[req[r].arch]) = req[r].base + 1,
           \A n \in 1 .. req[r].base : revisions'[req[r].arch][n] = revisions[req[r].arch][n],
           revisions'[req[r].arch][req[r].base + 1].author = r,
           \A b \in ArchitectureIds : b # req[r].arch => revisions'[b] = revisions[b]
    PROVE  Wins(r)
  <1>1. /\ req[r] \in Request /\ req[r].arch \in ArchitectureIds
        /\ revisions \in [ArchitectureIds -> Seq(Revision)]
        /\ revisions' \in [ArchitectureIds -> Seq(Revision)]
    BY DEF TypeOK, Request
  <1>2. /\ req'[r].pc = "done" /\ req'[r].op = req[r].op
        /\ req'[r].arch = req[r].arch /\ req'[r].base = req[r].base
        /\ \A q \in Requests \ {r} : req'[q] = req[q]
    BY <1>1 DEF AnswerMade, TypeOK, Request
  <1>3. Own(r)' = {WriteOf(r)} /\ Own(r) = {WriteOf(r)}
    BY <1>2 DEF Own, WriteOf
  <1>4. WriteOf(r) \notin OthersPending(r)
    BY OthersApart DEF WriteOf
  <1>5. Pending = OthersPending(r) \cup {WriteOf(r)} /\ Written = OthersWritten(r)
    <2>1. /\ Pending = OthersPending(r) \cup Own(r)
          /\ Written = OthersWritten(r) \cup {}
      BY Split, Zenon
    <2> QED BY <1>3, <2>1
  <1>6. Pending' = OthersPending(r) /\ Written' = OthersWritten(r) \cup {WriteOf(r)}
    <2>1. /\ Pending' = OthersPending(r)' \cup {}
          /\ Written' = OthersWritten(r)' \cup Own(r)'
      BY <1>2, SplitNext, Zenon
    <2>2. OthersPending(r)' = OthersPending(r) /\ OthersWritten(r)' = OthersWritten(r)
      BY <1>2, OthersKept
    <2> QED BY <1>3, <2>1, <2>2
  <1>7. PICK a \in ArchitectureIds : a = req[r].arch
    BY <1>1
  <1>8. /\ Logs = [b \in ArchitectureIds |-> LogOf(revisions[b])]
        /\ Logs' = [b \in ArchitectureIds |-> LogOf(revisions'[b])]
    BY DEF Logs, LogOf
  <1>9. LogOf(revisions'[a]) = Append(LogOf(revisions[a]), r)
    <2>1. PICK revs \in Seq(Revision), longer \in Seq(Revision) :
            revs = revisions[a] /\ longer = revisions'[a]
      BY <1>1
    <2>2. /\ Len(longer) = Len(revs) + 1
          /\ \A n \in 1 .. Len(revs) : longer[n] = revs[n]
          /\ longer[Len(revs) + 1].author = r
      BY <1>7, <2>1
    <2> QED BY <2>1, <2>2, LogAppend
  <1>10. Logs' = [Logs EXCEPT ![a] = Append(@, r)]
    BY <1>7, <1>8, <1>9
  <1>11. Len(Logs[a]) = req[r].base
    <2>1. PICK revs \in Seq(Revision) : revs = revisions[a]
      BY <1>1
    <2> QED BY <1>7, <1>8, <2>1, LogType
  <1> QED BY <1>4, <1>5, <1>6, <1>7, <1>10, <1>11 DEF Wins

LEMMA CreateWins ==
    ASSUME IInv, AInv, IInv', NEW r \in Requests, Create(r)
    PROVE  Wins(r)
  <1> DEFINE a == req[r].arch
             first == FirstRevision(req[r].nodes, r)
  <1>1. /\ a \in ArchitectureIds /\ req[r].pc = "admitted" /\ req[r].op = "create"
        /\ revisions \in [ArchitectureIds -> Seq(Revision)]
    BY DEF Create, At, IInv, TypeOK, Request
  <1>2. req[r].base = 0 /\ Len(revisions[a]) = 0
    <2>1. arch[a].status = "none"
      BY <1>1 DEF IInv, FreshIds, Creating
    <2> QED BY <1>1, <2>1 DEF AInv, Bases, Unborn, IInv, HistoryIntact
  <1>3. revisions' = [revisions EXCEPT ![a] = <<first>>] /\ AnswerMade(r, 1)
    BY DEF Create
  <1>4. first.author = r
    BY DEF FirstRevision
  <1>5. Len(<<first>>) = 1 /\ <<first>>[1] = first
    OBVIOUS
  <1> HIDE DEF first
  <1>6. /\ Len(revisions'[a]) = 1 /\ revisions'[a][1].author = r
        /\ \A b \in ArchitectureIds : b # a => revisions'[b] = revisions[b]
    BY <1>1, <1>3, <1>4, <1>5
  <1>7. AnswerMade(r, req[r].base + 1)
    <2>1. req[r].base + 1 = 1
      BY <1>2
    <2> QED BY <1>3, <2>1
  <1>8. /\ req[r].pc # "done" /\ req[r].op \in WriteOps /\ req[r].base = Len(revisions[a])
        /\ Len(revisions'[a]) = req[r].base + 1
        /\ \A n \in 1 .. req[r].base : revisions'[a][n] = revisions[a][n]
        /\ revisions'[a][req[r].base + 1].author = r
    BY <1>1, <1>2, <1>6 DEF WriteOps
  <1>9. TypeOK /\ TypeOK'
    BY DEF IInv
  <1> QED BY <1>6, <1>7, <1>8, <1>9, WriteWins

LEMMA ReviseWins ==
    ASSUME IInv, IInv', NEW r \in Requests, Revise(r)
    PROVE  Wins(r)
  <1> DEFINE a == req[r].arch
             old == revisions[a]
             new == [content |-> NewContent(r), parent |-> req[r].base,
                     restored_from |-> req[r].from, author |-> r]
  <1>1. /\ a \in ArchitectureIds /\ req[r].pc = "locked" /\ req[r].op \in ContentOps
        /\ revisions \in [ArchitectureIds -> Seq(Revision)] /\ old \in Seq(Revision)
        /\ req[r].base \in Nat
    BY DEF Revise, At, IInv, TypeOK, Request
  <1>2. req[r].base = Len(old)
    BY <1>1 DEF Revise, BaseIsCurrent, IInv, HistoryIntact
  <1>3. revisions' = [revisions EXCEPT ![a] = Append(old, new)] /\ AnswerMade(r, req[r].base + 1)
    BY DEF Revise
  <1>4. new.author = r
    OBVIOUS
  <1> HIDE DEF new
  <1>5. /\ Len(Append(old, new)) = req[r].base + 1
        /\ \A n \in 1 .. req[r].base : Append(old, new)[n] = old[n]
        /\ Append(old, new)[req[r].base + 1] = new
    BY <1>1, <1>2
  <1>6. /\ revisions'[a] = Append(old, new)
        /\ \A b \in ArchitectureIds : b # a => revisions'[b] = revisions[b]
    BY <1>1, <1>3
  <1> HIDE DEF old
  <1>7. /\ Len(revisions'[a]) = req[r].base + 1
        /\ \A n \in 1 .. req[r].base : revisions'[a][n] = old[n]
        /\ revisions'[a][req[r].base + 1].author = r
    BY <1>4, <1>5, <1>6
  <1>8. req[r].pc # "done" /\ req[r].op \in WriteOps
    BY <1>1 DEF WriteOps
  <1>9. TypeOK /\ TypeOK'
    BY DEF IInv
  <1> QED BY <1>2, <1>3, <1>6, <1>7, <1>8, <1>9, WriteWins DEF old

(* A client bases its work on a version it has seen. *)
LEMMA AskAsks ==
    ASSUME IInv, AInv, Idle, NEW r \in Requests, Ask(r)
    PROVE  Stutters \/ Asks(r)
  <1>1. PICK op \in Operations : \E a \in Targets(op) :
          \E base \in BaseChoices(op, a), from \in FromChoices(op, a),
             name \in NameChoices(op), nodes \in NodeChoices(op) :
             Asked(r, op, a, base, from, name, nodes)
    BY DEF Ask, Asked
  <1>2. PICK a \in Targets(op) :
          \E base \in BaseChoices(op, a), from \in FromChoices(op, a),
             name \in NameChoices(op), nodes \in NodeChoices(op) :
             Asked(r, op, a, base, from, name, nodes)
    BY <1>1
  <1>3. PICK base \in BaseChoices(op, a), from \in FromChoices(op, a),
             name \in NameChoices(op), nodes \in NodeChoices(op) :
             Asked(r, op, a, base, from, name, nodes)
    BY <1>2
  <1>4. a \in ArchitectureIds
    BY ArchitecturesAssumption DEF Targets, AnyArchitecture
  <1>5. req[r] \in Request /\ req[r].pc = "idle" /\ req[r].op = "none" /\ revisions' = revisions
    BY DEF Ask, archVars, Idle, IInv, TypeOK
  <1>6. /\ req'[r].pc = "asked" /\ req'[r].op = op
        /\ req'[r].arch = a /\ req'[r].base = base
        /\ \A q \in Requests \ {r} : req'[q] = req[q]
    BY <1>3, <1>5 DEF Asked, IInv, TypeOK, Request
  <1>7. req[r].op \notin WriteOps
    BY <1>5 DEF WriteOps, ContentOps
  <1>8. CASE op \notin WriteOps
    BY <1>5, <1>6, <1>7, <1>8, NoWriterStutters
  <1>9. CASE op \in WriteOps
    <2>1. base \in 0 .. Len(revisions[a])
      <3>1. arch[a].current = Len(revisions[a]) /\ arch[a].current \in Nat
        BY <1>4 DEF IInv, HistoryIntact, TypeOK, Row
      <3> QED BY <3>1 DEF BaseChoices
    <2>2. Len(Logs[a]) = Len(revisions[a])
      <3>1. PICK revs \in Seq(Revision) : revs = revisions[a]
        BY <1>4 DEF IInv, TypeOK
      <3>2. Logs[a] = LogOf(revs)
        BY <1>4, <3>1 DEF Logs, LogOf
      <3> QED BY <3>1, <3>2, LogType
    <2>3. Own(r) = {} /\ Own(r)' = {[writer |-> r, doc |-> a, base |-> base]}
      BY <1>6, <1>7, <1>9 DEF Own, WriteOf
    <2>4. Pending = OthersPending(r) /\ Written = OthersWritten(r)
      BY <2>3, Split
    <2>5. /\ Pending' = OthersPending(r) \cup {[writer |-> r, doc |-> a, base |-> base]}
          /\ Written' = OthersWritten(r)
      BY <1>6, <2>3, SplitNext, OthersKept
    <2>6. Logs' = Logs
      BY <1>5 DEF Logs
    <2>7. \A ask \in Pending \cup Written : ask.writer # r
      BY <2>4, OthersApart
    <2>8. base \in 0 .. Len(Logs[a]) /\ Written' = Written
          /\ Pending' = Pending \cup {[writer |-> r, doc |-> a, base |-> base]}
      BY <2>1, <2>2, <2>4, <2>5
    <2> QED BY <1>4, <2>6, <2>7, <2>8 DEF Asks
  <1> QED BY <1>8, <1>9

----------------------------------------------------------------------------
(* The refinement. *)

LEMMA StepRefines ==
    ASSUME IInv, AInv, Idle, IInv', [Next]_vars
    PROVE  [Log!Next]_(Log!logVars)
  <1> SUFFICES Stutters \/ \E r \in Requests : Asks(r) \/ Wins(r) \/ Withdraws(r)
    BY LogSteps
  <1>1. CASE UNCHANGED vars
    BY <1>1 DEF vars, Stutters, Logs, Pending, Written, WriteOf, Writing
  <1>2. ASSUME NEW r \in Requests,
               \/ ProjectStep(r) \/ SaveLayout(r)
               \/ UpdateMetadata(r) \/ Lifecycle(r)
        PROVE  req[r].pc # "done" /\ Answer(r, "ok") /\ revisions' = revisions
    BY <1>2 DEF ProjectStep, SaveLayout, UpdateMetadata, Lifecycle, SaveRow, At, archVars
  <1>3. ASSUME NEW r \in Requests, NEW answer \in Answers, Finish(r, answer)
        PROVE  Answer(r, answer) /\ revisions' = revisions
    BY <1>3 DEF Finish, archVars
  <1>4. ASSUME NEW r \in Requests, Admit(r) \/ LockArchitecture(r) \/ CheckLayout(r)
        PROVE  Stutters
    <2>1. req[r] \in Request
      BY DEF IInv, TypeOK
    <2>2. /\ req[r].pc # "done" /\ req'[r].pc # "done" /\ revisions' = revisions
          /\ req'[r].op = req[r].op /\ req'[r].arch = req[r].arch /\ req'[r].base = req[r].base
          /\ \A q \in Requests \ {r} : req'[q] = req[q]
      <3>1. CASE Admit(r)
        BY <2>1, <3>1 DEF Admit, archVars, IInv, TypeOK, Request
      <3>2. CASE LockArchitecture(r)
        BY <2>1, <3>2 DEF LockArchitecture, At, archVars, IInv, TypeOK, Request
      <3>3. CASE CheckLayout(r)
        BY <2>1, <3>3 DEF CheckLayout, At, archVars, IInv, TypeOK, Request
      <3> QED BY <1>4, <3>1, <3>2, <3>3
    <2> QED BY <2>2, GoesOnStutters
  <1>5. TypeOK
    BY DEF IInv
  <1> QED BY <1>1, <1>2, <1>3, <1>4, <1>5, StepCases, AnswerWithdraws, AskAsks, CreateWins, ReviseWins

LEMMA NextIdle == IInv /\ Idle /\ [Next]_vars => Idle'
  <1> SUFFICES ASSUME IInv, Idle, [Next]_vars PROVE Idle'
    OBVIOUS
  <1>1. CASE UNCHANGED vars
    BY <1>1 DEF vars, Idle
  <1>2. ASSUME NEW r \in Requests, \A q \in Requests \ {r} : req'[q] = req[q],
               req'[r].pc # "idle"
        PROVE  Idle'
    BY <1>2 DEF Idle
  <1>3. ASSUME NEW r \in Requests, Ended(r) PROVE Idle'
    BY <1>2, <1>3 DEF Ended
  <1>4. TypeOK
    BY DEF IInv
  <1>5. ASSUME NEW r \in Requests, Admit(r) \/ LockArchitecture(r) \/ CheckLayout(r) \/ Ask(r)
        PROVE  Idle'
    <2>1. req[r] \in Request
      BY DEF IInv, TypeOK
    <2>2. CASE Admit(r)
      BY <1>2, <2>1, <2>2 DEF Admit, IInv, TypeOK, Request
    <2>3. CASE LockArchitecture(r)
      BY <1>2, <2>1, <2>3 DEF LockArchitecture, At, IInv, TypeOK, Request
    <2>4. CASE CheckLayout(r)
      BY <1>2, <2>1, <2>4 DEF CheckLayout, At, IInv, TypeOK, Request
    <2>5. CASE Ask(r)
      <3>1. PICK op \in AllOps, a \in ArchitectureIds, base \in Nat, from \in Nat,
                 name \in Names, nodes \in SUBSET Nodes :
                 Asked(r, op, a, base, from, name, nodes)
        BY <1>4, <2>5, AskChoice
      <3> QED BY <1>2, <2>1, <3>1 DEF Asked, IInv, TypeOK, Request
    <2> QED BY <1>5, <2>2, <2>3, <2>4, <2>5
  <1>6. ASSUME NEW r \in Requests,
               \/ ProjectStep(r) \/ SaveLayout(r) \/ UpdateMetadata(r) \/ Lifecycle(r)
        PROVE  Answer(r, "ok")
    BY <1>6 DEF ProjectStep, SaveLayout, UpdateMetadata, Lifecycle, SaveRow
  <1>7. ASSUME NEW r \in Requests, NEW answer \in Answers, Finish(r, answer)
        PROVE  Answer(r, answer)
    BY <1>7 DEF Finish
  <1>8. ASSUME NEW r \in Requests, Create(r) \/ Revise(r) PROVE Ended(r)
    <2>1. \E made : AnswerMade(r, made)
      BY <1>8 DEF Create, Revise
    <2> QED BY <1>4, <2>1, AnswerMadeEnds
  <1> QED BY <1>1, <1>3, <1>4, <1>5, <1>6, <1>7, <1>8, StepCases, AnswerEnds

LEMMA InitRefines == Init => Idle /\ Log!Init
  <1> SUFFICES ASSUME Init PROVE Idle /\ Log!Init
    OBVIOUS
  <1>1. \A r \in Requests : req[r].op = "none"
    BY DEF Init, NoRequest
  <1>2. Pending = {} /\ Written = {}
    <2>1. Writing = {}
      BY <1>1 DEF Writing, ContentOps
    <2> QED BY <2>1 DEF Pending, Written
  <1>3. ASSUME NEW a \in ArchitectureIds PROVE Logs[a] \in {<<>>, <<Nobody>>}
    <2>1. Logs[a] = LogOf(revisions[a])
      BY DEF Logs, LogOf
    <2>2. PICK ir \in [Seeded -> SUBSET Nodes] :
            revisions = [b \in ArchitectureIds |->
                           IF b \in Seeded THEN <<FirstRevision(ir[b], Nobody)>> ELSE <<>>]
      BY DEF Init
    <2>3. CASE a \in Seeded
      <3> DEFINE first == FirstRevision(ir[a], Nobody)
      <3>1. revisions[a] = <<first>> /\ first.author = Nobody
        BY <2>2, <2>3 DEF FirstRevision
      <3> HIDE DEF first
      <3>2. LogOf(<<first>>) = <<Nobody>>
        BY <3>1 DEF LogOf
      <3> QED BY <2>1, <3>1, <3>2
    <2>4. CASE a \notin Seeded
      <3>1. revisions[a] = <<>>
        BY <2>2, <2>4
      <3>2. LogOf(<<>>) = <<>>
        BY DEF LogOf
      <3> QED BY <2>1, <3>1, <3>2
    <2> QED BY <2>3, <2>4
  <1>4. Logs \in [ArchitectureIds -> {<<>>, <<Nobody>>}]
    BY <1>3 DEF Logs
  <1> QED BY <1>1, <1>2, <1>4, Zenon DEF Idle, Log!Init, Logs, Pending, Written

(* Every architecture is a revision log: whatever locks, statements, other *)
(* operations and failures come between, a content operation or a creation *)
(* in progress either appends the revision after its base or leaves none   *)
(* (_revise, append_revision, repository.add).                             *)
THEOREM RevisionLogImplemented == Spec => ImplementsRevisionLog
  <1>1. IInv /\ IInv' /\ AInv /\ Idle /\ [Next]_vars => [Log!Next]_(Log!logVars)
    BY StepRefines
  <1> QED BY <1>1, InitRefines, NextIdle, Invariance, AnswersInvariance, PTL
          DEF ImplementsRevisionLog, Log!Spec, Spec
=============================================================================
