-------------------------- MODULE DocumentsProofs --------------------------
(* Theorems about the migration plans, the decisions and the analyses of    *)
(* Documents, for every set of requests, plans, decisions and options and   *)
(* every bound.                                                             *)
EXTENDS Documents, FiniteSetTheorems, TLAPS

----------------------------------------------------------------------------
(* Migration plans: the inductive invariant. *)

PlanTypeOK ==
    /\ models \in 1 .. MaxModels
    /\ versions \in [PlanIds -> Seq(Plan!Version)]
    /\ rowLock \in [Requests -> PlanIds \X (Nat \ {0}) \cup {Plan!NoRow}]
    /\ reviews \in [Requests -> Plan!Request]

RowOps == {"regenerate"} \cup Plan!ReviewOps

(* A request names a plan that has versions, and a version of it, unless   *)
(* it makes the plan.                                                      *)
Names(r) ==
    /\ reviews[r].pc \in {"idle", "done"} => reviews[r].op = "none"
    /\ reviews[r].op = "create" => reviews[r].plan \in PlanIds /\ versions[reviews[r].plan] = <<>>
    /\ reviews[r].op \in RowOps => reviews[r].plan \in PlanIds /\ versions[reviews[r].plan] # <<>>
    /\ reviews[r].op \in Plan!ReviewOps => reviews[r].version \in 1 .. Len(versions[reviews[r].plan])

(* The version it read under the row lock is still the version, and a      *)
(* verdict was checked against it.                                         *)
HoldsVersion(r) ==
    /\ reviews[r].pc \in {"selected", "locked", "judged"} =>
         /\ reviews[r].op \in RowOps
         /\ reviews[r].version \in 1 .. Len(versions[reviews[r].plan])
    /\ reviews[r].pc \in {"locked", "judged"} =>
         /\ rowLock[r] = <<reviews[r].plan, reviews[r].version>>
         /\ reviews[r].row = versions[reviews[r].plan][reviews[r].version]
    /\ reviews[r].pc = "judged" =>
         /\ reviews[r].op \in Plan!ReviewOps
         /\ Plan!VerdictOf(reviews[r].op) \in Plan!EXACT => reviews[r].print = reviews[r].row.proposal

Making(r) == reviews[r].op = "create"
MadeApart ==
    \A r, q \in Requests : r # q /\ Making(r) /\ Making(q) => reviews[r].plan # reviews[q].plan

LocksApart ==
    \A r, q \in Requests : r # q /\ rowLock[r] # Plan!NoRow => rowLock[r] # rowLock[q]

(* PlansSound, for one version and for the versions of one plan. *)
Superseded(version) == \E k \in 1 .. Len(version.reviews) : version.reviews[k].to = "superseded"
After(version, k) == IF k = 0 THEN Plan!StatusOf(version.proposal) ELSE version.reviews[k].to
Tells(version) ==
    /\ After(version, Len(version.reviews)) = version.status
    /\ \A k \in 1 .. Len(version.reviews) :
         /\ version.reviews[k].from = After(version, k - 1)
         /\ version.reviews[k].exact => version.reviews[k].print = version.proposal
Current(list) ==
    \A v \in 1 .. Len(list) : Tells(list[v]) /\ (Superseded(list[v]) <=> v < Len(list))

PlanInv ==
    /\ PlanTypeOK
    /\ \A r \in Requests : Names(r) /\ HoldsVersion(r)
    /\ MadeApart /\ LocksApart
    /\ \A p \in PlanIds : Current(versions[p])

----------------------------------------------------------------------------
(* Versions. *)

LEMMA PlanConstants ==
    /\ MaxRevision \in Nat \ {0} /\ MaxModels \in Nat \ {0}
    /\ Plan!AnyProposal \in Plan!Proposal /\ Plan!AnyWish \in Plan!Wish
  <1>1. MaxRevision \in Nat \ {0} /\ MaxModels \in Nat \ {0}
    BY HeadAssumption, DocumentsAssumption DEF Plan!MigrationPlansConstants
  <1>2. Plan!AnyWish \in Plan!Wish
    BY <1>1 DEF Plan!AnyWish, Plan!Wish
  <1> QED BY <1>1, <1>2 DEF Plan!AnyProposal, Plan!Proposal

LEMMA FreshVersion ==
    ASSUME NEW proposal \in Plan!Proposal
    PROVE  LET new == Plan!Fresh(proposal)
           IN  /\ new \in Plan!Version /\ new.proposal = proposal
               /\ Tells(new) /\ ~Superseded(new) /\ new.reviews = <<>>
  <1> DEFINE new == Plan!Fresh(proposal)
  <1>1. Plan!StatusOf(proposal) \in Plan!PlanStatus
    BY DEF Plan!StatusOf, Plan!PlanStatus
  <1>2. /\ new \in Plan!Version /\ new.proposal = proposal /\ new.reviews = <<>>
        /\ new.status = Plan!StatusOf(proposal)
    BY <1>1 DEF Plan!Fresh, Plan!Version
  <1> HIDE DEF new
  <1>3. Len(new.reviews) = 0 /\ 1 .. Len(new.reviews) = {}
    BY <1>2
  <1>4. Tells(new)
    <2>1. After(new, Len(new.reviews)) = new.status
      BY <1>2, <1>3 DEF After
    <2> QED BY <1>3, <2>1, Zenon DEF Tells
  <1>5. ~Superseded(new)
    BY <1>3, Zenon DEF Superseded
  <1> QED BY <1>2, <1>4, <1>5 DEF new

LEMMA MovedVersion ==
    ASSUME NEW version \in Plan!Version, NEW to \in Plan!PlanStatus, NEW print \in Plan!Proposal,
           Tells(version), to \in Plan!EXACT => print = version.proposal
    PROVE  LET new == Plan!Moved(version, to, print)
           IN  /\ new \in Plan!Version /\ new.proposal = version.proposal /\ new.status = to
               /\ Tells(new)
               /\ Superseded(new) <=> Superseded(version) \/ to = "superseded"
               /\ SubSeq(new.reviews, 1, Len(version.reviews)) = version.reviews
  <1> DEFINE new == Plan!Moved(version, to, print)
             e == [from |-> version.status, to |-> to, exact |-> to \in Plan!EXACT,
                   print |-> IF to \in Plan!EXACT THEN print ELSE Plan!AnyProposal]
             h == version.reviews
             n == Len(h)
  <1>1. e \in Plan!Event /\ e.from = version.status /\ e.to = to
        /\ (e.exact => e.print = version.proposal)
    <2>1. (IF to \in Plan!EXACT THEN print ELSE Plan!AnyProposal) \in Plan!Proposal
      BY PlanConstants
    <2>2. e \in Plan!Event /\ e.from = version.status /\ e.to = to
      BY <2>1 DEF Plan!Event, Plan!Version
    <2>3. e.exact = (to \in Plan!EXACT) /\ (to \in Plan!EXACT => e.print = print)
      BY Zenon
    <2> HIDE DEF e
    <2> QED BY <2>2, <2>3
  <1>2. h \in Seq(Plan!Event) /\ n \in Nat
    BY DEF Plan!Version
  <1>3. new = [version EXCEPT !.status = to, !.reviews = Append(h, e)]
    BY DEF Plan!Moved, Plan!Version
  <1> HIDE DEF e
  <1>4. /\ Append(h, e) \in Seq(Plan!Event) /\ Len(Append(h, e)) = n + 1 /\ Append(h, e)[n + 1] = e
        /\ \A k \in 1 .. n : Append(h, e)[k] = h[k]
    BY <1>1, <1>2
  <1>5. /\ new \in Plan!Version /\ new.proposal = version.proposal /\ new.status = to
        /\ new.reviews = Append(h, e)
    BY <1>3, <1>4 DEF Plan!Version
  <1> HIDE DEF new
  <1>6. SubSeq(new.reviews, 1, n) = h
    BY <1>1, <1>2, <1>5
  <1>7. /\ Len(new.reviews) = n + 1 /\ new.reviews[n + 1] = e
        /\ \A k \in 1 .. n : new.reviews[k] = h[k]
    BY <1>4, <1>5
  <1>8. Tells(new)
    <2>1. \A k \in 0 .. n : After(new, k) = After(version, k)
      BY <1>2, <1>5, <1>7 DEF After
    <2>2. After(new, n + 1) = to /\ After(version, n) = version.status
      BY <1>1, <1>2, <1>7 DEF After, Tells
    <2>3. ASSUME NEW k \in 1 .. n + 1
          PROVE  /\ new.reviews[k].from = After(new, k - 1)
                 /\ new.reviews[k].exact => new.reviews[k].print = new.proposal
      <3>1. CASE k = n + 1
        <4>1. k - 1 = n /\ n \in 0 .. n
          BY <1>2, <3>1
        <4> QED BY <1>1, <1>5, <1>7, <2>1, <2>2, <3>1, <4>1
      <3>2. CASE k # n + 1
        <4>1. k \in 1 .. n /\ k - 1 \in 0 .. n
          BY <1>2, <3>2
        <4> QED BY <1>5, <1>7, <2>1, <4>1 DEF Tells
      <3> QED BY <3>1, <3>2
    <2> QED BY <1>5, <1>7, <2>2, <2>3 DEF Tells
  <1>9. Superseded(new) <=> Superseded(version) \/ to = "superseded"
    <2>1. 1 .. n + 1 = (1 .. n) \cup {n + 1}
      BY <1>2
    <2> QED BY <1>1, <1>7, <2>1 DEF Superseded
  <1> QED BY <1>5, <1>6, <1>8, <1>9 DEF new

----------------------------------------------------------------------------
(* Steps of one request. *)

LEMMA ReviewingType ==
    ASSUME PlanInv, NEW r \in Requests
    PROVE  /\ reviews[r] \in Plan!Request /\ reviews[r].pc \in Plan!Stages
           /\ reviews[r].wish \in Plan!Wish /\ reviews[r].print \in Plan!Proposal
           /\ reviews[r].row \in Plan!Version /\ reviews[r].version \in Nat
  BY DEF PlanInv, PlanTypeOK, Plan!Request

LEMMA NoReviewType ==
    /\ Plan!NoRequest \in Plan!Request /\ Plan!NoRequest.op = "none" /\ Plan!NoRequest.pc = "idle"
  <1>1. Plan!Fresh(Plan!AnyProposal) \in Plan!Version
    BY PlanConstants, FreshVersion
  <1> QED BY <1>1, PlanConstants DEF Plan!NoRequest, Plan!Request, Plan!Stages

(* What a step of r may do to the versions while the others work on them. *)
PlanFrame(r) ==
    /\ \A q \in Requests \ {r} : reviews'[q] = reviews[q] /\ rowLock'[q] = rowLock[q]
    /\ \A p \in PlanIds : Len(versions[p]) <= Len(versions'[p])
    /\ \A q \in Requests \ {r} : Making(q) => versions'[reviews[q].plan] = versions[reviews[q].plan]
    /\ \A q \in Requests \ {r} : reviews[q].pc \in {"locked", "judged"} =>
         versions'[reviews[q].plan][reviews[q].version] = versions[reviews[q].plan][reviews[q].version]

LEMMA PlanKeeps ==
    ASSUME PlanInv, PlanTypeOK', NEW r \in Requests, PlanFrame(r), Names(r)', HoldsVersion(r)',
           \A q \in Requests \ {r} : rowLock'[r] # Plan!NoRow => rowLock'[r] # rowLock[q],
           \A q \in Requests \ {r} : Making(r)' /\ Making(q) => reviews'[r].plan # reviews[q].plan,
           \A p \in PlanIds : Current(versions'[p])
    PROVE  PlanInv'
  <1>1. ASSUME NEW q \in Requests \ {r} PROVE Names(q)' /\ HoldsVersion(q)'
    <2>1. reviews'[q] = reviews[q] /\ rowLock'[q] = rowLock[q] /\ Names(q) /\ HoldsVersion(q)
      BY DEF PlanFrame, PlanInv
    <2>2. \A p \in PlanIds : /\ versions[p] \in Seq(Plan!Version) /\ versions'[p] \in Seq(Plan!Version)
                             /\ Len(versions[p]) <= Len(versions'[p])
      BY DEF PlanInv, PlanTypeOK, PlanFrame
    <2>3. \A p \in PlanIds : /\ versions[p] # <<>> => versions'[p] # <<>>
                             /\ 1 .. Len(versions[p]) \subseteq 1 .. Len(versions'[p])
      BY <2>2
    <2>4. Making(q) => versions'[reviews[q].plan] = versions[reviews[q].plan]
      BY DEF PlanFrame
    <2>5. reviews[q].pc \in {"locked", "judged"} =>
            versions'[reviews[q].plan][reviews[q].version] = versions[reviews[q].plan][reviews[q].version]
      BY DEF PlanFrame
    <2>6. reviews[q].op \in RowOps => reviews[q].plan \in PlanIds
      BY <2>1 DEF Names
    <2>7. Names(q)'
      BY <2>1, <2>3, <2>4, <2>6 DEF Names, Making, RowOps
    <2>8. HoldsVersion(q)'
      BY <2>1, <2>3, <2>5, <2>6 DEF HoldsVersion
    <2> QED BY <2>7, <2>8
  <1>2. MadeApart'
    BY DEF PlanInv, MadeApart, PlanFrame, Making
  <1>3. LocksApart'
    BY DEF PlanInv, LocksApart, PlanFrame
  <1> QED BY <1>1, <1>2, <1>3 DEF PlanInv

(* The end of a request. *)
PlanEnded(r) ==
    /\ reviews' \in [Requests -> Plan!Request]
    /\ rowLock' \in [Requests -> PlanIds \X (Nat \ {0}) \cup {Plan!NoRow}]
    /\ \A q \in Requests \ {r} : reviews'[q] = reviews[q] /\ rowLock'[q] = rowLock[q]
    /\ reviews'[r].pc = "done" /\ reviews'[r].op = "none" /\ rowLock'[r] = Plan!NoRow

LEMMA AnswerEnds ==
    ASSUME PlanInv, NEW r \in Requests, Plan!Answer(r)
    PROVE  PlanEnded(r)
  <1> DEFINE done == [Plan!NoRequest EXCEPT !.pc = "done"]
  <1>1. done \in Plan!Request /\ done.pc = "done" /\ done.op = "none"
    BY NoReviewType DEF Plan!Request, Plan!Stages
  <1>2. reviews' = [reviews EXCEPT ![r] = done] /\ rowLock' = [rowLock EXCEPT ![r] = Plan!NoRow]
    BY DEF Plan!Answer, Plan!ReleaseRows
  <1> HIDE DEF done
  <1> QED BY <1>1, <1>2 DEF PlanEnded, PlanInv, PlanTypeOK

LEMMA EndedKeeps ==
    ASSUME PlanInv, NEW r \in Requests, PlanEnded(r),
           models' \in 1 .. MaxModels, versions' \in [PlanIds -> Seq(Plan!Version)],
           \A p \in PlanIds : Len(versions[p]) <= Len(versions'[p]),
           \A q \in Requests \ {r} : Making(q) => versions'[reviews[q].plan] = versions[reviews[q].plan],
           \A q \in Requests \ {r} : reviews[q].pc \in {"locked", "judged"} =>
             versions'[reviews[q].plan][reviews[q].version] = versions[reviews[q].plan][reviews[q].version],
           \A p \in PlanIds : Current(versions'[p])
    PROVE  PlanInv'
  <1>1. PlanTypeOK' /\ PlanFrame(r)
    BY DEF PlanEnded, PlanTypeOK, PlanFrame
  <1>2. Names(r)' /\ HoldsVersion(r)' /\ ~Making(r)'
    BY DEF PlanEnded, Names, HoldsVersion, Making, RowOps, Plan!ReviewOps
  <1> QED BY <1>1, <1>2, PlanKeeps DEF PlanEnded

LEMMA SameVersions ==
    ASSUME PlanInv, versions' = versions
    PROVE  /\ versions' \in [PlanIds -> Seq(Plan!Version)]
           /\ \A p \in PlanIds : Len(versions[p]) <= Len(versions'[p])
           /\ \A p \in PlanIds : Current(versions'[p])
  <1>1. \A p \in PlanIds : Len(versions[p]) \in Nat
    BY DEF PlanInv, PlanTypeOK
  <1> QED BY <1>1 DEF PlanInv, PlanTypeOK

LEMMA PlanRefuseKeeps ==
    ASSUME PlanInv, NEW r \in Requests, Plan!Refuse(r)
    PROVE  PlanInv'
  <1>1. versions' = versions /\ models' = models /\ PlanEnded(r)
    BY AnswerEnds DEF Plan!Refuse, Plan!tables
  <1>2. models' \in 1 .. MaxModels
    BY <1>1 DEF PlanInv, PlanTypeOK
  <1> QED BY <1>1, <1>2, SameVersions, EndedKeeps

(* A step inside a request. *)
LEMMA PlanProgress ==
    ASSUME PlanInv, NEW r \in Requests, NEW request \in Plan!Request,
           reviews' = [reviews EXCEPT ![r] = request],
           models' = models, versions' = versions, rowLock' = rowLock,
           Names(r)', HoldsVersion(r)',
           \A q \in Requests \ {r} : request.op = "create" /\ Making(q) => request.plan # reviews[q].plan
    PROVE  PlanInv'
  <1>1. /\ reviews' \in [Requests -> Plan!Request] /\ reviews'[r] = request
        /\ \A q \in Requests \ {r} : reviews'[q] = reviews[q]
    BY DEF PlanInv, PlanTypeOK
  <1>2. PlanTypeOK'
    BY <1>1, SameVersions DEF PlanInv, PlanTypeOK
  <1>3. PlanFrame(r)
    BY <1>1, SameVersions DEF PlanFrame
  <1>4. \A q \in Requests \ {r} : rowLock'[r] # Plan!NoRow => rowLock'[r] # rowLock[q]
    BY DEF PlanInv, LocksApart
  <1>5. \A q \in Requests \ {r} : Making(r)' /\ Making(q) => reviews'[r].plan # reviews[q].plan
    BY <1>1 DEF Making
  <1> QED BY <1>2, <1>3, <1>4, <1>5, SameVersions, PlanKeeps

(* ... that keeps what the request is about. *)
LEMMA PlanGoesOn ==
    ASSUME PlanInv, NEW r \in Requests, NEW request \in Plan!Request,
           reviews' = [reviews EXCEPT ![r] = request],
           models' = models, versions' = versions, rowLock' = rowLock,
           request.op = reviews[r].op, request.plan = reviews[r].plan,
           request.version = reviews[r].version,
           request.pc \notin {"idle", "done", "selected", "locked", "judged"}
    PROVE  PlanInv'
  <1>1. reviews'[r] = request
    BY DEF PlanInv, PlanTypeOK
  <1>2. Names(r)' /\ HoldsVersion(r)'
    BY <1>1 DEF PlanInv, Names, HoldsVersion
  <1>3. \A q \in Requests \ {r} : request.op = "create" /\ Making(q) => request.plan # reviews[q].plan
    BY DEF PlanInv, MadeApart, Making
  <1> QED BY <1>2, <1>3, PlanProgress

LEMMA RecallKeeps ==
    ASSUME PlanInv, NEW r \in Requests, Plan!Recall(r)
    PROVE  PlanInv'
  <1> DEFINE p == reviews[r].plan
             wish == IF reviews[r].revised THEN reviews[r].wish
                     ELSE versions[p][Len(versions[p])].proposal.wish
             request == [reviews[r] EXCEPT !.pc = "recalled", !.wish = wish]
  <1>1. reviews[r] \in Plan!Request /\ reviews[r].op = "regenerate"
    BY ReviewingType DEF Plan!Recall, Plan!At
  <1>2. wish \in Plan!Wish
    <2>1. p \in PlanIds /\ versions[p] # <<>> /\ versions[p] \in Seq(Plan!Version)
      BY <1>1 DEF PlanInv, PlanTypeOK, Names, RowOps
    <2>2. versions[p][Len(versions[p])] \in Plan!Version
      BY <2>1
    <2>3. versions[p][Len(versions[p])].proposal.wish \in Plan!Wish
      BY <2>2 DEF Plan!Version, Plan!Proposal
    <2> QED BY <1>1, <2>3 DEF Plan!Request
  <1>3. /\ reviews' = [reviews EXCEPT ![r] = request]
        /\ models' = models /\ versions' = versions /\ rowLock' = rowLock
    BY <1>1 DEF Plan!Recall, Plan!tables, PlanInv, PlanTypeOK, Plan!Request
  <1> HIDE DEF wish
  <1>4. /\ request \in Plan!Request /\ request.op = reviews[r].op /\ request.plan = reviews[r].plan
        /\ request.version = reviews[r].version /\ request.pc = "recalled"
    BY <1>1, <1>2 DEF Plan!Request, Plan!Stages
  <1> HIDE DEF request
  <1> QED BY <1>3, <1>4, PlanGoesOn

LEMMA ComputeKeeps ==
    ASSUME PlanInv, NEW r \in Requests, Plan!Plan(r)
    PROVE  PlanInv'
  <1> DEFINE print == [wish |-> reviews[r].wish, models |-> models]
             request == [reviews[r] EXCEPT !.pc = "planned", !.print = print]
  <1>1. reviews[r] \in Plan!Request /\ print \in Plan!Proposal
    BY ReviewingType DEF Plan!Proposal, PlanInv, PlanTypeOK
  <1>2. /\ reviews' = [reviews EXCEPT ![r] = request]
        /\ models' = models /\ versions' = versions /\ rowLock' = rowLock
    BY <1>1 DEF Plan!Plan, Plan!tables, PlanInv, PlanTypeOK, Plan!Request
  <1> HIDE DEF print
  <1>3. /\ request \in Plan!Request /\ request.op = reviews[r].op /\ request.plan = reviews[r].plan
        /\ request.version = reviews[r].version /\ request.pc = "planned"
    BY <1>1 DEF Plan!Request, Plan!Stages
  <1> HIDE DEF request
  <1> QED BY <1>2, <1>3, PlanGoesOn

LEMMA GotoKeeps ==
    ASSUME PlanInv, NEW r \in Requests, NEW stage \in {"gathered", "admitted", "writable"},
           reviews' = [reviews EXCEPT ![r].pc = stage],
           models' = models, versions' = versions, rowLock' = rowLock
    PROVE  PlanInv'
  <1> DEFINE request == [reviews[r] EXCEPT !.pc = stage]
  <1>1. reviews[r] \in Plan!Request
    BY ReviewingType
  <1>2. reviews' = [reviews EXCEPT ![r] = request]
    BY DEF PlanInv, PlanTypeOK
  <1>3. /\ request \in Plan!Request /\ request.op = reviews[r].op /\ request.plan = reviews[r].plan
        /\ request.version = reviews[r].version /\ request.pc = stage
    BY <1>1 DEF Plan!Request, Plan!Stages
  <1> HIDE DEF request
  <1> QED BY <1>2, <1>3, PlanGoesOn

LEMMA SelectKeeps ==
    ASSUME PlanInv, NEW r \in Requests, Plan!Select(r)
    PROVE  PlanInv'
  <1> DEFINE p == reviews[r].plan
             version == IF reviews[r].op = "regenerate" THEN Len(versions[p]) ELSE reviews[r].version
             request == [reviews[r] EXCEPT !.pc = "selected", !.version = version]
  <1>1. reviews[r] \in Plan!Request /\ reviews[r].op \in RowOps /\ reviews[r].op # "create"
    BY ReviewingType DEF Plan!Select, Plan!At, RowOps, Plan!ReviewOps
  <1>2. /\ p \in PlanIds /\ versions[p] # <<>> /\ versions[p] \in Seq(Plan!Version)
        /\ reviews[r].op # "regenerate" => version \in 1 .. Len(versions[p])
    BY <1>1 DEF PlanInv, PlanTypeOK, Names, RowOps
  <1>3. Len(versions[p]) \in 1 .. Len(versions[p])
    BY <1>2
  <1>4. version \in 1 .. Len(versions[p]) /\ version \in Nat
    BY <1>2, <1>3
  <1>5. /\ reviews' = [reviews EXCEPT ![r] = request]
        /\ models' = models /\ versions' = versions /\ rowLock' = rowLock
    BY <1>1 DEF Plan!Select, Plan!tables, PlanInv, PlanTypeOK, Plan!Request
  <1> HIDE DEF version
  <1>6. /\ request \in Plan!Request /\ request.op = reviews[r].op /\ request.plan = p
        /\ request.version = version /\ request.pc = "selected"
    BY <1>1, <1>4 DEF Plan!Request, Plan!Stages
  <1>7. reviews'[r] = request
    BY <1>5 DEF PlanInv, PlanTypeOK
  <1> HIDE DEF request
  <1>8. Names(r)' /\ HoldsVersion(r)'
    BY <1>1, <1>2, <1>4, <1>5, <1>6, <1>7 DEF Names, HoldsVersion, RowOps
  <1> QED BY <1>1, <1>5, <1>6, <1>8, PlanProgress

LEMMA JudgeKeeps ==
    ASSUME PlanInv, NEW r \in Requests, Plan!Judge(r)
    PROVE  PlanInv'
  <1> DEFINE request == [reviews[r] EXCEPT !.pc = "judged"]
  <1>1. /\ reviews[r] \in Plan!Request /\ reviews[r].op \in Plan!ReviewOps /\ reviews[r].pc = "locked"
        /\ reviews[r].op # "create"
        /\ Plan!VerdictOf(reviews[r].op) \in Plan!EXACT => reviews[r].print = reviews[r].row.proposal
    BY ReviewingType DEF Plan!Judge, Plan!Allowed, Plan!At, Plan!ReviewOps
  <1>2. /\ reviews' = [reviews EXCEPT ![r] = request]
        /\ models' = models /\ versions' = versions /\ rowLock' = rowLock
    BY DEF Plan!Judge, Plan!Goto, Plan!tables, PlanInv, PlanTypeOK
  <1>3. /\ request \in Plan!Request /\ request.op = reviews[r].op /\ request.plan = reviews[r].plan
        /\ request.version = reviews[r].version /\ request.pc = "judged"
        /\ request.print = reviews[r].print /\ request.row = reviews[r].row
    BY <1>1 DEF Plan!Request, Plan!Stages
  <1>4. reviews'[r] = request
    BY <1>2 DEF PlanInv, PlanTypeOK
  <1> HIDE DEF request
  <1>5. Names(r) /\ HoldsVersion(r)
    BY DEF PlanInv
  <1>6. Names(r)' /\ HoldsVersion(r)'
    BY <1>1, <1>2, <1>3, <1>4, <1>5 DEF Names, HoldsVersion
  <1> QED BY <1>1, <1>2, <1>3, <1>6, PlanProgress

LEMMA LockVersionKeeps ==
    ASSUME PlanInv, NEW r \in Requests, Plan!LockVersion(r)
    PROVE  PlanInv'
  <1>1. /\ reviews[r] \in Plan!Request /\ reviews[r].op \in RowOps /\ reviews[r].pc = "selected"
        /\ reviews[r].op # "create"
    BY ReviewingType DEF Plan!LockVersion, Plan!At, RowOps, Plan!ReviewOps
  <1>2. Names(r) /\ HoldsVersion(r)
    BY DEF PlanInv
  <1>3. PICK p \in PlanIds, v \in Nat \ {0} :
          p = reviews[r].plan /\ v = reviews[r].version /\ v \in 1 .. Len(versions[p])
    BY <1>1, <1>2 DEF Names, HoldsVersion
  <1>4. versions[p] \in Seq(Plan!Version) /\ versions[p][v] \in Plan!Version
    BY <1>3 DEF PlanInv, PlanTypeOK
  <1> DEFINE request == [reviews[r] EXCEPT !.pc = "locked", !.row = versions[p][v]]
  <1>5. /\ reviews' = [reviews EXCEPT ![r] = request]
        /\ models' = models /\ versions' = versions /\ rowLock' = [rowLock EXCEPT ![r] = <<p, v>>]
        /\ \A q \in Requests : rowLock[q] # <<p, v>>
    BY <1>3 DEF Plan!LockVersion, Plan!tables, PlanInv, PlanTypeOK
  <1>6. /\ request \in Plan!Request /\ request.op = reviews[r].op /\ request.plan = p
        /\ request.version = v /\ request.pc = "locked" /\ request.row = versions[p][v]
    BY <1>1, <1>3, <1>4 DEF Plan!Request, Plan!Stages
  <1> HIDE DEF request
  <1>7. /\ reviews' \in [Requests -> Plan!Request] /\ reviews'[r] = request
        /\ \A q \in Requests \ {r} : reviews'[q] = reviews[q]
    BY <1>5, <1>6 DEF PlanInv, PlanTypeOK
  <1>8. /\ rowLock' \in [Requests -> PlanIds \X (Nat \ {0}) \cup {Plan!NoRow}] /\ rowLock'[r] = <<p, v>>
        /\ \A q \in Requests \ {r} : rowLock'[q] = rowLock[q]
    <2>1. <<p, v>> \in PlanIds \X (Nat \ {0}) \cup {Plan!NoRow}
      OBVIOUS
    <2>2. PICK pair \in PlanIds \X (Nat \ {0}) \cup {Plan!NoRow} : pair = <<p, v>>
      BY <2>1
    <2> QED BY <1>5, <2>2 DEF PlanInv, PlanTypeOK
  <1>9. PlanTypeOK' /\ PlanFrame(r)
    BY <1>5, <1>7, <1>8, SameVersions DEF PlanInv, PlanTypeOK, PlanFrame
  <1>10. Names(r)' /\ HoldsVersion(r)'
    BY <1>1, <1>2, <1>3, <1>5, <1>6, <1>7, <1>8 DEF Names, HoldsVersion
  <1>11. \A q \in Requests \ {r} : rowLock'[r] # Plan!NoRow => rowLock'[r] # rowLock[q]
    BY <1>5, <1>8
  <1>12. ~Making(r)'
    BY <1>1, <1>6, <1>7 DEF Making
  <1> QED BY <1>5, <1>9, <1>10, <1>11, <1>12, SameVersions, PlanKeeps

LEMMA AskPlanKeeps ==
    ASSUME PlanInv, NEW r \in Requests, Plan!Ask(r)
    PROVE  PlanInv'
  <1>1. /\ Plan!NoRequest \in Plan!Request /\ Plan!AnyProposal \in Plan!Proposal
        /\ Plan!AnyWish \in Plan!Wish
    BY NoReviewType, PlanConstants
  <1>2. ASSUME NEW p \in PlanIds, NEW w \in Plan!Wish, versions[p] = <<>>,
               \A q \in Requests : reviews[q].op = "create" => reviews[q].plan # p,
               Plan!Asked(r, [Plan!NoRequest EXCEPT !.op = "create", !.plan = p, !.wish = w])
        PROVE  PlanInv'
    <2> DEFINE request == [Plan!NoRequest EXCEPT !.op = "create", !.plan = p, !.wish = w, !.pc = "asked"]
    <2>1. /\ request \in Plan!Request /\ request.op = "create" /\ request.plan = p /\ request.pc = "asked"
      BY <1>1 DEF Plan!Request, Plan!Stages, Plan!PlanningOps
    <2>2. /\ reviews' = [reviews EXCEPT ![r] = request]
          /\ models' = models /\ versions' = versions /\ rowLock' = rowLock
      BY <1>2, <1>1 DEF Plan!Asked, Plan!tables, Plan!Request
    <2>3. reviews'[r] = request
      BY <2>2 DEF PlanInv, PlanTypeOK
    <2> HIDE DEF request
    <2>4. Names(r)' /\ HoldsVersion(r)'
      BY <1>2, <2>1, <2>2, <2>3 DEF Names, HoldsVersion, RowOps, Plan!ReviewOps
    <2>5. \A q \in Requests \ {r} : request.op = "create" /\ Making(q) => request.plan # reviews[q].plan
      BY <1>2, <2>1 DEF Making
    <2> QED BY <2>1, <2>2, <2>4, <2>5, PlanProgress
  <1>3. ASSUME NEW p \in PlanIds, NEW replace \in BOOLEAN, NEW revised \in BOOLEAN, NEW w \in Plan!Wish,
               Len(versions[p]) \in 1 .. MaxVersions - 1,
               Plan!Asked(r, [Plan!NoRequest EXCEPT !.op = "regenerate", !.plan = p, !.wish = w,
                                !.replace = replace, !.revised = revised])
        PROVE  PlanInv'
    <2> DEFINE request == [Plan!NoRequest EXCEPT !.op = "regenerate", !.plan = p, !.wish = w,
                             !.replace = replace, !.revised = revised, !.pc = "asked"]
    <2>1. /\ request \in Plan!Request /\ request.op = "regenerate" /\ request.plan = p
          /\ request.pc = "asked"
      BY <1>1 DEF Plan!Request, Plan!Stages, Plan!PlanningOps
    <2>2. /\ reviews' = [reviews EXCEPT ![r] = request]
          /\ models' = models /\ versions' = versions /\ rowLock' = rowLock
      BY <1>3, <1>1 DEF Plan!Asked, Plan!tables, Plan!Request
    <2>3. reviews'[r] = request
      BY <2>2 DEF PlanInv, PlanTypeOK
    <2>4. versions[p] # <<>>
      BY <1>3 DEF PlanInv, PlanTypeOK
    <2> HIDE DEF request
    <2>5. Names(r)' /\ HoldsVersion(r)'
      BY <2>1, <2>2, <2>3, <2>4 DEF Names, HoldsVersion, Plan!ReviewOps
    <2> QED BY <2>1, <2>2, <2>5, PlanProgress
  <1>4. ASSUME NEW p \in PlanIds, NEW op \in Plan!ReviewOps, NEW v \in 1 .. Len(versions[p]),
               NEW print \in Plan!Proposal,
               Plan!Asked(r, [Plan!NoRequest EXCEPT !.op = op, !.plan = p, !.version = v, !.print = print])
        PROVE  PlanInv'
    <2> DEFINE request == [Plan!NoRequest EXCEPT !.op = op, !.plan = p, !.version = v, !.print = print,
                             !.pc = "asked"]
    <2>1. v \in Nat /\ versions[p] # <<>>
      BY DEF PlanInv, PlanTypeOK
    <2>2. /\ request \in Plan!Request /\ request.op = op /\ request.plan = p
          /\ request.version = v /\ request.pc = "asked"
      BY <1>1, <2>1 DEF Plan!Request, Plan!Stages
    <2>3. /\ reviews' = [reviews EXCEPT ![r] = request]
          /\ models' = models /\ versions' = versions /\ rowLock' = rowLock
      BY <1>4, <1>1 DEF Plan!Asked, Plan!tables, Plan!Request
    <2>4. reviews'[r] = request
      BY <2>3 DEF PlanInv, PlanTypeOK
    <2>5. op # "create"
      BY DEF Plan!ReviewOps
    <2> HIDE DEF request
    <2>6. Names(r)' /\ HoldsVersion(r)'
      BY <2>1, <2>2, <2>3, <2>4, <2>5 DEF Names, HoldsVersion
    <2> QED BY <2>2, <2>3, <2>5, <2>6, PlanProgress
  <1>5. ASSUME NEW p \in PlanIds, NEW op \in Plan!ReviewOps, NEW v \in 1 .. Len(versions[p]),
               NEW print \in IF op \in {"approve", "reject"}
                             THEN {versions[p][k].proposal : k \in 1 .. Len(versions[p])}
                             ELSE {Plan!AnyProposal}
        PROVE  print \in Plan!Proposal
    <2>1. \A k \in 1 .. Len(versions[p]) : versions[p][k] \in Plan!Version
      BY DEF PlanInv, PlanTypeOK
    <2>2. \A k \in 1 .. Len(versions[p]) : versions[p][k].proposal \in Plan!Proposal
      BY <2>1 DEF Plan!Version
    <2> QED BY <1>1, <2>2
  <1>6. \A revised \in BOOLEAN : \A w \in IF revised THEN Plan!Wish ELSE {Plan!AnyWish} : w \in Plan!Wish
    BY <1>1
  <1>7. \/ \E p \in PlanIds, w \in Plan!Wish :
             /\ versions[p] = <<>> /\ \A q \in Requests : reviews[q].op = "create" => reviews[q].plan # p
             /\ Plan!Asked(r, [Plan!NoRequest EXCEPT !.op = "create", !.plan = p, !.wish = w])
        \/ \E p \in PlanIds, replace, revised \in BOOLEAN :
             \E w \in IF revised THEN Plan!Wish ELSE {Plan!AnyWish} :
                /\ Len(versions[p]) \in 1 .. MaxVersions - 1
                /\ Plan!Asked(r, [Plan!NoRequest EXCEPT !.op = "regenerate", !.plan = p, !.wish = w,
                                    !.replace = replace, !.revised = revised])
        \/ \E p \in PlanIds, op \in Plan!ReviewOps : \E v \in 1 .. Len(versions[p]) :
             \E print \in IF op \in {"approve", "reject"}
                          THEN {versions[p][k].proposal : k \in 1 .. Len(versions[p])}
                          ELSE {Plan!AnyProposal} :
                Plan!Asked(r, [Plan!NoRequest EXCEPT !.op = op, !.plan = p, !.version = v, !.print = print])
    BY Zenon DEF Plan!Ask
  <1> QED BY <1>2, <1>3, <1>4, <1>5, <1>6, <1>7, Zenon

LEMMA DeployKeeps ==
    ASSUME PlanInv, Plan!Deploy
    PROVE  PlanInv'
  <1>1. models' \in 1 .. MaxModels /\ UNCHANGED <<versions, rowLock, reviews>>
    BY PlanConstants DEF Plan!Deploy, PlanInv, PlanTypeOK
  <1> QED BY <1>1 DEF PlanInv, PlanTypeOK, Names, HoldsVersion, MadeApart, Making, LocksApart

(* What a step that writes versions does to them: the others' versions and *)
(* plans are left alone, and nothing recorded is lost.                     *)
Recalls(old, new) ==
    /\ new.proposal = old.proposal
    /\ SubSeq(new.reviews, 1, Len(old.reviews)) = old.reviews

PlanWrite(r) ==
    /\ versions' \in [PlanIds -> Seq(Plan!Version)] /\ models' = models
    /\ \A p \in PlanIds : Len(versions[p]) <= Len(versions'[p])
    /\ \A p \in PlanIds : \A v \in 1 .. Len(versions[p]) :
         \/ versions'[p][v] = versions[p][v]
         \/ /\ rowLock[r] = <<p, v>>
            /\ Recalls(versions[p][v], versions'[p][v])
            /\ versions[p][v].status \in Plan!UNDER_REVIEW /\ versions'[p][v].status = "superseded" =>
                 reviews[r].pc = "locked" /\ reviews[r].plan = p /\ reviews[r].replace
    /\ \A p \in PlanIds : versions[p] = <<>> /\ versions'[p] # <<>> => Making(r) /\ reviews[r].plan = p
    /\ \A p \in PlanIds : Current(versions'[p])

LEMMA PlanWriteKeeps ==
    ASSUME PlanInv, NEW r \in Requests, PlanWrite(r), PlanEnded(r)
    PROVE  PlanInv'
  <1>1. ASSUME NEW q \in Requests \ {r}, Making(q)
        PROVE  versions'[reviews[q].plan] = versions[reviews[q].plan]
    <2>1. reviews[q].plan \in PlanIds /\ versions[reviews[q].plan] = <<>>
      BY <1>1 DEF PlanInv, Names, Making
    <2>2. Making(r) => reviews[r].plan # reviews[q].plan
      BY <1>1 DEF PlanInv, MadeApart
    <2> QED BY <2>1, <2>2 DEF PlanWrite
  <1>2. ASSUME NEW q \in Requests \ {r}, reviews[q].pc \in {"locked", "judged"}
        PROVE  versions'[reviews[q].plan][reviews[q].version] = versions[reviews[q].plan][reviews[q].version]
    <2>1. /\ reviews[q].op \in RowOps /\ reviews[q].version \in 1 .. Len(versions[reviews[q].plan])
          /\ rowLock[q] = <<reviews[q].plan, reviews[q].version>>
      BY <1>2 DEF PlanInv, HoldsVersion
    <2>2. reviews[q].plan \in PlanIds
      BY <2>1 DEF PlanInv, Names
    <2>3. rowLock[r] # <<reviews[q].plan, reviews[q].version>>
      <3>1. <<reviews[q].plan, reviews[q].version>> # Plan!NoRow
        BY DEF Plan!NoRow
      <3> QED BY <2>1, <3>1 DEF PlanInv, LocksApart
    <2> QED BY <2>1, <2>2, <2>3 DEF PlanWrite
  <1>3. models' \in 1 .. MaxModels
    BY DEF PlanWrite, PlanInv, PlanTypeOK
  <1> QED BY <1>1, <1>2, <1>3, EndedKeeps DEF PlanWrite

LEMMA StoreWrites ==
    ASSUME PlanInv, NEW r \in Requests, Plan!Store(r)
    PROVE  PlanWrite(r) /\ PlanEnded(r)
  <1>1. PICK p \in PlanIds, new \in Plan!Version :
          /\ p = reviews[r].plan /\ new = Plan!Fresh(reviews[r].print)
          /\ Tells(new) /\ ~Superseded(new)
          /\ Making(r) /\ versions[p] = <<>>
    <2>1. reviews[r].print \in Plan!Proposal /\ Making(r)
      BY ReviewingType DEF Plan!Store, Plan!At, Making
    <2>2. reviews[r].plan \in PlanIds /\ versions[reviews[r].plan] = <<>>
      BY <2>1 DEF PlanInv, Names, Making
    <2>3. PICK proposal \in Plan!Proposal : proposal = reviews[r].print
      BY <2>1
    <2>4. LET new == Plan!Fresh(proposal)
          IN  new \in Plan!Version /\ Tells(new) /\ ~Superseded(new)
      BY FreshVersion
    <2> QED BY <2>1, <2>2, <2>3, <2>4
  <1>2. versions' = [versions EXCEPT ![p] = <<new>>] /\ models' = models
    BY <1>1 DEF Plan!Store
  <1>3. <<new>> \in Seq(Plan!Version) /\ Len(<<new>>) = 1 /\ <<new>>[1] = new
    OBVIOUS
  <1>4. /\ versions' \in [PlanIds -> Seq(Plan!Version)] /\ versions'[p] = <<new>>
        /\ \A b \in PlanIds \ {p} : versions'[b] = versions[b]
    BY <1>2, <1>3 DEF PlanInv, PlanTypeOK
  <1>5. Len(versions[p]) = 0 /\ \A b \in PlanIds : Len(versions[b]) \in Nat
    BY <1>1 DEF PlanInv, PlanTypeOK
  <1>6. \A b \in PlanIds : Current(versions'[b])
    <2>1. Current(<<new>>)
      <3>1. \A v \in 1 .. Len(<<new>>) : v = 1
        BY <1>3
      <3> QED BY <1>1, <1>3, <3>1 DEF Current
    <2> QED BY <1>4, <2>1 DEF PlanInv
  <1>7. \A b \in PlanIds : Len(versions[b]) <= Len(versions'[b])
    BY <1>3, <1>4, <1>5
  <1>8. \A b \in PlanIds : \A v \in 1 .. Len(versions[b]) : versions'[b][v] = versions[b][v]
    BY <1>4, <1>5
  <1>9. PlanEnded(r)
    BY AnswerEnds DEF Plan!Store
  <1> QED BY <1>1, <1>2, <1>4, <1>6, <1>7, <1>8, <1>9 DEF PlanWrite

(* The version a request holds, and the plan it is of. *)
LEMMA HeldVersion ==
    ASSUME PlanInv, NEW r \in Requests, reviews[r].pc \in {"locked", "judged"}
    PROVE  \E p \in PlanIds, v \in Nat \ {0}, old \in Plan!Version, list \in Seq(Plan!Version) :
             /\ p = reviews[r].plan /\ v = reviews[r].version /\ old = reviews[r].row
             /\ list = versions[p] /\ v \in 1 .. Len(list) /\ list[v] = old
             /\ rowLock[r] = <<p, v>> /\ Current(list) /\ Tells(old)
  <1>1. /\ reviews[r].op \in RowOps /\ reviews[r].version \in 1 .. Len(versions[reviews[r].plan])
        /\ rowLock[r] = <<reviews[r].plan, reviews[r].version>>
        /\ reviews[r].row = versions[reviews[r].plan][reviews[r].version]
    BY DEF PlanInv, HoldsVersion
  <1>2. reviews[r].plan \in PlanIds
    BY <1>1 DEF PlanInv, Names
  <1>3. PICK p \in PlanIds : p = reviews[r].plan
    BY <1>2
  <1>4. versions[p] \in Seq(Plan!Version) /\ Current(versions[p])
    BY DEF PlanInv, PlanTypeOK
  <1>5. PICK list \in Seq(Plan!Version) : list = versions[p]
    BY <1>4
  <1>6. PICK v \in Nat \ {0} : v = reviews[r].version
    BY <1>1
  <1>7. v \in 1 .. Len(list) /\ list[v] \in Plan!Version /\ list[v] = reviews[r].row
    BY <1>1, <1>3, <1>5, <1>6
  <1>8. PICK old \in Plan!Version : old = reviews[r].row
    BY <1>7
  <1>9. Current(list) /\ Tells(old)
    BY <1>4, <1>5, <1>7, <1>8 DEF Current
  <1> QED BY <1>1, <1>3, <1>5, <1>6, <1>7, <1>8, <1>9

LEMMA ReviewWrites ==
    ASSUME PlanInv, NEW r \in Requests, Plan!Review(r)
    PROVE  PlanWrite(r) /\ PlanEnded(r)
  <1>1. reviews[r].pc = "judged" /\ reviews[r].op \in Plan!ReviewOps
    BY DEF Plan!Review, Plan!At
  <1>2. PICK p \in PlanIds, v \in Nat \ {0}, old \in Plan!Version, list \in Seq(Plan!Version) :
             /\ p = reviews[r].plan /\ v = reviews[r].version /\ old = reviews[r].row
             /\ list = versions[p] /\ v \in 1 .. Len(list) /\ list[v] = old
             /\ rowLock[r] = <<p, v>> /\ Current(list) /\ Tells(old)
    BY <1>1, HeldVersion
  <1>3. PICK to \in Plan!PlanStatus, print \in Plan!Proposal :
             /\ to = Plan!VerdictOf(reviews[r].op) /\ print = reviews[r].print
             /\ to # "superseded"
             /\ to \in Plan!EXACT => print = old.proposal
    <2>1. Plan!VerdictOf(reviews[r].op) \in Plan!PlanStatus \ {"superseded"}
      BY <1>1 DEF Plan!VerdictOf, Plan!ReviewOps, Plan!PlanStatus
    <2>2. reviews[r].print \in Plan!Proposal
      BY ReviewingType
    <2>3. Plan!VerdictOf(reviews[r].op) \in Plan!EXACT => reviews[r].print = reviews[r].row.proposal
      BY <1>1 DEF PlanInv, HoldsVersion
    <2> QED BY <1>2, <2>1, <2>2, <2>3
  <1> DEFINE new == Plan!Moved(old, to, print)
  <1>4. /\ new \in Plan!Version /\ new.proposal = old.proposal /\ new.status = to
        /\ Tells(new) /\ (Superseded(new) <=> Superseded(old))
        /\ SubSeq(new.reviews, 1, Len(old.reviews)) = old.reviews
    BY <1>2, <1>3, MovedVersion
  <1>5. versions' = [versions EXCEPT ![p] = [list EXCEPT ![v] = new]] /\ models' = models
    BY <1>2, <1>3 DEF Plan!Review, PlanInv, PlanTypeOK
  <1> HIDE DEF new
  <1> DEFINE long == [list EXCEPT ![v] = new]
  <1>6. /\ long \in Seq(Plan!Version) /\ Len(long) = Len(list) /\ long[v] = new
        /\ \A w \in 1 .. Len(list) : w # v => long[w] = list[w]
    BY <1>2, <1>4
  <1>7. versions' = [versions EXCEPT ![p] = long]
    BY <1>5
  <1> HIDE DEF long
  <1>8. /\ versions' \in [PlanIds -> Seq(Plan!Version)] /\ versions'[p] = long
        /\ \A b \in PlanIds \ {p} : versions'[b] = versions[b]
    BY <1>6, <1>7 DEF PlanInv, PlanTypeOK
  <1>9. \A b \in PlanIds : Len(versions[b]) \in Nat
    BY DEF PlanInv, PlanTypeOK
  <1>10. \A b \in PlanIds : Current(versions'[b])
    <2>1. Current(long)
      <3> SUFFICES ASSUME NEW w \in 1 .. Len(list)
                   PROVE  Tells(long[w]) /\ (Superseded(long[w]) <=> w < Len(list))
        BY <1>6 DEF Current
      <3>1. CASE w = v
        BY <1>2, <1>4, <1>6, <3>1 DEF Current
      <3>2. CASE w # v
        BY <1>2, <1>6, <3>2 DEF Current
      <3> QED BY <3>1, <3>2
    <2> QED BY <1>8, <2>1 DEF PlanInv
  <1>11. \A b \in PlanIds : Len(versions[b]) <= Len(versions'[b])
    BY <1>2, <1>6, <1>8, <1>9
  <1>12. ASSUME NEW b \in PlanIds, NEW w \in 1 .. Len(versions[b])
         PROVE  \/ versions'[b][w] = versions[b][w]
                \/ /\ rowLock[r] = <<b, w>> /\ Recalls(versions[b][w], versions'[b][w])
                   /\ versions'[b][w].status # "superseded"
    <2>1. CASE b = p /\ w = v
      BY <1>2, <1>3, <1>4, <1>6, <1>8, <2>1 DEF Recalls
    <2>2. CASE ~(b = p /\ w = v)
      BY <1>2, <1>6, <1>8, <2>2
    <2> QED BY <2>1, <2>2
  <1>13. \A b \in PlanIds : versions[b] = <<>> => versions'[b] = <<>>
    <2>1. versions[p] # <<>>
      BY <1>2
    <2> QED BY <1>8, <2>1
  <1>14. PlanEnded(r)
    BY AnswerEnds DEF Plan!Review
  <1> QED BY <1>5, <1>8, <1>10, <1>11, <1>12, <1>13, <1>14 DEF PlanWrite

LEMMA RegenerateWrites ==
    ASSUME PlanInv, NEW r \in Requests, Plan!Regenerate(r)
    PROVE  PlanWrite(r) /\ PlanEnded(r)
  <1>1. reviews[r].pc = "locked" /\ reviews[r].op = "regenerate"
    BY DEF Plan!Regenerate, Plan!At
  <1>2. PICK p \in PlanIds, v \in Nat \ {0}, old \in Plan!Version, list \in Seq(Plan!Version) :
             /\ p = reviews[r].plan /\ v = reviews[r].version /\ old = reviews[r].row
             /\ list = versions[p] /\ v \in 1 .. Len(list) /\ list[v] = old
             /\ rowLock[r] = <<p, v>> /\ Current(list) /\ Tells(old)
    BY <1>1, HeldVersion
  <1>3. Len(list) = v /\ (old.status \in Plan!UNDER_REVIEW => reviews[r].replace)
    BY <1>2 DEF Plan!Regenerate, Plan!Replaceable
  <1>4. PICK next \in Plan!Version :
          /\ next = Plan!Fresh(reviews[r].print) /\ Tells(next) /\ ~Superseded(next)
    <2>1. PICK proposal \in Plan!Proposal : proposal = reviews[r].print
      BY ReviewingType
    <2>2. LET new == Plan!Fresh(proposal)
          IN  new \in Plan!Version /\ Tells(new) /\ ~Superseded(new)
      BY FreshVersion
    <2> QED BY <2>1, <2>2
  <1> DEFINE new == Plan!Moved(old, "superseded", Plan!AnyProposal)
  <1>5. /\ new \in Plan!Version /\ new.proposal = old.proposal
        /\ Tells(new) /\ Superseded(new)
        /\ SubSeq(new.reviews, 1, Len(old.reviews)) = old.reviews
    <2>1. "superseded" \in Plan!PlanStatus /\ "superseded" \notin Plan!EXACT
      BY DEF Plan!PlanStatus, Plan!EXACT
    <2> QED BY <1>2, <2>1, PlanConstants, MovedVersion
  <1> DEFINE mid == [list EXCEPT ![v] = new]
             long == Append(mid, next)
  <1>6. versions' = [versions EXCEPT ![p] = long] /\ models' = models
    BY <1>2, <1>4 DEF Plan!Regenerate, PlanInv, PlanTypeOK
  <1> HIDE DEF new
  <1>7. /\ mid \in Seq(Plan!Version) /\ Len(mid) = v /\ mid[v] = new
        /\ \A w \in 1 .. v : w # v => mid[w] = list[w]
    BY <1>2, <1>3, <1>5
  <1> HIDE DEF mid
  <1>8. /\ long \in Seq(Plan!Version) /\ Len(long) = v + 1 /\ long[v] = new /\ long[v + 1] = next
        /\ \A w \in 1 .. v : w # v => long[w] = list[w]
    BY <1>7
  <1> HIDE DEF long
  <1>9. /\ versions' \in [PlanIds -> Seq(Plan!Version)] /\ versions'[p] = long
        /\ \A b \in PlanIds \ {p} : versions'[b] = versions[b]
    BY <1>6, <1>8 DEF PlanInv, PlanTypeOK
  <1>10. \A b \in PlanIds : Len(versions[b]) \in Nat
    BY DEF PlanInv, PlanTypeOK
  <1>11. \A b \in PlanIds : Current(versions'[b])
    <2>1. Current(long)
      <3> SUFFICES ASSUME NEW w \in 1 .. v + 1
                   PROVE  Tells(long[w]) /\ (Superseded(long[w]) <=> w < v + 1)
        BY <1>8 DEF Current
      <3>1. CASE w = v + 1
        BY <1>4, <1>8, <3>1
      <3>2. CASE w = v
        BY <1>5, <1>8, <3>2
      <3>3. CASE w \in 1 .. v /\ w # v
        <4>1. w < v /\ w < v + 1
          BY <3>3
        <4>2. Tells(list[w]) /\ Superseded(list[w])
          BY <1>2, <1>3, <3>3, <4>1 DEF Current
        <4> QED BY <1>8, <3>3, <4>1, <4>2
      <3> QED BY <3>1, <3>2, <3>3
    <2> QED BY <1>9, <2>1 DEF PlanInv
  <1>12. \A b \in PlanIds : Len(versions[b]) <= Len(versions'[b])
    BY <1>2, <1>3, <1>8, <1>9, <1>10
  <1>13. ASSUME NEW b \in PlanIds, NEW w \in 1 .. Len(versions[b])
         PROVE  \/ versions'[b][w] = versions[b][w]
                \/ /\ rowLock[r] = <<b, w>> /\ Recalls(versions[b][w], versions'[b][w])
                   /\ versions[b][w].status \in Plan!UNDER_REVIEW =>
                        reviews[r].pc = "locked" /\ reviews[r].plan = b /\ reviews[r].replace
    <2>1. CASE b = p /\ w = v
      <3>1. versions[b][w] = old /\ versions'[b][w] = new
        BY <1>2, <1>8, <1>9, <2>1
      <3>2. Recalls(old, new)
        BY <1>5 DEF Recalls
      <3> QED BY <1>1, <1>2, <1>3, <2>1, <3>1, <3>2, Zenon
    <2>2. CASE ~(b = p /\ w = v)
      BY <1>2, <1>3, <1>8, <1>9, <2>2
    <2> QED BY <2>1, <2>2
  <1>14. \A b \in PlanIds : versions[b] = <<>> => versions'[b] = <<>>
    <2>1. versions[p] # <<>>
      BY <1>2
    <2> QED BY <1>9, <2>1
  <1>15. PlanEnded(r)
    BY AnswerEnds DEF Plan!Regenerate
  <1> QED BY <1>6, <1>9, <1>11, <1>12, <1>13, <1>14, <1>15, Zenon DEF PlanWrite

----------------------------------------------------------------------------
(* The induction. *)

PlanWriter(r) == Plan!Store(r) \/ Plan!Regenerate(r) \/ Plan!Review(r)

LEMMA WritersWrite ==
    ASSUME PlanInv, NEW r \in Requests, PlanWriter(r)
    PROVE  PlanWrite(r) /\ PlanEnded(r)
  BY StoreWrites, RegenerateWrites, ReviewWrites DEF PlanWriter

LEMMA OtherPlanSteps ==
    ASSUME NEW r \in Requests, Plan!Ask(r) \/ Plan!Step(r)
    PROVE  PlanWriter(r) \/ versions' = versions
  BY DEF PlanWriter, Plan!Step, Plan!Ask, Plan!Asked, Plan!Recall, Plan!Gather, Plan!Goto,
         Plan!NothingToPlan, Plan!Plan, Plan!Denied, Plan!Admit, Plan!Writable, Plan!Unwritable,
         Plan!Select, Plan!LockVersion, Plan!RegenerateSame, Plan!RegenerateRefused, Plan!Judge,
         Plan!JudgeRefused, Plan!Refuse, Plan!tables

LEMMA PlanStepKeeps ==
    ASSUME PlanInv, NEW r \in Requests, Plan!Step(r)
    PROVE  PlanInv'
  <1>1. CASE PlanWriter(r)
    BY <1>1, WritersWrite, PlanWriteKeeps
  <1>2. CASE \/ Plan!NothingToPlan(r) \/ Plan!Denied(r) \/ Plan!Unwritable(r) \/ Plan!RegenerateSame(r)
             \/ Plan!RegenerateRefused(r) \/ Plan!JudgeRefused(r)
    <2>1. Plan!Refuse(r)
      BY <1>2 DEF Plan!NothingToPlan, Plan!Denied, Plan!Unwritable, Plan!RegenerateSame,
                  Plan!RegenerateRefused, Plan!JudgeRefused, Plan!Refuse
    <2> QED BY <2>1, PlanRefuseKeeps
  <1>3. CASE Plan!Gather(r) \/ Plan!Admit(r) \/ Plan!Writable(r)
    <2>1. /\ \E stage \in {"gathered", "admitted", "writable"} : reviews' = [reviews EXCEPT ![r].pc = stage]
          /\ models' = models /\ versions' = versions /\ rowLock' = rowLock
      BY <1>3 DEF Plan!Gather, Plan!Admit, Plan!Writable, Plan!Goto, Plan!tables
    <2> QED BY <2>1, GotoKeeps
  <1> QED BY <1>1, <1>2, <1>3, RecallKeeps, ComputeKeeps, SelectKeeps, LockVersionKeeps, JudgeKeeps
          DEF Plan!Step, PlanWriter

LEMMA PlanInvNext == PlanInv /\ [Next]_vars => PlanInv'
  <1> SUFFICES ASSUME PlanInv, [Next]_vars PROVE PlanInv'
    OBVIOUS
  <1>1. CASE UNCHANGED planVars
    BY <1>1 DEF planVars, PlanInv, PlanTypeOK, Names, HoldsVersion, MadeApart, Making, LocksApart
  <1>2. CASE Plan!Work
    BY <1>2, AskPlanKeeps, PlanStepKeeps, DeployKeeps DEF Plan!Work
  <1>3. UNCHANGED planVars \/ Plan!Work
    BY DEF Next, vars
  <1> QED BY <1>1, <1>2, <1>3

LEMMA PlanInvInit == Init => PlanInv
  <1> SUFFICES ASSUME Init PROVE PlanInv
    OBVIOUS
  <1>1. Plan!Init
    BY DEF Init
  <1> DEFINE first == Plan!First(TRUE)
             open == Plan!First(FALSE)
             submitted == Plan!Submitted
             replaced == Plan!Moved(open, "superseded", Plan!AnyProposal)
  <1>2. /\ first \in Plan!Version /\ Tells(first) /\ ~Superseded(first)
        /\ open \in Plan!Version /\ Tells(open) /\ ~Superseded(open)
    <2>1. ASSUME NEW informed \in BOOLEAN
          PROVE  /\ Plan!First(informed) \in Plan!Version /\ Tells(Plan!First(informed))
                 /\ ~Superseded(Plan!First(informed))
      <3>1. [wish |-> [Plan!AnyWish EXCEPT !.informed = informed], models |-> 1] \in Plan!Proposal
        <4>1. [Plan!AnyWish EXCEPT !.informed = informed] \in Plan!Wish
          BY PlanConstants DEF Plan!AnyWish, Plan!Wish
        <4> QED BY <4>1, PlanConstants DEF Plan!Proposal
      <3>2. PICK proposal \in Plan!Proposal :
              proposal = [wish |-> [Plan!AnyWish EXCEPT !.informed = informed], models |-> 1]
        BY <3>1
      <3>3. Plan!First(informed) = Plan!Fresh(proposal)
        BY <3>2 DEF Plan!First
      <3>4. LET new == Plan!Fresh(proposal)
            IN  new \in Plan!Version /\ Tells(new) /\ ~Superseded(new)
        BY FreshVersion
      <3> QED BY <3>3, <3>4
    <2> QED BY <2>1
  <1>3. /\ "superseded" \in Plan!PlanStatus /\ "superseded" \notin Plan!EXACT
        /\ "ready_for_review" \in Plan!PlanStatus /\ "ready_for_review" \notin Plan!EXACT
    BY DEF Plan!PlanStatus, Plan!EXACT
  <1> HIDE DEF first, open
  <1>4. /\ submitted \in Plan!Version /\ Tells(submitted) /\ ~Superseded(submitted)
    <2>1. submitted = Plan!Moved(first, "ready_for_review", Plan!AnyProposal)
      BY DEF Plan!Submitted, first
    <2> QED BY <1>2, <1>3, <2>1, PlanConstants, MovedVersion
  <1>5. /\ replaced \in Plan!Version /\ Tells(replaced) /\ Superseded(replaced)
    BY <1>2, <1>3, PlanConstants, MovedVersion
  <1>6. versions \in [PlanIds -> {<<>>, <<first>>, <<open>>, <<submitted>>, <<replaced, submitted>>}]
    BY <1>1 DEF Plan!Init, Plan!Starts, first, open
  <1> HIDE DEF submitted, replaced
  <1>7. ASSUME NEW one \in Plan!Version, Tells(one), ~Superseded(one)
        PROVE  <<one>> \in Seq(Plan!Version) /\ Current(<<one>>)
    <2>1. <<one>> \in Seq(Plan!Version) /\ Len(<<one>>) = 1 /\ <<one>>[1] = one
      OBVIOUS
    <2>2. \A v \in 1 .. Len(<<one>>) : v = 1
      BY <2>1
    <2> QED BY <1>7, <2>1, <2>2 DEF Current
  <1>8. <<>> \in Seq(Plan!Version) /\ Current(<<>>)
    <2>1. <<>> \in Seq(Plan!Version) /\ 1 .. Len(<<>>) = {}
      OBVIOUS
    <2> QED BY <2>1, Zenon DEF Current
  <1>9. <<replaced, submitted>> \in Seq(Plan!Version) /\ Current(<<replaced, submitted>>)
    <2> DEFINE list == <<replaced, submitted>>
    <2>1. /\ list \in Seq(Plan!Version) /\ Len(list) = 2 /\ list[1] = replaced /\ list[2] = submitted
          /\ \A v \in 1 .. Len(list) : v = 1 \/ v = 2
      BY <1>4, <1>5
    <2> HIDE DEF list
    <2> QED BY <1>4, <1>5, <2>1 DEF Current
  <1>10. \A p \in PlanIds : versions[p] \in Seq(Plan!Version) /\ Current(versions[p])
    <2> SUFFICES ASSUME NEW p \in PlanIds
                 PROVE  versions[p] \in Seq(Plan!Version) /\ Current(versions[p])
      OBVIOUS
    <2>1. versions[p] \in {<<>>, <<first>>, <<open>>, <<submitted>>, <<replaced, submitted>>}
      BY <1>6
    <2> QED BY <1>2, <1>4, <1>7, <1>8, <1>9, <2>1, Zenon
  <1>11. versions \in [PlanIds -> Seq(Plan!Version)]
    BY <1>6, <1>10
  <1>12. /\ rowLock = [r \in Requests |-> Plan!NoRow] /\ models \in 1 .. MaxModels
         /\ reviews = [r \in Requests |-> Plan!NoRequest]
    BY <1>1, PlanConstants DEF Plan!Init
  <1>13. PlanTypeOK
    BY <1>11, <1>12, NoReviewType DEF PlanTypeOK
  <1>14. /\ \A r \in Requests : Names(r) /\ HoldsVersion(r)
         /\ MadeApart /\ LocksApart
    <2>1. \A r \in Requests : /\ reviews[r].op = "none" /\ reviews[r].pc = "idle"
                              /\ rowLock[r] = Plan!NoRow
      BY <1>12, NoReviewType
    <2> QED BY <2>1 DEF Names, HoldsVersion, MadeApart, Making, LocksApart, RowOps, Plan!ReviewOps
  <1> QED BY <1>10, <1>13, <1>14 DEF PlanInv

LEMMA PlanInvariance == Spec => []PlanInv
  BY PlanInvInit, PlanInvNext, PTL DEF Spec

(* A plan has one version that is not superseded by a later one, its last, *)
(* and the reviews of a version tell its status: whichever regenerations   *)
(* and verdicts of MigrationPlanService overlap.                           *)
THEOREM PlansSoundHolds == Spec => []PlansSound
  <1>1. PlanInv => PlansSound
    <2> SUFFICES ASSUME PlanInv PROVE PlansSound
      OBVIOUS
    <2>1. Plan!OneCurrentVersion
      BY Zenon DEF PlanInv, Current, Superseded, Plan!OneCurrentVersion
    <2>2. Plan!ReviewsTellStatus
      BY Zenon DEF PlanInv, Current, Tells, After, Plan!ReviewsTellStatus
    <2> QED BY <2>1, <2>2 DEF PlansSound
  <1> QED BY <1>1, PlanInvariance, PTL

(* What a step leaves of the versions there are. *)
LEMMA VersionsKept ==
    ASSUME PlanInv, [Next]_vars
    PROVE  \A p \in PlanIds : \A v \in 1 .. Len(versions[p]) :
             /\ v <= Len(versions'[p])
             /\ \/ versions'[p][v] = versions[p][v]
                \/ \E r \in Requests :
                     /\ Recalls(versions[p][v], versions'[p][v])
                     /\ reviews'[r].pc = "done"
                     /\ versions[p][v].status \in Plan!UNDER_REVIEW /\ versions'[p][v].status = "superseded" =>
                          reviews[r].pc = "locked" /\ reviews[r].plan = p /\ reviews[r].replace
  <1>1. CASE versions' = versions
    <2>1. \A p \in PlanIds : Len(versions[p]) \in Nat
      BY DEF PlanInv, PlanTypeOK
    <2> QED BY <1>1, <2>1
  <1>2. ASSUME NEW r \in Requests, PlanWriter(r)
        PROVE  \A p \in PlanIds : \A v \in 1 .. Len(versions[p]) :
             /\ v <= Len(versions'[p])
             /\ \/ versions'[p][v] = versions[p][v]
                \/ /\ Recalls(versions[p][v], versions'[p][v])
                   /\ reviews'[r].pc = "done"
                   /\ versions[p][v].status \in Plan!UNDER_REVIEW /\ versions'[p][v].status = "superseded" =>
                        reviews[r].pc = "locked" /\ reviews[r].plan = p /\ reviews[r].replace
    <2>1. PlanWrite(r) /\ reviews'[r].pc = "done"
      BY <1>2, WritersWrite DEF PlanEnded
    <2>2. \A p \in PlanIds : /\ Len(versions[p]) \in Nat /\ Len(versions'[p]) \in Nat
                             /\ Len(versions[p]) <= Len(versions'[p])
      BY <2>1 DEF PlanInv, PlanTypeOK, PlanWrite
    <2>3. \A p \in PlanIds : \A v \in 1 .. Len(versions[p]) : v <= Len(versions'[p])
      BY <2>2
    <2> QED BY <2>1, <2>3, Zenon DEF PlanWrite
  <1>3. \/ versions' = versions
        \/ \E r \in Requests : PlanWriter(r)
    <2>1. CASE Plan!Work
      BY <2>1, OtherPlanSteps DEF Plan!Work, Plan!Deploy
    <2>2. UNCHANGED planVars \/ Plan!Work
      BY DEF Next, vars
    <2>3. UNCHANGED planVars => versions' = versions
      BY DEF planVars
    <2> QED BY <2>1, <2>2, <2>3, Zenon
  <1>4. CASE \E r \in Requests : PlanWriter(r)
    <2>1. PICK r \in Requests : PlanWriter(r)
      BY <1>4
    <2> TAKE p \in PlanIds
    <2> TAKE v \in 1 .. Len(versions[p])
    <2>2. /\ v <= Len(versions'[p])
          /\ \/ versions'[p][v] = versions[p][v]
             \/ /\ Recalls(versions[p][v], versions'[p][v])
                /\ reviews'[r].pc = "done"
                /\ versions[p][v].status \in Plan!UNDER_REVIEW /\ versions'[p][v].status = "superseded" =>
                     reviews[r].pc = "locked" /\ reviews[r].plan = p /\ reviews[r].replace
      BY <2>1, <1>2
    <2> QED BY <2>2, Zenon
  <1> QED BY <1>1, <1>3, <1>4

LEMMA SubSeqSelf ==
    ASSUME NEW S, NEW s \in Seq(S)
    PROVE  SubSeq(s, 1, Len(s)) = s
  OBVIOUS

(* A stored version keeps its content and its recorded reviews, and one    *)
(* that is under review is replaced only by a regeneration that asked for  *)
(* that (update_review and regenerate, on the locked version row).         *)
THEOREM PlansKeptHolds == Spec => PlansKept
  <1>1. PlanInv /\ [Next]_vars =>
          [\A p \in PlanIds : \A v \in 1 .. Len(versions[p]) :
             /\ v <= Len(versions'[p])
             /\ versions'[p][v].proposal = versions[p][v].proposal
             /\ SubSeq(versions'[p][v].reviews, 1, Len(versions[p][v].reviews))
                  = versions[p][v].reviews]_Plan!vars
    <2> SUFFICES ASSUME PlanInv, [Next]_vars, NEW p \in PlanIds, NEW v \in 1 .. Len(versions[p])
                 PROVE  v <= Len(versions'[p]) /\ Recalls(versions[p][v], versions'[p][v])
      BY DEF Recalls
    <2>1. versions[p][v] \in Plan!Version
      BY DEF PlanInv, PlanTypeOK
    <2>2. versions[p][v].reviews \in Seq(Plan!Event)
      BY <2>1 DEF Plan!Version
    <2>3. Recalls(versions[p][v], versions[p][v])
      BY <2>2, SubSeqSelf DEF Recalls
    <2> QED BY <2>3, VersionsKept
  <1>2. PlanInv /\ [Next]_vars =>
          [\A p \in PlanIds : \A v \in 1 .. Len(versions[p]) :
             versions[p][v].status \in Plan!UNDER_REVIEW /\ versions'[p][v].status = "superseded" =>
                \E r \in Requests : reviews[r].pc = "locked" /\ reviews'[r].pc = "done"
                                    /\ reviews[r].plan = p /\ reviews[r].replace]_Plan!vars
    <2> SUFFICES ASSUME PlanInv, [Next]_vars, NEW p \in PlanIds, NEW v \in 1 .. Len(versions[p]),
                        versions[p][v].status \in Plan!UNDER_REVIEW, versions'[p][v].status = "superseded"
                 PROVE  \E r \in Requests : reviews[r].pc = "locked" /\ reviews'[r].pc = "done"
                                            /\ reviews[r].plan = p /\ reviews[r].replace
      OBVIOUS
    <2>1. versions'[p][v] # versions[p][v]
      BY DEF Plan!UNDER_REVIEW
    <2> QED BY <2>1, VersionsKept, Zenon
  <1> QED BY <1>1, <1>2, PlanInvariance, PTL
          DEF PlansKept, Plan!ReviewsKept, Plan!NeverReplacedSilently, Spec

----------------------------------------------------------------------------
(* Decisions and analyses: the inductive invariants. *)

RowsOK == HeadTypeOK /\ subject \in {"decisions", "plans", "analyses"}

DecisionTypeOK ==
    /\ decision \in [DecisionIds -> Dec!Record]
    /\ verdicts \in [Requests -> Dec!Request]

(* RecordsLegal, of one record for one decision. *)
Legal(i, d) ==
    /\ d.status \in {"accepted", "superseded"} <=> d.chosen # NoOption
    /\ d.chosen \notin Unacceptable
    /\ (d.status = "superseded") = (d.successor # NoDecision)
    /\ d.status = "superseded" =>
         d.successor # i /\ decision[d.successor].status # "proposed"
    /\ d.revision # 0 => /\ d.status \in {"accepted", "superseded"}
                         /\ d.revision \in Baseline + 1 .. head.current

Drafting(r) == verdicts[r].op = "draft" /\ verdicts[r].pc \in {"asked", "admitted"}
DraftsApart ==
    /\ \A r \in Requests : Drafting(r) => verdicts[r].id \in DecisionIds /\ ~Dec!Exists(verdicts[r].id)
    /\ \A r, q \in Requests : r # q /\ Drafting(r) /\ Drafting(q) => verdicts[r].id # verdicts[q].id

(* What a request asks for. *)
Asks(r) ==
    /\ verdicts[r].op \in Dec!Verdicts => verdicts[r].id \in DecisionIds
    /\ verdicts[r].op = "accept" => verdicts[r].option \in Options
    /\ verdicts[r].op = "supersede" => verdicts[r].other \in DecisionIds

(* What a verdict read may be stale, but it is a record of its decision,   *)
(* and what it decided is legal whatever was decided meanwhile.            *)
OfItsDecision(r, d) ==
    /\ d.number = decision[verdicts[r].id].number /\ d.number # 0
    /\ Legal(verdicts[r].id, d)
Judged(r) ==
    /\ verdicts[r].pc \in {"read", "checked"} =>
         verdicts[r].op \in Dec!Verdicts /\ OfItsDecision(r, verdicts[r].seen)
    /\ verdicts[r].pc = "checked" =>
         \E d \in Dec!Record : d = Dec!Decided(r) /\ OfItsDecision(r, d) /\ d.status # "proposed"

DecInv ==
    /\ DecisionTypeOK
    /\ Dec!NumbersGapless
    /\ \A i \in DecisionIds : Legal(i, decision[i])
    /\ \A i \in DecisionIds : ~Dec!Exists(i) => decision[i].status = "proposed"
    /\ DraftsApart
    /\ \A r \in Requests : Asks(r) /\ Judged(r)

(* The analyses. *)

AnalysisTypeOK ==
    /\ stored \in [Ana!Ids -> Ana!Row]
    /\ now \in 0 .. MaxTime
    /\ analyzing \in [Requests -> Ana!Request]
    /\ reader \in Ana!Reader

(* What a row rests on is stored, and stays. *)
Rests(row) ==
    \A e \in row.rests :
        /\ stored[e].status = "result" /\ stored[e].at <= row.at
        /\ row.kind = "cost" => stored[e].revision = row.revision

Analyzing(r) == analyzing[r].pc \in {"asked", "read", "calculated", "admitted"}
AnalysesApart ==
    /\ \A r \in Requests : Analyzing(r) => analyzing[r].id \in Ana!Ids /\ ~Ana!Exists(analyzing[r].id)
    /\ \A r, q \in Requests : r # q /\ Analyzing(r) /\ Analyzing(q) => analyzing[r].id # analyzing[q].id

Grounded(r) ==
    /\ Rests(analyzing[r].row) /\ analyzing[r].row.at <= now
    /\ analyzing[r].row.kind = "validation" => analyzing[r].row.rests = {}
    /\ analyzing[r].cites # Ana!None => Ana!Exists(analyzing[r].cites)

(* The store transaction holds the project, which is active while it does. *)
HoldsActive ==
    /\ subject # "analyses" => \A r \in Requests : analyzing[r].pc = "idle"
    /\ \A r \in Requests : analyzing[r].pc = "admitted" => projectLock[r] = "share" /\ Ana!Modifiable

(* The reader has seen a descending sequence of stored analyses; its       *)
(* cursor is the last of them, and what it owes it has seen or will find.  *)
SeenIds == {reader.seen[k] : k \in 1 .. Len(reader.seen)}
Descending(list) == \A a, b \in 1 .. Len(list) : a < b => Ana!Before(list[b], list[a])
ReaderSound ==
    /\ reader.pc = "idle" => reader.seen = <<>> /\ reader.after = <<>>
    /\ \A i \in SeenIds \cup reader.due : Ana!Exists(i)
    /\ Descending(reader.seen)
    /\ reader.pc = "reading" =>
         /\ reader.seen = <<>> <=> reader.after = <<>>
         /\ reader.seen # <<>> =>
              LET last == reader.seen[Len(reader.seen)] IN reader.after = <<stored[last].at, last>>
         /\ \A i \in reader.due : i \in SeenIds \/ reader.after = <<>> \/ Ana!Older(i, reader.after)
    /\ reader.pc = "done" => reader.due \subseteq SeenIds

AnaInv ==
    /\ AnalysisTypeOK
    /\ \A i \in Ana!Ids : Ana!Exists(i) => Rests(stored[i])
    /\ \A i \in Ana!Ids : stored[i].at <= now
    /\ AnalysesApart /\ HoldsActive
    /\ \A r \in Requests : Grounded(r)
    /\ ReaderSound

----------------------------------------------------------------------------
(* The project and architecture rows. *)

(* A request of a service changes its own lock, nothing else of the rows. *)
Locks(r) ==
    /\ UNCHANGED <<project, head, headLock>>
    /\ \/ projectLock' = projectLock
       \/ \E mode \in LockModes : projectLock' = [projectLock EXCEPT ![r] = mode]

LEMMA DecisionsLock ==
    ASSUME NEW r \in Requests, Dec!Ask(r) \/ Dec!Step(r)
    PROVE  Locks(r)
  <1>1. CASE Dec!Ask(r)
    <2>1. \E request : Dec!Asked(r, request)
      BY <1>1, Zenon DEF Dec!Ask
    <2> QED BY <2>1 DEF Dec!Asked, Dec!headVars, Locks
  <1>2. CASE Dec!Admit(r)
    BY <1>2 DEF Dec!Admit, Dec!Lock, Dec!LockMode, Locks, LockModes
  <1>3. CASE Dec!Check(r) \/ Dec!Read(r)
    BY <1>3 DEF Dec!Check, Dec!Read, Dec!headVars, Locks
  <1>4. CASE Dec!Refuse(r) \/ Dec!Draft(r) \/ Dec!Decide(r)
    <2>1. \E answer : Dec!Answer(r, answer)
      BY <1>4 DEF Dec!Refuse, Dec!Draft, Dec!Decide
    <2> QED BY <2>1 DEF Dec!Answer, Dec!Unlock, Locks, LockModes
  <1> QED BY <1>1, <1>2, <1>3, <1>4
          DEF Dec!Step, Dec!Denied, Dec!DraftRefused, Dec!Unwritable, Dec!CheckRefused

LEMMA PlansLock ==
    ASSUME NEW r \in Requests, Plan!Ask(r) \/ Plan!Step(r)
    PROVE  Locks(r)
  <1>1. CASE Plan!Ask(r)
    BY <1>1 DEF Plan!Ask, Plan!Asked, Plan!headVars, Locks
  <1>2. CASE Plan!Admit(r)
    BY <1>2 DEF Plan!Admit, Plan!Lock, Locks, LockModes
  <1>3. CASE \/ Plan!Recall(r) \/ Plan!Gather(r) \/ Plan!Plan(r) \/ Plan!Writable(r)
             \/ Plan!Select(r) \/ Plan!LockVersion(r) \/ Plan!Judge(r)
    BY <1>3 DEF Plan!Recall, Plan!Gather, Plan!Plan, Plan!Writable, Plan!Select, Plan!LockVersion,
                Plan!Judge, Plan!Goto, Plan!headVars, Locks
  <1>4. CASE Plan!Answer(r)
    BY <1>4 DEF Plan!Answer, Plan!Unlock, Locks, LockModes
  <1> QED BY <1>1, <1>2, <1>3, <1>4
          DEF Plan!Step, Plan!Refuse, Plan!NothingToPlan, Plan!Denied, Plan!Unwritable, Plan!Store,
              Plan!Regenerate, Plan!RegenerateSame, Plan!RegenerateRefused, Plan!JudgeRefused, Plan!Review

(* What a request for an analysis may do, whatever is analyzed. *)
AnalysisStep(r) ==
    \/ \E kind \in Ana!Kinds, citable \in {{Ana!None}, Ana!Ids \cup {Ana!None}} :
         Ana!Submitted(r, kind, citable)
    \/ Ana!Refuse(r)
    \/ analyzing[r].row.kind # "validation" /\ Ana!Read(r, TRUE, {})
    \/ analyzing[r].row.kind = "cost" /\ Ana!Read(r, Ana!BasisFits(r), {analyzing[r].cites} \ {Ana!None})
    \/ analyzing[r].row.kind = "evolution" /\ Ana!Read(r, TRUE, Ana!Evidence(analyzing[r].cites))
    \/ Ana!Calculate(r)
    \/ \E stage \in {"asked", "calculated"} : Ana!Admit(r, stage)
    \/ Ana!Store(r)
    \/ analyzing[r].row.kind = "validation" /\ Ana!Validated(r)

LEMMA AnalysisSteps ==
    ASSUME NEW r \in Requests, Ana!Ask(r) \/ Ana!Step(r)
    PROVE  AnalysisStep(r)
  <1>1. CASE Ana!Ask(r)
    <2>1. \E kind \in Ana!Kinds, citable \in {{Ana!None}, Ana!Ids \cup {Ana!None}} :
            Ana!Submitted(r, kind, citable)
      BY <1>1 DEF Ana!Ask, Ana!run_capacity_analysis, Ana!run_cost_analysis, Ana!run_reliability_analysis,
              Ana!run_security_analysis, Ana!run_observability_analysis, Ana!run_simulation,
              Ana!run_evolution_analysis, Ana!run_validation, Ana!Kinds, Ana!Phased
    <2> QED BY <2>1 DEF AnalysisStep
  <1>2. ASSUME NEW kind \in Ana!Phased, NEW cited, NEW rests, Ana!InPhases(r, kind, cited, rests)
        PROVE  AnalysisStep(r) \/ (Ana!Read(r, cited, rests) /\ analyzing[r].row.kind = kind)
    BY <1>2 DEF Ana!InPhases, Ana!Denied, Ana!ReadRefused, Ana!EngineRefuses, Ana!StoreRefused, AnalysisStep
  <1>3. CASE Ana!AnalyzeCost(r)
    BY <1>2, <1>3 DEF Ana!AnalyzeCost, AnalysisStep, Ana!Phased
  <1>4. CASE Ana!AnalyzeEvolution(r)
    <2>1. AnalysisStep(r) \/ /\ Ana!Read(r, analyzing[r].cites # Ana!None => stored[analyzing[r].cites].kind \in Ana!CITABLE,
                                      Ana!Evidence(analyzing[r].cites))
                             /\ analyzing[r].row.kind = "evolution"
      BY <1>2, <1>4 DEF Ana!AnalyzeEvolution, Ana!Phased
    <2> QED BY <2>1 DEF AnalysisStep, Ana!Read
  <1>5. CASE Ana!Validate(r)
    BY <1>5 DEF Ana!Validate, Ana!Denied, AnalysisStep
  <1>6. CASE \/ Ana!AnalyzeCapacity(r) \/ Ana!AnalyzeReliability(r) \/ Ana!AnalyzeSecurity(r)
             \/ Ana!AnalyzeObservability(r) \/ Ana!Simulate(r)
    <2>1. \E kind \in Ana!Phased : AnalysisStep(r) \/ (Ana!Read(r, TRUE, {}) /\ analyzing[r].row.kind = kind)
      BY <1>2, <1>6 DEF Ana!AnalyzeCapacity, Ana!AnalyzeReliability, Ana!AnalyzeSecurity,
              Ana!AnalyzeObservability, Ana!Simulate, Ana!Phased
    <2> QED BY <2>1 DEF AnalysisStep, Ana!Phased
  <1> QED BY <1>1, <1>3, <1>4, <1>5, <1>6 DEF Ana!Step

LEMMA AnalysesLock ==
    ASSUME NEW r \in Requests, AnalysisStep(r)
    PROVE  Locks(r)
  <1>1. CASE Ana!Answer(r)
    BY <1>1 DEF Ana!Answer, Ana!Unlock, Locks, LockModes
  <1>2. CASE UNCHANGED projectLock /\ \E request : Ana!Moved(r, request)
    BY <1>2 DEF Ana!Moved, Locks
  <1>3. ASSUME NEW stage, Ana!Admit(r, stage) PROVE Locks(r)
    BY <1>3 DEF Ana!Admit, Ana!Moved, Ana!Lock, Locks, LockModes
  <1> QED BY <1>1, <1>2, <1>3 DEF AnalysisStep, Ana!Submitted, Ana!Refuse, Ana!Read, Ana!Calculate,
          Ana!Store, Ana!Validated

LEMMA HeadStepKeeps ==
    ASSUME HeadTypeOK, HeadStep
    PROVE  /\ HeadTypeOK' /\ head'.current >= head.current /\ projectLock' = projectLock
           /\ project' # project => \A q \in Requests : projectLock[q] = "none"
  <1>1. CASE Revised
    <2>1. head' = [status |-> head.status, current |-> head.current + 1]
      BY <1>1 DEF Revised, HeadTypeOK
    <2>2. head.current \in 1 .. MaxRevision /\ head.current < MaxRevision /\ MaxRevision \in Nat
      BY <1>1, HeadAssumption DEF Revised, HeadTypeOK
    <2> QED BY <1>1, <2>1, <2>2 DEF Revised, HeadTypeOK, ProjectTypeOK
  <1>2. CASE HeadMoved
    <2>1. \E to \in {"active", "archived", "deleted"} : head' = [status |-> to, current |-> head.current]
      BY <1>2 DEF HeadMoved, HeadTypeOK
    <2>2. head.current \in 1 .. MaxRevision /\ MaxRevision \in Nat
      BY HeadAssumption DEF HeadTypeOK
    <2> QED BY <1>2, <2>1, <2>2 DEF HeadMoved, HeadTypeOK, ProjectTypeOK
  <1>3. CASE ProjectMoved
    <2>1. project' \in ProjectStatus
      BY <1>3 DEF ProjectMoved, StepTarget, ProjectStatus
    <2>2. head.current \in 1 .. MaxRevision /\ MaxRevision \in Nat
      BY HeadAssumption DEF HeadTypeOK
    <2> QED BY <1>3, <2>1, <2>2 DEF ProjectMoved, HeadTypeOK, ProjectTypeOK
  <1> QED BY <1>1, <1>2, <1>3 DEF HeadStep

LEMMA LocksKeeps ==
    ASSUME HeadTypeOK, NEW r \in Requests, Locks(r)
    PROVE  HeadTypeOK' /\ head' = head
  BY DEF Locks, HeadTypeOK, ProjectTypeOK

(* Who may have made a step: nobody, the clock, the reader or a deployment *)
(* change no row, a request only its lock, and the others only the rows.   *)
LEMMA NextCases ==
    ASSUME [Next]_vars
    PROVE  /\ UNCHANGED subject
           /\ \/ UNCHANGED headVars
              \/ HeadStep
              \/ \E r \in Requests : Locks(r)
  <1>1. CASE Dec!Work /\ UNCHANGED subject
    BY <1>1, DecisionsLock DEF Dec!Work
  <1>2. CASE Plan!Work /\ UNCHANGED subject
    <2>1. CASE Plan!Deploy
      BY <1>2, <2>1 DEF Plan!Deploy, Plan!headVars, headVars
    <2> QED BY <1>2, <2>1, PlansLock DEF Plan!Work
  <1>3. CASE Ana!Work /\ UNCHANGED subject
    <2>1. CASE Ana!StartReading \/ Ana!ReadPage \/ Ana!Tick
      <3>1. Ana!headVars' = Ana!headVars
        BY <2>1 DEF Ana!StartReading, Ana!ReadPage, Ana!Tick, Ana!Reading
      <3> QED BY <1>3, <3>1 DEF Ana!headVars, headVars
    <2> QED BY <1>3, <2>1, AnalysisSteps, AnalysesLock DEF Ana!Work
  <1>4. CASE HeadStep /\ UNCHANGED subject
    BY <1>4
  <1>5. CASE UNCHANGED vars
    BY <1>5 DEF vars
  <1> QED BY <1>1, <1>2, <1>3, <1>4, <1>5 DEF Next

LEMMA RowsKept ==
    ASSUME RowsOK, [Next]_vars
    PROVE  RowsOK' /\ head'.current >= head.current
  <1>1. head.current \in Nat
    BY DEF RowsOK, HeadTypeOK
  <1>2. CASE UNCHANGED headVars
    BY <1>1, <1>2, NextCases DEF headVars, RowsOK, HeadTypeOK, ProjectTypeOK
  <1>3. CASE HeadStep
    BY <1>3, NextCases, HeadStepKeeps DEF RowsOK
  <1>4. CASE \E r \in Requests : Locks(r)
    BY <1>1, <1>4, NextCases, LocksKeeps DEF RowsOK
  <1> QED BY <1>2, <1>3, <1>4, NextCases

LEMMA RowsInit == Init => RowsOK
  <1>1. Dec!HeadInit => HeadTypeOK
    BY HeadAssumption DEF Dec!HeadInit, Dec!ProjectInit, HeadTypeOK, ProjectTypeOK, ProjectStatus, LockModes
  <1> QED BY <1>1 DEF Init, Dec!Init, RowsOK

LEMMA RowsInvariance == Spec => []RowsOK
  <1>1. RowsOK /\ [Next]_vars => RowsOK'
    BY RowsKept
  <1> QED BY <1>1, RowsInit, PTL DEF Spec

----------------------------------------------------------------------------
(* Decisions: what stays while others decide. *)

(* A number is never reassigned and a decided decision never reopened. *)
Grows ==
    /\ head'.current >= head.current
    /\ \A i \in DecisionIds :
         /\ decision'[i].number = decision[i].number \/ decision[i].number = 0
         /\ decision[i].status # "proposed" => decision'[i].status # "proposed"

(* The cardinality the components take from FiniteSets. *)
LEMMA SameCardinality ==
    ASSUME NEW S
    PROVE  /\ Dec!IsFiniteSet(S) <=> IsFiniteSet(S)
           /\ Dec!Cardinality(S) = Cardinality(S)
           /\ Ana!Cardinality(S) = Cardinality(S)
  BY Zenon DEF Dec!IsFiniteSet, IsFiniteSet, Dec!Cardinality, Ana!Cardinality, Cardinality

LEMMA DecConstants ==
    /\ Baseline \in Nat \ {0} /\ NoOption \notin Options /\ NoDecision \notin DecisionIds
    /\ Unacceptable \subseteq Options /\ Drafted \subseteq DecisionIds /\ IsFiniteSet(DecisionIds)
    /\ MaxRevision \in Nat \ {0}
  <1>1. Dec!DecisionsConstants /\ MaxRevision \in Nat \ {0}
    BY HeadAssumption, DocumentsAssumption
  <1>2. Baseline \in 1 .. MaxRevision
    BY <1>1 DEF Dec!DecisionsConstants
  <1>3. Baseline \in Nat \ {0}
    BY <1>1, <1>2
  <1> QED BY <1>1, <1>3, SameCardinality DEF Dec!DecisionsConstants

LEMMA NoRecordType == Dec!NoRecord \in Dec!Record /\ Dec!NoRequest \in Dec!Request
  <1>1. Dec!NoRecord \in Dec!Record
    BY DecConstants DEF Dec!NoRecord, Dec!Record, Dec!Status
  <1>2. ASSUME NEW d \in Dec!Record, d = Dec!NoRecord PROVE Dec!NoRequest \in Dec!Request
    BY <1>2, DecConstants DEF Dec!NoRequest, Dec!Request, Dec!Verdicts
  <1> QED BY <1>1, <1>2

LEMMA DecidedType ==
    ASSUME DecisionTypeOK, NEW r \in Requests, verdicts[r].op \in Dec!Verdicts
    PROVE  /\ Dec!Decided(r) \in Dec!Record
           /\ Dec!Decided(r).number = verdicts[r].seen.number
  <1> DEFINE a == verdicts[r]
  <1>1. /\ a \in Dec!Request /\ a.seen \in Dec!Record /\ a.option \in Options \cup {NoOption}
        /\ a.other \in DecisionIds \cup {NoDecision} /\ a.number \in 0 .. MaxRevision
    BY DEF DecisionTypeOK, Dec!Request
  <1>2. /\ Dec!Accepted(a.seen, a.option) \in Dec!Record
        /\ Dec!Accepted(a.seen, a.option).number = a.seen.number
    BY <1>1 DEF Dec!Accepted, Dec!Record, Dec!Status
  <1>3. Dec!Rejected(a.seen) \in Dec!Record /\ Dec!Rejected(a.seen).number = a.seen.number
    BY <1>1 DEF Dec!Rejected, Dec!Record, Dec!Status
  <1>4. /\ Dec!Superseded(a.seen, a.other) \in Dec!Record
        /\ Dec!Superseded(a.seen, a.other).number = a.seen.number
    BY <1>1 DEF Dec!Superseded, Dec!Record, Dec!Status
  <1>5. /\ Dec!Linked(a.seen, a.number) \in Dec!Record
        /\ Dec!Linked(a.seen, a.number).number = a.seen.number
    BY <1>1 DEF Dec!Linked, Dec!Record
  <1> QED BY <1>2, <1>3, <1>4, <1>5 DEF Dec!Decided, Dec!Verdicts

LEMMA LegalStays ==
    ASSUME RowsOK, RowsOK', Grows, NEW i \in DecisionIds, NEW d \in Dec!Record, Legal(i, d)
    PROVE  Legal(i, d)'
  <1>1. /\ d.successor \in DecisionIds \cup {NoDecision} /\ d.revision \in 0 .. MaxRevision
    BY DEF Dec!Record
  <1>2. d.status = "superseded" => decision'[d.successor].status # "proposed"
    BY <1>1 DEF Legal, Grows
  <1>3. d.revision # 0 => d.revision \in Baseline + 1 .. head'.current
    <2>1. /\ head.current \in Nat /\ head'.current \in Nat /\ head'.current >= head.current
          /\ Baseline \in Nat
      BY DecConstants DEF RowsOK, HeadTypeOK, Grows
    <2> QED BY <1>1, <2>1, DecConstants DEF Legal
  <1> QED BY <1>2, <1>3, Zenon DEF Legal

LEMMA RequestStays ==
    ASSUME RowsOK, RowsOK', DecInv, Grows, NEW q \in Requests, verdicts'[q] = verdicts[q]
    PROVE  Asks(q)' /\ Judged(q)'
  <1>1. Asks(q)'
    BY DEF DecInv, Asks
  <1>2. ASSUME NEW d \in Dec!Record, verdicts[q].id \in DecisionIds, OfItsDecision(q, d)
        PROVE  OfItsDecision(q, d)'
    <2>1. PICK i \in DecisionIds : i = verdicts[q].id
      BY <1>2
    <2>2. Legal(i, d)'
      BY <1>2, <2>1, LegalStays DEF OfItsDecision
    <2>3. d.number = decision'[i].number /\ d.number # 0
      BY <1>2, <2>1 DEF OfItsDecision, Grows
    <2> QED BY <2>1, <2>2, <2>3 DEF OfItsDecision
  <1>3. CASE verdicts[q].pc \in {"read", "checked"}
    <2>1. /\ verdicts[q].op \in Dec!Verdicts /\ verdicts[q].id \in DecisionIds
          /\ OfItsDecision(q, verdicts[q].seen)
      BY <1>3 DEF DecInv, Judged, Asks
    <2>2. PICK d \in Dec!Record : d = verdicts[q].seen
      BY DEF DecInv, DecisionTypeOK, Dec!Request
    <2>3. OfItsDecision(q, d)'
      BY <1>2, <2>1, <2>2
    <2>4. OfItsDecision(q, verdicts[q].seen)'
      BY <2>2, <2>3
    <2>5. CASE verdicts[q].pc = "checked"
      <3>1. PICK e \in Dec!Record : e = Dec!Decided(q) /\ OfItsDecision(q, e) /\ e.status # "proposed"
        BY <2>5 DEF DecInv, Judged
      <3>2. Dec!Decided(q)' = e
        BY <3>1 DEF Dec!Decided
      <3>3. OfItsDecision(q, e)'
        BY <1>2, <2>1, <3>1
      <3>4. \E f \in Dec!Record : f = Dec!Decided(q)' /\ OfItsDecision(q, f)' /\ f.status # "proposed"
        BY <3>1, <3>2, <3>3
      <3> QED BY <1>1, <2>1, <2>4, <3>4 DEF Judged
    <2> QED BY <1>1, <2>1, <2>4, <2>5 DEF Judged
  <1>4. CASE verdicts[q].pc \notin {"read", "checked"}
    BY <1>1, <1>4 DEF Judged
  <1> QED BY <1>1, <1>3, <1>4

----------------------------------------------------------------------------
(* Decisions: numbers. *)

Used == {i \in DecisionIds : decision[i].number # 0}

LEMMA UsedFinite == IsFiniteSet(Used) /\ Cardinality(Used) \in Nat
  <1>1. PICK U \in SUBSET DecisionIds : U = Used
    BY DEF Used
  <1>2. IsFiniteSet(U)
    BY DecConstants, FS_Subset
  <1> QED BY <1>1, <1>2, FS_CardinalityType

LEMMA GaplessNumbers ==
    Dec!NumbersGapless <=> {decision[i].number : i \in Used} = 1 .. Cardinality(Used)
  BY SameCardinality, Zenon DEF Dec!NumbersGapless, Dec!Exists, Used

LEMMA NextNumberCount ==
    ASSUME DecInv
    PROVE  Dec!NextNumber = Cardinality(Used) + 1
  <1> DEFINE n == Cardinality(Used)
             all == {0} \cup {decision[i].number : i \in DecisionIds}
  <1>1. n \in Nat /\ {decision[i].number : i \in Used} = 1 .. n
    BY UsedFinite, GaplessNumbers DEF DecInv
  <1> HIDE DEF n
  <1>2. \A i \in DecisionIds : decision[i].number \in Nat /\ decision[i].number <= n
    <2> SUFFICES ASSUME NEW i \in DecisionIds PROVE decision[i].number \in Nat /\ decision[i].number <= n
      OBVIOUS
    <2>1. decision[i].number \in Nat
      BY DEF DecInv, DecisionTypeOK, Dec!Record
    <2>2. CASE i \in Used
      BY <1>1, <2>1, <2>2
    <2>3. CASE i \notin Used
      BY <1>1, <2>1, <2>3 DEF Used
    <2> QED BY <2>2, <2>3
  <1>3. n \in all
    <2>1. CASE n = 0
      BY <2>1
    <2>2. CASE n # 0
      <3>1. n \in {decision[i].number : i \in Used}
        BY <1>1, <2>2
      <3>2. PICK i \in Used : decision[i].number = n
        BY <3>1
      <3> QED BY <3>2 DEF Used
    <2> QED BY <2>1, <2>2
  <1>4. \A m \in all : (\A i \in DecisionIds : decision[i].number <= m) => m = n
    <2> SUFFICES ASSUME NEW m \in all, \A i \in DecisionIds : decision[i].number <= m PROVE m = n
      OBVIOUS
    <2>1. m \in Nat /\ m <= n
      BY <1>1, <1>2
    <2>2. n <= m
      BY <1>1, <1>3, <2>1
    <2> QED BY <1>1, <2>1, <2>2
  <1>5. Dec!Highest = CHOOSE m \in all : \A i \in DecisionIds : decision[i].number <= m
    BY DEF Dec!Highest
  <1> HIDE DEF all
  <1>6. Dec!Highest = n
    BY <1>2, <1>3, <1>4, <1>5
  <1> QED BY <1>6 DEF Dec!NextNumber, n

LEMMA NumberAdded ==
    ASSUME DecInv, NEW i \in DecisionIds, decision[i].number = 0, NEW d \in Dec!Record,
           d.number = Cardinality(Used) + 1, decision' = [decision EXCEPT ![i] = d]
    PROVE  Dec!NumbersGapless'
  <1> DEFINE n == Cardinality(Used)
  <1>1. n \in Nat /\ {decision[j].number : j \in Used} = 1 .. n
    BY UsedFinite, GaplessNumbers DEF DecInv
  <1>2. i \notin Used
    BY DEF Used
  <1>3. \A j \in DecisionIds : decision'[j] = IF j = i THEN d ELSE decision[j]
    BY DEF DecInv, DecisionTypeOK
  <1>4. Used' = Used \cup {i}
    <2>1. d.number # 0
      BY <1>1
    <2> QED BY <1>3, <2>1 DEF Used
  <1>5. Cardinality(Used \cup {i}) = n + 1
    <2>1. PICK U : U = Used
      OBVIOUS
    <2>2. Cardinality(U \cup {i}) = Cardinality(U) + 1
      BY <1>2, <2>1, UsedFinite, FS_AddElement
    <2> QED BY <2>1, <2>2
  <1> HIDE DEF n
  <1>6. {decision'[j].number : j \in Used'} = 1 .. n + 1
    <2>1. \A j \in Used : decision'[j].number = decision[j].number
      BY <1>2, <1>3 DEF Used
    <2>2. decision'[i].number = n + 1
      BY <1>3 DEF n
    <2>3. {decision'[j].number : j \in Used'} = {decision[j].number : j \in Used} \cup {n + 1}
      BY <1>4, <2>1, <2>2
    <2>4. 1 .. n + 1 = 1 .. n \cup {n + 1}
      BY <1>1
    <2> QED BY <1>1, <2>3, <2>4
  <1>7. Cardinality(Used') = n + 1
    BY <1>4, <1>5
  <1> QED BY <1>6, <1>7, SameCardinality, Zenon DEF Dec!NumbersGapless, Dec!Exists, Used

LEMMA NumbersSame ==
    ASSUME DecInv, \A i \in DecisionIds : decision'[i].number = decision[i].number
    PROVE  Dec!NumbersGapless'
  <1>1. Used' = Used
    BY DEF Used
  <1>2. {decision'[j].number : j \in Used'} = {decision[j].number : j \in Used}
    BY <1>1 DEF Used
  <1>3. {decision'[j].number : j \in Used'} = 1 .. Cardinality(Used')
    BY <1>1, <1>2, GaplessNumbers DEF DecInv
  <1> QED BY <1>3, SameCardinality, Zenon DEF Dec!NumbersGapless, Dec!Exists, Used

----------------------------------------------------------------------------
(* Decisions: steps. *)

(* A step that decides nothing. *)
LEMMA UndecidedKeeps ==
    ASSUME RowsOK, RowsOK', DecInv, head'.current >= head.current, decision' = decision,
           NEW r \in Requests, NEW a \in Dec!Request, verdicts' = [verdicts EXCEPT ![r] = a],
           Asks(r)', Judged(r)',
           a.op = "draft" /\ a.pc \in {"asked", "admitted"} =>
             \/ Drafting(r) /\ a.id = verdicts[r].id
             \/ /\ a.id \in DecisionIds /\ decision[a.id].number = 0
                /\ \A q \in Requests : verdicts[q].id # a.id
    PROVE  DecInv'
  <1>1. Grows
    BY DEF Grows
  <1>2. DecisionTypeOK'
    BY DEF DecInv, DecisionTypeOK
  <1>3. \A q \in Requests : verdicts'[q] = IF q = r THEN a ELSE verdicts[q]
    BY DEF DecInv, DecisionTypeOK
  <1>4. \A q \in Requests : Asks(q)' /\ Judged(q)'
    BY <1>1, <1>3, RequestStays
  <1>5. \A i \in DecisionIds : Legal(i, decision[i])'
    <2> SUFFICES ASSUME NEW i \in DecisionIds PROVE Legal(i, decision[i])'
      OBVIOUS
    <2>1. PICK d \in Dec!Record : d = decision[i]
      BY DEF DecInv, DecisionTypeOK
    <2>2. Legal(i, d)'
      BY <1>1, <2>1, LegalStays DEF DecInv
    <2> QED BY <2>1, <2>2
  <1>6. DraftsApart'
    <2>1. \A q \in Requests :
            Drafting(q)' => \/ Drafting(q) /\ verdicts'[q].id = verdicts[q].id
                            \/ /\ q = r /\ a.id \in DecisionIds /\ decision[a.id].number = 0
                               /\ \A p \in Requests : verdicts[p].id # a.id
      BY <1>3 DEF Drafting
    <2> QED BY <1>3, <2>1 DEF DecInv, DraftsApart, Dec!Exists
  <1>7. \A i \in DecisionIds : (~Dec!Exists(i) => decision[i].status = "proposed")'
    BY DEF DecInv, Dec!Exists
  <1>8. Dec!NumbersGapless'
    BY NumbersSame
  <1> QED BY <1>2, <1>4, <1>5, <1>6, <1>7, <1>8 DEF DecInv

(* A step that writes one decision and answers. *)
LEMMA DecidedKeeps ==
    ASSUME RowsOK, RowsOK', DecInv, head' = head, NEW i \in DecisionIds, NEW d \in Dec!Record,
           decision' = [decision EXCEPT ![i] = d], Legal(i, d), Dec!NumbersGapless',
           d.number # 0, d.number = decision[i].number \/ decision[i].number = 0,
           decision[i].status # "proposed" => d.status # "proposed",
           NEW r \in Requests, NEW a \in Dec!Request, verdicts' = [verdicts EXCEPT ![r] = a],
           a.pc = "done", a.op = verdicts[r].op, a.id = verdicts[r].id, a.option = verdicts[r].option,
           a.other = verdicts[r].other,
           \A q \in Requests : q # r /\ Drafting(q) => verdicts[q].id # i
    PROVE  DecInv'
  <1>1. \A j \in DecisionIds : decision'[j] = IF j = i THEN d ELSE decision[j]
    BY DEF DecInv, DecisionTypeOK
  <1>2. \A q \in Requests : verdicts'[q] = IF q = r THEN a ELSE verdicts[q]
    BY DEF DecInv, DecisionTypeOK
  <1>3. Grows
    <2>1. head'.current >= head.current
      BY DEF RowsOK, HeadTypeOK
    <2> QED BY <1>1, <2>1 DEF Grows
  <1>4. DecisionTypeOK'
    BY DEF DecInv, DecisionTypeOK
  <1>5. Asks(r)' /\ Judged(r)'
    BY <1>2 DEF DecInv, Asks, Judged
  <1>6. \A q \in Requests : Asks(q)' /\ Judged(q)'
    BY <1>2, <1>3, <1>5, RequestStays
  <1>7. \A j \in DecisionIds : Legal(j, decision[j])'
    <2> SUFFICES ASSUME NEW j \in DecisionIds PROVE Legal(j, decision[j])'
      OBVIOUS
    <2>1. CASE j = i
      <3>1. Legal(i, d)'
        BY <1>3, LegalStays
      <3> QED BY <1>1, <2>1, <3>1
    <2>2. CASE j # i
      <3>1. PICK e \in Dec!Record : e = decision[j]
        BY DEF DecInv, DecisionTypeOK
      <3>2. Legal(j, e)'
        BY <1>3, <3>1, LegalStays DEF DecInv
      <3>3. decision'[j] = e
        BY <1>1, <2>2, <3>1
      <3> QED BY <3>2, <3>3
    <2> QED BY <2>1, <2>2
  <1>8. DraftsApart'
    <2>1. \A q \in Requests : Drafting(q)' => q # r /\ Drafting(q) /\ verdicts'[q].id = verdicts[q].id
      BY <1>2 DEF Drafting
    <2> QED BY <1>1, <1>2, <2>1 DEF DecInv, DraftsApart, Dec!Exists
  <1>9. \A j \in DecisionIds : (~Dec!Exists(j) => decision[j].status = "proposed")'
    BY <1>1 DEF DecInv, Dec!Exists
  <1> QED BY <1>4, <1>6, <1>7, <1>8, <1>9 DEF DecInv

(* What an answered request keeps. *)
LEMMA AnsweredRequest ==
    ASSUME DecInv, NEW r \in Requests, NEW answer \in {"ok", "refused"}, Dec!Answer(r, answer)
    PROVE  \E a \in Dec!Request :
             /\ verdicts' = [verdicts EXCEPT ![r] = a]
             /\ a.pc = "done" /\ a.op = verdicts[r].op /\ a.id = verdicts[r].id
             /\ a.option = verdicts[r].option /\ a.other = verdicts[r].other
  <1> DEFINE a == [verdicts[r] EXCEPT !.pc = "done", !.answer = answer, !.seen = Dec!NoRecord]
  <1>1. verdicts[r] \in Dec!Request
    BY DEF DecInv, DecisionTypeOK
  <1>2. a \in Dec!Request
    BY <1>1, NoRecordType DEF Dec!Request
  <1>3. /\ a.pc = "done" /\ a.op = verdicts[r].op /\ a.id = verdicts[r].id
        /\ a.option = verdicts[r].option /\ a.other = verdicts[r].other
    BY <1>1 DEF Dec!Request
  <1>4. verdicts' = [verdicts EXCEPT ![r] = a]
    BY DEF Dec!Answer, DecInv, DecisionTypeOK
  <1> QED BY <1>2, <1>3, <1>4

LEMMA RefuseKeepsDecisions ==
    ASSUME RowsOK, RowsOK', DecInv, NEW r \in Requests, Dec!Refuse(r)
    PROVE  DecInv'
  <1>1. PICK a \in Dec!Request :
             /\ verdicts' = [verdicts EXCEPT ![r] = a]
             /\ a.pc = "done" /\ a.op = verdicts[r].op /\ a.id = verdicts[r].id
             /\ a.option = verdicts[r].option /\ a.other = verdicts[r].other
    BY AnsweredRequest DEF Dec!Refuse
  <1>2. verdicts'[r] = a
    BY <1>1 DEF DecInv, DecisionTypeOK
  <1>3. Asks(r)' /\ Judged(r)'
    BY <1>1, <1>2 DEF DecInv, Asks, Judged
  <1>4. decision' = decision /\ head'.current >= head.current
    BY DEF Dec!Refuse, Dec!Answer, RowsOK, HeadTypeOK
  <1> QED BY <1>1, <1>3, <1>4, UndecidedKeeps

LEMMA DraftKeeps ==
    ASSUME RowsOK, RowsOK', DecInv, NEW r \in Requests, Dec!Draft(r)
    PROVE  DecInv'
  <1>1. Drafting(r) /\ head' = head
    BY DEF Dec!Draft, Dec!At, Drafting, Dec!Answer
  <1>2. PICK i \in DecisionIds : i = verdicts[r].id
    BY <1>1 DEF DecInv, DraftsApart
  <1>3. PICK n \in Nat : n = Dec!NextNumber /\ n = Cardinality(Used) + 1 /\ n # 0
    BY NextNumberCount, UsedFinite
  <1> DEFINE d == [Dec!NoRecord EXCEPT !.number = n]
  <1>4. /\ d \in Dec!Record /\ d.number = n /\ d.status = "proposed" /\ d.chosen = NoOption
        /\ d.successor = NoDecision /\ d.revision = 0
    BY NoRecordType DEF Dec!NoRecord, Dec!Record
  <1>5. decision' = [decision EXCEPT ![i] = d]
    BY <1>2, <1>3 DEF Dec!Draft
  <1> HIDE DEF d
  <1>6. Legal(i, d)
    BY <1>4, DecConstants DEF Legal
  <1>7. decision[i].number = 0 /\ decision[i].status = "proposed"
    BY <1>1, <1>2 DEF DecInv, DraftsApart, Dec!Exists
  <1>8. Dec!NumbersGapless'
    BY <1>3, <1>4, <1>5, <1>7, NumberAdded
  <1>9. \A q \in Requests : q # r /\ Drafting(q) => verdicts[q].id # i
    BY <1>1, <1>2 DEF DecInv, DraftsApart
  <1>10. PICK a \in Dec!Request :
             /\ verdicts' = [verdicts EXCEPT ![r] = a]
             /\ a.pc = "done" /\ a.op = verdicts[r].op /\ a.id = verdicts[r].id
             /\ a.option = verdicts[r].option /\ a.other = verdicts[r].other
    BY AnsweredRequest DEF Dec!Draft
  <1> QED BY <1>1, <1>3, <1>4, <1>5, <1>6, <1>7, <1>8, <1>9, <1>10, DecidedKeeps

LEMMA DecideKeeps ==
    ASSUME RowsOK, RowsOK', DecInv, NEW r \in Requests, Dec!Decide(r)
    PROVE  DecInv'
  <1>1. /\ verdicts[r].pc = "checked" /\ verdicts[r].op \in Dec!Verdicts /\ head' = head
        /\ verdicts[r].id \in DecisionIds
    BY DEF Dec!Decide, Dec!At, Dec!Answer, DecInv, Asks
  <1>2. PICK i \in DecisionIds : i = verdicts[r].id
    BY <1>1
  <1>3. PICK d \in Dec!Record : d = Dec!Decided(r) /\ OfItsDecision(r, d) /\ d.status # "proposed"
    BY <1>1 DEF DecInv, Judged
  <1>4. decision' = [decision EXCEPT ![i] = d]
    BY <1>2, <1>3 DEF Dec!Decide
  <1>5. Legal(i, d) /\ d.number = decision[i].number /\ d.number # 0
    BY <1>2, <1>3 DEF OfItsDecision
  <1>6. Dec!NumbersGapless'
    <2>1. \A j \in DecisionIds : decision'[j].number = decision[j].number
      BY <1>4, <1>5 DEF DecInv, DecisionTypeOK
    <2> QED BY <2>1, NumbersSame
  <1>7. \A q \in Requests : q # r /\ Drafting(q) => verdicts[q].id # i
    BY <1>5 DEF DecInv, DraftsApart, Dec!Exists
  <1>8. PICK a \in Dec!Request :
             /\ verdicts' = [verdicts EXCEPT ![r] = a]
             /\ a.pc = "done" /\ a.op = verdicts[r].op /\ a.id = verdicts[r].id
             /\ a.option = verdicts[r].option /\ a.other = verdicts[r].other
    BY AnsweredRequest DEF Dec!Decide
  <1> QED BY <1>1, <1>3, <1>4, <1>5, <1>6, <1>7, <1>8, DecidedKeeps

LEMMA AskKeepsDecisions ==
    ASSUME RowsOK, RowsOK', DecInv, NEW r \in Requests, Dec!Ask(r)
    PROVE  DecInv'
  <1>1. decision' = decision /\ head'.current >= head.current
    <2>1. decision' = decision /\ head' = head
      BY DEF Dec!Ask, Dec!Asked, Dec!headVars
    <2> QED BY <2>1 DEF RowsOK, HeadTypeOK
  <1>2. CASE \E i \in DecisionIds :
               /\ ~Dec!Exists(i) /\ \A q \in Requests : verdicts[q].id # i
               /\ Dec!Asked(r, [Dec!NoRequest EXCEPT !.pc = "asked", !.op = "draft", !.id = i])
    <2>1. PICK i \in DecisionIds :
               /\ ~Dec!Exists(i) /\ \A q \in Requests : verdicts[q].id # i
               /\ Dec!Asked(r, [Dec!NoRequest EXCEPT !.pc = "asked", !.op = "draft", !.id = i])
      BY <1>2
    <2> DEFINE a == [Dec!NoRequest EXCEPT !.pc = "asked", !.op = "draft", !.id = i]
    <2>2. a \in Dec!Request /\ a.pc = "asked" /\ a.op = "draft" /\ a.id = i
      BY NoRecordType DEF Dec!Request
    <2>3. verdicts' = [verdicts EXCEPT ![r] = a]
      BY <2>1 DEF Dec!Asked
    <2> HIDE DEF a
    <2>4. verdicts'[r] = a
      BY <2>3 DEF DecInv, DecisionTypeOK
    <2>5. Asks(r)' /\ Judged(r)'
      BY <2>2, <2>4 DEF Asks, Judged, Dec!Verdicts
    <2> QED BY <1>1, <2>1, <2>2, <2>3, <2>5, UndecidedKeeps DEF Dec!Exists
  <1>3. CASE \E i \in DecisionIds, op \in Dec!Verdicts :
               \E option \in IF op = "accept" THEN Options ELSE {NoOption},
                  other \in IF op = "supersede" THEN DecisionIds ELSE {NoDecision},
                  number \in IF op = "link" THEN 1 .. MaxRevision ELSE {0} :
                  Dec!Asked(r, [Dec!NoRequest EXCEPT !.pc = "asked", !.op = op, !.id = i,
                                  !.option = option, !.other = other, !.number = number])
    <2>1. PICK i \in DecisionIds, op \in Dec!Verdicts :
               \E option \in IF op = "accept" THEN Options ELSE {NoOption},
                  other \in IF op = "supersede" THEN DecisionIds ELSE {NoDecision},
                  number \in IF op = "link" THEN 1 .. MaxRevision ELSE {0} :
                  Dec!Asked(r, [Dec!NoRequest EXCEPT !.pc = "asked", !.op = op, !.id = i,
                                  !.option = option, !.other = other, !.number = number])
      BY <1>3
    <2>2. PICK option \in IF op = "accept" THEN Options ELSE {NoOption},
               other \in IF op = "supersede" THEN DecisionIds ELSE {NoDecision},
               number \in IF op = "link" THEN 1 .. MaxRevision ELSE {0} :
               Dec!Asked(r, [Dec!NoRequest EXCEPT !.pc = "asked", !.op = op, !.id = i,
                               !.option = option, !.other = other, !.number = number])
      BY <2>1
    <2>3. /\ option \in Options \cup {NoOption} /\ other \in DecisionIds \cup {NoDecision}
          /\ number \in 0 .. MaxRevision
          /\ op = "accept" => option \in Options
          /\ op = "supersede" => other \in DecisionIds
      BY DecConstants
    <2> DEFINE a == [Dec!NoRequest EXCEPT !.pc = "asked", !.op = op, !.id = i,
                       !.option = option, !.other = other, !.number = number]
    <2>4. /\ a \in Dec!Request /\ a.pc = "asked" /\ a.op = op /\ a.id = i
          /\ a.option = option /\ a.other = other
      BY <2>3, NoRecordType DEF Dec!Request
    <2>5. verdicts' = [verdicts EXCEPT ![r] = a]
      BY <2>2 DEF Dec!Asked
    <2> HIDE DEF a
    <2>6. verdicts'[r] = a
      BY <2>5 DEF DecInv, DecisionTypeOK
    <2>7. Asks(r)' /\ Judged(r)'
      BY <2>3, <2>4, <2>6 DEF Asks, Judged
    <2>8. a.op # "draft"
      BY <2>4 DEF Dec!Verdicts
    <2> QED BY <1>1, <2>4, <2>5, <2>7, <2>8, UndecidedKeeps
  <1> QED BY <1>2, <1>3 DEF Dec!Ask

(* A request that goes on keeps what it asks for. *)
LEMMA GoesOnKeepsDecisions ==
    ASSUME RowsOK, RowsOK', DecInv, head' = head, decision' = decision, NEW r \in Requests,
           NEW a \in Dec!Request, verdicts' = [verdicts EXCEPT ![r] = a],
           a.op = verdicts[r].op, a.id = verdicts[r].id, a.option = verdicts[r].option,
           a.other = verdicts[r].other, a.op = "draft" => verdicts[r].pc = "asked",
           Judged(r)'
    PROVE  DecInv'
  <1>1. verdicts'[r] = a
    BY DEF DecInv, DecisionTypeOK
  <1>2. Asks(r)'
    BY <1>1 DEF DecInv, Asks
  <1>3. head'.current >= head.current
    BY DEF RowsOK, HeadTypeOK
  <1>4. a.op = "draft" => Drafting(r)
    BY DEF Drafting
  <1> QED BY <1>2, <1>3, <1>4, UndecidedKeeps

LEMMA AdmitKeepsDecisions ==
    ASSUME RowsOK, RowsOK', DecInv, NEW r \in Requests, Dec!Admit(r)
    PROVE  DecInv'
  <1> DEFINE a == [verdicts[r] EXCEPT !.pc = "admitted"]
  <1>1. verdicts[r] \in Dec!Request /\ verdicts[r].pc = "asked"
    BY DEF Dec!Admit, DecInv, DecisionTypeOK
  <1>2. /\ a \in Dec!Request /\ a.pc = "admitted" /\ a.op = verdicts[r].op /\ a.id = verdicts[r].id
        /\ a.option = verdicts[r].option /\ a.other = verdicts[r].other
    BY <1>1 DEF Dec!Request
  <1>3. verdicts' = [verdicts EXCEPT ![r] = a] /\ verdicts'[r] = a /\ decision' = decision /\ head' = head
    BY DEF Dec!Admit, DecInv, DecisionTypeOK
  <1> HIDE DEF a
  <1>4. Judged(r)'
    BY <1>2, <1>3 DEF Judged
  <1> QED BY <1>1, <1>2, <1>3, <1>4, GoesOnKeepsDecisions

LEMMA ReadKeepsDecisions ==
    ASSUME RowsOK, RowsOK', DecInv, NEW r \in Requests, Dec!Read(r)
    PROVE  DecInv'
  <1>1. /\ verdicts[r] \in Dec!Request /\ verdicts[r].op \in Dec!Verdicts
        /\ verdicts[r].id \in DecisionIds /\ decision[verdicts[r].id].number # 0
    BY DEF Dec!Read, Dec!At, Dec!Exists, DecInv, DecisionTypeOK, Asks
  <1>2. PICK i \in DecisionIds : i = verdicts[r].id
    BY <1>1
  <1>3. PICK d \in Dec!Record : d = decision[i]
    BY DEF DecInv, DecisionTypeOK
  <1> DEFINE a == [verdicts[r] EXCEPT !.pc = "read", !.seen = d]
  <1>4. /\ a \in Dec!Request /\ a.pc = "read" /\ a.op = verdicts[r].op /\ a.id = verdicts[r].id
        /\ a.option = verdicts[r].option /\ a.other = verdicts[r].other /\ a.seen = d
    BY <1>1 DEF Dec!Request
  <1>5. verdicts' = [verdicts EXCEPT ![r] = a] /\ verdicts'[r] = a /\ decision' = decision /\ head' = head
    BY <1>2, <1>3 DEF Dec!Read, Dec!headVars, DecInv, DecisionTypeOK
  <1> HIDE DEF a
  <1>6. Judged(r)'
    <2>1. OfItsDecision(r, d)'
      BY <1>1, <1>2, <1>3, <1>4, <1>5 DEF OfItsDecision, DecInv, Legal
    <2>2. OfItsDecision(r, verdicts[r].seen)'
      BY <1>4, <1>5, <2>1
    <2> QED BY <1>1, <1>4, <1>5, <2>2 DEF Judged
  <1>7. a.op # "draft"
    BY <1>1, <1>4 DEF Dec!Verdicts
  <1> QED BY <1>4, <1>5, <1>6, <1>7, GoesOnKeepsDecisions

(* The verdict that passed its checks is legal. *)
LEMMA PermittedLegal ==
    ASSUME RowsOK, DecInv, NEW r \in Requests, verdicts[r].pc = "read", verdicts[r].op \in Dec!Verdicts,
           Dec!Permitted(r)
    PROVE  OfItsDecision(r, Dec!Decided(r)) /\ Dec!Decided(r).status # "proposed"
  <1> DEFINE a == verdicts[r]
             d == Dec!Decided(r)
  <1>1. /\ a \in Dec!Request /\ a.seen \in Dec!Record /\ a.id \in DecisionIds
        /\ a.op = "accept" => a.option \in Options
        /\ a.op = "supersede" => a.other \in DecisionIds
        /\ OfItsDecision(r, a.seen)
    BY DEF DecInv, DecisionTypeOK, Dec!Request, Asks, Judged
  <1>2. d.number = decision[a.id].number /\ d.number # 0
    BY <1>1, DecidedType DEF OfItsDecision, DecInv
  <1>3. PICK s \in Dec!Record : s = a.seen
    BY <1>1
  <1>4. Legal(a.id, s)
    BY <1>1, <1>3 DEF OfItsDecision
  <1>5. CASE a.op = "accept"
    <2>1. d = [s EXCEPT !.status = "accepted", !.chosen = a.option]
      BY <1>3, <1>5 DEF Dec!Decided, Dec!Accepted
    <2>2. s.status = "proposed" /\ a.option \notin Unacceptable /\ a.option # NoOption
      BY <1>1, <1>3, <1>5, DecConstants DEF Dec!Permitted, Dec!Acceptable
    <2>3. d.status = "accepted" /\ d.chosen = a.option /\ d.successor = s.successor /\ d.revision = s.revision
      BY <2>1 DEF Dec!Record
    <2>4. Legal(a.id, d)
      BY <1>4, <2>2, <2>3 DEF Legal
    <2> QED BY <1>2, <2>3, <2>4 DEF OfItsDecision
  <1>6. CASE a.op = "reject"
    <2>1. d = [s EXCEPT !.status = "rejected"]
      BY <1>3, <1>6 DEF Dec!Decided, Dec!Rejected
    <2>2. s.status = "proposed"
      BY <1>3, <1>6 DEF Dec!Permitted
    <2>3. d.status = "rejected" /\ d.chosen = s.chosen /\ d.successor = s.successor /\ d.revision = s.revision
      BY <2>1 DEF Dec!Record
    <2>4. Legal(a.id, d)
      BY <1>4, <2>2, <2>3 DEF Legal
    <2> QED BY <1>2, <2>3, <2>4 DEF OfItsDecision
  <1>7. CASE a.op = "supersede"
    <2>1. d = [s EXCEPT !.status = "superseded", !.successor = a.other]
      BY <1>3, <1>7 DEF Dec!Decided, Dec!Superseded
    <2>2. /\ s.status = "accepted" /\ a.other # a.id /\ decision[a.other].status = "accepted"
          /\ a.other # NoDecision
      BY <1>1, <1>3, <1>7, DecConstants DEF Dec!Permitted
    <2>3. d.status = "superseded" /\ d.chosen = s.chosen /\ d.successor = a.other /\ d.revision = s.revision
      BY <2>1 DEF Dec!Record
    <2>4. Legal(a.id, d)
      BY <1>4, <2>2, <2>3 DEF Legal
    <2> QED BY <1>2, <2>3, <2>4 DEF OfItsDecision
  <1>8. CASE a.op = "link"
    <2>1. d = [s EXCEPT !.revision = a.number]
      BY <1>3, <1>8 DEF Dec!Decided, Dec!Linked
    <2>2. s.status = "accepted" /\ a.number \in Baseline + 1 .. head.current
      BY <1>3, <1>8 DEF Dec!Permitted
    <2>3. d.status = "accepted" /\ d.chosen = s.chosen /\ d.successor = s.successor /\ d.revision = a.number
      BY <2>1, <2>2 DEF Dec!Record
    <2>4. Legal(a.id, d)
      BY <1>4, <2>2, <2>3 DEF Legal
    <2> QED BY <1>2, <2>3, <2>4 DEF OfItsDecision
  <1> QED BY <1>5, <1>6, <1>7, <1>8 DEF Dec!Verdicts

LEMMA CheckKeepsDecisions ==
    ASSUME RowsOK, RowsOK', DecInv, NEW r \in Requests, Dec!Check(r)
    PROVE  DecInv'
  <1> DEFINE a == [verdicts[r] EXCEPT !.pc = "checked"]
  <1>1. /\ verdicts[r] \in Dec!Request /\ verdicts[r].op \in Dec!Verdicts /\ verdicts[r].pc = "read"
        /\ Dec!Permitted(r)
    BY DEF Dec!Check, Dec!At, DecInv, DecisionTypeOK
  <1>2. /\ a \in Dec!Request /\ a.pc = "checked" /\ a.op = verdicts[r].op /\ a.id = verdicts[r].id
        /\ a.option = verdicts[r].option /\ a.other = verdicts[r].other /\ a.seen = verdicts[r].seen
        /\ a.number = verdicts[r].number
    BY <1>1 DEF Dec!Request
  <1>3. verdicts' = [verdicts EXCEPT ![r] = a] /\ verdicts'[r] = a /\ decision' = decision /\ head' = head
    BY DEF Dec!Check, Dec!headVars, DecInv, DecisionTypeOK
  <1> HIDE DEF a
  <1>4. PICK d \in Dec!Record : d = Dec!Decided(r) /\ OfItsDecision(r, d) /\ d.status # "proposed"
    BY <1>1, DecidedType, PermittedLegal DEF DecInv
  <1>5. Dec!Decided(r)' = d
    BY <1>2, <1>3, <1>4 DEF Dec!Decided
  <1>6. ASSUME NEW e \in Dec!Record, OfItsDecision(r, e)
        PROVE  OfItsDecision(r, e)'
    BY <1>2, <1>3, <1>6 DEF OfItsDecision, Legal
  <1>7. PICK s \in Dec!Record : s = verdicts[r].seen
    BY <1>1 DEF Dec!Request
  <1>8. OfItsDecision(r, s)'
    BY <1>1, <1>6, <1>7 DEF DecInv, Judged
  <1>9. OfItsDecision(r, verdicts[r].seen)'
    BY <1>2, <1>3, <1>7, <1>8
  <1>10. Judged(r)'
    BY <1>1, <1>2, <1>3, <1>4, <1>5, <1>6, <1>9 DEF Judged
  <1>11. a.op # "draft"
    BY <1>1, <1>2 DEF Dec!Verdicts
  <1> QED BY <1>2, <1>3, <1>10, <1>11, GoesOnKeepsDecisions

(* The others move the rows below it: a revision is only ever added. *)
LEMMA OthersKeepDecisions ==
    ASSUME RowsOK, RowsOK', DecInv, head'.current >= head.current, UNCHANGED decisionVars
    PROVE  DecInv'
  <1>1. decision' = decision /\ verdicts' = verdicts
    BY DEF decisionVars
  <1>2. Grows
    BY <1>1 DEF Grows
  <1>3. \A q \in Requests : Asks(q)' /\ Judged(q)'
    BY <1>1, <1>2, RequestStays
  <1>4. \A i \in DecisionIds : Legal(i, decision[i])'
    <2> SUFFICES ASSUME NEW i \in DecisionIds PROVE Legal(i, decision[i])'
      OBVIOUS
    <2>1. PICK d \in Dec!Record : d = decision[i]
      BY DEF DecInv, DecisionTypeOK
    <2>2. Legal(i, d)'
      BY <1>2, <2>1, LegalStays DEF DecInv
    <2> QED BY <1>1, <2>1, <2>2
  <1>5. DraftsApart' /\ DecisionTypeOK'
    BY <1>1 DEF DecInv, DraftsApart, Drafting, Dec!Exists, DecisionTypeOK
  <1>6. \A i \in DecisionIds : (~Dec!Exists(i) => decision[i].status = "proposed")'
    BY <1>1 DEF DecInv, Dec!Exists
  <1>7. Dec!NumbersGapless'
    BY <1>1, NumbersSame
  <1> QED BY <1>3, <1>4, <1>5, <1>6, <1>7 DEF DecInv

LEMMA DecInvNext == RowsOK /\ DecInv /\ [Next]_vars => DecInv'
  <1> SUFFICES ASSUME RowsOK, DecInv, [Next]_vars PROVE DecInv'
    OBVIOUS
  <1>1. RowsOK' /\ head'.current >= head.current
    BY RowsKept
  <1>2. CASE Dec!Work
    <2>1. PICK r \in Requests : Dec!Ask(r) \/ Dec!Step(r)
      BY <1>2 DEF Dec!Work
    <2>2. CASE Dec!Denied(r) \/ Dec!DraftRefused(r) \/ Dec!Unwritable(r) \/ Dec!CheckRefused(r)
      <3>1. Dec!Refuse(r)
        BY <2>2 DEF Dec!Denied, Dec!DraftRefused, Dec!Unwritable, Dec!CheckRefused
      <3> QED BY <1>1, <3>1, RefuseKeepsDecisions
    <2> QED BY <1>1, <2>1, <2>2, AskKeepsDecisions, AdmitKeepsDecisions, DraftKeeps, ReadKeepsDecisions,
            CheckKeepsDecisions, DecideKeeps DEF Dec!Step
  <1>3. CASE UNCHANGED decisionVars
    BY <1>1, <1>3, OthersKeepDecisions
  <1> QED BY <1>2, <1>3 DEF Next, vars

LEMMA StartNumbers ==
    ASSUME NEW number \in [Drafted -> 1 .. Cardinality(Drafted)],
           \A i, j \in Drafted : i # j => number[i] # number[j]
    PROVE  {number[i] : i \in Drafted} = 1 .. Cardinality(Drafted)
  <1> DEFINE c == Cardinality(Drafted)
             T == 1 .. c
  <1>1. IsFiniteSet(Drafted) /\ c \in Nat
    BY DecConstants, FS_Subset, FS_CardinalityType
  <1>2. IsFiniteSet(T) /\ Cardinality(T) = c
    <2> HIDE DEF c
    <2>1. 1 \in Int /\ c \in Int
      BY <1>1
    <2>2. IsFiniteSet(T) /\ Cardinality(T) = IF 1 > c THEN 0 ELSE c - 1 + 1
      BY <2>1, FS_Interval
    <2> QED BY <1>1, <2>2
  <1>3. number \in Injection(Drafted, T)
    BY DEF Injection, IsInjective
  <1> HIDE DEF T
  <1>4. number \in Surjection(Drafted, T)
    BY <1>1, <1>2, <1>3, FS_Injection
  <1>5. {number[i] : i \in Drafted} = T
    <2>1. \A i \in Drafted : number[i] \in T
      BY <1>4 DEF Surjection
    <2>2. \A t \in T : \E i \in Drafted : number[i] = t
      BY <1>4 DEF Surjection
    <2> QED BY <2>1, <2>2
  <1> QED BY <1>5 DEF T

LEMMA DecInvInit == Init => DecInv
  <1> SUFFICES ASSUME Init PROVE DecInv
    OBVIOUS
  <1>1. decision \in Dec!Starts /\ verdicts = [r \in Requests |-> Dec!NoRequest]
    BY DEF Init, Dec!Init
  <1>2. PICK number \in [Drafted -> 1 .. Dec!Cardinality(Drafted)],
             chosen \in [Drafted -> (Options \ Unacceptable) \cup {NoOption}] :
             /\ \A i, j \in Drafted : i # j => number[i] # number[j]
             /\ decision = Dec!Drafts(number, chosen)
    BY <1>1 DEF Dec!Starts
  <1>3. number \in [Drafted -> 1 .. Cardinality(Drafted)]
    BY <1>2, SameCardinality
  <1>4. \A i \in Drafted : number[i] \in Nat \ {0}
    BY <1>3
  <1> DEFINE start(i) == [Dec!NoRecord EXCEPT !.number = number[i], !.chosen = chosen[i],
                            !.status = IF chosen[i] = NoOption THEN "proposed" ELSE "accepted"]
  <1>5. \A i \in Drafted : /\ start(i) \in Dec!Record /\ start(i).number = number[i]
                           /\ start(i).chosen = chosen[i] /\ start(i).successor = NoDecision
                           /\ start(i).revision = 0
                           /\ start(i).status = IF chosen[i] = NoOption THEN "proposed" ELSE "accepted"
    <2> TAKE i \in Drafted
    <2>1. chosen[i] \in Options \cup {NoOption} /\ number[i] \in Nat
      BY <1>2, <1>4
    <2>2. PICK s \in Dec!Status : s = IF chosen[i] = NoOption THEN "proposed" ELSE "accepted"
      BY DEF Dec!Status
    <2>3. start(i) = [number |-> number[i], status |-> s, chosen |-> chosen[i],
                      successor |-> NoDecision, revision |-> 0]
      <3>1. start(i) = [Dec!NoRecord EXCEPT !.number = number[i], !.chosen = chosen[i], !.status = s]
        BY <2>2, Zenon
      <3> HIDE DEF start
      <3> QED BY <3>1 DEF Dec!NoRecord
    <2> HIDE DEF start
    <2>4. start(i) \in Dec!Record
      BY <2>1, <2>3, DecConstants DEF Dec!Record
    <2> QED BY <2>2, <2>3, <2>4
  <1>6. /\ Dec!NoRecord \in Dec!Record /\ Dec!NoRecord.number = 0 /\ Dec!NoRecord.status = "proposed"
        /\ Dec!NoRecord.chosen = NoOption /\ Dec!NoRecord.successor = NoDecision
        /\ Dec!NoRecord.revision = 0
    BY NoRecordType DEF Dec!NoRecord
  <1>7. decision = [i \in DecisionIds |-> IF i \in Drafted THEN start(i) ELSE Dec!NoRecord]
    BY <1>2 DEF Dec!Drafts
  <1> HIDE DEF start
  <1>8. \A i \in DecisionIds : decision[i] = IF i \in Drafted THEN start(i) ELSE Dec!NoRecord
    BY <1>7
  <1>9. decision \in [DecisionIds -> Dec!Record]
    BY <1>5, <1>6, <1>7
  <1>10. Used = Drafted
    BY <1>4, <1>5, <1>6, <1>8, DecConstants DEF Used
  <1>11. Dec!NumbersGapless
    <2>1. \A i \in Drafted : decision[i].number = number[i]
      BY <1>5, <1>8, DecConstants
    <2>2. {decision[i].number : i \in Drafted} = {number[i] : i \in Drafted}
      BY <2>1
    <2> QED BY <1>2, <1>3, <1>10, <2>2, StartNumbers, GaplessNumbers
  <1>12. \A i \in DecisionIds : Legal(i, decision[i])
    <2> TAKE i \in DecisionIds
    <2>1. CASE i \in Drafted
      <3>1. chosen[i] \notin Unacceptable
        BY <1>2, <2>1, DecConstants
      <3> QED BY <1>5, <1>8, <2>1, <3>1 DEF Legal
    <2>2. CASE i \notin Drafted
      BY <1>6, <1>8, <2>2, DecConstants DEF Legal
    <2> QED BY <2>1, <2>2
  <1>13. \A i \in DecisionIds : ~Dec!Exists(i) => decision[i].status = "proposed"
    BY <1>4, <1>5, <1>6, <1>8 DEF Dec!Exists
  <1>14. \A r \in Requests : verdicts[r].pc = "idle" /\ verdicts[r].op = "none"
    BY <1>1 DEF Dec!NoRequest
  <1>15. DraftsApart /\ \A r \in Requests : Asks(r) /\ Judged(r)
    BY <1>14 DEF DraftsApart, Drafting, Asks, Judged, Dec!Verdicts
  <1>16. verdicts \in [Requests -> Dec!Request]
    BY <1>1, NoRecordType
  <1> QED BY <1>9, <1>11, <1>12, <1>13, <1>15, <1>16 DEF DecInv, DecisionTypeOK

LEMMA DecInvariance == Spec => []DecInv
  BY DecInvInit, DecInvNext, RowsInvariance, PTL DEF Spec

----------------------------------------------------------------------------
(* Analyses: the order of the listings, and their pages. *)

Rank(ids, i) == Ana!Cardinality({j \in ids : Ana!Before(i, j)})
Least(a, b) == IF a < b THEN a ELSE b

LEMMA AnaConstants ==
    /\ MaxAnalyses \in Nat /\ Found \in 0 .. MaxAnalyses /\ MaxTime \in Nat
    /\ PageSize \in Nat \ {0} /\ USABLE_LOOKBACK \in Nat \ {0}
    /\ Ana!Ids \subseteq Nat \ {0} /\ IsFiniteSet(Ana!Ids) /\ Ana!None \notin Ana!Ids
  <1>1. /\ MaxAnalyses \in Nat /\ Found \in 0 .. MaxAnalyses /\ MaxTime \in Nat
        /\ PageSize \in Nat \ {0} /\ USABLE_LOOKBACK \in Nat \ {0}
    BY DocumentsAssumption DEF Ana!AnalysesConstants
  <1>2. Ana!Ids \subseteq Nat \ {0} /\ Ana!None \notin Ana!Ids
    BY <1>1 DEF Ana!Ids, Ana!None
  <1>3. IsFiniteSet(Ana!Ids)
    <2>1. 1 \in Int /\ MaxAnalyses \in Int
      BY <1>1
    <2> QED BY <2>1, FS_Interval DEF Ana!Ids
  <1> QED BY <1>1, <1>2, <1>3

LEMMA SmallerSet ==
    ASSUME NEW S, IsFiniteSet(S), NEW T \in SUBSET S, T # S
    PROVE  Cardinality(T) < Cardinality(S)
  <1>1. IsFiniteSet(T) /\ Cardinality(T) <= Cardinality(S) /\ Cardinality(T) # Cardinality(S)
    BY FS_Subset
  <1>2. Cardinality(T) \in Nat /\ Cardinality(S) \in Nat
    BY <1>1, FS_CardinalityType
  <1> QED BY <1>1, <1>2

LEMMA IdsFinite ==
    ASSUME NEW ids \in SUBSET Ana!Ids
    PROVE  IsFiniteSet(ids) /\ Cardinality(ids) \in Nat
  <1>1. IsFiniteSet(ids)
    BY AnaConstants, FS_Subset
  <1> QED BY <1>1, FS_CardinalityType

LEMMA RowFields ==
    ASSUME AnalysisTypeOK, NEW i \in Ana!Ids
    PROVE  stored[i] \in Ana!Row /\ stored[i].at \in Nat /\ i \in Nat
  BY AnaConstants DEF AnalysisTypeOK, Ana!Row

LEMMA Ordered ==
    ASSUME AnalysisTypeOK
    PROVE  /\ \A a \in Ana!Ids : ~Ana!Before(a, a)
           /\ \A a, b \in Ana!Ids : a # b => Ana!Before(a, b) \/ Ana!Before(b, a)
           /\ \A a, b, c \in Ana!Ids : Ana!Before(a, b) /\ Ana!Before(b, c) => Ana!Before(a, c)
  BY RowFields DEF Ana!Before

LEMMA RankBounds ==
    ASSUME AnalysisTypeOK, NEW ids \in SUBSET Ana!Ids, NEW i \in ids
    PROVE  Rank(ids, i) \in 0 .. Cardinality(ids) - 1
  <1>1. PICK above \in SUBSET ids : above = {j \in ids : Ana!Before(i, j)}
    OBVIOUS
  <1>2. i \notin above
    BY <1>1, Ordered
  <1>3. Cardinality(above) < Cardinality(ids)
    BY <1>2, IdsFinite, SmallerSet
  <1>4. Cardinality(above) \in Nat /\ Cardinality(ids) \in Nat
    BY IdsFinite
  <1>5. Rank(ids, i) = Cardinality(above)
    BY <1>1, SameCardinality DEF Rank
  <1> QED BY <1>3, <1>4, <1>5

LEMMA RankDescends ==
    ASSUME AnalysisTypeOK, NEW ids \in SUBSET Ana!Ids, NEW i \in ids, NEW j \in ids, Ana!Before(i, j)
    PROVE  Rank(ids, j) < Rank(ids, i)
  <1>1. PICK above \in SUBSET ids : above = {k \in ids : Ana!Before(i, k)}
    OBVIOUS
  <1>2. PICK higher \in SUBSET ids : higher = {k \in ids : Ana!Before(j, k)}
    OBVIOUS
  <1>3. IsFiniteSet(above)
    BY IdsFinite
  <1>4. higher \subseteq above /\ j \in above /\ j \notin higher
    BY <1>1, <1>2, Ordered
  <1>5. Cardinality(higher) < Cardinality(above)
    BY <1>3, <1>4, SmallerSet
  <1>6. Rank(ids, i) = Cardinality(above) /\ Rank(ids, j) = Cardinality(higher)
    BY <1>1, <1>2, SameCardinality DEF Rank
  <1> QED BY <1>5, <1>6

LEMMA RanksUsed ==
    ASSUME AnalysisTypeOK, NEW ids \in SUBSET Ana!Ids, NEW k \in 0 .. Cardinality(ids) - 1
    PROVE  \E i \in ids : Rank(ids, i) = k
  <1> DEFINE c == Cardinality(ids)
             T == 0 .. c - 1
             rank == [i \in ids |-> Rank(ids, i)]
  <1>1. IsFiniteSet(ids) /\ c \in Nat
    BY IdsFinite
  <1>2. IsFiniteSet(T) /\ Cardinality(T) = c
    <2> HIDE DEF c
    <2>1. 0 \in Int /\ c - 1 \in Int
      BY <1>1
    <2>2. IsFiniteSet(T) /\ Cardinality(T) = IF 0 > c - 1 THEN 0 ELSE (c - 1) - 0 + 1
      BY <2>1, FS_Interval
    <2> QED BY <1>1, <2>2
  <1>3. PICK f \in [ids -> T] : \A i \in ids : f[i] = Rank(ids, i)
    <2>1. \A i \in ids : Rank(ids, i) \in T
      BY RankBounds
    <2>2. rank \in [ids -> T]
      BY <2>1
    <2> QED BY <2>2
  <1>4. \A i, j \in ids : i # j => f[i] # f[j]
    <2> SUFFICES ASSUME NEW i \in ids, NEW j \in ids, i # j PROVE f[i] # f[j]
      OBVIOUS
    <2>1. f[i] \in Int /\ f[j] \in Int
      BY <1>1, <1>3
    <2>2. Rank(ids, i) < Rank(ids, j) \/ Rank(ids, j) < Rank(ids, i)
      BY Ordered, RankDescends
    <2> QED BY <1>3, <2>1, <2>2
  <1> HIDE DEF T
  <1>5. f \in Injection(ids, T)
    BY <1>4 DEF Injection, IsInjective
  <1>6. f \in Surjection(ids, T)
    BY <1>1, <1>2, <1>5, FS_Injection
  <1>7. k \in T
    BY DEF T
  <1> QED BY <1>3, <1>6, <1>7 DEF Surjection

LEMMA RankNames ==
    ASSUME AnalysisTypeOK, NEW ids \in SUBSET Ana!Ids, NEW i \in ids, NEW j \in ids,
           Rank(ids, i) = Rank(ids, j)
    PROVE  i = j
  <1>1. Rank(ids, i) \in Int
    BY RankBounds, IdsFinite
  <1>2. ~Ana!Before(i, j) /\ ~Ana!Before(j, i)
    BY <1>1, RankDescends
  <1> QED BY <1>2, Ordered

(* The newest of some analyses, newest first: what NewestOf lists, and     *)
(* what is left out of its first m is older than they are.                 *)
LEMMA NewestSound ==
    ASSUME AnalysisTypeOK, NEW ids \in SUBSET Ana!Ids, NEW limit \in Nat
    PROVE  LET page == Ana!NewestOf(ids, limit) IN
           /\ page \in Seq(ids) /\ Len(page) = Least(Cardinality(ids), limit)
           /\ Descending(page)
           /\ \A i \in ids : Len(page) < limit => \E k \in 1 .. Len(page) : page[k] = i
           /\ \A i \in ids : \A m \in 1 .. Len(page) :
                (\E k \in 1 .. m : page[k] = i) \/ Ana!Before(i, page[m])
  <1> DEFINE page == Ana!NewestOf(ids, limit)
             c == Cardinality(ids)
             n == Least(c, limit)
  <1>1. c \in Nat /\ n \in 0 .. c /\ n <= limit /\ n \in Nat
    BY IdsFinite DEF Least
  <1>2. page = [k \in 1 .. n |-> CHOOSE i \in ids : Rank(ids, i) = k - 1]
    <2>1. page = [k \in 1 .. Least(Ana!Cardinality(ids), limit) |-> CHOOSE i \in ids : Rank(ids, i) = k - 1]
      BY Zenon DEF Ana!NewestOf, Rank, Least
    <2>2. Least(Ana!Cardinality(ids), limit) = n
      BY SameCardinality
    <2> QED BY <2>1, <2>2, Zenon
  <1>3. \A k \in 1 .. n : page[k] \in ids /\ Rank(ids, page[k]) = k - 1
    <2> TAKE k \in 1 .. n
    <2>1. k - 1 \in 0 .. c - 1
      BY <1>1
    <2>2. \E i \in ids : Rank(ids, i) = k - 1
      BY <2>1, RanksUsed
    <2>3. page[k] = CHOOSE i \in ids : Rank(ids, i) = k - 1
      BY <1>2
    <2> HIDE DEF page
    <2> QED BY <2>2, <2>3
  <1>4. page \in Seq(ids) /\ Len(page) = n
    <2>1. page \in [1 .. n -> ids]
      BY <1>2, <1>3
    <2> HIDE DEF page, n
    <2> QED BY <1>1, <2>1
  <1> HIDE DEF page
  <1>5. Descending(page)
    <2> SUFFICES ASSUME NEW a \in 1 .. n, NEW b \in 1 .. n, a < b
                 PROVE  Ana!Before(page[b], page[a])
      BY <1>4 DEF Descending
    <2>1. PICK x \in ids, y \in ids : x = page[a] /\ y = page[b]
      BY <1>3
    <2>2. Rank(ids, x) = a - 1 /\ Rank(ids, y) = b - 1
      BY <1>3, <2>1
    <2>3. ~Ana!Before(x, y)
      BY <1>1, <2>2, RankDescends
    <2>4. x # y
      BY <1>1, <2>2
    <2> QED BY <2>1, <2>3, <2>4, Ordered
  <1>6. \A i \in ids : Rank(ids, i) < n => \E k \in 1 .. n : k = Rank(ids, i) + 1 /\ page[k] = i
    <2> SUFFICES ASSUME NEW i \in ids, Rank(ids, i) < n
                 PROVE  \E k \in 1 .. n : k = Rank(ids, i) + 1 /\ page[k] = i
      OBVIOUS
    <2>1. Rank(ids, i) \in 0 .. c - 1
      BY RankBounds
    <2>2. PICK k \in 1 .. n : k = Rank(ids, i) + 1
      BY <1>1, <2>1
    <2>3. PICK x \in ids : x = page[k] /\ Rank(ids, x) = k - 1
      BY <1>3
    <2>4. Rank(ids, x) = Rank(ids, i)
      BY <1>1, <2>1, <2>2, <2>3
    <2>5. x = i
      BY <2>4, RankNames
    <2> QED BY <2>2, <2>3, <2>5
  <1>7. \A i \in ids : n < limit => \E k \in 1 .. n : page[k] = i
    <2> SUFFICES ASSUME NEW i \in ids, n < limit PROVE \E k \in 1 .. n : page[k] = i
      OBVIOUS
    <2>1. n = c
      BY <1>1 DEF Least
    <2>2. Rank(ids, i) < n
      BY <1>1, <2>1, RankBounds
    <2> QED BY <1>6, <2>2
  <1>8. \A i \in ids : \A m \in 1 .. n : (\E k \in 1 .. m : page[k] = i) \/ Ana!Before(i, page[m])
    <2> SUFFICES ASSUME NEW i \in ids, NEW m \in 1 .. n
                 PROVE  (\E k \in 1 .. m : page[k] = i) \/ Ana!Before(i, page[m])
      OBVIOUS
    <2>1. Rank(ids, i) \in 0 .. c - 1
      BY RankBounds
    <2>2. PICK x \in ids : x = page[m] /\ Rank(ids, x) = m - 1
      BY <1>3
    <2>3. CASE Rank(ids, i) < m
      <3>1. PICK k \in 1 .. n : k = Rank(ids, i) + 1 /\ page[k] = i
        BY <1>1, <1>6, <2>1, <2>3
      <3>2. k \in 1 .. m
        BY <1>1, <2>1, <2>3, <3>1
      <3> QED BY <3>1, <3>2
    <2>4. CASE ~(Rank(ids, i) < m)
      <3>1. ~Ana!Before(x, i)
        BY <1>1, <2>1, <2>2, <2>4, RankDescends
      <3>2. x # i
        BY <1>1, <2>1, <2>2, <2>4
      <3> QED BY <2>2, <3>1, <3>2, Ordered
    <2> QED BY <2>3, <2>4
  <1> QED BY <1>4, <1>5, <1>7, <1>8 DEF page

----------------------------------------------------------------------------
(* Analyses: what stays while others are stored. *)

(* A stored analysis never changes, and the clock runs forward. *)
StoredGrows ==
    /\ now' >= now
    /\ \A i \in Ana!Ids : stored[i].status # "none" => stored'[i] = stored[i]

LEMMA RestsStays ==
    ASSUME AnalysisTypeOK, StoredGrows, NEW row \in Ana!Row, Rests(row)
    PROVE  Rests(row)'
  <1>1. row.rests \subseteq Ana!Ids
    BY DEF Ana!Row
  <1>2. \A e \in row.rests : stored'[e] = stored[e]
    BY <1>1 DEF Rests, StoredGrows
  <1> QED BY <1>2 DEF Rests

LEMMA ReaderStays ==
    ASSUME AnaInv, StoredGrows, reader' = reader
    PROVE  ReaderSound'
  <1>1. SeenIds' = SeenIds
    BY DEF SeenIds
  <1>2. /\ reader.seen \in Seq(Ana!Ids) /\ reader.due \subseteq Ana!Ids
        /\ \A k \in 1 .. Len(reader.seen) : reader.seen[k] \in Ana!Ids
    BY DEF AnaInv, AnalysisTypeOK, Ana!Reader
  <1>3. SeenIds \cup reader.due \subseteq Ana!Ids
    BY <1>2 DEF SeenIds
  <1>4. \A i \in SeenIds \cup reader.due : stored'[i] = stored[i] /\ stored[i].status # "none"
    BY <1>3 DEF AnaInv, ReaderSound, Ana!Exists, StoredGrows
  <1>5. \A k \in 1 .. Len(reader.seen) : stored'[reader.seen[k]] = stored[reader.seen[k]]
    BY <1>4 DEF SeenIds
  <1>6. (reader.pc = "idle" => reader.seen = <<>> /\ reader.after = <<>>)'
    BY DEF AnaInv, ReaderSound
  <1>7. (\A i \in SeenIds \cup reader.due : Ana!Exists(i))'
    BY <1>1, <1>4 DEF Ana!Exists
  <1>8. Descending(reader.seen)'
    <2> SUFFICES ASSUME NEW a \in 1 .. Len(reader.seen), NEW b \in 1 .. Len(reader.seen), a < b
                 PROVE  Ana!Before(reader.seen[b], reader.seen[a])'
      BY DEF Descending
    <2>1. Ana!Before(reader.seen[b], reader.seen[a])
      BY DEF AnaInv, ReaderSound, Descending
    <2> QED BY <1>5, <2>1 DEF Ana!Before
  <1>9. ASSUME reader.pc = "reading"
        PROVE  /\ reader.seen = <<>> <=> reader.after = <<>>
               /\ reader.seen # <<>> =>
                    LET last == reader.seen[Len(reader.seen)] IN reader.after = <<stored'[last].at, last>>
               /\ \A i \in reader.due : i \in SeenIds \/ reader.after = <<>> \/ Ana!Older(i, reader.after)'
    <2>1. /\ reader.seen = <<>> <=> reader.after = <<>>
          /\ reader.seen # <<>> =>
               LET last == reader.seen[Len(reader.seen)] IN reader.after = <<stored[last].at, last>>
          /\ \A i \in reader.due : i \in SeenIds \/ reader.after = <<>> \/ Ana!Older(i, reader.after)
      BY <1>9 DEF AnaInv, ReaderSound
    <2>2. reader.seen # <<>> => Len(reader.seen) \in 1 .. Len(reader.seen)
      BY <1>2
    <2>3. \A i \in reader.due : Ana!Older(i, reader.after) => Ana!Older(i, reader.after)'
      BY <1>4 DEF Ana!Older
    <2> QED BY <1>5, <2>1, <2>2, <2>3
  <1>10. (reader.pc = "done" => reader.due \subseteq SeenIds)'
    BY <1>1 DEF AnaInv, ReaderSound
  <1> QED BY <1>1, <1>6, <1>7, <1>8, <1>9, <1>10 DEF ReaderSound

LEMMA NoRowType == Ana!NoRow \in Ana!Row /\ Ana!NoRequest \in Ana!Request
  <1>1. Ana!NoRow \in Ana!Row
    BY AnaConstants DEF Ana!NoRow, Ana!Row, Ana!Kinds, Ana!Phased
  <1>2. ASSUME NEW row \in Ana!Row, row = Ana!NoRow PROVE Ana!NoRequest \in Ana!Request
    BY <1>2 DEF Ana!NoRequest, Ana!Request
  <1> QED BY <1>1, <1>2

(* What a request leaves to the others and to the reader. *)
LEMMA RequestKeeps ==
    ASSUME AnaInv, StoredGrows, now' = now, reader' = reader, stored' \in [Ana!Ids -> Ana!Row],
           \A i \in Ana!Ids : (Ana!Exists(i) => Rests(stored[i]))' /\ stored'[i].at <= now',
           NEW r \in Requests, NEW a \in Ana!Request, analyzing' = [analyzing EXCEPT ![r] = a],
           Grounded(r)', AnalysesApart', HoldsActive'
    PROVE  AnaInv'
  <1>1. AnalysisTypeOK'
    BY DEF AnaInv, AnalysisTypeOK
  <1>2. \A q \in Requests : Grounded(q)'
    <2> SUFFICES ASSUME NEW q \in Requests, q # r PROVE Grounded(q)'
      OBVIOUS
    <2>1. analyzing'[q] = analyzing[q]
      BY DEF AnaInv, AnalysisTypeOK
    <2>2. PICK row \in Ana!Row : row = analyzing[q].row
      BY DEF AnaInv, AnalysisTypeOK, Ana!Request
    <2>3. Rests(row)'
      BY <2>2, RestsStays DEF AnaInv, Grounded
    <2>4. Rests(analyzing[q].row)'
      BY <2>1, <2>2, <2>3
    <2>5. analyzing[q].cites # Ana!None => Ana!Exists(analyzing[q].cites)'
      <3>1. analyzing[q].cites \in Ana!Ids \cup {Ana!None}
        BY DEF AnaInv, AnalysisTypeOK, Ana!Request
      <3> QED BY <3>1 DEF AnaInv, Grounded, Ana!Exists, StoredGrows
    <2>6. /\ analyzing[q].row.at <= now
          /\ analyzing[q].row.kind = "validation" => analyzing[q].row.rests = {}
      BY DEF AnaInv, Grounded
    <2> QED BY <2>1, <2>4, <2>5, <2>6 DEF Grounded
  <1>3. ReaderSound'
    BY ReaderStays
  <1> QED BY <1>1, <1>2, <1>3 DEF AnaInv

(* Nobody else's lock changes, and the project does not move. *)
LEMMA HoldsActiveKeeps ==
    ASSUME RowsOK, AnaInv, subject = "analyses", subject' = subject, NEW r \in Requests, Locks(r),
           NEW a \in Ana!Request, analyzing' = [analyzing EXCEPT ![r] = a],
           a.pc = "admitted" => projectLock'[r] = "share" /\ Ana!Modifiable
    PROVE  HoldsActive'
  <1>1. \A q \in Requests : analyzing'[q] = IF q = r THEN a ELSE analyzing[q]
    BY DEF AnaInv, AnalysisTypeOK
  <1>2. \A q \in Requests : q # r => projectLock'[q] = projectLock[q]
    BY DEF Locks, RowsOK, HeadTypeOK, ProjectTypeOK
  <1>3. project' = project
    BY DEF Locks
  <1> QED BY <1>1, <1>2, <1>3 DEF AnaInv, HoldsActive, Ana!Modifiable

(* A step that stores nothing. *)
LEMMA UnstoredKeeps ==
    ASSUME RowsOK, AnaInv, subject = "analyses", subject' = subject, NEW r \in Requests, Locks(r),
           stored' = stored, now' = now, reader' = reader,
           NEW a \in Ana!Request, analyzing' = [analyzing EXCEPT ![r] = a],
           a.pc = "admitted" => projectLock'[r] = "share" /\ Ana!Modifiable,
           a.pc \in {"asked", "read", "calculated", "admitted"} =>
             \/ Analyzing(r) /\ a.id = analyzing[r].id
             \/ /\ a.id \in Ana!Ids /\ ~Ana!Exists(a.id)
                /\ \A q \in Requests : analyzing[q].id # a.id,
           Rests(a.row), a.row.at <= now, a.row.kind = "validation" => a.row.rests = {},
           a.cites # Ana!None => Ana!Exists(a.cites)
    PROVE  AnaInv'
  <1>1. StoredGrows
    BY AnaConstants DEF StoredGrows, AnaInv, AnalysisTypeOK
  <1>2. \A q \in Requests : analyzing'[q] = IF q = r THEN a ELSE analyzing[q]
    BY DEF AnaInv, AnalysisTypeOK
  <1>3. \A i \in Ana!Ids : (Ana!Exists(i) => Rests(stored[i]))' /\ stored'[i].at <= now'
    BY DEF AnaInv, Ana!Exists, Rests
  <1>4. Grounded(r)'
    BY <1>2 DEF Grounded, Rests, Ana!Exists
  <1>5. AnalysesApart'
    <2>1. \A q \in Requests :
            Analyzing(q)' => \/ Analyzing(q) /\ analyzing'[q].id = analyzing[q].id
                             \/ /\ q = r /\ a.id \in Ana!Ids /\ ~Ana!Exists(a.id)
                                /\ \A p \in Requests : analyzing[p].id # a.id
      BY <1>2 DEF Analyzing
    <2> QED BY <1>2, <2>1 DEF AnaInv, AnalysesApart, Ana!Exists
  <1>6. stored' \in [Ana!Ids -> Ana!Row]
    BY DEF AnaInv, AnalysisTypeOK
  <1> QED BY <1>1, <1>3, <1>4, <1>5, <1>6, HoldsActiveKeeps, RequestKeeps

(* The step that stores the analysis and answers. *)
LEMMA StoredKeeps ==
    ASSUME RowsOK, AnaInv, subject = "analyses", subject' = subject, NEW r \in Requests, Ana!Answer(r),
           Analyzing(r), NEW row \in Ana!Row, stored' = [stored EXCEPT ![analyzing[r].id] = row],
           Rests(row), row.at <= now
    PROVE  AnaInv'
  <1> DEFINE a == [Ana!NoRequest EXCEPT !.pc = "done"]
  <1>1. /\ a \in Ana!Request /\ a.pc = "done" /\ a.row = Ana!NoRow /\ a.cites = Ana!None
        /\ a.row.rests = {} /\ a.row.at = 0
    <2>1. a \in Ana!Request
      BY NoRowType DEF Ana!Request
    <2>2. a.pc = "done" /\ a.row = Ana!NoRow /\ a.cites = Ana!None
      BY DEF Ana!NoRequest
    <2> HIDE DEF a
    <2> QED BY <2>1, <2>2 DEF Ana!NoRow
  <1>2. analyzing' = [analyzing EXCEPT ![r] = a] /\ now' = now /\ reader' = reader
    BY DEF Ana!Answer
  <1> HIDE DEF a
  <1>3. PICK i \in Ana!Ids : i = analyzing[r].id /\ stored[i].status = "none"
    BY DEF AnaInv, AnalysesApart, Ana!Exists
  <1>4. \A j \in Ana!Ids : stored'[j] = IF j = i THEN row ELSE stored[j]
    BY <1>3 DEF AnaInv, AnalysisTypeOK
  <1>5. StoredGrows
    BY <1>2, <1>3, <1>4 DEF StoredGrows, AnaInv, AnalysisTypeOK
  <1>6. stored' \in [Ana!Ids -> Ana!Row]
    BY <1>3 DEF AnaInv, AnalysisTypeOK
  <1>7. \A j \in Ana!Ids : (Ana!Exists(j) => Rests(stored[j]))' /\ stored'[j].at <= now'
    <2> SUFFICES ASSUME NEW j \in Ana!Ids
                 PROVE  (Ana!Exists(j) => Rests(stored[j]))' /\ stored'[j].at <= now'
      OBVIOUS
    <2>1. CASE j = i
      <3>1. Rests(row)'
        BY <1>5, RestsStays DEF AnaInv
      <3> QED BY <1>2, <1>4, <2>1, <3>1
    <2>2. CASE j # i
      <3>1. PICK old \in Ana!Row : old = stored[j]
        BY DEF AnaInv, AnalysisTypeOK
      <3>2. Ana!Exists(j) => Rests(old)'
        BY <1>5, <3>1, RestsStays DEF AnaInv
      <3>3. stored'[j] = old /\ stored[j].at <= now
        BY <1>4, <2>2, <3>1 DEF AnaInv
      <3> QED BY <1>2, <3>1, <3>2, <3>3 DEF Ana!Exists
    <2> QED BY <2>1, <2>2
  <1>8. \A q \in Requests : analyzing'[q] = IF q = r THEN a ELSE analyzing[q]
    BY <1>2 DEF AnaInv, AnalysisTypeOK
  <1>9. Grounded(r)'
    <2>1. now \in Nat
      BY AnaConstants DEF AnaInv, AnalysisTypeOK
    <2> QED BY <1>1, <1>2, <1>8, <2>1 DEF Grounded, Rests
  <1>10. AnalysesApart'
    <2>1. \A q \in Requests : Analyzing(q)' => q # r /\ Analyzing(q) /\ analyzing'[q] = analyzing[q]
      BY <1>1, <1>8 DEF Analyzing
    <2> QED BY <1>3, <1>4, <2>1 DEF AnaInv, AnalysesApart, Ana!Exists
  <1>11. Locks(r)
    BY DEF Ana!Answer, Ana!Unlock, Locks, LockModes
  <1>12. HoldsActive'
    BY <1>1, <1>2, <1>11, HoldsActiveKeeps
  <1> QED BY <1>1, <1>2, <1>5, <1>6, <1>7, <1>9, <1>10, <1>12, RequestKeeps

----------------------------------------------------------------------------
(* Analyses: evidence, and the steps of a request. *)

LEMMA SmallestOf ==
    ASSUME NEW S \in SUBSET Nat, S # {}
    PROVE  \E l \in S : \A m \in S : l <= m
  <1>1. PICK l \in S : \A m \in S : ~(<<m, l>> \in OpToRel(<, Nat))
    BY NatLessThanWellFounded, WFMin
  <1>2. \A m \in S : ~(m < l)
    BY <1>1 DEF OpToRel
  <1> QED BY <1>2

LEMMA UsableSound ==
    ASSUME AnaInv, NEW source
    PROVE  \A e \in Ana!Usable(source) : e \in Ana!Ids /\ stored[e].status = "result"
  <1>1. PICK ids \in SUBSET Ana!Ids : ids = {i \in Ana!Ids : Ana!Exists(i) /\ stored[i].kind = source}
    OBVIOUS
  <1>2. PICK page \in Seq(ids) : page = Ana!NewestOf(ids, USABLE_LOOKBACK)
    BY NewestSound, AnaConstants DEF AnaInv
  <1> DEFINE fit == {k \in 1 .. Len(page) : stored[page[k]].status # "failed"}
             best == CHOOSE k \in fit : \A m \in fit : k <= m
  <1>3. Ana!Usable(source) = IF fit = {} THEN {} ELSE {page[best]}
    BY <1>1, <1>2 DEF Ana!Usable
  <1>4. ASSUME fit # {} PROVE \E k \in fit : \A m \in fit : k <= m
    <2>1. fit \in SUBSET Nat
      BY <1>2
    <2> HIDE DEF fit
    <2> QED BY <1>4, <2>1, SmallestOf
  <1>5. ASSUME fit # {} PROVE page[best] \in Ana!Ids /\ stored[page[best]].status = "result"
    <2>1. best \in fit
      BY <1>4, <1>5
    <2> HIDE DEF best
    <2>2. best \in 1 .. Len(page) /\ stored[page[best]].status # "failed"
      BY <2>1
    <2>3. page[best] \in ids
      BY <1>2, <2>2
    <2>4. stored[page[best]] \in Ana!Row /\ stored[page[best]].status # "none"
      BY <1>1, <2>3 DEF AnaInv, AnalysisTypeOK, Ana!Exists
    <2> QED BY <1>1, <2>2, <2>3, <2>4 DEF Ana!Row
  <1> HIDE DEF fit, best
  <1> QED BY <1>3, <1>5

LEMMA EvidenceSound ==
    ASSUME AnaInv, NEW cites, cites # Ana!None => cites \in Ana!Ids /\ Ana!Exists(cites)
    PROVE  \A e \in Ana!Evidence(cites) : e \in Ana!Ids /\ stored[e].status = "result"
  <1> SUFFICES ASSUME NEW e \in Ana!Evidence(cites) PROVE e \in Ana!Ids /\ stored[e].status = "result"
    OBVIOUS
  <1>1. PICK source \in Ana!CITABLE :
          e \in IF cites # Ana!None /\ stored[cites].kind = source
                THEN IF stored[cites].status = "failed" THEN {} ELSE {cites}
                ELSE Ana!Usable(source)
    BY DEF Ana!Evidence
  <1>2. CASE e \in Ana!Usable(source)
    BY <1>2, UsableSound
  <1>3. CASE e = cites /\ cites # Ana!None /\ stored[cites].status # "failed"
    <2>1. stored[cites] \in Ana!Row /\ stored[cites].status # "none"
      BY <1>3 DEF AnaInv, AnalysisTypeOK, Ana!Exists
    <2> QED BY <1>3, <2>1 DEF Ana!Row
  <1> QED BY <1>1, <1>2, <1>3

LEMMA SubmittedKeeps ==
    ASSUME RowsOK, AnaInv, subject = "analyses", subject' = subject, NEW r \in Requests, Locks(r),
           NEW kind \in Ana!Kinds, NEW citable \in SUBSET (Ana!Ids \cup {Ana!None}),
           Ana!Submitted(r, kind, citable)
    PROVE  AnaInv'
  <1>1. PICK revision \in 0 .. head.current - 1, i \in Ana!Ids, cites \in citable :
          /\ ~Ana!Exists(i) /\ \A q \in Requests : analyzing[q].id # i
          /\ cites # Ana!None => Ana!Exists(cites)
          /\ Ana!Moved(r, [Ana!NoRequest EXCEPT !.pc = "asked", !.id = i, !.cites = cites,
                            !.row = [Ana!NoRow EXCEPT !.kind = kind, !.revision = revision]])
    BY DEF Ana!Submitted
  <1> DEFINE row == [Ana!NoRow EXCEPT !.kind = kind, !.revision = revision]
             a == [Ana!NoRequest EXCEPT !.pc = "asked", !.id = i, !.cites = cites, !.row = row]
  <1>2. revision \in Nat
    BY DEF RowsOK, HeadTypeOK
  <1>3. row \in Ana!Row /\ row.rests = {} /\ row.at = 0
    BY <1>2, NoRowType DEF Ana!NoRow, Ana!Row
  <1>4. analyzing' = [analyzing EXCEPT ![r] = a] /\ stored' = stored /\ now' = now /\ reader' = reader
    BY <1>1 DEF Ana!Moved
  <1> HIDE DEF row
  <1>5. a \in Ana!Request /\ a.pc = "asked" /\ a.id = i /\ a.cites = cites /\ a.row = row
    BY <1>3, NoRowType DEF Ana!NoRequest, Ana!Request
  <1> HIDE DEF a
  <1>6. Rests(a.row) /\ a.row.at <= now
    <2>1. now \in Nat
      BY AnaConstants DEF AnaInv, AnalysisTypeOK
    <2> QED BY <1>3, <1>5, <2>1 DEF Rests
  <1> QED BY <1>1, <1>3, <1>4, <1>5, <1>6, UnstoredKeeps

LEMMA RefuseKeepsAnalyses ==
    ASSUME RowsOK, AnaInv, subject = "analyses", subject' = subject, NEW r \in Requests, Locks(r),
           Ana!Refuse(r)
    PROVE  AnaInv'
  <1> DEFINE a == [Ana!NoRequest EXCEPT !.pc = "done"]
  <1>1. a \in Ana!Request
    BY NoRowType DEF Ana!Request
  <1>2. a.pc = "done" /\ a.row = Ana!NoRow /\ a.cites = Ana!None
    BY DEF Ana!NoRequest
  <1>3. analyzing' = [analyzing EXCEPT ![r] = a] /\ stored' = stored /\ now' = now /\ reader' = reader
    BY DEF Ana!Refuse, Ana!Answer
  <1> HIDE DEF a
  <1>4. Rests(a.row) /\ a.row.at <= now /\ a.row.rests = {}
    <2>1. now \in Nat
      BY AnaConstants DEF AnaInv, AnalysisTypeOK
    <2> QED BY <1>2, <2>1 DEF Rests, Ana!NoRow
  <1> QED BY <1>1, <1>2, <1>3, <1>4, UnstoredKeeps

LEMMA ReadKeepsAnalyses ==
    ASSUME RowsOK, AnaInv, subject = "analyses", subject' = subject, NEW r \in Requests, Locks(r),
           NEW rests \in SUBSET Ana!Ids, Ana!Read(r, TRUE, rests), analyzing[r].row.kind # "validation",
           \A e \in rests : /\ stored[e].status = "result"
                            /\ analyzing[r].row.kind = "cost" => stored[e].revision = Ana!Revision(r)
    PROVE  AnaInv'
  <1>1. /\ analyzing[r] \in Ana!Request /\ analyzing[r].row \in Ana!Row /\ analyzing[r].pc = "asked"
        /\ now \in 0 .. MaxTime
    BY DEF AnaInv, AnalysisTypeOK, Ana!Read, Ana!Request
  <1>2. PICK revision \in Nat : revision = Ana!Revision(r)
    <2>1. head.current \in Nat /\ analyzing[r].row.revision \in Nat
      BY <1>1 DEF RowsOK, HeadTypeOK, Ana!Row
    <2> QED BY <2>1 DEF Ana!Revision
  <1> DEFINE row == [analyzing[r].row EXCEPT !.revision = revision, !.at = now, !.rests = rests]
             a == [analyzing[r] EXCEPT !.pc = "read", !.row = row]
  <1>3. /\ row \in Ana!Row /\ row.kind = analyzing[r].row.kind /\ row.revision = revision
        /\ row.at = now /\ row.rests = rests
    BY <1>1, <1>2 DEF Ana!Row
  <1>4. analyzing' = [analyzing EXCEPT ![r] = a] /\ stored' = stored /\ now' = now /\ reader' = reader
    BY <1>2 DEF Ana!Read, Ana!Moved
  <1> HIDE DEF row
  <1>5. /\ a \in Ana!Request /\ a.pc = "read" /\ a.id = analyzing[r].id
        /\ a.cites = analyzing[r].cites /\ a.row = row
    BY <1>1, <1>3 DEF Ana!Request
  <1> HIDE DEF a
  <1>6. Rests(a.row) /\ a.row.at <= now
    <2>1. \A e \in rests : stored[e].at <= now
      BY DEF AnaInv
    <2>2. /\ a.row.rests = rests /\ a.row.at = now /\ a.row.kind = analyzing[r].row.kind
          /\ a.row.revision = Ana!Revision(r)
      BY <1>2, <1>3, <1>5
    <2>3. now <= now
      BY <1>1, AnaConstants
    <2>4. Rests(a.row)
      BY <2>1, <2>2 DEF Rests
    <2> QED BY <2>2, <2>3, <2>4
  <1>7. Analyzing(r)
    BY <1>1 DEF Analyzing
  <1>8. a.cites # Ana!None => Ana!Exists(a.cites)
    BY <1>5 DEF AnaInv, Grounded
  <1>9. a.row.kind # "validation"
    BY <1>3, <1>5
  <1> QED BY <1>4, <1>5, <1>6, <1>7, <1>8, <1>9, UnstoredKeeps

LEMMA CalculateKeeps ==
    ASSUME RowsOK, AnaInv, subject = "analyses", subject' = subject, NEW r \in Requests, Locks(r),
           Ana!Calculate(r)
    PROVE  AnaInv'
  <1>1. PICK outcome \in {"result", "failed"} :
          Ana!Moved(r, [analyzing[r] EXCEPT !.pc = "calculated", !.row.status = outcome])
    BY DEF Ana!Calculate
  <1>2. analyzing[r] \in Ana!Request /\ analyzing[r].row \in Ana!Row /\ analyzing[r].pc = "read"
    BY DEF AnaInv, AnalysisTypeOK, Ana!Calculate, Ana!Request
  <1> DEFINE row == [analyzing[r].row EXCEPT !.status = outcome]
             a == [analyzing[r] EXCEPT !.pc = "calculated", !.row = row]
  <1>3. /\ row \in Ana!Row /\ row.kind = analyzing[r].row.kind /\ row.revision = analyzing[r].row.revision
        /\ row.at = analyzing[r].row.at /\ row.rests = analyzing[r].row.rests
    BY <1>2 DEF Ana!Row
  <1>4. analyzing' = [analyzing EXCEPT ![r] = a] /\ stored' = stored /\ now' = now /\ reader' = reader
    BY <1>1, <1>2 DEF Ana!Moved, Ana!Request
  <1> HIDE DEF row
  <1>5. /\ a \in Ana!Request /\ a.pc = "calculated" /\ a.id = analyzing[r].id
        /\ a.cites = analyzing[r].cites /\ a.row = row
    BY <1>2, <1>3 DEF Ana!Request
  <1> HIDE DEF a
  <1>6. Rests(a.row) /\ a.row.at <= now
    BY <1>3, <1>5 DEF AnaInv, Grounded, Rests
  <1>7. Analyzing(r)
    BY <1>2 DEF Analyzing
  <1>8. /\ a.cites # Ana!None => Ana!Exists(a.cites)
        /\ a.row.kind = "validation" => a.row.rests = {}
    BY <1>3, <1>5 DEF AnaInv, Grounded
  <1> QED BY <1>4, <1>5, <1>6, <1>7, <1>8, UnstoredKeeps

LEMMA AdmitKeepsAnalyses ==
    ASSUME RowsOK, AnaInv, subject = "analyses", subject' = subject, NEW r \in Requests, Locks(r),
           NEW stage \in {"asked", "calculated"}, Ana!Admit(r, stage)
    PROVE  AnaInv'
  <1> DEFINE a == [analyzing[r] EXCEPT !.pc = "admitted"]
  <1>1. analyzing[r] \in Ana!Request /\ analyzing[r].pc = stage
    BY DEF AnaInv, AnalysisTypeOK, Ana!Admit
  <1>2. /\ a \in Ana!Request /\ a.pc = "admitted" /\ a.id = analyzing[r].id
        /\ a.cites = analyzing[r].cites /\ a.row = analyzing[r].row
    BY <1>1 DEF Ana!Request
  <1>3. analyzing' = [analyzing EXCEPT ![r] = a] /\ stored' = stored /\ now' = now /\ reader' = reader
    BY DEF Ana!Admit, Ana!Moved
  <1> HIDE DEF a
  <1>4. projectLock'[r] = "share" /\ Ana!Modifiable
    BY DEF Ana!Admit, Ana!Lock, RowsOK, HeadTypeOK, ProjectTypeOK
  <1>5. Analyzing(r)
    BY <1>1 DEF Analyzing
  <1>6. /\ Rests(a.row) /\ a.row.at <= now
        /\ a.cites # Ana!None => Ana!Exists(a.cites)
        /\ a.row.kind = "validation" => a.row.rests = {}
    BY <1>2 DEF AnaInv, Grounded, Rests
  <1> QED BY <1>2, <1>3, <1>4, <1>5, <1>6, UnstoredKeeps

LEMMA StoreKeepsAnalyses ==
    ASSUME RowsOK, AnaInv, subject = "analyses", subject' = subject, NEW r \in Requests, Ana!Store(r)
    PROVE  AnaInv'
  <1>1. PICK row \in Ana!Row : row = analyzing[r].row
    BY DEF AnaInv, AnalysisTypeOK, Ana!Request
  <1>2. Rests(row) /\ row.at <= now
    BY <1>1 DEF AnaInv, Grounded
  <1>3. /\ stored' = [stored EXCEPT ![analyzing[r].id] = row]
        /\ Ana!Answer(r) /\ Analyzing(r)
    BY <1>1 DEF Ana!Store, Analyzing
  <1> QED BY <1>2, <1>3, StoredKeeps

LEMMA ValidatedKeeps ==
    ASSUME RowsOK, AnaInv, subject = "analyses", subject' = subject, NEW r \in Requests,
           Ana!Validated(r), analyzing[r].row.kind = "validation"
    PROVE  AnaInv'
  <1>1. PICK outcome \in {"result", "failed"} :
          stored' = [stored EXCEPT ![analyzing[r].id] =
                       [analyzing[r].row EXCEPT !.revision = Ana!Revision(r), !.at = now, !.status = outcome]]
    BY DEF Ana!Validated
  <1>2. /\ analyzing[r].row \in Ana!Row /\ analyzing[r].row.rests = {} /\ now \in 0 .. MaxTime
    BY DEF AnaInv, AnalysisTypeOK, Grounded, Ana!Request
  <1>3. PICK revision \in Nat : revision = Ana!Revision(r)
    <2>1. head.current \in Nat /\ analyzing[r].row.revision \in Nat
      BY <1>2 DEF RowsOK, HeadTypeOK, Ana!Row
    <2> QED BY <2>1 DEF Ana!Revision
  <1> DEFINE row == [analyzing[r].row EXCEPT !.revision = revision, !.at = now, !.status = outcome]
  <1>4. row \in Ana!Row /\ row.rests = {} /\ row.at = now
    BY <1>2, <1>3 DEF Ana!Row
  <1>5. stored' = [stored EXCEPT ![analyzing[r].id] = row]
    BY <1>1, <1>3
  <1>6. PICK new \in Ana!Row : new = row
    BY <1>4
  <1> HIDE DEF row
  <1>7. Rests(new) /\ new.at <= now
    BY <1>2, <1>4, <1>6, AnaConstants DEF Rests
  <1>8. Ana!Answer(r) /\ Analyzing(r)
    BY DEF Ana!Validated, Analyzing
  <1> QED BY <1>5, <1>6, <1>7, <1>8, StoredKeeps

LEMMA AnalysisStepKeeps ==
    ASSUME RowsOK, AnaInv, subject = "analyses", subject' = subject, NEW r \in Requests, AnalysisStep(r)
    PROVE  AnaInv'
  <1>1. Locks(r)
    BY AnalysesLock
  <1>2. analyzing[r].cites \in Ana!Ids \cup {Ana!None}
    BY DEF AnaInv, AnalysisTypeOK, Ana!Request
  <1>3. CASE analyzing[r].row.kind # "validation" /\ Ana!Read(r, TRUE, {})
    <2>1. PICK rests \in SUBSET Ana!Ids : rests = {}
      OBVIOUS
    <2>2. Ana!Read(r, TRUE, rests)
      BY <1>3, <2>1
    <2> QED BY <1>1, <1>3, <2>1, <2>2, ReadKeepsAnalyses
  <1>4. CASE /\ analyzing[r].row.kind = "cost"
             /\ Ana!Read(r, Ana!BasisFits(r), {analyzing[r].cites} \ {Ana!None})
    <2>1. PICK rests \in SUBSET Ana!Ids : rests = {analyzing[r].cites} \ {Ana!None}
      BY <1>2
    <2>2. Ana!Read(r, TRUE, rests) /\ Ana!BasisFits(r)
      BY <1>4, <2>1 DEF Ana!Read
    <2>3. \A e \in rests : stored[e].status = "result" /\ stored[e].revision = Ana!Revision(r)
      BY <2>1, <2>2 DEF Ana!BasisFits
    <2> QED BY <1>1, <1>4, <2>2, <2>3, ReadKeepsAnalyses
  <1>5. CASE /\ analyzing[r].row.kind = "evolution"
             /\ Ana!Read(r, TRUE, Ana!Evidence(analyzing[r].cites))
    <2>1. PICK cites \in Ana!Ids \cup {Ana!None} : cites = analyzing[r].cites
      BY <1>2
    <2>2. cites # Ana!None => cites \in Ana!Ids /\ Ana!Exists(cites)
      BY <2>1 DEF AnaInv, Grounded
    <2>3. \A e \in Ana!Evidence(cites) : e \in Ana!Ids /\ stored[e].status = "result"
      BY <2>2, EvidenceSound
    <2>4. PICK rests \in SUBSET Ana!Ids : rests = Ana!Evidence(cites)
      BY <2>3
    <2>5. Ana!Read(r, TRUE, rests)
      BY <1>5, <2>1, <2>4
    <2> QED BY <1>1, <1>5, <2>3, <2>4, <2>5, ReadKeepsAnalyses
  <1>6. CASE \E kind \in Ana!Kinds, citable \in {{Ana!None}, Ana!Ids \cup {Ana!None}} :
               Ana!Submitted(r, kind, citable)
    BY <1>1, <1>6, SubmittedKeeps
  <1>7. CASE Ana!Refuse(r)
    BY <1>1, <1>7, RefuseKeepsAnalyses
  <1>8. CASE Ana!Calculate(r)
    BY <1>1, <1>8, CalculateKeeps
  <1>9. CASE \E stage \in {"asked", "calculated"} : Ana!Admit(r, stage)
    BY <1>1, <1>9, AdmitKeepsAnalyses
  <1>10. CASE Ana!Store(r) \/ (analyzing[r].row.kind = "validation" /\ Ana!Validated(r))
    BY <1>10, StoreKeepsAnalyses, ValidatedKeeps
  <1> QED BY <1>3, <1>4, <1>5, <1>6, <1>7, <1>8, <1>9, <1>10 DEF AnalysisStep

----------------------------------------------------------------------------
(* Analyses: the reader. *)

LEMMA Concatenated ==
    ASSUME NEW S, NEW s \in Seq(S), NEW t \in Seq(S)
    PROVE  /\ s \o t \in Seq(S) /\ Len(s \o t) = Len(s) + Len(t)
           /\ \A k \in 1 .. Len(s) : (s \o t)[k] = s[k]
           /\ \A k \in 1 .. Len(t) : (s \o t)[Len(s) + k] = t[k]
  OBVIOUS

LEMMA Prefix ==
    ASSUME NEW S, NEW s \in Seq(S), NEW m \in 0 .. Len(s)
    PROVE  /\ SubSeq(s, 1, m) \in Seq(S) /\ Len(SubSeq(s, 1, m)) = m
           /\ \A k \in 1 .. m : SubSeq(s, 1, m)[k] = s[k]
  OBVIOUS

LEMMA StartReadingKeeps ==
    ASSUME AnaInv, Ana!StartReading
    PROVE  ReaderSound' /\ reader' \in Ana!Reader
  <1>1. /\ reader \in Ana!Reader /\ reader.pc = "idle"
        /\ reader.seen = <<>> /\ reader.after = <<>>
    BY DEF AnaInv, AnalysisTypeOK, ReaderSound, Ana!StartReading
  <1>2. PICK due \in SUBSET Ana!Ids : due = {i \in Ana!Ids : Ana!Exists(i)}
    OBVIOUS
  <1>3. reader' = [reader EXCEPT !.pc = "reading", !.due = due] /\ stored' = stored
    BY <1>2 DEF Ana!StartReading, Ana!Reading
  <1>4. /\ reader' \in Ana!Reader /\ reader'.pc = "reading" /\ reader'.seen = <<>>
        /\ reader'.after = <<>> /\ reader'.due = due
    BY <1>1, <1>3 DEF Ana!Reader
  <1>5. SeenIds' = {} /\ 1 .. Len(reader'.seen) = {}
    BY <1>4 DEF SeenIds
  <1> QED BY <1>2, <1>3, <1>4, <1>5 DEF ReaderSound, Descending, Ana!Exists

LEMMA ReadPageKeeps ==
    ASSUME AnaInv, Ana!ReadPage
    PROVE  ReaderSound' /\ reader' \in Ana!Reader
  <1>1. PICK ids \in SUBSET Ana!Ids :
          ids = {i \in Ana!Ids : Ana!Exists(i) /\ (reader.after = <<>> \/ Ana!Older(i, reader.after))}
    OBVIOUS
  <1>2. PICK rows \in Seq(ids) :
          /\ rows = Ana!Page(reader.after, PageSize + 1)
          /\ Descending(rows)
          /\ \A i \in ids : Len(rows) < PageSize + 1 => \E k \in 1 .. Len(rows) : rows[k] = i
          /\ \A i \in ids : \A m \in 1 .. Len(rows) :
               (\E k \in 1 .. m : rows[k] = i) \/ Ana!Before(i, rows[m])
    <2>1. PICK limit \in Nat : limit = PageSize + 1
      BY AnaConstants
    <2>2. Ana!Page(reader.after, PageSize + 1) = Ana!NewestOf(ids, limit)
      BY <1>1, <2>1 DEF Ana!Page
    <2>3. AnalysisTypeOK
      BY DEF AnaInv
    <2>4. LET page == Ana!NewestOf(ids, limit) IN
           /\ page \in Seq(ids) /\ Len(page) = Least(Cardinality(ids), limit)
           /\ Descending(page)
           /\ \A i \in ids : Len(page) < limit => \E k \in 1 .. Len(page) : page[k] = i
           /\ \A i \in ids : \A m \in 1 .. Len(page) :
                (\E k \in 1 .. m : page[k] = i) \/ Ana!Before(i, page[m])
      BY <2>3, NewestSound
    <2> QED BY <2>1, <2>2, <2>4
  <1>3. PICK seen \in Seq(Ana!Ids) : seen = reader.seen
    BY DEF AnaInv, AnalysisTypeOK, Ana!Reader
  <1> DEFINE more == Len(rows) > PageSize
             m == IF more THEN PageSize ELSE Len(rows)
             items == SubSeq(rows, 1, m)
             new == seen \o items
  <1>4. /\ m \in 0 .. Len(rows) /\ m \in Nat
        /\ more => m = PageSize /\ m \in 1 .. Len(rows)
        /\ ~more => m = Len(rows) /\ Len(rows) < PageSize + 1
    BY <1>2, AnaConstants
  <1>5. items \in Seq(ids) /\ Len(items) = m /\ \A k \in 1 .. m : items[k] = rows[k]
    <2> HIDE DEF m
    <2> QED BY <1>4, Prefix
  <1> DEFINE cursor == IF more THEN <<stored[items[m]].at, items[m]>> ELSE <<>>
             pc == IF more THEN "reading" ELSE "done"
  <1>6. /\ reader.pc = "reading" /\ stored' = stored
        /\ reader' = [reader EXCEPT !.seen = new, !.pc = pc, !.after = cursor]
    BY <1>2, <1>3, <1>5 DEF Ana!ReadPage, Ana!Reading
  <1> HIDE DEF m, items
  <1>7. /\ new \in Seq(Ana!Ids) /\ Len(new) = Len(seen) + m
        /\ \A k \in 1 .. Len(seen) : new[k] = seen[k]
        /\ \A k \in 1 .. m : new[Len(seen) + k] = items[k]
    <2>1. items \in Seq(Ana!Ids)
      BY <1>5
    <2>2. PICK t \in Seq(Ana!Ids) : t = items
      BY <2>1
    <2>3. /\ seen \o t \in Seq(Ana!Ids) /\ Len(seen \o t) = Len(seen) + Len(t)
          /\ \A k \in 1 .. Len(seen) : (seen \o t)[k] = seen[k]
          /\ \A k \in 1 .. Len(t) : (seen \o t)[Len(seen) + k] = t[k]
      BY Concatenated
    <2> QED BY <1>5, <2>2, <2>3, Zenon
  <1>8. \A k \in 1 .. m : items[k] \in ids
    BY <1>5
  <1>9. /\ cursor \in (0 .. MaxTime) \X Ana!Ids \cup {<<>>} /\ pc \in {"reading", "done"}
        /\ more => cursor = <<stored[items[m]].at, items[m]>> /\ cursor # <<>>
        /\ ~more => cursor = <<>>
    <2>1. more => items[m] \in Ana!Ids
      BY <1>4, <1>8
    <2>2. more => stored[items[m]].at \in 0 .. MaxTime
      BY <2>1 DEF AnaInv, AnalysisTypeOK, Ana!Row
    <2> QED BY <2>1, <2>2
  <1> HIDE DEF cursor, new
  <1>10. /\ reader' \in Ana!Reader /\ reader'.seen = new /\ reader'.after = cursor
         /\ reader'.due = reader.due /\ reader'.pc = pc
    BY <1>6, <1>7, <1>9 DEF AnaInv, AnalysisTypeOK, Ana!Reader
  <1>11. SeenIds' = SeenIds \cup {items[k] : k \in 1 .. m}
    <2>1. SeenIds' = {new[k] : k \in 1 .. Len(new)}
      BY <1>10 DEF SeenIds
    <2>2. SeenIds = {seen[k] : k \in 1 .. Len(seen)}
      BY <1>3 DEF SeenIds
    <2>3. \A k \in 1 .. Len(new) : k \in 1 .. Len(seen) \/ \E l \in 1 .. m : k = Len(seen) + l
      <3> TAKE k \in 1 .. Len(new)
      <3>1. k \in 1 .. Len(seen) \/ k - Len(seen) \in 1 .. m
        BY <1>4, <1>7
      <3> QED BY <1>4, <3>1
    <2>4. /\ \A k \in 1 .. Len(seen) : k \in 1 .. Len(new)
          /\ \A k \in 1 .. m : Len(seen) + k \in 1 .. Len(new)
      BY <1>4, <1>7
    <2>5. \A x \in SeenIds' : x \in SeenIds \cup {items[k] : k \in 1 .. m}
      <3> TAKE x \in SeenIds'
      <3>1. PICK k \in 1 .. Len(new) : x = new[k]
        BY <2>1
      <3>2. CASE k \in 1 .. Len(seen)
        BY <1>7, <2>2, <3>1, <3>2
      <3>3. CASE \E l \in 1 .. m : k = Len(seen) + l
        BY <1>7, <3>1, <3>3
      <3> QED BY <2>3, <3>2, <3>3
    <2>6. \A x \in SeenIds \cup {items[k] : k \in 1 .. m} : x \in SeenIds'
      BY <1>7, <2>1, <2>2, <2>4
    <2> QED BY <2>5, <2>6
  <1>12. \A i \in SeenIds' \cup reader'.due : Ana!Exists(i)'
    BY <1>1, <1>6, <1>8, <1>10, <1>11 DEF AnaInv, ReaderSound, Ana!Exists
  <1>13. Descending(new)
    <2> SUFFICES ASSUME NEW a \in 1 .. Len(new), NEW b \in 1 .. Len(new), a < b
                 PROVE  Ana!Before(new[b], new[a])
      BY DEF Descending
    <2>1. Len(seen) \in Nat
      OBVIOUS
    <2>2. CASE b <= Len(seen)
      <3>1. a \in 1 .. Len(seen) /\ b \in 1 .. Len(seen)
        BY <1>4, <1>7, <2>1, <2>2
      <3> QED BY <1>3, <1>7, <3>1 DEF AnaInv, ReaderSound, Descending
    <2>3. CASE a > Len(seen)
      <3>1. PICK k \in 1 .. m, l \in 1 .. m : a = Len(seen) + k /\ b = Len(seen) + l /\ k < l
        <4>1. a - Len(seen) \in 1 .. m /\ b - Len(seen) \in 1 .. m
          BY <1>4, <1>7, <2>1, <2>3
        <4> QED BY <4>1, <2>1
      <3>2. new[a] = rows[k] /\ new[b] = rows[l] /\ k \in 1 .. Len(rows) /\ l \in 1 .. Len(rows)
        BY <1>4, <1>5, <1>7, <3>1
      <3> QED BY <1>2, <3>1, <3>2 DEF Descending
    <2>4. CASE a <= Len(seen) /\ b > Len(seen)
      <3>1. PICK l \in 1 .. m : b = Len(seen) + l
        <4>1. b - Len(seen) \in 1 .. m
          BY <1>4, <1>7, <2>1, <2>4
        <4> QED BY <4>1, <2>1
      <3>2. PICK x \in ids : x = items[l] /\ new[b] = x
        BY <1>7, <1>8, <3>1
      <3>3. a \in 1 .. Len(seen) /\ Len(seen) \in 1 .. Len(seen) /\ seen # <<>>
        BY <1>4, <1>7, <2>1, <2>4
      <3>4. PICK y \in Ana!Ids, last \in Ana!Ids : y = seen[a] /\ new[a] = y /\ last = seen[Len(seen)]
        BY <1>7, <3>3
      <3>5. reader.after = <<stored[last].at, last>> /\ reader.after # <<>>
        BY <1>3, <1>6, <3>3, <3>4 DEF AnaInv, ReaderSound
      <3>6. Ana!Before(x, last)
        BY <1>1, <3>5 DEF Ana!Older, Ana!Before
      <3>7. last = y \/ Ana!Before(last, y)
        BY <1>3, <3>3, <3>4 DEF AnaInv, ReaderSound, Descending
      <3> QED BY <3>2, <3>4, <3>6, <3>7, Ordered DEF AnaInv
    <2> QED BY <1>4, <1>7, <2>1, <2>2, <2>3, <2>4
  <1>14. Descending(reader.seen)'
    BY <1>6, <1>10, <1>13 DEF Descending, Ana!Before
  <1>15. \A i \in reader.due : i \in SeenIds \/ i \in ids
    BY <1>1, <1>6 DEF AnaInv, AnalysisTypeOK, Ana!Reader, ReaderSound
  <1>16. CASE ~more
    <2>1. \A i \in ids : \E k \in 1 .. m : items[k] = i
      BY <1>2, <1>4, <1>5, <1>16
    <2>2. reader'.due \subseteq SeenIds'
      BY <1>10, <1>11, <1>15, <2>1
    <2>3. reader'.pc = "done"
      BY <1>10, <1>16
    <2> QED BY <1>10, <1>12, <1>14, <2>2, <2>3 DEF ReaderSound
  <1>17. CASE more
    <2>1. reader'.pc = "reading"
      BY <1>10, <1>17
    <2>2. Len(new) \in 1 .. Len(new) /\ new # <<>> /\ new[Len(new)] = items[m]
      BY <1>4, <1>7, <1>17
    <2>3. \A i \in ids : (\E k \in 1 .. m : items[k] = i) \/ Ana!Older(i, cursor)
      <3> SUFFICES ASSUME NEW i \in ids PROVE (\E k \in 1 .. m : items[k] = i) \/ Ana!Older(i, cursor)
        OBVIOUS
      <3>1. (\E k \in 1 .. m : rows[k] = i) \/ Ana!Before(i, rows[m])
        BY <1>2, <1>4, <1>17
      <3>2. rows[m] = items[m]
        BY <1>4, <1>5, <1>17
      <3> QED BY <1>5, <1>9, <1>17, <3>1, <3>2 DEF Ana!Before, Ana!Older
    <2>4. \A i \in reader'.due : i \in SeenIds' \/ Ana!Older(i, cursor)
      BY <1>10, <1>11, <1>15, <2>3
    <2>5. \A i \in reader'.due : i \in SeenIds' \/ reader'.after = <<>> \/ Ana!Older(i, reader.after)'
      BY <1>6, <1>10, <2>4 DEF Ana!Older
    <2> QED BY <1>6, <1>9, <1>10, <1>12, <1>14, <1>17, <2>1, <2>2, <2>5 DEF ReaderSound
  <1> QED BY <1>10, <1>16, <1>17

(* A step of the reader or of the clock. *)
LEMMA ReaderKeeps ==
    ASSUME RowsOK, AnaInv, subject' = subject, UNCHANGED headVars, Ana!StartReading \/ Ana!ReadPage
    PROVE  AnaInv'
  <1>1. ReaderSound' /\ reader' \in Ana!Reader
    BY StartReadingKeeps, ReadPageKeeps
  <1>2. stored' = stored /\ now' = now /\ analyzing' = analyzing /\ UNCHANGED <<project, projectLock>>
    BY DEF Ana!StartReading, Ana!ReadPage, Ana!Reading, headVars
  <1>3. AnalysisTypeOK'
    BY <1>1, <1>2 DEF AnaInv, AnalysisTypeOK
  <1>4. AnalysesApart' /\ HoldsActive'
    BY <1>2 DEF AnaInv, AnalysesApart, Analyzing, HoldsActive, Ana!Exists, Ana!Modifiable
  <1>5. \A r \in Requests : Grounded(r)'
    BY <1>2 DEF AnaInv, Grounded, Rests, Ana!Exists
  <1>6. \A i \in Ana!Ids : (Ana!Exists(i) => Rests(stored[i]))' /\ stored'[i].at <= now'
    BY <1>2 DEF AnaInv, Rests, Ana!Exists
  <1> QED BY <1>1, <1>3, <1>4, <1>5, <1>6 DEF AnaInv

(* The rows move below the analyses: a project that a store transaction    *)
(* holds stays active.                                                     *)
LEMMA OthersKeepAnalyses ==
    ASSUME RowsOK, AnaInv, subject' = subject, stored' = stored, analyzing' = analyzing, reader' = reader,
           now' \in 0 .. MaxTime, now' >= now, HoldsActive'
    PROVE  AnaInv'
  <1>1. StoredGrows
    BY DEF StoredGrows
  <1>2. ReaderSound'
    BY <1>1, ReaderStays
  <1>3. AnalysisTypeOK' /\ AnalysesApart'
    BY DEF AnaInv, AnalysisTypeOK, AnalysesApart, Analyzing, Ana!Exists
  <1>4. now \in Nat /\ now' \in Nat
    BY AnaConstants DEF AnaInv, AnalysisTypeOK
  <1>5. \A r \in Requests : Grounded(r)'
    <2> SUFFICES ASSUME NEW r \in Requests PROVE Grounded(r)'
      OBVIOUS
    <2>1. analyzing[r].row.at \in Nat
      BY AnaConstants DEF AnaInv, AnalysisTypeOK, Ana!Request, Ana!Row
    <2>2. analyzing[r].row.at <= now'
      BY <1>4, <2>1 DEF AnaInv, Grounded
    <2> QED BY <2>2 DEF AnaInv, Grounded, Rests, Ana!Exists
  <1>6. \A i \in Ana!Ids : (Ana!Exists(i) => Rests(stored[i]))' /\ stored'[i].at <= now'
    <2> SUFFICES ASSUME NEW i \in Ana!Ids
                 PROVE  (Ana!Exists(i) => Rests(stored[i]))' /\ stored'[i].at <= now'
      OBVIOUS
    <2>1. stored[i].at <= now'
      BY <1>4, RowFields DEF AnaInv
    <2> QED BY <2>1 DEF AnaInv, Rests, Ana!Exists
  <1> QED BY <1>2, <1>3, <1>5, <1>6 DEF AnaInv

LEMMA AnaInvNext == RowsOK /\ AnaInv /\ [Next]_vars => AnaInv'
  <1> SUFFICES ASSUME RowsOK, AnaInv, [Next]_vars PROVE AnaInv'
    OBVIOUS
  <1>1. subject' = subject
    BY NextCases
  <1>2. now \in 0 .. MaxTime /\ now >= now
    BY AnaConstants DEF AnaInv, AnalysisTypeOK
  <1>3. CASE subject = "analyses" /\ Ana!Work
    <2>1. CASE Ana!StartReading \/ Ana!ReadPage
      <3>1. UNCHANGED headVars
        BY <2>1 DEF Ana!StartReading, Ana!ReadPage, Ana!Reading, Ana!headVars, headVars
      <3> QED BY <1>1, <2>1, <3>1, ReaderKeeps
    <2>2. CASE Ana!Tick
      <3>1. /\ stored' = stored /\ analyzing' = analyzing /\ reader' = reader
            /\ UNCHANGED <<project, projectLock>> /\ now' = now + 1 /\ now < MaxTime
        BY <2>2 DEF Ana!Tick, Ana!headVars
      <3>2. now' \in 0 .. MaxTime /\ now' >= now
        BY <1>2, <3>1, AnaConstants
      <3>3. HoldsActive'
        BY <1>1, <3>1 DEF AnaInv, HoldsActive, Ana!Modifiable
      <3> QED BY <1>1, <3>1, <3>2, <3>3, OthersKeepAnalyses
    <2>3. CASE \E r \in Requests : Ana!Ask(r) \/ Ana!Step(r)
      BY <1>1, <1>3, <2>3, AnalysisSteps, AnalysisStepKeeps
    <2> QED BY <1>3, <2>1, <2>2, <2>3 DEF Ana!Work
  <1>4. CASE UNCHANGED analysisVars /\ subject # "analyses"
    <2>1. HoldsActive'
      BY <1>1, <1>4 DEF analysisVars, AnaInv, HoldsActive
    <2> QED BY <1>1, <1>2, <1>4, <2>1, OthersKeepAnalyses DEF analysisVars
  <1>5. CASE UNCHANGED analysisVars /\ HeadStep
    <2>1. projectLock' = projectLock /\ (project' # project => \A q \in Requests : projectLock[q] = "none")
      BY <1>5, HeadStepKeeps DEF RowsOK
    <2>2. HoldsActive'
      BY <1>1, <1>5, <2>1 DEF analysisVars, AnaInv, HoldsActive, Ana!Modifiable
    <2> QED BY <1>1, <1>2, <1>5, <2>2, OthersKeepAnalyses DEF analysisVars
  <1>6. CASE UNCHANGED vars
    <2>1. UNCHANGED analysisVars /\ UNCHANGED <<project, projectLock>>
      BY <1>6 DEF vars, headVars
    <2>2. HoldsActive'
      BY <1>1, <2>1 DEF analysisVars, AnaInv, HoldsActive, Ana!Modifiable
    <2> QED BY <1>1, <1>2, <2>1, <2>2, OthersKeepAnalyses DEF analysisVars
  <1> QED BY <1>3, <1>4, <1>5, <1>6 DEF Next

LEMMA AnaInvInit == Init => AnaInv
  <1> SUFFICES ASSUME Init PROVE AnaInv
    OBVIOUS
  <1>1. /\ stored \in Ana!Starts /\ now = 0 /\ analyzing = [r \in Requests |-> Ana!NoRequest]
        /\ reader = [pc |-> "idle", due |-> {}, seen |-> <<>>, after |-> <<>>]
    BY DEF Init, Ana!Init
  <1>2. PICK status \in [1 .. Found -> {"result", "failed"}] :
          stored = [i \in Ana!Ids |-> IF i <= Found
                                      THEN [Ana!NoRow EXCEPT !.status = status[i], !.revision = 1]
                                      ELSE Ana!NoRow]
    BY <1>1 DEF Ana!Starts
  <1>3. PICK none \in Ana!Row : none = Ana!NoRow /\ none.at = 0 /\ none.rests = {}
    BY NoRowType DEF Ana!NoRow
  <1>4. \A i \in Ana!Ids : stored[i] \in Ana!Row /\ stored[i].at = 0 /\ stored[i].rests = {}
    <2> TAKE i \in Ana!Ids
    <2>1. CASE i <= Found
      <3>1. i \in 1 .. Found
        BY <2>1, AnaConstants
      <3>2. PICK s \in {"result", "failed"} : s = status[i]
        BY <3>1
      <3>3. stored[i] = [none EXCEPT !.status = s, !.revision = 1]
        BY <1>2, <1>3, <2>1, <3>2
      <3>4. [none EXCEPT !.status = s, !.revision = 1] \in Ana!Row
        BY DEF Ana!Row
      <3>5. /\ [none EXCEPT !.status = s, !.revision = 1].at = none.at
            /\ [none EXCEPT !.status = s, !.revision = 1].rests = none.rests
        BY DEF Ana!Row
      <3> QED BY <1>3, <3>3, <3>4, <3>5
    <2>2. CASE ~(i <= Found)
      BY <1>2, <1>3, <2>2
    <2> QED BY <2>1, <2>2
  <1>5. stored \in [Ana!Ids -> Ana!Row]
    <2>1. DOMAIN stored = Ana!Ids /\ stored = [i \in Ana!Ids |-> stored[i]]
      BY <1>2
    <2> QED BY <1>4, <2>1
  <1>6. reader \in Ana!Reader /\ reader.seen = <<>> /\ reader.pc = "idle" /\ reader.due = {} /\ reader.after = <<>>
    BY <1>1 DEF Ana!Reader
  <1>7. \A r \in Requests : /\ analyzing[r].pc = "idle" /\ analyzing[r].row = Ana!NoRow
                            /\ analyzing[r].cites = Ana!None
    BY <1>1 DEF Ana!NoRequest
  <1>8. now \in 0 .. MaxTime /\ now = 0
    BY <1>1, AnaConstants
  <1>9. AnalysisTypeOK
    BY <1>1, <1>5, <1>6, <1>8, NoRowType DEF AnalysisTypeOK
  <1>10. \A i \in Ana!Ids : (Ana!Exists(i) => Rests(stored[i])) /\ stored[i].at <= now
    BY <1>4, <1>8 DEF Rests
  <1>11. AnalysesApart /\ HoldsActive
    BY <1>7 DEF AnalysesApart, Analyzing, HoldsActive
  <1>12. \A r \in Requests : Grounded(r)
    <2>1. \A r \in Requests : analyzing[r].row = none
      BY <1>3, <1>7
    <2>2. now >= 0
      BY <1>8
    <2>3. \A r \in Requests : /\ analyzing[r].row.rests = {} /\ analyzing[r].row.at <= now
                              /\ analyzing[r].cites = Ana!None
      BY <1>3, <1>7, <1>8, <2>1, <2>2
    <2> QED BY <2>3 DEF Grounded, Rests
  <1>13. ReaderSound
    <2>1. SeenIds = {} /\ 1 .. Len(reader.seen) = {}
      BY <1>6 DEF SeenIds
    <2> QED BY <1>6, <2>1 DEF ReaderSound, Descending
  <1> QED BY <1>9, <1>10, <1>11, <1>12, <1>13 DEF AnaInv

LEMMA AnaInvariance == Spec => []AnaInv
  BY AnaInvInit, AnaInvNext, RowsInvariance, PTL DEF Spec

----------------------------------------------------------------------------
(* Theorems. *)

(* The tables stay well-formed, ADR numbers have neither gaps nor          *)
(* duplicates, and every decision is one a sequence of verdicts can        *)
(* produce, although a verdict writes back a record it read without a lock *)
(* (draft, accept, reject, supersede and link_revision of DecisionService).*)
THEOREM DecisionsSoundHolds == Spec => []DecisionsSound
  <1>1. RowsOK /\ DecInv /\ PlanInv /\ AnaInv => DecisionsSound
    <2> SUFFICES ASSUME RowsOK, DecInv, PlanInv, AnaInv PROVE DecisionsSound
      OBVIOUS
    <2>1. Dec!HeadTypeOK /\ Plan!HeadTypeOK /\ Ana!HeadTypeOK
      BY DEF RowsOK, HeadTypeOK, Dec!HeadTypeOK, Plan!HeadTypeOK, Ana!HeadTypeOK, ProjectTypeOK,
             Dec!ProjectTypeOK, Plan!ProjectTypeOK, Ana!ProjectTypeOK, ProjectStatus, LockModes,
             Dec!ProjectStatus, Plan!ProjectStatus, Ana!ProjectStatus, Dec!LockModes, Plan!LockModes,
             Ana!LockModes
    <2>2. Dec!TypeOK /\ Plan!TypeOK /\ Ana!TypeOK
      BY <2>1 DEF Dec!TypeOK, Plan!TypeOK, Ana!TypeOK, DecInv, DecisionTypeOK, PlanInv, PlanTypeOK,
                  AnaInv, AnalysisTypeOK
    <2>3. TypeOK
      BY <2>2 DEF TypeOK, RowsOK
    <2>4. Dec!RecordsLegal
      BY Zenon DEF DecInv, Legal, Dec!RecordsLegal
    <2> QED BY <2>3, <2>4 DEF DecisionsSound, DecInv
  <1> QED BY <1>1, RowsInvariance, DecInvariance, PlanInvariance, AnaInvariance, PTL

(* What a stored analysis rests on is stored, has a result and is none     *)
(* newer than the request, and the basis of a cost is of the priced        *)
(* revision, although it was read two transactions before the analysis     *)
(* was stored (CapacityBasis and _evidence of the analysis services).      *)
THEOREM EvidenceHoldsAlways == Spec => []EvidenceHolds
  <1>1. AnaInv => EvidenceHolds
    BY DEF AnaInv, Rests, EvidenceHolds, Ana!EvidenceHolds
  <1> QED BY <1>1, AnaInvariance, PTL

(* A reader that walks the pages to the end sees no analysis twice and     *)
(* misses none that was stored when it started, for every page size and    *)
(* whatever is stored while it reads (list_for_architecture and its        *)
(* cursor).                                                                *)
THEOREM ListingExactHolds == Spec => []ListingExact
  <1>1. AnaInv => ListingExact
    BY DEF AnaInv, ReaderSound, Descending, SeenIds, ListingExact, Ana!ListingExact
  <1> QED BY <1>1, AnaInvariance, PTL

(* Nothing is stored under a project that is archived by then, and a       *)
(* stored analysis never changes (the store transactions of the analysis   *)
(* services, under ProjectLock.SHARE).                                     *)
THEOREM StoredWhileActiveHolds == Spec => StoredWhileActive
  <1>1. AnaInv /\ [Next]_vars =>
          [/\ stored' # stored => Ana!Modifiable
           /\ \A i \in Ana!Ids : Ana!Exists(i) => stored'[i] = stored[i]]_Ana!vars
    <2> SUFFICES ASSUME AnaInv, [Next]_vars, stored' # stored
                 PROVE  Ana!Modifiable /\ \A i \in Ana!Ids : Ana!Exists(i) => stored'[i] = stored[i]
      OBVIOUS
    <2>1. Ana!Work
      BY DEF Next, vars, analysisVars
    <2>2. PICK r \in Requests : AnalysisStep(r)
      <3>1. ~Ana!StartReading /\ ~Ana!ReadPage /\ ~Ana!Tick
        BY DEF Ana!StartReading, Ana!ReadPage, Ana!Reading, Ana!Tick
      <3> QED BY <2>1, <3>1, AnalysisSteps DEF Ana!Work
    <2>3. Ana!Store(r) \/ Ana!Validated(r)
      BY <2>2 DEF AnalysisStep, Ana!Submitted, Ana!Moved, Ana!Refuse, Ana!Read, Ana!Calculate, Ana!Admit
    <2>4. analyzing[r].pc = "admitted" /\ \E row : stored' = [stored EXCEPT ![analyzing[r].id] = row]
      BY <2>3 DEF Ana!Store, Ana!Validated
    <2>5. ~Ana!Exists(analyzing[r].id)
      BY <2>4 DEF AnaInv, AnalysesApart, Analyzing
    <2>6. \A i \in Ana!Ids : Ana!Exists(i) => stored'[i] = stored[i]
      BY <2>4, <2>5 DEF AnaInv, AnalysisTypeOK
    <2> QED BY <2>4, <2>6 DEF AnaInv, HoldsActive
  <1> QED BY <1>1, AnaInvariance, PTL DEF StoredWhileActive, Ana!StoredWhileActive, Spec
=============================================================================
