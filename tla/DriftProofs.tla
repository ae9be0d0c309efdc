----------------------------- MODULE DriftProofs -----------------------------
(* Theorems about Drift and Discovery, for every set of requests, runs,    *)
(* candidates, keys and artifacts and every bound.                         *)
EXTENDS Drift, TLAPS

----------------------------------------------------------------------------
(* The inductive invariant. *)

(* A request is about runs or about drift, never both. *)
Apart == \A r \in Requests : ask[r].pc = "idle" \/ work[r].pc = "idle"

(* A run that is being made has an identifier of its own and no row yet. *)
Making(r) == ask[r].op = "run" /\ ask[r].pc \in {"asked", "computed", "admitted"}

(* The run a request read under its row lock is still the run, and what it *)
(* accepts is the proposal under the decisions it found.                   *)
RunSound(r) ==
    /\ ask[r].pc \notin {"idle", "done"} => ask[r].run \in RunIds
    /\ Making(r) => ~Exists(ask[r].run)
    /\ ask[r].pc = "locked" => /\ runLock[ask[r].run] = r
                               /\ ask[r].row = run[ask[r].run]
                               /\ Exists(ask[r].run)
    /\ ask[r].op = "accept" /\ ask[r].pc \in {"proposed", "admitted", "based", "locked"} =>
         ask[r].content = Proposed(ask[r].found)

MadeApart ==
    \A r, q \in Requests : r # q /\ Making(r) /\ Making(q) => ask[r].run # ask[q].run

NoneIsEmpty == \A i \in RunIds : ~Exists(i) => run[i] = NoRow

RunsInv ==
    /\ RunsTypeOK
    /\ \A r \in Requests : RunSound(r)
    /\ MadeApart
    /\ NoneIsEmpty

(* The items a request read under their locks are still the items: an      *)
(* analysis sees all of them, those that do not exist yet included, as it  *)
(* holds the architecture; a review sees its own.                          *)
WorkSound(r) ==
    /\ work[r].op = "analyze" /\ work[r].pc \notin {"idle", "done"} => work[r].run \in RunIds
    /\ work[r].op = "analyze" /\ work[r].pc \in {"held", "added", "locked"} => headLock = r
    /\ work[r].op = "analyze" /\ work[r].pc = "locked" =>
         \A k \in Keys : /\ work[r].seen[k] = item[k]
                         /\ item[k].first # 0 => itemLock[k] = r
    /\ work[r].op = "review" /\ work[r].pc \notin {"idle", "done"} =>
         work[r].key \in Keys /\ item[work[r].key].first # 0
    /\ work[r].op = "review" /\ work[r].pc = "locked" =>
         /\ work[r].seen[work[r].key] = item[work[r].key]
         /\ itemLock[work[r].key] = r

(* ItemsSound, for one item and one list of analyses. *)
DetectedBy(k, list) == {n \in 1 .. Len(list) : list[n].compared /\ k \in list[n].found}
Detections(h) == {h[e].analysis : e \in {e \in 1 .. Len(h) : h[e].action = "detected"}}
Follows(it, k, list) ==
    /\ Detections(it.history) = DetectedBy(k, list)
    /\ DetectedBy(k, list) = {} => it = NoItem
    /\ DetectedBy(k, list) # {} =>
         /\ it.first \in DetectedBy(k, list)
         /\ \A n \in DetectedBy(k, list) : it.first <= n
         /\ it.last \in DetectedBy(k, list)
         /\ \A n \in DetectedBy(k, list) : n <= it.last
         /\ it.artifacts = UNION {list[n].from : n \in DetectedBy(k, list)}
Continues(h, e) ==
    IF h[e].action = "detected"
    THEN h[e].status = IF h[e - 1].status = "resolved" THEN "reopened" ELSE h[e - 1].status
    ELSE /\ h[e - 1].status \in AppliesTo(h[e].action)
         /\ h[e].status = LeadsTo(h[e].action, h[e - 1].status)
Tells(it) ==
    /\ it.history # <<>> => /\ it.history[1].action = "detected"
                            /\ it.history[Len(it.history)].status = it.status
    /\ \A e \in 2 .. Len(it.history) : Continues(it.history, e)

WorkTypeOK ==
    /\ analyses \in Seq(Analysis)
    /\ item \in [Keys -> Item]
    /\ itemLock \in [Keys -> Requests \cup {Nobody}]
    /\ work \in [Requests -> Work]

ItemsInv == \A k \in Keys : Follows(item[k], k, analyses) /\ Tells(item[k])

IInv ==
    /\ RunsInv
    /\ Apart
    /\ WorkTypeOK
    /\ \A r \in Requests : WorkSound(r)
    /\ ItemsInv

----------------------------------------------------------------------------
(* Items. *)

LEMMA NoItemType == NoItem \in Item
  BY DEF NoItem, Item, ReviewStatus

LEMMA DetectionType ==
    ASSUME NEW list \in Seq(Analysis), NEW k
    PROVE  DetectedBy(k, list) \subseteq Nat \ {0}
  BY DEF DetectedBy

LEMMA HappenedFields ==
    ASSUME NEW it \in Item, NEW action \in ReviewActions \cup {"detected"},
           NEW status \in ReviewStatus, NEW n \in Nat
    PROVE  LET new == Happened(it, action, status, n)
               e == [action |-> action, status |-> status, analysis |-> n]
           IN  /\ new \in Item
               /\ new.status = status
               /\ new.history = Append(it.history, e)
               /\ new.first = it.first /\ new.last = it.last /\ new.artifacts = it.artifacts
  <1> DEFINE e == [action |-> action, status |-> status, analysis |-> n]
  <1>1. e \in Event
    BY DEF Event
  <1>2. it.history \in Seq(Event)
    BY DEF Item
  <1>3. Append(it.history, e) \in Seq(Event)
    <2> HIDE DEF e
    <2> QED BY <1>1, <1>2
  <1>4. Happened(it, action, status, n) = [it EXCEPT !.status = status, !.history = Append(it.history, e)]
    BY DEF Happened, Item
  <1> HIDE DEF e
  <1> QED BY <1>3, <1>4 DEF Item, e

LEMMA DetectedFields ==
    ASSUME NEW it \in Item, NEW n \in Nat, NEW from \in SUBSET Artifacts
    PROVE  LET new == Detected(it, n, from)
               status == IF it.status = "resolved" THEN "reopened" ELSE it.status
               e == [action |-> "detected", status |-> status, analysis |-> n]
           IN  /\ new \in Item
               /\ new.status = status
               /\ new.history = Append(it.history, e)
               /\ new.first = (IF it.first = 0 THEN n ELSE it.first)
               /\ new.last = n /\ new.artifacts = it.artifacts \cup from
  <1> DEFINE status == IF it.status = "resolved" THEN "reopened" ELSE it.status
             mid == Happened(it, "detected", status, n)
  <1>1. status \in ReviewStatus
    BY DEF Item, ReviewStatus
  <1>2. /\ mid \in Item /\ mid.status = status
        /\ mid.history = Append(it.history, [action |-> "detected", status |-> status, analysis |-> n])
        /\ mid.first = it.first /\ mid.artifacts = it.artifacts
    <2> HIDE DEF status
    <2> QED BY <1>1, HappenedFields
  <1>3. Detected(it, n, from) =
          [mid EXCEPT !.first = IF @ = 0 THEN n ELSE @, !.last = n, !.artifacts = @ \cup from]
    BY DEF Detected
  <1> DEFINE first == IF it.first = 0 THEN n ELSE it.first
             new == [mid EXCEPT !.first = first, !.last = n, !.artifacts = it.artifacts \cup from]
  <1>4. Detected(it, n, from) = new
    <2> HIDE DEF mid, status
    <2> QED BY <1>2, <1>3 DEF Item
  <1>5. first \in Nat
    BY DEF Item
  <1>6. /\ new \in Item /\ new.status = mid.status /\ new.history = mid.history
        /\ new.first = first /\ new.last = n /\ new.artifacts = it.artifacts \cup from
    <2>1. it.artifacts \cup from \in SUBSET Artifacts
      BY DEF Item
    <2> HIDE DEF mid, status, first
    <2> QED BY <1>2, <1>5, <2>1 DEF Item
  <1> HIDE DEF mid, new
  <1> QED BY <1>2, <1>4, <1>6

(* What an appended event adds to the detections. *)
LEMMA DetectionsAppend ==
    ASSUME NEW h \in Seq(Event), NEW e \in Event
    PROVE  Detections(Append(h, e)) =
             Detections(h) \cup (IF e.action = "detected" THEN {e.analysis} ELSE {})
  <1> DEFINE long == Append(h, e)
  <1>1. /\ Len(h) \in Nat /\ Len(long) = Len(h) + 1
        /\ \A m \in 1 .. Len(h) : long[m] = h[m]
        /\ long[Len(h) + 1] = e
    OBVIOUS
  <1> HIDE DEF long
  <1>2. 1 .. Len(long) = (1 .. Len(h)) \cup {Len(h) + 1}
    BY <1>1
  <1>3. Detections(long) = {long[m].analysis : m \in {m \in 1 .. Len(long) : long[m].action = "detected"}}
    BY DEF Detections
  <1>4. Detections(h) = {h[m].analysis : m \in {m \in 1 .. Len(h) : h[m].action = "detected"}}
    BY DEF Detections
  <1>5. ASSUME NEW x PROVE x \in Detections(long) <=>
          x \in Detections(h) \/ (e.action = "detected" /\ x = e.analysis)
    BY <1>1, <1>2, <1>3, <1>4
  <1> QED BY <1>5 DEF long

LEMMA AppendContinues ==
    ASSUME NEW it \in Item, Tells(it), NEW e \in Event,
           it.history = <<>> => e.action = "detected",
           e.action = "detected" =>
             e.status = (IF it.status = "resolved" THEN "reopened" ELSE it.status),
           e.action # "detected" =>
             it.status \in AppliesTo(e.action) /\ e.status = LeadsTo(e.action, it.status),
           NEW new \in Item, new.history = Append(it.history, e), new.status = e.status
    PROVE  Tells(new)
  <1> DEFINE h == it.history
             long == Append(h, e)
  <1>0. h \in Seq(Event)
    BY DEF Item
  <1>1. /\ Len(h) \in Nat /\ Len(long) = Len(h) + 1
        /\ \A m \in 1 .. Len(h) : long[m] = h[m]
        /\ long[Len(h) + 1] = e /\ (Len(h) = 0 => h = <<>>)
    BY <1>0
  <1>2. /\ h # <<>> => h[1].action = "detected" /\ h[Len(h)].status = it.status
        /\ \A m \in 2 .. Len(h) : Continues(h, m)
    BY DEF Tells
  <1> HIDE DEF h, long
  <1>3. long[1].action = "detected"
    BY <1>1, <1>2 DEF h
  <1>4. ASSUME NEW m \in 2 .. Len(long) PROVE Continues(long, m)
    <2>1. CASE m \in 2 .. Len(h)
      <3>1. long[m] = h[m] /\ long[m - 1] = h[m - 1]
        BY <1>1, <2>1
      <3>2. Continues(h, m)
        BY <1>2, <2>1
      <3> QED BY <3>1, <3>2 DEF Continues
    <2>2. CASE m = Len(h) + 1
      <3>1. long[m] = e /\ long[m - 1] = h[Len(h)] /\ Len(h) # 0
        BY <1>1, <2>2
      <3>2. h # <<>>
        BY <3>1
      <3>3. long[m - 1].status = it.status
        BY <1>2, <3>1, <3>2
      <3> QED BY <3>1, <3>3 DEF Continues
    <2> QED BY <1>1, <2>1, <2>2
  <1>5. long[Len(long)].status = new.status
    BY <1>1
  <1> QED BY <1>3, <1>4, <1>5 DEF Tells, long, h

(* A detection by the next analysis, a next analysis that does not detect  *)
(* the item, and a review.                                                 *)
LEMMA DetectedByAppend ==
    ASSUME NEW list \in Seq(Analysis), NEW a \in Analysis, NEW k
    PROVE  LET long == Append(list, a) IN
           /\ DetectedBy(k, long) = DetectedBy(k, list) \cup
                (IF a.compared /\ k \in a.found THEN {Len(list) + 1} ELSE {})
           /\ \A n \in DetectedBy(k, list) : long[n] = list[n] /\ n <= Len(list)
           /\ long[Len(list) + 1] = a
  <1> DEFINE long == Append(list, a)
  <1>1. /\ Len(list) \in Nat /\ Len(long) = Len(list) + 1
        /\ \A n \in 1 .. Len(list) : long[n] = list[n]
        /\ long[Len(list) + 1] = a
    OBVIOUS
  <1> HIDE DEF long
  <1>2. ASSUME NEW x PROVE x \in DetectedBy(k, long) <=>
          x \in DetectedBy(k, list) \/ (a.compared /\ k \in a.found /\ x = Len(list) + 1)
    BY <1>1 DEF DetectedBy
  <1>3. \A n \in DetectedBy(k, list) : long[n] = list[n] /\ n <= Len(list)
    BY <1>1 DEF DetectedBy
  <1>4. DetectedBy(k, long) = DetectedBy(k, list) \cup
          (IF a.compared /\ k \in a.found THEN {Len(list) + 1} ELSE {})
    BY <1>2
  <1> QED BY <1>1, <1>3, <1>4 DEF long

LEMMA DetectedFollows ==
    ASSUME NEW list \in Seq(Analysis), NEW a \in Analysis, NEW k, NEW it \in Item,
           Follows(it, k, list), a.compared, k \in a.found
    PROVE  Follows(Detected(it, Len(list) + 1, a.from), k, Append(list, a))
  <1> DEFINE n == Len(list) + 1
             by == DetectedBy(k, list)
             long == Append(list, a)
             new == Detected(it, n, a.from)
             status == IF it.status = "resolved" THEN "reopened" ELSE it.status
             e == [action |-> "detected", status |-> status, analysis |-> n]
  <1>1. n \in Nat \ {0} /\ a.from \in SUBSET Artifacts /\ it.history \in Seq(Event)
    BY DEF Analysis, Item
  <1>2. /\ new \in Item /\ new.history = Append(it.history, e)
        /\ new.first = (IF it.first = 0 THEN n ELSE it.first)
        /\ new.last = n /\ new.artifacts = it.artifacts \cup a.from
    <2> HIDE DEF n
    <2> QED BY <1>1, DetectedFields
  <1>3. e \in Event /\ e.action = "detected" /\ e.analysis = n
    <2>1. status \in ReviewStatus
      BY DEF Item, ReviewStatus
    <2> HIDE DEF status, n
    <2> QED BY <1>1, <2>1 DEF Event
  <1>4. /\ DetectedBy(k, long) = by \cup {n}
        /\ \A m \in by : long[m] = list[m] /\ m <= Len(list)
        /\ long[n] = a
    BY DetectedByAppend
  <1>5. by \subseteq Nat \ {0}
    BY DetectionType
  <1>6. Detections(new.history) = by \cup {n}
    <2>1. Detections(it.history) = by
      BY DEF Follows
    <2>2. Detections(Append(it.history, e)) = Detections(it.history) \cup {n}
      <3> HIDE DEF e, n
      <3> QED BY <1>1, <1>3, DetectionsAppend
    <2> HIDE DEF new, n, e, by
    <2> QED BY <1>2, <2>1, <2>2
  <1>7. /\ by = {} => it = NoItem
        /\ by # {} => /\ it.first \in by /\ \A m \in by : it.first <= m
                      /\ it.artifacts = UNION {list[m].from : m \in by}
    BY DEF Follows
  <1>8. \A m \in by : m <= n
    BY <1>1, <1>4, <1>5
  <1>9. new.artifacts = UNION {long[m].from : m \in by \cup {n}}
    <2>1. {long[m].from : m \in by \cup {n}} = {list[m].from : m \in by} \cup {a.from}
      <3> HIDE DEF long, n, by
      <3> QED BY <1>4
    <2>2. it.artifacts = UNION {list[m].from : m \in by}
      <3>1. by = {} => it.artifacts = {}
        BY <1>7 DEF NoItem
      <3> HIDE DEF by
      <3> QED BY <1>7, <3>1
    <2> HIDE DEF new, long, n, by
    <2> QED BY <1>2, <2>1, <2>2
  <1>10. /\ new.first \in by \cup {n} /\ \A m \in by \cup {n} : new.first <= m
    <2>1. CASE by = {}
      <3>1. it.first = 0
        BY <1>7, <2>1 DEF NoItem
      <3> HIDE DEF new, n, by
      <3> QED BY <1>1, <1>2, <2>1, <3>1
    <2>2. CASE by # {}
      <3>1. it.first \in by /\ it.first # 0
        BY <1>5, <1>7, <2>2
      <3> HIDE DEF new, n, by
      <3> QED BY <1>1, <1>2, <1>7, <1>8, <3>1
    <2> QED BY <2>1, <2>2
  <1>11. new.last \in by \cup {n} /\ \A m \in by \cup {n} : m <= new.last
    <2> HIDE DEF new, n, by
    <2> QED BY <1>1, <1>2, <1>8
  <1> HIDE DEF new, n, by, long
  <1> QED BY <1>4, <1>6, <1>9, <1>10, <1>11 DEF Follows, new, n, long

LEMMA MissedFollows ==
    ASSUME NEW list \in Seq(Analysis), NEW a \in Analysis, NEW k, NEW it \in Item,
           Follows(it, k, list), ~(a.compared /\ k \in a.found)
    PROVE  Follows(it, k, Append(list, a))
  <1> DEFINE by == DetectedBy(k, list)
             long == Append(list, a)
  <1>1. DetectedBy(k, long) = by /\ \A m \in by : long[m] = list[m]
    <2>1. /\ DetectedBy(k, long) = by \cup (IF a.compared /\ k \in a.found THEN {Len(list) + 1} ELSE {})
          /\ \A m \in by : long[m] = list[m] /\ m <= Len(list)
      BY DetectedByAppend
    <2> HIDE DEF by, long
    <2> QED BY <2>1
  <1>2. {long[m].from : m \in by} = {list[m].from : m \in by}
    <2> HIDE DEF long, by
    <2> QED BY <1>1
  <1> QED BY <1>1, <1>2 DEF Follows

LEMMA ReviewedFollows ==
    ASSUME NEW list \in Seq(Analysis), NEW k, NEW it \in Item, Follows(it, k, list),
           it.first # 0, NEW action \in ReviewActions, NEW status \in ReviewStatus, NEW n \in Nat
    PROVE  Follows(Happened(it, action, status, n), k, list)
  <1> DEFINE e == [action |-> action, status |-> status, analysis |-> n]
             new == Happened(it, action, status, n)
  <1>1. /\ new \in Item /\ new.history = Append(it.history, e)
        /\ new.first = it.first /\ new.last = it.last /\ new.artifacts = it.artifacts
    BY HappenedFields
  <1>2. e \in Event /\ e.action # "detected" /\ it.history \in Seq(Event)
    BY DEF Event, ReviewActions, Item
  <1>3. Detections(new.history) = Detections(it.history)
    <2>1. Detections(Append(it.history, e)) = Detections(it.history)
      <3> HIDE DEF e
      <3> QED BY <1>2, DetectionsAppend
    <2> QED BY <1>1, <2>1
  <1>4. DetectedBy(k, list) # {}
    BY DEF Follows, NoItem
  <1> HIDE DEF new, e
  <1> QED BY <1>1, <1>3, <1>4 DEF Follows, new

(* An item that was never detected is no item, and one that was has a      *)
(* history.                                                                *)
LEMMA FirstTells ==
    ASSUME NEW list \in Seq(Analysis), NEW k, NEW it \in Item, Follows(it, k, list)
    PROVE  /\ it.first = 0 => it = NoItem
           /\ it.first # 0 => it.history # <<>>
  <1>1. DetectedBy(k, list) \subseteq Nat \ {0}
    BY DetectionType
  <1>2. it.first = 0 => it = NoItem
    BY <1>1 DEF Follows
  <1>3. ASSUME it.history = <<>> PROVE it.first = 0
    <2>1. Detections(<<>>) = {}
      BY DEF Detections
    <2>2. DetectedBy(k, list) = {}
      BY <1>3, <2>1 DEF Follows
    <2> QED BY <2>2 DEF Follows, NoItem
  <1> QED BY <1>2, <1>3

(* The lifecycle of a review. *)
LEMMA LeadsToType ==
    ASSUME NEW action \in ReviewActions, NEW status \in ReviewStatus
    PROVE  LeadsTo(action, status) \in ReviewStatus
  BY DEF LeadsTo, ReviewActions, ReviewStatus

LEMMA DetectedTells ==
    ASSUME NEW it \in Item, Tells(it), NEW n \in Nat, NEW from \in SUBSET Artifacts
    PROVE  Tells(Detected(it, n, from))
  <1> DEFINE status == IF it.status = "resolved" THEN "reopened" ELSE it.status
             e == [action |-> "detected", status |-> status, analysis |-> n]
             new == Detected(it, n, from)
  <1>1. new \in Item /\ new.status = status /\ new.history = Append(it.history, e)
    BY DetectedFields
  <1>2. e \in Event /\ e.action = "detected" /\ e.status = status
    BY DEF Event, Item, ReviewStatus
  <1> HIDE DEF e, new
  <1> QED BY <1>1, <1>2, AppendContinues DEF new

LEMMA ReviewedTells ==
    ASSUME NEW it \in Item, Tells(it), it.history # <<>>, NEW n \in Nat,
           NEW action \in ReviewActions, it.status \in AppliesTo(action)
    PROVE  Tells(Happened(it, action, LeadsTo(action, it.status), n))
  <1> DEFINE status == LeadsTo(action, it.status)
             e == [action |-> action, status |-> status, analysis |-> n]
             new == Happened(it, action, status, n)
  <1>1. status \in ReviewStatus
    BY LeadsToType DEF Item
  <1>2. new \in Item /\ new.status = status /\ new.history = Append(it.history, e)
    <2> HIDE DEF status
    <2> QED BY <1>1, HappenedFields
  <1>3. e \in Event /\ e.action = action /\ e.status = status /\ action # "detected"
    <2> HIDE DEF status
    <2> QED BY <1>1 DEF Event, ReviewActions
  <1>4. Tells(new)
    <2> HIDE DEF e, new
    <2> QED BY <1>2, <1>3, AppendContinues
  <1> QED BY <1>4

----------------------------------------------------------------------------
(* Discovery: types. *)

LEMMA NoRowType == NoRow \in Run
  BY DEF NoRow, Run

LEMMA NewRunType ==
    ASSUME NEW status \in {"completed", "failed"}
    PROVE  NewRun(status) \in Run /\ NewRun(status).status = status
  BY NoRowType DEF NewRun, Run

LEMMA NoRequestType == NoRequest \in Request
  <1>1. AnyDecision \in Decision
    BY DiscoveryAssumption DEF AnyDecision, Decision
  <1> HIDE DEF NoRow, AnyDecision
  <1> QED BY <1>1, NoRowType DEF NoRequest, Request, ArchitectureTargets, Content

LEMMA ProposedType == \A decisions : Proposed(decisions) \in Content
  BY DEF Proposed, Content

(* What the requests about runs change: their own row of ask, locks nobody *)
(* else holds, and a run they are making or have locked.                   *)
Owner(r, i) == ask[r].run = i /\ (Making(r) \/ ask[r].pc = "locked")

RunFrame(r) ==
    /\ \A i \in RunIds : runLock[i] \notin {r, Nobody} => runLock'[i] = runLock[i]
    /\ \A i \in RunIds : run'[i] = run[i] \/ Owner(r, i)
    /\ \A i \in RunIds : run'[i].status = "none" => run'[i] = NoRow

LEMMA RunsKeep ==
    ASSUME RunsInv, NEW r \in Requests, NEW x \in Request, ask' = [ask EXCEPT ![r] = x],
           RunsTypeOK', RunFrame(r), RunSound(r)',
           x.op = "run" /\ x.pc \in {"asked", "computed", "admitted"} =>
             \/ Making(r) /\ x.run = ask[r].run
             \/ \A q \in Requests : ask[q].run # x.run
    PROVE  RunsInv'
  <1>1. ask'[r] = x /\ \A q \in Requests \ {r} : ask'[q] = ask[q]
    BY DEF RunsInv, RunsTypeOK
  <1>2. ASSUME NEW q \in Requests \ {r} PROVE RunSound(q)'
    <2>1. RunSound(q)
      BY DEF RunsInv
    <2>2. ASSUME NEW i \in RunIds, ask[q].run = i, Making(q) \/ ask[q].pc = "locked"
          PROVE  ~Owner(r, i)
      <3>1. CASE Making(q) /\ Making(r)
        BY <2>2, <3>1 DEF RunsInv, MadeApart, Owner
      <3>2. CASE Making(q) /\ ask[r].pc = "locked"
        BY <2>1, <2>2, <3>2 DEF RunsInv, RunSound, Owner
      <3>3. CASE ask[q].pc = "locked" /\ Making(r)
        BY <2>1, <2>2, <3>3 DEF RunsInv, RunSound, Owner
      <3>4. CASE ask[q].pc = "locked" /\ ask[r].pc = "locked"
        BY <2>1, <2>2, <3>4 DEF RunsInv, RunSound, Owner
      <3> QED BY <2>2, <3>1, <3>2, <3>3, <3>4 DEF Owner
    <2>3. ask[q].pc \notin {"idle", "done"} => ask[q].run \in RunIds
      BY <2>1 DEF RunSound
    <2>4. Making(q) => ask[q].run \in RunIds /\ run'[ask[q].run] = run[ask[q].run]
      BY <2>2, <2>3 DEF Making, RunFrame
    <2>5. ask[q].pc = "locked" => /\ ask[q].run \in RunIds
                                  /\ run'[ask[q].run] = run[ask[q].run]
                                  /\ runLock'[ask[q].run] = runLock[ask[q].run]
      <3>1. q # Nobody
        BY HeadAssumption
      <3> QED BY <2>1, <2>2, <2>3, <3>1 DEF RunFrame, RunSound
    <2>6. Making(q)' <=> Making(q)
      BY <1>1 DEF Making
    <2> QED BY <1>1, <2>1, <2>3, <2>4, <2>5, <2>6 DEF RunSound, Exists
  <1>3. MadeApart'
    <2>1. \A q \in Requests \ {r} : Making(q)' <=> Making(q)
      BY <1>1 DEF Making
    <2>2. Making(r)' => \/ Making(r) /\ x.run = ask[r].run
                        \/ \A q \in Requests : ask[q].run # x.run
      BY <1>1 DEF Making
    <2> QED BY <1>1, <2>1, <2>2 DEF RunsInv, MadeApart
  <1>4. NoneIsEmpty'
    BY DEF RunFrame, NoneIsEmpty, Exists
  <1> QED BY <1>2, <1>3, <1>4 DEF RunsInv

(* A step that changes neither runs nor, but for the locks it releases or  *)
(* takes, what others hold.                                                *)
LEMMA Settled ==
    ASSUME RunsInv, NEW r \in Requests, run' = run,
           \A i \in RunIds : runLock[i] \notin {r, Nobody} => runLock'[i] = runLock[i]
    PROVE  RunFrame(r)
  BY DEF RunsInv, NoneIsEmpty, Exists, RunFrame

LEMMA AskChoice ==
    ASSUME RunsInv, NEW r \in Requests, Ask(r)
    PROVE  \E x \in Request :
             /\ ask' = [ask EXCEPT ![r] = x] /\ UNCHANGED <<headVars, runVars>>
             /\ x.pc = "asked" /\ x.run \in RunIds
             /\ x.op = "run" => ~Exists(x.run) /\ \A q \in Requests : ask[q].run # x.run
  <1> DEFINE Good(x) == /\ ask' = [ask EXCEPT ![r] = x] /\ UNCHANGED <<headVars, runVars>>
                        /\ x.pc = "asked" /\ x.run \in RunIds
                        /\ x.op = "run" => ~Exists(x.run) /\ \A q \in Requests : ask[q].run # x.run
  <1>1. CASE \E i \in RunIds : /\ ~Exists(i) /\ \A q \in Requests : ask[q].run # i
                               /\ Asked(r, [NoRequest EXCEPT !.op = "run", !.run = i])
    <2>1. PICK i \in RunIds : /\ ~Exists(i) /\ \A q \in Requests : ask[q].run # i
                              /\ Asked(r, [NoRequest EXCEPT !.op = "run", !.run = i])
      BY <1>1
    <2> DEFINE x == [[NoRequest EXCEPT !.op = "run", !.run = i] EXCEPT !.pc = "asked"]
    <2>2. x \in Request /\ x.pc = "asked" /\ x.run = i
      BY NoRequestType DEF Request
    <2>3. ask' = [ask EXCEPT ![r] = x] /\ UNCHANGED <<headVars, runVars>>
      BY <2>1 DEF Asked
    <2> HIDE DEF x
    <2> QED BY <2>1, <2>2, <2>3
  <1>2. CASE \E i \in RunIds, d \in Decision :
               /\ Exists(i) /\ Len(run[i].decisions) < MaxDecisions
               /\ Asked(r, [NoRequest EXCEPT !.op = "decide", !.run = i, !.decision = d])
    <2>1. PICK i \in RunIds, d \in Decision :
            Asked(r, [NoRequest EXCEPT !.op = "decide", !.run = i, !.decision = d])
      BY <1>2
    <2> DEFINE x == [[NoRequest EXCEPT !.op = "decide", !.run = i, !.decision = d] EXCEPT !.pc = "asked"]
    <2>2. x \in Request /\ x.pc = "asked" /\ x.run = i /\ x.op = "decide"
      BY NoRequestType DEF Request
    <2>3. ask' = [ask EXCEPT ![r] = x] /\ UNCHANGED <<headVars, runVars>>
      BY <2>1 DEF Asked
    <2> HIDE DEF x
    <2> QED BY <2>2, <2>3
  <1>3. CASE \E i \in RunIds, into \in ArchitectureTargets :
               \E base \in IF into = "new" THEN {0} ELSE 1 .. head.current :
                  /\ Exists(i)
                  /\ Asked(r, [NoRequest EXCEPT !.op = "accept", !.run = i, !.into = into, !.base = base,
                                 !.content = Proposed(run[i].decisions)])
    <2>1. PICK i \in RunIds, into \in ArchitectureTargets :
            \E base \in IF into = "new" THEN {0} ELSE 1 .. head.current :
               Asked(r, [NoRequest EXCEPT !.op = "accept", !.run = i, !.into = into, !.base = base,
                           !.content = Proposed(run[i].decisions)])
      BY <1>3
    <2>2. PICK base \in IF into = "new" THEN {0} ELSE 1 .. head.current :
            Asked(r, [NoRequest EXCEPT !.op = "accept", !.run = i, !.into = into, !.base = base,
                        !.content = Proposed(run[i].decisions)])
      BY <2>1
    <2>3. PICK content \in Content : content = Proposed(run[i].decisions)
      BY ProposedType
    <2>4. base \in Nat
      BY <2>2
    <2> DEFINE x == [[NoRequest EXCEPT !.op = "accept", !.run = i, !.into = into, !.base = base,
                        !.content = content] EXCEPT !.pc = "asked"]
    <2>5. x \in Request /\ x.pc = "asked" /\ x.run = i /\ x.op = "accept"
      BY <2>4, NoRequestType DEF Request
    <2>6. ask' = [ask EXCEPT ![r] = x] /\ UNCHANGED <<headVars, runVars>>
      BY <2>2, <2>3 DEF Asked
    <2> HIDE DEF x
    <2> QED BY <2>5, <2>6
  <1>4. CASE \E i \in RunIds : Exists(i) /\ Asked(r, [NoRequest EXCEPT !.op = "delete", !.run = i])
    <2>1. PICK i \in RunIds : Asked(r, [NoRequest EXCEPT !.op = "delete", !.run = i])
      BY <1>4
    <2> DEFINE x == [[NoRequest EXCEPT !.op = "delete", !.run = i] EXCEPT !.pc = "asked"]
    <2>2. x \in Request /\ x.pc = "asked" /\ x.run = i /\ x.op = "delete"
      BY NoRequestType DEF Request
    <2>3. ask' = [ask EXCEPT ![r] = x] /\ UNCHANGED <<headVars, runVars>>
      BY <2>1 DEF Asked
    <2> HIDE DEF x
    <2> QED BY <2>2, <2>3
  <1> QED BY <1>1, <1>2, <1>3, <1>4, Zenon DEF Ask

LEMMA AskKeepsRuns ==
    ASSUME RunsInv, NEW r \in Requests, Ask(r)
    PROVE  RunsInv'
  <1>1. PICK x \in Request :
          /\ ask' = [ask EXCEPT ![r] = x] /\ UNCHANGED <<headVars, runVars>>
          /\ x.pc = "asked" /\ x.run \in RunIds
          /\ x.op = "run" => ~Exists(x.run) /\ \A q \in Requests : ask[q].run # x.run
    BY AskChoice
  <1>2. UNCHANGED <<project, projectLock, head, headLock, run, runLock, cited, citing>>
    BY <1>1 DEF headVars, runVars
  <1>3. RunsTypeOK'
    BY <1>1, <1>2 DEF RunsInv, RunsTypeOK, HeadTypeOK, ProjectTypeOK
  <1>4. ask'[r] = x
    BY <1>1 DEF RunsInv, RunsTypeOK
  <1>5. RunSound(r)'
    BY <1>1, <1>2, <1>4 DEF RunSound, Making, Exists
  <1>6. RunFrame(r)
    BY <1>2, Settled
  <1> QED BY <1>1, <1>3, <1>5, <1>6, RunsKeep

(* Answers. *)
LEMMA AnswerFrame ==
    ASSUME RunsInv, NEW r \in Requests, Answer(r)
    PROVE  /\ ask' = [ask EXCEPT ![r] = [NoRequest EXCEPT !.pc = "done"]]
           /\ [NoRequest EXCEPT !.pc = "done"] \in Request
           /\ ask'[r].pc = "done"
           /\ projectLock' \in [Requests -> LockModes]
           /\ runLock' \in [RunIds -> Requests \cup {Nobody}]
           /\ headLock' \in Requests \cup {Nobody}
           /\ headLock # r => headLock' = headLock
           /\ \A i \in RunIds : runLock[i] \notin {r, Nobody} => runLock'[i] = runLock[i]
           /\ UNCHANGED <<project, cited, citing>>
  <1>1. [NoRequest EXCEPT !.pc = "done"] \in Request /\ [NoRequest EXCEPT !.pc = "done"].pc = "done"
    BY NoRequestType DEF Request
  <1>2. /\ ask' = [ask EXCEPT ![r] = [NoRequest EXCEPT !.pc = "done"]]
        /\ UNCHANGED <<project, cited, citing>> /\ Release(r)
    BY DEF Answer
  <1>3. ask'[r].pc = "done"
    BY <1>1, <1>2 DEF RunsInv, RunsTypeOK
  <1>4. /\ projectLock' \in [Requests -> LockModes]
        /\ runLock' \in [RunIds -> Requests \cup {Nobody}]
        /\ headLock' \in Requests \cup {Nobody}
        /\ headLock # r => headLock' = headLock
        /\ \A i \in RunIds : runLock[i] \notin {r, Nobody} => runLock'[i] = runLock[i]
    BY <1>2 DEF Release, Unlock, LockModes, RunsInv, RunsTypeOK, HeadTypeOK, ProjectTypeOK
  <1> QED BY <1>1, <1>2, <1>3, <1>4

(* ... of a request that may have written its run. *)
LEMMA AnswerKeepsRuns ==
    ASSUME RunsInv, NEW r \in Requests, Answer(r),
           run' \in [RunIds -> Run],
           head' \in [status : {"active", "archived", "deleted"}, current : 1 .. MaxRevision],
           \A i \in RunIds : run'[i] = run[i] \/ Owner(r, i),
           \A i \in RunIds : run'[i].status = "none" => run'[i] = NoRow
    PROVE  RunsInv'
  <1> DEFINE x == [NoRequest EXCEPT !.pc = "done"]
  <1>1. /\ ask' = [ask EXCEPT ![r] = x] /\ x \in Request /\ ask'[r].pc = "done"
        /\ projectLock' \in [Requests -> LockModes]
        /\ runLock' \in [RunIds -> Requests \cup {Nobody}]
        /\ headLock' \in Requests \cup {Nobody}
        /\ \A i \in RunIds : runLock[i] \notin {r, Nobody} => runLock'[i] = runLock[i]
        /\ UNCHANGED <<project, cited, citing>>
    BY AnswerFrame
  <1>2. x.pc = "done"
    BY NoRequestType DEF Request
  <1> HIDE DEF x
  <1>3. RunsTypeOK'
    BY <1>1 DEF RunsInv, RunsTypeOK, HeadTypeOK, ProjectTypeOK
  <1>4. RunSound(r)'
    BY <1>1 DEF RunSound, Making
  <1>5. RunFrame(r)
    BY <1>1 DEF RunFrame
  <1> QED BY <1>1, <1>2, <1>3, <1>4, <1>5, RunsKeep

LEMMA RefuseKeepsRuns ==
    ASSUME RunsInv, NEW r \in Requests, Refuse(r)
    PROVE  RunsInv'
  <1>1. Answer(r) /\ head' = head /\ run' = run
    BY DEF Refuse
  <1>2. \A i \in RunIds : run'[i].status = "none" => run'[i] = NoRow
    BY <1>1 DEF RunsInv, NoneIsEmpty, Exists
  <1> QED BY <1>1, <1>2, AnswerKeepsRuns DEF RunsInv, RunsTypeOK, HeadTypeOK

(* Steps inside a transaction change the stage of the request and a field. *)
LEMMA ProgressKeepsRuns ==
    ASSUME RunsInv, NEW r \in Requests, NEW x \in Request, ask' = [ask EXCEPT ![r] = x],
           UNCHANGED <<project, head, run, cited, citing>>,
           projectLock' \in [Requests -> LockModes],
           headLock' \in Requests \cup {Nobody},
           runLock' \in [RunIds -> Requests \cup {Nobody}],
           \A i \in RunIds : runLock[i] \notin {r, Nobody} => runLock'[i] = runLock[i],
           ask[r].pc \notin {"idle", "done"}, x.op = ask[r].op, x.run = ask[r].run,
           x.op = "run" => Making(r),
           x.pc = "locked" => x.op # "run" /\ runLock'[x.run] = r /\ x.row = run[x.run] /\ Exists(x.run),
           x.op = "accept" /\ x.pc \in {"proposed", "admitted", "based", "locked"} =>
             x.content = Proposed(x.found)
    PROVE  RunsInv'
  <1>1. ask'[r] = x
    BY DEF RunsInv, RunsTypeOK
  <1>2. RunsTypeOK'
    BY DEF RunsInv, RunsTypeOK, HeadTypeOK, ProjectTypeOK
  <1>3. RunSound(r)'
    <2>1. RunSound(r)
      BY DEF RunsInv
    <2>2. Making(r)' => Making(r)
      BY <1>1 DEF Making
    <2> QED BY <1>1, <2>1, <2>2 DEF RunSound, Exists
  <1>4. RunFrame(r)
    BY Settled
  <1> QED BY <1>2, <1>3, <1>4, RunsKeep

LEMMA DiscoverKeepsRuns ==
    ASSUME RunsInv, NEW r \in Requests, Discover(r)
    PROVE  RunsInv'
  <1>1. PICK outcome \in {"completed", "failed"} :
          ask' = [ask EXCEPT ![r].pc = "computed", ![r].outcome = outcome]
    BY DEF Discover
  <1> DEFINE x == [ask[r] EXCEPT !.pc = "computed", !.outcome = outcome]
  <1>2. ask[r] \in Request /\ ask[r].pc = "asked" /\ ask[r].op = "run"
    BY DEF Discover, AtStage, RunsInv, RunsTypeOK
  <1>3. x \in Request /\ x.pc = "computed" /\ x.op = ask[r].op /\ x.run = ask[r].run
    BY <1>2 DEF Request
  <1>4. ask' = [ask EXCEPT ![r] = x]
    BY <1>1, <1>2 DEF RunsInv, RunsTypeOK
  <1>5. UNCHANGED <<project, projectLock, head, headLock, run, runLock, cited, citing>>
    BY DEF Discover, headVars, runVars
  <1>6. /\ projectLock' \in [Requests -> LockModes] /\ headLock' \in Requests \cup {Nobody}
        /\ runLock' \in [RunIds -> Requests \cup {Nobody}]
    BY <1>5 DEF RunsInv, RunsTypeOK, HeadTypeOK, ProjectTypeOK
  <1>7. Making(r)
    BY <1>2 DEF Making
  <1> HIDE DEF x
  <1> QED BY <1>2, <1>3, <1>4, <1>5, <1>6, <1>7, ProgressKeepsRuns

LEMMA ProposeKeepsRuns ==
    ASSUME RunsInv, NEW r \in Requests, Propose(r)
    PROVE  RunsInv'
  <1>1. ask[r] \in Request /\ ask[r].pc = "asked" /\ ask[r].op = "accept" /\ ask[r].run \in RunIds
    BY DEF Propose, AtStage, RunsInv, RunsTypeOK, RunSound
  <1>2. PICK found \in Seq(Decision) : found = run[ask[r].run].decisions
    BY <1>1 DEF RunsInv, RunsTypeOK, Run
  <1> DEFINE x == [ask[r] EXCEPT !.pc = "proposed", !.found = found]
  <1>3. /\ x \in Request /\ x.pc = "proposed" /\ x.op = ask[r].op /\ x.run = ask[r].run
        /\ x.content = ask[r].content /\ x.found = found
    BY <1>1 DEF Request
  <1>4. ask' = [ask EXCEPT ![r] = x]
    BY <1>1, <1>2 DEF Propose, RunsInv, RunsTypeOK
  <1>5. UNCHANGED <<project, projectLock, head, headLock, run, runLock, cited, citing>>
    BY DEF Propose, headVars, runVars
  <1>6. /\ projectLock' \in [Requests -> LockModes] /\ headLock' \in Requests \cup {Nobody}
        /\ runLock' \in [RunIds -> Requests \cup {Nobody}]
    BY <1>5 DEF RunsInv, RunsTypeOK, HeadTypeOK, ProjectTypeOK
  <1>7. x.content = Proposed(x.found)
    <2>1. Proposed(run[ask[r].run].decisions) = ask[r].content
      BY DEF Propose, Reviewed
    <2> HIDE DEF x
    <2> QED BY <1>2, <1>3, <2>1
  <1> HIDE DEF x
  <1> QED BY <1>1, <1>3, <1>4, <1>5, <1>6, <1>7, ProgressKeepsRuns

LEMMA AdmitKeepsRuns ==
    ASSUME RunsInv, NEW r \in Requests, Admit(r)
    PROVE  RunsInv'
  <1>1. /\ ask[r] \in Request /\ RunSound(r)
        /\ \/ ask[r].pc = "computed" /\ ask[r].op = "run"
           \/ ask[r].pc = "proposed" /\ ask[r].op = "accept"
           \/ ask[r].pc = "asked" /\ ask[r].op \in {"decide", "delete"}
    BY DEF Admit, AtStage, RunsInv, RunsTypeOK
  <1> DEFINE x == [ask[r] EXCEPT !.pc = "admitted"]
  <1>2. /\ x \in Request /\ x.pc = "admitted" /\ x.op = ask[r].op /\ x.run = ask[r].run
        /\ x.content = ask[r].content /\ x.found = ask[r].found
    BY <1>1 DEF Request
  <1>3. ask' = [ask EXCEPT ![r] = x]
    BY <1>1 DEF Admit, RunsInv, RunsTypeOK
  <1>4. UNCHANGED <<project, head, headLock, run, runLock, cited, citing>>
    BY DEF Admit, runVars
  <1>5. /\ projectLock' \in [Requests -> LockModes] /\ headLock' \in Requests \cup {Nobody}
        /\ runLock' \in [RunIds -> Requests \cup {Nobody}]
    BY <1>4 DEF Admit, Lock, LockModes, RunsInv, RunsTypeOK, HeadTypeOK, ProjectTypeOK
  <1>6. /\ x.op = "run" => Making(r)
        /\ x.op = "accept" => x.content = Proposed(x.found)
    <2> HIDE DEF x
    <2> QED BY <1>1, <1>2 DEF Making, RunSound
  <1>7. ask[r].pc \notin {"idle", "done"}
    BY <1>1
  <1> HIDE DEF x
  <1> QED BY <1>2, <1>3, <1>4, <1>5, <1>6, <1>7, ProgressKeepsRuns

LEMMA BasedKeepsRuns ==
    ASSUME RunsInv, NEW r \in Requests, Based(r)
    PROVE  RunsInv'
  <1>1. ask[r] \in Request /\ RunSound(r) /\ ask[r].pc = "admitted" /\ ask[r].op = "accept"
    BY DEF Based, AtStage, RunsInv, RunsTypeOK
  <1> DEFINE x == [ask[r] EXCEPT !.pc = "based"]
  <1>2. /\ x \in Request /\ x.pc = "based" /\ x.op = ask[r].op /\ x.run = ask[r].run
        /\ x.content = ask[r].content /\ x.found = ask[r].found
    BY <1>1 DEF Request
  <1>3. ask' = [ask EXCEPT ![r] = x]
    BY <1>1 DEF Based, RunsInv, RunsTypeOK
  <1>4. UNCHANGED <<project, projectLock, head, run, runLock, cited, citing>>
    BY DEF Based, runVars
  <1>5. /\ projectLock' \in [Requests -> LockModes] /\ headLock' \in Requests \cup {Nobody}
        /\ runLock' \in [RunIds -> Requests \cup {Nobody}]
    BY <1>4 DEF Based, RunsInv, RunsTypeOK, HeadTypeOK, ProjectTypeOK
  <1>6. x.content = Proposed(x.found)
    <2> HIDE DEF x
    <2> QED BY <1>1, <1>2 DEF RunSound
  <1> HIDE DEF x
  <1> QED BY <1>1, <1>2, <1>3, <1>4, <1>5, <1>6, ProgressKeepsRuns

LEMMA LockRunKeepsRuns ==
    ASSUME RunsInv, NEW r \in Requests, LockRun(r)
    PROVE  RunsInv'
  <1>1. /\ ask[r] \in Request /\ RunSound(r)
        /\ \/ ask[r].pc = "based" /\ ask[r].op = "accept"
           \/ ask[r].pc = "admitted" /\ ask[r].op \in {"decide", "delete"}
    BY DEF LockRun, ReadyToLock, AtStage, RunsInv, RunsTypeOK
  <1>2. ask[r].run \in RunIds
    BY <1>1 DEF RunSound
  <1>3. PICK row \in Run, i \in RunIds : i = ask[r].run /\ row = run[i]
    BY <1>2 DEF RunsInv, RunsTypeOK
  <1> DEFINE x == [ask[r] EXCEPT !.pc = "locked", !.row = row]
  <1>4. /\ x \in Request /\ x.pc = "locked" /\ x.op = ask[r].op /\ x.run = ask[r].run
        /\ x.content = ask[r].content /\ x.found = ask[r].found /\ x.row = row
    BY <1>1 DEF Request
  <1>5. /\ ask' = [ask EXCEPT ![r] = x] /\ runLock' = [runLock EXCEPT ![i] = r]
        /\ runLock[i] = Nobody /\ Exists(i)
    BY <1>1, <1>3 DEF LockRun, RunFree, RunsInv, RunsTypeOK
  <1>6. UNCHANGED <<project, projectLock, head, headLock, run, cited, citing>>
    BY DEF LockRun, headVars
  <1>7. /\ projectLock' \in [Requests -> LockModes] /\ headLock' \in Requests \cup {Nobody}
        /\ runLock' \in [RunIds -> Requests \cup {Nobody}]
    BY <1>5, <1>6 DEF RunsInv, RunsTypeOK, HeadTypeOK, ProjectTypeOK
  <1> HIDE DEF x
  <1>8. /\ runLock'[x.run] = r /\ x.row = run[x.run] /\ Exists(x.run) /\ x.op # "run"
        /\ \A j \in RunIds : runLock[j] \notin {r, Nobody} => runLock'[j] = runLock[j]
    BY <1>1, <1>3, <1>4, <1>5 DEF RunsInv, RunsTypeOK
  <1>9. x.op = "accept" => x.content = Proposed(x.found)
    BY <1>1, <1>4 DEF RunSound
  <1>10. ask[r].pc \notin {"idle", "done"}
    BY <1>1
  <1> QED BY <1>4, <1>5, <1>6, <1>7, <1>8, <1>9, <1>10, ProgressKeepsRuns

----------------------------------------------------------------------------
(* Discovery: the writes. *)

LEMMA SubSeqWhole ==
    ASSUME NEW S, NEW s \in Seq(S)
    PROVE  SubSeq(s, 1, Len(s)) = s
  OBVIOUS

LEMMA SubSeqAppend ==
    ASSUME NEW S, NEW s \in Seq(S), NEW e \in S
    PROVE  SubSeq(Append(s, e), 1, Len(s)) = s
  <1>1. Append(s, e) \in Seq(S) /\ Len(Append(s, e)) = Len(s) + 1 /\ Len(s) \in Nat
    OBVIOUS
  <1>2. \A n \in 1 .. Len(s) : Append(s, e)[n] = s[n]
    OBVIOUS
  <1> QED BY <1>1, <1>2

(* AcceptedAsDecided, for one run. *)
Grows(old, new) ==
    /\ SubSeq(new.decisions, 1, Len(old.decisions)) = old.decisions
    /\ SubSeq(new.acceptances, 1, Len(old.acceptances)) = old.acceptances
RowStep(old, new, held) ==
    /\ Len(new.acceptances) > Len(old.acceptances) =>
         new.acceptances[Len(new.acceptances)].content = Proposed(old.decisions)
    /\ old.status # "none" /\ (old.acceptances # <<>> \/ held) => new.status = old.status
    /\ new.status # "none" => Grows(old, new)

LEMMA RowStutters ==
    ASSUME NEW old \in Run, NEW held
    PROVE  RowStep(old, old, held)
  <1>1. old.decisions \in Seq(Decision) /\ old.acceptances \in Seq(Acceptance)
    BY DEF Run
  <1>2. Grows(old, old)
    BY <1>1, SubSeqWhole DEF Grows
  <1>3. Len(old.acceptances) \in Nat
    BY <1>1
  <1> QED BY <1>2, <1>3 DEF RowStep

(* One run is written by a request that owns it. *)
RunWrite(r) ==
    \E i \in RunIds, new \in Run :
        /\ Owner(r, i)
        /\ run' = [run EXCEPT ![i] = new]
        /\ new.status = "none" => new = NoRow
        /\ RowStep(run[i], new, i \in cited)

LEMMA StoreRunWrites ==
    ASSUME RunsInv, NEW r \in Requests, StoreRun(r)
    PROVE  RunWrite(r)
  <1>1. /\ ask[r] \in Request /\ RunSound(r) /\ ask[r].pc = "admitted" /\ ask[r].op = "run"
        /\ run' = [run EXCEPT ![ask[r].run] = NewRun(ask[r].outcome)]
    BY DEF StoreRun, AtStage, RunsInv, RunsTypeOK
  <1>2. PICK i \in RunIds, outcome \in {"completed", "failed"} :
          i = ask[r].run /\ outcome = ask[r].outcome
    BY <1>1 DEF RunSound, Request
  <1>3. Owner(r, i) /\ run[i] = NoRow
    BY <1>1, <1>2 DEF Owner, Making, RunSound, RunsInv, NoneIsEmpty
  <1>4. PICK new \in Run : new = NewRun(outcome)
    BY NewRunType
  <1>5. new.status # "none" /\ new.decisions = <<>> /\ new.acceptances = <<>>
    <2>1. new.status = outcome
      BY <1>4, NewRunType
    <2> QED BY <1>4, <2>1 DEF NewRun, NoRow
  <1>6. RowStep(NoRow, new, i \in cited)
    <2>1. NoRow.status = "none" /\ NoRow.decisions = <<>> /\ NoRow.acceptances = <<>>
      BY DEF NoRow
    <2>2. SubSeq(<<>>, 1, Len(<<>>)) = <<>>
      OBVIOUS
    <2> QED BY <1>5, <2>1, <2>2 DEF RowStep, Grows
  <1>7. run' = [run EXCEPT ![i] = new]
    BY <1>1, <1>2, <1>4
  <1> QED BY <1>3, <1>5, <1>6, <1>7 DEF RunWrite

LEMMA DecideWrites ==
    ASSUME RunsInv, NEW r \in Requests, Decide(r)
    PROVE  RunWrite(r)
  <1>1. /\ ask[r] \in Request /\ RunSound(r) /\ ask[r].pc = "locked" /\ ask[r].op = "decide"
        /\ run' = [run EXCEPT ![ask[r].run] =
             [@ EXCEPT !.decisions = Append(ask[r].row.decisions, ask[r].decision),
                       !.acceptances = ask[r].row.acceptances]]
    BY DEF Decide, AtStage, RunsInv, RunsTypeOK
  <1>2. PICK i \in RunIds, old \in Run, d \in Decision :
          i = ask[r].run /\ old = run[i] /\ d = ask[r].decision /\ old = ask[r].row
    BY <1>1 DEF RunSound, Request, RunsInv, RunsTypeOK
  <1>3. old.decisions \in Seq(Decision) /\ old.acceptances \in Seq(Acceptance)
    BY DEF Run
  <1>4. PICK decisions \in Seq(Decision) : decisions = Append(old.decisions, d)
    <2>1. Append(old.decisions, d) \in Seq(Decision)
      BY <1>3
    <2> QED BY <2>1
  <1> DEFINE new == [old EXCEPT !.decisions = decisions, !.acceptances = old.acceptances]
  <1>5. /\ new \in Run /\ new.status = old.status /\ new.decisions = decisions
        /\ new.acceptances = old.acceptances
    BY <1>3 DEF Run
  <1>6. run' = [run EXCEPT ![i] = new]
    BY <1>1, <1>2, <1>4
  <1>7. Owner(r, i) /\ old.status # "none"
    BY <1>1, <1>2 DEF Owner, RunSound, Exists
  <1> HIDE DEF new
  <1>8. Grows(old, new)
    BY <1>3, <1>4, <1>5, SubSeqWhole, SubSeqAppend DEF Grows
  <1>9. RowStep(old, new, i \in cited)
    <2>1. Len(old.acceptances) \in Nat
      BY <1>3
    <2> QED BY <1>5, <1>8, <2>1 DEF RowStep
  <1> QED BY <1>2, <1>5, <1>6, <1>7, <1>9 DEF RunWrite

LEMMA AcceptWrites ==
    ASSUME RunsInv, NEW r \in Requests, Accept(r)
    PROVE  /\ RunWrite(r)
           /\ head' \in [status : {"active", "archived", "deleted"}, current : 1 .. MaxRevision]
  <1>1. /\ ask[r] \in Request /\ RunSound(r) /\ ask[r].pc = "locked" /\ ask[r].op = "accept"
        /\ ask[r].row.decisions = ask[r].found
    BY DEF Accept, AtStage, Undecided, RunsInv, RunsTypeOK
  <1>2. PICK made \in BOOLEAN :
         /\ made => head.current < MaxRevision
         /\ head' = IF made THEN [head EXCEPT !.current = @ + 1] ELSE head
         /\ run' = [run EXCEPT ![ask[r].run] =
              [@ EXCEPT !.decisions = ask[r].row.decisions,
                        !.acceptances = Append(ask[r].row.acceptances,
                           [content  |-> ask[r].content,
                            revision |-> IF ask[r].into = "new" THEN 0 ELSE head'.current])]]
    BY DEF Accept
  <1>3. head' \in [status : {"active", "archived", "deleted"}, current : 1 .. MaxRevision]
    <2>1. head \in [status : {"active", "archived", "deleted"}, current : 1 .. MaxRevision]
      BY DEF RunsInv, RunsTypeOK, HeadTypeOK
    <2>2. CASE made
      <3>1. PICK n \in 1 .. MaxRevision : n = head.current + 1
        BY <1>2, <2>1, <2>2, HeadAssumption
      <3>2. head' = [head EXCEPT !.current = n]
        BY <1>2, <2>1, <2>2, <3>1
      <3> QED BY <2>1, <3>2
    <2>3. CASE ~made
      BY <1>2, <2>1, <2>3
    <2> QED BY <2>2, <2>3
  <1>4. PICK revision \in Nat : revision = (IF ask[r].into = "new" THEN 0 ELSE head'.current)
    BY <1>3, HeadAssumption
  <1>5. PICK i \in RunIds, old \in Run, content \in Content :
          i = ask[r].run /\ old = run[i] /\ content = ask[r].content /\ old = ask[r].row
    BY <1>1 DEF RunSound, Request, RunsInv, RunsTypeOK
  <1>6. old.decisions \in Seq(Decision) /\ old.acceptances \in Seq(Acceptance)
    BY DEF Run
  <1>7. content = Proposed(old.decisions)
    BY <1>1, <1>5 DEF RunSound
  <1> DEFINE e == [content |-> content, revision |-> revision]
  <1>8. e \in Acceptance /\ e.content = content
    BY DEF Acceptance
  <1> HIDE DEF e
  <1>9. PICK acceptances \in Seq(Acceptance) : acceptances = Append(old.acceptances, e)
    <2>1. Append(old.acceptances, e) \in Seq(Acceptance)
      BY <1>6, <1>8
    <2> QED BY <2>1
  <1> DEFINE new == [old EXCEPT !.decisions = old.decisions, !.acceptances = acceptances]
  <1>10. /\ new \in Run /\ new.status = old.status /\ new.decisions = old.decisions
         /\ new.acceptances = acceptances
    BY <1>6 DEF Run
  <1>11. run' = [run EXCEPT ![i] = new]
    BY <1>2, <1>4, <1>5, <1>9 DEF e
  <1>12. Owner(r, i) /\ old.status # "none"
    BY <1>1, <1>5 DEF Owner, RunSound, Exists
  <1> HIDE DEF new
  <1>13. Grows(old, new)
    BY <1>6, <1>8, <1>9, <1>10, SubSeqWhole, SubSeqAppend DEF Grows
  <1>14. RowStep(old, new, i \in cited)
    <2>1. acceptances[Len(acceptances)] = e
      BY <1>6, <1>8, <1>9
    <2> QED BY <1>7, <1>8, <1>10, <1>13, <2>1 DEF RowStep
  <1> QED BY <1>3, <1>5, <1>10, <1>11, <1>12, <1>14 DEF RunWrite

LEMMA DeleteWrites ==
    ASSUME RunsInv, NEW r \in Requests, Delete(r)
    PROVE  RunWrite(r)
  <1>1. /\ ask[r] \in Request /\ RunSound(r) /\ ask[r].pc = "locked"
        /\ run' = [run EXCEPT ![ask[r].run] = NoRow]
        /\ ask[r].row.acceptances = <<>> /\ ask[r].run \notin cited
    BY DEF Delete, Deletable, AtStage, RunsInv, RunsTypeOK
  <1>2. PICK i \in RunIds, old \in Run : i = ask[r].run /\ old = run[i] /\ old = ask[r].row
    BY <1>1 DEF RunSound, Request, RunsInv, RunsTypeOK
  <1>3. NoRow.status = "none" /\ NoRow.acceptances = <<>>
    BY DEF NoRow
  <1>4. RowStep(old, NoRow, i \in cited)
    BY <1>1, <1>2, <1>3 DEF RowStep
  <1>5. Owner(r, i)
    BY <1>1, <1>2 DEF Owner
  <1> QED BY <1>1, <1>2, <1>4, <1>5, NoRowType DEF RunWrite

LEMMA WriteKeepsRuns ==
    ASSUME RunsInv, NEW r \in Requests, RunWrite(r), Answer(r),
           head' \in [status : {"active", "archived", "deleted"}, current : 1 .. MaxRevision]
    PROVE  RunsInv'
  <1>1. PICK i \in RunIds, new \in Run :
          /\ Owner(r, i)
          /\ run' = [run EXCEPT ![i] = new]
          /\ new.status = "none" => new = NoRow
    BY DEF RunWrite
  <1>2. run \in [RunIds -> Run]
    BY DEF RunsInv, RunsTypeOK
  <1>3. /\ run' \in [RunIds -> Run]
        /\ \A j \in RunIds : run'[j] = run[j] \/ Owner(r, j)
    BY <1>1, <1>2
  <1>4. \A j \in RunIds : run'[j].status = "none" => run'[j] = NoRow
    BY <1>1, <1>2 DEF RunsInv, NoneIsEmpty, Exists
  <1> QED BY <1>3, <1>4, AnswerKeepsRuns

(* The steps of a request about runs: what they do to the runs, and that   *)
(* they keep the invariant.                                                *)
LEMMA RunStepCases ==
    ASSUME RunsInv, NEW r \in Requests, RunStep(r)
    PROVE  /\ RunsInv'
           /\ ask[r].pc # "idle" /\ \A q \in Requests \ {r} : ask'[q] = ask[q]
           /\ headLock \notin {r, Nobody} => headLock' = headLock
           /\ run' = run \/ RunWrite(r)
  <1>0. ask \in [Requests -> Request]
    BY DEF RunsInv, RunsTypeOK
  <1>1. CASE Discover(r)
    BY <1>0, <1>1, DiscoverKeepsRuns DEF Discover, AtStage, headVars, runVars
  <1>2. CASE Propose(r)
    BY <1>0, <1>2, ProposeKeepsRuns DEF Propose, AtStage, headVars, runVars
  <1>3. CASE Admit(r)
    BY <1>0, <1>3, AdmitKeepsRuns DEF Admit, AtStage, runVars
  <1>4. CASE Based(r)
    BY <1>0, <1>4, BasedKeepsRuns DEF Based, AtStage, runVars
  <1>5. CASE LockRun(r)
    BY <1>0, <1>5, LockRunKeepsRuns DEF LockRun, ReadyToLock, AtStage, headVars
  <1>6. ASSUME Answer(r)
        PROVE  /\ \A q \in Requests \ {r} : ask'[q] = ask[q]
               /\ headLock \notin {r, Nobody} => headLock' = headLock
    BY <1>0, <1>6, AnswerFrame
  <1>7. CASE Refuse(r) /\ ask[r].pc # "idle"
    BY <1>6, <1>7, RefuseKeepsRuns DEF Refuse
  <1>8. CASE RunWrite(r) /\ Answer(r) /\ ask[r].pc # "idle" /\
             head' \in [status : {"active", "archived", "deleted"}, current : 1 .. MaxRevision]
    BY <1>6, <1>8, WriteKeepsRuns
  <1>9. ASSUME Denied(r) \/ ProposeRefused(r) \/ BaseRefused(r) \/ RunGone(r) \/ DecideRefused(r)
               \/ AcceptRefused(r) \/ DeleteRefused(r)
        PROVE  Refuse(r) /\ ask[r].pc # "idle"
    BY <1>9 DEF Denied, ProposeRefused, BaseRefused, RunGone, DecideRefused, AcceptRefused,
                DeleteRefused, AtStage, ReadyToLock
  <1>10. ASSUME StoreRun(r) \/ Decide(r) \/ Accept(r) \/ Delete(r)
         PROVE  /\ RunWrite(r) /\ Answer(r) /\ ask[r].pc # "idle"
                /\ head' \in [status : {"active", "archived", "deleted"}, current : 1 .. MaxRevision]
    <2>1. head \in [status : {"active", "archived", "deleted"}, current : 1 .. MaxRevision]
      BY DEF RunsInv, RunsTypeOK, HeadTypeOK
    <2>2. CASE StoreRun(r)
      BY <2>1, <2>2, StoreRunWrites DEF StoreRun, AtStage
    <2>3. CASE Decide(r)
      BY <2>1, <2>3, DecideWrites DEF Decide, AtStage
    <2>4. CASE Accept(r)
      BY <2>4, AcceptWrites DEF Accept, AtStage
    <2>5. CASE Delete(r)
      BY <2>1, <2>5, DeleteWrites DEF Delete, AtStage
    <2> QED BY <1>10, <2>2, <2>3, <2>4, <2>5
  <1> QED BY <1>1, <1>2, <1>3, <1>4, <1>5, <1>7, <1>8, <1>9, <1>10 DEF RunStep

----------------------------------------------------------------------------
(* Drift: what a step keeps of the others' work. *)

LEMMA OtherWorkKeepsRuns ==
    ASSUME RunsInv, NEW r \in Requests, ask[r].pc = "idle", run' = run, ask' = ask, RunsTypeOK',
           \A i \in RunIds : runLock[i] \notin {r, Nobody} => runLock'[i] = runLock[i]
    PROVE  RunsInv'
  <1>1. ASSUME NEW q \in Requests PROVE RunSound(q)'
    <2>1. RunSound(q) /\ q # Nobody
      BY HeadAssumption DEF RunsInv
    <2>2. ask[q].pc = "locked" => q # r /\ ask[q].run \in RunIds
      BY <2>1 DEF RunSound
    <2> QED BY <2>1, <2>2 DEF RunSound, Making, Exists
  <1> QED BY <1>1 DEF RunsInv, MadeApart, Making, NoneIsEmpty, Exists

(* A request writes only items it has locked, all of them in an analysis. *)
Holds(r, k) == /\ work[r].pc = "locked"
               /\ work[r].op = "analyze" \/ (work[r].op = "review" /\ work[r].key = k)

LEMMA WorkKeeps ==
    ASSUME IInv, NEW r \in Requests, NEW x \in Work, work' = [work EXCEPT ![r] = x],
           ask[r].pc = "idle", ask' = ask, RunsInv', WorkTypeOK', ItemsInv', WorkSound(r)',
           headLock \notin {r, Nobody} => headLock' = headLock,
           \A k \in Keys : itemLock[k] \notin {r, Nobody} => itemLock'[k] = itemLock[k],
           \A k \in Keys : item'[k] = item[k] \/ Holds(r, k),
           \A k \in Keys : item[k].first # 0 => item'[k].first # 0
    PROVE  IInv'
  <1>1. work'[r] = x /\ \A q \in Requests \ {r} : work'[q] = work[q]
    BY DEF IInv, WorkTypeOK
  <1>2. Apart'
    BY <1>1 DEF IInv, Apart
  <1>3. ASSUME NEW q \in Requests \ {r} PROVE WorkSound(q)'
    <2>1. WorkSound(q) /\ WorkSound(r) /\ q # Nobody /\ work'[q] = work[q]
      BY <1>1, HeadAssumption DEF IInv
    <2>2. headLock = q => headLock' = q
      BY <2>1
    <2>3. ASSUME work[q].op = "analyze", work[q].pc = "locked", NEW k \in Keys
          PROVE  /\ work[q].seen[k] = item'[k]
                 /\ item'[k].first # 0 => itemLock'[k] = q
      <3>1. headLock = q /\ work[q].seen[k] = item[k] /\ (item[k].first # 0 => itemLock[k] = q)
        BY <2>1, <2>3 DEF WorkSound
      <3>2. ~Holds(r, k)
        BY <2>1, <3>1 DEF Holds, WorkSound
      <3>3. item'[k] = item[k]
        BY <3>2
      <3> QED BY <2>1, <3>1, <3>3
    <2>4. ASSUME work[q].op = "review", work[q].pc \notin {"idle", "done"}
          PROVE  work[q].key \in Keys /\ item'[work[q].key].first # 0
      BY <2>1, <2>4 DEF WorkSound
    <2>5. ASSUME work[q].op = "review", work[q].pc = "locked"
          PROVE  /\ work[q].seen[work[q].key] = item'[work[q].key]
                 /\ itemLock'[work[q].key] = q
      <3>1. PICK k \in Keys : k = work[q].key
        BY <2>4, <2>5
      <3>2. itemLock[k] = q /\ work[q].seen[k] = item[k] /\ item[k].first # 0
        BY <2>1, <2>5, <3>1 DEF WorkSound
      <3>3. ~Holds(r, k)
        BY <2>1, <3>1, <3>2 DEF Holds, WorkSound
      <3> QED BY <2>1, <3>1, <3>2, <3>3
    <2> QED BY <2>1, <2>2, <2>3, <2>4, <2>5 DEF WorkSound
  <1> QED BY <1>2, <1>3 DEF IInv

(* The requests about runs and the steps of the architecture. *)
LEMMA RunStepKeeps ==
    ASSUME IInv, NEW r \in Requests, UNCHANGED driftVars, work[r].pc = "idle",
           RunsInv', \A q \in Requests \ {r} : ask'[q] = ask[q],
           headLock \notin {r, Nobody} => headLock' = headLock
    PROVE  IInv'
  <1>1. UNCHANGED <<analyses, item, itemLock, work>>
    BY DEF driftVars
  <1>2. Apart'
    BY <1>1 DEF IInv, Apart
  <1>3. WorkTypeOK' /\ ItemsInv'
    BY <1>1 DEF IInv, WorkTypeOK, ItemsInv
  <1>4. ASSUME NEW q \in Requests PROVE WorkSound(q)'
    <2>1. WorkSound(q) /\ q # Nobody
      BY HeadAssumption DEF IInv
    <2>2. headLock = q /\ work[q].pc # "idle" => headLock' = q
      BY <2>1
    <2> QED BY <1>1, <2>1, <2>2 DEF WorkSound
  <1> QED BY <1>2, <1>3, <1>4 DEF IInv

LEMMA HeadStepKeeps ==
    ASSUME IInv, HeadStep, UNCHANGED <<runVars, ask, driftVars>>
    PROVE  IInv'
  <1>1. UNCHANGED <<projectLock, headLock, run, runLock, cited, citing, ask, analyses, item, itemLock, work>>
    BY DEF HeadStep, Revised, HeadMoved, ProjectMoved, runVars, driftVars
  <1> DEFINE Heads == [status : {"active", "archived", "deleted"}, current : 1 .. MaxRevision]
  <1>2. head \in Heads /\ project \in ProjectStatus /\ head.current \in 1 .. MaxRevision
    BY DEF IInv, RunsInv, RunsTypeOK, HeadTypeOK, ProjectTypeOK
  <1>3. head' \in Heads
    <2>1. CASE Revised
      <3>1. PICK n \in 1 .. MaxRevision : n = head.current + 1
        BY <1>2, <2>1, HeadAssumption DEF Revised
      <3>2. head' = [head EXCEPT !.current = n]
        BY <1>2, <2>1, <3>1 DEF Revised
      <3> QED BY <1>2, <3>2
    <2>2. CASE HeadMoved
      BY <1>2, <2>2 DEF HeadMoved
    <2>3. CASE ProjectMoved
      BY <1>2, <2>3 DEF ProjectMoved
    <2> QED BY <2>1, <2>2, <2>3 DEF HeadStep
  <1>4. project' \in ProjectStatus
    BY <1>2 DEF HeadStep, Revised, HeadMoved, ProjectMoved, StepTarget, ProjectStatus
  <1>5. RunsTypeOK'
    BY <1>1, <1>3, <1>4 DEF IInv, RunsInv, RunsTypeOK, HeadTypeOK, ProjectTypeOK
  <1>6. RunsInv'
    BY <1>1, <1>5 DEF IInv, RunsInv, RunSound, MadeApart, Making, NoneIsEmpty, Exists
  <1> QED BY <1>1, <1>6 DEF IInv, Apart, WorkTypeOK, ItemsInv, WorkSound

----------------------------------------------------------------------------
(* Drift: types and the end of a request. *)

LEMMA NoAnalysisType == NoAnalysis \in Analysis
  BY DiscoveryAssumption DEF NoAnalysis, Analysis

LEMMA NoWorkType == NoWork \in Work
  <1>1. NoItems \in [Keys -> Item]
    BY NoItemType DEF NoItems
  <1> QED BY <1>1, NoAnalysisType DEF NoWork, Work, ReviewActions

LEMMA DoneFrame ==
    ASSUME IInv, NEW r \in Requests, Done(r)
    PROVE  LET x == [NoWork EXCEPT !.pc = "done"] IN
           /\ work' = [work EXCEPT ![r] = x] /\ x \in Work /\ x.pc = "done" /\ work'[r] = x
           /\ ask' = ask /\ run' = run
           /\ itemLock' \in [Keys -> Requests \cup {Nobody}]
           /\ headLock \notin {r, Nobody} => headLock' = headLock
           /\ \A k \in Keys : itemLock[k] \notin {r, Nobody} => itemLock'[k] = itemLock[k]
           /\ \A i \in RunIds : runLock[i] \notin {r, Nobody} => runLock'[i] = runLock[i]
           /\ cited' \subseteq RunIds => RunsTypeOK'
  <1> DEFINE x == [NoWork EXCEPT !.pc = "done"]
  <1>1. x \in Work /\ x.pc = "done"
    BY NoWorkType DEF Work
  <1>2. /\ work' = [work EXCEPT ![r] = x] /\ UNCHANGED <<project, head, run, ask>> /\ Release(r)
        /\ citing' = [citing EXCEPT ![r] = NoRun]
        /\ itemLock' = [k \in Keys |-> IF itemLock[k] = r THEN Nobody ELSE itemLock[k]]
    BY DEF Done
  <1> HIDE DEF x
  <1>3. work'[r] = x
    BY <1>2 DEF IInv, WorkTypeOK
  <1>4. /\ itemLock' \in [Keys -> Requests \cup {Nobody}]
        /\ \A k \in Keys : itemLock[k] \notin {r, Nobody} => itemLock'[k] = itemLock[k]
    BY <1>2 DEF IInv, WorkTypeOK
  <1>5. RunsTypeOK
    BY DEF IInv, RunsInv
  <1>6. /\ headLock \notin {r, Nobody} => headLock' = headLock
        /\ \A i \in RunIds : runLock[i] \notin {r, Nobody} => runLock'[i] = runLock[i]
        /\ cited' \subseteq RunIds => RunsTypeOK'
    BY <1>2, <1>5 DEF Release, Unlock, LockModes, RunsTypeOK, HeadTypeOK, ProjectTypeOK
  <1> QED BY <1>1, <1>2, <1>3, <1>4, <1>6 DEF x

(* ... whatever it stored. *)
LEMMA DoneKeeps ==
    ASSUME IInv, NEW r \in Requests, work[r].pc # "idle", Done(r),
           cited' \subseteq RunIds, analyses' \in Seq(Analysis), item' \in [Keys -> Item], ItemsInv',
           \A k \in Keys : item'[k] = item[k] \/ Holds(r, k),
           \A k \in Keys : item[k].first # 0 => item'[k].first # 0
    PROVE  IInv'
  <1> DEFINE x == [NoWork EXCEPT !.pc = "done"]
  <1>1. /\ work' = [work EXCEPT ![r] = x] /\ x \in Work /\ x.pc = "done" /\ work'[r] = x
        /\ ask' = ask /\ run' = run
        /\ itemLock' \in [Keys -> Requests \cup {Nobody}]
        /\ headLock \notin {r, Nobody} => headLock' = headLock
        /\ \A k \in Keys : itemLock[k] \notin {r, Nobody} => itemLock'[k] = itemLock[k]
        /\ \A i \in RunIds : runLock[i] \notin {r, Nobody} => runLock'[i] = runLock[i]
        /\ RunsTypeOK'
    BY DoneFrame
  <1> HIDE DEF x
  <1>2. ask[r].pc = "idle"
    BY DEF IInv, Apart
  <1>3. RunsInv'
    BY <1>1, <1>2, OtherWorkKeepsRuns DEF IInv
  <1>4. WorkTypeOK'
    BY <1>1 DEF IInv, WorkTypeOK
  <1>5. WorkSound(r)'
    BY <1>1 DEF WorkSound
  <1> QED BY <1>1, <1>2, <1>3, <1>4, <1>5, WorkKeeps

LEMMA WorkRefusedKeeps ==
    ASSUME IInv, NEW r \in Requests, work[r].pc # "idle", WorkRefused(r)
    PROVE  IInv'
  <1>1. Done(r) /\ UNCHANGED <<cited, analyses, item>>
    BY DEF WorkRefused
  <1>2. cited' \subseteq RunIds /\ analyses' \in Seq(Analysis) /\ item' \in [Keys -> Item] /\ ItemsInv'
    BY <1>1 DEF IInv, RunsInv, RunsTypeOK, WorkTypeOK, ItemsInv
  <1> QED BY <1>1, <1>2, DoneKeeps

----------------------------------------------------------------------------
(* Drift: the steps. *)

LEMMA ProgressKeeps ==
    ASSUME IInv, NEW r \in Requests, ask[r].pc = "idle",
           NEW x \in Work, work' = [work EXCEPT ![r] = x],
           UNCHANGED <<project, head, run, runLock, cited, ask, analyses, item>>,
           projectLock' \in [Requests -> LockModes],
           headLock' \in Requests \cup {Nobody},
           citing' \in [Requests -> RunIds \cup {NoRun}],
           itemLock' \in [Keys -> Requests \cup {Nobody}],
           headLock \notin {r, Nobody} => headLock' = headLock,
           \A k \in Keys : itemLock[k] \notin {r, Nobody} => itemLock'[k] = itemLock[k],
           WorkSound(r)'
    PROVE  IInv'
  <1>1. RunsTypeOK'
    BY DEF IInv, RunsInv, RunsTypeOK, HeadTypeOK, ProjectTypeOK
  <1>2. RunsInv'
    BY <1>1, OtherWorkKeepsRuns DEF IInv
  <1>3. WorkTypeOK' /\ ItemsInv'
    BY DEF IInv, WorkTypeOK, ItemsInv
  <1> QED BY <1>2, <1>3, WorkKeeps

(* The types a step leaves alone. *)
LEMMA LocksTyped ==
    ASSUME IInv
    PROVE  /\ projectLock \in [Requests -> LockModes] /\ headLock \in Requests \cup {Nobody}
           /\ citing \in [Requests -> RunIds \cup {NoRun}]
           /\ itemLock \in [Keys -> Requests \cup {Nobody}]
           /\ work \in [Requests -> Work]
  BY DEF IInv, RunsInv, RunsTypeOK, HeadTypeOK, ProjectTypeOK, WorkTypeOK

LEMMA AskWorkKeeps ==
    ASSUME IInv, NEW r \in Requests, AskWork(r)
    PROVE  IInv'
  <1>1. /\ ask[r].pc = "idle"
        /\ UNCHANGED <<project, projectLock, head, headLock, run, runLock, cited, citing, ask,
                       analyses, item, itemLock>>
    BY DEF AskWork, headVars, runVars
  <1>2. CASE \E i \in RunIds : work' = [work EXCEPT ![r] =
                 [NoWork EXCEPT !.pc = "asked", !.op = "analyze", !.run = i]]
    <2>1. PICK i \in RunIds : work' = [work EXCEPT ![r] =
                 [NoWork EXCEPT !.pc = "asked", !.op = "analyze", !.run = i]]
      BY <1>2
    <2> DEFINE x == [NoWork EXCEPT !.pc = "asked", !.op = "analyze", !.run = i]
    <2>2. x \in Work /\ x.pc = "asked" /\ x.op = "analyze" /\ x.run = i
      BY NoWorkType DEF Work
    <2>3. work' = [work EXCEPT ![r] = x]
      BY <2>1
    <2> HIDE DEF x
    <2>4. WorkSound(r)'
      BY <2>2, <2>3, LocksTyped DEF WorkSound
    <2> QED BY <1>1, <2>2, <2>3, <2>4, LocksTyped, ProgressKeeps
  <1>3. CASE \E k \in Keys, action \in ReviewActions :
            \E evidence \in IF action = "resolve" THEN 0 .. Len(analyses) ELSE {0} :
               /\ item[k].first # 0
               /\ work' = [work EXCEPT ![r] =
                    [NoWork EXCEPT !.pc = "asked", !.op = "review", !.key = k, !.action = action,
                                   !.evidence = evidence]]
    <2>1. PICK k \in Keys, action \in ReviewActions :
            \E evidence \in IF action = "resolve" THEN 0 .. Len(analyses) ELSE {0} :
               /\ item[k].first # 0
               /\ work' = [work EXCEPT ![r] =
                    [NoWork EXCEPT !.pc = "asked", !.op = "review", !.key = k, !.action = action,
                                   !.evidence = evidence]]
      BY <1>3
    <2>2. PICK evidence \in IF action = "resolve" THEN 0 .. Len(analyses) ELSE {0} :
               /\ item[k].first # 0
               /\ work' = [work EXCEPT ![r] =
                    [NoWork EXCEPT !.pc = "asked", !.op = "review", !.key = k, !.action = action,
                                   !.evidence = evidence]]
      BY <2>1
    <2>3. evidence \in Nat
      BY <2>2
    <2> DEFINE x == [NoWork EXCEPT !.pc = "asked", !.op = "review", !.key = k, !.action = action,
                                   !.evidence = evidence]
    <2>4. x \in Work /\ x.pc = "asked" /\ x.op = "review" /\ x.key = k
      BY <2>3, NoWorkType DEF Work
    <2>5. work' = [work EXCEPT ![r] = x] /\ item[k].first # 0
      BY <2>2
    <2> HIDE DEF x
    <2>6. WorkSound(r)'
      BY <1>1, <2>4, <2>5, LocksTyped DEF WorkSound
    <2> QED BY <1>1, <2>4, <2>5, <2>6, LocksTyped, ProgressKeeps
  <1> QED BY <1>2, <1>3, Zenon DEF AskWork

LEMMA GatherInputsKeeps ==
    ASSUME IInv, NEW r \in Requests, GatherInputs(r)
    PROVE  IInv'
  <1>1. /\ work[r] \in Work /\ WorkSound(r) /\ work[r].pc = "asked" /\ work[r].op = "analyze"
        /\ ask[r].pc = "idle"
    BY DEF GatherInputs, At, IInv, WorkTypeOK, Apart
  <1> DEFINE x == [work[r] EXCEPT !.pc = "gathered"]
  <1>2. x \in Work /\ x.pc = "gathered" /\ x.op = "analyze" /\ x.run = work[r].run
    BY <1>1 DEF Work
  <1>3. /\ work' = [work EXCEPT ![r] = x]
        /\ UNCHANGED <<project, projectLock, head, headLock, run, runLock, cited, citing, ask,
                       analyses, item, itemLock>>
    BY LocksTyped DEF GatherInputs, Goto, headVars, runVars
  <1> HIDE DEF x
  <1>4. WorkSound(r)'
    BY <1>1, <1>2, <1>3, LocksTyped DEF WorkSound
  <1> QED BY <1>1, <1>2, <1>3, <1>4, LocksTyped, ProgressKeeps

LEMMA CompareKeeps ==
    ASSUME IInv, NEW r \in Requests, Compare(r)
    PROVE  IInv'
  <1>1. /\ work[r] \in Work /\ WorkSound(r) /\ work[r].pc = "gathered" /\ work[r].op = "analyze"
        /\ ask[r].pc = "idle"
    BY DEF Compare, At, IInv, WorkTypeOK, Apart
  <1>2. PICK compared \in BOOLEAN, found \in SUBSET Keys, inspected \in SUBSET Artifacts,
             from \in SUBSET Artifacts :
          work' = [work EXCEPT ![r].pc = "compared", ![r].analysis =
              [run |-> work[r].run, compared |-> compared, found |-> found,
               inspected |-> inspected, from |-> from]]
    BY DEF Compare
  <1>3. PICK analysis \in Analysis :
          analysis = [run |-> work[r].run, compared |-> compared, found |-> found,
                      inspected |-> inspected, from |-> from]
    <2>1. work[r].run \in RunIds
      BY <1>1 DEF WorkSound
    <2> QED BY <2>1 DEF Analysis
  <1> DEFINE x == [work[r] EXCEPT !.pc = "compared", !.analysis = analysis]
  <1>4. x \in Work /\ x.pc = "compared" /\ x.op = "analyze" /\ x.run = work[r].run
    BY <1>1 DEF Work
  <1>5. work' = [work EXCEPT ![r] = x]
    BY <1>2, <1>3, LocksTyped
  <1>6. UNCHANGED <<project, projectLock, head, headLock, run, runLock, cited, citing, ask,
                    analyses, item, itemLock>>
    BY DEF Compare, headVars, runVars
  <1> HIDE DEF x
  <1>7. WorkSound(r)'
    BY <1>1, <1>4, <1>5, <1>6, LocksTyped DEF WorkSound
  <1> QED BY <1>1, <1>4, <1>5, <1>6, <1>7, LocksTyped, ProgressKeeps

LEMMA AdmitWorkKeeps ==
    ASSUME IInv, NEW r \in Requests, AdmitWork(r)
    PROVE  IInv'
  <1>1. /\ work[r] \in Work /\ WorkSound(r) /\ ask[r].pc = "idle"
        /\ \/ work[r].pc = "compared" /\ work[r].op = "analyze"
           \/ work[r].pc = "asked" /\ work[r].op = "review"
    BY DEF AdmitWork, At, IInv, WorkTypeOK, Apart
  <1> DEFINE x == [work[r] EXCEPT !.pc = "admitted"]
  <1>2. /\ x \in Work /\ x.pc = "admitted" /\ x.op = work[r].op /\ x.run = work[r].run
        /\ x.key = work[r].key
    BY <1>1 DEF Work
  <1>3. /\ work' = [work EXCEPT ![r] = x]
        /\ UNCHANGED <<project, head, headLock, run, runLock, cited, citing, ask,
                       analyses, item, itemLock>>
    BY LocksTyped DEF AdmitWork, runVars
  <1>4. projectLock' \in [Requests -> LockModes]
    BY LocksTyped DEF AdmitWork, Lock, LockModes
  <1> HIDE DEF x
  <1>5. WorkSound(r)'
    BY <1>1, <1>2, <1>3, LocksTyped DEF WorkSound
  <1> QED BY <1>1, <1>2, <1>3, <1>4, <1>5, LocksTyped, ProgressKeeps

LEMMA HoldArchitectureKeeps ==
    ASSUME IInv, NEW r \in Requests, HoldArchitecture(r)
    PROVE  IInv'
  <1>1. /\ work[r] \in Work /\ WorkSound(r) /\ work[r].pc = "admitted" /\ work[r].op = "analyze"
        /\ ask[r].pc = "idle"
    BY DEF HoldArchitecture, At, IInv, WorkTypeOK, Apart
  <1> DEFINE x == [work[r] EXCEPT !.pc = "held"]
  <1>2. x \in Work /\ x.pc = "held" /\ x.op = "analyze" /\ x.run = work[r].run
    BY <1>1 DEF Work
  <1>3. /\ work' = [work EXCEPT ![r] = x] /\ headLock = Nobody /\ headLock' = r
        /\ UNCHANGED <<project, projectLock, head, run, runLock, cited, citing, ask,
                       analyses, item, itemLock>>
    BY LocksTyped DEF HoldArchitecture, runVars
  <1> HIDE DEF x
  <1>4. WorkSound(r)'
    BY <1>1, <1>2, <1>3, LocksTyped DEF WorkSound
  <1> QED BY <1>1, <1>2, <1>3, <1>4, LocksTyped, ProgressKeeps

LEMMA AddAnalysisKeeps ==
    ASSUME IInv, NEW r \in Requests, AddAnalysis(r)
    PROVE  IInv'
  <1>1. /\ work[r] \in Work /\ WorkSound(r) /\ work[r].pc = "held" /\ work[r].op = "analyze"
        /\ ask[r].pc = "idle"
    BY DEF AddAnalysis, At, IInv, WorkTypeOK, Apart
  <1>2. work[r].run \in RunIds /\ headLock = r
    BY <1>1 DEF WorkSound
  <1> DEFINE x == [work[r] EXCEPT !.pc = "added"]
  <1>3. x \in Work /\ x.pc = "added" /\ x.op = "analyze" /\ x.run = work[r].run
    BY <1>1 DEF Work
  <1>4. /\ work' = [work EXCEPT ![r] = x] /\ citing' = [citing EXCEPT ![r] = work[r].run]
        /\ UNCHANGED <<project, projectLock, head, headLock, run, runLock, cited, ask,
                       analyses, item, itemLock>>
    BY LocksTyped DEF AddAnalysis, headVars
  <1>5. citing' \in [Requests -> RunIds \cup {NoRun}]
    BY <1>2, <1>4, LocksTyped
  <1> HIDE DEF x
  <1>6. WorkSound(r)'
    BY <1>2, <1>3, <1>4, LocksTyped DEF WorkSound
  <1> QED BY <1>1, <1>3, <1>4, <1>5, <1>6, LocksTyped, ProgressKeeps

LEMMA LockItemsKeeps ==
    ASSUME IInv, NEW r \in Requests, LockItems(r)
    PROVE  IInv'
  <1>1. /\ work[r] \in Work /\ WorkSound(r) /\ ask[r].pc = "idle"
        /\ \/ work[r].pc = "added" /\ work[r].op = "analyze"
           \/ work[r].pc = "admitted" /\ work[r].op = "review"
    BY DEF LockItems, ReadyForItems, At, IInv, WorkTypeOK, Apart
  <1>2. item \in [Keys -> Item]
    BY DEF IInv, WorkTypeOK
  <1>3. PICK seen \in [Keys -> Item] :
          seen = [k \in Keys |-> IF k \in Wanted(r) THEN item[k] ELSE NoItem]
    BY <1>2, NoItemType
  <1> DEFINE x == [work[r] EXCEPT !.pc = "locked", !.seen = seen]
  <1>4. /\ x \in Work /\ x.pc = "locked" /\ x.op = work[r].op /\ x.run = work[r].run
        /\ x.key = work[r].key /\ x.seen = seen
    BY <1>1 DEF Work
  <1>5. work' = [work EXCEPT ![r] = x]
    BY <1>3, LocksTyped DEF LockItems
  <1>6. /\ \A k \in Wanted(r) : itemLock[k] = Nobody
        /\ itemLock' = [k \in Keys |-> IF k \in Wanted(r) THEN r ELSE itemLock[k]]
        /\ UNCHANGED <<project, projectLock, head, headLock, run, runLock, cited, citing, ask,
                       analyses, item>>
    BY DEF LockItems, headVars, runVars
  <1> HIDE DEF x
  <1>7. /\ itemLock' \in [Keys -> Requests \cup {Nobody}]
        /\ \A k \in Keys : itemLock[k] \notin {r, Nobody} => itemLock'[k] = itemLock[k]
    BY <1>6, LocksTyped
  <1>8. work'[r] = x
    BY <1>5, LocksTyped
  <1>9. CASE work[r].op = "analyze"
    <2>1. work[r].run \in RunIds /\ headLock = r
      BY <1>1, <1>9 DEF WorkSound
    <2>2. Wanted(r) = {k \in Keys : item[k].first # 0}
      BY <1>9 DEF Wanted
    <2>3. ASSUME NEW k \in Keys PROVE seen[k] = item[k] /\ (item[k].first # 0 => itemLock'[k] = r)
      <3>1. item[k].first = 0 => item[k] = NoItem
        <4>1. PICK it \in Item, list \in Seq(Analysis) : it = item[k] /\ list = analyses
          BY <1>2 DEF IInv, WorkTypeOK
        <4>2. Follows(it, k, list)
          BY <4>1 DEF IInv, ItemsInv
        <4> QED BY <4>1, <4>2, FirstTells
      <3> QED BY <1>3, <1>6, <2>2, <3>1
    <2>4. WorkSound(r)'
      BY <1>4, <1>6, <1>8, <1>9, <2>1, <2>3 DEF WorkSound
    <2> QED BY <1>1, <1>4, <1>5, <1>6, <1>7, <2>4, LocksTyped, ProgressKeeps
  <1>10. CASE work[r].op = "review"
    <2>1. work[r].key \in Keys /\ item[work[r].key].first # 0
      BY <1>1, <1>10 DEF WorkSound
    <2>2. Wanted(r) = {work[r].key}
      BY <1>10 DEF Wanted
    <2>3. seen[work[r].key] = item[work[r].key] /\ itemLock'[work[r].key] = r
      BY <1>3, <1>6, <2>1, <2>2
    <2>4. WorkSound(r)'
      BY <1>4, <1>6, <1>8, <1>10, <2>1, <2>3 DEF WorkSound
    <2> QED BY <1>1, <1>4, <1>5, <1>6, <1>7, <2>4, LocksTyped, ProgressKeeps
  <1> QED BY <1>1, <1>9, <1>10

(* HistoryKept, for one item. *)
Recalls(old, new) == SubSeq(new.history, 1, Len(old.history)) = old.history

LEMMA SameRecalls ==
    ASSUME NEW it \in Item
    PROVE  Recalls(it, it)
  <1>1. it.history \in Seq(Event)
    BY DEF Item
  <1> QED BY <1>1, SubSeqWhole DEF Recalls

LEMMA LongerRecalls ==
    ASSUME NEW it \in Item, NEW new \in Item, NEW e \in Event, new.history = Append(it.history, e)
    PROVE  Recalls(it, new)
  <1>1. it.history \in Seq(Event)
    BY DEF Item
  <1> QED BY <1>1, SubSeqAppend DEF Recalls

(* An analysis folds what it found into the items it read. *)
LEMMA FoldWrites ==
    ASSUME IInv, NEW r \in Requests, Fold(r)
    PROVE  /\ \E a \in Analysis : analyses' = Append(analyses, a)
           /\ item' \in [Keys -> Item] /\ ItemsInv'
           /\ \A k \in Keys : item[k].first # 0 => item'[k].first # 0
           /\ \A k \in Keys : Recalls(item[k], item'[k])
  <1>1. /\ work[r] \in Work /\ WorkSound(r) /\ work[r].pc = "locked" /\ work[r].op = "analyze"
    BY DEF Fold, At, IInv, WorkTypeOK
  <1>2. PICK list \in Seq(Analysis), a \in Analysis : list = analyses /\ a = work[r].analysis
    BY <1>1 DEF Work, IInv, WorkTypeOK
  <1>3. analyses' = Append(list, a)
    BY <1>2 DEF Fold
  <1>4. Folded(r) = IF a.compared THEN a.found ELSE {}
    BY <1>2 DEF Folded
  <1>5. item' = [k \in Keys |-> IF k \in Folded(r) THEN Detected(item[k], Len(list) + 1, a.from) ELSE item[k]]
    <2>1. \A k \in Keys : work[r].seen[k] = item[k]
      BY <1>1 DEF WorkSound
    <2> QED BY <1>2, <2>1 DEF Fold
  <1>6. PICK n \in Nat : n = Len(list) + 1
    OBVIOUS
  <1>7. PICK from \in SUBSET Artifacts : from = a.from
    BY DEF Analysis
  <1>8. ASSUME NEW k \in Keys
        PROVE  /\ item'[k] \in Item
               /\ Follows(item'[k], k, Append(list, a)) /\ Tells(item'[k])
               /\ item[k].first # 0 => item'[k].first # 0
               /\ Recalls(item[k], item'[k])
    <2>1. PICK it \in Item : it = item[k]
      BY DEF IInv, WorkTypeOK
    <2>2. Follows(it, k, list) /\ Tells(it)
      BY <1>2, <2>1 DEF IInv, ItemsInv
    <2>3. CASE a.compared /\ k \in a.found
      <3>1. item'[k] = Detected(it, n, from)
        BY <1>4, <1>5, <1>6, <1>7, <2>1, <2>3
      <3>2. Follows(Detected(it, n, from), k, Append(list, a))
        BY <1>6, <1>7, <2>2, <2>3, DetectedFollows
      <3>3. Tells(Detected(it, n, from))
        BY <2>2, DetectedTells
      <3> DEFINE status == IF it.status = "resolved" THEN "reopened" ELSE it.status
                 e == [action |-> "detected", status |-> status, analysis |-> n]
      <3>4. /\ Detected(it, n, from) \in Item
            /\ Detected(it, n, from).history = Append(it.history, e)
            /\ Detected(it, n, from).first = (IF it.first = 0 THEN n ELSE it.first)
        BY DetectedFields
      <3>5. e \in Event
        BY DEF Event, Item, ReviewStatus
      <3>6. Recalls(it, Detected(it, n, from))
        <4> HIDE DEF e
        <4> QED BY <3>4, <3>5, LongerRecalls
      <3> QED BY <2>1, <3>1, <3>2, <3>3, <3>4, <3>6
    <2>4. CASE ~(a.compared /\ k \in a.found)
      <3>1. item'[k] = it
        BY <1>4, <1>5, <2>1, <2>4
      <3>2. Follows(it, k, Append(list, a))
        BY <2>2, <2>4, MissedFollows
      <3> QED BY <2>1, <2>2, <3>1, <3>2, SameRecalls
    <2> QED BY <2>3, <2>4
  <1>9. item' \in [Keys -> Item]
    <2>1. DOMAIN item' = Keys /\ item' = [k \in Keys |-> item'[k]]
      BY <1>5
    <2> QED BY <1>8, <2>1
  <1>10. ItemsInv'
    BY <1>3, <1>8 DEF ItemsInv
  <1> QED BY <1>2, <1>3, <1>8, <1>9, <1>10

LEMMA FoldKeeps ==
    ASSUME IInv, NEW r \in Requests, Fold(r)
    PROVE  IInv'
  <1>1. work[r].pc = "locked" /\ work[r].op = "analyze" /\ work[r].run \in RunIds
    BY DEF Fold, At, IInv, WorkSound
  <1>2. PICK a \in Analysis : analyses' = Append(analyses, a)
    BY FoldWrites
  <1>3. analyses' \in Seq(Analysis)
    BY <1>2 DEF IInv, WorkTypeOK
  <1>4. cited' \subseteq RunIds /\ Done(r)
    BY <1>1 DEF Fold, IInv, RunsInv, RunsTypeOK
  <1>5. \A k \in Keys : Holds(r, k)
    BY <1>1 DEF Holds
  <1> QED BY <1>1, <1>3, <1>4, <1>5, FoldWrites, DoneKeeps

(* A review adds its event to the item it read. *)
LEMMA ReviewWrites ==
    ASSUME IInv, NEW r \in Requests, Review(r)
    PROVE  /\ item' \in [Keys -> Item] /\ ItemsInv'
           /\ \A k \in Keys : item'[k] = item[k] \/ Holds(r, k)
           /\ \A k \in Keys : item[k].first # 0 => item'[k].first # 0
           /\ \A k \in Keys : Recalls(item[k], item'[k])
  <1>1. /\ work[r] \in Work /\ WorkSound(r) /\ work[r].pc = "locked" /\ work[r].op = "review"
    BY DEF Review, At, IInv, WorkTypeOK
  <1>2. PICK k \in Keys, it \in Item, action \in ReviewActions, n \in Nat :
          /\ k = work[r].key /\ it = item[k] /\ it = work[r].seen[k] /\ it.first # 0
          /\ action = work[r].action /\ n = work[r].evidence
    <2>1. work[r].key \in Keys /\ item[work[r].key] \in Item
      BY <1>1 DEF WorkSound, IInv, WorkTypeOK
    <2>2. work[r].action \in ReviewActions /\ work[r].evidence \in Nat
      BY <1>1 DEF Work
    <2> QED BY <1>1, <2>1, <2>2 DEF WorkSound
  <1>3. PICK status \in ReviewStatus : status = LeadsTo(action, it.status)
    <2>1. LeadsTo(action, it.status) \in ReviewStatus
      BY LeadsToType DEF Item
    <2> QED BY <2>1
  <1>4. it.status \in AppliesTo(action)
    BY <1>2 DEF Review, Reviewable
  <1> DEFINE new == Happened(it, action, status, n)
             e == [action |-> action, status |-> status, analysis |-> n]
  <1>5. item' = [item EXCEPT ![k] = new] /\ analyses' = analyses
    BY <1>2, <1>3 DEF Review
  <1>6. PICK list \in Seq(Analysis) : list = analyses
    BY DEF IInv, WorkTypeOK
  <1>7. Follows(it, k, list) /\ Tells(it)
    BY <1>2, <1>6 DEF IInv, ItemsInv
  <1>8. it.history # <<>>
    BY <1>2, <1>7, FirstTells
  <1>9. Follows(new, k, list)
    BY <1>2, <1>7, ReviewedFollows
  <1>10. Tells(new)
    BY <1>3, <1>4, <1>7, <1>8, ReviewedTells
  <1>11. new \in Item /\ new.history = Append(it.history, e) /\ new.first = it.first
    BY HappenedFields
  <1>12. e \in Event
    BY DEF Event
  <1> HIDE DEF new, e
  <1>13. Recalls(it, new)
    BY <1>11, <1>12, LongerRecalls
  <1>14. item \in [Keys -> Item]
    BY DEF IInv, WorkTypeOK
  <1>15. /\ item'[k] = new /\ item' \in [Keys -> Item]
         /\ \A j \in Keys \ {k} : item'[j] = item[j]
    BY <1>5, <1>11, <1>14
  <1>16. ItemsInv'
    BY <1>5, <1>6, <1>9, <1>10, <1>15 DEF IInv, ItemsInv
  <1>17. \A j \in Keys : Recalls(item[j], item'[j])
    BY <1>2, <1>13, <1>14, <1>15, SameRecalls
  <1>18. Holds(r, k)
    BY <1>1, <1>2 DEF Holds
  <1> QED BY <1>2, <1>11, <1>15, <1>16, <1>17, <1>18

LEMMA ReviewKeeps ==
    ASSUME IInv, NEW r \in Requests, Review(r)
    PROVE  IInv'
  <1>1. work[r].pc = "locked" /\ Done(r) /\ UNCHANGED <<cited, analyses>>
    BY DEF Review, At
  <1>2. cited' \subseteq RunIds /\ analyses' \in Seq(Analysis)
    BY <1>1 DEF IInv, RunsInv, RunsTypeOK, WorkTypeOK
  <1> QED BY <1>1, <1>2, ReviewWrites, DoneKeeps

----------------------------------------------------------------------------
(* Every step. *)

LEMMA RefusedSteps ==
    ASSUME NEW r \in Requests,
           \/ NotAllowed(r) \/ ArchitectureGone(r) \/ RunDeleted(r) \/ FoldRefused(r) \/ ReviewRefused(r)
    PROVE  work[r].pc # "idle" /\ WorkRefused(r)
  BY DEF NotAllowed, ArchitectureGone, RunDeleted, FoldRefused, ReviewRefused, At

LEMMA NextIInv == IInv /\ [Next]_vars => IInv'
  <1> SUFFICES ASSUME IInv, [Next]_vars PROVE IInv'
    OBVIOUS
  <1>1. CASE UNCHANGED vars
    <2>1. UNCHANGED <<project, projectLock, head, headLock, run, runLock, cited, citing, ask,
                      analyses, item, itemLock, work>>
      BY <1>1 DEF vars, headVars, runVars
    <2>2. RunsInv'
      BY <2>1 DEF IInv, RunsInv, RunsTypeOK, HeadTypeOK, ProjectTypeOK, RunSound, MadeApart, Making,
                  NoneIsEmpty, Exists
    <2> QED BY <2>1, <2>2 DEF IInv, Apart, WorkTypeOK, ItemsInv, WorkSound
  <1>2. ASSUME NEW r \in Requests, work[r].pc = "idle", Ask(r), UNCHANGED driftVars
        PROVE  IInv'
    <2>1. RunsInv'
      BY <1>2, AskKeepsRuns DEF IInv
    <2>2. PICK x \in Request : ask' = [ask EXCEPT ![r] = x] /\ UNCHANGED <<headVars, runVars>>
      BY <1>2, AskChoice DEF IInv
    <2>3. headLock' = headLock /\ \A q \in Requests \ {r} : ask'[q] = ask[q]
      BY <2>2 DEF headVars, IInv, RunsInv, RunsTypeOK
    <2> QED BY <1>2, <2>1, <2>3, RunStepKeeps
  <1>3. ASSUME NEW r \in Requests, RunStep(r), UNCHANGED driftVars
        PROVE  IInv'
    <2>1. /\ RunsInv' /\ ask[r].pc # "idle" /\ \A q \in Requests \ {r} : ask'[q] = ask[q]
          /\ headLock \notin {r, Nobody} => headLock' = headLock
      BY <1>3, RunStepCases DEF IInv
    <2>2. work[r].pc = "idle"
      BY <2>1 DEF IInv, Apart
    <2> QED BY <1>3, <2>1, <2>2, RunStepKeeps
  <1>4. ASSUME NEW r \in Requests, WorkStep(r) PROVE IInv'
    BY <1>4, RefusedSteps, WorkRefusedKeeps, GatherInputsKeeps, CompareKeeps, AdmitWorkKeeps,
       HoldArchitectureKeeps, AddAnalysisKeeps, LockItemsKeeps, FoldKeeps, ReviewKeeps
       DEF WorkStep
  <1> QED BY <1>1, <1>2, <1>3, <1>4, AskWorkKeeps, HeadStepKeeps DEF Next, Step

LEMMA SeedTypes ==
    /\ Hit \in Analysis /\ Hit.compared /\ Hit.found = Keys /\ Hit.from = Artifacts
    /\ Hit.run \in RunIds
    /\ Clear \in Analysis /\ Clear.found = {} /\ Clear.run \in RunIds
  <1>1. /\ Hit \in Analysis /\ Hit.compared /\ Hit.found = Keys /\ Hit.from = Artifacts
        /\ Hit.run \in RunIds
    BY NoAnalysisType DEF Hit, Analysis
  <1> HIDE DEF Hit
  <1> QED BY <1>1 DEF Clear, Analysis

(* The items at the start follow the analyses at the start. *)
LEMMA SeedSound ==
    ASSUME NEW seed \in Seeds, NEW k \in Keys
    PROVE  /\ seed \in Seq(Analysis)
           /\ Seeded(seed) \in Item /\ Follows(Seeded(seed), k, seed) /\ Tells(Seeded(seed))
  <1>1. /\ Hit \in Analysis /\ Hit.compared /\ k \in Hit.found /\ Hit.from = Artifacts
        /\ Clear \in Analysis /\ k \notin Clear.found /\ Clear # Hit
    BY SeedTypes
  <1>2. PICK hit \in Analysis, clear \in Analysis : hit = Hit /\ clear = Clear
    BY <1>1
  <1>3. hit.compared /\ k \in hit.found /\ hit.from = Artifacts /\ k \notin clear.found /\ clear # hit
    BY <1>1, <1>2
  <1>4. seed \in {<<>>, <<clear, hit>>, <<hit, clear>>}
    BY <1>2 DEF Seeds
  <1>5. Follows(NoItem, k, <<>>) /\ Tells(NoItem)
    <2>1. Detections(<<>>) = {} /\ DetectedBy(k, <<>>) = {}
      BY DEF Detections, DetectedBy
    <2>2. NoItem.history = <<>>
      BY DEF NoItem
    <2>3. Follows(NoItem, k, <<>>)
      <3> HIDE DEF NoItem
      <3> QED BY <2>1, <2>2 DEF Follows
    <2>4. Len(NoItem.history) = 0
      BY <2>2
    <2>5. 2 .. Len(NoItem.history) = {}
      BY <2>4
    <2>6. Tells(NoItem)
      BY <2>2, <2>5, Zenon DEF Tells
    <2> QED BY <2>3, <2>6
  <1>6. <<>> \in Seq(Analysis) /\ Len(<<>>) = 0
    OBVIOUS
  <1>7. /\ <<clear>> = Append(<<>>, clear) /\ <<hit>> = Append(<<>>, hit)
        /\ <<clear, hit>> = Append(<<clear>>, hit) /\ <<hit, clear>> = Append(<<hit>>, clear)
        /\ <<clear>> \in Seq(Analysis) /\ <<hit>> \in Seq(Analysis)
        /\ <<clear, hit>> \in Seq(Analysis) /\ <<hit, clear>> \in Seq(Analysis)
        /\ Len(<<clear>>) = 1 /\ Len(<<hit>>) = 1 /\ Len(<<clear, hit>>) = 2
    OBVIOUS
  <1>8. <<clear, hit>> # <<hit, clear>> /\ <<clear, hit>> # <<>> /\ <<hit, clear>> # <<>>
    BY <1>3
  <1>9. CASE seed = <<>>
    <2>1. Seeded(seed) = NoItem
      BY <1>2, <1>8, <1>9 DEF Seeded
    <2> QED BY <1>5, <1>6, <1>9, <2>1, NoItemType
  <1>10. CASE seed = <<clear, hit>>
    <2>1. Seeded(seed) = Detected(NoItem, 2, Artifacts)
      BY <1>2, <1>7, <1>8, <1>10 DEF Seeded
    <2>2. Follows(NoItem, k, <<clear>>)
      BY <1>3, <1>5, <1>6, <1>7, NoItemType, MissedFollows
    <2>3. Follows(Detected(NoItem, 2, Artifacts), k, <<clear, hit>>)
      <3>1. Follows(Detected(NoItem, Len(<<clear>>) + 1, hit.from), k, Append(<<clear>>, hit))
        BY <1>3, <1>7, <2>2, NoItemType, DetectedFollows
      <3>2. Len(<<clear>>) + 1 = 2
        BY <1>7
      <3> QED BY <1>3, <1>7, <3>1, <3>2
    <2>4. Detected(NoItem, 2, Artifacts) \in Item /\ Tells(Detected(NoItem, 2, Artifacts))
      BY <1>5, NoItemType, DetectedFields, DetectedTells
    <2> QED BY <1>7, <1>10, <2>1, <2>3, <2>4
  <1>11. CASE seed = <<hit, clear>>
    <2> DEFINE it == Detected(NoItem, 1, Artifacts)
    <2>1. Seeded(seed) = Happened(it, "resolve", "resolved", 2)
      BY <1>2, <1>8, <1>11 DEF Seeded
    <2>2. /\ it \in Item /\ it.status = "open" /\ it.first = 1 /\ Tells(it)
      <3>1. NoItem.status = "open" /\ NoItem.first = 0
        BY DEF NoItem
      <3>2. /\ it \in Item /\ Tells(it)
            /\ it.status = (IF NoItem.status = "resolved" THEN "reopened" ELSE NoItem.status)
            /\ it.first = (IF NoItem.first = 0 THEN 1 ELSE NoItem.first)
        <4>1. PICK none \in Item, all \in SUBSET Artifacts, one \in Nat :
                none = NoItem /\ all = Artifacts /\ one = 1
          BY NoItemType
        <4>2. Tells(none)
          BY <1>5, <4>1
        <4> DEFINE status == IF none.status = "resolved" THEN "reopened" ELSE none.status
                   e == [action |-> "detected", status |-> status, analysis |-> one]
                   new == Detected(none, one, all)
        <4>3. /\ new \in Item /\ new.status = status /\ new.history = Append(none.history, e)
              /\ new.first = (IF none.first = 0 THEN one ELSE none.first)
          BY DetectedFields
        <4>4. Tells(new)
          BY <4>2, DetectedTells
        <4>5. new = it
          BY <4>1
        <4> HIDE DEF new, it
        <4> QED BY <4>1, <4>3, <4>4, <4>5
      <3> HIDE DEF it
      <3> QED BY <3>1, <3>2
    <2>3. Follows(it, k, <<hit>>)
      <3>1. Follows(Detected(NoItem, Len(<<>>) + 1, hit.from), k, Append(<<>>, hit))
        BY <1>3, <1>5, <1>6, NoItemType, DetectedFollows
      <3>2. Len(<<>>) + 1 = 1
        BY <1>6
      <3> QED BY <1>3, <1>7, <3>1, <3>2
    <2> HIDE DEF it
    <2>4. Follows(it, k, <<hit, clear>>)
      BY <1>3, <1>7, <2>2, <2>3, MissedFollows
    <2>5. "resolve" \in ReviewActions /\ "resolved" \in ReviewStatus
      BY DEF ReviewActions, ReviewStatus
    <2>6. Follows(Happened(it, "resolve", "resolved", 2), k, <<hit, clear>>)
      <3>1. PICK list \in Seq(Analysis), two \in Nat : list = <<hit, clear>> /\ two = 2
        BY <1>7
      <3>2. it.first # 0
        BY <2>2
      <3>3. Follows(it, k, list)
        BY <2>4, <3>1
      <3>4. Follows(Happened(it, "resolve", "resolved", two), k, list)
        BY <2>2, <2>5, <3>2, <3>3, ReviewedFollows
      <3> QED BY <3>1, <3>4
    <2>7. Tells(Happened(it, "resolve", "resolved", 2))
      <3>1. it.history # <<>>
        <4>1. PICK list \in Seq(Analysis) : list = <<hit>>
          BY <1>7
        <4>2. it.first # 0
          BY <2>2
        <4>3. Follows(it, k, list)
          BY <2>3, <4>1
        <4> QED BY <2>2, <4>2, <4>3, FirstTells
      <3>2. it.status \in AppliesTo("resolve") /\ LeadsTo("resolve", it.status) = "resolved"
        BY <2>2 DEF AppliesTo, LeadsTo, ACTIVE, UNREVIEWED
      <3>3. Tells(Happened(it, "resolve", LeadsTo("resolve", it.status), 2))
        BY <2>2, <2>5, <3>1, <3>2, ReviewedTells
      <3> QED BY <3>2, <3>3
    <2>8. Happened(it, "resolve", "resolved", 2) \in Item
      BY <2>2, <2>5, HappenedFields
    <2> QED BY <1>7, <1>11, <2>1, <2>6, <2>7, <2>8
  <1> QED BY <1>4, <1>9, <1>10, <1>11

LEMMA SeedRuns ==
    ASSUME NEW seed \in Seeds
    PROVE  seed \in Seq(Analysis) /\ {seed[n].run : n \in 1 .. Len(seed)} \subseteq RunIds
  <1>1. PICK hit \in Analysis, clear \in Analysis : hit = Hit /\ clear = Clear
    BY SeedTypes
  <1>2. seed \in {<<>>, <<clear, hit>>, <<hit, clear>>}
    BY <1>1 DEF Seeds
  <1>3. seed \in Seq(Analysis)
    <2>1. /\ <<>> \in Seq(Analysis) /\ <<clear, hit>> \in Seq(Analysis)
          /\ <<hit, clear>> \in Seq(Analysis)
      OBVIOUS
    <2> QED BY <1>2, <2>1, Zenon
  <1>4. \A n \in 1 .. Len(seed) : seed[n] \in Analysis
    BY <1>3
  <1> QED BY <1>3, <1>4 DEF Analysis

LEMMA InitIInv == Init => IInv
  <1> SUFFICES ASSUME Init PROVE IInv
    OBVIOUS
  <1>1. PICK seed \in Seeds :
          /\ analyses = seed /\ cited = {seed[n].run : n \in 1 .. Len(seed)}
          /\ item = [k \in Keys |-> Seeded(seed)]
    BY DEF Init
  <1>2. PICK status \in [Stored -> {"completed", "failed"}] :
          run = [i \in RunIds |-> IF i \in Stored THEN NewRun(status[i]) ELSE NoRow]
    BY DEF Init, RunsInit
  <1>3. ASSUME NEW i \in RunIds
        PROVE  run[i] \in Run /\ (run[i].status = "none" => run[i] = NoRow)
    <2>1. CASE i \in Stored
      <3>1. run[i] = NewRun(status[i]) /\ status[i] \in {"completed", "failed"}
        BY <1>2, <2>1
      <3> QED BY <3>1, NewRunType
    <2>2. CASE i \notin Stored
      BY <1>2, <2>2, NoRowType
    <2> QED BY <2>1, <2>2
  <1>4. run \in [RunIds -> Run]
    <2>1. run = [i \in RunIds |-> run[i]]
      BY <1>2
    <2> QED BY <1>3, <2>1
  <1>5. NoneIsEmpty
    BY <1>3 DEF NoneIsEmpty, Exists
  <1>6. HeadTypeOK
    BY HeadAssumption DEF Init, RunsInit, HeadInit, ProjectInit, HeadTypeOK, ProjectTypeOK, LockModes,
                          ProjectStatus
  <1>7. ask = [r \in Requests |-> NoRequest] /\ work = [r \in Requests |-> NoWork]
    BY DEF Init, RunsInit
  <1>8. NoRequest.pc = "idle" /\ NoRequest.op = "none" /\ NoWork.pc = "idle" /\ NoWork.op = "none"
    BY DEF NoRequest, NoWork
  <1>9. RunsTypeOK
    <2>1. ask \in [Requests -> Request] /\ cited \subseteq RunIds
      BY <1>1, <1>7, NoRequestType, SeedRuns
    <2>2. runLock \in [RunIds -> Requests \cup {Nobody}] /\ citing \in [Requests -> RunIds \cup {NoRun}]
      BY DEF Init, RunsInit
    <2> QED BY <1>4, <1>6, <2>1, <2>2 DEF RunsTypeOK
  <1>10. RunsInv
    BY <1>5, <1>7, <1>8, <1>9 DEF RunsInv, RunSound, MadeApart, Making
  <1>11. Apart /\ \A r \in Requests : WorkSound(r)
    BY <1>7, <1>8 DEF Apart, WorkSound
  <1>12. WorkTypeOK
    <2>1. work \in [Requests -> Work] /\ itemLock \in [Keys -> Requests \cup {Nobody}]
      BY <1>7, NoWorkType DEF Init
    <2>2. analyses \in Seq(Analysis) /\ item \in [Keys -> Item]
      BY <1>1, SeedRuns, SeedSound
    <2> QED BY <2>1, <2>2 DEF WorkTypeOK
  <1>13. ItemsInv
    BY <1>1, SeedSound DEF ItemsInv
  <1> QED BY <1>10, <1>11, <1>12, <1>13 DEF IInv

LEMMA Invariance == Spec => []IInv
  BY InitIInv, NextIInv, PTL DEF Spec

(* Every stored analysis that found a difference is recorded on its item,  *)
(* which knows the first and the last of them and the artifacts they read, *)
(* and whose status is the one its history of detections and reviews leads *)
(* to (DriftService.analyze and review, correlate, DriftItem).             *)
THEOREM ItemsSoundHolds == Spec => []ItemsSound
  <1>1. IInv => ItemsSound
    <2> SUFFICES ASSUME IInv PROVE ItemsSound
      OBVIOUS
    <2>1. TypeOK
      BY DEF IInv, RunsInv, WorkTypeOK, TypeOK
    <2>2. ItemsFollowAnalyses
      BY <2>1, Zenon DEF IInv, ItemsInv, Follows, DetectedBy, Detections, ItemsFollowAnalyses
    <2>3. HistoryTellsStatus
      BY Zenon DEF IInv, ItemsInv, Tells, Continues, HistoryTellsStatus
    <2> QED BY <2>2, <2>3 DEF ItemsSound
  <1> QED BY <1>1, Invariance, PTL

(* Stored analyses and recorded events are never changed or dropped,       *)
(* whichever analyses and reviews run at the same time.                    *)
THEOREM HistoryKeptHolds == Spec => HistoryKept
  <1>1. IInv /\ [Next]_vars =>
          [/\ SubSeq(analyses', 1, Len(analyses)) = analyses
           /\ \A k \in Keys : SubSeq(item'[k].history, 1, Len(item[k].history)) = item[k].history]_vars
    <2> SUFFICES ASSUME IInv, [Next]_vars
                 PROVE  \/ UNCHANGED vars
                        \/ /\ SubSeq(analyses', 1, Len(analyses)) = analyses
                           /\ \A k \in Keys : Recalls(item[k], item'[k])
      BY DEF Recalls
    <2>1. analyses \in Seq(Analysis) /\ item \in [Keys -> Item]
      BY DEF IInv, WorkTypeOK
    <2>2. CASE UNCHANGED <<analyses, item>>
      BY <2>1, <2>2, SubSeqWhole, SameRecalls
    <2>3. ASSUME NEW r \in Requests, Fold(r)
          PROVE  /\ SubSeq(analyses', 1, Len(analyses)) = analyses
                 /\ \A k \in Keys : Recalls(item[k], item'[k])
      BY <2>1, <2>3, FoldWrites, SubSeqAppend
    <2>4. ASSUME NEW r \in Requests, Review(r)
          PROVE  /\ SubSeq(analyses', 1, Len(analyses)) = analyses
                 /\ \A k \in Keys : Recalls(item[k], item'[k])
      <3>1. analyses' = analyses
        BY <2>4 DEF Review
      <3> QED BY <2>1, <2>4, <3>1, ReviewWrites, SubSeqWhole
    <2>5. ASSUME NEW r \in Requests,
                 \/ NotAllowed(r) \/ GatherInputs(r) \/ Compare(r) \/ AdmitWork(r) \/ AskWork(r)
                 \/ HoldArchitecture(r) \/ ArchitectureGone(r) \/ AddAnalysis(r) \/ RunDeleted(r)
                 \/ LockItems(r) \/ FoldRefused(r) \/ ReviewRefused(r)
          PROVE  UNCHANGED <<analyses, item>>
      BY <2>5 DEF NotAllowed, GatherInputs, Compare, AdmitWork, AskWork, HoldArchitecture,
                  ArchitectureGone, AddAnalysis, RunDeleted, LockItems, FoldRefused, ReviewRefused,
                  Goto, WorkRefused
    <2>6. UNCHANGED driftVars => UNCHANGED <<analyses, item>>
      BY DEF driftVars
    <2> QED BY <2>2, <2>3, <2>4, <2>5, <2>6 DEF Next, Step, WorkStep
  <1> QED BY <1>1, Invariance, PTL DEF HistoryKept, Spec

(* What becomes a revision is the proposal under the decisions the run has *)
(* when the acceptance commits, and a run that was accepted or compared    *)
(* with stays, with its decisions and acceptances (DiscoveryService).      *)
THEOREM AcceptedAsDecidedHolds == Spec => AcceptedAsDecided
  <1>1. IInv /\ [Next]_vars =>
          [\A i \in RunIds :
             /\ Len(run'[i].acceptances) > Len(run[i].acceptances) =>
                  run'[i].acceptances[Len(run'[i].acceptances)].content = Proposed(run[i].decisions)
             /\ Exists(i) /\ (run[i].acceptances # <<>> \/ i \in cited) => run'[i].status = run[i].status
             /\ run'[i].status # "none" =>
                  /\ SubSeq(run'[i].decisions, 1, Len(run[i].decisions)) = run[i].decisions
                  /\ SubSeq(run'[i].acceptances, 1, Len(run[i].acceptances)) = run[i].acceptances]_runStateVars
    <2> SUFFICES ASSUME IInv, [Next]_vars
                 PROVE  \A i \in RunIds : RowStep(run[i], run'[i], i \in cited)
      BY Zenon DEF RowStep, Grows, Exists
    <2>1. run \in [RunIds -> Run]
      BY DEF IInv, RunsInv, RunsTypeOK
    <2>2. CASE run' = run
      BY <2>1, <2>2, RowStutters
    <2>3. ASSUME NEW r \in Requests, RunWrite(r)
          PROVE  \A i \in RunIds : RowStep(run[i], run'[i], i \in cited)
      <3>1. PICK j \in RunIds, new \in Run :
              run' = [run EXCEPT ![j] = new] /\ RowStep(run[j], new, j \in cited)
        BY <2>3 DEF RunWrite
      <3>2. run'[j] = new /\ \A i \in RunIds \ {j} : run'[i] = run[i]
        BY <2>1, <3>1
      <3> QED BY <2>1, <3>1, <3>2, RowStutters
    <2>4. ASSUME NEW r \in Requests, RunStep(r) PROVE run' = run \/ RunWrite(r)
      BY <2>4, RunStepCases DEF IInv
    <2>5. ASSUME NEW r \in Requests, Ask(r) PROVE run' = run
      BY <2>5, AskChoice DEF IInv, runVars
    <2>6. ASSUME NEW r \in Requests, WorkStep(r) \/ AskWork(r) PROVE run' = run
      BY <2>6 DEF WorkStep, NotAllowed, GatherInputs, Compare, AdmitWork, AskWork, HoldArchitecture,
                  ArchitectureGone, AddAnalysis, RunDeleted, LockItems, Fold, FoldRefused, Review,
                  ReviewRefused, Goto, WorkRefused, Done, runVars
    <2>7. UNCHANGED vars \/ UNCHANGED runVars => run' = run
      BY DEF vars, runVars
    <2> QED BY <2>2, <2>3, <2>4, <2>5, <2>6, <2>7 DEF Next, Step
  <1> QED BY <1>1, Invariance, PTL DEF AcceptedAsDecided, Spec
=============================================================================
