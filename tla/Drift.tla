-------------------------------- MODULE Drift --------------------------------
(***************************************************************************)
(* Drift analyses of one architecture against discovery runs, the drift    *)
(* items that follow a difference across analyses, and their review by     *)
(* people (DriftService), next to the requests of Discovery.               *)
(*                                                                         *)
(* analyze reads its inputs in one transaction, compares outside of any,   *)
(* and stores in a third one: shared project lock, FOR UPDATE of the       *)
(* architecture, the analysis row (whose foreign key holds the run FOR KEY *)
(* SHARE), FOR UPDATE of the items, then the findings folded into them.    *)
(* review locks its one item.                                              *)
(*                                                                         *)
(* What a comparison finds is any set of keys; a key is the subject and    *)
(* property a finding is about.                                            *)
(***************************************************************************)
EXTENDS Discovery, FiniteSets

CONSTANTS Keys,            \* item keys of the differences
          Artifacts,       \* the source files findings are read from
          MaxAnalyses,     \* bound on the stored analyses
          MAX_HISTORY,     \* events an item may have
          NoKey

ASSUME DriftAssumption ==
    /\ NoKey \notin Keys /\ MaxAnalyses \in Nat \ {0} /\ MAX_HISTORY \in Nat \ {0}

VARIABLES analyses,        \* the drift_analyses table, in commit order
          item,            \* the drift_items table, by key
          itemLock,        \* who holds an item FOR UPDATE
          work             \* the requests of this component

driftVars == <<analyses, item, itemLock, work>>
vars == <<headVars, runVars, ask, analyses, item, itemLock, work>>

ReviewStatus == {"open", "reopened", "acknowledged", "investigating", "accepted", "dismissed", "resolved"}
UNREVIEWED == {"open", "reopened"}
ACTIVE == UNREVIEWED \cup {"acknowledged", "investigating"}
CLOSED == {"accepted", "dismissed", "resolved"}
ReviewActions == {"acknowledge", "investigate", "accept", "dismiss", "resolve", "reopen", "note"}

(* MOVES: the statuses an action applies to, and where it leads. *)
AppliesTo(action) ==
    CASE action = "acknowledge" -> UNREVIEWED
      [] action = "investigate" -> UNREVIEWED \cup {"acknowledged"}
      [] action \in {"accept", "dismiss"} -> ACTIVE
      [] action = "resolve"     -> ACTIVE \cup {"accepted"}
      [] action = "reopen"      -> CLOSED
      [] action = "note"        -> ReviewStatus
LeadsTo(action, status) ==
    CASE action = "acknowledge" -> "acknowledged"
      [] action = "investigate" -> "investigating"
      [] action = "accept"      -> "accepted"
      [] action = "dismiss"     -> "dismissed"
      [] action = "resolve"     -> "resolved"
      [] action = "reopen"      -> "reopened"
      [] action = "note"        -> status

(* An analysis that did not compare its inputs (failed or incompatible)    *)
(* says nothing; from: where its findings were read.                       *)
Analysis == [run : RunIds, compared : BOOLEAN, found : SUBSET Keys,
             inspected : SUBSET Artifacts, from : SUBSET Artifacts]
Event == [action : ReviewActions \cup {"detected"}, status : ReviewStatus, analysis : Nat]
Item == [status : ReviewStatus, first : Nat, last : Nat, history : Seq(Event),
         artifacts : SUBSET Artifacts]
NoItem == [status |-> "open", first |-> 0, last |-> 0, history |-> <<>>, artifacts |-> {}]
NoAnalysis == [run |-> CHOOSE i \in RunIds : TRUE, compared |-> FALSE, found |-> {},
               inspected |-> {}, from |-> {}]

Work == [pc : {"idle", "asked", "gathered", "compared", "admitted", "held", "added", "reading",
               "locked", "done"},
         op : {"none", "analyze", "review"}, run : RunIds \cup {NoRun},
         analysis : Analysis, key : Keys \cup {NoKey}, action : ReviewActions, evidence : Nat,
         seen : [Keys -> Item]]
NoItems == [k \in Keys |-> NoItem]
NoWork == [pc |-> "idle", op |-> "none", run |-> NoRun, analysis |-> NoAnalysis,
           key |-> NoKey, action |-> "note", evidence |-> 0, seen |-> NoItems]

TypeOK ==
    /\ RunsTypeOK
    /\ analyses \in Seq(Analysis)
    /\ item \in [Keys -> Item]
    /\ itemLock \in [Keys -> Requests \cup {Nobody}]
    /\ work \in [Requests -> Work]

Happened(it, action, status, analysis) ==
    [it EXCEPT !.status = status,
               !.history = Append(@, [action |-> action, status |-> status, analysis |-> analysis])]

(* DriftItem.first_seen and detected: a resolved item reopens. *)
Detected_staysResolved(it, n, from) ==
    [Happened(it, "detected", it.status, n) EXCEPT
       !.first = IF @ = 0 THEN n ELSE @, !.last = n, !.artifacts = @ \cup from]
Detected(it, n, from) ==
    [Happened(it, "detected", IF it.status = "resolved" THEN "reopened" ELSE it.status, n) EXCEPT
       !.first = IF @ = 0 THEN n ELSE @, !.last = n, !.artifacts = @ \cup from]

(* The architecture was not analyzed before, or its last analysis detected *)
(* every difference after one that detected none, or one that detects none *)
(* resolved them.                                                          *)
Hit == [NoAnalysis EXCEPT !.compared = TRUE, !.found = Keys, !.inspected = Artifacts, !.from = Artifacts]
Clear == [Hit EXCEPT !.found = {}, !.from = {}]
Seeds == {<<>>, <<Clear, Hit>>, <<Hit, Clear>>}
Seeded(seed) ==
    CASE seed = <<>>           -> NoItem
      [] seed = <<Hit, Clear>> -> Happened(Detected(NoItem, 1, Artifacts), "resolve", "resolved", 2)
      [] OTHER                 -> Detected(NoItem, Len(seed), Artifacts)

Init ==
    /\ RunsInit
    /\ \E seed \in Seeds :
         /\ analyses = seed /\ cited = {seed[n].run : n \in 1 .. Len(seed)}
         /\ \A i \in cited : run[i].status = "completed"
         /\ item = [k \in Keys |-> Seeded(seed)]
    /\ itemLock = [k \in Keys |-> Nobody]
    /\ work = [r \in Requests |-> NoWork]

----------------------------------------------------------------------------

At(r, stage, op) == work[r].pc = stage /\ work[r].op = op

Goto(r, stage) ==
    /\ work' = [work EXCEPT ![r].pc = stage]
    /\ UNCHANGED <<headVars, runVars, ask, analyses, item, itemLock>>

Done(r) ==
    /\ Release(r)
    /\ citing' = [citing EXCEPT ![r] = NoRun]
    /\ itemLock' = [k \in Keys |-> IF itemLock[k] = r THEN Nobody ELSE itemLock[k]]
    /\ work' = [work EXCEPT ![r] = [NoWork EXCEPT !.pc = "done"]]
    /\ UNCHANGED <<project, head, run, ask>>

WorkRefused(r) == Done(r) /\ UNCHANGED <<cited, analyses, item>>

(* Clients name runs, revisions, items and analyses they have read. *)
AskWork(r) ==
    /\ ask[r].pc = "idle" /\ work[r].pc = "idle"
    /\ \/ \E i \in RunIds :
            /\ Exists(i) /\ Len(analyses) < MaxAnalyses
            /\ \A q \in Requests : work[q].op # "analyze" \/ Len(analyses) + 1 < MaxAnalyses
            /\ work' = [work EXCEPT ![r] =
                 [NoWork EXCEPT !.pc = "asked", !.op = "analyze", !.run = i]]
       \/ \E k \in Keys, action \in ReviewActions :
            \E evidence \in IF action = "resolve" THEN 0 .. Len(analyses) ELSE {0} :
               /\ item[k].first # 0
               /\ work' = [work EXCEPT ![r] =
                    [NoWork EXCEPT !.pc = "asked", !.op = "review", !.key = k, !.action = action,
                                   !.evidence = evidence]]
    /\ UNCHANGED <<headVars, runVars, ask, analyses, item, itemLock>>

NotAllowed(r) == work[r].pc \in {"asked", "compared"} /\ WorkRefused(r)

(* _inputs: the architecture, its revision, and a run with a result. *)
GatherInputs(r) ==
    /\ At(r, "asked", "analyze")
    /\ project # "deleted" /\ HeadFound
    /\ run[work[r].run].status = "completed"
    /\ Goto(r, "gathered")

(* engine.run, on a worker thread; its refusal is a failed analysis. *)
Compare(r) ==
    /\ At(r, "gathered", "analyze")
    /\ \E compared \in BOOLEAN, found \in SUBSET Keys, inspected, from \in SUBSET Artifacts :
         /\ compared \/ (found = {} /\ inspected = {})
         /\ found = {} => from = {}
         /\ work' = [work EXCEPT ![r].pc = "compared", ![r].analysis =
              [run |-> work[r].run, compared |-> compared, found |-> found,
               inspected |-> inspected, from |-> from]]
    /\ UNCHANGED <<headVars, runVars, ask, analyses, item, itemLock>>

AdmitWork(r) ==
    /\ At(r, "compared", "analyze") \/ At(r, "asked", "review")
    /\ Lock(r, "share") /\ Modifiable
    /\ work' = [work EXCEPT ![r].pc = "admitted"]
    /\ UNCHANGED <<project, head, headLock, runVars, ask, analyses, item, itemLock>>

(* FOR UPDATE of the architecture: analyses of it fold one after the other. *)
HoldArchitecture_notHeld(r) == At(r, "admitted", "analyze") /\ HeadFound /\ Goto(r, "held")
HoldArchitecture(r) ==
    /\ At(r, "admitted", "analyze")
    /\ headLock = Nobody /\ HeadFound
    /\ headLock' = r
    /\ work' = [work EXCEPT ![r].pc = "held"]
    /\ UNCHANGED <<project, projectLock, head, runVars, ask, analyses, item, itemLock>>

ArchitectureGone(r) ==
    At(r, "admitted", "analyze") /\ headLock = Nobody /\ ~HeadFound /\ WorkRefused(r)

(* add_analysis: the insert waits for whoever holds the run FOR UPDATE. *)
AddAnalysis(r) ==
    /\ At(r, "held", "analyze")
    /\ runLock[work[r].run] = Nobody /\ Exists(work[r].run)
    /\ citing' = [citing EXCEPT ![r] = work[r].run]
    /\ work' = [work EXCEPT ![r].pc = "added"]
    /\ UNCHANGED <<headVars, run, runLock, cited, ask, analyses, item, itemLock>>

(* The run was deleted meanwhile: the foreign key refuses the insert. *)
RunDeleted(r) ==
    At(r, "held", "analyze") /\ runLock[work[r].run] = Nobody /\ ~Exists(work[r].run) /\ WorkRefused(r)

(* items_of(for_update) and get_item(for_update): the items an analysis    *)
(* reads are all of the architecture's, a review's is its own.             *)
Wanted(r) == IF work[r].op = "analyze" THEN {k \in Keys : item[k].first # 0} ELSE {work[r].key}
ReadyForItems(r) == At(r, "added", "analyze") \/ At(r, "admitted", "review")

LockItems_notHeld(r) ==
    /\ ReadyForItems(r)
    /\ work' = [work EXCEPT ![r].pc = "locked", ![r].seen = item]
    /\ UNCHANGED <<headVars, runVars, ask, analyses, item, itemLock>>
LockItems(r) ==
    /\ ReadyForItems(r)
    /\ \A k \in Wanted(r) : itemLock[k] = Nobody
    /\ itemLock' = [k \in Keys |-> IF k \in Wanted(r) THEN r ELSE itemLock[k]]
    /\ work' = [work EXCEPT ![r].pc = "locked",
                  ![r].seen = [k \in Keys |-> IF k \in Wanted(r) THEN item[k] ELSE NoItem]]
    /\ UNCHANGED <<headVars, runVars, ask, analyses, item>>

----------------------------------------------------------------------------
(* correlate. *)

Folded(r) == IF work[r].analysis.compared THEN work[r].analysis.found ELSE {}
Full(it) == Len(it.history) >= MAX_HISTORY

(* save_item and add_items write what was computed from the locked items. *)
Fold(r) ==
    LET n == Len(analyses) + 1 IN
    /\ At(r, "locked", "analyze")
    /\ \A k \in Folded(r) : ~Full(work[r].seen[k])
    /\ analyses' = Append(analyses, work[r].analysis)
    /\ item' = [k \in Keys |-> IF k \in Folded(r)
                               THEN Detected(work[r].seen[k], n, work[r].analysis.from)
                               ELSE item[k]]
    /\ cited' = cited \cup {work[r].run}
    /\ Done(r)

(* history_full: the analysis is not stored at all. *)
FoldRefused(r) ==
    /\ At(r, "locked", "analyze")
    /\ \E k \in Folded(r) : Full(work[r].seen[k])
    /\ WorkRefused(r)

----------------------------------------------------------------------------
(* Review. *)

(* resolution_problem: none when the analysis compared its inputs, no      *)
(* longer detects the difference and read the artifacts it came from.      *)
Resolves(n, k, it) ==
    /\ analyses[n].compared
    /\ k \notin analyses[n].found
    /\ it.artifacts \subseteq analyses[n].inspected

(* Evidence 0 stands for the link to a revision that resolve also accepts. *)
Reviewable(r) ==
    LET it == work[r].seen[work[r].key] IN
    /\ it.status \in AppliesTo(work[r].action)
    /\ work[r].evidence # 0 => Resolves(work[r].evidence, work[r].key, it)
    /\ ~Full(it)

Review(r) ==
    LET k == work[r].key  it == work[r].seen[k] IN
    /\ At(r, "locked", "review")
    /\ Reviewable(r)
    /\ item' = [item EXCEPT ![k] =
                  Happened(it, work[r].action, LeadsTo(work[r].action, it.status), work[r].evidence)]
    /\ Done(r)
    /\ UNCHANGED <<cited, analyses>>

ReviewRefused(r) == At(r, "locked", "review") /\ ~Reviewable(r) /\ WorkRefused(r)

----------------------------------------------------------------------------

WorkStep(r) == \/ NotAllowed(r) \/ GatherInputs(r) \/ Compare(r) \/ AdmitWork(r)
               \/ HoldArchitecture(r) \/ ArchitectureGone(r) \/ AddAnalysis(r) \/ RunDeleted(r)
               \/ LockItems(r) \/ Fold(r) \/ FoldRefused(r) \/ Review(r) \/ ReviewRefused(r)

Step(r) == (RunStep(r) /\ UNCHANGED driftVars) \/ WorkStep(r)

Next == \/ \E r \in Requests : work[r].pc = "idle" /\ Ask(r) /\ UNCHANGED driftVars
        \/ \E r \in Requests : AskWork(r) \/ Step(r)
        \/ HeadStep /\ UNCHANGED <<runVars, ask, driftVars>>

Spec == Init /\ [][Next]_vars /\ \A r \in Requests : WF_vars(Step(r))

----------------------------------------------------------------------------
(* Properties. *)

(* The tables stay well-formed, and                                        *)
(* every stored analysis that found a difference is recorded on its item,  *)
(* and an item knows the first and the last of them: no fold is lost to    *)
(* another analysis or to a review that ran at the same time.              *)
ItemsFollowAnalyses ==
    TypeOK /\ \A k \in Keys :
        LET by == {n \in 1 .. Len(analyses) : analyses[n].compared /\ k \in analyses[n].found} IN
        /\ {item[k].history[e].analysis : e \in {e \in 1 .. Len(item[k].history) :
              item[k].history[e].action = "detected"}} = by
        /\ by = {} => item[k] = NoItem
        /\ by # {} => /\ item[k].first \in by /\ \A n \in by : item[k].first <= n
                      /\ item[k].last \in by /\ \A n \in by : n <= item[k].last
                      /\ item[k].artifacts = UNION {analyses[n].from : n \in by}

(* The status of an item is what its history says, and its history is one  *)
(* the review lifecycle allows: closed by a person only, reopened by a     *)
(* person or by a detection after a resolution.                            *)
HistoryTellsStatus ==
    \A k \in Keys : LET h == item[k].history IN
        /\ h # <<>> => h[1].action = "detected" /\ h[Len(h)].status = item[k].status
        /\ \A e \in 2 .. Len(h) :
             IF h[e].action = "detected"
             THEN h[e].status = IF h[e - 1].status = "resolved" THEN "reopened" ELSE h[e - 1].status
             ELSE h[e - 1].status \in AppliesTo(h[e].action)
                  /\ h[e].status = LeadsTo(h[e].action, h[e - 1].status)

(* An item holds every detection of its difference, and the status that    *)
(* its history of detections and reviews leads to.                         *)
ItemsSound == ItemsFollowAnalyses /\ HistoryTellsStatus

(* Stored analyses and recorded events are never changed or dropped. *)
HistoryKept ==
    [][/\ SubSeq(analyses', 1, Len(analyses)) = analyses
       /\ \A k \in Keys : SubSeq(item'[k].history, 1, Len(item[k].history)) = item[k].history]_vars

(* A request about runs or drift is answered. *)
Answered ==
    \A r \in Requests : /\ ask[r].pc = "asked" ~> ask[r].pc = "done"
                        /\ work[r].pc = "asked" ~> work[r].pc = "done"

=============================================================================
