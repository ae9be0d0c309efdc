------------------------------ MODULE Analyses ------------------------------
(***************************************************************************)
(* The stored analyses of one architecture: capacity, cost, reliability,   *)
(* security, observability, simulation, evolution and validation.          *)
(*                                                                         *)
(* Seven services work in three phases: read and authorize in a short      *)
(* transaction without locks, calculate with no transaction at all, store  *)
(* in a transaction that authorizes again under the shared project lock.   *)
(* Validation does everything in one locked transaction.  Cost may rest on *)
(* a stored capacity analysis, evolution on the latest usable analyses or  *)
(* on cited ones.  A reader pages through the list meanwhile.              *)
(*                                                                         *)
(* What an engine calculates is one of three outcomes: a result, a refusal *)
(* of the request (nothing is stored), or a failure that is stored.        *)
(***************************************************************************)
EXTENDS ArchitectureHead, Sequences, FiniteSets

CONSTANTS Analyzed,        \* the kinds clients ask for
          MaxAnalyses,     \* bound on the analyses ever requested
          Found,           \* how many of them exist at the start
          MaxTime,         \* bound on the clock
          PageSize,        \* rows per page of the reader
          USABLE_LOOKBACK  \* newest analyses evolution looks at for a usable one

VARIABLES stored,          \* the analysis tables, by id
          now,             \* utc_now, as coarse as two requests may share it
          ask,             \* the requests
          reader           \* a client paging through the analyses

vars == <<headVars, stored, now, ask, reader>>

Ids == 1 .. MaxAnalyses    \* uuid7 values: any order within one instant
None == 0
Phased == {"capacity", "cost", "reliability", "security", "observability", "simulation", "evolution"}
Kinds == Phased \cup {"validation"}

AnalysesConstants ==
    /\ Analyzed \subseteq Kinds
    /\ MaxAnalyses \in Nat /\ Found \in 0 .. MaxAnalyses /\ MaxTime \in Nat
    /\ PageSize \in Nat \ {0} /\ USABLE_LOOKBACK \in Nat \ {0}

(* requested: the row does not exist yet.  rests: the analyses it used. *)
Row == [status : {"none", "result", "failed"}, kind : Kinds, revision : Nat, at : 0 .. MaxTime,
        rests : SUBSET Ids]
NoRow == [status |-> "none", kind |-> "capacity", revision |-> 0, at |-> 0, rests |-> {}]
Request == [pc : {"idle", "asked", "read", "calculated", "admitted", "done"}, id : Ids \cup {None},
            cites : Ids \cup {None}, row : Row]
NoRequest == [pc |-> "idle", id |-> None, cites |-> None, row |-> NoRow]
Reader == [pc : {"idle", "reading", "done"}, due : SUBSET Ids, seen : Seq(Ids),
           after : (0 .. MaxTime) \X Ids \cup {<<>>}]

TypeOK ==
    /\ HeadTypeOK
    /\ stored \in [Ids -> Row]
    /\ now \in 0 .. MaxTime
    /\ ask \in [Requests -> Request]
    /\ reader \in Reader

(* Capacity analyses of the first revision, some of them failed. *)
Starts ==
    {[i \in Ids |-> IF i <= Found THEN [NoRow EXCEPT !.status = status[i], !.revision = 1] ELSE NoRow] :
        status \in [1 .. Found -> {"result", "failed"}]}

Init ==
    /\ HeadInit
    /\ stored \in Starts
    /\ now = 0
    /\ ask = [r \in Requests |-> NoRequest]
    /\ reader = [pc |-> "idle", due |-> {}, seen |-> <<>>, after |-> <<>>]

Exists(i) == stored[i].status # "none"

----------------------------------------------------------------------------
(* Ordering and paging: newest first, by requested_at, then by id. *)

Before(a, b) == \/ stored[a].at < stored[b].at
                \/ stored[a].at = stored[b].at /\ a < b

(* list_for_architecture: the rows after a cursor, at most limit of them. *)
Older_timeOnly(i, cursor) == stored[i].at < cursor[1]
Older(i, cursor) ==
    \/ stored[i].at < cursor[1]
    \/ stored[i].at = cursor[1] /\ i < cursor[2]

NewestOf(ids, limit) ==
    LET Rank(i) == Cardinality({j \in ids : Before(i, j)})
        n == IF Cardinality(ids) < limit THEN Cardinality(ids) ELSE limit IN
    [k \in 1 .. n |-> CHOOSE i \in ids : Rank(i) = k - 1]

Page(cursor, limit) ==
    NewestOf({i \in Ids : Exists(i) /\ (cursor = <<>> \/ Older(i, cursor))}, limit)

----------------------------------------------------------------------------
(* Requests. *)

Answer(r) ==
    /\ Unlock(r)
    /\ ask' = [ask EXCEPT ![r] = [NoRequest EXCEPT !.pc = "done"]]
    /\ UNCHANGED <<project, head, headLock, now, reader>>

Refuse(r) == Answer(r) /\ UNCHANGED stored

Moved(r, request) ==
    /\ ask' = [ask EXCEPT ![r] = request]
    /\ UNCHANGED <<project, head, headLock, stored, now, reader>>

(* revision_number None (0) is the current revision when it is read;       *)
(* clients name earlier revisions, and analyses they have seen.            *)
Submitted(r, kind, citable) ==
    /\ ask[r].pc = "idle"
    /\ kind \in Analyzed
    /\ \E revision \in 0 .. head.current - 1, i \in Ids, cites \in citable :
         /\ ~Exists(i) /\ \A q \in Requests : ask[q].id # i
         /\ cites # None => Exists(cites)
         /\ Moved(r, [NoRequest EXCEPT !.pc = "asked", !.id = i, !.cites = cites,
                        !.row = [NoRow EXCEPT !.kind = kind, !.revision = revision]])
    /\ UNCHANGED projectLock

run_capacity_analysis(r) == Submitted(r, "capacity", {None})
run_cost_analysis(r) == Submitted(r, "cost", Ids \cup {None})
run_reliability_analysis(r) == Submitted(r, "reliability", {None})
run_security_analysis(r) == Submitted(r, "security", {None})
run_observability_analysis(r) == Submitted(r, "observability", {None})
run_simulation(r) == Submitted(r, "simulation", {None})
run_evolution_analysis(r) == Submitted(r, "evolution", Ids \cup {None})
run_validation(r) == Submitted(r, "validation", {None})

Ask(r) == \/ run_capacity_analysis(r) \/ run_cost_analysis(r) \/ run_reliability_analysis(r)
          \/ run_security_analysis(r) \/ run_observability_analysis(r) \/ run_simulation(r)
          \/ run_evolution_analysis(r) \/ run_validation(r)

(* The caller may not, or the project is gone or frozen. *)
Denied(r) == ask[r].pc \in {"asked", "calculated"} /\ Refuse(r)

Revision(r) == IF ask[r].row.revision = 0 THEN head.current ELSE ask[r].row.revision
Readable(r) == project # "deleted" /\ HeadModifiable /\ Revision(r) <= head.current

(* Phase 1.  CapacityBasis.of and check: the cited analysis of cost has a  *)
(* result and is of the revision being priced.                             *)
BasisFits_anyRevision(r) ==
    ask[r].cites # None =>
        /\ stored[ask[r].cites].kind = "capacity" /\ stored[ask[r].cites].status = "result"
BasisFits(r) ==
    ask[r].cites # None =>
        LET basis == stored[ask[r].cites] IN
        /\ basis.kind = "capacity" /\ basis.status = "result"
        /\ basis.revision = Revision(r)

(* _usable among the newest: the first that is not failed. *)
Usable(source) ==
    LET page == NewestOf({i \in Ids : Exists(i) /\ stored[i].kind = source}, USABLE_LOOKBACK)
        fit == {k \in 1 .. Len(page) : stored[page[k]].status # "failed"} IN
    IF fit = {} THEN {} ELSE {page[CHOOSE k \in fit : \A m \in fit : k <= m]}

(* _evidence: each source's latest usable analysis; a cited one replaces   *)
(* it, and is no evidence when it failed.                                  *)
CITABLE == Kinds \ {"simulation", "evolution"}
Evidence(cites) ==
    UNION {IF cites # None /\ stored[cites].kind = source
           THEN IF stored[cites].status = "failed" THEN {} ELSE {cites}
           ELSE Usable(source) : source \in CITABLE}

Read(r, cited, rests) ==
    /\ ask[r].pc = "asked"
    /\ Readable(r) /\ cited
    /\ Moved(r, [ask[r] EXCEPT !.pc = "read",
                   !.row = [@ EXCEPT !.revision = Revision(r), !.at = now, !.rests = rests]])
    /\ UNCHANGED projectLock

ReadRefused(r, cited) == ask[r].pc = "asked" /\ ~(Readable(r) /\ cited) /\ Refuse(r)

(* Phase 2, _run: too many requirements fail like an engine bug. *)
Calculate(r) ==
    /\ ask[r].pc = "read"
    /\ \E outcome \in {"result", "failed"} :
         Moved(r, [ask[r] EXCEPT !.pc = "calculated", !.row.status = outcome])
    /\ UNCHANGED projectLock

EngineRefuses(r) == ask[r].pc = "read" /\ Refuse(r)

(* Phase 3: authorize again, under the shared project lock. *)
Admit(r, stage) ==
    /\ ask[r].pc = stage
    /\ Lock(r, "share") /\ Modifiable
    /\ Moved(r, [ask[r] EXCEPT !.pc = "admitted"])

Store(r) ==
    /\ ask[r].pc = "admitted"
    /\ HeadModifiable
    /\ stored' = [stored EXCEPT ![ask[r].id] = ask[r].row]
    /\ Answer(r)

StoreRefused(r) == ask[r].pc = "admitted" /\ ~HeadModifiable /\ Refuse(r)

InPhases(r, kind, cited, rests) ==
    /\ ask[r].row.kind = kind
    /\ \/ Denied(r) \/ Read(r, cited, rests) \/ ReadRefused(r, cited)
       \/ Calculate(r) \/ EngineRefuses(r)
       \/ Admit(r, "calculated") \/ Store(r) \/ StoreRefused(r)

AnalyzeCapacity(r) == InPhases(r, "capacity", TRUE, {})
AnalyzeCost(r) == InPhases(r, "cost", BasisFits(r), {ask[r].cites} \ {None})
AnalyzeReliability(r) == InPhases(r, "reliability", TRUE, {})
AnalyzeSecurity(r) == InPhases(r, "security", TRUE, {})
AnalyzeObservability(r) == InPhases(r, "observability", TRUE, {})
Simulate(r) == InPhases(r, "simulation", TRUE, {})
AnalyzeEvolution(r) ==
    InPhases(r, "evolution", ask[r].cites # None => stored[ask[r].cites].kind \in CITABLE,
             Evidence(ask[r].cites))

(* The one transaction of validate: no such revision, an archived          *)
(* architecture or a configuration the engine refuses store nothing.       *)
Validated(r) ==
    /\ ask[r].pc = "admitted"
    /\ Readable(r)
    /\ \E outcome \in {"result", "failed"} :
         stored' = [stored EXCEPT ![ask[r].id] =
                      [ask[r].row EXCEPT !.revision = Revision(r), !.at = now, !.status = outcome]]
    /\ Answer(r)

Validate(r) ==
    /\ ask[r].row.kind = "validation"
    /\ \/ Denied(r) \/ Admit(r, "asked") \/ Validated(r)
       \/ ask[r].pc = "admitted" /\ Refuse(r)

Step(r) == \/ AnalyzeCapacity(r) \/ AnalyzeCost(r) \/ AnalyzeReliability(r) \/ AnalyzeSecurity(r)
           \/ AnalyzeObservability(r) \/ Simulate(r) \/ AnalyzeEvolution(r) \/ Validate(r)

----------------------------------------------------------------------------
(* The reader and the clock. *)

Reading(to) == reader' = to /\ UNCHANGED <<headVars, stored, now, ask>>

StartReading ==
    /\ reader.pc = "idle"
    /\ Reading([reader EXCEPT !.pc = "reading", !.due = {i \in Ids : Exists(i)}])

(* limit + 1 rows tell whether another page follows. *)
ReadPage ==
    LET rows == Page(reader.after, PageSize + 1)
        more == Len(rows) > PageSize
        items == SubSeq(rows, 1, IF more THEN PageSize ELSE Len(rows))
        last == items[Len(items)] IN
    /\ reader.pc = "reading"
    /\ project # "deleted" /\ HeadFound
    /\ Reading([reader EXCEPT !.seen = @ \o items, !.pc = IF more THEN "reading" ELSE "done",
                  !.after = IF more THEN <<stored[last].at, last>> ELSE <<>>])

Tick == /\ now < MaxTime /\ now' = now + 1
        /\ UNCHANGED <<headVars, stored, ask, reader>>

Work == (\E r \in Requests : Ask(r) \/ Step(r)) \/ StartReading \/ ReadPage \/ Tick

Next == \/ Work
        \/ HeadStep /\ UNCHANGED <<stored, now, ask, reader>>

Spec == Init /\ [][Next]_vars /\ \A r \in Requests : WF_vars(Step(r))

----------------------------------------------------------------------------
(* Properties. *)

(* A reader that walks the pages to the end sees no analysis twice and     *)
(* misses none that was stored when it started, whatever is stored while   *)
(* it reads and however many were requested at the same instant.           *)
ListingExact ==
    /\ \A a, b \in 1 .. Len(reader.seen) : a < b => Before(reader.seen[b], reader.seen[a])
    /\ reader.pc = "done" => reader.due \subseteq {reader.seen[k] : k \in 1 .. Len(reader.seen)}

(* What a stored analysis rests on is stored, has a result and is none     *)
(* newer than the request; the basis of a cost is of the priced revision.  *)
EvidenceHolds ==
    \A i \in Ids : Exists(i) => \A e \in stored[i].rests :
        /\ stored[e].status = "result" /\ stored[e].at <= stored[i].at
        /\ stored[i].kind = "cost" => stored[e].revision = stored[i].revision

(* Nothing is stored under a project that is archived by then, although    *)
(* the result was calculated while it was active, and a stored analysis    *)
(* never changes.                                                          *)
StoredWhileActive ==
    [][/\ stored' # stored => Modifiable
       /\ \A i \in Ids : Exists(i) => stored'[i] = stored[i]]_vars

=============================================================================
