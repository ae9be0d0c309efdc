------------------------------ MODULE Decisions ------------------------------
(***************************************************************************)
(* The architecture decision records of one project (DecisionService):     *)
(* drafting under the exclusive project lock, and a person's verdicts -    *)
(* accept, reject, supersede, link_revision - under the shared one.        *)
(*                                                                         *)
(* A verdict reads its decision without a row lock (_writable), computes   *)
(* the decided record from what it read, and repository.update then locks  *)
(* the row and writes every field of that record.  Reading and writing are *)
(* separate steps, since the shared project lock admits other verdicts in  *)
(* between.                                                                *)
(*                                                                         *)
(* An option is a candidate id of the evolution analysis; title, context,  *)
(* goals, evidence and rationale are data no step depends on.              *)
(***************************************************************************)
EXTENDS ArchitectureHead, FiniteSets

CONSTANTS DecisionIds,     \* uuid7 values, used and not yet used
          Drafted,         \* the decisions that exist at the start
          Options,         \* the candidates of the analysis
          Unacceptable,    \* those whose validation is invalid or unsupported
          Baseline,        \* the revision the analysis considered
          NoOption, NoDecision

DecisionsConstants ==
    /\ Drafted \subseteq DecisionIds /\ IsFiniteSet(DecisionIds)
    /\ Unacceptable \subseteq Options
    /\ Baseline \in 1 .. MaxRevision
    /\ NoOption \notin Options /\ NoDecision \notin DecisionIds

VARIABLES decision,        \* the decisions table
          ask              \* the requests

vars == <<headVars, decision, ask>>

Verdicts == {"accept", "reject", "supersede", "link"}
Status == {"proposed", "accepted", "rejected", "superseded"}

(* A row without number does not exist.  revision is the linked resulting  *)
(* revision, 0 for none.                                                   *)
Record == [number : Nat, status : Status, chosen : Options \cup {NoOption},
           successor : DecisionIds \cup {NoDecision}, revision : 0 .. MaxRevision]
Request == [pc : {"idle", "asked", "admitted", "read", "checked", "done"},
            op : Verdicts \cup {"draft", "none"},
            id : DecisionIds \cup {NoDecision}, option : Options \cup {NoOption},
            other : DecisionIds \cup {NoDecision}, number : 0 .. MaxRevision,
            seen : Record, answer : {"none", "ok", "refused"}]

TypeOK ==
    /\ HeadTypeOK
    /\ decision \in [DecisionIds -> Record]
    /\ ask \in [Requests -> Request]

NoRecord == [number |-> 0, status |-> "proposed", chosen |-> NoOption,
             successor |-> NoDecision, revision |-> 0]
NoRequest == [pc |-> "idle", op |-> "none", id |-> NoDecision, option |-> NoOption,
              other |-> NoDecision, number |-> 0, seen |-> NoRecord, answer |-> "none"]

Exists(i) == decision[i].number # 0

(* The decisions drafted before are open, or an option was accepted. *)
Drafts(number, chosen) ==
    [i \in DecisionIds |->
        IF i \in Drafted
        THEN [NoRecord EXCEPT !.number = number[i], !.chosen = chosen[i],
                !.status = IF chosen[i] = NoOption THEN "proposed" ELSE "accepted"]
        ELSE NoRecord]
Starts ==
    {Drafts(number, chosen) :
        number \in {n \in [Drafted -> 1 .. Cardinality(Drafted)] :
                      \A i, j \in Drafted : i # j => n[i] # n[j]},
        chosen \in [Drafted -> (Options \ Unacceptable) \cup {NoOption}]}

Init ==
    /\ HeadInit
    /\ decision \in Starts
    /\ ask = [r \in Requests |-> NoRequest]

----------------------------------------------------------------------------

At(r, stage, ops) == ask[r].pc = stage /\ ask[r].op \in ops

(* An answered verdict keeps what it was about. *)
Answer(r, answer) ==
    /\ Unlock(r)
    /\ ask' = [ask EXCEPT ![r].pc = "done", ![r].answer = answer, ![r].seen = NoRecord]
    /\ UNCHANGED <<project, head, headLock>>

Refuse(r) == Answer(r, "refused") /\ UNCHANGED decision

Asked(r, request) ==
    /\ ask' = [ask EXCEPT ![r] = request]
    /\ UNCHANGED <<headVars, decision>>

(* Clients name decisions they have read; a draft gets a new id. *)
Ask(r) ==
    /\ ask[r].pc = "idle"
    /\ \/ \E i \in DecisionIds :
            /\ ~Exists(i) /\ \A q \in Requests : ask[q].id # i
            /\ Asked(r, [NoRequest EXCEPT !.pc = "asked", !.op = "draft", !.id = i])
       \/ \E i \in DecisionIds, op \in Verdicts :
            \E option \in IF op = "accept" THEN Options ELSE {NoOption},
               other \in IF op = "supersede" THEN DecisionIds ELSE {NoDecision},
               number \in IF op = "link" THEN 1 .. MaxRevision ELSE {0} :
               /\ Exists(i)
               /\ other \in DecisionIds => Exists(other)
               /\ Asked(r, [NoRequest EXCEPT !.pc = "asked", !.op = op, !.id = i,
                              !.option = option, !.other = other, !.number = number])

LockMode(op) == IF op = "draft" THEN "exclusive" ELSE "share"

(* project_access with architecture.evolve, then the project is modifiable. *)
Admit(r) ==
    /\ ask[r].pc = "asked"
    /\ Lock(r, LockMode(ask[r].op))
    /\ Modifiable
    /\ ask' = [ask EXCEPT ![r].pc = "admitted"]
    /\ UNCHANGED <<project, head, headLock, decision>>

(* The caller lacks the permission, or the project is archived or gone. *)
Denied(r) == ask[r].pc = "asked" /\ Refuse(r)

----------------------------------------------------------------------------

(* next_number. *)
NextNumber_count == Cardinality({i \in DecisionIds : decision[i].number > 1}) + 1
Highest == CHOOSE n \in {0} \cup {decision[i].number : i \in DecisionIds} :
             \A i \in DecisionIds : decision[i].number <= n
NextNumber == Highest + 1

(* draft: a modifiable architecture and an analysis with a result. *)
Draft(r) ==
    /\ At(r, "admitted", {"draft"})
    /\ HeadModifiable
    /\ decision' = [decision EXCEPT ![ask[r].id] = [NoRecord EXCEPT !.number = NextNumber]]
    /\ Answer(r, "ok")

(* The architecture is gone or archived, the analysis is unknown or has no *)
(* result, or a named candidate is none of its candidates.                 *)
DraftRefused(r) == At(r, "admitted", {"draft"}) /\ Refuse(r)

(* _writable: the decision, without a lock, and its architecture. *)
Read(r) ==
    /\ At(r, "admitted", Verdicts)
    /\ Exists(ask[r].id) /\ HeadModifiable
    /\ ask' = [ask EXCEPT ![r].pc = "read", ![r].seen = decision[ask[r].id]]
    /\ UNCHANGED <<headVars, decision>>

Unwritable(r) == At(r, "admitted", Verdicts) /\ ~HeadModifiable /\ Refuse(r)

(* The transitions of the entity. *)
Accepted(seen, option) == [seen EXCEPT !.status = "accepted", !.chosen = option]
Acceptable(seen, option) == seen.status = "proposed" /\ option \notin Unacceptable
Rejected(seen) == [seen EXCEPT !.status = "rejected"]
Superseded(seen, other) == [seen EXCEPT !.status = "superseded", !.successor = other]
Linked(seen, number) == [seen EXCEPT !.revision = number]

(* The checks of the entity, and of supersede and link_revision, which     *)
(* read the successor and the revision, unlocked too.                      *)
Permitted_anySuccessor(r) ==
    LET a == ask[r] IN
    CASE a.op = "accept"    -> Acceptable(a.seen, a.option)
      [] a.op = "reject"    -> a.seen.status = "proposed"
      [] a.op = "supersede" -> a.seen.status = "accepted"
      [] a.op = "link"      -> a.seen.status = "accepted"
Permitted(r) ==
    LET a == ask[r] IN
    CASE a.op = "accept"    -> Acceptable(a.seen, a.option)
      [] a.op = "reject"    -> a.seen.status = "proposed"
      [] a.op = "supersede" -> /\ a.seen.status = "accepted" /\ a.other # a.id
                               /\ decision[a.other].status = "accepted"
      [] a.op = "link"      -> /\ a.seen.status = "accepted" /\ a.seen.revision = 0
                               /\ a.number \in Baseline + 1 .. head.current

Decided(r) ==
    LET a == ask[r] IN
    CASE a.op = "accept"    -> Accepted(a.seen, a.option)
      [] a.op = "reject"    -> Rejected(a.seen)
      [] a.op = "supersede" -> Superseded(a.seen, a.other)
      [] a.op = "link"      -> Linked(a.seen, a.number)

Check(r) ==
    /\ At(r, "read", Verdicts)
    /\ Permitted(r)
    /\ ask' = [ask EXCEPT ![r].pc = "checked"]
    /\ UNCHANGED <<headVars, decision>>

(* repository.update: the row is locked only now, and every field is       *)
(* written from the record that was read.                                  *)
Decide(r) ==
    /\ At(r, "checked", Verdicts)
    /\ decision' = [decision EXCEPT ![ask[r].id] = Decided(r)]
    /\ Answer(r, "ok")

CheckRefused(r) == At(r, "read", Verdicts) /\ ~Permitted(r) /\ Refuse(r)

----------------------------------------------------------------------------

Step(r) == \/ Admit(r) \/ Denied(r) \/ Draft(r) \/ DraftRefused(r)
           \/ Read(r) \/ Unwritable(r) \/ Check(r) \/ CheckRefused(r) \/ Decide(r)

Work == \E r \in Requests : Ask(r) \/ Step(r)

Next == Work \/ (HeadStep /\ UNCHANGED <<decision, ask>>)

Spec == Init /\ [][Next]_vars /\ \A r \in Requests : WF_vars(Step(r))

----------------------------------------------------------------------------
(* Properties. *)

(* ADR numbers name one decision each and have no gaps: two drafts never   *)
(* allocate the same number (next_number under the exclusive lock).        *)
NumbersGapless ==
    LET used == {i \in DecisionIds : Exists(i)} IN
    {decision[i].number : i \in used} = 1 .. Cardinality(used)

(* Every stored decision is one a sequence of verdicts can produce,        *)
(* whatever the interleaving: an accepted one has an acceptable option, a  *)
(* superseded one names another decision that was itself decided, only a   *)
(* decision that was accepted is linked, and to a revision that is later   *)
(* than its baseline and exists.                                           *)
RecordsLegal ==
    \A i \in DecisionIds :
        LET d == decision[i] IN
        /\ d.status \in {"accepted", "superseded"} <=> d.chosen # NoOption
        /\ d.chosen \notin Unacceptable
        /\ (d.status = "superseded") = (d.successor # NoDecision)
        /\ d.status = "superseded" =>
             d.successor # i /\ decision[d.successor].status # "proposed"
        /\ d.revision # 0 => /\ d.status \in {"accepted", "superseded"}
                             /\ d.revision \in Baseline + 1 .. head.current

(* A verdict the service confirmed is not undone by another one: an        *)
(* accepted decision stays accepted with its option or is superseded, a    *)
(* rejected one stays rejected, a recorded link stays.                     *)
VerdictsKept ==
    \A r \in Requests :
        ask[r].pc = "done" /\ ask[r].answer = "ok" =>
            LET d == decision[ask[r].id] IN
            CASE ask[r].op = "accept"    -> d.status \in {"accepted", "superseded"}
                                            /\ d.chosen = ask[r].option
              [] ask[r].op = "reject"    -> d.status = "rejected"
              [] ask[r].op = "supersede" -> d.successor = ask[r].other
              [] ask[r].op = "link"      -> d.revision = ask[r].number
              [] OTHER                   -> TRUE

=============================================================================
