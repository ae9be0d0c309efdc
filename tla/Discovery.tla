------------------------------ MODULE Discovery ------------------------------
(***************************************************************************)
(* The discovery runs of one project (DiscoveryService): run, a person's   *)
(* decisions about its candidates, acceptance of the reviewed proposal as  *)
(* a new architecture or a revision, and deletion.                         *)
(*                                                                         *)
(* accept reads the run and computes the proposal without a transaction;   *)
(* the acceptance is then recorded inside the transaction that makes the   *)
(* revision (ArchitectureService.replace or create, then=record), under    *)
(* the row locks of the architecture and of the run.                       *)
(*                                                                         *)
(* A proposal is a function of the stored result and of the latest         *)
(* decision about each candidate.                                          *)
(***************************************************************************)
EXTENDS ArchitectureHead, Sequences

CONSTANTS RunIds,          \* uuid7 values, used and not yet used
          Stored,          \* the runs that exist at the start
          Candidates,      \* entities and relationships a run proposes
          MaxDecisions,    \* bound on the decisions about a run
          NoRun

ASSUME DiscoveryAssumption ==
    /\ Stored \subseteq RunIds /\ RunIds # {} /\ NoRun \notin RunIds
    /\ Candidates # {} /\ MaxDecisions \in Nat

VARIABLES run,             \* the discovery_runs table
          runLock,         \* who holds each run row FOR UPDATE
          cited,           \* runs that stored drift analyses refer to
          citing,          \* runs whose rows uncommitted drift analyses hold FOR KEY SHARE
          ask              \* the requests

runVars == <<run, runLock, cited, citing>>

Decision == [subject : Candidates, accepted : BOOLEAN]
(* What is in the proposal: the candidates that are not rejected. *)
Content == SUBSET Candidates
Acceptance == [content : Content, revision : Nat]
Run == [status : {"none", "completed", "failed"}, decisions : Seq(Decision),
        acceptances : Seq(Acceptance)]
NoRow == [status |-> "none", decisions |-> <<>>, acceptances |-> <<>>]
NewRun(status) == [NoRow EXCEPT !.status = status]

ArchitectureTargets == {"new", "revision"}
Request == [pc : {"idle", "asked", "computed", "proposed", "admitted", "based", "locked", "done"},
            op : {"none", "run", "decide", "accept", "delete"},
            run : RunIds \cup {NoRun}, outcome : {"completed", "failed"}, decision : Decision,
            into : ArchitectureTargets, base : Nat, content : Content, found : Seq(Decision),
            row : Run]
AnyDecision == [subject |-> CHOOSE c \in Candidates : TRUE, accepted |-> TRUE]
NoRequest == [pc |-> "idle", op |-> "none", run |-> NoRun, outcome |-> "completed",
              decision |-> AnyDecision, into |-> "new", base |-> 0, content |-> {},
              found |-> <<>>, row |-> NoRow]

RunsTypeOK ==
    /\ HeadTypeOK
    /\ run \in [RunIds -> Run]
    /\ runLock \in [RunIds -> Requests \cup {Nobody}]
    /\ cited \subseteq RunIds
    /\ citing \in [Requests -> RunIds \cup {NoRun}]
    /\ ask \in [Requests -> Request]

RunsInit ==
    /\ HeadInit
    /\ \E status \in [Stored -> {"completed", "failed"}] :
         run = [i \in RunIds |-> IF i \in Stored THEN NewRun(status[i]) ELSE NoRow]
    /\ runLock = [i \in RunIds |-> Nobody]
    /\ citing = [r \in Requests |-> NoRun]
    /\ ask = [r \in Requests |-> NoRequest]

Exists(i) == run[i].status # "none"

(* engine.propose under the decisions: the latest one about a candidate    *)
(* applies, an undecided candidate is proposed as found.                   *)
Latest(decisions, c) ==
    LET about == {k \in 1 .. Len(decisions) : decisions[k].subject = c} IN
    IF about = {} THEN TRUE
    ELSE decisions[CHOOSE k \in about : \A m \in about : m <= k].accepted
Proposed(decisions) == {c \in Candidates : Latest(decisions, c)}

----------------------------------------------------------------------------

AtStage(r, stage, ops) == ask[r].pc = stage /\ ask[r].op \in ops

Release_keepsRun(r) ==
    /\ Unlock(r)
    /\ headLock' = IF headLock = r THEN Nobody ELSE headLock
    /\ UNCHANGED runLock
Release(r) ==
    /\ Unlock(r)
    /\ runLock' = [i \in RunIds |-> IF runLock[i] = r THEN Nobody ELSE runLock[i]]
    /\ headLock' = IF headLock = r THEN Nobody ELSE headLock

Answer(r) ==
    /\ Release(r)
    /\ ask' = [ask EXCEPT ![r] = [NoRequest EXCEPT !.pc = "done"]]
    /\ UNCHANGED <<project, cited, citing>>

Refuse(r) == Answer(r) /\ UNCHANGED <<head, run>>

Asked(r, request) ==
    /\ ask' = [ask EXCEPT ![r] = [request EXCEPT !.pc = "asked"]]
    /\ UNCHANGED <<headVars, runVars>>

(* Whoever accepts names the content of a proposal that was shown. *)
Ask(r) ==
    /\ ask[r].pc = "idle"
    /\ \/ \E i \in RunIds : /\ ~Exists(i) /\ \A q \in Requests : ask[q].run # i
                            /\ Asked(r, [NoRequest EXCEPT !.op = "run", !.run = i])
       \/ \E i \in RunIds, d \in Decision :
            /\ Exists(i) /\ Len(run[i].decisions) < MaxDecisions
            /\ Asked(r, [NoRequest EXCEPT !.op = "decide", !.run = i, !.decision = d])
       \/ \E i \in RunIds, into \in ArchitectureTargets :
            \E base \in IF into = "new" THEN {0} ELSE 1 .. head.current :
               /\ Exists(i)
               /\ Asked(r, [NoRequest EXCEPT !.op = "accept", !.run = i, !.into = into, !.base = base,
                              !.content = Proposed(run[i].decisions)])
       \/ \E i \in RunIds : Exists(i) /\ Asked(r, [NoRequest EXCEPT !.op = "delete", !.run = i])

(* No permission, no such project or baseline, or a project that is frozen. *)
Denied(r) == ask[r].pc \in {"asked", "computed", "proposed"} /\ Refuse(r)

(* engine.discover, on a worker thread: what exceeds a limit fails. *)
Discover(r) ==
    /\ AtStage(r, "asked", {"run"})
    /\ project # "deleted"
    /\ \E outcome \in {"completed", "failed"} :
         ask' = [ask EXCEPT ![r].pc = "computed", ![r].outcome = outcome]
    /\ UNCHANGED <<headVars, runVars>>

(* accept, first transaction and proposal: the run has a result, the       *)
(* proposal is acceptable and is the one that was reviewed.                *)
Reviewed(r) ==
    LET i == ask[r].run IN
    /\ run[i].status = "completed"
    /\ Proposed(run[i].decisions) = ask[r].content
    /\ ask[r].content # {}

Propose(r) ==
    /\ AtStage(r, "asked", {"accept"})
    /\ project # "deleted" /\ Reviewed(r)
    /\ ask' = [ask EXCEPT ![r].pc = "proposed", ![r].found = run[ask[r].run].decisions]
    /\ UNCHANGED <<headVars, runVars>>

ProposeRefused(r) == AtStage(r, "asked", {"accept"}) /\ ~Reviewed(r) /\ Refuse(r)

Admit(r) ==
    /\ \/ AtStage(r, "computed", {"run"}) \/ AtStage(r, "proposed", {"accept"})
       \/ AtStage(r, "asked", {"decide", "delete"})
    /\ Lock(r, "share") /\ Modifiable
    /\ ask' = [ask EXCEPT ![r].pc = "admitted"]
    /\ UNCHANGED <<project, head, headLock, runVars>>

StoreRun(r) ==
    /\ AtStage(r, "admitted", {"run"})
    /\ run' = [run EXCEPT ![ask[r].run] = NewRun(ask[r].outcome)]
    /\ Answer(r)
    /\ UNCHANGED head

----------------------------------------------------------------------------
(* ArchitectureService.replace or create, up to then=record. *)

Based(r) ==
    /\ AtStage(r, "admitted", {"accept"})
    /\ \/ ask[r].into = "new" /\ UNCHANGED headLock
       \/ /\ ask[r].into = "revision"
          /\ headLock = Nobody /\ HeadModifiable /\ head.current = ask[r].base
          /\ headLock' = r
    /\ ask' = [ask EXCEPT ![r].pc = "based"]
    /\ UNCHANGED <<project, projectLock, head, runVars>>

(* Archived, deleted, or revised since: nothing is overwritten. *)
BaseRefused(r) ==
    /\ AtStage(r, "admitted", {"accept"}) /\ ask[r].into = "revision"
    /\ headLock = Nobody
    /\ ~HeadModifiable \/ head.current # ask[r].base
    /\ Refuse(r)

(* FOR UPDATE of the run waits for its holder and for FOR KEY SHARE of the *)
(* drift analyses that are being inserted.                                 *)
RunFree(r, i) == runLock[i] = Nobody /\ \A q \in Requests \ {r} : citing[q] # i
ReadyToLock(r) == AtStage(r, "based", {"accept"}) \/ AtStage(r, "admitted", {"decide", "delete"})

LockRun(r) ==
    LET i == ask[r].run IN
    /\ ReadyToLock(r)
    /\ RunFree(r, i) /\ Exists(i)
    /\ runLock' = [runLock EXCEPT ![i] = r]
    /\ ask' = [ask EXCEPT ![r].pc = "locked", ![r].row = run[i]]
    /\ UNCHANGED <<headVars, run, cited, citing>>

(* DiscoveryRunNotFound; the revision made in this transaction goes with it. *)
RunGone(r) == ReadyToLock(r) /\ RunFree(r, ask[r].run) /\ ~Exists(ask[r].run) /\ Refuse(r)

(* update_review writes the decisions and acceptances of the locked run. *)
Decide(r) ==
    /\ AtStage(r, "locked", {"decide"})
    /\ ask[r].row.status = "completed"
    /\ run' = [run EXCEPT ![ask[r].run] =
                 [@ EXCEPT !.decisions = Append(ask[r].row.decisions, ask[r].decision),
                           !.acceptances = ask[r].row.acceptances]]
    /\ Answer(r)
    /\ UNCHANGED head

DecideRefused(r) ==
    AtStage(r, "locked", {"decide"}) /\ ask[r].row.status # "completed" /\ Refuse(r)

Undecided_always(r) == TRUE
Undecided(r) == ask[r].row.decisions = ask[r].found

(* record: the acceptance commits with the revision.  Content the          *)
(* architecture already has makes no revision and is accepted all the same. *)
Accept(r) ==
    /\ AtStage(r, "locked", {"accept"})
    /\ Undecided(r)
    /\ \E made \in BOOLEAN :
         /\ ask[r].into = "new" => ~made
         /\ made => head.current < MaxRevision
         /\ head' = IF made THEN [head EXCEPT !.current = @ + 1] ELSE head
         /\ run' = [run EXCEPT ![ask[r].run] =
              [@ EXCEPT !.decisions = ask[r].row.decisions,
                        !.acceptances = Append(ask[r].row.acceptances,
                           [content  |-> ask[r].content,
                            revision |-> IF ask[r].into = "new" THEN 0 ELSE head'.current])]]
    /\ Answer(r)

(* ProposalNotAcceptable: reviewed again meanwhile. *)
AcceptRefused(r) == AtStage(r, "locked", {"accept"}) /\ ~Undecided(r) /\ Refuse(r)

Deletable_unlessAccepted(r) == ask[r].row.acceptances = <<>>
Deletable(r) == ask[r].row.acceptances = <<>> /\ ask[r].run \notin cited

Delete(r) ==
    /\ AtStage(r, "locked", {"delete"})
    /\ Deletable(r)
    /\ run' = [run EXCEPT ![ask[r].run] = NoRow]
    /\ Answer(r)
    /\ UNCHANGED head

(* AcceptedRunNotDeleted, DiscoveryRunInUse. *)
DeleteRefused(r) == AtStage(r, "locked", {"delete"}) /\ ~Deletable(r) /\ Refuse(r)

RunStep(r) == \/ Denied(r) \/ Discover(r) \/ Propose(r) \/ ProposeRefused(r) \/ Admit(r) \/ StoreRun(r)
              \/ Based(r) \/ BaseRefused(r) \/ LockRun(r) \/ RunGone(r)
              \/ Decide(r) \/ DecideRefused(r) \/ Accept(r) \/ AcceptRefused(r)
              \/ Delete(r) \/ DeleteRefused(r)

----------------------------------------------------------------------------
(* Properties. *)

runStateVars == <<headVars, runVars, ask>>

(* What becomes a revision is the proposal under the decisions the run has *)
(* when the acceptance commits, decisions made since the review included,  *)
(* and that provenance is never lost: a run whose proposal was accepted,   *)
(* or that a stored drift analysis compared with, stays, with every        *)
(* decision and acceptance recorded on it.                                 *)
AcceptedAsDecided ==
    [][\A i \in RunIds :
         /\ Len(run'[i].acceptances) > Len(run[i].acceptances) =>
              run'[i].acceptances[Len(run'[i].acceptances)].content = Proposed(run[i].decisions)
         /\ Exists(i) /\ (run[i].acceptances # <<>> \/ i \in cited) => run'[i].status = run[i].status
         /\ run'[i].status # "none" =>
              /\ SubSeq(run'[i].decisions, 1, Len(run[i].decisions)) = run[i].decisions
              /\ SubSeq(run'[i].acceptances, 1, Len(run[i].acceptances)) = run[i].acceptances]_runStateVars

=============================================================================
