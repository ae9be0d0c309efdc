------------------------------ MODULE Documents ------------------------------
(***************************************************************************)
(* What is derived from one architecture, over the same project and        *)
(* architecture rows: decision records, migration plans and analyses.      *)
(*                                                                         *)
(* The services share no table with each other, only those two rows, so a  *)
(* behaviour is about the requests of one of them (subject) while projects *)
(* and architectures are written by anybody.                               *)
(***************************************************************************)
EXTENDS ArchitectureHead, Sequences, FiniteSets

CONSTANTS DecisionIds, Drafted, Options, Unacceptable, Baseline, NoOption, NoDecision,
          PlanIds, MaxVersions, MaxModels, NoPlan,
          Analyzed, MaxAnalyses, Found, MaxTime, PageSize, USABLE_LOOKBACK

VARIABLES subject,                                   \* the service this behaviour is about
          decision, verdicts,                        \* Decisions
          models, versions, rowLock, reviews,        \* MigrationPlans
          stored, now, analyzing, reader             \* Analyses

decisionVars == <<decision, verdicts>>
planVars == <<models, versions, rowLock, reviews>>
analysisVars == <<stored, now, analyzing, reader>>
vars == <<headVars, subject, decisionVars, planVars, analysisVars>>

Dec == INSTANCE Decisions WITH ask <- verdicts
Plan == INSTANCE MigrationPlans WITH ask <- reviews
Ana == INSTANCE Analyses WITH ask <- analyzing

ASSUME DocumentsAssumption ==
    Dec!DecisionsConstants /\ Plan!MigrationPlansConstants /\ Ana!AnalysesConstants

Start(service, starts) == IF subject = service THEN starts ELSE {CHOOSE s \in starts : TRUE}

Init ==
    /\ subject \in {"decisions", "plans", "analyses"}
    /\ decision \in Start("decisions", Dec!Starts) /\ Dec!Init
    /\ versions \in Start("plans", Plan!Starts) /\ Plan!Init
    /\ stored \in Start("analyses", Ana!Starts) /\ Ana!Init

Next ==
    \/ subject = "decisions" /\ Dec!Work /\ UNCHANGED <<subject, planVars, analysisVars>>
    \/ subject = "plans" /\ Plan!Work /\ UNCHANGED <<subject, decisionVars, analysisVars>>
    \/ subject = "analyses" /\ Ana!Work /\ UNCHANGED <<subject, decisionVars, planVars>>
    \/ HeadStep /\ UNCHANGED <<subject, decisionVars, planVars, analysisVars>>

Spec == Init /\ [][Next]_vars

TypeOK ==
    CASE subject = "decisions" -> Dec!TypeOK
      [] subject = "plans"     -> Plan!TypeOK
      [] subject = "analyses"  -> Ana!TypeOK

(* The tables stay well-formed.  ADR numbers name one decision each and    *)
(* have no gaps: two drafts never allocate the same number.  Every stored  *)
(* decision is one a sequence of verdicts can produce, whatever the        *)
(* interleaving: an accepted one has an acceptable option, a superseded    *)
(* one names another decision that was itself decided, only a decision     *)
(* that was accepted is linked, and to a revision that is later than its   *)
(* baseline and exists.                                                    *)
DecisionsSound == TypeOK /\ Dec!NumbersGapless /\ Dec!RecordsLegal

(* A verdict the service confirmed is not undone by another one: an        *)
(* accepted decision stays accepted with its option or is superseded, a    *)
(* rejected one stays rejected, a recorded link stays.                     *)
VerdictsKept == Dec!VerdictsKept

(* A plan has one version that is not superseded by a later one, its last: *)
(* concurrent regenerations never leave two versions to review, nor none.  *)
(* The review history of a version is the path its status took, and every  *)
(* verdict in it names the proposal of that very version.                  *)
PlansSound == Plan!OneCurrentVersion /\ Plan!ReviewsTellStatus

(* A stored version keeps its content and its recorded reviews: nothing a  *)
(* person approved or rejected is overwritten by a request that raced it.  *)
(* A version under review or approved, as it is at that moment, is only    *)
(* superseded by a regeneration that asked to replace reviewed versions.   *)
PlansKept == Plan!ReviewsKept /\ Plan!NeverReplacedSilently

(* A reader that walks the pages to the end sees no analysis twice and     *)
(* misses none that was stored when it started, whatever is stored while   *)
(* it reads and however many were requested at the same instant.           *)
ListingExact == Ana!ListingExact

(* What a stored analysis rests on is stored, has a result and is none     *)
(* newer than the request; the basis of a cost is of the priced revision.  *)
EvidenceHolds == Ana!EvidenceHolds

(* Nothing is stored under a project that is archived by then, although    *)
(* the result was calculated while it was active, and a stored analysis    *)
(* never changes.                                                          *)
StoredWhileActive == Ana!StoredWhileActive
=============================================================================
