--------------------------- MODULE ArchitectureHead ---------------------------
(***************************************************************************)
(* One architecture of the project as the documents derived from it see    *)
(* it: its status and its current revision.  Revisions are immutable and   *)
(* numbered from 1, so a revision is its number.                           *)
(*                                                                         *)
(* Architectures models the requests that write it.  Here each of them is  *)
(* the single step in which it commits: it holds the project row FOR SHARE *)
(* and the architecture row FOR UPDATE at that moment, so it commits only  *)
(* when nobody else holds a lock that conflicts.                           *)
(***************************************************************************)
EXTENDS ProjectRow, Naturals

CONSTANTS MaxRevision,     \* bound on the revisions of the architecture
          Nobody           \* no lock holder

ASSUME HeadAssumption == MaxRevision \in Nat \ {0} /\ Nobody \notin Requests

VARIABLES head,            \* the row of the architecture
          headLock         \* who holds it FOR UPDATE

headVars == <<project, projectLock, head, headLock>>

HeadTypeOK ==
    /\ ProjectTypeOK
    /\ head \in [status : {"active", "archived", "deleted"}, current : 1 .. MaxRevision]
    /\ headLock \in Requests \cup {Nobody}

HeadInit ==
    /\ ProjectInit
    /\ head = [status |-> "active", current |-> 1]
    /\ headLock = Nobody

(* ArchitectureRepository.get returns rows that are not deleted; most      *)
(* writes call Architecture.ensure_modifiable on what it returned.         *)
HeadFound == head.status # "deleted"
HeadModifiable == head.status = "active"

(* Whether another request's write of the architecture can commit now. *)
HeadWritable ==
    /\ \A q \in Requests : projectLock[q] # "exclusive"
    /\ Modifiable
    /\ headLock = Nobody
    /\ HeadFound

(* edit, replace or restore_revision makes the next revision. *)
Revised ==
    /\ HeadWritable /\ HeadModifiable
    /\ head.current < MaxRevision
    /\ head' = [head EXCEPT !.current = @ + 1]
    /\ UNCHANGED <<project, projectLock, headLock>>

(* archive, restore and delete of the architecture. *)
HeadMoved ==
    /\ HeadWritable
    /\ \E to \in {"active", "archived", "deleted"} :
         /\ to # head.status
         /\ to = "deleted" => head.status = "archived"
         /\ head' = [head EXCEPT !.status = to]
    /\ UNCHANGED <<project, projectLock, headLock>>

(* archive, restore and delete of the project, under FOR UPDATE of its row. *)
ProjectMoved ==
    /\ \A q \in Requests : projectLock[q] = "none"
    /\ \E step \in {"archive", "restore", "delete"} :
         /\ project # "deleted" /\ StepAllowed(step) /\ StepTarget(step) # project
         /\ project' = StepTarget(step)
    /\ UNCHANGED <<projectLock, head, headLock>>

HeadStep == Revised \/ HeadMoved \/ ProjectMoved

=============================================================================
