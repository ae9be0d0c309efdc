----------------------------- MODULE ProjectRow -----------------------------
(***************************************************************************)
(* The row of one project and the row lock every write under it takes.     *)
(*                                                                         *)
(* A write resolves its project with SELECT ... FOR SHARE or FOR UPDATE of *)
(* the project row (ProjectRepository.get_for_member) and holds that lock  *)
(* until its transaction ends.  PostgreSQL re-reads a row it had to wait   *)
(* for, so the status a write sees is the status at the moment it gets the *)
(* lock: granting and reading are one step.                                *)
(***************************************************************************)
CONSTANT Requests          \* the HTTP requests that write under the project

VARIABLES project,         \* status of the project row
          projectLock      \* the lock each request's transaction holds on it

LockModes == {"none", "share", "exclusive"}

ProjectStatus == {"active", "archived", "deleted"}

ProjectTypeOK ==
    /\ project \in ProjectStatus
    /\ projectLock \in [Requests -> LockModes]

ProjectInit ==
    /\ project = "active"
    /\ projectLock = [r \in Requests |-> "none"]

(* FOR SHARE conflicts with FOR UPDATE only, FOR UPDATE with both. *)
Compatible(r, mode) ==
    \A q \in Requests \ {r} :
        \/ projectLock[q] = "none"
        \/ mode = "share" /\ projectLock[q] = "share"

Lock_notHeld(r, mode) == Compatible(r, mode) /\ UNCHANGED projectLock
Lock(r, mode) == /\ Compatible(r, mode)
                 /\ projectLock' = [projectLock EXCEPT ![r] = mode]

Unlock(r) == projectLock' = [projectLock EXCEPT ![r] = "none"]

(* Project.ensure_modifiable, the write guard of everything under it. *)
Modifiable == project = "active"

(* Project.archive, restore and delete: the states each step starts from,  *)
(* and the one it leads to.  Archiving and restoring are idempotent.       *)
StepAllowed(step) == CASE step = "archive" -> project # "deleted"
                       [] step = "restore" -> project # "deleted"
                       [] step = "delete"  -> project = "archived"

StepTarget(step) == CASE step = "archive" -> "archived"
                      [] step = "restore" -> "active"
                      [] step = "delete"  -> "deleted"

=============================================================================
