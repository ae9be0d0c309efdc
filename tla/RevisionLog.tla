----------------------------- MODULE RevisionLog -----------------------------
(***************************************************************************)
(* What optimistic concurrency control promises to the writers of numbered *)
(* histories, whatever locks, rows and transactions provide it: a writer   *)
(* names the version its work is based on, and either its work becomes the *)
(* very next version or nothing of it is kept.                             *)
(***************************************************************************)
EXTENDS Naturals, Sequences

CONSTANTS Writers, Documents,
          Nobody           \* the author of a version that was there before

VARIABLES log,             \* the authors of each document's versions, in order
          asks,            \* writes in progress
          wins             \* writes that were answered with a new version

logVars == <<log, asks, wins>>

Init == /\ log \in [Documents -> {<<>>, <<Nobody>>}]
        /\ asks = {}
        /\ wins = {}

(* A writer bases its work on a version it has seen. *)
Ask(w, d, base) ==
    /\ \A ask \in asks \cup wins : ask.writer # w
    /\ asks' = asks \cup {[writer |-> w, doc |-> d, base |-> base]}
    /\ UNCHANGED <<log, wins>>

(* The work becomes version base + 1. *)
Win(ask) ==
    /\ Len(log[ask.doc]) = ask.base
    /\ log' = [log EXCEPT ![ask.doc] = Append(@, ask.writer)]
    /\ asks' = asks \ {ask}
    /\ wins' = wins \cup {ask}

(* Conflict, refusal, failure, or a result equal to its base. *)
Withdraw(ask) == asks' = asks \ {ask} /\ UNCHANGED <<log, wins>>

Next == \/ \E w \in Writers, d \in Documents : \E base \in 0 .. Len(log[d]) : Ask(w, d, base)
        \/ \E ask \in asks : Win(ask) \/ Withdraw(ask)

Spec == Init /\ [][Next]_logVars

=============================================================================
