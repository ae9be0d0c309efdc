----------------------------- MODULE MCDocuments -----------------------------
(* Documents for TLC: two requests, and the tables documents_all.cfg sizes. *)
EXTENDS Documents

=============================================================================
