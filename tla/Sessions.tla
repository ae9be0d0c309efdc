------------------------------ MODULE Sessions ------------------------------
(***************************************************************************)
(* One account: its password, its sessions and the links emailed to it     *)
(* (SessionService, PasswordService, AuthService, UserService), as the     *)
(* transactions of concurrent requests.                                    *)
(*                                                                         *)
(* The steps of a request are the statements at which it waits for a row   *)
(* lock, or reads what another transaction may change before it writes: in *)
(* particular the account is read before the slow hash of a password is    *)
(* verified or made.  A password stands for its hash, together with        *)
(* whether that hash has outdated parameters.  Secrets are numbered in the *)
(* order they are issued.  Time is not modelled: a session or a link may   *)
(* be found expired, a cooldown may be running, and a rotated-out token    *)
(* may come back within the grace window or after it.                      *)
(***************************************************************************)
EXTENDS Naturals, FiniteSets

CONSTANTS Requests,
          Passwords,
          SessionIds, Links,
          VerifyLinks,     \* the links that verify the address; others reset the password
          MaxSecrets,      \* secrets per session in a finite instance
          Operations,      \* the operations of this instance
          Nobody

SessionOps == {"refresh", "logout"}
IssueOps   == {"request_reset", "resend_verification"}
LinkOps    == {"reset", "verify_email"}
OwnOps     == {"change", "delete_account", "revoke_session"}
AllOps     == SessionOps \cup IssueOps \cup LinkOps \cup OwnOps \cup {"login"}

ASSUME SessionsAssumption ==
    /\ VerifyLinks \subseteq Links
    /\ MaxSecrets \in Nat
    /\ Operations \subseteq AllOps
    /\ Nobody \notin Requests
    /\ Passwords # {} /\ SessionIds # {} /\ Links # {}
    /\ IsFiniteSet(Links)

VARIABLES user,            \* the account's row
          session,         \* the sessions table
          link,            \* the token tables: the status of every link
          userLock, sessionLock, linkLock,
          req,             \* the requests
          chosen           \* history: the password the user chose last

tables == <<user, session, link, chosen>>
locks == <<userLock, sessionLock, linkLock>>
vars == <<user, session, link, userLock, sessionLock, linkLock, req, chosen>>

User == [status : {"active", "deleted"}, password : Passwords, outdated : BOOLEAN,
         verified : BOOLEAN]
(* via is history: the password that was verified for this session. *)
Session == [status : {"none", "active", "revoked"}, current : Nat, previous : Nat,
            issued : Nat, via : Passwords]
Stages == {"idle", "asked", "read", "locked", "writing", "done"}
Answers == {"none", "ok", "refused", "conflict", "failed"}
Request == [pc : Stages, op : AllOps \cup {"none"}, session : SessionIds, secret : Nat,
            link : Links, password : Passwords, new : Passwords, user : User,
            row : Session, links : SUBSET Links, answer : Answers]

TypeOK ==
    /\ user \in User
    /\ session \in [SessionIds -> Session]
    /\ link \in [Links -> {"unused", "outstanding", "consumed", "revoked"}]
    /\ userLock \in Requests \cup {Nobody}
    /\ sessionLock \in [SessionIds -> Requests \cup {Nobody}]
    /\ linkLock \in [Links -> Requests \cup {Nobody}]
    /\ req \in [Requests -> Request]
    /\ chosen \in Passwords

AnyPassword == CHOOSE p \in Passwords : TRUE
AnySession == CHOOSE s \in SessionIds : TRUE
AnyLink == CHOOSE l \in Links : TRUE
NoSession == [status |-> "none", current |-> 0, previous |-> 0, issued |-> 0, via |-> AnyPassword]
SomeUser == [status |-> "active", password |-> AnyPassword, outdated |-> FALSE, verified |-> FALSE]
NoRequest == [pc |-> "idle", op |-> "none", session |-> AnySession, secret |-> 0,
              link |-> AnyLink, password |-> AnyPassword, new |-> AnyPassword,
              user |-> SomeUser, row |-> NoSession, links |-> {}, answer |-> "none"]

NewSession(p) ==
    [status |-> "active", current |-> 1, previous |-> 0, issued |-> 1, via |-> p]

(* A registered account that may be signed in once, with a session just    *)
(* made or refreshed twice since, and may have been sent one link of each  *)
(* kind.                                                                   *)
SignedIn(n) == [NewSession(chosen) EXCEPT !.current = n, !.previous = n - 1, !.issued = n]
Init ==
    /\ user \in {[SomeUser EXCEPT !.outdated = b] : b \in BOOLEAN}
    /\ chosen = AnyPassword
    /\ \/ session = [s \in SessionIds |-> NoSession]
       \/ \E n \in {1, 3} :
            session = [s \in SessionIds |-> IF s = AnySession THEN SignedIn(n) ELSE NoSession]
    /\ link \in [Links -> {"unused", "outstanding"}]
    /\ Cardinality({l \in VerifyLinks : link[l] = "outstanding"}) <= 1
    /\ Cardinality({l \in Links \ VerifyLinks : link[l] = "outstanding"}) <= 1
    /\ userLock = Nobody
    /\ sessionLock = [s \in SessionIds |-> Nobody]
    /\ linkLock = [l \in Links |-> Nobody]
    /\ req = [r \in Requests |-> NoRequest]

----------------------------------------------------------------------------
(* Transactions. *)

At(r, stage, ops) == req[r].pc = stage /\ req[r].op \in ops

(* The two kinds of links are in two tables. *)
LinksOf(op) == IF op \in {"request_reset", "reset", "change"} THEN Links \ VerifyLinks
               ELSE IF op \in {"resend_verification", "verify_email"} THEN VerifyLinks
               ELSE Links
Outstanding(op) == {l \in LinksOf(op) : link[l] = "outstanding"}
ActiveSessions == {s \in SessionIds : session[s].status = "active"}
(* revoke_all_for_user; a change keeps the session it was made from. *)
SessionsEnded(r) == CASE req[r].op = "change" -> ActiveSessions \ {req[r].session}
                      [] req[r].op \in {"reset", "delete_account"} -> ActiveSessions
                      [] OTHER -> {}

ReleaseLocks_rowsOnly(r) ==
    /\ sessionLock' = [s \in SessionIds |-> IF sessionLock[s] = r THEN Nobody ELSE sessionLock[s]]
    /\ linkLock' = [l \in Links |-> IF linkLock[l] = r THEN Nobody ELSE linkLock[l]]
    /\ UNCHANGED userLock
ReleaseLocks(r) ==
    /\ userLock' = IF userLock = r THEN Nobody ELSE userLock
    /\ sessionLock' = [s \in SessionIds |-> IF sessionLock[s] = r THEN Nobody ELSE sessionLock[s]]
    /\ linkLock' = [l \in Links |-> IF linkLock[l] = r THEN Nobody ELSE linkLock[l]]

(* A done request keeps what it presented. *)
Answer(r, answer) ==
    /\ ReleaseLocks(r)
    /\ req' = [req EXCEPT ![r] = IF answer = "ok" /\ @.op \in {"refresh", "reset", "verify_email"}
                 THEN [NoRequest EXCEPT !.pc = "done", !.answer = "ok",
                         !.op = req[r].op, !.session = req[r].session, !.secret = req[r].secret,
                         !.link = req[r].link]
                 ELSE [NoRequest EXCEPT !.pc = "done", !.answer = answer]]

Finish(r, answer) == Answer(r, answer) /\ UNCHANGED tables

(* The rows a transaction must lock to go on. *)
WantsUser(r) ==
    \/ At(r, "asked", IssueOps)
    \/ At(r, "read", {"login", "change", "delete_account", "reset"})
    \/ At(r, "read", {"verify_email"}) /\ ~req[r].user.verified
(* The insert of a session locks its user row for the foreign key only:    *)
(* FOR KEY SHARE, which waits for FOR UPDATE but not for an UPDATE.        *)
KeyShareOnly(r) == req[r].op = "login" /\ ~req[r].user.outdated
SessionsWanted(r) ==
    CASE At(r, "asked", SessionOps \cup {"revoke_session"})            -> {req[r].session}
      [] At(r, "writing", {"reset", "change", "delete_account"})       -> SessionsEnded(r)
      [] OTHER                                                         -> {}
LinksWanted(r) ==
    CASE At(r, "asked", LinkOps)                                       -> {req[r].link}
      [] At(r, "locked", IssueOps)                                     -> req[r].links
      [] \/ At(r, "writing", {"reset", "change", "delete_account"})
         \/ At(r, "read", {"verify_email"})                            -> Outstanding(req[r].op)
      [] OTHER                                                         -> {}

WaitsFor(r, q) ==
    /\ r # q
    /\ \/ WantsUser(r) /\ userLock = q /\ (KeyShareOnly(r) => req[q].op \in IssueOps)
       \/ \E s \in SessionsWanted(r) : sessionLock[s] = q
       \/ \E l \in LinksWanted(r) : linkLock[l] = q

Unblocked(r) == \A q \in Requests : ~WaitsFor(r, q)

----------------------------------------------------------------------------
(* What clients ask for.  A request with an access token passed            *)
(* authenticate: its session and its user were active.                     *)

Asked(r, op, s, secret, l, password, new) ==
    /\ req' = [req EXCEPT ![r] = [@ EXCEPT !.pc = "asked", !.op = op, !.session = s,
                 !.secret = secret, !.link = l, !.password = password, !.new = new]]
    /\ UNCHANGED <<tables, locks>>

(* In a finite instance: identifiers for what the requests in flight add. *)
InFlight(op) == Cardinality({q \in Requests : req[q].op = op /\ req[q].pc # "done"})
RoomFor(op) ==
    CASE op = "login"  -> InFlight("login") < Cardinality({s \in SessionIds : session[s].status = "none"})
      [] op \in IssueOps -> InFlight(op) < Cardinality({l \in LinksOf(op) : link[l] = "unused"})
      [] OTHER         -> TRUE

Ask(r) ==
    /\ req[r].pc = "idle"
    /\ \E op \in Operations :
         /\ RoomFor(op)
         /\ \/ /\ op = "login"
               /\ \E p \in Passwords : Asked(r, op, AnySession, 0, AnyLink, p, AnyPassword)
            \/ /\ op \in SessionOps
               /\ \E s \in SessionIds : \E secret \in 1 .. session[s].issued :
                    /\ session[s].issued < MaxSecrets
                    /\ Asked(r, op, s, secret, AnyLink, AnyPassword, AnyPassword)
            \/ /\ op \in IssueOps
               /\ Asked(r, op, AnySession, 0, AnyLink, AnyPassword, AnyPassword)
            \/ /\ op \in LinkOps
               /\ \E l \in LinksOf(op), new \in Passwords :
                    /\ link[l] # "unused"
                    /\ op = "verify_email" => new = AnyPassword
                    /\ Asked(r, op, AnySession, 0, l, AnyPassword, new)
            \/ /\ op \in OwnOps /\ user.status = "active"
               /\ \E s \in ActiveSessions, p \in Passwords, new \in Passwords :
                    /\ op = "revoke_session" => p = AnyPassword
                    /\ op # "change" => new = AnyPassword
                    /\ Asked(r, op, s, 0, AnyLink, p, new)

----------------------------------------------------------------------------
(* Sessions. *)

(* login, change and delete_account read the account, then verify.  login  *)
(* looks it up by its address, which a deleted account no longer has.      *)
ReadUser(r) ==
    /\ At(r, "asked", {"login", "change", "delete_account"})
    /\ user.status = "active"
    /\ user.password = req[r].password
    /\ req' = [req EXCEPT ![r].pc = "read", ![r].user = user]
    /\ UNCHANGED <<tables, locks>>

(* InvalidCredentials, IncorrectPassword or SessionRevoked; a new password *)
(* may also be refused by the policy.                                      *)
CredentialsRefused(r) ==
    /\ At(r, "asked", {"login", "change", "delete_account"})
    /\ \/ user.status # "active" \/ user.password # req[r].password
       \/ req[r].op = "change"
    /\ Finish(r, "refused")

Login(r) ==
    /\ At(r, "read", {"login"}) /\ Unblocked(r)
    /\ user' = IF req[r].user.outdated
               THEN [user EXCEPT !.password = req[r].password, !.outdated = FALSE]
               ELSE user
    /\ \E s \in SessionIds :
         /\ session[s].status = "none"
         /\ session' = [session EXCEPT ![s] = NewSession(req[r].password)]
    /\ Answer(r, "ok")
    /\ UNCHANGED <<link, chosen>>

LockSession_withoutLock(r) ==
    /\ At(r, "asked", SessionOps) /\ Unblocked(r)
    /\ session[req[r].session].status = "active"
    /\ req' = [req EXCEPT ![r].pc = "locked", ![r].row = session[req[r].session]]
    /\ UNCHANGED <<tables, locks>>
LockSession(r) ==
    /\ At(r, "asked", SessionOps) /\ Unblocked(r)
    /\ session[req[r].session].status = "active"
    /\ sessionLock' = [sessionLock EXCEPT ![req[r].session] = r]
    /\ req' = [req EXCEPT ![r].pc = "locked", ![r].row = session[req[r].session]]
    /\ UNCHANGED <<tables, userLock, linkLock>>

(* InvalidRefreshToken or SessionExpired; logout is a no-op. *)
SessionEnded(r) ==
    /\ At(r, "asked", SessionOps) /\ Unblocked(r)
    /\ session[req[r].session].status # "active" \/ req[r].op = "refresh"
    /\ Finish(r, IF req[r].op = "logout" THEN "ok" ELSE "refused")

Rotate_keepsCurrent(r) ==
    LET s == req[r].session IN
    /\ At(r, "locked", {"refresh"})
    /\ req[r].secret = req[r].row.current
    /\ user.status = "active"
    /\ session' = [session EXCEPT ![s].issued = @ + 1, ![s].previous = req[r].secret]
    /\ Answer(r, "ok")
    /\ UNCHANGED <<user, link, chosen>>
Rotate(r) ==
    LET s == req[r].session IN
    /\ At(r, "locked", {"refresh"})
    /\ req[r].secret = req[r].row.current
    /\ user.status = "active"
    /\ session' = [session EXCEPT ![s].issued = @ + 1, ![s].current = session[s].issued + 1,
                                  ![s].previous = req[r].secret]
    /\ Answer(r, "ok")
    /\ UNCHANGED <<user, link, chosen>>

(* RefreshConflict: the previous token within the grace window. *)
RefreshConflict(r) ==
    /\ At(r, "locked", {"refresh"})
    /\ req[r].secret = req[r].row.previous /\ req[r].secret # req[r].row.current
    /\ Finish(r, "conflict")

Revoke(s) == session' = [session EXCEPT ![s].status = IF @ = "active" THEN "revoked" ELSE @]

(* The previous token after the grace window; the revocation commits. *)
TokenReuse(r) ==
    /\ At(r, "locked", {"refresh"})
    /\ req[r].secret = req[r].row.previous /\ req[r].secret # req[r].row.current
    /\ Revoke(req[r].session)
    /\ Answer(r, "refused")
    /\ UNCHANGED <<user, link, chosen>>

RefreshRefused(r) ==
    /\ At(r, "locked", {"refresh"})
    /\ \/ req[r].secret \notin {req[r].row.current, req[r].row.previous}
       \/ req[r].secret = req[r].row.current /\ user.status # "active"
    /\ Finish(r, "refused")

Logout(r) ==
    /\ At(r, "locked", {"logout"})
    /\ IF req[r].secret \in {req[r].row.current, req[r].row.previous}
       THEN Revoke(req[r].session) ELSE UNCHANGED session
    /\ Answer(r, "ok")
    /\ UNCHANGED <<user, link, chosen>>

(* revoke_owned: one guarded UPDATE of any session of the user. *)
RevokeSession(r) ==
    /\ At(r, "asked", {"revoke_session"}) /\ Unblocked(r)
    /\ Revoke(req[r].session)
    /\ Answer(r, IF session[req[r].session].status = "active" THEN "ok" ELSE "refused")
    /\ UNCHANGED <<user, link, chosen>>

----------------------------------------------------------------------------
(* Links: issued under the account's row lock, used under the link's. *)

LockUser_withoutLock(r) ==
    /\ At(r, "asked", IssueOps) /\ Unblocked(r)
    /\ user.status = "active"
    /\ req[r].op = "resend_verification" => ~user.verified
    /\ req' = [req EXCEPT ![r].pc = "locked", ![r].links = Outstanding(req[r].op)]
    /\ UNCHANGED <<tables, locks>>
LockUser(r) ==
    /\ At(r, "asked", IssueOps) /\ Unblocked(r)
    /\ user.status = "active"
    /\ req[r].op = "resend_verification" => ~user.verified
    /\ userLock' = r
    /\ req' = [req EXCEPT ![r].pc = "locked", ![r].links = Outstanding(req[r].op)]
    /\ UNCHANGED <<tables, sessionLock, linkLock>>

(* Nothing is sent: no account, a verified address, or the cooldown. *)
SilentlyIgnored(r) == At(r, "asked", IssueOps) /\ Unblocked(r) /\ Finish(r, "ok")

IssueLink(r) ==
    /\ At(r, "locked", IssueOps) /\ Unblocked(r)
    /\ \E new \in LinksOf(req[r].op) :
         /\ link[new] = "unused"
         /\ link' = [l \in Links |->
                       CASE l = new -> "outstanding"
                         [] l \in req[r].links /\ link[l] = "outstanding" -> "revoked"
                         [] OTHER -> link[l]]
    /\ Answer(r, "ok")
    /\ UNCHANGED <<user, session, chosen>>

LockLink_withoutLock(r) ==
    /\ At(r, "asked", LinkOps) /\ Unblocked(r)
    /\ link[req[r].link] = "outstanding" /\ user.status = "active"
    /\ req' = [req EXCEPT ![r].pc = "read", ![r].user = user]
    /\ UNCHANGED <<tables, locks>>
LockLink(r) ==
    /\ At(r, "asked", LinkOps) /\ Unblocked(r)
    /\ link[req[r].link] = "outstanding" /\ user.status = "active"
    /\ linkLock' = [linkLock EXCEPT ![req[r].link] = r]
    /\ req' = [req EXCEPT ![r].pc = "read", ![r].user = user]
    /\ UNCHANGED <<tables, userLock, sessionLock>>

(* InvalidToken or TokenExpired; a weak new password leaves the link alone. *)
LinkRefused(r) == At(r, "asked", LinkOps) /\ Unblocked(r) /\ Finish(r, "refused")

VerifyEmail(r) ==
    /\ At(r, "read", {"verify_email"}) /\ Unblocked(r)
    /\ link' = [l \in Links |-> CASE l = req[r].link -> "consumed"
                                  [] l \in Outstanding("verify_email") \ {req[r].link} -> "revoked"
                                  [] OTHER -> link[l]]
    /\ user' = IF req[r].user.verified THEN user ELSE [user EXCEPT !.verified = TRUE]
    /\ Answer(r, "ok")
    /\ UNCHANGED <<session, chosen>>

----------------------------------------------------------------------------
(* change, reset and delete_account update the account, and with its row   *)
(* locked end sessions and links.                                          *)

UpdateUser(r) ==
    /\ At(r, "read", {"change", "reset", "delete_account"}) /\ Unblocked(r)
    /\ userLock' = r
    /\ req' = [req EXCEPT ![r].pc = "writing"]
    /\ UNCHANGED <<tables, sessionLock, linkLock>>

NewPassword(r) == req[r].op \in {"change", "reset"}

CommitUser(r) ==
    /\ req[r].pc = "writing" /\ Unblocked(r)
    /\ user' = CASE req[r].op = "delete_account" -> [user EXCEPT !.status = "deleted", !.verified = FALSE]
                 [] OTHER -> [user EXCEPT !.password = req[r].new, !.outdated = FALSE,
                                          !.verified = @ \/ req[r].op = "reset"]
    /\ chosen' = IF NewPassword(r) THEN req[r].new ELSE chosen
    /\ link' = [l \in Links |->
                  CASE req[r].op = "reset" /\ l = req[r].link -> "consumed"
                    [] l \in Outstanding(req[r].op) /\ ~(req[r].op = "reset" /\ l = req[r].link)
                                                              -> "revoked"
                    [] OTHER                                  -> link[l]]
    /\ session' = [s \in SessionIds |->
                     CASE s \in SessionsEnded(r) -> [session[s] EXCEPT !.status = "revoked"]
                       [] req[r].op = "change" /\ s = req[r].session /\ s \in ActiveSessions
                           -> [session[s] EXCEPT !.via = req[r].new]
                       [] OTHER -> session[s]]
    /\ Answer(r, "ok")

----------------------------------------------------------------------------
(* PostgreSQL ends one of the transactions that wait for each other. *)
DeadlockVictim(r) ==
    /\ \E q \in Requests : WaitsFor(r, q) /\ WaitsFor(q, r)
    /\ Finish(r, "failed")

(* Any transaction may fail before it commits. *)
Abort(r) == req[r].pc \notin {"idle", "done"} /\ Finish(r, "failed")

Step(r) ==
    \/ ReadUser(r) \/ CredentialsRefused(r) \/ Login(r)
    \/ LockSession(r) \/ SessionEnded(r) \/ Rotate(r) \/ RefreshConflict(r) \/ TokenReuse(r)
    \/ RefreshRefused(r) \/ Logout(r) \/ RevokeSession(r)
    \/ LockUser(r) \/ SilentlyIgnored(r) \/ IssueLink(r)
    \/ LockLink(r) \/ LinkRefused(r) \/ VerifyEmail(r)
    \/ UpdateUser(r) \/ CommitUser(r)
    \/ DeadlockVictim(r)

(* Every request has been answered, and no client sends another. *)
Quiescent == (\A r \in Requests : req[r].pc \in {"idle", "done"}) /\ UNCHANGED vars

Next == (\E r \in Requests : Ask(r) \/ Step(r) \/ Abort(r)) \/ Quiescent

Spec == Init /\ [][Next]_vars

(* A request in progress is resumed whenever its next statement can run,   *)
(* and the database ends a deadlock.                                       *)
FairSpec == Spec /\ \A r \in Requests : WF_vars(Step(r))

----------------------------------------------------------------------------
(* A revoked session is over: no refresh, login or password change that    *)
(* was in flight revives it or gives it another secret.                    *)
RevokedIsFinal ==
    [][\A s \in SessionIds : session[s].status = "revoked" => session'[s] = session[s]]_vars

(* The tables stay well-formed, and a refresh token is exchanged for a new *)
(* one at most once, however many tabs present it at the same time.        *)
ExchangedOnce ==
    TypeOK /\ \A r, q \in Requests :
        /\ r # q /\ req[r].op = "refresh" /\ req[q].op = "refresh"
        /\ req[r].answer = "ok" /\ req[q].answer = "ok"
        /\ req[r].session = req[q].session
        => req[r].secret # req[q].secret

(* An emailed link works once, and only until a newer one, a password      *)
(* change or the account's deletion ends it.                               *)
LinkUsedOnce ==
    [][\A l \in Links : link[l] \in {"consumed", "revoked"} =>
         /\ link'[l] = link[l]
         /\ \A r \in Requests : req[r].op \in LinkOps /\ req[r].link = l /\ req[r].pc # "done"
              => req'[r].answer # "ok"]_vars

(* What has ended stays ended, sessions as well as links.                  *)
EndedForGood == RevokedIsFinal /\ LinkUsedOnce

(* Only the latest link of a kind works: at most one is outstanding,       *)
(* though requests for new ones overlap.                                   *)
OneLinkOutstanding ==
    /\ Cardinality({l \in VerifyLinks : link[l] = "outstanding"}) <= 1
    /\ Cardinality({l \in Links \ VerifyLinks : link[l] = "outstanding"}) <= 1

(* Every request is answered, by the victim of a deadlock too. *)
EveryRequestAnswered ==
    \A r \in Requests : req[r].pc = "asked" ~> req[r].pc = "done"

(* Whoever signed in with an old password is signed out by a reset, and by *)
(* a change except for the session that made it.                           *)
OldPasswordSignedOut ==
    \A s \in SessionIds : session[s].status = "active" => session[s].via = chosen

=============================================================================
