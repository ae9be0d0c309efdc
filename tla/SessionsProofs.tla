--------------------------- MODULE SessionsProofs ---------------------------
(* Theorems about Sessions, for every number of requests, sessions, links  *)
(* and passwords.                                                          *)
EXTENDS Sessions, FiniteSetTheorems, TLAPS

USE DEF Stages, Answers

LinkStatus == {"unused", "outstanding", "consumed", "revoked"}

----------------------------------------------------------------------------
(* The inductive invariant. *)

(* What a transaction holds: the row locks of its stage, and with them     *)
(* what it read under them.                                                *)
HoldsSession(r) ==
    At(r, "locked", SessionOps) =>
        /\ sessionLock[req[r].session] = r
        /\ session[req[r].session].status = "active"
        /\ req[r].row.current = session[req[r].session].current

HoldsLink(r) ==
    req[r].pc \in {"read", "writing"} /\ req[r].op \in LinkOps =>
        linkLock[req[r].link] = r /\ link[req[r].link] = "outstanding"

HoldsUser(r) ==
    /\ At(r, "locked", IssueOps) => userLock = r /\ Outstanding(req[r].op) \subseteq req[r].links
    /\ req[r].pc = "writing" => userLock = r /\ req[r].op \in {"change", "reset", "delete_account"}

Unanswered(r) == req[r].pc # "done" => req[r].answer = "none"

HoldsLocks(r) == HoldsSession(r) /\ HoldsLink(r) /\ HoldsUser(r) /\ Unanswered(r)

(* The refresh that exchanged a secret, which is no longer the current one. *)
Exchanged(r) == req[r].op = "refresh" /\ req[r].answer = "ok"
Replaced(r) ==
    Exchanged(r) => /\ session[req[r].session].status # "none"
                    /\ req[r].secret < session[req[r].session].current
SameExchange(r, q) ==
    /\ Exchanged(r) /\ Exchanged(q)
    /\ req[r].session = req[q].session /\ req[r].secret = req[q].secret

(* The current secret of a session is the last one issued. *)
LastIsCurrent == \A s \in SessionIds : session[s].current = session[s].issued

SameKind(l, m) == l \in VerifyLinks <=> m \in VerifyLinks
OneOfAKind ==
    \A l, m \in Links :
        link[l] = "outstanding" /\ link[m] = "outstanding" /\ SameKind(l, m) => l = m

IInv ==
    /\ TypeOK
    /\ \A r \in Requests : HoldsLocks(r)
    /\ \A r \in Requests : Replaced(r)
    /\ \A r, q \in Requests : r # q => ~ SameExchange(r, q)
    /\ LastIsCurrent
    /\ OneOfAKind

----------------------------------------------------------------------------
(* What a step of r leaves alone: the other requests, and whatever they    *)
(* hold.                                                                   *)

Held(holder, r) == holder \in Requests /\ holder # r

Respects(r) ==
    /\ \A q \in Requests \ {r} : req'[q] = req[q]
    /\ \A s \in SessionIds : Held(sessionLock[s], r) /\ session[s].status = "active" =>
         /\ sessionLock'[s] = sessionLock[s]
         /\ session'[s].status = session[s].status /\ session'[s].current = session[s].current
    /\ \A l \in Links : Held(linkLock[l], r) /\ link[l] = "outstanding" =>
         linkLock'[l] = linkLock[l] /\ link'[l] = link[l]
    /\ Held(userLock, r) =>
         /\ userLock' = userLock
         /\ \A l \in Links : link'[l] = "outstanding" => link[l] = "outstanding"

(* Sessions are never forgotten, nor their secrets reissued. *)
SessionsGrow ==
    \A s \in SessionIds : session[s].status # "none" =>
        session'[s].status # "none" /\ session[s].current <= session'[s].current

LEMMA StepKeeps ==
    ASSUME IInv, TypeOK', NEW r \in Requests, Respects(r), SessionsGrow,
           HoldsLocks(r)', Replaced(r)', LastIsCurrent', OneOfAKind',
           \A q \in Requests \ {r} : ~ SameExchange(r, q)' /\ ~ SameExchange(q, r)'
    PROVE  IInv'
  <1>1. \A q \in Requests : /\ req[q].session \in SessionIds /\ req[q].link \in Links /\ q # Nobody
                            /\ req[q].secret \in Nat
    BY SessionsAssumption DEF IInv, TypeOK, Request
  <1>2. \A s \in SessionIds : session[s].current \in Nat /\ session'[s].current \in Nat
    BY DEF IInv, TypeOK, Session
  <1>3. ASSUME NEW q \in Requests \ {r}
        PROVE  HoldsLocks(q)' /\ Replaced(q)'
    <2>1. req'[q] = req[q]
      BY DEF Respects
    <2>2. HoldsSession(q)'
      BY <1>1, <2>1 DEF IInv, HoldsLocks, HoldsSession, At, Respects, Held
    <2>3. HoldsLink(q)'
      BY <1>1, <2>1 DEF IInv, HoldsLocks, HoldsLink, Respects, Held
    <2>4. HoldsUser(q)'
      <3>1. LinksOf(req[q].op) \subseteq Links
        BY SessionsAssumption DEF LinksOf
      <3> QED BY <1>1, <2>1, <3>1 DEF IInv, HoldsLocks, HoldsUser, At, Outstanding, Respects, Held
    <2>5. Unanswered(q)'
      BY <2>1 DEF IInv, HoldsLocks, Unanswered
    <2>6. Replaced(q)'
      BY <1>1, <1>2, <2>1 DEF IInv, Replaced, Exchanged, SessionsGrow
    <2> QED BY <2>2, <2>3, <2>4, <2>5, <2>6 DEF HoldsLocks
  <1>4. \A q, p \in Requests \ {r} : q # p => ~ SameExchange(q, p)'
    BY DEF IInv, Respects, SameExchange, Exchanged
  <1> QED BY <1>3, <1>4 DEF IInv

----------------------------------------------------------------------------
(* Types. *)

LEMMA NoSessionType == NoSession \in Session
  <1>1. AnyPassword \in Passwords
    BY SessionsAssumption DEF AnyPassword
  <1> QED BY <1>1 DEF NoSession, Session

LEMMA NoRequestType == NoRequest \in Request /\ SomeUser \in User
  <1>1. AnyPassword \in Passwords
    BY SessionsAssumption DEF AnyPassword
  <1>2. AnySession \in SessionIds
    BY SessionsAssumption DEF AnySession
  <1>3. AnyLink \in Links
    BY SessionsAssumption DEF AnyLink
  <1>4. SomeUser \in User
    BY <1>1 DEF SomeUser, User
  <1> QED BY <1>1, <1>2, <1>3, <1>4, NoSessionType DEF NoRequest, Request

(* The end of a transaction. *)
Ended(r, answer) ==
    /\ req' \in [Requests -> Request]
    /\ userLock' \in Requests \cup {Nobody}
    /\ sessionLock' \in [SessionIds -> Requests \cup {Nobody}]
    /\ linkLock' \in [Links -> Requests \cup {Nobody}]
    /\ \A q \in Requests \ {r} : req'[q] = req[q]
    /\ req'[r].pc = "done" /\ req'[r].answer = answer
    /\ \A s \in SessionIds : sessionLock[s] # r => sessionLock'[s] = sessionLock[s]
    /\ \A l \in Links : linkLock[l] # r => linkLock'[l] = linkLock[l]
    /\ userLock # r => userLock' = userLock
    /\ req'[r].op = "refresh" <=> answer = "ok" /\ req[r].op = "refresh"
    /\ req'[r].op = "refresh" => req'[r].session = req[r].session /\ req'[r].secret = req[r].secret

LEMMA AnswerEnds ==
    ASSUME TypeOK, NEW r \in Requests, NEW answer \in Answers, Answer(r, answer)
    PROVE  Ended(r, answer)
  <1>1. req[r] \in Request /\ NoRequest \in Request /\ NoRequest.op = "none"
    BY NoRequestType DEF TypeOK, NoRequest
  <1>2. CASE answer = "ok" /\ req[r].op \in {"refresh", "reset", "verify_email"}
    <2> DEFINE done == [NoRequest EXCEPT !.pc = "done", !.answer = "ok", !.op = req[r].op,
                          !.session = req[r].session, !.secret = req[r].secret, !.link = req[r].link]
    <2>1. /\ done \in Request /\ done.pc = "done" /\ done.answer = "ok" /\ done.op = req[r].op
          /\ done.session = req[r].session /\ done.secret = req[r].secret
      BY <1>1 DEF Request
    <2>2. req' = [req EXCEPT ![r] = done]
      BY <1>2 DEF Answer
    <2> HIDE DEF done
    <2> QED BY <1>2, <2>1, <2>2 DEF Answer, ReleaseLocks, TypeOK, Ended
  <1>3. CASE ~ (answer = "ok" /\ req[r].op \in {"refresh", "reset", "verify_email"})
    <2> DEFINE done == [NoRequest EXCEPT !.pc = "done", !.answer = answer]
    <2>1. /\ done \in Request /\ done.pc = "done" /\ done.answer = answer /\ done.op = "none"
      BY <1>1 DEF Request
    <2>2. req' = [req EXCEPT ![r] = done]
      BY <1>3 DEF Answer
    <2> HIDE DEF done
    <2> QED BY <1>3, <2>1, <2>2 DEF Answer, ReleaseLocks, TypeOK, Ended
  <1> QED BY <1>2, <1>3

(* A transaction that ends holds nothing, and exchanged a secret only if   *)
(* it was a refresh that succeeded.                                        *)
LEMMA EndedHolds ==
    ASSUME NEW r \in Requests, NEW answer \in Answers, Ended(r, answer)
    PROVE  HoldsLocks(r)'
  BY DEF Ended, HoldsLocks, HoldsSession, HoldsLink, HoldsUser, Unanswered, At

LEMMA EndedSilent ==
    ASSUME NEW r \in Requests, NEW answer \in Answers, Ended(r, answer),
           answer # "ok" \/ req[r].op # "refresh"
    PROVE  /\ Replaced(r)'
           /\ \A q \in Requests \ {r} : ~ SameExchange(r, q)' /\ ~ SameExchange(q, r)'
  BY DEF Ended, Replaced, Exchanged, SameExchange

(* A transaction that ends and writes only to sessions that nobody else    *)
(* holds, or to links that nobody else holds.                              *)
LEMMA FinishKeeps ==
    ASSUME IInv, NEW r \in Requests, NEW answer \in Answers, Finish(r, answer),
           answer # "ok" \/ req[r].op # "refresh"
    PROVE  IInv'
  <1>1. Ended(r, answer) /\ UNCHANGED <<user, session, link, chosen>>
    BY AnswerEnds DEF IInv, Finish, tables
  <1>2. TypeOK'
    BY <1>1 DEF IInv, TypeOK, Ended
  <1>3. Respects(r)
    BY <1>1 DEF Ended, Respects, Held
  <1>4. SessionsGrow
    BY <1>1 DEF SessionsGrow, IInv, TypeOK, Session
  <1>5. LastIsCurrent' /\ OneOfAKind'
    BY <1>1 DEF IInv, LastIsCurrent, OneOfAKind
  <1> QED BY <1>1, <1>2, <1>3, <1>4, <1>5, EndedHolds, EndedSilent, StepKeeps

----------------------------------------------------------------------------
(* The steps that take a lock, or read, and go on. *)

(* The next stage of r, which is not its end and exchanges nothing. *)
GoesOn(r) ==
    /\ req' \in [Requests -> Request]
    /\ \A q \in Requests \ {r} : req'[q] = req[q]
    /\ req'[r].answer = "none" /\ req'[r].pc # "done"
    /\ UNCHANGED <<user, session, link, chosen>>

LEMMA GoesOnKeeps ==
    ASSUME IInv, NEW r \in Requests, GoesOn(r),
           userLock' \in Requests \cup {Nobody},
           sessionLock' \in [SessionIds -> Requests \cup {Nobody}],
           linkLock' \in [Links -> Requests \cup {Nobody}],
           Held(userLock, r) => userLock' = userLock,
           \A s \in SessionIds : Held(sessionLock[s], r) => sessionLock'[s] = sessionLock[s],
           \A l \in Links : Held(linkLock[l], r) => linkLock'[l] = linkLock[l],
           HoldsSession(r)', HoldsLink(r)', HoldsUser(r)'
    PROVE  IInv'
  <1>1. TypeOK'
    BY DEF IInv, TypeOK, GoesOn
  <1>2. Respects(r)
    BY DEF GoesOn, Respects
  <1>3. SessionsGrow
    BY DEF SessionsGrow, GoesOn, IInv, TypeOK, Session
  <1>4. LastIsCurrent' /\ OneOfAKind'
    BY DEF IInv, LastIsCurrent, OneOfAKind, GoesOn
  <1>5. HoldsLocks(r)'
    BY DEF HoldsLocks, Unanswered, GoesOn
  <1>6. Replaced(r)' /\ \A q \in Requests \ {r} : ~ SameExchange(r, q)' /\ ~ SameExchange(q, r)'
    BY DEF GoesOn, Replaced, Exchanged, SameExchange
  <1> QED BY <1>1, <1>2, <1>3, <1>4, <1>5, <1>6, StepKeeps

LEMMA AskChoice ==
    ASSUME TypeOK, NEW r \in Requests, Ask(r)
    PROVE  \E op \in AllOps, s \in SessionIds, secret \in Nat, l \in Links,
              password \in Passwords, new \in Passwords :
              Asked(r, op, s, secret, l, password, new)
  <1>1. AnyPassword \in Passwords /\ AnySession \in SessionIds /\ AnyLink \in Links
    BY SessionsAssumption DEF AnyPassword, AnySession, AnyLink
  <1>2. PICK op \in Operations :
         \/ \E p \in Passwords : Asked(r, op, AnySession, 0, AnyLink, p, AnyPassword)
         \/ \E s \in SessionIds : \E secret \in 1 .. session[s].issued :
              Asked(r, op, s, secret, AnyLink, AnyPassword, AnyPassword)
         \/ Asked(r, op, AnySession, 0, AnyLink, AnyPassword, AnyPassword)
         \/ \E l \in LinksOf(op), new \in Passwords : Asked(r, op, AnySession, 0, l, AnyPassword, new)
         \/ \E s \in ActiveSessions, p \in Passwords, new \in Passwords :
              Asked(r, op, s, 0, AnyLink, p, new)
    BY Zenon DEF Ask
  <1>3. op \in AllOps /\ LinksOf(op) \subseteq Links /\ ActiveSessions \subseteq SessionIds
    BY SessionsAssumption DEF LinksOf, ActiveSessions
  <1>4. \A n \in Nat : 1 .. n \subseteq Nat
    OBVIOUS
  <1>5. \A s \in SessionIds : session[s].issued \in Nat
    BY DEF TypeOK, Session
  <1>6. 0 \in Nat
    OBVIOUS
  <1> QED BY <1>1, <1>2, <1>3, <1>4, <1>5, <1>6, Zenon

LEMMA AskKeeps ==
    ASSUME IInv, NEW r \in Requests, Ask(r)
    PROVE  IInv'
  <1>1. PICK op \in AllOps, s \in SessionIds, secret \in Nat, l \in Links,
             password \in Passwords, new \in Passwords :
             Asked(r, op, s, secret, l, password, new)
    BY AskChoice DEF IInv
  <1> DEFINE asked == [req[r] EXCEPT !.pc = "asked", !.op = op, !.session = s, !.secret = secret,
                                     !.link = l, !.password = password, !.new = new]
  <1>2. req[r] \in Request /\ req[r].answer = "none"
    BY DEF IInv, TypeOK, HoldsLocks, Unanswered, Ask
  <1>3. asked \in Request /\ asked.pc = "asked" /\ asked.answer = "none"
    BY <1>2 DEF Request
  <1>4. req' = [req EXCEPT ![r] = asked] /\ UNCHANGED <<tables, locks>>
    BY <1>1 DEF Asked
  <1> HIDE DEF asked
  <1>5. GoesOn(r) /\ req'[r].pc = "asked"
    BY <1>3, <1>4 DEF GoesOn, tables, IInv, TypeOK
  <1>6. HoldsSession(r)' /\ HoldsLink(r)' /\ HoldsUser(r)'
    BY <1>5 DEF HoldsSession, HoldsLink, HoldsUser, At
  <1> QED BY <1>4, <1>5, <1>6, GoesOnKeeps DEF locks, IInv, TypeOK

LEMMA ReadUserKeeps ==
    ASSUME IInv, NEW r \in Requests, ReadUser(r)
    PROVE  IInv'
  <1>1. req[r] \in Request /\ req[r].answer = "none" /\ user \in User
    BY DEF IInv, TypeOK, HoldsLocks, Unanswered, ReadUser, At
  <1> DEFINE read == [req[r] EXCEPT !.pc = "read", !.user = user]
  <1>2. read \in Request /\ read.pc = "read" /\ read.op = req[r].op /\ read.answer = "none"
    BY <1>1 DEF Request
  <1>3. req' = [req EXCEPT ![r] = read] /\ UNCHANGED <<tables, locks>>
    BY <1>1 DEF ReadUser, Request, IInv, TypeOK
  <1> HIDE DEF read
  <1>4. GoesOn(r) /\ req'[r].pc = "read" /\ req'[r].op \in {"login", "change", "delete_account"}
    BY <1>2, <1>3 DEF GoesOn, tables, IInv, TypeOK, ReadUser, At
  <1>5. HoldsSession(r)' /\ HoldsLink(r)' /\ HoldsUser(r)'
    BY <1>4 DEF HoldsSession, HoldsLink, HoldsUser, At, LinkOps
  <1> QED BY <1>3, <1>4, <1>5, GoesOnKeeps DEF locks, IInv, TypeOK

(* What a transaction that can go on wants is in no other's hands. *)
LEMMA UnblockedFree ==
    ASSUME NEW r \in Requests, Unblocked(r)
    PROVE  /\ \A s \in SessionsWanted(r) : ~ Held(sessionLock[s], r)
           /\ \A l \in LinksWanted(r) : ~ Held(linkLock[l], r)
           /\ WantsUser(r) /\ req[r].op # "login" => ~ Held(userLock, r)
  BY DEF Unblocked, WaitsFor, Held, KeyShareOnly

LEMMA LockSessionKeeps ==
    ASSUME IInv, NEW r \in Requests, LockSession(r)
    PROVE  IInv'
  <1> DEFINE s == req[r].session
  <1>1. /\ req[r] \in Request /\ req[r].answer = "none" /\ session \in [SessionIds -> Session]
        /\ s \in SessionIds /\ session[s] \in Session /\ req[r].op \in SessionOps
    BY DEF IInv, TypeOK, HoldsLocks, Unanswered, LockSession, At, Request
  <1> DEFINE locked == [req[r] EXCEPT !.pc = "locked", !.row = session[s]]
  <1>2. /\ locked \in Request /\ locked.pc = "locked" /\ locked.op = req[r].op
        /\ locked.answer = "none" /\ locked.session = s /\ locked.row = session[s]
    BY <1>1 DEF Request
  <1>3. /\ req' = [req EXCEPT ![r] = locked] /\ sessionLock' = [sessionLock EXCEPT ![s] = r]
        /\ session[s].status = "active" /\ UNCHANGED <<tables, userLock, linkLock>>
    BY <1>1 DEF LockSession, Request, IInv, TypeOK
  <1> HIDE DEF locked
  <1>4. /\ GoesOn(r) /\ req'[r].pc = "locked" /\ req'[r].op = req[r].op
        /\ req'[r].session = s /\ req'[r].row = session[s]
    BY <1>2, <1>3 DEF GoesOn, tables, IInv, TypeOK
  <1>5. SessionsWanted(r) = {s}
    BY DEF LockSession, SessionsWanted, At
  <1>6. ~ Held(sessionLock[s], r)
    BY <1>5, UnblockedFree DEF LockSession
  <1>7. HoldsSession(r)'
    BY <1>1, <1>3, <1>4 DEF HoldsSession, GoesOn, IInv, TypeOK
  <1>8. HoldsLink(r)' /\ HoldsUser(r)'
    BY <1>1, <1>4 DEF HoldsLink, HoldsUser, At, SessionOps, IssueOps
  <1>9. sessionLock' \in [SessionIds -> Requests \cup {Nobody}]
    BY <1>1, <1>3 DEF IInv, TypeOK
  <1> QED BY <1>1, <1>3, <1>4, <1>6, <1>7, <1>8, <1>9, GoesOnKeeps DEF IInv, TypeOK

LEMMA LockUserKeeps ==
    ASSUME IInv, NEW r \in Requests, LockUser(r)
    PROVE  IInv'
  <1> DEFINE read == Outstanding(req[r].op)
  <1>1. /\ req[r] \in Request /\ req[r].answer = "none" /\ req[r].op \in IssueOps
        /\ read \in SUBSET Links
    BY SessionsAssumption DEF IInv, TypeOK, HoldsLocks, Unanswered, LockUser, At, Outstanding, LinksOf
  <1> DEFINE locked == [req[r] EXCEPT !.pc = "locked", !.links = read]
  <1>2. /\ locked \in Request /\ locked.pc = "locked" /\ locked.op = req[r].op
        /\ locked.answer = "none" /\ locked.links = read
    <2> HIDE DEF read
    <2> QED BY <1>1 DEF Request
  <1>3. /\ req' = [req EXCEPT ![r] = locked] /\ userLock' = r
        /\ UNCHANGED <<tables, sessionLock, linkLock>>
    <2>1. req' = [req EXCEPT ![r].pc = "locked", ![r].links = read]
      BY DEF LockUser
    <2> HIDE DEF read
    <2> QED BY <1>1, <2>1 DEF LockUser, Request, IInv, TypeOK
  <1> HIDE DEF locked
  <1>4. GoesOn(r) /\ req'[r].pc = "locked" /\ req'[r].op = req[r].op /\ req'[r].links = read
    BY <1>2, <1>3 DEF GoesOn, tables, IInv, TypeOK
  <1>5. ~ Held(userLock, r)
    BY <1>1, UnblockedFree DEF LockUser, WantsUser, IssueOps
  <1>6. HoldsUser(r)'
    BY <1>3, <1>4 DEF HoldsUser, GoesOn, Outstanding
  <1>7. HoldsSession(r)' /\ HoldsLink(r)'
    BY <1>1, <1>4 DEF HoldsSession, HoldsLink, At, SessionOps, IssueOps
  <1> QED BY <1>1, <1>3, <1>4, <1>5, <1>6, <1>7, GoesOnKeeps DEF IInv, TypeOK

LEMMA LockLinkKeeps ==
    ASSUME IInv, NEW r \in Requests, LockLink(r)
    PROVE  IInv'
  <1> DEFINE l == req[r].link
  <1>1. /\ req[r] \in Request /\ req[r].answer = "none" /\ user \in User
        /\ l \in Links /\ req[r].op \in LinkOps
    BY DEF IInv, TypeOK, HoldsLocks, Unanswered, LockLink, At, Request
  <1> DEFINE read == [req[r] EXCEPT !.pc = "read", !.user = user]
  <1>2. /\ read \in Request /\ read.pc = "read" /\ read.op = req[r].op
        /\ read.answer = "none" /\ read.link = l
    BY <1>1 DEF Request
  <1>3. /\ req' = [req EXCEPT ![r] = read] /\ linkLock' = [linkLock EXCEPT ![l] = r]
        /\ link[l] = "outstanding" /\ UNCHANGED <<tables, userLock, sessionLock>>
    BY <1>1 DEF LockLink, Request, IInv, TypeOK
  <1> HIDE DEF read
  <1>4. GoesOn(r) /\ req'[r].pc = "read" /\ req'[r].op = req[r].op /\ req'[r].link = l
    BY <1>2, <1>3 DEF GoesOn, tables, IInv, TypeOK
  <1>5. LinksWanted(r) = {l}
    BY DEF LockLink, LinksWanted, At
  <1>6. ~ Held(linkLock[l], r)
    BY <1>5, UnblockedFree DEF LockLink
  <1>7. HoldsLink(r)'
    BY <1>1, <1>3, <1>4 DEF HoldsLink, GoesOn, IInv, TypeOK
  <1>8. HoldsSession(r)' /\ HoldsUser(r)'
    BY <1>4 DEF HoldsSession, HoldsUser, At
  <1>9. linkLock' \in [Links -> Requests \cup {Nobody}]
    BY <1>1, <1>3 DEF IInv, TypeOK
  <1> QED BY <1>1, <1>3, <1>4, <1>6, <1>7, <1>8, <1>9, GoesOnKeeps DEF IInv, TypeOK

LEMMA UpdateUserKeeps ==
    ASSUME IInv, NEW r \in Requests, UpdateUser(r)
    PROVE  IInv'
  <1>1. /\ req[r] \in Request /\ req[r].answer = "none" /\ req[r].pc = "read"
        /\ req[r].op \in {"change", "reset", "delete_account"} /\ req[r].link \in Links
    BY DEF IInv, TypeOK, HoldsLocks, Unanswered, UpdateUser, At, Request
  <1> DEFINE writing == [req[r] EXCEPT !.pc = "writing"]
  <1>2. /\ writing \in Request /\ writing.pc = "writing" /\ writing.op = req[r].op
        /\ writing.answer = "none" /\ writing.link = req[r].link
    BY <1>1 DEF Request
  <1>3. /\ req' = [req EXCEPT ![r] = writing] /\ userLock' = r
        /\ UNCHANGED <<tables, sessionLock, linkLock>>
    BY <1>1 DEF UpdateUser, Request, IInv, TypeOK
  <1> HIDE DEF writing
  <1>4. /\ GoesOn(r) /\ req'[r].pc = "writing" /\ req'[r].op = req[r].op
        /\ req'[r].link = req[r].link
    BY <1>2, <1>3 DEF GoesOn, tables, IInv, TypeOK
  <1>5. ~ Held(userLock, r)
    BY <1>1, UnblockedFree DEF UpdateUser, WantsUser, At
  <1>6. HoldsLink(r)'
    BY <1>1, <1>3, <1>4 DEF IInv, HoldsLocks, HoldsLink, GoesOn
  <1>7. HoldsSession(r)' /\ HoldsUser(r)'
    BY <1>1, <1>3, <1>4 DEF HoldsSession, HoldsUser, At
  <1> QED BY <1>1, <1>3, <1>4, <1>5, <1>6, <1>7, GoesOnKeeps DEF IInv, TypeOK

----------------------------------------------------------------------------
(* The steps that write and commit. *)

NoneIssued == \A l \in Links : link'[l] = "outstanding" => link[l] = "outstanding"

LEMMA CommitKeeps ==
    ASSUME IInv, NEW r \in Requests, NEW answer \in Answers, Ended(r, answer),
           user' \in User, chosen' \in Passwords,
           session' \in [SessionIds -> Session], link' \in [Links -> LinkStatus],
           \A s \in SessionIds : Held(sessionLock[s], r) /\ session[s].status = "active" =>
               session'[s].status = session[s].status /\ session'[s].current = session[s].current,
           \A l \in Links : Held(linkLock[l], r) /\ link[l] = "outstanding" => link'[l] = link[l],
           Held(userLock, r) => NoneIssued,
           SessionsGrow, LastIsCurrent', OneOfAKind', Replaced(r)',
           \A q \in Requests \ {r} : ~ SameExchange(r, q)' /\ ~ SameExchange(q, r)'
    PROVE  IInv'
  <1>1. TypeOK'
    BY DEF IInv, TypeOK, Ended, LinkStatus
  <1>2. Respects(r)
    BY DEF Ended, Respects, Held, NoneIssued
  <1> QED BY <1>1, <1>2, EndedHolds, StepKeeps

(* ... where only one session, that nobody else holds, is written, and no  *)
(* secret is exchanged.                                                    *)
LEMMA SessionCommitKeeps ==
    ASSUME IInv, NEW r \in Requests, NEW answer \in Answers, Ended(r, answer),
           user' \in User, chosen' \in Passwords, link' = link,
           NEW s \in SessionIds, ~ Held(sessionLock[s], r) \/ session[s].status # "active",
           NEW row \in Session, session' = [session EXCEPT ![s] = row],
           row.status # "none", row.current = row.issued,
           session[s].status # "none" => session[s].current <= row.current, Replaced(r)',
           \A q \in Requests \ {r} : ~ SameExchange(r, q)' /\ ~ SameExchange(q, r)'
    PROVE  IInv'
  <1>1. session' \in [SessionIds -> Session] /\ link' \in [Links -> LinkStatus]
    BY DEF IInv, TypeOK, LinkStatus
  <1>2. /\ session'[s] = row
        /\ \A t \in SessionIds \ {s} : session'[t] = session[t]
        /\ \A t \in SessionIds : session[t].current \in Nat
    BY DEF IInv, TypeOK, Session
  <1>3. SessionsGrow
    BY <1>2 DEF SessionsGrow
  <1>4. LastIsCurrent' /\ OneOfAKind' /\ NoneIssued
    BY <1>2 DEF IInv, LastIsCurrent, OneOfAKind, NoneIssued
  <1>5. \A t \in SessionIds : Held(sessionLock[t], r) /\ session[t].status = "active" =>
            session'[t].status = session[t].status /\ session'[t].current = session[t].current
    BY <1>2
  <1> QED BY <1>1, <1>3, <1>4, <1>5, CommitKeeps

LEMMA LoginKeeps ==
    ASSUME IInv, NEW r \in Requests, Login(r)
    PROVE  IInv'
  <1>1. Ended(r, "ok") /\ req[r].op = "login" /\ link' = link /\ chosen' \in Passwords
    BY AnswerEnds DEF Login, At, IInv, TypeOK
  <1>2. req[r].password \in Passwords /\ user \in User
    BY DEF IInv, TypeOK, Request
  <1>3. user' \in User
    BY <1>2 DEF Login, User
  <1>4. PICK s \in SessionIds : /\ session[s].status = "none"
                                /\ session' = [session EXCEPT ![s] = NewSession(req[r].password)]
    BY DEF Login
  <1> DEFINE row == NewSession(req[r].password)
  <1>5. row \in Session /\ row.status = "active" /\ row.current = 1 /\ row.issued = 1
    BY <1>2 DEF NewSession, Session
  <1> HIDE DEF row
  <1>6. row.status # "none" /\ session[s].status # "active"
    BY <1>4, <1>5
  <1>7. /\ Replaced(r)'
        /\ \A q \in Requests \ {r} : ~ SameExchange(r, q)' /\ ~ SameExchange(q, r)'
    BY <1>1, EndedSilent
  <1> QED BY <1>1, <1>3, <1>4, <1>5, <1>6, <1>7, SessionCommitKeeps DEF row

(* The session is revoked by a transaction that holds it, or waited until  *)
(* nobody did.                                                             *)
LEMMA RevokeKeeps ==
    ASSUME IInv, NEW r \in Requests, NEW answer \in Answers, Answer(r, answer),
           answer # "ok" \/ req[r].op # "refresh",
           NEW s \in SessionIds, Revoke(s), ~ Held(sessionLock[s], r),
           UNCHANGED <<user, link, chosen>>
    PROVE  IInv'
  <1>1. CASE session[s].status # "active"
    <2>1. session' = session
      BY <1>1 DEF Revoke, IInv, TypeOK, Session
    <2> QED BY <2>1, FinishKeeps DEF Finish, tables
  <1>2. CASE session[s].status = "active"
    <2> DEFINE row == [session[s] EXCEPT !.status = "revoked"]
    <2>1. session[s] \in Session /\ session[s].current = session[s].issued
      BY DEF IInv, TypeOK, LastIsCurrent
    <2>2. /\ row \in Session /\ row.status = "revoked" /\ row.current = session[s].current
          /\ row.issued = session[s].issued /\ session[s].current \in Nat
      BY <2>1 DEF Session
    <2>3. session' = [session EXCEPT ![s] = row]
      BY <1>2 DEF Revoke, IInv, TypeOK
    <2> HIDE DEF row
    <2>4. Ended(r, answer) /\ user' \in User /\ chosen' \in Passwords /\ link' = link
      BY AnswerEnds DEF IInv, TypeOK
    <2>5. session[s].current <= row.current
      BY <2>2
    <2> QED BY <2>1, <2>2, <2>3, <2>4, <2>5, EndedSilent, SessionCommitKeeps
  <1> QED BY <1>1, <1>2

LEMMA TokenReuseKeeps ==
    ASSUME IInv, NEW r \in Requests, TokenReuse(r)
    PROVE  IInv'
  <1>1. req[r].session \in SessionIds /\ ~ Held(sessionLock[req[r].session], r)
    BY DEF IInv, TypeOK, Request, TokenReuse, At, HoldsLocks, HoldsSession, SessionOps, Held
  <1> QED BY <1>1, RevokeKeeps DEF TokenReuse

LEMMA LogoutKeeps ==
    ASSUME IInv, NEW r \in Requests, Logout(r)
    PROVE  IInv'
  <1>1. /\ req[r].session \in SessionIds /\ ~ Held(sessionLock[req[r].session], r)
        /\ req[r].op # "refresh"
    BY DEF IInv, TypeOK, Request, Logout, At, HoldsLocks, HoldsSession, SessionOps, Held
  <1>2. CASE Revoke(req[r].session)
    BY <1>1, <1>2, RevokeKeeps DEF Logout
  <1>3. CASE UNCHANGED session
    BY <1>1, <1>3, FinishKeeps DEF Logout, Finish, tables
  <1> QED BY <1>2, <1>3 DEF Logout

LEMMA RevokeSessionKeeps ==
    ASSUME IInv, NEW r \in Requests, RevokeSession(r)
    PROVE  IInv'
  <1>1. req[r].session \in SessionIds /\ req[r].op = "revoke_session"
    BY DEF IInv, TypeOK, Request, RevokeSession, At
  <1>2. SessionsWanted(r) = {req[r].session}
    BY DEF RevokeSession, SessionsWanted, At
  <1>3. ~ Held(sessionLock[req[r].session], r)
    BY <1>2, UnblockedFree DEF RevokeSession
  <1> QED BY <1>1, <1>3, RevokeKeeps DEF RevokeSession

(* The secret that is exchanged was the current one, so nobody exchanged   *)
(* it before; and it is not the current one afterwards.                    *)
LEMMA RotateKeeps ==
    ASSUME IInv, NEW r \in Requests, Rotate(r)
    PROVE  IInv'
  <1> DEFINE s == req[r].session
  <1>1. /\ s \in SessionIds /\ session[s] \in Session /\ req[r].secret \in Nat
        /\ req[r].op = "refresh" /\ session[s].status = "active"
        /\ req[r].secret = session[s].current /\ ~ Held(sessionLock[s], r)
        /\ session[s].current = session[s].issued
    BY DEF IInv, TypeOK, Request, Rotate, At, HoldsLocks, HoldsSession, SessionOps, Held, LastIsCurrent
  <1> DEFINE row == [session[s] EXCEPT !.issued = session[s].issued + 1, !.current = session[s].issued + 1,
                                       !.previous = req[r].secret]
  <1>2. /\ row \in Session /\ row.status = "active" /\ row.current = session[s].current + 1
        /\ row.issued = session[s].current + 1 /\ session[s].current \in Nat
    <2>1. session[s].issued + 1 \in Nat
      BY <1>1 DEF Session
    <2> QED BY <1>1, <2>1 DEF Session
  <1>3. session' = [session EXCEPT ![s] = row]
    BY <1>1 DEF Rotate, IInv, TypeOK, Session
  <1> HIDE DEF row
  <1>4. Ended(r, "ok") /\ user' \in User /\ chosen' \in Passwords /\ link' = link
    BY AnswerEnds DEF Rotate, IInv, TypeOK
  <1>5. /\ req'[r].session = s /\ req'[r].secret = session[s].current /\ session'[s] = row
    BY <1>1, <1>3, <1>4 DEF Ended, IInv, TypeOK
  <1>6. Replaced(r)'
    BY <1>2, <1>5 DEF Replaced
  <1>7. ASSUME NEW q \in Requests \ {r}
        PROVE  ~ SameExchange(r, q)' /\ ~ SameExchange(q, r)'
    <2>1. req'[q] = req[q]
      BY <1>4 DEF Ended
    <2>2. Exchanged(q) /\ req[q].session = s => req[q].secret < session[s].current
      BY DEF IInv, Replaced
    <2>3. req[q].secret \in Nat
      BY DEF IInv, TypeOK, Request
    <2> QED BY <1>2, <1>5, <2>1, <2>2, <2>3 DEF SameExchange, Exchanged
  <1>8. row.status # "none" /\ row.current = row.issued /\ session[s].current <= row.current
    BY <1>2
  <1> QED BY <1>1, <1>2, <1>3, <1>4, <1>6, <1>7, <1>8, SessionCommitKeeps

(* Links are issued by the one transaction that holds the account, which   *)
(* ends all others of that kind.                                           *)
LEMMA IssueLinkKeeps ==
    ASSUME IInv, NEW r \in Requests, IssueLink(r)
    PROVE  IInv'
  <1> DEFINE op == req[r].op
  <1>1. /\ op \in IssueOps /\ userLock = r /\ Outstanding(op) \subseteq req[r].links
    BY DEF IInv, HoldsLocks, HoldsUser, IssueLink, At
  <1>2. Ended(r, "ok") /\ user' \in User /\ chosen' \in Passwords /\ session' = session
    BY AnswerEnds DEF IssueLink, IInv, TypeOK
  <1>3. PICK new \in LinksOf(op) :
          /\ link[new] = "unused"
          /\ link' = [l \in Links |->
                       CASE l = new -> "outstanding"
                         [] l \in req[r].links /\ link[l] = "outstanding" -> "revoked"
                         [] OTHER -> link[l]]
    BY DEF IssueLink
  <1>4. new \in Links /\ link \in [Links -> LinkStatus]
    BY SessionsAssumption DEF LinksOf, IInv, TypeOK, LinkStatus
  <1>5. /\ link' \in [Links -> LinkStatus]
        /\ link'[new] = "outstanding"
        /\ \A l \in Links \ {new} :
             link'[l] = IF l \in req[r].links /\ link[l] = "outstanding" THEN "revoked" ELSE link[l]
    BY <1>3, <1>4 DEF LinkStatus
  <1>6. LinksWanted(r) = req[r].links
    BY DEF IssueLink, LinksWanted, At, IssueOps, LinkOps
  <1>7. \A l \in Links : Held(linkLock[l], r) /\ link[l] = "outstanding" => link'[l] = link[l]
    BY <1>3, <1>5, <1>6, UnblockedFree DEF IssueLink
  <1>8. OneOfAKind'
    <2>1. \A l \in Links : SameKind(l, new) /\ link[l] = "outstanding" => l \in req[r].links
      BY <1>1, <1>3, SessionsAssumption DEF SameKind, Outstanding, LinksOf, IssueOps
    <2>2. \A l \in Links : link'[l] = "outstanding" =>
             l = new \/ (link[l] = "outstanding" /\ ~ SameKind(l, new))
      BY <1>5, <2>1
    <2> QED BY <1>4, <2>2 DEF IInv, OneOfAKind, SameKind
  <1>9. SessionsGrow /\ LastIsCurrent' /\ session' \in [SessionIds -> Session] /\ ~ Held(userLock, r)
    BY <1>1, <1>2 DEF SessionsGrow, LastIsCurrent, IInv, TypeOK, Session, Held
  <1>10. /\ Replaced(r)'
         /\ \A q \in Requests \ {r} : ~ SameExchange(r, q)' /\ ~ SameExchange(q, r)'
    BY <1>1, <1>2, EndedSilent DEF IssueOps
  <1> QED BY <1>2, <1>5, <1>7, <1>8, <1>9, <1>10, CommitKeeps

(* Links that end: nobody else holds one of them. *)
LEMMA LinksEndKeeps ==
    ASSUME IInv, NEW r \in Requests, Ended(r, "ok"), req[r].op # "refresh",
           user' \in User, chosen' \in Passwords, session' \in [SessionIds -> Session],
           \A s \in SessionIds :
               /\ Held(sessionLock[s], r) => session'[s].status = session[s].status
               /\ session[s].status # "none" => session'[s].status # "none"
               /\ session'[s].current = session[s].current /\ session'[s].issued = session[s].issued,
           link' \in [Links -> LinkStatus], NoneIssued,
           \A l \in Links : Held(linkLock[l], r) /\ link[l] = "outstanding" => link'[l] = link[l]
    PROVE  IInv'
  <1>1. SessionsGrow /\ LastIsCurrent'
    BY DEF SessionsGrow, LastIsCurrent, IInv, TypeOK, Session
  <1>2. OneOfAKind'
    BY DEF IInv, OneOfAKind, NoneIssued
  <1>3. /\ Replaced(r)'
        /\ \A q \in Requests \ {r} : ~ SameExchange(r, q)' /\ ~ SameExchange(q, r)'
    BY EndedSilent
  <1> QED BY <1>1, <1>2, <1>3, CommitKeeps

(* How a step ends links: the one it used, if any, and those outstanding. *)
EndsLinks(used, ended) ==
    link' = [l \in Links |-> CASE l \in used -> "consumed"
                               [] l \in ended \ used -> "revoked"
                               [] OTHER -> link[l]]

LEMMA EndsLinksKeeps ==
    ASSUME IInv, NEW r \in Requests, NEW used, NEW ended, EndsLinks(used, ended),
           \A l \in used : linkLock[l] = r,
           \A l \in ended : ~ Held(linkLock[l], r)
    PROVE  /\ link' \in [Links -> LinkStatus] /\ NoneIssued
           /\ \A l \in Links : Held(linkLock[l], r) /\ link[l] = "outstanding" => link'[l] = link[l]
  <1>1. link \in [Links -> LinkStatus]
    BY DEF IInv, TypeOK, LinkStatus
  <1>2. \A l \in Links : /\ link'[l] \in {link[l], "consumed", "revoked"}
                         /\ l \notin used /\ l \notin ended => link'[l] = link[l]
    BY <1>1 DEF EndsLinks
  <1>3. link' \in [Links -> LinkStatus]
    BY <1>1 DEF EndsLinks, LinkStatus
  <1> QED BY <1>2, <1>3 DEF NoneIssued, Held

LEMMA VerifyEmailKeeps ==
    ASSUME IInv, NEW r \in Requests, VerifyEmail(r)
    PROVE  IInv'
  <1>1. /\ req[r].op = "verify_email" /\ linkLock[req[r].link] = r
        /\ Ended(r, "ok") /\ session' = session /\ chosen' \in Passwords /\ user \in User
    BY AnswerEnds DEF VerifyEmail, At, IInv, TypeOK, HoldsLocks, HoldsLink, LinkOps
  <1>2. LinksWanted(r) = Outstanding("verify_email")
    BY DEF VerifyEmail, LinksWanted, At, IssueOps, LinkOps
  <1>3. EndsLinks({req[r].link}, Outstanding("verify_email"))
    BY DEF VerifyEmail, EndsLinks
  <1>4. \A l \in Outstanding("verify_email") : ~ Held(linkLock[l], r)
    BY <1>2, UnblockedFree DEF VerifyEmail
  <1>5. user' \in User
    BY <1>1 DEF VerifyEmail, User
  <1>6. /\ link' \in [Links -> LinkStatus] /\ NoneIssued
        /\ \A l \in Links : Held(linkLock[l], r) /\ link[l] = "outstanding" => link'[l] = link[l]
    BY <1>1, <1>3, <1>4, EndsLinksKeeps
  <1> QED BY <1>1, <1>5, <1>6, LinksEndKeeps DEF IInv, TypeOK

LEMMA CommitUserKeeps ==
    ASSUME IInv, NEW r \in Requests, CommitUser(r)
    PROVE  IInv'
  <1> DEFINE op == req[r].op
             used == {l \in Links : op = "reset" /\ l = req[r].link}
  <1>1. /\ op \in {"change", "reset", "delete_account"} /\ req[r].new \in Passwords
        /\ op = "reset" => linkLock[req[r].link] = r
        /\ user \in User /\ session \in [SessionIds -> Session]
    BY DEF CommitUser, IInv, TypeOK, HoldsLocks, HoldsUser, HoldsLink, LinkOps, Request
  <1>2. Ended(r, "ok") /\ chosen' \in Passwords
    BY <1>1, AnswerEnds DEF CommitUser, IInv, TypeOK
  <1>3. user' \in User
    <2>1. CASE op = "delete_account"
      BY <1>1, <2>1 DEF CommitUser, User
    <2>2. CASE op # "delete_account"
      <3>1. user' = [user EXCEPT !.password = req[r].new, !.outdated = FALSE,
                                 !.verified = @ \/ req[r].op = "reset"]
        BY <2>2 DEF CommitUser
      <3> QED BY <1>1, <3>1 DEF User
    <2> QED BY <2>1, <2>2
  <1>4. SessionsWanted(r) = SessionsEnded(r) /\ LinksWanted(r) = Outstanding(op)
    BY <1>1 DEF CommitUser, SessionsWanted, LinksWanted, At, IssueOps
  <1>5. \A s \in SessionsEnded(r) : ~ Held(sessionLock[s], r)
    BY <1>4, UnblockedFree DEF CommitUser
  <1>6. \A l \in Outstanding(op) : ~ Held(linkLock[l], r)
    BY <1>4, UnblockedFree DEF CommitUser
  <1>7. SessionsEnded(r) \subseteq ActiveSessions
    BY DEF SessionsEnded
  <1>8. ASSUME NEW s \in SessionIds
        PROVE  /\ session'[s] \in Session
               /\ session'[s].status = IF s \in SessionsEnded(r) THEN "revoked" ELSE session[s].status
               /\ session'[s].current = session[s].current /\ session'[s].issued = session[s].issued
    <2>1. session[s] \in Session
      BY <1>1
    <2>2. CASE s \in SessionsEnded(r)
      <3>1. session'[s] = [session[s] EXCEPT !.status = "revoked"]
        BY <2>2 DEF CommitUser, SessionsEnded
      <3> QED BY <2>1, <2>2, <3>1 DEF Session
    <2>3. CASE s \notin SessionsEnded(r)
      <3>1. session'[s] = session[s] \/ session'[s] = [session[s] EXCEPT !.via = req[r].new]
        BY <2>3 DEF CommitUser
      <3> QED BY <1>1, <2>1, <2>3, <3>1 DEF Session
    <2> QED BY <2>2, <2>3
  <1>9. session' \in [SessionIds -> Session]
    <2>1. \E f : session' = [s \in SessionIds |-> f[s]]
      <3> DEFINE f == [s \in SessionIds |->
                     CASE s \in SessionsEnded(r) -> [session[s] EXCEPT !.status = "revoked"]
                       [] req[r].op = "change" /\ s = req[r].session /\ s \in ActiveSessions
                           -> [session[s] EXCEPT !.via = req[r].new]
                       [] OTHER -> session[s]]
      <3>1. session' = f
        BY DEF CommitUser
      <3>2. f = [s \in SessionIds |-> f[s]]
        OBVIOUS
      <3> QED BY <3>1, <3>2
    <2> QED BY <1>8, <2>1
  <1>10. EndsLinks(used, Outstanding(op))
    <2>1. \A l \in Links : l \in used <=> req[r].op = "reset" /\ l = req[r].link
      OBVIOUS
    <2> HIDE DEF used
    <2> QED BY <2>1 DEF CommitUser, EndsLinks
  <1>11. /\ link' \in [Links -> LinkStatus] /\ NoneIssued
         /\ \A l \in Links : Held(linkLock[l], r) /\ link[l] = "outstanding" => link'[l] = link[l]
    BY <1>1, <1>6, <1>10, EndsLinksKeeps
  <1> QED BY <1>1, <1>2, <1>3, <1>5, <1>8, <1>9, <1>11, LinksEndKeeps

----------------------------------------------------------------------------
(* Every step. *)

(* The steps that end a transaction without a write are all Finish steps. *)
LEMMA StepCases ==
    ASSUME [Next]_vars
    PROVE  \/ UNCHANGED vars
           \/ \E r \in Requests :
                \/ Ask(r) \/ ReadUser(r) \/ Login(r) \/ LockSession(r) \/ Rotate(r) \/ TokenReuse(r)
                \/ Logout(r) \/ RevokeSession(r) \/ LockUser(r) \/ IssueLink(r) \/ LockLink(r)
                \/ VerifyEmail(r) \/ UpdateUser(r) \/ CommitUser(r)
                \/ \E answer \in Answers :
                     /\ Finish(r, answer)
                     /\ answer = "ok" => req[r].op \in {"logout"} \cup IssueOps
  <1>1. SUFFICES ASSUME NEW r \in Requests, Ask(r) \/ Step(r) \/ Abort(r)
                 PROVE  \/ Ask(r) \/ ReadUser(r) \/ Login(r) \/ LockSession(r) \/ Rotate(r) \/ TokenReuse(r)
                        \/ Logout(r) \/ RevokeSession(r) \/ LockUser(r) \/ IssueLink(r) \/ LockLink(r)
                        \/ VerifyEmail(r) \/ UpdateUser(r) \/ CommitUser(r)
                        \/ \E answer \in Answers :
                             /\ Finish(r, answer)
                             /\ answer = "ok" => req[r].op \in {"logout"} \cup IssueOps
    BY Zenon DEF Next, Quiescent
  <1>2. CASE SessionEnded(r)
    <2>1. CASE req[r].op = "logout"
      BY <1>2, <2>1 DEF SessionEnded
    <2>2. CASE req[r].op # "logout"
      BY <1>2, <2>2 DEF SessionEnded
    <2> QED BY <2>1, <2>2
  <1>3. CASE SilentlyIgnored(r)
    BY <1>3 DEF SilentlyIgnored, At
  <1>4. CASE CredentialsRefused(r) \/ RefreshRefused(r) \/ LinkRefused(r)
    BY <1>4 DEF CredentialsRefused, RefreshRefused, LinkRefused
  <1>5. CASE RefreshConflict(r)
    BY <1>5 DEF RefreshConflict
  <1>6. CASE DeadlockVictim(r) \/ Abort(r)
    BY <1>6 DEF DeadlockVictim, Abort
  <1> QED BY <1>1, <1>2, <1>3, <1>4, <1>5, <1>6, Zenon DEF Step

LEMMA UnchangedKeeps ==
    ASSUME IInv, UNCHANGED vars
    PROVE  IInv'
  BY DEF IInv, vars, TypeOK, HoldsLocks, HoldsSession, HoldsLink, HoldsUser, Unanswered, At, Outstanding,
         Replaced, Exchanged, SameExchange, LastIsCurrent, OneOfAKind

LEMMA NextKeeps == IInv /\ [Next]_vars => IInv'
  <1> SUFFICES ASSUME IInv, [Next]_vars PROVE IInv'
    OBVIOUS
  <1>1. CASE UNCHANGED vars
    BY <1>1, UnchangedKeeps
  <1>2. ASSUME NEW r \in Requests, Ask(r) PROVE IInv'
    BY <1>2, AskKeeps
  <1>3. ASSUME NEW r \in Requests, ReadUser(r) PROVE IInv'
    BY <1>3, ReadUserKeeps
  <1>4. ASSUME NEW r \in Requests, Login(r) PROVE IInv'
    BY <1>4, LoginKeeps
  <1>5. ASSUME NEW r \in Requests, LockSession(r) PROVE IInv'
    BY <1>5, LockSessionKeeps
  <1>6. ASSUME NEW r \in Requests, Rotate(r) PROVE IInv'
    BY <1>6, RotateKeeps
  <1>7. ASSUME NEW r \in Requests, TokenReuse(r) PROVE IInv'
    BY <1>7, TokenReuseKeeps
  <1>8. ASSUME NEW r \in Requests, Logout(r) PROVE IInv'
    BY <1>8, LogoutKeeps
  <1>9. ASSUME NEW r \in Requests, RevokeSession(r) PROVE IInv'
    BY <1>9, RevokeSessionKeeps
  <1>10. ASSUME NEW r \in Requests, LockUser(r) PROVE IInv'
    BY <1>10, LockUserKeeps
  <1>11. ASSUME NEW r \in Requests, IssueLink(r) PROVE IInv'
    BY <1>11, IssueLinkKeeps
  <1>12. ASSUME NEW r \in Requests, LockLink(r) PROVE IInv'
    BY <1>12, LockLinkKeeps
  <1>13. ASSUME NEW r \in Requests, VerifyEmail(r) PROVE IInv'
    BY <1>13, VerifyEmailKeeps
  <1>14. ASSUME NEW r \in Requests, UpdateUser(r) PROVE IInv'
    BY <1>14, UpdateUserKeeps
  <1>15. ASSUME NEW r \in Requests, CommitUser(r) PROVE IInv'
    BY <1>15, CommitUserKeeps
  <1>16. ASSUME NEW r \in Requests, NEW answer \in Answers, Finish(r, answer),
                answer = "ok" => req[r].op \in {"logout"} \cup IssueOps
         PROVE  IInv'
    <2>1. answer # "ok" \/ req[r].op # "refresh"
      BY <1>16 DEF IssueOps
    <2> QED BY <1>16, <2>1, FinishKeeps
  <1> QED BY <1>1, <1>2, <1>3, <1>4, <1>5, <1>6, <1>7, <1>8, <1>9, <1>10, <1>11, <1>12, <1>13, <1>14,
             <1>15, <1>16, StepCases, Zenon

(* A finite set has at most one element if and only if any two are equal. *)
LEMMA AtMostOne ==
    ASSUME NEW S, IsFiniteSet(S)
    PROVE  Cardinality(S) <= 1 <=> \A x, y \in S : x = y
  <1>1. Cardinality(S) \in Nat
    BY FS_CardinalityType
  <1>2. Cardinality(S) = 0 <=> S = {}
    BY FS_EmptySet
  <1>3. Cardinality(S) = 1 <=> \E x : S = {x}
    BY FS_Singleton
  <1>4. ASSUME \A x, y \in S : x = y
        PROVE  S = {} \/ \E x : S = {x}
    <2>1. CASE S # {}
      <3>1. PICK x \in S : TRUE
        BY <2>1
      <3>2. S = {x}
        BY <1>4, <3>1
      <3> QED BY <3>2
    <2> QED BY <2>1
  <1>5. CASE Cardinality(S) <= 1
    BY <1>1, <1>2, <1>3, <1>5
  <1>6. CASE \A x, y \in S : x = y
    BY <1>1, <1>2, <1>3, <1>4, <1>6
  <1> QED BY <1>5, <1>6

LEMMA OneOfAKindMeans ==
    ASSUME link \in [Links -> LinkStatus]
    PROVE  OneOfAKind <=> OneLinkOutstanding
  <1> DEFINE V == {l \in VerifyLinks : link[l] = "outstanding"}
             R == {l \in Links \ VerifyLinks : link[l] = "outstanding"}
  <1>1. V \in SUBSET Links /\ R \in SUBSET Links
    BY SessionsAssumption
  <1>2. IsFiniteSet(V) /\ IsFiniteSet(R)
    BY <1>1, FS_Subset, SessionsAssumption
  <1>3. /\ Cardinality(V) <= 1 <=> \A x, y \in V : x = y
        /\ Cardinality(R) <= 1 <=> \A x, y \in R : x = y
    BY <1>2, AtMostOne
  <1>4. OneOfAKind <=> (\A x, y \in V : x = y) /\ (\A x, y \in R : x = y)
    BY SessionsAssumption DEF OneOfAKind, SameKind
  <1> QED BY <1>3, <1>4 DEF OneLinkOutstanding

LEMMA InitHolds == Init => IInv
  <1> SUFFICES ASSUME Init PROVE IInv
    OBVIOUS
  <1>1. /\ AnyPassword \in Passwords /\ NoRequest \in Request /\ NoSession \in Session
        /\ SomeUser \in User /\ NoRequest.pc = "idle" /\ NoRequest.op = "none" /\ NoRequest.answer = "none"
        /\ NoSession.current = 0 /\ NoSession.issued = 0
    BY NoRequestType, NoSessionType, SessionsAssumption DEF NoRequest, NoSession, AnyPassword
  <1>2. /\ chosen \in Passwords /\ link \in [Links -> LinkStatus]
        /\ userLock = Nobody /\ sessionLock = [s \in SessionIds |-> Nobody]
        /\ linkLock = [l \in Links |-> Nobody] /\ req = [r \in Requests |-> NoRequest]
    BY <1>1 DEF Init, LinkStatus
  <1>3. user \in User
    BY <1>1 DEF Init, User
  <1>4. \A n \in {1, 3} : SignedIn(n) \in Session /\ SignedIn(n).current = n /\ SignedIn(n).issued = n
    <2> SUFFICES ASSUME NEW n \in {1, 3}
                 PROVE  SignedIn(n) \in Session /\ SignedIn(n).current = n /\ SignedIn(n).issued = n
      OBVIOUS
    <2>1. n \in Nat /\ n - 1 \in Nat
      OBVIOUS
    <2>2. NewSession(chosen) \in Session
      BY <1>2 DEF NewSession, Session
    <2> QED BY <2>1, <2>2 DEF SignedIn, Session
  <1>5. session \in [SessionIds -> Session] /\ LastIsCurrent
    <2>1. CASE session = [s \in SessionIds |-> NoSession]
      BY <1>1, <2>1 DEF LastIsCurrent
    <2>2. ASSUME NEW n \in {1, 3},
                 session = [s \in SessionIds |-> IF s = AnySession THEN SignedIn(n) ELSE NoSession]
          PROVE  session \in [SessionIds -> Session] /\ LastIsCurrent
      BY <1>1, <1>4, <2>2 DEF LastIsCurrent
    <2> QED BY <2>1, <2>2 DEF Init
  <1>6. OneOfAKind
    BY <1>2, OneOfAKindMeans DEF Init, OneLinkOutstanding
  <1>7. TypeOK
    BY <1>1, <1>2, <1>3, <1>5 DEF TypeOK, LinkStatus
  <1>8. \A r \in Requests : HoldsLocks(r) /\ Replaced(r) /\ ~ Exchanged(r)
    BY <1>1, <1>2 DEF HoldsLocks, HoldsSession, HoldsLink, HoldsUser, Unanswered, At, Replaced, Exchanged
  <1> QED BY <1>5, <1>6, <1>7, <1>8 DEF IInv, SameExchange

LEMMA Invariance == Spec => []IInv
  BY InitHolds, NextKeeps, PTL DEF Spec

(* However many tabs present a refresh token at the same time, it is       *)
(* exchanged for a new one at most once (SessionService.refresh), and the  *)
(* tables and requests stay well-formed.                                   *)
THEOREM ExchangedOnceHolds == Spec => []ExchangedOnce
  <1>1. IInv => ExchangedOnce
    BY DEF IInv, ExchangedOnce, SameExchange, Exchanged
  <1> QED BY <1>1, Invariance, PTL

(* At most one link of each kind is outstanding, though requests for new   *)
(* ones overlap (PasswordService.request_reset, AuthService.resend).       *)
THEOREM OneLinkHolds == Spec => []OneLinkOutstanding
  <1>1. IInv => OneLinkOutstanding
    BY OneOfAKindMeans DEF IInv, TypeOK, LinkStatus
  <1> QED BY <1>1, Invariance, PTL

----------------------------------------------------------------------------
(* What has ended. *)

Final ==
    /\ \A s \in SessionIds : session[s].status = "revoked" => session'[s] = session[s]
    /\ \A l \in Links : link[l] \in {"consumed", "revoked"} =>
         /\ link'[l] = link[l]
         /\ \A r \in Requests : req[r].op \in LinkOps /\ req[r].link = l /\ req[r].pc # "done"
              => req'[r].answer # "ok"

(* A step leaves what has ended alone if it writes only to rows that have  *)
(* not, and if it succeeds only with a link that is still outstanding.     *)
LEMMA FinalByParts ==
    ASSUME IInv, NEW r \in Requests,
           \A q \in Requests \ {r} : req'[q] = req[q],
           \A s \in SessionIds : session[s].status = "revoked" => session'[s] = session[s],
           \A l \in Links : link[l] \in {"consumed", "revoked"} => link'[l] = link[l],
           req[r].op \in LinkOps /\ req[r].pc # "done" =>
               req'[r].answer # "ok" \/ link[req[r].link] = "outstanding"
    PROVE  Final
  BY DEF Final, IInv, HoldsLocks, Unanswered

LEMMA StepFinal ==
    ASSUME IInv, [Next]_vars
    PROVE  Final
  <1>1. CASE UNCHANGED vars
    BY <1>1 DEF vars, Final, IInv, HoldsLocks, Unanswered
  <1>2. ASSUME NEW r \in Requests,
               Ask(r) \/ ReadUser(r) \/ LockSession(r) \/ LockUser(r) \/ LockLink(r) \/ UpdateUser(r)
        PROVE  Final
    <2>1. UNCHANGED tables
      BY <1>2 DEF Ask, Asked, ReadUser, LockSession, LockUser, LockLink, UpdateUser
    <2>2. req[r].answer = "none" /\ req[r] \in Request
      BY <1>2 DEF IInv, TypeOK, HoldsLocks, Unanswered, Ask, ReadUser, LockSession, LockUser, LockLink,
                  UpdateUser, At
    <2>3. /\ \A q \in Requests \ {r} : req'[q] = req[q]
          /\ req'[r].answer = req[r].answer
      <3>1. CASE Ask(r)
        <4>1. PICK op \in AllOps, s \in SessionIds, secret \in Nat, l \in Links,
                   password \in Passwords, new \in Passwords :
                   Asked(r, op, s, secret, l, password, new)
          BY <3>1, AskChoice DEF IInv
        <4> QED BY <2>2, <4>1 DEF Asked, IInv, TypeOK, Request
      <3>2. CASE ReadUser(r) \/ LockLink(r)
        BY <2>2, <3>2 DEF ReadUser, LockLink, IInv, TypeOK, Request
      <3>3. CASE LockSession(r)
        BY <2>2, <3>3 DEF LockSession, IInv, TypeOK, Request
      <3>4. CASE LockUser(r)
        BY <2>2, <3>4 DEF LockUser, IInv, TypeOK, Request
      <3>5. CASE UpdateUser(r)
        BY <2>2, <3>5 DEF UpdateUser, IInv, TypeOK, Request
      <3> QED BY <1>2, <3>1, <3>2, <3>3, <3>4, <3>5
    <2> QED BY <2>1, <2>2, <2>3, FinalByParts DEF tables
  <1>3. ASSUME NEW r \in Requests, NEW answer \in Answers, Finish(r, answer),
               answer = "ok" => req[r].op \in {"logout"} \cup IssueOps
        PROVE  Final
    <2>1. Ended(r, answer) /\ UNCHANGED <<session, link>>
      BY <1>3, AnswerEnds DEF IInv, Finish, tables
    <2> QED BY <1>3, <2>1, FinalByParts DEF Ended, LinkOps, IssueOps
  <1>4. ASSUME NEW r \in Requests, Login(r) PROVE Final
    <2>1. Ended(r, "ok") /\ link' = link /\ req[r].op = "login"
      BY <1>4, AnswerEnds DEF IInv, Login, At
    <2>2. \A s \in SessionIds : session[s].status = "revoked" => session'[s] = session[s]
      BY <1>4 DEF Login, IInv, TypeOK
    <2> QED BY <2>1, <2>2, FinalByParts DEF Ended, LinkOps
  <1>5. ASSUME NEW r \in Requests, Rotate(r) \/ TokenReuse(r) \/ Logout(r)
        PROVE  Final
    <2>1. /\ link' = link /\ req[r].op \in SessionOps /\ req[r].session \in SessionIds
          /\ session[req[r].session].status = "active"
      BY <1>5 DEF IInv, TypeOK, Rotate, TokenReuse, Logout, At, HoldsLocks, HoldsSession, SessionOps, Request
    <2>2. \A q \in Requests \ {r} : req'[q] = req[q]
      BY <1>5, AnswerEnds DEF IInv, Rotate, TokenReuse, Logout, Ended
    <2>3. \A s \in SessionIds : session[s].status = "revoked" => session'[s] = session[s]
      BY <1>5, <2>1 DEF Rotate, TokenReuse, Logout, Revoke, IInv, TypeOK
    <2> QED BY <2>1, <2>2, <2>3, FinalByParts DEF LinkOps, SessionOps
  <1>6. ASSUME NEW r \in Requests, RevokeSession(r) PROVE Final
    <2>1. link' = link /\ req[r].op = "revoke_session" /\ \A q \in Requests \ {r} : req'[q] = req[q]
      BY <1>6, AnswerEnds DEF IInv, RevokeSession, At, Ended
    <2>2. \A s \in SessionIds : session[s].status = "revoked" => session'[s] = session[s]
      BY <1>6 DEF RevokeSession, Revoke, IInv, TypeOK, Session
    <2> QED BY <2>1, <2>2, FinalByParts DEF LinkOps
  <1>7. ASSUME NEW r \in Requests, IssueLink(r) PROVE Final
    <2>1. session' = session /\ req[r].op \in IssueOps /\ \A q \in Requests \ {r} : req'[q] = req[q]
      BY <1>7, AnswerEnds DEF IInv, IssueLink, At, Ended
    <2>2. \A l \in Links : link[l] \in {"consumed", "revoked"} => link'[l] = link[l]
      BY <1>7 DEF IssueLink
    <2> QED BY <2>1, <2>2, FinalByParts DEF LinkOps, IssueOps
  <1>8. ASSUME NEW r \in Requests, VerifyEmail(r) PROVE Final
    <2>1. /\ session' = session /\ link[req[r].link] = "outstanding"
          /\ \A q \in Requests \ {r} : req'[q] = req[q]
      BY <1>8, AnswerEnds DEF IInv, VerifyEmail, At, Ended, HoldsLocks, HoldsLink, LinkOps
    <2>2. \A l \in Links : link[l] \in {"consumed", "revoked"} => link'[l] = link[l]
      BY <1>8, <2>1 DEF VerifyEmail, Outstanding
    <2> QED BY <2>1, <2>2, FinalByParts
  <1>9. ASSUME NEW r \in Requests, CommitUser(r) PROVE Final
    <2>1. /\ req[r].op \in {"change", "reset", "delete_account"}
          /\ req[r].op = "reset" => link[req[r].link] = "outstanding"
      BY <1>9 DEF CommitUser, IInv, HoldsLocks, HoldsUser, HoldsLink, LinkOps
    <2>2. \A q \in Requests \ {r} : req'[q] = req[q]
      BY <1>9, AnswerEnds DEF IInv, CommitUser, Ended
    <2>3. \A l \in Links : link[l] \in {"consumed", "revoked"} => link'[l] = link[l]
      BY <1>9, <2>1 DEF CommitUser, Outstanding
    <2>4. \A s \in SessionIds : s \notin ActiveSessions => session'[s] = session[s]
      <3>1. SessionsEnded(r) \subseteq ActiveSessions
        BY DEF SessionsEnded
      <3> QED BY <1>9, <3>1 DEF CommitUser
    <2> QED BY <2>1, <2>2, <2>3, <2>4, FinalByParts DEF LinkOps, ActiveSessions
  <1> QED BY <1>1, <1>2, <1>3, <1>4, <1>5, <1>6, <1>7, <1>8, <1>9, StepCases, Zenon

(* A revoked session is never revived or given another secret, and a link  *)
(* that was used, replaced or withdrawn stays so and lets no request       *)
(* succeed that was already on its way.                                    *)
THEOREM EndedForGoodHolds == Spec => EndedForGood
  <1>1. IInv /\ [Next]_vars =>
          [\A s \in SessionIds : session[s].status = "revoked" => session'[s] = session[s]]_vars
    BY StepFinal DEF Final
  <1>2. IInv /\ [Next]_vars =>
          [\A l \in Links : link[l] \in {"consumed", "revoked"} =>
             /\ link'[l] = link[l]
             /\ \A r \in Requests : req[r].op \in LinkOps /\ req[r].link = l /\ req[r].pc # "done"
                  => req'[r].answer # "ok"]_vars
    BY StepFinal DEF Final
  <1> QED BY <1>1, <1>2, Invariance, PTL DEF EndedForGood, RevokedIsFinal, LinkUsedOnce, Spec
=============================================================================
