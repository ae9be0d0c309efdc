-------------------------- MODULE MembershipsProofs --------------------------
(* Theorems about Memberships, for every number of requests, users,        *)
(* organizations and invitations.                                          *)
EXTENDS Memberships, FiniteSetTheorems, WellFoundedInduction, TLAPS

USE DEF Stages, Answers

----------------------------------------------------------------------------
(* The inductive invariant. *)

(* Who has the lock of an organization is a request that changes it, or    *)
(* the deletion of an account, which has yet to lock only later ones; who  *)
(* has the lock of an invitation accepts it.                               *)
LocksOrg(r) ==
    \A o \in Organizations : orgLock[o] = r =>
        \/ At(r, "locked", OrgLockOps) /\ req[r].org = o
        \/ At(r, "counted", {"delete_account"}) /\ \A p \in req[r].toLock : o < p
LocksInvitation(r) ==
    \A i \in Invitations : invLock[i] = r => At(r, "holding", {"accept"}) /\ req[r].inv = i

(* What a request relies on until it commits: its caller has the standing  *)
(* it read and the owners it counted are owners, unless their accounts     *)
(* were deleted; and the member it changes is still one it may change.     *)
Relies(r) ==
    LET o == req[r].org
        target == member[o][req[r].target]
    IN  /\ member[o][req[r].actor] = req[r].standing \/ account[req[r].actor] = "deleted"
        /\ \A u \in req[r].owners : member[o][u] = "owner" \/ account[u] = "deleted"
        /\ req[r].op \in {"change_role", "remove"} /\ target # "none" =>
             /\ req[r].actor # req[r].target => Outranks(req[r].standing, target)
             /\ target = "owner" /\ (req[r].op = "remove" \/ req[r].role # "owner") =>
                  \E u \in req[r].owners : u # req[r].target
        /\ req[r].op = "change_role" =>
             req[r].actor # req[r].target /\ Outranks(req[r].standing, req[r].role)

HoldsOrg(r) ==
    req[r].pc = "locked" =>
        /\ req[r].op \in OrgLockOps
        /\ orgLock[req[r].org] = r /\ org[req[r].org] = "active"
        /\ Relies(r)

HoldsInvitation(r) ==
    req[r].pc = "holding" =>
        /\ req[r].op = "accept"
        /\ invLock[req[r].inv] = r /\ invitation[req[r].inv].status = "pending"

(* An account's deletion ends organizations that it has locked by then. *)
HoldsSolo(r) ==
    req[r].pc = "counted" =>
        /\ req[r].op = "delete_account"
        /\ \A o \in req[r].toLock : org[o] # "none"
        /\ \A o \in req[r].solo : \/ org[o] = "deleted"
                                  \/ org[o] = "active" /\ (orgLock[o] = r \/ o \in req[r].toLock)

(* What Ask chose, and what a request that is done leaves. *)
Arguments(r) ==
    /\ req[r].pc \notin {"idle", "done"} =>
         /\ req[r].actor \in Users /\ req[r].answer = "none"
         /\ req[r].op \in {"change_role", "remove", "invite"} => req[r].target \in Users
         /\ req[r].op \in ScopedOps => org[req[r].org] # "none"
    /\ req[r].pc \in {"idle", "done"} => req[r].op = "none"
    /\ req[r].pc = "idle" => req[r].answer = "none"

Creating(r) == req[r].pc # "done" /\ req[r].op = "create"
CreatesFresh(r) == Creating(r) => req[r].pc = "asked" /\ org[req[r].org] = "none"

Sound(r) ==
    /\ LocksOrg(r) /\ LocksInvitation(r)
    /\ HoldsOrg(r) /\ HoldsInvitation(r) /\ HoldsSolo(r)
    /\ Arguments(r) /\ CreatesFresh(r)

CreatesApart ==
    \A r, q \in Requests : r # q /\ Creating(r) /\ Creating(q) => req[r].org # req[q].org

(* Nobody is a member of an organization that does not exist. *)
NobodyIn == \A o \in Organizations : org[o] = "none" => \A u \in Users : member[o][u] = "none"

IInv ==
    /\ TypeOK
    /\ \A r \in Requests : Sound(r)
    /\ CreatesApart
    /\ NobodyIn

----------------------------------------------------------------------------
(* What a step of r leaves alone: the other requests, and whatever they    *)
(* hold, but for the members whose accounts are deleted.                   *)

Held(holder, r) == holder \in Requests /\ holder # r

SameMembers(o) ==
    \A u \in Users : \/ member'[o][u] = member[o][u]
                     \/ member'[o][u] = "none" /\ account'[u] = "deleted"

Respects(r) ==
    /\ \A q \in Requests \ {r} : req'[q] = req[q]
    /\ \A o \in Organizations :
         /\ orgLock'[o] \in {orgLock[o], r, Nobody}
         /\ Held(orgLock[o], r) => orgLock'[o] = orgLock[o]
         /\ Held(orgLock[o], r) /\ org[o] = "active" => org'[o] = "active" /\ SameMembers(o)
         /\ org[o] # "none" => org'[o] # "none"
         /\ org[o] = "deleted" => org'[o] = "deleted"
         /\ org[o] = "none" => org'[o] = "none" \/ (Creating(r) /\ req[r].org = o)
    /\ \A i \in Invitations :
         /\ invLock'[i] \in {invLock[i], r, Nobody}
         /\ Held(invLock[i], r) => invLock'[i] = invLock[i]
         /\ Held(invLock[i], r) /\ invitation[i].status = "pending" =>
              invitation'[i].status = "pending"
    /\ \A u \in Users : account[u] = "deleted" => account'[u] = "deleted"

LEMMA ReliesKept ==
    ASSUME IInv, TypeOK', NEW q \in Requests, req'[q] = req[q], req[q].pc = "locked",
           Relies(q), SameMembers(req[q].org), req[q].op \in OrgLockOps,
           \A u \in Users : account[u] = "deleted" => account'[u] = "deleted"
    PROVE  Relies(q)'
  <1> DEFINE o == req[q].org
  <1>1. /\ req[q] \in Request /\ req[q].actor \in Users /\ req[q].owners \in SUBSET Users
        /\ req[q].op \in {"change_role", "remove"} => req[q].target \in Users
    BY DEF IInv, TypeOK, Sound, Arguments, Request
  <1>2. member'[o][req[q].actor] = req[q].standing \/ account'[req[q].actor] = "deleted"
    BY <1>1 DEF Relies, SameMembers
  <1>3. \A u \in req[q].owners : member'[o][u] = "owner" \/ account'[u] = "deleted"
    BY <1>1 DEF Relies, SameMembers
  <1>4. req[q].op \in {"change_role", "remove"} /\ member'[o][req[q].target] # "none" =>
             /\ req[q].actor # req[q].target => Outranks(req[q].standing, member'[o][req[q].target])
             /\ member'[o][req[q].target] = "owner" /\ (req[q].op = "remove" \/ req[q].role # "owner") =>
                  \E u \in req[q].owners : u # req[q].target
    BY <1>1 DEF Relies, SameMembers
  <1> QED BY <1>2, <1>3, <1>4 DEF Relies

LEMMA StepKeeps ==
    ASSUME IInv, TypeOK', NEW r \in Requests, Respects(r), Sound(r)', NobodyIn',
           \A q \in Requests \ {r} : Creating(r)' /\ Creating(q)' => req'[r].org # req'[q].org
    PROVE  IInv'
  <1>1. \A q \in Requests : /\ req[q] \in Request /\ q # Nobody
                            /\ req[q].org \in Organizations /\ req[q].inv \in Invitations
    BY MembershipsAssumption DEF IInv, TypeOK, Request
  <1>2. ASSUME NEW q \in Requests \ {r}
        PROVE  Sound(q)'
    <2>1. req'[q] = req[q] /\ Sound(q)
      BY DEF Respects, IInv
    <2>2. LocksOrg(q)'
      BY <1>1, <2>1 DEF Sound, LocksOrg, At, Respects
    <2>3. LocksInvitation(q)'
      BY <1>1, <2>1 DEF Sound, LocksInvitation, At, Respects
    <2>4. HoldsOrg(q)'
      <3>1. CASE req[q].pc = "locked"
        <4>1. Held(orgLock[req[q].org], r) /\ org[req[q].org] = "active" /\ orgLock[req[q].org] = q
          BY <2>1, <3>1 DEF Sound, HoldsOrg, Held
        <4>2. Relies(q)'
          BY <1>1, <2>1, <3>1, <4>1, ReliesKept DEF Sound, HoldsOrg, Respects
        <4> QED BY <1>1, <2>1, <3>1, <4>1, <4>2 DEF Sound, HoldsOrg, Respects
      <3> QED BY <2>1, <3>1 DEF HoldsOrg
    <2>5. HoldsInvitation(q)'
      BY <1>1, <2>1 DEF Sound, HoldsInvitation, Respects, Held
    <2>6. HoldsSolo(q)'
      <3>1. req[q].toLock \subseteq Organizations /\ req[q].solo \subseteq Organizations
        BY <1>1 DEF Request
      <3> QED BY <1>1, <2>1, <3>1 DEF Sound, HoldsSolo, Respects, Held, TypeOK
    <2>7. Arguments(q)'
      BY <1>1, <2>1 DEF Sound, Arguments, Respects
    <2>8. CreatesFresh(q)'
      BY <1>1, <2>1 DEF Sound, CreatesFresh, Creating, Respects, IInv, CreatesApart
    <2> QED BY <2>2, <2>3, <2>4, <2>5, <2>6, <2>7, <2>8 DEF Sound
  <1>3. \A q, p \in Requests \ {r} : q # p /\ Creating(q)' /\ Creating(p)' => req'[q].org # req'[p].org
    BY DEF IInv, CreatesApart, Creating, Respects
  <1>4. CreatesApart'
    BY <1>3 DEF CreatesApart
  <1> QED BY <1>2, <1>4 DEF IInv

----------------------------------------------------------------------------
(* Types, and the end of a transaction. *)

LEMMA NoRequestType == NoRequest \in Request /\ NoInvitation \in Invitation
  <1>1. AnyOrganization \in Organizations
    BY MembershipsAssumption DEF AnyOrganization
  <1>2. AnyInvitation \in Invitations
    BY MembershipsAssumption DEF AnyInvitation
  <1>3. "owner" \in Roles
    BY MembershipsAssumption
  <1>4. NoInvitation \in Invitation
    BY <1>1, <1>3 DEF NoInvitation, Invitation
  <1> QED BY <1>1, <1>2, <1>3, <1>4 DEF NoRequest, Request

Ended(r, answer) ==
    /\ req' \in [Requests -> Request]
    /\ orgLock' \in [Organizations -> Requests \cup {Nobody}]
    /\ invLock' \in [Invitations -> Requests \cup {Nobody}]
    /\ \A q \in Requests \ {r} : req'[q] = req[q]
    /\ req'[r].pc = "done" /\ req'[r].op = "none" /\ req'[r].answer = answer
    /\ \A o \in Organizations : orgLock'[o] = IF orgLock[o] = r THEN Nobody ELSE orgLock[o]
    /\ \A i \in Invitations : invLock'[i] = IF invLock[i] = r THEN Nobody ELSE invLock[i]

LEMMA AnswerEnds ==
    ASSUME TypeOK, NEW r \in Requests, NEW answer \in Answers, Answer(r, answer)
    PROVE  Ended(r, answer)
  <1> DEFINE done == [NoRequest EXCEPT !.pc = "done", !.answer = answer]
  <1>1. done \in Request /\ done.pc = "done" /\ done.op = "none" /\ done.answer = answer
    <2>1. NoRequest \in Request /\ NoRequest.op = "none"
      BY NoRequestType DEF NoRequest
    <2> QED BY <2>1 DEF Request
  <1>2. req' = [req EXCEPT ![r] = done]
    BY DEF Answer
  <1> HIDE DEF done
  <1> QED BY <1>1, <1>2 DEF Answer, ReleaseLocks, TypeOK, Ended

LEMMA EndedSound ==
    ASSUME TypeOK, NEW r \in Requests, NEW answer \in Answers, Ended(r, answer)
    PROVE  Sound(r)' /\ ~ Creating(r)'
  <1>1. \A o \in Organizations : orgLock'[o] # r
    BY MembershipsAssumption DEF Ended
  <1>2. \A i \in Invitations : invLock'[i] # r
    BY MembershipsAssumption DEF Ended
  <1> QED BY <1>1, <1>2 DEF Ended, Sound, LocksOrg, LocksInvitation, HoldsOrg, HoldsInvitation,
                            HoldsSolo, Arguments, CreatesFresh, Creating

(* A transaction that ends and writes only what nobody else holds. *)
LEMMA CommitKeeps ==
    ASSUME IInv, NEW r \in Requests, NEW answer \in Answers, Ended(r, answer),
           org' \in [Organizations -> {"none", "active", "deleted"}],
           member' \in [Organizations -> [Users -> Roles \cup {"none"}]],
           invitation' \in [Invitations -> Invitation],
           account' \in [Users -> {"active", "deleted"}],
           \A o \in Organizations :
             /\ Held(orgLock[o], r) /\ org[o] = "active" => org'[o] = "active" /\ SameMembers(o)
             /\ org[o] # "none" => org'[o] # "none"
             /\ org[o] = "deleted" => org'[o] = "deleted"
             /\ org[o] = "none" => org'[o] = "none" \/ (Creating(r) /\ req[r].org = o),
           \A i \in Invitations : Held(invLock[i], r) /\ invitation[i].status = "pending" =>
             invitation'[i].status = "pending",
           \A u \in Users : account[u] = "deleted" => account'[u] = "deleted",
           NobodyIn'
    PROVE  IInv'
  <1>1. TypeOK'
    BY DEF IInv, TypeOK, Ended
  <1>2. Respects(r)
    BY DEF Ended, Respects, Held
  <1>3. Sound(r)' /\ ~ Creating(r)'
    BY EndedSound DEF IInv
  <1> QED BY <1>1, <1>2, <1>3, StepKeeps

LEMMA FinishKeeps ==
    ASSUME IInv, NEW r \in Requests, NEW answer \in Answers, Finish(r, answer)
    PROVE  IInv'
  <1>1. Ended(r, answer) /\ UNCHANGED <<org, member, invitation, account>>
    BY AnswerEnds DEF IInv, Finish, tables
  <1>2. NobodyIn'
    BY <1>1 DEF IInv, NobodyIn
  <1>3. \A o \in Organizations : SameMembers(o)
    BY <1>1 DEF SameMembers
  <1> QED BY <1>1, <1>2, <1>3, CommitKeeps DEF IInv, TypeOK

----------------------------------------------------------------------------
(* The steps that take a lock, or read, and go on. *)

GoesOn(r) ==
    /\ req' \in [Requests -> Request]
    /\ \A q \in Requests \ {r} : req'[q] = req[q]
    /\ UNCHANGED <<org, member, invitation, account>>

LEMMA GoesOnKeeps ==
    ASSUME IInv, NEW r \in Requests, GoesOn(r),
           orgLock' \in [Organizations -> Requests \cup {Nobody}],
           invLock' \in [Invitations -> Requests \cup {Nobody}],
           \A o \in Organizations : /\ orgLock'[o] \in {orgLock[o], r, Nobody}
                                    /\ Held(orgLock[o], r) => orgLock'[o] = orgLock[o],
           \A i \in Invitations : /\ invLock'[i] \in {invLock[i], r, Nobody}
                                  /\ Held(invLock[i], r) => invLock'[i] = invLock[i],
           Sound(r)',
           \A q \in Requests \ {r} : Creating(r)' /\ Creating(q)' => req'[r].org # req'[q].org
    PROVE  IInv'
  <1>1. TypeOK'
    BY DEF IInv, TypeOK, GoesOn
  <1>2. \A o \in Organizations : SameMembers(o)
    BY DEF SameMembers, GoesOn
  <1>3. Respects(r)
    BY <1>2 DEF GoesOn, Respects
  <1>4. NobodyIn'
    BY DEF IInv, NobodyIn, GoesOn
  <1> QED BY <1>1, <1>3, <1>4, StepKeeps

(* What Ask chooses. *)
Choice(r, op, actor, o, target) ==
    /\ op \in AllOps /\ actor \in Users /\ o \in Organizations
    /\ op \in {"change_role", "remove", "invite"} => target \in Users
    /\ op \in ScopedOps => org[o] # "none"
    /\ op = "create" => org[o] = "none" /\ \A q \in Requests : req[q].op = "create" => req[q].org # o

LEMMA AskChoice ==
    ASSUME TypeOK, NEW r \in Requests, Ask(r)
    PROVE  \E op \in AllOps, actor \in Users, o \in Organizations, target \in Users \cup {Nobody},
              role \in Roles, i \in Invitations :
              Choice(r, op, actor, o, target) /\ Asked(r, op, actor, o, target, role, i)
  <1>1. /\ AnyOrganization \in Organizations /\ AnyInvitation \in Invitations
        /\ "owner" \in Roles /\ Operations \subseteq AllOps
    BY MembershipsAssumption DEF AnyOrganization, AnyInvitation
  <1>2. PICK op \in Operations, actor \in Users :
         /\ account[actor] = "active"
         /\ \/ /\ op \in ScopedOps
               /\ \E o \in Organizations :
                    /\ Resolves(actor, o, op)
                    /\ \/ /\ op \in {"change_role", "invite"}
                          /\ op = "invite" => IdentifiersLeft
                          /\ \E target \in Users, role \in Roles :
                               Asked(r, op, actor, o, target, role, AnyInvitation)
                       \/ /\ op = "remove"
                          /\ \E target \in Users :
                               Asked(r, op, actor, o, target, "owner", AnyInvitation)
                       \/ /\ op = "revoke"
                          /\ \E i \in Invitations :
                               /\ invitation[i].status # "unused" /\ invitation[i].org = o
                               /\ Asked(r, op, actor, o, Nobody, "owner", i)
                       \/ /\ op \in {"rename", "delete_organization"}
                          /\ Asked(r, op, actor, o, Nobody, "owner", AnyInvitation)
            \/ /\ op = "accept"
               /\ \E i \in Invitations :
                    /\ invitation[i].status # "unused"
                    /\ Asked(r, op, actor, AnyOrganization, Nobody, "owner", i)
            \/ /\ op = "create"
               /\ \E o \in Organizations :
                    /\ org[o] = "none"
                    /\ \A q \in Requests : req[q].op = "create" => req[q].org # o
                    /\ Asked(r, op, actor, o, Nobody, "owner", AnyInvitation)
            \/ /\ op = "delete_account"
               /\ Asked(r, op, actor, AnyOrganization, Nobody, "owner", AnyInvitation)
    BY Zenon DEF Ask
  <1>3. op \in AllOps
    BY <1>1
  <1>4. CASE op \in ScopedOps
    <2>1. PICK o \in Organizations :
             /\ org[o] = "active"
             /\ \/ /\ op \in {"change_role", "invite"}
                   /\ \E target \in Users, role \in Roles :
                        Asked(r, op, actor, o, target, role, AnyInvitation)
                \/ /\ op = "remove"
                   /\ \E target \in Users : Asked(r, op, actor, o, target, "owner", AnyInvitation)
                \/ /\ op = "revoke"
                   /\ \E i \in Invitations : Asked(r, op, actor, o, Nobody, "owner", i)
                \/ /\ op \in {"rename", "delete_organization"}
                   /\ Asked(r, op, actor, o, Nobody, "owner", AnyInvitation)
      BY <1>2, <1>4 DEF ScopedOps, OrgLockOps, Resolves
    <2>2. \A target \in Users \cup {Nobody} :
             op \notin {"change_role", "remove", "invite"} \/ target \in Users =>
               Choice(r, op, actor, o, target)
      BY <1>3, <1>4, <2>1 DEF Choice, ScopedOps, OrgLockOps
    <2> QED BY <1>1, <1>3, <2>1, <2>2
  <1>5. CASE op \notin ScopedOps
    <2>1. \A o \in Organizations :
             (op = "create" => /\ org[o] = "none"
                               /\ \A q \in Requests : req[q].op = "create" => req[q].org # o)
               => Choice(r, op, actor, o, Nobody)
      BY <1>3, <1>5 DEF Choice, ScopedOps, OrgLockOps
    <2> QED BY <1>1, <1>2, <1>3, <1>5, <2>1
  <1> QED BY <1>4, <1>5

(* What a transaction that can go on wants is in no other's hands. *)
LEMMA UnblockedFree ==
    ASSUME NEW r \in Requests, Unblocked(r)
    PROVE  /\ \A o \in OrgsWanted(r) : ~ Held(orgLock[o], r)
           /\ \A i \in InvitationsWanted(r) : ~ Held(invLock[i], r)
  BY DEF Unblocked, WaitsFor, Held

(* At its start a transaction holds nothing. *)
LEMMA StartsWithout ==
    ASSUME IInv, NEW r \in Requests, req[r].pc \in {"idle", "asked"}
    PROVE  /\ \A o \in Organizations : orgLock[o] # r
           /\ \A i \in Invitations : invLock[i] # r
  BY DEF IInv, Sound, LocksOrg, LocksInvitation, At

LEMMA AskKeeps ==
    ASSUME IInv, NEW r \in Requests, Ask(r)
    PROVE  IInv'
  <1>1. PICK op \in AllOps, actor \in Users, o \in Organizations, target \in Users \cup {Nobody},
             role \in Roles, i \in Invitations :
             Choice(r, op, actor, o, target) /\ Asked(r, op, actor, o, target, role, i)
    BY AskChoice DEF IInv
  <1> DEFINE asked == [req[r] EXCEPT !.pc = "asked", !.op = op, !.actor = actor, !.org = o,
                                     !.target = target, !.role = role, !.inv = i]
  <1>2. req[r] \in Request /\ req[r].answer = "none" /\ req[r].pc = "idle"
    BY DEF IInv, TypeOK, Sound, Arguments, Ask
  <1>3. /\ asked \in Request /\ asked.pc = "asked" /\ asked.answer = "none" /\ asked.op = op
        /\ asked.actor = actor /\ asked.org = o /\ asked.target = target
    BY <1>2 DEF Request
  <1>4. req' = [req EXCEPT ![r] = asked] /\ UNCHANGED <<tables, orgLock, invLock>>
    BY <1>1 DEF Asked
  <1> HIDE DEF asked
  <1>5. GoesOn(r) /\ req'[r] = asked
    BY <1>3, <1>4 DEF GoesOn, tables, IInv, TypeOK
  <1>6. LocksOrg(r)' /\ LocksInvitation(r)'
    BY <1>2, <1>4, StartsWithout DEF LocksOrg, LocksInvitation
  <1>7. HoldsOrg(r)' /\ HoldsInvitation(r)' /\ HoldsSolo(r)'
    BY <1>3, <1>5 DEF HoldsOrg, HoldsInvitation, HoldsSolo
  <1>8. Arguments(r)' /\ CreatesFresh(r)'
    BY <1>1, <1>3, <1>5 DEF Choice, Arguments, CreatesFresh, Creating, GoesOn
  <1>9. \A q \in Requests \ {r} : Creating(r)' /\ Creating(q)' => req'[r].org # req'[q].org
    BY <1>1, <1>3, <1>5 DEF Choice, Creating, GoesOn
  <1> QED BY <1>4, <1>5, <1>6, <1>7, <1>8, <1>9, GoesOnKeeps DEF Sound, IInv, TypeOK

LEMMA SecondOwner ==
    \A o \in Organizations, u \in Users :
        member[o][u] = "owner" /\ ~ (Cardinality(Owners(o)) <= 1) => \E w \in Owners(o) : w # u
  <1> SUFFICES ASSUME NEW o \in Organizations, NEW u \in Users, member[o][u] = "owner",
                      ~ (Cardinality(Owners(o)) <= 1), \A w \in Owners(o) : w = u
               PROVE  FALSE
    OBVIOUS
  <1>1. Owners(o) = {u}
    BY DEF Owners
  <1>2. Cardinality(Owners(o)) = 1
    BY <1>1, FS_Singleton
  <1> QED BY <1>2

LEMMA LockOrganizationKeeps ==
    ASSUME IInv, NEW r \in Requests, LockOrganization(r)
    PROVE  IInv'
  <1> DEFINE o == req[r].org
  <1>1. /\ req[r] \in Request /\ req[r].pc = "asked" /\ req[r].op \in OrgLockOps
        /\ o \in Organizations /\ req[r].actor \in Users /\ req[r].answer = "none"
        /\ req[r].op \in {"change_role", "remove", "invite"} => req[r].target \in Users
        /\ org[o] = "active" /\ member[o][req[r].actor] \in Roles
        /\ Owners(o) \in SUBSET Users
    <2>1. req[r].actor \in Users
      BY DEF IInv, Sound, Arguments, LockOrganization, At
    <2> QED BY <2>1 DEF IInv, TypeOK, Sound, Arguments, LockOrganization, At, Allowed, Request, Owners
  <1>2. /\ Loaded(r) \in Request /\ Loaded(r).pc = "locked" /\ Loaded(r).op = req[r].op
        /\ Loaded(r).org = o /\ Loaded(r).actor = req[r].actor /\ Loaded(r).target = req[r].target
        /\ Loaded(r).role = req[r].role /\ Loaded(r).answer = "none"
        /\ Loaded(r).standing = member[o][req[r].actor] /\ Loaded(r).owners = Owners(o)
    <2> DEFINE standing == member[o][req[r].actor]
               owners == Owners(o)
    <2>1. standing \in Roles /\ owners \in SUBSET Users
      BY <1>1
    <2>2. Loaded(r) = [req[r] EXCEPT !.pc = "locked", !.standing = standing, !.owners = owners]
      BY DEF Loaded
    <2> HIDE DEF standing, owners
    <2>3. /\ Loaded(r) \in Request /\ Loaded(r).pc = "locked" /\ Loaded(r).op = req[r].op
          /\ Loaded(r).org = o /\ Loaded(r).actor = req[r].actor /\ Loaded(r).target = req[r].target
          /\ Loaded(r).role = req[r].role /\ Loaded(r).answer = "none"
          /\ Loaded(r).standing = standing /\ Loaded(r).owners = owners
      BY <1>1, <2>1, <2>2 DEF Request
    <2> QED BY <2>3 DEF standing, owners
  <1>3. /\ req' = [req EXCEPT ![r] = Loaded(r)] /\ orgLock' = [orgLock EXCEPT ![o] = r]
        /\ UNCHANGED <<tables, invLock>>
    BY DEF LockOrganization
  <1>4. GoesOn(r) /\ req'[r] = Loaded(r)
    BY <1>2, <1>3 DEF GoesOn, tables, IInv, TypeOK
  <1>5. /\ orgLock' \in [Organizations -> Requests \cup {Nobody}] /\ orgLock'[o] = r
        /\ \A p \in Organizations \ {o} : orgLock'[p] = orgLock[p]
    BY <1>1, <1>3 DEF IInv, TypeOK
  <1>6. ~ Held(orgLock[o], r)
    <2>1. OrgsWanted(r) = {o}
      BY <1>1 DEF OrgsWanted, At, ScopedOps
    <2> QED BY <2>1, UnblockedFree DEF LockOrganization
  <1>7. LocksOrg(r)' /\ LocksInvitation(r)'
    BY <1>1, <1>2, <1>3, <1>4, <1>5, StartsWithout DEF LocksOrg, LocksInvitation, At
  <1>8. Relies(r)'
    <2>1. UNCHANGED <<member, account>>
      BY <1>4 DEF GoesOn
    <2> DEFINE target == member[o][req[r].target]
    <2>2. /\ Allowed(r) /\ Owners(o) = {u \in Users : member[o][u] = "owner"}
      BY DEF LockOrganization, Owners
    <2>6. /\ req'[r].op = req[r].op /\ req'[r].org = o /\ req'[r].actor = req[r].actor
          /\ req'[r].target = req[r].target /\ req'[r].role = req[r].role
          /\ req'[r].standing = member[o][req[r].actor] /\ req'[r].owners = Owners(o)
      BY <1>2, <1>4
    <2>7. \A u \in Owners(o) : member'[o][u] = "owner"
      BY <2>1, <2>2
    <2>3. CASE req[r].op = "change_role"
      <3>1. /\ req[r].actor # req[r].target /\ target # "none"
            /\ Outranks(member[o][req[r].actor], target)
            /\ Outranks(member[o][req[r].actor], req[r].role)
            /\ ~ (target = "owner" /\ req[r].role # "owner" /\ Cardinality(Owners(o)) <= 1)
        BY <2>2, <2>3 DEF Allowed, CheckRoleChange
      <3>2. target = "owner" /\ req[r].role # "owner" => \E u \in Owners(o) : u # req[r].target
        BY <1>1, <2>3, <3>1, SecondOwner
      <3> QED BY <2>1, <2>3, <2>6, <2>7, <3>1, <3>2 DEF Relies
    <2>4. CASE req[r].op = "remove"
      <3>1. /\ req[r].actor # req[r].target => Outranks(member[o][req[r].actor], target)
            /\ ~ (target = "owner" /\ Cardinality(Owners(o)) <= 1)
        BY <2>2, <2>4 DEF Allowed, CheckRemoval
      <3>2. target = "owner" => \E u \in Owners(o) : u # req[r].target
        BY <1>1, <2>4, <3>1, SecondOwner
      <3> QED BY <2>1, <2>4, <2>6, <2>7, <3>1, <3>2 DEF Relies
    <2>5. CASE req[r].op \notin {"change_role", "remove"}
      BY <2>1, <2>5, <2>6, <2>7 DEF Relies
    <2> QED BY <2>3, <2>4, <2>5
  <1>9. HoldsOrg(r)' /\ HoldsInvitation(r)' /\ HoldsSolo(r)'
    BY <1>1, <1>2, <1>4, <1>5, <1>8 DEF HoldsOrg, HoldsInvitation, HoldsSolo, GoesOn
  <1>10. Arguments(r)' /\ CreatesFresh(r)' /\ ~ Creating(r)'
    BY <1>1, <1>2, <1>4 DEF Arguments, CreatesFresh, Creating, GoesOn, OrgLockOps
  <1> QED BY <1>3, <1>4, <1>5, <1>6, <1>7, <1>9, <1>10, GoesOnKeeps DEF Sound, IInv, TypeOK

LEMMA LockInvitationKeeps ==
    ASSUME IInv, NEW r \in Requests, LockInvitation(r)
    PROVE  IInv'
  <1> DEFINE i == req[r].inv
             holding == [req[r] EXCEPT !.pc = "holding"]
  <1>1. /\ req[r] \in Request /\ req[r].pc = "asked" /\ req[r].op = "accept"
        /\ i \in Invitations /\ req[r].actor \in Users /\ req[r].answer = "none"
        /\ invitation[i].status = "pending"
    BY DEF IInv, TypeOK, Sound, Arguments, LockInvitation, IsPending, At, Request
  <1>2. /\ holding \in Request /\ holding.pc = "holding" /\ holding.op = "accept"
        /\ holding.actor = req[r].actor /\ holding.answer = "none" /\ holding.inv = i
    BY <1>1 DEF Request
  <1>3. /\ req' = [req EXCEPT ![r] = holding] /\ invLock' = [invLock EXCEPT ![i] = r]
        /\ UNCHANGED <<tables, orgLock>>
    BY <1>1 DEF LockInvitation, IInv, TypeOK
  <1> HIDE DEF holding
  <1>4. GoesOn(r) /\ req'[r] = holding
    BY <1>2, <1>3 DEF GoesOn, tables, IInv, TypeOK
  <1>5. /\ invLock' \in [Invitations -> Requests \cup {Nobody}] /\ invLock'[i] = r
        /\ \A j \in Invitations \ {i} : invLock'[j] = invLock[j]
    BY <1>1, <1>3 DEF IInv, TypeOK
  <1>6. ~ Held(invLock[i], r)
    <2>1. InvitationsWanted(r) = {i}
      BY <1>1 DEF InvitationsWanted, At
    <2> QED BY <2>1, UnblockedFree DEF LockInvitation
  <1>7. LocksOrg(r)' /\ LocksInvitation(r)'
    BY <1>1, <1>2, <1>3, <1>4, <1>5, StartsWithout DEF LocksOrg, LocksInvitation, At
  <1>8. HoldsOrg(r)' /\ HoldsInvitation(r)' /\ HoldsSolo(r)'
    BY <1>1, <1>2, <1>4, <1>5 DEF HoldsOrg, HoldsInvitation, HoldsSolo, GoesOn
  <1>9. Arguments(r)' /\ CreatesFresh(r)' /\ ~ Creating(r)'
    BY <1>1, <1>2, <1>4 DEF Arguments, CreatesFresh, Creating, ScopedOps, OrgLockOps
  <1> QED BY <1>3, <1>4, <1>5, <1>6, <1>7, <1>8, <1>9, GoesOnKeeps DEF Sound, IInv, TypeOK

LEMMA ReadOwnedKeeps ==
    ASSUME IInv, NEW r \in Requests, ReadOwned(r)
    PROVE  IInv'
  <1> DEFINE u == req[r].actor
             owned == OwnedBy(u)
             blocking == \E o \in OwnedBy(u) : Owners(o) = {u} /\ Members(o) # {u}
             solo == {o \in OwnedBy(u) : Members(o) = {u}}
             counted == [req[r] EXCEPT !.pc = "counted", !.toLock = owned,
                                       !.blocking = blocking, !.solo = solo]
  <1>1. /\ req[r] \in Request /\ req[r].pc = "asked" /\ req[r].op = "delete_account"
        /\ req[r].actor \in Users /\ req[r].answer = "none"
    BY DEF IInv, TypeOK, Sound, Arguments, ReadOwned, At, Request
  <1>2. /\ owned \subseteq Organizations /\ solo \subseteq owned /\ blocking \in BOOLEAN
        /\ \A o \in owned : org[o] = "active"
    BY DEF OwnedBy
  <1>3. req' = [req EXCEPT ![r] = counted] /\ UNCHANGED <<tables, orgLock, invLock>>
    BY DEF ReadOwned
  <1> HIDE DEF owned, blocking, solo
  <1>4. /\ counted \in Request /\ counted.pc = "counted" /\ counted.op = "delete_account"
        /\ counted.actor = req[r].actor /\ counted.answer = "none"
        /\ counted.toLock = owned /\ counted.solo = solo
    BY <1>1, <1>2 DEF Request
  <1> HIDE DEF counted
  <1>5. GoesOn(r) /\ req'[r] = counted
    BY <1>3, <1>4 DEF GoesOn, tables, IInv, TypeOK
  <1>6. LocksOrg(r)' /\ LocksInvitation(r)'
    BY <1>1, <1>3, StartsWithout DEF LocksOrg, LocksInvitation
  <1>7. HoldsOrg(r)' /\ HoldsInvitation(r)' /\ HoldsSolo(r)'
    BY <1>2, <1>4, <1>5 DEF HoldsOrg, HoldsInvitation, HoldsSolo, GoesOn
  <1>8. Arguments(r)' /\ CreatesFresh(r)' /\ ~ Creating(r)'
    BY <1>1, <1>4, <1>5 DEF Arguments, CreatesFresh, Creating, ScopedOps, OrgLockOps
  <1> QED BY <1>3, <1>5, <1>6, <1>7, <1>8, GoesOnKeeps DEF Sound, IInv, TypeOK

LEMMA LeastIsLeast ==
    \A S \in SUBSET Nat : S # {} => Least(S) \in S /\ \A p \in S : Least(S) <= p
  <1> SUFFICES ASSUME NEW S \in SUBSET Nat, S # {}
               PROVE  \E o \in S : \A p \in S : o <= p
    BY DEF Least
  <1>1. PICK o \in S : \A p \in S : ~ (<<p, o>> \in OpToRel(<, Nat))
    BY NatLessThanWellFounded, WFMin
  <1>2. \A p \in S : ~ (p < o)
    BY <1>1 DEF OpToRel
  <1> QED BY <1>2

LEMMA LockOwnedKeeps ==
    ASSUME IInv, NEW r \in Requests, LockOwned(r)
    PROVE  IInv'
  <1> DEFINE o == Least(req[r].toLock)
             rest == req[r].toLock \ {o}
             counted == [req[r] EXCEPT !.toLock = rest]
  <1>1. /\ req[r] \in Request /\ req[r].pc = "counted" /\ req[r].op = "delete_account"
        /\ req[r].actor \in Users /\ req[r].answer = "none"
        /\ req[r].toLock \in SUBSET Organizations /\ req[r].toLock # {}
    BY DEF IInv, TypeOK, Sound, Arguments, LockOwned, At, Request
  <1>2. /\ o \in req[r].toLock /\ o \in Organizations
        /\ \A p \in rest : o < p
    <2>1. req[r].toLock \in SUBSET Nat
      BY <1>1, MembershipsAssumption
    <2>2. o \in req[r].toLock /\ \A p \in req[r].toLock : o <= p
      BY <1>1, <2>1, LeastIsLeast
    <2> QED BY <1>1, <2>1, <2>2
  <1>3. /\ req' = [req EXCEPT ![r] = counted]
        /\ orgLock' = [orgLock EXCEPT ![o] = IF org[o] = "active" THEN r ELSE orgLock[o]]
        /\ UNCHANGED <<tables, invLock>>
    BY <1>1, <1>2 DEF LockOwned, IInv, TypeOK
  <1>4. ~ Held(orgLock[o], r)
    <2>1. OrgsWanted(r) = {o}
      BY <1>1 DEF OrgsWanted, At
    <2> QED BY <2>1, UnblockedFree DEF LockOwned
  <1> HIDE DEF o
  <1>5. /\ counted \in Request /\ counted.pc = "counted" /\ counted.op = "delete_account"
        /\ counted.actor = req[r].actor /\ counted.answer = "none"
        /\ counted.toLock = rest /\ counted.solo = req[r].solo
    BY <1>1 DEF Request
  <1> HIDE DEF counted
  <1>6. GoesOn(r) /\ req'[r] = counted
    BY <1>3, <1>5 DEF GoesOn, tables, IInv, TypeOK
  <1>7. /\ orgLock' \in [Organizations -> Requests \cup {Nobody}]
        /\ org[o] = "active" => orgLock'[o] = r
        /\ orgLock'[o] \in {orgLock[o], r}
        /\ \A p \in Organizations \ {o} : orgLock'[p] = orgLock[p]
    BY <1>2, <1>3 DEF IInv, TypeOK
  <1>8. LocksOrg(r)'
    <2>1. \A p \in Organizations : orgLock[p] = r => \A s \in req[r].toLock : p < s
      BY <1>1 DEF IInv, Sound, LocksOrg, At
    <2> QED BY <1>2, <1>5, <1>6, <1>7, <2>1 DEF LocksOrg, At
  <1>9. LocksInvitation(r)'
    BY <1>1, <1>3 DEF IInv, Sound, LocksInvitation, At
  <1>10. HoldsSolo(r)'
    <2>1. /\ \A p \in req[r].toLock : org[p] # "none"
          /\ \A p \in req[r].solo :
               \/ org[p] = "deleted"
               \/ org[p] = "active" /\ (orgLock[p] = r \/ p \in req[r].toLock)
      BY <1>1 DEF IInv, Sound, HoldsSolo
    <2>2. req[r].solo \subseteq Organizations
      BY <1>1 DEF Request
    <2> QED BY <1>5, <1>6, <1>7, <2>1, <2>2 DEF HoldsSolo, GoesOn
  <1>11. HoldsOrg(r)' /\ HoldsInvitation(r)'
    BY <1>5, <1>6 DEF HoldsOrg, HoldsInvitation
  <1>12. Arguments(r)' /\ CreatesFresh(r)' /\ ~ Creating(r)'
    BY <1>1, <1>5, <1>6 DEF Arguments, CreatesFresh, Creating, ScopedOps, OrgLockOps
  <1> QED BY <1>3, <1>4, <1>6, <1>7, <1>8, <1>9, <1>10, <1>11, <1>12, GoesOnKeeps
          DEF Sound, IInv, TypeOK

----------------------------------------------------------------------------
(* The transactions that write.  A step that says which rows it writes,    *)
(* and that nobody else holds them, preserves the invariant.               *)

LEMMA CreateOrganizationKeeps ==
    ASSUME IInv, NEW r \in Requests, CreateOrganization(r)
    PROVE  IInv'
  <1> DEFINE o == req[r].org
  <1>1. /\ req[r] \in Request /\ req[r].op = "create" /\ req[r].pc = "asked"
        /\ o \in Organizations /\ req[r].actor \in Users /\ org[o] = "none"
    BY DEF IInv, TypeOK, Sound, Arguments, CreatesFresh, Creating, CreateOrganization, At, Request
  <1>2. /\ Ended(r, "ok") /\ UNCHANGED <<invitation, account>>
        /\ org' = [org EXCEPT ![o] = "active"]
        /\ member' = [member EXCEPT ![o][req[r].actor] = "owner"]
    BY AnswerEnds DEF CreateOrganization, IInv
  <1>3. /\ org' \in [Organizations -> {"none", "active", "deleted"}]
        /\ member' \in [Organizations -> [Users -> Roles \cup {"none"}]]
        /\ org'[o] = "active"
        /\ \A p \in Organizations \ {o} : org'[p] = org[p] /\ member'[p] = member[p]
    BY <1>1, <1>2, MembershipsAssumption DEF IInv, TypeOK
  <1>4. NobodyIn'
    BY <1>3 DEF IInv, NobodyIn
  <1>5. \A p \in Organizations \ {o} : SameMembers(p)
    BY <1>3 DEF SameMembers
  <1> QED BY <1>1, <1>2, <1>3, <1>4, <1>5, CommitKeeps DEF IInv, TypeOK, Creating

LEMMA DeleteOrganizationKeeps ==
    ASSUME IInv, NEW r \in Requests, DeleteOrganization(r)
    PROVE  IInv'
  <1> DEFINE o == req[r].org
  <1>1. /\ req[r] \in Request /\ req[r].op = "delete_organization" /\ req[r].pc = "asked"
        /\ o \in Organizations /\ org[o] # "none"
    BY DEF IInv, TypeOK, Sound, Arguments, DeleteOrganization, At, Request, ScopedOps
  <1>2. /\ Ended(r, "ok") /\ UNCHANGED <<member, invitation, account>>
        /\ org' = [org EXCEPT ![o] = "deleted"]
    BY AnswerEnds DEF DeleteOrganization, IInv
  <1>3. /\ org' \in [Organizations -> {"none", "active", "deleted"}]
        /\ org'[o] = "deleted"
        /\ \A p \in Organizations \ {o} : org'[p] = org[p]
    BY <1>1, <1>2 DEF IInv, TypeOK
  <1>4. ~ Held(orgLock[o], r)
    <2>1. OrgsWanted(r) = {o}
      BY <1>1 DEF OrgsWanted, At, ScopedOps
    <2> QED BY <2>1, UnblockedFree DEF DeleteOrganization
  <1>5. NobodyIn'
    BY <1>2, <1>3 DEF IInv, NobodyIn
  <1>6. \A p \in Organizations : SameMembers(p)
    BY <1>2 DEF SameMembers
  <1> QED BY <1>1, <1>2, <1>3, <1>4, <1>5, <1>6, CommitKeeps DEF IInv, TypeOK

(* The members of one organization change, which r has locked or may lock. *)
LEMMA MemberKeeps ==
    ASSUME IInv, NEW r \in Requests, Ended(r, "ok"),
           UNCHANGED <<org, account>>,
           invitation' \in [Invitations -> Invitation],
           \A i \in Invitations : Held(invLock[i], r) /\ invitation[i].status = "pending" =>
             invitation'[i].status = "pending",
           NEW o \in Organizations, NEW u \in Users, NEW role \in Roles \cup {"none"},
           org[o] = "active", ~ Held(orgLock[o], r),
           member' = [member EXCEPT ![o][u] = role]
    PROVE  IInv'
  <1>1. /\ member' \in [Organizations -> [Users -> Roles \cup {"none"}]]
        /\ \A p \in Organizations \ {o} : member'[p] = member[p]
    BY DEF IInv, TypeOK
  <1>2. NobodyIn'
    BY <1>1 DEF IInv, NobodyIn
  <1>3. \A p \in Organizations \ {o} : SameMembers(p)
    BY <1>1 DEF SameMembers
  <1> QED BY <1>1, <1>2, <1>3, CommitKeeps DEF IInv, TypeOK

(* What a request under the organization's lock may count on. *)
LEMMA LockedSound ==
    ASSUME IInv, NEW r \in Requests, req[r].pc = "locked"
    PROVE  /\ req[r] \in Request /\ req[r].op \in OrgLockOps
           /\ req[r].org \in Organizations /\ req[r].actor \in Users /\ req[r].role \in Roles
           /\ req[r].inv \in Invitations
           /\ req[r].op \in {"change_role", "remove", "invite"} => req[r].target \in Users
           /\ req[r].owners \in SUBSET Users
           /\ org[req[r].org] = "active" /\ ~ Held(orgLock[req[r].org], r)
           /\ Relies(r)
  BY DEF IInv, TypeOK, Sound, Arguments, HoldsOrg, Request, Held

LEMMA ChangeRoleKeeps ==
    ASSUME IInv, NEW r \in Requests, ChangeRole(r)
    PROVE  IInv'
  <1>1. req[r].pc = "locked" /\ req[r].op = "change_role"
    BY DEF ChangeRole, At
  <1>2. PICK o \in Organizations, u \in Users, role \in Roles \cup {"none"} :
             o = req[r].org /\ u = req[r].target /\ role = req[r].role
    BY <1>1, LockedSound
  <1>3. /\ Ended(r, "ok") /\ UNCHANGED <<org, invitation, account>>
        /\ member' = [member EXCEPT ![o][u] = role]
    BY <1>2, AnswerEnds DEF ChangeRole, IInv
  <1>4. org[o] = "active" /\ ~ Held(orgLock[o], r)
    BY <1>1, <1>2, LockedSound
  <1> QED BY <1>3, <1>4, MemberKeeps DEF IInv, TypeOK

LEMMA RemoveMemberKeeps ==
    ASSUME IInv, NEW r \in Requests, RemoveMember(r)
    PROVE  IInv'
  <1>1. req[r].pc = "locked" /\ req[r].op = "remove"
    BY DEF RemoveMember, At
  <1>2. PICK o \in Organizations, u \in Users : o = req[r].org /\ u = req[r].target
    BY <1>1, LockedSound
  <1>3. /\ Ended(r, "ok") /\ UNCHANGED <<org, invitation, account>>
        /\ member' = [member EXCEPT ![o][u] = "none"]
    BY <1>2, AnswerEnds DEF RemoveMember, IInv
  <1>4. org[o] = "active" /\ ~ Held(orgLock[o], r)
    BY <1>1, <1>2, LockedSound
  <1> QED BY <1>3, <1>4, MemberKeeps DEF IInv, TypeOK

(* Only the invitations change, and none that somebody else holds. *)
LEMMA InvitationsKeep ==
    ASSUME IInv, NEW r \in Requests, Ended(r, "ok"), UNCHANGED <<org, member, account>>,
           invitation' \in [Invitations -> Invitation],
           \A i \in Invitations : Held(invLock[i], r) /\ invitation[i].status = "pending" =>
             invitation'[i].status = "pending"
    PROVE  IInv'
  <1>1. NobodyIn'
    BY DEF IInv, NobodyIn
  <1>2. \A p \in Organizations : SameMembers(p)
    BY DEF SameMembers
  <1> QED BY <1>1, <1>2, CommitKeeps DEF IInv, TypeOK

(* What Invite writes: the new invitation, and the one that it replaces. *)
LEMMA InviteWrites ==
    ASSUME IInv, NEW r \in Requests, Invite(r)
    PROVE  /\ invitation' \in [Invitations -> Invitation]
           /\ \A i \in Invitations :
                \/ invitation'[i] = invitation[i]
                \/ invitation[i].status = "unused"
                \/ i \in PendingFor(req[r].org, req[r].target)
  <1> DEFINE o == req[r].org
             email == req[r].target
             sent == [status |-> "pending", org |-> o, email |-> email, role |-> req[r].role]
  <1>1. req[r].pc = "locked" /\ req[r].op = "invite"
    BY DEF Invite, At
  <1>2. o \in Organizations /\ email \in Users /\ req[r].role \in Roles
    BY <1>1, LockedSound
  <1>3. sent \in Invitation
    BY <1>2 DEF Invitation
  <1>4. PICK new \in Invitations :
         /\ invitation[new].status = "unused"
         /\ invitation' = [i \in Invitations |->
              CASE i = new -> sent
                [] i \in PendingFor(o, email) -> [invitation[i] EXCEPT !.status = "revoked"]
                [] OTHER -> invitation[i]]
    BY DEF Invite
  <1> HIDE DEF sent
  <1>5. invitation'[new] = sent /\ new \notin PendingFor(o, email)
    BY <1>4 DEF PendingFor
  <1>6. ASSUME NEW i \in PendingFor(o, email)
        PROVE  invitation'[i] = [invitation[i] EXCEPT !.status = "revoked"]
    <2>1. i \in Invitations /\ i # new
      BY <1>5 DEF PendingFor
    <2> QED BY <1>4, <1>6, <2>1
  <1>7. \A i \in Invitations : i # new /\ i \notin PendingFor(o, email) => invitation'[i] = invitation[i]
    BY <1>4
  <1>8. \A i \in Invitations : invitation'[i] \in Invitation
    <2> SUFFICES ASSUME NEW i \in Invitations PROVE invitation'[i] \in Invitation
      OBVIOUS
    <2>1. invitation[i] \in Invitation
      BY DEF IInv, TypeOK
    <2>2. [invitation[i] EXCEPT !.status = "revoked"] \in Invitation
      BY <2>1 DEF Invitation
    <2> QED BY <1>3, <1>5, <1>6, <1>7, <2>1, <2>2
  <1>9. invitation' \in [Invitations -> Invitation]
    BY <1>4, <1>8
  <1> QED BY <1>4, <1>7, <1>9

LEMMA InviteKeeps ==
    ASSUME IInv, NEW r \in Requests, Invite(r)
    PROVE  IInv'
  <1>1. InvitationsWanted(r) = PendingFor(req[r].org, req[r].target)
    BY DEF Invite, InvitationsWanted, At
  <1>2. Ended(r, "ok") /\ UNCHANGED <<org, member, account>>
    BY AnswerEnds DEF Invite, IInv
  <1>3. \A i \in PendingFor(req[r].org, req[r].target) : ~ Held(invLock[i], r)
    BY <1>1, UnblockedFree DEF Invite
  <1> QED BY <1>2, <1>3, InviteWrites, InvitationsKeep

LEMMA RevokeInvitationKeeps ==
    ASSUME IInv, NEW r \in Requests, RevokeInvitation(r)
    PROVE  IInv'
  <1> DEFINE i == req[r].inv
             status == IF invitation[i].status = "pending" THEN "revoked" ELSE invitation[i].status
             revoked == [invitation[i] EXCEPT !.status = status]
  <1>1. InvitationsWanted(r) = {i} /\ i \in Invitations /\ invitation[i] \in Invitation
    BY DEF RevokeInvitation, InvitationsWanted, At, IInv, TypeOK, Request
  <1>2. Ended(r, "ok") /\ UNCHANGED <<org, member, account>>
    BY AnswerEnds DEF RevokeInvitation, IInv
  <1>3. revoked \in Invitation
    <2>1. status \in {"unused", "pending", "accepted", "revoked"}
      BY <1>1 DEF Invitation
    <2> HIDE DEF status
    <2> QED BY <1>1, <2>1 DEF Invitation
  <1>4. invitation' = [invitation EXCEPT ![i] = revoked]
    BY <1>1 DEF RevokeInvitation, IInv, TypeOK
  <1> HIDE DEF revoked
  <1>5. /\ invitation' \in [Invitations -> Invitation]
        /\ \A j \in Invitations \ {i} : invitation'[j] = invitation[j]
    BY <1>3, <1>4 DEF IInv, TypeOK
  <1>6. ~ Held(invLock[i], r)
    BY <1>1, UnblockedFree DEF RevokeInvitation
  <1> QED BY <1>2, <1>5, <1>6, InvitationsKeep

(* Accept uses a pending invitation up and makes its address a member. *)
LEMMA AcceptWrites ==
    ASSUME IInv, NEW r \in Requests, Accept(r)
    PROVE  \E i \in Invitations, o \in Organizations, u \in Users, role \in Roles :
             /\ req[r].pc = "holding" /\ req[r].op = "accept" /\ req[r].inv = i
             /\ invitation[i].status = "pending" /\ invitation[i].org = o
             /\ invitation[i].email = u /\ invitation[i].role = role
             /\ org[o] = "active" /\ ~ Held(orgLock[o], r) /\ ~ Held(invLock[i], r)
             /\ member[o][u] = "none" /\ member' = [member EXCEPT ![o][u] = role]
             /\ invitation' \in [Invitations -> Invitation]
             /\ invitation'[i].status = "accepted"
             /\ \A j \in Invitations \ {i} : invitation'[j] = invitation[j]
             /\ UNCHANGED <<org, account>>
  <1>1. /\ req[r].pc = "holding" /\ req[r].op = "accept" /\ req[r].actor \in Users
        /\ req[r].inv \in Invitations /\ invitation[req[r].inv] \in Invitation
        /\ invitation[req[r].inv].status = "pending" /\ ~ Held(invLock[req[r].inv], r)
    BY DEF Accept, At, IInv, TypeOK, Sound, HoldsInvitation, Arguments, Request, Held
  <1>2. PICK i \in Invitations : i = req[r].inv
    BY <1>1
  <1>3. PICK o \in Organizations, u \in Users, role \in Roles :
             invitation[i].org = o /\ req[r].actor = u /\ invitation[i].role = role
    BY <1>1, <1>2 DEF Invitation
  <1>4. org[o] = "active" /\ invitation[i].email = u /\ member[o][u] = "none"
    BY <1>2, <1>3 DEF Accept, Admits
  <1>5. ~ Held(orgLock[o], r)
    <2>1. OrgsWanted(r) = {o}
      BY <1>1, <1>2, <1>3 DEF OrgsWanted, At
    <2> QED BY <2>1, UnblockedFree DEF Accept
  <1> DEFINE accepted == [invitation[i] EXCEPT !.status = "accepted"]
  <1>6. accepted \in Invitation /\ accepted.status = "accepted"
    BY <1>1, <1>2 DEF Invitation
  <1>7. /\ member' = [member EXCEPT ![o][u] = role] /\ UNCHANGED <<org, account>>
        /\ invitation' = [invitation EXCEPT ![i] = accepted]
    BY <1>2, <1>3 DEF Accept, IInv, TypeOK
  <1> HIDE DEF accepted
  <1>8. /\ invitation' \in [Invitations -> Invitation] /\ invitation'[i].status = "accepted"
        /\ \A j \in Invitations \ {i} : invitation'[j] = invitation[j]
    BY <1>6, <1>7 DEF IInv, TypeOK
  <1> QED BY <1>1, <1>2, <1>3, <1>4, <1>5, <1>7, <1>8

LEMMA AcceptKeeps ==
    ASSUME IInv, NEW r \in Requests, Accept(r)
    PROVE  IInv'
  <1>1. PICK i \in Invitations, o \in Organizations, u \in Users, role \in Roles :
             /\ org[o] = "active" /\ ~ Held(orgLock[o], r) /\ ~ Held(invLock[i], r)
             /\ member' = [member EXCEPT ![o][u] = role]
             /\ invitation' \in [Invitations -> Invitation]
             /\ \A j \in Invitations \ {i} : invitation'[j] = invitation[j]
             /\ UNCHANGED <<org, account>>
    BY AcceptWrites
  <1>2. Ended(r, "ok")
    BY AnswerEnds DEF Accept, IInv
  <1> QED BY <1>1, <1>2, MemberKeeps

(* An account's deletion ends the organizations it has locked, and every   *)
(* membership of the account.                                              *)
LEMMA DeleteAccountWrites ==
    ASSUME IInv, NEW r \in Requests, DeleteAccount(r)
    PROVE  \E u \in Users :
             /\ req[r].actor = u /\ req[r].pc = "counted" /\ req[r].op = "delete_account"
             /\ account' \in [Users -> {"active", "deleted"}]
             /\ \A w \in Users : account'[w] = IF w = u THEN "deleted" ELSE account[w]
             /\ member' \in [Organizations -> [Users -> Roles \cup {"none"}]]
             /\ \A o \in Organizations, w \in Users :
                  member'[o][w] = IF w = u THEN "none" ELSE member[o][w]
             /\ org' \in [Organizations -> {"none", "active", "deleted"}]
             /\ \A o \in Organizations :
                  \/ org'[o] = org[o]
                  \/ org'[o] = "deleted" /\ org[o] = "active" /\ ~ Held(orgLock[o], r)
             /\ UNCHANGED invitation
  <1>1. /\ req[r].pc = "counted" /\ req[r].op = "delete_account" /\ req[r].actor \in Users
        /\ req[r].solo \in SUBSET Organizations /\ req[r].toLock = {}
        /\ \A o \in req[r].solo : org[o] = "deleted" \/ (org[o] = "active" /\ orgLock[o] = r)
    BY DEF DeleteAccount, At, IInv, TypeOK, Sound, HoldsSolo, Arguments, Request
  <1>2. PICK u \in Users : u = req[r].actor
    BY <1>1
  <1>3. /\ org' = [o \in Organizations |-> IF o \in req[r].solo THEN "deleted" ELSE org[o]]
        /\ member' = [o \in Organizations |-> [member[o] EXCEPT ![u] = "none"]]
        /\ account' = [account EXCEPT ![u] = "deleted"] /\ UNCHANGED invitation
    BY <1>2 DEF DeleteAccount
  <1>4. /\ account' \in [Users -> {"active", "deleted"}]
        /\ \A w \in Users : account'[w] = IF w = u THEN "deleted" ELSE account[w]
    BY <1>3 DEF IInv, TypeOK
  <1>5. /\ member' \in [Organizations -> [Users -> Roles \cup {"none"}]]
        /\ \A o \in Organizations, w \in Users :
              member'[o][w] = IF w = u THEN "none" ELSE member[o][w]
    BY <1>3 DEF IInv, TypeOK
  <1>6. /\ org' \in [Organizations -> {"none", "active", "deleted"}]
        /\ \A o \in Organizations :
                  \/ org'[o] = org[o]
                  \/ org'[o] = "deleted" /\ org[o] = "active" /\ ~ Held(orgLock[o], r)
    BY <1>1, <1>3 DEF IInv, TypeOK, Held
  <1> QED BY <1>1, <1>2, <1>3, <1>4, <1>5, <1>6

LEMMA DeleteAccountKeeps ==
    ASSUME IInv, NEW r \in Requests, DeleteAccount(r)
    PROVE  IInv'
  <1>1. PICK u \in Users :
             /\ account' \in [Users -> {"active", "deleted"}]
             /\ \A w \in Users : account'[w] = IF w = u THEN "deleted" ELSE account[w]
             /\ member' \in [Organizations -> [Users -> Roles \cup {"none"}]]
             /\ \A o \in Organizations, w \in Users :
                  member'[o][w] = IF w = u THEN "none" ELSE member[o][w]
             /\ org' \in [Organizations -> {"none", "active", "deleted"}]
             /\ \A o \in Organizations :
                  \/ org'[o] = org[o]
                  \/ org'[o] = "deleted" /\ org[o] = "active" /\ ~ Held(orgLock[o], r)
             /\ UNCHANGED invitation
    BY DeleteAccountWrites
  <1>2. Ended(r, "ok")
    BY AnswerEnds DEF DeleteAccount, IInv
  <1>3. \A o \in Organizations : SameMembers(o)
    BY <1>1 DEF SameMembers
  <1>4. NobodyIn'
    BY <1>1 DEF IInv, NobodyIn
  <1> QED BY <1>1, <1>2, <1>3, <1>4, CommitKeeps DEF IInv, TypeOK

----------------------------------------------------------------------------
(* Every behaviour of the specification keeps the invariant. *)

Writes(r) ==
    \/ CreateOrganization(r) \/ DeleteOrganization(r) \/ ChangeRole(r) \/ RemoveMember(r)
    \/ Invite(r) \/ RevokeInvitation(r) \/ Accept(r) \/ DeleteAccount(r)
Locks(r) == LockOrganization(r) \/ LockInvitation(r) \/ ReadOwned(r) \/ LockOwned(r)

LEMMA StepCases ==
    ASSUME NEW r \in Requests, Step(r) \/ Abort(r)
    PROVE  \/ Writes(r) \/ Locks(r)
           \/ /\ \E answer \in Answers : Finish(r, answer)
              /\ req[r].op = "accept" => \E answer \in {"refused", "failed"} : Finish(r, answer)
  <1>1. CASE RenameOrganization(r)
    BY <1>1 DEF RenameOrganization, At
  <1>2. CASE RoleUnchanged(r)
    BY <1>2 DEF RoleUnchanged, At, OrgLockOps
  <1>3. CASE MembershipRefused(r) \/ MemberDisappeared(r) \/ InvitationRefused(r) \/ AcceptRefused(r)
             \/ DeletionRefused(r) \/ SoleOwner(r) \/ DeadlockVictim(r) \/ Abort(r)
    <2>1. Finish(r, "refused") \/ Finish(r, "failed")
      BY <1>3 DEF MembershipRefused, MemberDisappeared, InvitationRefused, AcceptRefused,
                  DeletionRefused, SoleOwner, DeadlockVictim, Abort
    <2> QED BY <2>1
  <1>4. Step(r) => \/ Writes(r) \/ Locks(r) \/ RenameOrganization(r) \/ RoleUnchanged(r)
                   \/ MembershipRefused(r) \/ MemberDisappeared(r) \/ InvitationRefused(r)
                   \/ AcceptRefused(r) \/ DeletionRefused(r) \/ SoleOwner(r) \/ DeadlockVictim(r)
    BY Zenon DEF Step, Writes, Locks
  <1> QED BY <1>1, <1>2, <1>3, <1>4

LEMMA NextKeeps == IInv /\ [Next]_vars => IInv'
  <1> SUFFICES ASSUME IInv, [Next]_vars PROVE IInv'
    OBVIOUS
  <1>1. ASSUME NEW r \in Requests, Ask(r) PROVE IInv'
    BY <1>1, AskKeeps
  <1>2. ASSUME NEW r \in Requests, Step(r) \/ Abort(r) PROVE IInv'
    <2>1. CASE Writes(r)
      BY <2>1, CreateOrganizationKeeps, DeleteOrganizationKeeps, ChangeRoleKeeps, RemoveMemberKeeps,
         InviteKeeps, RevokeInvitationKeeps, AcceptKeeps, DeleteAccountKeeps DEF Writes
    <2>2. CASE Locks(r)
      BY <2>2, LockOrganizationKeeps, LockInvitationKeeps, ReadOwnedKeeps, LockOwnedKeeps DEF Locks
    <2>3. CASE \E answer \in Answers : Finish(r, answer)
      BY <2>3, FinishKeeps
    <2> QED BY <1>2, <2>1, <2>2, <2>3, StepCases
  <1>3. CASE UNCHANGED vars
    BY <1>3 DEF vars, IInv, TypeOK, Sound, LocksOrg, LocksInvitation, HoldsOrg, Relies, HoldsInvitation,
                HoldsSolo, Arguments, CreatesFresh, CreatesApart, Creating, NobodyIn, At
  <1> QED BY <1>1, <1>2, <1>3 DEF Next, Quiescent

LEMMA InitHolds == Init => IInv
  <1> SUFFICES ASSUME Init PROVE IInv
    OBVIOUS
  <1>1. invitation \in [Invitations -> Invitation]
    <2>1. PICK o \in [Sent -> Founded], email \in [Sent -> Users], role \in [Sent -> Roles \ {"owner"}] :
             invitation = [i \in Invitations |->
                             IF i \in Sent THEN [status |-> "pending", org |-> o[i],
                                                 email |-> email[i], role |-> role[i]]
                             ELSE NoInvitation]
      BY DEF Init
    <2>2. \A i \in Sent : [status |-> "pending", org |-> o[i], email |-> email[i], role |-> role[i]]
                            \in Invitation
      BY MembershipsAssumption DEF Invitation
    <2>3. NoInvitation \in Invitation
      BY NoRequestType
    <2> QED BY <2>1, <2>2, <2>3
  <1>2. \A r \in Requests : req[r] = NoRequest /\ r # Nobody
    BY MembershipsAssumption DEF Init
  <1>3. NoRequest.pc = "idle" /\ NoRequest.op = "none" /\ NoRequest.answer = "none"
    BY DEF NoRequest
  <1>4. TypeOK
    BY <1>1, NoRequestType DEF Init, TypeOK
  <1>5. \A r \in Requests : Sound(r)
    BY <1>2, <1>3 DEF Init, Sound, LocksOrg, LocksInvitation, HoldsOrg, HoldsInvitation, HoldsSolo,
                      Arguments, CreatesFresh, Creating
  <1>6. CreatesApart
    BY <1>2, <1>3 DEF CreatesApart, Creating
  <1>7. NobodyIn
    BY DEF Init, NobodyIn, Members
  <1> QED BY <1>4, <1>5, <1>6, <1>7 DEF IInv

LEMMA Invariance == Spec => []IInv
  BY InitHolds, NextKeeps, PTL DEF Spec

----------------------------------------------------------------------------
(* The order of the locks. *)

(* Who waits for whom, when neither accepts an invitation: for the next    *)
(* organization of an account's deletion, with a later identifier than     *)
(* every organization that the deletion holds.                             *)
LEMMA WaitingForward ==
    ASSUME IInv, NEW r \in Requests, NEW q \in Requests, WaitsFor(r, q), req[q].op # "accept"
    PROVE  \E o \in OrgsWanted(r) \cap Organizations : orgLock[o] = q
  <1>1. \A i \in Invitations : invLock[i] # q
    BY DEF IInv, Sound, LocksInvitation, At
  <1>2. InvitationsWanted(r) \subseteq Invitations
    BY DEF IInv, TypeOK, InvitationsWanted, PendingFor, At, Request
  <1>3. OrgsWanted(r) \subseteq Organizations
    <2>1. req[r] \in Request
      BY DEF IInv, TypeOK
    <2>2. req[r].toLock # {} => Least(req[r].toLock) \in Organizations
      <3>1. req[r].toLock \in SUBSET Nat /\ req[r].toLock \subseteq Organizations
        BY <2>1, MembershipsAssumption DEF Request
      <3> QED BY <3>1, LeastIsLeast
    <2>3. invitation[req[r].inv].org \in Organizations /\ req[r].org \in Organizations
      BY <2>1 DEF IInv, TypeOK, Request, Invitation
    <2> QED BY <2>2, <2>3 DEF OrgsWanted
  <1> QED BY <1>1, <1>2, <1>3 DEF WaitsFor

LEMMA HolderWantsLater ==
    ASSUME IInv, NEW q \in Requests, req[q].op # "accept",
           NEW o \in Organizations, orgLock[o] = q, NEW p \in OrgsWanted(q)
    PROVE  o < p
  <1>1. CASE At(q, "locked", OrgLockOps)
    BY <1>1 DEF OrgsWanted, At
  <1>2. CASE At(q, "counted", {"delete_account"}) /\ \A s \in req[q].toLock : o < s
    <2>1. p = Least(req[q].toLock) /\ req[q].toLock # {}
      BY <1>2 DEF OrgsWanted, At
    <2>2. req[q].toLock \in SUBSET Nat
      BY MembershipsAssumption DEF IInv, TypeOK, Request
    <2>3. p \in req[q].toLock
      BY <2>1, <2>2, LeastIsLeast
    <2> QED BY <1>2, <2>3
  <1> QED BY <1>1, <1>2 DEF IInv, Sound, LocksOrg

(* However many requests run, the tables stay well-formed and only the     *)
(* acceptance of an invitation, which locks the invitation before the      *)
(* organization, can deadlock with another request: everyone else takes    *)
(* one organization, or organizations in the order of their identifiers,   *)
(* and no invitation while it waits (memberships and users services).      *)
THEOREM OnlyAcceptDeadlocksHolds == Spec => []OnlyAcceptDeadlocks
  <1>1. IInv => OnlyAcceptDeadlocks
    <2> SUFFICES ASSUME IInv, NEW r \in Requests, NEW q \in Requests,
                        WaitsFor(r, q), WaitsFor(q, r), req[r].op # "accept", req[q].op # "accept"
                 PROVE  FALSE
      BY DEF OnlyAcceptDeadlocks, IInv
    <2>1. PICK o \in OrgsWanted(r) \cap Organizations : orgLock[o] = q
      BY WaitingForward
    <2>2. PICK p \in OrgsWanted(q) \cap Organizations : orgLock[p] = r
      BY WaitingForward
    <2>3. o < p
      BY <2>1, <2>2, HolderWantsLater
    <2>4. p < o
      BY <2>1, <2>2, HolderWantsLater
    <2> QED BY <2>3, <2>4, MembershipsAssumption
  <1> QED BY <1>1, Invariance, PTL

----------------------------------------------------------------------------
(* What a step may do to invitations and to members. *)

UsedOnce(r) ==
    /\ \A i \in Invitations :
         invitation[i].status \in {"accepted", "revoked"} => invitation'[i] = invitation[i]
    /\ \A q \in Requests : q # r => req'[q] = req[q]
    /\ req[r].op = "accept" /\ invitation[req[r].inv].status \in {"accepted", "revoked"} =>
         req'[r].answer # "ok"

LEMMA WritesUseOnce ==
    ASSUME IInv, NEW r \in Requests, Writes(r)
    PROVE  UsedOnce(r)
  <1>1. Ended(r, "ok")
    BY AnswerEnds DEF IInv, Writes, CreateOrganization, DeleteOrganization, ChangeRole, RemoveMember,
                      Invite, RevokeInvitation, Accept, DeleteAccount
  <1>2. \A q \in Requests : q # r => req'[q] = req[q]
    BY <1>1 DEF Ended
  <1>3. CASE CreateOrganization(r) \/ DeleteOrganization(r) \/ ChangeRole(r) \/ RemoveMember(r)
             \/ DeleteAccount(r)
    BY <1>2, <1>3 DEF UsedOnce, CreateOrganization, DeleteOrganization, ChangeRole, RemoveMember,
                      DeleteAccount, At
  <1>4. CASE Invite(r)
    BY <1>2, <1>4, InviteWrites DEF UsedOnce, Invite, At, PendingFor
  <1>5. CASE RevokeInvitation(r)
    <2>1. req[r].op = "revoke"
      BY <1>5 DEF RevokeInvitation, At
    <2>2. ASSUME NEW i \in Invitations, invitation[i].status \in {"accepted", "revoked"}
          PROVE  invitation'[i] = invitation[i]
      <3>1. CASE i # req[r].inv
        BY <1>5, <3>1 DEF RevokeInvitation, IInv, TypeOK
      <3>2. CASE i = req[r].inv
        <4>1. invitation[i] \in Invitation
          BY DEF IInv, TypeOK
        <4>2. invitation'[i] = [invitation[i] EXCEPT !.status = invitation[i].status]
          BY <1>5, <2>2, <3>2 DEF RevokeInvitation, IInv, TypeOK
        <4> QED BY <4>1, <4>2 DEF Invitation
      <3> QED BY <3>1, <3>2
    <2> QED BY <1>2, <2>1, <2>2 DEF UsedOnce
  <1>6. CASE Accept(r)
    <2>1. PICK i \in Invitations :
               /\ req[r].inv = i /\ invitation[i].status = "pending"
               /\ \A j \in Invitations \ {i} : invitation'[j] = invitation[j]
      BY <1>6, AcceptWrites
    <2> QED BY <1>2, <2>1 DEF UsedOnce
  <1> QED BY <1>3, <1>4, <1>5, <1>6 DEF Writes

(* The steps that write nothing. *)
LEMMA LocksWriteNothing ==
    ASSUME IInv, NEW r \in Requests, Locks(r)
    PROVE  /\ UNCHANGED <<org, member, invitation, account>>
           /\ \A q \in Requests : q # r => req'[q] = req[q]
           /\ req'[r].pc # "done"
  <1>1. req \in [Requests -> Request] /\ req[r] \in Request
    BY DEF IInv, TypeOK
  <1>2. CASE LockOrganization(r)
    BY <1>1, <1>2 DEF LockOrganization, Loaded, tables, Request
  <1>3. CASE LockInvitation(r)
    BY <1>1, <1>3 DEF LockInvitation, tables, Request
  <1>4. CASE ReadOwned(r)
    BY <1>1, <1>4 DEF ReadOwned, tables, Request
  <1>5. CASE LockOwned(r)
    BY <1>1, <1>5 DEF LockOwned, At, tables, Request
  <1> QED BY <1>2, <1>3, <1>4, <1>5 DEF Locks

LEMMA AskWritesNothing ==
    ASSUME IInv, NEW r \in Requests, Ask(r)
    PROVE  /\ UNCHANGED <<org, member, invitation, account>>
           /\ \A q \in Requests : q # r => req'[q] = req[q]
           /\ req[r].op = "none"
  <1>1. PICK op \in AllOps, actor \in Users, o \in Organizations, target \in Users \cup {Nobody},
             role \in Roles, i \in Invitations :
             Choice(r, op, actor, o, target) /\ Asked(r, op, actor, o, target, role, i)
    BY AskChoice DEF IInv
  <1>2. req[r].op = "none"
    BY DEF IInv, Sound, Arguments, Ask
  <1> QED BY <1>1, <1>2 DEF Asked, tables, IInv, TypeOK

LEMMA StepUsesOnce ==
    ASSUME IInv, NEW r \in Requests, Ask(r) \/ Step(r) \/ Abort(r)
    PROVE  UsedOnce(r)
  <1>1. CASE Ask(r)
    BY <1>1, AskWritesNothing DEF UsedOnce
  <1>2. CASE Step(r) \/ Abort(r)
    <2>1. CASE Writes(r)
      BY <2>1, WritesUseOnce
    <2>2. CASE Locks(r)
      <3>1. IInv'
        BY <1>2, NextKeeps DEF Next
      <3>2. req'[r].answer # "ok"
        BY <2>2, <3>1, LocksWriteNothing DEF IInv, Sound, Arguments
      <3> QED BY <2>2, <3>2, LocksWriteNothing DEF UsedOnce
    <2>3. CASE /\ \E answer \in Answers : Finish(r, answer)
               /\ req[r].op = "accept" => \E answer \in {"refused", "failed"} : Finish(r, answer)
      <3>1. ASSUME NEW answer \in Answers, Finish(r, answer)
            PROVE  Ended(r, answer) /\ UNCHANGED invitation
        BY <3>1, AnswerEnds DEF Finish, tables, IInv
      <3>2. UNCHANGED invitation /\ \A q \in Requests : q # r => req'[q] = req[q]
        BY <2>3, <3>1 DEF Ended
      <3>3. req[r].op = "accept" => req'[r].answer # "ok"
        BY <2>3, <3>1 DEF Ended
      <3> QED BY <3>2, <3>3 DEF UsedOnce
    <2> QED BY <1>2, <2>1, <2>2, <2>3, StepCases
  <1> QED BY <1>1, <1>2

(* However many invitations and requests there are, an invitation that was *)
(* accepted or revoked keeps that outcome, and a request that presents it  *)
(* is never answered "ok" (InvitationService.accept).                      *)
THEOREM InvitationUsedOnceHolds == Spec => InvitationUsedOnce
  <1>1. IInv /\ [Next]_vars =>
          [\A i \in Invitations :
             invitation[i].status \in {"accepted", "revoked"} =>
                /\ invitation'[i] = invitation[i]
                /\ \A r \in Requests : req[r].inv = i /\ req[r].op = "accept" =>
                                         req'[r].answer # "ok"]_vars
    <2> SUFFICES ASSUME IInv, Next, ~ UNCHANGED vars,
                        NEW i \in Invitations, invitation[i].status \in {"accepted", "revoked"}
                 PROVE  /\ invitation'[i] = invitation[i]
                        /\ \A q \in Requests : req[q].inv = i /\ req[q].op = "accept" =>
                                                 req'[q].answer # "ok"
      OBVIOUS
    <2>1. PICK r \in Requests : Ask(r) \/ Step(r) \/ Abort(r)
      BY DEF Next, Quiescent
    <2>2. UsedOnce(r)
      BY <2>1, StepUsesOnce
    <2>3. \A q \in Requests : req[q].op = "accept" => req[q].answer = "none"
      BY DEF IInv, TypeOK, Sound, Arguments, Request
    <2> QED BY <2>2, <2>3 DEF UsedOnce
  <1> QED BY <1>1, Invariance, PTL DEF InvitationUsedOnce, Spec

----------------------------------------------------------------------------
(* What a step of r does to the membership of u in o. *)

ByRight(r, o, u) ==
    LET old == member[o][u]  new == member'[o][u] IN
    /\ org[o] = "deleted" => org'[o] = "deleted" /\ new \in {old, "none"}
    /\ old # new =>
       IF old = "none"
       THEN \/ org[o] = "none" /\ new = "owner"
            \/ /\ org[o] = "active"
               /\ \E i \in PendingFor(o, u) : /\ invitation[i].role = new
                                              /\ invitation'[i].status = "accepted"
       ELSE /\ req[r].pc # "done" /\ req'[r].pc = "done"
            /\ \/ req[r].actor = u /\ new = "none"
               \/ /\ req[r].actor # u /\ Outranks(req[r].standing, old)
                  /\ new # "none" => Outranks(req[r].standing, new)
                  /\ \/ member[o][req[r].actor] = req[r].standing
                     \/ account[req[r].actor] = "deleted"

LEMMA WritesByRight ==
    ASSUME IInv, NEW r \in Requests, Writes(r), NEW o \in Organizations, NEW u \in Users
    PROVE  ByRight(r, o, u)
  <1>1. Ended(r, "ok")
    BY AnswerEnds DEF IInv, Writes, CreateOrganization, DeleteOrganization, ChangeRole, RemoveMember,
                      Invite, RevokeInvitation, Accept, DeleteAccount
  <1>2. req'[r].pc = "done"
    BY <1>1 DEF Ended
  <1>3. CASE CreateOrganization(r)
    <2>1. /\ req[r].org \in Organizations /\ req[r].actor \in Users /\ org[req[r].org] = "none"
          /\ org' = [org EXCEPT ![req[r].org] = "active"]
          /\ member' = [member EXCEPT ![req[r].org][req[r].actor] = "owner"]
      BY <1>3 DEF IInv, TypeOK, Sound, Arguments, CreatesFresh, Creating, CreateOrganization, At, Request
    <2>2. CASE o = req[r].org
      <3>1. member[o][u] = "none" /\ member'[o][u] \in {"none", "owner"}
        BY <2>1, <2>2 DEF IInv, NobodyIn, TypeOK
      <3> QED BY <2>1, <2>2, <3>1 DEF ByRight
    <2>3. CASE o # req[r].org
      BY <2>1, <2>3 DEF ByRight, IInv, TypeOK
    <2> QED BY <2>2, <2>3
  <1>4. CASE DeleteOrganization(r) \/ Invite(r) \/ RevokeInvitation(r)
    <2>1. UNCHANGED member /\ (org[o] = "deleted" => org'[o] = "deleted")
      BY <1>4 DEF DeleteOrganization, Invite, RevokeInvitation, IInv, TypeOK
    <2> QED BY <2>1 DEF ByRight
  <1>5. CASE ChangeRole(r)
    <2>1. req[r].pc = "locked" /\ req[r].op = "change_role" /\ UNCHANGED org
          /\ member' = [member EXCEPT ![req[r].org][req[r].target] = req[r].role]
          /\ member[req[r].org][req[r].target] # "none"
      BY <1>5 DEF ChangeRole, At
    <2>2. CASE o = req[r].org /\ u = req[r].target
      <3>1. /\ member'[o][u] = req[r].role /\ org[o] = "active"
            /\ req[r].actor # u /\ Outranks(req[r].standing, member[o][u])
            /\ Outranks(req[r].standing, req[r].role)
            /\ member[o][req[r].actor] = req[r].standing \/ account[req[r].actor] = "deleted"
        BY <2>1, <2>2, LockedSound DEF Relies, IInv, TypeOK
      <3> QED BY <1>2, <2>1, <2>2, <3>1 DEF ByRight
    <2>3. CASE ~ (o = req[r].org /\ u = req[r].target)
      <3>1. member'[o][u] = member[o][u]
        BY <2>1, <2>3, LockedSound DEF IInv, TypeOK
      <3> QED BY <2>1, <3>1 DEF ByRight
    <2> QED BY <2>2, <2>3
  <1>6. CASE RemoveMember(r)
    <2>1. req[r].pc = "locked" /\ req[r].op = "remove" /\ UNCHANGED org
          /\ member' = [member EXCEPT ![req[r].org][req[r].target] = "none"]
      BY <1>6 DEF RemoveMember, At
    <2>2. CASE o = req[r].org /\ u = req[r].target /\ member[o][u] # "none"
      <3>1. /\ member'[o][u] = "none"
            /\ req[r].actor # u => Outranks(req[r].standing, member[o][u])
            /\ member[o][req[r].actor] = req[r].standing \/ account[req[r].actor] = "deleted"
        BY <2>1, <2>2, LockedSound DEF Relies, IInv, TypeOK
      <3> QED BY <1>2, <2>1, <2>2, <3>1 DEF ByRight
    <2>3. CASE ~ (o = req[r].org /\ u = req[r].target /\ member[o][u] # "none")
      <3>1. member'[o][u] = member[o][u]
        BY <2>1, <2>3, LockedSound DEF IInv, TypeOK
      <3> QED BY <2>1, <3>1 DEF ByRight
    <2> QED BY <2>2, <2>3
  <1>7. CASE Accept(r)
    <2>1. PICK i \in Invitations, p \in Organizations, w \in Users, role \in Roles :
             /\ invitation[i].status = "pending" /\ invitation[i].org = p
             /\ invitation[i].email = w /\ invitation[i].role = role
             /\ org[p] = "active" /\ member[p][w] = "none"
             /\ member' = [member EXCEPT ![p][w] = role]
             /\ invitation'[i].status = "accepted" /\ UNCHANGED org
      BY <1>7, AcceptWrites
    <2>2. CASE o = p /\ u = w
      <3>1. i \in PendingFor(o, u) /\ member'[o][u] = role
        BY <2>1, <2>2 DEF PendingFor, IInv, TypeOK
      <3> QED BY <2>1, <2>2, <3>1 DEF ByRight
    <2>3. CASE ~ (o = p /\ u = w)
      <3>1. member'[o][u] = member[o][u]
        BY <2>1, <2>3 DEF IInv, TypeOK
      <3> QED BY <2>1, <3>1 DEF ByRight
    <2> QED BY <2>2, <2>3
  <1>8. CASE DeleteAccount(r)
    <2>1. PICK w \in Users :
             /\ req[r].actor = w /\ req[r].pc = "counted"
             /\ member'[o][u] = IF u = w THEN "none" ELSE member[o][u]
             /\ org[o] = "deleted" => org'[o] = "deleted"
      BY <1>8, DeleteAccountWrites
    <2> QED BY <1>2, <2>1 DEF ByRight
  <1> QED BY <1>3, <1>4, <1>5, <1>6, <1>7, <1>8 DEF Writes

LEMMA StepWrites ==
    ASSUME IInv, Next, ~ UNCHANGED vars
    PROVE  \/ UNCHANGED <<org, member>>
           \/ \E r \in Requests : Writes(r)
  <1>1. PICK r \in Requests : Ask(r) \/ Step(r) \/ Abort(r)
    BY DEF Next, Quiescent
  <1>2. CASE Ask(r)
    BY <1>2, AskWritesNothing
  <1>3. CASE Step(r) \/ Abort(r)
    BY <1>3, StepCases, LocksWriteNothing DEF Finish, tables
  <1> QED BY <1>1, <1>2, <1>3

(* For any number of users, roles, organizations and concurrent requests:  *)
(* a membership begins with an invitation of that address or with the      *)
(* organization, and changes only by the member itself or by somebody whom *)
(* the policy of membership_policy.py puts above it, checked under the     *)
(* organization's lock; a deleted organization stays deleted.              *)
THEOREM ChangedByRightHolds == Spec => ChangedByRight
  <1>1. IInv /\ [Next]_vars =>
          [\A o \in Organizations, u \in Users :
             LET old == member[o][u]  new == member'[o][u] IN
             /\ org[o] = "deleted" => org'[o] = "deleted" /\ new \in {old, "none"}
             /\ old # new =>
                IF old = "none"
                THEN \/ org[o] = "none" /\ new = "owner"
                     \/ /\ org[o] = "active"
                        /\ \E i \in PendingFor(o, u) : /\ invitation[i].role = new
                                                       /\ invitation'[i].status = "accepted"
                ELSE \E r \in Requests :
                       /\ req[r].pc # "done" /\ req'[r].pc = "done"
                       /\ \/ req[r].actor = u /\ new = "none"
                          \/ /\ req[r].actor # u /\ Outranks(req[r].standing, old)
                             /\ new # "none" => Outranks(req[r].standing, new)
                             /\ \/ member[o][req[r].actor] = req[r].standing
                                \/ account[req[r].actor] = "deleted"]_vars
    <2>1. ASSUME IInv, Next, ~ UNCHANGED vars, NEW o \in Organizations, NEW u \in Users
          PROVE  UNCHANGED <<org, member>> \/ \E r \in Requests : ByRight(r, o, u)
      BY <2>1, StepWrites, WritesByRight
    <2> QED BY <2>1 DEF ByRight
  <1> QED BY <1>1, Invariance, PTL DEF ChangedByRight, Spec

LEMMA WritesKeepOwner ==
    ASSUME IInv, NEW r \in Requests, Writes(r), NEW o \in Organizations,
           org[o] = "active", org'[o] = "active", Owners(o) # {}, Owners(o)' = {}
    PROVE  \E u \in Users :
             /\ account'[u] = "deleted"
             /\ \/ u \in Owners(o)
                \/ /\ req[r].pc = "locked" /\ req'[r].pc = "done"
                   /\ req[r].org = o /\ u \in req[r].owners
  <1>1. Ended(r, "ok")
    BY AnswerEnds DEF IInv, Writes, CreateOrganization, DeleteOrganization, ChangeRole, RemoveMember,
                      Invite, RevokeInvitation, Accept, DeleteAccount
  <1>2. req'[r].pc = "done"
    BY <1>1 DEF Ended
  <1>3. PICK w \in Users : member[o][w] = "owner"
    BY DEF Owners
  <1>4. \A u \in Users : member'[o][u] # "owner"
    BY DEF Owners
  <1>5. CASE CreateOrganization(r)
    <2>1. /\ req[r].org \in Organizations /\ org[req[r].org] = "none"
          /\ member' = [member EXCEPT ![req[r].org][req[r].actor] = "owner"]
      BY <1>5 DEF IInv, TypeOK, Sound, CreatesFresh, Creating, CreateOrganization, At, Request
    <2> QED BY <1>3, <1>4, <2>1 DEF IInv, TypeOK
  <1>6. CASE DeleteOrganization(r) \/ Invite(r) \/ RevokeInvitation(r)
    BY <1>3, <1>4, <1>6 DEF DeleteOrganization, Invite, RevokeInvitation
  <1>7. CASE ChangeRole(r) \/ RemoveMember(r)
    <2>1. req[r].pc = "locked" /\ req[r].op \in {"change_role", "remove"} /\ UNCHANGED account
      BY <1>7 DEF ChangeRole, RemoveMember, At
    <2>2. /\ \A u \in Users : ~ (o = req[r].org /\ u = req[r].target) => member'[o][u] = member[o][u]
          /\ req[r].op = "change_role" /\ o = req[r].org => member'[o][req[r].target] = req[r].role
      BY <1>7, <2>1, LockedSound DEF ChangeRole, RemoveMember, At, IInv, TypeOK
    <2>3. /\ o = req[r].org /\ w = req[r].target
          /\ req[r].op = "remove" \/ req[r].role # "owner"
      BY <1>3, <1>4, <2>1, <2>2
    <2>4. PICK u \in req[r].owners : u # req[r].target
      BY <1>3, <2>1, <2>3, LockedSound DEF Relies
    <2>5. u \in Users /\ (member[o][u] = "owner" \/ account[u] = "deleted")
      BY <2>1, <2>3, <2>4, LockedSound DEF Relies
    <2>6. account[u] = "deleted"
      BY <1>4, <2>2, <2>4, <2>5
    <2> QED BY <1>2, <2>1, <2>3, <2>4, <2>5, <2>6
  <1>8. CASE Accept(r)
    <2>1. PICK p \in Organizations, u \in Users, role \in Roles :
             member[p][u] = "none" /\ member' = [member EXCEPT ![p][u] = role]
      BY <1>8, AcceptWrites
    <2> QED BY <1>3, <1>4, <2>1 DEF IInv, TypeOK
  <1>9. CASE DeleteAccount(r)
    <2>1. PICK u \in Users :
             /\ account'[u] = "deleted"
             /\ \A v \in Users : member'[o][v] = IF v = u THEN "none" ELSE member[o][v]
      BY <1>9, DeleteAccountWrites
    <2> QED BY <1>3, <1>4, <2>1 DEF Owners
  <1> QED BY <1>5, <1>6, <1>7, <1>8, <1>9 DEF Writes

(* However many owners and requests there are, an organization that stays  *)
(* loses its last owner only with an owner's account: two demotions or     *)
(* removals at once never do it (MembershipService under the lock).        *)
THEOREM OwnerGoesWithAccountHolds == Spec => OwnerGoesWithAccount
  <1>1. IInv /\ [Next]_vars =>
          [\A o \in Organizations :
             org[o] = "active" /\ org'[o] = "active" /\ Owners(o) # {} /\ Owners(o)' = {} =>
                \E u \in Users :
                   /\ account'[u] = "deleted"
                   /\ \/ u \in Owners(o)
                      \/ \E r \in Requests : /\ req[r].pc = "locked" /\ req'[r].pc = "done"
                                             /\ req[r].org = o /\ u \in req[r].owners]_vars
    <2>1. ASSUME IInv, Next, ~ UNCHANGED vars, NEW o \in Organizations,
                 org[o] = "active", org'[o] = "active", Owners(o) # {}, Owners(o)' = {}
          PROVE  \E r \in Requests : Writes(r)
      BY <2>1, StepWrites DEF Owners
    <2>2. ASSUME IInv, Next, ~ UNCHANGED vars, NEW o \in Organizations,
                 org[o] = "active", org'[o] = "active", Owners(o) # {}, Owners(o)' = {}
          PROVE  \E u \in Users :
                   /\ account'[u] = "deleted"
                   /\ \/ u \in Owners(o)
                      \/ \E r \in Requests : /\ req[r].pc = "locked" /\ req'[r].pc = "done"
                                             /\ req[r].org = o /\ u \in req[r].owners
      BY <2>1, <2>2, WritesKeepOwner
    <2> QED BY <2>2
  <1> QED BY <1>1, Invariance, PTL DEF OwnerGoesWithAccount, Spec
=============================================================================
