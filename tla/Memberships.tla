---------------------------- MODULE Memberships ----------------------------
(***************************************************************************)
(* Organizations, their members and their invitations                      *)
(* (OrganizationService, MembershipService, InvitationService), next to    *)
(* the deletion of accounts (UserService.delete_account), as the           *)
(* transactions of concurrent requests.                                    *)
(*                                                                         *)
(* The HTTP layer authenticates a request and resolves the caller's        *)
(* membership in a transaction of its own (Ask).  The service then runs    *)
(* one transaction; its steps are the statements at which it waits for a   *)
(* row lock or reads what another transaction may change before it writes. *)
(* A user stands for an account and for its email address, and a member is *)
(* named by its user.  Time is not modelled: a pending invitation may turn *)
(* out to have expired whenever it is presented.                           *)
(***************************************************************************)
EXTENDS Naturals, FiniteSets

CONSTANTS Requests, Users,
          Organizations,   \* identifiers, ordered the way the code sorts them
          Founded,         \* the organizations that exist at the start
          Invitations,     \* invitation identifiers, used and not yet used
          Sent,            \* the invitations that are pending at the start
          Roles,           \* the roles of this instance
          Operations,      \* the operations of this instance
          Nobody           \* no lock holder, no user

AllRoles == {"owner", "admin", "member", "viewer"}
OrgLockOps == {"change_role", "remove", "invite", "revoke"}
ScopedOps == OrgLockOps \cup {"rename", "delete_organization"}
AllOps == ScopedOps \cup {"accept", "create", "delete_account"}

ASSUME MembershipsAssumption ==
    /\ Organizations \subseteq Nat /\ Founded \subseteq Organizations
    /\ Sent \subseteq Invitations
    /\ "owner" \in Roles /\ Roles \subseteq AllRoles
    /\ Operations \subseteq AllOps
    /\ Nobody \notin Requests \cup Users
    /\ Users # {} /\ Organizations # {} /\ Invitations # {}

VARIABLES org,             \* the organizations table: none, active, deleted
          member,          \* the organization_members table: role or none
          invitation,      \* the invitations table
          account,         \* the status of each user
          orgLock,         \* who holds each organization row FOR UPDATE
          invLock,         \* who holds each invitation row FOR UPDATE
          req              \* the requests

tables == <<org, member, invitation, account>>
vars == <<org, member, invitation, account, orgLock, invLock, req>>

Invitation == [status : {"unused", "pending", "accepted", "revoked"},
               org : Organizations, email : Users \cup {Nobody}, role : Roles]
Stages == {"idle", "asked", "locked", "holding", "counted", "done"}
Answers == {"none", "ok", "refused", "failed"}
(* standing and owners are history: the role of the caller and the owners  *)
(* of the organization that a request read under the organization's lock.  *)
Request == [pc : Stages, op : AllOps \cup {"none"}, actor : Users \cup {Nobody},
            org : Organizations, target : Users \cup {Nobody}, role : Roles,
            inv : Invitations, standing : Roles \cup {"none"}, owners : SUBSET Users,
            toLock : SUBSET Organizations, blocking : BOOLEAN,
            solo : SUBSET Organizations, answer : Answers]

TypeOK ==
    /\ org \in [Organizations -> {"none", "active", "deleted"}]
    /\ member \in [Organizations -> [Users -> Roles \cup {"none"}]]
    /\ invitation \in [Invitations -> Invitation]
    /\ account \in [Users -> {"active", "deleted"}]
    /\ orgLock \in [Organizations -> Requests \cup {Nobody}]
    /\ invLock \in [Invitations -> Requests \cup {Nobody}]
    /\ req \in [Requests -> Request]

Members(o) == {u \in Users : member[o][u] # "none"}
Owners(o) == {u \in Users : member[o][u] = "owner"}
PendingFor(o, email) == {i \in Invitations : /\ invitation[i].status = "pending"
                                             /\ invitation[i].org = o
                                             /\ invitation[i].email = email}

AnyOrganization == CHOOSE o \in Organizations : TRUE
AnyInvitation == CHOOSE i \in Invitations : TRUE
NoInvitation == [status |-> "unused", org |-> AnyOrganization, email |-> Nobody,
                 role |-> "owner"]
NoRequest == [pc |-> "idle", op |-> "none", actor |-> Nobody, org |-> AnyOrganization,
              target |-> Nobody, role |-> "owner", inv |-> AnyInvitation,
              standing |-> "none", owners |-> {}, toLock |-> {}, blocking |-> FALSE, solo |-> {},
              answer |-> "none"]

Init ==
    /\ org = [o \in Organizations |-> IF o \in Founded THEN "active" ELSE "none"]
    /\ member \in [Organizations -> [Users -> Roles \cup {"none"}]]
    /\ \A o \in Organizations : IF o \in Founded THEN Owners(o) # {} ELSE Members(o) = {}
    /\ \E o \in [Sent -> Founded], email \in [Sent -> Users],
          role \in [Sent -> Roles \ {"owner"}] :
          invitation = [i \in Invitations |->
                          IF i \in Sent THEN [status |-> "pending", org |-> o[i],
                                              email |-> email[i], role |-> role[i]]
                          ELSE NoInvitation]
    /\ \A i \in Sent : /\ Cardinality(PendingFor(invitation[i].org, invitation[i].email)) = 1
                       /\ member[invitation[i].org][invitation[i].email] = "none"
    /\ account = [u \in Users |-> "active"]
    /\ orgLock = [o \in Organizations |-> Nobody]
    /\ invLock = [i \in Invitations |-> Nobody]
    /\ req = [r \in Requests |-> NoRequest]

----------------------------------------------------------------------------
(* Who may do what: permissions.py and membership_policy.py. *)

RANK == [viewer |-> 0, member |-> 1, admin |-> 2, owner |-> 3]

(* The permission an operation on an organization asks of the caller. *)
HasPermission(role, op) ==
    CASE op = "delete_organization" -> role = "owner"
      [] OTHER                      -> role \in {"owner", "admin"}

Outranks(actor, other) == actor = "owner" \/ RANK[actor] > RANK[other]

CheckRoleChange(actor, target, new, isSelf, owners) ==
    /\ HasPermission(actor, "change_role")
    /\ ~isSelf
    /\ Outranks(actor, target) /\ Outranks(actor, new)
    /\ ~(target = "owner" /\ new # "owner" /\ owners <= 1)

CheckRemoval(actor, target, isSelf, owners) ==
    /\ isSelf \/ (HasPermission(actor, "remove") /\ Outranks(actor, target))
    /\ ~(target = "owner" /\ owners <= 1)

CheckInvitation(actor, role) ==
    HasPermission(actor, "invite") /\ role # "owner" /\ Outranks(actor, role)

----------------------------------------------------------------------------
(* Transactions. *)

At(r, stage, ops) == req[r].pc = stage /\ req[r].op \in ops

(* COMMIT or ROLLBACK ends every lock the transaction holds. *)
ReleaseLocks_organizationsOnly(r) ==
    /\ orgLock' = [o \in Organizations |-> IF orgLock[o] = r THEN Nobody ELSE orgLock[o]]
    /\ UNCHANGED invLock
ReleaseLocks(r) ==
    /\ orgLock' = [o \in Organizations |-> IF orgLock[o] = r THEN Nobody ELSE orgLock[o]]
    /\ invLock' = [i \in Invitations |-> IF invLock[i] = r THEN Nobody ELSE invLock[i]]

Answer(r, answer) ==
    /\ ReleaseLocks(r)
    /\ req' = [req EXCEPT ![r] = [NoRequest EXCEPT !.pc = "done", !.answer = answer]]

Finish(r, answer) == Answer(r, answer) /\ UNCHANGED tables

(* The rows whose lock a transaction needs for its next statement. *)
Least(S) == CHOOSE o \in S : \A p \in S : o <= p
OrgsWanted(r) ==
    CASE At(r, "asked", ScopedOps)                        -> {req[r].org}
      [] req[r].pc = "holding"                            -> {invitation[req[r].inv].org}
      [] req[r].pc = "counted" /\ req[r].toLock # {}      -> {Least(req[r].toLock)}
      [] OTHER                                            -> {}
InvitationsWanted(r) ==
    CASE At(r, "asked", {"accept"})                       -> {req[r].inv}
      [] At(r, "locked", {"revoke"})                      -> {req[r].inv}
      [] At(r, "locked", {"invite"})                      -> PendingFor(req[r].org, req[r].target)
      [] OTHER                                            -> {}

WaitsFor(r, q) ==
    /\ r # q
    /\ \/ \E o \in OrgsWanted(r) : orgLock[o] = q
       \/ \E i \in InvitationsWanted(r) : invLock[i] = q

Unblocked(r) == \A q \in Requests : ~WaitsFor(r, q)

----------------------------------------------------------------------------
(* A signed-in user sends a request.  For an operation on an organization  *)
(* the route resolves the caller's membership and requires its permission; *)
(* a request refused here leaves no trace.                                 *)
Resolves(actor, o, op) ==
    /\ org[o] = "active"
    /\ member[o][actor] # "none"
    /\ op # "remove" => HasPermission(member[o][actor], op)

(* A finite instance has so many identifiers for new invitations. *)
IdentifiersLeft ==
    Cardinality({q \in Requests : req[q].op = "invite"})
      < Cardinality({i \in Invitations : invitation[i].status = "unused"})

Asked(r, op, actor, o, target, role, i) ==
    /\ req' = [req EXCEPT ![r] = [@ EXCEPT !.pc = "asked", !.op = op, !.actor = actor,
                 !.org = o, !.target = target, !.role = role, !.inv = i]]
    /\ UNCHANGED <<tables, orgLock, invLock>>

Ask(r) ==
    /\ req[r].pc = "idle"
    /\ \E op \in Operations, actor \in Users :
         /\ account[actor] = "active"
         /\ \/ /\ op \in ScopedOps
               /\ \E o \in Organizations :
                    /\ Resolves(actor, o, op)
                    /\ \/ /\ op \in {"change_role", "invite"}
                          /\ op = "invite" => IdentifiersLeft
                          /\ \E target \in Users, role \in Roles :
                               Asked(r, op, actor, o, target, role, AnyInvitation)
                       \/ /\ op = "remove"
                          /\ \E target \in Users :
                               Asked(r, op, actor, o, target, "owner", AnyInvitation)
                       \/ /\ op = "revoke"
                          /\ \E i \in Invitations :
                               /\ invitation[i].status # "unused" /\ invitation[i].org = o
                               /\ Asked(r, op, actor, o, Nobody, "owner", i)
                       \/ /\ op \in {"rename", "delete_organization"}
                          /\ Asked(r, op, actor, o, Nobody, "owner", AnyInvitation)
            \/ /\ op = "accept"
               /\ \E i \in Invitations :
                    /\ invitation[i].status # "unused"
                    /\ Asked(r, op, actor, AnyOrganization, Nobody, "owner", i)
            \/ /\ op = "create"
               /\ \E o \in Organizations :
                    /\ org[o] = "none"
                    /\ \A q \in Requests : req[q].op = "create" => req[q].org # o
                    /\ Asked(r, op, actor, o, Nobody, "owner", AnyInvitation)
            \/ /\ op = "delete_account"
               /\ Asked(r, op, actor, AnyOrganization, Nobody, "owner", AnyInvitation)

----------------------------------------------------------------------------
(* Organizations. *)

CreateOrganization(r) ==
    LET o == req[r].org IN
    /\ At(r, "asked", {"create"})
    /\ org' = [org EXCEPT ![o] = "active"]
    /\ member' = [member EXCEPT ![o][req[r].actor] = "owner"]
    /\ Answer(r, "ok")
    /\ UNCHANGED <<invitation, account>>

(* An UPDATE of the live row; without one, rename fails (LookupError). *)
RenameOrganization(r) ==
    /\ At(r, "asked", {"rename"}) /\ Unblocked(r)
    /\ Finish(r, IF org[req[r].org] = "active" THEN "ok" ELSE "failed")

(* The permission was required of the membership resolved in Ask. *)
DeleteOrganization(r) ==
    /\ At(r, "asked", {"delete_organization"}) /\ Unblocked(r)
    /\ org' = [org EXCEPT ![req[r].org] = "deleted"]
    /\ Answer(r, "ok")
    /\ UNCHANGED <<member, invitation, account>>

----------------------------------------------------------------------------
(* Members and invitations: lock the organization, re-read, decide. *)

Allowed(r) ==
    LET o == req[r].org
        actor == member[o][req[r].actor]
        target == member[o][req[r].target]
        isSelf == req[r].actor = req[r].target
        owners == Cardinality(Owners(o))
    IN  /\ org[o] = "active"
        /\ actor # "none"
        /\ CASE req[r].op = "change_role" ->
                  target # "none" /\ CheckRoleChange(actor, target, req[r].role, isSelf, owners)
             [] req[r].op = "remove" ->
                  target # "none" /\ CheckRemoval(actor, target, isSelf, owners)
             [] req[r].op = "invite" ->
                  /\ CheckInvitation(actor, req[r].role)
                  /\ account[req[r].target] = "active" => target = "none"
             [] req[r].op = "revoke" ->
                  /\ invitation[req[r].inv].status = "pending"
                  /\ CheckInvitation(actor, invitation[req[r].inv].role)

(* change_role of a member who has that role already writes nothing. *)
NothingToChange(r) ==
    req[r].op = "change_role" /\ member[req[r].org][req[r].target] = req[r].role

Loaded(r) == [req[r] EXCEPT !.pc = "locked", !.standing = member[req[r].org][req[r].actor],
                            !.owners = Owners(req[r].org)]
LockOrganization_withoutLock(r) ==
    /\ At(r, "asked", OrgLockOps) /\ Unblocked(r)
    /\ Allowed(r) /\ ~NothingToChange(r)
    /\ req' = [req EXCEPT ![r] = Loaded(r)]
    /\ UNCHANGED <<tables, orgLock, invLock>>
LockOrganization(r) ==
    /\ At(r, "asked", OrgLockOps) /\ Unblocked(r)
    /\ Allowed(r) /\ ~NothingToChange(r)
    /\ orgLock' = [orgLock EXCEPT ![req[r].org] = r]
    /\ req' = [req EXCEPT ![r] = Loaded(r)]
    /\ UNCHANGED <<tables, invLock>>

RoleUnchanged(r) ==
    At(r, "asked", OrgLockOps) /\ Unblocked(r) /\ Allowed(r) /\ NothingToChange(r)
    /\ Finish(r, "ok")

MembershipRefused(r) ==
    At(r, "asked", OrgLockOps) /\ Unblocked(r) /\ ~Allowed(r) /\ Finish(r, "refused")

ChangeRole(r) ==
    LET o == req[r].org  u == req[r].target IN
    /\ At(r, "locked", {"change_role"})
    /\ member[o][u] # "none"
    /\ member' = [member EXCEPT ![o][u] = req[r].role]
    /\ Answer(r, "ok")
    /\ UNCHANGED <<org, invitation, account>>

(* update_role: "membership ... disappeared under the organization lock". *)
MemberDisappeared(r) ==
    /\ At(r, "locked", {"change_role"})
    /\ member[req[r].org][req[r].target] = "none"
    /\ Finish(r, "failed")

RemoveMember(r) ==
    /\ At(r, "locked", {"remove"})
    /\ member' = [member EXCEPT ![req[r].org][req[r].target] = "none"]
    /\ Answer(r, "ok")
    /\ UNCHANGED <<org, invitation, account>>

(* The pending invitation of the address, if any, is replaced. *)
Invite(r) ==
    LET o == req[r].org  email == req[r].target IN
    /\ At(r, "locked", {"invite"}) /\ Unblocked(r)
    /\ \E new \in Invitations :
         /\ invitation[new].status = "unused"
         /\ invitation' = [i \in Invitations |->
              CASE i = new -> [status |-> "pending", org |-> o, email |-> email, role |-> req[r].role]
                [] i \in PendingFor(o, email) -> [invitation[i] EXCEPT !.status = "revoked"]
                [] OTHER -> invitation[i]]
    /\ Answer(r, "ok")
    /\ UNCHANGED <<org, member, account>>

RevokeInvitation(r) ==
    LET i == req[r].inv IN
    /\ At(r, "locked", {"revoke"}) /\ Unblocked(r)
    /\ invitation' = [invitation EXCEPT ![i].status = IF @ = "pending" THEN "revoked" ELSE @]
    /\ Answer(r, "ok")
    /\ UNCHANGED <<org, member, account>>

----------------------------------------------------------------------------
(* accept: lock the invitation, then the organization. *)

IsPending_always(i) == TRUE
IsPending(i) == invitation[i].status = "pending"

LockInvitation(r) ==
    /\ At(r, "asked", {"accept"}) /\ Unblocked(r)
    /\ IsPending(req[r].inv)
    /\ invLock' = [invLock EXCEPT ![req[r].inv] = r]
    /\ req' = [req EXCEPT ![r].pc = "holding"]
    /\ UNCHANGED <<tables, orgLock>>

(* InvalidInvitation; InvitationExpired; EmailNotVerified. *)
InvitationRefused(r) == At(r, "asked", {"accept"}) /\ Unblocked(r) /\ Finish(r, "refused")

Admits(r) ==
    LET i == invitation[req[r].inv] IN
    org[i.org] = "active" /\ i.email = req[r].actor /\ member[i.org][req[r].actor] = "none"

Accept(r) ==
    LET i == req[r].inv IN
    /\ At(r, "holding", {"accept"}) /\ Unblocked(r)
    /\ Admits(r)
    /\ member' = [member EXCEPT ![invitation[i].org][req[r].actor] = invitation[i].role]
    /\ invitation' = [invitation EXCEPT ![i].status = "accepted"]
    /\ Answer(r, "ok")
    /\ UNCHANGED <<org, account>>

(* InvalidInvitation, InvitationEmailMismatch or AlreadyMember. *)
AcceptRefused(r) ==
    At(r, "holding", {"accept"}) /\ Unblocked(r) /\ ~Admits(r) /\ Finish(r, "refused")

----------------------------------------------------------------------------
(* delete_account: release_memberships counts first and locks afterwards. *)

OwnedBy(u) == {o \in Organizations : org[o] = "active" /\ member[o][u] = "owner"}

ReadOwned(r) ==
    LET u == req[r].actor IN
    /\ At(r, "asked", {"delete_account"})
    /\ account[u] = "active"
    /\ req' = [req EXCEPT ![r] = [@ EXCEPT !.pc = "counted", !.toLock = OwnedBy(u),
                 !.blocking = \E o \in OwnedBy(u) : Owners(o) = {u} /\ Members(o) # {u},
                 !.solo = {o \in OwnedBy(u) : Members(o) = {u}}]]
    /\ UNCHANGED <<tables, orgLock, invLock>>

(* SessionRevoked or IncorrectPassword. *)
DeletionRefused(r) == At(r, "asked", {"delete_account"}) /\ Finish(r, "refused")

(* lock_active of one owned organization after the other, in the order of  *)
(* their identifiers; one deleted in the meantime is not locked.           *)
LockOwned_anyOrder(r) ==
    /\ At(r, "counted", {"delete_account"})
    /\ \E o \in req[r].toLock :
         /\ orgLock[o] = Nobody
         /\ orgLock' = [orgLock EXCEPT ![o] = IF org[o] = "active" THEN r ELSE @]
         /\ req' = [req EXCEPT ![r].toLock = @ \ {o}]
    /\ UNCHANGED <<tables, invLock>>
LockOwned(r) ==
    /\ At(r, "counted", {"delete_account"}) /\ Unblocked(r)
    /\ req[r].toLock # {}
    /\ LET o == Least(req[r].toLock) IN
         /\ orgLock' = [orgLock EXCEPT ![o] = IF org[o] = "active" THEN r ELSE @]
         /\ req' = [req EXCEPT ![r].toLock = @ \ {o}]
    /\ UNCHANGED <<tables, invLock>>

DeleteAccount(r) ==
    LET u == req[r].actor IN
    /\ At(r, "counted", {"delete_account"}) /\ req[r].toLock = {}
    /\ ~req[r].blocking
    /\ org' = [o \in Organizations |-> IF o \in req[r].solo THEN "deleted" ELSE org[o]]
    /\ member' = [o \in Organizations |-> [member[o] EXCEPT ![u] = "none"]]
    /\ account' = [account EXCEPT ![u] = "deleted"]
    /\ Answer(r, "ok")
    /\ UNCHANGED invitation

(* SoleOwnerOfOrganization. *)
SoleOwner(r) ==
    At(r, "counted", {"delete_account"}) /\ req[r].toLock = {} /\ req[r].blocking
    /\ Finish(r, "refused")

----------------------------------------------------------------------------
(* PostgreSQL ends one of the transactions that wait for each other. *)
DeadlockVictim(r) ==
    /\ \E q \in Requests : WaitsFor(r, q) /\ WaitsFor(q, r)
    /\ Finish(r, "failed")

(* Any transaction may fail before it commits. *)
Abort(r) == req[r].pc \notin {"idle", "done"} /\ Finish(r, "failed")

Step(r) ==
    \/ CreateOrganization(r) \/ RenameOrganization(r) \/ DeleteOrganization(r)
    \/ LockOrganization(r) \/ RoleUnchanged(r) \/ MembershipRefused(r)
    \/ ChangeRole(r) \/ MemberDisappeared(r) \/ RemoveMember(r)
    \/ Invite(r) \/ RevokeInvitation(r)
    \/ LockInvitation(r) \/ InvitationRefused(r) \/ Accept(r) \/ AcceptRefused(r)
    \/ ReadOwned(r) \/ DeletionRefused(r) \/ LockOwned(r) \/ DeleteAccount(r) \/ SoleOwner(r)
    \/ DeadlockVictim(r)

Quiescent == (\A r \in Requests : req[r].pc = "done") /\ UNCHANGED vars

Next == (\E r \in Requests : Ask(r) \/ Step(r) \/ Abort(r)) \/ Quiescent

Spec == Init /\ [][Next]_vars

(* A request in progress is resumed whenever its next statement can run,   *)
(* and the database ends a deadlock.                                       *)
FairSpec == Spec /\ \A r \in Requests : WF_vars(Step(r))

----------------------------------------------------------------------------
(* An organization always keeps at least one owner, whoever demotes,       *)
(* removes or leaves at the same moment.                                   *)
OwnerKept == \A o \in Organizations : org[o] = "active" => Owners(o) # {}

(* Whoever demotes, removes, leaves or deletes at the same moment, an      *)
(* organization that stays loses its last owner only with the account of   *)
(* an owner: of the last one, or of one that the request which takes the   *)
(* last one had counted before.                                            *)
OwnerGoesWithAccount ==
    [][\A o \in Organizations :
         org[o] = "active" /\ org'[o] = "active" /\ Owners(o) # {} /\ Owners(o)' = {} =>
            \E u \in Users :
               /\ account'[u] = "deleted"
               /\ \/ u \in Owners(o)
                  \/ \E r \in Requests : /\ req[r].pc = "locked" /\ req'[r].pc = "done"
                                         /\ req[r].org = o /\ u \in req[r].owners]_vars

(* Memberships change only by right: a user joins by using up a pending    *)
(* invitation of its own address with that role, or as the founder; it     *)
(* leaves by itself; or somebody above the old role and the new one        *)
(* changes it, who still has that standing unless its own account was      *)
(* deleted meanwhile.  A deleted organization stays deleted and nobody     *)
(* gets a role in it any more.                                             *)
ChangedByRight ==
    [][\A o \in Organizations, u \in Users :
         LET old == member[o][u]  new == member'[o][u] IN
         /\ org[o] = "deleted" => org'[o] = "deleted" /\ new \in {old, "none"}
         /\ old # new =>
            IF old = "none"
            THEN \/ org[o] = "none" /\ new = "owner"
                 \/ /\ org[o] = "active"
                    /\ \E i \in PendingFor(o, u) : /\ invitation[i].role = new
                                                   /\ invitation'[i].status = "accepted"
            ELSE \E r \in Requests :
                   /\ req[r].pc # "done" /\ req'[r].pc = "done"
                   /\ \/ req[r].actor = u /\ new = "none"
                      \/ /\ req[r].actor # u /\ Outranks(req[r].standing, old)
                         /\ new # "none" => Outranks(req[r].standing, new)
                         /\ \/ member[o][req[r].actor] = req[r].standing
                            \/ account[req[r].actor] = "deleted"]_vars

(* A link works once: an invitation that was accepted or revoked keeps     *)
(* that outcome, and only a member's own pending one makes it a member.    *)
InvitationUsedOnce ==
    [][\A i \in Invitations :
         invitation[i].status \in {"accepted", "revoked"} =>
            /\ invitation'[i] = invitation[i]
            /\ \A r \in Requests : req[r].inv = i /\ req[r].op = "accept" => req'[r].answer # "ok"]_vars

(* The tables stay well-formed, and the order of the locks is sound: only  *)
(* accepting an invitation, which takes them the other way round, can      *)
(* deadlock with another request.                                          *)
OnlyAcceptDeadlocks ==
    TypeOK /\ \A r, q \in Requests :
        WaitsFor(r, q) /\ WaitsFor(q, r) => "accept" \in {req[r].op, req[q].op}

(* Every request is answered, by the victim of a deadlock too. *)
EveryRequestAnswered ==
    \A r \in Requests : req[r].pc = "asked" ~> req[r].pc = "done"

=============================================================================
