-------------------------------- MODULE Http --------------------------------
(***************************************************************************)
(* A request on its way through the API: the middleware, the router, the    *)
(* body, the dependencies one by one, the rate limits, the checks of the    *)
(* service, and the answer on its way back.  Every await is a step of its   *)
(* own: meanwhile other requests run, the role of the caller changes, the   *)
(* session is revoked, time passes and the store of the limiter fails.      *)
(***************************************************************************)
EXTENDS Routes, RateLimit, FiniteSets, TLC

CONSTANTS
    Requests,      \* identities of requests
    Probed,        \* names of the routes whose requests run concurrently
    MAX_CHANGES,   \* bound on the changes of role, session, store and time
    MAX_WITHDRAWN, \* how many of them may be to the role or the session
    Mixed          \* whether requests of all kinds run concurrently, see Arrive

ASSUME HttpAssumption == MAX_CHANGES \in Nat /\ MAX_WITHDRAWN \in Nat /\ Mixed \in BOOLEAN

VARIABLES
    calls,         \* Requests -> where the request is, and what it was given
    role,          \* the caller's role in the organization, None for a stranger
    session,       \* whether the session behind the caller's token and cookie is live
    changes        \* how many changes were made
vars == <<calls, role, session, changes, limitVars>>

-----------------------------------------------------------------------------
(* Roles and their permissions.                                             *)

VIEWER == {"ORGANIZATION_READ", "MEMBER_READ", "PROJECT_READ", "REQUIREMENT_READ", "ARCHITECTURE_READ"}
MEMBER ==
    VIEWER \union {"PROJECT_CREATE", "PROJECT_UPDATE", "REQUIREMENT_CREATE", "REQUIREMENT_UPDATE",
                   "REQUIREMENT_DELETE", "REQUIREMENT_SET_CREATE", "ARCHITECTURE_CREATE", "ARCHITECTURE_UPDATE",
                   "ARCHITECTURE_VALIDATE", "ARCHITECTURE_ANALYZE", "ARCHITECTURE_SIMULATE", "ARCHITECTURE_EVOLVE",
                   "ARCHITECTURE_DISCOVER", "ARCHITECTURE_DRIFT", "MIGRATION_PLAN"}
ADMIN ==
    MEMBER \union {"ORGANIZATION_UPDATE", "MEMBER_INVITE", "MEMBER_REMOVE", "MEMBER_UPDATE_ROLE", "AUDIT_READ",
                   "PRICING_MANAGE", "PROJECT_ARCHIVE", "PROJECT_DELETE", "PROJECT_POLICY_UPDATE",
                   "ARCHITECTURE_DELETE", "MIGRATION_APPROVE"}
OWNER == ADMIN \union {"ORGANIZATION_DELETE"}
ROLE_PERMISSIONS == [viewer |-> VIEWER, member |-> MEMBER, admin |-> ADMIN, owner |-> OWNER]
Roles == DOMAIN ROLE_PERMISSIONS
has_permission(r, permission) == permission = None \/ permission \in ROLE_PERMISSIONS[r]

-----------------------------------------------------------------------------
(* The limits of a route.                                                   *)

\* The dimensions a call is counted on: those of the policy it has a value for.
Limits(limit) ==
    IF limit.action = None THEN <<>> ELSE SelectSeq(POLICIES(limit.action), LAMBDA d : d.on \in limit.told)
Key(limit, dimension) == <<limit.action, dimension.on>>

\* Computed from the tables: a key has one rule, which lets calls in.
ASSUME LimitFacts ==
    \A i \in 1..Len(Routes) :
       LET limits == Limits(Routes[i].limit)
       IN  /\ Len(limits) \in Nat
           /\ \A k \in 1..Len(limits) :
                /\ limits[k].limit \in Nat /\ limits[k].limit > 1 /\ limits[k].window \in Nat \ {0}
                /\ PolicyOf(Key(Routes[i].limit, limits[k])) = limits[k]

-----------------------------------------------------------------------------
(* The router.                                                              *)

\* A parameter takes any segment; whether its value has the declared type is
\* found out with the other inputs of the route.
Matches(pattern, path) ==
    /\ Len(pattern) = Len(path)
    /\ \A i \in 1..Len(pattern) : pattern[i] \in {Id, Number, Str} \/ pattern[i] = path[i]
Matching(path) == {i \in 1..Len(Routes) : Matches(Routes[i].path, path)}
Dispatch(method, path) ==
    LET full == {i \in Matching(path) : Routes[i].method = method}
    IN  IF full # {} THEN Min(full) ELSE 0
Typed(pattern, path) ==
    \A i \in 1..Len(pattern) :
       /\ pattern[i] = Id => path[i] = "uuid"
       /\ pattern[i] = Number => path[i] = "7"

\* Bodies, in KiB: the default limit and the routes that take more.
KiB(n) == n
LargerBodies(method, path) ==
    CASE method = "POST" /\ path = <<"projects", "uuid", "architectures">> -> KiB(2048)
      [] method = "PUT" /\ path = <<"projects", "uuid", "architectures", "uuid", "content">> -> KiB(2048)
      [] method = "POST" /\ path = <<"organizations", "uuid", "pricing-snapshots">> -> KiB(2048)
      [] method = "POST" /\ path = <<"projects", "uuid", "discovery-runs">> -> KiB(6144)
      [] OTHER -> KiB(64)

-----------------------------------------------------------------------------
(* Answers.                                                                 *)

\* A request passes the layers from the first to the last, its answer the
\* layers outside the place where it was made.
Layers_bodyFirst == <<"body", "id", "logging", "security", "cors">>
Layers == <<"id", "logging", "security", "body", "cors">>
Outside(layer) == {Layers[i] : i \in 1..(CHOOSE i \in 1..Len(Layers) : Layers[i] = layer)}
PassedBy(place) ==
    CASE place = "route" -> Range(Layers)
      [] place = "body" -> Outside("body") \ {"body"}
      [] place = "server" -> {}
HeadersOf(place) ==
    (IF "id" \in PassedBy(place) THEN {"X-Request-ID"} ELSE {})
    \union (IF "security" \in PassedBy(place) THEN {"security"} ELSE {})
    \union (IF "cors" \in PassedBy(place) THEN {"cors"} ELSE {})
Answer(status, code, place, extra, cookie) ==
    [status |-> status, code |-> code, headers |-> HeadersOf(place) \union extra, cookie |-> cookie,
     logged |-> IF "logging" \in PassedBy(place) THEN status ELSE 500, retry |-> 0]

\* Domain error -> status; errors that are not listed are 400.
NotFound ==
    {"SessionNotFound", "OrganizationNotFound", "MemberNotFound", "InvitationNotFound", "InvalidInvitation",
     "ProjectNotFound", "RequirementNotFound", "RequirementVersionNotFound", "RequirementSetNotFound",
     "RequirementAnalysisNotFound", "ArchitectureNotFound", "ArchitectureRevisionNotFound", "ValidationRunNotFound",
     "CapacityAnalysisNotFound", "PricingSnapshotNotFound", "CostAnalysisNotFound", "ReliabilityAnalysisNotFound",
     "SecurityAnalysisNotFound", "ObservabilityAnalysisNotFound", "SimulationNotFound", "EvolutionAnalysisNotFound",
     "CandidateNotFound", "DecisionNotFound", "ComponentNotFound", "MigrationPlanNotFound", "DiscoveryRunNotFound",
     "DriftAnalysisNotFound", "DriftItemNotFound"}
Conflicts ==
    {"RefreshConflict", "LastOwner", "SoleOwnerOfOrganization", "AlreadyMember", "ProjectArchived",
     "ProjectNotArchived", "ProjectSlugTaken", "RequirementVersionConflict", "InvalidStatusTransition",
     "RequirementLocked", "RequirementSetConflicts", "CandidateAlreadyPromoted", "ArchitectureNameTaken",
     "ArchitectureArchived", "ArchitectureNotArchived", "ArchitectureVersionConflict", "InvalidDecisionTransition",
     "InvalidPlanTransition", "PlanVersionMismatch", "StaleMigrationPlan", "ReviewedPlanNotReplaced",
     "InvalidDiscoveryTransition", "DiscoveryRunInUse", "InvalidDriftTransition", "InvalidReviewAction",
     "ProposalNotAcceptable", "AcceptedRunNotDeleted"}
Denied == {"AccountDisabled", "CsrfRejected", "PermissionDenied", "EmailNotVerified", "CannotChangeOwnRole",
           "RoleNotManageable", "InvitationEmailMismatch"}
NotSignedIn == {"InvalidCredentials", "InvalidRefreshToken", "SessionExpired", "SessionRevoked", "Unauthenticated",
                "InvalidAccessToken", "AccessTokenExpired"}
Unprocessable ==
    {"InvalidEmail", "InvalidName", "WeakPassword", "InvalidAvatarUrl", "NothingToUpdate", "InvalidOrganizationName",
     "OwnerInvitationNotAllowed", "InvalidCursor", "InvalidProjectName", "InvalidProjectDescription",
     "InvalidProjectSlug", "InvalidProjectSettings", "InvalidRequirement", "ChangeReasonRequired",
     "InvalidRequirementSet", "InvalidRequirementInput", "InvalidPromotion", "InvalidArchitecture",
     "InvalidArchitectureCommand", "InvalidArchitectureMetadata", "ArchitectureUnchanged", "InvalidRevision",
     "InvalidLayout", "InvalidArchitecturePolicy", "InvalidValidationConfig", "InvalidWorkload", "InvalidQuantity",
     "InvalidCapacityConfig", "InvalidScenario", "InvalidMoney", "InvalidPricingRecord", "InvalidPricingSnapshot",
     "InvalidCostRequest", "IncompatibleCapacityAnalysis", "InvalidReliabilityRequest", "InvalidSecurityRequest",
     "InvalidObservabilityRequest", "InvalidSimulationRequest", "InvalidEvolutionRequest", "InvalidDecision",
     "InvalidMigrationRequest", "InvalidDiscoveryRequest", "InvalidDriftRequest"}
StatusFor(error) ==
    CASE error \in NotFound -> 404
      [] error \in Conflicts -> 409
      [] error \in Denied -> 403
      [] error \in NotSignedIn -> 401
      [] error \in Unprocessable -> 422
      [] error = "InvitationExpired" -> 410
      [] error = "RateLimited" -> 429
      [] OTHER -> 400
BEARER_CHALLENGES == {"Unauthenticated", "InvalidAccessToken", "AccessTokenExpired", "SessionRevoked"}
\* Every error response carries the request's id by itself.
ErrorResponse(status, code, extra, cookie) == Answer(status, code, "route", {"X-Request-ID"} \union extra, cookie)
DomainErrorResponse(error, cookie) ==
    ErrorResponse(StatusFor(error), error, IF error \in BEARER_CHALLENGES THEN {"WWW-Authenticate"} ELSE {}, cookie)
RateLimited(retry) == [ErrorResponse(429, "RateLimited", {"Retry-After"}, "keep") EXCEPT !.retry = retry]
ValidationError == ErrorResponse(422, "validation_error", {}, "keep")
HttpError(status) == ErrorResponse(status, "http_error", {}, "keep")
PayloadTooLarge == Answer(413, "payload_too_large", "body", {"X-Request-ID"}, "keep")
\* Made outside every middleware, so it takes the headers along itself.
UnexpectedError == Answer(500, "internal_error", "server", {"X-Request-ID", "security"}, "keep")

-----------------------------------------------------------------------------
(* Requests.                                                                *)

Good == [token |-> "valid", origin |-> "app", ids |-> "valid", body |-> "valid", size |-> KiB(1), length |-> "declared",
         method |-> "own", path |-> "own"]
Faults ==
    {<<"token", "none">>, <<"token", "invalid">>, <<"token", "expired">>, <<"origin", "foreign">>, <<"origin", "no header">>,
     <<"ids", "junk">>, <<"body", "invalid">>, <<"body", "malformed">>, <<"method", "other">>, <<"path", "unknown">>,
     <<"length", "none">>, <<"length", "garbled">>}
Sizes == {KiB(1), KiB(1024), KiB(4096), KiB(8192)}
OneFault == {Good} \union {[Good EXCEPT ![f[1]] = f[2]] : f \in Faults}
                   \union {[Good EXCEPT !.size = s, !.length = l] : s \in Sizes, l \in {"declared", "none"}}
TwoFaults == {[Good EXCEPT ![f[1]] = f[2], ![g[1]] = g[2]] : f \in Faults, g \in Faults}
AnyFaults ==
    [token : {"valid", "none", "invalid", "expired"}, origin : {"app", "foreign", "no header"}, ids : {"valid", "junk"},
     body : {"valid", "invalid", "malformed"}, size : Sizes, length : {"declared", "none", "garbled"},
     method : {"own", "other"}, path : {"own", "unknown"}]
ProbedRoutes == {i \in 1..Len(Routes) : Routes[i].limit.action \in Probed}

\* The path of a request: its parameters have values.
PathTo(i, path, ids) ==
    IF path = "unknown" THEN <<"unknown">>
    ELSE [k \in 1..Len(Routes[i].path) |->
             CASE Routes[i].path[k] = Id -> IF ids = "junk" THEN "junk" ELSE "uuid"
               [] Routes[i].path[k] = Number -> IF ids = "junk" THEN "junk" ELSE "7"
               [] Routes[i].path[k] = Str -> "word"
               [] OTHER -> Routes[i].path[k]]
PathOf(c) == PathTo(c.meant, c.input.path, c.input.ids)
MethodTo(i, method) == IF method = "other" THEN "TRACE" ELSE Routes[i].method
MethodOf(c) == MethodTo(c.meant, c.input.method)

Idle == [stage |-> "idle"]
Init ==
    /\ calls = [r \in Requests |-> Idle]
    /\ role \in Roles \union {None}
    /\ session \in BOOLEAN
    /\ changes = 0 /\ LimitInit

\* Where a request is; the roles and sessions it lived through are kept for
\* the properties.
Call(r) == calls[r]
Going(r, stage) == Call(r).stage = stage
RouteOf(r) == Routes[Call(r).route]
Move(r, c) == calls' = [calls EXCEPT ![r] = c]
To(r, stage) == Move(r, [Call(r) EXCEPT !.stage = stage, !.at = 1])
Step(r) == Move(r, [Call(r) EXCEPT !.at = @ + 1])
Reply(r, answer) == Move(r, [Call(r) EXCEPT !.stage = "answered", !.answer = answer, !.left = session])
Refuse(r, error) == Reply(r, DomainErrorResponse(error, "keep"))
Unchanged == UNCHANGED <<role, session, changes, limitVars>>

\* Others that are under way live through a change of the role or session.
InFlight == {r \in Requests : Call(r).stage \notin {"idle", "answered"}}
Witnesses(roles, live) ==
    [r \in Requests |-> IF r \in InFlight THEN [Call(r) EXCEPT !.roles = @ \union roles, !.live = @ \union live]
                        ELSE Call(r)]
\* An answer that begins or ends the session.
ReplyAnd(r, answer, live) ==
    /\ session' = live
    /\ calls' = [Witnesses({}, {live}) EXCEPT
                   ![r] = [Call(r) EXCEPT !.stage = "answered", !.answer = answer, !.left = live]]

\* Bounds, unless requests are mixed: a request with a fault runs alone and
\* undisturbed, in a session that is live and with the limits in memory;
\* requests run together when they are the same request of a member.
Plain == session /\ store = "memory"
Alone == \A r \in Requests : Going(r, "idle")
Meant ==
    IF Mixed \/ Alone THEN 1..Len(Routes)
    ELSE {i \in ProbedRoutes : role = "member" /\ session /\
             \E q \in Requests : ~Going(q, "idle") /\ Call(q).input = Good /\ Call(q).meant = i}
Inputs(i) ==
    IF Mixed THEN AnyFaults
    ELSE IF ~Alone \/ ~Plain THEN {Good}
    ELSE OneFault \union (IF i \in ProbedRoutes THEN TwoFaults ELSE {})
Arrive(r) ==
    /\ Going(r, "idle")
    /\ \E meant \in Meant : \E input \in Inputs(meant) :
          /\ Move(r, [stage |-> "received", meant |-> meant, input |-> input, route |-> 0, at |-> 1, seen |-> None,
                      roles |-> {role}, live |-> {session}, answer |-> None, left |-> session])
          /\ changes' = IF Mixed \/ input = Good THEN changes ELSE MAX_CHANGES
    /\ UNCHANGED <<role, session, limitVars>>

-----------------------------------------------------------------------------
(* The steps of a request.                                                  *)

TooLarge(c) == c.input.size > LargerBodies(MethodOf(c), PathOf(c))

\* BodyLimitMiddleware, before anything is read.
CheckLength(r) ==
    /\ Going(r, "received")
    /\ \/ /\ Call(r).input.length = "garbled" \/ (Call(r).input.length = "declared" /\ TooLarge(Call(r)))
          /\ Reply(r, PayloadTooLarge)
       \/ /\ Call(r).input.length = "none" \/ (Call(r).input.length = "declared" /\ ~TooLarge(Call(r)))
          /\ To(r, "routing")
    /\ Unchanged

Match(r) ==
    /\ Going(r, "routing")
    /\ LET found == Dispatch(MethodOf(Call(r)), PathOf(Call(r)))
       IN  \/ found # 0 /\ Move(r, [Call(r) EXCEPT !.stage = "reading", !.route = found])
           \/ found = 0 /\ Matching(PathOf(Call(r))) # {} /\ Reply(r, HttpError(405))
           \/ found = 0 /\ Matching(PathOf(Call(r))) = {} /\ Reply(r, HttpError(404))
    /\ Unchanged

\* The body is read before any dependency; what exceeds the limit while it is
\* read is refused by FastAPI or by the middleware, depending on where it stops.
ReadBody(r) ==
    /\ Going(r, "reading")
    /\ \/ /\ RouteOf(r).body /\ TooLarge(Call(r))
          /\ \E answer \in {HttpError(400), PayloadTooLarge} : Reply(r, answer)
       \/ RouteOf(r).body /\ ~TooLarge(Call(r)) /\ Call(r).input.body = "malformed" /\ Reply(r, ValidationError)
       \/ ~RouteOf(r).body /\ To(r, "resolving")
       \/ RouteOf(r).body /\ ~TooLarge(Call(r)) /\ Call(r).input.body # "malformed" /\ To(r, "resolving")
    /\ Unchanged

Resolving(r, on) ==
    /\ Going(r, "resolving")
    /\ Call(r).at <= Len(RouteOf(r).before) /\ RouteOf(r).before[Call(r).at].on = on

RequireSameOrigin(r) ==
    /\ Resolving(r, "origin")
    /\ \/ Call(r).input.origin # "app" /\ Refuse(r, "CsrfRejected")
       \/ Call(r).input.origin = "app" /\ Step(r)
    /\ Unchanged

\* get_current_user: the token, then the session and account behind it.
GetCurrentUser_tokenOnly(r) ==
    /\ Resolving(r, "user")
    /\ \/ Call(r).input.token = "none" /\ Refuse(r, "Unauthenticated")
       \/ Call(r).input.token = "invalid" /\ Refuse(r, "InvalidAccessToken")
       \/ Call(r).input.token = "expired" /\ Refuse(r, "AccessTokenExpired")
       \/ Call(r).input.token = "valid" /\ Step(r)
    /\ Unchanged
GetCurrentUser(r) ==
    /\ Resolving(r, "user")
    /\ \/ Call(r).input.token = "none" /\ Refuse(r, "Unauthenticated")
       \/ Call(r).input.token = "invalid" /\ Refuse(r, "InvalidAccessToken")
       \/ Call(r).input.token = "expired" /\ Refuse(r, "AccessTokenExpired")
       \/ Call(r).input.token = "valid" /\ ~session /\ Refuse(r, "SessionRevoked")
       \/ Call(r).input.token = "valid" /\ session /\ Step(r)
    /\ Unchanged

\* The membership behind the organization or project of the path.  A
\* dependency whose own parameter is invalid is not called, nor are those
\* that need it.
Resolve(r) ==
    /\ Resolving(r, "membership") \/ Resolving(r, "project")
    /\ \/ Call(r).input.ids = "junk" /\ Move(r, [Call(r) EXCEPT !.at = Len(RouteOf(r).before) + 1])
       \/ /\ Call(r).input.ids = "valid" /\ role = None
          /\ Refuse(r, IF Resolving(r, "project") THEN "ProjectNotFound" ELSE "OrganizationNotFound")
       \/ /\ Call(r).input.ids = "valid" /\ role # None
          /\ Move(r, [Call(r) EXCEPT !.at = @ + 1, !.seen = role])
    /\ Unchanged

RequirePermission(r) ==
    /\ Resolving(r, "permission")
    /\ LET needed == RouteOf(r).before[Call(r).at].needs
       IN  \/ ~has_permission(Call(r).seen, needed) /\ Refuse(r, "PermissionDenied")
           \/ has_permission(Call(r).seen, needed) /\ Step(r)
    /\ Unchanged

Validate(r) ==
    /\ Going(r, "resolving") /\ Call(r).at > Len(RouteOf(r).before)
    /\ LET valid == /\ Typed(RouteOf(r).path, PathOf(Call(r)))
                    /\ RouteOf(r).body => Call(r).input.body = "valid"
       IN  \/ ~valid /\ Reply(r, ValidationError)
           \/ valid /\ To(r, "limiting")
    /\ Unchanged

\* RateLimits.enforce, one dimension after the other; a store that fails
\* lets the request pass.
Dimensions(r) == Limits(RouteOf(r).limit)
Enforce(r) ==
    /\ Going(r, "limiting") /\ Call(r).at <= Len(Dimensions(r))
    /\ LET dimension == Dimensions(r)[Call(r).at]
           key == Key(RouteOf(r).limit, dimension)
       IN  \/ TurnsAway(key, dimension) /\ Reply(r, RateLimited(RetryAfter(Counted(key, dimension))))
           \/ LetsIn(key, dimension) /\ Step(r)
    /\ UNCHANGED <<role, session, changes>>
EnforceUnavailable(r) ==
    /\ Going(r, "limiting") /\ Call(r).at <= Len(Dimensions(r)) /\ store = "down"
    /\ To(r, "checking") /\ Unchanged
Admit(r) ==
    /\ Going(r, "limiting") /\ Call(r).at > Len(Dimensions(r))
    /\ To(r, "checking") /\ Unchanged

\* The checks of the service; the route or the service may find the rest of
\* the request wrong before, between and after them.
Checks(r) == RouteOf(r).checks
Check(r) ==
    /\ Going(r, "checking") /\ Call(r).at <= Len(Checks(r))
    /\ LET check == Checks(r)[Call(r).at]
           held == IF check.fresh THEN role ELSE Call(r).seen
       IN  \E needed \in check.needs :
             \/ held = None /\ Refuse(r, "ProjectNotFound")
             \/ held # None /\ ~has_permission(held, needed) /\ Refuse(r, "PermissionDenied")
             \/ held # None /\ has_permission(held, needed) /\ Step(r)
    /\ Unchanged
\* Errors a service refuses with; the last is not listed.
ServiceErrors == {"ArchitectureNotFound", "InvitationExpired", "InvalidEngineResult"}
ServiceRefuses(r) ==
    /\ Going(r, "checking") /\ Call(r).at > Len(Checks(r))
    /\ \E error \in ServiceErrors : Refuse(r, error)
    /\ Unchanged
\* Anything that is not an error of the domain, at any point of the route.
Crash(r) ==
    /\ Going(r, "checking")
    /\ Reply(r, UnexpectedError) /\ Unchanged

Ready(r) == Going(r, "checking") /\ Call(r).at > Len(Checks(r))
Succeed(r, cookie) == \E status \in RouteOf(r).success : Reply(r, Answer(status, "ok", "route", {}, cookie))
Sessions == {login, refresh, logout, revoke_session, delete_account}
Serve(r) ==
    /\ Ready(r) /\ RouteOf(r) \notin Sessions
    /\ Succeed(r, "keep") /\ Unchanged
UnchangedBut == UNCHANGED <<role, changes, limitVars>>
SucceedAnd(r, cookie, live) ==
    \E status \in RouteOf(r).success : ReplyAnd(r, Answer(status, "ok", "route", {}, cookie), live)
Login(r) ==
    /\ Ready(r) /\ RouteOf(r) = login
    /\ \/ SucceedAnd(r, "set", TRUE)
       \/ Refuse(r, "InvalidCredentials") /\ UNCHANGED session
    /\ UnchangedBut
\* A token that was exchanged before ends its session when it comes again; a
\* dead cookie is dropped with the error.
Refresh_dropsOnConflict(r) ==
    /\ Ready(r) /\ RouteOf(r) = refresh
    /\ \/ session /\ Succeed(r, "set") /\ UNCHANGED session
       \/ session /\ Reply(r, DomainErrorResponse("RefreshConflict", "clear")) /\ UNCHANGED session
       \/ ReplyAnd(r, DomainErrorResponse("InvalidRefreshToken", "clear"), FALSE)
    /\ UnchangedBut
Refresh(r) ==
    /\ Ready(r) /\ RouteOf(r) = refresh
    /\ \/ session /\ Succeed(r, "set") /\ UNCHANGED session
       \/ session /\ Refuse(r, "RefreshConflict") /\ UNCHANGED session
       \/ ReplyAnd(r, DomainErrorResponse("InvalidRefreshToken", "clear"), FALSE)
    /\ UnchangedBut
\* logout, the deletion of the account, and the revocation of this session.
Leave(r) ==
    /\ Ready(r) /\ RouteOf(r) \in {logout, delete_account, revoke_session}
    /\ SucceedAnd(r, "clear", FALSE)
    /\ UnchangedBut
RevokeOther(r) ==
    /\ Ready(r) /\ RouteOf(r) = revoke_session
    /\ Succeed(r, "keep") /\ Unchanged

Handle(r) ==
    \/ CheckLength(r) \/ Match(r) \/ ReadBody(r) \/ RequireSameOrigin(r) \/ GetCurrentUser(r) \/ Resolve(r)
    \/ RequirePermission(r) \/ Validate(r) \/ Enforce(r) \/ EnforceUnavailable(r) \/ Admit(r) \/ Check(r)
    \/ ServiceRefuses(r) \/ Crash(r) \/ Serve(r) \/ Login(r) \/ Refresh(r) \/ Leave(r) \/ RevokeOther(r)

-----------------------------------------------------------------------------
(* What happens meanwhile.                                                  *)

\* Bounds: a change happens where a request can see it, while it resolves
\* its caller, asks the limiter or waits in the service.
At(stages) == \E r \in Requests : Call(r).stage \in stages
Seen == \E r \in InFlight : Call(r).route # 0 /\ SignedIn[1] \in Range(RouteOf(r).before)
Change(stages, bound) == changes < bound /\ At(stages) /\ changes' = changes + 1
ChangeRole ==
    /\ Change({"resolving", "checking"}, MAX_WITHDRAWN) /\ Seen
    /\ \E other \in Roles \union {None} : other # role /\ role' = other /\ calls' = Witnesses({other}, {})
    /\ UNCHANGED <<session, limitVars>>
RevokeSession ==
    /\ Change({"resolving", "checking"}, MAX_WITHDRAWN) /\ Seen /\ session
    /\ session' = FALSE /\ calls' = Witnesses({}, {FALSE})
    /\ UNCHANGED <<role, limitVars>>
Traffic ==
    /\ Change({"limiting"}, MAX_CHANGES)
    /\ \E r \in {q \in Requests : Going(q, "limiting")} : \E i \in 1..Len(Dimensions(r)) :
          UsedByOthers(Key(RouteOf(r).limit, Dimensions(r)[i]), Dimensions(r)[i])
    /\ UNCHANGED <<calls, role, session>>
LimiterChanges ==
    /\ Change({"limiting"}, MAX_CHANGES)
    /\ TimePasses \/ StoreFails \/ StoreRecovers
    /\ UNCHANGED <<calls, role, session>>

Finished == InFlight = {} /\ ~Alone /\ UNCHANGED vars
Next ==
    \/ \E r \in Requests : Arrive(r) \/ Handle(r)
    \/ ChangeRole \/ RevokeSession \/ Traffic \/ LimiterChanges
    \/ Finished
Spec == Init /\ [][Next]_vars

-----------------------------------------------------------------------------
(* What the answers promise.                                                *)

Answered(r) == Going(r, "answered")
Successful(answer) == answer.status \in 200..299

\* The documented roles: viewers read, members change, admins and owners
\* manage, and only owners delete the organization.
Rank == [viewer |-> 1, member |-> 2, admin |-> 3, owner |-> 4]
Managing == {update_organization, change_role, list_invitations, create_invitation, revoke_invitation, audit_log,
             create_pricing_snapshot, put_architecture_policy, archive_project, restore_project, delete_project,
             delete_architecture, approve_plan, reject_plan}
LeastRole(route) ==
    CASE route = delete_organization -> 4
      [] route \in Managing -> 3
      [] route \notin Managing /\ (route.method = "GET" \/ route \in {validate_requirement, remove_member}) -> 1
      [] OTHER -> 2
Scoped(route) == Len(route.path) > 1 /\ route.path[1] \in {"organizations", "projects"}
Entitled(route, r) == r # None /\ Rank[r] >= LeastRole(route)
\* Every request is answered once, by the route it means, with its id and the
\* security headers, and is logged with the status that was sent.
AnsweredAsMeant(c) ==
    /\ c.route # 0 => c.route = c.meant
    /\ c.route = 0 => c.answer.status \in {404, 405, 413}
    /\ {"X-Request-ID", "security"} \subseteq c.answer.headers
    /\ c.answer.logged = c.answer.status
\* Nothing succeeds for a caller who was not signed in, or not entitled to
\* it at any moment since the request came; a refusal has a reason that was
\* true meanwhile, and tells a stranger nothing but "not found".  The cookie
\* is set when its answer leaves a live session, and dropped only when it
\* leaves none.
AnsweredByRight(c) ==
    LET route == Routes[c.meant]
        refused == c.answer.code
    IN  /\ Successful(c.answer) =>
             /\ c.input.ids = "valid" \/ Typed(route.path, PathOf(c))
             /\ c.input.method = "own" /\ c.input.path = "own"
             /\ route.body => c.input.body = "valid" /\ ~TooLarge(c)
             /\ SignedIn[1] \in Range(route.before) => c.input.token = "valid" /\ TRUE \in c.live
             /\ SameOrigin[1] \in Range(route.before) => c.input.origin = "app"
             /\ Scoped(route) => \E r \in c.roles : Entitled(route, r)
        /\ refused = "PermissionDenied" => \E r \in c.roles \ {None} : route = remove_member \/ ~Entitled(route, r)
        /\ refused \in {"ProjectNotFound", "OrganizationNotFound"} => None \in c.roles
        /\ refused = "SessionRevoked" => FALSE \in c.live
        /\ Scoped(route) /\ c.roles = {None} => c.answer.status \in {401, 404, 405, 413, 400, 422, 429, 500}
        /\ c.answer.status = 413 => TooLarge(c) \/ c.input.length = "garbled"
        /\ c.answer.cookie = "clear" => ~c.left
        /\ c.answer.cookie = "set" => c.left
\* Every answer of the API is the one its request deserves: both of the above.
AnswersExact == \A r \in Requests : Answered(r) => AnsweredAsMeant(Call(r)) /\ AnsweredByRight(Call(r))

-----------------------------------------------------------------------------
(* Facts of the tables, each found by computing it for every route.         *)

Behind(route) == {k \in DOMAIN route.before : route.before[k].on \in {"membership", "project"}}
\* A permission lets in only whom the route is for, or refuses only others.
Suffices(route, needed) == \A r \in Roles : has_permission(r, needed) => Entitled(route, r)
Fails(route, needed) == \A r \in Roles : ~has_permission(r, needed) => route = remove_member \/ ~Entitled(route, r)

ASSUME InputFacts == OneFault \union TwoFaults \subseteq AnyFaults
\* No route takes the requests of another.
ASSUME DispatchFacts ==
    \A i \in 1..Len(Routes), method \in {"own", "other"}, path \in {"own", "unknown"}, ids \in {"valid", "junk"} :
       /\ Dispatch(MethodTo(i, method), PathTo(i, path, ids)) \in {0, i}
       /\ Dispatch(MethodTo(i, method), PathTo(i, path, ids)) # 0 => method = "own" /\ path = "own"
\* What a route asks of its caller.
ASSUME RouteFacts ==
    \A i \in 1..Len(Routes) :
       LET route == Routes[i]
       IN  /\ Len(route.before) \in Nat /\ DOMAIN route.before = 1..Len(route.before) /\ Len(route.checks) \in Nat
           /\ route.success \subseteq 200..299
           /\ Behind(route) # {} => ~Typed(route.path, PathTo(i, "own", "junk"))
           /\ \A k \in 1..Len(route.before) :
                route.before[k].on = "permission" =>
                   (\E j \in Behind(route) : j < k) /\ Fails(route, route.before[k].needs)
           /\ \A k \in 1..Len(route.checks) :
                /\ route.checks[k].fresh \/ Behind(route) # {}
                /\ \A needed \in route.checks[k].needs : Fails(route, needed)
           /\ Scoped(route) =>
                /\ \A k \in 1..Len(route.before) : route.before[k].on # "origin"
                /\ \/ \E k \in 1..Len(route.before) :
                        route.before[k].on = "permission" /\ Suffices(route, route.before[k].needs)
                   \/ \E k \in 1..Len(route.checks) :
                        \A needed \in route.checks[k].needs : Suffices(route, needed)

\* The requests are interchangeable.
Symmetry == Permutations(Requests)
=============================================================================
