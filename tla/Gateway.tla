------------------------------ MODULE Gateway ------------------------------
(***************************************************************************)
(* The orchestrator as the gateway of the web application: AuthGuard with  *)
(* the caches of ClerkAuthService, IdentityService, the validation and the *)
(* permission check of a controller, the clients of the internal services  *)
(* and the mapping of every failure to one answer.                         *)
(*                                                                         *)
(* One user with one session token and one workspace.  Requests overlap at *)
(* every await.  Meanwhile time passes, the token expires, the user's role *)
(* and verified address change, other users fill the caches, and Clerk and *)
(* the internal services fail.  The internal service behind the gateway    *)
(* deduplicates by Idempotency-Key (module Workspaces).                    *)
(***************************************************************************)
EXTENDS Naturals, TLC

CONSTANTS Request,     \* requests, in flight at the same time
          Exercised,   \* the routes they call
          Assigned,    \* the roles the user is given
          Email,       \* verified addresses
          Invited,     \* the address that the invitation is for
          DevEmail,    \* the address of the development user
          None,        \* nothing: no cache entry, no address, no key
          TokenTtl,    \* tokenCacheTtlMs
          EmailTtl,    \* membershipCacheTtlMs
          Latency,     \* longest time a call to Clerk takes
          MaxTime,     \* bound: clock
          MaxChanges,  \* bound: changes of role, address and caches
          MaxFaults    \* bound: failures of Clerk and of internal services

\* A lifetime of 0 is not taken from the environment (parsePositiveInt).
ASSUME GatewayAssumption ==
  /\ {TokenTtl, EmailTtl} \subseteq Nat \ {0}
  /\ {Latency, MaxTime, MaxChanges, MaxFaults} \subseteq Nat
  /\ None \notin Request \cup Email \cup {DevEmail} /\ Invited \in Email
  /\ Assigned \subseteq {"none", "viewer", "auditor", "approver", "engineer", "admin"}

VARIABLES clock, exp,            \* the token is valid while clock <= exp
          role, elsewhere,       \* role in the workspace; a member of another one
          email,                 \* the verified primary address at Clerk
          lastHeld,              \* history: when each address was last the verified one
          tokenCache, emailCache,
          req,                   \* the requests
          held, denied,          \* history: permitted / refused at some time since it arrived
          keys,                  \* Idempotency-Keys the internal service has applied
          applied,               \* history: how often each client's mutation was applied
          trespass,              \* history: one was applied for a caller never permitted
          bypass, changes, faults

world == <<clock, exp, role, elsewhere, email, lastHeld, bypass, changes>>
vars == <<clock, exp, role, elsewhere, email, lastHeld, tokenCache, emailCache, req,
          held, denied, keys, applied, trespass, bypass, changes, faults>>

-----------------------------------------------------------------------------
(* Routes and permissions.                                                 *)

Role == {"none", "viewer", "auditor", "approver", "engineer", "admin"}

rolePermissions ==
  [none |-> {}, viewer |-> {"chat_session.view", "provisioning_run.view"},
   approver |-> {"approval_ticket.decide", "provisioning_run.view"},
   auditor |-> {"audit_event.view", "provisioning_run.view", "manifest.view", "artifact.view"},
   engineer |-> {"cloud_account.create", "cloud_account.view", "cloud_account.update",
                 "cloud_account.delete", "chat_session.create", "chat_session.view",
                 "chat_session.update", "chat_session.delete", "provisioning_run.create",
                 "provisioning_run.view", "manifest.view", "artifact.view"},
   admin |-> {}]
isActionAllowed(r, permission) == r = "admin" \/ permission \in rolePermissions[r]

\* permission: asked of the workspace service before the call, None if the
\* route asks for none; anyone: AllowNoWorkspaceMembership; mutates: sends the
\* caller's Idempotency-Key on.
Guarded(permission, mutates) ==
  [permission |-> permission, anyone |-> FALSE, mutates |-> mutates, kind |-> "forward"]
Invitee(mutates) == [permission |-> None, anyone |-> TRUE, mutates |-> mutates, kind |-> "forward"]
Unfinished == [permission |-> None, anyone |-> FALSE, mutates |-> FALSE, kind |-> "todo"]

MemberRoutes ==
  [members_list |-> Guarded("member.list", FALSE), members_add |-> Guarded("member.add", TRUE),
   members_update |-> Guarded("member.update_role", TRUE),
   members_remove |-> Guarded("member.remove", TRUE)]
InvitationRoutes ==
  [invitations_create |-> Guarded("invitation.create", TRUE),
   invitations_list |-> Guarded("invitation.list", FALSE),
   invitations_get |-> Guarded("invitation.view", FALSE),
   invitations_revoke |-> Guarded("invitation.revoke", TRUE)]
InviteeRoutes ==
  [invitation_lookup |-> Invitee(FALSE),
   invitation_accept |-> [Invitee(TRUE) EXCEPT !.kind = "accept"]]
CloudRoutes ==
  [cloud_list |-> Guarded("cloud_account.view", FALSE),
   cloud_get |-> Guarded("cloud_account.view", FALSE),
   cloud_create |-> Guarded("cloud_account.create", TRUE),
   cloud_remove |-> Guarded("cloud_account.delete", TRUE),
   cloud_verify |-> [Guarded("cloud_account.update", TRUE) EXCEPT !.kind = "resolve"],
   cloud_template |-> [Guarded("cloud_account.view", FALSE) EXCEPT !.kind = "todo"]]
CapabilityRoutes ==
  [capabilities |-> [Guarded("cloud_account.view", FALSE) EXCEPT !.kind = "capabilities"]]
PermissionRoutes ==
  [permissions_check |-> [Invitee(FALSE) EXCEPT !.anyone = FALSE]]
UnfinishedRoutes ==
  [approvals |-> Unfinished, artifacts |-> Unfinished, workspace_update |-> Unfinished]
PublicRoutes == {"health"}

RouteOf(name) ==
  CASE name \in DOMAIN MemberRoutes -> MemberRoutes[name]
    [] name \in DOMAIN InvitationRoutes -> InvitationRoutes[name]
    [] name \in DOMAIN InviteeRoutes -> InviteeRoutes[name]
    [] name \in DOMAIN CloudRoutes -> CloudRoutes[name]
    [] name \in DOMAIN CapabilityRoutes -> CapabilityRoutes[name]
    [] name \in DOMAIN PermissionRoutes -> PermissionRoutes[name]
    [] OTHER -> UnfinishedRoutes[name]

Permits(name, r) ==
  LET permission == RouteOf(name).permission IN permission = None \/ isActionAllowed(r, permission)
\* The caller lacks the permission of the route, or belongs to no workspace.
Refusable(name) == ~Permits(name, role) \/ (role = "none" /\ ~elsewhere)

-----------------------------------------------------------------------------
(* Answers.  Every failure ends in the exception filter with one status.   *)

Idle == [at |-> "idle", route |-> None, key |-> None, since |-> 0, email |-> None,
         overdue |-> 0, emailAge |-> 0, told |-> FALSE, status |-> 0]
At(r, point) == req' = [req EXCEPT ![r].at = point]
\* told: the answer says that the mutation was applied.
Answered(r, status, told) ==
  [req EXCEPT ![r] = [Idle EXCEPT !.at = "done", !.route = req[r].route, !.key = req[r].key,
                                  !.email = IF status = 403 THEN req[r].email ELSE None,
                                  !.status = status, !.told = told]]
Answer(r, status) == req' = Answered(r, status, FALSE)
ErrorStatus == [Unauthorized |-> 401, Forbidden |-> 403, NotFound |-> 404, Validation |-> 400,
                NotImplemented |-> 501, Dependency |-> 502, Internal |-> 500]
Fail(r, error) == Answer(r, ErrorStatus[error])
Fault == faults < MaxFaults /\ faults' = faults + 1
cachesSame == UNCHANGED <<tokenCache, emailCache>>
service == <<keys, applied, trespass>>
rest == UNCHANGED <<world, held, denied, service>>

-----------------------------------------------------------------------------
(* AuthGuard.                                                              *)

\* The development bypass acts as DEV_USER_ID, with an address of its own.
Entering(name, k) ==
  IF bypass THEN [Idle EXCEPT !.route = name, !.key = k, !.at = "validate", !.email = DevEmail]
  ELSE [Idle EXCEPT !.route = name, !.key = k, !.at = "token"]

Arrive(r, name, k) ==
  /\ req[r].at = "idle" /\ name \in Exercised
  /\ IF name \in PublicRoutes
     THEN k = None /\ req' = [req EXCEPT ![r] = [Idle EXCEPT !.at = "done", !.route = name, !.status = 200]]
     ELSE /\ (k = None) = ~RouteOf(name).mutates
          /\ req' = [req EXCEPT ![r] =
               Entering(name, k)]
  /\ held' = [held EXCEPT ![r] = name \notin PublicRoutes /\ Permits(name, role)]
  /\ denied' = [denied EXCEPT ![r] = name \notin PublicRoutes /\ Refusable(name)]
  /\ cachesSame /\ UNCHANGED <<world, service, faults>>

NoToken(r) == req[r].at = "token" /\ Fail(r, "Unauthorized") /\ cachesSame /\ rest /\ UNCHANGED faults

\* History: for how long the token had expired when it opened the guard.
Overdue == IF clock > exp THEN clock - exp ELSE 0
TokenFresh == tokenCache # None /\ clock < tokenCache + TokenTtl
\* A cached token is taken without another look at its expiry.
CachedToken(r) ==
  /\ req[r].at = "token" /\ TokenFresh
  /\ req' = [req EXCEPT ![r].at = "email", ![r].since = 0, ![r].overdue = Overdue]
  /\ cachesSame /\ rest /\ UNCHANGED faults

\* now is read before the SDK is asked.
VerifyToken(r) ==
  /\ req[r].at = "token" /\ ~TokenFresh
  /\ req' = [req EXCEPT ![r].at = "verifying", ![r].since = clock]
  /\ cachesSame /\ rest /\ UNCHANGED faults

TokenVerified(r) ==
  /\ req[r].at = "verifying" /\ clock <= exp
  /\ tokenCache' = req[r].since
  /\ req' = [req EXCEPT ![r].at = "email", ![r].since = 0, ![r].overdue = Overdue]
  /\ rest /\ UNCHANGED <<emailCache, faults>>

\* Expired, malformed, or Clerk not reachable: one generic answer.
TokenRejected(r) ==
  /\ req[r].at = "verifying"
  /\ \/ clock > exp /\ UNCHANGED faults
     \/ Fault
  /\ Fail(r, "Unauthorized") /\ cachesSame /\ rest

EmailFresh == emailCache # None /\ clock < emailCache.fetchedAt + EmailTtl
GotEmail(r, e) == [req EXCEPT ![r].at = "members", ![r].since = 0, ![r].email = e, ![r].emailAge = clock - lastHeld[e]]

\* Mutant of CachedEmail: a hit renews the entry.
CachedEmailSliding(r) ==
  /\ req[r].at = "email" /\ EmailFresh
  /\ req' = GotEmail(r, emailCache.email)
  /\ emailCache' = [emailCache EXCEPT !.fetchedAt = clock]
  /\ rest /\ UNCHANGED <<tokenCache, faults>>

CachedEmail(r) ==
  /\ req[r].at = "email" /\ EmailFresh
  /\ req' = GotEmail(r, emailCache.email)
  /\ cachesSame /\ rest /\ UNCHANGED faults

\* Clerk reads the address now, and its answer is applied later.
AskEmail(r) ==
  /\ req[r].at = "email" /\ ~EmailFresh
  /\ req' = [req EXCEPT ![r].at = "emailing", ![r].email = email, ![r].since = clock]
  /\ cachesSame /\ rest /\ UNCHANGED faults

EmailAnswered(r) ==
  /\ req[r].at = "emailing"
  /\ emailCache' = [email |-> req[r].email, fetchedAt |-> clock]
  /\ req' = GotEmail(r, req[r].email)
  /\ rest /\ UNCHANGED <<tokenCache, faults>>

EmailFails(r) ==
  /\ req[r].at = "emailing" /\ Fault
  /\ Fail(r, "Dependency") /\ cachesSame /\ rest

\* getOrCreateUser writes users.email first, which nothing here reads.
NoMembership(r) == role = "none" /\ ~elsewhere /\ ~RouteOf(req[r].route).anyone
ResolveMemberships(r) ==
  /\ req[r].at = "members"
  /\ IF NoMembership(r) THEN Fail(r, "Forbidden") ELSE At(r, "validate")
  /\ cachesSame /\ rest /\ UNCHANGED faults

DatabaseFails(r) ==
  /\ req[r].at = "members" /\ Fault
  /\ Fail(r, "Internal") /\ cachesSame /\ rest

-----------------------------------------------------------------------------
(* Controllers and clients.                                                *)

Invalid(r) ==
  /\ req[r].at = "validate" /\ Fail(r, "Validation")
  /\ cachesSame /\ rest /\ UNCHANGED faults

\* An invitation is accepted with a verified address only.
Unverified(r) == RouteOf(req[r].route).kind = "accept" /\ req[r].email = None

\* Where a validated request goes first.
Valid(r) ==
  /\ req[r].at = "validate"
  /\ LET route == RouteOf(req[r].route) IN
     \/ route.permission # None /\ At(r, "permit")
     \/ /\ route.permission = None
        /\ \/ route.kind = "todo" /\ Fail(r, "NotImplemented")
           \/ Unverified(r) /\ Fail(r, "Forbidden")
           \/ route.kind # "todo" /\ ~Unverified(r) /\ At(r, "forward")
  /\ denied' = [denied EXCEPT ![r] = @ \/ Unverified(r)]
  /\ cachesSame /\ UNCHANGED <<world, held, service, faults>>

\* assertAllowed: the workspace service answers for the role of the moment.
CheckPermission(r) ==
  /\ req[r].at = "permit"
  /\ IF ~Permits(req[r].route, role) THEN Fail(r, "Forbidden")
     ELSE CASE RouteOf(req[r].route).kind = "todo" -> Fail(r, "NotImplemented")
            [] RouteOf(req[r].route).kind = "resolve" -> At(r, "resolve")
            [] OTHER -> At(r, "forward")
  /\ cachesSame /\ rest /\ UNCHANGED faults

\* Mutant of PermissionUnknown: fails open.
PermissionUnknownOpen(r) ==
  /\ req[r].at = "permit" /\ Fault
  /\ At(r, "forward")
  /\ cachesSame /\ rest

\* Mutant of PermissionUnknown: an outage is reported as a refusal.
PermissionUnknownForbidden(r) ==
  /\ req[r].at = "permit" /\ Fault
  /\ Fail(r, "Forbidden")
  /\ cachesSame /\ rest

\* No answer, an unreadable one, or an error of the service.
PermissionUnknown(r) ==
  /\ req[r].at = "permit" /\ Fault
  /\ Fail(r, "Dependency") \/ Fail(r, "Internal")
  /\ cachesSame /\ rest

\* An account id is checked; the account of a provider is looked up in a list.
ResolveProviderAccount(r) ==
  /\ req[r].at = "resolve"
  /\ \/ At(r, "forward") /\ UNCHANGED faults
     \/ Fail(r, "NotFound") /\ UNCHANGED faults
     \/ Fail(r, "NotImplemented") /\ UNCHANGED faults
     \/ Fail(r, "Validation") /\ UNCHANGED faults
     \/ Fault /\ Fail(r, "Dependency")
  /\ cachesSame /\ rest

\* The Idempotency-Key an internal service is sent: the caller's own.
ForwardedKey(r) == req[r].key

\* The internal service has applied the key, or knows the invitation is for another.
Duplicate(r) == req[r].key # None /\ ForwardedKey(r) \in keys
Mismatch(r) == RouteOf(req[r].route).kind = "accept" /\ req[r].email # Invited

\* A mutation is applied unless its key was, or the caller is not the invitee.
Apply(r) ==
  IF req[r].key = None \/ Duplicate(r) \/ Mismatch(r) THEN UNCHANGED service
  ELSE /\ keys' = keys \cup ({ForwardedKey(r)} \ {None})
       /\ applied' = [applied EXCEPT ![r] = @ + 1]
       /\ trespass' = (trespass \/ ~held[r])

\* What else the service refuses a call with: a body or a state it does not
\* accept, a resource that is gone or unknown.
Refusals(kind) ==
  CASE kind = "capabilities" -> {400, 401}
    [] kind = "resolve"      -> {400, 404, 409, 422}
    [] OTHER                 -> {400, 404, 409, 410}

\* An answer below 500 of an internal service keeps its status; the service
\* token the capabilities are asked with is not the caller's.
RelayedStatus(name, status) ==
  IF RouteOf(name).kind = "capabilities" /\ status \in {401, 403} THEN 502 ELSE status

\* A timeout or an unreadable answer; a broken body or an error of the service.
NoUsableAnswer == {"Dependency", "Internal"}

\* A replay finds the key applied before anything that the first application
\* changed is looked at: the invitation's state and its address, the membership.
\* What a refused verification leaves in the account is in CloudAccounts.
Forward(r) ==
  /\ req[r].at = "forward"
  /\ \/ /\ ~Duplicate(r) /\ ~Mismatch(r) /\ Apply(r) /\ UNCHANGED faults
        /\ req' = Answered(r, 200, req[r].key # None)
     \/ Duplicate(r) /\ req' = Answered(r, 409, TRUE) /\ UNCHANGED <<service, faults>>
     \/ ~Duplicate(r) /\ Mismatch(r) /\ Answer(r, 403) /\ UNCHANGED <<service, faults>>
     \/ \E s \in Refusals(RouteOf(req[r].route).kind) :
          /\ s = 410 => ~Duplicate(r)
          /\ Answer(r, RelayedStatus(req[r].route, s)) /\ UNCHANGED <<service, faults>>
     \/ \* applied or not
        /\ Fault /\ (Apply(r) \/ UNCHANGED service)
        /\ \E error \in NoUsableAnswer : Fail(r, error)
  /\ cachesSame /\ UNCHANGED <<world, held, denied>>

\* The client repeats a mutation it has no answer for, under the same key.
Retry(r) ==
  /\ req[r].at = "done" /\ req[r].status \in {500, 502} /\ req[r].key # None
  /\ LET name == req[r].route IN
     /\ req' = [req EXCEPT ![r] = Entering(name, req[r].key)]
     /\ held' = [held EXCEPT ![r] = Permits(name, role)]
     /\ denied' = [denied EXCEPT ![r] = Refusable(name)]
  /\ cachesSame /\ UNCHANGED <<world, service, faults>>

-----------------------------------------------------------------------------
(* The rest of the world.                                                  *)

Change == changes < MaxChanges /\ changes' = changes + 1

\* No call to Clerk takes longer than Latency.  Under the bypass no clock is read.
Tick ==
  /\ clock < MaxTime /\ ~bypass
  /\ \A r \in Request : req[r].at \in {"verifying", "emailing"} => clock < req[r].since + Latency
  /\ clock' = clock + 1
  /\ lastHeld' = [lastHeld EXCEPT ![email] = clock + 1]
  /\ UNCHANGED <<exp, role, elsewhere, email, tokenCache, emailCache, req, held, denied,
                 service, bypass, changes, faults>>

SetRole(new) ==
  /\ Change /\ new # role /\ role' = new
  /\ LET live(r) == req[r].at \notin {"idle", "done"} IN
     /\ held' = [r \in Request |-> held[r] \/ (live(r) /\ Permits(req[r].route, new))]
     /\ denied' = [r \in Request |-> denied[r] \/ (live(r) /\
                     (~Permits(req[r].route, new) \/ (new = "none" /\ ~elsewhere)))]
  /\ UNCHANGED <<clock, exp, elsewhere, email, lastHeld, tokenCache, emailCache, req,
                 service, bypass, faults>>

\* None: the primary address is no longer verified.
SetEmail(new) ==
  /\ Change /\ new # email /\ email' = new
  /\ lastHeld' = [lastHeld EXCEPT ![new] = clock]
  /\ UNCHANGED <<clock, exp, role, elsewhere, tokenCache, emailCache, req, held, denied,
                 service, bypass, faults>>

\* Entries of other users push a cache over its limit: it is dropped whole.
evictIfOversized ==
  /\ Change
  /\ \/ tokenCache' = None /\ UNCHANGED emailCache
     \/ emailCache' = None /\ UNCHANGED tokenCache
  /\ UNCHANGED <<clock, exp, role, elsewhere, email, lastHeld, req, held, denied, service,
                 bypass, faults>>

\* The token and the other workspace are looked at only without the bypass.
\* The invitation went to the address the user has; SetEmail changes it.
Init ==
  /\ clock = 0 /\ bypass \in BOOLEAN
  /\ exp \in {0, MaxTime} /\ (bypass => exp = 0)
  /\ role \in Assigned /\ elsewhere \in {FALSE, role = "none" /\ ~bypass}
  /\ email = Invited /\ lastHeld = [e \in Email \cup {None} |-> 0]
  /\ tokenCache = None /\ emailCache = None
  /\ req = [r \in Request |-> Idle]
  /\ held = [r \in Request |-> FALSE] /\ denied = [r \in Request |-> FALSE]
  /\ keys = {} /\ applied = [r \in Request |-> 0] /\ trespass = FALSE /\ changes = 0 /\ faults = 0

Step(r) ==
  \/ \E name \in Exercised, k \in {r, None} : Arrive(r, name, k)
  \/ NoToken(r) \/ CachedToken(r) \/ VerifyToken(r) \/ TokenVerified(r) \/ TokenRejected(r)
  \/ CachedEmail(r) \/ AskEmail(r) \/ EmailAnswered(r) \/ EmailFails(r)
  \/ ResolveMemberships(r) \/ DatabaseFails(r)
  \/ Invalid(r) \/ Valid(r) \/ CheckPermission(r) \/ PermissionUnknown(r)
  \/ ResolveProviderAccount(r) \/ Forward(r) \/ Retry(r)

Next ==
  \/ \E r \in Request : Step(r)
  \/ Tick \/ evictIfOversized
  \/ \E new \in Assigned : SetRole(new)
  \/ \E new \in Email \cup {None} : SetEmail(new)

Spec == Init /\ [][Next]_vars

Requests == Permutations(Request)

-----------------------------------------------------------------------------
(* Properties.                                                             *)

Points == {"idle", "token", "verifying", "email", "emailing", "members", "validate",
           "permit", "resolve", "forward", "done"}

\* Every request is at one point of the pipeline with at most one status, and
\* the caches hold nothing from the future.
TypeOK ==
  /\ clock \in 0..MaxTime /\ role \in Role /\ email \in Email \cup {None}
  /\ tokenCache = None \/ tokenCache \in 0..clock
  /\ emailCache = None \/ (emailCache.fetchedAt \in 0..clock /\ emailCache.email \in Email \cup {None})
  /\ \A r \in Request :
       /\ req[r].at \in Points /\ req[r].since <= clock
       /\ (req[r].at = "done") = (req[r].status # 0)

\* A session token opens the gateway no later than one cache lifetime after it
\* expired, however many requests share the entry and overlap (verifyToken
\* returns a cached identity without looking at exp).
TokenLifetime ==
  \A r \in Request : req[r].overdue = 0 \/ req[r].overdue < TokenTtl

\* The verified address a request acts under (an invitation is matched with it)
\* was the caller's within the cache lifetime plus one call to Clerk, although
\* overlapping answers overwrite the entry in any order.
EmailLifetime ==
  \A r \in Request : req[r].emailAge = 0 \/ req[r].emailAge < EmailTtl + Latency

\* Nothing is applied for a caller who did not have the route's permission at
\* some time during the request: a permission service that fails or cannot be
\* understood lets nobody through.
EffectsPermitted == ~trespass

\* A mutation repeated by its client after a lost answer is applied once.
AppliedOnce == \A r \in Request : applied[r] <= 1

\* 403 tells the caller only what was so: a permission or membership that was
\* missing during the request, or an invitation for another address than the
\* one the request carries, never that a dependency is down and never what the
\* request's own first application has changed since.  And a client told that
\* its mutation was applied, by a 200 or, after a lost answer, by the duplicate
\* key, had it applied once (WorkspaceAccessService, UpstreamClient,
\* claimIdempotencyKey before the state checks of handleAcceptInvitation).
AnswersTrue ==
  \A r \in Request :
    /\ req[r].status = 403 => denied[r] \/ (Mismatch(r) /\ applied[r] = 0)
    /\ req[r].told => applied[r] = 1

\* The pipeline is well formed, what it serves from its caches is no older than
\* their lifetimes allow, and a repeated mutation is applied once.
GatewayInv == TypeOK /\ TokenLifetime /\ EmailLifetime /\ AppliedOnce
=============================================================================
