----------------------------- MODULE Workspaces -----------------------------
(***************************************************************************)
(* One workspace as the transactions of workspace-service (backend/cmd/    *)
(* workspace-service/main.go, idempotency.go) change it: its members and   *)
(* their roles, its invitations, its soft deletion, the idempotency keys   *)
(* and the audit events.  The runs of the orchestrator, which some of them *)
(* look at, come and go.                                                   *)
(*                                                                         *)
(* PostgreSQL runs the handlers at READ COMMITTED: every statement is one  *)
(* step, sees what is committed when it starts, waits for the row locks it *)
(* needs and looks at a row again after a wait.  What a transaction writes *)
(* is kept in its request until Commit.  The audit event is appended under *)
(* a lock that is held until the commit that follows, so both are one      *)
(* step.  A refused request rolls back, and so may any other.              *)
(***************************************************************************)
EXTENDS Naturals, Sequences, FiniteSets

CONSTANTS
  Users,      \* users of provisr_identity.users
  Founder,    \* the user who created the workspace
  Requests,   \* transactions that may be open at the same time
  Keys,       \* values of the Idempotency-Key header
  Invites,    \* invitations that may be created
  Roles,      \* roles that requests name; all but "admin" are treated alike
  Runners,    \* bound: the users who start runs
  None

\* The handlers that change the workspace.
Ops == {"add", "update_role", "remove", "invite", "revoke", "update", "delete", "accept"}

\* A row of invitations.
Invitation == [role : Roles, revoked : BOOLEAN, expired : BOOLEAN]

ASSUME WorkspacesAssumption ==
  /\ Founder \in Users /\ Runners \subseteq Users
  /\ Roles \subseteq {"admin", "engineer", "approver", "auditor", "viewer"}
  /\ None \notin Users \cup Requests \cup Keys \cup Invites \cup Roles \cup Ops \cup {"admin"}
  /\ None \notin Invitation

VARIABLES
  deleted,     \* deleted_at is set
  role,        \* memberships: the role of every user, None without a row
  invitation,  \* invitations: None, or its role and whether it is revoked or expired
  keys,        \* provisr_idempotency.keys of the workspace
  running,     \* users with a run that has not ended
  audit,       \* audit_events of workspace-service, in the order of seq
  request,     \* every open transaction: its statement, input and writes
  memberLock,  \* the transaction that holds the lock of a membership row
  inviteLock,  \* the transaction that holds the lock of an invitation row
  wsLock       \* the transaction that selected the workspace FOR UPDATE

tables == << deleted, role, invitation, keys, running, audit >>
locks  == << memberLock, inviteLock, wsLock >>
vars   == << tables, request, locks >>
----------------------------------------------------------------------------
(* Transactions                                                            *)

Idle == [pc |-> "idle", op |-> None, user |-> None, role |-> None,
         key |-> None, invite |-> None, shares |-> FALSE, admins |-> {}]

At(r, pc) == request[r].pc = pc
Move(r, pc) == request' = [request EXCEPT ![r].pc = pc]

Free(lock, x, r) == lock[x] \in {None, r}
Released(lock, r) == [x \in DOMAIN lock |-> IF lock[x] = r THEN None ELSE lock[x]]

\* The transaction ends, with a rollback or a commit, and its locks with it.
End(r) ==
  /\ request' = [request EXCEPT ![r] = Idle]
  /\ memberLock' = Released(memberLock, r)
  /\ inviteLock' = Released(inviteLock, r)
  /\ wsLock' = IF wsLock = r THEN None ELSE wsLock

Refuse(r) == End(r) /\ UNCHANGED tables

\* Refuse unless the condition holds; then continue at pc.
Require(r, condition, pc) ==
  IF condition THEN Move(r, pc) /\ UNCHANGED << tables, locks >> ELSE Refuse(r)

Open(r, op, user, newRole, key, invite, pc) ==
  /\ At(r, "idle")
  /\ request' = [request EXCEPT ![r] =
       [pc |-> pc, op |-> op, user |-> user, role |-> newRole, key |-> key,
        invite |-> invite, shares |-> FALSE, admins |-> {}]]
  /\ UNCHANGED tables

\* The handlers that look the workspace up without a lock.
Begin(r, op, user, newRole, key, invite) ==
  /\ ~deleted
  /\ Open(r, op, user, newRole, key, invite, "claim")
  /\ UNCHANGED locks

handleAddMember(r, u, new, k)  == Begin(r, "add", u, new, k, None)
handleUpdateRole(r, u, new, k) == Begin(r, "update_role", u, new, k, None)
handleRemoveMember(r, u, k)    == Begin(r, "remove", u, None, k, None)

\* The row that it inserts has a new id, which no other transaction has.
handleCreateInvitation(r, i, new, k) ==
  /\ invitation[i] = None
  /\ \A q \in Requests : request[q].op = "invite" => request[q].invite # i
  /\ Begin(r, "invite", None, new, k, i)

handleRevokeInvitation(r, i, k) == Begin(r, "revoke", None, None, k, i)

\* SELECT ... FOR UPDATE of the workspace waits for the share locks that the
\* foreign keys of the rows inserted by open transactions took on it.
BeginLocked(r, op, key) ==
  /\ ~deleted /\ wsLock = None
  /\ \A q \in Requests \ {r} : ~request[q].shares
  /\ Open(r, op, None, None, key, None, "claim")
  /\ wsLock' = r
  /\ UNCHANGED << memberLock, inviteLock >>

handleUpdate(r, k) == BeginLocked(r, "update", k)
handleDelete(r, k) == BeginLocked(r, "delete", k)

\* The invitation is selected FOR UPDATE; the workspace is not looked up.
handleAcceptInvitation(r, i, u, k) ==
  /\ invitation[i] # None /\ Free(inviteLock, i, r)
  /\ Open(r, "accept", u, invitation[i].role, k, i, "claim")
  /\ inviteLock' = [inviteLock EXCEPT ![i] = r]
  /\ UNCHANGED << memberLock, wsLock >>

----------------------------------------------------------------------------
(* Statements                                                              *)

\* Where each handler goes once it has the key.
AfterClaim(op) ==
  CASE op = "add"                                -> "insert"
    [] op = "update_role"                        -> "count"
    [] op \in {"remove", "delete"}               -> "runs"
    [] op = "revoke"                             -> "revoke"
    [] op = "accept"                             -> "accept"
    [] op \in {"invite", "update"}               -> "commit"

\* The row inserted refers to the workspace: its foreign key waits for a
\* transaction that holds the workspace FOR UPDATE, and shares the lock.
InsertReferring(r, pc) ==
  /\ wsLock \in {None, r}
  /\ request' = [request EXCEPT ![r].pc = pc, ![r].shares = TRUE]
  /\ UNCHANGED << tables, locks >>

\* Mutant of claimIdempotencyKey: the key is looked up first, and inserted
\* without a look at the transactions that are open.
claimIdempotencyKeyLookup(r) ==
  /\ At(r, "claim")
  /\ IF request[r].key \in keys THEN Refuse(r) ELSE InsertReferring(r, AfterClaim(request[r].op))

\* INSERT ... ON CONFLICT DO NOTHING waits for an open transaction that has
\* inserted the same key.
claimIdempotencyKey(r) ==
  /\ At(r, "claim")
  /\ \A q \in Requests \ {r} : ~(request[q].shares /\ request[q].key = request[r].key)
  /\ IF request[r].key \in keys THEN Refuse(r) ELSE InsertReferring(r, AfterClaim(request[r].op))

\* Runs that are active: of the member for a removal, any for a deletion.
CheckActiveRuns(r) ==
  /\ At(r, "runs")
  /\ IF request[r].op = "delete" THEN Require(r, running = {}, "commit")
                                 ELSE Require(r, request[r].user \notin running, "count")

\* requireLastAdminNotTarget: the rows its SELECT ... FOR UPDATE sees ...
SelectAdmins(r) ==
  /\ At(r, "count")
  /\ request' = [request EXCEPT ![r].pc = "lock",
                                ![r].admins = { u \in Users : role[u] = "admin" }]
  /\ UNCHANGED << tables, locks >>

\* Mutant of LockAdmins: the rows are counted and not locked.
CountAdmins(r) ==
  /\ At(r, "lock") /\ Move(r, "target")
  /\ UNCHANGED << tables, locks >>

\* ... and those of them that are still admins once it has every lock.
LockAdmins(r) ==
  /\ At(r, "lock")
  /\ \A u \in request[r].admins : Free(memberLock, u, r)
  /\ LET admins == { u \in request[r].admins : role[u] = "admin" }
     IN  /\ memberLock' = [u \in Users |-> IF u \in admins THEN r ELSE memberLock[u]]
         /\ request' = [request EXCEPT ![r].pc = "target", ![r].admins = admins]
  /\ UNCHANGED << tables, inviteLock, wsLock >>

CheckTarget(r) ==
  /\ At(r, "target")
  /\ IF Cardinality(request[r].admins) > 1 \/ role[request[r].user] # "admin"
     THEN Move(r, "change") /\ UNCHANGED << tables, locks >>
     ELSE Refuse(r)

\* UPDATE or DELETE of the membership: no row is "membership not found".
ChangeMember(r) ==
  /\ At(r, "change") /\ Free(memberLock, request[r].user, r)
  /\ IF role[request[r].user] = None
     THEN Refuse(r)
     ELSE /\ memberLock' = [memberLock EXCEPT ![request[r].user] = r]
          /\ Move(r, "commit")
          /\ UNCHANGED << tables, inviteLock, wsLock >>

\* INSERT ... ON CONFLICT DO NOTHING: "already a member".
InsertMember(r) ==
  /\ At(r, "insert") /\ Free(memberLock, request[r].user, r)
  /\ IF role[request[r].user] # None
     THEN Refuse(r)
     ELSE /\ memberLock' = [memberLock EXCEPT ![request[r].user] = r]
          /\ Move(r, "commit")
          /\ UNCHANGED << tables, inviteLock, wsLock >>

\* UPDATE ... WHERE revoked_at IS NULL.
RevokeInvitation(r) ==
  /\ At(r, "revoke") /\ Free(inviteLock, request[r].invite, r)
  /\ IF invitation[request[r].invite] = None \/ invitation[request[r].invite].revoked
     THEN Refuse(r)
     ELSE /\ inviteLock' = [inviteLock EXCEPT ![request[r].invite] = r]
          /\ Move(r, "commit")
          /\ UNCHANGED << tables, memberLock, wsLock >>

\* The invitation that was locked is open and the user is not a member yet.
AcceptInvitation(r) ==
  /\ At(r, "accept") /\ Free(memberLock, request[r].user, r)
  /\ LET open == invitation[request[r].invite]
     IN  IF open.revoked \/ open.expired \/ role[request[r].user] # None
         THEN Refuse(r)
         ELSE /\ memberLock' = [memberLock EXCEPT ![request[r].user] = r]
              /\ Move(r, "commit")
              /\ UNCHANGED << tables, inviteLock, wsLock >>
----------------------------------------------------------------------------
(* Commit                                                                  *)

MemberOps == {"add", "update_role", "remove", "accept"}

Event(r) == [op |-> request[r].op, key |-> request[r].key, invite |-> request[r].invite]

Commit(r) ==
  /\ At(r, "commit")
  /\ LET t == request[r]
     IN  /\ deleted' = (deleted \/ t.op = "delete")
         /\ role' = IF t.op \in MemberOps THEN [role EXCEPT ![t.user] = t.role] ELSE role
         /\ invitation' =
              CASE t.op = "invite" -> [invitation EXCEPT ![t.invite] =
                                         [role |-> t.role, revoked |-> FALSE, expired |-> FALSE]]
                [] t.op \in {"revoke", "accept"} -> [invitation EXCEPT ![t.invite].revoked = TRUE]
                [] OTHER -> invitation
         /\ keys' = keys \cup {t.key}
         /\ audit' = Append(audit, Event(r))
  /\ End(r)
  /\ UNCHANGED running

\* An error of the database, a closed connection or an invalid request.
Rollback(r) == ~At(r, "idle") /\ Refuse(r)

\* A run of u is committed.  createRun looked at the membership earlier in
\* its transaction, so u may have been removed meanwhile.
RunStarts(u) ==
  /\ u \notin running
  /\ running' = running \cup {u}
  /\ UNCHANGED << deleted, role, invitation, keys, audit, request, locks >>

RunEnds(u) ==
  /\ u \in running
  /\ running' = running \ {u}
  /\ UNCHANGED << deleted, role, invitation, keys, audit, request, locks >>

\* The invitation passes its seven days.
InvitationExpires(i) ==
  /\ invitation[i] # None /\ ~invitation[i].expired
  /\ invitation' = [invitation EXCEPT ![i].expired = TRUE]
  /\ UNCHANGED << deleted, role, keys, running, audit, request, locks >>
----------------------------------------------------------------------------
\* handleCreate: the workspace with its creator as admin, and the event of both.
Init ==
  /\ deleted = FALSE
  /\ role = [u \in Users |-> IF u = Founder THEN "admin" ELSE None]
  /\ invitation = [i \in Invites |-> None]
  /\ keys = {} /\ running = {}
  /\ audit = << [op |-> "create", key |-> None, invite |-> None] >>
  /\ request = [r \in Requests |-> Idle]
  /\ memberLock = [u \in Users |-> None]
  /\ inviteLock = [i \in Invites |-> None]
  /\ wsLock = None

Handlers(r) ==
  \/ \E k \in Keys : handleUpdate(r, k) \/ handleDelete(r, k)
  \/ \E k \in Keys, u \in Users :
       \/ handleRemoveMember(r, u, k)
       \/ \E new \in Roles : handleAddMember(r, u, new, k) \/ handleUpdateRole(r, u, new, k)
  \/ \E k \in Keys, i \in Invites :
       \/ handleRevokeInvitation(r, i, k)
       \/ \E new \in Roles : handleCreateInvitation(r, i, new, k)
       \/ \E u \in Users : handleAcceptInvitation(r, i, u, k)

Statements(r) ==
  \/ claimIdempotencyKey(r) \/ CheckActiveRuns(r)
  \/ SelectAdmins(r) \/ LockAdmins(r) \/ CheckTarget(r) \/ ChangeMember(r)
  \/ InsertMember(r) \/ RevokeInvitation(r) \/ AcceptInvitation(r)
  \/ Commit(r) \/ Rollback(r)

Next ==
  \/ \E r \in Requests : Handlers(r) \/ Statements(r)
  \/ \E u \in Runners : RunStarts(u) \/ RunEnds(u)
  \/ \E i \in Invites : InvitationExpires(i)

Spec == Init /\ [][Next]_vars
----------------------------------------------------------------------------
(* Properties                                                              *)

Locks(lock, rows) ==
  \A x \in rows : lock[x] = None \/ (lock[x] \in Requests /\ ~At(lock[x], "idle"))

\* The tables and the open transactions are well formed, and a row is locked
\* by open transactions only (tx.Commit, and the deferred tx.Rollback).
TypeOK ==
  /\ deleted \in BOOLEAN /\ keys \subseteq Keys /\ running \subseteq Runners
  /\ role \in [Users -> Roles \cup {"admin", None}]
  /\ \A i \in Invites : invitation[i] \in {None} \cup Invitation
  /\ \A r \in Requests : request[r].admins \subseteq Users
  /\ Locks(memberLock, Users) /\ Locks(inviteLock, Invites)
  /\ wsLock = None \/ (wsLock \in Requests /\ ~At(wsLock, "idle"))

\* "last admin cannot be demoted" (integration_flows_test.go): the workspace has
\* an admin, whatever removals and demotions run at the same time.  It does not
\* hold: requireLastAdminNotTarget may find no row to lock, see below.
AdminRemains == \E u \in Users : role[u] = "admin"

\* The last admin is lost in one way only: by a removal or demotion whose
\* SELECT ... FOR UPDATE found that every admin it had seen was one no more.
\* Without a row it holds no lock, and its target may become an admin between
\* requireLastAdminNotTarget and the change.  A count of one row or more holds
\* the locks that keep another admin until the commit.
LastAdminGuarded ==
  [][AdminRemains =>
       \/ AdminRemains'
       \/ \E r \in Requests : /\ At(r, "commit") /\ request[r].admins = {}
                              /\ request[r].op \in {"update_role", "remove"}]_vars

\* A key that a client repeats is applied at most once ("a mutation is never
\* applied twice", idempotency.go), retries of open transactions included.
AppliedOnce ==
  \A i, j \in DOMAIN audit : audit[i].key = audit[j].key /\ audit[i].key # None => i = j

\* An invitation is accepted or revoked once: it makes one member at most and
\* none after its revocation.
InvitationOnce ==
  \A i, j \in DOMAIN audit :
    /\ audit[i].op \in {"accept", "revoke"} /\ audit[j].op \in {"accept", "revoke"}
    /\ audit[i].invite = audit[j].invite
    => i = j

\* The tables and locks are well formed, and neither a key nor an invitation
\* is used twice, whatever transactions overlap.
WorkspacesInv == TypeOK /\ AppliedOnce /\ InvitationOnce
============================================================================
