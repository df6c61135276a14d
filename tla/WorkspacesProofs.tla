-------------------------- MODULE WorkspacesProofs --------------------------
(***************************************************************************)
(* Proofs about Workspaces, for every set of users, requests, keys and     *)
(* invitations: a key and an invitation are used once, and a count that    *)
(* found an admin keeps one.                                               *)
(*                                                                         *)
(* The inductive invariant says of every open transaction which locks it   *)
(* has at which statement, and what the rows behind these locks are        *)
(* (Local), and of every two of them that they do not have the same key or *)
(* create the same invitation (Apart).                                     *)
(***************************************************************************)
EXTENDS Workspaces, FiniteSetTheorems, TLAPS

Counting == {"update_role", "remove"}
Points == {"idle", "claim", "insert", "count", "runs", "revoke", "accept", "lock",
           "target", "change", "commit"}

Txn == [pc : Points, op : Ops \cup {None}, user : Users \cup {None},
        role : Roles \cup {None}, key : Keys \cup {None}, invite : Invites \cup {None},
        shares : BOOLEAN, admins : SUBSET Users]

\* The statements each handler goes through.
Path(op) ==
  CASE op = "add"         -> {"claim", "insert", "commit"}
    [] op = "update_role" -> {"claim", "count", "lock", "target", "change", "commit"}
    [] op = "remove"      -> {"claim", "runs", "count", "lock", "target", "change", "commit"}
    [] op = "delete"      -> {"claim", "runs", "commit"}
    [] op = "revoke"      -> {"claim", "revoke", "commit"}
    [] op = "accept"      -> {"claim", "accept", "commit"}
    [] OTHER              -> {"claim", "commit"}

\* The input of an open transaction.
Input(t) ==
  /\ t.op \in Ops /\ t.key \in Keys /\ t.pc \in Path(t.op)
  /\ t.op \in MemberOps => t.user \in Users
  /\ t.op \in {"add", "update_role", "accept", "invite"} => t.role \in Roles
  /\ t.op \in {"remove"} => t.role = None
  /\ t.op \in {"invite", "revoke", "accept"} => t.invite \in Invites
  /\ t.op \notin {"invite", "revoke", "accept"} => t.invite = None
  /\ t.shares <=> t.pc # "claim"

\* What the locks of a transaction protect.
HasInvitation(r, t) ==
  /\ t.op = "accept" => invitation[t.invite] # None /\ inviteLock[t.invite] = r
  /\ t.op = "invite" => invitation[t.invite] = None
  /\ t.pc = "commit" /\ t.op \in {"accept", "revoke"} =>
       /\ invitation[t.invite] # None /\ inviteLock[t.invite] = r
       /\ ~invitation[t.invite].revoked

HasMember(r, t) ==
  /\ t.pc = "commit" /\ t.op \in MemberOps => memberLock[t.user] = r
  /\ t.pc = "commit" /\ t.op \in {"add", "accept"} => role[t.user] = None
  /\ t.pc \in {"target", "change", "commit"} /\ t.op \in Counting =>
       \A u \in t.admins : memberLock[u] = r /\ role[u] = "admin"
  /\ t.pc \in {"change", "commit"} /\ t.op \in Counting =>
       t.admins = {} \/ \E u \in t.admins : u # t.user

Local(r, t) ==
  /\ t \in Txn
  /\ IF t.pc = "idle" THEN t = Idle
     ELSE /\ Input(t) /\ (t.shares => t.key \notin keys)
          /\ HasInvitation(r, t) /\ HasMember(r, t)

\* Two transactions.
Apart(t, s) ==
  /\ ~(t.shares /\ s.shares /\ t.key = s.key)
  /\ ~(t.op = "invite" /\ s.op = "invite" /\ t.invite = s.invite)

TablesOK ==
  /\ deleted \in BOOLEAN /\ keys \subseteq Keys /\ running \subseteq Runners
  /\ role \in [Users -> Roles \cup {"admin", None}]
  /\ invitation \in [Invites -> {None} \cup Invitation]
  /\ audit \in Seq([op : Ops \cup {"create"}, key : Keys \cup {None},
                    invite : Invites \cup {None}])

\* What the audit events say has happened.
AuditOK ==
  /\ \A i \in DOMAIN audit : audit[i].key # None => audit[i].key \in keys
  /\ \A i \in DOMAIN audit :
       audit[i].op \in {"accept", "revoke"} =>
         /\ audit[i].invite \in Invites /\ invitation[audit[i].invite] # None
         /\ invitation[audit[i].invite].revoked
  /\ AppliedOnce /\ InvitationOnce

LocksOK ==
  /\ memberLock \in [Users -> Requests \cup {None}] /\ Locks(memberLock, Users)
  /\ inviteLock \in [Invites -> Requests \cup {None}] /\ Locks(inviteLock, Invites)
  /\ wsLock = None \/ (wsLock \in Requests /\ ~At(wsLock, "idle"))

RequestsOK ==
  /\ request \in [Requests -> Txn]
  /\ \A r \in Requests : Local(r, request[r])
  /\ \A r \in Requests : \A q \in Requests \ {r} : Apart(request[r], request[q])

\* The inductive invariant.
IInv == TablesOK /\ AuditOK /\ LocksOK /\ RequestsOK
----------------------------------------------------------------------------
(* Steps that keep the tables                                              *)

\* A transaction takes locks that are free and keeps those it has.
LocksGrow(r) ==
  /\ memberLock' \in [Users -> Requests \cup {None}]
  /\ \A u \in Users : memberLock'[u] = memberLock[u]
                        \/ (memberLock'[u] = r /\ memberLock[u] \in {None, r})
  /\ inviteLock' \in [Invites -> Requests \cup {None}]
  /\ \A i \in Invites : inviteLock'[i] = inviteLock[i]
                          \/ (inviteLock'[i] = r /\ inviteLock[i] \in {None, r})
  /\ wsLock' = wsLock \/ wsLock' = r

\* It loses all of them, and the others keep theirs.
LocksReleased(r) ==
  /\ memberLock' \in [Users -> Requests \cup {None}]
  /\ \A u \in Users : memberLock'[u] = IF memberLock[u] = r THEN None ELSE memberLock[u]
  /\ inviteLock' \in [Invites -> Requests \cup {None}]
  /\ \A i \in Invites : inviteLock'[i] = IF inviteLock[i] = r THEN None ELSE inviteLock[i]
  /\ wsLock' = IF wsLock = r THEN None ELSE wsLock

\* The other transactions.
OthersKept(r) == \A q \in Requests \ {r} : request'[q] = request[q]

\* A transaction that goes on disturbs no other, as long as it keeps to the
\* tables, takes free locks, and is apart from the others.
LEMMA AdvanceKeeps ==
  ASSUME IInv, NEW r \in Requests, UNCHANGED tables, LocksGrow(r),
         request' \in [Requests -> Txn], OthersKept(r), request'[r].pc # "idle",
         Local(r, request[r])',
         \A q \in Requests \ {r} : Apart(request[r], request[q])'
  PROVE  IInv'
  <1>1. TablesOK' /\ AuditOK'
    BY DEF IInv, TablesOK, AuditOK, AppliedOnce, InvitationOnce, tables
  <1>2. LocksOK'
    BY WorkspacesAssumption DEF IInv, LocksOK, Locks, LocksGrow, OthersKept, At
  <1>3. ASSUME NEW q \in Requests \ {r} PROVE Local(q, request[q])'
    <2>1. request'[q] = request[q] /\ Local(q, request[q]) /\ q # None
      BY WorkspacesAssumption DEF OthersKept, IInv, RequestsOK
    <2>2. CASE request[q].pc = "idle"
      BY <2>1, <2>2 DEF Local
    <2>3. CASE request[q].pc # "idle"
      <3>1. /\ \A u \in Users : memberLock[u] = q => memberLock'[u] = q
            /\ \A i \in Invites : inviteLock[i] = q => inviteLock'[i] = q
        BY <2>1 DEF LocksGrow
      <3>2. HasInvitation(q, request[q])'
        BY <2>1, <2>3, <3>1 DEF Local, Input, HasInvitation, tables
      <3>3. HasMember(q, request[q])'
        BY <2>1, <2>3, <3>1 DEF Local, Input, HasMember, tables, Txn
      <3>4. QED BY <2>1, <2>3, <3>2, <3>3 DEF Local, tables
    <2>4. QED BY <2>2, <2>3
  <1>4. RequestsOK'
    BY <1>3 DEF RequestsOK, OthersKept, IInv, Apart
  <1>5. QED BY <1>1, <1>2, <1>4 DEF IInv

LEMMA EndReleases ==
  ASSUME IInv, NEW r \in Requests, End(r)
  PROVE  /\ LocksReleased(r) /\ OthersKept(r)
         /\ request' \in [Requests -> Txn] /\ request'[r] = Idle
  <1>1. Idle \in Txn
    BY DEF Idle, Txn, Points
  <1>2. QED
    BY <1>1 DEF End, Released, LocksReleased, OthersKept, IInv, LocksOK, RequestsOK

\* The end of a transaction, when the locks of the others still protect what
\* they did.
LEMMA EndKeeps ==
  ASSUME IInv, NEW r \in Requests, End(r), TablesOK', AuditOK',
         \A q \in Requests \ {r} :
           request[q].pc # "idle" =>
             /\ request[q].shares => request[q].key \notin keys'
             /\ HasInvitation(q, request[q])'
             /\ HasMember(q, request[q])'
  PROVE  IInv'
  <1>1. /\ LocksReleased(r) /\ OthersKept(r)
        /\ request' \in [Requests -> Txn] /\ request'[r] = Idle
    BY EndReleases
  <1>2. LocksOK'
    BY <1>1, WorkspacesAssumption
       DEF IInv, LocksOK, Locks, LocksReleased, OthersKept, At, Idle
  <1>3. Local(r, request[r])'
    <2>1. request'[r] \in Txn
      BY <1>1
    <2>3. Idle.pc = "idle"
      BY DEF Idle
    <2>2. QED BY <1>1, <2>1, <2>3 DEF Local
  <1>4. ASSUME NEW q \in Requests \ {r} PROVE Local(q, request[q])'
    BY <1>1 DEF Local, OthersKept, IInv, RequestsOK, Input
  <1>5. \A q \in Requests \ {r} : Apart(request[r], request[q])' /\ Apart(request[q], request[r])'
    <2>1. Idle.op # "invite" /\ ~Idle.shares
      BY WorkspacesAssumption DEF Idle, Ops
    <2>2. QED BY <1>1, <2>1 DEF Apart
  <1>6. RequestsOK'
    BY <1>1, <1>3, <1>4, <1>5 DEF RequestsOK, OthersKept, IInv, Apart
  <1>7. QED BY <1>2, <1>6 DEF IInv

LEMMA RefuseKeeps ==
  ASSUME IInv, NEW r \in Requests, Refuse(r)
  PROVE  IInv'
  <1>1. End(r) /\ UNCHANGED tables
    BY DEF Refuse
  <1>2. TablesOK' /\ AuditOK'
    BY <1>1 DEF IInv, TablesOK, AuditOK, AppliedOnce, InvitationOnce, tables
  <1>3. ASSUME NEW q \in Requests \ {r}, request[q].pc # "idle"
        PROVE  /\ request[q].shares => request[q].key \notin keys'
               /\ HasInvitation(q, request[q])'
               /\ HasMember(q, request[q])'
    <2>1. /\ request'[q] = request[q] /\ Local(q, request[q])
          /\ \A u \in Users : memberLock[u] = q => memberLock'[u] = q
          /\ \A i \in Invites : inviteLock[i] = q => inviteLock'[i] = q
      BY <1>1, EndReleases DEF OthersKept, LocksReleased, IInv, RequestsOK
    <2>2. HasInvitation(q, request[q])'
      BY <1>1, <1>3, <2>1 DEF Local, Input, HasInvitation, tables
    <2>3. HasMember(q, request[q])'
      BY <1>1, <1>3, <2>1 DEF Local, Input, HasMember, tables, Txn
    <2>4. QED BY <1>1, <1>3, <2>1, <2>2, <2>3 DEF Local, tables
  <1>4. QED BY <1>1, <1>2, <1>3, EndKeeps
----------------------------------------------------------------------------
(* The first statements                                                    *)

\* A transaction that opens, with the locks of its first SELECT.
LEMMA OpenKeeps ==
  ASSUME IInv, NEW r \in Requests, NEW op \in Ops, NEW user \in Users \cup {None},
         NEW new \in Roles \cup {None}, NEW k \in Keys, NEW i \in Invites \cup {None},
         Open(r, op, user, new, k, i, "claim"), LocksGrow(r),
         op \in MemberOps => user \in Users,
         op \in {"add", "update_role", "accept", "invite"} => new \in Roles,
         op = "remove" => new = None,
         op \in {"invite", "revoke", "accept"} <=> i # None,
         op = "accept" => invitation[i] # None /\ inviteLock'[i] = r,
         op = "invite" => /\ invitation[i] = None
                          /\ \A q \in Requests : request[q].op = "invite" => request[q].invite # i
  PROVE  IInv'
  <1> DEFINE t == [pc |-> "claim", op |-> op, user |-> user, role |-> new, key |-> k,
                   invite |-> i, shares |-> FALSE, admins |-> {}]
  <1>1. request' = [request EXCEPT ![r] = t] /\ UNCHANGED tables
    BY DEF Open
  <1>2. /\ t \in Txn /\ t.pc = "claim" /\ t.op = op /\ t.user = user /\ t.role = new
        /\ t.key = k /\ t.invite = i /\ t.shares = FALSE
    BY DEF Txn, Points
  <1> HIDE DEF t
  <1>3. request' \in [Requests -> Txn] /\ OthersKept(r) /\ request'[r] = t
    BY <1>1, <1>2 DEF IInv, RequestsOK, OthersKept
  <1>4. Input(t)
    BY <1>2, WorkspacesAssumption DEF Input, Path
  <1>5. HasInvitation(r, request[r])' /\ HasMember(r, request[r])'
    BY <1>1, <1>2, <1>3 DEF HasInvitation, HasMember, tables
  <1>6. Local(r, request[r])'
    BY <1>2, <1>3, <1>4, <1>5 DEF Local
  <1>7. \A q \in Requests \ {r} : Apart(request[r], request[q])'
    BY <1>2, <1>3 DEF Apart, OthersKept
  <1>8. request'[r].pc # "idle"
    BY <1>2, <1>3
  <1>9. QED BY <1>1, <1>3, <1>6, <1>7, <1>8, AdvanceKeeps

\* Locks that stay as they are have grown.
LEMMA LocksStay ==
  ASSUME IInv, NEW r \in Requests, UNCHANGED locks
  PROVE  LocksGrow(r)
  BY DEF IInv, LocksOK, LocksGrow, locks

LEMMA HandlersKeep ==
  ASSUME IInv, NEW r \in Requests, Handlers(r)
  PROVE  IInv'
  <1>1. ASSUME NEW k \in Keys, handleUpdate(r, k) \/ handleDelete(r, k)
        PROVE  IInv'
    <2>1. PICK op \in {"update", "delete"} : BeginLocked(r, op, k)
      BY <1>1 DEF handleUpdate, handleDelete
    <2>2. LocksGrow(r)
      BY <2>1 DEF BeginLocked, IInv, LocksOK, LocksGrow
    <2>3. QED
      BY <2>1, <2>2, OpenKeeps DEF BeginLocked, Ops, MemberOps
  <1>2. ASSUME NEW k \in Keys, NEW u \in Users, handleRemoveMember(r, u, k)
        PROVE  IInv'
    BY <1>2, OpenKeeps, LocksStay DEF handleRemoveMember, Begin, Ops, MemberOps
  <1>3. ASSUME NEW k \in Keys, NEW u \in Users, NEW new \in Roles,
               handleAddMember(r, u, new, k) \/ handleUpdateRole(r, u, new, k)
        PROVE  IInv'
    <2>1. PICK op \in {"add", "update_role"} : Begin(r, op, u, new, k, None)
      BY <1>3 DEF handleAddMember, handleUpdateRole
    <2>2. QED BY <2>1, OpenKeeps, LocksStay DEF Begin, Ops
  <1>4. ASSUME NEW k \in Keys, NEW i \in Invites, handleRevokeInvitation(r, i, k)
        PROVE  IInv'
    BY <1>4, OpenKeeps, LocksStay, WorkspacesAssumption
       DEF handleRevokeInvitation, Begin, Ops, MemberOps
  <1>5. ASSUME NEW k \in Keys, NEW i \in Invites, NEW new \in Roles,
               handleCreateInvitation(r, i, new, k)
        PROVE  IInv'
    BY <1>5, OpenKeeps, LocksStay, WorkspacesAssumption
       DEF handleCreateInvitation, Begin, Ops, MemberOps
  <1>6. ASSUME NEW k \in Keys, NEW i \in Invites, NEW u \in Users,
               handleAcceptInvitation(r, i, u, k)
        PROVE  IInv'
    <2>1. invitation[i] # None /\ invitation[i].role \in Roles
      BY <1>6 DEF handleAcceptInvitation, IInv, TablesOK, Invitation
    <2>2. PICK new \in Roles : new = invitation[i].role
      BY <2>1
    <2>3. Open(r, "accept", u, new, k, i, "claim")
      BY <1>6, <2>2 DEF handleAcceptInvitation
    <2>4. LocksGrow(r) /\ inviteLock'[i] = r
      BY <1>6 DEF handleAcceptInvitation, Free, IInv, LocksOK, LocksGrow
    <2>5. "accept" \in Ops /\ i # None
      BY WorkspacesAssumption DEF Ops
    <2>6. QED BY <2>1, <2>3, <2>4, <2>5, OpenKeeps
  <1>7. QED BY <1>1, <1>2, <1>3, <1>4, <1>5, <1>6 DEF Handlers
----------------------------------------------------------------------------
(* The statements                                                          *)

\* A transaction that keeps its input and its key.
Same(r) ==
  /\ request'[r].op = request[r].op /\ request'[r].user = request[r].user
  /\ request'[r].role = request[r].role /\ request'[r].key = request[r].key
  /\ request'[r].invite = request[r].invite

\* A transaction that has its key, and goes from one statement to another.
LEMMA StatementKeeps ==
  ASSUME IInv, NEW r \in Requests, request[r].pc \notin {"idle", "claim"},
         UNCHANGED tables, LocksGrow(r),
         request' \in [Requests -> Txn], OthersKept(r), Same(r),
         request'[r].shares = request[r].shares,
         request'[r].pc \in Path(request[r].op) \ {"claim"},
         HasInvitation(r, request[r])', HasMember(r, request[r])'
  PROVE  IInv'
  <1>1. Local(r, request[r])
    BY DEF IInv, RequestsOK
  <1>2. request'[r].pc # "idle"
    BY DEF Path
  <1>3. Input(request[r])' /\ (request'[r].shares => request'[r].key \notin keys')
    BY <1>1 DEF Local, Input, Same, tables
  <1>4. Local(r, request[r])'
    BY <1>2, <1>3 DEF Local
  <1>5. \A q \in Requests \ {r} : Apart(request[r], request[q])'
    BY DEF Apart, OthersKept, Same, IInv, RequestsOK
  <1>6. QED BY <1>2, <1>4, <1>5, AdvanceKeeps

\* What Move does to the requests.
LEMMA MoveType ==
  ASSUME IInv, NEW r \in Requests, NEW pc \in Points, Move(r, pc)
  PROVE  /\ request' \in [Requests -> Txn] /\ OthersKept(r) /\ Same(r)
         /\ request'[r].shares = request[r].shares /\ request'[r].pc = pc
         /\ request'[r].admins = request[r].admins
  <1>1. request \in [Requests -> Txn] /\ request[r] \in Txn
    BY DEF IInv, RequestsOK
  <1>2. [request[r] EXCEPT !.pc = pc] \in Txn
    BY <1>1 DEF Txn
  <1>3. QED BY <1>1, <1>2 DEF Move, OthersKept, Same, Txn

LEMMA ClaimKeeps ==
  ASSUME IInv, NEW r \in Requests, claimIdempotencyKey(r)
  PROVE  IInv'
  <1>1. CASE request[r].key \in keys
    BY <1>1, RefuseKeeps DEF claimIdempotencyKey
  <1>2. CASE request[r].key \notin keys
    <2>1. /\ request \in [Requests -> Txn] /\ request[r] \in Txn
          /\ request[r].pc = "claim" /\ Local(r, request[r])
      BY DEF IInv, RequestsOK, claimIdempotencyKey, At
    <2>2. /\ Input(request[r]) /\ HasInvitation(r, request[r]) /\ HasMember(r, request[r])
      BY <2>1 DEF Local
    <2>3. InsertReferring(r, AfterClaim(request[r].op))
      BY <1>2 DEF claimIdempotencyKey
    <2>4. PICK pc \in Path(request[r].op) \ {"claim"} : pc = AfterClaim(request[r].op)
      BY <2>2 DEF Input, AfterClaim, Path, Ops
    <2>5. pc \in Points \ {"idle"} /\ (pc = "commit" => request[r].op \in {"invite", "update"})
          /\ pc \notin {"target", "change"}
      BY <2>2, <2>4 DEF Input, AfterClaim, Path, Ops, Points
    <2>6. request' = [request EXCEPT ![r].pc = pc, ![r].shares = TRUE]
      BY <2>3, <2>4 DEF InsertReferring
    <2>7. [request[r] EXCEPT !.pc = pc, !.shares = TRUE] \in Txn
      BY <2>1, <2>5 DEF Txn
    <2>8. /\ request' \in [Requests -> Txn] /\ OthersKept(r) /\ Same(r)
          /\ request'[r].shares = TRUE /\ request'[r].pc = pc
      BY <2>1, <2>6, <2>7 DEF OthersKept, Same, Txn
    <2>9. UNCHANGED tables /\ UNCHANGED locks
      BY <2>3 DEF InsertReferring
    <2>10. HasInvitation(r, request[r])'
      BY <2>2, <2>5, <2>8, <2>9 DEF HasInvitation, Same, tables, locks
    <2>11. HasMember(r, request[r])'
      BY <2>2, <2>5, <2>8, <2>9 DEF HasMember, Same, MemberOps, Counting
    <2>12. Input(request[r])' /\ request'[r].key \notin keys'
      BY <1>2, <2>2, <2>4, <2>8, <2>9 DEF Input, Same, tables
    <2>13. Local(r, request[r])'
      BY <2>5, <2>8, <2>10, <2>11, <2>12 DEF Local
    <2>14. \A q \in Requests \ {r} : Apart(request[r], request[q])'
      BY <2>8 DEF Apart, OthersKept, Same, IInv, RequestsOK, claimIdempotencyKey
    <2>15. QED BY <2>5, <2>8, <2>9, <2>13, <2>14, LocksStay, AdvanceKeeps
  <1>3. QED BY <1>1, <1>2

\* A transaction that is open: its local facts.
LEMMA OpenFacts ==
  ASSUME IInv, NEW r \in Requests, request[r].pc # "idle"
  PROVE  /\ request \in [Requests -> Txn] /\ request[r] \in Txn
         /\ Input(request[r]) /\ HasInvitation(r, request[r]) /\ HasMember(r, request[r])
         /\ request[r].admins \subseteq Users
  BY DEF IInv, RequestsOK, Local, Txn

\* A statement that only moves on, or refuses.
LEMMA RequireKeeps ==
  ASSUME IInv, NEW r \in Requests, NEW condition \in BOOLEAN, NEW pc \in Points,
         request[r].pc \notin {"idle", "claim", "target", "change", "commit"},
         pc \in Path(request[r].op) \ {"claim", "target", "change"},
         pc = "commit" => request[r].op = "delete",
         Require(r, condition, pc)
  PROVE  IInv'
  <1>1. CASE ~condition
    BY <1>1, RefuseKeeps DEF Require
  <1>2. CASE condition
    <2>1. Move(r, pc) /\ UNCHANGED tables /\ UNCHANGED locks
      BY <1>2 DEF Require
    <2>2. HasInvitation(r, request[r])'
      BY <2>1, OpenFacts, MoveType DEF HasInvitation, Same, tables, locks
    <2>3. HasMember(r, request[r])'
      BY <2>1, OpenFacts, MoveType DEF HasMember, Same, MemberOps, Counting
    <2>4. QED BY <2>1, <2>2, <2>3, MoveType, LocksStay, StatementKeeps
  <1>3. QED BY <1>1, <1>2

LEMMA ActiveRunsKeep ==
  ASSUME IInv, NEW r \in Requests, CheckActiveRuns(r)
  PROVE  IInv'
  <1>1. request[r].pc = "runs" /\ request[r].op \in {"remove", "delete"}
    BY OpenFacts DEF CheckActiveRuns, At, Input, Ops, Path
  <1>2. CASE request[r].op = "delete"
    <2>1. Require(r, running = {}, "commit")
      BY <1>2 DEF CheckActiveRuns
    <2>2. QED BY <1>1, <1>2, <2>1, RequireKeeps DEF Path, Points
  <1>3. CASE request[r].op = "remove"
    <2>1. Require(r, request[r].user \notin running, "count")
      BY <1>3 DEF CheckActiveRuns
    <2>2. PICK condition \in BOOLEAN : condition = (request[r].user \notin running)
      OBVIOUS
    <2>3. QED BY <1>1, <1>3, <2>1, <2>2, RequireKeeps DEF Path, Points
  <1>4. QED BY <1>1, <1>2, <1>3

LEMMA SelectKeeps ==
  ASSUME IInv, NEW r \in Requests, SelectAdmins(r)
  PROVE  IInv'
  <1> DEFINE seen == { u \in Users : role[u] = "admin" }
  <1>1. request[r].pc = "count" /\ request[r].op \in Counting
    BY OpenFacts DEF SelectAdmins, At, Input, Ops, Path, Counting
  <1>2. [request[r] EXCEPT !.pc = "lock", !.admins = seen] \in Txn
    BY <1>1, OpenFacts DEF Txn, Points
  <1>3. request' = [request EXCEPT ![r].pc = "lock", ![r].admins = seen]
    BY DEF SelectAdmins
  <1> HIDE DEF seen
  <1>4. /\ request' \in [Requests -> Txn] /\ OthersKept(r) /\ Same(r)
        /\ request'[r].shares = request[r].shares /\ request'[r].pc = "lock"
    BY <1>1, <1>2, <1>3, OpenFacts DEF OthersKept, Same, Txn
  <1>5. UNCHANGED tables /\ UNCHANGED locks
    BY DEF SelectAdmins
  <1>6. HasInvitation(r, request[r])'
    BY <1>1, <1>4, <1>5, OpenFacts DEF HasInvitation, Same, Counting
  <1>7. HasMember(r, request[r])'
    BY <1>4 DEF HasMember
  <1>8. "lock" \in Path(request[r].op) \ {"claim"}
    BY <1>1 DEF Path, Counting
  <1>9. QED BY <1>1, <1>4, <1>5, <1>6, <1>7, <1>8, LocksStay, StatementKeeps

LEMMA LockAdminsKeeps ==
  ASSUME IInv, NEW r \in Requests, LockAdmins(r)
  PROVE  IInv'
  <1> DEFINE admins == { u \in request[r].admins : role[u] = "admin" }
  <1>1. request[r].pc = "lock" /\ request[r].op \in Counting
    BY OpenFacts DEF LockAdmins, At, Input, Ops, Path, Counting
  <1>2. [request[r] EXCEPT !.pc = "target", !.admins = admins] \in Txn
    BY <1>1, OpenFacts DEF Txn, Points
  <1>3. /\ request' = [request EXCEPT ![r].pc = "target", ![r].admins = admins]
        /\ memberLock' = [u \in Users |-> IF u \in admins THEN r ELSE memberLock[u]]
        /\ \A u \in admins : memberLock[u] \in {None, r} /\ role[u] = "admin"
        /\ UNCHANGED tables /\ UNCHANGED << inviteLock, wsLock >>
        /\ admins \subseteq Users
    BY <1>1, OpenFacts DEF LockAdmins, Free
  <1> HIDE DEF admins
  <1>4. /\ request' \in [Requests -> Txn] /\ OthersKept(r) /\ Same(r)
        /\ request'[r].shares = request[r].shares /\ request'[r].pc = "target"
        /\ request'[r].admins = admins
    BY <1>1, <1>2, <1>3, OpenFacts DEF OthersKept, Same, Txn
  <1>5. LocksGrow(r)
    BY <1>3 DEF LocksGrow, IInv, LocksOK
  <1>6. HasInvitation(r, request[r])'
    BY <1>1, <1>4, OpenFacts DEF HasInvitation, Same, Counting
  <1>7. HasMember(r, request[r])'
    BY <1>3, <1>4 DEF HasMember, tables
  <1>8. "target" \in Path(request[r].op) \ {"claim"}
    BY <1>1 DEF Path, Counting
  <1>9. QED BY <1>1, <1>3, <1>4, <1>5, <1>6, <1>7, <1>8, StatementKeeps

\* A count of more than one leaves an admin beside the target.
LEMMA OtherAdmin ==
  ASSUME NEW S \in SUBSET Users, NEW u \in Users, Cardinality(S) > 1
  PROVE  \E v \in S : v # u
  <1>1. SUFFICES ASSUME S \subseteq {u} PROVE FALSE
    OBVIOUS
  <1>2. S = {} \/ S = {u}
    BY <1>1
  <1>3. Cardinality(S) \in {0, 1}
    BY <1>2, FS_EmptySet, FS_Singleton
  <1>4. QED BY <1>3

LEMMA TargetKeeps ==
  ASSUME IInv, NEW r \in Requests, CheckTarget(r)
  PROVE  IInv'
  <1> DEFINE t == request[r]
  <1>1. t.pc = "target" /\ t.op \in Counting /\ t.user \in Users /\ t.admins \subseteq Users
    BY OpenFacts DEF CheckTarget, At, Input, Ops, Path, Counting, MemberOps
  <1>2. CASE ~(Cardinality(t.admins) > 1 \/ role[t.user] # "admin")
    BY <1>2, RefuseKeeps DEF CheckTarget
  <1>3. CASE Cardinality(t.admins) > 1 \/ role[t.user] # "admin"
    <2>1. Move(r, "change") /\ UNCHANGED tables /\ UNCHANGED locks
      BY <1>3 DEF CheckTarget
    <2>2. \A u \in t.admins : memberLock[u] = r /\ role[u] = "admin"
      BY <1>1, OpenFacts DEF HasMember
    <2>3. t.admins = {} \/ \E u \in t.admins : u # t.user
      <3>1. CASE Cardinality(t.admins) > 1
        BY <1>1, <3>1, OtherAdmin
      <3>2. CASE role[t.user] # "admin"
        BY <2>2, <3>2
      <3>3. QED BY <1>3, <3>1, <3>2
    <2>4. /\ request'[r].pc = "change" /\ Same(r) /\ request'[r].admins = t.admins
      BY <2>1, MoveType DEF Points
    <2>5. HasInvitation(r, request[r])'
      BY <1>1, <2>4 DEF HasInvitation, Same, Counting
    <2>6. HasMember(r, request[r])'
      BY <2>1, <2>2, <2>3, <2>4 DEF HasMember, Same, tables, locks
    <2>7. "change" \in Path(t.op) \ {"claim"}
      BY <1>1 DEF Path, Counting
    <2>8. QED
      BY <1>1, <2>1, <2>5, <2>6, <2>7, MoveType, LocksStay, StatementKeeps DEF Points
  <1>4. QED BY <1>2, <1>3

\* A statement that locks the row of a member, and is followed by the commit.
LEMMA LockMemberKeeps ==
  ASSUME IInv, NEW r \in Requests,
         request[r].pc \in {"change", "insert", "accept"}, request[r].op \in MemberOps,
         Free(memberLock, request[r].user, r),
         memberLock' = [memberLock EXCEPT ![request[r].user] = r],
         Move(r, "commit"), UNCHANGED << tables, inviteLock, wsLock >>,
         request[r].op \in {"add", "accept"} => role[request[r].user] = None,
         request[r].op = "accept" => ~invitation[request[r].invite].revoked
  PROVE  IInv'
  <1> DEFINE t == request[r]
  <1>1. /\ t \in Txn /\ Input(t) /\ HasInvitation(r, t) /\ HasMember(r, t)
        /\ t.admins \subseteq Users /\ t.user \in Users
    BY OpenFacts DEF Input
  <1>2. /\ request'[r].pc = "commit" /\ Same(r) /\ request'[r].admins = t.admins
        /\ request'[r].shares = t.shares
        /\ request' \in [Requests -> Txn] /\ OthersKept(r)
    BY MoveType DEF Points
  <1>3. LocksGrow(r) /\ memberLock'[t.user] = r
    BY <1>1 DEF Free, LocksGrow, IInv, LocksOK
  <1>4. \A u \in Users : memberLock[u] = r => memberLock'[u] = r
    BY <1>3 DEF LocksGrow
  <1>5. t.op \in Counting => t.pc = "change"
    BY <1>1 DEF Input, Path, Counting
  <1>6. t.op \in Counting => /\ \A u \in t.admins : memberLock'[u] = r /\ role[u] = "admin"
                             /\ t.admins = {} \/ \E u \in t.admins : u # t.user
    BY <1>1, <1>4, <1>5 DEF HasMember
  <1>7. HasMember(r, request[r])'
    BY <1>2, <1>3, <1>6 DEF HasMember, Same, tables
  <1>8. HasInvitation(r, request[r])'
    BY <1>1, <1>2 DEF HasInvitation, Same, tables, MemberOps
  <1>9. "commit" \in Path(t.op) \ {"claim"}
    BY <1>1 DEF Path, MemberOps, Input, Ops
  <1>10. QED BY <1>2, <1>3, <1>7, <1>8, <1>9, StatementKeeps

LEMMA ChangeKeeps ==
  ASSUME IInv, NEW r \in Requests, ChangeMember(r)
  PROVE  IInv'
  <1>1. request[r].pc = "change" /\ request[r].op \in {"update_role", "remove"}
    BY OpenFacts DEF ChangeMember, At, Input, Ops, Path
  <1>2. CASE role[request[r].user] = None
    BY <1>2, RefuseKeeps DEF ChangeMember
  <1>3. CASE role[request[r].user] # None
    BY <1>1, <1>3, LockMemberKeeps DEF ChangeMember, MemberOps
  <1>4. QED BY <1>2, <1>3

LEMMA InsertKeeps ==
  ASSUME IInv, NEW r \in Requests, InsertMember(r)
  PROVE  IInv'
  <1>1. request[r].pc = "insert" /\ request[r].op = "add"
    BY OpenFacts DEF InsertMember, At, Input, Ops, Path
  <1>2. CASE role[request[r].user] # None
    BY <1>2, RefuseKeeps DEF InsertMember
  <1>3. CASE role[request[r].user] = None
    BY <1>1, <1>3, LockMemberKeeps DEF InsertMember, MemberOps
  <1>4. QED BY <1>2, <1>3

LEMMA AcceptKeeps ==
  ASSUME IInv, NEW r \in Requests, AcceptInvitation(r)
  PROVE  IInv'
  <1> DEFINE open == invitation[request[r].invite]
  <1>1. request[r].pc = "accept" /\ request[r].op = "accept"
    BY OpenFacts DEF AcceptInvitation, At, Input, Ops, Path
  <1>2. CASE open.revoked \/ open.expired \/ role[request[r].user] # None
    BY <1>2, RefuseKeeps DEF AcceptInvitation
  <1>3. CASE ~(open.revoked \/ open.expired \/ role[request[r].user] # None)
    BY <1>1, <1>3, LockMemberKeeps DEF AcceptInvitation, MemberOps
  <1>4. QED BY <1>2, <1>3

LEMMA RevokeKeeps ==
  ASSUME IInv, NEW r \in Requests, RevokeInvitation(r)
  PROVE  IInv'
  <1> DEFINE t == request[r]
             gone == invitation[t.invite] = None \/ invitation[t.invite].revoked
  <1>1. t.pc = "revoke" /\ t.op = "revoke" /\ t.invite \in Invites
    BY OpenFacts DEF RevokeInvitation, At, Input, Ops, Path
  <1>2. CASE gone
    BY <1>2, RefuseKeeps DEF RevokeInvitation
  <1>3. CASE ~gone
    <2>1. /\ Free(inviteLock, t.invite, r)
          /\ inviteLock' = [inviteLock EXCEPT ![t.invite] = r]
          /\ Move(r, "commit") /\ UNCHANGED << tables, memberLock, wsLock >>
      BY <1>3 DEF RevokeInvitation
    <2>2. LocksGrow(r) /\ inviteLock'[t.invite] = r
      BY <1>1, <2>1 DEF Free, LocksGrow, IInv, LocksOK
    <2>3. /\ request'[r].pc = "commit" /\ Same(r)
          /\ request'[r].shares = t.shares
          /\ request' \in [Requests -> Txn] /\ OthersKept(r)
      BY <2>1, MoveType DEF Points
    <2>4. HasInvitation(r, request[r])'
      BY <1>1, <1>3, <2>1, <2>2, <2>3 DEF HasInvitation, Same, tables
    <2>5. HasMember(r, request[r])'
      BY <1>1, <2>3 DEF HasMember, Same, MemberOps, Counting
    <2>6. "commit" \in Path(t.op) \ {"claim"} /\ UNCHANGED tables
      BY <1>1, <2>1 DEF Path
    <2>7. QED BY <1>1, <2>2, <2>3, <2>4, <2>5, <2>6, StatementKeeps
  <1>4. QED BY <1>2, <1>3
----------------------------------------------------------------------------
(* The commit                                                              *)

AuditRow == [op : Ops \cup {"create"}, key : Keys \cup {None}, invite : Invites \cup {None}]

\* What a commit does to the invitations: it creates one that was not there,
\* or uses up one that was open.
LEMMA CommitInvitation ==
  ASSUME IInv, NEW r \in Requests, Commit(r)
  PROVE  /\ invitation' \in [Invites -> {None} \cup Invitation]
         /\ \A i \in Invites : i # request[r].invite => invitation'[i] = invitation[i]
         /\ \A i \in Invites : invitation[i] # None /\ invitation[i].revoked =>
              invitation'[i] # None /\ invitation'[i].revoked
         /\ request[r].op \in {"accept", "revoke"} =>
              /\ request[r].invite \in Invites
              /\ invitation[request[r].invite] # None /\ ~invitation[request[r].invite].revoked
              /\ invitation'[request[r].invite] # None /\ invitation'[request[r].invite].revoked
         /\ request[r].op \notin {"accept", "revoke", "invite"} => invitation' = invitation
  <1> DEFINE t == request[r]
  <1>1. /\ t.pc = "commit" /\ Input(t) /\ HasInvitation(r, t)
        /\ invitation \in [Invites -> {None} \cup Invitation]
    BY OpenFacts DEF Commit, At, IInv, TablesOK
  <1>2. CASE t.op = "invite"
    <2>1. /\ invitation' = [invitation EXCEPT ![t.invite] =
                              [role |-> t.role, revoked |-> FALSE, expired |-> FALSE]]
          /\ t.invite \in Invites /\ t.role \in Roles /\ invitation[t.invite] = None
      BY <1>1, <1>2 DEF Commit, Input, HasInvitation
    <2>2. [role |-> t.role, revoked |-> FALSE, expired |-> FALSE] \in Invitation
      BY <2>1 DEF Invitation
    <2>3. QED BY <1>1, <1>2, <2>1, <2>2
  <1>3. CASE t.op \in {"accept", "revoke"}
    <2>1. /\ invitation' = [invitation EXCEPT ![t.invite].revoked = TRUE]
          /\ t.invite \in Invites
          /\ invitation[t.invite] # None /\ ~invitation[t.invite].revoked
      BY <1>1, <1>3 DEF Commit, Input, HasInvitation
    <2>2. invitation[t.invite] \in Invitation
      BY <1>1, <2>1
    <2>3. /\ [invitation[t.invite] EXCEPT !.revoked = TRUE] \in Invitation
          /\ [invitation[t.invite] EXCEPT !.revoked = TRUE].revoked
      BY <2>2 DEF Invitation
    <2>4. /\ invitation'[t.invite] = [invitation[t.invite] EXCEPT !.revoked = TRUE]
          /\ \A i \in Invites : i # t.invite => invitation'[i] = invitation[i]
          /\ invitation' \in [Invites -> {None} \cup Invitation]
      BY <1>1, <2>1, <2>3
    <2>5. invitation'[t.invite] # None
      BY <2>3, <2>4, WorkspacesAssumption
    <2>6. QED BY <1>3, <2>1, <2>3, <2>4, <2>5
  <1>4. CASE t.op \notin {"accept", "revoke", "invite"}
    <2>1. invitation' = invitation
      BY <1>4 DEF Commit
    <2>2. QED BY <1>1, <1>4, <2>1
  <1>5. QED BY <1>2, <1>3, <1>4

\* What it does to the members: it changes the row that it has locked.
LEMMA CommitMember ==
  ASSUME IInv, NEW r \in Requests, Commit(r)
  PROVE  /\ role' \in [Users -> Roles \cup {"admin", None}]
         /\ \A u \in Users :
              \/ role'[u] = role[u]
              \/ memberLock[u] = r /\ u = request[r].user /\ request[r].op \in MemberOps
  <1> DEFINE t == request[r]
  <1>1. /\ t.pc = "commit" /\ Input(t) /\ HasMember(r, t) /\ t \in Txn
        /\ role \in [Users -> Roles \cup {"admin", None}]
    BY OpenFacts DEF Commit, At, IInv, TablesOK
  <1>2. CASE t.op \in MemberOps
    <2>1. role' = [role EXCEPT ![t.user] = t.role] /\ t.user \in Users /\ memberLock[t.user] = r
      BY <1>1, <1>2 DEF Commit, Input, HasMember
    <2>2. t.role \in Roles \cup {None}
      BY <1>1 DEF Txn
    <2>3. QED BY <1>1, <1>2, <2>1, <2>2
  <1>3. CASE t.op \notin MemberOps
    BY <1>1, <1>3 DEF Commit
  <1>4. QED BY <1>2, <1>3

\* The audit event of a commit is a new one for its key and its invitation.
LEMMA CommitAudit ==
  ASSUME IInv, NEW r \in Requests, Commit(r)
  PROVE  AuditOK' /\ audit' \in Seq(AuditRow)
  <1> DEFINE t == request[r]
             n == Len(audit)
             e == Event(r)
  <1>1. /\ t.pc = "commit" /\ Input(t) /\ t \in Txn /\ Local(r, t) /\ t.key \in Keys
        /\ t.key \notin keys /\ t.key # None
    BY OpenFacts, WorkspacesAssumption DEF Commit, At, Input, Local, IInv, RequestsOK
  <1>2. audit \in Seq(AuditRow)
    BY DEF IInv, TablesOK, AuditRow
  <1>3. e \in AuditRow /\ e.op = t.op /\ e.key = t.key /\ e.invite = t.invite
    BY <1>1 DEF Event, AuditRow, Txn, Input
  <1>4. audit' = Append(audit, e) /\ keys' = keys \cup {t.key}
    BY DEF Commit
  <1> HIDE DEF e
  <1>5. /\ audit' \in Seq(AuditRow) /\ n \in Nat
        /\ DOMAIN audit = 1 .. n /\ DOMAIN audit' = 1 .. n + 1
        /\ \A i \in 1 .. n : audit'[i] = audit[i]
        /\ audit'[n + 1] = e
    BY <1>2, <1>3, <1>4
  <1> HIDE DEF n
  <1>6. \A i \in DOMAIN audit' : (i \in DOMAIN audit /\ audit'[i] = audit[i])
                                   \/ (i = n + 1 /\ audit'[i] = e)
    BY <1>5
  <1>7. AuditOK
    BY DEF IInv
  <1>8. \A i \in DOMAIN audit' : audit'[i].key # None => audit'[i].key \in keys'
    BY <1>3, <1>4, <1>6, <1>7 DEF AuditOK
  <1>9. \A i \in DOMAIN audit' :
          audit'[i].op \in {"accept", "revoke"} =>
            /\ audit'[i].invite \in Invites /\ invitation'[audit'[i].invite] # None
            /\ invitation'[audit'[i].invite].revoked
    BY <1>3, <1>6, <1>7, CommitInvitation DEF AuditOK
  <1>10. AppliedOnce'
    BY <1>1, <1>3, <1>6, <1>7 DEF AuditOK, AppliedOnce
  <1>11. InvitationOnce'
    <2>1. \A i \in DOMAIN audit :
            audit[i].op \in {"accept", "revoke"} /\ e.op \in {"accept", "revoke"} =>
              audit[i].invite # e.invite
      BY <1>3, <1>7, CommitInvitation DEF AuditOK
    <2>2. QED BY <1>6, <1>7, <2>1 DEF AuditOK, InvitationOnce
  <1>12. QED BY <1>5, <1>8, <1>9, <1>10, <1>11 DEF AuditOK

LEMMA CommitKeeps ==
  ASSUME IInv, NEW r \in Requests, Commit(r)
  PROVE  IInv'
  <1> DEFINE t == request[r]
  <1>1. /\ t.pc = "commit" /\ Input(t) /\ HasInvitation(r, t) /\ HasMember(r, t) /\ t.shares
    BY OpenFacts DEF Commit, At, Input
  <1>2. End(r) /\ keys' = keys \cup {t.key} /\ running' = running
    BY DEF Commit
  <1>3. TablesOK' /\ AuditOK'
    <2>1. deleted' \in BOOLEAN /\ keys' \subseteq Keys
      BY <1>1 DEF Commit, IInv, TablesOK, Input
    <2>2. QED BY <1>2, <2>1, CommitInvitation, CommitMember, CommitAudit
              DEF TablesOK, IInv, AuditRow
  <1>4. ASSUME NEW q \in Requests \ {r}, request[q].pc # "idle"
        PROVE  /\ request[q].shares => request[q].key \notin keys'
               /\ HasInvitation(q, request[q])'
               /\ HasMember(q, request[q])'
    <2> DEFINE s == request[q]
    <2>1. /\ request'[q] = s /\ Local(q, s) /\ Apart(t, s) /\ q # r
          /\ \A u \in Users : memberLock[u] = q => memberLock'[u] = q
          /\ \A i \in Invites : inviteLock[i] = q => inviteLock'[i] = q
      BY <1>2, EndReleases DEF OthersKept, LocksReleased, IInv, RequestsOK
    <2>2. /\ Input(s) /\ (s.shares => s.key \notin keys) /\ s \in Txn
          /\ HasInvitation(q, s) /\ HasMember(q, s)
      BY <1>4, <2>1 DEF Local
    <2>3. s.shares => s.key \notin keys'
      BY <1>1, <1>2, <2>1, <2>2 DEF Apart
    <2>4. HasInvitation(q, request[q])'
      <3>1. CASE s.op \notin {"invite", "accept", "revoke"}
        BY <2>1, <3>1 DEF HasInvitation
      <3>2. CASE s.op \in {"invite", "accept", "revoke"} /\ s.invite # t.invite
        BY <2>1, <2>2, <3>2, CommitInvitation DEF HasInvitation, Input
      <3>3. CASE s.op \in {"invite", "accept", "revoke"} /\ s.invite = t.invite
        <4>1. s.invite \in Invites /\ t.op \in {"invite", "accept", "revoke"}
          BY <1>1, <2>2, <3>3, WorkspacesAssumption DEF Input
        <4>2. t.op = "invite" => s.op = "revoke" /\ s.pc # "commit"
          BY <1>1, <2>1, <2>2, <3>3, <4>1 DEF HasInvitation, Apart
        <4>3. t.op \in {"accept", "revoke"} => s.op = "revoke" /\ s.pc # "commit"
          BY <1>1, <2>1, <2>2, <3>3, <4>1 DEF HasInvitation
        <4>4. QED BY <2>1, <4>1, <4>2, <4>3 DEF HasInvitation
      <3>4. QED BY <3>1, <3>2, <3>3
    <2>5. HasMember(q, request[q])'
      <3>1. \A u \in Users : memberLock[u] = q => role'[u] = role[u]
        BY <2>1, CommitMember
      <3>2. s.op \in MemberOps => s.user \in Users
        BY <2>2 DEF Input
      <3>3. s.admins \subseteq Users
        BY <2>2 DEF Txn
      <3>4. QED BY <2>1, <2>2, <3>1, <3>2, <3>3 DEF HasMember, MemberOps
    <2>6. QED BY <2>3, <2>4, <2>5
  <1>5. QED BY <1>2, <1>3, <1>4, EndKeeps
----------------------------------------------------------------------------
(* Theorems                                                                *)

\* Runs come and go, and invitations expire, beside the transactions.
LEMMA OutsideKeeps ==
  ASSUME IInv, \/ \E u \in Runners : RunStarts(u) \/ RunEnds(u)
               \/ \E i \in Invites : InvitationExpires(i)
  PROVE  IInv'
  <1>1. CASE \E u \in Runners : RunStarts(u) \/ RunEnds(u)
    BY <1>1 DEF RunStarts, RunEnds, locks, IInv, TablesOK, AuditOK, AppliedOnce,
                InvitationOnce, LocksOK, Locks, At, RequestsOK, Local, HasInvitation, HasMember
  <1>2. ASSUME NEW j \in Invites, InvitationExpires(j) PROVE IInv'
    <2>1. /\ invitation[j] \in Invitation
          /\ invitation' = [invitation EXCEPT ![j].expired = TRUE]
          /\ UNCHANGED << deleted, role, keys, running, audit, request, locks >>
      BY <1>2 DEF InvitationExpires, IInv, TablesOK
    <2>2. /\ [invitation[j] EXCEPT !.expired = TRUE] \in Invitation
          /\ [invitation[j] EXCEPT !.expired = TRUE].revoked = invitation[j].revoked
      BY <2>1 DEF Invitation
    <2>3. /\ invitation' \in [Invites -> {None} \cup Invitation]
          /\ \A i \in Invites : (invitation'[i] = None) = (invitation[i] = None)
          /\ \A i \in Invites : invitation'[i].revoked = invitation[i].revoked
      <3> DEFINE late == [invitation[j] EXCEPT !.expired = TRUE]
      <3>1. /\ late \in Invitation /\ late.revoked = invitation[j].revoked
            /\ invitation' = [invitation EXCEPT ![j] = late]
        BY <2>1, <2>2
      <3>2. invitation \in [Invites -> {None} \cup Invitation]
        BY DEF IInv, TablesOK
      <3>3. late # None /\ invitation[j] # None
        BY <2>1, <3>1, WorkspacesAssumption
      <3> HIDE DEF late
      <3> QED
        BY <3>1, <3>2, <3>3
    <2>4. TablesOK' /\ AuditOK' /\ LocksOK'
      BY <2>1, <2>3 DEF locks, IInv, TablesOK, AuditOK, AppliedOnce, InvitationOnce,
                        LocksOK, Locks, At
    <2>5. ASSUME NEW r \in Requests PROVE Local(r, request[r])'
      <3>1. CASE request[r].pc = "idle"
        BY <2>1, <3>1 DEF IInv, RequestsOK, Local
      <3>2. CASE request[r].pc # "idle"
        <4>1. HasInvitation(r, request[r])' /\ HasMember(r, request[r])'
          BY <2>1, <2>3, <3>2, OpenFacts DEF HasInvitation, HasMember, Input, locks
        <4>2. QED BY <2>1, <4>1 DEF IInv, RequestsOK, Local
      <3>3. QED BY <3>1, <3>2
    <2>6. RequestsOK'
      BY <2>1, <2>5 DEF IInv, RequestsOK
    <2>7. QED BY <2>4, <2>6 DEF IInv
  <1>3. QED BY <1>1, <1>2

LEMMA NextKeeps ==
  ASSUME IInv, [Next]_vars
  PROVE  IInv'
  <1>1. ASSUME NEW r \in Requests, Handlers(r) PROVE IInv'
    BY <1>1, HandlersKeep
  <1>2. ASSUME NEW r \in Requests, Statements(r) PROVE IInv'
    BY <1>2, ClaimKeeps, ActiveRunsKeep, SelectKeeps, LockAdminsKeeps, TargetKeeps,
       ChangeKeeps, InsertKeeps, RevokeKeeps, AcceptKeeps, CommitKeeps, RefuseKeeps
       DEF Statements, Rollback
  <1>3. CASE UNCHANGED vars
    BY <1>3 DEF vars, tables, locks, IInv, TablesOK, AuditOK, AppliedOnce, InvitationOnce,
                LocksOK, Locks, At, RequestsOK, Local, HasInvitation, HasMember
  <1>4. QED BY <1>1, <1>2, <1>3, OutsideKeeps DEF Next

LEMMA InitHolds == Init => IInv
  <1> SUFFICES ASSUME Init PROVE IInv
    OBVIOUS
  <1> DEFINE created == [op |-> "create", key |-> None, invite |-> None]
  <1>1. created \in AuditRow /\ created.key = None /\ created.op = "create"
    BY DEF AuditRow
  <1>2. audit = << created >>
    BY DEF Init
  <1> HIDE DEF created
  <1>3. audit \in Seq(AuditRow) /\ DOMAIN audit = {1} /\ audit[1] = created
    BY <1>1, <1>2
  <1>4. TablesOK
    BY <1>3, WorkspacesAssumption DEF Init, TablesOK, AuditRow
  <1>5. AuditOK
    BY <1>1, <1>3 DEF AuditOK, AppliedOnce, InvitationOnce
  <1>6. LocksOK
    BY DEF Init, LocksOK, Locks
  <1>7. /\ Idle \in Txn /\ Idle.pc = "idle" /\ Idle.shares = FALSE /\ Idle.op # "invite"
    BY WorkspacesAssumption DEF Idle, Txn, Points, Ops
  <1>8. \A r \in Requests : request[r] = Idle
    BY DEF Init
  <1>9. RequestsOK
    BY <1>7, <1>8 DEF RequestsOK, Init, Local, Apart
  <1>10. QED BY <1>4, <1>5, <1>6, <1>9 DEF IInv

\* Every reachable state has the inductive invariant.
LEMMA Inductive == Spec => []IInv
  BY InitHolds, NextKeeps, PTL DEF Spec

\* Tables and locks are well formed, and neither an idempotency key nor an
\* invitation is used twice: claimIdempotencyKey and the row locks of
\* handleAcceptInvitation and handleRevokeInvitation are enough, for any
\* number of concurrent requests.
THEOREM UsedOnce == Spec => []WorkspacesInv
  <1>1. IInv => WorkspacesInv
    BY DEF IInv, TablesOK, AuditOK, LocksOK, RequestsOK, Txn, WorkspacesInv, TypeOK
  <1>2. QED BY <1>1, Inductive, PTL

\* The members are changed by commits only.
LEMMA RolesByCommit ==
  ASSUME [Next]_vars
  PROVE  role' = role \/ \E r \in Requests : Commit(r)
  <1>1. ASSUME NEW r \in Requests, Handlers(r) PROVE role' = role
    BY <1>1 DEF Handlers, handleUpdate, handleDelete, BeginLocked, handleAddMember,
      handleUpdateRole, handleRemoveMember, handleCreateInvitation, handleRevokeInvitation,
      handleAcceptInvitation, Begin, Open, tables
  <1>2. ASSUME NEW r \in Requests, Statements(r), ~Commit(r) PROVE role' = role
    <2>1. CASE claimIdempotencyKey(r) \/ CheckActiveRuns(r)
      BY <2>1 DEF claimIdempotencyKey, InsertReferring, CheckActiveRuns, Require, Refuse, tables
    <2>2. CASE SelectAdmins(r) \/ LockAdmins(r) \/ CheckTarget(r)
      BY <2>2 DEF SelectAdmins, LockAdmins, CheckTarget, Refuse, tables
    <2>3. CASE ChangeMember(r) \/ InsertMember(r) \/ Rollback(r)
      BY <2>3 DEF ChangeMember, InsertMember, Rollback, Refuse, tables
    <2>4. CASE RevokeInvitation(r) \/ AcceptInvitation(r)
      BY <2>4 DEF RevokeInvitation, AcceptInvitation, Refuse, tables
    <2>5. QED BY <1>2, <2>1, <2>2, <2>3, <2>4 DEF Statements
  <1>3. ASSUME \/ \E u \in Runners : RunStarts(u) \/ RunEnds(u)
               \/ \E i \in Invites : InvitationExpires(i)
        PROVE  role' = role
    BY <1>3 DEF RunStarts, RunEnds, InvitationExpires
  <1>4. CASE UNCHANGED vars
    BY <1>4 DEF vars, tables
  <1>5. QED BY <1>1, <1>2, <1>3, <1>4 DEF Next

\* A transaction that counted an admin keeps one: the last admin is lost only
\* by a transaction whose SELECT ... FOR UPDATE returned no row.
THEOREM AdminsGuarded == Spec => LastAdminGuarded
  <1> DEFINE Blind == \E r \in Requests : /\ At(r, "commit") /\ request[r].admins = {}
                                          /\ request[r].op \in {"update_role", "remove"}
  <1>1. ASSUME IInv, [Next]_vars, AdminRemains, ~Blind PROVE AdminRemains'
    <2>1. PICK a \in Users : role[a] = "admin"
      BY <1>1 DEF AdminRemains
    <2>2. CASE role' = role
      BY <2>1, <2>2 DEF AdminRemains
    <2>3. ASSUME NEW r \in Requests, Commit(r) PROVE AdminRemains'
      <3> DEFINE t == request[r]
      <3>1. t.pc = "commit" /\ Input(t) /\ HasMember(r, t) /\ t.admins \subseteq Users
        BY <1>1, <2>3, OpenFacts DEF Commit, At
      <3>2. /\ \A u \in Users : \/ role'[u] = role[u]
                                \/ u = t.user /\ t.op \in MemberOps
        BY <1>1, <2>3, CommitMember
      <3>3. CASE t.op \in Counting
        <4>1. t.admins # {}
          BY <1>1, <3>1, <3>3 DEF At, Counting
        <4>2. PICK v \in t.admins : v # t.user
          BY <3>1, <3>3, <4>1 DEF HasMember
        <4>3. role[v] = "admin" /\ v \in Users
          BY <3>1, <3>3 DEF HasMember
        <4>4. QED BY <3>2, <4>2, <4>3 DEF AdminRemains
      <3>4. CASE t.op \in MemberOps \ Counting
        <4>1. role[t.user] = None /\ None # "admin"
          BY <3>1, <3>4, WorkspacesAssumption DEF HasMember, MemberOps, Counting
        <4>2. QED BY <2>1, <3>2, <4>1 DEF AdminRemains
      <3>5. CASE t.op \notin MemberOps
        BY <2>1, <3>2, <3>5 DEF AdminRemains
      <3>6. QED BY <3>3, <3>4, <3>5
    <2>4. QED BY <1>1, <2>2, <2>3, RolesByCommit
  <1>2. IInv /\ [Next]_vars => [AdminRemains => AdminRemains' \/ Blind]_vars
    BY <1>1
  <1>3. QED BY <1>2, Inductive, PTL DEF Spec, LastAdminGuarded
============================================================================
