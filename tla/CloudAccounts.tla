--------------------------- MODULE CloudAccounts ----------------------------
(***************************************************************************)
(* The AWS account of one workspace in cloud-account-service (backend/     *)
(* internal/cloudaccount/service.go): the slot that handleCreate fills or  *)
(* refills, handleUpdateStatus, handleVerify and handleDelete change, and  *)
(* the provisioning runs that depend on it.                                *)
(*                                                                         *)
(* As in Workspaces every SQL statement is a step that sees what is        *)
(* committed and waits for row locks, and writes appear at the commit,     *)
(* with the audit event.  handleVerify reads the row outside of any        *)
(* transaction, calls AWS, and writes in a transaction of its own.         *)
(***************************************************************************)
EXTENDS Naturals

CONSTANTS
  Calls,        \* requests that may be open at the same time
  CallKeys,     \* values of the Idempotency-Key header
  Submissions,  \* external ids, each with the metadata submitted along
  MaxAccounts,  \* bound on the rows ever inserted
  Nothing

validStatuses == {"pending", "active", "failed", "disconnected"}
Ids == 0 .. MaxAccounts
Row == [id : Ids, status : validStatuses, hash : Submissions, metadata : Submissions]

ASSUME CloudAccountsAssumption ==
  /\ MaxAccounts \in Nat
  /\ Nothing \notin Calls \cup CallKeys \cup Submissions \cup Row

VARIABLES
  account,   \* the row of (workspace, aws), or Nothing
  inserted,  \* rows inserted so far: the id of the last one
  keys,      \* idempotency keys that are used
  dependent, \* the account that the active run depends on (0: none); Nothing without a run
  created,   \* the last creation that was answered with success
  call,      \* the open requests
  lock       \* the transaction that holds the slot: its row or its unique key

accountVars == << account, inserted, keys, dependent, created, call, lock >>
----------------------------------------------------------------------------
(* Calls                                                                   *)

NoCall == [pc |-> "idle", op |-> Nothing, key |-> Nothing, id |-> 0, submission |-> Nothing,
           status |-> Nothing, metadata |-> Nothing, row |-> Nothing]

CallAt(r, pc) == call[r].pc = pc
Slot(r) == lock \in {Nothing, r}
Is(id) == account # Nothing /\ account.id = id

OpenCall(r, fields) ==
  /\ CallAt(r, "idle")
  /\ call' = [call EXCEPT ![r] = fields]
  /\ UNCHANGED << account, inserted, keys, dependent, created, lock >>

MoveCall(r, pc) ==
  /\ call' = [call EXCEPT ![r].pc = pc]
  /\ UNCHANGED << account, inserted, keys, dependent, created, lock >>

CloseCall(r) ==
  /\ call' = [call EXCEPT ![r] = NoCall]
  /\ lock' = IF lock = r THEN Nothing ELSE lock

RefuseCall(r) == CloseCall(r) /\ UNCHANGED << account, inserted, keys, dependent, created >>

\* The statement writes the row, which the commit will show.
Write(r, row) ==
  /\ call' = [call EXCEPT ![r].pc = "commit", ![r].row = row]
  /\ lock' = r
  /\ UNCHANGED << account, inserted, keys, dependent, created >>
----------------------------------------------------------------------------
(* Handlers                                                                *)

handleCreate(r, k, s) ==
  OpenCall(r, [NoCall EXCEPT !.pc = "claim", !.op = "create", !.key = k, !.submission = s])

handleUpdateStatus(r, k, id, status) ==
  OpenCall(r, [NoCall EXCEPT !.pc = "claim", !.op = "status", !.key = k, !.id = id, !.status = status])

handleDelete(r, k, id) ==
  OpenCall(r, [NoCall EXCEPT !.pc = "claim", !.op = "delete", !.key = k, !.id = id])

\* The row is read; validateVerificationPreconditions and verifyExternalIDHash.
\* An external id that does not match, or metadata without a role, fails it.
handleVerify(r, k, s) ==
  /\ account # Nothing /\ account.status \in {"pending", "failed"}
  /\ LET read == [NoCall EXCEPT !.op = "verify", !.id = account.id]
     IN  \/ /\ s = account.hash
            /\ OpenCall(r, [read EXCEPT !.pc = "aws", !.key = k, !.metadata = account.metadata])
         \/ OpenCall(r, [read EXCEPT !.pc = "failed"])

\* VerifyRole at AWS: a success claims the key, if there is one; a failure
\* does not.
VerifyRole(r) ==
  /\ CallAt(r, "aws")
  /\ \/ MoveCall(r, IF call[r].key = Nothing THEN "verified" ELSE "claim")
     \/ /\ call' = [call EXCEPT ![r].pc = "failed", ![r].key = Nothing]
        /\ UNCHANGED << account, inserted, keys, dependent, created, lock >>
----------------------------------------------------------------------------
(* Statements                                                              *)

AfterClaim(op) == CASE op = "create" -> "insert"   [] op = "status" -> "status"
                    [] op = "verify" -> "verified" [] op = "delete" -> "read"

Claims(q, k) == call[q].key = k /\ call[q].pc \notin {"idle", "claim", "aws", "failed"}

\* INSERT ... ON CONFLICT DO NOTHING waits for a transaction with the same key.
claimIdempotencyKey(r) ==
  /\ CallAt(r, "claim")
  /\ \A q \in Calls \ {r} : ~Claims(q, call[r].key)
  /\ IF call[r].key \in keys THEN RefuseCall(r) ELSE MoveCall(r, AfterClaim(call[r].op))

\* INSERT, or a unique violation and the retry behind its savepoint.
InsertAccount(r) ==
  /\ CallAt(r, "insert") /\ Slot(r)
  /\ IF account # Nothing THEN MoveCall(r, "retry")
     ELSE /\ inserted < MaxAccounts
          /\ Write(r, [id |-> inserted + 1, status |-> "pending",
                       hash |-> call[r].submission, metadata |-> call[r].submission])

Resubmitted(s) == [account EXCEPT !.hash = s, !.metadata = s]

\* Mutant of tryRetryPending: whatever the status is.
tryRetryAny(r) ==
  /\ CallAt(r, "retry") /\ Slot(r)
  /\ IF account = Nothing THEN RefuseCall(r) ELSE Write(r, Resubmitted(call[r].submission))

\* Mutant of tryRetryPending: an update of no row is taken for a success.
tryRetryUnchecked(r) ==
  /\ CallAt(r, "retry") /\ Slot(r)
  /\ IF account = Nothing \/ account.status # "pending" THEN MoveCall(r, "commit")
     ELSE Write(r, Resubmitted(call[r].submission))

\* UPDATE ... WHERE status = 'pending' RETURNING id; else "provider_slot_taken".
tryRetryPending(r) ==
  /\ CallAt(r, "retry") /\ Slot(r)
  /\ IF account = Nothing \/ account.status # "pending" THEN RefuseCall(r)
     ELSE Write(r, Resubmitted(call[r].submission))

SetStatus(r) ==
  /\ CallAt(r, "status") /\ Slot(r)
  /\ IF Is(call[r].id) THEN Write(r, [account EXCEPT !.status = call[r].status])
                          ELSE RefuseCall(r)

\* The updates of handleVerify take the row whatever its status is, and a row
\* that is gone is no error: active with the metadata that was read, or failed.
SetVerified(r) ==
  /\ CallAt(r, "verified") /\ Slot(r)
  /\ IF Is(call[r].id)
     THEN Write(r, [account EXCEPT !.status = "active", !.metadata = call[r].metadata])
     ELSE MoveCall(r, "commit")

SetFailed(r) ==
  /\ CallAt(r, "failed") /\ Slot(r)
  /\ IF Is(call[r].id) THEN Write(r, [account EXCEPT !.status = "failed"])
                          ELSE MoveCall(r, "commit")

\* The account is read, and the active runs are looked for.
CheckDelete(r) ==
  /\ CallAt(r, "read")
  /\ IF Is(call[r].id) /\ dependent = Nothing THEN MoveCall(r, "delete") ELSE RefuseCall(r)

\* DELETE ... AND NOT EXISTS (an active run)
DeleteAccount(r) ==
  /\ CallAt(r, "delete") /\ Slot(r)
  /\ IF Is(call[r].id) /\ dependent = Nothing THEN Write(r, Nothing) ELSE RefuseCall(r)

Commit(r) ==
  /\ CallAt(r, "commit")
  /\ account' = IF lock = r THEN call[r].row ELSE account
  /\ inserted' = IF account' # Nothing /\ account'.id > inserted THEN account'.id ELSE inserted
  /\ keys' = keys \cup ({call[r].key} \ {Nothing})
  /\ created' = IF call[r].op = "create"
                THEN [key |-> call[r].key, submission |-> call[r].submission] ELSE created
  /\ CloseCall(r)
  /\ UNCHANGED dependent

\* An error, a closed connection or a request that is not valid.
Abort(r) == ~CallAt(r, "idle") /\ RefuseCall(r)

\* createRun of the orchestrator commits, with the account that is there.
DependentStarts ==
  /\ dependent = Nothing
  /\ dependent' = IF account = Nothing THEN 0 ELSE account.id
  /\ UNCHANGED << account, inserted, keys, created, call, lock >>

DependentEnds ==
  /\ dependent # Nothing /\ dependent' = Nothing
  /\ UNCHANGED << account, inserted, keys, created, call, lock >>
----------------------------------------------------------------------------
AccountsInit ==
  /\ account = Nothing /\ inserted = 0 /\ keys = {} /\ dependent = Nothing /\ created = Nothing
  /\ call = [r \in Calls |-> NoCall] /\ lock = Nothing

AccountHandlers(r) ==
  \/ \E k \in CallKeys, s \in Submissions : handleCreate(r, k, s)
  \/ \E k \in CallKeys, id \in 1 .. inserted :
       handleDelete(r, k, id) \/ \E status \in validStatuses : handleUpdateStatus(r, k, id, status)
  \/ \E k \in CallKeys \cup {Nothing}, s \in Submissions : handleVerify(r, k, s)

AccountStatements(r) ==
  \/ claimIdempotencyKey(r) \/ InsertAccount(r) \/ tryRetryPending(r)
  \/ SetStatus(r) \/ VerifyRole(r) \/ SetVerified(r) \/ SetFailed(r)
  \/ CheckDelete(r) \/ DeleteAccount(r) \/ Commit(r) \/ Abort(r)

AccountsNext ==
  \/ \E r \in Calls : AccountHandlers(r) \/ AccountStatements(r)
  \/ DependentStarts \/ DependentEnds

AccountsSpec == AccountsInit /\ [][AccountsNext]_accountVars
----------------------------------------------------------------------------
(* Properties                                                              *)

\* A creation answered with success has stored what it was given, although
\* the status may change under a retry ("would otherwise make the retry report
\* success after updating zero rows", tryRetryPending).
SuccessIsStored ==
  [][created' # created =>
       account' # Nothing /\ account'.hash = created'.submission
                       /\ account'.metadata = created'.submission]_accountVars

\* Only a pending account is submitted again: once verified, failed or
\* disconnected it keeps the external id until it is deleted ("Any other
\* state rejects the duplicate provider", handleCreate).
OnlyPendingResubmitted ==
  [][\A id \in Ids :
       Is(id) /\ account.status # "pending" /\ Is(id)' => account'.hash = account.hash]_accountVars

\* "a run starting between the guard above and this statement cannot leave an
\* account deleted while a run depends on it" (handleDelete).
RunKeepsAccount == dependent \in Ids \ {0} => Is(dependent)
============================================================================
