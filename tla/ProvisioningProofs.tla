------------------------- MODULE ProvisioningProofs -------------------------
(***************************************************************************)
(* Proofs about Provisioning: what a cloud account stores, and what the    *)
(* clients of the orchestrator are told.                                   *)
(***************************************************************************)
EXTENDS Provisioning, TLAPS
----------------------------------------------------------------------------
(* The account.  The slot is held from the write to the commit, so that    *)
(* what a transaction has seen of the row is still true when it commits.   *)

Steps == {"idle", "claim", "aws", "insert", "retry", "status", "verified", "failed",
          "read", "delete", "commit"}

CallRec ==
  [pc : Steps, op : {"create", "status", "verify", "delete", Nothing},
   key : CallKeys \cup {Nothing}, id : Ids, submission : Submissions \cup {Nothing},
   status : validStatuses \cup {Nothing}, metadata : Submissions \cup {Nothing},
   row : Row \cup {Nothing}]

AccountsTypeOK ==
  /\ account \in Row \cup {Nothing}
  /\ inserted \in Ids
  /\ call \in [Calls -> CallRec]
  /\ lock \in Calls \cup {Nothing}

\* The steps of a creation, and what the others need before them.
Ordered(c) ==
  c.pc # "idle" =>
    /\ c.op \in {"create", "status", "verify", "delete"}
    /\ c.op = "create" => c.pc \in {"claim", "insert", "retry", "commit"} /\ c.submission \in Submissions
    /\ c.pc \in {"insert", "retry"} => c.op = "create"
    /\ c.op = "status" => c.status \in validStatuses
    /\ c.pc = "status" => c.op = "status"
    /\ c.pc \in {"aws", "verified"} => c.op = "verify" /\ c.metadata \in Submissions
    /\ c.op = "verify" /\ c.pc = "claim" => c.metadata \in Submissions

\* A creation that commits has written what was submitted.
Stored(r) ==
  call[r].pc = "commit" /\ call[r].op = "create" =>
    /\ lock = r
    /\ call[r].row \in Row
    /\ call[r].row.hash = call[r].submission
    /\ call[r].row.metadata = call[r].submission

\* Who holds the slot commits next, and keeps the external id of the row that
\* is there unless it is pending.
Holder(r) ==
  lock = r =>
    /\ call[r].pc = "commit"
    /\ account # Nothing /\ account.status # "pending" /\ call[r].row # Nothing
         => call[r].row.hash = account.hash

AInv ==
  /\ AccountsTypeOK
  /\ \A r \in Calls : Ordered(call[r]) /\ Stored(r) /\ Holder(r)

LEMMA AccountsStart == AccountsInit => AInv
  BY CloudAccountsAssumption DEF AccountsInit, AInv, AccountsTypeOK, Ordered, Stored, Holder, NoCall, CallRec, Steps, Ids

LEMMA RowOK ==
  ASSUME NEW row \in Row, NEW s \in Submissions
  PROVE  /\ [row EXCEPT !.hash = s, !.metadata = s] \in Row
         /\ [row EXCEPT !.hash = s, !.metadata = s].hash = s
         /\ [row EXCEPT !.hash = s, !.metadata = s].metadata = s
  BY DEF Row

LEMMA StatusOK ==
  ASSUME NEW row \in Row, NEW st \in validStatuses
  PROVE  /\ [row EXCEPT !.status = st] \in Row
         /\ [row EXCEPT !.status = st].hash = row.hash
  BY DEF Row

LEMMA VerifiedOK ==
  ASSUME NEW row \in Row, NEW s \in Submissions
  PROVE  /\ [row EXCEPT !.status = "active", !.metadata = s] \in Row
         /\ [row EXCEPT !.status = "active", !.metadata = s].hash = row.hash
  BY DEF Row, validStatuses

\* A request that opens.
LEMMA OpenOK ==
  ASSUME NEW r \in Calls, NEW fields \in CallRec, AInv, OpenCall(r, fields),
         Ordered(fields), fields.pc # "commit"
  PROVE  AInv'
  BY CloudAccountsAssumption DEF AInv, OpenCall, CallAt, AccountsTypeOK, Stored, Holder

\* A request that moves on without a write.
LEMMA MoveOK ==
  ASSUME NEW r \in Calls, NEW pc \in Steps, AInv, MoveCall(r, pc), ~CallAt(r, "commit"),
         Ordered([call[r] EXCEPT !.pc = pc]), pc = "commit" => call[r].op # "create"
  PROVE  AInv'
  BY CloudAccountsAssumption DEF AInv, MoveCall, CallAt, AccountsTypeOK, Stored, Holder, CallRec

LEMMA CloseOK ==
  ASSUME NEW r \in Calls, AInv, RefuseCall(r)
  PROVE  AInv'
  BY CloudAccountsAssumption DEF AInv, RefuseCall, CloseCall, NoCall, AccountsTypeOK, Ordered, Stored, Holder, CallRec, Steps, Ids

LEMMA WriteOK ==
  ASSUME NEW r \in Calls, NEW row \in Row \cup {Nothing}, AInv, Write(r, row), Slot(r),
         call[r].pc \notin {"idle", "commit"},
         call[r].op = "create" =>
           row \in Row /\ row.hash = call[r].submission /\ row.metadata = call[r].submission,
         account # Nothing /\ account.status # "pending" /\ row # Nothing => row.hash = account.hash
  PROVE  AInv'
<1> DEFINE c == [call[r] EXCEPT !.pc = "commit", !.row = row]
<1>1. call[r] \in CallRec /\ Ordered(call[r])
  BY DEF AInv, AccountsTypeOK
<1>2. /\ c \in CallRec /\ c.pc = "commit" /\ c.row = row
      /\ c.op = call[r].op /\ c.submission = call[r].submission /\ c.status = call[r].status
  BY <1>1 DEF CallRec, Steps
<1>3. Ordered(c)
  BY <1>1, <1>2 DEF Ordered
<1>4. call' = [call EXCEPT ![r] = c] /\ lock' = r /\ UNCHANGED << account, inserted >>
  BY DEF Write, AInv, AccountsTypeOK
<1> HIDE DEF c
<1>5. AccountsTypeOK'
  BY <1>2, <1>4 DEF AInv, AccountsTypeOK
<1>6. ASSUME NEW q \in Calls
      PROVE  (Ordered(call[q]) /\ Stored(q) /\ Holder(q))'
  <2>1. CASE q = r
    BY <1>2, <1>3, <1>4, <2>1 DEF AInv, AccountsTypeOK, Stored, Holder
  <2>2. CASE q # r
    <3>1. call'[q] = call[q] /\ lock # q
      BY <1>4, <2>2, CloudAccountsAssumption DEF AInv, AccountsTypeOK, Slot
    <3> QED
      BY <1>4, <2>2, <3>1 DEF AInv, Stored, Holder
  <2> QED
    BY <2>1, <2>2
<1> QED
  BY <1>5, <1>6 DEF AInv

LEMMA CommitOK ==
  ASSUME NEW r \in Calls, AInv, Commit(r)
  PROVE  AInv'
<1>1. call[r] \in CallRec /\ call[r].row \in Row \cup {Nothing} /\ account' \in Row \cup {Nothing}
  BY DEF AInv, AccountsTypeOK, CallRec, Commit
<1>2. inserted' \in Ids
  BY <1>1 DEF Commit, Row, AInv, AccountsTypeOK
<1>3. call' = [call EXCEPT ![r] = NoCall] /\ lock' = (IF lock = r THEN Nothing ELSE lock)
  BY DEF Commit, CloseCall
<1>4. NoCall \in CallRec /\ Ordered(NoCall) /\ NoCall.pc = "idle"
  BY CloudAccountsAssumption DEF NoCall, CallRec, Ordered, Steps, Ids
<1>5. AccountsTypeOK'
  BY <1>1, <1>2, <1>3, <1>4 DEF AInv, AccountsTypeOK
<1>6. ASSUME NEW q \in Calls
      PROVE  (Ordered(call[q]) /\ Stored(q) /\ Holder(q))'
  <2>1. CASE q = r
    BY <1>3, <1>4, <2>1, CloudAccountsAssumption DEF AInv, AccountsTypeOK, Stored, Holder
  <2>2. CASE q # r
    <3>1. call'[q] = call[q] /\ (lock' = q => lock = q /\ lock # r)
      BY <1>3, <2>2, CloudAccountsAssumption DEF AInv, AccountsTypeOK
    <3>2. lock # r => account' = account
      BY DEF Commit
    <3>3. lock = q => lock' = q
      BY <1>3, <2>2
    <3> QED
      BY <2>2, <3>1, <3>2, <3>3 DEF AInv, Stored, Holder
  <2> QED
    BY <2>1, <2>2
<1> QED
  BY <1>5, <1>6 DEF AInv

LEMMA HandlersOK ==
  ASSUME NEW r \in Calls, AInv, AccountHandlers(r)
  PROVE  AInv'
<1>1. ASSUME NEW k \in CallKeys, NEW s \in Submissions, handleCreate(r, k, s)
      PROVE  AInv'
  <2>1. PICK c \in CallRec : c = [NoCall EXCEPT !.pc = "claim", !.op = "create", !.key = k, !.submission = s]
    <3>1. 0 \in Ids
      BY CloudAccountsAssumption DEF Ids
    <3> QED
      BY <3>1 DEF NoCall, CallRec, Steps
  <2>2. c.pc = "claim" /\ c.op = "create" /\ c.submission = s
    BY <2>1 DEF NoCall
  <2> QED
    BY <1>1, <2>1, <2>2, OpenOK DEF handleCreate, Ordered
<1>2. ASSUME NEW k \in CallKeys, NEW id \in 1 .. inserted, handleDelete(r, k, id)
      PROVE  AInv'
  <2>1. id \in Ids
    BY CloudAccountsAssumption DEF AInv, AccountsTypeOK, Ids
  <2>2. PICK c \in CallRec : c = [NoCall EXCEPT !.pc = "claim", !.op = "delete", !.key = k, !.id = id]
    BY <2>1 DEF NoCall, CallRec, Steps
  <2>3. c.pc = "claim" /\ c.op = "delete"
    BY <2>2 DEF NoCall
  <2> QED
    BY <1>2, <2>2, <2>3, OpenOK DEF handleDelete, Ordered
<1>3. ASSUME NEW k \in CallKeys, NEW id \in 1 .. inserted, NEW st \in validStatuses,
             handleUpdateStatus(r, k, id, st)
      PROVE  AInv'
  <2>1. id \in Ids
    BY CloudAccountsAssumption DEF AInv, AccountsTypeOK, Ids
  <2>2. PICK c \in CallRec :
          c = [NoCall EXCEPT !.pc = "claim", !.op = "status", !.key = k, !.id = id, !.status = st]
    BY <2>1 DEF NoCall, CallRec, Steps
  <2>3. c.pc = "claim" /\ c.op = "status" /\ c.status = st
    BY <2>2 DEF NoCall
  <2> QED
    BY <1>3, <2>2, <2>3, OpenOK DEF handleUpdateStatus, Ordered
<1>4. ASSUME NEW k \in CallKeys \cup {Nothing}, NEW s \in Submissions, handleVerify(r, k, s)
      PROVE  AInv'
  <2> DEFINE read == [NoCall EXCEPT !.op = "verify", !.id = account.id]
  <2>1. account.id \in Ids /\ account.metadata \in Submissions
    BY <1>4 DEF handleVerify, AInv, AccountsTypeOK, Row
  <2>2. PICK c \in CallRec :
          c = [read EXCEPT !.pc = "aws", !.key = k, !.metadata = account.metadata]
    BY <2>1 DEF NoCall, CallRec, Steps
  <2>3. c.pc = "aws" /\ c.op = "verify" /\ c.metadata = account.metadata
    BY <2>2 DEF NoCall
  <2>4. PICK d \in CallRec : d = [read EXCEPT !.pc = "failed"]
    BY <2>1 DEF NoCall, CallRec, Steps
  <2>5. d.pc = "failed" /\ d.op = "verify"
    BY <2>4 DEF NoCall
  <2>6. OpenCall(r, c) \/ OpenCall(r, d)
    BY <1>4, <2>2, <2>4 DEF handleVerify
  <2> HIDE DEF read
  <2> QED
    BY <2>1, <2>3, <2>5, <2>6, OpenOK DEF Ordered
<1> QED
  BY <1>1, <1>2, <1>3, <1>4 DEF AccountHandlers

LEMMA StatementsOK ==
  ASSUME NEW r \in Calls, AInv, AccountStatements(r)
  PROVE  AInv'
<1>1. call[r] \in CallRec /\ Ordered(call[r])
  BY DEF AInv, AccountsTypeOK
<1>2. ASSUME NEW pc \in Steps
      PROVE  LET c == [call[r] EXCEPT !.pc = pc]
             IN  /\ c.pc = pc /\ c.op = call[r].op /\ c.submission = call[r].submission
                 /\ c.status = call[r].status /\ c.metadata = call[r].metadata
  BY <1>1 DEF CallRec
<1>3. CASE claimIdempotencyKey(r)
  <2>1. CASE RefuseCall(r)
    BY <2>1, CloseOK
  <2>2. CASE MoveCall(r, AfterClaim(call[r].op))
    <3>1. call[r].pc = "claim"
      BY <1>3 DEF claimIdempotencyKey, CallAt
    <3>2. PICK pc \in Steps : pc = AfterClaim(call[r].op)
      BY <1>1, <3>1 DEF Ordered, AfterClaim, Steps
    <3>3. Ordered([call[r] EXCEPT !.pc = pc]) /\ pc # "commit"
      BY <1>1, <1>2, <3>1, <3>2 DEF Ordered, AfterClaim
    <3> QED
      BY <2>2, <3>1, <3>2, <3>3, MoveOK DEF CallAt
  <2> QED
    BY <1>3, <2>1, <2>2 DEF claimIdempotencyKey
<1>4. CASE InsertAccount(r)
  <2>1. call[r].pc = "insert" /\ call[r].op = "create" /\ call[r].submission \in Submissions /\ Slot(r)
    BY <1>1, <1>4 DEF InsertAccount, CallAt, Ordered
  <2>2. CASE account # Nothing
    <3>1. Ordered([call[r] EXCEPT !.pc = "retry"]) /\ "retry" \in Steps
      BY <1>1, <1>2, <2>1 DEF Ordered, Steps
    <3> QED
      BY <1>4, <2>1, <2>2, <3>1, MoveOK DEF InsertAccount, CallAt
  <2>3. CASE account = Nothing
    <3>1. PICK row \in Row : row = [id |-> inserted + 1, status |-> "pending",
                                   hash |-> call[r].submission, metadata |-> call[r].submission]
      BY <1>4, <2>1, <2>3, CloudAccountsAssumption
      DEF InsertAccount, Row, Ids, validStatuses, AInv, AccountsTypeOK
    <3> QED
      BY <1>4, <2>1, <2>3, <3>1, WriteOK DEF InsertAccount
  <2> QED
    BY <2>2, <2>3
<1>5. CASE tryRetryPending(r)
  <2>1. call[r].pc = "retry" /\ call[r].op = "create" /\ call[r].submission \in Submissions /\ Slot(r)
    BY <1>1, <1>5 DEF tryRetryPending, CallAt, Ordered
  <2>2. CASE account = Nothing \/ account.status # "pending"
    BY <1>5, <2>2, CloseOK DEF tryRetryPending
  <2>3. CASE ~(account = Nothing \/ account.status # "pending")
    <3>1. account \in Row
      BY <2>3 DEF AInv, AccountsTypeOK
    <3>2. PICK row \in Row : /\ row = Resubmitted(call[r].submission)
                             /\ row.hash = call[r].submission /\ row.metadata = call[r].submission
      BY <2>1, <3>1, RowOK DEF Resubmitted, validStatuses
    <3> QED
      BY <1>5, <2>1, <2>3, <3>2, WriteOK DEF tryRetryPending
  <2> QED
    BY <2>2, <2>3
<1>6. CASE SetStatus(r)
  <2>1. call[r].pc = "status" /\ call[r].op = "status" /\ call[r].status \in validStatuses /\ Slot(r)
    BY <1>1, <1>6 DEF SetStatus, CallAt, Ordered
  <2>2. CASE Is(call[r].id)
    <3>1. account \in Row
      BY <2>2 DEF AInv, AccountsTypeOK, Is
    <3>2. PICK row \in Row : row = [account EXCEPT !.status = call[r].status] /\ row.hash = account.hash
      BY <2>1, <3>1, StatusOK
    <3> QED
      BY <1>6, <2>1, <2>2, <3>2, WriteOK DEF SetStatus
  <2> QED
    BY <1>6, <2>2, CloseOK DEF SetStatus
<1>7. CASE VerifyRole(r)
  <2>1. call[r].pc = "aws" /\ call[r].op = "verify" /\ call[r].metadata \in Submissions
    BY <1>1, <1>7 DEF VerifyRole, CallAt, Ordered
  <2>2. CASE MoveCall(r, IF call[r].key = Nothing THEN "verified" ELSE "claim")
    <3>1. PICK pc \in {"verified", "claim"} : pc = IF call[r].key = Nothing THEN "verified" ELSE "claim"
      OBVIOUS
    <3>2. Ordered([call[r] EXCEPT !.pc = pc]) /\ pc \in Steps
      BY <1>1, <1>2, <2>1, <3>1 DEF Ordered, Steps
    <3> QED
      BY <2>1, <2>2, <3>1, <3>2, MoveOK DEF CallAt
  <2>3. CASE /\ call' = [call EXCEPT ![r].pc = "failed", ![r].key = Nothing]
             /\ UNCHANGED << account, inserted, keys, dependent, created, lock >>
    <3>1. PICK c \in CallRec : c = [call[r] EXCEPT !.pc = "failed", !.key = Nothing]
      BY <1>1 DEF CallRec, Steps
    <3>2. c.pc = "failed" /\ c.op = "verify" /\ Ordered(c)
      BY <1>1, <2>1, <3>1 DEF CallRec, Ordered
    <3>3. call' = [call EXCEPT ![r] = c]
      BY <2>3, <3>1 DEF AInv, AccountsTypeOK
    <3>4. lock # r
      BY <2>1 DEF AInv, Holder
    <3>5. AccountsTypeOK'
      BY <2>3, <3>3 DEF AInv, AccountsTypeOK
    <3>6. ASSUME NEW q \in Calls
          PROVE  (Ordered(call[q]) /\ Stored(q) /\ Holder(q))'
      <4>1. CASE q = r
        BY <2>3, <3>2, <3>3, <3>4, <4>1 DEF AInv, AccountsTypeOK, Stored, Holder
      <4>2. CASE q # r
        BY <2>3, <3>3, <4>2 DEF AInv, AccountsTypeOK, Stored, Holder
      <4> QED
        BY <4>1, <4>2
    <3> QED
      BY <3>5, <3>6 DEF AInv
  <2> QED
    BY <1>7, <2>2, <2>3 DEF VerifyRole
<1>8. CASE SetVerified(r)
  <2>1. call[r].pc = "verified" /\ call[r].op = "verify" /\ call[r].metadata \in Submissions /\ Slot(r)
    BY <1>1, <1>8 DEF SetVerified, CallAt, Ordered
  <2>2. CASE Is(call[r].id)
    <3>1. account \in Row
      BY <2>2 DEF AInv, AccountsTypeOK, Is
    <3>2. PICK row \in Row : /\ row = [account EXCEPT !.status = "active", !.metadata = call[r].metadata]
                             /\ row.hash = account.hash
      BY <2>1, <3>1, VerifiedOK
    <3> QED
      BY <1>8, <2>1, <2>2, <3>2, WriteOK DEF SetVerified
  <2>3. CASE ~Is(call[r].id)
    <3>1. Ordered([call[r] EXCEPT !.pc = "commit"]) /\ "commit" \in Steps
      BY <1>1, <1>2, <2>1 DEF Ordered, Steps
    <3> QED
      BY <1>8, <2>1, <2>3, <3>1, MoveOK DEF SetVerified, CallAt
  <2> QED
    BY <2>2, <2>3
<1>9. CASE SetFailed(r)
  <2>1. call[r].pc = "failed" /\ call[r].op # "create" /\ Slot(r)
    BY <1>1, <1>9 DEF SetFailed, CallAt, Ordered
  <2>2. CASE Is(call[r].id)
    <3>1. account \in Row
      BY <2>2 DEF AInv, AccountsTypeOK, Is
    <3>2. PICK row \in Row : row = [account EXCEPT !.status = "failed"] /\ row.hash = account.hash
      BY <3>1, StatusOK DEF validStatuses
    <3> QED
      BY <1>9, <2>1, <2>2, <3>2, WriteOK DEF SetFailed
  <2>3. CASE ~Is(call[r].id)
    <3>1. Ordered([call[r] EXCEPT !.pc = "commit"]) /\ "commit" \in Steps
      BY <1>1, <1>2, <2>1 DEF Ordered, Steps
    <3> QED
      BY <1>9, <2>1, <2>3, <3>1, MoveOK DEF SetFailed, CallAt
  <2> QED
    BY <2>2, <2>3
<1>10. CASE CheckDelete(r)
  <2>1. call[r].pc = "read" /\ call[r].op # "create"
    BY <1>1, <1>10 DEF CheckDelete, CallAt, Ordered
  <2>2. Ordered([call[r] EXCEPT !.pc = "delete"]) /\ "delete" \in Steps
    BY <1>1, <1>2, <2>1 DEF Ordered, Steps
  <2> QED
    BY <1>10, <2>1, <2>2, MoveOK, CloseOK DEF CheckDelete, CallAt
<1>11. CASE DeleteAccount(r)
  <2>1. call[r].pc = "delete" /\ call[r].op # "create" /\ Slot(r)
    BY <1>1, <1>11 DEF DeleteAccount, CallAt, Ordered
  <2> QED
    BY <1>11, <2>1, WriteOK, CloseOK DEF DeleteAccount
<1> QED
  BY <1>3, <1>4, <1>5, <1>6, <1>7, <1>8, <1>9, <1>10, <1>11, CommitOK, CloseOK
  DEF AccountStatements, Abort

\* Whatever either service does, the account stays as described.
LEMMA AccountsInvariant == ProvisioningSpec => []AInv
<1>1. ProvisioningInit => AInv
  BY AccountsStart DEF ProvisioningInit
<1>2. ASSUME AInv, [ProvisioningNext]_provisioningVars
      PROVE  AInv'
  <2>1. CASE UNCHANGED accountVars
    BY <1>2, <2>1 DEF AInv, AccountsTypeOK, Ordered, Stored, Holder, accountVars
  <2>2. CASE AccountsNext
    <3>1. ASSUME DependentStarts \/ DependentEnds
          PROVE  AInv'
      BY <1>2, <3>1 DEF DependentStarts, DependentEnds, AInv, AccountsTypeOK, Ordered, Stored, Holder
    <3> QED
      BY <1>2, <2>2, <3>1, HandlersOK, StatementsOK DEF AccountsNext
  <2> QED
    BY <1>2, <2>1, <2>2 DEF ProvisioningNext, provisioningVars
<1> QED
  BY <1>1, <1>2, PTL DEF ProvisioningSpec

\* A creation that is answered with success has stored what was submitted.
THEOREM CreationStored == ProvisioningSpec => SuccessIsStored
<1>1. ASSUME AInv, [ProvisioningNext]_provisioningVars, created' # created
      PROVE  /\ account' # Nothing
             /\ account'.hash = created'.submission /\ account'.metadata = created'.submission
  <2>1. PICK r \in Calls : Commit(r)
    BY <1>1 DEF ProvisioningNext, provisioningVars, accountVars, AccountsNext, AccountHandlers,
        AccountStatements, handleCreate, handleDelete, handleUpdateStatus, handleVerify, OpenCall,
        claimIdempotencyKey, InsertAccount, tryRetryPending, SetStatus, VerifyRole, SetVerified,
        SetFailed, CheckDelete, DeleteAccount, Abort, RefuseCall, MoveCall, Write,
        DependentStarts, DependentEnds
  <2>2. call[r].pc = "commit" /\ call[r].op = "create"
    BY <1>1, <2>1 DEF Commit, CallAt
  <2>3. lock = r /\ call[r].row \in Row
        /\ call[r].row.hash = call[r].submission /\ call[r].row.metadata = call[r].submission
    BY <1>1, <2>2 DEF AInv, Stored
  <2>4. account' = call[r].row
    BY <2>1, <2>3 DEF Commit
  <2>5. created'.submission = call[r].submission
    BY <2>1, <2>2 DEF Commit
  <2> QED
    BY <2>3, <2>4, <2>5, CloudAccountsAssumption
<1> QED
  BY <1>1, AccountsInvariant, PTL DEF ProvisioningSpec, SuccessIsStored

\* An account that is not pending keeps its external id.
THEOREM ExternalIdKept == ProvisioningSpec => OnlyPendingResubmitted
<1>1. ASSUME AInv, [ProvisioningNext]_provisioningVars, NEW id \in Ids,
             Is(id), account.status # "pending", Is(id)'
      PROVE  account'.hash = account.hash
  <2>1. CASE account' = account
    BY <2>1
  <2>2. CASE account' # account
    <3>1. PICK r \in Calls : Commit(r)
      BY <1>1, <2>2 DEF ProvisioningNext, provisioningVars, accountVars, AccountsNext, AccountHandlers,
          AccountStatements, handleCreate, handleDelete, handleUpdateStatus, handleVerify, OpenCall,
          claimIdempotencyKey, InsertAccount, tryRetryPending, SetStatus, VerifyRole, SetVerified,
          SetFailed, CheckDelete, DeleteAccount, Abort, RefuseCall, MoveCall, Write,
          DependentStarts, DependentEnds
    <3>2. lock = r /\ account' = call[r].row /\ Holder(r)
      BY <1>1, <2>2, <3>1 DEF Commit, AInv
    <3> QED
      BY <1>1, <3>2 DEF Is, Holder
  <2> QED
    BY <2>1, <2>2
<1>2. ASSUME AInv, [ProvisioningNext]_provisioningVars
      PROVE  [\A id \in Ids : Is(id) /\ account.status # "pending" /\ Is(id)'
                               => account'.hash = account.hash]_accountVars
  BY <1>1, <1>2
<1> QED
  BY <1>2, AccountsInvariant, PTL DEF ProvisioningSpec, OnlyPendingResubmitted
----------------------------------------------------------------------------
(* Runs and turns.  The advisory lock keeps what the lookup has found true *)
(* until the commit, the lock on the session keeps it active, and the      *)
(* unique index keeps the keys of runs apart whoever asks for them.        *)

RequestRec ==
  [pc : {"idle", "lock", "lookup", "session", "insert", "commit", "fallback", "runs", "delete"},
   op : {"run", "turn", "delete", None}, user : Users \cup {None}, key : Keys \cup {None},
   session : Sessions \cup {None}, message : Messages \cup {None}]

IntakeTypeOK ==
  /\ status \in [Sessions -> {"active", "deleted"}]
  /\ runs \in Seq([key : Keys \cup Inputs, input : Inputs, live : BOOLEAN])
  /\ turns \subseteq [input : Inputs, run : Nat]
  /\ answers \subseteq [input : Inputs, run : Nat]
  /\ request \in [Requests -> RequestRec]

\* Every run has its key to itself; every turn has its run, and user and key
\* to itself; every answer is about a run, and a turn's is the turn.
TablesOK ==
  /\ \A i \in DOMAIN runs : runs[i].key = RunKey(runs[i].input)
  /\ \A i, j \in DOMAIN runs : runs[i].key = runs[j].key => i = j
  /\ \A t \in turns : t.input.op = "turn" /\ t.run \in DOMAIN runs /\ runs[t.run].input = t.input
  /\ \A t, w \in turns : t.input.user = w.input.user /\ t.input.key = w.input.key => t = w
  /\ DeletedSessionsIdle

AnswersOK ==
  \A a \in answers : /\ a.run \in DOMAIN runs /\ runs[a.run].input = a.input
                     /\ a.input.op = "turn" => a \in turns

\* What a request carries at the statement it has come to.
Asked(r) ==
  request[r].pc # "idle" =>
    /\ request[r].session \in Sessions
    /\ \/ request[r].op = "delete" /\ request[r].pc \in {"session", "runs", "delete"}
       \/ /\ request[r].op \in {"run", "turn"} /\ Input(r) \in Inputs
          /\ request[r].pc \in {"lock", "lookup", "session", "insert", "commit", "fallback"}
          /\ request[r].pc = "fallback" => request[r].op = "turn"

\* What it has found is still so.
Found(r) ==
  /\ HoldsSession(r) => status[request[r].session] = "active"
  /\ request[r].pc = "delete" =>
       \A i \in DOMAIN runs : runs[i].live => runs[i].input.session # request[r].session
  /\ request[r].pc = "commit" => \A i \in DOMAIN runs : runs[i].key # RunKey(Input(r))
  /\ request[r].op = "turn" /\ request[r].pc \in {"session", "insert", "commit"} =>
       \A t \in turns : ~(t.input.user = request[r].user /\ t.input.key = request[r].key)

\* Two requests hold no lock together.
Apart(q, r) ==
  /\ ~(HoldsKey(q) /\ HoldsKey(r) /\ request[q].op # "delete" /\ SameKey(q, r))
  /\ ~(HoldsSession(q) /\ HoldsSession(r) /\ request[q].session = request[r].session)
  /\ ~(request[q].pc = "commit" /\ request[r].pc = "commit" /\ RunKey(Input(q)) = RunKey(Input(r)))

RInv ==
  /\ IntakeTypeOK /\ TablesOK /\ AnswersOK
  /\ \A r \in Requests : Asked(r) /\ Found(r)
  /\ \A q, r \in Requests : q # r => Apart(q, r)

LEMMA ElementOK ==
  ASSUME NEW S, NEW s \in Seq(S), NEW i \in DOMAIN s
  PROVE  i \in Nat /\ s[i] \in S
  OBVIOUS

LEMMA IntakeStart == IntakeInit => RInv
  BY DEF IntakeInit, RInv, IntakeTypeOK, TablesOK, AnswersOK, Asked, Found, Apart, Idle, RequestRec,
         HoldsKey, HoldsSession, DeletedSessionsIdle

\* A step of one request that leaves the tables alone.
LEMMA RequestStep ==
  ASSUME NEW r \in Requests, RInv, UNCHANGED tables,
         request' \in [Requests -> RequestRec],
         \A q \in Requests \ {r} : request'[q] = request[q],
         answers' \subseteq [input : Inputs, run : Nat], AnswersOK',
         Asked(r)', Found(r)',
         \A q \in Requests \ {r} : Apart(q, r)'
  PROVE  RInv'
<1>1. IntakeTypeOK' /\ TablesOK'
  BY DEF RInv, IntakeTypeOK, TablesOK, DeletedSessionsIdle, tables
<1>2. ASSUME NEW q \in Requests \ {r}
      PROVE  (Asked(q) /\ Found(q))'
  BY <1>2 DEF RInv, Asked, Found, HoldsSession, Input, tables
<1>3. ASSUME NEW q \in Requests, NEW w \in Requests, q # w
      PROVE  Apart(q, w)'
  <2>1. CASE w = r
    BY <1>3, <2>1
  <2>2. CASE q = r
    <3>1. Apart(w, q)'
      BY <1>3, <2>2
    <3> QED
      BY <3>1 DEF Apart, SameKey, HoldsKey, HoldsSession, Input
  <2>3. CASE q # r /\ w # r
    BY <1>3, <2>3 DEF RInv, Apart, SameKey, HoldsKey, HoldsSession, Input
  <2> QED
    BY <2>1, <2>2, <2>3
<1> QED
  BY <1>1, <1>2, <1>3 DEF RInv

\* A step to the next statement keeps what was asked.
LEMMA Moved ==
  ASSUME NEW r \in Requests,
         NEW pc \in {"lookup", "session", "insert", "commit", "fallback", "runs", "delete"},
         RInv, Go(r, pc)
  PROVE  /\ request' \in [Requests -> RequestRec]
         /\ \A q \in Requests \ {r} : request'[q] = request[q]
         /\ request'[r].pc = pc /\ request'[r].op = request[r].op /\ request'[r].user = request[r].user
         /\ request'[r].key = request[r].key /\ request'[r].session = request[r].session
         /\ \A q \in Requests : Input(q)' = Input(q)
  BY DEF RInv, IntakeTypeOK, RequestRec, Go, Input

LEMMA ClosedOK ==
  ASSUME NEW r \in Requests, RInv, Close(r), UNCHANGED tables,
         answers' \subseteq [input : Inputs, run : Nat], AnswersOK'
  PROVE  RInv'
<1>1. /\ request' \in [Requests -> RequestRec] /\ request'[r].pc = "idle"
      /\ \A q \in Requests \ {r} : request'[q] = request[q]
  BY DEF Close, Idle, RInv, IntakeTypeOK, RequestRec
<1>2. Asked(r)' /\ Found(r)' /\ \A q \in Requests \ {r} : Apart(q, r)'
  BY <1>1 DEF Asked, Found, Apart, HoldsKey, HoldsSession
<1> QED
  BY <1>1, <1>2, RequestStep

LEMMA RefusedOK ==
  ASSUME NEW r \in Requests, RInv, Refuse(r)
  PROVE  RInv'
<1>1. answers' \subseteq [input : Inputs, run : Nat] /\ AnswersOK'
  BY DEF Refuse, RInv, IntakeTypeOK, AnswersOK, tables
<1> QED
  BY <1>1, ClosedOK DEF Refuse

LEMMA ThrownOK ==
  ASSUME NEW r \in Requests, RInv, request[r].pc # "idle", Throw(r)
  PROVE  RInv'
<1>1. CASE Refuse(r)
  BY <1>1, RefusedOK
<1>2. CASE request[r].op = "turn" /\ Move(r, "fallback")
  <2>1. /\ request' \in [Requests -> RequestRec]
        /\ \A q \in Requests \ {r} : request'[q] = request[q]
        /\ request'[r].pc = "fallback" /\ request'[r].op = "turn" /\ request'[r].session = request[r].session
        /\ Input(r)' = Input(r)
    BY <1>2, Moved DEF Move
  <2>2. Asked(r)' /\ Found(r)' /\ \A q \in Requests \ {r} : Apart(q, r)'
    BY <1>2, <2>1 DEF Asked, Found, Apart, HoldsKey, HoldsSession, RInv
  <2>3. answers' \subseteq [input : Inputs, run : Nat] /\ AnswersOK' /\ UNCHANGED tables
    BY <1>2 DEF Move, RInv, IntakeTypeOK, AnswersOK, tables
  <2> QED
    BY <2>1, <2>2, <2>3, RequestStep
<1> QED
  BY <1>1, <1>2 DEF Throw

\* The handlers open a request that is asked for something.
LEMMA OpenedOK ==
  ASSUME NEW r \in Requests, RInv, Handlers(r)
  PROVE  RInv'
<1> DEFINE Opens(op, u, k, s, m, pc) ==
      request' = [request EXCEPT ![r] = [pc |-> pc, op |-> op, user |-> u, key |-> k,
                                         session |-> s, message |-> m]]
<1>1. UNCHANGED << tables, answers >> /\ answers' \subseteq [input : Inputs, run : Nat] /\ AnswersOK'
  BY DEF Handlers, deleteSession, createRun, submitPlanningTurn, Open, RInv, IntakeTypeOK, AnswersOK, tables
<1>2. ASSUME NEW u \in Users, NEW s \in Sessions, NEW k \in Keys, NEW m \in Messages,
             NEW op \in {"run", "turn"}, Opens(op, u, k, s, m, "lock")
      PROVE  RInv'
  <2>1. PICK c \in RequestRec : c = [pc |-> "lock", op |-> op, user |-> u, key |-> k,
                                    session |-> s, message |-> m]
    BY DEF RequestRec
  <2>2. /\ request' \in [Requests -> RequestRec] /\ request'[r] = c
        /\ \A q \in Requests \ {r} : request'[q] = request[q]
    BY <1>2, <2>1 DEF RInv, IntakeTypeOK
  <2>3. Input(r)' = [op |-> op, user |-> u, key |-> k, session |-> s, message |-> m]
    BY <2>1, <2>2 DEF Input
  <2>4. Asked(r)' /\ Found(r)' /\ \A q \in Requests \ {r} : Apart(q, r)'
    BY <2>1, <2>2, <2>3 DEF Asked, Found, Apart, HoldsKey, HoldsSession, Inputs
  <2> QED
    BY <1>1, <2>2, <2>4, RequestStep
<1>3. ASSUME NEW u \in Users, NEW s \in Sessions, Opens("delete", u, None, s, None, "session")
      PROVE  RInv'
  <2>1. PICK c \in RequestRec : c = [pc |-> "session", op |-> "delete", user |-> u, key |-> None,
                                    session |-> s, message |-> None]
    BY DEF RequestRec
  <2>2. /\ request' \in [Requests -> RequestRec] /\ request'[r] = c
        /\ \A q \in Requests \ {r} : request'[q] = request[q]
    BY <1>3, <2>1 DEF RInv, IntakeTypeOK
  <2>3. c.pc = "session" /\ c.op = "delete" /\ c.session = s
    BY <2>1
  <2>4. Asked(r)' /\ Found(r)'
    BY <2>2, <2>3 DEF Asked, Found, HoldsSession
  <2>5. ASSUME NEW q \in Requests \ {r}
        PROVE  Apart(q, r)'
    BY <2>2, <2>3 DEF Apart, HoldsSession, SameKey, Input
  <2> QED
    BY <1>1, <2>2, <2>4, <2>5, RequestStep
<1> QED
  BY <1>2, <1>3 DEF Handlers, deleteSession, createRun, submitPlanningTurn, Open

\* An answer that is about a run, and about a turn that is there, is in order.
LEMMA Recorded ==
  ASSUME NEW r \in Requests, RInv, NEW a \in [input : Inputs, run : Nat],
         a.run \in DOMAIN runs, runs[a.run].input = a.input, a.input.op = "turn" => a \in turns,
         answers' = answers \cup {a}, Close(r), UNCHANGED tables
  PROVE  RInv'
<1>1. answers' \subseteq [input : Inputs, run : Nat]
  BY DEF RInv, IntakeTypeOK
<1>2. AnswersOK'
  BY DEF RInv, AnswersOK, tables
<1> QED
  BY <1>1, <1>2, ClosedOK

\* A request that is replayed is told of the run it asked for.
LEMMA ReplayedOK ==
  ASSUME NEW r \in Requests, RInv, request[r].op \in {"run", "turn"}, Input(r) \in Inputs,
         NEW found \in Existing(Input(r)), Replay(r, found)
  PROVE  RInv'
<1>1. CASE Refuse(r)
  BY <1>1, RefusedOK
<1>2. CASE SameRequest(found.input, Input(r)) /\ Answer(r, found.run) /\ UNCHANGED tables
  <2> DEFINE a == [input |-> Input(r), run |-> found.run]
  <2>1. Input(r).op = request[r].op
    BY DEF Input
  <2>2. CASE request[r].op = "run"
    <3>1. PICK i \in DOMAIN runs : /\ runs[i].key = Input(r).key
                                   /\ found = [input |-> runs[i].input, run |-> i]
      BY <2>1, <2>2 DEF Existing
    <3>2. runs[i].input \in Inputs /\ runs[i].key = RunKey(runs[i].input) /\ i \in Nat
      <4>1. runs[i] \in [key : Keys \cup Inputs, input : Inputs, live : BOOLEAN] /\ i \in Nat
        BY ElementOK DEF RInv, IntakeTypeOK
      <4>2. runs[i].key = RunKey(runs[i].input)
        BY <3>1 DEF RInv, TablesOK
      <4> QED
        BY <4>1, <4>2
    <3>3. runs[i].input.op = "run"
      BY <3>1, <3>2, RunIntakeAssumption DEF RunKey, Inputs
    <3>4. runs[i].input.key = Input(r).key /\ found.input = runs[i].input /\ found.run = i
      BY <3>1, <3>2, <3>3 DEF RunKey
    <3>5. SameRequest(runs[i].input, Input(r))
      BY <1>2, <3>4
    <3>6. runs[i].input = Input(r)
      BY <2>1, <2>2, <3>2, <3>3, <3>4, <3>5 DEF SameRequest, Inputs
    <3>7. a \in [input : Inputs, run : Nat] /\ a.input = Input(r) /\ a.run = i
      <4>1. i \in Nat /\ found.run = i
        BY <3>2, <3>4
      <4> QED
        BY <4>1
    <3>8. answers' = answers \cup {a} /\ Close(r)
      BY <1>2 DEF Answer
    <3> HIDE DEF a
    <3>9. a.input.op # "turn" /\ a.run \in DOMAIN runs /\ runs[a.run].input = a.input
      BY <2>1, <2>2, <3>6, <3>7
    <3> QED
      BY <1>2, <3>7, <3>8, <3>9, Recorded
  <2>3. CASE request[r].op = "turn"
    <3>1. found \in turns /\ found.input.user = Input(r).user /\ found.input.key = Input(r).key
      BY <2>1, <2>3 DEF Existing
    <3>2. /\ found \in [input : Inputs, run : Nat] /\ found.input.op = "turn"
          /\ found.run \in DOMAIN runs /\ runs[found.run].input = found.input
      BY <3>1 DEF RInv, IntakeTypeOK, TablesOK
    <3>3. found.input = Input(r)
      BY <1>2, <2>1, <2>3, <3>1, <3>2 DEF SameRequest, Inputs
    <3>4. a = found
      BY <3>2, <3>3
    <3> QED
      BY <3>1, <3>2, <3>4, Recorded, <1>2 DEF Answer
  <2> QED
    BY <2>2, <2>3
<1> QED
  BY <1>1, <1>2 DEF Replay

\* A step to the next statement, when its lock is free and what it finds is so.
LEMMA MovedOK ==
  ASSUME NEW r \in Requests,
         NEW pc \in {"lookup", "session", "insert", "commit", "fallback", "runs", "delete"},
         RInv, Move(r, pc), Asked(r)', Found(r)', \A q \in Requests \ {r} : Apart(q, r)'
  PROVE  RInv'
<1>1. Go(r, pc) /\ UNCHANGED tables /\ UNCHANGED answers
  BY DEF Move
<1>2. answers' \subseteq [input : Inputs, run : Nat] /\ AnswersOK'
  BY <1>1 DEF RInv, IntakeTypeOK, AnswersOK, tables
<1> QED
  BY <1>1, <1>2, Moved, RequestStep

LEMMA LockKeyOK ==
  ASSUME NEW r \in Requests, RInv, LockKey(r)
  PROVE  RInv'
<1>1. request[r].pc = "lock" /\ Asked(r) /\ Move(r, "lookup")
  BY DEF LockKey, At, RInv
<1>2. /\ \A q \in Requests \ {r} : request'[q] = request[q]
      /\ request'[r].pc = "lookup" /\ request'[r].op = request[r].op
      /\ request'[r].session = request[r].session
      /\ \A q \in Requests : Input(q)' = Input(q)
  BY <1>1, Moved DEF Move
<1>3. Asked(r)' /\ Found(r)'
  BY <1>1, <1>2 DEF Asked, Found, HoldsSession
<1>4. ASSUME NEW q \in Requests \ {r}
      PROVE  Apart(q, r)'
  BY <1>2 DEF LockKey, Apart, HoldsKey, HoldsSession, SameKey
<1> QED
  BY <1>1, <1>3, <1>4, MovedOK

\* The lookup has found nothing, and the lock keeps it so.
LEMMA LookupOK ==
  ASSUME NEW r \in Requests, RInv, Lookup(r)
  PROVE  RInv'
<1>1. request[r].pc = "lookup" /\ Asked(r)
  BY DEF Lookup, At, RInv
<1>2. request[r].op \in {"run", "turn"} /\ Input(r) \in Inputs
  BY <1>1 DEF Asked
<1>3. CASE Existing(Input(r)) = {} /\ Move(r, "session")
  <2>1. /\ \A q \in Requests \ {r} : request'[q] = request[q]
        /\ request'[r].pc = "session" /\ request'[r].op = request[r].op /\ request'[r].user = request[r].user
        /\ request'[r].session = request[r].session /\ request'[r].key = request[r].key
        /\ \A q \in Requests : Input(q)' = Input(q)
    BY <1>3, Moved DEF Move
  <2>2. Asked(r)'
    BY <1>1, <1>2, <2>1 DEF Asked
  <2>3. request[r].op = "turn" =>
          \A t \in turns : ~(t.input.user = request[r].user /\ t.input.key = request[r].key)
    BY <1>3 DEF Existing, Input
  <2>4. Found(r)'
    BY <1>3, <2>1, <2>3 DEF Found, HoldsSession, Move, tables
  <2>5. ASSUME NEW q \in Requests \ {r}
        PROVE  Apart(q, r)'
    BY <1>1, <2>1 DEF RInv, Apart, HoldsKey, HoldsSession, SameKey
  <2> QED
    BY <1>3, <2>2, <2>4, <2>5, MovedOK
<1>4. CASE \E found \in Existing(Input(r)) : Replay(r, found)
  BY <1>2, <1>4, ReplayedOK
<1> QED
  BY <1>3, <1>4 DEF Lookup

LEMMA LockSessionOK ==
  ASSUME NEW r \in Requests, RInv, LockSession(r)
  PROVE  RInv'
<1>1. request[r].pc = "session" /\ Asked(r) /\ Found(r)
  BY DEF LockSession, At, RInv
<1>2. CASE Throw(r)
  BY <1>1, <1>2, ThrownOK
<1>3. CASE status[request[r].session] = "active" /\ Move(r, AfterSession(request[r].op))
  <2>1. PICK pc \in {"runs", "insert"} : pc = AfterSession(request[r].op)
    BY DEF AfterSession
  <2>2. /\ \A q \in Requests \ {r} : request'[q] = request[q]
        /\ request'[r].pc = pc /\ request'[r].op = request[r].op /\ request'[r].user = request[r].user
        /\ request'[r].session = request[r].session /\ request'[r].key = request[r].key
        /\ \A q \in Requests : Input(q)' = Input(q)
    BY <1>3, <2>1, Moved DEF Move
  <2>3. Asked(r)'
    BY <1>1, <2>1, <2>2 DEF Asked, AfterSession
  <2>4. Found(r)'
    BY <1>1, <1>3, <2>1, <2>2 DEF Found, HoldsSession, Move, tables
  <2>5. ASSUME NEW q \in Requests \ {r}
        PROVE  Apart(q, r)'
    BY <1>1, <2>1, <2>2 DEF LockSession, RInv, Apart, HoldsKey, HoldsSession, SameKey
  <2> QED
    BY <1>3, <2>1, <2>3, <2>4, <2>5, MovedOK
<1> QED
  BY <1>2, <1>3 DEF LockSession

LEMMA InsertRunOK ==
  ASSUME NEW r \in Requests, RInv, InsertRun(r)
  PROVE  RInv'
<1>1. request[r].pc = "insert" /\ Asked(r) /\ Found(r)
  BY DEF InsertRun, At, RInv
<1>2. CASE Throw(r)
  BY <1>1, <1>2, ThrownOK
<1>3. CASE ~Taken(Input(r)) /\ Move(r, "commit")
  <2>1. /\ \A q \in Requests \ {r} : request'[q] = request[q]
        /\ request'[r].pc = "commit" /\ request'[r].op = request[r].op /\ request'[r].user = request[r].user
        /\ request'[r].session = request[r].session /\ request'[r].key = request[r].key
        /\ \A q \in Requests : Input(q)' = Input(q)
    BY <1>3, Moved DEF Move
  <2>2. Asked(r)'
    BY <1>1, <2>1 DEF Asked
  <2>3. \A i \in DOMAIN runs : runs[i].key # RunKey(Input(r))
    BY <1>3 DEF Taken
  <2>4. Found(r)'
    BY <1>1, <1>3, <2>1, <2>3 DEF Found, HoldsSession, Move, tables
  <2>5. ASSUME NEW q \in Requests \ {r}
        PROVE  Apart(q, r)'
    BY <1>1, <2>1 DEF InsertRun, At, RInv, Apart, HoldsKey, HoldsSession, SameKey
  <2> QED
    BY <1>3, <2>2, <2>4, <2>5, MovedOK
<1> QED
  BY <1>2, <1>3 DEF InsertRun

LEMMA CheckRunsOK ==
  ASSUME NEW r \in Requests, RInv, CheckRuns(r)
  PROVE  RInv'
<1>1. request[r].pc = "runs" /\ Asked(r) /\ Found(r)
  BY DEF CheckRuns, At, RInv
<1>2. CASE Refuse(r)
  BY <1>2, RefusedOK
<1>3. CASE /\ ~\E i \in DOMAIN runs : runs[i].live /\ runs[i].input.session = request[r].session
           /\ Move(r, "delete")
  <2>1. /\ \A q \in Requests \ {r} : request'[q] = request[q]
        /\ request'[r].pc = "delete" /\ request'[r].op = request[r].op /\ request'[r].user = request[r].user
        /\ request'[r].session = request[r].session /\ request'[r].key = request[r].key
        /\ \A q \in Requests : Input(q)' = Input(q)
    BY <1>3, Moved DEF Move
  <2>2. Asked(r)'
    BY <1>1, <2>1 DEF Asked
  <2>4. Found(r)'
    BY <1>1, <1>3, <2>1 DEF Found, HoldsSession, Move, tables
  <2>5. ASSUME NEW q \in Requests \ {r}
        PROVE  Apart(q, r)'
    BY <1>1, <2>1 DEF RInv, Apart, HoldsKey, HoldsSession, SameKey
  <2> QED
    BY <1>3, <2>2, <2>4, <2>5, MovedOK
<1> QED
  BY <1>2, <1>3 DEF CheckRuns

RunRec == [key : Keys \cup Inputs, input : Inputs, live : BOOLEAN]

\* The commit of a run: its key, and its turn's user and key, were free and
\* its session active, and the request lets its locks go.
LEMMA CreatedOK ==
  ASSUME NEW r \in Requests, RInv, At(r, "commit"), Created(r),
         request' \in [Requests -> RequestRec],
         \A q \in Requests \ {r} : request'[q] = request[q],
         request'[r].pc \in {"idle", "fallback"}, Asked(r)',
         \/ answers' = answers
         \/ answers' = answers \cup {[input |-> Input(r), run |-> Len(runs')]}
  PROVE  RInv'
<1>1. Asked(r) /\ Found(r) /\ request[r].pc = "commit"
  BY DEF RInv, At
<1>2. /\ request[r].op \in {"run", "turn"} /\ Input(r) \in Inputs /\ Input(r).op = request[r].op
      /\ Input(r).user = request[r].user /\ Input(r).key = request[r].key
      /\ Input(r).session = request[r].session
  BY <1>1 DEF Asked, Input
<1>3. PICK input \in Inputs : input = Input(r)
  BY <1>2
<1>4. PICK new \in RunRec :
        new = [key |-> RunKey(input), input |-> input, live |-> TRUE]
  <2>1. RunKey(input) \in Keys \cup Inputs
    BY <1>3 DEF RunKey, Inputs
  <2> QED
    BY <2>1 DEF RunRec
<1>5. new.key = RunKey(input) /\ new.input = input
  BY <1>4
<1>6. runs \in Seq(RunRec) /\ runs' = Append(runs, new)
  BY <1>3, <1>4 DEF RInv, IntakeTypeOK, RunRec, Created
<1>7. PICK n \in Nat : n = Len(runs') /\ n = Len(runs) + 1
  BY <1>6
<1>8. /\ runs' \in Seq(RunRec) /\ DOMAIN runs \subseteq DOMAIN runs'
      /\ \A i \in DOMAIN runs' : i \in DOMAIN runs \/ i = n
      /\ \A i \in DOMAIN runs : runs'[i] = runs[i] /\ i # n
      /\ n \in DOMAIN runs' /\ runs'[n] = new
  BY <1>6, <1>7
<1>9. PICK turn \in [input : Inputs, run : Nat] :
        turn = [input |-> input, run |-> n] /\ turn.input = input /\ turn.run = n
  <2> DEFINE turn == [input |-> input, run |-> n]
  <2>1. turn \in [input : Inputs, run : Nat] /\ turn.input = input /\ turn.run = n
    OBVIOUS
  <2> QED
    BY <2>1
<1>10. /\ turns' = (IF input.op = "turn" THEN turns \cup {turn} ELSE turns) /\ UNCHANGED status
       /\ answers' = answers \/ answers' = answers \cup {turn}
  BY <1>2, <1>3, <1>7, <1>9 DEF Created
<1>11. IntakeTypeOK'
  BY <1>8, <1>10 DEF RInv, IntakeTypeOK, RunRec
<1>12. \A i \in DOMAIN runs : runs[i].key # RunKey(input)
  BY <1>1, <1>3 DEF Found
<1>13. input.op = "turn" => \A t \in turns : ~(t.input.user = input.user /\ t.input.key = input.key)
  BY <1>1, <1>2, <1>3 DEF Found
<1>14. status[input.session] = "active"
  BY <1>1, <1>2, <1>3 DEF Found, HoldsSession
<1>15. TablesOK'
  <2>1. \A i \in DOMAIN runs' : runs'[i].key = RunKey(runs'[i].input)
    BY <1>5, <1>8 DEF RInv, TablesOK
  <2>2. \A i, j \in DOMAIN runs' : runs'[i].key = runs'[j].key => i = j
    BY <1>5, <1>8, <1>12 DEF RInv, TablesOK
  <2>3. \A t \in turns' :
          t.input.op = "turn" /\ t.run \in DOMAIN runs' /\ runs'[t.run].input = t.input
    BY <1>5, <1>8, <1>9, <1>10 DEF RInv, TablesOK
  <2>4. \A t, w \in turns' : t.input.user = w.input.user /\ t.input.key = w.input.key => t = w
    BY <1>9, <1>10, <1>13 DEF RInv, TablesOK
  <2>5. DeletedSessionsIdle'
    BY <1>5, <1>8, <1>10, <1>14 DEF RInv, TablesOK, DeletedSessionsIdle
  <2> QED
    BY <2>1, <2>2, <2>3, <2>4, <2>5 DEF TablesOK
<1>16. AnswersOK'
  BY <1>5, <1>8, <1>9, <1>10 DEF RInv, AnswersOK
<1>17. Found(r)'
  BY DEF Found, HoldsSession
<1>18. ASSUME NEW q \in Requests \ {r}
       PROVE  (Asked(q) /\ Found(q))'
  <2>1. request'[q] = request[q] /\ Input(q)' = Input(q) /\ Asked(q) /\ Found(q) /\ Apart(q, r)
    BY DEF RInv, Input
  <2>2. Asked(q)'
    BY <2>1 DEF Asked
  <2>3. HoldsSession(q) => status'[request[q].session] = "active"
    BY <1>10, <2>1 DEF Found
  <2>4. request[q].pc = "delete" =>
          \A i \in DOMAIN runs' : runs'[i].live => runs'[i].input.session # request[q].session
    BY <1>1, <1>2, <1>3, <1>5, <1>8, <2>1 DEF Found, Apart, HoldsSession
  <2>5. request[q].pc = "commit" => \A i \in DOMAIN runs' : runs'[i].key # RunKey(Input(q))
    BY <1>1, <1>3, <1>5, <1>8, <2>1 DEF Found, Apart
  <2>6. request[q].op = "turn" /\ request[q].pc \in {"session", "insert", "commit"} =>
          \A t \in turns' : ~(t.input.user = request[q].user /\ t.input.key = request[q].key)
    BY <1>1, <1>2, <1>3, <1>9, <1>10, <2>1 DEF Found, Apart, HoldsKey, SameKey, Input
  <2> QED
    BY <2>1, <2>2, <2>3, <2>4, <2>5, <2>6 DEF Found, HoldsSession
<1>19. ASSUME NEW q \in Requests, NEW w \in Requests, q # w
       PROVE  Apart(q, w)'
  <2>1. CASE q = r \/ w = r
    BY <2>1 DEF Apart, HoldsKey, HoldsSession
  <2>2. CASE q # r /\ w # r
    BY <1>19, <2>2 DEF RInv, Apart, SameKey, HoldsKey, HoldsSession, Input
  <2> QED
    BY <2>1, <2>2
<1> QED
  BY <1>11, <1>15, <1>16, <1>17, <1>18, <1>19 DEF RInv

LEMMA CommitRunOK ==
  ASSUME NEW r \in Requests, RInv, CommitRun(r) \/ CommitUnacknowledged(r)
  PROVE  RInv'
<1>1. At(r, "commit") /\ Created(r) /\ Asked(r)
  BY DEF CommitRun, CommitUnacknowledged, RInv
<1>2. CASE Close(r)
  <2>1. /\ request' \in [Requests -> RequestRec] /\ request'[r].pc = "idle"
        /\ \A q \in Requests \ {r} : request'[q] = request[q]
    BY <1>2 DEF Close, Idle, RInv, IntakeTypeOK, RequestRec
  <2>2. Asked(r)'
    BY <2>1 DEF Asked
  <2>3. \/ answers' = answers
        \/ answers' = answers \cup {[input |-> Input(r), run |-> Len(runs')]}
    BY DEF CommitRun, CommitUnacknowledged, Answer
  <2> QED
    BY <1>1, <2>1, <2>2, <2>3, CreatedOK
<1>3. CASE Go(r, "fallback") /\ request[r].op = "turn" /\ UNCHANGED answers
  <2>1. /\ request' \in [Requests -> RequestRec] /\ request'[r].pc = "fallback"
        /\ \A q \in Requests \ {r} : request'[q] = request[q]
        /\ request'[r].op = "turn" /\ request'[r].session = request[r].session /\ Input(r)' = Input(r)
    BY <1>3, Moved
  <2>2. Asked(r)'
    BY <1>1, <2>1 DEF Asked, At
  <2> QED
    BY <1>1, <1>3, <2>1, <2>2, CreatedOK
<1> QED
  BY <1>2, <1>3 DEF CommitRun, CommitUnacknowledged, Answer

\* The session is locked and has no run in progress when it is deleted.
LEMMA CommitDeleteOK ==
  ASSUME NEW r \in Requests, RInv, CommitDelete(r)
  PROVE  RInv'
<1>1. request[r].pc = "delete" /\ Asked(r) /\ Found(r)
  BY DEF CommitDelete, At, RInv
<1>2. PICK s \in Sessions : s = request[r].session
  BY <1>1 DEF Asked
<1>3. /\ request' \in [Requests -> RequestRec] /\ request'[r].pc = "idle"
      /\ \A q \in Requests \ {r} : request'[q] = request[q]
  BY DEF CommitDelete, Close, Idle, RInv, IntakeTypeOK, RequestRec
<1>4. /\ status' \in [Sessions -> {"active", "deleted"}] /\ UNCHANGED << runs, turns, answers >>
      /\ \A t \in Sessions : t # s => status'[t] = status[t]
  BY <1>2 DEF CommitDelete, RInv, IntakeTypeOK
<1>5. IntakeTypeOK' /\ AnswersOK'
  BY <1>3, <1>4 DEF RInv, IntakeTypeOK, AnswersOK
<1>6. DeletedSessionsIdle'
  <2>1. ASSUME NEW i \in DOMAIN runs, runs[i].live
        PROVE  status'[runs[i].input.session] = "active"
    <3>1. runs[i].input.session # s
      BY <1>1, <1>2, <2>1 DEF Found
    <3>2. runs[i] \in RunRec
      BY ElementOK DEF RInv, IntakeTypeOK, RunRec
    <3>3. runs[i].input.session \in Sessions
      BY <3>2 DEF RunRec, Inputs
    <3> QED
      BY <1>4, <2>1, <3>1, <3>3 DEF RInv, TablesOK, DeletedSessionsIdle
  <2> QED
    BY <1>4, <2>1 DEF DeletedSessionsIdle
<1>7. TablesOK'
  BY <1>4, <1>6 DEF RInv, TablesOK
<1>8. Asked(r)' /\ Found(r)'
  BY <1>3 DEF Asked, Found, HoldsSession
<1>9. ASSUME NEW q \in Requests \ {r}
      PROVE  (Asked(q) /\ Found(q))'
  <2>1. request'[q] = request[q] /\ Input(q)' = Input(q) /\ Asked(q) /\ Found(q) /\ Apart(q, r)
    BY <1>3 DEF RInv, Input
  <2>2. HoldsSession(q) => request[q].session \in Sessions /\ request[q].session # s
    BY <1>1, <1>2, <2>1 DEF Apart, Asked, HoldsSession
  <2> QED
    BY <1>4, <2>1, <2>2 DEF Asked, Found, HoldsSession
<1>10. ASSUME NEW q \in Requests, NEW w \in Requests, q # w
       PROVE  Apart(q, w)'
  <2>1. CASE q = r \/ w = r
    BY <1>3, <2>1 DEF Apart, HoldsKey, HoldsSession
  <2>2. CASE q # r /\ w # r
    BY <1>3, <1>10, <2>2 DEF RInv, Apart, SameKey, HoldsKey, HoldsSession, Input
  <2> QED
    BY <2>1, <2>2
<1> QED
  BY <1>5, <1>7, <1>8, <1>9, <1>10 DEF RInv

LEMMA RunEndsOK ==
  ASSUME NEW i \in DOMAIN runs, RInv, RunEnds(i)
  PROVE  RInv'
<1>1. runs \in Seq(RunRec) /\ runs[i] \in RunRec
  BY ElementOK DEF RInv, IntakeTypeOK, RunRec
<1>2. PICK ended \in RunRec : ended = [runs[i] EXCEPT !.live = FALSE]
  BY <1>1 DEF RunRec
<1>3. ended.key = runs[i].key /\ ended.input = runs[i].input /\ ~ended.live
  BY <1>1, <1>2 DEF RunRec
<1>4. runs' = [runs EXCEPT ![i] = ended] /\ UNCHANGED << status, turns, request, answers >>
  BY <1>2 DEF RunEnds
<1>5. /\ runs' \in Seq(RunRec) /\ DOMAIN runs' = DOMAIN runs
      /\ \A j \in DOMAIN runs : runs'[j] = IF j = i THEN ended ELSE runs[j]
  BY <1>1, <1>4
<1>6. \A j \in DOMAIN runs : /\ runs'[j].key = runs[j].key /\ runs'[j].input = runs[j].input
                             /\ runs'[j].live => runs[j].live
  BY <1>3, <1>5
<1>7. IntakeTypeOK'
  BY <1>4, <1>5 DEF RInv, IntakeTypeOK, RunRec
<1>8. TablesOK' /\ AnswersOK'
  BY <1>4, <1>5, <1>6 DEF RInv, TablesOK, AnswersOK, DeletedSessionsIdle
<1>9. ASSUME NEW q \in Requests
      PROVE  (Asked(q) /\ Found(q))'
  BY <1>4, <1>5, <1>6 DEF RInv, Asked, Found, HoldsSession, Input
<1>10. ASSUME NEW q \in Requests, NEW w \in Requests, q # w
       PROVE  Apart(q, w)'
  BY <1>4, <1>10 DEF RInv, Apart, SameKey, HoldsKey, HoldsSession, Input
<1> QED
  BY <1>7, <1>8, <1>9, <1>10 DEF RInv

LEMMA IntakeInvariant == ProvisioningSpec => []RInv
<1>1. ProvisioningInit => RInv
  BY IntakeStart DEF ProvisioningInit
<1>2. ASSUME RInv, [ProvisioningNext]_provisioningVars
      PROVE  RInv'
  <2>1. CASE UNCHANGED intakeVars
    <3>1. UNCHANGED << status, runs, turns, request, answers >>
      BY <2>1 DEF intakeVars, tables
    <3>2. IntakeTypeOK' /\ TablesOK' /\ AnswersOK'
      BY <1>2, <3>1 DEF RInv, IntakeTypeOK, TablesOK, AnswersOK, DeletedSessionsIdle
    <3>3. ASSUME NEW q \in Requests
          PROVE  (Asked(q) /\ Found(q))'
      BY <1>2, <3>1 DEF RInv, Asked, Found, HoldsSession, Input
    <3>4. ASSUME NEW q \in Requests, NEW w \in Requests, q # w
          PROVE  Apart(q, w)'
      BY <1>2, <3>1, <3>4 DEF RInv, Apart, SameKey, HoldsKey, HoldsSession, Input
    <3> QED
      BY <3>2, <3>3, <3>4 DEF RInv
  <2>2. CASE IntakeNext
    <3>1. ASSUME NEW r \in Requests, Statements(r)
          PROVE  RInv'
      <4>1. CASE Fail(r)
        BY <1>2, <4>1, ThrownOK DEF Fail
      <4>2. CASE Fallback(r)
        <5>1. Asked(r) /\ request[r].pc = "fallback"
          BY <1>2, <4>2 DEF RInv, Fallback, At
        <5>2. request[r].op \in {"run", "turn"} /\ Input(r) \in Inputs
          BY <5>1 DEF Asked
        <5> QED
          BY <1>2, <4>2, <5>2, RefusedOK, ReplayedOK DEF Fallback
      <4> QED
        BY <1>2, <3>1, <4>1, <4>2, LockKeyOK, LookupOK, LockSessionOK, InsertRunOK, CommitRunOK,
           CheckRunsOK, CommitDeleteOK DEF Statements
    <3> QED
      BY <1>2, <2>2, <3>1, OpenedOK, RunEndsOK DEF IntakeNext
  <2> QED
    BY <1>2, <2>1, <2>2 DEF ProvisioningNext, provisioningVars
<1> QED
  BY <1>1, <1>2, PTL DEF ProvisioningSpec

\* All who use a key and are answered are told of one run, the one they asked for.
THEOREM KeyAnsweredOnce == ProvisioningSpec => []OneAnswerPerKey
<1>1. ASSUME RInv
      PROVE  OneAnswerPerKey
  <2>1. ASSUME NEW a \in answers, NEW b \in answers, a.input.op = b.input.op,
               a.input.user = b.input.user, a.input.key = b.input.key
        PROVE  a = b
    <3>1. /\ a \in [input : Inputs, run : Nat] /\ b \in [input : Inputs, run : Nat]
          /\ a.run \in DOMAIN runs /\ runs[a.run].input = a.input /\ (a.input.op = "turn" => a \in turns)
          /\ b.run \in DOMAIN runs /\ runs[b.run].input = b.input /\ (b.input.op = "turn" => b \in turns)
      BY <1>1 DEF RInv, IntakeTypeOK, AnswersOK
    <3>2. CASE a.input.op = "turn"
      BY <1>1, <2>1, <3>1, <3>2 DEF RInv, TablesOK
    <3>3. CASE a.input.op = "run"
      <4>1. runs[a.run].key = a.input.key /\ runs[b.run].key = b.input.key
        <5>1. \A i \in DOMAIN runs : runs[i].key = RunKey(runs[i].input)
          BY <1>1 DEF RInv, TablesOK
        <5>2. runs[a.run].key = RunKey(a.input) /\ runs[b.run].key = RunKey(b.input)
          BY <3>1, <5>1
        <5> QED
          BY <2>1, <3>3, <5>2 DEF RunKey
      <4>2. a.run = b.run
        BY <1>1, <2>1, <3>1, <4>1 DEF RInv, TablesOK
      <4> QED
        BY <3>1, <4>2
    <3> QED
      BY <3>1, <3>2, <3>3 DEF Inputs
  <2> QED
    BY <1>1, <2>1 DEF OneAnswerPerKey, RInv, AnswersOK
<1> QED
  BY <1>1, IntakeInvariant, PTL

\* A deleted session has no run in progress and gets none.
THEOREM DeletedStayIdle == ProvisioningSpec => []DeletedSessionsIdle
<1>1. RInv => DeletedSessionsIdle
  BY DEF RInv, TablesOK
<1> QED
  BY <1>1, IntakeInvariant, PTL
=============================================================================
