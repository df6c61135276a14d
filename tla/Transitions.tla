----------------------------- MODULE Transitions ----------------------------
(***************************************************************************)
(* The transactions that move a run and leave evidence of it:              *)
(* WorkflowTransitionService over PostgresWorkflowTransitionStore (OR-006), *)
(* PolicyPreflightService over PostgresPolicyPreflightStore (OR-008), and  *)
(* the append to the audit chain that all of them share with every other   *)
(* service (AuditService, appendAuditEvent of the Go services).            *)
(*                                                                         *)
(* A call is a sequence of statements, each a step; its rows appear at the *)
(* commit.  Locks are held to the end of the transaction: the row lock of  *)
(* the UPDATE, and the advisory lock of the chain.  seq of audit_events is *)
(* an identity column: a number drawn by a transaction that rolls back is  *)
(* lost.  The hash of an event is modelled by its number.                  *)
(*                                                                         *)
(* Nothing in the repository calls the two services yet.  A caller is one  *)
(* that follows their interfaces: it acts on the snapshot of the run that  *)
(* it has, and passes the conditions that a pre-flight has given it, with  *)
(* a cloud context that was loaded.                                        *)
(***************************************************************************)
EXTENDS Naturals, Sequences, SequencesExt, WorkflowFsm

CONSTANTS Callers,         \* requests and workers that act on the run
          MaxCalls,        \* bound: calls made
          MaxDisturbances  \* bound: statements that fail, acknowledgements lost,
                           \* and changes of the workspace's policies

ASSUME TransitionsAssumption == MaxCalls \in Nat /\ MaxDisturbances \in Nat

VARIABLES run,       \* the row: state, state_version, policy_requirements
          chain,     \* audit_events
          stream,    \* sse_events of the run
          caller,    \* the calls
          settings,  \* the workspace: policies on or off, their version, deleted
          spent      \* bounds, and the last number drawn for audit_events

transitionVars == << run, chain, stream, caller, settings, spent >>

\* A call with what is left of it to do; and no call.
Calling(op, todo, to) ==
  [op |-> op, todo |-> todo, to |-> to, policy |-> 0, previous |-> 0, seq |-> 0]
NotCalling == Calling("none", <<>>, "")

\* Mutant of Order: the pre-flight appends its audit event before its update.
OrderAuditFirst(op) ==
  CASE op = "transition" -> <<"update", "lock", "previous", "insert", "event", "commit">>
    [] op = "persist"    -> <<"lock", "previous", "insert", "update", "commit">>
    [] OTHER             -> <<"lock", "previous", "insert", "commit">>

\* The statements of each transaction.
Order(op) ==
  CASE op = "transition" -> <<"update", "lock", "previous", "insert", "event", "commit">>
    [] op = "persist"    -> <<"update", "lock", "previous", "insert", "commit">>
    [] OTHER             -> <<"lock", "previous", "insert", "commit">>

Call(c) == caller[c].call
Due(c, statement) == Call(c).todo # <<>> /\ Head(Call(c).todo) = statement
Passed(c, statement) == Call(c).todo # <<>> /\ statement \notin ToSet(Call(c).todo)

HoldsRow(c)   == Call(c).op \in {"transition", "persist"} /\ Passed(c, "update")
HoldsChain(c) == Call(c).op # "load" /\ Passed(c, "lock")

Done(c) == [Call(c) EXCEPT !.todo = Tail(@)]
Continue(c, call) ==
  /\ caller' = [caller EXCEPT ![c].call = call]
  /\ UNCHANGED << run, chain, stream, settings >>

-----------------------------------------------------------------------------
(* Calls                                                                   *)

\* The caller reads the run, wherever it takes its snapshot from.
ReadRun(c) ==
  /\ Call(c) = NotCalling
  /\ caller[c].run # [state |-> run.state, version |-> run.version]
  /\ caller' = [caller EXCEPT ![c].run = [state |-> run.state, version |-> run.version]]
  /\ UNCHANGED << run, chain, stream, settings, spent >>

Begin(c, call) ==
  /\ Call(c) = NotCalling
  /\ spent.calls < MaxCalls
  /\ spent' = [spent EXCEPT !.calls = @ + 1]
  /\ Continue(c, call)

\* assertTransition throws for what the table and the conditions do not allow.
transition(c, to) ==
  /\ assertTransition(caller[c].run.state, to, caller[c].conditions \cup {"cloudContextLoaded"})
  /\ Begin(c, Calling("transition", Order("transition"), to))

load(c) ==
  /\ caller[c].run.state = "POLICY_LOADED"
  /\ Begin(c, Calling("load", <<"enabled", "fetch">>, ""))

\* AuditService.append without a transaction of its caller, here or in Go.
append(c) == Begin(c, Calling("append", Order("append"), ""))

\* ROLLBACK, and the error or the null that the caller is told of.
Rollback(c) == Continue(c, NotCalling)

-----------------------------------------------------------------------------
(* Statements of the pre-flight before its transaction                     *)

\* Fail closed: a workspace that is not found is an error.
policiesEnabled(c) ==
  /\ Due(c, "enabled")
  /\ IF settings.deleted THEN Rollback(c)
     ELSE IF settings.enabled THEN Continue(c, Done(c))
     ELSE Continue(c, [Call(c) EXCEPT !.op = "skip", !.todo = Order("skip")])
  /\ UNCHANGED spent

\* The requirements of this moment.
getPolicyRequirements(c) ==
  /\ Due(c, "fetch")
  /\ Continue(c, [Call(c) EXCEPT !.op = "persist", !.todo = Order("persist"),
                                 !.policy = settings.version])
  /\ UNCHANGED spent

-----------------------------------------------------------------------------
(* Statements of the transactions                                          *)

\* The WHERE clause, evaluated on the row as it is committed.
Matches(c) ==
  IF Call(c).op = "transition"
  THEN caller[c].run = [state |-> run.state, version |-> run.version]
  ELSE run.state = "POLICY_LOADED"

RowFree(c) == \A d \in Callers \ {c} : ~HoldsRow(d)

\* Mutant of Update: the WHERE clause of a transition names the run only.
UpdateBlind(c) ==
  /\ Due(c, "update") /\ RowFree(c)
  /\ IF Matches(c) \/ Call(c).op = "transition" THEN Continue(c, Done(c)) ELSE Rollback(c)
  /\ UNCHANGED spent

\* Mutant of Update: requirements are saved in a transaction of their own.
UpdateAutocommitted(c) ==
  /\ Due(c, "update") /\ RowFree(c)
  /\ caller' = [caller EXCEPT ![c].call = IF Matches(c) THEN Done(c) ELSE NotCalling]
  /\ run' = IF Matches(c) /\ Call(c).op = "persist"
            THEN [run EXCEPT !.policy = Call(c).policy] ELSE run
  /\ UNCHANGED << chain, stream, settings, spent >>

\* UPDATE waits for the row lock; without a row it is rolled back.
Update(c) ==
  /\ Due(c, "update") /\ RowFree(c)
  /\ IF Matches(c) THEN Continue(c, Done(c)) ELSE Rollback(c)
  /\ UNCHANGED spent

\* Mutant of LockChain: the chain is read without its lock.
LockChainNot(c) == Due(c, "lock") /\ Continue(c, Done(c)) /\ UNCHANGED spent

\* pg_advisory_xact_lock(hashtext('provisr_audit.chain'), 0)
LockChain(c) ==
  /\ Due(c, "lock") /\ \A d \in Callers \ {c} : ~HoldsChain(d)
  /\ Continue(c, Done(c)) /\ UNCHANGED spent

Numbers == { e.seq : e \in chain }
Tail0(numbers) == IF numbers = {} THEN 0 ELSE CHOOSE n \in numbers : \A k \in numbers : k <= n

\* SELECT hash ... ORDER BY seq DESC LIMIT 1
ReadPrevious(c) ==
  /\ Due(c, "previous")
  /\ Continue(c, [Done(c) EXCEPT !.previous = Tail0(Numbers)])
  /\ UNCHANGED spent

InsertAudit(c) ==
  /\ Due(c, "insert")
  /\ spent' = [spent EXCEPT !.seq = @ + 1]
  /\ Continue(c, [Done(c) EXCEPT !.seq = spent.seq + 1])

\* appendStateChangedOutboxEvent; its own lock is the one of EventStream.
InsertEvent(c) == Due(c, "event") /\ Continue(c, Done(c)) /\ UNCHANGED spent

\* What a commit makes visible.  The evidence is made from the snapshot.
Change(c) ==
  [from |-> caller[c].run.state, to |-> Call(c).to, version |-> caller[c].run.version + 1]

AuditOf(c) == [seq |-> Call(c).seq, previous |-> Call(c).previous, op |-> Call(c).op,
               change |-> IF Call(c).op = "transition" THEN Change(c)
                          ELSE [from |-> "", to |-> "", version |-> 0],
               policy |-> Call(c).policy]

Committed(c) ==
  /\ chain' = chain \cup {AuditOf(c)}
  /\ run' = CASE Call(c).op = "transition" -> [run EXCEPT !.state = Call(c).to, !.version = @ + 1]
              [] Call(c).op = "persist"    -> [run EXCEPT !.policy = Call(c).policy]
              [] OTHER                     -> run
  /\ stream' = IF Call(c).op = "transition" THEN Append(stream, Change(c)) ELSE stream
  /\ UNCHANGED settings

\* The result of load: the evidence for the gates behind POLICY_LOADED.
Conditions(c) ==
  CASE Call(c).op = "persist" -> {"policiesEnabled", "policyRequirementsLoaded"}
    [] Call(c).op = "skip"    -> {"policyRequirementsLoaded"}
    [] OTHER                  -> caller[c].conditions

Commit(c) ==
  /\ Due(c, "commit") /\ Committed(c)
  /\ caller' = [caller EXCEPT ![c] =
                 [run |-> IF Call(c).op = "transition"
                          THEN [state |-> run'.state, version |-> run'.version] ELSE @.run,
                  conditions |-> Conditions(c), call |-> NotCalling]]
  /\ UNCHANGED spent

Disturbed ==
  /\ spent.disturbances < MaxDisturbances
  /\ spent' = [spent EXCEPT !.disturbances = @ + 1]

\* The commit is done, and the caller is told of an error.
CommitUnacknowledged(c) ==
  /\ Due(c, "commit") /\ Committed(c) /\ Disturbed
  /\ caller' = [caller EXCEPT ![c].call = NotCalling]

\* Any statement, the call of the policy service or the process fails: ROLLBACK.
StatementFails(c) == Call(c) # NotCalling /\ Disturbed /\ Rollback(c)

\* An admin changes the policies, turns them on or off, or deletes the workspace.
SetPolicies ==
  /\ Disturbed
  /\ \/ settings' = [settings EXCEPT !.version = @ + 1]
     \/ settings' = [settings EXCEPT !.enabled = ~@]
     \/ settings' = [settings EXCEPT !.deleted = TRUE]
  /\ UNCHANGED << run, chain, stream, caller >>

-----------------------------------------------------------------------------
TransitionsInit ==
  /\ run = [state |-> "RECEIVED", version |-> 0, policy |-> 0]
  /\ chain = {} /\ stream = <<>>
  /\ caller = [c \in Callers |-> [run |-> [state |-> "RECEIVED", version |-> 0],
                                  conditions |-> {}, call |-> NotCalling]]
  /\ \E enabled \in BOOLEAN : settings = [enabled |-> enabled, version |-> 1, deleted |-> FALSE]
  /\ spent = [calls |-> 0, disturbances |-> 0, seq |-> 0]

Statement(c) ==
  \/ policiesEnabled(c) \/ getPolicyRequirements(c)
  \/ Update(c) \/ LockChain(c) \/ ReadPrevious(c) \/ InsertAudit(c) \/ InsertEvent(c) \/ Commit(c)

TransitionsNext ==
  \/ SetPolicies
  \/ \E c \in Callers :
       \/ ReadRun(c) \/ load(c) \/ append(c) \/ \E to \in WORKFLOW_STATES : transition(c, to)
       \/ Statement(c) \/ CommitUnacknowledged(c) \/ StatementFails(c)

TransitionsTypeOK ==
  /\ run.state \in WORKFLOW_STATES /\ run.version \in Nat /\ run.policy \in Nat
  /\ \A c \in Callers : caller[c].conditions \subseteq TransitionConditions

-----------------------------------------------------------------------------
(* Properties                                                              *)

\* "preventing unaudited or unpublished transitions" (the comment of the
\* store): every version of the run has one audit event and one event of the
\* stream, and together they lead from RECEIVED to the state of the row,
\* although the evidence is written from snapshots and calls race and fail.
EvidenceComplete ==
  LET audited == { e \in chain : e.op = "transition" }
  IN  /\ Len(stream) = run.version /\ { e.change : e \in audited } = ToSet(stream)
      /\ \A d, e \in audited : d.change = e.change => d = e
      /\ \A i \in DOMAIN stream :
           /\ stream[i].version = i
           /\ stream[i].from = IF i = 1 THEN "RECEIVED" ELSE stream[i - 1].to
      /\ stream # <<>> => run.state = Last(stream).to

\* The audit chain does not fork and does not break: every event refers to
\* the event before it by seq, over rollbacks that lose numbers ("the chain
\* cannot fork under concurrent mutations", 000013_audit_chain_seq.up.sql).
ChainUnbroken ==
  \A e \in chain : e.previous = Tail0({ n \in Numbers : n < e.seq })

\* "retain the exact policy snapshot used to create a manifest"
\* (000019_policy_preflight.up.sql): the requirements in the row are those of
\* the last pre-flight in the audit chain, and none comes after the
\* transition out of POLICY_LOADED, however late a load is that began before.
SnapshotAudited ==
  LET loaded == { e \in chain : e.op = "persist" }
      last   == Tail0({ e.seq : e \in loaded })
      left   == { e \in chain : e.op = "transition" /\ e.change.from = "POLICY_LOADED" }
  IN  /\ run.policy = IF loaded = {} THEN 0 ELSE (CHOOSE e \in loaded : e.seq = last).policy
      /\ \A e \in left : last < e.seq

\* "The persisted snapshot, not an agent's claim that it called a tool, is the
\* evidence used by later gates" (policy-preflight.service.ts): no manifest is
\* created for a run that has neither requirements nor a recorded skip.
GateEvidence ==
  run.state = "MANIFEST_CREATING" => run.policy # 0 \/ \E e \in chain : e.op = "skip"

\* Every call ends: the transactions take the lock of the row and the lock of
\* the chain in one order, so no two of them wait for each other.
CallsEnd == \A c \in Callers : Call(c) # NotCalling ~> Call(c) = NotCalling

\* The pre-flight leaves evidence: the requirements in the row are the audited
\* ones, and no manifest is created without them or a recorded skip.
PreflightEvidence == SnapshotAudited /\ GateEvidence
=============================================================================
