----------------------------- MODULE RunIntake ------------------------------
(***************************************************************************)
(* How runs come into being in the orchestrator: createRun of              *)
(* runs.service.ts, and submitPlanningTurn and deleteSession of            *)
(* chat-persistence.service.ts.  Clients repeat requests with the key of   *)
(* the first attempt, sessions are deleted meanwhile, and a commit may     *)
(* succeed without its client hearing of it.                               *)
(*                                                                         *)
(* Every statement of a transaction is a step, and its rows appear at the  *)
(* commit.  The locks are those of the statements: an advisory lock on the *)
(* operation, user and key, and FOR UPDATE on the session, both held to    *)
(* the end of the transaction.  Members and roles are in Workspaces.       *)
(***************************************************************************)
EXTENDS Naturals, Sequences, SequencesExt

CONSTANTS
  Sessions,   \* chat sessions, active at first
  Users,
  Owner,      \* the user of every session
  Keys,       \* idempotency keys the users choose
  Messages,   \* prompts, each with its client message id
  Requests,   \* requests that may be open at the same time
  MaxRuns,    \* bound on the runs created
  None

\* What a run or a turn is asked for with.
Inputs == [op : {"run", "turn"}, user : Users, key : Keys, session : Sessions, message : Messages]

\* The hash of a turn is no key of a client.
ASSUME RunIntakeAssumption ==
  Owner \in [Sessions -> Users] /\ MaxRuns \in Nat /\ Keys \cap Inputs = {}

VARIABLES
  status,    \* chat_sessions.status
  runs,      \* provisioning_runs, in the order of their creation
  turns,     \* chat_turns: the request and the index of its run
  request,   \* the open requests
  answers    \* what clients have been told: a request and its run

tables     == << status, runs, turns >>
intakeVars == << tables, request, answers >>
----------------------------------------------------------------------------
(* Requests, their locks and their ends                                    *)

Idle == [pc |-> "idle", op |-> None, user |-> None, key |-> None,
         session |-> None, message |-> None]

Input(r) == [op |-> request[r].op, user |-> request[r].user, key |-> request[r].key,
             session |-> request[r].session, message |-> request[r].message]

At(r, pc) == request[r].pc = pc
Go(r, pc) == request' = [request EXCEPT ![r].pc = pc]
Move(r, pc) == Go(r, pc) /\ UNCHANGED << tables, answers >>

Open(r, op, u, k, s, m, pc) ==
  /\ At(r, "idle")
  /\ request' = [request EXCEPT ![r] = [pc |-> pc, op |-> op, user |-> u, key |-> k,
                                        session |-> s, message |-> m]]
  /\ UNCHANGED << tables, answers >>

Close(r) == request' = [request EXCEPT ![r] = Idle]
Refuse(r) == Close(r) /\ UNCHANGED << tables, answers >>

Answer(r, run) ==
  /\ answers' = answers \cup {[input |-> Input(r), run |-> run]}
  /\ Close(r)

\* The error path: submitPlanningTurn looks for the turn once more.
Throw(r) == IF request[r].op = "turn" THEN Move(r, "fallback") ELSE Refuse(r)

HoldsKey(r)     == request[r].pc \in {"lookup", "session", "insert", "commit"}
HoldsSession(r) == request[r].pc \in {"insert", "commit", "runs", "delete"}

SameKey(q, r) == << Input(q).op, Input(q).user, Input(q).key >> =
                 << Input(r).op, Input(r).user, Input(r).key >>
----------------------------------------------------------------------------
(* Statements                                                              *)

createRun(r, u, k, s, m)          == Open(r, "run", u, k, s, m, "lock")
submitPlanningTurn(r, u, k, s, m) == Open(r, "turn", u, k, s, m, "lock")
deleteSession(r, u, s)            == Open(r, "delete", u, None, s, None, "session")

\* pg_advisory_xact_lock(create_run: or chat_turn:, workspace, user, key)
LockKey(r) ==
  /\ At(r, "lock")
  /\ \A q \in Requests \ {r} : ~(HoldsKey(q) /\ SameKey(q, r))
  /\ Move(r, "lookup")

\* The idempotency_key of the run: the client's, or the hash of the turn.
RunKey(input) == IF input.op = "run" THEN input.key ELSE input

\* Mutant of SameRequest: the prompt is not compared.
SameRequestIgnoringMessage(a, b) == a.user = b.user /\ a.session = b.session

\* The comparison with the run, or of the turn's fingerprint.
SameRequest(a, b) == a.user = b.user /\ a.session = b.session /\ a.message = b.message

\* createRun finds a run of any user; a turn is one of the user.
Existing(input) ==
  IF input.op = "run"
  THEN { [input |-> runs[i].input, run |-> i] : i \in { j \in DOMAIN runs : runs[j].key = input.key } }
  ELSE { t \in turns : t.input.user = input.user /\ t.input.key = input.key }

\* Found: replay it, or a conflict when it is another request.
Replay(r, found) ==
  IF SameRequest(found.input, Input(r))
  THEN Answer(r, found.run) /\ UNCHANGED tables
  ELSE Refuse(r)

Lookup(r) ==
  /\ At(r, "lookup")
  /\ IF Existing(Input(r)) = {} THEN Move(r, "session")
     ELSE \E found \in Existing(Input(r)) : Replay(r, found)

AfterSession(op) == IF op = "delete" THEN "runs" ELSE "insert"

\* Mutant of LockSession: assertSessionOwner without FOR UPDATE.
ReadSession(r) ==
  /\ At(r, "session")
  /\ IF status[request[r].session] = "active" /\ Owner[request[r].session] = request[r].user
     THEN Move(r, AfterSession(request[r].op)) ELSE Throw(r)

\* SELECT ... FOR UPDATE of the user's active session.
LockSession(r) ==
  /\ At(r, "session")
  /\ \A q \in Requests \ {r} :
       ~(HoldsSession(q) /\ request[q].session = request[r].session)
  /\ IF status[request[r].session] = "active" /\ Owner[request[r].session] = request[r].user
     THEN Move(r, AfterSession(request[r].op)) ELSE Throw(r)

\* The unique indexes: the run's key, and the message of a session in its turns.
Taken(input) ==
  \/ \E i \in DOMAIN runs : runs[i].key = RunKey(input)
  \/ /\ input.op = "turn"
     /\ \E t \in turns : t.input.session = input.session /\ t.input.message = input.message

\* The inserts wait for an open transaction that has inserted the same key.
InsertRun(r) ==
  /\ At(r, "insert")
  /\ \A q \in Requests \ {r} : ~(At(q, "commit") /\ RunKey(Input(q)) = RunKey(Input(r)))
  /\ IF Taken(Input(r)) THEN Throw(r) ELSE Move(r, "commit")

\* The run, its audit event and its stream event; and the turn and its message.
Created(r) ==
  /\ Len(runs) < MaxRuns
  /\ runs' = Append(runs, [key |-> RunKey(Input(r)), input |-> Input(r), live |-> TRUE])
  /\ turns' = IF request[r].op = "turn"
              THEN turns \cup {[input |-> Input(r), run |-> Len(runs')]} ELSE turns
  /\ UNCHANGED status

CommitRun(r) == At(r, "commit") /\ Created(r) /\ Answer(r, Len(runs'))

\* The commit is done and its acknowledgement is lost.
CommitUnacknowledged(r) ==
  /\ At(r, "commit") /\ Created(r)
  /\ IF request[r].op = "turn" THEN Go(r, "fallback") ELSE Close(r)
  /\ UNCHANGED answers

\* Any other error of a statement or of the connection.
Fail(r) == request[r].pc \notin {"idle", "fallback"} /\ Throw(r)

Fallback(r) ==
  /\ At(r, "fallback")
  /\ IF Existing(Input(r)) = {} THEN Refuse(r)
     ELSE \E found \in Existing(Input(r)) : Replay(r, found)

CheckRuns(r) ==
  /\ At(r, "runs")
  /\ IF \E i \in DOMAIN runs : runs[i].live /\ runs[i].input.session = request[r].session
     THEN Refuse(r) ELSE Move(r, "delete")

CommitDelete(r) ==
  /\ At(r, "delete")
  /\ status' = [status EXCEPT ![request[r].session] = "deleted"]
  /\ Close(r)
  /\ UNCHANGED << runs, turns, answers >>

\* The run reaches COMPLETED, FAILED or CANCELLED (RunLifecycle).
RunEnds(i) ==
  /\ runs[i].live
  /\ runs' = [runs EXCEPT ![i].live = FALSE]
  /\ UNCHANGED << status, turns, request, answers >>
----------------------------------------------------------------------------
IntakeInit ==
  /\ status = [s \in Sessions |-> "active"]
  /\ runs = <<>> /\ turns = {} /\ answers = {}
  /\ request = [r \in Requests |-> Idle]

Handlers(r) ==
  \E u \in Users, s \in Sessions :
    \/ deleteSession(r, u, s)
    \/ \E k \in Keys, m \in Messages :
         createRun(r, u, k, s, m) \/ submitPlanningTurn(r, u, k, s, m)

Statements(r) ==
  \/ LockKey(r) \/ Lookup(r) \/ LockSession(r) \/ InsertRun(r)
  \/ CommitRun(r) \/ CommitUnacknowledged(r) \/ Fail(r) \/ Fallback(r)
  \/ CheckRuns(r) \/ CommitDelete(r)

IntakeNext ==
  \/ \E r \in Requests : Handlers(r) \/ Statements(r)
  \/ \E i \in DOMAIN runs : RunEnds(i)

IntakeSpec == IntakeInit /\ [][IntakeNext]_intakeVars
----------------------------------------------------------------------------
(* Properties                                                              *)

\* A key names one request and one run for ever: whatever is repeated, lost
\* or concurrent, all who use the key and are answered asked for the same
\* thing and are told the same run, and that run is what they asked for.
OneAnswerPerKey ==
  /\ \A a, b \in answers :
       << a.input.op, a.input.user, a.input.key >> = << b.input.op, b.input.user, b.input.key >>
       => a = b
  /\ \A a \in answers : runs[a.run].input = a.input

\* "Cannot delete session with active runs" (deleteSession): a session that
\* is deleted has no run in progress and gets none.
DeletedSessionsIdle ==
  \A i \in DOMAIN runs : runs[i].live => status[runs[i].input.session] = "active"
============================================================================
