---------------------------- MODULE EventStream -----------------------------
(***************************************************************************)
(* The server's end of the event stream.  Transactions of the orchestrator *)
(* append rows to provisr_events.sse_events (publish of runs.service.ts,   *)
(* appendStateChangedOutboxEvent of postgres-outbox.writer.ts), and        *)
(* SseController polls the rows of one workspace behind a cursor.          *)
(*                                                                         *)
(* stream_sequence is a BIGSERIAL of all workspaces: a number is drawn     *)
(* when the row is inserted and the row appears when its transaction       *)
(* commits, so rows may appear in another order than their numbers.  Only  *)
(* the advisory lock per workspace keeps a poll from passing over a row    *)
(* that is still to appear.                                                *)
(***************************************************************************)
EXTENDS Naturals, Sequences, FiniteSets, SequencesExt

CONSTANTS
  Writers,     \* transactions that may be open at the same time
  Workspaces,
  Watched,     \* the workspace whose events the client asked for
  Limit,       \* LIMIT of a poll: 250
  MaxEvents,   \* bound on the numbers drawn
  MaxDrops,    \* bound on the connections lost
  None

ASSUME EventStreamAssumption ==
  /\ Watched \in Workspaces /\ None \notin Writers \cup Nat
  /\ Limit \in Nat \ {0} /\ MaxEvents \in Nat /\ MaxDrops \in Nat

VARIABLES
  sequence,   \* the last number drawn
  rows,       \* committed rows: number and workspace
  inserted,   \* rows of every open transaction
  lock,       \* the transaction that holds the lock of a workspace
  cursor,     \* of the stream that is open, or None
  wire,       \* numbers sent and not yet received
  received,   \* numbers the client has received, in order
  drops

table == << sequence, rows, inserted, lock >>
feed  == << cursor, wire, received, drops >>
streamVars  == << table, feed >>

EventsOf(ws) == { row.seq : row \in { r \in rows : r.ws = ws } }
Ascending(numbers) == \A i, j \in DOMAIN numbers : i < j => numbers[i] < numbers[j]

\* The browser's Last-Event-ID: the id of the last event it received.
lastEventId == IF received = <<>> THEN 0 ELSE Last(received)
----------------------------------------------------------------------------
(* Writers                                                                 *)

Draw(w, ws) ==
  /\ sequence < MaxEvents /\ sequence' = sequence + 1
  /\ inserted' = [inserted EXCEPT ![w] = @ \cup {[seq |-> sequence', ws |-> ws]}]

\* Mutant of publish: the row is inserted without the lock.
publishUnlocked(w, ws) == Draw(w, ws) /\ UNCHANGED << rows, lock, feed >>

\* pg_advisory_xact_lock(hashtext('provisr_sse'), hashtext(workspace)), INSERT.
publish(w, ws) ==
  /\ lock[ws] \in {None, w}
  /\ lock' = [lock EXCEPT ![ws] = w]
  /\ Draw(w, ws)
  /\ UNCHANGED << rows, feed >>

EndTransaction(w) ==
  /\ inserted[w] # {}
  /\ inserted' = [inserted EXCEPT ![w] = {}]
  /\ lock' = [ws \in Workspaces |-> IF lock[ws] = w THEN None ELSE lock[ws]]
  /\ UNCHANGED << sequence, feed >>

CommitTransaction(w)   == EndTransaction(w) /\ rows' = rows \cup inserted[w]
RollbackTransaction(w) == EndTransaction(w) /\ UNCHANGED rows
----------------------------------------------------------------------------
(* SseController                                                           *)

\* The cursor is the number of the row with the id the client has last seen.
events ==
  /\ cursor = None
  /\ cursor' = lastEventId
  /\ UNCHANGED << table, wire, received, drops >>

Later == { n \in EventsOf(Watched) : n > cursor }

\* WHERE stream_sequence > cursor ORDER BY stream_sequence ASC LIMIT 250: what
\* the limit leaves out comes after what it lets through.
IsPage(page) ==
  /\ Ascending(page)
  /\ \A n \in Later \ ToSet(page) : Len(page) = Limit /\ \A m \in ToSet(page) : m < n

Pages == { page \in BoundedSeq(Later, Limit) : IsPage(page) }

\* Mutant of Poll: the cursor goes to the newest number.
PollToNewest ==
  /\ cursor # None
  /\ \E page \in Pages : page # <<>> /\ wire' = wire \o page /\ cursor' = sequence
  /\ UNCHANGED << table, received, drops >>

\* One tick of the timer; a tick without rows sends a heartbeat without an id.
Poll ==
  /\ cursor # None
  /\ \E page \in Pages : page # <<>> /\ wire' = wire \o page /\ cursor' = Last(page)
  /\ UNCHANGED << table, received, drops >>
----------------------------------------------------------------------------
(* The client: a browser's EventSource                                     *)

Receive ==
  /\ wire # <<>>
  /\ received' = Append(received, Head(wire)) /\ wire' = Tail(wire)
  /\ UNCHANGED << table, cursor, drops >>

\* What is on the wire is lost with the connection.
Drop ==
  /\ cursor # None
  /\ drops < MaxDrops /\ drops' = drops + 1
  /\ cursor' = None /\ wire' = <<>>
  /\ UNCHANGED << table, received >>
----------------------------------------------------------------------------
StreamInit ==
  /\ sequence = 0 /\ rows = {}
  /\ inserted = [w \in Writers |-> {}]
  /\ lock = [ws \in Workspaces |-> None]
  /\ cursor = None /\ wire = <<>> /\ received = <<>> /\ drops = 0

StreamNext ==
  \/ \E w \in Writers :
       \/ \E ws \in Workspaces : publish(w, ws)
       \/ CommitTransaction(w) \/ RollbackTransaction(w)
  \/ events \/ Poll \/ Receive \/ Drop

----------------------------------------------------------------------------
(* Properties                                                              *)

\* Numbers are drawn once, and a workspace with rows that are not committed
\* is locked by the transaction that inserted them.
StreamTypeOK ==
  /\ sequence \in 0 .. MaxEvents
  /\ rows \subseteq [seq : 1 .. sequence, ws : Workspaces]
  /\ cursor \in (0 .. sequence) \cup {None}
  /\ \A w \in Writers : \A row \in inserted[w] :
       row.seq \in 1 .. sequence /\ lock[row.ws] = w /\ row.seq \notin EventsOf(row.ws)

\* What the client has received is what was committed for its workspace, from
\* the first event on, in order, without a gap and without a repetition: no
\* transaction that commits late is passed over, and no connection that is
\* lost between two polls loses or repeats an event.
NothingMissed ==
  /\ Ascending(received)
  /\ ToSet(received) = { n \in EventsOf(Watched) : n <= lastEventId }

\* Every committed event of the workspace arrives at the client.  Neither set
\* ever shrinks, so this says of each number that it leads to its receipt.
EventuallyReceived ==
  <>[](\A n \in 1 .. MaxEvents : n \in EventsOf(Watched) => n \in ToSet(received))
============================================================================
