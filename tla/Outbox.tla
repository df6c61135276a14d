------------------------------- MODULE Outbox -------------------------------
(***************************************************************************)
(* The delivery of outbox events: OutboxPublisherService (events/          *)
(* outbox-publisher.service.ts) over PostgresOutboxStore (events/          *)
(* postgres-outbox.store.ts).  An event is a number, its place in the      *)
(* order of (created_at, id).  Publishers claim an event for 30 seconds,   *)
(* hand it to the SSE hub and settle it; a publisher may be slower than    *)
(* its lease, may die, and may lose an answer of the database.  Nothing in *)
(* the repository calls publishNext yet, so no fairness is assumed of it.  *)
(*                                                                         *)
(* Clocks are abstracted to two facts per event: its next_attempt_at has   *)
(* come (due), and its locked_until has not come yet (leased).             *)
(***************************************************************************)
EXTENDS Naturals, FiniteSets

CONSTANTS
  Publishers,   \* workers that call publishNext
  Events,       \* events, numbered in creation order
  MaxFaults     \* bound: crashes and lost answers of the database

ASSUME OutboxAssumption ==
  /\ Events \subseteq Nat \ {0} /\ IsFiniteSet(Events)
  /\ MaxFaults \in Nat

VARIABLES
  status,     \* the column status, "absent" before the insert commits
  attempts,   \* the column delivery_attempts
  due,        \* next_attempt_at <= now()
  leased,     \* locked_until > now()
  delivered,  \* times the SSE hub accepted the event
  publisher,  \* where each publisher is in publishNext, and what it claimed
  faults

outboxVars == << status, attempts, due, leased, delivered, publisher, faults >>

MAX_DELIVERY_ATTEMPTS == 3

Idle == [pc |-> "idle", event |-> 0, deliveryAttempts |-> 0]
At(p, pc) == publisher[p].pc = pc
Move(p, pc) == publisher' = [publisher EXCEPT ![p].pc = pc]
Rest(p) == publisher' = [publisher EXCEPT ![p] = Idle]
Event(p) == publisher[p].event

Fault == faults < MaxFaults /\ faults' = faults + 1
----------------------------------------------------------------------------
\* The transaction that inserted the event commits (status and next_attempt_at
\* have their defaults).
AppendEvent(e) ==
  /\ status[e] = "absent"
  /\ status' = [status EXCEPT ![e] = "pending"]
  /\ due' = [due EXCEPT ![e] = TRUE]
  /\ UNCHANGED << attempts, leased, delivered, publisher, faults >>

Claimable ==
  { e \in Events : \/ status[e] = "pending" /\ due[e]
                   \/ status[e] = "publishing" /\ ~leased[e] }

claimOldestPending(p) ==
  /\ At(p, "idle")
  /\ \E e \in Claimable :
       /\ \A d \in Claimable : e <= d
       /\ status' = [status EXCEPT ![e] = "publishing"]
       /\ attempts' = [attempts EXCEPT ![e] = @ + 1]
       /\ leased' = [leased EXCEPT ![e] = TRUE]
       /\ publisher' = [publisher EXCEPT ![p] =
            [pc |-> "publish", event |-> e, deliveryAttempts |-> attempts[e] + 1]]
  /\ UNCHANGED << due, delivered, faults >>

\* publisher.publish resolves: the hub has the event.
Publish(p) ==
  /\ At(p, "publish")
  /\ delivered' = [delivered EXCEPT ![Event(p)] = @ + 1]
  /\ Move(p, "mark")
  /\ UNCHANGED << status, attempts, due, leased, faults >>

PublishFails(p) ==
  /\ At(p, "publish")
  /\ Move(p, "settle")
  /\ UNCHANGED << status, attempts, due, leased, delivered, faults >>

\* Mutant of SetIfPublishing: the update names the event only.
SetAnyway(e, value) == status' = [status EXCEPT ![e] = value]

\* Every settling update applies only to a row that is being published.
SetIfPublishing(e, value) ==
  status' = IF status[e] = "publishing" THEN [status EXCEPT ![e] = value] ELSE status

markPublished(p) ==
  /\ At(p, "mark")
  /\ SetIfPublishing(Event(p), "sent")
  /\ leased' = [leased EXCEPT ![Event(p)] = @ /\ status[Event(p)] # "publishing"]
  /\ Rest(p)
  /\ UNCHANGED << attempts, due, delivered, faults >>

\* markPublished throws inside the try block, the update applied with its answer
\* lost or not applied at all: the catch block settles the event although the
\* hub has it.
MarkPublishedFails(p) ==
  /\ At(p, "mark") /\ Fault
  /\ \/ UNCHANGED << status, leased >>
     \/ /\ SetIfPublishing(Event(p), "sent")
        /\ leased' = [leased EXCEPT ![Event(p)] = @ /\ status[Event(p)] # "publishing"]
  /\ Move(p, "settle")
  /\ UNCHANGED << attempts, due, delivered >>

\* The catch block decides from the attempts that its own claim returned.
markFailed(p) ==
  /\ At(p, "settle") /\ publisher[p].deliveryAttempts >= MAX_DELIVERY_ATTEMPTS
  /\ SetIfPublishing(Event(p), "failed")
  /\ leased' = [leased EXCEPT ![Event(p)] = @ /\ status[Event(p)] # "publishing"]
  /\ Rest(p)
  /\ UNCHANGED << attempts, due, delivered, faults >>

reschedule(p) ==
  /\ At(p, "settle") /\ publisher[p].deliveryAttempts < MAX_DELIVERY_ATTEMPTS
  /\ SetIfPublishing(Event(p), "pending")
  /\ due' = [due EXCEPT ![Event(p)] = @ /\ status[Event(p)] # "publishing"]
  /\ leased' = [leased EXCEPT ![Event(p)] = @ /\ status[Event(p)] # "publishing"]
  /\ Rest(p)
  /\ UNCHANGED << attempts, delivered, faults >>

\* The process dies, or its settling update is lost: the lease is left behind.
Crash(p) ==
  /\ ~At(p, "idle") /\ Fault
  /\ Rest(p)
  /\ UNCHANGED << status, attempts, due, leased, delivered >>

\* now() passes next_attempt_at, or locked_until, of an event.
BackoffEnds(e) ==
  /\ status[e] = "pending" /\ ~due[e]
  /\ due' = [due EXCEPT ![e] = TRUE]
  /\ UNCHANGED << status, attempts, leased, delivered, publisher, faults >>

LeaseEnds(e) ==
  /\ leased[e]
  /\ leased' = [leased EXCEPT ![e] = FALSE]
  /\ UNCHANGED << status, attempts, due, delivered, publisher, faults >>
----------------------------------------------------------------------------
OutboxInit ==
  /\ status = [e \in Events |-> "absent"]
  /\ attempts = [e \in Events |-> 0]
  /\ due = [e \in Events |-> FALSE]
  /\ leased = [e \in Events |-> FALSE]
  /\ delivered = [e \in Events |-> 0]
  /\ publisher = [p \in Publishers |-> Idle]
  /\ faults = 0

PublisherStep(p) ==
  \/ claimOldestPending(p) \/ Publish(p) \/ PublishFails(p)
  \/ markPublished(p) \/ markFailed(p) \/ reschedule(p)

TimePasses(e) == BackoffEnds(e) \/ LeaseEnds(e)

OutboxNext ==
  \/ \E e \in Events : AppendEvent(e) \/ TimePasses(e)
  \/ \E p \in Publishers : PublisherStep(p) \/ MarkPublishedFails(p) \/ Crash(p)

----------------------------------------------------------------------------
(* Properties                                                              *)

Statuses == {"absent", "pending", "publishing", "sent", "failed"}
Settled  == {"sent", "failed"}

\* The columns of the outbox row and the local state of publishNext; a
\* publisher that is not idle holds an event that it claimed.
OutboxTypeOK ==
  /\ status \in [Events -> Statuses]
  /\ attempts \in [Events -> Nat] /\ delivered \in [Events -> Nat]
  /\ due \in [Events -> BOOLEAN] /\ leased \in [Events -> BOOLEAN]
  /\ \A p \in Publishers :
       \/ publisher[p] = Idle
       \/ publisher[p] \in [pc : {"publish", "mark", "settle"}, event : Events,
                            deliveryAttempts : Nat \ {0}]
  /\ faults \in 0 .. MaxFaults

\* A row says "sent" only of an event that the hub has, and every delivery,
\* the repeated ones after a lost answer or a lease that ran out included,
\* is one of the counted attempts; a row says "failed" only after the last.
Accounted ==
  \A e \in Events :
    /\ status[e] = "sent" => delivered[e] >= 1
    /\ delivered[e] <= attempts[e]
    /\ status[e] = "failed" => attempts[e] >= MAX_DELIVERY_ATTEMPTS

\* A publisher that comes back after its lease ran out cannot move an event
\* that another publisher has settled in the meantime.
SettledIsFinal == [][\A e \in Events : status[e] \in Settled => status'[e] = status[e]]_outboxVars
============================================================================
