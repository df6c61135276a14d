------------------------------ MODULE Delivery ------------------------------
(***************************************************************************)
(* From a transition of a run to the client that hears of it: the          *)
(* transaction that changes the run and writes its evidence (Transitions), *)
(* the publishers of the outbox (Outbox) and the event stream              *)
(* (EventStream).  They meet only in rows that are committed, which each   *)
(* module has as its input, so a behaviour is one of the part that is      *)
(* looked at.                                                              *)
(***************************************************************************)
EXTENDS Transitions, Outbox, EventStream

VARIABLE part

deliveryVars == << part, transitionVars, outboxVars, streamVars >>

Only(p, A) ==
  /\ part = p /\ A /\ UNCHANGED part
  /\ p # "transitions" => UNCHANGED transitionVars
  /\ p # "outbox"      => UNCHANGED outboxVars
  /\ p # "stream"      => UNCHANGED streamVars

DeliveryInit ==
  /\ part \in {"transitions", "outbox", "stream"}
  /\ TransitionsInit /\ (part # "transitions" => settings.enabled)
  /\ OutboxInit /\ StreamInit

DeliveryNext ==
  \/ Only("transitions", TransitionsNext)
  \/ Only("outbox", OutboxNext)
  \/ Only("stream", StreamNext)

\* PostgreSQL serves every statement and, in turn, every waiting lock; the
\* timer of the stream ticks, the network delivers and the browser reconnects.
\* Nothing is assumed of callers, writers and faults, nor of the publishers,
\* which nothing calls yet.
DeliveryFairness ==
  /\ \A c \in Callers : WF_deliveryVars(Only("transitions", Statement(c)))
  /\ WF_deliveryVars(Only("stream", events))
  /\ WF_deliveryVars(Only("stream", Poll))
  /\ WF_deliveryVars(Only("stream", Receive))

DeliverySpec == DeliveryInit /\ [][DeliveryNext]_deliveryVars /\ DeliveryFairness

\* What the rows, publishers, transactions and streams may be.
DeliveryTypeOK == TransitionsTypeOK /\ OutboxTypeOK /\ StreamTypeOK

\* Rows, publishers, transactions and streams are well formed; every delivery
\* is a counted attempt; the client has a prefix of what was committed.
DeliveryInv == DeliveryTypeOK /\ Accounted /\ NothingMissed
=============================================================================
