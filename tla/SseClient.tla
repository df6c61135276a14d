----------------------------- MODULE SseClient ------------------------------
(***************************************************************************)
(* The browser's end of the event stream: SSEClient of frontend/lib/sse/   *)
(* sse-client.ts, driven by the effect of use-sse.ts, which connects when  *)
(* it runs and disconnects when it is cleaned up.                          *)
(*                                                                         *)
(* JavaScript runs a callback to its next await without interruption, so   *)
(* every action is such a stretch of code.  openConnection awaits a token: *)
(* several calls may be waiting at the same time.  An EventSource belongs  *)
(* to the browser: it stays open until it is closed, referenced or not.    *)
(***************************************************************************)
EXTENDS Naturals, Sequences, SequencesExt

CONSTANTS
  Sources,      \* EventSource objects that may be created
  Timers,       \* reconnect timers that may be armed
  Frames,       \* 1..Frames are the ids of the server's events
  Known,        \* ids of the events whose type isSSEEventType accepts
  MaxConnects,  \* bound on the calls of connect
  MaxFails,     \* bound on tokens refused and transport errors
  None

ASSUME SseClientAssumption ==
  /\ Frames \in Nat /\ MaxConnects \in Nat /\ MaxFails \in Nat
  /\ Known \subseteq 1 .. Frames
  /\ None \notin Sources \cup Timers

VARIABLES
  mounted,     \* the effect of use-sse.ts has run and was not cleaned up
  stopped, status, lastEventId,   \* fields of the client
  es,                             \* this.es: a source or None
  timer,                          \* this.timer: a timer or None
  waiting,     \* calls of openConnection that await the token
  armed,       \* timers that have been set and neither fired nor cleared
  open,        \* sources that are open in the browser
  unused,      \* sources not created yet
  next,        \* the id of the next event the server sends on a source
  emitted,     \* ids of the events passed to the bus
  connects, fails

client == << stopped, status, es, timer, lastEventId >>
stream == << next, emitted >>
effect == << mounted, connects >>
vars == << client, stream, effect, waiting, armed, open, unused, fails >>
----------------------------------------------------------------------------
(* Connecting                                                              *)

\* The effect runs, for the first time or again with the same client: after a
\* disconnect, so that connect never returns early.
connect ==
  /\ connects < MaxConnects /\ ~mounted /\ mounted' = TRUE
  /\ stopped /\ stopped' = FALSE /\ status' = "connecting"
  /\ waiting' = waiting + 1 /\ connects' = connects + 1
  /\ UNCHANGED << es, timer, lastEventId, stream, armed, open, unused, fails >>

\* The effect is cleaned up: clearTimeout of this.timer and close of this.es.
disconnect ==
  /\ mounted /\ mounted' = FALSE
  /\ stopped' = TRUE /\ status' = "disconnected"
  /\ timer' = None /\ armed' = armed \ {timer}
  /\ es' = None /\ open' = open \ {es}
  /\ UNCHANGED << lastEventId, stream, waiting, unused, connects, fails >>

\* A timer is armed; an earlier one that is still armed is forgotten.
scheduleReconnect ==
  /\ status' = "reconnecting"
  /\ \E t \in Timers \ armed : armed' = armed \cup {t} /\ timer' = t

\* setTimeout's callback: this.timer = null, and openConnection up to its await.
TimerFires(t) ==
  /\ t \in armed
  /\ armed' = armed \ {t} /\ timer' = None
  /\ waiting' = waiting + (IF stopped THEN 0 ELSE 1)
  /\ UNCHANGED << stopped, status, es, lastEventId, stream, open, unused, effect, fails >>

\* The token has come: the source replaces this.es.  The server may send
\* again what the client has seen, and never skips what it has not.
TokenArrives ==
  /\ waiting > 0 /\ waiting' = waiting - 1
  /\ IF stopped
     THEN UNCHANGED << es, open, unused, next >>
     ELSE /\ unused # {}
          /\ LET source == CHOOSE s \in unused : TRUE
             IN  /\ es' = source
                 /\ open' = open \cup {source} /\ unused' = unused \ {source}
                 /\ \E id \in 1 .. lastEventId + 1 : next' = [next EXCEPT ![source] = id]
  /\ UNCHANGED << stopped, status, timer, lastEventId, emitted, armed, effect, fails >>

\* The user is signed out: "go offline and stay stopped".
NoToken ==
  /\ waiting > 0 /\ waiting' = waiting - 1
  /\ fails < MaxFails /\ fails' = fails + 1
  /\ stopped' = TRUE
  /\ status' = IF stopped THEN status ELSE "disconnected"
  /\ UNCHANGED << es, timer, lastEventId, stream, armed, open, unused, effect >>

\* getToken or the constructor of the source throws: back off and retry.
TokenFails ==
  /\ waiting > 0 /\ waiting' = waiting - 1
  /\ fails < MaxFails /\ fails' = fails + 1
  /\ IF stopped THEN UNCHANGED << status, timer, armed >> ELSE scheduleReconnect
  /\ UNCHANGED << stopped, es, lastEventId, stream, open, unused, effect >>
----------------------------------------------------------------------------
(* Callbacks of an EventSource                                             *)

onopen(s) ==
  /\ s \in open /\ es = s /\ ~stopped /\ status # "connected"
  /\ status' = "connected"
  /\ UNCHANGED << stopped, es, timer, lastEventId, stream, waiting, armed, open,
                  unused, effect, fails >>

\* Mutant of onerror: the browser is trusted to reconnect.
onerrorPassive(s) ==
  /\ s \in open
  /\ fails < MaxFails /\ fails' = fails + 1
  /\ status' = IF es = s THEN "reconnecting" ELSE status
  /\ es' = (IF es = s THEN None ELSE es) /\ open' = open \ {s}
  /\ UNCHANGED << stopped, timer, lastEventId, stream, waiting, armed, unused, effect >>

\* handleError: the source is closed before the client is asked to reconnect.
onerror(s) ==
  /\ s \in open
  /\ fails < MaxFails /\ fails' = fails + 1
  /\ IF es = s
     THEN /\ es' = None /\ open' = open \ {s}
          /\ IF stopped THEN UNCHANGED << status, timer, armed >> ELSE scheduleReconnect
     ELSE UNCHANGED << es, open, status, timer, armed >>
  /\ UNCHANGED << stopped, lastEventId, stream, waiting, unused, effect >>

\* Mutant of isDuplicateOrOld: only a repetition of the last event is dropped.
isDuplicate(id) == id = lastEventId

\* Ids of the client's contract are sequence numbers: parseSequenceId.
isDuplicateOrOld(id) == id <= lastEventId

\* handleMessage: an event of an unknown type is ignored before its id is read.
onmessage(s) ==
  /\ s \in open /\ next[s] <= Frames
  /\ next' = [next EXCEPT ![s] = @ + 1]
  /\ LET id == next[s]
     IN  IF es # s \/ stopped \/ id \notin Known \/ isDuplicateOrOld(id)
         THEN UNCHANGED << lastEventId, emitted >>
         ELSE lastEventId' = id /\ emitted' = Append(emitted, id)
  /\ UNCHANGED << stopped, status, es, timer, waiting, armed, open, unused, effect, fails >>
----------------------------------------------------------------------------
Init ==
  /\ mounted = FALSE /\ stopped = TRUE /\ status = "disconnected" /\ lastEventId = 0
  /\ es = None /\ timer = None
  /\ waiting = 0 /\ armed = {} /\ open = {} /\ unused = Sources
  /\ next = [s \in Sources |-> 1] /\ emitted = <<>>
  /\ connects = 0 /\ fails = 0

Next ==
  \/ connect \/ disconnect
  \/ TokenArrives \/ NoToken \/ TokenFails
  \/ \E t \in Timers : TimerFires(t)
  \/ \E s \in Sources : onopen(s) \/ onerror(s) \/ onmessage(s)

\* The promise of a token settles, timers fire, and the network opens sources
\* and delivers what the server sends.
Fairness ==
  /\ WF_vars(TokenArrives \/ NoToken \/ TokenFails)
  /\ \A t \in Timers : WF_vars(TimerFires(t))
  /\ \A s \in Sources : WF_vars(onopen(s)) /\ WF_vars(onmessage(s))

Spec == Init /\ [][Next]_vars /\ Fairness
----------------------------------------------------------------------------
(* Properties                                                              *)

\* The fields, the browser's objects and the bounds; this.es is a source that
\* is open and this.timer a timer that is armed, whenever they are set, and
\* the client is stopped whenever the effect has been cleaned up.
TypeOK ==
  /\ stopped \in BOOLEAN /\ mounted \in BOOLEAN /\ (stopped \/ mounted)
  /\ status \in {"connecting", "connected", "reconnecting", "disconnected"}
  /\ lastEventId \in 0 .. Frames
  /\ es \in open \cup {None} /\ timer \in armed \cup {None}
  /\ open \subseteq Sources \ unused

\* A client that was asked to connect is never stuck: it waits for a token,
\* has a timer to try again, or holds a source that is open ("instead of
\* leaving the client stuck on connecting", openConnection).
NeverStuck == ~stopped => waiting > 0 \/ armed # {} \/ es \in open

\* The bus gets every event of a known type once, in the order of the ids,
\* over all the reconnections and replays: nothing is skipped or repeated.
EmittedInOrder ==
  /\ ToSet(emitted) = { id \in Known : id <= lastEventId }
  /\ \A i, j \in DOMAIN emitted : i < j => emitted[i] < emitted[j]

\* A client that is not stopped in the end is connected and has seen all.
CaughtUp ==
  <>[](~stopped) => <>(status = "connected" /\ \A id \in Known : lastEventId >= id)

\* "closes the connection on unmount" (use-sse.test.tsx): once the client is
\* stopped, no source is open.
ClosedOnUnmount == stopped => open = {}

\* The fields of the client agree with its sources and timers, it is never
\* stuck, and it passes events on once and in order.
SseClientInv == TypeOK /\ NeverStuck /\ EmittedInOrder
============================================================================
