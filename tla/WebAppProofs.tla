---------------------------- MODULE WebAppProofs -----------------------------
(***************************************************************************)
(* The pages of the web application hold what they show: one theorem for   *)
(* each of the seven components that WebApp opens, for every number of     *)
(* accounts, rules, policy packs, questions, sources and timers.           *)
(*                                                                         *)
(* Each proof takes the steps of its own page; to the others every step of *)
(* WebNext is a stutter.  Properties of results that are folds over a      *)
(* sequence (the order of the rows, the lines of a comparison, the slug)   *)
(* are not here: they need an induction over the data.                     *)
(***************************************************************************)
EXTENDS WebApp, SequenceTheorems, TLAPS

----------------------------------------------------------------------------
(* The event stream: SseClient                                             *)

\* The fields and the browser's objects.
StreamTypes ==
  /\ TypeOK /\ armed \subseteq Timers /\ unused \subseteq Sources /\ waiting \in Nat
  /\ next \in [Sources -> Nat] /\ emitted \in Seq(Known)

\* What comes next on the source of a client that is not stopped leaves out no
\* event that the client has not seen; without the effect there is no source.
Unskipped ==
  /\ ~mounted => es = None
  /\ ~stopped /\ es # None => \A id \in Known : id < next[es] => id <= lastEventId

StreamInv == StreamTypes /\ NeverStuck /\ EmittedInOrder /\ Unskipped

LEMMA KnownNat == Known \subseteq Nat /\ \A id \in Known : id > 0
  BY SseClientAssumption

LEMMA StreamInit == Init => StreamInv
<1> SUFFICES ASSUME Init PROVE StreamInv
  OBVIOUS
<1> USE SseClientAssumption
<1>2. TypeOK /\ NeverStuck
  <2>1. stopped \in BOOLEAN /\ mounted \in BOOLEAN /\ (stopped \/ mounted) /\ NeverStuck
    BY Zenon DEF Init, NeverStuck
  <2> QED
    BY <2>1 DEF Init, TypeOK
<1>5. StreamTypes
  <2>1. next \in [Sources -> Nat] /\ waiting \in Nat
    BY DEF Init
  <2>2. emitted \in Seq(Known)
    BY DEF Init
  <2>3. armed \subseteq Timers /\ unused \subseteq Sources
    BY DEF Init
  <2> QED
    BY <1>2, <2>1, <2>2, <2>3 DEF StreamTypes
<1>3. EmittedInOrder
  <2>1. ToSet(emitted) = {} /\ DOMAIN emitted = {}
    BY DEF Init, ToSet
  <2>2. { id \in Known : id <= lastEventId } = {}
    <3>1. lastEventId = 0
      BY DEF Init
    <3>2. ASSUME NEW id \in Known PROVE ~(id <= lastEventId)
      BY KnownNat, <3>1
    <3> QED
      BY <3>2
  <2> QED
    BY <2>1, <2>2 DEF EmittedInOrder
<1>4. Unskipped
  BY DEF Init, Unskipped
<1> QED
  BY <1>2, <1>3, <1>4, <1>5 DEF StreamInv

\* A step that passes no event on keeps the order.
LEMMA SameEmitted ==
  ASSUME EmittedInOrder, emitted' = emitted, lastEventId' = lastEventId
  PROVE  EmittedInOrder'
  BY DEF EmittedInOrder, ToSet

LEMMA ConnectStreams == StreamInv /\ connect => StreamInv'
<1> SUFFICES ASSUME StreamInv, connect PROVE StreamInv'
  OBVIOUS
<1> USE SseClientAssumption DEF StreamInv
<1>1. StreamTypes' /\ NeverStuck'
  <2>1. stopped' \in BOOLEAN /\ mounted' \in BOOLEAN /\ (stopped \/ mounted)'
    BY Zenon DEF connect
  <2>2. waiting \in Nat /\ waiting' = waiting + 1
    BY DEF connect, StreamTypes
  <2>3. StreamTypes'
    BY <2>1, <2>2 DEF connect, StreamTypes, TypeOK, stream
  <2> QED
    BY <2>2, <2>3 DEF NeverStuck
<1>2. EmittedInOrder'
  BY SameEmitted DEF connect, stream
<1>3. Unskipped'
  BY DEF connect, stream, Unskipped
<1> QED
  BY <1>1, <1>2, <1>3

LEMMA DisconnectStreams == StreamInv /\ disconnect => StreamInv'
<1> SUFFICES ASSUME StreamInv, disconnect PROVE StreamInv'
  OBVIOUS
<1> USE SseClientAssumption DEF StreamInv
<1>1. StreamTypes' /\ NeverStuck'
  BY DEF disconnect, StreamTypes, TypeOK, NeverStuck, stream
<1>2. EmittedInOrder'
  BY SameEmitted DEF disconnect, stream
<1>3. Unskipped'
  BY DEF disconnect, stream, Unskipped
<1> QED
  BY <1>1, <1>2, <1>3

LEMMA TokenStreams ==
  StreamInv /\ (TokenArrives \/ NoToken \/ TokenFails) => StreamInv'
<1> USE SseClientAssumption DEF StreamInv
<1>1. ASSUME StreamInv, TokenArrives PROVE StreamInv'
  <2>1. CASE stopped
    <3>1. StreamTypes' /\ NeverStuck'
      BY <1>1, <2>1 DEF TokenArrives, StreamTypes, TypeOK, NeverStuck, effect
    <3>2. EmittedInOrder' /\ Unskipped'
      BY <1>1, <2>1, SameEmitted DEF TokenArrives, Unskipped, effect
    <3> QED
      BY <3>1, <3>2
  <2>2. CASE ~stopped
    <3> DEFINE source == CHOOSE s \in unused : TRUE
    <3>1. source \in unused
      BY <1>1, <2>2 DEF TokenArrives
    <3>2. PICK id \in 1 .. lastEventId + 1 : next' = [next EXCEPT ![source] = id]
      BY <1>1, <2>2 DEF TokenArrives
    <3>3. es' = source /\ open' = open \cup {source} /\ unused' = unused \ {source}
      BY <1>1, <2>2 DEF TokenArrives
    <3> HIDE DEF source
    <3>4. StreamTypes'
      BY <1>1, <3>1, <3>2, <3>3 DEF TokenArrives, StreamTypes, TypeOK, effect
    <3>5. NeverStuck'
      BY <3>3 DEF NeverStuck
    <3>6. EmittedInOrder'
      BY <1>1, SameEmitted DEF TokenArrives
    <3>7. Unskipped'
      <4>1. next'[source] = id /\ lastEventId' = lastEventId /\ mounted' = mounted
        BY <1>1, <3>1, <3>2 DEF TokenArrives, StreamTypes, effect
      <4>2. \A k \in Known : k < id => k <= lastEventId
        BY <1>1 DEF StreamTypes, TypeOK
      <4>3. mounted
        BY <1>1, <2>2 DEF StreamTypes, TypeOK
      <4> QED
        BY <3>3, <4>1, <4>2, <4>3 DEF Unskipped
    <3> QED
      BY <3>4, <3>5, <3>6, <3>7
  <2> QED
    BY <2>1, <2>2
<1>2. ASSUME StreamInv, NoToken PROVE StreamInv'
  <2>1. StreamTypes' /\ NeverStuck'
    BY <1>2 DEF NoToken, StreamTypes, TypeOK, NeverStuck, effect, stream
  <2>2. EmittedInOrder' /\ Unskipped'
    BY <1>2, SameEmitted DEF NoToken, Unskipped, effect, stream
  <2> QED
    BY <2>1, <2>2
<1>3. ASSUME StreamInv, TokenFails PROVE StreamInv'
  <2>1. StreamTypes' /\ NeverStuck'
    BY <1>3 DEF TokenFails, scheduleReconnect, StreamTypes, TypeOK, NeverStuck, effect, stream
  <2>2. EmittedInOrder' /\ Unskipped'
    BY <1>3, SameEmitted DEF TokenFails, Unskipped, effect, stream
  <2> QED
    BY <2>1, <2>2
<1> QED
  BY <1>1, <1>2, <1>3

LEMMA TimerStreams == ASSUME StreamInv, NEW t \in Timers, TimerFires(t) PROVE StreamInv'
<1> USE SseClientAssumption DEF StreamInv
<1>1. StreamTypes' /\ NeverStuck'
  BY DEF TimerFires, StreamTypes, TypeOK, NeverStuck, effect, stream
<1>2. EmittedInOrder' /\ Unskipped'
  BY SameEmitted DEF TimerFires, Unskipped, effect, stream
<1> QED
  BY <1>1, <1>2

LEMMA SourceStreams ==
  ASSUME StreamInv, NEW s \in Sources, onopen(s) \/ onerror(s) \/ onmessage(s)
  PROVE  StreamInv'
<1> USE SseClientAssumption DEF StreamInv
<1>1. CASE onopen(s)
  <2>1. StreamTypes' /\ NeverStuck'
    BY <1>1 DEF onopen, StreamTypes, TypeOK, NeverStuck, effect, stream
  <2>2. EmittedInOrder' /\ Unskipped'
    BY <1>1, SameEmitted DEF onopen, Unskipped, effect, stream
  <2> QED
    BY <2>1, <2>2
<1>2. CASE onerror(s)
  <2>1. StreamTypes' /\ NeverStuck'
    BY <1>2 DEF onerror, scheduleReconnect, StreamTypes, TypeOK, NeverStuck, effect, stream
  <2>2. EmittedInOrder' /\ Unskipped'
    BY <1>2, SameEmitted DEF onerror, Unskipped, effect, stream
  <2> QED
    BY <2>1, <2>2
<1>3. CASE onmessage(s)
  <2> DEFINE id == next[s]
  <2>1. /\ id \in Nat /\ lastEventId \in 0 .. Frames /\ Known \subseteq 1 .. Frames
        /\ next' = [next EXCEPT ![s] = id + 1] /\ es \in Sources \cup {None}
    BY <1>3 DEF onmessage, StreamTypes, TypeOK
  <2>2. UNCHANGED << stopped, status, es, timer, waiting, armed, open, unused, mounted >>
    BY <1>3 DEF onmessage, effect
  <2>3. CASE es # s \/ stopped \/ id \notin Known \/ isDuplicateOrOld(id)
    <3>1. lastEventId' = lastEventId /\ emitted' = emitted
      BY <1>3, <2>3 DEF onmessage
    <3>2. StreamTypes' /\ NeverStuck' /\ EmittedInOrder'
      BY <2>1, <2>2, <3>1, SameEmitted DEF StreamTypes, TypeOK, NeverStuck
    <3>3. ASSUME ~stopped, es # None, NEW k \in Known, k < next'[es] PROVE k <= lastEventId
      <4>1. CASE es # s
        BY <2>1, <3>3, <4>1 DEF StreamTypes, Unskipped
      <4>2. CASE es = s
        <5>1. next'[es] = id + 1 /\ k \in Nat
          BY <2>1, <4>2 DEF StreamTypes
        <5>2. k < id \/ k = id
          BY <2>1, <3>3, <5>1
        <5> QED
          BY <2>3, <3>3, <4>2, <5>2 DEF Unskipped, isDuplicateOrOld
      <4> QED
        BY <4>1, <4>2
    <3>4. Unskipped'
      BY <2>2, <3>1, <3>3 DEF Unskipped
    <3> QED
      BY <3>2, <3>4
  <2>4. CASE ~(es # s \/ stopped \/ id \notin Known \/ isDuplicateOrOld(id))
    <3>1. /\ lastEventId' = id /\ emitted' = Append(emitted, id) /\ es = s /\ ~stopped
          /\ id \in Known /\ lastEventId < id
      BY <1>3, <2>1, <2>4 DEF onmessage, isDuplicateOrOld
    <3>2. StreamTypes' /\ NeverStuck'
      BY <2>1, <2>2, <3>1 DEF StreamTypes, TypeOK, NeverStuck
    <3>3. \A k \in Known : k <= id <=> k <= lastEventId \/ k = id
      BY <2>1, <3>1 DEF Unskipped, StreamTypes
    <3>4. /\ Len(emitted') = Len(emitted) + 1 /\ emitted'[Len(emitted) + 1] = id
          /\ \A i \in 1 .. Len(emitted) : emitted'[i] = emitted[i]
          /\ DOMAIN emitted = 1 .. Len(emitted) /\ DOMAIN emitted' = 1 .. Len(emitted) + 1
          /\ Len(emitted) \in Nat
      BY <3>1 DEF StreamTypes
    <3>5. ToSet(emitted') = ToSet(emitted) \cup {id}
      BY <3>4 DEF ToSet
    <3>6. \A i \in DOMAIN emitted : emitted[i] \in Known /\ emitted[i] <= lastEventId
      BY DEF EmittedInOrder, ToSet
    <3>7. ASSUME NEW i \in DOMAIN emitted', NEW j \in DOMAIN emitted', i < j
          PROVE  emitted'[i] < emitted'[j]
      <4>1. i \in 1 .. Len(emitted) /\ emitted'[i] = emitted[i]
        BY <3>4, <3>7
      <4>2. CASE j \in 1 .. Len(emitted)
        BY <3>4, <3>7, <4>1, <4>2 DEF EmittedInOrder
      <4>3. CASE j = Len(emitted) + 1
        <5>1. i \in DOMAIN emitted /\ emitted'[j] = id
          BY <3>4, <4>1, <4>3
        <5>2. emitted[i] \in Known /\ emitted[i] <= lastEventId
          BY <3>6, <5>1
        <5>4. emitted[i] \in Nat
          BY <5>2, KnownNat
        <5>3. lastEventId \in Nat /\ id \in Nat /\ lastEventId < id
          BY <2>1, <3>1
        <5> HIDE DEF id
        <5> QED
          BY <4>1, <5>1, <5>2, <5>3, <5>4
      <4> QED
        BY <3>4, <3>7, <4>2, <4>3
    <3>8. EmittedInOrder'
      BY <3>1, <3>3, <3>5, <3>7 DEF EmittedInOrder
    <3>9. Unskipped'
      <4>1. next'[s] = id + 1
        BY <2>1 DEF StreamTypes
      <4>2. \A k \in Known : k < id + 1 => k <= id
        BY <2>1
      <4>3. mounted
        BY <3>1 DEF StreamTypes, TypeOK
      <4> QED
        BY <2>2, <3>1, <4>1, <4>2, <4>3 DEF Unskipped
    <3> QED
      BY <3>2, <3>8, <3>9
  <2> QED
    BY <2>3, <2>4
<1> QED
  BY <1>1, <1>2, <1>3

LEMMA StreamNext == StreamInv /\ [Next]_vars => StreamInv'
<1> SUFFICES ASSUME StreamInv, [Next]_vars PROVE StreamInv'
  OBVIOUS
<1>1. CASE UNCHANGED vars
  <2>1. StreamTypes' /\ NeverStuck'
    BY <1>1 DEF StreamInv, StreamTypes, TypeOK, NeverStuck, vars, client, stream, effect
  <2>2. EmittedInOrder' /\ Unskipped'
    BY <1>1, SameEmitted DEF StreamInv, Unskipped, vars, client, stream, effect
  <2> QED
    BY <2>1, <2>2 DEF StreamInv
<1>2. CASE Next
  BY <1>2, ConnectStreams, DisconnectStreams, TokenStreams, TimerStreams, SourceStreams DEF Next
<1> QED
  BY <1>1, <1>2

\* What the run page shows of the stream: the fields of the client agree with
\* its sources and timers, it is never stuck, and every known event is passed on
\* once and in order (openConnection, handleError, handleMessage).
THEOREM StreamKept == WebSpec => []SseClientInv
<1>1. WebInit => StreamInv
  BY StreamInit DEF WebInit
<1>2. [WebNext]_webVars => [Next]_vars
  BY DEF WebNext, On, webVars
<1>3. StreamInv /\ [WebNext]_webVars => StreamInv'
  BY <1>2, StreamNext
<1>4. StreamInv => SseClientInv
  BY DEF StreamInv, StreamTypes, SseClientInv
<1> QED
  BY <1>1, <1>3, <1>4, PTL DEF WebSpec

----------------------------------------------------------------------------
(* The policy page                                                         *)

Edits == Values \cup {NoEdit}
Settings1 == [Parameters -> Values]
RuleState == [enabled : BOOLEAN, rego : Values, parameters : Settings1]
RulesState == [1..Rules -> RuleState]
PackState == [enabled : BOOLEAN, rules : RulesState]
RowState == [open : BOOLEAN, edit : Edits, parameters : Settings1]
Modes == {"visual", "rego"}
Clicks == 0..1
MaybeRule == 0..Rules
Savings == {"no", "save", "reset"}
MaybePack == Packs \cup {"none"}
PolicyState ==
  [loaded : BOOLEAN, admin : BOOLEAN, pack : MaybePack, mode : Modes, expanded : MaybeRule,
   confirm : BOOLEAN, asked : Clicks, confirmed : BOOLEAN, saving : Savings,
   resetting : MaybePack, edit : Edits, edits : Nat, draft : [Packs -> PackState],
   rows : [1..Rules -> RowState]]

PolicyTypes ==
  policy \in PolicyState /\ intent \in [Packs -> RulesState] /\ stale \subseteq Packs

\* A confirmation is asked for the pack that is selected; a reset has a pack.
Asked ==
  /\ policy.confirm => policy.asked = 1
  /\ policy.saving = "reset" => policy.confirmed /\ policy.resetting \in Packs
  /\ policy.loaded \/ policy.pack = "none"

\* The copies of rows that are mounted are those of the draft.
Copied ==
  Visual /\ policy.pack \notin stale =>
    \A i \in 1..Rules : policy.rows[i].parameters = Draft(policy.pack).rules[i].parameters

PolicyInv == PolicyTypes /\ Asked /\ DraftIsIntent /\ Copied

\* A step that leaves the settings of the packs, their copies and the selection.
Looks ==
  /\ UNCHANGED <<intent, stale>>
  /\ policy'.pack = policy.pack /\ policy'.mode = policy.mode
  /\ policy.loaded \/ policy.pack = "none"
  /\ \A p \in Packs : policy'.draft[p].rules = policy.draft[p].rules
  /\ \A i \in 1..Rules : policy'.rows[i].parameters = policy.rows[i].parameters

LEMMA LooksKeeps ==
  ASSUME PolicyInv, Looks
  PROVE  DraftIsIntent' /\ Copied'
<1> USE PolicyPageAssumption
<1>1. DraftIsIntent'
  BY DEF PolicyInv, DraftIsIntent, Looks, Draft
<1>2. Copied'
  BY DEF PolicyInv, Copied, Looks, Visual, Selected, Draft
<1> QED
  BY <1>1, <1>2

LEMMA MountedRows ==
  ASSUME NEW pack, pack.rules \in RulesState
  PROVE  /\ Mounted(pack) \in [1..Rules -> RowState]
         /\ \A i \in 1..Rules : Mounted(pack)[i].parameters = pack.rules[i].parameters
<1>1. \A i \in 1..Rules : pack.rules[i].parameters \in Settings1
  BY DEF RulesState, RuleState
<1>2. NoEdit \in Edits /\ \A i \in 1..Rules : (i = 1) \in BOOLEAN
  BY DEF Edits
<1> QED
  BY <1>1, <1>2 DEF Mounted, RowState

LEMMA DefaultRules == Defaults \in RulesState
  BY DEF Defaults, RulesState, RuleState, Settings1, Values

LEMMA PolicyStart == PolicyInit => PolicyInv
<1> SUFFICES ASSUME PolicyInit PROVE PolicyInv
  OBVIOUS
<1> USE PolicyPageAssumption
<1>1. PICK admin \in BOOLEAN :
       policy = [loaded |-> FALSE, admin |-> admin, pack |-> "none", mode |-> "visual",
                 expanded |-> 0, confirm |-> FALSE, asked |-> 0, confirmed |-> FALSE,
                 saving |-> "no", resetting |-> "none", edit |-> NoEdit, edits |-> 0,
                 draft |-> [p \in Packs |-> [enabled |-> TRUE, rules |-> Defaults]],
                 rows |-> Mounted([rules |-> Defaults])]
  BY DEF PolicyInit
<1>2. intent = [p \in Packs |-> Defaults] /\ stale = {}
  BY DEF PolicyInit
<1>3. PolicyTypes
  <2> DEFINE d == [p \in Packs |-> [enabled |-> TRUE, rules |-> Defaults]]
             r == Mounted([rules |-> Defaults])
  <2>1. d \in [Packs -> PackState] /\ r \in [1..Rules -> RowState]
    BY DefaultRules, MountedRows DEF PackState
  <2>2. /\ "none" \in MaybePack /\ "visual" \in Modes /\ "no" \in Savings /\ NoEdit \in Edits
        /\ 0 \in MaybeRule /\ 0 \in Clicks /\ 0 \in Nat
    BY DEF MaybePack, Modes, Savings, Edits, MaybeRule, Clicks
  <2> HIDE DEF d, r
  <2>3. policy \in PolicyState
    BY <1>1, <2>1, <2>2 DEF PolicyState, d, r
  <2> QED
    BY <1>2, <2>3, DefaultRules DEF PolicyTypes
<1>4. Asked /\ Copied
  BY <1>1 DEF Asked, Copied, Visual
<1>5. DraftIsIntent
  BY <1>1, <1>2 DEF DraftIsIntent, Draft
<1> QED
  BY <1>3, <1>4, <1>5 DEF PolicyInv

\* Edits of the page's own fields are well typed.
LEMMA PolicyFields ==
  ASSUME policy \in PolicyState
  PROVE  /\ policy.loaded \in BOOLEAN /\ policy.admin \in BOOLEAN /\ policy.pack \in MaybePack
         /\ policy.mode \in Modes /\ policy.expanded \in MaybeRule /\ policy.confirm \in BOOLEAN
         /\ policy.asked \in Clicks /\ policy.confirmed \in BOOLEAN /\ policy.saving \in Savings
         /\ policy.resetting \in MaybePack /\ policy.edit \in Edits /\ policy.edits \in Nat
         /\ policy.draft \in [Packs -> PackState] /\ policy.rows \in [1..Rules -> RowState]
  BY DEF PolicyState

LEMMA LooksSteps ==
  ASSUME PolicyInv,
         PolicyLoaded \/ handleSave \/ SaveReturns \/ handleReset
           \/ \E p \in Packs : TogglePack(p)
  PROVE  PolicyInv'
<1> USE PolicyPageAssumption
<1>1. PolicyTypes /\ policy \in PolicyState
  BY DEF PolicyInv, PolicyTypes
<1>2. CASE PolicyLoaded
  <2>1. policy' = [policy EXCEPT !.loaded = TRUE] /\ UNCHANGED <<intent, stale>> /\ ~policy.loaded
    BY <1>2 DEF PolicyLoaded
  <2>2. policy' \in PolicyState
    BY <1>1, <2>1 DEF PolicyState
  <2>3. Looks /\ Asked'
    BY <1>1, <2>1 DEF PolicyInv, Looks, Asked, PolicyState
  <2> QED
    BY <1>1, <2>1, <2>2, <2>3, LooksKeeps DEF PolicyInv, PolicyTypes
<1>3. CASE handleSave
  <2>1. policy' = [policy EXCEPT !.saving = "save"] /\ UNCHANGED <<intent, stale>> /\ Selected
    BY <1>3 DEF handleSave
  <2>2. policy' \in PolicyState
    BY <1>1, <2>1 DEF PolicyState, Savings
  <2>3. Looks /\ Asked'
    BY <1>1, <2>1 DEF PolicyInv, Looks, Asked, PolicyState, Selected
  <2> QED
    BY <1>1, <2>1, <2>2, <2>3, LooksKeeps DEF PolicyInv, PolicyTypes
<1>4. CASE SaveReturns
  <2>1. policy' = [policy EXCEPT !.saving = "no"] /\ UNCHANGED <<intent, stale>>
    BY <1>4 DEF SaveReturns
  <2>2. policy' \in PolicyState
    BY <1>1, <2>1 DEF PolicyState, Savings
  <2>3. Looks /\ Asked'
    BY <1>1, <2>1 DEF PolicyInv, Looks, Asked, PolicyState
  <2> QED
    BY <1>1, <2>1, <2>2, <2>3, LooksKeeps DEF PolicyInv, PolicyTypes
<1>5. CASE handleReset
  <2>1. Selected /\ UNCHANGED <<intent, stale>> /\ policy.saving = "no" /\ policy.pack \in Packs
    BY <1>5 DEF handleReset, Selected
  <2>2. CASE ~policy.confirm
    <3>1. policy' = [policy EXCEPT !.confirm = TRUE, !.asked = 1]
      BY <1>5, <2>2 DEF handleReset
    <3>2. policy' \in PolicyState
      <4>1. 1 \in Clicks
        BY DEF Clicks
      <4> QED
        BY <1>1, <3>1, <4>1 DEF PolicyState
    <3>3. Looks /\ Asked'
      BY <1>1, <2>1, <3>1 DEF PolicyInv, Looks, Asked, PolicyState
    <3> QED
      BY <1>1, <2>1, <3>2, <3>3, LooksKeeps DEF PolicyInv, PolicyTypes
  <2>3. CASE policy.confirm
    <3>1. policy' = [policy EXCEPT !.saving = "reset", !.resetting = policy.pack,
                                   !.confirmed = TRUE]
      <4>1. policy.asked = 1
        BY <2>3 DEF PolicyInv, Asked
      <4> DEFINE b == policy.asked = 1
      <4>2. b = TRUE
        BY <4>1
      <4>3. policy' = [policy EXCEPT !.saving = "reset", !.resetting = policy.pack,
                                     !.confirmed = b]
        BY <1>5, <2>3, Zenon DEF handleReset
      <4> HIDE DEF b
      <4> QED
        BY <4>2, <4>3, Zenon
    <3>2. policy' \in PolicyState
      BY <1>1, <3>1 DEF PolicyState, Savings
    <3>3. Looks
      BY <1>1, <2>1, <3>1 DEF PolicyInv, Looks, Asked, PolicyState
    <3>4. Asked'
      BY <1>1, <2>1, <3>1 DEF PolicyInv, Asked, PolicyState
    <3> QED
      BY <1>1, <2>1, <3>2, <3>3, <3>4, LooksKeeps DEF PolicyInv, PolicyTypes
  <2> QED
    BY <2>2, <2>3
<1>6. ASSUME NEW p \in Packs, TogglePack(p) PROVE PolicyInv'
  <2> DEFINE k == [policy.draft[p] EXCEPT !.enabled = ~@]
             d == [policy.draft EXCEPT ![p] = k]
  <2>1. policy' = [policy EXCEPT !.draft = d, !.edits = @ + 1] /\ UNCHANGED <<intent, stale>>
        /\ policy.loaded
    BY <1>6 DEF TogglePack
  <2>2. k \in PackState /\ k.rules = policy.draft[p].rules
    <3>1. policy.draft[p] \in PackState
      BY <1>1, PolicyFields
    <3> QED
      BY <3>1 DEF PackState
  <2> HIDE DEF k
  <2>3. d \in [Packs -> PackState] /\ \A x \in Packs : d[x].rules = policy.draft[x].rules
    BY <1>1, <2>2, PolicyFields
  <2> HIDE DEF d
  <2>4. policy' \in PolicyState
    <3>1. policy.edits + 1 \in Nat
      BY <1>1, PolicyFields
    <3> QED
      BY <1>1, <2>1, <2>3, <3>1 DEF PolicyState
  <2>5. Looks /\ Asked'
    BY <1>1, <2>1, <2>3 DEF PolicyInv, Looks, Asked, PolicyState
  <2> QED
    BY <1>1, <2>1, <2>4, <2>5, LooksKeeps DEF PolicyInv, PolicyTypes
<1> QED
  BY <1>2, <1>3, <1>4, <1>5, <1>6

\* What depends on the draft, the copies, the selection and the confirmation.
SameControl(x, y) ==
  /\ x.loaded = y.loaded /\ x.pack = y.pack /\ x.mode = y.mode /\ x.confirm = y.confirm
  /\ x.asked = y.asked /\ x.confirmed = y.confirmed /\ x.saving = y.saving
  /\ x.resetting = y.resetting

LEMMA SameAsked ==
  ASSUME Asked, SameControl(policy', policy)
  PROVE  Asked'
  BY DEF Asked, SameControl

\* An editor that opens, changes or closes changes itself only.
LEMMA EditorOnly ==
  ASSUME NEW x \in PolicyState, NEW i \in 1..Rules, NEW v \in Edits
  PROVE  /\ WithEdit(x, i, v) \in PolicyState /\ SameControl(WithEdit(x, i, v), x)
         /\ WithEdit(x, i, v).draft = x.draft
         /\ \A j \in 1..Rules : WithEdit(x, i, v).rows[j].parameters = x.rows[j].parameters
<1>1. CASE x.mode = "rego"
  <2>1. WithEdit(x, i, v) = [x EXCEPT !.edit = v]
    BY <1>1 DEF WithEdit
  <2> QED
    BY <2>1 DEF PolicyState, SameControl
<1>2. CASE x.mode # "rego"
  <2> DEFINE q == [x.rows[i] EXCEPT !.edit = v]
             r == [x.rows EXCEPT ![i] = q]
  <2>1. WithEdit(x, i, v) = [x EXCEPT !.rows = r]
    BY <1>2 DEF WithEdit, PolicyState
  <2>2. x.rows \in [1..Rules -> RowState]
    BY DEF PolicyState
  <2>3. q \in RowState /\ q.parameters = x.rows[i].parameters
    BY <2>2 DEF RowState
  <2> HIDE DEF q
  <2>4. r \in [1..Rules -> RowState] /\ \A j \in 1..Rules : r[j].parameters = x.rows[j].parameters
    BY <2>2, <2>3
  <2> HIDE DEF r
  <2> QED
    BY <2>1, <2>4 DEF PolicyState, SameControl
<1> QED
  BY <1>1, <1>2

LEMMA EditorSteps ==
  ASSUME PolicyInv, NEW i \in 1..Rules,
         OpenEditor(i) \/ CancelEditor(i) \/ \E v \in Values : TypeRego(i, v)
  PROVE  PolicyInv'
<1> USE PolicyPageAssumption
<1> DEFINE more == [policy EXCEPT !.edits = @ + 1]
<1>1. policy \in PolicyState /\ PolicyTypes
  BY DEF PolicyInv, PolicyTypes
<1>2. more \in PolicyState /\ SameControl(more, policy) /\ more.draft = policy.draft
      /\ more.rows = policy.rows
  <2>1. policy.edits + 1 \in Nat
    BY <1>1, PolicyFields
  <2> QED
    BY <1>1, <2>1 DEF PolicyState, SameControl
<1> HIDE DEF more
<1>3. PICK x \in {policy, more}, v \in Edits :
         policy' = WithEdit(x, i, v) /\ UNCHANGED <<intent, stale>> /\ policy.loaded
  <2>1. CASE OpenEditor(i)
    <3> DEFINE v == Draft(policy.pack).rules[i].rego
    <3>1. policy' = WithEdit(more, i, v) /\ UNCHANGED <<intent, stale>>
      BY <2>1 DEF OpenEditor, more
    <3>2. policy.loaded /\ policy.pack \in Packs
      BY <2>1 DEF OpenEditor, Editor, RegoView, Visual, Selected
    <3>3. v \in Edits
      BY <1>1, <3>2, PolicyFields DEF Draft, PackState, RulesState, RuleState, Edits
    <3> QED
      BY <3>1, <3>2, <3>3
  <2>2. CASE CancelEditor(i)
    <3>1. policy' = WithEdit(policy, i, NoEdit) /\ UNCHANGED <<intent, stale>> /\ policy.loaded
      BY <2>2 DEF CancelEditor, Editor, RegoView, Visual
    <3> QED
      BY <3>1 DEF Edits
  <2>3. ASSUME NEW v \in Values, TypeRego(i, v)
        PROVE  policy' = WithEdit(more, i, v) /\ UNCHANGED <<intent, stale>> /\ policy.loaded
    BY <2>3 DEF TypeRego, more, Editor, RegoView, Visual
  <2> QED
    BY <2>1, <2>2, <2>3 DEF Edits
<1>4. x \in PolicyState /\ SameControl(x, policy) /\ x.draft = policy.draft /\ x.rows = policy.rows
  BY <1>1, <1>2 DEF SameControl
<1>5. /\ policy' \in PolicyState /\ SameControl(policy', x) /\ policy'.draft = x.draft
      /\ \A j \in 1..Rules : policy'.rows[j].parameters = x.rows[j].parameters
  BY <1>3, <1>4, EditorOnly
<1>6. SameControl(policy', policy)
  BY <1>4, <1>5 DEF SameControl
<1>7. Looks /\ Asked'
  BY <1>3, <1>4, <1>5, <1>6, SameAsked DEF PolicyInv, Looks, SameControl
<1> QED
  BY <1>1, <1>3, <1>5, <1>7, LooksKeeps DEF PolicyInv, PolicyTypes

LEMMA ToggleExpandedSteps ==
  ASSUME PolicyInv, NEW i \in 1..Rules, toggleExpanded(i)
  PROVE  PolicyInv'
<1> USE PolicyPageAssumption
<1>1. policy \in PolicyState /\ PolicyTypes /\ policy.rows \in [1..Rules -> RowState]
  BY PolicyFields DEF PolicyInv, PolicyTypes
<1> DEFINE q == [policy.rows[i] EXCEPT !.open = ~@, !.edit = NoEdit]
           r == [policy.rows EXCEPT ![i] = q]
           e == IF policy.rows[i].open THEN 0 ELSE i
<1>2. policy' = [policy EXCEPT !.rows = r, !.expanded = e]
      /\ UNCHANGED <<intent, stale>> /\ policy.loaded
  BY <1>1 DEF toggleExpanded, PolicyState, Visual
<1>3. q \in RowState /\ q.parameters = policy.rows[i].parameters
  <2>1. policy.rows[i] \in RowState /\ NoEdit \in Edits
    BY <1>1 DEF Edits
  <2> QED
    BY <2>1 DEF RowState
<1>4. e \in MaybeRule
  BY DEF MaybeRule
<1> HIDE DEF q, e
<1>5. r \in [1..Rules -> RowState] /\ \A j \in 1..Rules : r[j].parameters = policy.rows[j].parameters
  BY <1>1, <1>3
<1> HIDE DEF r
<1>6. policy' \in PolicyState /\ SameControl(policy', policy) /\ policy'.draft = policy.draft
      /\ policy'.rows = r
  BY <1>1, <1>2, <1>4, <1>5 DEF PolicyState, SameControl
<1>7. Looks /\ Asked'
  BY <1>2, <1>5, <1>6, SameAsked DEF PolicyInv, Looks, SameControl
<1> QED
  BY <1>1, <1>2, <1>6, <1>7, LooksKeeps DEF PolicyInv, PolicyTypes

\* Rows that are mounted anew copy the draft of the pack that is selected.
LEMMA MountSteps ==
  ASSUME PolicyInv, ShowVisual \/ ShowRego \/ \E p \in Packs : selectPack(p)
  PROVE  PolicyInv'
<1> USE PolicyPageAssumption
<1>1. policy \in PolicyState /\ PolicyTypes /\ DraftIsIntent
  BY DEF PolicyInv, PolicyTypes
<1>2. \A p \in Packs : Draft(p).rules \in RulesState
  BY <1>1, PolicyFields DEF Draft, PackState
<1>3. StillWrong \subseteq stale /\ \A p \in stale \ StillWrong : Draft(p).rules = intent[p]
  BY DEF StillWrong
<1>4. ASSUME NEW p \in Packs, NEW r, r = Mounted(Draft(p)),
             policy'.draft = policy.draft, policy'.rows = r, policy'.pack = p,
             intent' = intent, stale' \in {stale, StillWrong}
      PROVE  DraftIsIntent' /\ Copied'
  <2>1. DraftIsIntent'
    BY <1>1, <1>3, <1>4 DEF DraftIsIntent, Draft
  <2>2. \A i \in 1..Rules : r[i].parameters = Draft(p).rules[i].parameters
    BY <1>2, <1>4, MountedRows
  <2>3. Copied'
    BY <1>4, <2>2 DEF Copied, Draft
  <2> QED
    BY <2>1, <2>3
<1>5. \A p \in Packs : Mounted(Draft(p)) \in [1..Rules -> RowState]
  BY <1>2, MountedRows
<1>6. CASE ShowVisual \/ ShowRego
  <2> DEFINE p == policy.pack
             r == Mounted(Draft(p))
  <2>1. /\ \/ policy' = [policy EXCEPT !.mode = "visual", !.edit = NoEdit, !.rows = r]
           \/ policy' = [policy EXCEPT !.mode = "rego", !.rows = r]
        /\ p \in Packs /\ policy.loaded /\ intent' = intent /\ stale' \in {stale, StillWrong}
    BY <1>6 DEF ShowVisual, ShowRego, Visual, Selected
  <2>2. r \in [1..Rules -> RowState] /\ NoEdit \in Edits /\ "visual" \in Modes /\ "rego" \in Modes
    BY <1>5, <2>1 DEF Edits, Modes
  <2> HIDE DEF r
  <2>3. /\ policy' \in PolicyState /\ policy'.draft = policy.draft /\ policy'.rows = r
        /\ policy'.pack = p
    <3>1. CASE policy' = [policy EXCEPT !.mode = "visual", !.edit = NoEdit, !.rows = r]
      BY <1>1, <2>1, <2>2, <3>1 DEF PolicyState
    <3>2. CASE policy' = [policy EXCEPT !.mode = "rego", !.rows = r]
      BY <1>1, <2>1, <2>2, <3>2 DEF PolicyState
    <3> QED
      BY <2>1, <3>1, <3>2
  <2>4. Asked'
    BY <1>1, <2>1 DEF PolicyInv, Asked, PolicyState
  <2>5. DraftIsIntent' /\ Copied'
    BY <1>4, <2>1, <2>3 DEF r
  <2>6. intent' \in [Packs -> RulesState] /\ stale' \subseteq Packs
    BY <1>1, <1>3, <2>1 DEF PolicyTypes
  <2> QED
    BY <2>3, <2>4, <2>5, <2>6 DEF PolicyInv, PolicyTypes
<1>7. ASSUME NEW p \in Packs, selectPack(p) PROVE PolicyInv'
  <2> DEFINE same == p = policy.pack /\ Visual
             r == IF same THEN policy.rows ELSE Mounted(Draft(p))
  <2>1. policy' = [policy EXCEPT !.pack = p, !.confirm = FALSE, !.expanded = 0, !.mode = "visual",
                                 !.asked = 0, !.edit = NoEdit, !.rows = r]
    BY <1>1, <1>7 DEF selectPack
  <2>2. intent' = intent /\ stale' = (IF same THEN stale ELSE StillWrong) /\ policy.loaded
    BY <1>7 DEF selectPack
  <2>3. r \in [1..Rules -> RowState]
    BY <1>1, <1>5, PolicyFields
  <2>4. (same => r = policy.rows) /\ (~same => r = Mounted(Draft(p)))
    OBVIOUS
  <2> HIDE DEF r
  <2>5. NoEdit \in Edits /\ "visual" \in Modes /\ 0 \in MaybeRule /\ 0 \in Clicks /\ p \in MaybePack
    BY DEF Edits, Modes, MaybeRule, Clicks, MaybePack
  <2>6. policy' \in PolicyState
    BY <1>1, <2>1, <2>3, <2>5 DEF PolicyState
  <2>7. /\ policy'.draft = policy.draft /\ policy'.rows = r /\ policy'.pack = p
        /\ policy'.confirm = FALSE /\ policy'.saving = policy.saving
        /\ policy'.confirmed = policy.confirmed /\ policy'.resetting = policy.resetting
        /\ policy'.loaded = policy.loaded
    BY <1>1, <2>1 DEF PolicyState
  <2>8. Asked'
    BY <2>2, <2>7 DEF PolicyInv, Asked
  <2>9. DraftIsIntent' /\ Copied'
    <3>1. CASE ~same
      BY <1>4, <2>2, <2>4, <2>7, <3>1
    <3>2. CASE same
      <4>1. stale' = stale /\ policy'.rows = policy.rows /\ policy.pack = p /\ Visual
        BY <2>2, <2>4, <2>7, <3>2
      <4>2. DraftIsIntent'
        BY <1>1, <2>2, <2>7, <4>1 DEF DraftIsIntent, Draft
      <4>3. Copied'
        BY <2>7, <4>1 DEF PolicyInv, Copied, Draft
      <4> QED
        BY <4>2, <4>3
    <3> QED
      BY <3>1, <3>2
  <2>10. intent' \in [Packs -> RulesState] /\ stale' \subseteq Packs
    BY <1>1, <1>3, <2>2 DEF PolicyTypes
  <2> QED
    BY <2>6, <2>8, <2>9, <2>10 DEF PolicyInv, PolicyTypes
<1> QED
  BY <1>6, <1>7

LEMMA ResetReturnsSteps == PolicyInv /\ ResetReturns => PolicyInv'
<1> SUFFICES ASSUME PolicyInv, ResetReturns PROVE PolicyInv'
  OBVIOUS
<1> USE PolicyPageAssumption
<1> DEFINE p == policy.resetting
           k == [enabled |-> TRUE, rules |-> Defaults]
           d == [policy.draft EXCEPT ![p] = k]
           kept == p = policy.pack /\ Visual
<1>1. policy \in PolicyState /\ PolicyTypes /\ DraftIsIntent /\ p \in Packs /\ Asked
  BY DEF PolicyInv, PolicyTypes, Asked, ResetReturns
<1>2. policy' = [policy EXCEPT !.draft = d, !.saving = "no", !.confirm = FALSE, !.asked = 0,
                               !.resetting = "none", !.confirmed = FALSE]
  BY DEF ResetReturns
<1>3. intent' = [intent EXCEPT ![p] = Defaults]
      /\ stale' = IF kept THEN stale \cup {p} ELSE stale \ {p}
  BY DEF ResetReturns
<1>4. /\ d \in [Packs -> PackState] /\ d[p].rules = Defaults
      /\ \A q \in Packs \ {p} : d[q] = policy.draft[q]
  <2>1. k \in PackState /\ k.rules = Defaults
    BY DefaultRules DEF PackState
  <2> HIDE DEF k
  <2> QED
    BY <1>1, <2>1, PolicyFields
<1> HIDE DEF d, p
<1>5. "no" \in Savings /\ 0 \in Clicks /\ "none" \in MaybePack
  BY DEF Savings, Clicks, MaybePack
<1>6. policy' \in PolicyState
  BY <1>1, <1>2, <1>4, <1>5 DEF PolicyState
<1>7. /\ policy'.draft = d /\ policy'.rows = policy.rows /\ policy'.pack = policy.pack
      /\ policy'.confirm = FALSE /\ policy'.saving = "no" /\ policy'.loaded = policy.loaded
      /\ policy'.mode = policy.mode
  BY <1>1, <1>2 DEF PolicyState
<1>8. Asked'
  BY <1>1, <1>7 DEF Asked
<1>9. intent \in [Packs -> RulesState] /\ stale \subseteq Packs
  BY <1>1 DEF PolicyTypes
<1>10. intent' \in [Packs -> RulesState] /\ stale' \subseteq Packs
  BY <1>1, <1>3, <1>9, DefaultRules
<1>11. DraftIsIntent'
  <2> SUFFICES ASSUME NEW q \in Packs, q \notin stale' PROVE d[q].rules = intent'[q]
    BY <1>7 DEF DraftIsIntent, Draft
  <2>1. CASE q = p
    <3>1. intent'[p] = Defaults
      BY <1>1, <1>3, <1>9
    <3>2. d[p].rules = Defaults
      BY <1>4
    <3> QED
      BY <2>1, <3>1, <3>2, Zenon
  <2>2. CASE q # p
    <3>1. q \notin stale
      BY <1>3, <2>2
    <3> QED
      BY <1>1, <1>3, <1>4, <1>9, <2>2, <3>1 DEF DraftIsIntent, Draft
  <2> QED
    BY <2>1, <2>2
<1>12. Copied'
  <2> SUFFICES ASSUME Visual, policy.pack \in Packs, policy.pack \notin stale', NEW i \in 1..Rules
               PROVE  policy.rows[i].parameters = d[policy.pack].rules[i].parameters
    BY <1>7 DEF Copied, Visual, Selected, Draft
  <2>1. policy.pack # p /\ policy.pack \notin stale
    BY <1>3
  <2> QED
    BY <1>4, <2>1 DEF PolicyInv, Copied, Draft
<1> QED
  BY <1>6, <1>8, <1>10, <1>11, <1>12 DEF PolicyInv, PolicyTypes

\* Rule i of the selected pack becomes g in the draft, and the user asked for
\* just that change.
LEMMA RuleChanges ==
  ASSUME PolicyInv, Selected, NEW i \in 1..Rules, NEW g \in RuleState, NEW h \in RuleState,
         policy.pack \notin stale => h = g,
         policy'.draft = [policy.draft EXCEPT ![policy.pack] =
                            [policy.draft[policy.pack] EXCEPT !.rules =
                               [policy.draft[policy.pack].rules EXCEPT ![i] = g]]],
         intent' = [intent EXCEPT ![policy.pack] = [intent[policy.pack] EXCEPT ![i] = h]],
         stale' = stale, policy' \in PolicyState, SameControl(policy', policy),
         \A j \in 1..Rules \ {i} : policy'.rows[j].parameters = policy.rows[j].parameters,
         Copied => (Visual /\ policy.pack \notin stale => policy'.rows[i].parameters = g.parameters)
  PROVE  PolicyInv'
<1> DEFINE p == policy.pack
<1>1. /\ p \in Packs /\ policy.draft \in [Packs -> PackState] /\ intent \in [Packs -> RulesState]
      /\ stale \subseteq Packs /\ DraftIsIntent /\ Asked /\ Copied
  BY PolicyFields DEF PolicyInv, PolicyTypes, Selected
<1> DEFINE rs == [policy.draft[p].rules EXCEPT ![i] = g]
           us == [intent[p] EXCEPT ![i] = h]
<1>2. rs \in RulesState /\ us \in RulesState
  BY <1>1 DEF PackState, RulesState
<1>3. policy.draft[p].rules \in RulesState /\ intent[p] \in RulesState
  BY <1>1 DEF PackState
<1>4. \A j \in 1..Rules : rs[j] = IF j = i THEN g ELSE policy.draft[p].rules[j]
  BY <1>3 DEF RulesState
<1>5. p \notin stale => rs = us
  BY <1>1 DEF DraftIsIntent, Draft
<1>6. policy'.draft[p].rules = rs /\ \A q \in Packs \ {p} : policy'.draft[q] = policy.draft[q]
  BY <1>1 DEF PackState
<1>7. intent'[p] = us /\ (\A q \in Packs \ {p} : intent'[q] = intent[q])
      /\ intent' \in [Packs -> RulesState]
  BY <1>1, <1>2
<1> HIDE DEF rs, us
<1>8. DraftIsIntent'
  BY <1>1, <1>5, <1>6, <1>7 DEF DraftIsIntent, Draft
<1>9. Asked'
  BY <1>1, SameAsked
<1>10. Copied'
  <2> SUFFICES ASSUME Visual, p \notin stale, NEW j \in 1..Rules
               PROVE  policy'.rows[j].parameters = rs[j].parameters
    BY <1>6 DEF Copied, Visual, SameControl, Draft
  <2>1. CASE j = i
    BY <1>1, <1>4, <2>1
  <2>2. CASE j # i
    BY <1>1, <1>4, <2>2 DEF Copied, Draft
  <2> QED
    BY <2>1, <2>2
<1> QED
  BY <1>1, <1>7, <1>8, <1>9, <1>10 DEF PolicyInv, PolicyTypes

\* A new rule in the selected pack of the page x.
WithRule(x, i, g) ==
  [x EXCEPT !.draft = [x.draft EXCEPT ![x.pack] =
     [x.draft[x.pack] EXCEPT !.rules = [x.draft[x.pack].rules EXCEPT ![i] = g]]]]

LEMMA RuleOnly ==
  ASSUME NEW x \in PolicyState, x.pack \in Packs, NEW i \in 1..Rules, NEW g \in RuleState
  PROVE  /\ WithRule(x, i, g) \in PolicyState /\ SameControl(WithRule(x, i, g), x)
         /\ WithRule(x, i, g).rows = x.rows
         /\ WithRule(x, i, g).draft = [x.draft EXCEPT ![x.pack] =
              [x.draft[x.pack] EXCEPT !.rules = [x.draft[x.pack].rules EXCEPT ![i] = g]]]
<1> DEFINE rs == [x.draft[x.pack].rules EXCEPT ![i] = g]
           k == [x.draft[x.pack] EXCEPT !.rules = rs]
           d == [x.draft EXCEPT ![x.pack] = k]
<1>1. x.draft \in [Packs -> PackState]
  BY PolicyFields DEF PolicyState
<1>2. x.draft[x.pack] \in PackState /\ x.draft[x.pack].rules \in RulesState
  BY <1>1 DEF PackState
<1>3. rs \in RulesState
  BY <1>2 DEF RulesState
<1> HIDE DEF rs
<1>4. k \in PackState
  BY <1>2, <1>3 DEF PackState
<1> HIDE DEF k
<1>5. d \in [Packs -> PackState]
  BY <1>1, <1>4
<1>6. WithRule(x, i, g) = [x EXCEPT !.draft = d]
  BY DEF WithRule, d, k, rs
<1> HIDE DEF d
<1>7. /\ WithRule(x, i, g) \in PolicyState /\ SameControl(WithRule(x, i, g), x)
      /\ WithRule(x, i, g).rows = x.rows /\ WithRule(x, i, g).draft = d
  BY <1>5, <1>6 DEF PolicyState, SameControl
<1> QED
  BY <1>7 DEF d, k, rs

LEMMA ToggleRuleSteps ==
  ASSUME PolicyInv, NEW i \in 1..Rules, ToggleRule(i)
  PROVE  PolicyInv'
<1> DEFINE p == policy.pack
           old == policy.draft[p].rules[i]
           b == ~old.enabled
           g == [old EXCEPT !.enabled = b]
           h == [intent[p][i] EXCEPT !.enabled = b]
           more == [policy EXCEPT !.edits = @ + 1]
<1>1. policy \in PolicyState /\ PolicyTypes /\ DraftIsIntent /\ Selected /\ p \in Packs
      /\ policy.edits + 1 \in Nat
  BY PolicyFields DEF PolicyInv, PolicyTypes, ToggleRule, Visual, Selected
<1>2. policy.draft \in [Packs -> PackState] /\ intent \in [Packs -> RulesState]
  BY <1>1, PolicyFields DEF PolicyTypes
<1>3. old \in RuleState /\ intent[p][i] \in RuleState
  BY <1>1, <1>2 DEF PackState, RulesState
<1>4. g \in RuleState /\ h \in RuleState /\ g.parameters = old.parameters
  BY <1>3 DEF RuleState
<1>5. p \notin stale => h = g
  BY <1>1 DEF DraftIsIntent, Draft
<1>6. policy' = WithRule(more, i, g)
  BY <1>1 DEF ToggleRule, WithRule, PolicyState
<1>7. intent' = [intent EXCEPT ![p] = [intent[p] EXCEPT ![i] = h]] /\ stale' = stale
  BY DEF ToggleRule
<1> HIDE DEF g, h
<1>8. more \in PolicyState /\ SameControl(more, policy) /\ more.draft = policy.draft
      /\ more.rows = policy.rows /\ more.pack = p
  BY <1>1 DEF PolicyState, SameControl
<1> HIDE DEF more
<1>9. policy' \in PolicyState /\ SameControl(policy', more) /\ policy'.rows = policy.rows
      /\ policy'.draft = [policy.draft EXCEPT ![p] =
              [policy.draft[p] EXCEPT !.rules = [policy.draft[p].rules EXCEPT ![i] = g]]]
  BY <1>1, <1>4, <1>6, <1>8, RuleOnly
<1>10. SameControl(policy', policy)
  BY <1>8, <1>9 DEF SameControl
<1>11. Copied => (Visual /\ p \notin stale => policy'.rows[i].parameters = g.parameters)
  BY <1>4, <1>9 DEF Copied, Draft
<1> QED
  BY <1>1, <1>4, <1>5, <1>7, <1>9, <1>10, <1>11, RuleChanges

LEMMA UpdateParameterSteps ==
  ASSUME PolicyInv, NEW i \in 1..Rules, NEW k \in Parameters, NEW v \in Values,
         updateParameter(i, k, v)
  PROVE  PolicyInv'
<1> DEFINE p == policy.pack
           old == policy.draft[p].rules[i]
           values == [policy.rows[i].parameters EXCEPT ![k] = v]
           meant == [intent[p][i].parameters EXCEPT ![k] = v]
           g == [old EXCEPT !.parameters = values]
           h == [intent[p][i] EXCEPT !.parameters = meant]
           q == [policy.rows[i] EXCEPT !.parameters = values]
           r == [policy.rows EXCEPT ![i] = q]
           more == [policy EXCEPT !.rows = r, !.edits = @ + 1]
<1>1. policy \in PolicyState /\ PolicyTypes /\ DraftIsIntent /\ Visual /\ p \in Packs /\ Copied
      /\ policy.edits + 1 \in Nat
  BY PolicyFields DEF PolicyInv, PolicyTypes, updateParameter, Visual, Selected
<1>2. /\ policy.draft \in [Packs -> PackState] /\ intent \in [Packs -> RulesState]
      /\ policy.rows \in [1..Rules -> RowState]
  BY <1>1, PolicyFields DEF PolicyTypes
<1>3. old \in RuleState /\ intent[p][i] \in RuleState /\ policy.rows[i] \in RowState
  BY <1>1, <1>2 DEF PackState, RulesState
<1>4. values \in Settings1 /\ meant \in Settings1
  BY <1>3 DEF RuleState, RowState, Settings1
<1>5. p \notin stale => values = meant /\ old = intent[p][i]
  BY <1>1 DEF DraftIsIntent, Copied, Draft
<1>6. policy' = WithRule(more, i, g)
  BY <1>1 DEF updateParameter, WithRule, PolicyState
<1>7. intent' = [intent EXCEPT ![p] = [intent[p] EXCEPT ![i] = h]] /\ stale' = stale
  BY DEF updateParameter
<1> HIDE DEF values, meant
<1>8. g \in RuleState /\ h \in RuleState /\ g.parameters = values
  BY <1>3, <1>4 DEF RuleState
<1>9. p \notin stale => h = g
  BY <1>5
<1>10. q \in RowState /\ q.parameters = values
  BY <1>3, <1>4 DEF RowState
<1> HIDE DEF g, h, q
<1>11. /\ r \in [1..Rules -> RowState] /\ r[i] = q
       /\ \A j \in 1..Rules \ {i} : r[j] = policy.rows[j]
  BY <1>2, <1>10
<1> HIDE DEF r
<1>12. more \in PolicyState /\ SameControl(more, policy) /\ more.draft = policy.draft
       /\ more.rows = r /\ more.pack = p
  BY <1>1, <1>11 DEF PolicyState, SameControl
<1> HIDE DEF more
<1>13. policy' \in PolicyState /\ SameControl(policy', more) /\ policy'.rows = r
       /\ policy'.draft = [policy.draft EXCEPT ![p] =
              [policy.draft[p] EXCEPT !.rules = [policy.draft[p].rules EXCEPT ![i] = g]]]
  BY <1>1, <1>6, <1>8, <1>12, RuleOnly
<1>14. SameControl(policy', policy)
  BY <1>12, <1>13 DEF SameControl
<1>15. policy'.rows[i].parameters = g.parameters
       /\ \A j \in 1..Rules \ {i} : policy'.rows[j].parameters = policy.rows[j].parameters
  BY <1>8, <1>10, <1>11, <1>13
<1> QED
  BY <1>1, <1>7, <1>8, <1>9, <1>13, <1>14, <1>15, RuleChanges DEF Visual

LEMMA SaveEditorSteps ==
  ASSUME PolicyInv, NEW i \in 1..Rules, SaveEditor(i)
  PROVE  PolicyInv'
<1> DEFINE p == policy.pack
           old == policy.draft[p].rules[i]
           v == Editing(i)
           g == [old EXCEPT !.rego = v]
           h == [intent[p][i] EXCEPT !.rego = v]
           saved == WithRule(policy, i, g)
<1>1. policy \in PolicyState /\ PolicyTypes /\ DraftIsIntent /\ Selected /\ p \in Packs /\ Copied
  BY DEF PolicyInv, PolicyTypes, SaveEditor, Editor, RegoView, Visual, Selected
<1>2. /\ policy.draft \in [Packs -> PackState] /\ intent \in [Packs -> RulesState]
      /\ policy.rows \in [1..Rules -> RowState] /\ policy.edit \in Edits
  BY <1>1, PolicyFields DEF PolicyTypes
<1>3. old \in RuleState /\ intent[p][i] \in RuleState /\ policy.rows[i] \in RowState
  BY <1>1, <1>2 DEF PackState, RulesState
<1>4. v \in Values
  <2>1. v \in Edits
    BY <1>2, <1>3 DEF Editing, RowState
  <2> QED
    BY <2>1 DEF SaveEditor, Edits
<1>5. policy' = WithEdit(saved, i, NoEdit)
  BY <1>1 DEF SaveEditor, WithRule, PolicyState
<1>6. intent' = [intent EXCEPT ![p] = [intent[p] EXCEPT ![i] = h]] /\ stale' = stale
  BY DEF SaveEditor
<1> HIDE DEF v
<1>7. g \in RuleState /\ h \in RuleState /\ g.parameters = old.parameters
  BY <1>3, <1>4 DEF RuleState
<1>8. p \notin stale => h = g
  BY <1>1 DEF DraftIsIntent, Draft
<1> HIDE DEF g, h
<1>9. saved \in PolicyState /\ SameControl(saved, policy) /\ saved.rows = policy.rows
      /\ saved.draft = [policy.draft EXCEPT ![p] =
              [policy.draft[p] EXCEPT !.rules = [policy.draft[p].rules EXCEPT ![i] = g]]]
  BY <1>1, <1>7, RuleOnly
<1> HIDE DEF saved
<1>10. /\ policy' \in PolicyState /\ SameControl(policy', saved) /\ policy'.draft = saved.draft
       /\ \A j \in 1..Rules : policy'.rows[j].parameters = saved.rows[j].parameters
  BY <1>5, <1>9, EditorOnly DEF Edits
<1>11. SameControl(policy', policy)
  BY <1>9, <1>10 DEF SameControl
<1>12. Copied => (Visual /\ p \notin stale => policy'.rows[i].parameters = g.parameters)
  BY <1>7, <1>9, <1>10 DEF Copied, Draft
<1> QED
  BY <1>1, <1>6, <1>7, <1>8, <1>9, <1>10, <1>11, <1>12, RuleChanges

LEMMA PolicyStep == PolicyInv /\ [PolicyNext]_policyVars => PolicyInv'
<1> SUFFICES ASSUME PolicyInv, [PolicyNext]_policyVars PROVE PolicyInv'
  OBVIOUS
<1>1. CASE UNCHANGED policyVars
  BY <1>1 DEF policyVars, PolicyInv, PolicyTypes, Asked, DraftIsIntent, Copied, Visual, Selected,
              Draft
<1>2. CASE PolicyNext
  BY <1>2, LooksSteps, EditorSteps, ToggleExpandedSteps, MountSteps, ResetReturnsSteps,
     ToggleRuleSteps, UpdateParameterSteps, SaveEditorSteps
     DEF PolicyNext
<1> QED
  BY <1>1, <1>2

\* What the policy page shows and saves: a reset follows two clicks for the
\* pack that is reset, and every rule is what the user last asked for, over the
\* copies that rows and editors hold (handleReset, updateParameter, RegoEditor).
THEOREM PolicyKept == WebSpec => []PolicyPageInv
<1>1. WebInit => PolicyInv
  BY PolicyStart DEF WebInit
<1>2. [WebNext]_webVars => [PolicyNext]_policyVars
  BY DEF WebNext, On, webVars
<1>3. PolicyInv /\ [WebNext]_webVars => PolicyInv'
  BY <1>2, PolicyStep
<1>4. PolicyInv => PolicyPageInv
  <2> SUFFICES ASSUME PolicyInv PROVE PolicyPageInv
    OBVIOUS
  <2>1. policy \in PolicyState /\ stale \subseteq Packs /\ DraftIsIntent /\ Asked
    BY DEF PolicyInv, PolicyTypes
  <2>2. policy.saving \in {"no", "save", "reset"} /\ policy.mode \in {"visual", "rego"}
        /\ policy.expanded \in 0..Rules
    BY <2>1, PolicyFields DEF Savings, Modes, MaybeRule
  <2>3. \A p \in Packs, i \in 1..Rules : Draft(p).rules[i].parameters \in [Parameters -> Values]
    BY <2>1, PolicyFields DEF Draft, PackState, RulesState, RuleState, Settings1
  <2> QED
    BY <2>1, <2>2, <2>3 DEF PolicyPageInv, PolicyTypeOK, ResetConfirmed, Asked
<1> QED
  BY <1>1, <1>3, <1>4, PTL DEF WebSpec

----------------------------------------------------------------------------
(* The cloud accounts page: CloudPage                                      *)

Ids       == 0..CloudIds
Hashes    == 0..CloudIds + 1
Views     == {"loading", "ready", "error"}
Statuses  == {"none", "pending", "active", "failed"}
Calls     == {"idle", "create", "verify", "delete"}
Answers   == {"none", "ok", "error"}
Feedbacks == {"none", "verified", "removed", "error"}
SlotState  == [id: Ids, status: Statuses, hash: Hashes]
CallState == [op: Calls, id: Ids, ext: Hashes, reply: Answers]
LoadState == [list: SlotState, listed: BOOLEAN, caps: Ids, described: BOOLEAN]

CloudState ==
  [view: Views, load: LoadState, shown: SlotState, caps: Ids, open: BOOLEAN, ext: Ids,
   typed: BOOLEAN, busy: BOOLEAN, feedback: Feedbacks, call: CallState, auto: BOOLEAN,
   configured: BOOLEAN]

AwsState == [row: SlotState, stack: Ids, late: CallState, touched: BOOLEAN]

CloudCounts == [drawn: Ids, rows: Ids, faults: Nat]

\* A call that may still insert a row.
Pending(c) == IF c.op = "create" /\ c.reply = "none" THEN 1 ELSE 0

\* An account has a number, one of those the server has given; there are enough
\* numbers for the calls under way.
CloudTypes ==
  /\ cloud \in CloudState /\ aws \in AwsState /\ cloudHist \in CloudCounts
  /\ aws.row.id <= cloudHist.rows
  /\ aws.row.id = 0 => aws.row = NoRow
  /\ cloud.shown.id = 0 => cloud.shown = NoRow
  /\ cloud.load.list.id = 0 => cloud.load.list = NoRow
  /\ cloud.call.op = "create" /\ cloud.call.reply = "ok" => cloud.call.id # 0
  /\ aws.late.reply = "none"
  /\ cloudHist.rows + Pending(cloud.call) + Pending(aws.late) <= CloudIds

\* A call is of the page that is shown, whose buttons are disabled meanwhile: a
\* creation with the panel's external id and no account, a deletion without an
\* earlier success on the screen.
CallKept ==
  /\ cloud.call.op # "idle" => cloud.view = "ready" /\ cloud.busy /\ ~cloud.auto
  /\ cloud.call.op = "create" => cloud.shown = NoRow /\ cloud.call.ext = cloud.ext
  /\ cloud.call.op = "delete" => cloud.feedback # "verified"

\* What has been answered is so on the server.
AnswerKept ==
  ~aws.touched /\ cloud.call.reply = "ok" =>
    /\ cloud.call.op = "create" => aws.row.id = cloud.call.id /\ aws.row.hash = cloud.call.ext
    /\ cloud.call.op = "verify" => aws.row.status = "active"
    /\ cloud.call.op = "delete" => aws.row = NoRow

\* A load that follows a success reads the account as it is then, and one with
\* the panel still open follows a deletion.
LoadKept ==
  ~aws.touched =>
    /\ cloud.view = "loading" /\ cloud.feedback = "verified" =>
         /\ cloud.load.listed => cloud.load.list = aws.row
         /\ cloud.load.described => cloud.load.caps = aws.row.id
    /\ cloud.view # "ready" /\ cloud.open =>
         aws.row = NoRow /\ (cloud.load.listed => cloud.load.list = NoRow)

\* FeedbackTrue, also while a call is under way.
VerifiedKept ==
  ~aws.touched /\ cloud.feedback = "verified" =>
    /\ aws.row.status = "active"
    /\ cloud.view = "ready" => cloud.shown = aws.row /\ cloud.caps = aws.row.id

CloudInv == CloudTypes /\ CallKept /\ AnswerKept /\ LoadKept /\ VerifiedKept /\ PanelIdMatches

LEMMA CloudSets ==
  ASSUME CloudPageAssumption
  PROVE  /\ Ids \subseteq Nat /\ Ids \subseteq Hashes /\ 0 \in Ids /\ CloudIds \in Nat
         /\ \A n \in Nat : n <= CloudIds => n \in Ids
         /\ \A n \in Ids : n <= CloudIds
         /\ {"loading", "ready", "error"} \subseteq Views
         /\ {"none", "pending", "active", "failed"} \subseteq Statuses
         /\ {"idle", "create", "verify", "delete"} \subseteq Calls
         /\ {"none", "ok", "error"} \subseteq Answers
         /\ {"none", "verified", "removed", "error"} \subseteq Feedbacks
  BY DEF CloudPageAssumption, Ids, Hashes, Views, Statuses, Calls, Answers, Feedbacks

LEMMA CloudRecords ==
  ASSUME CloudPageAssumption
  PROVE  NoRow \in SlotState /\ Idle \in CallState /\ Unread \in LoadState
<1>1. NoRow \in SlotState /\ Idle \in CallState
  BY CloudSets DEF NoRow, Idle, SlotState, CallState
<1> QED
  BY <1>1, CloudSets DEF Unread, LoadState

LEMMA ListReadSteps == CloudPageAssumption /\ CloudInv /\ ListRead => CloudInv'
<1> SUFFICES ASSUME CloudPageAssumption, CloudInv, ListRead PROVE CloudInv'
  OBVIOUS
<1> DEFINE l == [cloud.load EXCEPT !.list = aws.row, !.listed = TRUE]
<1>1. cloud \in CloudState /\ aws \in AwsState /\ cloud.load \in LoadState
  BY DEF CloudInv, CloudTypes, CloudState
<1>2. /\ cloud' = [cloud EXCEPT !.load = l] /\ aws' = aws /\ cloudHist' = cloudHist
      /\ cloud.view = "loading" /\ ~cloud.load.listed
  BY <1>1 DEF ListRead, CloudState, LoadState
<1>3. /\ l \in LoadState /\ l.list = aws.row /\ l.caps = cloud.load.caps
      /\ l.described = cloud.load.described
  BY <1>1 DEF LoadState, AwsState
<1> HIDE DEF l
<1>4. CloudTypes'
  BY <1>1, <1>2, <1>3 DEF CloudInv, CloudTypes, CloudState, Pending
<1>5. CallKept' /\ AnswerKept' /\ VerifiedKept' /\ PanelIdMatches'
  BY <1>1, <1>2, <1>3 DEF CloudInv, CallKept, AnswerKept, VerifiedKept, PanelIdMatches, PanelShown, CloudState
<1>6. LoadKept'
  BY <1>1, <1>2, <1>3 DEF CloudInv, LoadKept, CloudState
<1> QED
  BY <1>4, <1>5, <1>6 DEF CloudInv

LEMMA PendingIs == Pending(Idle) = 0 /\ \A c : Pending(c) \in {0, 1}
BY DEF Pending, Idle

LEMMA CapabilitiesReadSteps == CloudPageAssumption /\ CloudInv /\ CapabilitiesRead => CloudInv'
<1> SUFFICES ASSUME CloudPageAssumption, CloudInv, CapabilitiesRead PROVE CloudInv'
  OBVIOUS
<1> DEFINE k == IF aws.row.status = "active" THEN aws.row.id ELSE 0
           l == [cloud.load EXCEPT !.described = TRUE, !.caps = k]
<1>1. cloud \in CloudState /\ aws \in AwsState /\ cloud.load \in LoadState /\ k \in Ids
  BY CloudSets DEF CloudInv, CloudTypes, CloudState, AwsState, SlotState
<1>2. /\ cloud' = [cloud EXCEPT !.load = l] /\ aws' = aws /\ cloudHist' = cloudHist
      /\ cloud.view = "loading"
  BY <1>1 DEF CapabilitiesRead, CloudState, LoadState
<1>3. aws.row.status = "active" => k = aws.row.id
  OBVIOUS
<1> HIDE DEF k
<1>4. /\ l \in LoadState /\ l.list = cloud.load.list /\ l.caps = k
      /\ l.listed = cloud.load.listed
  BY <1>1 DEF LoadState, AwsState
<1> HIDE DEF l
<1>5. CloudTypes'
  BY <1>1, <1>2, <1>4 DEF CloudInv, CloudTypes, CloudState, Pending
<1>6. CallKept' /\ AnswerKept' /\ VerifiedKept' /\ PanelIdMatches'
  BY <1>1, <1>2 DEF CloudInv, CallKept, AnswerKept, VerifiedKept, PanelIdMatches, PanelShown, CloudState
<1>7. LoadKept'
  BY <1>1, <1>2, <1>3, <1>4 DEF CloudInv, LoadKept, VerifiedKept, CloudState
<1> QED
  BY <1>5, <1>6, <1>7 DEF CloudInv

\* The handler that awaits the load, if one does, is over.
LEMMA LoadEndsSteps == CloudPageAssumption /\ CloudInv /\ (Loaded \/ LoadFails) => CloudInv'
<1> SUFFICES ASSUME CloudPageAssumption, CloudInv, Loaded \/ LoadFails PROVE CloudInv'
  OBVIOUS
<1>1. cloud \in CloudState /\ aws \in AwsState /\ cloud.load \in LoadState /\ cloudHist \in CloudCounts
  BY DEF CloudInv, CloudTypes, CloudState
<1>2. CASE Loaded
  <2>1. /\ cloud' = [cloud EXCEPT !.view = "ready", !.shown = cloud.load.list, !.caps = cloud.load.caps,
                                  !.load = Unread, !.busy = FALSE, !.call = Idle]
        /\ aws' = aws /\ cloudHist' = cloudHist
        /\ cloud.view = "loading" /\ cloud.load.listed /\ cloud.load.described
    BY <1>1, <1>2 DEF Loaded, Released, CloudState
  <2>2. cloud.load.list \in SlotState /\ cloud.load.caps \in Ids
    BY <1>1 DEF LoadState
  <2>3. cloud' \in CloudState
    BY <1>1, <2>1, <2>2, CloudSets, CloudRecords DEF CloudState
  <2>4. cloud'.call = Idle /\ cloud'.load = Unread /\ cloud'.shown = cloud.load.list
    BY <1>1, <2>1 DEF CloudState
  <2>8. CloudTypes'
    BY <1>1, <2>1, <2>3, <2>4, PendingIs, CloudSets DEF CloudInv, CloudTypes, CloudCounts, Idle, Unread
  <2>5. CallKept' /\ AnswerKept'
    BY <1>1, <2>1 DEF CloudInv, CallKept, AnswerKept, CloudState, Idle
  <2>6. VerifiedKept' /\ LoadKept'
    BY <1>1, <2>1 DEF CloudInv, LoadKept, VerifiedKept, CloudState
  <2>7. PanelIdMatches'
    BY <1>1, <2>1 DEF CloudInv, LoadKept, PanelIdMatches, PanelShown, CloudState
  <2> QED
    BY <2>5, <2>6, <2>7, <2>8 DEF CloudInv
<1>3. CASE LoadFails
  <2>1. /\ cloud' = [cloud EXCEPT !.view = "error", !.load = Unread, !.busy = FALSE, !.call = Idle]
        /\ aws' = aws /\ cloudHist' = [cloudHist EXCEPT !.faults = @ + 1] /\ cloud.view = "loading"
    BY <1>1, <1>3 DEF LoadFails, Released, CloudState
  <2>2. cloudHist.faults + 1 \in Nat
    BY <1>1 DEF CloudCounts
  <2>3. cloud' \in CloudState /\ cloudHist' \in CloudCounts
    BY <1>1, <2>1, <2>2, CloudSets, CloudRecords DEF CloudState, CloudCounts
  <2>4. cloud'.call = Idle /\ cloud'.load = Unread /\ cloud'.shown = cloud.shown
        /\ cloudHist'.rows = cloudHist.rows
    BY <1>1, <2>1 DEF CloudState, CloudCounts
  <2>7. CloudTypes'
    BY <1>1, <2>1, <2>3, <2>4, PendingIs, CloudSets DEF CloudInv, CloudTypes, CloudCounts, Idle, Unread
  <2>5. CallKept' /\ AnswerKept' /\ VerifiedKept' /\ PanelIdMatches'
    BY <1>1, <2>1 DEF CloudInv, CallKept, AnswerKept, VerifiedKept, PanelIdMatches, PanelShown,
                      CloudState, Idle
  <2>6. LoadKept'
    BY <1>1, <2>1 DEF CloudInv, LoadKept, CloudState, Unread
  <2> QED
    BY <2>5, <2>6, <2>7 DEF CloudInv
<1> QED
  BY <1>2, <1>3

LEMMA RetryLoadSteps == CloudPageAssumption /\ CloudInv /\ RetryLoad => CloudInv'
<1> SUFFICES ASSUME CloudPageAssumption, CloudInv, RetryLoad PROVE CloudInv'
  OBVIOUS
<1>1. cloud \in CloudState /\ aws \in AwsState
  BY DEF CloudInv, CloudTypes
<1>2. /\ cloud' = [cloud EXCEPT !.view = "loading", !.load = Unread]
      /\ aws' = aws /\ cloudHist' = cloudHist /\ cloud.view = "error"
  BY <1>1 DEF RetryLoad, Loading
<1>3. CloudTypes'
  BY <1>1, <1>2, CloudSets, CloudRecords DEF CloudInv, CloudTypes, CloudState, Pending, Unread
<1>4. CallKept' /\ AnswerKept' /\ VerifiedKept' /\ PanelIdMatches'
  BY <1>1, <1>2 DEF CloudInv, CallKept, AnswerKept, VerifiedKept, PanelIdMatches, PanelShown, CloudState
<1>5. LoadKept'
  BY <1>1, <1>2 DEF CloudInv, LoadKept, CloudState, Unread
<1> QED
  BY <1>3, <1>4, <1>5 DEF CloudInv

\* The panel is opened for the account there is, or with a new external id.
LEMMA OpenSteps ==
  ASSUME CloudPageAssumption, CloudInv, NEW b \in BOOLEAN, cloud.call.op = "idle",
         cloud.view = "ready", openConnect([cloud EXCEPT !.auto = b]), aws' = aws
  PROVE  CloudInv'
<1>1. cloud \in CloudState /\ aws \in AwsState /\ cloudHist \in CloudCounts
  BY DEF CloudInv, CloudTypes
<1>2. PICK e \in Ids :
        /\ cloud' = [cloud EXCEPT !.auto = b, !.ext = e, !.typed = FALSE, !.open = TRUE]
        /\ cloud.shown # NoRow => e = 0
        /\ cloudHist' \in CloudCounts /\ cloudHist'.rows = cloudHist.rows
  <2>1. CASE cloud.shown # NoRow
    <3>1. cloud' = [cloud EXCEPT !.auto = b, !.ext = 0, !.typed = FALSE, !.open = TRUE]
          /\ cloudHist' = cloudHist
      BY <1>1, <2>1 DEF openConnect, openVerify, CloudState
    <3> QED
      BY <1>1, <2>1, <3>1, CloudSets
  <2>2. CASE cloud.shown = NoRow
    <3>1. /\ cloudHist.drawn < CloudIds /\ cloudHist' = [cloudHist EXCEPT !.drawn = @ + 1]
          /\ cloud' = [cloud EXCEPT !.auto = b, !.ext = cloudHist.drawn + 1,
                                    !.typed = FALSE, !.open = TRUE]
      BY <1>1, <2>2 DEF openConnect, openVerify, CloudState
    <3>2. cloudHist.drawn + 1 \in Ids
      BY <1>1, <3>1, CloudSets DEF CloudCounts
    <3> QED
      BY <1>1, <2>2, <3>1, <3>2 DEF CloudCounts
  <2> QED
    BY <2>1, <2>2
<1>3. CloudTypes'
  BY <1>1, <1>2 DEF CloudInv, CloudTypes, CloudState, Pending
<1>4. CallKept' /\ AnswerKept' /\ VerifiedKept' /\ LoadKept'
  BY <1>1, <1>2 DEF CloudInv, CallKept, AnswerKept, VerifiedKept, LoadKept, CloudState
<1>5. PanelIdMatches'
  BY <1>1, <1>2 DEF PanelIdMatches, PanelShown, CloudState
<1> QED
  BY <1>3, <1>4, <1>5 DEF CloudInv

LEMMA ConnectSteps ==
  CloudPageAssumption /\ CloudInv /\ (Connect \/ AutoConnect \/ OpenVerify) => CloudInv'
<1> SUFFICES ASSUME CloudPageAssumption, CloudInv, Connect \/ AutoConnect \/ OpenVerify
             PROVE  CloudInv'
  OBVIOUS
<1>1. cloud \in CloudState /\ cloud.auto \in BOOLEAN
  BY DEF CloudInv, CloudTypes, CloudState
<1>2. [cloud EXCEPT !.auto = cloud.auto] = cloud
  BY <1>1 DEF CloudState
<1>3. CASE Connect \/ OpenVerify
  <2>1. cloud.view = "ready" /\ cloud.call.op = "idle" /\ aws' = aws
    BY <1>3 DEF Connect, OpenVerify, CloudInv, CallKept
  <2>2. openConnect(cloud)
    BY <1>3 DEF Connect, OpenVerify, openConnect, cardStateFor
  <2>3. openConnect([cloud EXCEPT !.auto = cloud.auto])
    BY <1>2, <2>2
  <2> QED
    BY <1>1, <2>1, <2>3, OpenSteps
<1>4. CASE AutoConnect
  <2>1. cloud.view = "ready" /\ cloud.call.op = "idle" /\ aws' = aws
        /\ openConnect([cloud EXCEPT !.auto = FALSE])
    BY <1>4 DEF AutoConnect, CloudInv, CallKept
  <2> QED
    BY <2>1, OpenSteps
<1> QED
  BY <1>3, <1>4

\* The panel and the message, without a call.
LEMMA PanelSteps ==
  CloudPageAssumption /\ CloudInv /\ (TypeExternalId \/ Cancel \/ DeployStack \/ DismissFeedback)
    => CloudInv'
<1> SUFFICES ASSUME CloudPageAssumption, CloudInv,
                    TypeExternalId \/ Cancel \/ DeployStack \/ DismissFeedback
             PROVE  CloudInv'
  OBVIOUS
<1>1. cloud \in CloudState /\ aws \in AwsState /\ cloudHist \in CloudCounts
  BY DEF CloudInv, CloudTypes
<1>2. CASE TypeExternalId
  <2>1. PICK e \in 1..cloudHist.drawn : cloud' = [cloud EXCEPT !.ext = e, !.typed = TRUE]
    BY <1>2 DEF TypeExternalId
  <2>2. e \in Ids
    <3>1. cloudHist.drawn \in Ids
      BY <1>1 DEF CloudCounts
    <3> QED
      BY <3>1, CloudSets
  <2>3. /\ aws' = aws /\ cloudHist' = cloudHist /\ cloud.call.op = "idle" /\ cloud.view = "ready"
    BY <1>2 DEF TypeExternalId, CloudInv, CallKept, PanelShown
  <2>4. CloudTypes'
    BY <1>1, <2>1, <2>2, <2>3 DEF CloudInv, CloudTypes, CloudState, Pending
  <2>5. CallKept' /\ AnswerKept' /\ VerifiedKept' /\ LoadKept' /\ PanelIdMatches'
    BY <1>1, <2>1, <2>3 DEF CloudInv, CallKept, AnswerKept, VerifiedKept, LoadKept, CloudState,
                            PanelIdMatches, PanelShown
  <2> QED
    BY <2>4, <2>5 DEF CloudInv
<1>3. CASE Cancel
  <2>1. cloud' = [cloud EXCEPT !.open = FALSE] /\ aws' = aws /\ cloudHist' = cloudHist
    BY <1>3 DEF Cancel
  <2>2. CloudTypes'
    BY <1>1, <2>1 DEF CloudInv, CloudTypes, CloudState, Pending
  <2>3. CallKept' /\ AnswerKept' /\ VerifiedKept' /\ LoadKept' /\ PanelIdMatches'
    BY <1>1, <2>1 DEF CloudInv, CallKept, AnswerKept, VerifiedKept, LoadKept, CloudState,
                      PanelIdMatches, PanelShown
  <2> QED
    BY <2>2, <2>3 DEF CloudInv
<1>4. CASE DeployStack
  <2>1. aws' = [aws EXCEPT !.stack = cloud.ext] /\ cloud' = cloud /\ cloudHist' = cloudHist
    BY <1>4 DEF DeployStack
  <2>2. CloudTypes'
    BY <1>1, <2>1 DEF CloudInv, CloudTypes, CloudState, AwsState, Pending
  <2>3. CallKept' /\ AnswerKept' /\ VerifiedKept' /\ LoadKept' /\ PanelIdMatches'
    BY <1>1, <2>1 DEF CloudInv, CallKept, AnswerKept, VerifiedKept, LoadKept, AwsState,
                      PanelIdMatches, PanelShown
  <2> QED
    BY <2>2, <2>3 DEF CloudInv
<1>5. CASE DismissFeedback
  <2>1. cloud' = [cloud EXCEPT !.feedback = "none"] /\ aws' = aws /\ cloudHist' = cloudHist
    BY <1>5 DEF DismissFeedback
  <2>2. CloudTypes'
    BY <1>1, <2>1, CloudSets DEF CloudInv, CloudTypes, CloudState, Pending
  <2>3. CallKept' /\ AnswerKept' /\ VerifiedKept' /\ LoadKept' /\ PanelIdMatches'
    BY <1>1, <2>1 DEF CloudInv, CallKept, AnswerKept, VerifiedKept, LoadKept, CloudState,
                      PanelIdMatches, PanelShown
  <2> QED
    BY <2>2, <2>3 DEF CloudInv
<1> QED
  BY <1>2, <1>3, <1>4, <1>5

LEMMA handleVerifySteps == CloudPageAssumption /\ CloudInv /\ handleVerify => CloudInv'
<1> SUFFICES ASSUME CloudPageAssumption, CloudInv, handleVerify PROVE CloudInv'
  OBVIOUS
<1> DEFINE o == IF cloud.shown = NoRow THEN "create" ELSE "verify"
           c == Calling(o, cloud.shown.id, cloud.ext)
<1>1. cloud \in CloudState /\ aws \in AwsState /\ cloudHist \in CloudCounts
  BY DEF CloudInv, CloudTypes
<1>2. /\ cloud' = [cloud EXCEPT !.busy = TRUE, !.call = c]
      /\ aws' = aws /\ cloudHist' = cloudHist /\ cloud.view = "ready" /\ ~cloud.auto
      /\ cloud.shown = NoRow => MayInsert
  BY DEF handleVerify, PanelShown
<1>3. /\ c \in CallState /\ c.op = o /\ c.ext = cloud.ext /\ c.reply = "none"
  <2>1. o \in Calls /\ cloud.shown.id \in Ids /\ cloud.ext \in Hashes
    BY <1>1, CloudSets DEF CloudState, SlotState
  <2> QED
    BY <2>1, CloudSets DEF Calling, CallState
<1>4. Pending(c) = 1 => cloud.shown = NoRow
  BY <1>3 DEF Pending
<1>5. cloudHist.rows + Pending(c) + Pending(aws.late) <= CloudIds
  <2>1. CASE cloud.shown = NoRow
    <3>1. cloudHist.rows + (IF cloud.call.op = "create" THEN 1 ELSE 0)
            + (IF aws.late.op = "create" THEN 1 ELSE 0) < CloudIds
      BY <1>2, <2>1 DEF MayInsert
    <3> QED
      BY <1>1, <3>1, CloudSets DEF Pending, CloudCounts
  <2>2. CASE cloud.shown # NoRow
    <3>1. Pending(c) = 0
      BY <1>4, <2>2, PendingIs
    <3>2. Pending(cloud.call) \in {0, 1} /\ Pending(aws.late) \in {0, 1} /\ cloudHist.rows \in Nat
      BY <1>1, PendingIs, CloudSets DEF CloudCounts
    <3>3. cloudHist.rows + Pending(cloud.call) + Pending(aws.late) <= CloudIds
      BY DEF CloudInv, CloudTypes
    <3> QED
      BY <3>1, <3>2, <3>3, CloudSets
  <2> QED
    BY <2>1, <2>2
<1>6. /\ cloud.shown = NoRow => o = "create"
      /\ cloud.shown # NoRow => o = "verify"
  OBVIOUS
<1> HIDE DEF c, o
<1>7. cloud' \in CloudState /\ cloud'.call = c /\ cloud'.shown = cloud.shown /\ cloud'.load = cloud.load
  BY <1>1, <1>2, <1>3 DEF CloudState
<1>8. CloudTypes'
  BY <1>1, <1>2, <1>3, <1>5, <1>7 DEF CloudInv, CloudTypes
<1>9. CallKept' /\ AnswerKept' /\ VerifiedKept' /\ LoadKept' /\ PanelIdMatches'
  BY <1>1, <1>2, <1>3, <1>6 DEF CloudInv, CallKept, AnswerKept, VerifiedKept, LoadKept, CloudState,
                                PanelIdMatches, PanelShown
<1> QED
  BY <1>8, <1>9 DEF CloudInv

LEMMA handleDeleteSteps == CloudPageAssumption /\ CloudInv /\ handleDelete => CloudInv'
<1> SUFFICES ASSUME CloudPageAssumption, CloudInv, handleDelete PROVE CloudInv'
  OBVIOUS
<1> DEFINE c == Calling("delete", cloud.shown.id, 0)
<1>1. cloud \in CloudState /\ aws \in AwsState /\ cloudHist \in CloudCounts /\ cloud.shown \in SlotState
  BY DEF CloudInv, CloudTypes, CloudState
<1>2. /\ cloud' = [cloud EXCEPT !.busy = TRUE, !.feedback = "none", !.call = c]
      /\ aws' = aws /\ cloudHist' = cloudHist /\ cloud.view = "ready" /\ ~cloud.auto
      /\ cloud.call.op = "idle"
  BY DEF handleDelete, CloudInv, CallKept
<1>3. c \in CallState /\ c.op = "delete" /\ c.reply = "none" /\ Pending(c) = 0
  BY <1>1, CloudSets DEF Calling, CallState, SlotState, Pending
<1> HIDE DEF c
<1>4. /\ cloud' \in CloudState /\ cloud'.call = c /\ cloud'.shown = cloud.shown
      /\ cloud'.load = cloud.load
  BY <1>1, <1>2, <1>3, CloudSets DEF CloudState
<1>5. CloudTypes'
  <2>1. /\ Pending(cloud.call) \in {0, 1} /\ Pending(aws.late) \in {0, 1} /\ cloudHist.rows \in Nat
        /\ cloudHist.rows + Pending(cloud.call) + Pending(aws.late) <= CloudIds
    BY <1>1, PendingIs, CloudSets DEF CloudCounts, CloudInv, CloudTypes
  <2>2. cloudHist.rows + Pending(c) + Pending(aws.late) <= CloudIds
    BY <1>3, <2>1, CloudSets
  <2> QED
    BY <1>1, <1>2, <1>3, <1>4, <2>2 DEF CloudInv, CloudTypes
<1>6. CallKept' /\ AnswerKept' /\ VerifiedKept' /\ LoadKept' /\ PanelIdMatches'
  BY <1>1, <1>2, <1>3 DEF CloudInv, CallKept, AnswerKept, VerifiedKept, LoadKept, CloudState,
                          PanelIdMatches, PanelShown
<1> QED
  BY <1>5, <1>6 DEF CloudInv

LEMMA CreateReturnsSteps == CloudPageAssumption /\ CloudInv /\ CreateReturns => CloudInv'
<1> SUFFICES ASSUME CloudPageAssumption, CloudInv, CreateReturns PROVE CloudInv'
  OBVIOUS
<1> DEFINE c == Calling("verify", cloud.call.id, cloud.call.ext)
           r == [id |-> cloud.call.id, status |-> "pending", hash |-> cloud.call.ext]
<1>1. /\ cloud \in CloudState /\ aws \in AwsState /\ cloudHist \in CloudCounts
      /\ cloud.call \in CallState
  BY DEF CloudInv, CloudTypes, CloudState
<1>2. /\ cloud' = [cloud EXCEPT !.call = c, !.shown = r]
      /\ aws' = aws /\ cloudHist' = cloudHist /\ cloud.call.op = "create" /\ cloud.call.reply = "ok"
  BY DEF CreateReturns
<1>3. /\ c \in CallState /\ c.op = "verify" /\ c.reply = "none" /\ Pending(c) = 0
      /\ r \in SlotState /\ r.id = cloud.call.id /\ r.hash = cloud.call.ext /\ r.id # 0
  BY <1>1, <1>2, CloudSets DEF Calling, CallState, SlotState, Pending, CloudInv, CloudTypes
<1> HIDE DEF c, r
<1>4. /\ cloud' \in CloudState /\ cloud'.call = c /\ cloud'.shown = r /\ cloud'.load = cloud.load
  BY <1>1, <1>2, <1>3 DEF CloudState
<1>5. CloudTypes'
  <2>1. /\ Pending(cloud.call) \in {0, 1} /\ Pending(aws.late) \in {0, 1} /\ cloudHist.rows \in Nat
        /\ cloudHist.rows + Pending(cloud.call) + Pending(aws.late) <= CloudIds
    BY <1>1, PendingIs, CloudSets DEF CloudCounts, CloudInv, CloudTypes
  <2>2. cloudHist.rows + Pending(c) + Pending(aws.late) <= CloudIds
    BY <1>3, <2>1, CloudSets
  <2> QED
    BY <1>1, <1>2, <1>3, <1>4, <2>2 DEF CloudInv, CloudTypes
<1>6. CallKept' /\ AnswerKept' /\ LoadKept'
  BY <1>1, <1>2, <1>3 DEF CloudInv, CallKept, AnswerKept, LoadKept, CloudState
<1>7. VerifiedKept'
  <2>1. cloud.view = "ready" /\ cloud.shown.status = "none"
    BY <1>2 DEF CloudInv, CallKept, NoRow
  <2>2. ~aws.touched => cloud.feedback # "verified"
    BY <2>1 DEF CloudInv, VerifiedKept
  <2> QED
    BY <1>1, <1>2, <2>2 DEF VerifiedKept, CloudState
<1>8. PanelIdMatches'
  BY <1>1, <1>2, <1>3 DEF CloudInv, CallKept, AnswerKept, PanelIdMatches, PanelShown, CloudState
<1> QED
  BY <1>5, <1>6, <1>7, <1>8 DEF CloudInv

\* The call of the page is over.
LEMMA CallEndsSteps ==
  CloudPageAssumption /\ CloudInv /\ (VerifyReturns \/ DeleteReturns \/ CallFails) => CloudInv'
<1> SUFFICES ASSUME CloudPageAssumption, CloudInv, VerifyReturns \/ DeleteReturns \/ CallFails
             PROVE  CloudInv'
  OBVIOUS
<1>1. cloud \in CloudState /\ aws \in AwsState /\ cloudHist \in CloudCounts
  BY DEF CloudInv, CloudTypes
<1>2. cloudHist.rows + Pending(Idle) + Pending(aws.late) <= CloudIds
  <2>1. /\ Pending(cloud.call) \in {0, 1} /\ Pending(aws.late) \in {0, 1} /\ cloudHist.rows \in Nat
        /\ cloudHist.rows + Pending(cloud.call) + Pending(aws.late) <= CloudIds
    BY <1>1, PendingIs, CloudSets DEF CloudCounts, CloudInv, CloudTypes
  <2> QED
    BY <2>1, PendingIs, CloudSets
<1>3. CASE VerifyReturns
  <2>1. /\ cloud' = [cloud EXCEPT !.open = FALSE, !.feedback = "verified", !.call = Idle,
                                  !.view = "loading", !.load = Unread]
        /\ aws' = aws /\ cloudHist' = cloudHist /\ cloud.call.op = "verify" /\ cloud.call.reply = "ok"
    BY <1>1, <1>3 DEF VerifyReturns, Loading, CloudState
  <2>2. /\ cloud' \in CloudState /\ cloud'.call = Idle /\ cloud'.load = Unread
        /\ cloud'.shown = cloud.shown
    BY <1>1, <2>1, CloudSets, CloudRecords DEF CloudState
  <2>3. CloudTypes'
    BY <1>1, <1>2, <2>1, <2>2 DEF CloudInv, CloudTypes, Idle, Unread
  <2>4. CallKept' /\ AnswerKept' /\ LoadKept' /\ VerifiedKept' /\ PanelIdMatches'
    BY <1>1, <2>1 DEF CloudInv, CallKept, AnswerKept, LoadKept, VerifiedKept, CloudState,
                      PanelIdMatches, PanelShown, Idle, Unread
  <2> QED
    BY <2>3, <2>4 DEF CloudInv
<1>4. CASE DeleteReturns
  <2>1. /\ cloud' = [cloud EXCEPT !.feedback = "removed", !.call = Idle,
                                  !.view = "loading", !.load = Unread]
        /\ aws' = aws /\ cloudHist' = cloudHist /\ cloud.call.op = "delete" /\ cloud.call.reply = "ok"
    BY <1>1, <1>4 DEF DeleteReturns, Loading, CloudState
  <2>2. /\ cloud' \in CloudState /\ cloud'.call = Idle /\ cloud'.load = Unread
        /\ cloud'.shown = cloud.shown
    BY <1>1, <2>1, CloudSets, CloudRecords DEF CloudState
  <2>3. CloudTypes'
    BY <1>1, <1>2, <2>1, <2>2 DEF CloudInv, CloudTypes, Idle, Unread
  <2>4. CallKept' /\ AnswerKept' /\ LoadKept' /\ VerifiedKept' /\ PanelIdMatches'
    BY <1>1, <2>1 DEF CloudInv, CallKept, AnswerKept, LoadKept, VerifiedKept, CloudState,
                      PanelIdMatches, PanelShown, Idle, Unread
  <2> QED
    BY <2>3, <2>4 DEF CloudInv
<1>5. CASE CallFails
  <2>1. PICK f \in Feedbacks :
          /\ f # "verified" \/ f = cloud.feedback
          /\ cloud' = [cloud EXCEPT !.feedback = f, !.busy = FALSE, !.call = Idle]
    <3>1. CASE cloud.call.op = "delete"
      <4>1. cloud' = [cloud EXCEPT !.feedback = "error", !.busy = FALSE, !.call = Idle]
        BY <1>1, <1>5, <3>1 DEF CallFails, Released, CloudState
      <4> QED
        BY <4>1, CloudSets
    <3>2. CASE cloud.call.op # "delete"
      <4>1. cloud' = [cloud EXCEPT !.feedback = cloud.feedback, !.busy = FALSE, !.call = Idle]
        BY <1>1, <1>5, <3>2 DEF CallFails, Released, CloudState
      <4> QED
        BY <1>1, <4>1 DEF CloudState
    <3> QED
      BY <3>1, <3>2
  <2>2. aws' = aws /\ cloudHist' = cloudHist
    BY <1>5 DEF CallFails
  <2>3. /\ cloud' \in CloudState /\ cloud'.call = Idle /\ cloud'.load = cloud.load
        /\ cloud'.shown = cloud.shown
    BY <1>1, <2>1, CloudSets, CloudRecords DEF CloudState
  <2>4. CloudTypes'
    BY <1>1, <1>2, <2>1, <2>2, <2>3 DEF CloudInv, CloudTypes, Idle
  <2>5. CallKept' /\ AnswerKept' /\ LoadKept' /\ VerifiedKept' /\ PanelIdMatches'
    BY <1>1, <2>1, <2>2 DEF CloudInv, CallKept, AnswerKept, LoadKept, VerifiedKept, CloudState,
                            PanelIdMatches, PanelShown, Idle
  <2> QED
    BY <2>4, <2>5 DEF CloudInv
<1> QED
  BY <1>3, <1>4, <1>5

\* What the service makes of a call, whoever made it.
LEMMA AnswerIs ==
  ASSUME CloudPageAssumption, CloudTypes, NEW c \in CallState, c.op # "idle",
         NEW a \in Answer(c), c.op = "create" => cloudHist.rows < CloudIds
  PROVE  /\ a[1] \in SlotState /\ a[2] \in {"ok", "error"}
         /\ a[1].id = 0 => a[1] = NoRow
         /\ a[1].id <= Rows(a[1]) /\ Rows(a[1]) \in Ids
         /\ Rows(a[1]) = cloudHist.rows \/ (c.op = "create" /\ Rows(a[1]) = cloudHist.rows + 1)
         /\ a[2] = "error" => a[1].id = aws.row.id /\ a[1].hash = aws.row.hash
         /\ aws.row.status = "active" /\ c.op # "delete" => a[1] = aws.row
         /\ c.op = "create" /\ a[2] = "ok" => a[1].id # 0 /\ a[1].hash = c.ext
         /\ c.op = "verify" => a[1].id = aws.row.id /\ a[1].hash = aws.row.hash
         /\ c.op = "verify" /\ a[2] = "ok" => a[1].status = "active"
         /\ c.op = "delete" /\ a[2] = "ok" => a[1] = NoRow
<1>1. /\ aws.row \in SlotState /\ aws.row.id <= cloudHist.rows /\ cloudHist.rows \in Ids
      /\ aws.row.id = 0 => aws.row = NoRow
      /\ c.ext \in Hashes /\ NoRow \in SlotState /\ NoRow.id = 0 /\ NoRow.status = "none"
  BY CloudRecords DEF CloudTypes, AwsState, CloudCounts, CallState, NoRow
<1>2. ASSUME NEW r \in SlotState, r.id <= cloudHist.rows
      PROVE  Rows(r) = cloudHist.rows /\ r.id <= Rows(r)
  <2>1. r.id \in Nat /\ cloudHist.rows \in Nat
    BY <1>1, CloudSets DEF SlotState
  <2> QED
    BY <1>2, <2>1 DEF Rows
<1>3. CASE a = <<aws.row, "error">>
  <2>1. a[1] = aws.row /\ a[2] = "error"
    BY <1>3
  <2>2. Rows(a[1]) = cloudHist.rows /\ a[1].id <= Rows(a[1])
    BY <1>1, <1>2, <2>1
  <2> QED
    BY <1>1, <2>1, <2>2
<1>4. CASE c.op = "create" /\ a \in Create(c)
  <2>1. CASE aws.row = NoRow
    <3>1. a = <<[id |-> cloudHist.rows + 1, status |-> "pending", hash |-> c.ext], "ok">>
      BY <1>1, <1>4, <2>1 DEF Create
    <3>2. cloudHist.rows + 1 \in Ids /\ cloudHist.rows + 1 > cloudHist.rows /\ cloudHist.rows + 1 # 0
      <4>1. cloudHist.rows \in Nat /\ cloudHist.rows < CloudIds
        BY <1>1, <1>4, CloudSets
      <4>2. cloudHist.rows + 1 \in Nat /\ cloudHist.rows + 1 <= CloudIds
        BY <4>1, CloudSets
      <4> QED
        BY <4>1, <4>2, CloudSets
    <3>3. /\ a[1] \in SlotState /\ a[1].id = cloudHist.rows + 1 /\ a[1].hash = c.ext /\ a[2] = "ok"
      BY <1>1, <3>1, <3>2, CloudSets DEF SlotState
    <3>4. Rows(a[1]) = cloudHist.rows + 1
      BY <3>2, <3>3 DEF Rows
    <3>5. cloudHist.rows + 1 <= cloudHist.rows + 1
      BY <3>2, CloudSets
    <3> QED
      BY <1>1, <1>4, <2>1, <3>2, <3>3, <3>4, <3>5
  <2>2. CASE aws.row # NoRow /\ aws.row.status = "pending"
    <3>1. a = <<[aws.row EXCEPT !.hash = c.ext], "ok">>
      BY <1>4, <2>2 DEF Create
    <3>2. /\ a[1] \in SlotState /\ a[1].id = aws.row.id /\ a[1].hash = c.ext /\ a[2] = "ok"
      BY <1>1, <3>1 DEF SlotState
    <3>3. Rows(a[1]) = cloudHist.rows /\ a[1].id <= Rows(a[1])
      BY <1>1, <1>2, <3>2
    <3> QED
      BY <1>1, <1>4, <2>2, <3>2, <3>3
  <2>3. CASE aws.row # NoRow /\ aws.row.status # "pending"
    BY <1>4, <2>3 DEF Create
  <2> QED
    BY <2>1, <2>2, <2>3
<1>5. CASE c.op = "verify" /\ a \in Verify(c)
  <2>1. aws.row.status \in {"pending", "failed"}
    BY <1>5 DEF Verify
  <2>2. \/ a = <<[aws.row EXCEPT !.status = "failed"], "error">>
        \/ a = <<[aws.row EXCEPT !.status = "active"], "ok">>
    BY <1>5 DEF Verify
  <2>3. /\ a[1] \in SlotState /\ a[1].id = aws.row.id /\ a[1].hash = aws.row.hash
        /\ a[2] \in {"ok", "error"} /\ (a[2] = "ok" => a[1].status = "active")
    BY <1>1, <2>2, CloudSets DEF SlotState
  <2>4. aws.row # NoRow
    BY <2>1 DEF NoRow
  <2>5. Rows(a[1]) = cloudHist.rows /\ a[1].id <= Rows(a[1])
    BY <1>1, <1>2, <2>3
  <2> QED
    BY <1>1, <1>5, <2>1, <2>3, <2>4, <2>5
<1>6. CASE c.op = "delete" /\ a \in Delete(c)
  <2>1. a = <<NoRow, "ok">>
    BY <1>6 DEF Delete
  <2>2. a[1] = NoRow /\ a[2] = "ok"
    BY <2>1
  <2>3. NoRow.id <= cloudHist.rows
    BY <1>1, CloudSets
  <2>4. Rows(a[1]) = cloudHist.rows /\ a[1].id <= Rows(a[1])
    BY <1>1, <1>2, <2>2, <2>3
  <2> QED
    BY <1>1, <1>6, <2>2, <2>4
<1> QED
  <2>1. c.op \in {"create", "verify", "delete"}
    BY DEF CallState, Calls
  <2> QED
    BY <1>3, <1>4, <1>5, <1>6, <2>1 DEF Answer, NoWorkspace

LEMMA AppliedSteps == CloudPageAssumption /\ CloudInv /\ Applied => CloudInv'
<1> SUFFICES ASSUME CloudPageAssumption, CloudInv, Applied PROVE CloudInv'
  OBVIOUS
<1> DEFINE c == cloud.call
<1>1. /\ cloud \in CloudState /\ aws \in AwsState /\ cloudHist \in CloudCounts
      /\ c \in CallState /\ c.op # "idle" /\ c.reply = "none" /\ cloudHist.rows \in Nat
      /\ cloud.view = "ready"
  BY CloudSets DEF CloudInv, CloudTypes, CloudState, CloudCounts, CallKept, Applied
<1>2. /\ cloudHist.rows + Pending(c) + Pending(aws.late) <= CloudIds
      /\ Pending(c) \in {0, 1} /\ Pending(aws.late) \in {0, 1}
      /\ c.op = "create" => Pending(c) = 1
  BY <1>1, PendingIs DEF CloudInv, CloudTypes, Pending
<1>3. c.op = "create" => cloudHist.rows < CloudIds
  BY <1>1, <1>2, CloudSets
<1>4. PICK a \in Answer(c) :
        /\ aws' = [aws EXCEPT !.row = a[1]]
        /\ cloud' = [cloud EXCEPT !.call.reply = a[2],
                                  !.call.id = IF cloud.call.op = "create" THEN a[1].id ELSE @]
        /\ cloudHist' = [cloudHist EXCEPT !.rows = Rows(a[1])]
  BY DEF Applied
<1> DEFINE i == IF c.op = "create" THEN a[1].id ELSE c.id
           d == [c EXCEPT !.reply = a[2], !.id = i]
<1>5. /\ a[1] \in SlotState /\ a[2] \in {"ok", "error"}
      /\ a[1].id = 0 => a[1] = NoRow
      /\ a[1].id <= Rows(a[1]) /\ Rows(a[1]) \in Ids
      /\ Rows(a[1]) = cloudHist.rows \/ (c.op = "create" /\ Rows(a[1]) = cloudHist.rows + 1)
      /\ a[2] = "error" => a[1].id = aws.row.id /\ a[1].hash = aws.row.hash
      /\ aws.row.status = "active" /\ c.op # "delete" => a[1] = aws.row
      /\ c.op = "create" /\ a[2] = "ok" => a[1].id # 0 /\ a[1].hash = c.ext
      /\ c.op = "verify" => a[1].id = aws.row.id /\ a[1].hash = aws.row.hash
      /\ c.op = "verify" /\ a[2] = "ok" => a[1].status = "active"
      /\ c.op = "delete" /\ a[2] = "ok" => a[1] = NoRow
  BY <1>1, <1>3, AnswerIs DEF CloudInv
<1>6. /\ d \in CallState /\ d.op = c.op /\ d.ext = c.ext /\ d.reply = a[2] /\ d.id = i
      /\ c.op = "create" => i = a[1].id
  <2>1. i \in Ids /\ a[2] \in Answers
    BY <1>1, <1>5, CloudSets DEF CallState, SlotState
  <2> HIDE DEF i
  <2>2. d \in CallState /\ d.op = c.op /\ d.ext = c.ext /\ d.reply = a[2] /\ d.id = i
    BY <1>1, <2>1 DEF CallState
  <2>3. c.op = "create" => i = a[1].id
    BY DEF i
  <2> QED
    BY <2>2, <2>3
<1>7. cloud' = [cloud EXCEPT !.call = d]
  BY <1>1, <1>4 DEF CloudState, CallState
<1>8. Pending(d) = 0
  BY <1>5, <1>6 DEF Pending
<1> HIDE DEF d, i
<1>9. /\ cloud' \in CloudState /\ cloud'.call = d /\ cloud'.shown = cloud.shown
      /\ cloud'.load = cloud.load
  BY <1>1, <1>6, <1>7 DEF CloudState
<1>10. /\ aws' \in AwsState /\ aws'.row = a[1] /\ aws'.late = aws.late /\ aws'.touched = aws.touched
       /\ cloudHist' \in CloudCounts /\ cloudHist'.rows = Rows(a[1])
  BY <1>1, <1>4, <1>5 DEF AwsState, CloudCounts
<1>11. CloudTypes'
  <2>1. Rows(a[1]) + Pending(d) + Pending(aws.late) <= CloudIds
    <3>1. CASE Rows(a[1]) = cloudHist.rows
      BY <1>1, <1>2, <1>8, <3>1, CloudSets
    <3>2. CASE c.op = "create" /\ Rows(a[1]) = cloudHist.rows + 1
      BY <1>1, <1>2, <1>8, <3>2, CloudSets
    <3> QED
      BY <1>5, <3>1, <3>2
  <2> QED
    BY <1>5, <1>6, <1>9, <1>10, <2>1 DEF CloudInv, CloudTypes
<1>12. CallKept' /\ AnswerKept'
  BY <1>1, <1>5, <1>6, <1>7, <1>10 DEF CloudInv, CallKept, AnswerKept, CloudState
<1>13. LoadKept'
  BY <1>1, <1>7 DEF LoadKept, CloudState
<1>14. VerifiedKept'
  BY <1>1, <1>5, <1>7, <1>10 DEF CloudInv, CallKept, VerifiedKept, CloudState
<1>15. PanelIdMatches'
  <2>1. CASE c.op = "delete" /\ a[2] = "ok"
    <3>1. aws'.row.id = 0
      BY <1>5, <1>10, <2>1 DEF NoRow
    <3>2. cloud'.shown # NoRow => cloud'.shown.id # 0
      BY <1>9 DEF CloudInv, CloudTypes
    <3> QED
      BY <3>1, <3>2 DEF PanelIdMatches
  <2>2. CASE c.op = "create"
    BY <1>9, <2>2 DEF CloudInv, CallKept, PanelIdMatches
  <2>3. CASE c.op = "verify" \/ a[2] = "error"
    BY <1>1, <1>5, <1>7, <1>10, <2>3 DEF CloudInv, PanelIdMatches, PanelShown, CloudState
  <2> QED
    <3>1. c.op \in {"create", "verify", "delete"}
      BY <1>1 DEF CallState, Calls
    <3> QED
      BY <1>5, <2>1, <2>2, <2>3, <3>1
<1> QED
  BY <1>11, <1>12, <1>13, <1>14, <1>15 DEF CloudInv

\* Somebody else changes the row: nothing but the numbers is kept of it.
LEMMA TouchedSteps ==
  CloudPageAssumption /\ CloudInv /\ (AppliedLate \/ OtherAdmin) => CloudInv'
<1> SUFFICES ASSUME CloudPageAssumption, CloudInv, AppliedLate \/ OtherAdmin PROVE CloudInv'
  OBVIOUS
<1>1. /\ cloud \in CloudState /\ aws \in AwsState /\ cloudHist \in CloudCounts
      /\ cloudHist.rows \in Nat /\ aws.late \in CallState
  BY CloudSets DEF CloudInv, CloudTypes, CloudCounts, AwsState
<1>2. /\ cloudHist.rows + Pending(cloud.call) + Pending(aws.late) <= CloudIds
      /\ Pending(cloud.call) \in {0, 1} /\ Pending(aws.late) \in {0, 1}
  BY PendingIs DEF CloudInv, CloudTypes
<1>3. PICK r \in SlotState, l \in CallState, n \in Ids :
        /\ aws'.row = r /\ aws'.late = l /\ aws'.touched /\ aws' \in AwsState /\ cloud' = cloud
        /\ cloudHist' \in CloudCounts /\ cloudHist'.rows = n
        /\ (r.id = 0 => r = NoRow) /\ r.id <= n /\ l.reply = "none"
        /\ n + Pending(cloud.call) + Pending(l) <= CloudIds
  <2>1. CASE AppliedLate
    <3>1. PICK a \in Answer(aws.late) :
            /\ aws' = [aws EXCEPT !.row = a[1], !.late = Idle, !.touched = TRUE]
            /\ cloudHist' = [cloudHist EXCEPT !.rows = Rows(a[1])]
      BY <2>1 DEF AppliedLate
    <3>2. /\ cloud' = cloud /\ aws.late.op # "idle" /\ aws.late.reply = "none"
          /\ aws.late.op = "create" => Pending(aws.late) = 1
      BY <2>1 DEF AppliedLate, CloudInv, CloudTypes, Pending
    <3>3. aws.late.op = "create" => cloudHist.rows < CloudIds
      BY <1>1, <1>2, <3>2, CloudSets
    <3>4. /\ a[1] \in SlotState /\ (a[1].id = 0 => a[1] = NoRow)
          /\ a[1].id <= Rows(a[1]) /\ Rows(a[1]) \in Ids
          /\ \/ Rows(a[1]) = cloudHist.rows
             \/ aws.late.op = "create" /\ Rows(a[1]) = cloudHist.rows + 1
      BY <1>1, <3>2, <3>3, AnswerIs DEF CloudInv
    <3>5. Rows(a[1]) + Pending(cloud.call) + Pending(Idle) <= CloudIds
      <4>1. CASE Rows(a[1]) = cloudHist.rows
        BY <1>1, <1>2, <4>1, CloudSets, PendingIs
      <4>2. CASE aws.late.op = "create" /\ Rows(a[1]) = cloudHist.rows + 1
        BY <1>1, <1>2, <3>2, <4>2, CloudSets, PendingIs
      <4> QED
        BY <3>4, <4>1, <4>2
    <3>6. /\ aws' \in AwsState /\ aws'.row = a[1] /\ aws'.late = Idle /\ aws'.touched
          /\ cloudHist' \in CloudCounts /\ cloudHist'.rows = Rows(a[1])
      BY <1>1, <3>1, <3>4, CloudRecords DEF AwsState, CloudCounts
    <3>7. Idle.reply = "none" /\ Idle \in CallState
      BY CloudRecords DEF Idle
    <3> QED
      BY <3>2, <3>4, <3>5, <3>6, <3>7
  <2>2. CASE OtherAdmin
    <3>0. PICK op \in {"create", "delete"} :
            \E a \in Answer([op |-> op, id |-> aws.row.id, ext |-> Foreign, reply |-> "none"]) :
              /\ a[2] = "ok" /\ (op = "create" => MayInsert)
              /\ aws' = [aws EXCEPT !.row = a[1], !.touched = TRUE]
              /\ cloudHist' = [cloudHist EXCEPT !.rows = Rows(a[1]), !.faults = @ + 1]
      BY <2>2 DEF OtherAdmin
    <3>1. PICK a \in Answer([op |-> op, id |-> aws.row.id, ext |-> Foreign, reply |-> "none"]) :
            /\ op = "create" => MayInsert
            /\ aws' = [aws EXCEPT !.row = a[1], !.touched = TRUE]
            /\ cloudHist' = [cloudHist EXCEPT !.rows = Rows(a[1]), !.faults = @ + 1]
      BY <3>0
    <3> DEFINE q == [op |-> op, id |-> aws.row.id, ext |-> Foreign, reply |-> "none"]
    <3>2. q \in CallState /\ q.op # "idle" /\ q.op = op
      <4>1. aws.row.id \in Ids /\ Foreign \in Hashes /\ op \in Calls
        BY <1>1, CloudSets DEF AwsState, SlotState, Foreign, Hashes
      <4> QED
        BY <4>1, CloudSets DEF CallState
    <3>3. a \in Answer(q)
      BY <3>1
    <3> HIDE DEF q
    <3>4. op = "create" => cloudHist.rows + Pending(cloud.call) + Pending(aws.late) < CloudIds
      <4>1. MayInsert => cloudHist.rows + (IF cloud.call.op = "create" THEN 1 ELSE 0)
                           + (IF aws.late.op = "create" THEN 1 ELSE 0) < CloudIds
        BY DEF MayInsert
      <4> QED
        BY <1>1, <3>1, <4>1, CloudSets DEF Pending
    <3>5. op = "create" => cloudHist.rows < CloudIds
      BY <1>1, <1>2, <3>4, CloudSets
    <3>6. /\ a[1] \in SlotState /\ (a[1].id = 0 => a[1] = NoRow)
          /\ a[1].id <= Rows(a[1]) /\ Rows(a[1]) \in Ids
          /\ \/ Rows(a[1]) = cloudHist.rows
             \/ op = "create" /\ Rows(a[1]) = cloudHist.rows + 1
      BY <3>2, <3>3, <3>5, AnswerIs DEF CloudInv
    <3>7. Rows(a[1]) + Pending(cloud.call) + Pending(aws.late) <= CloudIds
      <4>1. CASE Rows(a[1]) = cloudHist.rows
        BY <1>2, <4>1
      <4>2. CASE op = "create" /\ Rows(a[1]) = cloudHist.rows + 1
        BY <1>1, <1>2, <3>4, <4>2, CloudSets
      <4> QED
        BY <3>6, <4>1, <4>2
    <3>8. cloudHist.faults + 1 \in Nat
      BY <1>1 DEF CloudCounts
    <3>9. /\ aws' \in AwsState /\ aws'.row = a[1] /\ aws'.late = aws.late /\ aws'.touched
          /\ cloudHist' \in CloudCounts /\ cloudHist'.rows = Rows(a[1])
      BY <1>1, <3>1, <3>6, <3>8 DEF AwsState, CloudCounts
    <3>10. cloud' = cloud /\ aws.late.reply = "none"
      BY <2>2 DEF OtherAdmin, CloudInv, CloudTypes
    <3> QED
      BY <1>1, <3>6, <3>7, <3>9, <3>10
  <2> QED
    BY <2>1, <2>2
<1>4. CloudTypes'
  BY <1>1, <1>3 DEF CloudInv, CloudTypes
<1>5. CallKept' /\ AnswerKept' /\ VerifiedKept' /\ LoadKept' /\ PanelIdMatches'
  BY <1>3 DEF CloudInv, CallKept, AnswerKept, VerifiedKept, LoadKept, PanelIdMatches
<1> QED
  BY <1>4, <1>5 DEF CloudInv

LEMMA LostSteps == CloudPageAssumption /\ CloudInv /\ Lost => CloudInv'
<1> SUFFICES ASSUME CloudPageAssumption, CloudInv, Lost PROVE CloudInv'
  OBVIOUS
<1> DEFINE l == IF cloud.call.reply = "none" THEN cloud.call ELSE aws.late
           d == [cloud.call EXCEPT !.reply = "error"]
<1>1. /\ cloud \in CloudState /\ aws \in AwsState /\ cloudHist \in CloudCounts
      /\ cloud.call \in CallState /\ aws.late \in CallState /\ cloudHist.rows \in Nat
      /\ cloudHist.faults + 1 \in Nat
  BY CloudSets DEF CloudInv, CloudTypes, CloudState, CloudCounts, AwsState
<1>2. /\ cloud' = [cloud EXCEPT !.call = d] /\ aws' = [aws EXCEPT !.late = l]
      /\ cloudHist' = [cloudHist EXCEPT !.faults = @ + 1]
  BY <1>1 DEF Lost, CloudState
<1>3. /\ d \in CallState /\ d.op = cloud.call.op /\ d.ext = cloud.call.ext /\ d.reply = "error"
      /\ Pending(d) = 0
  BY <1>1, CloudSets DEF CallState, Pending
<1>4. /\ l \in CallState /\ l.reply = "none"
      /\ Pending(l) \in {0, 1} /\ (Pending(l) = 0 \/ Pending(l) = Pending(cloud.call)
                                   \/ Pending(l) = Pending(aws.late))
  BY <1>1, PendingIs DEF CloudInv, CloudTypes
<1> HIDE DEF l, d
<1>5. cloudHist.rows + Pending(d) + Pending(l) <= CloudIds
  <2>1. /\ cloudHist.rows + Pending(cloud.call) + Pending(aws.late) <= CloudIds
        /\ Pending(cloud.call) \in {0, 1} /\ Pending(aws.late) \in {0, 1}
    BY PendingIs DEF CloudInv, CloudTypes
  <2> QED
    BY <1>1, <1>3, <1>4, <2>1, CloudSets
<1>6. /\ cloud' \in CloudState /\ cloud'.call = d /\ cloud'.shown = cloud.shown
      /\ cloud'.load = cloud.load
      /\ aws' \in AwsState /\ aws'.row = aws.row /\ aws'.late = l /\ aws'.touched = aws.touched
      /\ cloudHist' \in CloudCounts /\ cloudHist'.rows = cloudHist.rows
  BY <1>1, <1>2, <1>3, <1>4 DEF CloudState, AwsState, CloudCounts
<1>7. CloudTypes'
  BY <1>3, <1>4, <1>5, <1>6 DEF CloudInv, CloudTypes
<1>8. CallKept' /\ AnswerKept' /\ VerifiedKept' /\ LoadKept' /\ PanelIdMatches'
  BY <1>1, <1>2, <1>3, <1>6 DEF CloudInv, CallKept, AnswerKept, VerifiedKept, LoadKept, CloudState,
                                PanelIdMatches, PanelShown
<1> QED
  BY <1>7, <1>8 DEF CloudInv

\* A page that was just opened, by the first load or another one.
LEMMA OpenedIs ==
  ASSUME CloudPageAssumption, NEW b \in BOOLEAN, NEW f \in BOOLEAN
  PROVE  /\ Opened(b, f) \in CloudState /\ Opened(b, f).view = "loading"
         /\ Opened(b, f).call = Idle /\ Opened(b, f).load = Unread /\ Opened(b, f).shown = NoRow
         /\ Opened(b, f).feedback = "none" /\ Opened(b, f).open = FALSE
BY CloudSets, CloudRecords DEF Opened, CloudState

LEMMA OpenedKeeps ==
  ASSUME CloudPageAssumption, NEW b \in BOOLEAN, NEW f \in BOOLEAN, cloud = Opened(b, f), CloudTypes
  PROVE  CloudInv
<1>1. /\ cloud.view = "loading" /\ cloud.call = Idle /\ cloud.feedback = "none"
      /\ cloud.open = FALSE
  BY OpenedIs
<1>2. CallKept /\ AnswerKept /\ VerifiedKept /\ LoadKept /\ PanelIdMatches
  BY <1>1 DEF CallKept, AnswerKept, VerifiedKept, LoadKept, PanelIdMatches, PanelShown, Idle
<1> QED
  BY <1>2 DEF CloudInv

LEMMA ReloadSteps == CloudPageAssumption /\ CloudInv /\ Reload => CloudInv'
<1> SUFFICES ASSUME CloudPageAssumption, CloudInv, Reload PROVE CloudInv'
  OBVIOUS
<1> DEFINE l == IF cloud.call.op # "idle" /\ cloud.call.reply = "none" THEN cloud.call ELSE aws.late
<1>1. /\ cloud \in CloudState /\ aws \in AwsState /\ cloudHist \in CloudCounts
      /\ cloud.call \in CallState /\ aws.late \in CallState /\ cloudHist.rows \in Nat
      /\ cloud.configured \in BOOLEAN
  BY CloudSets DEF CloudInv, CloudTypes, CloudState, CloudCounts, AwsState
<1>2. PICK b \in BOOLEAN : cloud' = Opened(b, cloud.configured)
  BY DEF Reload
<1>3. aws' = [aws EXCEPT !.touched = FALSE, !.late = l] /\ cloudHist' = cloudHist
  BY DEF Reload
<1>4. /\ l \in CallState /\ l.reply = "none"
      /\ Pending(l) \in {0, 1} /\ (Pending(l) = Pending(cloud.call) \/ Pending(l) = Pending(aws.late))
  BY <1>1, PendingIs DEF CloudInv, CloudTypes
<1> HIDE DEF l
<1>5. cloudHist.rows + Pending(Idle) + Pending(l) <= CloudIds
  <2>1. /\ cloudHist.rows + Pending(cloud.call) + Pending(aws.late) <= CloudIds
        /\ Pending(cloud.call) \in {0, 1} /\ Pending(aws.late) \in {0, 1}
    BY PendingIs DEF CloudInv, CloudTypes
  <2> QED
    BY <1>1, <1>4, <2>1, CloudSets, PendingIs
<1>6. aws' \in AwsState /\ aws'.row = aws.row /\ aws'.late = l /\ aws'.touched = FALSE
  BY <1>1, <1>3, <1>4 DEF AwsState
<1>7. /\ cloud' \in CloudState /\ cloud'.view = "loading" /\ cloud'.call = Idle
      /\ cloud'.load = Unread /\ cloud'.shown = NoRow /\ cloud'.feedback = "none"
      /\ cloud'.open = FALSE
  BY <1>1, <1>2, OpenedIs
<1>8. CloudTypes'
  BY <1>1, <1>3, <1>4, <1>5, <1>6, <1>7 DEF CloudInv, CloudTypes, Idle, Unread
<1>9. CallKept' /\ AnswerKept' /\ VerifiedKept' /\ LoadKept' /\ PanelIdMatches'
  BY <1>7 DEF CallKept, AnswerKept, VerifiedKept, LoadKept, PanelIdMatches, PanelShown,
              Idle, Unread
<1> QED
  BY <1>8, <1>9 DEF CloudInv

LEMMA CloudInitHolds == CloudPageAssumption /\ CloudInit => CloudInv
<1> SUFFICES ASSUME CloudPageAssumption, CloudInit PROVE CloudInv
  OBVIOUS
<1>1. PICK b \in BOOLEAN, f \in BOOLEAN : cloud = Opened(b, f)
  BY DEF CloudInit
<1>2. /\ cloud \in CloudState /\ cloud.call = Idle /\ cloud.load = Unread /\ cloud.shown = NoRow
  BY <1>1, OpenedIs
<1>3. /\ aws \in AwsState /\ aws.row = NoRow /\ aws.late = Idle
      /\ cloudHist \in CloudCounts /\ cloudHist.rows = 0
  BY CloudSets, CloudRecords DEF CloudInit, AwsState, CloudCounts
<1>4. NoRow.id <= 0 /\ 0 + Pending(Idle) + Pending(Idle) <= CloudIds
  BY CloudSets, PendingIs DEF NoRow
<1>5. CloudTypes
  BY <1>2, <1>3, <1>4 DEF CloudTypes, Idle, Unread
<1> QED
  BY <1>1, <1>5, OpenedKeeps

LEMMA CloudStep == CloudPageAssumption /\ CloudInv /\ [CloudNext]_cloudVars => CloudInv'
<1> SUFFICES ASSUME CloudPageAssumption, CloudInv, [CloudNext]_cloudVars PROVE CloudInv'
  OBVIOUS
<1>1. CASE UNCHANGED cloudVars
  BY <1>1 DEF cloudVars, CloudInv, CloudTypes, CallKept, AnswerKept, VerifiedKept, LoadKept,
              PanelIdMatches, PanelShown
<1>2. CASE CloudReplies
  BY <1>2, ListReadSteps, CapabilitiesReadSteps, LoadEndsSteps, AppliedSteps, CreateReturnsSteps,
     CallEndsSteps DEF CloudReplies
<1>3. CASE LoadFails \/ RetryLoad \/ Lost \/ Connect \/ AutoConnect \/ OpenVerify
  BY <1>3, LoadEndsSteps, RetryLoadSteps, LostSteps, ConnectSteps
<1>4. CASE TypeExternalId \/ Cancel \/ DeployStack \/ DismissFeedback
  BY <1>4, PanelSteps
<1>5. CASE handleVerify \/ handleDelete \/ AppliedLate \/ OtherAdmin \/ Reload
  BY <1>5, handleVerifySteps, handleDeleteSteps, TouchedSteps, ReloadSteps
<1> QED
  BY <1>1, <1>2, <1>3, <1>4, <1>5 DEF CloudNext

\* What the cloud page says of the account is true, and the external id it
\* carries is the one the server compares, over failures, reopenings, late calls
\* and other admins.
THEOREM CloudKept == WebSpec => []CloudPageInv
<1>1. WebInit => CloudInv
  BY CloudInitHolds, CloudPageAssumption DEF WebInit
<1>2. [WebNext]_webVars => [CloudNext]_cloudVars
  BY DEF WebNext, On, webVars
<1>3. CloudInv /\ [WebNext]_webVars => CloudInv'
  BY <1>2, CloudStep, CloudPageAssumption
<1>4. CloudInv => CloudPageInv
  <2> SUFFICES ASSUME CloudInv PROVE CloudPageInv
    OBVIOUS
  <2>1. CloudTypeOK
    BY DEF CloudInv, CloudTypes, CloudState, CallState, AwsState, SlotState, CloudTypeOK, CloudRow,
           Ids, Hashes, Views, Statuses, Calls, Feedbacks
  <2>2. FeedbackTrue /\ PanelIdMatches
    BY DEF CloudInv, VerifiedKept, FeedbackTrue
  <2> QED
    BY <2>1, <2>2 DEF CloudPageInv
<1> QED
  BY <1>1, <1>3, <1>4, PTL DEF WebSpec

----------------------------------------------------------------------------
(* The widgets that answer a run: ClarifyPage                              *)

\* An engine and its version, a custom one without.
Selection(s) ==
  /\ DOMAIN s = 1..3 /\ s = <<s[1], s[2], s[3]>>
  /\ \/ s[2] = NoText /\ s[3] = "custom"
     \/ s[2] \in {"1", "2"} /\ s[3] = "listed"

\* A call of this widget: the question is asked with one key and, once it was
\* submitted, with one answer; the key of an engine is made of the engine, which
\* some payload has offered.
Own(c) ==
  \/ /\ ask.kind = "question" /\ ask.phase # "idle"
     /\ c.key = <<"question">> /\ c.answer = ask.last
  \/ /\ ask.kind = "engine" /\ Selection(c.answer)
     /\ c.answer[3] = "custom" \/ c.answer \in sent.offered
     /\ c.key = engineSelectionQuestionId(c.answer)

Phases   == {"idle", "pending", "error"}
Progress == {"none", "token", "sent", "refused", "failed"}

WidgetShape ==
  ask = [kind |-> ask.kind, input |-> ask.input, required |-> ask.required,
         value |-> ask.value, data |-> ask.data, key |-> ask.key,
         custom |-> ask.custom, phase |-> ask.phase, last |-> ask.last, call |-> ask.call]

WidgetTypes ==
  /\ WidgetShape
  /\ ask.call = [key |-> ask.call.key, answer |-> ask.call.answer, at |-> ask.call.at]
  /\ ask.kind \in {"question", "engine"} /\ ask.phase \in Phases /\ ask.call.at \in Progress
  /\ ask.call.at = "none" => ask.call = NoCall
  /\ ask.phase = "pending" <=> ask.call.at # "none"
  /\ ask.data \in Payloads

\* What was sent last is what a retry sends.
LastSent ==
  ask.phase # "idle" =>
    IF ask.kind = "question" THEN ask.last # Null \/ ask.last = ask.value
    ELSE Selection(ask.last) /\ (ask.last[3] = "custom" \/ ask.last \in sent.offered)

KeyOffered == ask.key \in {o[1] : o \in sent.offered} \cup {NoText, CUSTOM_KEY}

\* What is in view has been offered, and every call is one of the widget.
SentKept ==
  /\ sent = [calls |-> sent.calls, offered |-> sent.offered, payloads |-> sent.payloads]
  /\ sent.payloads \in 1..MaxPayloads
  /\ Offered(ask.data) \subseteq sent.offered
  /\ \A c \in sent.calls : Own(c)

ClarifyInv == WidgetTypes /\ LastSent /\ (ask.kind = "engine" => KeyOffered) /\ SentKept

\* The key of an engine is another one for every engine and version.
LEMMA KeysDiffer ==
  \A s, t : Selection(s) /\ Selection(t) /\ engineSelectionQuestionId(s) = engineSelectionQuestionId(t)
              => s = t
<1> SUFFICES ASSUME NEW s, NEW t, Selection(s), Selection(t),
                    engineSelectionQuestionId(s) = engineSelectionQuestionId(t)
             PROVE  s = t
  OBVIOUS
<1>1. s[1] = t[1] /\ s[2] = t[2]
  BY DEF engineSelectionQuestionId
<1>2. s[3] = t[3]
  <2>1. NoText # "1" /\ NoText # "2"
    BY DEF NoText
  <2> QED
    BY <1>1, <2>1 DEF Selection
<1>3. s = <<s[1], s[2], s[3]>> /\ t = <<t[1], t[2], t[3]>>
  BY DEF Selection
<1> QED
  BY <1>1, <1>2, <1>3

\* A supported engine of a payload is one that the payload offers.
LEMMA OfferedIs ==
  ASSUME NEW d \in Payloads, NEW e \in Supported(d)
  PROVE  <<e, d[e], "listed">> \in Offered(d) /\ Selection(<<e, d[e], "listed">>)
<1>1. d[e] \in {"1", "2"}
  BY DEF Payloads, Supported
<1>2. Selection(<<e, d[e], "listed">>)
  BY <1>1 DEF Selection
<1>3. <<e, d[e], "listed">> \in Offered(d)
  BY DEF Offered
<1> QED
  BY <1>2, <1>3

\* What is selected is an engine that is offered or a custom one.
LEMMA currentSelectionIs ==
  ASSUME ask.data \in Payloads, currentSelection # Null
  PROVE  /\ Selection(currentSelection)
         /\ currentSelection[3] = "custom" \/ currentSelection \in Offered(ask.data)
<1>1. \/ currentSelection = <<ask.custom, NoText, "custom">>
      \/ /\ currentSelection = <<ask.key, ask.data[ask.key], "listed">>
         /\ ask.key \in Supported(ask.data)
  BY DEF currentSelection
<1>2. CASE currentSelection = <<ask.custom, NoText, "custom">>
  BY <1>2 DEF Selection
<1>3. CASE /\ currentSelection = <<ask.key, ask.data[ask.key], "listed">>
           /\ ask.key \in Supported(ask.data)
  BY <1>3, OfferedIs
<1> QED
  BY <1>1, <1>2, <1>3

\* Every radio that can be chosen is an engine that is offered, or the custom one.
LEMMA enabledKeysAre ==
  /\ \E n \in 1..3 : DOMAIN enabledKeys = 1..n /\ Len(enabledKeys) = n
  /\ \A i \in DOMAIN enabledKeys : enabledKeys[i] \in Supported(ask.data) \cup {CUSTOM_KEY}
<1> DEFINE S == Supported(ask.data) \cup {CUSTOM_KEY}
<1>1. ASSUME NEW e PROVE Enabled(e) \in Seq(S) /\ Len(Enabled(e)) \in 0..1
  <2>1. CASE e \in Supported(ask.data)
    <3>1. Enabled(e) = <<e>> /\ e \in S
      BY <2>1 DEF Enabled
    <3> QED
      BY <3>1
  <2>2. CASE e \notin Supported(ask.data)
    BY <2>2 DEF Enabled
  <2> QED
    BY <2>1, <2>2
<1>2. <<CUSTOM_KEY>> \in Seq(S) /\ Len(<<CUSTOM_KEY>>) = 1
  OBVIOUS
<1> HIDE DEF S
<1> DEFINE t == Enabled("postgres") \o Enabled("mysql")
<1>3. t \in Seq(S) /\ Len(t) = Len(Enabled("postgres")) + Len(Enabled("mysql"))
  BY <1>1, ConcatProperties
<1>4. Len(Enabled("postgres")) \in 0..1 /\ Len(Enabled("mysql")) \in 0..1
  BY <1>1
<1>5. enabledKeys = t \o <<CUSTOM_KEY>>
  BY DEF enabledKeys
<1> HIDE DEF t
<1>6. enabledKeys \in Seq(S) /\ Len(enabledKeys) = Len(t) + 1
  BY <1>2, <1>3, <1>5, ConcatProperties
<1>7. Len(enabledKeys) \in 1..3
  <2>1. ASSUME NEW i \in 0..1, NEW j \in 0..1 PROVE i + j + 1 \in 1..3
    OBVIOUS
  <2>2. Len(enabledKeys) = Len(Enabled("postgres")) + Len(Enabled("mysql")) + 1
    BY <1>3, <1>6
  <2> QED
    BY <1>4, <2>1, <2>2
<1>8. DOMAIN enabledKeys = 1..Len(enabledKeys) /\ \A i \in DOMAIN enabledKeys : enabledKeys[i] \in S
  BY <1>6
<1> QED
  BY <1>7, <1>8 DEF S

\* A step that sends nothing and keeps what was sent keeps the invariant.
LEMMA WidgetMoves ==
  ASSUME ClarifyInv, sent' = sent, WidgetTypes', ask'.kind = ask.kind, ask'.data = ask.data,
         ask'.last = ask.last,
         \/ ask'.phase = ask.phase
         \/ ask'.phase = "idle" /\ ask.kind = "engine"
         \/ ask.phase # "idle" /\ ask'.phase # "idle",
         ask'.value = ask.value \/ ask'.phase = "idle",
         ask.kind = "engine" => ask'.key \in {ask.key, CUSTOM_KEY} \cup Supported(ask.data)
  PROVE  ClarifyInv'
<1>1. \A c : Own(c) => Own(c)'
  BY DEF Own, engineSelectionQuestionId, Selection, ClarifyInv, WidgetTypes
<1>2. LastSent'
  BY DEF ClarifyInv, LastSent, Selection, WidgetTypes
<1>3. ASSUME ask.kind = "engine", ask'.key \in Supported(ask.data)
      PROVE  ask'.key \in {o[1] : o \in sent.offered}
  <2>1. <<ask'.key, ask.data[ask'.key], "listed">> \in sent.offered
    BY <1>3, OfferedIs DEF ClarifyInv, WidgetTypes, SentKept
  <2> QED
    BY <2>1
<1>4. ask'.kind = "engine" => KeyOffered'
  BY <1>3 DEF ClarifyInv, KeyOffered
<1>5. SentKept'
  BY <1>1 DEF ClarifyInv, SentKept
<1> QED
  BY <1>2, <1>4, <1>5 DEF ClarifyInv

\* A call is sent under the key of its answer, by a widget that is not waiting.
LEMMA Sending ==
  ASSUME ClarifyInv, NEW key, NEW answer, Send(key, answer), ask.phase \in {"idle", "error"},
         ask.kind = "question" =>
           /\ key = <<"question">> /\ (ask.phase = "idle" \/ answer = ask.last)
           /\ answer # Null \/ answer = ask.value,
         ask.kind = "engine" =>
           /\ Selection(answer) /\ key = engineSelectionQuestionId(answer)
           /\ answer[3] = "custom" \/ answer \in sent.offered
  PROVE  ClarifyInv'
<1> DEFINE call == [key |-> key, answer |-> answer, at |-> "token"]
           c0   == [key |-> key, answer |-> answer]
<1>1. /\ sent' = [sent EXCEPT !.calls = @ \cup {c0}]
      /\ ask' = [ask EXCEPT !.phase = "pending", !.last = answer, !.call = call]
  BY DEF Send
<1>2. call.key = key /\ call.answer = answer /\ call.at = "token" /\ c0.key = key /\ c0.answer = answer
      /\ call = [key |-> call.key, answer |-> call.answer, at |-> call.at]
  OBVIOUS
<1> HIDE DEF call, c0
<1>3. /\ ask'.kind = ask.kind /\ ask'.phase = "pending" /\ ask'.last = answer /\ ask'.call = call
      /\ ask'.value = ask.value /\ ask'.key = ask.key /\ ask'.data = ask.data /\ WidgetShape'
  BY <1>1 DEF ClarifyInv, WidgetTypes, WidgetShape
<1>4. /\ sent'.calls = sent.calls \cup {c0} /\ sent'.offered = sent.offered
      /\ sent'.payloads = sent.payloads
      /\ sent' = [calls |-> sent'.calls, offered |-> sent'.offered, payloads |-> sent'.payloads]
  BY <1>1 DEF ClarifyInv, SentKept
<1>5. WidgetTypes'
  BY <1>2, <1>3 DEF ClarifyInv, WidgetTypes, Phases, Progress
<1>6. \A c : Own(c) => Own(c)'
  BY <1>3, <1>4 DEF Own, engineSelectionQuestionId, Selection
<1>7. Own(c0)'
  BY <1>2, <1>3, <1>4 DEF Own, engineSelectionQuestionId, Selection, ClarifyInv, WidgetTypes
<1>8. LastSent'
  BY <1>3, <1>4 DEF LastSent, Selection, ClarifyInv, WidgetTypes
<1>9. ask'.kind = "engine" => KeyOffered'
  BY <1>3, <1>4 DEF ClarifyInv, KeyOffered
<1>10. SentKept'
  BY <1>3, <1>4, <1>6, <1>7 DEF ClarifyInv, SentKept
<1> QED
  BY <1>5, <1>8, <1>9, <1>10 DEF ClarifyInv

LEMMA AnswerSteps ==
  ASSUME ClarifyInv,
         \/ SubmitValue \/ RetryAnswer \/ ConfirmEngine \/ RetryEngine
         \/ \E choice \in {<<"true">>, <<"false">>} : ConfirmOrCancel(choice)
  PROVE  ClarifyInv'
<1> DEFINE Final(answer) == IF answer = Null THEN ask.value ELSE answer
<1>1. ASSUME NEW answer, submit(answer) PROVE Send(<<"question">>, Final(answer))
  BY <1>1 DEF submit
<1>2. ASSUME ask.kind = "question", ask.phase = "idle", NEW answer, submit(answer)
      PROVE  ClarifyInv'
  <2>1. Final(answer) # Null \/ Final(answer) = ask.value
    OBVIOUS
  <2>2. Send(<<"question">>, Final(answer))
    BY <1>1, <1>2
  <2> QED
    BY <1>2, <2>1, <2>2, Sending
<1>3. CASE SubmitValue
  BY <1>2, <1>3 DEF SubmitValue
<1>4. CASE \E choice \in {<<"true">>, <<"false">>} : ConfirmOrCancel(choice)
  BY <1>2, <1>4 DEF ConfirmOrCancel
<1>5. CASE RetryAnswer
  <2>1. ask.kind = "question" /\ ask.phase = "error" /\ Send(<<"question">>, Final(ask.last))
    BY <1>1, <1>5 DEF RetryAnswer
  <2>2. ask.last # Null \/ ask.last = ask.value
    BY <2>1 DEF ClarifyInv, LastSent
  <2>3. Final(ask.last) = ask.last
    BY <2>2
  <2> QED
    BY <2>1, <2>2, <2>3, Sending
<1>6. CASE ConfirmEngine
  <2>1. /\ ask.kind = "engine" /\ ask.phase \in {"idle", "error"} /\ currentSelection # Null
        /\ Send(engineSelectionQuestionId(currentSelection), currentSelection)
    BY <1>6 DEF ConfirmEngine
  <2>2. ask.data \in Payloads /\ Offered(ask.data) \subseteq sent.offered
    BY DEF ClarifyInv, WidgetTypes, SentKept
  <2> QED
    BY <2>1, <2>2, currentSelectionIs, Sending
<1>7. CASE RetryEngine
  <2>1. ask.kind = "engine" /\ ask.phase = "error" /\ Send(engineSelectionQuestionId(ask.last), ask.last)
    BY <1>7 DEF RetryEngine
  <2>2. Selection(ask.last) /\ (ask.last[3] = "custom" \/ ask.last \in sent.offered)
    BY <2>1 DEF ClarifyInv, LastSent
  <2> QED
    BY <2>1, <2>2, Sending
<1> QED
  BY <1>3, <1>4, <1>5, <1>6, <1>7

\* The choices of the user, with nothing on the way.
LEMMA ChoiceSteps ==
  ASSUME ClarifyInv, handleChange \/ ChooseRadio \/ PressKey \/ TypeCustom
  PROVE  ClarifyInv'
<1> DEFINE Moved(k, p, v, c) == ask' = [ask EXCEPT !.key = k, !.phase = p, !.value = v, !.custom = c]
<1>1. WidgetTypes /\ ask.phase \in Phases
  BY DEF ClarifyInv, WidgetTypes
<1>2. ASSUME NEW k, NEW p, NEW v, NEW c, p \in {"idle", "error"},
             ask.phase \in {"idle", "error"}, p = ask.phase \/ (p = "idle" /\ ask.kind = "engine"),
             v = ask.value \/ ask.phase = "idle",
             ask.kind = "engine" => k \in {ask.key, CUSTOM_KEY} \cup Supported(ask.data),
             Moved(k, p, v, c),
             sent' = sent
      PROVE  ClarifyInv'
  <2>1. /\ ask'.kind = ask.kind /\ ask'.phase = p /\ ask'.last = ask.last /\ ask'.call = ask.call
        /\ ask'.value = v /\ ask'.key = k /\ ask'.data = ask.data /\ WidgetShape'
    BY <1>1, <1>2 DEF WidgetTypes, WidgetShape
  <2>2. WidgetTypes'
    BY <1>1, <1>2, <2>1 DEF WidgetTypes, Phases
  <2> QED
    BY <1>2, <2>1, <2>2, WidgetMoves
<1> HIDE DEF Moved
<1>3. CASE handleChange
  <2>1. PICK v : ask' = [ask EXCEPT !.value = v]
    BY <1>3 DEF handleChange
  <2>2. Moved(ask.key, ask.phase, v, ask.custom)
    BY <1>1, <2>1 DEF WidgetTypes, WidgetShape, Moved
  <2>3. ask.phase = "idle" /\ ask.kind = "question" /\ sent' = sent
    BY <1>3 DEF handleChange
  <2> QED
    BY <1>2, <2>2, <2>3
<1>4. ASSUME ask.kind = "engine", NEW k \in Supported(ask.data) \cup {CUSTOM_KEY}, choose(k)
      PROVE  ClarifyInv'
  <2>1. ask.phase \in {"idle", "error"} /\ sent' = sent
    BY <1>1, <1>4 DEF choose, locked, Phases
  <2>2. Moved(k, "idle", ask.value, ask.custom)
    BY <1>1, <1>4, <2>1 DEF choose, WidgetTypes, WidgetShape, Moved
  <2> QED
    BY <1>2, <1>4, <2>1, <2>2
<1>5. CASE ChooseRadio
  <2>1. PICK k \in ToSet(enabledKeys) : choose(k)
    BY <1>5 DEF ChooseRadio
  <2>2. ask.kind = "engine" /\ k \in Supported(ask.data) \cup {CUSTOM_KEY}
    BY <1>5, enabledKeysAre DEF ChooseRadio, ToSet
  <2> QED
    BY <1>4, <2>1, <2>2
<1>6. CASE PressKey
  <2>1. PICK i \in DOMAIN enabledKeys, pressed \in {"next", "previous", "Home", "End"} :
          handleKeyDown(i, pressed)
    BY <1>6 DEF PressKey
  <2>2. PICK n \in 1..3 : DOMAIN enabledKeys = 1..n /\ Len(enabledKeys) = n
    BY enabledKeysAre
  <2>3. PICK j \in 1..n : choose(enabledKeys[j])
    <3>1. i \in 1..n
      BY <2>1, <2>2
    <3>2. (i % n) + 1 \in 1..n /\ ((i + n - 2) % n) + 1 \in 1..n /\ 1 \in 1..n /\ n \in 1..n
      BY <2>2, <3>1
    <3> QED
      BY <2>1, <2>2, <3>2 DEF handleKeyDown
  <2>4. ask.kind = "engine" /\ enabledKeys[j] \in Supported(ask.data) \cup {CUSTOM_KEY}
    BY <1>6, <2>2, <2>3, enabledKeysAre DEF PressKey
  <2> QED
    BY <1>4, <2>3, <2>4
<1>7. CASE TypeCustom
  <2>1. PICK t : ask' = [ask EXCEPT !.custom = t]
    BY <1>7 DEF TypeCustom
  <2>2. Moved(ask.key, ask.phase, ask.value, t)
    BY <1>1, <2>1 DEF WidgetTypes, WidgetShape, Moved
  <2>3. ask.phase \in {"idle", "error"} /\ ask.kind = "engine" /\ sent' = sent
    BY <1>7 DEF TypeCustom
  <2> QED
    BY <1>2, <2>2, <2>3
<1> QED
  BY <1>3, <1>5, <1>6, <1>7

\* The call moves on, while the widget waits for it.
LEMMA CallSteps ==
  ASSUME ClarifyInv, TokenGiven \/ TokenMissing \/ clarify \/ TimesOut PROVE ClarifyInv'
<1>1. PICK at \in Progress \ {"none"} : Settle(at) /\ ask.call.at # "none"
  BY DEF TokenGiven, TokenMissing, clarify, TimesOut, Progress
<1>2. WidgetTypes /\ sent' = sent /\ ask' = [ask EXCEPT !.call.at = at]
  BY <1>1 DEF Settle, ClarifyInv
<1>3. /\ ask'.kind = ask.kind /\ ask'.phase = ask.phase /\ ask'.last = ask.last
      /\ ask'.value = ask.value /\ ask'.key = ask.key /\ ask'.data = ask.data /\ WidgetShape'
      /\ ask'.call = [key |-> ask.call.key, answer |-> ask.call.answer, at |-> at]
  BY <1>2 DEF WidgetTypes, WidgetShape
<1>4. ask'.call.at = at /\ ask'.call.key = ask.call.key /\ ask'.call.answer = ask.call.answer
  BY <1>3
<1>5. WidgetTypes'
  BY <1>1, <1>2, <1>3, <1>4 DEF WidgetTypes
<1> QED
  BY <1>2, <1>3, <1>5, WidgetMoves

LEMMA submitClarificationSteps == ASSUME ClarifyInv, submitClarification PROVE ClarifyInv'
<1>1. /\ ask.call.at \in {"refused", "failed"} /\ sent' = sent /\ WidgetTypes
      /\ ask' = [ask EXCEPT !.phase = "error", !.call = NoCall]
  BY DEF submitClarification, ClarifyInv
<1>2. ask.phase = "pending"
  BY <1>1 DEF WidgetTypes
<1>3. /\ ask'.kind = ask.kind /\ ask'.phase = "error" /\ ask'.last = ask.last /\ ask'.call = NoCall
      /\ ask'.value = ask.value /\ ask'.key = ask.key /\ ask'.data = ask.data /\ WidgetShape'
  BY <1>1 DEF WidgetTypes, WidgetShape
<1>4. NoCall.at = "none" /\ NoCall = [key |-> NoCall.key, answer |-> NoCall.answer, at |-> NoCall.at]
  BY DEF NoCall
<1>5. WidgetTypes'
  BY <1>1, <1>3, <1>4 DEF WidgetTypes, Phases, Progress
<1> QED
  BY <1>1, <1>2, <1>3, <1>5, WidgetMoves

\* A selector that is mounted with a payload.
LEMMA NewSelectorIs ==
  ASSUME NEW d \in Payloads, NEW recommended, NEW current, NEW s,
         s = NewSelector(d, recommended, current)
  PROVE  /\ s.kind = "engine" /\ s.phase = "idle" /\ s.data = d /\ s.call = NoCall
         /\ s.key \in {NoText, CUSTOM_KEY} \cup {o[1] : o \in Offered(d)}
         /\ s = [kind |-> s.kind, input |-> s.input, required |-> s.required,
                 value |-> s.value, data |-> s.data, key |-> s.key,
                 custom |-> s.custom, phase |-> s.phase, last |-> s.last, call |-> s.call]
<1> DEFINE k == initialSelection(Supported(d), recommended, current).key
           t == initialSelection(Supported(d), recommended, current).custom
<1>1. k \in Supported(d) \cup {NoText, CUSTOM_KEY}
  BY DEF initialSelection
<1>2. \A e \in Supported(d) : e \in {o[1] : o \in Offered(d)}
  <2> TAKE e \in Supported(d)
  <2>1. <<e, d[e], "listed">> \in Offered(d)
    BY OfferedIs
  <2> QED
    BY <2>1
<1>3. s = [NewWidget EXCEPT !.kind = "engine", !.data = d, !.key = k, !.custom = t]
  BY DEF NewSelector
<1> HIDE DEF k, t
<1>4. /\ s.kind = "engine" /\ s.phase = "idle" /\ s.data = d /\ s.call = NoCall /\ s.key = k
      /\ s = [kind |-> s.kind, input |-> s.input, required |-> s.required,
              value |-> s.value, data |-> s.data, key |-> s.key,
              custom |-> s.custom, phase |-> s.phase, last |-> s.last, call |-> s.call]
  BY <1>3 DEF NewWidget
<1> QED
  BY <1>1, <1>2, <1>4

LEMMA NothingCalled ==
  NoCall.at = "none" /\ NoCall = [key |-> NoCall.key, answer |-> NoCall.answer, at |-> NoCall.at]
BY DEF NoCall

\* Another payload below the selector, or a selector mounted anew.
LEMMA ReplacePayloadSteps == ASSUME ClarifyInv, ReplacePayload PROVE ClarifyInv'
<1>1. PICK d \in Payloads :
        /\ ask.kind = "engine" /\ sent.payloads < MaxPayloads
        /\ sent' = [sent EXCEPT !.payloads = @ + 1, !.offered = @ \cup Offered(d)]
        /\ \/ ask' = [ask EXCEPT !.data = d]
           \/ \E recommended \in Recommendations, current \in Selections :
                ask' = NewSelector(d, recommended, current)
  BY DEF ReplacePayload
<1>2. /\ sent'.calls = sent.calls /\ sent'.offered = sent.offered \cup Offered(d)
      /\ sent'.payloads = sent.payloads + 1
      /\ sent' = [calls |-> sent'.calls, offered |-> sent'.offered, payloads |-> sent'.payloads]
  BY <1>1 DEF ClarifyInv, SentKept
<1>3. sent'.payloads \in 1..MaxPayloads
  BY <1>1, <1>2, ClarifyPageAssumption DEF ClarifyInv, SentKept
<1>4. ASSUME ask'.kind = "engine", ask'.data = d PROVE SentKept'
  <2>1. \A c : Own(c) => Own(c)'
    BY <1>1, <1>2, <1>4 DEF Own, engineSelectionQuestionId, Selection
  <2> QED
    BY <1>2, <1>3, <1>4, <2>1 DEF ClarifyInv, SentKept
<1>5. CASE ask' = [ask EXCEPT !.data = d]
  <2>1. /\ ask'.kind = ask.kind /\ ask'.phase = ask.phase /\ ask'.last = ask.last
        /\ ask'.call = ask.call /\ ask'.key = ask.key /\ ask'.data = d /\ WidgetShape'
    BY <1>5 DEF ClarifyInv, WidgetTypes, WidgetShape
  <2>2. WidgetTypes'
    BY <2>1 DEF ClarifyInv, WidgetTypes
  <2>3. LastSent' /\ KeyOffered'
    BY <1>1, <1>2, <2>1 DEF ClarifyInv, LastSent, KeyOffered, Selection
  <2> QED
    BY <1>1, <1>4, <2>1, <2>2, <2>3 DEF ClarifyInv
<1>6. CASE \E recommended \in Recommendations, current \in Selections :
             ask' = NewSelector(d, recommended, current)
  <2>1. /\ ask'.kind = "engine" /\ ask'.phase = "idle" /\ ask'.data = d /\ ask'.call = NoCall
        /\ ask'.key \in {NoText, CUSTOM_KEY} \cup {o[1] : o \in Offered(d)} /\ WidgetShape'
    BY <1>6, NewSelectorIs DEF WidgetShape
  <2>2. WidgetTypes'
    BY <2>1, NothingCalled DEF WidgetTypes, Phases, Progress
  <2>3. LastSent' /\ KeyOffered'
    BY <1>2, <2>1 DEF LastSent, KeyOffered
  <2> QED
    BY <1>4, <2>1, <2>2, <2>3 DEF ClarifyInv
<1> QED
  BY <1>1, <1>5, <1>6

LEMMA ClarifyInitHolds == ASSUME ClarifyInit PROVE ClarifyInv
<1>1. sent = [calls |-> {}, offered |-> Offered(ask.data), payloads |-> 1]
  BY DEF ClarifyInit
<1>2. ASSUME ask.kind \in {"question", "engine"}, ask.phase = "idle", ask.call = NoCall,
             ask.data \in Payloads, WidgetShape,
             ask.kind = "engine" =>
               ask.key \in {NoText, CUSTOM_KEY} \cup {o[1] : o \in Offered(ask.data)}
      PROVE  ClarifyInv
  <2>1. WidgetTypes
    BY <1>2, NothingCalled DEF WidgetTypes, Phases, Progress
  <2>2. 1 \in 1..MaxPayloads
    BY ClarifyPageAssumption
  <2>3. LastSent /\ SentKept /\ (ask.kind = "engine" => KeyOffered)
    BY <1>1, <1>2, <2>2 DEF LastSent, SentKept, KeyOffered
  <2> QED
    BY <2>1, <2>3 DEF ClarifyInv
<1>3. CASE \E input, required, value :
             ask = [NewWidget EXCEPT !.input = input, !.required = required, !.value = value]
  <2>1. /\ ask.kind = "question" /\ ask.phase = "idle" /\ ask.call = NoCall /\ WidgetShape
        /\ ask.data = [e \in Engines |-> NoText]
    BY <1>3 DEF NewWidget, WidgetShape
  <2>2. ask.data \in Payloads
    BY <2>1 DEF Payloads
  <2> QED
    BY <1>2, <2>1, <2>2
<1>4. CASE \E d \in Payloads, recommended \in Recommendations, current \in Selections :
             ask = NewSelector(d, recommended, current)
  <2>1. PICK d \in Payloads, recommended \in Recommendations, current \in Selections :
          ask = NewSelector(d, recommended, current)
    BY <1>4
  <2>2. /\ ask.kind = "engine" /\ ask.phase = "idle" /\ ask.data = d /\ ask.call = NoCall
        /\ ask.key \in {NoText, CUSTOM_KEY} \cup {o[1] : o \in Offered(d)} /\ WidgetShape
    BY <2>1, NewSelectorIs DEF WidgetShape
  <2> QED
    BY <1>2, <2>2
<1>5. \/ \E input \in {"text", "select", "multi_select", "boolean", "confirmation"},
           required \in BOOLEAN :
           ask = [NewWidget EXCEPT !.input = input, !.required = required,
                                   !.value = initialValue(input)]
      \/ \E d \in Payloads, recommended \in Recommendations, current \in Selections :
           ask = NewSelector(d, recommended, current)
  BY DEF ClarifyInit
<1> QED
  BY <1>3, <1>4, <1>5

LEMMA ClarifyStep == ClarifyInv /\ [ClarifyNext]_clarifyVars => ClarifyInv'
<1> SUFFICES ASSUME ClarifyInv, [ClarifyNext]_clarifyVars PROVE ClarifyInv'
  OBVIOUS
<1>1. CASE UNCHANGED clarifyVars
  <2>1. ask' = ask /\ sent' = sent
    BY <1>1 DEF clarifyVars
  <2>2. WidgetTypes'
    BY <2>1 DEF ClarifyInv, WidgetTypes, WidgetShape
  <2> QED
    BY <2>1, <2>2, WidgetMoves
<1>2. CASE handleChange \/ ChooseRadio \/ PressKey \/ TypeCustom
  BY <1>2, ChoiceSteps
<1>3. CASE \/ SubmitValue \/ RetryAnswer \/ ConfirmEngine \/ RetryEngine
           \/ \E choice \in {<<"true">>, <<"false">>} : ConfirmOrCancel(choice)
  BY <1>3, AnswerSteps
<1>4. CASE TokenGiven \/ TokenMissing \/ clarify \/ TimesOut
  BY <1>4, CallSteps
<1>5. CASE ReplacePayload
  BY <1>5, ReplacePayloadSteps
<1>6. CASE submitClarification
  BY <1>6, submitClarificationSteps
<1> QED
  BY <1>1, <1>2, <1>3, <1>4, <1>5, <1>6 DEF ClarifyNext, ClarifyReplies

LEMMA ClarifyHolds == ClarifyInv => ClarifyPageInv
<1> SUFFICES ASSUME ClarifyInv PROVE ClarifyPageInv
  OBVIOUS
<1>1. ClarifyTypeOK
  BY NothingCalled DEF ClarifyInv, WidgetTypes, SentKept, ClarifyTypeOK, Progress
<1>2. NeverConfirmed
  BY DEF ClarifyInv, WidgetTypes, NeverConfirmed, Phases
<1>3. KeyNamesAnswer
  <2> SUFFICES ASSUME NEW c \in sent.calls, NEW d \in sent.calls
               PROVE  c.key = d.key <=> c.answer = d.answer
    BY DEF KeyNamesAnswer
  <2>1. Own(c) /\ Own(d)
    BY DEF ClarifyInv, SentKept
  <2>2. CASE ask.kind = "question"
    BY <2>1, <2>2 DEF Own
  <2>3. CASE ask.kind = "engine"
    <3>1. /\ Selection(c.answer) /\ c.key = engineSelectionQuestionId(c.answer)
          /\ Selection(d.answer) /\ d.key = engineSelectionQuestionId(d.answer)
      BY <2>1, <2>3 DEF Own
    <3> QED
      BY <3>1, KeysDiffer
  <2> QED
    BY <2>2, <2>3 DEF ClarifyInv, WidgetTypes
<1>4. EngineOffered
  BY DEF ClarifyInv, SentKept, KeyOffered, EngineOffered, Own
<1> QED
  BY <1>1, <1>2, <1>3, <1>4 DEF ClarifyPageInv

\* No answer is shown as saved, one key stands for one answer, and every engine
\* that is selected or sent was offered, over refusals, timeouts and retries and
\* for every number of payloads that replace one another.
THEOREM CallsKept == WebSpec => []ClarifyPageInv
<1>1. WebInit => ClarifyInv
  BY ClarifyInitHolds DEF WebInit
<1>2. [WebNext]_webVars => [ClarifyNext]_clarifyVars
  BY DEF WebNext, On, webVars
<1>3. ClarifyInv /\ [WebNext]_webVars => ClarifyInv'
  BY <1>2, ClarifyStep
<1> QED
  BY <1>1, <1>3, ClarifyHolds, PTL DEF WebSpec

----------------------------------------------------------------------------
(* The components of a chat message: ManifestCards                         *)

Kinds   == {"none", "unknown", "invalid", "render"}
Types   == {"none", "resource_table", "region_selector"}
Filters == {"all", "vm", "sql"}

IsCard(c) ==
  c = [kind |-> c.kind, type |-> c.type, wellFormed |-> c.wellFormed, migrate |-> c.migrate,
       rows |-> c.rows, offer |-> c.offer, filter |-> c.filter, query |-> c.query,
       expanded |-> c.expanded, focus |-> c.focus, provider |-> c.provider, sent |-> c.sent]

\* Ids of rows are never the mark of a row that is not found.
CardInv ==
  /\ IsCard(card)
  /\ card.kind \in Kinds /\ card.type \in Types /\ card.filter \in Filters
  /\ card.offer \in Offers /\ card.provider \in Providers
  /\ \A row \in ToSet(card.rows) : row.id # "?" /\ row.type \in Filters
  /\ RenderedValid /\ NavigationFinds /\ FilterOffered

LEMMA OffersAre == NoOffer \in Offers /\ \A o \in Offers : o.provider \in Providers
<1>1. [p \in Providers |-> {"r2"}] \in [Providers -> {{"r2"}, Regions}]
  OBVIOUS
<1>2. "aws" \in Providers
  BY DEF Providers
<1> QED
  BY <1>1, <1>2 DEF Offers, NoOffer

LEMMA ManifestsAre ==
  \A rs \in Manifests : \A row \in ToSet(rs) : row.id # "?" /\ row.type \in Filters
<1> SUFFICES ASSUME NEW rs \in Manifests, NEW i \in DOMAIN rs
             PROVE  rs[i].id # "?" /\ rs[i].type \in Filters
  BY DEF ToSet
<1>1. CASE rs = <<>>
  BY <1>1
<1>2. CASE rs = <<Row("web", "vm", {"db", "lost"}), Row("db", "sql", {"web"})>>
  <2>1. rs[i] = Row("web", "vm", {"db", "lost"}) \/ rs[i] = Row("db", "sql", {"web"})
    BY <1>2
  <2> QED
    BY <2>1 DEF Row, Filters
<1>3. CASE rs = <<Row("web", "vm", {"db"})>>
  <2>1. rs[i] = Row("web", "vm", {"db"})
    BY <1>3
  <2> QED
    BY <2>1 DEF Row, Filters
<1> QED
  BY <1>1, <1>2, <1>3 DEF Manifests

\* What is rendered satisfies the schema of its entry.
LEMMA resolvePayloadIs ==
  ASSUME NEW p \in Envelopes, resolvePayload(p) = "render"
  PROVE  WellFormed(p)
BY DEF resolvePayload, WellFormed, Envelopes

LEMMA resolvePayloadKinds == \A p \in Envelopes : resolvePayload(p) \in Kinds
BY DEF resolvePayload, Kinds

LEMMA RegistryRendererSteps == ASSUME CardInv, RegistryRenderer PROVE CardInv'
<1>1. PICK p \in Envelopes, type \in {"resource_table", "region_selector"},
           rs \in Manifests, offer \in Offers :
        \/ card' = Effects(card, Payload(p, type, rs, offer))
        \/ card' = FirstState(Payload(p, type, rs, offer))
  BY DEF RegistryRenderer
<1> DEFINE kind == resolvePayload(p)
           t == IF kind = "render" THEN type ELSE "none"
           r == IF kind = "render" THEN rs ELSE <<>>
           o == IF kind = "render" THEN offer ELSE NoOffer
           w == WellFormed(p)
           c == Payload(p, type, rs, offer)
<1>2. /\ kind \in Kinds /\ t \in Types /\ o \in Offers
      /\ \A row \in ToSet(r) : row.id # "?" /\ row.type \in Filters
  <2>1. ToSet(<<>>) = {}
    BY DEF ToSet
  <2> QED
    BY <2>1, resolvePayloadKinds, ManifestsAre, OffersAre DEF Types
<1>3. kind = "render" => w
  BY resolvePayloadIs
<1>4. card' = Effects(card, c) \/ card' = FirstState(c)
  BY <1>1
<1>5. c = [card EXCEPT !.kind = kind, !.wellFormed = w, !.sent = <<>>,
                       !.type = t, !.rows = r, !.offer = o]
  BY DEF Payload
<1> HIDE DEF kind, t, r, o, w
<1>6. /\ c.kind = kind /\ c.wellFormed = w /\ c.type = t /\ c.rows = r /\ c.offer = o
      /\ c.filter = card.filter /\ c.focus = card.focus /\ c.provider = card.provider
      /\ IsCard(c)
  BY <1>5 DEF CardInv, IsCard
<1> HIDE DEF c
<1>7. o.provider \in Providers
  BY <1>2, OffersAre
<1>8. CASE card' = Effects(card, c)
  <2> DEFINE f == IF c.filter \in filterOptions(c.rows) THEN c.filter ELSE "all"
             q == IF card.offer.provider # c.offer.provider THEN c.offer.provider ELSE c.provider
  <2>1. card' = [c EXCEPT !.filter = f, !.provider = q]
    BY <1>6, <1>8 DEF Effects, IsCard
  <2>2. f \in Filters /\ q \in Providers /\ f \in filterOptions(r) \cup {"all"}
    BY <1>6, <1>7 DEF CardInv, Filters
  <2> HIDE DEF f, q
  <2> QED
    BY <1>2, <1>3, <1>6, <2>1, <2>2 DEF CardInv, IsCard, RenderedValid, NavigationFinds, FilterOffered, Table
<1>9. CASE card' = FirstState(c)
  <2>1. "" # "?"
    OBVIOUS
  <2>2. /\ card'.kind = kind /\ card'.wellFormed = w /\ card'.type = t /\ card'.rows = r
        /\ card'.offer = o /\ card'.filter = "all" /\ card'.focus # "?" /\ card'.provider = o.provider
        /\ IsCard(card')
    BY <1>6, <1>9, <2>1 DEF FirstState, IsCard
  <2> QED
    BY <1>2, <1>3, <1>7, <2>2 DEF CardInv, RenderedValid, NavigationFinds, FilterOffered, Filters
<1> QED
  BY <1>4, <1>8, <1>9

\* The user's steps leave the payload alone.
LEMMA CardStays ==
  ASSUME CardInv, IsCard(card'), NEW f \in Filters, NEW q \in Providers,
         card'.filter = f, card'.provider = q, card'.focus # "?",
         card'.kind = card.kind, card'.type = card.type, card'.wellFormed = card.wellFormed,
         card'.rows = card.rows, card'.offer = card.offer,
         Table => f \in filterOptions(card.rows) \cup {"all"}
  PROVE  CardInv'
BY DEF CardInv, RenderedValid, NavigationFinds, FilterOffered, Table

\* A row that is found is opened.
LEMMA FocusIs ==
  ASSUME CardInv, NEW c, IsCard(c), NEW row \in visibleRows(c), row.id # "?",
         card' = Focus(c, row.id)
  PROVE  /\ IsCard(card') /\ card'.focus # "?" /\ card'.filter = c.filter
         /\ card'.provider = c.provider /\ card'.kind = c.kind /\ card'.type = c.type
         /\ card'.wellFormed = c.wellFormed /\ card'.rows = c.rows /\ card'.offer = c.offer
<1>1. card' = [c EXCEPT !.expanded = row.id, !.focus = row.id]
  BY DEF Focus
<1> QED
  BY <1>1 DEF IsCard

LEMMA TableSteps ==
  ASSUME CardInv,
         \/ (\E q \in {"", "web", "db"} : SetQuery(q)) \/ (\E f \in {"all", "vm", "sql"} : SetFilter(f))
         \/ ClearTable \/ OpenDependency
         \/ \E row \in ToSet(card.rows) : ToggleDetails(row) \/ handleNameClick(row)
  PROVE  CardInv'
<1> USE DEF Filters
<1>1. /\ IsCard(card) /\ card.filter \in Filters /\ card.provider \in Providers
      /\ card.focus # "?" /\ (Table => card.filter \in filterOptions(card.rows) \cup {"all"})
  BY DEF CardInv, NavigationFinds, FilterOffered
<1>2. CASE \E q \in {"", "web", "db"} : SetQuery(q)
  <2>1. PICK q : card' = [card EXCEPT !.query = q]
    BY <1>2 DEF SetQuery
  <2> QED
    BY <1>1, <2>1, CardStays DEF IsCard
<1>3. CASE \E f \in {"all", "vm", "sql"} : SetFilter(f)
  <2>1. PICK f \in Filters : /\ f \in filterOptions(card.rows) \cup {"all"}
                             /\ card' = [card EXCEPT !.filter = f]
    BY <1>3 DEF SetFilter
  <2> QED
    BY <1>1, <2>1, CardStays DEF IsCard
<1>4. CASE ClearTable
  <2>1. PICK q : card' = [card EXCEPT !.query = q, !.filter = "all"]
    BY <1>4 DEF ClearTable, clearFilters
  <2> QED
    BY <1>1, <2>1, CardStays DEF IsCard
<1>5. CASE OpenDependency
  <2>1. PICK target \in ToSet(card.rows) : card' = Focus(clearFilters(card), target.id)
    BY <1>5 DEF OpenDependency, navigateDependency
  <2>2. PICK c : c = clearFilters(card)
    OBVIOUS
  <2>3. /\ IsCard(c) /\ c.filter = "all" /\ c.query = "" /\ c.rows = card.rows /\ c.kind = card.kind
        /\ c.type = card.type /\ c.wellFormed = card.wellFormed /\ c.offer = card.offer
        /\ c.provider = card.provider
    BY <1>1, <2>2 DEF clearFilters, IsCard
  <2>4. target \in visibleRows(c) /\ target.id # "?"
    BY <2>3 DEF visibleRows, Found, CardInv
  <2>5. card' = Focus(c, target.id)
    BY <2>1, <2>2
  <2>6. /\ IsCard(card') /\ card'.focus # "?" /\ card'.filter = "all"
        /\ card'.provider = card.provider /\ card'.kind = card.kind /\ card'.type = card.type
        /\ card'.wellFormed = card.wellFormed /\ card'.rows = card.rows /\ card'.offer = card.offer
    BY <2>3, <2>4, <2>5, FocusIs
  <2> QED
    BY <1>1, <2>6, CardStays
<1>6. ASSUME NEW row \in ToSet(card.rows), ToggleDetails(row) PROVE CardInv'
  <2>1. PICK e : card' = [card EXCEPT !.expanded = e]
    BY <1>6 DEF ToggleDetails
  <2> QED
    BY <1>1, <2>1, CardStays DEF IsCard
<1>7. ASSUME NEW row \in ToSet(card.rows), handleNameClick(row) PROVE CardInv'
  <2>1. row \in visibleRows(card) /\ row.id # "?" /\ card' = Focus(card, row.id)
    BY <1>7 DEF handleNameClick, CardInv
  <2>2. /\ IsCard(card') /\ card'.focus # "?" /\ card'.filter = card.filter
        /\ card'.provider = card.provider /\ card'.kind = card.kind /\ card'.type = card.type
        /\ card'.wellFormed = card.wellFormed /\ card'.rows = card.rows /\ card'.offer = card.offer
    BY <1>1, <2>1, FocusIs
  <2> QED
    BY <1>1, <2>2, CardStays
<1> QED
  BY <1>2, <1>3, <1>4, <1>5, <1>6, <1>7

LEMMA SelectorSteps ==
  ASSUME CardInv, (\E p \in Providers : PickProvider(p)) \/ (\E r \in Regions : PickRegion(r))
  PROVE  CardInv'
<1>1. /\ IsCard(card) /\ card.filter \in Filters /\ card.provider \in Providers
      /\ card.focus # "?" /\ (Table => card.filter \in filterOptions(card.rows) \cup {"all"})
  BY DEF CardInv, NavigationFinds, FilterOffered
<1>2. CASE \E p \in Providers : PickProvider(p)
  <2>1. PICK p \in Providers : card' = [card EXCEPT !.provider = p]
    BY <1>2 DEF PickProvider
  <2> QED
    BY <1>1, <2>1, CardStays DEF IsCard
<1>3. CASE \E r \in Regions : PickRegion(r)
  <2>1. PICK s : card' = [card EXCEPT !.sent = s]
    BY <1>3 DEF PickRegion
  <2> QED
    BY <1>1, <2>1, CardStays DEF IsCard
<1> QED
  BY <1>2, <1>3

LEMMA CardStep == CardInv /\ [CardNext]_cardVars => CardInv'
<1> SUFFICES ASSUME CardInv, [CardNext]_cardVars PROVE CardInv'
  OBVIOUS
<1>1. CASE UNCHANGED cardVars
  BY <1>1 DEF cardVars, CardInv, RenderedValid, NavigationFinds, FilterOffered, Table
<1>2. CASE CardNext
  BY <1>2, RegistryRendererSteps, TableSteps, SelectorSteps DEF CardNext
<1> QED
  BY <1>1, <1>2

LEMMA CardInitHolds == CardInit => CardInv
<1> SUFFICES ASSUME CardInit PROVE CardInv
  OBVIOUS
<1>1. "" # "?"
  OBVIOUS
<1>2. /\ IsCard(card) /\ card.kind = "none" /\ card.type = "none" /\ card.filter = "all"
      /\ card.offer = NoOffer /\ card.provider = "aws" /\ card.rows = <<>> /\ card.focus # "?"
  <2>1. PICK m, e :
          /\ e = ""
          /\ card = [kind |-> "none", type |-> "none", wellFormed |-> TRUE, migrate |-> m,
                     rows |-> <<>>, offer |-> NoOffer, filter |-> "all", query |-> e,
                     expanded |-> e, focus |-> e, provider |-> "aws", sent |-> <<>>]
    BY DEF CardInit
  <2>2. e # "?"
    BY <1>1, <2>1
  <2>3. card.focus = e
    BY <2>1
  <2> QED
    BY <2>1, <2>2, <2>3 DEF IsCard
<1>3. ToSet(card.rows) = {}
  BY <1>2 DEF ToSet
<1> QED
  BY <1>2, <1>3, OffersAre
  DEF CardInv, Kinds, Types, Filters, Providers, RenderedValid, NavigationFinds, FilterOffered, Table

LEMMA CardHolds == CardInv => CardsInv
<1> SUFFICES ASSUME CardInv PROVE CardsInv
  OBVIOUS
<1>1. CardTypeOK
  BY DEF CardInv, CardTypeOK, Kinds, Types, Filters
<1>2. SelectionOfProvider
  <2>1. CASE activeProvider(card) = card.offer.provider
    BY <2>1 DEF SelectionOfProvider, selectedRegion, acceptedRegion
  <2>2. CASE activeProvider(card) # card.offer.provider
    <3>1. activeProvider(card) \in Providers \ {card.offer.provider}
      BY <2>2 DEF activeProvider, CardInv
    <3>2. acceptedRegion(card) = card.offer.otherRegion
      BY <2>2 DEF acceptedRegion
    <3> QED
      BY <3>1, <3>2 DEF SelectionOfProvider, selectedRegion
  <2> QED
    BY <2>1, <2>2
<1> QED
  BY <1>1, <1>2 DEF CardInv, CardsInv

\* A card shows valid data only, and neither filters nor selections of an
\* earlier payload or provider change what it shows.
THEOREM CardsKept == WebSpec => []CardsInv
<1>1. WebInit => CardInv
  BY CardInitHolds DEF WebInit
<1>2. [WebNext]_webVars => [CardNext]_cardVars
  BY DEF WebNext, On, webVars
<1>3. CardInv /\ [WebNext]_webVars => CardInv'
  BY <1>2, CardStep
<1> QED
  BY <1>1, <1>3, CardHolds, PTL DEF WebSpec

----------------------------------------------------------------------------
(* The message above the resources: ResourcesPage                          *)

\* "Inventory is up to date." stands above the inventory that the last sync has
\* loaded, whatever loads, retries and failures follow.
THEOREM SyncMessageKept == WebSpec => [](ResourcesTypeOK /\ SyncMessageTrue)
<1> DEFINE IsDash == dash = [view |-> dash.view, error |-> dash.error, resources |-> dash.resources,
                             syncing |-> dash.syncing, feedback |-> dash.feedback,
                             scenario |-> dash.scenario]
           IsTable == table = [search |-> table.search, provider |-> table.provider,
                               drift |-> table.drift, key |-> table.key, dir |-> table.dir,
                               expanded |-> table.expanded]
           Inv == IsDash /\ IsTable /\ ResourcesTypeOK /\ SyncMessageTrue
<1>1. Len(mockResources) = 3
  BY DEF mockResources
<1>2. WebInit => Inv
  BY <1>1 DEF WebInit, ResourcesInit, NewTable, ResourcesTypeOK, SyncMessageTrue
<1>3. [WebNext]_webVars => [ResourcesNext]_resourcesVars
  BY DEF WebNext, On, webVars
<1>4. Inv /\ [ResourcesNext]_resourcesVars => Inv'
  <2> SUFFICES ASSUME Inv, [ResourcesNext]_resourcesVars PROVE Inv'
    OBVIOUS
  <2>1. CASE UNCHANGED resourcesVars
    BY <2>1 DEF resourcesVars, ResourcesTypeOK, SyncMessageTrue
  <2>2. CASE Fetched \/ FetchThrows
    <3>1. IsTable' /\ table'.expanded \in 0..Len(mockResources)
      BY <1>1, <2>2 DEF Fetched, FetchThrows, NewTable
    <3>2. dash.view = "loading" /\ dash.feedback # "up to date"
      BY <2>2 DEF Fetched, FetchThrows, SyncMessageTrue
    <3>3. CASE Fetched
      <4> DEFINE result == fetchResources(dash.scenario)
                 v == CASE ~result.success -> "error"
                        [] result.success /\ result.data = <<>> -> "empty"
                        [] OTHER -> "default"
                 f == IF ~dash.syncing THEN dash.feedback
                      ELSE IF result.success THEN "up to date" ELSE "sync failed"
                 e == ~result.success
      <4>1. dash' = [dash EXCEPT !.view = v, !.resources = result.data, !.error = e,
                                 !.syncing = FALSE, !.feedback = f]
        BY <3>3 DEF Fetched
      <4>2. /\ v \in {"error", "empty", "default"}
            /\ f \in {"none", "up to date", "sync failed", "exported"}
            /\ f = "up to date" => ~e /\ v # "error"
        BY <3>2 DEF ResourcesTypeOK
      <4> HIDE DEF v, f, e
      <4>3. /\ IsDash' /\ dash'.view = v /\ dash'.resources = result.data /\ dash'.error = e
            /\ dash'.syncing = FALSE /\ dash'.feedback = f /\ dash'.scenario = dash.scenario
        BY <4>1
      <4> QED
        BY <3>1, <4>2, <4>3 DEF ResourcesTypeOK, SyncMessageTrue
    <3>4. CASE FetchThrows
      <4>1. /\ dash'.view = "error" /\ IsDash' /\ dash'.feedback # "up to date"
            /\ dash'.feedback \in {"none", "up to date", "sync failed", "exported"}
        BY <3>2, <3>4 DEF FetchThrows, ResourcesTypeOK
      <4> QED
        BY <3>1, <4>1 DEF ResourcesTypeOK, SyncMessageTrue
    <3> QED
      BY <2>2, <3>3, <3>4
  <2>3. CASE RetryResources \/ handleSync
    <3>1. /\ table' = table /\ IsDash' /\ dash'.view = "loading"
          /\ dash'.feedback \in {"none", dash.feedback}
      BY <2>3 DEF RetryResources, handleSync, StartLoad
    <3>2. dash'.feedback # "up to date"
      <4>1. CASE RetryResources
        BY <3>1, <4>1 DEF RetryResources, StartLoad, SyncMessageTrue
      <4>2. CASE handleSync
        BY <4>2 DEF handleSync, StartLoad
      <4> QED
        BY <2>3, <4>1, <4>2
    <3> QED
      BY <3>1, <3>2 DEF ResourcesTypeOK, SyncMessageTrue
  <2>4. CASE handleExport \/ DismissSync
    BY <2>4 DEF handleExport, DismissSync, ResourcesTypeOK, SyncMessageTrue
  <2>5. CASE /\ dash' = dash /\ IsTable' /\ table'.expanded \in {0, table.expanded} \cup 1..3
    <3>1. table'.expanded \in 0..Len(mockResources)
      <4> DEFINE x == table.expanded
                 y == table'.expanded
      <4>1. x \in 0..3 /\ y \in {0, x} \cup 1..3
        <5> HIDE DEF IsTable
        <5> QED
          BY <1>1, <2>5 DEF ResourcesTypeOK
      <4> HIDE DEF x, y
      <4>2. y \in 0..3
        BY <4>1
      <4> QED
        BY <1>1, <4>2 DEF y
    <3>2. /\ dash.view \in {"loading", "default", "empty", "error"}
          /\ dash.feedback \in {"none", "up to date", "sync failed", "exported"}
          /\ SyncMessageTrue
      BY DEF ResourcesTypeOK
    <3>3. ResourcesTypeOK'
      BY <2>5, <3>1, <3>2 DEF ResourcesTypeOK
    <3>4. SyncMessageTrue'
      BY <2>5, <3>2 DEF SyncMessageTrue
    <3> QED
      BY <2>5, <3>3, <3>4
  <2>6. CASE \/ ClearFilters \/ (\E on \in BOOLEAN : Search(on))
             \/ (\E p \in {"all", "aws", "azure", "gcp"} : FilterProvider(p))
             \/ (\E d \in {"all", "drift", "clean"} : FilterDrift(d))
             \/ (\E key \in {"name", "lastSynced"} : toggleSort(key))
             \/ (\E id \in 1..Len(mockResources) : ToggleRow(id))
    <3>1. \E s, p, d, k, o, x :
            /\ x \in {0, table.expanded} \cup 1..3
            /\ table' = [search |-> s, provider |-> p, drift |-> d, key |-> k, dir |-> o,
                         expanded |-> x]
      <4>1. CASE ClearFilters \/ (\E on \in BOOLEAN : Search(on))
        BY <4>1 DEF ClearFilters, Search, SetTable
      <4>2. CASE \/ (\E p \in {"all", "aws", "azure", "gcp"} : FilterProvider(p))
                 \/ (\E d \in {"all", "drift", "clean"} : FilterDrift(d))
        BY <4>2 DEF FilterProvider, FilterDrift, SetTable
      <4>3. CASE \E key \in {"name", "lastSynced"} : toggleSort(key)
        <5>1. PICK key : toggleSort(key)
          BY <4>3
        <5>2. PICK o : table' = [table EXCEPT !.key = key, !.dir = o]
          BY <5>1 DEF toggleSort, SetTable
        <5> DEFINE t == [table EXCEPT !.key = key]
        <5>3. /\ table' = [t EXCEPT !.dir = o]
              /\ t = [search |-> table.search, provider |-> table.provider,
                      drift |-> table.drift, key |-> key, dir |-> table.dir,
                      expanded |-> table.expanded]
          BY <5>2
        <5> HIDE DEF t
        <5>4. table' = [search |-> table.search, provider |-> table.provider,
                        drift |-> table.drift, key |-> key, dir |-> o,
                        expanded |-> table.expanded]
          BY <5>3
        <5> QED
          BY <5>4
      <4>4. CASE \E id \in 1..Len(mockResources) : ToggleRow(id)
        <5>1. PICK id \in 1..3 : ToggleRow(id)
          BY <1>1, <4>4
        <5>2. PICK x \in {0, id} : table' = [table EXCEPT !.expanded = x]
          BY <5>1 DEF ToggleRow, SetTable
        <5>3. table' = [search |-> table.search, provider |-> table.provider,
                        drift |-> table.drift, key |-> table.key, dir |-> table.dir,
                        expanded |-> x]
          BY <5>2
        <5>4. x \in {0, table.expanded} \cup 1..3
          BY <5>2
        <5> QED
          BY <5>3, <5>4
      <4> QED
        BY <2>6, <4>1, <4>2, <4>3, <4>4
    <3>2. dash' = dash
      BY <2>6 DEF ClearFilters, Search, FilterProvider, FilterDrift, toggleSort, ToggleRow, SetTable
    <3>3. IsTable' /\ table'.expanded \in {0, table.expanded} \cup 1..3
      BY <3>1
    <3> QED
      BY <2>5, <3>2, <3>3
  <2> QED
    BY <2>1, <2>2, <2>3, <2>4, <2>6 DEF ResourcesNext
<1>5. Inv /\ [WebNext]_webVars => Inv'
  BY <1>3, <1>4
<1>6. Inv => ResourcesTypeOK /\ SyncMessageTrue
  OBVIOUS
<1> HIDE DEF Inv
<1> QED
  BY <1>2, <1>5, <1>6, PTL DEF WebSpec

----------------------------------------------------------------------------
(* The setup flow: SetupFlow                                               *)

\* What the flow says of the workspace: it is said to be created after a claim,
\* the steps behind the workspace's are reached with it, and every organization
\* and claim belongs to an attempt.
SetupClaim ==
  /\ setup.step \in 0..5 /\ setup.created \in BOOLEAN
  /\ clerk.call \in {"none", "create", "activate", "claim", "created"}
  /\ setup.creating <=> clerk.call # "none"
  /\ setup.created => clerk.claimed >= 1 /\ clerk.call = "none"
  /\ clerk.call = "created" => clerk.claimed >= 1
  /\ {clerk.orgs, clerk.claimed, clerk.late, setupHist.fails} \subseteq Nat
  /\ clerk.claimed + clerk.late
       <= clerk.orgs - IF clerk.call \in {"activate", "claim"} THEN 1 ELSE 0
  /\ clerk.orgs <= setupHist.fails
       + IF setup.created \/ clerk.call \in {"activate", "claim", "created"} THEN 1 ELSE 0
  /\ clerk.enabled /\ setup.step > 1 => setup.created
  /\ setup.opened => setup.created

\* What a form f holds, when m is what the user meant.
FormHolds(f, m) ==
  /\ f.blueprint \in Blueprints /\ f.settings \subseteq Settings
  /\ f.connection \in {"idle", "guidance", "connected"}
  /\ m.name # <<>> => f.name = m.name
  /\ m.slug # <<>> => f.slug = m.slug
  /\ f.settings = m.settings
  /\ f.connection = "connected" => f.provider = m.verified

\* The records of the flow keep their fields.
FormFields(f) ==
  f = [name |-> f.name, slug |-> f.slug, invites |-> f.invites, blueprint |-> f.blueprint,
       settings |-> f.settings, provider |-> f.provider, connection |-> f.connection]

MeantFields(m) ==
  m = [name |-> m.name, slug |-> m.slug, settings |-> m.settings, invites |-> m.invites,
       verified |-> m.verified]

SetupFields ==
  /\ setup = [step |-> setup.step, form |-> setup.form, creating |-> setup.creating,
              created |-> setup.created, error |-> setup.error, opened |-> setup.opened]
  /\ clerk = [enabled |-> clerk.enabled, signedIn |-> clerk.signedIn, orgs |-> clerk.orgs,
              claimed |-> clerk.claimed, late |-> clerk.late, call |-> clerk.call]
  /\ setupHist = [edits |-> setupHist.edits, added |-> setupHist.added,
                  fails |-> setupHist.fails, meant |-> setupHist.meant]

FormKept(f, m) == FormFields(f) /\ MeantFields(m) /\ FormHolds(f, m)

SetupKeeps == SetupFields /\ SetupClaim /\ FormKept(setup.form, setupHist.meant)

\* A step that leaves the claim and the user's place alone.
LEMMA SameClaim ==
  ASSUME SetupClaim, setup'.step = setup.step, setup'.created = setup.created,
         setup'.creating = setup.creating, setup'.opened = setup.opened,
         clerk'.enabled = clerk.enabled, clerk'.claimed = clerk.claimed,
         clerk'.orgs = clerk.orgs, clerk'.late = clerk.late, clerk'.call = clerk.call,
         setupHist'.fails = setupHist.fails
  PROVE  SetupClaim'
  BY DEF SetupClaim

\* A step of the user or of Clerk that leaves the form alone.
LEMMA SameForm ==
  ASSUME FormKept(setup.form, setupHist.meant), setup'.form = setup.form,
         setupHist'.meant = setupHist.meant
  PROVE  FormKept(setup'.form, setupHist'.meant)
  OBVIOUS

LEMMA FormUpdated ==
  ASSUME NEW s, NEW f, NEW m, SetupKeeps, updateState(s, f, m), FormKept(f, m)
  PROVE  SetupKeeps'
<1>1. /\ setup'.form = f /\ setup'.step = setup.step /\ setup'.created = setup.created
      /\ setup'.creating = setup.creating /\ setup'.opened = setup.opened
      /\ clerk' = clerk /\ setupHist'.meant = m /\ setupHist'.fails = setupHist.fails
      /\ SetupFields'
  BY DEF SetupKeeps, SetupFields, updateState
<1>2. SetupClaim'
  BY <1>1, SameClaim DEF SetupKeeps
<1> QED
  BY <1>1, <1>2 DEF SetupKeeps

LEMMA SetupStarts == WebInit => SetupKeeps
<1> SUFFICES ASSUME NEW enabled \in BOOLEAN, NEW known \in BOOLEAN, SetupOpened(enabled, known)
             PROVE  SetupKeeps
  BY DEF WebInit, SetupInit
<1>1. SetupFields /\ SetupClaim
  BY DEF SetupOpened, SetupFields, SetupClaim
<1>2. FormKept(setup.form, setupHist.meant)
  BY DEF SetupOpened, FormKept, FormFields, MeantFields, FormHolds, initialState, Blueprints
<1> QED
  BY <1>1, <1>2 DEF SetupKeeps

\* The fields of the form, one action each.
LEMMA FormStep ==
  ASSUME SetupKeeps,
         \/ TypeName \/ TypeSlug \/ ChooseBlueprint \/ ToggleSetting
         \/ ChooseProvider \/ GuideConnection \/ VerifyConnection
  PROVE  SetupKeeps'
<1> DEFINE form == setup.form
           meant == setupHist.meant
<1>1. FormKept(form, meant)
  BY DEF SetupKeeps
<1>2. CASE TypeName
  <2>1. PICK v \in Texts :
          updateState(1, [form EXCEPT !.name = v, !.slug = normalizeSlug(v)],
                         [meant EXCEPT !.name = v, !.slug = normalizeSlug(v)])
    BY <1>2 DEF TypeName
  <2> DEFINE slug == normalizeSlug(v)
             g == [form EXCEPT !.name = v]
             n == [meant EXCEPT !.name = v]
             f == [form EXCEPT !.name = v, !.slug = slug]
             m == [meant EXCEPT !.name = v, !.slug = slug]
  <2>2. FormKept(f, m)
    <3>1. FormFields(form) /\ MeantFields(meant)
      BY <1>1 DEF FormKept
    <3> HIDE DEF form, meant
    <3>2. f = [g EXCEPT !.slug = slug] /\ m = [n EXCEPT !.slug = slug]
      OBVIOUS
    <3>3. /\ g = [name |-> v, slug |-> form.slug, invites |-> form.invites,
                  blueprint |-> form.blueprint, settings |-> form.settings,
                  provider |-> form.provider, connection |-> form.connection]
          /\ n = [name |-> v, slug |-> meant.slug, settings |-> meant.settings,
                  invites |-> meant.invites, verified |-> meant.verified]
      BY <3>1 DEF FormFields, MeantFields
    <3> HIDE DEF slug, f, m, g, n
    <3>4. /\ f = [name |-> v, slug |-> slug, invites |-> form.invites,
                  blueprint |-> form.blueprint, settings |-> form.settings,
                  provider |-> form.provider, connection |-> form.connection]
          /\ m = [name |-> v, slug |-> slug, settings |-> meant.settings,
                  invites |-> meant.invites, verified |-> meant.verified]
      BY <3>2, <3>3
    <3> QED
      BY <1>1, <3>4 DEF FormKept, FormFields, MeantFields, FormHolds
  <2> HIDE DEF f, m
  <2> QED
    BY <2>1, <2>2, FormUpdated DEF f, m
<1>3. CASE TypeSlug
  <2>1. PICK v \in Texts :
          updateState(1, [form EXCEPT !.slug = normalizeSlug(v)],
                         [meant EXCEPT !.slug = normalizeSlug(v)])
    BY <1>3 DEF TypeSlug
  <2> DEFINE f == [form EXCEPT !.slug = normalizeSlug(v)]
             m == [meant EXCEPT !.slug = normalizeSlug(v)]
  <2>2. FormKept(f, m)
    BY <1>1 DEF FormKept, FormFields, MeantFields, FormHolds
  <2> HIDE DEF f, m
  <2> QED
    BY <2>1, <2>2, FormUpdated DEF f, m
<1>4. CASE ChooseBlueprint
  <2>1. PICK b \in Blueprints : updateState(3, [form EXCEPT !.blueprint = b], meant)
    BY <1>4 DEF ChooseBlueprint
  <2> DEFINE f == [form EXCEPT !.blueprint = b]
  <2>2. FormKept(f, meant)
    BY <1>1 DEF FormKept, FormFields, MeantFields, FormHolds
  <2> HIDE DEF f, meant
  <2> QED
    BY <2>1, <2>2, FormUpdated DEF f
<1>5. CASE ToggleSetting
  <2> DEFINE Flip(S, k) == IF k \in S THEN S \ {k} ELSE S \cup {k}
  <2>1. PICK k \in Settings :
          updateState(3, [form EXCEPT !.settings = Flip(form.settings, k)],
                         [meant EXCEPT !.settings = Flip(meant.settings, k)])
    BY <1>5 DEF ToggleSetting
  <2> DEFINE f == [form EXCEPT !.settings = Flip(form.settings, k)]
             m == [meant EXCEPT !.settings = Flip(meant.settings, k)]
  <2>2. FormKept(f, m)
    <3>1. /\ form.settings = meant.settings /\ form.settings \subseteq Settings
      BY <1>1 DEF FormKept, FormHolds
    <3>2. /\ Flip(form.settings, k) \subseteq Settings
          /\ Flip(form.settings, k) = Flip(meant.settings, k)
      BY <3>1
    <3> HIDE DEF Flip
    <3> QED
      BY <1>1, <3>2 DEF FormKept, FormFields, MeantFields, FormHolds
  <2> HIDE DEF f, m
  <2> QED
    BY <2>1, <2>2, FormUpdated DEF f, m
<1>6. CASE ChooseProvider
  <2>1. PICK p \in CloudNames :
          updateState(4, [form EXCEPT !.provider = p, !.connection = "idle"], meant)
    BY <1>6 DEF ChooseProvider
  <2> DEFINE g == [form EXCEPT !.provider = p]
             f == [form EXCEPT !.provider = p, !.connection = "idle"]
  <2>2. FormKept(f, meant)
    <3>1. FormFields(form)
      BY <1>1 DEF FormKept
    <3> HIDE DEF form
    <3>2. f = [g EXCEPT !.connection = "idle"]
      OBVIOUS
    <3>3. g = [name |-> form.name, slug |-> form.slug, invites |-> form.invites,
               blueprint |-> form.blueprint, settings |-> form.settings, provider |-> p,
               connection |-> form.connection]
      BY <3>1 DEF FormFields
    <3> HIDE DEF f, g
    <3>4. f = [name |-> form.name, slug |-> form.slug, invites |-> form.invites,
               blueprint |-> form.blueprint, settings |-> form.settings, provider |-> p,
               connection |-> "idle"]
      BY <3>2, <3>3
    <3> QED
      BY <1>1, <3>4 DEF FormKept, FormFields, FormHolds
  <2> HIDE DEF f, meant
  <2> QED
    BY <2>1, <2>2, FormUpdated DEF f
<1>7. CASE GuideConnection
  <2>1. updateState(4, [form EXCEPT !.connection = "guidance"], meant)
    BY <1>7 DEF GuideConnection
  <2> DEFINE f == [form EXCEPT !.connection = "guidance"]
  <2>2. FormKept(f, meant)
    BY <1>1 DEF FormKept, FormFields, MeantFields, FormHolds
  <2> HIDE DEF f, meant
  <2> QED
    BY <2>1, <2>2, FormUpdated DEF f
<1>8. CASE VerifyConnection
  <2>1. updateState(4, [form EXCEPT !.connection = "connected"],
                       [meant EXCEPT !.verified = form.provider])
    BY <1>8 DEF VerifyConnection
  <2> DEFINE f == [form EXCEPT !.connection = "connected"]
             m == [meant EXCEPT !.verified = form.provider]
  <2>2. FormKept(f, m)
    BY <1>1 DEF FormKept, FormFields, MeantFields, FormHolds
  <2> HIDE DEF f, m
  <2> QED
    BY <2>1, <2>2, FormUpdated DEF f, m
<1> QED
  BY <1>2, <1>3, <1>4, <1>5, <1>6, <1>7, <1>8

\* The list of invitations, and the user as Clerk knows it.
LEMMA ListStep ==
  ASSUME SetupKeeps, SetupSignIn \/ SetupSignOut \/ addInvite \/ RemoveInvite
  PROVE  SetupKeeps'
<1>1. /\ FormKept(setup.form, setupHist.meant) /\ SetupFields
  BY DEF SetupKeeps
<1>2. /\ setup'.step = setup.step /\ setup'.created = setup.created
      /\ setup'.creating = setup.creating /\ setup'.opened = setup.opened
      /\ clerk'.enabled = clerk.enabled /\ clerk'.claimed = clerk.claimed
      /\ clerk'.orgs = clerk.orgs /\ clerk'.late = clerk.late
      /\ clerk'.call = clerk.call /\ setupHist'.fails = setupHist.fails /\ SetupFields'
  BY <1>1 DEF SetupFields, SetupSignIn, SetupSignOut, addInvite, RemoveInvite
<1>3. SetupClaim'
  BY <1>2, SameClaim DEF SetupKeeps
<1>4. CASE SetupSignIn
  <2>1. setup'.form \in {setup.form, Prefill(setup.form)} /\ setupHist'.meant = setupHist.meant
    BY <1>1, <1>4 DEF SetupFields, SetupSignIn
  <2>2. FormKept(Prefill(setup.form), setupHist.meant)
    BY <1>1 DEF FormKept, FormFields, MeantFields, FormHolds, Prefill
  <2> QED
    BY <1>1, <1>2, <1>3, <2>1, <2>2 DEF SetupKeeps
<1>5. CASE SetupSignOut
  BY <1>1, <1>2, <1>3, <1>5 DEF SetupKeeps, SetupSignOut, SetupFields
<1>6. CASE addInvite \/ RemoveInvite
  <2>1. PICK i, e : /\ setup'.form = [setup.form EXCEPT !.invites = i]
                    /\ setupHist'.meant = [setupHist.meant EXCEPT !.invites = e]
    <3>1. CASE addInvite
      <4> DEFINE i == Append(setup.form.invites, [id |-> Now, email |-> Now])
                 e == Append(setupHist.meant.invites, Now)
      <4>1. /\ setup'.form = [setup.form EXCEPT !.invites = i]
            /\ setupHist'.meant = [setupHist.meant EXCEPT !.invites = e]
        BY <1>1, <3>1 DEF addInvite, SetupFields
      <4> HIDE DEF i, e
      <4> QED
        BY <4>1
    <3>2. CASE RemoveInvite
      <4>1. PICK k \in DOMAIN setup.form.invites :
              /\ setup' = [setup EXCEPT !.error = FALSE,
                             !.form.invites = SelectSeq(setup.form.invites, LAMBDA r :
                                                r.id # setup.form.invites[k].id)]
              /\ setupHist' = [setupHist EXCEPT !.meant.invites =
                                 SelectSeq(setupHist.meant.invites, LAMBDA x :
                                   x # setup.form.invites[k].email)]
        BY <3>2 DEF RemoveInvite
      <4> DEFINE i == SelectSeq(setup.form.invites, LAMBDA r : r.id # setup.form.invites[k].id)
                 e == SelectSeq(setupHist.meant.invites, LAMBDA x :
                        x # setup.form.invites[k].email)
      <4> HIDE DEF i, e
      <4>2. /\ setup' = [setup EXCEPT !.error = FALSE, !.form.invites = i]
            /\ setupHist' = [setupHist EXCEPT !.meant.invites = e]
        BY <4>1 DEF i, e
      <4> QED
        BY <1>1, <4>2 DEF SetupFields
    <3> QED
      BY <1>6, <3>1, <3>2
  <2>2. FormKept(setup'.form, setupHist'.meant)
    BY <1>1, <2>1 DEF FormKept, FormFields, MeantFields, FormHolds
  <2> QED
    BY <1>2, <1>3, <2>2 DEF SetupKeeps
<1> QED
  BY <1>4, <1>5, <1>6

\* The steps of the flow and the creation of the workspace.
LEMMA MoveStep ==
  ASSUME SetupKeeps,
         \/ SelectStep \/ continueFlow \/ CreateWorkspaceThrows \/ OpenDashboard
         \/ CreateWorkspaceStep \/ CreateWorkspaceReturns \/ ClaimedLate
  PROVE  SetupKeeps'
<1>1. SetupFields /\ SetupClaim
  BY DEF SetupKeeps
<1>2. setup'.form = setup.form /\ setupHist'.meant = setupHist.meant /\ SetupFields'
  BY <1>1 DEF SetupFields, SelectStep, continueFlow, CreateWorkspaceThrows, OpenDashboard,
              CreateWorkspaceStep, SetupAwait, CreateWorkspaceReturns, Failing, ClaimedLate
<1>3. FormKept(setup'.form, setupHist'.meant)
  BY <1>2, SameForm DEF SetupKeeps
<1>4. SetupClaim'
  <2>1. CASE SelectStep
    <3>1. PICK i \in 0..(setup.step - 1) : /\ setup' = [setup EXCEPT !.step = i]
                                          /\ clerk' = clerk /\ setupHist' = setupHist
      BY <2>1 DEF SelectStep
    <3>2. i \in 0..5 /\ (i > 1 => setup.step > 1)
      BY <1>1 DEF SetupClaim
    <3> QED
      BY <1>1, <3>1, <3>2 DEF SetupFields, SetupClaim
  <2>2. CASE continueFlow
    <3>1. setup.step < 5 /\ setup.creating = FALSE /\ clerk.call = "none"
      BY <1>1, <2>2 DEF SetupClaim, continueFlow
    <3>2. CASE Creates
      <4>1. /\ setup'.step = setup.step /\ setup'.created = setup.created
            /\ setup'.creating = TRUE /\ setup'.opened = setup.opened
            /\ clerk'.enabled = clerk.enabled /\ clerk'.claimed = clerk.claimed
            /\ clerk'.orgs = clerk.orgs /\ clerk'.late = clerk.late /\ setupHist' = setupHist
            /\ clerk'.call = "create" /\ setup.created = FALSE
        BY <1>1, <2>2, <3>2 DEF SetupFields, SetupClaim, continueFlow, Creates
      <4> QED
        BY <1>1, <3>1, <4>1 DEF SetupClaim
    <3>3. CASE ~Creates
      <4>1. /\ setup'.step = setup.step + 1 /\ setup'.created = setup.created
            /\ setup'.creating = setup.creating /\ setup'.opened = setup.opened
            /\ clerk' = clerk /\ setupHist' = setupHist
        BY <1>1, <2>2, <3>3 DEF SetupFields, continueFlow
      <4>2. setup.step \in 0..4 /\ (clerk.enabled /\ setup.step > 0 => setup.created)
        BY <1>1, <3>1, <3>3 DEF SetupClaim, Creates
      <4>3. clerk.enabled /\ setup'.step > 1 => setup'.created
        BY <4>1, <4>2
      <4> QED
        BY <1>1, <3>1, <4>1, <4>2, <4>3 DEF SetupClaim
    <3> QED
      BY <3>2, <3>3
  <2>3. CASE CreateWorkspaceThrows
    <3>1. /\ setup'.step = setup.step /\ setup'.created = setup.created
          /\ setup'.creating = FALSE /\ setup'.opened = setup.opened
          /\ setupHist'.fails = setupHist.fails + 1
      BY <1>1, <2>3 DEF SetupFields, CreateWorkspaceThrows
    <3>2. /\ clerk'.enabled = clerk.enabled /\ clerk'.call = "none"
          /\ clerk.call \in {"create", "activate", "claim"}
          /\ \/ /\ clerk'.orgs = clerk.orgs /\ clerk'.claimed = clerk.claimed
                /\ clerk'.late = clerk.late
             \/ /\ clerk.call = "create" /\ clerk'.orgs = clerk.orgs + 1
                /\ clerk'.claimed = clerk.claimed /\ clerk'.late = clerk.late
             \/ /\ clerk.call = "claim" /\ clerk'.orgs = clerk.orgs
                /\ \/ clerk'.claimed = clerk.claimed + 1 /\ clerk'.late = clerk.late
                   \/ clerk'.claimed = clerk.claimed /\ clerk'.late = clerk.late + 1
      BY <1>1, <2>3 DEF SetupFields, CreateWorkspaceThrows, Failing
    <3>3. setup.created = FALSE
      BY <1>1, <3>2 DEF SetupClaim
    <3> QED
      BY <1>1, <3>1, <3>2, <3>3 DEF SetupClaim
  <2>4. CASE OpenDashboard
    BY <1>1, <2>4 DEF SetupFields, SetupClaim, OpenDashboard
  <2>5. CASE CreateWorkspaceStep
    <3>1. setup' = setup /\ setupHist' = setupHist
      BY <2>5 DEF CreateWorkspaceStep
    <3>2. /\ clerk'.enabled = clerk.enabled /\ clerk'.late = clerk.late
          /\ \/ /\ clerk.call = "create" /\ clerk'.call = "activate"
                /\ clerk'.orgs = clerk.orgs + 1 /\ clerk'.claimed = clerk.claimed
             \/ /\ clerk.call = "activate" /\ clerk'.call = "claim"
                /\ clerk'.orgs = clerk.orgs /\ clerk'.claimed = clerk.claimed
             \/ /\ clerk.call = "claim" /\ clerk'.call = "created"
                /\ clerk'.orgs = clerk.orgs /\ clerk'.claimed = clerk.claimed + 1
      <4>1. CASE clerk.call = "create"
        <5> DEFINE more == [clerk EXCEPT !.orgs = clerk.orgs + 1]
        <5>1. clerk' = [more EXCEPT !.call = "activate"]
          BY <2>5, <4>1 DEF CreateWorkspaceStep, SetupAwait
        <5>2. more = [enabled |-> clerk.enabled, signedIn |-> clerk.signedIn,
                      orgs |-> clerk.orgs + 1, claimed |-> clerk.claimed, late |-> clerk.late,
                      call |-> clerk.call]
          BY <1>1 DEF SetupFields
        <5> HIDE DEF more
        <5> QED
          BY <4>1, <5>1, <5>2
      <4>2. CASE clerk.call = "activate"
        BY <1>1, <2>5, <4>2 DEF SetupFields, CreateWorkspaceStep, SetupAwait
      <4>3. CASE clerk.call = "claim"
        <5> DEFINE more == [clerk EXCEPT !.claimed = clerk.claimed + 1]
        <5>1. clerk' = [more EXCEPT !.call = "created"]
          BY <2>5, <4>3 DEF CreateWorkspaceStep, SetupAwait
        <5>2. more = [enabled |-> clerk.enabled, signedIn |-> clerk.signedIn,
                      orgs |-> clerk.orgs, claimed |-> clerk.claimed + 1, late |-> clerk.late,
                      call |-> clerk.call]
          BY <1>1 DEF SetupFields
        <5> HIDE DEF more
        <5> QED
          BY <4>3, <5>1, <5>2
      <4> QED
        BY <2>5, <4>1, <4>2, <4>3 DEF CreateWorkspaceStep, SetupAwait
    <3>3. setup.created = FALSE
      BY <1>1, <3>2 DEF SetupClaim
    <3> QED
      BY <1>1, <3>1, <3>2, <3>3 DEF SetupClaim
  <2>6. CASE CreateWorkspaceReturns
    BY <1>1, <2>6 DEF SetupFields, SetupClaim, CreateWorkspaceReturns
  <2>7. CASE ClaimedLate
    <3>1. /\ setup' = setup /\ setupHist' = setupHist /\ clerk.late > 0
          /\ clerk'.enabled = clerk.enabled /\ clerk'.orgs = clerk.orgs
          /\ clerk'.call = clerk.call /\ clerk'.claimed = clerk.claimed + 1
          /\ clerk'.late = clerk.late - 1
      BY <1>1, <2>7 DEF SetupFields, ClaimedLate
    <3> QED
      BY <1>1, <3>1 DEF SetupClaim
  <2> QED
    BY <2>1, <2>2, <2>3, <2>4, <2>5, <2>6, <2>7
<1> QED
  BY <1>2, <1>3, <1>4 DEF SetupKeeps

\* An attempt of the flow claims at most one workspace and is repeated only after
\* it failed, whatever of it was done by then; what its form holds is what the
\* user last asked for, and a provider is called connected that was verified.
THEOREM SetupKept ==
  WebSpec => [](SetupTypeOK /\ FormAsMeant /\ ConnectedIsVerified /\ ClaimPerAttempt)
<1>1. [WebNext]_webVars => [SetupNext]_setupVars
  BY DEF WebNext, On, webVars
<1>2. SetupKeeps /\ [SetupNext]_setupVars => SetupKeeps'
  <2>1. ASSUME SetupKeeps, UNCHANGED setupVars PROVE SetupKeeps'
    <3>1. SetupClaim'
      BY <2>1, SameClaim DEF SetupKeeps, setupVars
    <3> QED
      BY <2>1, <3>1 DEF SetupKeeps, SetupFields, setupVars
  <2> QED
    BY <2>1, FormStep, ListStep, MoveStep DEF SetupNext
<1>3. SetupKeeps /\ [WebNext]_webVars => SetupKeeps'
  BY <1>1, <1>2
<1>4. SetupKeeps => SetupTypeOK /\ FormAsMeant /\ ConnectedIsVerified /\ ClaimPerAttempt
  <2> SUFFICES ASSUME SetupKeeps PROVE SetupTypeOK /\ FormAsMeant /\ ConnectedIsVerified /\ ClaimPerAttempt
    OBVIOUS
  <2>1. SetupTypeOK
    BY DEF SetupKeeps, SetupClaim, FormKept, FormHolds, SetupTypeOK
  <2>2. FormAsMeant /\ ConnectedIsVerified
    BY DEF SetupKeeps, FormKept, FormHolds, FormAsMeant, ConnectedIsVerified
  <2>3. ClaimPerAttempt
    BY DEF SetupKeeps, SetupClaim, ClaimPerAttempt
  <2> QED
    BY <2>1, <2>2, <2>3
<1> QED
  BY SetupStarts, <1>3, <1>4, PTL DEF WebSpec
=============================================================================
