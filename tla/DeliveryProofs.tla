--------------------------- MODULE DeliveryProofs ---------------------------
(***************************************************************************)
(* Proofs about Delivery and its parts Transitions, Outbox and EventStream,*)
(* for every set of callers, publishers, events, writers and workspaces    *)
(* and every value of the bounds.                                          *)
(*                                                                         *)
(* Transitions: the evidence of the transitions is complete, the audit     *)
(* chain does not fork or break, and the pre-flight leaves the evidence    *)
(* that later gates ask for.  The inductive invariant follows the two      *)
(* locks.  A call that has the lock of the row acts on a snapshot that is  *)
(* the row; a call that has the lock of the chain and has read its end has *)
(* read the end that it will append to; and no two calls have the same     *)
(* lock.  The outbox and the stream follow after that.                     *)
(***************************************************************************)
EXTENDS Delivery, FiniteSetTheorems, TLAPS

\* What is left to do of a transaction: with the event of the stream (a
\* transition), and without.
sCommit   == <<"commit">>
sEvent    == <<"event", "commit">>
sInsertE  == <<"insert", "event", "commit">>
sPrevE    == <<"previous", "insert", "event", "commit">>
sLockE    == <<"lock", "previous", "insert", "event", "commit">>
sUpdateE  == <<"update", "lock", "previous", "insert", "event", "commit">>
sInsert   == <<"insert", "commit">>
sPrev     == <<"previous", "insert", "commit">>
sLock     == <<"lock", "previous", "insert", "commit">>
sUpdate   == <<"update", "lock", "previous", "insert", "commit">>
sEnabled  == <<"enabled", "fetch">>
sFetch    == <<"fetch">>

Todos == {<<>>, sCommit, sEvent, sInsertE, sPrevE, sLockE, sUpdateE, sInsert, sPrev,
          sLock, sUpdate, sEnabled, sFetch}

Legal(op) ==
  CASE op = "transition" -> {sCommit, sEvent, sInsertE, sPrevE, sLockE, sUpdateE}
    [] op = "persist"    -> {sCommit, sInsert, sPrev, sLock, sUpdate}
    [] op \in {"append", "skip"} -> {sCommit, sInsert, sPrev, sLock}
    [] op = "load"       -> {sEnabled, sFetch}
    [] OTHER             -> {<<>>}

\* The calls that have read the end of the chain, and have a number.
HasRead(c)   == Call(c).todo \in {sInsert, sInsertE, sEvent, sCommit}
HasNumber(c) == Call(c).todo \in {sEvent, sCommit}

Snap == [state : WORKFLOW_STATES, version : Nat]
CallRec == [op : {"none", "transition", "persist", "append", "skip", "load"},
            todo : Todos, to : WORKFLOW_STATES \cup {""}, policy : Nat, previous : Nat, seq : Nat]
CallerRec == [run : Snap, conditions : SUBSET TransitionConditions, call : CallRec]
ChangeRec == [from : WORKFLOW_STATES \cup {""}, to : WORKFLOW_STATES \cup {""}, version : Nat]
AuditRec == [seq : Nat, previous : Nat, op : {"transition", "persist", "append", "skip"},
             change : ChangeRec, policy : Nat]

\* The statements of a transaction, one after the other.
LEMMA TodoFacts ==
  /\ Tail(sUpdateE) = sLockE /\ Tail(sLockE) = sPrevE /\ Tail(sPrevE) = sInsertE
  /\ Tail(sInsertE) = sEvent /\ Tail(sEvent) = sCommit
  /\ Tail(sUpdate) = sLock /\ Tail(sLock) = sPrev /\ Tail(sPrev) = sInsert
  /\ Tail(sInsert) = sCommit /\ Tail(sEnabled) = sFetch
  /\ Head(sUpdateE) = "update" /\ Head(sLockE) = "lock" /\ Head(sPrevE) = "previous"
  /\ Head(sInsertE) = "insert" /\ Head(sEvent) = "event" /\ Head(sCommit) = "commit"
  /\ Head(sUpdate) = "update" /\ Head(sLock) = "lock" /\ Head(sPrev) = "previous"
  /\ Head(sInsert) = "insert" /\ Head(sEnabled) = "enabled" /\ Head(sFetch) = "fetch"
  BY DEF sCommit, sEvent, sInsertE, sPrevE, sLockE, sUpdateE, sInsert, sPrev, sLock, sUpdate,
         sEnabled, sFetch

LEMMA TodoDistinct ==
  /\ sCommit # <<>> /\ sEvent # <<>> /\ sInsertE # <<>> /\ sPrevE # <<>> /\ sLockE # <<>>
  /\ sUpdateE # <<>> /\ sInsert # <<>> /\ sPrev # <<>> /\ sLock # <<>> /\ sUpdate # <<>>
  /\ sEnabled # <<>> /\ sFetch # <<>>
  /\ sInsertE # sInsert /\ sPrevE # sPrev /\ sLockE # sLock /\ sUpdateE # sUpdate
  BY DEF sCommit, sEvent, sInsertE, sPrevE, sLockE, sUpdateE, sInsert, sPrev, sLock, sUpdate,
         sEnabled, sFetch

LEMMA TodoSets ==
  /\ "update" \in ToSet(sUpdateE) /\ "update" \in ToSet(sUpdate)
  /\ \A s \in {sCommit, sEvent, sInsertE, sPrevE, sLockE, sInsert, sPrev, sLock, sEnabled, sFetch} :
       "update" \notin ToSet(s)
  /\ \A s \in {sUpdateE, sUpdate, sLockE, sLock} : "lock" \in ToSet(s)
  /\ \A s \in {sCommit, sEvent, sInsertE, sPrevE, sInsert, sPrev, sEnabled, sFetch} :
       "lock" \notin ToSet(s)
  BY DEF sCommit, sEvent, sInsertE, sPrevE, sLockE, sUpdateE, sInsert, sPrev, sLock, sUpdate,
         sEnabled, sFetch, ToSet
-----------------------------------------------------------------------------
(* The inductive invariant                                                 *)

Snapshot == [state |-> run.state, version |-> run.version]
Audited == { e \in chain : e.op = "transition" }
Loaded  == { e \in chain : e.op = "persist" }
Left    == { e \in Audited : e.change.from = "POLICY_LOADED" }
SeqsOf(S) == { e.seq : e \in S }

\* Tail0 of a set with a greatest number is that number.
Topped(S) == S = {} \/ \E n \in S : \A k \in S : k <= n

\* The evidence for the gates behind POLICY_LOADED.
Evidence == run.policy # 0 \/ \E e \in chain : e.op = "skip"

TransitionTypes ==
  /\ run \in [state : WORKFLOW_STATES, version : Nat, policy : Nat]
  /\ chain \subseteq AuditRec
  /\ stream \in Seq(ChangeRec)
  /\ caller \in [Callers -> CallerRec]
  /\ settings \in [enabled : BOOLEAN, version : Nat \ {0}, deleted : BOOLEAN]
  /\ spent \in [calls : Nat, disturbances : Nat, seq : Nat]

\* One call.
CallOK(c) ==
  /\ Call(c).todo \in Legal(Call(c).op)
  /\ Call(c).op = "transition" =>
       assertTransition(caller[c].run.state, Call(c).to,
                        caller[c].conditions \cup {"cloudContextLoaded"})
  /\ Call(c).op = "persist" => Call(c).policy # 0
  /\ HoldsRow(c) => IF Call(c).op = "transition" THEN caller[c].run = Snapshot
                                                 ELSE run.state = "POLICY_LOADED"
  /\ HasRead(c) => Call(c).previous = Tail0(Numbers)
  /\ HasNumber(c) => /\ Call(c).seq # 0 /\ Call(c).seq <= spent.seq
                     /\ \A n \in Numbers : n < Call(c).seq
  /\ "policyRequirementsLoaded" \in caller[c].conditions => Evidence

\* Two calls.
LocksApart(c, d) == ~(HoldsRow(c) /\ HoldsRow(d)) /\ ~(HoldsChain(c) /\ HoldsChain(d))

CallsOK == /\ \A c \in Callers : CallOK(c)
           /\ \A c \in Callers : \A d \in Callers \ {c} : LocksApart(c, d)

\* The tables.
ChainOK ==
  /\ \A n \in Numbers : n <= spent.seq
  /\ Topped(Numbers) /\ Topped(SeqsOf(Loaded))
  /\ ChainUnbroken /\ PreflightEvidence
  /\ Left # {} => run.state \notin {"RECEIVED", "POLICY_LOADED"}

StreamOK == EvidenceComplete /\ (stream = <<>> => run.state = "RECEIVED")

TInv == TransitionTypes /\ CallsOK /\ ChainOK /\ StreamOK
-----------------------------------------------------------------------------
(* Statements                                                              *)

\* The stages in which a call has the lock of the row, and of the chain.
RowStage(op, todo) ==
  /\ op \in {"transition", "persist"}
  /\ todo \in {sCommit, sEvent, sInsertE, sPrevE, sLockE, sInsert, sPrev, sLock}
ChainStage(todo) == todo \in {sCommit, sEvent, sInsertE, sPrevE, sInsert, sPrev}

LEMMA Stages ==
  ASSUME NEW op, NEW todo \in Legal(op)
  PROVE  /\ todo \in Todos
         /\ (op \in {"transition", "persist"} /\ todo # <<>> /\ "update" \notin ToSet(todo))
              <=> RowStage(op, todo)
         /\ (op # "load" /\ todo # <<>> /\ "lock" \notin ToSet(todo)) <=> ChainStage(todo)
         /\ todo \in {sEvent, sCommit} => todo \in {sInsert, sInsertE, sEvent, sCommit}
         /\ todo \in {sInsert, sInsertE, sEvent, sCommit} => ChainStage(todo)
  <1>1. CASE op = "transition"
    BY <1>1, TodoSets, TodoDistinct DEF Legal, RowStage, ChainStage, Todos
  <1>2. CASE op = "persist"
    BY <1>2, TodoSets, TodoDistinct DEF Legal, RowStage, ChainStage, Todos
  <1>3. CASE op \in {"append", "skip"}
    BY <1>3, TodoSets, TodoDistinct DEF Legal, RowStage, ChainStage, Todos
  <1>4. CASE op = "load"
    <2>1. sEnabled \notin {sCommit, sEvent, sInsertE, sPrevE, sInsert, sPrev}
          /\ sFetch \notin {sCommit, sEvent, sInsertE, sPrevE, sInsert, sPrev}
      BY TodoFacts
    <2>2. QED BY <1>4, <2>1 DEF Legal, RowStage, ChainStage, Todos
  <1>5. CASE op \notin {"transition", "persist", "append", "skip", "load"}
    BY <1>5, TodoDistinct DEF Legal, RowStage, ChainStage, Todos
  <1>6. QED BY <1>1, <1>2, <1>3, <1>4, <1>5

\* What is due, and what comes after it.
LEMMA Dues ==
  ASSUME NEW op, NEW todo \in Legal(op), todo # <<>>
  PROVE  /\ Head(todo) = "update" => /\ op \in {"transition", "persist"}
                                     /\ Tail(todo) \in {sLock, sLockE} \cap Legal(op)
         /\ Head(todo) = "lock" => Tail(todo) \in {sPrev, sPrevE} \cap Legal(op)
         /\ Head(todo) = "previous" => /\ todo \in {sPrev, sPrevE}
                                       /\ Tail(todo) \in {sInsert, sInsertE} \cap Legal(op)
         /\ Head(todo) = "insert" => /\ todo \in {sInsert, sInsertE}
                                     /\ Tail(todo) \in {sCommit, sEvent} \cap Legal(op)
         /\ Head(todo) = "event" => /\ todo = sEvent
                                    /\ Tail(todo) \in {sCommit} \cap Legal(op)
         /\ Head(todo) = "commit" => /\ todo = sCommit
                                     /\ op \in {"transition", "persist", "append", "skip"}
         /\ Head(todo) = "enabled" => op = "load" /\ Tail(todo) = sFetch
         /\ Head(todo) = "fetch" => op = "load"
  <1>1. CASE op = "transition"
    BY <1>1, TodoFacts DEF Legal
  <1>2. CASE op = "persist"
    BY <1>2, TodoFacts DEF Legal
  <1>3. CASE op \in {"append", "skip"}
    BY <1>3, TodoFacts DEF Legal
  <1>4. CASE op = "load"
    BY <1>4, TodoFacts DEF Legal
  <1>5. CASE op \notin {"transition", "persist", "append", "skip", "load"}
    BY <1>5 DEF Legal
  <1>6. QED BY <1>1, <1>2, <1>3, <1>4, <1>5

LEMMA DueStage ==
  ASSUME NEW op, NEW todo \in Legal(op), todo # <<>>
  PROVE  /\ Head(todo) = "lock" => todo \in {sLock, sLockE}
         /\ Head(todo) = "previous" => todo \in {sPrev, sPrevE}
         /\ Head(todo) = "insert" => todo \in {sInsert, sInsertE}
         /\ Head(todo) = "event" => todo = sEvent
  <1>1. CASE op = "transition"
    BY <1>1, TodoFacts DEF Legal
  <1>2. CASE op = "persist"
    BY <1>2, TodoFacts DEF Legal
  <1>3. CASE op \in {"append", "skip"}
    BY <1>3, TodoFacts DEF Legal
  <1>4. CASE op = "load"
    BY <1>4, TodoFacts DEF Legal
  <1>5. CASE op \notin {"transition", "persist", "append", "skip", "load"}
    BY <1>5 DEF Legal
  <1>6. QED BY <1>1, <1>2, <1>3, <1>4, <1>5

LEMMA HoldsAre ==
  ASSUME NEW c \in Callers, Call(c).todo \in Legal(Call(c).op)
  PROVE  /\ HoldsRow(c) <=> RowStage(Call(c).op, Call(c).todo)
         /\ HoldsChain(c) <=> ChainStage(Call(c).todo)
  BY Stages DEF HoldsRow, HoldsChain, Passed

LEMMA ContinueFacts ==
  ASSUME TInv, NEW c \in Callers, NEW call \in CallRec, Continue(c, call)
  PROVE  /\ caller' \in [Callers -> CallerRec]
         /\ caller'[c].call = call /\ caller'[c].run = caller[c].run
         /\ caller'[c].conditions = caller[c].conditions
         /\ \A d \in Callers \ {c} : caller'[d] = caller[d]
         /\ UNCHANGED << run, chain, stream, settings >>
  <1>1. caller \in [Callers -> CallerRec] /\ caller[c] \in CallerRec
    BY DEF TInv, TransitionTypes
  <1>2. [caller[c] EXCEPT !.call = call] \in CallerRec
    BY <1>1 DEF CallerRec
  <1>3. caller' = [caller EXCEPT ![c] = [caller[c] EXCEPT !.call = call]]
    BY DEF Continue
  <1>4. QED BY <1>1, <1>2, <1>3 DEF Continue, CallerRec

\* A step of a call that changes no table: what it has to keep.
LEMMA ContinueKeeps ==
  ASSUME TInv, NEW c \in Callers, NEW call \in CallRec, Continue(c, call),
         spent' \in [calls : Nat, disturbances : Nat, seq : Nat], spent'.seq >= spent.seq,
         call.todo \in Legal(call.op),
         call.op = "transition" =>
           assertTransition(caller[c].run.state, call.to,
                            caller[c].conditions \cup {"cloudContextLoaded"}),
         call.op = "persist" => call.policy # 0,
         RowStage(call.op, call.todo) =>
           /\ IF call.op = "transition" THEN caller[c].run = Snapshot
                                        ELSE run.state = "POLICY_LOADED"
           /\ \A d \in Callers \ {c} : ~HoldsRow(d),
         ChainStage(call.todo) => \A d \in Callers \ {c} : ~HoldsChain(d),
         call.todo \in {sInsert, sInsertE, sEvent, sCommit} => call.previous = Tail0(Numbers),
         call.todo \in {sEvent, sCommit} =>
           call.seq # 0 /\ call.seq <= spent'.seq /\ \A n \in Numbers : n < call.seq
  PROVE  TInv'
  <1>1. /\ caller' \in [Callers -> CallerRec]
        /\ caller'[c].call = call /\ caller'[c].run = caller[c].run
        /\ caller'[c].conditions = caller[c].conditions
        /\ \A d \in Callers \ {c} : caller'[d] = caller[d]
        /\ UNCHANGED << run, chain, stream, settings >>
    BY ContinueFacts
  <1>2. TransitionTypes'
    BY <1>1 DEF TInv, TransitionTypes
  <1>3. ChainOK'
    <2>1. spent.seq \in Nat /\ spent'.seq \in Nat /\ \A n \in Numbers : n \in Nat
      BY DEF TInv, TransitionTypes, Numbers, AuditRec
    <2>2. Numbers' = Numbers /\ Loaded' = Loaded /\ Left' = Left
      BY <1>1 DEF Numbers, Loaded, Left, Audited
    <2>3. ChainUnbroken' /\ PreflightEvidence'
      BY <1>1, <2>2 DEF TInv, ChainOK, ChainUnbroken, PreflightEvidence, SnapshotAudited,
                        GateEvidence, Numbers
    <2>4. QED BY <1>1, <2>1, <2>2, <2>3 DEF TInv, ChainOK
  <1>4. StreamOK'
    BY <1>1 DEF TInv, StreamOK, EvidenceComplete
  <1>5. ASSUME NEW d \in Callers \ {c}
        PROVE  CallOK(d)' /\ (HoldsRow(d)' = HoldsRow(d)) /\ (HoldsChain(d)' = HoldsChain(d))
    <2>1. caller'[d] = caller[d] /\ CallOK(d) /\ caller[d] \in CallerRec
      BY <1>1 DEF TInv, CallsOK, TransitionTypes
    <2>2. HoldsRow(d)' = HoldsRow(d) /\ HoldsChain(d)' = HoldsChain(d)
      BY <2>1 DEF HoldsRow, HoldsChain, Passed, Call
    <2>3. spent.seq \in Nat /\ spent'.seq \in Nat /\ Call(d).seq \in Nat
      BY <2>1 DEF TInv, TransitionTypes, CallerRec, CallRec, Call
    <2>4. CallOK(d)'
      BY <1>1, <2>1, <2>2, <2>3 DEF CallOK, Call, HasRead, HasNumber, Snapshot, Numbers, Evidence
    <2>5. QED BY <2>2, <2>4
  <1>6. /\ HoldsRow(c)' <=> RowStage(call.op, call.todo)
        /\ HoldsChain(c)' <=> ChainStage(call.todo)
    BY <1>1, Stages DEF HoldsRow, HoldsChain, Passed, Call
  <1>7. CallOK(c)'
    <2>1. "policyRequirementsLoaded" \in caller[c].conditions => Evidence
      BY DEF TInv, CallsOK, CallOK
    <2>2. QED
      BY <1>1, <1>6, <2>1 DEF CallOK, Call, HasRead, HasNumber, Snapshot, Numbers, Evidence
  <1>8. \A d \in Callers \ {c} : LocksApart(c, d)' /\ LocksApart(d, c)'
    BY <1>5, <1>6 DEF LocksApart
  <1>9. CallsOK'
    BY <1>5, <1>7, <1>8 DEF CallsOK, LocksApart, TInv
  <1>10. QED BY <1>2, <1>3, <1>4, <1>9 DEF TInv

SpentType == [calls : Nat, disturbances : Nat, seq : Nat]

LEMMA CallFacts ==
  ASSUME TInv, NEW c \in Callers
  PROVE  /\ caller \in [Callers -> CallerRec] /\ caller[c] \in CallerRec /\ Call(c) \in CallRec
         /\ CallOK(c) /\ Call(c).todo \in Legal(Call(c).op)
         /\ spent \in SpentType /\ spent.seq \in Nat
         /\ \A n \in Numbers : n \in Nat /\ n <= spent.seq
  <1>1. caller \in [Callers -> CallerRec] /\ caller[c] \in CallerRec /\ Call(c) \in CallRec
    BY DEF TInv, TransitionTypes, CallerRec, Call
  <1>2. CallOK(c) /\ Call(c).todo \in Legal(Call(c).op)
    BY DEF TInv, CallsOK, CallOK
  <1>3. spent \in SpentType /\ spent.seq \in Nat
    BY DEF TInv, TransitionTypes, SpentType
  <1>4. \A n \in Numbers : n \in Nat /\ n <= spent.seq
    BY DEF TInv, TransitionTypes, ChainOK, Numbers, AuditRec
  <1>5. QED BY <1>1, <1>2, <1>3, <1>4

\* The counters.
LEMMA SpentFacts ==
  ASSUME TInv
  PROVE  /\ spent \in SpentType /\ spent.seq \in Nat
         /\ [spent EXCEPT !.calls = @ + 1] \in SpentType
         /\ [spent EXCEPT !.disturbances = @ + 1] \in SpentType
         /\ [spent EXCEPT !.seq = @ + 1] \in SpentType
         /\ [spent EXCEPT !.calls = @ + 1].seq = spent.seq
         /\ [spent EXCEPT !.calls = @ + 1].seq >= spent.seq
         /\ [spent EXCEPT !.disturbances = @ + 1].seq = spent.seq
         /\ [spent EXCEPT !.seq = @ + 1].seq = spent.seq + 1
  <1>1. spent \in [calls : Nat, disturbances : Nat, seq : Nat]
    BY DEF TInv, TransitionTypes
  <1>2. QED BY <1>1 DEF SpentType

\* A call that ends has no lock and no snapshot to keep.
LEMMA RollbackKeeps ==
  ASSUME TInv, NEW c \in Callers, Rollback(c), spent' \in SpentType, spent'.seq = spent.seq
  PROVE  TInv'
  <1>1. NotCalling \in CallRec /\ NotCalling.todo = <<>> /\ NotCalling.op = "none"
    BY DEF NotCalling, Calling, CallRec, Todos
  <1>2. <<>> \in Legal("none")
    BY DEF Legal
  <1>3. ~RowStage("none", <<>>) /\ ~ChainStage(<<>>)
        /\ <<>> \notin {sInsert, sInsertE, sEvent, sCommit}
    BY TodoDistinct DEF RowStage, ChainStage
  <1>4. spent'.seq >= spent.seq
    BY CallFacts
  <1>5. QED BY <1>1, <1>2, <1>3, <1>4, ContinueKeeps DEF Rollback, SpentType

\* A call that begins.
LEMMA BeginKeeps ==
  ASSUME TInv, NEW c \in Callers, NEW op \in {"transition", "append", "load"},
         NEW todo \in {sUpdateE, sLock, sEnabled}, NEW to \in WORKFLOW_STATES \cup {""},
         todo \in Legal(op), op = "transition" => todo = sUpdateE,
         op = "transition" => assertTransition(caller[c].run.state, to,
                                caller[c].conditions \cup {"cloudContextLoaded"}),
         Begin(c, Calling(op, todo, to))
  PROVE  TInv'
  <1> DEFINE call == Calling(op, todo, to)
  <1>1. call \in CallRec /\ call.op = op /\ call.todo = todo /\ call.to = to
    BY DEF CallRec, Todos, Calling
  <1>2. Continue(c, call) /\ spent' = [spent EXCEPT !.calls = @ + 1]
    BY DEF Begin
  <1> HIDE DEF call
  <1>3. spent' \in SpentType /\ spent'.seq = spent.seq /\ spent'.seq >= spent.seq
    BY <1>2, SpentFacts
  <1>4. ~RowStage(op, todo) /\ ~ChainStage(todo)
        /\ todo \notin {sInsert, sInsertE, sEvent, sCommit}
    BY TodoFacts, TodoDistinct DEF RowStage, ChainStage
  <1>5. QED BY <1>1, <1>2, <1>3, <1>4, ContinueKeeps DEF SpentType

LEMMA CallsBegin ==
  ASSUME TInv, NEW c \in Callers,
         load(c) \/ append(c) \/ \E to \in WORKFLOW_STATES : transition(c, to)
  PROVE  TInv'
  <1>1. CASE load(c)
    <2>1. sEnabled \in Legal("load")
      BY DEF Legal
    <2>2. QED BY <1>1, <2>1, BeginKeeps DEF load, sEnabled
  <1>2. CASE append(c)
    <2>1. Order("append") = sLock /\ sLock \in Legal("append")
      BY DEF Order, sLock, Legal
    <2>2. QED BY <1>2, <2>1, BeginKeeps DEF append
  <1>3. ASSUME NEW to \in WORKFLOW_STATES, transition(c, to) PROVE TInv'
    <2>1. Order("transition") = sUpdateE /\ sUpdateE \in Legal("transition")
      BY DEF Order, sUpdateE, Legal
    <2>2. QED BY <1>3, <2>1, BeginKeeps DEF transition
  <1>4. QED BY <1>1, <1>2, <1>3

\* The next statement of the call, with nothing read or drawn.
LEMMA DoneType ==
  ASSUME TInv, NEW c \in Callers, Call(c).todo # <<>>, Tail(Call(c).todo) \in Legal(Call(c).op)
  PROVE  /\ Done(c) \in CallRec /\ Done(c).todo = Tail(Call(c).todo) /\ Done(c).op = Call(c).op
         /\ Done(c).to = Call(c).to /\ Done(c).policy = Call(c).policy
         /\ Done(c).previous = Call(c).previous /\ Done(c).seq = Call(c).seq
  <1>1. Tail(Call(c).todo) \in Todos
    BY Stages
  <1>2. QED BY <1>1, CallFacts DEF Done, CallRec

LEMMA PreflightKeeps ==
  ASSUME TInv, NEW c \in Callers, policiesEnabled(c) \/ getPolicyRequirements(c)
  PROVE  TInv'
  <1>1. CASE policiesEnabled(c)
    <2>1. Call(c).op = "load" /\ Tail(Call(c).todo) = sFetch /\ sFetch \in Legal("load")
          /\ Call(c).todo # <<>>
      <3>1. Call(c).todo # <<>> /\ Head(Call(c).todo) = "enabled"
        BY <1>1 DEF policiesEnabled, Due
      <3>2. sFetch \in Legal("load")
        BY DEF Legal
      <3>3. QED BY <3>1, <3>2, CallFacts, Dues
    <2>2. spent' = spent /\ spent' \in SpentType /\ spent'.seq >= spent.seq
      BY <1>1, CallFacts DEF policiesEnabled
    <2>3. CASE Rollback(c)
      BY <2>2, <2>3, RollbackKeeps
    <2>4. CASE Continue(c, Done(c))
      <3>1. PICK call \in CallRec : call = Done(c)
        BY <2>1, DoneType
      <3>2. call.todo = sFetch /\ call.op = "load"
        BY <2>1, <3>1, DoneType
      <3>3. ~RowStage("load", sFetch) /\ ~ChainStage(sFetch)
            /\ sFetch \notin {sInsert, sInsertE, sEvent, sCommit}
        BY TodoFacts DEF RowStage, ChainStage
      <3>4. QED BY <2>1, <2>2, <2>4, <3>1, <3>2, <3>3, ContinueKeeps DEF SpentType
    <2>5. CASE Continue(c, [Call(c) EXCEPT !.op = "skip", !.todo = Order("skip")])
      <3>1. Order("skip") = sLock
        BY DEF Order, sLock
      <3>2. PICK call \in CallRec : call = [Call(c) EXCEPT !.op = "skip", !.todo = sLock]
        BY CallFacts DEF CallRec, Todos
      <3>3. call.todo = sLock /\ call.op = "skip"
        BY <3>2, CallFacts DEF CallRec
      <3>4. ~RowStage("skip", sLock) /\ ~ChainStage(sLock) /\ sLock \in Legal("skip")
            /\ sLock \notin {sInsert, sInsertE, sEvent, sCommit}
        BY TodoFacts DEF RowStage, ChainStage, Legal
      <3>5. QED BY <2>2, <2>5, <3>1, <3>2, <3>3, <3>4, ContinueKeeps DEF SpentType
    <2>6. QED BY <1>1, <2>3, <2>4, <2>5 DEF policiesEnabled
  <1>2. CASE getPolicyRequirements(c)
    <2>1. Order("persist") = sUpdate
      BY DEF Order, sUpdate
    <2>2. settings.version \in Nat \ {0}
      BY DEF TInv, TransitionTypes
    <2>3. PICK call \in CallRec : call = [Call(c) EXCEPT !.op = "persist", !.todo = sUpdate,
                                                         !.policy = settings.version]
      BY <2>2, CallFacts DEF CallRec, Todos
    <2>4. call.todo = sUpdate /\ call.op = "persist" /\ call.policy # 0
      BY <2>2, <2>3, CallFacts DEF CallRec
    <2>5. ~RowStage("persist", sUpdate) /\ ~ChainStage(sUpdate) /\ sUpdate \in Legal("persist")
          /\ sUpdate \notin {sInsert, sInsertE, sEvent, sCommit}
      BY TodoFacts DEF RowStage, ChainStage, Legal
    <2>6. Continue(c, call) /\ spent' = spent
      BY <1>2, <2>1, <2>3 DEF getPolicyRequirements
    <2>7. spent' \in SpentType /\ spent'.seq >= spent.seq
      BY <2>6, CallFacts
    <2>8. QED BY <2>4, <2>5, <2>6, <2>7, ContinueKeeps DEF SpentType
  <1>3. QED BY <1>1, <1>2

\* The end of the chain is a number, and the greatest.
LEMMA TailIs ==
  ASSUME NEW S, S \subseteq Nat, Topped(S)
  PROVE  /\ Tail0(S) \in Nat
         /\ S = {} => Tail0(S) = 0
         /\ S # {} => Tail0(S) \in S
         /\ \A k \in S : k <= Tail0(S)
  BY DEF Topped, Tail0

LEMMA TailInNat ==
  ASSUME TInv
  PROVE  Tail0(Numbers) \in Nat
  <1>1. Numbers \subseteq Nat /\ Topped(Numbers)
    BY DEF TInv, TransitionTypes, ChainOK, Numbers, AuditRec
  <1>2. QED BY <1>1, TailIs

\* The UPDATE takes the lock of the row when its WHERE clause finds the row.
LEMMA UpdateKeeps ==
  ASSUME TInv, NEW c \in Callers, Update(c)
  PROVE  TInv'
  <1>1. Call(c).todo # <<>> /\ Head(Call(c).todo) = "update" /\ RowFree(c) /\ spent' = spent
    BY DEF Update, Due
  <1>2. /\ Call(c).op \in {"transition", "persist"}
        /\ Tail(Call(c).todo) \in {sLock, sLockE} /\ Tail(Call(c).todo) \in Legal(Call(c).op)
    BY <1>1, CallFacts, Dues
  <1>3. spent' \in SpentType /\ spent'.seq = spent.seq /\ spent'.seq >= spent.seq
    BY <1>1, SpentFacts
  <1>4. CASE ~Matches(c)
    BY <1>3, <1>4, RollbackKeeps DEF Update
  <1>5. CASE Matches(c)
    <2>1. PICK call \in CallRec : call = Done(c)
      BY <1>1, <1>2, DoneType
    <2>2. /\ call.todo = Tail(Call(c).todo) /\ call.op = Call(c).op /\ call.to = Call(c).to
          /\ call.policy = Call(c).policy
      BY <1>1, <1>2, <2>1, DoneType
    <2>3. ~ChainStage(call.todo) /\ call.todo \notin {sInsert, sInsertE, sEvent, sCommit}
          /\ call.todo \in Legal(call.op)
      BY <1>2, <2>2, TodoFacts DEF ChainStage
    <2>4. Continue(c, call)
      BY <1>5, <2>1 DEF Update
    <2>5. /\ IF call.op = "transition" THEN caller[c].run = Snapshot
                                       ELSE run.state = "POLICY_LOADED"
          /\ \A d \in Callers \ {c} : ~HoldsRow(d)
      BY <1>1, <1>5, <2>2 DEF Matches, Snapshot, RowFree
    <2>6. /\ call.op = "transition" =>
               assertTransition(caller[c].run.state, call.to,
                                caller[c].conditions \cup {"cloudContextLoaded"})
          /\ call.op = "persist" => call.policy # 0
      BY <2>2, CallFacts DEF CallOK
    <2>7. QED BY <1>3, <2>3, <2>4, <2>5, <2>6, ContinueKeeps DEF SpentType
  <1>6. QED BY <1>4, <1>5

\* The other statements: the lock of the chain, the end of the chain, the
\* number of the new event.
LEMMA StatementKeeps ==
  ASSUME TInv, NEW c \in Callers,
         LockChain(c) \/ ReadPrevious(c) \/ InsertAudit(c) \/ InsertEvent(c)
  PROVE  TInv'
  <1>1. /\ Call(c).todo # <<>>
        /\ Head(Call(c).todo) \in {"lock", "previous", "insert", "event"}
    BY DEF LockChain, ReadPrevious, InsertAudit, InsertEvent, Due
  <1>2. Tail(Call(c).todo) \in Legal(Call(c).op)
    BY <1>1, CallFacts, Dues
  <1>3. /\ Done(c) \in CallRec /\ Done(c).todo = Tail(Call(c).todo) /\ Done(c).op = Call(c).op
        /\ Done(c).to = Call(c).to /\ Done(c).policy = Call(c).policy
        /\ Done(c).previous = Call(c).previous /\ Done(c).seq = Call(c).seq
    BY <1>1, <1>2, DoneType
  <1>4. /\ Call(c).op = "transition" =>
             assertTransition(caller[c].run.state, Call(c).to,
                              caller[c].conditions \cup {"cloudContextLoaded"})
        /\ Call(c).op = "persist" => Call(c).policy # 0
    BY CallFacts DEF CallOK
  <1>5. RowStage(Call(c).op, Tail(Call(c).todo)) => HoldsRow(c)
    <2>1. Call(c).todo \in {sLock, sLockE, sPrev, sPrevE, sInsert, sInsertE, sEvent}
      BY <1>1, CallFacts, DueStage
    <2>2. QED BY <2>1, CallFacts, HoldsAre DEF RowStage
  <1>6. RowStage(Call(c).op, Tail(Call(c).todo)) =>
          /\ IF Call(c).op = "transition" THEN caller[c].run = Snapshot
                                          ELSE run.state = "POLICY_LOADED"
          /\ \A d \in Callers \ {c} : ~HoldsRow(d)
    BY <1>5, CallFacts DEF TInv, CallsOK, CallOK, LocksApart
  <1>7. CASE LockChain(c)
    <2>1. Tail(Call(c).todo) \in {sPrev, sPrevE} /\ spent' = spent /\ Continue(c, Done(c))
      BY <1>7, CallFacts, Dues DEF LockChain, Due
    <2>2. PICK call \in CallRec : call = Done(c)
      BY <1>3
    <2>3. call.todo \notin {sInsert, sInsertE, sEvent, sCommit}
      BY <1>3, <2>1, <2>2, TodoFacts
    <2>4. \A d \in Callers \ {c} : ~HoldsChain(d)
      BY <1>7 DEF LockChain
    <2>5. spent' \in SpentType /\ spent'.seq >= spent.seq
      BY <2>1, SpentFacts
    <2>6. QED BY <1>2, <1>3, <1>4, <1>6, <2>1, <2>2, <2>3, <2>4, <2>5, ContinueKeeps DEF SpentType
  <1>8. CASE ~LockChain(c)
    <2>1. Call(c).todo \in {sPrev, sPrevE, sInsert, sInsertE, sEvent}
      <3>1. Head(Call(c).todo) \in {"previous", "insert", "event"}
        BY <1>8 DEF ReadPrevious, InsertAudit, InsertEvent, Due
      <3>2. QED BY <1>1, <3>1, CallFacts, DueStage
    <2>2. HoldsChain(c) /\ \A d \in Callers \ {c} : ~HoldsChain(d)
      BY <2>1, CallFacts, HoldsAre DEF ChainStage, TInv, CallsOK, LocksApart
    <2>3. CASE ReadPrevious(c)
      <3>1. Tail(Call(c).todo) \in {sInsert, sInsertE} /\ spent' = spent
            /\ Continue(c, [Done(c) EXCEPT !.previous = Tail0(Numbers)])
        BY <2>3, CallFacts, Dues DEF ReadPrevious, Due
      <3>2. Tail0(Numbers) \in Nat
        BY TailInNat
      <3>3. PICK call \in CallRec : call = [Done(c) EXCEPT !.previous = Tail0(Numbers)]
        BY <1>3, <3>2 DEF CallRec
      <3>4. /\ call.todo = Tail(Call(c).todo) /\ call.op = Call(c).op /\ call.to = Call(c).to
            /\ call.policy = Call(c).policy /\ call.previous = Tail0(Numbers)
        BY <1>3, <3>3 DEF CallRec
      <3>5. call.todo \notin {sEvent, sCommit}
        BY <3>1, <3>4, TodoFacts
      <3>6. spent' \in SpentType /\ spent'.seq >= spent.seq
        BY <3>1, SpentFacts
      <3>7. QED BY <1>2, <1>4, <1>6, <2>2, <3>1, <3>3, <3>4, <3>5, <3>6, ContinueKeeps
                DEF SpentType
    <2>4. CASE InsertAudit(c)
      <3>1. Call(c).todo \in {sInsert, sInsertE} /\ spent' = [spent EXCEPT !.seq = @ + 1]
            /\ Continue(c, [Done(c) EXCEPT !.seq = spent.seq + 1])
        BY <2>4, CallFacts, Dues DEF InsertAudit, Due
      <3>2. spent' \in SpentType /\ spent'.seq = spent.seq + 1 /\ spent.seq \in Nat
            /\ spent'.seq >= spent.seq
        BY <3>1, SpentFacts
      <3> DEFINE number == spent.seq + 1
      <3>n. number \in Nat
        BY <3>2
      <3> HIDE DEF number
      <3>m. PICK call \in CallRec : call = [Done(c) EXCEPT !.seq = number]
        BY <1>3, <3>n DEF CallRec
      <3>3. call = [Done(c) EXCEPT !.seq = spent.seq + 1]
        BY <3>m DEF number
      <3>4. /\ call.todo = Tail(Call(c).todo) /\ call.op = Call(c).op /\ call.to = Call(c).to
            /\ call.policy = Call(c).policy /\ call.previous = Call(c).previous
            /\ call.seq = spent.seq + 1
        BY <1>3, <3>3 DEF CallRec
      <3>5. Call(c).previous = Tail0(Numbers)
        BY <3>1, CallFacts DEF CallOK, HasRead
      <3>6. call.seq # 0 /\ call.seq <= spent'.seq /\ \A n \in Numbers : n < call.seq
        BY <3>2, <3>4, CallFacts
      <3>7. QED BY <1>2, <1>4, <1>6, <2>2, <3>1, <3>2, <3>3, <3>4, <3>5, <3>6, ContinueKeeps
                DEF SpentType
    <2>5. CASE InsertEvent(c)
      <3>1. Call(c).todo = sEvent /\ spent' = spent /\ Continue(c, Done(c))
        BY <2>5, CallFacts, Dues DEF InsertEvent, Due
      <3>2. spent' \in SpentType /\ spent'.seq = spent.seq /\ spent'.seq >= spent.seq
        BY <3>1, SpentFacts
      <3>3. PICK call \in CallRec : call = Done(c)
        BY <1>3
      <3>4. /\ Call(c).previous = Tail0(Numbers)
            /\ Call(c).seq # 0 /\ Call(c).seq <= spent'.seq /\ \A n \in Numbers : n < Call(c).seq
        BY <3>1, <3>2, CallFacts DEF CallOK, HasRead, HasNumber
      <3>5. QED BY <1>2, <1>3, <1>4, <1>6, <2>2, <3>1, <3>2, <3>3, <3>4, ContinueKeeps
                DEF SpentType
    <2>6. QED BY <1>8, <2>3, <2>4, <2>5
  <1>9. QED BY <1>7, <1>8

LEMMA FailureKeeps ==
  ASSUME TInv, NEW c \in Callers, StatementFails(c)
  PROVE  TInv'
  <1>1. spent' = [spent EXCEPT !.disturbances = @ + 1] /\ Rollback(c)
    BY DEF StatementFails, Disturbed
  <1>2. QED BY <1>1, SpentFacts, RollbackKeeps

\* A caller that has no call reads the run.
LEMMA ReadRunKeeps ==
  ASSUME TInv, NEW c \in Callers, ReadRun(c)
  PROVE  TInv'
  <1>1. Call(c) = NotCalling /\ NotCalling.todo = <<>> /\ NotCalling.op = "none"
    BY DEF ReadRun, NotCalling, Calling
  <1>2. run \in [state : WORKFLOW_STATES, version : Nat, policy : Nat]
    BY DEF TInv, TransitionTypes
  <1>3. caller' = [caller EXCEPT ![c] = [caller[c] EXCEPT !.run = Snapshot]]
        /\ UNCHANGED << run, chain, stream, settings, spent >>
    BY DEF ReadRun, Snapshot
  <1>4. Snapshot \in Snap
    BY <1>2 DEF Snapshot, Snap
  <1>5. /\ caller' \in [Callers -> CallerRec]
        /\ caller'[c].call = caller[c].call /\ caller'[c].conditions = caller[c].conditions
        /\ \A d \in Callers \ {c} : caller'[d] = caller[d]
    BY <1>3, <1>4, CallFacts DEF CallerRec
  <1>6. TransitionTypes' /\ ChainOK' /\ StreamOK'
    <2>1. TransitionTypes'
      BY <1>3, <1>5 DEF TInv, TransitionTypes
    <2>2. ChainOK'
      BY <1>3 DEF TInv, ChainOK, Numbers, Loaded, Left, Audited,
                  ChainUnbroken, PreflightEvidence, SnapshotAudited, GateEvidence
    <2>3. StreamOK'
      BY <1>3 DEF TInv, StreamOK, EvidenceComplete
    <2>4. QED BY <2>1, <2>2, <2>3
  <1>7. \A d \in Callers : Call(d)' = Call(d)
    BY <1>5 DEF Call
  <1>8. \A d \in Callers : HoldsRow(d)' = HoldsRow(d) /\ HoldsChain(d)' = HoldsChain(d)
    BY <1>7 DEF HoldsRow, HoldsChain, Passed
  <1>9. ASSUME NEW d \in Callers \ {c} PROVE CallOK(d)'
    BY <1>3, <1>5, <1>7, <1>8 DEF TInv, CallsOK, CallOK, HasRead, HasNumber, Snapshot, Numbers,
                                  Evidence
  <1>10. CallOK(c)'
    <2>1. ~HoldsRow(c)
      BY <1>1 DEF HoldsRow
    <2>2. CallOK(c)
      BY CallFacts
    <2>3. QED BY <1>1, <1>3, <1>5, <1>7, <1>8, <2>1, <2>2
              DEF CallOK, HasRead, HasNumber, Numbers, Evidence
  <1>11. CallsOK'
    BY <1>8, <1>9, <1>10 DEF TInv, CallsOK, LocksApart
  <1>12. QED BY <1>6, <1>11 DEF TInv

LEMMA SetPoliciesKeeps ==
  ASSUME TInv, SetPolicies
  PROVE  TInv'
  <1>1. spent' = [spent EXCEPT !.disturbances = @ + 1] /\ UNCHANGED << run, chain, stream, caller >>
    BY DEF SetPolicies, Disturbed
  <1>2. spent' \in SpentType /\ spent'.seq = spent.seq
    BY <1>1, SpentFacts
  <1>3. settings' \in [enabled : BOOLEAN, version : Nat \ {0}, deleted : BOOLEAN]
    <2>1. settings \in [enabled : BOOLEAN, version : Nat \ {0}, deleted : BOOLEAN]
      BY DEF TInv, TransitionTypes
    <2>2. CASE settings' = [settings EXCEPT !.version = @ + 1]
      BY <2>1, <2>2
    <2>3. CASE settings' = [settings EXCEPT !.enabled = ~@]
      BY <2>1, <2>3
    <2>4. CASE settings' = [settings EXCEPT !.deleted = TRUE]
      BY <2>1, <2>4
    <2>5. QED BY <2>2, <2>3, <2>4 DEF SetPolicies
  <1>4. TransitionTypes'
    BY <1>1, <1>2, <1>3 DEF TInv, TransitionTypes, SpentType
  <1>5. ChainOK' /\ StreamOK'
    BY <1>1, <1>2 DEF TInv, ChainOK, StreamOK, Numbers, Loaded, Left, Audited,
                      ChainUnbroken, PreflightEvidence, SnapshotAudited, GateEvidence,
                      EvidenceComplete
  <1>6. CallsOK'
    <2>1. CallsOK
      BY DEF TInv
    <2>2. QED
      BY <1>1, <1>2, <2>1 DEF CallsOK, CallOK, LocksApart, HoldsRow, HoldsChain, Passed, Call,
                              HasRead, HasNumber, Snapshot, Numbers, Evidence
  <1>7. QED BY <1>4, <1>5, <1>6 DEF TInv

\* What the table says of the three states that the evidence is about.
LEMMA TableFacts ==
  ASSUME NEW from \in WORKFLOW_STATES, NEW to, NEW conditions, assertTransition(from, to, conditions)
  PROVE  /\ to \in WORKFLOW_STATES
         /\ to # "RECEIVED" /\ (to = "POLICY_LOADED" => from = "RECEIVED")
         /\ to = "MANIFEST_CREATING" => "policyRequirementsLoaded" \in conditions
  <1>1. PICK t \in ALLOWED_TRANSITIONS(from) : t.to = to /\ t.requiredConditions \subseteq conditions
    BY DEF assertTransition
  <1>2. /\ t.to \in WORKFLOW_STATES
        /\ t.to # "RECEIVED" /\ (t.to = "POLICY_LOADED" => from = "RECEIVED")
        /\ t.to = "MANIFEST_CREATING" => "policyRequirementsLoaded" \in t.requiredConditions
    <2>1. CASE t \in EXIT_TO_FAILURE_OR_CANCELLATION
      BY <2>1 DEF EXIT_TO_FAILURE_OR_CANCELLATION, To, WORKFLOW_STATES
    <2>2. CASE t \in ForwardTransitions(from)
      BY <2>2 DEF ForwardTransitions, To, WORKFLOW_STATES, PlanningContext
    <2>3. QED BY <1>1, <2>1, <2>2 DEF ALLOWED_TRANSITIONS
  <1>3. QED BY <1>1, <1>2

-----------------------------------------------------------------------------
(* The commit                                                              *)

\* A commit, acknowledged or not; conditions is what the caller then has.
CommitOf(c) ==
  /\ Due(c, "commit") /\ Committed(c)
  /\ spent' \in SpentType /\ spent'.seq = spent.seq
  /\ caller' \in [Callers -> CallerRec] /\ caller'[c].call = NotCalling
  /\ caller'[c].conditions \in {Conditions(c), caller[c].conditions}
  /\ \A d \in Callers \ {c} : caller'[d] = caller[d]

\* At the commit the call has both the locks that it needs, and a number
\* that is greater than every number of the chain.
LEMMA AtCommit ==
  ASSUME TInv, NEW c \in Callers, Due(c, "commit")
  PROVE  /\ Call(c).todo = sCommit /\ Call(c).op \in {"transition", "persist", "append", "skip"}
         /\ \A d \in Callers \ {c} : ~HoldsChain(d)
         /\ Call(c).op \in {"transition", "persist"} => \A d \in Callers \ {c} : ~HoldsRow(d)
         /\ Call(c).op = "transition" =>
              /\ caller[c].run = Snapshot
              /\ assertTransition(run.state, Call(c).to,
                                  caller[c].conditions \cup {"cloudContextLoaded"})
         /\ Call(c).op = "persist" => run.state = "POLICY_LOADED" /\ Call(c).policy # 0
         /\ Call(c).previous = Tail0(Numbers)
         /\ Call(c).seq \in Nat \ {0} /\ Call(c).seq <= spent.seq
         /\ \A n \in Numbers : n < Call(c).seq
  <1>1. Call(c).todo = sCommit /\ Call(c).op \in {"transition", "persist", "append", "skip"}
    BY CallFacts, Dues DEF Due
  <1>2. HoldsChain(c) /\ (Call(c).op \in {"transition", "persist"} => HoldsRow(c))
    BY <1>1, CallFacts, HoldsAre DEF RowStage, ChainStage
  <1>3. HasRead(c) /\ HasNumber(c)
    BY <1>1 DEF HasRead, HasNumber
  <1>4. CallOK(c) /\ Call(c).seq \in Nat
    BY CallFacts DEF CallRec
  <1>5. Call(c).op = "transition" =>
          /\ caller[c].run = Snapshot
          /\ assertTransition(run.state, Call(c).to,
                              caller[c].conditions \cup {"cloudContextLoaded"})
    BY <1>2, <1>4 DEF CallOK, Snapshot
  <1>6. Call(c).op = "persist" => run.state = "POLICY_LOADED" /\ Call(c).policy # 0
    BY <1>2, <1>4 DEF CallOK
  <1>7. /\ \A d \in Callers \ {c} : ~HoldsChain(d)
        /\ Call(c).op \in {"transition", "persist"} => \A d \in Callers \ {c} : ~HoldsRow(d)
    BY <1>2 DEF TInv, CallsOK, LocksApart
  <1>8. QED BY <1>1, <1>3, <1>4, <1>5, <1>6, <1>7 DEF CallOK

\* The new event of the chain.
LEMMA NewEvent ==
  ASSUME TInv, NEW c \in Callers, CommitOf(c)
  PROVE  /\ AuditOf(c) \in AuditRec /\ AuditOf(c).seq = Call(c).seq
         /\ AuditOf(c).previous = Tail0(Numbers) /\ AuditOf(c).op = Call(c).op
         /\ AuditOf(c).policy = Call(c).policy
         /\ Call(c).op = "transition" => AuditOf(c).change = Change(c)
         /\ Change(c) \in ChangeRec /\ Change(c).from = caller[c].run.state
         /\ Change(c).to = Call(c).to /\ Change(c).version = caller[c].run.version + 1
         /\ chain' = chain \cup {AuditOf(c)} /\ Numbers' = Numbers \cup {Call(c).seq}
         /\ AuditOf(c) \notin chain
  <1>0. caller[c].run.state \in WORKFLOW_STATES \cup {""} /\ Call(c).to \in WORKFLOW_STATES \cup {""}
    BY CallFacts DEF CallerRec, CallRec, Snap
  <1>1. /\ caller[c].run.version \in Nat /\ caller[c].run.version + 1 \in Nat
        /\ Call(c).policy \in Nat /\ Call(c).previous \in Nat /\ Call(c).seq \in Nat
    <2>1. /\ caller[c].run.version \in Nat
          /\ Call(c).policy \in Nat /\ Call(c).previous \in Nat /\ Call(c).seq \in Nat
      BY CallFacts DEF CallerRec, CallRec, Snap
    <2>2. QED BY <2>1
  <1>2. /\ Call(c).op \in {"transition", "persist", "append", "skip"}
        /\ Call(c).previous = Tail0(Numbers) /\ \A n \in Numbers : n < Call(c).seq
    BY AtCommit DEF CommitOf
  <1>3. /\ Change(c) \in ChangeRec /\ Change(c).from = caller[c].run.state
        /\ Change(c).to = Call(c).to /\ Change(c).version = caller[c].run.version + 1
    <2> DEFINE next == caller[c].run.version + 1
    <2>1. next \in Nat /\ Change(c) = [from |-> caller[c].run.state, to |-> Call(c).to,
                                       version |-> next]
      BY <1>1 DEF Change
    <2> HIDE DEF next
    <2> DEFINE States == WORKFLOW_STATES \cup {""}
    <2>2. /\ caller[c].run.state \in States /\ Call(c).to \in States
          /\ ChangeRec = [from : States, to : States, version : Nat]
      BY <1>0 DEF ChangeRec
    <2> HIDE DEF States
    <2>4. Change(c) \in ChangeRec /\ Change(c).version = next
      BY <2>1, <2>2
    <2>3. QED BY <2>1, <2>4 DEF next
  <1>4. [from |-> "", to |-> "", version |-> 0] \in ChangeRec
    BY DEF ChangeRec
  <1>5. AuditOf(c) \in AuditRec
    <2>1. PICK change \in ChangeRec : change = IF Call(c).op = "transition" THEN Change(c)
                                              ELSE [from |-> "", to |-> "", version |-> 0]
      BY <1>3, <1>4
    <2>2. AuditOf(c) = [seq |-> Call(c).seq, previous |-> Call(c).previous, op |-> Call(c).op,
                        change |-> change, policy |-> Call(c).policy]
      BY <2>1 DEF AuditOf
    <2>3. QED BY <1>1, <1>2, <2>2 DEF AuditRec
  <1>6. /\ AuditOf(c).seq = Call(c).seq
        /\ AuditOf(c).previous = Tail0(Numbers) /\ AuditOf(c).op = Call(c).op
        /\ AuditOf(c).policy = Call(c).policy
        /\ Call(c).op = "transition" => AuditOf(c).change = Change(c)
    BY <1>2 DEF AuditOf
  <1>7. chain' = chain \cup {AuditOf(c)}
    BY DEF CommitOf, Committed
  <1>8. Numbers' = Numbers \cup {Call(c).seq}
    BY <1>6, <1>7 DEF Numbers
  <1>9. AuditOf(c) \notin chain
    <2>1. ~(Call(c).seq < Call(c).seq)
      BY <1>1
    <2>2. AuditOf(c) \in chain => AuditOf(c).seq \in Numbers
      BY DEF Numbers
    <2>3. QED BY <1>2, <1>6, <2>1, <2>2
  <1>10. QED BY <1>3, <1>5, <1>6, <1>7, <1>8, <1>9

\* The new event refers to the event before it, and no older event is
\* disturbed.
LEMMA CommitChain ==
  ASSUME TInv, NEW c \in Callers, CommitOf(c)
  PROVE  ChainUnbroken' /\ Topped(Numbers)' /\ \A n \in Numbers' : n <= spent'.seq
  <1> DEFINE s == Call(c).seq
             N == Numbers
  <1>1. s \in Nat /\ s <= spent.seq /\ N \subseteq Nat
        /\ (\A n \in N : n < s) /\ Numbers' = N \cup {s} /\ spent.seq \in Nat
        /\ (\A n \in N : n <= spent.seq) /\ spent'.seq = spent.seq
    BY AtCommit, NewEvent, CallFacts DEF CommitOf
  <1>2. AuditOf(c).seq = s /\ AuditOf(c).previous = Tail0(N) /\ chain' = chain \cup {AuditOf(c)}
    BY NewEvent
  <1>3. \A e \in chain : e.seq \in N /\ e.previous = Tail0({ n \in N : n < e.seq })
    BY DEF TInv, ChainOK, ChainUnbroken, Numbers
  <1> HIDE DEF s, N
  <1>4. { n \in N \cup {s} : n < s } = N
    <2>1. ~(s < s)
      BY <1>1
    <2>2. QED BY <1>1, <2>1
  <1>5. ASSUME NEW k \in N PROVE { n \in N \cup {s} : n < k } = { n \in N : n < k }
    <2>1. ~(s < k) /\ k \in Nat
      BY <1>1
    <2>2. QED BY <2>1
  <1>6. ChainUnbroken'
    <2>1. ASSUME NEW e \in chain' PROVE e.previous = Tail0({ n \in N \cup {s} : n < e.seq })
      <3>1. CASE e \in chain
        BY <1>3, <1>5, <3>1
      <3>2. CASE e = AuditOf(c)
        BY <1>2, <1>4, <3>2
      <3>3. QED BY <1>2, <2>1, <3>1, <3>2
    <2>2. QED BY <1>1, <2>1 DEF ChainUnbroken, Tail0
  <1>7. Topped(Numbers)'
    <2>1. \A k \in N \cup {s} : k <= s
      BY <1>1
    <2>2. QED BY <1>1, <2>1 DEF Topped
  <1>8. \A n \in Numbers' : n <= spent'.seq
    BY <1>1
  <1>9. QED BY <1>6, <1>7, <1>8

\* What the commit does to the row.
LEMMA CommitRow ==
  ASSUME TInv, NEW c \in Callers, CommitOf(c)
  PROVE  /\ run' \in [state : WORKFLOW_STATES, version : Nat, policy : Nat]
         /\ Call(c).op = "transition" => /\ run'.state = Call(c).to /\ run'.policy = run.policy
                                         /\ run'.version = run.version + 1
                                         /\ stream' = Append(stream, Change(c))
                                         /\ Call(c).to \in WORKFLOW_STATES
         /\ Call(c).op # "transition" => /\ run'.state = run.state /\ run'.version = run.version
                                         /\ stream' = stream
         /\ Call(c).op = "persist" => run'.policy = Call(c).policy
         /\ Call(c).op \in {"append", "skip"} => run' = run
  <1>1. run \in [state : WORKFLOW_STATES, version : Nat, policy : Nat] /\ Call(c).policy \in Nat
    BY CallFacts DEF TInv, TransitionTypes, CallRec
  <1>2. Call(c).op \in {"transition", "persist", "append", "skip"}
    BY AtCommit DEF CommitOf
  <1>3. CASE Call(c).op = "transition"
    <2>1. Call(c).to \in WORKFLOW_STATES
      BY <1>1, <1>3, AtCommit, TableFacts DEF CommitOf
    <2>2. run' = [run EXCEPT !.state = Call(c).to, !.version = @ + 1]
          /\ stream' = Append(stream, Change(c))
      BY <1>3 DEF CommitOf, Committed
    <2>3. PICK v \in Nat : v = run.version + 1
      BY <1>1
    <2>4. run' = [state |-> Call(c).to, version |-> v, policy |-> run.policy]
      BY <1>1, <2>2, <2>3
    <2>5. QED BY <1>1, <1>3, <2>1, <2>2, <2>3, <2>4
  <1>4. CASE Call(c).op = "persist"
    <2>1. run' = [run EXCEPT !.policy = Call(c).policy] /\ stream' = stream
      BY <1>4 DEF CommitOf, Committed
    <2>2. QED BY <1>1, <1>4, <2>1
  <1>5. CASE Call(c).op \in {"append", "skip"}
    <2>1. run' = run /\ stream' = stream
      BY <1>5 DEF CommitOf, Committed
    <2>2. QED BY <1>1, <1>5, <2>1
  <1>6. QED BY <1>2, <1>3, <1>4, <1>5

\* Evidence is not lost, and what a load returns as evidence is evidence.
LEMMA CommitEvidence ==
  ASSUME TInv, NEW c \in Callers, CommitOf(c)
  PROVE  /\ Evidence => Evidence'
         /\ "policyRequirementsLoaded" \in caller'[c].conditions => Evidence'
  <1>1. chain' = chain \cup {AuditOf(c)} /\ AuditOf(c).op = Call(c).op
    BY NewEvent
  <1>2. Call(c).op \in {"transition", "persist", "append", "skip"}
        /\ (Call(c).op = "persist" => Call(c).policy # 0)
    BY AtCommit DEF CommitOf
  <1>3. Call(c).op = "persist" => Evidence'
    BY <1>2, CommitRow DEF Evidence
  <1>4. Call(c).op # "persist" => run'.policy = run.policy
    BY <1>2, CommitRow
  <1>5. Evidence => Evidence'
    BY <1>1, <1>3, <1>4 DEF Evidence
  <1>6. Call(c).op = "skip" => Evidence'
    BY <1>1 DEF Evidence
  <1>7. "policyRequirementsLoaded" \in caller[c].conditions => Evidence
    BY CallFacts DEF CallOK
  <1>8. CASE Call(c).op \in {"persist", "skip"}
    BY <1>3, <1>5, <1>6, <1>8
  <1>9. CASE Call(c).op \notin {"persist", "skip"}
    <2>1. caller'[c].conditions = caller[c].conditions
      BY <1>9 DEF CommitOf, Conditions
    <2>2. QED BY <1>5, <1>7, <2>1
  <1>10. QED BY <1>8, <1>9

\* The snapshot in the row is that of the last pre-flight, and none comes
\* after the transition out of POLICY_LOADED.
LEMMA CommitPreflight ==
  ASSUME TInv, NEW c \in Callers, CommitOf(c)
  PROVE  /\ PreflightEvidence' /\ Topped(SeqsOf(Loaded))'
         /\ Left' # {} => run'.state \notin {"RECEIVED", "POLICY_LOADED"}
  <1> DEFINE e == AuditOf(c)
             s == Call(c).seq
  <1>1. /\ chain' = chain \cup {e} /\ e.seq = s /\ e.op = Call(c).op /\ e.policy = Call(c).policy
        /\ (Call(c).op = "transition" => e.change = Change(c)) /\ Change(c).from = caller[c].run.state
    BY NewEvent
  <1>2. /\ Call(c).op \in {"transition", "persist", "append", "skip"}
        /\ (Call(c).op = "persist" => run.state = "POLICY_LOADED")
    BY AtCommit DEF CommitOf
  <1>3. s \in Nat /\ 0 < s
    <2>1. s \in Nat \ {0}
      BY AtCommit DEF CommitOf
    <2> HIDE DEF s
    <2>2. QED BY <2>1
  <1>4. \A f \in chain : f.seq \in Nat /\ f.seq < s
    BY AtCommit, CallFacts DEF CommitOf, Numbers
  <1> HIDE DEF e, s
  <1>5. /\ SnapshotAudited /\ GateEvidence /\ Topped(SeqsOf(Loaded))
        /\ Left # {} => run.state \notin {"RECEIVED", "POLICY_LOADED"}
    BY DEF TInv, ChainOK, PreflightEvidence
  <1>6. SeqsOf(Loaded) \subseteq Nat /\ \A n \in SeqsOf(Loaded) : n < s
    BY <1>4 DEF SeqsOf, Loaded
  <1>7. Tail0(SeqsOf(Loaded)) < s /\ Tail0(SeqsOf(Loaded)) \in Nat
    BY <1>3, <1>5, <1>6, TailIs
  <1>8. /\ run.policy = IF Loaded = {} THEN 0
                        ELSE (CHOOSE f \in Loaded : f.seq = Tail0(SeqsOf(Loaded))).policy
        /\ \A f \in Left : Tail0(SeqsOf(Loaded)) < f.seq
    BY <1>5 DEF SnapshotAudited, Loaded, Left, Audited, SeqsOf
  <1>9. GateEvidence'
    <2>1. CASE Call(c).op = "transition" /\ Call(c).to = "MANIFEST_CREATING"
      <3>1. "policyRequirementsLoaded" \in caller[c].conditions \cup {"cloudContextLoaded"}
        <4>1. run.state \in WORKFLOW_STATES
          BY DEF TInv, TransitionTypes
        <4>2. assertTransition(run.state, Call(c).to,
                               caller[c].conditions \cup {"cloudContextLoaded"})
          BY <2>1, AtCommit DEF CommitOf
        <4>3. QED BY <2>1, <4>1, <4>2, TableFacts
      <3>2. Evidence
        BY <3>1, CallFacts DEF CallOK
      <3>3. QED BY <3>2, CommitEvidence DEF GateEvidence, Evidence
    <2>2. CASE Call(c).op = "transition" /\ Call(c).to # "MANIFEST_CREATING"
      BY <2>2, CommitRow DEF GateEvidence
    <2>3. CASE Call(c).op # "transition"
      BY <1>5, <2>3, CommitRow, CommitEvidence DEF GateEvidence, Evidence
    <2>4. QED BY <2>1, <2>2, <2>3
  <1>10. CASE Call(c).op = "persist"
    <2>1. Loaded' = Loaded \cup {e} /\ Left' = Left /\ Left = {}
      BY <1>1, <1>2, <1>5, <1>10 DEF Loaded, Left, Audited
    <2>2. SeqsOf(Loaded)' = SeqsOf(Loaded) \cup {s}
      BY <1>1, <2>1 DEF SeqsOf
    <2>3. \A n \in SeqsOf(Loaded) \cup {s} : n \in Nat /\ n <= s
      BY <1>3, <1>6
    <2>4. Topped(SeqsOf(Loaded))'
      BY <2>2, <2>3 DEF Topped
    <2>5. Tail0(SeqsOf(Loaded) \cup {s}) = s
      <3>1. Topped(SeqsOf(Loaded) \cup {s})
        BY <2>3 DEF Topped
      <3>2. PICK t \in Nat : t = Tail0(SeqsOf(Loaded) \cup {s})
        BY <2>3, <3>1, TailIs
      <3>3. t <= s /\ s <= t
        BY <2>3, <3>1, <3>2, TailIs
      <3>4. QED BY <1>3, <3>2, <3>3
    <2>6. (CHOOSE f \in Loaded \cup {e} : f.seq = s) = e
      <3>1. \A f \in Loaded : f.seq # s
        BY <1>3, <1>4 DEF Loaded
      <3>2. QED BY <1>1, <3>1
    <2>7. run'.policy = e.policy
      BY <1>1, <1>10, CommitRow
    <2>8. SnapshotAudited'
      BY <2>1, <2>2, <2>5, <2>6, <2>7 DEF SnapshotAudited, Loaded, Left, Audited, SeqsOf, Tail0
    <2>9. QED BY <1>9, <2>1, <2>4, <2>8 DEF PreflightEvidence
  <1>11. CASE Call(c).op # "persist"
    <2>1. Loaded' = Loaded /\ SeqsOf(Loaded)' = SeqsOf(Loaded) /\ run'.policy = run.policy
      BY <1>1, <1>2, <1>11, CommitRow DEF Loaded, SeqsOf
    <2>2. Left' \subseteq Left \cup {e} /\ (e \in Left' => e.op = "transition" /\ e.change.from = "POLICY_LOADED")
      BY <1>1 DEF Left, Audited
    <2>3. \A f \in Left' : Tail0(SeqsOf(Loaded)) < f.seq
      BY <1>1, <1>7, <1>8, <2>2
    <2>4. SnapshotAudited'
      BY <1>8, <2>1, <2>3 DEF SnapshotAudited, Loaded, Left, Audited, SeqsOf, Tail0
    <2>5. Left' # {} => run'.state \notin {"RECEIVED", "POLICY_LOADED"}
      <3>1. CASE Call(c).op = "transition"
        <4>1. /\ Call(c).to # "RECEIVED" /\ (Call(c).to = "POLICY_LOADED" => run.state = "RECEIVED")
              /\ caller[c].run.state = run.state
          <5>1. caller[c].run.state = run.state
            <6>1. caller[c].run = Snapshot
              BY <3>1, AtCommit DEF CommitOf
            <6>2. QED BY <6>1 DEF Snapshot
          <5>2. run.state \in WORKFLOW_STATES
            BY DEF TInv, TransitionTypes
          <5>3. assertTransition(run.state, Call(c).to,
                                 caller[c].conditions \cup {"cloudContextLoaded"})
            BY <3>1, AtCommit DEF CommitOf
          <5>4. QED BY <5>1, <5>2, <5>3, TableFacts
        <4>2. Left' # {} => run.state # "RECEIVED"
          BY <1>1, <1>5, <2>2, <3>1, <4>1
        <4>3. QED BY <3>1, <4>1, <4>2, CommitRow
      <3>2. CASE Call(c).op # "transition"
        BY <1>1, <1>5, <2>2, <3>2, CommitRow
      <3>3. QED BY <3>1, <3>2
    <2>6. QED BY <1>5, <1>9, <2>1, <2>4, <2>5 DEF PreflightEvidence
  <1>12. QED BY <1>10, <1>11

\* The new version of the run has its audit event and its event of the
\* stream, and they continue those before.
LEMMA CommitStream ==
  ASSUME TInv, NEW c \in Callers, CommitOf(c)
  PROVE  StreamOK' /\ stream' \in Seq(ChangeRec)
  <1> DEFINE e == AuditOf(c)
             g == Change(c)
             v == run.version + 1
  <1>1. stream \in Seq(ChangeRec) /\ run.version \in Nat /\ run.state \in WORKFLOW_STATES
    BY DEF TInv, TransitionTypes
  <1>2. /\ Len(stream) = run.version /\ { f.change : f \in Audited } = ToSet(stream)
        /\ \A d, f \in Audited : d.change = f.change => d = f
        /\ \A i \in DOMAIN stream :
             /\ stream[i].version = i
             /\ stream[i].from = IF i = 1 THEN "RECEIVED" ELSE stream[i - 1].to
        /\ stream # <<>> => run.state = stream[Len(stream)].to
        /\ stream = <<>> => run.state = "RECEIVED"
    BY DEF TInv, StreamOK, EvidenceComplete, Audited, Last
  <1>3. /\ chain' = chain \cup {e} /\ e.op = Call(c).op
        /\ (Call(c).op = "transition" => e.change = g) /\ g \in ChangeRec
        /\ g.from = caller[c].run.state /\ g.to = Call(c).to /\ g.version = caller[c].run.version + 1
    BY NewEvent
  <1>4. CASE Call(c).op # "transition"
    <2>1. Audited' = Audited
      BY <1>3, <1>4 DEF Audited
    <2>2. stream' = stream /\ run'.state = run.state /\ run'.version = run.version
      BY <1>4, CommitRow
    <2>3. QED BY <1>1, <1>2, <2>1, <2>2 DEF StreamOK, EvidenceComplete, Audited, Last
  <1>5. CASE Call(c).op = "transition"
    <2>1. caller[c].run = Snapshot
      BY <1>5, AtCommit DEF CommitOf
    <2>2. g.from = run.state /\ g.version = v
      BY <1>3, <2>1 DEF Snapshot
    <2>3. stream' = Append(stream, g) /\ run'.state = g.to /\ run'.version = v
      BY <1>3, <1>5, CommitRow
    <2>4. Audited' = Audited \cup {e} /\ e.change = g
      BY <1>3, <1>5 DEF Audited
    <2>5. v \in Nat /\ v = Len(stream) + 1 /\ v # 0
      BY <1>1, <1>2
    <2> HIDE DEF e, g, v
    <2>6. /\ stream' \in Seq(ChangeRec) /\ Len(stream') = v /\ DOMAIN stream' = 1..v
          /\ \A i \in 1..Len(stream) : stream'[i] = stream[i]
          /\ stream'[v] = g /\ stream' # <<>>
      BY <1>1, <1>3, <2>3, <2>5
    <2>7. ToSet(stream') = ToSet(stream) \cup {g}
      BY <1>1, <2>5, <2>6 DEF ToSet
    <2>8. { f.change : f \in Audited' } = ToSet(stream')
      BY <1>2, <2>4, <2>7
    <2>9. \A f \in Audited : f.change # g
      <3>1. \A h \in ToSet(stream) : h.version # v
        BY <1>1, <1>2, <2>5 DEF ToSet
      <3>2. QED BY <1>2, <2>2, <3>1
    <2>10. \A d, f \in Audited' : d.change = f.change => d = f
      BY <1>2, <2>4, <2>9
    <2>11. ASSUME NEW i \in DOMAIN stream'
           PROVE  /\ stream'[i].version = i
                  /\ stream'[i].from = IF i = 1 THEN "RECEIVED" ELSE stream'[i - 1].to
      <3>1. CASE i = v
        <4>1. v = 1 => run.state = "RECEIVED"
          BY <1>1, <1>2, <2>5
        <4>2. v # 1 => v - 1 = Len(stream) /\ v - 1 \in 1..Len(stream) /\ stream # <<>>
          BY <1>1, <2>5
        <4>3. v # 1 => run.state = stream'[v - 1].to
          BY <1>2, <2>6, <4>2
        <4>4. QED BY <2>2, <2>6, <3>1, <4>1, <4>3
      <3>2. CASE i # v
        <4>1. i \in 1..Len(stream) /\ i \in DOMAIN stream /\ (i # 1 => i - 1 \in 1..Len(stream))
          BY <1>1, <2>5, <2>6, <3>2
        <4>2. QED BY <1>2, <2>6, <4>1
      <3>3. QED BY <3>1, <3>2
    <2>12. run'.state = stream'[Len(stream')].to
      BY <2>3, <2>6
    <2>13. QED BY <2>3, <2>6, <2>8, <2>10, <2>11, <2>12 DEF StreamOK, EvidenceComplete, Audited, Last
  <1>6. QED BY <1>4, <1>5

\* The locks of the call are free, and no other call had acted on what the
\* commit changes.
LEMMA CommitCalls ==
  ASSUME TInv, NEW c \in Callers, CommitOf(c)
  PROVE  CallsOK'
  <1>1. /\ caller'[c].call = NotCalling /\ NotCalling.todo = <<>> /\ NotCalling.op = "none"
        /\ \A d \in Callers \ {c} : caller'[d] = caller[d]
    BY DEF CommitOf, NotCalling, Calling
  <1>2. ~HoldsRow(c)' /\ ~HoldsChain(c)'
    BY <1>1 DEF HoldsRow, HoldsChain, Passed, Call
  <1>3. CallOK(c)'
    <2>1. ~HasRead(c)' /\ ~HasNumber(c)'
      BY <1>1, TodoDistinct DEF HasRead, HasNumber, Call
    <2>2. <<>> \in Legal("none")
      BY DEF Legal
    <2>3. QED BY <1>1, <1>2, <2>1, <2>2, CommitEvidence DEF CallOK, Call
  <1>4. ASSUME NEW d \in Callers \ {c}
        PROVE  CallOK(d)' /\ (HoldsRow(d)' = HoldsRow(d)) /\ (HoldsChain(d)' = HoldsChain(d))
    <2>1. caller'[d] = caller[d] /\ CallOK(d) /\ Call(d)' = Call(d)
      BY <1>1 DEF TInv, CallsOK, Call
    <2>2. HoldsRow(d)' = HoldsRow(d) /\ HoldsChain(d)' = HoldsChain(d)
      BY <2>1 DEF HoldsRow, HoldsChain, Passed
    <2>3. ~HoldsChain(d) /\ Call(c).op \in {"transition", "persist", "append", "skip"}
          /\ (Call(c).op \in {"transition", "persist"} => ~HoldsRow(d))
      BY AtCommit DEF CommitOf
    <2>4. ~HasRead(d) /\ ~HasNumber(d)
      BY <2>1, <2>3, CallFacts, HoldsAre DEF HasRead, HasNumber, ChainStage
    <2>5. HoldsRow(d) => run' = run
      BY <2>3, CommitRow
    <2>6. "policyRequirementsLoaded" \in caller[d].conditions => Evidence'
      BY <2>1, CommitEvidence DEF CallOK
    <2>7. HoldsRow(d)' => IF Call(d)'.op = "transition" THEN caller'[d].run = Snapshot'
                                                       ELSE run'.state = "POLICY_LOADED"
      BY <2>1, <2>2, <2>5 DEF CallOK, Snapshot
    <2>8. CallOK(d)'
      BY <2>1, <2>4, <2>6, <2>7 DEF CallOK, HasRead, HasNumber
    <2>9. QED BY <2>2, <2>8
  <1>5. QED BY <1>2, <1>3, <1>4 DEF TInv, CallsOK, LocksApart

LEMMA CommitKeeps ==
  ASSUME TInv, NEW c \in Callers, CommitOf(c)
  PROVE  TInv'
  <1>1. TransitionTypes'
    <2>1. chain' \subseteq AuditRec
      BY NewEvent DEF TInv, TransitionTypes
    <2>2. settings' = settings
      BY DEF CommitOf, Committed
    <2>3. QED BY <2>1, <2>2, CommitRow, CommitStream DEF CommitOf, SpentType, TInv, TransitionTypes
  <1>2. ChainOK'
    BY CommitChain, CommitPreflight DEF ChainOK
  <1>3. QED BY <1>1, <1>2, CommitStream, CommitCalls DEF TInv

LEMMA CommitsKeep ==
  ASSUME TInv, NEW c \in Callers, Commit(c) \/ CommitUnacknowledged(c)
  PROVE  TInv'
  <1>1. NotCalling \in CallRec
    BY DEF NotCalling, Calling, CallRec, Todos
  <1>2. CASE CommitUnacknowledged(c)
    <2>1. spent' \in SpentType /\ spent'.seq = spent.seq
      BY <1>2, SpentFacts DEF CommitUnacknowledged, Disturbed
    <2>2. caller' = [caller EXCEPT ![c] = [caller[c] EXCEPT !.call = NotCalling]]
      BY <1>2 DEF CommitUnacknowledged
    <2>3. /\ caller' \in [Callers -> CallerRec] /\ caller'[c].call = NotCalling
          /\ caller'[c].conditions = caller[c].conditions
          /\ \A d \in Callers \ {c} : caller'[d] = caller[d]
      BY <1>1, <2>2, CallFacts DEF CallerRec
    <2>4. CommitOf(c)
      BY <1>2, <2>1, <2>3 DEF CommitUnacknowledged, CommitOf
    <2>5. QED BY <2>4, CommitKeeps
  <1>3. CASE Commit(c)
    <2>1. spent' \in SpentType /\ spent'.seq = spent.seq /\ Due(c, "commit") /\ Committed(c)
      BY <1>3, SpentFacts DEF Commit
    <2>2. run \in [state : WORKFLOW_STATES, version : Nat, policy : Nat]
      BY DEF TInv, TransitionTypes
    <2>3. Call(c).op = "transition" => run'.state \in WORKFLOW_STATES /\ run'.version \in Nat
      <3>1. CASE Call(c).op = "transition"
        <4>1. Call(c).to \in WORKFLOW_STATES
          BY <2>1, <2>2, <3>1, AtCommit, TableFacts
        <4>2. run' = [run EXCEPT !.state = Call(c).to, !.version = @ + 1]
          BY <2>1, <3>1 DEF Committed
        <4>3. QED BY <2>2, <4>1, <4>2
      <3>2. QED BY <3>1
    <2>4. PICK snap \in Snap : snap = IF Call(c).op = "transition"
                                     THEN [state |-> run'.state, version |-> run'.version]
                                     ELSE caller[c].run
      BY <2>3, CallFacts DEF Snap, CallerRec
    <2>5. PICK conditions \in SUBSET TransitionConditions : conditions = Conditions(c)
      BY CallFacts DEF Conditions, CallerRec, TransitionConditions
    <2>6. caller' = [caller EXCEPT ![c] = [run |-> snap, conditions |-> conditions,
                                           call |-> NotCalling]]
      BY <1>3, <2>4, <2>5 DEF Commit
    <2>7. /\ caller' \in [Callers -> CallerRec] /\ caller'[c].call = NotCalling
          /\ caller'[c].conditions = Conditions(c)
          /\ \A d \in Callers \ {c} : caller'[d] = caller[d]
      BY <1>1, <2>4, <2>5, <2>6, CallFacts DEF CallerRec
    <2>8. CommitOf(c)
      BY <2>1, <2>7 DEF CommitOf
    <2>9. QED BY <2>8, CommitKeeps
  <1>4. QED BY <1>2, <1>3
-----------------------------------------------------------------------------
(* The theorems                                                            *)

LEMMA TransitionsBegin ==
  ASSUME TransitionsInit
  PROVE  TInv
  <1>1. /\ run = [state |-> "RECEIVED", version |-> 0, policy |-> 0]
        /\ chain = {} /\ stream = <<>>
        /\ caller = [c \in Callers |-> [run |-> [state |-> "RECEIVED", version |-> 0],
                                        conditions |-> {}, call |-> NotCalling]]
        /\ spent = [calls |-> 0, disturbances |-> 0, seq |-> 0]
    BY DEF TransitionsInit
  <1>2. NotCalling \in CallRec /\ NotCalling.todo = <<>> /\ NotCalling.op = "none"
    BY DEF NotCalling, Calling, CallRec, Todos
  <1>3. TransitionTypes
    <2>1. settings \in [enabled : BOOLEAN, version : Nat \ {0}, deleted : BOOLEAN]
      BY DEF TransitionsInit
    <2>2. run \in [state : WORKFLOW_STATES, version : Nat, policy : Nat]
      BY <1>1 DEF WORKFLOW_STATES
    <2>3. caller \in [Callers -> CallerRec]
      BY <1>1, <1>2 DEF CallerRec, Snap, WORKFLOW_STATES
    <2>4. chain \subseteq AuditRec /\ stream \in Seq(ChangeRec)
      BY <1>1
    <2>5. spent \in [calls : Nat, disturbances : Nat, seq : Nat]
      BY <1>1
    <2>6. QED BY <2>1, <2>2, <2>3, <2>4, <2>5 DEF TransitionTypes
  <1>4. ASSUME NEW c \in Callers
        PROVE  CallOK(c) /\ ~HoldsRow(c) /\ ~HoldsChain(c)
    <2>1. Call(c) = NotCalling /\ caller[c].conditions = {}
      BY <1>1 DEF Call
    <2>2. ~HoldsRow(c) /\ ~HoldsChain(c)
      BY <1>2, <2>1 DEF HoldsRow, HoldsChain, Passed
    <2>3. ~HasRead(c) /\ ~HasNumber(c)
      BY <1>2, <2>1, TodoDistinct DEF HasRead, HasNumber
    <2>4. <<>> \in Legal("none")
      BY DEF Legal
    <2>5. QED BY <1>2, <2>1, <2>2, <2>3, <2>4 DEF CallOK
  <1>5. ChainOK
    <2>1. Numbers = {} /\ Loaded = {} /\ SeqsOf(Loaded) = {} /\ Left = {}
      BY <1>1 DEF Numbers, Loaded, SeqsOf, Left, Audited
    <2>2. ChainUnbroken /\ GateEvidence /\ SnapshotAudited
      BY <1>1 DEF ChainUnbroken, GateEvidence, SnapshotAudited
    <2>3. QED BY <2>1, <2>2 DEF ChainOK, Topped, PreflightEvidence
  <1>6. StreamOK
    <2>1. ToSet(stream) = {} /\ DOMAIN stream = {} /\ Len(stream) = 0
      BY <1>1 DEF ToSet
    <2>2. QED BY <1>1, <2>1 DEF StreamOK, EvidenceComplete
  <1>7. QED BY <1>3, <1>4, <1>5, <1>6 DEF TInv, CallsOK, LocksApart

LEMMA TransitionsStep ==
  ASSUME TInv, [TransitionsNext]_transitionVars
  PROVE  TInv'
  <1>1. CASE UNCHANGED transitionVars
    <2>1. UNCHANGED << run, chain, stream, caller, settings, spent >>
      BY <1>1 DEF transitionVars
    <2>2. TransitionTypes' /\ CallsOK'
      <3>1. TransitionTypes /\ CallsOK
        BY DEF TInv
      <3>2. TransitionTypes'
        BY <2>1, <3>1 DEF TransitionTypes
      <3>3. CallsOK'
        BY <2>1, <3>1 DEF CallsOK, CallOK, LocksApart, HoldsRow, HoldsChain, Passed, Call,
                          HasRead, HasNumber, Snapshot, Numbers, Evidence
      <3>4. QED BY <3>2, <3>3
    <2>3. ChainOK'
      BY <2>1 DEF TInv, ChainOK, Numbers, Loaded, Left, Audited, ChainUnbroken,
                  PreflightEvidence, SnapshotAudited, GateEvidence
    <2>4. StreamOK'
      BY <2>1 DEF TInv, StreamOK, EvidenceComplete
    <2>5. QED BY <2>2, <2>3, <2>4 DEF TInv
  <1>2. CASE TransitionsNext
    <2>1. CASE SetPolicies
      BY <2>1, SetPoliciesKeeps
    <2>2. ASSUME NEW c \in Callers, ReadRun(c) PROVE TInv'
      BY <2>2, ReadRunKeeps
    <2>3. ASSUME NEW c \in Callers,
                 load(c) \/ append(c) \/ \E to \in WORKFLOW_STATES : transition(c, to)
          PROVE  TInv'
      BY <2>3, CallsBegin
    <2>4. ASSUME NEW c \in Callers, Statement(c) PROVE TInv'
      BY <2>4, PreflightKeeps, UpdateKeeps, StatementKeeps, CommitsKeep DEF Statement
    <2>5. ASSUME NEW c \in Callers, CommitUnacknowledged(c) PROVE TInv'
      BY <2>5, CommitsKeep
    <2>6. ASSUME NEW c \in Callers, StatementFails(c) PROVE TInv'
      BY <2>6, FailureKeeps
    <2>7. QED BY <1>2, <2>1, <2>2, <2>3, <2>4, <2>5, <2>6 DEF TransitionsNext
  <1>3. QED BY <1>1, <1>2

\* The inductive invariant of the transactions holds in every behaviour of the
\* delivery, and with it what transitions.ts, the stores and the chain promise.
LEMMA TransitionsInvariant == DeliverySpec => []TInv
  <1>1. DeliveryInit => TInv
    BY TransitionsBegin DEF DeliveryInit
  <1>2. TInv /\ [DeliveryNext]_deliveryVars => TInv'
    <2>1. [DeliveryNext]_deliveryVars => [TransitionsNext]_transitionVars
      BY DEF DeliveryNext, Only, deliveryVars
    <2>2. QED BY <2>1, TransitionsStep
  <1>3. QED BY <1>1, <1>2, PTL DEF DeliverySpec

\* Every version of a run has one audit event and one event of the stream, for
\* every set of callers that race, fail and retry (saveTransition of
\* PostgresWorkflowTransitionStore: UPDATE, audit and event in a transaction).
THEOREM Evident == DeliverySpec => []EvidenceComplete
  <1>1. TInv => EvidenceComplete
    BY DEF TInv, StreamOK
  <1>2. QED BY <1>1, TransitionsInvariant, PTL

\* The audit chain neither forks nor breaks, whoever appends to it and whatever
\* is rolled back (the advisory lock of AuditService.append).
THEOREM Unforked == DeliverySpec => []ChainUnbroken
  <1>1. TInv => ChainUnbroken
    BY DEF TInv, ChainOK
  <1>2. QED BY <1>1, TransitionsInvariant, PTL

\* The requirements of the row are the audited ones of the last pre-flight, and
\* no manifest is created without them or a recorded skip (saveRequirements
\* and saveSkip of PostgresPolicyPreflightStore, the gates of transitions.ts).
THEOREM PreflightKept == DeliverySpec => []PreflightEvidence
  <1>1. TInv => PreflightEvidence
    BY DEF TInv, ChainOK
  <1>2. QED BY <1>1, TransitionsInvariant, PTL

-----------------------------------------------------------------------------
(* The outbox                                                              *)

\* The publishers that have claimed the event and have not published it.
Publishing(e) == { p \in Publishers : At(p, "publish") /\ Event(p) = e }

Holding == [pc : {"publish", "mark", "settle"}, event : Events, deliveryAttempts : Nat \ {0}]

\* One event: every claim is an attempt, and gives one delivery at most.
EventOK(e) ==
  /\ status[e] = "sent" => delivered[e] >= 1
  /\ status[e] = "failed" => attempts[e] >= MAX_DELIVERY_ATTEMPTS
  /\ IsFiniteSet(Publishing(e))
  /\ delivered[e] + Cardinality(Publishing(e)) <= attempts[e]

\* One publisher: it knows of attempts that were made, and of its delivery.
PublisherOK(p) ==
  publisher[p] # Idle =>
    /\ publisher[p].deliveryAttempts <= attempts[Event(p)]
    /\ At(p, "mark") => delivered[Event(p)] >= 1

OInv ==
  /\ OutboxTypeOK /\ publisher \in [Publishers -> Holding \cup {Idle}]
  /\ \A e \in Events : EventOK(e)
  /\ \A p \in Publishers : PublisherOK(p)

LEMMA IdleNot == Idle \notin Holding /\ Idle.pc = "idle"
  BY DEF Idle, Holding

LEMMA OutboxBegins ==
  ASSUME OutboxInit
  PROVE  OInv
  <1>1. OutboxTypeOK /\ publisher \in [Publishers -> Holding \cup {Idle}]
    BY OutboxAssumption DEF OutboxInit, OutboxTypeOK, Statuses
  <1>2. \A p \in Publishers : PublisherOK(p)
    BY DEF OutboxInit, PublisherOK
  <1>3. ASSUME NEW e \in Events PROVE EventOK(e)
    <2>1. Publishing(e) = {}
      BY IdleNot DEF OutboxInit, Publishing, At
    <2>2. IsFiniteSet(Publishing(e)) /\ Cardinality(Publishing(e)) = 0
      BY <2>1, FS_EmptySet
    <2>3. QED BY <2>2 DEF OutboxInit, EventOK
  <1>4. QED BY <1>1, <1>2, <1>3 DEF OInv

LEMMA OutboxFacts ==
  ASSUME OInv
  PROVE  /\ status \in [Events -> Statuses] /\ attempts \in [Events -> Nat]
         /\ delivered \in [Events -> Nat] /\ due \in [Events -> BOOLEAN]
         /\ leased \in [Events -> BOOLEAN] /\ faults \in 0 .. MaxFaults
         /\ publisher \in [Publishers -> Holding \cup {Idle}]
         /\ \A e \in Events : /\ IsFiniteSet(Publishing(e)) /\ Cardinality(Publishing(e)) \in Nat
                              /\ delivered[e] + Cardinality(Publishing(e)) <= attempts[e]
  <1>1. \A e \in Events : /\ IsFiniteSet(Publishing(e))
                          /\ delivered[e] + Cardinality(Publishing(e)) <= attempts[e]
    BY DEF OInv, EventOK
  <1>2. QED BY <1>1, FS_CardinalityType DEF OInv, OutboxTypeOK

\* A publisher that is not idle has claimed an event.
LEMMA Busy ==
  ASSUME OInv, NEW p \in Publishers, ~At(p, "idle")
  PROVE  publisher[p] \in Holding /\ Event(p) \in Events /\ publisher[p] # Idle
  <1>1. publisher[p] # Idle
    BY IdleNot DEF At
  <1>2. publisher[p] \in Holding
    BY <1>1 DEF OInv
  <1>3. QED BY <1>1, <1>2 DEF Holding, Event

\* A publisher goes on, or rests, without a claim and without a delivery.
LEMMA SettleKeeps ==
  ASSUME OInv, NEW p \in Publishers, NEW h \in Holding \cup {Idle},
         publisher' = [publisher EXCEPT ![p] = h], h.pc \notin {"publish", "mark"},
         h # Idle => /\ publisher[p] # Idle /\ h.event = Event(p)
                     /\ h.deliveryAttempts = publisher[p].deliveryAttempts,
         attempts' = attempts, delivered' = delivered, faults' \in 0 .. MaxFaults,
         status' \in [Events -> Statuses], due' \in [Events -> BOOLEAN],
         leased' \in [Events -> BOOLEAN],
         \A e \in Events : /\ status'[e] = "sent" => status[e] = "sent" \/ delivered[e] >= 1
                           /\ status'[e] = "failed" =>
                                status[e] = "failed" \/ attempts[e] >= MAX_DELIVERY_ATTEMPTS
  PROVE  OInv'
  <1>1. publisher' \in [Publishers -> Holding \cup {Idle}] /\ publisher'[p] = h
        /\ \A q \in Publishers \ {p} : publisher'[q] = publisher[q]
    BY OutboxFacts
  <1>2. OutboxTypeOK'
    BY <1>1, OutboxFacts DEF OutboxTypeOK, Holding
  <1>3. ASSUME NEW e \in Events PROVE EventOK(e)'
    <2>1. Publishing(e)' \in SUBSET Publishing(e)
      BY <1>1 DEF Publishing, At, Event
    <2>2. IsFiniteSet(Publishing(e)') /\ Cardinality(Publishing(e)') <= Cardinality(Publishing(e))
          /\ Cardinality(Publishing(e)') \in Nat
      BY <2>1, OutboxFacts, FS_Subset, FS_CardinalityType
    <2>3. delivered'[e] + Cardinality(Publishing(e)') <= attempts'[e]
      <3>1. PICK a \in Nat, d \in Nat, x \in Nat, y \in Nat :
              /\ a = attempts[e] /\ d = delivered[e] /\ x = Cardinality(Publishing(e))
              /\ y = Cardinality(Publishing(e)')
        BY <2>2, OutboxFacts
      <3>2. y <= x /\ d + x <= a
        BY <2>2, <3>1, OutboxFacts
      <3>3. QED BY <3>1, <3>2
    <2>4. EventOK(e)
      BY DEF OInv
    <2>5. QED BY <2>2, <2>3, <2>4 DEF EventOK
  <1>4. ASSUME NEW q \in Publishers PROVE PublisherOK(q)'
    <2>1. PublisherOK(q) /\ PublisherOK(p)
      BY DEF OInv
    <2>2. CASE q = p
      BY <1>1, <2>1, <2>2, IdleNot DEF PublisherOK, At, Event, Holding
    <2>3. CASE q # p
      BY <1>1, <2>1, <2>3 DEF PublisherOK, At, Event
    <2>4. QED BY <2>2, <2>3
  <1>5. QED BY <1>1, <1>2, <1>3, <1>4 DEF OInv

\* A settling update, by its value and by what the publisher knows.
LEMMA SettlingKeeps ==
  ASSUME OInv, NEW p \in Publishers, markPublished(p) \/ markFailed(p) \/ reschedule(p)
  PROVE  OInv'
  <1>1. ~At(p, "idle") /\ publisher' = [publisher EXCEPT ![p] = Idle]
        /\ attempts' = attempts /\ delivered' = delivered /\ faults' = faults
    BY DEF markPublished, markFailed, reschedule, Rest, At
  <1>2. publisher[p] \in Holding /\ Event(p) \in Events /\ publisher[p] # Idle /\ PublisherOK(p)
    BY <1>1, Busy DEF OInv
  <1>3. leased' \in [Events -> BOOLEAN] /\ due' \in [Events -> BOOLEAN]
    BY <1>2, OutboxFacts DEF markPublished, markFailed, reschedule
  <1>4. PICK value \in {"sent", "failed", "pending"} :
          /\ SetIfPublishing(Event(p), value)
          /\ value = "sent" => At(p, "mark")
          /\ value = "failed" => publisher[p].deliveryAttempts >= MAX_DELIVERY_ATTEMPTS
    BY DEF markPublished, markFailed, reschedule
  <1>5. /\ status' \in [Events -> Statuses]
        /\ \A e \in Events : status'[e] # status[e] => e = Event(p) /\ status'[e] = value
    BY <1>2, <1>4, OutboxFacts DEF SetIfPublishing, Statuses
  <1>6. value = "sent" => delivered[Event(p)] >= 1
    BY <1>2, <1>4 DEF PublisherOK
  <1>7. value = "failed" => attempts[Event(p)] >= MAX_DELIVERY_ATTEMPTS
    <2>1. PICK k \in Nat, a \in Nat : k = publisher[p].deliveryAttempts /\ a = attempts[Event(p)]
      BY <1>2, OutboxFacts DEF Holding
    <2>2. k <= a /\ (value = "failed" => k >= 3)
      BY <1>2, <1>4, <2>1 DEF PublisherOK, MAX_DELIVERY_ATTEMPTS
    <2>3. QED BY <2>1, <2>2 DEF MAX_DELIVERY_ATTEMPTS
  <1>8. \A e \in Events : /\ status'[e] = "sent" => status[e] = "sent" \/ delivered[e] >= 1
                          /\ status'[e] = "failed" =>
                               status[e] = "failed" \/ attempts[e] >= MAX_DELIVERY_ATTEMPTS
    BY <1>5, <1>6, <1>7
  <1>9. QED BY <1>1, <1>3, <1>5, <1>8, IdleNot, OutboxFacts, SettleKeeps

\* The steps of publishNext that fail: no row changes, or the event that the
\* hub has is marked although the answer is lost.
LEMMA FailingKeeps ==
  ASSUME OInv, NEW p \in Publishers, PublishFails(p) \/ MarkPublishedFails(p) \/ Crash(p)
  PROVE  OInv'
  <1>1. ~At(p, "idle") /\ UNCHANGED << attempts, due, delivered >>
    BY DEF PublishFails, MarkPublishedFails, Crash, At
  <1>2. publisher[p] \in Holding /\ Event(p) \in Events /\ publisher[p] # Idle /\ PublisherOK(p)
    BY <1>1, Busy DEF OInv
  <1>3. /\ status' \in [Events -> Statuses] /\ leased' \in [Events -> BOOLEAN]
        /\ \A e \in Events : /\ status'[e] = "sent" => status[e] = "sent" \/ delivered[e] >= 1
                             /\ status'[e] = "failed" =>
                                  status[e] = "failed" \/ attempts[e] >= MAX_DELIVERY_ATTEMPTS
    <2>1. CASE UNCHANGED << status, leased >>
      BY <2>1, OutboxFacts
    <2>2. CASE /\ At(p, "mark") /\ SetIfPublishing(Event(p), "sent")
               /\ leased' = [leased EXCEPT ![Event(p)] = @ /\ status[Event(p)] # "publishing"]
      <3>1. delivered[Event(p)] >= 1
        BY <1>2, <2>2 DEF PublisherOK
      <3>2. /\ status' \in [Events -> Statuses]
            /\ \A e \in Events : status'[e] # status[e] => e = Event(p) /\ status'[e] = "sent"
        BY <1>2, <2>2, OutboxFacts DEF SetIfPublishing, Statuses
      <3>3. leased' \in [Events -> BOOLEAN]
        BY <1>2, <2>2, OutboxFacts
      <3>4. QED BY <3>1, <3>2, <3>3
    <2>3. QED BY <2>1, <2>2 DEF PublishFails, MarkPublishedFails, Crash
  <1>4. faults' \in 0 .. MaxFaults
    BY OutboxFacts, OutboxAssumption DEF PublishFails, MarkPublishedFails, Crash, Fault
  <1>5. PICK h \in Holding \cup {Idle} :
          /\ publisher' = [publisher EXCEPT ![p] = h] /\ h.pc \notin {"publish", "mark"}
          /\ h # Idle => h.event = Event(p) /\ h.deliveryAttempts = publisher[p].deliveryAttempts
    <2>1. CASE Crash(p)
      BY <2>1, IdleNot DEF Crash, Rest
    <2>2. CASE PublishFails(p) \/ MarkPublishedFails(p)
      <3>1. publisher' = [publisher EXCEPT ![p] = [publisher[p] EXCEPT !.pc = "settle"]]
        BY <2>2 DEF PublishFails, MarkPublishedFails, Move
      <3>2. PICK h \in Holding : h = [publisher[p] EXCEPT !.pc = "settle"]
        BY <1>2 DEF Holding
      <3>3. h.pc = "settle" /\ h.event = Event(p)
            /\ h.deliveryAttempts = publisher[p].deliveryAttempts
        BY <1>2, <3>2 DEF Holding, Event
      <3>4. QED BY <3>1, <3>2, <3>3
    <2>3. QED BY <2>1, <2>2
  <1>6. attempts' = attempts /\ delivered' = delivered /\ due' \in [Events -> BOOLEAN]
    BY <1>1, OutboxFacts
  <1>7. QED BY <1>2, <1>3, <1>4, <1>5, <1>6, SettleKeeps

\* The delivery takes the place of the claim in the count of the attempts.
LEMMA PublishKeeps ==
  ASSUME OInv, NEW p \in Publishers, Publish(p)
  PROVE  OInv'
  <1> DEFINE ev == Event(p)
  <1>1. ~At(p, "idle") /\ At(p, "publish") /\ UNCHANGED << status, attempts, due, leased, faults >>
        /\ delivered' = [delivered EXCEPT ![ev] = @ + 1]
    BY DEF Publish, At
  <1>2. publisher[p] \in Holding /\ publisher[p] # Idle /\ ev \in Events
    BY <1>1, Busy
  <1>3. PICK h \in Holding : h = [publisher[p] EXCEPT !.pc = "mark"]
    BY <1>2 DEF Holding
  <1>4. h.pc = "mark" /\ h.event = ev /\ h.deliveryAttempts = publisher[p].deliveryAttempts
    BY <1>2, <1>3 DEF Holding, Event
  <1>5. publisher' = [publisher EXCEPT ![p] = h]
    BY <1>3 DEF Publish, Move
  <1>6. publisher' \in [Publishers -> Holding \cup {Idle}] /\ publisher'[p] = h
        /\ \A q \in Publishers \ {p} : publisher'[q] = publisher[q]
    BY <1>5, OutboxFacts
  <1>7. delivered' \in [Events -> Nat] /\ delivered'[ev] = delivered[ev] + 1
        /\ \A e \in Events \ {ev} : delivered'[e] = delivered[e]
    BY <1>1, <1>2, OutboxFacts
  <1>8. OutboxTypeOK'
    BY <1>1, <1>6, <1>7, OutboxFacts DEF OutboxTypeOK, Holding
  <1>9. \A e \in Events : /\ e = ev => p \in Publishing(e)
                          /\ Publishing(e)' = IF e = ev THEN Publishing(e) \ {p} ELSE Publishing(e)
    BY <1>1, <1>4, <1>6 DEF Publishing, At, Event
  <1> HIDE DEF ev
  <1>10. ASSUME NEW e \in Events PROVE EventOK(e)'
    <2>1. EventOK(e) /\ IsFiniteSet(Publishing(e))
      BY OutboxFacts DEF OInv
    <2>2. CASE e = ev
      <3>1. PICK a \in Nat, d \in Nat, x \in Nat :
              a = attempts[e] /\ d = delivered[e] /\ x = Cardinality(Publishing(e))
        BY OutboxFacts
      <3>2. d + x <= a
        BY <3>1, OutboxFacts
      <3>3. IsFiniteSet(Publishing(e)') /\ Cardinality(Publishing(e)') = x - 1
        <4>1. PICK S : S = Publishing(e) /\ IsFiniteSet(S) /\ p \in S /\ Cardinality(S) = x
          BY <1>9, <2>1, <2>2, <3>1
        <4>2. IsFiniteSet(S \ {p}) /\ Cardinality(S \ {p}) = x - 1
          BY <4>1, FS_RemoveElement
        <4>3. QED BY <1>9, <2>2, <4>1, <4>2
      <3>4. delivered'[e] = d + 1 /\ attempts'[e] = a /\ status'[e] = status[e]
        BY <1>1, <1>7, <2>2, <3>1
      <3>5. (d + 1) + (x - 1) <= a /\ d + 1 >= 1
        BY <3>1, <3>2
      <3>6. QED BY <2>1, <3>1, <3>3, <3>4, <3>5 DEF EventOK
    <2>3. CASE e # ev
      BY <1>1, <1>7, <1>9, <2>1, <2>3 DEF EventOK
    <2>4. QED BY <2>2, <2>3
  <1>11. ASSUME NEW q \in Publishers PROVE PublisherOK(q)'
    <2>1. PublisherOK(q) /\ PublisherOK(p)
      BY DEF OInv
    <2>2. \A e \in Events : delivered'[e] >= 1 \/ delivered'[e] = delivered[e]
      BY <1>2, <1>7, OutboxFacts
    <2>3. CASE q = p
      <3>1. delivered'[ev] >= 1
        BY <1>2, <1>7, OutboxFacts
      <3>2. QED BY <1>1, <1>2, <1>4, <1>6, <2>1, <2>3, <3>1 DEF PublisherOK, At, Event, ev
    <2>4. CASE q # p
      <3>1. publisher'[q] = publisher[q]
        BY <1>6, <2>4
      <3>2. publisher[q] # Idle => Event(q) \in Events
        BY OutboxFacts DEF Event, Holding
      <3>3. QED BY <1>1, <2>1, <2>2, <3>1, <3>2 DEF PublisherOK, At, Event
    <2>5. QED BY <2>3, <2>4
  <1>12. QED BY <1>6, <1>8, <1>10, <1>11 DEF OInv

\* A claim is counted before anything is delivered under it.
LEMMA ClaimKeeps ==
  ASSUME OInv, NEW p \in Publishers, claimOldestPending(p)
  PROVE  OInv'
  <1>1. PICK ev \in Events :
          /\ status' = [status EXCEPT ![ev] = "publishing"]
          /\ attempts' = [attempts EXCEPT ![ev] = @ + 1]
          /\ leased' = [leased EXCEPT ![ev] = TRUE]
          /\ publisher' = [publisher EXCEPT ![p] =
               [pc |-> "publish", event |-> ev, deliveryAttempts |-> attempts[ev] + 1]]
          /\ UNCHANGED << due, delivered, faults >> /\ At(p, "idle")
    BY DEF claimOldestPending, Claimable
  <1>2. PICK n \in Nat : n = attempts[ev]
    BY OutboxFacts
  <1>3. PICK m \in Nat \ {0} : m = n + 1
    BY <1>2
  <1>4. PICK h \in Holding : h = [pc |-> "publish", event |-> ev, deliveryAttempts |-> m]
    BY DEF Holding
  <1>5. h.pc = "publish" /\ h.event = ev /\ h.deliveryAttempts = m /\ h # Idle
    BY <1>4, IdleNot
  <1>6. publisher' \in [Publishers -> Holding \cup {Idle}] /\ publisher'[p] = h
        /\ \A q \in Publishers \ {p} : publisher'[q] = publisher[q]
    BY <1>1, <1>2, <1>3, <1>4, OutboxFacts
  <1>7. attempts' \in [Events -> Nat] /\ attempts'[ev] = m
        /\ \A e \in Events \ {ev} : attempts'[e] = attempts[e]
    BY <1>1, <1>2, <1>3, OutboxFacts
  <1>8. status' \in [Events -> Statuses] /\ status'[ev] = "publishing"
        /\ \A e \in Events \ {ev} : status'[e] = status[e]
    BY <1>1, OutboxFacts DEF Statuses
  <1>9. leased' \in [Events -> BOOLEAN]
    BY <1>1, OutboxFacts
  <1>10. OutboxTypeOK'
    BY <1>1, <1>6, <1>7, <1>8, <1>9, OutboxFacts DEF OutboxTypeOK, Holding
  <1>11. \A e \in Events :
           Publishing(e)' = IF e = ev THEN Publishing(e) \cup {p} ELSE Publishing(e)
    BY <1>1, <1>5, <1>6 DEF Publishing, At, Event
  <1>12. ASSUME NEW e \in Events PROVE EventOK(e)'
    <2>1. EventOK(e) /\ IsFiniteSet(Publishing(e))
      BY OutboxFacts DEF OInv
    <2>2. CASE e = ev
      <3>1. PICK d \in Nat, x \in Nat : d = delivered[e] /\ x = Cardinality(Publishing(e))
        BY OutboxFacts
      <3>2. d + x <= n
        BY <1>2, <2>2, <3>1, OutboxFacts
      <3>3. /\ IsFiniteSet(Publishing(e)') /\ Cardinality(Publishing(e)') \in Nat
            /\ Cardinality(Publishing(e)') <= x + 1
        <4>1. PICK S : S = Publishing(e) /\ IsFiniteSet(S) /\ Cardinality(S) = x
          BY <2>1, <3>1
        <4>2. IsFiniteSet(S \cup {p}) /\ Cardinality(S \cup {p}) \in {x, x + 1}
          BY <4>1, FS_AddElement
        <4>3. QED BY <1>11, <2>2, <3>1, <4>1, <4>2
      <3>4. PICK y \in Nat : y = Cardinality(Publishing(e)')
        BY <3>3
      <3>5. d + y <= m
        BY <1>3, <3>2, <3>3, <3>4
      <3>6. delivered'[e] = d /\ attempts'[e] = m /\ status'[e] = "publishing"
        BY <1>1, <1>7, <1>8, <2>2, <3>1
      <3>7. QED BY <3>3, <3>4, <3>5, <3>6 DEF EventOK
    <2>3. CASE e # ev
      BY <1>1, <1>7, <1>8, <1>11, <2>1, <2>3 DEF EventOK
    <2>4. QED BY <2>2, <2>3
  <1>13. ASSUME NEW q \in Publishers PROVE PublisherOK(q)'
    <2>1. CASE q = p
      BY <1>3, <1>5, <1>6, <1>7, <2>1 DEF PublisherOK, At, Event
    <2>2. CASE q # p /\ publisher[q] # Idle
      <3>1. publisher'[q] = publisher[q] /\ publisher[q] \in Holding /\ PublisherOK(q)
        BY <1>6, <2>2, OutboxFacts DEF OInv
      <3>2. Event(q) \in Events /\ publisher[q].deliveryAttempts \in Nat
            /\ publisher[q].deliveryAttempts <= attempts[Event(q)]
        BY <2>2, <3>1 DEF Holding, Event, PublisherOK
      <3>3. publisher[q].deliveryAttempts <= attempts'[Event(q)]
        BY <1>2, <1>3, <1>7, <3>2
      <3>4. QED BY <1>1, <2>2, <3>1, <3>3 DEF PublisherOK, At, Event
    <2>3. CASE q # p /\ publisher[q] = Idle
      BY <1>6, <2>3 DEF PublisherOK
    <2>4. QED BY <2>1, <2>2, <2>3
  <1>14. QED BY <1>6, <1>10, <1>12, <1>13 DEF OInv

\* An event is committed, or time passes.
LEMMA TimeKeeps ==
  ASSUME OInv, NEW ev \in Events, AppendEvent(ev) \/ TimePasses(ev)
  PROVE  OInv'
  <1>1. UNCHANGED << attempts, delivered, publisher, faults >>
    BY DEF AppendEvent, TimePasses, BackoffEnds, LeaseEnds
  <1>2. /\ status' \in [Events -> Statuses] /\ due' \in [Events -> BOOLEAN]
        /\ leased' \in [Events -> BOOLEAN]
        /\ \A e \in Events : status'[e] \in {status[e], "pending"}
    BY OutboxFacts DEF AppendEvent, TimePasses, BackoffEnds, LeaseEnds, Statuses
  <1>3. OutboxTypeOK'
    BY <1>1, <1>2, OutboxFacts DEF OutboxTypeOK, Holding
  <1>4. \A e \in Events : Publishing(e)' = Publishing(e)
    BY <1>1 DEF Publishing, At, Event
  <1>5. ASSUME NEW e \in Events PROVE EventOK(e)'
    BY <1>1, <1>2, <1>4 DEF OInv, EventOK
  <1>6. ASSUME NEW q \in Publishers PROVE PublisherOK(q)'
    BY <1>1 DEF OInv, PublisherOK, At, Event
  <1>7. QED BY <1>1, <1>3, <1>5, <1>6, OutboxFacts DEF OInv

LEMMA OutboxStep ==
  ASSUME OInv, [OutboxNext]_outboxVars
  PROVE  OInv'
  <1>1. CASE UNCHANGED outboxVars
    <2>1. UNCHANGED << status, attempts, due, leased, delivered, publisher, faults >>
      BY <1>1 DEF outboxVars
    <2>2. \A e \in Events : Publishing(e)' = Publishing(e)
      BY <2>1 DEF Publishing, At, Event
    <2>3. QED BY <2>1, <2>2 DEF OInv, OutboxTypeOK, EventOK, PublisherOK, At, Event
  <1>2. CASE OutboxNext
    <2>1. ASSUME NEW e \in Events, AppendEvent(e) \/ TimePasses(e) PROVE OInv'
      BY <2>1, TimeKeeps
    <2>2. ASSUME NEW p \in Publishers, PublisherStep(p) PROVE OInv'
      BY <2>2, ClaimKeeps, PublishKeeps, FailingKeeps, SettlingKeeps DEF PublisherStep
    <2>3. ASSUME NEW p \in Publishers, MarkPublishedFails(p) \/ Crash(p) PROVE OInv'
      BY <2>3, FailingKeeps
    <2>4. QED BY <1>2, <2>1, <2>2, <2>3 DEF OutboxNext
  <1>3. QED BY <1>1, <1>2

LEMMA OutboxInvariant == DeliverySpec => []OInv
  <1>1. DeliveryInit => OInv
    BY OutboxBegins DEF DeliveryInit
  <1>2. OInv /\ [DeliveryNext]_deliveryVars => OInv'
    <2>1. [DeliveryNext]_deliveryVars => [OutboxNext]_outboxVars
      BY DEF DeliveryNext, Only, deliveryVars
    <2>2. QED BY <2>1, OutboxStep
  <1>3. QED BY <1>1, <1>2, PTL DEF DeliverySpec

\* No step takes an event out of "sent" or "failed": the settling updates of a
\* publisher that lost its lease find no row to change (WHERE status =
\* 'publishing' of postgres-outbox.store.ts), and no claim takes it.
THEOREM SettledForGood == DeliverySpec => SettledIsFinal
  <1>1. ASSUME OInv, [OutboxNext]_outboxVars
        PROVE  [\A e \in Events : status[e] \in Settled => status'[e] = status[e]]_outboxVars
    <2>1. CASE UNCHANGED outboxVars
      BY <2>1
    <2>2. CASE OutboxNext
      <3>1. status \in [Events -> Statuses]
        BY <1>1, OutboxFacts
      <3>2. ASSUME NEW ev \in Events, AppendEvent(ev) \/ TimePasses(ev), NEW e \in Events,
                   status[e] \in Settled
            PROVE  status'[e] = status[e]
        BY <3>1, <3>2 DEF AppendEvent, TimePasses, BackoffEnds, LeaseEnds, Settled
      <3>3. ASSUME NEW p \in Publishers,
                   PublisherStep(p) \/ MarkPublishedFails(p) \/ Crash(p), NEW e \in Events,
                   status[e] \in Settled
            PROVE  status'[e] = status[e]
        <4>1. CASE claimOldestPending(p)
          BY <3>1, <3>3, <4>1 DEF claimOldestPending, Claimable, Settled
        <4>2. CASE markPublished(p) \/ markFailed(p) \/ reschedule(p)
          BY <3>1, <3>3, <4>2 DEF markPublished, markFailed, reschedule, SetIfPublishing, Settled
        <4>3. CASE Publish(p) \/ PublishFails(p) \/ MarkPublishedFails(p) \/ Crash(p)
          <5>1. CASE UNCHANGED status
            BY <5>1
          <5>2. CASE SetIfPublishing(Event(p), "sent")
            BY <3>1, <3>3, <5>2 DEF SetIfPublishing, Settled
          <5>3. QED BY <4>3, <5>1, <5>2 DEF Publish, PublishFails, MarkPublishedFails, Crash
        <4>4. QED BY <3>3, <4>1, <4>2, <4>3 DEF PublisherStep
      <3>4. QED BY <2>2, <3>2, <3>3 DEF OutboxNext
    <2>3. QED BY <1>1, <2>1, <2>2
  <1>2. [DeliveryNext]_deliveryVars => [OutboxNext]_outboxVars
    BY DEF DeliveryNext, Only, deliveryVars
  <1>3. QED BY <1>1, <1>2, OutboxInvariant, PTL DEF DeliverySpec, SettledIsFinal

-----------------------------------------------------------------------------
(* The event stream                                                        *)

Row == [seq : Nat, ws : Workspaces]
Seen == EventsOf(Watched)

\* The table: a transaction that has inserted a row of a workspace holds its
\* lock, so the row will come after every row of the workspace that is there.
TableOK ==
  /\ sequence \in 0 .. MaxEvents
  /\ rows \subseteq Row /\ \A row \in rows : 1 <= row.seq /\ row.seq <= sequence
  /\ inserted \in [Writers -> SUBSET Row]
  /\ lock \in [Workspaces -> Writers \cup {None}]
  /\ \A w \in Writers : \A row \in inserted[w] :
       /\ 1 <= row.seq /\ row.seq <= sequence /\ lock[row.ws] = w
       /\ \A n \in EventsOf(row.ws) : n < row.seq

\* The feed: the client has what was committed up to its last event, and the
\* wire what was committed between that and the cursor.
FeedOK ==
  /\ received \in Seq(Nat) /\ wire \in Seq(Nat) /\ Ascending(received) /\ Ascending(wire)
  /\ lastEventId \in Seen \cup {0}
  /\ ToSet(received) = { n \in Seen : n <= lastEventId }
  /\ cursor = None => wire = <<>>
  /\ cursor # None => /\ cursor \in Seen \cup {0} /\ lastEventId <= cursor
                      /\ ToSet(wire) = { n \in Seen : lastEventId < n /\ n <= cursor }

SInv == TableOK /\ FeedOK

LEMMA SeenNat ==
  ASSUME TableOK, NEW ws
  PROVE  \A n \in EventsOf(ws) : n \in Nat /\ 1 <= n /\ n <= sequence
  BY DEF TableOK, EventsOf, Row

LEMMA InsertKeeps ==
  ASSUME TableOK, NEW w \in Writers, NEW ws \in Workspaces, publish(w, ws)
  PROVE  TableOK' /\ \A x : EventsOf(x)' = EventsOf(x)
  <1>1. PICK k \in Nat : k = sequence
    BY DEF TableOK
  <1>2. PICK n \in Nat : n = k + 1
    BY <1>1
  <1>3. PICK new \in Row : new = [seq |-> n, ws |-> ws]
    BY DEF Row
  <1>4. new.seq = n /\ new.ws = ws
    BY <1>3
  <1>5. /\ sequence' = n /\ n \in 0 .. MaxEvents
        /\ inserted' = [inserted EXCEPT ![w] = @ \cup {new}]
        /\ rows' = rows /\ lock' = [lock EXCEPT ![ws] = w] /\ lock[ws] \in {None, w}
    BY <1>1, <1>2, <1>3, EventStreamAssumption DEF publish, Draw
  <1>6. \A x : EventsOf(x)' = EventsOf(x)
    BY <1>5 DEF EventsOf
  <1>7. /\ inserted' \in [Writers -> SUBSET Row] /\ lock' \in [Workspaces -> Writers \cup {None}]
        /\ inserted'[w] = inserted[w] \cup {new} /\ lock'[ws] = w
        /\ (\A v \in Writers \ {w} : inserted'[v] = inserted[v])
        /\ (\A x \in Workspaces \ {ws} : lock'[x] = lock[x])
    BY <1>5 DEF TableOK
  <1>8. ASSUME NEW v \in Writers, NEW row \in inserted'[v]
        PROVE  /\ 1 <= row.seq /\ row.seq <= n /\ lock'[row.ws] = v
               /\ \A m \in EventsOf(row.ws) : m < row.seq
    <2>1. CASE row \in inserted[v]
      <3>1. /\ row.seq \in Nat /\ row.ws \in Workspaces /\ 1 <= row.seq /\ row.seq <= k
            /\ lock[row.ws] = v /\ \A m \in EventsOf(row.ws) : m < row.seq
        BY <1>1, <2>1 DEF TableOK, Row
      <3>2. lock'[row.ws] = v
        BY <1>5, <1>7, <3>1, EventStreamAssumption
      <3>3. row.seq <= n
        BY <1>1, <1>2, <3>1
      <3>4. QED BY <3>1, <3>2, <3>3
    <2>2. CASE row \notin inserted[v]
      <3>1. v = w /\ row = new
        BY <1>7, <1>8, <2>2
      <3>2. \A m \in EventsOf(ws) : m < n
        BY <1>1, <1>2, SeenNat
      <3>3. 1 <= n
        BY <1>1, <1>2
      <3>4. QED BY <1>4, <1>7, <3>1, <3>2, <3>3
    <2>3. QED BY <2>1, <2>2
  <1>9. \A row \in rows : 1 <= row.seq /\ row.seq <= n
    BY <1>1, <1>2 DEF TableOK, Row
  <1>10. QED BY <1>5, <1>6, <1>7, <1>8, <1>9 DEF TableOK

\* A commit adds rows that come after every row of their workspace.
LEMMA EndKeeps ==
  ASSUME TableOK, NEW w \in Writers, CommitTransaction(w) \/ RollbackTransaction(w)
  PROVE  /\ TableOK'
         /\ \A x \in Workspaces : /\ EventsOf(x) \subseteq EventsOf(x)'
                                  /\ \A n \in EventsOf(x)' \ EventsOf(x) :
                                       n \in Nat \ {0} /\ \A m \in EventsOf(x) : m < n
  <1>1. /\ inserted' = [inserted EXCEPT ![w] = {}] /\ sequence' = sequence
        /\ lock' = [ws \in Workspaces |-> IF lock[ws] = w THEN None ELSE lock[ws]]
        /\ rows \subseteq rows' /\ rows' \subseteq rows \cup inserted[w]
    BY DEF CommitTransaction, RollbackTransaction, EndTransaction
  <1>2. /\ inserted' \in [Writers -> SUBSET Row] /\ lock' \in [Workspaces -> Writers \cup {None}]
        /\ inserted'[w] = {} /\ \A v \in Writers \ {w} : inserted'[v] = inserted[v]
    BY <1>1 DEF TableOK
  <1>3. rows' \subseteq Row /\ \A row \in rows' : 1 <= row.seq /\ row.seq <= sequence
    BY <1>1 DEF TableOK
  <1>4. ASSUME NEW x \in Workspaces
        PROVE  /\ EventsOf(x) \subseteq EventsOf(x)'
               /\ \A n \in EventsOf(x)' \ EventsOf(x) :
                    n \in Nat \ {0} /\ (\A m \in EventsOf(x) : m < n) /\ lock[x] = w
    <2>1. EventsOf(x) \subseteq EventsOf(x)'
      BY <1>1 DEF EventsOf
    <2>2. ASSUME NEW n \in EventsOf(x)', n \notin EventsOf(x)
          PROVE  n \in Nat \ {0} /\ (\A m \in EventsOf(x) : m < n) /\ lock[x] = w
      <3>1. PICK row \in rows' : row.ws = x /\ row.seq = n
        BY DEF EventsOf
      <3>2. row \in inserted[w]
        BY <1>1, <2>2, <3>1 DEF EventsOf
      <3>3. 1 <= n /\ n \in Nat /\ lock[x] = w /\ \A m \in EventsOf(x) : m < n
        BY <3>1, <3>2 DEF TableOK, Row
      <3>4. QED BY <3>3
    <2>3. QED BY <2>1, <2>2
  <1>5. ASSUME NEW v \in Writers, NEW row \in inserted'[v]
        PROVE  /\ 1 <= row.seq /\ row.seq <= sequence /\ lock'[row.ws] = v
               /\ \A m \in EventsOf(row.ws)' : m < row.seq
    <2>1. v # w /\ row \in inserted[v] /\ row.ws \in Workspaces
      BY <1>2, <1>5 DEF TableOK, Row
    <2>2. /\ 1 <= row.seq /\ row.seq <= sequence /\ lock[row.ws] = v
          /\ \A m \in EventsOf(row.ws) : m < row.seq
      BY <2>1 DEF TableOK
    <2>3. lock'[row.ws] = v
      BY <1>1, <2>1, <2>2
    <2>4. EventsOf(row.ws)' = EventsOf(row.ws)
      BY <1>4, <2>1, <2>2
    <2>5. QED BY <2>2, <2>3, <2>4
  <1>6. TableOK'
    BY <1>1, <1>2, <1>3, <1>5 DEF TableOK
  <1>7. QED BY <1>4, <1>6

\* New rows come after all that the feed is about.
LEMMA TableStepKeepsFeed ==
  ASSUME TableOK, FeedOK, UNCHANGED feed, Seen \subseteq Seen',
         \A n \in Seen' \ Seen : n \in Nat \ {0} /\ \A m \in Seen : m < n
  PROVE  FeedOK'
  <1>1. received' = received /\ wire' = wire /\ cursor' = cursor /\ lastEventId' = lastEventId
    BY DEF feed, lastEventId
  <1>2. PICK S, T : S = Seen /\ T = Seen'
    OBVIOUS
  <1>3. /\ S \subseteq T /\ \A n \in S : n \in Nat
        /\ \A n \in T \ S : n \in Nat \ {0} /\ \A m \in S : m < n
    BY <1>2, SeenNat DEF Seen
  <1>4. ASSUME NEW k \in S \cup {0}, NEW n \in T, n <= k PROVE n \in S
    BY <1>3, <1>4
  <1>5. { n \in T : n <= lastEventId } = { n \in S : n <= lastEventId }
    BY <1>2, <1>3, <1>4 DEF FeedOK
  <1>6. cursor # None => { n \in T : lastEventId < n /\ n <= cursor } =
                         { n \in S : lastEventId < n /\ n <= cursor }
    BY <1>2, <1>3, <1>4 DEF FeedOK
  <1>7. QED BY <1>1, <1>2, <1>3, <1>5, <1>6 DEF FeedOK, Ascending, ToSet

LEMMA FeedFacts ==
  ASSUME SInv
  PROVE  /\ received \in Seq(Nat) /\ wire \in Seq(Nat) /\ Ascending(received) /\ Ascending(wire)
         /\ lastEventId \in Nat /\ (cursor # None => cursor \in Nat /\ lastEventId <= cursor)
         /\ \A n \in Seen : n \in Nat /\ 1 <= n
         /\ ToSet(received) = { n \in Seen : n <= lastEventId }
         /\ cursor = None => wire = <<>>
         /\ cursor # None => ToSet(wire) = { n \in Seen : lastEventId < n /\ n <= cursor }
  <1>1. \A n \in Seen : n \in Nat /\ 1 <= n
    BY SeenNat DEF SInv, Seen
  <1>2. lastEventId \in Nat /\ (cursor # None => cursor \in Nat /\ lastEventId <= cursor)
    BY <1>1 DEF SInv, FeedOK
  <1>3. QED BY <1>1, <1>2 DEF SInv, FeedOK

LEMMA RangeIs ==
  ASSUME NEW q \in Seq(Nat)
  PROVE  ToSet(q) = { q[i] : i \in 1 .. Len(q) }
  BY DEF ToSet

\* The next event arrives: it is the next that was committed.
LEMMA ReceiveKeeps ==
  ASSUME SInv, Receive
  PROVE  FeedOK'
  <1> DEFINE h == Head(wire)
             r == received
             q == wire
  <1>1. /\ q # <<>> /\ received' = Append(r, h) /\ wire' = Tail(q) /\ cursor' = cursor
        /\ rows' = rows /\ cursor # None
    BY FeedFacts DEF Receive, table
  <1>2. /\ r \in Seq(Nat) /\ q \in Seq(Nat) /\ Ascending(r) /\ Ascending(q) /\ Len(q) >= 1
        /\ h = q[1] /\ h \in Nat
    BY <1>1, FeedFacts
  <1>3. Seen' = Seen
    BY <1>1 DEF Seen, EventsOf
  <1>4. PICK l \in Nat, c \in Nat : l = lastEventId /\ c = cursor /\ l <= c
    BY <1>1, FeedFacts
  <1>5. /\ \A n \in Seen : n \in Nat
        /\ { r[i] : i \in 1 .. Len(r) } = { n \in Seen : n <= l }
        /\ { q[i] : i \in 1 .. Len(q) } = { n \in Seen : l < n /\ n <= c }
    BY <1>1, <1>2, <1>4, FeedFacts, RangeIs
  <1> HIDE DEF h, r, q
  <1>6. h \in Seen /\ l < h /\ h <= c
    BY <1>2, <1>5
  <1>7. /\ received' \in Seq(Nat) /\ Len(received') = Len(r) + 1
        /\ (\A i \in 1 .. Len(r) : received'[i] = r[i]) /\ received'[Len(r) + 1] = h
        /\ received' # <<>>
    BY <1>1, <1>2
  <1>8. /\ wire' \in Seq(Nat) /\ Len(wire') = Len(q) - 1
        /\ \A i \in 1 .. Len(q) - 1 : wire'[i] = q[i + 1]
    BY <1>1, <1>2
  <1>9. lastEventId' = h
    BY <1>7 DEF lastEventId, Last
  <1>10. Ascending(received')
    <2>1. ASSUME NEW i \in 1 .. Len(r) PROVE r[i] < h
      <3>1. r[i] \in Nat /\ r[i] <= l
        BY <1>2, <1>5
      <3>2. QED BY <1>2, <1>4, <1>6, <3>1
    <2>2. ASSUME NEW i \in 1 .. Len(r) + 1, NEW j \in 1 .. Len(r) + 1, i < j
          PROVE  received'[i] < received'[j]
      <3>1. i \in 1 .. Len(r) /\ (j = Len(r) + 1 \/ j \in 1 .. Len(r))
        BY <1>2, <2>2
      <3>2. CASE j = Len(r) + 1
        BY <1>7, <2>1, <3>1, <3>2
      <3>3. CASE j \in 1 .. Len(r)
        <4>1. i \in DOMAIN r /\ j \in DOMAIN r
          BY <1>2, <3>1, <3>3
        <4>2. r[i] < r[j]
          BY <1>2, <2>2, <4>1 DEF Ascending
        <4>3. QED BY <1>7, <3>1, <3>3, <4>2
      <3>4. QED BY <3>1, <3>2, <3>3
    <2>3. DOMAIN received' = 1 .. Len(r) + 1
      BY <1>2, <1>7
    <2>4. QED BY <2>2, <2>3 DEF Ascending
  <1>11. Ascending(wire')
    <2>1. ASSUME NEW i \in 1 .. Len(q) - 1, NEW j \in 1 .. Len(q) - 1, i < j
          PROVE  wire'[i] < wire'[j]
      <3>1. i + 1 \in DOMAIN q /\ j + 1 \in DOMAIN q /\ i + 1 < j + 1
        BY <1>2, <2>1
      <3>2. QED BY <1>2, <1>8, <3>1 DEF Ascending
    <2>2. DOMAIN wire' = 1 .. Len(q) - 1
      BY <1>2, <1>8
    <2>3. QED BY <2>1, <2>2 DEF Ascending
  <1>12. ASSUME NEW n \in Seen, l < n, n <= c, n # h
         PROVE  \E i \in 1 .. Len(q) - 1 : wire'[i] = n
    <2>1. PICK i \in 1 .. Len(q) : q[i] = n
      BY <1>5, <1>12
    <2>2. i # 1 /\ i - 1 \in 1 .. Len(q) - 1 /\ (i - 1) + 1 = i
      BY <1>2, <1>12, <2>1
    <2>3. QED BY <1>8, <2>1, <2>2
  <1>13. ASSUME NEW i \in 1 .. Len(q) - 1
         PROVE  wire'[i] \in Seen /\ h < wire'[i] /\ wire'[i] <= c
    <2>1. i + 1 \in 1 .. Len(q) /\ 1 \in 1 .. Len(q) /\ 1 < i + 1 /\ wire'[i] = q[i + 1]
      BY <1>2, <1>8
    <2>2. QED BY <1>2, <1>5, <2>1 DEF Ascending
  <1>14. ToSet(wire') = { n \in Seen : h < n /\ n <= c }
    <2>1. ASSUME NEW n \in Seen, h < n, n <= c PROVE n \in { wire'[i] : i \in 1 .. Len(wire') }
      <3>1. l < n /\ n # h
        <4>1. l \in Nat /\ h \in Nat /\ n \in Nat /\ l < h /\ h < n
          BY <1>2, <1>5, <1>6, <2>1
        <4>2. QED BY <4>1
      <3>2. QED BY <1>8, <1>12, <2>1, <3>1
    <2>2. QED BY <1>8, <1>13, <2>1, RangeIs
  <1>15. ToSet(received') = { n \in Seen : n <= h }
    <2>1. ToSet(received') = { r[i] : i \in 1 .. Len(r) } \cup {h}
      <3>1. ToSet(received') = { received'[i] : i \in 1 .. Len(received') }
        BY <1>7, RangeIs
      <3>2. \A i : i \in 1 .. Len(received') <=> i \in 1 .. Len(r) \/ i = Len(r) + 1
        BY <1>2, <1>7
      <3>3. QED BY <1>7, <3>1, <3>2
    <2>2. ASSUME NEW n \in Seen, n <= h, l < n PROVE n = h
      <3>1. n <= c
        BY <1>2, <1>4, <1>5, <1>6, <2>2
      <3>2. n # h => h < n
        <4>1. n # h => \E i \in 1 .. Len(q) - 1 : wire'[i] = n
          BY <1>12, <2>2, <3>1
        <4>2. QED BY <1>13, <4>1
      <3>3. QED BY <1>2, <1>5, <2>2, <3>2
    <2>3. \A n \in Seen : n <= l => n <= h
      BY <1>2, <1>4, <1>5, <1>6
    <2>4. \A n \in Seen : n <= l \/ l < n
      BY <1>4, <1>5
    <2>5. h <= h
      BY <1>2
    <2>6. { n \in Seen : n <= l } \cup {h} = { n \in Seen : n <= h }
      BY <1>6, <2>2, <2>3, <2>4, <2>5
    <2>7. QED BY <1>5, <2>1, <2>6
  <1>16. cursor' = c /\ cursor' # None /\ c \in Seen \cup {0}
    <2>1. FeedOK
      BY DEF SInv
    <2>2. QED BY <1>1, <1>4, <2>1 DEF FeedOK
  <1>17. QED
    BY <1>3, <1>6, <1>7, <1>8, <1>9, <1>10, <1>11, <1>14, <1>15, <1>16 DEF FeedOK

\* A poll puts the next page on the wire, and the cursor behind it.
LEMMA PollKeeps ==
  ASSUME SInv, Poll
  PROVE  FeedOK'
  <1> DEFINE q == wire
  <1>1. PICK page \in Pages : page # <<>> /\ wire' = q \o page /\ cursor' = Last(page)
    BY DEF Poll
  <1>2. cursor # None /\ received' = received /\ rows' = rows
    BY DEF Poll, table
  <1>3. PICK l \in Nat, c \in Nat : l = lastEventId /\ c = cursor /\ l <= c
    BY <1>2, FeedFacts
  <1>4. Seen' = Seen /\ lastEventId' = l
    BY <1>2, <1>3 DEF Seen, EventsOf, lastEventId
  <1>5. PICK k \in Nat : page \in [1 .. k -> Later]
    BY <1>1, EventStreamAssumption DEF Pages, BoundedSeq, SeqOf
  <1>6. Later = { n \in Seen : n > c } /\ \A n \in Seen : n \in Nat
    BY <1>3, FeedFacts DEF Later, Seen
  <1>7. page \in Seq(Nat) /\ Len(page) = k /\ k >= 1
    <2>1. page \in [1 .. k -> Nat]
      BY <1>5, <1>6
    <2>2. page \in Seq(Nat) /\ Len(page) = k
      BY <2>1
    <2>3. QED BY <1>1, <2>2
  <1>8. /\ \A i, j \in 1 .. k : i < j => page[i] < page[j]
        /\ \A n \in Later : n \in ToSet(page) \/ \A m \in ToSet(page) : m < n
    <2>1. IsPage(page)
      BY <1>1 DEF Pages
    <2>2. DOMAIN page = 1 .. k
      BY <1>5
    <2>3. QED BY <2>1, <2>2 DEF IsPage, Ascending
  <1>9. PICK t \in Nat : t = page[k] /\ cursor' = t /\ t \in Seen /\ c < t
    <2>1. page[k] \in Later /\ Last(page) = page[k]
      BY <1>5, <1>7 DEF Last
    <2>2. QED BY <1>1, <1>3, <1>6, <2>1
  <1>10. ToSet(page) = { n \in Seen : c < n /\ n <= t }
    <2>1. ToSet(page) = { page[i] : i \in 1 .. k }
      BY <1>7, RangeIs
    <2>2. ASSUME NEW i \in 1 .. k PROVE page[i] \in Seen /\ c < page[i] /\ page[i] <= t
      <3>1. page[i] \in Seen /\ c < page[i] /\ page[i] \in Nat
        BY <1>3, <1>5, <1>6
      <3>2. i = k \/ i < k
        BY <1>7
      <3>3. k \in 1 .. k
        BY <1>7
      <3>4. QED BY <1>8, <1>9, <3>1, <3>2, <3>3
    <2>3. ASSUME NEW n \in Seen, c < n, n <= t PROVE n \in ToSet(page)
      <3>1. n \in Later /\ n \in Nat
        BY <1>3, <1>6, <2>3
      <3>2. t \in ToSet(page)
        BY <1>7, <1>9, <2>1
      <3>3. ~(t < n)
        BY <1>9, <2>3, <3>1
      <3>4. QED BY <1>8, <3>1, <3>2, <3>3
    <2>4. QED BY <2>1, <2>2, <2>3
  <1>11. q \in Seq(Nat) /\ Ascending(q) /\ ToSet(q) = { n \in Seen : l < n /\ n <= c }
    BY <1>2, <1>3, FeedFacts
  <1> HIDE DEF q
  <1>12. /\ wire' \in Seq(Nat) /\ Len(wire') = Len(q) + k
         /\ (\A i \in 1 .. Len(q) : wire'[i] = q[i])
         /\ \A i \in 1 .. k : wire'[Len(q) + i] = page[i]
    <2>1. PICK a \in Nat : a = Len(q)
      BY <1>11
    <2>2. /\ q \o page \in Seq(Nat) /\ Len(q \o page) = a + k
          /\ \A i \in 1 .. a + k : (q \o page)[i] = IF i <= a THEN q[i] ELSE page[i - a]
      BY <1>7, <1>11, <2>1
    <2>3. \A i \in 1 .. a : i \in 1 .. a + k /\ i <= a
      BY <2>1, <1>7
    <2>4. \A i \in 1 .. k : a + i \in 1 .. a + k /\ ~(a + i <= a) /\ (a + i) - a = i
      BY <2>1, <1>7
    <2>5. QED BY <1>1, <2>1, <2>2, <2>3, <2>4
  <1>13. \A i \in 1 .. Len(q) + k :
           i \in 1 .. Len(q) \/ \E j \in 1 .. k : i = Len(q) + j
    <2>1. ASSUME NEW i \in 1 .. Len(q) + k, i \notin 1 .. Len(q)
          PROVE  \E j \in 1 .. k : i = Len(q) + j
      <3>1. i - Len(q) \in 1 .. k /\ i = Len(q) + (i - Len(q))
        BY <1>7, <1>11, <2>1
      <3>2. QED BY <3>1
    <2>2. QED BY <2>1
  <1>14. ToSet(wire') = ToSet(q) \cup ToSet(page)
    <2>1. ToSet(wire') = { wire'[i] : i \in 1 .. Len(q) + k }
      BY <1>12, RangeIs
    <2>2. ToSet(q) = { q[i] : i \in 1 .. Len(q) } /\ ToSet(page) = { page[i] : i \in 1 .. k }
      BY <1>7, <1>11, RangeIs
    <2>3. /\ \A i \in 1 .. Len(q) : i \in 1 .. Len(q) + k
          /\ \A i \in 1 .. k : Len(q) + i \in 1 .. Len(q) + k
      BY <1>7, <1>11
    <2>4. ToSet(q) \subseteq ToSet(wire') /\ ToSet(page) \subseteq ToSet(wire')
      BY <1>12, <2>1, <2>2, <2>3
    <2>5. ASSUME NEW i \in 1 .. Len(q) + k PROVE wire'[i] \in ToSet(q) \cup ToSet(page)
      <3>1. CASE i \in 1 .. Len(q)
        BY <1>12, <2>2, <3>1
      <3>2. ASSUME NEW j \in 1 .. k, i = Len(q) + j PROVE wire'[i] \in ToSet(page)
        BY <1>12, <2>2, <3>2
      <3>3. QED BY <1>13, <3>1, <3>2
    <2>6. QED BY <2>1, <2>4, <2>5
  <1>15. ToSet(wire') = { n \in Seen : l < n /\ n <= t }
    <2>1. \A n \in Seen : (l < n /\ n <= t) <=> (l < n /\ n <= c) \/ (c < n /\ n <= t)
      BY <1>3, <1>6, <1>9
    <2>2. QED BY <1>10, <1>11, <1>14, <2>1
  <1>16. Ascending(wire')
    <2>1. ASSUME NEW i \in 1 .. Len(q) + k, NEW j \in 1 .. Len(q) + k, i < j
          PROVE  wire'[i] < wire'[j]
      <3>1. CASE i \in 1 .. Len(q) /\ j \in 1 .. Len(q)
        <4>1. i \in DOMAIN q /\ j \in DOMAIN q
          BY <1>11, <3>1
        <4>2. q[i] < q[j]
          BY <1>11, <2>1, <4>1 DEF Ascending
        <4>3. QED BY <1>12, <3>1, <4>2
      <3>2. ASSUME i \in 1 .. Len(q), NEW b \in 1 .. k, j = Len(q) + b
            PROVE  wire'[i] < wire'[j]
        <4>1. q[i] \in ToSet(q) /\ page[b] \in ToSet(page)
          BY <1>7, <1>11, <3>2, RangeIs
        <4>2. q[i] \in Nat /\ page[b] \in Nat /\ q[i] <= c /\ c < page[b]
          BY <1>6, <1>10, <1>11, <4>1
        <4>3. q[i] < page[b]
          BY <1>3, <4>2
        <4>4. QED BY <1>12, <3>2, <4>3
      <3>3. ASSUME NEW a \in 1 .. k, i = Len(q) + a, NEW b \in 1 .. k, j = Len(q) + b
            PROVE  wire'[i] < wire'[j]
        <4>1. a < b
          BY <1>11, <2>1, <3>3
        <4>2. QED BY <1>8, <1>12, <3>3, <4>1
      <3>4. ASSUME NEW a \in 1 .. k, i = Len(q) + a, j \in 1 .. Len(q) PROVE FALSE
        BY <1>11, <2>1, <3>4
      <3>5. QED BY <1>13, <3>1, <3>2, <3>3, <3>4
    <2>2. DOMAIN wire' = 1 .. Len(q) + k
      BY <1>12
    <2>3. QED BY <2>1, <2>2 DEF Ascending
  <1>17. /\ received' \in Seq(Nat) /\ Ascending(received')
         /\ ToSet(received') = { n \in Seen : n <= l } /\ l \in Seen \cup {0}
    <2>1. l \in Seen \cup {0}
      BY <1>3 DEF SInv, FeedOK
    <2>2. QED BY <1>2, <1>3, <2>1, FeedFacts
  <1>18. cursor' = t /\ cursor' # None /\ l <= t
    <2>1. l <= t
      BY <1>3, <1>9
    <2>2. QED BY <1>9, <2>1, EventStreamAssumption
  <1>19. QED
    BY <1>4, <1>9, <1>12, <1>15, <1>16, <1>17, <1>18 DEF FeedOK

\* The stream is opened from the last event the client has, and a connection
\* that is lost takes only the wire with it.
LEMMA OpenKeeps ==
  ASSUME SInv, events \/ Drop
  PROVE  FeedOK'
  <1>1. received' = received /\ rows' = rows
    BY DEF events, Drop, table
  <1>2. Seen' = Seen /\ lastEventId' = lastEventId
    BY <1>1 DEF Seen, EventsOf, lastEventId
  <1>3. /\ received \in Seq(Nat) /\ Ascending(received) /\ lastEventId \in Seen \cup {0}
        /\ ToSet(received) = { n \in Seen : n <= lastEventId } /\ lastEventId \in Nat
        /\ \A n \in Seen : n \in Nat
    BY FeedFacts DEF SInv, FeedOK
  <1>4. wire' = <<>> /\ cursor' \in {None, lastEventId}
    BY FeedFacts DEF events, Drop
  <1>5. wire' \in Seq(Nat) /\ Ascending(wire') /\ ToSet(wire') = {}
    <2>1. <<>> \in Seq(Nat) /\ DOMAIN <<>> = {} /\ ToSet(<<>>) = {}
      BY DEF ToSet
    <2>2. QED BY <1>4, <2>1 DEF Ascending
  <1>6. { n \in Seen : lastEventId < n /\ n <= lastEventId } = {} /\ lastEventId <= lastEventId
    <2>1. PICK l \in Nat : l = lastEventId
      BY <1>3
    <2>2. l <= l /\ \A n \in Seen : ~(l < n /\ n <= l)
      BY <1>3
    <2>3. QED BY <2>1, <2>2
  <1>7. QED BY <1>1, <1>2, <1>3, <1>4, <1>5, <1>6 DEF FeedOK

LEMMA StreamBegins ==
  ASSUME StreamInit
  PROVE  SInv
  <1>1. /\ sequence = 0 /\ rows = {} /\ inserted = [w \in Writers |-> {}]
        /\ lock = [ws \in Workspaces |-> None]
        /\ cursor = None /\ wire = <<>> /\ received = <<>>
    BY DEF StreamInit
  <1>2. Seen = {}
    BY <1>1 DEF Seen, EventsOf
  <1>3. TableOK
    <2>1. sequence \in 0 .. MaxEvents
      BY <1>1, EventStreamAssumption
    <2>2. QED BY <1>1, <2>1 DEF TableOK
  <1>4. FeedOK
    <2>1. <<>> \in Seq(Nat) /\ DOMAIN <<>> = {} /\ ToSet(<<>>) = {}
      BY DEF ToSet
    <2>2. lastEventId = 0
      BY <1>1 DEF lastEventId
    <2>3. QED BY <1>1, <1>2, <2>1, <2>2 DEF FeedOK, Ascending
  <1>5. QED BY <1>3, <1>4 DEF SInv

LEMMA StreamStep ==
  ASSUME SInv, [StreamNext]_streamVars
  PROVE  SInv'
  <1>0. TableOK /\ FeedOK
    BY DEF SInv
  <1>1. ASSUME UNCHANGED table PROVE TableOK'
    BY <1>0, <1>1 DEF table, TableOK, EventsOf
  <1>2. CASE UNCHANGED streamVars
    <2>1. UNCHANGED table /\ UNCHANGED << cursor, wire, received >> /\ rows' = rows
      BY <1>2 DEF streamVars, feed, table
    <2>2. Seen' = Seen /\ lastEventId' = lastEventId
      BY <2>1 DEF Seen, EventsOf, lastEventId
    <2>3. FeedOK'
      BY <1>0, <2>1, <2>2 DEF FeedOK
    <2>4. QED BY <1>1, <2>1, <2>3 DEF SInv
  <1>3. ASSUME NEW w \in Writers, NEW ws \in Workspaces, publish(w, ws) PROVE SInv'
    <2>1. TableOK' /\ \A x : EventsOf(x)' = EventsOf(x)
      BY <1>0, <1>3, InsertKeeps
    <2>2. Seen' = Seen
      BY <2>1 DEF Seen
    <2>3. UNCHANGED feed
      BY <1>3 DEF publish
    <2>4. QED BY <1>0, <2>1, <2>2, <2>3, TableStepKeepsFeed DEF SInv
  <1>4. ASSUME NEW w \in Writers, CommitTransaction(w) \/ RollbackTransaction(w) PROVE SInv'
    <2>1. /\ TableOK'
          /\ \A x \in Workspaces : /\ EventsOf(x) \subseteq EventsOf(x)'
                                   /\ \A n \in EventsOf(x)' \ EventsOf(x) :
                                        n \in Nat \ {0} /\ \A m \in EventsOf(x) : m < n
      BY <1>0, <1>4, EndKeeps
    <2>2. /\ Seen \subseteq Seen'
          /\ \A n \in Seen' \ Seen : n \in Nat \ {0} /\ \A m \in Seen : m < n
      BY <2>1, EventStreamAssumption DEF Seen
    <2>3. UNCHANGED feed
      BY <1>4 DEF CommitTransaction, RollbackTransaction, EndTransaction
    <2>4. QED BY <1>0, <2>1, <2>2, <2>3, TableStepKeepsFeed DEF SInv
  <1>5. CASE events \/ Drop
    <2>1. UNCHANGED table
      BY <1>5 DEF events, Drop
    <2>2. QED BY <1>1, <1>5, <2>1, OpenKeeps DEF SInv
  <1>6. CASE Poll
    <2>1. UNCHANGED table
      BY <1>6 DEF Poll
    <2>2. QED BY <1>1, <1>6, <2>1, PollKeeps DEF SInv
  <1>7. CASE Receive
    <2>1. UNCHANGED table
      BY <1>7 DEF Receive
    <2>2. QED BY <1>1, <1>7, <2>1, ReceiveKeeps DEF SInv
  <1>8. QED BY <1>2, <1>3, <1>4, <1>5, <1>6, <1>7 DEF StreamNext

LEMMA StreamInvariant == DeliverySpec => []SInv
  <1>1. DeliveryInit => SInv
    BY StreamBegins DEF DeliveryInit
  <1>2. SInv /\ [DeliveryNext]_deliveryVars => SInv'
    <2>1. [DeliveryNext]_deliveryVars => [StreamNext]_streamVars
      BY DEF DeliveryNext, Only, deliveryVars
    <2>2. QED BY <2>1, StreamStep
  <1>3. QED BY <1>1, <1>2, PTL DEF DeliverySpec
-----------------------------------------------------------------------------
(* The theorem                                                             *)

LEMMA OutboxGives ==
  ASSUME OInv
  PROVE  OutboxTypeOK /\ Accounted
  <1>1. ASSUME NEW e \in Events
        PROVE  /\ status[e] = "sent" => delivered[e] >= 1
               /\ delivered[e] <= attempts[e]
               /\ status[e] = "failed" => attempts[e] >= MAX_DELIVERY_ATTEMPTS
    <2>1. PICK a \in Nat, d \in Nat, x \in Nat :
            a = attempts[e] /\ d = delivered[e] /\ x = Cardinality(Publishing(e))
      BY OutboxFacts
    <2>2. d + x <= a
      BY <2>1, OutboxFacts
    <2>3. d <= a
      BY <2>1, <2>2
    <2>4. QED BY <2>1, <2>3 DEF OInv, EventOK
  <1>2. QED BY <1>1 DEF OInv, Accounted

LEMMA StreamGives ==
  ASSUME SInv
  PROVE  StreamTypeOK /\ NothingMissed
  <1>1. TableOK /\ FeedOK
    BY DEF SInv
  <1>2. NothingMissed
    BY <1>1 DEF FeedOK, NothingMissed, Seen
  <1>3. sequence \in 0 .. MaxEvents /\ sequence \in Nat
    BY <1>1, EventStreamAssumption DEF TableOK
  <1>4. rows \subseteq [seq : 1 .. sequence, ws : Workspaces]
    BY <1>1, <1>3 DEF TableOK, Row
  <1>5. cursor \in (0 .. sequence) \cup {None}
    <2>1. \A n \in Seen : n \in 0 .. sequence
      BY <1>1, <1>3, SeenNat DEF Seen
    <2>2. QED BY <1>1, <1>3, <2>1 DEF FeedOK
  <1>6. ASSUME NEW w \in Writers, NEW row \in inserted[w]
        PROVE  row.seq \in 1 .. sequence /\ lock[row.ws] = w /\ row.seq \notin EventsOf(row.ws)
    <2>1. /\ row.seq \in Nat /\ 1 <= row.seq /\ row.seq <= sequence /\ lock[row.ws] = w
          /\ \A n \in EventsOf(row.ws) : n < row.seq
      BY <1>1 DEF TableOK, Row
    <2>2. row.seq \in 1 .. sequence /\ ~(row.seq < row.seq)
      BY <1>3, <2>1
    <2>3. QED BY <2>1, <2>2
  <1>7. QED BY <1>2, <1>3, <1>4, <1>5, <1>6 DEF StreamTypeOK

\* From a transition to the client that hears of it: an event is reported as
\* sent or failed only for what was delivered or tried (publishNext of
\* outbox-publisher.service.ts), and the client has a prefix of what was
\* committed, without a gap (the advisory lock of publish, the cursor of
\* SseController), for every number of publishers, writers and workspaces.
THEOREM Delivered == DeliverySpec => []DeliveryInv
  <1>1. TInv => TransitionsTypeOK
    <2>1. SUFFICES ASSUME TInv, NEW c \in Callers
                   PROVE  /\ run.state \in WORKFLOW_STATES /\ run.version \in Nat
                          /\ run.policy \in Nat
                          /\ caller[c].conditions \subseteq TransitionConditions
      BY DEF TransitionsTypeOK, TInv, TransitionTypes
    <2>2. caller[c] \in CallerRec
      BY <2>1, CallFacts
    <2>3. QED BY <2>1, <2>2 DEF TInv, TransitionTypes, CallerRec
  <1>2. TInv /\ OInv /\ SInv => DeliveryInv
    BY <1>1, OutboxGives, StreamGives DEF DeliveryInv, DeliveryTypeOK
  <1>3. QED BY <1>2, TransitionsInvariant, OutboxInvariant, StreamInvariant, PTL
=============================================================================
