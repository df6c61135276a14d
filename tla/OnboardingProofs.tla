-------------------------- MODULE OnboardingProofs ---------------------------
(***************************************************************************)
(* Proofs about Onboarding, for every set of tabs and names and every      *)
(* value of the bounds: a submission that was cut off can be repeated      *)
(* without creating a second workspace, no handoff is bounced, and the     *)
(* workspace that a session claims is one that the backend has confirmed.  *)
(*                                                                         *)
(* First the types, and that every request a tab waits for is one that the *)
(* server has, for that tab only.  Then who owns an idempotency key: the   *)
(* wizard that drew it, whose first request with it carries the form that  *)
(* is locked.  Then what the session cookie and the metadata of the user   *)
(* say while a request that changes them is under way.                     *)
(***************************************************************************)
EXTENDS Onboarding, FiniteSetTheorems, TLAPS

Targets == {"wizard", "dashboard", "cloud"}
Waits == Req \cup {None}
WizardTab == [page : {"wizard"}, step : 0..2, form : Form, payload : Form \cup {None},
              key : Key, mine : SUBSET Key, retrying : BOOLEAN, req : Waits]
ClassicTab == [page : {"classic"}, step : 0..5, named : BOOLEAN, provider : {"aws", "other"},
               created : BOOLEAN, req : Waits]
ConsoleTab == [page : {"dashboard", "cloud"}, listed : SUBSET Key, seen : Key \cup {None},
               req : Waits]
PlainTab == [page : {"signin", "post-auth", "post-auth-aws", "error", "failed"}, req : Waits]
HandoffTab == [page : {"handoff"}, target : Targets, expected : Workspace, probe : 1..2,
               user : Workspace, req : {None}]
ArrivingTab == [page : {"arriving"}, target : Targets, expected : Workspace, req : {None}]
TabState == WizardTab \cup ClassicTab \cup ConsoleTab \cup PlainTab \cup HandoffTab
              \cup ArrivingTab

LateCall == [op : {"create", "ensure"}, key : 0..MaxKeys, payload : Form \cup {None},
             ws : Workspace]

\* A call that creates a workspace carries a key and a form.
Creates(q) == q.key \in Key /\ q.payload \in Form

Types ==
  /\ tab \in [Tab -> TabState] /\ srv \in [Req -> RequestState \cup {None}]
  /\ late \subseteq LateCall /\ spaces \in [Existing -> Form]
  /\ Existing \subseteq Key /\ gone \subseteq Existing
  /\ active \in Workspace /\ metadata \in Workspace /\ token \in Workspace \cup {Out}
  /\ keys \in 0..MaxKeys /\ faults \in 0..MaxFaults /\ moves \in 0..MaxMoves
  /\ stub \in BOOLEAN /\ bounced \in BOOLEAN
  /\ \A r \in Req : srv[r] # None /\ srv[r].at = "create" => Creates(srv[r])
  /\ \A l \in late : l.op = "create" => Creates(l)

\* The parts of a request, by name.
Kinds == {"create", "claim", "post-auth"}
Codes == {"", "workspace_create_failed", "duplicate_idempotency_key", "slug_taken",
          "unauthorized"}
Stages == {"create", "ensure", "reconcile", "done"}
Statuses == {200, 401, 409, 500, 502, 504}

LEMMA RequestStateIs ==
  RequestState = [kind : Kinds, ws : Workspace, key : 0..MaxKeys, payload : Form \cup {None},
                  claimed : Workspace \cup {Out}, code : Codes, at : Stages, status : Statuses]
  BY DEF RequestState, Kinds, Codes, Stages, Statuses

LEMMA RequestWorkspace == \A q \in RequestState : q.ws \in Workspace
  BY RequestStateIs
----------------------------------------------------------------------------
(* What a step does to the tab that takes it                               *)

\* The tab t alone changes.
Moves(t) ==
  /\ tab' \in [Tab -> TabState]
  /\ \A u \in Tab \ {t} : tab'[u] = tab[u]

\* It shows another page and waits for nothing.
Leaves(t) == tab'[t].page # "wizard" /\ tab'[t].req = None /\ keys' = keys

\* It stays, and a wizard keeps its key and what it is locked on.
Stays(t) ==
  /\ tab'[t].page = tab[t].page /\ keys' = keys
  /\ tab[t].page = "wizard" =>
       /\ tab'[t].key = tab[t].key /\ tab'[t].mine = tab[t].mine
       /\ tab'[t].payload = tab[t].payload /\ tab'[t].retrying = tab[t].retrying
       /\ Locked(tab[t]) => tab'[t].form = tab[t].form

\* It mounts a wizard with a new key.
Mounts(t) == tab'[t] = Wizard(keys + 1) /\ keys' = keys + 1 /\ keys < MaxKeys

\* A wizard whose first attempt was refused is unlocked, under a new key.
Unlocks(t) ==
  /\ tab[t].page = "wizard" /\ tab'[t].page = "wizard" /\ keys < MaxKeys /\ keys' = keys + 1
  /\ Answered(t) /\ Definitive(srv[tab[t].req]) /\ ~tab[t].retrying /\ ~tab'[t].retrying
  /\ tab'[t].payload = None /\ tab'[t].key = keys + 1
  /\ tab'[t].mine = tab[t].mine \cup {keys + 1}

\* The request r alone changes.
SrvMoves(r) ==
  /\ srv' \in [Req -> RequestState \cup {None}]
  /\ \A x \in Req \ {r} : srv'[x] = srv[x]

\* The four ways a tab uses the server: not at all; its request is answered or
\* lost; it asks; a wizard submits.
Calm(t) == srv' = srv /\ tab'[t].req \in {tab[t].req, None} /\ (Leaves(t) \/ Stays(t) \/ Mounts(t))

Settles(t) ==
  /\ Awaits(t) /\ SrvMoves(tab[t].req) /\ srv'[tab[t].req] = None /\ tab'[t].req = None
  /\ Leaves(t) \/ Stays(t) \/ Unlocks(t)

Asked(t, r) ==
  /\ r \in Req /\ srv[r] = None /\ SrvMoves(r) /\ tab'[t].req = r
  /\ srv'[r] \in RequestState /\ srv'[r] # None /\ srv'[r].claimed = token
  /\ srv'[r].at \in {"create", "ensure", "done"} /\ (srv'[r].at # "done" => token # Out)
  /\ srv'[r].at = "create" => srv'[r].kind = "create"
  /\ srv'[r].at = "done" => srv'[r].status = 401

Asks(t) ==
  /\ Stays(t) /\ tab[t].page # "wizard"
  /\ \E r \in Req : Asked(t, r) /\ srv'[r].kind # "create"

Submits(t) ==
  /\ tab[t].page = "wizard" /\ tab'[t].page = "wizard" /\ keys' = keys
  /\ ~Awaits(t) /\ tab'[t].retrying = Locked(tab[t])
  /\ tab'[t].key = tab[t].key /\ tab'[t].mine = tab[t].mine /\ tab'[t].form = tab[t].form
  /\ tab'[t].payload = (IF Locked(tab[t]) THEN tab[t].payload ELSE tab[t].form)
  /\ \E r \in Req :
       /\ Asked(t, r) /\ srv'[r].kind = "create" /\ srv'[r].at # "ensure"
       /\ srv'[r].key = tab[t].key /\ srv'[r].payload = tab'[t].payload

\* A step of a tab: nothing but the server's requests, the token and the bounds
\* changes besides the tab.
TabMoves(t) ==
  /\ Moves(t) /\ UNCHANGED <<late, backend, stub, metadata>>
  /\ Calm(t) \/ Settles(t) \/ Asks(t) \/ Submits(t)

LEMMA AtMostThree == \A x, y, z : Cardinality({x, y, z}) \in 0..3
<1> TAKE x, y, z
<1>1. IsFiniteSet({x}) /\ Cardinality({x}) = 1
  BY FS_Singleton
<1>2. IsFiniteSet({x} \cup {y}) /\ Cardinality({x} \cup {y}) \in 1..2
  BY <1>1, FS_AddElement
<1>3. Cardinality(({x} \cup {y}) \cup {z}) \in 1..3
  BY <1>2, FS_AddElement
<1>4. ({x} \cup {y}) \cup {z} = {x, y, z}
  OBVIOUS
<1> QED
  BY <1>3, <1>4

\* The values that stand for the absence of something are different.
LEMMA NoneFresh ==
  /\ None # Out /\ None # Org /\ None # Refused
  /\ Org # Out /\ Org # Refused /\ Out # Refused
  /\ None \notin Nat /\ Org \notin Nat /\ Out \notin Nat /\ Refused \notin Nat
<1>1. Cardinality({None, Org, Out, Refused}) = 4
  BY OnboardingAssumption
<1>2. None \notin {Org, Out, Refused}
  <2> SUFFICES ASSUME None \in {Org, Out, Refused} PROVE FALSE
    OBVIOUS
  <2>1. {None, Org, Out, Refused} = {Org, Out, Refused}
    OBVIOUS
  <2>2. Cardinality({Org, Out, Refused}) \in 0..3
    BY AtMostThree, Zenon
  <2> QED
    BY <1>1, <2>1, <2>2
<1>3. Org \notin {None, Out, Refused}
  <2> SUFFICES ASSUME Org \in {None, Out, Refused} PROVE FALSE
    OBVIOUS
  <2>1. {None, Org, Out, Refused} = {None, Out, Refused}
    OBVIOUS
  <2>2. Cardinality({None, Out, Refused}) \in 0..3
    BY AtMostThree, Zenon
  <2> QED
    BY <1>1, <2>1, <2>2
<1>4. Out # Refused
  <2> SUFFICES ASSUME Out = Refused PROVE FALSE
    OBVIOUS
  <2>1. {None, Org, Out, Refused} = {None, Org, Out}
    OBVIOUS
  <2>2. Cardinality({None, Org, Out}) \in 0..3
    BY AtMostThree, Zenon
  <2> QED
    BY <1>1, <2>1, <2>2
<1> QED
  BY <1>2, <1>3, <1>4, OnboardingAssumption

LEMMA MoveTo ==
  ASSUME Types, NEW t \in Tab, NEW x \in TabState, tab' = [tab EXCEPT ![t] = x]
  PROVE  Moves(t) /\ tab'[t] = x
  BY DEF Types, Moves

\* The kinds of pages differ in their pages.
LEMMA Pages ==
  ASSUME Types, NEW t \in Tab
  PROVE  /\ tab[t] \in TabState
         /\ tab[t].req \in Waits
         /\ tab[t].page = "wizard" => tab[t] \in WizardTab
         /\ tab[t].page = "classic" => tab[t] \in ClassicTab
         /\ tab[t].page \in {"dashboard", "cloud"} => tab[t] \in ConsoleTab
         /\ tab[t].page \in {"signin", "post-auth", "post-auth-aws", "error", "failed"} =>
              tab[t] \in PlainTab
         /\ tab[t].page = "handoff" => tab[t] \in HandoffTab
         /\ tab[t].page = "arriving" => tab[t] \in ArrivingTab
<1>1. tab[t] \in TabState
  BY DEF Types
<1>2. CASE tab[t] \in WizardTab
  BY <1>2 DEF WizardTab, TabState
<1>3. CASE tab[t] \in ClassicTab
  BY <1>3 DEF ClassicTab, TabState
<1>4. CASE tab[t] \in ConsoleTab
  BY <1>4 DEF ConsoleTab, TabState
<1>5. CASE tab[t] \in PlainTab
  BY <1>5 DEF PlainTab, TabState
<1>6. CASE tab[t] \in HandoffTab
  BY <1>6 DEF HandoffTab, TabState, Waits
<1>7. CASE tab[t] \in ArrivingTab
  BY <1>7 DEF ArrivingTab, TabState, Waits
<1> QED
  BY <1>1, <1>2, <1>3, <1>4, <1>5, <1>6, <1>7 DEF TabState

\* Where the middleware sends a visitor.
LEMMA Routes ==
  ASSUME NEW path \in {"dashboard", "wizard", "classic", "post-auth", "cloud"}
  PROVE  /\ Route(path) \in {"signin", "wizard", "dashboard", path}
         /\ Route(path) = "wizard" /\ path # "wizard" => token = None
  BY NoneFresh DEF Route, OnboardingPaths

LEMMA Opening ==
  ASSUME Types, NEW t \in Tab, NEW path \in {"dashboard", "wizard", "classic", "post-auth", "cloud"},
         Open(t, path)
  PROVE  /\ Moves(t) /\ keys' \in 0..MaxKeys
         /\ \/ Leaves(t) /\ tab'[t].page \notin {"handoff", "arriving"}
            \/ Mounts(t)
<1> DEFINE p == Route(path)
<1>1. p \in {"signin", "wizard", "dashboard", "classic", "post-auth", "cloud"}
  BY Routes
<1>2. CASE p = "wizard"
  <2>1. tab' = [tab EXCEPT ![t] = Wizard(keys + 1)] /\ keys' = keys + 1 /\ keys < MaxKeys
    BY <1>2 DEF Open
  <2>2. keys + 1 \in Key
    BY <2>1, OnboardingAssumption DEF Types, Key
  <2>3. Wizard(keys + 1) \in TabState
    <3> DEFINE k == keys + 1
               f == [name |-> "", aws |-> FALSE]
    <3>1. f \in Form /\ {k} \in SUBSET Key /\ k \in Key
      BY <2>2 DEF Form
    <3> HIDE DEF k, f
    <3>2. Wizard(k) = [page |-> "wizard", step |-> 0, form |-> f, payload |-> None, key |-> k,
                       mine |-> {k}, retrying |-> FALSE, req |-> None]
      BY DEF Wizard, f
    <3>3. Wizard(k) \in WizardTab
      BY <3>1, <3>2 DEF WizardTab, Waits
    <3> QED
      BY <3>3 DEF TabState, k
  <2>4. Moves(t) /\ tab'[t] = Wizard(keys + 1)
    BY <2>1, <2>3, MoveTo
  <2>5. keys' \in 0..MaxKeys
    BY <2>1, <2>2, OnboardingAssumption DEF Key
  <2> QED
    BY <2>1, <2>4, <2>5 DEF Mounts
<1>3. CASE p # "wizard"
  <2> DEFINE x == CASE p = "classic"               -> Classic
                    [] p \in {"dashboard", "cloud"} -> Console(p)
                    [] OTHER                        -> Plain(p)
  <2>1. tab' = [tab EXCEPT ![t] = x] /\ keys' = keys
    BY <1>3 DEF Open
  <2>2. CASE p = "classic"
    <3>1. x = Classic
      BY <2>2
    <3>2. Classic \in TabState /\ Classic.page = "classic" /\ Classic.req = None
      BY DEF Classic, ClassicTab, TabState, Waits
    <3> QED
      BY <2>1, <3>1, <3>2, MoveTo DEF Leaves, Types
  <2>3. CASE p \in {"dashboard", "cloud"}
    <3>1. x = Console(p)
      BY <2>3
    <3>2. Console(p) \in TabState /\ Console(p).page = p /\ Console(p).req = None
      BY <2>3 DEF Console, ConsoleTab, TabState, Waits
    <3> QED
      BY <2>1, <2>3, <3>1, <3>2, MoveTo DEF Leaves, Types
  <2>4. CASE p \in {"signin", "post-auth"}
    <3>1. x = Plain(p)
      BY <2>4
    <3>2. Plain(p) \in TabState /\ Plain(p).page = p /\ Plain(p).req = None
      BY <2>4 DEF Plain, PlainTab, TabState, Waits
    <3> QED
      BY <2>1, <2>4, <3>1, <3>2, MoveTo DEF Leaves, Types
  <2> QED
    BY <1>1, <1>3, <2>2, <2>3, <2>4
<1> QED
  BY <1>2, <1>3
----------------------------------------------------------------------------
(* Requests of a tab                                                       *)

\* A tab that waits for another request, or for none.
LEMMA Waiting ==
  ASSUME NEW s \in TabState, s.page \notin {"handoff", "arriving"}, NEW r \in Waits
  PROVE  /\ [s EXCEPT !.req = r] \in TabState
         /\ [s EXCEPT !.req = r].req = r /\ [s EXCEPT !.req = r].page = s.page
<1>1. CASE s \in WizardTab
  BY <1>1 DEF WizardTab, TabState
<1>2. CASE s \in ClassicTab
  BY <1>2 DEF ClassicTab, TabState
<1>3. CASE s \in ConsoleTab
  BY <1>3 DEF ConsoleTab, TabState
<1>4. CASE s \in PlainTab
  BY <1>4 DEF PlainTab, TabState
<1>5. s \notin HandoffTab /\ s \notin ArrivingTab
  BY DEF HandoffTab, ArrivingTab
<1> QED
  BY <1>1, <1>2, <1>3, <1>4, <1>5 DEF TabState

\* The same for a wizard, which keeps the rest.
LEMMA WizardWaiting ==
  ASSUME NEW s \in WizardTab, NEW r \in Waits
  PROVE  /\ [s EXCEPT !.req = r] \in WizardTab
         /\ [s EXCEPT !.req = r].req = r
         /\ [s EXCEPT !.req = r].form = s.form /\ [s EXCEPT !.req = r].payload = s.payload
         /\ [s EXCEPT !.req = r].key = s.key /\ [s EXCEPT !.req = r].mine = s.mine
         /\ [s EXCEPT !.req = r].retrying = s.retrying
  BY DEF WizardTab

LEMMA SrvTo ==
  ASSUME Types, NEW r \in Req, NEW x \in RequestState \cup {None}, srv' = [srv EXCEPT ![r] = x]
  PROVE  SrvMoves(r) /\ srv'[r] = x
  BY DEF Types, SrvMoves

LEMMA RequestTyped ==
  ASSUME Types, NEW what \in {"create", "claim", "post-auth"}, NEW w \in Workspace,
         NEW k \in 0..MaxKeys, NEW p \in Form \cup {None}
  PROVE  Request(what, w, k, p) \in RequestState /\ Request(what, w, k, p) # None
<1> DEFINE a == IF token = Out THEN "done" ELSE IF what = "create" THEN "create" ELSE "ensure"
           n == IF token = Out THEN 401 ELSE 200
           q == [kind |-> what, ws |-> w, key |-> k, payload |-> p, claimed |-> token,
                 code |-> "", at |-> a, status |-> n]
<1>1. a \in {"create", "ensure", "done"} /\ n \in {200, 401}
  OBVIOUS
<1>2. Request(what, w, k, p) = q
  BY DEF Request
<1>3. token \in Workspace \cup {Out}
  BY DEF Types
<1> HIDE DEF a, n
<1>4. q \in RequestState
  BY <1>1, <1>3 DEF RequestState
<1> QED
  BY <1>2, <1>4, NoneAssumption

\* A tab that asks: the request is new in the server, and the tab waits for it.
LEMMA Sending ==
  ASSUME Types, NEW t \in Tab, NEW s \in TabState, s.page \notin {"handoff", "arriving"},
         NEW what \in {"create", "claim", "post-auth"}, NEW w \in Workspace,
         NEW k \in 0..MaxKeys, NEW p \in Form \cup {None}, Send(t, s, what, w, k, p)
  PROVE  /\ Moves(t) /\ FreeReq \in Req /\ srv[FreeReq] = None
         /\ tab'[t] = [s EXCEPT !.req = FreeReq]
         /\ SrvMoves(FreeReq) /\ srv'[FreeReq] = Request(what, w, k, p)
<1>1. FreeReq \in Req /\ srv[FreeReq] = None
  BY DEF Send, FreeReq
<1>2. Request(what, w, k, p) \in RequestState
  BY RequestTyped
<1>3. [s EXCEPT !.req = FreeReq] \in TabState
  BY <1>1, Waiting DEF Waits
<1>4. Moves(t) /\ tab'[t] = [s EXCEPT !.req = FreeReq]
  BY <1>3, MoveTo DEF Send
<1>5. SrvMoves(FreeReq) /\ srv'[FreeReq] = Request(what, w, k, p)
  BY <1>1, <1>2, SrvTo DEF Send
<1> QED
  BY <1>1, <1>4, <1>5

\* A tab that gets its answer: it goes on, and the request is forgotten.
LEMMA Receiving ==
  ASSUME Types, NEW t \in Tab, NEW s, [s EXCEPT !.req = None] \in TabState, Awaits(t),
         Receive(t, s)
  PROVE  /\ Moves(t) /\ tab[t].req \in Req /\ tab'[t] = [s EXCEPT !.req = None]
         /\ SrvMoves(tab[t].req) /\ srv'[tab[t].req] = None
<1>1. tab[t].req \in Req
  BY Pages DEF Awaits, Waits
<1>2. Moves(t) /\ tab'[t] = [s EXCEPT !.req = None]
  BY MoveTo DEF Receive
<1>3. SrvMoves(tab[t].req) /\ srv'[tab[t].req] = None
  BY <1>1, SrvTo DEF Receive
<1> QED
  BY <1>1, <1>2, <1>3
----------------------------------------------------------------------------
(* The steps of the wizard                                                 *)

LEMMA EditTyped ==
  ASSUME NEW w \in WizardTab, NEW f \in Edits(w)
  PROVE  f \in Form
<1>1. w.form \in Form /\ w.step \in 0..2
  BY DEF WizardTab
<1>2. CASE w.step = 0
  <2>1. f \in {[w.form EXCEPT !.name = n] : n \in Name \cup {""}}
    <3> DEFINE e0 == {[w.form EXCEPT !.name = n] : n \in Name \cup {""}}
               e2 == {[w.form EXCEPT !.aws = ~@]}
    <3>1. Edits(w) = CASE w.step = 0 -> e0 [] w.step = 1 -> {w.form} [] w.step = 2 -> e2
      BY DEF Edits
    <3> HIDE DEF e0, e2
    <3>2. Edits(w) = e0
      BY <1>2, <3>1
    <3> QED
      BY <3>2 DEF e0
  <2>2. PICK n \in Name \cup {""} : f = [w.form EXCEPT !.name = n]
    BY <2>1
  <2> QED
    BY <1>1, <2>2 DEF Form
<1>3. CASE w.step = 1
  BY <1>1, <1>3 DEF Edits
<1>4. CASE w.step = 2
  BY <1>1, <1>4 DEF Edits, Form
<1> QED
  BY <1>1, <1>2, <1>3, <1>4

LEMMA EditMoves ==
  ASSUME Types, NEW t \in Tab, Edit(t)
  PROVE  TabMoves(t) /\ tab'[t].page = "wizard"
<1>1. tab[t] \in WizardTab /\ tab[t].page = "wizard" /\ ~Locked(tab[t])
  BY Pages DEF Edit
<1>2. PICK f \in Edits(tab[t]) \ {tab[t].form} : tab' = [tab EXCEPT ![t].form = f]
  BY DEF Edit
<1>3. f \in Form
  BY <1>1, EditTyped
<1> DEFINE x == [tab[t] EXCEPT !.form = f]
<1>4. x \in WizardTab
  BY <1>1, <1>3 DEF WizardTab
<1>5. /\ x.page = "wizard" /\ x.key = tab[t].key /\ x.mine = tab[t].mine /\ x.req = tab[t].req
      /\ x.payload = tab[t].payload /\ x.retrying = tab[t].retrying
  BY <1>1 DEF WizardTab
<1>6. tab' = [tab EXCEPT ![t] = x]
  BY <1>2
<1> HIDE DEF x
<1>7. Moves(t) /\ tab'[t] = x
  BY <1>4, <1>6, MoveTo DEF TabState
<1> QED
  BY <1>1, <1>5, <1>7 DEF Edit, quiet, TabMoves, Calm, Stays

\* A step to another step of the form.
LEMMA StepMoves ==
  ASSUME Types, NEW t \in Tab, tab[t].page = "wizard", NEW n \in 0..2,
         tab' = [tab EXCEPT ![t].step = n], srv' = srv, keys' = keys
  PROVE  Moves(t) /\ Calm(t) /\ tab'[t].page = "wizard"
<1>1. tab[t] \in WizardTab
  BY Pages
<1> DEFINE x == [tab[t] EXCEPT !.step = n]
<1>2. x \in WizardTab
  BY <1>1 DEF WizardTab
<1>3. /\ x.page = "wizard" /\ x.key = tab[t].key /\ x.mine = tab[t].mine /\ x.req = tab[t].req
      /\ x.payload = tab[t].payload /\ x.retrying = tab[t].retrying /\ x.form = tab[t].form
  BY <1>1 DEF WizardTab
<1>4. tab' = [tab EXCEPT ![t] = x]
  OBVIOUS
<1> HIDE DEF x
<1>5. Moves(t) /\ tab'[t] = x
  BY <1>2, <1>4, MoveTo DEF TabState
<1> QED
  BY <1>3, <1>5 DEF Calm, Stays

LEMMA SubmitMoves ==
  ASSUME Types, NEW t \in Tab, wizard(t), Submit(t), keys' = keys
  PROVE  Moves(t) /\ (Calm(t) \/ Submits(t)) /\ tab'[t].page = "wizard"
<1> DEFINE w == tab[t]
           p == IF Locked(w) THEN w.payload ELSE w.form
           s == [w EXCEPT !.payload = p, !.retrying = Locked(w)]
<1>1. w \in WizardTab /\ w.page = "wizard" /\ ~Awaits(t)
  BY Pages DEF wizard
<1>2. CASE ~Locked(w) /\ ~NameValid(w)
  <2>1. tab' = [tab EXCEPT ![t].step = 0] /\ srv' = srv
    BY <1>2 DEF Submit
  <2>2. 0 \in 0..2 /\ tab[t].page = "wizard"
    BY <1>1
  <2> QED
    BY <2>1, <2>2, StepMoves, Zenon
<1>3. CASE ~(~Locked(w) /\ ~NameValid(w))
  <2>1. Send(t, s, "create", None, w.key, p)
    BY <1>3 DEF Submit
  <2>2. p \in Form /\ w.key \in Key
    BY <1>1 DEF WizardTab, Locked
  <2>3. s \in WizardTab
    BY <1>1, <2>2 DEF WizardTab, Locked
  <2>4. /\ s.page = "wizard" /\ s.key = w.key /\ s.mine = w.mine /\ s.form = w.form
        /\ s.payload = p /\ s.retrying = Locked(w)
    BY <1>1 DEF WizardTab
  <2>5. w.key \in 0..MaxKeys /\ None \in Workspace
    BY <2>2 DEF Key, Workspace
  <2> HIDE DEF s, p
  <2>6. s \in TabState
    BY <2>3 DEF TabState
  <2>7. /\ Moves(t) /\ FreeReq \in Req /\ srv[FreeReq] = None
        /\ tab'[t] = [s EXCEPT !.req = FreeReq]
        /\ SrvMoves(FreeReq) /\ srv'[FreeReq] = Request("create", None, w.key, p)
    BY <2>1, <2>2, <2>4, <2>5, <2>6, Sending
  <2> DEFINE r == FreeReq
             y == [s EXCEPT !.req = r]
  <2>8. /\ y.req = r /\ y.form = s.form /\ y.payload = s.payload /\ y.key = s.key
        /\ y.mine = s.mine /\ y.retrying = s.retrying /\ y.page = s.page
    BY <2>3, <2>6, <2>4, <2>7, WizardWaiting, Waiting DEF Waits
  <2>9. tab'[t] = y
    BY <2>7
  <2> DEFINE q == Request("create", None, w.key, p)
  <2>10. /\ q \in RequestState /\ q # None /\ q.kind = "create" /\ q.key = w.key /\ q.payload = p
         /\ q.claimed = token /\ q.at \in {"create", "ensure", "done"} /\ q.at # "ensure"
         /\ (q.at # "done" => token # Out)
         /\ q.at = "done" => q.status = 401
    <3>1. p \in Form \cup {None} /\ "create" \in {"create", "claim", "post-auth"}
      BY <2>2
    <3>2. q \in RequestState /\ q # None
      BY <2>5, <3>1, RequestTyped
    <3>3. /\ q.kind = "create" /\ q.key = w.key /\ q.payload = p /\ q.claimed = token
          /\ q.at \in {"create", "ensure", "done"} /\ q.at # "ensure"
          /\ (q.at # "done" => token # Out)
          /\ q.at = "done" => q.status = 401
      BY DEF Request
    <3> QED
      BY <3>2, <3>3
  <2>11. srv'[r] = q
    BY <2>7
  <2> HIDE DEF y, q
  <2>12. Asked(t, r) /\ srv'[r].kind = "create" /\ srv'[r].at # "ensure"
         /\ srv'[r].key = w.key /\ srv'[r].payload = p
    BY <2>7, <2>8, <2>9, <2>10, <2>11 DEF Asked
  <2> QED
    <3>1. \E x \in Req : /\ Asked(t, x) /\ srv'[x].kind = "create" /\ srv'[x].at # "ensure"
                          /\ srv'[x].key = w.key /\ srv'[x].payload = p
      BY <2>7, <2>12
    <3>2. /\ tab'[t].page = "wizard" /\ tab'[t].retrying = Locked(w) /\ tab'[t].key = w.key
          /\ tab'[t].mine = w.mine /\ tab'[t].form = w.form /\ tab'[t].payload = p
      BY <2>4, <2>8, <2>9
    <3> QED
      BY <1>1, <2>7, <3>1, <3>2 DEF Submits, p
<1> QED
  BY <1>2, <1>3

LEMMA GoNextMoves ==
  ASSUME Types, NEW t \in Tab, GoNext(t) \/ Skip(t)
  PROVE  TabMoves(t) /\ tab'[t].page = "wizard"
<1>1. wizard(t) /\ tab[t].page = "wizard" /\ keys' = keys
  BY DEF GoNext, Skip, wizard
<1>2. UNCHANGED <<late, backend, stub, metadata>>
  BY DEF GoNext, Skip, quiet
<1>3. Submit(t) \/ (/\ GoNext(t) /\ ~(Locked(tab[t]) \/ tab[t].step = 2)
                    /\ tab' = [tab EXCEPT ![t].step = @ + 1] /\ srv' = srv)
  BY DEF GoNext, Skip
<1>4. CASE Submit(t)
  BY <1>1, <1>2, <1>4, SubmitMoves DEF TabMoves
<1>5. ASSUME ~(Locked(tab[t]) \/ tab[t].step = 2), tab' = [tab EXCEPT ![t].step = @ + 1], srv' = srv
      PROVE  TabMoves(t) /\ tab'[t].page = "wizard"
  <2>1. tab[t].step \in 0..2
    BY <1>1, Pages DEF WizardTab
  <2>2. PICK n \in 0..2 : n = tab[t].step + 1
    BY <1>5, <2>1
  <2>3. tab' = [tab EXCEPT ![t].step = n]
    BY <1>5, <2>2
  <2> QED
    BY <1>1, <1>2, <1>5, <2>3, StepMoves DEF TabMoves
<1> QED
  BY <1>3, <1>4, <1>5

LEMMA GoBackMoves ==
  ASSUME Types, NEW t \in Tab, GoBack(t)
  PROVE  TabMoves(t) /\ tab'[t].page = "wizard"
<1>1. tab[t].page = "wizard" /\ tab[t].step \in 0..2 /\ tab[t].step > 0
  BY Pages DEF GoBack, wizard, WizardTab
<1>2. PICK n \in 0..2 : n = tab[t].step - 1
  BY <1>1
<1>3. tab' = [tab EXCEPT ![t].step = n] /\ srv' = srv /\ keys' = keys
  BY <1>2 DEF GoBack
<1> QED
  BY <1>1, <1>3, StepMoves DEF TabMoves, GoBack, quiet

\* What a tab learns that has been answered.
LEMMA AnsweredRequest ==
  ASSUME Types, NEW t \in Tab, Answered(t)
  PROVE  /\ tab[t].req \in Req /\ srv[tab[t].req] \in RequestState \cup {None}
         /\ srv[tab[t].req] # None => srv[tab[t].req].ws \in Workspace
         /\ Awaits(t)
<1>1. Awaits(t) /\ tab[t].req \in Req
  BY Pages DEF Answered, Awaits, Waits
<1>2. srv[tab[t].req] \in RequestState \cup {None}
  BY <1>1 DEF Types
<1> QED
  BY <1>1, <1>2, RequestWorkspace

\* The handoff of a workspace.
LEMMA HandoffTyped ==
  ASSUME Types, NEW target \in Targets, NEW w \in Workspace
  PROVE  /\ [Handoff(target, w) EXCEPT !.req = None] \in HandoffTab
         /\ [Handoff(target, w) EXCEPT !.req = None].page = "handoff"
         /\ [Handoff(target, w) EXCEPT !.req = None].req = None
         /\ [Handoff(target, w) EXCEPT !.req = None].target = target
         /\ [Handoff(target, w) EXCEPT !.req = None].expected = w
<1>1. metadata \in Workspace
  BY DEF Types
<1> QED
  BY <1>1 DEF Handoff, HandoffTab

LEMMA WizardAnswerMoves ==
  ASSUME Types, NEW t \in Tab, WizardAnswer(t), srv[tab[t].req] # None
  PROVE  /\ TabMoves(t)
         /\ tab'[t].page = "handoff" =>
              /\ srv[tab[t].req].status = 200
              /\ tab'[t].expected = srv[tab[t].req].ws
         /\ tab'[t].page \in {"wizard", "handoff"}
<1> DEFINE w == tab[t]
           q == srv[w.req]
<1>1. w \in WizardTab /\ w.page = "wizard" /\ Answered(t) /\ Awaits(t)
  BY Pages, AnsweredRequest DEF WizardAnswer
<1>2. q.ws \in Workspace
  BY <1>1, AnsweredRequest
<1>3. UNCHANGED <<late, backend, stub, metadata>>
  BY DEF WizardAnswer, quiet
<1>4. CASE q.status = 200
  <2> DEFINE target == IF w.form.aws THEN "cloud" ELSE "dashboard"
             s == Handoff(target, q.ws)
             x == [s EXCEPT !.req = None]
  <2>1. Receive(t, s) /\ keys' = keys
    BY <1>4 DEF WizardAnswer
  <2>2. target \in Targets
    BY DEF Targets
  <2>3. x \in HandoffTab /\ x.page = "handoff" /\ x.req = None /\ x.expected = q.ws
    BY <1>2, <2>2, HandoffTyped
  <2> HIDE DEF s, target
  <2>4. x \in TabState
    BY <2>3 DEF TabState
  <2>5. Moves(t) /\ tab'[t] = x /\ SrvMoves(w.req) /\ srv'[w.req] = None
    BY <1>1, <2>1, <2>4, Receiving
  <2> HIDE DEF x
  <2> QED
    BY <1>1, <1>3, <1>4, <2>1, <2>3, <2>5 DEF TabMoves, Settles, Leaves
<1>5. CASE q.status # 200 /\ Definitive(q) /\ ~w.retrying
  <2> DEFINE k == keys + 1
             n == IF q.code = "slug_taken" THEN 0 ELSE w.step
             s == [w EXCEPT !.payload = None, !.key = k, !.mine = @ \cup {k}, !.step = n]
             x == [s EXCEPT !.req = None]
  <2>1. Receive(t, s) /\ keys' = k /\ keys < MaxKeys
    BY <1>5 DEF WizardAnswer
  <2>2. k \in Key /\ n \in 0..2 /\ w.mine \cup {k} \in SUBSET Key
    BY <1>1, <2>1, OnboardingAssumption DEF Types, Key, WizardTab
  <2> HIDE DEF k, n
  <2>3. s \in WizardTab
    BY <1>1, <2>2 DEF WizardTab
  <2>4. /\ s.page = "wizard" /\ s.payload = None /\ s.key = k /\ s.mine = w.mine \cup {k}
        /\ s.retrying = w.retrying
    BY <1>1 DEF WizardTab
  <2> HIDE DEF s
  <2>5. /\ x \in WizardTab /\ x.page = "wizard" /\ x.payload = None /\ x.key = k
        /\ x.mine = w.mine \cup {k} /\ x.retrying = w.retrying /\ x.req = None
    BY <2>3, <2>4, WizardWaiting DEF Waits, WizardTab
  <2>6. x \in TabState
    BY <2>5 DEF TabState
  <2>7. Moves(t) /\ tab'[t] = x /\ SrvMoves(w.req) /\ srv'[w.req] = None
    BY <1>1, <2>1, <2>6, Receiving
  <2> HIDE DEF x
  <2> QED
    BY <1>1, <1>3, <1>5, <2>1, <2>5, <2>7 DEF TabMoves, Settles, Unlocks, k
<1>6. CASE q.status # 200 /\ ~(Definitive(q) /\ ~w.retrying)
  <2> DEFINE x == [w EXCEPT !.req = None]
  <2>1. Receive(t, w) /\ keys' = keys
    BY <1>6 DEF WizardAnswer
  <2>2. /\ x \in WizardTab /\ x.req = None /\ x.payload = w.payload /\ x.key = w.key
        /\ x.mine = w.mine /\ x.retrying = w.retrying /\ x.form = w.form /\ x.page = "wizard"
    BY <1>1, WizardWaiting DEF Waits, WizardTab
  <2>3. x \in TabState
    BY <2>2 DEF TabState
  <2>4. Moves(t) /\ tab'[t] = x /\ SrvMoves(w.req) /\ srv'[w.req] = None
    BY <1>1, <2>1, <2>3, Receiving
  <2> HIDE DEF x
  <2> QED
    BY <1>1, <1>3, <2>1, <2>2, <2>4 DEF TabMoves, Settles, Stays
<1> QED
  BY <1>4, <1>5, <1>6
----------------------------------------------------------------------------
(* The steps of the other pages                                            *)

\* A tab that asks for something other than a creation.
LEMMA AskingMoves ==
  ASSUME Types, NEW t \in Tab, tab[t].page \notin {"wizard", "handoff", "arriving"},
         NEW what \in {"claim", "post-auth"}, NEW w \in Workspace,
         Send(t, tab[t], what, w, 0, None), keys' = keys,
         UNCHANGED <<late, backend, stub, metadata>>
  PROVE  TabMoves(t) /\ Asks(t)
<1> DEFINE s == tab[t]
           r == FreeReq
           q == Request(what, w, 0, None)
           y == [s EXCEPT !.req = r]
<1>1. s \in TabState
  BY Pages
<1>2. 0 \in 0..MaxKeys /\ None \in Form \cup {None} /\ what \in {"create", "claim", "post-auth"}
  BY OnboardingAssumption
<1>3. Moves(t) /\ r \in Req /\ srv[r] = None /\ tab'[t] = y /\ SrvMoves(r) /\ srv'[r] = q
  BY <1>1, <1>2, Sending
<1>4. y.req = r /\ y.page = s.page
  BY <1>1, <1>3, Waiting DEF Waits
<1>5. /\ q \in RequestState /\ q # None /\ q.kind = what /\ q.claimed = token
      /\ q.at \in {"create", "ensure", "done"} /\ (q.at # "done" => token # Out)
      /\ q.at = "create" => what = "create"
      /\ q.at = "done" => q.status = 401
  <2>1. q \in RequestState /\ q # None
    BY <1>2, RequestTyped
  <2>2. /\ q.kind = what /\ q.claimed = token
        /\ q.at \in {"create", "ensure", "done"} /\ (q.at # "done" => token # Out)
        /\ q.at = "create" => what = "create"
        /\ q.at = "done" => q.status = 401
    BY DEF Request
  <2> QED
    BY <2>1, <2>2
<1> HIDE DEF r, q, y
<1>6. Asked(t, r) /\ srv'[r].kind # "create"
  BY <1>3, <1>4, <1>5 DEF Asked
<1>7. Stays(t)
  BY <1>3, <1>4 DEF Stays
<1> QED
  BY <1>3, <1>6, <1>7 DEF TabMoves, Asks

\* A tab that stays, or leaves, with a record of its own.
LEMMA CalmMoves ==
  ASSUME Types, NEW t \in Tab, NEW x \in TabState, tab' = [tab EXCEPT ![t] = x],
         srv' = srv, keys' = keys, UNCHANGED <<late, backend, stub, metadata>>,
         x.page # "wizard",
         x.req = None \/ (x.req = tab[t].req /\ x.page = tab[t].page)
  PROVE  TabMoves(t) /\ tab'[t] = x
<1>1. Moves(t) /\ tab'[t] = x
  BY MoveTo
<1>2. Leaves(t) \/ Stays(t)
  BY <1>1 DEF Leaves, Stays
<1> QED
  BY <1>1, <1>2 DEF TabMoves, Calm

LEMMA ReceiveMoves ==
  ASSUME Types, NEW t \in Tab, NEW s, [s EXCEPT !.req = None] \in TabState,
         [s EXCEPT !.req = None].page # "wizard", [s EXCEPT !.req = None].req = None,
         Answered(t), Receive(t, s), keys' = keys, UNCHANGED <<late, backend, stub, metadata>>
  PROVE  TabMoves(t) /\ tab'[t] = [s EXCEPT !.req = None]
<1> DEFINE x == [s EXCEPT !.req = None]
<1>1. /\ Moves(t) /\ tab'[t] = x /\ Awaits(t)
      /\ SrvMoves(tab[t].req) /\ srv'[tab[t].req] = None
  BY AnsweredRequest, Receiving
<1> HIDE DEF x
<1>2. x.page # "wizard" /\ x.req = None
  BY DEF x
<1>3. Leaves(t)
  BY <1>1, <1>2 DEF Leaves
<1> QED
  BY <1>1, <1>2, <1>3 DEF TabMoves, Settles, x

LEMMA PlainTyped ==
  ASSUME NEW p \in {"signin", "post-auth", "post-auth-aws", "error", "failed"}
  PROVE  /\ Plain(p) \in TabState /\ Plain(p).page = p /\ Plain(p).req = None
         /\ [Plain(p) EXCEPT !.req = None] \in TabState
         /\ [Plain(p) EXCEPT !.req = None].page = p /\ [Plain(p) EXCEPT !.req = None].req = None
<1>1. Plain(p) \in PlainTab /\ [Plain(p) EXCEPT !.req = None] \in PlainTab
  BY DEF Plain, PlainTab, Waits
<1> QED
  BY <1>1 DEF Plain, TabState

LEMMA ClassicMoves ==
  ASSUME Types, NEW t \in Tab,
         \/ ClassicName(t) \/ ClassicProvider(t) \/ ClassicJump(t)
         \/ ClassicContinue(t) \/ ClassicAnswer(t) \/ ClassicOpen(t)
  PROVE  TabMoves(t) /\ tab'[t].page \notin {"handoff", "arriving"}
<1> DEFINE w == tab[t]
<1>1. w \in ClassicTab /\ w.page = "classic" /\ keys' = keys
  BY Pages DEF ClassicName, ClassicProvider, ClassicJump, ClassicContinue, ClassicAnswer,
               ClassicOpen, classic
<1>2. UNCHANGED <<late, backend, stub, metadata>>
  BY DEF ClassicName, ClassicProvider, ClassicJump, ClassicContinue, ClassicAnswer,
         ClassicOpen, quiet
<1>3. ASSUME NEW x \in ClassicTab, x.req = w.req, tab' = [tab EXCEPT ![t] = x], srv' = srv
      PROVE  TabMoves(t) /\ tab'[t].page \notin {"handoff", "arriving"}
  <2>1. x.page = "classic" /\ x \in TabState
    BY DEF ClassicTab, TabState
  <2> QED
    BY <1>1, <1>2, <1>3, <2>1, CalmMoves
<1>4. CASE ClassicName(t)
  <2> DEFINE x == [w EXCEPT !.named = ~@]
  <2>1. x \in ClassicTab /\ x.req = w.req
    BY <1>1 DEF ClassicTab
  <2>2. tab' = [tab EXCEPT ![t] = x] /\ srv' = srv
    BY <1>4 DEF ClassicName
  <2> HIDE DEF x
  <2> QED
    BY <1>3, <2>1, <2>2
<1>5. CASE ClassicProvider(t)
  <2>1. PICK p \in {"aws", "other"} : tab' = [tab EXCEPT ![t].provider = p]
    BY <1>5 DEF ClassicProvider
  <2> DEFINE x == [w EXCEPT !.provider = p]
  <2>2. x \in ClassicTab /\ x.req = w.req
    BY <1>1 DEF ClassicTab
  <2>3. tab' = [tab EXCEPT ![t] = x] /\ srv' = srv
    BY <1>5, <2>1 DEF ClassicProvider
  <2> HIDE DEF x
  <2> QED
    BY <1>3, <2>2, <2>3
<1>6. CASE ClassicJump(t)
  <2>1. PICK i \in 0..(w.step - 1) : tab' = [tab EXCEPT ![t].step = i]
    BY <1>6 DEF ClassicJump
  <2> DEFINE x == [w EXCEPT !.step = i]
  <2>2. w.step \in 0..5 /\ i \in 0..5
    BY <1>1 DEF ClassicTab
  <2>3. x \in ClassicTab /\ x.req = w.req
    BY <1>1, <2>2 DEF ClassicTab
  <2>4. tab' = [tab EXCEPT ![t] = x] /\ srv' = srv
    BY <1>6, <2>1 DEF ClassicJump
  <2> HIDE DEF x
  <2> QED
    BY <1>3, <2>3, <2>4
<1>7. CASE ClassicContinue(t)
  <2>1. CASE w.step = 1 /\ ~w.created
    <3>1. Send(t, w, "claim", Org, 0, None)
      BY <1>7, <2>1 DEF ClassicContinue
    <3>2. Org \in Workspace
      BY DEF Workspace
    <3>3. TabMoves(t) /\ Asks(t)
      BY <1>1, <1>2, <3>1, <3>2, AskingMoves
    <3> QED
      BY <1>1, <3>3 DEF Asks, Stays
  <2>2. CASE ~(w.step = 1 /\ ~w.created)
    <3>1. w.step \in 0..5 /\ w.step < 5 /\ tab' = [tab EXCEPT ![t].step = @ + 1] /\ srv' = srv
      BY <1>1, <1>7, <2>2 DEF ClassicContinue, ClassicTab
    <3>2. PICK i \in 0..5 : i = w.step + 1
      BY <3>1
    <3> DEFINE x == [w EXCEPT !.step = i]
    <3>3. x \in ClassicTab /\ x.req = w.req
      BY <1>1 DEF ClassicTab
    <3>4. tab' = [tab EXCEPT ![t] = x]
      BY <3>1, <3>2
    <3> HIDE DEF x
    <3> QED
      BY <1>3, <3>1, <3>3, <3>4
  <2> QED
    BY <2>1, <2>2
<1>8. CASE ClassicAnswer(t)
  <2> DEFINE ok == srv[w.req].status = 200
             n == IF w.step < 5 THEN w.step + 1 ELSE 5
             a == [w EXCEPT !.created = TRUE, !.step = n]
             s == IF ok THEN a ELSE w
             x == [s EXCEPT !.req = None]
  <2>1. n \in 0..5
    BY <1>1 DEF ClassicTab
  <2>2. Receive(t, s) /\ Answered(t)
    BY <1>8 DEF ClassicAnswer
  <2> HIDE DEF n, ok
  <2>3. a \in ClassicTab
    BY <1>1, <2>1 DEF ClassicTab
  <2>4. s \in ClassicTab
    BY <1>1, <2>3
  <2> HIDE DEF s, a
  <2>5. x \in ClassicTab /\ x.page = "classic" /\ x.req = None
    BY <2>4 DEF ClassicTab, Waits
  <2>6. x \in TabState
    BY <2>5 DEF TabState
  <2>7. TabMoves(t) /\ tab'[t] = x
    BY <1>1, <1>2, <2>2, <2>5, <2>6, ReceiveMoves
  <2> HIDE DEF x
  <2> QED
    BY <2>5, <2>7
<1>9. CASE ClassicOpen(t)
  <2> DEFINE p == IF w.provider = "aws" THEN "post-auth-aws" ELSE "post-auth"
  <2>1. tab' = [tab EXCEPT ![t] = Plain(p)] /\ srv' = srv
    BY <1>9 DEF ClassicOpen
  <2>2. p \in {"post-auth", "post-auth-aws"}
    OBVIOUS
  <2> HIDE DEF p
  <2>3. Plain(p) \in TabState /\ Plain(p).page = p /\ Plain(p).req = None
    BY <2>2, PlainTyped
  <2> QED
    BY <1>1, <1>2, <2>1, <2>2, <2>3, CalmMoves
<1> QED
  BY <1>4, <1>5, <1>6, <1>7, <1>8, <1>9
\* Each request is waited for by at most one tab, and is one the server has.
Served ==
  /\ \A t \in Tab : Awaits(t) => srv[tab[t].req] # None
  /\ \A t, u \in Tab : t # u /\ Awaits(t) => tab[t].req # tab[u].req

LEMMA PostAuthMoves ==
  ASSUME Types, NEW t \in Tab, PostAuth(t)
  PROVE  TabMoves(t) /\ tab'[t].page \notin {"handoff", "arriving"}
<1>1. tab[t].page \in {"post-auth", "post-auth-aws"} /\ Send(t, tab[t], "post-auth", None, 0, None)
      /\ keys' = keys /\ UNCHANGED <<late, backend, stub, metadata>>
  BY DEF PostAuth, postAuth, quiet
<1>2. TabMoves(t) /\ Asks(t)
  BY <1>1, AskingMoves DEF Workspace
<1> QED
  BY <1>1, <1>2 DEF Asks, Stays

LEMMA PostAuthAnswerMoves ==
  ASSUME Types, Served, NEW t \in Tab, PostAuthAnswer(t)
  PROVE  /\ TabMoves(t) /\ tab'[t].page # "arriving"
         /\ tab'[t].page = "handoff" /\ tab'[t].target # "wizard" => tab'[t].expected # None
<1> DEFINE q == srv[tab[t].req]
           target == IF q.ws = None THEN "wizard"
                     ELSE IF tab[t].page = "post-auth-aws" THEN "cloud" ELSE "dashboard"
           a == Plain("signin")
           b == Plain("error")
           c == Handoff(target, q.ws)
           s == CASE q.status = 401 -> a [] q.status = 500 -> b [] OTHER -> c
           x == [s EXCEPT !.req = None]
<1>1. Receive(t, s) /\ Answered(t) /\ keys' = keys /\ UNCHANGED <<late, backend, stub, metadata>>
  BY DEF PostAuthAnswer, quiet
<1>2. q.ws \in Workspace
  BY <1>1, AnsweredRequest DEF Served
<1>3. target \in Targets /\ (target # "wizard" => q.ws # None)
  BY DEF Targets
<1> HIDE DEF target, q
<1>4. /\ [a EXCEPT !.req = None] \in TabState /\ [a EXCEPT !.req = None].page = "signin"
      /\ [a EXCEPT !.req = None].req = None
  BY PlainTyped
<1>5. /\ [b EXCEPT !.req = None] \in TabState /\ [b EXCEPT !.req = None].page = "error"
      /\ [b EXCEPT !.req = None].req = None
  BY PlainTyped
<1>6. /\ [c EXCEPT !.req = None] \in TabState /\ [c EXCEPT !.req = None].page = "handoff"
      /\ [c EXCEPT !.req = None].req = None /\ [c EXCEPT !.req = None].target = target
      /\ [c EXCEPT !.req = None].expected = q.ws
  BY <1>2, <1>3, HandoffTyped DEF TabState
<1> HIDE DEF a, b, c
<1>7. s = a \/ s = b \/ s = c
  OBVIOUS
<1> HIDE DEF s
<1>8. /\ x \in TabState /\ x.page \in {"signin", "error", "handoff"} /\ x.req = None
      /\ x.page = "handoff" /\ x.target # "wizard" => x.expected # None
  BY <1>3, <1>4, <1>5, <1>6, <1>7
<1>9. TabMoves(t) /\ tab'[t] = x
  BY <1>1, <1>8, ReceiveMoves
<1> HIDE DEF x
<1> QED
  BY <1>8, <1>9

\* A probe navigates on the token it waits for, and otherwise waits or gives up.
LEMMA ProbeMoves ==
  ASSUME Types, NEW t \in Tab, Probe(t)
  PROVE  /\ TabMoves(t) /\ tab[t].page = "handoff" /\ token' \in {token, metadata}
         /\ tab'[t].page \in {"handoff", "arriving", "failed"}
         /\ tab'[t].page # "failed" =>
              tab'[t].target = tab[t].target /\ tab'[t].expected = tab[t].expected
         /\ tab'[t].page = "arriving" => token' = tab[t].expected
         /\ token # Out
<1> DEFINE h == tab[t]
<1>1. h \in HandoffTab /\ h.page = "handoff" /\ h.req = None
  BY Pages DEF Probe, HandoffTab
<1>2. srv' = srv /\ keys' = keys /\ UNCHANGED <<late, backend, stub, metadata>>
  BY DEF Probe
<1>3. PICK claim \in {token, metadata} : token' = claim /\ tab' = [tab EXCEPT ![t] = AfterProbe(h, claim)]
  BY DEF Probe
<1> DEFINE a == Arriving(h)
           b == Plain("failed")
           n == IF h.user = metadata THEN 2 ELSE 1
           c == [h EXCEPT !.probe = n, !.user = metadata]
           x == AfterProbe(h, claim)
<1>4. /\ a \in TabState /\ a.page = "arriving" /\ a.req = None
      /\ a.target = h.target /\ a.expected = h.expected
  BY <1>1 DEF Arriving, HandoffTab, ArrivingTab, TabState
<1>5. b \in TabState /\ b.page = "failed" /\ b.req = None
  BY PlainTyped
<1>6. /\ c \in TabState /\ c.page = "handoff" /\ c.req = None
      /\ c.target = h.target /\ c.expected = h.expected
  <2>1. n \in 1..2 /\ metadata \in Workspace
    BY DEF Types
  <2> HIDE DEF n
  <2>2. c \in HandoffTab /\ c.page = "handoff" /\ c.req = None
        /\ c.target = h.target /\ c.expected = h.expected
    BY <1>1, <2>1 DEF HandoffTab
  <2> QED
    BY <2>2 DEF TabState
<1>7. x = CASE claim = h.expected -> a [] claim # h.expected /\ h.probe = 2 -> b [] OTHER -> c
  BY DEF AfterProbe
<1> HIDE DEF a, b, c, x
<1>8. (x = a /\ claim = h.expected) \/ x = b \/ x = c
  BY <1>7
<1>9. /\ x \in TabState /\ x.req = None /\ x.page \in {"handoff", "arriving", "failed"}
      /\ x.page # "failed" => x.target = h.target /\ x.expected = h.expected
      /\ x.page = "arriving" => claim = h.expected
  BY <1>4, <1>5, <1>6, <1>8
<1>10. tab' = [tab EXCEPT ![t] = x]
  BY <1>3 DEF x
<1>11. TabMoves(t) /\ tab'[t] = x
  BY <1>2, <1>9, <1>10, CalmMoves
<1> QED
  BY <1>1, <1>3, <1>9, <1>11 DEF Probe

LEMMA LeavingMoves ==
  ASSUME Types, NEW t \in Tab, ProbeFails(t) \/ SignOut(t) \/ SignIn(t)
  PROVE  TabMoves(t) /\ tab'[t].page \notin {"handoff", "arriving"}
<1>1. PICK p \in {"failed", "signin", "post-auth"} : tab' = [tab EXCEPT ![t] = Plain(p)]
  BY DEF ProbeFails, SignOut, SignIn
<1>2. srv' = srv /\ keys' = keys /\ UNCHANGED <<late, backend, stub, metadata>>
  BY DEF ProbeFails, SignOut, SignIn
<1>3. Plain(p) \in TabState /\ Plain(p).page = p /\ Plain(p).req = None
  BY PlainTyped
<1> QED
  BY <1>1, <1>2, <1>3, CalmMoves

LEMMA OpeningMoves ==
  ASSUME Types, NEW t \in Tab,
         Arrive(t) \/ \E p \in {"dashboard", "wizard", "classic", "post-auth"} : Visit(t, p)
  PROVE  TabMoves(t) /\ tab'[t].page \notin {"handoff", "arriving"}
<1>1. PICK p \in {"dashboard", "wizard", "classic", "post-auth", "cloud"} : Open(t, p)
  <2>1. CASE Arrive(t)
    BY <2>1, Pages DEF Arrive, ArrivingTab, Targets
  <2> QED
    BY <2>1 DEF Visit
<1>2. srv' = srv /\ UNCHANGED <<late, backend, stub, metadata>>
  BY DEF Arrive, Visit
<1>3. Moves(t) /\ ((Leaves(t) /\ tab'[t].page \notin {"handoff", "arriving"}) \/ Mounts(t))
  BY <1>1, Opening
<1>4. Mounts(t) => tab'[t].page = "wizard" /\ tab'[t].req = None
  <2>1. Wizard(keys + 1).page = "wizard" /\ Wizard(keys + 1).req = None
    BY DEF Wizard
  <2> QED
    BY <2>1 DEF Mounts
<1> QED
  BY <1>2, <1>3, <1>4 DEF TabMoves, Calm, Leaves

LEMMA ConsoleMoves ==
  ASSUME Types, NEW t \in Tab, LoadWorkspaces(t) \/ SelectWorkspace(t) \/ SelectAnswer(t)
  PROVE  TabMoves(t) /\ tab'[t].page \notin {"handoff", "arriving"}
<1> DEFINE w == tab[t]
<1>1. w \in ConsoleTab /\ w.page \in {"dashboard", "cloud"} /\ keys' = keys
  BY Pages DEF LoadWorkspaces, SelectWorkspace, SelectAnswer, console
<1>2. UNCHANGED <<late, backend, stub, metadata>>
  BY DEF LoadWorkspaces, SelectWorkspace, SelectAnswer, quiet
<1>3. CASE LoadWorkspaces(t)
  <2> DEFINE members == {k \in Existing : Member(k)}
             n == IF token \in members THEN token ELSE None
             x == [w EXCEPT !.listed = members, !.seen = n]
  <2>1. members \in SUBSET Key
    BY DEF Types
  <2>2. n \in Key \cup {None}
    BY <2>1
  <2>3. tab' = [tab EXCEPT ![t] = x] /\ srv' = srv
    BY <1>3 DEF LoadWorkspaces
  <2> HIDE DEF members, n
  <2>4. x \in ConsoleTab /\ x.req = w.req /\ x.page = w.page
    BY <1>1, <2>1, <2>2 DEF ConsoleTab
  <2>5. x \in TabState
    BY <2>4 DEF TabState
  <2> HIDE DEF x
  <2> QED
    BY <1>1, <1>2, <2>3, <2>4, <2>5, CalmMoves
<1>4. CASE SelectWorkspace(t)
  <2>1. PICK k \in w.listed \ {w.seen} : Send(t, w, "claim", k, 0, None)
    BY <1>4 DEF SelectWorkspace
  <2>2. k \in Workspace
    BY <1>1, <2>1 DEF ConsoleTab, Workspace
  <2>3. TabMoves(t) /\ Asks(t)
    BY <1>1, <1>2, <2>1, <2>2, AskingMoves
  <2> QED
    BY <1>1, <2>3 DEF Asks, Stays
<1>5. CASE SelectAnswer(t)
  <2> DEFINE ok == srv[w.req].status = 200
             s == IF ok THEN Plain("post-auth") ELSE w
             x == [s EXCEPT !.req = None]
  <2>1. Receive(t, s) /\ Answered(t)
    BY <1>5 DEF SelectAnswer
  <2> HIDE DEF ok
  <2>2. /\ [Plain("post-auth") EXCEPT !.req = None] \in TabState
        /\ [Plain("post-auth") EXCEPT !.req = None].page = "post-auth"
        /\ [Plain("post-auth") EXCEPT !.req = None].req = None
    BY PlainTyped
  <2>3. [w EXCEPT !.req = None] \in TabState /\ [w EXCEPT !.req = None].page = w.page
        /\ [w EXCEPT !.req = None].req = None
    BY <1>1, Waiting, Pages DEF Waits
  <2>4. s = Plain("post-auth") \/ s = w
    OBVIOUS
  <2> HIDE DEF s
  <2>5. x \in TabState /\ x.page \in {"post-auth", "dashboard", "cloud"} /\ x.req = None
    BY <1>1, <2>2, <2>3, <2>4
  <2>6. TabMoves(t) /\ tab'[t] = x
    BY <1>1, <1>2, <2>1, <2>5, ReceiveMoves
  <2> HIDE DEF x
  <2> QED
    BY <2>5, <2>6
<1> QED
  BY <1>3, <1>4, <1>5

LEMMA LoseReplyMoves ==
  ASSUME Types, NEW t \in Tab, LoseReply(t)
  PROVE  TabMoves(t) /\ tab'[t].page \notin {"handoff", "arriving"}
<1> DEFINE w == tab[t]
           a == [w EXCEPT !.req = None]
           x == IF w.page = "post-auth" THEN Plain("error") ELSE a
<1>1. Awaits(t) /\ w.req \in Req /\ w.req # None /\ w \in TabState
  BY Pages DEF LoseReply, Awaits, Waits
<1>2. w.page \notin {"handoff", "arriving"}
  BY <1>1, Pages DEF HandoffTab, ArrivingTab
<1>3. tab' = [tab EXCEPT ![t] = x] /\ keys' = keys /\ UNCHANGED <<late, backend, stub, metadata>>
  BY DEF LoseReply
<1>4. a \in TabState /\ a.req = None /\ a.page = w.page
  BY <1>1, <1>2, Waiting DEF Waits
<1>5. w.page = "wizard" => /\ a.form = w.form /\ a.payload = w.payload /\ a.key = w.key
                           /\ a.mine = w.mine /\ a.retrying = w.retrying
  BY Pages, WizardWaiting DEF Waits
<1>6. Plain("error") \in TabState /\ Plain("error").page = "error" /\ Plain("error").req = None
  BY PlainTyped
<1> HIDE DEF a
<1>7. (x = a) \/ (w.page = "post-auth" /\ x = Plain("error"))
  OBVIOUS
<1> HIDE DEF x
<1>8. x \in TabState
  BY <1>4, <1>6, <1>7
<1>9. Moves(t) /\ tab'[t] = x
  BY <1>3, <1>8, MoveTo
<1>10. tab'[t].req = None /\ (Leaves(t) \/ Stays(t))
  BY <1>3, <1>4, <1>5, <1>6, <1>7, <1>9 DEF Leaves, Stays
<1>11. tab'[t].page \notin {"handoff", "arriving"}
  BY <1>2, <1>4, <1>6, <1>7, <1>9
<1>12. CASE srv' = srv
  BY <1>3, <1>9, <1>10, <1>12, <1>11 DEF TabMoves, Calm
<1>13. CASE srv' = [srv EXCEPT ![w.req] = None]
  <2>1. SrvMoves(w.req) /\ srv'[w.req] = None
    BY <1>1, <1>13, SrvTo
  <2> QED
    BY <1>1, <1>3, <1>9, <1>10, <1>11, <2>1 DEF TabMoves, Settles
<1> QED
  BY <1>12, <1>13 DEF LoseReply
\* A handoff begins with an answer, and ends in a navigation on the token it
\* waited for.
HandsOff(t) ==
  \/ tab'[t].page \notin {"handoff", "arriving"}
  \/ /\ tab'[t].page = "handoff" /\ Answered(t)
     /\ \/ tab'[t].target # "wizard" => tab'[t].expected # None
        \/ /\ tab[t].page = "wizard" /\ srv[tab[t].req].status = 200
           /\ tab'[t].expected = srv[tab[t].req].ws
  \/ /\ tab[t].page = "handoff" /\ token # Out
     /\ tab'[t].target = tab[t].target /\ tab'[t].expected = tab[t].expected
     /\ tab'[t].page = "arriving" => token' = tab[t].expected

LEMMA TabStepMoves ==
  ASSUME Types, Served, NEW t \in Tab, TabStep(t)
  PROVE  /\ TabMoves(t) /\ HandsOff(t) /\ token' \in {token, metadata, Out}
         /\ bounced' = bounced \/ Arrive(t)
         /\ erased' = erased
<1>1. CASE Edit(t) \/ GoNext(t) \/ Skip(t) \/ GoBack(t)
  <2>1. TabMoves(t) /\ tab'[t].page = "wizard"
    BY <1>1, EditMoves, GoNextMoves, GoBackMoves
  <2>2. token' = token /\ bounced' = bounced /\ erased' = erased
    BY <1>1 DEF Edit, GoNext, Skip, GoBack, quiet
  <2> QED
    BY <2>1, <2>2 DEF HandsOff
<1>2. CASE WizardAnswer(t)
  <2>1. /\ Answered(t) /\ Awaits(t) /\ tab[t].page = "wizard"
        /\ token' = token /\ bounced' = bounced /\ erased' = erased
    BY <1>2, AnsweredRequest DEF WizardAnswer, quiet
  <2>2. srv[tab[t].req] # None
    BY <2>1 DEF Served
  <2> QED
    BY <1>2, <2>1, <2>2, WizardAnswerMoves DEF HandsOff
<1>3. CASE \/ ClassicName(t) \/ ClassicProvider(t) \/ ClassicJump(t)
           \/ ClassicContinue(t) \/ ClassicAnswer(t) \/ ClassicOpen(t)
  <2>1. TabMoves(t) /\ HandsOff(t)
    BY <1>3, ClassicMoves DEF HandsOff
  <2>2. token' = token /\ bounced' = bounced /\ erased' = erased
    BY <1>3 DEF ClassicName, ClassicProvider, ClassicJump, ClassicContinue, ClassicAnswer,
                ClassicOpen, quiet
  <2> QED
    BY <2>1, <2>2
<1>4. CASE PostAuth(t)
  BY <1>4, PostAuthMoves DEF HandsOff, PostAuth, quiet
<1>5. CASE PostAuthAnswer(t)
  <2>1. Answered(t) /\ token' = token /\ bounced' = bounced /\ erased' = erased
    BY <1>5 DEF PostAuthAnswer, quiet
  <2> QED
    BY <1>5, <2>1, PostAuthAnswerMoves DEF HandsOff
<1>6. CASE Probe(t)
  <2>1. bounced' = bounced /\ erased' = erased
    BY <1>6 DEF Probe
  <2> QED
    BY <1>6, <2>1, ProbeMoves DEF HandsOff
<1>7. CASE ProbeFails(t) \/ SignOut(t) \/ SignIn(t)
  <2>1. TabMoves(t) /\ HandsOff(t)
    BY <1>7, LeavingMoves DEF HandsOff
  <2>2. token' \in {token, metadata, Out} /\ bounced' = bounced /\ erased' = erased
    BY <1>7 DEF ProbeFails, SignOut, SignIn
  <2> QED
    BY <2>1, <2>2
<1>8. CASE Arrive(t) \/ \E p \in {"dashboard", "wizard", "classic", "post-auth"} : Visit(t, p)
  <2>1. TabMoves(t) /\ HandsOff(t)
    BY <1>8, OpeningMoves DEF HandsOff
  <2>2. token' = token /\ erased' = erased /\ (bounced' = bounced \/ Arrive(t))
    BY <1>8 DEF Arrive, Visit
  <2> QED
    BY <2>1, <2>2
<1>9. CASE LoadWorkspaces(t) \/ SelectWorkspace(t) \/ SelectAnswer(t)
  <2>1. TabMoves(t) /\ HandsOff(t)
    BY <1>9, ConsoleMoves DEF HandsOff
  <2>2. token' = token /\ bounced' = bounced /\ erased' = erased
    BY <1>9 DEF LoadWorkspaces, SelectWorkspace, SelectAnswer, quiet
  <2> QED
    BY <2>1, <2>2
<1>10. CASE LoseReply(t)
  BY <1>10, LoseReplyMoves DEF HandsOff, LoseReply
<1> QED
  BY <1>1, <1>2, <1>3, <1>4, <1>5, <1>6, <1>7, <1>8, <1>9, <1>10 DEF TabStep
----------------------------------------------------------------------------
(* The steps of the server                                                 *)

\* The request r goes on, and stays what it was asked for.
Keeps(r) ==
  /\ SrvMoves(r) /\ srv[r] # None /\ srv'[r] # None /\ srv'[r] \in RequestState
  /\ srv'[r].kind = srv[r].kind /\ srv'[r].key = srv[r].key
  /\ srv'[r].payload = srv[r].payload /\ srv'[r].claimed = srv[r].claimed

\* The call that creates what r asked for.
CreateCall(r) == [op |-> "create", key |-> srv[r].key, payload |-> srv[r].payload, ws |-> None]
EnsureCall(r) == [op |-> "ensure", key |-> 0, payload |-> None, ws |-> srv[r].ws]

LEMMA Held ==
  ASSUME Types, NEW r \in Req, srv[r] # None
  PROVE  srv[r] \in RequestState
  BY DEF Types

\* The request r becomes x, asked for by the same call.
LEMMA KeepsTo ==
  ASSUME Types, NEW r \in Req, srv[r] # None, NEW x \in RequestState,
         x.kind = srv[r].kind, x.key = srv[r].key, x.payload = srv[r].payload,
         x.claimed = srv[r].claimed, srv' = [srv EXCEPT ![r] = x]
  PROVE  Keeps(r) /\ srv'[r] = x
<1>1. SrvMoves(r) /\ srv'[r] = x
  BY SrvTo
<1>2. x # None
  BY NoneAssumption
<1> QED
  BY <1>1, <1>2 DEF Keeps

LEMMA DoneMoves ==
  ASSUME Types, NEW r \in Req, srv[r] # None, NEW s \in Statuses,
         NEW c \in Codes, srv' = Done(r, s, c)
  PROVE  /\ Keeps(r) /\ srv'[r].at = "done" /\ srv'[r].status = s /\ srv'[r].code = c
         /\ srv'[r].ws = srv[r].ws
<1> DEFINE x == [srv[r] EXCEPT !.at = "done", !.status = s, !.code = c]
<1>0. x = [srv[r] EXCEPT !.at = "done", !.status = s, !.code = c] /\ srv' = [srv EXCEPT ![r] = x]
  BY DEF Done
<1> HIDE DEF x
<1>1. srv[r] \in RequestState
  BY Held
<1>2. /\ x \in RequestState /\ x.kind = srv[r].kind /\ x.key = srv[r].key
      /\ x.payload = srv[r].payload /\ x.claimed = srv[r].claimed
      /\ x.at = "done" /\ x.status = s /\ x.code = c /\ x.ws = srv[r].ws
  BY <1>0, <1>1, RequestStateIs DEF Stages
<1>3. Keeps(r) /\ srv'[r] = x
  BY <1>0, <1>2, KeepsTo
<1> QED
  BY <1>2, <1>3

LEMMA BrokenMoves ==
  ASSUME Types, NEW r \in Req, srv[r] # None, srv' = Broken(r)
  PROVE  /\ Keeps(r) /\ srv'[r].at = "done" /\ srv'[r].status \in {500, 502}
         /\ srv'[r].code = "workspace_create_failed" /\ srv'[r].ws = srv[r].ws
<1> DEFINE s == IF srv[r].kind = "create" THEN 502 ELSE 500
<1>1. srv' = Done(r, s, "workspace_create_failed") /\ s \in {500, 502}
  BY DEF Broken
<1> HIDE DEF s
<1>2. s \in Statuses /\ "workspace_create_failed" \in Codes
  BY <1>1 DEF Statuses, Codes
<1>3. /\ Keeps(r) /\ srv'[r].at = "done" /\ srv'[r].status = s
      /\ srv'[r].code = "workspace_create_failed" /\ srv'[r].ws = srv[r].ws
  BY <1>1, <1>2, DoneMoves
<1> QED
  BY <1>1, <1>3

LEMMA GoesOn ==
  ASSUME Types, NEW r \in Req, srv[r] # None, NEW w \in Workspace, NEW a \in Stages,
         srv' = [srv EXCEPT ![r].ws = w, ![r].at = a]
  PROVE  Keeps(r) /\ srv'[r].at = a /\ srv'[r].ws = w
<1> DEFINE x == [srv[r] EXCEPT !.ws = w, !.at = a]
<1>0. x = [srv[r] EXCEPT !.ws = w, !.at = a] /\ srv' = [srv EXCEPT ![r] = x]
  OBVIOUS
<1> HIDE DEF x
<1>1. srv[r] \in RequestState
  BY Held
<1>2. /\ x \in RequestState /\ x.kind = srv[r].kind /\ x.key = srv[r].key
      /\ x.payload = srv[r].payload /\ x.claimed = srv[r].claimed /\ x.at = a /\ x.ws = w
  BY <1>0, <1>1, RequestStateIs
<1>3. Keeps(r) /\ srv'[r] = x
  BY <1>0, <1>2, KeepsTo
<1> QED
  BY <1>2, <1>3

\* What a call to create a workspace does, now or late.
Creating(k, p) ==
  /\ spaces' \in [Existing' -> Form] /\ Existing' \subseteq Key
  /\ Existing \subseteq Existing' /\ Existing' \subseteq Existing \cup {k}
  /\ \A j \in Existing : spaces'[j] = spaces[j]
  /\ k \in Existing' \ Existing => spaces'[k] = p

LEMMA ApplyCreateDoes ==
  ASSUME Types, NEW k \in Key, NEW p \in Form, ApplyCreate(k, p)
  PROVE  /\ Creating(k, p)
         /\ CreateAnswer(k, p) \in {"ok", "duplicate_idempotency_key", "slug_taken"}
         /\ CreateAnswer(k, p) = "ok" => k \in Existing'
         /\ CreateAnswer(k, p) # "ok" => spaces' = spaces
         /\ CreateAnswer(k, p) = "slug_taken" => k \notin Existing
<1> DEFINE f == [j \in Existing \cup {k} |-> IF j = k THEN p ELSE spaces[j]]
<1>1. /\ CreateAnswer(k, p) \in {"ok", "duplicate_idempotency_key", "slug_taken"}
      /\ CreateAnswer(k, p) = "slug_taken" => k \notin Existing
      /\ CreateAnswer(k, p) = "ok" /\ k \in Existing => spaces[k] = p
  BY DEF CreateAnswer
<1>2. CASE CreateAnswer(k, p) = "ok"
  <2>1. spaces' = f
    BY <1>2 DEF ApplyCreate
  <2>2. Existing' = Existing \cup {k}
    BY <2>1 DEF Existing
  <2>3. \A j \in Existing \cup {k} : spaces'[j] = IF j = k THEN p ELSE spaces[j]
    BY <2>1
  <2>4. spaces' \in [Existing' -> Form]
    BY <2>1, <2>2 DEF Types
  <2> QED
    BY <1>1, <1>2, <2>2, <2>3, <2>4 DEF Creating, Types
<1>3. CASE CreateAnswer(k, p) # "ok"
  <2>1. spaces' = spaces
    BY <1>3 DEF ApplyCreate
  <2>2. Existing' = Existing
    BY <2>1 DEF Existing
  <2> QED
    BY <1>1, <1>3, <2>1, <2>2 DEF Creating, Types
<1> QED
  BY <1>2, <1>3

\* The answers of ensure.
LEMMA EnsureAnswers ==
  ASSUME Types, NEW w \in Workspace
  PROVE  /\ EnsureAnswer(w) \in Workspace \cup {Refused}
         /\ w # None /\ EnsureAnswer(w) # Refused => EnsureAnswer(w) = w
         /\ w = None => EnsureAnswer(w) \in {None, active} /\ EnsureAnswer(w) # Refused
         /\ w = None /\ EnsureAnswer(w) = None => active = None \/ (~stub /\ ~Member(active))
         /\ ~stub /\ EnsureAnswer(w) # Refused => EnsureAnswer(w) \in Existing \cup {None}
<1>1. Refused \notin Workspace
  BY NoneFresh DEF Workspace, Key
<1> QED
  BY <1>1 DEF Types, EnsureAnswer, StubEnsure, GatewayEnsure, Member, Workspace
\* A create call is applied, refused, or given up on and perhaps applied later.
SrvCreated(r) ==
  /\ srv'[r].at = "ensure" /\ srv'[r].ws = srv[r].key /\ late' = late
  /\ Creating(srv[r].key, srv[r].payload) /\ srv[r].key \in Existing'

SrvRefused(r) ==
  /\ srv'[r].at = "done" /\ srv'[r].status \in {401, 409} /\ spaces' = spaces /\ late' = late
  /\ srv'[r].code \in {"duplicate_idempotency_key", "slug_taken", "unauthorized"}
  /\ srv'[r].code # "duplicate_idempotency_key" => srv[r].key \notin Existing

SrvGaveUp(r) ==
  /\ srv'[r].at = "done" /\ srv'[r].status = 504 /\ srv'[r].code = "workspace_create_failed"
  /\ spaces' = spaces /\ late' = late \cup {CreateCall(r)}

LEMMA SrvCreateMoves ==
  ASSUME Types, NEW r \in Req, SrvCreate(r)
  PROVE  /\ Keeps(r) /\ srv[r].at = "create" /\ (SrvCreated(r) \/ SrvRefused(r) \/ SrvGaveUp(r))
         /\ UNCHANGED <<tab, gone, active, stub, metadata, token, keys, moves, bounced, erased>>
         /\ (faults' = faults \/ Fault)
<1> DEFINE q == srv[r]
           a == CreateAnswer(q.key, q.payload)
<1>1. srv[r] # None /\ q.at = "create" /\ q.key \in Key /\ q.payload \in Form
  BY DEF SrvCreate, Types, Creates
<1>2. UNCHANGED <<tab, gone, active, stub, metadata, token, keys, moves, bounced, erased>>
  BY DEF SrvCreate
<1>3. 401 \in Statuses /\ 409 \in Statuses /\ 504 \in Statuses
  BY DEF Statuses
<1>4. /\ "workspace_create_failed" \in Codes /\ "duplicate_idempotency_key" \in Codes
      /\ "slug_taken" \in Codes /\ "unauthorized" \in Codes
  BY DEF Codes
<1>5. CASE /\ ApplyCreate(q.key, q.payload)
           /\ srv' = IF a = "ok" THEN [srv EXCEPT ![r].ws = q.key, ![r].at = "ensure"]
                     ELSE Done(r, 409, a)
           /\ UNCHANGED <<late, faults>>
  <2>1. /\ Creating(q.key, q.payload) /\ a \in {"ok", "duplicate_idempotency_key", "slug_taken"}
        /\ a = "ok" => q.key \in Existing'
        /\ a # "ok" => spaces' = spaces
        /\ a = "slug_taken" => q.key \notin Existing
    BY <1>1, <1>5, ApplyCreateDoes
  <2> HIDE DEF a
  <2>2. CASE a = "ok"
    <3>1. q.key \in Workspace /\ "ensure" \in Stages
      BY <1>1 DEF Workspace, Stages
    <3>2. srv' = [srv EXCEPT ![r].ws = q.key, ![r].at = "ensure"]
      BY <1>5, <2>2
    <3>3. Keeps(r) /\ srv'[r].at = "ensure" /\ srv'[r].ws = q.key
      BY <1>1, <3>1, <3>2, GoesOn
    <3> QED
      BY <1>1, <1>2, <1>5, <2>1, <2>2, <3>3 DEF SrvCreated
  <2>3. CASE a # "ok"
    <3>1. srv' = Done(r, 409, a) /\ a \in Codes
      BY <1>4, <1>5, <2>1, <2>3
    <3>2. Keeps(r) /\ srv'[r].at = "done" /\ srv'[r].status = 409 /\ srv'[r].code = a
      BY <1>1, <1>3, <3>1, DoneMoves
    <3> QED
      BY <1>1, <1>2, <1>5, <2>1, <2>3, <3>2 DEF SrvRefused
  <2> QED
    BY <2>2, <2>3
<1>6. CASE /\ Fault /\ srv' = Done(r, 504, "workspace_create_failed")
           /\ late' = late \cup {CreateCall(r)} /\ spaces' = spaces
  <2>1. /\ Keeps(r) /\ srv'[r].at = "done" /\ srv'[r].status = 504
        /\ srv'[r].code = "workspace_create_failed"
    BY <1>1, <1>3, <1>4, <1>6, DoneMoves
  <2> QED
    BY <1>1, <1>2, <1>6, <2>1 DEF SrvGaveUp
<1>7. CASE /\ Fault /\ q.key \notin Existing /\ late' = late /\ spaces' = spaces
           /\ srv' = Done(r, 401, "unauthorized") \/ srv' = Done(r, 409, "slug_taken")
  <2>1. /\ Keeps(r) /\ srv'[r].at = "done" /\ srv'[r].status \in {401, 409}
        /\ srv'[r].code \in {"unauthorized", "slug_taken"}
    <3>1. CASE srv' = Done(r, 401, "unauthorized")
      BY <1>1, <1>3, <1>4, <3>1, DoneMoves
    <3>2. CASE srv' = Done(r, 409, "slug_taken")
      BY <1>1, <1>3, <1>4, <3>2, DoneMoves
    <3> QED
      BY <1>7, <3>1, <3>2
  <2> QED
    BY <1>1, <1>2, <1>7, <2>1 DEF SrvRefused
<1> QED
  BY <1>5, <1>6, <1>7 DEF SrvCreate, CreateCall

\* Ensure confirms a workspace, or the request fails.
LEMMA SrvEnsureMoves ==
  ASSUME Types, NEW r \in Req, SrvEnsure(r)
  PROVE  /\ Keeps(r) /\ srv[r].at = "ensure" /\ (faults' = faults \/ Fault)
         /\ UNCHANGED <<tab, spaces, gone, stub, metadata, token, keys, moves, bounced, erased>>
         /\ \/ /\ srv'[r].at = "reconcile" /\ late' = late
               /\ srv'[r].ws = EnsureAnswer(srv[r].ws) /\ srv'[r].ws \in Workspace
               /\ active' = srv'[r].ws
               /\ srv[r].kind = "create" => srv'[r].ws = srv[r].ws
            \/ /\ srv'[r].at = "done" /\ srv'[r].status \in {500, 502}
               /\ srv'[r].code = "workspace_create_failed"
               /\ late' = late \/ late' = late \cup {EnsureCall(r)}
               /\ \/ active' = active
                  \/ active' = EnsureAnswer(srv[r].ws) /\ EnsureAnswer(srv[r].ws) # Refused
<1> DEFINE q == srv[r]
           w == EnsureAnswer(q.ws)
<1>1. srv[r] # None /\ q.at = "ensure" /\ q.ws \in Workspace
  <2>1. srv[r] # None /\ q.at = "ensure"
    BY DEF SrvEnsure
  <2> QED
    BY <2>1, Held, RequestWorkspace
<1>2. UNCHANGED <<tab, spaces, gone, stub, metadata, token, keys, moves, bounced, erased>>
  BY DEF SrvEnsure
<1>3. w \in Workspace \cup {Refused}
  BY <1>1, EnsureAnswers
<1> DEFINE no == w = Refused \/ (q.kind = "create" /\ w # q.ws)
<1>4. CASE /\ ApplyEnsure(q.ws) /\ UNCHANGED <<late, faults>>
           /\ srv' = IF no THEN Broken(r) ELSE [srv EXCEPT ![r].ws = w, ![r].at = "reconcile"]
  <2>1. active' = IF w = Refused THEN active ELSE w
    BY <1>4 DEF ApplyEnsure
  <2>2. CASE no
    <3>1. srv' = Broken(r)
      BY <1>4, <2>2
    <3>2. /\ Keeps(r) /\ srv'[r].at = "done" /\ srv'[r].status \in {500, 502}
          /\ srv'[r].code = "workspace_create_failed"
      BY <1>1, <3>1, BrokenMoves
    <3> QED
      BY <1>1, <1>2, <1>4, <2>1, <3>2
  <2>3. CASE ~no
    <3>1. w \in Workspace /\ w # Refused /\ (q.kind = "create" => w = q.ws)
      BY <1>3, <2>3
    <3>2. srv' = [srv EXCEPT ![r].ws = w, ![r].at = "reconcile"] /\ "reconcile" \in Stages
      BY <1>4, <2>3 DEF Stages
    <3> HIDE DEF w
    <3>3. Keeps(r) /\ srv'[r].at = "reconcile" /\ srv'[r].ws = w
      BY <1>1, <3>1, <3>2, GoesOn
    <3> QED
      BY <1>1, <1>2, <1>4, <2>1, <3>1, <3>3 DEF w
  <2> QED
    BY <2>2, <2>3
<1>5. CASE /\ Fault /\ srv' = Broken(r) /\ late' = late \cup {EnsureCall(r)} /\ UNCHANGED active
  <2>1. /\ Keeps(r) /\ srv'[r].at = "done" /\ srv'[r].status \in {500, 502}
        /\ srv'[r].code = "workspace_create_failed"
    BY <1>1, <1>5, BrokenMoves
  <2> QED
    BY <1>1, <1>2, <1>5, <2>1
<1> QED
  BY <1>4, <1>5 DEF SrvEnsure, EnsureCall

\* The metadata follows what ensure confirmed.
LEMMA SrvReconcileMoves ==
  ASSUME Types, NEW r \in Req, SrvReconcile(r)
  PROVE  /\ Keeps(r) /\ srv[r].at = "reconcile" /\ (faults' = faults \/ Fault)
         /\ UNCHANGED <<tab, late, backend, stub, token, keys, moves, bounced>>
         /\ srv'[r].at = "done" /\ ~Definitive(srv'[r]) /\ srv'[r].ws = srv[r].ws
         /\ metadata' \in {metadata, srv[r].ws}
<1> DEFINE q == srv[r]
<1>1. srv[r] # None /\ q.at = "reconcile"
  BY DEF SrvReconcile
<1>2. UNCHANGED <<tab, late, backend, stub, token, keys, moves, bounced>>
  BY DEF SrvReconcile
<1>3. /\ metadata' \in {metadata, q.ws}
      /\ faults' = faults \/ Fault
      /\ srv' = Done(r, 200, "") \/ srv' = Broken(r)
  BY DEF SrvReconcile
<1>4. CASE srv' = Done(r, 200, "")
  <2>1. "" \in Codes
    BY DEF Codes
  <2>4. 200 \in Statuses
    BY DEF Statuses
  <2>2. Keeps(r) /\ srv'[r].at = "done" /\ srv'[r].status = 200 /\ srv'[r].code = ""
        /\ srv'[r].ws = q.ws
    <3>1. ASSUME NEW c \in Codes, srv' = Done(r, 200, c)
          PROVE  /\ Keeps(r) /\ srv'[r].at = "done" /\ srv'[r].status = 200
                 /\ srv'[r].code = c /\ srv'[r].ws = q.ws
      BY <1>1, <2>4, <3>1, DoneMoves
    <3> QED
      BY <1>4, <2>1, <3>1, Zenon
  <2>3. ~Definitive(srv'[r])
    <3>1. "" # "slug_taken"
      BY Zenon
    <3>2. srv'[r].code # "slug_taken"
      BY <2>2, <3>1, Zenon
    <3>3. srv'[r].status = 200
      BY <2>2, Zenon
    <3>4. srv'[r].status \notin {400, 401, 403, 422}
      BY <3>3
    <3> QED
      BY <3>2, <3>4, Zenon DEF Definitive
  <2> QED
    BY <1>1, <1>2, <1>3, <2>2, <2>3
<1>5. CASE srv' = Broken(r)
  <2>1. /\ Keeps(r) /\ srv'[r].at = "done" /\ srv'[r].status \in {500, 502}
        /\ srv'[r].code = "workspace_create_failed" /\ srv'[r].ws = q.ws
    BY <1>1, <1>5, BrokenMoves
  <2>2. ~Definitive(srv'[r])
    BY <2>1 DEF Definitive
  <2> QED
    BY <1>1, <1>2, <1>3, <2>1, <2>2
<1> QED
  BY <1>3, <1>4, <1>5

----------------------------------------------------------------------------
(* Tabs, requests and the session stay well formed                         *)

LEMMA TabBounds ==
  ASSUME Types, NEW t \in Tab, TabStep(t)
  PROVE  faults' \in 0..MaxFaults /\ moves' \in 0..MaxMoves /\ bounced' \in BOOLEAN
<1>1. faults' = faults \/ Fault
  BY DEF TabStep, Edit, GoNext, Skip, GoBack, WizardAnswer, ClassicName, ClassicProvider,
         ClassicJump, ClassicContinue, ClassicAnswer, ClassicOpen, PostAuth, PostAuthAnswer,
         Probe, ProbeFails, Arrive, LoadWorkspaces, SelectWorkspace, SelectAnswer, SignOut,
         SignIn, LoseReply, Visit, quiet
<1>2. moves' = moves \/ Move
  BY DEF TabStep, Edit, GoNext, Skip, GoBack, WizardAnswer, ClassicName, ClassicProvider,
         ClassicJump, ClassicContinue, ClassicAnswer, ClassicOpen, PostAuth, PostAuthAnswer,
         Probe, ProbeFails, Arrive, LoadWorkspaces, SelectWorkspace, SelectAnswer, SignOut,
         SignIn, LoseReply, Visit, quiet
<1>3. bounced' = bounced \/ bounced' \in BOOLEAN
  <2>1. CASE Arrive(t)
    <3>1. bounced' = (bounced \/ (tab[t].target # "wizard" /\ Route(tab[t].target) = "wizard"))
      BY <2>1 DEF Arrive
    <3> QED
      BY <3>1, Zenon
  <2>2. CASE ~Arrive(t)
    BY <2>2 DEF TabStep, Edit, GoNext, Skip, GoBack, WizardAnswer, ClassicName, ClassicProvider,
         ClassicJump, ClassicContinue, ClassicAnswer, ClassicOpen, PostAuth, PostAuthAnswer,
         Probe, ProbeFails, LoadWorkspaces, SelectWorkspace, SelectAnswer, SignOut,
         SignIn, LoseReply, Visit, quiet
  <2> QED
    BY <2>1, <2>2
<1> QED
  BY <1>1, <1>2, <1>3, OnboardingAssumption DEF Types, Fault, Move

LEMMA TabKeepsTypes ==
  ASSUME Types, Served, NEW t \in Tab, TabStep(t)
  PROVE  Types'
<1>1. TabMoves(t) /\ token' \in {token, metadata, Out}
  BY TabStepMoves
<1>2. tab' \in [Tab -> TabState] /\ UNCHANGED <<late, backend, stub, metadata>>
  BY <1>1 DEF TabMoves, Moves
<1>3. keys' \in 0..MaxKeys
  BY <1>1, OnboardingAssumption
  DEF TabMoves, Calm, Settles, Asks, Submits, Leaves, Stays, Mounts, Unlocks, Types
<1>4. srv' \in [Req -> RequestState \cup {None}]
  BY <1>1 DEF TabMoves, Calm, Settles, Asks, Submits, Asked, SrvMoves, Types
<1>5. ASSUME NEW r \in Req, srv'[r] # None, srv'[r].at = "create" PROVE Creates(srv'[r])
  <2>1. CASE srv'[r] = srv[r]
    BY <1>5, <2>1 DEF Types
  <2>2. CASE Submits(t)
    <3>1. PICK x \in Req : /\ Asked(t, x) /\ srv'[x].key = tab[t].key
                           /\ srv'[x].payload = tab'[t].payload
      BY <2>2 DEF Submits
    <3>2. CASE x = r
      <4>1. tab[t] \in WizardTab
        BY <2>2, Pages DEF Submits
      <4>2. tab'[t].payload \in Form /\ tab[t].key \in Key
        BY <2>2, <4>1 DEF Submits, WizardTab, Locked
      <4> QED
        BY <3>1, <3>2, <4>2 DEF Creates
    <3> QED
      BY <2>1, <3>1, <3>2 DEF Asked, SrvMoves
  <2>3. CASE Asks(t)
    <3>1. PICK x \in Req : Asked(t, x) /\ srv'[x].kind # "create"
      BY <2>3 DEF Asks
    <3> QED
      BY <1>5, <2>1, <3>1 DEF Asked, SrvMoves
  <2>4. CASE Settles(t)
    BY <1>5, <2>1, <2>4 DEF Settles, SrvMoves
  <2>5. CASE Calm(t)
    BY <2>1, <2>5 DEF Calm
  <2> QED
    BY <1>1, <2>2, <2>3, <2>4, <2>5 DEF TabMoves
<1>6. Existing' = Existing /\ gone' = gone /\ active' = active /\ spaces' = spaces
  BY <1>2 DEF backend, Existing
<1> QED
  BY <1>1, <1>2, <1>3, <1>4, <1>5, <1>6, TabBounds DEF Types

LEMMA TabKeepsServed ==
  ASSUME Types, Served, NEW t \in Tab, TabStep(t)
  PROVE  Served'
<1>1. TabMoves(t)
  BY TabStepMoves
<1>2. \A u \in Tab \ {t} : tab'[u] = tab[u]
  BY <1>1 DEF TabMoves, Moves
<1>3. tab'[t].req = None \/ (tab'[t].req = tab[t].req /\ srv' = srv)
      \/ (Asked(t, tab'[t].req))
  <2>1. CASE Calm(t)
    BY <2>1 DEF Calm
  <2>2. CASE Settles(t)
    BY <2>2 DEF Settles
  <2>3. CASE Asks(t)
    BY <2>3 DEF Asks, Asked
  <2>4. CASE Submits(t)
    BY <2>4 DEF Submits, Asked
  <2> QED
    BY <1>1, <2>1, <2>2, <2>3, <2>4 DEF TabMoves
<1>4. ASSUME NEW u \in Tab, tab'[u].req # None PROVE srv'[tab'[u].req] # None
  <2>1. CASE u = t
    BY <1>3, <1>4, <2>1 DEF Asked, Served, Awaits
  <2>2. CASE u # t
    <3>1. tab'[u] = tab[u] /\ tab[u].req \in Req /\ srv[tab[u].req] # None
      BY <1>2, <1>4, <2>2, Pages DEF Served, Awaits, Waits
    <3>2. srv'[tab[u].req] = srv[tab[u].req]
      <4>1. CASE Calm(t)
        BY <4>1 DEF Calm
      <4>2. CASE Settles(t)
        BY <1>4, <2>2, <3>1, <4>2 DEF Settles, SrvMoves, Served, Awaits
      <4>3. CASE Asks(t)
        BY <3>1, <4>3 DEF Asks, Asked, SrvMoves
      <4>4. CASE Submits(t)
        BY <3>1, <4>4 DEF Submits, Asked, SrvMoves
      <4> QED
        BY <1>1, <4>1, <4>2, <4>3, <4>4 DEF TabMoves
    <3> QED
      BY <3>1, <3>2
  <2> QED
    BY <2>1, <2>2
<1>5. ASSUME NEW u \in Tab, NEW v \in Tab, u # v, tab'[u].req # None
      PROVE  tab'[u].req # tab'[v].req
  <2>1. \A x \in Tab : x # t /\ tab'[x].req # None => tab'[x].req # tab'[t].req
    <3> TAKE x \in Tab
    <3> HAVE x # t /\ tab'[x].req # None
    <3>1. tab'[x] = tab[x] /\ srv[tab[x].req] # None /\ tab[x].req # tab[t].req
      BY <1>2 DEF Served, Awaits
    <3> QED
      BY <1>3, <3>1 DEF Asked
  <2> QED
    BY <1>2, <1>5, <2>1 DEF Served, Awaits
<1> QED
  BY <1>4, <1>5 DEF Served, Awaits
\* Forgetting a finished request.
LEMMA ForgetMoves ==
  ASSUME Types, NEW r \in Req, Forget(r)
  PROVE  /\ SrvMoves(r) /\ srv'[r] = None /\ \A t \in Tab : tab[t].req # r
         /\ UNCHANGED <<tab, late, backend, stub, metadata, token, keys, faults, moves, bounced, erased>>
<1>1. srv' = [srv EXCEPT ![r] = None]
  BY DEF Forget
<1>2. SrvMoves(r) /\ srv'[r] = None
  BY <1>1, SrvTo
<1> QED
  BY <1>2 DEF Forget

LEMMA CallsTyped ==
  ASSUME Types, NEW r \in Req, srv[r] # None
  PROVE  /\ EnsureCall(r) \in LateCall /\ EnsureCall(r).op = "ensure"
         /\ CreateCall(r) \in LateCall /\ CreateCall(r).op = "create"
         /\ CreateCall(r).key = srv[r].key /\ CreateCall(r).payload = srv[r].payload
<1>1. srv[r] \in RequestState
  BY Held
<1>2. /\ srv[r].key \in 0..MaxKeys /\ srv[r].payload \in Form \cup {None}
      /\ srv[r].ws \in Workspace
  BY <1>1, RequestStateIs
<1>3. None \in Workspace /\ 0 \in 0..MaxKeys
  BY OnboardingAssumption DEF Workspace
<1> QED
  BY <1>2, <1>3 DEF EnsureCall, CreateCall, LateCall

LEMMA ServerKeepsTypes ==
  ASSUME Types, NEW r \in Req, SrvCreate(r) \/ SrvEnsure(r) \/ SrvReconcile(r) \/ Forget(r)
  PROVE  Types'
<1>1. /\ tab' = tab /\ stub' = stub /\ token' = token /\ keys' = keys /\ moves' = moves
      /\ bounced' = bounced /\ gone' = gone /\ faults' \in 0..MaxFaults
  <2>1. faults' = faults \/ Fault
    BY SrvCreateMoves, SrvEnsureMoves, SrvReconcileMoves DEF Forget
  <2>2. faults' \in 0..MaxFaults
    BY <2>1, OnboardingAssumption DEF Types, Fault
  <2> QED
    BY <2>2 DEF SrvCreate, SrvEnsure, SrvReconcile, Forget, backend
<1>2. /\ SrvMoves(r)
      /\ srv'[r] # None => srv'[r].at # "create"
  <2>1. CASE SrvCreate(r)
    BY <2>1, SrvCreateMoves DEF Keeps, SrvCreated, SrvRefused, SrvGaveUp
  <2>2. CASE SrvEnsure(r)
    <3>1. Keeps(r) /\ srv'[r].at \in {"reconcile", "done"}
      BY <2>2, SrvEnsureMoves
    <3> QED
      BY <3>1 DEF Keeps
  <2>3. CASE SrvReconcile(r)
    <3>1. Keeps(r) /\ srv'[r].at = "done"
      BY <2>3, SrvReconcileMoves
    <3> QED
      BY <3>1 DEF Keeps
  <2>4. CASE Forget(r)
    BY <2>4, ForgetMoves
  <2> QED
    BY <2>1, <2>2, <2>3, <2>4
<1>3. /\ srv' \in [Req -> RequestState \cup {None}]
      /\ \A x \in Req : srv'[x] # None /\ srv'[x].at = "create" => Creates(srv'[x])
  <2>1. srv' \in [Req -> RequestState \cup {None}] /\ \A x \in Req \ {r} : srv'[x] = srv[x]
    BY <1>2 DEF SrvMoves
  <2>2. ASSUME NEW x \in Req, srv'[x] # None, srv'[x].at = "create" PROVE Creates(srv'[x])
    BY <1>2, <2>1, <2>2 DEF Types
  <2> QED
    BY <2>1, <2>2
<1>4. late' \subseteq LateCall /\ \A l \in late' : l.op = "create" => Creates(l)
  <2>1. \/ late' = late \/ late' = late \cup {EnsureCall(r)}
        \/ late' = late \cup {CreateCall(r)} /\ srv[r].at = "create"
    <3>1. CASE SrvCreate(r)
      BY <3>1, SrvCreateMoves DEF SrvCreated, SrvRefused, SrvGaveUp
    <3>2. CASE SrvEnsure(r)
      BY <3>2, SrvEnsureMoves
    <3>3. CASE SrvReconcile(r) \/ Forget(r)
      BY <3>3 DEF SrvReconcile, Forget
    <3> QED
      BY <3>1, <3>2, <3>3
  <2>2. srv[r] # None
    BY DEF SrvCreate, SrvEnsure, SrvReconcile, Forget
  <2>3. srv[r].at = "create" => srv[r].key \in Key /\ srv[r].payload \in Form
    BY <2>2 DEF Types, Creates
  <2> QED
    BY <2>1, <2>2, <2>3, CallsTyped DEF Types, Creates
<1>5. /\ spaces' \in [Existing' -> Form] /\ Existing' \subseteq Key /\ Existing \subseteq Existing'
  <2>1. CASE SrvCreate(r)
    <3>1. Creating(srv[r].key, srv[r].payload) \/ spaces' = spaces
      BY <2>1, SrvCreateMoves DEF SrvCreated, SrvRefused, SrvGaveUp
    <3> QED
      BY <3>1 DEF Creating, Types, Existing
  <2>2. CASE ~SrvCreate(r)
    <3>1. spaces' = spaces
      BY <2>2, SrvEnsureMoves DEF SrvReconcile, Forget, backend
    <3> QED
      BY <3>1 DEF Types, Existing
  <2> QED
    BY <2>1, <2>2
<1>6. active' \in Workspace /\ metadata' \in Workspace
  <2>1. CASE SrvCreate(r)
    BY <2>1, SrvCreateMoves DEF Types
  <2>2. CASE SrvEnsure(r)
    <3>1. srv[r].ws \in Workspace
      <4>1. srv[r] # None
        BY <2>2 DEF SrvEnsure
      <4> QED
        BY <4>1, Held, RequestWorkspace
    <3>2. EnsureAnswer(srv[r].ws) \in Workspace \cup {Refused}
      BY <3>1, EnsureAnswers
    <3>3. metadata' = metadata
      BY <2>2, SrvEnsureMoves
    <3>4. active' \in Workspace
      BY <2>2, <3>2, SrvEnsureMoves DEF Types
    <3> QED
      BY <3>3, <3>4 DEF Types
  <2>3. CASE SrvReconcile(r)
    <3>1. srv[r].ws \in Workspace
      <4>1. srv[r] # None
        BY <2>3 DEF SrvReconcile
      <4> QED
        BY <4>1, Held, RequestWorkspace
    <3>2. metadata' \in {metadata, srv[r].ws} /\ active' = active
      BY <2>3, SrvReconcileMoves DEF backend
    <3> QED
      BY <3>1, <3>2 DEF Types
  <2>4. CASE Forget(r)
    BY <2>4, ForgetMoves DEF Types, backend
  <2> QED
    BY <2>1, <2>2, <2>3, <2>4
<1> QED
  BY <1>1, <1>3, <1>4, <1>5, <1>6 DEF Types

LEMMA ServerKeepsServed ==
  ASSUME Types, Served, NEW r \in Req,
         SrvCreate(r) \/ SrvEnsure(r) \/ SrvReconcile(r) \/ Forget(r)
  PROVE  Served'
<1>1. tab' = tab
  BY DEF SrvCreate, SrvEnsure, SrvReconcile, Forget
<1>2. SrvMoves(r) /\ (srv'[r] # None \/ \A t \in Tab : tab[t].req # r)
  <2>1. Keeps(r) \/ Forget(r)
    BY SrvCreateMoves, SrvEnsureMoves, SrvReconcileMoves
  <2> QED
    BY <2>1, ForgetMoves DEF Keeps
<1>3. ASSUME NEW u \in Tab, tab[u].req # None PROVE srv'[tab[u].req] # None
  BY <1>2, <1>3, Pages DEF Served, Awaits, Waits, SrvMoves
<1> QED
  BY <1>1, <1>3 DEF Served, Awaits

\* A call that was given up on is applied after all.
LEMMA ApplyLateMoves ==
  ASSUME Types, NEW l \in late, ApplyLate(l)
  PROVE  /\ UNCHANGED <<tab, srv, gone, stub, metadata, token, keys, faults, moves, bounced, erased>>
         /\ late' = late \ {l}
         /\ \/ l.op = "create" /\ Creating(l.key, l.payload) /\ active' = active
            \/ /\ l.op = "ensure" /\ spaces' = spaces /\ l.ws \in Workspace
               /\ \/ active' = active
                  \/ active' = EnsureAnswer(l.ws) /\ EnsureAnswer(l.ws) # Refused
<1>1. UNCHANGED <<tab, srv, gone, stub, metadata, token, keys, faults, moves, bounced, erased>>
      /\ late' = late \ {l}
  BY DEF ApplyLate
<1>2. CASE l.op = "create" /\ ApplyCreate(l.key, l.payload) /\ active' = active
  <2>1. l.key \in Key /\ l.payload \in Form
    BY <1>2 DEF Types, Creates
  <2> QED
    BY <1>1, <1>2, <2>1, ApplyCreateDoes
<1>3. CASE l.op = "ensure" /\ ApplyEnsure(l.ws) /\ spaces' = spaces
  <2>1. l.ws \in Workspace
    BY DEF Types, LateCall
  <2> QED
    BY <1>1, <1>3, <2>1 DEF ApplyEnsure
<1> QED
  BY <1>2, <1>3 DEF ApplyLate

LEMMA OthersKeepTypes ==
  ASSUME Types, \/ \E l \in late : ApplyLate(l)
                \/ \E w \in Key : DeleteWorkspace(w)
                \/ RefreshToken
  PROVE  Types'
<1>1. CASE \E l \in late : ApplyLate(l)
  <2>1. PICK l \in late : ApplyLate(l)
    BY <1>1
  <2>2. UNCHANGED <<tab, srv, gone, stub, metadata, token, keys, faults, moves, bounced, erased>>
        /\ late' = late \ {l}
    BY <2>1, ApplyLateMoves
  <2>3. /\ spaces' \in [Existing' -> Form] /\ Existing' \subseteq Key /\ Existing \subseteq Existing'
    <3>1. Creating(l.key, l.payload) \/ spaces' = spaces
      BY <2>1, ApplyLateMoves
    <3> QED
      BY <3>1 DEF Creating, Types, Existing
  <2>4. active' \in Workspace
    <3>1. l.ws \in Workspace
      BY DEF Types, LateCall
    <3>2. EnsureAnswer(l.ws) \in Workspace \cup {Refused}
      BY <3>1, EnsureAnswers
    <3> QED
      BY <2>1, <3>2, ApplyLateMoves DEF Types
  <2> QED
    BY <2>2, <2>3, <2>4 DEF Types
<1>2. CASE \E w \in Key : DeleteWorkspace(w)
  <2>1. PICK w \in Key : DeleteWorkspace(w)
    BY <1>2
  <2>2. gone' \subseteq Existing' /\ moves' \in 0..MaxMoves
    BY <2>1, OnboardingAssumption DEF DeleteWorkspace, Member, Move, Existing, Types
  <2>3. UNCHANGED <<tab, srv, late, spaces, active, stub, metadata, token, keys, faults, bounced>>
    BY <2>1 DEF DeleteWorkspace
  <2> QED
    BY <2>2, <2>3 DEF Types, Existing
<1>3. CASE RefreshToken
  <2>1. UNCHANGED <<tab, srv, late, spaces, gone, active, stub, metadata, keys, faults, moves, bounced>>
        /\ token' = metadata
    BY <1>3 DEF RefreshToken, backend
  <2> QED
    BY <2>1 DEF Types, Existing
<1> QED
  BY <1>1, <1>2, <1>3

LEMMA Named == ASSUME NEW n \in Name PROVE [name |-> n, aws |-> FALSE] \in Form
  BY DEF Form

LEMMA InitTypes ==
  ASSUME Init
  PROVE  Types /\ Served
<1>1. keys \in 0..MaxKeys /\ 1..keys \subseteq Key
  BY OnboardingAssumption DEF Init, Key
<1>2. tab = [t \in Tab |-> Plain("signin")] /\ Plain("signin") \in TabState
      /\ Plain("signin").req = None
  BY PlainTyped DEF Init
<1>3. tab \in [Tab -> TabState] /\ \A t \in Tab : tab[t].req = None
  BY <1>2
<1>4. srv \in [Req -> RequestState \cup {None}] /\ \A r \in Req : srv[r] = None
  BY DEF Init
<1>5. spaces \in [Existing -> Form] /\ Existing \subseteq Key
  <2>1. (CHOOSE n \in Name : TRUE) \in Name
    BY OnboardingAssumption
  <2>2. [name |-> CHOOSE n \in Name : TRUE, aws |-> FALSE] \in Form
    BY <2>1, Named
  <2> DEFINE f == [name |-> CHOOSE n \in Name : TRUE, aws |-> FALSE]
  <2>3. spaces = [k \in 1..keys |-> f]
    BY DEF Init
  <2> HIDE DEF f
  <2>4. f \in Form
    BY <2>2 DEF f
  <2> QED
    BY <1>1, <2>3, <2>4 DEF Existing
<1>6. active \in Workspace /\ metadata \in Workspace /\ token \in Workspace \cup {Out}
  <2>0. active = (IF keys = 0 THEN None ELSE 1) /\ metadata = active /\ token = Out
    BY Zenon DEF Init
  <2>1. active \in {None, 1} /\ (active = 1 => keys # 0 \/ None = 1)
    BY <2>0
  <2>2. active \in Workspace
    BY <1>1, <2>1, OnboardingAssumption DEF Workspace, Key
  <2> QED
    BY <2>0, <2>2
<1>7. /\ late = {} /\ gone = {} /\ faults \in 0..MaxFaults /\ moves \in 0..MaxMoves
      /\ stub \in BOOLEAN /\ bounced \in BOOLEAN
  <2>1. late = {} /\ gone = {} /\ faults = 0 /\ moves = 0 /\ stub \in BOOLEAN /\ bounced = FALSE
    BY Zenon DEF Init
  <2>2. 0 \in 0..MaxFaults /\ 0 \in 0..MaxMoves
    BY OnboardingAssumption
  <2> QED
    BY <2>1, <2>2, Zenon
<1> QED
  BY <1>1, <1>3, <1>4, <1>5, <1>6, <1>7 DEF Types, Served, Awaits

\* Every step keeps the types.
LEMMA StepTypes ==
  ASSUME Types, Served, [Next]_vars
  PROVE  Types' /\ Served'
<1>1. CASE \E t \in Tab : TabStep(t)
  BY <1>1, TabKeepsTypes, TabKeepsServed
<1>2. CASE Server
  BY <1>2, ServerKeepsTypes, ServerKeepsServed DEF Server
<1>3. CASE RefreshToken \/ (\E l \in late : ApplyLate(l)) \/ (\E w \in Key : DeleteWorkspace(w))
  <2>1. tab' = tab /\ srv' = srv
    BY <1>3 DEF RefreshToken, ApplyLate, DeleteWorkspace
  <2>2. Served'
    BY <2>1 DEF Served, Awaits
  <2> QED
    BY <1>3, <2>2, OthersKeepTypes
<1>4. CASE UNCHANGED vars
  BY <1>4 DEF vars, Types, Served, Awaits, Existing
<1> QED
  BY <1>1, <1>2, <1>3, <1>4 DEF Next

----------------------------------------------------------------------------
(* What a wizard's keys stand for                                          *)

Wizarding(t) == tab[t].page = "wizard"

WizardOK(t) ==
  Wizarding(t) => /\ tab[t].key \in tab[t].mine /\ tab[t].mine \subseteq 1..keys
                  /\ Locked(tab[t]) => tab[t].payload = tab[t].form

\* The wizard waits for the creation it is locked on.
WaitsOK(t) ==
  Wizarding(t) /\ Awaits(t) =>
    /\ Locked(tab[t]) /\ srv[tab[t].req].key = tab[t].key
    /\ srv[tab[t].req].payload = tab[t].payload

\* What creates or created a workspace under a key of t is what t is locked on.
Matches(t, k, p) == k \in tab[t].mine => k = tab[t].key /\ p = tab[t].payload
Pending(r) == srv[r] # None /\ srv[r].at = "create"
Owned(t) ==
  Wizarding(t) =>
    /\ \A l \in late : l.op = "create" => Matches(t, l.key, l.payload)
    /\ \A r \in Req : Pending(r) => Matches(t, srv[r].key, srv[r].payload)
    /\ \A k \in Existing : Matches(t, k, spaces[k])

\* Nothing came of a first attempt that was refused, nor will anything.
Unapplied(k) == k \notin Existing /\ \A l \in late : l.op = "create" => l.key # k
Refusable(q) == q.at = "create" \/ (q.at = "done" /\ Definitive(q))
FirstTry(t) ==
  Wizarding(t) /\ Awaits(t) /\ ~tab[t].retrying =>
    /\ \A r \in Req \ {tab[t].req} : Pending(r) => srv[r].key # tab[t].key
    /\ Refusable(srv[tab[t].req]) => Unapplied(tab[t].key)

OwnTab(t) == WizardOK(t) /\ WaitsOK(t) /\ Owned(t) /\ FirstTry(t)

\* Every key in use has been drawn.
Drawn ==
  /\ Existing \subseteq 1..keys
  /\ \A l \in late : l.op = "create" => l.key \in 1..keys
  /\ \A r \in Req : Pending(r) => srv[r].key \in 1..keys

Own ==
  /\ Drawn /\ \A t \in Tab : OwnTab(t)
  /\ \A t, u \in Tab : t # u /\ Wizarding(t) /\ Wizarding(u) => tab[t].mine \cap tab[u].mine = {}

\* What a tab does to the requests that create.
LEMMA TabCreates ==
  ASSUME Types, Served, NEW t \in Tab, TabMoves(t), NEW r \in Req, Pending(r)'
  PROVE  \/ Pending(r) /\ srv'[r] = srv[r] /\ ~(Settles(t) /\ r = tab[t].req)
         \/ /\ Submits(t) /\ r = tab'[t].req /\ srv[r] = None
            /\ srv'[r].key = tab[t].key /\ srv'[r].payload = tab'[t].payload
<1>0. srv'[r] # None /\ srv'[r].at = "create"
  BY DEF Pending
<1>1. CASE Calm(t)
  BY <1>0, <1>1 DEF Calm, Pending, Settles
<1>2. CASE Settles(t)
  BY <1>0, <1>2 DEF Settles, SrvMoves, Pending
<1>3. CASE Asks(t)
  BY <1>0, <1>3 DEF Asks, Asked, SrvMoves, Pending, Settles, Awaits
<1>4. CASE Submits(t)
  BY <1>0, <1>4 DEF Submits, Asked, SrvMoves, Pending, Settles, Awaits
<1> QED
  BY <1>1, <1>2, <1>3, <1>4 DEF TabMoves

LEMMA TabFrame ==
  ASSUME Types, NEW t \in Tab, TabMoves(t)
  PROVE  /\ late' = late /\ spaces' = spaces /\ Existing' = Existing /\ gone' = gone
         /\ active' = active /\ stub' = stub /\ metadata' = metadata
         /\ keys \in Nat /\ keys' \in {keys, keys + 1} /\ \A u \in Tab \ {t} : tab'[u] = tab[u]
<1>1. keys' \in {keys, keys + 1} /\ keys \in Nat
  BY OnboardingAssumption
  DEF TabMoves, Calm, Settles, Asks, Submits, Leaves, Stays, Mounts, Unlocks, Types
<1> QED
  BY <1>1 DEF TabMoves, Moves, backend, Existing

\* A request that another tab waits for is left alone.
LEMMA OthersRequest ==
  ASSUME Types, Served, NEW t \in Tab, TabMoves(t), NEW u \in Tab, u # t, Awaits(u)
  PROVE  /\ tab[u].req \in Req /\ srv'[tab[u].req] = srv[tab[u].req] /\ srv[tab[u].req] # None
<1>1. tab[u].req \in Req /\ srv[tab[u].req] # None /\ tab[u].req # tab[t].req
  BY Pages DEF Served, Awaits, Waits
<1>2. CASE Calm(t)
  BY <1>1, <1>2 DEF Calm
<1>3. CASE Settles(t)
  BY <1>1, <1>3 DEF Settles, SrvMoves
<1>4. CASE Asks(t)
  BY <1>1, <1>4 DEF Asks, Asked, SrvMoves
<1>5. CASE Submits(t)
  BY <1>1, <1>5 DEF Submits, Asked, SrvMoves
<1> QED
  BY <1>1, <1>2, <1>3, <1>4, <1>5 DEF TabMoves

LEMMA OthersOwn ==
  ASSUME Types, Served, Own, NEW t \in Tab, TabMoves(t), NEW u \in Tab, u # t
  PROVE  OwnTab(u)'
<1> SUFFICES ASSUME Wizarding(u)'
             PROVE  OwnTab(u)'
  BY DEF OwnTab, WizardOK, WaitsOK, Owned, FirstTry
<1>1. tab'[u] = tab[u] /\ late' = late /\ spaces' = spaces /\ Existing' = Existing
  BY TabFrame
<1>2. Wizarding(u) /\ OwnTab(u)
  BY <1>1 DEF Wizarding, Own
<1>3. WizardOK(u)'
  BY <1>1, <1>2, TabFrame DEF OwnTab, WizardOK, Wizarding
<1>4. WaitsOK(u)'
  BY <1>1, <1>2, OthersRequest DEF OwnTab, WaitsOK, Wizarding, Awaits
<1>5. ASSUME NEW r \in Req, Pending(r)', ~(Pending(r) /\ srv'[r] = srv[r])
      PROVE  srv'[r].key \notin tab[u].mine
  <2>1. Submits(t) /\ srv'[r].key = tab[t].key
    BY <1>5, TabCreates
  <2>2. Wizarding(t) /\ tab[t].key \in tab[t].mine
    BY <2>1 DEF Submits, Wizarding, Own, OwnTab, WizardOK
  <2> QED
    BY <1>2, <2>1, <2>2 DEF Own
<1>6. Owned(u)'
  <2>1. ASSUME NEW r \in Req, Pending(r)' PROVE Matches(u, srv[r].key, srv[r].payload)'
    <3>1. CASE Pending(r) /\ srv'[r] = srv[r]
      BY <1>1, <1>2, <3>1 DEF OwnTab, Owned, Matches
    <3>2. CASE ~(Pending(r) /\ srv'[r] = srv[r])
      BY <1>1, <1>5, <2>1, <3>2 DEF Matches
    <3> QED
      BY <3>1, <3>2
  <2> QED
    BY <1>1, <1>2, <2>1 DEF OwnTab, Owned, Matches
<1>7. FirstTry(u)'
  <2> SUFFICES ASSUME Awaits(u), ~tab[u].retrying
               PROVE  /\ \A r \in Req \ {tab[u].req} : Pending(r)' => srv'[r].key # tab[u].key
                      /\ Refusable(srv'[tab[u].req]) => Unapplied(tab[u].key)'
    BY <1>1 DEF FirstTry, Awaits
  <2>1. /\ \A r \in Req \ {tab[u].req} : Pending(r) => srv[r].key # tab[u].key
        /\ Refusable(srv[tab[u].req]) => Unapplied(tab[u].key)
    BY <1>2 DEF OwnTab, FirstTry
  <2>2. ASSUME NEW r \in Req \ {tab[u].req}, Pending(r)' PROVE srv'[r].key # tab[u].key
    <3>1. CASE Pending(r) /\ srv'[r] = srv[r]
      BY <2>1, <3>1
    <3>2. CASE ~(Pending(r) /\ srv'[r] = srv[r])
      BY <1>2, <1>5, <2>2, <3>2 DEF OwnTab, WizardOK
    <3> QED
      BY <3>1, <3>2
  <2>3. Refusable(srv'[tab[u].req]) => Unapplied(tab[u].key)'
    BY <1>1, <2>1, OthersRequest DEF Unapplied
  <2> QED
    BY <2>2, <2>3
<1> QED
  BY <1>3, <1>4, <1>6, <1>7 DEF OwnTab
\* A tab that shows no wizard owns nothing.
LEMMA NoWizardOwns ==
  ASSUME NEW t \in Tab, ~Wizarding(t)'
  PROVE  OwnTab(t)'
  BY DEF OwnTab, WizardOK, WaitsOK, Owned, FirstTry

LEMMA MountOwns ==
  ASSUME Types, Served, Own, NEW t \in Tab, TabMoves(t), Mounts(t), ~Submits(t)
  PROVE  /\ OwnTab(t)' /\ tab'[t].mine = {keys + 1} /\ keys' = keys + 1
<1> DEFINE k == keys + 1
<1>1. keys \in Nat /\ late' = late /\ spaces' = spaces /\ Existing' = Existing
  BY TabFrame
<1>2. /\ Wizard(k).page = "wizard" /\ Wizard(k).key = k /\ Wizard(k).mine = {k}
      /\ Wizard(k).payload = None /\ Wizard(k).req = None
  BY DEF Wizard
<1>3. /\ tab'[t].page = "wizard" /\ tab'[t].key = k /\ tab'[t].mine = {k}
      /\ tab'[t].payload = None /\ tab'[t].req = None /\ keys' = k
  BY <1>2 DEF Mounts
<1>4. k \in 1..k /\ k \notin 1..keys
  BY <1>1
<1>5. WizardOK(t)' /\ WaitsOK(t)' /\ FirstTry(t)'
  BY <1>3, <1>4 DEF WizardOK, WaitsOK, FirstTry, Locked, Awaits
<1>6. ASSUME NEW r \in Req, Pending(r)' PROVE srv'[r].key # k
  <2>1. Pending(r) /\ srv'[r] = srv[r]
    BY <1>6, TabCreates
  <2> QED
    BY <1>4, <2>1 DEF Own, Drawn
<1>7. Owned(t)'
  BY <1>1, <1>3, <1>4, <1>6 DEF Owned, Matches, Own, Drawn
<1> QED
  BY <1>3, <1>5, <1>7 DEF OwnTab

LEMMA StayOwns ==
  ASSUME Types, Served, Own, NEW t \in Tab, TabMoves(t), Stays(t), ~Submits(t),
         tab'[t].req = None \/ (tab'[t].req = tab[t].req /\ srv' = srv)
  PROVE  OwnTab(t)' /\ (Wizarding(t)' => Wizarding(t) /\ tab'[t].mine = tab[t].mine)
<1> SUFFICES ASSUME Wizarding(t)'
             PROVE  OwnTab(t)' /\ Wizarding(t) /\ tab'[t].mine = tab[t].mine
  BY NoWizardOwns
<1>1. /\ Wizarding(t) /\ OwnTab(t) /\ keys' = keys
      /\ tab'[t].key = tab[t].key /\ tab'[t].mine = tab[t].mine
      /\ tab'[t].payload = tab[t].payload /\ tab'[t].retrying = tab[t].retrying
      /\ Locked(tab[t]) => tab'[t].form = tab[t].form
  BY DEF Own, Stays, Wizarding
<1>2. late' = late /\ spaces' = spaces /\ Existing' = Existing
  BY TabFrame
<1>3. WizardOK(t)'
  BY <1>1 DEF OwnTab, WizardOK, Wizarding, Locked
<1>4. \A r \in Req : Pending(r)' => Pending(r) /\ srv'[r] = srv[r]
  BY TabCreates
<1>5. Owned(t)'
  BY <1>1, <1>2, <1>4 DEF OwnTab, Owned, Matches
<1>6. WaitsOK(t)' /\ FirstTry(t)'
  BY <1>1, <1>2 DEF OwnTab, WaitsOK, FirstTry, Awaits, Locked, Pending, Unapplied, Refusable
<1> QED
  BY <1>1, <1>3, <1>5, <1>6 DEF OwnTab

\* An unlocked wizard whose first attempt was refused left nothing behind.
LEMMA UnlockOwns ==
  ASSUME Types, Served, Own, NEW t \in Tab, TabMoves(t), Settles(t), Unlocks(t), ~Submits(t)
  PROVE  OwnTab(t)' /\ tab'[t].mine = tab[t].mine \cup {keys + 1} /\ keys' = keys + 1
<1> DEFINE k == keys + 1
           w == tab[t]
<1>1. keys \in Nat /\ late' = late /\ spaces' = spaces /\ Existing' = Existing
  BY TabFrame
<1>2. /\ Wizarding(t) /\ Wizarding(t)' /\ OwnTab(t) /\ keys' = k
      /\ tab'[t].key = k /\ tab'[t].mine = w.mine \cup {k} /\ tab'[t].payload = None
      /\ tab'[t].req = None
  BY DEF Unlocks, Settles, Own, Wizarding
<1>3. k \in 1..k /\ k \notin 1..keys /\ 1..keys \subseteq 1..k
  BY <1>1
<1>4. WizardOK(t)' /\ WaitsOK(t)' /\ FirstTry(t)'
  BY <1>2, <1>3 DEF OwnTab, WizardOK, WaitsOK, FirstTry, Locked, Awaits
<1>5. /\ Unapplied(w.key)
      /\ \A r \in Req \ {w.req} : Pending(r) => srv[r].key # w.key
  <2>1. Awaits(t) /\ ~w.retrying /\ Refusable(srv[w.req])
    BY DEF Unlocks, Answered, Refusable, Settles
  <2> QED
    BY <1>2, <2>1 DEF OwnTab, FirstTry
<1>6. ASSUME NEW r \in Req, Pending(r)' PROVE srv'[r].key \notin w.mine \cup {k}
  <2>1. Pending(r) /\ srv'[r] = srv[r] /\ r # w.req
    BY <1>6, TabCreates
  <2>2. srv[r].key # k
    BY <1>3, <2>1 DEF Own, Drawn
  <2>3. srv[r].key \notin w.mine
    BY <1>2, <1>5, <2>1 DEF OwnTab, Owned, Matches
  <2> QED
    BY <2>1, <2>2, <2>3
<1>7. ASSUME NEW l \in late, l.op = "create" PROVE l.key \notin w.mine \cup {k}
  <2>1. l.key # k
    BY <1>3, <1>7 DEF Own, Drawn
  <2>2. l.key \notin w.mine
    BY <1>2, <1>5, <1>7 DEF OwnTab, Owned, Matches, Unapplied
  <2> QED
    BY <2>1, <2>2
<1>8. ASSUME NEW j \in Existing PROVE j \notin w.mine \cup {k}
  <2>1. j # k
    BY <1>3 DEF Own, Drawn
  <2>2. j \notin w.mine
    BY <1>2, <1>5 DEF OwnTab, Owned, Matches, Unapplied
  <2> QED
    BY <2>1, <2>2
<1>9. Owned(t)'
  BY <1>1, <1>2, <1>6, <1>7, <1>8 DEF Owned, Matches
<1> QED
  BY <1>2, <1>4, <1>9 DEF OwnTab

\* Submitting freezes the form the wizard shows, or sends the frozen one again.
LEMMA SubmitOwns ==
  ASSUME Types, Served, Own, NEW t \in Tab, TabMoves(t), Submits(t)
  PROVE  OwnTab(t)' /\ Wizarding(t) /\ tab'[t].mine = tab[t].mine
<1> DEFINE w == tab[t]
           p == tab'[t].payload
           r == tab'[t].req
<1>1. late' = late /\ spaces' = spaces /\ Existing' = Existing
  BY TabFrame
<1>2. /\ Wizarding(t) /\ Wizarding(t)' /\ OwnTab(t) /\ keys' = keys
      /\ tab'[t].key = w.key /\ tab'[t].mine = w.mine /\ tab'[t].form = w.form
      /\ p = (IF Locked(w) THEN w.payload ELSE w.form) /\ tab'[t].retrying = Locked(w)
  BY DEF Submits, Own, Wizarding
<1>3. r \in Req /\ srv'[r] # None /\ srv'[r].key = w.key /\ srv'[r].payload = p /\ r # None
  <2>1. PICK x \in Req : Asked(t, x) /\ srv'[x].key = w.key /\ srv'[x].payload = p
    BY DEF Submits
  <2> QED
    BY <2>1, NoneFresh DEF Asked, Req
<1>4. w.form \in Form /\ p \in Form /\ p # None
  <2>1. w \in WizardTab
    BY <1>2, Pages DEF Wizarding
  <2> QED
    BY <1>2, <2>1, NoneAssumption DEF WizardTab, Locked
<1>5. WizardOK(t)' /\ WaitsOK(t)'
  BY <1>2, <1>3, <1>4 DEF OwnTab, WizardOK, WaitsOK, Locked
<1>6. ASSUME NEW k, NEW f \in Form, Matches(t, k, f)
      PROVE  /\ k \in w.mine => k = w.key /\ f = p
             /\ ~Locked(w) => k \notin w.mine
  BY <1>2, <1>6, NoneAssumption DEF Matches, Locked
<1>7. /\ \A l \in late : l.op = "create" => Matches(t, l.key, l.payload) /\ l.payload \in Form
      /\ \A x \in Req : Pending(x) => Matches(t, srv[x].key, srv[x].payload) /\ srv[x].payload \in Form
      /\ \A k \in Existing : Matches(t, k, spaces[k]) /\ spaces[k] \in Form
  BY <1>2 DEF OwnTab, Owned, Types, Creates, Pending
<1>8. Owned(t)'
  <2>1. ASSUME NEW x \in Req, Pending(x)' PROVE Matches(t, srv[x].key, srv[x].payload)'
    <3>1. CASE Pending(x) /\ srv'[x] = srv[x]
      BY <1>2, <1>6, <1>7, <3>1 DEF Matches
    <3>2. CASE ~(Pending(x) /\ srv'[x] = srv[x])
      BY <1>2, <2>1, <3>2, TabCreates DEF Matches
    <3> QED
      BY <3>1, <3>2
  <2>2. ASSUME NEW l \in late, l.op = "create" PROVE Matches(t, l.key, l.payload)'
    BY <1>2, <1>6, <1>7, <2>2 DEF Matches
  <2>3. ASSUME NEW k \in Existing PROVE (k \in tab'[t].mine => k = tab'[t].key /\ spaces[k] = p)
    BY <1>2, <1>6, <1>7 DEF Matches
  <2> QED
    BY <1>1, <2>1, <2>2, <2>3 DEF Owned, Matches
<1>9. FirstTry(t)'
  <2>0. ~tab'[t].retrying => ~Locked(w)
    BY <1>2, Zenon
  <2> SUFFICES ASSUME ~Locked(w)
               PROVE  /\ \A x \in Req \ {r} : Pending(x)' => srv'[x].key # w.key
                      /\ Unapplied(w.key)'
    BY <1>2, <2>0 DEF FirstTry
  <2>1. w.key \in w.mine
    BY <1>2 DEF OwnTab, WizardOK
  <2>2. Unapplied(w.key)
    BY <1>6, <1>7, <2>1 DEF Unapplied
  <2>3. ASSUME NEW x \in Req \ {r}, Pending(x)' PROVE srv'[x].key # w.key
    BY <1>6, <1>7, <2>1, <2>3, TabCreates
  <2> QED
    BY <1>1, <1>2, <2>2, <2>3 DEF Unapplied
<1> QED
  BY <1>2, <1>5, <1>8, <1>9 DEF OwnTab

LEMMA MoverOwns ==
  ASSUME Types, Served, Own, NEW t \in Tab, TabMoves(t)
  PROVE  /\ OwnTab(t)'
         /\ Wizarding(t)' => \/ Wizarding(t) /\ tab'[t].mine = tab[t].mine
                             \/ tab'[t].mine = {keys + 1}
                             \/ Wizarding(t) /\ tab'[t].mine = tab[t].mine \cup {keys + 1}
<1>1. CASE Submits(t)
  BY <1>1, SubmitOwns
<1>2. CASE Mounts(t) /\ ~Submits(t)
  BY <1>2, MountOwns
<1>3. CASE Settles(t) /\ Unlocks(t) /\ ~Submits(t)
  BY <1>3, UnlockOwns DEF Unlocks, Wizarding
<1>4. CASE Leaves(t)
  BY <1>4, NoWizardOwns DEF Leaves, Wizarding
<1>5. CASE Stays(t) /\ (Calm(t) \/ Settles(t)) /\ ~Submits(t)
  <2>1. tab'[t].req = None \/ (tab'[t].req = tab[t].req /\ srv' = srv)
    BY <1>5 DEF Calm, Settles
  <2> QED
    BY <1>5, <2>1, StayOwns
<1>6. CASE Asks(t)
  BY <1>6, NoWizardOwns DEF Asks, Stays, Wizarding
<1> QED
  BY <1>1, <1>2, <1>3, <1>4, <1>5, <1>6 DEF TabMoves, Calm, Settles

LEMMA TabKeepsOwn ==
  ASSUME Types, Served, Own, NEW t \in Tab, TabMoves(t)
  PROVE  Own'
<1>1. /\ late' = late /\ Existing' = Existing /\ keys \in Nat /\ keys' \in {keys, keys + 1}
      /\ \A u \in Tab \ {t} : tab'[u] = tab[u]
  BY TabFrame
<1>2. 1..keys \subseteq 1..keys' /\ keys + 1 \notin 1..keys
  BY <1>1
<1>3. Drawn'
  <2>1. ASSUME NEW r \in Req, Pending(r)' PROVE srv'[r].key \in 1..keys'
    <3>1. CASE Pending(r) /\ srv'[r] = srv[r]
      BY <1>2, <3>1 DEF Own, Drawn
    <3>2. CASE Submits(t) /\ srv'[r].key = tab[t].key
      <4>1. tab[t].key \in 1..keys
        BY <3>2 DEF Own, OwnTab, WizardOK, Submits, Wizarding
      <4> QED
        BY <1>2, <3>2, <4>1
    <3> QED
      BY <2>1, <3>1, <3>2, TabCreates
  <2> QED
    BY <1>1, <1>2, <2>1 DEF Own, Drawn
<1>4. \A u \in Tab : OwnTab(u)'
  BY MoverOwns, OthersOwn
<1>5. ASSUME NEW u \in Tab, u # t, Wizarding(u)', Wizarding(t)'
      PROVE  tab'[t].mine \cap tab'[u].mine = {}
  <2>1. tab'[u] = tab[u] /\ Wizarding(u) /\ tab[u].mine \subseteq 1..keys
    BY <1>1, <1>5 DEF Wizarding, Own, OwnTab, WizardOK
  <2>2. Wizarding(t) => tab[t].mine \cap tab[u].mine = {}
    BY <1>5, <2>1 DEF Own
  <2> QED
    BY <1>2, <1>5, <2>1, <2>2, MoverOwns
<1>6. ASSUME NEW u \in Tab, NEW v \in Tab, u # v, Wizarding(u)', Wizarding(v)'
      PROVE  tab'[u].mine \cap tab'[v].mine = {}
  <2>1. CASE u = t \/ v = t
    BY <1>5, <1>6, <2>1
  <2>2. CASE u # t /\ v # t
    BY <1>1, <1>6, <2>2 DEF Own, Wizarding
  <2> QED
    BY <2>1, <2>2
<1> QED
  BY <1>3, <1>4, <1>6 DEF Own
\* Only creations are refused for good.
LEMMA OnlyCreatesRefuse ==
  ASSUME Types, NEW r \in Req, SrvEnsure(r) \/ SrvReconcile(r)
  PROVE  ~Refusable(srv'[r])
<1>1. CASE SrvEnsure(r)
  <2>1. \/ srv'[r].at = "reconcile"
        \/ /\ srv'[r].at = "done" /\ srv'[r].status \in {500, 502}
           /\ srv'[r].code = "workspace_create_failed"
    BY <1>1, SrvEnsureMoves
  <2> QED
    BY <2>1 DEF Refusable, Definitive
<1>2. CASE SrvReconcile(r)
  <2>1. srv'[r].at = "done" /\ ~Definitive(srv'[r])
    BY <1>2, SrvReconcileMoves
  <2> QED
    BY <2>1 DEF Refusable
<1> QED
  BY <1>1, <1>2

\* The server answers: what it applies was asked for by the wizard it belongs
\* to, and a definitive refusal of a first attempt leaves nothing behind.
LEMMA ServerKeepsOwn ==
  ASSUME Types, Served, Own, NEW r \in Req,
         SrvCreate(r) \/ SrvEnsure(r) \/ SrvReconcile(r) \/ Forget(r)
  PROVE  Own'
<1> DEFINE q == srv[r]
<1>1. tab' = tab /\ keys' = keys
  BY DEF SrvCreate, SrvEnsure, SrvReconcile, Forget
<1>2. /\ SrvMoves(r)
      /\ Keeps(r) \/ Forget(r)
      /\ SrvCreate(r) => Keeps(r) /\ Pending(r)
  <2>1. SrvCreate(r) => Keeps(r) /\ srv[r].at = "create"
    BY SrvCreateMoves
  <2>2. Keeps(r) \/ Forget(r)
    BY <2>1, SrvEnsureMoves, SrvReconcileMoves
  <2> QED
    BY <2>1, <2>2, ForgetMoves DEF Keeps, Pending
<1>3. \A x \in Req : Pending(x)' => Pending(x) /\ x # r /\ srv'[x] = srv[x]
  <2>1. ~Pending(r)'
    <3>1. CASE SrvCreate(r)
      BY <3>1, SrvCreateMoves DEF SrvCreated, SrvRefused, SrvGaveUp, Pending
    <3>2. CASE SrvEnsure(r)
      <4>1. srv'[r].at \in {"reconcile", "done"}
        BY <3>2, SrvEnsureMoves
      <4> QED
        BY <4>1 DEF Pending
    <3>3. CASE SrvReconcile(r)
      BY <3>3, SrvReconcileMoves DEF Pending
    <3>4. CASE Forget(r)
      BY <3>4, ForgetMoves DEF Pending
    <3> QED
      BY <3>1, <3>2, <3>3, <3>4
  <2> QED
    BY <1>2, <2>1 DEF SrvMoves, Pending
<1>4. \/ /\ SrvCreate(r) /\ SrvCreated(r)
      \/ /\ SrvCreate(r) /\ SrvGaveUp(r)
      \/ /\ spaces' = spaces /\ \A l \in late' : l.op = "create" => l \in late
         /\ SrvCreate(r) => SrvRefused(r)
  <2>1. CASE SrvCreate(r)
    BY <2>1, SrvCreateMoves DEF SrvRefused
  <2>2. CASE ~SrvCreate(r) /\ SrvEnsure(r)
    <3>1. spaces' = spaces /\ (late' = late \/ late' = late \cup {EnsureCall(r)})
      BY <2>2, SrvEnsureMoves
    <3>2. EnsureCall(r).op = "ensure"
      BY DEF EnsureCall
    <3> QED
      BY <2>2, <3>1, <3>2
  <2>3. CASE ~SrvCreate(r) /\ (SrvReconcile(r) \/ Forget(r))
    BY <2>3 DEF SrvReconcile, Forget, backend
  <2> QED
    BY <2>1, <2>2, <2>3
<1>5. CreateCall(r).op = "create" /\ CreateCall(r).key = q.key /\ CreateCall(r).payload = q.payload
  BY DEF CreateCall
<1>6. /\ \A k \in Existing' : \/ k \in Existing /\ spaces'[k] = spaces[k]
                              \/ Pending(r) /\ k = q.key /\ spaces'[k] = q.payload
      /\ \A l \in late' : l.op = "create" => l \in late \/ (Pending(r) /\ l = CreateCall(r))
  <2>1. CASE SrvCreate(r) /\ SrvCreated(r)
    BY <1>2, <2>1 DEF SrvCreated, Creating
  <2>2. CASE SrvCreate(r) /\ SrvGaveUp(r)
    BY <1>2, <2>2 DEF SrvGaveUp, Existing
  <2>3. CASE spaces' = spaces /\ \A l \in late' : l.op = "create" => l \in late
    BY <2>3 DEF Existing
  <2> QED
    BY <1>4, <2>1, <2>2, <2>3
<1>7. Drawn'
  BY <1>1, <1>3, <1>5, <1>6 DEF Own, Drawn
<1>8. ASSUME NEW t \in Tab, Wizarding(t) PROVE OwnTab(t)'
  <2>1. OwnTab(t) /\ tab'[t] = tab[t]
    BY <1>1 DEF Own
  <2>2. WizardOK(t)'
    BY <1>1, <2>1 DEF OwnTab, WizardOK, Wizarding
  <2>3. WaitsOK(t)'
    <3>1. Awaits(t) => tab[t].req \in Req /\ (tab[t].req = r => Keeps(r))
      BY <1>2, Pages, ForgetMoves DEF Awaits, Waits
    <3> QED
      BY <1>1, <1>2, <1>8, <2>1, <3>1 DEF OwnTab, WaitsOK, Wizarding, Awaits, Keeps, SrvMoves
  <2>4. Owned(t)'
    <3>1. \A l \in late' : l.op = "create" => Matches(t, l.key, l.payload)
      BY <1>5, <1>6, <1>8, <2>1 DEF OwnTab, Owned
    <3>2. \A x \in Req : Pending(x)' => Matches(t, srv'[x].key, srv'[x].payload)
      BY <1>3, <1>8, <2>1 DEF OwnTab, Owned
    <3>3. \A k \in Existing' : Matches(t, k, spaces'[k])
      BY <1>6, <1>8, <2>1 DEF OwnTab, Owned
    <3> QED
      BY <2>1, <3>1, <3>2, <3>3 DEF Owned, Matches
  <2>5. FirstTry(t)'
    <3> DEFINE x == tab[t].req
               k == tab[t].key
    <3>1. SUFFICES ASSUME Awaits(t), ~tab[t].retrying
                   PROVE  /\ \A y \in Req \ {x} : Pending(y)' => srv'[y].key # k
                          /\ Refusable(srv'[x]) => Unapplied(k)'
      BY <2>1 DEF FirstTry, Awaits
    <3>2. /\ \A y \in Req \ {x} : Pending(y) => srv[y].key # k
          /\ Refusable(srv[x]) => Unapplied(k)
      BY <1>8, <2>1, <3>1 DEF OwnTab, FirstTry
    <3>3. \A y \in Req \ {x} : Pending(y)' => srv'[y].key # k
      BY <1>3, <3>2
    <3>4. CASE x = r /\ Refusable(srv'[r])
      <4>1. CASE SrvCreate(r)
        <5>1. SrvRefused(r)
          BY <3>4, <4>1, SrvCreateMoves DEF SrvCreated, SrvGaveUp, Refusable, Definitive
        <5>2. Refusable(srv[r])
          BY <1>2, <4>1 DEF Refusable, Pending
        <5> QED
          BY <3>2, <3>3, <3>4, <5>1, <5>2, <2>1 DEF SrvRefused, Unapplied, Existing
      <4>2. CASE SrvEnsure(r) \/ SrvReconcile(r)
        BY <3>4, <4>2, OnlyCreatesRefuse
      <4>3. CASE Forget(r)
        BY <3>1, <3>4, <4>3, ForgetMoves DEF Awaits
      <4> QED
        BY <4>1, <4>2, <4>3
    <3>5. CASE x # r /\ Refusable(srv'[x])
      <4>1. srv'[x] = srv[x]
        BY <1>2, <3>1, <3>5, Pages DEF SrvMoves, Awaits, Waits
      <4>2. Unapplied(k)
        BY <3>2, <3>5, <4>1
      <4>3. Pending(r) => q.key # k
        BY <3>2, <3>5
      <4>4. k \notin Existing' /\ \A l \in late' : l.op = "create" => l.key # k
        BY <1>5, <1>6, <4>2, <4>3 DEF Unapplied
      <4> QED
        BY <2>1, <3>3, <4>4 DEF Unapplied
    <3> QED
      BY <3>3, <3>4, <3>5
  <2> QED
    BY <2>2, <2>3, <2>4, <2>5 DEF OwnTab
<1>9. \A t \in Tab : OwnTab(t)'
  BY <1>1, <1>8, NoWizardOwns DEF Wizarding
<1> QED
  BY <1>1, <1>7, <1>9 DEF Own, Wizarding

\* A late call creates what it was sent for.
LEMMA LateKeepsOwn ==
  ASSUME Types, Served, Own, NEW l \in late, ApplyLate(l)
  PROVE  Own'
<1>1. tab' = tab /\ srv' = srv /\ keys' = keys /\ late' = late \ {l}
  BY ApplyLateMoves
<1>2. \A k \in Existing' : \/ k \in Existing /\ spaces'[k] = spaces[k]
                           \/ l.op = "create" /\ k = l.key /\ spaces'[k] = l.payload
  <2>1. (Creating(l.key, l.payload) /\ l.op = "create") \/ spaces' = spaces
    BY ApplyLateMoves
  <2> QED
    BY <2>1 DEF Creating, Existing
<1>3. Drawn'
  BY <1>1, <1>2 DEF Own, Drawn, Pending
<1>4. ASSUME NEW t \in Tab, Wizarding(t) PROVE OwnTab(t)'
  <2>1. OwnTab(t)
    BY DEF Own
  <2>2. WizardOK(t)' /\ WaitsOK(t)'
    BY <1>1, <2>1 DEF OwnTab, WizardOK, WaitsOK, Wizarding, Awaits
  <2>3. Owned(t)'
    BY <1>1, <1>2, <1>4, <2>1 DEF OwnTab, Owned, Matches, Pending
  <2>4. FirstTry(t)'
    BY <1>1, <1>2, <1>4, <2>1 DEF OwnTab, FirstTry, Unapplied, Pending, Refusable, Awaits
  <2> QED
    BY <2>2, <2>3, <2>4 DEF OwnTab
<1>5. \A t \in Tab : OwnTab(t)'
  BY <1>1, <1>4, NoWizardOwns DEF Wizarding
<1> QED
  BY <1>1, <1>3, <1>5 DEF Own, Wizarding

LEMMA RestKeepsOwn ==
  ASSUME Types, Own, UNCHANGED <<tab, srv, late, spaces, keys>>
  PROVE  Own'
<1>1. Existing' = Existing
  BY DEF Existing
<1>2. ASSUME NEW t \in Tab PROVE OwnTab(t)'
  <2>1. OwnTab(t)
    BY DEF Own
  <2> QED
    BY <1>1, <2>1 DEF OwnTab, WizardOK, WaitsOK, Owned, FirstTry, Matches, Unapplied, Pending,
                      Refusable, Awaits, Wizarding
<1> QED
  BY <1>1, <1>2 DEF Own, Drawn, Pending, Wizarding

LEMMA InitOwn ==
  ASSUME Init
  PROVE  Own
<1>1. tab = [t \in Tab |-> Plain("signin")] /\ Plain("signin").page = "signin"
  BY PlainTyped DEF Init
<1>2. \A t \in Tab : ~Wizarding(t)
  BY <1>1 DEF Wizarding
<1>3. \A t \in Tab : OwnTab(t)
  BY <1>2 DEF OwnTab, WizardOK, WaitsOK, Owned, FirstTry
<1>4. srv = [r \in Req |-> None] /\ late = {}
  BY Zenon DEF Init
<1> DEFINE f == [name |-> CHOOSE n \in Name : TRUE, aws |-> FALSE]
<1>5. spaces = [k \in 1..keys |-> f]
  BY Zenon DEF Init
<1> HIDE DEF f
<1>6. Drawn
  BY <1>4, <1>5 DEF Drawn, Existing, Pending
<1> QED
  BY <1>2, <1>3, <1>6 DEF Own

LEMMA StepOwn ==
  ASSUME Types, Served, Own, [Next]_vars
  PROVE  Own'
<1>1. CASE \E t \in Tab : TabStep(t)
  BY <1>1, TabStepMoves, TabKeepsOwn
<1>2. CASE Server
  BY <1>2, ServerKeepsOwn DEF Server
<1>3. CASE \E l \in late : ApplyLate(l)
  BY <1>3, LateKeepsOwn
<1>4. CASE RefreshToken \/ (\E w \in Key : DeleteWorkspace(w)) \/ UNCHANGED vars
  BY <1>4, RestKeepsOwn DEF RefreshToken, DeleteWorkspace, vars, backend
<1> QED
  BY <1>1, <1>2, <1>3, <1>4 DEF Next

\* What the keys of a wizard stand for is what the wizard is locked on.
LEMMA OwnRecovers ==
  ASSUME Types, Own
  PROVE  TornSubmitRecoverable
<1> SUFFICES ASSUME NEW t \in Tab, tab[t].page = "wizard"
             PROVE  LET w == tab[t]
                        pending == {l.key : l \in {x \in late : x.op = "create"}}
                                   \cup {srv[r].key : r \in {x \in Req : Pending(x)}}
                    IN \A k \in w.mine \cap (Existing \cup pending) :
                         k = w.key /\ w.payload = w.form /\ (k \in Existing => spaces[k] = w.payload)
  BY DEF TornSubmitRecoverable, Pending
<1> DEFINE w == tab[t]
           pending == {l.key : l \in {x \in late : x.op = "create"}}
                      \cup {srv[r].key : r \in {x \in Req : Pending(x)}}
<1>1. OwnTab(t) /\ Wizarding(t)
  BY DEF Own, Wizarding
<1>2. ASSUME NEW k, NEW f \in Form, Matches(t, k, f), k \in w.mine
      PROVE  k = w.key /\ f = w.payload /\ w.payload = w.form
  BY <1>1, <1>2, NoneAssumption DEF Matches, OwnTab, WizardOK, Locked
<1>3. ASSUME NEW k \in w.mine, k \in Existing
      PROVE  k = w.key /\ w.payload = w.form /\ spaces[k] = w.payload
  BY <1>1, <1>2, <1>3 DEF OwnTab, Owned, Types
<1>4. ASSUME NEW k \in w.mine, k \in pending PROVE k = w.key /\ w.payload = w.form
  <2>1. CASE \E l \in late : l.op = "create" /\ k = l.key
    BY <1>1, <1>2, <1>4, <2>1 DEF OwnTab, Owned, Types, Creates
  <2>2. CASE \E r \in Req : Pending(r) /\ k = srv[r].key
    BY <1>1, <1>2, <1>4, <2>2 DEF OwnTab, Owned, Types, Creates, Pending
  <2> QED
    BY <1>4, <2>1, <2>2
<1> QED
  BY <1>3, <1>4

\* A torn submit can always be finished: what exists or may yet come to exist
\* under a key of a wizard is what the wizard is locked on.
THEOREM TornSubmitIsRecoverable == Spec => []TornSubmitRecoverable
<1>1. Init => Types /\ Served /\ Own
  BY InitTypes, InitOwn
<1>2. Types /\ Served /\ Own /\ [Next]_vars => (Types /\ Served /\ Own)'
  BY StepTypes, StepOwn
<1>3. Types /\ Served /\ Own => TornSubmitRecoverable
  BY OwnRecovers
<1> QED
  BY <1>1, <1>2, <1>3, PTL DEF Spec

----------------------------------------------------------------------------
(* The session                                                             *)

\* A wizard waits for a creation; a handoff to the console waits for a workspace.
SessionTab(t) ==
  /\ Wizarding(t) /\ Awaits(t) => srv[tab[t].req].kind = "create"
  /\ tab[t].page \in {"handoff", "arriving"} /\ tab[t].target # "wizard" => tab[t].expected # None

\* A creation is for the workspace of its key; work is done for signed-in users.
SessionReq(r) ==
  srv[r] # None =>
    /\ srv[r].kind = "create" =>
         /\ srv[r].key \in Key
         /\ \/ srv[r].at \in {"ensure", "reconcile"}
            \/ srv[r].at = "done" /\ srv[r].status = 200
            => srv[r].ws = srv[r].key
    /\ srv[r].at # "done" => srv[r].claimed # Out

\* The gateway confirms memberships only.
Confirmed ==
  ~stub => /\ {metadata, token, active} \subseteq Existing \cup {None, Out}
           /\ \A r \in Req : srv[r] # None /\ srv[r].at = "reconcile" =>
                               srv[r].ws \in Existing \cup {None}

\* A request that confirmed a workspace came after the backend remembered one.
SettledReq(r) ==
  srv[r] # None /\ srv[r].at = "reconcile" /\ srv[r].ws # None => active # None
SettledTab(t) ==
  tab[t].page = "arriving" /\ tab[t].target # "wizard" => metadata # None /\ token # None

\* No workspace is deleted, and none is written out of the metadata.
Spared == gone = {} /\ ~erased

\* Unless one is deleted or written over, a workspace once remembered stays
\* remembered, and the session that names it keeps naming one.
Settled ==
  /\ metadata # None => active # None
  /\ token \notin {None, Out} => metadata # None
  /\ \A r \in Req : SettledReq(r)
  /\ \A t \in Tab : SettledTab(t)

Session ==
  /\ \A t \in Tab : SessionTab(t)
  /\ \A r \in Req : SessionReq(r)
  /\ Confirmed /\ (Spared => Settled) /\ NoBounce

\* How a tab's step changes a request: not, by forgetting it, or by asking.
LEMMA TabRequests ==
  ASSUME Types, Served, NEW t \in Tab, TabMoves(t), NEW r \in Req, srv'[r] # None
  PROVE  \/ srv'[r] = srv[r]
         \/ /\ Asked(t, r) /\ srv'[r].at # "reconcile"
            /\ srv'[r].kind = "create" => srv'[r].key \in Key /\ srv'[r].at # "ensure"
<1>1. CASE Calm(t)
  BY <1>1 DEF Calm
<1>2. CASE Settles(t)
  BY <1>2 DEF Settles, SrvMoves
<1>3. CASE Asks(t)
  BY <1>3 DEF Asks, Asked, SrvMoves
<1>4. CASE Submits(t)
  <2>1. tab[t].key \in Key
    BY <1>4, Pages DEF Submits, WizardTab
  <2>2. PICK x \in Req : /\ Asked(t, x) /\ srv'[x].kind = "create" /\ srv'[x].at # "ensure"
                         /\ srv'[x].key = tab[t].key
    BY <1>4 DEF Submits
  <2> QED
    BY <2>1, <2>2 DEF Asked, SrvMoves
<1> QED
  BY <1>1, <1>2, <1>3, <1>4 DEF TabMoves

LEMMA TabKeepsSession ==
  ASSUME Types, Served, Session, NEW t \in Tab, TabStep(t)
  PROVE  Session'
<1>1. /\ TabMoves(t) /\ HandsOff(t) /\ token' \in {token, metadata, Out}
      /\ erased' = erased /\ (bounced' = bounced \/ Arrive(t))
  BY TabStepMoves
<1>2. /\ Existing' = Existing /\ gone' = gone /\ active' = active /\ stub' = stub
      /\ metadata' = metadata /\ \A u \in Tab \ {t} : tab'[u] = tab[u]
  BY <1>1, TabFrame
<1>3. ASSUME NEW r \in Req PROVE SessionReq(r)'
  <2>1. CASE srv'[r] = None
    BY <2>1 DEF SessionReq
  <2>2. CASE srv'[r] # None /\ srv'[r] = srv[r]
    BY <2>2 DEF Session, SessionReq
  <2>3. CASE srv'[r] # None /\ srv'[r] # srv[r]
    BY <1>1, <2>3, TabRequests DEF SessionReq, Asked
  <2> QED
    BY <2>1, <2>2, <2>3
<1>4. SessionTab(t)'
  <2>1. Wizarding(t)' /\ Awaits(t)' => srv'[tab'[t].req].kind = "create"
    <3>1. CASE Calm(t)
      <4>1. Wizard(keys + 1).req = None
        BY DEF Wizard
      <4>2. Mounts(t) => tab'[t].req = None
        BY <4>1 DEF Mounts
      <4> QED
        BY <3>1, <4>2 DEF Calm, Leaves, Stays, Wizarding, Awaits, Session, SessionTab
    <3>2. CASE Settles(t)
      BY <3>2 DEF Settles, Awaits
    <3>3. CASE Asks(t)
      BY <3>3 DEF Asks, Stays, Wizarding
    <3>4. CASE Submits(t)
      BY <3>4 DEF Submits, Asked
    <3> QED
      BY <1>1, <3>1, <3>2, <3>3, <3>4 DEF TabMoves
  <2>2. tab'[t].page \in {"handoff", "arriving"} /\ tab'[t].target # "wizard" =>
          tab'[t].expected # None
    <3>1. CASE /\ tab[t].page = "wizard" /\ Answered(t) /\ srv[tab[t].req].status = 200
               /\ tab'[t].expected = srv[tab[t].req].ws
      <4>1. tab[t].req \in Req /\ Awaits(t) /\ srv[tab[t].req] # None
        BY <3>1, AnsweredRequest DEF Served
      <4>2. srv[tab[t].req].ws \in Key
        BY <3>1, <4>1 DEF Session, SessionTab, SessionReq, Wizarding, Answered
      <4> QED
        BY <3>1, <4>2, NoneFresh DEF Key
    <3> QED
      BY <1>1, <3>1 DEF HandsOff, Session, SessionTab
  <2> QED
    BY <2>1, <2>2 DEF SessionTab
<1>5. ASSUME NEW u \in Tab, u # t PROVE SessionTab(u)'
  <2>1. tab'[u] = tab[u] /\ SessionTab(u)
    BY <1>2, <1>5 DEF Session
  <2>2. Awaits(u) => srv'[tab[u].req] = srv[tab[u].req]
    BY <1>1, <1>5, OthersRequest
  <2> QED
    BY <2>1, <2>2 DEF SessionTab, Wizarding, Awaits
<1>6. Confirmed'
  <2>1. ASSUME NEW r \in Req, srv'[r] # None, srv'[r].at = "reconcile" PROVE srv'[r] = srv[r]
    BY <1>1, <2>1, TabRequests
  <2> QED
    BY <1>1, <1>2, <2>1 DEF Session, Confirmed
<1>7. ASSUME Spared PROVE Settled'
  <2>1. Settled
    BY <1>7 DEF Session
  <2>2. ASSUME NEW r \in Req, srv'[r] # None PROVE SettledReq(r)'
    <3>1. CASE srv'[r] = srv[r]
      BY <1>2, <2>1, <2>2, <3>1 DEF Settled, SettledReq
    <3>2. CASE srv'[r] # srv[r]
      <4>1. srv'[r].claimed = token /\ srv'[r].at # "reconcile"
        BY <1>1, <2>2, <3>2, TabRequests DEF Asked
      <4> QED
        BY <1>2, <2>1, <4>1 DEF Settled, SettledReq
    <3> QED
      BY <3>1, <3>2
  <2>3. token' \notin {None, Out} => metadata' # None
    BY <1>1, <1>2, <2>1 DEF Settled
  <2>4. ASSUME NEW u \in Tab PROVE SettledTab(u)'
    <3>1. CASE u # t
      BY <1>1, <1>2, <2>1, <3>1, NoneFresh DEF Settled, SettledTab
    <3>2. CASE u = t
      <4> SUFFICES ASSUME tab'[t].page = "arriving", tab'[t].target # "wizard"
                   PROVE  metadata # None /\ token' # None
        BY <1>2, <3>2 DEF SettledTab
      <4>1. /\ tab[t].page = "handoff" /\ token # Out /\ tab'[t].expected = tab[t].expected
            /\ tab'[t].target = tab[t].target /\ token' = tab[t].expected
        BY <1>1 DEF HandsOff
      <4>2. tab[t].expected # None /\ tab[t].expected # Out
        <5>1. tab[t].expected \in Workspace
          BY <4>1, Pages DEF HandoffTab
        <5>2. Out \notin Workspace
          BY NoneFresh DEF Workspace, Key
        <5> QED
          BY <4>1, <5>1, <5>2 DEF Session, SessionTab
      <4> QED
        BY <1>1, <2>1, <4>1, <4>2 DEF Settled
    <3> QED
      BY <3>1, <3>2
  <2> QED
    BY <1>2, <2>1, <2>2, <2>3, <2>4 DEF Settled, SettledReq
<1>8. NoBounce'
  <2>1. CASE Arrive(t) /\ Spared
    <3>1. /\ tab[t].page = "arriving" /\ tab[t].target \in Targets
          /\ bounced' = (bounced \/ (tab[t].target # "wizard" /\ Route(tab[t].target) = "wizard"))
      BY <2>1, Pages DEF Arrive, ArrivingTab
    <3>2. tab[t].target # "wizard" => token # None
      BY <2>1, <3>1 DEF Session, Settled, SettledTab
    <3>3. tab[t].target # "wizard" => Route(tab[t].target) # "wizard"
      BY <3>1, <3>2, Routes DEF Targets
    <3>4. ~bounced
      BY <2>1, Zenon DEF Session, NoBounce, Spared
    <3> QED
      BY <3>1, <3>3, <3>4, Zenon DEF NoBounce
  <2>2. CASE ~(Arrive(t) /\ Spared)
    BY <1>1, <1>2, <2>2 DEF Session, NoBounce, Spared
  <2> QED
    BY <2>1, <2>2
<1> QED
  BY <1>1, <1>2, <1>3, <1>4, <1>5, <1>6, <1>7, <1>8 DEF Session, Spared

\* A confirmed answer names a workspace that exists; while nothing was deleted,
\* ensure forgets none.
LEMMA EnsureKeeps ==
  ASSUME Types, Confirmed, gone = {}, NEW w \in Workspace, EnsureAnswer(w) = None
  PROVE  w = None /\ active = None
<1>1. w = None /\ (active = None \/ (~stub /\ ~Member(active)))
  BY EnsureAnswers, NoneFresh
<1>2. active # Out
  BY NoneFresh DEF Types, Workspace, Key
<1> QED
  BY <1>1, <1>2 DEF Confirmed, Member

\* A request that goes on as one that confirms nothing keeps the session.
LEMMA KeepsSession ==
  ASSUME Types, Served, Session, NEW r \in Req, Keeps(r),
         tab' = tab, gone' = gone, stub' = stub, token' = token, bounced' = bounced,
         erased' = erased,
         metadata' = metadata, Existing \subseteq Existing',
         active' \in Workspace, active' = active \/ (~stub => active' \in Existing \cup {None}),
         gone = {} /\ active # None => active' # None,
         srv'[r].at = "done" \/ srv[r].at # "done",
         srv'[r].kind = "create" =>
           \/ srv'[r].at = "done" /\ srv'[r].status # 200
           \/ srv'[r].ws = srv[r].key,
         srv'[r].at = "reconcile" =>
           /\ ~stub => srv'[r].ws \in Existing \cup {None}
           /\ srv'[r].ws # None => active' # None
  PROVE  Session'
<1>1. /\ \A x \in Req \ {r} : srv'[x] = srv[x]
      /\ srv[r] # None /\ srv'[r] # None /\ srv'[r].kind = srv[r].kind /\ srv'[r].key = srv[r].key
      /\ srv'[r].claimed = srv[r].claimed
  BY DEF Keeps, SrvMoves
<1>2. ASSUME NEW x \in Req PROVE SessionReq(x)'
  <2>1. CASE x = r
    BY <1>1, <2>1 DEF Session, SessionReq
  <2>2. CASE x # r
    BY <1>1, <2>2 DEF Session, SessionReq
  <2> QED
    BY <2>1, <2>2
<1>3. ASSUME NEW t \in Tab PROVE SessionTab(t)'
  <2>1. Awaits(t) => tab[t].req \in Req
    BY Pages DEF Awaits, Waits
  <2> QED
    BY <1>1, <2>1 DEF Session, SessionTab, Wizarding, Awaits
<1>4. Confirmed'
  <2>1. ASSUME NEW x \in Req, ~stub, srv'[x] # None, srv'[x].at = "reconcile"
        PROVE  srv'[x].ws \in Existing \cup {None}
    BY <1>1, <2>1 DEF Session, Confirmed
  <2> QED
    BY <2>1 DEF Session, Confirmed
<1>5. ASSUME Spared PROVE Settled'
  <2>1. Settled /\ gone = {}
    BY <1>5 DEF Session, Spared
  <2>2. ASSUME NEW x \in Req PROVE SettledReq(x)'
    <3>1. CASE x = r
      BY <1>1, <1>5, <2>1, <3>1 DEF Settled, SettledReq
    <3>2. CASE x # r
      BY <1>1, <1>5, <2>1, <3>2 DEF Settled, SettledReq
    <3> QED
      BY <3>1, <3>2
  <2> QED
    BY <1>5, <2>1, <2>2 DEF Settled, SettledTab
<1> QED
  BY <1>2, <1>3, <1>4, <1>5 DEF Session, NoBounce, Spared

LEMMA CreateKeepsSession ==
  ASSUME Types, Served, Session, NEW r \in Req, SrvCreate(r)
  PROVE  Session'
<1>1. /\ Keeps(r) /\ srv[r].at = "create" /\ (SrvCreated(r) \/ SrvRefused(r) \/ SrvGaveUp(r))
      /\ UNCHANGED <<tab, gone, active, stub, metadata, token, keys, moves, bounced, erased>>
  BY SrvCreateMoves
<1>2. Existing \subseteq Existing' /\ active \in Workspace
  BY <1>1 DEF SrvCreated, SrvRefused, SrvGaveUp, Creating, Existing, Types
<1>3. \/ srv'[r].at = "done" /\ srv'[r].status # 200
      \/ srv'[r].at = "ensure" /\ srv'[r].ws = srv[r].key
  BY <1>1 DEF SrvCreated, SrvRefused, SrvGaveUp
<1> QED
  BY <1>1, <1>2, <1>3, KeepsSession

LEMMA EnsureKeepsSession ==
  ASSUME Types, Served, Session, NEW r \in Req, SrvEnsure(r)
  PROVE  Session'
<1> DEFINE w == EnsureAnswer(srv[r].ws)
<1>1. /\ Keeps(r) /\ srv[r].at = "ensure"
      /\ UNCHANGED <<tab, spaces, gone, stub, metadata, token, keys, moves, bounced, erased>>
  BY SrvEnsureMoves
<1>2. \/ /\ srv'[r].at = "reconcile" /\ srv'[r].ws = w /\ active' = w /\ w \in Workspace
         /\ srv[r].kind = "create" => w = srv[r].ws
      \/ /\ srv'[r].at = "done" /\ srv'[r].status # 200
         /\ active' = active \/ (active' = w /\ w # Refused)
  BY SrvEnsureMoves
<1>3. srv[r].ws \in Workspace /\ w \in Workspace \cup {Refused}
  <2>1. srv[r].ws \in Workspace
    BY <1>1, Held, RequestStateIs DEF Keeps
  <2> QED
    BY <2>1, EnsureAnswers
<1>4. Existing' = Existing /\ active' \in Workspace
  BY <1>1, <1>2, <1>3 DEF Existing, Types
<1>5. ~stub /\ w # Refused => w \in Existing \cup {None}
  BY <1>3, EnsureAnswers
<1>6. gone = {} /\ w = None => active = None
  BY <1>3, EnsureKeeps DEF Session
<1>7. w \in Workspace => w # Refused
  BY NoneFresh DEF Workspace, Key
<1> HIDE DEF w
<1>8. active' = active \/ (~stub => active' \in Existing \cup {None})
  BY <1>2, <1>5, <1>7
<1>9. gone = {} /\ active # None => active' # None
  BY <1>2, <1>6
<1>10. srv'[r].kind = "create" => \/ srv'[r].at = "done" /\ srv'[r].status # 200
                                  \/ srv'[r].ws = srv[r].key
  BY <1>1, <1>2 DEF Keeps, Session, SessionReq
<1>11. srv'[r].at = "reconcile" =>
         /\ ~stub => srv'[r].ws \in Existing \cup {None}
         /\ srv'[r].ws # None => active' # None
  BY <1>2, <1>5, <1>7
<1> QED
  BY <1>1, <1>4, <1>8, <1>9, <1>10, <1>11, KeepsSession

\* Metadata is only ever written with what ensure confirmed; it is cleared by
\* a request that ensure found no workspace for.
LEMMA ReconcileKeepsSession ==
  ASSUME Types, Served, Session, NEW r \in Req, SrvReconcile(r)
  PROVE  Session'
<1> DEFINE q == srv[r]
<1>1. /\ Keeps(r) /\ q.at = "reconcile" /\ srv'[r].at = "done" /\ srv'[r].ws = q.ws
      /\ UNCHANGED <<tab, late, backend, stub, token, keys, moves, bounced>>
      /\ metadata' \in {metadata, q.ws}
      /\ erased' = (erased \/ (metadata' = None /\ metadata # None /\ active # None))
  BY SrvReconcileMoves DEF SrvReconcile
<1>2. /\ \A x \in Req \ {r} : srv'[x] = srv[x]
      /\ q # None /\ srv'[r] # None /\ srv'[r].kind = q.kind /\ srv'[r].key = q.key
      /\ srv'[r].claimed = q.claimed
  BY <1>1 DEF Keeps, SrvMoves
<1>3. Existing' = Existing /\ gone' = gone /\ active' = active
  BY <1>1 DEF backend, Existing
<1>4. q.kind = "create" => q.ws \in Key
  BY <1>1, <1>2 DEF Session, SessionReq
<1>5. ASSUME NEW x \in Req PROVE SessionReq(x)'
  <2>1. CASE x = r
    BY <1>1, <1>2, <2>1 DEF Session, SessionReq
  <2>2. CASE x # r
    BY <1>2, <2>2 DEF Session, SessionReq
  <2> QED
    BY <2>1, <2>2
<1>6. ASSUME NEW t \in Tab PROVE SessionTab(t)'
  <2>1. Awaits(t) => tab[t].req \in Req
    BY Pages DEF Awaits, Waits
  <2> QED
    BY <1>1, <1>2, <2>1 DEF Session, SessionTab, Wizarding, Awaits
<1>7. Confirmed'
  <2>1. ASSUME NEW x \in Req, ~stub, srv'[x] # None, srv'[x].at = "reconcile"
        PROVE  srv'[x].ws \in Existing \cup {None}
    BY <1>1, <1>2, <2>1 DEF Session, Confirmed
  <2>2. ~stub => q.ws \in Existing \cup {None}
    BY <1>1, <1>2 DEF Session, Confirmed
  <2> QED
    BY <1>1, <1>3, <2>1, <2>2 DEF Session, Confirmed
<1>8. ASSUME Spared' PROVE Settled'
  <2>0. Spared /\ ~(metadata' = None /\ metadata # None /\ active # None)
    BY <1>1, <1>3, <1>8, Zenon DEF Spared
  <2>1. Settled
    BY <2>0 DEF Session
  <2>2. /\ metadata' # None => active # None
        /\ metadata # None /\ active # None => metadata' # None
    BY <1>1, <1>2, <2>0, <2>1 DEF Settled, SettledReq
  <2>3. ASSUME NEW x \in Req PROVE SettledReq(x)'
    <3>1. CASE x = r
      BY <1>1, <1>2, <1>3, <2>1, <3>1 DEF Settled, SettledReq
    <3>2. CASE x # r
      BY <1>2, <1>3, <2>1, <3>2 DEF Settled, SettledReq
    <3> QED
      BY <3>1, <3>2
  <2>4. \A t \in Tab : SettledTab(t)'
    BY <1>1, <2>1, <2>2 DEF Settled, SettledTab
  <2> QED
    BY <1>1, <1>3, <2>1, <2>2, <2>3, <2>4 DEF Settled
<1> QED
  BY <1>1, <1>3, <1>5, <1>6, <1>7, <1>8 DEF Session, NoBounce

LEMMA ForgetKeepsSession ==
  ASSUME Types, Served, Session, NEW r \in Req, Forget(r)
  PROVE  Session'
<1>1. /\ \A x \in Req \ {r} : srv'[x] = srv[x]
      /\ srv'[r] = None /\ \A t \in Tab : tab[t].req # r
      /\ UNCHANGED <<tab, late, backend, stub, metadata, token, keys, faults, moves, bounced, erased>>
  BY ForgetMoves DEF SrvMoves
<1>2. Existing' = Existing /\ gone' = gone /\ active' = active
  BY <1>1 DEF backend, Existing
<1>3. \A x \in Req : srv'[x] # None => srv'[x] = srv[x]
  BY <1>1
<1>4. \A x \in Req : SessionReq(x)'
  BY <1>3 DEF Session, SessionReq
<1>5. \A t \in Tab : SessionTab(t)'
  <2> TAKE t \in Tab
  <2>1. Awaits(t) => tab[t].req \in Req
    BY Pages DEF Awaits, Waits
  <2> QED
    BY <1>1, <2>1 DEF Session, SessionTab, Wizarding, Awaits
<1>6. Confirmed'
  BY <1>1, <1>2, <1>3 DEF Session, Confirmed
<1>7. Spared => Settled'
  BY <1>1, <1>2, <1>3 DEF Session, Settled, SettledReq, SettledTab
<1> QED
  BY <1>1, <1>2, <1>4, <1>5, <1>6, <1>7 DEF Session, NoBounce, Spared

LEMMA OthersKeepSession ==
  ASSUME Types, Served, Session, tab' = tab, srv' = srv, stub' = stub, metadata' = metadata,
         bounced' = bounced, erased' = erased, Existing \subseteq Existing',
         gone' = {} => gone = {},
         token' \in {token, metadata}, active' \in Workspace,
         active' = active \/ (~stub => active' \in Existing \cup {None}),
         gone = {} /\ active # None => active' # None
  PROVE  Session'
<1>1. \A t \in Tab : SessionTab(t)'
  BY DEF Session, SessionTab, Wizarding, Awaits
<1>2. \A r \in Req : SessionReq(r)'
  BY DEF Session, SessionReq
<1>3. Confirmed'
  BY DEF Session, Confirmed
<1>4. Spared => Settled'
  BY DEF Session, Spared, Settled, SettledReq, SettledTab
<1> QED
  BY <1>1, <1>2, <1>3, <1>4 DEF Session, NoBounce, Spared

LEMMA StepSession ==
  ASSUME Types, Served, Session, [Next]_vars
  PROVE  Session'
<1>1. CASE \E t \in Tab : TabStep(t)
  BY <1>1, TabKeepsSession
<1>2. CASE Server
  BY <1>2, CreateKeepsSession, EnsureKeepsSession, ReconcileKeepsSession, ForgetKeepsSession
  DEF Server
<1>3. active \in Workspace
  BY DEF Types
<1>4. CASE \E l \in late : ApplyLate(l)
  <2>1. PICK l \in late : ApplyLate(l)
    BY <1>4
  <2>2. UNCHANGED <<tab, srv, gone, stub, metadata, token, bounced, erased>>
    BY <2>1, ApplyLateMoves
  <2>3. \/ Creating(l.key, l.payload) /\ active' = active
        \/ /\ spaces' = spaces /\ l.ws \in Workspace
           /\ active' = active \/ (active' = EnsureAnswer(l.ws) /\ EnsureAnswer(l.ws) # Refused)
    BY <2>1, ApplyLateMoves
  <2>4. Existing \subseteq Existing'
    BY <2>3 DEF Creating, Existing
  <2>5. /\ active' \in Workspace
        /\ active' = active \/ (~stub => active' \in Existing \cup {None})
        /\ gone = {} /\ active # None => active' # None
    BY <1>3, <2>3, EnsureAnswers, EnsureKeeps DEF Session
  <2> QED
    BY <2>2, <2>4, <2>5, OthersKeepSession
<1>5. CASE \E w \in Key : DeleteWorkspace(w)
  <2>1. UNCHANGED <<tab, srv, spaces, active, stub, metadata, token, bounced, erased>> /\ gone' # {}
    BY <1>5 DEF DeleteWorkspace
  <2> QED
    BY <1>3, <2>1, OthersKeepSession DEF Existing
<1>6. CASE RefreshToken
  BY <1>3, <1>6, OthersKeepSession DEF RefreshToken, backend, Existing
<1>7. CASE UNCHANGED vars
  BY <1>3, <1>7, OthersKeepSession DEF vars, Existing
<1> QED
  BY <1>1, <1>2, <1>4, <1>5, <1>6, <1>7 DEF Next

LEMMA InitSession ==
  ASSUME Init
  PROVE  Session
<1>1. tab = [t \in Tab |-> Plain("signin")] /\ Plain("signin").page = "signin"
  BY PlainTyped DEF Init
<1>2. \A t \in Tab : tab[t].page = "signin"
  BY <1>1
<1>3. srv = [r \in Req |-> None] /\ token = Out /\ metadata = active /\ bounced = FALSE
      /\ erased = FALSE
      /\ keys \in (IF stub THEN {0} ELSE {0, MaxKeys}) /\ active = (IF keys = 0 THEN None ELSE 1)
  BY Zenon DEF Init
<1> DEFINE f == [name |-> CHOOSE n \in Name : TRUE, aws |-> FALSE]
<1>4. spaces = [k \in 1..keys |-> f]
  BY Zenon DEF Init
<1> HIDE DEF f
<1>5. Existing = 1..keys /\ keys \in Nat
  BY <1>3, <1>4, OnboardingAssumption DEF Existing
<1>6. active \in Existing \cup {None}
  BY <1>3, <1>5
<1>7. \A r \in Req : srv[r] = None
  BY <1>3
<1>8. Confirmed
  BY <1>3, <1>6, <1>7 DEF Confirmed
<1>9. Settled
  BY <1>2, <1>3, <1>7 DEF Settled, SettledReq, SettledTab
<1>10. NoBounce
  BY <1>3 DEF NoBounce
<1> QED
  BY <1>2, <1>7, <1>8, <1>9, <1>10 DEF Session, SessionTab, SessionReq, Wizarding

LEMMA SessionOK ==
  ASSUME Types, Session
  PROVE  OnboardingInv
<1>1. \A t \in Tab : /\ tab[t].page \in {"wizard", "classic", "dashboard", "cloud", "post-auth",
                            "post-auth-aws", "handoff", "arriving", "failed", "error", "signin"}
                     /\ tab[t].req \in Req \cup {None}
  <2> TAKE t \in Tab
  <2>1. tab[t] \in TabState /\ tab[t].req \in Waits
    BY Pages
  <2> QED
    BY <2>1 DEF TabState, WizardTab, ClassicTab, ConsoleTab, PlainTab, HandoffTab, ArrivingTab,
                Waits
<1>2. TypeOK
  BY <1>1 DEF TypeOK, Types
<1>3. ClaimConfirmed
  BY DEF Session, Confirmed, ClaimConfirmed
<1> QED
  BY <1>2, <1>3 DEF Session, OnboardingInv

\* Types hold, a handoff never ends on the onboarding page while nothing was
\* deleted and no other tab wrote the workspace out of the metadata
\* (post-auth-handoff.tsx, metadata.ts), and the claim, the metadata and the
\* remembered workspace name workspaces the backend created.
THEOREM OnboardingIsSafe == Spec => []OnboardingInv
<1>1. Init => Types /\ Served /\ Session
  BY InitTypes, InitSession
<1>2. Types /\ Served /\ Session /\ [Next]_vars => (Types /\ Served /\ Session)'
  BY StepTypes, StepSession
<1>3. Types /\ Served /\ Session => OnboardingInv
  BY SessionOK
<1> QED
  BY <1>1, <1>2, <1>3, PTL DEF Spec
=============================================================================
