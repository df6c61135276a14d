----------------------------- MODULE Onboarding -----------------------------
(***************************************************************************)
(* How a signed-in user gets a workspace and the browser session that      *)
(* carries it: the onboarding wizard, the classic setup flow, the Next.js  *)
(* routes behind them (create, claim, post-auth), the gateway's            *)
(* WorkspaceBootstrapService, the development stub that can stand in for   *)
(* it, the Clerk user metadata and the session token derived from it, the  *)
(* middleware that routes on the token's claim, and the workspace switch.  *)
(*                                                                         *)
(* One user, several browser tabs.  A workspace is named by the key it was *)
(* created under.  Every request the web server works on is a record of    *)
(* srv; a tab that gives up forgets its request and the server goes on.    *)
(* A call the server gave up on may still be applied: it waits in late.    *)
(***************************************************************************)
EXTENDS Naturals, FiniteSets

CONSTANTS Tab,        \* browser tabs of the one user
          Name,       \* the valid workspace names
          None, Org,  \* no workspace; the id of a Clerk organization
          Out,        \* the session token of a signed-out browser
          Refused,    \* ensure's answer to a user who is no member
          MaxKeys,    \* bound: idempotency keys the wizards may draw
          MaxReqs,    \* bound: requests the web server holds at a time
          MaxFaults,  \* bound: losses, timeouts and refusals
          MaxMoves    \* bound: sign-ins, edits, navigations, switches, deletions

ASSUME OnboardingAssumption ==
  /\ MaxKeys \in Nat /\ MaxReqs \in Nat \ {0} /\ MaxFaults \in Nat /\ MaxMoves \in Nat
  /\ {None, Org, Out, Refused} \cap (Nat \cup Name) = {}
  /\ Cardinality({None, Org, Out, Refused}) = 4 /\ Name # {}

VARIABLES tab,       \* what each tab shows
          srv,       \* requests in the web server
          late,      \* calls given up on that may still be applied
          spaces,    \* workspaces of the user: key -> payload
          gone,      \* workspaces deleted since
          stub,      \* the development stub answers instead of the gateway
          active,    \* users.active_workspace_id
          metadata,  \* Clerk publicMetadata.workspaceId
          token,     \* the workspaceId claim of the session token, or Out
          keys, faults, moves,
          bounced,   \* history: a handoff ended on the onboarding page
          erased     \* history: "no workspace" was written over the user's workspace

backend == <<spaces, gone, active>>
vars == <<tab, srv, late, spaces, gone, stub, active, metadata, token, keys,
          faults, moves, bounced, erased>>

Key == 1..MaxKeys
Req == 1..MaxReqs
Workspace == Key \cup {Org, None}
\* What the wizard asks for.  Description, avatar and environment are copied
\* into the payload the way the choice of providers is, and left out.
Form == [name: Name \cup {""}, aws: BOOLEAN]
\* What the web server knows of a request: see Request.
RequestState ==
  [kind: {"create", "claim", "post-auth"}, ws: Workspace, key: 0..MaxKeys,
   payload: Form \cup {None}, claimed: Workspace \cup {Out},
   code: {"", "workspace_create_failed", "duplicate_idempotency_key", "slug_taken", "unauthorized"},
   at: {"create", "ensure", "reconcile", "done"}, status: {200, 401, 409, 500, 502, 504}]

ASSUME NoneAssumption == None \notin Form \cup RequestState

Fault == faults < MaxFaults /\ faults' = faults + 1
Move  == moves < MaxMoves /\ moves' = moves + 1

-----------------------------------------------------------------------------
(* Middleware and page mounts.                                             *)

OnboardingPaths == {"wizard", "classic"}

\* Where a request for a page ends up, decided on the token's claim alone.
Route(path) ==
  CASE token = Out                                                   -> "signin"
    [] token = None /\ path \notin OnboardingPaths \cup {"post-auth"} -> "wizard"
    [] token \notin {None, Out} /\ path \in OnboardingPaths           -> "dashboard"
    [] OTHER                                                          -> path

Wizard(k) == [page |-> "wizard", step |-> 0, form |-> [name |-> "", aws |-> FALSE],
              payload |-> None, key |-> k, mine |-> {k}, retrying |-> FALSE, req |-> None]
Classic   == [page |-> "classic", step |-> 0, named |-> FALSE, provider |-> "aws",
              created |-> FALSE, req |-> None]
Console(p) == [page |-> p, listed |-> {}, seen |-> None, req |-> None]
Plain(p)   == [page |-> p, req |-> None]
Handoff(target, w) == [page |-> "handoff", target |-> target, expected |-> w,
                       probe |-> 1, user |-> metadata, req |-> None]
Arriving(h) == [page |-> "arriving", target |-> h.target, expected |-> h.expected, req |-> None]

\* Mounting the wizard draws its first idempotency key.
Open(t, path) ==
  LET p == Route(path) IN
  \/ /\ p = "wizard" /\ keys < MaxKeys
     /\ tab' = [tab EXCEPT ![t] = Wizard(keys + 1)]
     /\ keys' = keys + 1
  \/ /\ p # "wizard" /\ UNCHANGED keys
     /\ tab' = [tab EXCEPT ![t] = CASE p = "classic"                -> Classic
                                   [] p \in {"dashboard", "cloud"}  -> Console(p)
                                   [] OTHER                         -> Plain(p)]

\* The user opens, reloads or leaves for a page; what the tab waited for goes on without it.
Visit(t, path) ==
  /\ Move
  /\ tab[t].page # "signin" \/ path = "signin"
  /\ Open(t, path)
  /\ UNCHANGED <<srv, late, backend, stub, metadata, token, faults, bounced, erased>>

SignOut(t) ==
  /\ Move /\ tab[t].page \in {"dashboard", "cloud"}
  /\ token' = Out
  /\ tab' = [tab EXCEPT ![t] = Plain("signin")]
  /\ UNCHANGED <<srv, late, backend, stub, metadata, keys, faults, bounced, erased>>

\* Signing in issues a new token and returns to post-auth.
SignIn(t) ==
  /\ \/ tab[t].page = "signin" /\ Move
     \/ tab[t].page = "failed" /\ UNCHANGED moves
  /\ token' = metadata
  /\ tab' = [tab EXCEPT ![t] = Plain("post-auth")]
  /\ UNCHANGED <<srv, late, backend, stub, metadata, keys, faults, bounced, erased>>

\* Clerk replaces the short-lived session token in the background.
RefreshToken ==
  /\ token \notin {Out, metadata}
  /\ token' = metadata
  /\ UNCHANGED <<tab, srv, late, backend, stub, metadata, keys, faults, moves, bounced, erased>>

-----------------------------------------------------------------------------
(* Requests from a tab to the web server.                                  *)

FreeReq == CHOOSE r \in Req : srv[r] = None
\* Route handlers start with auth.protect(): a signed-out caller gets 401.
Request(kind, w, k, p) ==
  [kind |-> kind, ws |-> w, key |-> k, payload |-> p, claimed |-> token, code |-> "",
   at |-> IF token = Out THEN "done" ELSE IF kind = "create" THEN "create" ELSE "ensure",
   status |-> IF token = Out THEN 401 ELSE 200]

\* t's state becomes s, waiting for the new request.
Send(t, s, kind, w, k, p) ==
  /\ \E r \in Req : srv[r] = None
  /\ srv' = [srv EXCEPT ![FreeReq] = Request(kind, w, k, p)]
  /\ tab' = [tab EXCEPT ![t] = [s EXCEPT !.req = FreeReq]]

Awaits(t) == tab[t].req # None
Answered(t) == Awaits(t) /\ srv[tab[t].req].at = "done"

\* The tab moves to s and the answered request is forgotten.
Receive(t, s) ==
  /\ tab' = [tab EXCEPT ![t] = [s EXCEPT !.req = None]]
  /\ srv' = [srv EXCEPT ![tab[t].req] = None]

\* The connection breaks or the client's timeout fires: the server may never
\* have seen the request, or goes on with it; the tab may ask again.
LoseReply(t) ==
  /\ Awaits(t) /\ Fault
  /\ \/ srv' = srv
     \/ srv' = [srv EXCEPT ![tab[t].req] = None]
  /\ tab' = [tab EXCEPT ![t] = IF @.page = "post-auth" THEN Plain("error")
                               ELSE [@ EXCEPT !.req = None]]
  /\ UNCHANGED <<late, backend, stub, metadata, token, keys, moves, bounced, erased>>

\* A finished request nobody waits for leaves the server.
Forget(r) ==
  /\ srv[r] # None /\ srv[r].at = "done" /\ \A t \in Tab : tab[t].req # r
  /\ srv' = [srv EXCEPT ![r] = None]
  /\ UNCHANGED <<tab, late, backend, stub, metadata, token, keys, faults, moves, bounced, erased>>

-----------------------------------------------------------------------------
(* The backend: the gateway's bootstrap service or the development stub.   *)

Existing == DOMAIN spaces
Member(w) == w \in Existing \ gone

\* Mutant of CreateAnswer: a repeated key conflicts even with its own payload.
CreateAnswerNoReplay(k, p) == IF k \in Existing THEN "duplicate_idempotency_key" ELSE "ok"

\* POST /v1/workspaces: a key seen before replays or conflicts, a name whose
\* slug exists is refused, anything else creates the workspace.  The service
\* appends a random suffix to the slug, the stub refuses a used base slug.
CreateAnswer(k, p) ==
  IF k \in Existing
  THEN IF spaces[k] = p THEN "ok" ELSE "duplicate_idempotency_key"
  ELSE IF stub /\ \E j \in Existing : spaces[j].name = p.name THEN "slug_taken" ELSE "ok"

ApplyCreate(k, p) ==
  spaces' = IF CreateAnswer(k, p) = "ok"
            THEN [j \in Existing \cup {k} |-> IF j = k THEN p ELSE spaces[j]]
            ELSE spaces

\* POST /v1/users/ensure in the gateway: an explicit workspace needs a live
\* membership, a remembered one that lost it is cleared.
GatewayEnsure(w) ==
  IF w # None
  THEN IF Member(w) THEN w ELSE Refused
  ELSE IF Member(active) THEN active ELSE None
\* The stub takes any workspace the body names.
StubEnsure(w) == IF w # None THEN w ELSE active
EnsureAnswer(w) == IF stub THEN StubEnsure(w) ELSE GatewayEnsure(w)

ApplyEnsure(w) == active' = IF EnsureAnswer(w) = Refused THEN active ELSE EnsureAnswer(w)

Done(r, status, code) == [srv EXCEPT ![r].at = "done", ![r].status = status, ![r].code = code]
\* What each route answers when a later step of it throws.
Broken(r) == Done(r, IF srv[r].kind = "create" THEN 502 ELSE 500, "workspace_create_failed")

SrvCreate(r) ==
  /\ srv[r] # None /\ srv[r].at = "create"
  /\ LET q == srv[r] IN
     \/ /\ ApplyCreate(q.key, q.payload)
        /\ srv' = IF CreateAnswer(q.key, q.payload) = "ok"
                  THEN [srv EXCEPT ![r].ws = q.key, ![r].at = "ensure"]
                  ELSE Done(r, 409, CreateAnswer(q.key, q.payload))
        /\ UNCHANGED <<late, faults>>
     \/ \* five seconds pass: 504, and the call may still be applied
        /\ Fault /\ srv' = Done(r, 504, "workspace_create_failed")
        /\ late' = late \cup {[op |-> "create", key |-> q.key, payload |-> q.payload, ws |-> None]}
        /\ UNCHANGED spaces
     \/ \* the gateway refuses the token, or the slug collides
        /\ Fault /\ q.key \notin Existing
        /\ \/ srv' = Done(r, 401, "unauthorized")
           \/ srv' = Done(r, 409, "slug_taken")
        /\ UNCHANGED <<late, spaces>>
  /\ UNCHANGED <<tab, gone, active, stub, metadata, token, keys, moves, bounced, erased>>

SrvEnsure(r) ==
  /\ srv[r] # None /\ srv[r].at = "ensure"
  /\ LET q == srv[r]
         w == EnsureAnswer(q.ws) IN
     \/ /\ ApplyEnsure(q.ws)
        /\ srv' = IF w = Refused \/ (q.kind = "create" /\ w # q.ws)
                  THEN Broken(r) ELSE [srv EXCEPT ![r].ws = w, ![r].at = "reconcile"]
        /\ UNCHANGED <<late, faults>>
     \/ /\ Fault /\ srv' = Broken(r)
        /\ late' = late \cup {[op |-> "ensure", key |-> 0, payload |-> None, ws |-> q.ws]}
        /\ UNCHANGED active
  /\ UNCHANGED <<tab, spaces, gone, stub, metadata, token, keys, moves, bounced, erased>>

\* Nothing is written when the claim the request came with already agrees.  A
\* token without a workspace has no such claim at all, and null differs from
\* undefined: for a user whom ensure found without a workspace, null is written
\* each time, whatever another tab has written meanwhile.
SrvReconcile(r) ==
  /\ srv[r] # None /\ srv[r].at = "reconcile"
  /\ LET q == srv[r] IN
     IF q.ws = q.claimed /\ q.ws # None /\ q.kind # "create"
     THEN srv' = Done(r, 200, "") /\ UNCHANGED <<metadata, faults>>
     ELSE \/ metadata' = q.ws /\ srv' = Done(r, 200, "") /\ UNCHANGED faults
          \/ Fault /\ metadata' \in {metadata, q.ws} /\ srv' = Broken(r)
  /\ erased' = (erased \/ (metadata' = None /\ metadata # None /\ active # None))
  /\ UNCHANGED <<tab, late, backend, stub, token, keys, moves, bounced>>

ApplyLate(l) ==
  /\ late' = late \ {l}
  /\ \/ l.op = "create" /\ ApplyCreate(l.key, l.payload) /\ UNCHANGED active
     \/ l.op = "ensure" /\ ApplyEnsure(l.ws) /\ UNCHANGED spaces
  /\ UNCHANGED <<tab, srv, gone, stub, metadata, token, keys, faults, moves, bounced, erased>>

DeleteWorkspace(w) ==
  /\ Move /\ Member(w)
  /\ gone' = gone \cup {w}
  /\ UNCHANGED <<tab, srv, late, spaces, active, stub, metadata, token, keys, faults, bounced, erased>>

-----------------------------------------------------------------------------
(* The onboarding wizard.                                                  *)

wizard(t) == tab[t].page = "wizard" /\ ~Awaits(t)
NameValid(w) == w.form.name \in Name
Locked(w) == w.payload # None
quiet == UNCHANGED <<late, backend, stub, metadata, token, faults, bounced, erased>>

\* The controls of a step; a locked payload disables all of them.
Edits(w) ==
  CASE w.step = 0 -> {[w.form EXCEPT !.name = n] : n \in Name \cup {""}}
    [] w.step = 1 -> {w.form}
    [] w.step = 2 -> {[w.form EXCEPT !.aws = ~@]}

Edit(t) ==
  /\ tab[t].page = "wizard" /\ ~Locked(tab[t]) /\ Move
  /\ \E f \in Edits(tab[t]) \ {tab[t].form} : tab' = [tab EXCEPT ![t].form = f]
  /\ quiet /\ UNCHANGED <<srv, keys>>

\* submit(): the first attempt freezes the payload, later ones resend it.
Submit(t) ==
  LET w == tab[t]
      p == IF Locked(w) THEN w.payload ELSE w.form IN
  IF ~Locked(w) /\ ~NameValid(w)
  THEN tab' = [tab EXCEPT ![t].step = 0] /\ UNCHANGED srv
  ELSE Send(t, [w EXCEPT !.payload = p, !.retrying = Locked(w)], "create", None, w.key, p)

GoNext(t) ==
  /\ wizard(t)
  /\ LET w == tab[t] IN
     IF Locked(w) \/ w.step = 2 THEN Submit(t)
     ELSE /\ w.step = 0 => NameValid(w)
          /\ tab' = [tab EXCEPT ![t].step = @ + 1]
          /\ UNCHANGED srv
  /\ quiet /\ UNCHANGED <<keys, moves>>

Skip(t) == wizard(t) /\ tab[t].step > 0 /\ Submit(t) /\ quiet /\ UNCHANGED <<keys, moves>>

GoBack(t) ==
  /\ wizard(t) /\ ~Locked(tab[t]) /\ tab[t].step > 0
  /\ tab' = [tab EXCEPT ![t].step = @ - 1]
  /\ quiet /\ UNCHANGED <<srv, keys, moves>>

\* Mutant of Definitive: every error but a reused key ends the attempt.
DefinitiveAnyError(q) == q.code # "duplicate_idempotency_key"

Definitive(q) ==
  q.code # "duplicate_idempotency_key" /\ (q.status \in {400, 401, 403, 422} \/ q.code = "slug_taken")

\* A definitive refusal of the first attempt unlocks the form under a new
\* key; after an unknown outcome key and payload stay what they were.
WizardAnswer(t) ==
  /\ tab[t].page = "wizard" /\ Answered(t)
  /\ LET w == tab[t]
         q == srv[w.req] IN
     IF q.status = 200
     THEN /\ Receive(t, Handoff(IF w.form.aws THEN "cloud" ELSE "dashboard", q.ws))
          /\ UNCHANGED keys
     ELSE IF Definitive(q) /\ ~w.retrying
     THEN /\ keys < MaxKeys /\ keys' = keys + 1
          /\ Receive(t, [w EXCEPT !.payload = None, !.key = keys + 1, !.mine = @ \cup {keys + 1},
                                  !.step = IF q.code = "slug_taken" THEN 0 ELSE @])
     ELSE Receive(t, w) /\ UNCHANGED keys
  /\ quiet /\ UNCHANGED moves

-----------------------------------------------------------------------------
(* The classic setup flow: account, workspace, team, policies, cloud and   *)
(* review are its steps 0 to 5.                                            *)

classic(t) == tab[t].page = "classic"
CanContinue(c) == c.step = 1 => c.named

ClassicName(t) ==
  /\ classic(t) /\ tab[t].step = 1
  /\ tab' = [tab EXCEPT ![t].named = ~@]
  /\ quiet /\ UNCHANGED <<srv, keys, moves>>

ClassicProvider(t) ==
  /\ classic(t) /\ tab[t].step = 4
  /\ \E p \in {"aws", "other"} :
       tab' = [tab EXCEPT ![t].provider = p]
  /\ quiet /\ UNCHANGED <<srv, keys, moves>>

\* Back and the progress dots stay enabled while the organization is created.
ClassicJump(t) ==
  /\ classic(t) /\ Move
  /\ \E i \in 0..(tab[t].step - 1) : tab' = [tab EXCEPT ![t].step = i]
  /\ quiet /\ UNCHANGED <<srv, keys>>

\* Continue; the workspace step creates a Clerk organization and claims its id.
ClassicContinue(t) ==
  /\ classic(t) /\ ~Awaits(t) /\ tab[t].step < 5 /\ CanContinue(tab[t])
  /\ IF tab[t].step = 1 /\ ~tab[t].created
     THEN Send(t, tab[t], "claim", Org, 0, None)
     ELSE tab' = [tab EXCEPT ![t].step = @ + 1] /\ UNCHANGED srv
  /\ quiet /\ UNCHANGED <<keys, moves>>

\* The step the user is on by then is the one advanced from.
ClassicAnswer(t) ==
  /\ classic(t) /\ Answered(t)
  /\ LET ok == srv[tab[t].req].status = 200
         n == tab[t].step IN
     Receive(t, IF ok THEN [tab[t] EXCEPT !.created = TRUE, !.step = IF n < 5 THEN n + 1 ELSE 5]
                ELSE tab[t])
  /\ quiet /\ UNCHANGED <<keys, moves>>

ClassicOpen(t) ==
  /\ classic(t) /\ tab[t].step = 5 /\ tab[t].created /\ ~Awaits(t)
  /\ tab' = [tab EXCEPT ![t] = Plain(IF @.provider = "aws" THEN "post-auth-aws" ELSE "post-auth")]
  /\ quiet /\ UNCHANGED <<srv, keys, moves>>

-----------------------------------------------------------------------------
(* Post-auth, the handoff and the workspace switch.                        *)

postAuth(t) == tab[t].page \in {"post-auth", "post-auth-aws"}

PostAuth(t) ==
  /\ postAuth(t) /\ ~Awaits(t)
  /\ Send(t, tab[t], "post-auth", None, 0, None)
  /\ quiet /\ UNCHANGED <<keys, moves>>

PostAuthAnswer(t) ==
  /\ postAuth(t) /\ Answered(t)
  /\ LET q == srv[tab[t].req] IN
     Receive(t, CASE q.status = 401 -> Plain("signin")
                  [] q.status = 500 -> Plain("error")
                  [] OTHER -> Handoff(IF q.ws = None THEN "wizard"
                                      ELSE IF tab[t].page = "post-auth-aws" THEN "cloud"
                                      ELSE "dashboard", q.ws))
  /\ quiet /\ UNCHANGED <<keys, moves>>

\* Mutant of AfterProbe: any refreshed token will do.
AfterProbeAnyClaim(h, claim) == Arriving(h)

\* A probe asks Clerk for a new token, which may still lag behind the
\* metadata.  A mismatch reloads the user: a changed user restarts the effect,
\* an unchanged one leads to the second and last probe.
AfterProbe(h, claim) ==
  CASE claim = h.expected -> Arriving(h)
    [] claim # h.expected /\ h.probe = 2 -> Plain("failed")
    [] OTHER -> [h EXCEPT !.probe = IF h.user = metadata THEN 2 ELSE 1, !.user = metadata]

Probe(t) ==
  /\ tab[t].page = "handoff" /\ token # Out
  /\ \E claim \in {token, metadata} :
       /\ token' = claim
       /\ tab' = [tab EXCEPT ![t] = AfterProbe(@, claim)]
  /\ UNCHANGED <<srv, late, backend, stub, metadata, keys, faults, moves, bounced, erased>>

\* No token, or the refresh throws: the failure is shown.
ProbeFails(t) ==
  /\ tab[t].page = "handoff"
  /\ \/ token = Out /\ UNCHANGED faults
     \/ token # Out /\ Fault
  /\ tab' = [tab EXCEPT ![t] = Plain("failed")]
  /\ UNCHANGED <<srv, late, backend, stub, metadata, token, keys, moves, bounced, erased>>

\* router.replace(target), through the middleware.
Arrive(t) ==
  /\ tab[t].page = "arriving"
  /\ Open(t, tab[t].target)
  /\ bounced' = (bounced \/ (tab[t].target # "wizard" /\ Route(tab[t].target) = "wizard"))
  /\ UNCHANGED <<srv, late, backend, stub, metadata, token, faults, moves, erased>>

console(t) == tab[t].page \in {"dashboard", "cloud"}

\* Once per mount, or again after a failure; the list route reports the claim
\* only if it is one of the memberships.
LoadWorkspaces(t) ==
  /\ console(t) /\ tab[t].listed = {} /\ token # Out
  /\ LET members == {w \in Existing : Member(w)} IN
     tab' = [tab EXCEPT ![t].listed = members,
                        ![t].seen = IF token \in members THEN token ELSE None]
  /\ quiet /\ UNCHANGED <<srv, keys, moves>>

SelectWorkspace(t) ==
  /\ console(t) /\ ~Awaits(t) /\ Move
  /\ \E w \in tab[t].listed \ {tab[t].seen} : Send(t, tab[t], "claim", w, 0, None)
  /\ quiet /\ UNCHANGED keys

SelectAnswer(t) ==
  /\ console(t) /\ Answered(t)
  /\ Receive(t, IF srv[tab[t].req].status = 200 THEN Plain("post-auth") ELSE tab[t])
  /\ quiet /\ UNCHANGED <<keys, moves>>

-----------------------------------------------------------------------------
\* A new user, or one who belongs to several workspaces.
Init ==
  /\ stub \in BOOLEAN
  /\ tab = [t \in Tab |-> Plain("signin")]
  /\ srv = [r \in Req |-> None]
  /\ late = {} /\ gone = {}
  /\ keys \in IF stub THEN {0} ELSE {0, MaxKeys}
  /\ spaces = [k \in 1..keys |-> [name |-> CHOOSE n \in Name : TRUE, aws |-> FALSE]]
  /\ active = (IF keys = 0 THEN None ELSE 1) /\ metadata = active /\ token = Out
  /\ faults = 0 /\ moves = 0 /\ bounced = FALSE /\ erased = FALSE

Server == \E r \in Req : SrvCreate(r) \/ SrvEnsure(r) \/ SrvReconcile(r) \/ Forget(r)
TabStep(t) ==
  \/ Edit(t) \/ GoNext(t) \/ Skip(t) \/ GoBack(t) \/ WizardAnswer(t)
  \/ ClassicName(t) \/ ClassicProvider(t) \/ ClassicJump(t)
  \/ ClassicContinue(t) \/ ClassicAnswer(t) \/ ClassicOpen(t)
  \/ PostAuth(t) \/ PostAuthAnswer(t) \/ Probe(t) \/ ProbeFails(t) \/ Arrive(t)
  \/ LoadWorkspaces(t) \/ SelectWorkspace(t) \/ SelectAnswer(t)
  \/ SignOut(t) \/ SignIn(t) \/ LoseReply(t)
  \/ \E p \in {"dashboard", "wizard", "classic", "post-auth"} : Visit(t, p)

Next ==
  \/ \E t \in Tab : TabStep(t)
  \/ Server \/ RefreshToken
  \/ \E l \in late : ApplyLate(l)
  \/ \E w \in Key : DeleteWorkspace(w)

\* The server finishes what it started, effects and promises run, the user of
\* a locked wizard presses retry, and Clerk's tokens catch up.
Spec ==
  /\ Init /\ [][Next]_vars
  /\ WF_vars(Server) /\ SF_vars(RefreshToken)
  /\ \A t \in Tab :
       /\ WF_vars(WizardAnswer(t)) /\ WF_vars(PostAuth(t)) /\ WF_vars(PostAuthAnswer(t))
       /\ WF_vars(Probe(t) \/ ProbeFails(t)) /\ WF_vars(Arrive(t))
       /\ SF_vars(GoNext(t) /\ Locked(tab[t]))

-----------------------------------------------------------------------------
\* What tabs, requests, workspaces and the session may be.
TypeOK ==
  /\ \A t \in Tab : tab[t].page \in {"wizard", "classic", "dashboard", "cloud", "post-auth",
       "post-auth-aws", "handoff", "arriving", "failed", "error", "signin"}
  /\ \A t \in Tab : tab[t].req \in Req \cup {None}
  /\ \A r \in Req : srv[r] \in RequestState \cup {None}
  /\ Existing \subseteq Key /\ \A k \in Existing : spaces[k] \in Form
  /\ gone \subseteq Existing
  /\ {active, metadata} \subseteq Workspace /\ token \in Workspace \cup {Out}
  /\ keys \in 0..MaxKeys /\ faults \in 0..MaxFaults /\ moves \in 0..MaxMoves

\* A torn submit can always be finished: a workspace that one of a wizard's
\* keys created, or that a call still under way under such a key may create, is
\* the one the wizard is locked on, by its current key and with the choices it
\* shows (submit(), workspace-onboarding-wizard.tsx).  Hence one wizard never
\* creates two workspaces and never abandons one.
TornSubmitRecoverable ==
  \A t \in Tab : tab[t].page = "wizard" =>
    LET w == tab[t]
        pending == {l.key : l \in {x \in late : x.op = "create"}}
                   \cup {srv[r].key : r \in {x \in Req : srv[x] # None /\ srv[x].at = "create"}}
    IN \A k \in w.mine \cap (Existing \cup pending) :
         k = w.key /\ w.payload = w.form /\ (k \in Existing => spaces[k] = w.payload)

\* The handoff never drops a user who has a workspace on the onboarding page:
\* it navigates only on a token that carries the workspace it waited for, so
\* that the middleware lets the navigation through (post-auth-handoff.tsx,
\* middleware.ts).  Two things only defeat it: a workspace was deleted
\* meanwhile, or the post-auth of another tab, which had found the user without
\* a workspace, wrote so after this tab's creation (metadata.ts).
NoBounce == bounced => gone # {} \/ erased

\* The claim the browser routes on names a workspace the backend created for
\* this user: no order of lost, late and repeated requests writes another
\* (claim, create and post-auth routes, ensure()).
ClaimConfirmed == ~stub => {metadata, token, active} \subseteq Existing \cup {None, Out}

\* Tabs are interchangeable: what holds for one holds for all.
ATab == CHOOSE t \in Tab : TRUE

\* The handoff ends: it navigates or shows the failure, and never hangs
\* silently (the catch and the second probe of post-auth-handoff.tsx).
HandoffEnds == tab[ATab].page = "handoff" ~> tab[ATab].page # "handoff"

\* A wizard whose workspace exists is finished by retrying, unless the user
\* reloads or leaves the page or signs out, or the workspace is deleted.
Torn == tab[ATab].page = "wizard" /\ tab[ATab].key \in Existing
WizardRecovers == Torn ~> (~Torn \/ token = Out \/ gone # {})

\* Tabs, requests and session are well formed; no handoff bounces, and the
\* claim is one that the backend has confirmed.
OnboardingInv == TypeOK /\ NoBounce /\ ClaimConfirmed

\* Handoffs end, and torn creations are finished by retrying.
OnboardingProgress == HandoffEnds /\ WizardRecovers
=============================================================================
