# Verification of Provisr

TLA+ models of the parts of Provisr in which several processes, transactions
and messages meet, the TLC runs that check them on small instances, and TLAPS
proofs of what holds for every instance.  Every definition is translated from
the source; `PROJECT.json` names the lines.

## 1. The system

Provisr turns a chat request into cloud infrastructure.  A browser talks to the
orchestrator (NestJS), which keeps chat sessions and provisioning runs in
PostgreSQL, drives an agent (Python, language models), and calls Go services
for manifests, Terraform artifacts, policies, cloud accounts and workspaces.
All services share one database and one hash-chained audit log.

| Component | State | Operations | Interaction |
|---|---|---|---|
| Runs (`runs.service.ts`) | the row of `provisioning_runs`: state, version, question, answers, manifest versions, artifact | create, worker pass, agent turn, IaC generation, cancel, confirm, revise, clarify, expire | HTTP to agent, manifest, artifact, policy and cloud services; row lock and `state_version`; advisory session lock per run |
| Chat sessions and intake (`chat-persistence.service.ts`) | sessions, turns, messages | create run, submit turn, delete session | advisory lock per key, `FOR UPDATE` of the session |
| Outbox (`events/*`) | rows of `sse_events` with status, attempts and lease | append, claim, publish, settle | publishers compete for rows |
| Event stream (`sse.controller.ts`) | the cursor of a connection | open, poll | reads rows that other transactions append |
| Stream client (`lib/sse/*`) | EventSource, timer, last id | connect, disconnect, callbacks | token promise, timers, network |
| Workspaces (`workspace-service`) | workspace, members, invitations, keys | member, role, invitation, rename, delete | row locks, idempotency keys, looks at the runs |
| Cloud accounts (`cloudaccount`) | one slot per provider | create, resubmit, verify, status, delete | AWS calls between a read and a write; looks at the runs |
| Manifests, artifacts (`manifest`, `iacartifact`) | immutable versions; artifacts | keyed store; generate | called by the workers, possibly late or twice |
| Gateway (`middleware`, `auth`, `*.client.ts`) | caches of tokens and addresses | authenticate, permit, forward, map errors | every await is a point where roles, tokens and services change |
| Onboarding (`workspace-onboarding-wizard.tsx`, `onboarding-flow.tsx`, `post-auth-handoff.tsx`, `middleware.ts`, `workspace-bootstrap.service.ts`) | form and key of a tab; active workspace; Clerk metadata; session token | create, claim, ensure, reconcile, hand off, switch | browser, web server, gateway, Clerk; the token lags behind the metadata |
| Transitions, pre-flight, audit (`workflow-transition.service.ts`, `policy-preflight.service.ts`, `audit.service.ts`) | run row, policy snapshot, audit chain, stream rows | transition, load, append | row lock, then the advisory lock of the chain |
| Pages and cards (`app/*`, `components/ui`, `components/registry`) | the React state of a page | load, edit, submit, retry, navigate | handlers that await calls; late and lost answers |
| Policy, approval, pricing, state backend, agent sessions | rules, price cache, backends, sessions | see the plan | called by the workers |

### What is hard here

* **Read, await, commit.**  Every handler of a run reads the row, awaits HTTP
  calls for up to minutes and commits afterwards; users and other workers move
  the run meanwhile.  The only protection is the comparison of `state_version`.
* **At-least-once calls.**  Workers die, lose replies and lose the connection
  that holds their lock.  A second worker repeats the turn with the same key,
  and the agent answers with a different draft.
* **Swallowed conflicts.**  A closed gate and a stale version look the same and
  end a pass silently: a gate that can never open would hang the run.
* **READ COMMITTED.**  Counting admins, looking for active runs and claiming
  keys are separate statements; only row locks and unique indexes order them.
* **Numbers before commits.**  Stream numbers are drawn at the insert and rows
  appear at the commit; a cursor may pass over a row.
* **Awaits in the browser.**  A token promise resolves after the component that
  asked for it is gone, or has come back; an answer arrives when the user is on
  another step, has opened a panel again or has given up and retried.
* **Three copies of the active workspace.**  The database, the metadata at Clerk
  and the claim of the session token change at different times, and the
  middleware routes on the last.
* **Evidence beside the change.**  Audit and stream events are written from the
  snapshot of the caller and must belong to the version that is committed.

`PROJECT.json` lists the most important of these hazards, each at its line, with
the property that covers it or the reason why none does.

## 2. Modules

| Module | Models | State and actions |
|---|---|---|
| `WorkflowFsm` | `transitions.ts`, `workflow-state.ts` | the transition table and its gates, as operators |
| `RunContract` | - | what a run promises its users, without workers, versions or stores |
| `RunLifecycle` | `runs.service.ts`, `planning-clients.ts`, the keyed store of `manifest/store.go`, `iacartifact/store.go` | one run; an action is what happens between two awaits |
| `RunLifecycleProofs` | - | theorems about `RunLifecycle`: types, optimistic locking, terminal runs; manifests and the consent behind a plan |
| `RunContractProofs` | - | theorems about `RunLifecycle`: it implements `RunContract`, keeps answers, fails at the third strike |
| `Outbox` | `outbox-publisher.service.ts`, `postgres-outbox.store.ts` | rows with status, attempts, lease; one action per query or call |
| `EventStream` | `publish`, `sse.controller.ts` | transactions with numbers and locks; cursor, page, wire |
| `SseClient` | `sse-client.ts` | fields of the client, EventSources, timers, waiting token calls |
| `Workspaces` | `workspace-service` | tables, open transactions and their row locks; one action per SQL statement |
| `WorkspacesProofs` | - | theorems about `Workspaces`: keys, invitations, the last admin |
| `CloudAccounts` | `cloudaccount/service.go` | the slot of a provider, open requests; one action per statement or AWS call |
| `Transitions` | `workflow-transition.service.ts`, `policy-preflight.service.ts`, their stores, `audit.service.ts` | callers with snapshots and conditions; transactions statement by statement with their locks |
| `Delivery` | - | `Transitions`, `Outbox` and `EventStream` together |
| `DeliveryProofs` | - | theorems about the three parts of `Delivery` |
| `Onboarding` | wizard, classic flow, create, claim, list and post-auth routes, handoff, middleware, bootstrap service, development stub | tabs, requests in the web server, late calls, workspaces, metadata, token; one action per await |
| `OnboardingProofs` | - | theorems about `Onboarding`: torn submissions, bounced handoffs, the claim of a session |
| `Gateway` | `auth.guard.ts`, `clerk-auth.service.ts`, `identity.service.ts`, controllers, `upstream-client.ts` and the clients on it | clock, caches, requests; one action per await of the pipeline |
| `GatewayProofs` | - | theorems about `Gateway`: caches, permissions, answers, repeated mutations |
| `SetupFlow` | `onboarding-flow.tsx` | the shared form, the step, the creation with its three awaits |
| `CloudPage` | `app/workspace/cloud-accounts`, its panel, cards and routes | page, panel and call under way; the slot at the server and the stack at AWS |
| `PolicyPage` | `app/policy`, `policy-rule-row.tsx`, `rego-editor.tsx` | packs, rows with copies, editors, save and reset |
| `ResourcesPage` | `app/resources`, `resource-table.tsx` | view state, sync, table; the line diff as operators |
| `ClarifyPage` | `clarification-question.tsx`, `database_engine_selector.tsx`, `submit.ts`, the clarify route of the controller | widget, its call under way, the calls it made and what payloads offered |
| `ManifestCards` | `dispatch.ts`, `RegistryRenderer.tsx`, `resource_table.tsx`, `region_selector.tsx` | payloads, migration, filters, focus, provider and region |
| `WebApp` | - | the pages and `SseClient`: the browser has one of them open |
| `WebAppProofs` | - | theorems about the pages and `SseClient`, one for each |
| `RunIntake` | `createRun`, `chat-persistence.service.ts` | sessions, runs, turns, open requests; one action per statement |
| `Provisioning` | - | `CloudAccounts` and `RunIntake`: what a run needs before it is planned |
| `ProvisioningProofs` | - | theorems about the two parts of `Provisioning` |

`MC*` modules add symmetry sets and constant functions for TLC.

### RunLifecycle

`run` is the row; SQL NULL is 0 in version columns.  `worker[w]` and
`client[c]` hold the control point of a process and the row it has read: a
handler starts with a read, every later action is one stretch of code up to the
next await, and commits go through `MayTransition`/`MayTouch` and `Committed`,
which are `mutate`: version comparison, gates over the candidate row, update
with `state_version + 1`.  `StoreDraft` and `GenerateIac` are the HTTP calls
that store something; `Timeout` leaves such a call in `late`, from where
`LateRequest` executes it at any later time.  `Crash` loses a worker and its
lock, `LoseLock` only the lock.  `DeadlinePasses` is the clock of a question.
The columns of policy decisions and approvals are left out: no wired operation
writes them, so PLAN_CREATING is the last state that is not terminal and
reachable.  The agent is external: a turn yields a question, something to say,
or any draft.

### Transactions in Workspaces, CloudAccounts and RunIntake

PostgreSQL's READ COMMITTED is modelled statement by statement: a statement
sees what is committed when it starts, waits for row locks, unique keys and
advisory locks held by open transactions, and looks at a row again after a
wait.  Writes are kept in the request and appear at `Commit`.  An audit event
is appended as the last statement, under a lock held until the commit, so it is
part of it.  Any transaction may roll back at any time.  Runs start and end as
the environment: `createRun` checks the membership and then commits, so a run
may start at any time.

### EventStream and SseClient

The two ends are separate because their contracts do not meet yet:
`frontend/lib/sse/types.ts` says that the contract is pending.  The server
names events, numbers them with UUIDs and reads the `Last-Event-ID` header; the
client listens for unnamed messages, compares numeric ids and sends
`lastEventId` as a query parameter.  `EventStream` has the browser's own
EventSource as its client; `SseClient` has a server that follows the client's
contract: it replays from at most the last id, and skips nothing.  `connect` and
`disconnect` are called by the effect of `use-sse.ts` and by nothing else, so
they alternate (`mounted`): connect, when the effect runs, disconnect, when it is
cleaned up.

### ClarifyPage

`submitClarification` posts to `/v1/runs/:id/clarify` without a query
(`submit.ts:19`), and the controller requires a UUID `workspaceId` in it
(`provisioning-runs.controller.ts:100`): every submission of the two widgets is
refused before `clarifyRun`.  The model follows the code, so the run is no part
of it, and no answer is ever shown as saved (`NeverConfirmed`).  What the run
does with an answer that arrives is in `RunLifecycle`, whose `Clients` call the
API as the controller wants it called.  The question is mounted by nothing but
its tests yet; the selector is one of the components of the registry, which keeps
it mounted when a later payload replaces its data (`ReplacePayload`).

## 3. Runs

| Run | Question | Bounds and why they are enough |
|---|---|---|
| `run_workers` | Do two workers, a user and two faults keep the row, the manifests and the consent consistent, and implement `RunContract`? | 2 workers, 1 request, 2 drafts, 2 faults: a crash or lost reply and a lost lock together; two drafts so that a retried turn can differ |
| `run_users` | Do concurrent users, the sweeper and the workers keep answers and the count of invalid drafts, and does the run implement `RunContract`? | 1 worker, 2 requests, 2 keys, 2 answers, 2 questions (so that a key can come back for the second one), 1 revision, 1 message of the agent: retry against answer against expiry; 1 draft, which may be invalid again and again before and after the revision |
| `run_liveness` | Is a pending run advanced, and a question resolved? | 2 workers (so that one can wait for the other's lock), 1 request, 1 question, 1 fault; fair workers, sweeper and clock |
| `workspaces` | Do concurrent changes apply keys once, use an invitation once, and lose the last admin only to a transaction that locked no admin row? | 2 transactions, 2 users, 3 keys, 1 invitation, 1 user with runs, the roles admin and engineer (the code treats all others alike) |
| `last_admin` | Does a workspace keep an admin? **Violated** | 2 transactions at a time, 2 users, 5 keys for the five changes it takes, only the role admin |
| `provisioning` | Does a key name one request and one run, and are deleted sessions idle? Is a successful creation of an account stored, and only a pending account resubmitted? | 2 users with a session each, 1 key, 2 prompts, 2 requests, 2 runs; 2 calls, 3 keys, 2 submissions, 2 account rows |
| `account_delete` | Does a run keep its account? **Violated** | the instance of `provisioning` |
| `onboarding` | Can a torn creation be finished, does the handoff end without a bounce, is the claim the backend's? | 2 tabs, 2 keys, 2 requests in the web server, 1 fault, 3 moves (navigation, edit, switch, sign-out, deletion): a timed-out call applied late against another tab |
| `gateway` | Are effects permitted, answers true, caches bounded, retries applied once? | 2 requests over 4 routes that together take every branch (keyed and unkeyed, permitted and open), lifetimes of 2, calls of 1, 3 ticks, 1 change, 1 fault |
| `web_app` | Does each page keep its promises over late and lost answers? | per page: 2 external ids and 1 fault; 2 packs of 2 rules with 2 parameters, 2 edits; texts of 3 lines over 2 values; 2 payloads of the engine selector; 3 setup edits and 1 failed creation; 4 sources, 3 timers, 3 frames, 2 connects, 2 failures for the stream |
| `delivery` | Is every transition audited and published, every delivery of the outbox accounted for and a settled row final, every event received? | 2 callers, 4 calls, 1 disturbance (a call each to load, leave and audit, and one that is late); 2 publishers, 2 events, 1 fault; 3 writers, 2 workspaces, 4 numbers, pages of 2, 1 lost connection |
| `sse_unmount` | Is everything closed after unmount? **Violated** | 2 connects |

Deadlock is checked in `workspaces` and `provisioning`.  It is off where the
system may stop: a workspace whose keys are used up (`last_admin`), a run that has ended, an outbox without a publisher,
a stream whose numbers are used up, a page whose user does nothing, requests
that are all answered.  Waiting for each other is then a matter of liveness
(`CallsEnd`).

`delivery`, `provisioning` and `web_app` have several parts in one run, and a
behaviour is one of the part that is open: the parts of `Delivery` meet only in
committed rows, those of `Provisioning` in the rows of runs (the input
`dependent` of `CloudAccounts`), and pages share no state in the browser.

### Properties

* `FreshSnapshots` - a row held by a handler is the current row whenever its
  version is current; so `mutate` never writes what was computed from another row.
* `TerminalIsFinal` - nothing changes a failed, cancelled or completed run.
* `ShownIsStored`, `OneManifestPerTurn`, `PlanHasConsent` - what the users saw
  under a version is stored under it; a turn adds one version; a plan exists
  only for the shown and confirmed version.
* `ThirdStrikeFails` - between two revisions a run records at most three invalid
  drafts and does not outlive the third, over turns, questions and workers; the
  counter of the row is compared with a history of what was recorded.  `reviseRun`
  sets the counter to 0 (`runs.service.ts:311`), so the bound is one per revision.
* `AnswersKept` - an acknowledged answer is recorded, once.
* `ImplementsContract` - `RunLifecycle` implements `RunContract` (states map to
  phases, version columns to the drafts stored under them).
* `PendingServed`, `QuestionsResolved`, `EventuallyReceived`, `CaughtUp` -
  liveness.
* `Accounted`, `SettledIsFinal` - deliveries are counted attempts, and a late
  publisher does not move a settled event.
* `AppliedOnce`, `InvitationOnce`, `LastAdminGuarded` - workspace service.
  `LastAdminGuarded` is what the row locks do guarantee; `AdminRemains`, which
  the code means, is violated in `last_admin`.
* `SuccessIsStored`, `OnlyPendingResubmitted` - cloud accounts.
* `OneAnswerPerKey`, `DeletedSessionsIdle` - run intake.
* `NothingMissed` - server end of the stream: the client has received, in
  ascending order, exactly the committed events of its workspace up to its last
  event id.
* `NeverStuck`, `EmittedInOrder` - client end.
* `EvidenceComplete`, `ChainUnbroken`, `SnapshotAudited`, `GateEvidence`,
  `CallsEnd` - transitions, pre-flight and audit chain: evidence for every
  version, no fork, the stored requirements are the audited ones, no manifest
  without them or a recorded skip, no deadlock of row and chain.
* `TornSubmitRecoverable`, `NoBounce`, `ClaimConfirmed`, `HandoffEnds`,
  `WizardRecovers` - onboarding.  `NoBounce` names the two things that bounce a
  handoff: a deleted workspace, and a post-auth that erased the metadata.
* `TokenLifetime`, `EmailLifetime`, `EffectsPermitted`, `AppliedOnce`,
  `AnswersTrue` - gateway.  A 403 is the gateway's own, for a permission that was
  missing during the request, or the one that the workspace service gives for an
  invitation to another address.
* `FeedbackTrue`, `PanelIdMatches`, `BusyEnds` - cloud accounts page.
* `ResetConfirmed`, `DraftIsIntent` - policy page.  `SyncMessageTrue`,
  `RowsStable`, `DiffMaximal` (the diff against the longest common subsequence
  by definition) - resources page.
* `NeverConfirmed`, `KeyNamesAnswer`, `EngineOffered`, `SubmissionEnds` -
  clarification.  `RenderedValid`, `NavigationFinds`,
  `FilterOffered`, `SelectionOfProvider` - cards.
* `FormAsMeant`, `InvitesAsMeant`, `ConnectedIsVerified`, `SlugNormal`,
  `ClaimPerAttempt` - setup flow.  A creation whose claim is applied while its
  answer fails is repeated by Continue with another organization, so one visit may
  claim more than once: the property bounds the claims by the attempts.

Where a component or page has several invariants, its run checks their
conjunction: `WorkspacesInv`, `OnboardingInv`, `GatewayInv`, `PreflightEvidence`,
`DeliveryInv` (outbox and stream), `CloudPageInv`, `PolicyPageInv`,
`ResourcesPageInv`, `ClarifyPageInv`, `CardsInv`, `SetupInv`, `SseClientInv`.
`OnboardingProgress` and `WebProgress` join the liveness properties in the same
way.  Each is defined below its parts, and the parts keep their own comments.

Every checked property has a mutant: a small change of a modelled definition, of the
kind a bug would make, under which TLC finds it violated.

### Findings

1. **Account deletion** (`cloudaccount/service.go:844`).  The comment says that
   a run cannot be left without its account; a run that commits between the
   DELETE and its commit is.
2. **Last admin** (`workspace-service/main.go:1014`).  A test says that the last
   admin cannot be demoted.  The check counts the rows of a SELECT ... FOR UPDATE.
   When that statement waited for the only admin, who was removed meanwhile, it
   returns no row: the check passes with nothing locked, and the change is made
   later, when its target may have become the last admin again.  The attempt to
   prove `AdminRemains` led to it.
3. **Stream client** (`sse-client.ts:132`).  connect, disconnect, connect while
   the first token is awaited opens two sources; disconnect closes one.

The same window as in 1 exists for the removal of a member and the deletion of
a workspace (`main.go:949`, `:623`).

Met while modelling, without a run: the clarification widgets send no
`workspaceId`, so that all of their calls are refused, although `submit.ts:7`
says that they resume "the suspended run with the answers" and that "the retry
button resubmits safely"; the engine selector keeps its choice under a payload
that withdraws it, and Retry sends the engine that is no longer supported
(`database_engine_selector.tsx:138`, `:375`); the comparison of
`metadata.ts:27` tells null from undefined, so that the post-auth of a user
without a workspace writes null to the metadata, over the workspace that another
tab has just created, and the handoff of that tab lands on onboarding, which the
comment at `post-auth-handoff.tsx:79` means to rule out; a claim of the setup flow
that is applied and answered by an error is followed by a second organization and
claim (`onboarding-flow.tsx:970`, `claim/route.ts:33`); a single publisher does
not keep creation order although its comment says so
(`outbox-publisher.service.ts:34`: a rescheduled event is overtaken); every text
question of a run is submitted under one key (`runs.service.ts:260`); a lost
answer of a verification leaves the card pending until the page is reloaded
(`cloud-accounts/page.tsx:150`); a policy row writes old parameters back after a
reset (`policy-rule-row.tsx:41`); the setup flow's invitations, blueprint,
guardrails and connection never leave the browser, although the page says
"Invitation will be sent after setup" (`onboarding-flow.tsx`).

Hazards of parts that have no module yet: runs that keep failing fill the poll
of 20 (`runs.service.ts:331`); lock order around the audit chain
(`workspace-service/audit.go:37`); a failed attempt recorded behind a newer
success (`statebackend/store.go:232`); an older price written last
(`pricing/service.go:179`); the race for the next version
(`manifest/store.go:167`).  The plan takes them up.

### Fairness

* `RunLifecycle!Fairness`: `setInterval` keeps polling and every call has a
  timeout, so workers and the sweeper go on; the deadline passes.  Nothing is
  assumed of users, of late requests or of faults.
* `DeliveryFairness`: PostgreSQL executes statements and grants locks; the stream
  polls, the network delivers, the browser reconnects.  Writers of the stream may
  keep transactions open for ever.  Nothing is assumed of the outbox publishers:
  no code instantiates `OutboxPublisherService`, calls `publishNext` or implements
  `SseEventPublisher`, so that an event need never be settled.
* `Onboarding`: the web server goes on with every request (each call has a
  timeout), tabs take answers, a token that can be refreshed again and again is;
  `WizardRecovers` also assumes that a user whose form is locked keeps retrying.
* `WebFairness`: calls of a page are answered or time out, and a settled promise
  resumes its handler.  Users owe no step.
* `Gateway`: safety only.
* `SseClient`: a token promise settles, timers fire, open sources deliver.
  Errors are bounded (`MaxFails`), so they end.

## 4. Proofs

`RunLifecycleProofs` proves, for any sets of workers, requests, drafts, keys and
answers and any bounds, from `ConstantsAssumption` alone (None is no member of
the other sets, the policy modes are among the two the code knows, the bounds
are natural numbers):

* `TypeCorrect`: `Spec => []TypeOK`.  The invariant is inductive: `WorkerOK` and
  `ClientOK` add that a worker about to store holds a draft and that a request
  that carries answers holds them.  One lemma per kind of commit (`CommitAtType`,
  `CommitLastType`, `TouchAtType`), one case per action.
* `SnapshotsFresh`: `Spec => []FreshSnapshots`.  The argument is about steps, not
  about states: a step leaves the row alone or advances its version by one while
  the run is not terminal (`RunAdvances`); a process holds after its step the
  current row or what it already held (`Moved`, `Asked`).  Both are proved with
  the types, action by action; freshness follows because versions only grow and
  an unchanged version means an unchanged row (`StaysFresh`).
* `TerminalRunsFinal`: `Spec => TerminalIsFinal`, from `RunAdvances`, which rests
  on `GatesClosed`: the table has no way out of a terminal state.

Its second half goes on from there, with the same assumption:

* `TurnsStoreOnce` and `ShownManifestsStored`: `OneManifestPerTurn` and
  `ShownIsStored` always hold.  `ShownIsStored` is not inductive: it needs
  `ReadyIsStored`, that a worker with the store's reply holds a version under
  which the store has its draft.  Only `StoreDraft` makes a worker ready and only
  `CommitManifest` publishes (`WorkerQuiet`); the store appends and never edits
  (`StoreAppends`, `StoreAnswers`).
* `PlansHaveConsent`: `Spec => []PlanHasConsent`.  The invariant `ConsentInv` says
  that the active version was shown, that a plan has its evidence, and that a
  revision waiting to commit read a row without a plan.  The last part is where
  optimistic locking enters: a revision that clears a confirmation commits only
  on the row it read (`SnapshotsFresh`), so it never takes the consent from under
  a plan.

`RunContractProofs` rests on that.  Its centre is one list, `Writes`, of what a
step may do to the row: commit one of the updates of the handlers, or leave the
row alone.  Every action is shown to follow it (`WorkerWrites`, `ClientWrites`,
`OtherWrites`), together with `RequestsChecked`, that a request about to commit
has passed the checks of its handler.  Three results are read off the list:

* `FailsAtThirdStrike`: `Spec => []ThirdStrikeFails`.  The counter equals the
  invalid drafts recorded since the last revision, whoever commits in between,
  and the commit that records the third fails the run.
* `AnswersStay`: `Spec => []AnswersKept`, with the questions numbered in the
  order in which they were asked.
* `ContractKept`: `Spec => ImplementsContract`, the refinement.  The mapping
  reads the store at the versions of the row; that it does not change under a
  step needs that the store only grows (`StoreGrows`) and that the active
  version is the shown one (`ShownIsActive`, from the consent proofs).
  `StepsImplement` has one case per write.

`WorkspacesProofs` assumes that None is in none of the sets of constants, that
the founder and the users with runs are users and that the roles are the
code's.  The invariant says of each
open transaction what its locks protect at the statement it has come to
(`Local`: the row it has read is still so), and of every two that they do not
share a key or create one invitation (`Apart`).  `UsedOnce` is `WorkspacesInv`;
`AdminsGuarded` is `LastAdminGuarded`: whoever found an admin besides its target
holds the lock of that row until the commit.

`DeliveryProofs` begins with `Transitions`, and assumes nothing for it but types
of the bounds.  `TInv` follows two
locks: a call that has the row acts on a snapshot that is the row, a call that
has the chain and has read its end appends to that end, and no two calls have
one lock (`LocksApart`).  `Evident`, `Unforked` and `PreflightKept` are
`EvidenceComplete`, `ChainUnbroken` and `PreflightEvidence`.  The conditions a
caller holds are part of the invariant: a caller that may pass the gate behind
POLICY_LOADED leaves its evidence in the chain or the row.

Then come the other two parts of `Delivery`.  `OInv`: the deliveries
of an event and the publishers that are about to deliver it are no more than its
attempts; hence `SettledForGood` (`SettledIsFinal`) and the outbox half of
`Delivered` (`DeliveryInv`).  `SInv`: a transaction with a row of a workspace
holds the lock of its stream, so the row comes after all committed rows
(`TableOK`); the client has what was committed up to its last event, and the
wire what lies between that and the cursor (`FeedOK`).  It assumes that the
limit of a page is positive and that None is no writer and no number.

`ProvisioningProofs` assumes that Nothing differs from the other values and
that a caller's key is not the identity of a request without a key.  `AInv`: who
holds the slot of an account commits next and keeps the external id of a row
that is not pending (`CreationStored`, `ExternalIdKept`).  `RInv`: what a request
has found under its locks is still so (`Found`), and no two requests hold a lock
together (`KeyAnsweredOnce`, `DeletedStayIdle`).

`GatewayProofs` assumes that the lifetimes of the caches are positive, as
`parsePositiveInt` makes them, and that None is no address; and `Tick` lets no call
to Clerk take longer than `Latency`, whatever that is.  `GInv`: a token is
cached from before it expired and an address from no later than one call to
Clerk after it was the caller's (`CachesOK`); a call under way began while what
it was told was true (`Timely`); a live request that may pass, or may be refused,
has that recorded, and one behind the permission check was permitted
(`Recorded`); a 403 was recorded or is the service's to another address, of a request
that is not applied (`Answers`); a request is applied exactly when its key is taken
(`Keyed`).  A
step of one request leaves the others as they are (`OthersOK`), so each action
has one lemma about the request that moves.  `EffectsAllowed`, `AnswersHold` and
`GatewayKept` are `EffectsPermitted`, `AnswersTrue` and `GatewayInv`.

`OnboardingProofs` assumes that `None` is neither a form nor a request, that there
is a name to type, and the types of the bounds.  `Types` and `Served` say what is
well formed and that every request a tab waits for is one the web server has,
for that tab only.  On top of them stand two invariants:

* `Own`, for `TornSubmitIsRecoverable` (`TornSubmitRecoverable`): a key belongs to
  the wizard that drew it.  Whoever carries it (request, late call, workspace)
  carries the form of the wizard's first submission (`Matches`), and the wizard
  is locked on that form until an answer tells that nothing was applied
  (`Refusable`: then no call with the key is under way or late).
* `Session`, for `OnboardingIsSafe` (`OnboardingInv`): while no workspace is
  deleted and none is written out of the metadata (`Spared`), a handoff that
  navigates has seen one in metadata and token (`SettledTab`), and a request that
  reconciles the metadata with a workspace follows an answer of the backend
  (`SettledReq`); in any case every claim is of a workspace that the user was
  linked to (`Confirmed`).

`WebAppProofs` has one theorem for each page and one for the stream client.  A step
of one page is a stutter for the others, so each proof takes the actions of its
own part and lifts the result to `WebSpec`.  It assumes what the modules state
of their bounds, that None is neither a source nor a timer, and that "none" is no
policy pack.

* `StreamKept` (`SseClientInv`).  `EmittedInOrder` needs `Unskipped`: what comes next
  on the source of a client that is not stopped leaves out no event above the last id.
* `PolicyKept` (`PolicyPageInv`).  `Copied`: the copies that mounted rows hold are
  those of the draft, unless the pack was reset under them.  `Asked`: a pending
  confirmation is of the pack that is selected.
* `CloudKept` (`CloudPageInv`).  A call has the page to itself (`CallKept`), what was
  answered is so on the server (`AnswerKept`), and a load that follows a success
  reads the account as it is then (`LoadKept`), as long as nobody else changes it.
* `CallsKept` (`ClarifyPageInv`).  Keys of different engines differ
  (`KeysDiffer`); every call of a widget is one of its own (`Own`): of a question,
  with the answer that Retry repeats, or of an engine that a payload has offered
  with its version (`SentKept`), whatever payload is in view by then.
* `CardsKept` (`CardsInv`).
* `SyncMessageKept` and `SetupKept` state the parts of `ResourcesPageInv` and
  `SetupInv` that are not about folds over a sequence.  `SetupClaim` is what
  `ClaimPerAttempt` needs: every organization belongs to an attempt and every
  claim, the late ones included, to an organization; the flow says that the
  workspace is created only after a claim, and only then are the later steps
  reached.

What the proof attempts found, besides finding 2:

* an invitation that is created needs an id of its own, which `Workspaces` did not
  ask for;
* with a lifetime of 0 `EmailLifetime` is false, so that `Gateway` now states the
  lifetimes to be positive;
* `Valid` of `Gateway`, `AfterProbe` of `Onboarding` and `Fetched` of `ResourcesPage`
  had been CASEs with overlapping arms, which TLC reads in order and TLA+ does
  not, and have disjoint ones now;
* `SseClient` let `connect` follow any stop.  `EmittedInOrder` is false then with a
  third connect, which the bound of the run hid: connect, disconnect, connect
  with a token that comes and another that is missing leaves the client stopped
  with its source open; events are dropped, and a later connect without a
  disconnect keeps that source and goes on behind them.  The class allows the call
  (`sse-client.ts:134` asks for one); the program has no caller that makes it, as
  `useSSE` disconnects first, and the model now follows the hook.

Only model-checked:

* liveness, which is out of the prover's reach (`PendingServed`, `QuestionsResolved`,
  `CallsEnd`, `EventuallyReceived`, `OnboardingProgress`,
  `WebProgress`);
* what folds over a sequence compute, which needs an induction over data:
  `InvitesAsMeant` and `SlugNormal` of `SetupInv` (`SelectSeq`, `FoldLeft`),
  `RowsStable` and `DiffMaximal` of `ResourcesPageInv` (`SortSeq`, the table of a
  longest common subsequence).

## 5. Not modelled

Of the gateway, controllers that forward one request in the way of those that
are modelled.  Of the web application, what keeps no state across events:
landing page, icons, layout, the shell around the pages, and the mock data.  The
Terraform renderer is formatting.  MCP servers are thin tools over the services.
Stub services do nothing yet; packages are schemas and generated code;
`archive/` is not built.  Within modelled parts: wording and layout of answers,
encryption, the verification of signatures, metrics.  `handleApprovalEvent` has
no caller outside of tests.  The workflow transition service, the
policy pre-flight and the outbox publisher have none either; they are modelled
with callers that follow their interfaces.

The setup flow's environment, region and budget fields are set and shown in the
way of the blueprint and are left out of `SetupFlow`.

## 6. Plan

Done: run lifecycle with contract, first proofs and consent proofs, transitions,
pre-flight and audit chain, outbox, both ends of the event stream, workspaces,
cloud accounts, run intake, gateway, onboarding, the pages of the web application.

Next, in this order:

1. `StateBackend`: attempts, failures recorded behind newer successes;
   `CapabilityCache`: refresh against deletion.
2. `ManifestStore`: drafts and the version race; composed with `RunLifecycle`'s
   store as the abstract one.
3. `TransactionLocks`: the lock orders of the Go services around the audit chain
   and the workspace row.
4. `PolicyRules` and `ApprovalRules`: evaluation as operators against a
   reference definition over bounded inputs.
5. `AgentSession`: clarification rounds and drafts inside the agent.
6. `WorkQueue`: several runs in the poll of 20; `PricingCache`.

Proofs: with each of these modules its safety invariants.  Of what is modelled,
only the folds named in section 4 have no proof.
