------------------------------ MODULE SetupFlow -----------------------------
(***************************************************************************)
(* The six-step setup flow (components/onboarding/onboarding-flow.tsx) on  *)
(* its own: the form that all steps share, the steps as the user moves     *)
(* over them, and createWorkspace with its three awaits at Clerk and the   *)
(* web server.  What follows its end (the claim, the token, the handoff)   *)
(* is the module Onboarding.                                               *)
(*                                                                         *)
(* Without Clerk keys the flow is a preview: it has no user and creates    *)
(* nothing.  Text is a sequence of letters "a" and blanks "_"; every other *)
(* character that a slug does not take is treated as the blank is.         *)
(***************************************************************************)
EXTENDS Naturals, Sequences, FiniteSets, SequencesExt

CONSTANTS SlugMax,       \* 48 in the code
          SetupEdits,    \* bound: edits, invitations, sign-ins and session ends
          SetupFails     \* bound: creations that fail

ASSUME SetupAssumption == {SlugMax, SetupEdits, SetupFails} \subseteq Nat

VARIABLES setup,      \* the component: step, form, isCreating, workspaceCreated, error
          clerk,      \* the user, organizations made and claimed, the creation under way
          setupHist   \* bounds, and what the user has asked for

setupVars == <<setup, clerk, setupHist>>

\* What is typed into a field; and, made of the name of the user, the name of
\* the workspace ("Ada's workspace") and the text of its slug ("Ada-workspace").
Texts == { <<>>, <<"_", "_">>, <<"a", "_", "_", "a">>, <<"a", "a", "a", "_", "a">> }
UsersWorkspace == <<"a", "_", "a", "_", "a">>
UsersSlug      == <<"a", "_", "a">>

\* trim() of blanks, and the same for the dashes at both ends.
Trim(v, dropped) ==
  LET kept == { i \in DOMAIN v : v[i] # dropped }
  IN  IF kept = {} THEN <<>>
      ELSE SubSeq(v, CHOOSE i \in kept : \A j \in kept : i <= j,
                     CHOOSE i \in kept : \A j \in kept : j <= i)

\* replace(/[^a-z0-9]+/g, "-"): a run of other characters becomes one dash.
Dashed(v) ==
  FoldLeft(LAMBDA s, c : IF c = "a" THEN Append(s, c)
                         ELSE IF s # <<>> /\ Last(s) = "-" THEN s ELSE Append(s, "-"),
           <<>>, v)

\* The dashes at the ends go before the slug is cut to its length.
normalizeSlug(v) ==
  LET s == Trim(Dashed(Trim(v, "_")), "-")
  IN  SubSeq(s, 1, IF Len(s) < SlugMax THEN Len(s) ELSE SlugMax)

-----------------------------------------------------------------------------
Settings == {"requireEncryption", "productionApproval", "blockPublicStorage"}
Blueprints == {"secure-baseline", "startup-velocity", "regulated-production"}
CloudNames == {"aws", "azure", "gcp"}

\* initialState.  defaultEnvironment, defaultRegion and budget are set and
\* shown the way the blueprint is, and left out.
initialState(known) ==
  [name |-> IF known THEN UsersWorkspace ELSE <<>>,
   slug |-> IF known THEN normalizeSlug(UsersSlug) ELSE <<>>, invites |-> <<>>,
   blueprint |-> "secure-baseline", settings |-> Settings,
   provider |-> "aws", connection |-> "idle"]

\* The effect that runs when the name of the user becomes known.
Prefill(form) ==
  IF form.name # <<>> \/ form.slug # <<>> THEN form
  ELSE [form EXCEPT !.name = UsersWorkspace, !.slug = normalizeSlug(UsersSlug)]

SetupSpend == setupHist.edits + setupHist.added < SetupEdits

\* Clerk has loaded, or the user signs in; a user may have no name.
SetupSignIn ==
  /\ clerk.enabled /\ ~clerk.signedIn /\ SetupSpend
  /\ \E named \in BOOLEAN :
       setup' = IF named THEN [setup EXCEPT !.form = Prefill(@)] ELSE setup
  /\ clerk' = [clerk EXCEPT !.signedIn = TRUE]
  /\ setupHist' = [setupHist EXCEPT !.edits = @ + 1]

\* The session ends, in this tab or in another.
SetupSignOut ==
  /\ clerk.enabled /\ clerk.signedIn /\ SetupSpend
  /\ clerk' = [clerk EXCEPT !.signedIn = FALSE]
  /\ setupHist' = [setupHist EXCEPT !.edits = @ + 1]
  /\ UNCHANGED setup

-----------------------------------------------------------------------------
(* The steps.  The fields stay enabled while the organization is created.  *)

\* updateState: the form and the error change together.
updateState(step, form, meant) ==
  /\ setup.step = step
  /\ setup' = [setup EXCEPT !.form = form, !.error = FALSE]
  /\ setupHist' = [setupHist EXCEPT !.edits = @ + 1, !.meant = meant]
  /\ SetupSpend /\ UNCHANGED clerk

\* The name sets the slug, too.
TypeName ==
  \E v \in Texts : LET s == normalizeSlug(v) IN
    updateState(1, [setup.form EXCEPT !.name = v, !.slug = s],
                   [setupHist.meant EXCEPT !.name = v, !.slug = s])

TypeSlug ==
  \E v \in Texts : LET s == normalizeSlug(v) IN
    updateState(1, [setup.form EXCEPT !.slug = s], [setupHist.meant EXCEPT !.slug = s])

ChooseBlueprint ==
  \E b \in Blueprints \ {setup.form.blueprint} :
    updateState(3, [setup.form EXCEPT !.blueprint = b], setupHist.meant)

\* A checkbox replaces the object of all three.
ToggleSetting ==
  \E k \in Settings :
    LET Flip(S) == IF k \in S THEN S \ {k} ELSE S \cup {k}
    IN  updateState(3, [setup.form EXCEPT !.settings = Flip(@)],
                       [setupHist.meant EXCEPT !.settings = Flip(@)])

\* Another provider starts its connection from the beginning.
ChooseProvider ==
  \E p \in CloudNames \ {setup.form.provider} :
    updateState(4, [setup.form EXCEPT !.provider = p, !.connection = "idle"], setupHist.meant)

\* "Start guided setup" and "Verify connection"; no service is asked.
GuideConnection ==
  /\ setup.form.connection = "idle"
  /\ updateState(4, [setup.form EXCEPT !.connection = "guidance"], setupHist.meant)

VerifyConnection ==
  /\ setup.form.connection = "guidance"
  /\ updateState(4, [setup.form EXCEPT !.connection = "connected"],
                    [setupHist.meant EXCEPT !.verified = setup.form.provider])

\* Date.now(): clicks of a user are further apart than the clock's ticks.
Now == setupHist.added + 1

\* Mutant of addInvite: a row is named by its place.
addInviteByPlace ==
  /\ setup.step = 2 /\ SetupSpend
  /\ setup' = [setup EXCEPT !.error = FALSE,
                 !.form.invites = Append(@, [id |-> Len(@), email |-> Now])]
  /\ setupHist' = [setupHist EXCEPT !.added = @ + 1, !.meant.invites = Append(@, Now)]
  /\ UNCHANGED clerk

\* The email is one with an "@"; here it is the moment it was added.
addInvite ==
  /\ setup.step = 2 /\ SetupSpend
  /\ setup' = [setup EXCEPT !.error = FALSE,
                 !.form.invites = Append(@, [id |-> Now, email |-> Now])]
  /\ setupHist' = [setupHist EXCEPT !.added = @ + 1, !.meant.invites = Append(@, Now)]
  /\ UNCHANGED clerk

\* The cross of the i-th row: the rows that do not have its id stay.
RemoveInvite ==
  /\ setup.step = 2
  /\ \E i \in DOMAIN setup.form.invites :
       /\ setup' = [setup EXCEPT !.error = FALSE,
                      !.form.invites = SelectSeq(@, LAMBDA r : r.id # setup.form.invites[i].id)]
       /\ setupHist' = [setupHist EXCEPT !.meant.invites =
                          SelectSeq(@, LAMBDA e : e # setup.form.invites[i].email)]
  /\ UNCHANGED clerk

-----------------------------------------------------------------------------
(* Moving on, and the creation of the workspace.                           *)

\* The dots of the steps before this one, and Back.
SelectStep ==
  /\ \E i \in 0..(setup.step - 1) : setup' = [setup EXCEPT !.step = i]
  /\ UNCHANGED <<clerk, setupHist>>

SetupCanContinue ==
  CASE setup.step = 0 -> clerk.enabled => clerk.signedIn
    [] setup.step = 1 -> Len(Trim(setup.form.name, "_")) >= 2 /\ Len(setup.form.slug) >= 2
    [] OTHER -> TRUE

Creates == setup.step = 1 /\ clerk.enabled /\ ~setup.created

\* The button is disabled while a creation is under way, on every step.
continueFlow ==
  /\ setup.step < 5 /\ SetupCanContinue /\ ~setup.creating
  /\ IF Creates
     THEN /\ setup' = [setup EXCEPT !.creating = TRUE, !.error = FALSE]
          /\ clerk' = [clerk EXCEPT !.call = "create"]
     ELSE setup' = [setup EXCEPT !.step = @ + 1] /\ UNCHANGED clerk
  /\ UNCHANGED setupHist

\* createOrganization, setActive, and the claim of its id.
SetupAwait ==
  \/ clerk.call = "create"   /\ clerk' = [clerk EXCEPT !.orgs = @ + 1, !.call = "activate"]
  \/ clerk.call = "activate" /\ clerk' = [clerk EXCEPT !.call = "claim"]
  \/ clerk.call = "claim"    /\ clerk' = [clerk EXCEPT !.claimed = @ + 1, !.call = "created"]

CreateWorkspaceStep == SetupAwait /\ UNCHANGED <<setup, setupHist>>

\* The step advances from where the user is by then.
CreateWorkspaceReturns ==
  /\ clerk.call = "created"
  /\ setup' = [setup EXCEPT !.creating = FALSE, !.created = TRUE,
                            !.step = IF @ < 5 THEN @ + 1 ELSE 5]
  /\ clerk' = [clerk EXCEPT !.call = "none"]
  /\ UNCHANGED setupHist

\* Clerk has not loaded, refuses or cannot be reached, or the claim fails; or
\* it is an answer that is lost, and what it answers was done: the organization
\* exists, the claim was applied before its route answered 500, or it is applied
\* after the browser has given it up.
Failing ==
  \/ clerk.call \in {"create", "activate", "claim"} /\ clerk' = [clerk EXCEPT !.call = "none"]
  \/ clerk.call = "create" /\ clerk' = [clerk EXCEPT !.orgs = @ + 1, !.call = "none"]
  \/ clerk.call = "claim"  /\ clerk' = [clerk EXCEPT !.claimed = @ + 1, !.call = "none"]
  \/ clerk.call = "claim"  /\ clerk' = [clerk EXCEPT !.late = @ + 1, !.call = "none"]

\* Whatever was done, the workspace is not created for the flow, and Continue
\* creates and claims another.
CreateWorkspaceThrows ==
  /\ Failing /\ setupHist.fails < SetupFails
  /\ setup' = [setup EXCEPT !.creating = FALSE, !.error = TRUE]
  /\ setupHist' = [setupHist EXCEPT !.fails = @ + 1]

ClaimedLate ==
  /\ clerk.late > 0 /\ clerk' = [clerk EXCEPT !.claimed = @ + 1, !.late = @ - 1]
  /\ UNCHANGED <<setup, setupHist>>

\* "Open dashboard": the page is left.
OpenDashboard ==
  /\ setup.step = 5 /\ setup.created /\ ~setup.creating /\ ~setup.opened
  /\ setup' = [setup EXCEPT !.opened = TRUE]
  /\ UNCHANGED <<clerk, setupHist>>

-----------------------------------------------------------------------------
\* Clerk's user may be known when the flow mounts, or not be signed in.
SetupOpened(enabled, known) ==
  /\ setup = [step |-> 0, form |-> initialState(known), creating |-> FALSE,
              created |-> FALSE, error |-> FALSE, opened |-> FALSE]
  /\ clerk = [enabled |-> enabled, signedIn |-> known, orgs |-> 0, claimed |-> 0,
              late |-> 0, call |-> "none"]
  /\ setupHist = [edits |-> 0, added |-> 0, fails |-> 0,
                  meant |-> [name |-> <<>>, slug |-> <<>>, settings |-> Settings,
                             invites |-> <<>>, verified |-> "none"]]

SetupInit ==
  \/ \E known \in BOOLEAN : SetupOpened(TRUE, known)
  \/ SetupOpened(FALSE, FALSE)

SetupNext ==
  /\ ~setup.opened
  /\ \/ SetupSignIn \/ SetupSignOut
     \/ TypeName \/ TypeSlug \/ ChooseBlueprint \/ ToggleSetting
     \/ ChooseProvider \/ GuideConnection \/ VerifyConnection
     \/ addInvite \/ RemoveInvite
     \/ SelectStep \/ continueFlow \/ CreateWorkspaceThrows \/ OpenDashboard
     \/ CreateWorkspaceStep \/ CreateWorkspaceReturns \/ ClaimedLate

SetupTypeOK ==
  /\ setup.step \in 0..5 /\ setup.form.blueprint \in Blueprints
  /\ setup.form.settings \subseteq Settings
  /\ setup.form.connection \in {"idle", "guidance", "connected"}
  /\ clerk.call \in {"none", "create", "activate", "claim", "created"}
  /\ setup.creating <=> clerk.call # "none"

-----------------------------------------------------------------------------
(* Properties                                                              *)

\* What the form holds is what the user last asked for, field by field: the
\* prefill that follows a late sign-in overwrites nothing that was typed (a
\* name may stand beside an empty slug), and a checkbox changes no other.
FormAsMeant ==
  /\ setupHist.meant.name # <<>> => setup.form.name = setupHist.meant.name
  /\ setupHist.meant.slug # <<>> => setup.form.slug = setupHist.meant.slug
  /\ setup.form.settings = setupHist.meant.settings

\* The list of invitations is the one the user made: the cross removes the row
\* it belongs to and no other, in every order of additions and removals.
InvitesAsMeant ==
  [i \in DOMAIN setup.form.invites |-> setup.form.invites[i].email] = setupHist.meant.invites

\* "Connected" and "Delegated access verified" are said of the provider that
\* the user has verified, over changes of the provider and returns to the step.
ConnectedIsVerified ==
  setup.form.connection = "connected" => setup.form.provider = setupHist.meant.verified

\* A slug has single dashes between its letters, at most SlugMax characters,
\* and a dash at its end only where it was cut.
SlugNormal ==
  LET s == setup.form.slug IN
  /\ Len(s) <= SlugMax
  /\ s # <<>> => s[1] # "-" /\ (Last(s) = "-" => Len(s) = SlugMax)
  /\ \A i \in 1..(Len(s) - 1) : s[i] # "-" \/ s[i + 1] # "-"

\* One attempt makes at most one organization and claims it at most once, and
\* another attempt is made only after one that failed: although the user may go
\* back while the workspace is created or later, and continue again, a flow
\* that sees no failure claims one workspace, and claims more only for answers
\* that were lost.  The steps behind the workspace's and the dashboard are
\* reached only after a claim.
ClaimPerAttempt ==
  LET attempts == setupHist.fails + IF setup.creating \/ setup.created THEN 1 ELSE 0
  IN  /\ clerk.claimed + clerk.late <= clerk.orgs /\ clerk.orgs <= attempts
      /\ (clerk.enabled /\ setup.step > 1) \/ setup.opened => clerk.claimed >= 1

\* The flow holds what the user asked for and creates one workspace an attempt.
SetupInv ==
  /\ SetupTypeOK /\ FormAsMeant /\ InvitesAsMeant /\ ConnectedIsVerified
  /\ SlugNormal /\ ClaimPerAttempt
=============================================================================
