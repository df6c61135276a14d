------------------------------- MODULE WebApp -------------------------------
(***************************************************************************)
(* The web application: a browser has one page open, and what it shows are *)
(* the components below.  They share no state in the browser, so a         *)
(* behaviour is one of the page that is open; the servers behind the pages *)
(* are parts of the page modules.                                          *)
(***************************************************************************)
EXTENDS CloudPage, PolicyPage, ResourcesPage, ClarifyPage, ManifestCards, SetupFlow,
        SseClient

VARIABLE page

webVars == <<page, cloudVars, policyVars, resourcesVars, clarifyVars, cardVars, setupVars, vars>>

\* A page that is not open has not been rendered: it is in one initial state.
WebInit ==
  /\ page \in {"cloud-accounts", "policy", "resources", "clarification", "chat", "setup", "run"}
  /\ CloudInit     /\ (page # "cloud-accounts" => cloud = Opened(FALSE, FALSE))
  /\ PolicyInit    /\ (page # "policy" => ~policy.admin)
  /\ ResourcesInit /\ (page # "resources" => dash.scenario = "empty")
  /\ ClarifyInit   /\ (page # "clarification" => ask = NewWidget)
  /\ CardInit      /\ (page # "chat" => card.migrate = "none")
  /\ SetupInit     /\ (page # "setup" => ~clerk.enabled)
  /\ Init

\* The page that is open takes a step, and the others do not exist.
On(p, A) ==
  /\ page = p /\ A /\ UNCHANGED page
  /\ p # "cloud-accounts" => UNCHANGED cloudVars
  /\ p # "policy"         => UNCHANGED policyVars
  /\ p # "resources"      => UNCHANGED resourcesVars
  /\ p # "clarification"  => UNCHANGED clarifyVars
  /\ p # "chat"           => UNCHANGED cardVars
  /\ p # "setup"          => UNCHANGED setupVars
  /\ p # "run"            => UNCHANGED vars

WebNext ==
  \/ On("cloud-accounts", CloudNext)
  \/ On("policy", PolicyNext)
  \/ On("resources", ResourcesNext)
  \/ On("clarification", ClarifyNext)
  \/ On("chat", CardNext)
  \/ On("setup", SetupNext)
  \/ On("run", Next)

\* Calls are answered or time out, and promises that have settled resume their
\* handlers.  The user owes no step.
WebFairness ==
  /\ WF_webVars(On("cloud-accounts", CloudReplies))
  /\ WF_webVars(On("clarification", ClarifyReplies))
  /\ Fairness

WebSpec == WebInit /\ [][WebNext]_webVars /\ WebFairness

\* Every call ends for the page that made it, whatever is answered or lost: the
\* cloud page becomes usable, a submission settles, and the stream catches up.
WebProgress == BusyEnds /\ SubmissionEnds /\ CaughtUp
=============================================================================
