------------------------------ MODULE CloudPage -----------------------------
(***************************************************************************)
(* The cloud accounts page (frontend/app/workspace/cloud-accounts), with   *)
(* its provider card, its AWS panel and the Next.js routes that forward    *)
(* its calls.  The service behind them is the module CloudAccounts; here   *)
(* it is the row of the workspace's AWS slot, changed by one atomic step   *)
(* per call, and AWS is the external id the customer's stack trusts.       *)
(*                                                                         *)
(* A handler runs to its next await without interruption, and the buttons  *)
(* it disabled stay disabled until it returns.  Another admin, and a call  *)
(* the page was told had failed, may change the row at any moment.         *)
(***************************************************************************)
EXTENDS Naturals

CONSTANTS CloudIds,     \* bound: external ids generated and rows inserted
          CloudFaults   \* bound: answers lost, and changes made by another admin

ASSUME CloudPageAssumption == CloudIds \in Nat /\ CloudFaults \in Nat

VARIABLES cloud,    \* the page
          aws,      \* the server's row, the customer's stack, a call applied late,
                    \* and whether another changed the row since the page was opened
          cloudHist \* bounds: ids drawn, rows inserted, faults

cloudVars == <<cloud, aws, cloudHist>>

\* No account, no external id (the empty string), no answer yet.
NoRow == [id |-> 0, status |-> "none", hash |-> 0]
Idle  == [op |-> "idle", id |-> 0, ext |-> 0, reply |-> "none"]
Unread == [list |-> NoRow, listed |-> FALSE, caps |-> 0, described |-> FALSE]

CloudRow == [id: 0..CloudIds, status: {"none", "pending", "active", "failed"},
             hash: 0..CloudIds + 1]

\* Another admin submits the external id that this page never generates.
Foreign == CloudIds + 1

-----------------------------------------------------------------------------
(* load: the list and the capabilities are read by two requests.           *)

Loading(p) == [p EXCEPT !.view = "loading", !.load = Unread]

ListRead ==
  /\ cloud.view = "loading" /\ ~cloud.load.listed
  /\ cloud' = [cloud EXCEPT !.load.list = aws.row, !.load.listed = TRUE]
  /\ UNCHANGED <<aws, cloudHist>>

\* The capabilities of an active account, or none.
CapabilitiesRead ==
  /\ cloud.view = "loading" /\ ~cloud.load.described
  /\ cloud' = [cloud EXCEPT !.load.described = TRUE,
                            !.load.caps = IF aws.row.status = "active" THEN aws.row.id ELSE 0]
  /\ UNCHANGED <<aws, cloudHist>>

\* finally { setBusy(false) } of the handler that awaits the load, if one does.
Released(p) == [p EXCEPT !.busy = FALSE, !.call = Idle]

Loaded ==
  /\ cloud.view = "loading" /\ cloud.load.listed /\ cloud.load.described
  /\ cloud' = Released([cloud EXCEPT !.view = "ready", !.shown = cloud.load.list,
                                     !.caps = cloud.load.caps, !.load = Unread])
  /\ UNCHANGED <<aws, cloudHist>>

CloudFault == cloudHist.faults < CloudFaults

\* Either request fails, or the session has no workspace.
LoadFails ==
  /\ cloud.view = "loading" /\ CloudFault
  /\ cloud' = Released([cloud EXCEPT !.view = "error", !.load = Unread])
  /\ cloudHist' = [cloudHist EXCEPT !.faults = @ + 1]
  /\ UNCHANGED aws

RetryLoad ==
  /\ cloud.view = "error"
  /\ cloud' = Loading(cloud)
  /\ UNCHANGED <<aws, cloudHist>>

-----------------------------------------------------------------------------
(* The panel.                                                              *)

cardStateFor == IF cloud.shown = NoRow THEN "not_connected" ELSE cloud.shown.status

PanelShown == cloud.open /\ cloud.view = "ready"

\* Mutant of openVerify: the panel keeps the external id it had.
openVerifyKept(p) == [p EXCEPT !.typed = FALSE, !.open = TRUE]

\* An existing account: the user has to enter the id of the stack.
openVerify(p) == [p EXCEPT !.ext = 0, !.typed = FALSE, !.open = TRUE]

openConnect(p) ==
  IF p.shown # NoRow
  THEN cloud' = openVerify(p) /\ UNCHANGED cloudHist
  ELSE /\ cloudHist.drawn < CloudIds
       /\ cloudHist' = [cloudHist EXCEPT !.drawn = @ + 1]
       /\ cloud' = [p EXCEPT !.ext = cloudHist.drawn + 1, !.typed = FALSE, !.open = TRUE]

\* "Connect AWS" of the header and "Connect account" of the card.
Connect ==
  /\ cloud.view = "ready" /\ ~cloud.busy /\ ~cloud.auto
  /\ openConnect(cloud)
  /\ UNCHANGED aws

\* The one-shot effect behind ?connect=aws; it runs before the user can act.
AutoConnect ==
  /\ cloud.view = "ready" /\ cloud.auto
  /\ openConnect([cloud EXCEPT !.auto = FALSE])
  /\ UNCHANGED aws

\* "Verify connection" and "Retry verification" of the card.
OpenVerify ==
  /\ cloud.view = "ready" /\ ~cloud.busy /\ ~cloud.auto
  /\ cardStateFor \in {"pending", "failed"}
  /\ cloud' = openVerify(cloud)
  /\ UNCHANGED <<aws, cloudHist>>

\* The input of the existing account; any id that was ever generated.
TypeExternalId ==
  /\ PanelShown /\ cloud.shown # NoRow /\ ~cloud.busy
  /\ \E e \in 1..cloudHist.drawn :
       e # cloud.ext /\ cloud' = [cloud EXCEPT !.ext = e, !.typed = TRUE]
  /\ UNCHANGED <<aws, cloudHist>>

Cancel ==
  /\ PanelShown /\ ~cloud.busy
  /\ cloud' = [cloud EXCEPT !.open = FALSE]
  /\ UNCHANGED <<aws, cloudHist>>

\* buildCloudFormationTemplate and the customer's console: the template of the
\* panel is deployed, with the external id the panel shows.
DeployStack ==
  /\ PanelShown /\ cloud.shown = NoRow /\ cloud.configured
  /\ cloud.ext \notin {0, aws.stack}
  /\ aws' = [aws EXCEPT !.stack = cloud.ext]
  /\ UNCHANGED <<cloud, cloudHist>>

\* A label and a role that are valid have been entered where they are asked for.
canVerify ==
  /\ cloud.ext # 0 /\ ~cloud.busy
  /\ cloud.shown # NoRow \/ cloud.configured

-----------------------------------------------------------------------------
(* handleVerify and handleDelete up to each await.                         *)

Calling(op, id, ext) == [op |-> op, id |-> id, ext |-> ext, reply |-> "none"]

\* The bound on the rows, with those that calls under way may insert.
MayInsert ==
  LET Inserts(c) == IF c.op = "create" THEN 1 ELSE 0
  IN  cloudHist.rows + Inserts(cloud.call) + Inserts(aws.late) < CloudIds

\* awsAccount is the one the render had: without it the account is created.
handleVerify ==
  /\ PanelShown /\ canVerify /\ ~cloud.auto
  /\ cloud.shown = NoRow => MayInsert
  /\ cloud' = [cloud EXCEPT !.busy = TRUE,
                 !.call = Calling(IF cloud.shown = NoRow THEN "create" ELSE "verify",
                                  cloud.shown.id, cloud.ext)]
  /\ UNCHANGED <<aws, cloudHist>>

\* Created: the account joins the list, and the same external id is verified.
CreateReturns ==
  /\ cloud.call.op = "create" /\ cloud.call.reply = "ok"
  /\ cloud' = [cloud EXCEPT !.call = Calling("verify", cloud.call.id, cloud.call.ext),
                            !.shown = [id |-> cloud.call.id, status |-> "pending",
                                       hash |-> cloud.call.ext]]
  /\ UNCHANGED <<aws, cloudHist>>

VerifyReturns ==
  /\ cloud.call.op = "verify" /\ cloud.call.reply = "ok"
  /\ cloud' = Loading([cloud EXCEPT !.open = FALSE, !.feedback = "verified", !.call = Idle])
  /\ UNCHANGED <<aws, cloudHist>>

\* The error goes to the panel, where it is only shown, or to the feedback of
\* a deletion.
CallFails ==
  /\ cloud.call.reply = "error"
  /\ cloud' = Released([cloud EXCEPT !.feedback = IF cloud.call.op = "delete" THEN "error" ELSE @])
  /\ UNCHANGED <<aws, cloudHist>>

handleDelete ==
  /\ cloud.view = "ready" /\ ~cloud.busy /\ ~cloud.auto /\ cloud.shown # NoRow
  /\ cloud' = [cloud EXCEPT !.busy = TRUE, !.feedback = "none",
                            !.call = Calling("delete", cloud.shown.id, 0)]
  /\ UNCHANGED <<aws, cloudHist>>

DeleteReturns ==
  /\ cloud.call.op = "delete" /\ cloud.call.reply = "ok"
  /\ cloud' = Loading([cloud EXCEPT !.feedback = "removed", !.call = Idle])
  /\ UNCHANGED <<aws, cloudHist>>

DismissFeedback ==
  /\ cloud.feedback # "none"
  /\ cloud' = [cloud EXCEPT !.feedback = "none"]
  /\ UNCHANGED <<aws, cloudHist>>

-----------------------------------------------------------------------------
(* The service and AWS.                                                    *)

\* The row after a call, and its answer.  Without a token, or in a session
\* without a workspace, a route forwards nothing.
NoWorkspace == {<<aws.row, "error">>}

\* A pending slot is submitted again.
Create(c) ==
  CASE aws.row = NoRow ->
         {<<[id |-> cloudHist.rows + 1, status |-> "pending", hash |-> c.ext], "ok">>}
    [] aws.row.status = "pending" -> {<<[aws.row EXCEPT !.hash = c.ext], "ok">>}
    [] OTHER -> {}

\* The external id is compared with the hash, and AWS asked, which trusts the
\* external id of the stack.
Verify(c) ==
  IF aws.row.id # c.id \/ aws.row.status \notin {"pending", "failed"} THEN {}
  ELSE {<<[aws.row EXCEPT !.status = "failed"], "error">>}
         \cup IF c.ext = aws.row.hash /\ c.ext = aws.stack
              THEN {<<[aws.row EXCEPT !.status = "active"], "ok">>} ELSE {}

\* Refused while runs are active.
Delete(c) ==
  IF aws.row = NoRow \/ aws.row.id # c.id THEN {} ELSE {<<NoRow, "ok">>}

Answer(c) ==
  NoWorkspace \cup (CASE c.op = "create" -> Create(c)
                      [] c.op = "verify" -> Verify(c)
                      [] OTHER           -> Delete(c))

Rows(row) == IF row.id > cloudHist.rows THEN row.id ELSE cloudHist.rows

Applied ==
  /\ cloud.call.op # "idle" /\ cloud.call.reply = "none"
  /\ \E a \in Answer(cloud.call) :
       /\ aws' = [aws EXCEPT !.row = a[1]]
       /\ cloud' = [cloud EXCEPT !.call.reply = a[2],
                                 !.call.id = IF cloud.call.op = "create" THEN a[1].id ELSE @]
       /\ cloudHist' = [cloudHist EXCEPT !.rows = Rows(a[1])]

\* The answer is lost; a call that was not applied may still be, later.
Lost ==
  /\ cloud.call.op # "idle" /\ cloud.call.reply # "error" /\ CloudFault
  /\ aws' = [aws EXCEPT !.late = IF cloud.call.reply = "none" THEN cloud.call ELSE @]
  /\ cloud' = [cloud EXCEPT !.call.reply = "error"]
  /\ cloudHist' = [cloudHist EXCEPT !.faults = @ + 1]

AppliedLate ==
  /\ aws.late.op # "idle"
  /\ \E a \in Answer(aws.late) :
       /\ aws' = [aws EXCEPT !.row = a[1], !.late = Idle, !.touched = TRUE]
       /\ cloudHist' = [cloudHist EXCEPT !.rows = Rows(a[1])]
  /\ UNCHANGED cloud

\* Another admin connects an account of his own, or removes the one there is.
OtherAdmin ==
  /\ CloudFault
  /\ \E op \in {"create", "delete"} :
       \E a \in Answer([op |-> op, id |-> aws.row.id, ext |-> Foreign, reply |-> "none"]) :
         /\ a[2] = "ok" /\ (op = "create" => MayInsert)
         /\ aws' = [aws EXCEPT !.row = a[1], !.touched = TRUE]
         /\ cloudHist' = [cloudHist EXCEPT !.rows = Rows(a[1]), !.faults = @ + 1]
  /\ UNCHANGED cloud

-----------------------------------------------------------------------------
\* The page as it is opened, its first load on the way: with ?connect=aws or
\* without, where the platform's AWS account is configured or is not.
Opened(auto, configured) ==
  [view |-> "loading", load |-> Unread, shown |-> NoRow, caps |-> 0,
   open |-> FALSE, ext |-> 0, typed |-> FALSE,
   busy |-> FALSE, feedback |-> "none", call |-> Idle,
   auto |-> auto, configured |-> configured]

\* The browser loads the page again, by ?connect=aws or without it; a call on
\* its way may still be applied.
Reload ==
  /\ \E auto \in BOOLEAN : cloud' = Opened(auto, cloud.configured)
  /\ aws' = [aws EXCEPT !.touched = FALSE,
                         !.late = IF cloud.call.op # "idle" /\ cloud.call.reply = "none"
                                  THEN cloud.call ELSE @]
  /\ UNCHANGED cloudHist

CloudInit ==
  /\ \E auto, configured \in BOOLEAN : cloud = Opened(auto, configured)
  /\ aws = [row |-> NoRow, stack |-> 0, late |-> Idle, touched |-> FALSE]
  /\ cloudHist = [drawn |-> 0, rows |-> 0, faults |-> 0]

CloudReplies ==
  \/ ListRead \/ CapabilitiesRead \/ Loaded \/ Applied
  \/ CreateReturns \/ VerifyReturns \/ DeleteReturns \/ CallFails

CloudNext ==
  \/ CloudReplies \/ LoadFails \/ RetryLoad \/ Lost
  \/ Connect \/ AutoConnect \/ OpenVerify \/ TypeExternalId \/ Cancel \/ DeployStack
  \/ handleVerify \/ handleDelete \/ DismissFeedback
  \/ AppliedLate \/ OtherAdmin \/ Reload

CloudTypeOK ==
  /\ cloud.view \in {"loading", "ready", "error"}
  /\ cloud.shown \in CloudRow /\ aws.row \in CloudRow
  /\ cloud.feedback \in {"none", "verified", "removed", "error"}
  /\ cloud.ext \in 0..CloudIds /\ cloud.call.op \in {"idle", "create", "verify", "delete"}

-----------------------------------------------------------------------------
(* Properties.                                                             *)

\* "AWS account verified and connected." is true of the server and of the
\* card below it: unless somebody else changed the account meanwhile, it is
\* active, the card says so, and its capabilities are those of that account.
FeedbackTrue ==
  cloud.feedback = "verified" /\ ~aws.touched =>
    /\ aws.row.status = "active"
    /\ cloud.view = "ready" /\ ~cloud.busy =>
         cloud.shown = aws.row /\ cloud.caps = aws.row.id

\* The external id the panel carries from the creation of an account to the
\* next attempt to verify it is the one the server holds the hash of ("reused
\* as external_account_id (create) and external_id (verify) so the stored hash
\* matches", aws-template.ts), through failures, reopenings and retries.
PanelIdMatches ==
  PanelShown /\ cloud.shown # NoRow /\ aws.row.id = cloud.shown.id
    /\ cloud.ext # 0 /\ ~cloud.typed /\ ~aws.touched => aws.row.hash = cloud.ext

\* A page that is busy becomes usable again, whatever the calls answer.
BusyEnds == cloud.busy ~> ~cloud.busy

\* What the page says of the account is true, and the external id it carries is
\* the one the server compares, over failures, reopenings and other admins.
CloudPageInv == CloudTypeOK /\ FeedbackTrue /\ PanelIdMatches
=============================================================================
