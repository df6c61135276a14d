------------------------------ MODULE PolicyPage ----------------------------
(***************************************************************************)
(* The policy settings page (frontend/app/policy/page.tsx) with its pack   *)
(* cards, its rule rows and the Rego editor.  The page holds one draft of  *)
(* all packs; a mounted rule row holds a copy of the parameters of its     *)
(* rule, and an editor a copy of the source it edits.                      *)
(*                                                                         *)
(* savePolicyDraft and resetPolicyPack stand in for calls that do not      *)
(* exist yet: they answer after a while and never fail.  Meanwhile only    *)
(* the Save and Reset buttons are disabled.                                *)
(***************************************************************************)
EXTENDS Naturals

CONSTANTS Packs,       \* ids of the policy packs
          Rules,       \* the rules of every pack are 1 .. Rules, in this order
          Parameters,  \* keys of the parameters of a rule
          PolicyEdits  \* bound: toggles, parameters changed, editors opened, sources typed

ASSUME PolicyPageAssumption ==
  Rules \in Nat \ {0} /\ PolicyEdits \in Nat /\ "none" \notin Packs

VARIABLES policy,   \* the page
          intent,   \* history: what the user last asked for, per pack
          stale     \* history: packs reset while their rows were mounted

policyVars == <<policy, intent, stale>>

\* Every default is 0.  A value stands for text, a number, a set of options or
\* a Boolean alike: the row copies all four in the same way.
Values == 0..1
NoEdit == 2   \* the editor is not editing
Defaults == [i \in 1..Rules |->
               [enabled |-> TRUE, rego |-> 0, parameters |-> [k \in Parameters |-> 0]]]

Draft(p) == policy.draft[p]
Selected == policy.pack \in Packs

\* A row that is mounted: the first one is expanded.
Mounted(pack) ==
  [i \in 1..Rules |-> [open |-> i = 1, edit |-> NoEdit,
                       parameters |-> pack.rules[i].parameters]]

Visual == policy.loaded /\ Selected /\ policy.mode = "visual"

\* regoRule: the rule expanded last, else the first of the pack.
regoRule == IF policy.expanded = 0 THEN 1 ELSE policy.expanded

Edited == policy.edits < PolicyEdits

-----------------------------------------------------------------------------
(* The page.                                                               *)

\* The timer behind the skeletons.
PolicyLoaded ==
  /\ ~policy.loaded
  /\ policy' = [policy EXCEPT !.loaded = TRUE]
  /\ UNCHANGED <<intent, stale>>

TogglePack(p) ==
  /\ policy.loaded /\ Edited
  /\ policy' = [policy EXCEPT !.draft[p].enabled = ~@, !.edits = @ + 1]
  /\ UNCHANGED <<intent, stale>>

\* Rows that go away take their copies along.
StillWrong == {p \in stale : Draft(p).rules # intent[p]}

\* Mutant of selectPack: rows are keyed by their position in the list.
selectPackByIndex(p) ==
  /\ policy.loaded
  /\ policy' = [policy EXCEPT !.pack = p, !.confirm = FALSE, !.expanded = 0, !.mode = "visual",
                              !.asked = 0, !.edit = NoEdit,
                              !.rows = IF Visual THEN @ ELSE Mounted(Draft(p))]
  /\ UNCHANGED <<intent, stale>>

\* The rows are keyed by the rule: those of another pack are mounted anew.
selectPack(p) ==
  /\ policy.loaded
  /\ policy' = [policy EXCEPT !.pack = p, !.confirm = FALSE, !.expanded = 0, !.mode = "visual",
                              !.asked = 0, !.edit = NoEdit,
                              !.rows = IF p = policy.pack /\ Visual THEN @ ELSE Mounted(Draft(p))]
  /\ stale' = IF p = policy.pack /\ Visual THEN stale ELSE StillWrong
  /\ UNCHANGED intent

ShowVisual ==
  /\ policy.loaded /\ Selected /\ policy.mode = "rego"
  /\ policy' = [policy EXCEPT !.mode = "visual", !.edit = NoEdit,
                              !.rows = Mounted(Draft(policy.pack))]
  /\ UNCHANGED <<intent, stale>>

ShowRego ==
  /\ Visual
  /\ policy' = [policy EXCEPT !.mode = "rego", !.rows = Mounted(Draft(policy.pack))]
  /\ stale' = StillWrong
  /\ UNCHANGED intent

\* The payload is the draft at this moment; only Save and Reset are disabled.
handleSave ==
  /\ Selected /\ policy.saving = "no"
  /\ policy' = [policy EXCEPT !.saving = "save"]
  /\ UNCHANGED <<intent, stale>>

SaveReturns ==
  /\ policy.saving = "save"
  /\ policy' = [policy EXCEPT !.saving = "no"]
  /\ UNCHANGED <<intent, stale>>

\* The first click asks for a confirmation, the second one resets the pack
\* that was selected then.
handleReset ==
  /\ Selected /\ policy.saving = "no"
  /\ policy' = IF ~policy.confirm
               THEN [policy EXCEPT !.confirm = TRUE, !.asked = 1]
               ELSE [policy EXCEPT !.saving = "reset", !.resetting = policy.pack,
                                   !.confirmed = policy.asked = 1]
  /\ UNCHANGED <<intent, stale>>

\* After the await the pack of the closure gets its defaults, edits made in
\* the meantime included; rows that are mounted keep their copies.
ResetReturns ==
  /\ policy.saving = "reset"
  /\ LET p == policy.resetting
     IN  /\ policy' = [policy EXCEPT !.draft[p] = [enabled |-> TRUE, rules |-> Defaults],
                                     !.saving = "no", !.confirm = FALSE, !.asked = 0,
                                     !.resetting = "none", !.confirmed = FALSE]
         /\ intent' = [intent EXCEPT ![p] = Defaults]
         /\ stale' = IF p = policy.pack /\ Visual THEN stale \cup {p} ELSE stale \ {p}

-----------------------------------------------------------------------------
(* Rule rows.                                                              *)

\* onExpandChange: collapsing any row clears the key.
toggleExpanded(i) ==
  /\ Visual
  /\ policy' = [policy EXCEPT !.rows[i].open = ~@, !.rows[i].edit = NoEdit,
                              !.expanded = IF policy.rows[i].open THEN 0 ELSE i]
  /\ UNCHANGED <<intent, stale>>

ToggleRule(i) ==
  /\ Visual /\ Edited
  /\ policy' = [policy EXCEPT !.draft[policy.pack].rules[i].enabled = ~@, !.edits = @ + 1]
  /\ intent' = [intent EXCEPT ![policy.pack][i].enabled = ~policy.draft[policy.pack].rules[i].enabled]
  /\ UNCHANGED stale

\* The whole array of the row is written to the draft, and kept.
updateParameter(i, k, v) ==
  /\ Visual /\ policy.rows[i].open /\ Edited
  /\ policy.rows[i].parameters[k] # v
  /\ LET next == [policy.rows[i].parameters EXCEPT ![k] = v]
     IN  policy' = [policy EXCEPT !.rows[i].parameters = next, !.edits = @ + 1,
                                  !.draft[policy.pack].rules[i].parameters = next]
  /\ intent' = [intent EXCEPT ![policy.pack][i].parameters[k] = v]
  /\ UNCHANGED stale

-----------------------------------------------------------------------------
(* Rego editors: one in every row that is expanded, one in the Rego view.  *)

\* The editor of rule i that is on the page, and what it edits.
Editor(i) == Visual /\ policy.rows[i].open
RegoView(i) == policy.loaded /\ Selected /\ policy.mode = "rego" /\ i = regoRule
Editing(i) == IF policy.mode = "rego" THEN policy.edit ELSE policy.rows[i].edit
WithEdit(p, i, v) ==
  IF p.mode = "rego" THEN [p EXCEPT !.edit = v] ELSE [p EXCEPT !.rows[i].edit = v]

OpenEditor(i) ==
  /\ policy.admin /\ (Editor(i) \/ RegoView(i)) /\ Editing(i) = NoEdit /\ Edited
  /\ policy' = WithEdit([policy EXCEPT !.edits = @ + 1], i, Draft(policy.pack).rules[i].rego)
  /\ UNCHANGED <<intent, stale>>

TypeRego(i, v) ==
  /\ Editor(i) \/ RegoView(i)
  /\ Editing(i) \notin {NoEdit, v} /\ Edited
  /\ policy' = WithEdit([policy EXCEPT !.edits = @ + 1], i, v)
  /\ UNCHANGED <<intent, stale>>

CancelEditor(i) ==
  /\ (Editor(i) \/ RegoView(i)) /\ Editing(i) # NoEdit
  /\ policy' = WithEdit(policy, i, NoEdit)
  /\ UNCHANGED <<intent, stale>>

SaveEditor(i) ==
  /\ (Editor(i) \/ RegoView(i)) /\ Editing(i) # NoEdit
  /\ policy' = WithEdit([policy EXCEPT !.draft[policy.pack].rules[i].rego = Editing(i)], i, NoEdit)
  /\ intent' = [intent EXCEPT ![policy.pack][i].rego = Editing(i)]
  /\ UNCHANGED stale

-----------------------------------------------------------------------------
\* An admin or another member opens the page; no pack is selected.
PolicyInit ==
  /\ \E admin \in BOOLEAN :
       policy = [loaded |-> FALSE, admin |-> admin, pack |-> "none", mode |-> "visual",
                 expanded |-> 0, confirm |-> FALSE, asked |-> 0, confirmed |-> FALSE,
                 saving |-> "no", resetting |-> "none", edit |-> NoEdit, edits |-> 0,
                 draft |-> [p \in Packs |-> [enabled |-> TRUE, rules |-> Defaults]],
                 rows |-> Mounted([rules |-> Defaults])]
  /\ intent = [p \in Packs |-> Defaults] /\ stale = {}

PolicyNext ==
  \/ PolicyLoaded \/ ShowVisual \/ ShowRego
  \/ handleSave \/ SaveReturns \/ handleReset \/ ResetReturns
  \/ \E p \in Packs : TogglePack(p) \/ selectPack(p)
  \/ \E i \in 1..Rules :
       \/ toggleExpanded(i) \/ ToggleRule(i)
       \/ OpenEditor(i) \/ CancelEditor(i) \/ SaveEditor(i)
       \/ \E v \in Values : TypeRego(i, v) \/ \E k \in Parameters : updateParameter(i, k, v)

PolicyTypeOK ==
  /\ policy.saving \in {"no", "save", "reset"} /\ policy.mode \in {"visual", "rego"}
  /\ policy.expanded \in 0..Rules /\ stale \subseteq Packs
  /\ \A p \in Packs, i \in 1..Rules :
       Draft(p).rules[i].parameters \in [Parameters -> Values]

-----------------------------------------------------------------------------
(* Properties.                                                             *)

\* A pack loses its settings only after two clicks on Reset that were made
\* while it was the selected one: the confirmation of one pack never counts
\* for another one, although handleReset acts on whatever is selected.
ResetConfirmed == policy.saving = "reset" => policy.confirmed

\* Every rule of every pack is what the user last asked for, or its default:
\* copies held by rows and editors are written to no other rule and bring no
\* old value back, over changes of the selection and of the view.  The one
\* exception the code has is a pack that was reset under its mounted rows.
DraftIsIntent == \A p \in Packs \ stale : Draft(p).rules = intent[p]

\* The draft is what the user asked for, and a reset is confirmed for its pack.
PolicyPageInv == PolicyTypeOK /\ ResetConfirmed /\ DraftIsIntent
=============================================================================
