---------------------------- MODULE RunContract ----------------------------
(***************************************************************************)
(* What a provisioning run promises to the people who use it, with no      *)
(* workers, versions, locks or stores: the run drafts a proposal, may ask  *)
(* questions, presents one proposal for review, and builds Terraform only  *)
(* from the proposal that was presented and consented to.  A closed run    *)
(* (failed or cancelled) never moves again.  RunLifecycle is shown to      *)
(* implement this module.                                                  *)
(***************************************************************************)
CONSTANTS Drafts, None

VARIABLES
  phase,      \* planning, asking, review, building, built or closed
  presented,  \* the proposal last put before the users
  consent,    \* the proposal the users agreed to
  product     \* the proposal the Terraform artifact was made from

contractVars == << phase, presented, consent, product >>

ContractInit ==
  /\ phase = "planning"
  /\ presented = None /\ consent = None /\ product = None

Ask ==
  /\ phase = "planning" /\ phase' = "asking"
  /\ UNCHANGED << presented, consent, product >>

Answer ==
  /\ phase = "asking" /\ phase' = "planning"
  /\ UNCHANGED << presented, consent, product >>

Present(draft) ==
  /\ phase = "planning" /\ phase' = "review"
  /\ presented' = draft /\ consent' = None
  /\ UNCHANGED product

Revise ==
  /\ phase = "review" /\ phase' = "planning"
  /\ consent' = None
  /\ UNCHANGED << presented, product >>

Confirm ==
  /\ phase = "review" /\ phase' = "building"
  /\ consent' = presented
  /\ UNCHANGED << presented, product >>

Build ==
  /\ phase = "building" /\ phase' = "built"
  /\ product' = consent
  /\ UNCHANGED << presented, consent >>

Close ==
  /\ phase # "closed" /\ phase' = "closed"
  /\ UNCHANGED << presented, consent, product >>

ContractNext ==
  \/ Ask \/ Answer \/ Revise \/ Confirm \/ Build \/ Close
  \/ \E draft \in Drafts : Present(draft)

ContractSpec == ContractInit /\ [][ContractNext]_contractVars
============================================================================
