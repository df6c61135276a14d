---------------------------- MODULE Provisioning ----------------------------
(***************************************************************************)
(* What a run needs before it is planned: a chat session that asks for it  *)
(* (RunIntake, the orchestrator) and the AWS account it will be applied to *)
(* (CloudAccounts, cloud-account-service).  The services share only the    *)
(* rows of runs, which CloudAccounts has as its input `dependent`, so a    *)
(* behaviour is one of the service that is looked at.                      *)
(***************************************************************************)
EXTENDS RunIntake, CloudAccounts

VARIABLE service

provisioningVars == << service, intakeVars, accountVars >>

ProvisioningInit == service \in {"orchestrator", "cloud-account"} /\ IntakeInit /\ AccountsInit

ProvisioningNext ==
  \/ service = "orchestrator"  /\ IntakeNext   /\ UNCHANGED << service, accountVars >>
  \/ service = "cloud-account" /\ AccountsNext /\ UNCHANGED << service, intakeVars >>

ProvisioningSpec == ProvisioningInit /\ [][ProvisioningNext]_provisioningVars
=============================================================================
