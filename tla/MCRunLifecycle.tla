--------------------------- MODULE MCRunLifecycle ---------------------------
(***************************************************************************)
(* Instances of RunLifecycle for TLC.  Workers, clients, drafts, keys and  *)
(* answers are only compared for equality and chosen by \E, and no         *)
(* property names one of them, so permuting any of these sets is sound     *)
(* for the safety runs.                                                    *)
(***************************************************************************)
EXTENDS RunLifecycle, TLC

Symmetry ==
  UNION { Permutations(Workers), Permutations(Clients), Permutations(Drafts),
          Permutations(Keys), Permutations(Answers) }
============================================================================
