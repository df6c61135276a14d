--------------------------- MODULE MCProvisioning ---------------------------
(* Provisioning for TLC: two users with a session each.  The services take *)
(* their requests and what is submitted from the same sets, so that one    *)
(* permutation serves both.                                                *)
EXTENDS Provisioning

CONSTANTS u1, u2, s1, s2

MCOwner == s1 :> u1 @@ s2 :> u2
Symmetry == Permutations(Requests) \cup Permutations(Messages)
=============================================================================
