---------------------------- MODULE MCWorkspaces ----------------------------
(* Workspaces for TLC: keys and requests are interchangeable.              *)
EXTENDS Workspaces, TLC

Symmetry == Permutations(Keys) \cup Permutations(Requests)
============================================================================
