--------------------------- MODULE MCProvisioning ---------------------------
(* Provisioning on a small instance: every mix of two requests.             *)
EXTENDS Provisioning, TLC

Symmetry == Permutations(Requests)
=============================================================================
