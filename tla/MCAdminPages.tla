--------------------------- MODULE MCAdminPages ---------------------------
(* AdminPages on a small instance: an owner, another person, two units.     *)
EXTENDS AdminPages, TLC
=============================================================================
