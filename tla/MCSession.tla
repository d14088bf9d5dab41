----------------------------- MODULE MCSession -----------------------------
(* Session on a small instance: one browser; the seeded owner, who after    *)
(* racing enrolments also has a second profile in the unit, and somebody of *)
(* another unit with the same e-mail.                                       *)
EXTENDS Session, TLC

Seed      == [person |-> "p1", unit |-> "u1", email |-> "e1"]
Twin      == [person |-> "p1", unit |-> "u1", email |-> "e2"]
Accounts3 == {Seed, Twin, [person |-> "p2", unit |-> "u2", email |-> "e1"]}
TabSymmetry == Permutations(Tabs)
=============================================================================
