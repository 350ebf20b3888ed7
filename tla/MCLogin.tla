------------------------------- MODULE MCLogin -------------------------------
(* A browser with two tabs and a second browser. *)
EXTENDS OidcLogin, TLC

CONSTANTS b1, b2, t1, t2, t3

MCIn == (t1 :> b1) @@ (t2 :> b1) @@ (t3 :> b2)
MCSymmetry == Permutations(User) \cup Permutations({t1, t2})
=============================================================================
