----------------------------- MODULE MCSession -----------------------------
(* Session on small instances. *)
EXTENDS Session, TLC

Symmetry == Permutations(Logins) \cup Permutations(Identities)
=============================================================================
