---------------------------- MODULE MCRootTrust ----------------------------
(* RootTrust with two roots, and a certificate that has the subject of one. *)
EXTENDS RootTrust, TLC

CONSTANTS r1, r2, c1, c2, other1

MCEmbedded == r1 :> c1 @@ r2 :> c2
MCSubject == c1 :> "one" @@ other1 :> "one" @@ c2 :> "two"

Symmetry == Permutations(Checks)
=============================================================================
