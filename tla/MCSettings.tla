----------------------------- MODULE MCSettings -----------------------------
(* Settings on small instances: two servers whose texts differ in length, and one
   that does not validate. *)
EXTENDS Settings, TLC

CONSTANTS short, long, invalid
MCServers == {short, long, invalid}
MCValid == {short, long}
MCLength == short :> 1 @@ long :> 2 @@ invalid :> 2
Symmetry == Permutations(Calls)
=============================================================================
