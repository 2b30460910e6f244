--------------------------- MODULE MCYubiKeySlot ---------------------------
(* YubiKeySlot on small instances. *)
EXTENDS YubiKeySlot, TLC

Symmetry == Permutations(Requests) \cup Permutations(Removals) \cup Permutations(Refreshes)
=============================================================================
