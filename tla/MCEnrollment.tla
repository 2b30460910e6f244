--------------------------- MODULE MCEnrollment ---------------------------
(* Enrollment on small instances. *)
EXTENDS Enrollment, TLC

Symmetry == Permutations(Requests) \cup Permutations(Users)
=============================================================================
