------------------------- MODULE MCChainValidation -------------------------
(* ChainValidation with one embedded root. *)
EXTENDS ChainValidation, TLC

CONSTANTS A, B, k1, k2

MCTrustedRoots == {[subject |-> A, issuer |-> A, key |-> k1, signer |-> k1]}
=============================================================================
