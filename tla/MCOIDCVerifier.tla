--------------------------- MODULE MCOIDCVerifier ---------------------------
(* Model-checking instance of OIDCVerifier: hosts are model values, and    *)
(* permuting them maps behaviours to behaviours.                           *)
EXTENDS OIDCVerifier, TLC

MCHostSymmetry == Permutations(Hosts)
=============================================================================
