---------------------------- MODULE MCOIDCSession ----------------------------
(* Model-checking instance of OIDCSession.                                 *)
EXTENDS OIDCSession, TLC

MCReqSymmetry == Permutations(Reqs)
=============================================================================
