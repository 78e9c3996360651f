------------------------------ MODULE MCDevLXD ------------------------------
(* Model-checking instance of DevLXD: one user key and one private key.   *)
EXTENDS DevLXD, TLC

CONSTANTS ku, kp

MCKeys == {ku, kp}
MCUserKeys == {ku}
=============================================================================
