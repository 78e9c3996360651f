\* Two request handlers with different Host headers racing on the Verifier.
CONSTANTS
    Reqs = {r1, r2}
    Hosts = {h1, h2}
    MaxGen = 0
    NoHost = NoHost
    NoRP = NoRP
SYMMETRY MCHostSymmetry
SPECIFICATION Spec
INVARIANT UsedRPMatchesHost
