\* Two request handlers racing on the shared Verifier.
CONSTANTS
    Reqs = {r1, r2}
    Hosts = {h1, h2}
    MaxGen = 1
    NoHost = NoHost
    NoRP = NoRP
SYMMETRY MCHostSymmetry
SPECIFICATION Spec
INVARIANTS ConfiguredWhenUsed
