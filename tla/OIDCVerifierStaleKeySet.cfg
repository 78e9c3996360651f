\* One request handler, then a proxy change, then a second request.
CONSTANTS
    Reqs = {r1}
    Hosts = {h1}
    MaxGen = 1
    NoHost = NoHost
    NoRP = NoRP
SPECIFICATION Spec
INVARIANT VerifierUsesCurrentProxy
