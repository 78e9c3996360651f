\* One request handler and ExpireConfig racing on the Verifier.
CONSTANTS
    Reqs = {r1}
    Hosts = {h1}
    MaxGen = 1
    NoHost = NoHost
    NoRP = NoRP
SPECIFICATION Spec
INVARIANT ExpiryNotLost
