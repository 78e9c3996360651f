SPECIFICATION Spec
CONSTANTS
    Clients = {c1}
    ku = ku
    kp = kp
    Keys <- MCKeys
    UserKeys <- MCUserKeys
    HostErrorCodes = {403, 404}
    ConnectAttempts = 10
    BadEscape = BadEscape
INVARIANT NoSuccessOnHostError
