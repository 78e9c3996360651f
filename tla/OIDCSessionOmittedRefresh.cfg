SPECIFICATION Spec
CONSTANTS
    Reqs = {r1}
    MaxGrants = 2
    MaxLogins = 1
    MaxKeyGen = 0
    RefreshReplies = {"omit"}
INVARIANT SessionSurvivesRefresh
