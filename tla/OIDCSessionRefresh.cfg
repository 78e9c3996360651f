SPECIFICATION Spec
CONSTANTS
    Reqs = {r1, r2}
    MaxGrants = 3
    MaxLogins = 1
    MaxKeyGen = 1
    RefreshReplies = {"rotate", "same"}
SYMMETRY MCReqSymmetry
INVARIANT SessionSurvivesRefresh
PROPERTY NoRevokedRefreshStored
