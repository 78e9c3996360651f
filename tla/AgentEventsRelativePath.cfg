\* One post: a relative hot-plug path is enough to show where it is mounted.
SPECIFICATION Spec
CONSTANTS
    Names = {n1}
    Listeners = {}
    MaxPosts = 1
    MountAttempts = 5
    Event <- MCEvent
INVARIANT
    RelativeHotplugUnderRoot
\* Once the bounded posts are made and every goroutine has returned the agent
\* is idle: it waits for the host, which may post nothing more.
CHECK_DEADLOCK FALSE
