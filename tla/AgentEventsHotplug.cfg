\* Two posts from the host, one guest listener, the agent's five mount attempts.
SPECIFICATION Spec
CONSTANTS
    Names = {n1}
    Listeners = {l1}
    MaxPosts = 2
    MountAttempts = 5
    Event <- MCEvent
INVARIANT
    MountsAreHotplugs
PROPERTY
    HotplugSettles
\* Once the bounded posts are made and every goroutine has returned the agent
\* is idle: it waits for the host, which may post nothing more.
CHECK_DEADLOCK FALSE
