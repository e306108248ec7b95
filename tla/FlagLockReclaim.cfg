\* Three calls of withMutexLock: a release and an acquisition fit between the
\* second comparison of a reclaim and its rm.
SPECIFICATION Spec
CONSTANTS
    Calls = {a1, a2, a3}
    Mixes = {{}}
    None = None
    ReclaimAge = 1
    GuardAge = 0
    MaxRounds = 1
    MaxFaults = 0
PROPERTY ReclaimSparesNewHolder
CHECK_DEADLOCK FALSE
