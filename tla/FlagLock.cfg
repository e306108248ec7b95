\* Two calls of one lock, both of withMutexLock or both of applyWithFlagLock,
\* with a guard age below the reclaim age, two rounds to wait and one fault.
SPECIFICATION FairSpec
CONSTANTS
    Calls = {a1, a2}
    Mixes = {{}, {a1, a2}}
    None = None
    ReclaimAge = 1
    GuardAge = 0
    MaxRounds = 2
    MaxFaults = 1
INVARIANTS OneHolder NoLockLeft
PROPERTIES CallsEnd RefreshedIsNotReclaimed
CHECK_DEADLOCK FALSE
