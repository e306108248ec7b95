\* One shell for each of the two calls, and any lease older than a tick stale.
CONSTANTS
    NoToken = NoToken
    NoExec = NoExec
    Tokens = {t1, t2}
    Recovery = {}
    Execs = {e1, e2}
    Stale = 0
SPECIFICATION LiveSpec
PROPERTIES
    SectionCompletes
    AbandonedLeaseReclaimed
CHECK_DEADLOCK FALSE
