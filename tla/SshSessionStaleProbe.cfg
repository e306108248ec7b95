\* Two calls, one slot and one reconnect are enough for the failure of a probe
\* that outlives the reset.
SPECIFICATION Spec
CONSTANTS
    Probe = Probe
    Callers = {c1, c2}
    InputCallers = {}
    Max = 1
    MaxClients = 2
    MaxAttempts = 1
PROPERTY FreshSudoAfterReconnect
CHECK_DEADLOCK FALSE
