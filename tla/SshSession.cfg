\* Three calls and the probe contend for two slots: every kind of wait for a
\* slot occurs, and clients enough to outlive one reconnect and start another.
SPECIFICATION FairSpec
CONSTANTS
    Probe = Probe
    Callers = {c1, c2, c3}
    InputCallers = {c1}
    Max = 2
    MaxClients = 3
    MaxAttempts = 2
INVARIANTS SlotsCounted OnCurrentClient AskedOnce
PROPERTY CallsSettle
CHECK_DEADLOCK FALSE
