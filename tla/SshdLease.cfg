\* Two calls, one of them the recovery owner, and three remote shells: enough
\* for shells that outlive their controllers and act against each other.
CONSTANTS
    NoToken = NoToken
    NoExec = NoExec
    Tokens = {t1, t2}
    Recovery = {t2}
    Execs = {e1, e2, e3}
    Stale = 1
SPECIFICATION Spec
SYMMETRY ExecSymmetry
INVARIANTS
    TypeOK
    BodyHoldsLease
    PendingStopsWriters
    EvidenceRecoverable
    SectionWasGranted
PROPERTIES
    LeaseRefinement
    ContiguousWrites
CHECK_DEADLOCK FALSE
