\* A signer that issues two certificates.
SPECIFICATION FairSpec
CONSTANTS
    Certs = {c1, c2}
    Absent = Absent
    Foreign = Foreign
    None = None
    MaxFaults = 4
    MaxEdits = 1
INVARIANTS
    ManifestIsTrue
    CertificateFirst
    OneFaultIsRecoverable
PROPERTIES
    CompletionIsFinal
    RollbackOnlyRestores
    EditsSurvive
    RecoveryConverges
CHECK_DEADLOCK FALSE
