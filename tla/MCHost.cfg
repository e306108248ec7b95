SPECIFICATION Spec
CONSTANTS
    MaxFaults = 2
    MaxRuns = 2
INVARIANTS TypeOK   AccessIsKept CleanRunConverges NothingIsLeft EditsSurvive
PROPERTY RunsEnd
CHECK_DEADLOCK FALSE
