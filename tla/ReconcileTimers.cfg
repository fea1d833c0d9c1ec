\* Timers tuned to each other; no faults of the server, every race, a second row.
SPECIFICATION Spec
CONSTANTS
    s1 = s1  s2 = s2
    Sessions = {s1, s2}
    DialTimeout = 1
    Grace = 2
    ReportTimeout = 1
    RenewInterval = 1
    SessionTTL = 2
    PendingTTL = 1
    Cap = 3
    Faults = {"duplicate"}
SYMMETRY Symmetry
INVARIANT StaleMeansOver
PROPERTIES NoFalseFailure NoFalseExpiry
