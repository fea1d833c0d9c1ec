\* A dial shorter than the grace, a report as slow as its time limit allows.
SPECIFICATION Spec
CONSTANTS
    s1 = s1  s2 = s2
    Sessions = {s1}
    DialTimeout = 1
    Grace = 2
    ReportTimeout = 2
    RenewInterval = 1
    SessionTTL = 2
    PendingTTL = 1
    Cap = 4
    Faults = {}
PROPERTY NoFalseFailure
