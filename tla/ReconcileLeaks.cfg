\* Crashes, lost writes, failed renewals and lost heartbeats, under fairness.
SPECIFICATION FairSpec
CONSTANTS
    s1 = s1  s2 = s2
    Sessions = {s1}
    DialTimeout = 1
    Grace = 2
    ReportTimeout = 1
    RenewInterval = 1
    SessionTTL = 2
    PendingTTL = 1
    Cap = 3
    Faults = {"crash", "write", "renew", "duplicate"}
PROPERTIES SlotFreed ZombieClosed
