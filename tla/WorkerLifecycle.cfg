\* Two sessions, which need not end, and two row ids, so that the worker can
\* be deleted, registered again and registered twice.
SPECIFICATION FairSpec
CONSTANTS
    NoRow = NoRow
    Rows = {r1, r2}
    Sessions = {s1, s2}
CHECK_DEADLOCK FALSE
INVARIANTS HeartbeatAlive DrainSpares DrainWatched
PROPERTIES ShutdownFinal DrainKnown Reregistered DrainExits
