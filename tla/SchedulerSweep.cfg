\* The rescuer's sweep against heartbeats, claims and status requests; the clock runs.
SPECIFICATION Spec
CONSTANTS
    s1 = s1  s2 = s2  s3 = s3  c1 = c1  c2 = c2  r1 = r1
    chromium = chromium  firefox = firefox
    Browsers = {chromium, firefox}
    BrowserOf <- AllChromium
    Workers = {1}
    Sessions = {s1}
    Clients = {c1}
    Rescuers = {r1}
    MaxSlots <- OneSlot
    Matches <- AllMatch
    MaxLifetime = 0
    MaxAttempts = 2
    WorkerTTL = 1
    StalledTTL = 1
    HeartbeatTimeout = 1
    MaxNow = 4
SYMMETRY SymSessions
INVARIANTS NoOrphan
PROPERTIES IntentKept
