\* Two requests race for a two-slot and a one-slot worker with a lifetime limit;
\* the clock stands still.
SPECIFICATION Spec
CONSTANTS
    s1 = s1  s2 = s2  s3 = s3  c1 = c1  c2 = c2  r1 = r1
    chromium = chromium  firefox = firefox
    Browsers = {chromium, firefox}
    BrowserOf <- AllChromium
    Workers = {1, 2}
    Sessions = {s1, s2, s3}
    Clients = {c1, c2}
    Rescuers = {}
    MaxSlots <- ClaimSlots
    Matches <- AllMatch
    MaxLifetime = 2
    MaxAttempts = 1
    WorkerTTL = 1
    StalledTTL = 1
    HeartbeatTimeout = 1
    MaxNow = 0
SYMMETRY SymClients
INVARIANTS TypeOK CapacityInvariant LifetimeBound CapacityHonest
PROPERTIES OutcomeFinal OnlyAvailableGrows ImplementsCapacity
