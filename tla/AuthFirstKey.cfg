\* One process, one request, one key.
SPECIFICATION Spec
CONSTANTS
    p1 = p1  p2 = p2  r1 = r1  r2 = r2  k1 = k1  k2 = k2  NoToken = NoToken
    Servers = {p1}
    Requests = {r1}
    Keys = {k1}
INVARIANT FirstKeyLocks
