\* Two requests with the same id, one with another, and a shutdown.
SPECIFICATION FairSpec
CONSTANTS
    i1 = i1  i2 = i2  k1 = k1  k2 = k2  k3 = k3  NoConn = NoConn
    Ids = {i1, i2}
    Conns = {k1, k2, k3}
    IdOf <- TwoForOne
CHECK_DEADLOCK FALSE
INVARIANTS TablesAgree NoHalfOpen ShutdownQuiet
PROPERTIES DialSettled
