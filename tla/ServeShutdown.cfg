\* Two clients race for one session while the server is signalled to stop.
SPECIFICATION ServeSpec
CONSTANTS
    a1 = a1  a2 = a2  a3 = a3  s1 = s1  s2 = s2  NoOne = NoOne
    Attachments = {a1, a2}
    Sessions = {s1}
    Grace = 1
    DialTimeout = 3
    CloseFrame = 1
    TerminalQuery = 1
    Buffer = 1
    Query = 1
CHECK_DEADLOCK FALSE
INVARIANTS WaitGroupExact CleanMeansFinished OneRelay CleanExit BudgetSuffices
PROPERTIES EndedSessionDetached SignalExits
