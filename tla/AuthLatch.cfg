\* Two processes, two requests, two keys, restarts and failing commands.
SPECIFICATION Spec
CONSTANTS
    p1 = p1  p2 = p2  r1 = r1  r2 = r2  k1 = k1  k2 = k2  NoToken = NoToken
    Servers = {p1, p2}
    Requests = {r1, r2}
    Keys = {k1, k2}
SYMMETRY Symmetry
INVARIANT AnswerLinearizes
PROPERTY LockIsFinal
