\* Two clients race for one session.
SPECIFICATION Spec
CONSTANTS
    a1 = a1  a2 = a2  a3 = a3  s1 = s1  s2 = s2  NoOne = NoOne
    Attachments = {a1, a2}
    Sessions = {s1}
CHECK_DEADLOCK FALSE
PROPERTY LoserHarmless
