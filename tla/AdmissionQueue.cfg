\* Two requests, one slot and one place in the queue, with every event that
\* makes capacity silently.
SPECIFICATION FairSpec
CONSTANTS
    c1 = c1  c2 = c2  x1 = x1
    Clients = {c1, c2}
    Slots = {x1}
    MaxQueue = 1
INVARIANTS QueueAccounting AnswerHonest NoLostWakeup
PROPERTIES PollingFallback EveryRequestAnswered DrainEmptiesQueue
