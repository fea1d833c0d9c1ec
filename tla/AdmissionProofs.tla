--------------------------- MODULE AdmissionProofs --------------------------
(***************************************************************************)
(* Safety of Admission for any finite set of requests, any set of slots    *)
(* and any queue limit. The queue counter is exact because every step      *)
(* leaves the queue alone, adds one request to it or takes one out. That   *)
(* no wake-up is lost needs LookInv, which also says what is known while a *)
(* request is between a failed claim and the select.                       *)
(***************************************************************************)
EXTENDS Admission, FiniteSetTheorems, TLAPS

\* TypeOK without the bounds of the counter, which QueueAccounting gives.
Types ==
    /\ owner \in [Slots -> {"free", "down", "other"} \cup Clients]
    /\ pc \in [Clients -> {"idle", "fast", "recheck", "enter", "done"} \cup InQueue]
    /\ result \in [Clients -> Results]
    /\ excluded \in [Clients -> SUBSET Slots]
    /\ ctx \in [Clients -> SUBSET {"cancelled", "deadline"}]
    /\ wake \in [Clients -> BOOLEAN]
    /\ queued \in Int
    /\ note \in BOOLEAN
    /\ listening \in BOOLEAN
    /\ draining \in BOOLEAN
    /\ silent \in [Clients -> BOOLEAN]

\* A free slot cannot be passed over by c without a wake-up or a reason.
Told(c) == wake[c] \/ note \/ silent[c]

\* What a request in the queue knows of the free slots. While it looks, only
\* the workers it found full may have been freed behind its back; when its
\* look has failed, every free slot has been.
LookInv ==
    \A c \in Clients :
        /\ pc[c] \notin {"check", "claiming", "missed"} => excluded[c] = {}
        /\ pc[c] \in {"check", "claiming"} /\ Free \cap excluded[c] # {} => Told(c)
        /\ pc[c] \in {"missed", "waiting"} /\ Free # {} => Told(c)

IInv == Types /\ QueueAccounting /\ AnswerHonest /\ LookInv

-----------------------------------------------------------------------------
(* Types.                                                                  *)

LEMMA WaitErrorType ==
    ASSUME NEW c \in Clients
    PROVE  queueWaitError(c) \in {"cancelled", "draining", "timeout", "none"}
BY DEF queueWaitError

LEMMA TypesStep ==
    ASSUME Types, [Next]_vars
    PROVE  Types'
<1>1. CASE \E c \in Clients : Arrive(c)
    BY <1>1, WaitErrorType DEF Arrive, Return, Goto, Types, Results, InQueue,
     dbVars
<1>2. CASE \E c \in Clients : FastNone(c)
    BY <1>2, WaitErrorType DEF FastNone, Goto, Types, Results, InQueue, dbVars
<1>3. CASE \E c \in Clients : FastError(c)
    BY <1>3, WaitErrorType DEF FastError, Return, Goto, Types, Results,
     InQueue, dbVars
<1>4. CASE \E c \in Clients : FastUncertain(c)
    BY <1>4, WaitErrorType DEF FastUncertain, Return, Goto, Types, Results,
     InQueue, dbVars
<1>5. CASE \E c \in Clients : CheckDraining(c)
    BY <1>5, WaitErrorType DEF CheckDraining, Return, Goto, Types, Results,
     InQueue, dbVars
<1>6. CASE \E c \in Clients : enterQueue(c)
    BY <1>6, WaitErrorType DEF enterQueue, Return, Goto, Types, Results,
     InQueue, dbVars
<1>7. CASE \E c \in Clients : Check(c)
  <2>1. PICK c \in Clients : Check(c)
    BY <1>7
  <2>2. silent' \in [Clients -> BOOLEAN] /\ wake' \in [Clients -> BOOLEAN]
    BY <2>1 DEF Check, LeaveOr, Leave, LookAgain, Types
  <2>3. /\ pc' \in [Clients -> {"idle", "fast", "recheck", "enter", "done"} \cup InQueue]
        /\ excluded' \in [Clients -> SUBSET Slots]
    BY <2>1 DEF Check, LeaveOr, Leave, Return, Goto, Types, InQueue
  <2>4. result' \in [Clients -> Results] /\ queued' \in Int
    BY <2>1, WaitErrorType DEF Check, LeaveOr, Leave, Return, Types, Results
  <2>q. QED
    BY <2>1, <2>2, <2>3, <2>4 DEF Check, Types, dbVars
<1>8. CASE \E c \in Clients : ClaimNone(c)
    BY <1>8, WaitErrorType DEF ClaimNone, Goto, Types, Results, InQueue,
     dbVars
<1>9. CASE \E c \in Clients : ClaimError(c)
    BY <1>9, WaitErrorType DEF ClaimError, Goto, Types, Results, InQueue,
     dbVars
<1>10. CASE \E c \in Clients : ClaimUncertain(c)
    BY <1>10, WaitErrorType DEF ClaimUncertain, Leave, Return, Goto,
     LookAgain, Types, Results, InQueue, dbVars
<1>11. CASE \E c \in Clients : Missed(c)
  <2>1. PICK c \in Clients : Missed(c)
    BY <1>11
  <2>2. silent' \in [Clients -> BOOLEAN] /\ wake' \in [Clients -> BOOLEAN]
    BY <2>1 DEF Missed, LeaveOr, Leave, LookAgain, Types
  <2>3. /\ pc' \in [Clients -> {"idle", "fast", "recheck", "enter", "done"} \cup InQueue]
        /\ excluded' \in [Clients -> SUBSET Slots]
    BY <2>1 DEF Missed, LeaveOr, Leave, Return, Goto, Types, InQueue
  <2>4. result' \in [Clients -> Results] /\ queued' \in Int
    BY <2>1, WaitErrorType DEF Missed, LeaveOr, Leave, Return, Types, Results
  <2>q. QED
    BY <2>1, <2>2, <2>3, <2>4 DEF Missed, Types, dbVars
<1>12. CASE \E c \in Clients : ContextDone(c)
    BY <1>12, WaitErrorType DEF ContextDone, Leave, Return, Goto, LookAgain,
     Types, Results, InQueue, dbVars
<1>13. CASE \E c \in Clients : DrainDone(c)
    BY <1>13, WaitErrorType DEF DrainDone, Leave, Return, Goto, LookAgain,
     Types, Results, InQueue, dbVars
<1>14. CASE \E c \in Clients : Woken(c)
    BY <1>14, WaitErrorType DEF Woken, LookAgain, Goto, Types, Results,
     InQueue, dbVars
<1>15. CASE \E c \in Clients : PollTick(c)
    BY <1>15, WaitErrorType DEF PollTick, LookAgain, Goto, Types, Results,
     InQueue, dbVars
<1>16. CASE \E c \in Clients : Forget(c)
    BY <1>16, WaitErrorType DEF Forget, Goto, Types, Results, InQueue, dbVars
<1>17. CASE \E c \in Clients : Cancel(c)
    BY <1>17, WaitErrorType DEF Cancel, Types, Results, InQueue, dbVars
<1>18. CASE \E c \in Clients : Deadline(c)
    BY <1>18, WaitErrorType DEF Deadline, Types, Results, InQueue, dbVars
<1>19. CASE \E c \in Clients, x \in Slots : FastHit(c, x)
    BY <1>19, WaitErrorType DEF FastHit, Return, Goto, Types, Results,
     InQueue, dbVars
<1>20. CASE \E c \in Clients, x \in Slots : ClaimHit(c, x)
    BY <1>20, WaitErrorType DEF ClaimHit, Leave, Return, Goto, LookAgain,
     Types, Results, InQueue, dbVars
<1>21. CASE \E c \in Clients, x \in Slots : ClaimFull(c, x)
    BY <1>21, WaitErrorType DEF ClaimFull, Goto, Types, Results, InQueue,
     dbVars
<1>22. CASE \E c \in Clients, x \in Slots : EndSession(c, x)
  <2>1. PICK c \in Clients, x \in Slots : EndSession(c, x)
    BY <1>22
  <2>2. silent' \in [Clients -> BOOLEAN] /\ note' \in BOOLEAN
    BY <2>1 DEF EndSession, Release, Unheard, Types
  <2>3. owner' \in [Slots -> {"free", "down", "other"} \cup Clients]
    BY <2>1 DEF EndSession, Release, Types
  <2>q. QED
    BY <2>1, <2>2, <2>3 DEF EndSession, Types
<1>23. CASE Wake
    BY <1>23, WaitErrorType DEF Wake, Types, Results, InQueue, dbVars
<1>24. CASE Disconnect
    BY <1>24, WaitErrorType DEF Disconnect, Unheard, Types, Results, InQueue,
     dbVars
<1>25. CASE Reconnect
    BY <1>25, WaitErrorType DEF Reconnect, Types, Results, InQueue, dbVars
<1>26. CASE BeginDrain
    BY <1>26, WaitErrorType DEF BeginDrain, Types, Results, InQueue, dbVars
<1>27. CASE Fleet
    BY <1>27, WaitErrorType DEF Fleet, Release, Unheard, Types, Results,
     InQueue, dbVars
<1>28. CASE UNCHANGED vars
    BY <1>28, WaitErrorType DEF vars, dbVars, Types, Results, InQueue, dbVars
<1>q. QED
  BY <1>1, <1>2, <1>3, <1>4, <1>5, <1>6, <1>7, <1>8, <1>9, <1>10, <1>11,
     <1>12, <1>13, <1>14, <1>15, <1>16, <1>17, <1>18, <1>19, <1>20, <1>21,
     <1>22, <1>23, <1>24, <1>25, <1>26, <1>27, <1>28 DEF Next, AdmitStep

-----------------------------------------------------------------------------
(* The queue counter.                                                      *)

Waiters == {c \in Clients : pc[c] \in InQueue}

\* The three things a step can do to the queue.
Stays ==
    /\ queued' = queued
    /\ \A d \in Clients : pc'[d] \in InQueue <=> pc[d] \in InQueue
Enters(c) ==
    /\ queued < MaxQueue /\ queued' = queued + 1
    /\ pc[c] \notin InQueue /\ pc'[c] \in InQueue
    /\ \A d \in Clients \ {c} : pc'[d] = pc[d]
Leaves(c) ==
    /\ queued' = queued - 1
    /\ pc[c] \in InQueue /\ pc'[c] \notin InQueue
    /\ \A d \in Clients \ {c} : pc'[d] = pc[d]

LEMMA QueueMoves ==
    ASSUME Types, [Next]_vars
    PROVE  Stays \/ \E c \in Clients : Enters(c) \/ Leaves(c)
<1> USE QueueAssumption
<1>1. CASE \E c \in Clients : Arrive(c)
    BY <1>1 DEF Arrive, Return, Goto, Types, InQueue, dbVars, Stays, Enters,
     Leaves
<1>2. CASE \E c \in Clients : FastNone(c)
    BY <1>2 DEF FastNone, Goto, Types, InQueue, dbVars, Stays, Enters, Leaves
<1>3. CASE \E c \in Clients : FastError(c)
    BY <1>3 DEF FastError, Return, Goto, Types, InQueue, dbVars, Stays,
     Enters, Leaves
<1>4. CASE \E c \in Clients : FastUncertain(c)
    BY <1>4 DEF FastUncertain, Return, Goto, Types, InQueue, dbVars, Stays,
     Enters, Leaves
<1>5. CASE \E c \in Clients : CheckDraining(c)
    BY <1>5 DEF CheckDraining, Return, Goto, Types, InQueue, dbVars, Stays,
     Enters, Leaves
<1>6. CASE \E c \in Clients : enterQueue(c)
    BY <1>6 DEF enterQueue, Return, Goto, Types, InQueue, dbVars, Stays,
     Enters, Leaves
<1>7. CASE \E c \in Clients : Check(c)
    BY <1>7 DEF Check, LeaveOr, Leave, Return, Goto, LookAgain, Types,
     InQueue, dbVars, Stays, Enters, Leaves
<1>8. CASE \E c \in Clients : ClaimNone(c)
    BY <1>8 DEF ClaimNone, Goto, Types, InQueue, dbVars, Stays, Enters, Leaves
<1>9. CASE \E c \in Clients : ClaimError(c)
    BY <1>9 DEF ClaimError, Goto, Types, InQueue, dbVars, Stays, Enters,
     Leaves
<1>10. CASE \E c \in Clients : ClaimUncertain(c)
    BY <1>10 DEF ClaimUncertain, Leave, Return, Goto, LookAgain, Types,
     InQueue, dbVars, Stays, Enters, Leaves
<1>11. CASE \E c \in Clients : Missed(c)
    BY <1>11 DEF Missed, LeaveOr, Leave, Return, Goto, LookAgain, Types,
     InQueue, dbVars, Stays, Enters, Leaves
<1>12. CASE \E c \in Clients : ContextDone(c)
    BY <1>12 DEF ContextDone, Leave, Return, Goto, LookAgain, Types, InQueue,
     dbVars, Stays, Enters, Leaves
<1>13. CASE \E c \in Clients : DrainDone(c)
    BY <1>13 DEF DrainDone, Leave, Return, Goto, LookAgain, Types, InQueue,
     dbVars, Stays, Enters, Leaves
<1>14. CASE \E c \in Clients : Woken(c)
    BY <1>14 DEF Woken, LookAgain, Goto, Types, InQueue, dbVars, Stays,
     Enters, Leaves
<1>15. CASE \E c \in Clients : PollTick(c)
    BY <1>15 DEF PollTick, LookAgain, Goto, Types, InQueue, dbVars, Stays,
     Enters, Leaves
<1>16. CASE \E c \in Clients : Forget(c)
    BY <1>16 DEF Forget, Goto, Types, InQueue, dbVars, Stays, Enters, Leaves
<1>17. CASE \E c \in Clients : Cancel(c)
    BY <1>17 DEF Cancel, Types, InQueue, dbVars, Stays, Enters, Leaves
<1>18. CASE \E c \in Clients : Deadline(c)
    BY <1>18 DEF Deadline, Types, InQueue, dbVars, Stays, Enters, Leaves
<1>19. CASE \E c \in Clients, x \in Slots : FastHit(c, x)
    BY <1>19 DEF FastHit, Return, Goto, Types, InQueue, dbVars, Stays, Enters,
     Leaves
<1>20. CASE \E c \in Clients, x \in Slots : ClaimHit(c, x)
    BY <1>20 DEF ClaimHit, Leave, Return, Goto, LookAgain, Types, InQueue,
     dbVars, Stays, Enters, Leaves
<1>21. CASE \E c \in Clients, x \in Slots : ClaimFull(c, x)
    BY <1>21 DEF ClaimFull, Goto, Types, InQueue, dbVars, Stays, Enters,
     Leaves
<1>22. CASE \E c \in Clients, x \in Slots : EndSession(c, x)
    BY <1>22 DEF EndSession, Release, Unheard, Types, InQueue, dbVars, Stays,
     Enters, Leaves
<1>23. CASE Wake
    BY <1>23 DEF Wake, Types, InQueue, dbVars, Stays, Enters, Leaves
<1>24. CASE Disconnect
    BY <1>24 DEF Disconnect, Unheard, Types, InQueue, dbVars, Stays, Enters,
     Leaves
<1>25. CASE Reconnect
    BY <1>25 DEF Reconnect, Types, InQueue, dbVars, Stays, Enters, Leaves
<1>26. CASE BeginDrain
    BY <1>26 DEF BeginDrain, Types, InQueue, dbVars, Stays, Enters, Leaves
<1>27. CASE Fleet
    BY <1>27 DEF Fleet, Release, Unheard, Types, InQueue, dbVars, Stays,
     Enters, Leaves
<1>28. CASE UNCHANGED vars
    BY <1>28 DEF vars, dbVars, Types, InQueue, dbVars, Stays, Enters, Leaves
<1>q. QED
  BY <1>1, <1>2, <1>3, <1>4, <1>5, <1>6, <1>7, <1>8, <1>9, <1>10, <1>11,
     <1>12, <1>13, <1>14, <1>15, <1>16, <1>17, <1>18, <1>19, <1>20, <1>21,
     <1>22, <1>23, <1>24, <1>25, <1>26, <1>27, <1>28 DEF Next, AdmitStep

LEMMA QueueStep ==
    ASSUME Types, Types', QueueAccounting, [Next]_vars
    PROVE  QueueAccounting'
<1> USE QueueAssumption
<1>1. IsFiniteSet(Waiters) /\ Cardinality(Waiters) \in Nat
  BY ClientsAssumption, FS_Subset, FS_CardinalityType DEF Waiters
<1>2. queued = Cardinality(Waiters) /\ queued <= MaxQueue
  BY DEF QueueAccounting, Waiters
<1>3. CASE Stays
  <2>1. Waiters' = Waiters
    BY <1>3 DEF Stays, Waiters
  <2>q. QED
    BY <1>2, <1>3, <2>1 DEF Stays, QueueAccounting, Waiters
<1>4. ASSUME NEW c \in Clients, Enters(c)
      PROVE  QueueAccounting'
  <2>1. c \notin Waiters /\ Waiters' = Waiters \cup {c}
    BY <1>4 DEF Enters, Waiters
  <2>2. Cardinality(Waiters') = Cardinality(Waiters) + 1
    BY <1>1, <2>1, FS_AddElement
  <2>q. QED
    BY <1>1, <1>2, <1>4, <2>2 DEF Enters, QueueAccounting, Waiters
<1>5. ASSUME NEW c \in Clients, Leaves(c)
      PROVE  QueueAccounting'
  <2>1. c \in Waiters /\ Waiters' = Waiters \ {c}
    BY <1>5 DEF Leaves, Waiters
  <2>2. Cardinality(Waiters') = Cardinality(Waiters) - 1
    BY <1>1, <2>1, FS_RemoveElement
  <2>q. QED
    BY <1>1, <1>2, <1>5, <2>2 DEF Leaves, QueueAccounting, Waiters
<1>q. QED
  BY <1>3, <1>4, <1>5, QueueMoves

-----------------------------------------------------------------------------
(* The answers.                                                            *)

LEMMA AnswerStep ==
    ASSUME Types, AnswerHonest, [Next]_vars
    PROVE  AnswerHonest'
<1>1. CASE \E c \in Clients : Arrive(c)
    BY <1>1, OwnerAssumption DEF Arrive, Return, Goto, Types, InQueue, dbVars,
     AnswerHonest, OwnedBy, Free
<1>2. CASE \E c \in Clients : FastNone(c)
    BY <1>2, OwnerAssumption DEF FastNone, Goto, Types, InQueue, dbVars,
     AnswerHonest, OwnedBy, Free
<1>3. CASE \E c \in Clients : FastError(c)
    BY <1>3, OwnerAssumption DEF FastError, Return, Goto, Types, InQueue,
     dbVars, AnswerHonest, OwnedBy, Free
<1>4. CASE \E c \in Clients : FastUncertain(c)
    BY <1>4, OwnerAssumption DEF FastUncertain, Return, Goto, Types, InQueue,
     dbVars, AnswerHonest, OwnedBy, Free
<1>5. CASE \E c \in Clients : CheckDraining(c)
    BY <1>5, OwnerAssumption DEF CheckDraining, Return, Goto, Types, InQueue,
     dbVars, AnswerHonest, OwnedBy, Free
<1>6. CASE \E c \in Clients : enterQueue(c)
    BY <1>6, OwnerAssumption DEF enterQueue, Return, Goto, Types, InQueue,
     dbVars, AnswerHonest, OwnedBy, Free
<1>7. CASE \E c \in Clients : Check(c)
    BY <1>7, OwnerAssumption DEF Check, LeaveOr, Leave, Return, Goto,
     LookAgain, Types, InQueue, dbVars, AnswerHonest, OwnedBy, Free
<1>8. CASE \E c \in Clients : ClaimNone(c)
    BY <1>8, OwnerAssumption DEF ClaimNone, Goto, Types, InQueue, dbVars,
     AnswerHonest, OwnedBy, Free
<1>9. CASE \E c \in Clients : ClaimError(c)
    BY <1>9, OwnerAssumption DEF ClaimError, Goto, Types, InQueue, dbVars,
     AnswerHonest, OwnedBy, Free
<1>10. CASE \E c \in Clients : ClaimUncertain(c)
    BY <1>10, OwnerAssumption DEF ClaimUncertain, Leave, Return, Goto,
     LookAgain, Types, InQueue, dbVars, AnswerHonest, OwnedBy, Free
<1>11. CASE \E c \in Clients : Missed(c)
    BY <1>11, OwnerAssumption DEF Missed, LeaveOr, Leave, Return, Goto,
     LookAgain, Types, InQueue, dbVars, AnswerHonest, OwnedBy, Free
<1>12. CASE \E c \in Clients : ContextDone(c)
    BY <1>12, OwnerAssumption DEF ContextDone, Leave, Return, Goto, LookAgain,
     Types, InQueue, dbVars, AnswerHonest, OwnedBy, Free
<1>13. CASE \E c \in Clients : DrainDone(c)
    BY <1>13, OwnerAssumption DEF DrainDone, Leave, Return, Goto, LookAgain,
     Types, InQueue, dbVars, AnswerHonest, OwnedBy, Free
<1>14. CASE \E c \in Clients : Woken(c)
    BY <1>14, OwnerAssumption DEF Woken, LookAgain, Goto, Types, InQueue,
     dbVars, AnswerHonest, OwnedBy, Free
<1>15. CASE \E c \in Clients : PollTick(c)
    BY <1>15, OwnerAssumption DEF PollTick, LookAgain, Goto, Types, InQueue,
     dbVars, AnswerHonest, OwnedBy, Free
<1>16. CASE \E c \in Clients : Forget(c)
    BY <1>16, OwnerAssumption DEF Forget, Goto, Types, InQueue, dbVars,
     AnswerHonest, OwnedBy, Free
<1>17. CASE \E c \in Clients : Cancel(c)
    BY <1>17, OwnerAssumption DEF Cancel, Types, InQueue, dbVars,
     AnswerHonest, OwnedBy, Free
<1>18. CASE \E c \in Clients : Deadline(c)
    BY <1>18, OwnerAssumption DEF Deadline, Types, InQueue, dbVars,
     AnswerHonest, OwnedBy, Free
<1>19. CASE \E c \in Clients, x \in Slots : FastHit(c, x)
    BY <1>19, OwnerAssumption DEF FastHit, Return, Goto, Types, InQueue,
     dbVars, AnswerHonest, OwnedBy, Free
<1>20. CASE \E c \in Clients, x \in Slots : ClaimHit(c, x)
    BY <1>20, OwnerAssumption DEF ClaimHit, Leave, Return, Goto, LookAgain,
     Types, InQueue, dbVars, AnswerHonest, OwnedBy, Free
<1>21. CASE \E c \in Clients, x \in Slots : ClaimFull(c, x)
    BY <1>21, OwnerAssumption DEF ClaimFull, Goto, Types, InQueue, dbVars,
     AnswerHonest, OwnedBy, Free
<1>22. CASE \E c \in Clients, x \in Slots : EndSession(c, x)
    BY <1>22, OwnerAssumption DEF EndSession, Release, Unheard, Types,
     InQueue, dbVars, AnswerHonest, OwnedBy, Free
<1>23. CASE Wake
    BY <1>23, OwnerAssumption DEF Wake, Types, InQueue, dbVars, AnswerHonest,
     OwnedBy, Free
<1>24. CASE Disconnect
    BY <1>24, OwnerAssumption DEF Disconnect, Unheard, Types, InQueue, dbVars,
     AnswerHonest, OwnedBy, Free
<1>25. CASE Reconnect
    BY <1>25, OwnerAssumption DEF Reconnect, Types, InQueue, dbVars,
     AnswerHonest, OwnedBy, Free
<1>26. CASE BeginDrain
    BY <1>26, OwnerAssumption DEF BeginDrain, Types, InQueue, dbVars,
     AnswerHonest, OwnedBy, Free
<1>27. CASE Fleet
    BY <1>27, OwnerAssumption DEF Fleet, Release, Unheard, Types, InQueue,
     dbVars, AnswerHonest, OwnedBy, Free
<1>28. CASE UNCHANGED vars
    BY <1>28, OwnerAssumption DEF vars, dbVars, Types, InQueue, dbVars,
     AnswerHonest, OwnedBy, Free
<1>q. QED
  BY <1>1, <1>2, <1>3, <1>4, <1>5, <1>6, <1>7, <1>8, <1>9, <1>10, <1>11,
     <1>12, <1>13, <1>14, <1>15, <1>16, <1>17, <1>18, <1>19, <1>20, <1>21,
     <1>22, <1>23, <1>24, <1>25, <1>26, <1>27, <1>28 DEF Next, AdmitStep

-----------------------------------------------------------------------------
(* The wake-ups.                                                           *)

LEMMA LookStep ==
    ASSUME Types, Types', LookInv, [Next]_vars
    PROVE  LookInv'
<1>1. CASE \E c \in Clients : Arrive(c)
    BY <1>1, OwnerAssumption DEF Arrive, Return, Goto, Types, InQueue, dbVars,
     LookInv, Told, Free
<1>2. CASE \E c \in Clients : FastNone(c)
    BY <1>2, OwnerAssumption DEF FastNone, Goto, Types, InQueue, dbVars,
     LookInv, Told, Free
<1>3. CASE \E c \in Clients : FastError(c)
    BY <1>3, OwnerAssumption DEF FastError, Return, Goto, Types, InQueue,
     dbVars, LookInv, Told, Free
<1>4. CASE \E c \in Clients : FastUncertain(c)
    BY <1>4, OwnerAssumption DEF FastUncertain, Return, Goto, Types, InQueue,
     dbVars, LookInv, Told, Free
<1>5. CASE \E c \in Clients : CheckDraining(c)
    BY <1>5, OwnerAssumption DEF CheckDraining, Return, Goto, Types, InQueue,
     dbVars, LookInv, Told, Free
<1>6. CASE \E c \in Clients : enterQueue(c)
    BY <1>6, OwnerAssumption DEF enterQueue, Return, Goto, Types, InQueue,
     dbVars, LookInv, Told, Free
<1>7. CASE \E c \in Clients : Check(c)
    BY <1>7, OwnerAssumption DEF Check, LeaveOr, Leave, Return, Goto,
     LookAgain, Types, InQueue, dbVars, LookInv, Told, Free
<1>8. CASE \E c \in Clients : ClaimNone(c)
  <2>1. PICK c \in Clients : ClaimNone(c)
    BY <1>8
  <2>2. UNCHANGED <<owner, excluded, wake, note>>
    BY <2>1 DEF ClaimNone, dbVars
  <2>3. \A d \in Clients \ {c} : silent'[d] = silent[d] /\ pc'[d] = pc[d]
    BY <2>1 DEF ClaimNone, Goto, Types
  <2>4. pc[c] = "claiming" /\ pc'[c] = "missed"
    BY <2>1 DEF ClaimNone, Goto, Types
  <2>5. silent'[c] <=> silent[c] \/ ~(Free \subseteq excluded[c])
    BY <2>1 DEF ClaimNone, Types
  <2>6. Free # {} /\ ~silent'[c] => Free \cap excluded[c] # {} /\ ~silent[c]
    BY <2>5
  <2>q. QED
    BY <2>2, <2>3, <2>4, <2>6 DEF LookInv, Told, Free
<1>9. CASE \E c \in Clients : ClaimError(c)
    BY <1>9, OwnerAssumption DEF ClaimError, Goto, Types, InQueue, dbVars,
     LookInv, Told, Free
<1>10. CASE \E c \in Clients : ClaimUncertain(c)
    BY <1>10, OwnerAssumption DEF ClaimUncertain, Leave, Return, Goto,
     LookAgain, Types, InQueue, dbVars, LookInv, Told, Free
<1>11. CASE \E c \in Clients : Missed(c)
    BY <1>11, OwnerAssumption DEF Missed, LeaveOr, Leave, Return, Goto,
     LookAgain, Types, InQueue, dbVars, LookInv, Told, Free
<1>12. CASE \E c \in Clients : ContextDone(c)
    BY <1>12, OwnerAssumption DEF ContextDone, Leave, Return, Goto, LookAgain,
     Types, InQueue, dbVars, LookInv, Told, Free
<1>13. CASE \E c \in Clients : DrainDone(c)
    BY <1>13, OwnerAssumption DEF DrainDone, Leave, Return, Goto, LookAgain,
     Types, InQueue, dbVars, LookInv, Told, Free
<1>14. CASE \E c \in Clients : Woken(c)
    BY <1>14, OwnerAssumption DEF Woken, LookAgain, Goto, Types, InQueue,
     dbVars, LookInv, Told, Free
<1>15. CASE \E c \in Clients : PollTick(c)
    BY <1>15, OwnerAssumption DEF PollTick, LookAgain, Goto, Types, InQueue,
     dbVars, LookInv, Told, Free
<1>16. CASE \E c \in Clients : Forget(c)
    BY <1>16, OwnerAssumption DEF Forget, Goto, Types, InQueue, dbVars,
     LookInv, Told, Free
<1>17. CASE \E c \in Clients : Cancel(c)
    BY <1>17, OwnerAssumption DEF Cancel, Types, InQueue, dbVars, LookInv,
     Told, Free
<1>18. CASE \E c \in Clients : Deadline(c)
    BY <1>18, OwnerAssumption DEF Deadline, Types, InQueue, dbVars, LookInv,
     Told, Free
<1>19. CASE \E c \in Clients, x \in Slots : FastHit(c, x)
    BY <1>19, OwnerAssumption DEF FastHit, Return, Goto, Types, InQueue,
     dbVars, LookInv, Told, Free
<1>20. CASE \E c \in Clients, x \in Slots : ClaimHit(c, x)
    BY <1>20, OwnerAssumption DEF ClaimHit, Leave, Return, Goto, LookAgain,
     Types, InQueue, dbVars, LookInv, Told, Free
<1>21. CASE \E c \in Clients, x \in Slots : ClaimFull(c, x)
    BY <1>21, OwnerAssumption DEF ClaimFull, Goto, Types, InQueue, dbVars,
     LookInv, Told, Free
<1>22. CASE \E c \in Clients, x \in Slots : EndSession(c, x)
    BY <1>22, OwnerAssumption DEF EndSession, Release, Unheard, Types,
     InQueue, dbVars, LookInv, Told, Free
<1>23. CASE Wake
    BY <1>23, OwnerAssumption DEF Wake, Types, InQueue, dbVars, LookInv, Told,
     Free
<1>24. CASE Disconnect
    BY <1>24, OwnerAssumption DEF Disconnect, Unheard, Types, InQueue, dbVars,
     LookInv, Told, Free
<1>25. CASE Reconnect
    BY <1>25, OwnerAssumption DEF Reconnect, Types, InQueue, dbVars, LookInv,
     Told, Free
<1>26. CASE BeginDrain
    BY <1>26, OwnerAssumption DEF BeginDrain, Types, InQueue, dbVars, LookInv,
     Told, Free
<1>27. CASE Fleet
    BY <1>27, OwnerAssumption DEF Fleet, Release, Unheard, Types, InQueue,
     dbVars, LookInv, Told, Free
<1>28. CASE UNCHANGED vars
    BY <1>28, OwnerAssumption DEF vars, dbVars, Types, InQueue, dbVars,
     LookInv, Told, Free
<1>q. QED
  BY <1>1, <1>2, <1>3, <1>4, <1>5, <1>6, <1>7, <1>8, <1>9, <1>10, <1>11,
     <1>12, <1>13, <1>14, <1>15, <1>16, <1>17, <1>18, <1>19, <1>20, <1>21,
     <1>22, <1>23, <1>24, <1>25, <1>26, <1>27, <1>28 DEF Next, AdmitStep

-----------------------------------------------------------------------------
(* The theorems.                                                           *)

\* The inductive invariant holds in every reachable state of admission.
THEOREM Invariance == Spec => []IInv
<1>1. Init => IInv
  <2> SUFFICES ASSUME Init PROVE IInv
    OBVIOUS
  <2>1. Types
    <3>1. owner \in [Slots -> {"free", "down", "other"} \cup Clients]
      BY DEF Init
    <3>2. /\ pc \in [Clients -> {"idle", "fast", "recheck", "enter", "done"} \cup InQueue]
          /\ result \in [Clients -> Results]
      BY DEF Init, Results
    <3>3. /\ excluded \in [Clients -> SUBSET Slots]
          /\ ctx \in [Clients -> SUBSET {"cancelled", "deadline"}]
      BY DEF Init
    <3>4. silent \in [Clients -> BOOLEAN] /\ wake \in [Clients -> BOOLEAN]
      BY DEF Init
    <3>5. queued \in Int
      BY DEF Init
    <3>6. note \in BOOLEAN /\ listening \in BOOLEAN /\ draining \in BOOLEAN
      BY Zenon DEF Init
    <3>q. QED
      BY <3>1, <3>2, <3>3, <3>4, <3>5, <3>6 DEF Types
  <2>2. QueueAccounting
    <3>1. {c \in Clients : pc[c] \in InQueue} = {}
      BY DEF Init, InQueue
    <3>q. QED
      BY <3>1, QueueAssumption, FS_EmptySet DEF Init, QueueAccounting
  <2>3. AnswerHonest
    BY OwnerAssumption DEF Init, AnswerHonest, OwnedBy
  <2>4. LookInv
    BY DEF Init, LookInv, Free
  <2>q. QED
    BY <2>1, <2>2, <2>3, <2>4 DEF IInv
<1>2. IInv /\ [Next]_vars => IInv'
  BY TypesStep, QueueStep, AnswerStep, LookStep DEF IInv
<1>q. QED
  BY <1>1, <1>2, PTL DEF Spec

\* Every variable of Admit, the waker and the listener keeps its type, and the
\* queue counter its bounds.
THEOREM AdmissionTypeCorrect == Spec => []TypeOK
<1>1. IInv => TypeOK
  <2> SUFFICES ASSUME IInv PROVE TypeOK
    OBVIOUS
  <2>1. IsFiniteSet({c \in Clients : pc[c] \in InQueue})
    BY ClientsAssumption, FS_Subset
  <2>2. queued \in 0..MaxQueue
    BY <2>1, FS_CardinalityType, QueueAssumption DEF IInv, QueueAccounting
  <2>q. QED
    BY <2>2 DEF IInv, Types, TypeOK
<1>q. QED
  BY <1>1, Invariance, PTL

\* enterQueue and leaveQueue balance on every path through Admit: the counter
\* is the number of requests in the queue and stays within MAX_QUEUE_SIZE.
THEOREM QueueIsExact == Spec => []QueueAccounting
<1>1. IInv => QueueAccounting
  BY DEF IInv
<1>q. QED
  BY <1>1, Invariance, PTL

\* Whatever strikes in mid-claim, only a request answered with a session or an
\* uncertain commit owns a session row, and it owns one at most.
THEOREM AnswersAreHonest == Spec => []AnswerHonest
<1>1. IInv => AnswerHonest
  BY DEF IInv
<1>q. QED
  BY <1>1, Invariance, PTL

\* The waker's one-element channel loses no wake-up: a request that sleeps
\* beside a free slot could not have been told of it.
THEOREM WakeupsKept == Spec => []NoLostWakeup
<1>1. IInv => NoLostWakeup
  BY DEF IInv, LookInv, Told, NoLostWakeup
<1>q. QED
  BY <1>1, Invariance, PTL
=============================================================================
