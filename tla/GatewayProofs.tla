---------------------------- MODULE GatewayProofs ---------------------------
(***************************************************************************)
(* The gateway's tables and sockets, for every number of sessions and of   *)
(* upgrade requests.                                                       *)
(***************************************************************************)
EXTENDS Gateway, TLAPS

\* A request that was not handled yet has left no trace.
Fresh ==
    \A k \in Conns :
        client[k] = "none" => upstream[k] = "none" /\ k \notin accepted /\ ~Pending(k)

IInv == TypeOK /\ TablesAgree /\ NoHalfOpen /\ ShutdownQuiet /\ Fresh

\* Closing a socket leaves it closed or told to close.
LEMMA CloseSocketCloses ==
    ASSUME NEW s \in SocketState
    PROVE  /\ closeSocket(s) \in SocketState
           /\ closeSocket(s) \notin {"open", "connecting"}
           /\ s # "destroyed" => closeSocket(s) # "destroyed"
           /\ s # "none" => closeSocket(s) # "none"
           /\ s = "none" => closeSocket(s) = "none"
BY DEF closeSocket, SocketState

\* So does refusing an upgrade.
LEMMA RejectCloses ==
    ASSUME NEW s \in SocketState \ {"connecting"}
    PROVE  /\ rejectUpgrade(s) \in SocketState \ {"connecting"}
           /\ rejectUpgrade(s) # "open"
           /\ s # "none" => rejectUpgrade(s) # "none"
           /\ s = "none" => rejectUpgrade(s) = "none"
BY DEF rejectUpgrade, SocketState

\* Init establishes the invariant.
LEMMA InitInv == Init => IInv
BY NoConnAssumption, IdOfAssumption
   DEF Init, IInv, TypeOK, TablesAgree, NoHalfOpen, ShutdownQuiet, Fresh, SocketState,
       Pending, Connected

\* A connection that leaves the tables through closeSession or closePeer
\* keeps the invariant, provided its sockets are of the right kind and, if
\* it is in no table, are not reopened.
LEMMA CloseInv ==
    ASSUME IInv, NEW k \in Conns,
           NEW c \in SocketState \ {"connecting"}, NEW u \in SocketState \ {"destroyed"},
           client[k] # "none", c # "none",
           ~Connected(k) /\ ~Pending(k) =>
               c \in {"ended", "destroyed", "closed"} /\ u \in {"none", "ended", "closed"},
           closeConnection(k, c, u),
           UNCHANGED <<accepted, pendingSessionIds, pendingSessions, shuttingDown>>
    PROVE  IInv'
<1> USE NoConnAssumption, IdOfAssumption DEF closeConnection
<1> USE DEF IInv
<1>1. /\ closeSocket(c) \in SocketState \ {"connecting", "open", "none"}
      /\ closeSocket(u) \in SocketState \ {"connecting", "open", "destroyed"}
  BY CloseSocketCloses
<1>2. TypeOK'
  BY <1>1 DEF TypeOK, removeSession
<1>3. TablesAgree'
  BY DEF TypeOK, TablesAgree, removeSession
<1>4. Fresh'
  BY <1>1 DEF TypeOK, Fresh, removeSession, Pending
<1>5. ShutdownQuiet'
  BY DEF TypeOK, ShutdownQuiet, removeSession
<1>6. NoHalfOpen'
  <2> SUFFICES ASSUME NEW j \in Conns,
                      client'[j] # "none", ~Pending(j)', ~Connected(j)'
               PROVE  /\ client'[j] \in {"ended", "destroyed", "closed"}
                      /\ upstream'[j] \in {"none", "ended", "closed"}
    BY DEF NoHalfOpen
  <2>1. CASE j # k
    <3>1. client'[j] = client[j] /\ upstream'[j] = upstream[j]
      BY <2>1 DEF TypeOK
    <3>2. ~Pending(j)
      BY DEF Pending
    <3>3. ~Connected(j)
      BY <2>1 DEF Connected, removeSession, TypeOK
    <3> QED BY <3>1, <3>2, <3>3 DEF NoHalfOpen
  <2>2. CASE j = k /\ Connected(k)
    <3>1. client'[k] = closeSocket(c) /\ upstream'[k] = closeSocket(u)
      BY <2>2 DEF TypeOK
    <3> QED BY <2>2, <3>1, <1>1 DEF SocketState
  <2>3. CASE j = k /\ ~Connected(k)
    <3>1. client'[k] = c /\ upstream'[k] = u
      BY <2>3 DEF TypeOK
    <3>2. ~Pending(k)
      BY <2>3 DEF Pending
    <3> QED BY <2>3, <3>1, <3>2
  <2> QED BY <2>1, <2>2, <2>3
<1> QED BY <1>2, <1>3, <1>4, <1>5, <1>6

\* A dial that is given up, whatever becomes of its client's socket, keeps
\* the invariant, provided that socket is on its way out.
LEMMA AbortInv ==
    ASSUME IInv, NEW k \in Conns, NEW c \in {"ended", "destroyed", "closed"},
           Pending(k), abortDial(k),
           client' = [client EXCEPT ![k] = c],
           UNCHANGED <<accepted, sessions, shuttingDown>>
    PROVE  IInv'
<1> USE NoConnAssumption, IdOfAssumption DEF IInv, abortDial, clearPending
<1>1. TypeOK'
  BY DEF TypeOK, SocketState
<1>2. TablesAgree'
  BY DEF TypeOK, TablesAgree
<1>3. Fresh'
  BY DEF TypeOK, Fresh, Pending
<1>4. ShutdownQuiet'
  BY DEF TypeOK, ShutdownQuiet
<1>5. NoHalfOpen'
  BY DEF TypeOK, NoHalfOpen, TablesAgree, Pending, Connected
<1> QED BY <1>1, <1>2, <1>3, <1>4, <1>5

\* Every handler keeps the invariant.
LEMMA StepInv == IInv /\ [Next]_vars => IInv'
<1> SUFFICES ASSUME IInv, [Next]_vars PROVE IInv'
  OBVIOUS
<1> USE NoConnAssumption, IdOfAssumption
<1>pend. \A k \in Conns : Pending(k) => client[k] # "none"
  BY DEF IInv, Fresh
<1>typ. \A k \in Conns : /\ client[k] \in SocketState \ {"connecting"}
                         /\ upstream[k] \in SocketState \ {"destroyed"}
  BY DEF IInv, TypeOK
<1>half. \A k \in Conns : ~Pending(k) /\ ~Connected(k) /\ client[k] # "none" =>
            /\ client[k] \in {"ended", "destroyed", "closed"}
            /\ upstream[k] \in {"none", "ended", "closed"}
  BY DEF IInv, NoHalfOpen
<1>1. ASSUME NEW k \in Conns, handleUpgrade(k) PROVE IInv'
  <2> USE <1>1 DEF handleUpgrade, IInv
  <2>1. TypeOK'
    BY DEF TypeOK, SocketState, tables
  <2>2. TablesAgree'
    BY DEF TypeOK, TablesAgree, Fresh, tables
  <2>3. NoHalfOpen'
    BY DEF TypeOK, NoHalfOpen, TablesAgree, Fresh, Pending, Connected, tables
  <2>4. ShutdownQuiet'
    BY DEF TypeOK, ShutdownQuiet, tables
  <2>5. Fresh'
    BY DEF TypeOK, Fresh, Pending, tables
  <2> QED BY <2>1, <2>2, <2>3, <2>4, <2>5
<1>2. ASSUME NEW k \in Conns, acceptClient(k) PROVE IInv'
  <2> USE <1>2
  <2>1. Pending(k) /\ client[k] # "none" /\ upstream[k] = "connecting"
    BY <1>pend DEF acceptClient
  <2>2. CASE client[k] = "destroyed" /\ abortDial(k) /\ UNCHANGED <<client, accepted, sessions>>
    <3>1. client' = [client EXCEPT ![k] = "destroyed"]
      BY <2>2 DEF IInv, TypeOK
    <3> QED BY <2>1, <2>2, <3>1, AbortInv DEF acceptClient
  <2>3. CASE ~shuttingDown /\ accept(k)
    <3> USE <2>1, <2>3 DEF accept, acceptClient, clearPending, IInv
    <3>1. TypeOK'
      BY DEF TypeOK, SocketState
    <3>2. TablesAgree'
      BY DEF TypeOK, TablesAgree, Pending
    <3>3. NoHalfOpen'
      BY DEF TypeOK, NoHalfOpen, TablesAgree, Pending, Connected
    <3>4. ShutdownQuiet'
      BY DEF TypeOK, ShutdownQuiet
    <3>5. Fresh'
      BY DEF TypeOK, Fresh, Pending
    <3> QED BY <3>1, <3>2, <3>3, <3>4, <3>5
  <2>4. CASE ~shuttingDown /\ Malformed(k)
    <3> USE <2>1, <2>4 DEF Malformed, acceptClient, tables, IInv
    <3>1. TypeOK'
      BY DEF TypeOK, SocketState
    <3>2. TablesAgree'
      BY DEF TypeOK, TablesAgree
    <3>3. NoHalfOpen'
      BY DEF TypeOK, NoHalfOpen, Pending, Connected
    <3>4. ShutdownQuiet'
      BY DEF TypeOK, ShutdownQuiet
    <3>5. Fresh'
      BY DEF TypeOK, Fresh, Pending
    <3> QED BY <3>1, <3>2, <3>3, <3>4, <3>5
  <2>5. CASE rejectClient(k) /\ UNCHANGED <<accepted, sessions>>
    <3>1. rejectUpgrade(client[k]) \in {"ended", "destroyed", "closed"}
      BY <1>typ, <2>1, RejectCloses DEF SocketState
    <3>2. client' = [client EXCEPT ![k] = rejectUpgrade(client[k])]
      BY <2>5 DEF rejectClient
    <3> QED BY <2>1, <2>5, <3>1, <3>2, AbortInv DEF acceptClient, rejectClient
  <2> QED BY <2>2, <2>3, <2>4, <2>5 DEF acceptClient
<1>3. ASSUME NEW k \in Conns, UpstreamError(k) PROVE IInv'
  <2> USE <1>3
  <2>1. CASE Pending(k) /\ rejectClient(k) /\ UNCHANGED sessions
    <3>1. rejectUpgrade(client[k]) \in {"ended", "destroyed", "closed"}
      BY <1>typ, <1>pend, <2>1, RejectCloses DEF SocketState
    <3>2. client' = [client EXCEPT ![k] = rejectUpgrade(client[k])]
      BY <2>1 DEF rejectClient
    <3> QED BY <2>1, <3>1, <3>2, AbortInv DEF UpstreamError, rejectClient
  <2>2. CASE /\ ~Pending(k) /\ k \in accepted
             /\ closeConnection(k, client[k], "closed")
             /\ UNCHANGED <<pendingSessionIds, pendingSessions>>
    <3>1. client[k] # "none"
      BY <2>2 DEF IInv, Fresh
    <3>2. "closed" \in SocketState \ {"destroyed"}
      BY DEF SocketState
    <3> QED BY <2>2, <3>1, <3>2, <1>typ, <1>half, CloseInv DEF UpstreamError
  <2> QED BY <2>1, <2>2 DEF UpstreamError
<1>4. ASSUME NEW k \in Conns, ConnectionError(k) PROVE IInv'
  <2> USE <1>4
  <2>1. client[k] # "none"
    BY DEF IInv, Fresh, ConnectionError
  <2>2. PICK c \in {client[k], "closed"} : closeConnection(k, c, upstream[k])
    BY DEF ConnectionError
  <2>3. c \in SocketState \ {"connecting"} /\ c # "none"
    BY <1>typ, <2>1 DEF SocketState
  <2> QED BY <2>1, <2>2, <2>3, <1>typ, CloseInv DEF ConnectionError
<1>5. ASSUME NEW k \in Conns, ClientDestroyed(k) PROVE IInv'
  <2> USE <1>5 DEF ClientDestroyed, tables, IInv
  <2>1. TypeOK'
    BY DEF TypeOK, SocketState
  <2>2. TablesAgree'
    BY DEF TypeOK, TablesAgree
  <2>3. NoHalfOpen'
    BY DEF TypeOK, NoHalfOpen, Pending, Connected
  <2>4. ShutdownQuiet' /\ Fresh'
    BY DEF TypeOK, ShutdownQuiet, Fresh, Pending
  <2> QED BY <2>1, <2>2, <2>3, <2>4
<1>6. ASSUME NEW k \in Conns, ClientClose(k) PROVE IInv'
  <2> USE <1>6
  <2>1. CASE /\ Pending(k) /\ abortDial(k)
             /\ client' = [client EXCEPT ![k] = "closed"] /\ UNCHANGED sessions
    BY <2>1, AbortInv DEF ClientClose
  <2>2. CASE /\ ~Pending(k) /\ closeConnection(k, "closed", upstream[k])
             /\ UNCHANGED <<pendingSessionIds, pendingSessions>>
    <3>1. client[k] # "none" /\ "closed" \in SocketState \ {"connecting"}
      BY DEF ClientClose, SocketState
    <3> QED BY <2>2, <3>1, <1>typ, <1>half, CloseInv DEF ClientClose
  <2> QED BY <2>1, <2>2 DEF ClientClose
<1>7. ASSUME NEW k \in Conns, UpstreamClose(k) PROVE IInv'
  <2>1. client[k] # "none" /\ "closed" \in SocketState \ {"destroyed"}
    BY <1>7 DEF UpstreamClose, IInv, Fresh, SocketState
  <2> QED BY <1>7, <2>1, <1>typ, <1>half, CloseInv DEF UpstreamClose
<1>8. ASSUME NEW i \in Ids, closeSession(i) PROVE IInv'
  <2>1. /\ sessions[i] \in Conns
        /\ Connected(sessions[i])
        /\ client[sessions[i]] # "none"
    BY <1>8 DEF closeSession, IInv, TypeOK, TablesAgree, Fresh, Connected
  <2> QED BY <1>8, <2>1, <1>typ, CloseInv DEF closeSession
<1>9. ASSUME runShutdown PROVE IInv'
  <2> USE <1>9 DEF runShutdown
  <2>1. \A k \in Conns : ~Pending(k)' /\ ~Connected(k)'
    BY DEF Pending, Connected
  <2>2. \A k \in Conns :
          /\ client'[k] \in SocketState \ {"connecting"}
          /\ upstream'[k] \in SocketState \ {"destroyed"}
          /\ client'[k] = "none" <=> client[k] = "none"
          /\ upstream[k] = "none" => upstream'[k] \in {"none", "closed"}
          /\ client'[k] # "none" => /\ client'[k] \in {"ended", "destroyed", "closed"}
                                    /\ upstream'[k] \in {"none", "ended", "closed"}
    <3> SUFFICES ASSUME NEW k \in Conns
                 PROVE  /\ client'[k] \in SocketState \ {"connecting"}
                        /\ upstream'[k] \in SocketState \ {"destroyed"}
                        /\ client'[k] = "none" <=> client[k] = "none"
                        /\ upstream[k] = "none" => upstream'[k] \in {"none", "closed"}
                        /\ client'[k] # "none" =>
                               /\ client'[k] \in {"ended", "destroyed", "closed"}
                               /\ upstream'[k] \in {"none", "ended", "closed"}
      OBVIOUS
    <3>1. CASE Connected(k)
      <4>1. client'[k] = closeSocket(client[k]) /\ upstream'[k] = closeSocket(upstream[k])
        BY <3>1
      <4> QED BY <4>1, <1>typ, CloseSocketCloses DEF SocketState
    <3>2. CASE ~Connected(k) /\ Pending(k)
      <4>1. client'[k] = rejectUpgrade(client[k]) /\ upstream'[k] = "closed"
        BY <3>2
      <4> QED BY <4>1, <1>typ, RejectCloses DEF SocketState
    <3>3. CASE ~Connected(k) /\ ~Pending(k)
      BY <3>3, <1>typ, <1>half
    <3> QED BY <3>1, <3>2, <3>3
  <2>3. TypeOK'
    BY <2>2 DEF IInv, TypeOK
  <2>4. TablesAgree'
    BY DEF IInv, TablesAgree
  <2>5. NoHalfOpen'
    BY <2>1, <2>2 DEF NoHalfOpen
  <2>6. ShutdownQuiet'
    BY DEF ShutdownQuiet
  <2>7. Fresh'
    <3>1. \A k \in Conns : client[k] = "none" => upstream'[k] = "none"
      BY DEF IInv, Fresh, TablesAgree, Connected, TypeOK
    <3> QED BY <2>1, <2>2, <3>1 DEF IInv, Fresh
  <2> QED BY <2>3, <2>4, <2>5, <2>6, <2>7 DEF IInv
<1>10. CASE UNCHANGED vars
  BY <1>10 DEF vars, tables, IInv, TypeOK, TablesAgree, NoHalfOpen, ShutdownQuiet, Fresh,
               Pending, Connected
<1> QED BY <1>1, <1>2, <1>3, <1>4, <1>5, <1>6, <1>7, <1>8, <1>9, <1>10 DEF Next

\* The invariant holds of every reachable state.
LEMMA Invariant == Spec => []IInv
BY InitInv, StepInv, PTL DEF Spec

\* The tables of the gateway always agree: no id is both pending and
\* connected, and the two pending tables have the same ids.
THEOREM TablesAlwaysAgree == Spec => []TablesAgree
<1>1. IInv => TablesAgree
  BY DEF IInv
<1> QED BY <1>1, Invariant, PTL

\* No event order leaks a socket: what is in no table is closed or closing.
THEOREM NothingHalfOpen == Spec => []NoHalfOpen
<1>1. IInv => NoHalfOpen
  BY DEF IInv
<1> QED BY <1>1, Invariant, PTL

\* A gateway that shuts down holds no session and no dial, then or later.
THEOREM ShutdownStaysQuiet == Spec => []ShutdownQuiet
<1>1. IInv => ShutdownQuiet
  BY DEF IInv
<1> QED BY <1>1, Invariant, PTL
=============================================================================
