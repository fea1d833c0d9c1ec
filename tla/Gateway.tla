------------------------------ MODULE Gateway -------------------------------
(***************************************************************************)
(* The worker's WebSocket gateway (gateway.ts): an upgrade request opens a *)
(* connection to the browser, waits for it, and is then accepted and piped *)
(* or refused, while either side may close or fail at any moment, the      *)
(* worker may close a session by id, and the gateway may shut down. Node   *)
(* runs one event handler at a time: each action is one handler.           *)
(***************************************************************************)
EXTENDS Integers, FiniteSets

CONSTANTS Ids,     \* session ids
          Conns,   \* upgrade requests, each with a socket pair of its own
          IdOf,    \* IdOf[k]: the x-pwd-session-id of request k
          NoConn

ASSUME NoConnAssumption == NoConn \notin Conns
ASSUME IdOfAssumption == IdOf \in [Conns -> Ids]

VARIABLES
    client,             \* client[k]: the socket of the request
    upstream,           \* upstream[k]: the socket to the browser
    accepted,           \* requests answered with 101
    sessions,           \* sessions[i]: the connection of session i
    pendingSessionIds,  \* ids with a dial to the browser under way
    pendingSessions,    \* pendingSessions[i]: the request that dials for i
    shuttingDown

tables == <<sessions, pendingSessionIds, pendingSessions>>
vars == <<client, upstream, accepted, tables, shuttingDown>>

\* "ended": the last answer or a close frame was sent; "destroyed": the
\* socket is dead, its close event still to come.
SocketState == {"none", "connecting", "open", "ended", "destroyed", "closed"}

TypeOK ==
    /\ client \in [Conns -> SocketState \ {"connecting"}]
    /\ upstream \in [Conns -> SocketState \ {"destroyed"}]
    /\ accepted \subseteq Conns
    /\ sessions \in [Ids -> Conns \cup {NoConn}]
    /\ pendingSessionIds \subseteq Ids
    /\ pendingSessions \in [Ids -> Conns \cup {NoConn}]
    /\ shuttingDown \in BOOLEAN

Init ==
    /\ client = [k \in Conns |-> "none"]
    /\ upstream = [k \in Conns |-> "none"]
    /\ accepted = {}
    /\ sessions = [i \in Ids |-> NoConn]
    /\ pendingSessionIds = {}
    /\ pendingSessions = [i \in Ids |-> NoConn]
    /\ shuttingDown = FALSE

-----------------------------------------------------------------------------
Pending(k) == pendingSessions[IdOf[k]] = k
Connected(k) == sessions[IdOf[k]] = k

\* closeSocket: a close frame on an open socket, an end to a connecting one.
closeSocket(state) ==
    IF state = "open" THEN "ended" ELSE IF state = "connecting" THEN "closed" ELSE state

\* rejectUpgrade, unless the socket is dead.
rejectUpgrade(state) == IF state = "open" THEN "ended" ELSE state

\* Mutant: the id is left in pendingSessionIds.
clearPendingKeepingId(k) ==
    /\ pendingSessions' = [pendingSessions EXCEPT ![IdOf[k]] = NoConn]
    /\ UNCHANGED pendingSessionIds

clearPending(k) ==
    /\ pendingSessionIds' = pendingSessionIds \ {IdOf[k]}
    /\ pendingSessions' = [pendingSessions EXCEPT ![IdOf[k]] = NoConn]

abortDial(k) ==
    /\ clearPending(k)
    /\ upstream' = [upstream EXCEPT ![k] = "closed"]

rejectClient(k) ==
    /\ abortDial(k)
    /\ client' = [client EXCEPT ![k] = rejectUpgrade(@)]

\* Mutant: an event of a connection acts on whatever now has its id.
removeSessionAny(k) == sessions' = [sessions EXCEPT ![IdOf[k]] = NoConn]

\* Only the connection the event belongs to is removed.
removeSession(k) ==
    sessions' = [sessions EXCEPT ![IdOf[k]] = IF @ = k THEN NoConn ELSE @]

\* closeSession for the connection k, `c` and `u` being its sockets by now.
closeConnection(k, c, u) ==
    /\ removeSession(k)
    /\ client' = [client EXCEPT ![k] = IF Connected(k) THEN closeSocket(c) ELSE c]
    /\ upstream' = [upstream EXCEPT ![k] = IF Connected(k) THEN closeSocket(u) ELSE u]

-----------------------------------------------------------------------------
\* Refused while shutting down, on a duplicate id, or when the WebSocket
\* constructor throws; otherwise the dial to the browser begins.
handleUpgrade(k) ==
    /\ client[k] = "none"
    /\ \/ /\ client' = [client EXCEPT ![k] = "ended"]
          /\ UNCHANGED <<upstream, tables>>
       \/ /\ ~shuttingDown
          /\ IdOf[k] \notin pendingSessionIds
          /\ sessions[IdOf[k]] = NoConn
          /\ client' = [client EXCEPT ![k] = "open"]
          /\ upstream' = [upstream EXCEPT ![k] = "connecting"]
          /\ pendingSessionIds' = pendingSessionIds \cup {IdOf[k]}
          /\ pendingSessions' = [pendingSessions EXCEPT ![IdOf[k]] = k]
          /\ UNCHANGED sessions
    /\ UNCHANGED <<accepted, shuttingDown>>

\* The handshake succeeds and the pair is piped.
accept(k) ==
    /\ upstream' = [upstream EXCEPT ![k] = "open"]
    /\ accepted' = accepted \cup {k}
    /\ sessions' = [sessions EXCEPT ![IdOf[k]] = k]
    /\ clearPending(k)
    /\ UNCHANGED client

\* ws itself answers a malformed handshake with 400 and calls nobody: the
\* dial stays pending until the socket closes.
Malformed(k) ==
    /\ upstream' = [upstream EXCEPT ![k] = "open"]
    /\ client' = [client EXCEPT ![k] = "ended"]
    /\ UNCHANGED <<accepted, tables>>

\* The browser's side is open. The listener is there only while pending.
acceptClient(k) ==
    /\ upstream[k] = "connecting"
    /\ Pending(k)
    /\ IF client[k] = "destroyed"
       THEN abortDial(k) /\ UNCHANGED <<client, accepted, sessions>>
       ELSE \/ ~shuttingDown /\ accept(k)
            \/ ~shuttingDown /\ Malformed(k)
            \/ rejectClient(k) /\ UNCHANGED <<accepted, sessions>>
    /\ UNCHANGED shuttingDown

\* Mutant: an error before the browser answers is left to the client.
UpstreamErrorIgnored(k) ==
    /\ upstream[k] \in {"connecting", "open", "ended"}
    /\ ~Pending(k) /\ k \in accepted
    /\ closeConnection(k, client[k], "closed")
    /\ UNCHANGED <<accepted, pendingSessionIds, pendingSessions, shuttingDown>>

\* The error event of the browser's side, its handshake timeout included.
UpstreamError(k) ==
    /\ upstream[k] \in {"connecting", "open", "ended"}
    /\ \/ Pending(k) /\ rejectClient(k) /\ UNCHANGED sessions
       \/ /\ ~Pending(k) /\ k \in accepted
          /\ closeConnection(k, client[k], "closed")
          /\ UNCHANGED <<pendingSessionIds, pendingSessions>>
    /\ UNCHANGED <<accepted, shuttingDown>>

\* An error event of the client, or a message that cannot be forwarded.
ConnectionError(k) ==
    /\ k \in accepted
    /\ Connected(k)
    /\ \E c \in {client[k], "closed"} : closeConnection(k, c, upstream[k])
    /\ UNCHANGED <<accepted, pendingSessionIds, pendingSessions, shuttingDown>>

\* The client's socket fails before it is upgraded.
ClientDestroyed(k) ==
    /\ client[k] \in {"open", "ended"}
    /\ k \notin accepted
    /\ client' = [client EXCEPT ![k] = "destroyed"]
    /\ UNCHANGED <<upstream, accepted, tables, shuttingDown>>

\* The close event of the client: a dial is aborted, a peer closed.
ClientClose(k) ==
    /\ client[k] \in {"open", "ended", "destroyed"}
    /\ \/ /\ Pending(k)
          /\ abortDial(k)
          /\ client' = [client EXCEPT ![k] = "closed"]
          /\ UNCHANGED sessions
       \/ /\ ~Pending(k)
          /\ closeConnection(k, "closed", upstream[k])
          /\ UNCHANGED <<pendingSessionIds, pendingSessions>>
    /\ UNCHANGED <<accepted, shuttingDown>>

\* The close event of the browser's side; while pending nobody listens.
UpstreamClose(k) ==
    /\ upstream[k] \in {"open", "ended"}
    /\ closeConnection(k, client[k], "closed")
    /\ UNCHANGED <<accepted, pendingSessionIds, pendingSessions, shuttingDown>>

\* closeSession by id: the worker was told that the session is stale.
closeSession(i) ==
    /\ sessions[i] # NoConn
    /\ LET k == sessions[i] IN closeConnection(k, client[k], upstream[k])
    /\ UNCHANGED <<accepted, pendingSessionIds, pendingSessions, shuttingDown>>

\* Mutant: the dials under way are left alone.
runShutdownConnected ==
    /\ ~shuttingDown
    /\ shuttingDown' = TRUE
    /\ client' = [k \in Conns |-> IF Connected(k) THEN closeSocket(client[k]) ELSE client[k]]
    /\ upstream' = [k \in Conns |-> IF Connected(k) THEN closeSocket(upstream[k])
                                                    ELSE upstream[k]]
    /\ sessions' = [i \in Ids |-> NoConn]
    /\ UNCHANGED <<accepted, pendingSessionIds, pendingSessions>>

\* The sessions are closed and the dials refused, all in one handler.
runShutdown ==
    /\ ~shuttingDown
    /\ shuttingDown' = TRUE
    /\ client' = [k \in Conns |->
                    IF Connected(k) THEN closeSocket(client[k])
                    ELSE IF Pending(k) THEN rejectUpgrade(client[k]) ELSE client[k]]
    /\ upstream' = [k \in Conns |->
                      IF Connected(k) THEN closeSocket(upstream[k])
                      ELSE IF Pending(k) THEN "closed" ELSE upstream[k]]
    /\ sessions' = [i \in Ids |-> NoConn]
    /\ pendingSessionIds' = {}
    /\ pendingSessions' = [i \in Ids |-> NoConn]
    /\ UNCHANGED accepted

Next ==
    \/ \E k \in Conns :
         \/ handleUpgrade(k) \/ acceptClient(k) \/ UpstreamError(k) \/ ConnectionError(k)
         \/ ClientDestroyed(k) \/ ClientClose(k) \/ UpstreamClose(k)
    \/ \E i \in Ids : closeSession(i)
    \/ runShutdown

Spec == Init /\ [][Next]_vars

\* The handshake with the browser has a time limit (upstreamHandshakeTimeoutMs)
\* that ends in an error event; a socket that died, or that ws destroys after
\* its answer to a malformed handshake, emits its close event.
FairSpec ==
    /\ Spec
    /\ \A k \in Conns : /\ WF_vars(upstream[k] = "connecting" /\ UpstreamError(k))
                        /\ WF_vars(client[k] \in {"ended", "destroyed"} /\ ClientClose(k))

-----------------------------------------------------------------------------
(* Properties.                                                             *)

\* The tables agree: one entry per pending id, and no id is both pending
\* and connected, so that the report and the duplicate check are right.
TablesAgree ==
    /\ pendingSessionIds = {i \in Ids : pendingSessions[i] # NoConn}
    /\ \A i \in pendingSessionIds : sessions[i] = NoConn
    /\ \A i \in Ids : /\ sessions[i] # NoConn =>
                            IdOf[sessions[i]] = i /\ sessions[i] \in accepted
                      /\ pendingSessions[i] # NoConn =>
                            IdOf[pendingSessions[i]] = i /\ pendingSessions[i] \notin accepted

\* No socket is leaked: a connection that left the tables, by whichever
\* event and even if its id is in use again, has both its sockets closed or
\* told to close.
NoHalfOpen ==
    \A k \in Conns :
        client[k] # "none" /\ ~Pending(k) /\ ~Connected(k) =>
            /\ client[k] \in {"ended", "destroyed", "closed"}
            /\ upstream[k] \in {"none", "ended", "closed"}

\* Once the gateway shuts down it holds nothing and takes nothing, though
\* dials were under way and their events still arrive.
ShutdownQuiet ==
    shuttingDown => pendingSessionIds = {} /\ \A i \in Ids : sessions[i] = NoConn

\* A dial is settled whatever the browser and the client do: its id does
\* not stay pending, which would refuse the session for ever.
DialSettled == \A k \in Conns : Pending(k) ~> ~Pending(k)
=============================================================================
