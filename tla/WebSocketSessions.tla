-------------------------- MODULE WebSocketSessions --------------------------
(***************************************************************************)
(* The websockets of the sessions and the SyncPlay groups they keep alive: *)
(* serve, subscribe, unsubscribe and disconnect of                         *)
(* jellyfin-api/src/websocket.rs composed with SyncPlayManager (SyncPlay). *)
(* A connection is in the map of the hub and in the count of the manager.  *)
(* The two have a lock each, and serve takes one after the other, so other *)
(* connections and requests come between.                                  *)
(*                                                                         *)
(* Of the HTTP requests only those are here that change membership or make *)
(* a group wait and stop waiting; what is sent over a socket is left out.  *)
(***************************************************************************)
EXTENDS SyncPlay

CONSTANT Connections  \* bound: connections that exist at a time

VARIABLE serving      \* the serve task of each connection

Phases == {"None", "Subscribed", "Open", "Unsubscribed"}

allVars == <<vars, serving>>

ServingInit ==
    /\ Init
    /\ serving \in [Connections -> [phase : {"None"}, session : Sessions]]

\* The connections of s in one of the phases.
Of(s, phases) == {c \in Connections : serving[c].session = s /\ serving[c].phase \in phases}

\* The connections of s in the map of the hub.
Hub(s) == Of(s, {"Subscribed", "Open"})

Moves(c, phase) == serving' = [serving EXCEPT ![c].phase = phase]

-----------------------------------------------------------------------------

\* WebSocketHub::subscribe
Subscribe(c, s) ==
    /\ serving[c].phase = "None"
    /\ serving' = [serving EXCEPT ![c] = [phase |-> "Subscribed", session |-> s]]
    /\ UNCHANGED vars

\* serve counts the connection in the SyncPlay manager.
Open(c) ==
    /\ serving[c].phase = "Subscribed"
    /\ Connect(serving[c].session)
    /\ Moves(c, "Open")

\* disconnect, after the loop of serve ends or a first message fails: a connection
\* that is not the last of its session in the hub is done.
Unsubscribe(c) ==
    /\ serving[c].phase = "Open"
    /\ Moves(c, IF Hub(serving[c].session) = {c} THEN "Unsubscribed" ELSE "None")
    /\ UNCHANGED vars

\* The last one reports the session as disconnected.
ReportDisconnected(c) ==
    /\ serving[c].phase = "Unsubscribed"
    /\ WebsocketDisconnected(serving[c].session)
    /\ Moves(c, "None")

Request(s) ==
    /\ \/ CreateGroup(s) \/ JoinGroup(s) \/ LeaveGroup(s)
       \/ SetNewQueue(s) \/ Ready(s, Current(s))
    /\ UNCHANGED serving

ServingNext ==
    \/ \E c \in Connections :
          \/ \E s \in Sessions : Subscribe(c, s)
          \/ Open(c) \/ Unsubscribe(c) \/ ReportDisconnected(c)
    \/ \E s \in Sessions : Request(s)

ServingSpec == ServingInit /\ [][ServingNext]_allVars

-----------------------------------------------------------------------------
(* Properties *)

\* The manager never counts fewer connections than are open, so no report makes
\* the count wrap or find no entry.
OpenConnectionsCounted ==
    \A s \in Sessions :
        Cardinality(Of(s, {"Open", "Unsubscribed"})) <= websocketConnections[s]

\* A lost connection takes a session out of its group only when the session has no
\* other open connection, in whatever order connections come, go and are reported.
StaysWhileOpen ==
    [][\A s \in Sessions :
          (\E c \in Connections : ReportDisconnected(c)) /\ Leaves(s) =>
              Of(s, {"Open", "Unsubscribed"})' = {}]_allVars

\* A session that loses its last connection is out of its group.
LastDisconnectLeaves ==
    [][\A s \in Sessions :
          Of(s, Phases \ {"None"}) # {} /\ Of(s, Phases \ {"None"})' = {} =>
              sessionGroups'[s] = NoGroup]_allVars
=============================================================================
