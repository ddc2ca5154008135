------------------------ MODULE MCWebSocketSessions ------------------------
(***************************************************************************)
(* The run of SyncPlay and WebSocketSessions in two parts, of which one is *)
(* chosen at the start: all requests of SyncPlay in one group, or those of *)
(* WebSocketSessions between two groups with the sockets.                  *)
(***************************************************************************)
EXTENDS WebSocketSessions

VARIABLE part

MCInit == ServingInit /\ part \in {"playback", "sockets"}

\* Bounds: one group, and one connection of a session.
Playback ==
    /\ Next
    /\ DOMAIN groups' \subseteq {CHOOSE g \in GroupIds : TRUE}
    /\ \A s \in Sessions : websocketConnections'[s] <= 1
    /\ UNCHANGED serving

\* Bound: one item in a queue.
Sockets ==
    /\ ServingNext
    /\ \A g \in DOMAIN groups' : Len(groups'[g].queue.playlist) <= 1

MCNext ==
    /\ \/ part = "playback" /\ Playback
       \/ part = "sockets" /\ Sockets
    /\ UNCHANGED part

MCSpec == MCInit /\ [][MCNext]_<<part, allVars>>

PlaySymmetry == Permutations(Sessions) \cup Permutations(Items)

\* The action properties read the last command after the step only, and nobody reads the
\* session of a connection that is over: states that differ in these are one.
WithoutThePast ==
    <<part, groups, sessionGroups, websocketConnections, announcing,
      [c \in Connections |-> IF serving[c].phase = "None" THEN [phase |-> "None"] ELSE serving[c]]>>
=============================================================================
