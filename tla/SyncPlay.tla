------------------------------ MODULE SyncPlay ------------------------------
(***************************************************************************)
(* SyncPlayManager (jellyfin-server-implementations/src/sync_play.rs):     *)
(* groups of sessions that watch the same queue together.  All state is    *)
(* under one RwLock, so every manager method is one action; the request    *)
(* handlers of jellyfin-api/src/sync_play.rs that need a second critical    *)
(* section (set_ignore_wait) take a second step.                           *)
(*                                                                         *)
(* Left out: times and positions.  A Ready request says whether the        *)
(* client's position is close enough to the group's (MAX_PLAYBACK_OFFSET)  *)
(* and whether it is behind by more than the highest ping; both are inputs. *)
(* Requests of a session that is in no group return without an effect.     *)
(***************************************************************************)
EXTENDS PlayQueue

CONSTANTS Sessions,        \* session ids
          GroupIds,        \* bound: the groups that exist at a time
          NoGroup,         \* session_groups has no entry
          SocketSessions,  \* bound: the sessions that open websockets
          MaxConnections,  \* bound: open websockets of a session
          Modes            \* bound: the repeat and shuffle modes requests set

ASSUME NoGroupAssumption == NoGroup \notin GroupIds
ASSUME SocketSessionsAssumption == SocketSessions \subseteq Sessions
ASSUME MaxConnectionsAssumption == MaxConnections \in Nat
ASSUME ModesAssumption == Modes \subseteq RepeatModes \cup ShuffleModes

VARIABLES
    groups,                \* groups: group id -> ManagedSyncPlayGroup
    sessionGroups,         \* session_groups: session -> group id
    websocketConnections,  \* websocket_connections: session -> count
    command,               \* the playback command the last request emitted
    announcing             \* sessions between set_ignore_wait's two sections

vars == <<groups, sessionGroups, websocketConnections, command, announcing>>

GroupStates == {"Idle", "Waiting", "Playing", "Paused"}
CommandTypes == {"None", "Unpause", "Pause", "Seek", "Stop"}

\* The participants map, its flags as sets of sessions.
Groups == [participants : SUBSET Sessions, buffering : SUBSET Sessions,
           ignoring : SUBSET Sessions, state : GroupStates,
           resume : BOOLEAN, queue : Queues]

\* Groups, membership, counts and commands are well-formed; the queue of each group
\* is a queue after any requests.
TypeOK ==
    /\ DOMAIN groups \in SUBSET GroupIds
    /\ groups \in [DOMAIN groups -> Groups]
    /\ sessionGroups \in [Sessions -> GroupIds \cup {NoGroup}]
    /\ websocketConnections \in [Sessions -> Nat]
    /\ command \in [type : CommandTypes, to : SUBSET Sessions]
    /\ announcing \in SUBSET Sessions

-----------------------------------------------------------------------------
(* Groups *)

NewGroup(s) ==
    [participants |-> {s}, buffering |-> {}, ignoring |-> {}, state |-> "Idle",
     resume |-> FALSE, queue |-> NewQueue]

\* The participants a wait is for: buffering ones that the group follows.
Awaited(gr) == gr.buffering \ gr.ignoring

\* Mutant of BeginWait: who was ready stays ready.
BeginWaitForBuffering(gr, resume) == [gr EXCEPT !.state = "Waiting", !.resume = resume]

BeginWait(gr, resume) ==
    [gr EXCEPT !.state = "Waiting", !.resume = resume, !.buffering = gr.participants]

StartPlaying(gr) ==
    [gr EXCEPT !.state = "Playing", !.resume = TRUE, !.buffering = {}]

\* Mutant of FinishWait: nobody is asked.
FinishWaitAtOnce(gr) ==
    IF gr.state = "Waiting"
    THEN [gr EXCEPT !.state = IF gr.resume THEN "Playing" ELSE "Paused"]
    ELSE gr

\* finish_wait_if_ready leaves the flags of ignored participants as they are.
FinishWait(gr) ==
    IF gr.state = "Waiting" /\ Awaited(gr) = {}
    THEN [gr EXCEPT !.state = IF gr.resume THEN "Playing" ELSE "Paused"]
    ELSE gr

Joined(gr, s) ==
    [gr EXCEPT !.participants = @ \cup {s},
               !.buffering = IF gr.state = "Waiting" THEN @ \cup {s} ELSE @ \ {s},
               !.ignoring = @ \ {s}]

\* Mutant of Departed: the wait goes on without s.
DepartedOnly(gr, s) ==
    [gr EXCEPT !.participants = @ \ {s}, !.buffering = @ \ {s}, !.ignoring = @ \ {s}]

\* departure_state_events, then the removal: the group stops waiting for s.
Departed(gr, s) ==
    FinishWait([gr EXCEPT !.participants = @ \ {s}, !.buffering = @ \ {s},
                          !.ignoring = @ \ {s}])

-----------------------------------------------------------------------------
(* Steps *)

NoCommand == [type |-> "None", to |-> {}]
Command(type, to) == [type |-> type, to |-> to]

InGroup(s) == sessionGroups[s] \in DOMAIN groups
GroupOf(s) == groups[sessionGroups[s]]
Current(s) == PlayingItem(GroupOf(s).queue)

Init ==
    /\ groups = [g \in {} |-> NewGroup(g)]
    /\ sessionGroups = [s \in Sessions |-> NoGroup]
    /\ websocketConnections = [s \in Sessions |-> 0]
    /\ command = NoCommand
    /\ announcing = {}

\* A request of s that leaves its group as gr and emits cmd.
Handle(s, gr, cmd) ==
    /\ groups' = [groups EXCEPT ![sessionGroups[s]] = gr]
    /\ command' = cmd
    /\ UNCHANGED <<sessionGroups, websocketConnections, announcing>>

-----------------------------------------------------------------------------
(* Membership *)

\* Mutant of GroupsWithout: a switch leaves the session in its old group.
GroupsStill(s) == groups

\* The groups once s has left its own; the last one out closes it.
GroupsWithout(s) ==
    IF ~InGroup(s) THEN groups
    ELSE IF GroupOf(s).participants \subseteq {s}
         THEN [g \in DOMAIN groups \ {sessionGroups[s]} |-> groups[g]]
         ELSE [groups EXCEPT ![sessionGroups[s]] = Departed(@, s)]

\* Mutant of DepartureCommand: only the session that leaves is told.
DepartureCommandToLeaver(s) ==
    IF InGroup(s) /\ GroupOf(s).state = "Waiting" /\ Departed(GroupOf(s), s).state = "Playing"
    THEN Command("Unpause", {s})
    ELSE NoCommand

\* What the group is told when s leaves it: to start, if s was the last it
\* waited for.  The list still names s.
DepartureCommand(s) ==
    IF InGroup(s) /\ GroupOf(s).state = "Waiting" /\ Departed(GroupOf(s), s).state = "Playing"
    THEN Command("Unpause", GroupOf(s).participants)
    ELSE NoCommand

\* create_group_with_updates, join_group_with_updates: a session that is in
\* another group leaves it, and only the membership updates of that departure
\* are kept.
CreateGroup(s) ==
    \E g \in GroupIds \ DOMAIN groups :
        /\ groups' = [h \in DOMAIN GroupsWithout(s) \cup {g} |->
                          IF h = g THEN NewGroup(s) ELSE GroupsWithout(s)[h]]
        /\ sessionGroups' = [sessionGroups EXCEPT ![s] = g]
        /\ command' = NoCommand
        /\ UNCHANGED <<websocketConnections, announcing>>

JoinGroup(s) ==
    \E g \in DOMAIN groups \ {sessionGroups[s]} :
        /\ groups' = [GroupsWithout(s) EXCEPT ![g] = Joined(@, s)]
        /\ sessionGroups' = [sessionGroups EXCEPT ![s] = g]
        /\ command' = NoCommand
        /\ UNCHANGED <<websocketConnections, announcing>>

Departure(s) ==
    /\ groups' = GroupsWithout(s)
    /\ sessionGroups' = [sessionGroups EXCEPT ![s] = NoGroup]
    /\ command' = DepartureCommand(s)

LeaveGroup(s) ==
    /\ InGroup(s)
    /\ Departure(s)
    /\ UNCHANGED <<websocketConnections, announcing>>

WebsocketConnected(s) ==
    /\ websocketConnections' = [websocketConnections EXCEPT ![s] = @ + 1]
    /\ command' = NoCommand
    /\ UNCHANGED <<groups, sessionGroups, announcing>>

\* Mutant of WebsocketDisconnected: the entry goes with the first connection.
DisconnectedAll(s) ==
    /\ websocketConnections[s] > 0
    /\ websocketConnections' = [websocketConnections EXCEPT ![s] = 0]
    /\ Departure(s)
    /\ UNCHANGED announcing

\* Mutant of WebsocketDisconnected: every disconnect ends the membership.
DisconnectedLeaves(s) ==
    /\ websocketConnections[s] > 0
    /\ websocketConnections' = [websocketConnections EXCEPT ![s] = @ - 1]
    /\ Departure(s)
    /\ UNCHANGED announcing

\* The count reaching 0 takes the session out of its group.
WebsocketDisconnected(s) ==
    /\ websocketConnections[s] > 0
    /\ websocketConnections' = [websocketConnections EXCEPT ![s] = @ - 1]
    /\ IF websocketConnections[s] = 1 THEN Departure(s)
       ELSE /\ command' = NoCommand
            /\ UNCHANGED <<groups, sessionGroups>>
    /\ UNCHANGED announcing

-----------------------------------------------------------------------------
(* The queue *)

WithQueue(gr, q) == [gr EXCEPT !.queue = q]

SetNewQueue(s) ==
    /\ InGroup(s)
    /\ \E items \in Batches({}) : \E position \in 0..(Len(items) - 1) :
          Handle(s, BeginWait(WithQueue(GroupOf(s), SetPlaylist(items, position)), TRUE),
                 NoCommand)

\* An unknown id makes the request fail after the index is gone: the playback
\* state stays as it was.
SetPlaylistItem(s) ==
    /\ InGroup(s)
    /\ \E item \in Items \cup {Nil} :
          LET gr == WithQueue(GroupOf(s), SetPlayingItem(GroupOf(s).queue, item))
          IN  Handle(s, IF IsItemPlaying(gr.queue) THEN BeginWait(gr, TRUE) ELSE gr, NoCommand)

\* Removing the playing item stops the group if nothing is left to play.
Removing(s, q, removed) ==
    LET gr == WithQueue(GroupOf(s), q)
    IN  Handle(s, IF removed /\ ~IsItemPlaying(q) THEN [gr EXCEPT !.state = "Idle"] ELSE gr,
               NoCommand)

RemoveFromPlaylist(s) ==
    /\ InGroup(s)
    /\ LET q == GroupOf(s).queue
       IN  \/ \E ids \in SUBSET Items : Removing(s, RemoveItems(q, ids), RemovesPlaying(q, ids))
           \/ \E clearPlaying \in BOOLEAN :
                 Removing(s, ClearPlaylist(q, clearPlaying), clearPlaying)

\* Requests that edit the queue only.
EditQueue(s) ==
    /\ InGroup(s)
    /\ LET q == GroupOf(s).queue
           Edited(edit) == Handle(s, WithQueue(GroupOf(s), edit), NoCommand)
       IN  \/ \E item \in ToSet(q.playlist), i \in 0..(Len(q.playlist) - 1) :
                 Edited(MoveItem(q, item, i))
           \/ \E items \in Batches(ToSet(q.playlist)) : Edited(AddLast(q, items))
           \/ \E items \in Batches(ToSet(q.playlist)) : Edited(AddNext(q, items))
           \/ \E mode \in RepeatModes \cap Modes : Edited(SetRepeatMode(q, mode))
           \/ \E mode \in ShuffleModes \cap Modes : \E edit \in SetShuffleMode(q, mode) : Edited(edit)

\* next_item and previous_item, for a request that names the playing item.
Navigate(s) ==
    /\ InGroup(s)
    /\ \E to \in {NextItem(GroupOf(s).queue), PreviousItem(GroupOf(s).queue)} :
          LET gr == WithQueue(GroupOf(s), to.queue)
          IN  Handle(s, IF to.ok THEN BeginWait(gr, TRUE) ELSE gr, NoCommand)

-----------------------------------------------------------------------------
(* Playback *)

Unpause(s) ==
    /\ InGroup(s)
    /\ LET gr == GroupOf(s)
       IN  \/ /\ gr.state = "Idle"
              /\ Handle(s, BeginWait(gr, TRUE), NoCommand)
           \/ /\ gr.state = "Waiting" /\ ~gr.resume
              /\ Handle(s, [gr EXCEPT !.resume = TRUE], NoCommand)
           \/ /\ gr.state = "Paused" \/ (gr.state = "Waiting" /\ gr.resume)
              /\ Handle(s, StartPlaying(gr), Command("Unpause", gr.participants))
           \/ /\ gr.state = "Playing"
              /\ Handle(s, gr, Command("Unpause", {s}))

Pause(s) ==
    /\ InGroup(s)
    /\ LET gr == GroupOf(s)
       IN  \/ /\ gr.state = "Idle"
              /\ Handle(s, gr, Command("Stop", {s}))
           \/ /\ gr.state = "Playing"
              /\ Handle(s, [gr EXCEPT !.state = "Paused"], Command("Pause", gr.participants))
           \/ /\ gr.state = "Waiting"
              /\ Handle(s, [gr EXCEPT !.resume = FALSE], NoCommand)
           \/ /\ gr.state = "Paused"
              /\ Handle(s, gr, Command("Pause", {s}))

Stop(s) ==
    /\ InGroup(s)
    /\ LET gr == GroupOf(s)
       IN  Handle(s, [gr EXCEPT !.state = "Idle", !.resume = FALSE, !.buffering = {}],
                  Command("Stop", IF gr.state = "Idle" THEN {s} ELSE gr.participants))

Seek(s) ==
    /\ InGroup(s)
    /\ LET gr == GroupOf(s)
       IN  \/ /\ gr.state = "Idle"
              /\ Handle(s, gr, Command("Stop", {s}))
           \/ /\ gr.state # "Idle"
              /\ Handle(s, BeginWait(gr, gr.state = "Playing" \/ (gr.state = "Waiting" /\ gr.resume)),
                        Command("Seek", gr.participants))

\* Mutant of Reply: a session is told to pause in an idle group too.
ReplyPause(s, gr) == Command(IF gr.state = "Playing" THEN "Unpause" ELSE "Pause", {s})

\* The reply to a session about the state the group is in.
Reply(s, gr) ==
    Command(CASE gr.state = "Playing" -> "Unpause"
              [] gr.state = "Paused"  -> "Pause"
              [] OTHER                -> "Stop", {s})

Buffering(s, item) ==
    /\ InGroup(s)
    /\ LET gr == GroupOf(s)
           stalled == [gr EXCEPT !.buffering = @ \cup {s}]
       IN  \/ /\ gr.state # "Idle" /\ item # Current(s)
              /\ Handle(s, stalled, NoCommand)
           \/ /\ gr.state = "Idle"
              /\ Handle(s, gr, Reply(s, gr))
           \/ /\ gr.state = "Playing" /\ item = Current(s)
              /\ Handle(s, [stalled EXCEPT !.state = "Waiting", !.resume = TRUE],
                        Command("Pause", gr.participants \ stalled.buffering))
           \/ /\ gr.state = "Paused" /\ item = Current(s)
              /\ Handle(s, [stalled EXCEPT !.state = "Waiting", !.resume = FALSE],
                        Command("Pause", {s}))
           \/ /\ gr.state = "Waiting" /\ item = Current(s)
              /\ Handle(s, stalled, IF gr.resume THEN NoCommand ELSE Command("Pause", {s}))

\* Mutant of ReadyWhileWaiting: the first report starts the group.
FirstReportStarts(s, isPlaying, near, late) ==
    LET gr == GroupOf(s)
    IN  \/ /\ ~near /\ ~isPlaying
           /\ Handle(s, gr, Command("Seek", {s}))
        \/ /\ near \/ isPlaying
           /\ Handle(s, StartPlaying(gr), Command("Unpause", gr.participants))

\* near: the client's position is within MAX_PLAYBACK_OFFSET of the group's;
\* late: it is behind by more than a command takes to arrive, so that a client
\* that is playing already is in place by the time the others start.
ReadyWhileWaiting(s, isPlaying, near, late) ==
    LET gr == GroupOf(s)
        ready == [gr EXCEPT !.buffering = @ \ {s}]
    IN  \/ /\ ~near /\ ~(gr.resume /\ isPlaying)
           /\ Handle(s, [gr EXCEPT !.buffering = @ \cup {s}], Command("Seek", {s}))
        \/ /\ near \/ (gr.resume /\ isPlaying)
           /\ Awaited(ready) # {}
           /\ Handle(s, ready, IF gr.resume THEN Command("Pause", {s}) ELSE NoCommand)
        \/ /\ near \/ (gr.resume /\ isPlaying)
           /\ Awaited(ready) = {} /\ gr.resume
           /\ Handle(s, StartPlaying(ready),
                     Command("Unpause", IF late /\ isPlaying THEN gr.participants \ {s}
                                        ELSE gr.participants))
        \/ /\ near
           /\ Awaited(ready) = {} /\ ~gr.resume
           /\ Handle(s, [ready EXCEPT !.state = "Paused"], Command("Pause", gr.participants))

Ready(s, item) ==
    /\ InGroup(s)
    /\ LET gr == GroupOf(s)
       IN  \/ /\ gr.state = "Waiting" /\ item # Current(s)
              /\ Handle(s, [gr EXCEPT !.buffering = @ \cup {s}], NoCommand)
           \/ /\ gr.state # "Waiting"
              /\ Handle(s, gr, Reply(s, gr))
           \/ /\ gr.state = "Waiting" /\ item = Current(s)
              /\ \E isPlaying, near, late \in BOOLEAN :
                    ReadyWhileWaiting(s, isPlaying, near, late)

\* The handler reads the Unpause command for the group in a second critical
\* section, AnnounceUnpause.  A session has one such request open at a time.
SetIgnoreWait(s, ignore) ==
    /\ InGroup(s)
    /\ s \notin announcing
    /\ LET gr == GroupOf(s)
           now == FinishWait([gr EXCEPT !.ignoring = IF ignore THEN @ \cup {s} ELSE @ \ {s}])
       IN  /\ groups' = [groups EXCEPT ![sessionGroups[s]] = now]
           /\ announcing' = IF gr.state = "Waiting" /\ now.state = "Playing"
                            THEN announcing \cup {s} ELSE announcing
    /\ command' = NoCommand
    /\ UNCHANGED <<sessionGroups, websocketConnections>>

AnnounceUnpause(s) ==
    /\ s \in announcing
    /\ announcing' = announcing \ {s}
    /\ command' = IF InGroup(s) THEN Command("Unpause", GroupOf(s).participants) ELSE NoCommand
    /\ UNCHANGED <<groups, sessionGroups, websocketConnections>>
-----------------------------------------------------------------------------

Connect(s) ==
    /\ s \in SocketSessions
    /\ websocketConnections[s] < MaxConnections
    /\ WebsocketConnected(s)

Next ==
    \E s \in Sessions :
        \/ CreateGroup(s) \/ JoinGroup(s) \/ LeaveGroup(s)
        \/ Connect(s) \/ WebsocketDisconnected(s)
        \/ SetNewQueue(s) \/ SetPlaylistItem(s) \/ RemoveFromPlaylist(s)
        \/ EditQueue(s) \/ Navigate(s)
        \/ Unpause(s) \/ Pause(s) \/ Stop(s) \/ Seek(s)
        \/ \E item \in Items \cup {Nil} : Buffering(s, item) \/ Ready(s, item)
        \/ \E ignore \in BOOLEAN : SetIgnoreWait(s, ignore)
        \/ AnnounceUnpause(s)

Spec == Init /\ [][Next]_vars

-----------------------------------------------------------------------------
(* Properties *)

\* The two maps of the manager say the same: a session is a participant of exactly
\* the group session_groups names for it, through every switch, departure and
\* disconnect; no group is left without participants, and the flags belong to
\* participants.
MembershipConsistent ==
    /\ \A s \in Sessions : sessionGroups[s] \in DOMAIN groups \cup {NoGroup}
    /\ \A g \in DOMAIN groups :
          /\ groups[g].participants = {s \in Sessions : sessionGroups[s] = g}
          /\ groups[g].participants # {}
          /\ groups[g].buffering \cup groups[g].ignoring \subseteq groups[g].participants

\* A waiting group has a participant whose flag holds it, so that there is a request
\* (ready, leave, ignore wait) that ends the wait: no departure, ready report or
\* change of the ignore flag leaves a group waiting for nobody.
WaitIsHeld ==
    \A g \in DOMAIN groups : groups[g].state = "Waiting" => groups[g].buffering # {}

Waits(g) == g \in DOMAIN groups /\ groups[g].state = "Waiting"
Runs(g) == g \in DOMAIN groups /\ groups[g].state = "Playing"

\* The participants that stay, are followed after the step and were not ready before it.
StillBuffering(g) == (groups[g].buffering \cap groups'[g].participants) \ groups'[g].ignoring

\* s reports that it is in place with the playing item of g, its own group.
Arrives(s, g) ==
    /\ sessionGroups[s] = g
    /\ \E isPlaying, near, late \in BOOLEAN :
          (near \/ isPlaying) /\ ReadyWhileWaiting(s, isPlaying, near, late)

\* A session of g insists on a wait that is to end in playback already.
UnpausesAgain(s, g) == sessionGroups[s] = g /\ groups[g].resume /\ Unpause(s)

\* A wait ends in playback only when every participant that stays and is followed was
\* ready: a departure or an ignore flag starts nobody who buffers, and a ready report
\* clears the flag of the session that reports and of no other.  A second Unpause is
\* the one way to start without the others.
StartsTogether ==
    [][\A g \in GroupIds : Waits(g) /\ Runs(g)' =>
          \/ StillBuffering(g) = {}
          \/ \E s \in Sessions : StillBuffering(g) = {s} /\ Arrives(s, g)
          \/ \E s \in Sessions : UnpausesAgain(s, g)
      ]_vars

\* Whenever the group goes on to another item it waits for all its participants
\* again: readiness for one item never counts for the next.  Removing the playing
\* item is the exception, and so is a queue with nothing playing.
NewItemIsAwaited ==
    [][\A g \in DOMAIN groups \cap DOMAIN groups' :
          LET before == PlayingItem(groups[g].queue)
              after == PlayingItem(groups'[g].queue)
          IN  after \notin {before, Nil} /\ before # Nil =>
                 \/ \E s \in Sessions : RemoveFromPlaylist(s)
                 \/ /\ groups'[g].state = "Waiting"
                    /\ groups'[g].buffering = groups'[g].participants
      ]_vars

Leaves(s) == sessionGroups[s] # NoGroup /\ sessionGroups'[s] = NoGroup

\* A session that leaves, by request or with its last websocket, and lets a waiting
\* group start thereby has everyone who stays told to unpause.
LeavingTellsTheRest ==
    [][\A g \in GroupIds : Waits(g) /\ Runs(g)' /\ (\E s \in Sessions : Leaves(s)) =>
          /\ command'.type = "Unpause"
          /\ groups'[g].participants \subseteq command'.to]_vars

\* The same for every departure, a session that leaves for another group included.
DepartureTellsTheRest ==
    [][\A g \in GroupIds :
          Waits(g) /\ Runs(g)' /\ groups'[g].participants # groups[g].participants =>
              /\ command'.type = "Unpause"
              /\ groups'[g].participants \subseteq command'.to]_vars

Suits(type, state) ==
    CASE type = "Unpause" -> state = "Playing"
      [] type = "Stop"    -> state = "Idle"
      [] type = "Seek"    -> state = "Waiting"
      [] type = "Pause"   -> state \in {"Waiting", "Paused"}
      [] OTHER            -> TRUE

\* A command is worked out from the state the request leaves behind: a participant
\* is never told to play in a group that does not, or to stop in one that is not
\* idle.  The Unpause that set_ignore_wait announces later is the exception.
CommandsSuitTheGroup ==
    [][\/ \E s \in Sessions : AnnounceUnpause(s)
       \/ \A g \in DOMAIN groups' : \A s \in command'.to \cap groups'[g].participants :
             Suits(command'.type, groups'[g].state)]_vars

-----------------------------------------------------------------------------
(* Liveness.  The clients are not part of the server; the assumption is that *)
(* one the server counts as buffering reports, sooner or later, that it is   *)
(* ready with the playing item at the group's position.                     *)

Held(g) == Waits(g) /\ PlayingItem(groups[g].queue) # Nil

ReportReady(s) ==
    /\ InGroup(s)
    /\ Held(sessionGroups[s])
    /\ s \in GroupOf(s).buffering
    /\ ReadyWhileWaiting(s, FALSE, TRUE, FALSE)

FairSpec == Spec /\ \A s \in Sessions : WF_vars(ReportReady(s))

\* A step that makes a group wait, or wait for one more participant.
Disturbs ==
    \E g \in GroupIds : Waits(g)' /\ (Waits(g) => ~(groups'[g].buffering \subseteq groups[g].buffering))

\* A group that waits with an item to play stops waiting in the end, unless new
\* waits begin for ever: no sequence of departures, pauses and changes of the
\* ignore flag makes it wait for a report nobody owes.
WaitEnds == \A g \in GroupIds : []<>~Held(g) \/ []<><<Disturbs>>_vars
=============================================================================
