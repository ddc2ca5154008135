---------------------------- MODULE SyncPlayProofs ----------------------------
(***************************************************************************)
(* Theorems about SyncPlay, for every number of sessions, groups and       *)
(* queue items.  Every request replaces groups by well-formed ones         *)
(* (GroupOK) and moves at most the requesting session; the invariant       *)
(* follows from these two facts.  The websockets use the manager as its    *)
(* specification allows (ServingUsesManager).                              *)
(***************************************************************************)
EXTENDS WebSocketSessions, PlayQueueLemmas

Commands == [type : CommandTypes, to : SUBSET Sessions]

\* What a request leaves of a group.
GroupOK(gr) ==
    /\ gr \in Groups
    /\ gr.participants # {}
    /\ gr.buffering \cup gr.ignoring \subseteq gr.participants
    /\ gr.state = "Waiting" => gr.buffering # {}

\* gr may take the place of old: it has the same participants.
Replaces(gr, old) == GroupOK(gr) /\ gr.participants = old.participants

Inv == TypeOK /\ MembershipConsistent /\ WaitIsHeld

\* Every group is well-formed.
LEMMA InvGroup ==
    ASSUME Inv, NEW g \in DOMAIN groups
    PROVE  GroupOK(groups[g])
BY DEF Inv, TypeOK, MembershipConsistent, WaitIsHeld, GroupOK

\* The group of a member is well-formed and has it as a participant.
LEMMA InvMember ==
    ASSUME Inv, NEW s \in Sessions, InGroup(s)
    PROVE  /\ GroupOK(GroupOf(s)) /\ GroupOf(s) \in Groups
           /\ s \in GroupOf(s).participants
           /\ GroupOf(s).participants \in SUBSET Sessions
           /\ GroupOf(s).queue \in Queues
<1>1. GroupOK(GroupOf(s))
  BY InvGroup DEF InGroup, GroupOf
<1>2. s \in GroupOf(s).participants
  BY DEF Inv, MembershipConsistent, InGroup, GroupOf
<1> QED
  BY <1>1, <1>2 DEF GroupOK, Groups

-----------------------------------------------------------------------------
(* Groups *)

\* Each helper on groups leaves a well-formed group: create_group.
LEMMA NewGroupOK ==
    ASSUME NEW s \in Sessions
    PROVE  GroupOK(NewGroup(s)) /\ NewGroup(s).participants = {s}
BY NewQueueType DEF NewGroup, GroupOK, Groups, GroupStates

\* begin_wait: a group with participants waits for one of them.
LEMMA BeginWaitOK ==
    ASSUME NEW gr, GroupOK(gr), NEW resume \in BOOLEAN
    PROVE  Replaces(BeginWait(gr, resume), gr)
BY DEF BeginWait, Replaces, GroupOK, Groups, GroupStates

\* start_playing
LEMMA StartPlayingOK ==
    ASSUME NEW gr \in Groups, gr.participants # {}, gr.ignoring \subseteq gr.participants
    PROVE  Replaces(StartPlaying(gr), gr)
BY DEF StartPlaying, Replaces, GroupOK, Groups, GroupStates

\* An edit of the queue.
LEMMA WithQueueOK ==
    ASSUME NEW gr, GroupOK(gr), NEW q \in Queues
    PROVE  Replaces(WithQueue(gr, q), gr)
BY DEF WithQueue, Replaces, GroupOK, Groups

\* After the check a waiting group is held, whatever was before.
LEMMA FinishWaitOK ==
    ASSUME NEW gr \in Groups, gr.participants # {},
           gr.buffering \cup gr.ignoring \subseteq gr.participants
    PROVE  Replaces(FinishWait(gr), gr)
<1>1. CASE gr.state = "Waiting" /\ Awaited(gr) = {}
  BY <1>1 DEF FinishWait, Replaces, GroupOK, Groups, GroupStates
<1>2. CASE ~(gr.state = "Waiting" /\ Awaited(gr) = {})
  <2>1. gr.state = "Waiting" => gr.buffering # {}
    BY <1>2 DEF Awaited
  <2> QED
    BY <1>2, <2>1 DEF FinishWait, Replaces, GroupOK
<1> QED
  BY <1>1, <1>2

\* A joiner of a waiting group is waited for.
LEMMA JoinedOK ==
    ASSUME NEW gr, GroupOK(gr), NEW s \in Sessions
    PROVE  GroupOK(Joined(gr, s)) /\ Joined(gr, s).participants = gr.participants \cup {s}
BY DEF Joined, GroupOK, Groups

\* A departure that leaves somebody: the group waits for another or not at all.
LEMMA DepartedOK ==
    ASSUME NEW gr, GroupOK(gr), NEW s, ~(gr.participants \subseteq {s})
    PROVE  GroupOK(Departed(gr, s)) /\ Departed(gr, s).participants = gr.participants \ {s}
<1> DEFINE rest == [gr EXCEPT !.participants = @ \ {s}, !.buffering = @ \ {s},
                              !.ignoring = @ \ {s}]
<1>1. /\ rest \in Groups
      /\ rest.participants = gr.participants \ {s}
      /\ rest.participants # {}
      /\ rest.buffering \cup rest.ignoring \subseteq rest.participants
  BY DEF GroupOK, Groups
<1>2. Replaces(FinishWait(rest), rest)
  <2> HIDE DEF rest
  <2> QED
    BY <1>1, FinishWaitOK
<1> QED
  BY <1>1, <1>2 DEF Departed, Replaces

-----------------------------------------------------------------------------
(* Steps that replace the group of one session *)

\* Commands are built of a type and sessions.
LEMMA CommandType ==
    ASSUME NEW type \in CommandTypes, NEW to \in SUBSET Sessions
    PROVE  Command(type, to) \in Commands
BY DEF Command, Commands

\* No command is one.
LEMMA NoCommandType == NoCommand \in Commands
BY DEF NoCommand, Commands, CommandTypes

\* The invariant is about the groups, the sessions and what is typed.
LEMMA ReplaceGroup ==
    ASSUME Inv, NEW s \in Sessions, InGroup(s), NEW gr, Replaces(gr, GroupOf(s)),
           groups' = [groups EXCEPT ![sessionGroups[s]] = gr],
           UNCHANGED <<sessionGroups, websocketConnections>>,
           command' \in Commands, announcing' \in SUBSET Sessions
    PROVE  Inv'
<1>1. DOMAIN groups' = DOMAIN groups
  OBVIOUS
<1>2. \A g \in DOMAIN groups : groups'[g] = IF g = sessionGroups[s] THEN gr ELSE groups[g]
  OBVIOUS
<1>3. \A g \in DOMAIN groups : Replaces(groups'[g], groups[g])
  <2>1. \A g \in DOMAIN groups : Replaces(groups[g], groups[g])
    BY InvGroup DEF Replaces
  <2> QED
    BY <1>2, <2>1 DEF GroupOf
<1>4. TypeOK'
  <2>1. groups' = [g \in DOMAIN groups' |-> groups'[g]]
    OBVIOUS
  <2>2. \A g \in DOMAIN groups' : groups'[g] \in Groups
    BY <1>1, <1>3 DEF Replaces, GroupOK
  <2>3. groups' \in [DOMAIN groups' -> Groups]
    BY <2>1, <2>2
  <2> QED
    BY <1>1, <2>3 DEF Inv, TypeOK, Commands
<1>5. MembershipConsistent'
  BY <1>1, <1>3 DEF Inv, MembershipConsistent, Replaces, GroupOK
<1>6. WaitIsHeld'
  BY <1>1, <1>3 DEF WaitIsHeld, Replaces, GroupOK
<1> QED
  BY <1>4, <1>5, <1>6 DEF Inv

\* A request that replaces the group of its session keeps the invariant.
LEMMA HandleInv ==
    ASSUME Inv, NEW s \in Sessions, InGroup(s), NEW gr, Replaces(gr, GroupOf(s)),
           NEW cmd \in Commands, Handle(s, gr, cmd)
    PROVE  Inv'
<1>1. announcing' \in SUBSET Sessions /\ command' \in Commands
  BY DEF Handle, Inv, TypeOK
<1> QED
  BY <1>1, ReplaceGroup DEF Handle

-----------------------------------------------------------------------------
(* Membership *)

\* Leaving takes the session out of its group and out of no other; a group that
\* goes had no other participant.
LEMMA WithoutOK ==
    ASSUME Inv, NEW s \in Sessions
    PROVE  LET G == GroupsWithout(s)
           IN  /\ G = [g \in DOMAIN G |-> G[g]]
               /\ DOMAIN G \subseteq DOMAIN groups
               /\ \A g \in DOMAIN G : GroupOK(G[g])
                                      /\ G[g].participants = groups[g].participants \ {s}
               /\ \A g \in DOMAIN groups \ DOMAIN G : groups[g].participants \subseteq {s}
<1>1. \A g \in DOMAIN groups : GroupOK(groups[g])
  BY InvGroup
<1>2. \A g \in DOMAIN groups : g # sessionGroups[s] => s \notin groups[g].participants
  BY DEF Inv, MembershipConsistent
<1>3. groups = [g \in DOMAIN groups |-> groups[g]]
  BY DEF Inv, TypeOK
<1>4. CASE ~InGroup(s)
  BY <1>4, <1>1, <1>2, <1>3 DEF GroupsWithout, InGroup
<1>5. CASE InGroup(s) /\ GroupOf(s).participants \subseteq {s}
  BY <1>5, <1>1, <1>2, <1>3 DEF GroupsWithout, InGroup, GroupOf
<1>6. CASE InGroup(s) /\ ~(GroupOf(s).participants \subseteq {s})
  <2>1. GroupsWithout(s) = [groups EXCEPT ![sessionGroups[s]] = Departed(GroupOf(s), s)]
    BY <1>6 DEF GroupsWithout, GroupOf
  <2>2. /\ GroupOK(Departed(GroupOf(s), s))
        /\ Departed(GroupOf(s), s).participants = GroupOf(s).participants \ {s}
    BY <1>6, <1>1, DepartedOK DEF InGroup, GroupOf
  <2> QED
    BY <1>6, <2>1, <2>2, <1>1, <1>2, <1>3 DEF InGroup, GroupOf
<1> QED
  BY <1>4, <1>5, <1>6

\* Groups and sessions that agree make the invariant.
LEMMA Agreement ==
    ASSUME DOMAIN groups' \in SUBSET GroupIds,
           groups' = [g \in DOMAIN groups' |-> groups'[g]],
           \A g \in DOMAIN groups' :
               /\ GroupOK(groups'[g])
               /\ groups'[g].participants = {s \in Sessions : sessionGroups'[s] = g},
           sessionGroups' \in [Sessions -> GroupIds \cup {NoGroup}],
           \A s \in Sessions : sessionGroups'[s] \in DOMAIN groups' \cup {NoGroup},
           websocketConnections' \in [Sessions -> Nat],
           command' \in Commands, announcing' \in SUBSET Sessions
    PROVE  Inv'
<1>1. groups' \in [DOMAIN groups' -> Groups]
  <2>1. \A g \in DOMAIN groups' : groups'[g] \in Groups
    BY DEF GroupOK
  <2> QED
    BY <2>1
<1>2. TypeOK'
  BY <1>1 DEF TypeOK, Commands
<1>3. MembershipConsistent'
  BY DEF MembershipConsistent, GroupOK
<1>4. WaitIsHeld'
  BY DEF WaitIsHeld, GroupOK
<1> QED
  BY <1>2, <1>3, <1>4 DEF Inv

\* The session enters another group, new or not.
LEMMA EnterInv ==
    ASSUME Inv, NEW s \in Sessions, NEW to \in GroupIds, to # sessionGroups[s],
           DOMAIN groups' = DOMAIN GroupsWithout(s) \cup {to},
           groups' = [g \in DOMAIN groups' |-> groups'[g]],
           \A g \in DOMAIN GroupsWithout(s) : g # to => groups'[g] = GroupsWithout(s)[g],
           GroupOK(groups'[to]),
           groups'[to].participants = {t \in Sessions : sessionGroups[t] = to} \cup {s},
           sessionGroups' = [sessionGroups EXCEPT ![s] = to],
           command' = NoCommand, UNCHANGED <<websocketConnections, announcing>>
    PROVE  Inv'
<1> DEFINE G == GroupsWithout(s)
<1>1. /\ DOMAIN G \subseteq DOMAIN groups
      /\ \A g \in DOMAIN G : GroupOK(G[g]) /\ G[g].participants = groups[g].participants \ {s}
      /\ \A g \in DOMAIN groups \ DOMAIN G : groups[g].participants \subseteq {s}
  BY WithoutOK
<1>2. /\ DOMAIN groups' = DOMAIN G \cup {to}
      /\ \A g \in DOMAIN G : g # to => groups'[g] = G[g]
  OBVIOUS
<1> HIDE DEF G
<1>3. sessionGroups \in [Sessions -> GroupIds \cup {NoGroup}]
  BY DEF Inv, TypeOK
<1>4. sessionGroups' \in [Sessions -> GroupIds \cup {NoGroup}]
  BY <1>3
<1>5. DOMAIN groups' \in SUBSET GroupIds
  BY <1>1, <1>2 DEF Inv, TypeOK
<1>6. ASSUME NEW g \in DOMAIN groups'
      PROVE  /\ GroupOK(groups'[g])
             /\ groups'[g].participants = {t \in Sessions : sessionGroups'[t] = g}
  <2>1. CASE g = to
    BY <2>1, <1>3
  <2>2. CASE g # to
    <3>1. groups'[g] = G[g] /\ g \in DOMAIN G
      BY <2>2, <1>2
    <3>2. groups[g].participants = {t \in Sessions : sessionGroups[t] = g}
      BY <3>1, <1>1 DEF Inv, MembershipConsistent
    <3> QED
      BY <3>1, <3>2, <2>2, <1>1, <1>3
  <2> QED
    BY <2>1, <2>2
<1>7. ASSUME NEW t \in Sessions
      PROVE  sessionGroups'[t] \in DOMAIN groups' \cup {NoGroup}
  <2>1. CASE t = s
    BY <2>1, <1>2, <1>3
  <2>2. CASE t # s
    <3>1. sessionGroups'[t] = sessionGroups[t] /\ sessionGroups[t] \in DOMAIN groups \cup {NoGroup}
      BY <2>2, <1>3 DEF Inv, MembershipConsistent
    <3>2. sessionGroups[t] \in DOMAIN groups => t \in groups[sessionGroups[t]].participants
      BY DEF Inv, MembershipConsistent
    <3> QED
      BY <3>1, <3>2, <2>2, <1>1, <1>2
  <2> QED
    BY <2>1, <2>2
<1>8. /\ websocketConnections' \in [Sessions -> Nat]
      /\ command' \in Commands /\ announcing' \in SUBSET Sessions
  BY NoCommandType DEF Inv, TypeOK
<1> QED
  BY <1>4, <1>5, <1>6, <1>7, <1>8, Agreement

\* create_group_with_updates keeps the invariant, a switch included.
LEMMA CreateGroupInv ==
    ASSUME Inv, NEW s \in Sessions, CreateGroup(s)
    PROVE  Inv'
<1> DEFINE G == GroupsWithout(s)
<1>1. PICK new \in GroupIds \ DOMAIN groups :
          /\ groups' = [h \in DOMAIN G \cup {new} |-> IF h = new THEN NewGroup(s) ELSE G[h]]
          /\ sessionGroups' = [sessionGroups EXCEPT ![s] = new]
          /\ command' = NoCommand
          /\ UNCHANGED <<websocketConnections, announcing>>
  BY DEF CreateGroup
<1>2. GroupOK(NewGroup(s)) /\ NewGroup(s).participants = {s}
  BY NewGroupOK
<1>3. \A t \in Sessions : sessionGroups[t] # new
  BY <1>1, NoGroupAssumption DEF Inv, MembershipConsistent
<1>4. new \in GroupIds /\ new # sessionGroups[s]
  BY <1>3
<1>5. DOMAIN groups' = DOMAIN G \cup {new}
  BY <1>1
<1>6. groups' = [g \in DOMAIN groups' |-> groups'[g]]
  BY <1>1
<1>7. \A g \in DOMAIN G : g # new => groups'[g] = G[g]
  BY <1>1
<1>8. groups'[new] = NewGroup(s)
  BY <1>1
<1>9. groups'[new].participants = {t \in Sessions : sessionGroups[t] = new} \cup {s}
  BY <1>2, <1>3, <1>8
<1> QED
  BY <1>1, <1>2, <1>4, <1>5, <1>6, <1>7, <1>8, <1>9, EnterInv

\* join_group_with_updates keeps the invariant, a switch included.
LEMMA JoinGroupInv ==
    ASSUME Inv, NEW s \in Sessions, JoinGroup(s)
    PROVE  Inv'
<1> DEFINE G == GroupsWithout(s)
<1>1. PICK to \in DOMAIN groups \ {sessionGroups[s]} :
          /\ groups' = [G EXCEPT ![to] = Joined(@, s)]
          /\ sessionGroups' = [sessionGroups EXCEPT ![s] = to]
          /\ command' = NoCommand
          /\ UNCHANGED <<websocketConnections, announcing>>
  BY DEF JoinGroup
<1>2. /\ G = [g \in DOMAIN G |-> G[g]]
      /\ DOMAIN G \subseteq DOMAIN groups
      /\ \A g \in DOMAIN G : GroupOK(G[g]) /\ G[g].participants = groups[g].participants \ {s}
      /\ \A g \in DOMAIN groups \ DOMAIN G : groups[g].participants \subseteq {s}
  BY WithoutOK
<1> HIDE DEF G
<1>3. /\ groups[to].participants = {t \in Sessions : sessionGroups[t] = to}
      /\ groups[to].participants # {}
      /\ to \in GroupIds
  BY <1>1 DEF Inv, TypeOK, MembershipConsistent
<1>4. to \in DOMAIN G
  BY <1>1, <1>2, <1>3
<1>5. groups'[to] = Joined(G[to], s) /\ DOMAIN groups' = DOMAIN G \cup {to}
  BY <1>1, <1>2, <1>4
<1>6. /\ GroupOK(groups'[to])
      /\ groups'[to].participants = {t \in Sessions : sessionGroups[t] = to} \cup {s}
  BY <1>2, <1>3, <1>4, <1>5, JoinedOK
<1>7. groups' = [g \in DOMAIN groups' |-> groups'[g]]
  BY <1>1, <1>2
<1>8. \A g \in DOMAIN G : g # to => groups'[g] = G[g]
  BY <1>1, <1>2
<1> QED
  BY <1>1, <1>3, <1>5, <1>6, <1>7, <1>8, EnterInv DEF G

\* remove_session_with_departure keeps the invariant.
LEMMA DepartureInv ==
    ASSUME Inv, NEW s \in Sessions, Departure(s),
           websocketConnections' \in [Sessions -> Nat], UNCHANGED announcing
    PROVE  Inv'
<1> DEFINE G == GroupsWithout(s)
<1>1. groups' = G /\ sessionGroups' = [sessionGroups EXCEPT ![s] = NoGroup]
  BY DEF Departure
<1>2. /\ G = [g \in DOMAIN G |-> G[g]]
      /\ DOMAIN G \subseteq DOMAIN groups
      /\ \A g \in DOMAIN G : GroupOK(G[g]) /\ G[g].participants = groups[g].participants \ {s}
      /\ \A g \in DOMAIN groups \ DOMAIN G : groups[g].participants \subseteq {s}
  BY WithoutOK
<1>3. command' \in Commands
  <2>1. InGroup(s) => GroupOf(s).participants \in SUBSET Sessions
    BY InvMember
  <2> QED
    BY <2>1, NoCommandType, CommandType DEF Departure, DepartureCommand, CommandTypes
<1> HIDE DEF G
<1>4. sessionGroups \in [Sessions -> GroupIds \cup {NoGroup}] /\ DOMAIN groups \in SUBSET GroupIds
  BY DEF Inv, TypeOK
<1>5. ASSUME NEW g \in DOMAIN groups'
      PROVE  /\ GroupOK(groups'[g])
             /\ groups'[g].participants = {t \in Sessions : sessionGroups'[t] = g}
  <2>1. groups[g].participants = {t \in Sessions : sessionGroups[t] = g}
    BY <1>1, <1>2 DEF Inv, MembershipConsistent
  <2>2. g # NoGroup
    BY <1>1, <1>2, <1>4, NoGroupAssumption
  <2> QED
    BY <2>1, <2>2, <1>1, <1>2, <1>4
<1>6. ASSUME NEW t \in Sessions
      PROVE  sessionGroups'[t] \in DOMAIN groups' \cup {NoGroup}
  <2>1. sessionGroups[t] \in DOMAIN groups \cup {NoGroup}
    BY DEF Inv, MembershipConsistent
  <2>2. sessionGroups[t] \in DOMAIN groups => t \in groups[sessionGroups[t]].participants
    BY DEF Inv, MembershipConsistent
  <2> QED
    BY <2>1, <2>2, <1>1, <1>2, <1>4
<1>7. announcing' \in SUBSET Sessions
  BY DEF Inv, TypeOK
<1>8. sessionGroups' \in [Sessions -> GroupIds \cup {NoGroup}] /\ DOMAIN groups' \in SUBSET GroupIds
  BY <1>1, <1>2, <1>4
<1> QED
  BY <1>1, <1>2, <1>3, <1>5, <1>6, <1>7, <1>8, Agreement

-----------------------------------------------------------------------------
(* The queue *)

\* A group that waits with another queue may take the place of the group.
LEMMA WaitForQueue ==
    ASSUME NEW gr, GroupOK(gr), NEW q \in Queues
    PROVE  Replaces(BeginWait(WithQueue(gr, q), TRUE), gr)
<1>1. GroupOK(WithQueue(gr, q)) /\ WithQueue(gr, q).participants = gr.participants
  BY WithQueueOK DEF Replaces
<1> QED
  BY <1>1, BeginWaitOK DEF Replaces

\* set_new_queue keeps the invariant.
LEMMA SetNewQueueInv ==
    ASSUME Inv, NEW s \in Sessions, SetNewQueue(s)
    PROVE  Inv'
<1>1. InGroup(s) /\ GroupOK(GroupOf(s))
  BY InvMember DEF SetNewQueue
<1>2. PICK items \in Batches({}) : \E position \in 0..(Len(items) - 1) :
          Handle(s, BeginWait(WithQueue(GroupOf(s), SetPlaylist(items, position)), TRUE),
                 NoCommand)
  BY DEF SetNewQueue
<1>3. PICK position \in 0..(Len(items) - 1) :
          Handle(s, BeginWait(WithQueue(GroupOf(s), SetPlaylist(items, position)), TRUE),
                 NoCommand)
  BY <1>2
<1>4. SetPlaylist(items, position) \in Queues
  BY BatchType, SetPlaylistType
<1> QED
  BY <1>1, <1>3, <1>4, WaitForQueue, NoCommandType, HandleInv

\* set_playlist_item keeps the invariant, for an unknown id too.
LEMMA SetPlaylistItemInv ==
    ASSUME Inv, NEW s \in Sessions, SetPlaylistItem(s)
    PROVE  Inv'
<1>1. InGroup(s) /\ GroupOK(GroupOf(s)) /\ GroupOf(s).queue \in Queues
  BY InvMember DEF SetPlaylistItem
<1>2. PICK item \in Items \cup {Nil} :
          LET gr == WithQueue(GroupOf(s), SetPlayingItem(GroupOf(s).queue, item))
          IN  Handle(s, IF IsItemPlaying(gr.queue) THEN BeginWait(gr, TRUE) ELSE gr, NoCommand)
  BY DEF SetPlaylistItem
<1>3. SetPlayingItem(GroupOf(s).queue, item) \in Queues
  BY <1>1, SetPlayingItemType
<1> QED
  BY <1>1, <1>2, <1>3, WaitForQueue, WithQueueOK, NoCommandType, HandleInv

\* A group that goes idle may take the place of the group.
LEMMA StopWaiting ==
    ASSUME NEW gr, GroupOK(gr)
    PROVE  Replaces([gr EXCEPT !.state = "Idle"], gr)
BY DEF Replaces, GroupOK, Groups, GroupStates

\* Both ways of removing items keep the invariant.
LEMMA RemovingInv ==
    ASSUME Inv, NEW s \in Sessions, InGroup(s), NEW q \in Queues, NEW removed,
           Removing(s, q, removed)
    PROVE  Inv'
<1> DEFINE gr == WithQueue(GroupOf(s), q)
<1>1. GroupOK(gr) /\ gr.participants = GroupOf(s).participants
  BY InvMember, WithQueueOK DEF Replaces
<1>2. Replaces([gr EXCEPT !.state = "Idle"], GroupOf(s))
  BY <1>1, StopWaiting DEF Replaces
<1>3. Replaces(gr, GroupOf(s))
  BY <1>1 DEF Replaces
<1> QED
  BY <1>2, <1>3, NoCommandType, HandleInv DEF Removing

\* remove_from_playlist keeps the invariant.
LEMMA RemoveFromPlaylistInv ==
    ASSUME Inv, NEW s \in Sessions, RemoveFromPlaylist(s)
    PROVE  Inv'
<1>1. InGroup(s) /\ GroupOf(s).queue \in Queues
  BY InvMember DEF RemoveFromPlaylist
<1> QED
  BY <1>1, RemoveItemsType, ClearPlaylistType, RemovingInv DEF RemoveFromPlaylist

\* The requests that edit only the queue keep the invariant.
LEMMA EditQueueInv ==
    ASSUME Inv, NEW s \in Sessions, EditQueue(s)
    PROVE  Inv'
<1> DEFINE q == GroupOf(s).queue
<1>1. InGroup(s) /\ GroupOK(GroupOf(s)) /\ q \in Queues
  BY InvMember DEF EditQueue
<1>2. ASSUME NEW edit \in Queues, Handle(s, WithQueue(GroupOf(s), edit), NoCommand)
      PROVE  Inv'
  BY <1>1, <1>2, WithQueueOK, NoCommandType, HandleInv
<1>3. ASSUME NEW item \in ToSet(q.playlist), NEW i \in 0..(Len(q.playlist) - 1)
      PROVE  MoveItem(q, item, i) \in Queues
  <2>1. i \in Int
    OBVIOUS
  <2> HIDE DEF q
  <2>2. item \in Items
    BY <1>1, QueueFields
  <2> QED
    BY <1>1, <2>1, <2>2, MoveItemType
<1>4. ASSUME NEW items \in Batches(ToSet(q.playlist))
      PROVE  AddLast(q, items) \in Queues /\ AddNext(q, items) \in Queues
  BY <1>1, BatchType, AddLastType, AddNextType
<1>5. ASSUME NEW mode \in RepeatModes PROVE SetRepeatMode(q, mode) \in Queues
  BY <1>1, SetRepeatModeType
<1>6. ASSUME NEW mode \in ShuffleModes, NEW edit \in SetShuffleMode(q, mode)
      PROVE  edit \in Queues
  BY <1>1, SetShuffleModeType
<1> QED
  BY <1>2, <1>3, <1>4, <1>5, <1>6 DEF EditQueue

\* navigate_queue keeps the invariant.
LEMMA NavigateInv ==
    ASSUME Inv, NEW s \in Sessions, Navigate(s)
    PROVE  Inv'
<1>1. InGroup(s) /\ GroupOK(GroupOf(s)) /\ GroupOf(s).queue \in Queues
  BY InvMember DEF Navigate
<1>2. PICK to \in {NextItem(GroupOf(s).queue), PreviousItem(GroupOf(s).queue)} :
          LET gr == WithQueue(GroupOf(s), to.queue)
          IN  Handle(s, IF to.ok THEN BeginWait(gr, TRUE) ELSE gr, NoCommand)
  BY DEF Navigate
<1>3. to.queue \in Queues
  BY <1>1, NavigationType
<1> QED
  BY <1>1, <1>2, <1>3, WaitForQueue, WithQueueOK, NoCommandType, HandleInv

-----------------------------------------------------------------------------
(* Playback *)

\* The changes of the playback states and the flags of a member.
LEMMA PlaybackOK ==
    ASSUME NEW gr, GroupOK(gr), NEW s \in gr.participants
    PROVE  /\ Replaces(gr, gr)
           /\ Replaces(StartPlaying(gr), gr)
           /\ \A resume \in BOOLEAN :
                 /\ Replaces(BeginWait(gr, resume), gr)
                 /\ Replaces([gr EXCEPT !.resume = resume], gr)
           /\ Replaces([gr EXCEPT !.state = "Paused"], gr)
           /\ Replaces([gr EXCEPT !.state = "Idle", !.resume = FALSE, !.buffering = {}], gr)
           /\ Replaces([gr EXCEPT !.buffering = @ \cup {s}], gr)
           /\ \A resume \in BOOLEAN :
                 Replaces([gr EXCEPT !.buffering = @ \cup {s}, !.state = "Waiting",
                                     !.resume = resume], gr)
<1>1. Replaces(StartPlaying(gr), gr)
  BY StartPlayingOK DEF GroupOK
<1>2. \A resume \in BOOLEAN : Replaces(BeginWait(gr, resume), gr)
  BY BeginWaitOK
<1>3. /\ Replaces(gr, gr)
      /\ \A resume \in BOOLEAN : Replaces([gr EXCEPT !.resume = resume], gr)
      /\ Replaces([gr EXCEPT !.state = "Paused"], gr)
      /\ Replaces([gr EXCEPT !.state = "Idle", !.resume = FALSE, !.buffering = {}], gr)
  BY DEF Replaces, GroupOK, Groups, GroupStates
<1>4. Replaces([gr EXCEPT !.buffering = @ \cup {s}], gr)
  BY DEF Replaces, GroupOK, Groups, GroupStates
<1>5. ASSUME NEW resume \in BOOLEAN
      PROVE  Replaces([gr EXCEPT !.buffering = @ \cup {s}, !.state = "Waiting",
                                 !.resume = resume], gr)
  BY DEF Replaces, GroupOK, Groups, GroupStates
<1> QED
  BY <1>1, <1>2, <1>3, <1>4, <1>5

\* A command to participants of a group is a command.
LEMMA CommandsType ==
    ASSUME Inv, NEW s \in Sessions, InGroup(s), NEW type \in CommandTypes,
           NEW to \in SUBSET GroupOf(s).participants
    PROVE  Command(type, to) \in Commands /\ Command(type, {s}) \in Commands
BY InvMember, CommandType

\* unpause_with_events keeps the invariant.
LEMMA UnpauseInv ==
    ASSUME Inv, NEW s \in Sessions, Unpause(s)
    PROVE  Inv'
<1> DEFINE gr == GroupOf(s)
<1>1. InGroup(s) /\ GroupOK(gr) /\ s \in gr.participants
  BY InvMember DEF Unpause
<1>2. \A to \in SUBSET gr.participants : Command("Unpause", to) \in Commands
  BY <1>1, CommandsType DEF CommandTypes
<1>3. \E new, cmd : Replaces(new, gr) /\ cmd \in Commands /\ Handle(s, new, cmd)
  <2> HIDE DEF gr
  <2> QED
    BY <1>1, <1>2, PlaybackOK, NoCommandType DEF Unpause, gr
<1> QED
  BY <1>1, <1>3, HandleInv

\* pause_with_events keeps the invariant.
LEMMA PauseInv ==
    ASSUME Inv, NEW s \in Sessions, Pause(s)
    PROVE  Inv'
<1> DEFINE gr == GroupOf(s)
<1>1. InGroup(s) /\ GroupOK(gr) /\ s \in gr.participants
  BY InvMember DEF Pause
<1>2. \A to \in SUBSET gr.participants :
          Command("Pause", to) \in Commands /\ Command("Stop", to) \in Commands
  BY <1>1, CommandsType DEF CommandTypes
<1>3. \E new, cmd : Replaces(new, gr) /\ cmd \in Commands /\ Handle(s, new, cmd)
  BY <1>1, <1>2, PlaybackOK, NoCommandType DEF Pause
<1> QED
  BY <1>1, <1>3, HandleInv

\* stop_with_events keeps the invariant.
LEMMA StopInv ==
    ASSUME Inv, NEW s \in Sessions, Stop(s)
    PROVE  Inv'
<1> DEFINE gr == GroupOf(s)
<1>1. InGroup(s) /\ GroupOK(gr) /\ s \in gr.participants
  BY InvMember DEF Stop
<1>2. \A to \in SUBSET gr.participants : Command("Stop", to) \in Commands
  BY <1>1, CommandsType DEF CommandTypes
<1> QED
  BY <1>1, <1>2, PlaybackOK, HandleInv DEF Stop

\* seek_with_events keeps the invariant.
LEMMA SeekInv ==
    ASSUME Inv, NEW s \in Sessions, Seek(s)
    PROVE  Inv'
<1> DEFINE gr == GroupOf(s)
<1>1. InGroup(s) /\ GroupOK(gr) /\ s \in gr.participants
  BY InvMember DEF Seek
<1>2. \A to \in SUBSET gr.participants :
          Command("Seek", to) \in Commands /\ Command("Stop", to) \in Commands
  BY <1>1, CommandsType DEF CommandTypes
<1>3. (gr.state = "Playing" \/ (gr.state = "Waiting" /\ gr.resume)) \in BOOLEAN
  BY <1>1 DEF GroupOK, Groups
<1> QED
  BY <1>1, <1>2, <1>3, PlaybackOK, HandleInv DEF Seek

\* buffering_with_events keeps the invariant.
LEMMA BufferingInv ==
    ASSUME Inv, NEW s \in Sessions, NEW item, Buffering(s, item)
    PROVE  Inv'
<1> DEFINE gr == GroupOf(s)
<1>1. InGroup(s) /\ GroupOK(gr) /\ s \in gr.participants
  BY InvMember DEF Buffering
<1>2. /\ \A to \in SUBSET gr.participants : Command("Pause", to) \in Commands
      /\ Reply(s, gr) \in Commands
  BY <1>1, CommandsType DEF CommandTypes, Reply
<1>3. \E new, cmd : Replaces(new, gr) /\ cmd \in Commands /\ Handle(s, new, cmd)
  BY <1>1, <1>2, PlaybackOK, NoCommandType DEF Buffering
<1> QED
  BY <1>1, <1>3, HandleInv

\* A ready report to a waiting group keeps the invariant.
LEMMA ReadyWhileWaitingInv ==
    ASSUME Inv, NEW s \in Sessions, InGroup(s), GroupOf(s).state = "Waiting",
           NEW isPlaying, NEW near, NEW late, ReadyWhileWaiting(s, isPlaying, near, late)
    PROVE  Inv'
<1> DEFINE gr == GroupOf(s)
           ready == [gr EXCEPT !.buffering = @ \ {s}]
<1>1. InGroup(s) /\ GroupOK(gr) /\ s \in gr.participants
  BY InvMember
<1>2. /\ ready \in Groups /\ ready.participants = gr.participants
      /\ ready.participants # {}
      /\ ready.buffering \cup ready.ignoring \subseteq ready.participants
  BY <1>1 DEF GroupOK, Groups
<1>3. \A type \in {"Seek", "Pause", "Unpause"}, to \in SUBSET gr.participants :
          Command(type, to) \in Commands
  BY <1>1, CommandsType DEF CommandTypes
<1> HIDE DEF ready
<1>4. Replaces(StartPlaying(ready), gr)
  BY <1>2, StartPlayingOK DEF Replaces
<1>5. Awaited(ready) # {} => Replaces(ready, gr)
  BY <1>2 DEF Awaited, Replaces, GroupOK
<1>6. Replaces([ready EXCEPT !.state = "Paused"], gr)
  BY <1>2 DEF Replaces, GroupOK, Groups, GroupStates
<1>7. Replaces([gr EXCEPT !.buffering = @ \cup {s}], gr)
  BY <1>1, PlaybackOK
<1>8. \E new, cmd : Replaces(new, gr) /\ cmd \in Commands /\ Handle(s, new, cmd)
  BY <1>1, <1>3, <1>4, <1>5, <1>6, <1>7, NoCommandType DEF ReadyWhileWaiting, ready
<1> QED
  BY <1>1, <1>8, HandleInv

\* ready_with_events keeps the invariant.
LEMMA ReadyInv ==
    ASSUME Inv, NEW s \in Sessions, NEW item, Ready(s, item)
    PROVE  Inv'
<1> DEFINE gr == GroupOf(s)
<1>1. InGroup(s) /\ GroupOK(gr) /\ s \in gr.participants
  BY InvMember DEF Ready
<1>2. Reply(s, gr) \in Commands
  BY <1>1, CommandsType DEF CommandTypes, Reply
<1>3. CASE gr.state = "Waiting" /\ item # Current(s)
  BY <1>1, <1>3, PlaybackOK, NoCommandType, HandleInv DEF Ready
<1>4. CASE gr.state # "Waiting"
  BY <1>1, <1>2, <1>4, PlaybackOK, HandleInv DEF Ready
<1>5. CASE gr.state = "Waiting" /\ item = Current(s)
  BY <1>1, <1>5, ReadyWhileWaitingInv DEF Ready
<1> QED
  BY <1>3, <1>4, <1>5

\* set_ignore_wait_with_update keeps the invariant.
LEMMA SetIgnoreWaitInv ==
    ASSUME Inv, NEW s \in Sessions, NEW ignore \in BOOLEAN, SetIgnoreWait(s, ignore)
    PROVE  Inv'
<1> DEFINE gr == GroupOf(s)
           marked == [gr EXCEPT !.ignoring = IF ignore THEN @ \cup {s} ELSE @ \ {s}]
<1>1. InGroup(s) /\ GroupOK(gr) /\ s \in gr.participants
  BY InvMember DEF SetIgnoreWait
<1>2. /\ marked \in Groups /\ marked.participants = gr.participants
      /\ marked.participants # {}
      /\ marked.buffering \cup marked.ignoring \subseteq marked.participants
  BY <1>1 DEF GroupOK, Groups
<1>3. Replaces(FinishWait(marked), gr)
  <2> HIDE DEF marked
  <2> QED
    BY <1>2, FinishWaitOK DEF Replaces
<1>4. /\ groups' = [groups EXCEPT ![sessionGroups[s]] = FinishWait(marked)]
      /\ command' \in Commands /\ announcing' \in SUBSET Sessions
      /\ UNCHANGED <<sessionGroups, websocketConnections>>
  BY NoCommandType DEF SetIgnoreWait, Inv, TypeOK
<1> QED
  BY <1>1, <1>3, <1>4, ReplaceGroup

-----------------------------------------------------------------------------
(* The invariant *)

\* The invariant holds in the initial state.
LEMMA InitInv == Init => Inv
BY DEF Init, Inv, TypeOK, MembershipConsistent, WaitIsHeld, NoCommand, CommandTypes

\* Every step keeps the invariant.
LEMMA NextInv == Inv /\ [Next]_vars => Inv'
<1> SUFFICES ASSUME Inv, [Next]_vars PROVE Inv'
  OBVIOUS
<1>1. ASSUME NEW s \in Sessions, LeaveGroup(s) PROVE Inv'
  <2>1. websocketConnections' \in [Sessions -> Nat]
    BY <1>1 DEF LeaveGroup, Inv, TypeOK
  <2> QED
    BY <1>1, <2>1, DepartureInv DEF LeaveGroup
<1>2. ASSUME NEW s \in Sessions, Connect(s) PROVE Inv'
  <2>1. TypeOK'
    BY <1>2, NoCommandType
       DEF Connect, WebsocketConnected, Inv, TypeOK, Commands
  <2> QED
    BY <1>2, <2>1
       DEF Connect, WebsocketConnected, Inv, MembershipConsistent, WaitIsHeld
<1>3. ASSUME NEW s \in Sessions, WebsocketDisconnected(s) PROVE Inv'
  <2>1. websocketConnections' \in [Sessions -> Nat]
    BY <1>3 DEF WebsocketDisconnected, Inv, TypeOK
  <2>2. CASE websocketConnections[s] = 1
    BY <1>3, <2>1, <2>2, DepartureInv DEF WebsocketDisconnected
  <2>3. CASE websocketConnections[s] # 1
    <3>1. TypeOK'
      BY <1>3, <2>1, <2>3, NoCommandType DEF WebsocketDisconnected, Inv, TypeOK, Commands
    <3> QED
      BY <1>3, <2>3, <3>1 DEF WebsocketDisconnected, Inv, MembershipConsistent, WaitIsHeld
  <2> QED
    BY <2>2, <2>3
<1>4. ASSUME NEW s \in Sessions, AnnounceUnpause(s) PROVE Inv'
  <2>1. command' \in Commands
    <3>1. InGroup(s) => GroupOf(s).participants \in SUBSET Sessions
      BY InvMember
    <3> QED
      BY <1>4, <3>1, NoCommandType, CommandType DEF AnnounceUnpause, CommandTypes
  <2>2. TypeOK'
    BY <1>4, <2>1 DEF AnnounceUnpause, Inv, TypeOK, Commands
  <2> QED
    BY <1>4, <2>2 DEF AnnounceUnpause, Inv, MembershipConsistent, WaitIsHeld
<1>5. CASE UNCHANGED vars
  BY <1>5 DEF vars, Inv, TypeOK, MembershipConsistent, WaitIsHeld
<1> QED
  BY <1>1, <1>2, <1>3, <1>4, <1>5, CreateGroupInv, JoinGroupInv, SetNewQueueInv,
     SetPlaylistItemInv, RemoveFromPlaylistInv, EditQueueInv, NavigateInv, UnpauseInv,
     PauseInv, StopInv, SeekInv, BufferingInv, ReadyInv, SetIgnoreWaitInv DEF Next

\* The inductive invariant: types, membership and waits, together, whatever
\* requests, switches and disconnects come.
THEOREM Invariance == Spec => []Inv
BY InitInv, NextInv, PTL DEF Spec

\* The state is well-formed whatever requests come: groups, queues, counts and
\* commands.
THEOREM TypeCorrect == Spec => []TypeOK
<1>1. Inv => TypeOK
  BY DEF Inv
<1> QED
  BY <1>1, Invariance, PTL

\* A session is a participant of exactly the group session_groups names, and no
\* group is left empty, through every switch, departure and disconnect.
THEOREM MembershipIsConsistent == Spec => []MembershipConsistent
<1>1. Inv => MembershipConsistent
  BY DEF Inv
<1> QED
  BY <1>1, Invariance, PTL

\* No request leaves a group waiting for nobody.
THEOREM WaitsAreHeld == Spec => []WaitIsHeld
<1>1. Inv => WaitIsHeld
  BY DEF Inv
<1> QED
  BY <1>1, Invariance, PTL

-----------------------------------------------------------------------------
(* How a wait ends *)

\* Those of old who buffer and whom the group follows still when it is new.
StillOwed(old, new) == (old.buffering \cap new.participants) \ new.ignoring

\* finish_wait_if_ready starts a group that waits for nobody, and keeps its flags.
LEMMA FinishedWait ==
    ASSUME NEW gr \in Groups, FinishWait(gr).state = "Playing", gr.state # "Playing"
    PROVE  /\ Awaited(gr) = {}
           /\ FinishWait(gr).participants = gr.participants
           /\ FinishWait(gr).ignoring = gr.ignoring
BY DEF FinishWait, Groups

\* The groups a session leaves behind: one that starts was waiting for nobody else.
LEMMA DepartureStarts ==
    ASSUME Inv, NEW s \in Sessions, NEW g \in DOMAIN groups, groups[g].state = "Waiting",
           g \in DOMAIN GroupsWithout(s), GroupsWithout(s)[g].state = "Playing"
    PROVE  /\ InGroup(s) /\ g = sessionGroups[s] /\ ~(GroupOf(s).participants \subseteq {s})
           /\ GroupsWithout(s)[g] = Departed(GroupOf(s), s)
           /\ StillOwed(groups[g], GroupsWithout(s)[g]) = {}
<1>1. InGroup(s) /\ ~(GroupOf(s).participants \subseteq {s}) /\ g = sessionGroups[s]
  BY DEF GroupsWithout
<1>2. GroupsWithout(s)[g] = Departed(GroupOf(s), s)
  BY <1>1 DEF GroupsWithout, GroupOf, Inv, TypeOK
<1> DEFINE gr == GroupOf(s)
           rest == [gr EXCEPT !.participants = @ \ {s}, !.buffering = @ \ {s},
                              !.ignoring = @ \ {s}]
<1>3. gr \in Groups /\ gr = groups[g] /\ gr.state = "Waiting"
  BY <1>1, InvMember DEF GroupOf
<1>4. /\ rest \in Groups /\ rest.state = "Waiting"
      /\ StillOwed(gr, rest) \subseteq Awaited(rest)
  BY <1>3 DEF Groups, Awaited, StillOwed
<1>5. FinishWait(rest).state = "Playing"
  BY <1>2 DEF Departed
<1>6. StillOwed(gr, FinishWait(rest)) = {}
  <2> HIDE DEF rest
  <2> QED
    BY <1>4, <1>5, FinishedWait DEF StillOwed
<1>7. GroupsWithout(s)[g] = FinishWait(rest)
  BY <1>2 DEF Departed
<1> QED
  BY <1>1, <1>2, <1>3, <1>6, <1>7

StartsRightly(g) ==
    \/ StillBuffering(g) = {}
    \/ \E s \in Sessions : StillBuffering(g) = {s} /\ Arrives(s, g)

\* s replaces its group, and ends no wait for another session by it; one for s it ends
\* by arriving.
Settles(s) ==
    \E gr : /\ groups' = [groups EXCEPT ![sessionGroups[s]] = gr]
            /\ GroupOf(s).state = "Waiting" /\ gr.state = "Playing" =>
                   \/ StillOwed(GroupOf(s), gr) = {}
                   \/ StillOwed(GroupOf(s), gr) = {s} /\ Arrives(s, sessionGroups[s])

\* A request that replaces the group of its session starts no other.
LEMMA SettlesStarts ==
    ASSUME Inv, NEW s \in Sessions, InGroup(s), Settles(s),
           NEW g \in GroupIds, Waits(g), Runs(g)'
    PROVE  StartsRightly(g)
<1> PICK gr : /\ groups' = [groups EXCEPT ![sessionGroups[s]] = gr]
              /\ GroupOf(s).state = "Waiting" /\ gr.state = "Playing" =>
                     \/ StillOwed(GroupOf(s), gr) = {}
                     \/ StillOwed(GroupOf(s), gr) = {s} /\ Arrives(s, sessionGroups[s])
  BY DEF Settles
<1>1. DOMAIN groups' = DOMAIN groups /\ g \in DOMAIN groups
  BY DEF Waits
<1>2. groups[g].state = "Waiting" /\ groups'[g].state = "Playing"
  BY DEF Waits, Runs
<1>3. g = sessionGroups[s]
  BY <1>1, <1>2
<1>4. groups'[g] = gr /\ GroupOf(s) = groups[g]
  BY <1>1, <1>3 DEF GroupOf
<1>5. StillBuffering(g) = StillOwed(GroupOf(s), gr)
  BY <1>4 DEF StillBuffering, StillOwed
<1> QED
  BY <1>2, <1>3, <1>4, <1>5 DEF StartsRightly

\* A session that leaves its group for another starts it only if it was the last
\* waited for.
LEMMA SwitchStarts ==
    ASSUME Inv, NEW s \in Sessions, CreateGroup(s) \/ JoinGroup(s) \/ Departure(s),
           NEW g \in GroupIds, Waits(g), Runs(g)'
    PROVE  StartsRightly(g)
<1>1. g \in DOMAIN groups /\ groups[g].state = "Waiting" /\ groups'[g].state = "Playing"
  BY DEF Waits, Runs
<1>2. /\ g \in DOMAIN GroupsWithout(s) /\ GroupsWithout(s)[g].state = "Playing"
      /\ groups'[g] = GroupsWithout(s)[g]
  <2>1. CASE CreateGroup(s)
    BY <2>1, <1>1 DEF CreateGroup, Runs
  <2>2. CASE JoinGroup(s)
    <3>1. PICK to \in DOMAIN groups \ {sessionGroups[s]} :
              groups' = [GroupsWithout(s) EXCEPT ![to] = Joined(@, s)]
      BY <2>2 DEF JoinGroup
    <3>2. g \in DOMAIN GroupsWithout(s)
      BY <3>1 DEF Runs
    <3>3. GroupOK(GroupsWithout(s)[g])
      BY <3>2, WithoutOK
    <3>4. Joined(GroupsWithout(s)[g], s).state = GroupsWithout(s)[g].state
      BY <3>3 DEF Joined, GroupOK, Groups
    <3>5. GroupsWithout(s)[g].state = "Playing"
      BY <3>1, <3>2, <3>4, <1>1
    <3>6. g = sessionGroups[s]
      BY <3>2, <3>5, <1>1, DepartureStarts
    <3> QED
      BY <3>1, <3>2, <3>5, <3>6
  <2>3. CASE Departure(s)
    BY <2>3, <1>1 DEF Departure, Runs
  <2> QED
    BY <2>1, <2>2, <2>3
<1>3. StillOwed(groups[g], GroupsWithout(s)[g]) = {}
  BY <1>1, <1>2, DepartureStarts
<1> QED
  BY <1>2, <1>3 DEF StartsRightly, StillBuffering, StillOwed

\* How Handle replaces the group.
LEMMA HandleSettles ==
    ASSUME NEW s \in Sessions, NEW new, NEW cmd, Handle(s, new, cmd),
           \/ new.state \in {GroupOf(s).state, "Waiting", "Idle", "Paused"}
           \/ StillOwed(GroupOf(s), new) = {}
           \/ StillOwed(GroupOf(s), new) = {s} /\ Arrives(s, sessionGroups[s])
    PROVE  Settles(s)
BY DEF Handle, Settles

\* A playback request other than Unpause.
LEMMA PlaybackSettles ==
    ASSUME Inv, NEW s \in Sessions, InGroup(s),
           \/ Pause(s) \/ Stop(s) \/ Seek(s)
           \/ \E item \in Items \cup {Nil} : Buffering(s, item) \/ Ready(s, item)
    PROVE  Settles(s)
<1> DEFINE gr == GroupOf(s)
           ready == [gr EXCEPT !.buffering = @ \ {s}]
<1>1. gr \in Groups
  BY InvMember
<1>2. /\ \A resume : BeginWait(gr, resume).state = "Waiting"
      /\ \A resume : [gr EXCEPT !.resume = resume].state = gr.state
      /\ [gr EXCEPT !.state = "Paused"].state = "Paused"
      /\ [gr EXCEPT !.state = "Idle", !.resume = FALSE, !.buffering = {}].state = "Idle"
      /\ [gr EXCEPT !.buffering = @ \cup {s}].state = gr.state
      /\ \A resume : [[gr EXCEPT !.buffering = @ \cup {s}] EXCEPT !.state = "Waiting",
                          !.resume = resume].state = "Waiting"
  BY <1>1 DEF BeginWait, Groups
<1>3. /\ StillOwed(gr, StartPlaying(ready)) \subseteq Awaited(ready) \cup {s}
      /\ ready.state = gr.state /\ [ready EXCEPT !.state = "Paused"].state = "Paused"
  BY <1>1 DEF Awaited, StillOwed, StartPlaying, Groups
<1> HIDE DEF gr, ready
<1>4. CASE Pause(s)
  BY <1>4, <1>2, HandleSettles DEF Pause, gr
<1>5. CASE Stop(s)
  BY <1>5, <1>2, HandleSettles DEF Stop, gr
<1>6. CASE Seek(s)
  BY <1>6, <1>2, HandleSettles DEF Seek, gr
<1>7. CASE \E item \in Items \cup {Nil} : Buffering(s, item)
  <2> DEFINE stalled == [gr EXCEPT !.buffering = @ \cup {s}]
  <2>1. \E new, cmd : Handle(s, new, cmd) /\ new.state \in {gr.state, "Waiting"}
    <3>1. \E cmd : \/ Handle(s, stalled, cmd)
                   \/ Handle(s, gr, cmd)
                   \/ Handle(s, [stalled EXCEPT !.state = "Waiting", !.resume = TRUE], cmd)
                   \/ Handle(s, [stalled EXCEPT !.state = "Waiting", !.resume = FALSE], cmd)
      BY <1>7 DEF Buffering, gr
    <3> QED
      BY <3>1, <1>2
  <2> QED
    BY <2>1, HandleSettles DEF gr
<1>8. ASSUME NEW isPlaying \in BOOLEAN, NEW near \in BOOLEAN, NEW late \in BOOLEAN,
             ReadyWhileWaiting(s, isPlaying, near, late)
      PROVE  Settles(s)
  <2>1. CASE ~near /\ ~(gr.resume /\ isPlaying)
    BY <2>1, <1>2, <1>8, HandleSettles DEF ReadyWhileWaiting, gr
  <2>2. CASE near \/ (gr.resume /\ isPlaying)
    <3>1. Arrives(s, sessionGroups[s])
      BY <2>2, <1>8 DEF Arrives
    <3>2. CASE Awaited(ready) # {}
      BY <2>2, <3>2, <1>3, <1>8, HandleSettles DEF ReadyWhileWaiting, gr, ready
    <3>3. CASE Awaited(ready) = {} /\ gr.resume
      <4>1. PICK cmd : Handle(s, StartPlaying(ready), cmd)
        BY <2>2, <3>3, <1>8 DEF ReadyWhileWaiting, gr, ready
      <4>2. StillOwed(gr, StartPlaying(ready)) \in {{}, {s}}
        BY <3>3, <1>3
      <4> QED
        BY <3>1, <4>1, <4>2, HandleSettles DEF gr
    <3>4. CASE Awaited(ready) = {} /\ ~gr.resume
      BY <2>2, <3>4, <1>3, <1>8, HandleSettles DEF ReadyWhileWaiting, gr, ready
    <3> QED
      BY <3>2, <3>3, <3>4
  <2> QED
    BY <2>1, <2>2
<1>9. CASE \E item \in Items \cup {Nil} : Ready(s, item)
  BY <1>9, <1>2, <1>8, HandleSettles DEF Ready, gr
<1> QED
  BY <1>4, <1>5, <1>6, <1>7, <1>9

\* A request that changes the queue starts a group only if it is playing.
LEMMA QueueSettles ==
    ASSUME Inv, NEW s \in Sessions, InGroup(s),
           \/ SetNewQueue(s) \/ SetPlaylistItem(s) \/ RemoveFromPlaylist(s)
           \/ EditQueue(s) \/ Navigate(s)
    PROVE  Settles(s)
<1> DEFINE gr == GroupOf(s)
<1>1. gr \in Groups
  BY InvMember
<1>2. \A q : /\ WithQueue(gr, q).state = gr.state
             /\ [WithQueue(gr, q) EXCEPT !.state = "Idle"].state = "Idle"
             /\ \A resume : BeginWait(WithQueue(gr, q), resume).state = "Waiting"
  BY <1>1 DEF WithQueue, BeginWait, Groups
<1> HIDE DEF gr
<1>3. CASE SetNewQueue(s)
  BY <1>3, <1>2, HandleSettles DEF SetNewQueue, gr
<1>4. CASE SetPlaylistItem(s)
  BY <1>4, <1>2, HandleSettles DEF SetPlaylistItem, gr
<1>5. CASE RemoveFromPlaylist(s)
  <2>1. ASSUME NEW q, NEW removed, Removing(s, q, removed) PROVE Settles(s)
    BY <2>1, <1>2, HandleSettles DEF Removing, gr
  <2> QED
    BY <1>5, <2>1 DEF RemoveFromPlaylist
<1>6. CASE EditQueue(s)
  <2>1. ASSUME NEW q, Handle(s, WithQueue(GroupOf(s), q), NoCommand) PROVE Settles(s)
    BY <2>1, <1>2, HandleSettles DEF gr
  <2> QED
    BY <1>6, <2>1 DEF EditQueue
<1>7. CASE Navigate(s)
  BY <1>7, <1>2, HandleSettles DEF Navigate, gr
<1> QED
  BY <1>3, <1>4, <1>5, <1>6, <1>7

\* A change of the ignore flag starts a group only if all others were ready.
LEMMA SetIgnoreWaitSettles ==
    ASSUME Inv, NEW s \in Sessions, NEW ignore \in BOOLEAN, SetIgnoreWait(s, ignore)
    PROVE  Settles(s)
<1> DEFINE gr == GroupOf(s)
           marked == [gr EXCEPT !.ignoring = IF ignore THEN @ \cup {s} ELSE @ \ {s}]
<1>1. gr \in Groups
  BY InvMember DEF SetIgnoreWait
<1>2. /\ marked \in Groups /\ marked.state = gr.state
      /\ StillOwed(gr, marked) \subseteq Awaited(marked)
  BY <1>1 DEF Groups, Awaited, StillOwed
<1>3. groups' = [groups EXCEPT ![sessionGroups[s]] = FinishWait(marked)]
  BY DEF SetIgnoreWait
<1>4. gr.state = "Waiting" /\ FinishWait(marked).state = "Playing" =>
          StillOwed(gr, FinishWait(marked)) = {}
  <2> HIDE DEF marked
  <2> QED
    BY <1>2, FinishedWait DEF StillOwed
<1> QED
  BY <1>2, <1>3, <1>4 DEF Settles

\* Unpause of s starts its own group, and a waiting one only when it is to resume.
LEMMA UnpauseStarts ==
    ASSUME Inv, NEW s \in Sessions, Unpause(s), NEW g \in GroupIds, Waits(g), Runs(g)'
    PROVE  UnpausesAgain(s, g)
<1>1. PICK gr, cmd : Handle(s, gr, cmd)
  BY DEF Unpause
<1>2. sessionGroups[s] = g
  BY <1>1 DEF Handle, Waits, Runs
<1>3. g \in DOMAIN groups /\ groups[g].state = "Waiting" /\ GroupOf(s) = groups[g]
  BY <1>2 DEF Waits, GroupOf
<1>4. CASE groups[g].resume
  BY <1>2, <1>4 DEF UnpausesAgain
<1>5. CASE ~groups[g].resume
  <2>1. groups' = [groups EXCEPT ![g] = [groups[g] EXCEPT !.resume = TRUE]]
    BY <1>2, <1>3, <1>5 DEF Unpause, Handle
  <2>2. groups[g] \in Groups
    BY <1>3, InvMember DEF Unpause
  <2> QED
    BY <2>1, <2>2, <1>3 DEF Runs, Groups
<1> QED
  BY <1>4, <1>5

\* Every step but a second Unpause starts a waiting group only if all were ready but
\* the session that arrives by it.
LEMMA NextStarts ==
    ASSUME Inv, Next, NEW g \in GroupIds, Waits(g), Runs(g)'
    PROVE  (\E s \in Sessions : UnpausesAgain(s, g)) \/ StartsRightly(g)
<1>1. ASSUME NEW s \in Sessions, InGroup(s), Settles(s) PROVE StartsRightly(g)
  BY <1>1, SettlesStarts
<1>2. ASSUME NEW s \in Sessions, CreateGroup(s) \/ JoinGroup(s) \/ Departure(s)
      PROVE  StartsRightly(g)
  BY <1>2, SwitchStarts
<1>3. ASSUME NEW s \in Sessions,
             \/ SetNewQueue(s) \/ SetPlaylistItem(s) \/ RemoveFromPlaylist(s)
             \/ EditQueue(s) \/ Navigate(s)
      PROVE  StartsRightly(g)
  <2>1. InGroup(s)
    BY <1>3 DEF SetNewQueue, SetPlaylistItem, RemoveFromPlaylist, EditQueue, Navigate
  <2> QED
    BY <1>1, <1>3, <2>1, QueueSettles
<1>4. ASSUME NEW s \in Sessions,
             \/ Pause(s) \/ Stop(s) \/ Seek(s)
             \/ \E item \in Items \cup {Nil} : Buffering(s, item) \/ Ready(s, item)
      PROVE  StartsRightly(g)
  <2>1. InGroup(s)
    BY <1>4 DEF Pause, Stop, Seek, Buffering, Ready
  <2> QED
    BY <1>1, <1>4, <2>1, PlaybackSettles
<1>5. ASSUME NEW s \in Sessions, NEW ignore \in BOOLEAN, SetIgnoreWait(s, ignore)
      PROVE  StartsRightly(g)
  BY <1>1, <1>5, SetIgnoreWaitSettles DEF SetIgnoreWait
<1>6. ~UNCHANGED groups
  BY DEF Waits, Runs
<1>7. ASSUME NEW s \in Sessions, LeaveGroup(s) \/ WebsocketDisconnected(s)
      PROVE  StartsRightly(g)
  BY <1>2, <1>6, <1>7 DEF LeaveGroup, WebsocketDisconnected
<1>8. ASSUME NEW s \in Sessions, Connect(s) \/ AnnounceUnpause(s)
      PROVE  FALSE
  BY <1>6, <1>8 DEF Connect, WebsocketConnected, AnnounceUnpause
<1>9. ASSUME NEW s \in Sessions, Unpause(s)
      PROVE  UnpausesAgain(s, g)
  BY <1>9, UnpauseStarts
<1> QED
  BY <1>2, <1>3, <1>4, <1>5, <1>7, <1>8, <1>9 DEF Next

\* A wait ends in playback only if all who stay and are followed were ready, but for
\* the session whose own ready report ends it, or with a second Unpause.
THEOREM WaitsEndTogether == Spec => StartsTogether
<1>1. ASSUME Inv, [Next]_vars, NEW g \in GroupIds, Waits(g), Runs(g)'
      PROVE  \/ StillBuffering(g) = {}
             \/ \E s \in Sessions : StillBuffering(g) = {s} /\ Arrives(s, g)
             \/ \E s \in Sessions : UnpausesAgain(s, g)
  <2>1. Next
    BY <1>1 DEF vars, Waits, Runs
  <2> QED
    BY <1>1, <2>1, NextStarts DEF StartsRightly
<1>2. Inv /\ [Next]_vars =>
        [\A g \in GroupIds : Waits(g) /\ Runs(g)' =>
          \/ StillBuffering(g) = {}
          \/ \E s \in Sessions : StillBuffering(g) = {s} /\ Arrives(s, g)
          \/ \E s \in Sessions : UnpausesAgain(s, g)
        ]_vars
  BY <1>1
<1> QED
  BY <1>2, Invariance, PTL DEF Spec, StartsTogether

-----------------------------------------------------------------------------
(* Who is told *)

\* A departure that starts a group names everyone who stays in its Unpause.
LEMMA DepartureTells ==
    ASSUME Inv, NEW s \in Sessions, Departure(s), NEW g \in GroupIds, Waits(g), Runs(g)'
    PROVE  command'.type = "Unpause" /\ groups'[g].participants \subseteq command'.to
<1>1. /\ g \in DOMAIN groups /\ groups[g].state = "Waiting"
      /\ groups' = GroupsWithout(s) /\ g \in DOMAIN GroupsWithout(s)
      /\ GroupsWithout(s)[g].state = "Playing"
  BY DEF Waits, Runs, Departure
<1>2. /\ InGroup(s) /\ g = sessionGroups[s] /\ groups'[g] = Departed(GroupOf(s), s)
  BY <1>1, DepartureStarts
<1>3. command' = Command("Unpause", GroupOf(s).participants)
  BY <1>1, <1>2 DEF Departure, DepartureCommand, GroupOf
<1>4. groups'[g].participants \subseteq GroupOf(s).participants
  BY <1>1, <1>2, WithoutOK DEF GroupOf
<1> QED
  BY <1>3, <1>4 DEF Command

\* Only a departure takes a session out of every group.
LEMMA LeavesByDeparture ==
    ASSUME Inv, Next, NEW s \in Sessions, Leaves(s)
    PROVE  \E t \in Sessions : Departure(t)
<1>1. ASSUME NEW t \in Sessions, CreateGroup(t) \/ JoinGroup(t) PROVE FALSE
  <2>1. PICK to \in GroupIds : sessionGroups' = [sessionGroups EXCEPT ![t] = to]
    BY <1>1 DEF CreateGroup, JoinGroup, Inv, TypeOK
  <2> QED
    BY <2>1, NoGroupAssumption DEF Leaves, Inv, TypeOK
<1>2. ~UNCHANGED sessionGroups
  BY DEF Leaves
<1>3. ASSUME NEW t \in Sessions, LeaveGroup(t) \/ WebsocketDisconnected(t)
      PROVE  Departure(t)
  BY <1>2, <1>3 DEF LeaveGroup, WebsocketDisconnected
<1>4. ASSUME NEW t \in Sessions, NEW new, NEW cmd, Handle(t, new, cmd) PROVE FALSE
  BY <1>2, <1>4 DEF Handle
<1>5. ASSUME NEW t \in Sessions,
             \/ SetNewQueue(t) \/ SetPlaylistItem(t) \/ RemoveFromPlaylist(t)
             \/ EditQueue(t) \/ Navigate(t)
      PROVE  FALSE
  BY <1>4, <1>5 DEF SetNewQueue, SetPlaylistItem, RemoveFromPlaylist, Removing,
                    EditQueue, Navigate
<1>6. ASSUME NEW t \in Sessions,
             \/ Unpause(t) \/ Pause(t) \/ Stop(t) \/ Seek(t)
             \/ \E item \in Items \cup {Nil} : Buffering(t, item) \/ Ready(t, item)
      PROVE  FALSE
  <2>1. ASSUME NEW isPlaying, NEW near, NEW late, ReadyWhileWaiting(t, isPlaying, near, late)
        PROVE  FALSE
    BY <1>4, <2>1 DEF ReadyWhileWaiting
  <2>2. ~Unpause(t) /\ ~Pause(t) /\ ~Stop(t) /\ ~Seek(t)
    BY <1>4 DEF Unpause, Pause, Stop, Seek
  <2>3. \A item : ~Buffering(t, item) /\ ~Ready(t, item)
    BY <1>4, <2>1 DEF Buffering, Ready
  <2> QED
    BY <1>6, <2>2, <2>3
<1>7. ASSUME NEW t \in Sessions,
             \/ Connect(t) \/ AnnounceUnpause(t) \/ \E ignore \in BOOLEAN : SetIgnoreWait(t, ignore)
      PROVE  FALSE
  BY <1>2, <1>7 DEF Connect, WebsocketConnected, AnnounceUnpause, SetIgnoreWait
<1> QED
  BY <1>1, <1>3, <1>5, <1>6, <1>7 DEF Next

\* A session that leaves and thereby lets a waiting group start has everyone who
\* stays told to unpause.
THEOREM LeavingIsAnnounced == Spec => LeavingTellsTheRest
<1>1. ASSUME Inv, [Next]_vars, NEW g \in GroupIds, Waits(g), Runs(g)',
             \E s \in Sessions : Leaves(s)
      PROVE  command'.type = "Unpause" /\ groups'[g].participants \subseteq command'.to
  <2>1. Next
    BY <1>1 DEF vars, Waits, Runs
  <2>2. \E t \in Sessions : Departure(t)
    BY <1>1, <2>1, LeavesByDeparture
  <2> QED
    BY <1>1, <2>2, DepartureTells
<1>2. Inv /\ [Next]_vars =>
        [\A g \in GroupIds : Waits(g) /\ Runs(g)' /\ (\E s \in Sessions : Leaves(s)) =>
          /\ command'.type = "Unpause"
          /\ groups'[g].participants \subseteq command'.to]_vars
  BY <1>1
<1> QED
  BY <1>2, Invariance, PTL DEF Spec, LeavingTellsTheRest

-----------------------------------------------------------------------------
(* Commands *)

\* The command of this step is for participants of the group of s, and suits the
\* state the step leaves it in; no other group changes.
Tells(s) ==
    /\ InGroup(s)
    /\ command'.to \subseteq GroupOf(s).participants
    /\ \A g \in DOMAIN groups' :
          IF g = sessionGroups[s] THEN Suits(command'.type, groups'[g].state)
          ELSE g \in DOMAIN groups /\ groups'[g] = groups[g]

AllSuited ==
    \A g \in DOMAIN groups' : \A s \in command'.to \cap groups'[g].participants :
        Suits(command'.type, groups'[g].state)

\* Nobody is a participant of a second group, so the others are not addressed.
LEMMA TellsSuit ==
    ASSUME Inv, NEW s \in Sessions, Tells(s)
    PROVE  AllSuited
<1> SUFFICES ASSUME NEW g \in DOMAIN groups', NEW t \in command'.to \cap groups'[g].participants
             PROVE  Suits(command'.type, groups'[g].state)
  BY DEF AllSuited
<1>1. CASE g = sessionGroups[s]
  BY <1>1 DEF Tells
<1>2. CASE g # sessionGroups[s]
  <2>1. g \in DOMAIN groups /\ t \in groups[g].participants /\ t \in GroupOf(s).participants
    BY <1>2 DEF Tells
  <2>2. sessionGroups[t] = g /\ sessionGroups[t] = sessionGroups[s]
    BY <2>1 DEF Inv, MembershipConsistent, Tells, InGroup, GroupOf
  <2> QED
    BY <1>2, <2>2
<1> QED
  BY <1>1, <1>2

\* A request without a command.
LEMMA QuietSuits ==
    ASSUME command' = NoCommand
    PROVE  AllSuited
BY DEF NoCommand, AllSuited

\* A request with one.
LEMMA HandleSuits ==
    ASSUME Inv, NEW s \in Sessions, InGroup(s), NEW new, NEW type, NEW to,
           Handle(s, new, Command(type, to)), to \subseteq GroupOf(s).participants,
           Suits(type, new.state)
    PROVE  AllSuited
<1>1. /\ command'.type = type /\ command'.to = to
      /\ groups' = [groups EXCEPT ![sessionGroups[s]] = new]
  BY DEF Handle, Command
<1>2. Tells(s)
  BY <1>1 DEF Tells
<1> QED
  BY <1>2, TellsSuit

\* The command of a departure is Unpause, in a group that plays afterwards.
LEMMA DepartureSuits ==
    ASSUME Inv, NEW s \in Sessions, Departure(s)
    PROVE  AllSuited
<1>1. CASE command' = NoCommand
  BY <1>1, QuietSuits
<1>2. CASE command' # NoCommand
  <2>1. /\ InGroup(s) /\ Departed(GroupOf(s), s).state = "Playing"
        /\ command' = Command("Unpause", GroupOf(s).participants)
    BY <1>2 DEF Departure, DepartureCommand
  <2>2. command'.type = "Unpause" /\ command'.to = GroupOf(s).participants
    BY <2>1 DEF Command
  <2>3. ASSUME NEW g \in DOMAIN groups'
        PROVE  IF g = sessionGroups[s] THEN groups'[g].state = "Playing"
               ELSE g \in DOMAIN groups /\ groups'[g] = groups[g]
    BY <2>1, <2>3 DEF Departure, GroupsWithout, GroupOf, InGroup, Inv, TypeOK
  <2>4. Suits("Unpause", "Playing")
    BY DEF Suits
  <2> QED
    BY <2>1, <2>2, <2>3, <2>4, TellsSuit DEF Tells
<1> QED
  BY <1>1, <1>2

\* The playback requests.
LEMMA PlaybackSuits ==
    ASSUME Inv, NEW s \in Sessions,
           \/ Unpause(s) \/ Pause(s) \/ Stop(s) \/ Seek(s)
           \/ \E item \in Items \cup {Nil} : Buffering(s, item) \/ Ready(s, item)
    PROVE  AllSuited
<1> DEFINE gr == GroupOf(s)
           ready == [gr EXCEPT !.buffering = @ \ {s}]
           stalled == [gr EXCEPT !.buffering = @ \cup {s}]
<1>1. InGroup(s)
  BY DEF Unpause, Pause, Stop, Seek, Buffering, Ready
<1>2. gr \in Groups /\ {s} \subseteq gr.participants /\ gr.state \in GroupStates
  BY <1>1, InvMember DEF Groups
<1>3. /\ Suits("Unpause", "Playing") /\ Suits("Stop", "Idle") /\ Suits("Seek", "Waiting")
      /\ Suits("Pause", "Waiting") /\ Suits("Pause", "Paused")
  BY DEF Suits
<1>4. /\ StartPlaying(gr).state = "Playing" /\ StartPlaying(ready).state = "Playing"
      /\ \A resume : BeginWait(gr, resume).state = "Waiting"
      /\ [gr EXCEPT !.state = "Paused"].state = "Paused"
      /\ [ready EXCEPT !.state = "Paused"].state = "Paused"
      /\ [gr EXCEPT !.state = "Idle", !.resume = FALSE, !.buffering = {}].state = "Idle"
      /\ stalled.state = gr.state /\ ready.state = gr.state
      /\ \A resume : [stalled EXCEPT !.state = "Waiting", !.resume = resume].state = "Waiting"
  BY <1>2 DEF BeginWait, StartPlaying, Groups
<1>5. ASSUME NEW new, NEW type, NEW to \in SUBSET gr.participants, Suits(type, new.state),
             Handle(s, new, Command(type, to))
      PROVE  AllSuited
  BY <1>1, <1>5, HandleSuits
<1>6. ASSUME NEW new, Handle(s, new, NoCommand) PROVE AllSuited
  BY <1>6, QuietSuits DEF Handle
<1>7. ASSUME gr.state # "Waiting", Handle(s, gr, Reply(s, gr)) PROVE AllSuited
  <2>1. CASE gr.state = "Playing"
    BY <1>2, <1>3, <1>5, <1>7, <2>1 DEF Reply
  <2>2. CASE gr.state = "Paused"
    BY <1>2, <1>3, <1>5, <1>7, <2>2 DEF Reply
  <2>3. CASE gr.state = "Idle"
    BY <1>2, <1>3, <1>5, <1>7, <2>3 DEF Reply
  <2> QED
    BY <1>2, <1>7, <2>1, <2>2, <2>3 DEF GroupStates
<1> HIDE DEF gr, ready, stalled
<1>8. \A new, to :
          to \subseteq gr.participants =>
             /\ new.state = "Playing" /\ Handle(s, new, Command("Unpause", to)) => AllSuited
             /\ new.state = "Idle" /\ Handle(s, new, Command("Stop", to)) => AllSuited
             /\ new.state = "Waiting" /\ Handle(s, new, Command("Seek", to)) => AllSuited
             /\ new.state \in {"Waiting", "Paused"} /\ Handle(s, new, Command("Pause", to)) => AllSuited
  BY <1>3, <1>5
<1>9. CASE Unpause(s)
  <2>1. /\ Handle(s, StartPlaying(gr), Command("Unpause", gr.participants)) => AllSuited
        /\ gr.state = "Playing" /\ Handle(s, gr, Command("Unpause", {s})) => AllSuited
    BY <1>2, <1>4, <1>8
  <2> QED
    BY <1>6, <1>9, <2>1 DEF Unpause, gr
<1>10. CASE Pause(s) \/ Stop(s)
  <2> DEFINE stopped == [gr EXCEPT !.state = "Idle", !.resume = FALSE, !.buffering = {}]
             paused == [gr EXCEPT !.state = "Paused"]
  <2>1. stopped.state = "Idle" /\ paused.state = "Paused"
    BY <1>4
  <2> HIDE DEF stopped, paused
  <2>2. /\ gr.state = "Idle" /\ Handle(s, gr, Command("Stop", {s})) => AllSuited
        /\ Handle(s, paused, Command("Pause", gr.participants)) => AllSuited
        /\ gr.state = "Paused" /\ Handle(s, gr, Command("Pause", {s})) => AllSuited
        /\ Handle(s, stopped, Command("Stop", {s})) => AllSuited
        /\ Handle(s, stopped, Command("Stop", gr.participants)) => AllSuited
    BY <1>2, <1>8, <2>1
  <2>3. CASE Pause(s)
    BY <1>6, <2>2, <2>3 DEF Pause, gr, paused
  <2>4. CASE Stop(s)
    BY <2>2, <2>4 DEF Stop, gr, stopped
  <2> QED
    BY <1>10, <2>3, <2>4
<1>11. CASE Seek(s)
  <2>1. /\ gr.state = "Idle" /\ Handle(s, gr, Command("Stop", {s})) => AllSuited
        /\ \A resume : Handle(s, BeginWait(gr, resume), Command("Seek", gr.participants)) => AllSuited
    BY <1>2, <1>4, <1>8
  <2> QED
    BY <1>11, <2>1 DEF Seek, gr
<1>12. ASSUME NEW item, Buffering(s, item) PROVE AllSuited
  <2> DEFINE held(resume) == [stalled EXCEPT !.state = "Waiting", !.resume = resume]
  <2>1. held(TRUE).state = "Waiting" /\ held(FALSE).state = "Waiting"
    BY <1>4
  <2> HIDE DEF held
  <2>2. /\ \A to : to \subseteq gr.participants /\ Handle(s, held(TRUE), Command("Pause", to))
                     => AllSuited
        /\ Handle(s, held(FALSE), Command("Pause", {s})) => AllSuited
        /\ gr.state = "Waiting" /\ Handle(s, stalled, Command("Pause", {s})) => AllSuited
    BY <1>2, <1>4, <1>8, <2>1
  <2>3. \/ Handle(s, stalled, NoCommand)
        \/ gr.state = "Idle" /\ Handle(s, gr, Reply(s, gr))
        \/ Handle(s, held(TRUE), Command("Pause", gr.participants \ stalled.buffering))
        \/ Handle(s, held(FALSE), Command("Pause", {s}))
        \/ gr.state = "Waiting" /\ Handle(s, stalled, Command("Pause", {s}))
    BY <1>12 DEF Buffering, gr, stalled, held
  <2> QED
    BY <1>6, <1>7, <2>2, <2>3
<1>13. ASSUME NEW isPlaying, NEW near, NEW late, gr.state = "Waiting",
              ReadyWhileWaiting(s, isPlaying, near, late)
       PROVE  AllSuited
  <2> DEFINE paused == [ready EXCEPT !.state = "Paused"]
  <2>1. paused.state = "Paused" /\ stalled.state = "Waiting" /\ ready.state = "Waiting"
    BY <1>4, <1>13
  <2> HIDE DEF paused
  <2>2. /\ Handle(s, stalled, Command("Seek", {s})) => AllSuited
        /\ Handle(s, ready, Command("Pause", {s})) => AllSuited
        /\ \A to : to \subseteq gr.participants /\ Handle(s, StartPlaying(ready), Command("Unpause", to))
                     => AllSuited
        /\ Handle(s, paused, Command("Pause", gr.participants)) => AllSuited
    BY <1>2, <1>4, <1>8, <2>1
  <2>3. \/ Handle(s, stalled, Command("Seek", {s}))
        \/ Handle(s, ready, Command("Pause", {s})) \/ Handle(s, ready, NoCommand)
        \/ Handle(s, StartPlaying(ready), Command("Unpause", gr.participants \ {s}))
        \/ Handle(s, StartPlaying(ready), Command("Unpause", gr.participants))
        \/ Handle(s, paused, Command("Pause", gr.participants))
    BY <1>13 DEF ReadyWhileWaiting, gr, ready, stalled, paused
  <2> QED
    BY <1>6, <2>2, <2>3
<1>14. ASSUME NEW item, Ready(s, item) PROVE AllSuited
  BY <1>6, <1>7, <1>13, <1>14 DEF Ready, gr
<1> QED
  BY <1>9, <1>10, <1>11, <1>12, <1>14

\* A command suits the state its request leaves the group in: nobody is told to play
\* in a group that does not, or to stop in one that is not idle, except by the late
\* Unpause of set_ignore_wait.
THEOREM CommandsSuit == Spec => CommandsSuitTheGroup
<1>1. ASSUME Inv, Next
      PROVE  (\E s \in Sessions : AnnounceUnpause(s)) \/ AllSuited
  <2> SUFFICES ASSUME ~(\E s \in Sessions : AnnounceUnpause(s)) PROVE AllSuited
    OBVIOUS
  <2>1. ASSUME NEW s \in Sessions,
               \/ CreateGroup(s) \/ JoinGroup(s) \/ Connect(s)
               \/ \E ignore \in BOOLEAN : SetIgnoreWait(s, ignore)
        PROVE  AllSuited
    BY <2>1, QuietSuits DEF CreateGroup, JoinGroup, Connect, WebsocketConnected, SetIgnoreWait
  <2>2. ASSUME NEW s \in Sessions, LeaveGroup(s) \/ WebsocketDisconnected(s)
        PROVE  AllSuited
    BY <2>2, QuietSuits, DepartureSuits, <1>1 DEF LeaveGroup, WebsocketDisconnected
  <2>3. ASSUME NEW s \in Sessions,
               \/ SetNewQueue(s) \/ SetPlaylistItem(s) \/ RemoveFromPlaylist(s)
               \/ EditQueue(s) \/ Navigate(s)
        PROVE  AllSuited
    <3>1. \E new : Handle(s, new, NoCommand)
      BY <2>3 DEF SetNewQueue, SetPlaylistItem, RemoveFromPlaylist, Removing, EditQueue, Navigate
    <3> QED
      BY <3>1, QuietSuits DEF Handle
  <2>4. ASSUME NEW s \in Sessions,
               \/ Unpause(s) \/ Pause(s) \/ Stop(s) \/ Seek(s)
               \/ \E item \in Items \cup {Nil} : Buffering(s, item) \/ Ready(s, item)
        PROVE  AllSuited
    BY <1>1, <2>4, PlaybackSuits
  <2> QED
    BY <1>1, <2>1, <2>2, <2>3, <2>4 DEF Next
<1>2. Inv /\ [Next]_vars =>
        [\/ \E s \in Sessions : AnnounceUnpause(s)
         \/ \A g \in DOMAIN groups' : \A s \in command'.to \cap groups'[g].participants :
               Suits(command'.type, groups'[g].state)]_vars
  BY <1>1 DEF AllSuited
<1> QED
  BY <1>2, Invariance, PTL DEF Spec, CommandsSuitTheGroup

-----------------------------------------------------------------------------
(* The queues of the groups *)

QueuesConsistent == \A g \in DOMAIN groups : Consistent(groups[g].queue)

AllAwaited(gr) == gr.state = "Waiting" /\ gr.buffering = gr.participants

\* q plays what p played, or nothing.
SameItem(p, q) == PlayingItem(p) # Nil => PlayingItem(q) \in {PlayingItem(p), Nil}

\* gr may follow old: with another item, it waits for everyone.
AwaitsNew(old, gr) == SameItem(old.queue, gr.queue) \/ AllAwaited(gr)

\* What a step does to the groups: their queues stay consistent, and those that go on
\* to another item wait for everyone.
QueueStep ==
    /\ \A g \in DOMAIN groups' : Consistent(groups'[g].queue)
    /\ \A g \in DOMAIN groups \cap DOMAIN groups' :
          (\E s \in Sessions : RemoveFromPlaylist(s)) \/ AwaitsNew(groups[g], groups'[g])

\* A step that edits no queue.
KeepsQueues ==
    \A g \in DOMAIN groups' :
        IF g \in DOMAIN groups THEN groups'[g].queue = groups[g].queue
        ELSE groups'[g].queue = NewQueue

\* It is a queue step.
LEMMA KeptQueues ==
    ASSUME QueuesConsistent, KeepsQueues
    PROVE  QueueStep
<1>1. Consistent(NewQueue)
  BY DEF Consistent, NewQueue, NoRepeats
<1> QED
  BY <1>1 DEF QueuesConsistent, KeepsQueues, QueueStep, AwaitsNew, SameItem

\* A request that replaces the queue of its group.
LEMMA HandleQueue ==
    ASSUME QueuesConsistent, NEW s \in Sessions, InGroup(s), NEW gr, NEW cmd, Handle(s, gr, cmd),
           Consistent(gr.queue), RemoveFromPlaylist(s) \/ AwaitsNew(GroupOf(s), gr)
    PROVE  QueueStep
<1>1. DOMAIN groups' = DOMAIN groups
  BY DEF Handle
<1>2. \A g \in DOMAIN groups : groups'[g] = IF g = sessionGroups[s] THEN gr ELSE groups[g]
  BY DEF Handle
<1>3. \A g \in DOMAIN groups : Consistent(groups'[g].queue)
  BY <1>2 DEF QueuesConsistent
<1>4. \A g \in DOMAIN groups : AwaitsNew(groups[g], groups[g])
  BY DEF AwaitsNew, SameItem
<1>5. \A g \in DOMAIN groups :
          (\E t \in Sessions : RemoveFromPlaylist(t)) \/ AwaitsNew(groups[g], groups'[g])
  BY <1>2, <1>4 DEF GroupOf
<1> QED
  BY <1>1, <1>3, <1>5 DEF QueueStep

\* A request that keeps the queue of its group.
LEMMA HandleSameQueue ==
    ASSUME QueuesConsistent, NEW s \in Sessions, InGroup(s), NEW gr, NEW cmd, Handle(s, gr, cmd),
           gr.queue = GroupOf(s).queue
    PROVE  QueueStep
BY HandleQueue DEF QueuesConsistent, InGroup, GroupOf, AwaitsNew, SameItem

\* The queue of the group of s is a consistent queue.
LEMMA MemberQueue ==
    ASSUME Inv, QueuesConsistent, NEW s \in Sessions, InGroup(s)
    PROVE  GroupOf(s).queue \in Queues /\ Consistent(GroupOf(s).queue)
BY InvMember DEF QueuesConsistent, InGroup, GroupOf

\* begin_wait and an edit of the queue.
LEMMA GroupFields ==
    ASSUME NEW gr \in Groups, NEW q
    PROVE  /\ WithQueue(gr, q).queue = q
           /\ [WithQueue(gr, q) EXCEPT !.state = "Idle"].queue = q
           /\ \A resume : /\ BeginWait(WithQueue(gr, q), resume).queue = q
                          /\ AllAwaited(BeginWait(WithQueue(gr, q), resume))
           /\ \A resume : BeginWait(gr, resume).queue = gr.queue
BY DEF WithQueue, BeginWait, AllAwaited, Groups

\* The requests that select what plays next have everyone waited for.
LEMMA SelectStep ==
    ASSUME Inv, QueuesConsistent, NEW s \in Sessions,
           SetNewQueue(s) \/ SetPlaylistItem(s) \/ Navigate(s)
    PROVE  QueueStep
<1> DEFINE gr == GroupOf(s)
           q == GroupOf(s).queue
<1>1. InGroup(s)
  BY DEF SetNewQueue, SetPlaylistItem, Navigate
<1>2. q \in Queues /\ Consistent(q) /\ gr \in Groups
  BY <1>1, MemberQueue, InvMember
<1>3. ASSUME NEW new, Consistent(new), Handle(s, BeginWait(WithQueue(gr, new), TRUE), NoCommand)
      PROVE  QueueStep
  <2>1. /\ BeginWait(WithQueue(gr, new), TRUE).queue = new
        /\ AllAwaited(BeginWait(WithQueue(gr, new), TRUE))
    BY <1>2, GroupFields
  <2> QED
    BY <1>1, <1>3, <2>1, HandleQueue DEF AwaitsNew
<1>4. ASSUME NEW new, Consistent(new), SameItem(q, new), Handle(s, WithQueue(gr, new), NoCommand)
      PROVE  QueueStep
  <2>1. WithQueue(gr, new).queue = new
    BY <1>2, GroupFields
  <2> QED
    BY <1>1, <1>4, <2>1, HandleQueue DEF AwaitsNew
<1> HIDE DEF gr, q
<1>5. CASE SetNewQueue(s)
  <2>1. PICK items \in Batches({}) : \E position \in 0..(Len(items) - 1) :
            Handle(s, BeginWait(WithQueue(gr, SetPlaylist(items, position)), TRUE), NoCommand)
    BY <1>5 DEF SetNewQueue, gr
  <2>2. \A position : Consistent(SetPlaylist(items, position))
    BY BatchLists, SetPlaylistConsistent
  <2> QED
    BY <1>3, <2>1, <2>2
<1>6. CASE SetPlaylistItem(s)
  <2>1. PICK item \in Items \cup {Nil} :
            LET new == WithQueue(gr, SetPlayingItem(q, item))
            IN  Handle(s, IF IsItemPlaying(new.queue) THEN BeginWait(new, TRUE) ELSE new, NoCommand)
    BY <1>6 DEF SetPlaylistItem, gr, q
  <2> DEFINE to == SetPlayingItem(q, item)
  <2>2. Consistent(to)
    BY <1>2, SelectConsistent
  <2>3. to \in Queues
    BY <1>2, SetPlayingItemType
  <2>4. WithQueue(gr, to).queue = to
    BY <1>2, GroupFields
  <2> HIDE DEF to
  <2>5. CASE IsItemPlaying(to)
    BY <1>3, <2>1, <2>2, <2>4, <2>5 DEF to
  <2>6. CASE ~IsItemPlaying(to)
    <3>1. SameItem(q, to)
      BY <2>3, <2>6, PlayingIsQueued DEF SameItem
    <3> QED
      BY <1>4, <2>1, <2>2, <2>4, <2>6, <3>1 DEF to
  <2> QED
    BY <2>5, <2>6
<1>7. CASE Navigate(s)
  <2>1. PICK to \in {NextItem(q), PreviousItem(q)} :
            Handle(s, IF to.ok THEN BeginWait(WithQueue(gr, to.queue), TRUE)
                      ELSE WithQueue(gr, to.queue), NoCommand)
    BY <1>7 DEF Navigate, gr, q
  <2>2. Consistent(to.queue)
    BY <1>2, NavigationKeeps
  <2>3. CASE to.ok
    BY <1>3, <2>1, <2>2, <2>3
  <2>4. CASE ~to.ok
    <3>1. SameItem(q, to.queue)
      BY <1>2, <2>4, RefusedStays DEF SameItem
    <3> QED
      BY <1>4, <2>1, <2>2, <2>4, <3>1
  <2> QED
    BY <2>3, <2>4
<1> QED
  BY <1>5, <1>6, <1>7

\* An edit that loses nothing leaves the playing item playing.
LEMMA EditSameItem ==
    ASSUME NEW q \in Queues, NEW r, KeepsPlaying(q, r), LosesNothing(q, r)
    PROVE  SameItem(q, r)
BY PlayingIsQueued DEF KeepsPlaying, LosesNothing, SameItem

\* Edits keep what plays; removals are the exception.
LEMMA EditStep ==
    ASSUME Inv, QueuesConsistent, NEW s \in Sessions, EditQueue(s) \/ RemoveFromPlaylist(s)
    PROVE  QueueStep
<1> DEFINE gr == GroupOf(s)
           q == GroupOf(s).queue
<1>1. InGroup(s)
  BY DEF EditQueue, RemoveFromPlaylist
<1>2. q \in Queues /\ Consistent(q) /\ gr \in Groups /\ q.playlist \in Seq(Items)
  BY <1>1, MemberQueue, InvMember, QueueFields
<1>3. ASSUME NEW edit, Keeps(q, edit) /\ LosesNothing(q, edit),
             Handle(s, WithQueue(gr, edit), NoCommand)
      PROVE  QueueStep
  <2>1. WithQueue(gr, edit).queue = edit
    BY <1>2, GroupFields
  <2>2. SameItem(q, edit) /\ Consistent(edit)
    BY <1>2, <1>3, EditSameItem DEF Keeps
  <2> QED
    BY <1>1, <1>3, <2>1, <2>2, HandleQueue DEF AwaitsNew
<1>4. ASSUME NEW edit, Keeps(q, edit), NEW removed, Removing(s, edit, removed), RemoveFromPlaylist(s)
      PROVE  QueueStep
  <2>1. /\ WithQueue(gr, edit).queue = edit
        /\ [WithQueue(gr, edit) EXCEPT !.state = "Idle"].queue = edit
    BY <1>2, GroupFields
  <2> QED
    BY <1>1, <1>4, <2>1, HandleQueue DEF Removing, Keeps
<1> HIDE DEF gr, q
<1>5. CASE RemoveFromPlaylist(s)
  <2>1. \/ \E ids \in SUBSET Items : Removing(s, RemoveItems(q, ids), RemovesPlaying(q, ids))
        \/ \E clearPlaying \in BOOLEAN : Removing(s, ClearPlaylist(q, clearPlaying), clearPlaying)
    BY <1>5 DEF RemoveFromPlaylist, q
  <2>2. CASE \E ids \in SUBSET Items : Removing(s, RemoveItems(q, ids), RemovesPlaying(q, ids))
    BY <1>2, <1>4, <1>5, <2>2, RemoveItemsKeeps
  <2>3. CASE \E clearPlaying \in BOOLEAN : Removing(s, ClearPlaylist(q, clearPlaying), clearPlaying)
    BY <1>2, <1>4, <1>5, <2>3, ClearPlaylistKeeps
  <2> QED
    BY <2>1, <2>2, <2>3
<1>6. CASE EditQueue(s)
  <2>1. ASSUME NEW item \in ToSet(q.playlist), NEW i \in 0..(Len(q.playlist) - 1),
               Handle(s, WithQueue(gr, MoveItem(q, item, i)), NoCommand)
        PROVE  QueueStep
    <3>1. i \in Int
      BY <1>2
    <3> QED
      BY <1>2, <1>3, <2>1, <3>1, MoveItemKeeps
  <2>2. ASSUME NEW items \in Batches(ToSet(q.playlist)),
               \/ Handle(s, WithQueue(gr, AddLast(q, items)), NoCommand)
               \/ Handle(s, WithQueue(gr, AddNext(q, items)), NoCommand)
        PROVE  QueueStep
    <3>1. /\ items \in Seq(Items) /\ NoRepeats(items)
          /\ ToSet(items) \cap ToSet(q.playlist) = {}
      BY BatchLists
    <3> QED
      BY <1>2, <1>3, <2>2, <3>1, AddLastKeeps, AddNextKeeps
  <2>3. ASSUME NEW mode, Handle(s, WithQueue(gr, SetRepeatMode(q, mode)), NoCommand)
        PROVE  QueueStep
    BY <1>2, <1>3, <2>3, SetRepeatModeKeeps
  <2>4. ASSUME NEW mode, NEW edit \in SetShuffleMode(q, mode),
               Handle(s, WithQueue(gr, edit), NoCommand)
        PROVE  QueueStep
    BY <1>2, <1>3, <2>4, ShuffledKeeps, RestoredKeeps DEF SetShuffleMode
  <2>5. \/ \E item \in ToSet(q.playlist), i \in 0..(Len(q.playlist) - 1) :
              Handle(s, WithQueue(gr, MoveItem(q, item, i)), NoCommand)
        \/ \E items \in Batches(ToSet(q.playlist)) :
              \/ Handle(s, WithQueue(gr, AddLast(q, items)), NoCommand)
              \/ Handle(s, WithQueue(gr, AddNext(q, items)), NoCommand)
        \/ \E mode : Handle(s, WithQueue(gr, SetRepeatMode(q, mode)), NoCommand)
        \/ \E mode : \E edit \in SetShuffleMode(q, mode) : Handle(s, WithQueue(gr, edit), NoCommand)
    BY <1>6 DEF EditQueue, gr, q
  <2> QED
    BY <2>1, <2>2, <2>3, <2>4, <2>5
<1> QED
  BY <1>5, <1>6

\* The playback requests do not touch the queue.
LEMMA PlaybackStep ==
    ASSUME Inv, QueuesConsistent, NEW s \in Sessions,
           \/ Unpause(s) \/ Pause(s) \/ Stop(s) \/ Seek(s)
           \/ \E item \in Items \cup {Nil} : Buffering(s, item) \/ Ready(s, item)
    PROVE  QueueStep
<1> DEFINE gr == GroupOf(s)
           ready == [gr EXCEPT !.buffering = @ \ {s}]
           stalled == [gr EXCEPT !.buffering = @ \cup {s}]
<1>1. InGroup(s)
  BY DEF Unpause, Pause, Stop, Seek, Buffering, Ready
<1>2. gr \in Groups
  BY <1>1, InvMember
<1>3. ASSUME NEW new, NEW cmd, Handle(s, new, cmd), new.queue = gr.queue PROVE QueueStep
  BY <1>1, <1>3, HandleSameQueue
<1>4. /\ StartPlaying(gr).queue = gr.queue /\ StartPlaying(ready).queue = gr.queue
      /\ \A resume : BeginWait(gr, resume).queue = gr.queue
      /\ \A resume : [gr EXCEPT !.resume = resume].queue = gr.queue
      /\ [gr EXCEPT !.state = "Paused"].queue = gr.queue
      /\ [ready EXCEPT !.state = "Paused"].queue = gr.queue
      /\ [gr EXCEPT !.state = "Idle", !.resume = FALSE, !.buffering = {}].queue = gr.queue
      /\ stalled.queue = gr.queue /\ ready.queue = gr.queue
      /\ \A resume : [stalled EXCEPT !.state = "Waiting", !.resume = resume].queue = gr.queue
  BY <1>2 DEF BeginWait, StartPlaying, Groups
<1> HIDE DEF gr, ready, stalled
<1>5. CASE Unpause(s)
  BY <1>3, <1>4, <1>5 DEF Unpause, gr
<1>6. CASE Pause(s)
  BY <1>3, <1>4, <1>6 DEF Pause, gr
<1>7. CASE Stop(s)
  BY <1>3, <1>4, <1>7 DEF Stop, gr
<1>8. CASE Seek(s)
  BY <1>3, <1>4, <1>8 DEF Seek, gr
<1>9. ASSUME NEW item, Buffering(s, item) PROVE QueueStep
  <2>1. \E cmd : \/ Handle(s, stalled, cmd)
                 \/ Handle(s, gr, cmd)
                 \/ Handle(s, [stalled EXCEPT !.state = "Waiting", !.resume = TRUE], cmd)
                 \/ Handle(s, [stalled EXCEPT !.state = "Waiting", !.resume = FALSE], cmd)
    BY <1>9 DEF Buffering, gr, stalled
  <2> QED
    BY <1>3, <1>4, <2>1
<1>10. ASSUME NEW isPlaying, NEW near, NEW late, ReadyWhileWaiting(s, isPlaying, near, late)
       PROVE  QueueStep
  <2>1. \E cmd : \/ Handle(s, stalled, cmd) \/ Handle(s, ready, cmd)
                 \/ Handle(s, StartPlaying(ready), cmd)
                 \/ Handle(s, [ready EXCEPT !.state = "Paused"], cmd)
    BY <1>10 DEF ReadyWhileWaiting, gr, ready, stalled
  <2> QED
    BY <1>3, <1>4, <2>1
<1>11. ASSUME NEW item, Ready(s, item) PROVE QueueStep
  BY <1>3, <1>4, <1>10, <1>11 DEF Ready, gr, stalled
<1> QED
  BY <1>5, <1>6, <1>7, <1>8, <1>9, <1>11

\* Membership does not touch the queues.
LEMMA MembershipStep ==
    ASSUME Inv, QueuesConsistent, NEW s \in Sessions,
           CreateGroup(s) \/ JoinGroup(s) \/ Departure(s)
    PROVE  QueueStep
<1> DEFINE G == GroupsWithout(s)
<1>1. \A gr \in Groups : FinishWait(gr).queue = gr.queue
  BY DEF FinishWait, Groups
<1>2. \A gr \in Groups : Joined(gr, s).queue = gr.queue
  BY DEF Joined, Groups
<1>3. ASSUME NEW gr \in Groups PROVE Departed(gr, s).queue = gr.queue
  <2> DEFINE rest == [gr EXCEPT !.participants = @ \ {s}, !.buffering = @ \ {s},
                                !.ignoring = @ \ {s}]
  <2>1. rest \in Groups /\ rest.queue = gr.queue
    BY DEF Groups
  <2> HIDE DEF rest
  <2>2. FinishWait(rest).queue = gr.queue
    BY <1>1, <2>1
  <2> QED
    BY <2>2 DEF Departed, rest
<1>4. \A g \in DOMAIN G : g \in DOMAIN groups /\ G[g].queue = groups[g].queue
  BY <1>3, InvMember DEF GroupsWithout, GroupOf, InGroup, Inv, TypeOK
<1>5. \A g \in DOMAIN G : G[g] \in Groups
  BY WithoutOK DEF GroupOK
<1> HIDE DEF G
<1>6. CASE CreateGroup(s)
  <2>1. PICK new \in GroupIds \ DOMAIN groups :
            groups' = [h \in DOMAIN G \cup {new} |-> IF h = new THEN NewGroup(s) ELSE G[h]]
    BY <1>6 DEF CreateGroup, G
  <2>2. NewGroup(s).queue = NewQueue
    BY DEF NewGroup
  <2>3. KeepsQueues
    BY <1>4, <2>1, <2>2 DEF KeepsQueues
  <2> QED
    BY <2>3, KeptQueues
<1>7. CASE JoinGroup(s)
  <2>1. PICK to \in DOMAIN groups \ {sessionGroups[s]} : groups' = [G EXCEPT ![to] = Joined(@, s)]
    BY <1>7 DEF JoinGroup, G
  <2>2. ASSUME NEW g \in DOMAIN groups'
        PROVE  g \in DOMAIN groups /\ groups'[g].queue = groups[g].queue
    BY <1>2, <1>4, <1>5, <2>1, <2>2
  <2> QED
    BY <2>2, KeptQueues DEF KeepsQueues
<1>8. CASE Departure(s)
  BY <1>4, <1>8, KeptQueues DEF KeepsQueues, Departure, G
<1> QED
  BY <1>6, <1>7, <1>8

\* set_ignore_wait does not touch the queue.
LEMMA IgnoreStep ==
    ASSUME Inv, QueuesConsistent, NEW s \in Sessions, NEW ignore, SetIgnoreWait(s, ignore)
    PROVE  QueueStep
<1> DEFINE gr == GroupOf(s)
           marked == [gr EXCEPT !.ignoring = IF ignore THEN @ \cup {s} ELSE @ \ {s}]
<1>1. InGroup(s) /\ gr \in Groups
  BY InvMember DEF SetIgnoreWait
<1>2. FinishWait(marked).queue = gr.queue
  BY <1>1 DEF FinishWait, Groups
<1>3. groups' = [groups EXCEPT ![sessionGroups[s]] = FinishWait(marked)]
  BY DEF SetIgnoreWait
<1> HIDE DEF marked
<1>4. KeepsQueues
  BY <1>2, <1>3 DEF KeepsQueues, GroupOf
<1> QED
  BY <1>4, KeptQueues

\* Every step.
LEMMA NextQueueStep ==
    ASSUME Inv, QueuesConsistent, Next
    PROVE  QueueStep
<1>1. UNCHANGED groups => QueueStep
  BY KeptQueues DEF KeepsQueues
<1>2. ASSUME NEW s \in Sessions, LeaveGroup(s) \/ Connect(s) \/ WebsocketDisconnected(s)
      PROVE  QueueStep
  BY <1>1, <1>2, MembershipStep
     DEF LeaveGroup, Connect, WebsocketConnected, WebsocketDisconnected
<1>3. ASSUME NEW s \in Sessions, AnnounceUnpause(s) PROVE QueueStep
  BY <1>1, <1>3 DEF AnnounceUnpause
<1> QED
  BY <1>2, <1>3, MembershipStep, SelectStep, EditStep, PlaybackStep, IgnoreStep DEF Next

\* The invariant with the queues.
LEMMA QueuesInvariance == Spec => [](Inv /\ QueuesConsistent)
<1>1. Init => QueuesConsistent
  BY DEF Init, QueuesConsistent
<1>2. Inv /\ QueuesConsistent /\ [Next]_vars => QueuesConsistent'
  <2>1. ASSUME QueueStep PROVE QueuesConsistent'
    BY <2>1 DEF QueueStep, QueuesConsistent, Consistent, NoRepeats
  <2>2. ASSUME QueuesConsistent, UNCHANGED vars PROVE QueuesConsistent'
    BY <2>2 DEF vars, QueuesConsistent, Consistent, NoRepeats
  <2> QED
    BY <2>1, <2>2, NextQueueStep
<1> QED
  BY <1>1, <1>2, Invariance, PTL DEF Spec

\* The queue of every group lists each occurrence once, in both orders while it is
\* shuffled, under all the requests of all its sessions.
THEOREM GroupQueuesAreConsistent == Spec => []QueuesConsistent
BY QueuesInvariance, PTL

\* A group that goes on to another item waits for all its participants again, unless
\* the playing item was removed: readiness never carries over to the next item.
THEOREM NewItemsAreAwaited == Spec => NewItemIsAwaited
<1> DEFINE A == \A g \in DOMAIN groups \cap DOMAIN groups' :
          LET before == PlayingItem(groups[g].queue)
              after == PlayingItem(groups'[g].queue)
          IN  after \notin {before, Nil} /\ before # Nil =>
                 \/ \E s \in Sessions : RemoveFromPlaylist(s)
                 \/ /\ groups'[g].state = "Waiting"
                    /\ groups'[g].buffering = groups'[g].participants
<1>1. QueueStep => A
  BY DEF QueueStep, AwaitsNew, SameItem, AllAwaited
<1>2. Inv /\ QueuesConsistent /\ [Next]_vars => [A]_vars
  BY <1>1, NextQueueStep
<1> QED
  BY <1>2, QueuesInvariance, PTL DEF Spec, NewItemIsAwaited

-----------------------------------------------------------------------------
(* The websockets of the sessions *)

\* The connections the manager has to count for s.
Counted(s) == Of(s, {"Open", "Unsubscribed"})

\* The connections that are open are finitely many, as each was opened by a step.
ServingInv ==
    /\ serving \in [Connections -> [phase : Phases, session : Sessions]]
    /\ \A s \in Sessions : IsFiniteSet(Counted(s))
    /\ OpenConnectionsCounted

\* A step of a connection or of a request is a step of the manager or none.
LEMMA ServingStep ==
    ASSUME Inv, ServingInv, [ServingNext]_allVars
    PROVE  [Next]_vars
<1>1. ASSUME NEW c \in Connections, NEW s \in Sessions, Subscribe(c, s) PROVE UNCHANGED vars
  BY <1>1 DEF Subscribe
<1>2. ASSUME NEW c \in Connections, Open(c) PROVE Next
  <2>1. serving[c].session \in Sessions
    BY DEF ServingInv
  <2> QED
    BY <1>2, <2>1 DEF Open, Next
<1>3. ASSUME NEW c \in Connections, Unsubscribe(c) PROVE UNCHANGED vars
  BY <1>3 DEF Unsubscribe
<1>4. ASSUME NEW c \in Connections, ReportDisconnected(c) PROVE Next
  <2>1. serving[c].session \in Sessions
    BY DEF ServingInv
  <2> QED
    BY <1>4, <2>1 DEF ReportDisconnected, Next
<1>5. ASSUME NEW s \in Sessions, Request(s) PROVE Next
  <2>1. CASE Ready(s, Current(s))
    <3>1. InGroup(s)
      BY <2>1 DEF Ready
    <3>2. Current(s) \in Items \cup {Nil}
      BY <3>1, InvMember, QueueFields DEF Current
    <3> QED
      BY <2>1, <3>2 DEF Next
  <2>2. CASE ~Ready(s, Current(s))
    BY <1>5, <2>2 DEF Request, Next
  <2> QED
    BY <2>1, <2>2
<1> QED
  BY <1>1, <1>2, <1>3, <1>4, <1>5 DEF ServingNext, allVars, vars

\* Counts stay right: opening adds to both, a report takes from both, and between them
\* a connection is at most counted too much.
LEMMA ServingInvStep ==
    ASSUME Inv, ServingInv, [ServingNext]_allVars
    PROVE  ServingInv'
<1>1. /\ serving \in [Connections -> [phase : Phases, session : Sessions]]
      /\ \A s \in Sessions : /\ IsFiniteSet(Counted(s))
                             /\ Cardinality(Counted(s)) \in Nat
                             /\ Cardinality(Counted(s)) <= websocketConnections[s]
  BY FS_CardinalityType DEF ServingInv, OpenConnectionsCounted, Counted
<1>2. websocketConnections \in [Sessions -> Nat]
  BY DEF Inv, TypeOK
<1> DEFINE Good == serving' \in [Connections -> [phase : Phases, session : Sessions]]
           Fits(s) == IsFiniteSet(Counted(s)') /\ Cardinality(Counted(s)') <= websocketConnections'[s]
<1>3. ASSUME NEW c \in Connections, NEW t \in Sessions, NEW phase \in Phases \ {"Open"}, Good,
             \A d \in Connections \ {c} : serving'[d] = serving[d],
             serving'[c].phase = phase, serving'[c].session = t,
             phase = "Unsubscribed" => c \in Counted(t),
             \A s \in Sessions : \/ websocketConnections'[s] = websocketConnections[s]
                                 \/ /\ c \in Counted(s) /\ phase = "None"
                                    /\ websocketConnections'[s] = websocketConnections[s] - 1
      PROVE  \A s \in Sessions : Fits(s)
  <2> SUFFICES ASSUME NEW s \in Sessions PROVE Fits(s)
    OBVIOUS
  <2> DEFINE old == Counted(s)
             new == Counted(s)'
  <2>1. new \in {old, old \ {c}} /\ (phase = "None" => new = old \ {c})
    BY <1>1, <1>3 DEF Counted, Of
  <2>2. /\ IsFiniteSet(old) /\ Cardinality(old) \in Nat
        /\ Cardinality(old) <= websocketConnections[s]
        /\ IsFiniteSet(old \ {c})
        /\ Cardinality(old \ {c}) = IF c \in old THEN Cardinality(old) - 1 ELSE Cardinality(old)
    BY <1>1, FS_RemoveElement
  <2>3. \/ websocketConnections'[s] = websocketConnections[s]
        \/ c \in old /\ phase = "None" /\ websocketConnections'[s] = websocketConnections[s] - 1
    BY <1>3
  <2>4. websocketConnections[s] \in Nat
    BY <1>2
  <2>5. IsFiniteSet(new) /\ Cardinality(new) <= websocketConnections'[s]
    <3> HIDE DEF old, new
    <3>1. CASE c \in old /\ phase = "None"
      BY <3>1, <2>1, <2>2, <2>3, <2>4
    <3>2. CASE ~(c \in old /\ phase = "None")
      BY <3>2, <2>1, <2>2, <2>3, <2>4
    <3> QED
      BY <3>1, <3>2
  <2> QED
    BY <2>5
<1>4. ASSUME NEW c \in Connections, NEW s \in Sessions, Subscribe(c, s)
      PROVE  Good /\ \A t \in Sessions : Fits(t)
  <2>1. /\ Good /\ \A d \in Connections \ {c} : serving'[d] = serving[d]
        /\ serving'[c].phase = "Subscribed" /\ serving'[c].session = s
    BY <1>1, <1>4 DEF Subscribe, Phases
  <2>2. UNCHANGED websocketConnections
    BY <1>4 DEF Subscribe, vars
  <2>3. "Subscribed" \in Phases \ {"Open"} /\ "Subscribed" # "Unsubscribed"
    BY DEF Phases
  <2> HIDE DEF Good, Fits
  <2> QED
    BY <2>1, <2>2, <2>3, <1>3
<1>5. ASSUME NEW c \in Connections, Open(c) PROVE Good /\ \A t \in Sessions : Fits(t)
  <2> DEFINE s == serving[c].session
  <2>1. s \in Sessions /\ c \notin Counted(s)
    BY <1>1, <1>5 DEF Open, Counted, Of
  <2>2. Good
    BY <1>1, <1>5 DEF Open, Moves, Phases
  <2>3. websocketConnections' = [websocketConnections EXCEPT ![s] = @ + 1]
    BY <1>5 DEF Open, Connect, WebsocketConnected
  <2> SUFFICES ASSUME NEW t \in Sessions PROVE Fits(t)
    BY <2>2
  <2>4. Counted(t)' = IF t = s THEN Counted(t) \cup {c} ELSE Counted(t)
    BY <1>1, <1>5 DEF Open, Moves, Counted, Of
  <2>5. /\ IsFiniteSet(Counted(s) \cup {c})
        /\ Cardinality(Counted(s) \cup {c}) = Cardinality(Counted(s)) + 1
    BY <1>1, <2>1, FS_AddElement
  <2> HIDE DEF s
  <2> QED
    BY <2>1, <2>3, <2>4, <2>5, <1>1, <1>2
<1>6. ASSUME NEW c \in Connections, Unsubscribe(c) PROVE Good /\ \A t \in Sessions : Fits(t)
  <2>1. PICK phase \in {"Unsubscribed", "None"} : serving' = [serving EXCEPT ![c].phase = phase]
    BY <1>6 DEF Unsubscribe, Moves
  <2>2. /\ Good /\ \A d \in Connections \ {c} : serving'[d] = serving[d]
        /\ serving'[c].phase = phase /\ serving'[c].session = serving[c].session
        /\ serving[c].session \in Sessions
    BY <1>1, <2>1 DEF Phases
  <2>3. UNCHANGED websocketConnections /\ c \in Counted(serving[c].session)
    BY <1>6 DEF Unsubscribe, vars, Counted, Of
  <2>4. phase \in Phases \ {"Open"}
    BY DEF Phases
  <2> HIDE DEF Good, Fits
  <2> QED
    BY <2>2, <2>3, <2>4, <1>3
<1>7. ASSUME NEW c \in Connections, ReportDisconnected(c) PROVE Good /\ \A t \in Sessions : Fits(t)
  <2> DEFINE s == serving[c].session
  <2>1. /\ Good /\ \A d \in Connections \ {c} : serving'[d] = serving[d]
        /\ serving'[c].phase = "None" /\ serving'[c].session = s
        /\ s \in Sessions
    BY <1>1, <1>7 DEF ReportDisconnected, Moves, Phases
  <2>2. /\ websocketConnections' = [websocketConnections EXCEPT ![s] = @ - 1]
        /\ c \in Counted(s)
    BY <1>7 DEF ReportDisconnected, WebsocketDisconnected, Counted, Of
  <2>3. \A t \in Sessions : \/ websocketConnections'[t] = websocketConnections[t]
                            \/ /\ c \in Counted(t)
                               /\ websocketConnections'[t] = websocketConnections[t] - 1
    BY <2>1, <2>2, <1>2
  <2>4. "None" \in Phases \ {"Open"} /\ "None" # "Unsubscribed"
    BY DEF Phases
  <2> HIDE DEF Good, Fits, s
  <2> QED
    BY <2>1, <2>3, <2>4, <1>3
<1>8. ASSUME UNCHANGED <<serving, websocketConnections>> PROVE Good /\ \A t \in Sessions : Fits(t)
  BY <1>1, <1>8 DEF Counted, Of
<1>9. ASSUME NEW s \in Sessions, Request(s) PROVE UNCHANGED <<serving, websocketConnections>>
  <2>1. ASSUME NEW gr, NEW cmd, Handle(s, gr, cmd) PROVE UNCHANGED websocketConnections
    BY <2>1 DEF Handle
  <2>2. ASSUME NEW isPlaying, NEW near, NEW late, ReadyWhileWaiting(s, isPlaying, near, late)
        PROVE  UNCHANGED websocketConnections
    BY <2>1, <2>2 DEF ReadyWhileWaiting
  <2> QED
    BY <1>9, <2>1, <2>2 DEF Request, CreateGroup, JoinGroup, LeaveGroup, SetNewQueue, Ready
<1>10. Good /\ \A s \in Sessions : Fits(s)
  BY <1>4, <1>5, <1>6, <1>7, <1>8, <1>9 DEF ServingNext, allVars, vars
<1> QED
  BY <1>10 DEF ServingInv, OpenConnectionsCounted, Counted

\* The invariants of the manager and of the connections hold together.
LEMMA ServingInvariance == ServingSpec => [](Inv /\ ServingInv)
<1>1. ServingInit => Inv /\ ServingInv
  <2> SUFFICES ASSUME ServingInit PROVE Inv /\ ServingInv
    OBVIOUS
  <2>1. Inv
    BY InitInv DEF ServingInit
  <2>2. serving \in [Connections -> [phase : Phases, session : Sessions]]
    BY DEF ServingInit, Phases
  <2>3. \A s \in Sessions : Counted(s) = {} /\ websocketConnections[s] = 0
    BY DEF ServingInit, Init, Counted, Of
  <2> QED
    BY <2>1, <2>2, <2>3, FS_EmptySet DEF ServingInv, OpenConnectionsCounted, Counted
<1>2. Inv /\ ServingInv /\ [ServingNext]_allVars => (Inv /\ ServingInv)'
  BY ServingStep, ServingInvStep, NextInv
<1> QED
  BY <1>1, <1>2, PTL DEF ServingSpec

\* The websockets and the requests use the manager as SyncPlay says it may be used:
\* whatever holds of the manager holds when connections come and go.
THEOREM ServingUsesManager == ServingSpec => Spec
<1>1. ServingInit => Init
  BY DEF ServingInit
<1>2. Inv /\ ServingInv /\ [ServingNext]_allVars => [Next]_vars
  BY ServingStep
<1> QED
  BY <1>1, <1>2, ServingInvariance, PTL DEF ServingSpec, Spec

\* The manager counts at least the connections that are open, however many there are.
THEOREM ConnectionsAreCounted == ServingSpec => []OpenConnectionsCounted
<1>1. ServingInv => OpenConnectionsCounted
  BY DEF ServingInv
<1> QED
  BY <1>1, ServingInvariance, PTL

\* A report takes a session out of its group only with its last open connection.
THEOREM OpenSessionsStay == ServingSpec => StaysWhileOpen
<1>1. ASSUME Inv, ServingInv, NEW c \in Connections, ReportDisconnected(c),
             NEW s \in Sessions, Leaves(s)
      PROVE  Counted(s)' = {}
  <2> DEFINE t == serving[c].session
  <2>1. /\ serving \in [Connections -> [phase : Phases, session : Sessions]]
        /\ t \in Sessions /\ c \in Counted(t)
    BY <1>1 DEF ServingInv, ReportDisconnected, Counted, Of
  <2>2. t = s /\ websocketConnections[s] = 1
    BY <1>1, <2>1 DEF ReportDisconnected, WebsocketDisconnected, Departure, Leaves, Inv, TypeOK
  <2>3. IsFiniteSet(Counted(s)) /\ Cardinality(Counted(s)) <= 1
    BY <1>1, <2>2 DEF ServingInv, OpenConnectionsCounted, Counted
  <2>4. Counted(s) \ {c} = {}
    <3>1. /\ IsFiniteSet(Counted(s) \ {c}) /\ Cardinality(Counted(s) \ {c}) \in Nat
          /\ Cardinality(Counted(s)) \in Nat
          /\ Cardinality(Counted(s) \ {c}) = Cardinality(Counted(s)) - 1
      BY <2>1, <2>2, <2>3, FS_RemoveElement, FS_CardinalityType
    <3>2. Cardinality(Counted(s) \ {c}) = 0
      BY <2>3, <3>1
    <3> QED
      BY <3>1, <3>2, FS_EmptySet
  <2>5. serving' = [serving EXCEPT ![c].phase = "None"]
    BY <1>1 DEF ReportDisconnected, Moves
  <2> QED
    BY <2>1, <2>4, <2>5 DEF Counted, Of
<1>2. Inv /\ ServingInv =>
        [\A s \in Sessions :
            (\E c \in Connections : ReportDisconnected(c)) /\ Leaves(s) =>
                Of(s, {"Open", "Unsubscribed"})' = {}]_allVars
  BY <1>1 DEF Counted
<1> QED
  BY <1>2, ServingInvariance, PTL DEF StaysWhileOpen
=============================================================================
