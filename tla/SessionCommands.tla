--------------------------- MODULE SessionCommands ---------------------------
(***************************************************************************)
(* The commands that one session is sent: enqueue_authorized_session_      *)
(* command of jellyfin-api/src/session.rs stores a command, offers it to   *)
(* the connections of the session and deletes it if one took it; a new     *)
(* connection (serve, drain_session_commands of websocket.rs) subscribes   *)
(* first and then replays what is stored.  A connection has a queue of     *)
(* its own, a broadcast channel that forgets the oldest when it is full.   *)
(*                                                                         *)
(* Commands are numbered in the order of their creation.  What is counted  *)
(* is that a command was sent over a socket, not that the client acted.    *)
(***************************************************************************)
EXTENDS Naturals, Sequences, SequencesExt

CONSTANTS MaxCommand,     \* bound: the commands there will be
          Sockets,        \* bound: connections of the session at a time
          QueueCapacity   \* of the broadcast channel

ASSUME CommandsAssumption == MaxCommand \in Nat /\ QueueCapacity \in Nat \ {0}

Commands == 1..MaxCommand

VARIABLES stored,   \* the rows of the outbox
          senders,  \* the request of each command
          sockets,  \* each connection: phase, queue, commands to replay, whether it could list them
          sent,     \* the commands that went over a socket
          dropped   \* the commands that left a queue unsent

commandVars == <<stored, senders, sockets, sent, dropped>>

NoSocket == [phase |-> "Closed", queue |-> <<>>, replay |-> <<>>, blind |-> FALSE]

CommandsInit ==
    /\ stored = {}
    /\ senders = [m \in Commands |-> "New"]
    /\ sockets = [c \in Sockets |-> NoSocket]
    /\ sent = {}
    /\ dropped = {}

SocketIs(c, phase) == sockets[c].phase = phase

\* Mutant of Subscribed: a connection subscribes when it has replayed the outbox.
SubscribedLate == {c \in Sockets : SocketIs(c, "Open")}

\* The connections in the hub: all that serve has begun with.
Subscribed == {c \in Sockets : ~SocketIs(c, "Closed")}

-----------------------------------------------------------------------------
(* Requests *)

\* enqueue
Enqueue(m) ==
    /\ senders[m] = "New" /\ \A n \in 1..(m - 1) : senders[n] # "New"
    /\ stored' = stored \cup {m}
    /\ senders' = [senders EXCEPT ![m] = "Stored"]
    /\ UNCHANGED <<sockets, sent, dropped>>

\* broadcast::Sender::send, to a queue that may have to forget its oldest message.
Pushed(q, m) ==
    IF Len(q) < QueueCapacity THEN Append(q, m) ELSE Append(Tail(q), m)

\* send_command: without a connection the row waits for a replay.
Offer(m) ==
    /\ senders[m] = "Stored"
    /\ senders' = [senders EXCEPT ![m] = IF Subscribed = {} THEN "Waiting" ELSE "Offered"]
    /\ sockets' = [c \in Sockets |->
           IF c \in Subscribed THEN [sockets[c] EXCEPT !.queue = Pushed(@, m)] ELSE sockets[c]]
    /\ dropped' = dropped \cup {Head(sockets[c].queue) :
           c \in {d \in Subscribed : Len(sockets[d].queue) >= QueueCapacity}}
    /\ UNCHANGED <<stored, sent>>

\* The row of a command that was taken is deleted; a failure is ignored.
DeleteOffered(m) ==
    /\ senders[m] = "Offered"
    /\ senders' = [senders EXCEPT ![m] = "Done"]
    /\ stored' \in {stored, stored \ {m}}
    /\ UNCHANGED <<sockets, sent, dropped>>

\* The controlling client goes away before its request is through.
AbandonCommand(m) ==
    /\ senders[m] \in {"Stored", "Offered"}
    /\ senders' = [senders EXCEPT ![m] = "Done"]
    /\ UNCHANGED <<stored, sockets, sent, dropped>>

-----------------------------------------------------------------------------
(* Connections *)

\* A connection subscribes to the hub, and only then reads the outbox.
Connect(c) ==
    /\ SocketIs(c, "Closed")
    /\ sockets' = [sockets EXCEPT ![c] = [NoSocket EXCEPT !.phase = "Subscribed"]]
    /\ UNCHANGED <<stored, senders, sent, dropped>>

\* list_for_session, in the order of creation; when it fails nothing is replayed.
ListCommands(c) ==
    /\ SocketIs(c, "Subscribed")
    /\ \/ \E rows \in SetToSeqs(stored) :
             /\ \A i, j \in 1..Len(rows) : i < j => rows[i] < rows[j]
             /\ sockets' = [sockets EXCEPT ![c].phase = "Replaying", ![c].replay = rows]
       \/ sockets' = [sockets EXCEPT ![c].phase = "Open", ![c].blind = TRUE]
    /\ UNCHANGED <<stored, senders, sent, dropped>>

\* Mutant of Replay: the row is deleted before the command is sent.
ReplayDeleted(c) ==
    LET m == Head(sockets[c].replay)
    IN  /\ SocketIs(c, "Replaying")
        /\ sockets[c].replay # <<>>
        /\ stored' = stored \ {m}
        /\ sockets' = [sockets EXCEPT ![c].phase = "Deleting"]
        /\ UNCHANGED <<senders, sent, dropped>>

\* The next stored command is sent ...
Replay(c) ==
    /\ SocketIs(c, "Replaying")
    /\ sockets[c].replay # <<>>
    /\ sent' = sent \cup {Head(sockets[c].replay)}
    /\ sockets' = [sockets EXCEPT ![c].phase = "Deleting"]
    /\ UNCHANGED <<stored, senders, dropped>>

\* ... and deleted; a failure is ignored.
DeleteReplayed(c) ==
    /\ SocketIs(c, "Deleting")
    /\ stored' \in {stored, stored \ {Head(sockets[c].replay)}}
    /\ sockets' = [sockets EXCEPT ![c].phase = "Replaying", ![c].replay = Tail(@)]
    /\ UNCHANGED <<senders, sent, dropped>>

\* After the replay the loop of serve takes messages out of the queue.
BeginLoop(c) ==
    /\ SocketIs(c, "Replaying")
    /\ sockets[c].replay = <<>>
    /\ sockets' = [sockets EXCEPT ![c].phase = "Open"]
    /\ UNCHANGED <<stored, senders, sent, dropped>>

Deliver(c) ==
    /\ SocketIs(c, "Open")
    /\ sockets[c].queue # <<>>
    /\ sent' = sent \cup {Head(sockets[c].queue)}
    /\ sockets' = [sockets EXCEPT ![c].queue = Tail(@)]
    /\ UNCHANGED <<stored, senders, dropped>>

\* The connection breaks, or a message cannot be sent: what is queued is gone.
Break(c) ==
    /\ ~SocketIs(c, "Closed")
    /\ sockets' = [sockets EXCEPT ![c] = NoSocket]
    /\ dropped' = dropped \cup ToSet(sockets[c].queue)
    /\ UNCHANGED <<stored, senders, sent>>

\* The server starts again: the outbox is all that is left.
RestartHub ==
    /\ sockets' = [c \in Sockets |-> NoSocket]
    /\ senders' = [m \in Commands |-> IF senders[m] = "New" THEN "New" ELSE "Done"]
    /\ dropped' = dropped \cup UNION {ToSet(sockets[c].queue) : c \in Sockets}
    /\ UNCHANGED <<stored, sent>>

CommandsNext ==
    \/ \E m \in Commands : Enqueue(m) \/ Offer(m) \/ DeleteOffered(m) \/ AbandonCommand(m)
    \/ \E c \in Sockets :
          \/ Connect(c) \/ ListCommands(c) \/ Replay(c) \/ DeleteReplayed(c)
          \/ BeginLoop(c) \/ Deliver(c) \/ Break(c)
    \/ RestartHub

CommandsSpec == CommandsInit /\ [][CommandsNext]_commandVars

-----------------------------------------------------------------------------
(* Properties *)

\* A command that was stored is in the outbox until it has been sent or a
\* connection has it in its queue: a replay that breaks and a restart lose nothing,
\* and only what a queue drops can be lost.
OutboxKeepsUnsent ==
    \A m \in Commands : senders[m] # "New" =>
        \/ m \in stored \cup sent \cup dropped
        \/ \E c \in Sockets : m \in ToSet(sockets[c].queue)

\* No command waits for the next connection while one is open: what is stored while
\* a connection comes up is either offered to it or among what it replays.
NobodyOpenMisses ==
    \A m \in Commands, c \in Sockets :
        senders[m] = "Waiting" /\ m \in stored \ sent /\ SocketIs(c, "Open") => sockets[c].blind
=============================================================================
