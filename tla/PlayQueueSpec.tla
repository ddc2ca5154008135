---------------------------- MODULE PlayQueueSpec ----------------------------
(***************************************************************************)
(* One play queue under every sequence of the requests that SyncPlayManager *)
(* passes on to it (sync_play.rs).  Playback state is left to SyncPlay.tla; *)
(* this module is about the queue alone: the two orders it keeps while it   *)
(* is shuffled, and the index of the playing item, which every edit of the  *)
(* list has to move along with the item.                                   *)
(***************************************************************************)
EXTENDS PlayQueue

VARIABLES queue,      \* the group's PlayQueue
          unshuffled  \* history: what is left of the order the queue had when it
                      \* was first shuffled; NoOrder while it is not shuffled

vars == <<queue, unshuffled>>

\* The queue and its history are well-formed: in particular no method moves the
\* index below -1.
TypeOK ==
    /\ queue \in Queues
    /\ unshuffled \in Seq(Items) \cup {NoOrder}

Init ==
    /\ queue = NewQueue
    /\ unshuffled = NoOrder

\* Every operation leaves queue q behind; the history follows.
Becomes(q) ==
    /\ queue' = q
    /\ unshuffled' = CASE q.shuffle = "Sorted" -> NoOrder
                       [] q.shuffle = "Shuffle" /\ unshuffled = NoOrder -> queue.playlist
                       [] OTHER -> Retain(unshuffled, ToSet(q.playlist))

-----------------------------------------------------------------------------

SetNewQueue ==
    \E items \in Batches({}) :
        \E position \in 0..(Len(items) - 1) : Becomes(SetPlaylist(items, position))

\* The index is already lost when an unknown id makes the request fail.
SetPlaylistItem == \E item \in Items \cup {Nil} : Becomes(SetPlayingItem(queue, item))

RemoveFromPlaylist ==
    \/ \E ids \in SUBSET Items : Becomes(RemoveItems(queue, ids))
    \/ \E clearPlaying \in BOOLEAN : Becomes(ClearPlaylist(queue, clearPlaying))

MovePlaylistItem ==
    \E item \in ToSet(queue.playlist), i \in -1..Cardinality(Items) :
        Becomes(MoveItem(queue, item, i))

QueueItems ==
    \E items \in Batches(ToSet(queue.playlist)) :
        \/ Becomes(AddLast(queue, items))
        \/ Becomes(AddNext(queue, items))

SetRepeat == \E mode \in RepeatModes : Becomes(SetRepeatMode(queue, mode))

SetShuffle ==
    \E mode \in ShuffleModes : \E q \in SetShuffleMode(queue, mode) : Becomes(q)

\* navigate_queue: the request names the playing item, or nil when there is none.
Navigate == Becomes(NextItem(queue).queue) \/ Becomes(PreviousItem(queue).queue)

Next ==
    \/ SetNewQueue \/ SetPlaylistItem \/ RemoveFromPlaylist \/ MovePlaylistItem
    \/ QueueItems \/ SetRepeat \/ SetShuffle \/ Navigate

Spec == Init /\ [][Next]_vars

-----------------------------------------------------------------------------
(* Properties *)

\* The queue keeps a second, sorted order exactly while it is shuffled, and that
\* order lists exactly the queued occurrences, each once: what the assertion
\* "sorted playlist and active queue diverged" in restore_sorted_playlist relies on
\* after any edits of the shuffled queue.
QueueConsistent ==
    /\ NoRepeats(queue.playlist)
    /\ (queue.shuffle = "Shuffle") <=> (queue.sorted # NoOrder)
    /\ queue.sorted # NoOrder =>
         /\ NoRepeats(queue.sorted)
         /\ ToSet(queue.sorted) = ToSet(queue.playlist)

\* Shuffling is reversible: whatever is added, removed or moved while the queue is
\* shuffled, what is left of the original order stays in that order in
\* sorted_playlist, the order restore_sorted_playlist brings back.
ShuffleIsReversible ==
    unshuffled # NoOrder => Retain(queue.sorted, ToSet(unshuffled)) = unshuffled

IndexOK(q) == q.index < Len(q.playlist)

\* An occurrence added with QueueNext is the one NextItem plays, in the order played
\* now and in the order that unshuffling brings back.
QueueNextPlaysNext ==
    \A item \in Items \ ToSet(queue.playlist) :
        LET added == AddNext(queue, <<item>>)
        IN  IndexOK(queue) /\ queue.repeat # "RepeatOne" =>
                \A q \in {added} \cup Restored(added) :
                    /\ NextItem(q).ok
                    /\ PlayingItem(NextItem(q).queue) = item

\* NextItem and PreviousItem undo each other while an item is playing: going
\* forwards and back neither skips nor repeats an item, at either end of the queue
\* and in every repeat mode.
NextAndPreviousInverse ==
    IndexOK(queue) /\ IsItemPlaying(queue) =>
        /\ NextItem(queue).ok => PreviousItem(NextItem(queue).queue).queue = queue
        /\ PreviousItem(queue).ok => NextItem(PreviousItem(queue).queue).queue = queue

\* Only a new queue, SetPlaylistItem and navigation change what is playing.  Every
\* other request, whatever it does to the order, leaves the playing item playing
\* unless it removes that item, and starts nothing when nothing was playing.
EditsKeepPlaying ==
    [][SetNewQueue \/ SetPlaylistItem \/ Navigate \/
         IF IsItemPlaying(queue)
         THEN PlayingItem(queue) \in {Nil, PlayingItem(queue')}
                \/ PlayingItem(queue) \notin ToSet(queue'.playlist)
         ELSE ~IsItemPlaying(queue')]_vars

\* The playing index, when it is not -1, is a position of the playlist: the
\* is_item_playing test of the playback states and playing_item(), which looks the
\* position up, agree on whether something is playing.
PlayingIndexInRange == IndexOK(queue)
=============================================================================
