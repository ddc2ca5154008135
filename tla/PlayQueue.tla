------------------------------ MODULE PlayQueue ------------------------------
(***************************************************************************)
(* The ordered media queue of a SyncPlay group: struct PlayQueue of        *)
(* jellyfin-server-implementations/src/sync_play.rs, one operator per      *)
(* method.  A queue is a value; each operator returns the queue the method *)
(* leaves behind, and where the method returns a bool a second operator,   *)
(* or the field "ok" of the result, gives it.                              *)
(*                                                                         *)
(* Items are queue occurrences, that is playlist_item_id values.  Every    *)
(* queued occurrence gets a fresh UUID (PlayQueueItem::new), so an         *)
(* occurrence that is added is one that is not in the queue.  The media    *)
(* item behind an occurrence plays no part in the queue's behaviour.       *)
(***************************************************************************)
EXTENDS Integers, Sequences, FiniteSets, SequencesExt

CONSTANTS Items,    \* playlist_item_id values
          Nil,      \* Uuid::nil(): the id reported when nothing is playing
          NoOrder,  \* sorted_playlist = None
          MaxBatch  \* bound: occurrences one request brings

ASSUME ItemsAssumption == IsFiniteSet(Items)
ASSUME NilAssumption == Nil \notin Items
ASSUME NoOrderAssumption == NoOrder \notin Seq(Items)
ASSUME MaxBatchAssumption == MaxBatch \in Nat \ {0}

RepeatModes == {"RepeatNone", "RepeatAll", "RepeatOne"}
ShuffleModes == {"Sorted", "Shuffle"}

\* playing_item_index counts from 0; -1 means that nothing is playing.
Queues == [playlist : Seq(Items), sorted : Seq(Items) \cup {NoOrder},
           index : Nat \cup {-1}, repeat : RepeatModes, shuffle : ShuffleModes]

NewQueue == [playlist |-> <<>>, sorted |-> NoOrder, index |-> -1,
             repeat |-> "RepeatNone", shuffle |-> "Sorted"]

-----------------------------------------------------------------------------
(* Sequences, with the 0-based positions of the code. *)

\* iter().position(|item| item == x), or -1.
Position(s, x) ==
    IF \E i \in DOMAIN s : s[i] = x
    THEN (CHOOSE i \in DOMAIN s : s[i] = x /\ \A j \in 1..(i-1) : s[j] # x) - 1
    ELSE -1

\* splice(i..i, t)
Splice(s, i, t) == SubSeq(s, 1, i) \o t \o SubSeq(s, i + 1, Len(s))

\* retain: the elements of s that are in keep, in their order.  Written with
\* positions rather than SelectSeq, which the provers cannot expand.
Retain(s, keep) ==
    LET at == {i \in DOMAIN s : s[i] \in keep}
        nth(k) == CHOOSE i \in at : Cardinality({j \in at : j <= i}) = k
    IN  [k \in 1..Cardinality(at) |-> s[nth(k)]]

NoRepeats(s) == \A i, j \in DOMAIN s : s[i] = s[j] => i = j

Lesser(a, b) == IF a <= b THEN a ELSE b

\* What one request may bring: PlayQueueItem::new makes occurrences that are not
\* among those in use.
Batches(used) ==
    UNION {SetToSeqs(new) : new \in {S \in SUBSET (Items \ used) :
                                       Cardinality(S) \in 1..MaxBatch}}

-----------------------------------------------------------------------------
(* Reading the queue. *)

IsItemPlaying(q) == q.index # -1

\* The index is not trusted: an index outside the playlist plays nothing.
PlayingItem(q) ==
    IF q.index \in 0..(Len(q.playlist) - 1) THEN q.playlist[q.index + 1] ELSE Nil

\* The sorted order, edited only while there is one.
SortedBy(q, edited) == IF q.sorted = NoOrder THEN NoOrder ELSE edited

-----------------------------------------------------------------------------
(* Replacing and selecting. *)

\* reset(), set_playlist(items), set_playing_item_by_index(i)
SetPlaylist(items, i) ==
    [NewQueue EXCEPT !.playlist = items,
                     !.index = IF i \in 0..(Len(items) - 1) THEN i ELSE -1]

\* set_playing_item_by_playlist_id: an unknown id leaves nothing playing.
SetPlayingItem(q, item) == [q EXCEPT !.index = Position(q.playlist, item)]

-----------------------------------------------------------------------------
(* Editing. *)

AddLast(q, items) ==
    [q EXCEPT !.playlist = @ \o items, !.sorted = SortedBy(q, q.sorted \o items)]

\* Mutant of AddNext: the sorted order takes the items at its end.
AddNextSortedLast(q, items) ==
    [q EXCEPT !.playlist = Splice(@, Lesser(q.index + 1, Len(q.playlist)), items),
              !.sorted = SortedBy(q, q.sorted \o items)]

\* queue_next: after the playing item in both orders; in the sorted order at
\* the front when nothing is playing.
AddNext(q, items) ==
    LET into == Lesser(q.index + 1, Len(q.playlist))
    IN  [q EXCEPT !.playlist = Splice(@, into, items),
                  !.sorted = SortedBy(q, Splice(q.sorted,
                                 Position(q.sorted, PlayingItem(q)) + 1, items))]

\* Mutant of ClearPlaylist: the sorted order keeps what is cleared.
ClearActiveOnly(q, clearPlaying) ==
    LET kept == IF clearPlaying \/ PlayingItem(q) = Nil THEN <<>> ELSE <<PlayingItem(q)>>
    IN  [q EXCEPT !.playlist = kept, !.index = Len(kept) - 1]

\* clear_playlist: the playing item is kept unless clearPlaying.
ClearPlaylist(q, clearPlaying) ==
    LET kept == IF clearPlaying \/ PlayingItem(q) = Nil THEN <<>> ELSE <<PlayingItem(q)>>
    IN  [q EXCEPT !.playlist = kept, !.sorted = SortedBy(q, kept),
                  !.index = Len(kept) - 1]

\* remove_from_playlist returns whether the playing item was removed.
RemovesPlaying(q, ids) == PlayingItem(q) # Nil /\ PlayingItem(q) \in ids

\* The new index is worked out from the old index, whatever else was removed
\* before the playing item.
RemoveItems(q, ids) ==
    LET left == Retain(q.playlist, Items \ ids)
        back == q.index - 1
        index == CASE PlayingItem(q) = Nil -> q.index
                   [] RemovesPlaying(q, ids) ->
                        IF back >= 0 THEN back ELSE IF left = <<>> THEN -1 ELSE 0
                   [] OTHER -> Position(left, PlayingItem(q))
    IN  [q EXCEPT !.playlist = left,
                  !.sorted = SortedBy(q, Retain(q.sorted, Items \ ids)),
                  !.index = index]

\* Mutant of MoveItem: the index stays where it is.
MoveItemOnly(q, item, i) ==
    LET rest == Retain(q.playlist, Items \ {item})
    IN  [q EXCEPT !.playlist = Splice(rest, Lesser(IF i >= 0 THEN i ELSE 0, Len(rest)), <<item>>)]

\* move_playlist_item, for an item of the queue.  A negative position is 0, one
\* past the end the end; the playing item is found again by its id.
MoveItem(q, item, i) ==
    LET rest == Retain(q.playlist, Items \ {item})
        moved == Splice(rest, Lesser(IF i >= 0 THEN i ELSE 0, Len(rest)), <<item>>)
    IN  [q EXCEPT !.playlist = moved, !.index = Position(moved, PlayingItem(q))]

SetRepeatMode(q, mode) == [q EXCEPT !.repeat = mode]

-----------------------------------------------------------------------------
(* Shuffling.  The random order is any order: the operators give the set of *)
(* the queues that may result.                                              *)

\* Mutant of Shuffled: each shuffle stores the order it finds.
ShuffledAnew(q) ==
    LET first == IF PlayingItem(q) = Nil THEN <<>> ELSE <<PlayingItem(q)>>
    IN  {[q EXCEPT !.playlist = first \o others, !.sorted = q.playlist,
                   !.index = IF first = <<>> THEN @ ELSE 0, !.shuffle = "Shuffle"] :
            others \in SetToSeqs(ToSet(q.playlist) \ ToSet(first))}

\* shuffle_playlist: the playing item goes first, the others anywhere; the
\* order before the first shuffle is kept as the sorted order.
Shuffled(q) ==
    LET first == IF PlayingItem(q) = Nil THEN <<>> ELSE <<PlayingItem(q)>>
        sorted == IF q.sorted = NoOrder THEN q.playlist ELSE q.sorted
    IN  {[q EXCEPT !.playlist = first \o others, !.sorted = sorted,
                   !.index = IF first = <<>> THEN @ ELSE 0, !.shuffle = "Shuffle"] :
            others \in SetToSeqs(ToSet(q.playlist) \ ToSet(first))}

\* restore_sorted_playlist: occurrences missing from the sorted order (the code
\* asserts there are none) would follow in the order of a hash map.
Restored(q) ==
    LET orders == IF q.sorted = NoOrder THEN {q.playlist}
                  ELSE {Retain(q.sorted, ToSet(q.playlist)) \o others :
                           others \in SetToSeqs(ToSet(q.playlist) \ ToSet(q.sorted))}
    IN  {[q EXCEPT !.playlist = order, !.sorted = NoOrder,
                   !.index = Position(order, PlayingItem(q)), !.shuffle = "Sorted"] :
            order \in orders}

SetShuffleMode(q, mode) == IF mode = "Shuffle" THEN Shuffled(q) ELSE Restored(q)

-----------------------------------------------------------------------------
(* Navigation: [ok, queue].  A step that is refused still pulls the index    *)
(* back to the end it ran into.                                              *)

At(q, i, ok) == [ok |-> ok, queue |-> [q EXCEPT !.index = i]]

NextItem(q) ==
    LET last == Len(q.playlist) - 1
    IN  CASE q.repeat = "RepeatOne"                   -> At(q, q.index, IsItemPlaying(q))
          [] q.repeat # "RepeatOne" /\ q.index < last -> At(q, q.index + 1, TRUE)
          [] OTHER -> IF last = -1 THEN At(q, q.index, FALSE)
                      ELSE IF q.repeat = "RepeatAll" THEN At(q, 0, TRUE)
                      ELSE At(q, last, FALSE)

\* Mutant of PreviousItem: the index is not checked before it is decreased.
PreviousUnchecked(q) ==
    IF q.repeat = "RepeatOne" THEN At(q, q.index, IsItemPlaying(q)) ELSE At(q, q.index - 1, TRUE)

\* Mutant of PreviousItem: repeating the queue goes back to its start.
PreviousToFirst(q) ==
    CASE q.repeat = "RepeatOne"                 -> At(q, q.index, IsItemPlaying(q))
      [] q.repeat # "RepeatOne" /\ q.index >= 1 -> At(q, q.index - 1, TRUE)
      [] OTHER -> IF q.playlist = <<>> THEN At(q, q.index, FALSE)
                  ELSE At(q, 0, q.repeat = "RepeatAll")

PreviousItem(q) ==
    LET last == Len(q.playlist) - 1
    IN  CASE q.repeat = "RepeatOne"                 -> At(q, q.index, IsItemPlaying(q))
          [] q.repeat # "RepeatOne" /\ q.index >= 1 -> At(q, q.index - 1, TRUE)
          [] OTHER -> IF last = -1 THEN At(q, q.index, FALSE)
                      ELSE IF q.repeat = "RepeatAll" THEN At(q, last, TRUE)
                      ELSE At(q, 0, FALSE)
=============================================================================
