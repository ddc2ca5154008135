--------------------------- MODULE PlayQueueProofs ---------------------------
(* Theorems about PlayQueueSpec, for every value of the constants. *)
EXTENDS PlayQueueSpec, PlayQueueLemmas

\* The queue a request leaves is well formed if the one before was.
LEMMA NextQueueType ==
    ASSUME queue \in Queues, Next
    PROVE  \E q \in Queues : Becomes(q)
<1>1. CASE SetNewQueue
  <2>1. PICK items \in Batches({}) :
            \E position \in 0..(Len(items) - 1) : Becomes(SetPlaylist(items, position))
    BY <1>1 DEF SetNewQueue
  <2>2. PICK position \in 0..(Len(items) - 1) : Becomes(SetPlaylist(items, position))
    BY <2>1
  <2>3. items \in Seq(Items) /\ position \in Int
    BY BatchType
  <2> QED
    BY <2>2, <2>3, SetPlaylistType
<1>2. CASE SetPlaylistItem
  BY <1>2, SetPlayingItemType DEF SetPlaylistItem
<1>3. CASE RemoveFromPlaylist
  BY <1>3, RemoveItemsType, ClearPlaylistType DEF RemoveFromPlaylist
<1>4. CASE MovePlaylistItem
  <2>1. PICK item \in ToSet(queue.playlist), i \in -1..Cardinality(Items) :
            Becomes(MoveItem(queue, item, i))
    BY <1>4 DEF MovePlaylistItem
  <2>2. Cardinality(Items) \in Nat
    BY ItemsAssumption, FS_CardinalityType
  <2>3. item \in Items /\ i \in Int
    BY <2>2, QueueFields
  <2> QED
    BY <2>1, <2>3, MoveItemType
<1>5. CASE QueueItems
  <2>1. PICK items \in Batches(ToSet(queue.playlist)) :
            Becomes(AddLast(queue, items)) \/ Becomes(AddNext(queue, items))
    BY <1>5 DEF QueueItems
  <2>2. items \in Seq(Items)
    BY BatchType
  <2> QED
    BY <2>1, <2>2, AddLastType, AddNextType
<1>6. CASE SetRepeat
  BY <1>6, SetRepeatModeType DEF SetRepeat
<1>7. CASE SetShuffle
  BY <1>7, SetShuffleModeType DEF SetShuffle
<1>8. CASE Navigate
  BY <1>8, NavigationType DEF Navigate
<1> QED
  BY <1>1, <1>2, <1>3, <1>4, <1>5, <1>6, <1>7, <1>8 DEF Next

\* Every request leaves a well-formed queue, two orders of queued occurrences and
\* an index that is -1 or a natural number, whatever edits, shuffles and steps came
\* before; so is the history of the order before the first shuffle.
THEOREM TypeCorrect == Spec => []TypeOK
<1>1. Init => TypeOK
  BY NewQueueType DEF Init, TypeOK
<1>2. TypeOK /\ [Next]_vars => TypeOK'
  <2> SUFFICES ASSUME TypeOK, [Next]_vars PROVE TypeOK'
    OBVIOUS
  <2>1. CASE Next
    <3>1. PICK q \in Queues : Becomes(q)
      BY <2>1, NextQueueType DEF TypeOK
    <3>2. CASE q.shuffle = "Sorted"
      BY <3>1, <3>2 DEF Becomes, TypeOK
    <3>3. CASE q.shuffle = "Shuffle" /\ unshuffled = NoOrder
      BY <3>1, <3>3, QueueFields DEF Becomes, TypeOK
    <3>4. CASE q.shuffle = "Shuffle" /\ unshuffled # NoOrder
      <4>1. Retain(unshuffled, ToSet(q.playlist)) \in Seq(Items)
        BY <3>4, RetainType DEF TypeOK
      <4> QED
        BY <4>1, <3>1, <3>4 DEF Becomes, TypeOK
    <3> QED
      BY <3>2, <3>3, <3>4 DEF Queues, ShuffleModes
  <2>2. CASE UNCHANGED vars
    BY <2>2 DEF vars, TypeOK
  <2> QED
    BY <2>1, <2>2
<1> QED
  BY <1>1, <1>2, PTL DEF Spec

-----------------------------------------------------------------------------
(* The two orders. *)

\* q is what a request may make of queue p: consistent, with the order p had where
\* both are shuffled, and sorted as p was played where the request shuffled it first.
Follows(p, q) ==
    /\ q \in Queues /\ Consistent(q) /\ KeepsOrder(p, q)
    /\ p.sorted = NoOrder /\ q.sorted # NoOrder => q.sorted = p.playlist

\* What keeps the shuffle mode starts no sorted order.
LEMMA SameModeFollows ==
    ASSUME NEW p \in Queues, Consistent(p),
           NEW q \in Queues, Consistent(q), KeepsOrder(p, q), q.shuffle = p.shuffle
    PROVE  Follows(p, q)
BY DEF Follows, Consistent

\* Every edit follows and keeps the playing item.
LEMMA EditFollows ==
    ASSUME NEW p \in Queues, Consistent(p),
           NEW q \in Queues, Keeps(p, q), q.shuffle = p.shuffle
    PROVE  Follows(p, q) /\ KeepsPlaying(p, q)
BY SameModeFollows DEF Keeps

\* Each request leaves a queue that follows the one before; all but the three that
\* select what plays keep the playing item.
LEMMA RequestFollows ==
    ASSUME queue \in Queues, Consistent(queue), Next
    PROVE  \E q : /\ Becomes(q) /\ Follows(queue, q)
                  /\ SetNewQueue \/ SetPlaylistItem \/ Navigate \/ KeepsPlaying(queue, q)
<1>1. CASE SetNewQueue
  <2>1. PICK items \in Batches({}) :
            \E position \in 0..(Len(items) - 1) : Becomes(SetPlaylist(items, position))
    BY <1>1 DEF SetNewQueue
  <2>2. PICK position \in 0..(Len(items) - 1) : Becomes(SetPlaylist(items, position))
    BY <2>1
  <2>3. items \in Seq(Items) /\ NoRepeats(items) /\ position \in Int
    BY BatchLists
  <2>4. SetPlaylist(items, position) \in Queues /\ Consistent(SetPlaylist(items, position))
    BY <2>3, SetPlaylistType, SetPlaylistConsistent
  <2>5. SetPlaylist(items, position).sorted = NoOrder
    BY DEF SetPlaylist, NewQueue
  <2>6. Follows(queue, SetPlaylist(items, position))
    BY <2>4, <2>5 DEF Follows, KeepsOrder
  <2> QED
    BY <1>1, <2>2, <2>6
<1>2. CASE SetPlaylistItem
  <2>1. PICK item : Becomes(SetPlayingItem(queue, item))
    BY <1>2 DEF SetPlaylistItem
  <2> DEFINE q == SetPlayingItem(queue, item)
  <2>2. q \in Queues
    BY SetPlayingItemType
  <2>3. Consistent(q) /\ KeepsOrder(queue, q)
    BY IndexKeeps DEF SetPlayingItem
  <2>4. q.shuffle = queue.shuffle
    BY DEF SetPlayingItem, Queues
  <2> QED
    BY <1>2, <2>1, <2>2, <2>3, <2>4, SameModeFollows
<1>3. CASE RemoveFromPlaylist
  <2>1. ASSUME NEW ids \in SUBSET Items, Becomes(RemoveItems(queue, ids))
        PROVE  \E q : Becomes(q) /\ Follows(queue, q) /\ KeepsPlaying(queue, q)
    <3>1. RemoveItems(queue, ids) \in Queues /\ Keeps(queue, RemoveItems(queue, ids))
      BY RemoveItemsType, RemoveItemsKeeps
    <3>2. RemoveItems(queue, ids).shuffle = queue.shuffle
      BY DEF RemoveItems, Queues
    <3> QED
      BY <2>1, <3>1, <3>2, EditFollows
  <2>2. ASSUME NEW clearPlaying \in BOOLEAN, Becomes(ClearPlaylist(queue, clearPlaying))
        PROVE  \E q : Becomes(q) /\ Follows(queue, q) /\ KeepsPlaying(queue, q)
    <3>1. /\ ClearPlaylist(queue, clearPlaying) \in Queues
          /\ Keeps(queue, ClearPlaylist(queue, clearPlaying))
      BY ClearPlaylistType, ClearPlaylistKeeps
    <3>2. ClearPlaylist(queue, clearPlaying).shuffle = queue.shuffle
      BY DEF ClearPlaylist, Queues
    <3> QED
      BY <2>2, <3>1, <3>2, EditFollows
  <2> QED
    BY <1>3, <2>1, <2>2 DEF RemoveFromPlaylist
<1>4. CASE MovePlaylistItem
  <2>1. PICK item \in ToSet(queue.playlist), i \in -1..Cardinality(Items) :
            Becomes(MoveItem(queue, item, i))
    BY <1>4 DEF MovePlaylistItem
  <2>2. Cardinality(Items) \in Nat
    BY ItemsAssumption, FS_CardinalityType
  <2>3. item \in Items /\ i \in Int
    BY <2>2, QueueFields
  <2>4. MoveItem(queue, item, i) \in Queues /\ Keeps(queue, MoveItem(queue, item, i))
    BY <2>3, MoveItemType, MoveItemKeeps
  <2>5. MoveItem(queue, item, i).shuffle = queue.shuffle
    BY DEF MoveItem, Queues
  <2> QED
    BY <2>1, <2>4, <2>5, EditFollows
<1>5. CASE QueueItems
  <2>1. PICK items \in Batches(ToSet(queue.playlist)) :
            Becomes(AddLast(queue, items)) \/ Becomes(AddNext(queue, items))
    BY <1>5 DEF QueueItems
  <2>2. /\ items \in Seq(Items) /\ NoRepeats(items)
        /\ ToSet(items) \cap ToSet(queue.playlist) = {}
    BY BatchLists
  <2>3. /\ AddLast(queue, items) \in Queues /\ Keeps(queue, AddLast(queue, items))
        /\ AddNext(queue, items) \in Queues /\ Keeps(queue, AddNext(queue, items))
    BY <2>2, AddLastType, AddNextType, AddLastKeeps, AddNextKeeps
  <2>4. /\ AddLast(queue, items).shuffle = queue.shuffle
        /\ AddNext(queue, items).shuffle = queue.shuffle
    BY DEF AddLast, AddNext, Queues
  <2> QED
    BY <2>1, <2>3, <2>4, EditFollows
<1>6. CASE SetRepeat
  <2>1. PICK mode \in RepeatModes : Becomes(SetRepeatMode(queue, mode))
    BY <1>6 DEF SetRepeat
  <2>2. SetRepeatMode(queue, mode) \in Queues /\ Keeps(queue, SetRepeatMode(queue, mode))
    BY SetRepeatModeType, SetRepeatModeKeeps
  <2>3. SetRepeatMode(queue, mode).shuffle = queue.shuffle
    BY DEF SetRepeatMode, Queues
  <2> QED
    BY <2>1, <2>2, <2>3, EditFollows
<1>7. CASE SetShuffle
  <2>1. PICK mode \in ShuffleModes : \E q \in SetShuffleMode(queue, mode) : Becomes(q)
    BY <1>7 DEF SetShuffle
  <2>2. PICK q \in SetShuffleMode(queue, mode) : Becomes(q)
    BY <2>1
  <2>3. q \in Queues
    BY SetShuffleModeType
  <2>4. CASE q \in Shuffled(queue)
    BY <2>2, <2>3, <2>4, ShuffledKeeps DEF Follows, Keeps
  <2>5. CASE q \in Restored(queue)
    <3>1. q.sorted = NoOrder
      <4>1. q = [queue EXCEPT !.playlist = q.playlist, !.sorted = NoOrder,
                              !.index = Position(q.playlist, PlayingItem(queue)),
                              !.shuffle = "Sorted"]
        BY <2>5, RestoredIsSorted
      <4> QED
        BY <4>1 DEF Queues
    <3> QED
      BY <2>2, <2>3, <2>5, <3>1, RestoredKeeps DEF Follows, Keeps
  <2> QED
    BY <2>2, <2>4, <2>5 DEF SetShuffleMode
<1>8. CASE Navigate
  <2>1. PICK q \in {NextItem(queue).queue, PreviousItem(queue).queue} : Becomes(q)
    BY <1>8 DEF Navigate
  <2>2. q \in Queues /\ Consistent(q) /\ KeepsOrder(queue, q) /\ q.shuffle = queue.shuffle
    BY NavigationType, NavigationKeeps
  <2> QED
    BY <1>8, <2>1, <2>2, SameModeFollows
<1> QED
  BY <1>1, <1>2, <1>3, <1>4, <1>5, <1>6, <1>7, <1>8 DEF Next

Inv == TypeOK /\ Consistent(queue)

\* Every request keeps the queue consistent.
LEMMA InvHolds == Spec => []Inv
<1>1. Init => Inv
  BY NewQueueType DEF Init, TypeOK, Inv, Consistent, NewQueue, NoRepeats
<1>2. Inv /\ [Next]_vars => Consistent(queue)'
  <2> SUFFICES ASSUME Inv, [Next]_vars PROVE Consistent(queue')
    BY DEF Consistent, NoRepeats
  <2>1. CASE Next
    BY <2>1, RequestFollows DEF Inv, TypeOK, Becomes, Follows
  <2>2. CASE UNCHANGED vars
    BY <2>2 DEF vars, Inv
  <2> QED
    BY <2>1, <2>2
<1> QED
  BY <1>1, <1>2, TypeCorrect, PTL DEF Spec, Inv

\* While it is shuffled, and only then, a queue has a second order, and both list the
\* same occurrences once each: the assertion of restore_sorted_playlist never fails.
THEOREM QueueIsConsistent == Spec => []QueueConsistent
<1>1. Inv => QueueConsistent
  BY DEF Inv, Consistent, QueueConsistent
<1> QED
  BY <1>1, InvHolds, PTL

\* Add, move, repeat, shuffle, unshuffle, remove and clear: none makes another item
\* play than the one that was playing, and none starts an idle queue.
THEOREM EditsKeep == Spec => EditsKeepPlaying
<1> DEFINE A == SetNewQueue \/ SetPlaylistItem \/ Navigate \/
                  IF IsItemPlaying(queue)
                  THEN PlayingItem(queue) \in {Nil, PlayingItem(queue')}
                         \/ PlayingItem(queue) \notin ToSet(queue'.playlist)
                  ELSE ~IsItemPlaying(queue')
<1>1. Inv /\ [Next]_vars => [A]_vars
  <2> SUFFICES ASSUME Inv, Next PROVE A
    OBVIOUS
  <2>1. PICK q : /\ Becomes(q)
                 /\ SetNewQueue \/ SetPlaylistItem \/ Navigate \/ KeepsPlaying(queue, q)
    BY RequestFollows DEF Inv, TypeOK
  <2> QED
    BY <2>1 DEF Becomes, KeepsPlaying
<1> QED
  BY <1>1, InvHolds, PTL DEF Spec, EditsKeepPlaying

\* The history names occurrences of the sorted order, in its order, and there is one
\* exactly while there is a sorted order.
History ==
    /\ unshuffled # NoOrder <=> queue.sorted # NoOrder
    /\ unshuffled # NoOrder =>
         /\ NoRepeats(unshuffled) /\ ToSet(unshuffled) \subseteq ToSet(queue.sorted)
         /\ \A x, y : Before(unshuffled, x, y) => Before(queue.sorted, x, y)

\* The history is kept by what follows.
LEMMA HistoryStep ==
    ASSUME Inv, History, Next
    PROVE  History'
<1>1. PICK q : Becomes(q) /\ Follows(queue, q)
  BY RequestFollows DEF Inv, TypeOK
<1>2. /\ q \in Queues /\ Consistent(q) /\ KeepsOrder(queue, q) /\ queue' = q
      /\ queue.sorted = NoOrder /\ q.sorted # NoOrder => q.sorted = queue.playlist
      /\ q.playlist \in Seq(Items) /\ q.shuffle \in ShuffleModes
      /\ queue.playlist \in Seq(Items)
  BY <1>1, QueueFields DEF Follows, Becomes, Inv, TypeOK, Queues
<1>3. CASE q.shuffle = "Sorted"
  <2>1. unshuffled' = NoOrder /\ q.sorted = NoOrder
    BY <1>1, <1>2, <1>3 DEF Becomes, Consistent
  <2> QED
    BY <1>2, <2>1 DEF History
<1>4. CASE q.shuffle = "Shuffle" /\ unshuffled = NoOrder
  <2>1. unshuffled' = queue.playlist /\ q.sorted = queue.playlist /\ q.sorted # NoOrder
    BY <1>1, <1>2, <1>4 DEF Becomes, Consistent, History
  <2>2. NoRepeats(queue.playlist)
    BY DEF Inv, Consistent
  <2>3. unshuffled' = q.sorted /\ queue'.sorted = q.sorted /\ NoRepeats(q.sorted)
    BY <1>2, <2>1, <2>2
  <2> QED
    BY <2>1, <2>3 DEF History, NoRepeats, Before
<1>5. CASE q.shuffle = "Shuffle" /\ unshuffled # NoOrder
  <2> DEFINE old == unshuffled
             new == Retain(unshuffled, ToSet(q.playlist))
  <2>1. unshuffled' = new
    BY <1>1, <1>5 DEF Becomes
  <2>2. /\ q.sorted # NoOrder /\ queue.sorted # NoOrder /\ ToSet(q.sorted) = ToSet(q.playlist)
    BY <1>2, <1>5 DEF Consistent, History
  <2>3. /\ old \in Seq(Items) /\ NoRepeats(old)
        /\ \A x, y : Before(old, x, y) => Before(queue.sorted, x, y)
    BY <1>5 DEF History, Inv, TypeOK
  <2>4. /\ new \in Seq(Items) /\ NoRepeats(new) /\ ToSet(new) = ToSet(old) \cap ToSet(q.playlist)
        /\ \A x, y \in ToSet(q.playlist) : Before(old, x, y) => Before(new, x, y)
    BY <2>3, RetainType, RetainLists
  <2> HIDE DEF old, new
  <2>5. ASSUME NEW x, NEW y, Before(new, x, y)
        PROVE  Before(q.sorted, x, y)
    <3>1. x \in ToSet(new) /\ y \in ToSet(new) /\ x # y /\ ~Before(new, y, x)
      BY <2>4, <2>5, BeforeListed, OneIsNotBefore, BeforeOneWay
    <3>2. Before(old, x, y)
      BY <2>3, <2>4, <3>1, OneBefore
    <3>3. Before(queue.sorted, x, y)
      BY <2>3, <3>2
    <3> QED
      BY <1>2, <2>2, <2>4, <3>1, <3>3 DEF KeepsOrder
  <2>6. new # NoOrder /\ ToSet(new) \subseteq ToSet(q.sorted)
    BY <2>2, <2>4, NoOrderAssumption
  <2>7. unshuffled' = new /\ queue'.sorted = q.sorted
    BY <1>2, <2>1 DEF new
  <2> QED
    BY <2>2, <2>4, <2>5, <2>6, <2>7 DEF History, NoRepeats, Before
<1> QED
  BY <1>2, <1>3, <1>4, <1>5 DEF ShuffleModes

\* Whatever was added, removed or moved in the shuffled queue, unshuffling brings what
\* is left of the original order back as it was.
THEOREM ShuffleReverses == Spec => []ShuffleIsReversible
<1>1. Init => History
  BY DEF Init, History, NewQueue
<1>2. Inv /\ History /\ [Next]_vars => History'
  <2>1. ASSUME History, UNCHANGED vars PROVE History'
    BY <2>1 DEF vars, History, NoRepeats, Before
  <2> QED
    BY <2>1, HistoryStep
<1>3. Inv /\ History => ShuffleIsReversible
  <2> SUFFICES ASSUME Inv, History, unshuffled # NoOrder
               PROVE  Retain(queue.sorted, ToSet(unshuffled)) = unshuffled
    BY DEF ShuffleIsReversible
  <2> DEFINE left == Retain(queue.sorted, ToSet(unshuffled))
  <2>1. /\ unshuffled \in Seq(Items) /\ NoRepeats(unshuffled)
        /\ ToSet(unshuffled) \subseteq ToSet(queue.sorted)
        /\ \A x, y : Before(unshuffled, x, y) => Before(queue.sorted, x, y)
    BY DEF Inv, TypeOK, History
  <2>2. queue.sorted \in Seq(Items) /\ NoRepeats(queue.sorted)
    BY QueueFields DEF Inv, TypeOK, History, Consistent
  <2>3. /\ left \in Seq(Items) /\ NoRepeats(left)
        /\ ToSet(left) = ToSet(queue.sorted) \cap ToSet(unshuffled)
        /\ \A x, y \in ToSet(unshuffled) : Before(queue.sorted, x, y) => Before(left, x, y)
    BY <2>2, RetainType, RetainLists
  <2> HIDE DEF left
  <2>4. \A x, y : Before(unshuffled, x, y) => Before(left, x, y)
    BY <2>1, <2>3, BeforeListed
  <2>5. unshuffled = left
    BY <2>1, <2>3, <2>4, SameOrder
  <2> QED
    BY <2>5 DEF left
<1> QED
  BY <1>1, <1>2, <1>3, InvHolds, PTL DEF Spec

-----------------------------------------------------------------------------
(* Navigation. *)

\* Splicing one item in after position j puts it there and moves nothing before it.
LEMMA SpliceOne ==
    ASSUME NEW s \in Seq(Items), NEW j \in 0..Len(s), NEW item \in Items
    PROVE  LET r == Splice(s, j, <<item>>)
           IN  /\ r \in Seq(Items) /\ Len(r) = Len(s) + 1 /\ r[j + 1] = item
               /\ \A k \in 1..j : r[k] = s[k]
<1> DEFINE a == SubSeq(s, 1, j)
           b == SubSeq(s, j + 1, Len(s))
           one == <<item>>
<1>1. Len(s) \in Nat /\ j \in Nat /\ j <= Len(s)
  OBVIOUS
<1>2. /\ a \in Seq(Items) /\ Len(a) = j /\ \A k \in 1..j : a[k] = s[k]
      /\ b \in Seq(Items) /\ Len(b) = Len(s) - j
  <2>1. /\ a \in Seq(Items) /\ Len(a) = j /\ \A k \in 1..j : a[k] = s[k]
    BY <1>1, SubSeqProperties
  <2>2. b \in Seq(Items) /\ Len(b) = Len(s) - j
    BY <1>1, SubSeqProperties
  <2> QED
    BY <2>1, <2>2
<1>3. one \in Seq(Items) /\ Len(one) = 1 /\ one[1] = item
  OBVIOUS
<1> DEFINE front == a \o one
<1> HIDE DEF a, b, one
<1>4. /\ front \in Seq(Items) /\ Len(front) = j + 1 /\ front[j + 1] = item
      /\ \A k \in 1..j : front[k] = s[k]
  <2>1. /\ front \in Seq(Items) /\ Len(front) = Len(a) + Len(one)
        /\ \A k \in 1..Len(a) : front[k] = a[k]
        /\ \A k \in 1..Len(one) : front[Len(a) + k] = one[k]
    BY <1>2, <1>3, ConcatElements
  <2>2. front[Len(a) + 1] = one[1]
    BY <1>3, <2>1
  <2> HIDE DEF front
  <2> QED
    BY <1>1, <1>2, <1>3, <2>1, <2>2
<1> HIDE DEF front
<1>5. /\ front \o b \in Seq(Items) /\ Len(front \o b) = Len(s) + 1
      /\ (front \o b)[j + 1] = item
      /\ \A k \in 1..j : (front \o b)[k] = s[k]
  <2>1. /\ front \o b \in Seq(Items) /\ Len(front \o b) = Len(front) + Len(b)
        /\ \A k \in 1..Len(front) : (front \o b)[k] = front[k]
    BY <1>2, <1>4, ConcatElements
  <2> DEFINE r == front \o b
  <2> HIDE DEF r
  <2>2. /\ r \in Seq(Items) /\ Len(r) = Len(front) + Len(b)
        /\ \A k \in 1..Len(front) : r[k] = front[k]
    BY <2>1 DEF r
  <2>3. /\ Len(r) = Len(s) + 1 /\ r[j + 1] = item
        /\ \A k \in 1..j : r[k] = s[k]
    BY <1>1, <1>2, <1>4, <2>2
  <2> QED
    BY <2>2, <2>3 DEF r
<1>6. Splice(s, j, one) = front \o b
  BY DEF Splice, front, a, b
<1> QED
  BY <1>5, <1>6 DEF one

\* In a queue whose item at the index was followed by a splice, next plays that item.
LEMMA NextPlaysSpliced ==
    ASSUME NEW q \in Queues, q.repeat # "RepeatOne", NEW s \in Seq(Items),
           NEW i \in -1..(Len(s) - 1), NEW item \in Items,
           q.index = i, q.playlist = Splice(s, i + 1, <<item>>)
    PROVE  /\ NextItem(q).ok /\ PlayingItem(NextItem(q).queue) = item
           /\ PlayingItem(q) = IF i = -1 THEN Nil ELSE s[i + 1]
<1>1. Len(s) \in Nat /\ i \in Int /\ i + 1 \in 0..Len(s)
  OBVIOUS
<1>2. /\ q.playlist \in Seq(Items) /\ Len(q.playlist) = Len(s) + 1 /\ q.playlist[i + 2] = item
      /\ \A k \in 1..(i + 1) : q.playlist[k] = s[k]
  BY <1>1, SpliceOne
<1>3. NextItem(q) = At(q, i + 1, TRUE)
  <2>1. q.index < Len(q.playlist) - 1
    BY <1>1, <1>2
  <2> QED
    BY <2>1 DEF NextItem
<1> DEFINE r == [q EXCEPT !.index = i + 1]
<1>4. NextItem(q).ok /\ NextItem(q).queue = r
  BY <1>3 DEF At
<1>5. r.index = i + 1 /\ r.playlist = q.playlist
  BY DEF Queues
<1> HIDE DEF r
<1>6. PlayingItem(r) = item
  BY <1>1, <1>2, <1>5 DEF PlayingItem
<1>7. PlayingItem(q) = IF i = -1 THEN Nil ELSE s[i + 1]
  BY <1>1, <1>2 DEF PlayingItem
<1> QED
  BY <1>4, <1>6, <1>7

\* There is one position for an element of a sequence without repeats.
LEMMA PositionOf ==
    ASSUME NEW s \in Seq(Items), NoRepeats(s), NEW i \in 0..(Len(s) - 1)
    PROVE  Position(s, s[i + 1]) = i
<1>1. Len(s) \in Nat /\ i + 1 \in DOMAIN s /\ s[i + 1] \in ToSet(s)
  BY DEF ToSet
<1>2. /\ Position(s, s[i + 1]) \in 0..(Len(s) - 1)
      /\ s[Position(s, s[i + 1]) + 1] = s[i + 1]
  BY <1>1, PositionFinds
<1>3. Position(s, s[i + 1]) + 1 \in DOMAIN s
  BY <1>1, <1>2
<1>4. Position(s, s[i + 1]) + 1 = i + 1
  BY <1>1, <1>2, <1>3 DEF NoRepeats
<1> QED
  BY <1>2, <1>4

\* What plays at an index is found there again.
LEMMA PlayedAt ==
    ASSUME NEW s \in Seq(Items), NoRepeats(s), NEW i \in -1..(Len(s) - 1), NEW x,
           x = IF i = -1 THEN Nil ELSE s[i + 1]
    PROVE  Position(s, x) = i
<1>1. CASE i = -1
  <2>1. x \notin ToSet(s)
    BY <1>1, NilAssumption DEF ToSet
  <2> QED
    BY <1>1, <2>1, PositionFinds
<1>2. CASE i # -1
  <2>1. i \in 0..(Len(s) - 1) /\ x = s[i + 1]
    BY <1>2
  <2> QED
    BY <2>1, PositionOf
<1> QED
  BY <1>1, <1>2

\* The queue that QueueNext makes, and the one that unshuffling it brings back.
LEMMA AddedPlaysNext ==
    ASSUME NEW p \in Queues, Consistent(p), p.index < Len(p.playlist), p.repeat # "RepeatOne",
           NEW item \in Items \ ToSet(p.playlist),
           NEW q \in {AddNext(p, <<item>>)} \cup Restored(AddNext(p, <<item>>))
    PROVE  NextItem(q).ok /\ PlayingItem(NextItem(q).queue) = item
<1> DEFINE one == <<item>>
           added == AddNext(p, one)
           played == PlayingItem(p)
<1>1. one \in Seq(Items) /\ NoRepeats(one) /\ ToSet(one) = {item}
  BY ShortLists
<1>2. added \in Queues /\ Consistent(added)
  BY <1>1, AddNextType, AddNextKeeps DEF Keeps
<1>3. /\ p.playlist \in Seq(Items) /\ Len(p.playlist) \in Nat
      /\ p.index \in -1..(Len(p.playlist) - 1)
      /\ p.sorted # NoOrder => p.sorted \in Seq(Items) /\ NoRepeats(p.sorted)
  BY QueueFields DEF Queues, Consistent
<1>4. Lesser(p.index + 1, Len(p.playlist)) = p.index + 1
  BY <1>3 DEF Lesser
<1>5. /\ added.index = p.index /\ added.repeat = p.repeat
      /\ added.playlist = Splice(p.playlist, p.index + 1, one)
      /\ added.sorted = SortedBy(p, Splice(p.sorted, Position(p.sorted, played) + 1, one))
  BY <1>4 DEF AddNext, Queues
<1> HIDE DEF added
<1>6. /\ NextItem(added).ok /\ PlayingItem(NextItem(added).queue) = item
      /\ PlayingItem(added) = IF p.index = -1 THEN Nil ELSE p.playlist[p.index + 1]
  BY <1>2, <1>3, <1>5, NextPlaysSpliced
<1>7. PlayingItem(added) = played
  BY <1>3, <1>6 DEF PlayingItem
<1>8. ASSUME NEW r \in Restored(added)
      PROVE  NextItem(r).ok /\ PlayingItem(NextItem(r).queue) = item
  <2>1. /\ r = [added EXCEPT !.playlist = r.playlist, !.sorted = NoOrder,
                             !.index = Position(r.playlist, played), !.shuffle = "Sorted"]
        /\ r.playlist = IF added.sorted = NoOrder THEN added.playlist ELSE added.sorted
    BY <1>2, <1>7, RestoredIsSorted
  <2>2. r.repeat = p.repeat /\ r.index = Position(r.playlist, played)
    BY <1>2, <1>5, <2>1 DEF Queues
  <2>3. r \in Queues
    BY <1>2, SetShuffleModeType DEF SetShuffleMode, ShuffleModes
  <2>4. PICK s \in Seq(Items), i \in Int :
            /\ i \in -1..(Len(s) - 1) /\ r.playlist = Splice(s, i + 1, one) /\ i = Position(s, played)
            /\ played = IF i = -1 THEN Nil ELSE s[i + 1]
    <3>1. CASE p.sorted = NoOrder
      <4>1. r.playlist = Splice(p.playlist, p.index + 1, one)
        BY <1>5, <2>1, <3>1 DEF SortedBy
      <4>2. p.index = Position(p.playlist, played)
        BY <1>3, <1>6, <1>7, PlayedAt DEF Consistent
      <4> QED
        BY <1>3, <1>6, <1>7, <4>1, <4>2
    <3>2. CASE p.sorted # NoOrder
      <4> DEFINE s == p.sorted
                 i == Position(s, played)
      <4>1. s \in Seq(Items) /\ ToSet(s) = ToSet(p.playlist)
        BY <1>3, <3>2 DEF Consistent
      <4>2. i \in -1..(Len(s) - 1)
        BY <4>1, PositionType
      <4>3. played = IF i = -1 THEN Nil ELSE s[i + 1]
        <5>1. CASE played = Nil
          <6>1. Nil \notin ToSet(s)
            BY <4>1, NilAssumption DEF ToSet
          <6> QED
            BY <4>1, <5>1, <6>1, PositionFinds
        <5>2. CASE played # Nil
          <6>1. played \in ToSet(s)
            BY <4>1, <5>2, PlayingIsQueued
          <6>2. i \in 0..(Len(s) - 1) /\ s[i + 1] = played
            BY <4>1, <6>1, PositionFinds
          <6>3. i # -1
            BY <4>1, <6>2
          <6> QED
            BY <6>2, <6>3
        <5> QED
          BY <5>1, <5>2
      <4>4. r.playlist = Splice(s, i + 1, one)
        <5>1. Splice(s, i + 1, one) \in Seq(Items)
          <6>1. i + 1 \in 0..Len(s)
            BY <4>1, <4>2
          <6> HIDE DEF s, i, one
          <6> QED
            BY <1>1, <4>1, <6>1, SpliceType
        <5>2. added.sorted = Splice(s, i + 1, one)
          BY <1>5, <3>2 DEF SortedBy
        <5> QED
          BY <2>1, <5>1, <5>2, NoOrderAssumption
      <4>5. i \in Int
        BY <4>1, <4>2
      <4> QED
        BY <4>1, <4>2, <4>3, <4>4, <4>5
    <3> QED
      BY <3>1, <3>2
  <2>5. NoRepeats(r.playlist) /\ r.playlist \in Seq(Items)
    BY <1>2, <2>1, <2>3, QueueFields DEF Consistent
  <2>6. r.index = i
    <3>1. Len(s) \in Nat /\ i + 1 \in 0..Len(s)
      BY <2>4
    <3>2. Len(r.playlist) = Len(s) + 1 /\ \A k \in 1..(i + 1) : r.playlist[k] = s[k]
      <4>1. LET t == Splice(s, i + 1, <<item>>)
            IN  Len(t) = Len(s) + 1 /\ \A k \in 1..(i + 1) : t[k] = s[k]
        BY <3>1, SpliceOne
      <4> QED
        BY <2>4, <4>1
    <3>3. /\ i \in -1..(Len(r.playlist) - 1)
          /\ played = IF i = -1 THEN Nil ELSE r.playlist[i + 1]
      BY <2>4, <3>1, <3>2
    <3> QED
      BY <2>2, <2>5, <3>3, PlayedAt
  <2> QED
    BY <2>2, <2>3, <2>4, <2>6, NextPlaysSpliced
<1> QED
  BY <1>6, <1>8 DEF added

\* QueueNext plays next, shuffled or not, and still does once the queue is unshuffled.
THEOREM QueueNextPlays == Spec => []QueueNextPlaysNext
<1>1. Inv => QueueNextPlaysNext
  BY AddedPlaysNext DEF Inv, TypeOK, IndexOK, QueueNextPlaysNext
<1> QED
  BY <1>1, InvHolds, PTL

\* A step that is accepted is undone by the step back.
LEMMA StepsAreUndone ==
    ASSUME NEW q \in Queues, q.index < Len(q.playlist), q.index # -1
    PROVE  /\ NextItem(q).ok => PreviousItem(NextItem(q).queue).queue = q
           /\ PreviousItem(q).ok => NextItem(PreviousItem(q).queue).queue = q
<1> DEFINE n == Len(q.playlist)
           to(j) == [q EXCEPT !.index = j]
<1>1. /\ q.playlist \in Seq(Items) /\ n \in Nat /\ n > 0 /\ q.index \in 0..(n - 1)
      /\ q.repeat \in RepeatModes
  BY DEF Queues
<1>2. ASSUME NEW j
      PROVE  /\ to(j).index = j /\ to(j).playlist = q.playlist /\ to(j).repeat = q.repeat
             /\ [to(j) EXCEPT !.index = q.index] = q
  BY DEF Queues
<1>3. ASSUME NEW j, NEW ok
      PROVE  At(q, j, ok).ok = ok /\ At(q, j, ok).queue = to(j)
  BY DEF At
<1>4. ASSUME NEW j, NEW ok PROVE At(to(j), q.index, ok).queue = q
  <2>1. At(to(j), q.index, ok).queue = [to(j) EXCEPT !.index = q.index]
    BY DEF At
  <2>2. [to(j) EXCEPT !.index = q.index] = q
    BY <1>2
  <2> QED
    BY <2>1, <2>2
<1> HIDE DEF to
<1>5. /\ \A j, ok : NextItem(q) = At(q, j, TRUE) /\ PreviousItem(to(j)) = At(to(j), q.index, ok)
                      => PreviousItem(NextItem(q).queue).queue = q
      /\ \A j, ok : PreviousItem(q) = At(q, j, TRUE) /\ NextItem(to(j)) = At(to(j), q.index, ok)
                      => NextItem(PreviousItem(q).queue).queue = q
  <2>1. ASSUME NEW j, NEW ok, NextItem(q) = At(q, j, TRUE),
               PreviousItem(to(j)) = At(to(j), q.index, ok)
        PROVE  PreviousItem(NextItem(q).queue).queue = q
    <3>1. NextItem(q).queue = to(j)
      BY <1>3, <2>1, Zenon
    <3>2. PreviousItem(NextItem(q).queue) = At(to(j), q.index, ok)
      BY <2>1, <3>1, Zenon
    <3> QED
      BY <1>4, <3>2, Zenon
  <2>2. ASSUME NEW j, NEW ok, PreviousItem(q) = At(q, j, TRUE),
               NextItem(to(j)) = At(to(j), q.index, ok)
        PROVE  NextItem(PreviousItem(q).queue).queue = q
    <3>1. PreviousItem(q).queue = to(j)
      BY <1>3, <2>2, Zenon
    <3>2. NextItem(PreviousItem(q).queue) = At(to(j), q.index, ok)
      BY <2>2, <3>1, Zenon
    <3> QED
      BY <1>4, <3>2, Zenon
  <2> QED
    BY <2>1, <2>2
<1>6. ASSUME NextItem(q).ok PROVE PreviousItem(NextItem(q).queue).queue = q
  <2>1. CASE q.repeat = "RepeatOne"
    <3>1. NextItem(q) = At(q, q.index, TRUE)
      BY <2>1 DEF NextItem, IsItemPlaying
    <3>2. PreviousItem(to(q.index)) = At(to(q.index), q.index, TRUE)
      BY <1>2, <2>1 DEF PreviousItem, IsItemPlaying
    <3> QED
      BY <1>5, <3>1, <3>2, Zenon
  <2>2. CASE q.repeat # "RepeatOne" /\ q.index < n - 1
    <3>1. NextItem(q) = At(q, q.index + 1, TRUE)
      BY <2>2 DEF NextItem
    <3>2. to(q.index + 1).index >= 1 /\ to(q.index + 1).index - 1 = q.index
      BY <1>1, <1>2
    <3>3. PreviousItem(to(q.index + 1)) = At(to(q.index + 1), q.index, TRUE)
      BY <1>2, <2>2, <3>2 DEF PreviousItem
    <3> QED
      BY <1>5, <3>1, <3>3, Zenon
  <2>3. CASE q.repeat # "RepeatOne" /\ q.index >= n - 1
    <3>1. q.index = n - 1 /\ n - 1 # -1 /\ ~(q.index < n - 1)
      BY <1>1, <2>3
    <3>2. q.repeat = "RepeatAll"
      <4>1. ASSUME q.repeat # "RepeatAll" PROVE NextItem(q) = At(q, n - 1, FALSE)
        BY <2>3, <3>1, <4>1 DEF NextItem
      <4> QED
        BY <1>3, <1>6, <4>1, Zenon
    <3>3. NextItem(q) = At(q, 0, TRUE)
      BY <2>3, <3>1, <3>2 DEF NextItem
    <3>4. to(0).index = 0 /\ ~(0 >= 1)
      BY <1>2
    <3>5. PreviousItem(to(0)) = At(to(0), q.index, TRUE)
      BY <1>2, <2>3, <3>1, <3>2, <3>4 DEF PreviousItem
    <3> QED
      BY <1>5, <3>3, <3>5, Zenon
  <2> QED
    BY <1>1, <2>1, <2>2, <2>3
<1>7. ASSUME PreviousItem(q).ok PROVE NextItem(PreviousItem(q).queue).queue = q
  <2>1. CASE q.repeat = "RepeatOne"
    <3>1. PreviousItem(q) = At(q, q.index, TRUE)
      BY <2>1 DEF PreviousItem, IsItemPlaying
    <3>2. NextItem(to(q.index)) = At(to(q.index), q.index, TRUE)
      BY <1>2, <2>1 DEF NextItem, IsItemPlaying
    <3> QED
      BY <1>5, <3>1, <3>2, Zenon
  <2>2. CASE q.repeat # "RepeatOne" /\ q.index >= 1
    <3>1. PreviousItem(q) = At(q, q.index - 1, TRUE)
      BY <2>2 DEF PreviousItem
    <3>2. /\ to(q.index - 1).index < Len(to(q.index - 1).playlist) - 1
          /\ to(q.index - 1).index + 1 = q.index
      BY <1>1, <1>2
    <3>3. NextItem(to(q.index - 1)) = At(to(q.index - 1), q.index, TRUE)
      BY <1>2, <2>2, <3>2 DEF NextItem
    <3> QED
      BY <1>5, <3>1, <3>3, Zenon
  <2>3. CASE q.repeat # "RepeatOne" /\ ~(q.index >= 1)
    <3>1. q.index = 0 /\ n - 1 # -1
      BY <1>1, <2>3
    <3>2. q.repeat = "RepeatAll"
      <4>1. ASSUME q.repeat # "RepeatAll" PROVE PreviousItem(q) = At(q, 0, FALSE)
        BY <2>3, <3>1, <4>1 DEF PreviousItem
      <4> QED
        BY <1>3, <1>7, <4>1, Zenon
    <3>3. PreviousItem(q) = At(q, n - 1, TRUE)
      BY <2>3, <3>1, <3>2 DEF PreviousItem
    <3>4. /\ ~(to(n - 1).index < Len(to(n - 1).playlist) - 1)
          /\ Len(to(n - 1).playlist) - 1 # -1
      BY <1>1, <1>2
    <3>5. NextItem(to(n - 1)) = At(to(n - 1), q.index, TRUE)
      BY <1>2, <2>3, <3>1, <3>2, <3>4 DEF NextItem
    <3> QED
      BY <1>5, <3>3, <3>5, Zenon
  <2> QED
    BY <2>1, <2>2, <2>3
<1> QED
  BY <1>6, <1>7

\* Next and previous undo each other at either end and in every repeat mode.
THEOREM NavigationInverse == Spec => []NextAndPreviousInverse
<1>1. Inv => NextAndPreviousInverse
  BY StepsAreUndone DEF Inv, TypeOK, IndexOK, IsItemPlaying, NextAndPreviousInverse
<1> QED
  BY <1>1, InvHolds, PTL
=============================================================================
