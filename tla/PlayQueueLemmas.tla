--------------------------- MODULE PlayQueueLemmas ---------------------------
(***************************************************************************)
(* Facts about the operators of PlayQueue, for every value of the          *)
(* constants: each method leaves a well-formed queue behind.               *)
(***************************************************************************)
EXTENDS PlayQueue, FiniteSetTheorems, SequenceTheorems, WellFoundedInduction, TLAPS

-----------------------------------------------------------------------------
(* Numbers and positions *)

\* A set of naturals with an element has a least one.
LEMMA LeastElement ==
    ASSUME NEW T \in SUBSET Nat, T # {}
    PROVE  \E x \in T : \A y \in T : x <= y
<1> DEFINE R == StrictSubsetOrdering(Nat)
           F == {0..i : i \in T}
<1>1. IsWellFoundedOn(R, FiniteSubsetsOf(Nat))
  BY FS_StrictSubsetOrderingWellFounded
<1>2. F \subseteq FiniteSubsetsOf(Nat)
  <2>1. ASSUME NEW i \in T PROVE 0..i \subseteq Nat /\ IsFiniteSet(0..i)
    BY FS_Interval
  <2> QED
    BY <2>1 DEF FiniteSubsetsOf
<1>3. F # {}
  OBVIOUS
<1>4. PICK X \in F : \A Y \in F : <<Y, X>> \notin R
  <2> HIDE DEF R, F
  <2> QED
    BY <1>1, <1>2, <1>3, WFMin
<1>5. PICK x \in T : X = 0..x
  OBVIOUS
<1>6. ASSUME NEW y \in T, ~(x <= y) PROVE FALSE
  <2>1. 0..y \subseteq 0..x /\ x \in 0..x /\ x \notin 0..y
    BY <1>6
  <2>2. <<0..y, 0..x>> \in R
    BY <2>1 DEF StrictSubsetOrdering
  <2> QED
    BY <2>2, <1>4, <1>5
<1> QED
  BY <1>6

\* Position finds an element at a position of the sequence, or -1.
LEMMA PositionType ==
    ASSUME NEW s \in Seq(Items), NEW x
    PROVE  Position(s, x) \in -1..(Len(s) - 1)
<1>1. CASE \E i \in DOMAIN s : s[i] = x
  <2> DEFINE T == {i \in DOMAIN s : s[i] = x}
  <2>1. T \in SUBSET Nat /\ T # {}
    BY <1>1
  <2>2. PICK i \in T : \A j \in T : i <= j
    BY <2>1, LeastElement
  <2>3. i \in DOMAIN s /\ s[i] = x /\ \A j \in 1..(i-1) : s[j] # x
    BY <2>2
  <2> QED
    BY <1>1, <2>3 DEF Position
<1>2. CASE ~ \E i \in DOMAIN s : s[i] = x
  BY <1>2 DEF Position
<1> QED
  BY <1>1, <1>2

\* The k-th position of a set of positions exists, for every k up to its size.
LEMMA NthExists ==
    ASSUME NEW n \in Nat, NEW at \in SUBSET (1..n), NEW k \in 1..Cardinality(at)
    PROVE  \E i \in at : Cardinality({j \in at : j <= i}) = k
<1> DEFINE upTo(i) == {j \in at : j <= i}
<1>1. IsFiniteSet(at) /\ \A i \in 0..n : IsFiniteSet(upTo(i)) /\ Cardinality(upTo(i)) \in Nat
  <2>1. IsFiniteSet(at)
    <3>1. IsFiniteSet(1..n)
      BY FS_Interval
    <3> QED
      BY <3>1, FS_Subset
  <2> QED
    BY <2>1, FS_Subset, FS_CardinalityType
<1>2. upTo(n) = at
  <2>1. \A j \in at : j <= n
    OBVIOUS
  <2> QED
    BY <2>1
<1>3. k \in Nat /\ k >= 1 /\ k <= Cardinality(at)
  BY <1>1, FS_CardinalityType
<1>4. Cardinality(upTo(0)) = 0
  <2>1. \A j \in at : ~(j <= 0)
    OBVIOUS
  <2>2. upTo(0) = {}
    BY <2>1
  <2> QED
    BY <2>2, FS_EmptySet
<1>5. ASSUME NEW i \in 1..n
      PROVE  Cardinality(upTo(i)) =
                 IF i \in at THEN Cardinality(upTo(i - 1)) + 1 ELSE Cardinality(upTo(i - 1))
  <2>1. \A j \in at : j \in Int /\ (j <= i <=> j <= i - 1 \/ j = i)
    OBVIOUS
  <2>2. CASE i \in at
    <3>1. upTo(i) = upTo(i - 1) \cup {i} /\ i \notin upTo(i - 1)
      <4>1. ~(i <= i - 1)
        OBVIOUS
      <4> QED
        BY <4>1, <2>1, <2>2, Zenon
    <3>2. i - 1 \in 0..n
      OBVIOUS
    <3> QED
      BY <3>1, <3>2, <2>2, <1>1, FS_AddElement
  <2>3. CASE i \notin at
    <3>1. upTo(i) = upTo(i - 1)
      BY <2>1, <2>3
    <3> QED
      BY <3>1, <2>3
  <2> QED
    BY <2>2, <2>3
<1> DEFINE card == [i \in 0..n |-> Cardinality(upTo(i))]
           T == {i \in 0..n : card[i] >= k}
<1>6. /\ card \in [0..n -> Nat] /\ card[0] = 0 /\ card[n] >= k
      /\ \A i \in 1..n : card[i] = IF i \in at THEN card[i - 1] + 1 ELSE card[i - 1]
  <2>1. card \in [0..n -> Nat]
    BY <1>1
  <2>2. card[0] = 0 /\ card[n] = Cardinality(at)
    BY <1>2, <1>4
  <2>3. ASSUME NEW i \in 1..n
        PROVE  card[i] = IF i \in at THEN card[i - 1] + 1 ELSE card[i - 1]
    <3>1. i \in 0..n /\ i - 1 \in 0..n
      OBVIOUS
    <3>2. card[i] = Cardinality(upTo(i)) /\ card[i - 1] = Cardinality(upTo(i - 1))
      BY <3>1
    <3> QED
      BY <3>2, <1>5
  <2> QED
    BY <2>1, <2>2, <2>3, <1>3
<1>7. \A i \in at : card[i] = Cardinality(upTo(i))
  OBVIOUS
<1> HIDE DEF card, upTo
<1>8. T \in SUBSET Nat /\ T # {}
  <2>1. 0..n \subseteq Nat /\ n \in 0..n
    OBVIOUS
  <2> QED
    BY <2>1, <1>6
<1>9. PICK i \in T : \A y \in T : i <= y
  BY <1>8, LeastElement
<1>10. i \in 0..n /\ card[i] >= k
  BY <1>9
<1>11. i \in 1..n /\ i - 1 \in 0..n
  BY <1>10, <1>6, <1>3
<1>12. i - 1 \notin T
  BY <1>9, <1>11
<1>13. card[i - 1] < k /\ card[i - 1] \in Nat
  BY <1>12, <1>11, <1>6, <1>3
<1>14. i \in at /\ card[i] = k
  BY <1>10, <1>11, <1>13, <1>6, <1>3
<1> QED
  BY <1>14, <1>7 DEF upTo

\* Retain leaves a sequence of elements of the sequence.
LEMMA RetainType ==
    ASSUME NEW s \in Seq(Items), NEW keep
    PROVE  Retain(s, keep) \in Seq(Items)
<1> DEFINE at == {i \in DOMAIN s : s[i] \in keep}
           nth(k) == CHOOSE i \in at : Cardinality({j \in at : j <= i}) = k
           size == Cardinality(at)
<1>1. at \in SUBSET (1..Len(s)) /\ Len(s) \in Nat
  OBVIOUS
<1>2. size \in Nat
  <2>1. IsFiniteSet(1..Len(s))
    BY <1>1, FS_Interval
  <2> QED
    BY <2>1, <1>1, FS_Subset, FS_CardinalityType
<1>3. ASSUME NEW k \in 1..size PROVE s[nth(k)] \in Items
  <2>1. \E i \in at : Cardinality({j \in at : j <= i}) = k
    <3> HIDE DEF at
    <3> QED
      BY <1>1, NthExists
  <2>2. nth(k) \in at
    BY <2>1
  <2> QED
    BY <2>2, <1>1
<1>4. Retain(s, keep) = [k \in 1..size |-> s[nth(k)]]
  BY DEF Retain
<1> HIDE DEF nth, size
<1>5. [k \in 1..size |-> s[nth(k)]] \in Seq(Items)
  BY <1>2, <1>3
<1> QED
  BY <1>4, <1>5

\* Splicing items into a sequence of items gives one.
LEMMA SpliceType ==
    ASSUME NEW s \in Seq(Items), NEW t \in Seq(Items), NEW i \in 0..Len(s)
    PROVE  Splice(s, i, t) \in Seq(Items)
BY DEF Splice

\* An order of a set of items is a sequence of items.
LEMMA OrderType ==
    ASSUME NEW S \in SUBSET Items, NEW s \in SetToSeqs(S)
    PROVE  s \in Seq(Items)
<1>1. Cardinality(S) \in Nat
  BY ItemsAssumption, FS_Subset, FS_CardinalityType
<1> QED
  BY <1>1 DEF SetToSeqs

\* What one request brings is a sequence of items.
LEMMA BatchType ==
    ASSUME NEW used, NEW items \in Batches(used)
    PROVE  items \in Seq(Items)
<1>1. PICK new \in SUBSET (Items \ used) : items \in SetToSeqs(new)
  BY DEF Batches
<1> QED
  BY <1>1, OrderType

-----------------------------------------------------------------------------
(* The methods of the queue *)

\* PlayQueue::new makes a queue.
LEMMA NewQueueType == NewQueue \in Queues
BY DEF NewQueue, Queues, RepeatModes, ShuffleModes

\* The fields of a queue, and a queue put together from fields.
LEMMA QueueFields ==
    ASSUME NEW q \in Queues
    PROVE  /\ q.playlist \in Seq(Items)
           /\ q.sorted # NoOrder => q.sorted \in Seq(Items)
           /\ q.index \in Nat \cup {-1}
           /\ PlayingItem(q) # Nil => PlayingItem(q) \in Items
           /\ ToSet(q.playlist) \in SUBSET Items
BY DEF Queues, PlayingItem, ToSet

\* An edited sorted order is an order, or none.
LEMMA SortedByType ==
    ASSUME NEW q \in Queues, NEW edited, q.sorted # NoOrder => edited \in Seq(Items)
    PROVE  SortedBy(q, edited) \in Seq(Items) \cup {NoOrder}
BY DEF SortedBy

\* Edited orders and index make a queue.
LEMMA EditedQueue ==
    ASSUME NEW q \in Queues, NEW playlist \in Seq(Items),
           NEW sorted \in Seq(Items) \cup {NoOrder}, NEW index \in Nat \cup {-1}
    PROVE  [q EXCEPT !.playlist = playlist, !.sorted = sorted, !.index = index] \in Queues
BY DEF Queues

\* Each method of PlayQueue, applied to a queue, leaves a queue: set_playlist.
LEMMA SetPlaylistType ==
    ASSUME NEW items \in Seq(Items), NEW i \in Int
    PROVE  SetPlaylist(items, i) \in Queues
<1>1. (IF i \in 0..(Len(items) - 1) THEN i ELSE -1) \in Nat \cup {-1}
  OBVIOUS
<1> QED
  BY <1>1, NewQueueType DEF SetPlaylist, Queues

\* set_playing_item_by_playlist_id, for a queued, an unknown and the nil id.
LEMMA SetPlayingItemType ==
    ASSUME NEW q \in Queues, NEW item
    PROVE  SetPlayingItem(q, item) \in Queues
<1>1. Position(q.playlist, item) \in Nat \cup {-1}
  BY QueueFields, PositionType
<1> QED
  BY <1>1 DEF SetPlayingItem, Queues

\* queue
LEMMA AddLastType ==
    ASSUME NEW q \in Queues, NEW items \in Seq(Items)
    PROVE  AddLast(q, items) \in Queues
<1>1. q.playlist \o items \in Seq(Items)
  BY QueueFields
<1>2. SortedBy(q, q.sorted \o items) \in Seq(Items) \cup {NoOrder}
  BY QueueFields DEF SortedBy
<1> QED
  BY <1>1, <1>2 DEF AddLast, Queues

\* queue_next: the positions it splices at exist in both orders.
LEMMA AddNextType ==
    ASSUME NEW q \in Queues, NEW items \in Seq(Items)
    PROVE  AddNext(q, items) \in Queues
<1> DEFINE into == Lesser(q.index + 1, Len(q.playlist))
           after == Position(q.sorted, PlayingItem(q)) + 1
<1>1. q.playlist \in Seq(Items) /\ into \in 0..Len(q.playlist)
  BY QueueFields DEF Lesser
<1>2. Splice(q.playlist, into, items) \in Seq(Items)
  BY <1>1, SpliceType
<1>3. ASSUME q.sorted # NoOrder PROVE Splice(q.sorted, after, items) \in Seq(Items)
  <2>1. q.sorted \in Seq(Items)
    BY <1>3, QueueFields
  <2>2. Position(q.sorted, PlayingItem(q)) \in -1..(Len(q.sorted) - 1)
    BY <2>1, PositionType
  <2>3. after \in 0..Len(q.sorted)
    BY <2>1, <2>2
  <2> QED
    BY <2>1, <2>3, SpliceType
<1>4. SortedBy(q, Splice(q.sorted, after, items)) \in Seq(Items) \cup {NoOrder}
  BY <1>3, SortedByType
<1> QED
  BY <1>2, <1>4 DEF AddNext, Queues

\* clear_playlist
LEMMA ClearPlaylistType ==
    ASSUME NEW q \in Queues, NEW clearPlaying
    PROVE  ClearPlaylist(q, clearPlaying) \in Queues
<1> DEFINE kept == IF clearPlaying \/ PlayingItem(q) = Nil THEN <<>> ELSE <<PlayingItem(q)>>
<1>1. kept \in Seq(Items) /\ Len(kept) - 1 \in Nat \cup {-1}
  BY QueueFields
<1>2. SortedBy(q, kept) \in Seq(Items) \cup {NoOrder}
  BY <1>1, SortedByType
<1> QED
  BY <1>1, <1>2 DEF ClearPlaylist, Queues

\* remove_from_playlist: the index it leaves is -1 or a natural number.
LEMMA RemoveItemsType ==
    ASSUME NEW q \in Queues, NEW ids
    PROVE  RemoveItems(q, ids) \in Queues
<1> DEFINE left == Retain(q.playlist, Items \ ids)
           back == q.index - 1
           index == CASE PlayingItem(q) = Nil -> q.index
                      [] RemovesPlaying(q, ids) ->
                           IF back >= 0 THEN back ELSE IF left = <<>> THEN -1 ELSE 0
                      [] OTHER -> Position(left, PlayingItem(q))
<1>1. left \in Seq(Items)
  BY QueueFields, RetainType
<1>2. index \in Nat \cup {-1}
  <2>1. q.index \in Nat \cup {-1}
    BY QueueFields
  <2>2. Position(left, PlayingItem(q)) \in Nat \cup {-1}
    BY <1>1, PositionType
  <2>3. PlayingItem(q) = Nil => ~RemovesPlaying(q, ids)
    BY DEF RemovesPlaying
  <2> QED
    BY <2>1, <2>2, <2>3
<1>3. SortedBy(q, Retain(q.sorted, Items \ ids)) \in Seq(Items) \cup {NoOrder}
  <2>1. q.sorted # NoOrder => Retain(q.sorted, Items \ ids) \in Seq(Items)
    BY QueueFields, RetainType
  <2> QED
    BY <2>1, SortedByType
<1> QED
  BY <1>1, <1>2, <1>3 DEF RemoveItems, Queues

\* move_playlist_item
LEMMA MoveItemType ==
    ASSUME NEW q \in Queues, NEW item \in Items, NEW i \in Int
    PROVE  MoveItem(q, item, i) \in Queues
<1> DEFINE rest == Retain(q.playlist, Items \ {item})
           into == Lesser(IF i >= 0 THEN i ELSE 0, Len(rest))
           moved == Splice(rest, into, <<item>>)
<1>1. rest \in Seq(Items)
  BY QueueFields, RetainType
<1>2. into \in 0..Len(rest)
  <2> HIDE DEF rest
  <2> QED
    BY <1>1 DEF Lesser
<1>3. moved \in Seq(Items)
  <2>1. <<item>> \in Seq(Items)
    OBVIOUS
  <2> HIDE DEF rest, into
  <2> QED
    BY <1>1, <1>2, <2>1, SpliceType
<1>4. Position(moved, PlayingItem(q)) \in Nat \cup {-1}
  BY <1>3, PositionType
<1> QED
  BY <1>3, <1>4 DEF MoveItem, Queues

\* set_repeat_mode
LEMMA SetRepeatModeType ==
    ASSUME NEW q \in Queues, NEW mode \in RepeatModes
    PROVE  SetRepeatMode(q, mode) \in Queues
BY DEF SetRepeatMode, Queues

\* set_shuffle_mode, whatever order the shuffle gives.
LEMMA SetShuffleModeType ==
    ASSUME NEW q \in Queues, NEW mode \in ShuffleModes, NEW r \in SetShuffleMode(q, mode)
    PROVE  r \in Queues
<1>1. CASE mode = "Shuffle"
  <2> DEFINE first == IF PlayingItem(q) = Nil THEN <<>> ELSE <<PlayingItem(q)>>
             sorted == IF q.sorted = NoOrder THEN q.playlist ELSE q.sorted
  <2>1. PICK others \in SetToSeqs(ToSet(q.playlist) \ ToSet(first)) :
            r = [q EXCEPT !.playlist = first \o others, !.sorted = sorted,
                          !.index = IF first = <<>> THEN @ ELSE 0, !.shuffle = "Shuffle"]
    BY <1>1 DEF SetShuffleMode, Shuffled
  <2>2. others \in Seq(Items)
    BY QueueFields, OrderType
  <2>3. first \o others \in Seq(Items)
    BY <2>2, QueueFields
  <2>4. sorted \in Seq(Items) \cup {NoOrder}
    BY QueueFields
  <2> QED
    BY <2>1, <2>3, <2>4 DEF Queues, ShuffleModes
<1>2. CASE mode # "Shuffle"
  <2> DEFINE orders == IF q.sorted = NoOrder THEN {q.playlist}
                       ELSE {Retain(q.sorted, ToSet(q.playlist)) \o others :
                                others \in SetToSeqs(ToSet(q.playlist) \ ToSet(q.sorted))}
  <2>1. PICK order \in orders :
            r = [q EXCEPT !.playlist = order, !.sorted = NoOrder,
                          !.index = Position(order, PlayingItem(q)), !.shuffle = "Sorted"]
    BY <1>2 DEF SetShuffleMode, Restored
  <2>2. order \in Seq(Items)
    <3>1. CASE q.sorted = NoOrder
      BY <3>1, QueueFields
    <3>2. CASE q.sorted # NoOrder
      <4>1. PICK others \in SetToSeqs(ToSet(q.playlist) \ ToSet(q.sorted)) :
                order = Retain(q.sorted, ToSet(q.playlist)) \o others
        BY <3>2
      <4>2. others \in Seq(Items)
        BY QueueFields, OrderType
      <4>3. Retain(q.sorted, ToSet(q.playlist)) \in Seq(Items)
        BY <3>2, QueueFields, RetainType
      <4> QED
        BY <4>1, <4>2, <4>3
    <3> QED
      BY <3>1, <3>2
  <2>3. Position(order, PlayingItem(q)) \in Nat \cup {-1}
    BY <2>2, PositionType
  <2> QED
    BY <2>1, <2>2, <2>3 DEF Queues, ShuffleModes
<1> QED
  BY <1>1, <1>2

\* next and previous: no step takes the index below -1.
LEMMA NavigationType ==
    ASSUME NEW q \in Queues
    PROVE  NextItem(q).queue \in Queues /\ PreviousItem(q).queue \in Queues
<1> DEFINE last == Len(q.playlist) - 1
<1>1. ASSUME NEW i \in Nat \cup {-1}, NEW ok PROVE At(q, i, ok).queue \in Queues
  BY DEF At, Queues
<1>2. q.index \in Nat \cup {-1} /\ last \in Nat \cup {-1}
  BY QueueFields
<1>3. q.index + 1 \in Nat /\ (q.index >= 1 => q.index - 1 \in Nat)
  BY <1>2
<1>4. NextItem(q).queue \in Queues
  BY <1>1, <1>2, <1>3 DEF NextItem
<1>5. PreviousItem(q).queue \in Queues
  BY <1>1, <1>2, <1>3 DEF PreviousItem
<1> QED
  BY <1>4, <1>5

-----------------------------------------------------------------------------
(* The order of the elements of a sequence, and what the methods do to it. *)

\* x is before y in s.
Before(s, x, y) == \E i, j \in DOMAIN s : i < j /\ s[i] = x /\ s[j] = y

\* The positions that Retain keeps are those of the elements in keep, in their order.
LEMMA RetainPositions ==
    ASSUME NEW s \in Seq(Items), NEW keep
    PROVE  LET r == Retain(s, keep)
           IN  \E f \in [DOMAIN r -> DOMAIN s] :
                  /\ \A k \in DOMAIN r : r[k] = s[f[k]] /\ s[f[k]] \in keep
                  /\ \A k, l \in DOMAIN r : k < l => f[k] < f[l]
                  /\ \A i \in DOMAIN s : s[i] \in keep => \E k \in DOMAIN r : f[k] = i
<1> DEFINE at == {i \in DOMAIN s : s[i] \in keep}
           upTo(i) == {j \in at : j <= i}
           nth(k) == CHOOSE i \in at : Cardinality({j \in at : j <= i}) = k
           size == Cardinality(at)
           f == [k \in 1..size |-> nth(k)]
<1>1. at \in SUBSET (1..Len(s)) /\ Len(s) \in Nat
  OBVIOUS
<1>2. IsFiniteSet(at) /\ size \in Nat
  <2>1. IsFiniteSet(1..Len(s))
    BY <1>1, FS_Interval
  <2> QED
    BY <2>1, <1>1, FS_Subset, FS_CardinalityType
<1>3. ASSUME NEW i \in at
      PROVE  /\ upTo(i) \subseteq at /\ IsFiniteSet(upTo(i)) /\ Cardinality(upTo(i)) \in 1..size
  <2>1. upTo(i) \subseteq at /\ i \in upTo(i)
    BY <1>1
  <2>2. IsFiniteSet(upTo(i)) /\ Cardinality(upTo(i)) <= size /\ Cardinality(upTo(i)) \in Nat
    BY <2>1, <1>2, FS_Subset, FS_CardinalityType
  <2>3. Cardinality(upTo(i)) # 0
    BY <2>1, <2>2, FS_EmptySet
  <2> QED
    BY <2>1, <2>2, <2>3, <1>2
<1>4. ASSUME NEW i \in at, NEW j \in at, i < j
      PROVE  Cardinality(upTo(i)) < Cardinality(upTo(j))
  <2>1. upTo(i) \subseteq upTo(j) /\ j \in upTo(j) /\ j \notin upTo(i)
    BY <1>1, <1>4
  <2>2. Cardinality(upTo(i)) <= Cardinality(upTo(j)) /\ Cardinality(upTo(i)) # Cardinality(upTo(j))
    BY <2>1, <1>3, FS_Subset
  <2> HIDE DEF upTo, at
  <2> QED
    BY <2>2, <1>3
<1>5. ASSUME NEW k \in 1..size PROVE nth(k) \in at /\ Cardinality(upTo(nth(k))) = k
  <2>1. \E i \in at : Cardinality({j \in at : j <= i}) = k
    <3> HIDE DEF at
    <3> QED
      BY <1>1, NthExists
  <2> QED
    BY <2>1
<1>6. /\ f \in [1..size -> DOMAIN s]
      /\ \A k \in 1..size : f[k] = nth(k) /\ s[f[k]] \in keep
  BY <1>5
<1>7. ASSUME NEW k \in 1..size, NEW l \in 1..size, k < l PROVE f[k] < f[l]
  <2>1. nth(k) \in at /\ nth(l) \in at /\ Cardinality(upTo(nth(k))) = k /\ Cardinality(upTo(nth(l))) = l
    BY <1>5
  <2>2. ~(nth(l) < nth(k)) /\ nth(l) # nth(k)
    <3> HIDE DEF at, nth, upTo
    <3> QED
      BY <2>1, <1>4, <1>7
  <2>3. nth(k) \in Nat /\ nth(l) \in Nat
    BY <2>1, <1>1
  <2>4. f[k] = nth(k) /\ f[l] = nth(l)
    BY <1>6
  <2> HIDE DEF f, nth
  <2> QED
    BY <2>2, <2>3, <2>4
<1>8. ASSUME NEW i \in at PROVE \E k \in 1..size : f[k] = i
  <2> DEFINE k == Cardinality(upTo(i))
  <2>1. k \in 1..size
    BY <1>3
  <2>2. nth(k) \in at /\ Cardinality(upTo(nth(k))) = k
    BY <2>1, <1>5
  <2>3. ~(nth(k) < i) /\ ~(i < nth(k))
    <3>1. k < k => FALSE
      BY <2>1
    <3> QED
      BY <2>2, <1>4, <3>1
  <2>4. nth(k) \in Nat /\ i \in Nat
    BY <2>2, <1>1
  <2>5. nth(k) = i
    <3> HIDE DEF nth, k
    <3> QED
      BY <2>3, <2>4
  <2> QED
    BY <2>1, <2>5
<1>9. Retain(s, keep) = [k \in 1..size |-> s[nth(k)]]
  BY DEF Retain
<1>10. /\ DOMAIN Retain(s, keep) = 1..size
       /\ \A k \in 1..size : Retain(s, keep)[k] = s[f[k]]
  BY <1>9, <1>6
<1>11. \A i \in DOMAIN s : s[i] \in keep => \E k \in 1..size : f[k] = i
  BY <1>8
<1> DEFINE r == Retain(s, keep)
<1> HIDE DEF f, size, r
<1>12. /\ f \in [DOMAIN r -> DOMAIN s]
       /\ \A k \in DOMAIN r : r[k] = s[f[k]] /\ s[f[k]] \in keep
       /\ \A k, l \in DOMAIN r : k < l => f[k] < f[l]
       /\ \A i \in DOMAIN s : s[i] \in keep => \E k \in DOMAIN r : f[k] = i
  BY <1>6, <1>7, <1>10, <1>11 DEF r
<1> QED
  BY <1>12 DEF r

\* Retain keeps the elements in keep, each as often and in the order it had.
LEMMA RetainLists ==
    ASSUME NEW s \in Seq(Items), NEW keep, NoRepeats(s)
    PROVE  /\ NoRepeats(Retain(s, keep))
           /\ ToSet(Retain(s, keep)) = ToSet(s) \cap keep
           /\ \A x, y \in keep : Before(s, x, y) => Before(Retain(s, keep), x, y)
<1> DEFINE r == Retain(s, keep)
<1>1. PICK f \in [DOMAIN r -> DOMAIN s] :
             /\ \A k \in DOMAIN r : r[k] = s[f[k]] /\ s[f[k]] \in keep
             /\ \A k, l \in DOMAIN r : k < l => f[k] < f[l]
             /\ \A i \in DOMAIN s : s[i] \in keep => \E k \in DOMAIN r : f[k] = i
  BY RetainPositions
<1>2. r \in Seq(Items)
  BY RetainType
<1> HIDE DEF r
<1>3. DOMAIN r \subseteq Nat /\ DOMAIN s \subseteq Nat
  BY <1>2
<1>4. NoRepeats(r)
  <2> SUFFICES ASSUME NEW k \in DOMAIN r, NEW l \in DOMAIN r, r[k] = r[l], k # l PROVE FALSE
    BY DEF NoRepeats
  <2>1. f[k] = f[l]
    BY <1>1 DEF NoRepeats
  <2>2. k < l \/ l < k
    BY <1>3
  <2>3. f[k] < f[l] \/ f[l] < f[k]
    BY <1>1, <2>2
  <2> QED
    BY <1>1, <1>3, <2>1, <2>3
<1>5. ToSet(r) = ToSet(s) \cap keep
  BY <1>1 DEF ToSet
<1>6. ASSUME NEW x \in keep, NEW y \in keep, Before(s, x, y) PROVE Before(r, x, y)
  <2>1. PICK i \in DOMAIN s, j \in DOMAIN s : i < j /\ s[i] = x /\ s[j] = y
    BY <1>6 DEF Before
  <2>2. PICK k \in DOMAIN r : f[k] = i
    BY <1>1, <2>1
  <2>3. PICK l \in DOMAIN r : f[l] = j
    BY <1>1, <2>1
  <2>4. ~(l < k) /\ k # l
    <3>1. ~(j < i)
      BY <1>3, <2>1
    <3> QED
      BY <1>1, <1>3, <2>1, <2>2, <2>3, <3>1
  <2>5. k < l
    BY <1>3, <2>4
  <2> QED
    BY <1>1, <2>1, <2>2, <2>3, <2>5 DEF Before
<1> QED
  BY <1>4, <1>5, <1>6 DEF r

\* In a sequence without repeats nothing is before what is before it.
LEMMA BeforeOneWay ==
    ASSUME NEW s \in Seq(Items), NoRepeats(s), NEW x, NEW y, Before(s, x, y)
    PROVE  ~Before(s, y, x)
<1> SUFFICES ASSUME Before(s, y, x) PROVE FALSE
  OBVIOUS
<1>1. PICK i \in DOMAIN s, j \in DOMAIN s : i < j /\ s[i] = x /\ s[j] = y
  BY DEF Before
<1>2. PICK k \in DOMAIN s, l \in DOMAIN s : k < l /\ s[k] = y /\ s[l] = x
  BY DEF Before
<1>3. i = l /\ j = k
  BY <1>1, <1>2 DEF NoRepeats
<1> QED
  BY <1>1, <1>2, <1>3

\* What is before or after something is listed.
LEMMA BeforeListed ==
    ASSUME NEW s \in Seq(Items), NEW x, NEW y, Before(s, x, y)
    PROVE  x \in ToSet(s) /\ y \in ToSet(s)
BY DEF Before, ToSet

\* Of two elements of a sequence one is before the other.
LEMMA OneBefore ==
    ASSUME NEW s \in Seq(Items), NEW x \in ToSet(s), NEW y \in ToSet(s), x # y
    PROVE  Before(s, x, y) \/ Before(s, y, x)
<1>1. PICK i \in DOMAIN s : s[i] = x
  BY DEF ToSet
<1>2. PICK j \in DOMAIN s : s[j] = y
  BY DEF ToSet
<1>3. i \in Int /\ j \in Int /\ i # j
  BY <1>1, <1>2
<1>4. i < j \/ j < i
  BY <1>3
<1> QED
  BY <1>1, <1>2, <1>4 DEF Before

\* Two sequences without repeats that list the same elements in the same order are equal.
LEMMA SameOrder ==
    ASSUME NEW s \in Seq(Items), NEW t \in Seq(Items), NoRepeats(s), NoRepeats(t),
           ToSet(s) = ToSet(t), \A x, y : Before(s, x, y) => Before(t, x, y)
    PROVE  s = t
<1> DEFINE Bad == {i \in DOMAIN s : i \notin DOMAIN t \/ s[i] # t[i]}
<1>1. /\ DOMAIN s = 1..Len(s) /\ DOMAIN t = 1..Len(t) /\ Len(s) \in Nat /\ Len(t) \in Nat
      /\ DOMAIN s \subseteq Nat /\ DOMAIN t \subseteq Nat
  OBVIOUS
<1>2. (\A i \in DOMAIN s : \E j \in DOMAIN t : t[j] = s[i]) /\ \A j \in DOMAIN t : \E i \in DOMAIN s : s[i] = t[j]
  BY DEF ToSet
<1>3. Bad = {}
  <2> SUFFICES ASSUME Bad # {} PROVE FALSE
    OBVIOUS
  <2>1. PICK i \in Bad : \A j \in Bad : i <= j
    <3>1. Bad \in SUBSET Nat
      BY <1>1
    <3> HIDE DEF Bad
    <3> QED
      BY <3>1, LeastElement
  <2>2. i \in DOMAIN s /\ \A j \in DOMAIN s : j < i => j \in DOMAIN t /\ s[j] = t[j]
    BY <1>1, <2>1
  <2>3. PICK j \in DOMAIN t : t[j] = s[i]
    BY <1>2, <2>2
  <2>4. j # i /\ ~(j < i)
    <3>1. CASE j = i
      BY <2>1, <2>3, <3>1
    <3>2. CASE j < i
      <4>1. j \in DOMAIN s
        BY <1>1, <2>2, <3>2
      <4> QED
        BY <1>1, <2>2, <2>3, <3>2, <4>1 DEF NoRepeats
    <3> QED
      BY <3>1, <3>2
  <2>5. i < j /\ i \in DOMAIN t
    BY <1>1, <2>2, <2>4
  <2>6. t[i] # s[i]
    BY <2>1, <2>5
  <2>7. PICK k \in DOMAIN s : s[k] = t[i]
    BY <1>2, <2>5
  <2>8. k # i /\ ~(k < i)
    <3>1. k # i
      BY <2>6, <2>7
    <3>2. CASE k < i
      BY <1>1, <2>2, <2>5, <2>7, <3>2 DEF NoRepeats
    <3> QED
      BY <3>1, <3>2
  <2>9. i < k
    BY <1>1, <2>2, <2>8
  <2>10. Before(s, s[i], t[i]) /\ Before(t, t[i], s[i])
    BY <2>2, <2>3, <2>5, <2>7, <2>9 DEF Before
  <2> QED
    BY <2>10, BeforeOneWay
<1>4. \A i \in DOMAIN s : i \in DOMAIN t /\ s[i] = t[i]
  BY <1>3
<1>5. \A j \in DOMAIN t : j \in DOMAIN s
  <2> SUFFICES ASSUME NEW j \in DOMAIN t PROVE j \in DOMAIN s
    OBVIOUS
  <2>1. PICK i \in DOMAIN s : s[i] = t[j]
    BY <1>2
  <2> QED
    BY <1>4, <2>1 DEF NoRepeats
<1>6. Len(s) = Len(t)
  <2>1. Len(s) <= Len(t)
    <3>1. CASE Len(s) = 0
      BY <1>1, <3>1
    <3>2. CASE Len(s) # 0
      <4>1. Len(s) \in DOMAIN s
        BY <1>1, <3>2
      <4> QED
        BY <1>1, <1>4, <4>1
    <3> QED
      BY <3>1, <3>2
  <2>2. Len(t) <= Len(s)
    <3>1. CASE Len(t) = 0
      BY <1>1, <3>1
    <3>2. CASE Len(t) # 0
      <4>1. Len(t) \in DOMAIN t
        BY <1>1, <3>2
      <4> QED
        BY <1>1, <1>5, <4>1
    <3> QED
      BY <3>1, <3>2
  <2>3. Len(s) \in Nat /\ Len(t) \in Nat
    BY <1>1
  <2> QED
    BY <2>1, <2>2, <2>3
<1> QED
  BY <1>1, <1>4, <1>6, SeqEqual

\* The elements of a concatenation.
LEMMA ConcatElements ==
    ASSUME NEW a \in Seq(Items), NEW b \in Seq(Items)
    PROVE  /\ a \o b \in Seq(Items) /\ Len(a) \in Nat /\ Len(b) \in Nat
           /\ Len(a \o b) = Len(a) + Len(b) /\ DOMAIN (a \o b) = 1..(Len(a) + Len(b))
           /\ \A i \in 1..Len(a) : (a \o b)[i] = a[i]
           /\ \A j \in 1..Len(b) : (a \o b)[Len(a) + j] = b[j]
<1> DEFINE r == a \o b
           m == Len(a)
           n == Len(b)
<1>1. /\ m \in Nat /\ n \in Nat /\ r \in Seq(Items) /\ Len(r) = m + n /\ DOMAIN r = 1..(m + n)
      /\ \A i \in 1..(m + n) : r[i] = IF i <= m THEN a[i] ELSE b[i - m]
  BY ConcatProperties
<1> HIDE DEF r, m, n
<1>2. \A i \in 1..m : r[i] = a[i]
  BY <1>1
<1>3. ASSUME NEW j \in 1..n PROVE r[m + j] = b[j]
  <2>1. m + j \in 1..(m + n) /\ ~(m + j <= m) /\ (m + j) - m = j
    BY <1>1
  <2> QED
    BY <1>1, <2>1
<1> QED
  BY <1>1, <1>2, <1>3 DEF r, m, n

\* A concatenation lists what its parts list, first the one and then the other.
LEMMA ConcatLists ==
    ASSUME NEW a \in Seq(Items), NEW b \in Seq(Items)
    PROVE  /\ ToSet(a \o b) = ToSet(a) \cup ToSet(b)
           /\ NoRepeats(a) /\ NoRepeats(b) /\ ToSet(a) \cap ToSet(b) = {} => NoRepeats(a \o b)
           /\ \A x, y : Before(a, x, y) \/ Before(b, x, y) => Before(a \o b, x, y)
           /\ \A x, y : x \in ToSet(a) /\ y \in ToSet(b) => Before(a \o b, x, y)
           /\ \A x, y : Before(a \o b, x, y) =>
                  Before(a, x, y) \/ Before(b, x, y) \/ (x \in ToSet(a) /\ y \in ToSet(b))
<1> DEFINE r == a \o b
           m == Len(a)
           n == Len(b)
<1>1. /\ m \in Nat /\ n \in Nat /\ DOMAIN a = 1..m /\ DOMAIN b = 1..n
      /\ r \in Seq(Items) /\ DOMAIN r = 1..(m + n)
      /\ \A i \in 1..(m + n) : r[i] = IF i <= m THEN a[i] ELSE b[i - m]
  BY ConcatProperties
<1> HIDE DEF r, m, n
<1>2. ASSUME NEW i \in DOMAIN a PROVE i \in DOMAIN r /\ r[i] = a[i] /\ i <= m
  BY <1>1
<1>3. ASSUME NEW j \in DOMAIN b PROVE m + j \in DOMAIN r /\ r[m + j] = b[j] /\ m + j > m
  <2>1. m + j \in 1..(m + n) /\ ~(m + j <= m) /\ (m + j) - m = j
    BY <1>1
  <2> QED
    BY <1>1, <2>1
<1>4. ASSUME NEW i \in DOMAIN r
      PROVE  \/ i \in DOMAIN a /\ r[i] = a[i] /\ i <= m
             \/ i - m \in DOMAIN b /\ r[i] = b[i - m] /\ i > m
  BY <1>1
<1>5. ToSet(r) = ToSet(a) \cup ToSet(b)
  BY <1>2, <1>3, <1>4 DEF ToSet
<1>6. ASSUME NoRepeats(a), NoRepeats(b), ToSet(a) \cap ToSet(b) = {} PROVE NoRepeats(r)
  <2> SUFFICES ASSUME NEW i \in DOMAIN r, NEW j \in DOMAIN r, r[i] = r[j] PROVE i = j
    BY DEF NoRepeats
  <2>1. i \in Int /\ j \in Int /\ m \in Int
    BY <1>1
  <2>2. CASE i \in DOMAIN a /\ r[i] = a[i] /\ j \in DOMAIN a /\ r[j] = a[j]
    BY <1>6, <2>2 DEF NoRepeats
  <2>3. CASE i - m \in DOMAIN b /\ r[i] = b[i - m] /\ j - m \in DOMAIN b /\ r[j] = b[j - m]
    <3>1. i - m = j - m
      BY <1>6, <2>3 DEF NoRepeats
    <3> QED
      BY <2>1, <3>1
  <2>4. ASSUME NEW k \in DOMAIN a, NEW l \in DOMAIN b PROVE a[k] # b[l]
    BY <1>6 DEF ToSet
  <2> QED
    BY <1>4, <2>2, <2>3, <2>4
<1>7. ASSUME NEW x, NEW y, Before(a, x, y) PROVE Before(r, x, y)
  BY <1>2, <1>7 DEF Before
<1>8. ASSUME NEW x, NEW y, Before(b, x, y) PROVE Before(r, x, y)
  <2>1. PICK i \in DOMAIN b, j \in DOMAIN b : i < j /\ b[i] = x /\ b[j] = y
    BY <1>8 DEF Before
  <2>2. m + i < m + j
    BY <1>1, <2>1
  <2> QED
    BY <1>3, <2>1, <2>2 DEF Before
<1>9. ASSUME NEW x, NEW y, x \in ToSet(a), y \in ToSet(b) PROVE Before(r, x, y)
  <2>1. PICK i \in DOMAIN a : a[i] = x
    BY <1>9 DEF ToSet
  <2>2. PICK j \in DOMAIN b : b[j] = y
    BY <1>9 DEF ToSet
  <2>3. i < m + j
    BY <1>1, <2>1, <2>2
  <2> QED
    BY <1>2, <1>3, <2>1, <2>2, <2>3 DEF Before
<1>10. ASSUME NEW x, NEW y, Before(r, x, y)
       PROVE  Before(a, x, y) \/ Before(b, x, y) \/ (x \in ToSet(a) /\ y \in ToSet(b))
  <2>1. PICK i \in DOMAIN r, j \in DOMAIN r : i < j /\ r[i] = x /\ r[j] = y
    BY <1>10 DEF Before
  <2>2. i \in Int /\ j \in Int /\ m \in Int
    BY <1>1
  <2>3. CASE i \in DOMAIN a /\ r[i] = a[i] /\ j \in DOMAIN a /\ r[j] = a[j]
    BY <2>1, <2>3 DEF Before
  <2>4. CASE i - m \in DOMAIN b /\ r[i] = b[i - m] /\ j - m \in DOMAIN b /\ r[j] = b[j - m]
    <3>1. i - m < j - m
      BY <2>1, <2>2
    <3> QED
      BY <2>1, <2>4, <3>1 DEF Before
  <2>5. CASE i \in DOMAIN a /\ r[i] = a[i] /\ j - m \in DOMAIN b /\ r[j] = b[j - m]
    BY <2>1, <2>5 DEF ToSet
  <2>6. ~(i > m /\ j <= m)
    <3>1. i < j
      BY <2>1
    <3> QED
      BY <2>2, <3>1
  <2> QED
    BY <1>4, <2>3, <2>4, <2>5, <2>6
<1> QED
  BY <1>5, <1>6, <1>7, <1>8, <1>9, <1>10 DEF r

\* A sequence falls into two parts at any position.
LEMMA TwoParts ==
    ASSUME NEW s \in Seq(Items), NEW i \in 0..Len(s), NoRepeats(s)
    PROVE  LET a == SubSeq(s, 1, i)
               b == SubSeq(s, i + 1, Len(s))
           IN  /\ a \in Seq(Items) /\ b \in Seq(Items) /\ s = a \o b
               /\ Len(a) = i /\ \A k \in 1..i : a[k] = s[k]
               /\ NoRepeats(a) /\ NoRepeats(b) /\ ToSet(a) \cap ToSet(b) = {}
<1> DEFINE a == SubSeq(s, 1, i)
           b == SubSeq(s, i + 1, Len(s))
<1>1. /\ i \in Nat /\ Len(s) \in Nat /\ i <= Len(s) /\ DOMAIN s = 1..Len(s)
      /\ \A k \in 1..Len(s) : s[k] \in Items
  OBVIOUS
<1>2. a \in Seq(Items) /\ Len(a) = i /\ \A k \in 1..i : a[k] = s[k]
  BY <1>1
<1>3. /\ b \in Seq(Items) /\ Len(b) = Len(s) - i
      /\ \A k \in 1..(Len(s) - i) : b[k] = s[k + i]
  <2>1. b \in Seq(Items)
    BY <1>1
  <2>2. Len(b) = Len(s) - i
    <3>0. i \in Nat /\ Len(s) \in Nat /\ i <= Len(s)
      BY <1>1
    <3>1. CASE i < Len(s)
      <4>1. (i + 1) \in Int /\ Len(s) \in Int /\ i + 1 <= Len(s) /\ Len(s) - (i + 1) + 1 = Len(s) - i
        BY <3>0, <3>1
      <4>2. \A k \in (i + 1)..Len(s) : s[k] \in Items
        BY <1>1
      <4> HIDE DEF b
      <4> DEFINE m == i + 1
                 n == Len(s)
      <4>3. m \in Int /\ n \in Int /\ m <= n /\ \A k \in m..n : s[k] \in Items
        BY <4>1, <4>2
      <4> HIDE DEF m, n
      <4>4. Len(SubSeq(s, m, n)) = n - m + 1
        BY <4>3, SubSeqProperties
      <4> QED
        BY <4>1, <4>4 DEF b, m, n
    <3>2. CASE i = Len(s)
      <4>1. b = <<>>
        BY <1>1, <3>2, SubSeqEmpty
      <4> QED
        BY <1>1, <3>2, <4>1
    <3> QED
      BY <3>0, <3>1, <3>2
  <2>3. ASSUME NEW k \in 1..(Len(s) - i) PROVE b[k] = s[k + i]
    BY <1>1
  <2> QED
    BY <2>1, <2>2, <2>3
<1> HIDE DEF a, b
<1>4. /\ a \o b \in Seq(Items) /\ Len(a \o b) = Len(s)
      /\ \A k \in 1..Len(s) : (a \o b)[k] = IF k <= i THEN a[k] ELSE b[k - i]
  <2>1. Len(a) + Len(b) = Len(s)
    <3>1. Len(a) = i /\ Len(b) = Len(s) - i
      BY <1>2, <1>3
    <3> QED
      BY <1>1, <3>1
  <2> QED
    BY <1>2, <1>3, <2>1, ConcatProperties
<1>5. \A k \in 1..Len(s) : (a \o b)[k] = s[k]
  <2> SUFFICES ASSUME NEW k \in 1..Len(s) PROVE (a \o b)[k] = s[k]
    OBVIOUS
  <2>1. CASE k <= i
    BY <1>2, <1>4, <2>1
  <2>2. CASE ~(k <= i)
    <3>1. k - i \in 1..(Len(s) - i) /\ (k - i) + i = k
      BY <1>1, <2>2
    <3>2. b[k - i] = s[(k - i) + i]
      BY <1>3, <3>1
    <3> QED
      BY <1>4, <2>2, <3>1, <3>2
  <2> QED
    BY <2>1, <2>2
<1>6. s = a \o b
  BY <1>4, <1>5, SeqEqual
<1>7. NoRepeats(a)
  <2> SUFFICES ASSUME NEW k \in DOMAIN a, NEW l \in DOMAIN a, a[k] = a[l] PROVE k = l
    BY DEF NoRepeats
  <2>1. k \in 1..i /\ l \in 1..i /\ k \in 1..Len(s) /\ l \in 1..Len(s)
    BY <1>1, <1>2
  <2> QED
    BY <1>1, <1>2, <2>1 DEF NoRepeats
<1>8. NoRepeats(b)
  <2> SUFFICES ASSUME NEW k \in DOMAIN b, NEW l \in DOMAIN b, b[k] = b[l] PROVE k = l
    BY DEF NoRepeats
  <2>1. /\ k \in 1..(Len(s) - i) /\ l \in 1..(Len(s) - i)
        /\ k + i \in 1..Len(s) /\ l + i \in 1..Len(s)
    BY <1>1, <1>3
  <2>2. k + i = l + i
    BY <1>1, <1>3, <2>1 DEF NoRepeats
  <2> QED
    BY <1>1, <2>1, <2>2
<1>9. ToSet(a) \cap ToSet(b) = {}
  <2> SUFFICES ASSUME NEW k \in DOMAIN a, NEW l \in DOMAIN b, a[k] = b[l] PROVE FALSE
    BY DEF ToSet
  <2>1. /\ k \in 1..i /\ l \in 1..(Len(s) - i)
        /\ k \in 1..Len(s) /\ l + i \in 1..Len(s) /\ k # l + i
    BY <1>1, <1>2, <1>3
  <2> QED
    BY <1>1, <1>2, <1>3, <2>1 DEF NoRepeats
<1> QED
  BY <1>2, <1>3, <1>6, <1>7, <1>8, <1>9 DEF a, b

\* Splicing adds the elements of t and leaves the others in their order.
LEMMA SpliceLists ==
    ASSUME NEW s \in Seq(Items), NEW t \in Seq(Items), NEW i \in 0..Len(s),
           NoRepeats(s), NoRepeats(t), ToSet(s) \cap ToSet(t) = {}
    PROVE  /\ NoRepeats(Splice(s, i, t))
           /\ ToSet(Splice(s, i, t)) = ToSet(s) \cup ToSet(t)
           /\ \A x, y : Before(s, x, y) => Before(Splice(s, i, t), x, y)
<1> DEFINE a == SubSeq(s, 1, i)
           b == SubSeq(s, i + 1, Len(s))
<1>1. /\ a \in Seq(Items) /\ b \in Seq(Items) /\ s = a \o b
      /\ NoRepeats(a) /\ NoRepeats(b) /\ ToSet(a) \cap ToSet(b) = {}
  BY TwoParts
<1>2. Splice(s, i, t) = (a \o t) \o b
  BY DEF Splice
<1> HIDE DEF a, b
<1>3. ToSet(s) = ToSet(a) \cup ToSet(b)
  BY <1>1, ConcatLists
<1>4. /\ a \o t \in Seq(Items) /\ NoRepeats(a \o t) /\ ToSet(a \o t) = ToSet(a) \cup ToSet(t)
      /\ \A x, y : Before(a, x, y) => Before(a \o t, x, y)
  BY <1>1, <1>3, ConcatLists, ConcatProperties
<1>5. /\ NoRepeats((a \o t) \o b) /\ ToSet((a \o t) \o b) = ToSet(s) \cup ToSet(t)
  BY <1>1, <1>3, <1>4, ConcatLists
<1>6. ASSUME NEW x, NEW y, Before(s, x, y) PROVE Before((a \o t) \o b, x, y)
  <2>1. Before(a, x, y) \/ Before(b, x, y) \/ (x \in ToSet(a) /\ y \in ToSet(b))
    BY <1>1, <1>6, ConcatLists
  <2>2. Before(a \o t, x, y) \/ Before(b, x, y) \/ (x \in ToSet(a \o t) /\ y \in ToSet(b))
    BY <1>4, <2>1
  <2> QED
    BY <1>1, <1>4, <2>2, ConcatLists
<1> QED
  BY <1>2, <1>5, <1>6

\* An order of a set of items lists each of them once.
LEMMA OrderLists ==
    ASSUME NEW S \in SUBSET Items, NEW s \in SetToSeqs(S)
    PROVE  s \in Seq(Items) /\ NoRepeats(s) /\ ToSet(s) = S
<1> DEFINE n == Cardinality(S)
<1>1. IsFiniteSet(S) /\ n \in Nat
  BY ItemsAssumption, FS_Subset, FS_CardinalityType
<1>2. s \in [1..n -> S] /\ \A i, j \in 1..n : i # j => s[i] # s[j]
  BY DEF SetToSeqs
<1>3. s \in Injection(1..n, S)
  BY <1>2 DEF Injection, IsInjective
<1>4. IsFiniteSet(1..n) /\ Cardinality(1..n) = n
  BY <1>1, FS_Interval
<1>5. \A x \in S : \E i \in 1..n : s[i] = x
  <2>1. s \in Surjection(1..n, S)
    BY <1>1, <1>3, <1>4, FS_Injection
  <2> QED
    BY <2>1 DEF Surjection
<1>6. ToSet(s) = S /\ NoRepeats(s)
  BY <1>2, <1>5 DEF ToSet, NoRepeats
<1> QED
  BY <1>6, OrderType

\* What one request brings is new and has no repeats.
LEMMA BatchLists ==
    ASSUME NEW used, NEW items \in Batches(used)
    PROVE  items \in Seq(Items) /\ NoRepeats(items) /\ ToSet(items) \cap used = {}
<1>1. PICK new \in SUBSET (Items \ used) : items \in SetToSeqs(new)
  BY DEF Batches
<1> QED
  BY <1>1, OrderLists

\* Position finds what is there, and only that.
LEMMA PositionFinds ==
    ASSUME NEW s \in Seq(Items), NEW x
    PROVE  /\ x \in ToSet(s) => /\ Position(s, x) \in 0..(Len(s) - 1)
                                /\ s[Position(s, x) + 1] = x
           /\ x \notin ToSet(s) => Position(s, x) = -1
<1>1. CASE x \in ToSet(s)
  <2> DEFINE T == {i \in DOMAIN s : s[i] = x}
  <2>1. T \in SUBSET Nat /\ T # {}
    BY <1>1 DEF ToSet
  <2>2. PICK i \in T : \A j \in T : i <= j
    <3> HIDE DEF T
    <3> QED
      BY <2>1, LeastElement
  <2>3. i \in DOMAIN s /\ s[i] = x /\ \A j \in 1..(i-1) : s[j] # x
    BY <2>2
  <2> DEFINE p == CHOOSE j \in DOMAIN s : s[j] = x /\ \A l \in 1..(j-1) : s[l] # x
  <2>4. p \in DOMAIN s /\ s[p] = x
    BY <2>3
  <2>5. Position(s, x) = p - 1
    BY <2>3 DEF Position
  <2>6. p \in 1..Len(s)
    BY <2>4
  <2> HIDE DEF p
  <2>7. Position(s, x) \in 0..(Len(s) - 1) /\ Position(s, x) + 1 = p
    BY <2>5, <2>6
  <2> QED
    BY <1>1, <2>4, <2>7
<1>2. CASE x \notin ToSet(s)
  BY <1>2 DEF Position, ToSet
<1> QED
  BY <1>1, <1>2

-----------------------------------------------------------------------------
(* What the methods of the queue keep *)

\* The two orders of a queue list the same occurrences, each once.
Consistent(q) ==
    /\ NoRepeats(q.playlist)
    /\ (q.shuffle = "Shuffle") <=> (q.sorted # NoOrder)
    /\ q.sorted # NoOrder =>
         /\ NoRepeats(q.sorted)
         /\ ToSet(q.sorted) = ToSet(q.playlist)

\* What r still has of the sorted order of q has the order that it had.
KeepsOrder(q, r) ==
    q.sorted # NoOrder /\ r.sorted # NoOrder =>
        \A x, y \in ToSet(r.playlist) : Before(q.sorted, x, y) => Before(r.sorted, x, y)

\* What plays in q plays in r or is gone, and nothing starts.
KeepsPlaying(q, r) ==
    IF IsItemPlaying(q)
    THEN PlayingItem(q) \in {Nil, PlayingItem(r)} \/ PlayingItem(q) \notin ToSet(r.playlist)
    ELSE ~IsItemPlaying(r)

Keeps(q, r) == Consistent(r) /\ KeepsOrder(q, r) /\ KeepsPlaying(q, r)

\* What is queued in q is queued in r.
LosesNothing(q, r) == ToSet(q.playlist) \subseteq ToSet(r.playlist)

\* The playing item, when there is one, is an element of the playlist.
LEMMA PlayingIsQueued ==
    ASSUME NEW q \in Queues
    PROVE  /\ PlayingItem(q) # Nil => PlayingItem(q) \in ToSet(q.playlist) /\ PlayingItem(q) \in Items
           /\ PlayingItem(q) # Nil <=> q.index \in 0..(Len(q.playlist) - 1)
           /\ ~IsItemPlaying(q) => PlayingItem(q) = Nil
<1>1. q.playlist \in Seq(Items) /\ q.index \in Nat \cup {-1} /\ \A i \in DOMAIN q.playlist : q.playlist[i] \in Items
  BY QueueFields
<1>2. q.index \in 0..(Len(q.playlist) - 1) => q.index + 1 \in DOMAIN q.playlist
  BY <1>1
<1> QED
  BY <1>1, <1>2, NilAssumption DEF PlayingItem, IsItemPlaying, ToSet

\* A queue whose index is the position of what played, in a new order, keeps it playing.
LEMMA FoundAgain ==
    ASSUME NEW q \in Queues, NEW r, r.playlist \in Seq(Items), r.index = Position(r.playlist, PlayingItem(q))
    PROVE  KeepsPlaying(q, r)
<1> DEFINE p == PlayingItem(q)
           s == r.playlist
<1>1. CASE p \in ToSet(s)
  <2>1. Position(s, p) \in 0..(Len(s) - 1) /\ s[Position(s, p) + 1] = p
    BY <1>1, PositionFinds
  <2>2. PlayingItem(r) = p
    BY <2>1 DEF PlayingItem
  <2>3. p # Nil
    BY <1>1, NilAssumption DEF ToSet
  <2> QED
    BY <2>2, <2>3, PlayingIsQueued DEF KeepsPlaying
<1>2. CASE p \notin ToSet(s)
  BY <1>2, PositionFinds DEF KeepsPlaying, IsItemPlaying
<1> QED
  BY <1>1, <1>2

\* queue
LEMMA AddLastKeeps ==
    ASSUME NEW q \in Queues, Consistent(q), NEW items \in Seq(Items), NoRepeats(items),
           ToSet(items) \cap ToSet(q.playlist) = {}
    PROVE  Keeps(q, AddLast(q, items)) /\ LosesNothing(q, AddLast(q, items))
<1> DEFINE r == AddLast(q, items)
<1>1. /\ r.playlist = q.playlist \o items /\ r.sorted = SortedBy(q, q.sorted \o items)
      /\ r.index = q.index /\ r.shuffle = q.shuffle
  BY DEF AddLast, Queues
<1>2. /\ q.playlist \in Seq(Items) /\ q.index \in Nat \cup {-1}
      /\ q.sorted # NoOrder => q.sorted \in Seq(Items)
  BY QueueFields
<1> HIDE DEF r
<1>3. NoRepeats(r.playlist) /\ ToSet(r.playlist) = ToSet(q.playlist) \cup ToSet(items)
  BY <1>1, <1>2, ConcatLists DEF Consistent
<1>4. ASSUME q.sorted # NoOrder
      PROVE  /\ r.sorted = q.sorted \o items /\ r.sorted # NoOrder /\ NoRepeats(r.sorted)
             /\ ToSet(r.sorted) = ToSet(q.sorted) \cup ToSet(items)
             /\ \A x, y : Before(q.sorted, x, y) => Before(r.sorted, x, y)
  <2>1. q.sorted \in Seq(Items) /\ NoRepeats(q.sorted) /\ ToSet(q.sorted) \cap ToSet(items) = {}
    BY <1>2, <1>4 DEF Consistent
  <2>2. r.sorted = q.sorted \o items /\ q.sorted \o items \in Seq(Items)
    BY <1>1, <1>4, <2>1 DEF SortedBy
  <2>3. /\ NoRepeats(r.sorted) /\ ToSet(r.sorted) = ToSet(q.sorted) \cup ToSet(items)
        /\ \A x, y : Before(q.sorted, x, y) => Before(r.sorted, x, y)
    BY <2>1, <2>2, ConcatLists
  <2> QED
    BY <2>2, <2>3, NoOrderAssumption
<1>5. Consistent(r) /\ KeepsOrder(q, r)
  BY <1>1, <1>3, <1>4 DEF Consistent, KeepsOrder, SortedBy
<1>6. KeepsPlaying(q, r)
  <2>1. q.index \in 0..(Len(q.playlist) - 1) =>
          r.index \in 0..(Len(r.playlist) - 1) /\ r.playlist[r.index + 1] = q.playlist[q.index + 1]
    BY <1>1, <1>2, ConcatProperties
  <2> QED
    BY <1>1, <2>1 DEF KeepsPlaying, PlayingItem, IsItemPlaying
<1> QED
  BY <1>3, <1>5, <1>6 DEF Keeps, LosesNothing, r

\* queue_next
LEMMA AddNextKeeps ==
    ASSUME NEW q \in Queues, Consistent(q), NEW items \in Seq(Items), NoRepeats(items),
           ToSet(items) \cap ToSet(q.playlist) = {}
    PROVE  Keeps(q, AddNext(q, items)) /\ LosesNothing(q, AddNext(q, items))
<1> DEFINE r == AddNext(q, items)
           into == Lesser(q.index + 1, Len(q.playlist))
           after == Position(q.sorted, PlayingItem(q)) + 1
<1>1. /\ r.playlist = Splice(q.playlist, into, items)
      /\ r.sorted = SortedBy(q, Splice(q.sorted, after, items))
      /\ r.index = q.index /\ r.shuffle = q.shuffle
  BY DEF AddNext, Queues
<1>2. /\ q.playlist \in Seq(Items) /\ q.index \in Nat \cup {-1}
      /\ q.sorted # NoOrder => q.sorted \in Seq(Items)
  BY QueueFields
<1>3. into \in 0..Len(q.playlist) /\ (q.index < Len(q.playlist) => into = q.index + 1)
  BY <1>2 DEF Lesser
<1> HIDE DEF r, into, after
<1>4. NoRepeats(r.playlist) /\ ToSet(r.playlist) = ToSet(q.playlist) \cup ToSet(items)
  BY <1>1, <1>2, <1>3, SpliceLists DEF Consistent
<1>5. ASSUME q.sorted # NoOrder
      PROVE  /\ r.sorted # NoOrder /\ NoRepeats(r.sorted)
             /\ ToSet(r.sorted) = ToSet(q.sorted) \cup ToSet(items)
             /\ \A x, y : Before(q.sorted, x, y) => Before(r.sorted, x, y)
  <2>1. q.sorted \in Seq(Items) /\ NoRepeats(q.sorted) /\ ToSet(q.sorted) \cap ToSet(items) = {}
    BY <1>2, <1>5 DEF Consistent
  <2>2. after \in 0..Len(q.sorted)
    <3>1. Position(q.sorted, PlayingItem(q)) \in -1..(Len(q.sorted) - 1)
      BY <2>1, PositionType
    <3> QED
      BY <2>1, <3>1 DEF after
  <2>3. r.sorted = Splice(q.sorted, after, items) /\ Splice(q.sorted, after, items) \in Seq(Items)
    BY <1>1, <1>5, <2>1, <2>2, SpliceType DEF SortedBy
  <2>4. /\ NoRepeats(r.sorted) /\ ToSet(r.sorted) = ToSet(q.sorted) \cup ToSet(items)
        /\ \A x, y : Before(q.sorted, x, y) => Before(r.sorted, x, y)
    BY <2>1, <2>2, <2>3, SpliceLists
  <2> QED
    BY <2>3, <2>4, NoOrderAssumption
<1>6. Consistent(r) /\ KeepsOrder(q, r)
  BY <1>1, <1>4, <1>5 DEF Consistent, KeepsOrder, SortedBy
<1>7. KeepsPlaying(q, r)
  <2>1. ASSUME q.index \in 0..(Len(q.playlist) - 1)
        PROVE  r.index \in 0..(Len(r.playlist) - 1) /\ r.playlist[r.index + 1] = q.playlist[q.index + 1]
    <3>1. into = q.index + 1 /\ into \in 1..Len(q.playlist)
      BY <1>2, <1>3, <2>1
    <3> DEFINE a == SubSeq(q.playlist, 1, into)
               b == SubSeq(q.playlist, into + 1, Len(q.playlist))
    <3>2. /\ a \in Seq(Items) /\ b \in Seq(Items) /\ Len(a) = into
          /\ \A k \in 1..into : a[k] = q.playlist[k]
      BY <1>2, <1>3, TwoParts DEF Consistent
    <3>3. r.playlist = (a \o items) \o b
      BY <1>1 DEF Splice
    <3> HIDE DEF a, b
    <3>4. /\ a \o items \in Seq(Items) /\ Len(a \o items) = into + Len(items) /\ Len(items) \in Nat
          /\ (a \o items)[into] = a[into]
      <4>1. into \in 1..Len(a)
        BY <3>1, <3>2
      <4> QED
        BY <3>2, <4>1, ConcatElements
    <3>5. Len(b) \in Nat /\ into \in Nat
      BY <3>1, <3>2
    <3>6. Len(r.playlist) = (into + Len(items)) + Len(b) /\ r.playlist[into] = (a \o items)[into]
      <4>1. into \in 1..Len(a \o items)
        BY <3>4, <3>5, <3>1
      <4> DEFINE c == a \o items
      <4>2. c \in Seq(Items) /\ into \in 1..Len(c) /\ r.playlist = c \o b /\ Len(c) = into + Len(items)
        BY <3>3, <3>4, <4>1
      <4> HIDE DEF c
      <4>3. Len(c \o b) = Len(c) + Len(b) /\ (c \o b)[into] = c[into]
        BY <3>2, <4>2, ConcatElements
      <4> QED
        BY <4>2, <4>3 DEF c
    <3>7. r.index + 1 = into /\ r.playlist[into] = q.playlist[into]
      <4>1. into \in 1..into /\ q.index + 1 = into
        BY <3>1, <3>5
      <4> QED
        BY <1>1, <3>2, <3>4, <3>6, <4>1
    <3>8. into - 1 \in 0..(Len(r.playlist) - 1) /\ q.index = into - 1
      <4>1. into >= 1 /\ q.index = into - 1
        BY <1>2, <3>1
      <4>2. Len(r.playlist) \in Nat /\ into <= Len(r.playlist)
        BY <3>4, <3>5, <3>6
      <4> QED
        BY <3>5, <4>1, <4>2
    <3> QED
      BY <1>1, <3>1, <3>7, <3>8
  <2> QED
    BY <1>1, <2>1 DEF KeepsPlaying, PlayingItem, IsItemPlaying
<1> QED
  BY <1>4, <1>6, <1>7 DEF Keeps, LosesNothing, r

\* A sequence of one or no item has no repeats, and nothing is before anything.
LEMMA ShortLists ==
    ASSUME NEW x \in Items
    PROVE  /\ <<>> \in Seq(Items) /\ NoRepeats(<<>>) /\ ToSet(<<>>) = {}
           /\ <<x>> \in Seq(Items) /\ NoRepeats(<<x>>) /\ ToSet(<<x>>) = {x}
BY DEF NoRepeats, ToSet

\* A set of one element puts nothing before anything.
LEMMA OneIsNotBefore ==
    ASSUME NEW s \in Seq(Items), NoRepeats(s), NEW x, NEW y, Before(s, x, y)
    PROVE  x # y
<1>1. PICK i \in DOMAIN s, j \in DOMAIN s : i < j /\ s[i] = x /\ s[j] = y
  BY DEF Before
<1> QED
  BY <1>1 DEF NoRepeats

\* clear_playlist
LEMMA ClearPlaylistKeeps ==
    ASSUME NEW q \in Queues, Consistent(q), NEW clearPlaying \in BOOLEAN
    PROVE  Keeps(q, ClearPlaylist(q, clearPlaying))
<1> DEFINE r == ClearPlaylist(q, clearPlaying)
           kept == IF clearPlaying \/ PlayingItem(q) = Nil THEN <<>> ELSE <<PlayingItem(q)>>
<1>1. /\ r.playlist = kept /\ r.sorted = SortedBy(q, kept) /\ r.index = Len(kept) - 1
      /\ r.shuffle = q.shuffle
  BY DEF ClearPlaylist, Queues
<1>2. /\ kept \in Seq(Items) /\ NoRepeats(kept)
      /\ \/ kept = <<>> /\ (clearPlaying \/ PlayingItem(q) = Nil)
         \/ kept = <<PlayingItem(q)>> /\ PlayingItem(q) \in Items
  BY QueueFields DEF NoRepeats
<1> HIDE DEF kept, r
<1>3. \A x, y \in ToSet(kept) : x = y
  BY <1>2 DEF ToSet
<1>4. Consistent(r)
  BY <1>1, <1>2, NoOrderAssumption DEF Consistent, SortedBy
<1>5. KeepsOrder(q, r)
  <2>1. q.sorted # NoOrder => q.sorted \in Seq(Items) /\ NoRepeats(q.sorted)
    BY QueueFields DEF Consistent
  <2> QED
    BY <1>1, <1>3, <2>1, OneIsNotBefore DEF KeepsOrder
<1>6. KeepsPlaying(q, r)
  <2>1. CASE kept = <<>> /\ (clearPlaying \/ PlayingItem(q) = Nil)
    BY <1>1, <2>1 DEF KeepsPlaying, IsItemPlaying, ToSet
  <2>2. CASE kept = <<PlayingItem(q)>> /\ PlayingItem(q) \in Items
    <3>1. PlayingItem(r) = PlayingItem(q)
      BY <1>1, <2>2 DEF PlayingItem
    <3> QED
      BY <2>2, <3>1, PlayingIsQueued, NilAssumption DEF KeepsPlaying
  <2> QED
    BY <1>2, <2>1, <2>2
<1> QED
  BY <1>4, <1>5, <1>6 DEF Keeps, r

\* remove_from_playlist
LEMMA RemoveItemsKeeps ==
    ASSUME NEW q \in Queues, Consistent(q), NEW ids \in SUBSET Items
    PROVE  Keeps(q, RemoveItems(q, ids))
<1> DEFINE r == RemoveItems(q, ids)
           left == Retain(q.playlist, Items \ ids)
           back == q.index - 1
           index == CASE PlayingItem(q) = Nil -> q.index
                      [] RemovesPlaying(q, ids) ->
                           IF back >= 0 THEN back ELSE IF left = <<>> THEN -1 ELSE 0
                      [] OTHER -> Position(left, PlayingItem(q))
<1>1. /\ r.playlist = left /\ r.sorted = SortedBy(q, Retain(q.sorted, Items \ ids))
      /\ r.index = index /\ r.shuffle = q.shuffle
  BY DEF RemoveItems, Queues
<1>2. q.playlist \in Seq(Items) /\ (q.sorted # NoOrder => q.sorted \in Seq(Items))
  BY QueueFields
<1>3. left \in Seq(Items) /\ NoRepeats(left) /\ ToSet(left) = ToSet(q.playlist) \cap (Items \ ids)
  BY <1>2, RetainLists, RetainType DEF Consistent
<1>4. /\ PlayingItem(q) = Nil => index = q.index
      /\ PlayingItem(q) # Nil /\ PlayingItem(q) \notin ids => index = Position(left, PlayingItem(q))
  BY DEF RemovesPlaying
<1> HIDE DEF left, index, r
<1>5. ASSUME q.sorted # NoOrder
      PROVE  /\ r.sorted # NoOrder /\ NoRepeats(r.sorted)
             /\ ToSet(r.sorted) = ToSet(q.sorted) \cap (Items \ ids)
             /\ \A x, y \in Items \ ids : Before(q.sorted, x, y) => Before(r.sorted, x, y)
  <2>1. q.sorted \in Seq(Items) /\ NoRepeats(q.sorted)
    BY <1>2, <1>5 DEF Consistent
  <2>2. r.sorted = Retain(q.sorted, Items \ ids) /\ Retain(q.sorted, Items \ ids) \in Seq(Items)
    BY <1>1, <1>5, <2>1, RetainType DEF SortedBy
  <2> DEFINE rest == Retain(q.sorted, Items \ ids)
  <2>3. /\ NoRepeats(rest)
        /\ ToSet(rest) = ToSet(q.sorted) \cap (Items \ ids)
        /\ \A x, y \in Items \ ids : Before(q.sorted, x, y) => Before(rest, x, y)
    BY ONLY <2>1, RetainLists
  <2>4. r.sorted = rest /\ rest # NoOrder
    BY <2>2, NoOrderAssumption
  <2> HIDE DEF rest
  <2> QED
    BY <2>3, <2>4
<1>6. Consistent(r)
  BY <1>1, <1>3, <1>5 DEF Consistent, SortedBy
<1>7. KeepsOrder(q, r)
  BY <1>1, <1>3, <1>5 DEF KeepsOrder
<1>8. KeepsPlaying(q, r)
  <2>1. CASE PlayingItem(q) = Nil
    BY <1>1, <1>4, <2>1 DEF KeepsPlaying, IsItemPlaying
  <2>2. CASE PlayingItem(q) # Nil /\ PlayingItem(q) \in ids
    BY <1>1, <1>3, <2>2, PlayingIsQueued DEF KeepsPlaying
  <2>3. CASE PlayingItem(q) # Nil /\ PlayingItem(q) \notin ids
    BY <1>1, <1>3, <1>4, <2>3, FoundAgain
  <2> QED
    BY <2>1, <2>2, <2>3
<1> QED
  BY <1>6, <1>7, <1>8 DEF Keeps, r

\* move_playlist_item
LEMMA MoveItemKeeps ==
    ASSUME NEW q \in Queues, Consistent(q), NEW item \in ToSet(q.playlist), NEW i \in Int
    PROVE  Keeps(q, MoveItem(q, item, i)) /\ LosesNothing(q, MoveItem(q, item, i))
<1> DEFINE r == MoveItem(q, item, i)
           rest == Retain(q.playlist, Items \ {item})
           into == Lesser(IF i >= 0 THEN i ELSE 0, Len(rest))
           moved == Splice(rest, into, <<item>>)
<1>1. /\ r.playlist = moved /\ r.sorted = q.sorted /\ r.index = Position(moved, PlayingItem(q))
      /\ r.shuffle = q.shuffle
  BY DEF MoveItem, Queues
<1>2. q.playlist \in Seq(Items) /\ item \in Items
  BY QueueFields
<1>3. rest \in Seq(Items) /\ NoRepeats(rest) /\ ToSet(rest) = ToSet(q.playlist) \cap (Items \ {item})
  BY <1>2, RetainLists, RetainType DEF Consistent
<1>4. into \in 0..Len(rest)
  <2> HIDE DEF rest
  <2> QED
    BY <1>3 DEF Lesser
<1> HIDE DEF rest, into
<1>5. moved \in Seq(Items) /\ NoRepeats(moved) /\ ToSet(moved) = ToSet(rest) \cup {item}
  <2>1. <<item>> \in Seq(Items) /\ NoRepeats(<<item>>) /\ ToSet(<<item>>) = {item}
    BY <1>2, ShortLists
  <2>2. ToSet(rest) \cap ToSet(<<item>>) = {}
    BY <1>3, <2>1
  <2> QED
    BY <1>3, <1>4, <2>1, <2>2, SpliceLists, SpliceType
<1> HIDE DEF moved, r
<1>6. ToSet(moved) = ToSet(q.playlist)
  <2>1. ToSet(q.playlist) \subseteq Items
    BY QueueFields
  <2> QED
    BY <1>3, <1>5, <2>1
<1>7. Consistent(r) /\ KeepsOrder(q, r)
  BY <1>1, <1>5, <1>6 DEF Consistent, KeepsOrder
<1>8. KeepsPlaying(q, r)
  BY <1>1, <1>5, FoundAgain
<1> QED
  BY <1>1, <1>6, <1>7, <1>8 DEF Keeps, LosesNothing, r

\* set_repeat_mode
LEMMA SetRepeatModeKeeps ==
    ASSUME NEW q \in Queues, Consistent(q), NEW mode
    PROVE  Keeps(q, SetRepeatMode(q, mode)) /\ LosesNothing(q, SetRepeatMode(q, mode))
<1> DEFINE r == SetRepeatMode(q, mode)
<1>1. /\ r.playlist = q.playlist /\ r.sorted = q.sorted /\ r.index = q.index
      /\ r.shuffle = q.shuffle
  BY DEF SetRepeatMode, Queues
<1> HIDE DEF r
<1>2. Consistent(r) /\ KeepsOrder(q, r)
  BY <1>1 DEF Consistent, KeepsOrder
<1>3. KeepsPlaying(q, r)
  BY <1>1 DEF KeepsPlaying, PlayingItem, IsItemPlaying
<1> QED
  BY <1>1, <1>2, <1>3 DEF Keeps, LosesNothing, r

\* shuffle_playlist, whatever order it gives.
LEMMA ShuffledKeeps ==
    ASSUME NEW q \in Queues, Consistent(q), NEW r \in Shuffled(q)
    PROVE  /\ Keeps(q, r) /\ LosesNothing(q, r) /\ r.shuffle = "Shuffle"
           /\ q.sorted = NoOrder => r.sorted = q.playlist
<1> DEFINE first == IF PlayingItem(q) = Nil THEN <<>> ELSE <<PlayingItem(q)>>
           sorted == IF q.sorted = NoOrder THEN q.playlist ELSE q.sorted
<1>1. PICK others \in SetToSeqs(ToSet(q.playlist) \ ToSet(first)) :
          r = [q EXCEPT !.playlist = first \o others, !.sorted = sorted,
                        !.index = IF first = <<>> THEN @ ELSE 0, !.shuffle = "Shuffle"]
  BY DEF Shuffled
<1>2. /\ r.playlist = first \o others /\ r.sorted = sorted /\ r.shuffle = "Shuffle"
      /\ r.index = IF first = <<>> THEN q.index ELSE 0
  BY <1>1 DEF Queues
<1>3. /\ q.playlist \in Seq(Items) /\ (q.sorted # NoOrder => q.sorted \in Seq(Items))
      /\ ToSet(q.playlist) \in SUBSET Items
      /\ PlayingItem(q) # Nil => PlayingItem(q) \in ToSet(q.playlist) /\ PlayingItem(q) \in Items
  BY QueueFields, PlayingIsQueued
<1>4. /\ first \in Seq(Items) /\ NoRepeats(first) /\ ToSet(first) \subseteq ToSet(q.playlist)
      /\ \/ PlayingItem(q) = Nil /\ first = <<>>
         \/ PlayingItem(q) # Nil /\ first = <<PlayingItem(q)>> /\ first # <<>>
  BY <1>3 DEF NoRepeats, ToSet
<1> HIDE DEF first
<1>5. others \in Seq(Items) /\ NoRepeats(others) /\ ToSet(others) = ToSet(q.playlist) \ ToSet(first)
  BY <1>3, OrderLists
<1>6. NoRepeats(r.playlist) /\ ToSet(r.playlist) = ToSet(q.playlist)
  <2>1. /\ ToSet(first) \cap ToSet(others) = {}
        /\ ToSet(first) \cup ToSet(others) = ToSet(q.playlist)
    BY <1>4, <1>5
  <2>2. ToSet(first \o others) = ToSet(first) \cup ToSet(others)
    BY <1>4, <1>5, ConcatLists
  <2>3. NoRepeats(first \o others)
    BY <1>4, <1>5, <2>1, ConcatLists
  <2> QED
    BY <1>2, <2>1, <2>2, <2>3
<1>7. Consistent(r) /\ KeepsOrder(q, r)
  <2>1. r.sorted # NoOrder
    BY <1>2, <1>3, NoOrderAssumption
  <2> QED
    BY <1>2, <1>6, <2>1 DEF Consistent, KeepsOrder
<1>8. KeepsPlaying(q, r)
  <2>1. CASE PlayingItem(q) = Nil
    BY <1>2, <1>4, <2>1 DEF KeepsPlaying, IsItemPlaying
  <2>2. CASE PlayingItem(q) # Nil
    <3>1. Len(first) = 1 /\ first[1] = PlayingItem(q) /\ r.index = 0
      BY <1>2, <1>4, <2>2
    <3>2. Len(r.playlist) \in Nat \ {0} /\ r.playlist[1] = first[1]
      <4>1. /\ Len(first \o others) = Len(first) + Len(others) /\ Len(others) \in Nat
            /\ \A k \in 1..Len(first) : (first \o others)[k] = first[k]
        BY <1>4, <1>5, ConcatElements
      <4> QED
        BY <1>2, <3>1, <4>1
    <3>3. PlayingItem(r) = PlayingItem(q)
      BY <3>1, <3>2 DEF PlayingItem
    <3> QED
      BY <2>2, <3>3, PlayingIsQueued DEF KeepsPlaying
  <2> QED
    BY <2>1, <2>2
<1>9. q.sorted = NoOrder => r.sorted = q.playlist
  BY <1>2
<1> QED
  BY <1>2, <1>6, <1>7, <1>8, <1>9 DEF Keeps, LosesNothing

\* restore_sorted_playlist brings the sorted order back, all of it and nothing else.
LEMMA RestoredIsSorted ==
    ASSUME NEW q \in Queues, Consistent(q), NEW r \in Restored(q)
    PROVE  /\ r = [q EXCEPT !.playlist = r.playlist, !.sorted = NoOrder,
                           !.index = Position(r.playlist, PlayingItem(q)), !.shuffle = "Sorted"]
           /\ r.playlist = IF q.sorted = NoOrder THEN q.playlist ELSE q.sorted
<1> DEFINE orders == IF q.sorted = NoOrder THEN {q.playlist}
                     ELSE {Retain(q.sorted, ToSet(q.playlist)) \o others :
                              others \in SetToSeqs(ToSet(q.playlist) \ ToSet(q.sorted))}
<1>1. PICK order \in orders :
          r = [q EXCEPT !.playlist = order, !.sorted = NoOrder,
                        !.index = Position(order, PlayingItem(q)), !.shuffle = "Sorted"]
  BY DEF Restored
<1>2. r.playlist = order
  BY <1>1 DEF Queues
<1>3. CASE q.sorted = NoOrder
  BY <1>1, <1>2, <1>3
<1>4. CASE q.sorted # NoOrder
  <2> DEFINE kept == Retain(q.sorted, ToSet(q.playlist))
  <2>1. PICK others \in SetToSeqs(ToSet(q.playlist) \ ToSet(q.sorted)) : order = kept \o others
    BY <1>4
  <2>2. /\ q.sorted \in Seq(Items) /\ NoRepeats(q.sorted) /\ ToSet(q.sorted) = ToSet(q.playlist)
        /\ {} \in SUBSET Items
    BY <1>4, QueueFields DEF Consistent
  <2>3. others \in Seq(Items) /\ ToSet(others) = {}
    <3>1. others \in SetToSeqs({})
      BY <2>1, <2>2
    <3> QED
      BY <2>2, <3>1, OrderLists
  <2>4. others = <<>>
    BY <2>3 DEF ToSet
  <2>5. kept = q.sorted
    <3>1. kept \in Seq(Items) /\ NoRepeats(kept) /\ ToSet(kept) = ToSet(q.sorted)
      BY <2>2, RetainType, RetainLists
    <3>2. ASSUME NEW x, NEW y, Before(q.sorted, x, y) PROVE Before(kept, x, y)
      <4>1. x \in ToSet(q.playlist) /\ y \in ToSet(q.playlist)
        BY <2>2, <3>2 DEF Before, ToSet
      <4> QED
        BY <2>2, <3>2, <4>1, RetainLists
    <3> HIDE DEF kept
    <3> QED
      BY <2>2, <3>1, <3>2, SameOrder
  <2>6. order = q.sorted
    BY <2>1, <2>2, <2>4, <2>5, ConcatEmptySeq
  <2> QED
    BY <1>1, <1>2, <1>4, <2>6
<1> QED
  BY <1>3, <1>4

\* restore_sorted_playlist
LEMMA RestoredKeeps ==
    ASSUME NEW q \in Queues, Consistent(q), NEW r \in Restored(q)
    PROVE  Keeps(q, r) /\ LosesNothing(q, r)
<1>1. /\ r = [q EXCEPT !.playlist = r.playlist, !.sorted = NoOrder,
                       !.index = Position(r.playlist, PlayingItem(q)), !.shuffle = "Sorted"]
      /\ r.playlist = IF q.sorted = NoOrder THEN q.playlist ELSE q.sorted
  BY RestoredIsSorted
<1>2. /\ r.sorted = NoOrder /\ r.shuffle = "Sorted"
      /\ r.index = Position(r.playlist, PlayingItem(q))
  BY <1>1 DEF Queues
<1>3. r.playlist \in Seq(Items) /\ NoRepeats(r.playlist)
  BY <1>1, QueueFields DEF Consistent
<1>4. Consistent(r) /\ KeepsOrder(q, r)
  BY <1>2, <1>3 DEF Consistent, KeepsOrder
<1>5. KeepsPlaying(q, r)
  BY <1>2, <1>3, FoundAgain
<1> QED
  BY <1>1, <1>4, <1>5 DEF Keeps, LosesNothing, Consistent

\* What only moves the index keeps the orders.
LEMMA IndexKeeps ==
    ASSUME NEW q \in Queues, Consistent(q), NEW i
    PROVE  /\ Consistent([q EXCEPT !.index = i]) /\ KeepsOrder(q, [q EXCEPT !.index = i])
           /\ [q EXCEPT !.index = i].shuffle = q.shuffle
<1> DEFINE r == [q EXCEPT !.index = i]
<1>1. r.playlist = q.playlist /\ r.sorted = q.sorted /\ r.shuffle = q.shuffle
  BY DEF Queues
<1> HIDE DEF r
<1>2. Consistent(r) /\ KeepsOrder(q, r)
  BY <1>1 DEF Consistent, KeepsOrder
<1> QED
  BY <1>1, <1>2 DEF r

\* next and previous move the index.
LEMMA NavigationKeeps ==
    ASSUME NEW q \in Queues, Consistent(q), NEW r \in {NextItem(q).queue, PreviousItem(q).queue}
    PROVE  Consistent(r) /\ KeepsOrder(q, r) /\ r.shuffle = q.shuffle
<1>1. \E i : NextItem(q).queue = [q EXCEPT !.index = i]
  <2>1. PICK i, ok : NextItem(q) = At(q, i, ok)
    BY Zenon DEF NextItem
  <2>2. At(q, i, ok).queue = [q EXCEPT !.index = i]
    BY DEF At
  <2>3. NextItem(q).queue = [q EXCEPT !.index = i]
    BY <2>1, <2>2, Zenon
  <2> QED
    BY <2>3, Zenon
<1>2. \E i : PreviousItem(q).queue = [q EXCEPT !.index = i]
  <2>1. PICK i, ok : PreviousItem(q) = At(q, i, ok)
    BY Zenon DEF PreviousItem
  <2>2. At(q, i, ok).queue = [q EXCEPT !.index = i]
    BY DEF At
  <2>3. PreviousItem(q).queue = [q EXCEPT !.index = i]
    BY <2>1, <2>2, Zenon
  <2> QED
    BY <2>3, Zenon
<1>3. PICK i : r = [q EXCEPT !.index = i]
  BY <1>1, <1>2
<1> QED
  BY <1>3, IndexKeeps, Zenon

\* set_playlist
LEMMA SetPlaylistConsistent ==
    ASSUME NEW items \in Seq(Items), NoRepeats(items), NEW i
    PROVE  Consistent(SetPlaylist(items, i)) /\ SetPlaylist(items, i).shuffle = "Sorted"
BY DEF SetPlaylist, NewQueue, Consistent

\* The three requests that select what plays leave a consistent queue.
LEMMA SelectConsistent ==
    ASSUME NEW q \in Queues, Consistent(q), NEW item
    PROVE  Consistent(SetPlayingItem(q, item))
BY IndexKeeps DEF SetPlayingItem

\* A refused step leaves what is playing.
LEMMA RefusedStays ==
    ASSUME NEW q \in Queues, PlayingItem(q) # Nil, NEW to \in {NextItem(q), PreviousItem(q)}, ~to.ok
    PROVE  PlayingItem(to.queue) = PlayingItem(q)
<1>1. /\ q.playlist \in Seq(Items) /\ Len(q.playlist) \in Nat /\ q.index \in Int
      /\ q.index \in 0..(Len(q.playlist) - 1)
  BY PlayingIsQueued, QueueFields
<1>2. ASSUME NEW i, NEW ok PROVE At(q, i, ok).ok = ok /\ At(q, i, ok).queue = [q EXCEPT !.index = i]
  BY DEF At
<1>3. \A i, ok : At(q, i, ok).ok = ok
  BY <1>2
<1>4. [q EXCEPT !.index = q.index] = q
  BY DEF Queues
<1>5. \A ok : At(q, q.index, ok).queue = q
  BY <1>2, <1>4
<1>6. ~NextItem(q).ok => \E ok : NextItem(q) = At(q, q.index, ok)
  <2> SUFFICES ASSUME ~NextItem(q).ok PROVE \E ok : NextItem(q) = At(q, q.index, ok)
    OBVIOUS
  <2>1. CASE q.repeat = "RepeatOne"
    BY <2>1 DEF NextItem
  <2>2. CASE q.repeat # "RepeatOne" /\ q.index < Len(q.playlist) - 1
    <3>1. NextItem(q) = At(q, q.index + 1, TRUE)
      BY <2>2 DEF NextItem
    <3> QED
      BY <1>3, <3>1, Zenon
  <2>3. CASE q.repeat # "RepeatOne" /\ ~(q.index < Len(q.playlist) - 1)
    <3>1. Len(q.playlist) - 1 = q.index /\ Len(q.playlist) - 1 # -1
      BY <1>1, <2>3
    <3>2. NextItem(q) = IF q.repeat = "RepeatAll" THEN At(q, 0, TRUE)
                        ELSE At(q, Len(q.playlist) - 1, FALSE)
      BY <2>3, <3>1 DEF NextItem
    <3>3. q.repeat # "RepeatAll"
      BY <1>3, <3>2, Zenon
    <3> QED
      BY <3>1, <3>2, <3>3
  <2> QED
    BY <2>1, <2>2, <2>3
<1>7. ~PreviousItem(q).ok => \E ok : PreviousItem(q) = At(q, q.index, ok)
  <2> SUFFICES ASSUME ~PreviousItem(q).ok PROVE \E ok : PreviousItem(q) = At(q, q.index, ok)
    OBVIOUS
  <2>1. CASE q.repeat = "RepeatOne"
    BY <2>1 DEF PreviousItem
  <2>2. CASE q.repeat # "RepeatOne" /\ q.index >= 1
    <3>1. PreviousItem(q) = At(q, q.index - 1, TRUE)
      BY <2>2 DEF PreviousItem
    <3> QED
      BY <1>3, <3>1, Zenon
  <2>3. CASE q.repeat # "RepeatOne" /\ ~(q.index >= 1)
    <3>1. q.index = 0 /\ Len(q.playlist) - 1 # -1
      BY <1>1, <2>3
    <3>2. PreviousItem(q) = IF q.repeat = "RepeatAll" THEN At(q, Len(q.playlist) - 1, TRUE)
                            ELSE At(q, 0, FALSE)
      BY <2>3, <3>1 DEF PreviousItem
    <3>3. q.repeat # "RepeatAll"
      BY <1>3, <3>2, Zenon
    <3> QED
      BY <3>1, <3>2, <3>3
  <2> QED
    BY <2>1, <2>2, <2>3
<1>8. to.queue = q
  BY <1>5, <1>6, <1>7, Zenon
<1> QED
  BY <1>8
=============================================================================
