------------------------------ MODULE UserProofs ------------------------------
(***************************************************************************)
(* What is proved about users, for every value of the constants.           *)
(*                                                                         *)
(* UserManagerLock implements KeyedMutex.  Two calls of a key never have   *)
(* different mutexes, because the entry of the key stays as long as one of *)
(* them is registered; that the user count says so is EntriesExact.        *)
(*                                                                         *)
(* No mutex is lost: the queue of each is exactly the calls that wait for  *)
(* it without having it, and one that is not free belongs to a call that   *)
(* waits or holds (MutexSound).                                            *)
(*                                                                         *)
(* UserAccounts never loses its last administrator.  Who holds the         *)
(* advisory lock is alone, so that what it has counted can only grow       *)
(* before it acts: every checked change leaves an administrator.           *)
(***************************************************************************)
EXTENDS UserManagerLock, UserAccounts, FiniteSetTheorems, SequenceTheorems, TLAPS

Calls == [phase : Phases, key : Keys \cup {NoKey}, lock : Locks \cup {NoLock}, depth : Nat]

Busy(c) == ~In(c, "Idle")

Typed ==
    /\ disposed \in BOOLEAN
    /\ entries \in [DOMAIN entries -> [lock : Locks, users : Nat]]
    /\ DOMAIN owner = Locks /\ owner = [l \in Locks |-> owner[l]]
    /\ calls \in [Contexts -> Calls]
    /\ \A c \in Contexts : Busy(c) => calls[c].key \in Keys /\ calls[c].lock \in Locks

\* A call in its section has the mutex.
HolderOwns == \A c \in Contexts : In(c, "Holding") => owner[calls[c].lock] = c

\* The calls of a key contend for the same mutex, even when the map has forgotten it.
OneMutexPerKey ==
    \A c, d \in Contexts :
        Busy(c) /\ Busy(d) /\ calls[c].key = calls[d].key => calls[c].lock = calls[d].lock

Inv == Typed /\ HolderOwns /\ OneMutexPerKey /\ EntriesExact

-----------------------------------------------------------------------------
(* Counting *)

\* The calls of a key are finitely many, and none exactly when their number is 0.
LEMMA UsersFinite ==
    ASSUME NEW k
    PROVE  /\ IsFiniteSet(Users(k)) /\ Cardinality(Users(k)) \in Nat
           /\ Users(k) # {} <=> Cardinality(Users(k)) # 0
<1>1. Users(k) \subseteq Contexts
  BY DEF Users
<1>2. IsFiniteSet(Users(k))
  BY <1>1, ContextsAssumption, FS_Subset
<1> QED
  BY <1>2, FS_CardinalityType, FS_EmptySet

\* A step that keeps what the map knows of the calls.
LEMMA SameCalls ==
    ASSUME Typed, OneMutexPerKey, EntriesExact, UNCHANGED <<disposed, entries>>,
           calls' \in [Contexts -> Calls],
           \A c \in Contexts : /\ calls'[c].key = calls[c].key /\ calls'[c].lock = calls[c].lock
                               /\ calls'[c].phase = "Idle" <=> calls[c].phase = "Idle"
    PROVE  OneMutexPerKey' /\ EntriesExact'
<1>1. \A k : Users(k)' = Users(k)
  BY DEF Users, In
<1>2. OneMutexPerKey'
  BY DEF OneMutexPerKey, Busy, In
<1>3. EntriesExact'
  <2>1. CASE disposed
    BY <2>1 DEF EntriesExact
  <2>2. CASE ~disposed
    <3>1. DOMAIN entries = {k \in Keys : Users(k)' # {}}
      BY <2>2, <1>1 DEF EntriesExact
    <3>2. ASSUME NEW k \in DOMAIN entries
          PROVE  /\ entries[k].users = Cardinality(Users(k)')
                 /\ \A c \in Users(k)' : calls'[c].lock = entries[k].lock
      <4>1. \A c \in Users(k) : c \in Contexts /\ calls[c].lock = entries[k].lock
        BY <2>2, <3>2 DEF EntriesExact, Users
      <4>2. entries[k].users = Cardinality(Users(k))
        BY <2>2, <3>2 DEF EntriesExact
      <4> QED
        BY <4>1, <4>2, <1>1
    <3> QED
      BY <2>2, <3>1, <3>2 DEF EntriesExact
  <2> QED
    BY <2>1, <2>2
<1> QED
  BY <1>2, <1>3

-----------------------------------------------------------------------------
(* Registration *)

\* register keeps the invariant: a new mutex is made only for a key not in use.
LEMMA RegisterInv ==
    ASSUME Inv, NEW c \in Contexts, NEW k \in Keys, Register(c, k)
    PROVE  Inv'
<1> DEFINE known == k \in DOMAIN entries
           count == IF known THEN entries[k].users + 1 ELSE 1
<1>1. PICK l \in IF known THEN {entries[k].lock} ELSE Unused :
          /\ entries' = WithEntry(k, l, count)
          /\ calls' = [calls EXCEPT ![c] = [phase |-> "Registered", key |-> k, lock |-> l,
                                            depth |-> 0]]
  BY DEF Register
<1>2. In(c, "Idle") /\ ~disposed /\ UNCHANGED <<disposed, owner, waiters>>
  BY DEF Register
<1>3. l \in Locks /\ count \in Nat
  BY <1>1 DEF Inv, Typed, Unused
<1> HIDE DEF count
<1>4. calls \in [Contexts -> Calls] /\ calls' \in [Contexts -> Calls]
  BY <1>1, <1>3 DEF Inv, Typed, Calls, Phases
<1>5. \A d \in Contexts : d # c => calls'[d] = calls[d]
  BY <1>1, <1>4
<1>6. /\ calls'[c].phase = "Registered" /\ calls'[c].key = k /\ calls'[c].lock = l
  BY <1>1, <1>4
<1>7. Users(k)' = Users(k) \cup {c} /\ \A j : j # k => Users(j)' = Users(j)
  BY <1>2, <1>5, <1>6 DEF Users, In
<1>8. c \notin Users(k)
  BY <1>2 DEF Users
<1>9. /\ DOMAIN entries' = DOMAIN entries \cup {k}
      /\ entries'[k] = [lock |-> l, users |-> count]
      /\ \A j \in DOMAIN entries : j # k => entries'[j] = entries[j]
      /\ entries' = [j \in DOMAIN entries' |-> entries'[j]]
  BY <1>1 DEF WithEntry
<1>10. Typed'
  <2>1. \A j \in DOMAIN entries' : entries'[j] \in [lock : Locks, users : Nat]
    BY <1>3, <1>9 DEF Inv, Typed
  <2>2. entries' \in [DOMAIN entries' -> [lock : Locks, users : Nat]]
    BY <2>1, <1>9
  <2>3. \A d \in Contexts : Busy(d)' => calls'[d].key \in Keys /\ calls'[d].lock \in Locks
    BY <1>3, <1>5, <1>6 DEF Inv, Typed, Busy, In
  <2> QED
    BY <2>2, <2>3, <1>2, <1>4 DEF Inv, Typed
<1>11. HolderOwns'
  BY <1>2, <1>5, <1>6 DEF Inv, HolderOwns, In
<1>12. \A d \in Users(k) : calls[d].lock = l
  BY <1>1, <1>2 DEF Inv, EntriesExact
<1>13. OneMutexPerKey'
  BY <1>5, <1>6, <1>12 DEF Inv, OneMutexPerKey, Busy, In, Users
<1>14. EntriesExact'
  <2>1. DOMAIN entries' = {j \in Keys : Users(j)' # {}}
    BY <1>2, <1>7, <1>9 DEF Inv, EntriesExact
  <2>2. count = Cardinality(Users(k)')
    <3>1. Cardinality(Users(k) \cup {c}) = Cardinality(Users(k)) + 1
      BY <1>8, UsersFinite, FS_AddElement
    <3>2. Cardinality(Users(k)) = IF known THEN entries[k].users ELSE 0
      <4>1. CASE known
        BY <4>1, <1>2 DEF Inv, EntriesExact
      <4>2. CASE ~known
        <5>1. Users(k) = {}
          BY <4>2, <1>2 DEF Inv, EntriesExact
        <5> QED
          BY <4>2, <5>1, FS_EmptySet
      <4> QED
        BY <4>1, <4>2
    <3> QED
      BY <1>7, <3>1, <3>2 DEF count
  <2>3. ASSUME NEW j \in DOMAIN entries'
        PROVE  /\ entries'[j].users = Cardinality(Users(j)')
               /\ \A d \in Users(j)' : calls'[d].lock = entries'[j].lock
    <3>1. CASE j = k
      BY <3>1, <2>2, <1>5, <1>6, <1>7, <1>8, <1>9, <1>12 DEF Users
    <3>2. CASE j # k
      <4>1. /\ entries[j].users = Cardinality(Users(j))
            /\ \A d \in Users(j) : calls[d].lock = entries[j].lock
        BY <3>2, <1>2, <1>9 DEF Inv, EntriesExact
      <4>2. c \notin Users(j)
        BY <1>2 DEF Users
      <4> QED
        BY <3>2, <4>1, <4>2, <1>5, <1>7, <1>9 DEF Users
    <3> QED
      BY <3>1, <3>2
  <2> QED
    BY <2>1, <2>3, <1>2 DEF EntriesExact
<1> QED
  BY <1>10, <1>11, <1>13, <1>14 DEF Inv

\* unregister keeps the invariant: the entry goes with its last user.
LEMMA UnregisterInv ==
    ASSUME Inv, NEW c \in Contexts, Unregister(c)
    PROVE  Inv'
<1>k. PICK k : k = calls[c].key
  OBVIOUS
<1>1. /\ In(c, "Releasing") /\ calls' = [calls EXCEPT ![c] = NoCall]
      /\ UNCHANGED <<disposed, owner, waiters>>
  BY DEF Unregister
<1>2. calls \in [Contexts -> Calls] /\ calls' \in [Contexts -> Calls] /\ k \in Keys
  BY <1>k, <1>1 DEF Inv, Typed, Calls, Phases, NoCall, Busy, In
<1>3. calls'[c] = NoCall /\ \A d \in Contexts : d # c => calls'[d] = calls[d]
  BY <1>1, <1>2
<1>4. c \in Users(k) /\ Users(k)' = Users(k) \ {c} /\ \A j : j # k => Users(j)' = Users(j)
  <2>1. c \in Users(k) /\ \A j : j # k => c \notin Users(j)
    BY <1>k, <1>1 DEF Users, In
  <2>2. \A j : Users(j)' = Users(j) \ {c}
    BY <1>3 DEF Users, In, NoCall
  <2> QED
    BY <2>1, <2>2
<1>5. HolderOwns'
  BY <1>1, <1>3 DEF Inv, HolderOwns, In, NoCall
<1>6. OneMutexPerKey'
  BY <1>3 DEF Inv, OneMutexPerKey, Busy, In, NoCall
<1>7. \A d \in Contexts : Busy(d)' => calls'[d].key \in Keys /\ calls'[d].lock \in Locks
  BY <1>3 DEF Inv, Typed, Busy, In, NoCall
<1>8. CASE disposed
  <2>1. entries' = entries
    BY <1>8 DEF Unregister, Inv, EntriesExact
  <2>2. Typed'
    BY <2>1, <1>1, <1>2, <1>7 DEF Inv, Typed
  <2>3. EntriesExact'
    BY <2>1, <1>1, <1>8 DEF Inv, EntriesExact
  <2> QED
    BY <2>2, <2>3, <1>5, <1>6 DEF Inv
<1>9. CASE ~disposed
  <2>1. /\ k \in DOMAIN entries /\ entries[k].lock = calls[c].lock
        /\ entries[k].users = Cardinality(Users(k))
        /\ \A d \in Users(k) : calls[d].lock = entries[k].lock
    BY <1>k, <1>2, <1>4, <1>9 DEF Inv, EntriesExact
  <2>2. Cardinality(Users(k)') = entries[k].users - 1 /\ entries[k].users \in Nat
    <3>1. Cardinality(Users(k) \ {c}) = Cardinality(Users(k)) - 1
      BY <1>4, UsersFinite, FS_RemoveElement
    <3> QED
      BY <2>1, <3>1, <1>4, UsersFinite
  <2>3. Cardinality(Users(k)') \in Nat /\ (Users(k)' # {} <=> Cardinality(Users(k)') # 0)
    <3>1. Users(k)' \subseteq Contexts
      BY DEF Users
    <3> QED
      BY <3>1, ContextsAssumption, FS_Subset, FS_CardinalityType, FS_EmptySet
  <2>4. ASSUME NEW j \in DOMAIN entries, j # k
        PROVE  /\ entries[j].users = Cardinality(Users(j)')
               /\ \A d \in Users(j)' : calls'[d].lock = entries[j].lock
    <3>1. /\ entries[j].users = Cardinality(Users(j))
          /\ \A d \in Users(j) : calls[d].lock = entries[j].lock
      BY <1>9 DEF Inv, EntriesExact
    <3>2. \A d \in Users(j) : d \in Contexts /\ d # c
      BY <2>4, <1>k DEF Users
    <3>3. Users(j)' = Users(j)
      BY <2>4, <1>4
    <3> QED
      BY <3>1, <3>2, <3>3, <1>3
  <2>5. CASE entries[k].users = 1
    <3>1. entries' = [j \in DOMAIN entries \ {k} |-> entries[j]]
      BY <1>k, <2>1, <2>5 DEF Unregister
    <3>2. Typed'
      BY <3>1, <1>1, <1>2, <1>7 DEF Inv, Typed
    <3>3. DOMAIN entries' = {j \in Keys : Users(j)' # {}}
      BY <3>1, <2>2, <2>3, <2>5, <1>4, <1>9 DEF Inv, EntriesExact
    <3>4. EntriesExact'
      BY <3>1, <3>3, <2>4, <1>1, <1>9 DEF EntriesExact
    <3> QED
      BY <3>2, <3>4, <1>5, <1>6 DEF Inv
  <2>6. CASE entries[k].users # 1
    <3>1. entries' = WithEntry(k, entries[k].lock, entries[k].users - 1)
      BY <1>k, <2>1, <2>6 DEF Unregister
    <3>2. /\ DOMAIN entries' = DOMAIN entries
          /\ entries'[k] = [lock |-> entries[k].lock, users |-> Cardinality(Users(k)')]
          /\ \A j \in DOMAIN entries : j # k => entries'[j] = entries[j]
          /\ entries' = [j \in DOMAIN entries' |-> entries'[j]]
      BY <3>1, <2>1, <2>2 DEF WithEntry
    <3>3. Typed'
      <4>1. \A j \in DOMAIN entries' : entries'[j] \in [lock : Locks, users : Nat]
        BY <3>2, <2>3 DEF Inv, Typed
      <4>2. entries' \in [DOMAIN entries' -> [lock : Locks, users : Nat]]
        BY <4>1, <3>2
      <4> QED
        BY <4>2, <1>1, <1>2, <1>7 DEF Inv, Typed
    <3>4. DOMAIN entries' = {j \in Keys : Users(j)' # {}}
      BY <3>2, <2>1, <2>2, <2>3, <2>6, <1>4, <1>9 DEF Inv, EntriesExact
    <3>5. \A d \in Users(k)' : calls'[d].lock = entries[k].lock
      BY <2>1, <1>3, <1>4 DEF Users
    <3>6. ASSUME NEW j \in DOMAIN entries'
          PROVE  /\ entries'[j].users = Cardinality(Users(j)')
                 /\ \A d \in Users(j)' : calls'[d].lock = entries'[j].lock
      BY <3>2, <3>5, <2>4
    <3>7. EntriesExact'
      BY <3>4, <3>6, <1>1, <1>9 DEF EntriesExact
    <3> QED
      BY <3>3, <3>7, <1>5, <1>6 DEF Inv
  <2> QED
    BY <2>5, <2>6
<1> QED
  BY <1>8, <1>9

-----------------------------------------------------------------------------
(* The mutex *)

\* A step of c that leaves it with another phase or depth and gives away no mutex
\* but one that nobody else holds.
LEMMA PhaseInv ==
    ASSUME Inv, NEW c \in Contexts, Busy(c), NEW phase \in Phases, phase # "Idle",
           NEW depth \in Nat,
           calls' = [calls EXCEPT ![c].phase = phase, ![c].depth = depth],
           UNCHANGED <<disposed, entries>>,
           DOMAIN owner' = Locks, owner' = [l \in Locks |-> owner'[l]],
           \A l \in Locks : owner'[l] = owner[l] \/ (l = calls[c].lock /\ owner[l] \in {c, Nobody}),
           phase = "Holding" => owner'[calls[c].lock] = c
    PROVE  Inv'
<1>1. calls \in [Contexts -> Calls] /\ calls' \in [Contexts -> Calls]
  <2>1. calls \in [Contexts -> Calls] /\ calls[c] \in Calls
    BY DEF Inv, Typed
  <2>2. [calls[c] EXCEPT !.phase = phase, !.depth = depth] \in Calls
    BY <2>1 DEF Calls
  <2>3. calls' = [calls EXCEPT ![c] = [calls[c] EXCEPT !.phase = phase, !.depth = depth]]
    BY <2>1
  <2> QED
    BY <2>1, <2>2, <2>3
<1>2. \A d \in Contexts : /\ calls'[d].key = calls[d].key /\ calls'[d].lock = calls[d].lock
                          /\ calls'[d].phase = "Idle" <=> calls[d].phase = "Idle"
                          /\ d # c => calls'[d] = calls[d]
  BY <1>1 DEF Busy, In, Calls
<1>3. calls'[c].phase = phase
  BY <1>1 DEF Calls
<1>4. OneMutexPerKey' /\ EntriesExact'
  BY <1>1, <1>2, SameCalls DEF Inv
<1>5. Typed'
  BY <1>1, <1>2 DEF Inv, Typed, Busy, In
<1>6. HolderOwns'
  <2> SUFFICES ASSUME NEW d \in Contexts, calls'[d].phase = "Holding"
               PROVE  owner'[calls'[d].lock] = d
    BY DEF HolderOwns, In
  <2>1. CASE d = c
    BY <2>1, <1>2, <1>3
  <2>2. CASE d # c
    <3>1. calls[d].phase = "Holding" /\ calls[d].lock \in Locks
      BY <2>2, <1>2 DEF Inv, Typed, Busy, In
    <3>2. owner[calls[d].lock] = d /\ d # Nobody
      BY <3>1, ContextsAssumption DEF Inv, HolderOwns, In
    <3> QED
      BY <2>2, <3>1, <3>2, <1>2
  <2> QED
    BY <2>1, <2>2
<1> QED
  BY <1>4, <1>5, <1>6 DEF Inv

\* Unlocking a mutex grants no other.
LEMMA UnlockOwner ==
    ASSUME Typed, NEW l \in Locks, Unlock(l)
    PROVE  /\ DOMAIN owner' = Locks /\ owner' = [m \in Locks |-> owner'[m]]
           /\ \A m \in Locks : m # l => owner'[m] = owner[m]
BY DEF Typed, Unlock

\* A step that leaves the owners alone.
LEMMA SameOwner ==
    ASSUME Typed, owner' = owner
    PROVE  /\ DOMAIN owner' = Locks /\ owner' = [m \in Locks |-> owner'[m]]
           /\ \A m \in Locks : owner'[m] = owner[m]
BY DEF Typed

\* The first poll of the mutex keeps the invariant.
LEMMA LockInv ==
    ASSUME Inv, NEW c \in Contexts, Lock(c)
    PROVE  Inv'
<1> DEFINE l == calls[c].lock
<1>1. In(c, "Registered") /\ Busy(c) /\ l \in Locks /\ calls[c].depth \in Nat
  BY DEF Lock, Busy, In, Inv, Typed, Calls
<1>2. calls' = [calls EXCEPT ![c].phase = "Waiting", ![c].depth = calls[c].depth]
  BY DEF Lock, Inv, Typed, Calls
<1>3. /\ DOMAIN owner' = Locks /\ owner' = [m \in Locks |-> owner'[m]]
      /\ \A m \in Locks : owner'[m] = owner[m] \/ (m = l /\ owner[m] \in {c, Nobody})
  BY <1>1 DEF Lock, Inv, Typed
<1>4. UNCHANGED <<disposed, entries>>
  BY DEF Lock
<1> QED
  BY <1>1, <1>2, <1>3, <1>4, PhaseInv DEF Phases

\* The mutex goes from c to whoever waits for it.
LEMMA GiveUpInv ==
    ASSUME Inv, NEW c \in Contexts, Busy(c), Unlock(calls[c].lock), owner[calls[c].lock] = c,
           NEW depth \in Nat,
           calls' = [calls EXCEPT ![c].phase = "Releasing", ![c].depth = depth],
           UNCHANGED <<disposed, entries>>
    PROVE  Inv'
<1>1. calls[c].lock \in Locks
  BY DEF Inv, Typed
<1>2. /\ DOMAIN owner' = Locks /\ owner' = [m \in Locks |-> owner'[m]]
      /\ \A m \in Locks : m # calls[c].lock => owner'[m] = owner[m]
  BY <1>1, UnlockOwner DEF Inv
<1> QED
  BY <1>2, PhaseInv DEF Phases

\* The second check of disposal keeps the invariant, admitted or refused.
LEMMA AdmitInv ==
    ASSUME Inv, NEW c \in Contexts, Admit(c)
    PROVE  Inv'
<1>1. /\ In(c, "Waiting") /\ Busy(c) /\ calls[c].depth \in Nat
      /\ owner[calls[c].lock] = c /\ UNCHANGED <<disposed, entries>>
  BY DEF Admit, Busy, In, Inv, Typed, Calls
<1>2. CASE disposed
  <2>1. calls' = [calls EXCEPT ![c].phase = "Releasing", ![c].depth = calls[c].depth]
    BY <1>2 DEF Admit, Inv, Typed, Calls
  <2>2. Unlock(calls[c].lock)
    BY <1>2 DEF Admit
  <2> QED
    BY <1>1, <2>1, <2>2, GiveUpInv
<1>3. CASE ~disposed
  <2>1. /\ calls' = [calls EXCEPT ![c].phase = "Holding", ![c].depth = 1]
        /\ owner' = owner
    BY <1>3 DEF Admit
  <2> QED
    BY <1>1, <2>1, SameOwner, PhaseInv DEF Phases, Inv
<1> QED
  BY <1>2, <1>3

\* A dropped future keeps the invariant.
LEMMA CancelInv ==
    ASSUME Inv, NEW c \in Contexts, Cancel(c)
    PROVE  Inv'
<1>1. In(c, "Waiting") /\ Busy(c) /\ calls[c].depth \in Nat /\ UNCHANGED <<disposed, entries>>
  BY DEF Cancel, Busy, In, Inv, Typed, Calls
<1>2. calls' = [calls EXCEPT ![c].phase = "Releasing", ![c].depth = calls[c].depth]
  BY DEF Cancel, Inv, Typed, Calls
<1>3. CASE owner[calls[c].lock] = c
  <2>1. Unlock(calls[c].lock)
    BY <1>3 DEF Cancel
  <2> QED
    BY <1>1, <1>2, <1>3, <2>1, GiveUpInv
<1>4. CASE owner[calls[c].lock] # c
  <2>1. owner' = owner
    BY <1>4 DEF Cancel
  <2> QED
    BY <1>1, <1>2, <2>1, SameOwner, PhaseInv DEF Phases, Inv
<1> QED
  BY <1>3, <1>4

\* Nested calls keep the invariant.
LEMMA NestedInv ==
    ASSUME Inv, NEW c \in Contexts, Reenter(c) \/ DropNested(c)
    PROVE  Inv'
<1>1. /\ In(c, "Holding") /\ Busy(c) /\ owner[calls[c].lock] = c
      /\ UNCHANGED <<disposed, entries, owner>>
  BY DEF Reenter, DropNested, Busy, In, Inv, HolderOwns
<1>2. calls[c].depth \in Nat /\ calls[c].phase = "Holding"
  BY <1>1 DEF Inv, Typed, Calls, In
<1>3. PICK depth \in Nat : calls' = [calls EXCEPT ![c].phase = "Holding", ![c].depth = depth]
  <2>1. calls[c] \in Calls /\ calls \in [Contexts -> Calls]
    BY DEF Inv, Typed
  <2>2. \A depth : [calls EXCEPT ![c].depth = depth]
                       = [calls EXCEPT ![c].phase = "Holding", ![c].depth = depth]
    BY <2>1, <1>2 DEF Calls
  <2>3. CASE Reenter(c)
    <3>1. calls' = [calls EXCEPT ![c].depth = calls[c].depth + 1]
      BY <2>3 DEF Reenter
    <3>2. calls[c].depth + 1 \in Nat
      BY <1>2
    <3> QED
      BY <3>1, <3>2, <2>2
  <2>4. CASE DropNested(c)
    <3>1. calls' = [calls EXCEPT ![c].depth = calls[c].depth - 1]
      BY <2>4 DEF DropNested
    <3>2. calls[c].depth - 1 \in Nat
      BY <2>4, <1>2 DEF DropNested
    <3> QED
      BY <3>1, <3>2, <2>2
  <2> QED
    BY <2>3, <2>4
<1> QED
  BY <1>1, <1>3, SameOwner, PhaseInv DEF Phases, Inv

\* Dropping the last handle keeps the invariant.
LEMMA DropLastInv ==
    ASSUME Inv, NEW c \in Contexts, DropLast(c)
    PROVE  Inv'
<1>1. /\ In(c, "Holding") /\ Busy(c) /\ owner[calls[c].lock] = c
      /\ UNCHANGED <<disposed, entries>>
      /\ Unlock(calls[c].lock)
      /\ calls' = [calls EXCEPT ![c].phase = "Releasing", ![c].depth = 0]
  BY DEF DropLast, Busy, In, Inv, HolderOwns
<1> QED
  BY <1>1, GiveUpInv

\* dispose keeps the invariant: the map forgets calls that go on.
LEMMA DisposeInv == Inv /\ Dispose => Inv'
BY DEF Dispose, Inv, Typed, HolderOwns, OneMutexPerKey, EntriesExact, Busy, In

-----------------------------------------------------------------------------
(* The invariant *)

\* The invariant holds in the initial state.
LEMMA InitInv == Init => Inv
<1> SUFFICES ASSUME Init PROVE Inv
  OBVIOUS
<1>1. \A c \in Contexts : calls[c] = NoCall /\ ~Busy(c) /\ ~In(c, "Holding")
  BY DEF Init, NoCall, Busy, In
<1>2. Typed
  <2>1. NoCall \in Calls
    BY DEF NoCall, Calls, Phases
  <2> QED
    BY <1>1, <2>1 DEF Init, Typed
<1>3. \A k : Users(k) = {}
  BY <1>1 DEF Users, Busy
<1> QED
  BY <1>1, <1>2, <1>3 DEF Init, Inv, HolderOwns, OneMutexPerKey, EntriesExact

\* Every step keeps the invariant.
LEMMA NextInv == Inv /\ [Next]_vars => Inv'
<1>1. Inv /\ UNCHANGED vars => Inv'
  <2> SUFFICES ASSUME Inv, UNCHANGED vars PROVE Inv'
    OBVIOUS
  <2>1. OneMutexPerKey' /\ EntriesExact'
    BY SameCalls DEF vars, Inv, Typed
  <2> QED
    BY <2>1 DEF vars, Inv, Typed, HolderOwns, Busy, In
<1> QED
  BY <1>1, RegisterInv, UnregisterInv, LockInv, AdmitInv, CancelInv, NestedInv, DropLastInv,
     DisposeInv DEF Next

\* The inductive invariant: holders own their mutexes, the calls of a key share
\* one, and the entries count the calls, in every reachable state.
THEOREM Invariance == Spec => []Inv
BY InitInv, NextInv, PTL DEF Spec

\* The map has an entry for exactly the keys in use, and counts their calls.
THEOREM EntriesAreExact == Spec => []EntriesExact
<1>1. Inv => EntriesExact
  BY DEF Inv
<1> QED
  BY <1>1, Invariance, PTL

-----------------------------------------------------------------------------
(* Refinement *)

heldBar == [c \in Contexts |-> IF In(c, "Holding") THEN calls[c].key ELSE NoKey]

\* Initial states map to initial states.
LEMMA InitRefines == Init => Abstract!Init
BY DEF Init, Abstract!Init, In, NoCall

\* A step that leaves every task with what it holds.
LEMMA Stutters ==
    ASSUME disposed' = disposed,
           \A c \in Contexts : /\ In(c, "Holding") <=> In(c, "Holding")'
                               /\ In(c, "Holding") => calls'[c].key = calls[c].key
    PROVE  heldBar' = heldBar /\ disposed' = disposed
BY DEF heldBar

\* An admitted call acquires its key.
LEMMA AdmitRefines ==
    ASSUME Inv, NEW c \in Contexts, Admit(c), ~disposed, NEW k, k = calls[c].key
    PROVE  Abstract!Acquire(c, k)
<1>1. /\ In(c, "Waiting") /\ owner[calls[c].lock] = c /\ disposed' = disposed
      /\ calls' = [calls EXCEPT ![c].phase = "Holding", ![c].depth = 1]
  BY DEF Admit
<1>2. calls[c] \in Calls /\ calls \in [Contexts -> Calls] /\ Busy(c)
  BY <1>1 DEF Inv, Typed, Busy, In
<1>3. k \in Keys /\ k # NoKey
  BY <1>2, KeysAssumption DEF Inv, Typed
<1>4. ASSUME NEW d \in Contexts, In(d, "Holding"), calls[d].key = k
      PROVE  FALSE
  <2>1. Busy(d) /\ owner[calls[d].lock] = d
    BY <1>4 DEF Busy, In, Inv, HolderOwns
  <2>2. calls[d].lock = calls[c].lock
    BY <1>2, <1>4, <2>1 DEF Inv, OneMutexPerKey
  <2> QED
    BY <1>1, <1>4, <2>1, <2>2 DEF In
<1>5. \A d \in Contexts : heldBar[d] # k
  BY <1>3, <1>4 DEF heldBar
<1>6. heldBar[c] = NoKey
  BY <1>1 DEF heldBar, In
<1>7. calls'[c].phase = "Holding" /\ calls'[c].key = k
  BY <1>1, <1>2 DEF Calls
<1>8. heldBar' = [heldBar EXCEPT ![c] = k]
  BY <1>1, <1>2, <1>7 DEF heldBar, In
<1> QED
  BY <1>1, <1>5, <1>6, <1>8 DEF Abstract!Acquire, heldBar

\* Dropping the last handle releases the key.
LEMMA DropLastRefines ==
    ASSUME Inv, NEW c \in Contexts, DropLast(c)
    PROVE  Abstract!Release(c)
<1>1. /\ In(c, "Holding") /\ disposed' = disposed
      /\ calls' = [calls EXCEPT ![c].phase = "Releasing", ![c].depth = 0]
  BY DEF DropLast
<1>2. calls[c] \in Calls /\ calls \in [Contexts -> Calls] /\ calls[c].key \in Keys
  BY <1>1 DEF Inv, Typed, Busy, In
<1>3. heldBar[c] # NoKey
  BY <1>1, <1>2, KeysAssumption DEF heldBar
<1>4. calls'[c].phase = "Releasing"
  BY <1>1, <1>2 DEF Calls
<1>5. heldBar' = [heldBar EXCEPT ![c] = NoKey]
  BY <1>1, <1>2, <1>4 DEF heldBar, In
<1> QED
  BY <1>1, <1>3, <1>5 DEF Abstract!Release, heldBar

\* The steps around the section, and those inside it.
LEMMA OtherCallsStutter ==
    ASSUME Inv, NEW c \in Contexts,
           \/ \E k \in Keys : Register(c, k)
           \/ Lock(c) \/ (Admit(c) /\ disposed) \/ Cancel(c)
           \/ Reenter(c) \/ DropNested(c) \/ Unregister(c)
    PROVE  heldBar' = heldBar /\ disposed' = disposed
<1>1. calls \in [Contexts -> Calls] /\ calls[c] \in Calls
  BY DEF Inv, Typed
<1>2. \A d \in Contexts : d # c => calls'[d] = calls[d]
  BY <1>1 DEF Register, Lock, Admit, Cancel, Reenter, DropNested, Unregister
<1>3. disposed' = disposed
  BY DEF Register, Lock, Admit, Cancel, Reenter, DropNested, Unregister
<1>4. CASE Reenter(c) \/ DropNested(c)
  <2>1. calls'[c].phase = calls[c].phase /\ calls'[c].key = calls[c].key
    BY <1>1, <1>4 DEF Reenter, DropNested, Calls
  <2> QED
    BY <2>1, <1>2, <1>3, Stutters DEF In
<1>5. CASE ~(Reenter(c) \/ DropNested(c))
  <2>1. ~In(c, "Holding")
    BY <1>5 DEF Register, Lock, Admit, Cancel, Unregister, In
  <2>2. calls'[c].phase # "Holding"
    <3>1. CASE \E k \in Keys : Register(c, k)
      BY <3>1, <1>1 DEF Register
    <3>2. CASE Lock(c)
      BY <3>2, <1>1 DEF Lock, Calls
    <3>3. CASE Admit(c) /\ disposed
      BY <3>3, <1>1 DEF Admit, Calls
    <3>4. CASE Cancel(c)
      BY <3>4, <1>1 DEF Cancel, Calls
    <3>5. CASE Unregister(c)
      BY <3>5, <1>1 DEF Unregister, NoCall
    <3> QED
      BY <1>5, <3>1, <3>2, <3>3, <3>4, <3>5
  <2> QED
    BY <2>1, <2>2, <1>2, <1>3, Stutters DEF In
<1> QED
  BY <1>4, <1>5

\* Every step maps to a step of KeyedMutex or to a stutter.
LEMMA StepRefines ==
    ASSUME Inv, [Next]_vars
    PROVE  [Abstract!Next]_<<heldBar, disposed>>
<1>1. CASE UNCHANGED vars
  BY <1>1 DEF vars, heldBar, In
<1>2. CASE Dispose
  <2>1. heldBar' = heldBar /\ disposed' = TRUE
    BY <1>2 DEF Dispose, heldBar, In
  <2> QED
    BY <2>1 DEF Abstract!Next, Abstract!Close, heldBar
<1>3. ASSUME NEW c \in Contexts, Admit(c), ~disposed
      PROVE  Abstract!Next
  <2>1. PICK k \in Keys : k = calls[c].key
    BY <1>3 DEF Inv, Typed, Busy, In, Admit
  <2>2. Abstract!Acquire(c, k)
    BY <1>3, <2>1, AdmitRefines
  <2> QED
    BY <2>2 DEF Abstract!Next
<1>4. ASSUME NEW c \in Contexts, DropLast(c)
      PROVE  Abstract!Next
  BY <1>4, DropLastRefines DEF Abstract!Next
<1> QED
  BY <1>1, <1>2, <1>3, <1>4, OtherCallsStutter DEF Next

\* The helper is a mutex per key that admits nobody once it is disposed, whatever
\* entries and mutexes come and go with cancelled, refused and finished calls.
THEOREM Refinement == Spec => IsKeyedMutex
<1>1. Inv /\ [Next]_vars => [Abstract!Next]_<<heldBar, disposed>>
  BY StepRefines
<1> QED
  BY <1>1, InitRefines, Invariance, PTL DEF Spec, IsKeyedMutex, Abstract!Spec, heldBar

-----------------------------------------------------------------------------
(* The queues of the mutexes *)

\* Nobody stands in a queue twice.
Once(q) == \A m, n \in DOMAIN q : q[m] = q[n] => m = n

\* r is q without the element at position n.
LEMMA QueueShrinks ==
    ASSUME NEW q \in Seq(Contexts), Once(q), NEW n \in DOMAIN q, NEW r \in Seq(Contexts),
           Len(r) = Len(q) - 1, \A m \in 1..(n - 1) : r[m] = q[m],
           \A m \in n..(Len(q) - 1) : r[m] = q[m + 1]
    PROVE  Once(r) /\ ToSet(r) = ToSet(q) \ {q[n]}
<1> DEFINE old(m) == IF m < n THEN m ELSE m + 1
           new(m) == IF m < n THEN m ELSE m - 1
<1>1. DOMAIN q = 1..Len(q) /\ DOMAIN r = 1..(Len(q) - 1) /\ Len(q) \in Nat /\ n \in 1..Len(q)
  OBVIOUS
<1>2. ASSUME NEW m \in DOMAIN r
      PROVE  old(m) \in DOMAIN q /\ old(m) # n /\ r[m] = q[old(m)]
  BY <1>1
<1>3. ASSUME NEW m \in DOMAIN q, m # n
      PROVE  new(m) \in DOMAIN r /\ r[new(m)] = q[m]
  <2>1. m \in 1..Len(q) /\ m \in Nat /\ n \in Nat /\ (m - 1) + 1 = m
    BY <1>1
  <2>2. CASE m < n
    BY <1>1, <2>1, <2>2
  <2>3. CASE m > n
    <3>1. m - 1 \in n..(Len(q) - 1) /\ ~(m < n)
      BY <1>1, <2>1, <2>3
    <3> QED
      BY <1>1, <2>1, <3>1
  <2> QED
    BY <1>3, <2>1, <2>2, <2>3
<1>4. \A m, k \in DOMAIN r : old(m) = old(k) => m = k
  BY <1>1
<1>5. \A m \in DOMAIN q : m # n => q[m] # q[n]
  BY <1>1 DEF Once
<1> HIDE DEF old, new
<1>6. Once(r)
  BY <1>2, <1>4 DEF Once
<1>7. ToSet(r) = ToSet(q) \ {q[n]}
  BY <1>2, <1>3, <1>5 DEF ToSet
<1> QED
  BY <1>6, <1>7

\* The head leaves a queue.
LEMMA QueueLosesHead ==
    ASSUME NEW q \in Seq(Contexts), Once(q), q # <<>>
    PROVE  /\ Tail(q) \in Seq(Contexts) /\ Once(Tail(q))
           /\ Head(q) \in ToSet(q) /\ ToSet(Tail(q)) = ToSet(q) \ {Head(q)}
<1> DEFINE r == Tail(q)
<1>1. /\ r \in Seq(Contexts) /\ Len(r) = Len(q) - 1 /\ 1 \in DOMAIN q /\ Head(q) = q[1]
      /\ \A m \in 1..(Len(q) - 1) : r[m] = q[m + 1]
  OBVIOUS
<1> HIDE DEF r
<1>2. \A m \in 1..(1 - 1) : r[m] = q[m]
  OBVIOUS
<1>3. Once(r) /\ ToSet(r) = ToSet(q) \ {q[1]}
  BY <1>1, <1>2, QueueShrinks
<1> QED
  BY <1>1, <1>3 DEF r, ToSet

\* Any one leaves a queue.
LEMMA QueueLosesOne ==
    ASSUME NEW q \in Seq(Contexts), Once(q), NEW n \in DOMAIN q
    PROVE  /\ RemoveAt(q, n) \in Seq(Contexts) /\ Once(RemoveAt(q, n))
           /\ ToSet(RemoveAt(q, n)) = ToSet(q) \ {q[n]}
<1> DEFINE a == SubSeq(q, 1, n - 1)
           b == SubSeq(q, n + 1, Len(q))
           r == a \o b
<1>1. n \in 1..Len(q) /\ Len(q) \in Nat
  OBVIOUS
<1>2. /\ a \in Seq(Contexts) /\ Len(a) = n - 1 /\ \A m \in 1..(n - 1) : a[m] = q[m]
      /\ b \in Seq(Contexts) /\ Len(b) = Len(q) - n /\ \A m \in 1..(Len(q) - n) : b[m] = q[m + n]
  BY <1>1
<1> HIDE DEF a, b
<1>3. /\ r \in Seq(Contexts) /\ Len(r) = Len(a) + Len(b)
      /\ \A m \in 1..(Len(a) + Len(b)) : r[m] = IF m <= Len(a) THEN a[m] ELSE b[m - Len(a)]
  BY <1>2, ConcatProperties
<1> HIDE DEF r
<1>4. r \in Seq(Contexts) /\ Len(r) = Len(q) - 1 /\ \A m \in 1..(n - 1) : r[m] = q[m]
  BY <1>1, <1>2, <1>3
<1>5. ASSUME NEW m \in n..(Len(q) - 1) PROVE r[m] = q[m + 1]
  <2> DEFINE k == m - (n - 1)
  <2>1. k \in 1..(Len(q) - n) /\ m = k + (n - 1) /\ k + n = m + 1
    BY <1>1
  <2> HIDE DEF k
  <2>2. m \in Int /\ n \in Int /\ k \in Int /\ Len(q) \in Int /\ 1 <= m /\ n <= m /\ m <= Len(q) - 1
    BY <1>1, <2>1
  <2>3. m \in 1..(Len(q) - 1) /\ ~(m <= n - 1) /\ m - (n - 1) = k
    BY <2>1, <2>2
  <2>4. Len(a) = n - 1 /\ Len(a) + Len(b) = Len(q) - 1
    BY <1>2, <2>2
  <2> QED
    BY <1>2, <1>3, <2>1, <2>3, <2>4
<1>6. Once(r) /\ ToSet(r) = ToSet(q) \ {q[n]}
  BY <1>4, <1>5, QueueShrinks
<1> QED
  BY <1>4, <1>6 DEF r, a, b, RemoveAt

\* Who joins a queue is in it once.
LEMMA QueueGrows ==
    ASSUME NEW q \in Seq(Contexts), Once(q), NEW c \in Contexts, c \notin ToSet(q)
    PROVE  /\ Append(q, c) \in Seq(Contexts) /\ Once(Append(q, c))
           /\ ToSet(Append(q, c)) = ToSet(q) \cup {c}
<1> DEFINE r == Append(q, c)
<1>1. /\ r \in Seq(Contexts) /\ DOMAIN r = 1..(Len(q) + 1) /\ DOMAIN q = 1..Len(q) /\ Len(q) \in Nat
      /\ r[Len(q) + 1] = c /\ \A n \in 1..Len(q) : r[n] = q[n]
  OBVIOUS
<1>2. 1..(Len(q) + 1) = 1..Len(q) \cup {Len(q) + 1}
  BY <1>1
<1>3. \A n \in 1..Len(q) : q[n] # c
  BY <1>1 DEF ToSet
<1> HIDE DEF r
<1>4. ToSet(r) = ToSet(q) \cup {c}
  BY <1>1, <1>2 DEF ToSet
<1>5. Once(r)
  BY <1>1, <1>2, <1>3 DEF Once
<1> QED
  BY <1>1, <1>4, <1>5 DEF r

-----------------------------------------------------------------------------
(* No mutex is lost *)

\* c is in the section of mutex l or waits for it.
WaitsFor(c, l) == In(c, "Waiting") /\ calls[c].lock = l
Uses(c, l) == (In(c, "Waiting") \/ In(c, "Holding")) /\ calls[c].lock = l

\* A mutex belongs to a call that uses it, and its queue are the others that wait for
\* it; a free one has no queue.
MutexSound(l) ==
    /\ waiters[l] \in Seq(Contexts) /\ Once(waiters[l])
    /\ ToSet(waiters[l]) = {c \in Contexts : WaitsFor(c, l) /\ c # owner[l]}
    /\ \/ owner[l] = Nobody /\ waiters[l] = <<>>
       \/ owner[l] \in Contexts /\ Uses(owner[l], l)

\* All of them, and no queue but theirs.
MutexesSound ==
    /\ waiters = [l \in Locks |-> waiters[l]] /\ DOMAIN waiters = Locks
    /\ \A l \in Locks : MutexSound(l)

\* What every step has in common: the call of c changes, and nothing of a mutex that
\* is not the one of c.
ActsOn(c, l) ==
    /\ \A d \in Contexts : d # c => calls'[d] = calls[d]
    /\ \A m \in Locks \ {l} : ~Uses(c, m) /\ ~Uses(c, m)'
    /\ DOMAIN waiters' = Locks /\ waiters' = [m \in Locks |-> waiters'[m]]
    /\ \A m \in Locks \ {l} : owner'[m] = owner[m] /\ waiters'[m] = waiters[m]

\* The mutex of another call.
LEMMA OthersSound ==
    ASSUME NEW c \in Contexts, NEW l, ActsOn(c, l), NEW m \in Locks \ {l}, MutexSound(m)
    PROVE  MutexSound(m)'
<1>1. \A d \in Contexts : Uses(d, m)' <=> Uses(d, m)
  BY DEF ActsOn, Uses, In
<1>2. \A d \in Contexts : WaitsFor(d, m)' <=> WaitsFor(d, m)
  BY DEF ActsOn, WaitsFor, Uses, In
<1>3. owner'[m] = owner[m] /\ waiters'[m] = waiters[m]
  BY DEF ActsOn
<1> QED
  BY <1>1, <1>2, <1>3 DEF MutexSound, Once

\* It is enough to look at the mutex of the call.
LEMMA OneMutex ==
    ASSUME MutexesSound, NEW c \in Contexts, NEW l, ActsOn(c, l),
           l \in Locks => MutexSound(l)'
    PROVE  MutexesSound'
<1>1. ASSUME NEW m \in Locks PROVE MutexSound(m)'
  <2>1. MutexSound(m)
    BY DEF MutexesSound
  <2> QED
    BY <2>1, OthersSound
<1>2. waiters' = [m \in Locks |-> waiters'[m]] /\ DOMAIN waiters' = Locks
  BY DEF ActsOn
<1> QED
  BY <1>1, <1>2 DEF MutexesSound

\* A step of a call that neither takes nor waits for a mutex, or that keeps its place.
LEMMA QuietSound ==
    ASSUME Typed, MutexesSound, NEW c \in Contexts, UNCHANGED <<owner, waiters>>,
           \A d \in Contexts : d # c => calls'[d] = calls[d],
           \A m \in Locks : /\ WaitsFor(c, m)' /\ c # owner[m] <=> WaitsFor(c, m) /\ c # owner[m]
                            /\ Uses(c, m)' <=> Uses(c, m)
    PROVE  MutexesSound'
<1>1. ASSUME NEW m \in Locks PROVE MutexSound(m)'
  <2>1. MutexSound(m)
    BY DEF MutexesSound
  <2>2. \A d \in Contexts : Uses(d, m)' <=> Uses(d, m)
    BY DEF Uses, In
  <2>3. \A d \in Contexts : WaitsFor(d, m)' /\ d # owner[m] <=> WaitsFor(d, m) /\ d # owner[m]
    BY DEF WaitsFor, In
  <2> QED
    BY <2>1, <2>2, <2>3 DEF MutexSound, Once
<1> QED
  BY <1>1 DEF MutexesSound

\* What an action does to the call of c.
CallGoes(c, phase) ==
    /\ \A d \in Contexts : d # c => calls'[d] = calls[d]
    /\ calls'[c].phase = phase /\ calls'[c].lock = calls[c].lock

\* The owner of a mutex gives it up: the first of the queue has it.
LEMMA UnlockSound ==
    ASSUME Typed, MutexesSound, NEW c \in Contexts, NEW l \in Locks, calls[c].lock = l,
           owner[l] = c, Unlock(l), CallGoes(c, "Releasing")
    PROVE  MutexesSound'
<1> DEFINE q == waiters[l]
<1>1. MutexSound(l) /\ c # Nobody
  BY ContextsAssumption DEF MutexesSound
<1>2. \A m \in Locks \ {l} : ~Uses(c, m) /\ ~Uses(c, m)'
  BY DEF CallGoes, Uses
<1>3. ActsOn(c, l)
  BY <1>2 DEF ActsOn, CallGoes, Unlock, MutexesSound, Typed
<1>4. /\ q \in Seq(Contexts) /\ Once(q)
      /\ ToSet(q) = {d \in Contexts : WaitsFor(d, l) /\ d # c}
  BY <1>1 DEF MutexSound
<1>5. /\ \A d \in Contexts : WaitsFor(d, l)' <=> WaitsFor(d, l) /\ d # c
      /\ \A d \in Contexts : d # c => (Uses(d, l)' <=> Uses(d, l))
  BY DEF WaitsFor, Uses, In, CallGoes
<1>6. MutexSound(l)'
  <2>1. CASE q = <<>>
    <3>1. owner'[l] = Nobody /\ waiters'[l] = <<>>
      BY <2>1 DEF Unlock, Typed
    <3>2. \A d \in Contexts : ~WaitsFor(d, l)'
      BY <1>4, <1>5, <2>1 DEF ToSet
    <3>3. <<>> \in Seq(Contexts) /\ Once(<<>>) /\ ToSet(<<>>) = {}
      BY DEF Once, ToSet
    <3> QED
      BY <3>1, <3>2, <3>3 DEF MutexSound, Once
  <2>2. CASE q # <<>>
    <3>1. owner'[l] = Head(q) /\ waiters'[l] = Tail(q)
      BY <2>2 DEF Unlock, MutexesSound, Typed
    <3>2. /\ Tail(q) \in Seq(Contexts) /\ Once(Tail(q))
          /\ Head(q) \in ToSet(q) /\ ToSet(Tail(q)) = ToSet(q) \ {Head(q)}
      BY <1>4, <2>2, QueueLosesHead
    <3>3. PICK h \in Contexts : h = Head(q) /\ h # c /\ WaitsFor(h, l)
      BY <1>4, <3>2
    <3>4. Uses(h, l)'
      BY <1>5, <3>3 DEF WaitsFor, Uses
    <3>5. ToSet(Tail(q)) = {d \in Contexts : WaitsFor(d, l)' /\ d # h}
      BY <1>4, <1>5, <3>2, <3>3
    <3> HIDE DEF q
    <3>6. Once(waiters[l])' /\ waiters'[l] \in Seq(Contexts)
      BY <3>1, <3>2 DEF Once
    <3> QED
      BY <3>1, <3>3, <3>4, <3>5, <3>6 DEF MutexSound
  <2> QED
    BY <2>1, <2>2
<1> QED
  BY <1>3, <1>6, OneMutex

\* Lock: a free mutex is taken, and a call that finds it taken joins the queue, where
\* it was not.
LEMMA LockSound ==
    ASSUME Typed, MutexesSound, NEW c \in Contexts, NEW l \in Locks, calls[c].lock = l, Lock(c)
    PROVE  MutexesSound'
<1> DEFINE q == waiters[l]
<1>1. MutexSound(l) /\ c # Nobody
  BY ContextsAssumption DEF MutexesSound
<1>2. In(c, "Registered") /\ CallGoes(c, "Waiting")
  BY DEF Lock, CallGoes, Typed, Calls
<1>3. ActsOn(c, l)
  BY <1>2 DEF ActsOn, CallGoes, Lock, Uses, MutexesSound, Typed
<1>4. /\ q \in Seq(Contexts) /\ Once(q) /\ c \notin ToSet(q) /\ owner[l] # c
      /\ ToSet(q) = {d \in Contexts : WaitsFor(d, l) /\ d # owner[l]}
  BY <1>1, <1>2 DEF MutexSound, WaitsFor, Uses, In
<1>5. /\ \A d \in Contexts : WaitsFor(d, l)' <=> WaitsFor(d, l) \/ d = c
      /\ \A d \in Contexts : Uses(d, l)' <=> Uses(d, l) \/ d = c
  BY <1>2 DEF WaitsFor, Uses, In, CallGoes
<1>6. MutexSound(l)'
  <2>1. CASE owner[l] = Nobody
    <3>1. owner'[l] = c /\ waiters'[l] = q /\ q = <<>>
      BY <1>1, <2>1, ContextsAssumption DEF Lock, Typed, MutexSound
    <3>2. ToSet(q) = {d \in Contexts : WaitsFor(d, l)' /\ d # c}
      BY <1>2, <1>4, <1>5, <2>1, ContextsAssumption DEF WaitsFor, In
    <3> HIDE DEF q
    <3>3. Once(waiters[l])'
      BY <1>4, <3>1 DEF Once
    <3> QED
      BY <1>4, <1>5, <3>1, <3>2, <3>3 DEF MutexSound
  <2>2. CASE owner[l] # Nobody
    <3>1. owner' = owner /\ waiters'[l] = Append(q, c)
      BY <2>2 DEF Lock, MutexesSound
    <3>2. /\ Append(q, c) \in Seq(Contexts) /\ Once(Append(q, c))
          /\ ToSet(Append(q, c)) = ToSet(q) \cup {c}
      BY <1>4, QueueGrows
    <3>3. ToSet(Append(q, c)) = {d \in Contexts : WaitsFor(d, l)' /\ d # owner[l]}
      BY <1>4, <1>5, <3>2
    <3>4. PICK o \in Contexts : o = owner[l] /\ Uses(o, l)
      BY <1>1, <2>2 DEF MutexSound
    <3>6. Uses(o, l)'
      BY <1>5, <3>4
    <3> HIDE DEF q
    <3>5. Once(waiters[l])' /\ waiters'[l] \in Seq(Contexts)
      BY <3>1, <3>2 DEF Once
    <3> QED
      BY <3>1, <3>3, <3>4, <3>5, <3>6 DEF MutexSound
  <2> QED
    BY <2>1, <2>2
<1> QED
  BY <1>3, <1>6, OneMutex

\* Cancel: a call that was not granted the mutex leaves the queue.
LEMMA LeaveSound ==
    ASSUME Typed, MutexesSound, NEW c \in Contexts, NEW l \in Locks, calls[c].lock = l,
           owner[l] # c, Leave(c, l), UNCHANGED owner, In(c, "Waiting"), CallGoes(c, "Releasing")
    PROVE  MutexesSound'
<1> DEFINE q == waiters[l]
<1>1. MutexSound(l)
  BY DEF MutexesSound
<1>2. PICK n \in DOMAIN q : q[n] = c /\ waiters' = [waiters EXCEPT ![l] = RemoveAt(@, n)]
  BY DEF Leave
<1>3. ActsOn(c, l)
  BY <1>2 DEF ActsOn, CallGoes, Uses, MutexesSound
<1>4. /\ q \in Seq(Contexts) /\ Once(q)
      /\ ToSet(q) = {d \in Contexts : WaitsFor(d, l) /\ d # owner[l]}
  BY <1>1 DEF MutexSound
<1>5. /\ \A d \in Contexts : WaitsFor(d, l)' <=> WaitsFor(d, l) /\ d # c
      /\ \A d \in Contexts : d # c => (Uses(d, l)' <=> Uses(d, l))
  BY DEF WaitsFor, Uses, In, CallGoes
<1>6. waiters'[l] = RemoveAt(q, n)
  BY <1>2 DEF MutexesSound
<1>7. /\ RemoveAt(q, n) \in Seq(Contexts) /\ Once(RemoveAt(q, n))
      /\ ToSet(RemoveAt(q, n)) = ToSet(q) \ {c}
  BY <1>2, <1>4, QueueLosesOne
<1>8. ToSet(RemoveAt(q, n)) = {d \in Contexts : WaitsFor(d, l)' /\ d # owner[l]}
  BY <1>4, <1>5, <1>7
<1>9. PICK o \in Contexts : o = owner[l] /\ Uses(o, l)
  BY <1>1, <1>2 DEF MutexSound
<1>10. Uses(o, l)'
  BY <1>5, <1>9
<1> HIDE DEF q
<1>11. Once(waiters[l])' /\ waiters'[l] \in Seq(Contexts)
  BY <1>6, <1>7 DEF Once
<1>12. MutexSound(l)'
  BY <1>6, <1>8, <1>9, <1>11, <1>10 DEF MutexSound
<1> QED
  BY <1>3, <1>12, OneMutex

\* Every step keeps the mutexes.
LEMMA NextSound ==
    ASSUME Inv, MutexesSound, Next
    PROVE  MutexesSound'
<1>1. CASE Dispose
  <2>1. \A m \in Locks : MutexSound(m)'
    BY <1>1 DEF Dispose, MutexesSound, MutexSound, Once, WaitsFor, Uses, In
  <2> QED
    BY <1>1, <2>1 DEF Dispose, MutexesSound
<1>2. ASSUME NEW c \in Contexts, NEW k \in Keys, Register(c, k) PROVE MutexesSound'
  <2>1. In(c, "Idle") /\ UNCHANGED <<owner, waiters>> /\ calls'[c].phase = "Registered"
        /\ \A d \in Contexts : d # c => calls'[d] = calls[d]
    BY <1>2 DEF Register, Inv, Typed
  <2> QED
    BY <2>1, QuietSound DEF Inv, WaitsFor, Uses, In
<1>3. ASSUME NEW c \in Contexts, Busy(c),
             \/ Lock(c) \/ Admit(c) \/ Cancel(c)
             \/ Reenter(c) \/ DropNested(c) \/ DropLast(c) \/ Unregister(c)
      PROVE  MutexesSound'
  <2>0. PICK l \in Locks : calls[c].lock = l
    BY <1>3 DEF Inv, Typed
  <2>1. CASE Lock(c)
    BY <2>0, <2>1, LockSound DEF Inv
  <2>2. CASE Admit(c)
    <3>1. CASE disposed
      <4>1. CallGoes(c, "Releasing") /\ Unlock(l) /\ owner[l] = c
        BY <2>0, <2>2, <3>1 DEF Admit, CallGoes, Inv, Typed, Calls
      <4> QED
        BY <2>0, <4>1, UnlockSound DEF Inv
    <3>2. CASE ~disposed
      <4>1. CallGoes(c, "Holding") /\ UNCHANGED <<owner, waiters>> /\ owner[l] = c /\ In(c, "Waiting")
        BY <2>0, <2>2, <3>2 DEF Admit, CallGoes, Inv, Typed, Calls
      <4> QED
        BY <2>0, <4>1, QuietSound DEF Inv, WaitsFor, Uses, In, CallGoes
    <3> QED
      BY <3>1, <3>2
  <2>3. CASE Cancel(c)
    <3>1. CallGoes(c, "Releasing") /\ In(c, "Waiting")
      BY <2>3 DEF Cancel, CallGoes, Inv, Typed, Calls
    <3>2. CASE owner[l] = c
      BY <2>0, <2>3, <3>1, <3>2, UnlockSound DEF Cancel, Inv
    <3>3. CASE owner[l] # c
      BY <2>0, <2>3, <3>1, <3>3, LeaveSound DEF Cancel, Inv
    <3> QED
      BY <3>2, <3>3
  <2>4. CASE Reenter(c) \/ DropNested(c)
    <3>1. CallGoes(c, "Holding") /\ UNCHANGED <<owner, waiters>> /\ In(c, "Holding")
      BY <2>4 DEF Reenter, DropNested, CallGoes, Inv, Typed, Calls, In
    <3> QED
      BY <3>1, QuietSound DEF Inv, WaitsFor, Uses, In, CallGoes
  <2>5. CASE DropLast(c)
    <3>1. CallGoes(c, "Releasing") /\ In(c, "Holding") /\ Unlock(l)
      BY <2>0, <2>5 DEF DropLast, CallGoes, Inv, Typed, Calls
    <3>2. owner[l] = c
      BY <2>0, <3>1 DEF Inv, HolderOwns
    <3> QED
      BY <2>0, <3>1, <3>2, UnlockSound DEF Inv
  <2>6. CASE Unregister(c)
    <3>1. In(c, "Releasing") /\ UNCHANGED <<owner, waiters>> /\ calls'[c].phase = "Idle"
          /\ \A d \in Contexts : d # c => calls'[d] = calls[d]
      BY <2>6 DEF Unregister, Inv, Typed, NoCall
    <3> QED
      BY <3>1, QuietSound DEF Inv, WaitsFor, Uses, In
  <2> QED
    BY <1>3, <2>1, <2>2, <2>3, <2>4, <2>5, <2>6
<1>4. ASSUME NEW c \in Contexts,
             \/ Lock(c) \/ Admit(c) \/ Cancel(c)
             \/ Reenter(c) \/ DropNested(c) \/ DropLast(c) \/ Unregister(c)
      PROVE  Busy(c)
  BY <1>4 DEF Busy, In, Lock, Admit, Cancel, Reenter, DropNested, DropLast, Unregister
<1> QED
  BY <1>1, <1>2, <1>3, <1>4 DEF Next

\* The inductive invariant of the whole helper.
Whole == Inv /\ MutexesSound

\* It holds in every state.
LEMMA WholeHolds == Spec => []Whole
<1>1. Init => Whole
  <2> SUFFICES ASSUME Init
               PROVE  Whole
    OBVIOUS
  <2>1. \A m \in Locks : owner[m] = Nobody /\ waiters[m] = <<>>
    BY DEF Init
  <2>2. \A c \in Contexts, m \in Locks : ~WaitsFor(c, m)
    BY DEF Init, NoCall, WaitsFor, In
  <2>3. <<>> \in Seq(Contexts) /\ Once(<<>>) /\ ToSet(<<>>) = {}
    BY DEF Once, ToSet
  <2>4. \A m \in Locks : MutexSound(m)
    BY <2>1, <2>2, <2>3 DEF MutexSound
  <2>5. waiters = [l \in Locks |-> waiters[l]] /\ DOMAIN waiters = Locks
    BY DEF Init
  <2> QED
    BY <2>4, <2>5, InitInv DEF Whole, MutexesSound
<1>2. Whole /\ [Next]_vars => Whole'
  <2> SUFFICES ASSUME Whole, [Next]_vars
               PROVE  Whole'
    OBVIOUS
  <2>1. Inv'
    BY NextInv DEF Whole
  <2>2. CASE Next
    BY <2>1, <2>2, NextSound DEF Whole
  <2>3. CASE UNCHANGED vars
    <3>1. \A m \in Locks : MutexSound(m)'
      BY <2>3 DEF vars, Whole, MutexesSound, MutexSound, Once, WaitsFor, Uses, In
    <3> QED
      BY <2>1, <2>3, <3>1 DEF vars, Whole, MutexesSound
  <2> QED
    BY <2>2, <2>3
<1> QED
  BY <1>1, <1>2, PTL DEF Spec

\* The map and the calls of UserManagerLockHelper are well-formed in every state.
THEOREM LockTypeCorrect == Spec => []TypeOK
<1>1. Whole => TypeOK
  <2> SUFFICES ASSUME Whole
               PROVE  TypeOK
    OBVIOUS
  <2>1. DOMAIN entries \subseteq Keys
    BY DEF Whole, Inv, EntriesExact
  <2>2. owner \in [Locks -> Contexts \cup {Nobody}]
    BY DEF Whole, Inv, Typed, MutexesSound, MutexSound
  <2>3. waiters \in [Locks -> Seq(Contexts)]
    BY DEF Whole, MutexesSound, MutexSound
  <2> QED
    BY <2>1, <2>2, <2>3 DEF TypeOK, Whole, Inv, Typed, Calls
<1> QED
  BY <1>1, WholeHolds, PTL

\* A waiting call of UserManagerLockHelper::lock has its mutex or stands in the queue
\* of one that a live call has: with its owner each mutex has its waiters, neither more
\* nor fewer, whatever calls were refused or cancelled on the way.
THEOREM MutexesAreNotLost == Spec => []NoMutexIsLost
<1>1. Whole => NoMutexIsLost
  <2> SUFFICES ASSUME Whole, NEW c \in Contexts, In(c, "Waiting"), owner[calls[c].lock] # c
               PROVE  LET l == calls[c].lock
                      IN  /\ c \in ToSet(waiters[l])
                          /\ \E d \in Contexts \ {c} :
                                /\ owner[l] = d /\ calls[d].lock = l
                                /\ In(d, "Waiting") \/ In(d, "Holding")
    BY DEF NoMutexIsLost
  <2>1. PICK l \in Locks : calls[c].lock = l
    BY DEF Whole, Inv, Typed, Busy, In
  <2>2. MutexSound(l)
    BY DEF Whole, MutexesSound
  <2>3. c \in ToSet(waiters[l])
    BY <2>1, <2>2 DEF MutexSound, WaitsFor
  <2>4. waiters[l] # <<>>
    BY <2>3 DEF ToSet
  <2>5. owner[l] \in Contexts /\ Uses(owner[l], l)
    BY <2>2, <2>4 DEF MutexSound
  <2> QED
    BY <2>1, <2>3, <2>5 DEF Uses
<1> QED
  BY <1>1, WholeHolds, PTL

-----------------------------------------------------------------------------
(* The last administrator *)

Row == [admin : BOOLEAN, disabled : BOOLEAN, password : Nat]
Client == [step : {"rest", "login", "holds", "checked"}, ids : SUBSET Nat, policy : Policies,
           deletes : BOOLEAN, locked : SUBSET Nat, seen : Nat]

AccountsTyped ==
    /\ accounts \in [DOMAIN accounts -> Row]
    /\ Existing \subseteq 1 .. lastAccount
    /\ clients \in [Clients -> Client]
    /\ lastAccount \in Nat /\ lastPassword \in Nat

HoldsLock(c) == clients[c].step \in {"holds", "checked"}

OneLockHolder == \A c, d \in Clients : HoldsLock(c) /\ HoldsLock(d) => c = d

\* The change that c is about to make leaves an administrator.
Leaves(c) ==
    \/ Administrators \ clients[c].ids # {}
    \/ ~clients[c].deletes /\ clients[c].policy.admin /\ clients[c].ids \cap Existing # {}

ChangesLeave == \A c \in Clients : clients[c].step = "checked" => Leaves(c)

AccountsInv == AccountsTyped /\ OneLockHolder /\ AdministratorStays /\ ChangesLeave

\* More than one administrator: whoever u is, there is another.
LEMMA AnotherAdministrator ==
    ASSUME NEW u, AdministratorStays,
           accounts[u].admin => Cardinality(Administrators) > 1
    PROVE  Administrators \ {u} # {}
<1>1. CASE Administrators = {u}
  <2>1. accounts[u].admin
    BY <1>1 DEF Administrators
  <2>2. Cardinality(Administrators) = 1
    BY <1>1, FS_Singleton
  <2> QED
    BY <2>1, <2>2
<1>2. CASE Administrators # {u}
  BY <1>2 DEF AdministratorStays
<1> QED
  BY <1>1, <1>2

\* A step after which every account still exists, administrators are administrators, and
\* no client checks a change or takes the lock.
LEMMA OnlyMore ==
    ASSUME AccountsInv, AccountsTyped',
           Existing \subseteq Existing',
           Administrators \subseteq Administrators',
           \A c \in Clients : clients'[c] = clients[c] \/ clients'[c].step \in {"rest", "login"}
    PROVE  AccountsInv'
<1>1. OneLockHolder'
  BY DEF AccountsInv, OneLockHolder, HoldsLock
<1>2. AdministratorStays'
  BY DEF AccountsInv, AdministratorStays
<1>3. ChangesLeave'
  <2> SUFFICES ASSUME NEW c \in Clients, clients'[c].step = "checked"
               PROVE  Leaves(c)'
    BY DEF ChangesLeave
  <2>1. clients'[c] = clients[c] /\ Leaves(c)
    BY DEF AccountsInv, ChangesLeave
  <2> QED
    BY <2>1 DEF Leaves
<1> QED
  BY <1>1, <1>2, <1>3 DEF AccountsInv

\* Who holds the lock checks a change that leaves an administrator.
LEMMA ChecksInv ==
    ASSUME AccountsInv, NEW c \in Clients, NEW change \in Client,
           Checks(c, change), change.step = "checked",
           \/ Administrators \ change.ids # {}
           \/ ~change.deletes /\ change.policy.admin /\ change.ids \cap Existing # {}
    PROVE  AccountsInv'
<1>1. /\ clients[c].step = "holds"
      /\ clients' = [clients EXCEPT ![c] = change]
      /\ UNCHANGED <<accounts, lastAccount, lastPassword>>
  BY DEF Checks, Becomes
<1>2. clients'[c] = change /\ \A d \in Clients \ {c} : clients'[d] = clients[d]
  BY <1>1 DEF AccountsInv, AccountsTyped
<1>3. AccountsTyped'
  BY <1>1 DEF AccountsInv, AccountsTyped, Existing
<1>4. OneLockHolder'
  BY <1>1, <1>2 DEF AccountsInv, OneLockHolder, HoldsLock
<1>5. AdministratorStays'
  BY <1>1 DEF AccountsInv, AdministratorStays, Administrators, Existing
<1>6. ChangesLeave'
  <2> SUFFICES ASSUME NEW d \in Clients, clients'[d].step = "checked"
               PROVE  Leaves(d)'
    BY DEF ChangesLeave
  <2>1. d = c
    BY <1>1, <1>2 DEF AccountsInv, OneLockHolder, HoldsLock
  <2> QED
    BY <1>1, <1>2, <2>1 DEF Leaves, Administrators, Existing
<1> QED
  BY <1>3, <1>4, <1>5, <1>6 DEF AccountsInv

\* The advisory lock is taken by one request at a time.
LEMMA TakeLockInv ==
    ASSUME AccountsInv, NEW c \in Clients, TakeLock(c)
    PROVE  AccountsInv'
<1> DEFINE client == [AtRest EXCEPT !.step = "holds"]
<1>1. /\ clients' = [clients EXCEPT ![c] = client]
      /\ UNCHANGED <<accounts, lastAccount, lastPassword>>
      /\ \A d \in Clients : ~HoldsLock(d)
  BY DEF TakeLock, LockFree, Becomes, HoldsLock
<1>2. client \in Client /\ client.step = "holds"
  BY DEF AtRest, Client, Policies
<1> HIDE DEF client
<1>3. clients'[c] = client /\ \A d \in Clients \ {c} : clients'[d] = clients[d]
  BY <1>1 DEF AccountsInv, AccountsTyped
<1>4. AccountsTyped'
  BY <1>1, <1>2 DEF AccountsInv, AccountsTyped, Existing
<1>5. OneLockHolder'
  BY <1>1, <1>3 DEF OneLockHolder, HoldsLock
<1>6. AdministratorStays'
  BY <1>1 DEF AccountsInv, AdministratorStays, Administrators, Existing
<1>7. ChangesLeave'
  BY <1>1, <1>2, <1>3 DEF ChangesLeave, HoldsLock
<1> QED
  BY <1>4, <1>5, <1>6, <1>7 DEF AccountsInv

\* What the three checks have found out is what ChecksInv asks for.
LEMMA CheckDeleteInv ==
    ASSUME AccountsInv, NEW c \in Clients, NEW u \in Existing, CheckDelete(c, u)
    PROVE  AccountsInv'
<1> DEFINE change == [AtRest EXCEPT !.step = "checked", !.ids = {u}, !.deletes = TRUE]
<1>0. u \in Nat
  BY DEF AccountsInv, AccountsTyped
<1>1. change \in Client /\ change.step = "checked" /\ change.ids = {u}
  BY <1>0 DEF AtRest, Client, Policies
<1>2. Checks(c, change)
  BY DEF CheckDelete
<1>3. Administrators \ {u} # {}
  BY AnotherAdministrator DEF CheckDelete, AccountsInv
<1> QED
  BY <1>1, <1>2, <1>3, ChecksInv

\* update_policy: a policy that demotes is checked against the other administrators.
LEMMA CheckPolicyInv ==
    ASSUME AccountsInv, NEW c \in Clients, NEW u \in Existing, NEW policy \in Policies,
           CheckPolicy(c, u, policy)
    PROVE  AccountsInv'
<1> DEFINE change == [AtRest EXCEPT !.step = "checked", !.ids = {u}, !.policy = policy]
<1>0. u \in Nat
  BY DEF AccountsInv, AccountsTyped
<1>1. /\ change \in Client /\ change.step = "checked" /\ change.ids = {u}
      /\ change.policy = policy /\ ~change.deletes
  BY <1>0 DEF AtRest, Client, Policies
<1>2. Checks(c, change)
  BY DEF CheckPolicy
<1>3. CASE policy.admin
  BY <1>1, <1>2, <1>3, ChecksInv
<1>4. CASE ~policy.admin
  <2>1. Administrators \ {u} # {}
    BY <1>4, AnotherAdministrator DEF CheckPolicy, AccountsInv
  <2> QED
    BY <1>1, <1>2, <2>1, ChecksInv
<1> QED
  BY <1>3, <1>4

\* copy_to_users: the accounts that take the policy are not all there is.
LEMMA CheckCopyInv ==
    ASSUME AccountsInv, NEW c \in Clients, NEW source \in Existing,
           NEW targets \in SUBSET Existing, CheckCopy(c, source, targets)
    PROVE  AccountsInv'
<1> DEFINE ids == targets \ {source}
           policy == PolicyOf(source)
           change == [AtRest EXCEPT !.step = "checked", !.ids = ids, !.policy = policy,
                                    !.locked = {source} \cup targets]
<1>1. policy \in Policies /\ policy.admin = accounts[source].admin
  BY DEF PolicyOf, Policies, AccountsInv, AccountsTyped, Existing, Row
<1>2. ids \subseteq Nat /\ {source} \cup targets \subseteq Nat
  BY DEF AccountsInv, AccountsTyped
<1>3. Checks(c, change)
  BY DEF CheckCopy
<1>4. ids # {} => policy.admin \/ Administrators \ ids # {}
  BY DEF CheckCopy
<1>5. ids = {} => Administrators \ ids # {}
  BY DEF AccountsInv, AdministratorStays
<1>6. ids \subseteq Existing
  OBVIOUS
<1> HIDE DEF ids, policy
<1>7. /\ change \in Client /\ change.step = "checked" /\ change.ids = ids
      /\ change.policy = policy /\ ~change.deletes
  BY <1>1, <1>2 DEF AtRest, Client
<1> QED
  BY <1>3, <1>4, <1>5, <1>6, <1>7, ChecksInv

\* The checked change is made: what it was checked for still holds.
LEMMA CommitInv ==
    ASSUME AccountsInv, NEW c \in Clients, Commit(c)
    PROVE  AccountsInv'
<1> DEFINE change == clients[c]
<1>1. /\ change \in Client /\ change.step = "checked" /\ Leaves(c)
      /\ clients' = [clients EXCEPT ![c] = AtRest]
      /\ UNCHANGED <<lastAccount, lastPassword>>
  BY DEF Commit, Becomes, AccountsInv, AccountsTyped, ChangesLeave
<1>2. AtRest \in Client /\ AtRest.step = "rest"
  BY DEF AtRest, Client, Policies
<1>3. clients' \in [Clients -> Client] /\ \A d \in Clients : ~HoldsLock(d)'
  <2>1. \A d \in Clients \ {c} : ~HoldsLock(d) /\ clients'[d] = clients[d]
    BY <1>1 DEF AccountsInv, AccountsTyped, OneLockHolder, HoldsLock
  <2>2. clients'[c] = AtRest /\ clients' \in [Clients -> Client]
    BY <1>1, <1>2 DEF AccountsInv, AccountsTyped
  <2> QED
    BY <1>2, <2>1, <2>2 DEF HoldsLock
<1>4. OneLockHolder' /\ ChangesLeave'
  BY <1>3 DEF OneLockHolder, ChangesLeave, HoldsLock
<1>5. CASE change.deletes
  <2>1. accounts' = [u \in Existing \ change.ids |-> accounts[u]]
    BY <1>5 DEF Commit
  <2>2. Existing' = Existing \ change.ids
    BY <2>1 DEF Existing
  <2>3. AccountsTyped'
    BY <1>1, <1>3, <2>1, <2>2 DEF AccountsInv, AccountsTyped, Existing
  <2>4. Administrators' = Administrators \ change.ids
    BY <2>1, <2>2 DEF Administrators, Existing
  <2> QED
    BY <1>1, <1>4, <1>5, <2>3, <2>4 DEF AccountsInv, AdministratorStays, Leaves
<1>6. CASE ~change.deletes
  <2> DEFINE changed(u) == Account(change.policy, accounts[u].password)
  <2>1. accounts' = [u \in Existing |-> IF u \in change.ids THEN changed(u) ELSE accounts[u]]
    BY <1>6 DEF Commit
  <2>2. \A u \in Existing : changed(u) \in Row /\ changed(u).admin = change.policy.admin
    BY <1>1 DEF Account, Row, Client, Policies, AccountsInv, AccountsTyped, Existing
  <2> HIDE DEF changed
  <2>3. Existing' = Existing
    BY <2>1 DEF Existing
  <2>4. AccountsTyped'
    BY <1>1, <1>3, <2>1, <2>2, <2>3 DEF AccountsInv, AccountsTyped, Existing
  <2>5. Administrators' = {u \in Existing : IF u \in change.ids THEN change.policy.admin
                                            ELSE accounts[u].admin}
    BY <2>1, <2>2, <2>3 DEF Administrators, Existing
  <2>6. AdministratorStays'
    BY <1>1, <2>5 DEF AdministratorStays, Leaves, Administrators
  <2> QED
    BY <1>4, <2>4, <2>6 DEF AccountsInv
<1> QED
  BY <1>5, <1>6

\* The steps that change no account.
LEMMA SameAccounts ==
    ASSUME AccountsInv, NEW c \in Clients, NEW client \in Client,
           client.step \in {"rest", "login"},
           Becomes(c, client), UNCHANGED accounts
    PROVE  AccountsInv'
<1>1. AccountsTyped' /\ \A d \in Clients : clients'[d] = clients[d] \/ clients'[d] = client
  BY DEF Becomes, AccountsInv, AccountsTyped, Existing
<1>2. Existing' = Existing /\ Administrators' = Administrators
  BY DEF Existing, Administrators
<1> QED
  BY <1>1, <1>2, OnlyMore

\* The steps that leave each account what it is.
LEMMA SameRoles ==
    ASSUME AccountsInv, NEW u \in Existing, NEW row \in Row, row.admin = accounts[u].admin,
           accounts' = [accounts EXCEPT ![u] = row],
           UNCHANGED lastAccount, lastPassword' \in Nat,
           clients' \in [Clients -> Client],
           \A c \in Clients : clients'[c] = clients[c] \/ clients'[c].step = "rest"
    PROVE  AccountsInv'
<1>1. Existing' = Existing
  BY DEF Existing, AccountsInv, AccountsTyped
<1>2. AccountsTyped'
  BY <1>1 DEF AccountsInv, AccountsTyped, Existing
<1>3. Administrators' = Administrators
  BY <1>1 DEF Administrators, AccountsInv, AccountsTyped, Existing
<1> QED
  BY <1>1, <1>2, <1>3, OnlyMore

\* A request that ends leaves the others where they are.
LEMMA ClientEnds ==
    ASSUME AccountsInv, NEW c \in Clients, Becomes(c, AtRest)
    PROVE  /\ clients' \in [Clients -> Client]
           /\ \A d \in Clients : clients'[d] = clients[d] \/ clients'[d].step = "rest"
           /\ UNCHANGED lastAccount /\ lastPassword' \in Nat
<1>1. AtRest \in Client /\ AtRest.step = "rest"
  BY DEF AtRest, Client, Policies
<1> QED
  BY <1>1 DEF Becomes, AccountsInv, AccountsTyped

\* A login rehashes a password or counts a failure, and locks no administrator out.
LEMMA LoginInv ==
    ASSUME AccountsInv, NEW c \in Clients, LoginSucceeds(c) \/ LoginFails(c)
    PROVE  AccountsInv'
<1>1. Becomes(c, AtRest) /\ clients[c] \in Client
  BY DEF LoginSucceeds, LoginFails, AccountsInv, AccountsTyped
<1>2. CASE LoginSucceeds(c)
  <2>1. PICK u \in Existing : accounts' = [accounts EXCEPT ![u].password = LoginPassword(c, u)]
    BY <1>2 DEF LoginSucceeds
  <2> DEFINE row == [accounts[u] EXCEPT !.password = LoginPassword(c, u)]
  <2>2. row \in Row /\ row.admin = accounts[u].admin
    BY <1>1 DEF LoginPassword, Client, Row, AccountsInv, AccountsTyped, Existing
  <2>3. accounts' = [accounts EXCEPT ![u] = row]
    BY <2>1
  <2> QED
    BY <1>1, <2>2, <2>3, ClientEnds, SameRoles
<1>3. CASE LoginFails(c)
  <2>1. PICK u \in Existing, lockout \in BOOLEAN :
           accounts' = [accounts EXCEPT ![u].disabled = @ \/ (lockout /\ ~accounts[u].admin)]
    BY <1>3 DEF LoginFails
  <2> DEFINE disabled == accounts[u].disabled \/ (lockout /\ ~accounts[u].admin)
             row == [accounts[u] EXCEPT !.disabled = disabled]
  <2>2. disabled \in BOOLEAN
    BY DEF Row, AccountsInv, AccountsTyped, Existing
  <2>3. accounts' = [accounts EXCEPT ![u] = row]
    BY <2>1
  <2> HIDE DEF disabled
  <2>4. row \in Row /\ row.admin = accounts[u].admin
    BY <2>2 DEF Row, AccountsInv, AccountsTyped, Existing
  <2> QED
    BY <1>1, <2>3, <2>4, ClientEnds, SameRoles
<1> QED
  BY <1>2, <1>3

\* A new password changes no role.
LEMMA PasswordInv ==
    ASSUME AccountsInv, NEW u \in Existing, ChoosePassword(u)
    PROVE  AccountsInv'
<1> DEFINE row == [accounts[u] EXCEPT !.password = lastPassword']
<1>1. /\ lastPassword' \in Nat
      /\ accounts' = [accounts EXCEPT ![u] = row]
      /\ UNCHANGED <<clients, lastAccount>>
  BY DEF ChoosePassword, AccountsInv, AccountsTyped
<1>2. row \in Row /\ row.admin = accounts[u].admin
  BY <1>1 DEF Row, AccountsInv, AccountsTyped, Existing
<1>3. clients' \in [Clients -> Client]
  BY <1>1 DEF AccountsInv, AccountsTyped
<1> QED
  BY <1>1, <1>2, <1>3, SameRoles

\* A new account takes nothing from the others.
LEMMA InsertInv ==
    ASSUME AccountsInv, NEW policy \in Policies, Insert(policy)
    PROVE  AccountsInv'
<1> DEFINE new == lastAccount + 1
           row == Account(policy, 0)
<1>1. /\ accounts' = [u \in Existing \cup {new} |-> IF u = new THEN row ELSE accounts[u]]
      /\ lastAccount' = new /\ UNCHANGED <<clients, lastPassword>>
  BY DEF Insert
<1>2. row \in Row /\ new \notin Existing /\ new \in Nat
  BY DEF Account, Row, Policies, AccountsInv, AccountsTyped
<1> HIDE DEF row
<1>3. Existing' = Existing \cup {new}
  BY <1>1 DEF Existing
<1>4. AccountsTyped'
  <2>1. accounts' \in [DOMAIN accounts' -> Row]
    BY <1>1, <1>2 DEF AccountsInv, AccountsTyped, Existing
  <2>2. Existing' \subseteq 1 .. lastAccount'
    BY <1>1, <1>2, <1>3 DEF AccountsInv, AccountsTyped
  <2> QED
    BY <1>1, <1>2, <2>1, <2>2 DEF AccountsInv, AccountsTyped
<1>5. Administrators \subseteq Administrators'
  BY <1>1, <1>2, <1>3 DEF Administrators, Existing
<1> QED
  BY <1>1, <1>3, <1>4, <1>5, OnlyMore

\* A restart forgets the requests and may make the first user an administrator.
LEMMA RestartInv ==
    ASSUME AccountsInv, Restart
    PROVE  AccountsInv'
<1> DEFINE first == Min(Existing)
<1>1. /\ clients' = [c \in Clients |-> AtRest]
      /\ \/ accounts' = accounts
         \/ accounts' = [accounts EXCEPT ![first].admin = TRUE]
      /\ UNCHANGED <<lastAccount, lastPassword>>
  BY DEF Restart
<1>2. AtRest \in Client /\ AtRest.step = "rest"
  BY DEF AtRest, Client, Policies
<1> HIDE DEF first
<1>3. Existing' = Existing
  BY <1>1 DEF Existing, AccountsInv, AccountsTyped
<1>4. AccountsTyped'
  BY <1>1, <1>2, <1>3 DEF AccountsInv, AccountsTyped, Existing, Row
<1>5. Administrators \subseteq Administrators'
  BY <1>1, <1>3 DEF Administrators, AccountsInv, AccountsTyped, Existing, Row
<1> QED
  BY <1>1, <1>2, <1>3, <1>4, <1>5, OnlyMore

\* The invariant holds in the initial state.
LEMMA AccountsInitInv == AccountsInit => AccountsInv
<1> SUFFICES ASSUME AccountsInit
             PROVE  AccountsInv
  OBVIOUS
<1> DEFINE row == Account([admin |-> TRUE, disabled |-> FALSE], 0)
<1>1. row \in Row /\ row.admin
  BY DEF Account, Row
<1>2. accounts = [u \in {1} |-> row] /\ lastAccount = 1 /\ lastPassword = 0
  BY DEF AccountsInit
<1> HIDE DEF row
<1>3. \A c \in Clients : clients[c] \in Client /\ clients[c].step = "rest"
  BY DEF AccountsInit, AtRest, Client, Policies
<1>4. AccountsTyped
  BY <1>1, <1>2, <1>3 DEF AccountsInit, AccountsTyped, Existing
<1>5. OneLockHolder /\ ChangesLeave
  BY <1>3 DEF OneLockHolder, HoldsLock, ChangesLeave
<1>6. AdministratorStays
  BY <1>1, <1>2 DEF AdministratorStays, Administrators, Existing
<1> QED
  BY <1>4, <1>5, <1>6 DEF AccountsInv

\* Every step keeps the invariant.
LEMMA AccountsNextInv == AccountsInv /\ [AccountsNext]_accountVars => AccountsInv'
<1> SUFFICES ASSUME AccountsInv, [AccountsNext]_accountVars
             PROVE  AccountsInv'
  OBVIOUS
<1>1. CASE Create
  BY <1>1, InsertInv DEF Create, Policies
<1>2. ASSUME NEW u \in Existing, CreateWithCopy(u)
      PROVE  AccountsInv'
  <2>1. PolicyOf(u) \in Policies
    BY DEF PolicyOf, Policies, AccountsInv, AccountsTyped, Existing, Row
  <2> QED
    BY <1>2, <2>1, InsertInv DEF CreateWithCopy
<1>3. ASSUME NEW u \in Existing, SetPassword(u) \/ RedeemPin(u)
      PROVE  AccountsInv'
  BY <1>3, PasswordInv DEF SetPassword, RedeemPin
<1>4. ASSUME NEW c \in Clients, NEW u \in Existing, CheckDelete(c, u)
      PROVE  AccountsInv'
  BY <1>4, CheckDeleteInv
<1>5. ASSUME NEW c \in Clients, NEW u \in Existing, NEW policy \in Policies, CheckPolicy(c, u, policy)
      PROVE  AccountsInv'
  BY <1>5, CheckPolicyInv
<1>6. ASSUME NEW c \in Clients, NEW u \in Existing, NEW targets \in SUBSET Existing \ {{}},
             CheckCopy(c, u, targets)
      PROVE  AccountsInv'
  BY <1>6, CheckCopyInv
<1>7. ASSUME NEW c \in Clients, TakeLock(c)
      PROVE  AccountsInv'
  BY <1>7, TakeLockInv
<1>8. ASSUME NEW c \in Clients, Commit(c)
      PROVE  AccountsInv'
  BY <1>8, CommitInv
<1>9. ASSUME NEW c \in Clients, LoginSucceeds(c) \/ LoginFails(c)
      PROVE  AccountsInv'
  BY <1>9, LoginInv
<1>10. ASSUME NEW c \in Clients, GivesUp(c) \/ LoginEnds(c)
       PROVE  AccountsInv'
  <2>1. AtRest \in Client /\ AtRest.step = "rest"
    BY DEF AtRest, Client, Policies
  <2> QED
    BY <1>10, <2>1, SameAccounts DEF GivesUp, LoginEnds
<1>11. ASSUME NEW c \in Clients, NEW u \in Existing, LoginReads(c, u)
       PROVE  AccountsInv'
  <2> DEFINE client == [AtRest EXCEPT !.step = "login", !.ids = {u}, !.seen = accounts[u].password]
  <2>0. u \in Nat /\ accounts[u].password \in Nat
    <3>1. u \in Nat
      BY DEF AccountsInv, AccountsTyped
    <3>2. accounts[u] \in Row
      BY DEF AccountsInv, AccountsTyped, Existing
    <3> QED
      BY <3>1, <3>2 DEF Row
  <2>1. client \in Client /\ client.step = "login"
    BY <2>0 DEF AtRest, Client, Policies
  <2>2. Becomes(c, client) /\ UNCHANGED accounts
    BY <1>11 DEF LoginReads
  <2> HIDE DEF client
  <2> QED
    BY <2>1, <2>2, SameAccounts
<1>12. CASE UNCHANGED <<accounts, clients, lastAccount, lastPassword>>
  <2>1. AccountsTyped' /\ Existing' = Existing /\ Administrators' = Administrators
    BY <1>12 DEF AccountsInv, AccountsTyped, Existing, Administrators
  <2> QED
    BY <1>12, <2>1, OnlyMore
<1>13. CASE Restart
  BY <1>13, RestartInv
<1>14. ASSUME NEW u \in Existing, ForgotPassword(u)
       PROVE  AccountsInv'
  BY <1>12, <1>14 DEF ForgotPassword
<1>15. CASE PurgePins
  BY <1>12, <1>15 DEF PurgePins
<1>16. CASE UNCHANGED accountVars
  BY <1>12, <1>16 DEF accountVars
<1> QED
  BY <1>1, <1>2, <1>3, <1>4, <1>5, <1>6, <1>7, <1>8, <1>9, <1>10, <1>11, <1>13, <1>14, <1>15,
     <1>16 DEF AccountsNext

\* The server never loses its last administrator (delete, update_policy and copy_to_users
\* of users.rs), however many accounts and requests there are.
THEOREM AdministratorRemains == AccountsSpec => []AdministratorStays
<1>1. AccountsInv => AdministratorStays
  BY DEF AccountsInv
<1> QED
  BY <1>1, AccountsInitInv, AccountsNextInv, PTL DEF AccountsSpec
=============================================================================
