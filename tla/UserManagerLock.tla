--------------------------- MODULE UserManagerLock ---------------------------
(***************************************************************************)
(* UserManagerLockHelper of                                                *)
(* jellyfin-server-implementations/src/user_manager_lock.rs: an asynchronous *)
(* lock per user id.  A map gives every key in use a mutex and counts the  *)
(* calls that use it; the entry goes with its last user, so the next call  *)
(* makes another mutex.  The map has a lock of its own, so registration,   *)
(* the wait for the mutex, its release and deregistration are steps.       *)
(*                                                                         *)
(* A context belongs to one task, which makes one call at a time and drops *)
(* its handles itself; what only the task sees is done in the step that    *)
(* others see.  The mutex is tokio's: first come, first served.            *)
(***************************************************************************)
EXTENDS Naturals, Sequences, SequencesExt, FiniteSets

CONSTANTS Contexts,  \* UserManagerLockContext values, one per task
          Keys,      \* user ids
          NoKey,     \* the call of the context is over
          Locks,     \* Arc<AsyncMutex> objects
          NoLock,
          Nobody,    \* the mutex is free
          MaxDepth   \* bound: nested calls of a context

ASSUME ContextsAssumption == IsFiniteSet(Contexts) /\ Nobody \notin Contexts
ASSUME KeysAssumption == NoKey \notin Keys

VARIABLES disposed,  \* HelperState.disposed
          entries,   \* HelperState.entries: key -> mutex and user count
          owner,     \* the context each mutex is granted to
          waiters,   \* the contexts queued for each mutex
          calls      \* the call of each context: phase, key, mutex, depth

vars == <<disposed, entries, owner, waiters, calls>>

Phases == {"Idle", "Registered", "Waiting", "Holding", "Releasing"}

\* The map, the mutexes and the calls are well-formed: a registered key always
\* counts a natural number of users.
TypeOK ==
    /\ disposed \in BOOLEAN
    /\ DOMAIN entries \subseteq Keys
    /\ \A k \in DOMAIN entries : entries[k] \in [lock : Locks, users : Nat]
    /\ owner \in [Locks -> Contexts \cup {Nobody}]
    /\ waiters \in [Locks -> Seq(Contexts)]
    /\ calls \in [Contexts -> [phase : Phases, key : Keys \cup {NoKey},
                               lock : Locks \cup {NoLock}, depth : Nat]]

NoCall == [phase |-> "Idle", key |-> NoKey, lock |-> NoLock, depth |-> 0]

Init ==
    /\ disposed = FALSE
    /\ entries = [k \in {} |-> NoCall]
    /\ owner = [l \in Locks |-> Nobody]
    /\ waiters = [l \in Locks |-> <<>>]
    /\ calls = [c \in Contexts |-> NoCall]

In(c, phase) == calls[c].phase = phase

\* The calls that are counted as users of k.
Users(k) == {c \in Contexts : ~In(c, "Idle") /\ calls[c].key = k}

\* A mutex that no call refers to: the one Arc::new makes.
Unused == {l \in Locks : \A c \in Contexts : calls[c].lock # l}

WithEntry(k, lock, users) ==
    [j \in DOMAIN entries \cup {k} |->
        IF j = k THEN [lock |-> lock, users |-> users] ELSE entries[j]]

-----------------------------------------------------------------------------

\* register: the entry of the key, made if absent.
Register(c, k) ==
    /\ In(c, "Idle")
    /\ ~disposed
    /\ \E l \in IF k \in DOMAIN entries THEN {entries[k].lock} ELSE Unused :
          /\ entries' = WithEntry(k, l, IF k \in DOMAIN entries THEN entries[k].users + 1 ELSE 1)
          /\ calls' = [calls EXCEPT ![c] = [phase |-> "Registered", key |-> k, lock |-> l,
                                            depth |-> 0]]
    /\ UNCHANGED <<disposed, owner, waiters>>

\* The first poll of lock_owned takes a free mutex and queues for another's.
Lock(c) ==
    LET l == calls[c].lock
    IN  /\ In(c, "Registered")
        /\ calls' = [calls EXCEPT ![c].phase = "Waiting"]
        /\ IF owner[l] = Nobody
           THEN owner' = [owner EXCEPT ![l] = c] /\ UNCHANGED waiters
           ELSE waiters' = [waiters EXCEPT ![l] = Append(@, c)] /\ UNCHANGED owner
        /\ UNCHANGED <<disposed, entries>>

\* Dropping the guard grants the mutex to the first waiter.
Unlock(l) ==
    IF waiters[l] = <<>>
    THEN owner' = [owner EXCEPT ![l] = Nobody] /\ UNCHANGED waiters
    ELSE /\ owner' = [owner EXCEPT ![l] = Head(waiters[l])]
         /\ waiters' = [waiters EXCEPT ![l] = Tail(@)]

\* Mutant of Admit: a refused call keeps the mutex.
AdmitKeeping(c) ==
    /\ In(c, "Waiting")
    /\ owner[calls[c].lock] = c
    /\ calls' = [calls EXCEPT ![c].phase = IF disposed THEN "Releasing" ELSE "Holding",
                              ![c].depth = IF disposed THEN 0 ELSE 1]
    /\ UNCHANGED <<disposed, entries, owner, waiters>>

\* Disposal is checked again with the mutex taken; a refused call drops it.
Admit(c) ==
    /\ In(c, "Waiting")
    /\ owner[calls[c].lock] = c
    /\ IF disposed
       THEN /\ Unlock(calls[c].lock)
            /\ calls' = [calls EXCEPT ![c].phase = "Releasing"]
       ELSE /\ calls' = [calls EXCEPT ![c].phase = "Holding", ![c].depth = 1]
            /\ UNCHANGED <<owner, waiters>>
    /\ UNCHANGED <<disposed, entries>>

\* Mutant of Leave: the call stays in the queue.
LeaveBehind(c, l) == UNCHANGED waiters

\* A waiting call leaves the queue of the mutex.
Leave(c, l) ==
    \E n \in DOMAIN waiters[l] :
        /\ waiters[l][n] = c
        /\ waiters' = [waiters EXCEPT ![l] = RemoveAt(@, n)]

\* Mutant of Cancel: a cancelled call never deregisters.
CancelForgetting(c) ==
    LET l == calls[c].lock
    IN  /\ In(c, "Waiting")
        /\ IF owner[l] = c THEN Unlock(l)
           ELSE Leave(c, l) /\ UNCHANGED owner
        /\ calls' = [calls EXCEPT ![c] = NoCall]
        /\ UNCHANGED <<disposed, entries>>

\* The future of a waiting call is dropped: it leaves the queue, or returns the
\* mutex it was granted meanwhile.
Cancel(c) ==
    LET l == calls[c].lock
    IN  /\ In(c, "Waiting")
        /\ IF owner[l] = c THEN Unlock(l)
           ELSE Leave(c, l) /\ UNCHANGED owner
        /\ calls' = [calls EXCEPT ![c].phase = "Releasing"]
        /\ UNCHANGED <<disposed, entries>>

\* A call inside the section of the same context, whatever its key.
Reenter(c) ==
    /\ In(c, "Holding")
    /\ ~disposed
    /\ calls[c].depth < MaxDepth
    /\ calls' = [calls EXCEPT ![c].depth = @ + 1]
    /\ UNCHANGED <<disposed, entries, owner, waiters>>

DropNested(c) ==
    /\ In(c, "Holding")
    /\ calls[c].depth > 1
    /\ calls' = [calls EXCEPT ![c].depth = @ - 1]
    /\ UNCHANGED <<disposed, entries, owner, waiters>>

\* The last handle releases the mutex before the registration.
DropLast(c) ==
    /\ In(c, "Holding")
    /\ calls[c].depth = 1
    /\ Unlock(calls[c].lock)
    /\ calls' = [calls EXCEPT ![c].phase = "Releasing", ![c].depth = 0]
    /\ UNCHANGED <<disposed, entries>>

\* Mutant of Unregister: the first call to end removes the entry.
UnregisterFirst(c) ==
    /\ In(c, "Releasing")
    /\ calls' = [calls EXCEPT ![c] = NoCall]
    /\ entries' = [k \in DOMAIN entries \ {calls[c].key} |-> entries[k]]
    /\ UNCHANGED <<disposed, owner, waiters>>

\* unregister: the last user removes the entry, if it is still the call's.
Unregister(c) ==
    LET k == calls[c].key
    IN  /\ In(c, "Releasing")
        /\ calls' = [calls EXCEPT ![c] = NoCall]
        /\ entries' = IF k \notin DOMAIN entries \/ entries[k].lock # calls[c].lock
                      THEN entries
                      ELSE IF entries[k].users = 1
                           THEN [j \in DOMAIN entries \ {k} |-> entries[j]]
                           ELSE WithEntry(k, entries[k].lock, entries[k].users - 1)
        /\ UNCHANGED <<disposed, owner, waiters>>

\* Again and again, without a further effect.
Dispose ==
    /\ disposed' = TRUE
    /\ entries' = [k \in {} |-> NoCall]
    /\ UNCHANGED <<owner, waiters, calls>>

Next ==
    \/ Dispose
    \/ \E c \in Contexts :
          \/ \E k \in Keys : Register(c, k)
          \/ Lock(c) \/ Admit(c) \/ Cancel(c)
          \/ Reenter(c) \/ DropNested(c) \/ DropLast(c) \/ Unregister(c)

Spec == Init /\ [][Next]_vars

-----------------------------------------------------------------------------
(* Properties *)

\* Until disposal the map has an entry for exactly the keys in use and counts their
\* calls: no cancelled or refused call leaves an entry behind, and no release takes
\* one from a call that still waits (which would give its key a second mutex).
EntriesExact ==
    IF disposed THEN entries = [k \in {} |-> NoCall]
    ELSE /\ DOMAIN entries = {k \in Keys : Users(k) # {}}
         /\ \A k \in DOMAIN entries :
               /\ entries[k].users = Cardinality(Users(k))
               /\ \A c \in Users(k) : calls[c].lock = entries[k].lock

\* A waiting call has been granted its mutex or is queued for it, and then another
\* call, one that waits or holds, has it and will pass it on: no refused, cancelled or
\* disposed call takes a mutex with it, and none keeps its place in a queue.
NoMutexIsLost ==
    \A c \in Contexts : In(c, "Waiting") =>
        LET l == calls[c].lock
        IN  \/ owner[l] = c
            \/ /\ c \in ToSet(waiters[l])
               /\ \E d \in Contexts \ {c} :
                     /\ owner[l] = d /\ calls[d].lock = l
                     /\ In(d, "Waiting") \/ In(d, "Holding")

Abstract == INSTANCE KeyedMutex WITH
    held <- [c \in Contexts |-> IF In(c, "Holding") THEN calls[c].key ELSE NoKey],
    closed <- disposed

\* The helper is a mutex per key, whatever entries and mutexes come and go.
IsKeyedMutex == Abstract!Spec

\* Tasks run, and every holder drops its last handle in the end: nested calls do
\* not go on for ever.
LockFairness ==
    \A c \in Contexts :
        /\ WF_vars(Lock(c)) /\ WF_vars(Admit(c)) /\ WF_vars(Unregister(c))
        /\ WF_vars(DropNested(c)) /\ SF_vars(DropLast(c))

FairSpec == Spec /\ LockFairness

\* A waiting call is served, refused or cancelled in the end: no cancelled waiter
\* and no disposal loses the mutex on its way along the queue.
WaitersServed == \A c \in Contexts : In(c, "Waiting") ~> ~In(c, "Waiting")
=============================================================================
