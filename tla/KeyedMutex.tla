------------------------------ MODULE KeyedMutex ------------------------------
(***************************************************************************)
(* What UserManagerLockHelper promises its callers: a mutex per key, and   *)
(* no acquisition once the helper is disposed.  ImageProcessor has such    *)
(* mutexes as well, of cache paths, and is never closed.                   *)
(***************************************************************************)
CONSTANTS Contexts,  \* logical tasks
          Keys,      \* user ids
          NoKey      \* the task holds nothing

VARIABLES held,      \* the key each task holds
          closed     \* the helper has been disposed

Init ==
    /\ held = [c \in Contexts |-> NoKey]
    /\ closed = FALSE

Acquire(c, k) ==
    /\ ~closed
    /\ held[c] = NoKey
    /\ \A d \in Contexts : held[d] # k
    /\ held' = [held EXCEPT ![c] = k]
    /\ UNCHANGED closed

\* Holders stay valid after the helper is closed.
Release(c) ==
    /\ held[c] # NoKey
    /\ held' = [held EXCEPT ![c] = NoKey]
    /\ UNCHANGED closed

Close == closed' = TRUE /\ UNCHANGED held

Next == Close \/ \E c \in Contexts : Release(c) \/ \E k \in Keys : Acquire(c, k)

Spec == Init /\ [][Next]_<<held, closed>>
=============================================================================
