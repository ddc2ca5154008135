--------------------------- MODULE MediaItemLimiter ---------------------------
(***************************************************************************)
(* MediaItemConcurrencyLimiter of jellyfin-controller/src/library_scan.rs: *)
(* a bound on the media items processed at a time that changes while items *)
(* wait.  The state is under a mutex, and who finds no place waits on a    *)
(* Notify; a change of the state and its notification are two steps.       *)
(*                                                                         *)
(* tokio's Notify: notify_one wakes the first in the queue, or is kept for *)
(* the next to come; notify_waiters wakes all.  A woken waiter that is     *)
(* dropped instead wakes the next one, unless all were woken.              *)
(***************************************************************************)
EXTENDS Naturals, FiniteSets, Sequences, SequencesExt

CONSTANTS Items,    \* items that are processed, each again and again
          MaxLimit  \* bound: the largest limit that is set

ASSUME LimiterAssumption == IsFiniteSet(Items) /\ MaxLimit \in Nat \ {0}

VARIABLES limit,
          inFlight,
          items,     \* each item: its phase, and how its Notified was woken
          waiters,   \* the queue of the Notify
          kept,      \* a notify_one found nobody
          settings   \* a change of the limit has yet to notify

limiterVars == <<limit, inFlight, items, waiters, kept, settings>>

LimiterInit ==
    /\ limit \in 1..MaxLimit
    /\ inFlight = 0
    /\ items = [i \in Items |-> [phase |-> "None", woken |-> "No"]]
    /\ waiters = <<>>
    /\ kept = FALSE
    /\ settings = FALSE

ItemIs(i, phase) == items[i].phase = phase

ItemGoes(i, phase) == items' = [items EXCEPT ![i].phase = phase]

\* notify_one to the queue q, when i goes to a phase.
NotifyOne(i, phase, q) ==
    LET gone == [items EXCEPT ![i] = [phase |-> phase, woken |-> "No"]]
    IN  IF q = <<>>
        THEN kept' = TRUE /\ waiters' = q /\ items' = gone
        ELSE /\ waiters' = Tail(q)
             /\ items' = [gone EXCEPT ![Head(q)].woken = "One"]
             /\ UNCHANGED kept

\* The Notified of i is dropped: out of the queue, or its wake-up for the next one.
DropNotified(i, phase) ==
    IF items[i].woken = "One"
    THEN NotifyOne(i, phase, waiters)
    ELSE /\ \/ i \notin ToSet(waiters) /\ UNCHANGED waiters
            \/ \E n \in DOMAIN waiters : waiters[n] = i /\ waiters' = RemoveAt(waiters, n)
         /\ items' = [items EXCEPT ![i] = [phase |-> phase, woken |-> "No"]]
         /\ UNCHANGED kept

-----------------------------------------------------------------------------

\* acquire, at first or woken: a Notified is enabled, which uses up what was kept.
RegisterItem(i) ==
    /\ ItemIs(i, "None") \/ (ItemIs(i, "Waiting") /\ items[i].woken # "No")
    /\ waiters' = IF kept THEN waiters ELSE Append(waiters, i)
    /\ kept' = FALSE
    /\ items' = [items EXCEPT ![i] = [phase |-> "Registered", woken |-> IF kept THEN "All" ELSE "No"]]
    /\ UNCHANGED <<limit, inFlight, settings>>

\* Only then it looks for a place.
FindFull(i) ==
    /\ ItemIs(i, "Registered")
    /\ inFlight >= limit
    /\ ItemGoes(i, "Waiting")
    /\ UNCHANGED <<limit, inFlight, waiters, kept, settings>>

TakePlace(i) ==
    /\ ItemIs(i, "Registered")
    /\ inFlight < limit
    /\ inFlight' = inFlight + 1
    /\ ItemGoes(i, "Taken")
    /\ UNCHANGED <<limit, waiters, kept, settings>>

BeginItem(i) ==
    /\ ItemIs(i, "Taken")
    /\ DropNotified(i, "Working")
    /\ UNCHANGED <<limit, inFlight, settings>>

\* The scan of a waiting item is dropped.
CancelItem(i) ==
    /\ ItemIs(i, "Waiting")
    /\ DropNotified(i, "None")
    /\ UNCHANGED <<limit, inFlight, settings>>

\* The permit is dropped: first the place ...
Release(i) ==
    /\ ItemIs(i, "Working")
    /\ inFlight' = IF inFlight = 0 THEN 0 ELSE inFlight - 1
    /\ ItemGoes(i, "Released")
    /\ UNCHANGED <<limit, waiters, kept, settings>>

\* ... then the notification.
NotifyReleased(i) ==
    /\ ItemIs(i, "Released")
    /\ NotifyOne(i, "None", waiters)
    /\ UNCHANGED <<limit, inFlight, settings>>

SetLimit(n) ==
    /\ ~settings
    /\ limit' = n
    /\ settings' = TRUE
    /\ UNCHANGED <<inFlight, items, waiters, kept>>

\* Mutant of NotifyLimit: a change of the limit is not announced.
NotifyNobody ==
    /\ settings
    /\ settings' = FALSE
    /\ UNCHANGED <<limit, inFlight, items, waiters, kept>>

\* notify_waiters
NotifyLimit ==
    /\ settings
    /\ settings' = FALSE
    /\ items' = [i \in Items |-> IF i \in ToSet(waiters) THEN [items[i] EXCEPT !.woken = "All"]
                                 ELSE items[i]]
    /\ waiters' = <<>>
    /\ UNCHANGED <<limit, inFlight, kept>>

LimiterNext ==
    \/ \E i \in Items :
          \/ RegisterItem(i) \/ FindFull(i) \/ TakePlace(i) \/ BeginItem(i) \/ CancelItem(i)
          \/ Release(i) \/ NotifyReleased(i)
    \/ \E n \in 1..MaxLimit : SetLimit(n)
    \/ NotifyLimit

LimiterSpec == LimiterInit /\ [][LimiterNext]_limiterVars

-----------------------------------------------------------------------------
(* Properties *)

Asleep == {i \in Items : ItemIs(i, "Waiting") /\ items[i].woken = "No"}

\* Those who will look for a place, or wake somebody else.
Stirring ==
    {i \in Items : \/ items[i].phase \in {"Registered", "Released"}
                   \/ items[i].phase \in {"Waiting", "Taken"} /\ items[i].woken = "One"}

\* No wake-up is lost: while an item sleeps there are no more free places than items
\* that are on their way to one or will hand their wake-up on, however releases,
\* cancellations and changes of the limit fall between a look and the sleep.
NoLostWakeup ==
    Asleep # {} /\ ~settings =>
        inFlight >= limit \/ limit - inFlight <= Cardinality(Stirring)
=============================================================================
