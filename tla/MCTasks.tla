------------------------------- MODULE MCTasks -------------------------------
(***************************************************************************)
(* One run for the history of the tasks and the lock of users.  They do    *)
(* not act on each other; one of them, chosen at the start, moves while    *)
(* the other stays in its initial state.                                   *)
(***************************************************************************)
EXTENDS TaskHistory, UserManagerLock

VARIABLE service

\* What the history could start with is fixed while the lock moves.
MCInit ==
    /\ service \in {"history", "lock"}
    /\ HistoryInit /\ Init
    /\ service = "lock" => executors = {} /\ ~diskFails

MCNext ==
    /\ UNCHANGED service
    /\ \/ service = "history" /\ HistoryNext /\ UNCHANGED vars
       \/ service = "lock" /\ Next /\ UNCHANGED allVars

MCSpec == MCInit /\ [][MCNext]_<<service, allVars, vars>> /\ LockFairness
=============================================================================
