---------------------------- MODULE LibraryRefresh ----------------------------
(***************************************************************************)
(* The RefreshLibrary task: runs of ScheduledTasks that scan the library   *)
(* (LibraryScans), refresh_library_handler of                              *)
(* jellyfin-controller/src/scheduled_tasks.rs.  Runs get in each other's   *)
(* way; the scans of others are in LibraryWatcher.                         *)
(***************************************************************************)
EXTENDS ScheduledTasks, LibraryScans

ASSUME RefreshAssumption == Scanners = Runs

refreshVars == <<taskVars, scanVars>>

RefreshInit == TasksInit /\ ScansInit

-----------------------------------------------------------------------------

\* The run scans all there is.
RunScans(r) ==
    /\ At(r, "Working")
    /\ ListFolders(r) \/ ReserveAll(r) \/ EndScan(r)
    /\ UNCHANGED taskVars

\* Then it goes on to record how that went; the metadata refresh after the scan
\* reserves nothing and is left out.
RunEnds(r) == Finish(r) /\ Return(r)

\* Dropped or panicking, it drops its guard.
RunDropped(r) == (Drop(r) \/ Panic(r)) /\ DropScan(r)

\* What happens to the tasks beside.
TaskStep ==
    /\ \/ Quiet
       \/ \E t \in Tasks : Results(t)
       \/ \E a \in Actors : Read(a) \/ Saved(a)
    /\ UNCHANGED scanVars

RestartServer ==
    /\ Restart
    /\ active' = {}
    /\ scans' = [s \in Scanners |-> NoScan]
    /\ UNCHANGED folders

RefreshNext ==
    \/ \E r \in Runs : RunScans(r) \/ RunEnds(r) \/ RunDropped(r)
    \/ TaskStep
    \/ RestartServer

RefreshSpec == RefreshInit /\ [][RefreshNext]_refreshVars

-----------------------------------------------------------------------------
(* Properties *)

\* What a and the runtime do with what a has begun: it goes on, and gets the locks it
\* waits for, which are given back within a step or two of their holders and are
\* handed out in the order they were asked for.
GoesOn(a) ==
    \/ LockFirst(a) \/ Stop(a) \/ Abort(a) \/ Read(a) \/ Saved(a)
    \/ a \in Callers /\ (RunsAlready(a) \/ Mark(a) \/ Unavailable(a) \/ RegisterRun(a))
    \/ a \in Callers /\ \E r \in Runs : Spawn(a, r)
    \/ a = Scheduler /\ (TimeOut \/ NotLate)
    \/ a \in Runs /\ Record(a)

RefreshFairness ==
    /\ \A a \in Actors : SF_refreshVars(GoesOn(a) /\ UNCHANGED scanVars)
    /\ \A r \in Runs : WF_refreshVars(Drop(r) /\ DropScan(r))

FairRefreshSpec == RefreshSpec /\ RefreshFairness

\* Every start, stop and timeout gets the locks it waits for and returns, and so does
\* the stop at the end of a run: nobody takes the two locks in the other order, takes
\* one twice, or keeps one, also where a request is dropped or a run aborted.
EveryCallReturns ==
    /\ \A c \in Callers : ~At(c, "None") ~> At(c, "None")
    /\ \A r \in Runs : At(r, "Recording") ~> At(r, "None")

\* A run whose end is asked for ends: no abort is lost between the map and the run.
StoppedRunsEnd == \A r \in Runs : (Condemned(r) \/ r \in aborted) ~> ~Live(r)

\* And if it was scanning, the library it scans can be scanned again.
StoppedRefreshFreesLibrary ==
    \A r \in Runs, c \in Collections :
        ((Condemned(r) \/ r \in aborted) /\ Scanning(r) /\ c \in scans[r].ids) ~> c \notin active
=============================================================================
