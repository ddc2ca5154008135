---------------------------- MODULE ScheduledTasks ----------------------------
(***************************************************************************)
(* ScheduledTaskService of jellyfin-controller/src/scheduled_tasks.rs: the *)
(* states of the tasks, the abort handles of their runs and the two locks  *)
(* they are kept under.  A run is a spawned future; requests start and     *)
(* stop tasks, the scheduler loop starts them and stops those that take    *)
(* too long, and a run that ends stops its own task.                       *)
(*                                                                         *)
(* running_tasks is awaited first and tasks second, each where it may be   *)
(* waited for.  running_tasks is held from the wait for tasks, and by a    *)
(* start until its handle is in the map.  tasks is never held for writing  *)
(* over an await, so its write lock comes and goes within a step; it is    *)
(* held for reading while the file is written.  abort() only asks: the run *)
(* goes on until it awaits something and is dropped there.                 *)
(*                                                                         *)
(* What a task records of its runs, and the file, are in TaskHistory.      *)
(* Time is left out: any task may be due and any run be late.  Progress    *)
(* and triggers are left out.                                              *)
(***************************************************************************)
EXTENDS Naturals

CONSTANTS Tasks,
          Runs,        \* spawned futures: bound on those alive at a time
          Requests,    \* HTTP requests
          Scheduler,   \* the trigger loop
          None         \* no handle, no task

Callers == Requests \cup {Scheduler}
Actors == Callers \cup Runs

ASSUME TasksAssumption ==
    /\ Scheduler \notin Requests
    /\ Runs \cap Callers = {}
    /\ None \notin Runs \cup Tasks

VARIABLES executors, \* the tasks an executor is registered for when the server starts
          running,   \* the tasks whose state is Running; the others are Idle
          registry,  \* running_tasks: the abort handle of each task
          act,       \* what each caller and each run is doing, and the locks it holds
          aborted    \* the runs whose abort has been asked for

taskVars == <<executors, running, registry, act, aborted>>

TaskLocks == {"running_tasks", "tasks"}

\* The steps that wait for both locks.
Waits == {"Starting", "Stopping", "Late"}

Steps == Waits \cup {"None", "Marked", "Spawned", "Aborting", "Working", "Recording",
                     "Saving", "Writing"}

\* The states, the handles and the locks are well-formed.
TasksTypeOK ==
    /\ executors \subseteq Tasks
    /\ running \subseteq Tasks
    /\ registry \in [Tasks -> Runs \cup {None}]
    /\ act \in [Actors -> [step : Steps, task : Tasks \cup {None}, handle : Runs \cup {None},
                           held : SUBSET TaskLocks]]
    /\ aborted \subseteq Runs

Resting == [step |-> "None", task |-> None, handle |-> None, held |-> {}]

TasksInit ==
    /\ executors \in SUBSET Tasks
    /\ running = {}
    /\ registry = [t \in Tasks |-> None]
    /\ act = [a \in Actors |-> Resting]
    /\ aborted = {}

At(a, step) == act[a].step = step

Live(r) == ~At(r, "None")

Rest(a) == act' = [act EXCEPT ![a] = Resting]

\* Only what a does changes.
Goes(a, step) ==
    /\ act' = [act EXCEPT ![a].step = step]
    /\ UNCHANGED <<executors, running, registry, aborted>>

-----------------------------------------------------------------------------
(* The locks *)

\* Nobody else has it.
Free(a, lock) == \A b \in Actors \ {a} : lock \notin act[b].held

\* Mutant of LockFirst: a stop takes tasks first and waits for running_tasks with it.
LockBackwards(a) ==
    LET lock == IF At(a, "Stopping") THEN "tasks" ELSE "running_tasks"
    IN  /\ act[a].step \in Waits /\ act[a].held = {}
        /\ Free(a, lock)
        /\ act' = [act EXCEPT ![a].held = {lock}]
        /\ UNCHANGED <<executors, running, registry, aborted>>

\* A start, a stop and a timeout get running_tasks, and wait for tasks with it.
LockFirst(a) ==
    /\ act[a].step \in Waits /\ act[a].held = {}
    /\ Free(a, "running_tasks")
    /\ act' = [act EXCEPT ![a].held = {"running_tasks"}]
    /\ UNCHANGED <<executors, running, registry, aborted>>

\* Whoever waited for both has the first and gets the second.
Locked(a) == act[a].held # {} /\ \A lock \in TaskLocks : Free(a, lock)

-----------------------------------------------------------------------------
(* Starting a task *)

\* start and stop are called.
Asks(c, step, t) ==
    /\ At(c, "None")
    /\ act' = [act EXCEPT ![c] = [Resting EXCEPT !.step = step, !.task = t]]
    /\ UNCHANGED <<executors, running, registry, aborted>>

\* Of a task that runs already nothing is done.
RunsAlready(c) ==
    /\ At(c, "Starting") /\ Locked(c)
    /\ act[c].task \in running
    /\ Rest(c)
    /\ UNCHANGED <<executors, running, registry, aborted>>

\* Mutant of Mark: running_tasks is given back with tasks.
MarkLetsGo(c) ==
    /\ At(c, "Starting") /\ Locked(c)
    /\ act[c].task \notin running
    /\ running' = running \cup {act[c].task}
    /\ act' = [act EXCEPT ![c].step = "Marked", ![c].held = {}]
    /\ UNCHANGED <<executors, registry, aborted>>

\* Running under both locks; running_tasks is kept.
Mark(c) ==
    /\ At(c, "Starting") /\ Locked(c)
    /\ act[c].task \notin running
    /\ running' = running \cup {act[c].task}
    /\ act' = [act EXCEPT ![c].step = "Marked"]
    /\ UNCHANGED <<executors, registry, aborted>>

\* A future nobody has a handle of: the one tokio::spawn makes.
Fresh(r) ==
    /\ At(r, "None")
    /\ \A t \in Tasks : registry[t] # r
    /\ \A a \in Actors : act[a].handle # r

\* tokio::spawn: the run may be ahead of the map.
Spawn(c, r) ==
    /\ At(c, "Marked")
    /\ act[c].task \in executors
    /\ Fresh(r)
    /\ act' = [act EXCEPT ![c].step = "Spawned", ![c].handle = r,
                          ![r].step = "Working", ![r].task = act[c].task]
    /\ UNCHANGED <<executors, running, registry, aborted>>

RegisterRun(c) ==
    /\ At(c, "Spawned")
    /\ registry' = [registry EXCEPT ![act[c].task] = act[c].handle]
    /\ act' = [act EXCEPT ![c] = [Resting EXCEPT !.step = "Saving"]]
    /\ UNCHANGED <<executors, running, aborted>>

\* Mutant of Unavailable: the start calls stop, which waits for running_tasks.
UnavailableStops(c) ==
    /\ At(c, "Marked")
    /\ act[c].task \notin executors
    /\ \A lock \in TaskLocks, a \in Actors : lock \notin act[a].held
    /\ running' = running \ {act[c].task}
    /\ Rest(c)
    /\ UNCHANGED <<executors, registry, aborted>>

\* Without an executor the start waits for tasks again and takes the mark back.
Unavailable(c) ==
    /\ At(c, "Marked")
    /\ act[c].task \notin executors
    /\ Free(c, "tasks")
    /\ running' = running \ {act[c].task}
    /\ Rest(c)
    /\ UNCHANGED <<executors, registry, aborted>>

\* Where a request may wait for a lock: its future can be dropped there.
Awaits(c) ==
    \/ act[c].step \in {"Starting", "Stopping", "Saving"}
    \/ At(c, "Marked") /\ act[c].task \notin executors

\* The client goes away: the future is dropped and lets go of what it holds.
Disconnect(c) ==
    /\ c \in Requests
    /\ Awaits(c)
    /\ Rest(c)
    /\ UNCHANGED <<executors, running, registry, aborted>>

-----------------------------------------------------------------------------
(* Stopping a task *)

\* Mutant of Takes: the handle is taken out of the map and dropped.
TakesQuietly(a, next) ==
    /\ Locked(a)
    /\ running' = running \ {act[a].task}
    /\ registry' = [registry EXCEPT ![act[a].task] = None]
    /\ act' = [act EXCEPT ![a] = [Resting EXCEPT !.step = next]]

\* Idle under both locks; the handle, if there is one, is taken out of the map and
\* its abort called when the locks are free again.
Takes(a, next) ==
    LET t == act[a].task
    IN  /\ Locked(a)
        /\ running' = running \ {t}
        /\ registry' = [registry EXCEPT ![t] = None]
        /\ act' = [act EXCEPT ![a] =
                      IF registry[t] = None
                      THEN [Resting EXCEPT !.step = next]
                      ELSE [act[a] EXCEPT !.step = "Aborting", !.handle = registry[t], !.held = {}]]

\* stop, by a request or by a run of its own task; the run without a handle is over.
Stop(a) ==
    /\ At(a, "Stopping")
    /\ Takes(a, "None")
    /\ aborted' = IF registry[act[a].task] = None THEN aborted \ {a} ELSE aborted
    /\ UNCHANGED executors

\* timed_out_task_ids: the scheduler finds a run late, under the read lock, and
\* calls mark_timed_out.
FindLate(t) == t \in running /\ Asks(Scheduler, "Late", t)

\* mark_timed_out of a task that is still Running, whichever run of it.
TimeOut ==
    /\ At(Scheduler, "Late")
    /\ act[Scheduler].task \in running
    /\ Takes(Scheduler, "Saving")
    /\ UNCHANGED <<executors, aborted>>

\* The task is not Running any more: it keeps its own result.
NotLate ==
    /\ At(Scheduler, "Late") /\ Locked(Scheduler)
    /\ act[Scheduler].task \notin running
    /\ Rest(Scheduler)
    /\ UNCHANGED <<executors, running, registry, aborted>>

\* After the abort a timeout is written to the file; a run that has stopped its task
\* returns.
AfterAbort(a) == [Resting EXCEPT !.step = IF a = Scheduler THEN "Saving" ELSE "None"]

\* Mutant of Abort: the handle is dropped, which lets the run go on.
AbortForgets(a) ==
    /\ At(a, "Aborting")
    /\ aborted' = aborted \ {a}
    /\ act' = [act EXCEPT ![a] = AfterAbort(a)]
    /\ UNCHANGED <<executors, running, registry>>

\* AbortHandle::abort, of a run that may be over, or be the caller itself.
Abort(a) ==
    LET asked == aborted \cup {r \in Runs : r = act[a].handle /\ Live(r)}
    IN  /\ At(a, "Aborting")
        /\ aborted' = asked \ {a}
        /\ act' = [act EXCEPT ![a] = AfterAbort(a)]
        /\ UNCHANGED <<executors, running, registry>>

-----------------------------------------------------------------------------
(* A run *)

\* The work is done: complete, fail and cancel begin with record_completion.
Finish(r) == At(r, "Working") /\ Goes(r, "Recording")

\* record_completion changes the result and no more, when it gets tasks.
Record(r) ==
    /\ At(r, "Recording")
    /\ Free(r, "tasks")
    /\ Goes(r, "Saving")

Over(r) ==
    /\ Rest(r)
    /\ aborted' = aborted \ {r}
    /\ UNCHANGED <<executors, running, registry>>

\* An aborted run is dropped where it awaits.
Drop(r) ==
    /\ r \in aborted
    /\ act[r].step \in {"Working", "Recording", "Saving", "Stopping"}
    /\ Over(r)

\* A run that panics ends without stopping its task.
Panic(r) == At(r, "Working") /\ Over(r)

-----------------------------------------------------------------------------
(* The file, as far as the locks go *)

\* Mutant of Read: the read lock is given back before the file is written.
ReadLetsGo(a) == At(a, "Saving") /\ Goes(a, "Writing")

\* persist_state reads the tasks and keeps the read lock until the file is written:
\* it waits for nothing in between.
Read(a) ==
    /\ At(a, "Saving")
    /\ act' = [act EXCEPT ![a].step = "Writing", ![a].held = {"tasks"}]
    /\ UNCHANGED <<executors, running, registry, aborted>>

\* The lock is given back.  A run then stops its task, by its id.
Saved(a) ==
    /\ At(a, "Writing")
    /\ act' = [act EXCEPT ![a] =
                  IF a \in Runs THEN [@ EXCEPT !.step = "Stopping", !.held = {}] ELSE Resting]
    /\ UNCHANGED <<executors, running, registry, aborted>>

\* The server stops at any point and starts again.
Restart ==
    /\ running' = {}
    /\ registry' = [t \in Tasks |-> None]
    /\ act' = [a \in Actors |-> Resting]
    /\ aborted' = {}
    /\ UNCHANGED executors

\* What makes a result: these change what is recorded of a task.
Results(t) ==
    \/ \E c \in Callers : act[c].task = t /\ (Mark(c) \/ Unavailable(c))
    \/ act[Scheduler].task = t /\ TimeOut
    \/ \E r \in Runs : act[r].task = t /\ Record(r)

\* What needs no look at the results.
Quiet ==
    \/ \E c \in Callers, t \in Tasks : Asks(c, "Starting", t)
    \/ \E c \in Requests, t \in Tasks : Asks(c, "Stopping", t)
    \/ \E t \in Tasks : FindLate(t)
    \/ \E a \in Actors : LockFirst(a) \/ Stop(a) \/ Abort(a)
    \/ \E c \in Callers : RunsAlready(c) \/ RegisterRun(c) \/ Disconnect(c)
    \/ \E c \in Callers, r \in Runs : Spawn(c, r)
    \/ NotLate

Works(r) == Finish(r) \/ Drop(r) \/ Panic(r)

TasksNext ==
    \/ Quiet
    \/ \E t \in Tasks : Results(t)
    \/ \E r \in Runs : Works(r)
    \/ \E a \in Actors : Read(a) \/ Saved(a)
    \/ Restart

TasksSpec == TasksInit /\ [][TasksNext]_taskVars

-----------------------------------------------------------------------------
(* Properties *)

\* A start is between its mark and the map.
Starting == \E c \in Callers : At(c, "Marked") \/ At(c, "Spawned")

\* Whoever has running_tasks finds a handle for exactly the tasks that run, so a
\* stop reaches the run: no stop comes between the mark and the map.
RegisteredWhileRunning ==
    ~Starting =>
        \A t \in executors : t \in running <=> registry[t] # None

\* The abort of r is called next.
Condemned(r) == \E a \in Actors : At(a, "Aborting") /\ act[a].handle = r

\* A run that lives is the one registered for its task, or is about to be, or its
\* end has been asked for: nobody's start or stop leaves a run behind that works
\* on and that no stop can reach, and no task has two runs that both are to last.
NoRunIsLost ==
    \A r \in Runs : Live(r) =>
        \/ registry[act[r].task] = r
        \/ \E c \in Callers : At(c, "Spawned") /\ act[c].handle = r /\ act[c].task = act[r].task
        \/ Condemned(r)
        \/ r \in aborted
        \/ At(r, "Aborting")
=============================================================================
