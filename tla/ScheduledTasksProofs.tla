------------------------ MODULE ScheduledTasksProofs ------------------------
(***************************************************************************)
(* What the task service keeps for any number of tasks, runs and requests. *)
(* Handles are registered for what runs and no run is lost: that rests on  *)
(* running_tasks, which one start holds from its mark to the map           *)
(* (OneHolder, StartsAlone).  What gets into the file is the history as it *)
(* is, or torn: that rests on tasks, under which the file is written       *)
(* (Snapshots).  TaskHistory and LibraryRefresh implement ScheduledTasks   *)
(* and inherit the first two.                                              *)
(***************************************************************************)
EXTENDS LibraryRefresh, TaskHistory, TLAPS

Jobs == [step : Steps, task : Tasks \cup {None}, handle : Runs \cup {None}, held : SUBSET TaskLocks]

IsStarting(c) == At(c, "Marked") \/ At(c, "Spawned")

\* What a job at a step may hold: the lock it goes on with, or waits with.
HoldsRight(job) ==
    /\ job.step \in {"Marked", "Spawned"} => job.held = {"running_tasks"}
    /\ job.step = "Writing" => job.held = {"tasks"}
    /\ job.step \in Waits => job.held \subseteq {"running_tasks"}
    /\ job.step \in {"None", "Aborting", "Working", "Recording", "Saving"} => job.held = {}

LocksFit == \A a \in Actors : HoldsRight(act[a])

Has(a) == "running_tasks" \in act[a].held

\* running_tasks is held by one at a time.
OneHolder == \A a, b \in Actors : Has(a) /\ Has(b) => a = b

\* A step that needs a task has one; a run has one as long as it lives.
HasTask ==
    /\ \A a \in Actors : act[a].step \in Waits \cup {"Marked", "Spawned"} => act[a].task \in Tasks
    /\ \A r \in Runs : Live(r) => act[r].task \in Tasks
    /\ \A a \in Actors : At(a, "Aborting") => act[a].handle \in Runs

\* The task of a start is marked and has no handle yet; what is spawned has an executor.
StartsAlone ==
    \A c \in Callers :
        /\ IsStarting(c) => /\ act[c].task \in running
                            /\ act[c].task \in executors => registry[act[c].task] = None
        /\ At(c, "Spawned") => act[c].handle \in Runs /\ act[c].task \in executors

\* Every other task with an executor runs if and only if it has a handle.
Registered ==
    \A t \in executors :
        \/ t \in running <=> registry[t] # None
        \/ \E c \in Callers : IsStarting(c) /\ act[c].task = t

Inv ==
    /\ TasksTypeOK /\ LocksFit /\ OneHolder /\ HasTask
    /\ StartsAlone /\ Registered /\ NoRunIsLost

\* What is checked follows from the invariant.
LEMMA InvHolds == Inv => RegisteredWhileRunning /\ NoRunIsLost
BY DEF Inv, RegisteredWhileRunning, Registered, Starting, IsStarting

\* The invariant holds when the server starts.
LEMMA InitInv == TasksInit => Inv
BY TasksAssumption
   DEF TasksInit, Resting, Inv, TasksTypeOK, LocksFit, HoldsRight, Has, OneHolder, Waits, Steps, TaskLocks,
       HasTask, StartsAlone, Registered, NoRunIsLost, IsStarting, At, Live, Actors, Callers, Condemned

\* What it takes for nobody to be between a mark and the map: the lock they would hold.
LEMMA StartsHold ==
    ASSUME Inv, NEW c \in Callers, IsStarting(c)
    PROVE  c \in Actors /\ Has(c) /\ act[c].held = {"running_tasks"}
BY DEF Inv, LocksFit, HoldsRight, Has, IsStarting, At, Actors

\* Who has got both locks is alone with them.
LEMMA LockedAlone ==
    ASSUME Inv, NEW a \in Actors, Locked(a), act[a].step \in Waits
    PROVE  /\ Has(a) /\ act[a].held = {"running_tasks"}
           /\ \A b \in Actors : ~At(b, "Writing")
           /\ \A c \in Callers : ~IsStarting(c)
<1>1. act[a].held = {"running_tasks"} /\ Has(a)
  BY DEF Locked, Inv, LocksFit, HoldsRight, Has
<1>2. ASSUME NEW b \in Actors PROVE ~At(b, "Writing")
  BY DEF Locked, Free, TaskLocks, Inv, LocksFit, HoldsRight, At, Waits
<1>3. ASSUME NEW c \in Callers PROVE ~IsStarting(c)
  <2>1. SUFFICES ASSUME IsStarting(c) PROVE FALSE
    OBVIOUS
  <2>2. c \in Actors /\ Has(c)
    BY <2>1, StartsHold
  <2>3. c = a
    BY <2>2, <1>1 DEF Inv, OneHolder
  <2> QED
    BY <2>1, <2>3 DEF IsStarting, At, Waits
<1> QED
  BY <1>1, <1>2, <1>3

\* The locks stay as they should when one actor changes, takes running_tasks only when
\* it is free, and holds what fits its new step.
LEMMA LocksStep ==
    ASSUME Inv, NEW a \in Actors, \A b \in Actors \ {a} : act'[b] = act[b], HoldsRight(act'[a]),
           "running_tasks" \in act'[a].held => Has(a) \/ Free(a, "running_tasks")
    PROVE  LocksFit' /\ OneHolder'
<1>1. LocksFit'
  <2> SUFFICES ASSUME NEW b \in Actors PROVE HoldsRight(act'[b])
    BY DEF LocksFit, HoldsRight
  <2> QED
    BY DEF Inv, LocksFit
<1>2. OneHolder'
  BY DEF Inv, OneHolder, Has, Free
<1> QED
  BY <1>1, <1>2

\* A step of one actor that asks for no abort and registers nothing: it begins nothing
\* that others rely on.
LEMMA QuietStep ==
    ASSUME Inv, NEW a \in Actors, NEW job \in Jobs, act' = [act EXCEPT ![a] = job],
           UNCHANGED <<executors, registry>>,
           ~At(a, "Aborting"), ~At(a, "Spawned"), At(a, "Marked") => act[a].task \notin executors,
           running' = running \/ (a \in Callers /\ IsStarting(a) /\ running' = running \ {act[a].task}),
           aborted' = aborted \/ (job.step = "None" /\ aborted' = aborted \ {a}),
           job.step \in {"None", "Starting", "Stopping", "Late", "Working", "Recording", "Saving", "Writing"},
           HoldsRight(job), "running_tasks" \in job.held => Has(a) \/ Free(a, "running_tasks"),
           job.step \in Waits => job.task \in Tasks,
           a \in Runs /\ job.step # "None" => Live(a) /\ job.task = act[a].task
    PROVE  Inv'
<1>1. act'[a] = job /\ \A b \in Actors \ {a} : act'[b] = act[b]
  BY DEF Inv, TasksTypeOK, Jobs
<1>2. a \notin Runs \/ a \notin Callers
  BY TasksAssumption
<1>3. TasksTypeOK'
  BY DEF Inv, TasksTypeOK, Jobs
<1>4. HasTask'
  <2>1. ASSUME NEW b \in Actors, act'[b].step \in Waits \cup {"Marked", "Spawned"} PROVE act'[b].task \in Tasks
    BY <2>1, <1>1 DEF Inv, HasTask
  <2>2. ASSUME NEW r \in Runs, Live(r)' PROVE act'[r].task \in Tasks
    BY <2>2, <1>1 DEF Inv, HasTask, Live, At, Actors
  <2>3. ASSUME NEW b \in Actors, At(b, "Aborting")' PROVE act'[b].handle \in Runs
    BY <2>3, <1>1 DEF Inv, HasTask, At
  <2> QED
    BY <2>1, <2>2, <2>3 DEF HasTask
<1>5. LocksFit' /\ OneHolder'
  BY <1>1, LocksStep
<1>6. StartsAlone'
  <2> SUFFICES ASSUME NEW c \in Callers, IsStarting(c)'
               PROVE  /\ act'[c].task \in running'
                      /\ act'[c].task \in executors' => registry'[act'[c].task] = None
                      /\ At(c, "Spawned")' => act'[c].handle \in Runs /\ act'[c].task \in executors'
    BY DEF StartsAlone, IsStarting
  <2>1. c # a /\ act'[c] = act[c] /\ IsStarting(c)
    BY <1>1 DEF At, IsStarting, Actors
  <2>2. running' = running
    BY <2>1, StartsHold DEF Inv, OneHolder
  <2> QED
    BY <2>1, <2>2 DEF Inv, StartsAlone, At, IsStarting
<1>7. Registered'
  <2> SUFFICES ASSUME NEW t \in executors
               PROVE  \/ t \in running' <=> registry[t] # None
                      \/ \E c \in Callers : IsStarting(c)' /\ act'[c].task = t
    BY DEF Registered
  <2>1. t \in running' <=> t \in running
    BY DEF IsStarting, At
  <2>2. CASE \E c \in Callers : IsStarting(c) /\ act[c].task = t
    <3>1. PICK c \in Callers : IsStarting(c) /\ act[c].task = t
      BY <2>2
    <3>2. c # a
      BY <3>1 DEF IsStarting
    <3> QED
      BY <1>1, <3>1, <3>2 DEF IsStarting, At, Actors
  <2> QED
    BY <2>1, <2>2 DEF Inv, Registered
<1>8. NoRunIsLost'
  <2> SUFFICES ASSUME NEW r \in Runs, Live(r)'
               PROVE  \/ registry[act'[r].task] = r
                      \/ \E c \in Callers : At(c, "Spawned")' /\ act'[c].handle = r /\ act'[c].task = act'[r].task
                      \/ Condemned(r)' \/ r \in aborted' \/ At(r, "Aborting")'
    BY DEF NoRunIsLost
  <2>1. Live(r) /\ act'[r].task = act[r].task /\ (r \in aborted => r \in aborted')
    BY <1>1 DEF Live, At, Actors
  <2>2. At(r, "Aborting") => At(r, "Aborting")'
    BY <1>1 DEF At, Actors
  <2>3. Condemned(r) => Condemned(r)'
    BY <1>1 DEF Condemned, At
  <2>4. \A c \in Callers : At(c, "Spawned") => At(c, "Spawned")' /\ act'[c] = act[c]
    BY <1>1 DEF At, Actors
  <2> QED
    BY <2>1, <2>2, <2>3, <2>4 DEF Inv, NoRunIsLost
<1> QED
  BY <1>3, <1>4, <1>5, <1>6, <1>7, <1>8 DEF Inv

\* The mark: the start is alone with running_tasks, and so the task has no handle either.
LEMMA MarkStep ==
    ASSUME Inv, NEW c \in Callers, Mark(c)
    PROVE  Inv'
<1> DEFINE t == act[c].task
           job == [act[c] EXCEPT !.step = "Marked"]
<1>1. /\ At(c, "Starting") /\ Locked(c) /\ t \notin running
      /\ running' = running \cup {t} /\ act' = [act EXCEPT ![c].step = "Marked"]
      /\ UNCHANGED <<executors, registry, aborted>>
  BY DEF Mark
<1>2. c \in Actors /\ act \in [Actors -> Jobs] /\ c \notin Runs /\ t \in Tasks
  BY <1>1, TasksAssumption DEF Inv, TasksTypeOK, HasTask, Jobs, Actors, At, Waits
<1>3. /\ act' = [act EXCEPT ![c] = job] /\ job \in Jobs
      /\ job.step = "Marked" /\ job.task = t /\ job.held = act[c].held
  BY <1>1, <1>2 DEF Jobs, Steps
<1>4. act'[c] = job /\ \A b \in Actors \ {c} : act'[b] = act[b]
  BY <1>2, <1>3
<1>5. Has(c) /\ act[c].held = {"running_tasks"} /\ \A d \in Callers : ~IsStarting(d)
  BY <1>1, <1>2, LockedAlone DEF At, Waits
<1>6. \A d \in Callers : IsStarting(d)' => d = c
  BY <1>4, <1>5 DEF IsStarting, At, Actors
<1>7. TasksTypeOK'
  BY <1>1, <1>2, <1>3 DEF Inv, TasksTypeOK, Jobs
<1>8. HasTask'
  BY <1>2, <1>3, <1>4 DEF Inv, HasTask, At, Live, Actors
<1>9. HoldsRight(act'[c])
  BY <1>3, <1>4, <1>5 DEF HoldsRight, Waits
<1>10. LocksFit' /\ OneHolder'
  BY <1>2, <1>4, <1>5, <1>9, LocksStep
<1>11. t \in executors => registry[t] = None
  BY <1>1, <1>5 DEF Inv, Registered
<1>12. StartsAlone'
  BY <1>1, <1>3, <1>4, <1>6, <1>11 DEF StartsAlone, IsStarting, At
<1>13. Registered'
  <2>1. ASSUME NEW u \in executors, u # t PROVE u \in running' <=> registry'[u] # None
    BY <1>1, <1>5, <2>1 DEF Inv, Registered
  <2>2. IsStarting(c)' /\ act'[c].task = t
    BY <1>3, <1>4 DEF IsStarting, At
  <2> QED
    BY <1>1, <2>1, <2>2 DEF Registered
<1>14. NoRunIsLost'
  <2> SUFFICES ASSUME NEW r \in Runs, Live(r)'
               PROVE  \/ registry'[act'[r].task] = r \/ Condemned(r)' \/ r \in aborted' \/ At(r, "Aborting")'
    BY DEF NoRunIsLost
  <2>1. act'[r] = act[r]
    BY <1>2, <1>4 DEF Actors
  <2>2. Condemned(r) => Condemned(r)'
    BY <1>1, <1>4 DEF Condemned, At
  <2>3. \A d \in Callers : ~At(d, "Spawned")
    BY <1>5 DEF IsStarting
  <2> QED
    BY <2>1, <2>2, <2>3, <1>1 DEF Inv, NoRunIsLost, Live, At
<1> QED
  BY <1>7, <1>8, <1>10, <1>12, <1>13, <1>14 DEF Inv

\* A run begins to work, and its start holds its handle.
LEMMA SpawnStep ==
    ASSUME Inv, NEW c \in Callers, NEW r \in Runs, Spawn(c, r)
    PROVE  Inv'
<1>1. /\ At(c, "Marked") /\ act[c].task \in executors /\ At(r, "None")
      /\ UNCHANGED <<executors, running, registry, aborted>>
      /\ act' = [act EXCEPT ![c].step = "Spawned", ![c].handle = r,
                            ![r].step = "Working", ![r].task = act[c].task]
      /\ \A a \in Actors : act[a].handle # r
  BY DEF Spawn, Fresh
<1>2. c \in Actors /\ r \in Actors /\ c # r /\ act \in [Actors -> Jobs]
      /\ act[c].task \in Tasks /\ r \notin Callers /\ c \notin Runs
  BY <1>1, TasksAssumption DEF Inv, TasksTypeOK, HasTask, At, Jobs, Actors
<1>3. /\ act'[c].step = "Spawned" /\ act'[c].handle = r /\ act'[c].task = act[c].task
      /\ act'[c].held = act[c].held /\ act'[c] \in Jobs
  BY <1>1, <1>2 DEF Jobs, Steps
<1>4. /\ act'[r].step = "Working" /\ act'[r].task = act[c].task /\ act'[r].handle = act[r].handle
      /\ act'[r].held = act[r].held /\ act'[r] \in Jobs
  BY <1>1, <1>2 DEF Jobs, Steps
<1>5. \A b \in Actors \ {c, r} : act'[b] = act[b]
  BY <1>1, <1>2
<1>6. act' \in [Actors -> Jobs]
  <2>1. \A b \in Actors : act'[b] \in Jobs
    BY <1>2, <1>3, <1>4, <1>5
  <2>2. DOMAIN act' = Actors /\ act' = [b \in DOMAIN act' |-> act'[b]]
    BY <1>1, <1>2
  <2> QED
    BY <2>1, <2>2
<1>7. TasksTypeOK'
  BY <1>1, <1>6 DEF Inv, TasksTypeOK, Jobs
<1>8. \A b \in Actors : act'[b].held = act[b].held
  BY <1>3, <1>4, <1>5
<1>9. LocksFit'
  <2> SUFFICES ASSUME NEW b \in Actors PROVE HoldsRight(act'[b])
    BY DEF LocksFit, HoldsRight
  <2>1. HoldsRight(act[b]) /\ act'[b].held = act[b].held
    BY <1>8 DEF Inv, LocksFit
  <2>2. CASE b = c
    BY <2>1, <2>2, <1>1, <1>3 DEF HoldsRight, At, Waits
  <2>3. CASE b = r
    BY <2>1, <2>3, <1>1, <1>4 DEF HoldsRight, At, Waits
  <2> QED
    BY <2>1, <2>2, <2>3, <1>5
<1>10. OneHolder'
  BY <1>8 DEF Inv, OneHolder, Has
<1>11. HasTask'
  BY <1>1, <1>2, <1>3, <1>4, <1>5 DEF Inv, HasTask, At, Live, Actors
<1>12. StartsAlone'
  BY <1>1, <1>2, <1>3, <1>5 DEF Inv, StartsAlone, IsStarting, At, Actors
<1>13. Registered'
  BY <1>1, <1>2, <1>3, <1>5 DEF Inv, Registered, IsStarting, At, Actors
<1>14. NoRunIsLost'
  <2> SUFFICES ASSUME NEW u \in Runs, u # r, Live(u)'
               PROVE  \/ registry'[act'[u].task] = u \/ Condemned(u)' \/ u \in aborted' \/ At(u, "Aborting")'
    BY <1>3, <1>4 DEF NoRunIsLost, At
  <2>1. act'[u] = act[u]
    BY <1>2, <1>5 DEF Actors
  <2>2. Condemned(u) => Condemned(u)'
    BY <1>1, <1>5 DEF Condemned, At
  <2>3. \A d \in Callers : ~At(d, "Spawned")
    <3> SUFFICES ASSUME NEW d \in Callers, At(d, "Spawned") PROVE FALSE
      OBVIOUS
    <3>1. Has(d) /\ Has(c) /\ d \in Actors
      BY <1>1, StartsHold DEF IsStarting
    <3>2. d = c
      BY <3>1, <1>2 DEF Inv, OneHolder
    <3> QED
      BY <3>2, <1>1 DEF At
  <2> QED
    BY <2>1, <2>2, <2>3, <1>1 DEF Inv, NoRunIsLost, Live, At
<1> QED
  BY <1>7, <1>9, <1>10, <1>11, <1>12, <1>13, <1>14 DEF Inv

\* The handle gets into the map, where there was none of the task.
LEMMA RegisterStep ==
    ASSUME Inv, NEW c \in Callers, RegisterRun(c)
    PROVE  Inv'
<1> DEFINE t == act[c].task
           h == act[c].handle
           job == [Resting EXCEPT !.step = "Saving"]
<1>1. /\ At(c, "Spawned") /\ registry' = [registry EXCEPT ![t] = h]
      /\ act' = [act EXCEPT ![c] = job]
      /\ UNCHANGED <<executors, running, aborted>>
  BY DEF RegisterRun
<1>2. /\ c \in Actors /\ c \notin Runs /\ act \in [Actors -> Jobs] /\ registry \in [Tasks -> Runs \cup {None}]
      /\ t \in Tasks /\ t \in running /\ t \in executors /\ registry[t] = None /\ h \in Runs
  BY <1>1, TasksAssumption DEF Inv, TasksTypeOK, HasTask, StartsAlone, IsStarting, At, Jobs, Actors
<1>3. job.step = "Saving" /\ job.held = {} /\ job \in Jobs
  BY DEF Resting, Jobs, Steps, TaskLocks
<1>4. act'[c] = job /\ \A b \in Actors \ {c} : act'[b] = act[b]
  BY <1>1, <1>2
<1>5. registry'[t] = h /\ h # None /\ \A u \in Tasks \ {t} : registry'[u] = registry[u]
  BY <1>1, <1>2, TasksAssumption
<1>6. \A d \in Callers : ~IsStarting(d)' /\ (IsStarting(d) => d = c)
  <2>1. ASSUME NEW d \in Callers, IsStarting(d) PROVE d = c
    BY <2>1, <1>1, StartsHold DEF Inv, OneHolder, IsStarting
  <2> QED
    BY <2>1, <1>3, <1>4 DEF IsStarting, At, Actors
<1>7. TasksTypeOK'
  <2>1. act' \in [Actors -> Jobs]
    BY <1>1, <1>2, <1>3
  <2>2. registry' \in [Tasks -> Runs \cup {None}]
    BY <1>1, <1>2
  <2> QED
    BY <2>1, <2>2, <1>1 DEF Inv, TasksTypeOK, Jobs
<1>8. HoldsRight(act'[c])
  BY <1>3, <1>4 DEF HoldsRight, Waits
<1>9. LocksFit' /\ OneHolder'
  BY <1>2, <1>3, <1>4, <1>8, LocksStep
<1>10. HasTask'
  BY <1>2, <1>3, <1>4 DEF Inv, HasTask, At, Live, Actors, Waits
<1>11. StartsAlone'
  BY <1>6 DEF StartsAlone, IsStarting
<1>12. Registered'
  BY <1>1, <1>2, <1>5, <1>6 DEF Inv, Registered, TasksTypeOK
<1>13. NoRunIsLost'
  <2> SUFFICES ASSUME NEW r \in Runs, Live(r)'
               PROVE  \/ registry'[act'[r].task] = r \/ Condemned(r)' \/ r \in aborted' \/ At(r, "Aborting")'
    BY DEF NoRunIsLost
  <2>1. act'[r] = act[r] /\ act[r].task \in Tasks /\ Live(r)
    BY <1>2, <1>4 DEF Actors, Inv, HasTask, Live, At
  <2>2. Condemned(r) => Condemned(r)'
    BY <1>1, <1>4 DEF Condemned, At
  <2>3. registry[act[r].task] = r => registry'[act[r].task] = r
    BY <2>1, <1>2, <1>5, TasksAssumption
  <2>4. \A d \in Callers : At(d, "Spawned") => d = c
    BY <1>6 DEF IsStarting
  <2> QED
    BY <2>1, <2>2, <2>3, <2>4, <1>1, <1>5 DEF Inv, NoRunIsLost, At
<1> QED
  BY <1>7, <1>9, <1>10, <1>11, <1>12, <1>13 DEF Inv

\* A stop takes the handle of the run, if there is one, and is about to abort it.
LEMMA TakesStep ==
    ASSUME Inv, NEW a \in Actors, NEW next \in {"None", "Saving"}, act[a].step \in Waits, Takes(a, next),
           UNCHANGED executors, a \in Runs => next = "None",
           \/ aborted' = aborted
           \/ registry[act[a].task] = None /\ next = "None" /\ aborted' = aborted \ {a}
    PROVE  Inv'
<1> DEFINE t == act[a].task
           rest == [Resting EXCEPT !.step = next]
           abort == [act[a] EXCEPT !.step = "Aborting", !.handle = registry[t], !.held = {}]
           job == IF registry[t] = None THEN rest ELSE abort
<1>1. /\ Locked(a) /\ running' = running \ {t}
      /\ registry' = [registry EXCEPT ![t] = None] /\ act' = [act EXCEPT ![a] = job]
  BY DEF Takes
<1>2. /\ act \in [Actors -> Jobs] /\ registry \in [Tasks -> Runs \cup {None}] /\ t \in Tasks
      /\ Live(a) /\ ~At(a, "Aborting")
  BY TasksAssumption DEF Inv, TasksTypeOK, HasTask, Jobs, Live, At, Waits
<1>3. rest.step = next /\ rest.held = {} /\ rest \in Jobs
  BY DEF Resting, Jobs, Steps, TaskLocks
<1>4. registry[t] # None => /\ abort.step = "Aborting" /\ abort.handle = registry[t] /\ abort.held = {}
                            /\ abort.task = t /\ registry[t] \in Runs /\ abort \in Jobs
  BY <1>2 DEF Jobs, Steps, TaskLocks
<1>5. act'[a] = job /\ job \in Jobs /\ job.held = {} /\ job.step \in {next, "Aborting"}
      /\ (job.step = "Aborting" => registry[t] \in Runs /\ job.handle = registry[t] /\ job.task = t)
  BY <1>1, <1>2, <1>3, <1>4
<1>6. \A b \in Actors \ {a} : act'[b] = act[b]
  BY <1>1, <1>2
<1>7. \A d \in Callers : ~IsStarting(d) /\ ~IsStarting(d)'
  <2>1. \A d \in Callers : ~IsStarting(d)
    BY <1>1, LockedAlone
  <2> QED
    BY <2>1, <1>5, <1>6 DEF IsStarting, At, Actors
<1>8. registry'[t] = None /\ \A u \in Tasks \ {t} : registry'[u] = registry[u]
  BY <1>1, <1>2
<1>9. TasksTypeOK'
  <2>1. act' \in [Actors -> Jobs]
    BY <1>1, <1>2, <1>5
  <2>2. registry' \in [Tasks -> Runs \cup {None}]
    BY <1>1, <1>2
  <2> QED
    BY <2>1, <2>2, <1>1 DEF Inv, TasksTypeOK, Jobs
<1>10. HoldsRight(act'[a])
  BY <1>5 DEF HoldsRight, Waits
<1>11. LocksFit' /\ OneHolder'
  BY <1>5, <1>6, <1>10, LocksStep
<1>12. HasTask'
  <2>1. a \in Runs /\ Live(a)' => act'[a].task \in Tasks
    BY <1>2, <1>5 DEF Live, At
  <2>2. \A r \in Runs : Live(r)' => act'[r].task \in Tasks
    BY <2>1, <1>6 DEF Inv, HasTask, Live, At, Actors
  <2>3. \A b \in Actors : At(b, "Aborting")' => act'[b].handle \in Runs
    BY <1>5, <1>6 DEF Inv, HasTask, At
  <2>4. \A b \in Actors : act'[b].step \in Waits \cup {"Marked", "Spawned"} => act'[b].task \in Tasks
    BY <1>5, <1>6 DEF Inv, HasTask, Waits
  <2> QED
    BY <2>2, <2>3, <2>4 DEF HasTask
<1>13. StartsAlone'
  BY <1>7 DEF StartsAlone, IsStarting
<1>14. Registered'
  BY <1>1, <1>7, <1>8 DEF Inv, Registered, TasksTypeOK
<1>15. NoRunIsLost'
  <2> SUFFICES ASSUME NEW r \in Runs, Live(r)'
               PROVE  \/ registry'[act'[r].task] = r \/ Condemned(r)' \/ r \in aborted' \/ At(r, "Aborting")'
    BY DEF NoRunIsLost
  <2>1. CASE r = a
    BY <2>1, <1>3, <1>4, <1>5 DEF Live, At
  <2>2. CASE r # a
    <3>1. act'[r] = act[r] /\ act[r].task \in Tasks /\ Live(r)
      BY <2>2, <1>6 DEF Actors, Inv, HasTask, Live, At
    <3>2. Condemned(r) => Condemned(r)'
      BY <1>2, <1>6 DEF Condemned, At
    <3>3. registry[act[r].task] = r => registry'[act[r].task] = r \/ Condemned(r)'
      <4>1. CASE act[r].task # t
        BY <4>1, <3>1, <1>8
      <4>2. CASE act[r].task = t /\ registry[t] = r
        <5>1. act'[a].step = "Aborting" /\ act'[a].handle = r
          BY <4>2, <1>4, <1>5, TasksAssumption
        <5> QED
          BY <5>1 DEF Condemned, At
      <4> QED
        BY <4>1, <4>2
    <3>4. \A d \in Callers : ~At(d, "Spawned")
      BY <1>7 DEF IsStarting
    <3> QED
      BY <2>2, <3>1, <3>2, <3>3, <3>4 DEF Inv, NoRunIsLost, At
  <2> QED
    BY <2>1, <2>2
<1> QED
  BY <1>9, <1>11, <1>12, <1>13, <1>14, <1>15 DEF Inv

\* What is condemned is aborted, if it lives and is not who aborts it.
LEMMA AbortStep ==
    ASSUME Inv, NEW a \in Actors, Abort(a)
    PROVE  Inv'
<1> DEFINE h == act[a].handle
           job == AfterAbort(a)
<1>1. /\ At(a, "Aborting") /\ act' = [act EXCEPT ![a] = job]
      /\ aborted' = (aborted \cup {r \in Runs : r = h /\ Live(r)}) \ {a}
      /\ UNCHANGED <<executors, running, registry>>
  BY DEF Abort
<1>2. act \in [Actors -> Jobs] /\ Scheduler \notin Runs
  BY TasksAssumption DEF Inv, TasksTypeOK, Jobs, Callers
<1>3. job \in Jobs /\ job.held = {} /\ job.step \in {"Saving", "None"} /\ (a \in Runs => job.step = "None")
  BY <1>2 DEF AfterAbort, Resting, Jobs, Steps, TaskLocks
<1>4. act'[a] = job /\ \A b \in Actors \ {a} : act'[b] = act[b]
  BY <1>1, <1>2
<1> HIDE DEF job
<1>5. ~IsStarting(a) /\ ~IsStarting(a)'
  BY <1>1, <1>3, <1>4 DEF IsStarting, At
<1>6. TasksTypeOK'
  <2>1. act' \in [Actors -> Jobs]
    BY <1>1, <1>2, <1>3
  <2> QED
    BY <2>1, <1>1 DEF Inv, TasksTypeOK, Jobs
<1>7. HoldsRight(act'[a])
  BY <1>3, <1>4 DEF HoldsRight, Waits
<1>8. LocksFit' /\ OneHolder'
  BY <1>3, <1>4, <1>7, LocksStep
<1>9. HasTask'
  BY <1>1, <1>3, <1>4 DEF Inv, HasTask, At, Live, Actors, Waits
<1>10. StartsAlone' /\ Registered'
  BY <1>1, <1>4, <1>5 DEF Inv, StartsAlone, Registered, IsStarting, At, Actors
<1>11. NoRunIsLost'
  <2> SUFFICES ASSUME NEW r \in Runs, Live(r)'
               PROVE  \/ registry'[act'[r].task] = r
                      \/ \E c \in Callers : At(c, "Spawned")' /\ act'[c].handle = r /\ act'[c].task = act'[r].task
                      \/ Condemned(r)' \/ r \in aborted' \/ At(r, "Aborting")'
    BY DEF NoRunIsLost
  <2>1. r # a /\ act'[r] = act[r] /\ Live(r)
    BY <1>3, <1>4 DEF Live, At, Actors
  <2>2. Condemned(r) => Condemned(r)' \/ r \in aborted'
    BY <2>1, <1>1, <1>4 DEF Condemned, At
  <2>3. \A c \in Callers : At(c, "Spawned") => At(c, "Spawned")' /\ act'[c] = act[c]
    BY <1>1, <1>4 DEF At, Actors
  <2> QED
    BY <2>1, <2>2, <2>3, <1>1 DEF Inv, NoRunIsLost, At
<1> QED
  BY <1>6, <1>8, <1>9, <1>10, <1>11 DEF Inv

\* After a restart nothing runs and nothing is locked.
LEMMA RestartStep ==
    ASSUME Inv, Restart
    PROVE  Inv'
<1>1. \A a \in Actors : act'[a] = Resting
  BY DEF Restart
<1>2. TasksTypeOK'
  BY DEF Restart, Inv, TasksTypeOK, Resting, Steps, TaskLocks
<1>3. LocksFit' /\ OneHolder'
  BY <1>1 DEF LocksFit, OneHolder, HoldsRight, Has, Resting, Waits
<1>4. HasTask' /\ StartsAlone' /\ NoRunIsLost'
  BY <1>1 DEF HasTask, StartsAlone, NoRunIsLost, IsStarting, Live, At, Resting, Actors, Waits
<1>5. Registered'
  BY DEF Restart, Inv, TasksTypeOK, Registered
<1> QED
  BY <1>2, <1>3, <1>4, <1>5 DEF Inv

-----------------------------------------------------------------------------
(* Every step *)

\* Resting is a job, and what follows a start is.
LEMMA RestingJob ==
    /\ Resting \in Jobs /\ Resting.step = "None" /\ Resting.held = {} /\ HoldsRight(Resting)
BY DEF Resting, Jobs, Steps, TaskLocks, HoldsRight, Waits

\* Whoever rests has let go of everything, wherever it was dropped.
LEMMA RestStep ==
    ASSUME Inv, NEW a \in Actors, Rest(a), UNCHANGED <<executors, registry>>,
           ~At(a, "Aborting"), ~At(a, "Spawned"), At(a, "Marked") => act[a].task \notin executors,
           running' = running \/ (a \in Callers /\ IsStarting(a) /\ running' = running \ {act[a].task}),
           aborted' = aborted \/ aborted' = aborted \ {a}
    PROVE  Inv'
<1>1. act' = [act EXCEPT ![a] = Resting]
  BY DEF Rest
<1> QED
  BY <1>1, RestingJob, QuietStep DEF Waits

\* start, stop or mark_timed_out is called.
LEMMA AsksStep ==
    ASSUME Inv, NEW c \in Callers, NEW step \in Waits, NEW t \in Tasks, Asks(c, step, t)
    PROVE  Inv'
<1> DEFINE job == [Resting EXCEPT !.step = step, !.task = t]
<1>1. /\ At(c, "None") /\ act' = [act EXCEPT ![c] = job]
      /\ UNCHANGED <<executors, running, registry, aborted>>
  BY DEF Asks
<1>2. c \in Actors /\ c \notin Runs
  BY TasksAssumption DEF Actors
<1>3. job \in Jobs /\ job.step = step /\ job.task = t /\ job.held = {} /\ HoldsRight(job)
  BY DEF Resting, Jobs, Steps, TaskLocks, HoldsRight, Waits
<1> HIDE DEF job
<1> QED
  BY <1>1, <1>2, <1>3, QuietStep DEF At, Waits

\* The lock is free and fits the step.
LEMMA LockStep ==
    ASSUME Inv, NEW a \in Actors, LockFirst(a)
    PROVE  Inv'
<1> DEFINE job == [act[a] EXCEPT !.held = {"running_tasks"}]
<1>1. /\ act[a].step \in Waits /\ Free(a, "running_tasks")
      /\ act' = [act EXCEPT ![a].held = {"running_tasks"}]
      /\ UNCHANGED <<executors, running, registry, aborted>>
  BY DEF LockFirst
<1>2. act \in [Actors -> Jobs] /\ act[a] \in Jobs
  BY DEF Inv, TasksTypeOK, Jobs
<1>3. /\ act' = [act EXCEPT ![a] = job] /\ job \in Jobs /\ job.step = act[a].step
      /\ job.task = act[a].task /\ job.held = {"running_tasks"}
  BY <1>1, <1>2 DEF Jobs, TaskLocks
<1>4. HoldsRight(job) /\ Live(a) /\ job.task \in Tasks
  BY <1>1, <1>3 DEF HoldsRight, Waits, Live, At, Inv, HasTask
<1> HIDE DEF job
<1> QED
  BY <1>1, <1>3, <1>4, QuietStep DEF At, Waits

\* stop and mark_timed_out.
LEMMA StopStep ==
    ASSUME Inv, NEW a \in Actors, Stop(a) \/ (a = Scheduler /\ TimeOut)
    PROVE  Inv'
<1>1. CASE Stop(a)
  <2>1. /\ act[a].step \in Waits /\ Takes(a, "None") /\ UNCHANGED executors
        /\ aborted' = aborted \/ (registry[act[a].task] = None /\ aborted' = aborted \ {a})
    BY <1>1 DEF Stop, At, Waits
  <2> QED
    BY <2>1, TakesStep
<1>2. CASE a = Scheduler /\ TimeOut
  <2>1. /\ act[a].step \in Waits /\ Takes(a, "Saving") /\ UNCHANGED <<executors, aborted>> /\ a \notin Runs
    BY <1>2, TasksAssumption DEF TimeOut, At, Waits, Callers
  <2> QED
    BY <2>1, TakesStep
<1> QED
  BY <1>1, <1>2

\* Every step that needs no look at the results.
LEMMA QuietKeeps ==
    ASSUME Inv, Quiet
    PROVE  Inv'
<1>1. Scheduler \in Callers /\ Scheduler \in Actors /\ Requests \subseteq Callers /\ Callers \subseteq Actors
  BY DEF Callers, Actors
<1>2. CASE \/ \E c \in Callers, t \in Tasks : Asks(c, "Starting", t)
           \/ \E c \in Requests, t \in Tasks : Asks(c, "Stopping", t)
           \/ \E t \in Tasks : FindLate(t)
  BY <1>1, <1>2, AsksStep DEF FindLate, Waits
<1>3. CASE \E a \in Actors : LockFirst(a) \/ Stop(a) \/ Abort(a)
  BY <1>3, LockStep, StopStep, AbortStep
<1>4. ASSUME NEW c \in Callers, RunsAlready(c) \/ Disconnect(c) PROVE Inv'
  <2>1. /\ c \in Actors /\ Rest(c) /\ UNCHANGED <<executors, running, registry, aborted>>
        /\ ~At(c, "Aborting") /\ ~At(c, "Spawned") /\ (At(c, "Marked") => act[c].task \notin executors)
    BY <1>1, <1>4 DEF RunsAlready, Disconnect, Awaits, At
  <2> QED
    BY <2>1, RestStep
<1>5. CASE \E c \in Callers : RegisterRun(c)
  BY <1>5, RegisterStep
<1>6. CASE \E c \in Callers, r \in Runs : Spawn(c, r)
  BY <1>6, SpawnStep
<1>7. CASE NotLate
  <2>1. /\ Rest(Scheduler) /\ UNCHANGED <<executors, running, registry, aborted>>
        /\ ~At(Scheduler, "Aborting") /\ ~At(Scheduler, "Spawned") /\ ~At(Scheduler, "Marked")
    BY <1>7 DEF NotLate, At
  <2> QED
    BY <1>1, <2>1, RestStep
<1> QED
  BY <1>2, <1>3, <1>4, <1>5, <1>6, <1>7 DEF Quiet

\* A run or a writer goes on to a step, with the locks of that step.
LEMMA GoesStep ==
    ASSUME Inv, NEW a \in Actors, NEW job \in Jobs, act' = [act EXCEPT ![a] = job],
           job.step \in {"Recording", "Saving", "Writing", "Stopping"}, job.task = act[a].task,
           job.held = IF job.step = "Writing" THEN {"tasks"} ELSE {}, job.step = "Stopping" => a \in Runs,
           act[a].step \in {"Working", "Recording", "Saving", "Writing"},
           UNCHANGED <<executors, running, registry, aborted>>
    PROVE  Inv'
<1>1. HoldsRight(job) /\ Live(a) /\ "running_tasks" \notin job.held
  BY DEF HoldsRight, Waits, Live, At
<1>2. job.step \in Waits => job.task \in Tasks
  BY <1>1 DEF Inv, HasTask, Waits
<1>3. ~At(a, "Aborting") /\ ~At(a, "Spawned") /\ ~At(a, "Marked")
  BY DEF At
<1> QED
  BY <1>1, <1>2, <1>3, QuietStep

\* A change of step with no locks at all.
LEMMA SameLocks ==
    ASSUME Inv, NEW a \in Actors, NEW step \in {"Recording", "Saving"}, Goes(a, step),
           act[a].step \in {"Working", "Recording"}
    PROVE  Inv'
<1> DEFINE job == [act[a] EXCEPT !.step = step]
<1>1. act \in [Actors -> Jobs] /\ act[a] \in Jobs /\ act[a].held = {}
  BY DEF Inv, TasksTypeOK, Jobs, LocksFit, HoldsRight
<1>2. job \in Jobs /\ job.step = step /\ job.task = act[a].task /\ job.held = {}
  BY <1>1 DEF Jobs, Steps
<1>3. act' = [act EXCEPT ![a] = job] /\ UNCHANGED <<executors, running, registry, aborted>>
  BY <1>1 DEF Goes
<1> HIDE DEF job
<1> QED
  BY <1>2, <1>3, GoesStep

\* Every step that makes a result.
LEMMA ResultsKeep ==
    ASSUME Inv, NEW t \in Tasks, Results(t)
    PROVE  Inv'
<1>1. Scheduler \in Actors /\ Runs \subseteq Actors /\ Callers \subseteq Actors
  BY DEF Callers, Actors
<1>2. CASE \E c \in Callers : Mark(c)
  BY <1>2, MarkStep
<1>3. ASSUME NEW c \in Callers, Unavailable(c) PROVE Inv'
  <2>1. /\ c \in Actors /\ Rest(c) /\ UNCHANGED <<executors, registry, aborted>>
        /\ ~At(c, "Aborting") /\ ~At(c, "Spawned") /\ act[c].task \notin executors
        /\ IsStarting(c) /\ running' = running \ {act[c].task}
    BY <1>1, <1>3 DEF Unavailable, At, IsStarting
  <2> QED
    BY <2>1, RestStep
<1>4. CASE TimeOut
  BY <1>1, <1>4, StopStep
<1>5. ASSUME NEW r \in Runs, Record(r) PROVE Inv'
  BY <1>1, <1>5, SameLocks DEF Record, At
<1> QED
  BY <1>2, <1>3, <1>4, <1>5 DEF Results

\* What a run does alone.
LEMMA WorksKeep ==
    ASSUME Inv, NEW r \in Runs, Works(r)
    PROVE  Inv'
<1>1. r \in Actors
  BY DEF Actors
<1>2. CASE Finish(r)
  BY <1>1, <1>2, SameLocks DEF Finish, At
<1>3. CASE Drop(r) \/ Panic(r)
  <2>1. /\ Rest(r) /\ UNCHANGED <<executors, running, registry>> /\ aborted' = aborted \ {r}
        /\ ~At(r, "Aborting") /\ ~At(r, "Spawned") /\ ~At(r, "Marked")
    BY <1>3 DEF Drop, Panic, Over, At
  <2> QED
    BY <1>1, <2>1, RestStep
<1> QED
  BY <1>2, <1>3 DEF Works

\* Reading the tasks and being done with the file.
LEMMA FileKeeps ==
    ASSUME Inv, NEW a \in Actors, Read(a) \/ Saved(a)
    PROVE  Inv'
<1>0. act \in [Actors -> Jobs] /\ act[a] \in Jobs
  BY DEF Inv, TasksTypeOK, Jobs
<1>1. CASE Read(a)
  <2> DEFINE job == [act[a] EXCEPT !.step = "Writing", !.held = {"tasks"}]
  <2>1. /\ job \in Jobs /\ job.step = "Writing" /\ job.task = act[a].task /\ job.held = {"tasks"}
        /\ act' = [act EXCEPT ![a] = job]
    BY <1>0, <1>1 DEF Read, Jobs, Steps, TaskLocks
  <2>2. At(a, "Saving") /\ UNCHANGED <<executors, running, registry, aborted>>
    BY <1>1 DEF Read
  <2> HIDE DEF job
  <2> QED
    BY <2>1, <2>2, GoesStep DEF At
<1>2. CASE Saved(a) /\ a \in Runs
  <2> DEFINE job == [act[a] EXCEPT !.step = "Stopping", !.held = {}]
  <2>1. job \in Jobs /\ job.step = "Stopping" /\ job.task = act[a].task /\ job.held = {}
    BY <1>0 DEF Jobs, Steps, Waits, TaskLocks
  <2>2. /\ At(a, "Writing") /\ UNCHANGED <<executors, running, registry, aborted>>
        /\ act' = [act EXCEPT ![a] = job]
    BY <1>0, <1>2 DEF Saved
  <2> HIDE DEF job
  <2> QED
    BY <1>2, <2>1, <2>2, GoesStep DEF At
<1>3. CASE Saved(a) /\ a \notin Runs
  <2>1. /\ Rest(a) /\ UNCHANGED <<executors, running, registry, aborted>>
        /\ ~At(a, "Aborting") /\ ~At(a, "Spawned") /\ ~At(a, "Marked")
    BY <1>3 DEF Saved, Rest, At
  <2> QED
    BY <2>1, RestStep
<1> QED
  BY <1>1, <1>2, <1>3

\* The invariant is inductive.
LEMMA NextInv == Inv /\ [TasksNext]_taskVars => Inv'
<1> SUFFICES ASSUME Inv, [TasksNext]_taskVars PROVE Inv'
  OBVIOUS
<1>1. CASE UNCHANGED taskVars
  BY <1>1 DEF taskVars, Inv, TasksTypeOK, LocksFit, HoldsRight, OneHolder, Has, HasTask, StartsAlone,
              Registered, NoRunIsLost, IsStarting, At, Live, Condemned
<1> QED
  BY <1>1, QuietKeeps, ResultsKeep, WorksKeep, FileKeeps, RestartStep DEF TasksNext

\* The invariant holds in every state.
LEMMA AlwaysInv == TasksSpec => []Inv
BY InitInv, NextInv, PTL DEF TasksSpec

\* The states, the handles and the locks stay well-formed.
THEOREM TasksTyped == TasksSpec => []TasksTypeOK
<1>1. Inv => TasksTypeOK
  BY DEF Inv
<1> QED
  BY <1>1, AlwaysInv, PTL

\* Whoever gets the lock of the handles finds one for exactly the tasks that run.
THEOREM HandlesAreRegistered == TasksSpec => []RegisteredWhileRunning
BY InvHolds, AlwaysInv, PTL

\* No run that is to last escapes the map, and none that escapes it lasts.
THEOREM RunsAreNotLost == TasksSpec => []NoRunIsLost
BY InvHolds, AlwaysInv, PTL

-----------------------------------------------------------------------------
(* The history and the file *)

IsWriting(a) == At(a, "Writing")

\* Who writes has read the history as it is, and nobody else has a file open.
Snapshots ==
    \A a \in Actors : /\ IsWriting(a) => saved[a] = history
                      /\ output[a] # "none" => IsWriting(a)

\* A file that was read is not ahead of the history.
Published == restored /\ file # Torn => \A t \in Tasks : history[t] >= file[t]

\* From when somebody has opened it, the temporary file is what all write, if it is there;
\* and if it is torn, somebody writes to it or failed to.
TemporaryRight ==
    (\E a \in Actors : output[a] # "none") =>
        /\ temporary \in {history, Torn, Absent}
        /\ temporary = Torn /\ ~diskFails => \E b \in Actors : output[b] = "temporary"

HistoryInv == HistoryTypeOK /\ Snapshots /\ Published /\ TemporaryRight

\* A history is not a torn file, and no file is not a torn one.
LEMMA ContentsDiffer ==
    /\ \A h \in Histories : h # Torn /\ h # Absent
    /\ Torn # Absent
BY HistoryAssumption DEF Histories

\* The history and the file when the service starts for the first time.
LEMMA InitHistory == HistoryInit => HistoryInv
BY DEF HistoryInit, HistoryInv, HistoryTypeOK, Histories, Clear, Outputs, Snapshots, Published, TemporaryRight

\* A step that records and writes nothing, and lets the writers be.
LEMMA HistoryKept ==
    ASSUME HistoryInv, UNCHANGED historyVars, \A b \in Actors : IsWriting(b) => IsWriting(b)',
           \A b \in Actors : IsWriting(b)' => IsWriting(b)
    PROVE  HistoryInv'
BY DEF historyVars, HistoryInv, HistoryTypeOK, Snapshots, Published, TemporaryRight

\* One actor that neither was nor is a writer lets all writers be.
LEMMA NoWriter ==
    ASSUME Inv, NEW a \in Actors, ~IsWriting(a), ~IsWriting(a)', \A b \in Actors \ {a} : act'[b] = act[b]
    PROVE  \A b \in Actors : (IsWriting(b) => IsWriting(b)') /\ (IsWriting(b)' => IsWriting(b))
BY DEF IsWriting, At

\* Callers and runs that record nothing do not write either.
LEMMA UnrecordedStep ==
    ASSUME Inv, HistoryInv, UNCHANGED historyVars, Quiet \/ \E r \in Runs : Works(r)
    PROVE  HistoryInv'
<1>1. /\ Scheduler \in Actors /\ Callers \subseteq Actors /\ Requests \subseteq Callers /\ Runs \subseteq Actors
      /\ act \in [Actors -> Jobs]
  BY DEF Callers, Actors, Inv, TasksTypeOK, Jobs
<1>2. SUFFICES \A b \in Actors : (IsWriting(b) => IsWriting(b)') /\ (IsWriting(b)' => IsWriting(b))
  BY HistoryKept
<1>3. ASSUME NEW c \in Callers, NEW step \in Waits, NEW t \in Tasks, Asks(c, step, t)
      PROVE  \A b \in Actors : (IsWriting(b) => IsWriting(b)') /\ (IsWriting(b)' => IsWriting(b))
  BY <1>1, <1>3, NoWriter DEF Asks, Resting, IsWriting, At, Waits
<1>4. ASSUME NEW a \in Actors, LockFirst(a) \/ Stop(a) \/ Abort(a)
      PROVE  \A b \in Actors : (IsWriting(b) => IsWriting(b)') /\ (IsWriting(b)' => IsWriting(b))
  <2>1. CASE LockFirst(a)
    <3>1. act[a] \in Jobs /\ act' = [act EXCEPT ![a].held = {"running_tasks"}] /\ act[a].step \in Waits
      BY <1>1, <2>1 DEF LockFirst
    <3>2. act'[a].step = act[a].step /\ \A b \in Actors \ {a} : act'[b] = act[b]
      BY <1>1, <3>1 DEF Jobs
    <3> QED
      BY <3>1, <3>2, NoWriter DEF IsWriting, At, Waits
  <2>2. CASE Stop(a)
    <3>1. act[a] \in Jobs /\ At(a, "Stopping") /\ Takes(a, "None")
      BY <1>1, <2>2 DEF Stop
    <3>2. act'[a].step \in {"None", "Aborting"} /\ \A b \in Actors \ {a} : act'[b] = act[b]
      BY <1>1, <3>1 DEF Takes, Resting, Jobs
    <3> QED
      BY <3>1, <3>2, NoWriter DEF IsWriting, At
  <2>3. CASE Abort(a)
    BY <1>1, <2>3, NoWriter DEF Abort, AfterAbort, Resting, IsWriting, At
  <2> QED
    BY <1>4, <2>1, <2>2, <2>3
<1>5. ASSUME NEW a \in Actors, Rest(a), ~IsWriting(a)
      PROVE  \A b \in Actors : (IsWriting(b) => IsWriting(b)') /\ (IsWriting(b)' => IsWriting(b))
  BY <1>1, <1>5, NoWriter DEF Rest, Resting, IsWriting, At
<1>6. ASSUME NEW c \in Callers, RunsAlready(c) \/ RegisterRun(c) \/ Disconnect(c)
      PROVE  \A b \in Actors : (IsWriting(b) => IsWriting(b)') /\ (IsWriting(b)' => IsWriting(b))
  <2>1. CASE RunsAlready(c) \/ Disconnect(c)
    BY <1>1, <1>5, <2>1 DEF RunsAlready, Disconnect, Awaits, IsWriting, At
  <2>2. CASE RegisterRun(c)
    BY <1>1, <2>2, NoWriter DEF RegisterRun, Resting, IsWriting, At
  <2> QED
    BY <1>6, <2>1, <2>2
<1>7. ASSUME NEW c \in Callers, NEW r \in Runs, Spawn(c, r)
      PROVE  \A b \in Actors : (IsWriting(b) => IsWriting(b)') /\ (IsWriting(b)' => IsWriting(b))
  <2>1. /\ At(c, "Marked") /\ At(r, "None") /\ c \in Actors /\ r \in Actors /\ c # r
        /\ act' = [act EXCEPT ![c].step = "Spawned", ![c].handle = r,
                              ![r].step = "Working", ![r].task = act[c].task]
    BY <1>1, <1>7, TasksAssumption DEF Spawn, Fresh
  <2>2. act'[c].step = "Spawned" /\ act'[r].step = "Working" /\ \A b \in Actors \ {c, r} : act'[b] = act[b]
    BY <1>1, <2>1 DEF Jobs
  <2> QED
    BY <2>1, <2>2 DEF IsWriting, At
<1>8. CASE NotLate
  BY <1>1, <1>5, <1>8 DEF NotLate, IsWriting, At
<1>9. ASSUME NEW r \in Runs, Works(r)
      PROVE  \A b \in Actors : (IsWriting(b) => IsWriting(b)') /\ (IsWriting(b)' => IsWriting(b))
  <2>1. CASE Finish(r)
    <3>1. act[r] \in Jobs /\ At(r, "Working") /\ act' = [act EXCEPT ![r].step = "Recording"]
      BY <1>1, <2>1 DEF Finish, Goes
    <3>2. act'[r].step = "Recording" /\ \A b \in Actors \ {r} : act'[b] = act[b]
      BY <1>1, <3>1 DEF Jobs
    <3> QED
      BY <1>1, <3>1, <3>2, NoWriter DEF IsWriting, At
  <2>2. CASE Drop(r) \/ Panic(r)
    BY <1>1, <1>5, <2>2 DEF Drop, Panic, Over, IsWriting, At
  <2> QED
    BY <1>9, <2>1, <2>2 DEF Works
<1>10. CASE \E t \in Tasks : FindLate(t)
  BY <1>1, <1>3, <1>10 DEF FindLate, Waits, Callers
<1>11. CASE \/ \E c \in Callers, t \in Tasks : Asks(c, "Starting", t)
            \/ \E c \in Requests, t \in Tasks : Asks(c, "Stopping", t)
  BY <1>1, <1>3, <1>11 DEF Waits
<1>12. CASE Quiet
  BY <1>4, <1>6, <1>7, <1>8, <1>10, <1>11, <1>12 DEF Quiet
<1> QED
  BY <1>9, <1>12

\* Whoever changes what is recorded has tasks to itself: nobody writes.
LEMMA ResultsAlone ==
    ASSUME Inv, NEW t \in Tasks, Results(t)
    PROVE  \A b \in Actors : ~IsWriting(b) /\ ~IsWriting(b)'
<1>1. Scheduler \in Actors /\ Callers \subseteq Actors /\ Runs \subseteq Actors /\ act \in [Actors -> Jobs]
  BY DEF Callers, Actors, Inv, TasksTypeOK, Jobs
<1>2. ASSUME NEW a \in Actors, Free(a, "tasks"), ~IsWriting(a), ~IsWriting(a)', \A b \in Actors \ {a} : act'[b] = act[b]
      PROVE  \A b \in Actors : ~IsWriting(b) /\ ~IsWriting(b)'
  <2>1. \A b \in Actors \ {a} : ~IsWriting(b)
    BY <1>2 DEF Free, Inv, LocksFit, HoldsRight, IsWriting, At
  <2> QED
    BY <1>2, <2>1 DEF IsWriting, At
<1>3. ASSUME NEW c \in Callers, Mark(c) PROVE \A b \in Actors : ~IsWriting(b) /\ ~IsWriting(b)'
  <2>1. /\ c \in Actors /\ At(c, "Starting") /\ Free(c, "tasks")
        /\ act' = [act EXCEPT ![c].step = "Marked"] /\ act[c] \in Jobs
    BY <1>1, <1>3 DEF Mark, Locked, TaskLocks
  <2>2. act'[c].step = "Marked" /\ \A b \in Actors \ {c} : act'[b] = act[b]
    BY <1>1, <2>1 DEF Jobs
  <2> QED
    BY <1>2, <2>1, <2>2 DEF IsWriting, At
<1>4. ASSUME NEW c \in Callers, Unavailable(c) PROVE \A b \in Actors : ~IsWriting(b) /\ ~IsWriting(b)'
  BY <1>1, <1>2, <1>4 DEF Unavailable, Rest, Resting, IsWriting, At
<1>5. ASSUME TimeOut PROVE \A b \in Actors : ~IsWriting(b) /\ ~IsWriting(b)'
  <2>1. At(Scheduler, "Late") /\ Takes(Scheduler, "Saving") /\ Free(Scheduler, "tasks") /\ act[Scheduler] \in Jobs
    BY <1>1, <1>5 DEF TimeOut, Takes, Locked, TaskLocks
  <2>2. act'[Scheduler].step \in {"Saving", "Aborting"} /\ \A b \in Actors \ {Scheduler} : act'[b] = act[b]
    BY <1>1, <2>1 DEF Takes, Resting, Jobs
  <2> QED
    BY <1>1, <1>2, <2>1, <2>2 DEF IsWriting, At
<1>6. ASSUME NEW r \in Runs, Record(r) PROVE \A b \in Actors : ~IsWriting(b) /\ ~IsWriting(b)'
  <2>1. /\ r \in Actors /\ At(r, "Recording") /\ Free(r, "tasks")
        /\ act' = [act EXCEPT ![r].step = "Saving"] /\ act[r] \in Jobs
    BY <1>1, <1>6 DEF Record, Goes
  <2>2. act'[r].step = "Saving" /\ \A b \in Actors \ {r} : act'[b] = act[b]
    BY <1>1, <2>1 DEF Jobs
  <2> QED
    BY <1>2, <2>1, <2>2 DEF IsWriting, At
<1> QED
  BY <1>3, <1>4, <1>5, <1>6 DEF Results

\* The history of a task grows while no file is open.
LEMMA RecordedStep ==
    ASSUME Inv, HistoryInv, NEW t \in Tasks, Recorded(t)
    PROVE  HistoryInv'
<1>1. /\ history' = [history EXCEPT ![t] = @ + 1] /\ Results(t)
      /\ UNCHANGED <<file, temporary, saved, output, diskFails, restored>>
  BY DEF Recorded
<1>2. history \in [Tasks -> Nat]
  BY DEF HistoryInv, HistoryTypeOK, Histories
<1>3. history' \in [Tasks -> Nat] /\ \A u \in Tasks : history'[u] >= history[u]
  BY <1>1, <1>2
<1>4. \A b \in Actors : ~IsWriting(b) /\ ~IsWriting(b)' /\ output[b] = "none"
  BY <1>1, ResultsAlone DEF HistoryInv, Snapshots
<1>5. HistoryTypeOK'
  BY <1>1, <1>3 DEF HistoryInv, HistoryTypeOK, Histories
<1>6. Snapshots' /\ TemporaryRight'
  BY <1>1, <1>4 DEF Snapshots, TemporaryRight
<1>7. Published'
  <2> SUFFICES ASSUME restored, file # Torn, NEW u \in Tasks PROVE history'[u] >= file[u]
    BY <1>1 DEF Published
  <2>1. history[u] >= file[u] /\ file \in [Tasks -> Nat]
    BY DEF HistoryInv, Published, HistoryTypeOK, Histories
  <2> QED
    BY <1>2, <1>3, <2>1
<1> QED
  BY <1>5, <1>6, <1>7 DEF HistoryInv

\* A writer reads the tasks.
LEMMA SnapshotStep ==
    ASSUME Inv, HistoryInv, NEW a \in Actors, Snapshot(a)
    PROVE  HistoryInv'
<1>1. /\ At(a, "Saving") /\ act' = [act EXCEPT ![a].step = "Writing", ![a].held = {"tasks"}]
      /\ saved' = [saved EXCEPT ![a] = history]
      /\ UNCHANGED <<history, file, temporary, output, diskFails, restored>>
  BY DEF Snapshot, Read
<1>2. act \in [Actors -> Jobs] /\ saved \in [Actors -> Histories] /\ history \in Histories
  BY DEF Inv, TasksTypeOK, Jobs, HistoryInv, HistoryTypeOK
<1>3. \A b \in Actors \ {a} : act'[b] = act[b] /\ saved'[b] = saved[b]
  BY <1>1, <1>2
<1>4. saved'[a] = history /\ IsWriting(a)'
  BY <1>1, <1>2 DEF IsWriting, At, Jobs
<1>5. HistoryTypeOK'
  BY <1>1, <1>2 DEF HistoryInv, HistoryTypeOK
<1>6. Snapshots'
  BY <1>1, <1>3, <1>4 DEF HistoryInv, Snapshots, IsWriting, At
<1>7. Published' /\ TemporaryRight'
  BY <1>1 DEF HistoryInv, Published, TemporaryRight
<1> QED
  BY <1>5, <1>6, <1>7 DEF HistoryInv

\* The temporary file is torn, by a who writes to it.
LEMMA OpenStep ==
    ASSUME HistoryInv, NEW a \in Actors, Open(a)
    PROVE  HistoryInv'
<1>1. /\ At(a, "Writing") /\ output[a] = "none" /\ temporary' = Torn
      /\ output' = [output EXCEPT ![a] = "temporary"]
      /\ UNCHANGED <<act, history, file, saved, diskFails, restored>>
  BY DEF Open, taskVars
<1>2. output'[a] = "temporary" /\ \A b \in Actors \ {a} : output'[b] = output[b]
  BY <1>1 DEF HistoryInv, HistoryTypeOK
<1>3. HistoryTypeOK'
  BY <1>1 DEF HistoryInv, HistoryTypeOK, Outputs
<1>4. Snapshots'
  BY <1>1, <1>2 DEF HistoryInv, Snapshots, IsWriting, At
<1>5. Published' /\ TemporaryRight'
  BY <1>1, <1>2 DEF HistoryInv, Published, TemporaryRight
<1> QED
  BY <1>3, <1>4, <1>5 DEF HistoryInv

\* What is written is the history.
LEMMA FillStep ==
    ASSUME HistoryInv, NEW a \in Actors, Fill(a)
    PROVE  HistoryInv' /\ (file' # file => file' = history)
<1>1. /\ Writes(a)
      /\ file' = IF output[a] = "file" THEN saved[a] ELSE file
      /\ temporary' = IF output[a] = "temporary" THEN saved[a] ELSE temporary
      /\ output' = [output EXCEPT ![a] = "written"]
      /\ UNCHANGED <<act, history, saved, diskFails, restored>>
  BY DEF Fill, taskVars
<1>2. output'[a] = "written" /\ \A b \in Actors \ {a} : output'[b] = output[b]
  BY <1>1 DEF HistoryInv, HistoryTypeOK
<1>3. IsWriting(a) /\ saved[a] = history /\ history \in Histories
  BY <1>1 DEF HistoryInv, HistoryTypeOK, Snapshots, Writes
<1>4. HistoryTypeOK'
  BY <1>1, <1>3 DEF HistoryInv, HistoryTypeOK, Outputs
<1>5. Snapshots'
  BY <1>1, <1>2, <1>3 DEF HistoryInv, Snapshots, IsWriting, At
<1>6. Published'
  BY <1>1, <1>3 DEF HistoryInv, Published, Histories
<1>7. TemporaryRight'
  <2>1. CASE output[a] = "temporary"
    BY <2>1, <1>1, <1>3, ContentsDiffer DEF TemporaryRight
  <2>2. CASE output[a] # "temporary"
    <3>1. /\ temporary \in {history, Torn, Absent}
          /\ temporary = Torn /\ ~diskFails => \E b \in Actors : output[b] = "temporary"
      BY <1>1 DEF HistoryInv, TemporaryRight, Writes
    <3>2. (\E b \in Actors : output[b] = "temporary") => \E b \in Actors : output'[b] = "temporary"
      BY <2>2, <1>2
    <3> QED
      BY <2>2, <1>1, <3>1, <3>2 DEF TemporaryRight
  <2> QED
    BY <2>1, <2>2
<1> QED
  BY <1>1, <1>3, <1>4, <1>5, <1>6, <1>7 DEF HistoryInv

\* Who is done with the file holds nothing any more.
LEMMA SavedFacts ==
    ASSUME Inv, NEW a \in Actors, Saved(a)
    PROVE  IsWriting(a) /\ ~IsWriting(a)' /\ \A b \in Actors \ {a} : act'[b] = act[b]
<1>1. /\ At(a, "Writing") /\ act[a] \in Jobs /\ act \in [Actors -> Jobs]
      /\ act' = [act EXCEPT ![a] = IF a \in Runs THEN [@ EXCEPT !.step = "Stopping", !.held = {}] ELSE Resting]
  BY DEF Saved, Inv, TasksTypeOK, Jobs
<1>2. act'[a].step \in {"Stopping", "None"}
  BY <1>1 DEF Resting, Jobs
<1> QED
  BY <1>1, <1>2 DEF IsWriting, At

\* The temporary file, which is the history or torn, becomes the file.
LEMMA RenameStep ==
    ASSUME Inv, HistoryInv, NEW a \in Actors, Rename(a)
    PROVE  /\ HistoryInv'
           /\ file' = history \/ (file' = Torn /\ (diskFails \/ \E b \in Actors : output'[b] = "file"))
<1>1. /\ output[a] = "written" /\ temporary # Absent /\ Saved(a)
      /\ file' = temporary /\ temporary' = Absent
      /\ output' = [Renamed EXCEPT ![a] = "none"]
      /\ saved' = [saved EXCEPT ![a] = Clear]
      /\ UNCHANGED <<history, diskFails, restored>>
  BY DEF Rename
<1>2. /\ output'[a] = "none"
      /\ \A b \in Actors \ {a} : output'[b] = Renamed[b] /\ saved'[b] = saved[b]
      /\ Renamed \in [Actors -> Outputs]
  BY <1>1 DEF HistoryInv, HistoryTypeOK, Renamed, Outputs
<1>3. \A b \in Actors : /\ output[b] = "temporary" => Renamed[b] = "file"
                        /\ output[b] = "none" => Renamed[b] = "none"
  BY DEF Renamed
<1>4. temporary \in {history, Torn} /\ history \in Histories
  BY <1>1 DEF HistoryInv, TemporaryRight, HistoryTypeOK
<1>5. temporary = Torn /\ ~diskFails => \E b \in Actors : output'[b] = "file"
  BY <1>1, <1>2, <1>3 DEF HistoryInv, TemporaryRight
<1>6. HistoryTypeOK'
  BY <1>1, <1>2, <1>4 DEF HistoryInv, HistoryTypeOK, Histories, Clear, Outputs
<1>7. Snapshots'
  BY <1>1, <1>2, <1>3, SavedFacts DEF HistoryInv, Snapshots, IsWriting, At
<1>8. Published' /\ TemporaryRight'
  BY <1>1, <1>4, ContentsDiffer DEF Published, TemporaryRight, Histories
<1> QED
  BY <1>1, <1>4, <1>5, <1>6, <1>7, <1>8 DEF HistoryInv

\* A writer that gives up leaves the files to the others; what it leaves torn, it leaves
\* on a disk that fails.
LEMMA GiveUpStep ==
    ASSUME Inv, HistoryInv, NEW a \in Actors, GiveUp(a)
    PROVE  HistoryInv'
<1>1. /\ Writes(a) => diskFails /\ Saved(a)
      /\ output' = [output EXCEPT ![a] = "none"] /\ saved' = [saved EXCEPT ![a] = Clear]
      /\ UNCHANGED <<history, file, temporary, diskFails, restored>>
  BY DEF GiveUp
<1>2. /\ output'[a] = "none"
      /\ \A b \in Actors \ {a} : output'[b] = output[b] /\ saved'[b] = saved[b]
  BY <1>1 DEF HistoryInv, HistoryTypeOK
<1>3. HistoryTypeOK'
  BY <1>1 DEF HistoryInv, HistoryTypeOK, Histories, Clear, Outputs
<1>4. Saved(a)
  BY DEF GiveUp
<1>5. Snapshots'
  BY <1>1, <1>2, <1>4, SavedFacts DEF HistoryInv, Snapshots, IsWriting, At
<1>6. TemporaryRight'
  BY <1>1, <1>2 DEF HistoryInv, TemporaryRight, Writes
<1>7. Published'
  BY <1>1 DEF HistoryInv, Published
<1> QED
  BY <1>3, <1>5, <1>6, <1>7 DEF HistoryInv

\* After a restart nobody writes, and a file that was read is the history.
LEMMA StartAgainStep ==
    ASSUME HistoryInv, NEW pathSet \in BOOLEAN, StartAgain(pathSet)
    PROVE  HistoryInv' /\ file' = file
<1>1. /\ restored' = (pathSet /\ file # Torn) /\ history' = IF restored' THEN file ELSE Clear
      /\ saved' = [a \in Actors |-> Clear] /\ output' = [a \in Actors |-> "none"]
      /\ UNCHANGED <<file, temporary, diskFails>> /\ \A a \in Actors : act'[a] = Resting
  BY DEF StartAgain, Restart
<1>2. HistoryTypeOK'
  BY <1>1 DEF HistoryInv, HistoryTypeOK, Histories, Clear, Outputs
<1>3. Snapshots' /\ TemporaryRight'
  BY <1>1 DEF Snapshots, TemporaryRight, IsWriting, At, Resting
<1>4. Published'
  BY <1>1 DEF HistoryInv, HistoryTypeOK, Histories, Published
<1> QED
  BY <1>1, <1>2, <1>3, <1>4 DEF HistoryInv

\* The tasks go on beside the file as they do without it.
LEMMA HistoryStepsTasks ==
    ASSUME [HistoryNext]_allVars
    PROVE  [TasksNext]_taskVars
<1>1. CASE UNCHANGED allVars
  BY <1>1 DEF allVars
<1>2. ASSUME NEW t \in Tasks, Recorded(t) PROVE TasksNext
  BY <1>2 DEF Recorded, TasksNext
<1>3. ASSUME Unrecorded \/ \E r \in Runs : Dropped(r) PROVE TasksNext
  BY <1>3 DEF Unrecorded, Dropped, TasksNext, Works
<1>4. ASSUME NEW a \in Actors, Snapshot(a) \/ Rename(a) \/ GiveUp(a) PROVE TasksNext
  BY <1>4 DEF Snapshot, Rename, GiveUp, TasksNext
<1>5. ASSUME NEW a \in Actors, Open(a) \/ Fill(a) PROVE UNCHANGED taskVars
  BY <1>5 DEF Open, Fill
<1>6. ASSUME NEW pathSet \in BOOLEAN, StartAgain(pathSet) PROVE TasksNext
  BY <1>6 DEF StartAgain, TasksNext
<1> QED
  BY <1>1, <1>2, <1>3, <1>4, <1>5, <1>6 DEF HistoryNext

\* What is recorded and written is kept beside the tasks: it adds no start, stop or end.
THEOREM HistoryImplementsTasks == HistorySpec => TasksSpec
<1>1. HistoryInit => TasksInit
  BY DEF HistoryInit
<1> QED
  BY <1>1, HistoryStepsTasks, PTL DEF HistorySpec, TasksSpec

\* The invariant is inductive, and of every step the file changes as it should.
LEMMA HistoryStep ==
    ASSUME Inv, HistoryInv, [HistoryNext]_allVars
    PROVE  /\ HistoryInv'
           /\ file' = file \/ file' = history
              \/ (file' = Torn /\ (diskFails \/ \E b \in Actors : output'[b] = "file"))
<1>1. CASE UNCHANGED allVars
  <2>1. UNCHANGED historyVars /\ \A b \in Actors : (IsWriting(b) => IsWriting(b)') /\ (IsWriting(b)' => IsWriting(b))
    BY <1>1 DEF allVars, taskVars, IsWriting, At
  <2>2. file' = file
    BY <2>1 DEF historyVars
  <2> QED
    BY <2>1, <2>2, HistoryKept
<1>2. ASSUME NEW t \in Tasks, Recorded(t) PROVE HistoryInv' /\ file' = file
  BY <1>2, RecordedStep DEF Recorded
<1>3. CASE Unrecorded \/ \E r \in Runs : Dropped(r)
  <2>1. (Quiet \/ \E r \in Runs : Works(r)) /\ UNCHANGED historyVars
    BY <1>3 DEF Unrecorded, Dropped, Works
  <2> QED
    BY <2>1, UnrecordedStep DEF historyVars
<1>4. ASSUME NEW a \in Actors, Snapshot(a) \/ Open(a) \/ GiveUp(a) PROVE HistoryInv' /\ file' = file
  BY <1>4, SnapshotStep, OpenStep, GiveUpStep DEF Snapshot, Open, GiveUp
<1>5. CASE \E a \in Actors : Fill(a)
  BY <1>5, FillStep
<1>6. CASE \E a \in Actors : Rename(a)
  BY <1>6, RenameStep
<1>7. CASE \E pathSet \in BOOLEAN : StartAgain(pathSet)
  BY <1>7, StartAgainStep
<1> QED
  BY <1>1, <1>2, <1>3, <1>4, <1>5, <1>6, <1>7 DEF HistoryNext

\* Both invariants hold in every state.
LEMMA AlwaysHistoryInv == HistorySpec => [](Inv /\ HistoryInv)
<1>1. HistoryInit => Inv /\ HistoryInv
  BY InitInv, InitHistory DEF HistoryInit
<1>2. (Inv /\ HistoryInv) /\ [HistoryNext]_allVars => (Inv /\ HistoryInv)'
  BY NextInv, HistoryStepsTasks, HistoryStep
<1> QED
  BY <1>1, <1>2, PTL DEF HistorySpec

\* The file is only ever replaced by the history as it is, whoever writes it at a time
\* and whatever fails, or else by a torn file, and by that only if a second writer is at
\* work on it or a write failed; and the history is not behind a file that was read.
THEOREM FileIsHistory == HistorySpec => HistoryNeverGoesBack
<1>1. ASSUME Inv, HistoryInv, [HistoryNext]_allVars
      PROVE  file' # file =>
                \/ /\ file' = history
                   /\ restored /\ file # Torn => \A t \in Tasks : history[t] >= file[t]
                \/ file' = Torn /\ (diskFails \/ \E a \in Actors : output'[a] = "file")
  BY <1>1, HistoryStep DEF HistoryInv, Published
<1> QED
  BY <1>1, AlwaysHistoryInv, PTL DEF HistorySpec, HistoryNeverGoesBack

-----------------------------------------------------------------------------
(* The task that refreshes the library *)

\* The task that refreshes the library is a task as the others: what it scans keeps
\* no start, stop or timeout from anything and adds none.
THEOREM RefreshImplementsTasks == RefreshSpec => TasksSpec
<1>1. RefreshInit => TasksInit
  BY DEF RefreshInit
<1>2. [RefreshNext]_refreshVars => [TasksNext]_taskVars
  <2> SUFFICES ASSUME RefreshNext PROVE TasksNext \/ UNCHANGED taskVars
    BY DEF refreshVars, taskVars
  <2>1. ASSUME NEW r \in Runs, RunScans(r) PROVE UNCHANGED taskVars
    BY <2>1 DEF RunScans
  <2>2. ASSUME NEW r \in Runs, RunEnds(r) \/ RunDropped(r) PROVE TasksNext
    BY <2>2 DEF RunEnds, RunDropped, TasksNext, Works
  <2>3. CASE TaskStep
    BY <2>3 DEF TaskStep, TasksNext
  <2>4. CASE RestartServer
    BY <2>4 DEF RestartServer, TasksNext
  <2> QED
    BY <2>1, <2>2, <2>3, <2>4 DEF RefreshNext
<1> QED
  BY <1>1, <1>2, PTL DEF RefreshSpec, TasksSpec

\* So the refresh, and the tasks with their history, keep what the tasks keep.
THEOREM HandlesAndRunsKept ==
    /\ RefreshSpec => [](RegisteredWhileRunning /\ NoRunIsLost)
    /\ HistorySpec => [](RegisteredWhileRunning /\ NoRunIsLost)
BY RefreshImplementsTasks, HistoryImplementsTasks, HandlesAreRegistered, RunsAreNotLost, PTL
=============================================================================
