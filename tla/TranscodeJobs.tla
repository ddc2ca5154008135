---------------------------- MODULE TranscodeJobs ----------------------------
(***************************************************************************)
(* TranscodeJobRegistry of jellyfin-controller/src/transcode.rs and the    *)
(* HLS requests that use it (jellyfin-api/src/hls_segment.rs): a request   *)
(* for a playlist joins the running job of its id or starts an FFmpeg      *)
(* process and registers it.  The job is removed when the process is over, *)
(* and stopped for its playback session, at shutdown, or because nobody    *)
(* has pinged it for long.                                                 *)
(*                                                                         *)
(* An encoder is such a request and the task it spawns.  The map of the    *)
(* sessions, which nothing reads, and the descriptions of the jobs but for *)
(* the session are left out.                                               *)
(***************************************************************************)
EXTENDS FiniteSets

CONSTANTS Jobs,          \* job ids
          Encoders,      \* bound: requests and their tasks at a time
          PlaySessions,
          Stops,         \* calls that stop jobs
          Nothing        \* no encoder, no session, no job

ASSUME TranscodeAssumption == Nothing \notin Jobs \cup Encoders \cup PlaySessions

VARIABLES jobs,      \* the registry: the owner of each handle, its session, its pings
          encoders,  \* each request or task: phase, job, session, the cancel flag
          stops      \* each call: the ids it still has to stop, and the current one

transcodeVars == <<jobs, encoders, stops>>

EncoderPhases == {"None", "Preparing", "Attaching", "Registered", "Spawned", "Running", "Exited"}

NoJob == [encoder |-> Nothing, session |-> Nothing, stale |-> FALSE]
NoEncoder == [phase |-> "None", job |-> Nothing, session |-> Nothing, cancel |-> FALSE]
NoStop == [todo |-> {}, current |-> Nothing]

TranscodeInit ==
    /\ jobs = [j \in Jobs |-> NoJob]
    /\ encoders = [e \in Encoders |-> NoEncoder]
    /\ stops = [k \in Stops |-> NoStop]

EncoderIs(e, phase) == encoders[e].phase = phase

EncoderGoes(e, phase) == encoders' = [encoders EXCEPT ![e].phase = phase]

\* TranscodeJobHandle::running of the handle registered for j.
IsRunning(j) == jobs[j].encoder # Nothing /\ EncoderIs(jobs[j].encoder, "Running")

-----------------------------------------------------------------------------
(* Requests and their processes *)

\* A playlist is asked for: a running job is joined, else a process prepared.
AskPlaylist(e, j, s) ==
    /\ EncoderIs(e, "None")
    /\ encoders' = [encoders EXCEPT ![e] =
           [phase |-> IF IsRunning(j) THEN "Attaching" ELSE "Preparing",
            job |-> j, session |-> s, cancel |-> FALSE]]
    /\ UNCHANGED <<jobs, stops>>

\* associate: the joined job belongs to this session from now on, if it is there yet.
Attach(e) ==
    LET j == encoders[e].job
        s == encoders[e].session
    IN  /\ EncoderIs(e, "Attaching")
        /\ jobs' = IF s = Nothing \/ jobs[j].encoder = Nothing THEN jobs
                   ELSE [jobs EXCEPT ![j].session = s, ![j].stale = FALSE]
        /\ encoders' = [encoders EXCEPT ![e] = NoEncoder]
        /\ UNCHANGED stops

\* The preparation fails, or the client goes away meanwhile.
GiveUp(e) ==
    /\ EncoderIs(e, "Preparing")
    /\ encoders' = [encoders EXCEPT ![e] = NoEncoder]
    /\ UNCHANGED <<jobs, stops>>

\* register puts a new handle in the place of the one there may be.
RegisterJob(e) ==
    /\ EncoderIs(e, "Preparing")
    /\ jobs' = [jobs EXCEPT ![encoders[e].job] = [NoJob EXCEPT !.encoder = e]]
    /\ EncoderGoes(e, "Registered")
    /\ UNCHANGED stops

\* The session goes into the entry of the id; then the task is spawned.
Describe(e) ==
    LET j == encoders[e].job
    IN  /\ EncoderIs(e, "Registered")
        /\ jobs' = IF jobs[j].encoder = Nothing THEN jobs
                   ELSE [jobs EXCEPT ![j].session = encoders[e].session]
        /\ EncoderGoes(e, "Spawned")
        /\ UNCHANGED stops

\* Mutant of Launch: a new process clears the flag of its handle.
LaunchUncancelled(e) ==
    /\ EncoderIs(e, "Spawned")
    /\ \E phase \in {"Running", "Exited"} :
          encoders' = [encoders EXCEPT ![e].phase = phase, ![e].cancel = FALSE]
    /\ UNCHANGED <<jobs, stops>>

\* Mutant of Launch: a process that cannot be started ends the task at once.
LaunchOrForget(e) ==
    /\ EncoderIs(e, "Spawned")
    /\ \/ EncoderGoes(e, "Running")
       \/ encoders' = [encoders EXCEPT ![e] = NoEncoder]
    /\ UNCHANGED <<jobs, stops>>

\* run_ffmpeg spawns the process and marks the handle running, or fails.
Launch(e) ==
    /\ EncoderIs(e, "Spawned")
    /\ EncoderGoes(e, "Running") \/ EncoderGoes(e, "Exited")
    /\ UNCHANGED <<jobs, stops>>

\* The process ends, by itself or killed.
Exit(e) ==
    /\ EncoderIs(e, "Running")
    /\ EncoderGoes(e, "Exited")
    /\ UNCHANGED <<jobs, stops>>

\* The loop of run_ffmpeg finds the cancel flag and kills the process.
Kill(e) == encoders[e].cancel /\ Exit(e)

\* The task removes the job of its id and is over.
Finish(e) ==
    /\ EncoderIs(e, "Exited")
    /\ jobs' = [jobs EXCEPT ![encoders[e].job] = NoJob]
    /\ encoders' = [encoders EXCEPT ![e] = NoEncoder]
    /\ UNCHANGED stops

Ping(s) ==
    /\ jobs' = [j \in Jobs |-> IF jobs[j].encoder # Nothing /\ jobs[j].session = s
                               THEN [jobs[j] EXCEPT !.stale = FALSE] ELSE jobs[j]]
    /\ UNCHANGED <<encoders, stops>>

\* Time passes without a ping.
Neglect(j) ==
    /\ jobs[j].encoder # Nothing
    /\ jobs' = [jobs EXCEPT ![j].stale = TRUE]
    /\ UNCHANGED <<encoders, stops>>

-----------------------------------------------------------------------------
(* Stopping jobs *)

\* stop_all, stop_for_session and stop_stale_jobs collect the ids first ...
Collect(k) ==
    /\ stops[k] = NoStop
    /\ LET registered == {j \in Jobs : jobs[j].encoder # Nothing}
           sets == {registered, {j \in registered : IsRunning(j) /\ jobs[j].stale}}
                   \cup {{j \in registered : jobs[j].session = s} : s \in PlaySessions}
       IN  \E ids \in sets : stops' = [stops EXCEPT ![k].todo = ids]
    /\ UNCHANGED <<jobs, encoders>>

\* ... and stop one after the other: the handle registered by now is cancelled.
CancelJob(k, j) ==
    /\ stops[k].current = Nothing
    /\ j \in stops[k].todo
    /\ stops' = [stops EXCEPT ![k] = [todo |-> @.todo \ {j}, current |-> j]]
    /\ encoders' = [e \in Encoders |-> IF e = jobs[j].encoder
                                       THEN [encoders[e] EXCEPT !.cancel = TRUE]
                                       ELSE encoders[e]]
    /\ UNCHANGED jobs

\* When it does not run any more, or after ten seconds, the id is removed.
RemoveJob(k) ==
    /\ stops[k].current # Nothing
    /\ jobs' = [jobs EXCEPT ![stops[k].current] = NoJob]
    /\ stops' = [stops EXCEPT ![k].current = Nothing]
    /\ UNCHANGED encoders

TranscodeNext ==
    \/ \E e \in Encoders :
          \/ \E j \in Jobs, s \in PlaySessions \cup {Nothing} : AskPlaylist(e, j, s)
          \/ Attach(e) \/ GiveUp(e) \/ RegisterJob(e) \/ Describe(e)
          \/ Launch(e) \/ Exit(e) \/ Finish(e)
    \/ \E s \in PlaySessions : Ping(s)
    \/ \E j \in Jobs : Neglect(j)
    \/ \E k \in Stops :
          \/ Collect(k) \/ RemoveJob(k)
          \/ \E j \in Jobs : CancelJob(k, j)

TranscodeSpec == TranscodeInit /\ [][TranscodeNext]_transcodeVars

-----------------------------------------------------------------------------
(* Properties *)

\* Every job that is listed as active has a task that runs or is about to, and that
\* will remove it: however registrations, ends and stops under one id cross, no
\* entry is left behind.
EntriesHaveTask ==
    \A j \in Jobs : jobs[j].encoder # Nothing =>
        LET e == jobs[j].encoder
        IN  encoders[e].job = j /\ encoders[e].phase \in {"Registered", "Spawned", "Running", "Exited"}

\* Spawned tasks run, and a killed process ends.
TranscodeFairness ==
    \A e \in Encoders :
        /\ WF_transcodeVars(Describe(e)) /\ WF_transcodeVars(Launch(e))
        /\ WF_transcodeVars(Kill(e)) /\ WF_transcodeVars(Finish(e))

\* A job that was told to stop stops, also when its process was not running yet.
CancelledJobsEnd == \A e \in Encoders : encoders[e].cancel ~> EncoderIs(e, "None")
=============================================================================
