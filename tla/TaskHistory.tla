------------------------------ MODULE TaskHistory ------------------------------
(***************************************************************************)
(* What ScheduledTaskService records of the runs of a task (last_run and   *)
(* last_execution_result) and the file it survives a restart in, beside    *)
(* the locks of ScheduledTasks: persist_state and load_persisted_state of  *)
(* jellyfin-controller/src/scheduled_tasks.rs.                             *)
(*                                                                         *)
(* The history of a task is the number of its changes; the words of a      *)
(* result, and triggers, are left out.                                     *)
(*                                                                         *)
(* Whoever writes holds tasks for reading, which others may do as well,    *)
(* and all use one name for the temporary file.  fs::write opens what has  *)
(* that name and truncates it; rename gives it the name of the file,       *)
(* without anybody who has it open noticing.  A write that is not over     *)
(* leaves less than a history, and the load reads nothing from that.       *)
(* fs::write ends in one step here: what it has written before that is     *)
(* not a history either, and all who write at a time write the same.       *)
(***************************************************************************)
EXTENDS ScheduledTasks

CONSTANTS Torn,        \* content: empty, or the beginning of a history
          Absent,      \* no temporary file
          MaxHistory   \* bound: after so many changes a task does not start again

ASSUME HistoryAssumption ==
    /\ Torn \notin [Tasks -> Nat] /\ Absent \notin [Tasks -> Nat] /\ Torn # Absent
    /\ MaxHistory \in Nat

VARIABLES history,   \* last_run and last_execution_result
          file,      \* the content of the file
          temporary, \* the content of the temporary file
          saved,     \* what each writer has read of the tasks
          output,    \* the file each writer writes to
          diskFails, \* writing to a file may fail (fixed)
          restored   \* the history was read when the server started

historyVars == <<history, file, temporary, saved, output, diskFails, restored>>

allVars == <<taskVars, historyVars>>

Histories == [Tasks -> Nat]

Clear == [t \in Tasks |-> 0]

\* A writer has not begun to write; writes to what is called the temporary file, to what
\* has become the file since, or to what has no name any more; or has written.
Outputs == {"none", "temporary", "file", "unlinked", "written"}

\* The histories and the files are well-formed.
HistoryTypeOK ==
    /\ history \in Histories
    /\ file \in Histories \cup {Torn}
    /\ temporary \in Histories \cup {Torn, Absent}
    /\ saved \in [Actors -> Histories]
    /\ output \in [Actors -> Outputs]
    /\ diskFails \in BOOLEAN
    /\ restored \in BOOLEAN

HistoryInit ==
    /\ TasksInit
    /\ history = Clear
    /\ file = Clear
    /\ temporary = Absent
    /\ saved = [a \in Actors |-> Clear]
    /\ output = [a \in Actors |-> "none"]
    /\ diskFails \in BOOLEAN
    /\ restored = TRUE

-----------------------------------------------------------------------------
(* The history *)

\* The tasks go on, and what is recorded of t changes.
Recorded(t) ==
    /\ Results(t)
    /\ t \in running \/ history[t] < MaxHistory
    /\ history' = [history EXCEPT ![t] = @ + 1]
    /\ UNCHANGED <<file, temporary, saved, output, diskFails, restored>>

\* The tasks go on, and nothing is recorded.
Unrecorded ==
    /\ Quiet \/ \E r \in Runs : Finish(r) \/ Panic(r)
    /\ UNCHANGED historyVars

Dropped(r) == Drop(r) /\ UNCHANGED historyVars

-----------------------------------------------------------------------------
(* persist_state *)

\* It reads the tasks.
Snapshot(a) ==
    /\ Read(a)
    /\ saved' = [saved EXCEPT ![a] = history]
    /\ UNCHANGED <<history, file, temporary, output, diskFails, restored>>

\* fs::write opens the temporary file, which is then empty.
Open(a) ==
    /\ At(a, "Writing") /\ output[a] = "none"
    /\ temporary' = Torn
    /\ output' = [output EXCEPT ![a] = "temporary"]
    /\ UNCHANGED <<taskVars, history, file, saved, diskFails, restored>>

Writes(a) == output[a] \in {"temporary", "file", "unlinked"}

\* fs::write ends, whatever name its file has by now.
Fill(a) ==
    /\ Writes(a)
    /\ file' = IF output[a] = "file" THEN saved[a] ELSE file
    /\ temporary' = IF output[a] = "temporary" THEN saved[a] ELSE temporary
    /\ output' = [output EXCEPT ![a] = "written"]
    /\ UNCHANGED <<taskVars, history, saved, diskFails, restored>>

\* The others who have a file open when the temporary file takes its name.
Renamed == [b \in Actors |->
               CASE output[b] = "temporary" -> "file"
                 [] output[b] = "file" -> "unlinked"
                 [] OTHER -> output[b]]

\* rename of what has the name of the temporary file now, and the lock is given back.
Rename(a) ==
    /\ output[a] = "written" /\ temporary # Absent
    /\ Saved(a)
    /\ file' = temporary
    /\ temporary' = Absent
    /\ output' = [Renamed EXCEPT ![a] = "none"]
    /\ saved' = [saved EXCEPT ![a] = Clear]
    /\ UNCHANGED <<history, diskFails, restored>>

\* There is no path or no file to write, the write fails, or the rename: that is
\* ignored, and the lock is given back.
GiveUp(a) ==
    /\ Writes(a) => diskFails
    /\ Saved(a)
    /\ output' = [output EXCEPT ![a] = "none"]
    /\ saved' = [saved EXCEPT ![a] = Clear]
    /\ UNCHANGED <<history, file, temporary, diskFails, restored>>

-----------------------------------------------------------------------------
(* load_persisted_state *)

\* The server stops at any point and starts again, in the task of the scheduler.
\* AppState::new spawns it before the path of the file is set (with_storage_paths):
\* without a path, and from a torn file, nothing is read.
StartAgain(pathSet) ==
    /\ Restart
    /\ restored' = (pathSet /\ file # Torn)
    /\ history' = IF restored' THEN file ELSE Clear
    /\ saved' = [a \in Actors |-> Clear]
    /\ output' = [a \in Actors |-> "none"]
    /\ UNCHANGED <<file, temporary, diskFails>>

HistoryNext ==
    \/ \E t \in Tasks : Recorded(t)
    \/ Unrecorded
    \/ \E r \in Runs : Dropped(r)
    \/ \E a \in Actors : Snapshot(a) \/ Open(a) \/ Fill(a) \/ Rename(a) \/ GiveUp(a)
    \/ \E pathSet \in BOOLEAN : StartAgain(pathSet)

HistorySpec == HistoryInit /\ [][HistoryNext]_allVars

-----------------------------------------------------------------------------
(* Properties *)

\* Whoever writes, and wherever writes fail or the server stops in between: what
\* persist_state puts into the file is the history as it is, which is not behind the
\* file if that was read when the server started; or the file is torn, which takes a
\* second writer who is not done, or a write that failed.
HistoryNeverGoesBack ==
    [][file' # file =>
          \/ /\ file' = history
             /\ restored /\ file # Torn => \A t \in Tasks : history[t] >= file[t]
          \/ file' = Torn /\ (diskFails \/ \E a \in Actors : output'[a] = "file")]_allVars

\* "task_triggers_and_history_survive_service_restart", as a test calls it, of every
\* start of the server.
HistorySurvivesRestart ==
    [][file # Torn /\ file' # Torn => \A t \in Tasks : file'[t] >= file[t]]_allVars
=============================================================================
