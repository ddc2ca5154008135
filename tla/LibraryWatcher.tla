---------------------------- MODULE LibraryWatcher ----------------------------
(***************************************************************************)
(* Who scans the library (LibraryScans) beside the scheduled task: HTTP    *)
(* requests, and the file watcher of                                       *)
(* jellyfin-controller/src/library_watcher.rs, a thread that gathers       *)
(* events, waits until they pause and then scans the folders they are in.  *)
(* The folders themselves come and go, and a backup                        *)
(* (jellyfin-api/src/backup.rs) is not to be made during a scan.           *)
(*                                                                         *)
(* The watcher sees the folder that changed instead of the path.           *)
(***************************************************************************)
EXTENDS LibraryScans

CONSTANT Watcher  \* the thread of the watcher; the other scanners are requests

ASSUME WatcherAssumption == Watcher \in Scanners

VARIABLES changed,   \* the watcher's pending paths, by folder
          affected,  \* the folders the watcher has yet to scan
          backup     \* a backup takes its snapshot and walks the files

watchVars == <<scanVars, changed, affected, backup>>

WatchInit ==
    /\ ScansInit
    /\ changed = {}
    /\ affected = {}
    /\ backup = FALSE

-----------------------------------------------------------------------------

\* A file event that fits in the queue.  The thread takes events out of it when
\* it does not scan; the queue and the pending paths are one set here.
Notice(c) ==
    /\ changed' = changed \cup {c}
    /\ UNCHANGED <<scanVars, affected, backup>>

\* After the debounce time the pending paths are given up for the folders they are
\* in; if these cannot be listed, for nothing.
Flush ==
    /\ changed # {} /\ affected = {} /\ scans[Watcher].stage = "None"
    /\ changed' = {}
    /\ affected' \in {changed \cap folders, {}}
    /\ UNCHANGED <<scanVars, backup>>

\* Mutant of ScanAffected: a folder of which another scan is reserved is left out.
ScanAffectedOnce(c) ==
    /\ c \in affected
    /\ ScanCollection(Watcher, c)
    /\ affected' = {}
    /\ UNCHANGED <<changed, backup>>

\* One folder after the other is scanned; a refusal is only logged.
ScanAffected(c) ==
    /\ c \in affected
    /\ ScanCollection(Watcher, c)
    /\ affected' = affected \ {c}
    /\ UNCHANGED <<changed, backup>>

WatcherScans == (EndScan(Watcher) \/ Return(Watcher)) /\ UNCHANGED <<changed, affected, backup>>

\* A request scans, or its client goes away.
RequestScans(s) ==
    /\ s # Watcher
    /\ Scan(s) \/ DropScan(s)
    /\ UNCHANGED <<changed, affected, backup>>

\* A virtual folder is added or removed.
EditFolders(c) ==
    /\ folders' = IF c \in folders THEN folders \ {c} ELSE folders \cup {c}
    /\ UNCHANGED <<active, scans, changed, affected, backup>>

\* create: a backup is refused during a scan.
BeginBackup ==
    /\ ~backup
    /\ active = {}
    /\ backup' = TRUE
    /\ UNCHANGED <<scanVars, changed, affected>>

EndBackup ==
    /\ backup
    /\ backup' = FALSE
    /\ UNCHANGED <<scanVars, changed, affected>>

WatchNext ==
    \/ \E c \in Collections : Notice(c) \/ ScanAffected(c) \/ EditFolders(c)
    \/ Flush \/ WatcherScans
    \/ \E s \in Scanners : RequestScans(s)
    \/ BeginBackup \/ EndBackup

WatchSpec == WatchInit /\ [][WatchNext]_watchVars

-----------------------------------------------------------------------------
(* Properties *)

\* The thread runs, and scans end.
WatchFairness ==
    /\ WF_watchVars(\E c \in Collections : ScanAffected(c))
    /\ WF_watchVars(WatcherScans)
    /\ \A s \in Scanners : WF_watchVars(EndScan(s) /\ UNCHANGED <<changed, affected, backup>>)

\* A folder the watcher has found affected is scanned, by the watcher or by whom
\* it finds there, before the watcher is done: a refused folder does not end the
\* round of the others.
AffectedAreScanned == \A c \in Collections : c \in affected ~> c \in active

\* "The official backup service rejects snapshots during library scans", which a
\* backup that looks at the scans once is to ensure.
NoScanDuringBackup == backup => active = {}
=============================================================================
