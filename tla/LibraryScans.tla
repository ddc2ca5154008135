----------------------------- MODULE LibraryScans -----------------------------
(***************************************************************************)
(* The scans of LibraryScanService, jellyfin-controller/src/library_scan.rs. *)
(* A scan first reserves its collections in active_scans, all or none, and *)
(* holds them by a guard whose drop gives them back, at the end, at an     *)
(* error and when the future is dropped.  A full scan reads the list of    *)
(* the folders before it reserves them, so the list may be old.            *)
(*                                                                         *)
(* What a scan reads and writes is left out, and the time it takes.        *)
(***************************************************************************)
EXTENDS FiniteSets

CONSTANTS Collections,  \* ids of virtual folders
          Scanners      \* futures that scan

VARIABLES folders,  \* the virtual folders there are
          active,   \* active_scans
          scans     \* each scanner: how far its scan is, and of what

scanVars == <<folders, active, scans>>

Stages == {"None", "Listed", "Scanning", "Over"}

\* Folders, reservations and scans are sets of collections.
ScansTypeOK ==
    /\ folders \subseteq Collections
    /\ active \subseteq Collections
    /\ scans \in [Scanners -> [stage : Stages, ids : SUBSET Collections]]

NoScan == [stage |-> "None", ids |-> {}]

ScansInit ==
    /\ folders \in SUBSET Collections
    /\ active = {}
    /\ scans = [s \in Scanners |-> NoScan]

Scanning(s) == scans[s].stage = "Scanning"

Stage(s, stage, ids) == scans' = [scans EXCEPT ![s] = [stage |-> stage, ids |-> ids]]

-----------------------------------------------------------------------------

\* Mutant of Reserves: the guard is made before the ids are looked up, so that
\* its drop gives back what another scan holds.
ReservesFirst(s, ids) ==
    IF ids \cap active = {}
    THEN active' = active \cup ids /\ Stage(s, "Scanning", ids)
    ELSE active' = active \ ids /\ Stage(s, "Over", {})

\* try_start_scans: all of the ids, or AlreadyScanning.
Reserves(s, ids) ==
    IF ids \cap active = {}
    THEN active' = active \cup ids /\ Stage(s, "Scanning", ids)
    ELSE UNCHANGED active /\ Stage(s, "Over", {})

\* run_scan_all reads the folders.
ListFolders(s) ==
    /\ scans[s].stage = "None"
    /\ Stage(s, "Listed", folders)
    /\ UNCHANGED <<folders, active>>

ReserveAll(s) ==
    /\ scans[s].stage = "Listed"
    /\ Reserves(s, scans[s].ids)
    /\ UNCHANGED folders

\* scan_collection: the id need not be that of a folder.
ScanCollection(s, c) ==
    /\ scans[s].stage = "None"
    /\ Reserves(s, {c})
    /\ UNCHANGED folders

\* LibraryScanGuard::drop of s, if s has a guard.
GivesBack(s) == active' = IF Scanning(s) THEN active \ scans[s].ids ELSE active

\* The scan ends, with or without an error.
EndScan(s) ==
    /\ Scanning(s)
    /\ GivesBack(s)
    /\ Stage(s, "Over", {})
    /\ UNCHANGED folders

\* Mutant of DropScan: the reservation stays.
DropScanOnly(s) == Stage(s, "None", {}) /\ UNCHANGED <<folders, active>>

\* The future of s is dropped or panics, wherever it is.
DropScan(s) == GivesBack(s) /\ Stage(s, "None", {}) /\ UNCHANGED folders

\* The result of the scan is used.
Return(s) ==
    /\ scans[s].stage = "Over"
    /\ Stage(s, "None", {})
    /\ UNCHANGED <<folders, active>>

Scan(s) ==
    \/ ListFolders(s) \/ ReserveAll(s)
    \/ \E c \in Collections : ScanCollection(s, c)
    \/ EndScan(s) \/ Return(s)

-----------------------------------------------------------------------------
(* Properties *)

\* No collection is scanned twice at a time, and active_scans is what the scans
\* hold: a scan that is refused, ends or is dropped gives back what it reserved
\* and nothing of another's.
ReservationsExact ==
    /\ active = UNION {scans[s].ids : s \in {u \in Scanners : Scanning(u)}}
    /\ \A s, u \in Scanners :
          s # u /\ Scanning(s) /\ Scanning(u) => scans[s].ids \cap scans[u].ids = {}
=============================================================================
