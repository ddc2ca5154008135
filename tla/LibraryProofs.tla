---------------------------- MODULE LibraryProofs ----------------------------
(***************************************************************************)
(* Three coordinators of the library scan, for every value of the          *)
(* constants.  active_scans is the disjoint union of what the scans hold.  *)
(* A flight that the strm probes share is probed by one request at a time, *)
(* because its entry stays in the map until it has been.  And no item of   *)
(* the limiter sleeps beside a free place that nobody is about to take or  *)
(* to announce.                                                            *)
(***************************************************************************)
EXTENDS LibraryWatcher, StrmProbes, MediaItemLimiter, FiniteSetTheorems, SequenceTheorems, TLAPS

-----------------------------------------------------------------------------
(* Reservations of collections *)

ScanRecords == [stage : Stages, ids : SUBSET Collections]

\* Apart says of the scans what active_scans cannot.
Apart ==
    \A s, u \in Scanners :
        s # u /\ Scanning(s) /\ Scanning(u) => scans[s].ids \cap scans[u].ids = {}

Covers == \A c \in Collections : c \in active <=> \E s \in Scanners : Scanning(s) /\ c \in scans[s].ids

ScansInv == ScansTypeOK /\ Apart /\ Covers

LEMMA ScansInvExact == ScansInv => ReservationsExact
<1> SUFFICES ASSUME ScansInv PROVE ReservationsExact
  OBVIOUS
<1>1. \A s \in Scanners : scans[s].ids \subseteq Collections
  BY DEF ScansInv, ScansTypeOK
<1>2. active \subseteq Collections
  BY DEF ScansInv, ScansTypeOK
<1>3. active = UNION {scans[s].ids : s \in {u \in Scanners : Scanning(u)}}
  BY <1>1, <1>2 DEF ScansInv, Covers
<1> QED
  BY <1>3 DEF ScansInv, Apart, ReservationsExact

\* The scanner goes to another stage that holds nothing and gives back what it held.
LEMMA FreeStep ==
    ASSUME ScansInv, NEW s \in Scanners, NEW stage \in Stages \ {"Scanning"}, NEW ids \in SUBSET Collections,
           Stage(s, stage, ids), GivesBack(s), folders' \subseteq Collections
    PROVE  ScansInv'
<1>1. scans \in [Scanners -> ScanRecords] /\ active \subseteq Collections
  BY DEF ScansInv, ScansTypeOK, ScanRecords
<1>2. /\ scans' \in [Scanners -> ScanRecords]
      /\ scans'[s].stage = stage /\ scans'[s].ids = ids
      /\ \A u \in Scanners \ {s} : scans'[u] = scans[u]
  BY <1>1 DEF Stage, ScanRecords
<1>3. ScansTypeOK'
  BY <1>1, <1>2 DEF ScansTypeOK, ScanRecords, GivesBack
<1>4. Apart'
  BY <1>2 DEF ScansInv, Apart, Scanning
<1>5. Covers'
  <2> SUFFICES ASSUME NEW c \in Collections
               PROVE  c \in active' <=> \E u \in Scanners : Scanning(u)' /\ c \in scans'[u].ids
    BY DEF Covers
  <2>1. (\E u \in Scanners : Scanning(u)' /\ c \in scans'[u].ids)
            <=> \E u \in Scanners \ {s} : Scanning(u) /\ c \in scans[u].ids
    BY <1>2 DEF Scanning
  <2>2. CASE Scanning(s) /\ c \in scans[s].ids
    <3>1. c \notin active' /\ \A u \in Scanners \ {s} : ~(Scanning(u) /\ c \in scans[u].ids)
      BY <2>2 DEF GivesBack, ScansInv, Apart
    <3> QED
      BY <3>1, <2>1
  <2>3. CASE ~(Scanning(s) /\ c \in scans[s].ids)
    <3>1. c \in active' <=> c \in active
      BY <2>3 DEF GivesBack
    <3> QED
      BY <3>1, <2>1, <2>3 DEF ScansInv, Covers
  <2> QED
    BY <2>2, <2>3
<1> QED
  BY <1>3, <1>4, <1>5 DEF ScansInv

\* A scan that is let in has none of what the others hold.
LEMMA ReserveStep ==
    ASSUME ScansInv, NEW s \in Scanners, NEW ids \in SUBSET Collections,
           ~Scanning(s), Reserves(s, ids), UNCHANGED folders
    PROVE  ScansInv'
<1>1. CASE ids \cap active # {}
  <2>1. UNCHANGED active /\ Stage(s, "Over", {})
    BY <1>1 DEF Reserves
  <2> QED
    BY <2>1, FreeStep DEF GivesBack, Stages, ScansInv, ScansTypeOK
<1>2. CASE ids \cap active = {}
  <2>1. active' = active \cup ids /\ Stage(s, "Scanning", ids)
    BY <1>2 DEF Reserves
  <2>2. scans \in [Scanners -> ScanRecords] /\ active \subseteq Collections
    BY DEF ScansInv, ScansTypeOK, ScanRecords
  <2>3. /\ scans' \in [Scanners -> ScanRecords]
        /\ scans'[s].stage = "Scanning" /\ scans'[s].ids = ids
        /\ \A u \in Scanners \ {s} : scans'[u] = scans[u]
    BY <2>1, <2>2 DEF Stage, ScanRecords, Stages
  <2>4. ScansTypeOK'
    BY <2>1, <2>2, <2>3 DEF ScansInv, ScansTypeOK, ScanRecords
  <2>5. Covers'
    BY <2>1, <2>3 DEF ScansInv, Covers, Scanning
  <2>6. Apart'
    <3>1. \A u \in Scanners : Scanning(u) => scans[u].ids \cap ids = {}
      BY <1>2 DEF ScansInv, Covers
    <3> QED
      BY <2>3, <3>1 DEF ScansInv, Apart, Scanning
  <2> QED
    BY <2>4, <2>5, <2>6 DEF ScansInv
<1> QED
  BY <1>1, <1>2

\* A step of a scan.
LEMMA ScanStep ==
    ASSUME ScansInv, NEW s \in Scanners, Scan(s) \/ DropScan(s)
    PROVE  ScansInv'
<1>1. folders \subseteq Collections /\ active \subseteq Collections /\ scans[s].ids \in SUBSET Collections
  BY DEF ScansInv, ScansTypeOK
<1>2. CASE ListFolders(s)
  BY <1>1, <1>2, FreeStep DEF ListFolders, GivesBack, Scanning, Stages
<1>3. CASE ReserveAll(s)
  BY <1>1, <1>3, ReserveStep DEF ReserveAll, Scanning
<1>4. ASSUME NEW c \in Collections, ScanCollection(s, c) PROVE ScansInv'
  <2>1. {c} \in SUBSET Collections /\ ~Scanning(s) /\ Reserves(s, {c}) /\ UNCHANGED folders
    BY <1>4 DEF ScanCollection, Scanning
  <2> QED
    BY <2>1, ReserveStep
<1>5. CASE EndScan(s)
  BY <1>1, <1>5, FreeStep DEF EndScan, Stages
<1>6. CASE Return(s)
  BY <1>1, <1>6, FreeStep DEF Return, GivesBack, Scanning, Stages
<1>7. CASE DropScan(s)
  BY <1>1, <1>7, FreeStep DEF DropScan, Stages
<1> QED
  BY <1>2, <1>3, <1>4, <1>5, <1>6, <1>7 DEF Scan

\* The reservations do not depend on the folders, nor on what the watcher knows.
LEMMA BesideStep ==
    ASSUME ScansInv, UNCHANGED <<active, scans>>, folders' \subseteq Collections
    PROVE  ScansInv'
BY DEF ScansInv, ScansTypeOK, Apart, Covers, Scanning

\* What the library promises: no collection twice, nothing kept or given away.
THEOREM ReservationsAreExact == WatchSpec => []ReservationsExact
<1>1. WatchInit => ScansInv
  BY DEF WatchInit, ScansInit, NoScan, Stages, ScansInv, ScansTypeOK, Apart, Covers, Scanning
<1>2. ScansInv /\ [WatchNext]_watchVars => ScansInv'
  <2> SUFFICES ASSUME ScansInv, [WatchNext]_watchVars PROVE ScansInv'
    OBVIOUS
  <2>1. folders \subseteq Collections
    BY DEF ScansInv, ScansTypeOK
  <2>2. ASSUME NEW c \in Collections, Notice(c) PROVE ScansInv'
    BY <2>1, <2>2, BesideStep DEF Notice, scanVars
  <2>3. ASSUME NEW c \in Collections, ScanAffected(c) PROVE ScansInv'
    BY <2>3, ScanStep, WatcherAssumption DEF ScanAffected, Scan
  <2>4. ASSUME NEW c \in Collections, EditFolders(c) PROVE ScansInv'
    BY <2>1, <2>4, BesideStep DEF EditFolders
  <2>5. CASE Flush
    BY <2>1, <2>5, BesideStep DEF Flush, scanVars
  <2>6. CASE WatcherScans
    BY <2>6, ScanStep, WatcherAssumption DEF WatcherScans, Scan
  <2>7. ASSUME NEW s \in Scanners, RequestScans(s) PROVE ScansInv'
    BY <2>7, ScanStep DEF RequestScans
  <2>8. CASE BeginBackup \/ EndBackup
    BY <2>1, <2>8, BesideStep DEF BeginBackup, EndBackup, scanVars
  <2>9. CASE UNCHANGED watchVars
    BY <2>1, <2>9, BesideStep DEF watchVars, scanVars
  <2> QED
    BY <2>2, <2>3, <2>4, <2>5, <2>6, <2>7, <2>8, <2>9 DEF WatchNext
<1> QED
  BY <1>1, <1>2, ScansInvExact, PTL DEF WatchSpec

-----------------------------------------------------------------------------
(* Probes of strm files *)

ProbeRecords == [phase : {"None", "Asked", "Waiting", "Probing", "Persisting"},
                 key : ProbeKeys \cup {NoFlight}, flight : Flights \cup {NoFlight}, tracked : BOOLEAN]
FlightRecords == [streams : {"Unset", "Found", "Missing"}, persisted : BOOLEAN]
Entries == Flights \cup {NoFlight, Failed}

ProbesTyped ==
    /\ entries \in [ProbeKeys -> Entries]
    /\ flights \in [Flights -> FlightRecords]
    /\ probes \in [ProbeRequests -> ProbeRecords]

\* A flight is persisted only when its streams were found.
PersistsFound == \A f \in Flights : flights[f].persisted => flights[f].streams = "Found"

\* A request has a flight from its lease to its end.  Its flight is as its phase says,
\* and the entry of its key stays while the flight has yet to be probed.
Fits(q) ==
    /\ ProbeIs(q, "None") \/ probes[q].key \in ProbeKeys
    /\ IF ProbeIs(q, "None") \/ ProbeIs(q, "Asked")
       THEN probes[q].flight = NoFlight /\ ~probes[q].tracked
       ELSE LET f == probes[q].flight
            IN  /\ f \in Flights
                /\ ProbeIs(q, "Probing") => flights[f].streams = "Unset"
                /\ ProbeIs(q, "Persisting") => flights[f].streams = "Found"
                /\ probes[q].tracked /\ flights[f].streams = "Unset" => entries[probes[q].key] = f

\* One request at a time is inside the first cell of a flight.
OneInside ==
    \A q, u \in ProbeRequests :
        ProbeIs(q, "Probing") /\ ProbeIs(u, "Probing") /\ probes[q].flight = probes[u].flight => q = u

ProbesInv == ProbesTyped /\ PersistsFound /\ OneInside /\ \A q \in ProbeRequests : Fits(q)

\* Two requests that probe under one key have the flight of its entry, hence are one.
LEMMA ProbesInvOne == ProbesInv => OneProbePerKey
<1> SUFFICES ASSUME ProbesInv, NEW q \in ProbeRequests, ProbeIs(q, "Probing"), probes[q].tracked
             PROVE  /\ entries[probes[q].key] # Failed
                    /\ \A u \in ProbeRequests \ {q} :
                          ProbeIs(u, "Probing") /\ probes[u].tracked => probes[u].key # probes[q].key
  BY DEF OneProbePerKey
<1>1. ASSUME NEW u \in ProbeRequests, ProbeIs(u, "Probing"), probes[u].tracked
      PROVE  probes[u].flight \in Flights /\ entries[probes[u].key] = probes[u].flight
  BY <1>1 DEF ProbesInv, Fits, ProbeIs
<1> QED
  BY <1>1, ProbeAssumption DEF ProbesInv, OneInside

\* u finds its flight as it was, and the entry too while the flight is not probed.
Undisturbed(u) ==
    LET f == probes[u].flight
    IN  f \in Flights =>
           /\ flights'[f].streams = flights[f].streams
           /\ probes[u].tracked /\ flights[f].streams = "Unset" =>
                  entries'[probes[u].key] = entries[probes[u].key]

\* The probe of q ends, for which u waits too.
ProbedBy(q, u) ==
    LET f == probes[u].flight
    IN  ProbeIs(q, "Probing") /\ probes[q].flight = f /\ flights'[f].streams # "Unset"

\* q probes only if nobody else probes its flight.
BeginsAlone(q) ==
    probes'[q].phase = "Probing" => \A u \in ProbeRequests \ {q} :
               ~(ProbeIs(u, "Probing") /\ probes[u].flight = probes'[q].flight)

\* What a step of q has to keep of the others: their flights as far as they look at
\* them, and their entries.
LEMMA ProbeStep ==
    ASSUME ProbesInv, NEW q \in ProbeRequests,
           entries' \in [ProbeKeys -> Entries], flights' \in [Flights -> FlightRecords],
           probes' \in [ProbeRequests -> ProbeRecords], PersistsFound',
           \A u \in ProbeRequests \ {q} : probes'[u] = probes[u],
           \A u \in ProbeRequests \ {q} : Undisturbed(u) \/ ProbedBy(q, u),
           Fits(q)', BeginsAlone(q)
    PROVE  ProbesInv'
<1>1. ProbesTyped'
  BY DEF ProbesTyped
<1>2. OneInside'
  <2> SUFFICES ASSUME NEW s \in ProbeRequests, NEW u \in ProbeRequests, s # u,
                      probes'[s].phase = "Probing", probes'[u].phase = "Probing",
                      probes'[s].flight = probes'[u].flight
               PROVE  FALSE
    BY DEF OneInside, ProbeIs
  <2>1. CASE s = q
    BY <2>1 DEF ProbeIs, BeginsAlone
  <2>2. CASE u = q
    BY <2>2 DEF ProbeIs, BeginsAlone
  <2>3. CASE s # q /\ u # q
    BY <2>3 DEF ProbesInv, OneInside, ProbeIs
  <2> QED
    BY <2>1, <2>2, <2>3
<1>3. ASSUME NEW u \in ProbeRequests \ {q} PROVE Fits(u)'
  <2>1. probes'[u] = probes[u] /\ Fits(u)
    BY DEF ProbesInv
  <2>2. CASE probes[u].phase \in {"None", "Asked"}
    BY <2>1, <2>2 DEF Fits, ProbeIs
  <2>3. CASE probes[u].phase \notin {"None", "Asked"}
    <3> DEFINE f == probes[u].flight
    <3>1. f \in Flights /\ probes[u].key \in ProbeKeys
      BY <2>1, <2>3 DEF Fits, ProbeIs
    <3>2. CASE Undisturbed(u)
      BY <2>1, <2>3, <3>1, <3>2 DEF Undisturbed, Fits, ProbeIs
    <3>3. CASE ProbedBy(q, u)
      <4>1. /\ ProbeIs(q, "Probing") /\ probes[q].flight = f
            /\ flights'[f].streams # "Unset"
        BY <3>3 DEF ProbedBy
      <4>2. flights[f].streams = "Unset" /\ ~ProbeIs(u, "Probing") /\ ~ProbeIs(u, "Persisting")
        BY <2>1, <2>3, <4>1, <3>1 DEF ProbesInv, Fits, ProbeIs, OneInside
      <4> QED
        BY <2>1, <2>3, <3>1, <4>1, <4>2 DEF Fits, ProbeIs
    <3> QED
      BY <3>2, <3>3
  <2> QED
    BY <2>2, <2>3
<1> QED
  BY <1>1, <1>2, <1>3 DEF ProbesInv

\* acquire forgets only what nobody waits for.
LEMMA WithoutKeeps ==
    ASSUME ProbesInv, NEW forgotten \in SUBSET Failures
    PROVE  /\ Without(forgotten) \in [ProbeKeys -> Entries]
           /\ \A k \in Tracked : Without(forgotten)[k] = entries[k]
           /\ \A u \in ProbeRequests :
                 probes[u].flight \in Flights /\ probes[u].tracked
                     /\ flights[probes[u].flight].streams = "Unset" =>
                         probes[u].key \in Tracked
<1>1. \A k \in Tracked : Without(forgotten)[k] = entries[k]
  BY DEF Without, Tracked
<1>2. Without(forgotten) \in [ProbeKeys -> Entries]
  BY DEF Without, ProbesInv, ProbesTyped, Entries
<1>3. ASSUME NEW u \in ProbeRequests, probes[u].flight \in Flights, probes[u].tracked,
             flights[probes[u].flight].streams = "Unset"
      PROVE  probes[u].key \in Tracked
  <2>1. probes[u].key \in ProbeKeys /\ entries[probes[u].key] = probes[u].flight
    BY <1>3, ProbeAssumption DEF ProbesInv, Fits
  <2>2. u \in Shares(probes[u].flight)
    BY DEF Shares
  <2> QED
    BY <1>3, <2>1, <2>2 DEF Tracked
<1> QED
  BY <1>1, <1>2, <1>3

\* A request leases flight f and the others keep what they have.
LEMMA LeaseStep ==
    ASSUME ProbesInv, NEW q \in ProbeRequests, ProbeIs(q, "Asked"), NEW f \in Flights,
           NEW tracked \in BOOLEAN, Lease(q, f, tracked),
           NEW forgotten \in SUBSET Failures, entries' \in [ProbeKeys -> Entries],
           \A k \in Tracked : entries'[k] = entries[k],
           tracked => entries'[probes[q].key] = f,
           flights' = flights \/ (Shares(f) = {} /\ flights' = [flights EXCEPT ![f] = NewFlight])
    PROVE  ProbesInv'
<1> DEFINE k == probes[q].key
<1>1. /\ flights \in [Flights -> FlightRecords] /\ probes \in [ProbeRequests -> ProbeRecords]
      /\ k \in ProbeKeys
  BY DEF ProbesInv, ProbesTyped, Fits, ProbeIs
<1>2. /\ probes' \in [ProbeRequests -> ProbeRecords]
      /\ \A u \in ProbeRequests \ {q} : probes'[u] = probes[u]
      /\ probes'[q].phase = "Waiting" /\ probes'[q].key = k
      /\ probes'[q].flight = f /\ probes'[q].tracked = tracked
  <2>1. probes' = [probes EXCEPT ![q].phase = "Waiting", ![q].flight = f, ![q].tracked = tracked]
    BY DEF Lease
  <2>2. probes[q] \in ProbeRecords
    BY <1>1
  <2> HIDE DEF k
  <2>3. probes[q].key = k
    BY DEF k
  <2> QED
    BY <1>1, <2>1, <2>2, <2>3 DEF ProbeRecords
<1>3. flights' \in [Flights -> FlightRecords] /\ \A g \in Flights \ {f} : flights'[g] = flights[g]
  <2>1. NewFlight \in FlightRecords
    BY DEF NewFlight, FlightRecords
  <2> QED
    BY <1>1, <2>1
<1>4. PersistsFound'
  BY <1>1, <1>3 DEF ProbesInv, PersistsFound, NewFlight
<1>5. ASSUME NEW u \in ProbeRequests \ {q}, probes[u].flight \in Flights PROVE Undisturbed(u)
  <2>1. flights' # flights => probes[u].flight # f
    BY DEF Shares
  <2>2. flights'[probes[u].flight] = flights[probes[u].flight]
    BY <1>3, <1>5, <2>1
  <2>3. probes[u].tracked /\ flights[probes[u].flight].streams = "Unset" => probes[u].key \in Tracked
    BY <1>5, WithoutKeeps
  <2> QED
    BY <2>2, <2>3 DEF Undisturbed
<1>6. \A u \in ProbeRequests \ {q} : Undisturbed(u)
  BY <1>5 DEF Undisturbed
<1>7. Fits(q)' /\ BeginsAlone(q)
  BY <1>1, <1>2 DEF Fits, ProbeIs, BeginsAlone
<1> QED
  BY <1>2, <1>3, <1>4, <1>6, <1>7, ProbeStep

\* acquire: the request finds the flight of its key or begins one.
LEMMA AcquireStep ==
    ASSUME ProbesInv, NEW q \in ProbeRequests, NEW forgotten \in SUBSET Failures,
           \/ AcquireKnown(q, forgotten)
           \/ \E f \in Flights : AcquireNew(q, f, forgotten) \/ AcquireGone(q, f, forgotten)
    PROVE  ProbesInv'
<1> DEFINE k == probes[q].key
           left == Without(forgotten)
<1>1. /\ entries \in [ProbeKeys -> Entries] /\ left \in [ProbeKeys -> Entries]
      /\ \A j \in Tracked : left[j] = entries[j]
  BY WithoutKeeps DEF ProbesInv, ProbesTyped
<1>2. ProbeIs(q, "Asked") /\ k \in ProbeKeys
  BY DEF AcquireKnown, AcquireNew, AcquireGone, ProbesInv, Fits, ProbeIs
<1>3. CASE AcquireKnown(q, forgotten) /\ k \in Tracked /\ Lease(q, entries[k], TRUE)
  <2>1. entries[k] \in Flights
    BY <1>3 DEF Tracked
  <2>2. entries' = left /\ flights' = flights
    BY <1>3 DEF AcquireKnown
  <2> HIDE DEF left
  <2> QED
    BY <1>1, <1>2, <1>3, <2>1, <2>2, LeaseStep
<1>4. CASE AcquireKnown(q, forgotten) /\ probes' = [probes EXCEPT ![q] = NoProbe]
  <2>1. /\ probes' \in [ProbeRequests -> ProbeRecords]
        /\ \A u \in ProbeRequests \ {q} : probes'[u] = probes[u]
        /\ probes'[q] = NoProbe
    BY <1>4 DEF ProbesInv, ProbesTyped, NoProbe, ProbeRecords
  <2>2. entries' = left /\ flights' = flights
    BY <1>4 DEF AcquireKnown
  <2>3. Fits(q)' /\ BeginsAlone(q)
    BY <2>1 DEF Fits, ProbeIs, BeginsAlone, NoProbe
  <2>4. flights' \in [Flights -> FlightRecords] /\ PersistsFound'
    BY <2>2 DEF ProbesInv, ProbesTyped, PersistsFound
  <2>5. \A u \in ProbeRequests : Undisturbed(u)
    BY <1>1, <2>2, WithoutKeeps DEF Undisturbed
  <2> HIDE DEF left
  <2> QED
    BY <1>1, <2>1, <2>2, <2>3, <2>4, <2>5, ProbeStep
<1>5. ASSUME NEW f \in Flights, AcquireNew(q, f, forgotten) PROVE ProbesInv'
  <2>1. PICK full \in BOOLEAN :
            /\ entries' = IF full THEN left ELSE [left EXCEPT ![k] = f]
            /\ Lease(q, f, ~full)
    BY <1>5 DEF AcquireNew
  <2>2. k \notin Tracked /\ Shares(f) = {} /\ flights' = [flights EXCEPT ![f] = NewFlight]
    BY <1>5 DEF AcquireNew
  <2>3. /\ entries' \in [ProbeKeys -> Entries] /\ \A j \in Tracked : entries'[j] = entries[j]
        /\ ~full => entries'[k] = f
    <3> HIDE DEF left
    <3> QED
      BY <1>1, <1>2, <2>1, <2>2 DEF Entries, Tracked
  <2> QED
    BY <1>2, <2>1, <2>2, <2>3, LeaseStep
<1>6. ASSUME NEW f \in Flights, AcquireGone(q, f, forgotten) PROVE ProbesInv'
  <2>1. /\ entries' = [left EXCEPT ![k] = entries[k]] /\ Lease(q, f, FALSE)
        /\ Shares(f) = {} /\ flights' = [flights EXCEPT ![f] = NewFlight]
    BY <1>6 DEF AcquireGone
  <2>2. entries' \in [ProbeKeys -> Entries] /\ \A j \in Tracked : entries'[j] = entries[j]
    <3> HIDE DEF left
    <3> QED
      BY <1>1, <1>2, <2>1 DEF Tracked
  <2> QED
    BY <1>2, <2>1, <2>2, LeaseStep
<1> QED
  BY <1>3, <1>4, <1>5, <1>6 DEF AcquireKnown

\* Each step of a request, and each expiry of an entry, keeps the invariant.
LEMMA ProbesInvStep == ProbesInv /\ [ProbesNext]_probeVars => ProbesInv'
<1> SUFFICES ASSUME ProbesInv, [ProbesNext]_probeVars PROVE ProbesInv'
  OBVIOUS
<1>1. /\ entries \in [ProbeKeys -> Entries] /\ flights \in [Flights -> FlightRecords]
      /\ probes \in [ProbeRequests -> ProbeRecords] /\ PersistsFound
      /\ \A q \in ProbeRequests : Fits(q)
  BY DEF ProbesInv, ProbesTyped
\* A step that changes only what the request itself looks at.
<1>2. ASSUME NEW q \in ProbeRequests, UNCHANGED <<entries, flights>>,
             probes' \in [ProbeRequests -> ProbeRecords],
             \A u \in ProbeRequests \ {q} : probes'[u] = probes[u], Fits(q)', BeginsAlone(q)
      PROVE  ProbesInv'
  <2>1. PersistsFound'
    BY <1>1, <1>2 DEF PersistsFound
  <2>2. \A u \in ProbeRequests : Undisturbed(u)
    BY <1>2 DEF Undisturbed
  <2> QED
    BY <1>1, <1>2, <2>1, <2>2, ProbeStep
<1>3. ASSUME NEW q \in ProbeRequests, NEW k \in ProbeKeys, AskStreams(q, k) PROVE ProbesInv'
  <2>1. Fits(q)' /\ BeginsAlone(q)
    BY <1>1, <1>3 DEF AskStreams, Fits, ProbeIs, BeginsAlone, ProbeRecords
  <2> QED
    BY <1>1, <1>2, <1>3, <2>1 DEF AskStreams, ProbeRecords
<1>4. ASSUME NEW q \in ProbeRequests, BeginProbe(q) PROVE ProbesInv'
  <2>1. Fits(q)'
    BY <1>1, <1>4 DEF BeginProbe, ProbeGoes, Fits, ProbeIs, ProbeRecords
  <2>2. probes'[q].flight = probes[q].flight
    BY <1>1, <1>4 DEF BeginProbe, ProbeGoes, ProbeRecords
  <2>3. \A u \in ProbeRequests : ~(ProbeIs(u, "Probing") /\ probes[u].flight = probes[q].flight)
    BY <1>4 DEF BeginProbe, Inside, Shares
  <2> QED
    BY <1>1, <1>2, <1>4, <2>1, <2>2, <2>3 DEF BeginProbe, ProbeGoes, ProbeRecords, BeginsAlone
<1>5. ASSUME NEW q \in ProbeRequests, EndProbe(q) PROVE ProbesInv'
  <2> DEFINE f == probes[q].flight
  <2>1. PICK streams \in {"Found", "Missing"} : flights' = [flights EXCEPT ![f].streams = streams]
    BY <1>5 DEF EndProbe
  <2>2. /\ ProbeIs(q, "Probing") /\ f \in Flights /\ flights[f].streams = "Unset" /\ UNCHANGED entries
        /\ probes' = [probes EXCEPT ![q].phase = "Waiting"]
    BY <1>1, <1>5 DEF EndProbe, ProbeGoes, Fits, ProbeIs
  <2>3. /\ flights' \in [Flights -> FlightRecords]
        /\ flights'[f].streams = streams /\ flights'[f].persisted = flights[f].persisted
        /\ \A g \in Flights \ {f} : flights'[g] = flights[g]
    BY <1>1, <2>1, <2>2 DEF FlightRecords
  <2>4. PersistsFound'
    BY <1>1, <2>2, <2>3 DEF PersistsFound
  <2>5. /\ probes' \in [ProbeRequests -> ProbeRecords]
        /\ \A u \in ProbeRequests \ {q} : probes'[u] = probes[u]
        /\ probes'[q].phase = "Waiting" /\ probes'[q].flight = f
        /\ probes'[q].key = probes[q].key
    BY <1>1, <2>2 DEF ProbeRecords
  <2>6. Fits(q)' /\ BeginsAlone(q)
    BY <1>1, <2>2, <2>3, <2>5 DEF Fits, ProbeIs, BeginsAlone
  <2>7. \A u \in ProbeRequests \ {q} : Undisturbed(u) \/ ProbedBy(q, u)
    BY <2>2, <2>3 DEF Undisturbed, ProbedBy
  <2> HIDE DEF f
  <2> QED
    BY <1>1, <2>2, <2>3, <2>4, <2>5, <2>6, <2>7, ProbeStep
<1>6. ASSUME NEW q \in ProbeRequests, Persist(q) PROVE ProbesInv'
  <2>1. Fits(q)' /\ BeginsAlone(q)
    BY <1>1, <1>6 DEF Persist, ProbeGoes, Fits, ProbeIs, BeginsAlone, ProbeRecords
  <2> QED
    BY <1>1, <1>2, <1>6, <2>1 DEF Persist, ProbeGoes, ProbeRecords
<1>7. ASSUME NEW q \in ProbeRequests, UNCHANGED <<entries, flights>>,
             probes' = [probes EXCEPT ![q] = NoProbe]
      PROVE  ProbesInv'
  <2>1. Fits(q)' /\ BeginsAlone(q)
    BY <1>1, <1>7 DEF Fits, ProbeIs, BeginsAlone, NoProbe
  <2> QED
    BY <1>1, <1>2, <1>7, <2>1 DEF NoProbe, ProbeRecords
<1>8. ASSUME NEW q \in ProbeRequests, EndPersist(q) PROVE ProbesInv'
  <2> DEFINE f == probes[q].flight
  <2>1. ProbeIs(q, "Persisting") /\ f \in Flights /\ flights[f].streams = "Found" /\ UNCHANGED entries
    BY <1>1, <1>8 DEF EndPersist, Fits, ProbeIs
  <2>2. CASE flights' = [flights EXCEPT ![f].persisted = TRUE] /\ ProbeGoes(q, "Waiting")
    <3>1. /\ flights' \in [Flights -> FlightRecords]
          /\ \A g \in Flights : flights'[g].streams = flights[g].streams
          /\ \A g \in Flights \ {f} : flights'[g] = flights[g]
      BY <1>1, <2>1, <2>2 DEF FlightRecords
    <3>2. PersistsFound'
      BY <1>1, <2>1, <3>1 DEF PersistsFound
    <3>3. /\ probes' \in [ProbeRequests -> ProbeRecords]
          /\ \A u \in ProbeRequests \ {q} : probes'[u] = probes[u]
          /\ probes'[q].phase = "Waiting" /\ probes'[q].flight = f
          /\ probes'[q].key = probes[q].key
      BY <1>1, <2>2 DEF ProbeGoes, ProbeRecords
    <3>4. Fits(q)' /\ BeginsAlone(q)
      BY <1>1, <2>1, <3>1, <3>3 DEF Fits, ProbeIs, BeginsAlone
    <3>5. \A u \in ProbeRequests : Undisturbed(u)
      BY <2>1, <3>1 DEF Undisturbed
    <3> HIDE DEF f
    <3> QED
      BY <1>1, <2>1, <3>1, <3>2, <3>3, <3>4, <3>5, ProbeStep
  <2>3. CASE probes' = [probes EXCEPT ![q] = NoProbe] /\ UNCHANGED flights
    BY <1>7, <2>1, <2>3
  <2> QED
    BY <1>8, <2>2, <2>3 DEF EndPersist
<1>9. ASSUME NEW q \in ProbeRequests, FinishProbe(q) PROVE ProbesInv'
  <2> DEFINE f == probes[q].flight
             k == probes[q].key
  <2>1. /\ f \in Flights /\ k \in ProbeKeys /\ flights[f].streams # "Unset"
        /\ probes' = [probes EXCEPT ![q] = NoProbe] /\ UNCHANGED flights
        /\ \/ UNCHANGED entries
           \/ /\ entries[k] = f
              /\ \E end \in {Failed, NoFlight} : entries' = [entries EXCEPT ![k] = end]
    BY <1>1, <1>9 DEF FinishProbe, Fits, ProbeIs, PersistsFound, Mine
  <2>2. CASE UNCHANGED entries
    BY <1>7, <2>1, <2>2
  <2>3. CASE entries[k] = f /\ \E end \in {Failed, NoFlight} : entries' = [entries EXCEPT ![k] = end]
    <3>1. entries' \in [ProbeKeys -> Entries] /\ \A j \in ProbeKeys \ {k} : entries'[j] = entries[j]
      BY <1>1, <2>1, <2>3 DEF Entries
    <3>2. /\ probes' \in [ProbeRequests -> ProbeRecords]
          /\ \A u \in ProbeRequests \ {q} : probes'[u] = probes[u]
          /\ probes'[q] = NoProbe
      BY <1>1, <2>1 DEF NoProbe, ProbeRecords
    <3>3. Fits(q)' /\ BeginsAlone(q) /\ PersistsFound'
      BY <1>1, <2>1, <3>2 DEF Fits, ProbeIs, BeginsAlone, NoProbe, PersistsFound
    <3>4. ASSUME NEW u \in ProbeRequests \ {q}, probes[u].flight \in Flights,
                 probes[u].tracked, flights[probes[u].flight].streams = "Unset"
          PROVE  entries'[probes[u].key] = entries[probes[u].key]
      <4>1. probes[u].key \in ProbeKeys /\ entries[probes[u].key] = probes[u].flight
        BY <1>1, <3>4, ProbeAssumption DEF Fits
      <4>2. probes[u].key # k
        BY <2>1, <2>3, <3>4, <4>1
      <4> QED
        BY <3>1, <4>1, <4>2
    <3>5. \A u \in ProbeRequests \ {q} : Undisturbed(u)
      BY <2>1, <3>4 DEF Undisturbed
    <3> HIDE DEF f, k
    <3> QED
      BY <1>1, <2>1, <3>1, <3>2, <3>3, <3>5, ProbeStep
  <2> QED
    BY <2>1, <2>2, <2>3
<1>10. ASSUME NEW q \in ProbeRequests, CancelProbe(q) PROVE ProbesInv'
  BY <1>7, <1>10 DEF CancelProbe
<1>11. CASE UNCHANGED probeVars
  BY <1>11 DEF probeVars, ProbesInv, ProbesTyped, PersistsFound, OneInside, Fits, ProbeIs
<1> QED
  BY <1>3, <1>4, <1>5, <1>6, <1>8, <1>9, <1>10, <1>11, AcquireStep DEF ProbesNext

\* Requests whose flight the coordinator knows share one probe per key.
THEOREM ProbesAreShared == ProbesSpec => []OneProbePerKey
<1>1. ProbesInit => ProbesInv
  BY ProbeAssumption DEF ProbesInit, ProbesInv, ProbesTyped, PersistsFound, OneInside, Fits, ProbeIs, NoProbe,
         NewFlight, ProbeRecords, FlightRecords, Entries
<1> QED
  BY <1>1, ProbesInvStep, ProbesInvOne, PTL DEF ProbesSpec

-----------------------------------------------------------------------------
(* The limiter: the queue of its Notify, in which nobody is twice. *)

Unrepeated(q) == \A m, n \in DOMAIN q : q[m] = q[n] => m = n

\* i is behind x in the queue.
Behind(q, x, i) == \E m, n \in DOMAIN q : m < n /\ q[m] = x /\ q[n] = i

\* Who joins the queue is behind everybody in it.
LEMMA QueueGrows ==
    ASSUME NEW q \in Seq(Items), Unrepeated(q), NEW i \in Items, i \notin ToSet(q)
    PROVE  /\ Append(q, i) \in Seq(Items) /\ Unrepeated(Append(q, i))
           /\ ToSet(Append(q, i)) = ToSet(q) \cup {i}
           /\ \A x, y : Behind(q, x, y) => Behind(Append(q, i), x, y)
           /\ \A x \in ToSet(q) : Behind(Append(q, i), x, i)
<1> DEFINE r == Append(q, i)
<1>1. /\ r \in Seq(Items) /\ DOMAIN r = 1..(Len(q) + 1) /\ DOMAIN q = 1..Len(q) /\ Len(q) \in Nat
      /\ r[Len(q) + 1] = i /\ \A n \in 1..Len(q) : r[n] = q[n]
  OBVIOUS
<1>2. 1..(Len(q) + 1) = 1..Len(q) \cup {Len(q) + 1} /\ \A n \in 1..Len(q) : n < Len(q) + 1
  BY <1>1
<1>3. \A n \in 1..Len(q) : q[n] # i
  BY <1>1 DEF ToSet
<1> HIDE DEF r
<1>4. ToSet(r) = ToSet(q) \cup {i}
  BY <1>1, <1>2 DEF ToSet
<1>5. Unrepeated(r)
  BY <1>1, <1>2, <1>3 DEF Unrepeated
<1>6. \A x, y : Behind(q, x, y) => Behind(r, x, y)
  BY <1>1, <1>2 DEF Behind
<1>7. \A x \in ToSet(q) : Behind(r, x, i)
  BY <1>1, <1>2 DEF Behind, ToSet
<1> QED
  BY <1>1, <1>4, <1>5, <1>6, <1>7 DEF r

\* r is q without the element at position n.
LEMMA QueueShrinks ==
    ASSUME NEW q \in Seq(Items), Unrepeated(q), NEW n \in DOMAIN q, NEW r \in Seq(Items),
           Len(r) = Len(q) - 1, \A m \in 1..(n - 1) : r[m] = q[m],
           \A m \in n..(Len(q) - 1) : r[m] = q[m + 1]
    PROVE  /\ Unrepeated(r) /\ ToSet(r) = ToSet(q) \ {q[n]}
           /\ \A x, y : Behind(q, x, y) /\ x # q[n] /\ y # q[n] => Behind(r, x, y)
<1> DEFINE old(m) == IF m < n THEN m ELSE m + 1
           new(m) == IF m < n THEN m ELSE m - 1
<1>1. DOMAIN q = 1..Len(q) /\ DOMAIN r = 1..(Len(q) - 1) /\ Len(q) \in Nat /\ n \in 1..Len(q)
  OBVIOUS
<1>2. ASSUME NEW m \in DOMAIN r
      PROVE  old(m) \in DOMAIN q /\ old(m) # n /\ r[m] = q[old(m)]
  BY <1>1
<1>3. ASSUME NEW m \in DOMAIN q, m # n
      PROVE  new(m) \in DOMAIN r /\ r[new(m)] = q[m]
  <2>1. m \in 1..Len(q) /\ m \in Nat /\ n \in Nat /\ (m - 1) + 1 = m
    BY <1>1
  <2>2. CASE m < n
    BY <1>1, <2>1, <2>2
  <2>3. CASE m > n
    <3>1. m - 1 \in n..(Len(q) - 1) /\ ~(m < n)
      BY <1>1, <2>1, <2>3
    <3> QED
      BY <1>1, <2>1, <3>1
  <2> QED
    BY <1>3, <2>1, <2>2, <2>3
<1>4. \A m, k \in DOMAIN r : old(m) = old(k) => m = k
  BY <1>1
<1>5. ASSUME NEW m \in DOMAIN q, NEW k \in DOMAIN q, m # n, k # n, m < k
      PROVE  new(m) < new(k)
  <2>1. m \in Nat /\ k \in Nat /\ n \in Nat
    BY <1>1
  <2> QED
    BY <1>5, <2>1
<1>6. \A m \in DOMAIN q : m # n => q[m] # q[n]
  BY <1>1 DEF Unrepeated
<1> HIDE DEF old, new
<1>7. Unrepeated(r)
  BY <1>2, <1>4 DEF Unrepeated
<1>8. ToSet(r) = ToSet(q) \ {q[n]}
  BY <1>2, <1>3, <1>6 DEF ToSet
<1>9. \A x, y : Behind(q, x, y) /\ x # q[n] /\ y # q[n] => Behind(r, x, y)
  BY <1>3, <1>5 DEF Behind
<1> QED
  BY <1>7, <1>8, <1>9

\* The head leaves the queue: nobody was before it.
LEMMA QueueLosesHead ==
    ASSUME NEW q \in Seq(Items), Unrepeated(q), q # <<>>
    PROVE  /\ Tail(q) \in Seq(Items) /\ Unrepeated(Tail(q))
           /\ Head(q) \in ToSet(q) /\ ToSet(Tail(q)) = ToSet(q) \ {Head(q)}
           /\ \A x, y : Behind(q, x, y) /\ x # Head(q) => Behind(Tail(q), x, y)
           /\ \A x : ~Behind(q, x, Head(q))
<1>1. /\ Tail(q) \in Seq(Items) /\ Len(Tail(q)) = Len(q) - 1 /\ 1 \in DOMAIN q /\ Head(q) = q[1]
      /\ \A m \in 1..(Len(q) - 1) : Tail(q)[m] = q[m + 1]
      /\ DOMAIN q = 1..Len(q)
  OBVIOUS
<1>3. /\ Unrepeated(Tail(q)) /\ ToSet(Tail(q)) = ToSet(q) \ {Head(q)}
      /\ \A x, y : Behind(q, x, y) /\ x # Head(q) /\ y # Head(q) => Behind(Tail(q), x, y)
  <2>1. \A m \in 1..(1 - 1) : Tail(q)[m] = q[m]
    OBVIOUS
  <2> DEFINE r == Tail(q)
  <2>2. r \in Seq(Items) /\ Len(r) = Len(q) - 1 /\ 1 \in DOMAIN q /\ q[1] = Head(q)
    BY <1>1
  <2>3. (\A m \in 1..(1 - 1) : r[m] = q[m]) /\ \A m \in 1..(Len(q) - 1) : r[m] = q[m + 1]
    BY <1>1, <2>1
  <2> HIDE DEF r
  <2>4. /\ Unrepeated(r) /\ ToSet(r) = ToSet(q) \ {q[1]}
        /\ \A x, y : Behind(q, x, y) /\ x # q[1] /\ y # q[1] => Behind(r, x, y)
    BY <2>2, <2>3, QueueShrinks
  <2> QED
    BY <2>2, <2>4 DEF r
<1>4. ASSUME NEW x, Behind(q, x, Head(q)) PROVE FALSE
  <2>1. PICK m, n \in DOMAIN q : m < n /\ q[n] = Head(q)
    BY <1>4 DEF Behind
  <2>2. n = 1
    BY <1>1, <2>1 DEF Unrepeated
  <2> QED
    BY <2>1, <2>2
<1> QED
  BY <1>1, <1>3, <1>4 DEF ToSet

\* One leaves the queue, and the others stay in their order.
LEMMA QueueLosesOne ==
    ASSUME NEW q \in Seq(Items), Unrepeated(q), NEW n \in DOMAIN q
    PROVE  /\ RemoveAt(q, n) \in Seq(Items) /\ Unrepeated(RemoveAt(q, n))
           /\ ToSet(RemoveAt(q, n)) = ToSet(q) \ {q[n]}
           /\ \A x, y : Behind(q, x, y) /\ x # q[n] /\ y # q[n] => Behind(RemoveAt(q, n), x, y)
<1> DEFINE a == SubSeq(q, 1, n - 1)
           b == SubSeq(q, n + 1, Len(q))
           r == a \o b
<1>1. n \in 1..Len(q) /\ Len(q) \in Nat
  OBVIOUS
<1>2. /\ a \in Seq(Items) /\ Len(a) = n - 1 /\ \A m \in 1..(n - 1) : a[m] = q[m]
      /\ b \in Seq(Items) /\ Len(b) = Len(q) - n /\ \A m \in 1..(Len(q) - n) : b[m] = q[m + n]
  BY <1>1
<1> HIDE DEF a, b
<1>3. /\ r \in Seq(Items) /\ Len(r) = Len(a) + Len(b)
      /\ \A m \in 1..(Len(a) + Len(b)) : r[m] = IF m <= Len(a) THEN a[m] ELSE b[m - Len(a)]
  BY <1>2, ConcatProperties
<1> HIDE DEF r
<1>4. r \in Seq(Items) /\ Len(r) = Len(q) - 1 /\ \A m \in 1..(n - 1) : r[m] = q[m]
  BY <1>1, <1>2, <1>3
<1>5. ASSUME NEW m \in n..(Len(q) - 1) PROVE r[m] = q[m + 1]
  <2> DEFINE k == m - (n - 1)
  <2>1. k \in 1..(Len(q) - n) /\ m = k + (n - 1) /\ k + n = m + 1
    BY <1>1
  <2> HIDE DEF k
  <2>2. r[m] = b[k] /\ b[k] = q[k + n]
    <3>1. m \in 1..(Len(a) + Len(b)) /\ ~(m <= Len(a)) /\ m - Len(a) = k
      <4>1. Len(a) = n - 1 /\ Len(b) = Len(q) - n
        BY <1>2
      <4>2. m \in Int /\ n \in Int /\ k \in Int /\ Len(q) \in Int /\ 1 <= m /\ n <= m /\ m <= Len(q) - 1
        BY <1>1, <2>1
      <4>3. Len(a) + Len(b) = Len(q) - 1
        BY <4>1, <4>2
      <4>4. m \in 1..(Len(q) - 1) /\ ~(m <= n - 1) /\ m - (n - 1) = k
        BY <2>1, <4>2
      <4> QED
        BY <4>1, <4>3, <4>4
    <3> QED
      BY <1>2, <1>3, <2>1, <3>1
  <2> QED
    BY <2>1, <2>2
<1>6. /\ Unrepeated(r) /\ ToSet(r) = ToSet(q) \ {q[n]}
      /\ \A x, y : Behind(q, x, y) /\ x # q[n] /\ y # q[n] => Behind(r, x, y)
  BY <1>4, <1>5, QueueShrinks
<1> QED
  BY <1>4, <1>6 DEF r, a, b, RemoveAt

-----------------------------------------------------------------------------

Looking == {"Registered", "Waiting", "Taken"}
ItemRecords == [phase : Looking \cup {"None", "Working", "Released"}, woken : {"No", "One", "All"}]

LimiterTyped ==
    /\ limit \in Int /\ inFlight \in Int
    /\ items \in [Items -> ItemRecords]
    /\ waiters \in Seq(Items)

\* In the queue, once, is who has a Notified that was not woken; what is kept is
\* kept for want of anybody.
QueueSound ==
    /\ Unrepeated(waiters)
    /\ kept => waiters = <<>>
    /\ \A i \in Items :
          /\ i \in ToSet(waiters) <=> items[i].phase \in Looking /\ items[i].woken = "No"
          /\ items[i].woken # "No" => items[i].phase \in Looking

\* Who x, asleep in the queue q, may rely on: who holds a wake-up for the queue or is
\* about to send one, and who began to look after x did.
Helps(at, q, x, i) ==
    \/ at[i].phase = "Released"
    \/ at[i].woken = "One"
    \/ at[i].phase = "Registered" /\ (at[i].woken = "All" \/ Behind(q, x, i))

Helpers(at, q, x) == {i \in Items : Helps(at, q, x, i)}

\* There are no more free places than x has helpers.
Enough(at, q, x, free) == free <= 0 \/ free <= Cardinality(Helpers(at, q, x))

HelpIsEnough == ~settings => \A x \in Asleep : Enough(items, waiters, x, limit - inFlight)

LimiterInv == LimiterTyped /\ QueueSound /\ HelpIsEnough

\* Helpers can be counted.
LEMMA HelpersFinite ==
    ASSUME NEW at, NEW q, NEW x
    PROVE  IsFiniteSet(Helpers(at, q, x)) /\ Cardinality(Helpers(at, q, x)) \in Nat
<1>1. Helpers(at, q, x) \subseteq Items
  BY DEF Helpers
<1> QED
  BY <1>1, LimiterAssumption, FS_Subset, FS_CardinalityType

\* Help stays enough when it loses no helper, ...
LEMMA HelpKept ==
    ASSUME NEW at, NEW q, NEW x, NEW free \in Int, Enough(at, q, x, free), NEW at2, NEW q2,
           \A i \in Items : Helps(at, q, x, i) => Helps(at2, q2, x, i)
    PROVE  Enough(at2, q2, x, free)
<1>1. Helpers(at, q, x) \subseteq Helpers(at2, q2, x)
  BY DEF Helpers
<1>2. Cardinality(Helpers(at, q, x)) <= Cardinality(Helpers(at2, q2, x))
  BY <1>1, HelpersFinite, FS_Subset
<1> QED
  BY <1>2, HelpersFinite DEF Enough

\* ... when it loses one helper and gains another, ...
LEMMA HelpPassedOn ==
    ASSUME NEW at, NEW q, NEW x, NEW free \in Int, Enough(at, q, x, free), NEW at2, NEW q2,
           NEW i \in Items, NEW h \in Items, h # i, ~Helps(at, q, x, h), Helps(at2, q2, x, h),
           \A j \in Items \ {i} : Helps(at, q, x, j) => Helps(at2, q2, x, j)
    PROVE  Enough(at2, q2, x, free)
<1> DEFINE A == Helpers(at, q, x)
           B == Helpers(at2, q2, x)
<1>1. IsFiniteSet(A) /\ IsFiniteSet(B) /\ Cardinality(A) \in Nat /\ Cardinality(B) \in Nat
  BY HelpersFinite
<1>2. (A \ {i}) \cup {h} \subseteq B /\ h \notin A \ {i}
  BY DEF Helpers
<1>3. IsFiniteSet(A \ {i}) /\ Cardinality(A \ {i}) >= Cardinality(A) - 1
  <2>1. IsFiniteSet(A \ {i}) /\ Cardinality(A \ {i}) \in {Cardinality(A), Cardinality(A) - 1}
    BY <1>1, FS_RemoveElement, Zenon
  <2> QED
    BY <1>1, <2>1
<1>4. Cardinality((A \ {i}) \cup {h}) = Cardinality(A \ {i}) + 1
  BY <1>2, <1>3, FS_AddElement
<1>5. Cardinality((A \ {i}) \cup {h}) <= Cardinality(B)
  BY <1>1, <1>2, FS_Subset
<1>6. Cardinality(A \ {i}) \in Nat
  BY <1>3, FS_CardinalityType
<1> HIDE DEF A, B
<1>7. Cardinality(A) <= Cardinality(B)
  BY <1>1, <1>3, <1>4, <1>5, <1>6
<1> QED
  BY <1>1, <1>7 DEF Enough, A, B

\* ... when a place and one helper go, ...
LEMMA HelpTakesPlace ==
    ASSUME NEW at, NEW q, NEW x, NEW free \in Int, Enough(at, q, x, free), NEW at2, NEW q2,
           NEW i \in Items, \A j \in Items \ {i} : Helps(at, q, x, j) => Helps(at2, q2, x, j)
    PROVE  Enough(at2, q2, x, free - 1)
<1> DEFINE A == Helpers(at, q, x)
           B == Helpers(at2, q2, x)
<1>1. IsFiniteSet(A) /\ IsFiniteSet(B) /\ Cardinality(A) \in Nat /\ Cardinality(B) \in Nat
  BY HelpersFinite
<1>2. A \ {i} \subseteq B
  BY DEF Helpers
<1>3. IsFiniteSet(A \ {i}) /\ Cardinality(A \ {i}) >= Cardinality(A) - 1
  <2>1. IsFiniteSet(A \ {i}) /\ Cardinality(A \ {i}) \in {Cardinality(A), Cardinality(A) - 1}
    BY <1>1, FS_RemoveElement, Zenon
  <2> QED
    BY <1>1, <2>1
<1>4. Cardinality(A \ {i}) <= Cardinality(B) /\ Cardinality(A \ {i}) \in Nat
  BY <1>1, <1>2, <1>3, FS_Subset, FS_CardinalityType
<1> HIDE DEF A, B
<1>5. Cardinality(A) - 1 <= Cardinality(B)
  BY <1>1, <1>3, <1>4
<1> QED
  BY <1>1, <1>5 DEF Enough, A, B

\* ... and when a place comes with a helper.
LEMMA HelpFreesPlace ==
    ASSUME NEW at, NEW q, NEW x, NEW free \in Int, Enough(at, q, x, free), NEW at2, NEW q2,
           NEW i \in Items, ~Helps(at, q, x, i), Helps(at2, q2, x, i),
           \A j \in Items : Helps(at, q, x, j) => Helps(at2, q2, x, j)
    PROVE  Enough(at2, q2, x, free + 1)
<1> DEFINE A == Helpers(at, q, x)
           B == Helpers(at2, q2, x)
<1>1. IsFiniteSet(A) /\ IsFiniteSet(B) /\ Cardinality(A) \in Nat /\ Cardinality(B) \in Nat
  BY HelpersFinite
<1>2. A \cup {i} \subseteq B /\ i \notin A
  BY DEF Helpers
<1>3. Cardinality(A \cup {i}) = Cardinality(A) + 1
  BY <1>1, <1>2, FS_AddElement
<1>4. Cardinality(A \cup {i}) <= Cardinality(B)
  BY <1>1, <1>2, FS_Subset
<1> HIDE DEF A, B
<1>5. Cardinality(A) + 1 <= Cardinality(B)
  BY <1>1, <1>3, <1>4
<1> QED
  BY <1>1, <1>5 DEF Enough, A, B

\* notify_one, when i leaves: it hands on the wake-up that it holds or owes.
LEMMA NotifyStep ==
    ASSUME LimiterInv, NEW i \in Items, NEW phase \in {"None", "Working"},
           items[i].woken = "One" \/ items[i].phase = "Released",
           NotifyOne(i, phase, waiters), UNCHANGED <<limit, inFlight, settings>>
    PROVE  LimiterInv'
<1> DEFINE gone == [phase |-> phase, woken |-> "No"]
           h == Head(waiters)
<1>1. /\ gone \in ItemRecords /\ gone.phase = phase /\ gone.woken = "No"
      /\ items \in [Items -> ItemRecords] /\ i \notin ToSet(waiters)
      /\ phase \notin Looking /\ phase # "Released"
      /\ limit - inFlight \in Int
  BY DEF LimiterInv, LimiterTyped, QueueSound, ItemRecords, Looking
<1>2. CASE waiters = <<>>
  <2>1. kept' = TRUE /\ waiters' = waiters /\ items' = [items EXCEPT ![i] = gone]
    BY <1>2 DEF NotifyOne
  <2>2. LimiterTyped'
    BY <1>1, <2>1 DEF LimiterInv, LimiterTyped
  <2>3. QueueSound'
    BY <1>1, <1>2, <2>1 DEF LimiterInv, QueueSound
  <2>4. Asleep' = {}
    <3>1. ToSet(waiters') = {}
      BY <1>2, <2>1 DEF ToSet
    <3> QED
      BY <2>3, <3>1 DEF Asleep, ItemIs, QueueSound, Looking
  <2> QED
    BY <2>2, <2>3, <2>4 DEF LimiterInv, HelpIsEnough
<1>3. CASE waiters # <<>>
  <2>1. /\ h \in ToSet(waiters) /\ h \in Items /\ Tail(waiters) \in Seq(Items) /\ Unrepeated(Tail(waiters))
        /\ ToSet(Tail(waiters)) = ToSet(waiters) \ {h}
        /\ \A x, y : Behind(waiters, x, y) /\ x # h => Behind(Tail(waiters), x, y)
        /\ \A x : ~Behind(waiters, x, h)
    <3>1. waiters \in Seq(Items) /\ Unrepeated(waiters)
      BY DEF LimiterInv, LimiterTyped, QueueSound
    <3> QED
      BY <1>3, <3>1, QueueLosesHead, HeadTailProperties
  <2>2. h # i /\ items[h].phase \in Looking /\ items[h].woken = "No" /\ ~kept
    BY <1>1, <1>3, <2>1 DEF LimiterInv, QueueSound
  <2>3. /\ waiters' = Tail(waiters) /\ kept' = kept
        /\ items' = [[items EXCEPT ![i] = gone] EXCEPT ![h].woken = "One"]
    BY <1>3 DEF NotifyOne
  <2>4. /\ items' \in [Items -> ItemRecords] /\ items'[i] = gone
        /\ items'[h].phase = items[h].phase /\ items'[h].woken = "One"
        /\ \A j \in Items \ {i, h} : items'[j] = items[j]
    BY <1>1, <2>1, <2>2, <2>3 DEF ItemRecords
  <2>5. LimiterTyped'
    BY <2>1, <2>3, <2>4 DEF LimiterInv, LimiterTyped
  <2>6. QueueSound'
    BY <1>1, <2>1, <2>2, <2>3, <2>4 DEF LimiterInv, QueueSound
  <2>7. ASSUME ~settings, NEW x \in Asleep' PROVE Enough(items', waiters', x, limit - inFlight)
    <3>1. x \in Items /\ x # i /\ x # h /\ x \in Asleep
      BY <1>1, <2>4, <2>7 DEF Asleep, ItemIs, Looking
    <3>2. Enough(items, waiters, x, limit - inFlight)
      BY <2>7, <3>1 DEF LimiterInv, HelpIsEnough
    <3>3. ~Helps(items, waiters, x, h) /\ Helps(items', waiters', x, h)
      BY <2>1, <2>2, <2>4 DEF Helps, Looking
    <3>4. \A j \in Items \ {i} : Helps(items, waiters, x, j) => Helps(items', waiters', x, j)
      BY <2>1, <2>3, <2>4, <3>1, <3>3 DEF Helps
    <3> QED
      BY <1>1, <2>1, <2>2, <3>2, <3>3, <3>4, HelpPassedOn
  <2> QED
    BY <2>5, <2>6, <2>7 DEF LimiterInv, HelpIsEnough
<1> QED
  BY <1>2, <1>3

\* A Notified is dropped: taken out of the queue, or its wake-up handed on.
LEMMA DropStep ==
    ASSUME LimiterInv, NEW i \in Items, NEW phase \in {"None", "Working"}, items[i].phase \in {"Waiting", "Taken"},
           DropNotified(i, phase), UNCHANGED <<limit, inFlight, settings>>
    PROVE  LimiterInv'
<1> DEFINE gone == [phase |-> phase, woken |-> "No"]
<1>1. CASE items[i].woken = "One"
  BY <1>1, NotifyStep DEF DropNotified
<1>2. CASE items[i].woken # "One"
  <2>1. /\ gone \in ItemRecords /\ gone.phase = phase /\ gone.woken = "No"
        /\ items \in [Items -> ItemRecords] /\ phase \notin Looking /\ phase # "Released"
        /\ limit - inFlight \in Int /\ waiters \in Seq(Items) /\ Unrepeated(waiters)
    BY DEF LimiterInv, LimiterTyped, QueueSound, ItemRecords, Looking
  <2>2. /\ items' = [items EXCEPT ![i] = gone] /\ kept' = kept
        /\ \/ i \notin ToSet(waiters) /\ waiters' = waiters
           \/ \E n \in DOMAIN waiters : waiters[n] = i /\ waiters' = RemoveAt(waiters, n)
    BY <1>2 DEF DropNotified
  <2>3. /\ waiters' \in Seq(Items) /\ Unrepeated(waiters') /\ ToSet(waiters') = ToSet(waiters) \ {i}
        /\ \A x, y : Behind(waiters, x, y) /\ x # i /\ y # i => Behind(waiters', x, y)
    <3>1. CASE i \notin ToSet(waiters) /\ waiters' = waiters
      BY <2>1, <3>1
    <3>2. CASE \E n \in DOMAIN waiters : waiters[n] = i /\ waiters' = RemoveAt(waiters, n)
      BY <2>1, <3>2, QueueLosesOne
    <3> QED
      BY <2>2, <3>1, <3>2
  <2>4. LimiterTyped'
    BY <2>1, <2>2, <2>3 DEF LimiterInv, LimiterTyped
  <2>5. QueueSound'
    <3>1. kept' => waiters' = <<>>
      <4>1. waiters = <<>> => ToSet(waiters') = {}
        BY <2>3 DEF ToSet
      <4>2. ToSet(waiters') = {} => waiters' = <<>>
        BY <2>3 DEF ToSet
      <4> QED
        BY <2>2, <4>1, <4>2 DEF LimiterInv, QueueSound
    <3> QED
      BY <2>1, <2>2, <2>3, <3>1 DEF LimiterInv, QueueSound
  <2>6. ASSUME ~settings, NEW x \in Asleep' PROVE Enough(items', waiters', x, limit - inFlight)
    <3>1. x \in Items /\ x # i /\ x \in Asleep
      BY <2>1, <2>2, <2>6 DEF Asleep, ItemIs, Looking
    <3>2. Enough(items, waiters, x, limit - inFlight)
      BY <2>6, <3>1 DEF LimiterInv, HelpIsEnough
    <3>3. ~Helps(items, waiters, x, i)
      BY <1>2 DEF Helps
    <3>4. \A j \in Items : Helps(items, waiters, x, j) => Helps(items', waiters', x, j)
      BY <2>1, <2>2, <2>3, <3>1, <3>3 DEF Helps
    <3> QED
      BY <2>1, <3>2, <3>4, HelpKept
  <2> QED
    BY <2>4, <2>5, <2>6 DEF LimiterInv, HelpIsEnough
<1> QED
  BY <1>1, <1>2

\* Who begins to look joins the queue behind all who sleep, or uses up what was kept.
LEMMA RegisterStep ==
    ASSUME LimiterInv, NEW i \in Items, RegisterItem(i)
    PROVE  LimiterInv'
<1> DEFINE new == [phase |-> "Registered", woken |-> IF kept THEN "All" ELSE "No"]
<1>1. /\ new \in ItemRecords /\ new.phase = "Registered" /\ (kept => new.woken = "All") /\ (~kept => new.woken = "No")
      /\ items \in [Items -> ItemRecords] /\ waiters \in Seq(Items) /\ Unrepeated(waiters)
      /\ limit - inFlight \in Int /\ i \notin ToSet(waiters) /\ i \notin Asleep
  BY DEF LimiterInv, LimiterTyped, QueueSound, ItemRecords, Looking, RegisterItem, ItemIs, Asleep
<1>2. /\ items' = [items EXCEPT ![i] = new] /\ kept' = FALSE
      /\ waiters' = IF kept THEN waiters ELSE Append(waiters, i)
      /\ UNCHANGED <<limit, inFlight, settings>>
  BY DEF RegisterItem
<1>3. CASE kept
  <2>1. waiters = <<>> /\ waiters' = waiters /\ ToSet(waiters) = {}
    BY <1>2, <1>3 DEF LimiterInv, QueueSound, ToSet
  <2>2. LimiterTyped' /\ QueueSound'
    BY <1>1, <1>2, <1>3, <2>1 DEF LimiterInv, LimiterTyped, QueueSound, Looking
  <2>3. Asleep' = {}
    BY <2>1, <2>2 DEF QueueSound, Asleep, ItemIs, Looking
  <2> QED
    BY <2>2, <2>3 DEF LimiterInv, HelpIsEnough
<1>4. CASE ~kept
  <2>1. /\ waiters' \in Seq(Items) /\ Unrepeated(waiters') /\ ToSet(waiters') = ToSet(waiters) \cup {i}
        /\ \A x, y : Behind(waiters, x, y) => Behind(waiters', x, y)
        /\ \A x \in ToSet(waiters) : Behind(waiters', x, i)
    BY <1>1, <1>2, <1>4, QueueGrows
  <2>2. LimiterTyped' /\ QueueSound'
    BY <1>1, <1>2, <1>4, <2>1 DEF LimiterInv, LimiterTyped, QueueSound, Looking
  <2>3. ASSUME ~settings, NEW x \in Asleep' PROVE Enough(items', waiters', x, limit - inFlight)
    <3>1. x \in Items /\ x # i /\ x \in Asleep /\ x \in ToSet(waiters)
      BY <1>1, <1>2, <2>3 DEF Asleep, ItemIs, Looking, LimiterInv, QueueSound
    <3>2. Enough(items, waiters, x, limit - inFlight)
      BY <2>3, <3>1 DEF LimiterInv, HelpIsEnough
    <3>3. Helps(items', waiters', x, i)
      BY <1>1, <1>2, <2>1, <3>1 DEF Helps
    <3>4. \A j \in Items : Helps(items, waiters, x, j) => Helps(items', waiters', x, j)
      BY <1>1, <1>2, <2>1, <3>3 DEF Helps
    <3> QED
      BY <1>1, <3>2, <3>4, HelpKept
  <2> QED
    BY <1>2, <2>2, <2>3 DEF LimiterInv, HelpIsEnough
<1> QED
  BY <1>3, <1>4

\* Steps that leave the queue alone and move one item.
LEMMA MoveStep ==
    ASSUME LimiterInv, NEW i \in Items,
           FindFull(i) \/ TakePlace(i) \/ Release(i)
    PROVE  LimiterInv'
<1>1. /\ items \in [Items -> ItemRecords] /\ limit \in Int /\ inFlight \in Int
      /\ limit - inFlight \in Int
  BY DEF LimiterInv, LimiterTyped
<1>2. ASSUME NEW phase \in Looking \cup {"None", "Working", "Released"}, ItemGoes(i, phase)
      PROVE  /\ items' \in [Items -> ItemRecords] /\ items'[i].phase = phase
             /\ items'[i].woken = items[i].woken /\ \A j \in Items \ {i} : items'[j] = items[j]
  BY <1>1, <1>2 DEF ItemGoes, ItemRecords
<1>3. CASE FindFull(i)
  <2>1. /\ items[i].phase = "Registered" /\ items'[i].phase = "Waiting" /\ items'[i].woken = items[i].woken
        /\ items' \in [Items -> ItemRecords] /\ \A j \in Items \ {i} : items'[j] = items[j]
        /\ UNCHANGED <<limit, inFlight, waiters, kept, settings>> /\ inFlight >= limit
    BY <1>2, <1>3 DEF FindFull, Looking, ItemIs
  <2>2. LimiterTyped' /\ QueueSound'
    BY <2>1 DEF LimiterInv, LimiterTyped, QueueSound, Looking
  <2>3. limit - inFlight <= 0
    BY <1>1, <2>1
  <2> QED
    BY <2>1, <2>2, <2>3 DEF LimiterInv, HelpIsEnough, Enough
<1>4. CASE TakePlace(i)
  <2>1. /\ items[i].phase = "Registered" /\ items'[i].phase = "Taken" /\ items'[i].woken = items[i].woken
        /\ items' \in [Items -> ItemRecords] /\ \A j \in Items \ {i} : items'[j] = items[j]
        /\ UNCHANGED <<limit, waiters, kept, settings>> /\ inFlight' = inFlight + 1
    BY <1>2, <1>4 DEF TakePlace, Looking, ItemIs
  <2>2. LimiterTyped' /\ QueueSound'
    BY <1>1, <2>1 DEF LimiterInv, LimiterTyped, QueueSound, Looking
  <2>3. ASSUME ~settings, NEW x \in Asleep' PROVE Enough(items', waiters', x, limit' - inFlight')
    <3>1. x \in Items /\ x # i /\ x \in Asleep
      BY <2>1, <2>3 DEF Asleep, ItemIs
    <3>2. Enough(items, waiters, x, limit - inFlight)
      BY <2>3, <3>1 DEF LimiterInv, HelpIsEnough
    <3>3. \A j \in Items \ {i} : Helps(items, waiters, x, j) => Helps(items', waiters', x, j)
      BY <2>1 DEF Helps
    <3>4. limit' - inFlight' = (limit - inFlight) - 1
      BY <1>1, <2>1
    <3> QED
      BY <1>1, <3>2, <3>3, <3>4, HelpTakesPlace
  <2> QED
    BY <2>1, <2>2, <2>3 DEF LimiterInv, HelpIsEnough
<1>5. CASE Release(i)
  <2>1. /\ items[i].phase = "Working" /\ items'[i].phase = "Released" /\ items'[i].woken = items[i].woken
        /\ items' \in [Items -> ItemRecords] /\ \A j \in Items \ {i} : items'[j] = items[j]
        /\ UNCHANGED <<limit, waiters, kept, settings>> /\ inFlight' = IF inFlight = 0 THEN 0 ELSE inFlight - 1
    BY <1>2, <1>5 DEF Release, Looking, ItemIs
  <2>2. LimiterTyped' /\ QueueSound'
    BY <1>1, <2>1 DEF LimiterInv, LimiterTyped, QueueSound, Looking
  <2>3. ASSUME ~settings, NEW x \in Asleep' PROVE Enough(items', waiters', x, limit' - inFlight')
    <3>1. x \in Items /\ x # i /\ x \in Asleep
      BY <2>1, <2>3 DEF Asleep, ItemIs
    <3>2. Enough(items, waiters, x, limit - inFlight)
      BY <2>3, <3>1 DEF LimiterInv, HelpIsEnough
    <3>3. ~Helps(items, waiters, x, i) /\ Helps(items', waiters', x, i)
      BY <2>1 DEF Helps, LimiterInv, QueueSound, Looking, LimiterTyped
    <3>4. \A j \in Items : Helps(items, waiters, x, j) => Helps(items', waiters', x, j)
      BY <2>1, <3>3 DEF Helps
    <3>5. limit' - inFlight' \in {limit - inFlight, (limit - inFlight) + 1}
      BY <1>1, <2>1
    <3> QED
      BY <1>1, <3>2, <3>3, <3>4, <3>5, HelpKept, HelpFreesPlace
  <2> QED
    BY <2>1, <2>2, <2>3 DEF LimiterInv, HelpIsEnough
<1> QED
  BY <1>3, <1>4, <1>5

\* A change of the limit wakes everybody in the end.
LEMMA SettingStep ==
    ASSUME LimiterInv, NotifyLimit \/ \E n \in 1..MaxLimit : SetLimit(n)
    PROVE  LimiterInv'
<1>1. CASE NotifyLimit
  <2>1. /\ \A i \in Items : /\ items'[i].phase = items[i].phase
                          /\ items'[i].woken = IF i \in ToSet(waiters) THEN "All" ELSE items[i].woken
        /\ items' \in [Items -> ItemRecords] /\ waiters' = <<>> /\ UNCHANGED <<limit, inFlight, kept>>
    BY <1>1 DEF NotifyLimit, LimiterInv, LimiterTyped, ItemRecords
  <2>2. ToSet(waiters') = {} /\ Unrepeated(waiters') /\ waiters' \in Seq(Items)
    BY <2>1 DEF ToSet, Unrepeated
  <2>3. LimiterTyped' /\ QueueSound'
    BY <2>1, <2>2 DEF LimiterInv, LimiterTyped, QueueSound, Looking
  <2>4. Asleep' = {}
    BY <2>2, <2>3 DEF QueueSound, Asleep, ItemIs, Looking
  <2> QED
    BY <2>3, <2>4 DEF LimiterInv, HelpIsEnough
<1>2. ASSUME NEW n \in 1..MaxLimit, SetLimit(n) PROVE LimiterInv'
  BY <1>2 DEF SetLimit, LimiterInv, LimiterTyped, QueueSound, HelpIsEnough
<1> QED
  BY <1>1, <1>2

\* Who sleeps has help enough, always.
LEMMA LimiterInvariance == LimiterSpec => []LimiterInv
<1>1. LimiterInit => LimiterInv
  <2> SUFFICES ASSUME LimiterInit PROVE LimiterInv
    OBVIOUS
  <2>1. ToSet(waiters) = {} /\ Unrepeated(waiters) /\ waiters \in Seq(Items)
    BY DEF LimiterInit, ToSet, Unrepeated
  <2> QED
    BY <2>1, LimiterAssumption DEF LimiterInit, LimiterInv, LimiterTyped, QueueSound, HelpIsEnough, Asleep, ItemIs,
         ItemRecords, Looking
<1>2. LimiterInv /\ [LimiterNext]_limiterVars => LimiterInv'
  <2> SUFFICES ASSUME LimiterInv, [LimiterNext]_limiterVars PROVE LimiterInv'
    OBVIOUS
  <2>1. ASSUME NEW i \in Items, BeginItem(i) \/ CancelItem(i) PROVE LimiterInv'
    BY <2>1, DropStep DEF BeginItem, CancelItem, ItemIs
  <2>2. ASSUME NEW i \in Items, NotifyReleased(i) PROVE LimiterInv'
    BY <2>2, NotifyStep DEF NotifyReleased, ItemIs
  <2>3. CASE UNCHANGED limiterVars
    BY <2>3 DEF limiterVars, LimiterInv, LimiterTyped, QueueSound, HelpIsEnough, Asleep, ItemIs
  <2> QED
    BY <2>1, <2>2, <2>3, RegisterStep, MoveStep, SettingStep DEF LimiterNext
<1> QED
  BY <1>1, <1>2, PTL DEF LimiterSpec

\* No wake-up is lost, for any number of items and limits and however releases,
\* cancellations and changes of the limit fall between a look and the sleep: the
\* places that are free while an item sleeps are those its helpers will take or
\* announce.
THEOREM WakeUpsAreNotLost == LimiterSpec => []NoLostWakeup
<1>1. LimiterInv => NoLostWakeup
  <2> SUFFICES ASSUME LimiterInv, NEW x \in Asleep, ~settings, ~(inFlight >= limit)
               PROVE  limit - inFlight <= Cardinality(Stirring)
    BY DEF NoLostWakeup
  <2>1. Helpers(items, waiters, x) \subseteq Stirring
    BY DEF Helpers, Helps, Stirring, LimiterInv, QueueSound, Looking
  <2>2. IsFiniteSet(Stirring) /\ Cardinality(Stirring) \in Nat
    <3>1. Stirring \subseteq Items
      BY DEF Stirring
    <3> QED
      BY <3>1, LimiterAssumption, FS_Subset, FS_CardinalityType
  <2>3. Cardinality(Helpers(items, waiters, x)) <= Cardinality(Stirring)
    BY <2>1, <2>2, FS_Subset
  <2>4. limit - inFlight <= Cardinality(Helpers(items, waiters, x))
    BY DEF LimiterInv, LimiterTyped, HelpIsEnough, Enough
  <2> QED
    BY <2>2, <2>3, <2>4, HelpersFinite DEF LimiterInv, LimiterTyped
<1> QED
  BY <1>1, LimiterInvariance, PTL
=============================================================================
