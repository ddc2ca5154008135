------------------------------ MODULE StrmProbes ------------------------------
(***************************************************************************)
(* The probes of .strm targets before playback: StrmProbeCoordinator and   *)
(* hydrate_strm_media_streams of jellyfin-controller/src/library_scan.rs.  *)
(* Requests for one target share a flight, whose streams are probed and    *)
(* then persisted once; a failed probe is not repeated for a while.  The   *)
(* coordinator remembers a bounded number of targets and only has weak     *)
(* references to the flights: beyond the bound a flight is not shared.     *)
(*                                                                         *)
(* A key is an item and its target.  Time is left out: a failure may be    *)
(* forgotten whenever the coordinator is asked.  What is probed is left    *)
(* out but for its success.                                                *)
(***************************************************************************)
EXTENDS Naturals, FiniteSets

CONSTANTS ProbeKeys,
          ProbeRequests,  \* bound: calls at a time
          Flights,        \* bound: flights that exist at a time
          NoFlight,       \* no flight, no key
          Failed,         \* an entry in backoff
          MaxEntries      \* max_entries

ASSUME ProbeAssumption ==
    /\ {NoFlight, Failed} \cap (Flights \cup ProbeKeys) = {}
    /\ NoFlight # Failed
    /\ MaxEntries \in Nat

VARIABLES entries,  \* of each key: nothing, a flight or a failure
          flights,  \* the two cells of each flight
          probes    \* each request: phase, key, flight, tracked

probeVars == <<entries, flights, probes>>

NoProbe == [phase |-> "None", key |-> NoFlight, flight |-> NoFlight, tracked |-> FALSE]
NewFlight == [streams |-> "Unset", persisted |-> FALSE]

ProbesInit ==
    /\ entries = [k \in ProbeKeys |-> NoFlight]
    /\ flights = [f \in Flights |-> NewFlight]
    /\ probes = [q \in ProbeRequests |-> NoProbe]

ProbeIs(q, phase) == probes[q].phase = phase

ProbeGoes(q, phase) == probes' = [probes EXCEPT ![q].phase = phase]

\* Strong references to f.
Shares(f) == {q \in ProbeRequests : probes[q].flight = f}

\* The requests in front of or inside a cell of the flight of q.
Inside(q, phase) == \E u \in Shares(probes[q].flight) : ProbeIs(u, phase)

-----------------------------------------------------------------------------

\* hydrate reads that the streams of the item are still placeholders; they may have
\* been persisted when it goes on.
AskStreams(q, k) ==
    /\ ProbeIs(q, "None")
    /\ probes' = [probes EXCEPT ![q].phase = "Asked", ![q].key = k]
    /\ UNCHANGED <<entries, flights>>

Failures == {k \in ProbeKeys : entries[k] = Failed}

\* The entries of flights that are alive.
Tracked == {k \in ProbeKeys : entries[k] \in Flights /\ Shares(entries[k]) # {}}

Without(forgotten) == [k \in ProbeKeys |-> IF k \in Tracked \cup (Failures \ forgotten)
                                           THEN entries[k] ELSE NoFlight]

Lease(q, f, tracked) ==
    probes' = [probes EXCEPT ![q].phase = "Waiting", ![q].flight = f, ![q].tracked = tracked]

\* acquire forgets the flights nobody has and the failures that are over.  A known
\* key is backed off or shares its flight ...
AcquireKnown(q, forgotten) ==
    LET k == probes[q].key
    IN  /\ ProbeIs(q, "Asked")
        /\ \/ k \in Failures \ forgotten /\ probes' = [probes EXCEPT ![q] = NoProbe]
           \/ k \in Tracked /\ Lease(q, entries[k], TRUE)
        /\ entries' = Without(forgotten)
        /\ UNCHANGED flights

\* ... a new one gets a flight, tracked if there is room; failures make room.
AcquireNew(q, f, forgotten) ==
    LET k == probes[q].key
        full == Cardinality(Tracked \cup (Failures \ forgotten)) >= MaxEntries
    IN  /\ ProbeIs(q, "Asked")
        /\ k \notin Tracked \cup (Failures \ forgotten)
        /\ full => Failures \subseteq forgotten
        /\ Shares(f) = {} /\ \A j \in ProbeKeys : Without(forgotten)[j] # f
        /\ flights' = [flights EXCEPT ![f] = NewFlight]
        /\ entries' = IF full THEN Without(forgotten) ELSE [Without(forgotten) EXCEPT ![k] = f]
        /\ Lease(q, f, ~full)

\* Between the two looks at an entry its flight may lose the last request: then the
\* caller gets a flight of its own, and the entry stays.
AcquireGone(q, f, forgotten) ==
    LET k == probes[q].key
        kept == [Without(forgotten) EXCEPT ![k] = entries[k]]
    IN  /\ ProbeIs(q, "Asked")
        /\ entries[k] \in Flights /\ Shares(entries[k]) = {}
        /\ Shares(f) = {} /\ \A j \in ProbeKeys : kept[j] # f
        /\ flights' = [flights EXCEPT ![f] = NewFlight]
        /\ entries' = kept
        /\ Lease(q, f, FALSE)

\* get_or_init: one probes, the others wait until the cell is set or it is empty again.
BeginProbe(q) ==
    /\ ProbeIs(q, "Waiting")
    /\ flights[probes[q].flight].streams = "Unset"
    /\ ~Inside(q, "Probing")
    /\ ProbeGoes(q, "Probing")
    /\ UNCHANGED <<entries, flights>>

EndProbe(q) ==
    /\ ProbeIs(q, "Probing")
    /\ \E streams \in {"Found", "Missing"} :
          flights' = [flights EXCEPT ![probes[q].flight].streams = streams]
    /\ ProbeGoes(q, "Waiting")
    /\ UNCHANGED entries

\* get_or_try_init of the second cell: one persists, an error leaves the cell empty
\* and the entry as it is.
Persist(q) ==
    /\ ProbeIs(q, "Waiting")
    /\ flights[probes[q].flight].streams = "Found"
    /\ ~flights[probes[q].flight].persisted
    /\ ~Inside(q, "Persisting")
    /\ ProbeGoes(q, "Persisting")
    /\ UNCHANGED <<entries, flights>>

EndPersist(q) ==
    /\ ProbeIs(q, "Persisting")
    /\ \/ /\ flights' = [flights EXCEPT ![probes[q].flight].persisted = TRUE]
          /\ ProbeGoes(q, "Waiting")
       \/ /\ probes' = [probes EXCEPT ![q] = NoProbe]
          /\ UNCHANGED flights
    /\ UNCHANGED entries

\* Mutant of Mine: whatever the entry is, it is taken for that of the caller.
MineAlways(q) == probes[q].tracked

\* same_flight: the entry is still the one of the caller's flight.
Mine(q) == probes[q].tracked /\ entries[probes[q].key] = probes[q].flight

\* finish: the entry is removed, or becomes a failure.
FinishProbe(q) ==
    LET flight == flights[probes[q].flight]
    IN  /\ ProbeIs(q, "Waiting")
        /\ flight.streams = "Missing" \/ flight.persisted
        /\ entries' = IF ~Mine(q) THEN entries
                      ELSE [entries EXCEPT ![probes[q].key] =
                               IF flight.streams = "Missing" THEN Failed ELSE NoFlight]
        /\ probes' = [probes EXCEPT ![q] = NoProbe]
        /\ UNCHANGED flights

\* The client goes away.
CancelProbe(q) ==
    /\ ~ProbeIs(q, "None")
    /\ probes' = [probes EXCEPT ![q] = NoProbe]
    /\ UNCHANGED <<entries, flights>>

ProbesNext ==
    \E q \in ProbeRequests :
        \/ \E k \in ProbeKeys : AskStreams(q, k)
        \/ \E forgotten \in SUBSET Failures :
              \/ AcquireKnown(q, forgotten)
              \/ \E f \in Flights : AcquireNew(q, f, forgotten) \/ AcquireGone(q, f, forgotten)
        \/ BeginProbe(q) \/ EndProbe(q) \/ Persist(q) \/ EndPersist(q)
        \/ FinishProbe(q) \/ CancelProbe(q)

ProbesSpec == ProbesInit /\ [][ProbesNext]_probeVars

-----------------------------------------------------------------------------
(* Properties *)

\* "Concurrent requests for the same item and resolved target share one probe": of the
\* requests whose flight the coordinator knows no two open one target at a time, nor
\* any while its last failure is remembered, whatever finishes, fails or is dropped.
OneProbePerKey ==
    \A q \in ProbeRequests : ProbeIs(q, "Probing") /\ probes[q].tracked =>
        /\ entries[probes[q].key] # Failed
        /\ \A u \in ProbeRequests \ {q} :
              ProbeIs(u, "Probing") /\ probes[u].tracked => probes[u].key # probes[q].key
=============================================================================
