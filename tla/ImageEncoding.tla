---------------------------- MODULE ImageEncoding ----------------------------
(***************************************************************************)
(* ImageProcessor of jellyfin-drawing/src/lib.rs.  A derived image is made *)
(* once: requests for the same cache path queue on a mutex of that path,   *)
(* found in a registry of weak references, and look into the cache again   *)
(* when they have it; the encodes at a time are bounded by a semaphore.    *)
(* An encode runs on a blocking thread and is not cancelled with its       *)
(* request.                                                                *)
(*                                                                         *)
(* A weak reference is the lock it was made for: it is alive while a       *)
(* request uses the lock.  The pixels are left out.                        *)
(***************************************************************************)
EXTENDS Naturals, FiniteSets

CONSTANTS Paths,          \* cache paths
          ImageRequests,  \* bound: calls of process at a time
          PathLocks,      \* bound: the mutexes that exist at a time
          NoLock,         \* no lock, no path
          MaxEncodes      \* permits of encoding_limit

ASSUME ImageAssumption ==
    /\ NoLock \notin Paths \cup PathLocks
    /\ MaxEncodes \in Nat \ {0}

VARIABLES registryLocks,  \* encoding_locks: the weak reference of each path
          images,         \* each request: its phase, its path, the lock it uses
          cached          \* the cache paths that exist

imageVars == <<registryLocks, images, cached>>

ImagePhases == {"None", "Missing", "Queued", "Locked", "Ready", "Encoding", "Leaving", "Fading"}

\* The phases in which the mutex is held.
HoldsMutex == {"Locked", "Ready", "Encoding"}

NoImage == [phase |-> "None", path |-> NoLock, lock |-> NoLock]

\* The registry and the requests are well-formed.
ImageTypeOK ==
    /\ registryLocks \in [Paths -> PathLocks \cup {NoLock}]
    /\ images \in [ImageRequests ->
           [phase : ImagePhases, path : Paths \cup {NoLock}, lock : PathLocks \cup {NoLock}]]
    /\ cached \subseteq Paths

ImageInit ==
    /\ registryLocks = [p \in Paths |-> NoLock]
    /\ images = [r \in ImageRequests |-> NoImage]
    /\ cached \in SUBSET Paths

ImageIs(r, phase) == images[r].phase = phase

ImageGoes(r, phase) == images' = [images EXCEPT ![r].phase = phase]

\* Arc::strong_count of l, the requests that have a reference to it.
LockUsers(l) == {r \in ImageRequests : images[r].lock = l}

\* The allocation of a lock is not used again while a weak reference points at it.
Unused(l) == LockUsers(l) = {} /\ \A p \in Paths : registryLocks[p] # l

-----------------------------------------------------------------------------

\* process finds no cached image.
AskImage(r, p) ==
    /\ ImageIs(r, "None")
    /\ p \notin cached
    /\ images' = [images EXCEPT ![r] = [NoImage EXCEPT !.phase = "Missing", !.path = p]]
    /\ UNCHANGED <<registryLocks, cached>>

\* encoding_lock: the mutex of the path if it is still in use, else a new one.
EnterPath(r) ==
    LET p == images[r].path
        current == registryLocks[p]
        locks == IF current # NoLock /\ LockUsers(current) # {}
                 THEN {current} ELSE {l \in PathLocks : Unused(l)}
    IN  /\ ImageIs(r, "Missing")
        /\ \E l \in locks :
              /\ registryLocks' = [registryLocks EXCEPT ![p] = l]
              /\ images' = [images EXCEPT ![r].phase = "Queued", ![r].lock = l]
        /\ UNCHANGED cached

LockPath(r) ==
    /\ ImageIs(r, "Queued")
    /\ \A u \in LockUsers(images[r].lock) : images[u].phase \notin HoldsMutex
    /\ ImageGoes(r, "Locked")
    /\ UNCHANGED <<registryLocks, cached>>

\* Mutant of Recheck: the cache is not looked into again.
RecheckNothing(r) ==
    /\ ImageIs(r, "Locked")
    /\ ImageGoes(r, "Ready")
    /\ UNCHANGED <<registryLocks, cached>>

\* Whoever was first may have made the image meanwhile.
Recheck(r) ==
    /\ ImageIs(r, "Locked")
    /\ ImageGoes(r, IF images[r].path \in cached THEN "Leaving" ELSE "Ready")
    /\ UNCHANGED <<registryLocks, cached>>

\* Mutant of Encode: a permit is taken by those who wait for one, too.
EncodeCountsWaiting(r) ==
    /\ ImageIs(r, "Ready")
    /\ Cardinality({u \in ImageRequests : images[u].phase \in {"Ready", "Encoding"}}) < MaxEncodes
    /\ ImageGoes(r, "Encoding")
    /\ UNCHANGED <<registryLocks, cached>>

\* A permit is free: the encode starts, with the mutex and the permit.
Encode(r) ==
    /\ ImageIs(r, "Ready")
    /\ Cardinality({u \in ImageRequests : ImageIs(u, "Encoding")}) < MaxEncodes
    /\ ImageGoes(r, "Encoding")
    /\ UNCHANGED <<registryLocks, cached>>

\* The image is renamed into its place, or the encode fails; the mutex is free.
Encoded(r) ==
    /\ ImageIs(r, "Encoding")
    /\ cached' \in {cached, cached \cup {images[r].path}}
    /\ ImageGoes(r, "Leaving")
    /\ UNCHANGED registryLocks

\* The request is dropped where it waits: what it holds it gives back.
CancelImage(r) ==
    /\ images[r].phase \in {"Missing", "Queued", "Locked", "Ready"}
    /\ IF ImageIs(r, "Missing") THEN images' = [images EXCEPT ![r] = NoImage]
                                ELSE ImageGoes(r, "Leaving")
    /\ UNCHANGED <<registryLocks, cached>>

\* Mutant of DropEntry: the count of the users is not looked at.
DropEntryAlways(r) ==
    LET p == images[r].path
    IN  /\ ImageIs(r, "Leaving")
        /\ registryLocks' = IF registryLocks[p] = images[r].lock
                            THEN [registryLocks EXCEPT ![p] = NoLock] ELSE registryLocks
        /\ ImageGoes(r, "Fading")
        /\ UNCHANGED cached

\* EncodingLockEntry::drop: the last user takes the lock out of the registry.
DropEntry(r) ==
    LET p == images[r].path
    IN  /\ ImageIs(r, "Leaving")
        /\ registryLocks' = IF registryLocks[p] = images[r].lock /\ LockUsers(images[r].lock) = {r}
                            THEN [registryLocks EXCEPT ![p] = NoLock] ELSE registryLocks
        /\ ImageGoes(r, "Fading")
        /\ UNCHANGED cached

\* Only after drop is the reference itself given up.
Fade(r) ==
    /\ ImageIs(r, "Fading")
    /\ images' = [images EXCEPT ![r] = NoImage]
    /\ UNCHANGED <<registryLocks, cached>>

\* Somebody deletes the cached image.
ClearCached(p) ==
    /\ p \in cached
    /\ cached' = cached \ {p}
    /\ UNCHANGED <<registryLocks, images>>

ImageNext ==
    \/ \E r \in ImageRequests :
          \/ \E p \in Paths : AskImage(r, p)
          \/ EnterPath(r) \/ LockPath(r) \/ Recheck(r) \/ Encode(r) \/ Encoded(r)
          \/ CancelImage(r) \/ DropEntry(r) \/ Fade(r)
    \/ \E p \in Paths : ClearCached(p)

ImageSpec == ImageInit /\ [][ImageNext]_imageVars

-----------------------------------------------------------------------------
(* Properties *)

\* The path whose mutex each request has.
pathBar == [r \in ImageRequests |->
               IF images[r].phase \in HoldsMutex THEN images[r].path ELSE NoLock]

PathMutex == INSTANCE KeyedMutex WITH
    Contexts <- ImageRequests, Keys <- Paths, NoKey <- NoLock, held <- pathBar, closed <- FALSE

\* The mutexes come and go with the weak references, and yet there is one per path:
\* nobody encodes or looks into the cache under another mutex of the same path.
OneEncodePerPath == PathMutex!Spec

\* An image that another request has made is not made again: whoever encodes, or
\* waits for a permit to, does so for an image that is missing.
NoSecondEncode == \A r \in ImageRequests :
    images[r].phase \in {"Ready", "Encoding"} => images[r].path \notin cached

\* Encodes end, and the mutex and the semaphore serve those who wait in turn.
ImageFairness ==
    \A r \in ImageRequests :
        /\ WF_imageVars(EnterPath(r) \/ Recheck(r) \/ Encoded(r) \/ DropEntry(r) \/ Fade(r))
        /\ SF_imageVars(LockPath(r) \/ Encode(r))

\* Every request for an image is through some time: nobody keeps a mutex while it
\* waits for a permit that another waits with in front of that mutex.
RequestsAreServed == \A r \in ImageRequests : ~ImageIs(r, "None") ~> ImageIs(r, "None")
=============================================================================
