----------------------------- MODULE MediaProofs -----------------------------
(***************************************************************************)
(* ImageEncoding has one mutex per cache path, for any number of paths,    *)
(* requests and permits, although its locks come and go.  The reason is    *)
(* that whoever queues on a lock, has it or has yet to drop it finds this  *)
(* lock in the registry: its entry goes with the last user only.           *)
(*                                                                         *)
(* An entry of the transcode registry always has a task that will remove   *)
(* it, whoever replaces, stops or restarts the job.                        *)
(***************************************************************************)
EXTENDS ImageEncoding, TranscodeJobs, TLAPS

-----------------------------------------------------------------------------
(* Encodings of images *)

\* The phases in which the registry still has the lock of the request.
Entered == HoldsMutex \cup {"Queued", "Leaving"}

ImageRecords == [phase : ImagePhases, path : Paths \cup {NoLock}, lock : PathLocks \cup {NoLock}]

ImageTyped ==
    /\ ImageTypeOK
    /\ \A r \in ImageRequests :
          /\ ImageIs(r, "None") <=> images[r].path = NoLock
          /\ images[r].phase \in {"None", "Missing"} <=> images[r].lock = NoLock

EntryStays ==
    \A r \in ImageRequests :
        images[r].phase \in Entered => registryLocks[images[r].path] = images[r].lock

\* A lock is the lock of one path, for the registry and for who uses it.
LocksApart ==
    /\ \A p, q \in Paths :
          registryLocks[p] # NoLock /\ registryLocks[p] = registryLocks[q] => p = q
    /\ \A r \in ImageRequests, p \in Paths :
          images[r].lock # NoLock /\ registryLocks[p] = images[r].lock => images[r].path = p

OneHolder ==
    \A r, u \in ImageRequests :
        /\ images[r].phase \in HoldsMutex /\ images[u].phase \in HoldsMutex
        /\ images[r].lock = images[u].lock
        => r = u

ImageInv == ImageTyped /\ EntryStays /\ LocksApart /\ OneHolder /\ NoSecondEncode

\* Requests for one path that have its mutex are one request.
LEMMA OneHolderOfPath ==
    ASSUME ImageInv
    PROVE  \A r, u \in ImageRequests :
               /\ images[r].phase \in HoldsMutex /\ images[u].phase \in HoldsMutex
               /\ images[r].path = images[u].path
               => r = u
BY DEF ImageInv, EntryStays, OneHolder, Entered

-----------------------------------------------------------------------------
(* The invariant is inductive *)

\* Nothing is registered and nobody asks at the start.
LEMMA ImageInitInv == ImageInit => ImageInv
BY ImageAssumption
   DEF ImageInit, ImageInv, ImageTyped, ImageTypeOK, EntryStays, LocksApart, OneHolder, NoSecondEncode,
       Entered, HoldsMutex, ImagePhases, NoImage, ImageIs

\* A request that has no lock before or after, or gives up a lock that the registry
\* does not count on, disturbs nobody.
LEMMA OutsideStep ==
    ASSUME ImageInv, NEW r \in ImageRequests, UNCHANGED <<registryLocks, cached>>,
           images[r].phase \notin Entered,
           NEW image \in {NoImage} \cup {[NoImage EXCEPT !.phase = "Missing", !.path = p] : p \in Paths},
           images' = [images EXCEPT ![r] = image]
    PROVE  ImageInv'
<1>1. /\ images'[r].phase \in {"None", "Missing"} /\ images'[r].lock = NoLock
      /\ images'[r].path \in Paths \cup {NoLock}
      /\ images'[r].phase = "None" <=> images'[r].path = NoLock
      /\ images' \in [ImageRequests -> ImageRecords]
  <2>1. images'[r] = image /\ images \in [ImageRequests -> ImageRecords]
    BY DEF ImageInv, ImageTyped, ImageTypeOK, ImageRecords
  <2>2. CASE image = NoImage
    BY <2>1, <2>2 DEF NoImage, ImageRecords, ImagePhases
  <2>3. ASSUME NEW p \in Paths, image = [NoImage EXCEPT !.phase = "Missing", !.path = p]
        PROVE  image = [phase |-> "Missing", path |-> p, lock |-> NoLock]
    BY <2>3 DEF NoImage
  <2>4. ASSUME NEW p \in Paths, image = [phase |-> "Missing", path |-> p, lock |-> NoLock]
        PROVE  /\ images'[r].phase \in {"None", "Missing"} /\ images'[r].lock = NoLock
               /\ images'[r].path \in Paths \cup {NoLock}
               /\ images'[r].phase = "None" <=> images'[r].path = NoLock
               /\ images' \in [ImageRequests -> ImageRecords]
    BY <2>1, <2>4, ImageAssumption DEF ImageRecords, ImagePhases
  <2> QED
    BY <2>2, <2>3, <2>4
<1>2. \A u \in ImageRequests \ {r} : images'[u] = images[u]
  BY DEF ImageInv, ImageTyped, ImageTypeOK
<1>3. ImageTyped'
  BY <1>1, <1>2 DEF ImageInv, ImageTyped, ImageTypeOK, ImageIs, ImageRecords
<1>4. EntryStays' /\ OneHolder'
  BY <1>1, <1>2 DEF ImageInv, EntryStays, OneHolder, Entered, HoldsMutex
<1>5. NoSecondEncode'
  BY <1>1, <1>2 DEF ImageInv, NoSecondEncode
<1>6. LocksApart'
  BY <1>1, <1>2 DEF ImageInv, LocksApart
<1> QED
  BY <1>3, <1>4, <1>5, <1>6 DEF ImageInv

\* A request goes from one phase to another under the same lock.
LEMMA PhaseStep ==
    ASSUME ImageInv, NEW r \in ImageRequests, NEW phase, UNCHANGED <<registryLocks, cached>>,
           ImageGoes(r, phase), images[r].phase \in Entered, phase \in Entered,
           phase \in HoldsMutex /\ images[r].phase \notin HoldsMutex =>
               \A u \in LockUsers(images[r].lock) : images[u].phase \notin HoldsMutex,
           phase \in {"Ready", "Encoding"} => images[r].path \notin cached
    PROVE  ImageInv'
<1> USE DEF ImageInv, ImageGoes, Entered, HoldsMutex
<1>1. images' = [images EXCEPT ![r].phase = phase] /\ images \in [ImageRequests ->
           [phase : ImagePhases, path : Paths \cup {NoLock}, lock : PathLocks \cup {NoLock}]]
  BY DEF ImageTyped, ImageTypeOK
<1>2. ImageTyped'
  BY <1>1, ImageAssumption DEF ImageTyped, ImageTypeOK, ImagePhases, ImageIs
<1>3. EntryStays' /\ LocksApart'
  BY <1>1 DEF EntryStays, LocksApart
<1>4. OneHolder'
  BY <1>1 DEF OneHolder, LockUsers
<1>5. NoSecondEncode'
  BY <1>1 DEF NoSecondEncode
<1> QED
  BY <1>2, <1>3, <1>4, <1>5

\* The lock of a path is that of its registry, or a new one that nobody knows.
LEMMA EnterStep ==
    ASSUME ImageInv, NEW r \in ImageRequests, EnterPath(r)
    PROVE  ImageInv'
<1> DEFINE p == images[r].path
           current == registryLocks[p]
<1>1. /\ ImageIs(r, "Missing") /\ images[r].lock = NoLock /\ p \in Paths
      /\ UNCHANGED cached
  BY ImageAssumption DEF ImageInv, ImageTyped, ImageTypeOK, EnterPath, ImageIs
<1>2. PICK l \in PathLocks :
          /\ registryLocks' = [registryLocks EXCEPT ![p] = l]
          /\ images' = [images EXCEPT ![r].phase = "Queued", ![r].lock = l]
          /\ \/ l = current /\ LockUsers(current) # {}
             \/ Unused(l) /\ (current = NoLock \/ LockUsers(current) = {})
  <2>1. CASE current # NoLock /\ LockUsers(current) # {}
    <3>1. current \in PathLocks
      BY <2>1, <1>1 DEF ImageInv, ImageTyped, ImageTypeOK
    <3> QED
      BY <2>1, <3>1 DEF EnterPath
  <2>2. CASE ~(current # NoLock /\ LockUsers(current) # {})
    BY <2>2 DEF EnterPath
  <2> QED
    BY <2>1, <2>2
<1>3. l # NoLock /\ images'[r] = [phase |-> "Queued", path |-> p, lock |-> l]
  BY <1>1, <1>2, ImageAssumption DEF ImageInv, ImageTyped, ImageTypeOK
<1>4. \A u \in ImageRequests \ {r} : images'[u] = images[u]
  BY <1>2 DEF ImageInv, ImageTyped, ImageTypeOK
<1>5. registryLocks'[p] = l /\ \A q \in Paths \ {p} : registryLocks'[q] = registryLocks[q] /\ registryLocks[q] # l
  <2>1. registryLocks'[p] = l /\ \A q \in Paths \ {p} : registryLocks'[q] = registryLocks[q]
    BY <1>1, <1>2 DEF ImageInv, ImageTyped, ImageTypeOK
  <2>2. \A q \in Paths \ {p} : registryLocks[q] # l
    BY <1>1, <1>2, <1>3 DEF ImageInv, LocksApart, Unused
  <2> QED
    BY <2>1, <2>2
<1>6. ImageTyped'
  <2>1. \A u \in ImageRequests : images'[u] \in ImageRecords
    BY <1>1, <1>3, <1>4 DEF ImageInv, ImageTyped, ImageTypeOK, ImageRecords, ImagePhases
  <2>2. images' \in [ImageRequests -> ImageRecords]
    BY <2>1, <1>2 DEF ImageInv, ImageTyped, ImageTypeOK
  <2>3. ImageTypeOK'
    BY <2>2, <1>1, <1>2 DEF ImageInv, ImageTyped, ImageTypeOK, ImageRecords
  <2> QED
    BY <2>3, <1>1, <1>3, <1>4, ImageAssumption DEF ImageInv, ImageTyped, ImageIs
<1>7. ASSUME NEW u \in ImageRequests, images[u].phase \in Entered, images[u].path = p
      PROVE  images[u].lock = l
  <2>1. images[u].lock = current /\ current # NoLock /\ u \in LockUsers(current)
    BY <1>7 DEF ImageInv, ImageTyped, EntryStays, LockUsers, Entered, HoldsMutex, ImageIs
  <2> QED
    BY <2>1, <1>2
<1>8. EntryStays'
  <2> SUFFICES ASSUME NEW u \in ImageRequests, images'[u].phase \in Entered
               PROVE  registryLocks'[images'[u].path] = images'[u].lock
    BY DEF EntryStays
  <2>1. CASE u = r
    BY <2>1, <1>3, <1>5
  <2>2. CASE u # r
    <3>1. images'[u] = images[u] /\ images[u].path \in Paths
      BY <2>2, <1>4 DEF ImageInv, ImageTyped, ImageTypeOK, Entered, HoldsMutex, ImageIs
    <3>2. registryLocks[images[u].path] = images[u].lock
      BY <3>1 DEF ImageInv, EntryStays
    <3> QED
      BY <3>1, <3>2, <1>5, <1>7
  <2> QED
    BY <2>1, <2>2
<1>9. LocksApart'
  <2>1. \A a, b \in Paths : registryLocks'[a] # NoLock /\ registryLocks'[a] = registryLocks'[b] => a = b
    BY <1>5 DEF ImageInv, LocksApart
  <2>2. ASSUME NEW u \in ImageRequests, NEW q \in Paths,
               images'[u].lock # NoLock, registryLocks'[q] = images'[u].lock
        PROVE  images'[u].path = q
    <3>1. CASE u = r
      BY <3>1, <1>3, <1>5, <2>2
    <3>2. CASE u # r /\ q # p
      BY <3>2, <2>2, <1>4, <1>5 DEF ImageInv, LocksApart
    <3>3. CASE u # r /\ q = p
      <4>1. images[u].lock = l /\ u \in LockUsers(l) /\ images'[u] = images[u]
        BY <3>3, <2>2, <1>4, <1>5 DEF LockUsers
      <4>2. l = current
        BY <4>1, <1>2 DEF Unused
      <4> QED
        BY <4>1, <4>2, <3>3, <1>1, <1>3 DEF ImageInv, LocksApart
    <3> QED
      BY <3>1, <3>2, <3>3
  <2> QED
    BY <2>1, <2>2 DEF LocksApart
<1>10. OneHolder' /\ NoSecondEncode'
  BY <1>1, <1>3, <1>4 DEF ImageInv, OneHolder, NoSecondEncode, HoldsMutex
<1> QED
  BY <1>6, <1>8, <1>9, <1>10 DEF ImageInv

\* An image is made, or not, by the only one who has the mutex of its path.
LEMMA EncodedStep ==
    ASSUME ImageInv, NEW r \in ImageRequests, Encoded(r)
    PROVE  ImageInv'
<1>1. images[r].phase = "Encoding" /\ UNCHANGED registryLocks
      /\ images' = [images EXCEPT ![r].phase = "Leaving"]
      /\ cached' \in {cached, cached \cup {images[r].path}}
  BY DEF Encoded, ImageIs, ImageGoes
<1>2. images[r].path \in Paths /\ images \in [ImageRequests -> ImageRecords]
  BY <1>1 DEF ImageInv, ImageTyped, ImageTypeOK, ImageRecords, ImageIs
<1>3. ImageTyped'
  <2>1. images' \in [ImageRequests -> ImageRecords]
    BY <1>1, <1>2 DEF ImageRecords, ImagePhases
  <2>2. ImageTypeOK'
    BY <2>1, <1>1, <1>2 DEF ImageInv, ImageTyped, ImageTypeOK, ImageRecords
  <2> QED
    BY <2>2, <1>1, <1>2 DEF ImageInv, ImageTyped, ImageIs
<1>4. EntryStays' /\ OneHolder'
  BY <1>1, <1>2 DEF ImageInv, EntryStays, OneHolder, Entered, HoldsMutex
<1>5. LocksApart'
  BY <1>1, <1>2 DEF ImageInv, LocksApart
<1>6. NoSecondEncode'
  <2> SUFFICES ASSUME NEW u \in ImageRequests, images'[u].phase \in {"Ready", "Encoding"}
               PROVE  images'[u].path \notin cached'
    BY DEF NoSecondEncode
  <2>1. u # r /\ images'[u] = images[u]
    BY <1>1, <1>2
  <2>2. images[u].path # images[r].path
    BY <2>1, <1>1, OneHolderOfPath DEF HoldsMutex
  <2> QED
    BY <2>1, <2>2, <1>1 DEF ImageInv, NoSecondEncode
<1> QED
  BY <1>3, <1>4, <1>5, <1>6 DEF ImageInv

\* The entry goes if nobody else has the lock: none of those who enter it.
LEMMA DropStep ==
    ASSUME ImageInv, NEW r \in ImageRequests, DropEntry(r)
    PROVE  ImageInv'
<1> DEFINE p == images[r].path
           l == images[r].lock
<1>1. /\ images[r].phase = "Leaving" /\ UNCHANGED cached
      /\ images' = [images EXCEPT ![r].phase = "Fading"]
      /\ registryLocks' = IF registryLocks[p] = l /\ LockUsers(l) = {r}
                          THEN [registryLocks EXCEPT ![p] = NoLock] ELSE registryLocks
  BY DEF DropEntry, ImageIs, ImageGoes
<1>2. p \in Paths /\ images \in [ImageRequests -> ImageRecords] /\ registryLocks \in [Paths -> PathLocks \cup {NoLock}]
  BY <1>1 DEF ImageInv, ImageTyped, ImageTypeOK, ImageRecords, ImageIs
<1>3. /\ images'[r].phase = "Fading" /\ images'[r].path = p /\ images'[r].lock = l
      /\ \A u \in ImageRequests \ {r} : images'[u] = images[u]
  BY <1>1, <1>2 DEF ImageRecords
<1>4. \A q \in Paths : registryLocks'[q] \in {NoLock, registryLocks[q]}
  BY <1>1, <1>2
<1>5. ImageTyped'
  <2>1. images' \in [ImageRequests -> ImageRecords]
    BY <1>1, <1>2 DEF ImageRecords, ImagePhases
  <2>2. registryLocks' \in [Paths -> PathLocks \cup {NoLock}]
    BY <1>1, <1>2
  <2>3. ImageTypeOK'
    BY <2>1, <2>2, <1>1 DEF ImageInv, ImageTyped, ImageTypeOK, ImageRecords
  <2> QED
    BY <2>3, <1>1, <1>3 DEF ImageInv, ImageTyped, ImageIs
<1>6. EntryStays'
  <2> SUFFICES ASSUME NEW u \in ImageRequests, images'[u].phase \in Entered
               PROVE  registryLocks'[images'[u].path] = images'[u].lock
    BY DEF EntryStays
  <2>1. u # r /\ images'[u] = images[u] /\ registryLocks[images[u].path] = images[u].lock
    BY <1>3 DEF ImageInv, EntryStays, Entered, HoldsMutex
  <2>2. CASE images[u].path = p /\ registryLocks[p] = l
    BY <2>1, <2>2, <1>1 DEF LockUsers
  <2>3. CASE images[u].path # p \/ registryLocks[p] # l
    BY <2>1, <2>3, <1>1, <1>2
  <2> QED
    BY <2>2, <2>3
<1>7. LocksApart' /\ OneHolder' /\ NoSecondEncode'
  BY <1>1, <1>3, <1>4 DEF ImageInv, LocksApart, OneHolder, NoSecondEncode, HoldsMutex
<1> QED
  BY <1>5, <1>6, <1>7 DEF ImageInv

\* Every step keeps the invariant.
LEMMA ImageNextInv == ImageInv /\ [ImageNext]_imageVars => ImageInv'
<1> SUFFICES ASSUME ImageInv, [ImageNext]_imageVars PROVE ImageInv'
  OBVIOUS
<1>1. ASSUME NEW r \in ImageRequests, NEW p \in Paths, AskImage(r, p) PROVE ImageInv'
  <2>1. images[r].phase = "None"
    BY <1>1 DEF AskImage, ImageIs
  <2>2. images' = [images EXCEPT ![r] = [NoImage EXCEPT !.phase = "Missing", !.path = p]]
        /\ UNCHANGED <<registryLocks, cached>>
    BY <1>1 DEF AskImage
  <2>3. images[r].phase \notin Entered
    BY <2>1 DEF Entered, HoldsMutex
  <2> QED
    BY <2>2, <2>3, OutsideStep
<1>2. ASSUME NEW r \in ImageRequests, EnterPath(r) PROVE ImageInv'
  BY <1>2, EnterStep
<1>3. ASSUME NEW r \in ImageRequests, LockPath(r) PROVE ImageInv'
  BY <1>3, PhaseStep DEF LockPath, ImageIs, Entered, HoldsMutex
<1>4. ASSUME NEW r \in ImageRequests, Recheck(r) PROVE ImageInv'
  BY <1>4, PhaseStep DEF Recheck, ImageIs, Entered, HoldsMutex
<1>5. ASSUME NEW r \in ImageRequests, Encode(r) PROVE ImageInv'
  <2>1. images[r].phase = "Ready" /\ images[r].path \notin cached
    BY <1>5 DEF Encode, ImageIs, ImageInv, NoSecondEncode
  <2> QED
    BY <1>5, <2>1, PhaseStep DEF Encode, Entered, HoldsMutex
<1>6. ASSUME NEW r \in ImageRequests, Encoded(r) PROVE ImageInv'
  BY <1>6, EncodedStep
<1>7. ASSUME NEW r \in ImageRequests, CancelImage(r) PROVE ImageInv'
  <2>1. CASE ImageIs(r, "Missing")
    BY <1>7, <2>1, OutsideStep DEF CancelImage, ImageIs, Entered, HoldsMutex
  <2>2. CASE ~ImageIs(r, "Missing")
    <3>1. images[r].phase \in {"Queued", "Locked", "Ready"} /\ ImageGoes(r, "Leaving")
          /\ UNCHANGED <<registryLocks, cached>>
      BY <1>7, <2>2 DEF CancelImage, ImageIs
    <3> QED
      BY <3>1, PhaseStep DEF Entered, HoldsMutex
  <2> QED
    BY <2>1, <2>2
<1>8. ASSUME NEW r \in ImageRequests, DropEntry(r) PROVE ImageInv'
  BY <1>8, DropStep
<1>9. ASSUME NEW r \in ImageRequests, Fade(r) PROVE ImageInv'
  BY <1>9, OutsideStep DEF Fade, ImageIs, Entered, HoldsMutex
<1>10. ASSUME NEW p \in Paths, ClearCached(p) PROVE ImageInv'
  BY <1>10 DEF ClearCached, ImageInv, ImageTyped, ImageTypeOK, EntryStays, LocksApart, OneHolder,
               NoSecondEncode, ImageIs
<1>11. CASE UNCHANGED imageVars
  BY <1>11 DEF imageVars, ImageInv, ImageTyped, ImageTypeOK, EntryStays, LocksApart, OneHolder,
               NoSecondEncode, ImageIs
<1> QED
  BY <1>1, <1>2, <1>3, <1>4, <1>5, <1>6, <1>7, <1>8, <1>9, <1>10, <1>11 DEF ImageNext

\* The invariant holds in every state.
LEMMA ImageInvariance == ImageSpec => []ImageInv
BY ImageInitInv, ImageNextInv, PTL DEF ImageSpec

\* The registry and the requests stay well-formed.
THEOREM ImagesTyped == ImageSpec => []ImageTypeOK
<1>1. ImageInv => ImageTypeOK
  BY DEF ImageInv, ImageTyped
<1> QED
  BY <1>1, ImageInvariance, PTL

\* No image is made while it is there: who waits for a permit or encodes has found
\* it missing under the mutex under which alone it can appear.
THEOREM NeverASecondEncode == ImageSpec => []NoSecondEncode
<1>1. ImageInv => NoSecondEncode
  BY DEF ImageInv
<1> QED
  BY <1>1, ImageInvariance, PTL

-----------------------------------------------------------------------------
(* One mutex per path *)

\* Requests hold no path at first.
LEMMA ImageInitMaps == ImageInit => PathMutex!Init
BY DEF ImageInit, PathMutex!Init, pathBar, NoImage, HoldsMutex

\* A step that changes no image outside one request, and not what this one holds,
\* is none for the mutexes.
LEMMA KeepsHolding ==
    ASSUME ImageInv, NEW r \in ImageRequests,
           \A u \in ImageRequests \ {r} : images'[u] = images[u],
           \/ images[r].phase \notin HoldsMutex /\ images'[r].phase \notin HoldsMutex
           \/ /\ images[r].phase \in HoldsMutex /\ images'[r].phase \in HoldsMutex
              /\ images'[r].path = images[r].path
    PROVE  pathBar' = pathBar
BY DEF pathBar

\* Only a request that had the mutex can give it up.
LEMMA GivesUp ==
    ASSUME ImageInv, NEW r \in ImageRequests, images[r].phase \in HoldsMutex,
           \A u \in ImageRequests \ {r} : images'[u] = images[u],
           images'[r].phase \notin HoldsMutex
    PROVE  PathMutex!Release(r)
<1>1. images[r].path \in Paths
  BY DEF ImageInv, ImageTyped, ImageTypeOK, ImageIs, HoldsMutex
<1>2. pathBar[r] # NoLock
  BY <1>1, ImageAssumption DEF pathBar
<1>3. pathBar' = [u \in ImageRequests |-> IF u = r THEN NoLock ELSE pathBar[u]]
  BY DEF pathBar
<1>4. pathBar' = [pathBar EXCEPT ![r] = NoLock]
  BY <1>3 DEF pathBar
<1> QED
  BY <1>2, <1>4 DEF PathMutex!Release

\* A request gets the mutex when nobody has it.
LEMMA Acquires ==
    ASSUME ImageInv, NEW r \in ImageRequests, LockPath(r)
    PROVE  PathMutex!Acquire(r, images[r].path) /\ images[r].path \in Paths
<1> DEFINE p == images[r].path
<1>1. /\ images[r].phase = "Queued" /\ p \in Paths
      /\ images' = [images EXCEPT ![r].phase = "Locked"]
      /\ \A u \in LockUsers(images[r].lock) : images[u].phase \notin HoldsMutex
  BY DEF LockPath, ImageIs, ImageGoes, ImageInv, ImageTyped, ImageTypeOK
<1>2. images \in [ImageRequests -> ImageRecords]
  BY DEF ImageInv, ImageTyped, ImageTypeOK, ImageRecords
<1>3. \A u \in ImageRequests : pathBar[u] # p
  <2> SUFFICES ASSUME NEW u \in ImageRequests, images[u].phase \in HoldsMutex, images[u].path = p
               PROVE  FALSE
    BY <1>1, ImageAssumption DEF pathBar
  <2>1. images[u].lock = images[r].lock
    BY <1>1 DEF ImageInv, EntryStays, Entered, HoldsMutex
  <2> QED
    BY <2>1, <1>1 DEF LockUsers
<1>4. pathBar[r] = NoLock
  BY <1>1 DEF pathBar, HoldsMutex
<1>5. pathBar' = [pathBar EXCEPT ![r] = p]
  BY <1>1, <1>2 DEF pathBar, HoldsMutex, ImageRecords
<1> QED
  BY <1>1, <1>3, <1>4, <1>5 DEF PathMutex!Acquire

\* A step of the processor is an acquisition, a release or nothing.
LEMMA ImageNextMaps ==
    ASSUME ImageInv, [ImageNext]_imageVars
    PROVE  [PathMutex!Next]_<<pathBar, FALSE>>
<1> USE DEF HoldsMutex
<1>1. images \in [ImageRequests -> ImageRecords]
  BY DEF ImageInv, ImageTyped, ImageTypeOK, ImageRecords
<1>2. ASSUME NEW r \in ImageRequests, NEW p \in Paths, AskImage(r, p) PROVE pathBar' = pathBar
  BY <1>1, <1>2, KeepsHolding DEF AskImage, ImageIs, NoImage
<1>3. ASSUME NEW r \in ImageRequests, EnterPath(r) PROVE pathBar' = pathBar
  <2>1. PICK l : images' = [images EXCEPT ![r].phase = "Queued", ![r].lock = l]
    BY <1>3 DEF EnterPath
  <2>2. images[r].phase = "Missing" /\ images'[r].phase = "Queued"
    BY <1>1, <1>3, <2>1 DEF EnterPath, ImageIs, ImageRecords
  <2> QED
    BY <1>1, <2>1, <2>2, KeepsHolding
<1>4. ASSUME NEW r \in ImageRequests, LockPath(r) PROVE PathMutex!Next
  BY <1>4, Acquires DEF PathMutex!Next
<1>5. ASSUME NEW r \in ImageRequests, Recheck(r) PROVE PathMutex!Next \/ pathBar' = pathBar
  BY <1>1, <1>5, KeepsHolding, GivesUp DEF Recheck, ImageIs, ImageGoes, ImageRecords, PathMutex!Next
<1>6. ASSUME NEW r \in ImageRequests, Encode(r) PROVE pathBar' = pathBar
  BY <1>1, <1>6, KeepsHolding DEF Encode, ImageIs, ImageGoes, ImageRecords
<1>7. ASSUME NEW r \in ImageRequests, Encoded(r) PROVE PathMutex!Next
  BY <1>1, <1>7, GivesUp DEF Encoded, ImageIs, ImageGoes, ImageRecords, PathMutex!Next
<1>8. ASSUME NEW r \in ImageRequests, CancelImage(r) PROVE PathMutex!Next \/ pathBar' = pathBar
  <2>1. CASE ImageIs(r, "Missing")
    BY <1>1, <1>8, <2>1, KeepsHolding DEF CancelImage, ImageIs, NoImage
  <2>2. CASE ~ImageIs(r, "Missing")
    BY <1>1, <1>8, <2>2, KeepsHolding, GivesUp
       DEF CancelImage, ImageIs, ImageGoes, ImageRecords, PathMutex!Next
  <2> QED
    BY <2>1, <2>2
<1>9. ASSUME NEW r \in ImageRequests, DropEntry(r) PROVE pathBar' = pathBar
  BY <1>1, <1>9, KeepsHolding DEF DropEntry, ImageIs, ImageGoes, ImageRecords
<1>10. ASSUME NEW r \in ImageRequests, Fade(r) PROVE pathBar' = pathBar
  BY <1>1, <1>10, KeepsHolding DEF Fade, ImageIs, NoImage
<1>11. ASSUME NEW p \in Paths, ClearCached(p) PROVE pathBar' = pathBar
  BY <1>11 DEF ClearCached, pathBar
<1>12. CASE UNCHANGED imageVars
  BY <1>12 DEF imageVars, pathBar
<1> QED
  BY <1>2, <1>3, <1>4, <1>5, <1>6, <1>7, <1>8, <1>9, <1>10, <1>11, <1>12 DEF ImageNext

\* The processor implements a mutex per cache path.
THEOREM EncodesOncePerPath == ImageSpec => OneEncodePerPath
<1>1. ImageInv /\ [ImageNext]_imageVars => [PathMutex!Next]_<<pathBar, FALSE>>
  BY ImageNextMaps
<1> QED
  BY <1>1, ImageInitMaps, ImageInvariance, PTL DEF ImageSpec, OneEncodePerPath, PathMutex!Spec

-----------------------------------------------------------------------------
(* The registry of transcode jobs *)

JobRecords == [encoder : Encoders \cup {Nothing}, session : PlaySessions \cup {Nothing}, stale : BOOLEAN]
EncoderRecords == [phase : EncoderPhases, job : Jobs \cup {Nothing},
                   session : PlaySessions \cup {Nothing}, cancel : BOOLEAN]

\* An encoder whose handle may be registered: it has its job and a task that will
\* remove it.
HasTask(at, e, j) ==
    at[e].job = j /\ at[e].phase \in {"Registered", "Spawned", "Running", "Exited"}

TranscodeTyped ==
    /\ jobs \in [Jobs -> JobRecords]
    /\ encoders \in [Encoders -> EncoderRecords]
    /\ \A e \in Encoders : ~EncoderIs(e, "None") => encoders[e].job \in Jobs
    /\ stops \in [Stops -> [todo : SUBSET Jobs, current : Jobs \cup {Nothing}]]

TranscodeInv == TranscodeTyped /\ EntriesHaveTask

\* e goes on and its task, if it had one, still has its job; entries are kept,
\* removed or become those of e.
LEMMA EncoderStep ==
    ASSUME TranscodeInv, NEW e \in Encoders,
           jobs' \in [Jobs -> JobRecords], encoders' \in [Encoders -> EncoderRecords],
           \A d \in Encoders \ {e} : encoders'[d] = encoders[d],
           EncoderIs(e, "None")' \/ encoders'[e].job \in Jobs,
           \A j \in Jobs : jobs'[j].encoder = Nothing
                           \/ (jobs'[j].encoder = e /\ HasTask(encoders', e, j))
                           \/ (jobs'[j].encoder = jobs[j].encoder /\ (HasTask(encoders, e, j) => HasTask(encoders', e, j))),
           UNCHANGED stops
    PROVE  TranscodeInv'
<1>1. TranscodeTyped'
  BY DEF TranscodeInv, TranscodeTyped, EncoderIs
<1>2. EntriesHaveTask'
  <2> SUFFICES ASSUME NEW j \in Jobs, jobs'[j].encoder # Nothing
               PROVE  HasTask(encoders', jobs'[j].encoder, j)
    BY DEF EntriesHaveTask, HasTask
  <2>1. CASE jobs'[j].encoder = e /\ HasTask(encoders', e, j)
    BY <2>1
  <2>2. CASE jobs'[j].encoder = jobs[j].encoder /\ (HasTask(encoders, e, j) => HasTask(encoders', e, j))
    <3>1. HasTask(encoders, jobs[j].encoder, j) /\ jobs[j].encoder \in Encoders
      BY <2>2 DEF TranscodeInv, TranscodeTyped, JobRecords, EntriesHaveTask, HasTask
    <3>2. CASE jobs[j].encoder = e
      BY <2>2, <3>1, <3>2
    <3>3. CASE jobs[j].encoder # e
      BY <2>2, <3>1, <3>3 DEF HasTask
    <3> QED
      BY <3>2, <3>3
  <2> QED
    BY <2>1, <2>2
<1> QED
  BY <1>1, <1>2 DEF TranscodeInv

\* Each step of an encoder, a request or a stop keeps the invariant.
LEMMA TranscodeInvStep == TranscodeInv /\ [TranscodeNext]_transcodeVars => TranscodeInv'
<1> SUFFICES ASSUME TranscodeInv, [TranscodeNext]_transcodeVars PROVE TranscodeInv'
  OBVIOUS
<1>1. /\ jobs \in [Jobs -> JobRecords] /\ encoders \in [Encoders -> EncoderRecords]
      /\ \A e \in Encoders : ~EncoderIs(e, "None") => encoders[e].job \in Jobs
      /\ \A j \in Jobs, e \in Encoders : jobs[j].encoder = e => HasTask(encoders, e, j)
  BY TranscodeAssumption DEF TranscodeInv, TranscodeTyped, EntriesHaveTask, HasTask
<1>2. ASSUME NEW e \in Encoders, NEW j \in Jobs, NEW s \in PlaySessions \cup {Nothing}, AskPlaylist(e, j, s)
      PROVE  TranscodeInv'
  BY <1>1, <1>2, EncoderStep DEF AskPlaylist, EncoderIs, HasTask, EncoderRecords, EncoderPhases, JobRecords
<1>3. ASSUME NEW e \in Encoders, Attach(e) PROVE TranscodeInv'
  <2>1. /\ jobs' \in [Jobs -> JobRecords] /\ \A j \in Jobs : jobs'[j].encoder = jobs[j].encoder
    BY <1>1, <1>3 DEF Attach, JobRecords, EncoderRecords
  <2>2. /\ encoders' \in [Encoders -> EncoderRecords] /\ EncoderIs(e, "None")'
        /\ \A d \in Encoders \ {e} : encoders'[d] = encoders[d]
    BY <1>1, <1>3 DEF Attach, NoEncoder, EncoderIs, EncoderRecords, EncoderPhases
  <2>3. \A j : ~HasTask(encoders, e, j)
    BY <1>3 DEF Attach, EncoderIs, HasTask
  <2> QED
    BY <2>1, <2>2, <2>3, <1>3, EncoderStep DEF Attach
<1>4. ASSUME NEW e \in Encoders, GiveUp(e) PROVE TranscodeInv'
  BY <1>1, <1>4, EncoderStep DEF GiveUp, EncoderIs, HasTask, EncoderRecords, EncoderPhases, NoEncoder
<1>5. ASSUME NEW e \in Encoders, RegisterJob(e) PROVE TranscodeInv'
  <2> DEFINE j == encoders[e].job
  <2>1. j \in Jobs
    BY <1>1, <1>5 DEF RegisterJob, EncoderIs
  <2>2. /\ encoders' \in [Encoders -> EncoderRecords]
        /\ \A d \in Encoders \ {e} : encoders'[d] = encoders[d]
        /\ HasTask(encoders', e, j)
    BY <1>1, <1>5 DEF RegisterJob, EncoderGoes, HasTask, EncoderRecords, EncoderPhases
  <2>3. /\ jobs' \in [Jobs -> JobRecords] /\ jobs'[j].encoder = e
        /\ \A k \in Jobs \ {j} : jobs'[k] = jobs[k]
    BY <1>1, <1>5, <2>1 DEF RegisterJob, NoJob, JobRecords
  <2>4. \A k \in Jobs : ~HasTask(encoders, e, k)
    BY <1>5 DEF RegisterJob, EncoderIs, HasTask
  <2> QED
    BY <2>1, <2>2, <2>3, <2>4, <1>5, EncoderStep DEF RegisterJob, HasTask
<1>6. ASSUME NEW e \in Encoders, Describe(e) PROVE TranscodeInv'
  <2>1. /\ jobs' \in [Jobs -> JobRecords] /\ \A k \in Jobs : jobs'[k].encoder = jobs[k].encoder
    BY <1>1, <1>6 DEF Describe, JobRecords, EncoderRecords
  <2>2. /\ encoders' \in [Encoders -> EncoderRecords]
        /\ \A d \in Encoders \ {e} : encoders'[d] = encoders[d]
        /\ \A j : HasTask(encoders, e, j) => HasTask(encoders', e, j)
        /\ encoders'[e].job = encoders[e].job /\ encoders[e].job \in Jobs
    BY <1>1, <1>6 DEF Describe, EncoderIs, EncoderGoes, HasTask, EncoderRecords, EncoderPhases
  <2> QED
    BY <2>1, <2>2, <1>6, EncoderStep DEF Describe
<1>7. ASSUME NEW e \in Encoders, Launch(e) \/ Exit(e) PROVE TranscodeInv'
  <2>1. jobs' = jobs
    BY <1>7 DEF Launch, Exit
  <2>2. /\ encoders' \in [Encoders -> EncoderRecords]
        /\ \A d \in Encoders \ {e} : encoders'[d] = encoders[d]
        /\ \A j : HasTask(encoders, e, j) => HasTask(encoders', e, j)
        /\ encoders'[e].job = encoders[e].job /\ encoders[e].job \in Jobs
    BY <1>1, <1>7 DEF Launch, Exit, EncoderIs, EncoderGoes, HasTask, EncoderRecords, EncoderPhases
  <2> QED
    BY <2>1, <2>2, <1>1, <1>7, EncoderStep DEF Launch, Exit
<1>8. ASSUME NEW e \in Encoders, Finish(e) PROVE TranscodeInv'
  <2>1. /\ jobs' = [jobs EXCEPT ![encoders[e].job] = NoJob]
        /\ encoders' = [encoders EXCEPT ![e] = NoEncoder] /\ UNCHANGED stops
    BY <1>8 DEF Finish
  <2>2. jobs' \in [Jobs -> JobRecords]
    BY <1>1, <2>1 DEF NoJob, JobRecords
  <2>3. /\ encoders' \in [Encoders -> EncoderRecords]
        /\ \A d \in Encoders \ {e} : encoders'[d] = encoders[d]
        /\ EncoderIs(e, "None")'
    BY <1>1, <2>1 DEF NoEncoder, EncoderIs, EncoderRecords, EncoderPhases
  <2>4. \A j \in Jobs : jobs'[j].encoder = Nothing
                        \/ (jobs'[j].encoder = jobs[j].encoder /\ ~HasTask(encoders, e, j))
    BY <1>1, <2>1 DEF NoJob, HasTask
  <2> QED
    BY <2>1, <2>2, <2>3, <2>4, EncoderStep
<1>9. ASSUME jobs' \in [Jobs -> JobRecords], encoders' \in [Encoders -> EncoderRecords],
             stops' \in [Stops -> [todo : SUBSET Jobs, current : Jobs \cup {Nothing}]],
             \A j \in Jobs : jobs'[j].encoder \in {jobs[j].encoder, Nothing},
             \A e \in Encoders : encoders'[e].phase = encoders[e].phase /\ encoders'[e].job = encoders[e].job
      PROVE  TranscodeInv'
  <2>1. TranscodeTyped'
    BY <1>1, <1>9 DEF TranscodeTyped, EncoderIs
  <2>2. EntriesHaveTask'
    BY <1>1, <1>9 DEF TranscodeInv, EntriesHaveTask, JobRecords
  <2> QED
    BY <2>1, <2>2 DEF TranscodeInv
<1>10. stops \in [Stops -> [todo : SUBSET Jobs, current : Jobs \cup {Nothing}]]
  BY DEF TranscodeInv, TranscodeTyped
<1>11. ASSUME NEW s \in PlaySessions, Ping(s) PROVE TranscodeInv'
  BY <1>1, <1>9, <1>10, <1>11 DEF Ping, JobRecords
<1>12. ASSUME NEW j \in Jobs, Neglect(j) PROVE TranscodeInv'
  BY <1>1, <1>9, <1>10, <1>12 DEF Neglect, JobRecords
<1>13. ASSUME NEW k \in Stops, Collect(k) PROVE TranscodeInv'
  <2>1. PICK ids \in SUBSET Jobs : stops' = [stops EXCEPT ![k].todo = ids]
    BY <1>13 DEF Collect
  <2> QED
    BY <1>1, <1>9, <1>10, <1>13, <2>1 DEF Collect
<1>14. ASSUME NEW k \in Stops, NEW j \in Jobs, CancelJob(k, j) PROVE TranscodeInv'
  <2>1. /\ stops' = [stops EXCEPT ![k] = [todo |-> @.todo \ {j}, current |-> j]]
        /\ UNCHANGED jobs
        /\ encoders' = [e \in Encoders |-> IF e = jobs[j].encoder
                                           THEN [encoders[e] EXCEPT !.cancel = TRUE]
                                           ELSE encoders[e]]
    BY <1>14 DEF CancelJob
  <2>2. /\ encoders' \in [Encoders -> EncoderRecords]
        /\ \A e \in Encoders : encoders'[e].phase = encoders[e].phase /\ encoders'[e].job = encoders[e].job
    BY <1>1, <2>1 DEF EncoderRecords
  <2>3. stops' \in [Stops -> [todo : SUBSET Jobs, current : Jobs \cup {Nothing}]]
    BY <1>10, <2>1
  <2> QED
    BY <1>1, <1>9, <2>1, <2>2, <2>3
<1>15. ASSUME NEW k \in Stops, RemoveJob(k) PROVE TranscodeInv'
  <2>1. stops' \in [Stops -> [todo : SUBSET Jobs, current : Jobs \cup {Nothing}]]
    BY <1>10, <1>15 DEF RemoveJob
  <2>2. /\ jobs' \in [Jobs -> JobRecords]
        /\ \A j \in Jobs : jobs'[j].encoder \in {jobs[j].encoder, Nothing}
    BY <1>1, <1>15 DEF RemoveJob, NoJob, JobRecords
  <2> QED
    BY <1>1, <1>9, <1>15, <2>1, <2>2 DEF RemoveJob
<1>16. CASE UNCHANGED transcodeVars
  BY <1>1, <1>9, <1>10, <1>16 DEF transcodeVars
<1> QED
  BY <1>2, <1>3, <1>4, <1>5, <1>6, <1>7, <1>8, <1>11, <1>12, <1>13, <1>14, <1>15, <1>16
     DEF TranscodeNext

\* An entry of the registry always has a task that will remove it.
THEOREM EntriesAlwaysHaveTask == TranscodeSpec => []EntriesHaveTask
<1>1. TranscodeInit => TranscodeInv
  BY DEF TranscodeInit, TranscodeInv, TranscodeTyped, EntriesHaveTask, JobRecords, EncoderRecords,
         EncoderPhases, EncoderIs, NoJob, NoEncoder, NoStop
<1>2. TranscodeInv => EntriesHaveTask
  BY DEF TranscodeInv
<1> QED
  BY <1>1, <1>2, TranscodeInvStep, PTL DEF TranscodeSpec
=============================================================================
