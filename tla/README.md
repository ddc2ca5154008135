# Verification of jellyfin-rust

TLA+ models of the parts of this server whose state several tasks, requests or
connections share, the TLC runs that check them on small instances, and TLAPS
proofs of the properties that matter most, for instances of every size. Paths
below are relative to `src/src/` of the repository.

## 1. The system

The server is a set of services behind HTTP and WebSocket handlers
(`jellyfin-api`). Handlers run concurrently on a tokio runtime. Most services
translate requests into database rows; the ones below keep state in memory, under
locks of their own, and are reached by several tasks at a time.

| Component | Source | State | Operations | What is hard | Correct when |
|---|---|---|---|---|---|
| Play queue | `jellyfin-server-implementations/src/sync_play.rs`, `PlayQueue` | playlist, sorted order while shuffled, playing index, modes | replace, select, add, add next, remove, clear, move, shuffle, sort, next, previous | two orders and an index that every edit must move together | both orders list the same items, the index follows the item |
| SyncPlay manager | same file, `SyncPlayManager` | groups, `session_groups`, websocket counts | membership, queue, playback and readiness requests | requests of many sessions in any order, waits, departures | membership is one relation, waits end, nobody starts before the others |
| SyncPlay handlers | `jellyfin-api/src/sync_play.rs` | none | access checks, the manager call, broadcasts | two critical sections in one request, broadcasts after the lock | commands suit the state |
| WebSocket hub | `jellyfin-api/src/websocket.rs` | connections by id | serve, subscribe, unsubscribe, disconnect, send | connection and disconnection of one session race; two locks | a session stays in its group exactly while connected |
| User manager lock | `jellyfin-server-implementations/src/user_manager_lock.rs` | mutex and user count per key, disposed flag | lock, nested lock, drop, cancel, dispose | entries that come and go while calls wait | a mutex per key |
| Session commands | `jellyfin-data/src/session_command_repository.rs`, `jellyfin-api/src/session.rs`, `websocket.rs` | rows, queues of the sockets | enqueue, offer, delete, replay | delivery against replay, broken connections, restarts | nothing stored is lost unsent, nothing waits for the next connection while one is open |
| Transcode jobs | `jellyfin-controller/src/transcode.rs`, `jellyfin-api/src/hls_segment.rs` | jobs by id, cancel flags, processes | register, ping, stop, stop stale, end | an id is used again while the end or the stop of its last job is under way | every entry has its task, what is cancelled ends |
| Scheduled tasks | `jellyfin-controller/src/scheduled_tasks.rs` | task states, abort handles, history, its file | start, stop, timeout, end, panic, write, load | two locks taken one after the other, aborts that only ask, callers that go away, writers that share a temporary file, restarts | no run escapes its handle, the file follows the history, every call returns |
| Library scans | `jellyfin-controller/src/library_scan.rs`, `library_watcher.rs`, `jellyfin-api/src/backup.rs` | folders, `active_scans`, pending changes | scan one, scan all, watch, back up | old lists, refused, dropped and aborted scans | reservations are what the scans hold, affected folders are scanned |
| Items of a scan | `library_scan.rs`, `MediaItemConcurrencyLimiter` | limit, places taken, sleepers | acquire, release, set the limit | looks, releases and sleeps that cross | no wake-up is lost |
| `.strm` probes | `library_scan.rs`, `StrmProbeCoordinator` | entries by key, flights | acquire, probe, persist, finish | weak references, bounded memory, failures and cancellations | known requests share one probe |
| Derived images | `jellyfin-drawing/src/lib.rs` | cache files, mutexes by weak reference, permits | process | mutexes that come and go, a semaphore inside them | one encode per path, requests are served |
| Quick Connect | `jellyfin-server-implementations/src/quick_connect.rs`, `jellyfin-data/src/quick_connect_repository.rs` | rows by code, device sessions | request, authorize, purge, log out | several authorizations of a code, expiry, codes given out again | one device per request, an authorization is final |
| User accounts | `jellyfin-controller/src/users.rs`, `sessions.rs`, `jellyfin-server/src/main.rs` | rows, PINs | create, delete, change and copy policies, log in, set and reset passwords | counts that others change, logins that write what they read | an administrator remains; a replaced password stays replaced |
| Live streams | `jellyfin-controller/src/live_stream.rs` | open streams with consumer counts | open, get, touch, close, expiry | late closes after expiry | a consumed stream stays open |

How they interact: `serve` registers a connection in the hub, then calls
`SyncPlayManager::websocket_connected`, and on its end `disconnect` asks the hub
whether the connection was the last before it reports to the manager. The SyncPlay
handlers call the manager and broadcast what it returns through the hub. Session
commands are stored and offered through the hub; a new connection replays the rows.
The transcode registry is called by the streaming handlers and by a timer. The task
service runs executors, of which the library refresh scans; requests and the file
watcher scan as well, and a backup asks whether anybody does. A login reads and writes
the account; a deleted account or device takes its PINs and Quick Connect rows with it.

The components without shared control state of their own (encoding command
lines, naming, metadata providers, NFO files, networking, migrations,
wire types) transform data or wrap I/O and are listed in `PROJECT.json` as not
modelled, with the reason.

## 2. Modules

| Module | Models |
|---|---|
| `PlayQueue` | one operator per method of `PlayQueue`; a queue is a value |
| `PlayQueueSpec` | one queue under every sequence of queue requests, with a history variable for the order before shuffling |
| `SyncPlay` | `SyncPlayManager`: one action per manager method; EXTENDS `PlayQueue` |
| `WebSocketSessions` | connections of the hub composed with the manager; EXTENDS `SyncPlay` |
| `KeyedMutex` | abstract: what the user manager lock promises |
| `UserManagerLock` | `UserManagerLockHelper` step by step; refines `KeyedMutex` |
| `UserAccounts` | the rows of users under concurrent transactions, logins and PINs |
| `ScheduledTasks` | `ScheduledTaskService`: callers, runs, the two locks, restarts |
| `TaskHistory` | what the task service records, its file and temporary file; EXTENDS `ScheduledTasks` |
| `LibraryScans` | reservations and scans of `LibraryScanService` |
| `LibraryRefresh` | the refresh task: `ScheduledTasks` and `LibraryScans` composed, a run being a scanner |
| `LibraryWatcher` | requests, the file watcher and backups over `LibraryScans` |
| `MediaItemLimiter` | the limit on items at a time over tokio's `Notify` |
| `StrmProbes` | `StrmProbeCoordinator` and the requests that use it |
| `TranscodeJobs` | `TranscodeJobRegistry` and the HLS requests and tasks |
| `SessionCommands` | stored commands, the senders and the connections that replay |
| `ImageEncoding` | `ImageProcessor`: cache, mutexes, permits; refines `KeyedMutex` as well |
| `QuickConnect` | the rows of Quick Connect and the transactions that authorize |
| `MC...` | constants, symmetry, views and sums of the runs |
| `PlayQueueLemmas`, `PlayQueueProofs` | what every queue method keeps: types, the two orders, the playing item; the properties of the queue |
| `SyncPlayProofs` | invariants and action properties of the manager, the queues of its groups, the websockets over it |
| `UserProofs` | invariants, mutex queues and refinement of the lock; the last administrator |
| `ScheduledTasksProofs` | invariants of the task service and of its file, and that the refresh and the history implement it |
| `LibraryProofs` | reservations, `.strm` probes and the items of a scan |
| `MediaProofs` | images and the transcode registry |
| `SessionProofs` | Quick Connect and the stored commands |

Correspondence of state:

* A play queue record has the five fields of the struct. `index` counts from 0 and is
  -1 when nothing plays, as in the code. Items are `playlist_item_id` values: the code
  makes a new UUID for each queued occurrence, so `Batches` offers the ones not in
  use. The shuffle is any permutation.
* A group record has the participants with their two flags as sets, `state`,
  `resume` (`resume_playing`) and the queue. `command` holds the playback command that
  the last request returned, for the properties about what clients are told.
* All manager methods hold one write lock from start to end, so each is one action.
  `set_ignore_wait` of the API takes the lock twice (`SetIgnoreWait`, then
  `AnnounceUnpause`), with other requests in between.
* Positions, pings and times are abstracted: a ready report brings whether its position
  is near the group's and whether it is late by more than a command takes, both free.
* In `WebSocketSessions` each connection has the phase of its `serve` task between two
  lock acquisitions; other connections and requests run in between.
* In `UserManagerLock` a context has one call at a time, as the `&mut` borrow of
  `lock_async` enforces. The steps end where another task can see them: the lock of
  the map, the queue of the tokio mutex. Dropping a future while it waits is `Cancel`;
  `KeyLease::drop` releases the mutex before the registration, hence two steps.
* In `ScheduledTasks` a call is where it next takes or leaves a lock, and `act[a].held` is what
  it holds meanwhile: a start, a stop or a timeout waits for `running_tasks`, then for `tasks`
  with `running_tasks` in hand. `tasks` is held from one step to the next only for reading,
  while the file is written; the code holds its write lock over no await, so taking it, the
  change and giving it back are one step, which waits for readers. A run is a spawned future,
  and its work one phase. `abort` puts it into `aborted`; it is dropped at a later step. A
  caller's future can be dropped at each await (`Disconnect`), and gives back what it holds.
* In `TaskHistory` the history of a task is the number of its changes, so that "older" means
  something. `persist_state` is five steps: it reads the tasks, opens and truncates the
  temporary file, fills it, renames it, or gives up where a write or the rename may fail
  (`GiveUp`). Several do so at a time. A writer has an open *file*, not a name: `output`
  says which file that is after the renames of others. A file that is opened and not filled
  is `Torn`. `StartAgain` stops the server between any two steps and loads what is there.
* Scans, items, probes, images, encoders, sockets and clients of the database are futures
  with a phase per await or lock; each has an action for being dropped where the code
  lets it (`DropScan`, `CancelItem`, `CancelProbe`, `CancelImage`, `AbandonCommand`,
  `Break`, `Rollback`, `GivesUp`). Weak references are the set of who still uses the
  object: `Unused` and `Shares` say when one is dead.
* Rows are functions over their keys. A statement that reads with a row lock is a step
  that needs the row to be free, and what it locks stays locked until `Commit...` or the
  rollback. Times are ticks or left out; where a call reads the clock before it reaches
  the database its time may be old.

## 3. What the runs check

| Run | Instance | Question |
|---|---|---|
| `play_queue` | 4 items, batches of at most 2 | do the two orders and the index stay together; do next and previous undo each other; does queue next play next |
| `play_queue_index` | 3 items | counterexample to `PlayingIndexInRange` |
| `sync_play` | 2 sessions; 1 group, 2 items, all modes, 1 connection each; or 2 groups, 1 item, 3 connections | is a new item awaited by all, do commands suit the state; counts, membership through creation, switches, departures and disconnections, staying while connected, announcement of a departure |
| `sync_play_wait` | 3 sessions, one of them with a connection, 1 group, fair ready reports | does each wait have somebody to end it, does nobody start while another is buffering, and does the wait end |
| `sync_play_departure` | 3 sessions, 2 groups | counterexample to `DepartureTellsTheRest` |
| `websocket_ghost` | 2 sessions, 3 connections | counterexample to `LastDisconnectLeaves` |
| `scheduled_tasks` | `LibraryRefresh`: 1 task, 2 runs, 1 request, the scheduler, 1 folder | handles, lost runs, calls that get their locks and return, aborted runs that end and free their folder |
| `history_and_locks` | 1 task; 1 run, 1 request and the scheduler, who write; or 3 contexts, 2 keys, 3 mutexes | what gets into the file of the history; exact map, no mutex lost, refinement of `KeyedMutex`, waiters served |
| `services` | 2 folders, 3 scanners; 3 items; 2 probes; 2 encoders of 1 job; 2 commands, 2 sockets; 2 paths, 2 requests; 2 codes, 2 users; 2 accounts, 2 clients | the properties of the eight services of section 2 that share work or rows |
| `backup` | 1 folder, 1 scanner and the watcher | counterexample to `NoScanDuringBackup` |
| `history_lost` | 1 task, 1 run, 1 request | counterexample to `HistorySurvivesRestart` |
| `password_restored` | 2 accounts, 1 client | counterexample to `PasswordStays` |

`history_and_locks` (`MCTasks`) and `services` (`MCServices`) are sums: services that do not
act on each other share a run, in which one of them, chosen at the start, moves while the
others stay in their initial state. The states are those of the separate runs added up, and
each property is checked of its service with all its interleavings. `sync_play`
(`MCWebSocketSessions`) has two parts in the same way, all requests in one group and the
sockets with two; its properties are checked in both.

Bounds, and why they are enough:

* `Items`, `MaxBatch`: four occurrences let the playing item have items on both sides
  and one more be inserted or moved past it; an edit of two items at once is the
  smallest that removes the playing item together with one before it.
* `Sessions`: a wait needs one who waits, one who is waited for and one who leaves or
  ignores, so three; the rules about a new item and commands are about one requester
  and one other, so two. Two groups make every kind of switch. One item is enough where
  the queue only decides whether something plays.
* `SocketSessions`, `MaxConnections`, `Connections`: among three who wait, one whose socket
  closes is enough, the others leave by request. Two connections of a session are the
  smallest case in which the last one differs from another; three allow a reconnection in
  between.
* `MaxDepth` = 2: the nested path differs from the outer one at the first level.
* `Locks`: as many as contexts, so that a registering call, which refers to none yet,
  always finds an unused one, as with `Arc::new`.
* `Runs`, `Requests`: a run and its successor, a caller and the scheduler, are what the races
  of starts, stops and ends are between; of the writers of the history, two share the
  temporary file and a third may begin anew after a rename. `MaxHistory` ends the starts after two changes: an
  older history and a newer one. `diskFails` is chosen once: on a disk that does not fail, a
  torn file takes a second writer who still has it open.
* `Scanners`: a request against the watcher, and a third that finds the folder of either.
  `Items`: one that has a place, one that sleeps and one that comes in between; two limits.
* `MaxEntries` = 1 with two keys: each key can be the one that is not remembered. Two
  flights, requests, encoders, sockets: one and the one that replaces it.
* `QueueCapacity` = 1: the second command in a queue drops the first.
* `PathLocks`: a mutex for each request and one whose weak reference is dead.
  `MaxEncodes` = 1: the permit is what requests of different paths wait for.
* `MaxSecret`, `MaxTime`, `Lifetime`: a code is given out, expires, and is given out again.
* `MaxAccount` = 2, two clients: each takes the administrator away from the other.
  `MaxPassword` = 1: a password and the one before.
* `Modes` limits which repeat and shuffle modes the requests of `SyncPlay` set.

Sessions, items, groups and connections are interchangeable in the specifications, so
the symmetry sets of the `MC` modules are sound; the runs with liveness properties use
none. The `VIEW` of `sync_play` leaves out `command` and the session of a connection that
is over: no guard reads them, and the action properties look only at the new command, so
states that differ in them have the same future. Deadlock is not checked where the bounds end a
behaviour or the service may rest (the sums, `backup`, `password_restored`).

Fairness. `sync_play_wait` assumes for each session weak fairness of `ReportReady`: a
client that the server counts as buffering reports in the end that it is ready with
the playing item, at the group's position. The server cannot enforce that; it is what
the protocol asks of a client. Nothing is assumed about any other request, so the
property says: either a group stops waiting again and again, or new waits begin for
ever. For the lock, `history_and_locks` assumes that tasks are scheduled (weak fairness of the lock's steps,
`DropNested` included) and that a holder that keeps nesting drops its last handle in
the end (strong fairness of `DropLast`); tokio schedules woken tasks and the mutex is
first come, first served, so no fairness of the mutex is assumed.

The task service assumes that spawned futures and callers that are not dropped are
scheduled. Every step of a call has strong fairness (`GoesOn`): a call waits for
`running_tasks`, or for `tasks`, in the queue of tokio's `RwLock`, and the model has the lock
without its queue. That gives a lock to whoever waits only if it is free again and again,
so a lock that is kept, or two that are taken in opposite orders, still block. An aborted run is
dropped at its next await. Nothing is assumed of the work of a run: it may take for ever.
The watcher, the encoders and the image requests likewise assume that their threads and
tasks run and that the processes they wait for end; the mutexes of paths and the semaphore
of encodes are queues (strong fairness again).

Each property of a passing run has a mutant, an operator named in a comment
"Mutant of ...", that stands for a plausible mistake in the code and makes the run fail.

## 4. Findings

* **Index after a removal** (`play_queue_index`). `remove_from_playlist` takes one from
  the *old* index when the playing item goes, although items before it may have gone
  with it. Emptying a playlist that way leaves an index that still counts as playing:
  the group does not become idle.
* **A switch drops the departure's command** (`sync_play_departure`). When the last
  awaited member joins or creates another group, the group it leaves starts playing
  but its members are sent neither the command nor the state update that a session
  leaving by request brings them.
* **A session outlives its connections** (`websocket_ghost`). The manager counts every
  connection but is told only of the end of the last one in the hub, so a session that
  ever had two connections at once stays a participant after both are gone.

* **A scan during a backup** (`backup`). A backup looks for scans once and reserves nothing,
  so a scan may start while the snapshot is taken, which a comment there says would not be
  coherent.
* **History lost at the start** (`history_lost`). `AppState::new` starts the scheduler before
  the builder sets the path of the history file. If the scheduler's task runs first it
  loads nothing, and the next change replaces the file by the history of this start.
* **An old password comes back** (`password_restored`). A login writes back the password hash
  it read before it verified the password. A reset or a change in between is undone, and the
  password that a test says is refused is accepted again.

The proved and checked properties are stated so that they hold in spite of these:
`LeavingTellsTheRest` is about sessions that leave for no other group,
`OpenConnectionsCounted` and `StaysWhileOpen` about the direction that is right,
`EditsKeepPlaying` about the playing item and not its index, `HistoryNeverGoesBack` about
a history that was read. It does not say that a result stays: a timeout may replace one
that a run has just recorded, which counts as a change of the history.

`HistoryNeverGoesBack` allows a torn file, and that does happen. Readers of `tasks` do not
exclude each other, so two `persist_state` may write, and both call their temporary file
`json.tmp` (`scheduled_tasks.rs:901-904`). One renames it just after the other has truncated
it; if the server stops before the other has written, the next start finds a file that
`load_persisted_state` ignores (`:861-863`), and the next change replaces it. Without its
second alternative the property fails in `history_and_locks` with the steps up to that
rename, on a disk that does not fail. What the property adds is that this is all that
can go wrong: what else gets into the file is whole and the present history.

## 5. What is proved

For every set of sessions, groups, contexts, keys, mutexes, tasks, runs, requests, folders,
flights, paths, jobs, commands, sockets, codes and clients, finite where they are counted
(queue items, items of a scan, contexts), and every bound. The assumptions are the ones
named in the modules: values that stand for "none" (`Nil`, `NoOrder`, `NoGroup`, `Nobody`,
`NoKey`, `NoLock`, `NoFlight`, `Nothing`, ...) are apart from what they stand beside, bounds
are natural numbers, positive where the code's are, and the refresh's runs are its scanners.

* `PlayQueueProofs`. The type is inductive by itself (`TypeCorrect`). `PlayQueueLemmas` has
  one lemma per method; the work is in `Position` (a least position exists) and in
  `Retain`, whose k-th retained position must exist for every k up to their number.
  Whatever the type leaves open is about orders, and orders are compared by one relation:
  `Before(s, x, y)`, x comes before y in s. `Retain`, concatenation, `Splice` and the
  single moves each have a lemma that says what they do to `Before` and to the set of
  elements, and two sequences without repetition with the same elements and the same
  `Before` are equal (`SameOrder`). With them each method satisfies `Keeps`: the new queue is
  `Consistent`, what is left of the sorted order is in the old order, and what played
  plays or is gone. From `TypeOK /\ Consistent(queue)`: `QueueIsConsistent` and, as an
  action property, `EditsKeep`. `ShuffleReverses` needs the history as well (`History`:
  what is left of the order before the shuffle is in the sorted order, in its order),
  which `Follows` carries through each request. `QueueNextPlays` and `NavigationInverse`
  are about what a request *would* do next; they follow from consistency alone.
* `SyncPlayProofs`. The inductive invariant is `TypeOK`, `MembershipConsistent` and
  `WaitIsHeld` together: a request keeps a wait held only because the requesting session
  *is* a participant of its group (membership), and `BeginWait` waits for somebody only
  because no group is empty. A request replaces one group by a well-formed one
  (`GroupOK`) with the same participants; only membership requests differ. From it:
  `TypeCorrect`, `MembershipIsConsistent`, `WaitsAreHeld`, and the action properties
  `WaitsEndTogether` and `LeavingIsAnnounced` (who is told). For the first, a request
  `Settles` its group: if it starts it, nobody who stays and is followed still owes a report
  (`StillOwed`), or only the session itself, and then the step is its own ready report in
  place. A departure and an ignore flag leave nobody, because `finish_wait_if_ready` looks
  after the change.
  `CommandsSuit`: every step, the second half of `set_ignore_wait` apart, touches the
  group of one session, tells participants of that group only, and leaves it in a state
  its command suits (`Tells`); that a session is in one group makes "the group of those
  who are told" unique. `GroupQueuesAreConsistent` carries the queue lemmas over to every
  group. `NewItemsAreAwaited`: each step replaces a queue by one in which either the same
  occurrence plays, or nothing, or the group awaits all its participants (`QueueStep`); consistency is
  needed because the index follows an occurrence only if it is listed once.
* `SyncPlayProofs`, the websockets. `ServingUsesManager`: each step of a connection is a
  step of the manager or none, so all theorems about the manager hold of the composition.
  `ConnectionsAreCounted` and `OpenSessionsStay`: a connection is counted by the step that
  opens it, and of those that are counted only one that was the last in the hub is ever
  reported. The invariant adds that the open connections of a session are finitely many,
  since each was opened by a step.
* `UserProofs`, the lock. The invariant is that holders own their mutex, that the calls
  of a key share one mutex even after disposal has emptied the map, and `EntriesExact`.
  Exactness is needed for the sharing: a key without an entry has no call, so a new
  mutex cannot be a second one. From it: `EntriesAreExact`, and `Refinement`, by the
  mapping in `UserManagerLock` (a context holds its key from `Admit` to the last drop).
* `UserProofs`, the mutexes. `MutexSound`: nobody is in the queue of a mutex twice, the queue
  is exactly the calls that wait for it and do not have it, and a mutex is either free
  with an empty queue or had by a call that waits or holds. A step changes one call, hence one
  mutex (`OneMutex`); that the holder owns what it drops is the invariant above. From it
  `MutexesAreNotLost` and `LockTypeCorrect`. (`TypeOK` of the lock is not in its
  run, because it is proved.)
* `UserProofs`, the accounts (`AdministratorRemains`). The invariant says that the holder of
  the advisory lock is alone (`OneLockHolder`) and that what it has checked leaves an
  administrator (`ChangesLeave`). Creations, logins, lockouts, PINs and restarts take no
  lock but only ever add administrators (lemma `OnlyMore`), so a count stays good until the
  holder acts on it.
* `ScheduledTasksProofs`. The invariant `Inv` has the types, which locks each step holds
  (`LocksFit`), that `running_tasks` has one holder (`OneHolder`), what task each step is about
  (`HasTask`), that a start between its mark and its handle finds no handle of its task
  (`StartsAlone`), that every other task has a handle just while it runs (`Registered`), and
  `NoRunIsLost`. `OneHolder` is why no stop comes in between. From it: `HandlesAreRegistered`
  and `RunsAreNotLost`. `RefreshImplementsTasks` and `HistoryImplementsTasks`: every step of the
  refresh, and of the tasks with their history, is a step of the task service or none, so both
  hold there as well (`HandlesAndRunsKept`).
* `ScheduledTasksProofs`, the file (`FileIsHistory`). While somebody writes the history does not
  change, because every change needs `tasks`: so all who write at a time have read the same
  (`Snapshots`), and the temporary file, from when one of them has opened it, is that, or torn
  by one who is not done or has failed (`TemporaryRight`); one a dead server left behind is
  truncated first. What is renamed is thus the history, or torn, and a history that was
  read is never behind the file (`Published`).
* `LibraryProofs`, the scans (`ReservationsAreExact`): the reservations of two scans are apart
  (`Apart`) and their union is `active_scans` (`Covers`); a scan that reserves all or none
  keeps both.
* `LibraryProofs`, the probes (`ProbesAreShared`). Who probes is alone with its
  flight (`OneInside`), and each request fits the entry of its key (`Fits`): as long as the
  flight of a tracked request has no result, the entry of the key is that flight, so two who
  probe under one key have one flight.
* `LibraryProofs`, the items (`WakeUpsAreNotLost`). The places that are free while x sleeps are
  counted against x's *helpers*: items that have released a place and have yet to notify,
  that carry a wake-up, or that began to look after x went to sleep. `HelpIsEnough` says that
  while the limit is not being changed there are as many helpers as free places, for every
  sleeper; each step keeps the helpers, replaces one by another, or loses one with the place it
  takes. `QueueSound` (who is in the queue of the `Notify`, once) says who can be woken.
* `MediaProofs`, the images. The invariant: the entry of a path stays while a request uses its
  mutex (`EntryStays`), different paths have different mutexes (`LocksApart`), a mutex has one
  holder (`OneHolder`), and who has looked again holds the mutex of a path that is not cached.
  From it `NeverASecondEncode`, and the refinement of `KeyedMutex`, `EncodesOncePerPath`.
* `MediaProofs`, the transcodes (`EntriesAlwaysHaveTask`). With its types the property is
  inductive; the argument is per step which encoder's task answers for the entry that was made or left.
* `SessionProofs`, Quick Connect. The invariant: a secret belongs to one row and one device
  (`SecretsOnce`), a pending row has no device (`PendingIsNew`), and a row that a transaction
  has locked is still pending (`LockedIsPending`). From it `DevicesAreSingle` and
  `AuthorizationStays`.
* `SessionProofs`, the commands. A command that was offered went into a queue
  (`OfferedIsQueued`), a replay deletes what it has sent (`DeletingSent`), and it has yet to
  replay what nobody took (`ReplayHasWaiting`). With these `OutboxKeepsUnsent` and
  `NobodyOpenMisses` are inductive: `StoredCommandsAreKept`, `OpenConnectionsAreOffered`.

Every invariant and every action property of a passing run is a theorem, except
for those of liveness. Only model-checked: `WaitEnds`, `WaitersServed`, `EveryCallReturns`,
`StoppedRunsEnd`, `StoppedRefreshFreesLibrary`, `AffectedAreScanned`, `CancelledJobsEnd` and
`RequestsAreServed`, because the prover does not do fairness. A group switched by sessions
with all requests at once is too large for a run: the sockets' part of `sync_play` has the
switches, and the
theorems about the manager the rest.

## 6. Not modelled, and the plan

Left out of the modelled components: times, positions and pings of SyncPlay (the
arithmetic of positions and delays), access checks, group names and lists, the text of
updates, the broadcasts of groups and the keep-alive timer of the hub; triggers and
progress of tasks with the file writes of their changes, the executors other than the refresh; a request that reaches the
task service before its history is loaded; what a scan reads and stores, paths inside a
folder, and a watcher whose queue is full or that cannot list the folders; throttling,
progressive audio and the sessions map of the transcode registry; expiry of commands;
what an image looks like; polling of Quick Connect; names, preferences and the rest of a
policy of users, and the rows of devices.

Not modelled at all: the services that turn one request into rows (library, items,
playstate, metadata), which keep nothing in memory between requests; file formats, command
lines, naming and network code, which are functions of their input; live streams, whose
methods each hold one lock and whose consumers have no identity, so that a model would
only repeat them. They are most of the repository's lines, and the share of it that the
models cover is small for that reason.

Hazards that are known and that no property is about, beside those in `PROJECT.json`:

* SyncPlay: broadcasts are sent after the lock is released, in any order; an unknown item
  sets the index to -1 and then fails; start positions are stored unclamped, and a seek is
  clamped to the runtime of an item read before an await.
* Tasks: a run that panics, or a start without executor whose client goes away, leaves its
  task Running until it is stopped; progress may be reported to an idle task; a startup
  trigger is not due again once there is a history; a change that is made and not yet
  written is lost with the server.
* Scans: events beyond the watcher's queue, and a batch whose folders cannot be listed, are
  dropped; a full scan scans folders that were deleted after it listed them; a target beyond
  `max_entries` is probed twice at a time, and one whose flight ended between two steps
  twice in a row.
* Transcodes: pings that come after the stale jobs were collected do not save them; two
  requests for one playlist may start two processes; `associate` leaves the id of a removed
  job in the sessions map.
* Others: two requests that drop the last references to a path's mutex together leave a dead
  entry; Quick Connect compares with a clock read before the database is asked; a late close
  of a live stream takes the place of another consumer; two logins at a time exceed
  `max_active_sessions`.

Next, in this order:

1. Devices and login sessions with `UserAccounts`: revocation against logins,
   `max_active_sessions`, and the device that Quick Connect makes. 1 user, 2 devices, 2 logins.
2. The broadcasts of SyncPlay: queues of the sockets behind the manager, for the order in
   which updates of two requests arrive.
3. Results of tasks by their kind, for the result that a timeout replaces.
4. Playstate: progress reports against the end of playback and the deletion of an item.
5. Proofs: the safety halves of the liveness properties, as far as invariants say them: that
   of the calls which wait for locks of the task service one can always go on (as
   `MutexesAreNotLost` says of the mutexes), that the flag of a cancelled job reaches its
   task; then what 1 to 4 add.
