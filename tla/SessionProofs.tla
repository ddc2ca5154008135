---------------------------- MODULE SessionProofs ----------------------------
(***************************************************************************)
(* One device session per quick connect request, and an authorization that *)
(* stays, for any codes, users and calls.  Both rest on the lock of the    *)
(* row: a request that a call has locked is pending until this call is     *)
(* through, and no device has come from a request that is pending.         *)
(*                                                                         *)
(* The outbox of a session loses nothing that was not sent or queued: a    *)
(* row is deleted after its command was sent or when it went into a queue, *)
(* and who replays has in its list what nobody took.                       *)
(***************************************************************************)
EXTENDS QuickConnect, SessionCommands, FiniteSetTheorems, TLAPS

-----------------------------------------------------------------------------
(* Quick connect *)

Rows == [secret : Nat, expires : Nat, user : Users \cup {NoUser}]

QuickConnectTyped ==
    /\ clock \in Nat /\ lastSecret \in Nat
    /\ requests \in [Codes -> Rows]
    /\ devices \subseteq [secret : Nat, user : Users, by : Authorizers]
    /\ transactions \in [Authorizers -> [code : Codes \cup {"None"}, user : Users \cup {NoUser}, now : Nat]]

\* A secret is that of one request, and no row or device has one not yet made.
SecretsOnce ==
    /\ \A k \in Codes : requests[k].secret <= lastSecret
    /\ \A k, l \in Codes : Exists(k) /\ requests[k].secret = requests[l].secret => k = l
    /\ \A d \in devices : d.secret # 0 /\ d.secret <= lastSecret

\* Only an existing row is authorized, and a pending one has no device.
PendingIsNew ==
    \A k \in Codes : /\ ~Exists(k) => requests[k].user = NoUser
                     /\ requests[k].user = NoUser => \A d \in devices : d.secret # requests[k].secret

InTransaction(a) == transactions[a] # NoTransaction

\* Whoever has a row has a pending one, and has it alone.
LockedIsPending ==
    /\ \A a \in Authorizers : InTransaction(a) =>
          /\ transactions[a].code \in Codes /\ transactions[a].user \in Users
          /\ Exists(transactions[a].code) /\ requests[transactions[a].code].user = NoUser
    /\ \A a, b \in Authorizers :
          InTransaction(a) /\ InTransaction(b) /\ transactions[a].code = transactions[b].code => a = b

QuickConnectInv == QuickConnectTyped /\ SecretsOnce /\ PendingIsNew /\ LockedIsPending /\ OneDevicePerRequest

LEMMA QuickConnectInitInv == QuickConnectInit => QuickConnectInv
BY QuickConnectAssumption
   DEF QuickConnectInit, NoRequest, NoTransaction, QuickConnectInv, QuickConnectTyped, Rows, SecretsOnce, PendingIsNew,
       LockedIsPending, InTransaction, OneDevicePerRequest, Exists

\* Rows that nobody has locked go.
LEMMA DeleteStep ==
    ASSUME QuickConnectInv, NEW gone \in SUBSET Codes, \A k \in gone : Unlocked(k),
           requests' = [k \in Codes |-> IF k \in gone THEN NoRequest ELSE requests[k]],
           UNCHANGED <<clock, devices, lastSecret, transactions>>
    PROVE  QuickConnectInv'
<1>1. NoRequest \in Rows /\ NoRequest.secret = 0 /\ NoRequest.user = NoUser
  BY DEF NoRequest, Rows
<1>2. QuickConnectTyped'
  BY <1>1 DEF QuickConnectInv, QuickConnectTyped
<1>3. SecretsOnce'
  BY <1>1 DEF QuickConnectInv, QuickConnectTyped, SecretsOnce, Exists
<1>4. PendingIsNew'
  BY <1>1 DEF QuickConnectInv, SecretsOnce, PendingIsNew, Exists
<1>5. LockedIsPending'
  BY DEF QuickConnectInv, LockedIsPending, InTransaction, Unlocked, Exists
<1> QED
  BY <1>2, <1>3, <1>4, <1>5 DEF QuickConnectInv, OneDevicePerRequest

\* A new row has a new secret.
LEMMA CreateStep ==
    ASSUME QuickConnectInv, NEW k \in Codes, NEW now \in Nat, CreateRequest(k, now)
    PROVE  QuickConnectInv'
<1> DEFINE row == [secret |-> lastSecret', expires |-> now + Lifetime, user |-> NoUser]
<1>1. /\ ~Exists(k) /\ lastSecret' = lastSecret + 1 /\ requests' = [requests EXCEPT ![k] = row]
      /\ UNCHANGED <<clock, devices, transactions>>
  BY DEF CreateRequest
<1>2. row \in Rows /\ lastSecret \in Nat
  BY <1>1, QuickConnectAssumption DEF QuickConnectInv, QuickConnectTyped, Rows
<1>3. requests'[k] = row /\ \A l \in Codes \ {k} : requests'[l] = requests[l]
  BY <1>1 DEF QuickConnectInv, QuickConnectTyped
<1>4. QuickConnectTyped'
  BY <1>1, <1>2 DEF QuickConnectInv, QuickConnectTyped
<1>5. \A l \in Codes : requests[l].secret \in Nat
  BY DEF QuickConnectInv, QuickConnectTyped, Rows
<1>6. \A d \in devices : d.secret \in Nat
  BY DEF QuickConnectInv, QuickConnectTyped
<1>7. SecretsOnce'
  BY <1>1, <1>2, <1>3, <1>5, <1>6 DEF QuickConnectInv, SecretsOnce, Exists
<1>8. PendingIsNew'
  BY <1>1, <1>2, <1>3, <1>6 DEF QuickConnectInv, SecretsOnce, PendingIsNew, Exists
<1>9. LockedIsPending'
  BY <1>1, <1>3 DEF QuickConnectInv, LockedIsPending, InTransaction, Exists
<1> QED
  BY <1>1, <1>4, <1>7, <1>8, <1>9 DEF QuickConnectInv, OneDevicePerRequest

\* A call gets a pending row that nobody has.
LEMMA LockStep ==
    ASSUME QuickConnectInv, NEW a \in Authorizers, NEW k \in Codes, NEW u \in Users, NEW now \in Nat,
           LockPending(a, k, u, now)
    PROVE  QuickConnectInv'
<1> DEFINE transaction == [code |-> k, user |-> u, now |-> now]
<1>1. /\ requests[k].user = NoUser /\ Exists(k) /\ Unlocked(k)
      /\ transactions' = [transactions EXCEPT ![a] = transaction]
      /\ UNCHANGED <<clock, requests, devices, lastSecret>>
  BY DEF LockPending, Locks
<1>2. transactions'[a] = transaction /\ \A b \in Authorizers \ {a} : transactions'[b] = transactions[b]
  BY <1>1 DEF QuickConnectInv, QuickConnectTyped
<1>3. QuickConnectTyped'
  BY <1>1 DEF QuickConnectInv, QuickConnectTyped
<1>4. LockedIsPending'
  BY <1>1, <1>2 DEF QuickConnectInv, LockedIsPending, InTransaction, Unlocked, Exists
<1> QED
  BY <1>1, <1>3, <1>4 DEF QuickConnectInv, SecretsOnce, PendingIsNew, OneDevicePerRequest, Exists

\* The device of a pending request is its first.
LEMMA CommitStep ==
    ASSUME QuickConnectInv, NEW a \in Authorizers, CommitAuthorization(a)
    PROVE  QuickConnectInv'
<1> DEFINE k == transactions[a].code
           u == transactions[a].user
           device == [secret |-> requests[k].secret, user |-> u, by |-> a]
<1>1. /\ InTransaction(a) /\ devices' = devices \cup {device}
      /\ requests' = [requests EXCEPT ![k].expires = transactions[a].now + Lifetime, ![k].user = u]
      /\ transactions' = [transactions EXCEPT ![a] = NoTransaction]
      /\ UNCHANGED <<clock, lastSecret>>
  BY DEF CommitAuthorization, InTransaction
<1>2. k \in Codes /\ u \in Users /\ Exists(k) /\ requests[k].user = NoUser
  BY <1>1 DEF QuickConnectInv, LockedIsPending
<1>3. requests[k] \in Rows /\ transactions[a].now \in Nat /\ requests[k].secret # 0
  BY <1>2 DEF QuickConnectInv, QuickConnectTyped, Exists
<1>4. requests'[k] = [requests[k] EXCEPT !.expires = transactions[a].now + Lifetime, !.user = u]
      /\ \A l \in Codes \ {k} : requests'[l] = requests[l]
  BY <1>1, <1>2 DEF QuickConnectInv, QuickConnectTyped
<1>5. requests'[k].secret = requests[k].secret /\ requests'[k].user = u /\ requests'[k] \in Rows
  <2> DEFINE later == transactions[a].now + Lifetime
  <2>1. later \in Nat
    BY <1>3, QuickConnectAssumption
  <2>2. requests'[k] = [requests[k] EXCEPT !.expires = later, !.user = u]
    BY <1>4
  <2> HIDE DEF later
  <2> QED
    BY <1>2, <1>3, <2>1, <2>2 DEF Rows
<1>6. transactions'[a] = NoTransaction /\ \A b \in Authorizers \ {a} : transactions'[b] = transactions[b]
  BY <1>1 DEF QuickConnectInv, QuickConnectTyped
<1>7. QuickConnectTyped'
  <2>1. requests' \in [Codes -> Rows]
    BY <1>1, <1>4, <1>5 DEF QuickConnectInv, QuickConnectTyped
  <2>2. device \in [secret : Nat, user : Users, by : Authorizers]
    BY <1>2, <1>3 DEF Rows
  <2>3. NoTransaction \in [code : Codes \cup {"None"}, user : Users \cup {NoUser}, now : Nat]
    BY DEF NoTransaction
  <2> QED
    BY <2>1, <2>2, <2>3, <1>1 DEF QuickConnectInv, QuickConnectTyped
<1>8. devices' = devices \cup {device} /\ device.secret = requests[k].secret
  BY <1>1
<1>9. /\ \A b \in Authorizers \ {a} : InTransaction(b) => transactions[b].code # k
      /\ ~InTransaction(a)' /\ lastSecret' = lastSecret
  BY <1>1, <1>6 DEF QuickConnectInv, LockedIsPending, InTransaction
<1> HIDE DEF k, u, device
<1>10. \A l \in Codes : /\ requests'[l].secret = requests[l].secret
                        /\ l # k => requests'[l].user = requests[l].user
  BY <1>4, <1>5
<1>11. SecretsOnce' /\ PendingIsNew'
  <2>1. SecretsOnce'
    BY <1>2, <1>3, <1>10, <1>8, <1>9 DEF QuickConnectInv, SecretsOnce, Exists
  <2>2. PendingIsNew'
    <3> SUFFICES ASSUME NEW l \in Codes
                 PROVE  /\ ~Exists(l)' => requests'[l].user = NoUser
                        /\ requests'[l].user = NoUser =>
                              \A d \in devices' : d.secret # requests'[l].secret
      BY DEF PendingIsNew
    <3>1. CASE l = k
      BY <3>1, <1>2, <1>3, <1>5, QuickConnectAssumption DEF Exists
    <3>2. CASE l # k
      BY <3>2, <1>2, <1>3, <1>10, <1>8 DEF QuickConnectInv, SecretsOnce, PendingIsNew, Exists
    <3> QED
      BY <3>1, <3>2
  <2> QED
    BY <2>1, <2>2
<1>12. LockedIsPending'
  BY <1>6, <1>10, <1>9 DEF QuickConnectInv, LockedIsPending, InTransaction, Exists
<1>13. OneDevicePerRequest'
  BY <1>2, <1>8 DEF QuickConnectInv, PendingIsNew, OneDevicePerRequest
<1> QED
  BY <1>7, <1>11, <1>12, <1>13 DEF QuickConnectInv

\* A transaction that is rolled back leaves its row as it was.
LEMMA RollbackStep ==
    ASSUME QuickConnectInv, NEW a \in Authorizers, Rollback(a)
    PROVE  QuickConnectInv'
<1>1. transactions' = [transactions EXCEPT ![a] = NoTransaction]
      /\ UNCHANGED <<clock, requests, devices, lastSecret>>
  BY DEF Rollback
<1>2. QuickConnectTyped'
  BY <1>1 DEF QuickConnectInv, QuickConnectTyped, NoTransaction
<1>3. LockedIsPending'
  BY <1>1 DEF QuickConnectInv, QuickConnectTyped, LockedIsPending, InTransaction, Exists
<1> QED
  BY <1>1, <1>2, <1>3 DEF QuickConnectInv, SecretsOnce, PendingIsNew, OneDevicePerRequest, Exists

\* The invariant is inductive.
LEMMA QuickConnectNextInv == QuickConnectInv /\ [QuickConnectNext]_quickConnectVars => QuickConnectInv'
<1> SUFFICES ASSUME QuickConnectInv, [QuickConnectNext]_quickConnectVars PROVE QuickConnectInv'
  OBVIOUS
<1>1. clock \in Nat /\ Nows \subseteq Nat
  BY DEF QuickConnectInv, QuickConnectTyped, Nows
<1>2. CASE Tick
  BY <1>2 DEF Tick, QuickConnectInv, QuickConnectTyped, SecretsOnce, PendingIsNew, LockedIsPending, InTransaction,
              OneDevicePerRequest, Exists
<1>3. ASSUME NEW now \in Nows, Purge(now) PROVE QuickConnectInv'
  BY <1>3, DeleteStep DEF Purge
<1>4. ASSUME NEW now \in Nows, NEW k \in Codes, CreateRequest(k, now) PROVE QuickConnectInv'
  BY <1>1, <1>4, CreateStep
<1>5. ASSUME NEW k \in Codes, Unlocked(k), requests' = [requests EXCEPT ![k] = NoRequest],
             UNCHANGED <<clock, devices, lastSecret, transactions>>
      PROVE  QuickConnectInv'
  <2>1. requests' = [l \in Codes |-> IF l \in {k} THEN NoRequest ELSE requests[l]]
    BY <1>5 DEF QuickConnectInv, QuickConnectTyped
  <2> QED
    BY <1>5, <2>1, DeleteStep
<1>6. ASSUME NEW now \in Nows, NEW k \in Codes, LockExpired(k, now) \/ LogOut(k) PROVE QuickConnectInv'
  BY <1>5, <1>6 DEF LockExpired, LogOut
<1>7. ASSUME NEW k \in Codes, LogOut(k) PROVE QuickConnectInv'
  BY <1>5, <1>7 DEF LogOut
<1>8. ASSUME NEW now \in Nows, NEW k \in Codes, NEW a \in Authorizers, NEW u \in Users,
             LockPending(a, k, u, now)
      PROVE  QuickConnectInv'
  BY <1>1, <1>8, LockStep
<1>9. ASSUME NEW a \in Authorizers, CommitAuthorization(a) \/ Rollback(a) PROVE QuickConnectInv'
  BY <1>9, CommitStep, RollbackStep
<1>10. CASE UNCHANGED quickConnectVars
  BY <1>10 DEF quickConnectVars, QuickConnectInv, QuickConnectTyped, SecretsOnce, PendingIsNew, LockedIsPending,
               InTransaction, OneDevicePerRequest, Exists
<1> QED
  BY <1>2, <1>3, <1>4, <1>6, <1>7, <1>8, <1>9, <1>10 DEF QuickConnectNext

\* The invariant holds in every state.
LEMMA QuickConnectInvariance == QuickConnectSpec => []QuickConnectInv
BY QuickConnectInitInv, QuickConnectNextInv, PTL DEF QuickConnectSpec

\* One request makes one device session at most: the calls that authorize it queue
\* on its row, and the second finds it authorized.
THEOREM DevicesAreSingle == QuickConnectSpec => []OneDevicePerRequest
<1>1. QuickConnectInv => OneDevicePerRequest
  BY DEF QuickConnectInv
<1> QED
  BY <1>1, QuickConnectInvariance, PTL

\* An authorization goes with its request and never to another user.
THEOREM AuthorizationStays == QuickConnectSpec => AuthorizationIsFinal
<1> DEFINE Final == \A k \in Codes :
                        requests[k].user # NoUser /\ requests'[k].secret = requests[k].secret
                            => requests'[k].user = requests[k].user
<1>1. ASSUME QuickConnectInv, [QuickConnectNext]_quickConnectVars
      PROVE  [Final]_quickConnectVars
  <2>1. \A k \in Codes : requests[k].user # NoUser => requests[k].secret # 0
    BY <1>1 DEF QuickConnectInv, PendingIsNew, Exists
  <2>2. ASSUME NEW gone \in SUBSET Codes,
               requests' = [k \in Codes |-> IF k \in gone THEN NoRequest ELSE requests[k]]
        PROVE  Final
    BY <2>1, <2>2 DEF NoRequest
  <2>3. ASSUME NEW k \in Codes, requests[k].user = NoUser,
               \A l \in Codes \ {k} : requests'[l] = requests[l]
        PROVE  Final
    BY <2>3
  <2>4. ASSUME NEW now \in Nows, Purge(now) PROVE Final
    BY <2>2, <2>4 DEF Purge
  <2>5. ASSUME NEW now \in Nows, NEW k \in Codes, CreateRequest(k, now) PROVE Final
    <3>1. requests[k].user = NoUser
      BY <1>1, <2>5 DEF CreateRequest, QuickConnectInv, PendingIsNew
    <3>2. \A l \in Codes \ {k} : requests'[l] = requests[l]
      BY <1>1, <2>5 DEF CreateRequest, QuickConnectInv, QuickConnectTyped
    <3> QED
      BY <2>3, <3>1, <3>2
  <2>6. ASSUME NEW k \in Codes, requests' = [requests EXCEPT ![k] = NoRequest] PROVE Final
    <3>1. requests' = [l \in Codes |-> IF l \in {k} THEN NoRequest ELSE requests[l]]
      BY <1>1, <2>6 DEF QuickConnectInv, QuickConnectTyped
    <3> QED
      BY <2>2, <3>1
  <2>7. ASSUME NEW a \in Authorizers, CommitAuthorization(a) PROVE Final
    <3>1. transactions[a].code \in Codes /\ requests[transactions[a].code].user = NoUser
      BY <1>1, <2>7 DEF CommitAuthorization, QuickConnectInv, LockedIsPending, InTransaction
    <3>2. \A l \in Codes \ {transactions[a].code} : requests'[l] = requests[l]
      BY <1>1, <2>7, <3>1 DEF CommitAuthorization, QuickConnectInv, QuickConnectTyped
    <3> QED
      BY <2>3, <3>1, <3>2
  <2>8. CASE UNCHANGED requests
    BY <2>8
  <2> QED
    BY <1>1, <2>4, <2>5, <2>6, <2>7, <2>8
       DEF QuickConnectNext, quickConnectVars, Tick, LockExpired, LogOut, LockPending, Locks, Rollback
<1> QED
  BY <1>1, QuickConnectInvariance, PTL DEF QuickConnectSpec, AuthorizationIsFinal

-----------------------------------------------------------------------------
(* The commands of a session *)

Phases == {"Closed", "Subscribed", "Replaying", "Deleting", "Open"}
SocketRecords == [phase : Phases, queue : Seq(Commands), replay : Seq(Commands), blind : BOOLEAN]

CommandsTyped ==
    /\ stored \in SUBSET Commands
    /\ senders \in [Commands -> {"New", "Stored", "Offered", "Waiting", "Done"}]
    /\ sockets \in [Sockets -> SocketRecords]

Queued(at, m) == \E c \in Sockets : m \in ToSet(at[c].queue)

\* A command that was offered went into a queue.
OfferedIsQueued ==
    \A m \in Commands : senders[m] = "Offered" => m \in sent \cup dropped \/ Queued(sockets, m)

\* What is deleted at a replay has been sent.
DeletingSent ==
    \A c \in Sockets : SocketIs(c, "Deleting") =>
        sockets[c].replay # <<>> /\ Head(sockets[c].replay) \in sent

\* A connection that replays has yet to replay what nobody took.
ReplayHasWaiting ==
    \A m \in Commands, c \in Sockets :
        /\ senders[m] = "Waiting" /\ m \in stored \ sent
        /\ sockets[c].phase \in {"Replaying", "Deleting"}
        => m \in ToSet(sockets[c].replay)

\* A connection that is not there has nothing queued.
ClosedIsEmpty == \A c \in Sockets : SocketIs(c, "Closed") => sockets[c].queue = <<>>

CommandsInv ==
    /\ CommandsTyped /\ ClosedIsEmpty /\ OfferedIsQueued /\ DeletingSent /\ ReplayHasWaiting
    /\ OutboxKeepsUnsent /\ NobodyOpenMisses

\* An order of a finite set lists its elements.
LEMMA OrderLists ==
    ASSUME NEW S, IsFiniteSet(S), NEW s \in SetToSeqs(S)
    PROVE  s \in Seq(S) /\ ToSet(s) = S
<1> DEFINE n == Cardinality(S)
<1>1. n \in Nat /\ s \in [1..n -> S] /\ \A i, j \in 1..n : i # j => s[i] # s[j]
  BY FS_CardinalityType DEF SetToSeqs
<1>2. s \in Injection(1..n, S)
  BY <1>1 DEF Injection, IsInjective
<1>3. IsFiniteSet(1..n) /\ Cardinality(1..n) = n
  BY <1>1, FS_Interval
<1>4. s \in Surjection(1..n, S)
  BY <1>2, <1>3, FS_Injection
<1>5. \A x \in S : \E i \in 1..n : s[i] = x
  BY <1>4 DEF Surjection
<1> QED
  BY <1>1, <1>5 DEF ToSet

\* A sequence that is not empty lists its head and what its tail lists.
LEMMA HeadAndTail ==
    ASSUME NEW S, NEW s \in Seq(S), s # <<>>
    PROVE  Head(s) \in S /\ Tail(s) \in Seq(S) /\ ToSet(s) = {Head(s)} \cup ToSet(Tail(s))
<1>1. Len(s) \in Nat \ {0} /\ Head(s) = s[1] /\ Tail(s) \in Seq(S) /\ Len(Tail(s)) = Len(s) - 1
  OBVIOUS
<1>2. \A i \in 1..(Len(s) - 1) : Tail(s)[i] = s[i + 1]
  OBVIOUS
<1>3. \A j \in 1..Len(s) : j = 1 \/ (j - 1 \in 1..(Len(s) - 1) /\ s[j] = Tail(s)[j - 1])
  BY <1>1, <1>2
<1>4. \A i \in 1..(Len(s) - 1) : i + 1 \in 1..Len(s)
  BY <1>1
<1>5. 1 \in 1..Len(s) /\ DOMAIN s = 1..Len(s) /\ DOMAIN Tail(s) = 1..(Len(s) - 1) /\ Head(s) \in S
  BY <1>1
<1>6. ToSet(s) \subseteq {Head(s)} \cup ToSet(Tail(s))
  <2>1. ASSUME NEW j \in 1..Len(s) PROVE s[j] \in {Head(s)} \cup ToSet(Tail(s))
    <3>1. CASE j = 1
      BY <1>1, <3>1
    <3>2. CASE j - 1 \in DOMAIN Tail(s) /\ s[j] = Tail(s)[j - 1]
      BY <3>2 DEF ToSet
    <3> QED
      BY <1>3, <1>5, <3>1, <3>2
  <2> QED
    BY <1>5, <2>1 DEF ToSet
<1>7. {Head(s)} \cup ToSet(Tail(s)) \subseteq ToSet(s)
  BY <1>1, <1>2, <1>4, <1>5 DEF ToSet
<1> QED
  BY <1>1, <1>5, <1>6, <1>7

\* A pushed message is in the queue, and all that were but the one forgotten.
LEMMA PushedLists ==
    ASSUME NEW q \in Seq(Commands), NEW m \in Commands
    PROVE  /\ Pushed(q, m) \in Seq(Commands) /\ m \in ToSet(Pushed(q, m))
           /\ \A x \in ToSet(q) : x \in ToSet(Pushed(q, m)) \/ (Len(q) >= QueueCapacity /\ x = Head(q))
<1>1. ASSUME NEW s \in Seq(Commands)
      PROVE  Append(s, m) \in Seq(Commands) /\ ToSet(Append(s, m)) = ToSet(s) \cup {m}
  <2>1. /\ Append(s, m) \in Seq(Commands) /\ Len(Append(s, m)) = Len(s) + 1
        /\ Append(s, m)[Len(s) + 1] = m /\ \A i \in 1..Len(s) : Append(s, m)[i] = s[i]
    OBVIOUS
  <2>2. 1..(Len(s) + 1) = 1..Len(s) \cup {Len(s) + 1}
    OBVIOUS
  <2> QED
    BY <2>1, <2>2 DEF ToSet
<1>2. CASE Len(q) < QueueCapacity
  BY <1>1, <1>2 DEF Pushed
<1>3. CASE ~(Len(q) < QueueCapacity)
  <2>1. Len(q) >= QueueCapacity /\ q # <<>>
    BY <1>3, CommandsAssumption
  <2>2. Tail(q) \in Seq(Commands) /\ ToSet(q) = {Head(q)} \cup ToSet(Tail(q))
    BY <2>1, HeadAndTail
  <2> QED
    BY <1>1, <1>3, <2>1, <2>2 DEF Pushed
<1> QED
  BY <1>2, <1>3

\* Nothing was stored and nobody is connected at first.
LEMMA CommandsInitInv == CommandsInit => CommandsInv
<1> SUFFICES ASSUME CommandsInit PROVE CommandsInv
  OBVIOUS
<1>1. NoSocket \in SocketRecords
  BY DEF NoSocket, SocketRecords, Phases
<1> QED
  BY <1>1 DEF CommandsInit, CommandsInv, CommandsTyped, OfferedIsQueued, ClosedIsEmpty, DeletingSent, ReplayHasWaiting,
       OutboxKeepsUnsent, NobodyOpenMisses, SocketIs, NoSocket

\* The steps of requests.
LEMMA RequestStep ==
    ASSUME CommandsInv, NEW m \in Commands,
           Enqueue(m) \/ Offer(m) \/ DeleteOffered(m) \/ AbandonCommand(m)
    PROVE  CommandsInv'
<1> USE DEF CommandsInv
<1>1. CASE Enqueue(m)
  BY <1>1 DEF Enqueue, CommandsTyped, OfferedIsQueued, ClosedIsEmpty, DeletingSent, ReplayHasWaiting,
       OutboxKeepsUnsent, NobodyOpenMisses, SocketIs, Queued
<1>2. CASE Offer(m)
  <2> USE <1>2 DEF Offer
  <2>1. ASSUME NEW c \in Sockets
        PROVE  /\ sockets'[c] \in SocketRecords
               /\ sockets'[c].phase = sockets[c].phase /\ sockets'[c].replay = sockets[c].replay
               /\ sockets'[c].blind = sockets[c].blind
               /\ c \in Subscribed => m \in ToSet(sockets'[c].queue)
               /\ \A x \in ToSet(sockets[c].queue) : x \in ToSet(sockets'[c].queue) \cup dropped'
    <3>1. sockets[c] \in SocketRecords /\ sockets[c].queue \in Seq(Commands)
      BY DEF CommandsTyped, SocketRecords
    <3>2. CASE c \in Subscribed
      <4>1. sockets'[c] = [sockets[c] EXCEPT !.queue = Pushed(@, m)]
        BY <3>2
      <4>2. /\ sockets'[c].queue = Pushed(sockets[c].queue, m)
            /\ sockets'[c].phase = sockets[c].phase /\ sockets'[c].replay = sockets[c].replay
            /\ sockets'[c].blind = sockets[c].blind
        BY <3>1, <4>1 DEF SocketRecords
      <4>3. Pushed(sockets[c].queue, m) \in Seq(Commands) /\ m \in ToSet(Pushed(sockets[c].queue, m))
        BY <3>1, PushedLists
      <4>4. \A x \in ToSet(sockets[c].queue) : x \in ToSet(sockets'[c].queue) \cup dropped'
        <5>1. Len(sockets[c].queue) >= QueueCapacity => Head(sockets[c].queue) \in dropped'
          BY <3>2
        <5> QED
          BY <3>1, <4>2, <5>1, PushedLists
      <4>5. sockets'[c] \in SocketRecords
        BY <3>1, <4>1, <4>3 DEF SocketRecords
      <4> QED
        BY <4>2, <4>3, <4>4, <4>5
    <3>3. CASE c \notin Subscribed
      BY <3>1, <3>3
    <3> QED
      BY <3>2, <3>3
  <2>2. CommandsTyped'
    BY <2>1 DEF CommandsTyped
  <2>3. \A x \in Commands : Queued(sockets, x) => Queued(sockets', x) \/ x \in dropped'
    BY <2>1 DEF Queued
  <2>4. OfferedIsQueued'
    <3>1. senders'[m] = "Offered" => Subscribed # {}
      BY DEF CommandsTyped
    <3>2. senders'[m] = "Offered" => Queued(sockets', m)
      BY <2>1, <3>1 DEF Queued, Subscribed
    <3>3. \A x \in Commands \ {m} : senders'[x] = senders[x]
      BY DEF CommandsTyped
    <3> QED
      BY <2>3, <3>2, <3>3 DEF OfferedIsQueued
  <2>5. DeletingSent' /\ NobodyOpenMisses'
    BY <2>1 DEF DeletingSent, NobodyOpenMisses, SocketIs, CommandsTyped, Subscribed
  <2>6. ReplayHasWaiting'
    BY <2>1 DEF ReplayHasWaiting, SocketIs, CommandsTyped, Subscribed
  <2>7. OutboxKeepsUnsent'
    <3>1. \A x \in Commands : senders'[x] # "New" => senders[x] # "New"
      BY DEF CommandsTyped
    <3> QED
      BY <2>3, <3>1 DEF OutboxKeepsUnsent, Queued
  <2>8. ClosedIsEmpty'
    <3>1. \A c \in Sockets : c \notin Subscribed => sockets'[c] = sockets[c]
      OBVIOUS
    <3> QED
      BY <2>1, <3>1 DEF ClosedIsEmpty, SocketIs, Subscribed
  <2> QED
    BY <2>2, <2>4, <2>5, <2>6, <2>7, <2>8
<1>3. CASE DeleteOffered(m)
  BY <1>3 DEF DeleteOffered, CommandsTyped, OfferedIsQueued, ClosedIsEmpty, DeletingSent, ReplayHasWaiting,
       OutboxKeepsUnsent, NobodyOpenMisses, SocketIs, Queued
<1>4. CASE AbandonCommand(m)
  BY <1>4 DEF AbandonCommand, CommandsTyped, OfferedIsQueued, ClosedIsEmpty, DeletingSent, ReplayHasWaiting,
       OutboxKeepsUnsent, NobodyOpenMisses, SocketIs, Queued
<1> QED
  BY <1>1, <1>2, <1>3, <1>4

\* How the socket of one connection may change without a loss.
LEMMA SocketStep ==
    ASSUME CommandsInv, NEW c \in Sockets, NEW s \in SocketRecords,
           sockets' = [sockets EXCEPT ![c] = s], UNCHANGED senders,
           stored' \in SUBSET stored, stored \ stored' \subseteq sent',
           sent \subseteq sent', dropped \subseteq dropped',
           s.phase = "Closed" => s.queue = <<>>,
           ToSet(sockets[c].queue) \subseteq ToSet(s.queue) \cup sent' \cup dropped',
           s.phase = "Deleting" => s.replay # <<>> /\ Head(s.replay) \in sent',
           \A m \in Commands : senders[m] = "Waiting" /\ m \in stored' \ sent' =>
               /\ s.phase \in {"Replaying", "Deleting"} => m \in ToSet(s.replay)
               /\ s.phase = "Open" => s.blind
    PROVE  CommandsInv'
<1> USE DEF CommandsInv
<1>1. sockets'[c] = s /\ \A d \in Sockets \ {c} : sockets'[d] = sockets[d]
  BY DEF CommandsTyped
<1>2. CommandsTyped'
  BY DEF CommandsTyped
<1>3. \A x \in Commands : Queued(sockets, x) => Queued(sockets', x) \/ x \in sent' \cup dropped'
  BY <1>1 DEF Queued
<1>4. OfferedIsQueued' /\ OutboxKeepsUnsent'
  BY <1>3 DEF OfferedIsQueued, OutboxKeepsUnsent, Queued
<1>5. DeletingSent'
  BY <1>1 DEF DeletingSent, SocketIs
<1>6. ReplayHasWaiting' /\ NobodyOpenMisses'
  BY <1>1 DEF ReplayHasWaiting, NobodyOpenMisses, SocketIs
<1>7. ClosedIsEmpty'
  BY <1>1 DEF ClosedIsEmpty, SocketIs
<1> QED
  BY <1>2, <1>4, <1>5, <1>6, <1>7

\* The steps of a connection.
LEMMA ConnectionStep ==
    ASSUME CommandsInv, NEW c \in Sockets,
           \/ Connect(c) \/ ListCommands(c) \/ Replay(c) \/ DeleteReplayed(c)
           \/ BeginLoop(c) \/ Deliver(c) \/ Break(c)
    PROVE  CommandsInv'
<1> DEFINE s == sockets[c]
<1>1. /\ s \in SocketRecords /\ s.queue \in Seq(Commands) /\ s.replay \in Seq(Commands)
      /\ NoSocket \in SocketRecords /\ NoSocket.queue = <<>> /\ NoSocket.phase = "Closed"
      /\ sockets \in [Sockets -> SocketRecords] /\ stored \in SUBSET Commands
  BY DEF CommandsInv, CommandsTyped, SocketRecords, Phases, NoSocket
<1>2. /\ s.phase = "Deleting" => s.replay # <<>> /\ Head(s.replay) \in sent
      /\ \A m \in Commands : senders[m] = "Waiting" /\ m \in stored \ sent =>
            /\ s.phase \in {"Replaying", "Deleting"} => m \in ToSet(s.replay)
            /\ s.phase = "Open" => s.blind
      /\ s.phase = "Closed" => s.queue = <<>>
  BY DEF CommandsInv, ClosedIsEmpty, DeletingSent, ReplayHasWaiting, NobodyOpenMisses, SocketIs
<1>3. CASE Connect(c)
  <2> DEFINE new == [NoSocket EXCEPT !.phase = "Subscribed"]
  <2>1. new \in SocketRecords /\ new.phase = "Subscribed" /\ new.queue = <<>>
    BY <1>1 DEF NoSocket, SocketRecords, Phases
  <2>2. sockets' = [sockets EXCEPT ![c] = new] /\ s.queue = <<>>
    BY <1>2, <1>3 DEF Connect, SocketIs
  <2> HIDE DEF new
  <2> QED
    BY <1>3, <2>1, <2>2, SocketStep DEF Connect
<1>4. CASE ListCommands(c)
  <2>1. ASSUME NEW rows \in SetToSeqs(stored),
               sockets' = [sockets EXCEPT ![c].phase = "Replaying", ![c].replay = rows]
        PROVE  CommandsInv'
    <3> DEFINE new == [s EXCEPT !.phase = "Replaying", !.replay = rows]
    <3>1. IsFiniteSet(stored)
      <4>1. IsFiniteSet(Commands)
        BY CommandsAssumption, FS_Interval DEF Commands
      <4> QED
        BY <1>1, <4>1, FS_Subset
    <3>2. rows \in Seq(Commands) /\ ToSet(rows) = stored
      <4>1. rows \in Seq(stored) /\ ToSet(rows) = stored
        BY <3>1, OrderLists
      <4> QED
        BY <1>1, <4>1
    <3>3. /\ new \in SocketRecords /\ new.phase = "Replaying" /\ new.queue = s.queue
          /\ new.replay = rows
      BY <1>1, <3>2 DEF SocketRecords, Phases
    <3>4. sockets' = [sockets EXCEPT ![c] = new]
      BY <1>1, <2>1
    <3> HIDE DEF new
    <3> QED
      BY <1>4, <3>2, <3>3, <3>4, SocketStep DEF ListCommands
  <2>2. ASSUME sockets' = [sockets EXCEPT ![c].phase = "Open", ![c].blind = TRUE]
        PROVE  CommandsInv'
    <3> DEFINE new == [s EXCEPT !.phase = "Open", !.blind = TRUE]
    <3>1. /\ new \in SocketRecords /\ new.phase = "Open" /\ new.queue = s.queue
          /\ new.blind = TRUE
      BY <1>1 DEF SocketRecords, Phases
    <3>2. sockets' = [sockets EXCEPT ![c] = new]
      BY <1>1, <2>2
    <3> HIDE DEF new
    <3> QED
      BY <1>4, <3>1, <3>2, SocketStep DEF ListCommands
  <2> QED
    BY <1>4, <2>1, <2>2 DEF ListCommands
<1>5. CASE Replay(c)
  <2> DEFINE new == [s EXCEPT !.phase = "Deleting"]
  <2>1. /\ new \in SocketRecords /\ new.phase = "Deleting" /\ new.queue = s.queue
        /\ new.replay = s.replay
    BY <1>1 DEF SocketRecords, Phases
  <2>2. sockets' = [sockets EXCEPT ![c] = new]
    BY <1>1, <1>5 DEF Replay
  <2>3. /\ s.phase = "Replaying" /\ s.replay # <<>> /\ sent' = sent \cup {Head(s.replay)}
        /\ UNCHANGED <<stored, senders, dropped>>
    BY <1>5 DEF Replay, SocketIs
  <2> HIDE DEF new
  <2> QED
    BY <1>2, <2>1, <2>2, <2>3, SocketStep
<1>6. CASE DeleteReplayed(c)
  <2> DEFINE new == [s EXCEPT !.phase = "Replaying", !.replay = Tail(@)]
  <2>1. s.phase = "Deleting" /\ s.replay # <<>> /\ Head(s.replay) \in sent
    BY <1>2, <1>6 DEF DeleteReplayed, SocketIs
  <2>2. Tail(s.replay) \in Seq(Commands) /\ ToSet(s.replay) = {Head(s.replay)} \cup ToSet(Tail(s.replay))
    BY <1>1, <2>1, HeadAndTail
  <2>3. /\ new \in SocketRecords /\ new.phase = "Replaying" /\ new.queue = s.queue
        /\ new.replay = Tail(s.replay)
    BY <1>1, <2>2 DEF SocketRecords, Phases
  <2>4. sockets' = [sockets EXCEPT ![c] = new]
    BY <1>1, <1>6 DEF DeleteReplayed
  <2>5. /\ stored' \in SUBSET stored /\ stored \ stored' \subseteq sent
        /\ UNCHANGED <<senders, sent, dropped>>
    BY <1>6, <2>1 DEF DeleteReplayed
  <2> HIDE DEF new
  <2> QED
    BY <1>2, <2>1, <2>2, <2>3, <2>4, <2>5, SocketStep
<1>7. CASE BeginLoop(c)
  <2> DEFINE new == [s EXCEPT !.phase = "Open"]
  <2>1. new \in SocketRecords /\ new.phase = "Open" /\ new.queue = s.queue
    BY <1>1 DEF SocketRecords, Phases
  <2>2. sockets' = [sockets EXCEPT ![c] = new]
    BY <1>1, <1>7 DEF BeginLoop
  <2>3. /\ s.phase = "Replaying" /\ ToSet(s.replay) = {}
        /\ UNCHANGED <<stored, senders, sent, dropped>>
    BY <1>7 DEF BeginLoop, SocketIs, ToSet
  <2> HIDE DEF new
  <2> QED
    BY <1>2, <2>1, <2>2, <2>3, SocketStep
<1>8. CASE Deliver(c)
  <2> DEFINE new == [s EXCEPT !.queue = Tail(@)]
  <2>1. s.phase = "Open" /\ s.queue # <<>>
    BY <1>8 DEF Deliver, SocketIs
  <2>2. Tail(s.queue) \in Seq(Commands) /\ ToSet(s.queue) = {Head(s.queue)} \cup ToSet(Tail(s.queue))
    BY <1>1, <2>1, HeadAndTail
  <2>3. /\ new \in SocketRecords /\ new.phase = "Open" /\ new.queue = Tail(s.queue)
        /\ new.blind = s.blind
    BY <1>1, <2>1, <2>2 DEF SocketRecords, Phases
  <2>4. sockets' = [sockets EXCEPT ![c] = new]
    BY <1>1, <1>8 DEF Deliver
  <2>5. sent' = sent \cup {Head(s.queue)} /\ UNCHANGED <<stored, senders, dropped>>
    BY <1>8 DEF Deliver
  <2> HIDE DEF new
  <2> QED
    BY <1>2, <2>1, <2>2, <2>3, <2>4, <2>5, SocketStep
<1>9. CASE Break(c)
  BY <1>1, <1>9, SocketStep DEF Break
<1> QED
  BY <1>3, <1>4, <1>5, <1>6, <1>7, <1>8, <1>9

\* A restart keeps the outbox, and forgets who waits for what.
LEMMA RestartStep == CommandsInv /\ RestartHub => CommandsInv'
<1> SUFFICES ASSUME CommandsInv, RestartHub PROVE CommandsInv'
  OBVIOUS
<1> USE DEF CommandsInv, RestartHub
<1>1. NoSocket \in SocketRecords /\ NoSocket.queue = <<>> /\ NoSocket.phase = "Closed"
  BY DEF SocketRecords, Phases, NoSocket
<1>2. \A c \in Sockets : sockets'[c] = NoSocket
  OBVIOUS
<1>3. \A m \in Commands : senders'[m] \in {"New", "Done"} /\ (senders'[m] # "New" => senders[m] # "New")
  BY DEF CommandsTyped
<1>4. CommandsTyped'
  BY <1>1, <1>3 DEF CommandsTyped
<1>5. OutboxKeepsUnsent'
  <2>1. \A m \in Commands : (\E c \in Sockets : m \in ToSet(sockets[c].queue)) => m \in dropped'
    OBVIOUS
  <2> QED
    BY <1>3, <2>1 DEF OutboxKeepsUnsent
<1>6. OfferedIsQueued' /\ ReplayHasWaiting' /\ NobodyOpenMisses'
  BY <1>3 DEF OfferedIsQueued, ReplayHasWaiting, NobodyOpenMisses
<1>7. ClosedIsEmpty' /\ DeletingSent'
  BY <1>1, <1>2 DEF ClosedIsEmpty, DeletingSent, SocketIs
<1> QED
  BY <1>4, <1>5, <1>6, <1>7

\* The invariant holds through all requests, connections and restarts.
LEMMA CommandsInvariance == CommandsSpec => []CommandsInv
<1>1. CommandsInv /\ [CommandsNext]_commandVars => CommandsInv'
  <2> SUFFICES ASSUME CommandsInv, [CommandsNext]_commandVars PROVE CommandsInv'
    OBVIOUS
  <2>1. CASE UNCHANGED commandVars
    BY <2>1 DEF commandVars, CommandsInv, CommandsTyped, ClosedIsEmpty, OfferedIsQueued, DeletingSent,
         ReplayHasWaiting, OutboxKeepsUnsent, NobodyOpenMisses, SocketIs, Queued
  <2> QED
    BY <2>1, RequestStep, ConnectionStep, RestartStep DEF CommandsNext
<1> QED
  BY <1>1, CommandsInitInv, PTL DEF CommandsSpec

\* A stored command is in the outbox until it has been sent or a connection has it
\* in its queue, for any number of commands and connections and any capacity of the
\* queues.
THEOREM StoredCommandsAreKept == CommandsSpec => []OutboxKeepsUnsent
BY CommandsInvariance, PTL DEF CommandsInv

\* No command waits for the next connection while one is open that could list the
\* outbox: subscribing before the replay leaves no gap.
THEOREM OpenConnectionsAreOffered == CommandsSpec => []NobodyOpenMisses
BY CommandsInvariance, PTL DEF CommandsInv
=============================================================================
