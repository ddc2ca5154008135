----------------------------- MODULE QuickConnect -----------------------------
(***************************************************************************)
(* Quick Connect: QuickConnectManager of                                   *)
(* jellyfin-server-implementations/src/quick_connect.rs over the rows of   *)
(* jellyfin-data/src/quick_connect_repository.rs.  A new device asks for a *)
(* code, users who are logged in authorize the code, and the device        *)
(* fetches, by its secret, the session that this made.  Rows expire; the   *)
(* code of a row that is gone may be given out again.                      *)
(*                                                                         *)
(* Secrets are numbered as they are made: none is made twice.  Each call   *)
(* reads the clock before it gets to the database, so that its time may be *)
(* a tick old.  Polling changes nothing and is left out.                   *)
(***************************************************************************)
EXTENDS Naturals

CONSTANTS Codes,
          Users,
          Authorizers,  \* calls that authorize a code
          NoUser,       \* of a pending request
          MaxSecret,    \* bound: requests in all
          MaxTime,      \* bound: ticks
          Lifetime      \* REQUEST_TIMEOUT_MINUTES

ASSUME QuickConnectAssumption ==
    /\ NoUser \notin Users
    /\ "None" \notin Codes
    /\ MaxSecret \in Nat /\ MaxTime \in Nat /\ Lifetime \in Nat \ {0}

VARIABLES clock,
          requests,     \* the row of each code; without one its secret is 0
          devices,      \* the device sessions that ever came from a request
          lastSecret,   \* how many requests there were
          transactions  \* what each call to authorize has locked and is about to do

quickConnectVars == <<clock, requests, devices, lastSecret, transactions>>

NoRequest == [secret |-> 0, expires |-> 0, user |-> NoUser]
NoTransaction == [code |-> "None", user |-> NoUser, now |-> 0]

QuickConnectInit ==
    /\ clock = 0
    /\ requests = [k \in Codes |-> NoRequest]
    /\ devices = {}
    /\ lastSecret = 0
    /\ transactions = [a \in Authorizers |-> NoTransaction]

Exists(k) == requests[k].secret # 0

\* The times that a call can have read.
Nows == {clock, IF clock = 0 THEN 0 ELSE clock - 1}

\* Mutant of Unlocked: a row is read without FOR UPDATE.
UnlockedAlways(k) == TRUE

\* No transaction has the row of k.
Unlocked(k) == \A a \in Authorizers : transactions[a].code # k

Tick ==
    /\ clock < MaxTime
    /\ clock' = clock + 1
    /\ UNCHANGED <<requests, devices, lastSecret, transactions>>

\* purge_expired of try_connect; a delete waits for a row that is locked.
Purge(now) ==
    LET expired == {k \in Codes : Exists(k) /\ requests[k].expires <= now}
    IN  /\ \A k \in expired : Unlocked(k)
        /\ requests' = [k \in Codes |-> IF k \in expired THEN NoRequest ELSE requests[k]]
        /\ UNCHANGED <<clock, devices, lastSecret, transactions>>

\* Then create: a code that is in use is a conflict and another one is drawn.
CreateRequest(k, now) ==
    /\ ~Exists(k)
    /\ lastSecret < MaxSecret
    /\ lastSecret' = lastSecret + 1
    /\ requests' = [requests EXCEPT ![k] =
           [secret |-> lastSecret', expires |-> now + Lifetime, user |-> NoUser]]
    /\ UNCHANGED <<clock, devices, transactions>>

\* authorize locks the row of its code; what is expired is deleted.
LockExpired(k, now) ==
    /\ Exists(k) /\ Unlocked(k)
    /\ requests[k].expires <= now
    /\ requests' = [requests EXCEPT ![k] = NoRequest]
    /\ UNCHANGED <<clock, devices, lastSecret, transactions>>

Locks(a, k, u, now) ==
    /\ transactions[a] = NoTransaction
    /\ Exists(k) /\ Unlocked(k)
    /\ requests[k].expires > now
    /\ transactions' = [transactions EXCEPT ![a] = [code |-> k, user |-> u, now |-> now]]
    /\ UNCHANGED <<clock, requests, devices, lastSecret>>

\* Mutant of LockPending: a request that is authorized is authorized again.
LockAny(a, k, u, now) == Locks(a, k, u, now)

LockPending(a, k, u, now) == requests[k].user = NoUser /\ Locks(a, k, u, now)

\* The device and the row are committed together ...
CommitAuthorization(a) ==
    LET k == transactions[a].code
        u == transactions[a].user
    IN  /\ transactions[a] # NoTransaction
        /\ devices' = devices \cup {[secret |-> requests[k].secret, user |-> u, by |-> a]}
        /\ requests' = [requests EXCEPT ![k].expires = transactions[a].now + Lifetime, ![k].user = u]
        /\ transactions' = [transactions EXCEPT ![a] = NoTransaction]
        /\ UNCHANGED <<clock, lastSecret>>

\* ... or, if a statement fails or the call is dropped, not at all.
Rollback(a) ==
    /\ transactions[a] # NoTransaction
    /\ transactions' = [transactions EXCEPT ![a] = NoTransaction]
    /\ UNCHANGED <<clock, requests, devices, lastSecret>>

\* The session of an authorized request is logged out; the row goes with the device.
LogOut(k) ==
    /\ Exists(k) /\ Unlocked(k)
    /\ requests[k].user # NoUser
    /\ requests' = [requests EXCEPT ![k] = NoRequest]
    /\ UNCHANGED <<clock, devices, lastSecret, transactions>>

QuickConnectNext ==
    \/ Tick
    \/ \E k \in Codes : LogOut(k)
    \/ \E now \in Nows :
          \/ Purge(now)
          \/ \E k \in Codes :
                \/ CreateRequest(k, now) \/ LockExpired(k, now)
                \/ \E a \in Authorizers, u \in Users : LockPending(a, k, u, now)
    \/ \E a \in Authorizers : CommitAuthorization(a) \/ Rollback(a)

QuickConnectSpec == QuickConnectInit /\ [][QuickConnectNext]_quickConnectVars

-----------------------------------------------------------------------------
(* Properties *)

\* However many users authorize a code at a time, and whatever becomes of the rows,
\* one request makes one device session at most.
OneDevicePerRequest ==
    \A d, e \in devices : d.secret = e.secret => d = e

\* Who has authorized a request stays who it is authorized by as long as it exists:
\* the session that its secret fetches does not become another user's.
AuthorizationIsFinal ==
    [][\A k \in Codes :
          requests[k].user # NoUser /\ requests'[k].secret = requests[k].secret
              => requests'[k].user = requests[k].user]_quickConnectVars
=============================================================================
