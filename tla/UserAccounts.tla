----------------------------- MODULE UserAccounts -----------------------------
(***************************************************************************)
(* The accounts: UserService of jellyfin-controller/src/users.rs, with the *)
(* login of jellyfin-controller/src/sessions.rs and the start-up of        *)
(* jellyfin-server/src/main.rs, over the rows of one table.                *)
(*                                                                         *)
(* Transactions are READ COMMITTED: a statement sees what is committed     *)
(* when it runs.  Deleting an account, replacing a policy and copying one  *)
(* first take an advisory lock, held to the end of the transaction; logins *)
(* and passwords do not.  Accounts are numbered as they are made, so that  *)
(* the number is also the order of creation.  Passwords are numbered as    *)
(* they are chosen.  Names, and what else a policy says, are left out.     *)
(***************************************************************************)
EXTENDS Naturals, FiniteSetsExt

CONSTANTS Clients,      \* requests and logins that are being handled
          MaxAccount,   \* bound: accounts in all
          MaxPassword   \* bound: passwords chosen in all

ASSUME AccountsAssumption == MaxAccount \in Nat \ {0} /\ MaxPassword \in Nat

VARIABLES accounts,      \* the row of each account that exists
          pins,          \* the accounts with a row in password_resets
          clients,       \* what each client has read and is about to write
          lastAccount,
          lastPassword

accountVars == <<accounts, pins, clients, lastAccount, lastPassword>>

Policies == [admin : BOOLEAN, disabled : BOOLEAN]
Account(policy, password) ==
    [admin |-> policy.admin, disabled |-> policy.disabled, password |-> password]

Existing == DOMAIN accounts
Administrators == {u \in Existing : accounts[u].admin}
Enabled == {u \in Existing : ~accounts[u].disabled}

\* A client: its step, the accounts it is about to change and the policy they get, whether
\* it deletes them, the rows it has locked, and the password its login was checked against.
AtRest == [step |-> "rest", ids |-> {}, policy |-> [admin |-> FALSE, disabled |-> FALSE],
           deletes |-> FALSE, locked |-> {}, seen |-> 0]

AccountsInit ==
    /\ accounts = [u \in {1} |-> Account([admin |-> TRUE, disabled |-> FALSE], 0)]
    /\ pins = {}
    /\ clients = [c \in Clients |-> AtRest]
    /\ lastAccount = 1
    /\ lastPassword = 0

\* Mutant of LockFree: nobody waits for the advisory lock.
LockFreeAlways == TRUE

LockFree == \A c \in Clients : clients[c].step \in {"rest", "login"}

RowFree(u) == \A c \in Clients : u \notin clients[c].locked

Becomes(c, client) ==
    /\ clients' = [clients EXCEPT ![c] = client]
    /\ UNCHANGED <<lastAccount, lastPassword>>

TakeLock(c) ==
    /\ clients[c].step = "rest"
    /\ LockFree
    /\ Becomes(c, [AtRest EXCEPT !.step = "holds"])
    /\ UNCHANGED <<accounts, pins>>

\* The error returns and the client that goes away: the transaction is rolled back.
GivesUp(c) ==
    /\ clients[c].step \in {"holds", "checked"}
    /\ Becomes(c, AtRest)
    /\ UNCHANGED <<accounts, pins>>

Checks(c, change) ==
    /\ clients[c].step = "holds"
    /\ Becomes(c, change)
    /\ UNCHANGED <<accounts, pins>>

\* delete: neither the last user nor the last administrator.
CheckDelete(c, u) ==
    /\ u \in Existing
    /\ Cardinality(Existing) > 1
    /\ accounts[u].admin => Cardinality(Administrators) > 1
    /\ Checks(c, [AtRest EXCEPT !.step = "checked", !.ids = {u}, !.deletes = TRUE])

\* update_policy: an administrator is not disabled, nor the last enabled user.
CheckPolicy(c, u, policy) ==
    /\ u \in Existing
    /\ ~(accounts[u].admin /\ policy.disabled)
    /\ accounts[u].admin /\ ~policy.admin => Cardinality(Administrators) > 1
    /\ ~accounts[u].disabled /\ policy.disabled => Cardinality(Enabled) > 1
    /\ Checks(c, [AtRest EXCEPT !.step = "checked", !.ids = {u}, !.policy = policy])

PolicyOf(u) == [admin |-> accounts[u].admin, disabled |-> accounts[u].disabled]

\* copy_to_users with a policy: the rows are locked, and what the copy leaves is counted.
CheckCopy(c, source, targets) ==
    LET ids == targets \ {source}
        policy == PolicyOf(source)
    IN  /\ {source} \cup targets \subseteq Existing
        /\ \A u \in {source} \cup targets : RowFree(u)
        /\ ids # {} =>
              /\ ~(policy.disabled /\ ids \cap Administrators # {})
              /\ policy.admin \/ Administrators \ ids # {}
              /\ ~policy.disabled \/ Enabled \ ids # {}
        /\ Checks(c, [AtRest EXCEPT !.step = "checked", !.ids = ids, !.policy = policy,
                                    !.locked = {source} \cup targets])

\* The statement that makes the change, and the commit.
Commit(c) ==
    LET change == clients[c]
    IN  /\ change.step = "checked"
        /\ \A u \in change.ids, d \in Clients \ {c} : u \notin clients[d].locked
        /\ IF change.deletes
           THEN /\ accounts' = [u \in Existing \ change.ids |-> accounts[u]]
                /\ pins' = pins \ change.ids
           ELSE /\ accounts' = [u \in Existing |->
                        IF u \in change.ids THEN Account(change.policy, accounts[u].password)
                        ELSE accounts[u]]
                /\ UNCHANGED pins
        /\ Becomes(c, AtRest)

Insert(policy) ==
    /\ lastAccount < MaxAccount
    /\ lastAccount' = lastAccount + 1
    /\ accounts' = [u \in Existing \cup {lastAccount'} |->
           IF u = lastAccount' THEN Account(policy, 0) ELSE accounts[u]]
    /\ UNCHANGED <<pins, clients, lastPassword>>

Create == Insert([admin |-> FALSE, disabled |-> FALSE])

\* create_with_copy holds both locks from its read to its commit.
CreateWithCopy(source) ==
    /\ LockFree
    /\ source \in Existing /\ RowFree(source)
    /\ Insert(PolicyOf(source))

\* A login reads the account; the password is verified against what it has read ...
LoginReads(c, u) ==
    /\ clients[c].step = "rest"
    /\ u \in Existing /\ ~accounts[u].disabled
    /\ Becomes(c, [AtRest EXCEPT !.step = "login", !.ids = {u}, !.seen = accounts[u].password])
    /\ UNCHANGED <<accounts, pins>>

\* Mutant of LoginPassword: a login leaves the password that the account has.
LoginPasswordCurrent(c, u) == accounts[u].password

\* record_successful_authentication: the hash of the account as it was read.
LoginPassword(c, u) == clients[c].seen

\* ... and it is recorded, ...
LoginSucceeds(c) ==
    \E u \in clients[c].ids \cap Existing :
        /\ clients[c].step = "login"
        /\ RowFree(u)
        /\ accounts' = [accounts EXCEPT ![u].password = LoginPassword(c, u)]
        /\ Becomes(c, AtRest)
        /\ UNCHANGED pins

\* ... or the attempt is counted: too many of them disable who is no administrator.
LoginFails(c) ==
    \E u \in clients[c].ids \cap Existing, lockout \in BOOLEAN :
        /\ clients[c].step = "login"
        /\ RowFree(u)
        /\ accounts' = [accounts EXCEPT ![u].disabled = @ \/ (lockout /\ ~accounts[u].admin)]
        /\ Becomes(c, AtRest)
        /\ UNCHANGED pins

\* The account was deleted, the login is refused for another reason or its client goes away.
LoginEnds(c) ==
    /\ clients[c].step = "login"
    /\ Becomes(c, AtRest)
    /\ UNCHANGED <<accounts, pins>>

ChoosePassword(u) ==
    /\ RowFree(u)
    /\ lastPassword < MaxPassword
    /\ lastPassword' = lastPassword + 1
    /\ accounts' = [accounts EXCEPT ![u].password = lastPassword']
    /\ UNCHANGED <<clients, lastAccount>>

SetPassword(u) ==
    /\ u \in Existing
    /\ ChoosePassword(u)
    /\ UNCHANGED pins

ForgotPassword(u) ==
    /\ u \in Existing \ pins
    /\ pins' = pins \cup {u}
    /\ UNCHANGED <<accounts, clients, lastAccount, lastPassword>>

\* The rows that are expired are deleted, the PIN becomes the password and its row goes,
\* in one transaction ...
RedeemPin(u) ==
    /\ u \in pins
    /\ ChoosePassword(u)
    /\ \E expired \in SUBSET (pins \ {u}) : pins' = pins \ ({u} \cup expired)

\* ... which ends after the first deletion when there is no row of that PIN.
PurgePins ==
    /\ \E expired \in SUBSET pins : expired # {} /\ pins' = pins \ expired
    /\ UNCHANGED <<accounts, clients, lastAccount, lastPassword>>

\* The server stops and starts again: what was open is rolled back, and without an enabled
\* administrator the oldest account becomes one.
Restart ==
    /\ clients' = [c \in Clients |-> AtRest]
    /\ accounts' = IF Administrators \cap Enabled # {} THEN accounts
                   ELSE [accounts EXCEPT ![Min(Existing)].admin = TRUE]
    /\ UNCHANGED <<pins, lastAccount, lastPassword>>

AccountsNext ==
    \/ Create
    \/ \E u \in Existing :
          \/ CreateWithCopy(u) \/ SetPassword(u) \/ ForgotPassword(u)
          \/ RedeemPin(u)
    \/ PurgePins
    \/ \E c \in Clients :
          \/ TakeLock(c) \/ GivesUp(c) \/ Commit(c)
          \/ LoginSucceeds(c) \/ LoginFails(c) \/ LoginEnds(c)
          \/ \E u \in Existing :
                \/ CheckDelete(c, u) \/ LoginReads(c, u)
                \/ \E policy \in Policies : CheckPolicy(c, u, policy)
                \/ \E targets \in SUBSET Existing \ {{}} : CheckCopy(c, u, targets)
    \/ Restart

AccountsSpec == AccountsInit /\ [][AccountsNext]_accountVars

-----------------------------------------------------------------------------
(* Properties *)

\* The server never loses its last administrator, whatever deletions, demotions and copies
\* are handled at a time: none of them acts on a count that another one is changing.
AdministratorStays == Administrators # {}

\* A password that was replaced, by its user or with a PIN, does not come back.
PasswordStays ==
    [][\A u \in DOMAIN accounts \cap DOMAIN accounts' :
          accounts'[u].password >= accounts[u].password]_accountVars
=============================================================================
