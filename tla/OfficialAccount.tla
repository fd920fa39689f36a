--------------------------- MODULE OfficialAccount ---------------------------
(***************************************************************************)
(* An official connection: its grant, its lifecycle audit, its own-content *)
(* checkpoint and its deletion (oauth.rs, account_sync.rs,                 *)
(* privacy_deletion.rs).                                                   *)
(*                                                                         *)
(* Transactions run at READ COMMITTED.  The DELETE that opens a refresh or *)
(* a revocation finds its credential rows in the snapshot of that          *)
(* statement, waits for the rows other transactions hold, and skips those  *)
(* they deleted; a row committed after its snapshot is not seen.  It is    *)
(* therefore a step of its own, and so is the wait.  The UPDATE of the     *)
(* account row that follows is held to the commit: what comes after the    *)
(* wait is one step.  A deletion of the connection locks the account row   *)
(* first and then waits for the credential rows, the opposite order; the   *)
(* database ends such a deadlock by failing one of the two.                *)
(*                                                                         *)
(* Encryption is left out: a stored grant is a row with its scopes.  The   *)
(* owner's library and the blobs of a deleted post are in SourceHoldings   *)
(* and BlobStore.  A call of the provider is an input of the step after    *)
(* it.                                                                     *)
(***************************************************************************)
EXTENDS Naturals, FiniteSets

CONSTANTS
    Accounts,    \* account_id values
    ProviderOf,  \* provider_account_id of each
    Scopes,      \* what a grant covers: "basic" holds threads_basic
    Calls,       \* calls of refresh, revoke and apply that may be open at once
    Scans,       \* calls of sync that may be open at once
    Operations,  \* operation_id values of deletion requests
    LastPage,    \* pages the provider lists
    MaxGrants    \* bound: grants ever stored

ASSUME AccountAssumption ==
    /\ ProviderOf \in [Accounts -> Accounts]
    /\ "none" \notin Scopes \union Accounts \union Operations
    /\ LastPage \in Nat \ {0}
    /\ MaxGrants \in Nat

VARIABLES
    accounts,     \* account -> its row, status "absent" without one
    credentials,  \* the credential rows
    audit,        \* account -> its newest credential_audit event, "none" without one
    checkpoints,  \* account -> page of its watermark, 0 for none
    observed,     \* account -> the pages recorded for it
    operations,   \* deletion_operations rows
    calls,        \* the open lifecycle and deletion calls
    scans,        \* the open scans
    raced,        \* history: what overlapped since an account was connected
    grants        \* grants stored so far

accountVars == <<accounts, credentials, audit, checkpoints, observed, operations, calls, scans,
                 raced, grants>>

Absent == [status |-> "absent", scopes |-> "none"]

Credentials == [id : Nat, account : Accounts, scopes : Scopes]

IdleCall == [at |-> "idle", kind |-> "none", account |-> "none", scopes |-> "none",
             operation |-> "none", rows |-> {}]

IdleScan == [at |-> "idle", account |-> "none", watermark |-> 0]

Exists(a) == accounts[a] # Absent

Grants(a) == {r \in credentials : r.account = a}

AccountInit ==
    /\ accounts = [a \in Accounts |-> Absent]
    /\ credentials = {}
    /\ audit = [a \in Accounts |-> "none"]
    /\ checkpoints = [a \in Accounts |-> 0]
    /\ observed = [a \in Accounts |-> {}]
    /\ operations = {}
    /\ calls = [c \in Calls |-> IdleCall]
    /\ scans = [s \in Scans |-> IdleScan]
    /\ raced = [a \in Accounts |-> {}]
    /\ grants = 0

-----------------------------------------------------------------------------
(***************************************************************************)
(* Locks.  A deletion holds the account row from require_owned_locked on,  *)
(* also the posts of the account once it has detached them, and every      *)
(* transaction holds the credential rows it has deleted.                   *)
(***************************************************************************)
DeletionAt(a, stages) ==
    \E c \in Calls : /\ calls[c].kind = "delete"
                     /\ calls[c].account = a
                     /\ calls[c].at \in stages

AccountFree(a) == ~ DeletionAt(a, {"locked", "scanning", "holding"})

PostsFree(a) == ~ DeletionAt(a, {"scanning", "holding"})

RowsFree(c) ==
    \A d \in Calls \ {c} : calls[d].at = "holding" => calls[d].rows \intersect calls[c].rows = {}

LifecycleOpen(a) ==
    {c \in Calls : calls[c].kind \in {"refresh", "revoke"} /\ calls[c].account = a}

(***************************************************************************)
(* The open scans that go on from a watermark of the account.              *)
(***************************************************************************)
ScansUnderWay(a) == {s \in Scans : scans[s].account = a /\ scans[s].watermark # 0}

Granted(a, scopes) == [id |-> grants + 1, account |-> a, scopes |-> scopes]

(***************************************************************************)
(* A connection is inserted, never replaced: a second row for the account  *)
(* or for its provider identity is refused.                                *)
(***************************************************************************)
connect(a, scopes) ==
    /\ \A b \in Accounts : Exists(b) => b # a /\ ProviderOf[b] # ProviderOf[a]
    /\ grants < MaxGrants
    /\ accounts' = [accounts EXCEPT ![a] = [status |-> "connected", scopes |-> scopes]]
    /\ credentials' = (credentials \ Grants(a)) \union {Granted(a, scopes)}
    /\ audit' = [audit EXCEPT ![a] = "connected"]
    /\ raced' = [raced EXCEPT ![a] = {k \in {"calls", "scan"} :
                                        \/ k = "calls" /\ LifecycleOpen(a) # {}
                                        \/ k = "scan" /\ ScansUnderWay(a) # {}}]
    /\ grants' = grants + 1
    /\ UNCHANGED <<checkpoints, observed, operations, calls, scans>>

(***************************************************************************)
(* A call opens, or goes on, with the credential rows it has seen.         *)
(***************************************************************************)
Stage(c, at, kind, a, scopes, op, rows) ==
    calls' = [calls EXCEPT ![c] = [at |-> at, kind |-> kind, account |-> a, scopes |-> scopes,
                                   operation |-> op, rows |-> rows]]

(***************************************************************************)
(* The first statement of refresh and of a confirmed revoke: its snapshot  *)
(* of the rows.                                                            *)
(***************************************************************************)
Start(c, kind, a, scopes) ==
    /\ calls[c].at = "idle"
    /\ Exists(a)
    /\ Stage(c, "scanning", kind, a, scopes, "none", Grants(a))
    /\ raced' = [raced EXCEPT ![a] = IF LifecycleOpen(a) = {} THEN @ ELSE @ \union {"calls"}]
    /\ UNCHANGED <<accounts, credentials, audit, checkpoints, observed, operations, scans, grants>>

StartRefresh(c, a, scopes) == Start(c, "refresh", a, scopes)

(***************************************************************************)
(* An uncertain revocation returns before any statement.                   *)
(***************************************************************************)
revoke(c, a, outcome) ==
    /\ outcome = "Confirmed"
    /\ Start(c, "revoke", a, "none")

LockRows(c) ==
    /\ calls[c].at = "scanning"
    /\ RowsFree(c)
    /\ Stage(c, "holding", calls[c].kind, calls[c].account, calls[c].scopes, calls[c].operation,
             calls[c].rows \intersect credentials)
    /\ UNCHANGED <<accounts, credentials, audit, checkpoints, observed, operations, scans, raced,
                   grants>>

Close(c) == calls' = [calls EXCEPT ![c] = IdleCall]

(***************************************************************************)
(* A variant of refresh that leaves the status of the account as it is.    *)
(***************************************************************************)
RefreshKeepsStatus(c) ==
    LET a == calls[c].account
    IN  /\ calls[c].at = "holding"
        /\ calls[c].kind = "refresh"
        /\ Exists(a)
        /\ AccountFree(a)
        /\ grants < MaxGrants
        /\ credentials' = (credentials \ calls[c].rows) \union {Granted(a, calls[c].scopes)}
        /\ audit' = [audit EXCEPT ![a] = "refreshed"]
        /\ grants' = grants + 1
        /\ Close(c)
        /\ UNCHANGED <<accounts, checkpoints, observed, operations, scans, raced>>

(***************************************************************************)
(* The rest of refresh.  Its account row must still exist: the new         *)
(* credential and the audit event refer to it.  Its status is not read.    *)
(***************************************************************************)
refresh(c) ==
    LET a == calls[c].account
    IN  /\ calls[c].at = "holding"
        /\ calls[c].kind = "refresh"
        /\ Exists(a)
        /\ AccountFree(a)
        /\ grants < MaxGrants
        /\ accounts' = [accounts EXCEPT ![a] = [status |-> "connected", scopes |-> calls[c].scopes]]
        /\ credentials' = (credentials \ calls[c].rows) \union {Granted(a, calls[c].scopes)}
        /\ audit' = [audit EXCEPT ![a] = "refreshed"]
        /\ grants' = grants + 1
        /\ Close(c)
        /\ UNCHANGED <<checkpoints, observed, operations, scans, raced>>

scrub_revoked(c) ==
    LET a == calls[c].account
    IN  /\ calls[c].at = "holding"
        /\ calls[c].kind = "revoke"
        /\ Exists(a)
        /\ AccountFree(a)
        /\ accounts' = [accounts EXCEPT ![a] = [status |-> "revoked", scopes |-> "none"]]
        /\ credentials' = credentials \ calls[c].rows
        /\ audit' = [audit EXCEPT ![a] = "revoked"]
        /\ Close(c)
        /\ UNCHANGED <<checkpoints, observed, operations, scans, raced, grants>>

-----------------------------------------------------------------------------
(***************************************************************************)
(* privacy_deletion.rs, for a connection.  A completed operation returns   *)
(* its stored result and changes nothing.                                  *)
(***************************************************************************)
load_completed(c, a, op) ==
    /\ calls[c].at = "idle"
    /\ op \notin operations
    /\ Stage(c, "loaded", "delete", a, "none", op, {})
    /\ UNCHANGED <<accounts, credentials, audit, checkpoints, observed, operations, scans, raced,
                   grants>>

(***************************************************************************)
(* A variant in which the operation row is inserted "on conflict do        *)
(* nothing".                                                               *)
(***************************************************************************)
AnyOperation(c) == TRUE

(***************************************************************************)
(* The deletion_operations row is inserted with the account row locked;    *)
(* its key waits for, and then refuses, a second row of the operation.     *)
(***************************************************************************)
OperationFree(c) ==
    /\ calls[c].operation \notin operations
    /\ \A d \in Calls \ {c} : ~ /\ calls[d].operation = calls[c].operation
                                /\ calls[d].at \in {"locked", "scanning", "holding"}

require_owned_locked(c) ==
    LET a == calls[c].account
    IN  /\ calls[c].at = "loaded"
        /\ Exists(a)
        /\ AccountFree(a)
        /\ OperationFree(c)
        /\ Stage(c, "locked", "delete", a, "none", calls[c].operation, {})
        /\ UNCHANGED <<accounts, credentials, audit, checkpoints, observed, operations, scans,
                       raced, grants>>

(***************************************************************************)
(* apply_connection detaches the posts of the account, which locks them,   *)
(* and its removal of the credentials takes its snapshot.                  *)
(***************************************************************************)
DetachPosts(c) ==
    /\ calls[c].at = "locked"
    /\ Stage(c, "scanning", "delete", calls[c].account, "none", calls[c].operation,
             Grants(calls[c].account))
    /\ UNCHANGED <<accounts, credentials, audit, checkpoints, observed, operations, scans, raced,
                   grants>>

apply_target_rows(c) ==
    LET a == calls[c].account
    IN  /\ calls[c].at = "holding"
        /\ calls[c].kind = "delete"
        /\ accounts' = [accounts EXCEPT ![a] = Absent]
        /\ credentials' = credentials \ calls[c].rows
        /\ audit' = [audit EXCEPT ![a] = "none"]
        /\ checkpoints' = [checkpoints EXCEPT ![a] = 0]
        /\ observed' = [observed EXCEPT ![a] = {}]
        /\ operations' = operations \union {calls[c].operation}
        /\ Close(c)
        /\ UNCHANGED <<scans, raced, grants>>

(***************************************************************************)
(* A call ends without an effect: a statement fails, the database breaks a *)
(* deadlock, the target is gone, or the process stops.                     *)
(***************************************************************************)
CallFails(c) ==
    /\ calls[c].at # "idle"
    /\ Close(c)
    /\ UNCHANGED <<accounts, credentials, audit, checkpoints, observed, operations, scans, raced,
                   grants>>

-----------------------------------------------------------------------------
(***************************************************************************)
(* account_sync.rs.  The availability of the capability is an argument of  *)
(* sync: the caller derived it from scopes it knew at some time, and       *)
(* neither the account nor its scopes are read again.  The capability      *)
(* matrix answers for the mode first.                                      *)
(***************************************************************************)
OwnAccountSync == [status |-> "Supported"]

availability_for_own_account_sync(has_basic) ==
    OwnAccountSync.status = "Supported" /\ has_basic

(***************************************************************************)
(* The checkpoint is read outside the transaction of the page.             *)
(***************************************************************************)
checkpoint(a) == checkpoints[a]

(***************************************************************************)
(* A variant that saves the continuation of a page before the page is      *)
(* recorded.                                                               *)
(***************************************************************************)
SyncSavesFirst(s, a, scopes) ==
    /\ scans[s].at = "idle"
    /\ availability_for_own_account_sync(scopes = "basic")
    /\ scans' = [scans EXCEPT ![s] = [at |-> "listed", account |-> a, watermark |-> checkpoint(a)]]
    /\ checkpoints' = [checkpoints EXCEPT ![a] = (@ + 1) % LastPage]
    /\ UNCHANGED <<accounts, credentials, audit, observed, operations, calls, raced, grants>>

sync(s, a, scopes) ==
    /\ scans[s].at = "idle"
    /\ availability_for_own_account_sync(scopes = "basic")
    /\ scans' = [scans EXCEPT ![s] = [at |-> "listed", account |-> a, watermark |-> checkpoint(a)]]
    /\ UNCHANGED <<accounts, credentials, audit, checkpoints, observed, operations, calls, raced,
                   grants>>

(***************************************************************************)
(* The provider lists the page after a watermark; the last one carries no  *)
(* continuation, and the next scan starts over.                            *)
(***************************************************************************)
Page(s) == scans[s].watermark + 1

next_watermark(page) == IF page = LastPage THEN 0 ELSE page

save_checkpoint(a, page) == checkpoints' = [checkpoints EXCEPT ![a] = next_watermark(page)]

(***************************************************************************)
(* The transaction of the page.  The first checkpoint of the account       *)
(* refers to its row anew and waits for a deletion that holds it; a later  *)
(* one updates its row, and the reference is not looked at again.  (The    *)
(* posts of the page are in AccountArchive.)                               *)
(***************************************************************************)
record_page(s) ==
    LET a == scans[s].account
    IN  /\ scans[s].at = "listed"
        /\ Exists(a)
        /\ observed[a] # {} \/ AccountFree(a)
        /\ observed' = [observed EXCEPT ![a] = @ \union {Page(s)}]
        /\ save_checkpoint(a, Page(s))
        /\ scans' = [scans EXCEPT ![s] = IdleScan]
        /\ UNCHANGED <<accounts, credentials, audit, operations, calls, raced, grants>>

ScanFails(s) ==
    /\ scans[s].at # "idle"
    /\ scans' = [scans EXCEPT ![s] = IdleScan]
    /\ UNCHANGED <<accounts, credentials, audit, checkpoints, observed, operations, calls, raced,
                   grants>>

-----------------------------------------------------------------------------
Connecting == \E a \in Accounts, scopes \in Scopes : connect(a, scopes)

Calling(c) ==
    \/ \E a \in Accounts, scopes \in Scopes : StartRefresh(c, a, scopes)
    \/ \E a \in Accounts, outcome \in {"Confirmed", "Uncertain"} : revoke(c, a, outcome)
    \/ \E a \in Accounts, op \in Operations : load_completed(c, a, op)
    \/ require_owned_locked(c)
    \/ DetachPosts(c)
    \/ LockRows(c)
    \/ refresh(c)
    \/ scrub_revoked(c)
    \/ CallFails(c)

Scanning(s) ==
    \/ \E a \in Accounts, scopes \in Scopes : sync(s, a, scopes)
    \/ ScanFails(s)

AccountNext ==
    \/ Connecting
    \/ \E c \in Calls : Calling(c) \/ apply_target_rows(c)
    \/ \E s \in Scans : Scanning(s) \/ record_page(s)

AccountSpec == AccountInit /\ [][AccountNext]_accountVars

-----------------------------------------------------------------------------
(***************************************************************************)
(* The type of the variables.                                              *)
(***************************************************************************)
AccountType ==
    /\ accounts \in [Accounts -> [status : {"absent", "connected", "revoked"},
                                  scopes : Scopes \union {"none"}]]
    /\ credentials \subseteq Credentials
    /\ audit \in [Accounts -> {"none", "connected", "refreshed", "revoked"}]
    /\ checkpoints \in [Accounts -> 0 .. LastPage - 1]
    /\ observed \in [Accounts -> SUBSET (1 .. LastPage)]
    /\ operations \subseteq Operations
    /\ calls \in [Calls -> [at : {"idle", "loaded", "locked", "scanning", "holding"},
                            kind : {"none", "refresh", "revoke", "delete"},
                            account : Accounts \union {"none"},
                            scopes : Scopes \union {"none"},
                            operation : Operations \union {"none"},
                            rows : SUBSET Credentials]]
    /\ scans \in [Scans -> [at : {"idle", "listed"}, account : Accounts \union {"none"},
                            watermark : 0 .. LastPage - 1]]
    /\ raced \in [Accounts -> SUBSET {"calls", "scan"}]
    /\ grants \in Nat

(***************************************************************************)
(* Whatever the interleaving of connect, refresh, revoke and apply: a      *)
(* connected account has a stored grant with the scopes its row shows, the *)
(* newest audit event of oauth.rs explains its status, and a deleted       *)
(* account keeps no grant.  As long as no two lifecycle calls of the       *)
(* account overlapped, a connected account has one grant and a revoked one *)
(* has none.  (A revocation that overlaps a refresh does not see the row   *)
(* the refresh commits.)                                                   *)
(***************************************************************************)
GrantMatchesAccount ==
    \A a \in Accounts :
        /\ Exists(a) \/ Grants(a) = {}
        /\ accounts[a].status = "connected" =>
              /\ \E r \in Grants(a) : r.scopes = accounts[a].scopes
              /\ audit[a] \in {"connected", "refreshed"}
        /\ accounts[a].status = "revoked" => audit[a] = "revoked"
        /\ "calls" \notin raced[a] =>
              /\ accounts[a].status = "connected" => \E r \in Grants(a) : Grants(a) = {r}
              /\ accounts[a].status = "revoked" => Grants(a) = {}

(***************************************************************************)
(* The watermark of an account never passes a page that is not recorded,   *)
(* whatever scans overlap, fail or repeat (account_sync.rs): the next scan *)
(* starts at or before the first page that is missing.  (A scan that goes  *)
(* on from a watermark of a connection and finds the account connected     *)
(* anew saves a watermark of the old connection.)                          *)
(***************************************************************************)
CheckpointCovers ==
    \A a \in Accounts : "scan" \notin raced[a] => 1 .. checkpoints[a] \subseteq observed[a]

(***************************************************************************)
(* A connection is only removed by the step that records its deletion      *)
(* operation (privacy_deletion.rs, apply): a repeated or concurrent        *)
(* request of a completed operation removes nothing, not even an account   *)
(* that was connected again since.                                         *)
(***************************************************************************)
RemovedOncePerOperation ==
    [][\A a \in Accounts : Exists(a) /\ ~Exists(a)' => operations' # operations]_accountVars
==============================================================================
