------------------------ MODULE OfficialAccountProofs ------------------------
(***************************************************************************)
(* Proofs about OfficialAccount for every set of accounts, calls and       *)
(* scans, and every number of pages.                                       *)
(***************************************************************************)
EXTENDS OfficialAccount, TLAPS

OpenDelete(c) == calls[c].kind = "delete" /\ calls[c].at \in {"locked", "scanning", "holding"}

Lifecycle(c) == calls[c].kind \in {"refresh", "revoke"}

(***************************************************************************)
(* A call works on one account: its rows are grants of that account.       *)
(***************************************************************************)
CallShape ==
    \A c \in Calls :
        /\ \A r \in calls[c].rows : r \in Credentials /\ r.account = calls[c].account
        /\ calls[c].at # "idle" => calls[c].account \in Accounts
        /\ Lifecycle(c) => calls[c].account \in Accounts
        /\ calls[c].at \in {"loaded", "locked"} => calls[c].kind = "delete"
        /\ calls[c].kind = "refresh" => calls[c].scopes \in Scopes
        /\ calls[c].kind = "delete" => calls[c].operation \in Operations

(***************************************************************************)
(* A deletion that holds its account row is the only one of its account    *)
(* and of its operation, and once it has its snapshot it sees every grant  *)
(* of the account.                                                         *)
(***************************************************************************)
DeletionLocks ==
    \A c \in Calls : OpenDelete(c) =>
        /\ calls[c].account \in Accounts
        /\ Exists(calls[c].account)
        /\ calls[c].at # "locked" => Grants(calls[c].account) \subseteq calls[c].rows
        /\ calls[c].operation \notin operations
        /\ \A d \in Calls \ {c} : OpenDelete(d) =>
              /\ calls[d].account # calls[c].account
              /\ calls[d].operation # calls[c].operation

(***************************************************************************)
(* A lifecycle call that overlapped no other sees all grants of its        *)
(* account.                                                                *)
(***************************************************************************)
SerialCalls ==
    \A c \in Calls : Lifecycle(c) /\ Exists(calls[c].account)
                        /\ "calls" \notin raced[calls[c].account] =>
        /\ calls[c].rows = Grants(calls[c].account)
        /\ \A d \in Calls \ {c} : Lifecycle(d) => calls[d].account # calls[c].account

(***************************************************************************)
(* The pages up to the watermark an open scan has read are recorded.       *)
(***************************************************************************)
ScanCovers ==
    /\ \A a \in Accounts : ~Exists(a) => checkpoints[a] = 0
    /\ \A s \in Scans : scans[s].at = "listed" =>
          /\ scans[s].account \in Accounts
          /\ Exists(scans[s].account) /\ "scan" \notin raced[scans[s].account]
                => 1 .. scans[s].watermark \subseteq observed[scans[s].account]

IInv ==
    /\ AccountType
    /\ CallShape
    /\ DeletionLocks
    /\ SerialCalls
    /\ ScanCovers
    /\ GrantMatchesAccount
    /\ CheckpointCovers

-----------------------------------------------------------------------------
(***************************************************************************)
(* The type of the variables is preserved by every step.                   *)
(***************************************************************************)
LEMMA TypeStep ==
    IInv /\ [AccountNext]_accountVars => AccountType'
<1> SUFFICES ASSUME IInv, [AccountNext]_accountVars
             PROVE  AccountType'
  OBVIOUS
<1>0. AccountType /\ CallShape
  BY DEF IInv
<1> USE AccountAssumption, <1>0 DEF AccountAssumption
<1>1. ASSUME NEW a \in Accounts, NEW scopes \in Scopes,
             connect(a, scopes)
      PROVE  AccountType'
  BY <1>1 DEF connect, AccountType, IdleCall, IdleScan, Absent, Credentials, Granted,
     Grants, CallShape, Exists, Lifecycle
<1>2. ASSUME NEW c \in Calls, NEW a \in Accounts, NEW scopes \in Scopes,
             StartRefresh(c, a, scopes)
      PROVE  AccountType'
  BY <1>2 DEF StartRefresh, Start, Stage, AccountType, IdleCall, IdleScan, Absent,
     Credentials, Granted, Grants, CallShape, Exists, Lifecycle
<1>3. ASSUME NEW c \in Calls, NEW a \in Accounts, NEW outcome \in {"Confirmed", "Uncertain"},
             revoke(c, a, outcome)
      PROVE  AccountType'
  BY <1>3 DEF revoke, Start, Stage, AccountType, IdleCall, IdleScan, Absent, Credentials,
     Granted, Grants, CallShape, Exists, Lifecycle
<1>4. ASSUME NEW c \in Calls, NEW a \in Accounts, NEW op \in Operations,
             load_completed(c, a, op)
      PROVE  AccountType'
  BY <1>4 DEF load_completed, Stage, AccountType, IdleCall, IdleScan, Absent, Credentials, Granted,
     Grants, CallShape, Exists, Lifecycle
<1>5. ASSUME NEW c \in Calls,
             require_owned_locked(c)
      PROVE  AccountType'
  BY <1>5 DEF require_owned_locked, Stage, AccountType, IdleCall, IdleScan, Absent,
     Credentials, Granted, Grants, CallShape, Exists, Lifecycle
<1>5d. ASSUME NEW c \in Calls,
             DetachPosts(c)
      PROVE  AccountType'
  BY <1>5d DEF DetachPosts, Stage, AccountType, IdleCall, IdleScan, Absent,
     Credentials, Granted, Grants, CallShape, Exists, Lifecycle
<1>6. ASSUME NEW c \in Calls,
             LockRows(c)
      PROVE  AccountType'
  BY <1>6 DEF LockRows, Stage, AccountType, IdleCall, IdleScan, Absent, Credentials, Granted,
     Grants, CallShape, Exists, Lifecycle
<1>7. ASSUME NEW c \in Calls,
             refresh(c)
      PROVE  AccountType'
  BY <1>7 DEF refresh, Close, AccountType, IdleCall, IdleScan, Absent, Credentials, Granted,
     Grants, CallShape, Exists, Lifecycle
<1>8. ASSUME NEW c \in Calls,
             scrub_revoked(c)
      PROVE  AccountType'
  BY <1>8 DEF scrub_revoked, Close, AccountType, IdleCall, IdleScan, Absent, Credentials,
     Granted, Grants, CallShape, Exists, Lifecycle
<1>9. ASSUME NEW c \in Calls,
             CallFails(c)
      PROVE  AccountType'
  BY <1>9 DEF CallFails, Close, AccountType, IdleCall, IdleScan, Absent, Credentials,
     Granted, Grants, CallShape, Exists, Lifecycle
<1>10. ASSUME NEW c \in Calls,
             apply_target_rows(c)
      PROVE  AccountType'
  BY <1>10 DEF apply_target_rows, Close, AccountType, IdleCall, IdleScan, Absent,
     Credentials, Granted, Grants, CallShape, Exists, Lifecycle
<1>11. ASSUME NEW s \in Scans, NEW a \in Accounts, NEW scopes \in Scopes,
             sync(s, a, scopes)
      PROVE  AccountType'
  BY <1>11 DEF sync, checkpoint, availability_for_own_account_sync, AccountType, IdleCall,
     IdleScan, Absent, Credentials, Granted, Grants, CallShape, Exists, Lifecycle
<1>12. ASSUME NEW s \in Scans,
             ScanFails(s)
      PROVE  AccountType'
  BY <1>12 DEF ScanFails, AccountType, IdleCall, IdleScan, Absent, Credentials, Granted,
     Grants, CallShape, Exists, Lifecycle
<1>13. ASSUME NEW s \in Scans,
             record_page(s)
      PROVE  AccountType'
  <2>1. scans[s] \in [at : {"idle", "listed"}, account : Accounts \union {"none"},
                     watermark : 0 .. LastPage - 1]
    BY DEF AccountType
  <2>2. scans[s].account \in Accounts
    BY <1>13 DEF record_page, IInv, ScanCovers
  <2>3. Page(s) \in 1 .. LastPage
    BY <2>1 DEF Page
  <2>4. next_watermark(Page(s)) \in 0 .. LastPage - 1
    BY <2>3 DEF next_watermark
  <2>5. checkpoints' \in [Accounts -> 0 .. LastPage - 1]
    BY <1>13, <2>2, <2>4 DEF record_page, save_checkpoint, AccountType
  <2>6. observed' \in [Accounts -> SUBSET (1 .. LastPage)]
    BY <1>13, <2>2, <2>3 DEF record_page, AccountType
  <2> QED
    BY <1>13, <2>5, <2>6 DEF record_page, AccountType, IdleScan
<1>14. CASE UNCHANGED accountVars
  BY <1>14 DEF accountVars, AccountType, IdleCall, IdleScan, Absent, Credentials, Granted,
     Grants, CallShape, Exists, Lifecycle
<1> QED
  BY <1>1, <1>2, <1>3, <1>4, <1>5, <1>5d, <1>6, <1>7, <1>8, <1>9, <1>10, <1>11, <1>12, <1>13,
     <1>14 DEF AccountNext, Connecting, Calling, Scanning

(***************************************************************************)
(* Each call keeps to its account.                                         *)
(***************************************************************************)
LEMMA ShapeStep ==
    IInv /\ [AccountNext]_accountVars => CallShape'
<1> SUFFICES ASSUME IInv, [AccountNext]_accountVars
             PROVE  CallShape'
  OBVIOUS
<1>0. AccountType /\ CallShape
  BY DEF IInv
<1> USE AccountAssumption, <1>0 DEF AccountAssumption
<1>1. ASSUME NEW a \in Accounts, NEW scopes \in Scopes,
             connect(a, scopes)
      PROVE  CallShape'
  BY <1>1 DEF connect, AccountType, IdleCall, CallShape, Grants, Lifecycle, Credentials
<1>2. ASSUME NEW c \in Calls, NEW a \in Accounts, NEW scopes \in Scopes,
             StartRefresh(c, a, scopes)
      PROVE  CallShape'
  BY <1>2 DEF StartRefresh, Start, Stage, AccountType, IdleCall, CallShape, Grants,
     Lifecycle, Credentials
<1>3. ASSUME NEW c \in Calls, NEW a \in Accounts, NEW outcome \in {"Confirmed", "Uncertain"},
             revoke(c, a, outcome)
      PROVE  CallShape'
  BY <1>3 DEF revoke, Start, Stage, AccountType, IdleCall, CallShape, Grants, Lifecycle,
     Credentials
<1>4. ASSUME NEW c \in Calls, NEW a \in Accounts, NEW op \in Operations,
             load_completed(c, a, op)
      PROVE  CallShape'
  BY <1>4 DEF load_completed, Stage, AccountType, IdleCall, CallShape, Grants, Lifecycle,
     Credentials
<1>5. ASSUME NEW c \in Calls,
             require_owned_locked(c)
      PROVE  CallShape'
  <2>1. calls[c].account \in Accounts /\ calls[c].operation \in Operations \union {"none"}
    BY <1>5 DEF require_owned_locked, CallShape, AccountType
  <2>2. calls[c].operation \in Operations
    BY <1>5, <2>1 DEF require_owned_locked, CallShape
  <2>3. \A r \in Grants(calls[c].account) : r \in Credentials /\ r.account = calls[c].account
    BY DEF Grants, AccountType
  <2> QED
    BY <1>5, <2>1, <2>2, <2>3 DEF require_owned_locked, Stage, AccountType, CallShape, Lifecycle
<1>5d. ASSUME NEW c \in Calls,
             DetachPosts(c)
      PROVE  CallShape'
  <2>1. calls[c].account \in Accounts /\ calls[c].operation \in Operations \union {"none"}
    BY <1>5d DEF DetachPosts, CallShape, AccountType
  <2>2. calls[c].operation \in Operations
    BY <1>5d, <2>1 DEF DetachPosts, CallShape
  <2>3. \A r \in Grants(calls[c].account) : r \in Credentials /\ r.account = calls[c].account
    BY DEF Grants, AccountType
  <2> QED
    BY <1>5d, <2>1, <2>2, <2>3 DEF DetachPosts, Stage, AccountType, CallShape, Lifecycle
<1>6. ASSUME NEW c \in Calls,
             LockRows(c)
      PROVE  CallShape'
  BY <1>6 DEF LockRows, Stage, AccountType, IdleCall, CallShape, Grants, Lifecycle, Credentials
<1>7. ASSUME NEW c \in Calls,
             refresh(c)
      PROVE  CallShape'
  BY <1>7 DEF refresh, Close, AccountType, IdleCall, CallShape, Grants, Lifecycle,
     Credentials
<1>8. ASSUME NEW c \in Calls,
             scrub_revoked(c)
      PROVE  CallShape'
  BY <1>8 DEF scrub_revoked, Close, AccountType, IdleCall, CallShape, Grants, Lifecycle,
     Credentials
<1>9. ASSUME NEW c \in Calls,
             CallFails(c)
      PROVE  CallShape'
  BY <1>9 DEF CallFails, Close, AccountType, IdleCall, CallShape, Grants, Lifecycle,
     Credentials
<1>10. ASSUME NEW c \in Calls,
             apply_target_rows(c)
      PROVE  CallShape'
  BY <1>10 DEF apply_target_rows, Close, AccountType, IdleCall, CallShape, Grants,
     Lifecycle, Credentials
<1>11. ASSUME NEW s \in Scans, NEW a \in Accounts, NEW scopes \in Scopes,
             sync(s, a, scopes)
      PROVE  CallShape'
  BY <1>11 DEF sync, checkpoint, availability_for_own_account_sync, AccountType, IdleCall,
     CallShape, Grants, Lifecycle, Credentials
<1>12. ASSUME NEW s \in Scans,
             ScanFails(s)
      PROVE  CallShape'
  BY <1>12 DEF ScanFails, AccountType, IdleCall, CallShape, Grants, Lifecycle, Credentials
<1>13. ASSUME NEW s \in Scans,
             record_page(s)
      PROVE  CallShape'
  BY <1>13 DEF record_page, save_checkpoint, next_watermark, Page, AccountType, IdleCall,
     CallShape, Grants, Lifecycle, Credentials
<1>14. CASE UNCHANGED accountVars
  BY <1>14 DEF accountVars, AccountType, IdleCall, CallShape, Grants, Lifecycle, Credentials
<1> QED
  BY <1>1, <1>2, <1>3, <1>4, <1>5, <1>5d, <1>6, <1>7, <1>8, <1>9, <1>10, <1>11, <1>12, <1>13,
     <1>14 DEF AccountNext, Connecting, Calling, Scanning

(***************************************************************************)
(* An open deletion keeps its account: nothing adds a grant to an account  *)
(* whose row it holds.                                                     *)
(***************************************************************************)
LEMMA LocksStep ==
    IInv /\ [AccountNext]_accountVars => DeletionLocks'
<1> SUFFICES ASSUME IInv, [AccountNext]_accountVars
             PROVE  DeletionLocks'
  OBVIOUS
<1>0. AccountType /\ CallShape /\ DeletionLocks
  BY DEF IInv
<1> USE AccountAssumption, <1>0 DEF AccountAssumption
<1>1. ASSUME NEW a \in Accounts, NEW scopes \in Scopes,
             connect(a, scopes)
      PROVE  DeletionLocks'
  BY <1>1 DEF connect, AccountType, IdleCall, CallShape, Grants, Granted, Exists,
     OpenDelete, DeletionLocks, AccountFree, DeletionAt, OperationFree, Absent
<1>2. ASSUME NEW c \in Calls, NEW a \in Accounts, NEW scopes \in Scopes,
             StartRefresh(c, a, scopes)
      PROVE  DeletionLocks'
  BY <1>2 DEF StartRefresh, Start, Stage, AccountType, IdleCall, CallShape, Grants, Granted,
     Exists, OpenDelete, DeletionLocks, AccountFree, DeletionAt, OperationFree, Absent
<1>3. ASSUME NEW c \in Calls, NEW a \in Accounts, NEW outcome \in {"Confirmed", "Uncertain"},
             revoke(c, a, outcome)
      PROVE  DeletionLocks'
  BY <1>3 DEF revoke, Start, Stage, AccountType, IdleCall, CallShape, Grants, Granted,
     Exists, OpenDelete, DeletionLocks, AccountFree, DeletionAt, OperationFree, Absent
<1>4. ASSUME NEW c \in Calls, NEW a \in Accounts, NEW op \in Operations,
             load_completed(c, a, op)
      PROVE  DeletionLocks'
  BY <1>4 DEF load_completed, Stage, AccountType, IdleCall, CallShape, Grants, Granted, Exists,
     OpenDelete, DeletionLocks, AccountFree, DeletionAt, OperationFree, Absent
<1>5. ASSUME NEW c \in Calls,
             require_owned_locked(c)
      PROVE  DeletionLocks'
  BY <1>5 DEF require_owned_locked, Stage, AccountType, IdleCall, CallShape, Grants, Granted,
     Exists, OpenDelete, DeletionLocks, AccountFree, DeletionAt, OperationFree, Absent
<1>5d. ASSUME NEW c \in Calls,
             DetachPosts(c)
      PROVE  DeletionLocks'
  BY <1>5d DEF DetachPosts, Stage, AccountType, IdleCall, CallShape, Grants, Granted,
     Exists, OpenDelete, DeletionLocks, AccountFree, DeletionAt, OperationFree, Absent
<1>6. ASSUME NEW c \in Calls,
             LockRows(c)
      PROVE  DeletionLocks'
  BY <1>6 DEF LockRows, Stage, AccountType, IdleCall, CallShape, Grants, Granted, Exists,
     OpenDelete, DeletionLocks, AccountFree, DeletionAt, OperationFree, Absent
<1>7. ASSUME NEW c \in Calls,
             refresh(c)
      PROVE  DeletionLocks'
  BY <1>7 DEF refresh, Close, AccountType, IdleCall, CallShape, Grants, Granted, Exists,
     OpenDelete, DeletionLocks, AccountFree, DeletionAt, OperationFree, Absent
<1>8. ASSUME NEW c \in Calls,
             scrub_revoked(c)
      PROVE  DeletionLocks'
  BY <1>8 DEF scrub_revoked, Close, AccountType, IdleCall, CallShape, Grants, Granted,
     Exists, OpenDelete, DeletionLocks, AccountFree, DeletionAt, OperationFree, Absent
<1>9. ASSUME NEW c \in Calls,
             CallFails(c)
      PROVE  DeletionLocks'
  BY <1>9 DEF CallFails, Close, AccountType, IdleCall, CallShape, Grants, Granted, Exists,
     OpenDelete, DeletionLocks, AccountFree, DeletionAt, OperationFree, Absent
<1>10. ASSUME NEW c \in Calls,
             apply_target_rows(c)
      PROVE  DeletionLocks'
  BY <1>10 DEF apply_target_rows, Close, AccountType, IdleCall, CallShape, Grants, Granted,
     Exists, OpenDelete, DeletionLocks, AccountFree, DeletionAt, OperationFree, Absent
<1>11. ASSUME NEW s \in Scans, NEW a \in Accounts, NEW scopes \in Scopes,
             sync(s, a, scopes)
      PROVE  DeletionLocks'
  BY <1>11 DEF sync, checkpoint, availability_for_own_account_sync, AccountType, IdleCall,
     CallShape, Grants, Granted, Exists, OpenDelete, DeletionLocks, AccountFree, DeletionAt,
     OperationFree, Absent
<1>12. ASSUME NEW s \in Scans,
             ScanFails(s)
      PROVE  DeletionLocks'
  BY <1>12 DEF ScanFails, AccountType, IdleCall, CallShape, Grants, Granted, Exists,
     OpenDelete, DeletionLocks, AccountFree, DeletionAt, OperationFree, Absent
<1>13. ASSUME NEW s \in Scans,
             record_page(s)
      PROVE  DeletionLocks'
  BY <1>13 DEF record_page, save_checkpoint, next_watermark, Page, AccountType, IdleCall,
     CallShape, Grants, Granted, Exists, OpenDelete, DeletionLocks, AccountFree, DeletionAt,
     OperationFree, Absent
<1>14. CASE UNCHANGED accountVars
  BY <1>14 DEF accountVars, AccountType, IdleCall, CallShape, Grants, Granted, Exists,
     OpenDelete, DeletionLocks, AccountFree, DeletionAt, OperationFree, Absent
<1> QED
  BY <1>1, <1>2, <1>3, <1>4, <1>5, <1>5d, <1>6, <1>7, <1>8, <1>9, <1>10, <1>11, <1>12, <1>13,
     <1>14 DEF AccountNext, Connecting, Calling, Scanning

(***************************************************************************)
(* A lifecycle call that runs alone sees every grant until it ends.        *)
(***************************************************************************)
LEMMA SerialStep ==
    IInv /\ [AccountNext]_accountVars => SerialCalls'
<1> SUFFICES ASSUME IInv, [AccountNext]_accountVars
             PROVE  SerialCalls'
  OBVIOUS
<1>0. AccountType /\ CallShape /\ SerialCalls
  BY DEF IInv
<1>t. accounts = [a \in Accounts |-> accounts[a]] /\ calls = [c \in Calls |-> calls[c]]
  BY <1>0 DEF AccountType
<1> USE AccountAssumption, <1>0 DEF AccountAssumption
<1>1. ASSUME NEW a \in Accounts, NEW scopes \in Scopes,
             connect(a, scopes)
      PROVE  SerialCalls'
  BY <1>1 DEF connect, AccountType, IdleCall, CallShape, Grants, Granted, Exists, Lifecycle,
     LifecycleOpen, SerialCalls, Absent
<1>2. ASSUME NEW c \in Calls, NEW a \in Accounts, NEW scopes \in Scopes,
             StartRefresh(c, a, scopes)
      PROVE  SerialCalls'
  BY <1>2 DEF StartRefresh, Start, Stage, AccountType, IdleCall, CallShape, Grants, Granted,
     Exists, Lifecycle, LifecycleOpen, SerialCalls, Absent
<1>3. ASSUME NEW c \in Calls, NEW a \in Accounts, NEW outcome \in {"Confirmed", "Uncertain"},
             revoke(c, a, outcome)
      PROVE  SerialCalls'
  BY <1>3 DEF revoke, Start, Stage, AccountType, IdleCall, CallShape, Grants, Granted,
     Exists, Lifecycle, LifecycleOpen, SerialCalls, Absent
<1>4. ASSUME NEW c \in Calls, NEW a \in Accounts, NEW op \in Operations,
             load_completed(c, a, op)
      PROVE  SerialCalls'
  BY <1>4 DEF load_completed, Stage, AccountType, IdleCall, CallShape, Grants, Granted, Exists,
     Lifecycle, LifecycleOpen, SerialCalls, Absent
<1>5. ASSUME NEW c \in Calls,
             require_owned_locked(c)
      PROVE  SerialCalls'
  BY <1>5 DEF require_owned_locked, Stage, AccountType, IdleCall, CallShape, Grants, Granted,
     Exists, Lifecycle, LifecycleOpen, SerialCalls, Absent
<1>5d. ASSUME NEW c \in Calls,
             DetachPosts(c)
      PROVE  SerialCalls'
  BY <1>5d DEF DetachPosts, Stage, AccountType, IdleCall, CallShape, Grants, Granted,
     Exists, Lifecycle, LifecycleOpen, SerialCalls, Absent
<1>6. ASSUME NEW c \in Calls,
             LockRows(c)
      PROVE  SerialCalls'
  BY <1>6 DEF LockRows, Stage, AccountType, IdleCall, CallShape, Grants, Granted, Exists,
     Lifecycle, LifecycleOpen, SerialCalls, Absent
<1>7. ASSUME NEW c \in Calls,
             refresh(c)
      PROVE  SerialCalls'
  BY <1>7 DEF refresh, Close, AccountType, IdleCall, CallShape, Grants, Granted, Exists,
     Lifecycle, LifecycleOpen, SerialCalls, Absent
<1>8. ASSUME NEW c \in Calls,
             scrub_revoked(c)
      PROVE  SerialCalls'
  BY <1>8 DEF scrub_revoked, Close, AccountType, IdleCall, CallShape, Grants, Granted,
     Exists, Lifecycle, LifecycleOpen, SerialCalls, Absent
<1>9. ASSUME NEW c \in Calls,
             CallFails(c)
      PROVE  SerialCalls'
  BY <1>9 DEF CallFails, Close, AccountType, IdleCall, CallShape, Grants, Granted, Exists,
     Lifecycle, LifecycleOpen, SerialCalls, Absent
<1>10. ASSUME NEW c \in Calls,
             apply_target_rows(c)
      PROVE  SerialCalls'
  <2>1. calls[c].account \in Accounts
    BY <1>10 DEF apply_target_rows, CallShape
  <2>2. calls'[c] = IdleCall /\ \A e \in Calls \ {c} : calls'[e] = calls[e]
    BY <1>10, <1>t DEF apply_target_rows, Close
  <2>3. accounts'[calls[c].account] = Absent
    BY <1>10, <1>t, <2>1 DEF apply_target_rows
  <2>4. \A b \in Accounts \ {calls[c].account} : accounts'[b] = accounts[b]
    BY <1>10, <1>t DEF apply_target_rows
  <2>5. \A b \in Accounts \ {calls[c].account} : Grants(b)' = Grants(b)
    BY <1>10 DEF apply_target_rows, Grants, CallShape
  <2>6. raced' = raced
    BY <1>10 DEF apply_target_rows
  <2>7. ~Lifecycle(c)'
    BY <2>2 DEF IdleCall, Lifecycle
  <2> SUFFICES ASSUME NEW d \in Calls, Lifecycle(d)', Exists(calls[d].account)',
                      "calls" \notin raced'[calls'[d].account]
               PROVE  /\ calls'[d].rows = Grants(calls[d].account)'
                      /\ \A e \in Calls \ {d} :
                            Lifecycle(e)' => calls'[e].account # calls'[d].account
    BY DEF SerialCalls
  <2>8. calls'[d] = calls[d] /\ Lifecycle(d) /\ d # c
    BY <2>2, <2>7 DEF Lifecycle
  <2>9. calls[d].account \in Accounts \ {calls[c].account}
    BY <2>3, <2>8 DEF CallShape, Exists
  <2>10. /\ calls[d].rows = Grants(calls[d].account)
         /\ \A e \in Calls \ {d} : Lifecycle(e) => calls[e].account # calls[d].account
    BY <2>4, <2>6, <2>8, <2>9 DEF SerialCalls, Exists
  <2>11. calls'[d].rows = Grants(calls[d].account)'
    BY <2>5, <2>8, <2>9, <2>10
  <2>12. \A e \in Calls \ {d} : Lifecycle(e)' => calls'[e].account # calls'[d].account
    BY <2>2, <2>7, <2>8, <2>10 DEF Lifecycle
  <2> QED
    BY <2>11, <2>12
<1>11. ASSUME NEW s \in Scans, NEW a \in Accounts, NEW scopes \in Scopes,
             sync(s, a, scopes)
      PROVE  SerialCalls'
  BY <1>11 DEF sync, checkpoint, availability_for_own_account_sync, AccountType, IdleCall,
     CallShape, Grants, Granted, Exists, Lifecycle, LifecycleOpen, SerialCalls, Absent
<1>12. ASSUME NEW s \in Scans,
             ScanFails(s)
      PROVE  SerialCalls'
  BY <1>12 DEF ScanFails, AccountType, IdleCall, CallShape, Grants, Granted, Exists,
     Lifecycle, LifecycleOpen, SerialCalls, Absent
<1>13. ASSUME NEW s \in Scans,
             record_page(s)
      PROVE  SerialCalls'
  BY <1>13 DEF record_page, save_checkpoint, next_watermark, Page, AccountType, IdleCall,
     CallShape, Grants, Granted, Exists, Lifecycle, LifecycleOpen, SerialCalls, Absent
<1>14. CASE UNCHANGED accountVars
  BY <1>14 DEF accountVars, AccountType, IdleCall, CallShape, Grants, Granted, Exists,
     Lifecycle, LifecycleOpen, SerialCalls, Absent
<1> QED
  BY <1>1, <1>2, <1>3, <1>4, <1>5, <1>5d, <1>6, <1>7, <1>8, <1>9, <1>10, <1>11, <1>12, <1>13,
     <1>14 DEF AccountNext, Connecting, Calling, Scanning

(***************************************************************************)
(* What a scan has read stays true while its connection lasts.             *)
(***************************************************************************)
LEMMA ScansStep ==
    IInv /\ [AccountNext]_accountVars => ScanCovers'
<1> SUFFICES ASSUME IInv, [AccountNext]_accountVars
             PROVE  ScanCovers'
  OBVIOUS
<1>0. AccountType /\ ScanCovers /\ CheckpointCovers
  BY DEF IInv
<1> USE AccountAssumption, <1>0 DEF AccountAssumption
<1>1. ASSUME NEW a \in Accounts, NEW scopes \in Scopes,
             connect(a, scopes)
      PROVE  ScanCovers'
  BY <1>1 DEF connect, AccountType, IdleScan, Exists, ScansUnderWay, ScanCovers,
     CheckpointCovers, Absent
<1>2. ASSUME NEW c \in Calls, NEW a \in Accounts, NEW scopes \in Scopes,
             StartRefresh(c, a, scopes)
      PROVE  ScanCovers'
  BY <1>2 DEF StartRefresh, Start, Stage, AccountType, IdleScan, Exists, ScansUnderWay,
     ScanCovers, CheckpointCovers, Absent
<1>3. ASSUME NEW c \in Calls, NEW a \in Accounts, NEW outcome \in {"Confirmed", "Uncertain"},
             revoke(c, a, outcome)
      PROVE  ScanCovers'
  BY <1>3 DEF revoke, Start, Stage, AccountType, IdleScan, Exists, ScansUnderWay, ScanCovers,
     CheckpointCovers, Absent
<1>4. ASSUME NEW c \in Calls, NEW a \in Accounts, NEW op \in Operations,
             load_completed(c, a, op)
      PROVE  ScanCovers'
  BY <1>4 DEF load_completed, Stage, AccountType, IdleScan, Exists, ScansUnderWay, ScanCovers,
     CheckpointCovers, Absent
<1>5. ASSUME NEW c \in Calls,
             require_owned_locked(c)
      PROVE  ScanCovers'
  BY <1>5 DEF require_owned_locked, Stage, AccountType, IdleScan, Exists, ScansUnderWay,
     ScanCovers, CheckpointCovers, Absent
<1>5d. ASSUME NEW c \in Calls,
             DetachPosts(c)
      PROVE  ScanCovers'
  BY <1>5d DEF DetachPosts, Stage, AccountType, IdleScan, Exists, ScansUnderWay,
     ScanCovers, CheckpointCovers, Absent
<1>6. ASSUME NEW c \in Calls,
             LockRows(c)
      PROVE  ScanCovers'
  BY <1>6 DEF LockRows, Stage, AccountType, IdleScan, Exists, ScansUnderWay, ScanCovers,
     CheckpointCovers, Absent
<1>7. ASSUME NEW c \in Calls,
             refresh(c)
      PROVE  ScanCovers'
  BY <1>7 DEF refresh, Close, AccountType, IdleScan, Exists, ScansUnderWay, ScanCovers,
     CheckpointCovers, Absent
<1>8. ASSUME NEW c \in Calls,
             scrub_revoked(c)
      PROVE  ScanCovers'
  BY <1>8 DEF scrub_revoked, Close, AccountType, IdleScan, Exists, ScansUnderWay, ScanCovers,
     CheckpointCovers, Absent
<1>9. ASSUME NEW c \in Calls,
             CallFails(c)
      PROVE  ScanCovers'
  BY <1>9 DEF CallFails, Close, AccountType, IdleScan, Exists, ScansUnderWay, ScanCovers,
     CheckpointCovers, Absent
<1>10. ASSUME NEW c \in Calls,
             apply_target_rows(c)
      PROVE  ScanCovers'
  BY <1>10 DEF apply_target_rows, Close, AccountType, IdleScan, Exists, ScansUnderWay,
     ScanCovers, CheckpointCovers, Absent
<1>11. ASSUME NEW s \in Scans, NEW a \in Accounts, NEW scopes \in Scopes,
             sync(s, a, scopes)
      PROVE  ScanCovers'
  BY <1>11 DEF sync, checkpoint, availability_for_own_account_sync, AccountType, IdleScan,
     Exists, ScansUnderWay, ScanCovers, CheckpointCovers, Absent
<1>12. ASSUME NEW s \in Scans,
             ScanFails(s)
      PROVE  ScanCovers'
  BY <1>12 DEF ScanFails, AccountType, IdleScan, Exists, ScansUnderWay, ScanCovers,
     CheckpointCovers, Absent
<1>13. ASSUME NEW s \in Scans,
             record_page(s)
      PROVE  ScanCovers'
  BY <1>13 DEF record_page, save_checkpoint, next_watermark, Page, AccountType, IdleScan,
     Exists, ScansUnderWay, ScanCovers, CheckpointCovers, Absent
<1>14. CASE UNCHANGED accountVars
  BY <1>14 DEF accountVars, AccountType, IdleScan, Exists, ScansUnderWay, ScanCovers,
     CheckpointCovers, Absent
<1> QED
  BY <1>1, <1>2, <1>3, <1>4, <1>5, <1>5d, <1>6, <1>7, <1>8, <1>9, <1>10, <1>11, <1>12, <1>13,
     <1>14 DEF AccountNext, Connecting, Calling, Scanning

(***************************************************************************)
(* No step moves a watermark past a page that is missing.                  *)
(***************************************************************************)
LEMMA CheckpointStep ==
    IInv /\ [AccountNext]_accountVars => CheckpointCovers'
<1> SUFFICES ASSUME IInv, [AccountNext]_accountVars
             PROVE  CheckpointCovers'
  OBVIOUS
<1>0. AccountType /\ ScanCovers /\ CheckpointCovers
  BY DEF IInv
<1> USE AccountAssumption, <1>0 DEF AccountAssumption
<1>1. ASSUME NEW a \in Accounts, NEW scopes \in Scopes,
             connect(a, scopes)
      PROVE  CheckpointCovers'
  BY <1>1 DEF connect, AccountType, Exists, ScanCovers, CheckpointCovers, Absent
<1>2. ASSUME NEW c \in Calls, NEW a \in Accounts, NEW scopes \in Scopes,
             StartRefresh(c, a, scopes)
      PROVE  CheckpointCovers'
  BY <1>2 DEF StartRefresh, Start, Stage, AccountType, Exists, ScanCovers, CheckpointCovers,
     Absent
<1>3. ASSUME NEW c \in Calls, NEW a \in Accounts, NEW outcome \in {"Confirmed", "Uncertain"},
             revoke(c, a, outcome)
      PROVE  CheckpointCovers'
  BY <1>3 DEF revoke, Start, Stage, AccountType, Exists, ScanCovers, CheckpointCovers, Absent
<1>4. ASSUME NEW c \in Calls, NEW a \in Accounts, NEW op \in Operations,
             load_completed(c, a, op)
      PROVE  CheckpointCovers'
  BY <1>4 DEF load_completed, Stage, AccountType, Exists, ScanCovers, CheckpointCovers, Absent
<1>5. ASSUME NEW c \in Calls,
             require_owned_locked(c)
      PROVE  CheckpointCovers'
  BY <1>5 DEF require_owned_locked, Stage, AccountType, Exists, ScanCovers, CheckpointCovers,
     Absent
<1>5d. ASSUME NEW c \in Calls,
             DetachPosts(c)
      PROVE  CheckpointCovers'
  BY <1>5d DEF DetachPosts, Stage, AccountType, Exists, ScanCovers, CheckpointCovers,
     Absent
<1>6. ASSUME NEW c \in Calls,
             LockRows(c)
      PROVE  CheckpointCovers'
  BY <1>6 DEF LockRows, Stage, AccountType, Exists, ScanCovers, CheckpointCovers, Absent
<1>7. ASSUME NEW c \in Calls,
             refresh(c)
      PROVE  CheckpointCovers'
  BY <1>7 DEF refresh, Close, AccountType, Exists, ScanCovers, CheckpointCovers, Absent
<1>8. ASSUME NEW c \in Calls,
             scrub_revoked(c)
      PROVE  CheckpointCovers'
  BY <1>8 DEF scrub_revoked, Close, AccountType, Exists, ScanCovers, CheckpointCovers,
     Absent
<1>9. ASSUME NEW c \in Calls,
             CallFails(c)
      PROVE  CheckpointCovers'
  BY <1>9 DEF CallFails, Close, AccountType, Exists, ScanCovers, CheckpointCovers, Absent
<1>10. ASSUME NEW c \in Calls,
             apply_target_rows(c)
      PROVE  CheckpointCovers'
  BY <1>10 DEF apply_target_rows, Close, AccountType, Exists, ScanCovers, CheckpointCovers,
     Absent
<1>11. ASSUME NEW s \in Scans, NEW a \in Accounts, NEW scopes \in Scopes,
             sync(s, a, scopes)
      PROVE  CheckpointCovers'
  BY <1>11 DEF sync, checkpoint, availability_for_own_account_sync, AccountType, Exists,
     ScanCovers, CheckpointCovers, Absent
<1>12. ASSUME NEW s \in Scans,
             ScanFails(s)
      PROVE  CheckpointCovers'
  BY <1>12 DEF ScanFails, AccountType, Exists, ScanCovers, CheckpointCovers, Absent
<1>13. ASSUME NEW s \in Scans,
             record_page(s)
      PROVE  CheckpointCovers'
  <2>0. raced' = raced /\ scans[s].at = "listed" /\ Exists(scans[s].account)
    BY <1>13 DEF record_page
  <2> SUFFICES ASSUME NEW b \in Accounts, "scan" \notin raced[b]
               PROVE  1 .. checkpoints'[b] \subseteq observed'[b]
    BY <2>0, Zenon DEF CheckpointCovers
  <2>1. scans[s].account \in Accounts /\ scans[s].watermark \in Nat
    BY <1>13 DEF record_page, ScanCovers, AccountType
  <2>2. CASE b = scans[s].account
    <3>1. 1 .. scans[s].watermark \subseteq observed[b]
      BY <2>0, <2>2 DEF ScanCovers
    <3>2. observed'[b] = observed[b] \union {scans[s].watermark + 1}
      BY <1>13, <2>2 DEF record_page, Page, AccountType
    <3>3. checkpoints'[b] \in {0, scans[s].watermark + 1}
      BY <1>13, <2>2 DEF record_page, save_checkpoint, next_watermark, Page, AccountType
    <3> QED
      BY <2>1, <3>1, <3>2, <3>3
  <2>3. CASE b # scans[s].account
    BY <1>13, <2>1, <2>3 DEF record_page, save_checkpoint, AccountType, CheckpointCovers
  <2> QED
    BY <2>2, <2>3
<1>14. CASE UNCHANGED accountVars
  BY <1>14 DEF accountVars, AccountType, Exists, ScanCovers, CheckpointCovers, Absent
<1> QED
  BY <1>1, <1>2, <1>3, <1>4, <1>5, <1>5d, <1>6, <1>7, <1>8, <1>9, <1>10, <1>11, <1>12, <1>13,
     <1>14 DEF AccountNext, Connecting, Calling, Scanning

(***************************************************************************)
(* The agreement of GrantMatchesAccount for one account.                   *)
(***************************************************************************)
Matches(a) ==
    /\ Exists(a) \/ Grants(a) = {}
    /\ accounts[a].status = "connected" =>
          /\ \E r \in Grants(a) : r.scopes = accounts[a].scopes
          /\ audit[a] \in {"connected", "refreshed"}
    /\ accounts[a].status = "revoked" => audit[a] = "revoked"
    /\ "calls" \notin raced[a] =>
          /\ accounts[a].status = "connected" => \E r \in Grants(a) : Grants(a) = {r}
          /\ accounts[a].status = "revoked" => Grants(a) = {}

(***************************************************************************)
(* Every step leaves the grants of an account in agreement with its row.   *)
(***************************************************************************)
LEMMA GrantStep ==
    IInv /\ [AccountNext]_accountVars => GrantMatchesAccount'
<1> SUFFICES ASSUME IInv, [AccountNext]_accountVars
             PROVE  GrantMatchesAccount'
  OBVIOUS
<1>0. AccountType /\ CallShape /\ DeletionLocks /\ SerialCalls /\ GrantMatchesAccount
  BY DEF IInv
<1> USE <1>0
<1>f. ASSUME UNCHANGED <<accounts, credentials, audit>>,
             \A b \in Accounts : raced[b] \subseteq raced'[b]
      PROVE  GrantMatchesAccount'
  BY <1>f DEF GrantMatchesAccount, Grants, Exists
<1>1. ASSUME NEW a \in Accounts, NEW scopes \in Scopes,
             connect(a, scopes)
      PROVE  GrantMatchesAccount'
  <2> SUFFICES ASSUME NEW b \in Accounts
               PROVE  Matches(b)'
    BY DEF GrantMatchesAccount, Matches
  <2>0. Matches(b)
    BY DEF GrantMatchesAccount, Matches
  <2>2. CASE b # a
    <3>1. Grants(b)' = Grants(b)
      BY <1>1, <2>2 DEF connect, Grants, Granted, CallShape
    <3>2. accounts'[b] = accounts[b] /\ audit'[b] = audit[b] /\ raced'[b] = raced[b]
      BY <1>1, <2>2 DEF connect, AccountType
    <3> QED
      BY <2>0, <3>1, <3>2 DEF Matches, Exists
  <2>3. CASE b = a
    <3>1. Grants(b)' = {Granted(a, scopes)}
      BY <1>1, <2>3 DEF connect, Grants, Granted
    <3>2. accounts'[b] = [status |-> "connected", scopes |-> scopes] /\ audit'[b] = "connected"
      BY <1>1, <2>3 DEF connect, AccountType
    <3> QED
      BY <3>1, <3>2 DEF Matches, Exists, Absent, Granted
  <2> QED
    BY <2>2, <2>3
<1>2. ASSUME NEW c \in Calls, NEW a \in Accounts, NEW scopes \in Scopes,
             StartRefresh(c, a, scopes)
      PROVE  GrantMatchesAccount'
  BY <1>2, <1>f DEF StartRefresh, Start, AccountType
<1>3. ASSUME NEW c \in Calls, NEW a \in Accounts, NEW outcome \in {"Confirmed", "Uncertain"},
             revoke(c, a, outcome)
      PROVE  GrantMatchesAccount'
  BY <1>3, <1>f DEF revoke, Start, AccountType
<1>4. ASSUME NEW c \in Calls, NEW a \in Accounts, NEW op \in Operations,
             load_completed(c, a, op)
      PROVE  GrantMatchesAccount'
  BY <1>4, <1>f DEF load_completed
<1>5. ASSUME NEW c \in Calls,
             require_owned_locked(c)
      PROVE  GrantMatchesAccount'
  BY <1>5, <1>f DEF require_owned_locked
<1>5d. ASSUME NEW c \in Calls,
             DetachPosts(c)
      PROVE  GrantMatchesAccount'
  BY <1>5d, <1>f DEF DetachPosts
<1>6. ASSUME NEW c \in Calls,
             LockRows(c)
      PROVE  GrantMatchesAccount'
  BY <1>6, <1>f DEF LockRows
<1>7. ASSUME NEW c \in Calls,
             refresh(c)
      PROVE  GrantMatchesAccount'
  <2> SUFFICES ASSUME NEW b \in Accounts
               PROVE  Matches(b)'
    BY DEF GrantMatchesAccount, Matches
  <2>0. Matches(b)
    BY DEF GrantMatchesAccount, Matches
  <2>1. calls[c].account \in Accounts
    BY <1>7 DEF refresh, CallShape
  <2>2. CASE b # calls[c].account
    <3>1. Grants(b)' = Grants(b)
      BY <1>7, <2>2 DEF refresh, Close, Grants, Granted, CallShape
    <3>2. accounts'[b] = accounts[b] /\ audit'[b] = audit[b] /\ raced'[b] = raced[b]
      BY <1>7, <2>2 DEF refresh, Close, AccountType
    <3> QED
      BY <2>0, <3>1, <3>2 DEF Matches, Exists
  <2>3. CASE b = calls[c].account
    <3>1. Grants(b)' = (Grants(b) \ calls[c].rows) \union {Granted(b, calls[c].scopes)}
      BY <1>7, <2>3 DEF refresh, Grants, Granted
    <3>2. "calls" \notin raced[b] => calls[c].rows = Grants(b)
      <4>1. Lifecycle(c) /\ Exists(calls[c].account)
        BY <1>7, Zenon DEF refresh, Lifecycle
      <4> QED
        BY <2>3, <4>1, Zenon DEF SerialCalls
    <3>3. /\ accounts'[b] = [status |-> "connected", scopes |-> calls[c].scopes]
          /\ audit'[b] = "refreshed"
          /\ raced'[b] = raced[b]
      <4>1. /\ accounts = [x \in Accounts |-> accounts[x]]
            /\ audit = [x \in Accounts |-> audit[x]]
        BY Zenon DEF AccountType
      <4> QED
        BY <1>7, <2>3, <4>1, Zenon DEF refresh
    <3>4. Granted(b, calls[c].scopes).scopes = calls[c].scopes
      BY DEF Granted
    <3>5. "calls" \notin raced[b] => Grants(b)' = {Granted(b, calls[c].scopes)}
      BY <3>1, <3>2
    <3>6. /\ Exists(b)'
          /\ accounts'[b].status = "connected"
          /\ accounts'[b].scopes = calls[c].scopes
      BY <3>3 DEF Exists, Absent
    <3> QED
      BY <3>1, <3>3, <3>4, <3>5, <3>6 DEF Matches
  <2> QED
    BY <2>2, <2>3
<1>8. ASSUME NEW c \in Calls,
             scrub_revoked(c)
      PROVE  GrantMatchesAccount'
  <2> SUFFICES ASSUME NEW b \in Accounts
               PROVE  Matches(b)'
    BY DEF GrantMatchesAccount, Matches
  <2>0. Matches(b)
    BY DEF GrantMatchesAccount, Matches
  <2>1. calls[c].account \in Accounts
    BY <1>8 DEF scrub_revoked, CallShape
  <2>2. CASE b # calls[c].account
    <3>0. credentials' = credentials \ calls[c].rows
      BY <1>8, Zenon DEF scrub_revoked
    <3>1. Grants(b)' = Grants(b)
      BY <2>2, <3>0 DEF Grants, CallShape
    <3>2. accounts'[b] = accounts[b] /\ audit'[b] = audit[b] /\ raced'[b] = raced[b]
      BY <1>8, <2>2 DEF scrub_revoked, Close, AccountType
    <3> QED
      BY <2>0, <3>1, <3>2 DEF Matches, Exists
  <2>3. CASE b = calls[c].account
    <3>1. Grants(b)' = Grants(b) \ calls[c].rows
      BY <1>8, <2>3 DEF scrub_revoked, Grants
    <3>2. "calls" \notin raced[b] => calls[c].rows = Grants(b)
      <4>1. Lifecycle(c) /\ Exists(calls[c].account)
        BY <1>8, Zenon DEF scrub_revoked, Lifecycle
      <4> QED
        BY <2>3, <4>1, Zenon DEF SerialCalls
    <3>3. /\ accounts'[b] = [status |-> "revoked", scopes |-> "none"]
          /\ audit'[b] = "revoked"
          /\ raced'[b] = raced[b]
      <4>1. /\ accounts = [x \in Accounts |-> accounts[x]]
            /\ audit = [x \in Accounts |-> audit[x]]
        BY Zenon DEF AccountType
      <4> QED
        BY <1>8, <2>3, <4>1, Zenon DEF scrub_revoked
    <3>4. Exists(b)' /\ accounts'[b].status = "revoked"
      BY <3>3 DEF Exists, Absent
    <3>5. "calls" \notin raced'[b] => Grants(b)' = {}
      BY <3>1, <3>2, <3>3
    <3> QED
      BY <3>3, <3>4, <3>5 DEF Matches
  <2> QED
    BY <2>2, <2>3
<1>9. ASSUME NEW c \in Calls,
             CallFails(c)
      PROVE  GrantMatchesAccount'
  BY <1>9, <1>f DEF CallFails
<1>10. ASSUME NEW c \in Calls,
             apply_target_rows(c)
      PROVE  GrantMatchesAccount'
  <2> SUFFICES ASSUME NEW b \in Accounts
               PROVE  Matches(b)'
    BY DEF GrantMatchesAccount, Matches
  <2>0. Matches(b)
    BY DEF GrantMatchesAccount, Matches
  <2>1. calls[c].account \in Accounts
    BY <1>10 DEF apply_target_rows, CallShape
  <2>2. CASE b # calls[c].account
    <3>1. Grants(b)' = Grants(b)
      BY <1>10, <2>2 DEF apply_target_rows, Close, Grants, Granted, CallShape
    <3>2. accounts'[b] = accounts[b] /\ audit'[b] = audit[b] /\ raced'[b] = raced[b]
      BY <1>10, <2>2 DEF apply_target_rows, Close, AccountType
    <3> QED
      BY <2>0, <3>1, <3>2 DEF Matches, Exists
  <2>3. CASE b = calls[c].account
    <3>a. OpenDelete(c) /\ calls[c].at # "locked"
      BY <1>10, Zenon DEF apply_target_rows, OpenDelete
    <3>b. Grants(b) \subseteq calls[c].rows
      BY <2>3, <3>a, Zenon DEF DeletionLocks
    <3>c. credentials' = credentials \ calls[c].rows
      BY <1>10, Zenon DEF apply_target_rows
    <3>1. Grants(b)' = {}
      BY <3>b, <3>c DEF Grants
    <3>2. accounts'[b] = Absent
      BY <1>10, <2>3 DEF apply_target_rows, AccountType
    <3>3. accounts'[b].status = "absent"
      BY <3>2 DEF Absent
    <3> QED
      BY <3>1, <3>3 DEF Matches
  <2> QED
    BY <2>2, <2>3
<1>11. ASSUME NEW s \in Scans, NEW a \in Accounts, NEW scopes \in Scopes,
             sync(s, a, scopes)
      PROVE  GrantMatchesAccount'
  BY <1>11, <1>f DEF sync
<1>12. ASSUME NEW s \in Scans,
             ScanFails(s)
      PROVE  GrantMatchesAccount'
  BY <1>12, <1>f DEF ScanFails
<1>13. ASSUME NEW s \in Scans,
             record_page(s)
      PROVE  GrantMatchesAccount'
  BY <1>13, <1>f DEF record_page
<1>14. CASE UNCHANGED accountVars
  BY <1>14, <1>f DEF accountVars
<1> QED
  BY <1>1, <1>2, <1>3, <1>4, <1>5, <1>5d, <1>6, <1>7, <1>8, <1>9, <1>10, <1>11, <1>12, <1>13,
     <1>14 DEF AccountNext, Connecting, Calling, Scanning

(***************************************************************************)
(* The inductive invariant of OfficialAccount: the type of its variables,  *)
(* what each open call and scan knows, and the two properties.             *)
(***************************************************************************)
THEOREM AccountInvariant ==
    AccountSpec => []IInv
<1>1. AccountInit => IInv
  <2> SUFFICES ASSUME AccountInit
               PROVE  IInv
    OBVIOUS
  <2>0. /\ Absent \in [status : {"absent", "connected", "revoked"}, scopes : Scopes \union {"none"}]
        /\ IdleScan \in [at : {"idle", "listed"}, account : Accounts \union {"none"},
                        watermark : 0 .. LastPage - 1]
    BY AccountAssumption DEF AccountAssumption, Absent, IdleScan
  <2>a. IdleCall \in [at : {"idle", "loaded", "locked", "scanning", "holding"},
                    kind : {"none", "refresh", "revoke", "delete"},
                    account : Accounts \union {"none"}, scopes : Scopes \union {"none"},
                    operation : Operations \union {"none"}, rows : SUBSET Credentials]
    BY DEF IdleCall
  <2>1. AccountType
    BY AccountAssumption, <2>0, <2>a DEF AccountInit, AccountType, AccountAssumption
  <2>2. CallShape /\ DeletionLocks /\ SerialCalls
    BY DEF AccountInit, CallShape, DeletionLocks, SerialCalls, OpenDelete, Lifecycle, IdleCall
  <2>3. ScanCovers
    BY DEF AccountInit, ScanCovers, IdleScan
  <2>4. GrantMatchesAccount
    BY DEF AccountInit, GrantMatchesAccount, Grants, Absent
  <2>5. CheckpointCovers
    BY DEF AccountInit, CheckpointCovers
  <2> QED
    BY <2>1, <2>2, <2>3, <2>4, <2>5 DEF IInv
<1>2. IInv /\ [AccountNext]_accountVars => IInv'
  BY TypeStep, ShapeStep, LocksStep, SerialStep, ScansStep, CheckpointStep, GrantStep DEF IInv
<1> QED
  BY <1>1, <1>2, PTL DEF AccountSpec

(***************************************************************************)
(* Whatever calls overlap, a connected account has the grant its row       *)
(* describes, the newest audit event explains its status, a deleted        *)
(* account keeps no grant, and a revocation that overlaps no other         *)
(* lifecycle call leaves none (oauth.rs).                                  *)
(***************************************************************************)
THEOREM GrantsFollowAccounts ==
    AccountSpec => []GrantMatchesAccount
<1>1. IInv => GrantMatchesAccount
  BY DEF IInv
<1> QED
  BY AccountInvariant, <1>1, PTL

(***************************************************************************)
(* No interleaving of scans and failures moves a watermark past a page     *)
(* that is not recorded (account_sync.rs).                                 *)
(***************************************************************************)
THEOREM WatermarksCover ==
    AccountSpec => []CheckpointCovers
<1>1. IInv => CheckpointCovers
  BY DEF IInv
<1> QED
  BY AccountInvariant, <1>1, PTL

(***************************************************************************)
(* A deletion operation removes a connection at most once, with any number *)
(* of repeated and concurrent requests (privacy_deletion.rs, apply).       *)
(***************************************************************************)
THEOREM OperationsRemoveOnce ==
    AccountSpec => RemovedOncePerOperation
<1>1. IInv /\ [AccountNext]_accountVars =>
        [\A a \in Accounts : Exists(a) /\ ~Exists(a)' => operations' # operations]_accountVars
  <2> SUFFICES ASSUME IInv, AccountNext, NEW b \in Accounts, Exists(b), ~Exists(b)'
               PROVE  operations' # operations
    OBVIOUS
  <2>0. AccountType /\ CallShape /\ DeletionLocks
    BY DEF IInv
  <2>1. ASSUME NEW c \in Calls, apply_target_rows(c)
        PROVE  operations' # operations
    <3>1. OpenDelete(c) /\ operations' = operations \union {calls[c].operation}
      BY <2>1 DEF apply_target_rows, OpenDelete
    <3>2. calls[c].operation \notin operations
      BY <2>0, <3>1 DEF DeletionLocks
    <3> QED
      BY <3>1, <3>2
  <2>2. ASSUME NEW a \in Accounts, NEW scopes \in Scopes, connect(a, scopes)
        PROVE  FALSE
    BY <2>0, <2>2 DEF connect, Exists, Absent, AccountType
  <2>3. ASSUME NEW c \in Calls, refresh(c) \/ scrub_revoked(c)
        PROVE  FALSE
    BY <2>0, <2>3 DEF refresh, scrub_revoked, Exists, Absent, AccountType
  <2>4. ASSUME UNCHANGED accounts
        PROVE  FALSE
    BY <2>4 DEF Exists
  <2>5. ASSUME NEW c \in Calls, Calling(c), ~refresh(c), ~scrub_revoked(c)
        PROVE  UNCHANGED accounts
    BY <2>5 DEF Calling, StartRefresh, Start, revoke, load_completed, require_owned_locked,
       DetachPosts, LockRows, CallFails
  <2>6. ASSUME NEW s \in Scans, Scanning(s) \/ record_page(s)
        PROVE  UNCHANGED accounts
    BY <2>6 DEF Scanning, sync, ScanFails, record_page
  <2> QED
    BY <2>1, <2>2, <2>3, <2>4, <2>5, <2>6 DEF AccountNext, Connecting
<1> QED
  BY AccountInvariant, <1>1, PTL DEF AccountSpec, RemovedOncePerOperation

==============================================================================
