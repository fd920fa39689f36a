------------------------------ MODULE BlobStore ------------------------------
(***************************************************************************)
(* The content-addressed raw-evidence directory, the rows that refer to    *)
(* its objects, and the durable tasks that delete them.                    *)
(*                                                                         *)
(* Files and rows are written by different steps.  A writer puts a body    *)
(* under its digest first and commits the row that refers to it later      *)
(* (public_resolution.rs record, account_sync.rs sync, data_export.rs      *)
(* receive and receive_stream, media_retention.rs archive_acquired_media). *)
(* A privacy deletion removes rows and queues a task for the object in one *)
(* transaction.  A task attempt counts references, removes the file and    *)
(* marks the task in separate steps and holds no lock between them.  Any   *)
(* process may stop between two of its steps.                              *)
(*                                                                         *)
(* A digest is abstracted to the object it names: only the body itself     *)
(* hashes to its digest, so a file verifies exactly when it is whole.      *)
(***************************************************************************)
EXTENDS Naturals, FiniteSets

CONSTANTS
  Blobs,        \* bodies, each named by its SHA-256 digest
  Posts,        \* posts whose revisions and media refer to objects
  Writers,      \* concurrent calls that store an object
  Workers,      \* concurrent attempts of blob deletion tasks
  Requests,     \* what a writer may be asked to store: see RequestType
  MediaInputs,  \* policy inputs of observe_media
  Responses,    \* fetched media responses
  MaxWrites     \* bound: writer calls in a behaviour

(***************************************************************************)
(* A request stores a body by "store" (bytes in memory, written in place)  *)
(* or "stream" (a temporary file linked into place), then commits a row of *)
(* a table.  `posts` are the posts the row belongs to: the revisions of a  *)
(* raw object (one for a resolution, several for a synced page), the post  *)
(* of a media row.  An export receipt commits an export_runs row together  *)
(* with its export_archive raw object, and no deletion removes either.     *)
(***************************************************************************)
RequestType ==
  [via : {"store", "stream"}, kind : {"raw_objects", "media", "export_runs"},
   blob : Blobs, posts : SUBSET Posts]

ASSUME BlobAssumption ==
  /\ Requests \subseteq RequestType
  /\ \A request \in Requests :
       /\ request.kind = "media" => request.via = "stream"
       /\ request.kind = "export_runs" => request.posts = {}
  /\ Writers \cap {"absent", "torn", "whole"} = {}
  /\ MaxWrites \in Nat

VARIABLES
  file,        \* path of each digest: "absent", "whole", "torn", or its writer
  rows,        \* committed rows that refer to an object
  tasks,       \* blob_deletion_tasks, at most one per object
  writers,     \* the step and request of each writer
  workers,     \* the step, object and failure of each task attempt
  overlapped,  \* history: objects stored while a task attempt was deleting them
  abandoned,   \* history: objects whose writer stopped before its row committed
  writes       \* writer calls so far

vars == <<file, rows, tasks, writers, workers, overlapped, abandoned, writes>>

NoRequest == [via |-> "store", kind |-> "raw_objects", blob |-> "none", posts |-> {}]
NoTask == [state |-> "none", failure |-> "none"]
IdleWriter == [pc |-> "idle", request |-> NoRequest]
IdleWorker == [pc |-> "idle", blob |-> "none", failure |-> "none"]

Init ==
  /\ file = [b \in Blobs |-> "absent"]
  /\ rows = {}
  /\ tasks = [b \in Blobs |-> NoTask]
  /\ writers = [w \in Writers |-> IdleWriter]
  /\ workers = [d \in Workers |-> IdleWorker]
  /\ overlapped = {}
  /\ abandoned = {}
  /\ writes = 0

References(b) == {row \in rows : row.blob = b}
Storing(w, b) == writers[w].pc # "idle" /\ writers[w].request.blob = b
Counted == {"exists", "verify", "remove", "recheck", "complete"}
Deleting(d, b) == workers[d].pc \in Counted /\ workers[d].blob = b

-----------------------------------------------------------------------------
(***************************************************************************)
(* Media policy.  An option of the source is a set with at most one        *)
(* element.                                                                *)
(***************************************************************************)

MetadataOnly(reason) == [decision |-> "metadata_only", reason |-> reason, max_bytes |-> 0]

(***************************************************************************)
(* The first policy input that is not established refuses the bytes; the   *)
(* lease of an authorised fetch is the declared length.                    *)
(***************************************************************************)
observe_media(input) ==
  IF ~input.archive_requested THEN MetadataOnly("policy_not_authorized")
  ELSE IF ~input.acquisition_eligible THEN MetadataOnly("acquisition_not_eligible")
  ELSE IF input.rights_confirmed # {TRUE} THEN MetadataOnly("rights_unknown")
  ELSE IF input.kind_eligible # {TRUE} THEN MetadataOnly("kind_unknown")
  ELSE IF input.mime_eligible # {TRUE} THEN MetadataOnly("mime_unknown")
  ELSE IF input.url_lifetime_sufficient # {TRUE} THEN MetadataOnly("url_lifetime_unknown")
  ELSE IF input.declared_bytes = {} THEN MetadataOnly("object_size_unknown")
  ELSE IF \/ input.declared_bytes = {0}
          \/ \E bytes \in input.declared_bytes : bytes > input.max_object_bytes
       THEN MetadataOnly("object_budget_exceeded")
  ELSE IF input.owner_remaining_bytes = {} THEN MetadataOnly("owner_budget_unknown")
  ELSE IF \E remaining \in input.owner_remaining_bytes, bytes \in input.declared_bytes :
            remaining < bytes
       THEN MetadataOnly("owner_budget_exceeded")
  ELSE IF ~input.explicit_action THEN MetadataOnly("explicit_action_required")
  ELSE [decision |-> "archive", reason |-> "none",
        max_bytes |-> CHOOSE bytes \in input.declared_bytes : TRUE]

(***************************************************************************)
(* Whether a fetched response is stored: HTTPS after redirects, within the *)
(* lease, of the declared length, and with the expected digest.            *)
(***************************************************************************)
archive_acquired_media(lease, response, blob) ==
  /\ response.https
  /\ response.bytes <= lease
  /\ response.bytes = response.declared_bytes
  /\ response.body = blob

(***************************************************************************)
(* Media bytes reach the store only through the policy and the checks on   *)
(* the response.                                                           *)
(***************************************************************************)
Admitted(request) ==
  request.kind = "media" =>
    \E input \in MediaInputs, response \in Responses :
      LET policy == observe_media(input)
      IN  /\ policy.decision = "archive"
          /\ archive_acquired_media(policy.max_bytes, response, request.blob)

-----------------------------------------------------------------------------
(***************************************************************************)
(* Writers                                                                 *)
(***************************************************************************)

At(w, pc) == writers[w].pc = pc
Step(w, pc) == writers' = [writers EXCEPT ![w].pc = pc]
Stop(w) == writers' = [writers EXCEPT ![w] = IdleWriter]

(***************************************************************************)
(* `store` begins with an existence probe.  `store_stream` begins with a   *)
(* private temporary file, copied and hashed within its limit: an          *)
(* over-limit body removes the temporary and changes nothing else, so only *)
(* the copy that succeeds is a step.                                       *)
(***************************************************************************)
store(w, request) ==
  /\ At(w, "idle") /\ writes < MaxWrites
  /\ Admitted(request)
  /\ writers' = [writers EXCEPT ![w] =
       [pc |-> IF request.via = "stream" THEN "promote"
               ELSE IF file[request.blob] = "absent" THEN "create" ELSE "verify",
        request |-> request]]
  /\ overlapped' = overlapped \cup {b \in {request.blob} : \E d \in Workers : Deleting(d, b)}
  /\ writes' = writes + 1
  /\ UNCHANGED <<file, rows, tasks, workers, abandoned>>

(***************************************************************************)
(* Exclusive creation of the digest's path: the file exists and is empty   *)
(* until its writer has written it.  A path that appeared since the probe  *)
(* is verified instead.                                                    *)
(***************************************************************************)
create_once(w) ==
  LET b == writers[w].request.blob
  IN  /\ At(w, "create")
      /\ IF file[b] = "absent"
         THEN file' = [file EXCEPT ![b] = w] /\ Step(w, "write")
         ELSE file' = file /\ Step(w, "verify")
      /\ UNCHANGED <<rows, tasks, workers, overlapped, abandoned, writes>>

(***************************************************************************)
(* write_all and sync_all through the open descriptor.  If the path was    *)
(* unlinked meanwhile, the bytes go to a file no path names.               *)
(***************************************************************************)
write_all(w) ==
  LET b == writers[w].request.blob
  IN  /\ At(w, "write")
      /\ file' = [file EXCEPT ![b] = IF @ = w THEN "whole" ELSE @]
      /\ Step(w, "stored")
      /\ UNCHANGED <<rows, tasks, workers, overlapped, abandoned, writes>>

(***************************************************************************)
(* The temporary file is linked to the digest's path in one step, whole;   *)
(* an existing path is verified instead.                                   *)
(***************************************************************************)
promote_temporary(w) ==
  LET b == writers[w].request.blob
  IN  /\ At(w, "promote")
      /\ IF file[b] = "absent"
         THEN file' = [file EXCEPT ![b] = "whole"] /\ Step(w, "stored")
         ELSE file' = file /\ Step(w, "verify")
      /\ UNCHANGED <<rows, tasks, workers, overlapped, abandoned, writes>>

(***************************************************************************)
(* An existing object is accepted only when its bytes hash to the digest.  *)
(***************************************************************************)
verify_raw_object(w) ==
  /\ At(w, "verify")
  /\ file[writers[w].request.blob] = "whole"
  /\ Step(w, "stored")
  /\ UNCHANGED <<file, rows, tasks, workers, overlapped, abandoned, writes>>

(***************************************************************************)
(* The transaction that commits the row.  A receipt replayed by its owner  *)
(* adds no second row, and neither does the set.                           *)
(***************************************************************************)
Commit(w) ==
  LET request == writers[w].request
  IN  /\ At(w, "stored")
      /\ rows' = rows \cup {[kind |-> request.kind, blob |-> request.blob, posts |-> request.posts]}
      /\ Stop(w)
      /\ UNCHANGED <<file, tasks, workers, overlapped, abandoned, writes>>

(***************************************************************************)
(* A writer ends without a row: verification fails, the transaction is     *)
(* rolled back, or the process stops.  A file it was still writing stays   *)
(* under its digest, torn.                                                 *)
(***************************************************************************)
Abandon(w) ==
  LET b == writers[w].request.blob
  IN  /\ ~At(w, "idle")
      /\ file' = [file EXCEPT ![b] = IF @ = w THEN "torn" ELSE @]
      /\ abandoned' = abandoned \cup {b}
      /\ Stop(w)
      /\ UNCHANGED <<rows, tasks, workers, overlapped, writes>>

-----------------------------------------------------------------------------
(***************************************************************************)
(* Privacy deletion of a post that nothing refers to any more              *)
(***************************************************************************)

(***************************************************************************)
(* The rows a post takes with it: its media, and the raw objects whose     *)
(* only revisions are the post's.                                          *)
(***************************************************************************)
LastReference(p) == {row \in rows : row.posts = {p}}

(***************************************************************************)
(* One task per object for ever: a second insertion does nothing, even     *)
(* after the first task completed.                                         *)
(***************************************************************************)
schedule_blob_task(blobs) ==
  [b \in Blobs |-> IF b \in blobs /\ tasks[b].state = "none"
                   THEN [state |-> "pending", failure |-> "none"] ELSE tasks[b]]

(***************************************************************************)
(* A variant that queues tasks for raw objects only and drops media rows   *)
(* without one.                                                            *)
(***************************************************************************)
MediaIsForgotten(p) ==
  LET gone == LastReference(p)
  IN  /\ \E row \in rows : p \in row.posts
      /\ rows' = {[row EXCEPT !.posts = @ \ {p}] : row \in rows \ gone}
      /\ tasks' = schedule_blob_task({row.blob : row \in {r \in gone : r.kind = "raw_objects"}})
      /\ UNCHANGED <<file, writers, workers, overlapped, abandoned, writes>>

(***************************************************************************)
(* One transaction: the post's revisions and media go, and each object     *)
(* whose row goes with them gets its task, referenced elsewhere or not.    *)
(***************************************************************************)
remove_unreferenced_post(p) ==
  LET gone == LastReference(p)
  IN  /\ \E row \in rows : p \in row.posts
      /\ rows' = {[row EXCEPT !.posts = @ \ {p}] : row \in rows \ gone}
      /\ tasks' = schedule_blob_task({row.blob : row \in gone})
      /\ UNCHANGED <<file, writers, workers, overlapped, abandoned, writes>>

-----------------------------------------------------------------------------
(***************************************************************************)
(* Attempts of a deletion task (process_blob_deletion_task)                *)
(***************************************************************************)

AtTask(d, pc) == workers[d].pc = pc
Advance(d, pc) == workers' = [workers EXCEPT ![d].pc = pc]
Refuse(d, failure) ==
  workers' = [workers EXCEPT ![d] =
    [pc |-> "failed", blob |-> workers[d].blob, failure |-> failure]]
Finish(d) == workers' = [workers EXCEPT ![d] = IdleWorker]

(***************************************************************************)
(* The attempt reads its task; a completed one answers without a step.     *)
(***************************************************************************)
LoadTask(d, b) ==
  /\ AtTask(d, "idle") /\ tasks[b].state = "pending"
  /\ workers' = [workers EXCEPT ![d] = [pc |-> "count", blob |-> b, failure |-> "none"]]
  /\ UNCHANGED <<file, rows, tasks, writers, overlapped, abandoned, writes>>

(***************************************************************************)
(* A variant that counts the raw objects and forgets the other tables that *)
(* refer to an object.                                                     *)
(***************************************************************************)
RawReferences(b) == Cardinality({row \in References(b) : row.kind = "raw_objects"})

(***************************************************************************)
(* The rows of all tables that refer to the object.                        *)
(***************************************************************************)
live_references(b) == Cardinality(References(b))

CountReferences(d) ==
  LET b == workers[d].blob
  IN  /\ AtTask(d, "count")
      /\ IF live_references(b) > 0
         THEN Refuse(d, "still_referenced") /\ overlapped' = overlapped
         ELSE /\ Advance(d, "exists")
              /\ overlapped' = overlapped \cup {x \in {b} : \E w \in Writers : Storing(w, x)}
      /\ UNCHANGED <<file, rows, tasks, writers, abandoned, writes>>

(***************************************************************************)
(* delete_if_matches: an absent path is done; present bytes are verified,  *)
(* removed and probed once more.                                           *)
(***************************************************************************)
ProbePath(d) ==
  /\ AtTask(d, "exists")
  /\ Advance(d, IF file[workers[d].blob] = "absent" THEN "complete" ELSE "verify")
  /\ UNCHANGED <<file, rows, tasks, writers, overlapped, abandoned, writes>>

VerifyBytes(d) ==
  LET b == workers[d].blob
  IN  /\ AtTask(d, "verify")
      /\ CASE file[b] = "whole"  -> Advance(d, "remove")
           [] file[b] = "absent" -> Refuse(d, "storage_unavailable")
           [] OTHER              -> Refuse(d, "digest_mismatch")
      /\ UNCHANGED <<file, rows, tasks, writers, overlapped, abandoned, writes>>

RemoveFile(d) ==
  LET b == workers[d].blob
  IN  /\ AtTask(d, "remove")
      /\ IF file[b] = "absent" THEN Refuse(d, "storage_unavailable") ELSE Advance(d, "recheck")
      /\ file' = [file EXCEPT ![b] = "absent"]
      /\ UNCHANGED <<rows, tasks, writers, overlapped, abandoned, writes>>

RecheckPath(d) ==
  /\ AtTask(d, "recheck")
  /\ IF file[workers[d].blob] = "absent"
     THEN Advance(d, "complete") ELSE Refuse(d, "storage_unavailable")
  /\ UNCHANGED <<file, rows, tasks, writers, overlapped, abandoned, writes>>

(***************************************************************************)
(* Any access to the directory may fail.                                   *)
(***************************************************************************)
StorageFails(d) ==
  /\ workers[d].pc \in {"exists", "verify", "remove", "recheck"}
  /\ Refuse(d, "storage_unavailable")
  /\ UNCHANGED <<file, rows, tasks, writers, overlapped, abandoned, writes>>

(***************************************************************************)
(* A variant that records the failure whatever the state of the task.      *)
(***************************************************************************)
FailureOverAnyTask(d) ==
  /\ AtTask(d, "failed")
  /\ tasks' = [tasks EXCEPT ![workers[d].blob].failure = workers[d].failure]
  /\ Finish(d)
  /\ UNCHANGED <<file, rows, writers, overlapped, abandoned, writes>>

(***************************************************************************)
(* Both outcomes are updates of a task that is still pending.              *)
(***************************************************************************)
record_blob_failure(d) ==
  LET b == workers[d].blob
  IN  /\ AtTask(d, "failed")
      /\ tasks' = [tasks EXCEPT ![b].failure =
                     IF tasks[b].state = "pending" THEN workers[d].failure ELSE @]
      /\ Finish(d)
      /\ UNCHANGED <<file, rows, writers, overlapped, abandoned, writes>>

MarkComplete(d) ==
  LET b == workers[d].blob
  IN  /\ AtTask(d, "complete")
      /\ tasks' = [tasks EXCEPT ![b] = IF @.state = "pending"
                     THEN [state |-> "complete", failure |-> "none"] ELSE @]
      /\ Finish(d)
      /\ UNCHANGED <<file, rows, writers, overlapped, abandoned, writes>>

(***************************************************************************)
(* The process stops between two steps of an attempt; the task stays.      *)
(***************************************************************************)
WorkerStops(d) ==
  /\ ~AtTask(d, "idle")
  /\ Finish(d)
  /\ UNCHANGED <<file, rows, tasks, writers, overlapped, abandoned, writes>>

WriterStep(w) ==
  \/ \E request \in Requests : store(w, request)
  \/ create_once(w)
  \/ write_all(w)
  \/ promote_temporary(w)
  \/ verify_raw_object(w)
  \/ Commit(w)
  \/ Abandon(w)

process_blob_deletion_task(d) ==
  \/ \E b \in Blobs : LoadTask(d, b)
  \/ CountReferences(d)
  \/ ProbePath(d)
  \/ VerifyBytes(d)
  \/ RemoveFile(d)
  \/ RecheckPath(d)
  \/ StorageFails(d)
  \/ record_blob_failure(d)
  \/ MarkComplete(d)
  \/ WorkerStops(d)

Next ==
  \/ \E w \in Writers : WriterStep(w)
  \/ \E p \in Posts : remove_unreferenced_post(p)
  \/ \E d \in Workers : process_blob_deletion_task(d)

Spec == Init /\ [][Next]_vars

-----------------------------------------------------------------------------
(***************************************************************************)
(* Properties                                                              *)
(***************************************************************************)

(***************************************************************************)
(* Every committed row's bytes are in the store, whole: no interleaving of *)
(* in-place writes, links, verifications, crashes and deletion attempts    *)
(* leaves a row without its object, except a store that ran while an       *)
(* attempt was between its reference count and its last step (that window  *)
(* is unlocked in process_blob_deletion_task and really loses bytes).      *)
(***************************************************************************)
ReferencedIsReadable ==
  \A row \in rows : row.blob \notin overlapped => file[row.blob] = "whole"

(***************************************************************************)
(* A task is reported complete only when its bytes are gone, and then      *)
(* nothing changes it: a second attempt that failed late does not write    *)
(* its failure over the completed task.                                    *)
(***************************************************************************)
CompletionIsTruthful ==
  [][\A b \in Blobs :
       /\ tasks[b].state = "pending" /\ tasks'[b].state = "complete" /\ b \notin overlapped
            => file[b] = "absent"
       /\ tasks[b].state = "complete" => tasks'[b] = tasks[b]]_vars

(***************************************************************************)
(* Bytes that outlive their last row have a deletion task.  The code has   *)
(* two leaks this leaves room for: an object whose writer stopped before   *)
(* its row committed (`abandoned`), and an object stored again after its   *)
(* task completed, whose finished task is found and never reopened.        *)
(***************************************************************************)
UnreferencedIsScheduled ==
  \A b \in Blobs :
    /\ file[b] = "whole"
    /\ References(b) = {}
    /\ b \notin abandoned
    /\ \A w \in Writers : ~Storing(w, b)
    => tasks[b].state # "none"

=============================================================================
