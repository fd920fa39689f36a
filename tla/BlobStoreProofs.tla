--------------------------- MODULE BlobStoreProofs ---------------------------
(***************************************************************************)
(* Proofs about BlobStore, for any sets of objects, posts, writers, task   *)
(* attempts and requests.                                                  *)
(*                                                                         *)
(* ReferencedIsReadable is not inductive: a row is committed by a writer   *)
(* that verified its bytes earlier, so the invariant must also say that    *)
(* the bytes of a writer past its verification are whole, that a file a    *)
(* writer is still writing is its own, and that an attempt which counted   *)
(* no references has neither rows nor writers to fear, all of it outside   *)
(* the objects that were stored during an attempt (`overlapped`).          *)
(***************************************************************************)
EXTENDS BlobStore, FiniteSetTheorems, TLAPS

WriterPC == {"idle", "create", "verify", "write", "promote", "stored"}
WorkerPC == {"idle", "count", "failed"} \cup Counted
Failures == {"none", "still_referenced", "storage_unavailable", "digest_mismatch"}
RowType == [kind : {"raw_objects", "media", "export_runs"}, blob : Blobs, posts : SUBSET Posts]
TaskType == [state : {"none", "pending", "complete"}, failure : Failures]
WriterType == [pc : WriterPC, request : Requests \cup {NoRequest}]
WorkerType == [pc : WorkerPC, blob : Blobs \cup {"none"}, failure : Failures]

TypeOK ==
  /\ file \in [Blobs -> Writers \cup {"absent", "torn", "whole"}]
  /\ rows \in SUBSET RowType
  /\ tasks \in [Blobs -> TaskType]
  /\ writers \in [Writers -> WriterType]
  /\ workers \in [Workers -> WorkerType]
  /\ \A w \in Writers : writers[w].pc # "idle" => writers[w].request \in Requests
  /\ \A d \in Workers : workers[d].pc # "idle" => workers[d].blob \in Blobs

(***************************************************************************)
(* What a writer has established about its object.                         *)
(***************************************************************************)
StoredIsWhole ==
  \A w \in Writers, b \in Blobs \ overlapped :
    Storing(w, b) => /\ At(w, "stored") => file[b] = "whole"
                     /\ At(w, "write") => file[b] = w

(***************************************************************************)
(* What an attempt that counted no references may rely on.                 *)
(***************************************************************************)
CountedIsFree ==
  \A d \in Workers, b \in Blobs \ overlapped :
    Deleting(d, b) => /\ References(b) = {}
                      /\ \A w \in Writers : ~Storing(w, b)
                      /\ AtTask(d, "complete") => file[b] = "absent"

IInv ==
  /\ TypeOK
  /\ IsFiniteSet(rows)
  /\ ReferencedIsReadable
  /\ StoredIsWhole
  /\ CountedIsFree

-----------------------------------------------------------------------------
(***************************************************************************)
(* A count of zero means that no row refers to the object.                 *)
(***************************************************************************)
LEMMA ZeroReferences ==
  ASSUME IsFiniteSet(rows), NEW b, ~(live_references(b) > 0)
  PROVE  References(b) = {}
<1>1. IsFiniteSet(References(b))
  BY FS_Subset DEF References
<1>2. Cardinality(References(b)) \in Nat
  BY <1>1, FS_CardinalityType
<1>3. Cardinality(References(b)) = 0
  BY <1>2, SMT DEF live_references
<1> QED
  BY <1>1, <1>3, FS_EmptySet

(***************************************************************************)
(* Removing a post keeps the rows finitely many.                           *)
(***************************************************************************)
LEMMA FinitelyManyRows ==
  ASSUME IsFiniteSet(rows), Next
  PROVE  IsFiniteSet(rows')
<1>1. CASE \E w \in Writers : Commit(w)
  <2>1. PICK row : rows' = rows \cup {row}
    BY <1>1 DEF Commit
  <2> QED
    BY <2>1, FS_AddElement
<1>2. CASE \E p \in Posts : remove_unreferenced_post(p)
  <2>1. PICK p \in Posts : remove_unreferenced_post(p)
    BY <1>2
  <2> DEFINE kept == rows \ LastReference(p)
             drop == [row \in kept |-> [row EXCEPT !.posts = @ \ {p}]]
  <2>2. IsFiniteSet(kept)
    BY FS_Subset
  <2>3. rows' = {[row EXCEPT !.posts = @ \ {p}] : row \in kept}
    BY <2>1 DEF remove_unreferenced_post
  <2>4. drop \in Surjection(kept, rows')
    BY <2>3 DEF Surjection
  <2> HIDE DEF kept, drop
  <2> QED
    BY <2>2, <2>4, FS_Surjection
<1>3. CASE ~(\E w \in Writers : Commit(w)) /\ ~(\E p \in Posts : remove_unreferenced_post(p))
  <2>1. UNCHANGED rows
    BY <1>3 DEF Next, WriterStep, process_blob_deletion_task, store, create_once, write_all,
       promote_temporary, verify_raw_object, Abandon, LoadTask, CountReferences, ProbePath,
       VerifyBytes, RemoveFile, RecheckPath, StorageFails, record_blob_failure, MarkComplete,
       WorkerStops
  <2> QED
    BY <2>1
<1> QED
  BY <1>1, <1>2, <1>3

-----------------------------------------------------------------------------
(***************************************************************************)
(* Types of the control state: a writer or an attempt keeps its object as  *)
(* it moves.                                                               *)
(***************************************************************************)
WritersTyped ==
  /\ writers \in [Writers -> WriterType]
  /\ \A w \in Writers : writers[w].pc # "idle" => writers[w].request \in Requests

WorkersTyped ==
  /\ workers \in [Workers -> WorkerType]
  /\ \A d \in Workers : workers[d].pc # "idle" => workers[d].blob \in Blobs

(***************************************************************************)
(* A writer that moves on stays typed.                                     *)
(***************************************************************************)
LEMMA StepTyped ==
  ASSUME WritersTyped, NEW w \in Writers, writers[w].pc # "idle",
         NEW pc \in WriterPC, Step(w, pc)
  PROVE  WritersTyped'
BY DEF WritersTyped, WriterType, Step

(***************************************************************************)
(* A writer that ends stays typed.                                         *)
(***************************************************************************)
LEMMA StopTyped ==
  ASSUME WritersTyped, NEW w \in Writers, Stop(w)
  PROVE  WritersTyped'
BY DEF WritersTyped, WriterType, WriterPC, Stop, IdleWriter

(***************************************************************************)
(* An attempt that moves on stays typed.                                   *)
(***************************************************************************)
LEMMA AdvanceTyped ==
  ASSUME WorkersTyped, NEW d \in Workers, workers[d].pc # "idle",
         NEW pc \in WorkerPC, Advance(d, pc)
  PROVE  WorkersTyped'
BY DEF WorkersTyped, WorkerType, Advance

(***************************************************************************)
(* An attempt that fails stays typed.                                      *)
(***************************************************************************)
LEMMA RefuseTyped ==
  ASSUME WorkersTyped, NEW d \in Workers, workers[d].pc # "idle",
         NEW failure \in Failures, Refuse(d, failure)
  PROVE  WorkersTyped'
BY DEF WorkersTyped, WorkerType, WorkerPC, Refuse

(***************************************************************************)
(* An attempt that ends stays typed.                                       *)
(***************************************************************************)
LEMMA FinishTyped ==
  ASSUME WorkersTyped, NEW d \in Workers, Finish(d)
  PROVE  WorkersTyped'
BY DEF WorkersTyped, WorkerType, WorkerPC, Failures, Finish, IdleWorker

(***************************************************************************)
(* Types.                                                                  *)
(***************************************************************************)
LEMMA TypeInductive ==
  ASSUME TypeOK, [Next]_vars
  PROVE  TypeOK'
<1> DEFINE FileTyped == file \in [Blobs -> Writers \cup {"absent", "torn", "whole"}]
           RowsTyped == rows \in SUBSET RowType
           TasksTyped == tasks \in [Blobs -> TaskType]
<1>0. TypeOK <=> FileTyped /\ RowsTyped /\ TasksTyped /\ WritersTyped /\ WorkersTyped
  BY DEF TypeOK, WritersTyped, WorkersTyped
<1>p. (TypeOK <=> FileTyped /\ RowsTyped /\ TasksTyped /\ WritersTyped /\ WorkersTyped)'
  BY DEF TypeOK, WritersTyped, WorkersTyped
<1>r. \A request \in Requests : request \in RequestType
  BY BlobAssumption
<1>k. (UNCHANGED file => FileTyped') /\ (UNCHANGED rows => RowsTyped')
      /\ (UNCHANGED tasks => TasksTyped') /\ (UNCHANGED writers => WritersTyped')
      /\ (UNCHANGED workers => WorkersTyped')
  BY <1>0 DEF WritersTyped, WorkersTyped
<1>1. ASSUME NEW w \in Writers, WriterStep(w)
      PROVE  TypeOK'
  <2>1. ASSUME NEW request \in Requests, store(w, request)
        PROVE  TypeOK'
    <3>1. WritersTyped'
      BY <1>0, <2>1 DEF store, WritersTyped, WriterType, WriterPC
    <3> QED
      BY <1>p, <1>k, <2>1, <3>1 DEF store
  <2>2. CASE create_once(w)
    <3>1. WritersTyped'
      BY <1>0, <2>2, StepTyped DEF create_once, At, WriterPC
    <3>2. FileTyped'
      BY <1>0, <2>2 DEF create_once
    <3> QED
      BY <1>p, <1>k, <2>2, <3>1, <3>2 DEF create_once
  <2>3. CASE write_all(w)
    <3>1. WritersTyped'
      BY <1>0, <2>3, StepTyped DEF write_all, At, WriterPC
    <3>2. FileTyped'
      BY <1>0, <2>3 DEF write_all
    <3> QED
      BY <1>p, <1>k, <2>3, <3>1, <3>2 DEF write_all
  <2>4. CASE promote_temporary(w)
    <3>1. WritersTyped'
      BY <1>0, <2>4, StepTyped DEF promote_temporary, At, WriterPC
    <3>2. FileTyped'
      BY <1>0, <2>4 DEF promote_temporary
    <3> QED
      BY <1>p, <1>k, <2>4, <3>1, <3>2 DEF promote_temporary
  <2>5. CASE verify_raw_object(w)
    <3>1. WritersTyped'
      BY <1>0, <2>5, StepTyped DEF verify_raw_object, At, WriterPC
    <3> QED
      BY <1>p, <1>k, <2>5, <3>1 DEF verify_raw_object
  <2>6. CASE Commit(w)
    <3>1. writers[w].request \in RequestType
      BY <1>0, <1>r, <2>6 DEF Commit, At, WritersTyped
    <3>2. RowsTyped'
      BY <1>0, <2>6, <3>1 DEF Commit, RowType, RequestType
    <3>3. WritersTyped'
      BY <1>0, <2>6, StopTyped DEF Commit
    <3> QED
      BY <1>p, <1>k, <2>6, <3>2, <3>3 DEF Commit
  <2>7. CASE Abandon(w)
    <3>1. WritersTyped'
      BY <1>0, <2>7, StopTyped DEF Abandon
    <3>2. FileTyped'
      BY <1>0, <2>7 DEF Abandon
    <3> QED
      BY <1>p, <1>k, <2>7, <3>1, <3>2 DEF Abandon
  <2> QED
    BY <1>1, <2>1, <2>2, <2>3, <2>4, <2>5, <2>6, <2>7 DEF WriterStep
<1>2. ASSUME NEW p \in Posts, remove_unreferenced_post(p)
      PROVE  TypeOK'
  <2>1. RowsTyped'
    BY <1>0, <1>2 DEF remove_unreferenced_post, RowType
  <2>2. TasksTyped'
    BY <1>0, <1>2 DEF remove_unreferenced_post, schedule_blob_task, TaskType, Failures
  <2> QED
    BY <1>p, <1>k, <1>2, <2>1, <2>2 DEF remove_unreferenced_post
<1>3. ASSUME NEW d \in Workers, process_blob_deletion_task(d)
      PROVE  TypeOK'
  <2>1. ASSUME NEW b \in Blobs, LoadTask(d, b)
        PROVE  TypeOK'
    <3>1. WorkersTyped'
      BY <1>0, <2>1 DEF LoadTask, WorkersTyped, WorkerType, WorkerPC, Failures
    <3> QED
      BY <1>p, <1>k, <2>1, <3>1 DEF LoadTask
  <2>2. CASE CountReferences(d) \/ ProbePath(d) \/ VerifyBytes(d) \/ RemoveFile(d)
             \/ RecheckPath(d) \/ StorageFails(d)
    <3>1. workers[d].pc # "idle"
      BY <2>2 DEF CountReferences, ProbePath, VerifyBytes, RemoveFile, RecheckPath,
         StorageFails, AtTask
    <3>2. (\E pc \in WorkerPC : Advance(d, pc)) \/ (\E failure \in Failures : Refuse(d, failure))
      <4> USE DEF WorkerPC, Counted, Failures
      <4>1. CASE CountReferences(d)
        BY <4>1 DEF CountReferences
      <4>2. CASE ProbePath(d)
        BY <4>2 DEF ProbePath
      <4>3. CASE VerifyBytes(d)
        BY <4>3 DEF VerifyBytes
      <4>4. CASE RemoveFile(d)
        BY <4>4 DEF RemoveFile
      <4>5. CASE RecheckPath(d)
        BY <4>5 DEF RecheckPath
      <4>6. CASE StorageFails(d)
        BY <4>6 DEF StorageFails
      <4> QED
        BY <2>2, <4>1, <4>2, <4>3, <4>4, <4>5, <4>6
    <3>3. WorkersTyped'
      BY <1>0, <3>1, <3>2, AdvanceTyped, RefuseTyped
    <3>4. FileTyped'
      BY <1>0, <2>2 DEF CountReferences, ProbePath, VerifyBytes, RemoveFile, RecheckPath,
         StorageFails
    <3> QED
      BY <1>p, <1>k, <2>2, <3>3, <3>4 DEF CountReferences, ProbePath, VerifyBytes, RemoveFile,
         RecheckPath, StorageFails
  <2>3. CASE record_blob_failure(d)
    <3>1. TasksTyped'
      BY <1>0, <2>3 DEF record_blob_failure, AtTask, TaskType, WorkersTyped, WorkerType
    <3> QED
      BY <1>0, <1>p, <1>k, <2>3, <3>1, FinishTyped DEF record_blob_failure
  <2>4. CASE MarkComplete(d)
    <3>1. TasksTyped'
      BY <1>0, <2>4 DEF MarkComplete, TaskType, Failures
    <3> QED
      BY <1>0, <1>p, <1>k, <2>4, <3>1, FinishTyped DEF MarkComplete
  <2>5. CASE WorkerStops(d)
    BY <1>0, <1>p, <1>k, <2>5, FinishTyped DEF WorkerStops
  <2> QED
    BY <1>3, <2>1, <2>2, <2>3, <2>4, <2>5 DEF process_blob_deletion_task
<1>4. CASE UNCHANGED vars
  BY <1>p, <1>k, <1>4 DEF vars
<1> QED
  BY <1>1, <1>2, <1>3, <1>4 DEF Next

(***************************************************************************)
(* Steps that leave files, rows, writers and the history alone keep the    *)
(* invariant if every attempt that counts as deleting already did, and     *)
(* knows its object absent when it is about to complete.                   *)
(***************************************************************************)
LEMMA WorkerStepKeeps ==
  ASSUME IInv, UNCHANGED <<file, rows, writers, overlapped>>,
         \A d \in Workers, b \in Blobs \ overlapped :
           Deleting(d, b)' =>
             /\ References(b) = {}
             /\ \A w \in Writers : ~Storing(w, b)
             /\ workers'[d].pc = "complete" => file[b] = "absent"
  PROVE  (ReferencedIsReadable /\ StoredIsWhole /\ CountedIsFree)'
BY DEF IInv, ReferencedIsReadable, StoredIsWhole, CountedIsFree, References, Storing, At,
       AtTask

(***************************************************************************)
(* Every step of a task attempt keeps the invariant.                       *)
(***************************************************************************)
LEMMA AttemptKeeps ==
  ASSUME IInv, NEW d \in Workers, process_blob_deletion_task(d)
  PROVE  (ReferencedIsReadable /\ StoredIsWhole /\ CountedIsFree)'
<1> DEFINE c == workers[d].blob
<1> USE DEF TypeOK
<1>0. TypeOK /\ IsFiniteSet(rows) /\ CountedIsFree
  BY DEF IInv
<1>a. \A x \in Workers, b \in Blobs \ overlapped :
        Deleting(x, b) =>
          /\ References(b) = {}
          /\ \A w \in Writers : ~Storing(w, b)
          /\ workers[x].pc = "complete" => file[b] = "absent"
  BY <1>0 DEF CountedIsFree, AtTask
<1>1. ASSUME NEW b \in Blobs, LoadTask(d, b)
      PROVE  (ReferencedIsReadable /\ StoredIsWhole /\ CountedIsFree)'
  <2>1. \A x \in Workers, y \in Blobs : Deleting(x, y)' => Deleting(x, y) /\ workers'[x] = workers[x]
    BY <1>0, <1>1 DEF LoadTask, Deleting, Counted
  <2> QED
    BY <1>a, <1>1, <2>1, WorkerStepKeeps DEF LoadTask
<1>2. CASE CountReferences(d)
  <2>1. CASE live_references(c) > 0
    <3>1. \A x \in Workers, y \in Blobs :
            Deleting(x, y)' => Deleting(x, y) /\ workers'[x] = workers[x]
      BY <1>0, <1>2, <2>1 DEF CountReferences, Refuse, Deleting, Counted
    <3> QED
      BY <1>a, <1>2, <2>1, <3>1, WorkerStepKeeps DEF CountReferences
  <2>2. CASE ~(live_references(c) > 0)
    <3>1. /\ UNCHANGED <<file, rows, writers>>
          /\ overlapped' = overlapped \cup {x \in {c} : \E w \in Writers : Storing(w, x)}
          /\ workers' = [workers EXCEPT ![d].pc = "exists"]
      BY <1>2, <2>2 DEF CountReferences, Advance
    <3>2. References(c) = {}
      BY <1>0, <2>2, ZeroReferences
    <3>3. ReferencedIsReadable' /\ StoredIsWhole'
      BY <3>1 DEF IInv, ReferencedIsReadable, StoredIsWhole, Storing, At
    <3>4. ASSUME NEW x \in Workers, NEW b \in Blobs \ overlapped', Deleting(x, b)'
          PROVE  /\ References(b)' = {}
                 /\ \A w \in Writers : ~Storing(w, b)'
                 /\ workers'[x].pc = "complete" => file'[b] = "absent"
      <4>1. CASE x = d
        <5>1. b = c /\ workers'[x].pc = "exists"
          BY <1>0, <3>1, <3>4, <4>1 DEF Deleting, WorkerType
        <5> QED
          BY <3>1, <3>2, <3>4, <5>1 DEF References, Storing
      <4>2. CASE x # d
        <5>1. Deleting(x, b) /\ workers'[x] = workers[x] /\ b \notin overlapped
          BY <1>0, <3>1, <3>4, <4>2 DEF Deleting
        <5> QED
          BY <1>a, <3>1, <5>1 DEF References, Storing
      <4> QED
        BY <4>1, <4>2
    <3> QED
      BY <3>3, <3>4 DEF CountedIsFree, AtTask
  <2> QED
    BY <2>1, <2>2
<1>3. CASE ProbePath(d)
  <2>1. \A x \in Workers, y \in Blobs :
          Deleting(x, y)' => /\ Deleting(x, y)
                             /\ x # d => workers'[x] = workers[x]
                             /\ x = d /\ workers'[x].pc = "complete" => file[y] = "absent"
    BY <1>0, <1>3 DEF ProbePath, Advance, AtTask, Deleting, Counted, WorkerType
  <2> QED
    BY <1>a, <1>3, <2>1, WorkerStepKeeps DEF ProbePath
<1>4. CASE VerifyBytes(d)
  <2>1. \A x \in Workers, y \in Blobs :
          Deleting(x, y)' => /\ Deleting(x, y)
                             /\ x # d => workers'[x] = workers[x]
                             /\ x = d => workers'[x].pc # "complete"
    BY <1>0, <1>4 DEF VerifyBytes, Advance, Refuse, AtTask, Deleting, Counted, WorkerType
  <2> QED
    BY <1>a, <1>4, <2>1, WorkerStepKeeps DEF VerifyBytes
<1>5. CASE RemoveFile(d)
  <2>1. /\ UNCHANGED <<rows, writers, overlapped>>
        /\ file' = [file EXCEPT ![c] = "absent"]
        /\ Deleting(d, c) /\ c \in Blobs
    BY <1>0, <1>5 DEF RemoveFile, AtTask, Deleting, Counted
  <2>2. c \notin overlapped => References(c) = {} /\ \A w \in Writers : ~Storing(w, c)
    BY <1>a, <2>1
  <2>3. ReferencedIsReadable'
    BY <1>0, <2>1, <2>2 DEF IInv, ReferencedIsReadable, References, RowType
  <2>4. StoredIsWhole'
    BY <1>0, <2>1, <2>2 DEF IInv, StoredIsWhole, Storing, At
  <2>5. \A x \in Workers, y \in Blobs :
          Deleting(x, y)' => /\ Deleting(x, y)
                             /\ x # d => workers'[x] = workers[x]
                             /\ x = d => workers'[x].pc # "complete"
    BY <1>0, <1>5 DEF RemoveFile, Advance, Refuse, AtTask, Deleting, Counted, WorkerType
  <2>6. CountedIsFree'
    BY <1>0, <1>a, <2>1, <2>5 DEF CountedIsFree, References, Storing, AtTask
  <2> QED
    BY <2>3, <2>4, <2>6
<1>6. CASE RecheckPath(d)
  <2>1. \A x \in Workers, y \in Blobs :
          Deleting(x, y)' => /\ Deleting(x, y)
                             /\ x # d => workers'[x] = workers[x]
                             /\ x = d /\ workers'[x].pc = "complete" => file[y] = "absent"
    BY <1>0, <1>6 DEF RecheckPath, Advance, Refuse, AtTask, Deleting, Counted, WorkerType
  <2> QED
    BY <1>a, <1>6, <2>1, WorkerStepKeeps DEF RecheckPath
<1>7. CASE StorageFails(d)
  <2>1. \A x \in Workers, y \in Blobs :
          Deleting(x, y)' => Deleting(x, y) /\ workers'[x] = workers[x]
    BY <1>0, <1>7 DEF StorageFails, Refuse, Deleting, Counted
  <2> QED
    BY <1>a, <1>7, <2>1, WorkerStepKeeps DEF StorageFails
<1>8. CASE record_blob_failure(d) \/ MarkComplete(d) \/ WorkerStops(d)
  <2>1. \A x \in Workers, y \in Blobs :
          Deleting(x, y)' => Deleting(x, y) /\ workers'[x] = workers[x]
    BY <1>0, <1>8 DEF record_blob_failure, MarkComplete, WorkerStops, Finish, IdleWorker,
       Deleting, Counted
  <2> QED
    BY <1>a, <1>8, <2>1, WorkerStepKeeps DEF record_blob_failure, MarkComplete, WorkerStops
<1> QED
  BY <1>1, <1>2, <1>3, <1>4, <1>5, <1>6, <1>7, <1>8 DEF process_blob_deletion_task

(***************************************************************************)
(* A step of a writer moves its own control and nothing else of it.        *)
(***************************************************************************)
LEMMA StepMoves ==
  ASSUME TypeOK, NEW w \in Writers, NEW pc, Step(w, pc)
  PROVE  /\ writers'[w].pc = pc
         /\ writers'[w].request = writers[w].request
         /\ \A x \in Writers : x # w => writers'[x] = writers[x]
BY DEF TypeOK, WriterType, Step

(***************************************************************************)
(* Every step of a writer keeps the invariant.                             *)
(***************************************************************************)
LEMMA WriterKeeps ==
  ASSUME IInv, NEW w \in Writers, WriterStep(w)
  PROVE  (ReferencedIsReadable /\ StoredIsWhole /\ CountedIsFree)'
<1> DEFINE c == writers[w].request.blob
<1> USE DEF TypeOK
<1>0. TypeOK /\ ReferencedIsReadable /\ StoredIsWhole /\ CountedIsFree
  BY DEF IInv
<1>b. writers[w].pc # "idle" => c \in Blobs /\ Storing(w, c)
  BY <1>0, BlobAssumption DEF RequestType, Storing
<1>f. \A d \in Workers : writers[w].pc # "idle" /\ c \notin overlapped => ~Deleting(d, c)
  BY <1>0, <1>b DEF CountedIsFree
<1>1. ASSUME NEW request \in Requests, store(w, request)
      PROVE  (ReferencedIsReadable /\ StoredIsWhole /\ CountedIsFree)'
  <2>1. /\ UNCHANGED <<file, rows, workers>>
        /\ overlapped' = overlapped \cup {b \in {request.blob} : \E d \in Workers : Deleting(d, b)}
    BY <1>1 DEF store
  <2>2. \A x \in Writers : x # w => writers'[x] = writers[x]
    BY <1>0, <1>1 DEF store
  <2>3. writers'[w].request = request /\ writers'[w].pc \notin {"stored", "write"}
    BY <1>0, <1>1 DEF store
  <2>4. ReferencedIsReadable'
    BY <1>0, <2>1 DEF ReferencedIsReadable
  <2>5. StoredIsWhole'
    BY <1>0, <2>1, <2>2, <2>3 DEF StoredIsWhole, Storing, At
  <2>6. CountedIsFree'
    BY <1>0, <2>1, <2>2, <2>3 DEF CountedIsFree, Deleting, References, Storing, AtTask
  <2> QED
    BY <2>4, <2>5, <2>6
<1>2. CASE create_once(w) \/ write_all(w) \/ promote_temporary(w) \/ verify_raw_object(w)
  <2>1. /\ UNCHANGED <<rows, workers, overlapped>>
        /\ writers[w].pc # "idle"
        /\ \A x \in Writers : x # w => writers'[x] = writers[x]
        /\ writers'[w].request = writers[w].request
    <3>1. UNCHANGED <<rows, workers, overlapped>> /\ writers[w].pc # "idle"
      BY <1>2 DEF create_once, write_all, promote_temporary, verify_raw_object, At
    <3>2. \E pc : Step(w, pc)
      BY <1>2 DEF create_once, write_all, promote_temporary, verify_raw_object
    <3> QED
      BY <1>0, <3>1, <3>2, StepMoves
  <2>2. /\ \A b \in Blobs : b # c => file'[b] = file[b]
        /\ file[c] = "whole" => file'[c] = "whole"
        /\ \A x \in Writers : x # w /\ file[c] = x => file'[c] = x
    <3>1. CASE create_once(w)
      BY <1>0, <1>b, <2>1, <3>1, BlobAssumption DEF create_once
    <3>2. CASE write_all(w)
      BY <1>0, <1>b, <2>1, <3>2, BlobAssumption DEF write_all
    <3>3. CASE promote_temporary(w)
      BY <1>0, <1>b, <2>1, <3>3, BlobAssumption DEF promote_temporary
    <3>4. CASE verify_raw_object(w)
      BY <3>4 DEF verify_raw_object
    <3> QED
      BY <1>2, <3>1, <3>2, <3>3, <3>4
  <2>3. /\ writers'[w].pc = "stored" /\ c \notin overlapped => file'[c] = "whole"
        /\ writers'[w].pc = "write" => file'[c] = w
    <3>1. CASE create_once(w)
      <4>1. CASE file[c] = "absent"
        <5>1. file' = [file EXCEPT ![c] = w] /\ Step(w, "write")
          BY <3>1, <4>1 DEF create_once
        <5>2. writers'[w].pc = "write"
          BY <1>0, <5>1, StepMoves
        <5> QED
          BY <1>0, <1>b, <2>1, <5>1, <5>2
      <4>2. CASE file[c] # "absent"
        BY <1>0, <3>1, <4>2, StepMoves DEF create_once
      <4> QED
        BY <4>1, <4>2
    <3>2. CASE write_all(w)
      <4>1. c \notin overlapped => file[c] = w
        BY <1>0, <1>b, <2>1, <3>2 DEF write_all, StoredIsWhole, At
      <4>2. file[c] = w => file'[c] = "whole"
        BY <1>0, <1>b, <2>1, <3>2 DEF write_all
      <4>3. writers'[w].pc = "stored"
        BY <1>0, <3>2, StepMoves DEF write_all
      <4> QED
        BY <4>1, <4>2, <4>3
    <3>3. CASE promote_temporary(w)
      <4>1. CASE file[c] = "absent"
        BY <1>0, <1>b, <2>1, <3>3, <4>1, StepMoves DEF promote_temporary
      <4>2. CASE file[c] # "absent"
        BY <1>0, <3>3, <4>2, StepMoves DEF promote_temporary
      <4> QED
        BY <4>1, <4>2
    <3>4. CASE verify_raw_object(w)
      BY <1>0, <3>4, StepMoves DEF verify_raw_object
    <3> QED
      BY <1>2, <3>1, <3>2, <3>3, <3>4
  <2>4. ReferencedIsReadable'
    BY <1>0, <1>b, <2>1, <2>2 DEF ReferencedIsReadable, RowType
  <2>5. StoredIsWhole'
    BY <1>0, <1>b, <2>1, <2>2, <2>3 DEF StoredIsWhole, Storing, At
  <2>6. CountedIsFree'
    BY <1>0, <1>b, <1>f, <2>1, <2>2 DEF CountedIsFree, Deleting, References, Storing, AtTask
  <2> QED
    BY <2>4, <2>5, <2>6
<1>3. CASE Commit(w)
  <2>1. /\ UNCHANGED <<file, workers, overlapped>>
        /\ writers[w].pc = "stored"
        /\ \A x \in Writers : x # w => writers'[x] = writers[x]
        /\ writers'[w].pc = "idle"
    BY <1>0, <1>3 DEF Commit, At, Stop, IdleWriter
  <2>2. \A row \in rows' : row \in rows \/ row.blob = c
    BY <1>3 DEF Commit
  <2>3. c \notin overlapped => file[c] = "whole"
    BY <1>0, <1>b, <2>1 DEF StoredIsWhole, At
  <2>4. ReferencedIsReadable'
    BY <1>0, <2>1, <2>2, <2>3 DEF ReferencedIsReadable
  <2>5. StoredIsWhole'
    BY <1>0, <2>1 DEF StoredIsWhole, Storing, At
  <2>6. CountedIsFree'
    BY <1>0, <1>f, <2>1, <2>2 DEF CountedIsFree, Deleting, References, Storing, AtTask
  <2> QED
    BY <2>4, <2>5, <2>6
<1>4. CASE Abandon(w)
  <2>1. /\ UNCHANGED <<rows, workers, overlapped>>
        /\ writers[w].pc # "idle"
        /\ \A x \in Writers : x # w => writers'[x] = writers[x]
        /\ writers'[w].pc = "idle"
    BY <1>0, <1>4 DEF Abandon, At, Stop, IdleWriter
  <2>2. /\ \A b \in Blobs : b # c => file'[b] = file[b]
        /\ file[c] = "whole" => file'[c] = "whole"
        /\ \A x \in Writers : x # w /\ file[c] = x => file'[c] = x
    BY <1>0, <1>4, <1>b, <2>1, BlobAssumption DEF Abandon
  <2>4. ReferencedIsReadable'
    BY <1>0, <1>b, <2>1, <2>2 DEF ReferencedIsReadable, RowType
  <2>5. StoredIsWhole'
    BY <1>0, <1>b, <2>1, <2>2 DEF StoredIsWhole, Storing, At
  <2>6. CountedIsFree'
    BY <1>0, <1>b, <1>f, <2>1, <2>2 DEF CountedIsFree, Deleting, References, Storing, AtTask
  <2> QED
    BY <2>4, <2>5, <2>6
<1> QED
  BY <1>1, <1>2, <1>3, <1>4 DEF WriterStep

(***************************************************************************)
(* The removal of a post keeps the invariant: it only takes rows away.     *)
(***************************************************************************)
LEMMA RemovalKeeps ==
  ASSUME IInv, NEW p \in Posts, remove_unreferenced_post(p)
  PROVE  (ReferencedIsReadable /\ StoredIsWhole /\ CountedIsFree)'
<1>0. TypeOK /\ ReferencedIsReadable /\ StoredIsWhole /\ CountedIsFree
  BY DEF IInv
<1>1. UNCHANGED <<file, writers, workers, overlapped>>
  BY DEF remove_unreferenced_post
<1>2. \A row \in rows' : \E old \in rows : row.blob = old.blob
  BY <1>0 DEF remove_unreferenced_post, TypeOK, RowType
<1>3. ReferencedIsReadable'
  BY <1>0, <1>1, <1>2 DEF ReferencedIsReadable
<1>4. StoredIsWhole'
  BY <1>0, <1>1 DEF StoredIsWhole, Storing, At
<1>5. \A b : References(b) = {} => References(b)' = {}
  BY <1>2 DEF References
<1>6. CountedIsFree'
  BY <1>0, <1>1, <1>5 DEF CountedIsFree, Deleting, Storing, AtTask
<1> QED
  BY <1>3, <1>4, <1>6

(***************************************************************************)
(* IInv is an invariant of the store.                                      *)
(***************************************************************************)
THEOREM StoreInvariant == Spec => []IInv
<1>1. Init => IInv
  <2> SUFFICES ASSUME Init PROVE IInv
    OBVIOUS
  <2>1. TypeOK
    BY DEF Init, TypeOK, NoTask, TaskType, IdleWriter, WriterType, WriterPC, IdleWorker,
       WorkerType, WorkerPC, Failures
  <2>2. IsFiniteSet(rows)
    BY FS_EmptySet DEF Init
  <2>3. ReferencedIsReadable /\ StoredIsWhole /\ CountedIsFree
    BY DEF Init, ReferencedIsReadable, StoredIsWhole, CountedIsFree, Storing, Deleting,
       IdleWriter, IdleWorker, Counted
  <2> QED
    BY <2>1, <2>2, <2>3 DEF IInv
<1>2. IInv /\ [Next]_vars => IInv'
  <2> SUFFICES ASSUME IInv, [Next]_vars PROVE IInv'
    OBVIOUS
  <2>1. TypeOK'
    BY TypeInductive DEF IInv
  <2>2. CASE Next
    <3>1. IsFiniteSet(rows')
      BY <2>2, FinitelyManyRows DEF IInv
    <3>2. (ReferencedIsReadable /\ StoredIsWhole /\ CountedIsFree)'
      BY <2>2, WriterKeeps, RemovalKeeps, AttemptKeeps DEF Next
    <3> QED
      BY <2>1, <3>1, <3>2 DEF IInv
  <2>3. CASE UNCHANGED vars
    BY <2>1, <2>3 DEF IInv, vars, ReferencedIsReadable, StoredIsWhole, CountedIsFree,
       References, Storing, Deleting, At, AtTask
  <2> QED
    BY <2>2, <2>3
<1> QED
  BY <1>1, <1>2, PTL DEF Spec

(***************************************************************************)
(* Outside the window in which a store overlaps a deletion attempt, no     *)
(* crash, retry, duplicate attempt or shared digest costs a committed row  *)
(* its bytes.                                                              *)
(***************************************************************************)
THEOREM ReferencedObjectsSurvive == Spec => []ReferencedIsReadable
<1>1. IInv => ReferencedIsReadable
  BY DEF IInv
<1> QED
  BY <1>1, StoreInvariant, PTL

(***************************************************************************)
(* A deletion task completes only when its bytes are gone and is final:    *)
(* the two `state = 'pending'` guards of process_blob_deletion_task.       *)
(***************************************************************************)
THEOREM CompletedTasksAreTruthful == Spec => CompletionIsTruthful
<1> DEFINE Truthful(b) ==
      /\ tasks[b].state = "pending" /\ tasks'[b].state = "complete" /\ b \notin overlapped
           => file[b] = "absent"
      /\ tasks[b].state = "complete" => tasks'[b] = tasks[b]
<1>1. ASSUME IInv, Next, NEW b \in Blobs
      PROVE  Truthful(b)
  <2>0. TypeOK /\ CountedIsFree
    BY <1>1 DEF IInv
  <2>1. CASE \E d \in Workers : MarkComplete(d)
    <3>1. PICK d \in Workers : MarkComplete(d)
      BY <2>1
    <3>2. b # workers[d].blob => tasks'[b] = tasks[b]
      BY <2>0, <3>1 DEF MarkComplete, TypeOK
    <3>3. tasks[b].state = "complete" => tasks'[b] = tasks[b]
      BY <2>0, <3>1 DEF MarkComplete, TypeOK
    <3>4. b = workers[d].blob /\ b \notin overlapped => file[b] = "absent"
      BY <2>0, <3>1 DEF MarkComplete, AtTask, CountedIsFree, Deleting, Counted
    <3> QED
      BY <2>0, <3>2, <3>3, <3>4 DEF TypeOK
  <2>2. CASE \E d \in Workers : record_blob_failure(d)
    <3>1. PICK d \in Workers : record_blob_failure(d)
      BY <2>2
    <3>2. tasks'[b].state = tasks[b].state
      BY <2>0, <3>1 DEF record_blob_failure, TypeOK, TaskType
    <3>3. tasks[b].state = "complete" => tasks'[b] = tasks[b]
      BY <2>0, <3>1 DEF record_blob_failure, TypeOK, TaskType
    <3> QED
      BY <3>2, <3>3
  <2>3. CASE \E p \in Posts : remove_unreferenced_post(p)
    BY <2>3 DEF remove_unreferenced_post, schedule_blob_task
  <2>4. CASE UNCHANGED tasks
    BY <2>4
  <2> QED
    BY <1>1, <2>1, <2>2, <2>3, <2>4 DEF Next, WriterStep, process_blob_deletion_task, store,
       create_once, write_all, promote_temporary, verify_raw_object, Commit, Abandon, LoadTask,
       CountReferences, ProbePath, VerifyBytes, RemoveFile, RecheckPath, StorageFails, WorkerStops
<1>2. IInv /\ [Next]_vars => [\A b \in Blobs : Truthful(b)]_vars
  BY <1>1
<1> QED
  BY <1>2, StoreInvariant, PTL DEF Spec, CompletionIsTruthful

(***************************************************************************)
(* A whole object without a row, that no writer is about to refer to and   *)
(* no writer abandoned.                                                    *)
(***************************************************************************)
LeftOver(b) ==
  /\ file[b] = "whole"
  /\ References(b) = {}
  /\ b \notin abandoned
  /\ \A w \in Writers : ~Storing(w, b)

(***************************************************************************)
(* An object that is left over without a removal task after a step was so  *)
(* before it: the step that takes the last row of an object schedules its  *)
(* removal.                                                                *)
(***************************************************************************)
LEMMA LeftOverIsOld ==
  ASSUME TypeOK, Next, NEW b \in Blobs, LeftOver(b)', tasks'[b].state = "none"
  PROVE  LeftOver(b) /\ tasks[b].state = "none"
<1> USE DEF TypeOK
<1>1. ASSUME NEW w \in Writers, WriterStep(w)
      PROVE  LeftOver(b) /\ tasks[b].state = "none"
  <2> DEFINE c == writers[w].request.blob
  <2>1. ASSUME NEW request \in Requests, store(w, request)
        PROVE  LeftOver(b) /\ tasks[b].state = "none"
    <3>1. \A x \in Writers : Storing(x, b) => Storing(x, b)'
      BY <2>1 DEF store, At, Storing
    <3> QED
      BY <2>1, <3>1 DEF store, LeftOver, References
  <2>2. CASE create_once(w) \/ write_all(w) \/ promote_temporary(w) \/ verify_raw_object(w)
    <3>1. /\ UNCHANGED <<rows, tasks, abandoned>>
          /\ writers[w].pc # "idle" /\ \E pc \in WriterPC \ {"idle"} : Step(w, pc)
          /\ \A x \in Blobs \ {c} : file'[x] = file[x]
      BY <2>2 DEF create_once, write_all, promote_temporary, verify_raw_object, At, WriterPC
    <3>2. /\ writers'[w].pc # "idle" /\ writers'[w].request.blob = c
          /\ \A x \in Writers : Storing(x, b) => Storing(x, b)'
      BY <3>1, StepMoves DEF Storing
    <3>3. b # c
      BY <3>2 DEF LeftOver, Storing
    <3> QED
      BY <3>1, <3>2, <3>3 DEF LeftOver, References
  <2>3. CASE Commit(w)
    <3>1. /\ UNCHANGED <<file, tasks, abandoned>> /\ rows \subseteq rows'
          /\ \E row \in rows' : row.blob = c
      <4>1. PICK row : row.blob = c /\ rows' = rows \cup {row}
        BY <2>3 DEF Commit
      <4> QED
        BY <2>3, <4>1 DEF Commit
    <3>2. b # c
      BY <3>1 DEF LeftOver, References
    <3>3. \A x \in Writers : Storing(x, b) => Storing(x, b)'
      BY <2>3, <3>2 DEF Commit, Stop, Storing
    <3> QED
      BY <3>1, <3>3 DEF LeftOver, References
  <2>4. CASE Abandon(w)
    <3>1. /\ UNCHANGED <<rows, tasks>> /\ c \in abandoned' /\ abandoned \subseteq abandoned'
          /\ \A x \in Blobs \ {c} : file'[x] = file[x]
      BY <2>4 DEF Abandon
    <3>2. b # c
      BY <3>1 DEF LeftOver
    <3>3. \A x \in Writers : Storing(x, b) => Storing(x, b)'
      BY <2>4, <3>2 DEF Abandon, Stop, Storing
    <3> QED
      BY <3>1, <3>2, <3>3 DEF LeftOver, References
  <2> QED
    BY <1>1, <2>1, <2>2, <2>3, <2>4 DEF WriterStep
<1>2. ASSUME NEW p \in Posts, remove_unreferenced_post(p)
      PROVE  LeftOver(b) /\ tasks[b].state = "none"
  <2> DEFINE gone == LastReference(p)
             kept(row) == [row EXCEPT !.posts = @ \ {p}]
  <2>1. /\ UNCHANGED <<file, writers, abandoned>>
        /\ rows' = {kept(row) : row \in rows \ gone}
        /\ tasks' = schedule_blob_task({row.blob : row \in gone})
    BY <1>2 DEF remove_unreferenced_post
  <2>2. tasks[b].state = "none" /\ \A row \in gone : row.blob # b
    <3> HIDE DEF gone
    <3> QED
      BY <2>1 DEF schedule_blob_task
  <2>3. \A row \in rows \ gone : row.blob # b
    <3>1. \A row \in rows \ gone : kept(row).blob = row.blob
      BY DEF RowType
    <3> HIDE DEF gone, kept
    <3> QED
      BY <2>1, <3>1 DEF LeftOver, References
  <2>4. References(b) = {}
    BY <2>2, <2>3 DEF References
  <2> QED
    BY <2>1, <2>2, <2>4 DEF LeftOver, Storing
<1>3. ASSUME NEW d \in Workers, process_blob_deletion_task(d)
      PROVE  LeftOver(b) /\ tasks[b].state = "none"
  <2>1. UNCHANGED <<rows, writers, abandoned>>
    BY <1>3 DEF process_blob_deletion_task, LoadTask, CountReferences, ProbePath, VerifyBytes,
       RemoveFile, RecheckPath, StorageFails, record_blob_failure, MarkComplete, WorkerStops
  <2>2. file'[b] \in {file[b], "absent"}
    BY <1>3 DEF process_blob_deletion_task, LoadTask, CountReferences, ProbePath, VerifyBytes,
       RemoveFile, RecheckPath, StorageFails, record_blob_failure, MarkComplete, WorkerStops
  <2>3. tasks[b].state = "none"
    <3>1. CASE record_blob_failure(d)
      BY <3>1 DEF record_blob_failure, TaskType
    <3>2. CASE MarkComplete(d)
      BY <3>2 DEF MarkComplete, TaskType
    <3>3. CASE UNCHANGED tasks
      BY <3>3
    <3> QED
      BY <1>3, <3>1, <3>2, <3>3 DEF process_blob_deletion_task, LoadTask, CountReferences,
         ProbePath, VerifyBytes, RemoveFile, RecheckPath, StorageFails, WorkerStops
  <2> QED
    BY <2>1, <2>2, <2>3 DEF LeftOver, References, Storing
<1> QED
  BY <1>1, <1>2, <1>3 DEF Next

(***************************************************************************)
(* Bytes that outlive their last row have a deletion task, unless their    *)
(* writer stopped before its row committed: every transaction that takes   *)
(* the last row of an object queues its task, and no task disappears.      *)
(***************************************************************************)
THEOREM LeftOversAreScheduled == Spec => []UnreferencedIsScheduled
<1>1. Init => UnreferencedIsScheduled
  BY DEF Init, UnreferencedIsScheduled
<1>2. IInv /\ UnreferencedIsScheduled /\ [Next]_vars => UnreferencedIsScheduled'
  <2> SUFFICES ASSUME IInv, UnreferencedIsScheduled, [Next]_vars
               PROVE  UnreferencedIsScheduled'
    OBVIOUS
  <2>1. \A b \in Blobs : LeftOver(b) => tasks[b].state # "none"
    BY DEF UnreferencedIsScheduled, LeftOver
  <2>2. CASE Next
    <3>1. \A b \in Blobs : LeftOver(b)' => tasks'[b].state # "none"
      BY <2>1, <2>2, LeftOverIsOld DEF IInv
    <3> QED
      BY <3>1 DEF UnreferencedIsScheduled, LeftOver
  <2>3. CASE UNCHANGED vars
    BY <2>3 DEF UnreferencedIsScheduled, References, Storing, vars
  <2> QED
    BY <2>2, <2>3
<1> QED
  BY <1>1, <1>2, StoreInvariant, PTL DEF Spec

(***************************************************************************)
(* The inputs observe_media reads, for byte counts of any size.            *)
(***************************************************************************)
PolicyInputs ==
  LET Option(S) == {{}} \cup {{x} : x \in S}
  IN  [archive_requested : BOOLEAN, acquisition_eligible : BOOLEAN,
       rights_confirmed : Option(BOOLEAN), kind_eligible : Option(BOOLEAN),
       mime_eligible : Option(BOOLEAN), url_lifetime_sufficient : Option(BOOLEAN),
       declared_bytes : Option(Nat), max_object_bytes : Nat,
       owner_remaining_bytes : Option(Nat), explicit_action : BOOLEAN]

(***************************************************************************)
(* A fetch is authorised only with every answer affirmative and recorded,  *)
(* and its lease is positive and within the object's and the owner's       *)
(* budgets (media_retention.rs observe_media).                             *)
(***************************************************************************)
THEOREM LeaseIsWithinBudgets ==
  ASSUME NEW input \in PolicyInputs, observe_media(input).decision = "archive"
  PROVE  LET lease == observe_media(input).max_bytes
         IN  /\ input.archive_requested /\ input.acquisition_eligible /\ input.explicit_action
             /\ input.rights_confirmed = {TRUE} /\ input.kind_eligible = {TRUE}
             /\ input.mime_eligible = {TRUE} /\ input.url_lifetime_sufficient = {TRUE}
             /\ input.declared_bytes = {lease}
             /\ 0 < lease /\ lease <= input.max_object_bytes
             /\ \E remaining \in input.owner_remaining_bytes : lease <= remaining
<1>1. /\ input.archive_requested /\ input.acquisition_eligible /\ input.explicit_action
      /\ input.rights_confirmed = {TRUE} /\ input.kind_eligible = {TRUE}
      /\ input.mime_eligible = {TRUE} /\ input.url_lifetime_sufficient = {TRUE}
      /\ input.declared_bytes # {} /\ input.declared_bytes # {0}
      /\ \A bytes \in input.declared_bytes : ~(bytes > input.max_object_bytes)
      /\ input.owner_remaining_bytes # {}
      /\ \A remaining \in input.owner_remaining_bytes, bytes \in input.declared_bytes :
           ~(remaining < bytes)
      /\ observe_media(input).max_bytes = CHOOSE bytes \in input.declared_bytes : TRUE
  BY Zenon DEF observe_media, MetadataOnly
<1>2. PICK bytes \in Nat : input.declared_bytes = {bytes}
  BY <1>1 DEF PolicyInputs
<1>3. PICK remaining \in Nat : input.owner_remaining_bytes = {remaining}
  BY <1>1 DEF PolicyInputs
<1>4. observe_media(input).max_bytes = bytes
  BY <1>1, <1>2
<1>5. input.max_object_bytes \in Nat
  BY DEF PolicyInputs
<1>6. 0 < bytes /\ bytes <= input.max_object_bytes /\ bytes <= remaining
  BY <1>1, <1>2, <1>3, <1>5
<1> QED
  BY <1>1, <1>2, <1>3, <1>4, <1>6

=============================================================================
