----------------------------- MODULE DataExport -----------------------------
(***************************************************************************)
(* Receiving, importing and reprocessing owner-supplied Data Exports.      *)
(*                                                                         *)
(* A receipt is one row per owner and archive digest.  An import reads the *)
(* run's outcome outside any transaction, parses the immutable archive and *)
(* then reconciles it in one transaction; several imports of one run may   *)
(* overlap.  The reprocess-export command loads the run's records first    *)
(* and applies its plan in a later transaction, in chunks that can be      *)
(* retried under a stable operation id.  Any call may stop between two     *)
(* steps, and a transaction that fails leaves nothing.                     *)
(***************************************************************************)
EXTENDS ExportArchive, FiniteSets

CONSTANTS
  Users,        \* owners
  Archives,     \* archives, identified by their digest
  Captures,     \* captures that may exist beside the exports
  OwnerOf,      \* [Captures -> Users]
  IdentityOf,   \* [Captures -> provider identity of the post it resolves to]
  NoIdentity,   \* the identity of a capture without a post: null
  Importers,    \* concurrent import calls
  Operators,    \* concurrent reprocess-export processes
  Operations,   \* operation ids an operator may use
  Commands,     \* command lines: mode and flags
  Chunks,       \* values of max_items
  MaxBytes,     \* MAX_ARCHIVE_RECEIPT_BYTES
  MaxReceipts   \* bound: receipts in a behaviour

ASSUME ExportAssumption ==
  /\ OwnerOf \in [Captures -> Users]
  /\ Chunks \subseteq Nat \ {0}
  /\ MaxReceipts \in Nat
  /\ \A archive \in Archives :
       /\ archive.entries \in Seq(ToSet(archive.entries))
       /\ archive.posts \in Seq(ToSet(archive.posts))
       /\ archive.relations \in Seq(ToSet(archive.relations))
       /\ \A entry \in ToSet(archive.entries) :
            /\ entry.size \in 0..MaxWord /\ entry.compressed \in 0..MaxWord
            /\ entry.depth \in Nat

VARIABLES
  runs,        \* export_runs, by owner and archive
  records,     \* export_records of each run, in the order of their keys
  posts,       \* provider identities with a posts row
  relations,   \* post_relations
  captures,    \* the identity each capture row leads to, "none" without a row
  importers,   \* the run each import call works on
  operators,   \* what each reprocess-export process has loaded
  reprocessed, \* export_reprocessing_runs with their items, by owner and operation
  overlapped   \* history: runs that two imports worked on at once

vars == <<runs, records, posts, relations, captures, importers, operators, reprocessed,
          overlapped>>

Receipts == Users \X Archives
NoRun == <<>>
NoReport == [export_identities |-> 0, matched_captures |-> 0, export_only |-> 0,
             capture_only |-> 0, non_comparable_captures |-> 0]
Absent == [outcome |-> "none", records_processed |-> 0, report |-> NoReport]
Unstarted == [run |-> NoRun, plan |-> <<>>, items |-> {}, state |-> "none", checkpoint |-> 0]
Waiting == [run |-> NoRun, mode |-> "none", plan |-> <<>>]

Init ==
  /\ runs = [r \in Receipts |-> Absent]
  /\ records = [r \in Receipts |-> <<>>]
  /\ posts = {}
  /\ relations = {}
  /\ captures = [c \in Captures |-> "none"]
  /\ importers = [i \in Importers |-> NoRun]
  /\ operators = [j \in Operators |-> Waiting]
  /\ reprocessed = [o \in Users \X Operations |-> Unstarted]
  /\ overlapped = {}

Received == {r \in Receipts : runs[r].outcome # "none"}
Completed(run) == run.outcome \in {"completed", "completed_with_warnings"}

-----------------------------------------------------------------------------
(***************************************************************************)
(* Receipts and the captures beside them                                   *)
(***************************************************************************)

(***************************************************************************)
(* receive and receive_stream: an archive over the receipt limit is        *)
(* refused; a new owner and digest starts a running import.  The same      *)
(* bytes from the same owner are answered with the existing run.           *)
(***************************************************************************)
persist_receipt(u, archive) ==
  /\ archive.bytes <= MaxBytes
  /\ Cardinality(Received) < MaxReceipts
  /\ runs[<<u, archive>>].outcome = "none"
  /\ runs' = [runs EXCEPT ![<<u, archive>>].outcome = "running"]
  /\ UNCHANGED <<records, posts, relations, captures, importers, operators, reprocessed,
                 overlapped>>

(***************************************************************************)
(* A capture of the owner is admitted, without a post.  What else happens  *)
(* to it is in CaptureLifecycle.                                           *)
(***************************************************************************)
submit(c) ==
  /\ captures[c] = "none"
  /\ captures' = [captures EXCEPT ![c] = NoIdentity]
  /\ UNCHANGED <<runs, records, posts, relations, importers, operators, reprocessed, overlapped>>

(***************************************************************************)
(* A public resolution upserts the post of a capture and refers the        *)
(* capture to it.  (The relations it observes are in AccountArchive.)      *)
(***************************************************************************)
record(c) ==
  /\ captures[c] # "none"
  /\ posts' = posts \cup {IdentityOf[c]}
  /\ captures' = [captures EXCEPT ![c] = IdentityOf[c]]
  /\ UNCHANGED <<runs, records, relations, importers, operators, reprocessed, overlapped>>

-----------------------------------------------------------------------------
(***************************************************************************)
(* Import                                                                  *)
(***************************************************************************)

(***************************************************************************)
(* A variant that imports a completed run again.                           *)
(***************************************************************************)
ReimportsCompleted(r) == runs[r].outcome \in {"running", "completed", "completed_with_warnings"}

(***************************************************************************)
(* Only a running import goes on: a completed one answers with its stored  *)
(* outcome and a failed one with an error.                                 *)
(***************************************************************************)
terminal_outcome(r) == runs[r].outcome = "running"

(***************************************************************************)
(* The status is read in a statement of its own, before the archive is     *)
(* read and parsed.                                                        *)
(***************************************************************************)
load_run_status(i, r) ==
  /\ importers[i] = NoRun
  /\ r \in Received /\ terminal_outcome(r)
  /\ importers' = [importers EXCEPT ![i] = r]
  /\ overlapped' = IF \E other \in Importers \ {i} : importers[other] = r
                   THEN overlapped \cup {r} ELSE overlapped
  /\ UNCHANGED <<runs, records, posts, relations, captures, operators, reprocessed>>

(***************************************************************************)
(* A parse failure marks a run that is still running failed.               *)
(***************************************************************************)
mark_failed(i) ==
  LET r == importers[i]
  IN  /\ r # NoRun
      /\ parse_export(r[2]) # "ok"
      /\ runs' = [runs EXCEPT ![r].outcome = IF @ = "running" THEN "failed" ELSE @]
      /\ importers' = [importers EXCEPT ![i] = NoRun]
      /\ UNCHANGED <<records, posts, relations, captures, operators, reprocessed, overlapped>>

(***************************************************************************)
(* Coverage of the owner's captures by the export's identities.            *)
(***************************************************************************)
completeness_report(export_identities, owned) ==
  LET comparable == {captures[c] : c \in owned} \ {NoIdentity}
  IN  [export_identities       |-> Cardinality(export_identities),
       matched_captures        |-> Cardinality(export_identities \cap comparable),
       export_only             |-> Cardinality(export_identities \ comparable),
       capture_only            |-> Cardinality(comparable \ export_identities),
       non_comparable_captures |-> Cardinality({c \in owned : captures[c] = NoIdentity})]

capture_identities(u) == {c \in Captures : OwnerOf[c] = u /\ captures[c] # "none"}

(***************************************************************************)
(* What one reconciliation writes: a normalized record per post, a warning *)
(* per relation whose source is unknown, a record per unknown section.     *)
(***************************************************************************)
Items(archive, known) ==
  LET Of(kind, list) == [n \in DOMAIN list |-> [kind |-> kind, of |-> list[n]]]
      Unresolved == Selected(archive.relations,
                      {n \in DOMAIN archive.relations : archive.relations[n].from \notin known})
  IN  Of("normalized", archive.posts) \o Of("warning", Unresolved)
        \o Of("unknown_section", unknown_entries(archive))

(***************************************************************************)
(* A relation with a known source is written or, for the same source,      *)
(* target and kind, given its current target post.                         *)
(***************************************************************************)
record_export_relation(archive, known) ==
  LET new == {[from |-> relation.from, kind |-> relation.kind, to |-> relation.to,
               resolved |-> relation.to \in known] :
                relation \in {x \in ToSet(archive.relations) : x.from \in known}}
      SameKey(a, b) == a.from = b.from /\ a.kind = b.kind /\ a.to = b.to
  IN  {row \in relations : \A x \in new : ~SameKey(row, x)} \cup new

(***************************************************************************)
(* A variant that finishes the run whatever its outcome.                   *)
(***************************************************************************)
FinishAnyOutcome(r, finished) == [runs EXCEPT ![r] = finished]

(***************************************************************************)
(* The run is finished only while it is running; the rows affected are not *)
(* checked, so a second reconciliation commits its records all the same.   *)
(***************************************************************************)
finish_run(r, finished) ==
  [runs EXCEPT ![r] = IF @.outcome = "running" THEN finished ELSE @]

(***************************************************************************)
(* One transaction over posts, records, relations, facts and the run.      *)
(***************************************************************************)
reconcile(i) ==
  LET r       == importers[i]
      archive == r[2]
      known   == posts \cup ToSet(archive.posts)
      unknown == unknown_entries(archive)
  IN  /\ r # NoRun
      /\ parse_export(archive) = "ok"
      /\ posts' = known
      /\ records' = [records EXCEPT ![r] = @ \o Items(archive, known)]
      /\ relations' = record_export_relation(archive, known)
      /\ runs' = finish_run(r,
           [outcome |-> IF unknown = <<>> THEN "completed" ELSE "completed_with_warnings",
            records_processed |-> Len(archive.posts) + Len(archive.relations) + Len(unknown),
            report |-> completeness_report(ToSet(archive.posts), capture_identities(r[1]))])
      /\ importers' = [importers EXCEPT ![i] = NoRun]
      /\ UNCHANGED <<captures, operators, reprocessed, overlapped>>

(***************************************************************************)
(* The archive cannot be read, the transaction is rolled back, or the      *)
(* process stops: the run stays running.                                   *)
(***************************************************************************)
ImportStops(i) ==
  /\ importers[i] # NoRun
  /\ importers' = [importers EXCEPT ![i] = NoRun]
  /\ UNCHANGED <<runs, records, posts, relations, captures, operators, reprocessed, overlapped>>

-----------------------------------------------------------------------------
(***************************************************************************)
(* Reprocessing                                                            *)
(***************************************************************************)

(***************************************************************************)
(* A command line is a mode and its flags, each at most once; apply alone  *)
(* takes an operation id.                                                  *)
(***************************************************************************)
parse_reprocess_command(command) ==
  LET given == ToSet(command.flags)
  IN  /\ command.mode \in {"dry-run", "apply"}
      /\ Cardinality(given) = Len(command.flags)
      /\ given \subseteq {"owner", "run-id", "parser", "operation-id"}
      /\ {"parser", "owner", "run-id"} \subseteq given
      /\ command.mode = "apply" <=> "operation-id" \in given

(***************************************************************************)
(* The records of a run whose version was detected are its plan.           *)
(***************************************************************************)
load_reprocessing_inputs(j, command, r) ==
  /\ operators[j] = Waiting
  /\ parse_reprocess_command(command)
  /\ Completed(runs[r])
  /\ operators' = [operators EXCEPT ![j] =
       [run |-> r, mode |-> command.mode, plan |-> records[r]]]
  /\ UNCHANGED <<runs, records, posts, relations, captures, importers, reprocessed, overlapped>>

(***************************************************************************)
(* A dry run reports on what was loaded and writes nothing.                *)
(***************************************************************************)
dry_run(j) ==
  /\ operators[j].mode = "dry-run"
  /\ operators' = [operators EXCEPT ![j] = Waiting]
  /\ UNCHANGED <<runs, records, posts, relations, captures, importers, reprocessed, overlapped>>

(***************************************************************************)
(* A variant that resumes an operation whatever plan it was started with.  *)
(***************************************************************************)
ResumeAnyPlan(started, r, plan) == TRUE

(***************************************************************************)
(* An operation is bound to the run and plan it started with.              *)
(***************************************************************************)
ensure_reprocessing_run(started, r, plan) ==
  started.state # "none" => started.run = r /\ started.plan = plan

(***************************************************************************)
(* The next items without a checkpoint, in key order.                      *)
(***************************************************************************)
NextItems(done, plan, max_items) ==
  LET todo == DOMAIN plan \ done
  IN  {k \in todo : Cardinality({x \in todo : x < k}) < max_items}

finish_reprocessing_run(items, plan) ==
  IF Cardinality(items) # Len(plan) THEN "running"
  ELSE IF \E k \in DOMAIN plan : plan[k].kind = "warning" THEN "completed_with_warnings"
  ELSE "completed"

(***************************************************************************)
(* One transaction, serialised per operation by its row lock: an operation *)
(* with another plan is refused, a completed one is left as it is.         *)
(***************************************************************************)
apply_chunk(j, op, max_items) ==
  LET key     == <<operators[j].run[1], op>>
      plan    == operators[j].plan
      started == reprocessed[key]
      chunk   == NextItems(started.items, plan, max_items)
      items   == started.items \cup chunk
  IN  /\ operators[j].mode = "apply"
      /\ operators' = [operators EXCEPT ![j] = Waiting]
      /\ reprocessed' =
           IF /\ ensure_reprocessing_run(started, operators[j].run, plan)
              /\ started.state \notin {"completed", "completed_with_warnings"}
           THEN [reprocessed EXCEPT ![key] =
                   [run        |-> operators[j].run,
                    plan       |-> IF started.state = "none" THEN plan ELSE started.plan,
                    items      |-> items,
                    state      |-> finish_reprocessing_run(items, plan),
                    checkpoint |-> IF chunk = {} THEN started.checkpoint ELSE Max(chunk)]]
           ELSE reprocessed
      /\ UNCHANGED <<runs, records, posts, relations, captures, importers, overlapped>>

(***************************************************************************)
(* The command stops before its transaction, or the transaction fails.     *)
(***************************************************************************)
OperatorStops(j) ==
  /\ operators[j] # Waiting
  /\ operators' = [operators EXCEPT ![j] = Waiting]
  /\ UNCHANGED <<runs, records, posts, relations, captures, importers, reprocessed, overlapped>>

import(i) ==
  \/ \E r \in Receipts : load_run_status(i, r)
  \/ mark_failed(i)
  \/ reconcile(i)
  \/ ImportStops(i)

run_reprocess_export(j) ==
  \/ \E command \in Commands, r \in Receipts : load_reprocessing_inputs(j, command, r)
  \/ dry_run(j)
  \/ \E op \in Operations, max_items \in Chunks : apply_chunk(j, op, max_items)
  \/ OperatorStops(j)

Next ==
  \/ \E u \in Users, archive \in Archives : persist_receipt(u, archive)
  \/ \E c \in Captures : submit(c) \/ record(c)
  \/ \E i \in Importers : import(i)
  \/ \E j \in Operators : run_reprocess_export(j)

Spec == Init /\ [][Next]_vars

-----------------------------------------------------------------------------
(***************************************************************************)
(* Properties                                                              *)
(***************************************************************************)

(***************************************************************************)
(* An import completes only for an archive within every limit, measured on *)
(* unbounded numbers: the word-sized totals and the saturated ratio of     *)
(* inspect_archive let nothing larger through.                             *)
(***************************************************************************)
CompletedWithinLimits ==
  \A r \in Receipts : Completed(runs[r]) => WithinLimits(r[2])

(***************************************************************************)
(* Replays, retries after a crash and repeated receipts give a run no      *)
(* record twice, except that imports which overlap each commit their own   *)
(* set (import reads the outcome before its transaction).                  *)
(***************************************************************************)
ReplayAddsNothing ==
  \A r \in Receipts :
    r \notin overlapped =>
      \A m, n \in DOMAIN records[r] : records[r][m] = records[r][n] => m = n

(***************************************************************************)
(* A finished run keeps its outcome and its completeness report: a second  *)
(* import that was under way, with other captures beside it, and a late    *)
(* failure change neither (the `outcome = 'running'` guards).              *)
(***************************************************************************)
FinishedRunIsFinal ==
  [][\A r \in Receipts :
       Completed(runs[r]) \/ runs[r].outcome = "failed" => runs'[r] = runs[r]]_vars

(***************************************************************************)
(* However an operation is chunked, interrupted, repeated or raced, its    *)
(* items are the first ones of the plan it started with, its checkpoint is *)
(* the last of them, and it is completed exactly when none is missing.     *)
(***************************************************************************)
ReprocessingFollowsPlan ==
  \A o \in DOMAIN reprocessed :
    LET op == reprocessed[o]
    IN  op.state # "none" =>
          /\ op.items = 1..op.checkpoint
          /\ op.items \subseteq DOMAIN op.plan
          /\ op.state = "running" <=> op.items # DOMAIN op.plan

=============================================================================
