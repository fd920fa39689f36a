# A TLA+ model of ratatoskr-threads

The service archives Threads posts that users capture explicitly. It takes
browser capture commands from a durable NATS stream, resolves each permalink
through the public oEmbed endpoint, keeps what it learns in PostgreSQL, and
publishes operation reports (to Platform) and social-source facts (to
Knowledge) through a transactional outbox. Owners can delete what they
captured, and Knowledge must learn of it.

Source paths below are relative to `src/crates/threads-archive/src/` unless they
start with `src/`.

## 1. Inventory

| part | state | operations | meets |
|---|---|---|---|
| command intake (`browser_capture_command.rs`) | none | classify a payload as accepted, rejected (answerable) or invalid | consumer |
| consumer and inbox (`nats.rs`, `browser_capture_inbox.rs`) | `inbox_events`, the broker's pending deliveries | deliver, reject, terminate, flush, acknowledge, negatively acknowledge, stop | broker, captures, outbox |
| capture store (`capture.rs`) | `captures`, `tombstones`, `capture_resolutions` | submit, record_observation, mark_unavailable | resolver, deletion |
| capture resolver (`capture_resolution.rs`) | `captures` schedule columns, the pass in memory | claim, process, attempt, record_transient_failure, report | capture store, publishing, outbox |
| public resolution (`public_resolution.rs`) | `posts`, `post_revisions`, `post_relations`, `raw_objects` | resolve, record, record_relations | raw store, publishing |
| operation reports (`capture_reporting.rs`) | `outbox_events` | append_report | Platform |
| outbox relay (`outbox_relay.rs`) | `outbox_events` | flush, mark, back off, resend | broker |
| removal acknowledgement (`removal_acknowledgement.rs`, `deletion_acks.rs`) | `outbox_events` resend columns | arm, resend, acknowledge | Knowledge |
| social source publishing (`publishing.rs`) | `social_sources`, `social_source_revisions`, outbox | captured, updated, removed facts for captures, official posts and exports | resolver, sync, import, deletion |
| privacy deletion (`privacy_deletion.rs`) | `deletion_operations`, `local_source_removals`, everything an owner holds | preview, apply to a capture or a connection | all of the above |
| knowledge links (`knowledge.rs`) | `social_analysis_links` | record, refuse for removed sources | deletion |
| raw objects and media (`media_retention.rs`, `public_resolution/*`) | files, `raw_objects`, `media`, `blob_deletion_tasks` | store, verify, delete, expire | deletion, resolution |
| re-resolution (`re_resolution.rs`) | jobs, items | select, claim, attempt within a budget | capture store |
| account sync, OAuth (`account_sync.rs`, `oauth.rs`, `capability.rs`) | accounts, credentials, checkpoints | connect, refresh, revoke, sync | publishing |
| data export (`data_export*.rs`) | receipts, runs, records | receive, import, reprocess in chunks | publishing |
| supervision (`src/services/threads-archive/src/`) | worker tasks, readiness | spawn, exit, drain | consumer, resolver, acknowledgement consumer |

What makes it hard: every message comes at least once; a delivery commits, then
publishes, then acknowledges, and may die between any two of these; a resolver
leases rows by time, so a slow pass and a fresh one can hold the same row; a
pass works from the row it read at the claim; the guard, the report and the
publication are three separate facts about one operation; an owner deletes rows
under all of them; a deletion must survive a stream that drops messages. Three
lanes write the same posts and publish about the same sources; files and the
rows that refer to them are written by different steps; and at READ COMMITTED a
count is stale as soon as its statement ends.

What correctness means: an operation is answered once and truthfully, and in the
end; a command is forgotten by the broker only when its effect is durable; no
failing row blocks others; the outbox table never claims what the broker did not
take; Knowledge hears of every removal. A library shows what its owner holds; a
referenced object can be read and an unreferenced one is on its way out; a
replay adds nothing; a watermark skips nothing; a stored grant is the account's.

`PROJECT.json` lists the components, and under `hazards` the places where these
can go wrong, with the properties that would notice.

## 2. Modules

| module | models |
|---|---|
| `CaptureOperation` | the promise to Platform: an operation is issued, then queued or failed, then succeeded or failed, once; only its owner withdraws it |
| `CaptureLifecycle` | command consumer, inbox, resolver, reports, owner deletion of captures, crashes and restarts |
| `OutboxRelay` | the pump, its place in the consumer loop, resends and acknowledgements of removals |
| `SourceFeed` | the promise to Knowledge: a source is captured, updated with states it did not have, and removed once before it starts over |
| `SourceHoldings` | posts and sources of three lanes, their facts, owner deletion with its holdings and references, completion links |
| `BlobStore` | content-addressed files, the rows that refer to them, deletion tasks, the media policy |
| `ExportArchive` | inspection and parsing verdict of an export archive, as pure operators over a bounded word |
| `DataExport` | receipts, imports, runs and records, chunked reprocessing |
| `ReplyGraph` | relation checks and the cycle search of public resolution, as pure operators |
| `OfficialAccount` | grant, audit, checkpoint and deletion of a connection, statement by statement |
| `AccountArchive` | composition: the posts and relations that synchronization and public resolution write together |
| `MC...` | instances for TLC |
| `NaturalSets` | induction and recursion over numbers and over ranked sets, in a form the provers can use |
| `CaptureLifecycleProofs` | proofs for any number of processes and, at its end, for at most one resolver |
| `OutboxRelayProofs` | proofs about the relay |
| `SourceHoldingsProofs` | libraries, posts, facts, links and audits; the refinement of `SourceFeed` |
| `BlobStoreProofs`, `DataExportProofs`, `OfficialAccountProofs` | proofs about these three |
| `AccountArchiveProofs` | the composition implements `OfficialAccount`; the cycle search is exact; checked replies stay acyclic |

### CaptureLifecycle

A process (`Instances`) runs one consumer (`bus[i]`) and one resolver
(`pass[i]`). A command also names its operation, and the capture row its
delivery inserts. `captures[c]` has the columns the resolver uses; `status =
"none"` means no row. `reports` are the `platform.operation.reported.v1` rows.
An outbox row is here only what was queued; its publication is `OutboxRelay`'s
matter, and `Acknowledge` stands for a flush that succeeded.

| action | code |
|---|---|
| `Receive`, `Terminate`, `Acknowledge`, `Unsettled`, `BusStops` | `nats.rs` `run`, `handle_delivery`, `settle` |
| `deliver`, `reject`, `Redelivered` | `browser_capture_inbox.rs` (one transaction each, inbox marker included) |
| `claim`, `process` | `capture_resolution.rs` `claim`, `run_due_once`, `process`, `recorded_terminal` |
| `RecordResolved`, `mark_unavailable`, `ObserveResolverFailed` | one transaction each: `public_resolution.rs` `record`, `capture.rs` `record_observation` |
| `record_transient_failure`, `report` | the statement and the transaction of those names |
| `CaptureVanished`, `LocalFault` | errors that end a pass |
| `Restart`, `Crash`, `TimePasses` | supervisor, process death, clock |
| `CountHoldings`, `DeleteCapture`, `DeletionFails` | `privacy_deletion.rs` `apply`: lock and count, commit, rollback |

Every transaction but the deletion is one step, and everything between two of
them is an interleaving point. `library` and `removals` are the owner's sources that
are published and those a deletion removed, a source being named by what its
captures resolve to (`HoldingOf`). A deletion locks its capture and counts the other
holdings (`erasing[c]`), and removes the source with the capture later; a capture it
has locked cannot be written, but another capture of the same post can. This
is how a resolved capture loses its source before it is reported: `stored_source`
finds none, and the report says inaccessible. The guard and the report row are
written by one transaction and so by one step; no property here is about a split of
it. A pass keeps the row as it was at the claim (`Snapshot`);
only the tombstone and the guard are read later, as in the code. The outcome of a
fetch is free: `classify` maps responses to the outcomes that
`RecordResolved`, `mark_unavailable` and `ObserveResolverFailed` record. A claim may get any set of at most
`BatchSize` due rows, because `skip locked` passes over rows other transactions
hold; this includes the oldest-first choice of the query. The clock is abstracted
to "due", "later" and "never", so a lease may run out under a working pass.

### OutboxRelay

`outbox[e]` is a row with its publication, backoff, resend and acknowledgement
columns. `relay[i]` is the pump's program counter within `flush_outbox`: reading
the batch, at the broker with a row, about to mark it, and so on; each database
statement and each publication is a step. `copies[e]` counts what the broker
took, whether or not the pump learnt of it, and `handled[e]` what Knowledge
answered or will never see (a message dropped from the stream, or collapsed
with another of the same `Nats-Msg-Id`). A delivery inserts its report and
starts a flush; when the flush returns without an error the command is
acknowledged. Other transactions append facts (`Append`), a deletion purges
them (`Purge`).

Backoffs double: `next_attempt_at = "long"` is one that outlasts the start of
one more flush, which a row reaches after `Patience` failures. Without that
distinction a row could come due before every flush, which the code's
2^attempt_count excludes in the long run.

### SourceHoldings and SourceFeed

A source is an owner and a post (`sources[<<u, p>>]`: first capture, revisions,
the digests tied for the newest `observed_at`, queued facts). A digest is the
snapshot it hashes: text, status, acquisition method, saved authority; relations
enter it as text does. Each of `record`, `mark_unavailable`, `sync` and
`reconcile` is the whole transaction of its lane: the upsert of the post with what
that lane resets, then `append_origin_fact` for every origin. The result is a set:
nothing when the newest digest repeats, a fact when the digest is new, and no
result (the transaction fails on the unique key) when it repeats an older one.
`late` is a transaction that began before that of the newest revision, since
`observed_at` is the start of a transaction. Several origins of one source in one
transaction are published in any order (`AppendFacts`).

A write of a post is one step, because the row lock of the post serializes it
with every other write of it. A deletion is four steps, because it locks only
its target before it counts: `apply` (plan, count of holdings),
`remove_final_owner_source` (purge of queued facts, removal),
`remove_unreferenced_post` (source deleted and locked, count of references),
`apply_target_rows` (the rest, to the commit); `DeletionFails` rolls it back at any
point. `overlapped` marks posts that another transaction touched between these
steps; properties that the code keeps only without such an overlap say so.

A completion is three steps: the inbox row and the removal check
(`RecordCompletion`), the lookup of the revision (`MatchRevision`), the link
(`LinkCompletion`), which waits for a deletion that has locked the source and fails
when the revision is gone (`CompletionFails`). `overtaken` marks completions whose
source was removed after their check.

`SourceFeed` is what a reader of the facts may rely on; the mapping reads the kind
of the latest fact and the digests of the stored revisions.

### BlobStore

A digest stands for its body, so a file verifies exactly when it is whole; a file
being written in place names its writer. Each access to the directory and each
statement is a step: `store` (probe), `create_once`, `write_all`, or
`promote_temporary` for a stream; `verify_raw_object`; `Commit` of the row. The
attempt of a deletion task reads, counts, probes, verifies, removes, probes and
marks, and either side may stop between two steps. `overlapped` marks an object
that was stored while an attempt was between its count and its end. That window
is unlocked in the code and does lose bytes; everything stated here is about the
objects outside it. `observe_media` and `archive_acquired_media` guard the media
writer. No code of the crate inserts a media row; its commit is taken from the
schema.

### ExportArchive and DataExport

Sizes are words of `MaxWord`, with the checked addition and the saturating
multiplication of the code; `WithinLimits` states the same limits on unbounded
numbers, and that no path is deeper than `max_path_depth`. An import reads the run's outcome in a statement of its own
(`load_run_status`) and reconciles in one transaction (`reconcile`); several may
be open on one run (`overlapped`). `reconcile` keeps records, relations, the
run's outcome and its completeness report; the post rows and facts it also
writes are in `SourceHoldings`. Captures, which a report is compared with, are admitted
without an identity (`submit`) and get it when they are resolved (`record`). A record's place is the order of its UUIDv7 key, taken to
be the commit order. An operator loads the records of a completed run, then
applies them in chunks under an operation id; `apply_chunk` is one transaction
under the lock of its operation's row.

### OfficialAccount, ReplyGraph and AccountArchive

A refresh or a revocation is: the snapshot of the credential rows its DELETE sees
(`Start`), the wait for rows others hold (`LockRows`), and the rest to the commit
(`refresh`, `scrub_revoked`). A deletion locks the account first
(`require_owned_locked`), then detaches its posts (`DetachPosts`), and waits for the
credentials afterwards; the opposite order can deadlock, and `CallFails` is the
database ending it, as well as any error. A scan reads the checkpoint and lists
(`sync`), and records the page with its checkpoint in one transaction
(`record_page`). The availability a scan starts from is the caller's: the support
status of the mode and the scopes the caller saw, which need not be those of the
account when the scan starts. A page of an account that a deletion has locked waits
unless the checkpoint row exists already, since only a new row takes the key of the
account. `raced` remembers since the connection was made whether lifecycle
calls overlapped and whether a scan that had read a watermark of an earlier
connection was still open.

`AccountArchive` EXTENDS `OfficialAccount` and `ReplyGraph`: a page also writes posts
and replies, unchecked; a resolution takes `RELATION_LOCK`, checks all stored
replies together with its own (`record_relations`) and commits later. Deletions
remove posts that nothing holds, with the relations linked to them. A reference
definition of a cycle (`HasCycle`: posts each replying to one of them) is compared
with the depth-first search of the code in every reachable graph.

## 3. Runs

| run | question | instance |
|---|---|---|
| `lifecycle_single` | is every operation answered at most once and truthfully, are outcomes final, is the promise kept? | 3 commands (one refused), 1 process, 2 attempts, 1 fault, 1 deletion, symmetric; 876,861 states |
| `lifecycle_pair` | what survives two resolvers on one row and two commands on one key? | 2 commands, 2 processes, symmetric; 3,345,108 states |
| `lifecycle_live` | does everything end? | 3 commands (one invalid), 1 process, 1 fault, 1 deletion; 684,081 states |
| `lifecycle_withdrawn` | is every operation answered? (no) | 2 commands, no fault, 1 deletion |
| `relay_pair` | two pumps, crashes, answers that cross resends | 2 events, 2 processes, 2 faults; 3,888,419 states |
| `relay_live` | does one poison row starve others; does Knowledge hear of a removal? | 3 events, batch of 1, 1 process, 1 fault, 2 resends; 348,027 states |
| `relay_early_ack` | is a command acknowledged only after its report is published? (no) | 2 events, 1 process, 2 faults |
| `holdings_shared` | do libraries, posts, facts and links follow what owners hold, through every deletion? | 1 post, 2 owners, 3 captures, 1 connection, 3 observations, 1 completion; 1,167,200 states |
| `holdings_race` | does a held post stay in the library? (no) | the same with 2 observations |
| `blob_races` | do files, rows and tasks agree, whoever stops where? | 1 object, 2 posts, 2 writers, 2 attempts, 4 stores, symmetric; 569,099 states |
| `export_imports` | what do replayed, overlapping and refused imports and interrupted reprocessing leave? | 6 archives, 2 imports, 2 operators, 1 operation, 2 receipts, symmetric; 391,344 states |
| `account_lanes` | do grants, watermarks and reply graphs survive overlapping calls? | 1 account, 2 calls, 2 scans, 2 pages, 2 grants, 2 posts, 2 resolvers, symmetric; 701,377 states |

The bounds are in the guards and named: `MaxFaults` (crashes, lost settlements,
failed writes, refused publications, dropped copies), `MaxDeletions`,
`MaxResends`, and `MaxAttempts`, `BatchSize` from the configuration. Two attempts
are enough for a retry and a last attempt; a batch of two leaves a third row
behind or a second row leased while the pass fails on the first; one fault falls
at every point of every behaviour, two let a crash follow a refusal. Two
processes are what the races between passes and between pumps need.

In the later runs: `MaxWrites` counts observations (three let a post be recorded
for two owners, or through two lanes, and again during or after a deletion; with
four, 12,874,984 states, nothing else was found) or stores (four
let an object be stored, deleted and stored again beside a second writer);
`MaxReceipts`, `MaxGrants` and `LastPage` are two, for one of a kind before
another. One object is enough for `BlobStore`, since objects do not meet; the
requests refer to it from every table. One post is enough for `SourceHoldings`,
where posts meet only in the plan of a connection. The archives are at the
boundary of each limit in a word of four bits, one of them with totals that
would wrap and one with a path too deep. `relay_live` has one row the broker never
takes and a batch of one; more such rows than a batch holds are not in it. The instances of `holdings_shared`, `blob_races`, `export_imports`
and `account_lanes` come to rest when the bounds are used up, so deadlock is
not checked there.

The three violations are findings about documentation:

* `lifecycle_withdrawn`: `src/schema.sql` says that exactly one terminal report
  is queued per operation. An owner who deletes the capture first
  (`privacy_deletion.rs:480`) leaves none.
* `relay_early_ack`: the comment on `run` in `nats.rs` says a capture is
  acknowledged only after every pending outbox fact was acknowledged by the
  broker. `flush_outbox` passes over rows that are backed off. After a failed
  publication the process restarts, the command is redelivered, and the flush
  that precedes its acknowledgement skips its own report. The report is
  published later: `NoRowStarves`.
* `holdings_race`: `src/openspec/specs/privacy-deletion/spec.md` says that a
  capture's deletion removes library membership only when no other capture of the
  owner keeps the source. A resolution of another capture that commits after the
  count (`privacy_deletion.rs:535`) is not counted, and its source is removed.

Three more disagreements with a specification are exceptions that the properties
of a passing run name; each was seen to be reachable there:

* `holdings_shared`: `src/openspec/specs/social-source-publishing/spec.md:94` forbids
  a removal while an export-derived holding is left. The count
  (`privacy_deletion.rs:535`) leaves exports out, and `LibraryFollowsHoldings` asks
  nothing for them.
* `holdings_shared`: the same line forbids a link after a removal. A completion that
  passed its check before the deletion committed (`knowledge.rs:81`) links afterwards
  if the owner has acquired the post again. `NoLinkAfterRemoval` admits these links
  (`overtaken`) and no others.
* `account_lanes`: `src/openspec/specs/relation-graph-normalization/spec.md:24` and
  `src/openspec/specs/relation-contract/spec.md:35` forbid cycles of replies to the
  whole service. Synchronization stores replies unchecked (`account_sync.rs:215`);
  every later resolution then fails. `CheckedRepliesAreAcyclic` is about the replies
  that resolutions wrote.

### What the exceptions leave out

Some properties except what a history variable marks. Inside these windows the code
does not keep them, and nothing here catches what happens there:

| exception | in | left out |
|---|---|---|
| `overlapped` | `BlobStore` | bytes stored during a task's window are deleted under their new row (`media_retention.rs:160`) |
| `abandoned` | `BlobStore` | a file whose writer stopped before its row committed is never scheduled (`public_resolution.rs:264`) |
| `overlapped` | `SourceHoldings` | a transaction between the counts of a deletion and its commit: a held source is removed, a post stays or the audit is stale (`privacy_deletion.rs:255`, `:535`); `holdings_race` shows the first |
| `overtaken` | `SourceHoldings` | the links above |
| `overlapped` | `DataExport` | overlapping imports each commit their records (`data_export.rs:171`) |
| `raced` | `OfficialAccount` | a refresh that commits after a revocation connects the account again, and a revocation misses the row of a refresh it overlaps (`oauth.rs:249`); a scan saves a watermark of an earlier connection |
| `checked` | `AccountArchive` | cycles that synchronized replies close |
| one resolver | `CaptureLifecycle` | two passes on one row lose an increment, or report a failure over a success (`capture_resolution.rs:455`) |

Also without a property: a deletion operation is stored complete before its blob
tasks are (`privacy_deletion.rs:139`); a completed blob task is never reopened
(`privacy_deletion.rs:720`); a post whose state returns to an earlier one cannot be
published (`publishing.rs:195`).

### Fairness

Weak fairness of each worker's next step (the runtime schedules every task and
every loop polls), of the restart of a stopped process (the container's
supervisor), of time, and of the commit of a deletion that has begun (a transaction
ends). For the relay, also of Knowledge answering a copy that
reached it and of the acknowledgement consumer. No fairness is assumed of
faults, of the start of deletions, of deliveries of new commands or of the outcome of a fetch.
The other modules make no liveness claim: their calls are started by users and
operators, and nothing in the service calls a blob deletion task or an import
again by itself.
`lifecycle_live` needs no fairness for a particular outcome: transient failures
end at `MaxAttempts`. With one process a claim that finds due rows takes some of
them. Faults are bounded, so the liveness results are about what happens once
faults stop. In particular a recording transaction that fails every time (see
the hazard at `publishing.rs:195`) is outside `lifecycle_live`.

## 4. Proofs

Every invariant, action property and refinement that a passing run checks is also
proved by TLAPS, for all values of the constants under the named assumptions, which
TLC evaluates in the runs:

| assumption | says |
|---|---|
| `PolicyAssumption`, `BoundAssumption`, `RelayBounds` | the policies are positive numbers, the bounds numbers |
| `CommandAssumption`, `IntakeAssumption` | the sentinels are not commands; every payload has a class |
| `EventAssumption`, `InstanceAssumption` | the numbered events include the commands' and the removals'; there are finitely many pumps |
| `HoldingsAssumption` | captures and accounts have owners; captures are finitely many and, like their operation ids in the database, different from accounts and posts |
| `BlobAssumption` | media is streamed, and a receipt belongs to no post |
| `ExportAssumption`, `ArchiveAssumption` of `ExportArchive` | a chunk has at least one item; an archive is three sequences, with sizes that fit the word and path depths |
| `AccountAssumption`, `ArchiveAssumption` of `AccountArchive` | the sentinels are no accounts, scopes, operations or posts; pages and observations are typed |
| `GraphAssumption` | there are finitely many posts, and replies are among the relations that are checked |

Two results have a hypothesis of their own: the section on one resolver, and
`ReplaysAddNothing`, which is about archives that list no item twice
(`DistinctItems`; the parser does not reject such a list).

The library's induction theorems take an operator, which no installed prover can
instantiate. `NaturalSets` therefore states induction for sets of numbers
(`NatSetInduction`), and that a recursive equation over numbers or over any ranked
set has a solution (`RecursionExists`, `RankedRecursion`) about which one may argue
by rank (`RankedInduction`). With these the folds and searches of the models are
proved to compute what they should.

**Any number of processes** (`CaptureLifecycleProofs`): `TypeCorrect`,
`AnsweredAtMostOnce`, `GuardIsExact`, `KeysAreUnique`, `NothingIsStranded`,
`MarkersAreExact`, `SettlementIsLate`, and the refinement `PromiseKept`.
`AtMostOneTerminalReport` is not inductive: a step that appends a report needs to
know that no report of that operation exists, which follows from the guard only
if the guard and the reports agree, that event ids are fresh, that a capture
exists only for a processed command, and that a refused one has none. The
invariant `Books` collects these facts (`FreshIds`, `MarkedRows`,
`MarkedCaptures`, `GuardedRows`, `ReportedRows`, `FiledRows`, `Answered`, ...),
is preserved by each action in turn, and implies the listed properties.
The consumer's side (`CommitInv`) and what a deletion leaves behind
(`DeletedInv`) are added for the last three. `SourcesAreAccounted` adds what the
reports need: a deletion locks only a capture that exists (`LockInv`), and the source
of a resolved capture is in the library or was removed from it (`SourceInv`). The refinement maps an operation to
withdrawn, succeeded, failed, queued or issued by its deletion, its terminal
report and its inbox marker; each step of the lifecycle is a step of one
operation or a stutter.

**One resolver** (end of `CaptureLifecycleProofs`, assumption `Solo`: at most one
process): `ReportsAreTrue`, `DecidedIsNotFetched`, `OutcomesAreFinal`. They rest on
`ResolverInv`: a row the pass holds or has yet to process is as it was at the
claim, its lease aside, and the outcome the pass is about to report is the one
that is stored. `ReportsAreTrue` also uses `SourcesAreAccounted`: a capture with its
post whose source is missing is one whose source a deletion removed. With two passes on one row these
properties fail, and the code does not claim them (the lease is meant to keep
passes apart).

**The relay** (`OutboxRelayProofs`): `RelayTypeCorrect`,
`RemovalsCanBeResent`, `AnswersAreFinal`, `CopiesAreReal`. The first three follow
from what a step may do to a row (`RowSteps`). `CopiesAreReal` needs the copies
that pumps hold and have not counted: `CopyInv` says that a row's counted
copies and the pumps about to count one more are together no more than the
copies taken.

**Libraries** (`SourceHoldingsProofs`): `LibraryIsRight`, `PostsAreRight`,
`AnnouncementsAreKept`, `RemovalIsFinal`, `AuditIsRight`, and the refinement
`FeedIsImplemented`, for any users, posts, captures and connections and any number
of observations and concurrent deletions. A deletion decides from two counts and
commits later, so the properties are not inductive: its commit needs what the counts
said. The invariant (`InvariantHolds`) says of an open deletion that its target keeps
the posts it read until the commit (`OpenKeepsPosts`), that a source it will remove is
in the library and no other deletion of the owner will remove it (`FinalIsLive`),
that a post it will drop has no other connection, unless a source that the foreign
key will notice came to refer to it (`DropIsSafe`), and that its counts still stand on
posts that nothing overlapped (`CountsStand`). `FactsStay` strengthens
`AnnouncementsSurvive` to captures that have not resolved yet, with what an open
deletion will purge (`PurgeIsOwn`: facts under its own target or under the post).
A completion under way was admitted before its source was removed, or it is marked
(`AdmittedBefore`), which gives `RemovalIsFinal`. The four writing lanes are shown to be one kind of step
(`Observation`), so that each conjunct is argued once for all of them. What a
transaction does to one source (`Grown`: it only grows, each new revision has its
fact, and the last fact is the right one) is shown by induction over the origins it
publishes, in any order (`FactsOfOrigins`); the refinement follows from it.

**The blob store** (`BlobStoreProofs`): `ReferencedObjectsSurvive`,
`CompletedTasksAreTruthful`, `LeftOversAreScheduled`, for any objects, posts, writers and attempts.
`ReferencedIsReadable` is not inductive: a row is committed by a writer that
verified its bytes earlier, and a file is removed by an attempt that counted
earlier. `StoreInvariant` adds what each of them may still rely on
(`StoredIsWhole`, `CountedIsFree`) and that the rows are finitely many, so that a
count of zero means none. `LeftOversAreScheduled` looks backwards (`LeftOverIsOld`):
an object that is left over and has no task after a step was so before it, since
the step that takes the last row of an object schedules its removal.
`LeaseIsWithinBudgets` says what an authorised media
fetch has established, for all policy inputs.

**Exports** (`DataExportProofs`): `FinishedRunsStand`,
`CompletedImportsAreWithinLimits`, `RunsAreReconciledOnce`, `ReplaysAddNothing` and
`OperationsFollowTheirPlans`, for any owners, archives, limits, word sizes,
captures, concurrent calls and chunk sizes. A finished run stands because every write to a run
is guarded by its outcome; `RunRows` supplies that a run is a row with its fields.
For the limits, the totals of the inspection are shown by induction over the
entries to be the running sums on unbounded numbers as long as nothing was refused
(a checked addition that does not fail has not wrapped), and the sums of the
reference definition are the last of these (`TotalIsRunningSum`). A
replay adds nothing because a run that no two imports worked on at once has one
importer, is running while it has it, and has no records before it completes
(`ImportInv`). For an operation the invariant (`ReprocessingInv`) adds that one not
yet started has no items, and `ChunkIsNext` shows that after the first *c* items the
next chunk begins at *c* + 1; that a plan is a sequence is shown for the selection of
the reprocessable records (`Selected`).

**Connections** (`OfficialAccountProofs`): `GrantsFollowAccounts`,
`WatermarksCover`, `OperationsRemoveOnce`, for any accounts, calls, scans and
number of pages. The invariant (`AccountInvariant`) says that a deletion holding
its account is alone on its account and its operation
and sees all its grants once it has looked (`DeletionLocks`), that a lifecycle call that overlapped none sees exactly the
grants of its account (`SerialCalls`), and that the pages before an open scan's
watermark are recorded (`ScanCovers`).

**The composition** (`AccountArchiveProofs`): `ArchiveImplementsAccount`, every step
of `AccountArchive` is one of `OfficialAccount` or leaves its variables alone, so
the theorems carry over (`ArchiveKeepsAccounts`, `ArchiveRemovesOnce`).

`SearchIsExact`: on every finite reply graph the depth-first search of
`has_reply_cycle` answers whether there is a cycle. That a cycle it reports is one
follows from the posts being visited, each of which replies to another or to the
current one (`Path`). That
it misses none is the harder half: a post marked visited is not searched again, and
that is right only because the posts that have been left (`Finished`) reply to posts
that have been left, and so lie on no cycle. Both are carried through the two
mutually recursive functions (`SearchEachAnswers`, `VisitsDecide`) by induction on
the number of posts that are not being visited.

`RepliesStayAcyclic` needs more (`RepliesInvariant`): that the post of a stored row is
known, so that a cycle does not depend on which targets happen to be archived
(`CyclesAreKnown`); that `RELATION_LOCK` admits one resolution at a time; and that
what an open resolution is about to write has no cycle with what was checked.

**Only model-checked**: liveness (`NothingWaitsForever`, `NoRowStarves`,
`RemovalsAreAnswered`), because fairness and ENABLED are beyond the prover, and
the three documented statements that fail.

## 5. Plan

1. The retry schedules of `retry_delay`, `record_failure` and `record_resend` as
   functions against their documented values, at their caps.
2. Supervision: readiness, worker exit and draining.
3. Re-resolution jobs, once the service runs them: the budget's ceilings and a
   second writer of capture outcomes.

## 6. Not modelled

* `re_resolution.rs`: no production code calls it.
* Account budgets (`record_budget`) and the sealing of credentials in `oauth.rs`:
  a counter of the provider's answers, and cryptography.
* The admission of captures in `SourceHoldings`, where their rows are given from the
  start (`submit` is modelled in `DataExport`, `deliver` in `CaptureLifecycle`), and
  what `submit` answers to a replay.
* `preview` of a deletion, `plan_media_reference_expiry`, the rendering of
  reprocessing reports: read-only.
* `extract_archive` and `begin_reprocessing`: no production caller.
* The counts per data class in a deletion's plan and audit.
* Readiness, draining, admin routes, scheduling, metrics, configuration, the
  database pool, the set-up of streams and consumers.
* Parsing and wording: permalinks, envelopes, oEmbed, the JSON of an export.

`PROJECT.json` says so part by part.
