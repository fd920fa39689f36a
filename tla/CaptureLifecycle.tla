-------------------------- MODULE CaptureLifecycle --------------------------
(***************************************************************************)
(* Browser captures from the command stream to the terminal operation      *)
(* report: the command consumer (nats.rs, browser_capture_inbox.rs), the   *)
(* capture resolver (capture_resolution.rs) and what they share in the     *)
(* database: the inbox, the captures, and the operation reports of the     *)
(* outbox.  An instance is one process running one consumer and one        *)
(* resolver; owners delete captures meanwhile (privacy_deletion.rs).       *)
(*                                                                         *)
(* Platform sends one command per operation, so a command also names its   *)
(* operation.  A capture row is named by the command whose delivery        *)
(* inserted it.  Wall-clock instants are abstracted: next_resolution_at is *)
(* "due" (not after now), "later" (a lease or a retry delay is running) or *)
(* "never" (null).  Time may pass at any moment, so a lease may run out    *)
(* under a pass that is still working.                                     *)
(*                                                                         *)
(* Of the library only its sources matter here: which exist, and which an  *)
(* owner's deletion removed.  Other lanes that hold a post are seen when a *)
(* deletion counts holdings; SourceHoldings has their state.               *)
(***************************************************************************)
EXTENDS Naturals, FiniteSets

CONSTANTS
    Commands,      \* browser capture commands, and the operations they start
    Instances,     \* service processes
    IntakeOf,      \* how BrowserCaptureCommand::intake classifies a command
    KeyOf,         \* the (user_ref, idempotency_key) of a command
    HoldingOf,     \* the (user_ref, post) its permalink resolves to
    MaxAttempts,   \* ResolverPolicy::max_attempts
    BatchSize,     \* ResolverPolicy::batch_size
    MaxFaults,     \* bound: crashes, lost acknowledgements, failed writes
    MaxDeletions   \* bound: owner deletions

ASSUME PolicyAssumption ==
    /\ MaxAttempts \in Nat \ {0}
    /\ BatchSize \in Nat \ {0}

ASSUME BoundAssumption ==
    /\ MaxFaults \in Nat
    /\ MaxDeletions \in Nat

ASSUME CommandAssumption == "none" \notin Commands /\ "operation" \notin Commands

ASSUME IntakeAssumption ==
    IntakeOf \in [Commands -> {"accepted", "rejected", "invalid"}]

VARIABLES
    broker,     \* command -> "pending" until the broker holds its settlement
    inbox,      \* command -> handler_outcome of its inbox row, or "none"
    captures,   \* command -> the capture row its delivery inserted
    reports,    \* platform.operation.reported.v1 rows of the outbox
    nextEvent,  \* the next event id (UUIDv7: later rows have larger ids)
    deletions,  \* captures named by a deletion operation
    erasing,    \* command -> what an open deletion of its capture counted, or "none"
    library,    \* the (user_ref, post) with a social source
    removals,   \* the (user_ref, post) whose source was removed (local_source_removals)
    bus,        \* instance -> command consumer
    pass,       \* instance -> resolver pass
    faults      \* faults so far

ownerVars == <<deletions, erasing, library, removals>>

vars == <<broker, inbox, captures, reports, nextEvent, ownerVars, bus, pass, faults>>

Attributable == {c \in Commands : IntakeOf[c] # "invalid"}

Unavailability == {"deleted", "inaccessible"}

TerminalKinds == Unavailability \union {"preserved", "transient"}

Statuses == {"accepted", "resolved", "unavailable"}

(***************************************************************************)
(* A row of the captures table.  reported_at stands for                    *)
(* operation_reported_at; tombstone is the availability of the latest      *)
(* tombstone naming the capture.                                           *)
(***************************************************************************)
CaptureRows ==
    [status : Statuses \union {"none"}, attempts : 0..MaxAttempts,
     next : {"due", "later", "never"}, reported_at : {"null", "set"}, post_id : {"null", "set"},
     tombstone : Unavailability \union {"none"}]

NoCapture ==
    [status |-> "none", attempts |-> 0, next |-> "never", reported_at |-> "null",
     post_id |-> "null", tombstone |-> "none"]

(***************************************************************************)
(* The row a first delivery inserts: accepted, and due at once.            *)
(***************************************************************************)
AcceptedCapture == [NoCapture EXCEPT !.status = "accepted", !.next = "due"]

Live(c) == captures[c].status # "none"

Reported(c) == captures[c].reported_at = "set"

HasPost(c) == captures[c].post_id = "set"

(***************************************************************************)
(* The row is locked for update by an open deletion of the capture.        *)
(***************************************************************************)
Locked(c) == erasing[c] # "none"

Free(c) == Live(c) /\ ~Locked(c)

(***************************************************************************)
(* The row as a claim read it; a pass never reads it again.                *)
(***************************************************************************)
DueRows ==
    [capture : Commands, status : Statuses, attempts : 0..MaxAttempts]

Snapshot(c) ==
    [capture |-> c, status |-> captures[c].status, attempts |-> captures[c].attempts]

Reports ==
    [id : Nat, operation : Commands, aggregate : Commands \union {"operation"},
     kind : TerminalKinds \union {"queued"}]

IdleBus == [at |-> "idle", command |-> "none"]

NoRow == [capture |-> "none", status |-> "none", attempts |-> 0]

IdlePass == [at |-> "idle", todo |-> {}, row |-> NoRow, terminal |-> "none"]

Init ==
    /\ broker = [c \in Commands |-> "pending"]
    /\ inbox = [c \in Commands |-> "none"]
    /\ captures = [c \in Commands |-> NoCapture]
    /\ reports = {}
    /\ nextEvent = 0
    /\ deletions = {}
    /\ erasing = [c \in Commands |-> "none"]
    /\ library = {}
    /\ removals = {}
    /\ bus = [i \in Instances |-> IdleBus]
    /\ pass = [i \in Instances |-> IdlePass]
    /\ faults = 0

append_report(command, aggregate, kind) ==
    /\ reports' = reports \union {[id |-> nextEvent, operation |-> command,
                                    aggregate |-> aggregate, kind |-> kind]}
    /\ nextEvent' = nextEvent + 1

Fault == faults < MaxFaults /\ faults' = faults + 1

-----------------------------------------------------------------------------
(***************************************************************************)
(* The command consumer: commit, then publish, then acknowledge.  The      *)
(* broker redelivers whatever it holds no settlement for, to any instance. *)
(***************************************************************************)
Receive(i) ==
    /\ bus[i].at = "idle"
    /\ \E c \in Commands :
          /\ broker[c] = "pending"
          /\ bus' = [bus EXCEPT ![i] = [at |-> "received", command |-> c]]
    /\ UNCHANGED <<broker, inbox, captures, reports, nextEvent, ownerVars, pass, faults>>

Committed(i) == bus' = [bus EXCEPT ![i].at = "committed"]

(***************************************************************************)
(* A variant of the inbox claim that lets every delivery through.          *)
(***************************************************************************)
AnyDelivery(c) == TRUE

(***************************************************************************)
(* claim_delivery: only the first delivery of a command has any effect.    *)
(***************************************************************************)
FirstDelivery(c) == inbox[c] = "none"

Redelivered(i) ==
    /\ bus[i].at = "received"
    /\ IntakeOf[bus[i].command] # "invalid"
    /\ ~FirstDelivery(bus[i].command)
    /\ Committed(i)
    /\ UNCHANGED <<broker, inbox, captures, reports, nextEvent, ownerVars, pass, faults>>

(***************************************************************************)
(* A variant of the insert without its on conflict clause.                 *)
(***************************************************************************)
NoConflict(c) == {}

(***************************************************************************)
(* The capture holding the command's key, if one exists: the insert then   *)
(* keeps that row as it is, with its operation id and its command id.      *)
(***************************************************************************)
SameKey(c) == {d \in Commands : Live(d) /\ KeyOf[d] = KeyOf[c]}

(***************************************************************************)
(* The queued report: the command's own operation, the capture of its key. *)
(***************************************************************************)
QueueReport(c, d) == append_report(c, d, "queued")

deliver(i) ==
    LET c == bus[i].command IN
    /\ bus[i].at = "received"
    /\ IntakeOf[c] = "accepted"
    /\ FirstDelivery(c)
    /\ inbox' = [inbox EXCEPT ![c] = "processed"]
    /\ \/ /\ SameKey(c) = {}
          /\ captures' = [captures EXCEPT ![c] = AcceptedCapture]
          /\ QueueReport(c, c)
       \/ /\ UNCHANGED captures
          /\ \E d \in SameKey(c) : ~Locked(d) /\ QueueReport(c, d)
    /\ Committed(i)
    /\ UNCHANGED <<broker, ownerVars, pass, faults>>

reject(i) ==
    LET c == bus[i].command IN
    /\ bus[i].at = "received"
    /\ IntakeOf[c] = "rejected"
    /\ FirstDelivery(c)
    /\ inbox' = [inbox EXCEPT ![c] = "rejected"]
    /\ append_report(c, "operation", "inaccessible")
    /\ Committed(i)
    /\ UNCHANGED <<broker, captures, ownerVars, pass, faults>>

Settle(i) ==
    /\ broker' = [broker EXCEPT ![bus[i].command] = "settled"]
    /\ bus' = [bus EXCEPT ![i] = IdleBus]

(***************************************************************************)
(* Input nobody waits for is terminated; a redelivery cannot repair it.    *)
(***************************************************************************)
Terminate(i) ==
    /\ bus[i].at = "received"
    /\ IntakeOf[bus[i].command] = "invalid"
    /\ Settle(i)
    /\ UNCHANGED <<inbox, captures, reports, nextEvent, ownerVars, pass, faults>>

(***************************************************************************)
(* A variant that acknowledges a delivery before its commit as well.       *)
(***************************************************************************)
AcknowledgeAnyTime(i) == bus[i].at \in {"received", "committed"}

(***************************************************************************)
(* The acknowledgement after a commit and a flush of the outbox that       *)
(* failed nowhere (OutboxRelay models the flush).                          *)
(***************************************************************************)
MayAcknowledge(i) == bus[i].at = "committed"

Acknowledge(i) ==
    /\ MayAcknowledge(i)
    /\ Settle(i)
    /\ UNCHANGED <<inbox, captures, reports, nextEvent, ownerVars, pass, faults>>

(***************************************************************************)
(* The inbox transaction failed (negative acknowledgement, redelivery      *)
(* after 2 s), or the settlement was lost on its way to the broker.        *)
(***************************************************************************)
Unsettled(i) ==
    /\ bus[i].at \in {"received", "committed"}
    /\ Fault
    /\ bus' = [bus EXCEPT ![i] = IdleBus]
    /\ UNCHANGED <<broker, inbox, captures, reports, nextEvent, ownerVars, pass>>

(***************************************************************************)
(* A publication, the connection or a settlement failed: run returns.      *)
(***************************************************************************)
BusStops(i) ==
    /\ bus[i].at # "stopped"
    /\ Fault
    /\ bus' = [bus EXCEPT ![i] = [IdleBus EXCEPT !.at = "stopped"]]
    /\ UNCHANGED <<broker, inbox, captures, reports, nextEvent, ownerVars, pass>>
-----------------------------------------------------------------------------
(***************************************************************************)
(* The resolver.  A pass claims up to BatchSize due rows, leases them by   *)
(* moving next_resolution_at ahead, and works through what it read.  Rows  *)
(* another transaction has locked are skipped, so any set of due rows may  *)
(* be what a claim gets, the empty one included.                           *)
(***************************************************************************)
Claimable(c) == Free(c) /\ ~Reported(c) /\ captures[c].next = "due"

(***************************************************************************)
(* A variant of the lease that unschedules the row.                        *)
(***************************************************************************)
LeaseUnscheduled(row) == [row EXCEPT !.next = "never"]

Lease(row) == [row EXCEPT !.next = "later"]

claim(i) ==
    /\ pass[i].at = "idle"
    /\ pass[i].todo = {}
    /\ \E S \in SUBSET {c \in Commands : Claimable(c)} :
          /\ Cardinality(S) <= BatchSize
          /\ pass' = [pass EXCEPT ![i].todo = {Snapshot(c) : c \in S}]
          /\ captures' = [c \in Commands |->
                            IF c \in S THEN Lease(captures[c]) ELSE captures[c]]
    /\ UNCHANGED <<broker, inbox, reports, nextEvent, ownerVars, bus, faults>>

(***************************************************************************)
(* Variants of recorded_terminal: attempts without a limit, an outcome     *)
(* that is not looked at, a tombstone that is not read.                    *)
(***************************************************************************)
RetryForever(row) ==
    CASE row.status = "resolved" -> "preserved"
      [] row.status = "unavailable" -> captures[row.capture].tombstone
      [] OTHER -> "none"

ForgetOutcome(row) == IF row.attempts >= MaxAttempts THEN "transient" ELSE "none"

IgnoreTombstone(row) ==
    CASE row.status = "resolved" -> "preserved"
      [] row.status = "unavailable" -> "inaccessible"
      [] OTHER -> ForgetOutcome(row)

(***************************************************************************)
(* The outcome an earlier pass recorded, judged from the claimed row; only *)
(* the tombstone is read afresh.                                           *)
(***************************************************************************)
recorded_terminal(row) ==
    CASE row.status = "resolved" -> "preserved"
      [] row.status = "unavailable" ->
            IF captures[row.capture].tombstone = "deleted" THEN "deleted" ELSE "inaccessible"
      [] OTHER -> IF row.attempts >= MaxAttempts THEN "transient" ELSE "none"

process(i) ==
    /\ pass[i].at = "idle"
    /\ \E row \in pass[i].todo :
          pass' = [pass EXCEPT ![i] =
                     [at |-> IF recorded_terminal(row) = "none" THEN "attempt" ELSE "report",
                      todo |-> pass[i].todo \ {row},
                      row |-> row,
                      terminal |-> recorded_terminal(row)]]
    /\ UNCHANGED <<broker, inbox, captures, reports, nextEvent, ownerVars, bus, faults>>

ReportNext(i, terminal) ==
    pass' = [pass EXCEPT ![i].at = "report", ![i].terminal = terminal]

(***************************************************************************)
(* Publishing a capture's post creates the owner's source for it, unless   *)
(* it exists.                                                              *)
(***************************************************************************)
append_fact(c) == library' = library \union {HoldingOf[c]}

(***************************************************************************)
(* The fetch succeeded and its transaction committed: post, revision,      *)
(* relations, the capture's outcome and the source.                        *)
(***************************************************************************)
Resolve(row) == [row EXCEPT !.status = "resolved", !.post_id = "set"]

RecordResolved(i) ==
    LET c == pass[i].row.capture IN
    /\ pass[i].at = "attempt"
    /\ Free(c)
    /\ captures' = [captures EXCEPT ![c] = Resolve(@)]
    /\ append_fact(c)
    /\ ReportNext(i, "preserved")
    /\ UNCHANGED <<broker, inbox, reports, nextEvent, deletions, erasing, removals, bus, faults>>

(***************************************************************************)
(* The provider says the post is deleted or inaccessible, or the permalink *)
(* is not one: record_observation marks the capture with a tombstone, and  *)
(* publishes that of a capture an earlier attempt had resolved.            *)
(***************************************************************************)
Bury(row, availability) ==
    [row EXCEPT !.status = "unavailable", !.tombstone = availability]

mark_unavailable(i) ==
    LET c == pass[i].row.capture IN
    /\ pass[i].at = "attempt"
    /\ Free(c)
    /\ \E availability \in Unavailability :
          /\ captures' = [captures EXCEPT ![c] = Bury(@, availability)]
          /\ ReportNext(i, availability)
    /\ IF HasPost(c) THEN append_fact(c) ELSE UNCHANGED library
    /\ UNCHANGED <<broker, inbox, reports, nextEvent, deletions, erasing, removals, bus, faults>>

(***************************************************************************)
(* A transient failure leaves a resolver_failed observation and nothing    *)
(* else; the attempt is counted by a statement of its own.                 *)
(***************************************************************************)
ObserveResolverFailed(i) ==
    /\ pass[i].at = "attempt"
    /\ Free(pass[i].row.capture)
    /\ pass' = [pass EXCEPT ![i].at = "count"]
    /\ UNCHANGED <<broker, inbox, captures, reports, nextEvent, ownerVars, bus, faults>>

CountedAttempts(row) == row.attempts + 1

Reschedule(row, attempts) == [row EXCEPT !.attempts = attempts, !.next = "later"]

record_transient_failure(i) ==
    LET c == pass[i].row.capture
        attempts == CountedAttempts(pass[i].row)
    IN
    /\ pass[i].at = "count"
    /\ ~Locked(c)
    /\ captures' = IF Live(c)
                     THEN [captures EXCEPT ![c] = Reschedule(@, attempts)]
                     ELSE captures
    /\ IF attempts >= MaxAttempts
         THEN ReportNext(i, "transient")
         ELSE pass' = [pass EXCEPT ![i] = [IdlePass EXCEPT !.todo = pass[i].todo]]
    /\ UNCHANGED <<broker, inbox, reports, nextEvent, ownerVars, bus, faults>>

(***************************************************************************)
(* Variants of the guard: one that ignores the marker, one that sets none. *)
(***************************************************************************)
IgnoreGuard(c) == Live(c)

MarkNothing(row) == row

(***************************************************************************)
(* The exactly-once guard and the report, in one transaction: the guard's  *)
(* update waits for a deletion of the capture and then locks its row.  A   *)
(* preserved report names the stored source; without a post, or without a  *)
(* source for it, the report says inaccessible.                            *)
(***************************************************************************)
Unreported(c) == Live(c) /\ ~Reported(c)

MarkReported(row) == [row EXCEPT !.reported_at = "set", !.next = "never"]

stored_source(c) == HasPost(c) /\ HoldingOf[c] \in library

ReportKind(c, terminal) ==
    IF terminal = "preserved" /\ ~stored_source(c) THEN "inaccessible" ELSE terminal

report(i) ==
    LET c == pass[i].row.capture IN
    /\ pass[i].at = "report"
    /\ ~Locked(c)
    /\ \/ /\ Unreported(c)
          /\ captures' = [captures EXCEPT ![c] = MarkReported(@)]
          /\ append_report(c, c, ReportKind(c, pass[i].terminal))
       \/ /\ ~Unreported(c)
          /\ UNCHANGED <<captures, reports, nextEvent>>
    /\ pass' = [pass EXCEPT ![i] = [IdlePass EXCEPT !.todo = pass[i].todo]]
    /\ UNCHANGED <<broker, inbox, ownerVars, bus, faults>>

PassStops(i) == pass' = [pass EXCEPT ![i] = [IdlePass EXCEPT !.at = "stopped"]]

(***************************************************************************)
(* Recording an outcome fails for a capture its owner has just deleted.    *)
(***************************************************************************)
CaptureVanished(i) ==
    /\ pass[i].at = "attempt"
    /\ ~Live(pass[i].row.capture)
    /\ PassStops(i)
    /\ UNCHANGED <<broker, inbox, captures, reports, nextEvent, ownerVars, bus, faults>>

(***************************************************************************)
(* The database or the raw store failed: the pass ends, the rest of its    *)
(* rows stay leased.                                                       *)
(***************************************************************************)
LocalFault(i) ==
    /\ pass[i].at # "stopped"
    /\ Fault
    /\ PassStops(i)
    /\ UNCHANGED <<broker, inbox, captures, reports, nextEvent, ownerVars, bus>>
-----------------------------------------------------------------------------
(***************************************************************************)
(* A worker that returned takes the process down, and the supervisor       *)
(* starts it again; a crash does the same at any point.                    *)
(***************************************************************************)
Reset(i) ==
    /\ bus' = [bus EXCEPT ![i] = IdleBus]
    /\ pass' = [pass EXCEPT ![i] = IdlePass]

Restart(i) ==
    /\ bus[i].at = "stopped" \/ pass[i].at = "stopped"
    /\ Reset(i)
    /\ UNCHANGED <<broker, inbox, captures, reports, nextEvent, ownerVars, faults>>

Crash(i) ==
    /\ Fault
    /\ Reset(i)
    /\ UNCHANGED <<broker, inbox, captures, reports, nextEvent, ownerVars>>

(***************************************************************************)
(* A lease or a retry delay runs out.                                      *)
(***************************************************************************)
Expire(row) == [row EXCEPT !.next = "due"]

TimePasses(c) ==
    /\ captures[c].next = "later"
    /\ captures' = [captures EXCEPT ![c] = Expire(@)]
    /\ UNCHANGED <<broker, inbox, reports, nextEvent, ownerVars, bus, pass, faults>>

(***************************************************************************)
(* A variant of the outbox purge that goes by post and not by capture.     *)
(***************************************************************************)
PurgeByPost(c) == {r \in reports : HoldingOf[r.operation] = HoldingOf[c]}

(***************************************************************************)
(* An owner deletes a capture.  The transaction locks its row, then counts *)
(* what else of the owner holds the post: another capture, or an official  *)
(* account.  Nothing keeps another capture from resolving to the post      *)
(* before the deletion commits.                                            *)
(***************************************************************************)
LastHolding(c) ==
    /\ HasPost(c)
    /\ \A d \in Commands \ {c} : HoldingOf[d] = HoldingOf[c] => ~HasPost(d)

OpenDeletions == {c \in Commands : Locked(c)}

CountHoldings(c) ==
    /\ Free(c)
    /\ Cardinality(deletions \union OpenDeletions) < MaxDeletions
    /\ \E official \in BOOLEAN :
          erasing' = [erasing EXCEPT ![c] =
                        IF LastHolding(c) /\ ~official THEN "final" ELSE "shared"]
    /\ UNCHANGED <<broker, inbox, captures, reports, nextEvent, deletions, library, removals,
                   bus, pass, faults>>

(***************************************************************************)
(* The source, if the count found no other holding, and the outbox rows    *)
(* that go with it.                                                        *)
(***************************************************************************)
RemovedSource(c) == {h \in library : h = HoldingOf[c] /\ erasing[c] = "final"}

OutboxOf(c) == {r \in reports : r.aggregate = c}

DeleteCapture(c) ==
    /\ Locked(c)
    /\ library' = library \ RemovedSource(c)
    /\ removals' = removals \union RemovedSource(c)
    /\ reports' = IF RemovedSource(c) = {} THEN reports ELSE reports \ OutboxOf(c)
    /\ deletions' = deletions \union {c}
    /\ captures' = [captures EXCEPT ![c] = NoCapture]
    /\ erasing' = [erasing EXCEPT ![c] = "none"]
    /\ UNCHANGED <<broker, inbox, nextEvent, bus, pass, faults>>

(***************************************************************************)
(* A statement of the deletion failed: a row that came meanwhile refers to *)
(* what it deletes, or the database failed.  Nothing of it remains.        *)
(***************************************************************************)
DeletionFails(c) ==
    /\ Locked(c)
    /\ Fault
    /\ erasing' = [erasing EXCEPT ![c] = "none"]
    /\ UNCHANGED <<broker, inbox, captures, reports, nextEvent, deletions, library, removals,
                   bus, pass>>

BusStep(i) ==
    \/ Receive(i) \/ Redelivered(i) \/ deliver(i) \/ reject(i) \/ Terminate(i)
    \/ Acknowledge(i)

ResolverStep(i) ==
    \/ claim(i) \/ process(i) \/ RecordResolved(i) \/ mark_unavailable(i)
    \/ ObserveResolverFailed(i) \/ record_transient_failure(i) \/ report(i)
    \/ CaptureVanished(i)

FaultStep(i) == Unsettled(i) \/ BusStops(i) \/ LocalFault(i) \/ Crash(i)

Next ==
    \/ \E i \in Instances : BusStep(i) \/ ResolverStep(i) \/ Restart(i) \/ FaultStep(i)
    \/ \E c \in Commands :
          TimePasses(c) \/ CountHoldings(c) \/ DeleteCapture(c) \/ DeletionFails(c)

Spec == Init /\ [][Next]_vars

(***************************************************************************)
(* Each worker is a task the runtime schedules and each loop reaches its   *)
(* next step; time passes; the supervisor restarts a stopped process; a    *)
(* deletion that has begun comes to its commit or fails.                   *)
(***************************************************************************)
Fairness ==
    /\ \A i \in Instances :
          WF_vars(BusStep(i)) /\ WF_vars(ResolverStep(i)) /\ WF_vars(Restart(i))
    /\ \A c \in Commands : WF_vars(TimePasses(c)) /\ WF_vars(DeleteCapture(c))

FairSpec == Spec /\ Fairness

-----------------------------------------------------------------------------
(***************************************************************************)
(* The shape of the state; attempts stay within max_attempts.              *)
(***************************************************************************)
TypeOK ==
    /\ broker \in [Commands -> {"pending", "settled"}]
    /\ inbox \in [Commands -> {"none", "processed", "rejected"}]
    /\ captures \in [Commands -> CaptureRows]
    /\ reports \in SUBSET Reports
    /\ nextEvent \in Nat
    /\ deletions \in SUBSET Commands
    /\ erasing \in [Commands -> {"none", "shared", "final"}]
    /\ library \in SUBSET {HoldingOf[c] : c \in Commands}
    /\ removals \in SUBSET {HoldingOf[c] : c \in Commands}
    /\ bus \in [Instances -> [at : {"idle", "received", "committed", "stopped"},
                             command : Commands \union {"none"}]]
    /\ pass \in [Instances -> [at : {"idle", "attempt", "count", "report", "stopped"},
                              todo : SUBSET DueRows, row : DueRows \union {NoRow},
                              terminal : TerminalKinds \union {"none"}]]
    /\ faults \in Nat

Terminals(c) == {r \in reports : r.operation = c /\ r.kind # "queued"}

(***************************************************************************)
(* No operation is ever answered twice: whatever is redelivered, claimed   *)
(* again after a lease ran out, or restarted, the outbox holds at most one *)
(* terminal report of an operation (the guard of report, capture_          *)
(* resolution.rs:485, and the inbox marker of reject).                     *)
(***************************************************************************)
AtMostOneTerminalReport ==
    \A r, s \in reports :
        r.operation = s.operation /\ r.kind # "queued" /\ s.kind # "queued" => r = s

(***************************************************************************)
(* operation_reported_at and the terminal report stand or fall together:   *)
(* a capture is marked reported exactly when its report is in the outbox,  *)
(* so a crash can neither lose a report nor leave one unguarded.           *)
(***************************************************************************)
GuardMatchesReport ==
    \A c \in Commands : Live(c) => (Reported(c) <=> Terminals(c) # {})

(***************************************************************************)
(* An inbox marker commits together with what it stands for: no marker, no *)
(* capture and no report; a refusal is one inaccessible report and never a *)
(* capture; a processed command has its queued report unless an owner      *)
(* deleted the capture holding its key (deliver and reject).               *)
(***************************************************************************)
MarkerMatchesEffect ==
    \A c \in Commands :
        /\ inbox[c] = "none" => ~Live(c) /\ \A r \in reports : r.operation # c
        /\ inbox[c] = "rejected" =>
              ~Live(c) /\ \E r \in reports :
                              Terminals(c) = {r} /\ r.kind = "inaccessible"
        /\ inbox[c] = "processed" =>
              \/ \E r \in reports : r.operation = c /\ r.kind = "queued"
              \/ \E d \in deletions : KeyOf[d] = KeyOf[c]

(***************************************************************************)
(* The broker forgets a command only after its transaction committed: a    *)
(* settled command somebody waits for has its inbox marker                 *)
(* (handle_delivery: commit, then publish, then acknowledge).              *)
(***************************************************************************)
SettledAfterCommit ==
    \A c \in Attributable : broker[c] = "settled" => inbox[c] # "none"

(***************************************************************************)
(* For one (user_ref, idempotency_key) at most one capture row exists,     *)
(* however many commands carry the key (deliver's on conflict clause).     *)
(***************************************************************************)
OneCapturePerKey ==
    \A c, d \in Commands : Live(c) /\ Live(d) /\ KeyOf[c] = KeyOf[d] => c = d

(***************************************************************************)
(* A terminal report agrees with a row, whose source may have been removed.*)
(***************************************************************************)
Agrees(kind, row, removed) ==
    LET kept == row.status = "resolved" /\ row.post_id = "set" IN
    /\ kind = "preserved" => kept
    /\ kind = "deleted" => row.status = "unavailable" /\ row.tombstone = "deleted"
    /\ kind = "inaccessible" =>
          \/ row.status = "unavailable" /\ row.tombstone = "inaccessible"
          \/ kept /\ removed
    /\ kind = "transient" =>
          row.status = "accepted" /\ row.tombstone = "none" /\ row.attempts = MaxAttempts

(***************************************************************************)
(* With one resolver, the report tells what the archive holds: preserved   *)
(* only for a resolved capture with its post, deleted or inaccessible only *)
(* with that tombstone, transient only after the last attempt and with the *)
(* capture still accepted and no tombstone.  One report differs: a capture *)
(* whose source its owner's deletion of another capture has taken along is *)
(* reported inaccessible though it is resolved and has its post (the       *)
(* fallback of report, capture_resolution.rs:500-504).                     *)
(***************************************************************************)
ReportAgreesWithCapture ==
    \A r \in reports :
        Live(r.operation) /\ r.kind # "queued" =>
            Agrees(r.kind, captures[r.operation], HoldingOf[r.operation] \in removals)

(***************************************************************************)
(* With one resolver, nothing is fetched again once its outcome is         *)
(* recorded or its attempts are used up: a crash between recording and     *)
(* reporting only reports (recorded_terminal).                             *)
(***************************************************************************)
OnlyUndecidedIsFetched ==
    \A i \in Instances :
        pass[i].at = "attempt" /\ Live(pass[i].row.capture) =>
            LET row == captures[pass[i].row.capture] IN
            row.status = "accepted" /\ row.reported_at = "null" /\ row.attempts < MaxAttempts

(***************************************************************************)
(* With one resolver, a recorded outcome is final: a resolved or           *)
(* unavailable capture keeps its status until its owner deletes it, and    *)
(* the transient attempts counted for it never go down.                    *)
(***************************************************************************)
OutcomeIsFinal ==
    [][\A c \in Commands : Live(c) /\ Live(c)' =>
         /\ captures[c].status \in {"resolved", "unavailable"} =>
               captures'[c].status = captures[c].status
         /\ captures'[c].attempts >= captures[c].attempts]_vars

(***************************************************************************)
(* A capture that waits can always be claimed again: an unreported capture *)
(* has a next_resolution_at, due or running, so no failure order strands   *)
(* it outside the claim query.                                             *)
(***************************************************************************)
UnreportedStaysScheduled ==
    \A c \in Commands : Unreported(c) => captures[c].next # "never"

(***************************************************************************)
(* Every operation a command names ends with a terminal report (the        *)
(* comment on captures.operation_id in schema.sql).                        *)
(***************************************************************************)
EveryOperationAnswered ==
    \A c \in Attributable : <>(Terminals(c) # {})

(***************************************************************************)
(* Whatever an owner deletes meanwhile, every command is settled with the  *)
(* broker for good, and every operation is answered unless its owner       *)
(* deletes the capture.  A deletion that stops a pass does not keep the    *)
(* resolver from coming round to the captures behind it.                   *)
(***************************************************************************)
NothingWaitsForever ==
    /\ \A c \in Commands : <>[](broker[c] = "settled")
    /\ \A c \in Attributable : <>(Terminals(c) # {} \/ c \in deletions)

OperationState(c) ==
    IF c \in deletions THEN "withdrawn"
    ELSE IF \E r \in Terminals(c) : r.kind = "preserved" THEN "succeeded"
    ELSE IF Terminals(c) # {} THEN "failed"
    ELSE IF inbox[c] # "none" THEN "queued" ELSE "issued"

Promise == INSTANCE CaptureOperation WITH
    Operations <- Commands,
    state <- [c \in Commands |-> OperationState(c)]

(***************************************************************************)
(* The service keeps the promise of CaptureOperation: seen from Platform   *)
(* an operation only ever moves forward, ends once, and is taken back only *)
(* by its owner.                                                           *)
(***************************************************************************)
KeepsPromise == Promise!Spec
=============================================================================
