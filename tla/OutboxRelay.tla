---------------------------- MODULE OutboxRelay -----------------------------
(***************************************************************************)
(* The outbox pump (outbox_relay.rs), the removal resend and its           *)
(* acknowledgement (removal_acknowledgement.rs, deletion_acks.rs), and the *)
(* place of the pump in the command consumer's loop (nats.rs): a delivery  *)
(* commits its row, flushes the outbox, and is then acknowledged.          *)
(*                                                                         *)
(* Events are numbered by (occurred_at, event_id), the order the pump      *)
(* reads them in; transactions commit them in any order.  A command is     *)
(* named by the report row its delivery inserts.  Instants are abstracted: *)
(* next_attempt_at is "due" (null or not after now), "later", or "long": a *)
(* backoff that has doubled past the time of a restart and a poll, and so  *)
(* outlasts the beginning of one more flush.  next_resend_at is "null",    *)
(* "due" or "later".  The events stream drops old messages and collapses a *)
(* repeated Nats-Msg-Id, so a copy the broker took may never reach         *)
(* Knowledge.                                                              *)
(***************************************************************************)
EXTENDS Naturals, FiniteSets

CONSTANTS
    Events,        \* outbox rows ever written
    Instances,     \* service processes, each with one pump
    Commands,      \* the events inserted by command deliveries
    Removals,      \* the events of type social.source.removed.v1
    Poison,        \* events the broker never takes
    BatchSize,     \* OUTBOX_BATCH_SIZE
    Patience,      \* failures after which 2^attempt_count s outlast a restart
    MaxFaults,     \* bound: crashes, passing refusals, dropped copies
    MaxResends     \* bound: resend_count

ASSUME EventAssumption ==
    /\ Events \subseteq Nat \ {0}
    /\ Commands \subseteq Events /\ Removals \subseteq Events /\ Poison \subseteq Events
    /\ Commands \intersect Removals = {}

ASSUME InstanceAssumption == IsFiniteSet(Instances)

ASSUME RelayBounds ==
    /\ BatchSize \in Nat \ {0} /\ Patience \in Nat
    /\ MaxFaults \in Nat /\ MaxResends \in Nat

VARIABLES
    outbox,    \* event -> its outbox_events row
    copies,    \* event -> copies the broker took
    settled,   \* commands acknowledged to the broker
    answers,   \* acknowledgements of removals on their way from Knowledge
    handled,   \* event -> copies Knowledge has answered or never saw
    relay,     \* instance -> pump
    faults     \* faults so far

vars == <<outbox, copies, settled, answers, handled, relay, faults>>

(***************************************************************************)
(* A row is absent until its transaction commits, pending while            *)
(* published_at is null, and purged when an owner deletion removed it.     *)
(* attempt_count is exact up to Patience.                                  *)
(***************************************************************************)
Rows ==
    [state : {"absent", "pending", "published", "purged"},
     attempt_count : 0..Patience, next_attempt_at : {"due", "later", "long"},
     next_resend_at : {"null", "due", "later"}, resend_count : 0..MaxResends,
     ack_outcome : {"null", "applied", "refused"}]

AbsentRow ==
    [state |-> "absent", attempt_count |-> 0, next_attempt_at |-> "due",
     next_resend_at |-> "null", resend_count |-> 0, ack_outcome |-> "null"]

Stored(e) == outbox[e].state \in {"pending", "published"}

(***************************************************************************)
(* A pump between flushes (after the first one), in one, or stopped.  It   *)
(* holds the rows it read, the row at the broker, whether a publication    *)
(* failed, and the command to acknowledge afterwards (0 for none).         *)
(***************************************************************************)
Starting ==
    [at |-> "start", todo |-> {}, row |-> 0, failed |-> "no", command |-> 0]

Waiting == [Starting EXCEPT !.at = "idle"]

Stopped == [Starting EXCEPT !.at = "stopped"]

Init ==
    /\ outbox = [e \in Events |-> AbsentRow]
    /\ copies = [e \in Events |-> 0]
    /\ settled = {}
    /\ answers = {}
    /\ handled = [e \in Events |-> 0]
    /\ relay = [i \in Instances |-> Starting]
    /\ faults = 0

Fault == faults < MaxFaults /\ faults' = faults + 1

-----------------------------------------------------------------------------
(***************************************************************************)
(* Any other transaction of the service commits an event.                  *)
(***************************************************************************)
Append(e) ==
    /\ e \notin Commands
    /\ outbox[e].state = "absent"
    /\ outbox' = [outbox EXCEPT ![e] = [@ EXCEPT !.state = "pending"]]
    /\ UNCHANGED <<copies, settled, answers, handled, relay, faults>>

(***************************************************************************)
(* The delivery of a command: the first one inserts the row, a repeated    *)
(* one nothing; either is followed by a flush.                             *)
(***************************************************************************)
handle_delivery(i, c) ==
    /\ relay[i].at = "idle"
    /\ c \notin settled
    /\ outbox' = IF outbox[c].state = "absent"
                   THEN [outbox EXCEPT ![c] = [@ EXCEPT !.state = "pending"]] ELSE outbox
    /\ relay' = [relay EXCEPT ![i] = [Waiting EXCEPT !.at = "delivered", !.command = c]]
    /\ UNCHANGED <<copies, settled, answers, handled, faults>>

Due(e) == outbox[e].state = "pending" /\ outbox[e].next_attempt_at = "due"

(***************************************************************************)
(* The first BatchSize due rows, oldest first.                             *)
(***************************************************************************)
DueBatch ==
    LET due == {e \in Events : Due(e)} IN
    {e \in due : Cardinality({d \in due : d < e}) < BatchSize}

(***************************************************************************)
(* flush_outbox begins: at start-up, at a tick, or after a delivery.  The  *)
(* long backoffs have grown shorter by a poll.                             *)
(***************************************************************************)
Aged(row) == IF row.next_attempt_at = "long" THEN [row EXCEPT !.next_attempt_at = "later"] ELSE row

flush_outbox(i) ==
    /\ relay[i].at \in {"start", "idle", "delivered"}
    /\ relay' = [relay EXCEPT ![i] = [@ EXCEPT !.at = "fresh", !.todo = DueBatch]]
    /\ outbox' = [e \in Events |-> Aged(outbox[e])]
    /\ UNCHANGED <<copies, settled, answers, handled, faults>>

(***************************************************************************)
(* The row published next: the oldest of a batch of fresh rows, any of the *)
(* resends (they are ordered by an instant the model abstracts).           *)
(***************************************************************************)
NextRow(i, e) ==
    /\ e \in relay[i].todo
    /\ relay[i].at = "fresh" => \A d \in relay[i].todo : e <= d

Answered(i, e, at) ==
    relay' = [relay EXCEPT ![i] = [relay[i] EXCEPT !.at = at, !.row = e,
                                                           !.todo = relay[i].todo \ {e}]]

(***************************************************************************)
(* publish_row: the broker takes the event and says so.                    *)
(***************************************************************************)
Publish(i) ==
    /\ relay[i].at \in {"fresh", "resend"}
    /\ \E e \in Events \ Poison :
          /\ NextRow(i, e)
          /\ copies' = [copies EXCEPT ![e] = @ + 1]
          /\ Answered(i, e, IF relay[i].at = "fresh" THEN "mark" ELSE "record")
    /\ UNCHANGED <<outbox, settled, answers, handled, faults>>

(***************************************************************************)
(* The broker refuses the event, or takes it and its answer is lost.       *)
(***************************************************************************)
Refuse(i) ==
    /\ relay[i].at \in {"fresh", "resend"}
    /\ \E e \in Events :
          /\ NextRow(i, e)
          /\ \/ e \in Poison /\ UNCHANGED <<faults, copies>>
             \/ e \notin Poison /\ Fault /\ UNCHANGED copies
             \/ e \notin Poison /\ Fault /\ copies' = [copies EXCEPT ![e] = @ + 1]
          /\ Answered(i, e, IF relay[i].at = "fresh" THEN "refused" ELSE "unsent")
    /\ UNCHANGED <<outbox, settled, answers, handled>>

(***************************************************************************)
(* A variant of mark_published's update that forgets the resend time.      *)
(***************************************************************************)
MarkUnarmed(e, row) == [row EXCEPT !.state = "published"]

(***************************************************************************)
(* The row after mark_published: a removal is armed for its first copy.    *)
(***************************************************************************)
Marked(e, row) ==
    [row EXCEPT !.state = "published",
                !.next_resend_at = IF e \in Removals THEN "later" ELSE "null"]

mark_published(i) ==
    LET e == relay[i].row IN
    /\ relay[i].at = "mark"
    /\ outbox' = IF outbox[e].state = "pending"
                   THEN [outbox EXCEPT ![e] = Marked(e, @)] ELSE outbox
    /\ relay' = [relay EXCEPT ![i] = [@ EXCEPT !.at = "fresh", !.row = 0]]
    /\ UNCHANGED <<copies, settled, answers, handled, faults>>

(***************************************************************************)
(* Variants of record_failure's update: a backoff that never grows, and a  *)
(* failed row given up as if it were published.                            *)
(***************************************************************************)
ConstantBackoff(row) == [row EXCEPT !.next_attempt_at = "later"]

GiveUp(row) == [row EXCEPT !.state = "published"]

(***************************************************************************)
(* The row after record_failure: backed off for twice as long each time.   *)
(***************************************************************************)
BackedOff(row) ==
    [row EXCEPT !.attempt_count = IF @ < Patience THEN @ + 1 ELSE @,
                !.next_attempt_at = IF row.attempt_count < Patience THEN "later" ELSE "long"]

(***************************************************************************)
(* record_failure for a fresh row: the pass goes on to the rows behind it. *)
(* For a resend, the pass ends and the pump returns the failure.           *)
(***************************************************************************)
record_failure(i) ==
    LET e == relay[i].row IN
    /\ relay[i].at \in {"refused", "unsent"}
    /\ outbox' = IF Stored(e) THEN [outbox EXCEPT ![e] = BackedOff(@)] ELSE outbox
    /\ relay' = [relay EXCEPT ![i] =
                   IF relay[i].at = "unsent" THEN Stopped
                   ELSE [@ EXCEPT !.at = "fresh", !.row = 0, !.failed = "yes"]]
    /\ UNCHANGED <<copies, settled, answers, handled, faults>>

DueResend(e) ==
    /\ e \in Removals
    /\ outbox[e].state = "published"
    /\ outbox[e].ack_outcome = "null"
    /\ outbox[e].next_resend_at = "due"
    /\ outbox[e].next_attempt_at = "due"
    /\ outbox[e].resend_count < MaxResends

(***************************************************************************)
(* The fresh rows are through.  After a failure the pump returns it;       *)
(* otherwise it reads up to BatchSize due resends.                         *)
(***************************************************************************)
resend_unacknowledged(i) ==
    LET due == {e \in Events : DueResend(e)} IN
    /\ relay[i].at = "fresh"
    /\ relay[i].todo = {}
    /\ \/ /\ relay[i].failed = "yes"
          /\ relay' = [relay EXCEPT ![i] = Stopped]
       \/ /\ relay[i].failed = "no"
          /\ \E S \in SUBSET due :
                /\ Cardinality(S) <= BatchSize
                /\ Cardinality(S) < BatchSize => S = due
                /\ relay' = [relay EXCEPT ![i] = [@ EXCEPT !.at = "resend", !.todo = S]]
    /\ UNCHANGED <<outbox, copies, settled, answers, handled, faults>>

(***************************************************************************)
(* A variant of record_resend's where clause without the acknowledgement.  *)
(***************************************************************************)
RecordAnyway(e) == outbox[e].resend_count < MaxResends

(***************************************************************************)
(* record_resend's where clause: the answer may have come meanwhile.  (The *)
(* last conjunct is the bound.)                                            *)
(***************************************************************************)
AwaitsAnswer(e) ==
    /\ outbox[e].state = "published"
    /\ outbox[e].ack_outcome = "null"
    /\ outbox[e].resend_count < MaxResends

Resent(row) ==
    [row EXCEPT !.resend_count = @ + 1, !.next_resend_at = "later", !.attempt_count = 0]

record_resend(i) ==
    LET e == relay[i].row IN
    /\ relay[i].at = "record"
    /\ outbox' = IF AwaitsAnswer(e)
                   THEN [outbox EXCEPT ![e] = Resent(@)]
                   ELSE outbox
    /\ relay' = [relay EXCEPT ![i] = [@ EXCEPT !.at = "resend", !.row = 0]]
    /\ UNCHANGED <<copies, settled, answers, handled, faults>>

(***************************************************************************)
(* A variant that settles a message after every flush, delivered or not.   *)
(***************************************************************************)
SettleEveryFlush(i) == {relay[i].command}

Settles(i) == {relay[i].command} \ {0}

(***************************************************************************)
(* The flush returns Ok: a delivery is acknowledged, a tick is over.       *)
(***************************************************************************)
FlushDone(i) ==
    /\ relay[i].at = "resend"
    /\ relay[i].todo = {}
    /\ settled' = settled \union Settles(i)
    /\ relay' = [relay EXCEPT ![i] = Waiting]
    /\ UNCHANGED <<outbox, copies, answers, handled, faults>>

-----------------------------------------------------------------------------
(***************************************************************************)
(* Knowledge answers a copy it received, or a copy never reaches it.       *)
(***************************************************************************)
Unhandled(e) == e \in Removals /\ handled[e] < copies[e]

KnowledgeAnswers(e) ==
    /\ Unhandled(e)
    /\ handled' = [handled EXCEPT ![e] = @ + 1]
    /\ \E outcome \in {"applied", "refused"} :
          answers' = answers \union {[event |-> e, outcome |-> outcome]}
    /\ UNCHANGED <<outbox, copies, settled, relay, faults>>

CopyDropped(e) ==
    /\ Unhandled(e)
    /\ Fault
    /\ handled' = [handled EXCEPT ![e] = @ + 1]
    /\ UNCHANGED <<outbox, copies, settled, answers, relay>>

(***************************************************************************)
(* The where clause of acknowledge: only the first answer counts.  It does *)
(* not ask for published_at.                                               *)
(***************************************************************************)
Unacknowledged(e) == outbox[e].ack_outcome = "null"

(***************************************************************************)
(* The acknowledgement consumer applies one answer.  The message may come  *)
(* again when its settlement is lost.                                      *)
(***************************************************************************)
acknowledge(answer) ==
    LET e == answer.event IN
    /\ answer \in answers
    /\ outbox' = IF Unacknowledged(e)
                   THEN [outbox EXCEPT ![e] = [@ EXCEPT !.ack_outcome = answer.outcome]]
                   ELSE outbox
    /\ \/ answers' = answers \ {answer} /\ UNCHANGED faults
       \/ Fault /\ UNCHANGED answers
    /\ UNCHANGED <<copies, settled, handled, relay>>

-----------------------------------------------------------------------------
(***************************************************************************)
(* A stopped pump ends the process, which the supervisor starts again; a   *)
(* crash, a failed statement or a lost connection does so at any point.    *)
(***************************************************************************)
Restart(i) ==
    /\ relay[i].at = "stopped"
    /\ relay' = [relay EXCEPT ![i] = Starting]
    /\ UNCHANGED <<outbox, copies, settled, answers, handled, faults>>

Crash(i) ==
    /\ relay[i].at # "start"
    /\ Fault
    /\ relay' = [relay EXCEPT ![i] = Starting]
    /\ UNCHANGED <<outbox, copies, settled, answers, handled>>

(***************************************************************************)
(* A backoff or a resend delay runs out.                                   *)
(***************************************************************************)
BackoffOver(e) ==
    /\ outbox[e].next_attempt_at = "later"
    /\ outbox' = [outbox EXCEPT ![e] = [@ EXCEPT !.next_attempt_at = "due"]]
    /\ UNCHANGED <<copies, settled, answers, handled, relay, faults>>

ResendDelayOver(e) ==
    /\ outbox[e].next_resend_at = "later"
    /\ outbox' = [outbox EXCEPT ![e] = [@ EXCEPT !.next_resend_at = "due"]]
    /\ UNCHANGED <<copies, settled, answers, handled, relay, faults>>

(***************************************************************************)
(* An owner deletion removes the rows of a source, published or not, but   *)
(* no removal.                                                             *)
(***************************************************************************)
Purge(e) ==
    /\ Stored(e)
    /\ e \notin Removals
    /\ outbox' = [outbox EXCEPT ![e] = [AbsentRow EXCEPT !.state = "purged"]]
    /\ UNCHANGED <<copies, settled, answers, handled, relay, faults>>

PumpStep(i) ==
    \/ flush_outbox(i) \/ Publish(i) \/ Refuse(i) \/ mark_published(i) \/ record_failure(i)
    \/ resend_unacknowledged(i) \/ record_resend(i) \/ FlushDone(i)

Next ==
    \/ \E i \in Instances : \/ PumpStep(i) \/ Restart(i) \/ Crash(i)
                           \/ \E c \in Commands : handle_delivery(i, c)
    \/ \E e \in Events : \/ Append(e) \/ KnowledgeAnswers(e) \/ CopyDropped(e)
                        \/ BackoffOver(e) \/ ResendDelayOver(e) \/ Purge(e)
    \/ \E answer \in answers : acknowledge(answer)

Spec == Init /\ [][Next]_vars

(***************************************************************************)
(* The pump is a task the runtime schedules; the supervisor restarts a     *)
(* stopped process; time passes; Knowledge answers what reaches it.        *)
(***************************************************************************)
Fairness ==
    /\ \A i \in Instances :
          WF_vars(PumpStep(i)) /\ WF_vars(Restart(i))
    /\ \A e \in Events :
          WF_vars(BackoffOver(e)) /\ WF_vars(ResendDelayOver(e)) /\ WF_vars(KnowledgeAnswers(e))
    /\ \A e \in Removals : \A o \in {"applied", "refused"} :
          WF_vars(acknowledge([event |-> e, outcome |-> o]))

FairSpec == Spec /\ Fairness

-----------------------------------------------------------------------------
(***************************************************************************)
(* The shape of the state; only commands are settled.                      *)
(***************************************************************************)
TypeOK ==
    /\ outbox \in [Events -> Rows]
    /\ copies \in [Events -> Nat]
    /\ settled \in SUBSET Commands
    /\ answers \in SUBSET [event : Removals, outcome : {"applied", "refused"}]
    /\ handled \in [Events -> Nat]
    /\ relay \in [Instances ->
                    [at : {"start", "idle", "delivered", "fresh", "mark", "refused", "resend",
                           "record", "unsent", "stopped"},
                     todo : SUBSET Events, row : Events \union {0},
                     failed : {"no", "yes"}, command : Commands \union {0}]]
    /\ faults \in Nat

(***************************************************************************)
(* What the table says was sent, the broker took: a published row has one  *)
(* copy at the broker and one more for every resend it counts, whichever   *)
(* process marked it and wherever a crash fell (mark_published and         *)
(* record_resend run only after a PubAck of their own).                    *)
(***************************************************************************)
CountedCopiesWereTaken ==
    \A e \in Events : outbox[e].state = "published" =>
        copies[e] >= outbox[e].resend_count + 1

(***************************************************************************)
(* A removal can always be sent again until Knowledge answers: its row is  *)
(* never purged, and once published it keeps a resend time (mark_published *)
(* arms it, a failed resend leaves the schedule alone).                    *)
(***************************************************************************)
RemovalsStayArmed ==
    \A e \in Removals :
        /\ outbox[e].state # "purged"
        /\ outbox[e].state = "published" => outbox[e].next_resend_at # "null"

(***************************************************************************)
(* Knowledge's first answer stands: a late copy, a repeated answer or a    *)
(* resend that was already under way changes neither the outcome nor the   *)
(* resend count (acknowledge and record_resend).                           *)
(***************************************************************************)
FirstAnswerStands ==
    [][\A e \in Events : outbox[e].ack_outcome # "null" =>
         /\ outbox'[e].ack_outcome = outbox[e].ack_outcome
         /\ outbox'[e].resend_count = outbox[e].resend_count]_vars

(***************************************************************************)
(* A failing row never starves the rows behind it: every row the broker    *)
(* takes is published or purged in the end, though rows it never takes     *)
(* stand before it (record_failure's backoff).                             *)
(***************************************************************************)
NoRowStarves ==
    \A e \in Events \ Poison :
        [](outbox[e].state = "pending" => <>(outbox[e].state \in {"published", "purged"}))

(***************************************************************************)
(* Every removal is acknowledged in the end although copies are dropped    *)
(* from the stream and answers come late (the resend).                     *)
(***************************************************************************)
RemovalsAreAnswered ==
    \A e \in Removals \ Poison :
        [](outbox[e].state = "pending" => <>(outbox[e].ack_outcome # "null"))

(***************************************************************************)
(* A command is acknowledged only once the fact of its own delivery was    *)
(* taken by the broker, or purged (the comment on run in nats.rs, for the  *)
(* one row it surely means).                                               *)
(***************************************************************************)
AcknowledgedAfterPublished ==
    \A c \in settled : outbox[c].state \in {"published", "purged"}
=============================================================================
