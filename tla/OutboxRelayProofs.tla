------------------------- MODULE OutboxRelayProofs --------------------------
(***************************************************************************)
(* Proofs about OutboxRelay, for any events, any number of instances and   *)
(* any batch size.                                                         *)
(***************************************************************************)
EXTENDS OutboxRelay, FiniteSetTheorems, TLAPS

PumpStates ==
    [at : {"start", "idle", "delivered", "fresh", "mark", "refused", "resend",
           "record", "unsent", "stopped"},
     todo : SUBSET Events, row : Events \union {0},
     failed : {"no", "yes"}, command : Commands \union {0}]

(***************************************************************************)
(* A pump that is about to update a row holds that row.                    *)
(***************************************************************************)
PumpInv ==
    \A i \in Instances :
        relay[i].at \in {"mark", "refused", "record", "unsent"} => relay[i].row \in Events

(***************************************************************************)
(* The pumps whose copy of the event is taken but not yet counted.         *)
(***************************************************************************)
Uncounted(e) ==
    {i \in Instances : relay[i].at \in {"mark", "record"} /\ relay[i].row = e}

Counted(row) == IF row.state = "published" THEN row.resend_count + 1 ELSE 0

(***************************************************************************)
(* Every counted copy and every copy about to be counted was taken; only a *)
(* published row has counted resends.                                      *)
(***************************************************************************)
CopyInv ==
    \A e \in Events :
        /\ copies[e] >= Counted(outbox[e]) + Cardinality(Uncounted(e))
        /\ outbox[e].state # "published" => outbox[e].resend_count = 0

-----------------------------------------------------------------------------
(***************************************************************************)
(* The updates of a row yield a row.                                       *)
(***************************************************************************)
LEMMA RowTypes ==
  ASSUME NEW row \in Rows, NEW e \in Events
  PROVE  /\ Aged(row) \in Rows /\ Marked(e, row) \in Rows /\ BackedOff(row) \in Rows
         /\ row.resend_count < MaxResends => Resent(row) \in Rows
         /\ [row EXCEPT !.next_attempt_at = "due"] \in Rows
         /\ [row EXCEPT !.next_resend_at = "due"] \in Rows
         /\ [row EXCEPT !.state = "pending"] \in Rows
         /\ \A o \in {"applied", "refused"} : [row EXCEPT !.ack_outcome = o] \in Rows
<1>1. Aged(row) \in Rows
  BY DEF Aged, Rows
<1>2. Marked(e, row) \in Rows
  BY DEF Marked, Rows
<1>3. BackedOff(row) \in Rows
  <2>1. (IF row.attempt_count < Patience THEN row.attempt_count + 1 ELSE row.attempt_count)
           \in 0..Patience
    BY RelayBounds DEF Rows
  <2> QED
    BY <2>1 DEF BackedOff, Rows
<1>4. ASSUME row.resend_count < MaxResends PROVE Resent(row) \in Rows
  <2>1. row.resend_count + 1 \in 0..MaxResends /\ 0 \in 0..Patience
    BY <1>4, RelayBounds DEF Rows
  <2> QED
    BY <2>1 DEF Resent, Rows
<1>5. /\ [row EXCEPT !.next_attempt_at = "due"] \in Rows
      /\ [row EXCEPT !.next_resend_at = "due"] \in Rows
  BY DEF Rows
<1>6. /\ [row EXCEPT !.state = "pending"] \in Rows
      /\ \A o \in {"applied", "refused"} : [row EXCEPT !.ack_outcome = o] \in Rows
  BY DEF Rows
<1> QED
  BY <1>1, <1>2, <1>3, <1>4, <1>5, <1>6

(***************************************************************************)
(* The rows before their first commit and after a purge are rows.          *)
(***************************************************************************)
LEMMA AbsentType ==
  /\ AbsentRow \in Rows
  /\ [AbsentRow EXCEPT !.state = "purged"] \in Rows
<1>1. 0 \in 0..Patience /\ 0 \in 0..MaxResends
  BY RelayBounds
<1> QED
  BY <1>1 DEF AbsentRow, Rows

(***************************************************************************)
(* The resting states of a pump.                                           *)
(***************************************************************************)
LEMMA RestingTypes ==
  /\ Starting \in PumpStates /\ Waiting \in PumpStates /\ Stopped \in PumpStates
  /\ Starting.at = "start" /\ Waiting.at = "idle" /\ Stopped.at = "stopped"
  BY DEF Starting, Waiting, Stopped, PumpStates

-----------------------------------------------------------------------------
(***************************************************************************)
(* A step of one pump on its own state, or of none, is well-typed when its *)
(* new state is one and holds a row where it must.                         *)
(***************************************************************************)
LEMMA PumpMoves ==
  ASSUME TypeOK, PumpInv, NEW i \in Instances, NEW p \in PumpStates,
         p.at \in {"mark", "refused", "record", "unsent"} => p.row \in Events,
         relay' = [relay EXCEPT ![i] = p]
  PROVE  relay' \in [Instances -> PumpStates] /\ PumpInv'
<1>1. relay' \in [Instances -> PumpStates]
  BY DEF TypeOK, PumpStates
<1>2. relay'[i] = p /\ \A j \in Instances : j # i => relay'[j] = relay[j]
  BY DEF TypeOK
<1>3. PumpInv'
  BY <1>2 DEF PumpInv
<1> QED
  BY <1>1, <1>3

(***************************************************************************)
(* Every step of a pump keeps the state well-typed.                        *)
(***************************************************************************)
LEMMA PumpStepType ==
  ASSUME TypeOK, PumpInv, NEW i \in Instances, PumpStep(i)
  PROVE  TypeOK' /\ PumpInv'
<1>1. relay[i] \in PumpStates
  BY DEF TypeOK, PumpStates
<1>2. ASSUME NEW b \in {"fresh", "resend"}, NEW S \in SUBSET Events
      PROVE  /\ [relay[i] EXCEPT !.at = b, !.row = 0] \in PumpStates
             /\ [relay[i] EXCEPT !.at = b, !.row = 0].at = b
             /\ [relay[i] EXCEPT !.at = b, !.row = 0, !.failed = "yes"] \in PumpStates
             /\ [relay[i] EXCEPT !.at = b, !.row = 0, !.failed = "yes"].at = b
             /\ [relay[i] EXCEPT !.at = b, !.todo = S] \in PumpStates
             /\ [relay[i] EXCEPT !.at = b, !.todo = S].at = b
  BY <1>1 DEF PumpStates
<1>3. ASSUME NEW e \in Events, NEW a \in {"mark", "record", "refused", "unsent"}
      PROVE  /\ [relay[i] EXCEPT !.at = a, !.row = e, !.todo = relay[i].todo \ {e}] \in PumpStates
             /\ [relay[i] EXCEPT !.at = a, !.row = e, !.todo = relay[i].todo \ {e}].row = e
  BY <1>1 DEF PumpStates
<1>4. ASSUME NEW p \in PumpStates,
             p.at \in {"mark", "refused", "record", "unsent"} => p.row \in Events,
             relay' = [relay EXCEPT ![i] = p],
             outbox' \in [Events -> Rows], copies' \in [Events -> Nat],
             settled' \in SUBSET Commands, faults' \in Nat, UNCHANGED <<answers, handled>>
      PROVE  TypeOK' /\ PumpInv'
  BY <1>4, PumpMoves DEF TypeOK, PumpStates
<1>5. CASE flush_outbox(i)
  <2>1. DueBatch \in SUBSET Events
    BY DEF DueBatch
  <2>2. outbox' \in [Events -> Rows]
    BY <1>5, RowTypes DEF flush_outbox, TypeOK
  <2> QED
    BY <1>2, <1>4, <1>5, <2>1, <2>2 DEF flush_outbox, TypeOK
<1>6. CASE Publish(i)
  <2>1. PICK e \in Events : /\ copies' = [copies EXCEPT ![e] = @ + 1]
                            /\ Answered(i, e, IF relay[i].at = "fresh" THEN "mark" ELSE "record")
    BY <1>6 DEF Publish
  <2>2. copies' \in [Events -> Nat]
    BY <2>1 DEF TypeOK
  <2>3. PICK a \in {"mark", "record"} :
           relay' = [relay EXCEPT ![i] = [relay[i] EXCEPT !.at = a, !.row = e,
                                                      !.todo = relay[i].todo \ {e}]]
    BY <2>1 DEF Answered
  <2>4. PICK p \in PumpStates : p.row = e /\ relay' = [relay EXCEPT ![i] = p]
    BY <1>3, <2>3
  <2>5. outbox' \in [Events -> Rows] /\ settled' \in SUBSET Commands /\ faults' \in Nat
        /\ UNCHANGED <<answers, handled>>
    BY <1>6, <2>2 DEF Publish, TypeOK
  <2> QED
    BY <1>4, <2>2, <2>4, <2>5
<1>7. CASE Refuse(i)
  <2>1. PICK e \in Events :
           /\ copies' = copies \/ copies' = [copies EXCEPT ![e] = @ + 1]
           /\ faults' = faults \/ faults' = faults + 1
           /\ Answered(i, e, IF relay[i].at = "fresh" THEN "refused" ELSE "unsent")
    BY <1>7 DEF Refuse, Fault
  <2>2. copies' \in [Events -> Nat] /\ faults' \in Nat
    BY <2>1 DEF TypeOK
  <2>3. PICK a \in {"refused", "unsent"} :
           relay' = [relay EXCEPT ![i] = [relay[i] EXCEPT !.at = a, !.row = e,
                                                      !.todo = relay[i].todo \ {e}]]
    BY <2>1 DEF Answered
  <2>4. PICK p \in PumpStates : p.row = e /\ relay' = [relay EXCEPT ![i] = p]
    BY <1>3, <2>3
  <2>5. outbox' \in [Events -> Rows] /\ settled' \in SUBSET Commands /\ faults' \in Nat
        /\ UNCHANGED <<answers, handled>>
    BY <1>7, <2>2 DEF Refuse, TypeOK
  <2> QED
    BY <1>4, <2>2, <2>4, <2>5
<1>8. CASE mark_published(i)
  <2>1. relay[i].row \in Events
    BY <1>8 DEF mark_published, PumpInv
  <2>2. outbox' \in [Events -> Rows]
    BY <1>8, <2>1, RowTypes DEF mark_published, TypeOK
  <2> QED
    BY <1>2, <1>4, <1>8, <2>2 DEF mark_published, TypeOK
<1>9. CASE record_failure(i)
  <2>1. relay[i].row \in Events
    BY <1>9 DEF record_failure, PumpInv
  <2>2. outbox' \in [Events -> Rows]
    BY <1>9, <2>1, RowTypes DEF record_failure, TypeOK
  <2> QED
    BY <1>2, <1>4, <1>9, <2>2, RestingTypes DEF record_failure, TypeOK
<1>10. CASE resend_unacknowledged(i)
  BY <1>2, <1>4, <1>10, RestingTypes DEF resend_unacknowledged, TypeOK
<1>11. CASE record_resend(i)
  <2>1. relay[i].row \in Events
    BY <1>11 DEF record_resend, PumpInv
  <2>2. outbox' \in [Events -> Rows]
    BY <1>11, <2>1, RowTypes DEF record_resend, AwaitsAnswer, TypeOK
  <2> QED
    BY <1>2, <1>4, <1>11, <2>2 DEF record_resend, TypeOK
<1>12. CASE FlushDone(i)
  <2>1. settled' \in SUBSET Commands
    BY <1>1, <1>12 DEF FlushDone, Settles, PumpStates, TypeOK
  <2> QED
    BY <1>4, <1>12, <2>1, RestingTypes DEF FlushDone, TypeOK
<1> QED
  BY <1>5, <1>6, <1>7, <1>8, <1>9, <1>10, <1>11, <1>12 DEF PumpStep

(***************************************************************************)
(* The steps outside the pumps keep the state well-typed.                  *)
(***************************************************************************)
LEMMA OtherStepType ==
  ASSUME TypeOK, PumpInv,
         \/ \E i \in Instances : \/ Restart(i) \/ Crash(i)
                                \/ \E c \in Commands : handle_delivery(i, c)
         \/ \E e \in Events : \/ Append(e) \/ KnowledgeAnswers(e) \/ CopyDropped(e)
                             \/ BackoffOver(e) \/ ResendDelayOver(e) \/ Purge(e)
         \/ \E answer \in answers : acknowledge(answer)
  PROVE  TypeOK' /\ PumpInv'
<1>1. ASSUME NEW i \in Instances, Restart(i) \/ Crash(i) PROVE TypeOK' /\ PumpInv'
  <2>1. relay' = [relay EXCEPT ![i] = Starting]
    BY <1>1 DEF Restart, Crash
  <2>2. relay' \in [Instances -> PumpStates] /\ PumpInv'
    BY <2>1, PumpMoves, RestingTypes
  <2> QED
    BY <1>1, <2>2 DEF Restart, Crash, Fault, TypeOK, PumpStates
<1>2. ASSUME NEW i \in Instances, NEW c \in Commands, handle_delivery(i, c)
      PROVE  TypeOK' /\ PumpInv'
  <2> DEFINE p == [Waiting EXCEPT !.at = "delivered", !.command = c]
  <2>1. p \in PumpStates /\ p.at = "delivered"
    BY DEF PumpStates, Waiting, Starting
  <2>2. relay' \in [Instances -> PumpStates] /\ PumpInv'
    BY <1>2, <2>1, PumpMoves DEF handle_delivery
  <2>3. outbox' \in [Events -> Rows]
    BY <1>2, RowTypes, EventAssumption DEF handle_delivery, TypeOK
  <2> QED
    BY <1>2, <2>2, <2>3 DEF handle_delivery, TypeOK, PumpStates
<1>3. ASSUME NEW e \in Events, Append(e) \/ BackoffOver(e) \/ ResendDelayOver(e) \/ Purge(e)
      PROVE  TypeOK' /\ PumpInv'
  <2>1. outbox' \in [Events -> Rows]
    <3>1. CASE Append(e)
      BY <3>1, RowTypes DEF Append, TypeOK
    <3>2. CASE BackoffOver(e)
      BY <3>2, RowTypes DEF BackoffOver, TypeOK
    <3>3. CASE ResendDelayOver(e)
      BY <3>3, RowTypes DEF ResendDelayOver, TypeOK
    <3>4. CASE Purge(e)
      BY <3>4, AbsentType DEF Purge, TypeOK
    <3> QED
      BY <1>3, <3>1, <3>2, <3>3, <3>4
  <2> QED
    BY <1>3, <2>1 DEF Append, BackoffOver, ResendDelayOver, Purge, TypeOK, PumpInv
<1>4. ASSUME NEW e \in Events, KnowledgeAnswers(e) \/ CopyDropped(e)
      PROVE  TypeOK' /\ PumpInv'
  BY <1>4 DEF KnowledgeAnswers, CopyDropped, Unhandled, Fault, TypeOK, PumpInv
<1>5. ASSUME NEW answer \in answers, acknowledge(answer) PROVE TypeOK' /\ PumpInv'
  <2>1. answer.event \in Events /\ answer.outcome \in {"applied", "refused"}
    BY EventAssumption DEF TypeOK
  <2>2. outbox' \in [Events -> Rows]
    BY <1>5, <2>1, RowTypes DEF acknowledge, TypeOK
  <2> QED
    BY <1>5, <2>2 DEF acknowledge, Fault, TypeOK, PumpInv
<1> QED
  BY <1>1, <1>2, <1>3, <1>4, <1>5

(***************************************************************************)
(* The relay is well-typed in every reachable state.                       *)
(***************************************************************************)
THEOREM RelayTypeCorrect == Spec => [](TypeOK /\ PumpInv)
<1>1. Init => TypeOK /\ PumpInv
  BY AbsentType, RestingTypes DEF Init, TypeOK, PumpInv, PumpStates
<1>2. TypeOK /\ PumpInv /\ [Next]_vars => TypeOK' /\ PumpInv'
  <2> SUFFICES ASSUME TypeOK, PumpInv, [Next]_vars PROVE TypeOK' /\ PumpInv'
    OBVIOUS
  <2>1. CASE Next
    BY <2>1, PumpStepType, OtherStepType DEF Next
  <2>2. CASE UNCHANGED vars
    BY <2>2 DEF vars, TypeOK, PumpInv
  <2> QED
    BY <2>1, <2>2
<1> QED
  BY <1>1, <1>2, PTL DEF Spec

-----------------------------------------------------------------------------
(***************************************************************************)
(* What a step may do to a row: reschedule it, insert it, mark it, count a *)
(* resend, take an answer, purge it.                                       *)
(***************************************************************************)
Rescheduled(a, b) ==
    /\ b.state = a.state /\ b.resend_count = a.resend_count /\ b.ack_outcome = a.ack_outcome
    /\ a.next_resend_at # "null" => b.next_resend_at # "null"

Inserted(a, b) == a.state = "absent" /\ b = [a EXCEPT !.state = "pending"]

AnswerTaken(e, a, b) ==
    /\ e \in Removals /\ a.ack_outcome = "null"
    /\ \E o \in {"applied", "refused"} : b = [a EXCEPT !.ack_outcome = o]

Purged(e, b) == e \notin Removals /\ b = [AbsentRow EXCEPT !.state = "purged"]

Uncounting(e, a, b) ==
    Rescheduled(a, b) \/ Inserted(a, b) \/ AnswerTaken(e, a, b) \/ Purged(e, b)

RowStep(e, a, b) ==
    \/ Uncounting(e, a, b)
    \/ a.state = "pending" /\ b = Marked(e, a)
    \/ a.state = "published" /\ a.ack_outcome = "null" /\ b = Resent(a)

(***************************************************************************)
(* The steps that count no copy.                                           *)
(***************************************************************************)
Counting(i) == mark_published(i) \/ record_resend(i)

LEMMA UncountingSteps ==
  ASSUME TypeOK, PumpInv, [Next]_vars, \A i \in Instances : ~Counting(i), NEW e \in Events
  PROVE  Uncounting(e, outbox[e], outbox'[e])
<1>1. outbox[e] \in Rows
  BY DEF TypeOK
<1>2. ASSUME outbox'[e] = outbox[e] PROVE Uncounting(e, outbox[e], outbox'[e])
  BY <1>2 DEF Uncounting, Rescheduled
<1>3. ASSUME NEW i \in Instances, flush_outbox(i) PROVE Uncounting(e, outbox[e], outbox'[e])
  <2>1. outbox'[e] = Aged(outbox[e])
    BY <1>3 DEF flush_outbox
  <2>2. Rescheduled(outbox[e], Aged(outbox[e]))
    BY <1>1 DEF Rescheduled, Aged, Rows
  <2> QED
    BY <2>1, <2>2 DEF Uncounting
<1>4. ASSUME NEW i \in Instances, record_failure(i) PROVE Uncounting(e, outbox[e], outbox'[e])
  <2>1. outbox'[e] = outbox[e] \/ outbox'[e] = BackedOff(outbox[e])
    BY <1>4 DEF record_failure, TypeOK
  <2>2. Rescheduled(outbox[e], BackedOff(outbox[e]))
    BY <1>1 DEF Rescheduled, BackedOff, Rows
  <2> QED
    BY <1>2, <2>1, <2>2 DEF Uncounting
<1>5. ASSUME NEW i \in Instances, PumpStep(i) PROVE Uncounting(e, outbox[e], outbox'[e])
  BY <1>2, <1>3, <1>4, <1>5
     DEF PumpStep, Publish, Refuse, resend_unacknowledged, FlushDone, Counting
<1>6. ASSUME NEW i \in Instances, NEW c \in Commands, handle_delivery(i, c)
      PROVE  Uncounting(e, outbox[e], outbox'[e])
  <2>1. outbox'[e] = outbox[e] \/ Inserted(outbox[e], outbox'[e])
    BY <1>6 DEF handle_delivery, TypeOK, Inserted
  <2> QED
    BY <1>2, <2>1 DEF Uncounting
<1>7. ASSUME NEW x \in Events, Append(x) PROVE Uncounting(e, outbox[e], outbox'[e])
  <2>1. outbox'[e] = outbox[e] \/ Inserted(outbox[e], outbox'[e])
    BY <1>7 DEF Append, TypeOK, Inserted
  <2> QED
    BY <1>2, <2>1 DEF Uncounting
<1>8. ASSUME NEW x \in Events, BackoffOver(x) \/ ResendDelayOver(x)
      PROVE  Uncounting(e, outbox[e], outbox'[e])
  <2>1. \/ outbox'[e] = outbox[e]
        \/ outbox'[e] = [outbox[e] EXCEPT !.next_attempt_at = "due"]
        \/ outbox'[e] = [outbox[e] EXCEPT !.next_resend_at = "due"]
    BY <1>8 DEF BackoffOver, ResendDelayOver, TypeOK
  <2>2. Rescheduled(outbox[e], outbox'[e])
    BY <1>1, <2>1 DEF Rescheduled, Rows
  <2> QED
    BY <2>2 DEF Uncounting
<1>9. ASSUME NEW x \in Events, Purge(x) PROVE Uncounting(e, outbox[e], outbox'[e])
  <2>1. outbox'[e] = outbox[e] \/ Purged(e, outbox'[e])
    BY <1>9 DEF Purge, TypeOK, Purged
  <2> QED
    BY <1>2, <2>1 DEF Uncounting
<1>10. ASSUME NEW answer \in answers, acknowledge(answer)
       PROVE  Uncounting(e, outbox[e], outbox'[e])
  <2>1. answer.event \in Removals /\ answer.outcome \in {"applied", "refused"}
    BY DEF TypeOK
  <2>2. outbox'[e] = outbox[e] \/ AnswerTaken(e, outbox[e], outbox'[e])
    BY <1>10, <2>1 DEF acknowledge, Unacknowledged, TypeOK, AnswerTaken
  <2> QED
    BY <1>2, <2>2 DEF Uncounting
<1> QED
  BY <1>2, <1>5, <1>6, <1>7, <1>8, <1>9, <1>10
     DEF Next, vars, Restart, Crash, KnowledgeAnswers, CopyDropped

(***************************************************************************)
(* Every step changes a row in one of those ways.                          *)
(***************************************************************************)
LEMMA RowSteps ==
  ASSUME TypeOK, PumpInv, [Next]_vars, NEW e \in Events
  PROVE  RowStep(e, outbox[e], outbox'[e])
<1>1. ASSUME NEW i \in Instances, mark_published(i) PROVE RowStep(e, outbox[e], outbox'[e])
  BY <1>1 DEF mark_published, TypeOK, RowStep, Uncounting, Rescheduled
<1>2. ASSUME NEW i \in Instances, record_resend(i) PROVE RowStep(e, outbox[e], outbox'[e])
  BY <1>2 DEF record_resend, AwaitsAnswer, TypeOK, RowStep, Uncounting, Rescheduled
<1>3. CASE \A i \in Instances : ~Counting(i)
  BY <1>3, UncountingSteps DEF RowStep
<1> QED
  BY <1>1, <1>2, <1>3 DEF Counting

-----------------------------------------------------------------------------
(***************************************************************************)
(* RemovalsStayArmed: in every behaviour a removal is never purged and,    *)
(* once published, keeps a resend time (mark_published arms it; no other   *)
(* statement clears it).                                                   *)
(***************************************************************************)
THEOREM RemovalsCanBeResent == Spec => []RemovalsStayArmed
<1>1. Init => RemovalsStayArmed
  BY EventAssumption DEF Init, RemovalsStayArmed, AbsentRow
<1>2. TypeOK /\ PumpInv /\ RemovalsStayArmed /\ [Next]_vars => RemovalsStayArmed'
  <2> SUFFICES ASSUME TypeOK, PumpInv, RemovalsStayArmed, [Next]_vars, NEW e \in Removals
               PROVE  /\ outbox'[e].state # "purged"
                      /\ outbox'[e].state = "published" => outbox'[e].next_resend_at # "null"
    BY DEF RemovalsStayArmed
  <2>1. e \in Events /\ outbox[e] \in Rows
    BY EventAssumption DEF TypeOK
  <2>2. RowStep(e, outbox[e], outbox'[e])
    BY <2>1, RowSteps
  <2>3. /\ outbox[e].state # "purged"
        /\ outbox[e].state = "published" => outbox[e].next_resend_at # "null"
    BY DEF RemovalsStayArmed
  <2> QED
    BY <2>1, <2>2, <2>3
       DEF RowStep, Uncounting, Rescheduled, Inserted, AnswerTaken, Purged, Marked, Resent, Rows
<1> QED
  BY <1>1, <1>2, RelayTypeCorrect, PTL DEF Spec

(***************************************************************************)
(* Only removals are ever acknowledged (the acknowledgement consumer       *)
(* updates rows of that event type).                                       *)
(***************************************************************************)
OnlyRemovalsAnswered ==
    \A e \in Events : outbox[e].ack_outcome # "null" => e \in Removals

LEMMA AnswersAreForRemovals == Spec => []OnlyRemovalsAnswered
<1>1. Init => OnlyRemovalsAnswered
  BY DEF Init, OnlyRemovalsAnswered, AbsentRow
<1>2. TypeOK /\ PumpInv /\ OnlyRemovalsAnswered /\ [Next]_vars => OnlyRemovalsAnswered'
  <2> SUFFICES ASSUME TypeOK, PumpInv, OnlyRemovalsAnswered, [Next]_vars, NEW e \in Events
               PROVE  outbox'[e].ack_outcome # "null" => e \in Removals
    BY DEF OnlyRemovalsAnswered
  <2>1. outbox[e] \in Rows /\ (outbox[e].ack_outcome # "null" => e \in Removals)
    BY DEF TypeOK, OnlyRemovalsAnswered
  <2>2. RowStep(e, outbox[e], outbox'[e])
    BY RowSteps
  <2> QED
    BY <2>1, <2>2 DEF RowStep, Uncounting, Rescheduled, Inserted, AnswerTaken, Purged,
                      AbsentRow, Marked, Resent, Rows
<1> QED
  BY <1>1, <1>2, RelayTypeCorrect, PTL DEF Spec

(***************************************************************************)
(* FirstAnswerStands: once Knowledge has answered, no step changes the     *)
(* outcome or counts another resend (the where clauses of acknowledge and  *)
(* record_resend, against answers and resends already under way).          *)
(***************************************************************************)
THEOREM AnswersAreFinal == Spec => FirstAnswerStands
<1> DEFINE Stands ==
      \A e \in Events : outbox[e].ack_outcome # "null" =>
         /\ outbox'[e].ack_outcome = outbox[e].ack_outcome
         /\ outbox'[e].resend_count = outbox[e].resend_count
<1>1. TypeOK /\ PumpInv /\ OnlyRemovalsAnswered /\ [Next]_vars => [Stands]_vars
  <2> SUFFICES ASSUME TypeOK, PumpInv, OnlyRemovalsAnswered, [Next]_vars,
                      NEW e \in Events, outbox[e].ack_outcome # "null"
               PROVE  /\ outbox'[e].ack_outcome = outbox[e].ack_outcome
                      /\ outbox'[e].resend_count = outbox[e].resend_count
    OBVIOUS
  <2>1. outbox[e] \in Rows /\ e \in Removals
    BY DEF TypeOK, OnlyRemovalsAnswered
  <2>2. RowStep(e, outbox[e], outbox'[e])
    BY RowSteps
  <2> QED
    BY <2>1, <2>2
       DEF RowStep, Uncounting, Rescheduled, Inserted, AnswerTaken, Purged, Marked, Rows
<1> QED
  BY <1>1, RelayTypeCorrect, AnswersAreForRemovals, PTL DEF Spec, FirstAnswerStands

-----------------------------------------------------------------------------
(***************************************************************************)
(* The set of uncounted pumps is finite, and small changes of it change    *)
(* its size by at most one.                                                *)
(***************************************************************************)
LEMMA UncountedSize ==
  ASSUME NEW S, NEW T, T \subseteq Instances, S \subseteq Instances
  PROVE  /\ Cardinality(S) \in Nat
         /\ S \subseteq T => Cardinality(S) <= Cardinality(T)
         /\ \A i \in S : T \subseteq S \ {i} => Cardinality(T) + 1 <= Cardinality(S)
         /\ \A i \in Instances : T \subseteq S \union {i} => Cardinality(T) <= Cardinality(S) + 1
<1>1. IsFiniteSet(S) /\ IsFiniteSet(T)
  BY InstanceAssumption, FS_Subset
<1>2. Cardinality(S) \in Nat /\ Cardinality(T) \in Nat
  BY <1>1, FS_CardinalityType
<1>3. S \subseteq T => Cardinality(S) <= Cardinality(T)
  BY <1>1, FS_Subset
<1>4. ASSUME NEW i \in S, T \subseteq S \ {i} PROVE Cardinality(T) + 1 <= Cardinality(S)
  <2>1. IsFiniteSet(S \ {i}) /\ Cardinality(S \ {i}) = Cardinality(S) - 1
    BY <1>1, FS_RemoveElement
  <2>2. Cardinality(T) <= Cardinality(S \ {i})
    BY <1>4, <2>1, FS_Subset
  <2> QED
    BY <1>2, <2>1, <2>2
<1>5. ASSUME NEW i \in Instances, T \subseteq S \union {i}
      PROVE  Cardinality(T) <= Cardinality(S) + 1
  <2>1. /\ IsFiniteSet(S \union {i})
        /\ \/ Cardinality(S \union {i}) = Cardinality(S)
           \/ Cardinality(S \union {i}) = Cardinality(S) + 1
    BY <1>1, FS_AddElement
  <2>2. Cardinality(T) <= Cardinality(S \union {i})
    BY <1>5, <2>1, FS_Subset
  <2> QED
    BY <1>2, <2>1, <2>2
<1> QED
  BY <1>2, <1>3, <1>4, <1>5

(***************************************************************************)
(* A step that counts nothing and lets no pump hold another copy.          *)
(***************************************************************************)
LEMMA CopyFrame ==
  ASSUME TypeOK, TypeOK', PumpInv, CopyInv, [Next]_vars, \A i \in Instances : ~Counting(i),
         \A e \in Events : copies'[e] >= copies[e] /\ Uncounted(e)' \subseteq Uncounted(e)
  PROVE  CopyInv'
<1> SUFFICES ASSUME NEW e \in Events
             PROVE  /\ copies'[e] >= Counted(outbox'[e]) + Cardinality(Uncounted(e)')
                    /\ outbox'[e].state # "published" => outbox'[e].resend_count = 0
  BY DEF CopyInv
<1>1. outbox[e] \in Rows /\ outbox'[e] \in Rows /\ copies[e] \in Nat /\ copies'[e] \in Nat
  BY DEF TypeOK
<1>2. Uncounting(e, outbox[e], outbox'[e])
  BY UncountingSteps
<1>3. /\ copies[e] >= Counted(outbox[e]) + Cardinality(Uncounted(e))
      /\ outbox[e].state # "published" => outbox[e].resend_count = 0
  BY DEF CopyInv
<1>4. /\ outbox[e].resend_count \in Nat /\ outbox'[e].resend_count \in Nat
  BY <1>1, RelayBounds DEF Rows
<1>5. /\ Counted(outbox'[e]) <= Counted(outbox[e])
      /\ Counted(outbox[e]) \in Nat /\ Counted(outbox'[e]) \in Nat
      /\ outbox'[e].state # "published" => outbox'[e].resend_count = 0
  BY <1>1, <1>2, <1>3, <1>4
     DEF Uncounting, Rescheduled, Inserted, AnswerTaken, Purged, AbsentRow, Counted, Rows
<1>6. Uncounted(e) \subseteq Instances /\ Uncounted(e)' \subseteq Instances
  BY DEF Uncounted
<1>7. /\ Cardinality(Uncounted(e)) \in Nat /\ Cardinality(Uncounted(e)') \in Nat
      /\ Cardinality(Uncounted(e)') <= Cardinality(Uncounted(e))
  BY <1>6, UncountedSize
<1>8. copies'[e] >= copies[e]
  OBVIOUS
<1>9. copies'[e] >= Counted(outbox'[e]) + Cardinality(Uncounted(e)')
  BY <1>1, <1>3, <1>5, <1>7, <1>8
<1> QED
  BY <1>5, <1>9

(***************************************************************************)
(* Every step but a publication and a count is such a step.                *)
(***************************************************************************)
LEMMA UncountedFrame ==
  ASSUME TypeOK, TypeOK', [Next]_vars, \A i \in Instances : ~Counting(i) /\ ~Publish(i)
  PROVE  \A e \in Events : copies'[e] >= copies[e] /\ Uncounted(e)' \subseteq Uncounted(e)
<1> DEFINE Goal == \A e \in Events : copies'[e] >= copies[e] /\ Uncounted(e)' \subseteq Uncounted(e)
<1>1. \A e \in Events : copies[e] \in Nat
  BY DEF TypeOK
<1>2. ASSUME copies' = copies, relay' = relay PROVE Goal
  BY <1>1, <1>2 DEF Uncounted
<1>3. ASSUME NEW i \in Instances, NEW p \in PumpStates, relay' = [relay EXCEPT ![i] = p],
             p.at \notin {"mark", "record"}, \A e \in Events : copies'[e] >= copies[e]
      PROVE  Goal
  <2>1. relay'[i] = p /\ \A j \in Instances \ {i} : relay'[j] = relay[j]
    BY <1>3 DEF TypeOK
  <2> QED
    BY <1>3, <2>1 DEF Uncounted
<1>4. ASSUME NEW i \in Instances, Refuse(i) PROVE Goal
  <2>1. PICK e \in Events :
          /\ copies' = copies \/ copies' = [copies EXCEPT ![e] = @ + 1]
          /\ Answered(i, e, IF relay[i].at = "fresh" THEN "refused" ELSE "unsent")
    BY <1>4 DEF Refuse
  <2>2. PICK at \in {"refused", "unsent"} :
          at = IF relay[i].at = "fresh" THEN "refused" ELSE "unsent"
    OBVIOUS
  <2>3. Answered(i, e, at)
    BY <2>1, <2>2
  <2>4. relay[i] \in PumpStates
    BY DEF TypeOK, PumpStates
  <2>5. PICK p \in PumpStates :
          p = [relay[i] EXCEPT !.at = at, !.row = e, !.todo = relay[i].todo \ {e}]
    BY <2>4 DEF PumpStates
  <2>6. relay' = [relay EXCEPT ![i] = p] /\ p.at = at
    BY <2>3, <2>4, <2>5 DEF Answered, PumpStates
  <2>7. \A x \in Events : copies'[x] >= copies[x]
    BY <1>1, <2>1 DEF TypeOK
  <2> QED
    BY <1>3, <2>2, <2>6, <2>7
<1>5. ASSUME NEW i \in Instances,
             \/ flush_outbox(i) \/ record_failure(i) \/ resend_unacknowledged(i)
             \/ FlushDone(i) \/ Restart(i) \/ Crash(i)
             \/ \E c \in Commands : handle_delivery(i, c)
      PROVE  Goal
  <2>1. relay[i] \in PumpStates /\ relay'[i] \in PumpStates
    BY DEF TypeOK, PumpStates
  <2>2. relay'[i].at \notin {"mark", "record"}
    <3>1. ASSUME flush_outbox(i) PROVE relay'[i].at = "fresh"
      BY <2>1, <3>1 DEF flush_outbox, PumpStates, TypeOK
    <3>2. ASSUME record_failure(i) PROVE relay'[i].at \in {"stopped", "fresh"}
      BY <2>1, <3>2 DEF record_failure, Stopped, Starting, PumpStates, TypeOK
    <3>3. ASSUME resend_unacknowledged(i) PROVE relay'[i].at \in {"stopped", "resend"}
      <4>1. CASE relay' = [relay EXCEPT ![i] = Stopped]
        BY <4>1 DEF Stopped, Starting, TypeOK
      <4>2. ASSUME NEW S, relay' = [relay EXCEPT ![i] = [@ EXCEPT !.at = "resend", !.todo = S]]
            PROVE  relay'[i].at = "resend"
        <5>1. relay'[i] = [relay[i] EXCEPT !.at = "resend", !.todo = S]
          BY <4>2 DEF TypeOK
        <5> QED
          BY <2>1, <5>1 DEF PumpStates
      <4> QED
        BY <3>3, <4>1, <4>2 DEF resend_unacknowledged
    <3>4. ASSUME FlushDone(i) \/ Restart(i) \/ Crash(i) PROVE relay'[i].at \in {"idle", "start"}
      BY <3>4 DEF FlushDone, Restart, Crash, Starting, Waiting, TypeOK
    <3>5. ASSUME NEW c \in Commands, handle_delivery(i, c) PROVE relay'[i].at = "delivered"
      BY <3>5 DEF handle_delivery, Starting, Waiting, TypeOK
    <3> QED
      BY <1>5, <3>1, <3>2, <3>3, <3>4, <3>5
  <2>3. relay' = [relay EXCEPT ![i] = relay'[i]] /\ copies' = copies
    BY <1>5 DEF flush_outbox, record_failure, resend_unacknowledged, FlushDone, Restart,
                Crash, handle_delivery, TypeOK
  <2> QED
    BY <1>1, <1>3, <2>1, <2>2, <2>3
<1>6. ASSUME NEW e \in Events,
             \/ Append(e) \/ KnowledgeAnswers(e) \/ CopyDropped(e)
             \/ BackoffOver(e) \/ ResendDelayOver(e) \/ Purge(e)
      PROVE  Goal
  BY <1>2, <1>6 DEF Append, KnowledgeAnswers, CopyDropped, BackoffOver, ResendDelayOver, Purge
<1>7. ASSUME NEW answer \in answers, acknowledge(answer) PROVE Goal
  BY <1>2, <1>7 DEF acknowledge
<1> QED
  BY <1>2, <1>4, <1>5, <1>6, <1>7 DEF Next, vars, PumpStep, Counting

(***************************************************************************)
(* A publication stores a copy that its pump has yet to count.             *)
(***************************************************************************)
LEMMA CopyPublish ==
  ASSUME TypeOK, TypeOK', CopyInv, NEW i \in Instances, Publish(i)
  PROVE  CopyInv'
<1>1. PICK x \in Events :
        /\ copies' = [copies EXCEPT ![x] = @ + 1]
        /\ Answered(i, x, IF relay[i].at = "fresh" THEN "mark" ELSE "record")
  BY DEF Publish
<1>2. outbox' = outbox
  BY DEF Publish
<1>3. \A j \in Instances \ {i} : relay'[j] = relay[j]
  BY <1>1 DEF Answered, TypeOK
<1>4. relay'[i].row = x
  <2>1. PICK at \in {"mark", "record"} : at = IF relay[i].at = "fresh" THEN "mark" ELSE "record"
    OBVIOUS
  <2>2. Answered(i, x, at)
    BY <1>1, <2>1
  <2> QED
    BY <2>2 DEF Answered, TypeOK
<1>5. relay[i].at \notin {"mark", "record"}
  BY DEF Publish
<1> SUFFICES ASSUME NEW e \in Events
             PROVE  copies'[e] >= Counted(outbox[e]) + Cardinality(Uncounted(e)')
  BY <1>2 DEF CopyInv
<1>6. /\ copies[e] \in Nat /\ Counted(outbox[e]) \in Nat
      /\ copies[e] >= Counted(outbox[e]) + Cardinality(Uncounted(e))
  BY RelayBounds DEF TypeOK, CopyInv, Counted, Rows
<1>7. Uncounted(e) \subseteq Instances /\ Uncounted(e)' \subseteq Instances
  BY DEF Uncounted
<1>8. Cardinality(Uncounted(e)) \in Nat /\ Cardinality(Uncounted(e)') \in Nat
  BY <1>7, UncountedSize
<1>9. CASE e = x
  <2>1. Uncounted(e)' \subseteq Uncounted(e) \union {i}
    BY <1>3 DEF Uncounted
  <2>2. Cardinality(Uncounted(e)') <= Cardinality(Uncounted(e)) + 1
    BY <1>7, <2>1, UncountedSize
  <2>3. copies'[e] = copies[e] + 1
    BY <1>1, <1>9 DEF TypeOK
  <2> QED
    BY <1>6, <1>8, <2>2, <2>3
<1>10. CASE e # x
  <2>1. Uncounted(e)' \subseteq Uncounted(e)
    BY <1>3, <1>4, <1>10 DEF Uncounted
  <2>2. Cardinality(Uncounted(e)') <= Cardinality(Uncounted(e))
    BY <1>7, <2>1, UncountedSize
  <2>3. copies'[e] = copies[e]
    BY <1>1, <1>10 DEF TypeOK
  <2> QED
    BY <1>6, <1>8, <2>2, <2>3
<1> QED
  BY <1>9, <1>10

(***************************************************************************)
(* A pump counts the one copy it holds.                                    *)
(***************************************************************************)
LEMMA CopyCounted ==
  ASSUME TypeOK, TypeOK', PumpInv, CopyInv, NEW i \in Instances, Counting(i)
  PROVE  CopyInv'
<1>1. PICK x \in Events : x = relay[i].row
  BY DEF PumpInv, Counting, mark_published, record_resend
<1>2. /\ relay[i].at \in {"mark", "record"} /\ relay'[i].at \in {"fresh", "resend"}
      /\ \A j \in Instances \ {i} : relay'[j] = relay[j]
      /\ copies' = copies
      /\ \A e \in Events \ {x} : outbox'[e] = outbox[e]
  <2>1. CASE mark_published(i)
    BY <1>1, <2>1 DEF mark_published, TypeOK
  <2>2. CASE record_resend(i)
    BY <1>1, <2>2 DEF record_resend, TypeOK
  <2> QED
    BY <2>1, <2>2 DEF Counting
<1>3. \/ outbox'[x] = outbox[x]
      \/ outbox[x].state = "pending" /\ outbox'[x] = Marked(x, outbox[x])
      \/ outbox[x].state = "published" /\ outbox'[x] = Resent(outbox[x])
  BY <1>1 DEF Counting, mark_published, record_resend, AwaitsAnswer, TypeOK
<1> SUFFICES ASSUME NEW e \in Events
             PROVE  /\ copies[e] >= Counted(outbox'[e]) + Cardinality(Uncounted(e)')
                    /\ outbox'[e].state # "published" => outbox'[e].resend_count = 0
  BY <1>2 DEF CopyInv
<1>4. /\ copies[e] \in Nat /\ outbox[e] \in Rows /\ outbox[e].resend_count \in Nat
      /\ Counted(outbox[e]) \in Nat
      /\ copies[e] >= Counted(outbox[e]) + Cardinality(Uncounted(e))
      /\ outbox[e].state # "published" => outbox[e].resend_count = 0
  BY RelayBounds DEF TypeOK, CopyInv, Counted, Rows
<1>5. Uncounted(e) \subseteq Instances /\ Uncounted(e)' \subseteq Instances
  BY DEF Uncounted
<1>6. Cardinality(Uncounted(e)) \in Nat /\ Cardinality(Uncounted(e)') \in Nat
  BY <1>5, UncountedSize
<1>7. CASE e = x
  <2>1. i \in Uncounted(e) /\ Uncounted(e)' \subseteq Uncounted(e) \ {i}
    BY <1>1, <1>2, <1>7 DEF Uncounted
  <2>2. Cardinality(Uncounted(e)') + 1 <= Cardinality(Uncounted(e))
    BY <1>5, <2>1, UncountedSize
  <2>3. /\ Counted(outbox'[e]) \in Nat /\ Counted(outbox'[e]) <= Counted(outbox[e]) + 1
        /\ outbox'[e].state # "published" => outbox'[e].resend_count = 0
    <3>1. CASE outbox'[e] = outbox[e]
      BY <1>4, <3>1
    <3>2. CASE outbox[e].state = "pending" /\ outbox'[e] = Marked(e, outbox[e])
      <4>1. outbox'[e].state = "published" /\ outbox'[e].resend_count = 0
        BY <1>4, <3>2 DEF Marked, Rows
      <4> QED
        BY <3>2, <4>1 DEF Counted
    <3>3. CASE outbox[e].state = "published" /\ outbox'[e] = Resent(outbox[e])
      <4>1. /\ outbox'[e].state = "published"
            /\ outbox'[e].resend_count = outbox[e].resend_count + 1
        BY <1>4, <3>3 DEF Resent, Rows
      <4> QED
        BY <1>4, <3>3, <4>1 DEF Counted
    <3> QED
      BY <1>3, <1>7, <3>1, <3>2, <3>3
  <2> QED
    BY <1>4, <1>6, <2>2, <2>3
<1>8. CASE e # x
  <2>1. Uncounted(e)' \subseteq Uncounted(e) /\ outbox'[e] = outbox[e]
    BY <1>2, <1>8 DEF Uncounted
  <2>2. Cardinality(Uncounted(e)') <= Cardinality(Uncounted(e))
    BY <1>5, <2>1, UncountedSize
  <2> QED
    BY <1>4, <1>6, <2>1, <2>2
<1> QED
  BY <1>7, <1>8

(***************************************************************************)
(* CountedCopiesWereTaken: in every behaviour a published row has as many  *)
(* copies at the broker as it counts (mark_published and record_resend     *)
(* each count a PubAck of their own pump, however many pumps there are).   *)
(***************************************************************************)
THEOREM CopiesAreReal == Spec => []CountedCopiesWereTaken
<1>1. Init => CopyInv
  <2> SUFFICES ASSUME Init, NEW e \in Events
               PROVE  /\ copies[e] >= Counted(outbox[e]) + Cardinality(Uncounted(e))
                      /\ outbox[e].state # "published" => outbox[e].resend_count = 0
    BY DEF CopyInv
  <2>1. Uncounted(e) = {}
    BY DEF Init, Uncounted, Starting
  <2>2. Cardinality(Uncounted(e)) = 0
    BY <2>1, FS_EmptySet
  <2> QED
    BY <2>2 DEF Init, AbsentRow, Counted
<1>2. /\ TypeOK /\ PumpInv /\ CopyInv /\ [Next]_vars /\ (TypeOK /\ PumpInv)'
      => CopyInv'
  <2> SUFFICES ASSUME TypeOK, PumpInv, CopyInv, [Next]_vars, TypeOK'
               PROVE  CopyInv'
    OBVIOUS
  <2>1. CASE \E i \in Instances : Counting(i)
    BY <2>1, CopyCounted
  <2>2. CASE \E i \in Instances : Publish(i)
    BY <2>2, CopyPublish
  <2>3. CASE \A i \in Instances : ~Counting(i) /\ ~Publish(i)
    BY <2>3, UncountedFrame, CopyFrame
  <2> QED
    BY <2>1, <2>2, <2>3
<1>3. TypeOK /\ CopyInv => CountedCopiesWereTaken
  <2> SUFFICES ASSUME TypeOK, CopyInv, NEW e \in Events, outbox[e].state = "published"
               PROVE  copies[e] >= outbox[e].resend_count + 1
    BY DEF CountedCopiesWereTaken
  <2>1. Cardinality(Uncounted(e)) \in Nat
    <3>1. Uncounted(e) \subseteq Instances
      BY DEF Uncounted
    <3> QED
      BY <3>1, UncountedSize
  <2>2. copies[e] >= outbox[e].resend_count + 1 + Cardinality(Uncounted(e))
    BY DEF CopyInv, Counted
  <2> QED
    BY <2>1, <2>2, RelayBounds DEF TypeOK, Rows
<1> QED
  BY <1>1, <1>2, <1>3, RelayTypeCorrect, PTL DEF Spec
=============================================================================
