----------------------- MODULE CaptureLifecycleProofs -----------------------
(***************************************************************************)
(* Proofs about CaptureLifecycle, for any number of commands, keys and     *)
(* instances and any policy.                                               *)
(***************************************************************************)
EXTENDS CaptureLifecycle, TLAPS

(***************************************************************************)
(* Most leaves are first-order; those that need records or arithmetic name *)
(* SMT.                                                                    *)
(***************************************************************************)
USE Zenon

USE DEF ownerVars

(***************************************************************************)
(* What a worker carries from one of its steps to the next: a command      *)
(* while it handles one, a claimed row with attempts left while it fetches *)
(* and counts, an outcome while it reports.                                *)
(***************************************************************************)
WorkerInv ==
    \A i \in Instances :
        /\ bus[i].at \in {"received", "committed"} => bus[i].command \in Commands
        /\ pass[i].at \in {"attempt", "count"} =>
              pass[i].row \in DueRows /\ pass[i].row.attempts < MaxAttempts
        /\ pass[i].at = "report" =>
              pass[i].row \in DueRows /\ pass[i].terminal \in TerminalKinds

(***************************************************************************)
(* The states of a resolver pass, as TypeOK has them.                      *)
(***************************************************************************)
PassStates ==
    [at : {"idle", "attempt", "count", "report", "stopped"},
     todo : SUBSET DueRows, row : DueRows \union {NoRow},
     terminal : TerminalKinds \union {"none"}]

(***************************************************************************)
(* The absent row and the inserted one are rows of the captures table.     *)
(***************************************************************************)
LEMMA NoCaptureType == NoCapture \in CaptureRows /\ AcceptedCapture \in CaptureRows
<1>1. 0 \in 0..MaxAttempts
  BY PolicyAssumption, SMT
<1> QED
  BY <1>1 DEF NoCapture, AcceptedCapture, CaptureRows, Statuses, Unavailability

(***************************************************************************)
(* Every update of a capture row yields a row.                             *)
(***************************************************************************)
LEMMA RowUpdates ==
  ASSUME NEW row \in CaptureRows
  PROVE  /\ Lease(row) \in CaptureRows
         /\ Resolve(row) \in CaptureRows
         /\ \A a \in Unavailability : Bury(row, a) \in CaptureRows
         /\ \A n \in 0..MaxAttempts : Reschedule(row, n) \in CaptureRows
         /\ MarkReported(row) \in CaptureRows
         /\ Expire(row) \in CaptureRows
<1>1. Lease(row) \in CaptureRows
  BY DEF Lease, CaptureRows
<1>2. Resolve(row) \in CaptureRows
  BY DEF Resolve, CaptureRows, Statuses
<1>3. ASSUME NEW a \in Unavailability PROVE Bury(row, a) \in CaptureRows
  BY DEF Bury, CaptureRows, Statuses
<1>4. ASSUME NEW n \in 0..MaxAttempts PROVE Reschedule(row, n) \in CaptureRows
  BY DEF Reschedule, CaptureRows
<1>5. MarkReported(row) \in CaptureRows
  BY DEF MarkReported, CaptureRows
<1>6. Expire(row) \in CaptureRows
  BY DEF Expire, CaptureRows
<1> QED
  BY <1>1, <1>2, <1>3, <1>4, <1>5, <1>6

(***************************************************************************)
(* append_report files a well-formed row under a fresh event id.           *)
(***************************************************************************)
LEMMA AppendType ==
  ASSUME TypeOK, NEW c \in Commands, NEW a \in Commands \union {"operation"},
         NEW k \in TerminalKinds \union {"queued"}, append_report(c, a, k)
  PROVE  reports' \in SUBSET Reports /\ nextEvent' \in Nat
  BY SMT DEF TypeOK, append_report, Reports

(***************************************************************************)
(* The service starts well-typed.                                          *)
(***************************************************************************)
LEMMA TypeInit == Init => TypeOK /\ WorkerInv
<1> SUFFICES ASSUME Init PROVE TypeOK /\ WorkerInv
  OBVIOUS
<1>1. TypeOK
  BY NoCaptureType DEF Init, TypeOK, IdleBus, IdlePass
<1>2. WorkerInv
  BY DEF Init, WorkerInv, IdleBus, IdlePass
<1> QED
  BY <1>1, <1>2

(***************************************************************************)
(* A consumer that has committed still holds its command.                  *)
(***************************************************************************)
LEMMA CommittedType ==
  ASSUME TypeOK, WorkerInv, NEW i \in Instances, bus[i].at = "received", Committed(i)
  PROVE  /\ bus' \in [Instances -> [at : {"idle", "received", "committed", "stopped"},
                                    command : Commands \union {"none"}]]
         /\ \A j \in Instances : bus'[j].at \in {"received", "committed"} =>
                                     bus'[j].command \in Commands
<1>1. bus[i].command \in Commands
  BY DEF WorkerInv
<1>2. bus'[i] = [at |-> "committed", command |-> bus[i].command]
  BY DEF Committed, TypeOK
<1>3. \A j \in Instances \ {i} : bus'[j] = bus[j]
  BY DEF Committed, TypeOK
<1>4. bus' \in [Instances -> [at : {"idle", "received", "committed", "stopped"},
                             command : Commands \union {"none"}]]
  BY SMT DEF Committed, TypeOK
<1> QED
  BY <1>1, <1>2, <1>3, <1>4, SMT DEF WorkerInv

(***************************************************************************)
(* The command consumer's steps keep the state well-typed.                 *)
(***************************************************************************)
LEMMA TypeBusStep ==
  ASSUME TypeOK, WorkerInv, NEW i \in Instances, BusStep(i)
  PROVE  TypeOK' /\ WorkerInv'
<1> USE DEF Unavailability
<1>1. CASE Receive(i)
  BY <1>1, SMT DEF Receive, TypeOK, WorkerInv
<1>2. CASE Redelivered(i)
  BY <1>2, CommittedType DEF Redelivered, TypeOK, WorkerInv
<1>3. CASE deliver(i)
  <2>1. PICK c \in Commands : c = bus[i].command
    BY <1>3 DEF deliver, WorkerInv
  <2>2. reports' \in SUBSET Reports /\ nextEvent' \in Nat
    BY <1>3, <2>1, AppendType DEF deliver, QueueReport, SameKey
  <2>3. captures' \in [Commands -> CaptureRows]
    BY <1>3, <2>1, NoCaptureType DEF deliver, TypeOK
  <2>4. /\ inbox' \in [Commands -> {"none", "processed", "rejected"}]
        /\ UNCHANGED <<broker, ownerVars, pass, faults>>
    BY <1>3, <2>1 DEF deliver, TypeOK
  <2>5. bus[i].at = "received" /\ Committed(i)
    BY <1>3 DEF deliver
  <2> QED
    BY <2>2, <2>3, <2>4, <2>5, CommittedType DEF TypeOK, WorkerInv
<1>4. CASE reject(i)
  <2>1. PICK c \in Commands : c = bus[i].command
    BY <1>4 DEF reject, WorkerInv
  <2>2. reports' \in SUBSET Reports /\ nextEvent' \in Nat
    BY <1>4, <2>1, AppendType DEF reject, TerminalKinds
  <2>3. /\ inbox' \in [Commands -> {"none", "processed", "rejected"}]
        /\ UNCHANGED <<broker, captures, ownerVars, pass, faults>>
    BY <1>4, <2>1 DEF reject, TypeOK
  <2>4. bus[i].at = "received" /\ Committed(i)
    BY <1>4 DEF reject
  <2> QED
    BY <2>2, <2>3, <2>4, CommittedType DEF TypeOK, WorkerInv
<1>5. CASE Terminate(i)
  BY <1>5 DEF Terminate, Settle, IdleBus, TypeOK, WorkerInv
<1>6. CASE Acknowledge(i)
  BY <1>6 DEF Acknowledge, Settle, IdleBus, TypeOK, WorkerInv
<1> QED
  BY <1>1, <1>2, <1>3, <1>4, <1>5, <1>6 DEF BusStep

(***************************************************************************)
(* A claimed row is one the resolver may work on.                          *)
(***************************************************************************)
LEMMA SnapshotType ==
  ASSUME TypeOK, NEW c \in Commands, Live(c)
  PROVE  Snapshot(c) \in DueRows
  BY SMT DEF TypeOK, Live, Snapshot, DueRows, CaptureRows, Statuses

(***************************************************************************)
(* A pass that goes on to its next row is well-typed.                      *)
(***************************************************************************)
LEMMA PassMovesOn ==
  ASSUME TypeOK, WorkerInv, NEW i \in Instances,
         pass' = [pass EXCEPT ![i] = [IdlePass EXCEPT !.todo = pass[i].todo]]
  PROVE  /\ pass' \in [Instances -> PassStates]
         /\ \A j \in Instances : j # i => pass'[j] = pass[j]
         /\ pass'[i].at = "idle"
  BY DEF TypeOK, IdlePass, PassStates

(***************************************************************************)
(* A pass that goes on to report an outcome keeps its row.                 *)
(***************************************************************************)
LEMMA ReportNextType ==
  ASSUME TypeOK, NEW i \in Instances, NEW t \in TerminalKinds, ReportNext(i, t)
  PROVE  /\ pass' \in [Instances -> PassStates]
         /\ \A j \in Instances : j # i => pass'[j] = pass[j]
         /\ pass'[i].at = "report" /\ pass'[i].row = pass[i].row
         /\ pass'[i].terminal = t
<1>1. pass \in [Instances -> PassStates]
  BY DEF TypeOK, PassStates
<1>2. pass'[i] = [at |-> "report", todo |-> pass[i].todo, row |-> pass[i].row, terminal |-> t]
  BY <1>1 DEF ReportNext, PassStates
<1>3. \A j \in Instances : j # i => pass'[j] = pass[j]
  BY <1>1 DEF ReportNext
<1>4. pass' = [j \in Instances |-> pass'[j]]
  BY <1>1 DEF ReportNext
<1>5. pass[i] \in PassStates
  BY <1>1
<1>6. pass'[i] \in PassStates
  BY <1>2, <1>5, SMT DEF PassStates
<1>7. pass' \in [Instances -> PassStates]
  BY <1>1, <1>3, <1>4, <1>6
<1> QED
  BY <1>2, <1>3, <1>7, SMT

(***************************************************************************)
(* Publishing adds the capture's own source.                               *)
(***************************************************************************)
LEMMA LibraryGrows ==
  ASSUME TypeOK, NEW c \in Commands, append_fact(c)
  PROVE  library' \in SUBSET {HoldingOf[x] : x \in Commands}
  BY DEF TypeOK, append_fact

(***************************************************************************)
(* The resolver's steps keep the state well-typed; an attempt that is      *)
(* counted never passes MaxAttempts.                                       *)
(***************************************************************************)
LEMMA TypeResolverStep ==
  ASSUME TypeOK, WorkerInv, NEW i \in Instances, ResolverStep(i)
  PROVE  TypeOK' /\ WorkerInv'
<1> USE DEF PassStates
<1>1. CASE claim(i)
  <2>1. PICK S \in SUBSET {c \in Commands : Claimable(c)} :
           /\ pass' = [pass EXCEPT ![i].todo = {Snapshot(c) : c \in S}]
           /\ captures' = [c \in Commands |->
                             IF c \in S THEN Lease(captures[c]) ELSE captures[c]]
    BY <1>1 DEF claim
  <2>2. {Snapshot(c) : c \in S} \in SUBSET DueRows
    BY <2>1, SnapshotType DEF Claimable, Free
  <2>3. captures' \in [Commands -> CaptureRows]
    BY <2>1, RowUpdates DEF TypeOK
  <2>0. pass \in [Instances -> PassStates]
    BY DEF TypeOK
  <2>4. pass' \in [Instances -> PassStates]
    BY ONLY <2>0, <2>1, <2>2, SMT DEF PassStates
  <2>5. \A j \in Instances : /\ pass'[j].at = pass[j].at /\ pass'[j].row = pass[j].row
                             /\ pass'[j].terminal = pass[j].terminal
    BY ONLY <2>0, <2>1, SMT DEF PassStates
  <2>6. TypeOK'
    BY <1>1, <2>3, <2>4 DEF claim, TypeOK
  <2>7. WorkerInv'
    BY <1>1, <2>5 DEF claim, WorkerInv
  <2> QED
    BY <2>6, <2>7
<1>2. CASE process(i)
  <2>1. PICK row \in pass[i].todo :
           pass' = [pass EXCEPT ![i] =
                     [at |-> IF recorded_terminal(row) = "none" THEN "attempt" ELSE "report",
                      todo |-> pass[i].todo \ {row},
                      row |-> row,
                      terminal |-> recorded_terminal(row)]]
    BY <1>2 DEF process
  <2>2. row \in DueRows
    BY <2>1 DEF TypeOK
  <2>3. recorded_terminal(row) \in TerminalKinds \union {"none"}
    BY <2>2 DEF recorded_terminal, TerminalKinds, Unavailability
  <2>4. recorded_terminal(row) = "none" => row.attempts < MaxAttempts
    BY <2>2, PolicyAssumption, SMT DEF recorded_terminal, DueRows
  <2>5. pass' \in [Instances -> PassStates]
    BY <2>1, <2>2, <2>3 DEF TypeOK
  <2>6. TypeOK'
    BY <1>2, <2>5 DEF process, TypeOK
  <2>7. WorkerInv'
    BY <1>2, <2>1, <2>2, <2>3, <2>4 DEF process, TypeOK, WorkerInv
  <2> QED
    BY <2>6, <2>7
<1>3. CASE RecordResolved(i)
  <2>1. pass[i].row.capture \in Commands
    BY <1>3 DEF RecordResolved, WorkerInv, DueRows
  <2>2. captures' \in [Commands -> CaptureRows]
    BY <1>3, <2>1, RowUpdates DEF RecordResolved, TypeOK
  <2>3. library' \in SUBSET {HoldingOf[c] : c \in Commands}
    BY <1>3, <2>1, LibraryGrows DEF RecordResolved
  <2>4. UNCHANGED <<broker, inbox, reports, nextEvent, deletions, erasing, removals, bus, faults>>
    BY <1>3 DEF RecordResolved
  <2>5. /\ pass' \in [Instances -> PassStates]
        /\ \A j \in Instances : j # i => pass'[j] = pass[j]
        /\ pass'[i].at = "report" /\ pass'[i].row = pass[i].row
        /\ pass'[i].terminal \in TerminalKinds
    BY <1>3, ReportNextType DEF RecordResolved, TerminalKinds
  <2>6. TypeOK'
    BY <2>2, <2>3, <2>4, <2>5 DEF TypeOK
  <2>7. pass[i].at = "attempt"
    BY <1>3 DEF RecordResolved
  <2>8. WorkerInv'
    BY <2>4, <2>5, <2>7 DEF WorkerInv
  <2> QED
    BY <2>6, <2>8
<1>4. CASE mark_unavailable(i)
  <2>1. pass[i].row.capture \in Commands
    BY <1>4 DEF mark_unavailable, WorkerInv, DueRows
  <2>2. PICK a \in Unavailability :
           /\ captures' = [captures EXCEPT ![pass[i].row.capture] = Bury(@, a)]
           /\ ReportNext(i, a)
    BY <1>4 DEF mark_unavailable
  <2>3. captures' \in [Commands -> CaptureRows]
    BY <2>1, <2>2, RowUpdates DEF TypeOK
  <2>4. /\ pass' \in [Instances -> PassStates]
        /\ \A j \in Instances : j # i => pass'[j] = pass[j]
        /\ pass'[i].at = "report" /\ pass'[i].row = pass[i].row
        /\ pass'[i].terminal \in TerminalKinds
    BY <2>2, ReportNextType DEF TerminalKinds
  <2>5. /\ UNCHANGED <<broker, inbox, reports, nextEvent, deletions, erasing, removals, bus, faults>>
        /\ library' \in SUBSET {HoldingOf[c] : c \in Commands}
    BY <1>4, <2>1, LibraryGrows DEF mark_unavailable, TypeOK
  <2>6. TypeOK'
    BY <2>3, <2>4, <2>5 DEF TypeOK
  <2>7. pass[i].at = "attempt"
    BY <1>4 DEF mark_unavailable
  <2>8. WorkerInv'
    BY <2>4, <2>5, <2>7 DEF WorkerInv
  <2> QED
    BY <2>6, <2>8
<1>5. CASE ObserveResolverFailed(i)
  <2>1. /\ pass' = [pass EXCEPT ![i].at = "count"] /\ pass[i].at = "attempt"
        /\ UNCHANGED <<broker, inbox, captures, reports, nextEvent, ownerVars, bus, faults>>
    BY <1>5 DEF ObserveResolverFailed
  <2>2. pass \in [Instances -> PassStates]
    BY DEF TypeOK, PassStates
  <2>3. pass' \in [Instances -> PassStates]
    BY <2>1, <2>2 DEF PassStates
  <2>4. TypeOK'
    BY <2>1, <2>3 DEF TypeOK, PassStates
  <2>5. /\ pass'[i].at = "count" /\ pass'[i].row = pass[i].row
        /\ \A j \in Instances : j # i => pass'[j] = pass[j]
    BY <2>1, <2>2 DEF PassStates
  <2>6. WorkerInv'
    BY <2>1, <2>5 DEF WorkerInv
  <2> QED
    BY <2>4, <2>6
<1>6. CASE record_transient_failure(i)
  <2> DEFINE row == pass[i].row
             attempts == CountedAttempts(row)
  <2>1. row \in DueRows /\ row.attempts < MaxAttempts
    BY <1>6 DEF record_transient_failure, WorkerInv
  <2>2. attempts \in 0..MaxAttempts
    BY <2>1, PolicyAssumption, SMT DEF CountedAttempts, DueRows
  <2>3. captures' \in [Commands -> CaptureRows]
    BY <1>6, <2>1, <2>2, RowUpdates DEF record_transient_failure, TypeOK, DueRows
  <2>4. CASE ReportNext(i, "transient")
    <3>1. /\ pass' \in [Instances -> PassStates]
          /\ \A j \in Instances : j # i => pass'[j] = pass[j]
          /\ pass'[i].at = "report" /\ pass'[i].row = pass[i].row
          /\ pass'[i].terminal \in TerminalKinds
      BY <2>4, ReportNextType DEF TerminalKinds
    <3> QED
      BY <1>6, <2>1, <2>3, <3>1 DEF record_transient_failure, TypeOK, WorkerInv
  <2>5. CASE pass' = [pass EXCEPT ![i] = [IdlePass EXCEPT !.todo = pass[i].todo]]
    <3>1. /\ pass' \in [Instances -> PassStates]
          /\ \A j \in Instances : j # i => pass'[j] = pass[j]
          /\ pass'[i].at = "idle"
      BY <2>5, PassMovesOn
    <3>2. UNCHANGED <<broker, inbox, reports, nextEvent, ownerVars, bus, faults>>
      BY <1>6 DEF record_transient_failure
    <3>3. TypeOK'
      BY <2>3, <3>1, <3>2 DEF TypeOK, PassStates
    <3>4. WorkerInv'
      BY <3>1, <3>2 DEF WorkerInv
    <3> QED
      BY <3>3, <3>4
  <2> QED
    BY <1>6, <2>4, <2>5 DEF record_transient_failure
<1>7. CASE report(i)
  <2> DEFINE c == pass[i].row.capture
  <2>1. c \in Commands /\ pass[i].terminal \in TerminalKinds
    BY <1>7 DEF report, WorkerInv, DueRows
  <2>2. captures' \in [Commands -> CaptureRows]
    BY <1>7, <2>1, RowUpdates, SMT DEF report, TypeOK
  <2>3. ReportKind(c, pass[i].terminal) \in TerminalKinds
    BY <2>1 DEF ReportKind, TerminalKinds, Unavailability
  <2>4. reports' \in SUBSET Reports /\ nextEvent' \in Nat
    BY <1>7, <2>1, <2>3, AppendType DEF report, TypeOK
  <2>5. pass' = [pass EXCEPT ![i] = [IdlePass EXCEPT !.todo = pass[i].todo]]
    BY <1>7 DEF report
  <2> QED
    BY <1>7, <2>2, <2>4, <2>5, PassMovesOn DEF report, TypeOK, WorkerInv
<1>8. CASE CaptureVanished(i)
  BY <1>8 DEF CaptureVanished, PassStops, IdlePass, TypeOK, WorkerInv
<1> QED
  BY <1>1, <1>2, <1>3, <1>4, <1>5, <1>6, <1>7, <1>8 DEF ResolverStep

(***************************************************************************)
(* Faults, restarts, time and deletions keep the state well-typed.         *)
(***************************************************************************)
LEMMA TypeOtherStep ==
  ASSUME TypeOK, WorkerInv,
         \/ \E i \in Instances : Restart(i) \/ FaultStep(i)
         \/ \E c \in Commands :
               TimePasses(c) \/ CountHoldings(c) \/ DeleteCapture(c) \/ DeletionFails(c)
  PROVE  TypeOK' /\ WorkerInv'
<1>1. ASSUME NEW i \in Instances, Restart(i) \/ Crash(i)
      PROVE  TypeOK' /\ WorkerInv'
  <2>1. /\ bus' = [bus EXCEPT ![i] = IdleBus]
        /\ pass' = [pass EXCEPT ![i] = IdlePass]
        /\ UNCHANGED <<broker, inbox, captures, reports, nextEvent, ownerVars>>
        /\ faults' = faults \/ faults' = faults + 1
    BY <1>1 DEF Restart, Crash, Reset, Fault
  <2>2. IdlePass \in PassStates /\ IdlePass.at = "idle"
    BY DEF IdlePass, PassStates
  <2>3. pass' \in [Instances -> PassStates]
    BY <2>1, <2>2 DEF TypeOK, PassStates
  <2>4. TypeOK'
    BY <2>1, <2>3, SMT DEF IdleBus, TypeOK, PassStates
  <2>5. WorkerInv'
    BY <2>1, <2>2 DEF IdleBus, TypeOK, WorkerInv
  <2> QED
    BY <2>4, <2>5
<1>2. ASSUME NEW i \in Instances, Unsettled(i) \/ BusStops(i)
      PROVE  TypeOK' /\ WorkerInv'
  <2>1. PICK at \in {"idle", "stopped"} :
          bus' = [bus EXCEPT ![i] = [at |-> at, command |-> "none"]]
    BY <1>2 DEF Unsettled, BusStops, IdleBus
  <2>2. /\ UNCHANGED <<broker, inbox, captures, reports, nextEvent, ownerVars, pass>>
        /\ faults' \in Nat
    BY <1>2, SMT DEF Unsettled, BusStops, Fault, TypeOK
  <2>3. TypeOK'
    BY <2>1, <2>2 DEF TypeOK
  <2>4. WorkerInv'
    BY <2>1, <2>2 DEF TypeOK, WorkerInv
  <2> QED
    BY <2>3, <2>4
<1>3. ASSUME NEW i \in Instances, LocalFault(i)
      PROVE  TypeOK' /\ WorkerInv'
  BY <1>3, SMT DEF LocalFault, PassStops, Fault, IdlePass, TypeOK, WorkerInv
<1>4. ASSUME NEW c \in Commands, TimePasses(c)
      PROVE  TypeOK' /\ WorkerInv'
  BY <1>4, RowUpdates DEF TimePasses, TypeOK, WorkerInv
<1>5. ASSUME NEW c \in Commands, DeleteCapture(c)
      PROVE  TypeOK' /\ WorkerInv'
  <2>1. /\ captures' \in [Commands -> CaptureRows]
        /\ erasing' \in [Commands -> {"none", "shared", "final"}]
        /\ deletions' \in SUBSET Commands
    BY <1>5, NoCaptureType DEF DeleteCapture, TypeOK
  <2>2. /\ reports' \in SUBSET Reports
        /\ library' \in SUBSET {HoldingOf[x] : x \in Commands}
        /\ removals' \in SUBSET {HoldingOf[x] : x \in Commands}
    BY <1>5 DEF DeleteCapture, RemovedSource, TypeOK
  <2>3. UNCHANGED <<broker, inbox, nextEvent, bus, pass, faults>>
    BY <1>5 DEF DeleteCapture
  <2> QED
    BY <2>1, <2>2, <2>3 DEF TypeOK, WorkerInv
<1>6. ASSUME NEW c \in Commands, CountHoldings(c) \/ DeletionFails(c)
      PROVE  TypeOK' /\ WorkerInv'
  <2>1. erasing' \in [Commands -> {"none", "shared", "final"}]
    BY <1>6 DEF CountHoldings, DeletionFails, TypeOK
  <2>2. faults' \in Nat
    BY <1>6, SMT DEF CountHoldings, DeletionFails, Fault, TypeOK
  <2>3. UNCHANGED <<broker, inbox, captures, reports, nextEvent, deletions, library, removals,
                   bus, pass>>
    BY <1>6 DEF CountHoldings, DeletionFails
  <2> QED
    BY <2>1, <2>2, <2>3 DEF TypeOK, WorkerInv
<1> QED
  BY <1>1, <1>2, <1>3, <1>4, <1>5, <1>6 DEF FaultStep

(***************************************************************************)
(* Every reachable state is well-typed, whatever the schedule, the faults  *)
(* and the number of instances: in particular resolution_attempts never    *)
(* passes max_attempts.                                                    *)
(***************************************************************************)
THEOREM TypeCorrect == Spec => [](TypeOK /\ WorkerInv)
<1>1. TypeOK /\ WorkerInv /\ [Next]_vars => TypeOK' /\ WorkerInv'
  <2> SUFFICES ASSUME TypeOK, WorkerInv, [Next]_vars PROVE TypeOK' /\ WorkerInv'
    OBVIOUS
  <2>1. CASE Next
    BY <2>1, TypeBusStep, TypeResolverStep, TypeOtherStep DEF Next
  <2>2. CASE UNCHANGED vars
    BY <2>2 DEF vars, TypeOK, WorkerInv
  <2> QED
    BY <2>1, <2>2
<1> QED
  BY <1>1, TypeInit, PTL DEF Spec

-----------------------------------------------------------------------------
(***************************************************************************)
(* The books: how the inbox, the captures and the report rows account for  *)
(* each other.  AtMostOneTerminalReport is not inductive alone: a new row  *)
(* is the first of its operation because an unreported capture has no      *)
(* terminal row (GuardedRows) and a command without a marker has no row at *)
(* all (MarkedRows).                                                       *)
(***************************************************************************)
FreshIds == \A r \in reports : r.id < nextEvent

MarkedRows == \A r \in reports : inbox[r.operation] # "none"

MarkedCaptures == \A c \in Commands : Live(c) => inbox[c] = "processed"

GuardedRows ==
    \A r \in reports : r.kind # "queued" /\ Live(r.operation) => Reported(r.operation)

ReportedRows ==
    \A c \in Commands : Live(c) /\ Reported(c) =>
        \E r \in reports : r.operation = c /\ r.kind # "queued"

FiledRows ==
    \A r \in reports :
        /\ r.kind = "queued" =>
              r.aggregate \in Commands /\ KeyOf[r.aggregate] = KeyOf[r.operation]
        /\ r.kind # "queued" /\ inbox[r.operation] = "processed" =>
              r.aggregate = r.operation
        /\ inbox[r.operation] = "rejected" =>
              r.aggregate = "operation" /\ r.kind = "inaccessible"

Answered ==
    \A c \in Commands :
        /\ inbox[c] = "rejected" => \E r \in reports : r.operation = c
        /\ inbox[c] = "processed" =>
              \/ \E r \in reports : r.operation = c /\ r.kind = "queued"
              \/ \E d \in deletions : KeyOf[d] = KeyOf[c]

Books ==
    /\ FreshIds /\ MarkedRows /\ MarkedCaptures /\ GuardedRows /\ ReportedRows
    /\ FiledRows /\ Answered /\ AtMostOneTerminalReport /\ OneCapturePerKey
    /\ UnreportedStaysScheduled

(***************************************************************************)
(* A step that leaves the rows and the markers alone, and neither adds nor *)
(* removes a capture, marks none as reported and unschedules none, keeps   *)
(* the books.                                                              *)
(***************************************************************************)
LEMMA BooksFrame ==
  ASSUME Books, UNCHANGED <<inbox, reports, nextEvent, deletions>>,
         \A c \in Commands :
            /\ Live(c)' <=> Live(c)
            /\ Reported(c)' <=> Reported(c)
            /\ captures[c].next # "never" => captures'[c].next # "never",
         reports \in SUBSET Reports
  PROVE  Books'
<1> USE DEF Books
<1>1. FreshIds' /\ MarkedRows' /\ MarkedCaptures'
  BY DEF FreshIds, MarkedRows, MarkedCaptures
<1>2. GuardedRows' /\ ReportedRows'
  BY DEF GuardedRows, ReportedRows, Reports
<1>3. FiledRows' /\ Answered' /\ AtMostOneTerminalReport'
  BY DEF FiledRows, Answered, AtMostOneTerminalReport
<1>4. OneCapturePerKey' /\ UnreportedStaysScheduled'
  BY DEF OneCapturePerKey, UnreportedStaysScheduled, Unreported
<1> QED
  BY <1>1, <1>2, <1>3, <1>4

(***************************************************************************)
(* deliver keeps the books: the row it inserts is the first of its key,    *)
(* and the queued report is the first of its operation.                    *)
(***************************************************************************)
LEMMA BooksDeliver ==
  ASSUME TypeOK, WorkerInv, Books, NEW i \in Instances, deliver(i)
  PROVE  Books'
<1> DEFINE c == bus[i].command
<1> USE DEF Books
<1>1. c \in Commands /\ inbox[c] = "none" /\ ~Live(c)
  BY DEF deliver, WorkerInv, FirstDelivery, MarkedCaptures
<1>2. PICK d \in Commands :
         /\ KeyOf[d] = KeyOf[c]
         /\ append_report(c, d, "queued")
         /\ \/ SameKey(c) = {} /\ captures' = [captures EXCEPT ![c] = AcceptedCapture]
            \/ captures' = captures
  BY <1>1 DEF deliver, QueueReport, SameKey
<1> DEFINE new == [id |-> nextEvent, operation |-> c, aggregate |-> d, kind |-> "queued"]
<1>3. /\ reports' = reports \union {new} /\ nextEvent' = nextEvent + 1
      /\ inbox' = [inbox EXCEPT ![c] = "processed"] /\ deletions' = deletions
  BY <1>2 DEF append_report, deliver
<1>4. /\ \A x \in Commands : x # c => captures'[x] = captures[x] /\ inbox'[x] = inbox[x]
      /\ inbox'[c] = "processed"
      /\ captures'[c] = captures[c] \/ captures'[c] = AcceptedCapture
  BY <1>1, <1>2, <1>3 DEF TypeOK
<1>5. AcceptedCapture.status = "accepted" /\ AcceptedCapture.next = "due"
      /\ AcceptedCapture.reported_at = "null"
  BY DEF AcceptedCapture, NoCapture
<1>6. \A r \in reports : r.operation \in Commands /\ r.operation # c
  BY <1>1 DEF TypeOK, Reports, MarkedRows
<1>7. FreshIds'
  BY <1>3, SMT DEF FreshIds, TypeOK, Reports
<1>8. MarkedRows' /\ MarkedCaptures'
  BY <1>3, <1>4, <1>6, SMT DEF MarkedRows, MarkedCaptures, Live
<1>9. GuardedRows' /\ AtMostOneTerminalReport'
  BY <1>3, <1>4, <1>6, SMT DEF GuardedRows, AtMostOneTerminalReport, Live, Reported
<1>10. ReportedRows'
  BY <1>1, <1>3, <1>4, <1>5, SMT DEF ReportedRows, Live, Reported
<1>11. FiledRows' /\ Answered'
  <2>1. new \in reports' /\ new.operation = c /\ new.kind = "queued" /\ new.aggregate = d
    BY <1>3
  <2>2. FiledRows'
    BY <1>2, <1>3, <1>4, <1>6, <2>1, SMT DEF FiledRows
  <2>3. Answered'
    <3>1. ASSUME NEW x \in Commands, x # c
          PROVE  /\ inbox'[x] = "rejected" => \E r \in reports' : r.operation = x
                 /\ inbox'[x] = "processed" =>
                      \/ \E r \in reports' : r.operation = x /\ r.kind = "queued"
                      \/ \E e \in deletions' : KeyOf[e] = KeyOf[x]
      <4>1. inbox'[x] = inbox[x] /\ reports \subseteq reports' /\ deletions' = deletions
        BY <1>3, <1>4, <3>1
      <4> QED
        BY <4>1 DEF Answered
    <3> HIDE DEF new
    <3> QED
      BY <1>4, <2>1, <3>1 DEF Answered
  <2> QED
    BY <2>2, <2>3
<1>12. OneCapturePerKey'
  <2>1. CASE captures' = captures
    BY <2>1 DEF OneCapturePerKey, Live
  <2>2. CASE SameKey(c) = {}
    <3>1. \A x \in Commands : Live(x) => KeyOf[x] # KeyOf[c]
      BY <2>2 DEF SameKey
    <3>2. \A x \in Commands : x # c => (Live(x)' <=> Live(x))
      BY <1>4 DEF Live
    <3> QED
      BY <3>1, <3>2 DEF OneCapturePerKey
  <2> QED
    BY <1>2, <2>1, <2>2
<1>13. UnreportedStaysScheduled'
  BY <1>1, <1>4, <1>5 DEF UnreportedStaysScheduled, Unreported, Live, Reported
<1> QED
  BY <1>7, <1>8, <1>9, <1>10, <1>11, <1>12, <1>13

(***************************************************************************)
(* reject keeps the books: the command had no marker, so no row.           *)
(***************************************************************************)
LEMMA BooksReject ==
  ASSUME TypeOK, WorkerInv, Books, NEW i \in Instances, reject(i)
  PROVE  Books'
<1> DEFINE c == bus[i].command
           new == [id |-> nextEvent, operation |-> c, aggregate |-> "operation",
                   kind |-> "inaccessible"]
<1> USE DEF Books
<1>1. c \in Commands /\ inbox[c] = "none" /\ ~Live(c)
  BY DEF reject, WorkerInv, FirstDelivery, MarkedCaptures
<1>2. /\ reports' = reports \union {new} /\ nextEvent' = nextEvent + 1
      /\ inbox' = [inbox EXCEPT ![c] = "rejected"] /\ deletions' = deletions
      /\ captures' = captures
  BY DEF append_report, reject
<1>3. /\ \A x \in Commands : x # c => inbox'[x] = inbox[x]
      /\ inbox'[c] = "rejected"
  BY <1>1, <1>2 DEF TypeOK
<1>4. \A r \in reports : r.operation \in Commands /\ r.operation # c
  BY <1>1 DEF TypeOK, Reports, MarkedRows
<1>5. FreshIds'
  BY <1>2, SMT DEF FreshIds, TypeOK, Reports
<1>6. MarkedRows' /\ MarkedCaptures'
  BY <1>1, <1>2, <1>3, <1>4, SMT DEF MarkedRows, MarkedCaptures, Live
<1>7. GuardedRows' /\ AtMostOneTerminalReport'
  BY <1>1, <1>2, <1>4, SMT DEF GuardedRows, AtMostOneTerminalReport, Live, Reported
<1>8. ReportedRows'
  BY <1>2 DEF ReportedRows, Live, Reported
<1>9. FiledRows' /\ Answered'
  <2>1. /\ new \in reports' /\ new.operation = c
        /\ new.kind = "inaccessible" /\ new.aggregate = "operation"
    BY <1>2
  <2>2. FiledRows'
    BY <1>2, <1>3, <1>4, <2>1 DEF FiledRows
  <2>3. Answered'
    BY <1>2, <1>3, <2>1 DEF Answered
  <2> QED
    BY <2>2, <2>3
<1>10. OneCapturePerKey' /\ UnreportedStaysScheduled'
  BY <1>2 DEF OneCapturePerKey, UnreportedStaysScheduled, Unreported, Live, Reported
<1> QED
  BY <1>5, <1>6, <1>7, <1>8, <1>9, <1>10

(***************************************************************************)
(* report keeps the books: the guard says the capture is unreported, so    *)
(* its operation has no terminal row yet.                                  *)
(***************************************************************************)
LEMMA BooksReport ==
  ASSUME TypeOK, WorkerInv, Books, NEW i \in Instances, report(i),
         Unreported(pass[i].row.capture)
  PROVE  Books'
<1> DEFINE c == pass[i].row.capture
           k == ReportKind(c, pass[i].terminal)
           new == [id |-> nextEvent, operation |-> c, aggregate |-> c, kind |-> k]
<1> USE DEF Books
<1>1. c \in Commands /\ Live(c) /\ ~Reported(c) /\ inbox[c] = "processed"
  BY DEF report, WorkerInv, DueRows, Unreported, MarkedCaptures
<1>2. k # "queued" /\ k # "none"
  BY DEF report, WorkerInv, ReportKind, TerminalKinds, Unavailability
<1>3. /\ captures' = [captures EXCEPT ![c] = MarkReported(captures[c])]
      /\ reports' = reports \union {new} /\ nextEvent' = nextEvent + 1
      /\ inbox' = inbox /\ deletions' = deletions
  BY DEF report, append_report
<1>4. /\ \A x \in Commands : x # c => captures'[x] = captures[x]
      /\ captures'[c].status = captures[c].status
      /\ captures'[c].reported_at = "set"
  BY <1>1, <1>3, SMT DEF TypeOK, MarkReported, CaptureRows
<1>5. \A r \in reports : r.operation \in Commands /\ (r.operation = c => r.kind = "queued")
  BY <1>1 DEF TypeOK, Reports, GuardedRows
<1>6. FreshIds' /\ MarkedRows'
  <2>1. new.id = nextEvent /\ new.operation = c
    OBVIOUS
  <2>2. nextEvent \in Nat /\ \A r \in reports : r.id \in Nat
    BY DEF TypeOK, Reports
  <2> HIDE DEF new
  <2>3. FreshIds'
    BY <1>3, <2>1, <2>2, SMT DEF FreshIds
  <2>4. MarkedRows'
    BY <1>1, <1>3, <2>1 DEF MarkedRows
  <2> QED
    BY <2>3, <2>4
<1>7. MarkedCaptures' /\ OneCapturePerKey'
  <2>1. \A x \in Commands : Live(x)' <=> Live(x)
    BY <1>4 DEF Live
  <2> QED
    BY <1>3, <2>1 DEF MarkedCaptures, OneCapturePerKey
<1>8. GuardedRows' /\ ReportedRows'
  <2>1. new \in reports' /\ new.operation = c /\ new.kind = k
    BY <1>3
  <2>2. GuardedRows'
    BY <1>1, <1>3, <1>4, <1>5, <2>1 DEF GuardedRows, Live, Reported
  <2>3. ReportedRows'
    BY <1>2, <1>3, <1>4, <2>1 DEF ReportedRows, Live, Reported
  <2> QED
    BY <2>2, <2>3
<1>9. FiledRows' /\ Answered'
  <2>1. FiledRows'
    <3> SUFFICES ASSUME NEW r \in reports'
                 PROVE  /\ r.kind = "queued" =>
                              /\ r.aggregate \in Commands
                              /\ KeyOf[r.aggregate] = KeyOf[r.operation]
                        /\ r.kind # "queued" /\ inbox[r.operation] = "processed" =>
                              r.aggregate = r.operation
                        /\ inbox[r.operation] = "rejected" =>
                              r.aggregate = "operation" /\ r.kind = "inaccessible"
      BY <1>3 DEF FiledRows
    <3>1. CASE r \in reports
      BY <3>1 DEF FiledRows
    <3>2. CASE r = new
      BY <1>1, <1>2, <3>2
    <3> QED
      BY <1>3, <3>1, <3>2
  <2>2. Answered'
    BY <1>1, <1>2, <1>3 DEF Answered
  <2> QED
    BY <2>1, <2>2
<1>10. AtMostOneTerminalReport'
  BY <1>3, <1>5, SMT DEF AtMostOneTerminalReport
<1>11. UnreportedStaysScheduled'
  BY <1>4 DEF UnreportedStaysScheduled, Unreported, Live, Reported
<1> QED
  BY <1>6, <1>7, <1>8, <1>9, <1>10, <1>11

(***************************************************************************)
(* An owner deletion keeps the books: the rows it purges are the deleted   *)
(* capture's own, or queued reports under its key.                         *)
(***************************************************************************)
LEMMA BooksDelete ==
  ASSUME TypeOK, Books, NEW c \in Commands, DeleteCapture(c)
  PROVE  Books'
<1> USE DEF Books
<1>1. /\ captures' = [captures EXCEPT ![c] = NoCapture]
      /\ inbox' = inbox /\ nextEvent' = nextEvent
      /\ deletions' = deletions \union {c}
      /\ reports' \subseteq reports
      /\ \A r \in reports : r \notin reports' => r.aggregate = c
  BY DEF DeleteCapture, OutboxOf
<1>2. /\ \A x \in Commands : x # c => captures'[x] = captures[x]
      /\ captures'[c].status = "none"
  BY <1>1 DEF TypeOK, NoCapture
<1>3. FreshIds' /\ MarkedRows' /\ AtMostOneTerminalReport' /\ FiledRows'
  BY <1>1 DEF FreshIds, MarkedRows, AtMostOneTerminalReport, FiledRows
<1>4. MarkedCaptures' /\ OneCapturePerKey' /\ UnreportedStaysScheduled'
  BY <1>1, <1>2, SMT
     DEF MarkedCaptures, OneCapturePerKey, UnreportedStaysScheduled, Unreported, Live, Reported
<1>5. GuardedRows'
  <2>1. \A r \in reports : r.operation \in Commands
    BY DEF TypeOK, Reports
  <2> QED
    BY <1>1, <1>2, <2>1 DEF GuardedRows, Live, Reported
<1>6. ReportedRows'
  <2> SUFFICES ASSUME NEW x \in Commands, Live(x)', Reported(x)'
               PROVE  \E r \in reports' : r.operation = x /\ r.kind # "queued"
    BY DEF ReportedRows
  <2>1. x # c /\ Live(x) /\ Reported(x) /\ inbox[x] = "processed"
    BY <1>2 DEF Live, Reported, MarkedCaptures
  <2>2. PICK r \in reports : r.operation = x /\ r.kind # "queued"
    BY <2>1 DEF ReportedRows
  <2>3. r.aggregate = x
    BY <2>1, <2>2 DEF FiledRows
  <2> QED
    BY <1>1, <2>1, <2>2, <2>3
<1>7. Answered'
  BY <1>1, CommandAssumption, SMT DEF Answered, FiledRows
<1> QED
  BY <1>3, <1>4, <1>5, <1>6, <1>7

(***************************************************************************)
(* A step that changes no row, marker or capture keeps the books.          *)
(***************************************************************************)
LEMMA BooksUnchanged ==
  ASSUME TypeOK, Books, UNCHANGED <<inbox, captures, reports, nextEvent, deletions>>
  PROVE  Books'
  BY BooksFrame DEF TypeOK, Live, Reported

(***************************************************************************)
(* Updates of a row that keep it in the books.                             *)
(***************************************************************************)
LEMMA BooksRowUpdate ==
  ASSUME TypeOK, Books, NEW c \in Commands, Live(c), NEW row \in CaptureRows,
         captures' = [captures EXCEPT ![c] = row],
         row.status # "none", row.reported_at = captures[c].reported_at,
         captures[c].next # "never" => row.next # "never",
         UNCHANGED <<inbox, reports, nextEvent, deletions>>
  PROVE  Books'
<1>1. /\ captures'[c] = row
      /\ \A x \in Commands : x # c => captures'[x] = captures[x]
  BY DEF TypeOK
<1>2. \A x \in Commands :
         /\ Live(x)' <=> Live(x)
         /\ Reported(x)' <=> Reported(x)
         /\ captures[x].next # "never" => captures'[x].next # "never"
  BY <1>1 DEF Live, Reported
<1> QED
  BY <1>2, BooksFrame DEF TypeOK

(***************************************************************************)
(* The resolver's steps keep the books.                                    *)
(***************************************************************************)
LEMMA BooksResolverStep ==
  ASSUME TypeOK, WorkerInv, Books, NEW i \in Instances, ResolverStep(i)
  PROVE  Books'
<1> DEFINE c == pass[i].row.capture
<1>1. CASE claim(i)
  <2>1. PICK S \in SUBSET {x \in Commands : Claimable(x)} :
           captures' = [x \in Commands |->
                          IF x \in S THEN Lease(captures[x]) ELSE captures[x]]
    BY <1>1 DEF claim
  <2>2. \A x \in Commands :
           /\ captures'[x].status = captures[x].status
           /\ captures'[x].reported_at = captures[x].reported_at
           /\ captures[x].next # "never" => captures'[x].next # "never"
    BY <2>1, SMT DEF TypeOK, CaptureRows, Lease
  <2>3. \A x \in Commands : (Live(x)' <=> Live(x)) /\ (Reported(x)' <=> Reported(x))
    BY <2>2 DEF Live, Reported
  <2> QED
    BY <1>1, <2>2, <2>3, BooksFrame DEF claim, TypeOK
<1>2. CASE RecordResolved(i)
  <2>1. c \in Commands /\ Live(c) /\ captures[c] \in CaptureRows
    BY <1>2 DEF RecordResolved, Free, WorkerInv, DueRows, TypeOK
  <2>2. /\ Resolve(captures[c]).status # "none"
        /\ Resolve(captures[c]).reported_at = captures[c].reported_at
        /\ Resolve(captures[c]).next = captures[c].next
    BY <2>1 DEF Resolve, CaptureRows
  <2> QED
    BY <1>2, <2>1, <2>2, RowUpdates, BooksRowUpdate DEF RecordResolved
<1>3. CASE mark_unavailable(i)
  <2>1. c \in Commands /\ Live(c) /\ captures[c] \in CaptureRows
    BY <1>3 DEF mark_unavailable, Free, WorkerInv, DueRows, TypeOK
  <2>2. PICK a \in Unavailability : captures' = [captures EXCEPT ![c] = Bury(@, a)]
    BY <1>3 DEF mark_unavailable
  <2>3. /\ Bury(captures[c], a).status # "none"
        /\ Bury(captures[c], a).reported_at = captures[c].reported_at
        /\ Bury(captures[c], a).next = captures[c].next
    BY <2>1 DEF Bury, CaptureRows
  <2>4. UNCHANGED <<inbox, reports, nextEvent, deletions>>
    BY <1>3 DEF mark_unavailable
  <2>5. Bury(captures[c], a) \in CaptureRows
    BY <2>1, RowUpdates
  <2> QED
    BY <2>1, <2>2, <2>3, <2>4, <2>5, BooksRowUpdate
<1>4. CASE record_transient_failure(i)
  <2> DEFINE n == CountedAttempts(pass[i].row)
  <2>1. c \in Commands /\ captures[c] \in CaptureRows /\ n \in 0..MaxAttempts
    BY <1>4, PolicyAssumption, SMT
       DEF record_transient_failure, WorkerInv, DueRows, TypeOK, CountedAttempts
  <2>2. /\ Reschedule(captures[c], n).status = captures[c].status
        /\ Reschedule(captures[c], n).reported_at = captures[c].reported_at
        /\ Reschedule(captures[c], n).next = "later"
    BY <2>1 DEF Reschedule, CaptureRows
  <2>3. UNCHANGED <<inbox, reports, nextEvent, deletions>>
    BY <1>4 DEF record_transient_failure
  <2>4. CASE Live(c)
    <3>1. captures' = [captures EXCEPT ![c] = Reschedule(captures[c], n)]
      BY <1>4, <2>4 DEF record_transient_failure
    <3>2. Reschedule(captures[c], n) \in CaptureRows
      BY <2>1, RowUpdates
    <3> QED
      BY <2>1, <2>2, <2>3, <2>4, <3>1, <3>2, BooksRowUpdate DEF Live
  <2>5. CASE ~Live(c)
    BY <1>4, <2>3, <2>5, BooksUnchanged DEF record_transient_failure
  <2> QED
    BY <2>4, <2>5
<1>5. CASE report(i)
  BY <1>5, BooksReport, BooksUnchanged DEF report
<1>6. CASE process(i) \/ ObserveResolverFailed(i) \/ CaptureVanished(i)
  BY <1>6, BooksUnchanged DEF process, ObserveResolverFailed, CaptureVanished
<1> QED
  BY <1>1, <1>2, <1>3, <1>4, <1>5, <1>6 DEF ResolverStep

(***************************************************************************)
(* Every step keeps the books.                                             *)
(***************************************************************************)
LEMMA BooksNext ==
  ASSUME TypeOK, WorkerInv, Books, [Next]_vars
  PROVE  Books'
<1>1. ASSUME NEW i \in Instances, BusStep(i) PROVE Books'
  <2>1. CASE deliver(i)
    BY <2>1, BooksDeliver
  <2>2. CASE reject(i)
    BY <2>2, BooksReject
  <2>3. CASE Receive(i) \/ Redelivered(i) \/ Terminate(i) \/ Acknowledge(i)
    BY <2>3, BooksUnchanged DEF Receive, Redelivered, Terminate, Acknowledge
  <2> QED
    BY <1>1, <2>1, <2>2, <2>3 DEF BusStep
<1>2. ASSUME NEW i \in Instances, Restart(i) \/ FaultStep(i) PROVE Books'
  BY <1>2, BooksUnchanged DEF Restart, FaultStep, Unsettled, BusStops, LocalFault, Crash
<1>3. ASSUME NEW c \in Commands, TimePasses(c) PROVE Books'
  <2>1. captures[c] \in CaptureRows
    BY DEF TypeOK
  <2>2. /\ Expire(captures[c]).status = captures[c].status
        /\ Expire(captures[c]).reported_at = captures[c].reported_at
        /\ Expire(captures[c]).next = "due"
    BY <2>1 DEF Expire, CaptureRows
  <2>3. /\ captures'[c] = Expire(captures[c])
        /\ \A x \in Commands : x # c => captures'[x] = captures[x]
    BY <1>3 DEF TimePasses, TypeOK
  <2>4. \A x \in Commands :
           /\ Live(x)' <=> Live(x)
           /\ Reported(x)' <=> Reported(x)
           /\ captures[x].next # "never" => captures'[x].next # "never"
    BY <2>2, <2>3 DEF Live, Reported
  <2> QED
    BY <1>3, <2>4, BooksFrame DEF TimePasses, TypeOK
<1>4. CASE UNCHANGED vars
  BY <1>4, BooksUnchanged DEF vars
<1>5. ASSUME NEW c \in Commands, CountHoldings(c) \/ DeletionFails(c) PROVE Books'
  BY <1>5, BooksUnchanged DEF CountHoldings, DeletionFails
<1> QED
  BY <1>1, <1>2, <1>3, <1>4, <1>5, BooksResolverStep, BooksDelete DEF Next

(***************************************************************************)
(* The books are kept in every reachable state.                            *)
(***************************************************************************)
THEOREM BooksKept == Spec => []Books
<1>1. Init => Books
  BY SMT DEF Init, Books, FreshIds, MarkedRows, MarkedCaptures, GuardedRows, ReportedRows,
         FiledRows, Answered, AtMostOneTerminalReport, OneCapturePerKey,
         UnreportedStaysScheduled, Unreported, Live, NoCapture
<1>2. TypeOK /\ WorkerInv /\ Books /\ [Next]_vars => Books'
  BY BooksNext
<1> QED
  BY <1>1, <1>2, TypeCorrect, PTL DEF Spec

(***************************************************************************)
(* Exactly-once answers: no operation ever has two terminal reports, for   *)
(* any number of instances, lease expiries, redeliveries and crashes.      *)
(***************************************************************************)
THEOREM AnsweredAtMostOnce == Spec => []AtMostOneTerminalReport
<1>1. Books => AtMostOneTerminalReport
  BY DEF Books
<1> QED
  BY <1>1, BooksKept, PTL

(***************************************************************************)
(* A capture is marked reported exactly when its report is in the outbox.  *)
(***************************************************************************)
THEOREM GuardIsExact == Spec => []GuardMatchesReport
<1>1. Books => GuardMatchesReport
  BY DEF Books, GuardMatchesReport, GuardedRows, ReportedRows, Terminals
<1> QED
  BY <1>1, BooksKept, PTL

(***************************************************************************)
(* One capture per idempotency key, whatever commands share it.            *)
(***************************************************************************)
THEOREM KeysAreUnique == Spec => []OneCapturePerKey
<1>1. Books => OneCapturePerKey
  BY DEF Books
<1> QED
  BY <1>1, BooksKept, PTL

(***************************************************************************)
(* No failure order strands an unreported capture outside the claim query. *)
(***************************************************************************)
THEOREM NothingIsStranded == Spec => []UnreportedStaysScheduled
<1>1. Books => UnreportedStaysScheduled
  BY DEF Books
<1> QED
  BY <1>1, BooksKept, PTL

(***************************************************************************)
(* Inbox markers and their effects commit together.                        *)
(***************************************************************************)
THEOREM MarkersAreExact == Spec => []MarkerMatchesEffect
<1>1. TypeOK /\ Books => MarkerMatchesEffect
  <2> SUFFICES ASSUME TypeOK, Books, NEW c \in Commands
               PROVE  /\ inbox[c] = "none" => ~Live(c) /\ \A r \in reports : r.operation # c
                      /\ inbox[c] = "rejected" =>
                            ~Live(c) /\ \E r \in reports :
                                            Terminals(c) = {r} /\ r.kind = "inaccessible"
                      /\ inbox[c] = "processed" =>
                            \/ \E r \in reports : r.operation = c /\ r.kind = "queued"
                            \/ \E d \in deletions : KeyOf[d] = KeyOf[c]
    BY DEF MarkerMatchesEffect
  <2>1. inbox[c] = "none" => ~Live(c) /\ \A r \in reports : r.operation # c
    BY DEF Books, MarkedRows, MarkedCaptures
  <2>2. ASSUME inbox[c] = "rejected"
        PROVE  ~Live(c) /\ \E r \in reports : Terminals(c) = {r} /\ r.kind = "inaccessible"
    <3>1. PICK r \in reports : r.operation = c
      BY <2>2 DEF Books, Answered
    <3>2. r.kind = "inaccessible"
      BY <2>2, <3>1 DEF Books, FiledRows
    <3>3. Terminals(c) = {r}
      BY <3>1, <3>2 DEF Books, AtMostOneTerminalReport, Terminals
    <3> QED
      BY <2>2, <3>2, <3>3 DEF Books, MarkedCaptures
  <2>3. inbox[c] = "processed" =>
           \/ \E r \in reports : r.operation = c /\ r.kind = "queued"
           \/ \E d \in deletions : KeyOf[d] = KeyOf[c]
    BY DEF Books, Answered
  <2> QED
    BY <2>1, <2>2, <2>3
<1> QED
  BY <1>1, TypeCorrect, BooksKept, PTL

-----------------------------------------------------------------------------
(***************************************************************************)
(* A consumer about to acknowledge has committed, and markers are never    *)
(* removed.                                                                *)
(***************************************************************************)
CommitInv ==
    /\ SettledAfterCommit
    /\ \A i \in Instances : bus[i].at = "committed" => inbox[bus[i].command] # "none"

(***************************************************************************)
(* Every step keeps commits before settlements.                            *)
(***************************************************************************)
LEMMA CommitStep ==
  ASSUME TypeOK, WorkerInv, CommitInv, [Next]_vars
  PROVE  CommitInv'
<1> USE DEF CommitInv
<1>1. ASSUME NEW i \in Instances, deliver(i) \/ reject(i) PROVE CommitInv'
  <2>1. /\ bus[i].command \in Commands
        /\ inbox'[bus[i].command] # "none"
        /\ \A x \in Commands : x # bus[i].command => inbox'[x] = inbox[x]
        /\ bus' = [bus EXCEPT ![i].at = "committed"]
        /\ broker' = broker
    BY <1>1 DEF deliver, reject, Committed, WorkerInv, TypeOK
  <2>2. SettledAfterCommit'
    BY <2>1 DEF SettledAfterCommit, Attributable
  <2>3. ASSUME NEW j \in Instances, bus'[j].at = "committed"
        PROVE  inbox'[bus'[j].command] # "none"
    <3>1. CASE j = i
      BY <2>1, <3>1, SMT DEF TypeOK
    <3>2. CASE j # i
      <4>1. bus'[j] = bus[j]
        BY <2>1, <3>2 DEF TypeOK
      <4>2. bus[j].command \in Commands /\ inbox[bus[j].command] # "none"
        BY <2>3, <4>1 DEF WorkerInv
      <4> QED
        BY <2>1, <4>1, <4>2
    <3> QED
      BY <3>1, <3>2
  <2> QED
    BY <2>2, <2>3
<1>2. ASSUME NEW i \in Instances, Receive(i) \/ Redelivered(i) PROVE CommitInv'
  BY <1>2, SMT DEF Receive, Redelivered, Committed, FirstDelivery, SettledAfterCommit, TypeOK
<1>3. ASSUME NEW i \in Instances, Terminate(i) \/ Acknowledge(i) PROVE CommitInv'
  <2>1. /\ bus[i].command \in Commands
        /\ bus[i].command \in Attributable => inbox[bus[i].command] # "none"
        /\ broker' = [broker EXCEPT ![bus[i].command] = "settled"]
        /\ bus' = [bus EXCEPT ![i] = IdleBus]
        /\ inbox' = inbox
    BY <1>3
       DEF Terminate, Acknowledge, MayAcknowledge, Settle, WorkerInv, TypeOK, Attributable
  <2> QED
    BY <2>1 DEF SettledAfterCommit, Attributable, IdleBus, TypeOK
<1>4. ASSUME NEW i \in Instances, Restart(i) \/ FaultStep(i) PROVE CommitInv'
  <2>1. /\ UNCHANGED <<broker, inbox>>
        /\ \/ bus' = bus
           \/ \E at \in {"idle", "stopped"} : bus' = [bus EXCEPT ![i] = [IdleBus EXCEPT !.at = at]]
    BY <1>4 DEF Restart, FaultStep, Unsettled, BusStops, LocalFault, Crash, Reset, IdleBus
  <2>2. \A j \in Instances : bus'[j] = bus[j] \/ bus'[j].at # "committed"
    <3>1. DOMAIN bus = Instances
      BY DEF TypeOK
    <3>2. \A at \in {"idle", "stopped"} : [IdleBus EXCEPT !.at = at].at # "committed"
      BY ONLY SMT DEF IdleBus
    <3> QED
      BY <2>1, <3>1, <3>2
  <2> QED
    BY <2>1, <2>2 DEF SettledAfterCommit
<1>5. ASSUME UNCHANGED <<broker, inbox, bus>> PROVE CommitInv'
  BY <1>5 DEF SettledAfterCommit
<1>6. ASSUME NEW i \in Instances, ResolverStep(i) PROVE CommitInv'
  BY <1>5, <1>6 DEF ResolverStep, claim, process, RecordResolved, mark_unavailable,
                    ObserveResolverFailed, record_transient_failure, report, CaptureVanished
<1>7. ASSUME NEW c \in Commands,
             TimePasses(c) \/ CountHoldings(c) \/ DeleteCapture(c) \/ DeletionFails(c)
      PROVE  CommitInv'
  BY <1>5, <1>7 DEF TimePasses, CountHoldings, DeleteCapture, DeletionFails
<1> QED
  BY <1>1, <1>2, <1>3, <1>4, <1>5, <1>6, <1>7 DEF Next, BusStep, vars

(***************************************************************************)
(* The broker settles a command somebody waits for only after its          *)
(* transaction committed.                                                  *)
(***************************************************************************)
THEOREM SettlementIsLate == Spec => []SettledAfterCommit
<1>1. Init => CommitInv
  BY SMT DEF Init, CommitInv, SettledAfterCommit, Attributable, IdleBus
<1>2. TypeOK /\ WorkerInv /\ CommitInv /\ [Next]_vars => CommitInv'
  BY CommitStep
<1>3. CommitInv => SettledAfterCommit
  BY DEF CommitInv
<1> QED
  BY <1>1, <1>2, <1>3, TypeCorrect, PTL DEF Spec

-----------------------------------------------------------------------------
(***************************************************************************)
(* A row that a deletion has locked exists, and the source of a capture    *)
(* with a post exists or was removed by a deletion.                        *)
(***************************************************************************)
LockInv == \A c \in Commands : Locked(c) => Live(c)

SourceInv ==
    \A c \in Commands : Live(c) /\ HasPost(c) => HoldingOf[c] \in library \union removals

(***************************************************************************)
(* Every step keeps both.                                                  *)
(***************************************************************************)
LEMMA SourceStep ==
  ASSUME TypeOK, WorkerInv, LockInv, SourceInv, [Next]_vars
  PROVE  LockInv' /\ SourceInv'
<1>0. ASSUME UNCHANGED <<captures, ownerVars>> PROVE LockInv' /\ SourceInv'
  BY <1>0 DEF LockInv, SourceInv, Locked, Live, HasPost
<1>1. ASSUME NEW i \in Instances, deliver(i) PROVE LockInv' /\ SourceInv'
  <2>1. /\ UNCHANGED ownerVars
        /\ \A x \in Commands : captures'[x] = captures[x] \/ captures'[x] = AcceptedCapture
    BY <1>1 DEF deliver, WorkerInv, TypeOK
  <2>2. AcceptedCapture.status = "accepted" /\ AcceptedCapture.post_id = "null"
    BY DEF AcceptedCapture, NoCapture
  <2> QED
    BY <2>1, <2>2 DEF LockInv, SourceInv, Locked, Live, HasPost
<1>2. ASSUME NEW i \in Instances, claim(i) PROVE LockInv' /\ SourceInv'
  <2>1. \A x \in Commands : /\ captures'[x].status = captures[x].status
                           /\ captures'[x].post_id = captures[x].post_id
    BY <1>2, SMT DEF claim, Lease, TypeOK, CaptureRows
  <2>2. UNCHANGED ownerVars
    BY <1>2 DEF claim
  <2> QED
    BY <2>1, <2>2 DEF LockInv, SourceInv, Locked, Live, HasPost
<1>3. ASSUME NEW i \in Instances, RecordResolved(i) \/ mark_unavailable(i)
      PROVE  LockInv' /\ SourceInv'
  <2>1. PICK c \in Commands : c = pass[i].row.capture
    BY <1>3 DEF RecordResolved, mark_unavailable, WorkerInv, DueRows
  <2>2. captures[c] \in CaptureRows
    BY DEF TypeOK
  <2>3. /\ \A x \in Commands : x # c => captures'[x] = captures[x]
        /\ \/ captures'[c] = Resolve(captures[c]) /\ append_fact(c)
           \/ /\ \E a \in Unavailability : captures'[c] = Bury(captures[c], a)
              /\ IF HasPost(c) THEN append_fact(c) ELSE UNCHANGED library
        /\ erasing' = erasing /\ removals' = removals
    BY <1>3, <2>1 DEF RecordResolved, mark_unavailable, TypeOK
  <2>4. captures'[c].status # "none"
    BY <2>2, <2>3 DEF Resolve, Bury, CaptureRows
  <2>5. captures'[c].post_id = captures[c].post_id \/ append_fact(c)
    BY <2>2, <2>3 DEF Bury, CaptureRows
  <2>6. library \subseteq library'
    BY <2>3 DEF append_fact
  <2>7. HasPost(c)' => HoldingOf[c] \in library'
    BY <2>3, <2>5 DEF HasPost, append_fact
  <2>8. LockInv'
    BY <2>3, <2>4 DEF LockInv, Locked, Live
  <2>9. SourceInv'
    <3> SUFFICES ASSUME NEW x \in Commands, Live(x)', HasPost(x)'
                 PROVE  HoldingOf[x] \in library' \union removals'
      BY DEF SourceInv
    <3>1. CASE x = c
      BY <2>7, <3>1
    <3>2. CASE x # c
      <4>1. Live(x) /\ HasPost(x)
        BY <2>3, <3>2 DEF Live, HasPost
      <4> QED
        BY <2>3, <2>6, <4>1 DEF SourceInv
    <3> QED
      BY <3>1, <3>2
  <2> QED
    BY <2>8, <2>9
<1>4. ASSUME NEW i \in Instances, record_transient_failure(i) \/ report(i)
      PROVE  LockInv' /\ SourceInv'
  <2>1. PICK c \in Commands : c = pass[i].row.capture
    BY <1>4 DEF record_transient_failure, report, WorkerInv, DueRows
  <2>2. captures[c] \in CaptureRows
    BY DEF TypeOK
  <2>3. /\ \A x \in Commands : x # c => captures'[x] = captures[x]
        /\ \/ captures'[c] = captures[c]
           \/ captures'[c] = Reschedule(captures[c], CountedAttempts(pass[i].row))
           \/ captures'[c] = MarkReported(captures[c])
        /\ UNCHANGED ownerVars
    BY <1>4, <2>1 DEF record_transient_failure, report, TypeOK
  <2>4. captures'[c].status = captures[c].status /\ captures'[c].post_id = captures[c].post_id
    BY <2>2, <2>3 DEF Reschedule, MarkReported, CaptureRows
  <2> QED
    BY <2>3, <2>4 DEF LockInv, SourceInv, Locked, Live, HasPost
<1>5. ASSUME NEW c \in Commands, TimePasses(c) PROVE LockInv' /\ SourceInv'
  <2>1. \A x \in Commands : /\ captures'[x].status = captures[x].status
                           /\ captures'[x].post_id = captures[x].post_id
    BY <1>5, SMT DEF TimePasses, Expire, TypeOK, CaptureRows
  <2>2. UNCHANGED ownerVars
    BY <1>5 DEF TimePasses
  <2> QED
    BY <2>1, <2>2 DEF LockInv, SourceInv, Locked, Live, HasPost
<1>6. ASSUME NEW c \in Commands, CountHoldings(c) \/ DeletionFails(c)
      PROVE  LockInv' /\ SourceInv'
  <2>1. /\ UNCHANGED <<captures, library, removals>>
        /\ \A x \in Commands : erasing'[x] = erasing[x] \/ erasing'[x] = "none"
                               \/ (x = c /\ Live(c))
    BY <1>6 DEF CountHoldings, DeletionFails, Free, TypeOK
  <2> QED
    BY <2>1 DEF LockInv, SourceInv, Locked, Live, HasPost
<1>7. ASSUME NEW c \in Commands, DeleteCapture(c) PROVE LockInv' /\ SourceInv'
  <2>1. /\ \A x \in Commands : x # c => captures'[x] = captures[x] /\ erasing'[x] = erasing[x]
        /\ captures'[c].status = "none" /\ erasing'[c] = "none"
    BY <1>7 DEF DeleteCapture, NoCapture, TypeOK
  <2>2. library \union removals \subseteq library' \union removals'
    BY <1>7 DEF DeleteCapture
  <2> QED
    BY <2>1, <2>2 DEF LockInv, SourceInv, Locked, Live, HasPost
<1>8. ASSUME NEW i \in Instances, BusStep(i) \/ Restart(i) \/ FaultStep(i)
      PROVE  LockInv' /\ SourceInv'
  BY <1>0, <1>1, <1>8 DEF BusStep, Receive, Redelivered, reject, Terminate, Acknowledge, Restart,
                          FaultStep, Unsettled, BusStops, LocalFault, Crash
<1>9. ASSUME NEW i \in Instances, ResolverStep(i) PROVE LockInv' /\ SourceInv'
  BY <1>0, <1>2, <1>3, <1>4, <1>9 DEF ResolverStep, process, ObserveResolverFailed,
                                      CaptureVanished
<1> QED
  BY <1>0, <1>5, <1>6, <1>7, <1>8, <1>9 DEF Next, vars

(***************************************************************************)
(* A locked row exists, and a capture's source is gone only where an owner *)
(* has removed it.                                                         *)
(***************************************************************************)
THEOREM SourcesAreAccounted == Spec => [](LockInv /\ SourceInv)
<1>1. Init => LockInv /\ SourceInv
  <2> SUFFICES ASSUME Init PROVE LockInv /\ SourceInv
    OBVIOUS
  <2>1. \A c \in Commands : captures[c].status = "none" /\ erasing[c] = "none"
    BY DEF Init, NoCapture
  <2> QED
    BY <2>1 DEF LockInv, SourceInv, Locked, Live
<1>2. TypeOK /\ WorkerInv /\ LockInv /\ SourceInv /\ [Next]_vars => LockInv' /\ SourceInv'
  BY SourceStep
<1> QED
  BY <1>1, <1>2, TypeCorrect, PTL DEF Spec

-----------------------------------------------------------------------------
(***************************************************************************)
(* A deleted capture never comes back under its id: its command has a      *)
(* marker, so a redelivery inserts nothing.                                *)
(***************************************************************************)
DeletedInv == \A c \in deletions : inbox[c] = "processed" /\ ~Live(c)

(***************************************************************************)
(* Every step keeps deleted captures deleted.                              *)
(***************************************************************************)
LEMMA DeletedStep ==
  ASSUME TypeOK, WorkerInv, Books, LockInv, DeletedInv, [Next]_vars
  PROVE  DeletedInv'
<1> USE DEF DeletedInv
<1>1. ASSUME NEW i \in Instances, deliver(i) \/ reject(i) PROVE DeletedInv'
  <2>1. /\ bus[i].command \in Commands
        /\ inbox[bus[i].command] = "none"
        /\ \A x \in Commands : x # bus[i].command =>
              inbox'[x] = inbox[x] /\ captures'[x] = captures[x]
        /\ deletions' = deletions
    <3>1. /\ inbox \in [Commands -> {"none", "processed", "rejected"}]
          /\ captures \in [Commands -> CaptureRows]
      BY DEF TypeOK
    <3> QED
      BY <1>1, <3>1 DEF deliver, reject, FirstDelivery, WorkerInv
  <2> QED
    BY <2>1 DEF Live, TypeOK
<1>2. ASSUME UNCHANGED <<inbox, deletions>>,
             \A c \in Commands : ~Live(c) => ~Live(c)'
      PROVE  DeletedInv'
  BY <1>2 DEF TypeOK
<1>3. ASSUME UNCHANGED <<inbox, captures, deletions>> PROVE DeletedInv'
  BY <1>2, <1>3 DEF Live
<1>4. ASSUME NEW i \in Instances, claim(i) PROVE DeletedInv'
  <2>1. \A c \in Commands : captures'[c].status = captures[c].status
    BY <1>4, SMT DEF claim, Lease, TypeOK, CaptureRows
  <2> QED
    BY <1>2, <1>4, <2>1 DEF claim, Live
<1>5. ASSUME NEW i \in Instances,
             RecordResolved(i) \/ mark_unavailable(i) \/ record_transient_failure(i) \/ report(i)
      PROVE  DeletedInv'
  <2> DEFINE c == pass[i].row.capture
  <2>1. c \in Commands
    BY <1>5 DEF RecordResolved, mark_unavailable, record_transient_failure, report,
                WorkerInv, DueRows
  <2>2. /\ \A x \in Commands : x # c => captures'[x] = captures[x]
        /\ ~Live(c) => captures'[c] = captures[c]
        /\ UNCHANGED <<inbox, deletions>>
    <3>1. captures \in [Commands -> CaptureRows]
      BY DEF TypeOK
    <3> QED
      BY <1>5, <2>1, <3>1 DEF RecordResolved, mark_unavailable, record_transient_failure, report,
                              Unreported, Free
  <2> QED
    BY <1>2, <2>1, <2>2 DEF Live
<1>6. ASSUME NEW c \in Commands, TimePasses(c) PROVE DeletedInv'
  <2>1. \A x \in Commands : captures'[x].status = captures[x].status
    BY <1>6, SMT DEF TimePasses, Expire, TypeOK, CaptureRows
  <2> QED
    BY <1>2, <1>6, <2>1 DEF TimePasses, Live
<1>7. ASSUME NEW c \in Commands, DeleteCapture(c) PROVE DeletedInv'
  <2>1. inbox[c] = "processed"
    BY <1>7 DEF DeleteCapture, LockInv, Books, MarkedCaptures
  <2>2. /\ \A x \in Commands : x # c => captures'[x] = captures[x]
        /\ captures'[c].status = "none" /\ inbox' = inbox /\ deletions' = deletions \union {c}
    BY <1>7 DEF DeleteCapture, NoCapture, TypeOK
  <2> QED
    BY <2>1, <2>2 DEF Live, TypeOK
<1>8. ASSUME NEW i \in Instances, BusStep(i) \/ Restart(i) \/ FaultStep(i) PROVE DeletedInv'
  BY <1>1, <1>3, <1>8 DEF BusStep, Receive, Redelivered, Terminate, Acknowledge, Restart,
                          FaultStep, Unsettled, BusStops, LocalFault, Crash
<1>9. ASSUME NEW i \in Instances, ResolverStep(i) PROVE DeletedInv'
  BY <1>3, <1>4, <1>5, <1>9 DEF ResolverStep, process, ObserveResolverFailed, CaptureVanished
<1>10. ASSUME NEW c \in Commands, CountHoldings(c) \/ DeletionFails(c) PROVE DeletedInv'
  BY <1>3, <1>10 DEF CountHoldings, DeletionFails
<1> QED
  BY <1>3, <1>6, <1>7, <1>8, <1>9, <1>10 DEF Next, vars

-----------------------------------------------------------------------------
(***************************************************************************)
(* The state Platform sees, as the refinement mapping of KeepsPromise      *)
(* builds it.                                                              *)
(***************************************************************************)
Seen == [c \in Commands |-> OperationState(c)]

(***************************************************************************)
(* One operation moving is a step of the promise.                          *)
(***************************************************************************)
LEMMA SeenMoves ==
  ASSUME NEW c \in Commands, \A x \in Commands : x # c => OperationState(x)' = OperationState(x)
  PROVE  /\ OperationState(c) = "issued" /\ OperationState(c)' = "queued" => Promise!Next
         /\ OperationState(c) = "issued" /\ OperationState(c)' = "failed" => Promise!Next
         /\ OperationState(c) = "queued" /\ OperationState(c)' \in {"succeeded", "failed"}
              => Promise!Next
         /\ OperationState(c) \in {"queued", "succeeded", "failed"}
            /\ OperationState(c)' = "withdrawn" => Promise!Next
<1>1. Seen' = [Seen EXCEPT ![c] = OperationState(c)'] /\ Seen[c] = OperationState(c)
  BY DEF Seen
<1> QED
  BY <1>1 DEF Seen, Promise!Next, Promise!Accept, Promise!Refuse, Promise!Finish,
              Promise!Withdraw, Promise!Move

(***************************************************************************)
(* A step that leaves rows, markers and deletions alone is invisible.      *)
(***************************************************************************)
LEMMA SeenUnchanged ==
  ASSUME UNCHANGED <<inbox, reports, deletions>>
  PROVE  Seen' = Seen
  BY DEF Seen, OperationState, Terminals

(***************************************************************************)
(* Every step of the service is a step of the promise or invisible.        *)
(***************************************************************************)
LEMMA PromiseStep ==
  ASSUME TypeOK, WorkerInv, Books, Books', LockInv, DeletedInv, [Next]_vars
  PROVE  [Promise!Next]_Seen
<1>1. ASSUME NEW i \in Instances, deliver(i) PROVE Promise!Next
  <2>0. PICK c \in Commands : c = bus[i].command
    BY <1>1 DEF deliver, WorkerInv
  <2>1. inbox[c] = "none" /\ c \notin deletions
    BY <1>1, <2>0 DEF deliver, FirstDelivery, DeletedInv
  <2>2. PICK d \in Commands : append_report(c, d, "queued")
    BY <1>1, <2>0 DEF deliver, QueueReport, SameKey
  <2>3. /\ inbox' = [inbox EXCEPT ![c] = "processed"] /\ deletions' = deletions
        /\ \A x \in Commands : Terminals(x)' = Terminals(x)
    <3>1. inbox' = [inbox EXCEPT ![c] = "processed"] /\ deletions' = deletions
      BY <1>1, <2>0 DEF deliver
    <3>2. \A x \in Commands : Terminals(x)' = Terminals(x)
      BY <2>2, SMT DEF append_report, Terminals
    <3> QED
      BY <3>1, <3>2
  <2>4. Terminals(c) = {}
    BY <2>1 DEF Terminals, Books, MarkedRows
  <2>5. OperationState(c) = "issued" /\ OperationState(c)' = "queued"
    BY <2>1, <2>3, <2>4 DEF OperationState, TypeOK
  <2>6. \A x \in Commands : x # c => OperationState(x)' = OperationState(x)
    BY <2>3 DEF OperationState, TypeOK
  <2> QED
    BY <2>1, <2>5, <2>6, SeenMoves
<1>2. ASSUME NEW i \in Instances, reject(i) PROVE Promise!Next
  <2>0. PICK c \in Commands : c = bus[i].command
    BY <1>2 DEF reject, WorkerInv
  <2> DEFINE new == [id |-> nextEvent, operation |-> c, aggregate |-> "operation",
                     kind |-> "inaccessible"]
  <2>1. inbox[c] = "none" /\ c \notin deletions
    BY <1>2, <2>0 DEF reject, FirstDelivery, DeletedInv
  <2>2. /\ inbox' = [inbox EXCEPT ![c] = "rejected"] /\ deletions' = deletions
        /\ reports' = reports \union {new}
    BY <1>2, <2>0 DEF reject, append_report
  <2>3. Terminals(c) = {} /\ Terminals(c)' = {new}
    BY <2>1, <2>2, SMT DEF Terminals, Books, MarkedRows
  <2>4. \A x \in Commands : x # c => Terminals(x)' = Terminals(x)
    BY <2>2, SMT DEF Terminals
  <2>5. OperationState(c) = "issued" /\ OperationState(c)' = "failed"
    BY <2>1, <2>2, <2>3, SMT DEF OperationState
  <2>6. \A x \in Commands : x # c => OperationState(x)' = OperationState(x)
    BY <2>2, <2>4 DEF OperationState, TypeOK
  <2> QED
    BY <2>1, <2>5, <2>6, SeenMoves
<1>3. ASSUME NEW i \in Instances, report(i), Unreported(pass[i].row.capture) PROVE Promise!Next
  <2>0. PICK c \in Commands : c = pass[i].row.capture
    BY <1>3 DEF report, WorkerInv, DueRows
  <2> DEFINE k == ReportKind(c, pass[i].terminal)
             new == [id |-> nextEvent, operation |-> c, aggregate |-> c, kind |-> k]
  <2>1. Live(c) /\ ~Reported(c) /\ k # "queued"
    BY <1>3, <2>0
       DEF report, WorkerInv, Unreported, ReportKind, TerminalKinds, Unavailability
  <2>2. inbox[c] = "processed" /\ c \notin deletions
    BY <2>1 DEF Books, MarkedCaptures, DeletedInv
  <2>3. inbox' = inbox /\ deletions' = deletions /\ reports' = reports \union {new}
    BY <1>3, <2>0 DEF report, append_report
  <2>4. Terminals(c) = {}
    BY <2>1 DEF Terminals, Books, GuardedRows
  <2>5. Terminals(c)' = {new}
    BY <2>1, <2>3, <2>4, SMT DEF Terminals
  <2>6. \A x \in Commands : x # c => Terminals(x)' = Terminals(x)
    BY <2>3, SMT DEF Terminals
  <2>7. OperationState(c) = "queued" /\ OperationState(c)' \in {"succeeded", "failed"}
    BY <2>2, <2>3, <2>4, <2>5 DEF OperationState
  <2>8. \A x \in Commands : x # c => OperationState(x)' = OperationState(x)
    BY <2>3, <2>6 DEF OperationState
  <2> QED
    BY <2>1, <2>7, <2>8, SeenMoves
<1>4. ASSUME NEW c \in Commands, DeleteCapture(c) PROVE Promise!Next
  <2>1. /\ inbox' = inbox /\ deletions' = deletions \union {c}
        /\ reports' \subseteq reports
        /\ \A r \in reports : r \notin reports' => r.aggregate = c
        /\ Live(c)
    BY <1>4 DEF DeleteCapture, OutboxOf, LockInv
  <2>2. inbox[c] = "processed" /\ c \notin deletions
    BY <2>1 DEF Books, MarkedCaptures, DeletedInv
  <2>3. \A x \in Commands : x # c => Terminals(x)' = Terminals(x)
    <3> SUFFICES ASSUME NEW x \in Commands, x # c, NEW r \in reports,
                        r.operation = x, r.kind # "queued"
                 PROVE  r \in reports'
      BY <2>1 DEF Terminals
    <3>1. inbox[x] # "none"
      BY DEF Books, MarkedRows
    <3>2. r.aggregate # c
      BY <3>1, CommandAssumption, SMT DEF Books, FiledRows, TypeOK
    <3> QED
      BY <2>1, <3>2
  <2>4. OperationState(c) \in {"queued", "succeeded", "failed"} /\ OperationState(c)' = "withdrawn"
    BY <2>1, <2>2 DEF OperationState
  <2>5. \A x \in Commands : x # c => OperationState(x)' = OperationState(x)
    BY <2>1, <2>3 DEF OperationState
  <2> QED
    BY <2>4, <2>5, SeenMoves
<1>5. ASSUME NEW i \in Instances, BusStep(i) \/ Restart(i) \/ FaultStep(i)
      PROVE  Promise!Next \/ Seen' = Seen
  BY <1>1, <1>2, <1>5, SeenUnchanged
     DEF BusStep, Receive, Redelivered, Terminate, Acknowledge, Restart, FaultStep, Unsettled,
         BusStops, LocalFault, Crash
<1>6. ASSUME NEW i \in Instances, ResolverStep(i)
      PROVE  Promise!Next \/ Seen' = Seen
  BY <1>3, <1>6, SeenUnchanged
     DEF ResolverStep, claim, process, RecordResolved, mark_unavailable, ObserveResolverFailed,
         record_transient_failure, report, CaptureVanished
<1>7. ASSUME NEW c \in Commands, TimePasses(c) PROVE Seen' = Seen
  BY <1>7, SeenUnchanged DEF TimePasses
<1>8. CASE UNCHANGED vars
  BY <1>8, SeenUnchanged DEF vars
<1>9. ASSUME NEW c \in Commands, CountHoldings(c) \/ DeletionFails(c) PROVE Seen' = Seen
  BY <1>9, SeenUnchanged DEF CountHoldings, DeletionFails
<1> QED
  BY <1>4, <1>5, <1>6, <1>7, <1>8, <1>9 DEF Next

(***************************************************************************)
(* The service implements what it promises Platform: operations only move  *)
(* forward, end once, and are taken back only by their owners.             *)
(***************************************************************************)
THEOREM PromiseKept == Spec => KeepsPromise
<1>1. Init => Promise!Init
  BY DEF Init, Promise!Init, OperationState, Terminals
<1>2. Init => DeletedInv
  BY DEF Init, DeletedInv
<1>3. TypeOK /\ WorkerInv /\ Books /\ LockInv /\ DeletedInv /\ [Next]_vars => DeletedInv'
  BY DeletedStep
<1>4. TypeOK /\ WorkerInv /\ Books /\ Books' /\ LockInv /\ DeletedInv /\ [Next]_vars
        => [Promise!Next]_Seen
  BY PromiseStep
<1> QED
  BY <1>1, <1>2, <1>3, <1>4, TypeCorrect, BooksKept, SourcesAreAccounted, PTL
     DEF Spec, KeepsPromise, Promise!Spec, Seen

-----------------------------------------------------------------------------
(***************************************************************************)
(* One process                                                             *)
(*                                                                         *)
(* What CaptureLifecycle guarantees beyond the exactly-once report when    *)
(* one process runs at a time, the deployment of the README.               *)
(***************************************************************************)

Solo == \A i, j \in Instances : i = j

Working(i) == pass[i].at \in {"attempt", "count", "report"}

(***************************************************************************)
(* Two states of a capture that differ in its schedule only.               *)
(***************************************************************************)
SameOutcome(a, b) ==
    /\ a.status = b.status /\ a.attempts = b.attempts /\ a.reported_at = b.reported_at
    /\ a.post_id = b.post_id /\ a.tombstone = b.tombstone

(***************************************************************************)
(* What the database holds of each capture is consistent.                  *)
(***************************************************************************)
Evidence ==
    \A c \in Commands : Live(c) =>
        /\ captures[c].status = "accepted" => captures[c].tombstone = "none"
        /\ captures[c].status = "resolved" => captures[c].post_id = "set"
        /\ captures[c].status = "unavailable" => captures[c].tombstone \in Unavailability

(***************************************************************************)
(* A claimed row still describes its capture, which nobody has reported.   *)
(***************************************************************************)
Fresh(row) ==
    /\ row \in DueRows
    /\ inbox[row.capture] = "processed"
    /\ Live(row.capture) => row = Snapshot(row.capture) /\ ~Reported(row.capture)

TodoInv ==
    \A i \in Instances :
        /\ \A row \in pass[i].todo : Fresh(row)
        /\ \A a, b \in pass[i].todo : a.capture = b.capture => a = b
        /\ Working(i) => \A row \in pass[i].todo : row.capture # pass[i].row.capture

RowInv ==
    \A i \in Instances : Working(i) =>
        /\ inbox[pass[i].row.capture] = "processed"
        /\ Live(pass[i].row.capture) => ~Reported(pass[i].row.capture)
        /\ pass[i].at \in {"attempt", "count"} =>
              Fresh(pass[i].row) /\ pass[i].row.status = "accepted"
        /\ pass[i].at = "report" /\ Live(pass[i].row.capture) =>
              Agrees(pass[i].terminal, captures[pass[i].row.capture], FALSE)

ResolverInv == Evidence /\ TodoInv /\ RowInv /\ ReportAgreesWithCapture

-----------------------------------------------------------------------------
(***************************************************************************)
(* A claimed row stays fresh while its capture keeps its outcome, or once  *)
(* the capture is gone.                                                    *)
(***************************************************************************)
LEMMA FreshKept ==
  ASSUME NEW row, Fresh(row), inbox'[row.capture] = "processed",
         SameOutcome(captures'[row.capture], captures[row.capture])
            \/ captures'[row.capture].status = "none"
  PROVE  Fresh(row)'
  BY DEF Fresh, SameOutcome, Snapshot, Live, Reported

(***************************************************************************)
(* Agreement depends on the outcome only, not on the schedule.             *)
(***************************************************************************)
LEMMA AgreesKept ==
  ASSUME NEW k, NEW a, NEW b, SameOutcome(a, b), Agrees(k, b, FALSE)
  PROVE  Agrees(k, a, FALSE)
  BY DEF Agrees, SameOutcome

(***************************************************************************)
(* A step that leaves the pass alone or ends it, and changes no outcome of *)
(* a capture that exists, keeps what the pass relies on.                   *)
(***************************************************************************)
LEMMA PassFrame ==
  ASSUME TypeOK, WorkerInv, TodoInv, RowInv,
         \A c \in Commands : inbox[c] = "processed" =>
            /\ inbox'[c] = "processed"
            /\ SameOutcome(captures'[c], captures[c]) \/ captures'[c].status = "none",
         \A i \in Instances :
            pass'[i] = pass[i] \/ (pass'[i].todo = {} /\ pass'[i].at \in {"idle", "stopped"})
  PROVE  TodoInv' /\ RowInv'
<1>1. ASSUME NEW i \in Instances, pass'[i] = pass[i], NEW row \in pass[i].todo
      PROVE  Fresh(row)'
  <2>1. Fresh(row) /\ row.capture \in Commands /\ inbox[row.capture] = "processed"
    BY <1>1 DEF TodoInv, Fresh, DueRows
  <2> QED
    BY <2>1, FreshKept
<1>2. TodoInv'
  BY <1>1 DEF TodoInv, Working
<1>3. ASSUME NEW i \in Instances, Working(i)'
      PROVE  /\ inbox[pass[i].row.capture]' = "processed"
             /\ Live(pass[i].row.capture)' => ~Reported(pass[i].row.capture)'
             /\ pass[i].at' \in {"attempt", "count"} =>
                   Fresh(pass[i].row)' /\ pass[i].row.status' = "accepted"
             /\ pass[i].at' = "report" /\ Live(pass[i].row.capture)' =>
                   Agrees(pass[i].terminal, captures[pass[i].row.capture], FALSE)'
  <2>1. pass'[i] = pass[i] /\ Working(i)
    BY <1>3 DEF Working
  <2>2. PICK row \in DueRows : row = pass[i].row
    BY <2>1 DEF Working, WorkerInv
  <2> DEFINE c == row.capture
  <2>3. c \in Commands /\ inbox[c] = "processed" /\ inbox'[c] = "processed"
    BY <2>1, <2>2 DEF RowInv, DueRows
  <2>4. SameOutcome(captures'[c], captures[c]) \/ captures'[c].status = "none"
    BY <2>3
  <2>5. captures'[c].status # "none" => captures'[c].reported_at # "set"
    BY <2>1, <2>2, <2>4 DEF RowInv, SameOutcome, Live, Reported
  <2>6. pass[i].at \in {"attempt", "count"} => Fresh(row)' /\ row.status = "accepted"
    BY <2>1, <2>2, <2>3, <2>4, FreshKept DEF RowInv
  <2>7. pass[i].at = "report" /\ captures'[c].status # "none" =>
           Agrees(pass[i].terminal, captures'[c], FALSE)
    BY <2>1, <2>2, <2>4, AgreesKept DEF RowInv, SameOutcome, Live
  <2> QED
    BY <2>1, <2>2, <2>3, <2>5, <2>6, <2>7 DEF Live, Reported, Agrees, Fresh
<1>4. RowInv'
  BY <1>3 DEF RowInv
<1> QED
  BY <1>2, <1>4

(***************************************************************************)
(* A step that files no terminal report of an existing capture, changes no *)
(* reported capture's outcome and forgets no removal keeps the reports     *)
(* truthful.                                                               *)
(***************************************************************************)
LEMMA ReportsFrame ==
  ASSUME TypeOK, Books, ReportAgreesWithCapture, removals \subseteq removals',
         \A r \in reports' : r \in reports \/ r.kind = "queued"
                               \/ captures'[r.operation].status = "none",
         \A c \in Commands : inbox[c] # "none" /\ (Live(c) => Reported(c)) =>
            SameOutcome(captures'[c], captures[c]) \/ captures'[c].status = "none"
  PROVE  ReportAgreesWithCapture'
<1> SUFFICES ASSUME NEW r \in reports', captures'[r.operation].status # "none",
                    r.kind # "queued"
             PROVE  Agrees(r.kind, captures'[r.operation], HoldingOf[r.operation] \in removals')
  BY DEF ReportAgreesWithCapture, Live, Agrees
<1>1. r \in reports /\ r.operation \in Commands
  BY DEF TypeOK, Reports
<1>2. inbox[r.operation] # "none" /\ (Live(r.operation) => Reported(r.operation))
  BY <1>1 DEF Books, MarkedRows, GuardedRows
<1>3. SameOutcome(captures'[r.operation], captures[r.operation])
  BY <1>1, <1>2
<1>4. Live(r.operation)
  BY <1>3 DEF SameOutcome, Live
<1>5. Agrees(r.kind, captures[r.operation], HoldingOf[r.operation] \in removals)
  BY <1>1, <1>4 DEF ReportAgreesWithCapture
<1>6. HoldingOf[r.operation] \in removals => HoldingOf[r.operation] \in removals'
  OBVIOUS
<1> QED
  BY <1>3, <1>5, <1>6 DEF Agrees, SameOutcome

(***************************************************************************)
(* A step that changes no outcome at all keeps everything.                 *)
(***************************************************************************)
LEMMA OutcomeFrame ==
  ASSUME TypeOK, WorkerInv, Books, ResolverInv, inbox' = inbox, reports' \subseteq reports,
         removals \subseteq removals',
         \A c \in Commands :
            SameOutcome(captures'[c], captures[c]) \/ captures'[c].status = "none",
         \A i \in Instances :
            pass'[i] = pass[i] \/ (pass'[i].todo = {} /\ pass'[i].at \in {"idle", "stopped"})
  PROVE  ResolverInv'
<1>1. TodoInv' /\ RowInv'
  BY PassFrame DEF ResolverInv
<1>2. ReportAgreesWithCapture'
  BY ReportsFrame DEF ResolverInv
<1>3. Evidence'
  BY DEF ResolverInv, Evidence, SameOutcome, Live
<1> QED
  BY <1>1, <1>2, <1>3 DEF ResolverInv

-----------------------------------------------------------------------------
(***************************************************************************)
(* The command consumer's steps keep the resolver's invariant: a capture   *)
(* is new when a delivery inserts it, so no pass has claimed it.           *)
(***************************************************************************)
LEMMA ResolverBusStep ==
  ASSUME TypeOK, WorkerInv, Books, ResolverInv, NEW i \in Instances, BusStep(i)
  PROVE  ResolverInv'
<1>1. CASE deliver(i)
  <2>1. PICK c \in Commands : c = bus[i].command
    BY <1>1 DEF deliver, WorkerInv
  <2>2. inbox[c] = "none" /\ ~Live(c)
    BY <1>1, <2>1 DEF deliver, FirstDelivery, Books, MarkedCaptures
  <2>3. /\ \A x \in Commands : x # c => captures'[x] = captures[x] /\ inbox'[x] = inbox[x]
        /\ captures'[c] = captures[c] \/ captures'[c] = AcceptedCapture
        /\ pass' = pass /\ removals' = removals
    BY <1>1, <2>1 DEF deliver, TypeOK
  <2>4. \A r \in reports' : r \in reports \/ r.kind = "queued"
    <3>1. \E d : append_report(c, d, "queued")
      BY <1>1, <2>1 DEF deliver, QueueReport
    <3> QED
      BY <3>1, SMT DEF append_report
  <2>5. AcceptedCapture.status = "accepted" /\ AcceptedCapture.tombstone = "none"
    BY DEF AcceptedCapture, NoCapture
  <2>6. TodoInv' /\ RowInv'
    BY <2>2, <2>3, PassFrame DEF ResolverInv, SameOutcome
  <2>7. ReportAgreesWithCapture'
    BY <2>2, <2>3, <2>4, ReportsFrame DEF ResolverInv, SameOutcome
  <2>8. Evidence'
    BY <2>3, <2>5 DEF ResolverInv, Evidence, Live
  <2> QED
    BY <2>6, <2>7, <2>8 DEF ResolverInv
<1>2. CASE reject(i)
  <2>1. PICK c \in Commands : c = bus[i].command
    BY <1>2 DEF reject, WorkerInv
  <2>2. inbox[c] = "none" /\ captures[c].status = "none"
    BY <1>2, <2>1 DEF reject, FirstDelivery, Books, MarkedCaptures, Live
  <2>3. /\ \A x \in Commands : x # c => inbox'[x] = inbox[x]
        /\ captures' = captures /\ pass' = pass /\ removals' = removals
    BY <1>2, <2>1 DEF reject, TypeOK
  <2>4. \A r \in reports' : r \in reports \/ r.operation = c
    <3>1. append_report(c, "operation", "inaccessible")
      BY <1>2, <2>1 DEF reject
    <3> QED
      BY <3>1, SMT DEF append_report
  <2>5. TodoInv' /\ RowInv'
    BY <2>2, <2>3, PassFrame DEF ResolverInv, SameOutcome
  <2>6. ReportAgreesWithCapture'
    BY <2>2, <2>3, <2>4, ReportsFrame DEF ResolverInv, SameOutcome
  <2>7. Evidence'
    BY <2>3 DEF ResolverInv, Evidence, Live
  <2> QED
    BY <2>5, <2>6, <2>7 DEF ResolverInv
<1>3. CASE Receive(i) \/ Redelivered(i) \/ Terminate(i) \/ Acknowledge(i)
  BY <1>3, OutcomeFrame DEF Receive, Redelivered, Terminate, Acknowledge, SameOutcome
<1> QED
  BY <1>1, <1>2, <1>3 DEF BusStep

(***************************************************************************)
(* Faults, restarts, time and deletions keep it too.                       *)
(***************************************************************************)
LEMMA ResolverOtherStep ==
  ASSUME TypeOK, WorkerInv, Books, ResolverInv,
         \/ \E i \in Instances : Restart(i) \/ FaultStep(i)
         \/ \E c \in Commands :
               TimePasses(c) \/ CountHoldings(c) \/ DeleteCapture(c) \/ DeletionFails(c)
  PROVE  ResolverInv'
<1>1. ASSUME NEW i \in Instances, Restart(i) \/ FaultStep(i) PROVE ResolverInv'
  <2>1. UNCHANGED <<inbox, captures, reports, removals>>
    BY <1>1 DEF Restart, FaultStep, Unsettled, BusStops, LocalFault, Crash
  <2>2. \A j \in Instances :
           pass'[j] = pass[j] \/ (pass'[j].todo = {} /\ pass'[j].at \in {"idle", "stopped"})
    BY <1>1, SMT DEF Restart, FaultStep, Unsettled, BusStops, LocalFault, Crash, Reset,
                PassStops, IdlePass, TypeOK
  <2> QED
    BY <2>1, <2>2, OutcomeFrame DEF SameOutcome
<1>2. ASSUME NEW c \in Commands, TimePasses(c) PROVE ResolverInv'
  <2>1. \A x \in Commands : SameOutcome(captures'[x], captures[x])
    BY <1>2, SMT DEF TimePasses, Expire, SameOutcome, TypeOK, CaptureRows
  <2> QED
    BY <1>2, <2>1, OutcomeFrame DEF TimePasses
<1>3. ASSUME NEW c \in Commands, DeleteCapture(c) PROVE ResolverInv'
  <2>1. \A x \in Commands :
           SameOutcome(captures'[x], captures[x]) \/ captures'[x].status = "none"
    BY <1>3 DEF DeleteCapture, NoCapture, SameOutcome, TypeOK
  <2> QED
    BY <1>3, <2>1, OutcomeFrame DEF DeleteCapture
<1>4. ASSUME NEW c \in Commands, CountHoldings(c) \/ DeletionFails(c) PROVE ResolverInv'
  BY <1>4, OutcomeFrame DEF CountHoldings, DeletionFails, SameOutcome
<1> QED
  BY <1>1, <1>2, <1>3, <1>4

-----------------------------------------------------------------------------
(***************************************************************************)
(* claim takes rows as they are: due, unreported, and of nobody else.      *)
(***************************************************************************)
LEMMA ResolverClaim ==
  ASSUME Solo, TypeOK, WorkerInv, Books, ResolverInv, NEW i \in Instances, claim(i)
  PROVE  ResolverInv'
<1>1. PICK S \in SUBSET {c \in Commands : Claimable(c)} :
         /\ pass' = [pass EXCEPT ![i].todo = {Snapshot(c) : c \in S}]
         /\ captures' = [c \in Commands |->
                           IF c \in S THEN Lease(captures[c]) ELSE captures[c]]
  BY DEF claim
<1>2. \A c \in Commands : SameOutcome(captures'[c], captures[c])
  BY <1>1, SMT DEF Lease, SameOutcome, TypeOK, CaptureRows
<1>3. pass'[i].todo = {Snapshot(c) : c \in S} /\ pass'[i].at = "idle"
      /\ inbox' = inbox /\ reports' = reports /\ removals' = removals
  <2>1. pass[i].at = "idle" /\ inbox' = inbox /\ reports' = reports /\ removals' = removals
    BY DEF claim
  <2>2. pass \in [Instances -> PassStates]
    BY DEF TypeOK, PassStates
  <2>3. pass'[i].todo = {Snapshot(c) : c \in S} /\ pass'[i].at = pass[i].at
    BY <1>1, <2>2 DEF PassStates
  <2> QED
    BY <2>1, <2>3
<1>4. ASSUME NEW c \in S PROVE Fresh(Snapshot(c)) /\ Snapshot(c).capture = c
  BY SnapshotType DEF Claimable, Free, Fresh, Snapshot, Books, MarkedCaptures
<1>5. ASSUME NEW row \in pass'[i].todo PROVE Fresh(row)'
  <2>1. PICK c \in S : row = Snapshot(c)
    BY <1>3
  <2>2. Fresh(row) /\ row.capture = c /\ c \in Commands
    BY <1>4, <2>1
  <2> QED
    BY <1>2, <1>3, <2>2, FreshKept DEF Fresh
<1>6. \A a, b \in pass'[i].todo : a.capture = b.capture => a = b
  BY <1>3, <1>4
<1>7. TodoInv' /\ RowInv'
  BY <1>3, <1>5, <1>6 DEF TodoInv, RowInv, Working, Solo
<1>8. ReportAgreesWithCapture'
  BY <1>2, <1>3, ReportsFrame DEF ResolverInv
<1>9. Evidence'
  BY <1>2 DEF ResolverInv, Evidence, SameOutcome, Live
<1> QED
  BY <1>7, <1>8, <1>9 DEF ResolverInv

(***************************************************************************)
(* process judges a fresh row: what it reports at once is what the         *)
(* database holds, and what it fetches is undecided.                       *)
(***************************************************************************)
LEMMA ResolverProcess ==
  ASSUME Solo, TypeOK, WorkerInv, Books, ResolverInv, NEW i \in Instances, process(i)
  PROVE  ResolverInv'
<1>1. PICK row \in pass[i].todo :
         pass' = [pass EXCEPT ![i] =
                   [at |-> IF recorded_terminal(row) = "none" THEN "attempt" ELSE "report",
                    todo |-> pass[i].todo \ {row},
                    row |-> row,
                    terminal |-> recorded_terminal(row)]]
  BY DEF process
<1>2. /\ pass'[i].todo = pass[i].todo \ {row} /\ pass'[i].row = row
      /\ pass'[i].terminal = recorded_terminal(row)
      /\ pass'[i].at = IF recorded_terminal(row) = "none" THEN "attempt" ELSE "report"
  BY <1>1 DEF TypeOK
<1>3. UNCHANGED <<inbox, captures, reports, removals>>
  BY DEF process
<1>4. Fresh(row)
  BY <1>1 DEF ResolverInv, TodoInv
<1>5. TodoInv'
  <2>1. \A x \in pass'[i].todo : Fresh(x)' /\ x.capture # row.capture
    BY <1>1, <1>2, <1>3 DEF ResolverInv, TodoInv, Fresh, Snapshot, Live, Reported
  <2>2. \A a, b \in pass'[i].todo : a.capture = b.capture => a = b
    BY <1>2 DEF ResolverInv, TodoInv
  <2> QED
    BY <1>2, <2>1, <2>2 DEF TodoInv, Solo
<1>6. row.capture \in Commands /\ row.status \in Statuses /\ row.attempts \in 0..MaxAttempts
  BY <1>4 DEF Fresh, DueRows
<1>7. recorded_terminal(row) = "none" => row.status = "accepted"
  BY <1>6 DEF recorded_terminal, Statuses
<1>8. ASSUME Live(row.capture), recorded_terminal(row) # "none"
      PROVE  Agrees(recorded_terminal(row), captures[row.capture], FALSE)
  <2> DEFINE held == captures[row.capture]
  <2>1. row.status = held.status /\ row.attempts = held.attempts
    BY <1>4, <1>8, SMT DEF Fresh, Snapshot
  <2>2. CASE row.status = "resolved"
    <3>1. recorded_terminal(row) = "preserved"
      BY <2>2 DEF recorded_terminal
    <3>2. held.post_id = "set"
      BY <1>6, <1>8, <2>1, <2>2 DEF ResolverInv, Evidence
    <3> QED
      BY <2>1, <2>2, <3>1, <3>2 DEF Agrees, Unavailability
  <2>3. CASE row.status = "unavailable"
    <3>1. held.tombstone \in Unavailability
      BY <1>6, <1>8, <2>1, <2>3 DEF ResolverInv, Evidence
    <3>2. recorded_terminal(row) = held.tombstone
      BY <2>3, <3>1 DEF recorded_terminal, Unavailability
    <3> QED
      BY <2>1, <2>3, <3>1, <3>2 DEF Agrees, Unavailability
  <2>4. CASE row.status = "accepted"
    <3>1. recorded_terminal(row) = "transient" /\ row.attempts >= MaxAttempts
      BY <1>8, <2>4 DEF recorded_terminal
    <3>2. row.attempts = MaxAttempts
      BY <1>6, <3>1, PolicyAssumption, SMT
    <3>3. held.tombstone = "none"
      BY <1>6, <1>8, <2>1, <2>4 DEF ResolverInv, Evidence
    <3> QED
      BY <2>1, <2>4, <3>1, <3>2, <3>3 DEF Agrees, Unavailability
  <2> QED
    BY <1>6, <2>2, <2>3, <2>4 DEF Statuses
<1>9. RowInv'
  <2>1. /\ inbox'[row.capture] = "processed"
        /\ Live(row.capture)' => ~Reported(row.capture)'
        /\ Fresh(row)'
    BY <1>3, <1>4 DEF Fresh, Live, Reported, Snapshot
  <2>2. Live(row.capture)' /\ recorded_terminal(row) # "none" =>
           Agrees(recorded_terminal(row), captures'[row.capture], FALSE)
    BY <1>3, <1>8 DEF Live
  <2>3. pass'[i].at \in {"attempt", "count"} => row.status = "accepted"
    BY <1>2, <1>7
  <2>4. pass'[i].at = "report" => recorded_terminal(row) # "none"
    BY <1>2
  <2> QED
    BY <1>2, <2>1, <2>2, <2>3, <2>4 DEF RowInv, Solo, Live, Reported, Fresh, Agrees
<1>10. ReportAgreesWithCapture' /\ Evidence'
  BY <1>3 DEF ResolverInv, ReportAgreesWithCapture, Evidence, Live
<1> QED
  BY <1>5, <1>9, <1>10 DEF ResolverInv

(***************************************************************************)
(* A step of the pass on its own row: the rest of its rows are of other    *)
(* captures, and what it will report next agrees with what it recorded.    *)
(***************************************************************************)
LEMMA OwnRow ==
  ASSUME Solo, TypeOK, WorkerInv, TodoInv, RowInv, NEW i \in Instances, Working(i),
         NEW c \in Commands, c = pass[i].row.capture,
         \A x \in Commands : x # c => captures'[x] = captures[x],
         inbox' = inbox, pass'[i].todo = pass[i].todo,
         \/ pass'[i].at = "idle"
         \/ /\ pass'[i].at = "report" /\ pass'[i].row = pass[i].row
            /\ captures'[c].status # "none" =>
                  /\ captures'[c].reported_at # "set"
                  /\ Agrees(pass'[i].terminal, captures'[c], FALSE)
  PROVE  TodoInv' /\ RowInv'
<1>1. ASSUME NEW row \in pass[i].todo PROVE Fresh(row)' /\ row.capture # c
  <2>1. Fresh(row) /\ row.capture # c
    BY <1>1 DEF TodoInv
  <2>2. row.capture \in Commands
    BY <2>1 DEF Fresh, DueRows
  <2> QED
    BY <2>1, <2>2, FreshKept DEF Fresh, SameOutcome
<1>2. TodoInv'
  BY <1>1 DEF TodoInv, Working, Solo
<1>3. inbox'[c] = "processed"
  BY DEF RowInv
<1>4. RowInv'
  <2>1. CASE pass'[i].at = "idle"
    BY <2>1 DEF RowInv, Working, Solo
  <2>2. CASE /\ pass'[i].at = "report" /\ pass'[i].row = pass[i].row
             /\ captures'[c].status # "none" =>
                   /\ captures'[c].reported_at # "set"
                   /\ Agrees(pass'[i].terminal, captures'[c], FALSE)
    <3>1. pass'[i].row.capture = c /\ pass'[i].at \notin {"attempt", "count"}
      BY <2>2
    <3>2. \A j \in Instances : j = i
      BY DEF Solo
    <3> QED
      BY <1>3, <2>2, <3>1, <3>2 DEF RowInv, Live, Reported
  <2> QED
    BY <2>1, <2>2
<1> QED
  BY <1>2, <1>4

(***************************************************************************)
(* Recording an outcome: the pass reports what it has just recorded, for a *)
(* capture without a terminal report.                                      *)
(***************************************************************************)
LEMMA ResolverRecord ==
  ASSUME Solo, TypeOK, WorkerInv, Books, ResolverInv, NEW i \in Instances,
         RecordResolved(i) \/ mark_unavailable(i) \/ record_transient_failure(i)
  PROVE  ResolverInv'
<1>1. Working(i) /\ pass[i].row \in DueRows
  BY DEF RecordResolved, mark_unavailable, record_transient_failure, Working, WorkerInv
<1>2. PICK c \in Commands : c = pass[i].row.capture
  BY <1>1 DEF DueRows
<1>3. captures[c] \in CaptureRows /\ (Live(c) => ~Reported(c))
  BY <1>1, <1>2 DEF TypeOK, ResolverInv, RowInv
<1>4. /\ UNCHANGED <<inbox, reports, removals>>
      /\ \A x \in Commands : x # c => captures'[x] = captures[x]
      /\ ~Live(c) => captures'[c] = captures[c]
  BY <1>2 DEF RecordResolved, mark_unavailable, record_transient_failure, Free, TypeOK
<1>5. ASSUME Live(c), NEW k \in TerminalKinds, ReportNext(i, k),
             captures'[c].reported_at = captures[c].reported_at, Agrees(k, captures'[c], FALSE)
      PROVE  TodoInv' /\ RowInv'
  <2>1. /\ pass'[i].at = "report" /\ pass'[i].row = pass[i].row /\ pass'[i].terminal = k
        /\ pass'[i].todo = pass[i].todo
    BY <1>5, SMT DEF ReportNext, TypeOK
  <2> QED
    BY <1>1, <1>2, <1>3, <1>4, <1>5, <2>1, OwnRow DEF ResolverInv, Reported
<1>6. CASE RecordResolved(i)
  <2>1. captures'[c] = Resolve(captures[c]) /\ Live(c) /\ ReportNext(i, "preserved")
    BY <1>2, <1>6 DEF RecordResolved, Free, TypeOK
  <2>2. /\ captures'[c].status = "resolved" /\ captures'[c].post_id = "set"
        /\ captures'[c].reported_at = captures[c].reported_at
    BY <1>3, <2>1 DEF Resolve, CaptureRows
  <2>3. TodoInv' /\ RowInv'
    BY <1>5, <2>1, <2>2 DEF Agrees, TerminalKinds, Unavailability
  <2>4. Evidence'
    BY <1>4, <2>2 DEF ResolverInv, Evidence, Live
  <2> QED
    BY <1>3, <1>4, <2>1, <2>3, <2>4, ReportsFrame DEF ResolverInv, SameOutcome
<1>7. CASE mark_unavailable(i)
  <2>1. PICK a \in Unavailability :
           captures'[c] = Bury(captures[c], a) /\ Live(c) /\ ReportNext(i, a)
    BY <1>2, <1>7 DEF mark_unavailable, Free, TypeOK
  <2>2. /\ captures'[c].status = "unavailable" /\ captures'[c].tombstone = a
        /\ captures'[c].reported_at = captures[c].reported_at
    BY <1>3, <2>1 DEF Bury, CaptureRows
  <2>3. TodoInv' /\ RowInv'
    BY <1>5, <2>1, <2>2 DEF Agrees, TerminalKinds, Unavailability
  <2>4. Evidence'
    BY <1>4, <2>2 DEF ResolverInv, Evidence, Live
  <2> QED
    BY <1>3, <1>4, <2>1, <2>3, <2>4, ReportsFrame DEF ResolverInv, SameOutcome
<1>8. CASE record_transient_failure(i)
  <2> DEFINE n == CountedAttempts(pass[i].row)
  <2>1. Live(c) => captures'[c] = Reschedule(captures[c], n)
    BY <1>2, <1>8 DEF record_transient_failure, TypeOK
  <2>2. Live(c) => /\ captures'[c].status = captures[c].status /\ captures'[c].attempts = n
                   /\ captures'[c].tombstone = captures[c].tombstone
                   /\ captures'[c].post_id = captures[c].post_id
                   /\ captures'[c].reported_at = captures[c].reported_at
    BY <1>3, <2>1 DEF Reschedule, CaptureRows
  <2>3. Live(c) => captures[c].status = "accepted" /\ captures[c].tombstone = "none"
    <3>1. Fresh(pass[i].row) /\ pass[i].row.status = "accepted"
      BY <1>1, <1>8 DEF record_transient_failure, ResolverInv, RowInv
    <3>2. Live(c) => pass[i].row = Snapshot(c)
      BY <1>2, <3>1 DEF Fresh
    <3>3. Snapshot(c).status = captures[c].status
      BY DEF Snapshot
    <3>4. Live(c) => captures[c].status = "accepted"
      BY <3>1, <3>2, <3>3
    <3> QED
      BY <3>4 DEF ResolverInv, Evidence
  <2>4. ASSUME pass' = [pass EXCEPT ![i] = [IdlePass EXCEPT !.todo = pass[i].todo]]
        PROVE  TodoInv' /\ RowInv'
    <3>1. pass'[i].at = "idle" /\ pass'[i].todo = pass[i].todo
      BY <2>4 DEF IdlePass, TypeOK
    <3> QED
      BY <1>1, <1>2, <1>4, <3>1, OwnRow DEF ResolverInv
  <2>5. ASSUME n >= MaxAttempts, ReportNext(i, "transient")
        PROVE  TodoInv' /\ RowInv'
    <3>1. n = MaxAttempts
      BY <1>8, <2>5, PolicyAssumption, SMT
         DEF record_transient_failure, WorkerInv, CountedAttempts, DueRows
    <3>2. /\ pass'[i].at = "report" /\ pass'[i].row = pass[i].row
          /\ pass'[i].terminal = "transient" /\ pass'[i].todo = pass[i].todo
      BY <2>5, SMT DEF ReportNext, TypeOK
    <3>3. captures'[c].status # "none" =>
             captures'[c].reported_at # "set" /\ Agrees("transient", captures'[c], FALSE)
      BY <1>3, <1>4, <2>2, <2>3, <3>1 DEF Live, Reported, Agrees, Unavailability
    <3> QED
      BY <1>1, <1>2, <1>4, <3>2, <3>3, OwnRow DEF ResolverInv
  <2>6. TodoInv' /\ RowInv'
    BY <1>8, <2>4, <2>5 DEF record_transient_failure
  <2>7. Evidence'
    BY <1>4, <2>2, <2>3 DEF ResolverInv, Evidence, Live
  <2>8. ReportAgreesWithCapture'
    BY <1>3, <1>4, ReportsFrame DEF ResolverInv, SameOutcome
  <2> QED
    BY <2>6, <2>7, <2>8 DEF ResolverInv
<1> QED
  BY <1>6, <1>7, <1>8

(***************************************************************************)
(* report files what agrees with the capture; where it falls back for a    *)
(* vanished source, an owner has removed that source.                      *)
(***************************************************************************)
LEMMA ResolverReport ==
  ASSUME Solo, TypeOK, WorkerInv, Books, SourceInv, ResolverInv, NEW i \in Instances, report(i)
  PROVE  ResolverInv'
<1>1. /\ Working(i) /\ pass[i].row \in DueRows /\ pass[i].at = "report"
      /\ pass[i].terminal \in TerminalKinds
  BY DEF report, Working, WorkerInv
<1>2. PICK c \in Commands : c = pass[i].row.capture
  BY <1>1 DEF DueRows
<1>3. PICK k \in TerminalKinds : k = pass[i].terminal
  BY <1>1
<1>4. /\ pass'[i].at = "idle" /\ pass'[i].todo = pass[i].todo
      /\ inbox' = inbox /\ removals' = removals
  BY DEF report, IdlePass, TypeOK
<1>5. captures[c] \in CaptureRows
  BY DEF TypeOK
<1>6. CASE ~Unreported(c)
  <2>1. UNCHANGED <<captures, reports>>
    BY <1>2, <1>6 DEF report
  <2>2. TodoInv' /\ RowInv'
    BY <1>1, <1>2, <1>4, <2>1, OwnRow DEF ResolverInv
  <2> QED
    BY <1>4, <2>1, <2>2 DEF ResolverInv, ReportAgreesWithCapture, Evidence, Live
<1>7. CASE Unreported(c)
  <2>1. Live(c) /\ ~Reported(c) /\ Agrees(k, captures[c], FALSE)
    BY <1>1, <1>2, <1>3, <1>7 DEF Unreported, ResolverInv, RowInv
  <2> DEFINE kind == ReportKind(c, k)
  <2>2. Agrees(kind, captures[c], HoldingOf[c] \in removals)
    <3>1. CASE kind = k
      BY <2>1, <3>1 DEF Agrees
    <3>2. CASE kind # k
      <4>1. k = "preserved" /\ kind = "inaccessible" /\ ~stored_source(c)
        BY <3>2 DEF ReportKind
      <4>2. captures[c].status = "resolved" /\ captures[c].post_id = "set"
        BY <2>1, <4>1 DEF Agrees
      <4>3. HoldingOf[c] \in removals
        BY <2>1, <4>1, <4>2 DEF stored_source, HasPost, SourceInv
      <4> QED
        BY <4>1, <4>2, <4>3 DEF Agrees
    <3> QED
      BY <3>1, <3>2
  <2> HIDE DEF kind
  <2>3. /\ captures'[c] = MarkReported(captures[c])
        /\ \A x \in Commands : x # c => captures'[x] = captures[x]
    BY <1>2, <1>7 DEF report, TypeOK
  <2>4. /\ captures'[c].status = captures[c].status /\ captures'[c].attempts = captures[c].attempts
        /\ captures'[c].tombstone = captures[c].tombstone
        /\ captures'[c].post_id = captures[c].post_id
    BY <1>5, <2>3 DEF MarkReported, CaptureRows
  <2>5. \A r \in reports' : r \in reports \/ (r.operation = c /\ r.kind = kind)
    BY <1>2, <1>3, <1>7, SMT DEF kind, report, append_report
  <2>6. \A r \in reports : r.operation = c => r.kind = "queued"
    BY <2>1 DEF Books, GuardedRows
  <2>7. Agrees(kind, captures'[c], HoldingOf[c] \in removals')
    BY <1>4, <2>2, <2>4 DEF Agrees
  <2>8. ReportAgreesWithCapture'
    <3> SUFFICES ASSUME NEW r \in reports', captures'[r.operation].status # "none",
                        r.kind # "queued"
                 PROVE  Agrees(r.kind, captures'[r.operation],
                               HoldingOf[r.operation] \in removals')
      BY DEF ReportAgreesWithCapture, Live, Agrees
    <3>1. CASE r \in reports
      <4>1. r.operation \in Commands /\ r.operation # c
        BY <2>6, <3>1 DEF TypeOK, Reports
      <4>2. captures'[r.operation] = captures[r.operation]
        BY <2>3, <4>1
      <4> QED
        BY <1>4, <3>1, <4>2 DEF ResolverInv, ReportAgreesWithCapture, Live
    <3>2. CASE r.operation = c /\ r.kind = kind
      BY <2>7, <3>2
    <3> QED
      BY <2>5, <3>1, <3>2
  <2>9. TodoInv' /\ RowInv'
    BY <1>1, <1>2, <1>4, <2>3, OwnRow DEF ResolverInv
  <2>10. Evidence'
    BY <2>3, <2>4 DEF ResolverInv, Evidence, Live
  <2> QED
    BY <2>8, <2>9, <2>10 DEF ResolverInv
<1> QED
  BY <1>6, <1>7

(***************************************************************************)
(* Every step of a lone resolver keeps its invariant.                      *)
(***************************************************************************)
LEMMA ResolverNext ==
  ASSUME Solo, TypeOK, WorkerInv, Books, SourceInv, ResolverInv, [Next]_vars
  PROVE  ResolverInv'
<1>1. ASSUME NEW i \in Instances, ObserveResolverFailed(i) PROVE ResolverInv'
  <2>1. /\ pass[i].at = "attempt" /\ pass'[i].at = "count" /\ pass'[i].row = pass[i].row
        /\ pass'[i].todo = pass[i].todo /\ UNCHANGED <<inbox, captures, reports, removals>>
    BY <1>1 DEF ObserveResolverFailed, TypeOK
  <2>2. \A j \in Instances : j = i
    BY DEF Solo
  <2>3. Working(i) /\ Working(i)'
    BY <2>1 DEF Working
  <2>4. \A row : Fresh(row)' <=> Fresh(row)
    BY <2>1 DEF Fresh, Snapshot, Live, Reported
  <2>5. TodoInv'
    BY <2>1, <2>2, <2>3, <2>4 DEF ResolverInv, TodoInv
  <2>6. RowInv'
    BY <2>1, <2>2, <2>3, <2>4 DEF ResolverInv, RowInv, Live, Reported
  <2>7. Evidence'
    BY <2>1 DEF ResolverInv, Evidence, Live
  <2>8. ReportAgreesWithCapture'
    BY <2>1 DEF ResolverInv, ReportAgreesWithCapture, Live
  <2> QED
    BY <2>5, <2>6, <2>7, <2>8 DEF ResolverInv
<1>2. ASSUME NEW i \in Instances, CaptureVanished(i) PROVE ResolverInv'
  BY <1>2, OutcomeFrame DEF CaptureVanished, PassStops, IdlePass, TypeOK, SameOutcome
<1>3. CASE UNCHANGED vars
  BY <1>3, OutcomeFrame DEF vars, SameOutcome
<1> QED
  BY <1>1, <1>2, <1>3, ResolverBusStep, ResolverOtherStep, ResolverClaim, ResolverProcess,
     ResolverRecord, ResolverReport DEF Next, ResolverStep

(***************************************************************************)
(* A lone resolver's invariant holds in every reachable state.             *)
(***************************************************************************)
THEOREM ResolverInvKept == ASSUME Solo PROVE Spec => []ResolverInv
<1>1. Init => ResolverInv
  <2> SUFFICES ASSUME Init PROVE ResolverInv
    OBVIOUS
  <2>1. Evidence /\ ReportAgreesWithCapture
    BY DEF Init, Evidence, ReportAgreesWithCapture, Live, NoCapture
  <2>2. \A i \in Instances : pass[i].todo = {} /\ ~Working(i)
    BY DEF Init, IdlePass, Working
  <2>3. TodoInv /\ RowInv
    BY <2>2 DEF TodoInv, RowInv
  <2> QED
    BY <2>1, <2>3 DEF ResolverInv
<1>2. TypeOK /\ WorkerInv /\ Books /\ SourceInv /\ ResolverInv /\ [Next]_vars => ResolverInv'
  BY ResolverNext
<1> QED
  BY <1>1, <1>2, TypeCorrect, BooksKept, SourcesAreAccounted, PTL DEF Spec

(***************************************************************************)
(* With one resolver, every terminal report tells what the archive holds,  *)
(* but for the resolved capture whose source an owner removed.             *)
(***************************************************************************)
THEOREM ReportsAreTrue == ASSUME Solo PROVE Spec => []ReportAgreesWithCapture
<1>1. ResolverInv => ReportAgreesWithCapture
  BY DEF ResolverInv
<1> QED
  BY <1>1, ResolverInvKept, PTL

(***************************************************************************)
(* With one resolver, nothing decided is fetched again.                    *)
(***************************************************************************)
THEOREM DecidedIsNotFetched == ASSUME Solo PROVE Spec => []OnlyUndecidedIsFetched
<1>1. TypeOK /\ WorkerInv /\ ResolverInv => OnlyUndecidedIsFetched
  <2> SUFFICES ASSUME TypeOK, WorkerInv, ResolverInv, NEW i \in Instances,
                      pass[i].at = "attempt", Live(pass[i].row.capture)
               PROVE  LET row == captures[pass[i].row.capture] IN
                      row.status = "accepted" /\ row.reported_at = "null"
                      /\ row.attempts < MaxAttempts
    BY DEF OnlyUndecidedIsFetched
  <2>1. PICK row \in DueRows : row = pass[i].row
    BY DEF WorkerInv
  <2>2. Fresh(row) /\ row.status = "accepted" /\ row.attempts < MaxAttempts
    BY <2>1 DEF ResolverInv, RowInv, Working, WorkerInv
  <2>3. row = Snapshot(row.capture) /\ ~Reported(row.capture) /\ row.capture \in Commands
    BY <2>1, <2>2 DEF Fresh, DueRows
  <2>4. captures[row.capture].reported_at = "null"
    <3>1. captures[row.capture] \in CaptureRows
      BY <2>3 DEF TypeOK
    <3> QED
      BY <2>3, <3>1 DEF CaptureRows, Reported
  <2>5. /\ captures[row.capture].status = row.status
        /\ captures[row.capture].attempts = row.attempts
    BY <2>3, SMT DEF Snapshot
  <2> QED
    BY <2>1, <2>2, <2>4, <2>5
<1> QED
  BY <1>1, TypeCorrect, ResolverInvKept, PTL

-----------------------------------------------------------------------------
(***************************************************************************)
(* What OutcomeIsFinal says of one capture.                                *)
(***************************************************************************)
Final(a, b) ==
    a.status # "none" /\ b.status # "none" =>
        /\ a.status \in {"resolved", "unavailable"} => b.status = a.status
        /\ b.attempts >= a.attempts

(***************************************************************************)
(* A row whose outcome stays as it is loses nothing.                       *)
(***************************************************************************)
LEMMA SameIsFinal ==
  ASSUME NEW a \in CaptureRows, NEW b, SameOutcome(b, a)
  PROVE  Final(a, b)
  BY SMT DEF Final, SameOutcome, CaptureRows

(***************************************************************************)
(* The steps that record an outcome find the capture accepted, with the    *)
(* attempts the claim read.                                                *)
(***************************************************************************)
LEMMA RecordIsFinal ==
  ASSUME TypeOK, WorkerInv, ResolverInv, NEW i \in Instances,
         RecordResolved(i) \/ mark_unavailable(i) \/ record_transient_failure(i),
         NEW x \in Commands
  PROVE  Final(captures[x], captures'[x])
<1>1. /\ pass[i].row \in DueRows /\ Fresh(pass[i].row)
      /\ pass[i].row.status = "accepted"
  BY DEF RecordResolved, mark_unavailable, record_transient_failure, Working, WorkerInv,
         ResolverInv, RowInv
<1>2. PICK c \in Commands : c = pass[i].row.capture
  BY <1>1 DEF DueRows
<1>3. captures[c] \in CaptureRows /\ captures[x] \in CaptureRows
  BY DEF TypeOK
<1>4. Live(c) => captures[c].status = "accepted" /\ captures[c].attempts = pass[i].row.attempts
  <2>1. Live(c) => pass[i].row = Snapshot(c)
    BY <1>1, <1>2 DEF Fresh
  <2>2. Snapshot(c).status = captures[c].status /\ Snapshot(c).attempts = captures[c].attempts
    BY DEF Snapshot
  <2> QED
    BY <1>1, <2>1, <2>2
<1>5. CASE x # c \/ ~Live(c)
  <2>1. captures'[x] = captures[x] \/ (x = c /\ ~Live(c))
    BY <1>2, <1>5 DEF RecordResolved, mark_unavailable, record_transient_failure, TypeOK
  <2> QED
    BY <1>3, <2>1, SameIsFinal DEF SameOutcome, Final, Live
<1>6. CASE x = c /\ Live(c)
  <2>1. captures[c].attempts \in Nat
    BY <1>3, PolicyAssumption, SMT DEF CaptureRows
  <2>2. captures[c].status = "accepted"
    BY <1>4, <1>6
  <2>3. ASSUME captures'[c].attempts >= captures[c].attempts
        PROVE  Final(captures[x], captures'[x])
    <3>1. x = c
      BY <1>6
    <3> QED
      BY <2>2, <2>3, <3>1 DEF Final
  <2>4. CASE RecordResolved(i)
    <3>1. captures'[c] = Resolve(captures[c])
      BY <1>2, <2>4 DEF RecordResolved, TypeOK
    <3>2. captures'[c].attempts = captures[c].attempts
      BY <1>3, <3>1 DEF Resolve, CaptureRows
    <3>3. captures'[c].attempts >= captures[c].attempts
      BY ONLY <2>1, <3>2, SMT
    <3> QED
      BY <2>3, <3>3
  <2>5. CASE mark_unavailable(i)
    <3>1. PICK a \in Unavailability : captures'[c] = Bury(captures[c], a)
      BY <1>2, <2>5 DEF mark_unavailable, TypeOK
    <3>2. captures'[c].attempts = captures[c].attempts
      BY <1>3, <3>1 DEF Bury, CaptureRows
    <3>3. captures'[c].attempts >= captures[c].attempts
      BY ONLY <2>1, <3>2, SMT
    <3> QED
      BY <2>3, <3>3
  <2>6. CASE record_transient_failure(i)
    <3>1. captures'[c] = Reschedule(captures[c], CountedAttempts(pass[i].row))
      BY <1>2, <1>6, <2>6 DEF record_transient_failure, TypeOK
    <3>2. captures'[c].attempts = captures[c].attempts + 1
      BY <1>3, <1>4, <1>6, <3>1 DEF Reschedule, CaptureRows, CountedAttempts
    <3>3. captures'[c].attempts >= captures[c].attempts
      BY ONLY <2>1, <3>2, SMT
    <3> QED
      BY <2>3, <3>3
  <2> QED
    BY <2>4, <2>5, <2>6
<1> QED
  BY <1>5, <1>6

(***************************************************************************)
(* No step of a lone resolver's service takes an outcome back.             *)
(***************************************************************************)
LEMMA FinalNext ==
  ASSUME TypeOK, WorkerInv, Books, ResolverInv, [Next]_vars, NEW x \in Commands
  PROVE  Final(captures[x], captures'[x])
<1>1. captures[x] \in CaptureRows
  BY DEF TypeOK
<1>2. ASSUME captures' = captures PROVE Final(captures[x], captures'[x])
  BY <1>1, <1>2, SameIsFinal DEF SameOutcome
<1>3. ASSUME NEW i \in Instances, deliver(i) PROVE Final(captures[x], captures'[x])
  <2>1. captures'[x] = captures[x] \/ captures[x].status = "none"
    BY <1>3 DEF deliver, FirstDelivery, WorkerInv, TypeOK, Books, MarkedCaptures, Live
  <2> QED
    BY <1>1, <2>1, SameIsFinal DEF SameOutcome, Final
<1>4. ASSUME NEW i \in Instances, claim(i) PROVE Final(captures[x], captures'[x])
  <2>1. captures'[x] = captures[x] \/ captures'[x] = Lease(captures[x])
    BY <1>4 DEF claim
  <2>2. SameOutcome(captures'[x], captures[x])
    BY <1>1, <2>1 DEF Lease, SameOutcome, CaptureRows
  <2> QED
    BY <1>1, <2>2, SameIsFinal
<1>5. ASSUME NEW i \in Instances, report(i) PROVE Final(captures[x], captures'[x])
  <2>1. captures'[x] = captures[x] \/ captures'[x] = MarkReported(captures[x])
    BY <1>5, SMT DEF report, TypeOK
  <2>2. /\ captures'[x].status = captures[x].status
        /\ captures'[x].attempts = captures[x].attempts
    BY <1>1, <2>1 DEF MarkReported, CaptureRows
  <2> QED
    BY <1>1, <2>2, SMT DEF Final, CaptureRows
<1>6. ASSUME NEW c \in Commands, TimePasses(c) PROVE Final(captures[x], captures'[x])
  <2>1. captures'[x] = captures[x] \/ captures'[x] = Expire(captures[x])
    BY <1>6 DEF TimePasses, TypeOK
  <2>2. SameOutcome(captures'[x], captures[x])
    BY <1>1, <2>1 DEF Expire, SameOutcome, CaptureRows
  <2> QED
    BY <1>1, <2>2, SameIsFinal
<1>7. ASSUME NEW c \in Commands, DeleteCapture(c) PROVE Final(captures[x], captures'[x])
  <2>1. captures'[x] = captures[x] \/ captures'[x].status = "none"
    BY <1>7 DEF DeleteCapture, NoCapture, TypeOK
  <2> QED
    BY <1>1, <2>1, SameIsFinal DEF SameOutcome, Final
<1>8. ASSUME NEW i \in Instances, BusStep(i) PROVE Final(captures[x], captures'[x])
  BY <1>2, <1>3, <1>8 DEF BusStep, Receive, Redelivered, reject, Terminate, Acknowledge
<1>9. ASSUME NEW i \in Instances, ResolverStep(i) PROVE Final(captures[x], captures'[x])
  BY <1>2, <1>4, <1>5, <1>9, RecordIsFinal
     DEF ResolverStep, process, ObserveResolverFailed, CaptureVanished
<1>10. ASSUME NEW i \in Instances, Restart(i) \/ FaultStep(i)
       PROVE  Final(captures[x], captures'[x])
  BY <1>2, <1>10 DEF Restart, FaultStep, Unsettled, BusStops, LocalFault, Crash
<1>11. ASSUME NEW c \in Commands, CountHoldings(c) \/ DeletionFails(c)
       PROVE  Final(captures[x], captures'[x])
  BY <1>2, <1>11 DEF CountHoldings, DeletionFails
<1> QED
  BY <1>2, <1>6, <1>7, <1>8, <1>9, <1>10, <1>11 DEF Next, vars

(***************************************************************************)
(* With one resolver, a recorded outcome is final and counted attempts     *)
(* never go down.                                                          *)
(***************************************************************************)
THEOREM OutcomesAreFinal == ASSUME Solo PROVE Spec => OutcomeIsFinal
<1> DEFINE Kept == \A c \in Commands : Live(c) /\ Live(c)' =>
                     /\ captures[c].status \in {"resolved", "unavailable"} =>
                           captures'[c].status = captures[c].status
                     /\ captures'[c].attempts >= captures[c].attempts
<1>1. TypeOK /\ WorkerInv /\ Books /\ ResolverInv /\ [Next]_vars => [Kept]_vars
  BY FinalNext DEF Final, Live
<1> QED
  BY <1>1, TypeCorrect, BooksKept, ResolverInvKept, PTL DEF Spec, OutcomeIsFinal
=============================================================================
