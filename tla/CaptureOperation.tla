-------------------------- MODULE CaptureOperation --------------------------
(***************************************************************************)
(* What the service promises Platform about the operations it is asked to  *)
(* carry out: an operation is refused at once or queued, a queued one ends *)
(* once, and the only thing that can happen to it afterwards is that its   *)
(* owner withdraws the capture.  CaptureLifecycle implements this.         *)
(***************************************************************************)
CONSTANT Operations

VARIABLE state

(***************************************************************************)
(* Every operation starts as a command nobody has consumed.                *)
(***************************************************************************)
Init == state = [o \in Operations |-> "issued"]

Move(o, from, to) ==
    /\ state[o] \in from
    /\ state' = [state EXCEPT ![o] = to]

Accept(o) == Move(o, {"issued"}, "queued")

Refuse(o) == Move(o, {"issued"}, "failed")

Finish(o) == Move(o, {"queued"}, "succeeded") \/ Move(o, {"queued"}, "failed")

Withdraw(o) == Move(o, {"queued", "succeeded", "failed"}, "withdrawn")

Next == \E o \in Operations : Accept(o) \/ Refuse(o) \/ Finish(o) \/ Withdraw(o)

Spec == Init /\ [][Next]_state
=============================================================================
