------------------------- MODULE MCCaptureLifecycle -------------------------
(***************************************************************************)
(* Instances of CaptureLifecycle for TLC.                                  *)
(***************************************************************************)
EXTENDS CaptureLifecycle, TLC

CONSTANTS c1, c2, c3, i1, i2

(***************************************************************************)
(* Two accepted commands, under one idempotency key or under two; both     *)
(* permalinks name one post of one owner.                                  *)
(***************************************************************************)
Two == {c1, c2}

AllAccepted == [c \in Commands |-> "accepted"]

OneKey == [c \in Commands |-> "key"]

DistinctKeys == [c \in Commands |-> c]

OnePost == [c \in Commands |-> "post"]

(***************************************************************************)
(* Every intake class: two commands to capture, and one that is refused or *)
(* not attributable.                                                       *)
(***************************************************************************)
Three == {c1, c2, c3}

WithRejected == c1 :> "accepted" @@ c2 :> "accepted" @@ c3 :> "rejected"

WithInvalid == c1 :> "accepted" @@ c2 :> "accepted" @@ c3 :> "invalid"

(***************************************************************************)
(* Processes, and accepted commands of one key, are interchangeable; used  *)
(* where only safety is checked.  So are the two captured commands of      *)
(* WithRejected.                                                           *)
(***************************************************************************)
Interchangeable == Permutations(Instances) \union Permutations(Commands)

CapturesInterchangeable == Permutations({c1, c2})
=============================================================================
