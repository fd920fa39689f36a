-------------------------- MODULE MCSourceHoldings --------------------------
(***************************************************************************)
(* Instances of SourceHoldings for TLC.                                    *)
(***************************************************************************)
EXTENDS SourceHoldings, TLC

CONSTANTS u1, u2, c1, c2, c3, a1, p1

(***************************************************************************)
(* One post: its author's connection, two captures of the author under     *)
(* different acquisition methods, and a capture of another user.           *)
(***************************************************************************)
Owners == c1 :> u1 @@ c2 :> u1 @@ c3 :> u2 @@ a1 :> u1

PostsCaptured == [c \in Captures |-> p1]

Authors == p1 :> a1

Methods == c1 :> "browser_extension" @@ c2 :> "share_extension" @@ c3 :> "browser_extension"
=============================================================================
