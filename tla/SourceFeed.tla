----------------------------- MODULE SourceFeed -----------------------------
(***************************************************************************)
(* What the archive promises Knowledge about one owner's source: a source  *)
(* is captured first, updated only while it is in the library and only     *)
(* with a state that was not announced before, and removed once; after a   *)
(* removal it starts over.  SourceHoldings implements this.                *)
(***************************************************************************)
CONSTANT Sources

VARIABLES
    kind,  \* source -> the latest fact about it
    seen   \* source -> the digests announced since it was last captured

Init ==
    /\ kind = [s \in Sources |-> "none"]
    /\ seen = [s \in Sources |-> {}]

InLibrary(s) == kind[s] \in {"captured", "updated"}

(***************************************************************************)
(* The facts of one transaction: the first of an absent source captures    *)
(* it, every other one updates it with a state it did not have before.     *)
(***************************************************************************)
Announce(s) ==
    /\ seen[s] \subseteq seen'[s]
    /\ seen'[s] # seen[s]
    /\ InLibrary(s) => kind'[s] = "updated"
    /\ ~InLibrary(s) =>
        /\ seen[s] = {}
        /\ kind'[s] = IF \E d \in seen'[s] : seen'[s] = {d} THEN "captured" ELSE "updated"

Remove(s) ==
    /\ InLibrary(s)
    /\ kind'[s] = "removed"
    /\ seen'[s] = {}

Stay(s) == kind'[s] = kind[s] /\ seen'[s] = seen[s]

Next ==
    /\ kind' \in [Sources -> {"none", "captured", "updated", "removed"}]
    /\ DOMAIN seen' = Sources
    /\ \A s \in Sources : Announce(s) \/ Remove(s) \/ Stay(s)

Spec == Init /\ [][Next]_<<kind, seen>>
=============================================================================
