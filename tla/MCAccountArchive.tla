-------------------------- MODULE MCAccountArchive --------------------------
(***************************************************************************)
(* A small instance of AccountArchive: what the provider lists and what    *)
(* public resolution observes.                                             *)
(***************************************************************************)
EXTENDS AccountArchive, TLC

CONSTANTS a1, p1, p2, c1, c2, s1, s2, r1, r2

(* One provider identity. *)
Identity == [a \in Accounts |-> a1]

(* The second page holds a reply to a post of public resolution. *)
Listing == <<{[post |-> p1, parent |-> "none"]}, {[post |-> p2, parent |-> p1]}>>

Reply(from, to) == [from |-> from, kind |-> "reply", to |-> to]

(* Two replies that close a cycle, a reply to itself, a malformed kind, a  *)
(* relation of another post, and one relation too many.                    *)
Seen ==
    {[post |-> p1, relations |-> {Reply(p1, p2)}],
     [post |-> p2, relations |-> {Reply(p2, p1)}],
     [post |-> p1, relations |-> {Reply(p1, p1)}],
     [post |-> p1, relations |-> {[from |-> p1, kind |-> "Reply", to |-> p2]}],
     [post |-> p1, relations |-> {Reply(p2, p1)}],
     [post |-> p2, relations |-> {Reply(p2, p1), [from |-> p2, kind |-> "quote", to |-> p1]}]}

Symmetry == Permutations({c1, c2}) \union Permutations({s1, s2}) \union Permutations({r1, r2})
=============================================================================
