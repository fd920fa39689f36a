----------------------------- MODULE ReplyGraph -----------------------------
(***************************************************************************)
(* The relation check of public resolution (public_resolution.rs): which   *)
(* relations an observation may carry, and whether its resolved replies    *)
(* close a directed cycle.                                                 *)
(*                                                                         *)
(* A relation is its referencing post, its kind and its target; the        *)
(* permalink evidence of an unresolved target is left out.  A kind is      *)
(* "reply", another well-formed token, or a malformed one: WellFormed is   *)
(* the grammar of relation.rs.                                             *)
(***************************************************************************)
EXTENDS Naturals, FiniteSets

CONSTANTS
    Posts,         \* provider post identities
    Kinds,         \* relation kind tokens a provider sends
    WellFormed,    \* the tokens RelationKind accepts
    MaxRelations   \* MAX_RELATIONS_PER_OBSERVATION

ASSUME GraphAssumption ==
    /\ IsFiniteSet(Posts)
    /\ WellFormed \subseteq Kinds
    /\ "reply" \in WellFormed
    /\ MaxRelations \in Nat

RelationInput == [from : Posts, kind : Kinds, to : Posts]

(***************************************************************************)
(* An observation names its own post as the source of each relation.       *)
(***************************************************************************)
validate_relation_sources(post, relations) ==
    /\ Cardinality(relations) <= MaxRelations
    /\ \A relation \in relations : relation.from = post

(***************************************************************************)
(* Some posts searched one after another until one is found on a cycle; a  *)
(* post whose search has ended before is passed over.  search gives the    *)
(* outcome for a post and the complete posts before it.  The posts are     *)
(* taken in an arbitrary fixed order; the code's is that of its map.       *)
(***************************************************************************)
SearchEach(search, posts, complete) ==
    LET found[some \in SUBSET posts] ==
            LET last == CHOOSE p \in some : TRUE
                before == found[some \ {last}]
            IN  IF some = {} THEN [cycle |-> FALSE, complete |-> complete]
                ELSE IF before.cycle \/ last \in before.complete THEN before
                ELSE search[<<last, before.complete>>]
    IN  found[posts]

(***************************************************************************)
(* The depth-first search below the current post.  visiting is the path to *)
(* it, and complete the posts whose searches ended without a cycle.        *)
(***************************************************************************)
visits_cycle(replies) ==
    LET visits[visiting \in SUBSET Posts] ==
            [at \in Posts \X SUBSET Posts |->
                LET current == at[1]
                    targets == {target \in Posts : <<current, target>> \in replies}
                    below == SearchEach(visits[visiting \union {current}], targets, at[2])
                IN  IF current \in visiting THEN [cycle |-> TRUE, complete |-> at[2]]
                    ELSE IF below.cycle THEN below
                    ELSE [cycle |-> FALSE, complete |-> below.complete \union {current}]]
    IN  visits

has_reply_cycle(replies) ==
    SearchEach(visits_cycle(replies)[{}], {edge[1] : edge \in replies}, {}).cycle

(***************************************************************************)
(* The replies between posts of the archive are the resolved ones.         *)
(***************************************************************************)
Resolved(known, relations) ==
    {<<r.from, r.to>> : r \in {r \in relations : r.kind = "reply" /\ r.to \in known}}

(***************************************************************************)
(* Whether normalize_relations returns the relations, and not              *)
(* RelationKindError or ReplyCycle.                                        *)
(***************************************************************************)
normalize_relations(known, relations) ==
    /\ \A relation \in relations : relation.kind \in WellFormed
    /\ ~ has_reply_cycle(Resolved(known, relations))

(***************************************************************************)
(* The reference definition of a cycle, free of any search: posts each of  *)
(* which replies to one of them.                                           *)
(***************************************************************************)
HasCycle(replies) ==
    \E loop \in (SUBSET Posts) \ {{}} : \A p \in loop : \E q \in loop : <<p, q>> \in replies
=============================================================================
