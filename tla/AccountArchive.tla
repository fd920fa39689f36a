--------------------------- MODULE AccountArchive ---------------------------
(***************************************************************************)
(* The posts and relations two lanes write together: own-account           *)
(* synchronization, page by page (OfficialAccount), and public resolution, *)
(* which checks the reply hierarchy (ReplyGraph) before it writes.         *)
(*                                                                         *)
(* A resolution holds RELATION_LOCK and the row of its post from its check *)
(* to its commit; a page of synchronization takes no such lock and checks  *)
(* nothing.  A relation row remembers whether its target had a post when   *)
(* it was written (target_post_id); the check resolves targets anew.       *)
(* Relations of an export are written like those of a page.                *)
(*                                                                         *)
(* A post is kept while a capture or a connection holds it.  One flag      *)
(* stands for the captures of a post and the sources of their owners: who  *)
(* holds what is in SourceHoldings.                                        *)
(***************************************************************************)
EXTENDS OfficialAccount, ReplyGraph

CONSTANTS
    Content,       \* page -> what it lists: own posts, each with the post it replies to or "none"
    Observations,  \* what public resolution observes: a post and its relations
    Resolvers      \* resolutions that may be open at once

ASSUME ArchiveAssumption ==
    /\ "none" \notin Posts /\ "absent" \notin Accounts
    /\ \A page \in 1 .. LastPage :
          Content[page] \subseteq [post : Posts, parent : Posts \union {"none"}]
    /\ Observations \subseteq [post : Posts, relations : SUBSET RelationInput]

VARIABLES
    owners,     \* post -> "absent", or its account_id, "none" for null
    captured,   \* posts a capture or its owner's source refers to
    relations,  \* post_relations rows
    linked,     \* the rows with a target_post_id
    resolving,  \* resolver -> the observation it has checked, or NoObservation
    checked     \* history: the rows a resolution checked

postVars == <<owners, captured, relations, linked, resolving, checked>>

vars == <<accountVars, postVars>>

NoObservation == [post |-> "none", relations |-> {}]

Init ==
    /\ AccountInit
    /\ owners = [p \in Posts |-> "absent"]
    /\ captured = {}
    /\ relations = {}
    /\ linked = {}
    /\ resolving = [r \in Resolvers |-> NoObservation]
    /\ checked = {}

Known == {p \in Posts : owners[p] # "absent"}

PostLocked(p) == \E r \in Resolvers : resolving[r].post = p

(***************************************************************************)
(* A relation row is inserted, or its target_post_id is set anew.          *)
(***************************************************************************)
Upsert(rows, known) ==
    /\ relations' = relations \union rows
    /\ linked' = (linked \ rows) \union {row \in rows : row.to \in known}

(***************************************************************************)
(* record_post and record_reply_relation for each post of a page, in one   *)
(* transaction; a parent on the same page may or may not precede its       *)
(* reply.  A post that is new to the account refers to the account row     *)
(* anew, which a deletion may hold; the posts of an account whose deletion *)
(* has detached them are locked.                                           *)
(***************************************************************************)
record_posts(a, items) ==
    LET listed == {item.post : item \in items}
        replies == {item \in items : item.parent # "none"}
        rows == {[from |-> item.post, kind |-> "reply", to |-> item.parent] : item \in replies}
    IN  /\ \A p \in listed : /\ ~ PostLocked(p)
                             /\ owners[p] = a \/ AccountFree(a)
                             /\ owners[p] \in Accounts => PostsFree(owners[p])
        /\ owners' = [p \in Posts |-> IF p \in listed THEN a ELSE owners[p]]
        /\ \E before \in SUBSET listed : Upsert(rows, Known \union before)
        /\ UNCHANGED <<captured, resolving, checked>>

Synchronize(s) ==
    /\ record_page(s)
    /\ record_posts(scans[s].account, Content[Page(s)])

-----------------------------------------------------------------------------
(***************************************************************************)
(* A variant that checks the replies without RELATION_LOCK.                *)
(***************************************************************************)
RecordWithoutLock(r, seen) ==
    LET known == Known \union {seen.post}
        replies == {row \in relations \union seen.relations : row.kind = "reply"}
    IN  /\ resolving[r] = NoObservation
        /\ ~ PostLocked(seen.post)
        /\ normalize_relations(known, replies)
        /\ normalize_relations(known, seen.relations)
        /\ resolving' = [resolving EXCEPT ![r] = seen]
        /\ UNCHANGED <<owners, captured, relations, linked, checked>>

(***************************************************************************)
(* record of public_resolution.rs up to the check: the post is upserted,   *)
(* RELATION_LOCK taken, and the replies of the archive are checked         *)
(* together with those of the observation.                                 *)
(***************************************************************************)
record_relations(r, seen) ==
    LET known == Known \union {seen.post}
        replies == {row \in relations \union seen.relations : row.kind = "reply"}
    IN  /\ \A q \in Resolvers : resolving[q] = NoObservation
        /\ normalize_relations(known, replies)
        /\ normalize_relations(known, seen.relations)
        /\ resolving' = [resolving EXCEPT ![r] = seen]
        /\ UNCHANGED <<owners, captured, relations, linked, checked>>

record(r) ==
    \E seen \in Observations :
        /\ validate_relation_sources(seen.post, seen.relations)
        /\ record_relations(r, seen)

(***************************************************************************)
(* The rest of the transaction, which looks each target up again for its   *)
(* target_post_id.                                                         *)
(***************************************************************************)
CommitResolution(r) ==
    LET seen == resolving[r]
        known == Known \union {seen.post}
    IN  /\ seen # NoObservation
        /\ owners' = [owners EXCEPT ![seen.post] = IF @ = "absent" THEN "none" ELSE @]
        /\ captured' = captured \union {seen.post}
        /\ Upsert(seen.relations, known)
        /\ checked' = checked \union seen.relations
        /\ resolving' = [resolving EXCEPT ![r] = NoObservation]

ResolutionFails(r) ==
    /\ resolving[r] # NoObservation
    /\ resolving' = [resolving EXCEPT ![r] = NoObservation]
    /\ UNCHANGED <<owners, captured, relations, linked, checked>>

-----------------------------------------------------------------------------
(***************************************************************************)
(* A post nothing holds is removed with the relations that refer to it; a  *)
(* relation written before its target had a post does not.                 *)
(***************************************************************************)
remove_unreferenced_post(gone) ==
    LET dropped == {row \in relations : row.from \in gone \/ (row \in linked /\ row.to \in gone)}
    IN  /\ relations' = relations \ dropped
        /\ linked' = linked \ dropped
        /\ checked' = checked \ dropped

DeleteConnection(c) ==
    LET posts == {p \in Posts : owners[p] = calls[c].account}
        gone == posts \ captured
    IN  /\ apply_target_rows(c)
        /\ ~ \E p \in posts : PostLocked(p)
        /\ owners' = [p \in Posts |-> IF p \in gone THEN "absent"
                                     ELSE IF p \in posts THEN "none" ELSE owners[p]]
        /\ remove_unreferenced_post(gone)
        /\ UNCHANGED <<captured, resolving>>

(***************************************************************************)
(* The deletion of the last capture of a post.                             *)
(***************************************************************************)
DeleteCapture(p) ==
    LET gone == {q \in {p} : owners[q] = "none"}
    IN  /\ p \in captured
        /\ ~ PostLocked(p)
        /\ captured' = captured \ {p}
        /\ owners' = [owners EXCEPT ![p] = IF p \in gone THEN "absent" ELSE @]
        /\ remove_unreferenced_post(gone)
        /\ UNCHANGED resolving

Next ==
    \/ /\ \/ Connecting
          \/ \E c \in Calls : Calling(c)
          \/ \E s \in Scans : Scanning(s)
       /\ UNCHANGED postVars
    \/ \E s \in Scans : Synchronize(s)
    \/ \E c \in Calls : DeleteConnection(c)
    \/ /\ \/ \E r \in Resolvers : record(r) \/ CommitResolution(r) \/ ResolutionFails(r)
          \/ \E p \in Posts : DeleteCapture(p)
       /\ UNCHANGED accountVars

Spec == Init /\ [][Next]_vars

-----------------------------------------------------------------------------
(***************************************************************************)
(* The reply relations that public resolutions checked are acyclic, though *)
(* the resolutions compete, posts come and go, and synchronization writes  *)
(* replies unchecked (public_resolution.rs).  The search of                *)
(* has_reply_cycle answers exactly whether the stored replies between      *)
(* known posts have a cycle.                                               *)
(***************************************************************************)
CheckedRepliesAreAcyclic ==
    /\ ~ HasCycle(Resolved(Known, checked))
    /\ has_reply_cycle(Resolved(Known, relations)) <=> HasCycle(Resolved(Known, relations))
=============================================================================
