--------------------------- MODULE SourceHoldings ---------------------------
(***************************************************************************)
(* Who holds a post, and what Knowledge is told about it.                  *)
(*                                                                         *)
(* Three lanes write the posts of the archive: public resolution of a      *)
(* capture (public_resolution.rs, capture.rs), own-account synchronization *)
(* (account_sync.rs) and the Data Export import (data_export.rs).  Each    *)
(* publishes, in the transaction of its write, a fact about the owner's    *)
(* social source (publishing.rs).  An owner deletes a capture or a         *)
(* connection (privacy_deletion.rs); Knowledge answers with completions    *)
(* (knowledge.rs).                                                         *)
(*                                                                         *)
(* Transactions run at READ COMMITTED.  A write of a post is one step: the *)
(* row lock of the post serializes it with every other write of that post. *)
(* A deletion locks only its target before it counts the other holdings,   *)
(* so it takes four steps: it counts holdings, it purges the outbox, it    *)
(* deletes the source and counts the references to the post, it commits.   *)
(* The posts of a connection go through them together.  A completion locks *)
(* nothing before it inserts its link: it takes three steps.               *)
(*                                                                         *)
(* A source is named by its owner and post: its id is a hash of the owner  *)
(* and the permalink, so a source that returns has its old id.  Relations  *)
(* enter the digest as the text does; a text stands for both.  A page of   *)
(* the official API carries one post.                                      *)
(***************************************************************************)
EXTENDS Naturals, FiniteSets

CONSTANTS
    Users,
    Posts,
    Captures,   \* capture rows, accepted from the start
    Accounts,   \* official connections
    OwnerOf,    \* the user_ref of a capture or an account
    PostOf,     \* the post the permalink of a capture resolves to
    AuthorOf,   \* the account that lists a post as its own content, or "none"
    MethodOf,   \* the acquisition_method of a capture
    Texts,      \* observed contents
    Unavailability,  \* observed tombstone availabilities
    Events,     \* completion events of Knowledge
    MaxWrites   \* bound: committed observations

ASSUME HoldingsAssumption ==
    /\ OwnerOf \in [Captures \union Accounts -> Users]
    /\ PostOf \in [Captures -> Posts]
    /\ AuthorOf \in [Posts -> Accounts \union {"none"}]
    /\ "none" \notin Captures \union Accounts
    /\ IsFiniteSet(Captures)
    /\ Captures \intersect (Accounts \union Posts) = {}
    /\ MaxWrites \in Nat

VARIABLES
    captures,    \* capture -> "accepted" (post_id null), "held" (post_id set) or "gone"
    accounts,    \* account -> "connected" or "deleted"
    posts,       \* post -> its row
    sources,     \* <<user, post>> -> social source, its revisions and its outbox facts
    removals,    \* local_source_removals
    inbox,       \* completion events in inbox_events
    links,       \* social_analysis_links
    completions, \* event -> the transaction that records it
    deletions,   \* target -> the deletion transaction of it
    imported,    \* history: sources an export put into the library
    overlapped,  \* history: posts written while a deletion that reads them was open
    overtaken,   \* history: completions that passed the check before their source was removed
    writes       \* observations so far

linkVars == <<inbox, links, completions, overtaken>>

vars == <<captures, accounts, posts, sources, removals, linkVars, deletions, imported,
          overlapped, writes>>

Targets == Captures \union Accounts

Sources == Users \X Posts

NoPost == [text |-> "none", status |-> "none", method |-> "none", authority |-> "none",
           account |-> "none"]

(***************************************************************************)
(* The rows of one source: first_capture_id; the revisions, each a digest  *)
(* with the operation that announced it; the digests tied for the newest   *)
(* observed_at; and its facts in the outbox.  fact is history: the kind of *)
(* the latest one.                                                         *)
(***************************************************************************)
NoSource == [first |-> "none", revisions |-> {}, newest |-> {}, outbox |-> {}, fact |-> "none"]

Digests(row) == {r.digest : r \in row.revisions}

Live(s) == sources[s].revisions # {}

Exists(p) == posts[p] # NoPost

Held(u, p) == {c \in Captures : captures[c] = "held" /\ OwnerOf[c] = u /\ PostOf[c] = p}

Idle == [at |-> "idle", plan |-> "none", posts |-> {}, final |-> {}, purge |-> {}, drop |-> {}]

NoCompletion == [at |-> "idle", source |-> "none", digest |-> "none"]

Init ==
    /\ captures = [c \in Captures |-> "accepted"]
    /\ accounts = [a \in Accounts |-> "connected"]
    /\ posts = [p \in Posts |-> NoPost]
    /\ sources = [s \in Sources |-> NoSource]
    /\ removals = {}
    /\ inbox = {}
    /\ links = {}
    /\ completions = [e \in Events |-> NoCompletion]
    /\ overtaken = {}
    /\ deletions = [t \in Targets |-> Idle]
    /\ imported = {}
    /\ overlapped = {}
    /\ writes = 0

-----------------------------------------------------------------------------
(***************************************************************************)
(* publishing.rs: one fact, or none, about the source an origin names.     *)
(***************************************************************************)
PublishedMethods ==
    {"official_api", "data_export", "share_extension", "browser_extension", "public_resolution"}

(***************************************************************************)
(* A capture publishes under its own provenance, an official or export     *)
(* observation under that of the post.                                     *)
(***************************************************************************)
build_snapshot(post, method, authority) ==
    [text |-> post.text, status |-> post.status, method |-> method, authority |-> authority]

NoDigest == build_snapshot(NoPost, "none", "none")

CaptureOrigin(post, c) ==
    [operation |-> c, capture |-> c,
     digest |-> build_snapshot(post, MethodOf[c], "explicit_user_capture")]

PostOrigin(post, p) ==
    [operation |-> p, capture |-> "none",
     digest |-> build_snapshot(post, post.method, post.authority)]

(***************************************************************************)
(* The event type, from whether a previous digest was found.               *)
(***************************************************************************)
EventType(row) == IF row.newest = {} THEN "captured" ELSE "updated"

(***************************************************************************)
(* observed_at is now(), the start of the transaction: a second revision   *)
(* of one transaction ties with its first, and the revision of a late      *)
(* transaction, one that began before that of the newest revision, sorts   *)
(* behind it.                                                              *)
(***************************************************************************)
Newest(before, row, digest, late) ==
    IF late /\ before.newest # {} THEN row.newest
    ELSE IF row.revisions # before.revisions THEN row.newest \union {digest}
    ELSE {digest}

ensure_source(row, origin) ==
    IF row.revisions = {} THEN [row EXCEPT !.first = origin.capture] ELSE row

Announced(before, row, origin, late) ==
    [ensure_source(row, origin) EXCEPT
        !.revisions = @ \union {[digest |-> origin.digest, operation |-> origin.operation]},
        !.newest = Newest(before, row, origin.digest, late),
        !.outbox = @ \union {[kind |-> EventType(row), digest |-> origin.digest,
                                    operation |-> origin.operation]},
        !.fact = EventType(row)]

(***************************************************************************)
(* The possible results: nothing when the previous digest, any of those    *)
(* tied for the newest, is the same; none at all, and the transaction      *)
(* fails, when the digest is one of an older revision or the provenance    *)
(* has no published form.                                                  *)
(***************************************************************************)
append_origin_fact(before, row, origin, late) ==
    (IF origin.digest \in row.newest THEN {row} ELSE {})
    \union
    (IF origin.digest \notin Digests(row) /\ origin.digest.method \in PublishedMethods
     THEN {Announced(before, row, origin, late)}
     ELSE {})

(***************************************************************************)
(* Several origins of one source in one transaction, in any order.         *)
(***************************************************************************)
AppendFacts(row, origins, late) ==
    LET n == Cardinality(origins)
        Orders == {order \in [1 .. n -> origins] :
                      \A origin \in origins : \E k \in 1 .. n : order[k] = origin}
        After(order) ==
            LET rows[k \in 0 .. n] ==
                    IF k = 0 THEN {row}
                    ELSE UNION {append_origin_fact(row, r, order[k], late) : r \in rows[k - 1]}
            IN rows[n]
    IN UNION {After(order) : order \in Orders}

-----------------------------------------------------------------------------
(***************************************************************************)
(* Locks an open deletion holds once it has deleted its rows: the source   *)
(* rows it removes, and the posts it detaches from a connection.           *)
(***************************************************************************)
Open(t) == deletions[t].at \in {"counted", "purged", "checked"}

SourceLocked(s) ==
    \E t \in Targets :
        deletions[t].at = "checked" /\ OwnerOf[t] = s[1] /\ s[2] \in deletions[t].final

PostLocked(p) ==
    \E a \in Accounts : deletions[a].at = "checked" /\ p \in deletions[a].posts

Overlap(p, others) == IF \E t \in others : Open(t) /\ p \in deletions[t].posts THEN {p} ELSE {}

(***************************************************************************)
(* One transaction that writes post p and publishes, for every user, the   *)
(* facts of the user's origins.                                            *)
(***************************************************************************)
Write(p, post, origins, late) ==
    /\ writes < MaxWrites
    /\ writes' = writes + 1
    /\ ~PostLocked(p)
    /\ \A u \in Users : origins[u] # {} => ~SourceLocked(<<u, p>>)
    /\ posts' = [posts EXCEPT ![p] = post]
    /\ LET Results(u) == AppendFacts(sources[<<u, p>>], origins[u], late)
       IN \E result \in [Users -> UNION {Results(u) : u \in Users}] :
            /\ \A u \in Users : result[u] \in Results(u)
            /\ sources' = [s \in Sources |-> IF s[2] = p THEN result[s[1]] ELSE sources[s]]
    /\ overlapped' = overlapped \union Overlap(p, Targets)
    /\ UNCHANGED <<accounts, removals, linkVars, deletions>>

OneOrigin(u, origin) == [v \in Users |-> IF v = u THEN {origin} ELSE {}]

(***************************************************************************)
(* PublicResolutionStore::record: the upsert of the post leaves status,    *)
(* provenance and account of an existing row alone.                        *)
(***************************************************************************)
ResolvedPost(p, text) ==
    IF Exists(p)
    THEN [posts[p] EXCEPT !.text = text]
    ELSE [text |-> text, status |-> "active", method |-> "public_resolution",
          authority |-> "explicit_user_capture", account |-> "none"]

record(c, text, late) ==
    LET p == PostOf[c]
        post == ResolvedPost(p, text)
    IN /\ captures[c] \in {"accepted", "held"}
       /\ ~Open(c)
       /\ Write(p, post, OneOrigin(OwnerOf[c], CaptureOrigin(post, c)), late)
       /\ captures' = [captures EXCEPT ![c] = "held"]
       /\ UNCHANGED imported

(***************************************************************************)
(* CaptureStore::mark_unavailable on a capture whose post is archived; on  *)
(* any other capture it writes only the capture and a tombstone.           *)
(***************************************************************************)
mark_unavailable(c, status, late) ==
    LET p == PostOf[c]
        post == [posts[p] EXCEPT !.status = status]
    IN /\ captures[c] = "held"
       /\ ~Open(c)
       /\ Write(p, post, OneOrigin(OwnerOf[c], CaptureOrigin(post, c)), late)
       /\ UNCHANGED <<captures, imported>>

(***************************************************************************)
(* OwnAccountSyncStore::sync, record_post, append_source_facts: when       *)
(* captures hold the post the fact goes to them, whoever owns them, and    *)
(* otherwise to the owner of the account.  The foreign key makes the write *)
(* wait for a deletion of the account only where it sets account_id anew.  *)
(***************************************************************************)
append_source_facts(a, p, post) ==
    IF \A u \in Users : Held(u, p) = {}
    THEN OneOrigin(OwnerOf[a], PostOrigin(post, p))
    ELSE [u \in Users |-> {CaptureOrigin(post, c) : c \in Held(u, p)}]

sync(p, text, late) ==
    LET a == AuthorOf[p]
        post == [text |-> text, status |-> "active", method |-> "official_api",
                 authority |-> "authoritative_platform_state", account |-> a]
    IN /\ a # "none"
       /\ accounts[a] = "connected"
       /\ posts[p].account = a \/ ~Open(a)
       /\ Write(p, post, append_source_facts(a, p, post), late)
       /\ UNCHANGED <<captures, imported>>

(***************************************************************************)
(* DataExportStore::reconcile for one post of user u: the upsert resets    *)
(* everything but the account.                                             *)
(***************************************************************************)
record_export_post(p, text) ==
    [text |-> text, status |-> "active", method |-> "data_export",
     authority |-> "export_observation", account |-> posts[p].account]

reconcile(u, p, text, late) ==
    LET post == record_export_post(p, text)
    IN /\ Write(p, post, OneOrigin(u, PostOrigin(post, p)), late)
       /\ imported' = imported \union {<<u, p>>}
       /\ UNCHANGED captures

-----------------------------------------------------------------------------

(***************************************************************************)
(* A variant that forgets the removals.                                    *)
(***************************************************************************)
NeverRejected(s) == FALSE

(***************************************************************************)
(* KnowledgeCompletionStore::record.  The event enters the inbox once and  *)
(* is rejected where the source was removed before.  The event is in the   *)
(* inbox for others when the transaction commits; until then a second      *)
(* delivery waits on its key.                                              *)
(***************************************************************************)
reject_locally_removed(s) == s \in removals

Close(e) ==
    /\ inbox' = inbox \union {e}
    /\ completions' = [completions EXCEPT ![e] = NoCompletion]

RecordCompletion(e, s, digest) ==
    /\ e \notin inbox
    /\ completions[e].at = "idle"
    /\ IF reject_locally_removed(s)
       THEN Close(e)
       ELSE /\ completions' = [completions EXCEPT ![e] =
                    [at |-> "admitted", source |-> s, digest |-> digest]]
            /\ UNCHANGED inbox
    /\ UNCHANGED <<captures, accounts, posts, sources, removals, links, overtaken, deletions,
                   imported, overlapped, writes>>

(***************************************************************************)
(* The revision is looked up, without a lock.                              *)
(***************************************************************************)
MatchRevision(e) ==
    /\ completions[e].at = "admitted"
    /\ IF completions[e].digest \in Digests(sources[completions[e].source])
       THEN completions' = [completions EXCEPT ![e].at = "matched"] /\ UNCHANGED inbox
       ELSE Close(e)
    /\ UNCHANGED <<captures, accounts, posts, sources, removals, links, overtaken, deletions,
                   imported, overlapped, writes>>

(***************************************************************************)
(* The link refers to source and revision by foreign keys: the insert      *)
(* waits for a deletion that has deleted them, and needs them to be there. *)
(***************************************************************************)
LinkCompletion(e) ==
    LET open == completions[e]
    IN /\ open.at = "matched"
       /\ ~SourceLocked(open.source)
       /\ open.digest \in Digests(sources[open.source])
       /\ links' = links \union {[event |-> e, source |-> open.source, digest |-> open.digest]}
       /\ Close(e)
       /\ UNCHANGED <<captures, accounts, posts, sources, removals, overtaken, deletions,
                      imported, overlapped, writes>>

(***************************************************************************)
(* The transaction fails, on the foreign key where the revision went       *)
(* meanwhile, or otherwise; the event is delivered again.                  *)
(***************************************************************************)
CompletionFails(e) ==
    /\ completions[e].at \in {"admitted", "matched"}
    /\ completions' = [completions EXCEPT ![e] = NoCompletion]
    /\ overtaken' = overtaken \ {e}
    /\ UNCHANGED <<captures, accounts, posts, sources, removals, inbox, links, deletions,
                   imported, overlapped, writes>>

-----------------------------------------------------------------------------
(***************************************************************************)
(* privacy_deletion.rs.  The posts of a target, the holdings that keep a   *)
(* source when it goes, and the references that keep a post.               *)
(***************************************************************************)
TargetExists(t) ==
    IF t \in Captures THEN captures[t] # "gone" ELSE accounts[t] = "connected"

PostsOf(t) ==
    IF t \in Captures
    THEN {p \in Posts : captures[t] = "held" /\ PostOf[t] = p}
    ELSE {p \in Posts : posts[p].account = t}

OtherCaptures(t, p) == Held(OwnerOf[t], p) \ {t}

OfficialHolding(t, p) ==
    \E a \in Accounts \ {t} : posts[p].account = a /\ OwnerOf[a] = OwnerOf[t]

(***************************************************************************)
(* A variant that does not count the other captures of the owner.          *)
(***************************************************************************)
FinalWithoutCaptures(t, p) == ~OfficialHolding(t, p)

FinalHolding(t, p) == OtherCaptures(t, p) = {} /\ ~OfficialHolding(t, p)

(***************************************************************************)
(* A variant whose audit takes a capture of anyone for a reason to retain. *)
(***************************************************************************)
PlanForAnyOwner(t) ==
    IF \E p \in PostsOf(t), c \in Captures \ {t} : captures[c] = "held" /\ PostOf[c] = p
    THEN "retain_shared"
    ELSE "detach"

(***************************************************************************)
(* build_plan: what the audit says of the shared rows.  Beside a capture   *)
(* they are retained for another capture of the owner, behind a connection *)
(* for a capture of anyone.                                                *)
(***************************************************************************)
build_plan(t) ==
    IF t \in Captures
    THEN IF \E p \in PostsOf(t) : OtherCaptures(t, p) # {} THEN "retain_shared" ELSE "detach"
    ELSE IF \E p \in PostsOf(t), u \in Users : Held(u, p) # {} THEN "retain_shared" ELSE "detach"

(***************************************************************************)
(* apply, first part: lock the target, plan, audit, and count the holdings *)
(* of the owner on each post.  A finished operation is answered from its   *)
(* audit and a missing target refused, both without effect.                *)
(***************************************************************************)
apply(t) ==
    /\ TargetExists(t)
    /\ deletions[t].at = "idle"
    /\ PostsOf(t) # {}
    /\ deletions' = [deletions EXCEPT ![t] =
            [at |-> "counted", plan |-> build_plan(t), posts |-> PostsOf(t),
             final |-> {p \in PostsOf(t) : FinalHolding(t, p)}, purge |-> {}, drop |-> {}]]
    /\ UNCHANGED <<captures, accounts, posts, sources, removals, linkVars, imported, overlapped,
                   writes>>

(***************************************************************************)
(* A target without posts has nothing to count: its rows go in one step.   *)
(***************************************************************************)
ApplyWithoutPosts(t) ==
    /\ TargetExists(t)
    /\ deletions[t].at = "idle"
    /\ PostsOf(t) = {}
    /\ captures' = [c \in Captures |-> IF c = t THEN "gone" ELSE captures[c]]
    /\ accounts' = [a \in Accounts |-> IF a = t THEN "deleted" ELSE accounts[a]]
    /\ deletions' = [deletions EXCEPT ![t].at = "complete", ![t].plan = build_plan(t)]
    /\ UNCHANGED <<posts, sources, removals, linkVars, imported, overlapped, writes>>

(***************************************************************************)
(* A variant that purges every queued fact about the post.                 *)
(***************************************************************************)
PurgeWithPost(outbox, t, p) == {f \in outbox : f.kind # "removed"}

(***************************************************************************)
(* The queued facts under the target and under the post, of whatever       *)
(* owner, except removals.                                                 *)
(***************************************************************************)
Purge(outbox, t, p) == {f \in outbox : f.kind # "removed" /\ f.operation \in {t, p}}

PurgedFacts(t, final) ==
    UNION {{[source |-> s, fact |-> f] : f \in Purge(sources[s].outbox, t, s[2])} :
           s \in {s \in Sources : s[2] \in final}}

(***************************************************************************)
(* The sources of the final holdings are looked up, and for each its facts *)
(* are purged and its removal is appended.  Facts that another deletion    *)
(* has purged are locked by it.  Nothing locks the source yet.             *)
(***************************************************************************)
remove_final_owner_source(t) ==
    LET final == {p \in deletions[t].final : Live(<<OwnerOf[t], p>>)}
    IN /\ deletions[t].at = "counted"
       /\ \A x \in Targets \ {t} :
            Open(x) => PurgedFacts(t, final) \intersect deletions[x].purge = {}
       /\ deletions' = [deletions EXCEPT ![t].at = "purged", ![t].final = final,
                            ![t].purge = PurgedFacts(t, final)]
       /\ UNCHANGED <<captures, accounts, posts, sources, removals, linkVars, imported,
                      overlapped, writes>>

(***************************************************************************)
(* A variant that counts the references before the source is removed.      *)
(***************************************************************************)
ReferencesBeforeRemoval(t, p) ==
    \/ \E c \in Captures \ {t} : captures[c] = "held" /\ PostOf[c] = p
    \/ \E u \in Users : Live(<<u, p>>)

(***************************************************************************)
(* Links, revisions and source are deleted, which locks the source; then   *)
(* remove_unreferenced_post.  Its count sees the own changes of the        *)
(* transaction, and of others only what they have committed.               *)
(***************************************************************************)
ReferencedRows(t, p) ==
    \/ \E c \in Captures \ {t} : captures[c] = "held" /\ PostOf[c] = p
    \/ \E u \in Users : Live(<<u, p>>) /\ ~(u = OwnerOf[t] /\ p \in deletions[t].final)

Referenced(t, p) == ReferencedRows(t, p) \/ posts[p].account \notin {"none", t}

remove_unreferenced_post(t) ==
    /\ deletions[t].at = "purged"
    /\ deletions' = [deletions EXCEPT ![t].at = "checked",
                         ![t].drop = {p \in deletions[t].posts : ~Referenced(t, p)}]
    /\ UNCHANGED <<captures, accounts, posts, sources, removals, linkVars, imported, overlapped,
                   writes>>

(***************************************************************************)
(* A variant of the removal that leaves the revisions of the source        *)
(* behind.                                                                 *)
(***************************************************************************)
RemovalKeepsRevisions(row, t) ==
    [row EXCEPT
        !.outbox = @ \union {[kind |-> "removed", digest |-> NoDigest, operation |-> t]},
        !.fact = "removed"]

append_removal(row, t) ==
    [NoSource EXCEPT
        !.outbox = row.outbox \union {[kind |-> "removed", digest |-> NoDigest, operation |-> t]},
        !.fact = "removed"]

(***************************************************************************)
(* first_capture_id moves to another capture of the owner on the post.     *)
(***************************************************************************)
NextFirst(row, t, s) ==
    IF row.first # t THEN {row.first}
    ELSE IF Held(s[1], s[2]) \ {t} = {} THEN {"none"}
    ELSE Held(s[1], s[2]) \ {t}

RemovedSource(s, t) ==
    LET row == sources[s]
        purged == [row EXCEPT !.outbox = {f \in @ : [source |-> s, fact |-> f]
                                                        \notin deletions[t].purge}]
    IN IF s[1] = OwnerOf[t] /\ s[2] \in deletions[t].final THEN append_removal(purged, t)
       ELSE purged

(***************************************************************************)
(* The commit.  A capture that another deletion has locked cannot become   *)
(* the first capture before that deletion ends.                            *)
(***************************************************************************)
apply_target_rows(t) ==
    LET del == deletions[t]
        removed == {<<OwnerOf[t], p>> : p \in del.final}
        moved == {s \in Sources \ removed : sources[s].first = t}
    IN /\ del.at = "checked"
       /\ \A p \in del.drop : ~ReferencedRows(t, p)
       /\ \E first \in [moved -> Captures \union {"none"}] :
            /\ \A s \in moved : first[s] \in NextFirst(sources[s], t, s)
            /\ \A s \in moved : first[s] # "none" => ~Open(first[s])
            /\ sources' = [s \in Sources |->
                    IF s \in moved
                    THEN [RemovedSource(s, t) EXCEPT !.first = first[s]]
                    ELSE RemovedSource(s, t)]
       /\ captures' = [c \in Captures |-> IF c = t THEN "gone" ELSE captures[c]]
       /\ accounts' = [a \in Accounts |-> IF a = t THEN "deleted" ELSE accounts[a]]
       /\ posts' = [p \in Posts |->
            IF p \in del.drop THEN NoPost
            ELSE IF posts[p].account = t THEN [posts[p] EXCEPT !.account = "none"]
            ELSE posts[p]]
       /\ removals' = removals \union removed
       /\ links' = {l \in links : l.source \notin removed}
       /\ overtaken' = overtaken \union
            {e \in Events : completions[e].at # "idle" /\ completions[e].source \in removed}
       /\ deletions' = [deletions EXCEPT ![t].at = "complete"]
       /\ imported' = imported \ removed
       /\ overlapped' = overlapped \union UNION {Overlap(p, Targets \ {t}) : p \in del.posts}
       /\ UNCHANGED <<inbox, completions, writes>>

(***************************************************************************)
(* A deletion fails and rolls back: on a foreign key, where a row came to  *)
(* reference the post, the source or a revision after the last look at it, *)
(* or otherwise.  The request may be retried.                              *)
(***************************************************************************)
DeletionFails(t) ==
    /\ Open(t)
    /\ deletions' = [deletions EXCEPT ![t] = Idle]
    /\ UNCHANGED <<captures, accounts, posts, sources, removals, linkVars, imported, overlapped,
                   writes>>

-----------------------------------------------------------------------------
(***************************************************************************)
(* Knowledge completes a revision of any source, or one that is no more.   *)
(***************************************************************************)
CompletedDigests ==
    UNION {Digests(sources[s]) : s \in Sources} \union {NoDigest}

Observe ==
    \E late \in BOOLEAN :
        \/ \E c \in Captures, text \in Texts : record(c, text, late)
        \/ \E c \in Captures, status \in Unavailability : mark_unavailable(c, status, late)
        \/ \E p \in Posts, text \in Texts : sync(p, text, late)
        \/ \E u \in Users, p \in Posts, text \in Texts : reconcile(u, p, text, late)

Complete ==
    \E e \in Events :
        \/ \E s \in Sources, d \in CompletedDigests : RecordCompletion(e, s, d)
        \/ MatchRevision(e)
        \/ LinkCompletion(e)
        \/ CompletionFails(e)

Delete ==
    \E t \in Targets :
        \/ apply(t)
        \/ ApplyWithoutPosts(t)
        \/ remove_final_owner_source(t)
        \/ remove_unreferenced_post(t)
        \/ apply_target_rows(t)
        \/ DeletionFails(t)

Next == Observe \/ Complete \/ Delete

Spec == Init /\ [][Next]_vars

-----------------------------------------------------------------------------
(***************************************************************************)
(* A capture that holds a post has its source in the library: deleting one *)
(* capture takes the source only when no other capture keeps it.  The      *)
(* count in remove_final_owner_source is stale when a resolution of        *)
(* another capture commits before the removal, so this can fail.           *)
(***************************************************************************)
HeldSourceIsLive ==
    \A c \in Captures : captures[c] = "held" => Live(<<OwnerOf[c], PostOf[c]>>)

(***************************************************************************)
(* Unless a transaction overlapped a deletion on the same post, a source   *)
(* is in the library of every owner with a capture, and of no owner who    *)
(* holds the post through no capture, no connection and no export.         *)
(* Nothing is said of an owner left with an export only: the count leaves  *)
(* exports out, and their source is removed.                               *)
(***************************************************************************)
LibraryFollowsHoldings ==
    \A u \in Users, p \in Posts \ overlapped :
        /\ Held(u, p) # {} => Live(<<u, p>>)
        /\ Live(<<u, p>>) =>
            \/ Held(u, p) # {}
            \/ \E a \in Accounts : posts[p].account = a /\ OwnerOf[a] = u
            \/ <<u, p>> \in imported

(***************************************************************************)
(* A post row stays while a capture or a source refers to it, whatever     *)
(* overlaps, and goes with the last reference unless a deletion was        *)
(* overlapped: remove_unreferenced_post leaves no orphan content.          *)
(***************************************************************************)
PostsFollowReferences ==
    \A p \in Posts :
        LET refs == {c \in Captures : captures[c] = "held" /\ PostOf[c] = p}
                        \union {u \in Users : Live(<<u, p>>)}
        IN /\ refs # {} => Exists(p)
           /\ p \notin overlapped /\ Exists(p) => refs # {} \/ posts[p].account # "none"

(***************************************************************************)
(* The fact that announced a revision under a capture stays in the outbox  *)
(* as long as that capture: the purge of remove_final_owner_source takes   *)
(* no other capture's facts, not even on the same post.                    *)
(***************************************************************************)
AnnouncementsSurvive ==
    \A s \in Sources : \A r \in sources[s].revisions :
        r.operation \in Captures /\ captures[r.operation] = "held" =>
            \E f \in sources[s].outbox : f.operation = r.operation /\ f.digest = r.digest

(***************************************************************************)
(* A link names a revision that exists.  Its source was never removed,     *)
(* unless the completion had passed reject_locally_removed before the      *)
(* removal committed: local_source_removals outlives the source, so that   *)
(* a later completion recreates nothing, not even after the owner captured *)
(* the post again.                                                         *)
(***************************************************************************)
NoLinkAfterRemoval ==
    \A l \in links :
        /\ l.digest \in Digests(sources[l.source])
        /\ l.source \in removals => l.event \in overtaken

(***************************************************************************)
(* What the audit of a capture deletion calls retained is retained when    *)
(* the deletion commits, if nothing overlapped it.                         *)
(***************************************************************************)
RetainedIsKept ==
    [][\A c \in Captures :
        deletions[c].at = "checked" /\ deletions'[c].at = "complete"
            /\ deletions[c].plan = "retain_shared" /\ PostOf[c] \notin overlapped'
        => sources'[<<OwnerOf[c], PostOf[c]>>].revisions # {} /\ posts'[PostOf[c]] # NoPost]_vars

(***************************************************************************)
(* The facts of every source follow the protocol of SourceFeed, whatever   *)
(* lanes write it and whatever overlaps, in the order of their commits:    *)
(* the choice between captured, updated and no fact made from the revision *)
(* rows is the right one.                                                  *)
(***************************************************************************)
Feed == INSTANCE SourceFeed WITH
    kind <- [s \in Sources |-> sources[s].fact],
    seen <- [s \in Sources |-> Digests(sources[s])]

KeepsFeedPromise == Feed!Spec
=============================================================================
