------------------------ MODULE SourceHoldingsProofs -------------------------
(***************************************************************************)
(* Proofs about SourceHoldings, for any users, posts, captures,            *)
(* connections and contents, and any number of observations and deletions. *)
(***************************************************************************)
EXTENDS SourceHoldings, FiniteSetTheorems, NaturalSets, TLAPS

(***************************************************************************)
(* Most leaves are first-order; those that need records or arithmetic name *)
(* SMT.                                                                    *)
(***************************************************************************)
USE Zenon DEF linkVars

-----------------------------------------------------------------------------
(***************************************************************************)
(* The rows of one source                                                  *)
(***************************************************************************)

IsSource(row) ==
    row = [first |-> row.first, revisions |-> row.revisions, newest |-> row.newest,
           outbox |-> row.outbox, fact |-> row.fact]

(***************************************************************************)
(* The newest digests are digests of revisions, a source with revisions    *)
(* has a newest one, and its latest fact says whether it has any.          *)
(***************************************************************************)
SourceOK(row) ==
    /\ IsSource(row)
    /\ row.newest \subseteq Digests(row)
    /\ row.revisions # {} => row.newest # {}
    /\ row.revisions # {} <=> row.fact \in {"captured", "updated"}
    /\ row.fact \in {"none", "captured", "updated", "removed"}

Announces(outbox, r) == \E f \in outbox : f.operation = r.operation /\ f.digest = r.digest

(***************************************************************************)
(* What the facts of one transaction may have made of a source: it only    *)
(* grew, each new revision has its fact in the outbox, and the latest fact *)
(* is the one SourceFeed allows.                                           *)
(***************************************************************************)
Grown(before, row) ==
    /\ SourceOK(row)
    /\ before.revisions \subseteq row.revisions
    /\ before.outbox \subseteq row.outbox
    /\ \A r \in row.revisions \ before.revisions : Announces(row.outbox, r)
    /\ \/ row = before
       \/ /\ Digests(row) # Digests(before)
          /\ row.fact = IF before.revisions = {} /\ \E d \in Digests(row) : Digests(row) = {d}
                        THEN "captured" ELSE "updated"

(***************************************************************************)
(* One fact more keeps Grown and leaves the source in the library.         *)
(***************************************************************************)
LEMMA OneFact ==
    ASSUME NEW before, SourceOK(before), NEW row, Grown(before, row),
           NEW origin, NEW late, NEW next \in append_origin_fact(before, row, origin, late)
    PROVE  Grown(before, next) /\ next.revisions # {}
<1>1. CASE next = row /\ origin.digest \in row.newest
  BY <1>1 DEF Grown, SourceOK, Digests
<1>2. CASE next = Announced(before, row, origin, late) /\ origin.digest \notin Digests(row)
  <2> DEFINE new == [digest |-> origin.digest, operation |-> origin.operation]
             fact == [kind |-> EventType(row), digest |-> origin.digest,
                      operation |-> origin.operation]
             start == ensure_source(row, origin)
  <2>1. IsSource(row)
    BY DEF Grown, SourceOK
  <2>2. /\ IsSource(start)
        /\ start.revisions = row.revisions /\ start.outbox = row.outbox
    BY <2>1 DEF ensure_source, IsSource
  <2>3. /\ next.revisions = row.revisions \union {new}
        /\ next.newest = Newest(before, row, origin.digest, late)
        /\ next.outbox = row.outbox \union {fact}
        /\ next.fact = EventType(row)
        /\ IsSource(next)
    BY <1>2, <2>2 DEF Announced, IsSource
  <2>4. Digests(next) = Digests(row) \union {origin.digest}
    <3>1. new.digest = origin.digest
      OBVIOUS
    <3> HIDE DEF new
    <3> QED
      BY <2>3, <3>1 DEF Digests
  <2>5. next.newest \subseteq Digests(next) /\ next.newest # {}
    BY <2>3, <2>4 DEF Newest, Grown, SourceOK, Digests
  <2>6. next.fact = IF row.revisions = {} THEN "captured" ELSE "updated"
    BY <2>3 DEF EventType, Grown, SourceOK, Digests
  <2>7. SourceOK(next)
    BY <2>3, <2>5, <2>6 DEF SourceOK
  <2>8. \A r \in next.revisions \ before.revisions : Announces(next.outbox, r)
    <3>1. Announces(next.outbox, new)
      <4>1. fact.operation = new.operation /\ fact.digest = new.digest
        OBVIOUS
      <4> HIDE DEF fact, new
      <4> QED
        BY <2>3, <4>1 DEF Announces
    <3>2. \A r \in row.revisions \ before.revisions : Announces(next.outbox, r)
      BY <2>3 DEF Grown, Announces
    <3> QED
      BY <2>3, <3>1, <3>2
  <2>9. Digests(next) # Digests(before)
    <3>1. Digests(before) \subseteq Digests(row)
      BY DEF Grown, Digests
    <3> QED
      BY <1>2, <2>4, <3>1
  <2>10. next.fact = IF before.revisions = {} /\ \E d \in Digests(next) : Digests(next) = {d}
                     THEN "captured" ELSE "updated"
    <3>1. CASE row.revisions = {}
      <4>1. before.revisions = {} /\ Digests(row) = {}
        BY <3>1 DEF Grown, Digests
      <4> QED
        BY <2>4, <2>6, <3>1, <4>1
    <3>2. CASE row.revisions # {}
      <4>1. Digests(row) # {}
        BY <3>2 DEF Digests
      <4>2. ~ \E d \in Digests(next) : Digests(next) = {d}
        BY <1>2, <2>4, <4>1
      <4> QED
        BY <2>6, <3>2, <4>2
    <3> QED
      BY <3>1, <3>2
  <2> QED
    BY <2>3, <2>7, <2>8, <2>9, <2>10 DEF Grown
<1> QED
  BY <1>1, <1>2 DEF append_origin_fact

(***************************************************************************)
(* The facts of all origins of a source, in whatever order: by induction   *)
(* over the origins that have been published.                              *)
(***************************************************************************)
LEMMA FactsOfOrigins ==
    ASSUME NEW row, SourceOK(row), NEW origins, IsFiniteSet(origins), NEW late,
           NEW result \in AppendFacts(row, origins, late)
    PROVE  /\ Grown(row, result)
           /\ origins = {} => result = row
           /\ origins # {} => result.revisions # {}
<1> DEFINE n == Cardinality(origins)
           Then(rows, origin) == UNION {append_origin_fact(row, r, origin, late) : r \in rows}
<1>1. n \in Nat /\ (n = 0 <=> origins = {})
  BY FS_CardinalityType, FS_EmptySet
<1> DEFINE Along(order) ==
               CHOOSE rows : rows = [k \in 0 .. n |->
                   IF k = 0 THEN {row} ELSE Then(rows[k - 1], order[k])]
<1> DEFINE Orders == {order \in [1 .. n -> origins] :
                          \A origin \in origins : \E k \in 1 .. n : order[k] = origin}
<1>2. PICK order \in Orders : result \in Along(order)[n]
  BY DEF AppendFacts
<1> DEFINE rows == Along(order)
           Upto(f, m) ==
               f = [k \in 0 .. m |-> IF k = 0 THEN {row} ELSE Then(f[k - 1], order[k])]
           Defined == {m \in Nat : \E f : Upto(f, m)}
<1>3. Nat \subseteq Defined
  <2>1. 0 \in Defined
    <3>1. Upto([k \in 0 .. 0 |-> {row}], 0)
      BY SMT
    <3> QED
      BY <3>1
  <2>2. ASSUME NEW m \in Nat, m \in Defined
        PROVE  m + 1 \in Defined
    <3>1. PICK f : Upto(f, m)
      BY <2>2
    <3> DEFINE g == [k \in 0 .. m + 1 |-> IF k = m + 1 THEN Then(f[m], order[k]) ELSE f[k]]
    <3>2. \A k \in 0 .. m : f[k] = IF k = 0 THEN {row} ELSE Then(f[k - 1], order[k])
      BY <3>1
    <3> HIDE DEF Then
    <3>3. ASSUME NEW k \in 0 .. m + 1
          PROVE  g[k] = IF k = 0 THEN {row} ELSE Then(g[k - 1], order[k])
      <4>1. CASE k = m + 1
        <5>1. g[k] = Then(f[m], order[k]) /\ k # 0 /\ k - 1 = m /\ m \in 0 .. m + 1 /\ m # m + 1
          BY <4>1, SMT
        <5>2. g[m] = f[m]
          BY <5>1
        <5> QED
          BY <5>1, <5>2
      <4>2. CASE k # m + 1
        <5>1. k \in 0 .. m /\ g[k] = f[k]
          BY <4>2, SMT
        <5>2. k # 0 => k - 1 \in 0 .. m + 1 /\ k - 1 # m + 1
          BY <5>1, SMT
        <5>3. k # 0 => g[k - 1] = f[k - 1]
          BY <5>2
        <5> QED
          BY <3>2, <5>1, <5>3
      <4> QED
        BY <4>1, <4>2
    <3>4. Upto(g, m + 1)
      <4> HIDE DEF g
      <4>1. g = [k \in 0 .. m + 1 |-> g[k]]
        BY DEF g
      <4> QED
        BY <3>3, <4>1
    <3>5. \E h : Upto(h, m + 1)
      BY <3>4
    <3>6. m + 1 \in Nat
      BY SMT
    <3> HIDE DEF Upto
    <3> QED
      BY <3>5, <3>6
  <2> HIDE DEF Defined
  <2> QED
    BY <2>1, <2>2, NatSetInduction
<1>4. rows = [k \in 0 .. n |-> IF k = 0 THEN {row} ELSE Then(rows[k - 1], order[k])]
  <2>1. \E f : Upto(f, n)
    BY <1>1, <1>3
  <2> HIDE DEF Then, n
  <2> QED
    BY <2>1
<1>5. result \in rows[n]
  BY <1>2
<1> HIDE DEF rows
<1>6. /\ rows[0] = {row}
      /\ \A k \in 1 .. n : rows[k] = Then(rows[k - 1], order[k])
  <2> HIDE DEF Then, n
  <2>1. \A k \in 0 .. n : rows[k] = IF k = 0 THEN {row} ELSE Then(rows[k - 1], order[k])
    BY <1>4, Zenon
  <2>2. 0 \in 0 .. n /\ \A k \in 1 .. n : k \in 0 .. n /\ k # 0
    BY <1>1, SMT
  <2> QED
    BY <2>1, <2>2
<1>7. Grown(row, row)
  BY DEF Grown
<1> DEFINE Kept == {m \in Nat : m <= n => \A r \in rows[m] : Grown(row, r)}
<1>8. Nat \subseteq Kept
  <2>1. 0 \in Kept
    BY <1>6, <1>7
  <2>2. ASSUME NEW m \in Nat, m \in Kept
        PROVE  m + 1 \in Kept
    <3> SUFFICES ASSUME m + 1 <= n, NEW r \in rows[m + 1]
                 PROVE  Grown(row, r)
      BY SMT
    <3>1. m + 1 \in 1 .. n /\ (m + 1) - 1 = m /\ m <= n
      BY <1>1, SMT
    <3>2. PICK q \in rows[m] : r \in append_origin_fact(row, q, order[m + 1], late)
      BY <1>6, <3>1, SMT
    <3>3. Grown(row, q)
      BY <2>2, <3>1
    <3> QED
      BY <3>2, <3>3, OneFact
  <2> HIDE DEF Kept
  <2> QED
    BY <2>1, <2>2, NatSetInduction
<1>9. Grown(row, result)
  BY <1>1, <1>8, <1>5, SMT
<1>10. ASSUME origins = {}
      PROVE  result = row
  BY <1>1, <1>6, <1>10, <1>5
<1>11. ASSUME origins # {}
       PROVE  result.revisions # {}
  <2>1. n \in 1 .. n /\ n - 1 \in Nat /\ n - 1 <= n
    BY <1>1, <1>11, SMT
  <2>2. PICK q \in rows[n - 1] : result \in append_origin_fact(row, q, order[n], late)
    BY <1>6, <1>5, <2>1, SMT
  <2>3. Grown(row, q)
    BY <1>8, <2>1
  <2> QED
    BY <2>2, <2>3, OneFact, SMT
<1> QED
  BY <1>9, <1>10, <1>11

-----------------------------------------------------------------------------
(***************************************************************************)
(* The inductive invariant                                                 *)
(***************************************************************************)

IsPost(post) ==
    post = [text |-> post.text, status |-> post.status, method |-> post.method,
            authority |-> post.authority, account |-> post.account]

IsDeletion(del) ==
    del = [at |-> del.at, plan |-> del.plan, posts |-> del.posts, final |-> del.final,
           purge |-> del.purge, drop |-> del.drop]

TypeOK ==
    /\ captures \in [Captures -> {"accepted", "held", "gone"}]
    /\ DOMAIN posts = Posts
    /\ \A p \in Posts :
        /\ IsPost(posts[p])
        /\ Exists(p) => posts[p].method # "none"
        /\ posts[p].account \in {"none", AuthorOf[p]}
    /\ DOMAIN sources = Sources
    /\ \A s \in Sources : SourceOK(sources[s])
    /\ \A l \in links : l.source \in Sources
    /\ DOMAIN deletions = Targets
    /\ \A t \in Targets :
        /\ IsDeletion(deletions[t])
        /\ deletions[t].posts \subseteq Posts
        /\ deletions[t].final \subseteq deletions[t].posts
        /\ deletions[t].drop \subseteq deletions[t].posts

(***************************************************************************)
(* The posts of an open deletion are the posts of its target, which keeps  *)
(* them until the commit.                                                  *)
(***************************************************************************)
OpenKeepsPosts ==
    /\ \A c \in Captures :
        Open(c) => captures[c] = "held" /\ deletions[c].posts = {PostOf[c]}
    /\ \A a \in Accounts : Open(a) =>
        deletions[a].posts = {p \in Posts : posts[p].account = a}

(***************************************************************************)
(* The source a deletion has purged as final is in the library, and no     *)
(* other deletion of the owner counts it as final.                         *)
(***************************************************************************)
FinalIsLive ==
    \A t \in Targets : Open(t) =>
        \A p \in deletions[t].final :
            /\ deletions[t].at # "counted" => Live(<<OwnerOf[t], p>>)
            /\ \A x \in Targets \ {t} :
                Open(x) /\ OwnerOf[x] = OwnerOf[t] => p \notin deletions[x].final

(***************************************************************************)
(* A post that a deletion is about to drop has no other connection, unless *)
(* the owner's source came to refer to it; no other deletion of the owner  *)
(* takes that source.                                                      *)
(***************************************************************************)
DropIsSafe ==
    \A t \in Targets : deletions[t].at = "checked" =>
        \A p \in deletions[t].drop :
            /\ \/ posts[p].account \in {"none", t}
               \/ p \notin deletions[t].final /\ Live(<<OwnerOf[t], p>>)
            /\ \A x \in Targets \ {t} :
                Open(x) /\ OwnerOf[x] = OwnerOf[t] => p \notin deletions[x].final

(***************************************************************************)
(* What a deletion counted is still so on a post nothing overlapped.       *)
(***************************************************************************)
CountsStand ==
    \A t \in Targets, p \in Posts \ overlapped :
        Open(t) /\ p \in deletions[t].posts =>
            /\ p \in deletions[t].final <=>
                /\ FinalHolding(t, p)
                /\ deletions[t].at # "counted" => Live(<<OwnerOf[t], p>>)
            /\ deletions[t].at = "checked" => (p \in deletions[t].drop <=> ~Referenced(t, p))
            /\ t \in Captures /\ deletions[t].plan = "retain_shared" => OtherCaptures(t, p) # {}

(***************************************************************************)
(* A revision a capture announced keeps its fact until the capture goes.   *)
(***************************************************************************)
FactsStay ==
    \A s \in Sources : \A r \in sources[s].revisions :
        r.operation \in Captures /\ captures[r.operation] # "gone" =>
            Announces(sources[s].outbox, r)

(***************************************************************************)
(* A deletion purges facts under its target or one of its posts only.      *)
(***************************************************************************)
PurgeIsOwn ==
    \A t \in Targets : \A f \in deletions[t].purge :
        f.fact.operation \in {t, f.source[2]}

(***************************************************************************)
(* An open completion whose source is removed passed the check before the  *)
(* removal, and has no link yet.                                           *)
(***************************************************************************)
IsCompletion(open) ==
    open = [at |-> open.at, source |-> open.source, digest |-> open.digest]

AdmittedBefore ==
    /\ DOMAIN completions = Events
    /\ \A l \in links : l.event \in inbox
    /\ \A e \in Events : completions[e].at # "idle" =>
        /\ IsCompletion(completions[e])
        /\ e \notin inbox
        /\ completions[e].source \in Sources
        /\ completions[e].source \in removals => e \in overtaken

IInv ==
    /\ TypeOK
    /\ OpenKeepsPosts
    /\ FinalIsLive
    /\ DropIsSafe
    /\ CountsStand
    /\ LibraryFollowsHoldings
    /\ PostsFollowReferences
    /\ FactsStay
    /\ PurgeIsOwn
    /\ AdmittedBefore
    /\ NoLinkAfterRemoval

-----------------------------------------------------------------------------
(***************************************************************************)
(* Observations                                                            *)
(***************************************************************************)

Holder(u, p) ==
    \/ Held(u, p) # {}
    \/ \E a \in Accounts : posts[p].account = a /\ OwnerOf[a] = u
    \/ <<u, p>> \in imported

(***************************************************************************)
(* A write of post p: the sources of the users with an origin grow, and    *)
(* nothing else changes.                                                   *)
(***************************************************************************)
Written(p, post, origins) ==
    /\ posts' = [posts EXCEPT ![p] = post]
    /\ DOMAIN sources' = Sources
    /\ \A s \in Sources : s[2] # p => sources'[s] = sources[s]
    /\ \A u \in Users :
        /\ Grown(sources[<<u, p>>], sources'[<<u, p>>])
        /\ origins[u] = {} => sources'[<<u, p>>] = sources[<<u, p>>]
        /\ origins[u] # {} => sources'[<<u, p>>].revisions # {} /\ ~SourceLocked(<<u, p>>)
    /\ overlapped' = overlapped \union Overlap(p, Targets)
    /\ UNCHANGED <<accounts, removals, linkVars, deletions>>

(***************************************************************************)
(* What the four lanes have in common: only synchronization changes the    *)
(* account of a post, and then it has an origin for every user who holds   *)
(* the post; a user with an origin is a holder afterwards.                 *)
(***************************************************************************)
Observation(p, post, origins) ==
    /\ Written(p, post, origins)
    /\ IsPost(post) /\ post.method # "none"
    /\ \/ post.account = posts[p].account
       \/ /\ AuthorOf[p] \in Accounts /\ ~Open(AuthorOf[p])
          /\ post.account = AuthorOf[p]
          /\ \A u \in Users : Held(u, p) # {} => origins[u] # {}
    /\ \A u \in Users : origins[u] # {} => Holder(u, p)'
    /\ \E u \in Users : origins[u] # {}
    /\ \/ captures' = captures
       \/ \E c \in Captures :
            /\ captures[c] \in {"accepted", "held"} /\ PostOf[c] = p
            /\ origins[OwnerOf[c]] # {}
            /\ captures' = [captures EXCEPT ![c] = "held"]
    /\ imported \subseteq imported'

(***************************************************************************)
(* One write, given the origins of each user.                              *)
(***************************************************************************)
LEMMA WriteIsWritten ==
    ASSUME TypeOK, NEW p \in Posts, NEW post, NEW origins, NEW late,
           \A u \in Users : IsFiniteSet(origins[u]),
           Write(p, post, origins, late)
    PROVE  Written(p, post, origins)
<1> DEFINE Results(u) == AppendFacts(sources[<<u, p>>], origins[u], late)
<1>1. PICK result \in [Users -> UNION {Results(u) : u \in Users}] :
        /\ \A u \in Users : result[u] \in Results(u)
        /\ sources' = [s \in Sources |-> IF s[2] = p THEN result[s[1]] ELSE sources[s]]
  BY DEF Write
<1>2. ASSUME NEW u \in Users
      PROVE  /\ Grown(sources[<<u, p>>], sources'[<<u, p>>])
             /\ origins[u] = {} => sources'[<<u, p>>] = sources[<<u, p>>]
             /\ origins[u] # {} => sources'[<<u, p>>].revisions # {}
  <2>1. <<u, p>> \in Sources /\ <<u, p>>[1] = u /\ <<u, p>>[2] = p
    BY DEF Sources
  <2>2. sources'[<<u, p>>] = result[u]
    BY <1>1, <2>1
  <2>3. SourceOK(sources[<<u, p>>])
    BY <2>1 DEF TypeOK
  <2>4. result[u] \in AppendFacts(sources[<<u, p>>], origins[u], late)
    BY <1>1
  <2>5. IsFiniteSet(origins[u])
    OBVIOUS
  <2> HIDE DEF Results
  <2> QED
    BY <2>2, <2>3, <2>4, <2>5, FactsOfOrigins, SMT
<1>3. \A u \in Users : origins[u] # {} => ~SourceLocked(<<u, p>>)
  BY DEF Write
<1>4. DOMAIN sources' = Sources /\ \A s \in Sources : s[2] # p => sources'[s] = sources[s]
  <2> HIDE DEF Results
  <2> QED
    BY <1>1
<1>5. /\ posts' = [posts EXCEPT ![p] = post]
      /\ overlapped' = overlapped \union Overlap(p, Targets)
      /\ UNCHANGED <<accounts, removals, linkVars, deletions>>
  BY DEF Write
<1> QED
  BY <1>2, <1>3, <1>4, <1>5 DEF Written

(***************************************************************************)
(* The origins of one user are finitely many.                              *)
(***************************************************************************)
LEMMA OneOriginIsFinite ==
    ASSUME NEW u, NEW origin
    PROVE  \A v \in Users : IsFiniteSet(OneOrigin(u, origin)[v])
BY FS_EmptySet, FS_Singleton DEF OneOrigin

(***************************************************************************)
(* The captures of one post that one user holds are finitely many, so      *)
(* sync_sources_after_capture_update loops over finitely many origins.     *)
(***************************************************************************)
LEMMA CaptureOriginsAreFinite ==
    ASSUME NEW u, NEW p, NEW post
    PROVE  IsFiniteSet({CaptureOrigin(post, c) : c \in Held(u, p)})
<1> DEFINE f == [c \in Held(u, p) |-> CaptureOrigin(post, c)]
           T == {CaptureOrigin(post, c) : c \in Held(u, p)}
<1>1. IsFiniteSet(Held(u, p))
  <2>1. Held(u, p) \in SUBSET Captures
    BY DEF Held
  <2> QED
    BY <2>1, FS_Subset, HoldingsAssumption
<1> HIDE DEF T
<1>2. f \in Surjection(Held(u, p), T)
  BY DEF Surjection, T
<1> HIDE DEF f
<1>3. IsFiniteSet(T)
  BY <1>1, <1>2, FS_Surjection
<1> QED
  BY <1>3 DEF T

(***************************************************************************)
(* Each lane makes an observation.                                         *)
(***************************************************************************)
LEMMA RecordObserves ==
    ASSUME TypeOK, NEW c \in Captures, NEW text, NEW late, record(c, text, late)
    PROVE  \E p \in Posts : \E post, origins : Observation(p, post, origins)
<1> DEFINE p == PostOf[c]
           post == ResolvedPost(p, text)
           origins == OneOrigin(OwnerOf[c], CaptureOrigin(post, c))
<1>1. p \in Posts /\ OwnerOf[c] \in Users
  BY HoldingsAssumption
<1>2. IsPost(post) /\ post.method # "none" /\ post.account = posts[p].account
  BY <1>1, SMT DEF ResolvedPost, TypeOK, IsPost, Exists, NoPost
<1>3. Write(p, post, origins, late)
  BY DEF record
<1>4. /\ captures[c] \in {"accepted", "held"}
      /\ captures' = [captures EXCEPT ![c] = "held"]
      /\ imported' = imported
  BY DEF record
<1>5. \A u \in Users : IsFiniteSet(origins[u])
  BY OneOriginIsFinite
<1>6. \A u \in Users : origins[u] # {} <=> u = OwnerOf[c]
  BY DEF OneOrigin
<1> HIDE DEF p, post, origins
<1>7. Holder(OwnerOf[c], p)'
  <2>1. captures'[c] = "held"
    BY <1>4 DEF TypeOK
  <2> QED
    BY <2>1 DEF Holder, Held, p
<1>8. Observation(p, post, origins)
  <2>1. Written(p, post, origins)
    BY <1>1, <1>3, <1>5, WriteIsWritten
  <2> QED
    BY <1>1, <1>2, <1>4, <1>6, <1>7, <2>1 DEF Observation, p
<1> QED
  BY <1>1, <1>8

(***************************************************************************)
(* mark_unavailable is an observation of the post of its capture: the row  *)
(* keeps its content with the new status and one origin, the capture, is   *)
(* announced.                                                              *)
(***************************************************************************)
LEMMA UnavailableObserves ==
    ASSUME TypeOK, PostsFollowReferences, NEW c \in Captures, NEW status, NEW late,
           mark_unavailable(c, status, late)
    PROVE  \E p \in Posts : \E post, origins : Observation(p, post, origins)
<1> DEFINE p == PostOf[c]
           post == [posts[p] EXCEPT !.status = status]
           origins == OneOrigin(OwnerOf[c], CaptureOrigin(post, c))
<1>1. p \in Posts /\ OwnerOf[c] \in Users
  BY HoldingsAssumption
<1>2. captures[c] = "held" /\ UNCHANGED <<captures, imported>>
  BY DEF mark_unavailable
<1>3. Exists(p)
  BY <1>1, <1>2 DEF PostsFollowReferences
<1>4. IsPost(post) /\ post.method # "none" /\ post.account = posts[p].account
  BY <1>1, <1>3, SMT DEF TypeOK, IsPost
<1>5. Write(p, post, origins, late)
  BY DEF mark_unavailable
<1>6. \A u \in Users : IsFiniteSet(origins[u])
  BY OneOriginIsFinite
<1>7. \A u \in Users : origins[u] # {} <=> u = OwnerOf[c]
  BY DEF OneOrigin
<1> HIDE DEF p, post, origins
<1>8. Holder(OwnerOf[c], p)'
  BY <1>2 DEF Holder, Held, p
<1>9. Observation(p, post, origins)
  <2>1. Written(p, post, origins)
    BY <1>1, <1>5, <1>6, WriteIsWritten
  <2> QED
    BY <1>1, <1>2, <1>4, <1>7, <1>8, <2>1 DEF Observation
<1> QED
  BY <1>1, <1>9

(***************************************************************************)
(* The account lane's sync is an observation of the post it fetched: the   *)
(* row gets the official content and the account and every capture of the  *)
(* post its owner holds are announced.                                     *)
(***************************************************************************)
LEMMA SyncObserves ==
    ASSUME TypeOK, NEW p \in Posts, NEW text, NEW late, sync(p, text, late)
    PROVE  \E post, origins : Observation(p, post, origins)
<1> DEFINE a == AuthorOf[p]
           post == [text |-> text, status |-> "active", method |-> "official_api",
                    authority |-> "authoritative_platform_state", account |-> a]
           origins == append_source_facts(a, p, post)
<1>1. /\ a \in Accounts /\ OwnerOf[a] \in Users
      /\ posts[p].account = a \/ ~Open(a)
  BY HoldingsAssumption DEF sync
<1>2. IsPost(post) /\ post.method # "none" /\ post.account = a
  BY DEF IsPost
<1>3. Write(p, post, origins, late) /\ UNCHANGED <<captures, imported>>
  BY DEF sync
<1> HIDE DEF post
<1>4. \A u \in Users : IsFiniteSet(origins[u])
  <2>1. CASE \A u \in Users : Held(u, p) = {}
    BY <2>1, OneOriginIsFinite DEF append_source_facts
  <2>2. CASE ~ \A u \in Users : Held(u, p) = {}
    <3>1. \A u \in Users : origins[u] = {CaptureOrigin(post, c) : c \in Held(u, p)}
      BY <2>2 DEF append_source_facts
    <3> HIDE DEF origins
    <3> QED
      BY <3>1, CaptureOriginsAreFinite, SMT
  <2> QED
    BY <2>1, <2>2
<1>5. \A u \in Users : Held(u, p) # {} => origins[u] # {}
  BY DEF append_source_facts
<1>6. \A u \in Users : origins[u] # {} => Held(u, p) # {} \/ u = OwnerOf[a]
  BY DEF append_source_facts, OneOrigin
<1>7. \E u \in Users : origins[u] # {}
  BY <1>1 DEF append_source_facts, OneOrigin
<1> HIDE DEF origins, a
<1>8. \A u \in Users : origins[u] # {} => Holder(u, p)'
  <2>1. posts'[p].account = a
    BY <1>2, <1>3 DEF Write, TypeOK
  <2>2. \A u \in Users : Held(u, p)' = Held(u, p)
    BY <1>3 DEF Held
  <2> QED
    BY <1>1, <1>6, <2>1, <2>2 DEF Holder
<1>9. Observation(p, post, origins)
  <2>1. Written(p, post, origins)
    BY <1>3, <1>4, WriteIsWritten
  <2> QED
    BY <1>1, <1>2, <1>3, <1>5, <1>7, <1>8, <2>1 DEF Observation, a
<1> QED
  BY <1>9

(***************************************************************************)
(* An export import's reconcile is an observation: the row is the one      *)
(* record_export_post leaves and the post itself is the one origin         *)
(* announced.                                                              *)
(***************************************************************************)
LEMMA ReconcileObserves ==
    ASSUME TypeOK, NEW u \in Users, NEW p \in Posts, NEW text, NEW late,
           reconcile(u, p, text, late)
    PROVE  \E post, origins : Observation(p, post, origins)
<1> DEFINE post == record_export_post(p, text)
           origins == OneOrigin(u, PostOrigin(post, p))
<1>1. IsPost(post) /\ post.method # "none" /\ post.account = posts[p].account
  BY DEF IsPost, record_export_post
<1>2. Write(p, post, origins, late)
  BY DEF reconcile
<1>3. imported' = imported \union {<<u, p>>} /\ UNCHANGED captures
  BY DEF reconcile
<1>4. \A v \in Users : IsFiniteSet(origins[v])
  BY OneOriginIsFinite
<1>5. \A v \in Users : origins[v] # {} <=> v = u
  BY DEF OneOrigin
<1> HIDE DEF post, origins
<1>6. Holder(u, p)'
  BY <1>3 DEF Holder
<1>7. Observation(p, post, origins)
  <2>1. Written(p, post, origins)
    BY <1>2, <1>4, WriteIsWritten
  <2> QED
    BY <1>1, <1>3, <1>5, <1>6, <2>1 DEF Observation
<1> QED
  BY <1>7

(***************************************************************************)
(* An observation takes nothing from a source or a holder, and changes     *)
(* nothing but its post.                                                   *)
(***************************************************************************)
LEMMA ObservationFrame ==
    ASSUME TypeOK, NEW p \in Posts, NEW post, NEW origins, Observation(p, post, origins)
    PROVE  /\ DOMAIN posts' = Posts /\ posts'[p] = post
           /\ \A q \in Posts \ {p} : posts'[q] = posts[q]
           /\ posts[p].account = AuthorOf[p] => posts'[p].account = AuthorOf[p]
           /\ captures' \in [Captures -> {"accepted", "held", "gone"}]
           /\ \A c \in Captures :
                \/ captures'[c] = captures[c]
                \/ /\ captures[c] = "accepted" /\ captures'[c] = "held" /\ PostOf[c] = p
                   /\ origins[OwnerOf[c]] # {}
           /\ \A s \in Sources : Live(s) => Live(s)'
           /\ \A t : Open(t)' <=> Open(t)
           /\ overlapped \subseteq overlapped'
           /\ \A t \in Targets : Open(t) /\ p \in deletions[t].posts => p \in overlapped'
<1>1. /\ DOMAIN posts' = Posts /\ posts'[p] = post
      /\ \A q \in Posts \ {p} : posts'[q] = posts[q]
  BY DEF Observation, Written, TypeOK
<1>2. posts[p].account = AuthorOf[p] => posts'[p].account = AuthorOf[p]
  BY <1>1 DEF Observation
<1>3. /\ captures' \in [Captures -> {"accepted", "held", "gone"}]
      /\ \A c \in Captures :
            \/ captures'[c] = captures[c]
            \/ /\ captures[c] = "accepted" /\ captures'[c] = "held" /\ PostOf[c] = p
               /\ origins[OwnerOf[c]] # {}
  BY DEF Observation, TypeOK
<1>4. \A s \in Sources : Live(s) => Live(s)'
  <2> SUFFICES ASSUME NEW u \in Users, NEW q \in Posts, Live(<<u, q>>)
               PROVE  Live(<<u, q>>)'
    BY SMT DEF Sources
  <2>1. <<u, q>> \in Sources /\ <<u, q>>[2] = q
    BY DEF Sources
  <2>2. CASE q = p
    BY <2>2 DEF Observation, Written, Grown, Live
  <2>3. CASE q # p
    BY <2>1, <2>3 DEF Observation, Written, Live
  <2> QED
    BY <2>2, <2>3
<1>5. deletions' = deletions /\ overlapped' = overlapped \union Overlap(p, Targets)
  BY DEF Observation, Written
<1> QED
  BY <1>1, <1>2, <1>3, <1>4, <1>5 DEF Open, Overlap

(***************************************************************************)
(* An observation keeps the inductive invariant.  The frame of the         *)
(* observation is stated once, conjunct by conjunct, and each conjunct of  *)
(* the invariant follows from the few of them it reads.                    *)
(***************************************************************************)
LEMMA ObservationKeepsInv ==
    ASSUME IInv, NEW p \in Posts, NEW post, NEW origins, Observation(p, post, origins)
    PROVE  IInv'
<1> USE DEF IInv
<1>posts. /\ DOMAIN posts' = Posts /\ posts'[p] = post
          /\ \A q \in Posts \ {p} : posts'[q] = posts[q]
  BY ObservationFrame
<1>account. posts[p].account = AuthorOf[p] => posts'[p].account = AuthorOf[p]
  BY ObservationFrame
<1>captures. /\ captures' \in [Captures -> {"accepted", "held", "gone"}]
             /\ \A c \in Captures :
                    \/ captures'[c] = captures[c]
                    \/ /\ captures[c] = "accepted" /\ captures'[c] = "held" /\ PostOf[c] = p
                       /\ origins[OwnerOf[c]] # {}
  BY ObservationFrame, SMT
<1>live. \A s \in Sources : Live(s) => Live(s)'
  BY ObservationFrame
<1>open. \A t : Open(t)' <=> Open(t)
  BY ObservationFrame
<1>overlapped. /\ overlapped \subseteq overlapped'
               /\ \A t \in Targets : Open(t) /\ p \in deletions[t].posts => p \in overlapped'
  BY ObservationFrame
<1>typed. \A q \in Posts : /\ IsPost(posts[q])
                           /\ Exists(q) => posts[q].method # "none"
                           /\ posts[q].account \in {"none", AuthorOf[q]}
  BY DEF TypeOK
<1>deletions. deletions' = deletions
  BY DEF Observation, Written
<1>others. \A u \in Users, q \in Posts \ {p} : sources'[<<u, q>>] = sources[<<u, q>>]
  <2> SUFFICES ASSUME NEW u \in Users, NEW q \in Posts \ {p}
               PROVE  sources'[<<u, q>>] = sources[<<u, q>>]
    OBVIOUS
  <2>1. <<u, q>> \in Sources /\ <<u, q>>[2] = q
    BY DEF Sources
  <2> QED
    BY <2>1 DEF Observation, Written
<1>grown. \A u \in Users : Grown(sources[<<u, p>>], sources'[<<u, p>>])
  BY DEF Observation, Written
<1>accepted. /\ IsPost(post) /\ post.method # "none"
             /\ post.account \in {posts[p].account, AuthorOf[p]}
             /\ post.account # posts[p].account =>
                    /\ ~Open(AuthorOf[p])
                    /\ \A u \in Users : Held(u, p) # {} => origins[u] # {}
  BY DEF Observation
<1>1. TypeOK'
  <2>1. \A q \in Posts :
            /\ IsPost(posts'[q])
            /\ Exists(q)' => posts'[q].method # "none"
            /\ posts'[q].account \in {"none", AuthorOf[q]}
    <3> SUFFICES ASSUME NEW q \in Posts
                 PROVE  /\ IsPost(posts'[q])
                        /\ Exists(q)' => posts'[q].method # "none"
                        /\ posts'[q].account \in {"none", AuthorOf[q]}
      OBVIOUS
    <3>1. CASE q = p
      BY <1>posts, <1>typed, <1>accepted, <3>1
    <3>2. CASE q # p
      BY <1>posts, <1>typed, <3>2 DEF Exists
    <3> QED
      BY <3>1, <3>2
  <2>2. \A s \in Sources : SourceOK(sources'[s])
    <3> SUFFICES ASSUME NEW u \in Users, NEW q \in Posts
                 PROVE  SourceOK(sources'[<<u, q>>])
      BY SMT DEF Sources
    <3>1. SourceOK(sources[<<u, q>>])
      BY DEF TypeOK, Sources
    <3>2. CASE q = p
      BY <1>grown, <3>2 DEF Grown
    <3>3. CASE q # p
      BY <1>others, <3>1, <3>3
    <3> QED
      BY <3>2, <3>3
  <2>3. DOMAIN sources' = Sources /\ links' = links
    BY DEF Observation, Written
  <2> QED
    BY <1>posts, <1>captures, <1>deletions, <2>1, <2>2, <2>3 DEF TypeOK
<1>2. OpenKeepsPosts'
  <2>1. ASSUME NEW a \in Accounts, Open(a), NEW q \in Posts
        PROVE  posts'[q].account = a <=> posts[q].account = a
    <3>1. a # "none" /\ posts[q].account \in {"none", AuthorOf[q]}
      BY <1>typed, HoldingsAssumption
    <3>2. CASE q # p
      BY <1>posts, <3>2
    <3>3. CASE q = p
      BY <1>posts, <1>account, <1>accepted, <2>1, <3>1, <3>3
    <3> QED
      BY <3>2, <3>3
  <2>2. ASSUME NEW c \in Captures, Open(c)
        PROVE  captures'[c] = "held"
    <3>1. captures[c] = "held"
      BY <2>2 DEF OpenKeepsPosts
    <3> QED
      BY <1>captures, <3>1
  <2> QED
    BY <1>open, <1>deletions, <2>1, <2>2 DEF OpenKeepsPosts
<1>3. FinalIsLive'
  <2>1. \A t \in Targets : \A q \in deletions[t].final : <<OwnerOf[t], q>> \in Sources
    BY HoldingsAssumption DEF TypeOK, Targets, Sources
  <2> QED
    BY <1>live, <1>open, <1>deletions, <2>1 DEF FinalIsLive
<1>4. DropIsSafe'
  <2> SUFFICES ASSUME NEW t \in Targets, deletions[t].at = "checked", NEW q \in deletions[t].drop
               PROVE  \/ posts'[q].account \in {"none", t}
                      \/ q \notin deletions[t].final /\ Live(<<OwnerOf[t], q>>)'
    BY <1>open, <1>deletions DEF DropIsSafe
  <2>2. /\ OwnerOf[t] \in Users /\ q \in Posts /\ q \in deletions[t].posts
        /\ <<OwnerOf[t], q>> \in Sources
    BY HoldingsAssumption DEF TypeOK, Targets, Sources
  <2>3. CASE posts'[q].account = posts[q].account
    BY <1>live, <2>2, <2>3 DEF DropIsSafe
  <2>4. CASE posts'[q].account # posts[q].account
    <3>1. /\ q = p /\ ~Open(AuthorOf[p])
          /\ \A u \in Users : Held(u, p) # {} => origins[u] # {}
      <4>1. q = p
        BY <1>posts, <2>2, <2>4
      <4> QED
        BY <1>posts, <1>accepted, <2>4, <4>1
    <3>2. Open(t) /\ t # AuthorOf[p]
      BY <3>1 DEF Open
    <3>3. t \in Captures
      <4> SUFFICES ASSUME t \in Accounts PROVE FALSE
        BY DEF Targets
      <4>1. posts[p].account = t /\ t # "none"
        BY <2>2, <3>1, <3>2, HoldingsAssumption, SMT DEF OpenKeepsPosts
      <4> QED
        BY <1>typed, <3>2, <4>1
    <3>4. captures[t] = "held" /\ PostOf[t] = p
      BY <2>2, <3>1, <3>2, <3>3 DEF OpenKeepsPosts
    <3>5. origins[OwnerOf[t]] # {}
      BY <2>2, <3>1, <3>3, <3>4 DEF Held
    <3>6. ~SourceLocked(<<OwnerOf[t], p>>) /\ sources'[<<OwnerOf[t], p>>].revisions # {}
      BY <2>2, <3>5 DEF Observation, Written
    <3> QED
      BY <3>1, <3>6 DEF SourceLocked, Live
  <2> QED
    BY <2>3, <2>4
<1>5. \A u \in Users, q \in Posts \ {p} :
        /\ Held(u, q)' = Held(u, q)
        /\ Live(<<u, q>>)' <=> Live(<<u, q>>)
  <2> SUFFICES ASSUME NEW u \in Users, NEW q \in Posts \ {p}
               PROVE  Held(u, q)' = Held(u, q) /\ (Live(<<u, q>>)' <=> Live(<<u, q>>))
    OBVIOUS
  <2>1. sources'[<<u, q>>] = sources[<<u, q>>]
    BY <1>others
  <2>2. \A c \in Captures : PostOf[c] = q => captures'[c] = captures[c]
    BY <1>captures
  <2>3. Held(u, q)' = Held(u, q)
    BY <2>2 DEF Held
  <2> QED
    BY <2>1, <2>3 DEF Live
<1>6. CountsStand'
  <2> SUFFICES ASSUME NEW t \in Targets, NEW q \in Posts \ overlapped', Open(t),
                      q \in deletions[t].posts
               PROVE  /\ q \in deletions[t].final <=>
                            /\ FinalHolding(t, q)'
                            /\ deletions[t].at # "counted" => Live(<<OwnerOf[t], q>>)'
                      /\ deletions[t].at = "checked" =>
                            (q \in deletions[t].drop <=> ~Referenced(t, q)')
                      /\ t \in Captures /\ deletions[t].plan = "retain_shared" =>
                            OtherCaptures(t, q)' # {}
    BY <1>open, <1>deletions DEF CountsStand
  <2>1. OwnerOf[t] \in Users
    BY HoldingsAssumption DEF Targets
  <2>2. q # p /\ q \notin overlapped /\ OwnerOf[t] \in Users
    BY <1>overlapped, <2>1
  <2>3. posts'[q] = posts[q]
    BY <1>posts, <2>2
  <2>4. /\ OtherCaptures(t, q)' = OtherCaptures(t, q)
        /\ FinalHolding(t, q)' <=> FinalHolding(t, q)
    BY <1>5, <2>2, <2>3 DEF OtherCaptures, FinalHolding, OfficialHolding
  <2>5. Referenced(t, q)' <=> Referenced(t, q)
    <3>1. \A c \in Captures : PostOf[c] = q => captures'[c] = captures[c]
      BY <1>captures, <2>2
    <3>2. \A u \in Users : Live(<<u, q>>)' <=> Live(<<u, q>>)
      BY <1>5, <2>2
    <3> QED
      BY <1>deletions, <2>3, <3>1, <3>2 DEF Referenced, ReferencedRows
  <2> QED
    BY <1>5, <2>2, <2>4, <2>5 DEF CountsStand
<1>7. LibraryFollowsHoldings'
  <2> SUFFICES ASSUME NEW u \in Users, NEW q \in Posts \ overlapped'
               PROVE  /\ Held(u, q)' # {} => Live(<<u, q>>)'
                      /\ Live(<<u, q>>)' => Holder(u, q)'
    BY DEF LibraryFollowsHoldings, Holder
  <2>1. q \notin overlapped /\ imported \subseteq imported' /\ <<u, q>> \in Sources
    <3>1. imported \subseteq imported'
      BY DEF Observation
    <3> QED
      BY <1>overlapped, <3>1 DEF Sources
  <2>2. /\ Held(u, q) # {} => Live(<<u, q>>)
        /\ Live(<<u, q>>) => Holder(u, q)
    BY <2>1 DEF LibraryFollowsHoldings, Holder
  <2>3. CASE q # p
    <3>1. posts'[q] = posts[q]
      BY <1>posts, <2>3
    <3>2. Held(u, q)' = Held(u, q) /\ (Live(<<u, q>>)' <=> Live(<<u, q>>))
      BY <1>5, <2>3
    <3> QED
      BY <2>1, <2>2, <3>1, <3>2 DEF Holder
  <2>4. CASE q = p
    <3>1. Held(u, p)' # {} => Held(u, p) # {} \/ origins[u] # {}
      BY <1>captures, SMT DEF Held
    <3>2. origins[u] # {} => Live(<<u, p>>)' /\ Holder(u, p)'
      BY DEF Observation, Written, Live
    <3>3. origins[u] = {} => Live(<<u, p>>)' = Live(<<u, p>>)
      BY DEF Observation, Written, Live
    <3>4. Holder(u, p) => Holder(u, p)'
      <4>1. Held(u, p) # {} => Held(u, p)' # {}
        BY <1>captures DEF Held
      <4>2. \A a \in Accounts : posts[p].account = a => posts'[p].account = a
        BY <1>account, <1>typed, HoldingsAssumption
      <4> QED
        BY <2>1, <4>1, <4>2 DEF Holder
    <3> QED
      BY <1>live, <2>1, <2>2, <2>4, <3>1, <3>2, <3>3, <3>4
  <2> QED
    BY <2>3, <2>4
<1>8. PostsFollowReferences'
  <2>1. ASSUME NEW q \in Posts \ {p}
        PROVE  /\ \A c \in Captures : PostOf[c] = q => captures'[c] = captures[c]
               /\ \A u \in Users : Live(<<u, q>>)' <=> Live(<<u, q>>)
               /\ posts'[q] = posts[q]
               /\ q \notin overlapped' => q \notin overlapped
    BY <1>5, <1>posts, <1>captures, <1>overlapped, <2>1, SMT
  <2>2. Exists(p)' /\ \E u \in Users : Live(<<u, p>>)'
    <3>1. NoPost.method = "none"
      BY DEF NoPost
    <3>2. Exists(p)'
      BY <1>posts, <1>accepted, <3>1 DEF Exists
    <3>3. \E u \in Users : Live(<<u, p>>)'
      BY DEF Observation, Written, Live
    <3> QED
      BY <3>2, <3>3
  <2> QED
    BY <2>1, <2>2, SMT DEF PostsFollowReferences, Exists
<1>9. FactsStay'
  <2> SUFFICES ASSUME NEW u \in Users, NEW q \in Posts,
                      NEW r \in sources'[<<u, q>>].revisions,
                      r.operation \in Captures, captures'[r.operation] # "gone"
               PROVE  Announces(sources'[<<u, q>>].outbox, r)
    BY SMT DEF FactsStay, Sources
  <2>1. <<u, q>> \in Sources /\ captures[r.operation] # "gone"
    BY <1>captures DEF Sources
  <2>2. CASE q # p
    <3>1. sources'[<<u, q>>] = sources[<<u, q>>]
      BY <1>others, <2>2
    <3> QED
      BY <2>1, <3>1 DEF FactsStay
  <2>3. CASE q = p
    <3>1. Grown(sources[<<u, q>>], sources'[<<u, q>>])
      BY <1>grown, <2>3
    <3>2. r \in sources[<<u, q>>].revisions => Announces(sources[<<u, q>>].outbox, r)
      BY <2>1 DEF FactsStay
    <3> QED
      BY <3>1, <3>2 DEF Grown, Announces
  <2> QED
    BY <2>2, <2>3
<1>10. NoLinkAfterRemoval'
  <2> SUFFICES ASSUME NEW l \in links
               PROVE  l.digest \in Digests(sources'[l.source])
    BY DEF NoLinkAfterRemoval, Observation, Written
  <2>1. PICK u \in Users, q \in Posts : l.source = <<u, q>>
    BY SMT DEF TypeOK, Sources
  <2>2. Digests(sources[<<u, q>>]) \subseteq Digests(sources'[<<u, q>>])
    <3>1. CASE q = p
      BY <1>grown, <3>1 DEF Grown, Digests
    <3>2. CASE q # p
      BY <1>others, <3>2
    <3> QED
      BY <3>1, <3>2
  <2> QED
    BY <2>1, <2>2 DEF NoLinkAfterRemoval
<1>11. PurgeIsOwn' /\ AdmittedBefore'
  BY DEF PurgeIsOwn, AdmittedBefore, Observation, Written
<1> QED
  BY <1>1, <1>2, <1>3, <1>4, <1>6, <1>7, <1>8, <1>9, <1>10, <1>11

-----------------------------------------------------------------------------
(***************************************************************************)
(* Deletions                                                               *)
(***************************************************************************)

(***************************************************************************)
(* A step that keeps the rows, and the captures that hold posts, keeps     *)
(* what the invariant says of them.                                        *)
(***************************************************************************)
LEMMA RowsUnchanged ==
    ASSUME LibraryFollowsHoldings, PostsFollowReferences, FactsStay, AdmittedBefore,
           NoLinkAfterRemoval,
           UNCHANGED <<posts, sources, removals, linkVars, imported, overlapped>>,
           \A c \in Captures : /\ captures'[c] = "held" <=> captures[c] = "held"
                               /\ captures[c] = "gone" => captures'[c] = "gone"
    PROVE  /\ LibraryFollowsHoldings' /\ PostsFollowReferences' /\ FactsStay'
           /\ AdmittedBefore' /\ NoLinkAfterRemoval'
<1>1. \A u, p : /\ Held(u, p)' = Held(u, p)
                /\ Live(<<u, p>>)' <=> Live(<<u, p>>)
                /\ Exists(p)' <=> Exists(p)
  BY DEF Held, Live, Exists
<1>2. LibraryFollowsHoldings'
  BY <1>1 DEF LibraryFollowsHoldings
<1>3. PostsFollowReferences'
  BY <1>1 DEF PostsFollowReferences
<1>4. FactsStay'
  BY DEF FactsStay
<1>5. AdmittedBefore' /\ NoLinkAfterRemoval'
  BY DEF AdmittedBefore, NoLinkAfterRemoval
<1> QED
  BY <1>2, <1>3, <1>4, <1>5

(***************************************************************************)
(* What a deletion counts depends on the rows, and on its own final        *)
(* sources only.                                                           *)
(***************************************************************************)
LEMMA CountsUnchanged ==
    ASSUME NEW x, NEW p, UNCHANGED <<posts, sources>>, deletions'[x].final = deletions[x].final,
           \A c \in Captures : captures'[c] = "held" <=> captures[c] = "held"
    PROVE  /\ FinalHolding(x, p)' <=> FinalHolding(x, p)
           /\ Live(<<OwnerOf[x], p>>)' <=> Live(<<OwnerOf[x], p>>)
           /\ Referenced(x, p)' <=> Referenced(x, p)
           /\ OtherCaptures(x, p)' = OtherCaptures(x, p)
<1>1. OtherCaptures(x, p)' = OtherCaptures(x, p)
  BY DEF OtherCaptures, Held
<1>2. \A u : Live(<<u, p>>)' <=> Live(<<u, p>>)
  BY DEF Live
<1>3. FinalHolding(x, p)' <=> FinalHolding(x, p)
  BY <1>1 DEF FinalHolding, OfficialHolding
<1>4. Referenced(x, p)' <=> Referenced(x, p)
  BY <1>2 DEF Referenced, ReferencedRows
<1> QED
  BY <1>1, <1>2, <1>3, <1>4

(***************************************************************************)
(* A post of an open deletion is held by its target, which every other     *)
(* deletion of the owner counts.                                           *)
(***************************************************************************)
LEMMA OpenIsCounted ==
    ASSUME OpenKeepsPosts, NEW t \in Targets, NEW x \in Targets \ {t}, Open(x),
           OwnerOf[x] = OwnerOf[t], NEW p \in deletions[x].posts
    PROVE  ~FinalHolding(t, p)
<1>1. CASE x \in Captures
  <2>1. captures[x] = "held" /\ PostOf[x] = p
    BY <1>1 DEF OpenKeepsPosts
  <2> QED
    BY <1>1, <2>1 DEF FinalHolding, OtherCaptures, Held
<1>2. CASE x \in Accounts
  <2>1. posts[p].account = x
    BY <1>2 DEF OpenKeepsPosts
  <2> QED
    BY <1>2, <2>1 DEF FinalHolding, OfficialHolding
<1> QED
  BY <1>1, <1>2 DEF Targets

(***************************************************************************)
(* The first transaction of a deletion keeps the invariant: what it counts *)
(* as final holdings is what the rows say at that moment.                  *)
(***************************************************************************)
LEMMA ApplyKeepsInv ==
    ASSUME IInv, NEW t \in Targets, apply(t)
    PROVE  IInv'
<1> USE DEF IInv
<1> DEFINE del == [at |-> "counted", plan |-> build_plan(t), posts |-> PostsOf(t),
                   final |-> {p \in PostsOf(t) : FinalHolding(t, p)}, purge |-> {}, drop |-> {}]
<1>1. /\ UNCHANGED <<captures, posts, sources, removals, linkVars, imported, overlapped>>
      /\ deletions' = [deletions EXCEPT ![t] = del]
      /\ PostsOf(t) # {} /\ deletions[t].at = "idle"
  BY DEF apply
<1>2. /\ IsDeletion(del) /\ del.at = "counted" /\ del.plan = build_plan(t)
      /\ del.posts = PostsOf(t) /\ del.drop = {} /\ del.purge = {}
      /\ del.final = {p \in PostsOf(t) : FinalHolding(t, p)}
  BY DEF IsDeletion
<1> HIDE DEF del
<1>3. /\ DOMAIN deletions' = Targets /\ deletions'[t] = del /\ Open(t)'
      /\ \A x \in Targets \ {t} : deletions'[x] = deletions[x] /\ (Open(x)' <=> Open(x))
  BY <1>1, <1>2 DEF Open, TypeOK
<1>4. PostsOf(t) \subseteq Posts
  BY DEF PostsOf
<1>5. TypeOK'
  <2>1. \A x \in Targets :
            /\ IsDeletion(deletions'[x])
            /\ deletions'[x].posts \subseteq Posts
            /\ deletions'[x].final \subseteq deletions'[x].posts
            /\ deletions'[x].drop \subseteq deletions'[x].posts
    <3>1. del.final \subseteq del.posts /\ del.drop \subseteq del.posts /\ del.posts \subseteq Posts
      BY <1>2, <1>4
    <3> QED
      BY <1>2, <1>3, <3>1 DEF TypeOK
  <2> QED
    BY <1>1, <1>3, <2>1 DEF TypeOK, Exists
<1>6. OpenKeepsPosts'
  <2>1. ASSUME t \in Captures
        PROVE  captures[t] = "held" /\ PostsOf(t) = {PostOf[t]}
    BY <1>1, <2>1, HoldingsAssumption DEF PostsOf
  <2>2. ASSUME t \in Accounts
        PROVE  PostsOf(t) = {p \in Posts : posts[p].account = t}
    BY <2>2, HoldingsAssumption DEF PostsOf
  <2> QED
    BY <1>1, <1>2, <1>3, <2>1, <2>2, SMT DEF OpenKeepsPosts, Targets
<1>7. ASSUME NEW x \in Targets \ {t}, Open(x), OwnerOf[x] = OwnerOf[t],
             NEW p \in deletions[x].posts
      PROVE  p \notin del.final
  BY <1>2, <1>7, OpenIsCounted
<1>8. FinalIsLive'
  <2>1. ASSUME NEW p \in del.final
        PROVE  \A x \in Targets \ {t} :
                    Open(x) /\ OwnerOf[x] = OwnerOf[t] => p \notin deletions[x].final
    BY <1>2, <1>7, <2>1 DEF TypeOK
  <2>2. ASSUME NEW x \in Targets \ {t}, Open(x), NEW p \in deletions[x].final
        PROVE  OwnerOf[x] = OwnerOf[t] => p \notin del.final
    BY <1>7, <2>2 DEF TypeOK
  <2>3. \A s : Live(s)' <=> Live(s)
    BY <1>1 DEF Live
  <2> QED
    BY <1>2, <1>3, <2>1, <2>2, <2>3, SMT DEF FinalIsLive
<1>9. DropIsSafe'
  <2>1. ASSUME NEW x \in Targets \ {t}, deletions[x].at = "checked", NEW p \in deletions[x].drop
        PROVE  OwnerOf[x] = OwnerOf[t] => p \notin del.final
    BY <1>7, <2>1 DEF TypeOK, Open
  <2>2. \A s : Live(s)' <=> Live(s)
    BY <1>1 DEF Live
  <2> QED
    BY <1>1, <1>2, <1>3, <2>1, <2>2, SMT DEF DropIsSafe
<1>10. CountsStand'
  <2> SUFFICES ASSUME NEW x \in Targets, NEW p \in Posts \ overlapped, Open(x)',
                      p \in deletions'[x].posts
               PROVE  /\ p \in deletions'[x].final <=>
                            /\ FinalHolding(x, p)'
                            /\ deletions'[x].at # "counted" => Live(<<OwnerOf[x], p>>)'
                      /\ deletions'[x].at = "checked" =>
                            (p \in deletions'[x].drop <=> ~Referenced(x, p)')
                      /\ x \in Captures /\ deletions'[x].plan = "retain_shared" =>
                            OtherCaptures(x, p)' # {}
    BY <1>1 DEF CountsStand
  <2>1. CASE x = t
    <3>1. /\ FinalHolding(t, p)' <=> FinalHolding(t, p)
          /\ Live(<<OwnerOf[t], p>>)' <=> Live(<<OwnerOf[t], p>>)
          /\ OtherCaptures(t, p)' = OtherCaptures(t, p)
      BY <1>1 DEF FinalHolding, OfficialHolding, OtherCaptures, Held, Live
    <3>2. t \in Captures /\ del.plan = "retain_shared" => OtherCaptures(t, p) # {}
      BY <1>2, <1>3, <2>1, SMT DEF build_plan, PostsOf
    <3> QED
      BY <1>2, <1>3, <2>1, <3>1, <3>2
  <2>2. CASE x # t
    BY <1>1, <1>3, <2>2, CountsUnchanged, SMT DEF CountsStand
  <2> QED
    BY <2>1, <2>2
<1>11. PurgeIsOwn'
  BY <1>2, <1>3 DEF PurgeIsOwn
<1> QED
  BY <1>1, <1>5, <1>6, <1>8, <1>9, <1>10, <1>11, RowsUnchanged

(***************************************************************************)
(* remove_final_owner_source keeps the invariant: of the final holdings it *)
(* keeps those with a source, and it purges facts under its target and its *)
(* posts.                                                                  *)
(***************************************************************************)
LEMMA PurgeKeepsInv ==
    ASSUME IInv, NEW t \in Targets, remove_final_owner_source(t)
    PROVE  IInv'
<1> USE DEF IInv
<1> DEFINE live == {p \in deletions[t].final : Live(<<OwnerOf[t], p>>)}
           facts == PurgedFacts(t, live)
<1>1. /\ UNCHANGED <<captures, posts, sources, removals, linkVars, imported, overlapped>>
      /\ deletions[t].at = "counted"
  BY DEF remove_final_owner_source
<1>2. /\ DOMAIN deletions' = Targets
      /\ \A x \in Targets \ {t} : deletions'[x] = deletions[x]
      /\ deletions'[t] = [deletions[t] EXCEPT !.at = "purged", !.final = live, !.purge = facts]
  BY DEF remove_final_owner_source, TypeOK
<1>3. \A f \in facts : f.fact.operation \in {t, f.source[2]}
  <2> SUFFICES ASSUME NEW f \in facts
               PROVE  f.fact.operation \in {t, f.source[2]}
    OBVIOUS
  <2>1. PICK s \in Sources : \E g \in Purge(sources[s].outbox, t, s[2]) :
            f = [source |-> s, fact |-> g]
    BY DEF PurgedFacts
  <2>2. PICK g \in Purge(sources[s].outbox, t, s[2]) : f = [source |-> s, fact |-> g]
    BY <2>1
  <2>3. f.fact = g /\ f.source = s
    BY <2>2
  <2> QED
    BY <2>3 DEF Purge
<1> HIDE DEF facts
<1>4. live \subseteq deletions[t].final /\ \A p \in live : Live(<<OwnerOf[t], p>>)
  OBVIOUS
<1>5. /\ IsDeletion(deletions'[t]) /\ deletions'[t].at = "purged"
      /\ deletions'[t].plan = deletions[t].plan /\ deletions'[t].posts = deletions[t].posts
      /\ deletions'[t].final = live /\ deletions'[t].drop = deletions[t].drop
      /\ deletions'[t].purge = facts
  <2>1. IsDeletion(deletions[t])
    BY DEF TypeOK
  <2> HIDE DEF live
  <2> QED
    BY <1>2, <2>1 DEF IsDeletion
<1>6. /\ Open(t) /\ \A x \in Targets : Open(x)' <=> Open(x)
      /\ \A s : Live(s)' <=> Live(s)
  BY <1>1, <1>2, <1>5 DEF Open, Live
<1> HIDE DEF live
<1>7. \A x \in Targets : /\ deletions'[x].posts = deletions[x].posts
                         /\ deletions'[x].drop = deletions[x].drop
                         /\ deletions'[x].final \subseteq deletions[x].final
  BY <1>2, <1>4, <1>5
<1>8. TypeOK'
  <2>1. \A x \in Targets :
            /\ IsDeletion(deletions'[x])
            /\ deletions'[x].posts \subseteq Posts
            /\ deletions'[x].final \subseteq deletions'[x].posts
            /\ deletions'[x].drop \subseteq deletions'[x].posts
    BY <1>2, <1>5, <1>7 DEF TypeOK
  <2> QED
    BY <1>1, <1>2, <2>1 DEF TypeOK, Exists
<1>9. OpenKeepsPosts'
  BY <1>1, <1>6, <1>7 DEF OpenKeepsPosts, Targets
<1>10. FinalIsLive'
  <2> SUFFICES ASSUME NEW x \in Targets, Open(x), NEW p \in deletions'[x].final
               PROVE  /\ deletions'[x].at # "counted" => Live(<<OwnerOf[x], p>>)
                      /\ \A y \in Targets \ {x} :
                            Open(y) /\ OwnerOf[y] = OwnerOf[x] => p \notin deletions'[y].final
    BY <1>6 DEF FinalIsLive
  <2>1. deletions'[x].at # "counted" => Live(<<OwnerOf[x], p>>)
    <3>1. CASE x = t
      BY <1>4, <1>5, <3>1
    <3>2. CASE x # t
      BY <1>2, <3>2 DEF FinalIsLive
    <3> QED
      BY <3>1, <3>2
  <2>2. p \in deletions[x].final
    BY <1>7
  <2> QED
    BY <1>7, <2>1, <2>2, SMT DEF FinalIsLive
<1>11. DropIsSafe'
  <2> SUFFICES ASSUME NEW x \in Targets, deletions'[x].at = "checked", NEW p \in deletions'[x].drop
               PROVE  /\ \/ posts[p].account \in {"none", x}
                         \/ p \notin deletions'[x].final /\ Live(<<OwnerOf[x], p>>)
                      /\ \A y \in Targets \ {x} :
                            Open(y) /\ OwnerOf[y] = OwnerOf[x] => p \notin deletions'[y].final
    BY <1>1, <1>6 DEF DropIsSafe
  <2>1. x # t /\ deletions'[x] = deletions[x]
    BY <1>2, <1>5
  <2> QED
    BY <1>7, <2>1, SMT DEF DropIsSafe
<1>12. CountsStand'
  <2> SUFFICES ASSUME NEW x \in Targets, NEW p \in Posts \ overlapped, Open(x),
                      p \in deletions[x].posts
               PROVE  /\ p \in deletions'[x].final <=>
                            /\ FinalHolding(x, p)'
                            /\ deletions'[x].at # "counted" => Live(<<OwnerOf[x], p>>)'
                      /\ deletions'[x].at = "checked" =>
                            (p \in deletions'[x].drop <=> ~Referenced(x, p)')
                      /\ x \in Captures /\ deletions'[x].plan = "retain_shared" =>
                            OtherCaptures(x, p)' # {}
    <3>1. overlapped' = overlapped
      BY <1>1
    <3> QED
      BY <1>6, <1>7, <3>1 DEF CountsStand
  <2>1. CASE x = t
    <3>1. /\ FinalHolding(t, p)' <=> FinalHolding(t, p)
          /\ Live(<<OwnerOf[t], p>>)' <=> Live(<<OwnerOf[t], p>>)
          /\ OtherCaptures(t, p)' = OtherCaptures(t, p)
      BY <1>1 DEF FinalHolding, OfficialHolding, OtherCaptures, Held, Live
    <3>2. p \in deletions[t].final <=> FinalHolding(t, p)
      BY <1>1, <2>1 DEF CountsStand
    <3> QED
      BY <1>5, <2>1, <3>1, <3>2 DEF CountsStand, live
  <2>2. CASE x # t
    BY <1>1, <1>2, <2>2, CountsUnchanged, SMT DEF CountsStand
  <2> QED
    BY <2>1, <2>2
<1>13. PurgeIsOwn'
  BY <1>2, <1>3, <1>5 DEF PurgeIsOwn
<1> QED
  BY <1>1, <1>8, <1>9, <1>10, <1>11, <1>12, <1>13, RowsUnchanged

(***************************************************************************)
(* remove_unreferenced_post keeps the invariant: it writes only the set of *)
(* posts its deletion will drop.                                           *)
(***************************************************************************)
LEMMA CheckKeepsInv ==
    ASSUME IInv, NEW t \in Targets, remove_unreferenced_post(t)
    PROVE  IInv'
<1> USE DEF IInv
<1> DEFINE dropped == {p \in deletions[t].posts : ~Referenced(t, p)}
<1>1. /\ UNCHANGED <<captures, posts, sources, removals, linkVars, imported, overlapped>>
      /\ deletions[t].at = "purged"
  BY DEF remove_unreferenced_post
<1>2. /\ DOMAIN deletions' = Targets
      /\ \A x \in Targets \ {t} : deletions'[x] = deletions[x]
      /\ deletions'[t] = [deletions[t] EXCEPT !.at = "checked", !.drop = dropped]
  BY DEF remove_unreferenced_post, TypeOK
<1>3. /\ IsDeletion(deletions'[t]) /\ deletions'[t].at = "checked"
      /\ deletions'[t].plan = deletions[t].plan /\ deletions'[t].posts = deletions[t].posts
      /\ deletions'[t].final = deletions[t].final /\ deletions'[t].drop = dropped
      /\ deletions'[t].purge = deletions[t].purge
  <2>1. IsDeletion(deletions[t])
    BY DEF TypeOK
  <2> QED
    BY <1>2, <2>1 DEF IsDeletion
<1>4. /\ Open(t) /\ \A x \in Targets : Open(x)' <=> Open(x)
      /\ \A s : Live(s)' <=> Live(s)
  BY <1>1, <1>2, <1>3 DEF Open, Live
<1>5. TypeOK'
  <2>1. \A x \in Targets :
            /\ IsDeletion(deletions'[x])
            /\ deletions'[x].posts \subseteq Posts
            /\ deletions'[x].final \subseteq deletions'[x].posts
            /\ deletions'[x].drop \subseteq deletions'[x].posts
    BY <1>2, <1>3 DEF TypeOK
  <2> QED
    BY <1>1, <1>2, <2>1 DEF TypeOK, Exists
<1> HIDE DEF dropped
<1>6. OpenKeepsPosts'
  <2>1. \A x \in Targets : deletions'[x].posts = deletions[x].posts
    BY <1>2, <1>3
  <2> QED
    BY <1>1, <1>4, <2>1 DEF OpenKeepsPosts, Targets
<1>7. \A x \in Targets : deletions'[x].final = deletions[x].final
  BY <1>2, <1>3
<1>8. FinalIsLive'
  <2>1. \A x \in Targets : deletions'[x].at # "counted" <=> deletions[x].at # "counted"
    BY <1>1, <1>2, <1>3
  <2> QED
    BY <1>4, <1>7, <2>1 DEF FinalIsLive
<1>9. DropIsSafe'
  <2>1. ASSUME NEW p \in dropped
        PROVE  /\ posts[p].account \in {"none", t}
               /\ \A x \in Targets \ {t} :
                    Open(x) /\ OwnerOf[x] = OwnerOf[t] => p \notin deletions[x].final
    <3>1. ~Referenced(t, p)
      BY <2>1 DEF dropped
    <3>2. OwnerOf[t] \in Users
      BY HoldingsAssumption DEF Targets
    <3>3. ASSUME NEW x \in Targets \ {t}, Open(x), OwnerOf[x] = OwnerOf[t],
                 p \in deletions[x].final
          PROVE  FALSE
      <4>1. p \in deletions[x].posts
        BY <3>3 DEF TypeOK
      <4>2. CASE x \in Captures
        <5>1. captures[x] = "held" /\ PostOf[x] = p
          BY <3>3, <4>1, <4>2 DEF OpenKeepsPosts
        <5> QED
          BY <3>1, <3>3, <4>2, <5>1 DEF Referenced, ReferencedRows
      <4>3. CASE x \in Accounts
        <5>1. posts[p].account = x
          BY <3>3, <4>1, <4>3 DEF OpenKeepsPosts
        <5> QED
          BY <3>1, <3>3, <4>3, <5>1, HoldingsAssumption DEF Referenced
      <4> QED
        BY <4>2, <4>3 DEF Targets
    <3> QED
      BY <3>1, <3>3 DEF Referenced
  <2> SUFFICES ASSUME NEW x \in Targets, deletions'[x].at = "checked", NEW p \in deletions'[x].drop
               PROVE  /\ \/ posts[p].account \in {"none", x}
                         \/ p \notin deletions[x].final /\ Live(<<OwnerOf[x], p>>)
                      /\ \A y \in Targets \ {x} :
                            Open(y) /\ OwnerOf[y] = OwnerOf[x] => p \notin deletions[y].final
    BY <1>1, <1>4, <1>7 DEF DropIsSafe
  <2>2. CASE x = t
    BY <1>3, <2>1, <2>2
  <2>3. CASE x # t
    BY <1>2, <2>3, SMT DEF DropIsSafe
  <2> QED
    BY <2>2, <2>3
<1>10. CountsStand'
  <2> SUFFICES ASSUME NEW x \in Targets, NEW p \in Posts \ overlapped, Open(x),
                      p \in deletions[x].posts
               PROVE  /\ p \in deletions'[x].final <=>
                            /\ FinalHolding(x, p)'
                            /\ deletions'[x].at # "counted" => Live(<<OwnerOf[x], p>>)'
                      /\ deletions'[x].at = "checked" =>
                            (p \in deletions'[x].drop <=> ~Referenced(x, p)')
                      /\ x \in Captures /\ deletions'[x].plan = "retain_shared" =>
                            OtherCaptures(x, p)' # {}
    <3>1. \A x \in Targets : deletions'[x].posts = deletions[x].posts /\ (Open(x)' <=> Open(x))
      BY <1>2, <1>3, <1>4
    <3>2. overlapped' = overlapped
      BY <1>1
    <3> QED
      BY <3>1, <3>2 DEF CountsStand
  <2>1. /\ FinalHolding(x, p)' <=> FinalHolding(x, p)
        /\ Live(<<OwnerOf[x], p>>)' <=> Live(<<OwnerOf[x], p>>)
        /\ Referenced(x, p)' <=> Referenced(x, p)
        /\ OtherCaptures(x, p)' = OtherCaptures(x, p)
    BY <1>1, <1>7, CountsUnchanged
  <2>2. CASE x = t
    BY <1>1, <1>3, <2>1, <2>2 DEF CountsStand, dropped
  <2>3. CASE x # t
    BY <1>2, <2>1, <2>3 DEF CountsStand
  <2> QED
    BY <2>2, <2>3
<1>11. PurgeIsOwn'
  <2>1. \A x \in Targets : deletions'[x].purge = deletions[x].purge
    BY <1>2, <1>3
  <2> QED
    BY <2>1 DEF PurgeIsOwn
<1> QED
  BY <1>1, <1>5, <1>6, <1>8, <1>9, <1>10, <1>11, RowsUnchanged

(***************************************************************************)
(* A deletion that ends without a commit of posts: it fails, or it had     *)
(* none.                                                                   *)
(***************************************************************************)
LEMMA EndKeepsInv ==
    ASSUME IInv, NEW t \in Targets, DeletionFails(t) \/ ApplyWithoutPosts(t)
    PROVE  IInv'
<1> USE DEF IInv
<1>1. /\ UNCHANGED <<posts, sources, removals, linkVars, imported, overlapped>>
      /\ DOMAIN deletions' = Targets
      /\ \A x \in Targets \ {t} : deletions'[x] = deletions[x]
  BY DEF DeletionFails, ApplyWithoutPosts, TypeOK
<1>2. /\ ~Open(t)' /\ IsDeletion(deletions'[t]) /\ deletions'[t].posts \subseteq Posts
      /\ deletions'[t].final \subseteq deletions'[t].posts
      /\ deletions'[t].drop \subseteq deletions'[t].posts
      /\ deletions'[t].purge \subseteq deletions[t].purge
  <2>1. CASE DeletionFails(t)
    BY <2>1 DEF DeletionFails, TypeOK, IsDeletion, Idle, Open
  <2>2. CASE ApplyWithoutPosts(t)
    <3>1. deletions'[t] = [deletions[t] EXCEPT !.at = "complete", !.plan = build_plan(t)]
      BY <2>2 DEF ApplyWithoutPosts, TypeOK
    <3>2. /\ IsDeletion(deletions[t]) /\ deletions[t].posts \subseteq Posts
          /\ deletions[t].final \subseteq deletions[t].posts
          /\ deletions[t].drop \subseteq deletions[t].posts
      BY DEF TypeOK
    <3>3. /\ IsDeletion(deletions'[t]) /\ deletions'[t].at = "complete"
          /\ deletions'[t].posts = deletions[t].posts
          /\ deletions'[t].final = deletions[t].final
          /\ deletions'[t].drop = deletions[t].drop
          /\ deletions'[t].purge = deletions[t].purge
      BY <3>1, <3>2 DEF IsDeletion
    <3> QED
      BY <3>2, <3>3 DEF Open
  <2> QED
    BY <2>1, <2>2
<1>3. /\ captures' \in [Captures -> {"accepted", "held", "gone"}]
      /\ \A c \in Captures : /\ captures'[c] = "held" <=> captures[c] = "held"
                             /\ captures[c] = "gone" => captures'[c] = "gone"
  <2>1. CASE DeletionFails(t)
    BY <2>1 DEF DeletionFails, TypeOK
  <2>2. CASE ApplyWithoutPosts(t)
    <3>1. t \in Captures => captures[t] # "held"
      BY <2>2, HoldingsAssumption DEF ApplyWithoutPosts, PostsOf
    <3> QED
      BY <2>2, <3>1 DEF ApplyWithoutPosts, TypeOK
  <2> QED
    BY <2>1, <2>2
<1>4. TypeOK'
  BY <1>1, <1>2, <1>3 DEF TypeOK, Exists
<1>5. /\ \A x \in Targets : Open(x)' => x # t /\ Open(x)
      /\ \A s : Live(s)' <=> Live(s)
  BY <1>1, <1>2 DEF Open, Live
<1>6. OpenKeepsPosts'
  BY <1>1, <1>3, <1>5, SMT DEF OpenKeepsPosts, Targets
<1>7. FinalIsLive'
  BY <1>1, <1>5, SMT DEF FinalIsLive
<1>8. DropIsSafe'
  <2>1. \A x \in Targets : deletions'[x].at = "checked" => x # t
    BY <1>2 DEF Open
  <2> QED
    BY <1>1, <1>5, <2>1, SMT DEF DropIsSafe
<1>9. CountsStand'
  <2> SUFFICES ASSUME NEW x \in Targets, NEW p \in Posts \ overlapped, Open(x)',
                      p \in deletions'[x].posts
               PROVE  /\ p \in deletions'[x].final <=>
                            /\ FinalHolding(x, p)'
                            /\ deletions'[x].at # "counted" => Live(<<OwnerOf[x], p>>)'
                      /\ deletions'[x].at = "checked" =>
                            (p \in deletions'[x].drop <=> ~Referenced(x, p)')
                      /\ x \in Captures /\ deletions'[x].plan = "retain_shared" =>
                            OtherCaptures(x, p)' # {}
    BY <1>1 DEF CountsStand
  <2>1. x # t /\ Open(x) /\ deletions'[x] = deletions[x]
    BY <1>1, <1>5
  <2>2. /\ FinalHolding(x, p)' <=> FinalHolding(x, p)
        /\ Live(<<OwnerOf[x], p>>)' <=> Live(<<OwnerOf[x], p>>)
        /\ Referenced(x, p)' <=> Referenced(x, p)
        /\ OtherCaptures(x, p)' = OtherCaptures(x, p)
    BY <1>1, <1>3, <2>1, CountsUnchanged
  <2> QED
    BY <2>1, <2>2 DEF CountsStand
<1>10. PurgeIsOwn'
  BY <1>1, <1>2 DEF PurgeIsOwn
<1> QED
  BY <1>1, <1>3, <1>4, <1>6, <1>7, <1>8, <1>9, <1>10, RowsUnchanged

(***************************************************************************)
(* The commit takes the owner's final sources, leaves the revisions of the *)
(* others, and purges no fact but those of the target and of its posts.    *)
(***************************************************************************)
LEMMA CommitSources ==
    ASSUME TypeOK, PurgeIsOwn, NEW t \in Targets, apply_target_rows(t), NEW u \in Users, NEW p \in Posts
    PROVE  /\ SourceOK(sources'[<<u, p>>])
           /\ u = OwnerOf[t] /\ p \in deletions[t].final =>
                /\ sources'[<<u, p>>].revisions = {}
                /\ sources'[<<u, p>>].fact = "removed"
           /\ ~(u = OwnerOf[t] /\ p \in deletions[t].final) =>
                /\ sources'[<<u, p>>].revisions = sources[<<u, p>>].revisions
                /\ sources'[<<u, p>>].fact = sources[<<u, p>>].fact
                /\ \A f \in sources[<<u, p>>].outbox :
                    f.operation \notin {t, p} => f \in sources'[<<u, p>>].outbox
<1> DEFINE s == <<u, p>>
           row == sources[s]
           removed == {<<OwnerOf[t], q>> : q \in deletions[t].final}
           moved == {z \in Sources \ removed : sources[z].first = t}
           kept == {f \in row.outbox : [source |-> s, fact |-> f] \notin deletions[t].purge}
           purged == [row EXCEPT !.outbox = kept]
<1>1. s \in Sources /\ s[1] = u /\ s[2] = p
  BY DEF Sources
<1>2. SourceOK(row)
  BY <1>1 DEF TypeOK
<1>3. PICK first : sources'[s] = IF s \in moved
                                 THEN [RemovedSource(s, t) EXCEPT !.first = first[s]]
                                 ELSE RemovedSource(s, t)
  <2>1. PICK first : sources' = [z \in Sources |->
                        IF z \in moved
                        THEN [RemovedSource(z, t) EXCEPT !.first = first[z]]
                        ELSE RemovedSource(z, t)]
    BY DEF apply_target_rows
  <2> HIDE DEF moved, s
  <2> QED
    BY <1>1, <2>1
<1>4. /\ IsSource(purged) /\ purged.revisions = row.revisions /\ purged.newest = row.newest
      /\ purged.fact = row.fact /\ purged.outbox = kept
  <2> HIDE DEF kept
  <2> QED
    BY <1>2, SMT DEF SourceOK, IsSource
<1>5. RemovedSource(s, t) = IF u = OwnerOf[t] /\ p \in deletions[t].final
                            THEN append_removal(purged, t)
                            ELSE purged
  <2>1. purged = [row EXCEPT !.outbox = {f \in @ : [source |-> s, fact |-> f]
                                                       \notin deletions[t].purge}]
    BY <1>2 DEF SourceOK, IsSource
  <2> QED
    BY <1>1, <2>1 DEF RemovedSource
<1>6. CASE u = OwnerOf[t] /\ p \in deletions[t].final
  <2>1. s \notin moved
    BY <1>6
  <2> HIDE DEF moved, s, purged, kept
  <2>2. sources'[s] = append_removal(purged, t)
    BY <1>3, <1>5, <1>6, <2>1
  <2>3. /\ IsSource(sources'[s]) /\ sources'[s].revisions = {} /\ sources'[s].newest = {}
        /\ sources'[s].fact = "removed"
    BY <2>2 DEF append_removal, NoSource, IsSource
  <2>4. SourceOK(sources'[s])
    BY <2>3 DEF SourceOK, Digests
  <2> QED
    BY <1>6, <2>3, <2>4 DEF s
<1>7. CASE ~(u = OwnerOf[t] /\ p \in deletions[t].final)
  <2>1. RemovedSource(s, t) = purged
    BY <1>5, <1>7
  <2>2. ASSUME NEW f \in row.outbox, f.operation \notin {t, p}
        PROVE  f \in purged.outbox
    <3> DEFINE entry == [source |-> s, fact |-> f]
    <3>1. entry.fact = f /\ entry.source = s
      OBVIOUS
    <3> HIDE DEF entry
    <3>2. entry \notin deletions[t].purge
      BY <1>1, <2>2, <3>1 DEF PurgeIsOwn
    <3> QED
      BY <1>4, <3>2 DEF entry
  <2> HIDE DEF moved, s, purged, row, kept
  <2>3. /\ IsSource(RemovedSource(s, t))
        /\ RemovedSource(s, t).revisions = row.revisions
        /\ RemovedSource(s, t).newest = row.newest
        /\ RemovedSource(s, t).fact = row.fact
        /\ \A f \in row.outbox : f.operation \notin {t, p} => f \in RemovedSource(s, t).outbox
    BY <1>4, <2>1, <2>2
  <2>4. /\ IsSource(sources'[s])
        /\ sources'[s].revisions = row.revisions
        /\ sources'[s].newest = row.newest
        /\ sources'[s].fact = row.fact
        /\ \A f \in row.outbox : f.operation \notin {t, p} => f \in sources'[s].outbox
    BY <1>3, <2>3 DEF IsSource
  <2>5. SourceOK(sources'[s])
    BY <1>2, <2>4 DEF SourceOK, Digests
  <2> QED
    BY <1>7, <2>4, <2>5 DEF s, row
<1> QED
  BY <1>6, <1>7

(***************************************************************************)
(* The posts the deletion drops are gone, the others lose at most their    *)
(* connection to the target.                                               *)
(***************************************************************************)
LEMMA CommitPosts ==
    ASSUME TypeOK, NEW t \in Targets, apply_target_rows(t), NEW p \in Posts
    PROVE  /\ IsPost(posts'[p])
           /\ p \in deletions[t].drop =>
                ~Exists(p)' /\ posts'[p].account = "none"
           /\ p \notin deletions[t].drop =>
                /\ posts'[p].method = posts[p].method
                /\ posts'[p].account = IF posts[p].account = t THEN "none" ELSE posts[p].account
                /\ posts[p].account # t => posts'[p] = posts[p]
                /\ Exists(p)' <=> Exists(p)
<1>1. posts'[p] = IF p \in deletions[t].drop THEN NoPost
                  ELSE IF posts[p].account = t THEN [posts[p] EXCEPT !.account = "none"]
                  ELSE posts[p]
  BY DEF apply_target_rows
<1>2. IsPost(posts[p]) /\ (Exists(p) => posts[p].method # "none")
  BY DEF TypeOK
<1>3. IsPost(NoPost) /\ NoPost.account = "none" /\ NoPost.method = "none"
  BY DEF IsPost, NoPost
<1> DEFINE detached == [posts[p] EXCEPT !.account = "none"]
<1>4. IsPost(detached) /\ detached.method = posts[p].method /\ detached.account = "none"
  BY <1>2, SMT DEF IsPost
<1>5. posts[p].account = t => Exists(p)
  BY <1>3, HoldingsAssumption DEF Exists, Targets
<1> HIDE DEF detached
<1>6. CASE p \in deletions[t].drop
  BY <1>1, <1>3, <1>6 DEF Exists
<1>7. CASE p \notin deletions[t].drop /\ posts[p].account = t
  <2>1. posts'[p] = detached
    BY <1>1, <1>7 DEF detached
  <2> QED
    BY <1>2, <1>3, <1>4, <1>5, <1>7, <2>1 DEF Exists
<1>8. CASE p \notin deletions[t].drop /\ posts[p].account # t
  BY <1>1, <1>2, <1>8 DEF Exists
<1> QED
  BY <1>6, <1>7, <1>8

(***************************************************************************)
(* The rest of the commit, and what it leaves of the posts it does not     *)
(* touch.                                                                  *)
(***************************************************************************)
LEMMA CommitFrame ==
    ASSUME TypeOK, OpenKeepsPosts, NEW t \in Targets, apply_target_rows(t)
    PROVE  /\ Open(t) /\ ~Open(t)' /\ OwnerOf[t] \in Users
           /\ DOMAIN sources' = Sources
           /\ DOMAIN deletions' = Targets
           /\ \A x \in Targets \ {t} : deletions'[x] = deletions[x] /\ (Open(x)' <=> Open(x))
           /\ IsDeletion(deletions'[t]) /\ deletions'[t].posts = deletions[t].posts
           /\ deletions'[t].final = deletions[t].final /\ deletions'[t].drop = deletions[t].drop
           /\ deletions'[t].purge = deletions[t].purge
           /\ captures' \in [Captures -> {"accepted", "held", "gone"}]
           /\ \A c \in Captures \ {t} : captures'[c] = captures[c]
           /\ t \in Captures => captures'[t] = "gone"
           /\ overlapped \subseteq overlapped'
           /\ \A x \in Targets \ {t}, p \in deletions[t].posts :
                Open(x) /\ p \in deletions[x].posts => p \in overlapped'
           /\ \A p \in Posts \ deletions[t].posts :
                /\ posts'[p] = posts[p] /\ p \notin deletions[t].final
                /\ t \in Captures => PostOf[t] # p
<1>1. deletions[t].at = "checked" /\ deletions' = [deletions EXCEPT ![t].at = "complete"]
  BY DEF apply_target_rows
<1>2. /\ DOMAIN deletions' = Targets
      /\ \A x \in Targets \ {t} : deletions'[x] = deletions[x]
      /\ IsDeletion(deletions'[t]) /\ deletions'[t].posts = deletions[t].posts
      /\ deletions'[t].final = deletions[t].final /\ deletions'[t].drop = deletions[t].drop
      /\ deletions'[t].purge = deletions[t].purge
      /\ deletions'[t].at = "complete"
  BY <1>1, SMT DEF TypeOK, IsDeletion
<1>3. /\ Open(t) /\ ~Open(t)' /\ \A x \in Targets \ {t} : Open(x)' <=> Open(x)
      /\ OwnerOf[t] \in Users
  BY <1>1, <1>2, HoldingsAssumption DEF Open, Targets
<1>4. DOMAIN sources' = Sources
  BY DEF apply_target_rows
<1>5. /\ captures' \in [Captures -> {"accepted", "held", "gone"}]
      /\ \A c \in Captures \ {t} : captures'[c] = captures[c]
      /\ t \in Captures => captures'[t] = "gone"
  BY DEF apply_target_rows, TypeOK
<1>6. overlapped' = overlapped \union UNION {Overlap(p, Targets \ {t}) : p \in deletions[t].posts}
  BY DEF apply_target_rows
<1>7. ASSUME NEW x \in Targets \ {t}, NEW p \in deletions[t].posts, Open(x),
             p \in deletions[x].posts
      PROVE  p \in overlapped'
  <2>1. p \in Overlap(p, Targets \ {t})
    BY <1>7 DEF Overlap
  <2> QED
    BY <1>6, <2>1
<1>8. ASSUME NEW p \in Posts \ deletions[t].posts
      PROVE  /\ posts'[p] = posts[p] /\ p \notin deletions[t].final
             /\ t \in Captures => PostOf[t] # p
  <2>1. p \notin deletions[t].drop /\ p \notin deletions[t].final
    BY DEF TypeOK
  <2>2. t \in Captures => PostOf[t] # p
    BY <1>3 DEF OpenKeepsPosts
  <2>3. posts[p].account # t
    <3>1. CASE t \in Captures
      BY <3>1, HoldingsAssumption, SMT DEF TypeOK
    <3>2. CASE t \in Accounts
      BY <1>3, <3>2 DEF OpenKeepsPosts
    <3> QED
      BY <3>1, <3>2 DEF Targets
  <2> QED
    BY <2>1, <2>2, <2>3, CommitPosts
<1> QED
  BY <1>2, <1>3, <1>4, <1>5, <1>6, <1>7, <1>8

(***************************************************************************)
(* The transaction that removes the rows of a deletion keeps the           *)
(* invariant: a source loses its revisions and its announcements exactly   *)
(* when the deletion counted the last holding of it.                       *)
(***************************************************************************)
LEMMA CommitKeepsInv ==
    ASSUME IInv, NEW t \in Targets, apply_target_rows(t)
    PROVE  IInv'
<1> USE DEF IInv
<1> DEFINE del == deletions[t]
           Gone(u, p) == u = OwnerOf[t] /\ p \in deletions[t].final
<1>1. \A p \in del.drop : ~ReferencedRows(t, p)
  BY DEF apply_target_rows
<1>2. /\ OwnerOf[t] \in Users /\ Open(t) /\ ~Open(t)'
      /\ \A x \in Targets : Open(x)' => x # t /\ Open(x) /\ deletions'[x] = deletions[x]
  BY CommitFrame
<1>3. \A u \in Users, p \in Posts : Live(<<u, p>>)' <=> Live(<<u, p>>) /\ ~Gone(u, p)
  BY CommitSources DEF Live
<1>4. \A x \in Targets : OwnerOf[x] \in Users /\ deletions[x].posts \subseteq Posts
  BY HoldingsAssumption DEF TypeOK, Targets
<1>5. \A p \in Posts : posts'[p].account \in {"none", posts[p].account}
  BY CommitPosts
<1>6. \A p \in del.drop : posts[p].account \in {"none", t}
  <2> SUFFICES ASSUME NEW p \in del.drop
               PROVE  posts[p].account \in {"none", t}
    OBVIOUS
  <2>1. ~(p \notin deletions[t].final /\ Live(<<OwnerOf[t], p>>))
    BY <1>1, <1>2 DEF ReferencedRows
  <2>2. deletions[t].at = "checked"
    BY DEF apply_target_rows
  <2> QED
    BY <2>1, <2>2 DEF DropIsSafe
<1>7. \A p \in Posts : posts[p].account # t => posts'[p].account = posts[p].account
  <2> SUFFICES ASSUME NEW p \in Posts, posts[p].account # t
               PROVE  posts'[p].account = posts[p].account
    OBVIOUS
  <2>1. CASE p \in del.drop
    BY <1>6, <2>1, CommitPosts
  <2>2. CASE p \notin del.drop
    BY <2>2, CommitPosts
  <2> QED
    BY <2>1, <2>2
<1>8. TypeOK'
  <2>1. ASSUME NEW p \in Posts
        PROVE  /\ IsPost(posts'[p])
               /\ Exists(p)' => posts'[p].method # "none"
               /\ posts'[p].account \in {"none", AuthorOf[p]}
    <3>1. posts'[p].account \in {"none", AuthorOf[p]}
      BY <1>5 DEF TypeOK
    <3> QED
      BY <3>1, CommitPosts, SMT DEF TypeOK
  <2>2. \A s \in Sources : SourceOK(sources'[s])
    BY CommitSources, SMT DEF Sources
  <2>3. \A x \in Targets :
            /\ IsDeletion(deletions'[x])
            /\ deletions'[x].posts \subseteq Posts
            /\ deletions'[x].final \subseteq deletions'[x].posts
            /\ deletions'[x].drop \subseteq deletions'[x].posts
    BY CommitFrame, SMT DEF TypeOK
  <2>4. links' \subseteq links /\ DOMAIN posts' = Posts
    BY DEF apply_target_rows
  <2> QED
    BY <2>1, <2>2, <2>3, <2>4, CommitFrame DEF TypeOK
<1>9. OpenKeepsPosts'
  <2>1. ASSUME NEW c \in Captures, Open(c)'
        PROVE  captures'[c] = "held" /\ deletions'[c].posts = {PostOf[c]}
    BY <1>2, <2>1, CommitFrame, SMT DEF OpenKeepsPosts, Targets
  <2>2. ASSUME NEW a \in Accounts, Open(a)', NEW p \in Posts
        PROVE  posts'[p].account = a <=> posts[p].account = a
    <3>1. a # t /\ a # "none"
      BY <1>2, <2>2, HoldingsAssumption DEF Targets
    <3> QED
      BY <1>5, <1>7, <3>1
  <2> QED
    BY <1>2, <2>1, <2>2, SMT DEF OpenKeepsPosts, Targets
<1>10. FinalIsLive'
  <2> SUFFICES ASSUME NEW x \in Targets, Open(x)', NEW p \in deletions[x].final
               PROVE  deletions[x].at # "counted" => Live(<<OwnerOf[x], p>>)'
    BY <1>2 DEF FinalIsLive
  <2>1. p \in Posts
    BY <1>4 DEF TypeOK
  <2>2. /\ deletions[x].at # "counted" => Live(<<OwnerOf[x], p>>)
        /\ ~Gone(OwnerOf[x], p)
    BY <1>2 DEF FinalIsLive
  <2> QED
    BY <1>3, <1>4, <2>1, <2>2
<1>11. DropIsSafe'
  <2> SUFFICES ASSUME NEW x \in Targets, deletions'[x].at = "checked", NEW p \in deletions'[x].drop
               PROVE  /\ \/ posts'[p].account \in {"none", x}
                         \/ p \notin deletions'[x].final /\ Live(<<OwnerOf[x], p>>)'
                      /\ \A y \in Targets \ {x} :
                            Open(y)' /\ OwnerOf[y] = OwnerOf[x] => p \notin deletions'[y].final
    BY DEF DropIsSafe
  <2>1. Open(x)'
    BY DEF Open
  <2>2. x # t /\ Open(x) /\ deletions'[x] = deletions[x]
    BY <1>2, <2>1
  <2>3. p \in Posts
    BY <1>4, <2>2 DEF TypeOK
  <2>4. /\ \/ posts[p].account \in {"none", x}
           \/ p \notin deletions[x].final /\ Live(<<OwnerOf[x], p>>)
        /\ \A y \in Targets \ {x} :
                Open(y) /\ OwnerOf[y] = OwnerOf[x] => p \notin deletions[y].final
    BY <2>2 DEF DropIsSafe
  <2>5. ~Gone(OwnerOf[x], p)
    BY <1>2, <2>2, <2>4
  <2> QED
    BY <1>2, <1>3, <1>4, <1>5, <2>2, <2>3, <2>4, <2>5
<1>12. ASSUME NEW p \in Posts \ del.posts
       PROVE  /\ posts'[p] = posts[p] /\ p \notin del.drop
              /\ \A u \in Users : /\ Held(u, p)' = Held(u, p) /\ ~Gone(u, p)
                                  /\ Live(<<u, p>>)' <=> Live(<<u, p>>)
              /\ \A c \in Captures : PostOf[c] = p => captures'[c] = captures[c]
  <2>1. /\ posts'[p] = posts[p] /\ p \notin deletions[t].final
        /\ t \in Captures => PostOf[t] # p
    BY CommitFrame
  <2>2. \A c \in Captures : PostOf[c] = p => captures'[c] = captures[c]
    BY <2>1, CommitFrame
  <2> QED
    BY <1>3, <2>1, <2>2, SMT DEF Held, TypeOK
<1>13. CountsStand'
  <2> SUFFICES ASSUME NEW x \in Targets, NEW p \in Posts \ overlapped', Open(x)',
                      p \in deletions'[x].posts
               PROVE  /\ p \in deletions'[x].final <=>
                            /\ FinalHolding(x, p)'
                            /\ deletions'[x].at # "counted" => Live(<<OwnerOf[x], p>>)'
                      /\ deletions'[x].at = "checked" =>
                            (p \in deletions'[x].drop <=> ~Referenced(x, p)')
                      /\ x \in Captures /\ deletions'[x].plan = "retain_shared" =>
                            OtherCaptures(x, p)' # {}
    BY DEF CountsStand
  <2>1. x # t /\ Open(x) /\ deletions'[x] = deletions[x] /\ OwnerOf[x] \in Users
    BY <1>2, <1>4
  <2>2. p \in Posts \ del.posts /\ p \notin overlapped
    BY <2>1, CommitFrame
  <2>3. /\ OtherCaptures(x, p)' = OtherCaptures(x, p)
        /\ FinalHolding(x, p)' <=> FinalHolding(x, p)
        /\ Live(<<OwnerOf[x], p>>)' <=> Live(<<OwnerOf[x], p>>)
    BY <1>12, <2>1, <2>2 DEF OtherCaptures, FinalHolding, OfficialHolding
  <2>4. Referenced(x, p)' <=> Referenced(x, p)
    <3>1. /\ posts'[p] = posts[p]
          /\ \A u \in Users : Live(<<u, p>>)' <=> Live(<<u, p>>)
          /\ \A c \in Captures : PostOf[c] = p => captures'[c] = captures[c]
      BY <1>12, <2>2
    <3> QED
      BY <2>1, <3>1 DEF Referenced, ReferencedRows
  <2> QED
    BY <2>1, <2>2, <2>3, <2>4 DEF CountsStand
<1>14. \A p \in Posts \ overlapped' : p \in del.posts =>
            /\ p \in del.final <=> FinalHolding(t, p) /\ Live(<<OwnerOf[t], p>>)
            /\ p \in del.drop <=> ~Referenced(t, p)
  <2>1. deletions[t].at = "checked" /\ Open(t)
    BY <1>2 DEF apply_target_rows
  <2> QED
    BY <2>1, CommitFrame DEF CountsStand
<1>15. LibraryFollowsHoldings'
  <2> SUFFICES ASSUME NEW u \in Users, NEW p \in Posts \ overlapped'
               PROVE  /\ Held(u, p)' # {} => Live(<<u, p>>)'
                      /\ Live(<<u, p>>)' => Holder(u, p)'
    BY DEF LibraryFollowsHoldings, Holder
  <2>1. imported' = imported \ {<<OwnerOf[t], q>> : q \in del.final}
    BY DEF apply_target_rows
  <2>2. ~Gone(u, p) /\ <<u, p>> \in imported => <<u, p>> \in imported'
    BY <2>1
  <2>3. p \notin overlapped
    BY CommitFrame
  <2>4. /\ Held(u, p) # {} => Live(<<u, p>>)
        /\ Live(<<u, p>>) => Holder(u, p)
    BY <2>3 DEF LibraryFollowsHoldings, Holder
  <2>5. CASE p \notin del.posts
    BY <1>12, <2>2, <2>4, <2>5 DEF Holder
  <2>6. CASE p \in del.posts
    <3>1. Held(u, p)' = Held(u, p) \ {t}
      <4>1. \A c \in Captures : captures'[c] = "held" <=> c # t /\ captures[c] = "held"
        BY CommitFrame, SMT
      <4> QED
        BY <4>1 DEF Held
    <3>2. ASSUME Held(u, p)' # {}
          PROVE  Live(<<u, p>>)'
      <4>1. ~Gone(u, p)
        BY <1>14, <2>6, <3>1, <3>2 DEF FinalHolding, OtherCaptures
      <4> QED
        BY <1>3, <2>4, <3>1, <3>2, <4>1
    <3>3. ASSUME NEW a \in Accounts \ {t}, posts[p].account = a, OwnerOf[a] = u
          PROVE  Holder(u, p)'
      BY <1>7, <3>3 DEF Holder
    <3>4. ASSUME Live(<<u, p>>)'
          PROVE  Holder(u, p)'
      <4>1. Live(<<u, p>>) /\ ~Gone(u, p) /\ Holder(u, p)
        BY <1>3, <2>4, <3>4
      <4>2. CASE u = OwnerOf[t]
        <5>1. Held(u, p) \ {t} # {} \/ OfficialHolding(t, p)
          BY <1>14, <2>6, <4>1, <4>2 DEF FinalHolding, OtherCaptures
        <5> QED
          BY <3>1, <3>3, <4>2, <5>1 DEF Holder, OfficialHolding
      <4>3. CASE u # OwnerOf[t]
        <5>1. Held(u, p)' = Held(u, p)
          BY <3>1, <4>3 DEF Held
        <5> QED
          BY <2>2, <3>3, <4>1, <4>3, <5>1 DEF Holder
      <4> QED
        BY <4>2, <4>3
    <3> QED
      BY <3>2, <3>4
  <2> QED
    BY <2>5, <2>6
<1>16. PostsFollowReferences'
  <2> SUFFICES ASSUME NEW p \in Posts
               PROVE  /\ \/ \E c \in Captures : captures'[c] = "held" /\ PostOf[c] = p
                         \/ \E u \in Users : Live(<<u, p>>)'
                         => Exists(p)'
                      /\ p \notin overlapped' /\ Exists(p)' =>
                            \/ \E c \in Captures : captures'[c] = "held" /\ PostOf[c] = p
                            \/ \E u \in Users : Live(<<u, p>>)'
                            \/ posts'[p].account # "none"
    BY DEF PostsFollowReferences
  <2>1. /\ \A c \in Captures : captures'[c] = "held" <=> c # t /\ captures[c] = "held"
        /\ p \notin overlapped' => p \notin overlapped
    BY CommitFrame, SMT
  <2>2. /\ \/ \E c \in Captures : captures[c] = "held" /\ PostOf[c] = p
           \/ \E u \in Users : Live(<<u, p>>)
           => Exists(p)
        /\ p \notin overlapped /\ Exists(p) =>
            \/ \E c \in Captures : captures[c] = "held" /\ PostOf[c] = p
            \/ \E u \in Users : Live(<<u, p>>)
            \/ posts[p].account # "none"
    BY DEF PostsFollowReferences
  <2>3. ReferencedRows(t, p) <=>
            \/ \E c \in Captures : captures'[c] = "held" /\ PostOf[c] = p
            \/ \E u \in Users : Live(<<u, p>>)'
    BY <1>3, <2>1 DEF ReferencedRows
  <2>4. ReferencedRows(t, p) => Exists(p) /\ p \notin del.drop
    BY <1>1, <2>2 DEF ReferencedRows
  <2>5. p \notin del.drop /\ Exists(p) => Exists(p)'
    BY CommitPosts
  <2>6. ASSUME p \notin overlapped', Exists(p)'
        PROVE  ReferencedRows(t, p) \/ posts'[p].account # "none"
    <3>1. p \notin del.drop
      BY <2>6, CommitPosts
    <3>2. CASE p \in del.posts
      <4>1. ReferencedRows(t, p) \/ posts[p].account \notin {"none", t}
        BY <1>14, <2>6, <3>1, <3>2 DEF Referenced
      <4> QED
        BY <1>7, <4>1
    <3>3. CASE p \notin del.posts
      <4>1. /\ posts'[p] = posts[p] /\ Exists(p)
            /\ \A u \in Users : Live(<<u, p>>)' <=> Live(<<u, p>>)
            /\ \A c \in Captures : PostOf[c] = p => captures'[c] = captures[c]
        BY <1>12, <2>6, <3>3 DEF Exists
      <4> QED
        BY <2>1, <2>2, <2>3, <2>6, <4>1
    <3> QED
      BY <3>2, <3>3
  <2> QED
    BY <2>3, <2>4, <2>5, <2>6
<1>17. FactsStay'
  <2> SUFFICES ASSUME NEW u \in Users, NEW p \in Posts,
                      NEW r \in sources'[<<u, p>>].revisions,
                      r.operation \in Captures, captures'[r.operation] # "gone"
               PROVE  Announces(sources'[<<u, p>>].outbox, r)
    BY SMT DEF FactsStay, Sources
  <2>1. /\ sources'[<<u, p>>].revisions = sources[<<u, p>>].revisions
        /\ \A f \in sources[<<u, p>>].outbox :
            f.operation \notin {t, p} => f \in sources'[<<u, p>>].outbox
    BY CommitSources
  <2>2. r.operation # t /\ captures[r.operation] # "gone"
    BY CommitFrame
  <2>3. r.operation # p
    BY HoldingsAssumption
  <2>4. Announces(sources[<<u, p>>].outbox, r)
    BY <2>1, <2>2 DEF FactsStay, Sources
  <2> QED
    BY <2>1, <2>2, <2>3, <2>4 DEF Announces
<1>18. NoLinkAfterRemoval'
  <2> DEFINE removed == {<<OwnerOf[t], p>> : p \in del.final}
  <2>1. /\ links' = {l \in links : l.source \notin removed}
        /\ removals' = removals \union removed
        /\ overtaken \subseteq overtaken'
    BY DEF apply_target_rows
  <2> SUFFICES ASSUME NEW l \in links, l.source \notin removed
               PROVE  /\ l.source \in removals => l.event \in overtaken
                      /\ l.digest \in Digests(sources'[l.source])
    BY <2>1 DEF NoLinkAfterRemoval
  <2>2. PICK u \in Users, p \in Posts : l.source = <<u, p>>
    BY SMT DEF TypeOK, Sources
  <2>3. ~Gone(u, p)
    BY <2>2
  <2>4. Digests(sources'[<<u, p>>]) = Digests(sources[<<u, p>>])
    BY <2>3, CommitSources DEF Digests
  <2> HIDE DEF removed
  <2> QED
    BY <2>2, <2>4 DEF NoLinkAfterRemoval
<1>19. PurgeIsOwn'
  BY CommitFrame DEF PurgeIsOwn
<1>20. AdmittedBefore'
  BY DEF AdmittedBefore, apply_target_rows
<1> QED
  BY <1>8, <1>9, <1>10, <1>11, <1>13, <1>15, <1>16, <1>17, <1>18, <1>19, <1>20

-----------------------------------------------------------------------------
(***************************************************************************)
(* Every step                                                              *)
(***************************************************************************)

(***************************************************************************)
(* The invariant holds of the empty database.                              *)
(***************************************************************************)
LEMMA InitEstablishesInv ==
    Init => IInv
<1> SUFFICES ASSUME Init PROVE IInv
  OBVIOUS
<1>1. /\ \A t \in Targets : deletions[t] = Idle
      /\ \A p \in Posts : posts[p] = NoPost
      /\ \A s \in Sources : sources[s] = NoSource
      /\ \A c \in Captures : captures[c] = "accepted"
      /\ links = {}
  BY DEF Init
<1>2. /\ IsDeletion(Idle) /\ Idle.at = "idle"
      /\ Idle.posts = {} /\ Idle.final = {} /\ Idle.purge = {} /\ Idle.drop = {}
      /\ IsPost(NoPost) /\ NoPost.account = "none"
      /\ IsSource(NoSource) /\ NoSource.revisions = {} /\ NoSource.newest = {}
      /\ NoSource.fact = "none"
  BY DEF IsDeletion, Idle, IsPost, NoPost, IsSource, NoSource
<1>3. SourceOK(NoSource)
  BY <1>2 DEF SourceOK, Digests
<1>4. TypeOK
  BY <1>1, <1>2, <1>3 DEF TypeOK, Init, Exists
<1>5. \A t \in Targets : ~Open(t) /\ deletions[t].at # "checked"
  BY <1>1, <1>2 DEF Open
<1>6. OpenKeepsPosts /\ FinalIsLive /\ DropIsSafe /\ CountsStand
  BY <1>5 DEF OpenKeepsPosts, FinalIsLive, DropIsSafe, CountsStand, Targets
<1>7. \A u \in Users, p \in Posts : Held(u, p) = {} /\ ~Live(<<u, p>>)
  BY <1>1, <1>2 DEF Held, Live, Sources
<1>8. LibraryFollowsHoldings /\ PostsFollowReferences
  BY <1>1, <1>7 DEF LibraryFollowsHoldings, PostsFollowReferences, Exists
<1>9. FactsStay /\ PurgeIsOwn /\ NoLinkAfterRemoval
  BY <1>1, <1>2 DEF FactsStay, PurgeIsOwn, NoLinkAfterRemoval
<1>10. AdmittedBefore
  <2>1. NoCompletion.at = "idle"
    BY DEF NoCompletion
  <2> QED
    BY <2>1 DEF AdmittedBefore, Init
<1> QED
  BY <1>4, <1>6, <1>8, <1>9, <1>10 DEF IInv

(***************************************************************************)
(* A step that leaves rows and deletions alone keeps what the invariant    *)
(* says of deletions.                                                      *)
(***************************************************************************)
LEMMA DeletionsUnchanged ==
    ASSUME OpenKeepsPosts, FinalIsLive, DropIsSafe, CountsStand, PurgeIsOwn,
           UNCHANGED <<captures, posts, sources, deletions, overlapped>>
    PROVE  OpenKeepsPosts' /\ FinalIsLive' /\ DropIsSafe' /\ CountsStand' /\ PurgeIsOwn'
<1>1. OpenKeepsPosts' /\ FinalIsLive' /\ DropIsSafe' /\ PurgeIsOwn'
  BY DEF OpenKeepsPosts, FinalIsLive, DropIsSafe, PurgeIsOwn, Open, Live
<1>2. ASSUME NEW t, NEW p
      PROVE  /\ Open(t)' <=> Open(t)
             /\ FinalHolding(t, p)' <=> FinalHolding(t, p)
             /\ Live(<<OwnerOf[t], p>>)' <=> Live(<<OwnerOf[t], p>>)
             /\ Referenced(t, p)' <=> Referenced(t, p)
             /\ OtherCaptures(t, p)' = OtherCaptures(t, p)
  BY CountsUnchanged DEF Open
<1>3. CountsStand'
  BY <1>2, SMT DEF CountsStand
<1> QED
  BY <1>1, <1>3

(***************************************************************************)
(* A step of a completion keeps the invariant: one that finds its source   *)
(* removed ends, and only one that was admitted before the removal links a *)
(* removed source.                                                         *)
(***************************************************************************)
LEMMA CompletionKeepsInv ==
    ASSUME IInv, NEW e \in Events,
           \/ \E s \in Sources, d \in CompletedDigests : RecordCompletion(e, s, d)
           \/ MatchRevision(e) \/ LinkCompletion(e) \/ CompletionFails(e)
    PROVE  IInv'
<1> USE DEF IInv
<1> DEFINE open == completions[e]
<1>1. UNCHANGED <<captures, posts, sources, removals, deletions, imported, overlapped>>
  BY DEF RecordCompletion, MatchRevision, LinkCompletion, CompletionFails
<1>2. NoCompletion.at = "idle"
  BY DEF NoCompletion
<1>3. open.at # "idle" => /\ IsCompletion(open) /\ e \notin inbox /\ open.source \in Sources
                          /\ open.source \in removals => e \in overtaken
  BY DEF AdmittedBefore
<1>4. /\ DOMAIN completions = Events
      /\ \A l \in links : l.event \in inbox
  BY DEF AdmittedBefore
<1>5. ASSUME UNCHANGED <<links, overtaken>>, Close(e)
      PROVE  TypeOK' /\ AdmittedBefore' /\ NoLinkAfterRemoval'
  <2>1. TypeOK' /\ NoLinkAfterRemoval'
    BY <1>1, <1>5 DEF TypeOK, Exists, NoLinkAfterRemoval
  <2>2. AdmittedBefore'
    BY <1>1, <1>2, <1>5 DEF AdmittedBefore, Close
  <2> QED
    BY <2>1, <2>2
<1>6. ASSUME UNCHANGED <<links, overtaken, inbox>>, NEW next,
             completions' = [completions EXCEPT ![e] = next], IsCompletion(next),
             e \notin inbox, next.source \in Sources, next.source \in removals => e \in overtaken
      PROVE  TypeOK' /\ AdmittedBefore' /\ NoLinkAfterRemoval'
  <2>1. TypeOK' /\ NoLinkAfterRemoval'
    BY <1>1, <1>6 DEF TypeOK, Exists, NoLinkAfterRemoval
  <2>2. AdmittedBefore'
    BY <1>1, <1>4, <1>6 DEF AdmittedBefore
  <2> QED
    BY <2>1, <2>2
<1>7. TypeOK' /\ AdmittedBefore' /\ NoLinkAfterRemoval'
  <2>1. ASSUME NEW s \in Sources, NEW d, RecordCompletion(e, s, d)
        PROVE  TypeOK' /\ AdmittedBefore' /\ NoLinkAfterRemoval'
    <3> DEFINE next == [at |-> "admitted", source |-> s, digest |-> d]
    <3>1. IsCompletion(next) /\ next.source = s
      BY DEF IsCompletion
    <3> HIDE DEF next
    <3> QED
      BY <1>5, <1>6, <2>1, <3>1 DEF RecordCompletion, reject_locally_removed, next
  <2>2. ASSUME MatchRevision(e)
        PROVE  TypeOK' /\ AdmittedBefore' /\ NoLinkAfterRemoval'
    <3> DEFINE next == [open EXCEPT !.at = "matched"]
    <3>1. /\ UNCHANGED <<links, overtaken>>
          /\ \/ Close(e)
             \/ completions' = [completions EXCEPT ![e] = next] /\ UNCHANGED inbox
          /\ open.at # "idle"
      BY <2>2 DEF MatchRevision
    <3>2. IsCompletion(next) /\ next.source = open.source
      <4>1. IsCompletion(open)
        BY <1>3, <3>1
      <4> HIDE DEF open
      <4> QED
        BY ONLY <4>1, SMT DEF IsCompletion
    <3> HIDE DEF next
    <3> QED
      BY <1>3, <1>5, <1>6, <3>1, <3>2
  <2>3. ASSUME LinkCompletion(e)
        PROVE  TypeOK' /\ AdmittedBefore' /\ NoLinkAfterRemoval'
    <3> DEFINE link == [event |-> e, source |-> open.source, digest |-> open.digest]
    <3>1. /\ links' = links \union {link} /\ Close(e) /\ overtaken' = overtaken
          /\ open.at # "idle" /\ open.digest \in Digests(sources[open.source])
      BY <2>3 DEF LinkCompletion
    <3>2. link.event = e /\ link.source = open.source /\ link.digest = open.digest
      OBVIOUS
    <3> HIDE DEF link
    <3>3. TypeOK'
      BY <1>1, <1>3, <3>1, <3>2 DEF TypeOK, Exists
    <3>4. AdmittedBefore'
      BY <1>1, <1>2, <3>1, <3>2 DEF AdmittedBefore, Close
    <3>5. NoLinkAfterRemoval'
      BY <1>1, <1>3, <3>1, <3>2 DEF NoLinkAfterRemoval
    <3> QED
      BY <3>3, <3>4, <3>5
  <2>4. ASSUME CompletionFails(e)
        PROVE  TypeOK' /\ AdmittedBefore' /\ NoLinkAfterRemoval'
    <3>1. /\ completions' = [completions EXCEPT ![e] = NoCompletion]
          /\ overtaken' = overtaken \ {e} /\ UNCHANGED <<inbox, links>>
          /\ open.at # "idle"
      BY <2>4 DEF CompletionFails
    <3>2. \A l \in links : l.event # e
      BY <1>3, <1>4, <3>1
    <3>3. TypeOK'
      BY <1>1, <3>1 DEF TypeOK, Exists
    <3>4. AdmittedBefore'
      BY <1>1, <1>2, <3>1 DEF AdmittedBefore
    <3>5. NoLinkAfterRemoval'
      BY <1>1, <3>1, <3>2 DEF NoLinkAfterRemoval
    <3> QED
      BY <3>3, <3>4, <3>5
  <2> QED
    BY <2>1, <2>2, <2>3, <2>4
<1>8. OpenKeepsPosts' /\ FinalIsLive' /\ DropIsSafe' /\ CountsStand' /\ PurgeIsOwn'
  BY <1>1, DeletionsUnchanged
<1>9. LibraryFollowsHoldings' /\ PostsFollowReferences' /\ FactsStay'
  BY <1>1 DEF LibraryFollowsHoldings, PostsFollowReferences, FactsStay, Held, Live, Exists
<1> QED
  BY <1>7, <1>8, <1>9

(***************************************************************************)
(* An action of Observe makes an observation.                              *)
(***************************************************************************)
LEMMA ObserveObserves ==
    ASSUME TypeOK, PostsFollowReferences, Observe
    PROVE  \E p \in Posts : \E post, origins : Observation(p, post, origins)
BY RecordObserves, UnavailableObserves, SyncObserves, ReconcileObserves DEF Observe

(***************************************************************************)
(* Every step of the system keeps the invariant.                           *)
(***************************************************************************)
LEMMA NextKeepsInv ==
    IInv /\ [Next]_vars => IInv'
<1> SUFFICES ASSUME IInv, [Next]_vars PROVE IInv'
  OBVIOUS
<1>1. CASE Observe
  BY <1>1, ObserveObserves, ObservationKeepsInv DEF IInv
<1>2. CASE Complete
  BY <1>2, CompletionKeepsInv DEF Complete
<1>3. CASE Delete
  BY <1>3, ApplyKeepsInv, PurgeKeepsInv, CheckKeepsInv, EndKeepsInv, CommitKeepsInv DEF Delete
<1>4. CASE UNCHANGED vars
  <2> USE DEF IInv
  <2>1. UNCHANGED <<captures, posts, sources, removals, linkVars, deletions, imported,
                    overlapped>>
    BY <1>4 DEF vars
  <2>2. TypeOK' /\ AdmittedBefore' /\ NoLinkAfterRemoval'
    BY <2>1 DEF TypeOK, Exists, AdmittedBefore, NoLinkAfterRemoval
  <2>3. OpenKeepsPosts' /\ FinalIsLive' /\ DropIsSafe' /\ CountsStand' /\ PurgeIsOwn'
    BY <2>1, DeletionsUnchanged
  <2>4. LibraryFollowsHoldings' /\ PostsFollowReferences' /\ FactsStay'
    BY <2>1 DEF LibraryFollowsHoldings, PostsFollowReferences, FactsStay, Held, Live, Exists
  <2> QED
    BY <2>2, <2>3, <2>4
<1> QED
  BY <1>1, <1>2, <1>3, <1>4 DEF Next

(***************************************************************************)
(* The inductive invariant holds in every state, for any constants.        *)
(***************************************************************************)
THEOREM InvariantHolds == Spec => []IInv
BY InitEstablishesInv, NextKeepsInv, PTL DEF Spec

-----------------------------------------------------------------------------
(***************************************************************************)
(* The safety properties                                                   *)
(***************************************************************************)

(***************************************************************************)
(* Unless a transaction overlapped a deletion of the same post, a source   *)
(* is in the library of every owner with a capture and of no owner without *)
(* a holding.                                                              *)
(***************************************************************************)
THEOREM LibraryIsRight == Spec => []LibraryFollowsHoldings
<1>1. IInv => LibraryFollowsHoldings
  BY DEF IInv
<1> QED
  BY <1>1, InvariantHolds, PTL

(***************************************************************************)
(* No deletion takes a post row that a capture or a source refers to,      *)
(* whatever overlaps it, and none it could have taken stays behind.        *)
(***************************************************************************)
THEOREM PostsAreRight == Spec => []PostsFollowReferences
<1>1. IInv => PostsFollowReferences
  BY DEF IInv
<1> QED
  BY <1>1, InvariantHolds, PTL

(***************************************************************************)
(* The purge of a source takes no fact of another capture.                 *)
(***************************************************************************)
THEOREM AnnouncementsAreKept == Spec => []AnnouncementsSurvive
<1>1. IInv => AnnouncementsSurvive
  BY DEF IInv, FactsStay, AnnouncementsSurvive, Announces
<1> QED
  BY <1>1, InvariantHolds, PTL

(***************************************************************************)
(* A completion of Knowledge is linked only to a revision that exists, and *)
(* to a source that was removed only where it had passed the check of      *)
(* local_source_removals before the removal committed.                     *)
(***************************************************************************)
THEOREM RemovalIsFinal == Spec => []NoLinkAfterRemoval
<1>1. IInv => NoLinkAfterRemoval
  BY DEF IInv
<1> QED
  BY <1>1, InvariantHolds, PTL

(***************************************************************************)
(* What the audit of a capture deletion calls retained is there after the  *)
(* commit: the only step that completes a checked deletion is its commit,  *)
(* and the other capture it counted keeps source and post.                 *)
(***************************************************************************)
LEMMA CommitRetains ==
    ASSUME IInv, IInv', NEW c \in Captures, Next,
           deletions[c].at = "checked", deletions'[c].at = "complete",
           deletions[c].plan = "retain_shared", PostOf[c] \notin overlapped'
    PROVE  sources'[<<OwnerOf[c], PostOf[c]>>].revisions # {} /\ posts'[PostOf[c]] # NoPost
<1> USE DEF IInv
<1> DEFINE p == PostOf[c]
           u == OwnerOf[c]
<1>1. c \in Targets /\ p \in Posts /\ u \in Users /\ Open(c)
  BY HoldingsAssumption DEF Targets, Open
<1>2. apply_target_rows(c)
  <2>1. deletions' # deletions
    OBVIOUS
  <2>2. Delete
    <3>1. ~Observe
      BY <2>1, ObserveObserves DEF Observation, Written
    <3>2. ~Complete
      BY <2>1 DEF Complete, RecordCompletion, MatchRevision, LinkCompletion, CompletionFails
    <3> QED
      BY <3>1, <3>2 DEF Next
  <2>3. PICK t \in Targets : \/ apply(t) \/ ApplyWithoutPosts(t)
                             \/ remove_final_owner_source(t)
                             \/ remove_unreferenced_post(t) \/ apply_target_rows(t)
                             \/ DeletionFails(t)
    BY <2>2 DEF Delete
  <2>4. t = c
    BY <1>1, <2>3 DEF apply, ApplyWithoutPosts, remove_final_owner_source,
                      remove_unreferenced_post, apply_target_rows, DeletionFails, TypeOK
  <2>5. /\ ~apply(t) /\ ~ApplyWithoutPosts(t)
        /\ ~remove_final_owner_source(t) /\ ~remove_unreferenced_post(t)
    BY <2>4 DEF apply, ApplyWithoutPosts, remove_final_owner_source, remove_unreferenced_post
  <2>6. ~DeletionFails(t)
    <3>1. Idle.at = "idle"
      BY DEF Idle
    <3> QED
      BY <1>1, <2>4, <3>1 DEF DeletionFails, TypeOK
  <2> QED
    BY <2>3, <2>4, <2>5, <2>6
<1>3. p \in deletions[c].posts /\ p \notin overlapped
  BY <1>1, <1>2, CommitFrame, SMT DEF OpenKeepsPosts
<1>4. OtherCaptures(c, p) # {} /\ p \notin deletions[c].final
  BY <1>1, <1>3 DEF CountsStand, FinalHolding
<1>5. Live(<<u, p>>)
  BY <1>1, <1>3, <1>4 DEF LibraryFollowsHoldings, OtherCaptures
<1>6. Live(<<u, p>>)'
  BY <1>1, <1>2, <1>4, <1>5, CommitSources, SMT DEF Live
<1>7. Exists(p)'
  BY <1>1, <1>6 DEF PostsFollowReferences
<1> QED
  BY <1>6, <1>7 DEF Live, Exists

(***************************************************************************)
(* A commit that nothing overlapped keeps what its audit calls retained.   *)
(***************************************************************************)
THEOREM AuditIsRight == Spec => RetainedIsKept
<1>1. ASSUME IInv, IInv', [Next]_vars
      PROVE  [\A c \in Captures :
                deletions[c].at = "checked" /\ deletions'[c].at = "complete"
                    /\ deletions[c].plan = "retain_shared" /\ PostOf[c] \notin overlapped'
                => sources'[<<OwnerOf[c], PostOf[c]>>].revisions # {}
                   /\ posts'[PostOf[c]] # NoPost]_vars
  BY <1>1, CommitRetains
<1> QED
  BY <1>1, InvariantHolds, PTL DEF Spec, RetainedIsKept

-----------------------------------------------------------------------------
(***************************************************************************)
(* SourceHoldings implements SourceFeed                                    *)
(***************************************************************************)

(***************************************************************************)
(* What a step may do to one source.                                       *)
(***************************************************************************)
Follows(before, row) ==
    \/ Grown(before, row)
    \/ before.revisions # {} /\ row.revisions = {} /\ row.fact = "removed"
    \/ row.revisions = before.revisions /\ row.fact = before.fact

(***************************************************************************)
(* Each step moves every source row of the database the way a feed entry   *)
(* may move: it is observed, it is removed, or it stays.                   *)
(***************************************************************************)
LEMMA SourcesFollow ==
    ASSUME IInv, [Next]_vars, NEW u \in Users, NEW p \in Posts
    PROVE  Follows(sources[<<u, p>>], sources'[<<u, p>>])
<1> USE DEF IInv
<1>1. CASE Observe
  <2>1. PICK q \in Posts : \E post, origins : Observation(q, post, origins)
    BY <1>1, ObserveObserves
  <2>2. PICK post, origins : Observation(q, post, origins)
    BY <2>1
  <2>3. <<u, p>> \in Sources /\ <<u, p>>[2] = p
    BY DEF Sources
  <2> QED
    BY <2>2, <2>3 DEF Observation, Written, Follows
<1>2. CASE UNCHANGED sources
  BY <1>2 DEF Follows
<1>3. ASSUME NEW t \in Targets, apply_target_rows(t)
      PROVE  Follows(sources[<<u, p>>], sources'[<<u, p>>])
  <2>1. CASE u = OwnerOf[t] /\ p \in deletions[t].final
    <3>1. Live(<<u, p>>)
      BY <1>3, <2>1, CommitFrame DEF FinalIsLive, apply_target_rows
    <3> QED
      BY <1>3, <2>1, <3>1, CommitSources DEF Follows, Live
  <2>2. CASE ~(u = OwnerOf[t] /\ p \in deletions[t].final)
    BY <1>3, <2>2, CommitSources DEF Follows
  <2> QED
    BY <2>1, <2>2
<1> QED
  BY <1>1, <1>2, <1>3 DEF Next, Complete, RecordCompletion, MatchRevision, LinkCompletion,
                          CompletionFails, Delete, apply, ApplyWithoutPosts,
                          remove_final_owner_source, remove_unreferenced_post, DeletionFails, vars

(***************************************************************************)
(* A step on one source is one of SourceFeed.                              *)
(***************************************************************************)
LEMMA FollowsIsAFeedStep ==
    ASSUME NEW s \in Sources, SourceOK(sources[s]), Follows(sources[s], sources'[s])
    PROVE  Feed!Announce(s) \/ Feed!Remove(s) \/ Feed!Stay(s)
<1> DEFINE before == sources[s]
           row == sources'[s]
<1>1. before.fact \in {"captured", "updated"} <=> before.revisions # {}
  BY DEF SourceOK
<1>2. /\ before.revisions = {} => Digests(before) = {}
      /\ row.revisions = {} => Digests(row) = {}
      /\ row.revisions = before.revisions => Digests(row) = Digests(before)
      /\ before.revisions \subseteq row.revisions => Digests(before) \subseteq Digests(row)
  BY DEF Digests
<1>3. CASE row.revisions = before.revisions /\ row.fact = before.fact
  BY <1>2, <1>3 DEF Feed!Stay
<1>4. CASE before.revisions # {} /\ row.revisions = {} /\ row.fact = "removed"
  BY <1>1, <1>2, <1>4 DEF Feed!Remove, Feed!InLibrary
<1>5. CASE Grown(before, row) /\ row # before
  <2>1. /\ Digests(before) \subseteq Digests(row) /\ Digests(row) # Digests(before)
        /\ row.fact = IF before.revisions = {} /\ \E d \in Digests(row) : Digests(row) = {d}
                      THEN "captured" ELSE "updated"
    BY <1>2, <1>5 DEF Grown
  <2> QED
    BY <1>1, <1>2, <2>1 DEF Feed!Announce, Feed!InLibrary
<1> QED
  BY <1>3, <1>4, <1>5 DEF Follows

(***************************************************************************)
(* The facts of every source follow the protocol of SourceFeed, whatever   *)
(* lanes write it and whatever overlaps.                                   *)
(***************************************************************************)
THEOREM FeedIsImplemented == Spec => KeepsFeedPromise
<1>1. Init => Feed!Init
  <2> SUFFICES ASSUME Init PROVE Feed!Init
    OBVIOUS
  <2>1. \A s \in Sources : sources[s].fact = "none" /\ Digests(sources[s]) = {}
    <3>1. NoSource.fact = "none" /\ NoSource.revisions = {}
      BY DEF NoSource
    <3> QED
      BY <3>1 DEF Init, Digests
  <2> QED
    BY <2>1 DEF Feed!Init
<1>2. ASSUME IInv, IInv', [Next]_vars
      PROVE  Feed!Next
  <2>1. \A s \in Sources : Follows(sources[s], sources'[s])
    BY <1>2, SourcesFollow, SMT DEF Sources
  <2>2. \A s \in Sources : SourceOK(sources[s]) /\ SourceOK(sources'[s])
    BY <1>2 DEF IInv, TypeOK
  <2>3. \A s \in Sources : Feed!Announce(s) \/ Feed!Remove(s) \/ Feed!Stay(s)
    BY <2>1, <2>2, FollowsIsAFeedStep
  <2>4. \A s \in Sources : sources'[s].fact \in {"none", "captured", "updated", "removed"}
    BY <2>2 DEF SourceOK
  <2> QED
    BY <2>3, <2>4 DEF Feed!Next
<1> QED
  BY <1>1, <1>2, InvariantHolds, PTL DEF Spec, KeepsFeedPromise, Feed!Spec
=============================================================================
