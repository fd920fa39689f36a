------------------------- MODULE AccountArchiveProofs -------------------------
(***************************************************************************)
(* Proofs about ReplyGraph and AccountArchive: the search for a cycle of   *)
(* replies is exact, the replies a resolution checked stay acyclic, and    *)
(* AccountArchive implements OfficialAccount, so what is proved of an      *)
(* account alone holds beside public resolution and the deletion of        *)
(* captures.                                                               *)
(***************************************************************************)
EXTENDS AccountArchive, OfficialAccountProofs, FiniteSetTheorems, NaturalSets

(***************************************************************************)
(* Most leaves are first-order; those that need records or arithmetic name *)
(* SMT.                                                                    *)
(***************************************************************************)
USE Zenon

(***************************************************************************)
(* What a search returns, and a search for every post and every set of     *)
(* complete posts.                                                         *)
(***************************************************************************)
Outcomes == [cycle : BOOLEAN, complete : SUBSET Posts]
Searches == [Posts \X SUBSET Posts -> Outcomes]

(***************************************************************************)
(* The equation of the recursive function of SearchEach.                   *)
(***************************************************************************)
Last(some) == CHOOSE p \in some : TRUE
EachBody(search, complete, some, found) ==
    IF some = {} THEN [cycle |-> FALSE, complete |-> complete]
    ELSE IF found[some \ {Last(some)}].cycle \/ Last(some) \in found[some \ {Last(some)}].complete
         THEN found[some \ {Last(some)}]
    ELSE search[<<Last(some), found[some \ {Last(some)}].complete>>]

EachEquation(search, posts, complete, found) ==
    /\ found \in [SUBSET posts -> Outcomes]
    /\ \A some \in SUBSET posts : found[some] = EachBody(search, complete, some, found)

(***************************************************************************)
(* A round of SearchEach returns an outcome.                               *)
(***************************************************************************)
LEMMA EachBodyTyped ==
    ASSUME NEW search \in Searches, NEW posts \in SUBSET Posts, NEW complete \in SUBSET Posts,
           NEW some \in SUBSET posts, NEW found,
           some # {} => found[some \ {Last(some)}] \in Outcomes
    PROVE  EachBody(search, complete, some, found) \in Outcomes
<1>1. CASE some = {}
  BY <1>1 DEF EachBody, Outcomes
<1>2. CASE some # {}
  <2>1. Last(some) \in some
    BY <1>2 DEF Last
  <2>2. found[some \ {Last(some)}] \in Outcomes
    BY <1>2
  <2>3. found[some \ {Last(some)}].complete \in SUBSET Posts /\ Last(some) \in Posts
    BY <2>1, <2>2 DEF Outcomes
  <2>4. search[<<Last(some), found[some \ {Last(some)}].complete>>] \in Outcomes
    BY <2>3 DEF Searches
  <2> QED
    BY <1>2, <2>2, <2>4 DEF EachBody
<1> QED
  BY <1>1, <1>2

(***************************************************************************)
(* The size of a subset is a rank, and a set without one of its elements   *)
(* ranks lower.                                                            *)
(***************************************************************************)
LEMMA SizesAreRanks ==
    ASSUME NEW posts \in SUBSET Posts
    PROVE  /\ Cardinality(posts) \in Nat
           /\ [some \in SUBSET posts |-> Cardinality(some)]
                  \in Ranks(SUBSET posts, Cardinality(posts))
<1>1. IsFiniteSet(posts) /\ Cardinality(posts) \in Nat
  BY GraphAssumption, FS_Subset, FS_CardinalityType
<1>2. ASSUME NEW some \in SUBSET posts PROVE Cardinality(some) \in 0..Cardinality(posts)
  BY <1>1, FS_Subset, FS_CardinalityType, SMT
<1> QED
  BY <1>1, <1>2 DEF Ranks

(***************************************************************************)
(* A nonempty set without its last element ranks lower.                    *)
(***************************************************************************)
LEMMA SmallerRank ==
    ASSUME NEW posts \in SUBSET Posts, NEW some \in SUBSET posts, some # {}
    PROVE  /\ Last(some) \in some
           /\ some \ {Last(some)} \in SUBSET posts
           /\ Cardinality(some \ {Last(some)}) < Cardinality(some)
<1>1. Last(some) \in some
  BY DEF Last
<1>2. IsFiniteSet(some)
  BY GraphAssumption, FS_Subset
<1>3. Cardinality(some \ {Last(some)}) = Cardinality(some) - 1
  BY <1>1, <1>2, FS_RemoveElement
<1>4. Cardinality(some) \in Nat
  BY <1>2, FS_CardinalityType
<1> QED
  BY <1>1, <1>3, <1>4, SMT

(***************************************************************************)
(* The equation of SearchEach has a solution, so the function the          *)
(* definition chooses is one, and it returns outcomes.                     *)
(***************************************************************************)
LEMMA SearchEachIsFound ==
    ASSUME NEW search \in Searches, NEW posts \in SUBSET Posts, NEW complete \in SUBSET Posts
    PROVE  \E found : /\ EachEquation(search, posts, complete, found)
                      /\ SearchEach(search, posts, complete) = found[posts]
<1> DEFINE S == SUBSET posts
           N == Cardinality(posts)
           rank == [some \in S |-> Cardinality(some)]
           next == [at \in S \X [S -> Outcomes] |-> EachBody(search, complete, at[1], at[2])]
<1>1. N \in Nat
  BY SizesAreRanks
<1>2. rank \in Ranks(S, N)
  BY SizesAreRanks
<1>3. \A x \in S : x # {} => x \ {Last(x)} \in S /\ rank[x \ {Last(x)}] < rank[x]
  BY SmallerRank
<1>4. next \in Bodies(S, Outcomes)
  <2>1. ASSUME NEW x \in S, NEW f \in [S -> Outcomes]
        PROVE  EachBody(search, complete, x, f) \in Outcomes
    BY <1>3, EachBodyTyped
  <2> QED
    BY <2>1 DEF Bodies
<1>5. ASSUME NEW x \in S, NEW f \in [S -> Outcomes], NEW g \in [S -> Outcomes],
             \A y \in S : rank[y] < rank[x] => f[y] = g[y]
      PROVE  next[<<x, f>>] = next[<<x, g>>]
  <2>1. next[<<x, f>>] = EachBody(search, complete, x, f)
        /\ next[<<x, g>>] = EachBody(search, complete, x, g)
    OBVIOUS
  <2>2. x # {} => f[x \ {Last(x)}] = g[x \ {Last(x)}]
    BY <1>3, <1>5
  <2> QED
    BY <2>1, <2>2 DEF EachBody
<1>6. Descends(S, Outcomes, rank, next)
  BY <1>5 DEF Descends
<1>7. Solutions(S, Outcomes, next) # {}
  <2>1. [cycle |-> FALSE, complete |-> {}] \in Outcomes
    BY DEF Outcomes
  <2> HIDE DEF S, N, rank, next
  <2> QED
    BY <1>1, <1>2, <1>4, <1>6, <2>1, RankedRecursion
<1>8. PICK g \in [S -> Outcomes] : \A some \in S : g[some] = EachBody(search, complete, some, g)
  <2>1. PICK g \in [S -> Outcomes] : \A some \in S : g[some] = next[<<some, g>>]
    BY <1>7 DEF Solutions
  <2>2. \A some \in S : next[<<some, g>>] = EachBody(search, complete, some, g)
    OBVIOUS
  <2> QED
    BY <2>1, <2>2
<1> DEFINE Solves(f) ==
              f = [some \in SUBSET posts |->
                     LET last == CHOOSE p \in some : TRUE
                         before == f[some \ {last}]
                     IN  IF some = {} THEN [cycle |-> FALSE, complete |-> complete]
                         ELSE IF before.cycle \/ last \in before.complete THEN before
                         ELSE search[<<last, before.complete>>]]
           found == CHOOSE f : Solves(f)
<1>9. SearchEach(search, posts, complete) = found[posts]
  BY DEF SearchEach
<1>10. Solves(g)
  BY <1>8 DEF EachBody, Last
<1>11. Solves(found)
  <2> HIDE DEF Solves
  <2> QED
    BY <1>10
<1> HIDE DEF found
<1>12. DOMAIN found = S /\ \A some \in S : found[some] = EachBody(search, complete, some, found)
  BY <1>11 DEF EachBody, Last
<1>13. \A some \in S : found[some] \in Outcomes
  <2> DEFINE T == {some \in S : found[some] \in Outcomes}
  <2>1. ASSUME NEW x \in S, \A y \in S : rank[y] < rank[x] => y \in T
        PROVE  x \in T
    <3>1. x # {} => found[x \ {Last(x)}] \in Outcomes
      BY <1>3, <2>1
    <3> QED
      BY <1>12, <3>1, EachBodyTyped, SMT
  <2> HIDE DEF S, N, rank, T
  <2>2. S \subseteq T
    BY <1>1, <1>2, <2>1, RankedInduction, SMT
  <2> QED
    BY <2>2 DEF T
<1>14. found \in [S -> Outcomes]
  <2>1. found = [some \in S |-> found[some]]
    BY <1>11
  <2> QED
    BY <2>1, <1>13
<1> QED
  BY <1>9, <1>12, <1>14 DEF EachEquation

(***************************************************************************)
(* A set of posts that a search may have left complete: it holds what its  *)
(* posts reply to, and no loop.                                            *)
(***************************************************************************)
Loop(replies, loop) == \A p \in loop : \E q \in loop : <<p, q>> \in replies

Finished(replies, complete) ==
    /\ \A p \in complete : \A q \in Posts : <<p, q>> \in replies => q \in complete
    /\ \A loop \in SUBSET complete : Loop(replies, loop) => loop = {}

(***************************************************************************)
(* What the outcome of a search of some posts says, when it began with a   *)
(* finished set of posts.                                                  *)
(***************************************************************************)
Answers(replies, outcome, complete, some) ==
    IF outcome.cycle THEN HasCycle(replies)
    ELSE /\ Finished(replies, outcome.complete)
         /\ complete \subseteq outcome.complete
         /\ some \subseteq outcome.complete

Decides(replies, search, p) ==
    \A complete \in SUBSET Posts : Finished(replies, complete) =>
        Answers(replies, search[<<p, complete>>], complete, {p})

(***************************************************************************)
(* If the search of each post is right, so is the search of one after      *)
(* another.                                                                *)
(***************************************************************************)
LEMMA SearchEachAnswers ==
    ASSUME NEW replies, NEW search \in Searches, NEW posts \in SUBSET Posts,
           NEW complete \in SUBSET Posts, Finished(replies, complete),
           \A p \in posts : Decides(replies, search, p)
    PROVE  /\ SearchEach(search, posts, complete) \in Outcomes
           /\ Answers(replies, SearchEach(search, posts, complete), complete, posts)
<1> DEFINE S == SUBSET posts
           N == Cardinality(posts)
           rank == [some \in S |-> Cardinality(some)]
<1>1. PICK found : /\ EachEquation(search, posts, complete, found)
                   /\ SearchEach(search, posts, complete) = found[posts]
  BY SearchEachIsFound
<1>2. N \in Nat /\ rank \in Ranks(S, N)
  BY SizesAreRanks
<1> DEFINE T == {some \in S : Answers(replies, found[some], complete, some)}
<1>3. ASSUME NEW some \in S, \A y \in S : rank[y] < rank[some] => y \in T
      PROVE  some \in T
  <2>1. found[some] = EachBody(search, complete, some, found)
    BY <1>1 DEF EachEquation
  <2>2. CASE some = {}
    <3>1. found[some] = [cycle |-> FALSE, complete |-> complete]
      BY <2>1, <2>2 DEF EachBody
    <3>2. found[some].cycle = FALSE /\ found[some].complete = complete
      BY ONLY <3>1, SMT
    <3> QED
      BY <2>2, <3>2 DEF Answers
  <2>3. CASE some # {}
    <3> DEFINE last == Last(some)
               before == found[some \ {last}]
    <3>1. some \ {last} \in S /\ rank[some \ {last}] < rank[some] /\ last \in some
      BY <2>3, SmallerRank
    <3>2. Answers(replies, before, complete, some \ {last})
      BY <1>3, <3>1
    <3>3. before \in Outcomes
      BY <1>1, <3>1 DEF EachEquation
    <3>4. before.complete \in SUBSET Posts /\ before.cycle \in BOOLEAN
      BY <3>3 DEF Outcomes
    <3>5. found[some] = IF before.cycle \/ last \in before.complete THEN before
                        ELSE search[<<last, before.complete>>]
      BY <2>1, <2>3 DEF EachBody
    <3> HIDE DEF before, last
    <3>6. CASE before.cycle \/ last \in before.complete
      <4>1. found[some] = before
        BY <3>5, <3>6
      <4> QED
        BY <3>2, <3>6, <4>1 DEF Answers
    <3>7. CASE ~ (before.cycle \/ last \in before.complete)
      <4>1. found[some] = search[<<last, before.complete>>]
        BY <3>5, <3>7
      <4>2. /\ Finished(replies, before.complete)
            /\ complete \subseteq before.complete
            /\ some \ {last} \subseteq before.complete
        BY <3>2, <3>7 DEF Answers
      <4>3. Answers(replies, found[some], before.complete, {last})
        BY <3>1, <3>4, <4>1, <4>2 DEF Decides
      <4> QED
        BY <4>2, <4>3 DEF Answers
    <3> QED
      BY <3>6, <3>7
  <2> QED
    BY <2>2, <2>3
<1>4. S \subseteq T
  <2> HIDE DEF S, N, rank, T
  <2> QED
    BY <1>2, <1>3, RankedInduction, SMT
<1> QED
  BY <1>1, <1>4 DEF EachEquation

(***************************************************************************)
(* The equation of the recursive function of visits_cycle.                 *)
(***************************************************************************)
Targets(replies, current) == {target \in Posts : <<current, target>> \in replies}

Visit(replies, visiting, search, current, complete) ==
    LET below == SearchEach(search, Targets(replies, current), complete)
    IN  IF current \in visiting THEN [cycle |-> TRUE, complete |-> complete]
        ELSE IF below.cycle THEN below
        ELSE [cycle |-> FALSE, complete |-> below.complete \union {current}]

VisitBody(replies, visiting, visits) ==
    [at \in Posts \X SUBSET Posts |->
        Visit(replies, visiting, visits[visiting \union {at[1]}], at[1], at[2])]

VisitEquation(replies, visits) ==
    /\ visits \in [SUBSET Posts -> Searches]
    /\ \A visiting \in SUBSET Posts :
          visits[visiting] = VisitBody(replies, visiting, visits)

(***************************************************************************)
(* A visit returns an outcome.  The search below is not looked at when the *)
(* post is on the path already.                                            *)
(***************************************************************************)
LEMMA VisitTyped ==
    ASSUME NEW replies, NEW visiting \in SUBSET Posts, NEW search, NEW current \in Posts,
           NEW complete \in SUBSET Posts, current \notin visiting => search \in Searches
    PROVE  Visit(replies, visiting, search, current, complete) \in Outcomes
<1> DEFINE targets == Targets(replies, current)
           below == SearchEach(search, targets, complete)
<1>1. CASE current \in visiting
  <2>1. [cycle |-> TRUE, complete |-> complete] \in Outcomes
    BY DEF Outcomes
  <2> QED
    BY <1>1, <2>1 DEF Visit
<1>2. CASE current \notin visiting
  <2>1. targets \in SUBSET Posts
    BY DEF Targets
  <2>2. below \in Outcomes
    <3>1. PICK found : /\ EachEquation(search, targets, complete, found)
                       /\ below = found[targets]
      BY <1>2, <2>1, SearchEachIsFound
    <3> QED
      BY <3>1, SMT DEF EachEquation
  <2>3. Visit(replies, visiting, search, current, complete) =
            IF below.cycle THEN below
            ELSE [cycle |-> FALSE, complete |-> below.complete \union {current}]
    BY <1>2 DEF Visit
  <2> HIDE DEF below
  <2>4. [cycle |-> FALSE, complete |-> below.complete \union {current}] \in Outcomes
    BY <2>2 DEF Outcomes
  <2> QED
    BY <2>2, <2>3, <2>4
<1> QED
  BY <1>1, <1>2

(***************************************************************************)
(* The number of posts off the path is a rank, and it falls with each      *)
(* visit.                                                                  *)
(***************************************************************************)
LEMMA VisitsAreRanked ==
    /\ Cardinality(Posts) \in Nat
    /\ [visiting \in SUBSET Posts |-> Cardinality(Posts \ visiting)]
           \in Ranks(SUBSET Posts, Cardinality(Posts))
    /\ \A visiting \in SUBSET Posts : \A current \in Posts \ visiting :
          /\ visiting \union {current} \in SUBSET Posts
          /\ Cardinality(Posts \ (visiting \union {current})) < Cardinality(Posts \ visiting)
<1>1. IsFiniteSet(Posts) /\ Cardinality(Posts) \in Nat
  BY GraphAssumption, FS_CardinalityType
<1>2. \A visiting \in SUBSET Posts : /\ IsFiniteSet(Posts \ visiting)
                                     /\ Cardinality(Posts \ visiting) \in 0..Cardinality(Posts)
  <2> SUFFICES ASSUME NEW visiting \in SUBSET Posts
               PROVE  /\ IsFiniteSet(Posts \ visiting)
                      /\ Cardinality(Posts \ visiting) \in 0..Cardinality(Posts)
    OBVIOUS
  <2>1. Posts \ visiting \in SUBSET Posts
    OBVIOUS
  <2>2. IsFiniteSet(Posts \ visiting) /\ Cardinality(Posts \ visiting) <= Cardinality(Posts)
    BY <1>1, <2>1, FS_Subset
  <2> QED
    BY <1>1, <2>2, FS_CardinalityType, SMT
<1>3. ASSUME NEW visiting \in SUBSET Posts, NEW current \in Posts \ visiting
      PROVE  Cardinality(Posts \ (visiting \union {current})) < Cardinality(Posts \ visiting)
  <2>1. Posts \ (visiting \union {current}) = (Posts \ visiting) \ {current}
    OBVIOUS
  <2>2. Cardinality((Posts \ visiting) \ {current}) = Cardinality(Posts \ visiting) - 1
    BY <1>2, FS_RemoveElement
  <2>3. Cardinality(Posts \ visiting) \in Nat
    BY <1>2, FS_CardinalityType
  <2> QED
    BY <2>1, <2>2, <2>3, SMT
<1> QED
  BY <1>1, <1>2, <1>3 DEF Ranks

(***************************************************************************)
(* The equation of visits_cycle has a solution, so visits_cycle is one:    *)
(* the recursion ends because the path grows within the posts.             *)
(***************************************************************************)
LEMMA VisitsAreFound ==
    ASSUME NEW replies
    PROVE  VisitEquation(replies, visits_cycle(replies))
<1> DEFINE S == SUBSET Posts
           N == Cardinality(Posts)
           rank == [visiting \in S |-> Cardinality(Posts \ visiting)]
           next == [at \in S \X [S -> Searches] |-> VisitBody(replies, at[1], at[2])]
<1>1. /\ N \in Nat
      /\ rank \in Ranks(S, N)
      /\ \A x \in S : \A p \in Posts \ x : x \union {p} \in S /\ rank[x \union {p}] < rank[x]
  BY VisitsAreRanked
<1>2. ASSUME NEW x \in S, NEW f, \A p \in Posts \ x : f[x \union {p}] \in Searches
      PROVE  VisitBody(replies, x, f) \in Searches
  <2>1. ASSUME NEW at \in Posts \X SUBSET Posts
        PROVE  Visit(replies, x, f[x \union {at[1]}], at[1], at[2]) \in Outcomes
    <3>1. at[1] \in Posts /\ at[2] \in SUBSET Posts
      OBVIOUS
    <3>2. at[1] \notin x => f[x \union {at[1]}] \in Searches
      BY <1>2, <3>1
    <3> QED
      BY <3>1, <3>2, VisitTyped
  <2> QED
    BY <2>1 DEF VisitBody, Searches
<1>3. next \in Bodies(S, Searches)
  <2>1. ASSUME NEW x \in S, NEW f \in [S -> Searches]
        PROVE  VisitBody(replies, x, f) \in Searches
    BY <1>1, <1>2
  <2> QED
    BY <2>1 DEF Bodies
<1>4. ASSUME NEW x \in S, NEW f \in [S -> Searches], NEW g \in [S -> Searches],
             \A y \in S : rank[y] < rank[x] => f[y] = g[y]
      PROVE  next[<<x, f>>] = next[<<x, g>>]
  <2>1. next[<<x, f>>] = VisitBody(replies, x, f) /\ next[<<x, g>>] = VisitBody(replies, x, g)
    OBVIOUS
  <2>2. ASSUME NEW at \in Posts \X SUBSET Posts
        PROVE  Visit(replies, x, f[x \union {at[1]}], at[1], at[2])
                 = Visit(replies, x, g[x \union {at[1]}], at[1], at[2])
    <3>1. CASE at[1] \in x
      BY <3>1 DEF Visit
    <3>2. CASE at[1] \notin x
      <4>1. f[x \union {at[1]}] = g[x \union {at[1]}]
        BY <1>1, <1>4, <3>2
      <4> QED
        BY <4>1
    <3> QED
      BY <3>1, <3>2
  <2>3. VisitBody(replies, x, f) = VisitBody(replies, x, g)
    BY <2>2 DEF VisitBody
  <2> QED
    BY <2>1, <2>3
<1>5. Descends(S, Searches, rank, next)
  BY <1>4 DEF Descends
<1>6. Solutions(S, Searches, next) # {}
  <2>1. [cycle |-> FALSE, complete |-> {}] \in Outcomes
    BY DEF Outcomes
  <2>2. [at \in Posts \X SUBSET Posts |-> [cycle |-> FALSE, complete |-> {}]] \in Searches
    BY <2>1 DEF Searches
  <2> HIDE DEF S, N, rank, next
  <2> QED
    BY <1>1, <1>3, <1>5, <2>2, RankedRecursion
<1>7. PICK g \in [S -> Searches] : \A x \in S : g[x] = VisitBody(replies, x, g)
  <2>1. PICK g \in [S -> Searches] : \A x \in S : g[x] = next[<<x, g>>]
    BY <1>6 DEF Solutions
  <2>2. \A x \in S : next[<<x, g>>] = VisitBody(replies, x, g)
    OBVIOUS
  <2> QED
    BY <2>1, <2>2
<1> DEFINE Solves(f) ==
              f = [visiting \in SUBSET Posts |->
                     [at \in Posts \X SUBSET Posts |->
                       LET current == at[1]
                           targets == {target \in Posts : <<current, target>> \in replies}
                           below == SearchEach(f[visiting \union {current}], targets, at[2])
                       IN  IF current \in visiting THEN [cycle |-> TRUE, complete |-> at[2]]
                           ELSE IF below.cycle THEN below
                           ELSE [cycle |-> FALSE, complete |-> below.complete \union {current}]]]
           visits == CHOOSE f : Solves(f)
<1>8. visits_cycle(replies) = visits
  BY DEF visits_cycle
<1>9. Solves(g)
  BY <1>7 DEF VisitBody, Visit, Targets
<1>10. Solves(visits)
  <2> HIDE DEF Solves
  <2> QED
    BY <1>9
<1> HIDE DEF visits
<1>11. visits = [x \in S |-> visits[x]] /\ \A x \in S : visits[x] = VisitBody(replies, x, visits)
  BY <1>10 DEF VisitBody, Visit, Targets
<1>12. \A x \in S : visits[x] \in Searches
  <2> DEFINE T == {x \in S : visits[x] \in Searches}
  <2>1. ASSUME NEW x \in S, \A y \in S : rank[y] < rank[x] => y \in T
        PROVE  x \in T
    <3>1. \A p \in Posts \ x : visits[x \union {p}] \in Searches
      BY <1>1, <2>1
    <3>2. VisitBody(replies, x, visits) \in Searches
      BY <1>2, <3>1
    <3> QED
      BY <1>11, <3>2
  <2> HIDE DEF S, N, rank, T
  <2>2. S \subseteq T
    BY <1>1, <2>1, RankedInduction, SMT
  <2> QED
    BY <2>2 DEF T
<1> QED
  BY <1>8, <1>11, <1>12 DEF VisitEquation

(***************************************************************************)
(* The posts being visited are a path that leads to the current post: each *)
(* of them replies to another or to the current one.                       *)
(***************************************************************************)
Path(replies, visiting, current) ==
    \A p \in visiting : \E q \in visiting \union {current} : <<p, q>> \in replies

(***************************************************************************)
(* A post whose targets are finished is finished with them.                *)
(***************************************************************************)
LEMMA FinishedGrows ==
    ASSUME NEW replies, NEW complete \in SUBSET Posts, Finished(replies, complete),
           NEW current \in Posts, Targets(replies, current) \subseteq complete
    PROVE  Finished(replies, complete \union {current})
<1>1. ASSUME NEW p \in complete \union {current}, NEW q \in Posts, <<p, q>> \in replies
      PROVE  q \in complete
  BY <1>1 DEF Finished, Targets
<1>2. ASSUME NEW loop \in SUBSET (complete \union {current}), Loop(replies, loop)
      PROVE  loop = {}
  <2>1. ASSUME NEW p \in loop
        PROVE  \E q \in loop \intersect complete : <<p, q>> \in replies
    BY <1>1, <1>2 DEF Loop
  <2>2. Loop(replies, loop \intersect complete)
    BY <2>1 DEF Loop
  <2>3. loop \intersect complete = {}
    BY <2>2 DEF Finished
  <2> QED
    BY <2>1, <2>3
<1> QED
  BY <1>1, <1>2 DEF Finished

(***************************************************************************)
(* The search below a post is right whenever the posts being visited lead  *)
(* to it.                                                                  *)
(***************************************************************************)
LEMMA VisitsDecide ==
    ASSUME NEW replies, NEW visiting \in SUBSET Posts, NEW current \in Posts,
           Path(replies, visiting, current)
    PROVE  Decides(replies, visits_cycle(replies)[visiting], current)
<1> DEFINE S == SUBSET Posts
           N == Cardinality(Posts)
           rank == [x \in S |-> Cardinality(Posts \ x)]
           visits == visits_cycle(replies)
           T == {x \in S : \A p \in Posts : Path(replies, x, p) => Decides(replies, visits[x], p)}
<1>1. /\ N \in Nat
      /\ rank \in Ranks(S, N)
      /\ \A x \in S : \A p \in Posts \ x : x \union {p} \in S /\ rank[x \union {p}] < rank[x]
  BY VisitsAreRanked
<1>2. VisitEquation(replies, visits)
  BY VisitsAreFound
<1> HIDE DEF visits
<1>3. ASSUME NEW x \in S, \A y \in S : rank[y] < rank[x] => y \in T
      PROVE  x \in T
  <2> SUFFICES ASSUME NEW p \in Posts, Path(replies, x, p),
                      NEW complete \in SUBSET Posts, Finished(replies, complete)
               PROVE  Answers(replies, visits[x][<<p, complete>>], complete, {p})
    BY DEF Decides
  <2> DEFINE outcome == visits[x][<<p, complete>>]
             targets == Targets(replies, p)
             search == visits[x \union {p}]
             below == SearchEach(search, targets, complete)
  <2>1. outcome = Visit(replies, x, search, p, complete)
    <3>1. visits[x] = VisitBody(replies, x, visits)
      BY <1>2 DEF VisitEquation
    <3> QED
      BY <3>1 DEF VisitBody
  <2>2. CASE p \in x
    <3>1. outcome = [cycle |-> TRUE, complete |-> complete]
      BY <2>1, <2>2 DEF Visit
    <3>2. outcome.cycle = TRUE
      BY ONLY <3>1, SMT
    <3>3. x \union {p} = x
      BY <2>2
    <3>4. HasCycle(replies)
      BY <2>2, <3>3 DEF Path, HasCycle
    <3> QED
      BY <3>2, <3>4 DEF Answers
  <2>3. CASE p \notin x
    <3>1. x \union {p} \in T /\ x \union {p} \in S
      BY <1>1, <1>3, <2>3
    <3>2. ASSUME NEW t \in targets
          PROVE  Decides(replies, search, t)
      <4>1. t \in Posts /\ <<p, t>> \in replies
        BY DEF Targets
      <4>2. Path(replies, x \union {p}, t)
        BY <4>1 DEF Path
      <4> QED
        BY <3>1, <4>1, <4>2
    <3>3. targets \in SUBSET Posts /\ search \in Searches
      BY <1>2, <3>1 DEF Targets, VisitEquation
    <3>4. below \in Outcomes /\ Answers(replies, below, complete, targets)
      <4> HIDE DEF search, targets
      <4> QED
        BY <3>2, <3>3, SearchEachAnswers
    <3>5. outcome = IF below.cycle THEN below
                    ELSE [cycle |-> FALSE, complete |-> below.complete \union {p}]
      BY <2>1, <2>3 DEF Visit
    <3> HIDE DEF outcome, below
    <3>6. ASSUME below.cycle PROVE Answers(replies, outcome, complete, {p})
      <4>1. outcome = below
        BY <3>5, <3>6
      <4> QED
        BY <3>4, <3>6, <4>1 DEF Answers
    <3>7. ASSUME ~ below.cycle PROVE Answers(replies, outcome, complete, {p})
      <4>1. outcome = [cycle |-> FALSE, complete |-> below.complete \union {p}]
        BY <3>5, <3>7
      <4>2. outcome.cycle = FALSE /\ outcome.complete = below.complete \union {p}
        BY ONLY <4>1
      <4>3. /\ Finished(replies, below.complete)
            /\ complete \subseteq below.complete
            /\ targets \subseteq below.complete
        BY <3>4, <3>7 DEF Answers
      <4>4. below.complete \in SUBSET Posts
        BY <3>4 DEF Outcomes
      <4>5. Finished(replies, below.complete \union {p})
        BY <4>3, <4>4, FinishedGrows
      <4> QED
        BY <4>2, <4>3, <4>5 DEF Answers
    <3> QED
      BY <3>6, <3>7 DEF outcome
  <2> QED
    BY <2>2, <2>3
<1>4. S \subseteq T
  <2> HIDE DEF S, N, rank, T
  <2> QED
    BY <1>1, <1>3, RankedInduction, SMT
<1> QED
  BY <1>4 DEF visits

(***************************************************************************)
(* has_reply_cycle answers exactly whether the replies have a cycle, for   *)
(* every set of replies between posts (public_resolution.rs).              *)
(***************************************************************************)
THEOREM SearchIsExact ==
    ASSUME NEW replies \in SUBSET (Posts \X Posts)
    PROVE  has_reply_cycle(replies) <=> HasCycle(replies)
<1> DEFINE search == visits_cycle(replies)[{}]
           sources == {edge[1] : edge \in replies}
           outcome == SearchEach(search, sources, {})
<1>1. search \in Searches
  BY VisitsAreFound DEF VisitEquation
<1>2. sources \in SUBSET Posts
  OBVIOUS
<1>3. Finished(replies, {})
  BY DEF Finished
<1>4. \A p \in sources : Decides(replies, search, p)
  <2>1. \A p \in Posts : Path(replies, {}, p)
    BY DEF Path
  <2> QED
    BY <1>2, <2>1, VisitsDecide
<1>5. Answers(replies, outcome, {}, sources)
  <2> HIDE DEF search, sources
  <2> QED
    BY <1>1, <1>2, <1>3, <1>4, SearchEachAnswers
<1>6. has_reply_cycle(replies) = outcome.cycle
  BY DEF has_reply_cycle
<1>7. outcome \in Outcomes
  <2> HIDE DEF search, sources
  <2> QED
    BY <1>1, <1>2, <1>3, <1>4, SearchEachAnswers
<1>8. outcome.cycle \in BOOLEAN
  <2> HIDE DEF outcome
  <2> QED
    BY <1>7 DEF Outcomes
<1> HIDE DEF outcome
<1>9. CASE outcome.cycle
  BY <1>5, <1>6, <1>9 DEF Answers
<1>10. CASE ~ outcome.cycle
  <2>1. Finished(replies, outcome.complete) /\ sources \subseteq outcome.complete
    BY <1>5, <1>10 DEF Answers
  <2>2. ASSUME HasCycle(replies)
        PROVE  FALSE
    <3>1. PICK loop \in (SUBSET Posts) \ {{}} : Loop(replies, loop)
      BY <2>2 DEF HasCycle, Loop
    <3>2. ASSUME NEW p \in loop
          PROVE  p \in sources
      <4>1. PICK q \in loop : <<p, q>> \in replies
        BY <3>1 DEF Loop
      <4>2. <<p, q>>[1] = p
        OBVIOUS
      <4> QED
        BY <4>1, <4>2
    <3>3. loop \in SUBSET outcome.complete
      BY <2>1, <3>2
    <3>4. loop # {}
      BY <3>1
    <3> QED
      BY <2>1, <3>1, <3>3, <3>4 DEF Finished
  <2> QED
    BY <1>6, <1>10, <2>2
<1> QED
  BY <1>9, <1>10

-----------------------------------------------------------------------------
(***************************************************************************)
(* All reply edges of some rows, resolved or not.                          *)
(***************************************************************************)
Edges(rows) == Resolved(Posts, rows)

(***************************************************************************)
(* An edge is the ends of a reply row.                                     *)
(***************************************************************************)
LEMMA EdgeIsRow ==
    ASSUME NEW known, NEW rows, NEW p, NEW q
    PROVE  <<p, q>> \in Resolved(known, rows) <=>
             \E row \in rows : /\ row.kind = "reply" /\ row.to \in known
                               /\ row.from = p /\ row.to = q
BY DEF Resolved

(***************************************************************************)
(* More rows have the cycles of fewer.                                     *)
(***************************************************************************)
LEMMA CyclesGrow ==
    ASSUME NEW some, NEW rows, some \subseteq rows, HasCycle(Edges(some))
    PROVE  HasCycle(Edges(rows))
<1>1. \A p, q : <<p, q>> \in Edges(some) => <<p, q>> \in Edges(rows)
  BY EdgeIsRow, SMT DEF Edges
<1> QED
  BY <1>1 DEF HasCycle

(***************************************************************************)
(* Rows of known posts have the same cycles whether their targets are      *)
(* resolved or not: a post on a cycle replies, so it is known.             *)
(***************************************************************************)
LEMMA CyclesAreKnown ==
    ASSUME NEW known \in SUBSET Posts, NEW rows, \A row \in rows : row.from \in known
    PROVE  HasCycle(Resolved(known, rows)) <=> HasCycle(Edges(rows))
<1>1. \A p, q : <<p, q>> \in Resolved(known, rows) => <<p, q>> \in Edges(rows)
  BY EdgeIsRow, SMT DEF Edges
<1>2. \A p, q : <<p, q>> \in Edges(rows) => p \in known
  BY EdgeIsRow, SMT DEF Edges
<1>3. \A p, q : <<p, q>> \in Edges(rows) /\ q \in known => <<p, q>> \in Resolved(known, rows)
  BY EdgeIsRow, SMT DEF Edges
<1>4. ASSUME HasCycle(Edges(rows))
      PROVE  HasCycle(Resolved(known, rows))
  <2>1. PICK loop \in (SUBSET Posts) \ {{}} :
          \A p \in loop : \E q \in loop : <<p, q>> \in Edges(rows)
    BY <1>4 DEF HasCycle
  <2>2. loop \subseteq known
    BY <1>2, <2>1
  <2>3. \A p \in loop : \E q \in loop : <<p, q>> \in Resolved(known, rows)
    BY <1>3, <2>1, <2>2
  <2> QED
    BY <2>1, <2>3 DEF HasCycle
<1>5. HasCycle(Resolved(known, rows)) => HasCycle(Edges(rows))
  BY <1>1 DEF HasCycle
<1> QED
  BY <1>4, <1>5

(***************************************************************************)
(* Only reply rows have edges.                                             *)
(***************************************************************************)
LEMMA OnlyReplies ==
    ASSUME NEW known, NEW rows
    PROVE  Resolved(known, {row \in rows : row.kind = "reply"}) = Resolved(known, rows)
BY DEF Resolved

(***************************************************************************)
(* The edges between posts of stored rows are what the search expects.     *)
(***************************************************************************)
LEMMA EdgesArePairs ==
    ASSUME NEW known \in SUBSET Posts, NEW rows \in SUBSET RelationInput
    PROVE  Resolved(known, rows) \in SUBSET (Posts \X Posts)
BY SMT DEF Resolved, RelationInput

(***************************************************************************)
(* The inductive invariant of the two lanes.  A row's post is known, so    *)
(* the cycles do not depend on which targets are; one resolution is open   *)
(* at a time; and what it checked stays free of cycles together with what  *)
(* it is about to write.                                                   *)
(***************************************************************************)
ReplyInv ==
    /\ owners \in [Posts -> Accounts \union {"none", "absent"}]
    /\ relations \in SUBSET RelationInput
    /\ \A row \in relations : row.from \in Known
    /\ checked \subseteq relations
    /\ resolving \in [Resolvers -> Observations \union {NoObservation}]
    /\ \A r, q \in Resolvers : resolving[r] # NoObservation /\ resolving[q] # NoObservation => r = q
    /\ \A r \in Resolvers : \A row \in resolving[r].relations : row.from = resolving[r].post
    /\ ~ HasCycle(Edges(checked))
    /\ \A r \in Resolvers : ~ HasCycle(Edges(checked \union resolving[r].relations))

(***************************************************************************)
(* The empty archive satisfies it.                                         *)
(***************************************************************************)
LEMMA InitKeepsReplies ==
    Init => ReplyInv
<1> SUFFICES ASSUME Init PROVE ReplyInv
  OBVIOUS
<1>1. NoObservation.relations = {}
  BY DEF NoObservation
<1>2. checked = {} /\ relations = {} /\ \A r \in Resolvers : resolving[r] = NoObservation
  BY DEF Init
<1>3. ~ HasCycle(Edges({}))
  <2>1. \A p, q : <<p, q>> \notin Edges({})
    BY DEF Edges, Resolved
  <2> QED
    BY <2>1 DEF HasCycle
<1>4. \A r \in Resolvers : checked \union resolving[r].relations = {}
  BY <1>1, <1>2
<1>5. /\ owners \in [Posts -> Accounts \union {"none", "absent"}]
      /\ resolving \in [Resolvers -> Observations \union {NoObservation}]
  BY DEF Init
<1> QED
  BY <1>1, <1>2, <1>3, <1>4, <1>5 DEF ReplyInv

(***************************************************************************)
(* A page of synchronization writes replies unchecked: it leaves the       *)
(* checked rows alone, and the posts it lists are known.                   *)
(***************************************************************************)
LEMMA SynchronizeKeepsReplies ==
    ASSUME ReplyInv, IInv, NEW s \in Scans, Synchronize(s)
    PROVE  ReplyInv'
<1> DEFINE a == scans[s].account
           items == Content[Page(s)]
           listed == {item.post : item \in items}
           replies == {item \in items : item.parent # "none"}
           rows == {[from |-> item.post, kind |-> "reply", to |-> item.parent] : item \in replies}
<1>1. a \in Accounts
  BY DEF IInv, ScanCovers, Synchronize, record_page
<1>2. Page(s) \in 1 .. LastPage
  BY AccountAssumption, SMT DEF IInv, AccountType, Page
<1>3. items \subseteq [post : Posts, parent : Posts \union {"none"}]
  BY <1>2, ArchiveAssumption
<1>4. /\ owners' = [p \in Posts |-> IF p \in listed THEN a ELSE owners[p]]
      /\ relations' = relations \union rows
      /\ UNCHANGED <<captured, resolving, checked>>
  BY DEF Synchronize, record_posts, Upsert
<1> HIDE DEF items
<1>5. listed \subseteq Posts
  BY <1>3
<1>6. rows \in SUBSET RelationInput /\ \A row \in rows : row.from \in listed
  BY <1>3, GraphAssumption, SMT DEF RelationInput
<1> HIDE DEF a, listed, rows
<1>7. owners' \in [Posts -> Accounts \union {"none", "absent"}]
  BY <1>1, <1>4 DEF ReplyInv
<1>8. Known \union listed \subseteq Known'
  BY <1>1, <1>4, <1>5, ArchiveAssumption DEF Known
<1>9. relations' \in SUBSET RelationInput /\ \A row \in relations' : row.from \in Known'
  BY <1>4, <1>6, <1>8 DEF ReplyInv
<1> QED
  BY <1>4, <1>7, <1>9 DEF ReplyInv

(***************************************************************************)
(* A resolution that passes its check under RELATION_LOCK may write what   *)
(* it observed: the replies of the archive and its own have no cycle.      *)
(***************************************************************************)
LEMMA RecordKeepsReplies ==
    ASSUME ReplyInv, NEW r \in Resolvers, record(r)
    PROVE  ReplyInv'
<1>1. PICK seen \in Observations : /\ validate_relation_sources(seen.post, seen.relations)
                                   /\ record_relations(r, seen)
  BY DEF record
<1> DEFINE known == Known \union {seen.post}
           rows == relations \union seen.relations
<1>2. seen.post \in Posts /\ seen.relations \in SUBSET RelationInput
  BY ArchiveAssumption
<1>3. \A row \in seen.relations : row.from = seen.post
  BY <1>1 DEF validate_relation_sources
<1>4. /\ \A q \in Resolvers : resolving[q] = NoObservation
      /\ ~ has_reply_cycle(Resolved(known, rows))
      /\ resolving' = [resolving EXCEPT ![r] = seen]
      /\ UNCHANGED <<owners, captured, relations, linked, checked>>
  BY <1>1, OnlyReplies DEF record_relations, normalize_relations
<1>5. known \in SUBSET Posts /\ rows \in SUBSET RelationInput
  BY <1>2 DEF Known, ReplyInv
<1>6. \A row \in rows : row.from \in known
  BY <1>3 DEF ReplyInv
<1> HIDE DEF known, rows
<1>7. ~ HasCycle(Edges(rows))
  <2>1. ~ HasCycle(Resolved(known, rows))
    BY <1>4, <1>5, EdgesArePairs, SearchIsExact
  <2> QED
    BY <1>5, <1>6, <2>1, CyclesAreKnown
<1>8. ~ HasCycle(Edges(checked \union seen.relations))
  <2>1. checked \union seen.relations \subseteq rows
    BY DEF rows, ReplyInv
  <2> QED
    BY <1>7, <2>1, CyclesGrow
<1>9. resolving'[r] = seen /\ \A q \in Resolvers \ {r} : resolving'[q] = NoObservation
  BY <1>4 DEF ReplyInv
<1>10. NoObservation.relations = {}
  BY DEF NoObservation
<1>11. Known' = Known
  BY <1>4 DEF Known
<1>12. resolving' \in [Resolvers -> Observations \union {NoObservation}]
  BY <1>4 DEF ReplyInv
<1>13. \A q \in Resolvers : /\ \A row \in resolving'[q].relations : row.from = resolving'[q].post
                            /\ ~ HasCycle(Edges(checked \union resolving'[q].relations))
  <2>1. checked \union {} = checked
    OBVIOUS
  <2> QED
    BY <1>3, <1>8, <1>9, <1>10, <2>1 DEF ReplyInv
<1> QED
  BY <1>4, <1>9, <1>11, <1>12, <1>13 DEF ReplyInv

(***************************************************************************)
(* The commit of a resolution writes what was checked: nothing else wrote  *)
(* a checked row since, because RELATION_LOCK is still held.               *)
(***************************************************************************)
LEMMA CommitKeepsReplies ==
    ASSUME ReplyInv, NEW r \in Resolvers, CommitResolution(r)
    PROVE  ReplyInv'
<1> DEFINE seen == resolving[r]
<1>1. /\ seen # NoObservation
      /\ owners' = [owners EXCEPT ![seen.post] = IF @ = "absent" THEN "none" ELSE @]
      /\ relations' = relations \union seen.relations
      /\ checked' = checked \union seen.relations
      /\ resolving' = [resolving EXCEPT ![r] = NoObservation]
  BY DEF CommitResolution, Upsert
<1>2. seen \in Observations
  BY <1>1 DEF ReplyInv
<1>3. seen.post \in Posts /\ seen.relations \in SUBSET RelationInput
  BY <1>2, ArchiveAssumption
<1>4. /\ \A row \in seen.relations : row.from = seen.post
      /\ ~ HasCycle(Edges(checked \union seen.relations))
  BY DEF ReplyInv
<1>5. \A q \in Resolvers : resolving'[q] = NoObservation
  BY <1>1 DEF ReplyInv
<1> HIDE DEF seen
<1>6. owners' \in [Posts -> Accounts \union {"none", "absent"}]
  BY <1>1, <1>3 DEF ReplyInv
<1>7. Known \union {seen.post} \subseteq Known'
  BY <1>1, <1>3 DEF Known, ReplyInv
<1>8. relations' \in SUBSET RelationInput /\ \A row \in relations' : row.from \in Known'
  BY <1>1, <1>3, <1>4, <1>7 DEF ReplyInv
<1>9. checked' \subseteq relations' /\ ~ HasCycle(Edges(checked'))
  BY <1>1, <1>4 DEF ReplyInv
<1>10. NoObservation.relations = {}
  BY DEF NoObservation
<1>11. \A q \in Resolvers : /\ resolving'[q].relations = {}
                            /\ checked' \union resolving'[q].relations = checked'
  BY <1>5, <1>10
<1>12. resolving' \in [Resolvers -> Observations \union {NoObservation}]
  BY <1>1 DEF ReplyInv
<1> QED
  BY <1>5, <1>6, <1>8, <1>9, <1>11, <1>12 DEF ReplyInv

(***************************************************************************)
(* A resolution that fails leaves nothing.                                 *)
(***************************************************************************)
LEMMA FailureKeepsReplies ==
    ASSUME ReplyInv, NEW r \in Resolvers, ResolutionFails(r)
    PROVE  ReplyInv'
<1>1. /\ resolving' = [resolving EXCEPT ![r] = NoObservation]
      /\ UNCHANGED <<owners, captured, relations, linked, checked>>
  BY DEF ResolutionFails
<1>2. NoObservation.relations = {}
  BY DEF NoObservation
<1>3. /\ resolving' \in [Resolvers -> Observations \union {NoObservation}]
      /\ \A q \in Resolvers : resolving'[q] \in {resolving[q], NoObservation}
  BY <1>1 DEF ReplyInv
<1>4. Known' = Known
  BY <1>1 DEF Known
<1>5. \A q \in Resolvers : /\ \A row \in resolving'[q].relations : row.from = resolving'[q].post
                           /\ ~ HasCycle(Edges(checked \union resolving'[q].relations))
  <2>1. checked \union {} = checked
    OBVIOUS
  <2> QED
    BY <1>2, <1>3, <2>1 DEF ReplyInv
<1> QED
  BY <1>1, <1>3, <1>4, <1>5 DEF ReplyInv

(***************************************************************************)
(* Posts that are removed take their rows along.                           *)
(***************************************************************************)
LEMMA RemovalKeepsReplies ==
    ASSUME ReplyInv, NEW gone, remove_unreferenced_post(gone), UNCHANGED resolving,
           owners' \in [Posts -> Accounts \union {"none", "absent"}], Known \ gone \subseteq Known'
    PROVE  ReplyInv'
<1>1. /\ relations' \subseteq relations
      /\ \A row \in relations' : row.from \notin gone
      /\ checked' \subseteq checked /\ checked' \subseteq relations'
  BY DEF remove_unreferenced_post, ReplyInv
<1>2. relations' \in SUBSET RelationInput /\ \A row \in relations' : row.from \in Known'
  BY <1>1 DEF ReplyInv
<1>3. ~ HasCycle(Edges(checked'))
  <2>1. ~ HasCycle(Edges(checked))
    BY DEF ReplyInv
  <2> QED
    BY <1>1, <2>1, CyclesGrow
<1>4. ASSUME NEW r \in Resolvers
      PROVE  ~ HasCycle(Edges(checked' \union resolving'[r].relations))
  <2>1. checked' \union resolving'[r].relations \subseteq checked \union resolving[r].relations
    BY <1>1
  <2>2. ~ HasCycle(Edges(checked \union resolving[r].relations))
    BY DEF ReplyInv
  <2> QED
    BY <2>1, <2>2, CyclesGrow
<1> QED
  BY <1>1, <1>2, <1>3, <1>4 DEF ReplyInv

(***************************************************************************)
(* Every step of the two lanes keeps the invariant.                        *)
(***************************************************************************)
LEMMA NextKeepsReplies ==
    ReplyInv /\ IInv /\ [Next]_vars => ReplyInv'
<1> SUFFICES ASSUME ReplyInv, IInv, [Next]_vars
             PROVE  ReplyInv'
  OBVIOUS
<1>1. CASE UNCHANGED postVars
  BY <1>1 DEF postVars, ReplyInv, Known
<1>2. ASSUME NEW c \in Calls, DeleteConnection(c)
      PROVE  ReplyInv'
  <2> DEFINE posts == {p \in Posts : owners[p] = calls[c].account}
             gone == posts \ captured
  <2>1. /\ owners' = [p \in Posts |-> IF p \in gone THEN "absent"
                                      ELSE IF p \in posts THEN "none" ELSE owners[p]]
        /\ remove_unreferenced_post(gone)
        /\ UNCHANGED resolving
    BY <1>2 DEF DeleteConnection
  <2> HIDE DEF posts, gone
  <2>2. owners' \in [Posts -> Accounts \union {"none", "absent"}]
    BY <2>1 DEF ReplyInv
  <2>3. Known \ gone \subseteq Known'
    BY <2>1 DEF Known
  <2> QED
    BY <2>1, <2>2, <2>3, RemovalKeepsReplies
<1>3. ASSUME NEW p \in Posts, DeleteCapture(p)
      PROVE  ReplyInv'
  <2> DEFINE gone == {q \in {p} : owners[q] = "none"}
  <2>1. /\ owners' = [owners EXCEPT ![p] = IF p \in gone THEN "absent" ELSE @]
        /\ remove_unreferenced_post(gone)
        /\ UNCHANGED resolving
    BY <1>3 DEF DeleteCapture
  <2> HIDE DEF gone
  <2>2. owners' \in [Posts -> Accounts \union {"none", "absent"}]
    BY <2>1 DEF ReplyInv
  <2>3. Known \ gone \subseteq Known'
    BY <2>1 DEF Known, ReplyInv
  <2> QED
    BY <2>1, <2>2, <2>3, RemovalKeepsReplies
<1> QED
  BY <1>1, <1>2, <1>3, SynchronizeKeepsReplies, RecordKeepsReplies, CommitKeepsReplies,
     FailureKeepsReplies DEF Next, vars

-----------------------------------------------------------------------------
(***************************************************************************)
(* Every behaviour of the two lanes is, for the account, a behaviour of    *)
(* OfficialAccount: a page that writes its posts is a page, a deletion     *)
(* that removes posts is a deletion, and a resolution is a stutter.        *)
(***************************************************************************)
THEOREM ArchiveImplementsAccount ==
    Spec => AccountSpec
<1>1. Init => AccountInit
  BY DEF Init
<1>2. [Next]_vars => [AccountNext]_accountVars
  <2>1. ASSUME NEW s \in Scans, Synchronize(s)
        PROVE  AccountNext
    BY <2>1 DEF Synchronize, AccountNext
  <2>2. ASSUME NEW c \in Calls, DeleteConnection(c)
        PROVE  AccountNext
    BY <2>2 DEF DeleteConnection, AccountNext
  <2>3. ASSUME UNCHANGED vars
        PROVE  UNCHANGED accountVars
    BY <2>3 DEF vars
  <2> QED
    BY <2>1, <2>2, <2>3 DEF Next, AccountNext
<1> QED
  BY <1>1, <1>2, PTL DEF Spec, AccountSpec

(***************************************************************************)
(* The grants and watermarks of an account stay right beside everything    *)
(* the other lane does (oauth.rs, account_sync.rs).                        *)
(***************************************************************************)
THEOREM ArchiveKeepsAccounts ==
    Spec => [](GrantMatchesAccount /\ CheckpointCovers)
BY ArchiveImplementsAccount, GrantsFollowAccounts, WatermarksCover, PTL

(***************************************************************************)
(* A deletion operation removes a connection at most once, whatever the    *)
(* other lane does (privacy_deletion.rs, apply).                           *)
(***************************************************************************)
THEOREM ArchiveRemovesOnce ==
    Spec => RemovedOncePerOperation
BY ArchiveImplementsAccount, OperationsRemoveOnce, PTL

(***************************************************************************)
(* Every reachable state of the two lanes satisfies the invariant.         *)
(***************************************************************************)
THEOREM RepliesInvariant ==
    Spec => []ReplyInv
<1>1. Spec => []IInv
  BY ArchiveImplementsAccount, AccountInvariant, PTL
<1> QED
  BY <1>1, InitKeepsReplies, NextKeepsReplies, PTL DEF Spec

(***************************************************************************)
(* The reply relations that public resolutions checked are acyclic, with   *)
(* any number of competing resolutions, pages and deletions; and the       *)
(* search of has_reply_cycle is exact on what is stored                    *)
(* (public_resolution.rs).                                                 *)
(***************************************************************************)
THEOREM RepliesStayAcyclic ==
    Spec => []CheckedRepliesAreAcyclic
<1>1. ASSUME ReplyInv
      PROVE  CheckedRepliesAreAcyclic
  <2>1. Known \in SUBSET Posts
    BY DEF Known
  <2>2. \A row \in checked : row.from \in Known
    BY <1>1 DEF ReplyInv
  <2>3. ~ HasCycle(Resolved(Known, checked))
    BY <1>1, <2>1, <2>2, CyclesAreKnown DEF ReplyInv
  <2>4. Resolved(Known, relations) \in SUBSET (Posts \X Posts)
    BY <1>1, <2>1, EdgesArePairs DEF ReplyInv
  <2>5. has_reply_cycle(Resolved(Known, relations)) <=> HasCycle(Resolved(Known, relations))
    BY <2>4, SearchIsExact
  <2> QED
    BY <2>3, <2>5 DEF CheckedRepliesAreAcyclic
<1>2. ReplyInv => CheckedRepliesAreAcyclic
  BY <1>1
<1> QED
  BY <1>2, RepliesInvariant, PTL
===============================================================================
