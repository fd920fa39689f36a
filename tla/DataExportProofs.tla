-------------------------- MODULE DataExportProofs ---------------------------
(***************************************************************************)
(* Proofs about DataExport, for any owners, archives, importers, operators *)
(* and chunk sizes.                                                        *)
(***************************************************************************)
EXTENDS DataExport, FiniteSetTheorems, NaturalSets, TLAPS

(***************************************************************************)
(* Most leaves are first-order; those that need records or arithmetic name *)
(* SMT.                                                                    *)
(***************************************************************************)
USE Zenon

-----------------------------------------------------------------------------
(***************************************************************************)
(* The inspection of an archive                                            *)
(***************************************************************************)

(***************************************************************************)
(* What ExportAssumption says of an archive: its lists are sequences and   *)
(* the declared sizes and the depths of its entries are numbers.           *)
(***************************************************************************)
IsArchive(archive) ==
  /\ archive.entries \in Seq(ToSet(archive.entries))
  /\ archive.posts \in Seq(ToSet(archive.posts))
  /\ archive.relations \in Seq(ToSet(archive.relations))
  /\ \A entry \in ToSet(archive.entries) :
       /\ entry.size \in 0..MaxWord /\ entry.compressed \in 0..MaxWord
       /\ entry.depth \in Nat

(***************************************************************************)
(* What the loop of inspect_archive carries from entry to entry.           *)
(***************************************************************************)
Refusals == {"invalid_zip", "compressed_bytes", "decompressed_bytes", "compression_ratio",
             "path", "path_depth"}
Inspections == [verdict : Refusals \cup {"ok"}, compressed : Nat, decompressed : Nat]

(***************************************************************************)
(* A ratio that is not exceeded on saturated words holds on numbers.       *)
(***************************************************************************)
LEMMA RatioIsExact ==
  ASSUME NEW a \in Nat, NEW b \in Nat, NEW max \in Nat, MaxWord \in Nat,
         ~exceeds_ratio(a, b, max)
  PROVE  a <= b * max
<1>1. b * max \in Nat
  BY SMT
<1>2. CASE a = 0
  BY <1>1, <1>2, SMT
<1>3. CASE a # 0
  <2>1. a <= saturating_mul(b, max)
    <3>1. saturating_mul(b, max) \in Nat
      BY <1>1 DEF saturating_mul
    <3> QED
      BY <1>3, <3>1, SMT DEF exceeds_ratio
  <2> DEFINE p == b * max
  <2>2. saturating_mul(b, max) = IF p > MaxWord THEN MaxWord ELSE p
    BY DEF saturating_mul
  <2>3. p \in Nat
    BY <1>1
  <2> HIDE DEF p
  <2>4. a <= p
    BY <2>1, <2>2, <2>3, SMT
  <2> QED
    BY <2>4 DEF p
<1> QED
  BY <1>2, <1>3

(***************************************************************************)
(* One entry: an inspection stays one, and an entry is accepted only when  *)
(* the totals with it are exact and within the limits.                     *)
(***************************************************************************)
LEMMA EntryIsExact ==
  ASSUME NEW seen \in Inspections, NEW entry,
         entry.size \in 0..MaxWord, entry.compressed \in 0..MaxWord, entry.depth \in Nat
  PROVE  LET after == inspect_entry(seen, entry)
         IN  /\ after \in Inspections
             /\ after.verdict = "ok" =>
                  /\ seen.verdict = "ok"
                  /\ after.compressed = seen.compressed + entry.compressed
                  /\ after.decompressed = seen.decompressed + entry.size
                  /\ after.compressed <= Limits.max_compressed_bytes
                  /\ after.decompressed <= Limits.max_decompressed_bytes
                  /\ entry.size <= entry.compressed * Limits.max_compression_ratio
                  /\ entry.depth <= Limits.max_path_depth
<1> DEFINE after == inspect_entry(seen, entry)
           c == seen.compressed + entry.compressed
           d == seen.decompressed + entry.size
           accepted == [verdict |-> "ok", compressed |-> c, decompressed |-> d]
<1>1. /\ MaxWord \in Nat /\ Limits.max_compressed_bytes \in Nat
      /\ Limits.max_decompressed_bytes \in Nat /\ Limits.max_compression_ratio \in Nat
      /\ entry.size \in Nat /\ entry.compressed \in Nat
  BY ArchiveAssumption, SMT
<1>2. /\ seen.compressed \in Nat /\ seen.decompressed \in Nat
      /\ c \in Nat /\ d \in Nat
  BY <1>1, SMT DEF Inspections
<1>3. \A x : (CHOOSE y \in {x} : TRUE) = x
  OBVIOUS
<1>4. \A limit \in Refusals : Refused(limit) \in Inspections /\ Refused(limit).verdict # "ok"
  BY DEF Refused, Inspections, Refusals
<1>5. accepted \in Inspections
  <2> HIDE DEF c, d
  <2> QED
    BY <1>2 DEF Inspections
<1>6. validate_entry_name(entry) \in {"path", "path_depth", "ok"}
  BY Zenon DEF validate_entry_name
<1>d. validate_entry_name(entry) = "ok" => entry.depth <= Limits.max_path_depth
  <2>1. Limits.max_path_depth \in Nat
    BY ArchiveAssumption
  <2>2. validate_entry_name(entry) = "ok" => ~(entry.depth > Limits.max_path_depth)
    BY Zenon DEF validate_entry_name
  <2> QED
    BY <2>1, <2>2, SMT
<1>7. \/ /\ after \in Inspections /\ after.verdict # "ok"
      \/ /\ after = accepted /\ seen.verdict = "ok"
         /\ ~(c > Limits.max_compressed_bytes) /\ ~(d > Limits.max_decompressed_bytes)
         /\ ~exceeds_ratio(entry.size, entry.compressed, Limits.max_compression_ratio)
         /\ validate_entry_name(entry) = "ok"
  <2>1. CASE seen.verdict # "ok"
    BY <2>1 DEF inspect_entry
  <2>2. CASE seen.verdict = "ok" /\ c <= MaxWord /\ d <= MaxWord
    <3>1. /\ checked_total(seen.compressed, entry.compressed) = {c}
          /\ checked_total(seen.decompressed, entry.size) = {d}
      BY <1>1, <1>2, <2>2, SMT DEF checked_total
    <3> DEFINE cs == checked_total(seen.compressed, entry.compressed)
               ds == checked_total(seen.decompressed, entry.size)
    <3>2. \/ after \in {Refused(limit) : limit \in Refusals}
          \/ /\ after = [verdict |-> "ok", compressed |-> CHOOSE total \in cs : TRUE,
                         decompressed |-> CHOOSE total \in ds : TRUE]
             /\ ~\E total \in cs : total > Limits.max_compressed_bytes
             /\ ~\E total \in ds : total > Limits.max_decompressed_bytes
             /\ ~exceeds_ratio(entry.size, entry.compressed, Limits.max_compression_ratio)
             /\ validate_entry_name(entry) = "ok"
      BY <1>6, <2>2 DEF inspect_entry, Refusals
    <3> HIDE DEF c, d, after
    <3> QED
      BY <1>3, <1>4, <2>2, <3>1, <3>2
  <2>3. CASE seen.verdict = "ok" /\ (c > MaxWord \/ d > MaxWord)
    <3>1. \/ checked_total(seen.compressed, entry.compressed) = {}
          \/ checked_total(seen.decompressed, entry.size) = {}
      BY <1>1, <1>2, <2>3 DEF checked_total
    <3>2. after \in {Refused(limit) : limit \in Refusals}
      BY <2>3, <3>1 DEF inspect_entry, Refusals
    <3> HIDE DEF after
    <3> QED
      BY <1>4, <3>2
  <2> QED
    BY <1>1, <1>2, <2>1, <2>2, <2>3, SMT
<1>8. ~exceeds_ratio(entry.size, entry.compressed, Limits.max_compression_ratio)
        => entry.size <= entry.compressed * Limits.max_compression_ratio
  BY <1>1, RatioIsExact
<1> HIDE DEF after
<1>9. after = accepted => after.verdict = "ok" /\ after.compressed = c /\ after.decompressed = d
  BY SMT
<1> HIDE DEF accepted
<1>10. c <= Limits.max_compressed_bytes <=> ~(c > Limits.max_compressed_bytes)
  BY <1>1, <1>2, SMT
<1>11. d <= Limits.max_decompressed_bytes <=> ~(d > Limits.max_decompressed_bytes)
  BY <1>1, <1>2, SMT
<1> HIDE DEF c, d
<1>12. /\ after \in Inspections
       /\ after.verdict = "ok" =>
            /\ seen.verdict = "ok" /\ after.compressed = c /\ after.decompressed = d
            /\ after.compressed <= Limits.max_compressed_bytes
            /\ after.decompressed <= Limits.max_decompressed_bytes
            /\ entry.size <= entry.compressed * Limits.max_compression_ratio
            /\ entry.depth <= Limits.max_path_depth
  BY <1>d, <1>5, <1>7, <1>8, <1>9, <1>10, <1>11
<1> QED
  BY <1>12 DEF after, c, d

(***************************************************************************)
(* Total is the last of the running sums, which start at 0 and grow by the *)
(* list's next number.                                                     *)
(***************************************************************************)
RunningSum(sum, list, n) ==
  sum[0] = 0 /\ \A k \in 1..n : sum[k] = sum[k - 1] + list[k]

(***************************************************************************)
(* The sum of a list of numbers is the last running sum, and it is a       *)
(* natural number: the equation the recursive definition of Total promises *)
(* has a solution, so Total is that solution.                              *)
(***************************************************************************)
LEMMA TotalIsRunningSum ==
  ASSUME NEW n \in Nat, NEW list \in [1..n -> Nat]
  PROVE  \E sum : Total(list) = sum[n] /\ RunningSum(sum, list, n)
<1> DEFINE next == [x \in Nat \X (1..n) |-> x[1] + list[x[2]]]
           Sums(f) == f = [k \in 0..n |-> IF k = 0 THEN 0 ELSE f[k - 1] + list[k]]
           sum == CHOOSE f : Sums(f)
<1>1. list \in Seq(Nat) /\ Len(list) = n
  BY SMT
<1>2. next \in Steps(Nat, n)
  BY SMT DEF Steps
<1>3. PICK f \in [0..n -> Nat] :
        f[0] = 0 /\ \A k \in 1..n : f[k] = next[<<f[k - 1], k>>]
  <2> HIDE DEF next
  <2>1. Recursions(Nat, n, 0, next) # {}
    BY <1>2, RecursionExists
  <2> QED
    BY <2>1 DEF Recursions
<1>4. \A k \in 1..n : next[<<f[k - 1], k>>] = f[k - 1] + list[k]
  <2> SUFFICES ASSUME NEW k \in 1..n
               PROVE  next[<<f[k - 1], k>>] = f[k - 1] + list[k]
    OBVIOUS
  <2>1. f[k - 1] \in Nat
    BY SMT
  <2>2. <<f[k - 1], k>> \in Nat \X (1..n)
    BY <2>1
  <2> QED
    BY <2>2
<1> HIDE DEF next
<1>5. Sums(f)
  <2>1. \A k \in 0..n : k # 0 => k \in 1..n
    BY SMT
  <2>2. \A k \in 0..n : f[k] = IF k = 0 THEN 0 ELSE f[k - 1] + list[k]
    BY <1>3, <1>4, <2>1
  <2> QED
    BY <2>2
<1>6. Sums(sum)
  BY <1>5
<1>7. Total(list) = sum[n]
  BY <1>1 DEF Total
<1> HIDE DEF sum
<1>8. RunningSum(sum, list, n)
  BY <1>6, SMT DEF RunningSum
<1> QED
  BY <1>7, <1>8

(***************************************************************************)
(* An archive that passes inspect_archive is within every limit, measured  *)
(* on unbounded numbers: after k accepted entries the carried totals are   *)
(* the sums of their sizes.                                                *)
(***************************************************************************)
LEMMA InspectionIsExact ==
  ASSUME NEW archive, IsArchive(archive), inspect_archive(archive) = "ok"
  PROVE  WithinLimits(archive)
<1> DEFINE entries == archive.entries
           n == Len(entries)
           next == [x \in Inspections \X (1..n) |-> inspect_entry(x[1], entries[x[2]])]
           Sees(f) == f = [k \in 0..n |-> IF k = 0 THEN NothingSeen
                                          ELSE inspect_entry(f[k - 1], entries[k])]
           seen == CHOOSE f : Sees(f)
           C == [k \in 1..n |-> entries[k].compressed]
           U == [k \in 1..n |-> entries[k].size]
<1>1. n \in Nat /\ DOMAIN entries = 1..n
  BY SMT DEF IsArchive
<1>2. \A k \in 1..n : /\ entries[k].size \in 0..MaxWord /\ entries[k].compressed \in 0..MaxWord
                     /\ entries[k].depth \in Nat
  BY <1>1 DEF IsArchive, ToSet
<1>3. /\ MaxWord \in Nat
      /\ Limits.max_compressed_bytes \in Nat /\ Limits.max_decompressed_bytes \in Nat
  BY ArchiveAssumption, SMT
<1>4. C \in [1..n -> Nat] /\ U \in [1..n -> Nat]
  BY <1>2, <1>3, SMT
<1>5. NothingSeen \in Inspections
  BY DEF NothingSeen, Inspections
<1>6. n <= Limits.max_entries /\ seen[n].verdict = "ok"
  <2>1. Limits.max_entries \in Nat
    BY ArchiveAssumption
  <2>2. "entry_count" # "ok"
    OBVIOUS
  <2> QED
    BY <1>1, <2>1, <2>2, SMT DEF inspect_archive
<1> HIDE DEF entries, n, seen
<1>7. \A s \in Inspections, k \in 1..n : inspect_entry(s, entries[k]) \in Inspections
  BY <1>2, EntryIsExact
<1>8. next \in Steps(Inspections, n)
  BY <1>7 DEF Steps
<1>9. PICK f \in [0..n -> Inspections] :
        f[0] = NothingSeen /\ \A k \in 1..n : f[k] = next[<<f[k - 1], k>>]
  <2> HIDE DEF next
  <2>1. Recursions(Inspections, n, NothingSeen, next) # {}
    BY <1>1, <1>5, <1>8, RecursionExists
  <2> QED
    BY <2>1 DEF Recursions
<1>10. \A k \in 1..n : next[<<f[k - 1], k>>] = inspect_entry(f[k - 1], entries[k])
  <2> SUFFICES ASSUME NEW k \in 1..n
               PROVE  next[<<f[k - 1], k>>] = inspect_entry(f[k - 1], entries[k])
    OBVIOUS
  <2>1. f[k - 1] \in Inspections
    BY <1>1, SMT
  <2>2. <<f[k - 1], k>> \in Inspections \X (1..n)
    BY <2>1
  <2> QED
    BY <2>2
<1> HIDE DEF next
<1>11. Sees(f)
  <2>1. \A k \in 0..n : k # 0 => k \in 1..n
    BY <1>1, SMT
  <2>2. \A k \in 0..n : f[k] = IF k = 0 THEN NothingSeen ELSE inspect_entry(f[k - 1], entries[k])
    BY <1>9, <1>10, <2>1
  <2> QED
    BY <2>2
<1>12. Sees(seen)
  BY <1>11 DEF seen
<1>13. seen[0] = NothingSeen /\ \A k \in 1..n : seen[k] = inspect_entry(seen[k - 1], entries[k])
  BY <1>1, <1>12, SMT
<1> HIDE DEF Sees
<1>14. PICK c : Total(C) = c[n] /\ RunningSum(c, C, n)
  <2> HIDE DEF C
  <2> QED
    BY <1>1, <1>4, TotalIsRunningSum
<1>15. PICK u : Total(U) = u[n] /\ RunningSum(u, U, n)
  <2> HIDE DEF U
  <2> QED
    BY <1>1, <1>4, TotalIsRunningSum
<1> DEFINE Exact(k) ==
             /\ seen[k] \in Inspections
             /\ seen[k].verdict = "ok" =>
                  /\ seen[k].compressed = c[k] /\ seen[k].decompressed = u[k]
                  /\ c[k] <= Limits.max_compressed_bytes
                  /\ u[k] <= Limits.max_decompressed_bytes
                  /\ \A j \in 1..k :
                       /\ entries[j].size <= entries[j].compressed * Limits.max_compression_ratio
                       /\ entries[j].depth <= Limits.max_path_depth
           S == {k \in Nat : k <= n => Exact(k)}
<1>16. 0 \in S
  BY <1>3, <1>5, <1>13, <1>14, <1>15, SMT DEF NothingSeen, RunningSum
<1>17. ASSUME NEW m \in Nat, m \in S
       PROVE  m + 1 \in S
  <2> SUFFICES ASSUME m + 1 <= n
               PROVE  Exact(m + 1)
    BY SMT
  <2> DEFINE k == m + 1
  <2>1. k \in 1..n /\ k - 1 = m /\ m <= n
    BY <1>1, SMT
  <2>2. Exact(m)
    BY <1>17, <2>1
  <2>3. /\ seen[k] = inspect_entry(seen[m], entries[k])
        /\ c[k] = c[m] + entries[k].compressed
        /\ u[k] = u[m] + entries[k].size
    BY <1>13, <1>14, <1>15, <2>1 DEF RunningSum
  <2>4. /\ seen[k] \in Inspections
        /\ seen[k].verdict = "ok" =>
             /\ seen[m].verdict = "ok"
             /\ seen[k].compressed = seen[m].compressed + entries[k].compressed
             /\ seen[k].decompressed = seen[m].decompressed + entries[k].size
             /\ seen[k].compressed <= Limits.max_compressed_bytes
             /\ seen[k].decompressed <= Limits.max_decompressed_bytes
             /\ entries[k].size <= entries[k].compressed * Limits.max_compression_ratio
             /\ entries[k].depth <= Limits.max_path_depth
    BY <1>2, <2>1, <2>2, <2>3, EntryIsExact, SMT
  <2>5. \A j \in 1..k : j \in 1..m \/ j = k
    BY SMT
  <2> HIDE DEF k
  <2>6. Exact(k)
    BY <2>2, <2>3, <2>4, <2>5
  <2> QED
    BY <2>6 DEF k
<1> HIDE DEF S
<1>18. n \in S
  BY <1>1, <1>16, <1>17, NatSetInduction
<1> USE DEF S
<1>19. Exact(n)
  BY <1>1, <1>18, SMT
<1>20. /\ n <= Limits.max_entries
       /\ Total(C) <= Limits.max_compressed_bytes /\ Total(U) <= Limits.max_decompressed_bytes
       /\ \A j \in 1..n :
            /\ entries[j].size <= entries[j].compressed * Limits.max_compression_ratio
            /\ entries[j].depth <= Limits.max_path_depth
  BY <1>6, <1>14, <1>15, <1>19
<1> QED
  BY <1>20 DEF WithinLimits, entries, n

-----------------------------------------------------------------------------
(***************************************************************************)
(* The records of a reconciliation                                         *)
(***************************************************************************)

(***************************************************************************)
(* A list has no item twice.                                               *)
(***************************************************************************)
Distinct(list) == \A m, n \in DOMAIN list : list[m] = list[n] => m = n

(***************************************************************************)
(* Two lists have no item in common.                                       *)
(***************************************************************************)
Apart(s, t) == \A m \in DOMAIN s, n \in DOMAIN t : s[m] # t[n]

(***************************************************************************)
(* Selected gives a sequence of items of the list, and repeats none that   *)
(* the list does not repeat: after k positions it has only items from the  *)
(* first k.                                                                *)
(***************************************************************************)
LEMMA SelectedItems ==
  ASSUME NEW T, NEW list \in Seq(T), NEW positions
  PROVE  /\ Selected(list, positions) \in Seq(T)
         /\ Distinct(list) => Distinct(Selected(list, positions))
<1> DEFINE n == Len(list)
           After(s, k) == IF k \in positions THEN Append(s, list[k]) ELSE s
           next == [x \in Seq(T) \X (1..n) |-> After(x[1], x[2])]
           Takes(f) == f = [k \in 0..n |-> IF k = 0 THEN <<>>
                                           ELSE IF k \in positions THEN Append(f[k - 1], list[k])
                                           ELSE f[k - 1]]
           taken == CHOOSE f : Takes(f)
<1>1. n \in Nat /\ DOMAIN list = 1..n /\ <<>> \in Seq(T) /\ \A k \in 1..n : list[k] \in T
  BY SMT
<1>2. Selected(list, positions) = taken[n]
  BY DEF Selected
<1> HIDE DEF n, taken
<1>3. \A s \in Seq(T), k \in 1..n : After(s, k) \in Seq(T)
  BY <1>1, SMT
<1>4. next \in Steps(Seq(T), n)
  <2> HIDE DEF After
  <2> QED
    BY <1>3 DEF Steps
<1>5. PICK f \in [0..n -> Seq(T)] :
        f[0] = <<>> /\ \A k \in 1..n : f[k] = next[<<f[k - 1], k>>]
  <2> HIDE DEF next
  <2>1. Recursions(Seq(T), n, <<>>, next) # {}
    BY <1>1, <1>4, RecursionExists
  <2> QED
    BY <2>1 DEF Recursions
<1>6. \A k \in 1..n : next[<<f[k - 1], k>>] = After(f[k - 1], k)
  <2> SUFFICES ASSUME NEW k \in 1..n
               PROVE  next[<<f[k - 1], k>>] = After(f[k - 1], k)
    OBVIOUS
  <2>1. f[k - 1] \in Seq(T)
    BY <1>1, SMT
  <2>2. <<f[k - 1], k>> \in Seq(T) \X (1..n)
    BY <2>1
  <2> HIDE DEF After
  <2> QED
    BY <2>2
<1> HIDE DEF next
<1>7. Takes(f)
  <2>1. \A k \in 0..n : k # 0 => k \in 1..n
    BY <1>1, SMT
  <2>2. \A k \in 0..n : f[k] = IF k = 0 THEN <<>>
                               ELSE IF k \in positions THEN Append(f[k - 1], list[k])
                               ELSE f[k - 1]
    BY <1>5, <1>6, <2>1
  <2> QED
    BY <2>2
<1>8. Takes(taken)
  BY <1>7 DEF taken
<1>9. taken[0] = <<>> /\ \A k \in 1..n : taken[k] = After(taken[k - 1], k)
  <2>1. \A k \in 0..n : taken[k] = IF k = 0 THEN <<>>
                                   ELSE IF k \in positions THEN Append(taken[k - 1], list[k])
                                   ELSE taken[k - 1]
    BY <1>8
  <2>2. 0 \in 0..n /\ \A k \in 1..n : k \in 0..n /\ k # 0
    BY <1>1, SMT
  <2> QED
    BY <2>1, <2>2
<1> HIDE DEF Takes
<1> DEFINE Good(k) == /\ taken[k] \in Seq(T)
                      /\ \A m \in DOMAIN taken[k] : \E j \in 1..k : taken[k][m] = list[j]
                      /\ Distinct(list) => Distinct(taken[k])
           S == {k \in Nat : k <= n => Good(k)}
<1>10. 0 \in S
  <2>1. DOMAIN taken[0] = {}
    BY <1>9, SMT
  <2>2. Good(0)
    BY <1>1, <1>9, <2>1 DEF Distinct
  <2> HIDE DEF Good
  <2> QED
    BY <2>2
<1>11. ASSUME NEW m \in Nat, m \in S
       PROVE  m + 1 \in S
  <2> SUFFICES ASSUME m + 1 <= n
               PROVE  Good(m + 1)
    BY SMT
  <2> DEFINE k == m + 1
             s == taken[m]
  <2>1. k \in 1..n /\ k - 1 = m /\ m <= n /\ 1..m \subseteq 1..k
    BY <1>1, SMT
  <2>2. Good(m)
    BY <1>11, <2>1
  <2>3. taken[k] = After(s, k)
    BY <1>9, <2>1
  <2>4. k \notin 1..m /\ k \in 1..k /\ k \in DOMAIN list /\ 1..m \subseteq DOMAIN list
    BY <1>1, <2>1, SMT
  <2>5. list[k] \in T
    BY <1>1, <2>1
  <2> HIDE DEF k, s
  <2>6. CASE k \notin positions
    <3>1. taken[k] = s
      BY <2>3, <2>6
    <3>2. Good(k)
      BY <2>1, <2>2, <3>1 DEF s
    <3> QED
      BY <3>2 DEF k
  <2>7. CASE k \in positions
    <3> DEFINE t == Append(s, list[k])
               l == Len(s)
    <3>1. taken[k] = t
      BY <2>3, <2>7
    <3>2. s \in Seq(T) /\ \A x \in DOMAIN s : \E j \in 1..m : s[x] = list[j]
      BY <2>2 DEF s
    <3>3. /\ t \in Seq(T) /\ l \in Nat /\ DOMAIN t = 1..(l + 1) /\ t[l + 1] = list[k]
          /\ DOMAIN s = 1..l /\ \A x \in 1..l : t[x] = s[x]
      BY <2>5, <3>2, SMT
    <3> HIDE DEF t, l
    <3>4. \A x \in DOMAIN t : x = l + 1 \/ x \in DOMAIN s
      BY <3>3, SMT
    <3>5. \A x \in DOMAIN t : \E j \in 1..k : t[x] = list[j]
      BY <2>1, <2>4, <3>2, <3>3, <3>4
    <3>6. ASSUME Distinct(list)
          PROVE  Distinct(t)
      <4>1. Distinct(s)
        BY <2>2, <3>6 DEF s
      <4>2. \A x \in DOMAIN s : t[x] # t[l + 1]
        BY <2>4, <3>2, <3>3, <3>6, SMT DEF Distinct
      <4> QED
        BY <3>3, <3>4, <4>1, <4>2 DEF Distinct
    <3>7. Good(k)
      BY <3>1, <3>3, <3>5, <3>6
    <3> QED
      BY <3>7 DEF k
  <2> QED
    BY <2>6, <2>7
<1> HIDE DEF S
<1>12. n \in S
  BY <1>1, <1>10, <1>11, NatSetInduction
<1>13. Good(n)
  <2>1. n <= n
    BY <1>1, SMT
  <2> HIDE DEF Good
  <2> QED
    BY <1>12, <2>1 DEF S
<1> QED
  BY <1>2, <1>13

(***************************************************************************)
(* Two sequences without repetition and with no item in common give one    *)
(* without repetition.                                                     *)
(***************************************************************************)
LEMMA ConcatenationIsDistinct ==
  ASSUME NEW T, NEW s \in Seq(T), NEW t \in Seq(T), Distinct(s), Distinct(t), Apart(s, t)
  PROVE  Distinct(s \o t)
<1> DEFINE a == Len(s)
           b == Len(t)
           w == s \o t
<1>1. /\ a \in Nat /\ b \in Nat /\ DOMAIN s = 1..a /\ DOMAIN t = 1..b
      /\ DOMAIN w = 1..(a + b)
      /\ \A k \in 1..(a + b) : w[k] = IF k <= a THEN s[k] ELSE t[k - a]
  BY SMT
<1> HIDE DEF a, b, w
<1>2. ASSUME NEW m \in DOMAIN w, NEW n \in DOMAIN w, w[m] = w[n]
      PROVE  m = n
  <2>1. m \in Int /\ n \in Int
    BY <1>1, SMT
  <2>2. CASE m <= a /\ n <= a
    <3>1. m \in DOMAIN s /\ n \in DOMAIN s /\ w[m] = s[m] /\ w[n] = s[n]
      BY <1>1, <2>2, SMT
    <3> QED
      BY <1>2, <3>1 DEF Distinct
  <2>3. CASE m <= a /\ n > a
    <3>1. m \in DOMAIN s /\ n - a \in DOMAIN t /\ w[m] = s[m] /\ w[n] = t[n - a]
      BY <1>1, <2>3, SMT
    <3> QED
      BY <1>2, <3>1 DEF Apart
  <2>4. CASE m > a /\ n <= a
    <3>1. n \in DOMAIN s /\ m - a \in DOMAIN t /\ w[n] = s[n] /\ w[m] = t[m - a]
      BY <1>1, <2>4, SMT
    <3> QED
      BY <1>2, <3>1 DEF Apart
  <2>5. CASE m > a /\ n > a
    <3>1. m - a \in DOMAIN t /\ n - a \in DOMAIN t /\ w[m] = t[m - a] /\ w[n] = t[n - a]
      BY <1>1, <2>5, SMT
    <3>2. m - a = n - a
      BY <1>2, <3>1 DEF Distinct
    <3> QED
      BY <1>1, <2>1, <3>2, SMT
  <2> QED
    BY <1>1, <2>1, <2>2, <2>3, <2>4, <2>5, SMT
<1> QED
  BY <1>2 DEF Distinct, w

(***************************************************************************)
(* The records an archive can give, and those of all archives.             *)
(***************************************************************************)
RecordsOf(archive) ==
  [kind : {"normalized", "warning", "unknown_section"},
   of   : ToSet(archive.posts) \cup ToSet(archive.relations) \cup ToSet(archive.entries)]
AllRecords == UNION {RecordsOf(archive) : archive \in Archives}

(***************************************************************************)
(* An archive lists no post, relation or entry twice.                      *)
(***************************************************************************)
DistinctItems(archive) ==
  Distinct(archive.posts) /\ Distinct(archive.relations) /\ Distinct(archive.entries)

(***************************************************************************)
(* The records of one kind for the items of a list.                        *)
(***************************************************************************)
OfKind(kind, list) == [n \in DOMAIN list |-> [kind |-> kind, of |-> list[n]]]
AllOfKind(kind, list) == \A n \in DOMAIN list : list[n].kind = kind

(***************************************************************************)
(* They are a sequence, without repetition when the list has none.         *)
(***************************************************************************)
LEMMA RecordsOfAKind ==
  ASSUME NEW kind, NEW T, NEW list \in Seq(T),
         NEW R, \A x \in T : [kind |-> kind, of |-> x] \in R
  PROVE  /\ OfKind(kind, list) \in Seq(R)
         /\ AllOfKind(kind, OfKind(kind, list))
         /\ Distinct(list) => Distinct(OfKind(kind, list))
<1> DEFINE l == Len(list)
           made == OfKind(kind, list)
<1>1. l \in Nat /\ DOMAIN list = 1..l /\ \A n \in 1..l : list[n] \in T
  BY SMT
<1>2. made = [n \in 1..l |-> [kind |-> kind, of |-> list[n]]]
  BY <1>1 DEF OfKind
<1> HIDE DEF made
<1>3. made \in [1..l -> R]
  BY <1>1, <1>2
<1>4. made \in Seq(R)
  BY <1>1, <1>3, SMT
<1>5. \A n \in 1..l : made[n] = [kind |-> kind, of |-> list[n]]
  BY <1>2
<1>6. DOMAIN made = 1..l
  BY <1>2
<1> HIDE DEF l
<1>7. ASSUME NEW n \in 1..l
      PROVE  made[n].kind = kind /\ made[n].of = list[n]
  <2>1. made[n] = [kind |-> kind, of |-> list[n]]
    BY <1>5
  <2> QED
    BY ONLY <2>1, SMT
<1>8. /\ made \in Seq(R) /\ AllOfKind(kind, made)
      /\ Distinct(list) => Distinct(made)
  BY <1>1, <1>4, <1>6, <1>7 DEF Distinct, AllOfKind
<1> QED
  BY <1>8 DEF made

(***************************************************************************)
(* What a reconciliation writes is a sequence of records, none of them     *)
(* twice when the archive lists nothing twice.                             *)
(***************************************************************************)
LEMMA ItemsAreRecords ==
  ASSUME NEW archive \in Archives, NEW known
  PROVE  /\ Items(archive, known) \in Seq(AllRecords)
         /\ DistinctItems(archive) => Distinct(Items(archive, known))
<1> DEFINE P == ToSet(archive.posts)
           L == ToSet(archive.relations)
           E == ToSet(archive.entries)
           unresolved == Selected(archive.relations,
             {n \in DOMAIN archive.relations : archive.relations[n].from \notin known})
           unknown == unknown_entries(archive)
           a == OfKind("normalized", archive.posts)
           b == OfKind("warning", unresolved)
           c == OfKind("unknown_section", unknown)
<1>1. archive.posts \in Seq(P) /\ archive.relations \in Seq(L) /\ archive.entries \in Seq(E)
  BY ExportAssumption
<1>2. Items(archive, known) = (a \o b) \o c
  BY DEF Items, OfKind
<1>3. unresolved \in Seq(L) /\ (Distinct(archive.relations) => Distinct(unresolved))
  BY <1>1, SelectedItems
<1>4. unknown \in Seq(E) /\ (Distinct(archive.entries) => Distinct(unknown))
  BY <1>1, SelectedItems DEF unknown_entries
<1>5. RecordsOf(archive) \subseteq AllRecords
  BY DEF AllRecords
<1>6. /\ \A x \in P : [kind |-> "normalized", of |-> x] \in AllRecords
      /\ \A x \in L : [kind |-> "warning", of |-> x] \in AllRecords
      /\ \A x \in E : [kind |-> "unknown_section", of |-> x] \in AllRecords
  <2> HIDE DEF P, L, E
  <2>1. RecordsOf(archive) =
          [kind : {"normalized", "warning", "unknown_section"}, of : P \cup L \cup E]
    BY DEF RecordsOf, P, L, E
  <2> QED
    BY <1>5, <2>1
<1> HIDE DEF P, L, E, unresolved, unknown
<1>7. /\ a \in Seq(AllRecords) /\ AllOfKind("normalized", a)
      /\ Distinct(archive.posts) => Distinct(a)
  BY <1>1, <1>6, RecordsOfAKind
<1>8. /\ b \in Seq(AllRecords) /\ AllOfKind("warning", b)
      /\ Distinct(unresolved) => Distinct(b)
  BY <1>3, <1>6, RecordsOfAKind
<1>9. /\ c \in Seq(AllRecords) /\ AllOfKind("unknown_section", c)
      /\ Distinct(unknown) => Distinct(c)
  BY <1>4, <1>6, RecordsOfAKind
<1> HIDE DEF a, b, c
<1>10. a \o b \in Seq(AllRecords) /\ (a \o b) \o c \in Seq(AllRecords)
  BY <1>7, <1>8, <1>9, SMT
<1>11. ASSUME DistinctItems(archive)
       PROVE  Distinct((a \o b) \o c)
  <2>1. Distinct(a) /\ Distinct(b) /\ Distinct(c)
    BY <1>3, <1>4, <1>7, <1>8, <1>9, <1>11 DEF DistinctItems
  <2>2. Apart(a, b)
    BY <1>7, <1>8 DEF Apart, AllOfKind
  <2>3. Distinct(a \o b)
    BY <1>7, <1>8, <2>1, <2>2, ConcatenationIsDistinct
  <2>4. Apart(a \o b, c)
    <3>1. \A n \in DOMAIN (a \o b) : (a \o b)[n].kind \in {"normalized", "warning"}
      <4> SUFFICES ASSUME NEW n \in DOMAIN (a \o b)
                   PROVE  (a \o b)[n].kind \in {"normalized", "warning"}
        OBVIOUS
      <4>1. /\ DOMAIN (a \o b) = 1..(Len(a) + Len(b)) /\ Len(a) \in Nat /\ Len(b) \in Nat
            /\ DOMAIN a = 1..Len(a) /\ DOMAIN b = 1..Len(b)
            /\ (a \o b)[n] = IF n <= Len(a) THEN a[n] ELSE b[n - Len(a)]
        BY <1>7, <1>8, SMT
      <4>2. CASE n <= Len(a)
        <5>1. n \in DOMAIN a /\ (a \o b)[n] = a[n]
          BY <4>1, <4>2, SMT
        <5> QED
          BY <1>7, <5>1 DEF AllOfKind
      <4>3. CASE ~(n <= Len(a))
        <5>1. n - Len(a) \in DOMAIN b /\ (a \o b)[n] = b[n - Len(a)]
          BY <4>1, <4>3, SMT
        <5> QED
          BY <1>8, <5>1 DEF AllOfKind
      <4> QED
        BY <4>2, <4>3
    <3> QED
      BY <1>9, <3>1 DEF Apart, AllOfKind
  <2> DEFINE ab == a \o b
  <2> HIDE DEF ab
  <2>5. Distinct(ab \o c)
    BY <1>9, <1>10, <2>1, <2>3, <2>4, ConcatenationIsDistinct DEF ab
  <2> QED
    BY <2>5 DEF ab
<1> QED
  BY <1>2, <1>10, <1>11

(***************************************************************************)
(* The records of a run, the plan an operator has loaded and the plan of   *)
(* an operation are sequences of records.                                  *)
(***************************************************************************)
PlansAreRecords ==
  /\ DOMAIN records = Receipts /\ \A r \in Receipts : records[r] \in Seq(AllRecords)
  /\ DOMAIN operators = Operators
  /\ \A j \in Operators : operators[j].plan \in Seq(AllRecords)
  /\ DOMAIN reprocessed = Users \X Operations
  /\ \A o \in Users \X Operations : reprocessed[o].plan \in Seq(AllRecords)

(***************************************************************************)
(* They are so in every reachable state: reconcile appends its items,      *)
(* load_reprocessing_inputs copies what a run has, and apply_chunk what    *)
(* the operator has.                                                       *)
(***************************************************************************)
LEMMA PlanRecords ==
  Spec => []PlansAreRecords
<1> DEFINE R == Seq(AllRecords)
<1>1. Init => PlansAreRecords
  <2>1. <<>> \in R
    BY SMT
  <2> HIDE DEF R
  <2>2. Waiting.plan \in R /\ Unstarted.plan \in R
    BY <2>1 DEF Waiting, Unstarted
  <2> SUFFICES ASSUME Init
               PROVE  PlansAreRecords
    OBVIOUS
  <2>3. DOMAIN records = Receipts /\ \A r \in Receipts : records[r] \in R
    BY <2>1 DEF Init
  <2>4. DOMAIN operators = Operators /\ \A j \in Operators : operators[j].plan \in R
    BY <2>2 DEF Init
  <2>5. /\ DOMAIN reprocessed = Users \X Operations
        /\ \A o \in Users \X Operations : reprocessed[o].plan \in R
    BY <2>2 DEF Init
  <2> QED
    BY <2>3, <2>4, <2>5 DEF PlansAreRecords, R
<1>2. PlansAreRecords /\ [Next]_vars => PlansAreRecords'
  <2> SUFFICES ASSUME PlansAreRecords, [Next]_vars
               PROVE  PlansAreRecords'
    OBVIOUS
  <2>1. ASSUME NEW i \in Importers, reconcile(i)
        PROVE  PlansAreRecords'
    <3> DEFINE q == importers[i]
               items == Items(q[2], posts \cup ToSet(q[2].posts))
    <3>1. records' = [records EXCEPT ![q] = @ \o items] /\ UNCHANGED <<operators, reprocessed>>
      BY <2>1 DEF reconcile
    <3>2. q \in Receipts => items \in R
      <4> SUFFICES ASSUME q \in Receipts
                   PROVE  items \in R
        OBVIOUS
      <4>1. q[2] \in Archives
        BY DEF Receipts
      <4> QED
        BY <4>1, ItemsAreRecords
    <3> HIDE DEF items, q
    <3>3. ASSUME NEW r \in Receipts
          PROVE  records'[r] \in R
      <4>1. records[r] \in R
        BY DEF PlansAreRecords
      <4>2. CASE r = q
        <5>1. records'[r] = records[r] \o items
          BY <3>1, <4>2 DEF PlansAreRecords
        <5> QED
          BY <3>2, <4>1, <4>2, <5>1, SMT
      <4>3. CASE r # q
        BY <3>1, <4>1, <4>3 DEF PlansAreRecords
      <4> QED
        BY <4>2, <4>3
    <3>4. DOMAIN records' = Receipts
      BY <3>1 DEF PlansAreRecords
    <3> QED
      BY <3>1, <3>3, <3>4 DEF PlansAreRecords
  <2>2. ASSUME NEW j \in Operators, NEW command \in Commands, NEW r \in Receipts,
               load_reprocessing_inputs(j, command, r)
        PROVE  PlansAreRecords'
    <3> HIDE DEF R
    <3> DEFINE loaded == [run |-> r, mode |-> command.mode, plan |-> records[r]]
    <3>1. operators' = [operators EXCEPT ![j] = loaded] /\ UNCHANGED <<records, reprocessed>>
      BY <2>2 DEF load_reprocessing_inputs
    <3>2. loaded.plan \in R
      BY DEF PlansAreRecords, R
    <3> HIDE DEF loaded
    <3> QED
      BY <3>1, <3>2 DEF PlansAreRecords, R
  <2>3. ASSUME NEW j \in Operators, operators' = [operators EXCEPT ![j] = Waiting],
               UNCHANGED records,
               DOMAIN reprocessed' = Users \X Operations,
               \A o \in Users \X Operations : reprocessed'[o].plan \in R
        PROVE  PlansAreRecords'
    <3>1. Waiting.plan \in R
      BY SMT DEF Waiting
    <3> QED
      BY <2>3, <3>1 DEF PlansAreRecords
  <2>4. ASSUME NEW j \in Operators, dry_run(j) \/ OperatorStops(j)
        PROVE  PlansAreRecords'
    BY <2>3, <2>4 DEF dry_run, OperatorStops, PlansAreRecords
  <2>5. ASSUME NEW j \in Operators, NEW op \in Operations, NEW max_items \in Chunks,
               apply_chunk(j, op, max_items)
        PROVE  PlansAreRecords'
    <3> DEFINE key     == <<operators[j].run[1], op>>
               plan    == operators[j].plan
               started == reprocessed[key]
               chunk   == NextItems(started.items, plan, max_items)
               items   == started.items \cup chunk
               next    == [run        |-> operators[j].run,
                           plan       |-> IF started.state = "none" THEN plan ELSE started.plan,
                           items      |-> items,
                           state      |-> finish_reprocessing_run(items, plan),
                           checkpoint |-> IF chunk = {} THEN started.checkpoint ELSE Max(chunk)]
    <3>1. reprocessed' = reprocessed \/ reprocessed' = [reprocessed EXCEPT ![key] = next]
      BY <2>5 DEF apply_chunk
    <3>2. operators' = [operators EXCEPT ![j] = Waiting] /\ UNCHANGED records
      BY <2>5 DEF apply_chunk
    <3>3. plan \in R /\ (key \in Users \X Operations => started.plan \in R)
      BY DEF PlansAreRecords
    <3>4. next.plan = IF started.state = "none" THEN plan ELSE started.plan
      OBVIOUS
    <3> HIDE DEF R, key, plan, started, next
    <3>5. key \in Users \X Operations => next.plan \in R
      BY <3>3, <3>4
    <3>6. /\ DOMAIN reprocessed = Users \X Operations
          /\ \A o \in Users \X Operations : reprocessed[o].plan \in R
      BY DEF PlansAreRecords, R
    <3>7. /\ DOMAIN reprocessed' = Users \X Operations
          /\ \A o \in Users \X Operations : reprocessed'[o].plan \in R
      BY <3>1, <3>5, <3>6
    <3> QED
      BY <2>3, <3>2, <3>7
  <2>6. CASE UNCHANGED <<records, operators, reprocessed>>
    BY <2>6 DEF PlansAreRecords
  <2>7. ASSUME NEW u \in Users, NEW archive \in Archives, persist_receipt(u, archive)
        PROVE  UNCHANGED <<records, operators, reprocessed>>
    BY <2>7 DEF persist_receipt
  <2>8. ASSUME NEW k \in Captures, submit(k) \/ record(k)
        PROVE  UNCHANGED <<records, operators, reprocessed>>
    BY <2>8 DEF submit, record
  <2>9. ASSUME NEW i \in Importers,
               (\E r \in Receipts : load_run_status(i, r)) \/ mark_failed(i) \/ ImportStops(i)
        PROVE  UNCHANGED <<records, operators, reprocessed>>
    BY <2>9 DEF load_run_status, mark_failed, ImportStops
  <2>10. CASE UNCHANGED vars
    BY <2>6, <2>10 DEF vars
  <2> QED
    BY <2>1, <2>2, <2>4, <2>5, <2>6, <2>7, <2>8, <2>9, <2>10
       DEF Next, import, run_reprocess_export
<1> QED
  BY <1>1, <1>2, PTL DEF Spec

-----------------------------------------------------------------------------
(***************************************************************************)
(* Reprocessing                                                            *)
(***************************************************************************)

IsPlan(plan) == Len(plan) \in Nat /\ DOMAIN plan = 1..Len(plan)

(***************************************************************************)
(* What ReprocessingFollowsPlan says of one operation.                     *)
(***************************************************************************)
Follows(op) ==
  /\ op.items = 1..op.checkpoint
  /\ op.items \subseteq DOMAIN op.plan
  /\ op.state = "running" <=> op.items # DOMAIN op.plan

(***************************************************************************)
(* The inductive invariant of reprocessing: an operation that was not      *)
(* started has no items, so that its first chunk begins at the first item. *)
(***************************************************************************)
OperationInv(op) ==
  /\ op.state = "none" => op.items = 1..0 /\ op.checkpoint = 0
  /\ op.state # "none" /\ IsPlan(op.plan) => op.checkpoint \in 0..Len(op.plan) /\ Follows(op)

ReprocessingInv ==
  /\ DOMAIN reprocessed = Users \X Operations
  /\ \A o \in Users \X Operations : OperationInv(reprocessed[o])

(***************************************************************************)
(* A run is a row of export_runs.                                          *)
(***************************************************************************)
RunsAreRows ==
  /\ DOMAIN runs = Receipts
  /\ \A r \in Receipts :
       runs[r] = [outcome |-> runs[r].outcome, records_processed |-> runs[r].records_processed,
                  report |-> runs[r].report]

-----------------------------------------------------------------------------
(***************************************************************************)
(* After the first c items of a plan of n, the next chunk is the items     *)
(* from c + 1 on, as many as max_items allows.                             *)
(***************************************************************************)
LEMMA ChunkIsNext ==
  ASSUME NEW plan, IsPlan(plan), NEW c \in 0..Len(plan), NEW max \in Nat \ {0}
  PROVE  \E m \in c..Len(plan) :
           /\ NextItems(1..c, plan, max) = (c + 1)..m
           /\ m = c => c = Len(plan)
<1> DEFINE n == Len(plan)
           todo == DOMAIN plan \ (1..c)
           m == IF c + max <= n THEN c + max ELSE n
<1>1. n \in Nat /\ c \in Nat /\ c <= n /\ max \in Nat /\ max > 0
  BY SMT DEF IsPlan
<1>2. todo = (c + 1)..n
  BY <1>1, SMT DEF IsPlan
<1>3. ASSUME NEW k \in todo
      PROVE  Cardinality({x \in todo : x < k}) = k - 1 - c
  <2>1. k \in Int /\ k >= c + 1 /\ k <= n
    BY <1>1, <1>2, <1>3, SMT
  <2>2. {x \in todo : x < k} = (c + 1)..(k - 1)
    BY <1>1, <1>2, <2>1, SMT
  <2>3. Cardinality((c + 1)..(k - 1)) = IF c + 1 > k - 1 THEN 0 ELSE (k - 1) - (c + 1) + 1
    BY <1>1, <2>1, FS_Interval, SMT
  <2>4. (IF c + 1 > k - 1 THEN 0 ELSE (k - 1) - (c + 1) + 1) = k - 1 - c
    BY <1>1, <2>1, SMT
  <2> HIDE DEF todo
  <2> QED
    BY <2>2, <2>3, <2>4
<1>4. NextItems(1..c, plan, max) = {k \in todo : Cardinality({x \in todo : x < k}) < max}
  BY DEF NextItems
<1>5. {k \in todo : Cardinality({x \in todo : x < k}) < max} = {k \in todo : k - 1 - c < max}
  BY <1>3
<1>6. {k \in todo : k - 1 - c < max} = (c + 1)..m
  BY <1>1, <1>2, SMT
<1>7. m \in c..n /\ (m = c => c = n)
  BY <1>1, SMT
<1> QED
  BY <1>4, <1>5, <1>6, <1>7

(***************************************************************************)
(* The last item of a chunk is its checkpoint.                             *)
(***************************************************************************)
LEMMA MaxOfInterval ==
  ASSUME NEW a \in Int, NEW b \in Int, a <= b
  PROVE  Max(a..b) = b
<1>1. b \in a..b /\ \A y \in a..b : b >= y
  BY SMT
<1>2. \A x \in a..b : (\A y \in a..b : x >= y) => x = b
  BY SMT
<1> QED
  BY <1>1, <1>2 DEF Max

(***************************************************************************)
(* A prefix of a plan is the whole plan exactly when it is as long.        *)
(***************************************************************************)
LEMMA PrefixSize ==
  ASSUME NEW m \in Nat, NEW n \in Nat, m <= n
  PROVE  Cardinality(1..m) = m /\ (1..m # 1..n <=> m # n)
<1>1. Cardinality(1..m) = IF 1 > m THEN 0 ELSE m - 1 + 1
  BY FS_Interval, SMT
<1>2. (IF 1 > m THEN 0 ELSE m - 1 + 1) = m
  BY SMT
<1>3. m # n => n \in 1..n /\ n \notin 1..m
  BY SMT
<1> QED
  BY <1>1, <1>2, <1>3

(***************************************************************************)
(* One chunk keeps what is known of an operation it may go on with.        *)
(***************************************************************************)
LEMMA ChunkKeepsOperation ==
  ASSUME NEW started, OperationInv(started), NEW run, NEW plan, NEW max \in Nat \ {0},
         ensure_reprocessing_run(started, run, plan),
         NEW chunk, chunk = NextItems(started.items, plan, max),
         NEW items, items = started.items \cup chunk,
         NEW op,
         op = [run        |-> run,
               plan       |-> IF started.state = "none" THEN plan ELSE started.plan,
               items      |-> items,
               state      |-> finish_reprocessing_run(items, plan),
               checkpoint |-> IF chunk = {} THEN started.checkpoint ELSE Max(chunk)]
  PROVE  OperationInv(op)
<1>1. op.plan = plan /\ op.items = items /\ op.state = finish_reprocessing_run(items, plan)
      /\ op.checkpoint = IF chunk = {} THEN started.checkpoint ELSE Max(chunk)
  BY DEF ensure_reprocessing_run
<1>2. op.state # "none"
  BY <1>1 DEF finish_reprocessing_run
<1>3. ASSUME IsPlan(plan)
      PROVE  op.checkpoint \in 0..Len(plan) /\ Follows(op)
  <2> DEFINE c == started.checkpoint
             n == Len(plan)
  <2>1. n \in Nat /\ DOMAIN plan = 1..n
    BY <1>3 DEF IsPlan
  <2>2. c \in 0..n /\ started.items = 1..c
    <3>1. CASE started.state = "none"
      <4>1. c = 0 /\ started.items = 1..0
        BY <3>1 DEF OperationInv
      <4>2. 0 \in 0..n
        BY ONLY <2>1, SMT
      <4> QED
        BY <4>1, <4>2
    <3>2. CASE started.state # "none"
      <4>1. started.plan = plan
        BY <3>2 DEF ensure_reprocessing_run
      <4> QED
        BY <1>3, <3>2, <4>1 DEF OperationInv, Follows
    <3> QED
      BY <3>1, <3>2
  <2>3. PICK m \in c..n : chunk = (c + 1)..m /\ (m = c => c = n)
    <3> HIDE DEF c
    <3>1. chunk = NextItems(1..c, plan, max)
      BY <2>2
    <3> QED
      BY <1>3, <2>2, <3>1, ChunkIsNext, SMT
  <2>4. items = 1..m
    BY <2>1, <2>2, <2>3, SMT
  <2>5. op.checkpoint = m
    <3>1. CASE m = c
      BY <1>1, <2>1, <2>2, <2>3, <3>1, SMT
    <3>2. CASE m # c
      <4>1. c + 1 \in Int /\ m \in Int /\ c + 1 <= m
        BY <2>1, <2>2, <2>3, <3>2, SMT
      <4>2. chunk # {} /\ Max(chunk) = m
        BY <2>3, <4>1, MaxOfInterval, SMT
      <4> QED
        BY <1>1, <4>2
    <3> QED
      BY <3>1, <3>2
  <2>6. Cardinality(items) = m /\ (1..m # 1..n <=> m # n)
    <3>1. m \in Nat /\ m <= n
      BY <2>1, <2>2, <2>3, SMT
    <3> HIDE DEF n
    <3> QED
      BY <2>1, <2>4, <3>1, PrefixSize
  <2>7. op.state = "running" <=> m # n
    BY <1>1, <2>6 DEF finish_reprocessing_run
  <2>8. 1..m \subseteq 1..n /\ m \in 0..n
    BY <2>1, <2>2, <2>3, SMT
  <2> QED
    BY <1>1, <2>1, <2>4, <2>5, <2>6, <2>7, <2>8 DEF Follows
<1> QED
  BY <1>1, <1>2, <1>3 DEF OperationInv

(***************************************************************************)
(* Every operation has done a prefix of its plan, up to its checkpoint,    *)
(* and is completed exactly when nothing is missing (apply_chunk of        *)
(* export_reprocessing.rs), whatever the chunk sizes and however many      *)
(* processes run it.                                                       *)
(***************************************************************************)
THEOREM OperationsFollowTheirPlans ==
  Spec => []ReprocessingFollowsPlan
<1>1. Init => ReprocessingInv
  BY SMT DEF Init, ReprocessingInv, OperationInv, Unstarted
<1>2. ReprocessingInv /\ [Next]_vars => ReprocessingInv'
  <2> SUFFICES ASSUME ReprocessingInv, [Next]_vars
               PROVE  ReprocessingInv'
    OBVIOUS
  <2>1. ASSUME NEW j \in Operators, NEW op \in Operations, NEW max_items \in Chunks,
               apply_chunk(j, op, max_items)
        PROVE  ReprocessingInv'
    <3> DEFINE run     == operators[j].run
               key     == <<run[1], op>>
               plan    == operators[j].plan
               started == reprocessed[key]
               chunk   == NextItems(started.items, plan, max_items)
               items   == started.items \cup chunk
               next    == [run        |-> run,
                           plan       |-> IF started.state = "none" THEN plan ELSE started.plan,
                           items      |-> items,
                           state      |-> finish_reprocessing_run(items, plan),
                           checkpoint |-> IF chunk = {} THEN started.checkpoint ELSE Max(chunk)]
    <3>1. CASE reprocessed' = reprocessed
      BY <3>1 DEF ReprocessingInv
    <3>2. CASE /\ ensure_reprocessing_run(started, run, plan)
               /\ reprocessed' = [reprocessed EXCEPT ![key] = next]
      <4>1. max_items \in Nat \ {0}
        BY ExportAssumption
      <4>2. key \in Users \X Operations => OperationInv(next)
        <5> SUFFICES ASSUME key \in Users \X Operations
                     PROVE  OperationInv(next)
          OBVIOUS
        <5>1. OperationInv(started)
          BY DEF ReprocessingInv
        <5> HIDE DEF started, plan, run
        <5> QED
          BY <3>2, <4>1, <5>1, ChunkKeepsOperation
      <4> HIDE DEF next, key
      <4>3. \A o \in Users \X Operations :
              reprocessed'[o] = IF o = key THEN next ELSE reprocessed[o]
        BY <3>2 DEF ReprocessingInv
      <4> QED
        BY <3>2, <4>2, <4>3 DEF ReprocessingInv
    <3> QED
      BY <2>1, <3>1, <3>2 DEF apply_chunk
  <2>2. CASE UNCHANGED reprocessed
    BY <2>2 DEF ReprocessingInv
  <2>3. ASSUME NEW u \in Users, NEW archive \in Archives, persist_receipt(u, archive)
        PROVE  UNCHANGED reprocessed
    BY <2>3 DEF persist_receipt
  <2>4. ASSUME NEW k \in Captures, submit(k) \/ record(k)
        PROVE  UNCHANGED reprocessed
    BY <2>4 DEF submit, record
  <2>5. ASSUME NEW i \in Importers, import(i)
        PROVE  UNCHANGED reprocessed
    BY <2>5 DEF import, load_run_status, mark_failed, reconcile, ImportStops
  <2>6. ASSUME NEW j \in Operators,
               \/ \E command \in Commands, r \in Receipts : load_reprocessing_inputs(j, command, r)
               \/ dry_run(j)
               \/ OperatorStops(j)
        PROVE  UNCHANGED reprocessed
    BY <2>6 DEF load_reprocessing_inputs, dry_run, OperatorStops
  <2>7. CASE UNCHANGED vars
    BY <2>2, <2>7 DEF vars
  <2> QED
    BY <2>1, <2>2, <2>3, <2>4, <2>5, <2>6, <2>7 DEF Next, run_reprocess_export
<1>3. PlansAreRecords /\ ReprocessingInv => ReprocessingFollowsPlan
  <2> SUFFICES ASSUME PlansAreRecords, ReprocessingInv, NEW o \in Users \X Operations
               PROVE  IsPlan(reprocessed[o].plan)
    BY DEF ReprocessingInv, OperationInv, ReprocessingFollowsPlan, Follows
  <2>1. reprocessed[o].plan \in Seq(AllRecords)
    BY DEF PlansAreRecords
  <2> QED
    BY <2>1, SMT DEF IsPlan
<1> QED
  BY <1>1, <1>2, <1>3, PlanRecords, PTL DEF Spec

-----------------------------------------------------------------------------
(***************************************************************************)
(* Every run is a row with its three fields.                               *)
(***************************************************************************)
LEMMA RunRows ==
  Spec => []RunsAreRows
<1>1. Init => RunsAreRows
  BY SMT DEF Init, RunsAreRows, Absent
<1>2. RunsAreRows /\ [Next]_vars => RunsAreRows'
  <2> SUFFICES ASSUME RunsAreRows, [Next]_vars
               PROVE  RunsAreRows'
    OBVIOUS
  <2>1. CASE UNCHANGED runs
    BY <2>1 DEF RunsAreRows
  <2>2. ASSUME NEW u \in Users, NEW archive \in Archives, persist_receipt(u, archive)
        PROVE  RunsAreRows'
    BY <2>2 DEF persist_receipt, RunsAreRows
  <2>3. ASSUME NEW i \in Importers, mark_failed(i)
        PROVE  RunsAreRows'
    BY <2>3 DEF mark_failed, RunsAreRows
  <2>4. ASSUME NEW i \in Importers, reconcile(i)
        PROVE  RunsAreRows'
    BY <2>4 DEF reconcile, finish_run, RunsAreRows
  <2>5. ASSUME NEW k \in Captures, submit(k) \/ record(k)
        PROVE  UNCHANGED runs
    BY <2>5 DEF submit, record
  <2>6. ASSUME NEW i \in Importers,
               (\E r \in Receipts : load_run_status(i, r)) \/ ImportStops(i)
        PROVE  UNCHANGED runs
    BY <2>6 DEF load_run_status, ImportStops
  <2>7. ASSUME NEW j \in Operators, run_reprocess_export(j)
        PROVE  UNCHANGED runs
    BY <2>7 DEF run_reprocess_export, load_reprocessing_inputs, dry_run, apply_chunk, OperatorStops
  <2>8. CASE UNCHANGED vars
    BY <2>1, <2>8 DEF vars
  <2> QED
    BY <2>1, <2>2, <2>3, <2>4, <2>5, <2>6, <2>7, <2>8 DEF Next, import
<1> QED
  BY <1>1, <1>2, PTL DEF Spec

(***************************************************************************)
(* A finished run keeps its outcome and report through every overlapping   *)
(* import, late failure and repeated receipt (finish_run and mark_failed). *)
(***************************************************************************)
THEOREM FinishedRunsStand ==
  Spec => FinishedRunIsFinal
<1> DEFINE Finished(r) == Completed(runs[r]) \/ runs[r].outcome = "failed"
           Kept == \A r \in Receipts : Finished(r) => runs'[r] = runs[r]
<1>1. RunsAreRows /\ [Next]_vars => [Kept]_vars
  <2> SUFFICES ASSUME RunsAreRows, Next, NEW r \in Receipts, Finished(r)
               PROVE  runs'[r] = runs[r]
    OBVIOUS
  <2>1. runs[r].outcome # "running" /\ runs[r].outcome # "none"
    BY DEF Completed
  <2>2. ASSUME NEW u \in Users, NEW archive \in Archives, persist_receipt(u, archive)
        PROVE  runs'[r] = runs[r]
    BY <2>1, <2>2 DEF persist_receipt, RunsAreRows
  <2>3. ASSUME NEW i \in Importers, mark_failed(i)
        PROVE  runs'[r] = runs[r]
    BY <2>1, <2>3 DEF mark_failed, RunsAreRows
  <2>4. ASSUME NEW i \in Importers, reconcile(i)
        PROVE  runs'[r] = runs[r]
    BY <2>1, <2>4 DEF reconcile, finish_run, RunsAreRows
  <2>5. ASSUME NEW k \in Captures, submit(k) \/ record(k)
        PROVE  UNCHANGED runs
    BY <2>5 DEF submit, record
  <2>6. ASSUME NEW i \in Importers,
               (\E q \in Receipts : load_run_status(i, q)) \/ ImportStops(i)
        PROVE  UNCHANGED runs
    BY <2>6 DEF load_run_status, ImportStops
  <2>7. ASSUME NEW j \in Operators, run_reprocess_export(j)
        PROVE  UNCHANGED runs
    BY <2>7 DEF run_reprocess_export, load_reprocessing_inputs, dry_run, apply_chunk, OperatorStops
  <2> QED
    BY <2>2, <2>3, <2>4, <2>5, <2>6, <2>7 DEF Next, import
<1> QED
  BY <1>1, RunRows, PTL DEF Spec, FinishedRunIsFinal

(***************************************************************************)
(* An import completes only for an archive that is within every limit on   *)
(* unbounded numbers (inspect_archive, reached by reconcile through        *)
(* parse_export): a run becomes completed only in reconcile, behind an     *)
(* inspection that is exact by InspectionIsExact.                          *)
(***************************************************************************)
THEOREM CompletedImportsAreWithinLimits ==
  Spec => []CompletedWithinLimits
<1>1. Init => CompletedWithinLimits
  BY SMT DEF Init, Absent, Completed, CompletedWithinLimits
<1>2. RunsAreRows /\ CompletedWithinLimits /\ [Next]_vars => CompletedWithinLimits'
  <2> SUFFICES ASSUME RunsAreRows, CompletedWithinLimits, [Next]_vars,
                      NEW r \in Receipts, Completed(runs'[r])
               PROVE  WithinLimits(r[2])
    BY DEF CompletedWithinLimits
  <2>1. Completed(runs[r]) => WithinLimits(r[2])
    BY DEF CompletedWithinLimits
  <2>2. ASSUME NEW u \in Users, NEW archive \in Archives, persist_receipt(u, archive)
        PROVE  Completed(runs[r])
    BY <2>2 DEF persist_receipt, RunsAreRows, Completed
  <2>3. ASSUME NEW i \in Importers, mark_failed(i)
        PROVE  Completed(runs[r])
    BY <2>3 DEF mark_failed, RunsAreRows, Completed
  <2>4. ASSUME NEW i \in Importers, reconcile(i)
        PROVE  Completed(runs[r]) \/ WithinLimits(r[2])
    <3>1. CASE r = importers[i]
      <4>1. inspect_archive(r[2]) = "ok"
        BY <2>4, <3>1 DEF reconcile, parse_export
      <4>2. r[2] \in Archives
        BY DEF Receipts
      <4>3. IsArchive(r[2])
        BY <4>2, ExportAssumption DEF IsArchive
      <4> QED
        BY <4>1, <4>3, InspectionIsExact
    <3>2. CASE r # importers[i]
      BY <2>4, <3>2 DEF reconcile, finish_run, RunsAreRows
    <3> QED
      BY <3>1, <3>2
  <2>5. ASSUME NEW k \in Captures, submit(k) \/ record(k)
        PROVE  UNCHANGED runs
    BY <2>5 DEF submit, record
  <2>6. ASSUME NEW i \in Importers,
               (\E q \in Receipts : load_run_status(i, q)) \/ ImportStops(i)
        PROVE  UNCHANGED runs
    BY <2>6 DEF load_run_status, ImportStops
  <2>7. ASSUME NEW j \in Operators, run_reprocess_export(j)
        PROVE  UNCHANGED runs
    BY <2>7 DEF run_reprocess_export, load_reprocessing_inputs, dry_run, apply_chunk, OperatorStops
  <2>8. CASE UNCHANGED vars
    BY <2>1, <2>8 DEF vars
  <2> QED
    BY <2>1, <2>2, <2>3, <2>4, <2>5, <2>6, <2>7, <2>8 DEF Next, import
<1> QED
  BY <1>1, <1>2, RunRows, PTL DEF Spec

-----------------------------------------------------------------------------
(***************************************************************************)
(* Replays                                                                 *)
(***************************************************************************)

(***************************************************************************)
(* A run that no two imports worked on at once has no records, or exactly  *)
(* what one reconciliation of its archive writes.                          *)
(***************************************************************************)
OneReconciliation ==
  \A r \in Receipts \ overlapped :
    records[r] = <<>> \/ \E known : records[r] = Items(r[2], known)

(***************************************************************************)
(* The inductive invariant of import: a run that was never overlapped has  *)
(* at most one importer, is running while it has one, and has no records   *)
(* before it completes.                                                    *)
(***************************************************************************)
ImportedAlone(r) ==
  /\ \A i \in Importers :
       importers[i] = r =>
         /\ runs[r].outcome = "running"
         /\ \A other \in Importers : importers[other] = r => other = i
  /\ Completed(runs[r]) \/ records[r] = <<>>

ImportInv ==
  /\ DOMAIN importers = Importers
  /\ \A r \in Receipts \ overlapped : ImportedAlone(r)
  /\ OneReconciliation

(***************************************************************************)
(* It holds in every reachable state.                                      *)
(***************************************************************************)
LEMMA ImportsAreAlone ==
  Spec => []ImportInv
<1>1. Init => ImportInv
  <2>1. \A r \in Receipts : r # NoRun
    BY SMT DEF Receipts, NoRun
  <2> QED
    BY <2>1 DEF Init, ImportInv, ImportedAlone, OneReconciliation
<1>2. RunsAreRows /\ PlansAreRecords /\ ImportInv /\ [Next]_vars => ImportInv'
  <2> SUFFICES ASSUME RunsAreRows, PlansAreRecords, ImportInv, [Next]_vars
               PROVE  ImportInv'
    OBVIOUS
  <2>1. \A r \in Receipts : r # NoRun
    BY SMT DEF Receipts, NoRun
  <2>2. DOMAIN runs = Receipts /\ DOMAIN records = Receipts /\ DOMAIN importers = Importers
    BY DEF RunsAreRows, PlansAreRecords, ImportInv
  <2>3. ASSUME NEW u \in Users, NEW archive \in Archives, persist_receipt(u, archive)
        PROVE  ImportInv'
    <3>1. /\ UNCHANGED <<records, importers, overlapped>>
          /\ \A r \in Receipts : runs'[r].outcome =
               IF r = <<u, archive>> THEN "running" ELSE runs[r].outcome
          /\ runs[<<u, archive>>].outcome = "none"
      BY <2>2, <2>3, SMT DEF persist_receipt, RunsAreRows
    <3>2. \A r \in Receipts \ overlapped : ImportedAlone(r)'
      BY <3>1 DEF ImportInv, ImportedAlone, Completed
    <3> QED
      BY <3>1, <3>2 DEF ImportInv, OneReconciliation
  <2>4. ASSUME NEW i \in Importers, NEW q \in Receipts, load_run_status(i, q)
        PROVE  ImportInv'
    <3>1. /\ UNCHANGED <<runs, records>> /\ runs[q].outcome = "running"
          /\ importers' = [importers EXCEPT ![i] = q]
          /\ overlapped \subseteq overlapped'
          /\ q \notin overlapped' => \A other \in Importers \ {i} : importers[other] # q
      BY <2>4 DEF load_run_status, terminal_outcome
    <3>2. \A r \in Receipts \ overlapped' : ImportedAlone(r)'
      BY <2>2, <3>1 DEF ImportInv, ImportedAlone, Completed
    <3> QED
      BY <2>2, <3>1, <3>2 DEF ImportInv, OneReconciliation
  <2>5. ASSUME NEW i \in Importers, mark_failed(i)
        PROVE  ImportInv'
    <3>1. /\ UNCHANGED <<records, overlapped>>
          /\ importers' = [importers EXCEPT ![i] = NoRun]
          /\ \A r \in Receipts : r # importers[i] => runs'[r] = runs[r]
          /\ \A r \in Receipts : Completed(runs[r]) => Completed(runs'[r])
      BY <2>2, <2>5 DEF mark_failed, RunsAreRows, Completed
    <3>2. \A r \in Receipts \ overlapped : ImportedAlone(r)'
      BY <2>1, <2>2, <3>1 DEF ImportInv, ImportedAlone
    <3> QED
      BY <2>2, <3>1, <3>2 DEF ImportInv, OneReconciliation
  <2>6. ASSUME NEW i \in Importers, reconcile(i)
        PROVE  ImportInv'
    <3> DEFINE q == importers[i]
               known == posts \cup ToSet(q[2].posts)
               items == Items(q[2], known)
    <3>1. /\ UNCHANGED overlapped
          /\ importers' = [importers EXCEPT ![i] = NoRun]
          /\ records' = [records EXCEPT ![q] = @ \o items]
      BY <2>6 DEF reconcile
    <3>2. /\ \A r \in Receipts : r # q => runs'[r] = runs[r]
          /\ q \in Receipts /\ runs[q].outcome = "running" => Completed(runs'[q])
      BY <2>2, <2>6 DEF reconcile, finish_run, Completed
    <3>3. ASSUME q \in Receipts \ overlapped
          PROVE  records'[q] = items
      <4>1. runs[q].outcome = "running"
        BY <3>3 DEF ImportInv, ImportedAlone
      <4>2. records[q] = <<>>
        BY <3>3, <4>1 DEF ImportInv, ImportedAlone, Completed
      <4>3. q[2] \in Archives
        BY <3>3 DEF Receipts
      <4>4. items \in Seq(AllRecords)
        BY <4>3, ItemsAreRecords
      <4> HIDE DEF q, items
      <4>5. records'[q] = records[q] \o items
        BY <2>2, <3>1, <3>3
      <4> QED
        BY <4>2, <4>4, <4>5, SMT
    <3> HIDE DEF items, q
    <3>4. \A r \in Receipts : r # q => records'[r] = records[r]
      BY <2>2, <3>1
    <3>5. ASSUME NEW r \in Receipts \ overlapped
          PROVE  ImportedAlone(r)'
      <4>1. ImportedAlone(r)
        BY DEF ImportInv
      <4>2. \A k \in Importers : importers'[k] = r => importers[k] = r /\ k # i
        BY <2>1, <2>2, <3>1
      <4>3. CASE r = q
        BY <3>2, <4>1, <4>2, <4>3 DEF ImportedAlone, q
      <4>4. CASE r # q
        BY <3>2, <3>4, <4>1, <4>2, <4>4 DEF ImportedAlone
      <4> QED
        BY <4>3, <4>4
    <3>6. OneReconciliation'
      BY <3>1, <3>3, <3>4 DEF ImportInv, OneReconciliation, items
    <3> QED
      BY <2>2, <3>1, <3>5, <3>6 DEF ImportInv
  <2>7. ASSUME NEW i \in Importers, ImportStops(i)
        PROVE  ImportInv'
    <3>1. /\ UNCHANGED <<runs, records, overlapped>>
          /\ importers' = [importers EXCEPT ![i] = NoRun]
      BY <2>7 DEF ImportStops
    <3>2. \A r \in Receipts \ overlapped : ImportedAlone(r)'
      BY <2>1, <2>2, <3>1 DEF ImportInv, ImportedAlone
    <3> QED
      BY <2>2, <3>1, <3>2 DEF ImportInv, OneReconciliation
  <2>8. CASE UNCHANGED <<runs, records, importers, overlapped>>
    BY <2>8 DEF ImportInv, ImportedAlone, OneReconciliation
  <2>9. ASSUME NEW k \in Captures, submit(k) \/ record(k)
        PROVE  UNCHANGED <<runs, records, importers, overlapped>>
    BY <2>9 DEF submit, record
  <2>10. ASSUME NEW j \in Operators, run_reprocess_export(j)
         PROVE  UNCHANGED <<runs, records, importers, overlapped>>
    BY <2>10 DEF run_reprocess_export, load_reprocessing_inputs, dry_run, apply_chunk, OperatorStops
  <2>11. CASE UNCHANGED vars
    BY <2>8, <2>11 DEF vars
  <2> QED
    BY <2>3, <2>4, <2>5, <2>6, <2>7, <2>8, <2>9, <2>10, <2>11 DEF Next, import
<1> QED
  BY <1>1, <1>2, RunRows, PlanRecords, PTL DEF Spec

(***************************************************************************)
(* Whatever is replayed, retried after a stop or received again, a run     *)
(* that no two imports worked on at once has the records of at most one    *)
(* reconciliation of its archive (terminal_outcome and the one transaction *)
(* of reconcile).                                                          *)
(***************************************************************************)
THEOREM RunsAreReconciledOnce ==
  Spec => []OneReconciliation
<1>1. ImportInv => OneReconciliation
  BY DEF ImportInv
<1> QED
  BY <1>1, ImportsAreAlone, PTL

(***************************************************************************)
(* So, when no archive lists an item twice, such a run has no record       *)
(* twice.  The hypothesis is about the archives alone: the code writes one *)
(* record per listed item and does not compare the items of an archive.    *)
(***************************************************************************)
THEOREM ReplaysAddNothing ==
  ASSUME \A archive \in Archives : DistinctItems(archive)
  PROVE  Spec => []ReplayAddsNothing
<1>1. OneReconciliation => ReplayAddsNothing
  <2> SUFFICES ASSUME OneReconciliation, NEW r \in Receipts, r \notin overlapped
               PROVE  Distinct(records[r])
    BY DEF ReplayAddsNothing, Distinct
  <2>1. CASE records[r] = <<>>
    BY <2>1, SMT DEF Distinct
  <2>2. ASSUME NEW known, records[r] = Items(r[2], known)
        PROVE  Distinct(records[r])
    <3>1. r[2] \in Archives
      BY DEF Receipts
    <3> QED
      BY <2>2, <3>1, ItemsAreRecords
  <2> QED
    BY <2>1, <2>2 DEF OneReconciliation
<1> QED
  BY <1>1, RunsAreReconciledOnce, PTL
==============================================================================
