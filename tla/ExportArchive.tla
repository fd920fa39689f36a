---------------------------- MODULE ExportArchive ----------------------------
(***************************************************************************)
(* The bounded inspection and the one supported parser of a Data Export    *)
(* archive, as pure operators.                                             *)
(*                                                                         *)
(* An archive is a sequence of entries and a manifest.  An entry has a     *)
(* name, whether its name decodes (`readable`), whether its path is a      *)
(* plain relative one (`plain`), its depth, and its declared sizes.  The   *)
(* sizes are unsigned words: they come from the archive's own directory    *)
(* and need not add up to a word.  Posts and relations are listed in the   *)
(* order normalize_manifest sorts them into.  It sorts the names of the    *)
(* unknown entries too; here they stay in the order of the directory, as   *)
(* fixed for an archive as the sorted one.                                 *)
(***************************************************************************)
EXTENDS Naturals, SequencesExt

CONSTANTS
  MaxWord,       \* largest value of the unsigned word (u64)
  Limits,        \* max_entries, max_path_depth, max_compressed_bytes, ...
  Manifest,      \* the name threads_export.json
  Supported      \* SUPPORTED_EXPORT_VERSION

ASSUME ArchiveAssumption ==
  /\ MaxWord \in Nat
  /\ Limits \in [max_entries : Nat, max_path_depth : Nat, max_compressed_bytes : 0..MaxWord,
                 max_decompressed_bytes : 0..MaxWord, max_compression_ratio : 0..MaxWord]

Refused(limit) == [verdict |-> limit, compressed |-> 0, decompressed |-> 0]

(***************************************************************************)
(* Saturating multiplication keeps the product a word.                     *)
(***************************************************************************)
saturating_mul(a, b) == IF a * b > MaxWord THEN MaxWord ELSE a * b

exceeds_ratio(uncompressed, compressed, maximum) ==
  /\ uncompressed # 0
  /\ compressed = 0 \/ uncompressed > saturating_mul(compressed, maximum)

(***************************************************************************)
(* A variant that adds without a check and wraps around.                   *)
(***************************************************************************)
WrappingTotal(total, value) == {(total + value) % (MaxWord + 1)}

(***************************************************************************)
(* Checked addition: no result when the sum is not a word.                 *)
(***************************************************************************)
checked_total(total, value) == IF total + value > MaxWord THEN {} ELSE {total + value}

validate_entry_name(entry) ==
  IF ~entry.plain THEN "path"
  ELSE IF entry.depth > Limits.max_path_depth THEN "path_depth"
  ELSE "ok"

(***************************************************************************)
(* One entry, in the order the code refuses it.                            *)
(***************************************************************************)
inspect_entry(seen, entry) ==
  LET compressed   == checked_total(seen.compressed, entry.compressed)
      decompressed == checked_total(seen.decompressed, entry.size)
  IN  IF seen.verdict # "ok" THEN seen
      ELSE IF ~entry.readable THEN Refused("invalid_zip")
      ELSE IF compressed = {} THEN Refused("compressed_bytes")
      ELSE IF decompressed = {} THEN Refused("decompressed_bytes")
      ELSE IF \E total \in compressed : total > Limits.max_compressed_bytes
           THEN Refused("compressed_bytes")
      ELSE IF \E total \in decompressed : total > Limits.max_decompressed_bytes
           THEN Refused("decompressed_bytes")
      ELSE IF exceeds_ratio(entry.size, entry.compressed, Limits.max_compression_ratio)
           THEN Refused("compression_ratio")
      ELSE IF validate_entry_name(entry) # "ok" THEN Refused(validate_entry_name(entry))
      ELSE [verdict      |-> "ok",
            compressed   |-> CHOOSE total \in compressed : TRUE,
            decompressed |-> CHOOSE total \in decompressed : TRUE]

NothingSeen == [verdict |-> "ok", compressed |-> 0, decompressed |-> 0]

inspect_archive(archive) ==
  LET n == Len(archive.entries)
      seen[k \in 0..n] ==
        IF k = 0 THEN NothingSeen ELSE inspect_entry(seen[k - 1], archive.entries[k])
  IN  IF n > Limits.max_entries THEN "entry_count" ELSE seen[n].verdict

(***************************************************************************)
(* The parser accepts the supported layout and version; every other entry  *)
(* is an unknown section.                                                  *)
(***************************************************************************)
parse_export(archive) ==
  IF inspect_archive(archive) # "ok" THEN inspect_archive(archive)
  ELSE IF \A i \in DOMAIN archive.entries : archive.entries[i].name # Manifest
       THEN "unsupported_layout"
  ELSE IF ~archive.json THEN "invalid_manifest"
  ELSE IF archive.version # Supported THEN "unsupported_version"
  ELSE "ok"

(***************************************************************************)
(* The items of a list at some of its positions, in their order.           *)
(***************************************************************************)
Selected(list, positions) ==
  LET taken[k \in 0..Len(list)] ==
        IF k = 0 THEN <<>>
        ELSE IF k \in positions THEN Append(taken[k - 1], list[k])
        ELSE taken[k - 1]
  IN  taken[Len(list)]

unknown_entries(archive) ==
  Selected(archive.entries,
           {n \in DOMAIN archive.entries : archive.entries[n].name # Manifest})

(***************************************************************************)
(* The sum of a list of numbers.                                           *)
(***************************************************************************)
Total(list) ==
  LET sum[k \in 0..Len(list)] == IF k = 0 THEN 0 ELSE sum[k - 1] + list[k]
  IN  sum[Len(list)]

(***************************************************************************)
(* Every limit an accepted archive is meant to keep, on unbounded numbers. *)
(***************************************************************************)
WithinLimits(archive) ==
  LET entries == archive.entries
  IN  /\ Len(entries) <= Limits.max_entries
      /\ Total([n \in 1..Len(entries) |-> entries[n].compressed]) <= Limits.max_compressed_bytes
      /\ Total([n \in 1..Len(entries) |-> entries[n].size]) <= Limits.max_decompressed_bytes
      /\ \A n \in 1..Len(entries) :
           /\ entries[n].size <= entries[n].compressed * Limits.max_compression_ratio
           /\ entries[n].depth <= Limits.max_path_depth

=============================================================================
