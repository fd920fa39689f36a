---------------------------- MODULE MCDataExport ----------------------------
(***************************************************************************)
(* A four-bit word.  One archive imports with an unresolved relation and   *)
(* an unknown section; the others are refused, one for each kind of limit  *)
(* at its boundary and one for its version.                                *)
(***************************************************************************)
EXTENDS DataExport, TLC

CONSTANTS u1, c1, c2, i1, i2, j1, j2, op1

LimitsDef ==
  [max_entries |-> 2, max_path_depth |-> 2, max_compressed_bytes |-> 8,
   max_decompressed_bytes |-> 12, max_compression_ratio |-> 3]

Entry(name, size, compressed) ==
  [name |-> name, readable |-> TRUE, plain |-> TRUE, depth |-> 1, size |-> size,
   compressed |-> compressed]

(* An empty entry some directories down. *)
Nested(name, depth) == [Entry(name, 0, 0) EXCEPT !.depth = depth]

Archive(entries, version, posts_, relations_) ==
  [entries |-> entries, json |-> TRUE, version |-> version, posts |-> posts_,
   relations |-> relations_, bytes |-> 4]

ArchivesDef ==
  {Archive(<<Entry("manifest", 12, 4), Nested("likes", 2)>>, "v1", <<"p1", "p2">>,
           <<[from |-> "p2", kind |-> "reply", to |-> "p1"],
             [from |-> "p9", kind |-> "quote", to |-> "p1"]>>),
   Archive(<<Entry("manifest", 3, 1), Entry("likes", 15, 5)>>, "v1", <<"p1">>, <<>>),
   Archive(<<Entry("manifest", 3, 1), Entry("likes", 4, 1)>>, "v1", <<"p1">>, <<>>),
   Archive(<<Entry("manifest", 3, 1), Nested("likes", 3)>>, "v1", <<"p1">>, <<>>),
   Archive(<<Entry("likes", 3, 1)>>, "v1", <<"p1">>, <<>>),
   Archive(<<Entry("manifest", 3, 1)>>, "v2", <<"p1">>, <<>>)}

Owners == (c1 :> u1) @@ (c2 :> u1)
Identities == (c1 :> "p1") @@ (c2 :> "p9")

CommandsDef ==
  {[mode |-> "dry-run", flags |-> <<"owner", "run-id", "parser">>],
   [mode |-> "apply", flags |-> <<"owner", "run-id", "parser", "operation-id">>],
   [mode |-> "apply", flags |-> <<"owner", "run-id", "parser">>]}

Symmetry == Permutations({i1, i2}) \cup Permutations({j1, j2})

=============================================================================
