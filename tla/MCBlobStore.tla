----------------------------- MODULE MCBlobStore -----------------------------
(***************************************************************************)
(* One object, stored for a resolution, a synced page of two posts, a      *)
(* media row and an export receipt: every kind of reference shares it.     *)
(***************************************************************************)
EXTENDS BlobStore, TLC

CONSTANTS b1, p1, p2, w1, w2, d1, d2

RequestsDef ==
  {[via |-> "store", kind |-> "raw_objects", blob |-> b1, posts |-> {p1}],
   [via |-> "store", kind |-> "raw_objects", blob |-> b1, posts |-> {p1, p2}],
   [via |-> "stream", kind |-> "media", blob |-> b1, posts |-> {p1}],
   [via |-> "stream", kind |-> "export_runs", blob |-> b1, posts |-> {}]}

Answers == {{}, {TRUE}}

MediaInputsDef ==
  [archive_requested : BOOLEAN, acquisition_eligible : {TRUE}, rights_confirmed : Answers,
   kind_eligible : {{TRUE}}, mime_eligible : {{TRUE}}, url_lifetime_sufficient : {{TRUE}},
   declared_bytes : {{}, {0}, {2}}, max_object_bytes : {2},
   owner_remaining_bytes : {{1}, {2}}, explicit_action : {TRUE}]

ResponsesDef ==
  [https : {TRUE}, bytes : {2, 3}, declared_bytes : {2}, body : {b1}]

Symmetry == Permutations({w1, w2}) \cup Permutations({d1, d2})

=============================================================================
