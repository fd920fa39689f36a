--------------------------- MODULE MCOutboxRelay ----------------------------
(***************************************************************************)
(* Instances of OutboxRelay for TLC.  Event 1 is the report of a command,  *)
(* event 2 a removal, event 3 any other fact.                              *)
(***************************************************************************)
EXTENDS OutboxRelay, TLC

CONSTANTS i1, i2

TwoEvents == {1, 2}

ThreeEvents == {1, 2, 3}

ReportOnly == {1}

RemovalOnly == {2}

NoEvents == {}

Interchangeable == Permutations(Instances)
=============================================================================
