--------------------------- MODULE MCWatchedTables ---------------------------
(* Values for the constants of WatchedTables. *)
EXTENDS WatchedTables, TLC

CONSTANTS w1, w2

MappedKinds == [type : {"embed", "generate"}, adhoc : {FALSE}]
SomeKinds   == MappedKinds \cup {[type |-> "embed", adhoc |-> TRUE]}

WorkerSymmetry == Permutations({w1, w2})
=============================================================================
