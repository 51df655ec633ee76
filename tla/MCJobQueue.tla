------------------------------ MODULE MCJobQueue ------------------------------
(* Values for the constants of JobQueue. *)
EXTENDS JobQueue, TLC

CONSTANTS w1, w2

MappedKinds == [type : {"embed", "generate"}, adhoc : {FALSE}]
ThreeKinds  == MappedKinds \cup {[type |-> "embed", adhoc |-> TRUE]}
TwoKinds    == {[type |-> "embed", adhoc |-> TRUE], [type |-> "generate", adhoc |-> FALSE]}

WorkerSymmetry == Permutations({w1, w2})
=============================================================================
