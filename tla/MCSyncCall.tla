------------------------------ MODULE MCSyncCall ------------------------------
(* Values for the constants of SyncCall. *)
EXTENDS SyncCall

CONSTANTS a, b
=============================================================================
