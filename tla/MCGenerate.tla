------------------------------ MODULE MCGenerate ------------------------------
(* 4-bit integers; max_tokens on both sides of 0, of the context, and where *)
(* the sum with a prompt overflows.                                         *)
EXTENDS Generate

Requested == -1 .. 4 \cup {6, 7}
===============================================================================
