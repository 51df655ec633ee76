------------------------------ MODULE MCStartup ------------------------------
(* 3-bit ints: 7, 8 and 9 are narrowed to -1, 0 and 1.  Two keys that must be *)
(* positive and one that must not be negative.                               *)
EXTENDS Startup

Zeroes == [k \in Keys |-> IF k \in Positive THEN 2 ELSE 0]
Numbers == {-1, 1, 8, 9}
Intervals == {Empty, Zero, [digits |-> 0, unit |-> "s"], [digits |-> 7, unit |-> "d"],
              [digits |-> -1, unit |-> "d"], [digits |-> 7, unit |-> "other"]}
===============================================================================
