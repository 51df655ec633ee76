----------------------------- MODULE MCEmbedBatch -----------------------------
(* Limits around which texts of 0 to 4 tokens fit, fill, and overflow both  *)
(* the context (NCtx) and a chunk (MaxSeqs, Capacity).                      *)
EXTENDS EmbedBatch

Texts  == 4
Length == 4
=============================================================================
