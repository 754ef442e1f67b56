------------------------------ MODULE MC_Arena ------------------------------
(* The arena scaled down: a chunk of 4 units stands for SZ_64K, the heap    *)
(* holds five chunks, and the requests round to 2, 3 and 6 units, so a   *)
(* request fits a free block, splits it, or needs two chunks.             *)
EXTENDS Arena

MC_HEAP_UNITS == 20
MC_CHUNK_UNITS == 4
MC_ALIGN_UNITS == 2
MC_Requests == {0, 1, 20, 70}
=============================================================================
