--------------------------- MODULE MCStreamBuffers ---------------------------
(* Two streams with a buffer each; only the first stream's has descriptors. *)
EXTENDS StreamBuffers

CONSTANTS s1, s2, b1, b2

HomeDef == [b \in Buffers |-> IF b = b1 THEN s1 ELSE s2]
==============================================================================
