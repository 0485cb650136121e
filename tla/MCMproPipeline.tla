--------------------------- MODULE MCMproPipeline ---------------------------
(* Small instances of MproPipeline for TLC.                                *)
EXTENDS MproPipeline, TLC

(* Producers are interchangeable, and so are the addresses of xfers; used  *)
(* only by runs without liveness properties.                               *)
Symmetry == Permutations(Producer) \cup Permutations(Xfer)
=============================================================================
