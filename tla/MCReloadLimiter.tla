--------------------------- MODULE MCReloadLimiter ---------------------------
(* ReloadLimiter with other clients that are interchangeable.              *)
EXTENDS ReloadLimiter, TLC

ClientSymmetry == Permutations(Client \ {Worker})
=============================================================================
