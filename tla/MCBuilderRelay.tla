--------------------------- MODULE MCBuilderRelay ---------------------------
(* Instances of BuilderRelay for TLC: two server processes per gateway. *)
EXTENDS BuilderRelay
CONSTANTS k1, k2
=============================================================================
