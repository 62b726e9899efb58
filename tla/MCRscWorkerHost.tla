-------------------------- MODULE MCRscWorkerHost --------------------------
(* Instances of RscWorkerHost for TLC: one render. *)
EXTENDS RscWorkerHost
CONSTANTS r1
=============================================================================
