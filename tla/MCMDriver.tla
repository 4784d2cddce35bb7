----------------------------- MODULE MCMDriver -----------------------------
(* Instances of MDriver: two blocks, sizes that fill, split and exceed a    *)
(* chunk; a first trace of up to four requests, then one of a single one.   *)
EXTENDS MDriver
MCOps == <<4, 1>>
=============================================================================
