---------------------------- MODULE MCWorkQueue ----------------------------
(* Three jobs compete for a prefetch window of two; two faults.            *)
EXTENDS WorkQueue
=============================================================================
