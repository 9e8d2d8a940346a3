--------------------------- MODULE ServiceClaims ---------------------------
(***************************************************************************)
(* What a log message says of the read replica and the code does not do.   *)
(* A run refutes it.                                                       *)
(***************************************************************************)
EXTENDS MCService

(* database_config.py:136, "Replica failed, falling back to master": once   *)
(* the replica has been given up, nothing waits for it or reads from it.    *)
FallsBackToMaster ==
  connected /\ ~ listed => Waiting("replica") \union Running("replica") = {}
=============================================================================
