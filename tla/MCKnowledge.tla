---------------------------- MODULE MCKnowledge ----------------------------
(* Small instances of KnowledgeIndexing.  Documents only share the prefetch*)
(* window, so one document, two users and two faults show what can happen  *)
(* to it: three deliveries, two of them left running by lost connections.  *)
EXTENDS KnowledgeIndexing, TLC

UserSymmetry == Permutations(User)
=============================================================================
