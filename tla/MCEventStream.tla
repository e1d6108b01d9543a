------------------------------ MODULE MCEventStream ------------------------------
(***************************************************************************)
(* Two connections of one user, and a user without any; room for one       *)
(* message on the bus and in each queue, so that every put may wait.       *)
(***************************************************************************)
EXTENDS EventStream, TLC

CONSTANTS a1, a2, alice

MCOwner == (a1 :> alice) @@ (a2 :> alice)

Symmetric == Permutations(Producer)
===============================================================================
