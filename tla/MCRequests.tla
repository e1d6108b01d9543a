------------------------------- MODULE MCRequests -------------------------------
(* Two requests of one client, which may have one chat open. *)
EXTENDS Requests, TLC

CONSTANTS r1, r2, c1, c2

MCMaxConnections == [k \in {"ip", "user"} |-> 1]

Symmetric == Permutations(Request) \cup Permutations(Connection)
===============================================================================
