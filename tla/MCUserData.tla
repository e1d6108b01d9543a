------------------------------- MODULE MCUserData -------------------------------
(* One user with two connections and two session ids, and room for one session. *)
EXTENDS UserData, TLC

CONSTANTS c1, c2, s1, s2, alice

MCOwner == [x \in Chat \cup Session |-> alice]

Symmetric == Permutations(Chat) \cup Permutations(Session)
===============================================================================
