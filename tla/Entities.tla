------------------------------- MODULE Entities -------------------------------
(* Whom one security observer watches. *)

CONSTANT Entity     \* the users, IP addresses or tokens
===============================================================================
