---------------------------- MODULE MCBlockWriteBack ----------------------------
(***************************************************************************)
(* Two entities, two calls under way and room for one task in the queue,   *)
(* so that puts wait, overtake each other and time out; two seconds, so    *)
(* that blocks expire, and blocks of one or two seconds, so that a longer  *)
(* one replaces a shorter one.                                             *)
(***************************************************************************)
EXTENDS BlockWriteBack
===============================================================================
