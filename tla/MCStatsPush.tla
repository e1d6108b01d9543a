------------------------------- MODULE MCStatsPush -------------------------------
(***************************************************************************)
(* Two entities, since a bulk write and a cleanup may stop between them;   *)
(* four changes: one to be pushed, one meanwhile, and the same again after *)
(* the entity was forgotten.                                               *)
(***************************************************************************)
EXTENDS StatsPush
===============================================================================
