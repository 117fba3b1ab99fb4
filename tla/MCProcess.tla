----------------------------- MODULE MCProcess ------------------------------
(***************************************************************************)
(* Process for TLC.  Three slots hold init, a parent and a child, so that  *)
(* orphans, zombies and empty slots occur together; four process ids let a *)
(* slot be used twice.                                                     *)
(***************************************************************************)
EXTENDS Process
=============================================================================
