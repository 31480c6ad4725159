------------------------------- MODULE MCSquawks -------------------------------
(***************************************************************************)
(* One aircraft, as aircraft have nothing in common but the moment their   *)
(* answers are flushed, and two codes, so that a newer answer can differ   *)
(* from an older one.                                                      *)
(***************************************************************************)
EXTENDS Squawks
===============================================================================
