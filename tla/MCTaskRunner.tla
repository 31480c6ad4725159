----------------------------- MODULE MCTaskRunner -----------------------------
(***************************************************************************)
(* TaskRunner with the three workers of HelperBootstrap and enough tasks   *)
(* for every worker to be busy while one more task waits.                  *)
(***************************************************************************)
EXTENDS TaskRunner
===============================================================================
