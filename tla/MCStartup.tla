------------------------------ MODULE MCStartup -----------------------------
(***************************************************************************)
(* The instance of Startup for TLC; its constants are numbers.             *)
(***************************************************************************)
EXTENDS Startup, TLC
=============================================================================
