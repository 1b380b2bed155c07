------------------------------- MODULE MCDevEnv -------------------------------
(***************************************************************************)
(* DevEnv for TLC, on the two branches clone.sh fetches.                   *)
(***************************************************************************)
EXTENDS DevEnv

CONSTANTS master, gcc_16
=============================================================================
