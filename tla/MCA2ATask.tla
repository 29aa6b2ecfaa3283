----------------------------- MODULE MCA2ATask -----------------------------
(* TLC instance of A2ATask: the values of the CONSTANTS are in the .cfg.    *)
EXTENDS A2ATask
=============================================================================
