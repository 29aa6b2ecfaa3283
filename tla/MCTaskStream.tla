---------------------------- MODULE MCTaskStream ---------------------------
(* TLC instance of TaskStream: the values of the CONSTANTS are in the .cfg. *)
EXTENDS TaskStream
=============================================================================
