---------------------------- MODULE MCTeamTasks ----------------------------
(* TLC instance of TeamTasks: the values of the CONSTANTS are in the .cfg.  *)
EXTENDS TeamTasks
=============================================================================
