------------------------ MODULE MCScheduledPipelines ------------------------
(* ScheduledPipelines for TLC: see ScheduledPipelines.cfg.                 *)
EXTENDS ScheduledPipelines
=============================================================================
