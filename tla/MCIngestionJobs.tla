-------------------------- MODULE MCIngestionJobs --------------------------
(* TLC instance of IngestionJobs: the CONSTANTS' values are in the .cfg.    *)
EXTENDS IngestionJobs
=============================================================================
