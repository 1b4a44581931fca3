----------------------------- MODULE MCPipeline -----------------------------
(***************************************************************************)
(* Values for Pipeline: which steps may fail.                              *)
(***************************************************************************)
EXTENDS Pipeline

MCEverything == Steps
MCOpen == {"open"}
=============================================================================
