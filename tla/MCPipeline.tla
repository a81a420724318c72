----------------------------- MODULE MCPipeline -----------------------------
(* A small instance of Pipeline for TLC.                                   *)
EXTENDS Pipeline
=============================================================================
