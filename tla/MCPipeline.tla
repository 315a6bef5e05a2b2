------------------------------ MODULE MCPipeline ------------------------------
(* Pipeline for TLC; the configurations name every constant.               *)
EXTENDS Pipeline
=============================================================================
