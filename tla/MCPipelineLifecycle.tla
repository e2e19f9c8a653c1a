------------------------ MODULE MCPipelineLifecycle ------------------------
(***************************************************************************)
(* PipelineLifecycle for TLC.  Its state space is finite as it stands: the *)
(* clients may issue any number of commands.                               *)
(***************************************************************************)
EXTENDS PipelineLifecycle
=============================================================================
