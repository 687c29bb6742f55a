-------------------------- MODULE MCPipelineReset --------------------------
(* Instance of PipelineReset for TLC. *)
EXTENDS PipelineReset

CONSTANTS gst1, gst2, other

Processes == {gst1, gst2, other}
GstLaunch == {gst1, gst2}
=============================================================================
