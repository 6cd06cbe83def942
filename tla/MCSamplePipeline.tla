-------------------------- MODULE MCSamplePipeline --------------------------
(* A small instance of the sample pipeline: frames of two and one buffers.  *)
EXTENDS SamplePipeline
=============================================================================
