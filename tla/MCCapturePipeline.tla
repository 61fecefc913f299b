------------------------- MODULE MCCapturePipeline -------------------------
(* Small instances of CapturePipeline. *)
EXTENDS CapturePipeline
=============================================================================
