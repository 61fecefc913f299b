---------------------------- MODULE MCFrameQueue ----------------------------
(* Small instances of FrameQueue for TLC.  Three threads are the fewest    *)
(* with a producer and two blocked consumers, or one of each and a flush.  *)
EXTENDS FrameQueue
=============================================================================
