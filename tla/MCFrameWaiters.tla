-------------------------- MODULE MCFrameWaiters ----------------------------
(* Instances of FrameWaiters: loaders that follow each other on the frame.  *)
EXTENDS FrameWaiters

CONSTANTS f1, f2, f3, l1, l2, p1
=============================================================================
