---------------------------- MODULE MCFrameAlloc ----------------------------
(***************************************************************************)
(* Sixteen frames of four bytes.  The framebuffer starts and ends inside a *)
(* frame, or on the boundaries of one, or overlaps the low region.         *)
(***************************************************************************)
EXTENDS FrameAlloc

MCFramebuffers == {<<33, 10>>, <<40, 8>>, <<9, 6>>}
=============================================================================
