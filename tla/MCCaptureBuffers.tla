-------------------------- MODULE MCCaptureBuffers --------------------------
(* CaptureBuffers on a small instance: two modelines that differ in both    *)
(* dimensions, pictures of two rows, a few frames.                          *)
EXTENDS CaptureBuffers

MCDefault == [w |-> 1, h |-> 2]
MCModes == {MCDefault, [w |-> 2, h |-> 3]}
=============================================================================
