-------------------------- MODULE MCCameraBuffers --------------------------
(* Instances of CameraBuffers for TLC. *)
EXTENDS CameraBuffers

CONSTANTS b1, b2, f1, f2, f3, f4

MCBuffers == {b1, b2}
MCFrames  == {f1, f2, f3, f4}

(* Two buffers with a queue that never fills, whose callers drain it before *)
(* they close the camera; and one buffer with a queue of one slot, which a  *)
(* video consumer that holds a frame lets fill, closed at any moment.       *)
MCSetups ==
    {[buffers |-> {b1, b2}, capacity |-> 4, drains |-> TRUE],
     [buffers |-> {b1},     capacity |-> 1, drains |-> FALSE]}
=============================================================================
