------------------------------- MODULE Stages -------------------------------
(***************************************************************************)
(* The stages a frame of the first-generation pipeline passes on its way   *)
(* from the camera to a recording or a viewer: the queue between camera    *)
(* and consumer (FrameQueue), the encoders the consumer feeds              *)
(* (JpegMtEncoder, V4l2Encoder), each checked against what it promises,    *)
(* and the Recorder that owns an encoder and writes what comes out of it.  *)
(* They share no state; a behaviour exercises the one `stage` names and    *)
(* leaves the others in their initial state.                               *)
(***************************************************************************)
EXTENDS FrameQueue

CONSTANTS
    Workers, Output, MaxQueue,                \* JpegMtEncoder
    Granted, NumOutputBuffers, CaptureBuffers, CodecFaults,   \* V4l2Encoder
    MaxCalls,                                 \* both
    RecorderFaults, MaxStarts, MaxFrames      \* Recorder

ASSUME WorkersOK == Workers # {} /\ Output \notin Workers
ASSUME BoundsOK ==
    /\ MaxQueue \in Nat /\ MaxCalls \in Nat
    /\ Granted \in Nat /\ NumOutputBuffers \in Nat
    /\ MaxStarts \in Nat /\ MaxFrames \in Nat

VARIABLES
    stage,
    mtCalls, mtAccepted, mtDelivered, mtOwner, mtPc, mtItem, encQueue, nextIndex, abortEnc,
    abortOut, outQueues, expected,
    kind, calls, accepted, delivered, owner, pc, item, free, pending, queued, readSlots, coding,
    empty, full, outputQueue, abortPoll, abortOutput, broken,
    state, ctl, then, starts, encoder, dying, wired, pipe, first, base, frames, pusher, out, coded,
    taking, inside, dead, error, file, ended, fault

mtVars == <<mtCalls, mtAccepted, mtDelivered, mtOwner, mtPc, mtItem, encQueue, nextIndex, abortEnc,
            abortOut, outQueues, expected>>
hwVars == <<kind, calls, accepted, delivered, owner, pc, item, free, pending, queued, readSlots,
            coding, empty, full, outputQueue, abortPoll, abortOutput, broken>>
recVars == <<state, ctl, then, starts, encoder, dying, wired, pipe, first, base, frames, pusher,
             out, coded, taking, inside, dead, error, file, ended, fault>>

Mt == INSTANCE JpegMtEncoder WITH
    calls <- mtCalls, accepted <- mtAccepted, delivered <- mtDelivered, owner <- mtOwner,
    pc <- mtPc, item <- mtItem

Hw == INSTANCE V4l2Encoder WITH Faults <- CodecFaults, read <- readSlots

Rec == INSTANCE Recorder WITH Faults <- RecorderFaults, accepted <- taking, broken <- dead

RunInit ==
    /\ Init /\ Mt!Init /\ Hw!Init /\ Rec!Init
    /\ stage \in {"queue", "jpeg_mt", "v4l2", "recorder"}
    /\ stage # "v4l2" => kind = "h264"

Queue == stage = "queue" /\ Next /\ UNCHANGED <<stage, mtVars, hwVars, recVars>>
JpegMt == stage = "jpeg_mt" /\ Mt!Next /\ UNCHANGED <<stage, vars, hwVars, recVars>>
V4l2 == stage = "v4l2" /\ Hw!Next /\ UNCHANGED <<stage, vars, mtVars, recVars>>
Recording ==
    stage = "recorder" /\ fault = "none" /\ Rec!Next /\ UNCHANGED <<stage, vars, mtVars, hwVars>>

RunNext == Queue \/ JpegMt \/ V4l2 \/ Recording

RunVars == <<stage, vars, mtVars, hwVars, recVars>>

(* The encoders' threads, the codec, and calls once they have begun make   *)
(* progress; nothing makes a caller call encode(), start() or stop().      *)
Fairness ==
    /\ \A w \in Workers : WF_mtVars(stage = "jpeg_mt" /\ Mt!Work(w))
    /\ WF_mtVars(stage = "jpeg_mt" /\ Mt!Reorder)
    /\ WF_mtVars(stage = "jpeg_mt" /\ Mt!Join)
    /\ WF_hwVars(stage = "v4l2" /\ Hw!Feed)
    /\ WF_hwVars(stage = "v4l2" /\ Hw!Codec)
    /\ WF_hwVars(stage = "v4l2" /\ (Hw!Poll \/ Hw!Hand("poll")))
    /\ WF_hwVars(stage = "v4l2" /\ Hw!Drain)
    /\ WF_hwVars(stage = "v4l2" /\ Hw!Join)
    /\ WF_recVars(stage = "recorder" /\ fault = "none" /\ Rec!Control)
    /\ WF_recVars(stage = "recorder" /\ fault = "none" /\ Rec!Callback)

RunSpec == RunInit /\ [][RunNext]_RunVars /\ Fairness

-----------------------------------------------------------------------------
\* What an encoder accepts it hands on once and in that order, and its destructor
\* returns only when nothing is inside: both encoders implement Encoder.
ImplementsEncoder == Mt!ImplementsEncoder /\ Hw!ImplementsEncoder

\* No slot of a hardware encoder is lost, and a frame lives as long as its slot.
SlotsConserved == Hw!SlotsConserved

\* No CAPTURE buffer is written while its content is handed on.
CaptureApart == Hw!CaptureApart

\* The destructors of the encoders return, and so do start(), stop(), restart() and the
\* destructor of the Recorder.
CallsReturn == Mt!DestructorReturns /\ Hw!DestructorReturns /\ Rec!CallsReturn

\* The camera gets back every buffer an encoder keeps.
FramesReleased == Mt!FramesReleased /\ Hw!FramesReleased

\* A recording has its own frames, without a gap, and their times count from one frame:
\* its first, unless an error has ended the recording before it.
FilesInOrder == Rec!FilesInOrder

\* A recording that ended with an end of stream has every frame that was accepted.
StoppedComplete == Rec!StoppedComplete
=============================================================================
