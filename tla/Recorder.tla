------------------------------ MODULE Recorder ------------------------------
(***************************************************************************)
(* The Recorder (record/recorder.cpp) with the hardware encoder            *)
(* (sw_encoder = false): frames go into an encoder, whose output thread    *)
(* calls back into the Recorder, which stamps them and pushes them into    *)
(* the pipeline that writes the MP4.  CameraControl has the software path. *)
(*                                                                         *)
(* One thread calls start(), stop(), restart() and the destructor, each of *)
(* which holds mtx_ to its end; a second one calls push_frame(), and does  *)
(* so no more when the destructor is called.  The encoder is what Encoder  *)
(* promises: it hands on what it accepted, in that order, and its          *)
(* destructor returns when nothing is inside, unless its poll thread has   *)
(* given up.  An encoder, a pipeline and its file carry the number of the  *)
(* start() that made them; a frame's number is also its time.              *)
(***************************************************************************)
EXTENDS Integers, Sequences

CONSTANTS
    Faults,      \* what may go wrong: "encoder_fails", "pipeline_fails", "error", "breaks"
    MaxStarts,   \* bound: encoders made by start()
    MaxFrames    \* bound: calls of push_frame() that find a recording

VARIABLES
    state,       \* state_
    ctl,         \* label of the control thread
    then,        \* where stop() returns to
    starts,      \* calls of start() that have made an encoder
    encoder,     \* hw_encoder_, 0 if null
    dying,       \* the encoder whose destructor runs, 0 if none
    wired,       \* the encoder in hw_encoder_ has its callbacks
    pipe,        \* pipeline_, appsrc_ and bus_, 0 if null
    first, base, \* first_output_, base_ts_us_
    frames,      \* calls of push_frame() that found a recording
    pusher,      \* label of push_frame()
    out, coded,  \* label of the output thread's callback, and the frame it is for
    accepted,    \* [Sessions -> the frames its encoder has accepted]
    inside,      \* [Sessions -> those it has not handed on]
    broken,      \* the encoders whose poll thread has given up
    error,       \* [Sessions -> the ERROR on the pipeline's bus: "none", "posted", "taken"]
    file,        \* [Sessions -> the frames written, each with the base of its time]
    ended,       \* [Sessions -> how its file ended]
    fault        \* "none", or what was done that is undefined

Sessions == 1..MaxStarts
Pushes   == 1..MaxFrames

apiVars     == <<state, ctl, then, starts>>
encoderVars == <<encoder, dying, wired, broken>>
frameVars   == <<accepted, inside>>
pipeVars    == <<pipe, error, ended, file>>
stampVars   == <<first, base>>
outVars     == <<out, coded>>
pushVars    == <<frames, pusher>>
vars == <<apiVars, encoderVars, frameVars, pipeVars, stampVars, outVars, pushVars, fault>>

TypeOK ==
    /\ state \in {"IDLE", "RECORDING", "STOPPING"}
    /\ ctl \in {"idle", "start", "replace", "build", "publish", "close", "drain", "eos", "await",
                "members", "drain_members", "gone"}
    /\ then \in {"idle", "start", "members"}
    /\ starts \in 0..MaxStarts
    /\ {encoder, dying, pipe} \subseteq 0..MaxStarts
    /\ wired \in BOOLEAN /\ first \in BOOLEAN
    /\ {frames, base, coded} \subseteq 0..MaxFrames
    /\ pusher \in {"idle", "encode"} /\ out \in {"idle", "poll", "push"}
    /\ accepted \in [Sessions -> Seq(Pushes)] /\ inside \in [Sessions -> Seq(Pushes)]
    /\ broken \subseteq Sessions
    /\ error \in [Sessions -> {"none", "posted", "taken"}]
    /\ file \in [Sessions -> Seq([frame : Pushes, base : 0..MaxFrames])]
    /\ ended \in [Sessions -> {"no", "eos", "final", "cut"}]
    /\ fault \in {"none", "no_encoder", "no_callback"}

Init ==
    /\ state = "IDLE" /\ ctl = "idle" /\ then = "idle" /\ starts = 0
    /\ encoder = 0 /\ dying = 0 /\ wired = FALSE /\ pipe = 0
    /\ first = TRUE /\ base = 0
    /\ frames = 0 /\ pusher = "idle"
    /\ out = "idle" /\ coded = 0
    /\ accepted = [s \in Sessions |-> <<>>] /\ inside = [s \in Sessions |-> <<>>]
    /\ broken = {}
    /\ error = [s \in Sessions |-> "none"]
    /\ file = [s \in Sessions |-> <<>>]
    /\ ended = [s \in Sessions |-> "no"]
    /\ fault = "none"

-----------------------------------------------------------------------------
(* start()                                                                 *)

CallStart ==
    /\ ctl = "idle"
    /\ starts < MaxStarts
    /\ ctl' = "start"
    /\ UNCHANGED <<state, then, starts, encoderVars, frameVars, pipeVars, stampVars, outVars,
                   pushVars, fault>>

StartRefused ==
    /\ ctl = "start"
    /\ state # "IDLE"
    /\ ctl' = "idle"
    /\ UNCHANGED <<state, then, starts, encoderVars, frameVars, pipeVars, stampVars, outVars,
                   pushVars, fault>>

\* Mutant: the time of the previous recording's first frame is kept.
StartKeepsBase ==
    /\ ctl = "start"
    /\ state = "IDLE"
    /\ starts' = starts + 1
    /\ encoder' = starts' /\ dying' = encoder /\ wired' = FALSE
    /\ ctl' = "replace"
    /\ UNCHANGED <<state, then, broken, frameVars, pipeVars, stampVars, outVars, pushVars, fault>>

\* A new encoder takes the place of the one an error has left behind, if any, whose
\* destructor then runs.
Start ==
    /\ ctl = "start"
    /\ state = "IDLE"
    /\ starts' = starts + 1
    /\ first' = TRUE /\ base' = 0
    /\ encoder' = starts' /\ dying' = encoder /\ wired' = FALSE
    /\ ctl' = "replace"
    /\ UNCHANGED <<state, then, broken, frameVars, pipeVars, outVars, pushVars, fault>>

\* The encoder's constructor throws.
EncoderFails ==
    /\ ctl = "start"
    /\ state = "IDLE"
    /\ "encoder_fails" \in Faults
    /\ first' = TRUE /\ base' = 0
    /\ ctl' = "idle"
    /\ UNCHANGED <<state, then, starts, encoderVars, frameVars, pipeVars, outVars, pushVars, fault>>

\* An earlier pipeline is not set to NULL: its pointers are overwritten.
Build ==
    /\ ctl = "build"
    /\ pipe' = encoder
    /\ ctl' = "publish"
    /\ UNCHANGED <<state, then, starts, encoderVars, frameVars, error, ended, file, stampVars,
                   outVars, pushVars, fault>>

BuildFails ==
    /\ ctl = "build"
    /\ "pipeline_fails" \in Faults
    /\ encoder' = 0
    /\ pipe' = 0
    /\ ctl' = "idle"
    /\ UNCHANGED <<state, then, starts, dying, wired, broken, frameVars, error, ended, file,
                   stampVars, outVars, pushVars, fault>>

Publish ==
    /\ ctl = "publish"
    /\ wired' = TRUE
    /\ state' = "RECORDING"
    /\ ctl' = "idle"
    /\ UNCHANGED <<then, starts, encoder, dying, broken, frameVars, pipeVars, stampVars, outVars,
                   pushVars, fault>>

-----------------------------------------------------------------------------
(* stop(); restart() goes on with start(), ~Recorder() with the members.   *)

Stop(next) ==
    /\ ctl = "idle"
    /\ next = "start" => starts < MaxStarts
    /\ next = "members" => pusher = "idle"
    /\ IF state = "RECORDING"
       THEN state' = "STOPPING" /\ ctl' = "close" /\ then' = next
       ELSE ctl' = next /\ UNCHANGED <<state, then>>
    /\ UNCHANGED <<starts, encoderVars, frameVars, pipeVars, stampVars, outVars, pushVars, fault>>

\* Mutant: the stream is ended while the encoder still has frames.
CloseLater ==
    /\ ctl = "close"
    /\ encoder' = 0 /\ dying' = encoder
    /\ ctl' = "eos"
    /\ UNCHANGED <<state, then, starts, wired, broken, frameVars, pipeVars, stampVars, outVars,
                   pushVars, fault>>

\* hw_encoder_.reset()
Close ==
    /\ ctl = "close"
    /\ encoder' = 0 /\ dying' = encoder
    /\ ctl' = "drain"
    /\ UNCHANGED <<state, then, starts, wired, broken, frameVars, pipeVars, stampVars, outVars,
                   pushVars, fault>>

AfterDrain == [replace |-> "build", drain |-> "eos", drain_members |-> "gone"]

\* The destructor of an encoder returns.
Drain ==
    /\ ctl \in DOMAIN AfterDrain
    /\ out = "idle"
    /\ dying # 0 => inside[dying] = <<>> \/ dying \in broken
    /\ inside' = [s \in Sessions |-> IF s = dying THEN <<>> ELSE inside[s]]
    /\ dying' = 0
    /\ ctl' = AfterDrain[ctl]
    /\ UNCHANGED <<state, then, starts, encoder, wired, broken, accepted, pipeVars, stampVars,
                   outVars, pushVars, fault>>

EndOfStream ==
    /\ ctl = "eos"
    /\ ended' = [ended EXCEPT ![pipe] = "eos"]
    /\ ctl' = "await"
    /\ UNCHANGED <<state, then, starts, encoderVars, frameVars, pipe, error, file, stampVars,
                   outVars, pushVars, fault>>

\* EOS comes, an ERROR does, or ten seconds pass; then teardown_gst().
Await ==
    /\ ctl = "await"
    /\ \E end \in {"final", "cut"} :
          /\ end = "final" => error[pipe] = "none"
          /\ ended' = [ended EXCEPT ![pipe] = end]
    /\ pipe' = 0
    /\ state' = "IDLE"
    /\ ctl' = then
    /\ UNCHANGED <<then, starts, encoderVars, frameVars, error, file, stampVars, outVars, pushVars,
                   fault>>

\* Of the members only hw_encoder_ has a destructor that does something.
Members ==
    /\ ctl = "members"
    /\ encoder' = 0 /\ dying' = encoder
    /\ ctl' = "drain_members"
    /\ UNCHANGED <<state, then, starts, wired, broken, frameVars, pipeVars, stampVars, outVars,
                   pushVars, fault>>

-----------------------------------------------------------------------------
(* push_frame()                                                            *)

\* A frame that comes while nothing is recorded is refused without a trace.
PushFrame ==
    /\ pusher = "idle"
    /\ frames < MaxFrames
    /\ state = "RECORDING" /\ encoder # 0
    /\ frames' = frames + 1
    /\ pusher' = "encode"
    /\ UNCHANGED <<apiVars, encoderVars, frameVars, pipeVars, stampVars, outVars, fault>>

\* The encoder takes the frame or has no slot for it.  stop() may have destroyed it since
\* the test, and start() may have made another that has no callbacks yet.
Encode ==
    /\ pusher = "encode"
    /\ fault' = IF encoder = 0 THEN "no_encoder" ELSE IF ~wired THEN "no_callback" ELSE "none"
    /\ \/ /\ fault' = "none"
          /\ accepted' = [accepted EXCEPT ![encoder] = Append(@, frames)]
          /\ inside' = [inside EXCEPT ![encoder] = Append(@, frames)]
       \/ UNCHANGED frameVars
    /\ pusher' = "idle"
    /\ UNCHANGED <<apiVars, encoderVars, pipeVars, stampVars, outVars, frames>>

-----------------------------------------------------------------------------
(* The encoder's output thread, and the callback                           *)

Deliver(s) ==
    /\ out = "idle"
    /\ s \in {encoder, dying}
    /\ inside[s] # <<>>
    /\ coded' = Head(inside[s])
    /\ inside' = [inside EXCEPT ![s] = Tail(@)]
    /\ out' = "poll"
    /\ UNCHANGED <<apiVars, encoderVars, accepted, pipeVars, stampVars, pushVars, fault>>

PollBus ==
    /\ out = "poll"
    /\ IF pipe # 0 /\ error[pipe] = "posted"
       THEN error' = [error EXCEPT ![pipe] = "taken"] /\ state' = "IDLE"
       ELSE UNCHANGED <<error, state>>
    /\ out' = "push"
    /\ UNCHANGED <<ctl, then, starts, encoderVars, frameVars, pipe, ended, file, stampVars, coded,
                   pushVars, fault>>

\* A pipeline that has failed, or was sent its end of stream, takes no more buffers.
PushBuffer ==
    /\ out = "push"
    /\ first' = FALSE
    /\ base' = IF first THEN coded ELSE base
    /\ file' = IF pipe # 0 /\ error[pipe] = "none" /\ ended[pipe] = "no"
               THEN [file EXCEPT ![pipe] = Append(@, [frame |-> coded, base |-> base'])]
               ELSE file
    /\ out' = "idle" /\ coded' = 0
    /\ UNCHANGED <<apiVars, encoderVars, frameVars, pipe, error, ended, pushVars, fault>>

-----------------------------------------------------------------------------
(* What goes wrong by itself                                               *)

PipelineError ==
    /\ "error" \in Faults
    /\ pipe # 0
    /\ error[pipe] = "none"
    /\ error' = [error EXCEPT ![pipe] = "posted"]
    /\ UNCHANGED <<apiVars, encoderVars, frameVars, pipe, ended, file, stampVars, outVars, pushVars,
                   fault>>

EncoderBreaks ==
    /\ "breaks" \in Faults
    /\ \E s \in {encoder, dying} \ {0} : s \notin broken /\ broken' = broken \cup {s}
    /\ UNCHANGED <<apiVars, encoder, dying, wired, frameVars, pipeVars, stampVars, outVars,
                   pushVars, fault>>

-----------------------------------------------------------------------------
Starting == StartRefused \/ Start \/ EncoderFails \/ Build \/ BuildFails \/ Publish
Stopping == Close \/ Drain \/ EndOfStream \/ Await \/ Members
Control  == Starting \/ Stopping
Callback == PollBus \/ PushBuffer \/ \E s \in Sessions : Deliver(s)

Next ==
    \/ CallStart \/ \E next \in {"idle", "start", "members"} : Stop(next)
    \/ Control
    \/ PushFrame \/ Encode
    \/ Callback
    \/ PipelineError \/ EncoderBreaks

Spec == Init /\ [][fault = "none" /\ Next]_vars

-----------------------------------------------------------------------------
Written(s) == [i \in 1..Len(file[s]) |-> file[s][i].frame]

\* The recording follows one that an error of its pipeline has ended, which leaves the
\* old encoder in hw_encoder_ for start() to replace.
AfterError(s) == s > 1 /\ error[s - 1] = "taken"

\* What is in a file are frames of that recording, without a gap from its first one on,
\* all their times count from one frame, and, if no error has ended the recording before
\* it, from that first one.
FilesInOrder ==
    \A s \in Sessions :
        /\ Len(file[s]) <= Len(accepted[s])
        /\ Written(s) = SubSeq(accepted[s], 1, Len(file[s]))
        /\ \A i \in 1..Len(file[s]) : file[s][i].base = file[s][1].base
        /\ file[s] # <<>> /\ ~AfterError(s) => file[s][1].base = accepted[s][1]

\* Times are relative to the first encoded frame (recorder.cpp), in every recording.  The
\* code breaks this after an error: the old encoder's last frames reach the callback when
\* start() has reset the time already.
TimesFromFirst ==
    \A s \in Sessions : file[s] # <<>> => file[s][1].base = file[s][1].frame

\* A file that ended with an end of stream has every frame push_frame() was told is
\* accepted, unless the encoder has lost its poll thread: stop() drains the encoder
\* before it ends the stream.
StoppedComplete ==
    \A s \in Sessions : ended[s] = "final" /\ s \notin broken => Written(s) = accepted[s]

\* start(), stop(), restart() and the destructor return, also from a pipeline in error,
\* unless push_frame() has met an encoder that is being replaced.
CallsReturn == ctl \notin {"idle", "gone"} ~> ctl \in {"idle", "gone"} \/ fault # "none"
=============================================================================
