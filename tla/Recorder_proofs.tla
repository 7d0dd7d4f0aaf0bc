--------------------------- MODULE Recorder_proofs ---------------------------
(***************************************************************************)
(* Proofs about Recorder, for any number of recordings and of frames and   *)
(* any faults: what is in a file is that recording's frames, in order and  *)
(* timed from one of them, and all of them if it ended with its stream.    *)
(***************************************************************************)
EXTENDS Recorder, SequenceTheorems, TLAPS

USE DEF Sessions, Pushes, apiVars, encoderVars, frameVars, pipeVars, stampVars,
        outVars, pushVars

-----------------------------------------------------------------------------
(* The invariant                                                           *)

\* TypeOK, in parts.
BoundsOK == MaxStarts \in Nat /\ MaxFrames \in Nat
FlagsOK  == wired \in BOOLEAN /\ first \in BOOLEAN
LabelsOK ==
    /\ state \in {"IDLE", "RECORDING", "STOPPING"}
    /\ ctl \in {"idle", "start", "replace", "build", "publish", "close", "drain", "eos", "await",
                "members", "drain_members", "gone"}
    /\ then \in {"idle", "start", "members"}
    /\ pusher \in {"idle", "encode"} /\ out \in {"idle", "poll", "push"}
    /\ fault \in {"none", "no_encoder", "no_callback"}
NumbersOK ==
    /\ starts \in 0..MaxStarts
    /\ encoder \in 0..MaxStarts /\ dying \in 0..MaxStarts /\ pipe \in 0..MaxStarts
CountsOK == frames \in 0..MaxFrames /\ base \in 0..MaxFrames /\ coded \in 0..MaxFrames
RecordsOK ==
    /\ broken \subseteq Sessions
    /\ error \in [Sessions -> {"none", "posted", "taken"}]
    /\ ended \in [Sessions -> {"no", "eos", "final", "cut"}]
QueuesOK == accepted \in [Sessions -> Seq(Pushes)] /\ inside \in [Sessions -> Seq(Pushes)]
Entries  == [frame : Pushes, base : 0..MaxFrames]
FilesOK  == file \in [Sessions -> Seq(Entries)]
PartsOK ==
    BoundsOK /\ FlagsOK /\ LabelsOK /\ NumbersOK /\ CountsOK /\ RecordsOK /\ QueuesOK /\ FilesOK

\* start() is making a recorder's next encoder.
Making == ctl \in {"replace", "build", "publish"}
Resting == ctl \in {"idle", "start", "members"}

\* The encoder whose output thread may be inside the callback.
Source == IF dying # 0 THEN dying ELSE encoder

\* start() runs only while there is a number for the encoder it makes.
RoomInv ==
    /\ ctl = "start" => starts < MaxStarts
    /\ ctl \in {"close", "drain", "eos", "await"} /\ then = "start" => starts < MaxStarts

\* Which encoder and pipeline there are at each label of the control thread.  An encoder
\* left behind by an error has its pipeline still.
LifeInv ==
    /\ dying # 0 => ctl \in {"replace", "drain", "drain_members"}
    /\ state = "RECORDING" => ctl \in {"idle", "start"} /\ encoder # 0
    /\ state = "STOPPING" => ctl \in {"close", "drain", "eos", "await"}
    /\ Resting /\ encoder # 0 =>
          encoder = starts /\ pipe = encoder /\ wired /\ (state = "RECORDING" \/ error[pipe] = "taken")
    /\ Resting /\ encoder = 0 => pipe = 0
    /\ Making => encoder = starts /\ starts > 0 /\ ~wired
    /\ ctl \in {"replace", "build"} /\ pipe # 0 => pipe = starts - 1 /\ error[pipe] = "taken"
    /\ ctl = "replace" => dying = pipe
    /\ ctl = "publish" => pipe = encoder
    /\ ctl = "close" => encoder = starts /\ encoder # 0 /\ pipe = encoder /\ wired
    /\ ctl \in {"drain", "eos", "await", "drain_members", "gone"} => encoder = 0
    /\ ctl = "drain" => dying = pipe
    /\ ctl \in {"drain", "eos", "await"} => pipe # 0
    /\ ctl \in {"drain_members", "gone"} /\ pipe # 0 => error[pipe] = "taken"
    /\ ctl = "drain_members" => dying = pipe
    /\ pipe <= starts

\* The callback runs only while its encoder exists, and never for one being made.
CallbackInv ==
    /\ out # "idle" => Source # 0 /\ coded \in Pushes
    /\ ctl \in {"build", "publish", "eos", "await", "gone"} => out = "idle"
    /\ ctl = "replace" /\ dying = 0 => out = "idle"

\* Nothing has happened to a recording before its start() is over.
NewInv ==
    \A s \in Sessions :
        /\ s > starts \/ (s = starts /\ Making) =>
              accepted[s] = <<>> /\ inside[s] = <<>> /\ file[s] = <<>> /\ ended[s] = "no"
        /\ s > starts \/ (s = starts /\ ctl \in {"replace", "build"}) => error[s] = "none"

\* A file that is ended has no encoder any more.
EndedInv ==
    \A s \in Sessions : ended[s] # "no" =>
        s # encoder /\ s # dying /\ (s = pipe => ctl = "await" /\ ended[s] = "eos")

ControlInv == RoomInv /\ LifeInv /\ CallbackInv /\ NewInv /\ EndedInv

\* The frame that is inside the callback.
Flight(s) == IF out # "idle" /\ s = Source THEN 1 ELSE 0

\* Of the accepted frames, n are written, then k (none or one) is inside the callback, and
\* the rest is queued.
Accounted(frs, queue, n, k, c) ==
    /\ Len(frs) = n + k + Len(queue)
    /\ k = 1 => frs[n + 1] = c
    /\ \A i \in 1..Len(queue) : queue[i] = frs[n + k + i]

\* What session s has accepted is in its file, inside the callback or in its encoder.
Whole(s) == Accounted(accepted[s], inside[s], Len(file[s]), Flight(s), coded)

\* A file has the first of the accepted frames.
Prefix(s) ==
    /\ Len(file[s]) <= Len(accepted[s])
    /\ \A i \in 1..Len(file[s]) : file[s][i].frame = accepted[s][i]

PrefixInv == \A s \in Sessions : Prefix(s)

\* Nothing is lost on the way into a pipeline that has no error...
WholeInv == \A s \in {encoder, dying} \ {0} : error[s] = "none" => Whole(s)

\* ...so the file has everything when the stream is ended.
DrainedInv ==
    /\ ctl \in {"eos", "await"} /\ error[pipe] = "none" /\ pipe \notin broken =>
          Len(file[pipe]) = Len(accepted[pipe])
    /\ \A s \in Sessions : ended[s] = "final" /\ s \notin broken =>
          Len(file[s]) = Len(accepted[s])

LogInv == PrefixInv /\ WholeInv /\ DrainedInv

\* The highest number a frame that has been accepted may have.
Newest == IF pusher = "encode" THEN frames - 1 ELSE frames

NumberInv ==
    /\ Newest >= 0
    /\ \A s \in Sessions : /\ \A i \in 1..Len(accepted[s]) : accepted[s][i] <= Newest
                           /\ \A i \in 1..Len(inside[s]) : inside[s][i] <= Newest
    /\ coded <= Newest /\ base <= Newest

Timed(s) ==
    /\ \A i \in 1..Len(file[s]) : file[s][i].base = file[s][1].base
    /\ Len(file[s]) > 0 => \/ file[s][1].base = accepted[s][1]
                           \/ file[s][1].base < accepted[s][1] /\ AfterError(s)

TimedInv == \A s \in Sessions : Timed(s)

\* Pipeline s has no error and was not sent its end of stream.
Taking(s) == s # 0 /\ error[s] = "none" /\ ended[s] = "no"

\* While a pipeline takes buffers, base_ts_us_ is the base of its first one; before that
\* it may be of an older frame, of the encoder an error had left behind.
BaseInv ==
    /\ Taking(pipe) /\ Len(file[pipe]) > 0 => ~first /\ base = file[pipe][1].base
    /\ Taking(pipe) /\ Len(file[pipe]) = 0 /\ ~first =>
          AfterError(pipe) /\ \A i \in 1..Len(accepted[pipe]) : base < accepted[pipe][i]
    /\ ctl \in {"replace", "build"} /\ ~first => AfterError(starts)

StampInv == TimedInv /\ BaseInv

RecorderInv == PartsOK /\ ControlInv /\ LogInv /\ NumberInv /\ StampInv

-----------------------------------------------------------------------------
(* Types                                                                   *)

LEMMA TypeOfParts == PartsOK => TypeOK
BY DEF PartsOK, FlagsOK, LabelsOK, NumbersOK, CountsOK, RecordsOK, QueuesOK, FilesOK, Entries, TypeOK

LEMMA InitParts == BoundsOK /\ Init => PartsOK
<1>. SUFFICES ASSUME BoundsOK, Init PROVE PartsOK
  OBVIOUS
<1>1. FlagsOK
  BY DEF Init, FlagsOK
<1>2. LabelsOK /\ NumbersOK /\ CountsOK /\ RecordsOK
  BY DEF Init, LabelsOK, NumbersOK, CountsOK, RecordsOK, BoundsOK
<1>3. QueuesOK /\ FilesOK
  <2>1. <<>> \in Seq(Pushes) /\ <<>> \in Seq(Entries)
    BY EmptySeq
  <2>. QED BY <2>1 DEF Init, QueuesOK, FilesOK
<1>. QED BY <1>1, <1>2, <1>3 DEF PartsOK

\* The control thread's steps.
LEMMA ControlParts ==
  ASSUME PartsOK, RoomInv, LifeInv,
         CallStart \/ (\E next \in {"idle", "start", "members"} : Stop(next)) \/ Control
  PROVE  PartsOK'
<1>. USE DEF Control, Starting, Stopping
<1>1. FlagsOK'
  BY DEF PartsOK, FlagsOK, CallStart, Stop, StartRefused, Start, EncoderFails, Build, BuildFails,
         Publish, Close, Drain, EndOfStream, Await, Members
<1>2. LabelsOK'
  BY DEF PartsOK, LabelsOK, CallStart, Stop, StartRefused, Start, EncoderFails, Build, BuildFails,
         Publish, Close, Drain, AfterDrain, EndOfStream, Await, Members
<1>3. starts' = starts \/ (starts' = starts + 1 /\ starts < MaxStarts)
  BY DEF CallStart, Stop, StartRefused, Start, EncoderFails, Build, BuildFails, Publish, Close,
         Drain, EndOfStream, Await, Members, RoomInv
<1>9. encoder' = encoder \/ encoder' = starts' \/ encoder' = 0
  BY DEF CallStart, Stop, StartRefused, Start, EncoderFails, Build, BuildFails, Publish, Close,
         Drain, EndOfStream, Await, Members
<1>10. dying' = dying \/ dying' = encoder \/ dying' = 0
  BY DEF CallStart, Stop, StartRefused, Start, EncoderFails, Build, BuildFails, Publish, Close,
         Drain, EndOfStream, Await, Members
<1>11. pipe' = pipe \/ pipe' = encoder \/ pipe' = 0
  BY DEF CallStart, Stop, StartRefused, Start, EncoderFails, Build, BuildFails, Publish, Close,
         Drain, EndOfStream, Await, Members
<1>4. /\ frames' = frames /\ base' \in {base, 0} /\ coded' = coded
      /\ broken' = broken /\ error' = error /\ accepted' = accepted /\ file' = file
  <2>1. CASE Starting \/ CallStart \/ \E next \in {"idle", "start", "members"} : Stop(next)
    BY <2>1 DEF CallStart, Stop, StartRefused, Start, EncoderFails, Build, BuildFails, Publish
  <2>2. CASE Stopping
    BY <2>2 DEF Close, Drain, EndOfStream, Await, Members
  <2>. QED BY <2>1, <2>2
<1>8. inside' = inside \/ inside' = [s \in Sessions |-> IF s = dying THEN <<>> ELSE inside[s]]
  BY DEF CallStart, Stop, StartRefused, Start, EncoderFails, Build, BuildFails, Publish, Close,
         Drain, EndOfStream, Await, Members
<1>5. NumbersOK'
  BY <1>3, <1>9, <1>10, <1>11 DEF PartsOK, BoundsOK, NumbersOK
<1>6. CountsOK' /\ RecordsOK'
  <2>1. CASE ended' = ended
    BY <1>4, <2>1 DEF PartsOK, BoundsOK, CountsOK, RecordsOK
  <2>2. CASE EndOfStream \/ Await
    <3>1. PICK end \in {"eos", "final", "cut"} : ended' = [ended EXCEPT ![pipe] = end]
      BY <2>2 DEF EndOfStream, Await
    <3>2. ended' \in [Sessions -> {"no", "eos", "final", "cut"}]
      BY <3>1 DEF PartsOK, RecordsOK
    <3>. QED BY <1>4, <3>2 DEF PartsOK, BoundsOK, CountsOK, RecordsOK
  <2>. QED
    BY <2>1, <2>2 DEF CallStart, Stop, StartRefused, Start, EncoderFails, Build, BuildFails,
                      Publish, Close, Drain, Members
<1>7. QueuesOK' /\ FilesOK'
  <2>1. <<>> \in Seq(Pushes)
    BY EmptySeq
  <2>. QED BY <1>4, <1>8, <2>1 DEF PartsOK, QueuesOK, FilesOK
<1>. QED BY <1>1, <1>2, <1>5, <1>6, <1>7 DEF PartsOK, BoundsOK

\* push_frame(), the callback and the faults.
LEMMA FrameParts ==
  ASSUME PartsOK, CallbackInv, NumberInv,
         PushFrame \/ Encode \/ Callback \/ PipelineError \/ EncoderBreaks \/ UNCHANGED vars
  PROVE  PartsOK'
<1>. USE DEF Callback
<1>1. FlagsOK'
  BY DEF PartsOK, FlagsOK, PushFrame, Encode, PollBus, PushBuffer, Deliver, PipelineError,
         EncoderBreaks, vars
<1>2. LabelsOK'
  BY DEF PartsOK, LabelsOK, PushFrame, Encode, PollBus, PushBuffer, Deliver, PipelineError,
         EncoderBreaks, vars
<1>3. NumbersOK'
  BY DEF PartsOK, NumbersOK, BoundsOK, PushFrame, Encode, PollBus, PushBuffer, Deliver,
         PipelineError, EncoderBreaks, vars
<1>4. RecordsOK'
  <2>1. broken' = broken \/ \E s \in {encoder, dying} \ {0} : broken' = broken \cup {s}
    BY DEF PushFrame, Encode, PollBus, PushBuffer, Deliver, PipelineError, EncoderBreaks, vars
  <2>2. ended' = ended /\ (error' = error \/ \E e \in {"posted", "taken"} : error' = [error EXCEPT ![pipe] = e])
    BY DEF PushFrame, Encode, PollBus, PushBuffer, Deliver, PipelineError, EncoderBreaks, vars
  <2>3. broken' \subseteq Sessions
    <3>1. encoder \in 0..MaxStarts /\ dying \in 0..MaxStarts /\ broken \subseteq 1..MaxStarts
      BY DEF PartsOK, RecordsOK, NumbersOK
    <3>2. \A s \in {encoder, dying} \ {0} : s \in 1..MaxStarts
      BY <3>1 DEF PartsOK, BoundsOK
    <3>. QED BY <2>1, <3>1, <3>2
  <2>. QED BY <2>2, <2>3 DEF PartsOK, RecordsOK
<1>5. QueuesOK'
  <2>1. CASE Encode
    <3>1. frames \in Pushes
      BY <2>1 DEF Encode, NumberInv, Newest, PartsOK, CountsOK, BoundsOK
    <3>2. \A s \in Sessions : /\ Append(accepted[s], frames) \in Seq(Pushes)
                              /\ Append(inside[s], frames) \in Seq(Pushes)
      BY <3>1, AppendProperties DEF PartsOK, QueuesOK
    <3>3. accepted' = accepted \/ accepted' = [accepted EXCEPT ![encoder] = Append(accepted[encoder], frames)]
      BY <2>1 DEF Encode
    <3>4. inside' = inside \/ inside' = [inside EXCEPT ![encoder] = Append(inside[encoder], frames)]
      BY <2>1 DEF Encode
    <3>. QED BY <3>2, <3>3, <3>4 DEF PartsOK, QueuesOK
  <2>2. ASSUME NEW s \in Sessions, Deliver(s) PROVE QueuesOK'
    <3>1. Tail(inside[s]) \in Seq(Pushes)
      BY <2>2, HeadTailProperties DEF Deliver, PartsOK, QueuesOK
    <3>2. accepted' = accepted /\ inside' = [inside EXCEPT ![s] = Tail(inside[s])]
      BY <2>2 DEF Deliver
    <3>. QED BY <3>1, <3>2 DEF PartsOK, QueuesOK
  <2>3. CASE accepted' = accepted /\ inside' = inside
    BY <2>3 DEF PartsOK, QueuesOK
  <2>. QED
    BY <2>1, <2>2, <2>3 DEF PushFrame, PollBus, PushBuffer, PipelineError, EncoderBreaks, vars
<1>6. CountsOK'
  <2>1. CASE PushBuffer
    BY <2>1 DEF PushBuffer, PartsOK, CountsOK, BoundsOK
  <2>2. ASSUME NEW s \in Sessions, Deliver(s) PROVE CountsOK'
    <3>1. Head(inside[s]) \in Pushes
      BY <2>2, HeadTailProperties DEF Deliver, PartsOK, QueuesOK
    <3>2. frames' = frames /\ base' = base /\ coded' = Head(inside[s])
      BY <2>2 DEF Deliver
    <3>. QED BY <3>1, <3>2 DEF PartsOK, CountsOK, BoundsOK
  <2>3. CASE base' = base /\ coded' = coded /\ (frames' = frames \/ (frames < MaxFrames /\ frames' = frames + 1))
    BY <2>3 DEF PartsOK, CountsOK, BoundsOK
  <2>4. CASE PushFrame
    BY <2>3, <2>4 DEF PushFrame
  <2>5. CASE Encode \/ PollBus \/ PipelineError \/ EncoderBreaks \/ UNCHANGED vars
    <3>1. frames' = frames /\ base' = base /\ coded' = coded
      BY <2>5 DEF Encode, PollBus, PipelineError, EncoderBreaks, vars
    <3>. QED BY <3>1 DEF PartsOK, CountsOK, BoundsOK
  <2>. QED BY <2>1, <2>2, <2>4, <2>5
<1>7. FilesOK'
  <2>1. CASE file' = file
    BY <2>1 DEF PartsOK, FilesOK
  <2>2. CASE PushBuffer
    <3>. DEFINE entry == [frame |-> coded, base |-> base']
    <3>1. coded \in Pushes /\ base' \in 0..MaxFrames
      BY <2>2, <1>6 DEF PushBuffer, CallbackInv, CountsOK
    <3>2. entry \in Entries
      BY <3>1 DEF Entries
    <3>. HIDE DEF entry
    <3>3. \A s \in Sessions : Append(file[s], entry) \in Seq(Entries)
      BY <3>2, AppendProperties DEF PartsOK, FilesOK
    <3>4. file' = file \/ file' = [file EXCEPT ![pipe] = Append(file[pipe], entry)]
      BY <2>2 DEF PushBuffer, entry
    <3>. QED BY <3>3, <3>4 DEF PartsOK, FilesOK
  <2>. QED
    BY <2>1, <2>2 DEF PushFrame, Encode, PollBus, Deliver, PipelineError, EncoderBreaks, vars
<1>. QED BY <1>1, <1>2, <1>3, <1>4, <1>5, <1>6, <1>7 DEF PartsOK, BoundsOK

-----------------------------------------------------------------------------
(* The control thread                                                      *)

LEMMA RoomStep ==
  ASSUME PartsOK, RoomInv, Next \/ UNCHANGED vars
  PROVE  RoomInv'
<1>1. CASE CallStart
  BY <1>1 DEF CallStart, RoomInv
<1>2. ASSUME NEW next \in {"idle", "start", "members"}, Stop(next) PROVE RoomInv'
  BY <1>2 DEF Stop, RoomInv
<1>3. CASE Starting
  BY <1>3 DEF Starting, StartRefused, Start, EncoderFails, Build, BuildFails, Publish, RoomInv
<1>4. CASE Close \/ EndOfStream \/ Members
  BY <1>4 DEF Close, EndOfStream, Members, RoomInv
<1>5. CASE Drain
  BY <1>5 DEF Drain, AfterDrain, RoomInv
<1>6. CASE Await
  BY <1>6 DEF Await, RoomInv
<1>7. CASE ctl' = ctl /\ starts' = starts /\ then' = then
  BY <1>7 DEF RoomInv
<1>. QED
  BY <1>1, <1>2, <1>3, <1>4, <1>5, <1>6, <1>7
  DEF Next, Control, Stopping, Callback, PushFrame, Encode, PollBus, PushBuffer, Deliver,
      PipelineError, EncoderBreaks, vars

LEMMA LifeStep ==
  ASSUME PartsOK, LifeInv, CallbackInv, Next \/ UNCHANGED vars
  PROVE  LifeInv'
<1>. USE DEF LifeInv, Making, Resting
<1>1. CASE CallStart \/ StartRefused \/ EncoderFails
  BY <1>1 DEF CallStart, StartRefused, EncoderFails
<1>2. ASSUME NEW next \in {"idle", "start", "members"}, Stop(next) PROVE LifeInv'
  BY <1>2 DEF Stop
<1>3. CASE Start
  <2>1. starts \in Nat /\ pipe \in Nat /\ encoder \in Nat
    BY DEF PartsOK, NumbersOK, BoundsOK
  <2>2. encoder = pipe /\ (pipe # 0 => pipe = starts /\ error[pipe] = "taken")
    BY <1>3 DEF Start
  <2>. QED BY <1>3, <2>1, <2>2 DEF Start
<1>4. CASE Build \/ BuildFails \/ Publish
  BY <1>4 DEF Build, BuildFails, Publish, PartsOK, NumbersOK, BoundsOK
<1>5. CASE Close
  BY <1>5 DEF Close
<1>6. CASE Drain
  BY <1>6 DEF Drain, AfterDrain
<1>7. CASE EndOfStream
  BY <1>7 DEF EndOfStream
<1>8. CASE Await
  BY <1>8 DEF Await, PartsOK, LabelsOK, NumbersOK, BoundsOK
<1>9. CASE Members
  BY <1>9 DEF Members
<1>10. CASE PollBus
  <2>1. CASE ~(pipe # 0 /\ error[pipe] = "posted")
    BY <1>10, <2>1 DEF PollBus
  <2>2. CASE pipe # 0 /\ error[pipe] = "posted"
    <3>1. pipe \in Sessions /\ error'[pipe] = "taken"
      BY <1>10, <2>2 DEF PollBus, PartsOK, NumbersOK, RecordsOK, BoundsOK
    <3>. QED BY <1>10, <2>2, <3>1 DEF PollBus, CallbackInv
  <2>. QED BY <2>1, <2>2
<1>11. CASE PipelineError
  BY <1>11 DEF PipelineError
<1>12. CASE /\ ctl' = ctl /\ state' = state /\ encoder' = encoder /\ dying' = dying
            /\ pipe' = pipe /\ starts' = starts /\ wired' = wired /\ error' = error
  BY <1>12
<1>. QED
  BY <1>1, <1>2, <1>3, <1>4, <1>5, <1>6, <1>7, <1>8, <1>9, <1>10, <1>11, <1>12
  DEF Next, Control, Starting, Stopping, Callback, PushFrame, Encode, PushBuffer, Deliver,
      EncoderBreaks, vars

LEMMA CallbackStep ==
  ASSUME PartsOK, LifeInv, CallbackInv, NewInv, Next \/ UNCHANGED vars
  PROVE  CallbackInv'
<1>. USE DEF CallbackInv, Source
<1>1. CASE CallStart \/ StartRefused \/ EncoderFails
  BY <1>1 DEF CallStart, StartRefused, EncoderFails
<1>2. ASSUME NEW next \in {"idle", "start", "members"}, Stop(next) PROVE CallbackInv'
  BY <1>2 DEF Stop
<1>3. CASE Start
  BY <1>3 DEF Start, LifeInv, Making, PartsOK, NumbersOK, BoundsOK
<1>4. CASE Build \/ BuildFails \/ Publish
  BY <1>4 DEF Build, BuildFails, Publish
<1>5. CASE Close \/ Members
  BY <1>5 DEF Close, Members, LifeInv
<1>6. CASE Drain
  BY <1>6 DEF Drain, AfterDrain
<1>7. CASE EndOfStream \/ Await
  BY <1>7 DEF EndOfStream, Await, PartsOK, LabelsOK
<1>8. ASSUME NEW s \in Sessions, Deliver(s) PROVE CallbackInv'
  <2>1. Source # 0 /\ Source' = Source
    BY <1>8 DEF Deliver
  <2>2. coded' \in Pushes
    <3>1. Head(inside[s]) \in Pushes
      BY <1>8, HeadTailProperties DEF Deliver, PartsOK, QueuesOK
    <3>. QED BY <1>8, <3>1 DEF Deliver
  <2>3. dying # 0 \/ ctl \notin {"replace", "build", "publish", "eos", "await", "gone"}
    <3>1. CASE encoder = s
      BY <1>8, <3>1 DEF Deliver, LifeInv, NewInv, Making
    <3>2. CASE dying = s
      BY <3>2
    <3>. QED BY <1>8, <3>1, <3>2 DEF Deliver
  <2>4. ctl \notin {"build", "publish", "eos", "await", "gone"}
    BY <2>3 DEF LifeInv
  <2>5. ctl' = ctl /\ dying' = dying
    BY <1>8 DEF Deliver
  <2>. QED BY <2>1, <2>2, <2>3, <2>4, <2>5
<1>9. CASE PollBus \/ PushBuffer
  BY <1>9 DEF PollBus, PushBuffer
<1>10. CASE ctl' = ctl /\ encoder' = encoder /\ dying' = dying /\ out' = out /\ coded' = coded
  BY <1>10
<1>. QED
  BY <1>1, <1>2, <1>3, <1>4, <1>5, <1>6, <1>7, <1>8, <1>9, <1>10
  DEF Next, Control, Starting, Stopping, Callback, PushFrame, Encode, PipelineError,
      EncoderBreaks, vars

LEMMA NewStep ==
  ASSUME PartsOK, LifeInv, CallbackInv, NewInv, Next \/ UNCHANGED vars
  PROVE  NewInv'
<1>. USE DEF Making
<1>0. starts \in Nat /\ encoder \in Nat /\ pipe \in Nat /\ pipe <= starts
  BY DEF PartsOK, NumbersOK, BoundsOK, LifeInv
<1>1. CASE CallStart \/ StartRefused \/ EncoderFails
  BY <1>1 DEF CallStart, StartRefused, EncoderFails, NewInv
<1>2. ASSUME NEW next \in {"idle", "start", "members"}, Stop(next) PROVE NewInv'
  BY <1>2 DEF Stop, NewInv
<1>3. CASE Start
  BY <1>0, <1>3 DEF Start, NewInv
<1>4. CASE Build \/ BuildFails \/ Publish
  BY <1>4 DEF Build, BuildFails, Publish, NewInv
<1>5. CASE Close \/ Members
  BY <1>5 DEF Close, Members, NewInv
<1>6. CASE Drain
  BY <1>6 DEF Drain, AfterDrain, NewInv
<1>7. CASE EndOfStream \/ Await
  <2>1. PICK end \in {"eos", "final", "cut"} : ended' = [ended EXCEPT ![pipe] = end]
    BY <1>7 DEF EndOfStream, Await
  <2>2. \A s \in Sessions : s # pipe => ended'[s] = ended[s]
    BY <2>1 DEF PartsOK, RecordsOK
  <2>3. ~Making /\ ~Making'
    BY <1>7 DEF EndOfStream, Await, PartsOK, LabelsOK
  <2>. QED BY <1>0, <1>7, <2>2, <2>3 DEF EndOfStream, Await, NewInv
<1>8. ASSUME NEW s \in Sessions, Deliver(s) PROVE NewInv'
  <2>1. s <= starts /\ (Making => s # starts)
    BY <1>0, <1>8 DEF Deliver, NewInv
  <2>2. \A r \in Sessions : r # s => inside'[r] = inside[r]
    BY <1>8 DEF Deliver, PartsOK, QueuesOK
  <2>. QED BY <1>0, <1>8, <2>1, <2>2 DEF Deliver, NewInv
<1>9. CASE PollBus \/ PipelineError
  <2>1. error' = error \/ (pipe # 0 /\ error[pipe] # "taken" /\ \E e \in {"posted", "taken"} : error' = [error EXCEPT ![pipe] = e])
    BY <1>9 DEF PollBus, PipelineError
  <2>2. \A s \in Sessions : s # pipe => error'[s] = error[s]
    BY <2>1 DEF PartsOK, RecordsOK
  <2>3. error' = error \/ ctl \notin {"replace", "build"}
    BY <2>1 DEF LifeInv
  <2>. QED BY <1>0, <1>9, <2>2, <2>3 DEF PollBus, PipelineError, NewInv
<1>10. CASE PushBuffer
  <2>1. file' = file \/ (pipe # 0 /\ error[pipe] = "none" /\ \E x : file' = [file EXCEPT ![pipe] = x])
    BY <1>10 DEF PushBuffer
  <2>2. \A s \in Sessions : s # pipe => file'[s] = file[s]
    BY <2>1 DEF PartsOK, FilesOK
  <2>3. file' = file \/ ~Making
    BY <1>10, <2>1 DEF PushBuffer, LifeInv, CallbackInv
  <2>. QED BY <1>0, <1>10, <2>2, <2>3 DEF PushBuffer, NewInv
<1>11. CASE Encode
  <2>1. \/ accepted' = accepted /\ inside' = inside
        \/ /\ encoder # 0 /\ wired
           /\ \E x, y : /\ accepted' = [accepted EXCEPT ![encoder] = x]
                        /\ inside' = [inside EXCEPT ![encoder] = y]
    BY <1>11 DEF Encode
  <2>2. \A s \in Sessions : s # encoder => accepted'[s] = accepted[s] /\ inside'[s] = inside[s]
    BY <2>1 DEF PartsOK, QueuesOK
  <2>3. (accepted' = accepted /\ inside' = inside) \/ (encoder = starts /\ ~Making)
    BY <2>1 DEF LifeInv, Resting, PartsOK, LabelsOK
  <2>. QED BY <1>0, <1>11, <2>2, <2>3 DEF Encode, NewInv
<1>12. CASE /\ ctl' = ctl /\ starts' = starts /\ accepted' = accepted /\ inside' = inside
            /\ file' = file /\ ended' = ended /\ error' = error
  BY <1>12 DEF NewInv
<1>. QED
  BY <1>1, <1>2, <1>3, <1>4, <1>5, <1>6, <1>7, <1>8, <1>9, <1>10, <1>11, <1>12
  DEF Next, Control, Starting, Stopping, Callback, PushFrame, EncoderBreaks, vars

LEMMA EndedStep ==
  ASSUME PartsOK, LifeInv, NewInv, EndedInv, Next \/ UNCHANGED vars
  PROVE  EndedInv'
<1>. USE DEF EndedInv
<1>1. CASE CallStart \/ StartRefused \/ EncoderFails \/ Publish
  BY <1>1 DEF CallStart, StartRefused, EncoderFails, Publish
<1>2. ASSUME NEW next \in {"idle", "start", "members"}, Stop(next) PROVE EndedInv'
  BY <1>2 DEF Stop
<1>3. CASE Start
  <2>1. starts \in Nat
    BY DEF PartsOK, NumbersOK, BoundsOK
  <2>. QED BY <1>3, <2>1 DEF Start, NewInv
<1>4. CASE Build \/ BuildFails
  BY <1>4 DEF Build, BuildFails, LifeInv, Making
<1>5. CASE Close \/ Members
  BY <1>5 DEF Close, Members
<1>6. CASE Drain
  BY <1>6 DEF Drain, AfterDrain
<1>7. CASE EndOfStream
  <2>1. \A s \in Sessions : ended'[s] = IF s = pipe THEN "eos" ELSE ended[s]
    BY <1>7 DEF EndOfStream, PartsOK, RecordsOK
  <2>2. encoder = 0 /\ dying = 0
    BY <1>7 DEF EndOfStream, LifeInv
  <2>. QED BY <1>7, <2>1, <2>2 DEF EndOfStream
<1>8. CASE Await
  <2>1. \A s \in Sessions : s # pipe => ended'[s] = ended[s]
    BY <1>8 DEF Await, PartsOK, RecordsOK
  <2>2. encoder = 0 /\ dying = 0
    BY <1>8 DEF Await, LifeInv
  <2>. QED BY <1>8, <2>1, <2>2 DEF Await
<1>9. CASE /\ ctl' = ctl /\ encoder' = encoder /\ dying' = dying /\ pipe' = pipe
           /\ ended' = ended
  BY <1>9
<1>. QED
  BY <1>1, <1>2, <1>3, <1>4, <1>5, <1>6, <1>7, <1>8, <1>9
  DEF Next, Control, Starting, Stopping, Callback, PushFrame, Encode, PollBus, PushBuffer, Deliver,
      PipelineError, EncoderBreaks, vars

-----------------------------------------------------------------------------
(* What the steps do to the sequences                                      *)

\* Sequence q is r with x after it.
Extends(q, r, x) ==
    Len(q) = Len(r) + 1 /\ q[Len(r) + 1] = x /\ \A i \in 1..Len(r) : q[i] = r[i]

LEMMA ExtendsAt ==
  ASSUME NEW q, NEW r, NEW x, Len(r) \in Nat, Extends(q, r, x), NEW i \in 1..Len(q)
  PROVE  (i \in 1..Len(r) /\ q[i] = r[i]) \/ (i = Len(r) + 1 /\ q[i] = x)
BY DEF Extends

LEMMA Lengths ==
  ASSUME PartsOK
  PROVE  \A s \in Sessions : /\ Len(accepted[s]) \in Nat /\ Len(inside[s]) \in Nat /\ Len(file[s]) \in Nat
                             /\ \A i \in 1..Len(accepted[s]) : accepted[s][i] \in Nat
                             /\ \A i \in 1..Len(inside[s]) : inside[s][i] \in Nat
<1>. TAKE s \in Sessions
<1>1. accepted[s] \in Seq(Pushes) /\ inside[s] \in Seq(Pushes) /\ file[s] \in Seq(Entries)
  BY DEF PartsOK, QueuesOK, FilesOK
<1>. HIDE DEF Pushes, Entries
<1>2. Len(accepted[s]) \in Nat /\ accepted[s] \in [1..Len(accepted[s]) -> Pushes]
  BY <1>1, LenProperties
<1>3. Len(inside[s]) \in Nat /\ inside[s] \in [1..Len(inside[s]) -> Pushes]
  BY <1>1, LenProperties
<1>4. Len(file[s]) \in Nat
  BY <1>1, LenProperties
<1>5. Pushes \subseteq Nat
  BY DEF Pushes, PartsOK, BoundsOK
<1>. QED BY <1>2, <1>3, <1>4, <1>5

\* Only the encoder of the last start() accepts a frame, and only when it has its callbacks.
LEMMA EncodeEffect ==
  ASSUME PartsOK, LifeInv, NumberInv, Encode
  PROVE  \/ accepted' = accepted /\ inside' = inside
         \/ /\ encoder \in Sessions /\ encoder = starts /\ ~Making /\ ctl \notin {"eos", "await"}
            /\ \A s \in Sessions \ {encoder} : accepted'[s] = accepted[s] /\ inside'[s] = inside[s]
            /\ Extends(accepted'[encoder], accepted[encoder], frames)
            /\ Extends(inside'[encoder], inside[encoder], frames)
<1>. SUFFICES ASSUME ~(accepted' = accepted /\ inside' = inside)
              PROVE  /\ encoder \in Sessions /\ encoder = starts /\ ~Making /\ ctl \notin {"eos", "await"}
                     /\ \A s \in Sessions \ {encoder} : accepted'[s] = accepted[s] /\ inside'[s] = inside[s]
                     /\ Extends(accepted'[encoder], accepted[encoder], frames)
                     /\ Extends(inside'[encoder], inside[encoder], frames)
  OBVIOUS
<1>1. /\ encoder # 0 /\ wired
      /\ accepted' = [accepted EXCEPT ![encoder] = Append(accepted[encoder], frames)]
      /\ inside' = [inside EXCEPT ![encoder] = Append(inside[encoder], frames)]
  BY DEF Encode
<1>2. encoder \in Sessions /\ frames \in Pushes
  BY <1>1 DEF Encode, NumberInv, Newest, PartsOK, NumbersOK, CountsOK, BoundsOK
<1>3. encoder = starts /\ ~Making /\ ctl \notin {"eos", "await"}
  BY <1>1 DEF LifeInv, Making, Resting, PartsOK, LabelsOK
<1>4. \A s \in Sessions \ {encoder} : accepted'[s] = accepted[s] /\ inside'[s] = inside[s]
  BY <1>1 DEF PartsOK, QueuesOK
<1>5. /\ accepted'[encoder] = Append(accepted[encoder], frames)
      /\ inside'[encoder] = Append(inside[encoder], frames)
  BY <1>1, <1>2 DEF PartsOK, QueuesOK
<1>6. accepted[encoder] \in Seq(Pushes) /\ inside[encoder] \in Seq(Pushes)
  BY <1>2 DEF PartsOK, QueuesOK
<1>. HIDE DEF Pushes, Sessions
<1>7. Extends(accepted'[encoder], accepted[encoder], frames)
  BY <1>2, <1>5, <1>6, AppendProperties DEF Extends
<1>8. Extends(inside'[encoder], inside[encoder], frames)
  BY <1>2, <1>5, <1>6, AppendProperties DEF Extends
<1>. QED BY <1>2, <1>3, <1>4, <1>7, <1>8

\* The callback is entered with the oldest frame of the encoder that is there or dying.
LEMMA DeliverEffect ==
  ASSUME PartsOK, LifeInv, NewInv, NEW s \in Sessions, Deliver(s)
  PROVE  /\ s = Source /\ Source' = Source
         /\ \A r \in Sessions \ {s} : inside'[r] = inside[r]
         /\ 1 \in 1..Len(inside[s]) /\ coded' = inside[s][1]
         /\ Len(inside'[s]) = Len(inside[s]) - 1
         /\ \A i \in 1..Len(inside'[s]) : inside'[s][i] = inside[s][i + 1]
<1>1. s = Source /\ Source' = Source
  <2>1. CASE dying = 0
    BY <2>1 DEF Deliver, Source
  <2>2. CASE dying # 0 /\ s = encoder
    <3>1. Making /\ encoder = starts
      BY <2>2 DEF LifeInv, Making
    <3>. QED BY <2>2, <3>1 DEF Deliver, NewInv
  <2>3. CASE dying # 0 /\ s # encoder
    BY <2>3 DEF Deliver, Source
  <2>. QED BY <2>1, <2>2, <2>3
<1>2. inside[s] \in Seq(Pushes) /\ inside[s] # <<>> /\ inside' = [inside EXCEPT ![s] = Tail(inside[s])]
  BY DEF Deliver, PartsOK, QueuesOK
<1>3. inside'[s] = Tail(inside[s]) /\ \A r \in Sessions \ {s} : inside'[r] = inside[r]
  BY <1>2 DEF PartsOK, QueuesOK
<1>4. Len(inside[s]) \in Nat /\ Len(inside[s]) # 0 /\ coded' = inside[s][1]
  <2>1. coded' = Head(inside[s])
    BY DEF Deliver
  <2>. HIDE DEF Pushes
  <2>2. Len(inside[s]) \in Nat \ {0}
    BY <1>2, EmptySeq
  <2>. QED BY <1>2, <2>1, <2>2
<1>. HIDE DEF Pushes, Sessions
<1>5. Len(Tail(inside[s])) = Len(inside[s]) - 1
      /\ \A i \in 1..Len(Tail(inside[s])) : Tail(inside[s])[i] = inside[s][i + 1]
  BY <1>2, HeadTailProperties
<1>. QED BY <1>1, <1>3, <1>4, <1>5

\* A pipeline that has no error is the one of the encoder whose frame is inside the callback.
LEMMA SourceIsPipe ==
  ASSUME PartsOK, LifeInv, CallbackInv, out # "idle"
  PROVE  /\ Source \in Sessions
         /\ pipe # 0 /\ error[pipe] = "none" => pipe = Source
         /\ error[Source] = "none" => pipe = Source
<1>1. Source \in Sessions
  BY DEF CallbackInv, Source, PartsOK, NumbersOK, BoundsOK
<1>2. ctl \in {"idle", "start", "members", "close", "replace", "drain", "drain_members"}
  BY DEF CallbackInv, PartsOK, LabelsOK
<1>3. CASE dying = 0
  <2>1. encoder # 0 /\ Source = encoder
    BY <1>3 DEF CallbackInv, Source
  <2>2. Resting \/ ctl = "close"
    BY <1>2, <1>3, <2>1 DEF CallbackInv, LifeInv, Resting
  <2>3. pipe = encoder
    BY <2>1, <2>2 DEF LifeInv
  <2>. QED BY <1>1, <2>1, <2>3
<1>4. CASE dying # 0
  <2>1. Source = dying
    BY <1>4 DEF Source
  <2>2. ctl \in {"replace", "drain", "drain_members"}
    BY <1>4 DEF LifeInv
  <2>3. pipe = dying
    BY <2>2 DEF LifeInv
  <2>. QED BY <1>1, <2>1, <2>3
<1>. QED BY <1>3, <1>4

\* A pipeline takes the buffer, with the time it has, or drops it.
LEMMA PushEffect ==
  ASSUME PartsOK, CallbackInv, NumberInv, PushBuffer
  PROVE  \/ file' = file /\ ~(pipe # 0 /\ error[pipe] = "none" /\ ended[pipe] = "no")
         \/ /\ pipe \in Sessions /\ error[pipe] = "none" /\ ended[pipe] = "no"
            /\ \A s \in Sessions \ {pipe} : file'[s] = file[s]
            /\ \E e \in Entries : e.frame = coded /\ e.base = base' /\ Extends(file'[pipe], file[pipe], e)
<1>. DEFINE entry == [frame |-> coded, base |-> base']
<1>1. CASE ~(pipe # 0 /\ error[pipe] = "none" /\ ended[pipe] = "no")
  BY <1>1 DEF PushBuffer
<1>2. CASE pipe # 0 /\ error[pipe] = "none" /\ ended[pipe] = "no"
  <2>1. pipe \in Sessions /\ file' = [file EXCEPT ![pipe] = Append(file[pipe], entry)]
    BY <1>2 DEF PushBuffer, PartsOK, NumbersOK, BoundsOK
  <2>2. entry \in Entries /\ entry.frame = coded /\ entry.base = base'
    <3>1. coded \in Pushes /\ base' \in 0..MaxFrames
      BY DEF PushBuffer, CallbackInv, PartsOK, CountsOK, BoundsOK
    <3>. QED BY <3>1 DEF Entries
  <2>. HIDE DEF entry
  <2>3. file'[pipe] = Append(file[pipe], entry) /\ \A s \in Sessions \ {pipe} : file'[s] = file[s]
    BY <2>1 DEF PartsOK, FilesOK
  <2>4. file[pipe] \in Seq(Entries)
    BY <2>1 DEF PartsOK, FilesOK
  <2>5. Extends(file'[pipe], file[pipe], entry)
    BY <2>2, <2>3, <2>4, AppendProperties DEF Extends
  <2>. QED BY <1>2, <2>1, <2>2, <2>3, <2>5
<1>. QED BY <1>1, <1>2

-----------------------------------------------------------------------------
(* Numbers                                                                 *)

LEMMA NumberStep ==
  ASSUME PartsOK, PartsOK', LifeInv, CallbackInv, NewInv, NumberInv, Next \/ UNCHANGED vars
  PROVE  NumberInv'
<1>0. frames \in Nat /\ base \in Nat /\ coded \in Nat
  BY DEF PartsOK, CountsOK, BoundsOK
<1>1. CASE CallStart \/ (\E next \in {"idle", "start", "members"} : Stop(next)) \/ StartRefused
           \/ Start \/ EncoderFails \/ Build \/ BuildFails \/ Publish
           \/ Close \/ EndOfStream \/ Await \/ Members
  <2>1. /\ Newest' = Newest /\ accepted' = accepted /\ inside' = inside /\ coded' = coded
        /\ base' = base \/ base' = 0
    BY <1>1 DEF CallStart, Stop, StartRefused, Start, EncoderFails, Build, BuildFails, Publish,
                Close, EndOfStream, Await, Members, Newest
  <2>. QED BY <2>1 DEF NumberInv
<1>2. CASE Drain
  <2>1. Newest' = Newest /\ accepted' = accepted /\ coded' = coded /\ base' = base
    BY <1>2 DEF Drain, Newest
  <2>2. \A s \in Sessions : inside'[s] = <<>> \/ inside'[s] = inside[s]
    BY <1>2 DEF Drain
  <2>. QED BY <2>1, <2>2 DEF NumberInv
<1>3. CASE PushFrame
  <2>1. Newest' = Newest /\ accepted' = accepted /\ inside' = inside /\ coded' = coded /\ base' = base
    BY <1>0, <1>3 DEF PushFrame, Newest
  <2>. QED BY <2>1 DEF NumberInv
<1>4. CASE Encode
  <2>1. Newest' = frames /\ Newest = frames - 1 /\ coded' = coded /\ base' = base
    BY <1>4 DEF Encode, Newest
  <2>2. \A s \in Sessions : \/ accepted'[s] = accepted[s] /\ inside'[s] = inside[s]
                            \/ /\ Extends(accepted'[s], accepted[s], frames)
                               /\ Extends(inside'[s], inside[s], frames)
    BY <1>4, EncodeEffect
  <2>3. ASSUME NEW s \in Sessions
        PROVE  /\ \A i \in 1..Len(accepted'[s]) : accepted'[s][i] <= frames
               /\ \A i \in 1..Len(inside'[s]) : inside'[s][i] <= frames
    <3>1. /\ \A i \in 1..Len(accepted[s]) : accepted[s][i] <= frames
          /\ \A i \in 1..Len(inside[s]) : inside[s][i] <= frames
      BY <1>0, <2>1, Lengths DEF NumberInv
    <3>2. Len(accepted[s]) \in Nat /\ Len(inside[s]) \in Nat
      BY Lengths
    <3>3. CASE accepted'[s] = accepted[s] /\ inside'[s] = inside[s]
      BY <3>1, <3>3
    <3>4. CASE /\ Extends(accepted'[s], accepted[s], frames)
               /\ Extends(inside'[s], inside[s], frames)
      <4>1. \A i \in 1..Len(accepted'[s]) : accepted'[s][i] <= frames
        BY <1>0, <3>1, <3>2, <3>4, ExtendsAt
      <4>2. \A i \in 1..Len(inside'[s]) : inside'[s][i] <= frames
        BY <1>0, <3>1, <3>2, <3>4, ExtendsAt
      <4>. QED BY <4>1, <4>2
    <3>. QED BY <2>2, <3>3, <3>4
  <2>4. Newest' >= 0 /\ coded' <= Newest' /\ base' <= Newest'
    BY <1>0, <2>1 DEF NumberInv
  <2>. QED BY <2>1, <2>3, <2>4 DEF NumberInv
<1>5. ASSUME NEW s \in Sessions, Deliver(s) PROVE NumberInv'
  <2>1. Newest' = Newest /\ accepted' = accepted /\ base' = base
    BY <1>5 DEF Deliver, Newest
  <2>2. /\ \A r \in Sessions \ {s} : inside'[r] = inside[r]
        /\ 1 \in 1..Len(inside[s]) /\ coded' = inside[s][1]
        /\ Len(inside'[s]) = Len(inside[s]) - 1
        /\ \A i \in 1..Len(inside'[s]) : inside'[s][i] = inside[s][i + 1]
    BY <1>5, DeliverEffect
  <2>3. coded' <= Newest
    BY <2>2 DEF NumberInv
  <2>4. Len(inside[s]) \in Nat
    BY Lengths
  <2>5. \A i \in 1..Len(inside'[s]) : inside'[s][i] <= Newest
    BY <2>2, <2>4 DEF NumberInv
  <2>. QED BY <2>1, <2>2, <2>3, <2>5 DEF NumberInv
<1>6. CASE PushBuffer
  <2>1. /\ Newest' = Newest /\ accepted' = accepted /\ inside' = inside /\ coded' = 0
        /\ base' = coded \/ base' = base
    BY <1>6 DEF PushBuffer, Newest
  <2>. QED BY <2>1 DEF NumberInv
<1>7. CASE PollBus \/ PipelineError \/ EncoderBreaks \/ UNCHANGED vars
  <2>1. Newest' = Newest /\ accepted' = accepted /\ inside' = inside /\ coded' = coded /\ base' = base
    BY <1>7 DEF PollBus, PipelineError, EncoderBreaks, vars, Newest
  <2>. QED BY <2>1 DEF NumberInv
<1>. QED
  BY <1>1, <1>2, <1>3, <1>4, <1>5, <1>6, <1>7 DEF Next, Control, Starting, Stopping, Callback

-----------------------------------------------------------------------------
(* From push_frame() to the file                                           *)

LEMMA AccountedNew ==
  ASSUME NEW c PROVE Accounted(<<>>, <<>>, 0, 0, c)
BY DEF Accounted

LEMMA AccountedIdle ==
  ASSUME NEW frs, NEW queue, NEW n \in Nat, NEW c, NEW d, Accounted(frs, queue, n, 0, c)
  PROVE  Accounted(frs, queue, n, 0, d)
BY DEF Accounted

LEMMA AccountedAccept ==
  ASSUME NEW frs, NEW queue, NEW n \in Nat, NEW k \in {0, 1}, NEW c,
         Accounted(frs, queue, n, k, c), NEW frs2, NEW queue2, NEW x,
         Len(frs) \in Nat, Len(queue) \in Nat, Extends(frs2, frs, x), Extends(queue2, queue, x)
  PROVE  Accounted(frs2, queue2, n, k, c)
<1>1. Len(frs) = n + k + Len(queue)
  BY DEF Accounted
<1>2. Len(frs2) = n + k + Len(queue2)
  BY <1>1 DEF Extends
<1>3. k = 1 => n + 1 \in 1..Len(frs)
  BY <1>1
<1>4. k = 1 => frs2[n + 1] = c
  BY <1>3 DEF Accounted, Extends
<1>5. ASSUME NEW i \in 1..Len(queue2) PROVE queue2[i] = frs2[n + k + i]
  <2>1. CASE i \in 1..Len(queue) /\ queue2[i] = queue[i]
    <3>1. n + k + i \in 1..Len(frs)
      BY <1>1, <2>1
    <3>2. frs2[n + k + i] = frs[n + k + i]
      BY <3>1 DEF Extends
    <3>. QED BY <2>1, <3>2 DEF Accounted
  <2>2. CASE i = Len(queue) + 1 /\ queue2[i] = x
    <3>1. n + k + i = Len(frs) + 1
      BY <1>1, <2>2
    <3>2. frs2[Len(frs) + 1] = x
      BY DEF Extends
    <3>. QED BY <2>2, <3>1, <3>2
  <2>. QED BY <2>1, <2>2, ExtendsAt
<1>. QED BY <1>2, <1>4, <1>5 DEF Accounted

LEMMA AccountedTake ==
  ASSUME NEW frs, NEW queue, NEW n \in Nat, NEW c, Accounted(frs, queue, n, 0, c), NEW queue2,
         Len(queue) \in Nat, 1 \in 1..Len(queue), Len(queue2) = Len(queue) - 1,
         \A i \in 1..Len(queue2) : queue2[i] = queue[i + 1]
  PROVE  Accounted(frs, queue2, n, 1, queue[1])
<1>1. Len(frs) = n + 1 + Len(queue2)
  BY DEF Accounted
<1>2. frs[n + 1] = queue[1]
  <2>1. queue[1] = frs[n + 0 + 1]
    BY DEF Accounted
  <2>. QED BY <2>1
<1>3. ASSUME NEW i \in 1..Len(queue2) PROVE queue2[i] = frs[n + 1 + i]
  <2>1. i + 1 \in 1..Len(queue)
    OBVIOUS
  <2>2. queue[i + 1] = frs[n + 0 + (i + 1)]
    BY <2>1 DEF Accounted
  <2>3. n + 0 + (i + 1) = n + 1 + i
    OBVIOUS
  <2>. QED BY <2>2, <2>3
<1>. QED BY <1>1, <1>2, <1>3 DEF Accounted

LEMMA AccountedWritten ==
  ASSUME NEW frs, NEW queue, NEW n \in Nat, NEW c, Accounted(frs, queue, n, 1, c), Len(queue) \in Nat
  PROVE  n + 1 <= Len(frs) /\ frs[n + 1] = c
BY DEF Accounted

LEMMA AccountedWrite ==
  ASSUME NEW frs, NEW queue, NEW n \in Nat, NEW c, NEW d, Accounted(frs, queue, n, 1, c)
  PROVE  Accounted(frs, queue, n + 1, 0, d)
<1>1. \A i \in 1..Len(queue) : n + 1 + 0 + i = n + 1 + i
  OBVIOUS
<1>. QED BY <1>1 DEF Accounted

LEMMA PrefixStep ==
  ASSUME PartsOK, LifeInv, CallbackInv, NumberInv, PrefixInv, WholeInv, Next \/ UNCHANGED vars
  PROVE  PrefixInv'
<1>1. CASE Encode
  <2>. SUFFICES ASSUME NEW s \in Sessions PROVE Prefix(s)'
    BY DEF PrefixInv
  <2>1. file' = file
    BY <1>1 DEF Encode
  <2>2. accepted'[s] = accepted[s] \/ Extends(accepted'[s], accepted[s], frames)
    BY <1>1, EncodeEffect
  <2>3. Len(accepted[s]) \in Nat /\ Len(file[s]) \in Nat /\ Prefix(s)
    BY Lengths DEF PrefixInv
  <2>. QED BY <2>1, <2>2, <2>3 DEF Prefix, Extends
<1>2. CASE PushBuffer
  <2>. SUFFICES ASSUME NEW s \in Sessions PROVE Prefix(s)'
    BY DEF PrefixInv
  <2>1. accepted' = accepted /\ Prefix(s)
    BY <1>2 DEF PushBuffer, PrefixInv
  <2>2. CASE file'[s] = file[s]
    BY <2>1, <2>2 DEF Prefix
  <2>3. CASE file'[s] # file[s]
    <3>1. /\ s = pipe /\ pipe \in Sessions /\ error[pipe] = "none"
          /\ \E e \in Entries : e.frame = coded /\ e.base = base' /\ Extends(file'[s], file[s], e)
      BY <1>2, <2>3, PushEffect
    <3>2. PICK e \in Entries : e.frame = coded /\ Extends(file'[s], file[s], e)
      BY <3>1
    <3>3. s = Source /\ Flight(s) = 1 /\ Whole(s)
      <4>1. out # "idle"
        BY <1>2 DEF PushBuffer
      <4>2. s = Source
        BY <3>1, <4>1, SourceIsPipe
      <4>. QED BY <3>1, <4>1, <4>2 DEF WholeInv, Source, Flight
    <3>4. Len(file[s]) \in Nat /\ Len(inside[s]) \in Nat
      BY Lengths
    <3>5. Len(file[s]) + 1 <= Len(accepted[s]) /\ accepted[s][Len(file[s]) + 1] = coded
      <4>1. Accounted(accepted[s], inside[s], Len(file[s]), 1, coded)
        BY <3>3 DEF Whole
      <4>. QED BY <3>4, <4>1, AccountedWritten
    <3>6. Len(file'[s]) = Len(file[s]) + 1
      BY <3>2 DEF Extends
    <3>7. ASSUME NEW i \in 1..Len(file'[s]) PROVE file'[s][i].frame = accepted[s][i]
      <4>1. \/ i \in 1..Len(file[s]) /\ file'[s][i] = file[s][i]
            \/ i = Len(file[s]) + 1 /\ file'[s][i] = e
        BY ONLY <3>2, <3>4, <3>7, ExtendsAt
      <4>2. \A j \in 1..Len(file[s]) : file[s][j].frame = accepted[s][j]
        BY ONLY <2>1 DEF Prefix
      <4>. QED BY ONLY <3>2, <3>5, <4>1, <4>2
    <3>. QED BY <2>1, <3>4, <3>5, <3>6, <3>7 DEF Prefix
  <2>. QED BY <2>2, <2>3
<1>3. CASE accepted' = accepted /\ file' = file
  BY <1>3 DEF PrefixInv, Prefix
<1>. QED
  BY <1>1, <1>2, <1>3
  DEF Next, Control, Starting, Stopping, CallStart, Stop, StartRefused, Start, EncoderFails, Build,
      BuildFails, Publish, Close, Drain, EndOfStream, Await, Members, Callback, PushFrame, PollBus,
      Deliver, PipelineError, EncoderBreaks, vars

LEMMA WholeStep ==
  ASSUME PartsOK, RoomInv, LifeInv, CallbackInv, NewInv, EndedInv, NumberInv, WholeInv,
         Next \/ UNCHANGED vars
  PROVE  WholeInv'
<1>0. {encoder, dying} \ {0} \subseteq Sessions
  BY DEF PartsOK, NumbersOK, BoundsOK
<1>1. CASE \/ CallStart \/ (\E next \in {"idle", "start", "members"} : Stop(next)) \/ StartRefused
           \/ EncoderFails \/ Build \/ Publish \/ EndOfStream \/ Await \/ PushFrame
           \/ EncoderBreaks \/ UNCHANGED vars
  <2>1. /\ encoder' = encoder /\ dying' = dying /\ error' = error /\ accepted' = accepted
        /\ inside' = inside /\ file' = file /\ out' = out /\ coded' = coded
    BY <1>1 DEF CallStart, Stop, StartRefused, EncoderFails, Build, Publish, EndOfStream, Await,
                PushFrame, EncoderBreaks, vars
  <2>. QED BY <2>1 DEF WholeInv, Whole, Flight, Source
<1>2. CASE Close \/ Members \/ BuildFails
  <2>1. /\ error' = error /\ accepted' = accepted /\ inside' = inside /\ file' = file
        /\ out' = out /\ coded' = coded
    BY <1>2 DEF Close, Members, BuildFails
  <2>2. dying = 0 /\ encoder' = 0 /\ (dying' = encoder \/ dying' = 0)
    BY <1>2 DEF Close, Members, BuildFails, LifeInv
  <2>3. dying' # 0 => dying' = encoder /\ Source' = Source
    BY <2>2 DEF Source
  <2>. QED BY <2>1, <2>2, <2>3 DEF WholeInv, Whole, Flight
<1>3. CASE Start
  <2>1. /\ error' = error /\ accepted' = accepted /\ inside' = inside /\ file' = file
        /\ out' = out /\ coded' = coded
        /\ encoder' = starts + 1 /\ dying' = encoder /\ dying = 0
    BY <1>3 DEF Start, LifeInv
  <2>. SUFFICES ASSUME NEW s \in {encoder', dying'} \ {0}, error'[s] = "none" PROVE Whole(s)'
    BY DEF WholeInv
  <2>2. CASE s = encoder /\ encoder # 0
    BY <2>1, <2>2 DEF WholeInv, Whole, Flight, Source
  <2>3. CASE s = starts + 1 /\ s # encoder
    <3>1. s \in Sessions /\ s > starts
      BY <1>3, <2>1, <2>3 DEF Start, PartsOK, NumbersOK, BoundsOK, LifeInv, RoomInv
    <3>2. accepted[s] = <<>> /\ inside[s] = <<>> /\ file[s] = <<>>
      BY <3>1 DEF NewInv
    <3>3. Flight(s)' = 0
      BY <2>1, <2>3 DEF Flight, Source, CallbackInv
    <3>. QED BY <2>1, <3>2, <3>3, AccountedNew DEF Whole
  <2>. QED BY <2>1, <2>2, <2>3
<1>4. CASE Drain
  <2>1. /\ error' = error /\ accepted' = accepted /\ file' = file /\ out = "idle" /\ out' = out
        /\ encoder' = encoder /\ dying' = 0
        /\ inside' = [s \in Sessions |-> IF s = dying THEN <<>> ELSE inside[s]]
    BY <1>4 DEF Drain
  <2>2. CASE encoder = 0
    BY <2>1, <2>2 DEF WholeInv
  <2>3. CASE encoder # 0
    <3>1. ctl = "replace" /\ encoder = starts /\ Making
      BY <1>4, <2>3 DEF Drain, AfterDrain, LifeInv, Making
    <3>2. accepted[encoder] = <<>> /\ inside'[encoder] = <<>> /\ file[encoder] = <<>>
      BY <1>0, <2>1, <2>3, <3>1 DEF NewInv
    <3>3. Flight(encoder)' = 0
      BY <2>1 DEF Flight
    <3>4. Whole(encoder)'
      BY <2>1, <3>2, <3>3, AccountedNew DEF Whole
    <3>. QED BY <2>1, <3>4 DEF WholeInv
  <2>. QED BY <2>2, <2>3
<1>5. CASE Encode
  <2>1. /\ encoder' = encoder /\ dying' = dying /\ error' = error /\ file' = file
        /\ out' = out /\ coded' = coded
    BY <1>5 DEF Encode
  <2>. SUFFICES ASSUME NEW s \in {encoder, dying} \ {0}, error[s] = "none" PROVE Whole(s)'
    BY <2>1 DEF WholeInv
  <2>2. s \in Sessions /\ Whole(s) /\ Flight(s)' = Flight(s) /\ Flight(s) \in {0, 1}
    BY <1>0, <2>1 DEF WholeInv, Flight, Source
  <2>3. Len(file[s]) \in Nat /\ Len(inside[s]) \in Nat /\ Len(accepted[s]) \in Nat
    BY <2>2, Lengths
  <2>4. CASE accepted'[s] = accepted[s] /\ inside'[s] = inside[s]
    BY <2>1, <2>2, <2>4 DEF Whole
  <2>5. CASE /\ Extends(accepted'[s], accepted[s], frames)
             /\ Extends(inside'[s], inside[s], frames)
    BY <2>1, <2>2, <2>3, <2>5, AccountedAccept DEF Whole
  <2>. QED BY <1>5, <2>2, <2>4, <2>5, EncodeEffect
<1>6. ASSUME NEW r \in Sessions, Deliver(r) PROVE WholeInv'
  <2>1. /\ encoder' = encoder /\ dying' = dying /\ error' = error /\ file' = file
        /\ accepted' = accepted /\ out = "idle" /\ out' = "poll"
    BY <1>6 DEF Deliver
  <2>. SUFFICES ASSUME NEW s \in {encoder, dying} \ {0}, error[s] = "none" PROVE Whole(s)'
    BY <2>1 DEF WholeInv
  <2>2. s \in Sessions /\ Whole(s) /\ Flight(s) = 0
    BY <1>0, <2>1 DEF WholeInv, Flight
  <2>3. Len(file[s]) \in Nat /\ Len(inside[s]) \in Nat /\ Len(accepted[s]) \in Nat
    BY <2>2, Lengths
  <2>4. /\ r = Source /\ Source' = Source
        /\ s # r => inside'[s] = inside[s]
        /\ 1 \in 1..Len(inside[r]) /\ coded' = inside[r][1]
        /\ Len(inside'[r]) = Len(inside[r]) - 1
        /\ \A i \in 1..Len(inside'[r]) : inside'[r][i] = inside[r][i + 1]
    BY <1>6, <2>2, DeliverEffect
  <2>5. CASE s # r
    <3>1. Flight(s)' = 0
      BY <2>4, <2>5 DEF Flight
    <3>. QED BY <2>1, <2>2, <2>3, <2>4, <2>5, <3>1, AccountedIdle DEF Whole
  <2>6. CASE s = r
    <3>1. Flight(s)' = 1
      BY <2>1, <2>4, <2>6 DEF Flight
    <3>2. Accounted(accepted[s], inside'[s], Len(file[s]), 1, inside[s][1])
      BY <2>2, <2>3, <2>4, <2>6, AccountedTake DEF Whole
    <3>. QED BY <2>1, <2>4, <2>6, <3>1, <3>2 DEF Whole
  <2>. QED BY <2>5, <2>6
<1>7. CASE PollBus \/ PipelineError
  <2>1. /\ encoder' = encoder /\ dying' = dying /\ file' = file /\ accepted' = accepted
        /\ inside' = inside /\ coded' = coded /\ (out' # "idle" <=> out # "idle")
    BY <1>7 DEF PollBus, PipelineError
  <2>2. error' = error \/ \E e \in {"posted", "taken"} : error' = [error EXCEPT ![pipe] = e]
    BY <1>7 DEF PollBus, PipelineError
  <2>3. \A s \in Sessions : error'[s] = "none" => error[s] = "none"
    BY <2>2 DEF PartsOK, RecordsOK
  <2>. QED BY <1>0, <2>1, <2>3 DEF WholeInv, Whole, Flight, Source
<1>8. CASE PushBuffer
  <2>1. /\ encoder' = encoder /\ dying' = dying /\ error' = error /\ accepted' = accepted
        /\ inside' = inside /\ out = "push" /\ out' = "idle"
    BY <1>8 DEF PushBuffer
  <2>. SUFFICES ASSUME NEW s \in {encoder, dying} \ {0}, error[s] = "none" PROVE Whole(s)'
    BY <2>1 DEF WholeInv
  <2>2. s \in Sessions /\ Whole(s) /\ Flight(s)' = 0
    BY <1>0, <2>1 DEF WholeInv, Flight
  <2>3. Len(file[s]) \in Nat /\ Len(inside[s]) \in Nat /\ Len(accepted[s]) \in Nat
    BY <2>2, Lengths
  <2>4. Source \in Sessions /\ (pipe # 0 /\ error[pipe] = "none" => pipe = Source)
        /\ (error[Source] = "none" => pipe = Source)
    BY <2>1, SourceIsPipe
  <2>5. CASE s # Source
    <3>1. Flight(s) = 0
      BY <2>5 DEF Flight
    <3>2. file'[s] = file[s]
      BY <1>8, <2>2, <2>4, <2>5, PushEffect DEF PartsOK, NumbersOK, BoundsOK
    <3>. QED BY <2>1, <2>2, <2>3, <3>1, <3>2, AccountedIdle DEF Whole
  <2>6. CASE s = Source
    <3>1. pipe = s /\ Flight(s) = 1 /\ ended[s] = "no"
      BY <2>1, <2>2, <2>4, <2>6 DEF Flight, EndedInv
    <3>2. PICK e \in Entries : Extends(file'[s], file[s], e)
      BY <1>8, <2>2, <3>1, PushEffect
    <3>3. Len(file'[s]) = Len(file[s]) + 1
      BY <3>2 DEF Extends
    <3>4. Accounted(accepted[s], inside[s], Len(file[s]) + 1, 0, coded')
      BY <2>2, <2>3, <3>1, AccountedWrite DEF Whole
    <3>. QED BY <2>1, <2>2, <3>3, <3>4 DEF Whole
  <2>. QED BY <2>5, <2>6
<1>. QED
  BY <1>1, <1>2, <1>3, <1>4, <1>5, <1>6, <1>7, <1>8 DEF Next, Control, Starting, Stopping, Callback

\* stop() ends the stream of a pipeline whose encoder has handed on everything.
LEMMA DrainedStep ==
  ASSUME PartsOK, RoomInv, LifeInv, CallbackInv, NewInv, EndedInv, NumberInv, PrefixInv, WholeInv,
         DrainedInv, Next \/ UNCHANGED vars
  PROVE  DrainedInv'
<1>1. CASE \/ CallStart \/ (\E next \in {"idle", "start", "members"} : Stop(next)) \/ StartRefused
           \/ Start \/ EncoderFails \/ Build \/ BuildFails \/ Publish \/ Close \/ Members
  <2>1. /\ ctl' \notin {"eos", "await"} /\ ended' = ended /\ broken' = broken
        /\ file' = file /\ accepted' = accepted
    BY <1>1 DEF CallStart, Stop, StartRefused, Start, EncoderFails, Build, BuildFails, Publish,
                Close, Members
  <2>. QED BY <2>1 DEF DrainedInv
<1>2. CASE Drain
  <2>1. /\ ended' = ended /\ broken' = broken /\ file' = file /\ accepted' = accepted
        /\ pipe' = pipe /\ error' = error /\ out = "idle"
    BY <1>2 DEF Drain
  <2>2. ASSUME ctl' \in {"eos", "await"}, error[pipe] = "none", pipe \notin broken
        PROVE  Len(file[pipe]) = Len(accepted[pipe])
    <3>1. dying = pipe /\ dying # 0 /\ inside[dying] = <<>>
      BY <1>2, <2>2 DEF Drain, AfterDrain, LifeInv
    <3>2. pipe \in Sessions
      BY <3>1 DEF PartsOK, NumbersOK, BoundsOK
    <3>3. Whole(pipe) /\ Flight(pipe) = 0
      BY <2>1, <2>2, <3>1 DEF WholeInv, Flight
    <3>4. Accounted(accepted[pipe], <<>>, Len(file[pipe]), 0, coded)
      BY <3>1, <3>3 DEF Whole
    <3>. QED BY <3>2, <3>4, Lengths DEF Accounted
  <2>. QED BY <2>1, <2>2 DEF DrainedInv
<1>3. CASE EndOfStream \/ Await
  <2>1. /\ broken' = broken /\ file' = file /\ accepted' = accepted /\ error' = error
        /\ ctl \in {"eos", "await"}
    BY <1>3 DEF EndOfStream, Await
  <2>2. PICK end \in {"eos", "final", "cut"} :
           ended' = [ended EXCEPT ![pipe] = end] /\ (end = "final" => error[pipe] = "none")
    BY <1>3 DEF EndOfStream, Await
  <2>3. \A s \in Sessions : ended'[s] = "final" => ended[s] = "final" \/ (s = pipe /\ error[pipe] = "none")
    BY <2>2 DEF PartsOK, RecordsOK
  <2>4. ctl' \in {"eos", "await"} => pipe' = pipe
    BY <1>3 DEF EndOfStream, Await, PartsOK, LabelsOK
  <2>. QED BY <2>1, <2>3, <2>4 DEF DrainedInv
<1>4. CASE Encode
  <2>1. /\ ctl' = ctl /\ ended' = ended /\ broken' = broken /\ file' = file
        /\ pipe' = pipe /\ error' = error
    BY <1>4 DEF Encode
  <2>2. CASE accepted' = accepted
    BY <2>1, <2>2 DEF DrainedInv
  <2>3. CASE /\ encoder \in Sessions /\ ctl \notin {"eos", "await"}
             /\ \A s \in Sessions \ {encoder} : accepted'[s] = accepted[s]
    <3>1. ended[encoder] = "no"
      BY <2>3 DEF EndedInv
    <3>. QED BY <2>1, <2>3, <3>1 DEF DrainedInv
  <2>. QED BY <1>4, <2>2, <2>3, EncodeEffect
<1>5. CASE PollBus \/ PipelineError
  <2>1. /\ ctl' = ctl /\ ended' = ended /\ broken' = broken /\ file' = file
        /\ accepted' = accepted /\ pipe' = pipe
    BY <1>5 DEF PollBus, PipelineError
  <2>2. error' = error \/ \E e \in {"posted", "taken"} : error' = [error EXCEPT ![pipe] = e]
    BY <1>5 DEF PollBus, PipelineError
  <2>3. ctl \in {"eos", "await"} => pipe \in Sessions
    BY DEF LifeInv, PartsOK, NumbersOK, BoundsOK
  <2>4. ctl \in {"eos", "await"} /\ error'[pipe] = "none" => error[pipe] = "none"
    BY <2>2, <2>3 DEF PartsOK, RecordsOK
  <2>. QED BY <2>1, <2>4 DEF DrainedInv
<1>6. CASE PushBuffer
  <2>1. /\ ctl' = ctl /\ ended' = ended /\ broken' = broken /\ accepted' = accepted
        /\ pipe' = pipe /\ error' = error /\ ctl \notin {"eos", "await"}
    BY <1>6 DEF PushBuffer, CallbackInv
  <2>2. \A s \in Sessions : ended[s] # "no" => file'[s] = file[s]
    BY <1>6, PushEffect
  <2>. QED BY <2>1, <2>2 DEF DrainedInv
<1>7. CASE EncoderBreaks
  <2>1. /\ ctl' = ctl /\ ended' = ended /\ broken \subseteq broken' /\ accepted' = accepted
        /\ pipe' = pipe /\ error' = error /\ file' = file
    BY <1>7 DEF EncoderBreaks
  <2>. QED BY <2>1 DEF DrainedInv
<1>8. CASE PushFrame \/ (\E s \in Sessions : Deliver(s)) \/ UNCHANGED vars
  <2>1. /\ ctl' = ctl /\ ended' = ended /\ broken' = broken /\ accepted' = accepted
        /\ pipe' = pipe /\ error' = error /\ file' = file
    BY <1>8 DEF PushFrame, Deliver, vars
  <2>. QED BY <2>1 DEF DrainedInv
<1>. QED
  BY <1>1, <1>2, <1>3, <1>4, <1>5, <1>6, <1>7, <1>8 DEF Next, Control, Starting, Stopping, Callback

-----------------------------------------------------------------------------
(* The times                                                               *)

\* That an error has been taken off a bus stays so.
LEMMA ErrorsStay ==
  ASSUME PartsOK, Next \/ UNCHANGED vars
  PROVE  \A s \in Sessions : /\ AfterError(s) => AfterError(s)'
                             /\ error'[s] = "none" => error[s] = "none"
<1>1. error' = error \/ (error[pipe] # "taken" /\ \E e \in {"posted", "taken"} : error' = [error EXCEPT ![pipe] = e])
  BY DEF Next, Control, Starting, Stopping, CallStart, Stop, StartRefused, Start, EncoderFails,
         Build, BuildFails, Publish, Close, Drain, EndOfStream, Await, Members, Callback, PushFrame,
         Encode, PollBus, PushBuffer, Deliver, PipelineError, EncoderBreaks, vars
<1>2. \A s \in Sessions : /\ error[s] = "taken" => error'[s] = "taken"
                          /\ error'[s] = "none" => error[s] = "none"
  BY <1>1 DEF PartsOK, RecordsOK
<1>3. \A s \in Sessions : s > 1 => s - 1 \in Sessions
  BY DEF PartsOK, BoundsOK
<1>. QED BY <1>2, <1>3 DEF AfterError

LEMMA TimedStep ==
  ASSUME PartsOK, LifeInv, CallbackInv, EndedInv, NumberInv, PrefixInv, WholeInv, TimedInv, BaseInv,
         Next \/ UNCHANGED vars, NEW s \in Sessions
  PROVE  Timed(s)'
<1>0. /\ Timed(s) /\ (AfterError(s) => AfterError(s)') /\ Prefix(s)
      /\ Len(file[s]) \in Nat /\ Len(accepted[s]) \in Nat
  BY ErrorsStay, Lengths DEF TimedInv, PrefixInv
<1>1. CASE accepted' = accepted /\ file' = file
  BY <1>0, <1>1 DEF Timed
<1>2. CASE Encode
  <2>1. file' = file
    BY <1>2 DEF Encode
  <2>2. accepted'[s] = accepted[s] \/ Extends(accepted'[s], accepted[s], frames)
    BY <1>2, EncodeEffect
  <2>3. Len(file[s]) > 0 => accepted'[s][1] = accepted[s][1]
    BY <1>0, <2>2 DEF Extends, Prefix
  <2>. QED BY <1>0, <2>1, <2>3 DEF Timed
<1>3. CASE PushBuffer
  <2>1. accepted' = accepted /\ (base' = IF first THEN coded ELSE base) /\ out = "push"
    BY <1>3 DEF PushBuffer
  <2>2. CASE file'[s] = file[s]
    BY <1>0, <2>1, <2>2 DEF Timed
  <2>3. CASE file'[s] # file[s]
    <3>1. /\ s = pipe /\ pipe # 0 /\ error[pipe] = "none" /\ ended[pipe] = "no"
          /\ \E e \in Entries : e.frame = coded /\ e.base = base' /\ Extends(file'[s], file[s], e)
      BY <1>3, <2>3, PushEffect DEF PartsOK, BoundsOK
    <3>2. PICK e \in Entries : e.frame = coded /\ e.base = base' /\ Extends(file'[s], file[s], e)
      BY <3>1
    <3>3. CASE Len(file[s]) > 0
      <4>1. base' = file[s][1].base
        BY <2>1, <3>1, <3>3 DEF BaseInv, Taking
      <4>2. file'[s][1] = file[s][1]
        BY <1>0, <3>2, <3>3 DEF Extends
      <4>3. \A i \in 1..Len(file'[s]) : file'[s][i].base = file[s][1].base
        BY <1>0, <3>2, <4>1, ExtendsAt DEF Timed
      <4>. QED BY <1>0, <2>1, <3>3, <4>2, <4>3 DEF Timed
    <3>4. CASE Len(file[s]) = 0
      <4>1. Len(file'[s]) = 1 /\ file'[s][1] = e
        BY <3>2, <3>4 DEF Extends
      <4>2. 1 \in 1..Len(accepted[s]) /\ coded = accepted[s][1]
        <5>1. s = Source
          BY <2>1, <3>1, SourceIsPipe
        <5>2. Accounted(accepted[s], inside[s], 0, 1, coded)
          BY <2>1, <3>1, <3>4, <5>1 DEF WholeInv, Whole, Flight, Source
        <5>3. Len(inside[s]) \in Nat
          BY Lengths
        <5>. QED BY <1>0, <5>2, <5>3 DEF Accounted
      <4>3. base' = accepted[s][1] \/ (base' < accepted[s][1] /\ AfterError(s))
        BY <2>1, <3>1, <3>4, <4>2 DEF BaseInv, Taking
      <4>. QED BY <1>0, <2>1, <3>2, <4>1, <4>3 DEF Timed
    <3>. QED BY <1>0, <3>3, <3>4
  <2>. QED BY <2>2, <2>3
<1>. QED
  BY <1>1, <1>2, <1>3
  DEF Next, Control, Starting, Stopping, CallStart, Stop, StartRefused, Start, EncoderFails, Build,
      BuildFails, Publish, Close, Drain, EndOfStream, Await, Members, Callback, PushFrame, PollBus,
      Deliver, PipelineError, EncoderBreaks, vars

LEMMA BaseStep ==
  ASSUME PartsOK, LifeInv, CallbackInv, NewInv, EndedInv, NumberInv, BaseInv,
         Next \/ UNCHANGED vars
  PROVE  BaseInv'
<1>0. /\ pipe # 0 => pipe \in Sessions
      /\ starts # 0 => starts \in Sessions
      /\ starts \in Nat /\ pipe \in Nat /\ frames \in Nat /\ base \in Nat
  BY DEF PartsOK, NumbersOK, CountsOK, BoundsOK
<1>. DEFINE Kept == first' = first /\ base' = base /\ accepted' = accepted /\ file' = file
<1>1. CASE /\ CallStart \/ (\E next \in {"idle", "start", "members"} : Stop(next)) \/ StartRefused
              \/ Publish \/ Close \/ Members
  <2>1. /\ Kept /\ pipe' = pipe /\ starts' = starts /\ error' = error /\ ended' = ended
        /\ ctl' \notin {"replace", "build"}
    BY <1>1 DEF CallStart, Stop, StartRefused, Publish, Close, Members
  <2>. QED BY <2>1 DEF BaseInv, Taking, AfterError
<1>2. CASE Start
  <2>1. first' = TRUE /\ pipe' = pipe /\ error' = error /\ ended' = ended
    BY <1>2 DEF Start
  <2>2. ~Taking(pipe)
    BY <1>2 DEF Start, LifeInv, Resting, Taking
  <2>. QED BY <2>1, <2>2 DEF BaseInv, Taking
<1>3. CASE EncoderFails
  <2>1. ctl' = "idle" /\ pipe' = pipe /\ error' = error /\ ended' = ended
    BY <1>3 DEF EncoderFails
  <2>2. ~Taking(pipe)
    BY <1>3 DEF EncoderFails, LifeInv, Resting, Taking
  <2>. QED BY <2>1, <2>2 DEF BaseInv, Taking
<1>4. CASE Build
  <2>1. Kept /\ pipe' = starts /\ error' = error /\ ctl' = "publish" /\ starts' = starts
    BY <1>4 DEF Build, LifeInv, Making
  <2>2. starts \in Sessions /\ accepted[starts] = <<>> /\ file[starts] = <<>>
    BY <1>0, <1>4 DEF Build, LifeInv, NewInv, Making
  <2>3. ~first => AfterError(starts)
    BY <1>4 DEF Build, BaseInv
  <2>. QED BY <2>1, <2>2, <2>3 DEF BaseInv, AfterError
<1>5. CASE BuildFails \/ Await
  <2>1. pipe' = 0 /\ ctl' \notin {"replace", "build"}
    BY <1>5 DEF BuildFails, Await, PartsOK, LabelsOK
  <2>. QED BY <2>1 DEF BaseInv, Taking
<1>6. CASE Drain
  <2>1. /\ Kept /\ pipe' = pipe /\ starts' = starts /\ error' = error /\ ended' = ended
        /\ ctl' \in {"replace", "build"} => ctl \in {"replace", "build"}
    BY <1>6 DEF Drain, AfterDrain
  <2>. QED BY <2>1 DEF BaseInv, Taking, AfterError
<1>7. CASE EndOfStream
  <2>1. pipe \in Sessions /\ pipe' = pipe /\ ctl' = "await" /\ ended'[pipe] = "eos"
    BY <1>0, <1>7 DEF EndOfStream, LifeInv, PartsOK, RecordsOK
  <2>. QED BY <2>1 DEF BaseInv, Taking
<1>8. CASE PushFrame \/ (\E s \in Sessions : Deliver(s)) \/ EncoderBreaks \/ UNCHANGED vars
  <2>1. /\ Kept /\ pipe' = pipe /\ starts' = starts /\ error' = error /\ ended' = ended
        /\ ctl' = ctl
    BY <1>8 DEF PushFrame, Deliver, EncoderBreaks, vars
  <2>. QED BY <2>1 DEF BaseInv, Taking, AfterError
<1>9. CASE Encode
  <2>1. /\ first' = first /\ base' = base /\ file' = file
        /\ pipe' = pipe /\ starts' = starts /\ error' = error /\ ended' = ended /\ ctl' = ctl
    BY <1>9 DEF Encode
  <2>2. ASSUME Taking(pipe), \A i \in 1..Len(accepted[pipe]) : base < accepted[pipe][i],
               NEW i \in 1..Len(accepted'[pipe])
        PROVE  base < accepted'[pipe][i]
    <3>1. pipe \in Sessions /\ Len(accepted[pipe]) \in Nat
      BY <1>0, <2>2, Lengths DEF Taking
    <3>2. accepted'[pipe] = accepted[pipe] \/ Extends(accepted'[pipe], accepted[pipe], frames)
      BY <1>9, <3>1, EncodeEffect
    <3>3. base < frames
      BY <1>0, <1>9 DEF Encode, NumberInv, Newest
    <3>. QED BY <2>2, <3>1, <3>2, <3>3, ExtendsAt
  <2>. QED BY <2>1, <2>2 DEF BaseInv, Taking, AfterError
<1>10. CASE PollBus \/ PipelineError
  <2>1. /\ Kept /\ pipe' = pipe /\ starts' = starts /\ ended' = ended /\ ctl' = ctl
    BY <1>10 DEF PollBus, PipelineError
  <2>2. Taking(pipe)' => Taking(pipe)
    BY <1>0, <2>1, ErrorsStay DEF Taking
  <2>3. /\ pipe # 0 /\ AfterError(pipe) => AfterError(pipe)'
        /\ starts # 0 /\ AfterError(starts) => AfterError(starts)'
    BY <1>0, <2>1, ErrorsStay DEF AfterError
  <2>4. AfterError(starts) => starts # 0
    BY DEF AfterError
  <2>. QED BY <2>1, <2>2, <2>3, <2>4 DEF BaseInv, Taking
<1>11. CASE PushBuffer
  <2>1. /\ first' = FALSE /\ base' = (IF first THEN coded ELSE base) /\ accepted' = accepted
        /\ pipe' = pipe /\ starts' = starts /\ error' = error /\ ended' = ended /\ ctl' = ctl
        /\ out = "push"
    BY <1>11 DEF PushBuffer
  <2>2. ASSUME Taking(pipe) PROVE Len(file'[pipe]) > 0 /\ base' = file'[pipe][1].base
    <3>1. pipe \in Sessions /\ Len(file[pipe]) \in Nat
      BY <1>0, <2>2, Lengths DEF Taking
    <3>2. PICK e \in Entries : e.base = base' /\ Extends(file'[pipe], file[pipe], e)
      BY <1>11, <2>2, PushEffect DEF Taking
    <3>3. CASE Len(file[pipe]) = 0
      BY <3>2, <3>3 DEF Extends
    <3>4. CASE Len(file[pipe]) > 0
      <4>1. base' = file[pipe][1].base
        BY <2>1, <2>2, <3>4 DEF BaseInv
      <4>. QED BY <3>1, <3>2, <3>4, <4>1 DEF Extends
    <3>. QED BY <3>1, <3>3, <3>4
  <2>3. ASSUME ctl \in {"replace", "build"} PROVE AfterError(starts)
    <3>1. ctl = "replace" /\ dying # 0 /\ dying = pipe
      BY <2>1, <2>3 DEF CallbackInv, LifeInv
    <3>2. pipe = starts - 1 /\ error[pipe] = "taken" /\ pipe > 0
      BY <1>0, <3>1 DEF LifeInv
    <3>. QED BY <1>0, <3>2 DEF AfterError
  <2>. QED BY <2>1, <2>2, <2>3 DEF BaseInv, Taking, AfterError
<1>. QED
  BY <1>1, <1>2, <1>3, <1>4, <1>5, <1>6, <1>7, <1>8, <1>9, <1>10, <1>11
  DEF Next, Control, Starting, Stopping, Callback

-----------------------------------------------------------------------------
(* The theorems                                                            *)

LEMMA InitInv == BoundsOK /\ Init => RecorderInv
<1>. SUFFICES ASSUME BoundsOK, Init PROVE RecorderInv
  OBVIOUS
<1>1. PartsOK
  BY InitParts
<1>2. ControlInv
  BY DEF Init, ControlInv, RoomInv, LifeInv, CallbackInv, NewInv, EndedInv, Resting, Making, Source
<1>3. LogInv
  BY DEF Init, LogInv, PrefixInv, WholeInv, DrainedInv, Prefix
<1>4. NumberInv
  BY DEF Init, NumberInv, Newest
<1>5. StampInv
  BY DEF Init, StampInv, TimedInv, BaseInv, Timed, Taking
<1>. QED BY <1>1, <1>2, <1>3, <1>4, <1>5 DEF RecorderInv

LEMMA StepInv == RecorderInv /\ [fault = "none" /\ Next]_vars => RecorderInv'
<1>. SUFFICES ASSUME RecorderInv, Next \/ UNCHANGED vars PROVE RecorderInv'
  OBVIOUS
<1>. USE DEF RecorderInv, ControlInv, LogInv, StampInv
<1>1. PartsOK'
  BY ControlParts, FrameParts DEF Next
<1>2. ControlInv'
  BY RoomStep, LifeStep, CallbackStep, NewStep, EndedStep
<1>3. LogInv'
  BY PrefixStep, WholeStep, DrainedStep
<1>4. NumberInv'
  BY <1>1, NumberStep
<1>5. StampInv'
  <2>1. \A s \in Sessions : Timed(s)'
    BY TimedStep
  <2>2. TimedInv'
    BY <2>1 DEF TimedInv
  <2>. QED BY <2>2, BaseStep
<1>. QED BY <1>1, <1>2, <1>3, <1>4, <1>5

\* The type invariant, whatever the faults, for any bounds.
THEOREM TypeCorrect ==
  ASSUME MaxStarts \in Nat, MaxFrames \in Nat
  PROVE  Spec => []TypeOK
<1>1. RecorderInv => TypeOK
  BY TypeOfParts DEF RecorderInv
<1>. QED BY <1>1, InitInv, StepInv, PTL DEF Spec, BoundsOK

\* What is written of recording s are the first of its frames.
LEMMA WrittenIsPrefix ==
  ASSUME PartsOK, NEW s \in Sessions, Prefix(s)
  PROVE  Written(s) = SubSeq(accepted[s], 1, Len(file[s]))
<1>. DEFINE n == Len(file[s])
<1>1. n \in Nat /\ Len(accepted[s]) \in Nat
  BY Lengths
<1>2. accepted[s] \in Seq(Pushes)
  BY DEF PartsOK, QueuesOK
<1>3. Written(s) = [i \in 1..n |-> accepted[s][i]]
  BY DEF Written, Prefix
<1>4. \A i \in 1..n : accepted[s][i] \in Pushes
  <2>. HIDE DEF Pushes
  <2>1. accepted[s] \in [1..Len(accepted[s]) -> Pushes]
    BY <1>2, LenProperties
  <2>. QED BY <1>1, <2>1 DEF Prefix
<1>. HIDE DEF Pushes
<1>5. SubSeq(accepted[s], 1, n) = [i \in 1..n |-> accepted[s][i]]
  BY <1>1, <1>2, <1>4
<1>. QED BY <1>3, <1>5

\* What is in a file are the first frames its recording has accepted, in that order, with
\* times that count from one frame: from the first of them, unless an error has ended the
\* recording before.  For any number of recordings and of frames, whatever goes wrong:
\* Recorder::start(), stop(), push_frame() and the callback.
THEOREM InOrder ==
  ASSUME MaxStarts \in Nat, MaxFrames \in Nat
  PROVE  Spec => []FilesInOrder
<1>1. RecorderInv => FilesInOrder
  <2>. SUFFICES ASSUME RecorderInv, NEW s \in Sessions
                PROVE  /\ Len(file[s]) <= Len(accepted[s])
                       /\ Written(s) = SubSeq(accepted[s], 1, Len(file[s]))
                       /\ \A i \in 1..Len(file[s]) : file[s][i].base = file[s][1].base
                       /\ file[s] # <<>> /\ ~AfterError(s) => file[s][1].base = accepted[s][1]
    BY DEF FilesInOrder
  <2>1. PartsOK /\ Prefix(s) /\ Timed(s)
    BY DEF RecorderInv, LogInv, StampInv, PrefixInv, TimedInv
  <2>2. Written(s) = SubSeq(accepted[s], 1, Len(file[s]))
    BY <2>1, WrittenIsPrefix
  <2>3. file[s] # <<>> => Len(file[s]) > 0
    <3>1. file[s] \in Seq(Entries)
      BY <2>1 DEF PartsOK, FilesOK
    <3>. QED BY <3>1, EmptySeq
  <2>. QED BY <2>1, <2>2, <2>3 DEF Prefix, Timed, AfterError
<1>. QED BY <1>1, InitInv, StepInv, PTL DEF Spec, BoundsOK

\* A file that ended with its end of stream has every frame its encoder had accepted,
\* unless that encoder's poll thread had given up: stop() drains the encoder before it
\* ends the stream.
THEOREM Complete ==
  ASSUME MaxStarts \in Nat, MaxFrames \in Nat
  PROVE  Spec => []StoppedComplete
<1>1. RecorderInv => StoppedComplete
  <2>. SUFFICES ASSUME RecorderInv, NEW s \in Sessions, ended[s] = "final", s \notin broken
                PROVE  Written(s) = accepted[s]
    BY DEF StoppedComplete
  <2>1. PartsOK /\ Prefix(s) /\ Len(file[s]) = Len(accepted[s])
    BY DEF RecorderInv, LogInv, PrefixInv, DrainedInv
  <2>2. Written(s) = [i \in 1..Len(accepted[s]) |-> accepted[s][i]]
    BY <2>1 DEF Written, Prefix
  <2>3. accepted[s] \in [1..Len(accepted[s]) -> Pushes]
    <3>1. accepted[s] \in Seq(Pushes)
      BY <2>1 DEF PartsOK, QueuesOK
    <3>. HIDE DEF Pushes
    <3>. QED BY <3>1, LenProperties
  <2>. QED BY <2>2, <2>3
<1>. QED BY <1>1, InitInv, StepInv, PTL DEF Spec, BoundsOK
=============================================================================
