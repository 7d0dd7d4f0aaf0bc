---------------------------- MODULE V4l2Encoder -----------------------------
(***************************************************************************)
(* The two hardware encoders (record/h264_hw_encoder.cpp and               *)
(* stream/jpeg_hw_encoder.cpp), which drive a V4L2 memory-to-memory codec  *)
(* in the same way: the camera consumer's thread puts a frame into a free  *)
(* slot of the OUTPUT queue, a poll thread takes back the slots the codec  *)
(* has read and the CAPTURE buffers it has filled.  "h264" imports the     *)
(* camera's buffer, keeps the frame alive until its slot is back, hands    *)
(* the result to an output thread and drains before it is destroyed;       *)
(* "jpeg_hw" copies the frame into the slot, calls back from the poll      *)
(* thread and stops where it is.                                           *)
(*                                                                         *)
(* The codec is modelled from what the encoders rely on: it reads the      *)
(* slots in the order they were queued and fills one CAPTURE buffer per    *)
(* slot, but may return a slot before or after it has filled the buffer.   *)
(* The devices are opened without O_NONBLOCK, so VIDIOC_DQBUF waits, and   *)
(* poll() is asked for POLLIN, which is the CAPTURE queue.                 *)
(***************************************************************************)
EXTENDS Integers, Sequences, FiniteSets

CONSTANTS
    Granted,             \* OUTPUT slots VIDIOC_REQBUFS granted
    NumOutputBuffers,    \* NUM_OUTPUT_BUFFERS, the number asked for
    CaptureBuffers,      \* the CAPTURE buffers
    Faults,              \* what may fail: "qbuf_output", "qbuf_capture", "poll"
    MaxCalls             \* bound: calls of encode()

VARIABLES
    kind,        \* which encoder it is
    calls,       \* calls of encode() so far
    accepted,    \* the frames encode() returned true for, in that order
    delivered,   \* the frames output_ready_cb_ was called with
    owner,       \* label of the destructor
    pc,          \* [Threads -> label]
    item,        \* [Threads -> what the thread's locals refer to]
    free,        \* free_input_slots_, free_output_slots_, a queue
    pending,     \* pending_frames_: [slots -> the frame kept alive, 0 if none]
    queued,      \* codec: OUTPUT slots it has to read, in order
    read,        \* codec: OUTPUT slots it has read and not yet returned
    coding,      \* codec: frames whose result is not written yet, in order
    empty,       \* codec: CAPTURE buffers it may write
    full,        \* codec: CAPTURE buffers it has written, in order
    outputQueue, \* output_queue_
    abortPoll, abortOutput,   \* abort_poll_ (abort_), abort_output_
    broken       \* poll() failed: the poll thread has given up

logVars   == <<calls, accepted, delivered>>
inVars    == <<queued, read, coding>>
codecVars == <<inVars, empty, full>>
flagVars  == <<kind, owner, abortPoll, abortOutput, broken>>
vars == <<logVars, flagVars, pc, item, free, pending, codecVars, outputQueue>>

Slots   == 1..Granted
Calls   == 1..MaxCalls
Threads == {"feeder", "poll", "output"}
Nothing == 0
Items   == [slot : Slots \cup {Nothing}, frame : Calls \cup {Nothing},
            buffer : CaptureBuffers \cup {Nothing}]
NoItem  == [slot |-> Nothing, frame |-> Nothing, buffer |-> Nothing]

TypeOK ==
    /\ kind \in {"h264", "jpeg_hw"}
    /\ calls \in 0..MaxCalls
    /\ accepted \in Seq(Calls) /\ delivered \in Seq(Calls)
    /\ owner \in {"open", "join_poll", "join_output", "stream_off", "gone"}
    /\ pc \in [Threads -> {"idle", "queue", "test", "poll", "dequeue", "drop", "collect",
                           "wait", "deliver", "requeue", "exited"}]
    /\ item \in [Threads -> Items]
    /\ free \in Seq(Slots)
    /\ pending \in [Slots -> Calls \cup {Nothing}]
    /\ queued \in Seq(Slots) /\ read \in Seq(Slots) /\ coding \in Seq(Calls)
    /\ empty \subseteq CaptureBuffers
    /\ full \in Seq(Items) /\ outputQueue \in Seq(Items)
    /\ abortPoll \in BOOLEAN /\ abortOutput \in BOOLEAN /\ broken \in BOOLEAN

\* Where the poll thread's loop begins: JpegHwEncoder's tests abort_ there.
LoopHead(k) == IF k = "h264" THEN "poll" ELSE "test"

\* The constructor has queued every CAPTURE buffer, and started the threads.
Init ==
    /\ kind \in {"h264", "jpeg_hw"}
    /\ calls = 0 /\ accepted = <<>> /\ delivered = <<>>
    /\ owner = "open"
    /\ pc = [t \in Threads |-> CASE t = "feeder" -> "idle"
                                 [] t = "poll"   -> LoopHead(kind)
                                 [] t = "output" -> IF kind = "h264" THEN "wait" ELSE "exited"]
    /\ item = [t \in Threads |-> NoItem]
    /\ free = [i \in Slots |-> i]
    /\ pending = [s \in Slots |-> Nothing]
    /\ queued = <<>> /\ read = <<>> /\ coding = <<>>
    /\ empty = CaptureBuffers /\ full = <<>>
    /\ outputQueue = <<>>
    /\ abortPoll = FALSE /\ abortOutput = FALSE /\ broken = FALSE

At(t, label) == pc[t] = label
Goto(t, label) == pc' = [pc EXCEPT ![t] = label]

\* The frames whose camera buffer the encoder keeps.
Holding(f) ==
    \/ \E s \in Slots : pending[s] = f
    \/ At("poll", "drop") /\ item["poll"].frame = f

Set(t, value) == item' = [item EXCEPT ![t] = value]

-----------------------------------------------------------------------------
(* encode(), on the thread that feeds the encoder.                         *)

Refuse ==
    /\ owner = "open" /\ At("feeder", "idle")
    /\ calls < MaxCalls
    /\ free = <<>>
    /\ calls' = calls + 1
    /\ UNCHANGED <<accepted, delivered, flagVars, pc, item, free, pending, codecVars, outputQueue>>

TakeSlot ==
    /\ owner = "open" /\ At("feeder", "idle")
    /\ calls < MaxCalls
    /\ free # <<>>
    /\ calls' = calls + 1
    /\ Set("feeder", [NoItem EXCEPT !.slot = Head(free)])
    /\ free' = Tail(free)
    /\ pending' = [pending EXCEPT ![Head(free)] = IF kind = "h264" THEN calls' ELSE Nothing]
    /\ Goto("feeder", "queue")
    /\ UNCHANGED <<accepted, delivered, flagVars, codecVars, outputQueue>>

QueueOutput ==
    /\ At("feeder", "queue")
    /\ queued' = Append(queued, item["feeder"].slot)
    /\ coding' = Append(coding, calls)
    /\ accepted' = Append(accepted, calls)
    /\ Goto("feeder", "idle")
    /\ UNCHANGED <<calls, delivered, flagVars, item, free, pending, read, empty, full, outputQueue>>

\* Mutant: the slot of a refused frame is forgotten.
QueueFailsForgets ==
    /\ At("feeder", "queue")
    /\ "qbuf_output" \in Faults
    /\ pending' = [pending EXCEPT ![item["feeder"].slot] = Nothing]
    /\ Goto("feeder", "idle")
    /\ UNCHANGED <<logVars, flagVars, item, free, codecVars, outputQueue>>

QueueFails ==
    /\ At("feeder", "queue")
    /\ "qbuf_output" \in Faults
    /\ pending' = [pending EXCEPT ![item["feeder"].slot] = Nothing]
    /\ free' = Append(free, item["feeder"].slot)
    /\ Goto("feeder", "idle")
    /\ UNCHANGED <<logVars, flagVars, item, codecVars, outputQueue>>

-----------------------------------------------------------------------------
(* The codec                                                               *)

ReadSlot ==
    /\ queued # <<>>
    /\ read' = Append(read, Head(queued))
    /\ queued' = Tail(queued)
    /\ UNCHANGED <<logVars, flagVars, pc, item, free, pending, coding, empty, full, outputQueue>>

WriteResult(b) ==
    /\ coding # <<>>
    /\ b \in empty
    /\ full' = Append(full, [NoItem EXCEPT !.buffer = b, !.frame = Head(coding)])
    /\ coding' = Tail(coding)
    /\ empty' = empty \ {b}
    /\ UNCHANGED <<logVars, flagVars, pc, item, free, pending, queued, read, outputQueue>>

-----------------------------------------------------------------------------
(* poll_thread_fn()                                                        *)

\* The h264 encoder has been told to stop and has every input slot back.
Drained == kind = "h264" /\ abortPoll /\ Len(free) = NumOutputBuffers

TestAbort ==
    /\ At("poll", "test")
    /\ Goto("poll", IF abortPoll THEN "exited" ELSE "poll")
    /\ UNCHANGED <<logVars, flagVars, item, free, pending, codecVars, outputQueue>>

\* poll() timed out: the jpeg_hw loop tests abort_ again.
PollTimesOut ==
    /\ At("poll", "poll") /\ kind = "jpeg_hw"
    /\ full = <<>>
    /\ Goto("poll", "test")
    /\ UNCHANGED <<logVars, flagVars, item, free, pending, codecVars, outputQueue>>

PollDrained ==
    /\ At("poll", "poll")
    /\ Drained
    /\ Goto("poll", "exited")
    /\ UNCHANGED <<logVars, flagVars, item, free, pending, codecVars, outputQueue>>

PollFails ==
    /\ At("poll", "poll")
    /\ ~Drained
    /\ "poll" \in Faults
    /\ broken' = TRUE
    /\ Goto("poll", "exited")
    /\ UNCHANGED <<logVars, kind, owner, abortPoll, abortOutput, item, free, pending, codecVars,
                   outputQueue>>

PollReady ==
    /\ At("poll", "poll")
    /\ ~Drained
    /\ full # <<>>
    /\ Goto("poll", "dequeue")
    /\ UNCHANGED <<logVars, flagVars, item, free, pending, codecVars, outputQueue>>

\* Mutant: the slot is free again and the frame stays with it.
DequeueOutputKeeps ==
    /\ At("poll", "dequeue")
    /\ read # <<>>
    /\ read' = Tail(read)
    /\ free' = Append(free, Head(read))
    /\ Set("poll", NoItem)
    /\ Goto("poll", "drop")
    /\ UNCHANGED <<logVars, flagVars, pending, queued, coding, empty, full, outputQueue>>

\* VIDIOC_DQBUF on the OUTPUT queue waits for a slot the codec has read.
DequeueOutput ==
    /\ At("poll", "dequeue")
    /\ read # <<>>
    /\ read' = Tail(read)
    /\ free' = Append(free, Head(read))
    /\ Set("poll", [NoItem EXCEPT !.frame = pending[Head(read)]])
    /\ pending' = [pending EXCEPT ![Head(read)] = Nothing]
    /\ Goto("poll", "drop")
    /\ UNCHANGED <<logVars, flagVars, queued, coding, empty, full, outputQueue>>

\* The last reference to the frame: its camera buffer goes back.
DropFrame ==
    /\ At("poll", "drop")
    /\ Set("poll", NoItem)
    /\ Goto("poll", "collect")
    /\ UNCHANGED <<logVars, flagVars, free, pending, codecVars, outputQueue>>

DequeueCapture ==
    /\ At("poll", "collect")
    /\ full # <<>>
    /\ full' = Tail(full)
    /\ IF kind = "h264"
       THEN /\ outputQueue' = Append(outputQueue, Head(full))
            /\ Goto("poll", "poll")
            /\ UNCHANGED item
       ELSE /\ Set("poll", Head(full))
            /\ Goto("poll", "deliver")
            /\ UNCHANGED outputQueue
    /\ UNCHANGED <<logVars, flagVars, free, pending, inVars, empty>>

-----------------------------------------------------------------------------
(* output_thread_fn() of the h264 encoder, and the delivery, which the     *)
(* jpeg_hw encoder's poll thread does itself.                              *)

TakeOutput ==
    /\ At("output", "wait")
    /\ outputQueue # <<>>
    /\ Set("output", Head(outputQueue))
    /\ outputQueue' = Tail(outputQueue)
    /\ Goto("output", "deliver")
    /\ UNCHANGED <<logVars, flagVars, free, pending, codecVars>>

OutputExits ==
    /\ At("output", "wait")
    /\ abortOutput
    /\ outputQueue = <<>>
    /\ Goto("output", "exited")
    /\ UNCHANGED <<logVars, flagVars, item, free, pending, codecVars, outputQueue>>

\* Mutant: the buffer goes back to the codec before its content is handed on.
DeliverAfterRequeue(t) ==
    /\ At(t, "deliver")
    /\ delivered' = Append(delivered, item[t].frame)
    /\ empty' = empty \cup {item[t].buffer}
    /\ Goto(t, "requeue")
    /\ UNCHANGED <<calls, accepted, flagVars, item, free, pending, inVars, full, outputQueue>>

Deliver(t) ==
    /\ At(t, "deliver")
    /\ delivered' = Append(delivered, item[t].frame)
    /\ Goto(t, "requeue")
    /\ UNCHANGED <<calls, accepted, flagVars, item, free, pending, codecVars, outputQueue>>

\* A failing VIDIOC_QBUF is logged (h264) or ignored (jpeg_hw): the buffer is lost.
Requeue(t) ==
    /\ At(t, "requeue")
    /\ \/ empty' = empty \cup {item[t].buffer}
       \/ "qbuf_capture" \in Faults /\ UNCHANGED empty
    /\ Set(t, NoItem)
    /\ Goto(t, IF t = "poll" THEN "test" ELSE "wait")
    /\ UNCHANGED <<logVars, flagVars, free, pending, inVars, full, outputQueue>>

-----------------------------------------------------------------------------
(* The destructor.  The h264 encoder's is called by the thread that is in  *)
(* Recorder::start() or stop(), not by the one that feeds it; here no      *)
(* encode() is going on then (the overlap is a fault of Recorder.tla).     *)

AbortPoll ==
    /\ owner = "open" /\ At("feeder", "idle")
    /\ abortPoll' = TRUE
    /\ owner' = "join_poll"
    /\ UNCHANGED <<logVars, kind, abortOutput, broken, pc, item, free, pending, codecVars,
                   outputQueue>>

\* Mutant: the output thread is not told.
JoinPollSilently ==
    /\ owner = "join_poll"
    /\ At("poll", "exited")
    /\ owner' = "join_output"
    /\ UNCHANGED <<logVars, kind, abortPoll, abortOutput, broken, pc, item, free, pending,
                   codecVars, outputQueue>>

JoinPoll ==
    /\ owner = "join_poll"
    /\ At("poll", "exited")
    /\ abortOutput' = TRUE
    /\ owner' = "join_output"
    /\ UNCHANGED <<logVars, kind, abortPoll, broken, pc, item, free, pending, codecVars,
                   outputQueue>>

JoinOutput ==
    /\ owner = "join_output"
    /\ At("output", "exited")
    /\ owner' = "stream_off"
    /\ UNCHANGED <<logVars, kind, abortPoll, abortOutput, broken, pc, item, free, pending,
                   codecVars, outputQueue>>

\* STREAMOFF takes everything from the codec; the members go with the object.
Destroy ==
    /\ owner = "stream_off"
    /\ owner' = "gone"
    /\ pending' = [s \in Slots |-> Nothing]
    /\ free' = <<>> /\ outputQueue' = <<>>
    /\ queued' = <<>> /\ read' = <<>> /\ coding' = <<>> /\ empty' = {} /\ full' = <<>>
    /\ UNCHANGED <<logVars, kind, abortPoll, abortOutput, broken, pc, item>>

-----------------------------------------------------------------------------
Feed == QueueOutput \/ QueueFails
Codec == ReadSlot \/ \E b \in CaptureBuffers : WriteResult(b)
Poll ==
    \/ TestAbort \/ PollTimesOut \/ PollDrained \/ PollReady
    \/ DequeueOutput \/ DropFrame \/ DequeueCapture
Hand(t) == Deliver(t) \/ Requeue(t)
Drain == TakeOutput \/ OutputExits \/ Hand("output")
Join == JoinPoll \/ JoinOutput \/ Destroy

Next ==
    \/ Refuse \/ TakeSlot \/ Feed \/ AbortPoll
    \/ Codec
    \/ Poll \/ PollFails \/ Hand("poll")
    \/ Drain
    \/ Join

Spec == Init /\ [][Next]_vars

-----------------------------------------------------------------------------
\* Every slot is in one place: free, in encode()'s hands, or with the codec, and
\* the h264 encoder keeps the frame of a slot from before the codec may read it
\* until the codec has given the slot back.
SlotsConserved ==
    owner # "gone" =>
    LET lent == IF At("feeder", "queue") THEN <<item["feeder"].slot>> ELSE <<>>
        places == free \o lent \o queued \o read
        busy == {s \in Slots : \E i \in 1..Len(queued \o read) : (queued \o read)[i] = s}
    IN  /\ Len(places) = Granted
        /\ \A s \in Slots : \E i \in 1..Granted : places[i] = s
        /\ kind = "h264" => /\ \A s \in busy : pending[s] # Nothing
                            /\ \A i \in 1..Len(free) : pending[free[i]] = Nothing

\* The codec does not write into a CAPTURE buffer whose content is waiting or being
\* handed on, by whichever thread.
CaptureApart ==
    LET waiting == {outputQueue[i].buffer : i \in 1..Len(outputQueue)}
        inHand == {item[t].buffer : t \in {u \in {"poll", "output"} : At(u, "deliver") \/ At(u, "requeue")}}
        written == {full[i].buffer : i \in 1..Len(full)}
    IN  (waiting \cup inHand) \cap (empty \cup written) = {}

Inside == SubSeq(accepted, Len(delivered) + 1, Len(accepted))

Contract == INSTANCE Encoder WITH
    inside <- IF owner = "gone" THEN <<>> ELSE Inside,
    phase <- IF owner = "open" THEN "open" ELSE IF owner = "gone" THEN "closed" ELSE "closing",
    lossy <- kind = "jpeg_hw" \/ broken

\* What encode() accepts is handed on once and in that order, and the destructor
\* returns only when nothing is inside, but for the jpeg_hw encoder and a failed poll().
ImplementsEncoder == Contract!Spec

\* ~H264HardwareEncoder() and ~JpegHwEncoder() return.
DestructorReturns == owner # "open" ~> owner = "gone"

\* The camera gets back every buffer the encoder keeps, unless poll() has failed.
FramesReleased == \A f \in Calls : Holding(f) ~> ~Holding(f) \/ broken
=============================================================================
