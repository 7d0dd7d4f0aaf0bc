--------------------------- MODULE JpegMtEncoder ----------------------------
(***************************************************************************)
(* The software JPEG encoder (stream/jpeg_mt_encoder.cpp): the camera      *)
(* consumer's thread queues frames, worker threads copy and compress them  *)
(* in parallel, each into an output queue of its own, and an output thread *)
(* hands the results on in the order of their indices.                     *)
(*                                                                         *)
(* Both condition variables are waited on for 200 ms at most, so a waiting *)
(* thread is one whose predicate may be tested at any time.  A frame is    *)
(* the number of the encode() call that brought it; its pixels and the     *)
(* compression are left out.                                               *)
(***************************************************************************)
EXTENDS Integers, Sequences, FiniteSets

CONSTANTS
    Workers,     \* NUM_THREADS encode threads
    Output,      \* the output thread
    MaxQueue,    \* MAX_QUEUE
    MaxCalls     \* bound: calls of encode()

VARIABLES
    calls,       \* calls of encode() so far
    accepted,    \* the frames encode() returned true for, in that order
    delivered,   \* the frames output_cb_ was called with
    owner,       \* label of the destructor
    pc,          \* [Workers \cup {Output} -> label]
    item,        \* [Workers \cup {Output} -> the thread's local item]
    encQueue,    \* enc_queue_
    nextIndex,   \* next_index_
    abortEnc, abortOut,   \* abort_enc_, abort_out_
    outQueues,   \* out_queues_: [Workers -> sequence of results]
    expected     \* the output thread's local `expected`

encVars == <<encQueue, nextIndex, abortEnc>>
outVars == <<outQueues, abortOut, expected>>
logVars == <<calls, accepted, delivered>>
vars == <<logVars, owner, pc, item, encVars, outVars>>

Items  == [frame : 1..MaxCalls, index : 0..MaxCalls]
NoItem == [frame |-> 0, index |-> 0]
Threads == Workers \cup {Output}

TypeOK ==
    /\ calls \in 0..MaxCalls
    /\ accepted \in Seq(1..MaxCalls) /\ delivered \in Seq(1..MaxCalls)
    /\ owner \in {"open", "join_workers", "join_output", "gone"}
    /\ pc \in [Threads -> {"take", "copy", "encode", "deliver", "exited"}]
    /\ item \in [Threads -> Items \cup {NoItem}]
    /\ encQueue \in Seq(Items) /\ Len(encQueue) <= MaxQueue
    /\ nextIndex \in 0..MaxCalls /\ expected \in 0..MaxCalls
    /\ abortEnc \in BOOLEAN /\ abortOut \in BOOLEAN
    /\ outQueues \in [Workers -> Seq(Items)]

Init ==
    /\ calls = 0 /\ accepted = <<>> /\ delivered = <<>>
    /\ owner = "open"
    /\ pc = [t \in Threads |-> "take"]
    /\ item = [t \in Threads |-> NoItem]
    /\ encQueue = <<>> /\ nextIndex = 0 /\ abortEnc = FALSE
    /\ outQueues = [w \in Workers |-> <<>>]
    /\ abortOut = FALSE /\ expected = 0

At(t, label) == pc[t] = label
Goto(t, label) == pc' = [pc EXCEPT ![t] = label]

\* The frames whose camera buffer the encoder keeps.
Holding(f) ==
    \/ \E i \in 1..Len(encQueue) : encQueue[i].frame = f
    \/ \E w \in Workers : At(w, "copy") /\ item[w].frame = f

-----------------------------------------------------------------------------
\* encode(): a full queue refuses the frame.
Encode ==
    /\ owner = "open"
    /\ calls < MaxCalls
    /\ calls' = calls + 1
    /\ IF Len(encQueue) >= MaxQueue
       THEN UNCHANGED <<accepted, encQueue, nextIndex>>
       ELSE /\ encQueue' = Append(encQueue, [frame |-> calls', index |-> nextIndex])
            /\ nextIndex' = nextIndex + 1
            /\ accepted' = Append(accepted, calls')
    /\ UNCHANGED <<delivered, owner, pc, item, abortEnc, outVars>>

TakeFrame(w) ==
    /\ At(w, "take")
    /\ encQueue # <<>>
    /\ item' = [item EXCEPT ![w] = Head(encQueue)]
    /\ encQueue' = Tail(encQueue)
    /\ Goto(w, "copy")
    /\ UNCHANGED <<logVars, owner, nextIndex, abortEnc, outVars>>

WorkerExits(w) ==
    /\ At(w, "take")
    /\ abortEnc
    /\ encQueue = <<>>
    /\ Goto(w, "exited")
    /\ UNCHANGED <<logVars, owner, item, encVars, outVars>>

\* The planes are copied and item.frame is reset before the compression.
Copy(w) ==
    /\ At(w, "copy")
    /\ Goto(w, "encode")
    /\ UNCHANGED <<logVars, owner, item, encVars, outVars>>

\* do_encode(), and the result into the worker's own queue.
PushResult(w) ==
    /\ At(w, "encode")
    /\ outQueues' = [outQueues EXCEPT ![w] = Append(@, item[w])]
    /\ item' = [item EXCEPT ![w] = NoItem]
    /\ Goto(w, "take")
    /\ UNCHANGED <<logVars, owner, encVars, abortOut, expected>>

-----------------------------------------------------------------------------
(* output_thread_fn()                                                      *)

\* Mutant: any result will do.
FindAny(w) ==
    /\ At(Output, "take")
    /\ outQueues[w] # <<>>
    /\ item' = [item EXCEPT ![Output] = Head(outQueues[w])]
    /\ outQueues' = [outQueues EXCEPT ![w] = Tail(@)]
    /\ Goto(Output, "deliver")
    /\ UNCHANGED <<logVars, owner, encVars, abortOut, expected>>

FindExpected(w) ==
    /\ At(Output, "take")
    /\ outQueues[w] # <<>>
    /\ Head(outQueues[w]).index = expected
    /\ item' = [item EXCEPT ![Output] = Head(outQueues[w])]
    /\ outQueues' = [outQueues EXCEPT ![w] = Tail(@)]
    /\ Goto(Output, "deliver")
    /\ UNCHANGED <<logVars, owner, encVars, abortOut, expected>>

OutputExits ==
    /\ At(Output, "take")
    /\ abortOut
    /\ \A w \in Workers : outQueues[w] = <<>>
    /\ Goto(Output, "exited")
    /\ UNCHANGED <<logVars, owner, item, encVars, outVars>>

Deliver ==
    /\ At(Output, "deliver")
    /\ delivered' = Append(delivered, item[Output].frame)
    /\ item' = [item EXCEPT ![Output] = NoItem]
    /\ expected' = expected + 1
    /\ Goto(Output, "take")
    /\ UNCHANGED <<calls, accepted, owner, encVars, outQueues, abortOut>>

-----------------------------------------------------------------------------
(* ~JpegMtEncoder(), called by the thread that feeds the encoder.          *)

AbortEncode ==
    /\ owner = "open"
    /\ abortEnc' = TRUE
    /\ owner' = "join_workers"
    /\ UNCHANGED <<logVars, pc, item, encQueue, nextIndex, outVars>>

JoinWorkers ==
    /\ owner = "join_workers"
    /\ \A w \in Workers : At(w, "exited")
    /\ abortOut' = TRUE
    /\ owner' = "join_output"
    /\ UNCHANGED <<logVars, pc, item, encVars, outQueues, expected>>

JoinOutput ==
    /\ owner = "join_output"
    /\ At(Output, "exited")
    /\ owner' = "gone"
    /\ UNCHANGED <<logVars, pc, item, encVars, outVars>>

-----------------------------------------------------------------------------
Work(w) == TakeFrame(w) \/ WorkerExits(w) \/ Copy(w) \/ PushResult(w)
Reorder == (\E w \in Workers : FindExpected(w)) \/ OutputExits \/ Deliver
Join == JoinWorkers \/ JoinOutput

Next ==
    \/ Encode \/ AbortEncode
    \/ \E w \in Workers : Work(w)
    \/ Reorder \/ Join

Spec == Init /\ [][Next]_vars

-----------------------------------------------------------------------------
Contract == INSTANCE Encoder WITH
    inside <- SubSeq(accepted, Len(delivered) + 1, Len(accepted)),
    phase <- IF owner = "open" THEN "open" ELSE IF owner = "gone" THEN "closed" ELSE "closing",
    lossy <- FALSE

\* What encode() accepts is handed on once and in that order, whichever worker ends
\* first, and the destructor returns only when nothing is inside.
ImplementsEncoder == Contract!Spec

\* ~JpegMtEncoder() returns.
DestructorReturns == owner # "open" ~> owner = "gone"

\* The camera gets back every buffer the encoder keeps.
FramesReleased == \A f \in 1..MaxCalls : Holding(f) ~> ~Holding(f)
=============================================================================
