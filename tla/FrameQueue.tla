----------------------------- MODULE FrameQueue -----------------------------
(***************************************************************************)
(* FrameQueue<N> of camera/frame_buffer.h: a ring buffer for one producer  *)
(* and one consumer that share no lock.  Each side owns one index, reads   *)
(* the other's, and only then touches a slot; an index is a size_t that    *)
(* wraps round at 2^64, here at Modulus.                                   *)
(*                                                                         *)
(* The release stores and acquire loads of the indices make a slot's       *)
(* contents visible before the index that covers it, so the steps below    *)
(* interleave one at a time.                                               *)
(***************************************************************************)
EXTENDS Integers, Sequences

CONSTANTS
    Frames,
    N,         \* the capacity, a power of 2
    Modulus,   \* the number of values of an index
    Null       \* an empty shared_ptr

ASSUME SizesOK ==
    /\ N \in Nat /\ N >= 2
    /\ Modulus \in Nat /\ Modulus > N /\ Modulus % N = 0
ASSUME NullIsNoFrame == Null \notin Frames

VARIABLES
    slots, write, read,   \* slots_, write_, read_
    producer, frame,      \* label of push() and its argument
    consumer, taken,      \* label of pop() and its local `frame`
    pushed, popped        \* what push() and pop() last returned

producerVars == <<producer, frame, pushed>>
consumerVars == <<consumer, taken, popped>>
vars == <<slots, write, read, producerVars, consumerVars>>

TypeOK ==
    /\ slots \in [0..N-1 -> Frames \cup {Null}]
    /\ write \in 0..Modulus-1 /\ read \in 0..Modulus-1
    /\ producer \in {"idle", "fill", "publish"}
    /\ consumer \in {"idle", "take", "publish"}
    /\ frame \in Frames \cup {Null}
    /\ taken \in Frames \cup {Null}
    /\ pushed \in BOOLEAN
    /\ popped \in Frames \cup {Null}

Init ==
    /\ slots = [i \in 0..N-1 |-> Null]
    /\ write = 0 /\ read = 0
    /\ producer = "idle" /\ consumer = "idle"
    /\ frame = Null /\ taken = Null
    /\ pushed = TRUE /\ popped = Null

Size == (write - read) % Modulus

-----------------------------------------------------------------------------
(* push(): the load of read_, the slot, the store of write_.               *)

\* Mutant: one frame too many.
PushOverfull(f) ==
    /\ producer = "idle"
    /\ IF Size > N
       THEN pushed' = FALSE /\ UNCHANGED <<producer, frame>>
       ELSE frame' = f /\ producer' = "fill" /\ UNCHANGED pushed
    /\ UNCHANGED <<slots, write, read, consumerVars>>

\* Mutant: the number of frames is computed without the wrap-around.
PushUnwrapped(f) ==
    /\ producer = "idle"
    /\ IF write - read = N
       THEN pushed' = FALSE /\ UNCHANGED <<producer, frame>>
       ELSE frame' = f /\ producer' = "fill" /\ UNCHANGED pushed
    /\ UNCHANGED <<slots, write, read, consumerVars>>

Push(f) ==
    /\ producer = "idle"
    /\ IF Size = N
       THEN pushed' = FALSE /\ UNCHANGED <<producer, frame>>
       ELSE frame' = f /\ producer' = "fill" /\ UNCHANGED pushed
    /\ UNCHANGED <<slots, write, read, consumerVars>>

Fill ==
    /\ producer = "fill"
    /\ slots' = [slots EXCEPT ![write % N] = frame]
    /\ frame' = Null
    /\ producer' = "publish"
    /\ UNCHANGED <<write, read, pushed, consumerVars>>

Publish ==
    /\ producer = "publish"
    /\ write' = (write + 1) % Modulus
    /\ pushed' = TRUE
    /\ producer' = "idle"
    /\ UNCHANGED <<slots, read, frame, consumerVars>>

-----------------------------------------------------------------------------
(* pop(): the load of write_, the slot, the store of read_.                *)

Pop ==
    /\ consumer = "idle"
    /\ IF read = write
       THEN popped' = Null /\ UNCHANGED consumer
       ELSE consumer' = "take" /\ UNCHANGED popped
    /\ UNCHANGED <<slots, write, read, taken, producerVars>>

Take ==
    /\ consumer = "take"
    /\ taken' = slots[read % N]
    /\ slots' = [slots EXCEPT ![read % N] = Null]
    /\ consumer' = "publish"
    /\ UNCHANGED <<write, read, popped, producerVars>>

Return ==
    /\ consumer = "publish"
    /\ read' = (read + 1) % Modulus
    /\ popped' = taken
    /\ taken' = Null
    /\ consumer' = "idle"
    /\ UNCHANGED <<slots, write, producerVars>>

-----------------------------------------------------------------------------
Next ==
    \/ (\E f \in Frames : Push(f)) \/ Fill \/ Publish
    \/ Pop \/ Take \/ Return

Spec == Init /\ [][Next]_vars

-----------------------------------------------------------------------------
\* The two sides never touch one slot at the same time, and the producer never
\* overwrites a frame that has not been taken.
SlotsApart ==
    producer = "fill" => /\ slots[write % N] = Null
                         /\ consumer = "take" => write % N # read % N

\* The queue behaves as a queue, and refuses or misses a frame only when full or
\* empty, across the wrap-around of the indices.  A frame that pop() has taken
\* from its slot is still in the queue until read_ is stored.
Contents ==
    [i \in 1..Size |-> IF i = 1 /\ consumer = "publish" THEN taken
                       ELSE slots[(read + i - 1) % N]]

IsFifo == INSTANCE Fifo WITH items <- Contents, Capacity <- N
ImplementsFifo == IsFifo!Spec
=============================================================================
