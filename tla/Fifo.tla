-------------------------------- MODULE Fifo --------------------------------
(***************************************************************************)
(* What FrameQueue<N> promises its producer and its consumer: a queue of   *)
(* at most Capacity frames in the order they were pushed, each popped      *)
(* once; push() returns false only when the queue is full and pop()        *)
(* returns nullptr only when it is empty.                                  *)
(***************************************************************************)
EXTENDS Integers, Sequences

CONSTANTS Frames, Capacity, Null

VARIABLES
    items,    \* the frames in the queue
    pushed,   \* what the last push() returned
    popped    \* what the last pop() returned

vars == <<items, pushed, popped>>

Init == items = <<>> /\ pushed = TRUE /\ popped = Null

Put(f) ==
    /\ Len(items) < Capacity
    /\ items' = Append(items, f)
    /\ pushed' = TRUE
    /\ UNCHANGED popped

Refuse ==
    /\ Len(items) = Capacity
    /\ pushed' = FALSE
    /\ UNCHANGED <<items, popped>>

Get ==
    /\ items # <<>>
    /\ popped' = Head(items)
    /\ items' = Tail(items)
    /\ UNCHANGED pushed

Miss ==
    /\ items = <<>>
    /\ popped' = Null
    /\ UNCHANGED <<items, pushed>>

Next == (\E f \in Frames : Put(f)) \/ Refuse \/ Get \/ Miss

Spec == Init /\ [][Next]_vars
=============================================================================
