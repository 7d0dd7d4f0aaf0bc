------------------------------ MODULE Encoder -------------------------------
(***************************************************************************)
(* What an encoder of the first-generation pipeline promises the thread    *)
(* that feeds it and the callback it feeds: a frame encode() has accepted  *)
(* is handed on once, in the order of acceptance, and its destructor       *)
(* returns only when nothing is inside, unless the encoder is one that     *)
(* may throw away what it has.                                             *)
(***************************************************************************)
EXTENDS Integers, Sequences

VARIABLES
    inside,     \* the accepted frames not yet handed on, oldest first
    delivered,  \* the frames handed to the output callback
    phase,      \* "open", "closing", "closed"
    lossy       \* the encoder may throw away what is inside

vars == <<inside, delivered, phase, lossy>>

Init == inside = <<>> /\ delivered = <<>> /\ phase = "open" /\ lossy \in BOOLEAN

Accept ==
    /\ phase = "open"
    /\ Len(inside') = Len(inside) + 1
    /\ SubSeq(inside', 1, Len(inside)) = inside
    /\ UNCHANGED <<delivered, phase, lossy>>

Deliver ==
    /\ phase # "closed"
    /\ inside # <<>>
    /\ delivered' = Append(delivered, Head(inside))
    /\ inside' = Tail(inside)
    /\ UNCHANGED <<phase, lossy>>

Close ==
    /\ phase = "open"
    /\ phase' = "closing"
    /\ UNCHANGED <<inside, delivered, lossy>>

Break == lossy' = TRUE /\ UNCHANGED <<inside, delivered, phase>>

Finish ==
    /\ phase = "closing"
    /\ inside = <<>> \/ lossy
    /\ phase' = "closed"
    /\ inside' = <<>>
    /\ UNCHANGED <<delivered, lossy>>

Next == Accept \/ Deliver \/ Close \/ Break \/ Finish

Spec == Init /\ [][Next]_vars
=============================================================================
