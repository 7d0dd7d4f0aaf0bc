-------------------------- MODULE Snapshot_proofs --------------------------
(***************************************************************************)
(* Proofs about Snapshot, for any number of clients, of files and of       *)
(* frames, with and without disk faults.                                   *)
(***************************************************************************)
EXTENDS Snapshot, TLAPS

USE NamesDistinct, BoundsOK
    DEF Waiting, ClientLabels, StreamLabels, At, Goto, Reply, Answer, clientVars, streamVars

\* A frame that is being handled has arrived: what Handled counts is not negative.
FrameInv == jpc # "idle" => frame > 0

LEMMA InitType == Init => TypeOK /\ FrameInv
<1>. SUFFICES ASSUME Init PROVE TypeOK /\ FrameInv
  OBVIOUS
<1>1. running \in BOOLEAN /\ pending \in BOOLEAN /\ mutex \in BOOLEAN
  BY DEF Init
<1>. QED BY <1>1 DEF Init, TypeOK, FrameInv

LEMMA StepType == TypeOK /\ FrameInv /\ [Next]_vars => TypeOK' /\ FrameInv'
<1>. SUFFICES ASSUME TypeOK, FrameInv, [Next]_vars PROVE TypeOK' /\ FrameInv'
  OBVIOUS
<1>1. ASSUME NEW c \in Clients, Taking(c) PROVE TypeOK' /\ FrameInv'
  <2>1. CASE SetPath(c) \/ Arm(c) \/ Expire(c) \/ StillPending(c)
    <3>1. pending' \in BOOLEAN /\ running' \in BOOLEAN
      BY <2>1, Zenon DEF TypeOK, SetPath, Arm, Expire, StillPending
    <3>2. UNCHANGED <<want, since, reply, until, mutex, jpc, frame, saved>>
      BY <2>1 DEF SetPath, Arm, Expire, StillPending
    <3>3. pc' \in [Clients -> ClientLabels] /\ path' \in Files \cup {NoFile}
      BY <2>1 DEF TypeOK, SetPath, Arm, Expire, StillPending
    <3>. QED BY <3>1, <3>2, <3>3 DEF TypeOK, FrameInv
  <2>2. CASE Done(c) \/ Cancel(c)
    <3>1. pending' \in BOOLEAN /\ running' \in BOOLEAN
      BY <2>2, Zenon DEF TypeOK, Done, Cancel
    <3>2. UNCHANGED <<want, since, path, mutex, jpc, frame, saved>>
      BY <2>2 DEF Done, Cancel
    <3>3. /\ pc' \in [Clients -> ClientLabels] /\ reply' \in [Clients -> {"none", "ok", "error"}]
          /\ until' \in [Clients -> 0..MaxFrames]
      BY <2>2 DEF TypeOK, Done, Cancel
    <3>. QED BY <3>1, <3>2, <3>3 DEF TypeOK, FrameInv
  <2>. QED BY <1>1, <2>1, <2>2 DEF Taking
<1>2. ASSUME NEW c \in Clients, NEW f \in Files \cup {NoFile}, Request(c, f) PROVE TypeOK' /\ FrameInv'
  <2>1. Handled \in 0..MaxFrames
    BY DEF TypeOK, FrameInv, Handled
  <2>. QED BY <1>2, <2>1 DEF TypeOK, FrameInv, Request
<1>3. CASE Arrive
  BY <1>3 DEF TypeOK, FrameInv, Arrive
<1>4. CASE Streaming
  BY <1>4 DEF TypeOK, FrameInv, Streaming, Test, Lock, Write, Disarm
<1>5. CASE CameraChanges
  BY <1>5 DEF TypeOK, FrameInv, CameraChanges
<1>6. CASE UNCHANGED vars
  BY <1>6 DEF TypeOK, FrameInv, vars
<1>. QED BY <1>1, <1>2, <1>3, <1>4, <1>5, <1>6 DEF Next

\* The variables of take_snapshot() and on_jpeg_sample() keep their types.
THEOREM TypeCorrect == Spec => []TypeOK
<1>. QED BY InitType, StepType, PTL DEF Spec

-----------------------------------------------------------------------------
\* A step of take_snapshot() that leaves the waiting labels found or left the flag
\* down; every other step of any thread keeps those who wait.
LEMMA StepWaiter ==
  TypeOK /\ PendingHasWaiter /\ [Next]_vars => PendingHasWaiter'
<1>. SUFFICES ASSUME TypeOK, PendingHasWaiter, [Next]_vars, pending'
              PROVE  \E w \in Clients : pc'[w] \in Waiting
  BY DEF PendingHasWaiter
<1>. pc \in [Clients -> ClientLabels]
  BY DEF TypeOK
<1>1. CASE pc' = pc /\ pending' = pending
  BY <1>1 DEF PendingHasWaiter
<1>2. ASSUME NEW c \in Clients, Taking(c) PROVE \E w \in Clients : pc'[w] \in Waiting
  <2>1. CASE SetPath(c)
    <3>1. PICK w \in Clients : pc[w] \in Waiting
      BY <2>1 DEF SetPath, PendingHasWaiter
    <3>2. w # c /\ pc'[w] = pc[w]
      BY <2>1, <3>1 DEF SetPath
    <3>. QED BY <3>1, <3>2
  <2>2. CASE Arm(c) \/ Expire(c) \/ StillPending(c)
    BY <2>2 DEF Arm, Expire, StillPending
  <2>3. CASE Done(c)      \* the flag is down
    BY <2>3 DEF Done
  <2>4. CASE Cancel(c)    \* the flag is taken down
    BY <2>4 DEF Cancel
  <2>. QED BY <1>2, <2>1, <2>2, <2>3, <2>4 DEF Taking
<1>3. ASSUME NEW c \in Clients, NEW f \in Files \cup {NoFile}, Request(c, f)
      PROVE  \E w \in Clients : pc'[w] \in Waiting
  <2>1. PICK w \in Clients : pc[w] \in Waiting
    BY <1>3 DEF Request, PendingHasWaiter
  <2>2. w # c /\ pc'[w] = pc[w]
    BY <1>3, <2>1 DEF Request
  <2>. QED BY <2>1, <2>2
<1>4. CASE Arrive \/ CameraChanges
  BY <1>1, <1>4 DEF Arrive, CameraChanges
<1>5. CASE Streaming      \* keeps the flag or, in Disarm, takes it down
  BY <1>1, <1>5 DEF Streaming, Test, Lock, Write, Disarm
<1>6. CASE UNCHANGED vars
  BY <1>1, <1>6 DEF vars
<1>. QED BY <1>2, <1>3, <1>4, <1>5, <1>6 DEF Next

\* With any number of clients snapshot_pending_ is up only while a take_snapshot() waits,
\* so that no frame is taken for a snapshot nobody waits for.
THEOREM WaiterBehindFlag == Spec => []PendingHasWaiter
<1>1. Init => PendingHasWaiter
  BY DEF Init, PendingHasWaiter
<1>. QED BY <1>1, TypeCorrect, StepWaiter, PTL DEF Spec

-----------------------------------------------------------------------------
(* One client and a disk that takes the file                               *)

Fresh(c) == want[c] \in Files => saved[want[c]] > since[c]

\* Once its path is set, a request has either kept it or had its frame: the frame that
\* takes the path away, though it may have been tested for an earlier request, is one
\* that was not yet handled when this request came.
FreshInv ==
    /\ mutex <=> jpc \in {"write", "disarm"}
    /\ jpc = "disarm" => path = NoFile
    /\ \A c \in Clients : since[c] <= Handled
    /\ \A c \in Clients : pc[c] \in {"arm"} \cup Waiting => path = want[c] \/ Fresh(c)
    /\ \A c \in Clients : pc[c] \in {"wait", "expired"} /\ ~pending => Fresh(c)
    /\ \A c \in Clients : At(c, "idle") /\ reply[c] = "ok" => Fresh(c)

LEMMA InitFresh == Init => FreshInv
BY DEF Init, FreshInv, Handled

\* The client's steps, with the streaming thread anywhere.
LEMMA ClientFresh ==
  ASSUME TypeOK, FrameInv, FreshInv, NEW c \in Clients, \A d \in Clients : d = c,
         Taking(c) \/ \E f \in Files \cup {NoFile} : Request(c, f)
  PROVE  FreshInv'
<1>. USE DEF TypeOK, FreshInv, Fresh, Handled
<1>1. ASSUME NEW f \in Files \cup {NoFile}, Request(c, f) PROVE FreshInv'
  BY <1>1 DEF Request, FrameInv
<1>2. CASE SetPath(c)
  BY <1>2 DEF SetPath
<1>3. CASE Arm(c)
  BY <1>3 DEF Arm
<1>4. CASE Done(c)
  BY <1>4 DEF Done
<1>5. CASE Expire(c) \/ StillPending(c)
  BY <1>5 DEF Expire, StillPending
<1>6. CASE Cancel(c)
  BY <1>6 DEF Cancel
<1>. QED BY <1>1, <1>2, <1>3, <1>4, <1>5, <1>6 DEF Taking

\* The streaming thread's steps, with the client anywhere.
LEMMA StreamFresh ==
  ASSUME TypeOK, FrameInv, FreshInv, ~DiskFaults,
         Arrive \/ Streaming \/ CameraChanges \/ UNCHANGED vars
  PROVE  FreshInv'
<1>. USE DEF TypeOK, FreshInv, Fresh, Handled
<1>1. CASE Arrive \/ Test \/ Lock \/ CameraChanges \/ UNCHANGED vars
  BY <1>1 DEF Arrive, Test, Lock, CameraChanges, vars
<1>2. CASE Write
  <2>1. \A c \in Clients : since[c] < frame
    BY <1>2 DEF Write
  <2>2. \A f \in Files : saved'[f] = saved[f] \/ saved'[f] = frame
    BY <1>2 DEF Write
  <2>3. want' = want /\ since' = since /\ pc' = pc /\ reply' = reply
    BY <1>2 DEF Write
  <2>4. \A c \in Clients : Fresh(c) => Fresh(c)'
    BY <2>1, <2>2, <2>3
  <2>5. \A c \in Clients : path = want[c] /\ want[c] \in Files => Fresh(c)'
    BY <1>2, <2>1 DEF Write
  <2>. QED BY <1>2, <2>3, <2>4, <2>5 DEF Write
<1>3. CASE Disarm
  BY <1>3 DEF Disarm
<1>. QED BY <1>1, <1>2, <1>3 DEF Streaming

LEMMA StepFresh ==
  ASSUME \A c, d \in Clients : c = d, ~DiskFaults, TypeOK, FrameInv, FreshInv, [Next]_vars
  PROVE  FreshInv'
BY ClientFresh, StreamFresh DEF Next

\* With one client and a disk that takes the file, ok means that a frame that was not
\* yet handled at the time of the request is in the file it named, if it named one,
\* whichever request that frame was tested for, whatever is cancelled late and whenever
\* the pipeline stops.
THEOREM OkIsFresh ==
  ASSUME \A c, d \in Clients : c = d, ~DiskFaults
  PROVE  Spec => []OkMeansFresh
<1>1. TypeOK /\ FrameInv /\ FreshInv /\ [Next]_vars => FreshInv'
  BY StepFresh
<1>2. TypeOK /\ FreshInv => OkMeansFresh
  BY DEF TypeOK, FreshInv, Fresh, OkMeansFresh
<1>. QED BY <1>1, <1>2, InitType, StepType, InitFresh, PTL DEF Spec

-----------------------------------------------------------------------------
(* One client, any disk                                                    *)

\* A frame that is past its test when nobody waits had arrived before the last reply.
LateInv ==
    /\ \A f \in Files : saved[f] <= frame
    /\ \A c \in Clients : At(c, "idle") /\ reply[c] # "none" =>
          /\ jpc \in {"lock", "write"} => frame <= until[c]
          /\ want[c] \in Files => saved[want[c]] <= until[c]

LEMMA InitLate == Init => LateInv
BY DEF Init, LateInv

LEMMA StepLate ==
  ASSUME \A c, d \in Clients : c = d, TypeOK, PendingHasWaiter, LateInv, [Next]_vars
  PROVE  LateInv'
<1>. USE DEF TypeOK, LateInv
<1>1. ASSUME NEW c \in Clients, Taking(c) PROVE LateInv'
  BY <1>1 DEF Taking, SetPath, Arm, Done, Expire, StillPending, Cancel
<1>2. ASSUME NEW c \in Clients, NEW f \in Files \cup {NoFile}, Request(c, f) PROVE LateInv'
  BY <1>2 DEF Request
<1>3. CASE Arrive
  BY <1>3 DEF Arrive
<1>4. CASE Test
  <2>1. pending => \A c \in Clients : ~At(c, "idle")
    BY DEF PendingHasWaiter
  <2>. QED BY <1>4, <2>1 DEF Test
<1>5. CASE Write
  BY <1>5 DEF Write
<1>6. CASE Lock \/ Disarm \/ CameraChanges \/ UNCHANGED vars
  BY <1>6 DEF Lock, Disarm, CameraChanges, vars
<1>. QED BY <1>1, <1>2, <1>3, <1>4, <1>5, <1>6 DEF Next, Streaming

\* With one client no frame that arrives after take_snapshot() has returned, true or
\* false, is written to its file.
THEOREM NothingLate ==
  ASSUME \A c, d \in Clients : c = d
  PROVE  Spec => []NothingAfterReply
<1>1. TypeOK /\ PendingHasWaiter /\ LateInv /\ [Next]_vars => LateInv'
  BY StepLate
<1>2. TypeOK /\ LateInv => NothingAfterReply
  BY DEF TypeOK, LateInv, NothingAfterReply
<1>. QED BY <1>1, <1>2, TypeCorrect, WaiterBehindFlag, InitLate, PTL DEF Spec
=============================================================================
