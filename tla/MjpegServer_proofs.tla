-------------------------- MODULE MjpegServer_proofs --------------------------
(***************************************************************************)
(* Proofs about MjpegServer, for any number of viewers, of frames and any  *)
(* sizes of the worker pool: no wake-up is lost, a viewer's frames only    *)
(* get newer, and client_count_ counts the streams being served.           *)
(***************************************************************************)
EXTENDS MjpegServer, FiniteSetTheorems, TLAPS

USE NamesDistinct, BoundsOK
    DEF At, Goto, Frames, frameVars, viewerVars, serverVars

WorkerLabels == {"gone", "queued", "provide", "lock", "blocked", "copy", "write", "release"}

\* TypeOK but for count, which is a natural number because it counts.
PartsOK ==
    /\ latest \in Frames /\ seq \in Frames
    /\ mutex \in Viewers \cup {Camera, Free}
    /\ cpc \in {"idle", "store", "number", "notify"}
    /\ pc \in [Viewers -> WorkerLabels]
    /\ prev \in [Viewers -> Frames]
    /\ jpeg \in [Viewers -> Frames]
    /\ shown \in [Viewers -> Frames]
    /\ pool \in Pools
    /\ server \in {"off", "starting", "listening", "draining", "ended"}
    /\ stopper \in {"no", "joining", "done"}

\* A frame is delivered only while there is one to deliver (MaxFrames bounds them).
RoomInv == cpc \in {"store", "number"} => seq < MaxFrames

\* client_count_ counts the workers in handle_stream(), and the pool bounds them.
CountInv == IsFiniteSet(Serving) /\ count = Cardinality(Serving) /\ count <= pool

TypeInv == PartsOK /\ RoomInv /\ CountInv

\* The steps that neither begin nor end a stream.
Inside(v) == Turn(v) \/ Provide(v) \/ Await(v) \/ TimeOut(v) \/ Copy(v) \/ Write(v)

-----------------------------------------------------------------------------
LEMMA InitType == Init => TypeInv
<1>. SUFFICES ASSUME Init PROVE TypeInv
  OBVIOUS
<1>1. PartsOK /\ RoomInv
  BY DEF Init, PartsOK, RoomInv, WorkerLabels
<1>2. Serving = {}
  BY DEF Init, Serving
<1>3. CountInv
  BY <1>2, FS_EmptySet DEF Init, CountInv
<1>. QED BY <1>1, <1>3 DEF TypeInv

LEMMA StepParts == PartsOK /\ RoomInv /\ [Next]_vars => PartsOK' /\ RoomInv'
<1>. SUFFICES ASSUME PartsOK, RoomInv, [Next]_vars PROVE PartsOK' /\ RoomInv'
  OBVIOUS
<1>. USE DEF PartsOK, RoomInv, WorkerLabels
<1>1. CASE LockJpeg \/ Store
  BY <1>1 DEF LockJpeg, Store
<1>2. CASE Number \/ Notify
  BY <1>2 DEF Number, Notify
<1>3. ASSUME NEW v \in Viewers, Connect(v) \/ PeerLost(v) \/ Begin(v) PROVE PartsOK' /\ RoomInv'
  BY <1>3 DEF Connect, PeerLost, Begin
<1>4. ASSUME NEW v \in Viewers, Turn(v) \/ Provide(v) \/ Release(v) PROVE PartsOK' /\ RoomInv'
  BY <1>4 DEF Turn, Provide, Release
<1>5. ASSUME NEW v \in Viewers, Await(v) \/ TimeOut(v) PROVE PartsOK' /\ RoomInv'
  BY <1>5 DEF Await, TimeOut
<1>6. ASSUME NEW v \in Viewers, Copy(v) \/ Write(v) PROVE PartsOK' /\ RoomInv'
  BY <1>6 DEF Copy, Write
<1>7. CASE Start \/ Serve \/ Stop
  BY <1>7 DEF Start, Serve, Listen, ListenFails, Drained, Join, Stop
<1>8. CASE UNCHANGED vars
  BY <1>8 DEF vars
<1>. QED BY <1>1, <1>2, <1>3, <1>4, <1>5, <1>6, <1>7, <1>8 DEF Next, Deliver, Work

\* A worker that takes a connection is counted, and one that releases it is not; every
\* other step of any thread leaves the set of those served as it is.
LEMMA StepCount == PartsOK /\ CountInv /\ [Next]_vars => CountInv'
<1>. SUFFICES ASSUME PartsOK, CountInv, [Next]_vars PROVE CountInv'
  OBVIOUS
<1>. USE DEF PartsOK, WorkerLabels
<1>1. ASSUME NEW v \in Viewers, Begin(v) PROVE CountInv'
  <2>1. Serving' = Serving \cup {v} /\ v \notin Serving
    BY <1>1 DEF Begin, Serving
  <2>2. count' = count + 1 /\ pool' = pool /\ Cardinality(Serving) < pool
    BY <1>1 DEF Begin
  <2>3. count \in Nat /\ pool \in Nat
    BY FS_CardinalityType DEF CountInv
  <2>4. IsFiniteSet(Serving') /\ Cardinality(Serving') = Cardinality(Serving) + 1
    BY <2>1, FS_AddElement DEF CountInv
  <2>. QED BY <2>2, <2>3, <2>4 DEF CountInv
<1>2. ASSUME NEW v \in Viewers, Release(v) PROVE CountInv'
  <2>1. Serving' = Serving \ {v} /\ v \in Serving
    BY <1>2 DEF Release, Serving
  <2>2. count' = count - 1 /\ pool' = pool
    BY <1>2 DEF Release
  <2>3. count \in Nat /\ pool \in Nat
    BY FS_CardinalityType DEF CountInv
  <2>4. IsFiniteSet(Serving') /\ Cardinality(Serving') = Cardinality(Serving) - 1
    BY <2>1, FS_RemoveElement DEF CountInv
  <2>. QED BY <2>2, <2>3, <2>4 DEF CountInv
<1>3. ASSUME Serving' = Serving, count' = count, pool' = pool PROVE CountInv'
  BY <1>3 DEF CountInv
<1>4. ASSUME NEW v \in Viewers, Connect(v) \/ PeerLost(v) \/ Inside(v) PROVE CountInv'
  <2>1. count' = count /\ pool' = pool
    BY <1>4 DEF Connect, PeerLost, Inside, Turn, Provide, Await, TimeOut, Copy, Write
  <2>2. Serving' = Serving
    <3>1. CASE Connect(v) \/ PeerLost(v) \/ Turn(v) \/ Provide(v)
      BY <3>1 DEF Connect, PeerLost, Turn, Provide, Serving
    <3>2. CASE Await(v) \/ TimeOut(v)
      BY <3>2 DEF Await, TimeOut, Serving
    <3>3. CASE Copy(v) \/ Write(v)
      BY <3>3 DEF Copy, Write, Serving
    <3>. QED BY <1>4, <3>1, <3>2, <3>3 DEF Inside
  <2>. QED BY <1>3, <2>1, <2>2
<1>5. CASE LockJpeg \/ Deliver
  <2>1. count' = count /\ pool' = pool
    BY <1>5 DEF LockJpeg, Deliver, Store, Number, Notify
  <2>2. Serving' = Serving
    BY <1>5 DEF LockJpeg, Deliver, Store, Number, Notify, Serving
  <2>. QED BY <1>3, <2>1, <2>2
<1>6. CASE Start \/ Serve \/ Stop
  BY <1>3, <1>6 DEF Start, Serve, Listen, ListenFails, Drained, Join, Stop, Serving
<1>7. CASE UNCHANGED vars
  BY <1>3, <1>7 DEF vars, Serving
<1>. QED BY <1>1, <1>2, <1>4, <1>5, <1>6, <1>7 DEF Next, Work, Inside

LEMMA TypeInvHolds == Spec => []TypeInv
<1>1. TypeInv /\ [Next]_vars => TypeInv'
  BY StepParts, StepCount DEF TypeInv
<1>. QED BY InitType, <1>1, PTL DEF Spec

\* The variables of the server and of its workers keep their types.
THEOREM TypeCorrect == Spec => []TypeOK
<1>1. TypeInv => TypeOK
  BY FS_CardinalityType DEF TypeInv, PartsOK, CountInv, TypeOK, WorkerLabels
<1>. QED BY <1>1, TypeInvHolds, PTL

-----------------------------------------------------------------------------
\* Nobody is connected to a server that does not listen yet, or has ended.
IdleInv == server \in {"off", "starting", "ended"} => \A v \in Viewers : pc[v] = "gone"

LEMMA StepIdle == TypeInv /\ IdleInv /\ [Next]_vars => IdleInv'
<1>. SUFFICES ASSUME TypeInv, IdleInv, [Next]_vars PROVE IdleInv'
  OBVIOUS
<1>. USE DEF TypeInv, PartsOK, WorkerLabels, IdleInv
<1>1. CASE LockJpeg \/ Deliver
  BY <1>1 DEF LockJpeg, Deliver, Store, Number, Notify
<1>2. ASSUME NEW v \in Viewers, Connect(v) \/ PeerLost(v) \/ Begin(v) \/ Release(v) PROVE IdleInv'
  BY <1>2 DEF Connect, PeerLost, Begin, Release
<1>3. ASSUME NEW v \in Viewers, Inside(v) PROVE IdleInv'
  BY <1>3 DEF Inside, Turn, Provide, Await, TimeOut, Copy, Write
<1>4. CASE Start \/ Serve \/ Stop
  BY <1>4 DEF Start, Serve, Listen, ListenFails, Drained, Join, Stop
<1>5. CASE UNCHANGED vars
  BY <1>5 DEF vars
<1>. QED BY <1>1, <1>2, <1>3, <1>4, <1>5 DEF Next, Work, Inside

\* client_count_ is the number of viewers being served, never more than the pool has,
\* and 0 once the server has ended, however many viewers come, go and are lost.
THEOREM ClientsCounted == Spec => []CountIsRight
<1>1. Init => IdleInv
  BY DEF Init, IdleInv
<1>2. TypeInv /\ IdleInv => CountIsRight
  <2>. SUFFICES ASSUME TypeInv, IdleInv, server = "ended" PROVE count = 0
    BY DEF TypeInv, CountInv, CountIsRight
  <2>1. Serving = {}
    BY DEF IdleInv, Serving
  <2>. QED BY <2>1, FS_EmptySet DEF TypeInv, CountInv
<1>. QED BY <1>1, <1>2, TypeInvHolds, StepIdle, PTL DEF Spec

-----------------------------------------------------------------------------
LEMMA StepWakeup == TypeInv /\ NoLostWakeup /\ [Next]_vars => NoLostWakeup'
<1>. SUFFICES ASSUME TypeInv, NoLostWakeup, [Next]_vars PROVE NoLostWakeup'
  OBVIOUS
<1>. USE DEF TypeInv, PartsOK, WorkerLabels, NoLostWakeup
<1>1. CASE LockJpeg \/ Store
  BY <1>1 DEF LockJpeg, Store
<1>2. CASE Number
  BY <1>2 DEF Number
<1>3. CASE Notify
  BY <1>3 DEF Notify
<1>4. ASSUME NEW v \in Viewers, Connect(v) \/ PeerLost(v) \/ Begin(v) \/ Release(v)
      PROVE  NoLostWakeup'
  BY <1>4 DEF Connect, PeerLost, Begin, Release
<1>5. ASSUME NEW v \in Viewers, Await(v) PROVE NoLostWakeup'
  BY <1>5 DEF Await      \* it blocks only if there is no newer frame
<1>6. ASSUME NEW v \in Viewers, Turn(v) \/ Provide(v) \/ TimeOut(v) PROVE NoLostWakeup'
  BY <1>6 DEF Turn, Provide, TimeOut
<1>7. ASSUME NEW v \in Viewers, Copy(v) \/ Write(v) PROVE NoLostWakeup'
  BY <1>7 DEF Copy, Write
<1>8. CASE Start \/ Serve \/ Stop
  BY <1>8 DEF Start, Serve, Listen, ListenFails, Drained, Join, Stop
<1>9. CASE UNCHANGED vars
  BY <1>9 DEF vars
<1>. QED BY <1>1, <1>2, <1>3, <1>4, <1>5, <1>6, <1>7, <1>8, <1>9 DEF Next, Work, Deliver

\* With any number of viewers, one that sleeps past a newer frame is about to be
\* notified: the frame is numbered before the notification and notify_all() wakes all.
THEOREM WakeupsKept == Spec => []NoLostWakeup
<1>1. Init => NoLostWakeup
  BY DEF Init, NoLostWakeup
<1>. QED BY <1>1, TypeInvHolds, StepWakeup, PTL DEF Spec

-----------------------------------------------------------------------------
(* What the lock protects, and why a viewer's frames advance               *)

\* jpeg_mutex_ is held by who is between its lock and its unlock.
MutexInv ==
    /\ mutex = Camera <=> cpc \in {"store", "number"}
    /\ \A v \in Viewers : mutex = v <=> pc[v] = "copy"

\* latest_seq_ is the number of latest_jpeg_ whenever the camera is not storing.
NumberInv == latest = IF cpc = "number" THEN seq + 1 ELSE seq

\* A viewer that copies has a newer frame to copy, and what it then writes is newer
\* than all it has written.
ViewerInv ==
    \A v \in Viewers :
        /\ pc[v] = "copy" => seq > prev[v]
        /\ shown[v] <= prev[v]
        /\ pc[v] = "write" => shown[v] < jpeg[v] /\ jpeg[v] <= prev[v]

FrameInv == MutexInv /\ NumberInv /\ ViewerInv

LEMMA StepFrame == TypeInv /\ FrameInv /\ [Next]_vars => FrameInv'
<1>. SUFFICES ASSUME TypeInv, FrameInv, [Next]_vars PROVE FrameInv'
  OBVIOUS
<1>. USE DEF TypeInv, PartsOK, WorkerLabels, FrameInv, MutexInv, NumberInv, ViewerInv
<1>1. CASE LockJpeg
  BY <1>1 DEF LockJpeg
<1>2. CASE Store
  BY <1>2 DEF Store
<1>3. CASE Number      \* the camera has the lock: nobody copies
  BY <1>3 DEF Number
<1>4. CASE Notify
  BY <1>4 DEF Notify
<1>5. ASSUME NEW v \in Viewers, Connect(v) \/ Release(v) PROVE FrameInv'
  BY <1>5 DEF Connect, Release
<1>6. ASSUME NEW v \in Viewers, Begin(v) \/ PeerLost(v) PROVE FrameInv'
  BY <1>6 DEF Begin, PeerLost
<1>7. ASSUME NEW v \in Viewers, Turn(v) \/ Provide(v) PROVE FrameInv'
  BY <1>7 DEF Turn, Provide
<1>8. ASSUME NEW v \in Viewers, Await(v) PROVE FrameInv'
  BY <1>8 DEF Await
<1>9. ASSUME NEW v \in Viewers, TimeOut(v) PROVE FrameInv'
  BY <1>9 DEF TimeOut
<1>10. ASSUME NEW v \in Viewers, Copy(v) PROVE FrameInv'
  BY <1>10 DEF Copy      \* the viewer has the lock: latest is of number seq
<1>11. ASSUME NEW v \in Viewers, Write(v) PROVE FrameInv'
  BY <1>11 DEF Write
<1>12. CASE Start \/ Serve \/ Stop
  BY <1>12 DEF Start, Serve, Listen, ListenFails, Drained, Join, Stop
<1>13. CASE UNCHANGED vars
  BY <1>13 DEF vars
<1>. QED
  BY <1>1, <1>2, <1>3, <1>4, <1>5, <1>6, <1>7, <1>8, <1>9, <1>10, <1>11, <1>12, <1>13
  DEF Next, Work, Deliver

LEMMA StepAdvances ==
  TypeInv /\ FrameInv /\ [Next]_vars =>
      \A v \in Viewers : At(v, "write") /\ pc'[v] = "provide" => shown'[v] > shown[v]
<1>. SUFFICES ASSUME TypeInv, FrameInv, [Next]_vars,
                     NEW v \in Viewers, At(v, "write"), pc'[v] = "provide"
              PROVE  shown'[v] > shown[v]
  OBVIOUS
<1>. USE DEF TypeInv, PartsOK, WorkerLabels, FrameInv, ViewerInv
<1>1. CASE Write(v)
  BY <1>1 DEF Write
<1>2. ASSUME NEW u \in Viewers, Connect(u) \/ PeerLost(u) \/ Begin(u) \/ Release(u) PROVE FALSE
  BY <1>2 DEF Connect, PeerLost, Begin, Release
<1>3. ASSUME NEW u \in Viewers, Inside(u), u # v \/ ~Write(v) PROVE FALSE
  BY <1>3 DEF Inside, Turn, Provide, Await, TimeOut, Copy, Write
<1>4. CASE LockJpeg \/ Deliver \/ Start \/ Serve \/ Stop \/ UNCHANGED vars
  BY <1>4 DEF LockJpeg, Deliver, Store, Number, Notify, Start, Serve, Listen, ListenFails,
              Drained, Join, Stop, vars
<1>. QED BY <1>1, <1>2, <1>3, <1>4 DEF Next, Work, Inside

\* Every frame a viewer gets is newer than the one before: frames may be skipped, never
\* repeated nor sent out of order, however the camera and the viewers interleave.
THEOREM NewerFramesOnly == Spec => FramesAdvance
<1>1. Init => FrameInv
  BY DEF Init, FrameInv, MutexInv, NumberInv, ViewerInv
<1>. QED
  BY <1>1, TypeInvHolds, StepFrame, StepAdvances, PTL DEF Spec, FramesAdvance
=============================================================================
