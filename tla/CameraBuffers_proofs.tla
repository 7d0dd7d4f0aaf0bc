------------------------ MODULE CameraBuffers_proofs ------------------------
(***************************************************************************)
(* Proofs about CameraBuffers, for any number of buffers, of frames and of *)
(* calls of open(): no step loses a buffer while the camera runs, and a    *)
(* request is in one place if the video queue has room for the frames of   *)
(* two opens.                                                              *)
(***************************************************************************)
EXTENDS CameraBuffers, FiniteSetTheorems, SequenceTheorems, TLAPS

USE SizesOK, NoneIsApart
    DEF At, Goto, Consumers, Holders, cameraVars, holderVars


\* The parts of TypeOK.
SetupOK == setup \in Setups /\ setup.capacity \in Nat \ {0}
FlagsOK == running \in BOOLEAN /\ mapped \in BOOLEAN /\ streaming \in BOOLEAN /\ armed \in BOOLEAN
QueueOK == queue \in Seq(Frames) /\ Len(queue) <= setup.capacity
StillsOK == stills \in Seq(Frames) /\ Len(stills) <= StillCapacity
CountsOK == queued \in [Requests -> 0..2]
ThreadsOK ==
    /\ source \in [Frames -> Requests \cup {None}]
    /\ held \in [Holders -> Frames \cup {None}]
    /\ pc \in [Holders -> {"idle", "copy", "push", "release", "recycle", "requeue", "use"}]
    /\ req \in [Holders -> Requests \cup {None}]
    /\ current \in Requests \cup {None}
ControlOK ==
    /\ opens \in 0..MaxOpens
    /\ control \in {"closed", "mapped", "started", "open", "stopping", "stopped"}
    /\ fault \in {"none", "queued_twice", "freed_request", "dangling_data"}

PartsOK ==
    /\ SetupOK /\ FlagsOK /\ QueueOK /\ StillsOK /\ CountsOK /\ ThreadsOK /\ ControlOK

\* A reference to a frame: in a queue or in a thread's hands.
Referenced(f) ==
    InQueue(f, queue) \/ InQueue(f, stills) \/ \E t \in Holders : held[t] = f

\* What a thread has at each of its labels.
LabelInv ==
    /\ \A t \in Holders : pc[t] \in {"release", "requeue"} <=> req[t] # None
    /\ \A t \in Consumers : pc[t] \in {"idle", "use", "release"}
    /\ \A t \in Consumers : pc[t] = "use" <=> held[t] # None
    /\ pc["event"] \in {"idle", "copy", "push", "release", "recycle", "requeue"}
    /\ pc["event"] \in {"copy", "push"} <=> held["event"] # None
    /\ pc["event"] \in {"copy", "push", "release", "recycle"} <=> current # None

\* What open() and close() have done at each of their labels.
ControlInv ==
    /\ running <=> control = "open"
    /\ streaming <=> control \in {"started", "open", "stopping"}
    /\ mapped <=> control # "closed"

\* A frame lives exactly as long as somebody refers to it.
AliveInv == \A f \in Frames : Alive(f) <=> Referenced(f)

\* The camera has a request twice only as what has gone wrong last.
QueuedInv == fault = "none" => \A r \in Requests : queued[r] <= 1

TypeInv == PartsOK /\ LabelInv /\ ControlInv /\ AliveInv /\ QueuedInv
-----------------------------------------------------------------------------
(* Queues                                                                  *)

LEMMA InAppend ==
  ASSUME NEW q \in Seq(Frames), NEW e \in Frames, NEW f
  PROVE  InQueue(f, Append(q, e)) <=> InQueue(f, q) \/ f = e
<1>1. /\ Len(Append(q, e)) = Len(q) + 1 /\ Len(q) \in Nat
      /\ \A i \in 1..Len(q) : Append(q, e)[i] = q[i]
      /\ Append(q, e)[Len(q) + 1] = e
  BY AppendProperties, LenProperties
<1>. QED BY <1>1 DEF InQueue

LEMMA InTail ==
  ASSUME NEW q \in Seq(Frames), q # <<>>, NEW f
  PROVE  /\ Tail(q) \in Seq(Frames) /\ Len(Tail(q)) = Len(q) - 1 /\ Len(q) \in Nat
         /\ Head(q) \in Frames /\ Head(q) = q[1]
         /\ InQueue(Head(q), q)
         /\ InQueue(f, q) <=> f = Head(q) \/ InQueue(f, Tail(q))
<1>1. /\ Tail(q) \in Seq(Frames) /\ Len(Tail(q)) = Len(q) - 1 /\ Head(q) \in Frames
      /\ \A i \in 1..Len(Tail(q)) : Tail(q)[i] = q[i + 1]
  BY HeadTailProperties
<1>2. Len(q) \in Nat /\ Len(q) > 0 /\ Head(q) = q[1]
  BY EmptySeq
<1>3. InQueue(Head(q), q)
  BY <1>2 DEF InQueue
<1>4. InQueue(f, q) => f = Head(q) \/ InQueue(f, Tail(q))
  <2>. SUFFICES ASSUME NEW i \in 1..Len(q), q[i] = f, i # 1 PROVE InQueue(f, Tail(q))
    BY <1>2 DEF InQueue
  <2>1. i - 1 \in 1..Len(Tail(q)) /\ (i - 1) + 1 = i
    BY <1>1, <1>2
  <2>2. Tail(q)[i - 1] = f
    BY <1>1, <2>1
  <2>. QED BY <2>1, <2>2 DEF InQueue
<1>5. InQueue(f, Tail(q)) => InQueue(f, q)
  <2>. SUFFICES ASSUME NEW i \in 1..Len(Tail(q)), Tail(q)[i] = f PROVE InQueue(f, q)
    BY DEF InQueue
  <2>1. i + 1 \in 1..Len(q) /\ q[i + 1] = f
    BY <1>1, <1>2
  <2>. QED BY <2>1 DEF InQueue
<1>. QED BY <1>1, <1>2, <1>3, <1>4, <1>5

LEMMA InEmpty == \A f : ~InQueue(f, <<>>)
BY EmptySeq DEF InQueue

-----------------------------------------------------------------------------
(* Types, for every setup                                                  *)


-----------------------------------------------------------------------------
(* Types, for every setup                                                  *)

LEMMA TypeOfParts == PartsOK => TypeOK
BY DEF PartsOK, SetupOK, FlagsOK, QueueOK, StillsOK, CountsOK, ThreadsOK, ControlOK, TypeOK

LEMMA InitType == Init => TypeInv
<1>. SUFFICES ASSUME Init PROVE TypeInv
  OBVIOUS
<1>1. SetupOK /\ CountsOK
  BY DEF Init, SetupOK, CountsOK
<1>2. FlagsOK
  BY DEF Init, FlagsOK
<1>3. QueueOK /\ StillsOK
  BY <1>1, EmptySeq DEF Init, SetupOK, QueueOK, StillsOK
<1>4. ThreadsOK /\ ControlOK
  BY DEF Init, ThreadsOK, ControlOK
<1>5. LabelInv /\ ControlInv /\ QueuedInv
  BY DEF Init, LabelInv, ControlInv, QueuedInv
<1>6. AliveInv
  BY InEmpty DEF Init, AliveInv, Alive, Referenced
<1>. QED BY <1>1, <1>2, <1>3, <1>4, <1>5, <1>6 DEF TypeInv, PartsOK

\* What a thread that drops its frame does, by whether it is the last to refer to it.
LEMMA DropCases ==
  ASSUME TypeInv, NEW t \in Holders, held[t] # None, NEW label, Drop(t, label)
  PROVE  /\ held[t] \in Frames /\ source[held[t]] \in Requests
         /\ held' = [held EXCEPT ![t] = None]
         /\ \/ /\ SharedBy(held[t], t)
               /\ pc' = [pc EXCEPT ![t] = label] /\ source' = source /\ req' = req
            \/ /\ ~SharedBy(held[t], t)
               /\ source' = [source EXCEPT ![held[t]] = None]
               /\ \/ /\ running
                     /\ pc' = [pc EXCEPT ![t] = "release"]
                     /\ req' = [req EXCEPT ![t] = source[held[t]]]
                  \/ ~running /\ pc' = [pc EXCEPT ![t] = label] /\ req' = req
<1>1. held[t] \in Frames
  BY DEF TypeInv, PartsOK, ThreadsOK
<1>2. source[held[t]] \in Requests
  <2>1. Referenced(held[t])
    BY DEF Referenced
  <2>. QED BY <1>1, <2>1 DEF TypeInv, PartsOK, ThreadsOK, AliveInv, Alive
<1>. QED BY <1>1, <1>2 DEF Drop

\* The steps of open() and close().
LEMMA ControlType ==
  ASSUME TypeInv, Defined, Open \/ OpenFails \/ Close \/ Control
  PROVE  TypeInv'
<1>. USE DEF TypeInv, PartsOK, Defined
<1>. USE DEF Open, OpenFails, Close, Control, StartStreaming, SetRunning, StopStreaming, Unmap
<1>1. SetupOK' /\ QueueOK' /\ StillsOK' /\ ThreadsOK'
  BY DEF SetupOK, QueueOK, StillsOK, ThreadsOK
<1>2. AliveInv' /\ LabelInv'
  BY DEF AliveInv, Alive, Referenced, LabelInv
<1>3. FlagsOK'
  <2>1. /\ running' = running \/ running' = TRUE \/ running' = FALSE
        /\ mapped' = mapped \/ mapped' = TRUE \/ mapped' = FALSE
        /\ streaming' = streaming \/ streaming' = TRUE \/ streaming' = FALSE
        /\ armed' = armed
    BY Zenon
  <2>. QED BY <2>1 DEF FlagsOK
<1>4. ControlOK'
  BY DEF ControlOK
<1>5. CountsOK' /\ QueuedInv'
  <2>1. \/ queued' = queued
        \/ queued' = [r \in Requests |-> IF r[1] = opens /\ r[2] \in setup.buffers THEN 1 ELSE 0]
        \/ queued' = [r \in Requests |-> 0]
    OBVIOUS
  <2>2. fault' = fault
    OBVIOUS
  <2>. QED BY <2>1, <2>2 DEF CountsOK, QueuedInv
<1>6. ControlInv'
  <2>1. CASE Open
    BY <2>1 DEF ControlInv
  <2>2. CASE OpenFails
    BY <2>2 DEF ControlInv
  <2>3. CASE Close
    BY <2>3 DEF ControlInv
  <2>4. CASE Control
    BY <2>4 DEF ControlInv
  <2>. QED BY <2>1, <2>2, <2>3, <2>4
<1>. QED BY <1>1, <1>2, <1>3, <1>4, <1>5, <1>6

LEMMA CompleteType ==
  ASSUME TypeInv, Defined, NEW r \in Requests, NEW f \in Frames, Complete(r, f)
  PROVE  TypeInv'
<1>. USE DEF TypeInv, PartsOK, Defined
<1>1. SetupOK' /\ FlagsOK' /\ QueueOK' /\ StillsOK' /\ ControlOK' /\ ControlInv'
  BY DEF Complete, SetupOK, FlagsOK, QueueOK, StillsOK, ControlOK, ControlInv
<1>2. CountsOK' /\ QueuedInv'
  <2>1. queued[r] \in 1..2 /\ queued' = [queued EXCEPT ![r] = queued[r] - 1] /\ fault' = fault
    BY DEF Complete, CountsOK
  <2>. QED BY <2>1 DEF CountsOK, QueuedInv
<1>3. ThreadsOK'
  BY DEF Complete, ThreadsOK
<1>4. LabelInv'
  BY DEF Complete, ThreadsOK, LabelInv
<1>5. AliveInv'
  BY DEF Complete, ThreadsOK, LabelInv, AliveInv, Alive, Referenced
<1>. QED BY <1>1, <1>2, <1>3, <1>4, <1>5

\* The steps that queue a request, by thread and label.
Requeues(t, from, to) ==
    \/ t \in Consumers /\ from = "release" /\ to = "idle"
    \/ t = "event" /\ from = "release" /\ to = "recycle"
    \/ t = "event" /\ from = "requeue" /\ to = "idle"

LEMMA QueueRequestType ==
  ASSUME TypeInv, Defined, NEW t \in Holders, NEW from, NEW to, QueueRequest(t, from, to),
         Requeues(t, from, to)
  PROVE  TypeInv'
<1>. USE DEF TypeInv, PartsOK, Defined, Requeues
<1>1. req[t] \in Requests
  BY DEF QueueRequest, ThreadsOK, LabelInv
<1>2. SetupOK' /\ FlagsOK' /\ QueueOK' /\ StillsOK' /\ ControlInv'
  BY DEF QueueRequest, SetupOK, FlagsOK, QueueOK, StillsOK, ControlInv
<1>3. CountsOK' /\ QueuedInv'
  <2>1. /\ \/ queued' = queued
           \/ queued' = [queued EXCEPT ![req[t]] = queued[req[t]] + 1]
        /\ queued[req[t]] \in 0..1
        /\ fault' = "none" => queued' = queued \/ queued[req[t]] = 0
    BY <1>1 DEF QueueRequest, CountsOK, QueuedInv
  <2>. QED BY <1>1, <2>1 DEF CountsOK, QueuedInv
<1>4. ThreadsOK'
  BY DEF QueueRequest, ThreadsOK
<1>5. ControlOK'
  BY DEF QueueRequest, ControlOK
<1>6. LabelInv'
  BY DEF QueueRequest, ThreadsOK, LabelInv
<1>7. AliveInv'
  BY DEF QueueRequest, AliveInv, Alive, Referenced
<1>. QED BY <1>2, <1>3, <1>4, <1>5, <1>6, <1>7

LEMMA DropType ==
  ASSUME TypeInv, Defined, NEW t \in Holders, NEW label, Drop(t, label), held[t] # None,
         \/ t \in Consumers /\ At(t, "use") /\ label = "idle"
         \/ t = "event" /\ At(t, "push") /\ label = "recycle",
         UNCHANGED <<running, cameraVars, queued, armed, queue, stills, current, fault>>
  PROVE  TypeInv'
<1>. USE DEF TypeInv, PartsOK, Defined
<1>1. SetupOK' /\ FlagsOK' /\ QueueOK' /\ StillsOK' /\ CountsOK' /\ ControlOK'
  BY DEF SetupOK, FlagsOK, QueueOK, StillsOK, CountsOK, ControlOK
<1>2. ControlInv' /\ QueuedInv'
  BY DEF ControlInv, QueuedInv
<1>. HIDE DEF TypeInv, PartsOK
<1>3. ThreadsOK' /\ LabelInv'
  <2>1. /\ held[t] \in Frames /\ source[held[t]] \in Requests
        /\ held' = [held EXCEPT ![t] = None]
        /\ source' = source \/ source' = [source EXCEPT ![held[t]] = None]
        /\ \/ pc' = [pc EXCEPT ![t] = label] /\ req' = req
           \/ pc' = [pc EXCEPT ![t] = "release"] /\ req' = [req EXCEPT ![t] = source[held[t]]]
    BY DropCases
  <2>2. ThreadsOK'
    BY <2>1 DEF TypeInv, PartsOK, ThreadsOK
  <2>3. LabelInv'
    BY <2>1 DEF TypeInv, PartsOK, ThreadsOK, LabelInv
  <2>. QED BY <2>2, <2>3
<1>4. AliveInv'
  <2>1. held[t] \in Frames /\ held' = [held EXCEPT ![t] = None]
    BY DropCases
  <2>2. \/ SharedBy(held[t], t) /\ source' = source
        \/ ~SharedBy(held[t], t) /\ source' = [source EXCEPT ![held[t]] = None]
    BY DropCases
  <2>3. \A u \in Holders : held'[u] = IF u = t THEN None ELSE held[u]
    BY <2>1 DEF TypeInv, PartsOK, ThreadsOK
  <2>4. \A f \in Frames : f # held[t] => (Referenced(f)' <=> Referenced(f))
    BY <2>3 DEF Referenced
  <2>5. ASSUME NEW f \in Frames, f = held[t] PROVE Referenced(f)' <=> SharedBy(f, t)
    BY <2>3, <2>5 DEF Referenced, SharedBy
  <2>6. ASSUME NEW f \in Frames PROVE Alive(f)' <=> Referenced(f)'
    <3>1. CASE f = held[t]
      <4>1. SharedBy(f, t) => Referenced(f)
        BY DEF SharedBy, Referenced
      <4>2. Referenced(f) => source[f] # None
        BY DEF TypeInv, AliveInv, Alive
      <4>3. source'[f] # None <=> SharedBy(f, t)
        BY <2>2, <3>1, <4>1, <4>2 DEF TypeInv, PartsOK, ThreadsOK
      <4>. QED BY <2>5, <3>1, <4>3 DEF Alive
    <3>2. CASE f # held[t]
      <4>1. source'[f] = source[f]
        BY <2>2, <3>2 DEF TypeInv, PartsOK, ThreadsOK
      <4>. QED BY <2>4, <3>2, <4>1 DEF TypeInv, AliveInv, Alive
    <3>. QED BY <3>1, <3>2
  <2>. QED BY <2>6 DEF AliveInv
<1>. QED BY <1>1, <1>2, <1>3, <1>4 DEF TypeInv, PartsOK

LEMMA EventType ==
  ASSUME TypeInv, Defined, EventStep
  PROVE  TypeInv'
<1>. USE DEF TypeInv, PartsOK, Defined
<1>1. CASE CopyStill
  <2>1. held["event"] \in Frames
    BY <1>1 DEF CopyStill, ThreadsOK, LabelInv
  <2>2. /\ stills' \in Seq(Frames) /\ Len(stills') <= StillCapacity
        /\ \A f : InQueue(f, stills)' => InQueue(f, stills) \/ f = held["event"]
        /\ \A f : InQueue(f, stills) => InQueue(f, stills)'
    <3>1. CASE stills' = stills
      BY <3>1 DEF StillsOK, InQueue
    <3>2. CASE Len(stills) < StillCapacity /\ stills' = Append(stills, held["event"])
      <4>1. stills \in Seq(Frames) /\ Len(stills) \in Nat
        BY LenProperties DEF StillsOK
      <4>2. stills' \in Seq(Frames) /\ Len(stills') = Len(stills) + 1
        BY <2>1, <3>2, <4>1, AppendProperties
      <4>3. \A f : InQueue(f, stills)' <=> InQueue(f, stills) \/ f = held["event"]
        BY <2>1, <3>2, <4>1, InAppend DEF InQueue
      <4>. QED BY <3>2, <4>1, <4>2, <4>3
    <3>. QED BY <1>1, <3>1, <3>2 DEF CopyStill
  <2>3. SetupOK' /\ QueueOK' /\ CountsOK' /\ ControlOK' /\ ControlInv' /\ QueuedInv'
    BY <1>1 DEF CopyStill, SetupOK, QueueOK, CountsOK, ControlOK, ControlInv, QueuedInv
  <2>4. FlagsOK'
    BY <1>1 DEF CopyStill, FlagsOK
  <2>5. ThreadsOK' /\ LabelInv'
    BY <1>1 DEF CopyStill, ThreadsOK, LabelInv
  <2>6. AliveInv'
    BY <1>1, <2>1, <2>2 DEF CopyStill, AliveInv, Alive, Referenced, InQueue
  <2>. QED BY <2>2, <2>3, <2>4, <2>5, <2>6 DEF StillsOK
<1>2. CASE PushVideo
  <2>1. held["event"] \in Frames
    BY <1>2 DEF PushVideo, ThreadsOK, LabelInv
  <2>2. /\ queue' \in Seq(Frames) /\ Len(queue') <= setup.capacity
        /\ \A f : InQueue(f, queue)' <=> InQueue(f, queue) \/ f = held["event"]
    <3>1. queue \in Seq(Frames) /\ Len(queue) \in Nat /\ setup.capacity \in Nat
      BY LenProperties DEF QueueOK, SetupOK
    <3>2. Len(queue) < setup.capacity /\ queue' = Append(queue, held["event"])
      BY <1>2 DEF PushVideo
    <3>3. queue' \in Seq(Frames) /\ Len(queue') = Len(queue) + 1
      BY <2>1, <3>1, <3>2, AppendProperties
    <3>4. \A f : InQueue(f, queue)' <=> InQueue(f, queue) \/ f = held["event"]
      BY <2>1, <3>1, <3>2, InAppend DEF InQueue
    <3>. QED BY <3>1, <3>2, <3>3, <3>4
  <2>3. SetupOK' /\ FlagsOK' /\ StillsOK' /\ CountsOK' /\ ControlOK' /\ ControlInv' /\ QueuedInv'
    BY <1>2 DEF PushVideo, SetupOK, FlagsOK, StillsOK, CountsOK, ControlOK, ControlInv, QueuedInv
  <2>4. QueueOK'
    BY <1>2, <2>2 DEF PushVideo, QueueOK
  <2>5. ThreadsOK' /\ LabelInv'
    BY <1>2 DEF PushVideo, ThreadsOK, LabelInv
  <2>6. AliveInv'
    <3>1. \A f \in Frames : Referenced(f)' <=> Referenced(f)
      BY <1>2, <2>1, <2>2 DEF PushVideo, ThreadsOK, Referenced, InQueue
    <3>. QED BY <1>2, <3>1 DEF PushVideo, AliveInv, Alive
  <2>. QED BY <2>3, <2>4, <2>5, <2>6
<1>3. CASE PushRefused
  <2>1. held["event"] # None
    BY <1>3 DEF PushRefused, LabelInv
  <2>. QED BY <1>3, <2>1, DropType DEF PushRefused
<1>4. CASE Recycle
  <2>1. /\ SetupOK' /\ FlagsOK' /\ QueueOK' /\ StillsOK' /\ CountsOK' /\ ControlOK'
        /\ ControlInv' /\ QueuedInv'
    BY <1>4 DEF Recycle, SetupOK, FlagsOK, QueueOK, StillsOK, CountsOK, ControlOK, ControlInv,
                QueuedInv
  <2>2. ThreadsOK' /\ LabelInv'
    BY <1>4 DEF Recycle, ThreadsOK, LabelInv
  <2>3. AliveInv'
    BY <1>4 DEF Recycle, AliveInv, Alive, Referenced
  <2>. QED BY <2>1, <2>2, <2>3
<1>5. CASE QueueRequest("event", "release", "recycle") \/ QueueRequest("event", "requeue", "idle")
  BY <1>5, QueueRequestType DEF Requeues
<1>. QED BY <1>1, <1>2, <1>3, <1>4, <1>5 DEF EventStep

LEMMA ConsumerType ==
  ASSUME TypeInv, Defined, Pop \/ TryGetSnapshot \/ RequestSnapshot \/ \E t \in Consumers : Consume(t)
  PROVE  TypeInv'
<1>. USE DEF TypeInv, PartsOK, Defined
<1>1. CASE Pop
  <2>1. /\ queue' \in Seq(Frames) /\ Len(queue') = Len(queue) - 1 /\ Head(queue) \in Frames
        /\ Len(queue) \in Nat
        /\ \A f : InQueue(f, queue) <=> f = Head(queue) \/ InQueue(f, queue')
    BY <1>1, InTail DEF Pop, QueueOK
  <2>2. SetupOK' /\ FlagsOK' /\ StillsOK' /\ CountsOK' /\ ControlOK' /\ ControlInv' /\ QueuedInv'
    BY <1>1 DEF Pop, SetupOK, FlagsOK, StillsOK, CountsOK, ControlOK, ControlInv, QueuedInv
  <2>3. QueueOK'
    BY <2>1 DEF QueueOK, SetupOK
  <2>4. ThreadsOK' /\ LabelInv'
    BY <1>1, <2>1 DEF Pop, ThreadsOK, LabelInv
  <2>5. AliveInv'
    <3>1. \A f \in Frames : Referenced(f)' <=> Referenced(f)
      BY <1>1, <2>1 DEF Pop, ThreadsOK, LabelInv, Referenced
    <3>. QED BY <1>1, <3>1 DEF Pop, AliveInv, Alive
  <2>. QED BY <2>2, <2>3, <2>4, <2>5
<1>2. CASE TryGetSnapshot
  <2>1. /\ stills' \in Seq(Frames) /\ Len(stills') = Len(stills) - 1 /\ Head(stills) \in Frames
        /\ Len(stills) \in Nat
        /\ \A f : InQueue(f, stills) <=> f = Head(stills) \/ InQueue(f, stills')
    BY <1>2, InTail DEF TryGetSnapshot, StillsOK
  <2>2. SetupOK' /\ FlagsOK' /\ QueueOK' /\ CountsOK' /\ ControlOK' /\ ControlInv' /\ QueuedInv'
    BY <1>2 DEF TryGetSnapshot, SetupOK, FlagsOK, QueueOK, CountsOK, ControlOK, ControlInv,
                QueuedInv
  <2>3. StillsOK'
    BY <2>1 DEF StillsOK
  <2>4. ThreadsOK' /\ LabelInv'
    BY <1>2, <2>1 DEF TryGetSnapshot, ThreadsOK, LabelInv
  <2>5. AliveInv'
    <3>1. \A f \in Frames : Referenced(f)' <=> Referenced(f)
      BY <1>2, <2>1 DEF TryGetSnapshot, ThreadsOK, LabelInv, Referenced
    <3>. QED BY <1>2, <3>1 DEF TryGetSnapshot, AliveInv, Alive
  <2>. QED BY <2>2, <2>3, <2>4, <2>5
<1>3. ASSUME RequestSnapshot \/ \E t \in Consumers : Read(t)
      PROVE  TypeInv'
  <2>. USE DEF RequestSnapshot, Read
  <2>1. /\ SetupOK' /\ QueueOK' /\ StillsOK' /\ CountsOK' /\ ThreadsOK' /\ ControlOK'
        /\ LabelInv' /\ ControlInv'
    BY <1>3 DEF SetupOK, QueueOK, StillsOK, CountsOK, ThreadsOK, ControlOK, LabelInv, ControlInv
  <2>2. FlagsOK'
    BY <1>3 DEF FlagsOK
  <2>3. QueuedInv' /\ AliveInv'
    BY <1>3 DEF QueuedInv, AliveInv, Alive, Referenced
  <2>. QED BY <2>1, <2>2, <2>3
<1>4. ASSUME NEW t \in Consumers, Discard(t) PROVE TypeInv'
  <2>1. held[t] # None
    BY <1>4 DEF Discard, LabelInv
  <2>. QED BY <1>4, <2>1, DropType DEF Discard
<1>5. ASSUME NEW t \in Consumers, QueueRequest(t, "release", "idle") PROVE TypeInv'
  BY <1>5, QueueRequestType DEF Requeues
<1>. QED BY <1>1, <1>2, <1>3, <1>4, <1>5 DEF Consume

LEMMA StutterType == ASSUME TypeInv, UNCHANGED vars PROVE TypeInv'
BY DEF vars, TypeInv, PartsOK, SetupOK, FlagsOK, QueueOK, StillsOK, CountsOK, ThreadsOK, ControlOK,
       LabelInv, ControlInv, QueuedInv, AliveInv, Alive, Referenced

LEMMA StepType == TypeInv /\ [Next]_vars => TypeInv'
<1>. QED
  BY ControlType, CompleteType, EventType, ConsumerType, StutterType DEF Next

LEMMA TypeInvHolds == Spec => []TypeInv
<1>. QED BY InitType, StepType, PTL DEF Spec

\* Types: a queue never holds more than it has room for, and the camera never has a
\* request more than twice.
THEOREM TypeCorrect == Spec => []TypeOK
<1>1. TypeInv => TypeOK
  BY TypeOfParts DEF TypeInv
<1>. QED BY TypeInvHolds, <1>1, PTL

-----------------------------------------------------------------------------
(* No buffer is lost while the camera runs                                 *)

KeepsStep == \A r \in Requests : running /\ running' /\ Live(r) /\ Owned(r) => Owned(r)'

\* A thread that drops the last reference has no other request on its hands.
LEMMA DropKeeps ==
  ASSUME TypeInv, NEW t \in Holders, held[t] # None, NEW label, Drop(t, label), running,
         t = "event" => label = "recycle" /\ At(t, "push"),
         req[t] = None, UNCHANGED <<queued, current>>,
         NEW r \in Requests, Owned(r)
  PROVE  Owned(r)'
<1>1. /\ held[t] \in Frames /\ source[held[t]] \in Requests
      /\ \/ pc' = [pc EXCEPT ![t] = label] /\ source' = source /\ req' = req
         \/ /\ source' = [source EXCEPT ![held[t]] = None]
            /\ req' = [req EXCEPT ![t] = source[held[t]]]
            /\ pc' = [pc EXCEPT ![t] = "release"]
  BY DropCases
<1>2. r # None
  OBVIOUS
<1>3. CASE queued[r] > 0
  BY <1>3 DEF Owned
<1>4. CASE \E u \in Holders : req[u] = r
  BY <1>1, <1>2, <1>4 DEF Owned, TypeInv, PartsOK, ThreadsOK
<1>5. CASE \E f \in Frames : source[f] = r
  BY <1>1, <1>2, <1>5 DEF Owned, TypeInv, PartsOK, ThreadsOK
<1>6. CASE At("event", "recycle") /\ current = r
  BY <1>1, <1>6 DEF Owned, TypeInv, PartsOK, ThreadsOK
<1>. QED BY <1>3, <1>4, <1>5, <1>6 DEF Owned

LEMMA QueueRequestKeeps ==
  ASSUME TypeInv, Defined, running, NEW t \in Holders, NEW from, NEW to,
         QueueRequest(t, from, to), Requeues(t, from, to),
         NEW r \in Requests, Live(r), Owned(r)
  PROVE  Owned(r)'
<1>. USE DEF TypeInv, PartsOK
<1>1. req[t] \in Requests
  BY DEF QueueRequest, Requeues, ThreadsOK, LabelInv
<1>2. streaming
  BY DEF ControlInv
<1>3. CASE req[t] = r
  <2>1. queued' = [queued EXCEPT ![r] = queued[r] + 1]
    BY <1>2, <1>3 DEF QueueRequest
  <2>2. queued[r] \in 0..2
    BY DEF CountsOK
  <2>3. queued'[r] > 0
    BY <2>1, <2>2 DEF CountsOK
  <2>. QED BY <2>3 DEF Owned
<1>4. CASE req[t] # r
  <2>1. queued'[r] = queued[r]
    BY <1>1, <1>4 DEF QueueRequest, CountsOK
  <2>2. ASSUME NEW u \in Holders, req[u] = r PROVE req'[u] = r
    BY <1>4, <2>2 DEF QueueRequest, ThreadsOK
  <2>3. source' = source /\ current' = current
    BY DEF QueueRequest
  <2>4. At("event", "recycle") => At("event", "recycle")'
    BY DEF QueueRequest, Requeues, ThreadsOK
  <2>. QED BY <2>1, <2>2, <2>3, <2>4 DEF Owned
<1>. QED BY <1>3, <1>4

LEMMA StepKeeps == ASSUME TypeInv, [Next]_vars PROVE KeepsStep
<1>. SUFFICES ASSUME NEW r \in Requests, running, running', Live(r), Owned(r) PROVE Owned(r)'
  BY DEF KeepsStep
<1>. USE DEF TypeInv, PartsOK
<1>1. CASE UNCHANGED vars
  BY <1>1 DEF vars, Owned
<1>2. CASE Defined /\ (Open \/ OpenFails \/ Close \/ Control)
  BY <1>2 DEF ControlInv, Open, OpenFails, Close, Control, StartStreaming, SetRunning,
              StopStreaming, Unmap
<1>3. ASSUME NEW s \in Requests, NEW f \in Frames, Complete(s, f) PROVE Owned(r)'
  <2>1. CASE s = r
    BY <1>3, <2>1 DEF Complete, ThreadsOK, Owned
  <2>2. CASE s # r
    BY <1>3, <2>2 DEF Complete, Alive, CountsOK, ThreadsOK, Owned
  <2>. QED BY <2>1, <2>2
<1>4. CASE CopyStill \/ PushVideo
  BY <1>4 DEF CopyStill, PushVideo, Owned
<1>5. CASE PushRefused
  <2>1. held["event"] # None /\ req["event"] = None
    BY <1>5 DEF PushRefused, LabelInv
  <2>. QED BY <1>5, <2>1, DropKeeps DEF PushRefused
<1>6. CASE Recycle
  <2>1. req["event"] = None
    BY <1>6 DEF Recycle, LabelInv
  <2>2. queued' = queued /\ source' = source /\ req' = [req EXCEPT !["event"] = current]
    BY <1>6 DEF Recycle
  <2>3. \A t \in Holders : req[t] = r => req'[t] = r
    BY <2>1, <2>2 DEF ThreadsOK
  <2>4. current = r => req'["event"] = r
    BY <2>2 DEF ThreadsOK
  <2>. QED BY <2>2, <2>3, <2>4 DEF Owned
<1>7. CASE Defined /\ (QueueRequest("event", "release", "recycle") \/ QueueRequest("event", "requeue", "idle"))
  BY <1>7, QueueRequestKeeps DEF Requeues
<1>8. CASE Pop \/ TryGetSnapshot
  BY <1>8 DEF Pop, TryGetSnapshot, ThreadsOK, Owned
<1>9. CASE RequestSnapshot
  BY <1>9 DEF RequestSnapshot, Owned
<1>10. ASSUME NEW t \in Consumers, Read(t) PROVE Owned(r)'
  BY <1>10 DEF Read, Owned
<1>11. ASSUME NEW t \in Consumers, Discard(t) PROVE Owned(r)'
  <2>1. held[t] # None /\ req[t] = None
    BY <1>11 DEF Discard, LabelInv
  <2>. QED BY <1>11, <2>1, DropKeeps DEF Discard
<1>12. ASSUME Defined, NEW t \in Consumers, QueueRequest(t, "release", "idle") PROVE Owned(r)'
  BY <1>12, QueueRequestKeeps DEF Requeues
<1>. QED
  BY <1>1, <1>2, <1>3, <1>4, <1>5, <1>6, <1>7, <1>8, <1>9, <1>10, <1>11, <1>12
  DEF Next, EventStep, Consume

\* Whoever drops which reference, no step loses a buffer while the camera runs: its
\* request is queued, a frame views it, or a thread is about to queue it.
THEOREM BuffersKept == Spec => KeepsBuffers
<1>1. TypeInv /\ [Next]_vars =>
      [\A r \in Requests : running /\ running' /\ Live(r) /\ Owned(r) => Owned(r)']_vars
  BY StepKeeps DEF KeepsStep
<1>. QED BY TypeInvHolds, <1>1, PTL DEF Spec, KeepsBuffers

-----------------------------------------------------------------------------
(* One owner, when the camera is closed only with the frames drained       *)

\* Each request is in one place: the camera, one frame, or one thread's hands.
PlaceInv ==
    /\ \A r \in Requests : queued[r] > 0 =>
          /\ queued[r] = 1 /\ streaming /\ r[1] = opens /\ r[2] \in setup.buffers
          /\ \A f \in Frames : source[f] # r
          /\ \A t \in Holders : req[t] # r
    /\ \A f, g \in Frames : Alive(f) /\ source[f] = source[g] => f = g
    /\ \A t \in Holders, f \in Frames : req[t] # None => source[f] # req[t]
    /\ \A t, u \in Holders : req[t] # None /\ req[t] = req[u] => t = u
    /\ \A f \in Frames : Alive(f) => source[f][2] \in setup.buffers
    /\ \A t \in Holders : req[t] # None => running /\ req[t][2] \in setup.buffers

Stale(f) == Alive(f) /\ source[f][1] # opens

\* The frames that are out belong to the camera's present open() and to at most one
\* earlier one.
AgeInv ==
    /\ \A f \in Frames : Alive(f) => source[f][1] <= opens
    /\ control = "mapped" => \A f \in Frames : Alive(f) => Stale(f)
    /\ \A f, g \in Frames : Stale(f) /\ Stale(g) => source[f][1] = source[g][1]
    /\ control \in {"stopping", "stopped"} => \A f \in Frames : ~Stale(f)
    /\ control = "closed" =>
          \A f, g \in Frames : Alive(f) /\ Alive(g) => source[f][1] = source[g][1]

\* The event thread never finds the queue full, and the queue has no frame twice.
EventInv ==
    /\ pc["event"] \in {"idle", "copy", "push"}
    /\ pc["event"] # "idle" => /\ streaming /\ source[held["event"]][1] = opens
                               /\ ~InQueue(held["event"], queue)
    /\ \A i, j \in 1..Len(queue) : queue[i] = queue[j] => i = j

DrainInv == fault # "queued_twice" /\ PlaceInv /\ AgeInv /\ EventInv

LEMMA RequestParts ==
  \A r \in Requests : r[1] \in Nat /\ r[1] <= MaxOpens /\ r[2] \in Buffers /\ r = <<r[1], r[2]>>
BY DEF Requests

LEMMA InitDrain == Init => DrainInv
<1>. SUFFICES ASSUME Init PROVE DrainInv
  OBVIOUS
<1>1. PlaceInv
  BY DEF Init, PlaceInv, Alive
<1>2. AgeInv
  BY DEF Init, AgeInv, Alive, Stale
<1>3. EventInv
  BY EmptySeq DEF Init, EventInv
<1>. QED BY <1>1, <1>2, <1>3 DEF Init, DrainInv

\* What the setup has to provide: room in the video queue for the frames of two opens.
DeepQueues ==
    \A s \in Setups : s.drains =>
        IsFiniteSet(s.buffers) /\ 2 * Cardinality(s.buffers) <= s.capacity

\* The frames in the queue and in the event thread's hands have different requests, and
\* there are only twice as many of those as there are buffers.
LEMMA QueueHasRoom ==
  ASSUME DeepQueues, TypeInv, DrainInv, setup.drains, pc["event"] # "idle"
  PROVE  Len(queue) < setup.capacity
<1>. USE DEF TypeInv, PartsOK, ThreadsOK, QueueOK, SetupOK
<1>. DEFINE n == Len(queue)
            frame(i) == IF i <= n THEN queue[i] ELSE held["event"]
            B == setup.buffers
<1>1. n \in Nat /\ \A i \in 1..n : queue[i] \in Frames
  BY LenProperties, ElementOfSeq
<1>2. held["event"] \in Frames /\ ~InQueue(held["event"], queue)
  BY DEF LabelInv, DrainInv, EventInv
<1>3. \A i \in 1..(n + 1) : frame(i) \in Frames /\ Alive(frame(i))
  <2>1. \A i \in 1..n : Alive(queue[i])
    BY <1>1 DEF AliveInv, Referenced, InQueue
  <2>2. Alive(held["event"])
    BY <1>2 DEF AliveInv, Referenced
  <2>. QED BY <1>1, <1>2, <2>1, <2>2
<1>4. ASSUME NEW i \in 1..(n + 1), NEW j \in 1..(n + 1), frame(i) = frame(j) PROVE i = j
  <2>1. CASE i <= n /\ j <= n
    BY <1>1, <1>4, <2>1 DEF DrainInv, EventInv
  <2>2. CASE i <= n /\ j = n + 1
    BY <1>1, <1>2, <1>4, <2>2 DEF InQueue
  <2>3. CASE i = n + 1 /\ j <= n
    BY <1>1, <1>2, <1>4, <2>3 DEF InQueue
  <2>. QED BY <1>1, <2>1, <2>2, <2>3
<1>5. PICK g : \A f \in Frames : Alive(f) => source[f][1] \in {opens, g}
  <2>1. CASE \E f \in Frames : Stale(f)
    BY <2>1 DEF DrainInv, AgeInv, Stale
  <2>2. CASE \A f \in Frames : ~Stale(f)
    BY <2>2 DEF Stale
  <2>. QED BY <2>1, <2>2
<1>. DEFINE T == {opens, g} \X B
            F == [i \in 1..(n + 1) |-> source[frame(i)]]
<1>6. F \in Injection(1..(n + 1), T)
  <2>1. ASSUME NEW i \in 1..(n + 1) PROVE F[i] \in T
    <3>1. source[frame(i)] \in Requests
      BY <1>3 DEF Alive
    <3>2. source[frame(i)][1] \in {opens, g}
      BY <1>3, <1>5
    <3>3. source[frame(i)][2] \in B
      BY <1>3 DEF DrainInv, PlaceInv
    <3>4. source[frame(i)] = <<source[frame(i)][1], source[frame(i)][2]>>
      BY <3>1, RequestParts
    <3>5. source[frame(i)] \in T
      <4>. HIDE DEF frame
      <4>. QED BY <3>2, <3>3, <3>4, Zenon
    <3>. QED BY <3>5
  <2>2. ASSUME NEW i \in 1..(n + 1), NEW j \in 1..(n + 1), F[i] = F[j] PROVE i = j
    <3>1. source[frame(i)] = source[frame(j)]
      BY <2>2
    <3>2. frame(i) = frame(j)
      <4>. HIDE DEF frame
      <4>. QED BY <1>3, <3>1 DEF DrainInv, PlaceInv
    <3>. QED BY <1>4, <3>2
  <2>. HIDE DEF F, T
  <2>3. F \in [1..(n + 1) -> T]
    BY <2>1 DEF F
  <2>. QED BY <2>2, <2>3 DEF Injection, IsInjective
<1>7. IsFiniteSet(T) /\ Cardinality(T) <= 2 * Cardinality(B) /\ Cardinality(B) \in Nat
  <2>1. IsFiniteSet(B) /\ Cardinality(B) \in Nat
    BY FS_CardinalityType DEF DeepQueues
  <2>2. IsFiniteSet({opens, g}) /\ Cardinality({opens, g}) \in 0..2
    <3>. DEFINE A == {opens}
    <3>1. IsFiniteSet(A) /\ Cardinality(A) = 1
      BY FS_Singleton
    <3>2. {opens, g} = A \cup {g}
      OBVIOUS
    <3>. HIDE DEF A
    <3>3. /\ IsFiniteSet(A \cup {g})
          /\ Cardinality(A \cup {g}) = IF g \in A THEN Cardinality(A) ELSE Cardinality(A) + 1
      BY <3>1, FS_AddElement, Zenon
    <3>4. Cardinality(A \cup {g}) \in 0..2
      BY <3>1, <3>3
    <3>. QED BY <3>2, <3>3, <3>4, Zenon
  <2>3. IsFiniteSet(T) /\ Cardinality(T) = Cardinality({opens, g}) * Cardinality(B)
    BY <2>1, <2>2, FS_Product
  <2>4. \A k \in 0..2, b \in Nat : k * b <= 2 * b
    OBVIOUS
  <2>. QED BY <2>1, <2>2, <2>3, <2>4
<1>8. Cardinality(1..(n + 1)) = n + 1
  BY <1>1, FS_Interval
<1>9. Cardinality(1..(n + 1)) <= Cardinality(T)
  <2>. HIDE DEF F, T
  <2>. QED BY <1>6, <1>7, FS_Injection
<1>10. 2 * Cardinality(B) <= setup.capacity /\ setup.capacity \in Nat
  BY DEF DeepQueues
<1>11. n + 1 <= setup.capacity
  <2>. HIDE DEF n, B, T
  <2>1. Cardinality(T) \in Nat
    BY <1>7, FS_CardinalityType
  <2>. QED BY <1>1, <1>7, <1>8, <1>9, <1>10, <2>1
<1>. QED BY <1>1, <1>11

\* What open() and close() do to the frames that are out.
LEMMA ControlDrain ==
  ASSUME TypeInv, TypeInv', DrainInv, setup.drains, Defined,
         Open \/ OpenFails \/ Close \/ Control
  PROVE  DrainInv'
<1>. USE DEF Defined
<1>. USE DEF Open, OpenFails, Close, Control, StartStreaming, SetRunning, StopStreaming, Unmap
<1>1. /\ source' = source /\ held' = held /\ pc' = pc /\ req' = req /\ queue' = queue
      /\ setup' = setup /\ fault' = fault
      /\ opens' = opens \/ opens' = opens + 1
  OBVIOUS
<1>2. opens \in Nat /\ \A f \in Frames : Alive(f) => source[f][1] \in Nat /\ source[f][1] <= opens
  BY RequestParts DEF TypeInv, PartsOK, ControlOK, ThreadsOK, Alive, DrainInv, AgeInv
<1>3. \A t \in Holders : req[t] # None => running
  BY DEF DrainInv, PlaceInv
<1>4. PlaceInv'
  <2>1. \A t \in Holders : req[t] # None => running'
    <3>1. CASE Close
      BY <3>1 DEF Drained, TypeInv, LabelInv, DrainInv, EventInv
    <3>2. CASE Open \/ OpenFails \/ Control
      BY <1>3, <3>2
    <3>. QED BY <3>1, <3>2
  <2>2. ASSUME NEW r \in Requests, queued'[r] > 0
        PROVE  /\ queued'[r] = 1 /\ streaming' /\ r[1] = opens' /\ r[2] \in setup.buffers
               /\ \A f \in Frames : source[f] # r
               /\ \A t \in Holders : req[t] # r
    <3>1. CASE StartStreaming
      <4>1. queued'[r] = 1 /\ r[1] = opens /\ r[2] \in setup.buffers
        BY <2>2, <3>1
      <4>2. \A f \in Frames : source[f] # r
        BY <3>1, <4>1 DEF DrainInv, AgeInv, Stale, Alive
      <4>3. \A t \in Holders : req[t] # r
        BY <1>3, <3>1 DEF TypeInv, ControlInv
      <4>. QED BY <3>1, <4>1, <4>2, <4>3
    <3>2. CASE StopStreaming
      BY <2>2, <3>2
    <3>3. CASE Open \/ OpenFails
      BY <2>2, <3>3 DEF DrainInv, PlaceInv, TypeInv, ControlInv
    <3>4. CASE Close \/ SetRunning \/ Unmap
      BY <2>2, <3>4 DEF DrainInv, PlaceInv
    <3>. QED BY <3>1, <3>2, <3>3, <3>4
  <2>. QED BY <1>1, <2>1, <2>2 DEF DrainInv, PlaceInv, Alive
<1>5. AgeInv'
  <2>1. CASE Open
    BY <1>1, <1>2, <2>1 DEF DrainInv, AgeInv, Alive, Stale
  <2>2. CASE OpenFails
    BY <1>1, <1>2, <2>2 DEF DrainInv, AgeInv, Alive, Stale
  <2>3. CASE Close
    <3>1. \A f \in Frames : ~Stale(f)
      <4>. SUFFICES ASSUME NEW f \in Frames, Stale(f) PROVE FALSE
        OBVIOUS
      <4>1. Referenced(f)
        BY DEF Stale, TypeInv, AliveInv
      <4>2. \A t \in Consumers : held[t] = None
        BY <2>3 DEF Drained, TypeInv, LabelInv
      <4>3. f # None /\ held["event"] = f
        BY <2>3, <4>1, <4>2, InEmpty DEF Drained, Referenced
      <4>. QED BY <4>3 DEF TypeInv, LabelInv, DrainInv, EventInv, Stale
    <3>. QED BY <1>1, <2>3, <3>1 DEF DrainInv, AgeInv, Alive, Stale
  <2>4. CASE Control
    BY <1>1, <2>4 DEF DrainInv, AgeInv, Alive, Stale
  <2>. QED BY <2>1, <2>2, <2>3, <2>4
<1>6. EventInv'
  <2>1. CASE Open \/ OpenFails
    BY <1>1, <2>1 DEF DrainInv, EventInv, TypeInv, ControlInv
  <2>2. CASE Close \/ Control
    BY <1>1, <2>2 DEF DrainInv, EventInv, TypeInv, ControlInv
  <2>. QED BY <2>1, <2>2
<1>. QED BY <1>1, <1>4, <1>5, <1>6 DEF DrainInv

LEMMA CompleteDrain ==
  ASSUME TypeInv, DrainInv, setup.drains, Defined,
         NEW r \in Requests, NEW f \in Frames, Complete(r, f)
  PROVE  DrainInv'
<1>. USE DEF Defined
<1>1. /\ source' = [source EXCEPT ![f] = r] /\ queued' = [queued EXCEPT ![r] = queued[r] - 1]
      /\ req' = req /\ queue' = queue /\ running' = running /\ streaming' = streaming
      /\ opens' = opens /\ control' = control /\ setup' = setup /\ fault' = fault
      /\ streaming /\ queued[r] > 0 /\ ~Alive(f)
  BY DEF Complete
<1>2. /\ source \in [Frames -> Requests \cup {None}] /\ queued \in [Requests -> 0..2]
      /\ held \in [Holders -> Frames \cup {None}]
  BY DEF TypeInv, PartsOK, ThreadsOK, CountsOK
<1>3. queued[r] = 1 /\ r[1] = opens /\ r[2] \in setup.buffers
  BY <1>1 DEF DrainInv, PlaceInv
<1>4. \A g \in Frames : source'[g] = IF g = f THEN r ELSE source[g]
  BY <1>1, <1>2
<1>5. \A s \in Requests : queued'[s] = IF s = r THEN 0 ELSE queued[s]
  BY <1>1, <1>2, <1>3
<1>6. PlaceInv'
  <2>1. ASSUME NEW s \in Requests, queued'[s] > 0
        PROVE  /\ queued'[s] = 1 /\ streaming' /\ s[1] = opens' /\ s[2] \in setup'.buffers
               /\ \A g \in Frames : source'[g] # s
               /\ \A t \in Holders : req'[t] # s
    BY <1>1, <1>4, <1>5, <2>1 DEF DrainInv, PlaceInv
  <2>2. \A g, h \in Frames : source'[g] # None /\ source'[g] = source'[h] => g = h
    BY <1>1, <1>4 DEF DrainInv, PlaceInv, Alive
  <2>3. \A t \in Holders, g \in Frames : req'[t] # None => source'[g] # req'[t]
    BY <1>1, <1>4 DEF DrainInv, PlaceInv
  <2>4. \A g \in Frames : source'[g] # None => source'[g][2] \in setup'.buffers
    BY <1>1, <1>3, <1>4 DEF DrainInv, PlaceInv, Alive
  <2>. QED BY <1>1, <2>1, <2>2, <2>3, <2>4 DEF DrainInv, PlaceInv, Alive
<1>7. AgeInv'
  <2>1. control \in {"started", "open", "stopping"} /\ opens \in Nat
    BY <1>1 DEF TypeInv, ControlInv, PartsOK, ControlOK
  <2>2. \A g \in Frames : (Stale(g)' => Stale(g)) /\ (Alive(g)' => g = f \/ Alive(g))
    BY <1>1, <1>3, <1>4 DEF Stale, Alive
  <2>. QED BY <1>1, <1>3, <1>4, <2>1, <2>2 DEF DrainInv, AgeInv, Stale, Alive
<1>8. EventInv'
  <2>1. pc'["event"] = "copy" /\ held'["event"] = f
    BY <1>2 DEF Complete, TypeInv, PartsOK, ThreadsOK
  <2>2. ~InQueue(f, queue)
    BY <1>1 DEF TypeInv, AliveInv, Referenced
  <2>. QED BY <1>1, <1>3, <1>4, <2>1, <2>2 DEF DrainInv, EventInv
<1>. QED BY <1>1, <1>6, <1>7, <1>8 DEF DrainInv

\* Steps that move a frame and give back none.
LEMMA MoveDrain ==
  ASSUME TypeInv, DrainInv, setup.drains, Defined,
         CopyStill \/ PushVideo \/ Pop \/ TryGetSnapshot \/ RequestSnapshot
         \/ \E t \in Consumers : Read(t)
  PROVE  DrainInv'
<1>. USE DEF Defined
<1>1. /\ source' = source /\ queued' = queued /\ req' = req /\ running' = running
      /\ streaming' = streaming /\ opens' = opens /\ control' = control /\ setup' = setup
      /\ fault' # "queued_twice"
  BY DEF CopyStill, PushVideo, Pop, TryGetSnapshot, RequestSnapshot, Read
<1>2. PlaceInv'
  BY <1>1 DEF DrainInv, PlaceInv, Alive
<1>3. AgeInv'
  BY <1>1 DEF DrainInv, AgeInv, Stale, Alive
<1>4. EventInv'
  <2>. USE DEF DrainInv, EventInv
  <2>1. CASE CopyStill
    BY <2>1 DEF CopyStill, TypeInv, PartsOK, ThreadsOK
  <2>2. CASE PushVideo
    <3>1. held["event"] \in Frames /\ ~InQueue(held["event"], queue)
      BY <2>2 DEF PushVideo, TypeInv, PartsOK, ThreadsOK, LabelInv
    <3>2. pc'["event"] = "idle"
      BY <2>2 DEF PushVideo, TypeInv, PartsOK, ThreadsOK
    <3>3. queue' = Append(queue, held["event"]) /\ queue \in Seq(Frames)
      BY <2>2 DEF PushVideo, TypeInv, PartsOK, QueueOK
    <3>4. /\ Len(queue') = Len(queue) + 1 /\ Len(queue) \in Nat
          /\ \A i \in 1..Len(queue) : queue'[i] = queue[i]
          /\ queue'[Len(queue) + 1] = held["event"]
      BY <3>1, <3>3, AppendProperties, LenProperties
    <3>5. \A i \in 1..Len(queue) : queue[i] # held["event"]
      BY <3>1 DEF InQueue
    <3>6. \A i, j \in 1..Len(queue') : queue'[i] = queue'[j] => i = j
      BY <3>4, <3>5
    <3>. QED BY <3>2, <3>6
  <2>3. CASE Pop
    <3>1. queue \in Seq(Frames) /\ queue # <<>> /\ queue' = Tail(queue)
      BY <2>3 DEF Pop, TypeInv, PartsOK, QueueOK
    <3>2. /\ Len(queue') = Len(queue) - 1 /\ Len(queue) \in Nat
          /\ \A i \in 1..Len(queue') : queue'[i] = queue[i + 1]
      BY <3>1, HeadTailProperties, LenProperties
    <3>3. \A f : InQueue(f, queue') => InQueue(f, queue)
      BY <3>1, InTail
    <3>4. \A i, j \in 1..Len(queue') : queue'[i] = queue'[j] => i = j
      BY <3>2
    <3>5. pc'["event"] = pc["event"] /\ held'["event"] = held["event"]
      BY <2>3 DEF Pop, TypeInv, PartsOK, ThreadsOK
    <3>. QED BY <1>1, <3>3, <3>4, <3>5
  <2>4. CASE TryGetSnapshot
    BY <1>1, <2>4 DEF TryGetSnapshot, TypeInv, PartsOK, ThreadsOK
  <2>5. CASE RequestSnapshot
    BY <1>1, <2>5 DEF RequestSnapshot
  <2>6. CASE \E t \in Consumers : Read(t)
    BY <1>1, <2>6 DEF Read
  <2>. QED BY <2>1, <2>2, <2>3, <2>4, <2>5, <2>6
<1>. QED BY <1>1, <1>2, <1>3, <1>4 DEF DrainInv

\* A consumer's last reference puts the request of its frame in its own hands.
LEMMA DiscardDrain ==
  ASSUME TypeInv, DrainInv, setup.drains, Defined, NEW t \in Consumers, Discard(t)
  PROVE  DrainInv'
<1>. USE DEF Defined
<1>1. held[t] # None /\ req[t] = None /\ Drop(t, "idle")
  BY DEF Discard, TypeInv, LabelInv
<1>2. PICK f \in Frames : f = held[t]
  BY <1>1 DEF TypeInv, PartsOK, ThreadsOK
<1>3. /\ source[f] \in Requests
      /\ \/ source' = source /\ req' = req
         \/ source' = [source EXCEPT ![f] = None] /\ req' = req
         \/ /\ source' = [source EXCEPT ![f] = None] /\ running
            /\ req' = [req EXCEPT ![t] = source[f]]
      /\ held' = [held EXCEPT ![t] = None]
      /\ \E label : pc' = [pc EXCEPT ![t] = label]
  BY <1>1, <1>2, DropCases
<1>4. /\ queued' = queued /\ queue' = queue /\ running' = running
      /\ streaming' = streaming /\ opens' = opens /\ control' = control /\ setup' = setup
      /\ fault' = fault
  BY DEF Discard
<1>5. /\ source \in [Frames -> Requests \cup {None}] /\ req \in [Holders -> Requests \cup {None}]
      /\ held \in [Holders -> Frames \cup {None}] /\ pc["event"] = pc'["event"]
      /\ held["event"] = held'["event"]
  BY <1>3 DEF TypeInv, PartsOK, ThreadsOK
<1>6. \A g \in Frames : source'[g] = source[g] \/ source'[g] = None
  BY <1>3, <1>5
<1>7. \A u \in Holders : \/ req'[u] = req[u]
                         \/ u = t /\ req'[u] = source[f] /\ source'[f] = None /\ running
  BY <1>3, <1>5
<1>8. PlaceInv'
  <2>. USE DEF DrainInv, PlaceInv, Alive
  <2>1. ASSUME NEW r \in Requests, queued'[r] > 0
        PROVE  /\ \A g \in Frames : source'[g] # r
               /\ \A u \in Holders : req'[u] # r
    BY <1>2, <1>4, <1>6, <1>7, <2>1
  <2>2. \A g, h \in Frames : source'[g] # None /\ source'[g] = source'[h] => g = h
    BY <1>6
  <2>3. ASSUME NEW u \in Holders, NEW g \in Frames, req'[u] # None PROVE source'[g] # req'[u]
    BY <1>3, <1>6, <1>7, <2>3
  <2>4. ASSUME NEW u \in Holders, NEW v \in Holders, req'[u] # None, req'[u] = req'[v] PROVE u = v
    BY <1>3, <1>6, <1>7, <2>4
  <2>5. \A g \in Frames : source'[g] # None => source'[g][2] \in setup'.buffers
    BY <1>4, <1>6
  <2>6. \A u \in Holders : req'[u] # None => running' /\ req'[u][2] \in setup'.buffers
    BY <1>3, <1>4, <1>7
  <2>. QED BY <1>4, <2>1, <2>2, <2>3, <2>4, <2>5, <2>6
<1>9. AgeInv'
  <2>1. \A g \in Frames : Alive(g)' => Alive(g) /\ source'[g] = source[g]
    BY <1>6 DEF Alive
  <2>. QED BY <1>4, <2>1 DEF DrainInv, AgeInv, Stale
<1>10. EventInv'
  <2>1. ASSUME pc["event"] # "idle" PROVE source'[held["event"]] = source[held["event"]]
    <3>1. held["event"] \in Frames
      BY <2>1 DEF TypeInv, PartsOK, ThreadsOK, LabelInv, DrainInv, EventInv
    <3>2. CASE held["event"] # f
      BY <1>3, <1>5, <3>1, <3>2
    <3>3. CASE held["event"] = f
      <4>1. SharedBy(f, t)
        BY <3>3 DEF SharedBy
      <4>. QED BY <1>1, <1>2, <3>1, <4>1 DEF Drop
    <3>. QED BY <3>2, <3>3
  <2>. QED BY <1>4, <1>5, <2>1 DEF DrainInv, EventInv
<1>. QED BY <1>4, <1>8, <1>9, <1>10 DEF DrainInv

\* release() finds the camera without the request.
LEMMA QueueRequestDrain ==
  ASSUME TypeInv, DrainInv, setup.drains, Defined, NEW t \in Consumers,
         QueueRequest(t, "release", "idle")
  PROVE  DrainInv'
<1>. USE DEF Defined
<1>1. PICK r \in Requests : r = req[t]
  BY DEF QueueRequest, TypeInv, PartsOK, ThreadsOK, LabelInv
<1>2. /\ req' = [req EXCEPT ![t] = None]
      /\ source' = source /\ held' = held /\ queue' = queue /\ running' = running
      /\ streaming' = streaming /\ opens' = opens /\ control' = control /\ setup' = setup
      /\ pc' = [pc EXCEPT ![t] = "idle"]
  BY DEF QueueRequest
<1>3. running /\ streaming /\ r[2] \in setup.buffers
  BY <1>1 DEF DrainInv, PlaceInv, TypeInv, ControlInv
<1>4. queued[r] = 0
  BY <1>1 DEF DrainInv, PlaceInv, TypeInv, PartsOK, CountsOK
<1>5. fault' # "queued_twice"
  BY <1>1, <1>4 DEF QueueRequest
<1>6. \A s \in Requests : \/ queued'[s] = queued[s]
                          \/ s = r /\ queued'[s] = 1 /\ r[1] = opens
  BY <1>1, <1>3, <1>4 DEF QueueRequest, Live, TypeInv, PartsOK, CountsOK
<1>7. \A u \in Holders : req'[u] = IF u = t THEN None ELSE req[u]
  BY <1>2 DEF TypeInv, PartsOK, ThreadsOK
<1>8. PlaceInv'
  <2>. USE DEF DrainInv, PlaceInv, Alive
  <2>1. ASSUME NEW s \in Requests, queued'[s] > 0
        PROVE  /\ queued'[s] = 1 /\ streaming' /\ s[1] = opens' /\ s[2] \in setup'.buffers
               /\ \A g \in Frames : source'[g] # s
               /\ \A u \in Holders : req'[u] # s
    <3>1. CASE queued'[s] = queued[s]
      BY <1>2, <1>7, <2>1, <3>1
    <3>2. CASE s = r /\ queued'[s] = 1 /\ r[1] = opens
      BY <1>1, <1>2, <1>3, <1>7, <3>2
    <3>. QED BY <1>6, <3>1, <3>2
  <2>. QED BY <1>2, <1>7, <2>1
<1>9. AgeInv'
  BY <1>2 DEF DrainInv, AgeInv, Stale, Alive
<1>10. EventInv'
  <2>1. pc'["event"] = pc["event"]
    BY <1>2 DEF TypeInv, PartsOK, ThreadsOK
  <2>. QED BY <1>2, <2>1 DEF DrainInv, EventInv
<1>. QED BY <1>5, <1>8, <1>9, <1>10 DEF DrainInv

LEMMA StepDrain ==
  DeepQueues /\ TypeInv /\ TypeInv' /\ (setup.drains => DrainInv) /\ [Next]_vars
  => (setup.drains => DrainInv)'
<1>. SUFFICES ASSUME DeepQueues, TypeInv, TypeInv', setup.drains => DrainInv, [Next]_vars,
                     setup'.drains
              PROVE  DrainInv'
  OBVIOUS
<1>1. CASE UNCHANGED vars
  BY <1>1 DEF vars, DrainInv, PlaceInv, AgeInv, EventInv, Stale, Alive
<1>2. CASE Next
  <2>. USE <1>2
  <2>1. Defined /\ setup.drains /\ DrainInv
    BY DEF Next, Defined
  <2>2. ~PushRefused
    BY <2>1, QueueHasRoom DEF PushRefused, TypeInv, PartsOK, SetupOK, QueueOK
  <2>3. ~Recycle /\ \A to : ~QueueRequest("event", "release", to) /\ ~QueueRequest("event", "requeue", to)
    BY <2>1 DEF Recycle, QueueRequest, DrainInv, EventInv
  <2>. QED
    BY <2>1, <2>2, <2>3, ControlDrain, CompleteDrain, MoveDrain, DiscardDrain, QueueRequestDrain
    DEF Next, EventStep, Consume
<1>. QED BY <1>1, <1>2

\* While a Frame views a buffer the camera does not write into it, and the camera has
\* the request at most once, if the callers close the camera only when no frame is out
\* and the video queue has room for the frames of two opens: the ones left from the
\* last open() and the ones of this one.
THEOREM OneOwnerEach ==
  ASSUME DeepQueues
  PROVE  Spec => []OneOwner
<1>1. Init => (setup.drains => DrainInv)
  BY InitDrain
<1>2. TypeInv /\ TypeInv' /\ (setup.drains => DrainInv) /\ [Next]_vars => (setup.drains => DrainInv)'
  BY StepDrain
<1>3. TypeInv /\ (setup.drains => DrainInv) => OneOwner
  BY DEF TypeInv, PartsOK, CountsOK, DrainInv, PlaceInv, OneOwner
<1>. QED BY TypeInvHolds, <1>1, <1>2, <1>3, PTL DEF Spec
=============================================================================
