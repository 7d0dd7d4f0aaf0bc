----------------------- MODULE CameraControl_proofs -----------------------
(***************************************************************************)
(* Proofs about CameraControl, for every set of clients, of commands, of   *)
(* presets and of faults, and for every bound on the number of commands.   *)
(***************************************************************************)
EXTENDS CameraControl_inv, TLAPS

-----------------------------------------------------------------------------
\* Numbers that are distinct where they are not 0 stay so when one is replaced by a
\* number above all of them.
LEMMA FreshDistinct ==
  ASSUME NEW S, NEW old, NEW new, NEW n \in Int, NEW c \in S,
         \A d \in S : old[d] \in Int /\ old[d] <= n /\ (d # c => new[d] = old[d]),
         new[c] = n + 1,
         \A d, e \in S : old[d] = old[e] /\ old[d] # 0 => d = e
  PROVE  \A d, e \in S : new[d] = new[e] /\ new[d] # 0 => d = e
<1>1. \A d \in S : d # c => new[d] # n + 1
  OBVIOUS
<1>. QED BY <1>1

-----------------------------------------------------------------------------
(* Type correctness.  The lemmas take one kind of step each.  A step that   *)
(* assigns a flag has its Boolean part proved apart, by Zenon.              *)

USE ThreadsDistinct
    DEF TypeOK, Threads, Actors, None, Unlocked, CommandNames, RecorderStates, Crashes,
        Labels, ClientLabels, StartRecordingLabels, StopRecordingLabels, DeleteLabels,
        StopLabels, StartLabels, MainLabels, DrainLabels, BusLabels,
        At, Goto, Move, Call, Finish, Die, Started, EndFile, Outcomes, AfterStop, NameFile,
        threadVars, requestVars, cameraVars, sessionVars, objectVars, appVars

LEMMA TypeInit == Init => TypeOK
<1>. SUFFICES ASSUME Init PROVE TypeOK
  OBVIOUS
<1>1. pc \in [Threads -> Labels] /\ ret \in [Actors -> Labels]
  BY DEF Init
<1>2. cmds \in Ids /\ serial \in [Actors -> Ids \cup {None}]
  BY ParametersOK DEF Init, Ids
<1>3. rfile \in [Ids -> FileNames]
  BY DEF Init, FileNames
<1>. QED BY <1>1, <1>2, <1>3, ParametersOK DEF Init

LEMMA TypeRecording ==
  ASSUME NEW c \in Clients, TypeOK, Recording(c)
  PROVE  TypeOK'
<1>1. CASE StartRecording(c)
  BY <1>1 DEF StartRecording
<1>2. CASE NewRecorder(c)
  <2>1. pc' \in [Threads -> Labels] /\ ret' \in [Actors -> Labels]
    BY <1>2 DEF NewRecorder
  <2>2. obj' \in [Threads -> Ids \cup {None}] /\ recorder' \in Ids \cup {None}
    BY <1>2 DEF NewRecorder
  <2>3. rstate' \in [Ids -> RecorderStates]
    BY <1>2 DEF NewRecorder
  <2>. QED BY <1>2, <2>1, <2>2, <2>3 DEF NewRecorder
<1>3. CASE RecorderStarts(c)
  <2>1. rfile' \in [Ids -> FileNames]
    <3>1. recorder \in Ids
      BY <1>3 DEF RecorderStarts
    <3>2. Invented(recorder) \in FileNames /\ file[c] \in FileNames
      BY <3>1 DEF FileNames
    <3>. QED BY <1>3, <3>2 DEF RecorderStarts
  <2>2. rstate' \in [Ids -> RecorderStates]
    BY <1>3 DEF RecorderStarts
  <2>3. rcfg' \in [Ids -> Resolutions]
    BY <1>3 DEF RecorderStarts
  <2>. QED BY <1>3, <2>1, <2>2, <2>3 DEF RecorderStarts
<1>4. CASE RecorderStartFails(c)
  BY <1>4 DEF RecorderStartFails
<1>5. CASE RecorderStartThrows(c)
  BY <1>5 DEF RecorderStartThrows
<1>6. CASE RecorderStartOnNull(c)
  BY <1>6 DEF RecorderStartOnNull
<1>7. CASE Publish(c)
  <2>1. recording' \in BOOLEAN
    BY <1>7, Zenon DEF Publish
  <2>. QED BY <1>7, <2>1 DEF Publish
<1>. QED BY <1>1, <1>2, <1>3, <1>4, <1>5, <1>6, <1>7 DEF Recording

LEMMA TypeHandling ==
  ASSUME NEW c \in Clients, TypeOK, Handling(c)
  PROVE  TypeOK'
<1>1. CASE GetStatus(c)
  BY <1>1 DEF GetStatus
<1>2. CASE RecordStart(c)
  BY <1>2 DEF RecordStart
<1>3. CASE RecordRestart(c)
  BY <1>3 DEF RecordRestart
<1>4. CASE LockRes(c)
  BY <1>4 DEF LockRes
<1>5. CASE StartReply(c)
  BY <1>5 DEF StartReply
<1>6. CASE RecordStop(c)
  BY <1>6 DEF RecordStop
<1>7. CASE StopReply(c)
  BY <1>7 DEF StopReply
<1>8. CASE SetResolution(c)
  BY <1>8 DEF SetResolution
<1>9. CASE Switch(c)
  BY <1>9 DEF Switch
<1>10. CASE ApplyCfg(c)
  BY <1>10 DEF ApplyCfg
<1>11. CASE Recording(c)
  BY <1>11, TypeRecording
<1>. QED BY <1>1, <1>2, <1>3, <1>4, <1>5, <1>6, <1>7, <1>8, <1>9, <1>10, <1>11 DEF Handling

LEMMA TypeShared ==
  ASSUME NEW t \in Actors, TypeOK, Shared(t)
  PROVE  TypeOK'
<1>1. CASE StopRecording(t)
  BY <1>1 DEF StopRecording
<1>2. CASE ClearFlag(t)
  <2>1. recording' \in BOOLEAN
    BY <1>2, Zenon DEF ClearFlag
  <2>. QED BY <1>2, <2>1 DEF ClearFlag
<1>3. CASE CallStop(t)
  BY <1>3 DEF CallStop
<1>4. CASE RecorderStop(t)
  BY <1>4 DEF RecorderStop
<1>5. CASE RecorderStopOnFreed(t)
  BY <1>5 DEF RecorderStopOnFreed
<1>6. CASE AwaitEos(t)
  <2>1. ended' \in [Ids -> {"no", "finalised", "truncated"}]
    <3>1. \E o \in {"finalised", "truncated"} : ended' = [ended EXCEPT ![obj[t]] = o]
      BY <1>6 DEF AwaitEos
    <3>. QED BY <3>1
  <2>2. rmtx' \in [Ids -> Actors \cup {Unlocked}]
    BY <1>6 DEF AwaitEos
  <2>3. rstate' \in [Ids -> RecorderStates]
    BY <1>6 DEF AwaitEos
  <2>. QED BY <1>6, <2>1, <2>2, <2>3 DEF AwaitEos
<1>7. CASE ResetRecorder(t)
  BY <1>7 DEF ResetRecorder
<1>8. CASE Delete(t)
  BY <1>8 DEF Delete
<1>9. CASE DeleteEos(t)
  <2>1. ended' \in [Ids -> {"no", "finalised", "truncated"}]
    <3>1. \E o \in {"finalised", "truncated"} : ended' = [ended EXCEPT ![obj[t]] = o]
      BY <1>9 DEF DeleteEos
    <3>. QED BY <3>1
  <2>2. rmtx' \in [Ids -> Actors \cup {Unlocked}]
    BY <1>9 DEF DeleteEos
  <2>3. rstate' \in [Ids -> RecorderStates]
    BY <1>9 DEF DeleteEos
  <2>. QED BY <1>9, <2>1, <2>2, <2>3 DEF DeleteEos
<1>10. CASE Stop(t)
  BY <1>10 DEF Stop
<1>11. CASE StopFinalize(t)
  BY <1>11 DEF StopFinalize
<1>12. CASE StopFlags(t)
  <2>1. running' \in BOOLEAN /\ abortBus' \in BOOLEAN /\ abortRec' \in BOOLEAN
    BY <1>12, Zenon DEF StopFlags
  <2>. QED BY <1>12, <2>1 DEF StopFlags
<1>13. CASE JoinRec(t)
  <2>1. recThread' \in BOOLEAN
    BY <1>13, Zenon DEF JoinRec
  <2>. QED BY <1>13, <2>1 DEF JoinRec
<1>14. CASE SetNull(t)
  BY <1>14 DEF SetNull
<1>15. CASE JoinBus(t)
  <2>1. busThread' \in BOOLEAN
    BY <1>15, Zenon DEF JoinBus
  <2>. QED BY <1>15, <2>1 DEF JoinBus
<1>16. CASE Unref(t)
  BY <1>16 DEF Unref
<1>17. CASE Start(t)
  BY <1>17 DEF Start
<1>18. CASE Launch(t)
  BY <1>18 DEF Launch
<1>19. CASE LaunchFails(t)
  BY <1>19 DEF LaunchFails
<1>20. CASE SpawnRec(t)
  <2>1. abortRec' \in BOOLEAN /\ recThread' \in BOOLEAN
    BY <1>20, Zenon DEF SpawnRec
  <2>. QED BY <1>20, <2>1 DEF SpawnRec
<1>21. CASE SpawnBus(t)
  <2>1. running' \in BOOLEAN /\ abortBus' \in BOOLEAN /\ busThread' \in BOOLEAN
    BY <1>21, Zenon DEF SpawnBus
  <2>. QED BY <1>21, <2>1 DEF SpawnBus
<1>22. CASE SpawnOverJoinable(t)
  BY <1>22 DEF SpawnOverJoinable
<1>. QED BY <1>1, <1>2, <1>3, <1>4, <1>5, <1>6, <1>7, <1>8, <1>9, <1>10, <1>11, <1>12, <1>13, <1>14, <1>15, <1>16, <1>17, <1>18, <1>19, <1>20, <1>21, <1>22 DEF Shared

LEMMA TypeDrain ==
  ASSUME TypeOK, DrainStep
  PROVE  TypeOK'
<1>1. CASE DrainAborts
  BY <1>1 DEF DrainAborts
<1>2. CASE Pull
  BY <1>2 DEF Pull
<1>3. CASE Check
  BY <1>3 DEF Check
<1>4. CASE PushFrame
  BY <1>4 DEF PushFrame
<1>5. CASE PushFrameOnNull
  BY <1>5 DEF PushFrameOnNull
<1>6. CASE Push
  BY <1>6 DEF Push
<1>7. CASE PushAfterTeardown
  BY <1>7 DEF PushAfterTeardown
<1>. QED BY <1>1, <1>2, <1>3, <1>4, <1>5, <1>6, <1>7 DEF DrainStep

LEMMA TypeMain ==
  ASSUME TypeOK, MainStep
  PROVE  TypeOK'
<1>1. CASE LeaveLoop
  BY <1>1 DEF LeaveLoop
<1>2. CASE WsStop
  BY <1>2 DEF WsStop
<1>3. CASE Destroy
  BY <1>3 DEF Destroy
<1>4. CASE DestroyJoinable
  BY <1>4 DEF DestroyJoinable
<1>. QED BY <1>1, <1>2, <1>3, <1>4 DEF MainStep

LEMMA TypeRaces ==
  ASSUME TypeOK, Races
  PROVE  TypeOK'
BY DEF Races, DoubleReset, DoubleJoin

LEMMA TypeEnvironment ==
  ASSUME TypeOK, Environment
  PROVE  TypeOK'
<1>1. ASSUME NEW c \in Clients, Connect(c) PROVE TypeOK'
  BY <1>1 DEF Connect
<1>2. ASSUME NEW c \in Clients, Disconnect(c) PROVE TypeOK'
  BY <1>2 DEF Disconnect
<1>3. ASSUME NEW c \in Clients, NEW k \in Commands, NEW w \in Resolutions, Request(c, k, w)
      PROVE  TypeOK'
  BY <1>3, ParametersOK DEF Request, Ids
<1>4. CASE Signal
  <2>1. quit' \in BOOLEAN
    BY <1>4, Zenon DEF Signal
  <2>. QED BY <1>4, <2>1 DEF Signal
<1>5. CASE BusError
  <2>1. running' \in BOOLEAN
    BY <1>5, Zenon DEF BusError
  <2>. QED BY <1>5, <2>1 DEF BusError
<1>. QED BY <1>1, <1>2, <1>3, <1>4, <1>5 DEF Environment

LEMMA TypeStep ==
  ASSUME TypeOK, [Next]_vars
  PROVE  TypeOK'
<1>1. CASE UNCHANGED vars
  BY <1>1 DEF vars
<1>2. CASE BusAborts
  BY <1>2 DEF BusAborts
<1>. QED
  BY <1>1, <1>2, TypeEnvironment, TypeRaces, TypeDrain, TypeMain, TypeHandling, TypeShared
     DEF Next

\* Every variable keeps its type.
THEOREM TypeCorrect == Spec => []TypeOK
<1>. QED BY TypeInit, TypeStep, PTL DEF Spec

-----------------------------------------------------------------------------
(* The order of shutdown.  MainInv is inductive: only main moves main, and  *)
(* while main is neither in its loop nor waiting for the handler threads,  *)
(* every handler thread is gone and none can start.                        *)

USE DEF MainInv, HaltedLabels

LEMMA OrderInit == Init => MainInv
  BY DEF Init

LEMMA OrderHandling ==
  ASSUME NEW c \in Clients, TypeOK, MainInv, Handling(c)
  PROVE  MainInv'
<1>1. CASE GetStatus(c)
  BY <1>1 DEF GetStatus
<1>2. CASE RecordStart(c)
  BY <1>2 DEF RecordStart
<1>3. CASE RecordRestart(c)
  BY <1>3 DEF RecordRestart
<1>4. CASE LockRes(c)
  BY <1>4 DEF LockRes
<1>5. CASE StartReply(c)
  BY <1>5 DEF StartReply
<1>6. CASE RecordStop(c)
  BY <1>6 DEF RecordStop
<1>7. CASE StopReply(c)
  BY <1>7 DEF StopReply
<1>8. CASE SetResolution(c)
  BY <1>8 DEF SetResolution
<1>9. CASE Switch(c)
  BY <1>9 DEF Switch
<1>10. CASE ApplyCfg(c)
  BY <1>10 DEF ApplyCfg
<1>11. CASE StartRecording(c)
  BY <1>11 DEF StartRecording
<1>12. CASE NewRecorder(c)
  BY <1>12 DEF NewRecorder
<1>13. CASE RecorderStarts(c)
  BY <1>13 DEF RecorderStarts
<1>14. CASE RecorderStartFails(c)
  BY <1>14 DEF RecorderStartFails
<1>15. CASE RecorderStartThrows(c)
  BY <1>15 DEF RecorderStartThrows
<1>16. CASE RecorderStartOnNull(c)
  BY <1>16 DEF RecorderStartOnNull
<1>17. CASE Publish(c)
  BY <1>17 DEF Publish
<1>. QED BY <1>1, <1>2, <1>3, <1>4, <1>5, <1>6, <1>7, <1>8, <1>9, <1>10, <1>11, <1>12, <1>13, <1>14, <1>15, <1>16, <1>17 DEF Handling, Recording

LEMMA OrderShared ==
  ASSUME NEW t \in Actors, TypeOK, MainInv, Shared(t)
  PROVE  MainInv'
<1>1. CASE StopRecording(t)
  BY <1>1 DEF StopRecording
<1>2. CASE ClearFlag(t)
  BY <1>2 DEF ClearFlag
<1>3. CASE CallStop(t)
  BY <1>3 DEF CallStop
<1>4. CASE RecorderStop(t)
  BY <1>4 DEF RecorderStop
<1>5. CASE RecorderStopOnFreed(t)
  BY <1>5 DEF RecorderStopOnFreed
<1>6. CASE AwaitEos(t)
  BY <1>6 DEF AwaitEos
<1>7. CASE ResetRecorder(t)
  BY <1>7 DEF ResetRecorder
<1>8. CASE Delete(t)
  BY <1>8 DEF Delete
<1>9. CASE DeleteEos(t)
  BY <1>9 DEF DeleteEos
<1>10. CASE Stop(t)
  BY <1>10 DEF Stop
<1>11. CASE StopFinalize(t)
  BY <1>11 DEF StopFinalize
<1>12. CASE StopFlags(t)
  BY <1>12 DEF StopFlags
<1>13. CASE JoinRec(t)
  BY <1>13 DEF JoinRec
<1>14. CASE SetNull(t)
  BY <1>14 DEF SetNull
<1>15. CASE JoinBus(t)
  BY <1>15 DEF JoinBus
<1>16. CASE Unref(t)
  BY <1>16 DEF Unref
<1>17. CASE Start(t)
  BY <1>17 DEF Start
<1>18. CASE Launch(t)
  BY <1>18 DEF Launch
<1>19. CASE LaunchFails(t)
  BY <1>19 DEF LaunchFails
<1>20. CASE SpawnRec(t)
  BY <1>20 DEF SpawnRec
<1>21. CASE SpawnBus(t)
  BY <1>21 DEF SpawnBus
<1>22. CASE SpawnOverJoinable(t)
  BY <1>22 DEF SpawnOverJoinable
<1>. QED BY <1>1, <1>2, <1>3, <1>4, <1>5, <1>6, <1>7, <1>8, <1>9, <1>10, <1>11, <1>12, <1>13, <1>14, <1>15, <1>16, <1>17, <1>18, <1>19, <1>20, <1>21, <1>22 DEF Shared

LEMMA OrderDrain ==
  ASSUME TypeOK, MainInv, DrainStep
  PROVE  MainInv'
<1>1. CASE DrainAborts
  BY <1>1 DEF DrainAborts
<1>2. CASE Pull
  BY <1>2 DEF Pull
<1>3. CASE Check
  BY <1>3 DEF Check
<1>4. CASE PushFrame
  BY <1>4 DEF PushFrame
<1>5. CASE PushFrameOnNull
  BY <1>5 DEF PushFrameOnNull
<1>6. CASE Push
  BY <1>6 DEF Push
<1>7. CASE PushAfterTeardown
  BY <1>7 DEF PushAfterTeardown
<1>. QED BY <1>1, <1>2, <1>3, <1>4, <1>5, <1>6, <1>7 DEF DrainStep

LEMMA OrderMain ==
  ASSUME TypeOK, MainInv, MainStep
  PROVE  MainInv'
<1>1. CASE LeaveLoop
  BY <1>1 DEF LeaveLoop
<1>2. CASE WsStop
  BY <1>2 DEF WsStop
<1>3. CASE Destroy
  BY <1>3 DEF Destroy
<1>4. CASE DestroyJoinable
  BY <1>4 DEF DestroyJoinable
<1>. QED BY <1>1, <1>2, <1>3, <1>4 DEF MainStep

LEMMA OrderEnvironment ==
  ASSUME TypeOK, MainInv, Environment
  PROVE  MainInv'
<1>1. ASSUME NEW c \in Clients, Connect(c)
      PROVE  MainInv'
  BY <1>1 DEF Connect
<1>2. ASSUME NEW c \in Clients, Disconnect(c)
      PROVE  MainInv'
  BY <1>2 DEF Disconnect
<1>3. ASSUME NEW c \in Clients, NEW k \in Commands, NEW w \in Resolutions,
             Request(c, k, w)
      PROVE  MainInv'
  BY <1>3, ParametersOK DEF Request
<1>4. ASSUME Signal
      PROVE  MainInv'
  BY <1>4 DEF Signal
<1>5. ASSUME BusError
      PROVE  MainInv'
  BY <1>5 DEF BusError
<1>. QED BY <1>1, <1>2, <1>3, <1>4, <1>5 DEF Environment

LEMMA OrderStep ==
  ASSUME TypeOK, MainInv, [Next]_vars
  PROVE  MainInv'
<1>1. CASE UNCHANGED vars
  BY <1>1 DEF vars
<1>2. CASE BusAborts
  BY <1>2 DEF BusAborts
<1>3. CASE Races
  BY <1>3 DEF Races, DoubleReset, DoubleJoin
<1>. QED
  BY <1>1, <1>2, <1>3, OrderEnvironment, OrderHandling, OrderShared, OrderDrain, OrderMain
     DEF Next

\* gst_cam.stop() and the destructors run with no handler thread left, and the
\* destructors with the camera stopped.
THEOREM ShutdownOrdered == Spec => []ShutdownOrder
<1>1. TypeOK /\ MainInv => ShutdownOrder
  BY DEF ShutdownOrder, ShuttingDown
<1>. QED BY <1>1, TypeInit, TypeStep, OrderInit, OrderStep, PTL DEF Spec

-----------------------------------------------------------------------------
(* res_mutex.  LockInv says who owns it inside start_recording(), and also *)
(* where a handler thread returns to from the functions that are called    *)
(* from several places, without which it is not inductive.                 *)

USE DEF LockInv, StopReturns, InStartRecording

LEMMA LockInit == Init => LockInv
  BY DEF Init

LEMMA LockHandling ==
  ASSUME NEW c \in Clients, TypeOK, MainInv, LockInv, Handling(c)
  PROVE  LockInv'
<1>1. CASE GetStatus(c)
  BY <1>1 DEF GetStatus
<1>2. CASE RecordStart(c)
  BY <1>2 DEF RecordStart
<1>3. CASE RecordRestart(c)
  BY <1>3 DEF RecordRestart
<1>4. CASE LockRes(c)
  BY <1>4 DEF LockRes
<1>5. CASE StartReply(c)
  BY <1>5 DEF StartReply
<1>6. CASE RecordStop(c)
  BY <1>6 DEF RecordStop
<1>7. CASE StopReply(c)
  BY <1>7 DEF StopReply
<1>8. CASE SetResolution(c)
  BY <1>8 DEF SetResolution
<1>9. CASE Switch(c)
  BY <1>9 DEF Switch
<1>10. CASE ApplyCfg(c)
  BY <1>10 DEF ApplyCfg
<1>11. CASE StartRecording(c)
  BY <1>11 DEF StartRecording
<1>12. CASE NewRecorder(c)
  BY <1>12 DEF NewRecorder
<1>13. CASE RecorderStarts(c)
  BY <1>13 DEF RecorderStarts
<1>14. CASE RecorderStartFails(c)
  BY <1>14 DEF RecorderStartFails
<1>15. CASE RecorderStartThrows(c)
  BY <1>15 DEF RecorderStartThrows
<1>16. CASE RecorderStartOnNull(c)
  BY <1>16 DEF RecorderStartOnNull
<1>17. CASE Publish(c)
  BY <1>17 DEF Publish
<1>. QED BY <1>1, <1>2, <1>3, <1>4, <1>5, <1>6, <1>7, <1>8, <1>9, <1>10, <1>11, <1>12, <1>13, <1>14, <1>15, <1>16, <1>17 DEF Handling, Recording

LEMMA LockShared ==
  ASSUME NEW t \in Actors, TypeOK, MainInv, LockInv, Shared(t)
  PROVE  LockInv'
<1>1. CASE StopRecording(t)
  BY <1>1 DEF StopRecording
<1>2. CASE ClearFlag(t)
  BY <1>2 DEF ClearFlag
<1>3. CASE CallStop(t)
  BY <1>3 DEF CallStop
<1>4. CASE RecorderStop(t)
  BY <1>4 DEF RecorderStop
<1>5. CASE RecorderStopOnFreed(t)
  BY <1>5 DEF RecorderStopOnFreed
<1>6. CASE AwaitEos(t)
  BY <1>6 DEF AwaitEos
<1>7. CASE ResetRecorder(t)
  BY <1>7 DEF ResetRecorder
<1>8. CASE Delete(t)
  BY <1>8 DEF Delete
<1>9. CASE DeleteEos(t)
  BY <1>9 DEF DeleteEos
<1>10. CASE Stop(t)
  BY <1>10 DEF Stop
<1>11. CASE StopFinalize(t)
  BY <1>11 DEF StopFinalize
<1>12. CASE StopFlags(t)
  BY <1>12 DEF StopFlags
<1>13. CASE JoinRec(t)
  BY <1>13 DEF JoinRec
<1>14. CASE SetNull(t)
  BY <1>14 DEF SetNull
<1>15. CASE JoinBus(t)
  BY <1>15 DEF JoinBus
<1>16. CASE Unref(t)
  BY <1>16 DEF Unref
<1>17. CASE Start(t)
  BY <1>17 DEF Start
<1>18. CASE Launch(t)
  BY <1>18 DEF Launch
<1>19. CASE LaunchFails(t)
  BY <1>19 DEF LaunchFails
<1>20. CASE SpawnRec(t)
  BY <1>20 DEF SpawnRec
<1>21. CASE SpawnBus(t)
  BY <1>21 DEF SpawnBus
<1>22. CASE SpawnOverJoinable(t)
  BY <1>22 DEF SpawnOverJoinable
<1>. QED BY <1>1, <1>2, <1>3, <1>4, <1>5, <1>6, <1>7, <1>8, <1>9, <1>10, <1>11, <1>12, <1>13, <1>14, <1>15, <1>16, <1>17, <1>18, <1>19, <1>20, <1>21, <1>22 DEF Shared

LEMMA LockDrain ==
  ASSUME TypeOK, MainInv, LockInv, DrainStep
  PROVE  LockInv'
<1>1. CASE DrainAborts
  BY <1>1 DEF DrainAborts
<1>2. CASE Pull
  BY <1>2 DEF Pull
<1>3. CASE Check
  BY <1>3 DEF Check
<1>4. CASE PushFrame
  BY <1>4 DEF PushFrame
<1>5. CASE PushFrameOnNull
  BY <1>5 DEF PushFrameOnNull
<1>6. CASE Push
  BY <1>6 DEF Push
<1>7. CASE PushAfterTeardown
  BY <1>7 DEF PushAfterTeardown
<1>. QED BY <1>1, <1>2, <1>3, <1>4, <1>5, <1>6, <1>7 DEF DrainStep

LEMMA LockMain ==
  ASSUME TypeOK, MainInv, LockInv, MainStep
  PROVE  LockInv'
<1>1. CASE LeaveLoop
  BY <1>1 DEF LeaveLoop
<1>2. CASE WsStop
  BY <1>2 DEF WsStop
<1>3. CASE Destroy
  BY <1>3 DEF Destroy
<1>4. CASE DestroyJoinable
  BY <1>4 DEF DestroyJoinable
<1>. QED BY <1>1, <1>2, <1>3, <1>4 DEF MainStep

LEMMA LockEnvironment ==
  ASSUME TypeOK, MainInv, LockInv, Environment
  PROVE  LockInv'
<1>1. ASSUME NEW c \in Clients, Connect(c)
      PROVE  LockInv'
  BY <1>1 DEF Connect
<1>2. ASSUME NEW c \in Clients, Disconnect(c)
      PROVE  LockInv'
  BY <1>2 DEF Disconnect
<1>3. ASSUME NEW c \in Clients, NEW k \in Commands, NEW w \in Resolutions,
             Request(c, k, w)
      PROVE  LockInv'
  BY <1>3, ParametersOK DEF Request
<1>4. ASSUME Signal
      PROVE  LockInv'
  BY <1>4 DEF Signal
<1>5. ASSUME BusError
      PROVE  LockInv'
  BY <1>5 DEF BusError
<1>. QED BY <1>1, <1>2, <1>3, <1>4, <1>5 DEF Environment

LEMMA LockStep ==
  ASSUME TypeOK, MainInv, LockInv, [Next]_vars
  PROVE  LockInv'
<1>1. CASE UNCHANGED vars
  BY <1>1 DEF vars
<1>2. CASE BusAborts
  BY <1>2 DEF BusAborts
<1>3. CASE Races
  BY <1>3 DEF Races, DoubleReset, DoubleJoin
<1>. QED
  BY <1>1, <1>2, <1>3, LockEnvironment, LockHandling, LockShared, LockDrain, LockMain
     DEF Next

\* Any number of record_start and record_restart commands: one at a time is inside
\* start_recording().
THEOREM StartsExclude == Spec => []StartExclusive
<1>1. LockInv => StartExclusive
  BY DEF StartExclusive
<1>. QED
  BY <1>1, TypeInit, TypeStep, OrderInit, OrderStep, LockInit, LockStep, PTL DEF Spec

-----------------------------------------------------------------------------
(* The Recorders.  RecorderInv follows a Recorder from the command that     *)
(* creates it to the thread that ends its file: the number of a command is *)
(* its own, so the Recorder it creates is new; the Recorder it starts has  *)
(* not recorded; and the thread that waits for the EOS owns mtx_.          *)

USE DEF RecorderInv, EndedInv, StoppingInv, BirthInv, BornInv, SerialInv,
        Within, BeforeBirth, AfterBirth, Ids

LEMMA RecorderInit == Init => RecorderInv
  BY ParametersOK DEF Init

LEMMA RecorderHandling ==
  ASSUME NEW c \in Clients, TypeOK, MainInv, LockInv, RecorderInv, Handling(c)
  PROVE  RecorderInv'
<1>1. CASE GetStatus(c)
  BY <1>1 DEF GetStatus
<1>2. CASE RecordStart(c)
  BY <1>2 DEF RecordStart
<1>3. CASE RecordRestart(c)
  BY <1>3 DEF RecordRestart
<1>4. CASE LockRes(c)
  BY <1>4 DEF LockRes
<1>5. CASE StartReply(c)
  BY <1>5 DEF StartReply
<1>6. CASE RecordStop(c)
  BY <1>6 DEF RecordStop
<1>7. CASE StopReply(c)
  BY <1>7 DEF StopReply
<1>8. CASE SetResolution(c)
  BY <1>8 DEF SetResolution
<1>9. CASE Switch(c)
  BY <1>9 DEF Switch
<1>10. CASE ApplyCfg(c)
  BY <1>10 DEF ApplyCfg
<1>11. CASE StartRecording(c)
  BY <1>11 DEF StartRecording
<1>12. CASE NewRecorder(c)
  <2>1. EndedInv'
    BY <1>12 DEF NewRecorder
  <2>2. StoppingInv'
    BY <1>12 DEF NewRecorder
  <2>3. BirthInv'
    <3>1. /\ serial[c] \in Ids /\ rstate[serial[c]] = "unborn" /\ ended[serial[c]] = "no"
          /\ recorder' = serial[c]
          /\ rstate' = [rstate EXCEPT ![serial[c]] = "idle"]
          /\ UNCHANGED <<serial, ended>>
      BY <1>12 DEF NewRecorder
    <3>2. ~BeforeBirth(c)'
      BY <1>12 DEF NewRecorder
    <3>3. ASSUME NEW d \in Clients, d # c
          PROVE  /\ pc'[d] = pc[d] /\ ret'[d] = ret[d] /\ serial[d] # serial[c]
                 /\ ~AfterBirth(d)
      BY <1>12, <3>3 DEF NewRecorder, InStartRecording
    <3>. QED BY <3>1, <3>2, <3>3
  <2>4. BornInv'
    BY <1>12 DEF NewRecorder
  <2>5. SerialInv'
    BY <1>12 DEF NewRecorder
  <2>. QED BY <1>12, <2>1, <2>2, <2>3, <2>4, <2>5 DEF NewRecorder
<1>13. CASE RecorderStarts(c)
  BY <1>13 DEF RecorderStarts
<1>14. CASE RecorderStartFails(c)
  BY <1>14 DEF RecorderStartFails
<1>15. CASE RecorderStartThrows(c)
  BY <1>15 DEF RecorderStartThrows
<1>16. CASE RecorderStartOnNull(c)
  BY <1>16 DEF RecorderStartOnNull
<1>17. CASE Publish(c)
  BY <1>17 DEF Publish
<1>. QED BY <1>1, <1>2, <1>3, <1>4, <1>5, <1>6, <1>7, <1>8, <1>9, <1>10, <1>11, <1>12, <1>13, <1>14, <1>15, <1>16, <1>17 DEF Handling, Recording

LEMMA RecorderStopStep ==
  ASSUME NEW t \in Actors, TypeOK, MainInv, LockInv, RecorderInv, RecorderStop(t)
  PROVE  RecorderInv'
<1>1. obj[t] \in Ids /\ pc[t] = "recorder_stop" /\ rmtx[obj[t]] = Unlocked
  BY DEF RecorderStop
<1>2. CASE rstate[obj[t]] = "recording"
  <2>1. /\ rmtx' = [rmtx EXCEPT ![obj[t]] = t]
        /\ rstate' = [rstate EXCEPT ![obj[t]] = "stopping"]
        /\ pc' = [pc EXCEPT ![t] = "await_eos"]
        /\ UNCHANGED <<ret, obj, requestVars, cameraVars, sessionVars, rcfg, ended, appVars>>
    BY <1>2 DEF RecorderStop
  <2>2. EndedInv'
    BY <1>1, <1>2, <2>1
  <2>3. StoppingInv'
    BY <1>1, <1>2, <2>1
  <2>4. BirthInv'
    BY <1>1, <1>2, <2>1
  <2>5. BornInv'
    BY <1>1, <1>2, <2>1
  <2>6. SerialInv'
    BY <1>1, <1>2, <2>1
  <2>. QED BY <2>2, <2>3, <2>4, <2>5, <2>6
<1>3. CASE rstate[obj[t]] # "recording"
  <2>1. /\ UNCHANGED <<rmtx, rstate>>
        /\ pc' = [pc EXCEPT ![t] = "reset_recorder"]
        /\ UNCHANGED <<ret, obj, requestVars, cameraVars, sessionVars, rcfg, ended, appVars>>
    BY <1>3 DEF RecorderStop
  <2>2. EndedInv'
    BY <1>1, <1>3, <2>1
  <2>3. StoppingInv'
    BY <1>1, <1>3, <2>1
  <2>4. BirthInv'
    BY <1>1, <1>3, <2>1
  <2>5. BornInv'
    <3>1. BornInv /\ \A r \in Ids : rstate'[r] # rstate[r] => rstate'[r] = "freed"
      BY <1>1, <2>1
    <3>2. pc'[t] \notin {"recorder_stop", "await_eos", "delete", "delete_eos"}
      BY <1>1, <2>1
    <3>3. \A u \in Actors : u # t => pc'[u] = pc[u] /\ obj'[u] = obj[u]
      BY <2>1
    <3>4. recorder' = recorder /\ recorder \in Ids \cup {None}
      BY <2>1
    <3>. QED BY ONLY <3>1, <3>2, <3>3, <3>4
  <2>6. SerialInv'
    BY <1>1, <1>3, <2>1
  <2>. QED BY <2>2, <2>3, <2>4, <2>5, <2>6
<1>. QED BY <1>2, <1>3

LEMMA DeleteStep ==
  ASSUME NEW t \in Actors, TypeOK, MainInv, LockInv, RecorderInv, Delete(t)
  PROVE  RecorderInv'
<1>1. obj[t] \in Ids /\ pc[t] = "delete" /\ rmtx[obj[t]] = Unlocked
  BY DEF Delete
<1>2. CASE rstate[obj[t]] = "recording"
  <2>1. /\ rmtx' = [rmtx EXCEPT ![obj[t]] = t]
        /\ rstate' = [rstate EXCEPT ![obj[t]] = "stopping"]
        /\ pc' = [pc EXCEPT ![t] = "delete_eos"]
        /\ UNCHANGED <<ret, obj, requestVars, cameraVars, sessionVars, rcfg, ended, appVars>>
    BY <1>2 DEF Delete
  <2>2. EndedInv'
    BY <1>1, <1>2, <2>1
  <2>3. StoppingInv'
    BY <1>1, <1>2, <2>1
  <2>4. BirthInv'
    BY <1>1, <1>2, <2>1
  <2>5. BornInv'
    BY <1>1, <1>2, <2>1
  <2>6. SerialInv'
    BY <1>1, <1>2, <2>1
  <2>. QED BY <2>2, <2>3, <2>4, <2>5, <2>6
<1>3. CASE rstate[obj[t]] # "recording"
  <2>1. /\ rstate' = [rstate EXCEPT ![obj[t]] = "freed"]
        /\ obj' = [obj EXCEPT ![t] = None]
        /\ pc' = [pc EXCEPT ![t] = ret[t]]
        /\ UNCHANGED rmtx
        /\ UNCHANGED <<ret, requestVars, cameraVars, sessionVars, rcfg, ended, appVars>>
    BY <1>3 DEF Delete
  <2>2. EndedInv'
    BY <1>1, <1>3, <2>1
  <2>3. StoppingInv'
    BY <1>1, <1>3, <2>1, SMTT(30)
  <2>4. BirthInv'
    <3>1. rstate[obj[t]] # "unborn" /\ \A r \in Ids : r # obj[t] => rstate'[r] = rstate[r]
      BY <1>1, <2>1
    <3>2. rstate'[obj[t]] = "freed"
      BY <1>1, <2>1
    <3>3. UNCHANGED <<serial, recorder, ended>>
      BY <2>1
    <3>4. ASSUME NEW d \in Clients
          PROVE  /\ BeforeBirth(d)' => BeforeBirth(d)
                 /\ AfterBirth(d)' => AfterBirth(d)
      BY <1>1, <2>1
    <3>5. BirthInv
      OBVIOUS
    <3>. QED BY ONLY <1>1, <3>1, <3>2, <3>3, <3>4, <3>5
  <2>5. BornInv'
    <3>1. BornInv /\ \A r \in Ids : rstate'[r] # rstate[r] => rstate'[r] = "freed"
      BY <1>1, <2>1
    <3>2. pc'[t] \notin {"recorder_stop", "await_eos", "delete", "delete_eos"}
      BY <1>1, <2>1
    <3>3. \A u \in Actors : u # t => pc'[u] = pc[u] /\ obj'[u] = obj[u]
      BY <2>1
    <3>4. recorder' = recorder /\ recorder \in Ids \cup {None}
      BY <2>1
    <3>. QED BY ONLY <3>1, <3>2, <3>3, <3>4
  <2>6. SerialInv'
    BY <1>1, <1>3, <2>1
  <2>. QED BY <2>2, <2>3, <2>4, <2>5, <2>6
<1>. QED BY <1>2, <1>3

LEMMA RecorderShared ==
  ASSUME NEW t \in Actors, TypeOK, MainInv, LockInv, RecorderInv, Shared(t)
  PROVE  RecorderInv'
<1>1. CASE StopRecording(t)
  <2>1. EndedInv'
    BY <1>1 DEF StopRecording
  <2>2. StoppingInv'
    BY <1>1 DEF StopRecording
  <2>3. BirthInv'
    BY <1>1 DEF StopRecording
  <2>4. BornInv'
    BY <1>1 DEF StopRecording
  <2>5. SerialInv'
    BY <1>1 DEF StopRecording
  <2>. QED BY <1>1, <2>1, <2>2, <2>3, <2>4, <2>5 DEF StopRecording
<1>2. CASE ClearFlag(t)
  BY <1>2 DEF ClearFlag
<1>3. CASE CallStop(t)
  <2>1. \A u \in Actors : u # t => pc'[u] = pc[u] /\ obj'[u] = obj[u]
    BY <1>3 DEF CallStop
  <2>2. pc'[t] \notin {"await_eos", "delete", "delete_eos"}
    <3>1. pc[t] = "call_stop" /\ pc'[t] \in {ret[t], "recorder_stop"}
      BY <1>3 DEF CallStop
    <3>2. CASE t = Main
      <4>1. ret[t] \in {"stop_flags", "exit"}
        BY <3>1, <3>2 DEF MainInv
      <4>. QED BY <3>1, <4>1
    <3>3. CASE t \in Clients
      <4>1. ret[t] \in StopReturns
        BY <3>1, <3>3 DEF LockInv
      <4>. QED BY <3>1, <4>1 DEF StopReturns
    <3>. QED BY <3>2, <3>3
  <2>3. UNCHANGED <<rmtx, rstate, ended>>
    BY <1>3 DEF CallStop
  <2>4. StoppingInv'
    <3>1. StoppingInv
      OBVIOUS
    <3>. QED BY ONLY <2>1, <2>2, <2>3, <3>1
  <2>5. EndedInv'
    BY <2>3
  <2>6. BirthInv'
    BY <1>3 DEF CallStop
  <2>7. BornInv'
    <3>1. BornInv /\ UNCHANGED <<recorder, rstate>>
      BY <1>3 DEF CallStop
    <3>2. CASE recorder # None
      <4>1. obj'[t] = recorder /\ recorder \in Ids
        BY <1>3, <3>2 DEF CallStop
      <4>. QED BY ONLY <2>1, <2>2, <3>1, <3>2, <4>1
    <3>3. CASE recorder = None
      <4>1. pc'[t] = ret[t] /\ pc[t] = "call_stop"
        BY <1>3, <3>3 DEF CallStop
      <4>2. pc'[t] # "recorder_stop"
        BY <4>1
      <4>. QED BY ONLY <2>1, <2>2, <3>1, <4>2
    <3>. QED BY <3>2, <3>3
  <2>8. SerialInv'
    BY <1>3 DEF CallStop
  <2>. QED BY <1>3, <2>1, <2>2, <2>3, <2>4, <2>5, <2>6, <2>7, <2>8 DEF CallStop
<1>4. CASE RecorderStop(t)
  BY <1>4, RecorderStopStep
<1>5. CASE RecorderStopOnFreed(t)
  BY <1>5 DEF RecorderStopOnFreed
<1>6. CASE AwaitEos(t)
  BY <1>6 DEF AwaitEos
<1>7. CASE ResetRecorder(t)
  <2>1. EndedInv'
    BY <1>7 DEF ResetRecorder
  <2>2. StoppingInv'
    BY <1>7 DEF ResetRecorder
  <2>3. BirthInv'
    BY <1>7 DEF ResetRecorder
  <2>4. BornInv'
    BY <1>7 DEF ResetRecorder
  <2>5. SerialInv'
    BY <1>7 DEF ResetRecorder
  <2>. QED BY <1>7, <2>1, <2>2, <2>3, <2>4, <2>5 DEF ResetRecorder
<1>8. CASE Delete(t)
  BY <1>8, DeleteStep
<1>9. CASE DeleteEos(t)
  <2>1. EndedInv'
    BY <1>9 DEF DeleteEos
  <2>2. StoppingInv'
    BY <1>9 DEF DeleteEos
  <2>3. BirthInv'
    BY <1>9 DEF DeleteEos
  <2>4. BornInv'
    BY <1>9 DEF DeleteEos
  <2>5. SerialInv'
    BY <1>9 DEF DeleteEos
  <2>. QED BY <1>9, <2>1, <2>2, <2>3, <2>4, <2>5 DEF DeleteEos
<1>10. CASE Stop(t)
  BY <1>10 DEF Stop
<1>11. CASE StopFinalize(t)
  BY <1>11 DEF StopFinalize
<1>12. CASE StopFlags(t)
  BY <1>12 DEF StopFlags
<1>13. CASE JoinRec(t)
  BY <1>13 DEF JoinRec
<1>14. CASE SetNull(t)
  BY <1>14 DEF SetNull
<1>15. CASE JoinBus(t)
  BY <1>15 DEF JoinBus
<1>16. CASE Unref(t)
  BY <1>16 DEF Unref
<1>17. CASE Start(t)
  BY <1>17 DEF Start
<1>18. CASE Launch(t)
  BY <1>18 DEF Launch
<1>19. CASE LaunchFails(t)
  BY <1>19 DEF LaunchFails
<1>20. CASE SpawnRec(t)
  BY <1>20 DEF SpawnRec
<1>21. CASE SpawnBus(t)
  <2>1. EndedInv'
    BY <1>21 DEF SpawnBus
  <2>2. StoppingInv'
    BY <1>21 DEF SpawnBus
  <2>3. BirthInv'
    BY <1>21 DEF SpawnBus
  <2>4. BornInv'
    BY <1>21 DEF SpawnBus
  <2>5. SerialInv'
    BY <1>21 DEF SpawnBus
  <2>. QED BY <1>21, <2>1, <2>2, <2>3, <2>4, <2>5 DEF SpawnBus
<1>22. CASE SpawnOverJoinable(t)
  BY <1>22 DEF SpawnOverJoinable
<1>. QED BY <1>1, <1>2, <1>3, <1>4, <1>5, <1>6, <1>7, <1>8, <1>9, <1>10, <1>11, <1>12, <1>13, <1>14, <1>15, <1>16, <1>17, <1>18, <1>19, <1>20, <1>21, <1>22 DEF Shared

LEMMA RecorderDrain ==
  ASSUME TypeOK, MainInv, LockInv, RecorderInv, DrainStep
  PROVE  RecorderInv'
<1>1. CASE DrainAborts
  BY <1>1 DEF DrainAborts
<1>2. CASE Pull
  BY <1>2 DEF Pull
<1>3. CASE Check
  BY <1>3 DEF Check
<1>4. CASE PushFrame
  <2>1. EndedInv'
    BY <1>4 DEF PushFrame
  <2>2. StoppingInv'
    BY <1>4 DEF PushFrame
  <2>3. BirthInv'
    BY <1>4 DEF PushFrame
  <2>4. BornInv'
    BY <1>4 DEF PushFrame
  <2>5. SerialInv'
    BY <1>4 DEF PushFrame
  <2>. QED BY <1>4, <2>1, <2>2, <2>3, <2>4, <2>5 DEF PushFrame
<1>5. CASE PushFrameOnNull
  BY <1>5 DEF PushFrameOnNull
<1>6. CASE Push
  BY <1>6 DEF Push
<1>7. CASE PushAfterTeardown
  BY <1>7 DEF PushAfterTeardown
<1>. QED BY <1>1, <1>2, <1>3, <1>4, <1>5, <1>6, <1>7 DEF DrainStep

LEMMA RecorderMain ==
  ASSUME TypeOK, MainInv, LockInv, RecorderInv, MainStep
  PROVE  RecorderInv'
<1>1. CASE LeaveLoop
  BY <1>1 DEF LeaveLoop
<1>2. CASE WsStop
  BY <1>2 DEF WsStop
<1>3. CASE Destroy
  BY <1>3 DEF Destroy
<1>4. CASE DestroyJoinable
  BY <1>4 DEF DestroyJoinable
<1>. QED BY <1>1, <1>2, <1>3, <1>4 DEF MainStep

LEMMA RecorderEnvironment ==
  ASSUME TypeOK, MainInv, LockInv, RecorderInv, Environment
  PROVE  RecorderInv'
<1>1. ASSUME NEW c \in Clients, Connect(c)
      PROVE  RecorderInv'
  BY <1>1 DEF Connect
<1>2. ASSUME NEW c \in Clients, Disconnect(c)
      PROVE  RecorderInv'
  BY <1>2 DEF Disconnect
<1>3. ASSUME NEW c \in Clients, NEW k \in Commands, NEW w \in Resolutions,
             Request(c, k, w)
      PROVE  RecorderInv'
  <2>1. EndedInv'
    BY <1>3, ParametersOK DEF Request
  <2>2. StoppingInv'
    <3>1. StoppingInv /\ \A t \in Actors : t # c => pc'[t] = pc[t]
      BY <1>3 DEF Request
    <3>2. pc'[c] \notin {"await_eos", "delete_eos"}
      BY <1>3, ParametersOK DEF Request
    <3>3. UNCHANGED <<obj, rmtx, rstate, ended>>
      BY <1>3 DEF Request
    <3>. QED BY ONLY <3>1, <3>2, <3>3
  <2>3. /\ cmds' = cmds + 1 /\ cmds + 1 \in Ids
        /\ serial' = [serial EXCEPT ![c] = cmds + 1]
        /\ UNCHANGED <<ret, recorder, rstate, ended>>
    BY <1>3, ParametersOK DEF Request
  <2>4. \A d \in Clients : /\ serial[d] \in Int /\ serial[d] <= cmds
                           /\ d # c => serial'[d] = serial[d]
                           /\ d # c => pc'[d] = pc[d]
    BY <1>3, <2>3 DEF Request
  <2>5. serial'[c] = cmds + 1 /\ pc'[c] \in CommandNames
    BY <1>3, <2>3, ParametersOK DEF Request
  <2>6. rstate[cmds + 1] = "unborn"
    BY <2>3
  <2>7. BirthInv'
    <3>1. ASSUME NEW d \in Clients, d # c
          PROVE  /\ BeforeBirth(d)' => serial'[d] \in Ids /\ rstate'[serial'[d]] = "unborn"
                 /\ AfterBirth(d)' => /\ serial'[d] \in Ids
                                      /\ recorder' \in {None, serial'[d]}
                                      /\ rstate'[serial'[d]] \in {"idle", "freed"}
                                      /\ ended'[serial'[d]] = "no"
      BY <2>3, <2>4, <3>1
    <3>2. ~AfterBirth(c)' /\ serial'[c] \in Ids /\ rstate'[serial'[c]] = "unborn"
      BY <2>3, <2>5, <2>6
    <3>. QED BY <3>1, <3>2
  <2>8. SerialInv'
    <3>1. \A r \in Ids : r > cmds' => rstate'[r] = "unborn"
      BY <2>3
    <3>2. \A d \in Clients : serial'[d] <= cmds'
      BY <2>3, <2>4, <2>5
    <3>3. cmds \in Int
      OBVIOUS
    <3>4. \A d, e \in Clients : serial[d] = serial[e] /\ serial[d] # 0 => d = e
      OBVIOUS
    <3>5. \A d \in Clients : /\ serial[d] \in Int /\ serial[d] <= cmds
                             /\ d # c => serial'[d] = serial[d]
      BY ONLY <2>4
    <3>6. c \in Clients /\ serial'[c] = cmds + 1
      BY <2>5
    <3>7. \A d, e \in Clients : serial'[d] = serial'[e] /\ serial'[d] # 0 => d = e
      BY ONLY <3>3, <3>4, <3>5, <3>6, FreshDistinct
    <3>8. \A d, e \in Clients : serial'[d] = serial'[e] /\ serial'[d] # None => d = e
      BY ONLY <3>7 DEF None
    <3>. QED BY ONLY <3>1, <3>2, <3>8 DEF SerialInv
  <2>9. BornInv'
    <3>1. BornInv /\ \A t \in Actors : t # c => pc'[t] = pc[t]
      BY <1>3 DEF Request
    <3>2. UNCHANGED <<obj, recorder, rstate>>
      BY <1>3 DEF Request
    <3>3. pc'[c] \notin {"recorder_stop", "await_eos", "delete", "delete_eos"}
      BY <2>5
    <3>. QED BY ONLY <3>1, <3>2, <3>3
  <2>. QED BY <2>1, <2>2, <2>7, <2>8, <2>9
<1>4. ASSUME Signal
      PROVE  RecorderInv'
  BY <1>4 DEF Signal
<1>5. ASSUME BusError
      PROVE  RecorderInv'
  BY <1>5 DEF BusError
<1>. QED BY <1>1, <1>2, <1>3, <1>4, <1>5 DEF Environment

LEMMA RecorderStep ==
  ASSUME TypeOK, MainInv, LockInv, RecorderInv, [Next]_vars
  PROVE  RecorderInv'
<1>1. CASE UNCHANGED vars
  BY <1>1 DEF vars
<1>2. CASE BusAborts
  BY <1>2 DEF BusAborts
<1>3. CASE Races
  <2>1. UNCHANGED <<threadVars, requestVars, cameraVars, sessionVars, objectVars, resMutex>>
    BY <1>3, Zenon DEF Races, DoubleReset, DoubleJoin
  <2>. QED BY <2>1
<1>. QED
  BY <1>1, <1>2, <1>3, RecorderEnvironment, RecorderHandling, RecorderShared, RecorderDrain, RecorderMain
     DEF Next

LEMMA EndedShared ==
  ASSUME NEW t \in Actors, TypeOK, MainInv, LockInv, RecorderInv, Shared(t), NEW r \in Ids, ended[r] # "no"
  PROVE  ended'[r] = ended[r]
<1>1. CASE StopRecording(t)
  BY <1>1 DEF StopRecording
<1>2. CASE ClearFlag(t)
  BY <1>2 DEF ClearFlag
<1>3. CASE CallStop(t)
  BY <1>3 DEF CallStop
<1>4. CASE RecorderStop(t)
  BY <1>4 DEF RecorderStop
<1>5. CASE RecorderStopOnFreed(t)
  BY <1>5 DEF RecorderStopOnFreed
<1>6. CASE AwaitEos(t)
  BY <1>6 DEF AwaitEos
<1>7. CASE ResetRecorder(t)
  BY <1>7 DEF ResetRecorder
<1>8. CASE Delete(t)
  BY <1>8 DEF Delete
<1>9. CASE DeleteEos(t)
  BY <1>9 DEF DeleteEos
<1>10. CASE Stop(t)
  BY <1>10 DEF Stop
<1>11. CASE StopFinalize(t)
  BY <1>11 DEF StopFinalize
<1>12. CASE StopFlags(t)
  BY <1>12 DEF StopFlags
<1>13. CASE JoinRec(t)
  BY <1>13 DEF JoinRec
<1>14. CASE SetNull(t)
  BY <1>14 DEF SetNull
<1>15. CASE JoinBus(t)
  BY <1>15 DEF JoinBus
<1>16. CASE Unref(t)
  BY <1>16 DEF Unref
<1>17. CASE Start(t)
  BY <1>17 DEF Start
<1>18. CASE Launch(t)
  BY <1>18 DEF Launch
<1>19. CASE LaunchFails(t)
  BY <1>19 DEF LaunchFails
<1>20. CASE SpawnRec(t)
  BY <1>20 DEF SpawnRec
<1>21. CASE SpawnBus(t)
  BY <1>21 DEF SpawnBus
<1>22. CASE SpawnOverJoinable(t)
  BY <1>22 DEF SpawnOverJoinable
<1>. QED BY <1>1, <1>2, <1>3, <1>4, <1>5, <1>6, <1>7, <1>8, <1>9, <1>10, <1>11, <1>12, <1>13, <1>14, <1>15, <1>16, <1>17, <1>18, <1>19, <1>20, <1>21, <1>22 DEF Shared

LEMMA EndedStep ==
  ASSUME TypeOK, MainInv, LockInv, RecorderInv, [Next]_vars, NEW r \in Ids, ended[r] # "no"
  PROVE  ended'[r] = ended[r]
<1>1. CASE UNCHANGED vars
  BY <1>1 DEF vars
<1>2. CASE Environment
  BY <1>2 DEF Environment, Connect, Disconnect, Request, Signal, BusError
<1>3. CASE Races
  BY <1>3 DEF Races, DoubleReset, DoubleJoin
<1>4. CASE DrainStep
  BY <1>4 DEF DrainStep, DrainAborts, Pull, Check, PushFrame, PushFrameOnNull, Push, PushAfterTeardown
<1>5. CASE BusAborts
  BY <1>5 DEF BusAborts
<1>6. CASE MainStep
  BY <1>6 DEF MainStep, LeaveLoop, WsStop, Destroy, DestroyJoinable
<1>7. ASSUME NEW c \in Clients, Handling(c)
      PROVE  UNCHANGED ended
  BY <1>7 DEF Handling, Recording, GetStatus, RecordStart, RecordRestart, LockRes, StartReply, RecordStop, StopReply, SetResolution, Switch, ApplyCfg, StartRecording, NewRecorder, RecorderStarts, RecorderStartFails, RecorderStartThrows, RecorderStartOnNull, Publish
<1>. QED BY <1>1, <1>2, <1>3, <1>4, <1>5, <1>6, <1>7, EndedShared DEF Next

\* Who is inside start_recording(), stop_recording() and ~Recorder() owns the mutexes
\* it should, whatever the commands, the shutdown and the faults.
THEOREM OwnershipHolds == Spec => []OwnershipInv
<1>. QED
  BY TypeInit, TypeStep, OrderInit, OrderStep, LockInit, LockStep, RecorderInit,
     RecorderStep, PTL DEF Spec, OwnershipInv

\* An MP4 that has been ended is never ended, nor recorded into, again.
THEOREM EndedOnce == Spec => FinalisedOnce
<1>1. ASSUME TypeOK, MainInv, LockInv, RecorderInv, [Next]_vars, NEW r \in Ids, ended[r] # "no"
      PROVE  ended'[r] = ended[r] /\ rstate'[r] \in {"idle", "freed"}
  <2>1. RecorderInv'
    BY <1>1, RecorderStep
  <2>. QED BY <1>1, <2>1, EndedStep
<1>2. TypeOK /\ MainInv /\ LockInv /\ RecorderInv /\ [Next]_vars
      => [\A r \in Ids : ended[r] # "no" => /\ ended'[r] = ended[r]
                                            /\ rstate'[r] \in {"idle", "freed"}]_vars
  BY <1>1
<1>. QED
  BY <1>2, TypeInit, TypeStep, OrderInit, OrderStep, LockInit, LockStep, RecorderInit,
     RecorderStep, PTL DEF Spec, FinalisedOnce
-----------------------------------------------------------------------------
(* One browser, and a camera pipeline that posts no error.  Then one thread *)
(* at a time runs commands, and what it knows of the camera and of the      *)
(* Recorder stays true until it is done: CameraInv and HeldInv follow it    *)
(* label by label.                                                          *)

HIDE DEF TypeOK, MainInv, LockInv, StopReturns, InStartRecording, RecorderInv, EndedInv,
         StoppingInv, BirthInv, BornInv, SerialInv, Within, BeforeBirth, AfterBirth, Ids

\* A thread that runs a command is alone.
LEMMA OneActor ==
  ASSUME OneBrowser, TypeOK, MainInv, NEW t \in Actors, Working(t), NEW u \in Actors, u # t
  PROVE  pc[u] \in {"offline", "loop", "ws_stop"}
BY DEF OneBrowser, TypeOK, MainInv, Working

\* Where a thread inside stop_recording() or ~Recorder() goes from there.
ReturnsTo(t) ==
    /\ ret[t] \in StopReturns \cup {"recorder_start", "start_reply", "exit"}
    /\ ret[t] = "exit" => t = Main /\ ~running
    /\ ret[t] # "stop_flags" => t \in Clients \/ ret[t] = "exit"
    /\ ret[t] \in {"recorder_start", "start_reply"} => pc[t] \notin StopRecordingLabels

LEMMA Returns ==
  ASSUME TypeOK, MainInv, LockInv, NEW t \in Actors,
         pc[t] \in StopRecordingLabels \cup DeleteLabels
  PROVE  ReturnsTo(t)
BY DEF ReturnsTo, MainInv, LockInv, StopReturns

\* A step that does none of what CameraInv is about.
Still(u) ==
    /\ \/ pc'[u] = pc[u] /\ ret'[u] = ret[u]
       \/ /\ pc[u] \notin Phases /\ pc'[u] \notin Phases
          /\ pc'[u] \in {"stop_finalize", "stop_flags", "new_recorder", "recorder_start", "publish"}
                => running
          /\ pc'[u] \in StopRecordingLabels \cup DeleteLabels
                /\ ret'[u] \in {"stop_flags", "recorder_start"} => running
          /\ pc'[u] \in {"apply_cfg", "start", "launch", "dtor", "exit"} => ~running
    /\ u = Main => serial'[u] = serial[u]
    /\ u \in Clients /\ pc'[u] \notin {"offline", "idle"} => serial'[u] \in Ids

LEMMA CameraKept ==
  ASSUME CameraInv, \A u \in Actors : Still(u), UNCHANGED cameraVars,
         pc'[Drain] = "ended" <=> pc[Drain] = "ended", pc'[Bus] = pc[Bus]
  PROVE  CameraInv'
<1>1. PhaseInv'
  BY DEF CameraInv, PhaseInv, Still, Phases
<1>2. SteadyInv'
  BY DEF CameraInv, SteadyInv, Still, Phases, Up, Down
<1>3. RunningInv'
  BY DEF CameraInv, RunningInv, Still
<1>4. NumberedInv'
  BY DEF CameraInv, NumberedInv, Still
<1>. QED BY <1>1, <1>2, <1>3, <1>4 DEF CameraInv

LEMMA CameraInit == Init => CameraInv
<1>. SUFFICES ASSUME Init PROVE CameraInv
  OBVIOUS
<1>1. PhaseInv
  BY DEF Init, PhaseInv, Up, Down, Phases, Ids
<1>2. SteadyInv
  BY DEF Init, SteadyInv, Up, Down, Phases, Ids
<1>3. RunningInv
  BY DEF Init, RunningInv, Up, Down, Phases, Ids
<1>4. NumberedInv
  BY DEF Init, NumberedInv, Up, Down, Phases, Ids
<1>. QED BY <1>1, <1>2, <1>3, <1>4 DEF CameraInv

LEMMA CameraHandling ==
  ASSUME OneBrowser, NEW c \in Clients, TypeOK, MainInv, LockInv, CameraInv,
         Handling(c)
  PROVE  CameraInv'
<1>1. CASE GetStatus(c)
  BY <1>1, CameraKept DEF GetStatus, Still, TypeOK, CameraInv, RunningInv, NumberedInv, Ids, Phases
<1>2. CASE RecordStart(c)
  BY <1>2, CameraKept
     DEF RecordStart, Still, TypeOK, CameraInv, RunningInv, NumberedInv, Ids, Phases
<1>3. CASE RecordRestart(c)
  BY <1>3, CameraKept
     DEF RecordRestart, Still, TypeOK, CameraInv, RunningInv, NumberedInv, Ids, Phases
<1>4. CASE LockRes(c)
  BY <1>4, CameraKept DEF LockRes, Still, TypeOK, CameraInv, RunningInv, NumberedInv, Ids, Phases
<1>5. CASE StartReply(c)
  BY <1>5, CameraKept DEF StartReply, Still, TypeOK, CameraInv, RunningInv, NumberedInv, Ids, Phases
<1>6. CASE RecordStop(c)
  BY <1>6, CameraKept DEF RecordStop, Still, TypeOK, CameraInv, RunningInv, NumberedInv, Ids, Phases
<1>7. CASE StopReply(c)
  BY <1>7, CameraKept DEF StopReply, Still, TypeOK, CameraInv, RunningInv, NumberedInv, Ids, Phases
<1>8. CASE SetResolution(c)
  BY <1>8, CameraKept
     DEF SetResolution, Still, TypeOK, CameraInv, RunningInv, NumberedInv, Ids, Phases
<1>9. CASE Switch(c)
  BY <1>9, CameraKept DEF Switch, Still, TypeOK, CameraInv, RunningInv, NumberedInv, Ids, Phases
<1>10. CASE ApplyCfg(c)
  <2>1. \A u \in Actors : u # c => pc[u] \in {"offline", "loop", "ws_stop"}
    BY <1>10, OneActor DEF ApplyCfg, Working
  <2>2. PhaseInv'
    BY <1>10, <2>1
       DEF ApplyCfg, PhaseInv, TypeOK, StopReturns, CameraInv, SteadyInv, Up, Down, Phases,
           RunningInv
  <2>3. SteadyInv'
    BY <1>10, <2>1
       DEF ApplyCfg, SteadyInv, TypeOK, StopReturns, CameraInv, PhaseInv, Up, Down, Phases,
           RunningInv
  <2>4. RunningInv'
    BY <1>10, <2>1 DEF ApplyCfg, RunningInv, TypeOK, StopReturns, CameraInv, PhaseInv, Phases
  <2>5. NumberedInv'
    BY <1>10, <2>1 DEF ApplyCfg, NumberedInv, TypeOK, StopReturns, CameraInv, Ids
  <2>. QED BY <2>2, <2>3, <2>4, <2>5 DEF CameraInv
<1>11. CASE StartRecording(c)
  BY <1>11, CameraKept
     DEF StartRecording, Still, TypeOK, CameraInv, RunningInv, NumberedInv, Ids, Phases
<1>12. CASE NewRecorder(c)
  BY <1>12, CameraKept
     DEF NewRecorder, Still, TypeOK, CameraInv, RunningInv, NumberedInv, Ids, Phases
<1>13. CASE RecorderStarts(c)
  BY <1>13, CameraKept
     DEF RecorderStarts, Still, TypeOK, CameraInv, RunningInv, NumberedInv, Ids, Phases
<1>14. CASE RecorderStartFails(c)
  BY <1>14, CameraKept
     DEF RecorderStartFails, Still, TypeOK, CameraInv, RunningInv, NumberedInv, Ids, Phases
<1>15. CASE RecorderStartThrows(c)
  BY <1>15, CameraKept
     DEF RecorderStartThrows, Still, TypeOK, CameraInv, RunningInv, NumberedInv, Ids, Phases
<1>16. CASE RecorderStartOnNull(c)
  BY <1>16, CameraKept
     DEF RecorderStartOnNull, Still, TypeOK, CameraInv, RunningInv, NumberedInv, Ids, Phases
<1>17. CASE Publish(c)
  BY <1>17, CameraKept DEF Publish, Still, TypeOK, CameraInv, RunningInv, NumberedInv, Ids, Phases
<1>. QED BY <1>1, <1>2, <1>3, <1>4, <1>5, <1>6, <1>7, <1>8, <1>9, <1>10, <1>11, <1>12, <1>13,
            <1>14, <1>15, <1>16, <1>17
            DEF Handling, Recording

LEMMA CameraShared ==
  ASSUME OneBrowser, NEW t \in Actors, TypeOK, MainInv, LockInv, CameraInv,
         Shared(t)
  PROVE  CameraInv'
<1>1. CASE StopRecording(t)
  <2>1. ReturnsTo(t)
    BY <1>1, Returns DEF StopRecording
  <2>. QED BY <1>1, <2>1, CameraKept
              DEF StopRecording, Still, TypeOK, CameraInv, RunningInv, NumberedInv, Ids, Phases,
                  StopReturns, ReturnsTo
<1>2. CASE ClearFlag(t)
  BY <1>2, CameraKept DEF ClearFlag, Still, TypeOK, CameraInv, RunningInv, NumberedInv, Ids, Phases
<1>3. CASE CallStop(t)
  <2>1. ReturnsTo(t)
    BY <1>3, Returns DEF CallStop
  <2>. QED BY <1>3, <2>1, CameraKept
              DEF CallStop, Still, TypeOK, CameraInv, RunningInv, NumberedInv, Ids, Phases,
                  StopReturns, ReturnsTo
<1>4. CASE RecorderStop(t)
  BY <1>4, CameraKept
     DEF RecorderStop, Still, TypeOK, CameraInv, RunningInv, NumberedInv, Ids, Phases
<1>5. CASE RecorderStopOnFreed(t)
  BY <1>5, CameraKept
     DEF RecorderStopOnFreed, Still, TypeOK, CameraInv, RunningInv, NumberedInv, Ids, Phases
<1>6. CASE AwaitEos(t)
  BY <1>6, CameraKept DEF AwaitEos, Still, TypeOK, CameraInv, RunningInv, NumberedInv, Ids, Phases
<1>7. CASE ResetRecorder(t)
  <2>1. ReturnsTo(t)
    BY <1>7, Returns DEF ResetRecorder
  <2>. QED BY <1>7, <2>1, CameraKept
              DEF ResetRecorder, Still, TypeOK, CameraInv, RunningInv, NumberedInv, Ids, Phases,
                  StopReturns, ReturnsTo
<1>8. CASE Delete(t)
  <2>1. ReturnsTo(t)
    BY <1>8, Returns DEF Delete
  <2>. QED BY <1>8, <2>1, CameraKept
              DEF Delete, Still, TypeOK, CameraInv, RunningInv, NumberedInv, Ids, Phases,
                  StopReturns, ReturnsTo
<1>9. CASE DeleteEos(t)
  <2>1. ReturnsTo(t)
    BY <1>9, Returns DEF DeleteEos
  <2>. QED BY <1>9, <2>1, CameraKept
              DEF DeleteEos, Still, TypeOK, CameraInv, RunningInv, NumberedInv, Ids, Phases,
                  StopReturns, ReturnsTo
<1>10. CASE Stop(t)
  BY <1>10, CameraKept DEF Stop, Still, TypeOK, CameraInv, RunningInv, NumberedInv, Ids, Phases
<1>11. CASE StopFinalize(t)
  BY <1>11, CameraKept
     DEF StopFinalize, Still, TypeOK, CameraInv, RunningInv, NumberedInv, Ids, Phases
<1>12. CASE StopFlags(t)
  <2>1. \A u \in Actors : u # t => pc[u] \in {"offline", "loop", "ws_stop"}
    BY <1>12, OneActor DEF StopFlags, Working
  <2>2. PhaseInv'
    BY <1>12, <2>1
       DEF StopFlags, PhaseInv, TypeOK, StopReturns, CameraInv, SteadyInv, Up, Down, Phases,
           RunningInv
  <2>3. SteadyInv'
    BY <1>12, <2>1
       DEF StopFlags, SteadyInv, TypeOK, StopReturns, CameraInv, PhaseInv, Up, Down, Phases,
           RunningInv
  <2>4. RunningInv'
    BY <1>12, <2>1 DEF StopFlags, RunningInv, TypeOK, StopReturns, CameraInv, PhaseInv, Phases
  <2>5. NumberedInv'
    BY <1>12, <2>1 DEF StopFlags, NumberedInv, TypeOK, StopReturns, CameraInv, Ids
  <2>. QED BY <2>2, <2>3, <2>4, <2>5 DEF CameraInv
<1>13. CASE JoinRec(t)
  <2>1. \A u \in Actors : u # t => pc[u] \in {"offline", "loop", "ws_stop"}
    BY <1>13, OneActor DEF JoinRec, Working
  <2>2. PhaseInv'
    BY <1>13, <2>1
       DEF JoinRec, PhaseInv, TypeOK, StopReturns, CameraInv, SteadyInv, Up, Down, Phases,
           RunningInv
  <2>3. SteadyInv'
    BY <1>13, <2>1
       DEF JoinRec, SteadyInv, TypeOK, StopReturns, CameraInv, PhaseInv, Up, Down, Phases,
           RunningInv
  <2>4. RunningInv'
    BY <1>13, <2>1 DEF JoinRec, RunningInv, TypeOK, StopReturns, CameraInv, PhaseInv, Phases
  <2>5. NumberedInv'
    BY <1>13, <2>1 DEF JoinRec, NumberedInv, TypeOK, StopReturns, CameraInv, Ids
  <2>. QED BY <2>2, <2>3, <2>4, <2>5 DEF CameraInv
<1>14. CASE SetNull(t)
  <2>1. \A u \in Actors : u # t => pc[u] \in {"offline", "loop", "ws_stop"}
    BY <1>14, OneActor DEF SetNull, Working
  <2>2. PhaseInv'
    BY <1>14, <2>1
       DEF SetNull, PhaseInv, TypeOK, StopReturns, CameraInv, SteadyInv, Up, Down, Phases,
           RunningInv
  <2>3. SteadyInv'
    BY <1>14, <2>1
       DEF SetNull, SteadyInv, TypeOK, StopReturns, CameraInv, PhaseInv, Up, Down, Phases,
           RunningInv
  <2>4. RunningInv'
    BY <1>14, <2>1 DEF SetNull, RunningInv, TypeOK, StopReturns, CameraInv, PhaseInv, Phases
  <2>5. NumberedInv'
    BY <1>14, <2>1 DEF SetNull, NumberedInv, TypeOK, StopReturns, CameraInv, Ids
  <2>. QED BY <2>2, <2>3, <2>4, <2>5 DEF CameraInv
<1>15. CASE JoinBus(t)
  <2>1. \A u \in Actors : u # t => pc[u] \in {"offline", "loop", "ws_stop"}
    BY <1>15, OneActor DEF JoinBus, Working
  <2>2. PhaseInv'
    BY <1>15, <2>1
       DEF JoinBus, PhaseInv, TypeOK, StopReturns, CameraInv, SteadyInv, Up, Down, Phases,
           RunningInv
  <2>3. SteadyInv'
    BY <1>15, <2>1
       DEF JoinBus, SteadyInv, TypeOK, StopReturns, CameraInv, PhaseInv, Up, Down, Phases,
           RunningInv
  <2>4. RunningInv'
    BY <1>15, <2>1 DEF JoinBus, RunningInv, TypeOK, StopReturns, CameraInv, PhaseInv, Phases
  <2>5. NumberedInv'
    BY <1>15, <2>1 DEF JoinBus, NumberedInv, TypeOK, StopReturns, CameraInv, Ids
  <2>. QED BY <2>2, <2>3, <2>4, <2>5 DEF CameraInv
<1>16. CASE Unref(t)
  <2>1. \A u \in Actors : u # t => pc[u] \in {"offline", "loop", "ws_stop"}
    BY <1>16, OneActor DEF Unref, Working
  <2>2. PhaseInv'
    BY <1>16, <2>1
       DEF Unref, PhaseInv, TypeOK, StopReturns, CameraInv, SteadyInv, Up, Down, Phases,
           RunningInv
  <2>3. SteadyInv'
    BY <1>16, <2>1
       DEF Unref, SteadyInv, TypeOK, StopReturns, CameraInv, PhaseInv, Up, Down, Phases,
           RunningInv
  <2>4. RunningInv'
    BY <1>16, <2>1 DEF Unref, RunningInv, TypeOK, StopReturns, CameraInv, PhaseInv, Phases
  <2>5. NumberedInv'
    BY <1>16, <2>1 DEF Unref, NumberedInv, TypeOK, StopReturns, CameraInv, Ids
  <2>. QED BY <2>2, <2>3, <2>4, <2>5 DEF CameraInv
<1>17. CASE Start(t)
  BY <1>17, CameraKept DEF Start, Still, TypeOK, CameraInv, RunningInv, NumberedInv, Ids, Phases
<1>18. CASE Launch(t)
  <2>1. \A u \in Actors : u # t => pc[u] \in {"offline", "loop", "ws_stop"}
    BY <1>18, OneActor DEF Launch, Working
  <2>2. PhaseInv'
    <3>1. serial[t] # None
      BY <1>18 DEF Launch, CameraInv, NumberedInv, Ids
    <3>2. Down
      BY <1>18, <2>1 DEF Launch, TypeOK, CameraInv, SteadyInv, Up, Phases, RunningInv
    <3>. QED BY <1>18, <2>1, <3>1, <3>2 DEF Launch, TypeOK, PhaseInv, Down, Phases
  <2>3. SteadyInv'
    BY <1>18, <2>1
       DEF Launch, SteadyInv, TypeOK, StopReturns, CameraInv, PhaseInv, Up, Down, Phases,
           RunningInv
  <2>4. RunningInv'
    BY <1>18, <2>1 DEF Launch, RunningInv, TypeOK, StopReturns, CameraInv, PhaseInv, Phases
  <2>5. NumberedInv'
    BY <1>18, <2>1 DEF Launch, NumberedInv, TypeOK, StopReturns, CameraInv, Ids
  <2>. QED BY <2>2, <2>3, <2>4, <2>5 DEF CameraInv
<1>19. CASE LaunchFails(t)
  <2>1. \A u \in Actors : u # t => pc[u] \in {"offline", "loop", "ws_stop"}
    BY <1>19, OneActor DEF LaunchFails, Working
  <2>2. PhaseInv'
    BY <1>19, <2>1
       DEF LaunchFails, PhaseInv, TypeOK, StopReturns, CameraInv, SteadyInv, Up, Down, Phases,
           RunningInv
  <2>3. SteadyInv'
    BY <1>19, <2>1
       DEF LaunchFails, SteadyInv, TypeOK, StopReturns, CameraInv, PhaseInv, Up, Down, Phases,
           RunningInv
  <2>4. RunningInv'
    BY <1>19, <2>1 DEF LaunchFails, RunningInv, TypeOK, StopReturns, CameraInv, PhaseInv, Phases
  <2>5. NumberedInv'
    BY <1>19, <2>1 DEF LaunchFails, NumberedInv, TypeOK, StopReturns, CameraInv, Ids
  <2>. QED BY <2>2, <2>3, <2>4, <2>5 DEF CameraInv
<1>20. CASE SpawnRec(t)
  <2>1. \A u \in Actors : u # t => pc[u] \in {"offline", "loop", "ws_stop"}
    BY <1>20, OneActor DEF SpawnRec, Working
  <2>2. PhaseInv'
    BY <1>20, <2>1
       DEF SpawnRec, PhaseInv, TypeOK, StopReturns, CameraInv, SteadyInv, Up, Down, Phases,
           RunningInv
  <2>3. SteadyInv'
    BY <1>20, <2>1
       DEF SpawnRec, SteadyInv, TypeOK, StopReturns, CameraInv, PhaseInv, Up, Down, Phases,
           RunningInv
  <2>4. RunningInv'
    BY <1>20, <2>1 DEF SpawnRec, RunningInv, TypeOK, StopReturns, CameraInv, PhaseInv, Phases
  <2>5. NumberedInv'
    BY <1>20, <2>1 DEF SpawnRec, NumberedInv, TypeOK, StopReturns, CameraInv, Ids
  <2>. QED BY <2>2, <2>3, <2>4, <2>5 DEF CameraInv
<1>21. CASE SpawnBus(t)
  <2>1. \A u \in Actors : u # t => pc[u] \in {"offline", "loop", "ws_stop"}
    BY <1>21, OneActor DEF SpawnBus, Working
  <2>2. PhaseInv'
    BY <1>21, <2>1
       DEF SpawnBus, PhaseInv, TypeOK, StopReturns, CameraInv, SteadyInv, Up, Down, Phases,
           RunningInv
  <2>3. SteadyInv'
    BY <1>21, <2>1
       DEF SpawnBus, SteadyInv, TypeOK, StopReturns, CameraInv, PhaseInv, Up, Down, Phases,
           RunningInv
  <2>4. RunningInv'
    BY <1>21, <2>1 DEF SpawnBus, RunningInv, TypeOK, StopReturns, CameraInv, PhaseInv, Phases
  <2>5. NumberedInv'
    BY <1>21, <2>1 DEF SpawnBus, NumberedInv, TypeOK, StopReturns, CameraInv, Ids
  <2>. QED BY <2>2, <2>3, <2>4, <2>5 DEF CameraInv
<1>22. CASE SpawnOverJoinable(t)
  BY <1>22, CameraKept
     DEF SpawnOverJoinable, Still, TypeOK, CameraInv, RunningInv, NumberedInv, Ids, Phases
<1>. QED BY <1>1, <1>2, <1>3, <1>4, <1>5, <1>6, <1>7, <1>8, <1>9, <1>10, <1>11, <1>12, <1>13,
            <1>14, <1>15, <1>16, <1>17, <1>18, <1>19, <1>20, <1>21, <1>22
            DEF Shared

LEMMA CameraEnvironment ==
  ASSUME OneBrowser, NoBusError, TypeOK, MainInv, LockInv, CameraInv, Environment
  PROVE  CameraInv'
<1>1. ASSUME NEW c \in Clients, Connect(c)
      PROVE  CameraInv'
  BY <1>1, CameraKept DEF Connect, Still, TypeOK, CameraInv, RunningInv, NumberedInv, Ids, Phases
<1>2. ASSUME NEW c \in Clients, Disconnect(c)
      PROVE  CameraInv'
  BY <1>2, CameraKept DEF Disconnect, Still, TypeOK, CameraInv, RunningInv, NumberedInv, Ids, Phases
<1>3. ASSUME NEW c \in Clients, NEW k \in Commands, NEW w \in Resolutions,
             Request(c, k, w)
      PROVE  CameraInv'
  <2>1. serial' = [serial EXCEPT ![c] = cmds + 1] /\ cmds + 1 \in Ids
    BY <1>3, ParametersOK DEF Request, TypeOK, Ids
  <2>2. pc' = [pc EXCEPT ![c] = k] /\ k \in CommandNames /\ pc[c] = "idle" /\ ret' = ret
    BY <1>3, ParametersOK DEF Request
  <2>3. ASSUME NEW u \in Actors PROVE Still(u)
    <3>1. CASE u # c
      BY <2>1, <2>2, <3>1 DEF Still, TypeOK, CameraInv, NumberedInv
    <3>2. CASE u = c
      <4>1. pc'[c] \in CommandNames /\ serial'[c] \in Ids
        BY <2>1, <2>2 DEF TypeOK
      <4>. QED BY <2>2, <3>2, <4>1 DEF Still, Phases
    <3>. QED BY <3>1, <3>2
  <2>. QED BY <1>3, <2>2, <2>3, CameraKept DEF Request, TypeOK
<1>4. Signal => UNCHANGED <<threadVars, requestVars, cameraVars, sessionVars, objectVars>>
  BY DEF Signal
<1>5. ~BusError
  BY DEF NoBusError, BusError
<1>6. Signal => CameraInv'
  BY <1>4, CameraKept DEF Still, CameraInv, NumberedInv
<1>. QED BY <1>1, <1>2, <1>3, <1>5, <1>6 DEF Environment

LEMMA CameraDrain ==
  ASSUME OneBrowser, TypeOK, MainInv, LockInv, CameraInv, DrainStep
  PROVE  CameraInv'
<1>1. CASE DrainAborts
  <2>1. PhaseInv'
    BY <1>1
       DEF DrainAborts, PhaseInv, TypeOK, StopReturns, CameraInv, SteadyInv, Up, Down, Phases,
           RunningInv
  <2>2. SteadyInv'
    BY <1>1
       DEF DrainAborts, SteadyInv, TypeOK, StopReturns, CameraInv, PhaseInv, Up, Down, Phases,
           RunningInv
  <2>3. RunningInv'
    BY <1>1 DEF DrainAborts, RunningInv, TypeOK, StopReturns, CameraInv, PhaseInv, Phases
  <2>4. NumberedInv'
    BY <1>1 DEF DrainAborts, NumberedInv, TypeOK, StopReturns, CameraInv, Ids
  <2>. QED BY <2>1, <2>2, <2>3, <2>4 DEF CameraInv
<1>2. CASE Pull
  BY <1>2, CameraKept DEF Pull, Still, TypeOK, CameraInv, RunningInv, NumberedInv, Ids, Phases
<1>3. CASE Check
  BY <1>3, CameraKept DEF Check, Still, TypeOK, CameraInv, RunningInv, NumberedInv, Ids, Phases
<1>4. CASE PushFrame
  BY <1>4, CameraKept DEF PushFrame, Still, TypeOK, CameraInv, RunningInv, NumberedInv, Ids, Phases
<1>5. CASE PushFrameOnNull
  BY <1>5, CameraKept
     DEF PushFrameOnNull, Still, TypeOK, CameraInv, RunningInv, NumberedInv, Ids, Phases
<1>6. CASE Push
  BY <1>6, CameraKept DEF Push, Still, TypeOK, CameraInv, RunningInv, NumberedInv, Ids, Phases
<1>7. CASE PushAfterTeardown
  BY <1>7, CameraKept
     DEF PushAfterTeardown, Still, TypeOK, CameraInv, RunningInv, NumberedInv, Ids, Phases
<1>. QED BY <1>1, <1>2, <1>3, <1>4, <1>5, <1>6, <1>7 DEF DrainStep

LEMMA CameraMain ==
  ASSUME OneBrowser, TypeOK, MainInv, LockInv, CameraInv, MainStep
  PROVE  CameraInv'
<1>1. CASE LeaveLoop
  BY <1>1, CameraKept DEF LeaveLoop, Still, TypeOK, CameraInv, RunningInv, NumberedInv, Ids, Phases
<1>2. CASE WsStop
  BY <1>2, CameraKept DEF WsStop, Still, TypeOK, CameraInv, RunningInv, NumberedInv, Ids, Phases
<1>3. CASE Destroy
  BY <1>3, CameraKept DEF Destroy, Still, TypeOK, CameraInv, RunningInv, NumberedInv, Ids, Phases
<1>4. CASE DestroyJoinable
  BY <1>4, CameraKept
     DEF DestroyJoinable, Still, TypeOK, CameraInv, RunningInv, NumberedInv, Ids, Phases
<1>. QED BY <1>1, <1>2, <1>3, <1>4 DEF MainStep

LEMMA CameraStep ==
  ASSUME OneBrowser, NoBusError, TypeOK, MainInv, LockInv, CameraInv, [Next]_vars
  PROVE  CameraInv'
<1>1. CASE UNCHANGED vars
  BY <1>1, CameraKept DEF Still, CameraInv, NumberedInv, vars
<1>2. CASE BusAborts
  BY <1>2
     DEF BusAborts, CameraInv, Down, Ids, NumberedInv, PhaseInv, Phases, RunningInv, SteadyInv,
         StopReturns, TypeOK, Up
<1>3. CASE Races
  <2>1. UNCHANGED <<threadVars, requestVars, cameraVars, sessionVars, objectVars>>
    BY <1>3, Zenon DEF Races, DoubleReset, DoubleJoin
  <2>. QED BY <2>1, CameraKept DEF Still, CameraInv, NumberedInv
<1>. QED
  BY <1>1, <1>2, <1>3, CameraEnvironment, CameraHandling, CameraShared, CameraDrain, CameraMain
     DEF Next

-----------------------------------------------------------------------------
(* The Recorder in recorder_.                                               *)

\* A Recorder in recorder_ that nobody starts, publishes or stops is idle.
LEMMA LeftIdle ==
  ASSUME TypeOK, HeldInv, ~recording, recorder # None,
         \A u \in Actors : pc[u] \notin {"publish", "call_stop", "recorder_stop", "await_eos"}
  PROVE  rstate[recorder] = "idle"
BY DEF HeldInv, SessionInv

\* A step that does none of what HeldInv is about.
HeldLabels == SettledLabels \cup StartRecordingLabels \cup DeleteLabels \cup {"clear_flag", "exit"}
Quiet(u) ==
    \/ /\ pc'[u] = pc[u] /\ ret'[u] = ret[u] /\ serial'[u] = serial[u]
       /\ u \in Clients => file'[u] = file[u]
    \/ /\ pc[u] \notin HeldLabels /\ pc'[u] \notin HeldLabels
       /\ pc'[u] \in StopRecordingLabels => ret'[u] # "exit"

LEMMA HeldKept ==
  ASSUME HeldInv, \A u \in Actors : obj'[u] = obj[u] /\ Quiet(u), running => running',
         UNCHANGED <<recording, recorder, curFile, rstate, rfile, rmtx, rcfg, pipeCfg>>
  PROVE  HeldInv'
<1>1. SessionInv'
  BY DEF HeldInv, SessionInv, Quiet, HeldLabels, SettledLabels
<1>2. InsideInv'
  BY DEF HeldInv, InsideInv, Quiet, HeldLabels, SettledLabels
<1>3. NamedInv'
  BY DEF HeldInv, NamedInv, Quiet, HeldLabels, SettledLabels
<1>4. RestInv'
  BY DEF HeldInv, RestInv, Quiet, HeldLabels, SettledLabels
<1>. QED BY <1>1, <1>2, <1>3, <1>4 DEF HeldInv

LEMMA HeldInit == Init => HeldInv
<1>. SUFFICES ASSUME Init PROVE HeldInv
  OBVIOUS
<1>1. SessionInv
  BY DEF Init, SessionInv, SettledLabels
<1>2. InsideInv
  BY DEF Init, InsideInv, SettledLabels
<1>3. NamedInv
  BY DEF Init, NamedInv, SettledLabels
<1>4. RestInv
  BY DEF Init, RestInv, SettledLabels
<1>. QED BY <1>1, <1>2, <1>3, <1>4 DEF HeldInv

LEMMA HeldHandling ==
  ASSUME OneBrowser, NEW c \in Clients, TypeOK, MainInv, LockInv, RecorderInv, CameraInv, HeldInv,
         Handling(c)
  PROVE  HeldInv'
<1>1. CASE GetStatus(c)
  BY <1>1, HeldKept DEF GetStatus, Quiet, HeldLabels, SettledLabels, TypeOK
<1>2. CASE RecordStart(c)
  BY <1>2, HeldKept DEF RecordStart, Quiet, HeldLabels, SettledLabels, TypeOK
<1>3. CASE RecordRestart(c)
  BY <1>3, HeldKept DEF RecordRestart, Quiet, HeldLabels, SettledLabels, TypeOK
<1>4. CASE LockRes(c)
  <2>1. \A u \in Actors : u # c => pc[u] \in {"offline", "loop", "ws_stop"}
    BY <1>4, OneActor DEF LockRes, Working
  <2>2. SessionInv'
    BY <1>4, <2>1
       DEF LockRes, SessionInv, TypeOK, HeldInv, InsideInv, CameraInv, RunningInv, NamedInv
  <2>3. InsideInv'
    BY <1>4, <2>1
       DEF LockRes, InsideInv, TypeOK, HeldInv, SessionInv, CameraInv, RunningInv, NumberedInv,
           SettledLabels, RecorderInv, BirthInv, Within, BeforeBirth, AfterBirth, BornInv, Ids
  <2>4. NamedInv'
    BY <1>4, <2>1
       DEF LockRes, NamedInv, TypeOK, HeldInv, CameraInv, RunningInv, LockInv, InStartRecording,
           StopReturns
  <2>5. RestInv'
    BY <1>4, <2>1 DEF LockRes, RestInv, TypeOK, HeldInv, InsideInv, SessionInv, SettledLabels
  <2>. QED BY <2>2, <2>3, <2>4, <2>5 DEF HeldInv
<1>5. CASE StartReply(c)
  BY <1>5, HeldKept DEF StartReply, Quiet, HeldLabels, SettledLabels, TypeOK
<1>6. CASE RecordStop(c)
  BY <1>6, HeldKept DEF RecordStop, Quiet, HeldLabels, SettledLabels, TypeOK
<1>7. CASE StopReply(c)
  BY <1>7, HeldKept DEF StopReply, Quiet, HeldLabels, SettledLabels, TypeOK
<1>8. CASE SetResolution(c)
  BY <1>8, HeldKept DEF SetResolution, Quiet, HeldLabels, SettledLabels, TypeOK
<1>9. CASE Switch(c)
  BY <1>9, HeldKept DEF Switch, Quiet, HeldLabels, SettledLabels, TypeOK
<1>10. CASE ApplyCfg(c)
  BY <1>10, HeldKept DEF ApplyCfg, Quiet, HeldLabels, SettledLabels, TypeOK
<1>11. CASE StartRecording(c)
  <2>1. \A u \in Actors : u # c => pc[u] \in {"offline", "loop", "ws_stop"}
    BY <1>11, OneActor DEF StartRecording, Working
  <2>2. SessionInv'
    BY <1>11, <2>1
       DEF StartRecording, SessionInv, TypeOK, HeldInv, InsideInv, CameraInv, RunningInv, NamedInv
  <2>3. InsideInv'
    BY <1>11, <2>1
       DEF StartRecording, InsideInv, TypeOK, HeldInv, SessionInv, CameraInv, RunningInv,
           NumberedInv, SettledLabels, RecorderInv, BirthInv, Within, BeforeBirth, AfterBirth,
           BornInv, Ids
  <2>4. NamedInv'
    BY <1>11, <2>1
       DEF StartRecording, NamedInv, TypeOK, HeldInv, CameraInv, RunningInv, LockInv,
           InStartRecording, StopReturns
  <2>5. RestInv'
    BY <1>11, <2>1
       DEF StartRecording, RestInv, TypeOK, HeldInv, InsideInv, SessionInv, SettledLabels
  <2>. QED BY <2>2, <2>3, <2>4, <2>5 DEF HeldInv
<1>12. CASE NewRecorder(c)
  <2>1. \A u \in Actors : u # c => pc[u] \in {"offline", "loop", "ws_stop"}
    BY <1>12, OneActor DEF NewRecorder, Working
  <2>2. SessionInv'
    <3>1. serial[c] \in Ids /\ rstate[serial[c]] = "unborn" /\ ~recording
      BY <1>12
         DEF NewRecorder, TypeOK, HeldInv, InsideInv, SettledLabels, RecorderInv, BirthInv,
             Within, BeforeBirth
    <3>2. recorder # None => rstate[recorder] = "idle" /\ recorder # serial[c]
      BY <1>12, <2>1, <3>1, LeftIdle DEF NewRecorder
    <3>3. recorder' = serial[c] /\ rstate'[serial[c]] = "idle" /\ serial' = serial /\ ~recording'
      BY <1>12, <3>1 DEF NewRecorder, TypeOK
    <3>. QED BY <1>12, <2>1, <3>1, <3>3 DEF NewRecorder, SessionInv, TypeOK
  <2>3. InsideInv'
    <3>1. serial[c] \in Ids /\ rstate[serial[c]] = "unborn" /\ ~recording
      BY <1>12
         DEF NewRecorder, TypeOK, HeldInv, InsideInv, SettledLabels, RecorderInv, BirthInv,
             Within, BeforeBirth
    <3>2. recorder # None => rstate[recorder] = "idle" /\ recorder # serial[c]
      BY <1>12, <2>1, <3>1, LeftIdle DEF NewRecorder
    <3>3. recorder' = serial[c] /\ rstate'[serial[c]] = "idle" /\ serial' = serial /\ ~recording'
      BY <1>12, <3>1 DEF NewRecorder, TypeOK
    <3>4. \A u \in Actors : u # c => pc'[u] = pc[u]
      BY <1>12 DEF NewRecorder, TypeOK
    <3>5. \/ pc'[c] = "recorder_start"
          \/ /\ pc'[c] = "delete" /\ obj'[c] = recorder /\ ret'[c] = "recorder_start"
             /\ recorder \in Ids /\ rstate'[recorder] = "idle" /\ recorder # serial[c]
      BY <1>12, <3>1, <3>2 DEF NewRecorder, TypeOK
    <3>. QED BY <2>1, <3>1, <3>3, <3>4, <3>5 DEF InsideInv, SettledLabels
  <2>4. NamedInv'
    BY <1>12, <2>1
       DEF NewRecorder, NamedInv, TypeOK, HeldInv, CameraInv, RunningInv, LockInv,
           InStartRecording, StopReturns
  <2>5. RestInv'
    <3>1. serial[c] \in Ids /\ rstate[serial[c]] = "unborn" /\ ~recording
      BY <1>12
         DEF NewRecorder, TypeOK, HeldInv, InsideInv, SettledLabels, RecorderInv, BirthInv,
             Within, BeforeBirth
    <3>2. recorder # None => rstate[recorder] = "idle" /\ recorder # serial[c]
      BY <1>12, <2>1, <3>1, LeftIdle DEF NewRecorder
    <3>3. recorder' = serial[c] /\ rstate'[serial[c]] = "idle" /\ serial' = serial /\ ~recording'
      BY <1>12, <3>1 DEF NewRecorder, TypeOK
    <3>4. RestInv /\ \A u \in Actors : pc[u] \notin {"delete", "await_eos"}
      BY <1>12, <2>1 DEF NewRecorder, HeldInv
    <3>5. rmtx' = rmtx /\ \A r \in Ids : r # serial[c] => rstate'[r] = rstate[r]
      BY <1>12, <3>1 DEF NewRecorder, TypeOK
    <3>6. recorder # None => pc'[c] = "delete" /\ obj'[c] = recorder
      BY <1>12 DEF NewRecorder, TypeOK
    <3>7. \A r \in Ids : rstate[r] \notin {"unborn", "freed"} => r = recorder
      BY <3>4 DEF RestInv
    <3>8. \A r \in Ids : rmtx[r] = Unlocked
      BY <3>4 DEF RestInv
    <3>. QED BY ONLY c \in Actors, <3>3, <3>5, <3>6, <3>7, <3>8 DEF RestInv, Ids
  <2>. QED BY <2>2, <2>3, <2>4, <2>5 DEF HeldInv
<1>13. CASE RecorderStarts(c)
  <2>1. \A u \in Actors : u # c => pc[u] \in {"offline", "loop", "ws_stop"}
    BY <1>13, OneActor DEF RecorderStarts, Working
  <2>2. SessionInv'
    <3>1. ~recording /\ recorder \in Ids /\ recorder = serial[c] /\ running
      BY <1>13 DEF RecorderStarts, TypeOK, HeldInv, InsideInv, SettledLabels, CameraInv, RunningInv
    <3>2. rstate'[recorder] = "recording" /\ rcfg'[recorder] = cfg /\ pc'[c] = "publish"
      BY <1>13, <3>1 DEF RecorderStarts, TypeOK
    <3>3. \A u \in Actors : u # c => pc'[u] = pc[u]
      BY <1>13 DEF RecorderStarts, TypeOK
    <3>4. UNCHANGED <<recorder, recording, serial, running, pipeCfg, obj, ret>>
      BY <1>13 DEF RecorderStarts
    <3>5. cfg = pipeCfg
      BY <1>13, <2>1, <3>1 DEF RecorderStarts, CameraInv, SteadyInv, Phases, Up, Down
    <3>. QED BY <2>1, <3>1, <3>2, <3>3, <3>4, <3>5 DEF SessionInv
  <2>3. InsideInv'
    <3>1. ~recording /\ recorder \in Ids /\ recorder = serial[c] /\ running
      BY <1>13 DEF RecorderStarts, TypeOK, HeldInv, InsideInv, SettledLabels, CameraInv, RunningInv
    <3>2. rstate'[recorder] = "recording" /\ rcfg'[recorder] = cfg /\ pc'[c] = "publish"
      BY <1>13, <3>1 DEF RecorderStarts, TypeOK
    <3>3. \A u \in Actors : u # c => pc'[u] = pc[u]
      BY <1>13 DEF RecorderStarts, TypeOK
    <3>4. UNCHANGED <<recorder, recording, serial, running, pipeCfg, obj, ret>>
      BY <1>13 DEF RecorderStarts
    <3>. QED BY <2>1, <3>1, <3>2, <3>3, <3>4 DEF InsideInv, SettledLabels
  <2>4. NamedInv'
    <3>1. recorder \in Ids /\ recorder' = recorder /\ file' = file
      BY <1>13 DEF RecorderStarts, TypeOK
    <3>2. rfile'[recorder] = IF file[c] = None THEN Invented(recorder) ELSE file[c]
      BY <1>13, <3>1 DEF RecorderStarts, TypeOK
    <3>3. \A u \in Clients : u # c => pc'[u] # "publish"
      BY <1>13, <2>1 DEF RecorderStarts, TypeOK
    <3>. QED BY <3>1, <3>2, <3>3 DEF NamedInv
  <2>5. RestInv'
    BY <1>13, <2>1
       DEF RecorderStarts, RestInv, TypeOK, HeldInv, InsideInv, SessionInv, SettledLabels
  <2>. QED BY <2>2, <2>3, <2>4, <2>5 DEF HeldInv
<1>14. CASE RecorderStartFails(c)
  <2>1. \A u \in Actors : u # c => pc[u] \in {"offline", "loop", "ws_stop"}
    BY <1>14, OneActor DEF RecorderStartFails, Working
  <2>2. SessionInv'
    BY <1>14, <2>1
       DEF RecorderStartFails, SessionInv, TypeOK, HeldInv, InsideInv, CameraInv, RunningInv,
           NamedInv
  <2>3. InsideInv'
    <3>1. recorder \in Ids /\ rstate[recorder] = "idle" /\ ~recording
      BY <1>14 DEF RecorderStartFails, TypeOK, HeldInv, InsideInv, SettledLabels
    <3>2. pc'[c] = "delete" /\ ret'[c] = "start_reply" /\ obj'[c] = recorder /\ recorder' = None
      BY <1>14 DEF RecorderStartFails, TypeOK
    <3>3. \A u \in Actors : u # c => pc'[u] = pc[u]
      BY <1>14 DEF RecorderStartFails, TypeOK
    <3>4. UNCHANGED <<recording, rstate, serial>> /\ recorder # None
      BY <1>14 DEF RecorderStartFails
    <3>. QED BY <2>1, <3>1, <3>2, <3>3, <3>4 DEF InsideInv, SettledLabels
  <2>4. NamedInv'
    BY <1>14, <2>1
       DEF RecorderStartFails, NamedInv, TypeOK, HeldInv, CameraInv, RunningInv, LockInv,
           InStartRecording, StopReturns
  <2>5. RestInv'
    BY <1>14, <2>1
       DEF RecorderStartFails, RestInv, TypeOK, HeldInv, InsideInv, SessionInv, SettledLabels
  <2>. QED BY <2>2, <2>3, <2>4, <2>5 DEF HeldInv
<1>15. CASE RecorderStartThrows(c)
  <2>1. \A u \in Actors : u # c => pc[u] \in {"offline", "loop", "ws_stop"}
    BY <1>15, OneActor DEF RecorderStartThrows, Working
  <2>2. SessionInv'
    BY <1>15, <2>1
       DEF RecorderStartThrows, SessionInv, TypeOK, HeldInv, InsideInv, CameraInv, RunningInv,
           NamedInv
  <2>3. InsideInv'
    BY <1>15, <2>1
       DEF RecorderStartThrows, InsideInv, TypeOK, HeldInv, SessionInv, CameraInv, RunningInv,
           NumberedInv, SettledLabels, RecorderInv, BirthInv, Within, BeforeBirth, AfterBirth,
           BornInv, Ids
  <2>4. NamedInv'
    BY <1>15, <2>1
       DEF RecorderStartThrows, NamedInv, TypeOK, HeldInv, CameraInv, RunningInv, LockInv,
           InStartRecording, StopReturns
  <2>5. RestInv'
    BY <1>15, <2>1
       DEF RecorderStartThrows, RestInv, TypeOK, HeldInv, InsideInv, SessionInv, SettledLabels
  <2>. QED BY <2>2, <2>3, <2>4, <2>5 DEF HeldInv
<1>16. CASE RecorderStartOnNull(c)
  BY <1>16, HeldKept DEF RecorderStartOnNull, Quiet, HeldLabels, SettledLabels, TypeOK
<1>17. CASE Publish(c)
  <2>1. \A u \in Actors : u # c => pc[u] \in {"offline", "loop", "ws_stop"}
    BY <1>17, OneActor DEF Publish, Working
  <2>2. SessionInv'
    <3>1. pc[c] = "publish" /\ c \in Actors /\ InsideInv /\ NamedInv /\ SessionInv
      BY <1>17 DEF Publish, HeldInv
    <3>2. recorder = serial[c] /\ rstate[recorder] = "recording"
      BY <3>1 DEF InsideInv
    <3>3. running /\ serial[c] \in Ids
      BY <3>1 DEF CameraInv, RunningInv, NumberedInv
    <3>4. file[c] \in {None, rfile[recorder]}
      BY <3>1 DEF NamedInv
    <3>5. recorder # None
      BY <3>2, <3>3 DEF Ids
    <3>6. rcfg[recorder] = pipeCfg
      BY <3>1, <3>2, <3>5 DEF SessionInv
    <3>7. curFile' = file[c] /\ UNCHANGED <<running, recorder, rstate, rfile, rcfg, pipeCfg>>
      BY <1>17 DEF Publish
    <3>8. pc'[Main] # "exit"
      BY <1>17, <2>1 DEF Publish, TypeOK
    <3>9. recording' = TRUE
      BY <1>17 DEF Publish
    <3>. QED BY <3>2, <3>3, <3>4, <3>5, <3>6, <3>7, <3>8, <3>9 DEF SessionInv
  <2>3. InsideInv'
    <3>1. pc'[c] = "start_reply" /\ \A u \in Actors : u # c => pc'[u] = pc[u]
      BY <1>17 DEF Publish, TypeOK
    <3>. QED BY <2>1, <3>1 DEF InsideInv, SettledLabels
  <2>4. NamedInv'
    BY <1>17, <2>1
       DEF Publish, NamedInv, TypeOK, HeldInv, CameraInv, RunningInv, LockInv, InStartRecording,
           StopReturns
  <2>5. RestInv'
    BY <1>17, <2>1 DEF Publish, RestInv, TypeOK, HeldInv, InsideInv, SessionInv, SettledLabels
  <2>. QED BY <2>2, <2>3, <2>4, <2>5 DEF HeldInv
<1>. QED BY <1>1, <1>2, <1>3, <1>4, <1>5, <1>6, <1>7, <1>8, <1>9, <1>10, <1>11, <1>12, <1>13,
            <1>14, <1>15, <1>16, <1>17
            DEF Handling, Recording

LEMMA HeldShared ==
  ASSUME OneBrowser, NEW t \in Actors, TypeOK, MainInv, LockInv, RecorderInv, CameraInv, HeldInv,
         Shared(t)
  PROVE  HeldInv'
<1>1. CASE StopRecording(t)
  <2>1. \A u \in Actors : u # t => pc[u] \in {"offline", "loop", "ws_stop"}
    BY <1>1, OneActor DEF StopRecording, Working
  <2>2. ReturnsTo(t)
    BY <1>1, Returns DEF StopRecording
  <2>3. SessionInv'
    <3>1. /\ UNCHANGED <<running, recording, recorder, curFile, rstate, rfile, rcfg, pipeCfg>>
          /\ \A u \in Actors : u # t => pc'[u] = pc[u]
          /\ pc[t] = "stop_recording"
      BY <1>1 DEF StopRecording, TypeOK
    <3>2. SessionInv /\ ret[t] # "exit"
      BY <1>1 DEF StopRecording, HeldInv, InsideInv
    <3>3. pc'[t] # "exit"
      BY <1>1, <3>2 DEF StopRecording, TypeOK
    <3>. QED BY <2>1, <3>1, <3>2, <3>3 DEF SessionInv
  <2>4. InsideInv'
    <3>1. /\ UNCHANGED <<recording, recorder, rstate, obj, serial, ret>>
          /\ \A u \in Actors : u # t => pc'[u] = pc[u]
          /\ pc[t] = "stop_recording" /\ pc'[t] = IF recording THEN "clear_flag" ELSE ret[t]
      BY <1>1 DEF StopRecording, TypeOK
    <3>2. InsideInv
      BY DEF HeldInv
    <3>3. ret[t] \notin {"recorder_start", "start_reply"}
      BY <2>2, <3>1 DEF ReturnsTo
    <3>4. ret[t] \in {"lock", "stop_reply", "stop", "stop_flags", "exit"}
      BY <2>2, <3>3 DEF ReturnsTo, StopReturns
    <3>5. recording \in BOOLEAN
      BY DEF TypeOK
    <3>. QED BY <2>1, <3>1, <3>2, <3>4, <3>5 DEF InsideInv, SettledLabels
  <2>5. NamedInv'
    BY <1>1, <2>1, <2>2
       DEF StopRecording, NamedInv, TypeOK, HeldInv, CameraInv, RunningInv, LockInv,
           InStartRecording, StopReturns, ReturnsTo
  <2>6. RestInv'
    BY <1>1, <2>1, <2>2
       DEF StopRecording, RestInv, TypeOK, HeldInv, InsideInv, SessionInv, SettledLabels,
           ReturnsTo
  <2>. QED BY <2>3, <2>4, <2>5, <2>6 DEF HeldInv
<1>2. CASE ClearFlag(t)
  <2>1. \A u \in Actors : u # t => pc[u] \in {"offline", "loop", "ws_stop"}
    BY <1>2, OneActor DEF ClearFlag, Working
  <2>2. SessionInv'
    <3>1. SessionInv /\ recording' = FALSE
      BY <1>2 DEF ClearFlag, HeldInv
    <3>2. UNCHANGED <<recorder, curFile, rstate, rcfg, running, pipeCfg>>
      BY <1>2 DEF ClearFlag
    <3>3. pc'[t] = "call_stop"
      BY <1>2 DEF ClearFlag, TypeOK
    <3>4. pc'[Main] # "exit"
      BY <1>2, <2>1 DEF ClearFlag, TypeOK
    <3>. QED BY <3>1, <3>2, <3>3, <3>4 DEF SessionInv
  <2>3. InsideInv'
    <3>1. /\ recorder # None /\ rstate[recorder] = "recording"
          /\ ret[t] # "exit"
      BY <1>2 DEF ClearFlag, HeldInv, SessionInv, InsideInv
    <3>2. recording' = FALSE /\ pc'[t] = "call_stop"
      BY <1>2 DEF ClearFlag, TypeOK
    <3>3. \A u \in Actors : u # t => pc'[u] = pc[u]
      BY <1>2 DEF ClearFlag, TypeOK
    <3>4. UNCHANGED <<recorder, rstate, serial, obj, ret>>
      BY <1>2 DEF ClearFlag
    <3>. QED BY <2>1, <3>1, <3>2, <3>3, <3>4 DEF InsideInv, SettledLabels
  <2>4. NamedInv'
    BY <1>2, <2>1
       DEF ClearFlag, NamedInv, TypeOK, HeldInv, CameraInv, RunningInv, LockInv, InStartRecording,
           StopReturns
  <2>5. RestInv'
    BY <1>2, <2>1 DEF ClearFlag, RestInv, TypeOK, HeldInv, InsideInv, SessionInv, SettledLabels
  <2>. QED BY <2>2, <2>3, <2>4, <2>5 DEF HeldInv
<1>3. CASE CallStop(t)
  <2>1. \A u \in Actors : u # t => pc[u] \in {"offline", "loop", "ws_stop"}
    BY <1>3, OneActor DEF CallStop, Working
  <2>2. ReturnsTo(t)
    BY <1>3, Returns DEF CallStop
  <2>3. SessionInv'
    BY <1>3, <2>1, <2>2
       DEF CallStop, SessionInv, TypeOK, HeldInv, InsideInv, CameraInv, RunningInv, NamedInv,
           ReturnsTo
  <2>4. InsideInv'
    BY <1>3, <2>1, <2>2
       DEF CallStop, InsideInv, TypeOK, HeldInv, SessionInv, CameraInv, RunningInv, NumberedInv,
           SettledLabels, RecorderInv, BirthInv, Within, BeforeBirth, AfterBirth, BornInv, Ids,
           ReturnsTo
  <2>5. NamedInv'
    BY <1>3, <2>1, <2>2
       DEF CallStop, NamedInv, TypeOK, HeldInv, CameraInv, RunningInv, LockInv, InStartRecording,
           StopReturns, ReturnsTo
  <2>6. RestInv'
    BY <1>3, <2>1, <2>2
       DEF CallStop, RestInv, TypeOK, HeldInv, InsideInv, SessionInv, SettledLabels, ReturnsTo
  <2>. QED BY <2>3, <2>4, <2>5, <2>6 DEF HeldInv
<1>4. CASE RecorderStop(t)
  <2>1. \A u \in Actors : u # t => pc[u] \in {"offline", "loop", "ws_stop"}
    BY <1>4, OneActor DEF RecorderStop, Working
  <2>2. SessionInv'
    <3>1. obj[t] = recorder /\ recorder \in Ids /\ rstate[recorder] = "recording" /\ ~recording
      BY <1>4 DEF RecorderStop, TypeOK, HeldInv, InsideInv, SettledLabels
    <3>2. pc'[t] = "await_eos" /\ rstate'[recorder] = "stopping"
      BY <1>4, <3>1 DEF RecorderStop, TypeOK
    <3>3. \A u \in Actors : u # t => pc'[u] = pc[u]
      BY <1>4, <3>1 DEF RecorderStop, TypeOK
    <3>4. UNCHANGED <<recorder, recording, serial, obj, ret>>
      BY <1>4 DEF RecorderStop
    <3>5. pc'[Main] # "exit"
      BY <2>1, <3>2, <3>3
    <3>. QED BY <3>1, <3>2, <3>4, <3>5 DEF SessionInv
  <2>3. InsideInv'
    <3>1. obj[t] = recorder /\ recorder \in Ids /\ rstate[recorder] = "recording" /\ ~recording
      BY <1>4 DEF RecorderStop, TypeOK, HeldInv, InsideInv, SettledLabels
    <3>2. pc'[t] = "await_eos" /\ rstate'[recorder] = "stopping"
      BY <1>4, <3>1 DEF RecorderStop, TypeOK
    <3>3. \A u \in Actors : u # t => pc'[u] = pc[u]
      BY <1>4, <3>1 DEF RecorderStop, TypeOK
    <3>4. UNCHANGED <<recorder, recording, serial, obj, ret>>
      BY <1>4 DEF RecorderStop
    <3>5. ret[t] # "exit"
      BY <1>4 DEF RecorderStop, HeldInv, InsideInv
    <3>6. recorder # None
      BY <3>1 DEF Ids
    <3>. QED BY <2>1, <3>1, <3>2, <3>3, <3>4, <3>5, <3>6 DEF InsideInv, SettledLabels
  <2>4. NamedInv'
    BY <1>4, <2>1
       DEF RecorderStop, NamedInv, TypeOK, HeldInv, CameraInv, RunningInv, LockInv,
           InStartRecording, StopReturns
  <2>5. RestInv'
    BY <1>4, <2>1 DEF RecorderStop, RestInv, TypeOK, HeldInv, InsideInv, SessionInv, SettledLabels
  <2>. QED BY <2>2, <2>3, <2>4, <2>5 DEF HeldInv
<1>5. CASE RecorderStopOnFreed(t)
  BY <1>5, HeldKept DEF RecorderStopOnFreed, Quiet, HeldLabels, SettledLabels, TypeOK
<1>6. CASE AwaitEos(t)
  <2>1. \A u \in Actors : u # t => pc[u] \in {"offline", "loop", "ws_stop"}
    BY <1>6, OneActor DEF AwaitEos, Working
  <2>2. SessionInv'
    <3>1. obj[t] = recorder /\ recorder \in Ids /\ ~recording
      BY <1>6 DEF AwaitEos, TypeOK, HeldInv, InsideInv, SettledLabels
    <3>2. rstate'[recorder] = "idle" /\ recorder' = recorder /\ ~recording'
      BY <1>6, <3>1 DEF AwaitEos, TypeOK
    <3>3. pc'[Main] # "exit"
      BY <1>6, <2>1 DEF AwaitEos, TypeOK
    <3>. QED BY <3>1, <3>2, <3>3 DEF SessionInv
  <2>3. InsideInv'
    <3>1. obj[t] = recorder /\ recorder \in Ids /\ ~recording /\ ret[t] # "exit"
      BY <1>6 DEF AwaitEos, TypeOK, HeldInv, InsideInv, SettledLabels
    <3>2. rstate'[recorder] = "idle" /\ recorder # None /\ pc'[t] = "reset_recorder"
      BY <1>6, <3>1 DEF AwaitEos, TypeOK, Ids
    <3>3. \A u \in Actors : u # t => pc'[u] = pc[u]
      BY <1>6 DEF AwaitEos, TypeOK
    <3>4. UNCHANGED <<recorder, recording, serial, obj, ret>>
      BY <1>6 DEF AwaitEos
    <3>. QED BY <2>1, <3>1, <3>2, <3>3, <3>4 DEF InsideInv, SettledLabels
  <2>4. NamedInv'
    BY <1>6, <2>1
       DEF AwaitEos, NamedInv, TypeOK, HeldInv, CameraInv, RunningInv, LockInv, InStartRecording,
           StopReturns
  <2>5. RestInv'
    BY <1>6, <2>1 DEF AwaitEos, RestInv, TypeOK, HeldInv, InsideInv, SessionInv, SettledLabels
  <2>. QED BY <2>2, <2>3, <2>4, <2>5 DEF HeldInv
<1>7. CASE ResetRecorder(t)
  <2>1. \A u \in Actors : u # t => pc[u] \in {"offline", "loop", "ws_stop"}
    BY <1>7, OneActor DEF ResetRecorder, Working
  <2>2. ReturnsTo(t)
    BY <1>7, Returns DEF ResetRecorder
  <2>3. SessionInv'
    BY <1>7, <2>1, <2>2
       DEF ResetRecorder, SessionInv, TypeOK, HeldInv, InsideInv, CameraInv, RunningInv, NamedInv,
           ReturnsTo
  <2>4. InsideInv'
    <3>1. recorder \in Ids /\ rstate[recorder] = "idle" /\ ~recording /\ recorder # None
      BY <1>7 DEF ResetRecorder, TypeOK, HeldInv, InsideInv, SettledLabels
    <3>2. pc'[t] = "delete" /\ obj'[t] = recorder /\ recorder' = None
      BY <1>7, <3>1 DEF ResetRecorder, TypeOK
    <3>3. \A u \in Actors : u # t => pc'[u] = pc[u]
      BY <1>7 DEF ResetRecorder, TypeOK
    <3>4. UNCHANGED <<recording, rstate, serial, ret>> /\ ret[t] # "recorder_start"
      BY <1>7, <2>2 DEF ResetRecorder, ReturnsTo
    <3>. QED BY <2>1, <3>1, <3>2, <3>3, <3>4 DEF InsideInv, SettledLabels
  <2>5. NamedInv'
    BY <1>7, <2>1, <2>2
       DEF ResetRecorder, NamedInv, TypeOK, HeldInv, CameraInv, RunningInv, LockInv,
           InStartRecording, StopReturns, ReturnsTo
  <2>6. RestInv'
    BY <1>7, <2>1, <2>2
       DEF ResetRecorder, RestInv, TypeOK, HeldInv, InsideInv, SessionInv, SettledLabels,
           ReturnsTo
  <2>. QED BY <2>3, <2>4, <2>5, <2>6 DEF HeldInv
<1>8. CASE Delete(t)
  <2>1. \A u \in Actors : u # t => pc[u] \in {"offline", "loop", "ws_stop"}
    BY <1>8, OneActor DEF Delete, Working
  <2>2. ReturnsTo(t)
    BY <1>8, Returns DEF Delete
  <2>3. SessionInv'
    BY <1>8, <2>1, <2>2
       DEF Delete, SessionInv, TypeOK, HeldInv, InsideInv, CameraInv, RunningInv, NamedInv,
           ReturnsTo
  <2>4. InsideInv'
    <3>1. /\ obj[t] \in Ids /\ obj[t] # recorder /\ rstate[obj[t]] = "idle" /\ ~recording
          /\ recorder = IF ret[t] = "recorder_start" THEN serial[t] ELSE None
      BY <1>8 DEF Delete, TypeOK, HeldInv, InsideInv, SettledLabels
    <3>2. pc'[t] = ret[t] /\ \A u \in Actors : u # t => pc'[u] = pc[u]
      BY <1>8, <3>1 DEF Delete, TypeOK
    <3>3. recorder # None => rstate[recorder] = "idle"
      BY <1>8, <2>1, <3>1, LeftIdle DEF Delete
    <3>4. recorder # None => rstate'[recorder] = "idle"
      BY <1>8, <3>1, <3>3 DEF Delete, TypeOK
    <3>5. UNCHANGED <<recorder, recording, serial, ret>>
      BY <1>8 DEF Delete
    <3>6. ret[t] \in {"lock", "stop_reply", "stop", "stop_flags", "recorder_start", "start_reply", "exit"}
      BY <2>2 DEF ReturnsTo, StopReturns
    <3>7. ret[t] = "recorder_start" => serial[t] # None
      BY <1>8, <2>2 DEF Delete, ReturnsTo, CameraInv, NumberedInv, Ids
    <3>. QED BY <2>1, <3>1, <3>2, <3>4, <3>5, <3>6, <3>7 DEF InsideInv, SettledLabels
  <2>5. NamedInv'
    BY <1>8, <2>1, <2>2
       DEF Delete, NamedInv, TypeOK, HeldInv, CameraInv, RunningInv, LockInv, InStartRecording,
           StopReturns, ReturnsTo
  <2>6. RestInv'
    <3>1. obj[t] \in Ids /\ rstate[obj[t]] = "idle"
      BY <1>8 DEF Delete, HeldInv, InsideInv
    <3>2. rstate' = [rstate EXCEPT ![obj[t]] = "freed"] /\ UNCHANGED <<rmtx, recorder>>
      BY <1>8, <3>1 DEF Delete
    <3>3. \A r \in Ids : rstate'[r] = IF r = obj[t] THEN "freed" ELSE rstate[r]
      BY <3>1, <3>2 DEF TypeOK
    <3>4. \A u \in Actors : u # t => pc[u] # "delete" /\ pc[u] # "await_eos"
      BY <2>1
    <3>5. pc[t] = "delete" /\ RestInv
      BY <1>8 DEF Delete, HeldInv
    <3>. QED BY <3>2, <3>3, <3>4, <3>5 DEF RestInv
  <2>. QED BY <2>3, <2>4, <2>5, <2>6 DEF HeldInv
<1>9. CASE DeleteEos(t)
  <2>1. \A u \in Actors : u # t => pc[u] \in {"offline", "loop", "ws_stop"}
    BY <1>9, OneActor DEF DeleteEos, Working
  <2>2. ReturnsTo(t)
    BY <1>9, Returns DEF DeleteEos
  <2>3. SessionInv'
    BY <1>9, <2>1, <2>2
       DEF DeleteEos, SessionInv, TypeOK, HeldInv, InsideInv, CameraInv, RunningInv, NamedInv,
           ReturnsTo
  <2>4. InsideInv'
    BY <1>9, <2>1, <2>2
       DEF DeleteEos, InsideInv, TypeOK, HeldInv, SessionInv, CameraInv, RunningInv, NumberedInv,
           SettledLabels, RecorderInv, BirthInv, Within, BeforeBirth, AfterBirth, BornInv, Ids,
           ReturnsTo
  <2>5. NamedInv'
    BY <1>9, <2>1, <2>2
       DEF DeleteEos, NamedInv, TypeOK, HeldInv, CameraInv, RunningInv, LockInv, InStartRecording,
           StopReturns, ReturnsTo
  <2>6. RestInv'
    BY <1>9, <2>1, <2>2
       DEF DeleteEos, RestInv, TypeOK, HeldInv, InsideInv, SessionInv, SettledLabels, ReturnsTo
  <2>. QED BY <2>3, <2>4, <2>5, <2>6 DEF HeldInv
<1>10. CASE Stop(t)
  BY <1>10, HeldKept DEF Stop, Quiet, HeldLabels, SettledLabels, TypeOK
<1>11. CASE StopFinalize(t)
  <2>1. \A u \in Actors : u # t => pc[u] \in {"offline", "loop", "ws_stop"}
    BY <1>11, OneActor DEF StopFinalize, Working
  <2>2. SessionInv'
    BY <1>11, <2>1
       DEF StopFinalize, SessionInv, TypeOK, HeldInv, InsideInv, CameraInv, RunningInv, NamedInv
  <2>3. InsideInv'
    BY <1>11, <2>1
       DEF StopFinalize, InsideInv, TypeOK, HeldInv, SessionInv, CameraInv, RunningInv,
           NumberedInv, SettledLabels, RecorderInv, BirthInv, Within, BeforeBirth, AfterBirth,
           BornInv, Ids
  <2>4. NamedInv'
    BY <1>11, <2>1
       DEF StopFinalize, NamedInv, TypeOK, HeldInv, CameraInv, RunningInv, LockInv,
           InStartRecording, StopReturns
  <2>5. RestInv'
    BY <1>11, <2>1 DEF StopFinalize, RestInv, TypeOK, HeldInv, InsideInv, SessionInv, SettledLabels
  <2>. QED BY <2>2, <2>3, <2>4, <2>5 DEF HeldInv
<1>12. CASE StopFlags(t)
  <2>1. \A u \in Actors : u # t => pc[u] \in {"offline", "loop", "ws_stop"}
    BY <1>12, OneActor DEF StopFlags, Working
  <2>2. SessionInv'
    <3>1. ~recording
      BY <1>12 DEF StopFlags, HeldInv, InsideInv, SettledLabels
    <3>2. recorder # None => rstate[recorder] = "idle"
      BY <1>12, <2>1, <3>1, LeftIdle DEF StopFlags
    <3>3. UNCHANGED <<recorder, recording, rstate>>
      BY <1>12 DEF StopFlags
    <3>4. pc'[Main] # "exit"
      BY <1>12, <2>1 DEF StopFlags, TypeOK
    <3>. QED BY <3>1, <3>2, <3>3, <3>4 DEF SessionInv
  <2>3. InsideInv'
    BY <1>12, <2>1
       DEF StopFlags, InsideInv, TypeOK, HeldInv, SessionInv, CameraInv, RunningInv, NumberedInv,
           SettledLabels, RecorderInv, BirthInv, Within, BeforeBirth, AfterBirth, BornInv, Ids
  <2>4. NamedInv'
    BY <1>12, <2>1
       DEF StopFlags, NamedInv, TypeOK, HeldInv, CameraInv, RunningInv, LockInv, InStartRecording,
           StopReturns
  <2>5. RestInv'
    BY <1>12, <2>1 DEF StopFlags, RestInv, TypeOK, HeldInv, InsideInv, SessionInv, SettledLabels
  <2>. QED BY <2>2, <2>3, <2>4, <2>5 DEF HeldInv
<1>13. CASE JoinRec(t)
  BY <1>13, HeldKept DEF JoinRec, Quiet, HeldLabels, SettledLabels, TypeOK
<1>14. CASE SetNull(t)
  BY <1>14, HeldKept DEF SetNull, Quiet, HeldLabels, SettledLabels, TypeOK
<1>15. CASE JoinBus(t)
  BY <1>15, HeldKept DEF JoinBus, Quiet, HeldLabels, SettledLabels, TypeOK
<1>16. CASE Unref(t)
  BY <1>16, HeldKept DEF Unref, Quiet, HeldLabels, SettledLabels, TypeOK
<1>17. CASE Start(t)
  BY <1>17, HeldKept DEF Start, Quiet, HeldLabels, SettledLabels, TypeOK
<1>18. CASE Launch(t)
  <2>1. \A u \in Actors : u # t => pc[u] \in {"offline", "loop", "ws_stop"}
    BY <1>18, OneActor DEF Launch, Working
  <2>2. SessionInv'
    BY <1>18, <2>1
       DEF Launch, SessionInv, TypeOK, HeldInv, InsideInv, CameraInv, RunningInv, NamedInv
  <2>3. InsideInv'
    BY <1>18, <2>1
       DEF Launch, InsideInv, TypeOK, HeldInv, SessionInv, CameraInv, RunningInv, NumberedInv,
           SettledLabels, RecorderInv, BirthInv, Within, BeforeBirth, AfterBirth, BornInv, Ids
  <2>4. NamedInv'
    BY <1>18, <2>1
       DEF Launch, NamedInv, TypeOK, HeldInv, CameraInv, RunningInv, LockInv, InStartRecording,
           StopReturns
  <2>5. RestInv'
    BY <1>18, <2>1 DEF Launch, RestInv, TypeOK, HeldInv, InsideInv, SessionInv, SettledLabels
  <2>. QED BY <2>2, <2>3, <2>4, <2>5 DEF HeldInv
<1>19. CASE LaunchFails(t)
  BY <1>19, HeldKept DEF LaunchFails, Quiet, HeldLabels, SettledLabels, TypeOK
<1>20. CASE SpawnRec(t)
  BY <1>20, HeldKept DEF SpawnRec, Quiet, HeldLabels, SettledLabels, TypeOK
<1>21. CASE SpawnBus(t)
  BY <1>21, HeldKept DEF SpawnBus, Quiet, HeldLabels, SettledLabels, TypeOK
<1>22. CASE SpawnOverJoinable(t)
  BY <1>22, HeldKept DEF SpawnOverJoinable, Quiet, HeldLabels, SettledLabels, TypeOK
<1>. QED BY <1>1, <1>2, <1>3, <1>4, <1>5, <1>6, <1>7, <1>8, <1>9, <1>10, <1>11, <1>12, <1>13,
            <1>14, <1>15, <1>16, <1>17, <1>18, <1>19, <1>20, <1>21, <1>22
            DEF Shared

LEMMA HeldEnvironment ==
  ASSUME OneBrowser, NoBusError, TypeOK, MainInv, LockInv, RecorderInv, CameraInv, HeldInv, Environment
  PROVE  HeldInv'
<1>1. ASSUME NEW c \in Clients, Connect(c)
      PROVE  HeldInv'
  BY <1>1, HeldKept DEF Connect, Quiet, HeldLabels, SettledLabels, TypeOK
<1>2. ASSUME NEW c \in Clients, Disconnect(c)
      PROVE  HeldInv'
  BY <1>2, HeldKept DEF Disconnect, Quiet, HeldLabels, SettledLabels, TypeOK
<1>3. ASSUME NEW c \in Clients, NEW k \in Commands, NEW w \in Resolutions,
             Request(c, k, w)
      PROVE  HeldInv'
  BY <1>3, HeldKept, ParametersOK DEF Request, Quiet, HeldLabels, SettledLabels, TypeOK
<1>4. Signal => UNCHANGED <<threadVars, requestVars, cameraVars, sessionVars, objectVars>>
  BY DEF Signal
<1>5. ~BusError
  BY DEF NoBusError, BusError
<1>6. Signal => HeldInv'
  BY <1>4, HeldKept DEF Quiet
<1>. QED BY <1>1, <1>2, <1>3, <1>5, <1>6 DEF Environment

LEMMA HeldDrain ==
  ASSUME OneBrowser, TypeOK, MainInv, LockInv, RecorderInv, CameraInv, HeldInv, DrainStep
  PROVE  HeldInv'
<1>1. CASE DrainAborts
  BY <1>1, HeldKept DEF DrainAborts, Quiet, HeldLabels, SettledLabels, TypeOK
<1>2. CASE Pull
  BY <1>2, HeldKept DEF Pull, Quiet, HeldLabels, SettledLabels, TypeOK
<1>3. CASE Check
  BY <1>3, HeldKept DEF Check, Quiet, HeldLabels, SettledLabels, TypeOK
<1>4. CASE PushFrame
  BY <1>4, HeldKept DEF PushFrame, Quiet, HeldLabels, SettledLabels, TypeOK
<1>5. CASE PushFrameOnNull
  BY <1>5, HeldKept DEF PushFrameOnNull, Quiet, HeldLabels, SettledLabels, TypeOK
<1>6. CASE Push
  BY <1>6, HeldKept DEF Push, Quiet, HeldLabels, SettledLabels, TypeOK
<1>7. CASE PushAfterTeardown
  BY <1>7, HeldKept DEF PushAfterTeardown, Quiet, HeldLabels, SettledLabels, TypeOK
<1>. QED BY <1>1, <1>2, <1>3, <1>4, <1>5, <1>6, <1>7 DEF DrainStep

LEMMA HeldMain ==
  ASSUME OneBrowser, TypeOK, MainInv, LockInv, RecorderInv, CameraInv, HeldInv, MainStep
  PROVE  HeldInv'
<1>1. CASE LeaveLoop
  BY <1>1, HeldKept DEF LeaveLoop, Quiet, HeldLabels, SettledLabels, TypeOK
<1>2. CASE WsStop
  BY <1>2, HeldKept DEF WsStop, Quiet, HeldLabels, SettledLabels, TypeOK
<1>3. CASE Destroy
  <2>1. \A u \in Actors : u # Main => pc[u] \in {"offline", "loop", "ws_stop"}
    BY <1>3, OneActor DEF Destroy, Working
  <2>2. SessionInv'
    BY <1>3, <2>1
       DEF Destroy, SessionInv, TypeOK, HeldInv, InsideInv, CameraInv, RunningInv, NamedInv
  <2>3. InsideInv'
    <3>1. ~recording
      BY <1>3 DEF Destroy, HeldInv, SessionInv, CameraInv, RunningInv
    <3>2. recorder # None => rstate[recorder] = "idle"
      BY <1>3, <2>1, <3>1, LeftIdle DEF Destroy
    <3>3. \/ pc'[Main] = "exit"
          \/ /\ pc'[Main] = "delete" /\ obj'[Main] = recorder /\ recorder \in Ids
             /\ ret'[Main] = "exit"
      BY <1>3 DEF Destroy, TypeOK
    <3>4. recorder' = None /\ UNCHANGED <<recording, rstate, serial>>
      BY <1>3 DEF Destroy
    <3>5. \A u \in Actors : u # Main => pc'[u] = pc[u]
      BY <1>3 DEF Destroy, TypeOK
    <3>6. pc'[Main] = "delete" => recorder # None
      BY <1>3 DEF Destroy, TypeOK
    <3>. QED BY <2>1, <3>1, <3>2, <3>3, <3>4, <3>5, <3>6 DEF InsideInv, SettledLabels
  <2>4. NamedInv'
    BY <1>3, <2>1
       DEF Destroy, NamedInv, TypeOK, HeldInv, CameraInv, RunningInv, LockInv, InStartRecording,
           StopReturns
  <2>5. RestInv'
    BY <1>3, <2>1 DEF Destroy, RestInv, TypeOK, HeldInv, InsideInv, SessionInv, SettledLabels
  <2>. QED BY <2>2, <2>3, <2>4, <2>5 DEF HeldInv
<1>4. CASE DestroyJoinable
  BY <1>4, HeldKept DEF DestroyJoinable, Quiet, HeldLabels, SettledLabels, TypeOK
<1>. QED BY <1>1, <1>2, <1>3, <1>4 DEF MainStep

LEMMA HeldStep ==
  ASSUME OneBrowser, NoBusError, TypeOK, MainInv, LockInv, RecorderInv, CameraInv, HeldInv, [Next]_vars
  PROVE  HeldInv'
<1>1. CASE UNCHANGED vars
  BY <1>1, HeldKept DEF Quiet, vars
<1>2. CASE BusAborts
  BY <1>2, HeldKept DEF Quiet, BusAborts, TypeOK
<1>3. CASE Races
  <2>1. UNCHANGED <<threadVars, requestVars, cameraVars, sessionVars, objectVars>>
    BY <1>3, Zenon DEF Races, DoubleReset, DoubleJoin
  <2>. QED BY <2>1, HeldKept DEF Quiet
<1>. QED
  BY <1>1, <1>2, <1>3, HeldEnvironment, HeldHandling, HeldShared, HeldDrain, HeldMain
     DEF Next

-----------------------------------------------------------------------------
(* Recordings that were begun go on, or have been ended.                    *)

\* Only these steps change the state, the file or the end of a Recorder.
LEMMA BegunEffect ==
  ASSUME TypeOK, [Next]_vars
  PROVE  \/ UNCHANGED <<rstate, rfile, ended>>
         \/ \E c \in Clients : NewRecorder(c) \/ RecorderStarts(c)
         \/ \E t \in Actors : RecorderStop(t) \/ AwaitEos(t) \/ Delete(t) \/ DeleteEos(t)
<1>. DEFINE Kept == UNCHANGED <<rstate, rfile, ended>>
<1>1. CASE UNCHANGED vars
  BY <1>1 DEF vars
<1>2. CASE Environment
  BY <1>2 DEF Environment, Connect, Disconnect, Request, Signal, BusError
<1>3. CASE Races
  BY <1>3 DEF Races, DoubleReset, DoubleJoin
<1>4. CASE DrainStep
  BY <1>4
     DEF DrainStep, DrainAborts, Pull, Check, PushFrame, PushFrameOnNull, Push, PushAfterTeardown
<1>5. CASE BusAborts
  BY <1>5 DEF BusAborts
<1>6. CASE MainStep
  BY <1>6 DEF MainStep, LeaveLoop, WsStop, Destroy, DestroyJoinable
<1>7. ASSUME NEW c \in Clients, Handling(c), ~NewRecorder(c), ~RecorderStarts(c)
      PROVE  Kept
  BY <1>7
     DEF Handling, Recording, GetStatus, RecordStart, RecordRestart, LockRes, StartReply,
         RecordStop, StopReply, SetResolution, Switch, ApplyCfg, StartRecording,
         RecorderStartFails, RecorderStartThrows, RecorderStartOnNull, Publish
<1>8. ASSUME NEW t \in Actors, Shared(t), ~RecorderStop(t), ~AwaitEos(t), ~Delete(t), ~DeleteEos(t)
      PROVE  Kept
  BY <1>8
     DEF Shared, StopRecording, ClearFlag, CallStop, RecorderStopOnFreed, ResetRecorder, Stop,
         StopFinalize, StopFlags, JoinRec, SetNull, JoinBus, Unref, Start, Launch, LaunchFails,
         SpawnRec, SpawnBus, SpawnOverJoinable
<1>. QED BY <1>1, <1>2, <1>3, <1>4, <1>5, <1>6, <1>7, <1>8 DEF Next

LEMMA BegunInit == Init => BegunInv
BY DEF Init, BegunInv

LEMMA BegunStep ==
  ASSUME TypeOK, RecorderInv, HeldInv, BegunInv, [Next]_vars
  PROVE  BegunInv'
<1>0. /\ rstate \in [Ids -> RecorderStates] /\ rfile \in [Ids -> FileNames]
      /\ ended \in [Ids -> {"no", "finalised", "truncated"}] /\ recorder \in Ids \cup {None}
  BY DEF TypeOK
<1>1. CASE UNCHANGED <<rstate, rfile, ended>>
  BY <1>1 DEF BegunInv
<1>2. ASSUME NEW c \in Clients, NewRecorder(c) PROVE BegunInv'
  <2>1. serial[c] \in Ids /\ rstate[serial[c]] = "unborn"
    BY <1>2 DEF NewRecorder, RecorderInv, BirthInv, BeforeBirth, Within
  <2>2. ended[serial[c]] = "no"
    BY <2>1 DEF RecorderInv, EndedInv
  <2>3. rfile[serial[c]] = None
    BY <2>1, <2>2 DEF BegunInv
  <2>4. /\ UNCHANGED <<rfile, ended>>
        /\ \A r \in Ids : r # serial[c] => rstate'[r] = rstate[r]
    BY <1>2, <2>1 DEF NewRecorder
  <2>. QED BY ONLY BegunInv, <2>3, <2>4 DEF BegunInv
<1>3. ASSUME NEW c \in Clients, RecorderStarts(c) PROVE BegunInv'
  <2>1. recorder \in Ids /\ ended' = ended
    BY ONLY <1>3, <1>0 DEF RecorderStarts
  <2>2. rstate'[recorder] = "recording" /\ \A r \in Ids : r # recorder => rstate'[r] = rstate[r]
    BY ONLY <1>3, <1>0, <2>1 DEF RecorderStarts
  <2>3. \A r \in Ids : r # recorder => rfile'[r] = rfile[r]
    BY ONLY <1>3, <1>0, <2>1 DEF RecorderStarts
  <2>. QED BY ONLY BegunInv, <2>1, <2>2, <2>3 DEF BegunInv
<1>4. ASSUME NEW t \in Actors, RecorderStop(t) PROVE BegunInv'
  <2>1. UNCHANGED <<rfile, ended>>
    BY <1>4 DEF RecorderStop
  <2>2. \A r \in Ids : rstate'[r] = rstate[r] \/ rstate'[r] = "stopping"
    BY ONLY <1>4, <1>0 DEF RecorderStop
  <2>. QED BY ONLY BegunInv, <2>1, <2>2 DEF BegunInv
<1>5. ASSUME NEW t \in Actors, AwaitEos(t) PROVE BegunInv'
  <2>1. rfile' = rfile
    BY <1>5 DEF AwaitEos
  <2>2. \A r \in Ids : \/ ended'[r] # "no"
                       \/ ended'[r] = ended[r] /\ rstate'[r] = rstate[r]
    BY ONLY <1>5, <1>0 DEF AwaitEos, EndFile, Outcomes
  <2>. QED BY ONLY BegunInv, <2>1, <2>2 DEF BegunInv
<1>6. ASSUME NEW t \in Actors, Delete(t) PROVE BegunInv'
  <2>1. obj[t] \in Ids /\ rstate[obj[t]] = "idle"
    BY <1>6 DEF Delete, HeldInv, InsideInv
  <2>2. UNCHANGED <<rfile, ended>>
    BY <1>6 DEF Delete
  <2>3. \A r \in Ids : r # obj[t] => rstate'[r] = rstate[r]
    BY ONLY <1>6, <1>0, <2>1 DEF Delete
  <2>. QED BY ONLY BegunInv, <2>1, <2>2, <2>3 DEF BegunInv
<1>7. ASSUME NEW t \in Actors, DeleteEos(t) PROVE BegunInv'
  BY <1>7 DEF DeleteEos, HeldInv, InsideInv
<1>. QED BY <1>1, <1>2, <1>3, <1>4, <1>5, <1>6, <1>7, BegunEffect

-----------------------------------------------------------------------------
(* The drain thread, and how the process may die.                           *)

\* Only these steps change what a frame about to be pushed is compared with.
PushKept ==
    /\ UNCHANGED <<pipeCfg, rcfg>>
    /\ obj'[Drain] = obj[Drain]
    /\ pc'[Drain] = "push" => pc[Drain] = "push"

LEMMA PushEffect ==
  ASSUME TypeOK, [Next]_vars
  PROVE  \/ PushKept
         \/ Push \/ PushFrame
         \/ \E c \in Clients : RecorderStarts(c)
         \/ \E t \in Actors : Launch(t)
<1>1. CASE UNCHANGED vars
  BY <1>1 DEF vars, PushKept
<1>2. CASE Environment
  BY <1>2 DEF TypeOK, PushKept, Environment, Connect, Disconnect, Request, Signal, BusError
<1>3. CASE Races
  BY <1>3 DEF PushKept, Races, DoubleReset, DoubleJoin
<1>4. CASE DrainStep /\ ~Push /\ ~PushFrame
  BY <1>4
     DEF TypeOK, PushKept, DrainStep, DrainAborts, Pull, Check, PushFrameOnNull, PushAfterTeardown
<1>5. CASE BusAborts
  BY <1>5 DEF TypeOK, PushKept, BusAborts
<1>6. CASE MainStep
  BY <1>6 DEF TypeOK, PushKept, MainStep, LeaveLoop, WsStop, Destroy, DestroyJoinable
<1>7. ASSUME NEW c \in Clients, Handling(c), ~RecorderStarts(c)
      PROVE  PushKept
  BY <1>7
     DEF TypeOK, PushKept, Handling, Recording, GetStatus, RecordStart, RecordRestart, LockRes,
         StartReply, RecordStop, StopReply, SetResolution, Switch, ApplyCfg, StartRecording,
         NewRecorder, RecorderStartFails, RecorderStartThrows, RecorderStartOnNull, Publish
<1>8. ASSUME NEW t \in Actors, Shared(t), ~Launch(t)
      PROVE  PushKept
  BY <1>8
     DEF TypeOK, PushKept, Shared, StopRecording, ClearFlag, CallStop, RecorderStop,
         RecorderStopOnFreed, AwaitEos, ResetRecorder, Delete, DeleteEos, Stop, StopFinalize,
         StopFlags, JoinRec, SetNull, JoinBus, Unref, Start, LaunchFails, SpawnRec, SpawnBus,
         SpawnOverJoinable
<1>. QED BY <1>1, <1>2, <1>3, <1>4, <1>5, <1>6, <1>7, <1>8 DEF Next

LEMMA PushInit == Init => PushInv
BY DEF Init, PushInv

LEMMA PushStep ==
  ASSUME OneBrowser, TypeOK, MainInv, CameraInv, HeldInv, PushInv, [Next]_vars
  PROVE  PushInv'
<1>1. CASE PushKept
  BY <1>1 DEF PushKept, PushInv
<1>2. CASE Push
  BY <1>2 DEF Push, PushInv, TypeOK
<1>3. CASE PushFrame
  BY <1>3 DEF PushFrame, PushInv, TypeOK, HeldInv, SessionInv
<1>4. ASSUME NEW c \in Clients, RecorderStarts(c) PROVE PushInv'
  <2>1. \A u \in Actors : u # c => pc[u] \in {"offline", "loop", "ws_stop"}
    BY <1>4, OneActor DEF RecorderStarts, Working
  <2>2. cfg = pipeCfg
    BY <1>4, <2>1 DEF RecorderStarts, CameraInv, RunningInv, SteadyInv, Phases, Up, Down
  <2>. QED BY <1>4, <2>2 DEF RecorderStarts, PushInv, TypeOK
<1>5. ASSUME NEW t \in Actors, Launch(t) PROVE PushInv'
  <2>1. \A u \in Actors : u # t => pc[u] \in {"offline", "loop", "ws_stop"}
    BY <1>5, OneActor DEF Launch, Working
  <2>2. pc[Drain] = "ended"
    BY <1>5, <2>1 DEF Launch, CameraInv, RunningInv, SteadyInv, Phases, Up, Down
  <2>. QED BY <1>5, <2>2 DEF Launch, PushInv, TypeOK
<1>. QED BY <1>1, <1>2, <1>3, <1>4, <1>5, PushEffect

LEMMA CrashStep ==
  ASSUME OneBrowser, TypeOK, MainInv, CameraInv, HeldInv, OnlyDrainCrashes, [Next]_vars
  PROVE  OnlyDrainCrashes'
<1>1. CASE UNCHANGED vars
  BY <1>1 DEF vars, OnlyDrainCrashes
<1>2. CASE Environment
  BY <1>2 DEF OnlyDrainCrashes, Environment, Connect, Disconnect, Request, Signal, BusError
<1>3. CASE Races
  <2>1. PICK t, u \in Actors : DoubleReset(t, u) \/ DoubleJoin(t, u)
    BY <1>3 DEF Races
  <2>2. t # u /\ Working(t) /\ Working(u)
    BY <2>1 DEF DoubleReset, DoubleJoin, Working
  <2>. QED BY <2>2, OneActor DEF Working
<1>4. CASE DrainStep
  BY <1>4
     DEF OnlyDrainCrashes, DrainStep, DrainAborts, Pull, Check, PushFrame, PushFrameOnNull, Push,
         PushAfterTeardown
<1>5. CASE BusAborts
  BY <1>5 DEF OnlyDrainCrashes, BusAborts
<1>6. CASE MainStep
  <2>1. CASE DestroyJoinable
    <3>1. \A u \in Actors : u # Main => pc[u] \in {"offline", "loop", "ws_stop"}
      BY <2>1, OneActor DEF DestroyJoinable, Working
    <3>. QED BY <2>1, <3>1 DEF DestroyJoinable, CameraInv, RunningInv, SteadyInv, Phases, Up, Down
  <2>. QED BY <1>6, <2>1 DEF OnlyDrainCrashes, MainStep, LeaveLoop, WsStop, Destroy
<1>7. ASSUME NEW c \in Clients, Handling(c)
      PROVE  OnlyDrainCrashes'
  <2>1. CASE RecorderStartOnNull(c)
    BY <2>1 DEF RecorderStartOnNull, CameraInv, NumberedInv, HeldInv, InsideInv, Ids
  <2>. QED BY <1>7, <2>1
              DEF OnlyDrainCrashes, Handling, Recording, GetStatus, RecordStart, RecordRestart,
                  LockRes, StartReply, RecordStop, StopReply, SetResolution, Switch, ApplyCfg,
                  StartRecording, NewRecorder, RecorderStarts, RecorderStartFails,
                  RecorderStartThrows, Publish
<1>8. ASSUME NEW t \in Actors, Shared(t)
      PROVE  OnlyDrainCrashes'
  <2>1. CASE RecorderStopOnFreed(t)
    BY <2>1 DEF RecorderStopOnFreed, HeldInv, InsideInv
  <2>2. CASE SpawnOverJoinable(t)
    BY <2>2 DEF SpawnOverJoinable, CameraInv, PhaseInv, Phases
  <2>. QED BY <1>8, <2>1, <2>2
              DEF OnlyDrainCrashes, Shared, StopRecording, ClearFlag, CallStop, RecorderStop,
                  AwaitEos, ResetRecorder, Delete, DeleteEos, Stop, StopFinalize, StopFlags,
                  JoinRec, SetNull, JoinBus, Unref, Start, Launch, LaunchFails, SpawnRec, SpawnBus
<1>. QED BY <1>1, <1>2, <1>3, <1>4, <1>5, <1>6, <1>7, <1>8 DEF Next

-----------------------------------------------------------------------------
(* What record_stop answers.                                                *)

\* What record_stop has found and ended stays so unless another recording begins.
LEMMA RecordedKept ==
  ASSUME rfile' = rfile, \A r \in Ids : ended[r] # "no" => ended'[r] = ended[r]
  PROVE  RecordedFiles' = RecordedFiles /\ (NoneOpen => NoneOpen')
BY DEF RecordedFiles, NoneOpen

LEMMA AnswerInit == Init => AnswerInv
BY DEF Init, AnswerInv, StopPath, HasStopped

LEMMA AnswerHandling ==
  ASSUME OneBrowser, NEW c \in Clients, TypeOK, MainInv, LockInv, CameraInv, HeldInv, AnswerInv,
         rfile' = rfile => RecordedFiles' = RecordedFiles /\ (NoneOpen => NoneOpen'),
         Handling(c)
  PROVE  AnswerInv'
<1>1. CASE GetStatus(c)
  <2>1. \A u \in Actors : u # c => pc[u] \in {"offline", "loop", "ws_stop"}
    BY <1>1, OneActor DEF GetStatus, Working
  <2>. QED BY <1>1, <2>1
              DEF GetStatus, AnswerInv, StopPath, HasStopped, TypeOK, HeldInv, SessionInv,
                  InsideInv, StopReturns
<1>2. CASE RecordStart(c)
  <2>1. \A u \in Actors : u # c => pc[u] \in {"offline", "loop", "ws_stop"}
    BY <1>2, OneActor DEF RecordStart, Working
  <2>. QED BY <1>2, <2>1
              DEF RecordStart, AnswerInv, StopPath, HasStopped, TypeOK, HeldInv, SessionInv,
                  InsideInv, StopReturns
<1>3. CASE RecordRestart(c)
  <2>1. \A u \in Actors : u # c => pc[u] \in {"offline", "loop", "ws_stop"}
    BY <1>3, OneActor DEF RecordRestart, Working
  <2>. QED BY <1>3, <2>1
              DEF RecordRestart, AnswerInv, StopPath, HasStopped, TypeOK, HeldInv, SessionInv,
                  InsideInv, StopReturns
<1>4. CASE LockRes(c)
  <2>1. \A u \in Actors : u # c => pc[u] \in {"offline", "loop", "ws_stop"}
    BY <1>4, OneActor DEF LockRes, Working
  <2>. QED BY <1>4, <2>1
              DEF LockRes, AnswerInv, StopPath, HasStopped, TypeOK, HeldInv, SessionInv,
                  InsideInv, StopReturns
<1>5. CASE StartReply(c)
  <2>1. \A u \in Actors : u # c => pc[u] \in {"offline", "loop", "ws_stop"}
    BY <1>5, OneActor DEF StartReply, Working
  <2>. QED BY <1>5, <2>1
              DEF StartReply, AnswerInv, StopPath, HasStopped, TypeOK, HeldInv, SessionInv,
                  InsideInv, StopReturns
<1>6. CASE RecordStop(c)
  <2>1. \A u \in Actors : u # c => pc[u] \in {"offline", "loop", "ws_stop"}
    BY <1>6, OneActor DEF RecordStop, Working
  <2>2. recording => curFile \in {None} \cup RecordedFiles
    <3>1. recording => recorder \in Ids /\ curFile \in {None, rfile[recorder]}
      BY DEF HeldInv, SessionInv, TypeOK
    <3>. QED BY ONLY <3>1 DEF RecordedFiles
  <2>3. RecordedFiles' = RecordedFiles /\ (NoneOpen => NoneOpen')
    BY <1>6 DEF RecordStop
  <2>. QED BY <1>6, <2>1, <2>2, <2>3 DEF RecordStop, AnswerInv, StopPath, HasStopped, TypeOK
<1>7. CASE StopReply(c)
  <2>1. \A u \in Actors : u # c => pc[u] \in {"offline", "loop", "ws_stop"}
    BY <1>7, OneActor DEF StopReply, Working
  <2>. QED BY <1>7, <2>1
              DEF StopReply, AnswerInv, StopPath, HasStopped, TypeOK, HeldInv, SessionInv,
                  InsideInv, StopReturns
<1>8. CASE SetResolution(c)
  <2>1. \A u \in Actors : u # c => pc[u] \in {"offline", "loop", "ws_stop"}
    BY <1>8, OneActor DEF SetResolution, Working
  <2>. QED BY <1>8, <2>1
              DEF SetResolution, AnswerInv, StopPath, HasStopped, TypeOK, HeldInv, SessionInv,
                  InsideInv, StopReturns
<1>9. CASE Switch(c)
  <2>1. \A u \in Actors : u # c => pc[u] \in {"offline", "loop", "ws_stop"}
    BY <1>9, OneActor DEF Switch, Working
  <2>. QED BY <1>9, <2>1
              DEF Switch, AnswerInv, StopPath, HasStopped, TypeOK, HeldInv, SessionInv, InsideInv,
                  StopReturns
<1>10. CASE ApplyCfg(c)
  <2>1. \A u \in Actors : u # c => pc[u] \in {"offline", "loop", "ws_stop"}
    BY <1>10, OneActor DEF ApplyCfg, Working
  <2>. QED BY <1>10, <2>1
              DEF ApplyCfg, AnswerInv, StopPath, HasStopped, TypeOK, HeldInv, SessionInv,
                  InsideInv, StopReturns
<1>11. CASE StartRecording(c)
  <2>1. \A u \in Actors : u # c => pc[u] \in {"offline", "loop", "ws_stop"}
    BY <1>11, OneActor DEF StartRecording, Working
  <2>. QED BY <1>11, <2>1
              DEF StartRecording, AnswerInv, StopPath, HasStopped, TypeOK, HeldInv, SessionInv,
                  InsideInv, StopReturns
<1>12. CASE NewRecorder(c)
  <2>1. \A u \in Actors : u # c => pc[u] \in {"offline", "loop", "ws_stop"}
    BY <1>12, OneActor DEF NewRecorder, Working
  <2>. QED BY <1>12, <2>1
              DEF NewRecorder, AnswerInv, StopPath, HasStopped, TypeOK, HeldInv, SessionInv,
                  InsideInv, StopReturns
<1>13. CASE RecorderStarts(c)
  <2>1. \A u \in Actors : u # c => pc[u] \in {"offline", "loop", "ws_stop"}
    BY <1>13, OneActor DEF RecorderStarts, Working
  <2>2. \A d \in Clients : d = c
    BY DEF OneBrowser
  <2>3. cmd[c] # "record_stop"
    BY <1>13 DEF RecorderStarts, AnswerInv, StopPath
  <2>4. pc'[c] = "publish" /\ cmd'[c] = cmd[c]
    BY <1>13 DEF RecorderStarts, TypeOK
  <2>. QED BY <2>2, <2>3, <2>4 DEF AnswerInv, StopPath, HasStopped
<1>14. CASE RecorderStartFails(c)
  <2>1. \A u \in Actors : u # c => pc[u] \in {"offline", "loop", "ws_stop"}
    BY <1>14, OneActor DEF RecorderStartFails, Working
  <2>. QED BY <1>14, <2>1
              DEF RecorderStartFails, AnswerInv, StopPath, HasStopped, TypeOK, HeldInv,
                  SessionInv, InsideInv, StopReturns
<1>15. CASE RecorderStartThrows(c)
  <2>1. \A u \in Actors : u # c => pc[u] \in {"offline", "loop", "ws_stop"}
    BY <1>15, OneActor DEF RecorderStartThrows, Working
  <2>. QED BY <1>15, <2>1
              DEF RecorderStartThrows, AnswerInv, StopPath, HasStopped, TypeOK, HeldInv,
                  SessionInv, InsideInv, StopReturns
<1>16. CASE RecorderStartOnNull(c)
  <2>1. \A u \in Actors : u # c => pc[u] \in {"offline", "loop", "ws_stop"}
    BY <1>16, OneActor DEF RecorderStartOnNull, Working
  <2>. QED BY <1>16, <2>1
              DEF RecorderStartOnNull, AnswerInv, StopPath, HasStopped, TypeOK, HeldInv,
                  SessionInv, InsideInv, StopReturns
<1>17. CASE Publish(c)
  <2>1. \A u \in Actors : u # c => pc[u] \in {"offline", "loop", "ws_stop"}
    BY <1>17, OneActor DEF Publish, Working
  <2>. QED BY <1>17, <2>1
              DEF Publish, AnswerInv, StopPath, HasStopped, TypeOK, HeldInv, SessionInv,
                  InsideInv, StopReturns
<1>. QED BY <1>1, <1>2, <1>3, <1>4, <1>5, <1>6, <1>7, <1>8, <1>9, <1>10, <1>11, <1>12, <1>13,
            <1>14, <1>15, <1>16, <1>17
            DEF Handling, Recording

LEMMA AnswerShared ==
  ASSUME OneBrowser, NEW t \in Actors, TypeOK, MainInv, LockInv, CameraInv, HeldInv, AnswerInv,
         rfile' = rfile => RecordedFiles' = RecordedFiles /\ (NoneOpen => NoneOpen'),
         BegunInv, Shared(t)
  PROVE  AnswerInv'
<1>1. CASE StopRecording(t)
  <2>1. \A u \in Actors : u # t => pc[u] \in {"offline", "loop", "ws_stop"}
    BY <1>1, OneActor DEF StopRecording, Working
  <2>2. ReturnsTo(t)
    BY <1>1, Returns DEF StopRecording
  <2>. QED BY <1>1, <2>1, <2>2
              DEF StopRecording, AnswerInv, StopPath, HasStopped, TypeOK, HeldInv, SessionInv,
                  InsideInv, StopReturns, ReturnsTo
<1>2. CASE ClearFlag(t)
  <2>1. \A u \in Actors : u # t => pc[u] \in {"offline", "loop", "ws_stop"}
    BY <1>2, OneActor DEF ClearFlag, Working
  <2>. QED BY <1>2, <2>1
              DEF ClearFlag, AnswerInv, StopPath, HasStopped, TypeOK, HeldInv, SessionInv,
                  InsideInv, StopReturns
<1>3. CASE CallStop(t)
  <2>1. \A u \in Actors : u # t => pc[u] \in {"offline", "loop", "ws_stop"}
    BY <1>3, OneActor DEF CallStop, Working
  <2>2. ReturnsTo(t)
    BY <1>3, Returns DEF CallStop
  <2>. QED BY <1>3, <2>1, <2>2
              DEF CallStop, AnswerInv, StopPath, HasStopped, TypeOK, HeldInv, SessionInv,
                  InsideInv, StopReturns, ReturnsTo
<1>4. CASE RecorderStop(t)
  <2>1. \A u \in Actors : u # t => pc[u] \in {"offline", "loop", "ws_stop"}
    BY <1>4, OneActor DEF RecorderStop, Working
  <2>. QED BY <1>4, <2>1
              DEF RecorderStop, AnswerInv, StopPath, HasStopped, TypeOK, HeldInv, SessionInv,
                  InsideInv, StopReturns
<1>5. CASE RecorderStopOnFreed(t)
  <2>1. \A u \in Actors : u # t => pc[u] \in {"offline", "loop", "ws_stop"}
    BY <1>5, OneActor DEF RecorderStopOnFreed, Working
  <2>. QED BY <1>5, <2>1
              DEF RecorderStopOnFreed, AnswerInv, StopPath, HasStopped, TypeOK, HeldInv,
                  SessionInv, InsideInv, StopReturns
<1>6. CASE AwaitEos(t)
  <2>1. \A u \in Actors : u # t => pc[u] \in {"offline", "loop", "ws_stop"}
    BY <1>6, OneActor DEF AwaitEos, Working
  <2>2. NoneOpen'
    <3>1. obj[t] = recorder /\ \A u \in Actors : pc[u] # "delete"
      BY <1>6, <2>1 DEF AwaitEos, HeldInv, InsideInv
    <3>2. \A r \in Ids : r # obj[t] => rstate[r] \in {"unborn", "freed"}
      BY <3>1 DEF HeldInv, RestInv
    <3>3. \A r \in Ids : r # obj[t] /\ rfile[r] # None => ended[r] # "no"
      BY <3>2 DEF BegunInv
    <3>4. rfile' = rfile /\ \A r \in Ids : ended'[r] # "no" \/ (r # obj[t] /\ ended'[r] = ended[r])
      BY <1>6 DEF AwaitEos, TypeOK
    <3>. QED BY <3>3, <3>4 DEF NoneOpen
  <2>. QED BY <1>6, <2>1, <2>2
              DEF AwaitEos, AnswerInv, StopPath, HasStopped, TypeOK, HeldInv, SessionInv,
                  InsideInv, StopReturns
<1>7. CASE ResetRecorder(t)
  <2>1. \A u \in Actors : u # t => pc[u] \in {"offline", "loop", "ws_stop"}
    BY <1>7, OneActor DEF ResetRecorder, Working
  <2>2. ReturnsTo(t)
    BY <1>7, Returns DEF ResetRecorder
  <2>. QED BY <1>7, <2>1, <2>2
              DEF ResetRecorder, AnswerInv, StopPath, HasStopped, TypeOK, HeldInv, SessionInv,
                  InsideInv, StopReturns, ReturnsTo
<1>8. CASE Delete(t)
  <2>1. \A u \in Actors : u # t => pc[u] \in {"offline", "loop", "ws_stop"}
    BY <1>8, OneActor DEF Delete, Working
  <2>2. ReturnsTo(t)
    BY <1>8, Returns DEF Delete
  <2>. QED BY <1>8, <2>1, <2>2
              DEF Delete, AnswerInv, StopPath, HasStopped, TypeOK, HeldInv, SessionInv, InsideInv,
                  StopReturns, ReturnsTo
<1>9. CASE DeleteEos(t)
  <2>1. \A u \in Actors : u # t => pc[u] \in {"offline", "loop", "ws_stop"}
    BY <1>9, OneActor DEF DeleteEos, Working
  <2>2. ReturnsTo(t)
    BY <1>9, Returns DEF DeleteEos
  <2>. QED BY <1>9, <2>1, <2>2
              DEF DeleteEos, AnswerInv, StopPath, HasStopped, TypeOK, HeldInv, SessionInv,
                  InsideInv, StopReturns, ReturnsTo
<1>10. CASE Stop(t)
  <2>1. \A u \in Actors : u # t => pc[u] \in {"offline", "loop", "ws_stop"}
    BY <1>10, OneActor DEF Stop, Working
  <2>. QED BY <1>10, <2>1
              DEF Stop, AnswerInv, StopPath, HasStopped, TypeOK, HeldInv, SessionInv, InsideInv,
                  StopReturns
<1>11. CASE StopFinalize(t)
  <2>1. \A u \in Actors : u # t => pc[u] \in {"offline", "loop", "ws_stop"}
    BY <1>11, OneActor DEF StopFinalize, Working
  <2>. QED BY <1>11, <2>1
              DEF StopFinalize, AnswerInv, StopPath, HasStopped, TypeOK, HeldInv, SessionInv,
                  InsideInv, StopReturns
<1>12. CASE StopFlags(t)
  <2>1. \A u \in Actors : u # t => pc[u] \in {"offline", "loop", "ws_stop"}
    BY <1>12, OneActor DEF StopFlags, Working
  <2>. QED BY <1>12, <2>1
              DEF StopFlags, AnswerInv, StopPath, HasStopped, TypeOK, HeldInv, SessionInv,
                  InsideInv, StopReturns
<1>13. CASE JoinRec(t)
  <2>1. \A u \in Actors : u # t => pc[u] \in {"offline", "loop", "ws_stop"}
    BY <1>13, OneActor DEF JoinRec, Working
  <2>. QED BY <1>13, <2>1
              DEF JoinRec, AnswerInv, StopPath, HasStopped, TypeOK, HeldInv, SessionInv,
                  InsideInv, StopReturns
<1>14. CASE SetNull(t)
  <2>1. \A u \in Actors : u # t => pc[u] \in {"offline", "loop", "ws_stop"}
    BY <1>14, OneActor DEF SetNull, Working
  <2>. QED BY <1>14, <2>1
              DEF SetNull, AnswerInv, StopPath, HasStopped, TypeOK, HeldInv, SessionInv,
                  InsideInv, StopReturns
<1>15. CASE JoinBus(t)
  <2>1. \A u \in Actors : u # t => pc[u] \in {"offline", "loop", "ws_stop"}
    BY <1>15, OneActor DEF JoinBus, Working
  <2>. QED BY <1>15, <2>1
              DEF JoinBus, AnswerInv, StopPath, HasStopped, TypeOK, HeldInv, SessionInv,
                  InsideInv, StopReturns
<1>16. CASE Unref(t)
  <2>1. \A u \in Actors : u # t => pc[u] \in {"offline", "loop", "ws_stop"}
    BY <1>16, OneActor DEF Unref, Working
  <2>. QED BY <1>16, <2>1
              DEF Unref, AnswerInv, StopPath, HasStopped, TypeOK, HeldInv, SessionInv, InsideInv,
                  StopReturns
<1>17. CASE Start(t)
  <2>1. \A u \in Actors : u # t => pc[u] \in {"offline", "loop", "ws_stop"}
    BY <1>17, OneActor DEF Start, Working
  <2>. QED BY <1>17, <2>1
              DEF Start, AnswerInv, StopPath, HasStopped, TypeOK, HeldInv, SessionInv, InsideInv,
                  StopReturns
<1>18. CASE Launch(t)
  <2>1. \A u \in Actors : u # t => pc[u] \in {"offline", "loop", "ws_stop"}
    BY <1>18, OneActor DEF Launch, Working
  <2>. QED BY <1>18, <2>1
              DEF Launch, AnswerInv, StopPath, HasStopped, TypeOK, HeldInv, SessionInv, InsideInv,
                  StopReturns
<1>19. CASE LaunchFails(t)
  <2>1. \A u \in Actors : u # t => pc[u] \in {"offline", "loop", "ws_stop"}
    BY <1>19, OneActor DEF LaunchFails, Working
  <2>. QED BY <1>19, <2>1
              DEF LaunchFails, AnswerInv, StopPath, HasStopped, TypeOK, HeldInv, SessionInv,
                  InsideInv, StopReturns
<1>20. CASE SpawnRec(t)
  <2>1. \A u \in Actors : u # t => pc[u] \in {"offline", "loop", "ws_stop"}
    BY <1>20, OneActor DEF SpawnRec, Working
  <2>. QED BY <1>20, <2>1
              DEF SpawnRec, AnswerInv, StopPath, HasStopped, TypeOK, HeldInv, SessionInv,
                  InsideInv, StopReturns
<1>21. CASE SpawnBus(t)
  <2>1. \A u \in Actors : u # t => pc[u] \in {"offline", "loop", "ws_stop"}
    BY <1>21, OneActor DEF SpawnBus, Working
  <2>. QED BY <1>21, <2>1
              DEF SpawnBus, AnswerInv, StopPath, HasStopped, TypeOK, HeldInv, SessionInv,
                  InsideInv, StopReturns
<1>22. CASE SpawnOverJoinable(t)
  <2>1. \A u \in Actors : u # t => pc[u] \in {"offline", "loop", "ws_stop"}
    BY <1>22, OneActor DEF SpawnOverJoinable, Working
  <2>. QED BY <1>22, <2>1
              DEF SpawnOverJoinable, AnswerInv, StopPath, HasStopped, TypeOK, HeldInv, SessionInv,
                  InsideInv, StopReturns
<1>. QED BY <1>1, <1>2, <1>3, <1>4, <1>5, <1>6, <1>7, <1>8, <1>9, <1>10, <1>11, <1>12, <1>13,
            <1>14, <1>15, <1>16, <1>17, <1>18, <1>19, <1>20, <1>21, <1>22
            DEF Shared

LEMMA AnswerEnvironment ==
  ASSUME OneBrowser, NoBusError, TypeOK, MainInv, LockInv, CameraInv, HeldInv, AnswerInv,
         rfile' = rfile => RecordedFiles' = RecordedFiles /\ (NoneOpen => NoneOpen'),
         Environment
  PROVE  AnswerInv'
<1>1. ASSUME NEW c \in Clients, Connect(c)
      PROVE  AnswerInv'
  <2>1. AnswerInv'
    BY <1>1
       DEF Connect, AnswerInv, StopPath, HasStopped, TypeOK, HeldInv, SessionInv, InsideInv,
           StopReturns
  <2>. QED BY <2>1
<1>2. ASSUME NEW c \in Clients, Disconnect(c)
      PROVE  AnswerInv'
  <2>1. \A u \in Actors : u # c => pc[u] \in {"offline", "loop", "ws_stop"}
    BY <1>2, OneActor DEF Disconnect, Working
  <2>2. AnswerInv'
    BY <1>2, <2>1
       DEF Disconnect, AnswerInv, StopPath, HasStopped, TypeOK, HeldInv, SessionInv, InsideInv,
           StopReturns
  <2>. QED BY <2>2
<1>3. ASSUME NEW c \in Clients, NEW k \in Commands, NEW w \in Resolutions,
             Request(c, k, w)
      PROVE  AnswerInv'
  <2>1. \A u \in Actors : u # c => pc[u] \in {"offline", "loop", "ws_stop"}
    BY <1>3, OneActor DEF Request, Working
  <2>2. AnswerInv'
    BY <1>3, <2>1, ParametersOK
       DEF Request, AnswerInv, StopPath, HasStopped, TypeOK, HeldInv, SessionInv, InsideInv,
           StopReturns
  <2>. QED BY <2>2
<1>4. Signal => UNCHANGED <<threadVars, requestVars, cameraVars, sessionVars, objectVars>>
  BY DEF Signal
<1>5. ~BusError
  BY DEF NoBusError, BusError
<1>6. Signal => AnswerInv'
  BY <1>4 DEF AnswerInv, HasStopped, HeldInv, InsideInv, SessionInv, StopPath, StopReturns, TypeOK
<1>. QED BY <1>1, <1>2, <1>3, <1>5, <1>6 DEF Environment

LEMMA AnswerDrain ==
  ASSUME OneBrowser, TypeOK, MainInv, LockInv, CameraInv, HeldInv, AnswerInv,
         rfile' = rfile => RecordedFiles' = RecordedFiles /\ (NoneOpen => NoneOpen'),
         DrainStep
  PROVE  AnswerInv'
<1>1. CASE DrainAborts
  <2>. QED BY <1>1
              DEF DrainAborts, AnswerInv, StopPath, HasStopped, TypeOK, HeldInv, SessionInv,
                  InsideInv, StopReturns
<1>2. CASE Pull
  <2>. QED BY <1>2
              DEF Pull, AnswerInv, StopPath, HasStopped, TypeOK, HeldInv, SessionInv, InsideInv,
                  StopReturns
<1>3. CASE Check
  <2>. QED BY <1>3
              DEF Check, AnswerInv, StopPath, HasStopped, TypeOK, HeldInv, SessionInv, InsideInv,
                  StopReturns
<1>4. CASE PushFrame
  <2>. QED BY <1>4
              DEF PushFrame, AnswerInv, StopPath, HasStopped, TypeOK, HeldInv, SessionInv,
                  InsideInv, StopReturns
<1>5. CASE PushFrameOnNull
  <2>. QED BY <1>5
              DEF PushFrameOnNull, AnswerInv, StopPath, HasStopped, TypeOK, HeldInv, SessionInv,
                  InsideInv, StopReturns
<1>6. CASE Push
  <2>. QED BY <1>6
              DEF Push, AnswerInv, StopPath, HasStopped, TypeOK, HeldInv, SessionInv, InsideInv,
                  StopReturns
<1>7. CASE PushAfterTeardown
  <2>. QED BY <1>7
              DEF PushAfterTeardown, AnswerInv, StopPath, HasStopped, TypeOK, HeldInv, SessionInv,
                  InsideInv, StopReturns
<1>. QED BY <1>1, <1>2, <1>3, <1>4, <1>5, <1>6, <1>7 DEF DrainStep

LEMMA AnswerMain ==
  ASSUME OneBrowser, TypeOK, MainInv, LockInv, CameraInv, HeldInv, AnswerInv,
         rfile' = rfile => RecordedFiles' = RecordedFiles /\ (NoneOpen => NoneOpen'),
         MainStep
  PROVE  AnswerInv'
<1>1. CASE LeaveLoop
  <2>. QED BY <1>1
              DEF LeaveLoop, AnswerInv, StopPath, HasStopped, TypeOK, HeldInv, SessionInv,
                  InsideInv, StopReturns
<1>2. CASE WsStop
  <2>. QED BY <1>2
              DEF WsStop, AnswerInv, StopPath, HasStopped, TypeOK, HeldInv, SessionInv, InsideInv,
                  StopReturns
<1>3. CASE Destroy
  <2>1. \A u \in Actors : u # Main => pc[u] \in {"offline", "loop", "ws_stop"}
    BY <1>3, OneActor DEF Destroy, Working
  <2>. QED BY <1>3, <2>1
              DEF Destroy, AnswerInv, StopPath, HasStopped, TypeOK, HeldInv, SessionInv,
                  InsideInv, StopReturns
<1>4. CASE DestroyJoinable
  <2>. QED BY <1>4
              DEF DestroyJoinable, AnswerInv, StopPath, HasStopped, TypeOK, HeldInv, SessionInv,
                  InsideInv, StopReturns
<1>. QED BY <1>1, <1>2, <1>3, <1>4 DEF MainStep

LEMMA AnswerStep ==
  ASSUME OneBrowser, NoBusError, TypeOK, MainInv, LockInv, CameraInv, HeldInv, AnswerInv, BegunInv,
         \A r \in Ids : ended[r] # "no" => ended'[r] = ended[r], [Next]_vars
  PROVE  AnswerInv'
<1>4. rfile' = rfile => RecordedFiles' = RecordedFiles /\ (NoneOpen => NoneOpen')
  BY RecordedKept
<1>1. CASE UNCHANGED vars
  BY <1>1, <1>4
     DEF vars, AnswerInv, HasStopped, HeldInv, InsideInv, SessionInv, StopPath, StopReturns,
         TypeOK
<1>2. CASE BusAborts
  BY <1>2, <1>4
     DEF BusAborts, AnswerInv, HasStopped, HeldInv, InsideInv, SessionInv, StopPath, StopReturns,
         TypeOK
<1>3. CASE Races
  <2>1. UNCHANGED <<threadVars, requestVars, cameraVars, sessionVars, objectVars>>
    BY <1>3, Zenon DEF Races, DoubleReset, DoubleJoin
  <2>. QED BY <1>4, <2>1
              DEF AnswerInv, HasStopped, HeldInv, InsideInv, SessionInv, StopPath, StopReturns,
                  TypeOK
<1>. QED
  BY <1>1, <1>2, <1>3, <1>4, AnswerEnvironment, AnswerHandling, AnswerShared, AnswerDrain, AnswerMain
     DEF Next

-----------------------------------------------------------------------------
(* The theorems of one browser and a camera pipeline that posts no error.   *)

LEMMA SoleInit == Init => SoleInv
<1>1. Init => OnlyDrainCrashes
  BY DEF Init, OnlyDrainCrashes
<1>. QED BY <1>1, CameraInit, HeldInit, BegunInit, PushInit, AnswerInit DEF SoleInv

LEMMA SoleStep ==
  ASSUME OneBrowser, NoBusError, TypeOK, OwnershipInv, SoleInv, [Next]_vars
  PROVE  SoleInv'
<1>1. /\ MainInv /\ LockInv /\ RecorderInv
      /\ CameraInv /\ HeldInv /\ BegunInv /\ PushInv /\ AnswerInv /\ OnlyDrainCrashes
  BY DEF OwnershipInv, SoleInv
<1>2. CameraInv' /\ HeldInv'
  BY <1>1, CameraStep, HeldStep
<1>3. BegunInv' /\ PushInv' /\ OnlyDrainCrashes'
  BY <1>1, BegunStep, PushStep, CrashStep
<1>4. \A r \in Ids : ended[r] # "no" => ended'[r] = ended[r]
  BY <1>1, EndedStep
<1>5. AnswerInv'
  BY <1>1, <1>4, AnswerStep
<1>. QED BY <1>2, <1>3, <1>5 DEF SoleInv

\* What no step breaks while one browser commands a camera that does not fail.
THEOREM SoleHolds == ASSUME OneBrowser, NoBusError PROVE Spec => [](TypeOK /\ OwnershipInv /\ SoleInv)
<1>1. Init => TypeOK /\ OwnershipInv /\ SoleInv
  BY TypeInit, OrderInit, LockInit, RecorderInit, SoleInit DEF OwnershipInv
<1>2. TypeOK /\ OwnershipInv /\ SoleInv /\ [Next]_vars => (TypeOK /\ OwnershipInv /\ SoleInv)'
  <2>. SUFFICES ASSUME TypeOK, OwnershipInv, SoleInv, [Next]_vars
                PROVE  TypeOK' /\ OwnershipInv' /\ SoleInv'
    OBVIOUS
  <2>1. TypeOK' /\ MainInv' /\ LockInv' /\ RecorderInv'
    BY TypeStep, OrderStep, LockStep, RecorderStep DEF OwnershipInv
  <2>. QED BY <2>1, SoleStep DEF OwnershipInv
<1>. QED BY <1>1, <1>2, PTL DEF Spec

\* With one browser the process dies, if it does, only of the drain thread's use of
\* a Recorder that stop_recording() ended.
THEOREM CrashesOfDrainOnly == ASSUME OneBrowser, NoBusError PROVE Spec => []OnlyDrainCrashes
<1>1. SoleInv => OnlyDrainCrashes
  BY DEF SoleInv
<1>. QED BY <1>1, SoleHolds, PTL

\* With one browser is_recording() tells the truth about the camera and the Recorder,
\* and the name that is reported, if it is not empty, is that of the file recorded into.
THEOREM RecordingTold == ASSUME OneBrowser, NoBusError PROVE Spec => []RecordingIsLive
<1>1. SoleInv => RecordingIsLive
  <2>. SUFFICES ASSUME SoleInv, recording PROVE RecordingIsLive
    BY DEF RecordingIsLive
  <2>1. /\ running /\ recorder # None /\ rstate[recorder] = "recording"
        /\ curFile \in {None, rfile[recorder]} /\ rcfg[recorder] = pipeCfg
    BY DEF SoleInv, HeldInv, SessionInv
  <2>2. pipeline \in playing
    BY <2>1 DEF SoleInv, CameraInv, PhaseInv, SteadyInv, Up, Down
  <2>. QED BY <2>1, <2>2 DEF RecordingIsLive
<1>. QED BY <1>1, SoleHolds, PTL

\* With one browser a frame is pushed into a Recorder of its own size.
THEOREM FramesFit == ASSUME OneBrowser, NoBusError PROVE Spec => []FramesFitRecording
<1>1. SoleInv => FramesFitRecording
  BY DEF SoleInv, PushInv, FramesFitRecording
<1>. QED BY <1>1, SoleHolds, PTL

\* With one browser only the current pipeline is playing.
THEOREM CameraHeldOnce == ASSUME OneBrowser, NoBusError PROVE Spec => []OneCamera
<1>1. SoleInv => OneCamera
  BY DEF SoleInv, CameraInv, PhaseInv, SteadyInv, Up, Down, Phases, OneCamera
<1>. QED BY <1>1, SoleHolds, PTL

\* With one browser the pipeline outlives the threads that use it.
THEOREM ThreadsInside == ASSUME OneBrowser, NoBusError PROVE Spec => []ThreadsInsidePipeline
<1>1. SoleInv => ThreadsInsidePipeline
  BY DEF SoleInv, CameraInv, PhaseInv, SteadyInv, Up, Down, Phases, ThreadsInsidePipeline
<1>. QED BY <1>1, SoleHolds, PTL

\* With one browser stop() joins only a thread that has been told to end.
THEOREM JoinsEnd == ASSUME OneBrowser, NoBusError PROVE Spec => []JoinsReturn
<1>1. SoleInv => JoinsReturn
  BY DEF SoleInv, CameraInv, PhaseInv, JoinsReturn
<1>. QED BY <1>1, SoleHolds, PTL

\* With one browser every recording that was begun has been ended when record_stop
\* answers "ok", and a name in that answer is that of a file recorded into.
THEOREM OkStopEnded == ASSUME OneBrowser, NoBusError PROVE Spec => []OkStopMeansEnded
<1>1. SoleInv => OkStopMeansEnded
  BY DEF SoleInv, AnswerInv, HasStopped, OkStopMeansEnded
<1>. QED BY <1>1, SoleHolds, PTL

\* With one browser nothing is left at exit: no MP4 that was not ended, no Recorder, no
\* mutex held, no pipeline playing and no thread running.
THEOREM NothingLeft == ASSUME OneBrowser, NoBusError PROVE Spec => []NothingLeftBehind
<1>1. TypeOK /\ OwnershipInv /\ SoleInv => NothingLeftBehind
  <2>. SUFFICES ASSUME TypeOK, OwnershipInv, SoleInv, At(Main, "exit")
                PROVE  NothingLeftBehind
    BY DEF NothingLeftBehind
  <2>1. \A u \in Actors : pc[u] \in {"offline", "exit"}
    BY DEF OwnershipInv, MainInv
  <2>2. Down
    BY <2>1 DEF SoleInv, CameraInv, RunningInv, SteadyInv, Phases, Up
  <2>3. recorder = None /\ ~recording
    BY DEF SoleInv, HeldInv, SessionInv
  <2>4. \A r \in Ids : rstate[r] \in {"unborn", "freed"} /\ rmtx[r] = Unlocked
    BY <2>1, <2>3 DEF SoleInv, HeldInv, RestInv, Ids
  <2>5. NoneOpen
    BY <2>4 DEF SoleInv, BegunInv, NoneOpen
  <2>. QED BY <2>2, <2>3, <2>4, <2>5 DEF Down, NothingLeftBehind
<1>. QED BY <1>1, SoleHolds, PTL
=============================================================================
