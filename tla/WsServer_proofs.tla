--------------------------- MODULE WsServer_proofs ---------------------------
(***************************************************************************)
(* Proofs about WsServer, for any number of browsers and any messages: the *)
(* pointers broadcast() uses are of live WebSockets, and nobody pushes     *)
(* once main has stopped the battery monitor.                              *)
(***************************************************************************)
EXTENDS WsServer, FiniteSetTheorems, TLAPS

USE NamesDistinct, MessagesOK
    DEF Pushers, Threads, HandlerLabels, PusherLabels, MessageKinds, At, Goto, connVars, flagVars

MainLabels    == {"loop", "lock", "push", "sending", "battery_stop", "server_stop", "join", "done"}
BatteryLabels == {"loop", "lock", "push", "sending", "ended"}

\* Each kind of thread keeps to the labels of its own code.
LabelInv ==
    /\ \A h \in Handlers : pc[h] \in HandlerLabels
    /\ pc[Main] \in MainLabels
    /\ pc[Battery] \in BatteryLabels

\* The handlers between ++client_count_ and --client_count_: finitely many, whatever
\* Handlers is, since each was accepted by a step of its own.
Counted == {h \in Handlers : pc[h] \notin {"none", "destroy"}}
CountInv == IsFiniteSet(Counted) /\ count = Cardinality(Counted)

\* TypeOK but for count, which is a natural number because it counts.
PartsOK ==
    /\ pc \in [Threads -> HandlerLabels \cup PusherLabels]
    /\ clients \subseteq Handlers
    /\ cmutex \in Threads \cup {Free}
    /\ wmutex \in [Handlers -> Threads \cup {Free}]
    /\ closed \in [Handlers -> BOOLEAN]
    /\ msg \in [Handlers -> MessageKinds]
    /\ todo \in [Pushers -> SUBSET Handlers]
    /\ listening \in BOOLEAN /\ abort \in BOOLEAN /\ quit \in BOOLEAN
    /\ terminated \in BOOLEAN

TypeInv == PartsOK /\ LabelInv /\ CountInv

-----------------------------------------------------------------------------
LEMMA InitType == Init => TypeInv
<1>. SUFFICES ASSUME Init PROVE TypeInv
  OBVIOUS
<1>1. PartsOK
  BY DEF Init, PartsOK
<1>2. LabelInv
  BY DEF Init, LabelInv, MainLabels, BatteryLabels
<1>3. Counted = {}
  BY DEF Init, Counted
<1>4. CountInv
  BY <1>3, FS_EmptySet DEF Init, CountInv
<1>. QED BY <1>1, <1>2, <1>4 DEF TypeInv

LEMMA HandlerParts ==
  ASSUME PartsOK, LabelInv, NEW h \in Handlers, Serving(h) \/ Browser(h)
  PROVE  PartsOK' /\ LabelInv'
<1>. USE DEF PartsOK, LabelInv, MainLabels, BatteryLabels
<1>1. CASE AddClient(h) \/ RemoveClient(h)
  BY <1>1 DEF AddClient, RemoveClient
<1>2. CASE Reply(h) \/ Replied(h)
  BY <1>2 DEF Reply, Replied
<1>3. CASE Dispatch(h)
  BY <1>3 DEF Dispatch
<1>4. CASE DispatchThrows(h)
  BY <1>4 DEF DispatchThrows
<1>5. CASE Uncount(h) \/ DestroySocket(h)
  BY <1>5 DEF Uncount, DestroySocket
<1>6. CASE Accept(h) \/ ReadFails(h)
  <2>1. closed' \in [Handlers -> BOOLEAN]
    BY <1>6 DEF Accept, ReadFails
  <2>. QED BY <1>6, <2>1 DEF Accept, ReadFails
<1>7. ASSUME NEW m \in Messages, ReadText(h, m) PROVE PartsOK' /\ LabelInv'
  BY <1>7 DEF ReadText
<1>. QED BY <1>1, <1>2, <1>3, <1>4, <1>5, <1>6, <1>7 DEF Serving, Browser

LEMMA PusherParts ==
  ASSUME PartsOK, LabelInv, NEW b \in Pushers, Pushing(b)
  PROVE  PartsOK' /\ LabelInv'
<1>. USE DEF PartsOK, LabelInv, MainLabels, BatteryLabels
<1>1. CASE LockClients(b) \/ UnlockClients(b)
  BY <1>1 DEF LockClients, UnlockClients
<1>2. ASSUME NEW h \in Handlers, Skip(b, h) PROVE PartsOK' /\ LabelInv'
  BY <1>2 DEF Skip
<1>3. ASSUME NEW h \in Handlers, BeginSend(b, h) PROVE PartsOK' /\ LabelInv'
  BY <1>3 DEF BeginSend
<1>4. ASSUME NEW h \in Handlers, EndSend(b, h) PROVE PartsOK' /\ LabelInv'
  BY <1>4 DEF EndSend
<1>. QED BY <1>1, <1>2, <1>3, <1>4 DEF Pushing

LEMMA LoopParts ==
  ASSUME PartsOK, LabelInv, Poll \/ PushStatus \/ Signal \/ Looping
  PROVE  PartsOK' /\ LabelInv'
<1>. USE DEF PartsOK, LabelInv, MainLabels, BatteryLabels
<1>1. CASE Poll \/ PushStatus \/ Signal
  BY <1>1 DEF Poll, PushStatus, Signal
<1>2. CASE BatteryEnds \/ StopBattery \/ JoinBattery
  BY <1>2 DEF BatteryEnds, StopBattery, JoinBattery
<1>3. CASE StopServer \/ JoinServer
  BY <1>3 DEF StopServer, JoinServer
<1>. QED BY <1>1, <1>2, <1>3 DEF Looping

\* Only a handler's own accept and its own countdown change who is counted, by one.
LEMMA StepCount ==
  ASSUME TypeInv, [Next]_vars
  PROVE  CountInv'
<1>. USE DEF TypeInv, PartsOK, LabelInv, MainLabels, BatteryLabels
<1>1. ASSUME NEW h \in Handlers, Accept(h) PROVE CountInv'
  <2>1. Counted' = Counted \cup {h} /\ h \notin Counted
    BY <1>1 DEF Accept, Counted
  <2>2. count' = count + 1
    BY <1>1 DEF Accept
  <2>. QED BY <2>1, <2>2, FS_AddElement DEF CountInv
<1>2. ASSUME NEW h \in Handlers, Uncount(h) PROVE CountInv'
  <2>1. Counted' = Counted \ {h} /\ h \in Counted
    BY <1>2 DEF Uncount, Counted
  <2>2. count' = count - 1
    BY <1>2 DEF Uncount
  <2>. QED BY <2>1, <2>2, FS_RemoveElement DEF CountInv
<1>3. ASSUME Counted' = Counted, count' = count PROVE CountInv'
  BY <1>3 DEF CountInv
<1>4. ASSUME NEW h \in Handlers, Serving(h) \/ ReadFails(h) PROVE CountInv'
  <2>1. CASE Uncount(h)
    BY <1>2, <2>1
  <2>2. CASE AddClient(h) \/ RemoveClient(h) \/ ReadFails(h) \/ DestroySocket(h)
    BY <1>3, <2>2 DEF AddClient, RemoveClient, ReadFails, DestroySocket, Counted
  <2>3. CASE Reply(h) \/ Replied(h) \/ Dispatch(h) \/ DispatchThrows(h)
    BY <1>3, <2>3 DEF Reply, Replied, Dispatch, DispatchThrows, Counted
  <2>. QED BY <1>4, <2>1, <2>2, <2>3 DEF Serving
<1>5. ASSUME NEW h \in Handlers, NEW m \in Messages, ReadText(h, m) PROVE CountInv'
  BY <1>3, <1>5 DEF ReadText, Counted
<1>6. ASSUME NEW b \in Pushers, Pushing(b) PROVE CountInv'
  <2>1. count' = count /\ \A h \in Handlers : pc'[h] = pc[h]
    BY <1>6 DEF Pushing, LockClients, UnlockClients, Skip, BeginSend, EndSend
  <2>2. Counted' = Counted
    BY <2>1 DEF Counted
  <2>. QED BY <1>3, <2>1, <2>2
<1>7. CASE Poll \/ PushStatus \/ Signal \/ Looping
  <2>1. count' = count /\ \A h \in Handlers : pc'[h] = pc[h]
    BY <1>7 DEF Poll, PushStatus, Signal, Looping, BatteryEnds, StopBattery, JoinBattery,
                StopServer, JoinServer
  <2>2. Counted' = Counted
    BY <2>1 DEF Counted
  <2>. QED BY <1>3, <2>1, <2>2
<1>8. CASE UNCHANGED vars
  BY <1>3, <1>8 DEF vars, Counted
<1>. QED BY <1>1, <1>4, <1>5, <1>6, <1>7, <1>8 DEF Next, Browser

LEMMA StepType == TypeInv /\ [Next]_vars => TypeInv'
<1>. SUFFICES ASSUME TypeInv, [Next]_vars PROVE TypeInv'
  OBVIOUS
<1>1. CountInv'
  BY StepCount
<1>2. PartsOK' /\ LabelInv'
  <2>1. CASE UNCHANGED vars
    BY <2>1 DEF TypeInv, PartsOK, LabelInv, vars
  <2>. QED BY <2>1, HandlerParts, PusherParts, LoopParts DEF TypeInv, Next
<1>. QED BY <1>1, <1>2 DEF TypeInv

LEMMA TypeInvHolds == Spec => []TypeInv
<1>. QED BY InitType, StepType, PTL DEF Spec

\* The variables of the server keep their types; client_count_, a counter that handlers
\* raise and lower, is never negative however many connect and go.
THEOREM TypeCorrect == Spec => []TypeOK
<1>1. TypeInv => TypeOK
  BY FS_CardinalityType DEF TypeInv, PartsOK, CountInv, TypeOK
<1>. QED BY <1>1, TypeInvHolds, PTL

-----------------------------------------------------------------------------
(* clients_mutex_: who holds it is who is inside broadcast()               *)

Broadcasting(b) == pc[b] \in {"push", "sending"}

\* The mutex is held exactly inside broadcast(), and what broadcast() has yet to come
\* to is among the registered clients, of handlers that have not returned.
MutexInv ==
    /\ cmutex \in Pushers \cup {Free}
    /\ \A b \in Pushers : cmutex = b <=> Broadcasting(b)
    /\ \A b \in Pushers : todo[b] # {} => Broadcasting(b)
    /\ \A b \in Pushers : todo[b] \subseteq clients
    /\ \A h \in clients : Live(h)

\* A WebSocket's write mutex is held by its own handler or by a pusher, which then is
\* in the middle of a send to that WebSocket and to no other.
WriteInv ==
    /\ \A h \in Handlers : wmutex[h] \in Pushers \cup {h, Free}
    /\ \A h \in Handlers, b \in Pushers : wmutex[h] = b => pc[b] = "sending"
    /\ \A h, g \in Handlers : wmutex[h] = wmutex[g] /\ wmutex[h] \in Pushers => h = g

\* main goes past battery.stop() only by joining the battery thread.
JoinInv == pc[Main] \in {"server_stop", "join", "done"} => pc[Battery] = "ended"

LEMMA StepMutex == TypeInv /\ MutexInv /\ [Next]_vars => MutexInv'
<1>. SUFFICES ASSUME TypeInv, MutexInv, [Next]_vars PROVE MutexInv'
  OBVIOUS
<1>. USE DEF TypeInv, PartsOK, LabelInv, MainLabels, BatteryLabels, MutexInv, Broadcasting, Live
<1>1. ASSUME NEW h \in Handlers, AddClient(h) PROVE MutexInv'
  BY <1>1 DEF AddClient
<1>2. ASSUME NEW h \in Handlers, RemoveClient(h) PROVE MutexInv'
  BY <1>2 DEF RemoveClient         \* the mutex is free: nobody has pointers left
<1>3. ASSUME NEW h \in Handlers, Reply(h) \/ Replied(h) \/ Dispatch(h) \/ DispatchThrows(h)
      PROVE  MutexInv'
  BY <1>3 DEF Reply, Replied, Dispatch, DispatchThrows
<1>4. ASSUME NEW h \in Handlers, Uncount(h) \/ DestroySocket(h) PROVE MutexInv'
  BY <1>4 DEF Uncount, DestroySocket
<1>5. ASSUME NEW h \in Handlers, Accept(h) \/ ReadFails(h) PROVE MutexInv'
  BY <1>5 DEF Accept, ReadFails
<1>6. ASSUME NEW h \in Handlers, NEW m \in Messages, ReadText(h, m) PROVE MutexInv'
  BY <1>6 DEF ReadText
<1>7. ASSUME NEW b \in Pushers, LockClients(b) PROVE MutexInv'
  BY <1>7 DEF LockClients
<1>8. ASSUME NEW b \in Pushers, UnlockClients(b) PROVE MutexInv'
  BY <1>8 DEF UnlockClients
<1>9. ASSUME NEW b \in Pushers, NEW h \in Handlers, Skip(b, h) PROVE MutexInv'
  BY <1>9 DEF Skip
<1>10. ASSUME NEW b \in Pushers, NEW h \in Handlers, BeginSend(b, h) PROVE MutexInv'
  BY <1>10 DEF BeginSend
<1>11. ASSUME NEW b \in Pushers, NEW h \in Handlers, EndSend(b, h) PROVE MutexInv'
  BY <1>11 DEF EndSend
<1>12. CASE Poll \/ PushStatus \/ Signal
  BY <1>12 DEF Poll, PushStatus, Signal
<1>13. CASE Looping
  BY <1>13 DEF Looping, BatteryEnds, StopBattery, JoinBattery, StopServer, JoinServer
<1>14. CASE UNCHANGED vars
  BY <1>14 DEF vars
<1>. QED
  BY <1>1, <1>2, <1>3, <1>4, <1>5, <1>6, <1>7, <1>8, <1>9, <1>10, <1>11, <1>12, <1>13, <1>14
  DEF Next, Serving, Browser, Pushing

LEMMA StepWrite == TypeInv /\ WriteInv /\ JoinInv /\ [Next]_vars => WriteInv' /\ JoinInv'
<1>. SUFFICES ASSUME TypeInv, WriteInv, JoinInv, [Next]_vars PROVE WriteInv' /\ JoinInv'
  OBVIOUS
<1>. USE DEF TypeInv, PartsOK, LabelInv, MainLabels, BatteryLabels, WriteInv, JoinInv
<1>1. ASSUME NEW h \in Handlers, Reply(h) \/ Replied(h) PROVE WriteInv' /\ JoinInv'
  BY <1>1 DEF Reply, Replied
<1>2. ASSUME NEW h \in Handlers,
             AddClient(h) \/ RemoveClient(h) \/ Dispatch(h) \/ DispatchThrows(h)
      PROVE  WriteInv' /\ JoinInv'
  BY <1>2 DEF AddClient, RemoveClient, Dispatch, DispatchThrows
<1>3. ASSUME NEW h \in Handlers, Uncount(h) \/ DestroySocket(h) \/ Accept(h) \/ ReadFails(h)
      PROVE  WriteInv' /\ JoinInv'
  BY <1>3 DEF Uncount, DestroySocket, Accept, ReadFails
<1>4. ASSUME NEW h \in Handlers, NEW m \in Messages, ReadText(h, m) PROVE WriteInv' /\ JoinInv'
  BY <1>4 DEF ReadText
<1>5. ASSUME NEW b \in Pushers, LockClients(b) \/ UnlockClients(b) PROVE WriteInv' /\ JoinInv'
  BY <1>5 DEF LockClients, UnlockClients
<1>6. ASSUME NEW b \in Pushers, NEW h \in Handlers, Skip(b, h) PROVE WriteInv' /\ JoinInv'
  BY <1>6 DEF Skip
<1>7. ASSUME NEW b \in Pushers, NEW h \in Handlers, BeginSend(b, h) PROVE WriteInv' /\ JoinInv'
  BY <1>7 DEF BeginSend
<1>8. ASSUME NEW b \in Pushers, NEW h \in Handlers, EndSend(b, h) PROVE WriteInv' /\ JoinInv'
  BY <1>8 DEF EndSend
<1>9. CASE Poll \/ PushStatus \/ Signal
  BY <1>9 DEF Poll, PushStatus, Signal
<1>10. CASE Looping
  BY <1>10 DEF Looping, BatteryEnds, StopBattery, JoinBattery, StopServer, JoinServer
<1>11. CASE UNCHANGED vars
  BY <1>11 DEF vars
<1>. QED
  BY <1>1, <1>2, <1>3, <1>4, <1>5, <1>6, <1>7, <1>8, <1>9, <1>10, <1>11
  DEF Next, Serving, Browser, Pushing

LEMMA InitInv == Init => MutexInv /\ WriteInv /\ JoinInv
<1>. QED BY DEF Init, MutexInv, WriteInv, JoinInv, Broadcasting

LEMMA InvHolds == Spec => [](MutexInv /\ WriteInv /\ JoinInv)
<1>. QED BY InitInv, TypeInvHolds, StepMutex, StepWrite, PTL DEF Spec

-----------------------------------------------------------------------------
\* With any number of browsers coming and going, every raw pointer in clients_, and
\* every one broadcast() still has to visit, is of a WebSocket whose handler has not
\* returned: a handler cannot unregister while a broadcast has the mutex.
THEOREM PointersLive == Spec => []PointersAreLive
<1>1. MutexInv => PointersAreLive
  BY DEF MutexInv, PointersAreLive
<1>. QED BY <1>1, InvHolds, PTL

\* Once main has stopped the battery monitor nobody is inside broadcast() and nobody
\* but a handler writes to its WebSocket.
THEOREM NobodyPushesAfterStop == Spec => []NoPushAfterStop
<1>1. TypeInv /\ MutexInv /\ WriteInv /\ JoinInv => NoPushAfterStop
  <2>. SUFFICES ASSUME TypeInv, MutexInv, WriteInv, JoinInv,
                       pc[Main] \in {"server_stop", "join", "done"}
                PROVE  /\ At(Battery, "ended")
                       /\ cmutex = Free
                       /\ \A h \in Handlers : wmutex[h] \in {Free, h}
    BY DEF NoPushAfterStop
  <2>1. pc[Battery] = "ended"
    BY DEF JoinInv
  <2>2. cmutex = Free
    BY <2>1 DEF MutexInv, Broadcasting
  <2>3. \A h \in Handlers : wmutex[h] \notin Pushers
    BY <2>1 DEF WriteInv
  <2>4. \A h \in Handlers : wmutex[h] \in {Free, h}
    BY <2>3 DEF WriteInv
  <2>. QED BY <2>1, <2>2, <2>4
<1>. QED BY <1>1, TypeInvHolds, InvHolds, PTL
=============================================================================
