------------------------------ MODULE WsServer ------------------------------
(***************************************************************************)
(* The WebSocket server (ws_server.cpp), the dispatcher its handlers call  *)
(* (command_dispatcher.cpp), and the two threads that push to every        *)
(* browser through broadcast(): main from its loop and the battery         *)
(* monitor's polling thread (battery_monitor.cpp).                         *)
(*                                                                         *)
(* A connection's WebSocket object lives on the stack of httplib's handler *)
(* invocation; clients_ holds raw pointers to them, so what is at stake is *)
(* that no thread uses a pointer after its handler has returned, that      *)
(* nobody waits for ever on clients_mutex_, and what stop() waits for.     *)
(* httplib's WebSocket (closed_, write_mutex_), its worker pool and its    *)
(* listening socket are modelled from what the server relies on.           *)
(***************************************************************************)
EXTENDS Integers, FiniteSets

CONSTANTS
    Handlers,        \* one worker of httplib's pool per possible connection
    Main, Battery,   \* the threads that broadcast
    Free,            \* an unlocked mutex
    Messages         \* the kinds of text message the browsers send

MessageKinds == {"command", "unknown", "not_json", "no_cmd", "not_an_object", "cmd_not_text"}

ASSUME NamesDistinct ==
    /\ Main \notin Handlers /\ Battery \notin Handlers /\ Main # Battery
    /\ Free \notin Handlers \cup {Main, Battery}
ASSUME MessagesOK == Messages \subseteq MessageKinds

Pushers == {Main, Battery}
Threads == Handlers \cup Pushers

VARIABLES
    pc,         \* [Threads -> label]
    clients,    \* clients_
    cmutex,     \* owner of clients_mutex_
    wmutex,     \* [Handlers -> owner of that WebSocket's write_mutex_]
    closed,     \* [Handlers -> closed_ of that WebSocket]
    msg,        \* [Handlers -> the message being handled]
    todo,       \* [Pushers -> the clients a broadcast has not come to yet]
    count,      \* client_count_
    listening,  \* the server socket is open
    abort,      \* BatteryMonitor::abort_
    quit,       \* main's loop condition is false: a signal, or the camera stopped
    terminated  \* an exception left a handler thread

connVars == <<clients, wmutex, closed, msg, count>>
flagVars == <<listening, abort, quit, terminated>>
vars == <<pc, connVars, cmutex, todo, flagVars>>

HandlerLabels == {"none", "add", "read", "dispatch", "reply", "replying",
                  "remove", "uncount", "destroy"}
PusherLabels  == {"loop", "lock", "push", "sending", "ended",
                  "battery_stop", "server_stop", "join", "done"}

TypeOK ==
    /\ pc \in [Threads -> HandlerLabels \cup PusherLabels]
    /\ clients \subseteq Handlers
    /\ cmutex \in Threads \cup {Free}
    /\ wmutex \in [Handlers -> Threads \cup {Free}]
    /\ closed \in [Handlers -> BOOLEAN]
    /\ msg \in [Handlers -> MessageKinds]
    /\ todo \in [Pushers -> SUBSET Handlers]
    /\ count \in Nat
    /\ listening \in BOOLEAN /\ abort \in BOOLEAN /\ quit \in BOOLEAN
    /\ terminated \in BOOLEAN

\* main has started the battery monitor, if the sensor answered, and the server.
Init ==
    /\ pc \in [Threads -> {"none", "loop", "ended"}]
    /\ \A h \in Handlers : pc[h] = "none"
    /\ pc[Main] = "loop"
    /\ pc[Battery] \in {"loop", "ended"}
    /\ clients = {}
    /\ cmutex = Free
    /\ wmutex = [h \in Handlers |-> Free]
    /\ closed = [h \in Handlers |-> TRUE]
    /\ msg = [h \in Handlers |-> "command"]
    /\ todo = [b \in Pushers |-> {}]
    /\ count = 0
    /\ listening = TRUE /\ abort = FALSE /\ quit = FALSE /\ terminated = FALSE

At(t, label) == pc[t] = label
Goto(t, label) == pc' = [pc EXCEPT ![t] = label]

-----------------------------------------------------------------------------
(* The handler of one connection                                           *)

Accept(h) ==
    /\ At(h, "none")
    /\ listening
    /\ closed' = [closed EXCEPT ![h] = FALSE]
    /\ count' = count + 1
    /\ Goto(h, "add")
    /\ UNCHANGED <<clients, cmutex, wmutex, msg, todo, flagVars>>

AddClient(h) ==
    /\ At(h, "add")
    /\ cmutex = Free
    /\ clients' = clients \cup {h}
    /\ Goto(h, "read")
    /\ UNCHANGED <<cmutex, wmutex, closed, msg, count, todo, flagVars>>

ReadText(h, m) ==
    /\ At(h, "read")
    /\ ~closed[h]
    /\ msg' = [msg EXCEPT ![h] = m]
    /\ Goto(h, "dispatch")
    /\ UNCHANGED <<clients, cmutex, wmutex, closed, count, todo, flagVars>>

\* read() fails: the browser closed the connection, or it was lost.
ReadFails(h) ==
    /\ At(h, "read")
    /\ closed' = [closed EXCEPT ![h] = TRUE]
    /\ Goto(h, "remove")
    /\ UNCHANGED <<clients, cmutex, wmutex, msg, count, todo, flagVars>>

\* dispatch() answers what it cannot parse, does not know or what throws in its
\* handler; only msg.value("cmd", "") is outside its try blocks.
Throws == {"not_an_object", "cmd_not_text"}

Dispatch(h) ==
    /\ At(h, "dispatch")
    /\ msg[h] \notin Throws
    /\ Goto(h, "reply")
    /\ UNCHANGED <<connVars, cmutex, todo, flagVars>>

DispatchThrows(h) ==
    /\ At(h, "dispatch")
    /\ msg[h] \in Throws
    /\ terminated' = TRUE
    /\ UNCHANGED <<pc, connVars, cmutex, todo, listening, abort, quit>>

Reply(h) ==
    /\ At(h, "reply")
    /\ wmutex[h] = Free
    /\ wmutex' = [wmutex EXCEPT ![h] = h]
    /\ Goto(h, "replying")
    /\ UNCHANGED <<clients, cmutex, closed, msg, count, todo, flagVars>>

Replied(h) ==
    /\ At(h, "replying")
    /\ wmutex' = [wmutex EXCEPT ![h] = Free]
    /\ Goto(h, "read")
    /\ UNCHANGED <<clients, cmutex, closed, msg, count, todo, flagVars>>

RemoveClient(h) ==
    /\ At(h, "remove")
    /\ cmutex = Free
    /\ clients' = clients \ {h}
    /\ Goto(h, "uncount")
    /\ UNCHANGED <<cmutex, wmutex, closed, msg, count, todo, flagVars>>

Uncount(h) ==
    /\ At(h, "uncount")
    /\ count' = count - 1
    /\ Goto(h, "destroy")
    /\ UNCHANGED <<clients, cmutex, wmutex, closed, msg, todo, flagVars>>

\* The handler returns and the WebSocket object with it.
DestroySocket(h) ==
    /\ At(h, "destroy")
    /\ Goto(h, "none")
    /\ UNCHANGED <<connVars, cmutex, todo, flagVars>>

-----------------------------------------------------------------------------
(* broadcast(), called by main and by the battery monitor                  *)

\* Mutant: broadcast() copies clients_ and does not keep the mutex.
LockClientsBriefly(b) ==
    /\ At(b, "lock")
    /\ cmutex = Free
    /\ todo' = [todo EXCEPT ![b] = clients]
    /\ Goto(b, "push")
    /\ UNCHANGED <<connVars, cmutex, flagVars>>

LockClients(b) ==
    /\ At(b, "lock")
    /\ cmutex = Free
    /\ cmutex' = b
    /\ todo' = [todo EXCEPT ![b] = clients]
    /\ Goto(b, "push")
    /\ UNCHANGED <<connVars, flagVars>>

Skip(b, h) ==
    /\ At(b, "push")
    /\ h \in todo[b]
    /\ closed[h]
    /\ todo' = [todo EXCEPT ![b] = @ \ {h}]
    /\ UNCHANGED <<pc, connVars, cmutex, flagVars>>

BeginSend(b, h) ==
    /\ At(b, "push")
    /\ h \in todo[b]
    /\ wmutex[h] = Free
    /\ wmutex' = [wmutex EXCEPT ![h] = b]
    /\ Goto(b, "sending")
    /\ UNCHANGED <<clients, cmutex, closed, msg, count, todo, flagVars>>

\* Mutant: the write mutex is not released after a push.
EndSendKeepsLock(b, h) ==
    /\ At(b, "sending")
    /\ wmutex[h] = b
    /\ todo' = [todo EXCEPT ![b] = @ \ {h}]
    /\ Goto(b, "push")
    /\ UNCHANGED <<connVars, cmutex, flagVars>>

\* The frame is in the socket, or the write timed out on a browser that does not
\* read, or the WebSocket was closed before write_mutex_ was taken.
EndSend(b, h) ==
    /\ At(b, "sending")
    /\ wmutex[h] = b
    /\ wmutex' = [wmutex EXCEPT ![h] = Free]
    /\ todo' = [todo EXCEPT ![b] = @ \ {h}]
    /\ Goto(b, "push")
    /\ UNCHANGED <<clients, cmutex, closed, msg, count, flagVars>>

UnlockClients(b) ==
    /\ At(b, "push")
    /\ todo[b] = {}
    /\ cmutex' = Free
    /\ Goto(b, "loop")
    /\ UNCHANGED <<connVars, todo, flagVars>>

-----------------------------------------------------------------------------
(* BatteryMonitor::thread_fn and main's loop and shutdown                  *)

\* A reading every 5 s, pushed to the browsers.
Poll ==
    /\ At(Battery, "loop")
    /\ ~abort
    /\ Goto(Battery, "lock")
    /\ UNCHANGED <<connVars, cmutex, todo, flagVars>>

BatteryEnds ==
    /\ At(Battery, "loop")
    /\ abort
    /\ Goto(Battery, "ended")
    /\ UNCHANGED <<connVars, cmutex, todo, flagVars>>

\* recording_status or storage_warning.
PushStatus ==
    /\ At(Main, "loop")
    /\ ~quit
    /\ Goto(Main, "lock")
    /\ UNCHANGED <<connVars, cmutex, todo, flagVars>>

Signal ==
    /\ ~quit
    /\ quit' = TRUE
    /\ UNCHANGED <<pc, connVars, cmutex, todo, listening, abort, terminated>>

\* Mutant: battery.stop() does not set abort_.
StopBatterySilently ==
    /\ At(Main, "loop")
    /\ quit
    /\ Goto(Main, "battery_stop")
    /\ UNCHANGED <<connVars, cmutex, todo, flagVars>>

StopBattery ==
    /\ At(Main, "loop")
    /\ quit
    /\ abort' = TRUE
    /\ Goto(Main, "battery_stop")
    /\ UNCHANGED <<connVars, cmutex, todo, listening, quit, terminated>>

\* Mutant: the battery thread is not joined.
JoinBatteryDropped ==
    /\ At(Main, "battery_stop")
    /\ Goto(Main, "server_stop")
    /\ UNCHANGED <<connVars, cmutex, todo, flagVars>>

JoinBattery ==
    /\ At(Main, "battery_stop")
    /\ At(Battery, "ended")
    /\ Goto(Main, "server_stop")
    /\ UNCHANGED <<connVars, cmutex, todo, flagVars>>

\* httplib's Server::stop() closes the listening socket and nothing else.
StopServer ==
    /\ At(Main, "server_stop")
    /\ listening' = FALSE
    /\ Goto(Main, "join")
    /\ UNCHANGED <<connVars, cmutex, todo, abort, quit, terminated>>

\* The server thread ends when the pool has joined every handler.
JoinServer ==
    /\ At(Main, "join")
    /\ \A h \in Handlers : At(h, "none")
    /\ Goto(Main, "done")
    /\ UNCHANGED <<connVars, cmutex, todo, flagVars>>

-----------------------------------------------------------------------------
Serving(h) == AddClient(h) \/ RemoveClient(h) \/ Reply(h) \/ Replied(h) \/ Dispatch(h)
                \/ DispatchThrows(h) \/ Uncount(h) \/ DestroySocket(h)

Browser(h) == Accept(h) \/ ReadFails(h) \/ \E m \in Messages : ReadText(h, m)

Pushing(b) == \/ LockClients(b) \/ UnlockClients(b)
              \/ \E h \in Handlers : Skip(b, h) \/ BeginSend(b, h) \/ EndSend(b, h)

Looping == BatteryEnds \/ StopBattery \/ JoinBattery \/ StopServer \/ JoinServer

Next ==
    \/ /\ ~terminated /\ ~At(Main, "done")
       /\ \/ \E h \in Handlers : Serving(h) \/ Browser(h)
          \/ \E b \in Pushers : Pushing(b)
          \/ Poll \/ PushStatus \/ Signal \/ Looping
    \/ (terminated \/ At(Main, "done")) /\ UNCHANGED vars

(* Every thread is scheduled, a send ends (httplib's write timeout), and a  *)
(* mutex that is free again and again is acquired: hence strong fairness.   *)
(* Nothing is assumed of the browsers, of signals or of the battery         *)
(* monitor's period.                                                        *)
Fairness ==
    /\ \A h \in Handlers : SF_vars(Serving(h))
    /\ \A b \in Pushers : SF_vars(Pushing(b))
    /\ WF_vars(Looping)

Spec == Init /\ [][Next]_vars
FairSpec == Spec /\ Fairness

-----------------------------------------------------------------------------
\* The raw pointers broadcast() has taken from clients_, and those still in it,
\* are of WebSocket objects whose handler has not returned.
Live(h) == pc[h] \in {"read", "dispatch", "reply", "replying", "remove"}
PointersAreLive ==
    /\ \A h \in clients : Live(h)
    /\ \A b \in Pushers : \A h \in todo[b] : Live(h)

\* main stops the battery monitor before the server, so that no thread broadcasts
\* into a server that is being stopped and destroyed.
NoPushAfterStop ==
    pc[Main] \in {"server_stop", "join", "done"} =>
        /\ At(Battery, "ended")
        /\ cmutex = Free
        /\ \A h \in Handlers : wmutex[h] \in {Free, h}

\* A command is answered although broadcasts go to the same WebSocket, unless a
\* message that dispatch() throws on has ended the process.
RequestsAnswered ==
    \A h \in Handlers : At(h, "dispatch") ~> At(h, "read") \/ terminated

\* main gets out of its shutdown sequence once every browser has gone: no handler
\* and no broadcast keeps clients_mutex_ or a write mutex for ever.
ShutdownCompletes ==
    <>[](\A h \in Handlers : At(h, "none")) => (quit ~> At(Main, "done") \/ terminated)

\* stop() closes all client connections (ws_server.h), so it returns.
StopCloses == At(Main, "join") ~> At(Main, "done")

\* dispatch() returns an error string for what it cannot handle
\* (command_dispatcher.h): it never throws into the handler.
DispatchReturns == ~terminated
=============================================================================
