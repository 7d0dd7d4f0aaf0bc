---------------------------- MODULE MjpegServer ----------------------------
(***************************************************************************)
(* The HTTP server that hands the latest JPEG frame to every browser       *)
(* (mjpeg_server.cpp).  GStreamer's streaming thread stores a frame and    *)
(* its sequence number under jpeg_mutex_ and then notifies jpeg_cv_; one   *)
(* worker thread per viewer waits for a sequence number above its own,     *)
(* copies the frame and writes it to its socket, so a slow viewer skips    *)
(* frames and never holds up the camera.                                   *)
(*                                                                         *)
(* Frames are numbered as the camera delivers them.  The worker pool, the  *)
(* listening socket and the chunked-response loop are httplib's: they are  *)
(* modelled from what the server relies on.                                *)
(***************************************************************************)
EXTENDS Integers, FiniteSets

CONSTANTS
    Viewers,     \* the connections that ask for /stream.mjpeg
    Camera,      \* GStreamer's streaming thread
    Free,        \* an unlocked mutex
    MaxFrames,   \* bound: frames the camera delivers
    Pools        \* sizes of the worker pool to consider

ASSUME NamesDistinct == Camera \notin Viewers /\ Free \notin Viewers /\ Free # Camera
ASSUME BoundsOK == MaxFrames \in Nat /\ Pools \subseteq Nat \ {0}

VARIABLES
    latest,      \* latest_jpeg_: the number of the frame stored there, 0 if empty
    seq,         \* latest_seq_
    mutex,       \* owner of jpeg_mutex_
    cpc,         \* label of on_jpeg_ready()
    pc,          \* [Viewers -> label of the worker]
    prev,        \* [Viewers -> prev_seq of the content provider]
    jpeg,        \* [Viewers -> the copy being written, 0 if none]
    shown,       \* [Viewers -> the last frame written to the socket completely]
    count,       \* client_count_
    pool,        \* how many workers httplib's pool has at most
    server,      \* the server thread: "off", "starting", "listening", "draining", "ended"
    stopper      \* the thread calling stop(): "no", "joining", "done"

frameVars  == <<latest, seq>>
viewerVars == <<pc, prev, jpeg, shown, count>>
serverVars == <<pool, server, stopper>>
vars == <<frameVars, mutex, cpc, viewerVars, serverVars>>

Frames == 0..MaxFrames

TypeOK ==
    /\ latest \in Frames /\ seq \in Frames
    /\ mutex \in Viewers \cup {Camera, Free}
    /\ cpc \in {"idle", "store", "number", "notify"}
    /\ pc \in [Viewers -> {"gone", "queued", "provide", "lock", "blocked", "copy", "write", "release"}]
    /\ prev \in [Viewers -> Frames]
    /\ jpeg \in [Viewers -> Frames]
    /\ shown \in [Viewers -> Frames]
    /\ count \in Nat
    /\ pool \in Pools
    /\ server \in {"off", "starting", "listening", "draining", "ended"}
    /\ stopper \in {"no", "joining", "done"}

Init ==
    /\ latest = 0 /\ seq = 0
    /\ mutex = Free
    /\ cpc = "idle"
    /\ pc = [v \in Viewers |-> "gone"]
    /\ prev = [v \in Viewers |-> 0]
    /\ jpeg = [v \in Viewers |-> 0]
    /\ shown = [v \in Viewers |-> 0]
    /\ count = 0
    /\ pool \in Pools
    /\ server = "off" /\ stopper = "no"

At(v, label) == pc[v] = label
Goto(v, label) == pc' = [pc EXCEPT ![v] = label]

-----------------------------------------------------------------------------
(* on_jpeg_ready()                                                         *)

LockJpeg ==
    /\ cpc = "idle"
    /\ seq < MaxFrames
    /\ mutex = Free
    /\ mutex' = Camera
    /\ cpc' = "store"
    /\ UNCHANGED <<frameVars, viewerVars, serverVars>>

Store ==
    /\ cpc = "store"
    /\ latest' = seq + 1
    /\ cpc' = "number"
    /\ UNCHANGED <<seq, mutex, viewerVars, serverVars>>

Number ==
    /\ cpc = "number"
    /\ seq' = seq + 1
    /\ mutex' = Free
    /\ cpc' = "notify"
    /\ UNCHANGED <<latest, viewerVars, serverVars>>

\* Mutant: notify_one() in place of notify_all().
NotifyOne ==
    /\ cpc = "notify"
    /\ IF \E v \in Viewers : At(v, "blocked")
       THEN \E v \in Viewers : At(v, "blocked") /\ Goto(v, "lock")
       ELSE UNCHANGED pc
    /\ cpc' = "idle"
    /\ UNCHANGED <<frameVars, mutex, prev, jpeg, shown, count, serverVars>>

Notify ==
    /\ cpc = "notify"
    /\ pc' = [v \in Viewers |-> IF At(v, "blocked") THEN "lock" ELSE pc[v]]
    /\ cpc' = "idle"
    /\ UNCHANGED <<frameVars, mutex, prev, jpeg, shown, count, serverVars>>

-----------------------------------------------------------------------------
(* A viewer's worker: handle_stream(), the content provider, wait_for_jpeg() *)

\* A connection waits in the pool's queue.
Connect(v) ==
    /\ At(v, "gone")
    /\ server = "listening"
    /\ Goto(v, "queued")
    /\ UNCHANGED <<frameVars, mutex, cpc, prev, jpeg, shown, count, serverVars>>

Serving == {v \in Viewers : pc[v] \notin {"gone", "queued"}}

\* A worker takes the connection, and keeps it as long as it lasts.
Begin(v) ==
    /\ At(v, "queued")
    /\ Cardinality(Serving) < pool
    /\ server = "listening"
    /\ count' = count + 1
    /\ prev' = [prev EXCEPT ![v] = 0]
    /\ shown' = [shown EXCEPT ![v] = 0]
    /\ Goto(v, "provide")
    /\ UNCHANGED <<frameVars, mutex, cpc, jpeg, serverVars>>

\* A worker takes a connection after the socket was closed: it serves no request.
Turn(v) ==
    /\ At(v, "queued")
    /\ Cardinality(Serving) < pool
    /\ server # "listening"
    /\ Goto(v, "gone")
    /\ UNCHANGED <<frameVars, mutex, cpc, prev, jpeg, shown, count, serverVars>>

\* Mutant: the content provider goes on while the server shuts down.
ProvideAlways(v) ==
    /\ At(v, "provide")
    /\ Goto(v, "lock")
    /\ UNCHANGED <<frameVars, mutex, cpc, prev, jpeg, shown, count, serverVars>>

\* httplib asks for the next chunk unless it is shutting down.
Provide(v) ==
    /\ At(v, "provide")
    /\ Goto(v, IF server = "listening" THEN "lock" ELSE "release")
    /\ UNCHANGED <<frameVars, mutex, cpc, prev, jpeg, shown, count, serverVars>>

\* The peer has gone away, or does not read: a write fails.
PeerLost(v) ==
    /\ pc[v] \in {"provide", "write"}    \* a queued one is not watched
    /\ Goto(v, "release")
    /\ jpeg' = [jpeg EXCEPT ![v] = 0]
    /\ UNCHANGED <<frameVars, mutex, cpc, prev, shown, count, serverVars>>

\* Mutant: the predicate is an off-by-one short: a frame already sent will do.
AwaitAny(v) ==
    /\ At(v, "lock")
    /\ mutex = Free
    /\ mutex' = v /\ Goto(v, "copy")
    /\ UNCHANGED <<frameVars, cpc, prev, jpeg, shown, count, serverVars>>

\* The condition variable tests its predicate under the lock and either keeps
\* the lock or releases it and blocks in one step.
Await(v) ==
    /\ At(v, "lock")
    /\ mutex = Free
    /\ IF seq > prev[v] THEN mutex' = v /\ Goto(v, "copy")
                        ELSE Goto(v, "blocked") /\ UNCHANGED mutex
    /\ UNCHANGED <<frameVars, cpc, prev, jpeg, shown, count, serverVars>>

\* 500 ms have passed: the predicate is tested a last time.
TimeOut(v) ==
    /\ At(v, "blocked")
    /\ mutex = Free
    /\ IF seq > prev[v] THEN mutex' = v /\ Goto(v, "copy")
                        ELSE Goto(v, "provide") /\ UNCHANGED mutex
    /\ UNCHANGED <<frameVars, cpc, prev, jpeg, shown, count, serverVars>>

\* Mutant: the viewer's number is that of the frame to come.
CopyRunsAhead(v) ==
    /\ At(v, "copy")
    /\ jpeg' = [jpeg EXCEPT ![v] = latest]
    /\ prev' = [prev EXCEPT ![v] = seq + 1]
    /\ mutex' = Free
    /\ Goto(v, "write")
    /\ UNCHANGED <<frameVars, cpc, shown, count, serverVars>>

Copy(v) ==
    /\ At(v, "copy")
    /\ jpeg' = [jpeg EXCEPT ![v] = latest]
    /\ prev' = [prev EXCEPT ![v] = seq]
    /\ mutex' = Free
    /\ Goto(v, "write")
    /\ UNCHANGED <<frameVars, cpc, shown, count, serverVars>>

Write(v) ==
    /\ At(v, "write")
    /\ shown' = [shown EXCEPT ![v] = jpeg[v]]
    /\ jpeg' = [jpeg EXCEPT ![v] = 0]
    /\ Goto(v, "provide")
    /\ UNCHANGED <<frameVars, mutex, cpc, prev, count, serverVars>>

\* Mutant: the releaser counts down only while the server listens.
ReleaseWhileListening(v) ==
    /\ At(v, "release")
    /\ count' = IF server = "listening" THEN count - 1 ELSE count
    /\ Goto(v, "gone")
    /\ UNCHANGED <<frameVars, mutex, cpc, prev, jpeg, shown, serverVars>>

\* The resource releaser of the response.
Release(v) ==
    /\ At(v, "release")
    /\ count' = count - 1
    /\ Goto(v, "gone")
    /\ UNCHANGED <<frameVars, mutex, cpc, prev, jpeg, shown, serverVars>>

-----------------------------------------------------------------------------
(* start(), stop() and the server thread                                   *)

Start ==
    /\ server = "off" /\ stopper = "no"
    /\ server' = "starting"
    /\ UNCHANGED <<frameVars, mutex, cpc, viewerVars, pool, stopper>>

Listen ==
    /\ server = "starting"
    /\ server' = "listening"
    /\ UNCHANGED <<frameVars, mutex, cpc, viewerVars, pool, stopper>>

\* The port is taken: listen() returns at once, which nobody is told.
ListenFails ==
    /\ server = "starting"
    /\ server' = "ended"
    /\ UNCHANGED <<frameVars, mutex, cpc, viewerVars, pool, stopper>>

\* httplib's Server::stop() closes the socket of a server that listens and does
\* nothing to one that does not listen yet; then stop() joins the server thread.
Stop ==
    /\ stopper = "no"
    /\ server \in {"starting", "listening", "ended"}
    /\ server' = IF server = "listening" THEN "draining" ELSE server
    /\ stopper' = "joining"
    /\ UNCHANGED <<frameVars, mutex, cpc, viewerVars, pool>>

\* listen() returns when the pool has joined every worker.
Drained ==
    /\ server = "draining"
    /\ \A v \in Viewers : At(v, "gone")
    /\ server' = "ended"
    /\ UNCHANGED <<frameVars, mutex, cpc, viewerVars, pool, stopper>>

Join ==
    /\ stopper = "joining"
    /\ server = "ended"
    /\ stopper' = "done"
    /\ UNCHANGED <<frameVars, mutex, cpc, viewerVars, pool, server>>

-----------------------------------------------------------------------------
Deliver == Store \/ Number \/ Notify
Work(v) == Begin(v) \/ Turn(v) \/ Provide(v) \/ Await(v) \/ TimeOut(v) \/ Copy(v) \/ Write(v) \/ Release(v)
Serve == Listen \/ ListenFails \/ Drained \/ Join

Next ==
    \/ LockJpeg \/ Deliver
    \/ \E v \in Viewers : Connect(v) \/ Work(v) \/ PeerLost(v)
    \/ Start \/ Serve \/ Stop

(* Every thread is scheduled and 500 ms always pass; the camera need not   *)
(* deliver, nobody need connect or go away, and nobody need call stop().   *)
Fairness ==
    /\ WF_vars(Deliver) /\ WF_vars(Serve)
    /\ \A v \in Viewers : WF_vars(Begin(v) \/ Turn(v))
    /\ \A v \in Viewers : WF_vars(Provide(v) \/ Copy(v) \/ Write(v) \/ Release(v))
    /\ \A v \in Viewers : SF_vars(Await(v)) /\ WF_vars(TimeOut(v))

Spec == Init /\ [][Next]_vars
FairSpec == Spec /\ Fairness

-----------------------------------------------------------------------------
\* No wake-up is lost: a worker sleeps past a newer frame only while the camera
\* is about to notify.
NoLostWakeup ==
    \A v \in Viewers : At(v, "blocked") /\ seq > prev[v] => cpc = "notify"

\* Every frame written to a viewer is newer than the last one written to it.
FramesAdvance ==
    [][\A v \in Viewers : At(v, "write") /\ pc'[v] = "provide" => shown'[v] > shown[v]]_vars

\* client_count_, which get_status reports, counts the workers in handle_stream(),
\* never more than the pool has, and is back to 0 once the server has ended.
CountIsRight ==
    /\ count = Cardinality(Serving) /\ count <= pool
    /\ server = "ended" => count = 0

\* A frame reaches every viewer, or a newer one does, unless the viewer is lost, waits
\* while the others occupy the whole pool, or the server is stopped.
FramesReachViewers ==
    \A v \in Viewers, n \in 1..MaxFrames :
        seq = n /\ pc[v] # "gone" ~>
            \/ shown[v] >= n
            \/ pc[v] \in {"release", "gone"}
            \/ At(v, "queued") /\ Cardinality(Serving) = pool
            \/ server # "listening"

\* stop() returns although viewers stay connected and others are queued: every worker
\* leaves its loop.  A stop() before the server listens closes nothing and may wait for
\* ever.
StopReturns ==
    stopper = "joining" /\ server \notin {"starting", "listening"} ~> stopper = "done"
=============================================================================
