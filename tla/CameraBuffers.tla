--------------------------- MODULE CameraBuffers ---------------------------
(***************************************************************************)
(* The DMA buffers of the first-generation capture layer                   *)
(* (camera/camera_manager.cpp, camera/frame_buffer.h).  open() allocates   *)
(* the buffers and queues one request for each to the camera;              *)
(* libcamera's event thread wraps a completed buffer in a Frame that the   *)
(* video queue, the still queue and their consumers share; the last        *)
(* reference to go runs release(), which queues the request again.         *)
(*                                                                         *)
(* libcamera's camera is modelled from how the code uses it: stop() waits  *)
(* for the event thread and cancels what is queued, and queueRequest()     *)
(* refuses a request while the camera does not stream.  The two queues are *)
(* those of FrameQueue, whose push() and pop() take effect in one step.    *)
(* Requests are numbered by the open() that created them, so a request of  *)
(* an earlier open() is one that has been freed.                           *)
(*                                                                         *)
(* The queue is as deep as whoever creates the layer makes it, and nothing *)
(* but its callers' care keeps close() from running while a frame is out:  *)
(* `setup` says which of the setups to consider a behaviour has.           *)
(***************************************************************************)
EXTENDS Integers, Sequences, FiniteSets

CONSTANTS
    Buffers,         \* the buffers of a stream
    Frames,          \* names for Frame objects, enough for those alive at once
    None,
    Setups,          \* the setups to consider
    StillCapacity,
    MaxOpens         \* bound: calls of open()

ASSUME SizesOK ==
    /\ Setups \subseteq [buffers : SUBSET Buffers, capacity : Nat \ {0}, drains : BOOLEAN]
    /\ StillCapacity \in Nat \ {0}
    /\ MaxOpens \in Nat

Requests  == (1..MaxOpens) \X Buffers
ASSUME NoneIsApart == None \notin Frames \cup Requests

Consumers == {"video", "still"}            \* the threads that pop the two queues
Holders   == Consumers \cup {"event"}      \* and libcamera's event thread

VARIABLES
    setup,       \* the buffers the camera grants, the capacity of queue_, and whether
                 \* close() is called only when no consumer has a frame; never changes
    running,     \* running_
    opens,       \* open() calls so far; requests of this number are the live ones
    mapped,      \* the buffers are mapped and the requests exist
    streaming,   \* libcamera: the camera has been started
    queued,      \* libcamera: [Requests -> how many times it is queued]
    armed,       \* snapshot_armed_
    queue,       \* queue_
    stills,      \* still_queue_
    source,      \* [Frames -> the request whose buffer the frame views, or None]
    held,        \* [Holders -> the frame the thread has a reference to, or None]
    pc,          \* [Holders -> label]
    req,         \* [Holders -> the request the thread is about to queue, or None]
    current,     \* the argument of the on_request_completed() under way, or None
    control,     \* label of open() and close()
    fault        \* "none", or what was done that is undefined

holderVars == <<held, pc, req, current>>
cameraVars == <<opens, mapped, streaming, control>>
vars == <<setup, running, cameraVars, queued, armed, queue, stills, source, holderVars, fault>>

TypeOK ==
    /\ setup \in Setups /\ running \in BOOLEAN /\ mapped \in BOOLEAN /\ streaming \in BOOLEAN
    /\ opens \in 0..MaxOpens
    /\ queued \in [Requests -> 0..2]
    /\ armed \in BOOLEAN
    /\ queue \in Seq(Frames) /\ Len(queue) <= setup.capacity
    /\ stills \in Seq(Frames) /\ Len(stills) <= StillCapacity
    /\ source \in [Frames -> Requests \cup {None}]
    /\ held \in [Holders -> Frames \cup {None}]
    /\ pc \in [Holders -> {"idle", "copy", "push", "release", "recycle", "requeue", "use"}]
    /\ req \in [Holders -> Requests \cup {None}]
    /\ current \in Requests \cup {None}
    /\ control \in {"closed", "mapped", "started", "open", "stopping", "stopped"}
    /\ fault \in {"none", "queued_twice", "freed_request", "dangling_data"}

Init ==
    /\ setup \in Setups
    /\ running = FALSE /\ mapped = FALSE /\ streaming = FALSE
    /\ opens = 0
    /\ queued = [r \in Requests |-> 0]
    /\ armed = FALSE
    /\ queue = <<>> /\ stills = <<>>
    /\ source = [f \in Frames |-> None]
    /\ held = [t \in Holders |-> None]
    /\ pc = [t \in Holders |-> "idle"]
    /\ req = [t \in Holders |-> None]
    /\ current = None
    /\ control = "closed"
    /\ fault = "none"

Live(r) == mapped /\ r[1] = opens
InQueue(f, q) == \E i \in 1..Len(q) : q[i] = f
Alive(f) == source[f] # None
SharedBy(f, t) ==
    \/ InQueue(f, queue) \/ InQueue(f, stills)
    \/ \E u \in Holders \ {t} : held[u] = f

At(t, label) == pc[t] = label
Goto(t, label) == pc' = [pc EXCEPT ![t] = label]

-----------------------------------------------------------------------------
(* open() and close(); set_resolution() is one after the other.            *)

Open ==
    /\ control = "closed"
    /\ opens < MaxOpens
    /\ opens' = opens + 1
    /\ mapped' = TRUE
    /\ control' = "mapped"
    /\ UNCHANGED <<running, streaming, queued, armed, queue, stills, source, holderVars, fault>>

\* A step of open() failed and the ones before it were undone.
OpenFails ==
    /\ control = "closed"
    /\ opens < MaxOpens
    /\ opens' = opens + 1
    /\ UNCHANGED <<running, mapped, streaming, control, queued, armed, queue, stills, source,
                   holderVars, fault>>

StartStreaming ==
    /\ control = "mapped"
    /\ streaming' = TRUE
    /\ queued' = [r \in Requests |-> IF r[1] = opens /\ r[2] \in setup.buffers THEN 1 ELSE 0]
    /\ control' = "started"
    /\ UNCHANGED <<running, opens, mapped, armed, queue, stills, source, holderVars, fault>>

SetRunning ==
    /\ control = "started"
    /\ running' = TRUE
    /\ control' = "open"
    /\ UNCHANGED <<opens, mapped, streaming, queued, armed, queue, stills, source,
                   holderVars, fault>>

Drained ==
    /\ queue = <<>> /\ stills = <<>>
    /\ \A t \in Consumers : At(t, "idle")

Close ==
    /\ control = "open"
    /\ setup.drains => Drained
    /\ running' = FALSE
    /\ control' = "stopping"
    /\ UNCHANGED <<opens, mapped, streaming, queued, armed, queue, stills, source,
                   holderVars, fault>>

StopStreaming ==
    /\ control = "stopping"
    /\ At("event", "idle")
    /\ streaming' = FALSE
    /\ queued' = [r \in Requests |-> 0]
    /\ control' = "stopped"
    /\ UNCHANGED <<running, opens, mapped, armed, queue, stills, source, holderVars, fault>>

\* Clears requests_, unmaps the buffers and releases the camera.
Unmap ==
    /\ control = "stopped"
    /\ mapped' = FALSE
    /\ control' = "closed"
    /\ UNCHANGED <<running, opens, streaming, queued, armed, queue, stills, source,
                   holderVars, fault>>

-----------------------------------------------------------------------------
(* Frame references and release()                                          *)

\* Mutant: every reference that is dropped runs release(), shared or not.
DropEach(t, label) ==
    LET f == held[t] IN
    /\ held' = [held EXCEPT ![t] = None]
    /\ source' = [source EXCEPT ![f] = IF SharedBy(f, t) THEN @ ELSE None]
    /\ IF running /\ Alive(f)
       THEN Goto(t, "release") /\ req' = [req EXCEPT ![t] = source[f]]
       ELSE Goto(t, label) /\ UNCHANGED req

\* Mutant: a Frame is destroyed without its release().
DropSilently(t, label) ==
    LET f == held[t] IN
    /\ held' = [held EXCEPT ![t] = None]
    /\ source' = [source EXCEPT ![f] = IF SharedBy(f, t) THEN @ ELSE None]
    /\ Goto(t, label)
    /\ UNCHANGED req

\* Thread t drops its reference to a frame and goes on at `label`, by way of
\* requeue_request() if it was the last one and running_ is true.
Drop(t, label) ==
    LET f == held[t] IN
    /\ held' = [held EXCEPT ![t] = None]
    /\ IF SharedBy(f, t)
       THEN Goto(t, label) /\ UNCHANGED <<source, req>>
       ELSE /\ source' = [source EXCEPT ![f] = None]
            /\ IF running
               THEN Goto(t, "release") /\ req' = [req EXCEPT ![t] = source[f]]
               ELSE Goto(t, label) /\ UNCHANGED req

\* requeue_request() past its test of running_.
QueueRequest(t, from, to) ==
    /\ At(t, from)
    /\ IF Live(req[t])
       THEN /\ queued' = [queued EXCEPT ![req[t]] = IF streaming THEN @ + 1 ELSE @]
            /\ fault' = IF queued[req[t]] > 0 THEN "queued_twice" ELSE "none"
       ELSE fault' = "freed_request" /\ UNCHANGED queued
    /\ req' = [req EXCEPT ![t] = None]
    /\ Goto(t, to)
    /\ UNCHANGED <<running, cameraVars, armed, queue, stills, source, current, held>>

-----------------------------------------------------------------------------
(* on_request_completed(), on libcamera's event thread                     *)

Complete(r, f) ==
    /\ At("event", "idle")
    /\ streaming
    /\ queued[r] > 0
    /\ ~Alive(f)
    /\ queued' = [queued EXCEPT ![r] = @ - 1]
    /\ source' = [source EXCEPT ![f] = r]
    /\ current' = r
    /\ held' = [held EXCEPT !["event"] = f]
    /\ Goto("event", "copy")
    /\ UNCHANGED <<running, cameraVars, armed, queue, stills, req, fault>>

\* An armed snapshot takes a second reference, unless the still queue is full.
CopyStill ==
    /\ At("event", "copy")
    /\ IF armed /\ Len(stills) < StillCapacity
       THEN stills' = Append(stills, held["event"])
       ELSE UNCHANGED stills
    /\ armed' = FALSE
    /\ Goto("event", "push")
    /\ UNCHANGED <<running, cameraVars, queued, queue, source, held, req, current, fault>>

PushVideo ==
    /\ At("event", "push")
    /\ Len(queue) < setup.capacity
    /\ queue' = Append(queue, held["event"])
    /\ held' = [held EXCEPT !["event"] = None]
    /\ Goto("event", "idle")
    /\ current' = None
    /\ UNCHANGED <<running, cameraVars, queued, armed, stills, source, req, fault>>

\* The queue is full: push() drops its argument, perhaps the last reference, before
\* on_request_completed() goes on to queue the request itself.
PushRefused ==
    /\ At("event", "push")
    /\ Len(queue) = setup.capacity
    /\ Drop("event", "recycle")
    /\ UNCHANGED <<running, cameraVars, queued, armed, queue, stills, current, fault>>

Recycle ==
    /\ At("event", "recycle")
    /\ current' = None
    /\ IF running THEN Goto("event", "requeue") /\ req' = [req EXCEPT !["event"] = current]
                  ELSE Goto("event", "idle") /\ UNCHANGED req
    /\ UNCHANGED <<running, cameraVars, queued, armed, queue, stills, source, held, fault>>

-----------------------------------------------------------------------------
(* The consumers: pop(), try_get_snapshot(), request_snapshot()            *)

Pop ==
    /\ At("video", "idle")
    /\ queue # <<>>
    /\ held' = [held EXCEPT !["video"] = Head(queue)]
    /\ queue' = Tail(queue)
    /\ Goto("video", "use")
    /\ UNCHANGED <<running, cameraVars, queued, armed, stills, source, req, current, fault>>

TryGetSnapshot ==
    /\ At("still", "idle")
    /\ stills # <<>>
    /\ held' = [held EXCEPT !["still"] = Head(stills)]
    /\ stills' = Tail(stills)
    /\ Goto("still", "use")
    /\ UNCHANGED <<running, cameraVars, queued, armed, queue, source, req, current, fault>>

\* The consumer reads the pixels.
Read(t) ==
    /\ At(t, "use")
    /\ ~Live(source[held[t]])
    /\ fault' = "dangling_data"
    /\ UNCHANGED <<running, cameraVars, queued, armed, queue, stills, source, holderVars>>

\* The consumer is done with the frame, read or not.
Discard(t) ==
    /\ At(t, "use")
    /\ Drop(t, "idle")
    /\ UNCHANGED <<running, cameraVars, queued, armed, queue, stills, current, fault>>

RequestSnapshot ==
    /\ running
    /\ ~armed
    /\ armed' = TRUE
    /\ UNCHANGED <<running, cameraVars, queued, queue, stills, source, holderVars, fault>>

-----------------------------------------------------------------------------
EventStep ==
    \/ CopyStill \/ PushVideo \/ PushRefused \/ Recycle
    \/ QueueRequest("event", "release", "recycle") \/ QueueRequest("event", "requeue", "idle")

Consume(t) == Read(t) \/ Discard(t) \/ QueueRequest(t, "release", "idle")

Control == StartStreaming \/ SetRunning \/ StopStreaming \/ Unmap

\* Nothing is modelled after undefined behaviour.
Defined == fault = "none" /\ UNCHANGED setup

Next ==
    /\ Defined
    /\ \/ Open \/ OpenFails \/ Close \/ Control
       \/ \E r \in Requests, f \in Frames : Complete(r, f)
       \/ EventStep
       \/ Pop \/ TryGetSnapshot \/ RequestSnapshot
       \/ \E t \in Consumers : Consume(t)

(* The event thread runs, and the consumers pop and drop frames; the camera *)
(* need not deliver.                                                       *)
Fairness ==
    /\ WF_vars(Defined /\ EventStep)
    /\ WF_vars(Defined /\ Pop) /\ WF_vars(Defined /\ TryGetSnapshot)
    /\ \A t \in Consumers : WF_vars(Defined /\ Consume(t))

Spec == Init /\ [][Next]_vars
FairSpec == Spec /\ Fairness

-----------------------------------------------------------------------------
\* Who may put the buffer of a request back into the camera.
Owned(r) ==
    \/ queued[r] > 0
    \/ \E f \in Frames : source[f] = r
    \/ \E t \in Holders : req[t] = r
    \/ At("event", "recycle") /\ current = r

\* While a Frame views a buffer the camera does not write into it, and the camera
\* has the request at most once: the video and the still queue may share a frame,
\* and only the last reference queues its request again.  It takes callers that close
\* the camera only when no frame is out: close() checks nothing of the kind.
OneOwner ==
    setup.drains => \A r \in Requests :
        /\ queued[r] <= 1
        /\ queued[r] = 1 => /\ \A f \in Frames : source[f] # r
                           /\ \A t \in Holders : req[t] # r

\* While the camera runs no step loses a buffer, whoever drops which reference.
KeepsBuffers ==
    [][\A r \in Requests : running /\ running' /\ Live(r) /\ Owned(r) => Owned(r)']_vars

\* While the camera runs every buffer comes back to it, as long as both queues are
\* consumed, unless a release() left over from an earlier open() queues a request
\* that has been freed: what follows that is undefined.
BuffersReturn ==
    \A r \in Requests :
        running /\ Live(r) /\ Owned(r) ~> queued[r] > 0 \/ ~running \/ fault # "none"
=============================================================================
