------------------------------ MODULE Snapshot ------------------------------
(***************************************************************************)
(* The snapshot hand-shake of GstCameraSource: a command handler arms      *)
(* snapshot_pending_ in take_snapshot() and polls it for 500 ms; the       *)
(* GStreamer streaming thread finds it armed in on_jpeg_sample(), writes   *)
(* the frame to snapshot_path_ and disarms it.  The two share the flag (an *)
(* atomic) and the path (under snapshot_mutex_), and nothing says which    *)
(* request a disarmed flag answers.                                        *)
(*                                                                         *)
(* Frames are numbered as they arrive; saved[f] is the frame in file f.    *)
(***************************************************************************)
EXTENDS Integers

CONSTANTS
    Clients,      \* the WebSocket handler threads
    Files,        \* the file names the snapshot command may use
    NoFile,       \* the empty path
    MaxFrames,    \* bound: frames that arrive
    DiskFaults    \* TRUE if opening the file may fail

ASSUME NamesDistinct == NoFile \notin Files
ASSUME BoundsOK == MaxFrames \in Nat /\ DiskFaults \in BOOLEAN

VARIABLES
    running,   \* GstCameraSource::running_
    pending,   \* snapshot_pending_
    path,      \* snapshot_path_
    mutex,     \* TRUE while the streaming thread holds snapshot_mutex_
    pc,        \* [Clients -> label of take_snapshot()]
    jpc,       \* label of on_jpeg_sample()
    want,      \* [Clients -> file name of the request]
    since,     \* [Clients -> the last frame fully handled when the request came]
    reply,     \* [Clients -> {"none", "ok", "error"}]
    until,     \* [Clients -> the frames that had arrived when it was last answered]
    frame,     \* frames that have arrived
    saved      \* [Files -> number of the frame last written there, 0 if none]

clientVars == <<want, since, reply, until>>
streamVars == <<path, mutex, jpc, frame, saved>>
vars == <<running, pending, pc, clientVars, streamVars>>

Waiting == {"wait", "expired", "cancel"}
ClientLabels == {"idle", "set_path", "arm"} \cup Waiting
StreamLabels == {"idle", "test", "lock", "write", "disarm"}

TypeOK ==
    /\ running \in BOOLEAN /\ pending \in BOOLEAN /\ mutex \in BOOLEAN
    /\ path \in Files \cup {NoFile}
    /\ pc \in [Clients -> ClientLabels]
    /\ jpc \in StreamLabels
    /\ want \in [Clients -> Files \cup {NoFile}]
    /\ since \in [Clients -> 0..MaxFrames]
    /\ reply \in [Clients -> {"none", "ok", "error"}]
    /\ until \in [Clients -> 0..MaxFrames]
    /\ frame \in 0..MaxFrames
    /\ saved \in [Files -> 0..MaxFrames]

Init ==
    /\ running = TRUE /\ pending = FALSE /\ mutex = FALSE
    /\ path = NoFile
    /\ pc = [c \in Clients |-> "idle"]
    /\ jpc = "idle"
    /\ want = [c \in Clients |-> NoFile]
    /\ since = [c \in Clients |-> 0]
    /\ reply = [c \in Clients |-> "none"]
    /\ until = [c \in Clients |-> 0]
    /\ frame = 0
    /\ saved = [f \in Files |-> 0]

-----------------------------------------------------------------------------
(* take_snapshot()                                                         *)

At(c, label) == pc[c] = label
Goto(c, label) == pc' = [pc EXCEPT ![c] = label]
Reply(c, r) ==
    /\ reply' = [reply EXCEPT ![c] = r]
    /\ until' = [until EXCEPT ![c] = frame]
Answer(c, r) ==
    /\ Goto(c, "idle")
    /\ Reply(c, r)
    /\ UNCHANGED <<want, since>>

\* A frame whose handling is not over may still answer the request.
Handled == IF jpc = "idle" THEN frame ELSE frame - 1

\* The path may be empty: the browser chooses it.
Request(c, f) ==
    /\ At(c, "idle")
    /\ want' = [want EXCEPT ![c] = f]
    /\ since' = [since EXCEPT ![c] = Handled]
    /\ IF running
       THEN Goto(c, "set_path") /\ reply' = [reply EXCEPT ![c] = "none"] /\ UNCHANGED until
       ELSE Reply(c, "error") /\ UNCHANGED pc
    /\ UNCHANGED <<running, pending, streamVars>>

SetPath(c) ==
    /\ At(c, "set_path")
    /\ ~mutex
    /\ path' = want[c]
    /\ Goto(c, "arm")
    /\ UNCHANGED <<running, pending, clientVars, mutex, jpc, frame, saved>>

Arm(c) ==
    /\ At(c, "arm")
    /\ pending' = TRUE
    /\ Goto(c, "wait")
    /\ UNCHANGED <<running, clientVars, streamVars>>

\* The polling loop ends because the flag is down ...
Done(c) ==
    /\ pc[c] \in {"wait", "expired"}
    /\ ~pending
    /\ Answer(c, "ok")
    /\ UNCHANGED <<running, pending, streamVars>>

\* Mutant: the deadline is looked at only when the flag is down.
ExpireWhenDone(c) ==
    /\ At(c, "wait")
    /\ ~pending
    /\ Goto(c, "expired")
    /\ UNCHANGED <<running, pending, clientVars, streamVars>>

\* ... or because 500 ms have passed,
Expire(c) ==
    /\ At(c, "wait")
    /\ Goto(c, "expired")
    /\ UNCHANGED <<running, pending, clientVars, streamVars>>

\* and then the flag is read once more and, if still up, taken down.
StillPending(c) ==
    /\ At(c, "expired")
    /\ pending
    /\ Goto(c, "cancel")
    /\ UNCHANGED <<running, pending, clientVars, streamVars>>

\* Mutant: the flag stays up when the request is given up.
CancelKeepsFlag(c) ==
    /\ At(c, "cancel")
    /\ Answer(c, "error")
    /\ UNCHANGED <<running, pending, streamVars>>

Cancel(c) ==
    /\ At(c, "cancel")
    /\ pending' = FALSE
    /\ Answer(c, "error")
    /\ UNCHANGED <<running, streamVars>>

-----------------------------------------------------------------------------
(* on_jpeg_sample(), after the frame went to the MjpegServer               *)

Arrive ==
    /\ jpc = "idle"
    /\ frame < MaxFrames
    /\ frame' = frame + 1
    /\ jpc' = "test"
    /\ UNCHANGED <<running, pending, pc, clientVars, path, mutex, saved>>

\* Mutant: the flag is taken down when it is seen, before the file is written.
TestAndClear ==
    /\ jpc = "test"
    /\ jpc' = IF pending THEN "lock" ELSE "idle"
    /\ pending' = FALSE
    /\ UNCHANGED <<running, pc, clientVars, path, mutex, frame, saved>>

Test ==
    /\ jpc = "test"
    /\ jpc' = IF pending THEN "lock" ELSE "idle"
    /\ UNCHANGED <<running, pending, pc, clientVars, path, mutex, frame, saved>>

Lock ==
    /\ jpc = "lock"
    /\ mutex' = TRUE
    /\ jpc' = "write"
    /\ UNCHANGED <<running, pending, pc, clientVars, path, frame, saved>>

\* A file that cannot be opened is passed over in silence.
Write ==
    /\ jpc = "write"
    /\ \/ path = NoFile /\ UNCHANGED saved
       \/ path # NoFile /\ saved' = [saved EXCEPT ![path] = frame]
       \/ path # NoFile /\ DiskFaults /\ UNCHANGED saved
    /\ path' = NoFile
    /\ jpc' = "disarm"
    /\ UNCHANGED <<running, pending, pc, clientVars, mutex, frame>>

Disarm ==
    /\ jpc = "disarm"
    /\ pending' = FALSE
    /\ mutex' = FALSE
    /\ jpc' = "idle"
    /\ UNCHANGED <<running, pc, clientVars, path, frame, saved>>

-----------------------------------------------------------------------------
\* The pipeline is stopped, fails or is started again.
CameraChanges ==
    /\ running' = ~running
    /\ UNCHANGED <<pending, pc, clientVars, streamVars>>

Taking(c) == SetPath(c) \/ Arm(c) \/ Done(c) \/ Expire(c) \/ StillPending(c) \/ Cancel(c)
Streaming == Test \/ Lock \/ Write \/ Disarm

Next ==
    \/ \E c \in Clients : Taking(c) \/ \E f \in Files \cup {NoFile} : Request(c, f)
    \/ Arrive \/ Streaming
    \/ CameraChanges

\* The threads are scheduled and 500 ms always pass; no frame need ever arrive.
Fairness == WF_vars(Streaming) /\ \A c \in Clients : WF_vars(Taking(c))

Spec == Init /\ [][Next]_vars
FairSpec == Spec /\ Fairness

-----------------------------------------------------------------------------
\* The flag is up only while a take_snapshot() is there to take it down, with any
\* number of clients: no frame is taken for a snapshot that nobody waits for.  (A frame
\* that was taken before its request was given up is still written.)
PendingHasWaiter == pending => \E c \in Clients : pc[c] \in Waiting

\* take_snapshot() was given a path and returned true, so a frame that was not yet
\* handled when it was called is in that file (one client, a disk that takes the file).
\* With an empty path the code returns true as well, and writes nothing.
OkMeansFresh ==
    \A c \in Clients : At(c, "idle") /\ reply[c] = "ok" /\ want[c] # NoFile
                        => saved[want[c]] > since[c]

\* An answered request is over: a frame that arrives after the reply, ok or error, is
\* not written to its file (one client).  One that had arrived by then may be.
NothingAfterReply ==
    \A c \in Clients : At(c, "idle") /\ reply[c] # "none" /\ want[c] # NoFile
                        => saved[want[c]] <= until[c]

\* Every request is answered, whether or not a frame arrives.
RequestsAnswered == \A c \in Clients : ~At(c, "idle") ~> At(c, "idle")
=============================================================================
