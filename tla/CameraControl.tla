--------------------------- MODULE CameraControl ---------------------------
(***************************************************************************)
(* The control plane of the camera application: the WebSocket command      *)
(* handlers of main.cpp, the life cycle of GstCameraSource (start, stop,   *)
(* set_resolution, start_recording, stop_recording), the Recorder objects  *)
(* it creates and destroys, its drain and bus threads, and main's loop,    *)
(* shutdown and destructors.                                               *)
(*                                                                         *)
(* Every thread has a program counter and every step is one access to      *)
(* shared state (or a few that nothing can observe apart).  A step that    *)
(* the C++ standard leaves undefined, or that calls std::terminate, sets   *)
(* `crash`, after which the process takes no step.                         *)
(*                                                                         *)
(* Commands are numbered as they are issued; number 1 is main's own start. *)
(* A Recorder, a recording file and a pipeline are named by the command    *)
(* that created them, and 0 is a null pointer or an empty file name.  A    *)
(* negative number is the name that a Recorder makes up for itself.        *)
(***************************************************************************)
EXTENDS Integers, FiniteSets

CONSTANTS
    Clients,      \* the WebSocket handler threads, one per connected browser
    Main, Drain, Bus,
    Resolutions,  \* the presets of camera/resolution.h
    Default,      \* the preset main starts with
    Commands,     \* the commands the clients issue
    MaxCmds,      \* bound: commands issued in a behaviour, main's start included
    Faults        \* the failures of the environment that may happen

CommandNames == {"record_start", "record_stop", "record_restart",
                 "set_resolution", "get_status"}

FaultNames == {"start_fail", "recorder_fail", "recorder_throw", "eos_timeout", "bus_error"}

None == 0
Unlocked == "unlocked"

ASSUME ThreadsDistinct ==
    /\ Main \notin Clients /\ Drain \notin Clients /\ Bus \notin Clients
    /\ Main # Drain /\ Main # Bus /\ Drain # Bus
    /\ Unlocked \notin Clients \cup {Main}
ASSUME ParametersOK ==
    /\ Default \in Resolutions
    /\ Commands \subseteq CommandNames
    /\ Faults \subseteq FaultNames
    /\ MaxCmds \in Nat \ {0}

Actors  == Clients \cup {Main}        \* the threads that run commands
Threads == Actors \cup {Drain, Bus}
Ids     == 1..MaxCmds

VARIABLES
    pc,         \* [Threads -> label]
    ret,        \* [Actors -> label]: where stop_recording() or a destructor returns to
    obj,        \* [Threads -> Ids or None]: the Recorder a thread is inside
    cmd, want,  \* [Clients -> ...]: the command being handled, the resolution asked for
    serial,     \* [Actors -> Ids or None]: the number of the command being handled
    file,       \* [Clients -> Ids or None]: the file the handler passes on and reports
    reply,      \* [Clients -> {"none", "ok", "error"}]
    cmds,       \* commands issued so far
    running, cfg, pipeline, recThread, busThread, abortRec, abortBus,
                \* members of GstCameraSource; the threads are TRUE while joinable
    playing,    \* the pipelines that were set PLAYING and not yet set NULL
    pipeCfg,    \* the resolution the current pipeline was built with
    recording, recorder, curFile,   \* members of GstCameraSource
    rstate,     \* [Ids -> state of that Recorder]
    rfile,      \* [Ids -> the file that Recorder records into, None before it does]
    rmtx,       \* [Ids -> owner of that Recorder's mtx_]
    rcfg,       \* [Ids -> the resolution that Recorder was started with]
    ended,      \* [Ids -> how the MP4 of that Recorder was ended]
    resMutex, cfgPtr,   \* locals of main()
    quit,       \* a signal cleared g_running
    crash       \* "none", or how the process died

threadVars  == <<pc, ret, obj>>
requestVars == <<cmd, want, serial, file, reply, cmds>>
cameraVars  == <<running, cfg, pipeline, recThread, busThread, abortRec,
                 abortBus, playing, pipeCfg>>
sessionVars == <<recording, recorder, curFile>>
objectVars  == <<rstate, rfile, rmtx, rcfg, ended>>
appVars     == <<resMutex, cfgPtr, quit, crash>>
vars == <<threadVars, requestVars, cameraVars, sessionVars, objectVars, appVars>>

ClientLabels == {"offline", "idle", "lock", "start_reply", "stop_reply", "switch"}
                    \cup CommandNames
StartRecordingLabels == {"start_recording", "new_recorder", "recorder_start", "publish"}
StopRecordingLabels  == {"stop_recording", "clear_flag", "call_stop", "recorder_stop",
                         "await_eos", "reset_recorder"}
DeleteLabels == {"delete", "delete_eos"}
StopLabels   == {"stop", "stop_finalize", "stop_flags", "join_rec", "set_null",
                 "join_bus", "unref"}
StartLabels  == {"apply_cfg", "start", "launch", "spawn_rec", "spawn_bus"}
MainLabels   == {"loop", "ws_stop", "dtor", "exit"}
DrainLabels  == {"ended", "pull", "check", "push_frame", "push"}
BusLabels    == {"ended", "poll"}

Labels == ClientLabels \cup StartRecordingLabels \cup StopRecordingLabels
            \cup DeleteLabels \cup StopLabels \cup StartLabels \cup MainLabels
            \cup DrainLabels \cup BusLabels

\* The names a command may choose, and next_filename(), the one that a Recorder takes
\* when it is passed an empty name.
Invented(r) == -r
FileNames == Ids \cup {None} \cup {Invented(r) : r \in Ids}

RecorderStates == {"unborn", "idle", "recording", "stopping", "freed"}
Crashes == {"none", "drain", "recorder", "terminate", "double_join"}

TypeOK ==
    /\ pc \in [Threads -> Labels]
    /\ ret \in [Actors -> Labels]
    /\ obj \in [Threads -> Ids \cup {None}]
    /\ cmd \in [Clients -> CommandNames]
    /\ want \in [Clients -> Resolutions]
    /\ serial \in [Actors -> Ids \cup {None}]
    /\ file \in [Clients -> Ids \cup {None}]
    /\ reply \in [Clients -> {"none", "ok", "error"}]
    /\ cmds \in Ids
    /\ running \in BOOLEAN /\ recThread \in BOOLEAN /\ busThread \in BOOLEAN
    /\ abortRec \in BOOLEAN /\ abortBus \in BOOLEAN
    /\ cfg \in Resolutions /\ pipeCfg \in Resolutions /\ cfgPtr \in Resolutions
    /\ pipeline \in Ids \cup {None}
    /\ playing \subseteq Ids \cup {None}
    /\ recording \in BOOLEAN
    /\ recorder \in Ids \cup {None}
    /\ curFile \in Ids \cup {None}
    /\ rstate \in [Ids -> RecorderStates]
    /\ rfile \in [Ids -> FileNames]
    /\ rmtx \in [Ids -> Actors \cup {Unlocked}]
    /\ rcfg \in [Ids -> Resolutions]
    /\ ended \in [Ids -> {"no", "finalised", "truncated"}]
    /\ resMutex \in Clients \cup {Unlocked}
    /\ quit \in BOOLEAN
    /\ crash \in Crashes

Init ==
    /\ pc = [t \in Threads |-> CASE t = Main    -> "start"
                                 [] t \in Clients -> "offline"
                                 [] OTHER       -> "ended"]
    /\ ret = [t \in Actors |-> "idle"]
    /\ obj = [t \in Threads |-> None]
    /\ cmd = [c \in Clients |-> "get_status"]
    /\ want = [c \in Clients |-> Default]
    /\ serial = [t \in Actors |-> IF t = Main THEN 1 ELSE None]
    /\ file = [c \in Clients |-> None]
    /\ reply = [c \in Clients |-> "none"]
    /\ cmds = 1
    /\ running = FALSE /\ recThread = FALSE /\ busThread = FALSE
    /\ abortRec = FALSE /\ abortBus = FALSE
    /\ cfg = Default /\ pipeCfg = Default /\ cfgPtr = Default
    /\ pipeline = None
    /\ playing = {}
    /\ recording = FALSE /\ recorder = None /\ curFile = None
    /\ rstate = [r \in Ids |-> "unborn"]
    /\ rfile = [r \in Ids |-> None]
    /\ rmtx = [r \in Ids |-> Unlocked]
    /\ rcfg = [r \in Ids |-> Default]
    /\ ended = [r \in Ids |-> "no"]
    /\ resMutex = Unlocked
    /\ quit = FALSE
    /\ crash = "none"

At(t, label) == pc[t] = label
Goto(t, label) == pc' = [pc EXCEPT ![t] = label]
Call(t, label, back) == Goto(t, label) /\ ret' = [ret EXCEPT ![t] = back]
Finish(c, r) == Goto(c, "idle") /\ reply' = [reply EXCEPT ![c] = r]
Move(t, label) ==
    /\ Goto(t, label)
    /\ UNCHANGED <<ret, obj, requestVars, cameraVars, sessionVars, objectVars, appVars>>
Die(how) ==
    /\ crash' = how
    /\ UNCHANGED <<threadVars, requestVars, cameraVars, sessionVars, objectVars,
                   resMutex, cfgPtr, quit>>

-----------------------------------------------------------------------------
(* A browser: connects while the WebSocket server listens (which is while  *)
(* main is in its loop), sends one command at a time, waits for its reply, *)
(* and may go away between two commands.                                   *)

Connect(c) ==
    /\ At(c, "offline") /\ At(Main, "loop")
    /\ Move(c, "idle")

Disconnect(c) ==
    /\ At(c, "idle")
    /\ Goto(c, "offline")
    /\ reply' = [reply EXCEPT ![c] = "none"]
    /\ file' = [file EXCEPT ![c] = None]
    /\ UNCHANGED <<ret, obj, cmd, want, serial, cmds, cameraVars, sessionVars,
                   objectVars, appVars>>

Request(c, k, w) ==
    /\ At(c, "idle")
    /\ cmds < MaxCmds
    /\ cmds' = cmds + 1
    /\ serial' = [serial EXCEPT ![c] = cmds + 1]
    /\ cmd' = [cmd EXCEPT ![c] = k]
    /\ want' = [want EXCEPT ![c] = w]
    /\ reply' = [reply EXCEPT ![c] = "none"]
    /\ file' = [file EXCEPT ![c] = None]
    /\ Goto(c, k)
    /\ UNCHANGED <<ret, obj, cameraVars, sessionVars, objectVars, appVars>>

-----------------------------------------------------------------------------
(* The command handlers of main.cpp.                                       *)

GetStatus(c) ==
    /\ At(c, "get_status")
    /\ resMutex = Unlocked
    /\ file' = [file EXCEPT ![c] = curFile]
    /\ Finish(c, "ok")
    /\ UNCHANGED <<ret, obj, cmd, want, serial, cmds, cameraVars, sessionVars,
                   objectVars, appVars>>

RecordStart(c) ==
    /\ At(c, "record_start")
    /\ IF recording THEN Finish(c, "error")
                    ELSE Goto(c, "lock") /\ UNCHANGED reply
    /\ UNCHANGED <<ret, obj, cmd, want, serial, file, cmds, cameraVars, sessionVars,
                   objectVars, appVars>>

RecordRestart(c) ==
    /\ At(c, "record_restart")
    /\ Call(c, "stop_recording", "lock")
    /\ UNCHANGED <<obj, requestVars, cameraVars, sessionVars, objectVars, appVars>>

\* The name of the file: the browser's, which may be an empty one, or next_name().
NameFile(c) ==
    \E f \in {serial[c]} \cup (IF cmd[c] = "record_start" THEN {None} ELSE {}) :
        file' = [file EXCEPT ![c] = f]

\* Mutant: res_mutex is not taken.
LockResSkipped(c) ==
    /\ At(c, "lock")
    /\ NameFile(c)
    /\ Goto(c, "start_recording")
    /\ UNCHANGED <<ret, obj, cmd, want, serial, reply, cmds, cameraVars, sessionVars,
                   objectVars, appVars>>

\* record_start and record_restart hold res_mutex from here to their reply.
LockRes(c) ==
    /\ At(c, "lock")
    /\ resMutex = Unlocked
    /\ resMutex' = c
    /\ NameFile(c)
    /\ Goto(c, "start_recording")
    /\ UNCHANGED <<ret, obj, cmd, want, serial, reply, cmds, cameraVars, sessionVars,
                   objectVars, cfgPtr, quit, crash>>

\* reply[c] is "ok" here if start_recording() returned true, "error" if it threw
\* and "none" if it returned false, which record_restart ignores.
StartReply(c) ==
    /\ At(c, "start_reply")
    /\ resMutex' = Unlocked
    /\ Finish(c, CASE reply[c] # "none"          -> reply[c]
                   [] cmd[c] = "record_restart" -> "ok"
                   [] OTHER                     -> "error")
    /\ UNCHANGED <<ret, obj, cmd, want, serial, file, cmds, cameraVars, sessionVars,
                   objectVars, cfgPtr, quit, crash>>

RecordStop(c) ==
    /\ At(c, "record_stop")
    /\ IF recording
       THEN /\ Call(c, "stop_recording", "stop_reply")
            /\ file' = [file EXCEPT ![c] = curFile]
            /\ UNCHANGED reply
       ELSE Finish(c, "error") /\ UNCHANGED <<ret, file>>
    /\ UNCHANGED <<obj, cmd, want, serial, cmds, cameraVars, sessionVars, objectVars,
                   appVars>>

\* The handler ignores what stop_recording() returned.
StopReply(c) ==
    /\ At(c, "stop_reply")
    /\ Finish(c, "ok")
    /\ UNCHANGED <<ret, obj, cmd, want, serial, file, cmds, cameraVars, sessionVars,
                   objectVars, appVars>>

\* res_mutex covers only the assignment of cfg_ptr.
SetResolution(c) ==
    /\ At(c, "set_resolution")
    /\ resMutex = Unlocked
    /\ cfgPtr' = want[c]
    /\ Goto(c, "switch")
    /\ UNCHANGED <<ret, obj, requestVars, cameraVars, sessionVars, objectVars,
                   resMutex, quit, crash>>

-----------------------------------------------------------------------------
(* GstCameraSource::start_recording, called with res_mutex held.           *)

\* Mutant: start_recording() does not ask whether the camera runs.
StartRecordingBlindly(c) ==
    /\ At(c, "start_recording")
    /\ Move(c, IF recording THEN "start_reply" ELSE "new_recorder")

StartRecording(c) ==
    /\ At(c, "start_recording")
    /\ Move(c, IF ~running \/ recording THEN "start_reply" ELSE "new_recorder")

\* recorder_ = make_unique<Recorder>(): the pointer is replaced, then the
\* Recorder it held, if any, is destroyed.
NewRecorder(c) ==
    /\ At(c, "new_recorder")
    /\ recorder' = serial[c]
    /\ rstate' = [rstate EXCEPT ![serial[c]] = "idle"]
    /\ IF recorder = None
       THEN Goto(c, "recorder_start") /\ UNCHANGED <<ret, obj>>
       ELSE /\ obj' = [obj EXCEPT ![c] = recorder]
            /\ Call(c, "delete", "recorder_start")
    /\ UNCHANGED <<requestVars, cameraVars, recording, curFile, rfile, rmtx, rcfg, ended,
                   appVars>>

\* recorder_->start(): names the file, builds the muxing pipeline and sets it PLAYING.
RecorderStarts(c) ==
    /\ At(c, "recorder_start")
    /\ recorder # None
    /\ rstate' = [rstate EXCEPT ![recorder] = "recording"]
    /\ rcfg' = [rcfg EXCEPT ![recorder] = cfg]
    /\ rfile' = [rfile EXCEPT ![recorder] =
                    IF file[c] = None THEN Invented(recorder) ELSE file[c]]
    /\ Goto(c, "publish")
    /\ UNCHANGED <<ret, obj, requestVars, cameraVars, sessionVars, rmtx, ended, appVars>>

RecorderStartFails(c) ==
    /\ At(c, "recorder_start")
    /\ recorder # None
    /\ "recorder_fail" \in Faults
    /\ obj' = [obj EXCEPT ![c] = recorder]
    /\ recorder' = None
    /\ Call(c, "delete", "start_reply")
    /\ UNCHANGED <<requestVars, cameraVars, recording, curFile, objectVars, appVars>>

\* create_directories() throws out of the handler into dispatch(), which answers
\* an error; recorder_ keeps the IDLE Recorder.
RecorderStartThrows(c) ==
    /\ At(c, "recorder_start")
    /\ recorder # None
    /\ "recorder_throw" \in Faults
    /\ Goto(c, "start_reply")
    /\ reply' = [reply EXCEPT ![c] = "error"]
    /\ UNCHANGED <<ret, obj, cmd, want, serial, file, cmds, cameraVars, sessionVars,
                   objectVars, appVars>>

\* recorder_ was reset by another command since it was assigned.
RecorderStartOnNull(c) ==
    /\ At(c, "recorder_start")
    /\ recorder = None
    /\ Die("recorder")

Publish(c) ==
    /\ At(c, "publish")
    /\ curFile' = file[c]
    /\ recording' = TRUE
    /\ reply' = [reply EXCEPT ![c] = "ok"]
    /\ Goto(c, "start_reply")
    /\ UNCHANGED <<ret, obj, cmd, want, serial, file, cmds, cameraVars, recorder,
                   objectVars, appVars>>

-----------------------------------------------------------------------------
(* GstCameraSource::stop_recording and Recorder::stop, run by a command    *)
(* handler or, from GstCameraSource::stop, by main.                        *)

StopRecording(t) ==
    /\ At(t, "stop_recording")
    /\ Move(t, IF recording THEN "clear_flag" ELSE ret[t])

ClearFlag(t) ==
    /\ At(t, "clear_flag")
    /\ recording' = FALSE
    /\ Goto(t, "call_stop")
    /\ UNCHANGED <<ret, obj, requestVars, cameraVars, recorder, curFile, objectVars, appVars>>

\* Mutant: stop_recording() clears the flag and leaves the Recorder running.
CallStopDropped(t) ==
    /\ At(t, "call_stop")
    /\ Move(t, ret[t])

CallStop(t) ==
    /\ At(t, "call_stop")
    /\ IF recorder = None
       THEN Goto(t, ret[t]) /\ UNCHANGED obj
       ELSE Goto(t, "recorder_stop") /\ obj' = [obj EXCEPT ![t] = recorder]
    /\ UNCHANGED <<ret, requestVars, cameraVars, sessionVars, objectVars, appVars>>

\* Mutant: Recorder::stop() does not take mtx_.
RecorderStopUnlocked(t) ==
    /\ At(t, "recorder_stop")
    /\ rstate[obj[t]] # "freed"
    /\ IF rstate[obj[t]] = "recording"
       THEN /\ rstate' = [rstate EXCEPT ![obj[t]] = "stopping"]
            /\ Goto(t, "await_eos")
       ELSE Goto(t, "reset_recorder") /\ UNCHANGED rstate
    /\ UNCHANGED <<ret, obj, requestVars, cameraVars, sessionVars, rfile, rmtx, rcfg, ended,
                   appVars>>

\* Mutant: Recorder::stop() does not test state_ once it has mtx_.
RecorderStopUnchecked(t) ==
    /\ At(t, "recorder_stop")
    /\ rstate[obj[t]] # "freed"
    /\ rmtx[obj[t]] = Unlocked
    /\ rmtx' = [rmtx EXCEPT ![obj[t]] = t]
    /\ rstate' = [rstate EXCEPT ![obj[t]] = "stopping"]
    /\ Goto(t, "await_eos")
    /\ UNCHANGED <<ret, obj, requestVars, cameraVars, sessionVars, rfile, rcfg, ended, appVars>>

\* Takes mtx_; only a Recorder that is RECORDING is stopped.
RecorderStop(t) ==
    /\ At(t, "recorder_stop")
    /\ rstate[obj[t]] # "freed"
    /\ rmtx[obj[t]] = Unlocked
    /\ IF rstate[obj[t]] = "recording"
       THEN /\ rmtx' = [rmtx EXCEPT ![obj[t]] = t]
            /\ rstate' = [rstate EXCEPT ![obj[t]] = "stopping"]
            /\ Goto(t, "await_eos")
       ELSE Goto(t, "reset_recorder") /\ UNCHANGED <<rmtx, rstate>>
    /\ UNCHANGED <<ret, obj, requestVars, cameraVars, sessionVars, rfile, rcfg, ended, appVars>>

\* The Recorder was destroyed while this thread was on its way into stop().
RecorderStopOnFreed(t) ==
    /\ At(t, "recorder_stop")
    /\ rstate[obj[t]] = "freed"
    /\ Die("recorder")

\* The muxer has written the moov atom, or the wait for it timed out or failed:
\* stop() returns true in every case.
Outcomes == {"finalised"} \cup IF "eos_timeout" \in Faults THEN {"truncated"} ELSE {}

EndFile(t) ==
    /\ \E o \in Outcomes : ended' = [ended EXCEPT ![obj[t]] = o]
    /\ rmtx' = [rmtx EXCEPT ![obj[t]] = Unlocked]

AwaitEos(t) ==
    /\ At(t, "await_eos")
    /\ EndFile(t)
    /\ rstate' = [rstate EXCEPT ![obj[t]] = "idle"]
    /\ Goto(t, "reset_recorder")
    /\ UNCHANGED <<ret, obj, requestVars, cameraVars, sessionVars, rfile, rcfg, appVars>>

ResetRecorder(t) ==
    /\ At(t, "reset_recorder")
    /\ recorder' = None
    /\ obj' = [obj EXCEPT ![t] = recorder]
    /\ Goto(t, IF recorder = None THEN ret[t] ELSE "delete")
    /\ UNCHANGED <<ret, requestVars, cameraVars, recording, curFile, objectVars, appVars>>

\* Two threads in unique_ptr::reset() of the same Recorder: both destroy it.
DoubleReset(t, u) ==
    /\ t # u
    /\ At(t, "reset_recorder") /\ At(u, "reset_recorder")
    /\ recorder # None
    /\ Die("recorder")

\* ~Recorder(): stops the recording first unless the Recorder is IDLE.
Delete(t) ==
    /\ At(t, "delete")
    /\ rmtx[obj[t]] = Unlocked
    /\ IF rstate[obj[t]] = "recording"
       THEN /\ rmtx' = [rmtx EXCEPT ![obj[t]] = t]
            /\ rstate' = [rstate EXCEPT ![obj[t]] = "stopping"]
            /\ Goto(t, "delete_eos")
            /\ UNCHANGED obj
       ELSE /\ rstate' = [rstate EXCEPT ![obj[t]] = "freed"]
            /\ obj' = [obj EXCEPT ![t] = None]
            /\ Goto(t, ret[t])
            /\ UNCHANGED rmtx
    /\ UNCHANGED <<ret, requestVars, cameraVars, sessionVars, rfile, rcfg, ended, appVars>>

DeleteEos(t) ==
    /\ At(t, "delete_eos")
    /\ EndFile(t)
    /\ rstate' = [rstate EXCEPT ![obj[t]] = "freed"]
    /\ obj' = [obj EXCEPT ![t] = None]
    /\ Goto(t, ret[t])
    /\ UNCHANGED <<ret, requestVars, cameraVars, sessionVars, rfile, rcfg, appVars>>

-----------------------------------------------------------------------------
(* GstCameraSource::set_resolution and GstCameraSource::stop.              *)

Switch(c) ==
    /\ At(c, "switch")
    /\ IF recording THEN Call(c, "stop_recording", "stop")
                    ELSE Goto(c, "stop") /\ UNCHANGED ret
    /\ UNCHANGED <<obj, requestVars, cameraVars, sessionVars, objectVars, appVars>>

AfterStop(t) == IF t = Main THEN "dtor" ELSE "apply_cfg"

Stop(t) ==
    /\ At(t, "stop")
    /\ Move(t, IF running THEN "stop_finalize" ELSE AfterStop(t))

\* Mutant: stop() does not finalize the recording.
StopFinalizeDropped(t) ==
    /\ At(t, "stop_finalize")
    /\ Move(t, "stop_flags")

StopFinalize(t) ==
    /\ At(t, "stop_finalize")
    /\ IF recording THEN Call(t, "stop_recording", "stop_flags")
                    ELSE Goto(t, "stop_flags") /\ UNCHANGED ret
    /\ UNCHANGED <<obj, requestVars, cameraVars, sessionVars, objectVars, appVars>>

\* Mutant: stop() does not tell the bus thread to end.
StopFlagsWithoutBus(t) ==
    /\ At(t, "stop_flags")
    /\ running' = FALSE /\ abortRec' = TRUE
    /\ Goto(t, "join_rec")
    /\ UNCHANGED <<ret, obj, requestVars, cfg, pipeline, recThread, busThread, abortBus,
                   playing, pipeCfg, sessionVars, objectVars, appVars>>

StopFlags(t) ==
    /\ At(t, "stop_flags")
    /\ running' = FALSE /\ abortBus' = TRUE /\ abortRec' = TRUE
    /\ Goto(t, "join_rec")
    /\ UNCHANGED <<ret, obj, requestVars, cfg, pipeline, recThread, busThread, playing,
                   pipeCfg, sessionVars, objectVars, appVars>>

\* Mutant: the drain thread is not joined.
JoinRecDropped(t) ==
    /\ At(t, "join_rec")
    /\ Move(t, "set_null")

\* Mutant: the drain thread is detached instead of joined.
JoinRecDetaches(t) ==
    /\ At(t, "join_rec")
    /\ recThread' = FALSE
    /\ Goto(t, "set_null")
    /\ UNCHANGED <<ret, obj, requestVars, running, cfg, pipeline, busThread, abortRec,
                   abortBus, playing, pipeCfg, sessionVars, objectVars, appVars>>

JoinRec(t) ==
    /\ At(t, "join_rec")
    /\ recThread => At(Drain, "ended")
    /\ recThread' = FALSE
    /\ Goto(t, "set_null")
    /\ UNCHANGED <<ret, obj, requestVars, running, cfg, pipeline, busThread, abortRec,
                   abortBus, playing, pipeCfg, sessionVars, objectVars, appVars>>

\* Mutant: the pipeline is not set NULL.
SetNullDropped(t) ==
    /\ At(t, "set_null")
    /\ Move(t, "join_bus")

SetNull(t) ==
    /\ At(t, "set_null")
    /\ playing' = playing \ {pipeline}
    /\ Goto(t, "join_bus")
    /\ UNCHANGED <<ret, obj, requestVars, running, cfg, pipeline, recThread, busThread,
                   abortRec, abortBus, pipeCfg, sessionVars, objectVars, appVars>>

\* Mutant: the bus thread is not joined.
JoinBusDropped(t) ==
    /\ At(t, "join_bus")
    /\ Move(t, "unref")

JoinBus(t) ==
    /\ At(t, "join_bus")
    /\ busThread => At(Bus, "ended")
    /\ busThread' = FALSE
    /\ Goto(t, "unref")
    /\ UNCHANGED <<ret, obj, requestVars, running, cfg, pipeline, recThread, abortRec,
                   abortBus, playing, pipeCfg, sessionVars, objectVars, appVars>>

\* Two threads both found the thread joinable and both call join().
DoubleJoin(t, u) ==
    /\ t # u
    /\ \/ recThread /\ At(t, "join_rec") /\ At(u, "join_rec")
       \/ busThread /\ At(t, "join_bus") /\ At(u, "join_bus")
    /\ Die("double_join")

Unref(t) ==
    /\ At(t, "unref")
    /\ pipeline' = None
    /\ Goto(t, AfterStop(t))
    /\ UNCHANGED <<ret, obj, requestVars, running, cfg, recThread, busThread, abortRec,
                   abortBus, playing, pipeCfg, sessionVars, objectVars, appVars>>

ApplyCfg(c) ==
    /\ At(c, "apply_cfg")
    /\ cfg' = want[c]
    /\ Goto(c, "start")
    /\ UNCHANGED <<ret, obj, requestVars, running, pipeline, recThread, busThread,
                   abortRec, abortBus, playing, pipeCfg, sessionVars, objectVars, appVars>>

-----------------------------------------------------------------------------
(* GstCameraSource::start, run by main at startup and by set_resolution.   *)

Started(t, ok) ==
    IF t = Main
    THEN Goto(t, IF ok THEN "loop" ELSE "dtor") /\ UNCHANGED reply
    ELSE Finish(t, IF ok THEN "ok" ELSE "error")

Start(t) ==
    /\ At(t, "start")
    /\ IF running THEN Started(t, FALSE) ELSE Goto(t, "launch") /\ UNCHANGED reply
    /\ UNCHANGED <<ret, obj, cmd, want, serial, file, cmds, cameraVars, sessionVars,
                   objectVars, appVars>>

\* gst_parse_launch, the element look-ups and the change to PLAYING.
Launch(t) ==
    /\ At(t, "launch")
    /\ pipeline' = serial[t]
    /\ pipeCfg' = cfg
    /\ playing' = playing \cup {serial[t]}
    /\ Goto(t, "spawn_rec")
    /\ UNCHANGED <<ret, obj, requestVars, running, cfg, recThread, busThread, abortRec,
                   abortBus, sessionVars, objectVars, appVars>>

LaunchFails(t) ==
    /\ At(t, "launch")
    /\ "start_fail" \in Faults
    /\ pipeline' = None
    /\ Started(t, FALSE)
    /\ UNCHANGED <<ret, obj, cmd, want, serial, file, cmds, running, cfg, recThread,
                   busThread, abortRec, abortBus, playing, pipeCfg, sessionVars,
                   objectVars, appVars>>

SpawnRec(t) ==
    /\ At(t, "spawn_rec")
    /\ ~recThread
    /\ abortRec' = FALSE
    /\ recThread' = TRUE
    /\ pc' = [pc EXCEPT ![Drain] = "pull", ![t] = "spawn_bus"]
    /\ UNCHANGED <<ret, obj, requestVars, running, cfg, pipeline, busThread, abortBus,
                   playing, pipeCfg, sessionVars, objectVars, appVars>>

SpawnBus(t) ==
    /\ At(t, "spawn_bus")
    /\ ~busThread
    /\ running' = TRUE
    /\ abortBus' = FALSE
    /\ busThread' = TRUE
    /\ IF t = Main
       THEN pc' = [pc EXCEPT ![Bus] = "poll", ![t] = "loop"] /\ UNCHANGED reply
       ELSE /\ pc' = [pc EXCEPT ![Bus] = "poll", ![t] = "idle"]
            /\ reply' = [reply EXCEPT ![t] = "ok"]
    /\ UNCHANGED <<ret, obj, cmd, want, serial, file, cmds, cfg, pipeline, recThread,
                   abortRec, playing, pipeCfg, sessionVars, objectVars, appVars>>

\* Assigning to a joinable std::thread calls std::terminate.
SpawnOverJoinable(t) ==
    /\ \/ At(t, "spawn_rec") /\ recThread
       \/ At(t, "spawn_bus") /\ busThread
    /\ Die("terminate")

-----------------------------------------------------------------------------
(* rec_drain_thread_fn: pulls raw frames and feeds them to the Recorder.   *)

DrainAborts ==
    /\ At(Drain, "pull")
    /\ abortRec
    /\ Move(Drain, "ended")

Pull ==
    /\ At(Drain, "pull")
    /\ ~abortRec
    /\ pipeline \in playing
    /\ Move(Drain, "check")

\* if (recording_ && recorder_)
Check ==
    /\ At(Drain, "check")
    /\ Move(Drain, IF recording /\ recorder # None THEN "push_frame" ELSE "pull")

\* recorder_->push_frame(): tests state_ and appsrc_ of the Recorder.
PushFrame ==
    /\ At(Drain, "push_frame")
    /\ recorder # None
    /\ IF rstate[recorder] = "recording"
       THEN Goto(Drain, "push") /\ obj' = [obj EXCEPT ![Drain] = recorder]
       ELSE Goto(Drain, "pull") /\ UNCHANGED obj
    /\ UNCHANGED <<ret, requestVars, cameraVars, sessionVars, objectVars, appVars>>

PushFrameOnNull ==
    /\ At(Drain, "push_frame")
    /\ recorder = None
    /\ Die("drain")

\* gst_app_src_push_buffer on the appsrc of that Recorder.
Push ==
    /\ At(Drain, "push")
    /\ rstate[obj[Drain]] # "freed"
    /\ obj' = [obj EXCEPT ![Drain] = None]
    /\ Goto(Drain, "pull")
    /\ UNCHANGED <<ret, requestVars, cameraVars, sessionVars, objectVars, appVars>>

\* The appsrc was unreferenced by teardown_gst(), or the Recorder destroyed.
PushAfterTeardown ==
    /\ At(Drain, "push")
    /\ rstate[obj[Drain]] \in {"idle", "freed"}
    /\ Die("drain")

(* bus_thread_fn: an ERROR or EOS message of the camera pipeline.          *)

BusAborts ==
    /\ At(Bus, "poll")
    /\ abortBus
    /\ Move(Bus, "ended")

BusError ==
    /\ At(Bus, "poll")
    /\ "bus_error" \in Faults
    /\ pipeline \in playing
    /\ running
    /\ running' = FALSE
    /\ UNCHANGED <<threadVars, requestVars, cfg, pipeline, recThread, busThread, abortRec,
                   abortBus, playing, pipeCfg, sessionVars, objectVars, appVars>>

-----------------------------------------------------------------------------
(* main(): the loop, the shutdown sequence and the destructors.            *)

Signal ==
    /\ ~quit
    /\ quit' = TRUE
    /\ UNCHANGED <<threadVars, requestVars, cameraVars, sessionVars, objectVars,
                   resMutex, cfgPtr, crash>>

\* Mutant: the loop goes on after a signal as long as the camera runs.
LeaveLoopLate ==
    /\ At(Main, "loop")
    /\ quit /\ ~running
    /\ Move(Main, "ws_stop")

\* ws_server.stop() joins the server thread, which waits for every handler
\* thread, that is for every browser to go away; then gst_cam.stop().
LeaveLoop ==
    /\ At(Main, "loop")
    /\ quit \/ ~running
    /\ Move(Main, "ws_stop")

\* Mutant: ws_server.stop() does not join the server thread.
WsStopWithoutJoin ==
    /\ At(Main, "ws_stop")
    /\ Move(Main, "stop")

WsStop ==
    /\ At(Main, "ws_stop")
    /\ \A c \in Clients : At(c, "offline")
    /\ Move(Main, "stop")

\* ~GstCameraSource(): calls stop() when running_, which is false by now;
\* a std::thread destroyed while joinable calls std::terminate.
Destroy ==
    /\ At(Main, "dtor")
    /\ ~recThread /\ ~busThread
    /\ obj' = [obj EXCEPT ![Main] = recorder]
    /\ recorder' = None
    /\ IF recorder = None THEN Goto(Main, "exit") /\ UNCHANGED ret
                          ELSE Call(Main, "delete", "exit")
    /\ UNCHANGED <<requestVars, cameraVars, recording, curFile, objectVars, appVars>>

DestroyJoinable ==
    /\ At(Main, "dtor")
    /\ recThread \/ busThread
    /\ Die("terminate")

-----------------------------------------------------------------------------
Alive == crash = "none" /\ ~At(Main, "exit")

Recording(c) ==
    \/ StartRecording(c) \/ NewRecorder(c) \/ RecorderStarts(c) \/ RecorderStartFails(c)
    \/ RecorderStartThrows(c) \/ RecorderStartOnNull(c) \/ Publish(c)

Handling(c) ==
    \/ GetStatus(c) \/ RecordStart(c) \/ RecordRestart(c) \/ LockRes(c) \/ StartReply(c)
    \/ RecordStop(c) \/ StopReply(c) \/ SetResolution(c) \/ Switch(c) \/ ApplyCfg(c)
    \/ Recording(c)

\* The calls that both a handler thread and main make.
Shared(t) ==
    \/ StopRecording(t) \/ ClearFlag(t) \/ CallStop(t) \/ RecorderStop(t)
    \/ RecorderStopOnFreed(t) \/ AwaitEos(t) \/ ResetRecorder(t) \/ Delete(t)
    \/ DeleteEos(t)
    \/ Stop(t) \/ StopFinalize(t) \/ StopFlags(t) \/ JoinRec(t) \/ SetNull(t)
    \/ JoinBus(t) \/ Unref(t)
    \/ Start(t) \/ Launch(t) \/ LaunchFails(t) \/ SpawnRec(t) \/ SpawnBus(t)
    \/ SpawnOverJoinable(t)

Races == \E t, u \in Actors : DoubleReset(t, u) \/ DoubleJoin(t, u)

DrainStep ==
    \/ DrainAborts \/ Pull \/ Check \/ PushFrame \/ PushFrameOnNull \/ Push
    \/ PushAfterTeardown

MainStep == LeaveLoop \/ WsStop \/ Destroy \/ DestroyJoinable

Environment ==
    \/ \E c \in Clients : Connect(c) \/ Disconnect(c)
    \/ \E c \in Clients, k \in Commands, w \in Resolutions :
          (k = "set_resolution" \/ w = want[c]) /\ Request(c, k, w)
    \/ Signal \/ BusError

Next ==
    \/ Alive /\ (\/ Environment \/ Races \/ DrainStep \/ BusAborts \/ MainStep
                 \/ \E c \in Clients : Handling(c)
                 \/ \E t \in Actors : Shared(t))
    \/ ~Alive /\ UNCHANGED vars   \* the process has ended

(* The operating system schedules every thread; a browser need not act,    *)
(* nor is a fault or a signal bound to happen.                             *)
Fairness ==
    /\ \A c \in Clients : WF_vars(Alive /\ Handling(c))
    /\ \A t \in Actors : WF_vars(Alive /\ Shared(t))
    /\ WF_vars(Alive /\ DrainStep)
    /\ WF_vars(Alive /\ BusAborts)
    /\ WF_vars(Alive /\ MainStep)

Spec == Init /\ [][Next]_vars
FairSpec == Spec /\ Fairness

-----------------------------------------------------------------------------
(* Properties that hold for any number of clients and any faults.          *)

\* No two threads are inside start_recording() at once: main.cpp calls it only
\* with res_mutex held, from lock to reply, across every Recorder call it makes.
InStartRecording(c) ==
    \/ pc[c] \in StartRecordingLabels \cup {"start_reply"}
    \/ pc[c] \in DeleteLabels /\ ret[c] \in {"recorder_start", "start_reply"}
StartExclusive == \A c \in Clients : InStartRecording(c) => resMutex = c

\* Shutdown order of main.cpp: when main has passed ws_server.stop() no handler
\* thread runs any more, so gst_cam.stop() and the destructors race with none;
\* when the destructors run, stop() has been through or the camera is not running.
ShuttingDown == \/ pc[Main] \in StopLabels \cup StopRecordingLabels \cup {"dtor", "exit"}
                \/ pc[Main] \in DeleteLabels
ShutdownOrder ==
    /\ ShuttingDown => \A c \in Clients : At(c, "offline")
    /\ pc[Main] \in {"dtor", "exit"} => ~running

\* One MP4 is ended once: however many commands, stop() calls and destructors
\* meet at a Recorder, its mtx_ and state_ let one of them through to the EOS.
FinalisedOnce ==
    [][\A r \in Ids : ended[r] # "no" => /\ ended'[r] = ended[r]
                                         /\ rstate'[r] \in {"idle", "freed"}]_vars

-----------------------------------------------------------------------------
(* Properties of a single client, as long as the camera pipeline posts no  *)
(* error, and those that the code breaks (HotSwitch to StopFinalises).     *)

\* The only fault of the program's own is the drain thread's use of a Recorder
\* that stop_recording() ended: no std::terminate from a joinable thread, no
\* double join, no Recorder destroyed under a command.
OnlyDrainCrashes == crash \in {"none", "drain"}

\* is_recording() tells the truth: the camera runs, the Recorder exists and is
\* RECORDING at the camera's resolution, and the file name that current_recording()
\* reports is empty or that of the file it records into.
RecordingIsLive ==
    recording => /\ running /\ pipeline \in playing
                 /\ recorder # None
                 /\ rstate[recorder] = "recording"
                 /\ curFile \in {None, rfile[recorder]}
                 /\ rcfg[recorder] = pipeCfg

\* A frame the drain thread is about to push has the size its Recorder's caps
\* were built for, across any number of resolution switches.
FramesFitRecording == At(Drain, "push") => rcfg[obj[Drain]] = pipeCfg

\* The camera is held by one pipeline, the current one: set_resolution sets the
\* old pipeline NULL before it launches the next.
OneCamera == playing \subseteq {pipeline}

\* The element pointers the drain and bus threads use outlive both threads, and
\* a joinable thread object never outlives its pipeline.
ThreadsInsidePipeline ==
    \/ recThread \/ busThread \/ ~At(Drain, "ended") \/ ~At(Bus, "ended")
    => pipeline # None

\* stop() joins a thread only when that thread has been told to end, so a join
\* returns: no abort flag is cleared between its setting and the join.
JoinsReturn ==
    \A t \in Actors :
        /\ At(t, "join_rec") /\ recThread => abortRec \/ At(Drain, "ended")
        /\ At(t, "join_bus") /\ busThread => abortBus \/ At(Bus, "ended")

\* The files that were recorded into, and None if a Recorder has not begun.
RecordedFiles == {rfile[r] : r \in Ids}

\* No recording that was begun is still open: each MP4 has been ended.
NoneOpen == \A r \in Ids : rfile[r] # None => ended[r] # "no"

\* When record_stop answers ok every recording that was begun has been ended, and the
\* file it names, unless the name is empty, is the file of one of them.
OkStopMeansEnded ==
    \A c \in Clients : At(c, "idle") /\ cmd[c] = "record_stop" /\ reply[c] = "ok" =>
        /\ NoneOpen
        /\ file[c] \in {None} \cup RecordedFiles

\* At exit nothing is left: every MP4 that was begun has been ended, every Recorder is
\* destroyed, the camera is released and both threads have run to their end.
NothingLeftBehind ==
    At(Main, "exit") => /\ NoneOpen
                        /\ \A r \in Ids : rstate[r] \in {"unborn", "freed"}
                        /\ \A r \in Ids : rmtx[r] = Unlocked
                        /\ playing = {} /\ ~recording
                        /\ At(Drain, "ended") /\ At(Bus, "ended")

\* A change of resolution is a change at run time ("hot-switched", README.md): main
\* leaves its loop only after a signal, as long as no pipeline fails.
HotSwitch == At(Main, "ws_stop") => quit

\* A Recorder that is not recording takes no frame (recorder.h): no thread is
\* past push_frame's test of state_ when the Recorder has been destroyed.
NoPushAfterStop == At(Drain, "push") => rstate[obj[Drain]] # "freed"

\* stop() finalizes any active recording (gst_camera_source.cpp): none is left
\* when main has called it and reaches the destructors.
StopFinalises == At(Main, "dtor") => ~recording

\* Every command is answered, unless the process dies.
CommandsAnswered ==
    \A c \in Clients : pc[c] \notin {"idle", "offline"} ~> At(c, "idle") \/ crash # "none"

\* After a signal main exits once every browser has gone (ws_server.stop() waits
\* for them), unless the process dies.
ShutdownCompletes ==
    <>[](\A c \in Clients : At(c, "offline")) => (quit ~> At(Main, "exit") \/ crash # "none")

=============================================================================
