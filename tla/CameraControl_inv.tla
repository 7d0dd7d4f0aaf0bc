------------------------- MODULE CameraControl_inv -------------------------
(***************************************************************************)
(* The inductive invariants of CameraControl.  OwnershipInv is behind      *)
(* ShutdownOrder, StartExclusive and FinalisedOnce, for any number of      *)
(* browsers; SoleInv is behind the properties of one browser.              *)
(* CameraControl_proofs proves them.                                       *)
(***************************************************************************)
EXTENDS CameraControl

\* Where main may be while the camera is known not to run.
HaltedLabels == {"start", "launch", "spawn_rec", "spawn_bus", "join_rec", "set_null",
                 "join_bus", "unref", "dtor", "exit"}

\* Handler threads exist only while main is in its loop or waits for them, and main
\* is inside stop_recording() or ~Recorder() only from stop() or its own destructors.
MainInv ==
    /\ pc[Main] \notin {"loop", "ws_stop"} => \A c \in Clients : pc[c] = "offline"
    /\ pc[Main] \in HaltedLabels => ~running
    /\ pc[Main] \in StopRecordingLabels \cup DeleteLabels =>
          \/ ret[Main] = "stop_flags"
          \/ ret[Main] = "exit" /\ ~running

\* A handler thread inside start_recording() owns res_mutex, and returns from the
\* calls it makes there and elsewhere to a place that made such a call.
StopReturns == {"lock", "stop_reply", "stop", "stop_flags"}
LockInv ==
    \A c \in Clients :
        /\ InStartRecording(c) => resMutex = c
        /\ pc[c] \in StopRecordingLabels => ret[c] \in StopReturns
        /\ pc[c] \in DeleteLabels =>
              ret[c] \in StopReturns \cup {"recorder_start", "start_reply"}

\* An MP4 that has been ended belongs to a Recorder that no longer records.
EndedInv == \A r \in Ids : ended[r] # "no" => rstate[r] \in {"idle", "freed"}

\* A thread that waits for an EOS owns the mutex of its Recorder, alone.
StoppingInv ==
    \A t \in Actors : pc[t] \in {"await_eos", "delete_eos"} =>
        /\ obj[t] \in Ids
        /\ rmtx[obj[t]] = t
        /\ rstate[obj[t]] = "stopping"
        /\ ended[obj[t]] = "no"

\* The Recorder a command will create does not exist before; the one it has just
\* created stays in recorder_, unless another command has reset that, until it is
\* started, and has not recorded.
Within(c, labels, back) ==
    \/ pc[c] \in labels
    \/ pc[c] \in StopRecordingLabels \cup DeleteLabels /\ ret[c] \in back
BeforeBirth(c) ==
    Within(c, {"record_start", "record_restart", "lock", "start_recording", "new_recorder"},
              {"lock"})
AfterBirth(c) == Within(c, {"recorder_start"}, {"recorder_start"})
BirthInv ==
    \A c \in Clients :
        /\ BeforeBirth(c) => serial[c] \in Ids /\ rstate[serial[c]] = "unborn"
        /\ AfterBirth(c) => /\ serial[c] \in Ids
                            /\ recorder \in {None, serial[c]}
                            /\ rstate[serial[c]] \in {"idle", "freed"}
                            /\ ended[serial[c]] = "no"

\* recorder_, and a thread inside a Recorder, refer to one that was created.
BornInv ==
    /\ recorder # None => rstate[recorder] # "unborn"
    /\ \A t \in Actors :
          pc[t] \in {"recorder_stop", "await_eos", "delete", "delete_eos"} =>
              obj[t] \in Ids /\ rstate[obj[t]] # "unborn"

\* Every command has a number of its own.
SerialInv ==
    /\ \A r \in Ids : r > cmds => rstate[r] = "unborn"
    /\ \A c \in Clients : serial[c] <= cmds
    /\ \A c, d \in Clients : serial[c] = serial[d] /\ serial[c] # None => c = d

RecorderInv == EndedInv /\ StoppingInv /\ BirthInv /\ BornInv /\ SerialInv

\* However the commands of any number of browsers, main's shutdown and the faults
\* interleave: who is inside start_recording(), stop_recording() and ~Recorder()
\* owns the mutexes main.cpp and recorder.cpp mean it to own.
OwnershipInv == MainInv /\ LockInv /\ RecorderInv

-----------------------------------------------------------------------------
(* One browser, and a camera pipeline that posts no error.                 *)

OneBrowser == \A c, d \in Clients : c = d
NoBusError == "bus_error" \notin Faults

\* Threads that run commands, but for those that do nothing of the kind.
Working(t) == pc[t] \notin {"offline", "loop", "ws_stop"}

\* The camera runs, or is released.
Up ==
    /\ running /\ recThread /\ busThread /\ ~abortRec /\ ~abortBus
    /\ pipeline # None /\ playing = {pipeline} /\ pipeCfg = cfg
    /\ pc[Drain] # "ended" /\ pc[Bus] # "ended"
Down ==
    /\ ~running /\ ~recThread /\ ~busThread
    /\ pipeline = None /\ playing = {}
    /\ pc[Drain] = "ended" /\ pc[Bus] = "ended"

\* How far stop() and start() are, at their labels in between.
Phases == {"join_rec", "set_null", "join_bus", "unref", "spawn_rec", "spawn_bus"}
PhaseInv ==
    \A t \in Actors :
        /\ pc[t] \in Phases => ~running /\ pipeline # None
        /\ pc[t] = "join_rec" => recThread /\ abortRec
        /\ pc[t] \in {"join_rec", "set_null", "join_bus"} => busThread /\ abortBus
        /\ pc[t] \in Phases \ {"join_rec", "spawn_bus"} => ~recThread /\ pc[Drain] = "ended"
        /\ pc[t] \in {"unref", "spawn_rec", "spawn_bus"} => ~busThread /\ pc[Bus] = "ended"
        /\ pc[t] = "spawn_bus" => recThread /\ ~abortRec /\ pc[Drain] # "ended"
        /\ pc[t] \in {"join_bus", "unref"} => playing = {}
        /\ pc[t] \in {"join_rec", "set_null", "spawn_rec", "spawn_bus"} => playing = {pipeline}
        /\ pc[t] \in {"spawn_rec", "spawn_bus"} => pipeCfg = cfg
SteadyInv == (\A t \in Actors : pc[t] \notin Phases) => Up \/ Down

\* What a thread has found running_ to be still holds.
RunningInv ==
    \A t \in Actors :
        /\ pc[t] \in {"stop_finalize", "stop_flags", "new_recorder", "recorder_start", "publish"}
              => running
        /\ pc[t] \in StopRecordingLabels \cup DeleteLabels
              /\ ret[t] \in {"stop_flags", "recorder_start"} => running
        /\ pc[t] \in {"apply_cfg", "start", "launch", "dtor", "exit"} => ~running

\* A command that is being handled has a number.
NumberedInv ==
    /\ serial[Main] = 1
    /\ \A c \in Clients : pc[c] \notin {"offline", "idle"} => serial[c] \in Ids

CameraInv == PhaseInv /\ SteadyInv /\ RunningInv /\ NumberedInv

\* The Recorder in recorder_, as the thread at work has left it.
SessionInv ==
    /\ recording => /\ running /\ recorder # None /\ rstate[recorder] = "recording"
                    /\ curFile \in {None, rfile[recorder]}
    /\ recorder # None /\ rstate[recorder] = "recording" => running /\ rcfg[recorder] = pipeCfg
    /\ recorder # None /\ ~recording /\ rstate[recorder] # "idle" =>
          \E t \in Actors : pc[t] \in {"publish", "call_stop", "recorder_stop", "await_eos"}
    /\ pc[Main] = "exit" => recorder = None

\* What a thread inside start_recording() or stop_recording() knows of it.
SettledLabels == {"new_recorder", "recorder_start", "publish", "call_stop", "recorder_stop",
                  "await_eos", "reset_recorder", "delete", "stop_flags"}
InsideInv ==
    \A t \in Actors :
        /\ pc[t] \in SettledLabels => ~recording
        /\ pc[t] = "clear_flag" => recording
        /\ pc[t] \in {"call_stop", "recorder_stop", "await_eos", "reset_recorder"} => recorder # None
        /\ pc[t] \in {"publish", "call_stop", "recorder_stop"} => rstate[recorder] = "recording"
        /\ pc[t] \in {"recorder_stop", "await_eos"} => obj[t] = recorder
        /\ pc[t] \in {"reset_recorder", "recorder_start"} => rstate[recorder] = "idle"
        /\ pc[t] \in {"recorder_start", "publish"} => recorder = serial[t]
        /\ pc[t] = "delete" => /\ obj[t] \in Ids /\ obj[t] # recorder /\ rstate[obj[t]] = "idle"
                               /\ recorder = IF ret[t] = "recorder_start" THEN serial[t] ELSE None
        /\ pc[t] \in StopRecordingLabels => ret[t] # "exit"
        /\ pc[t] # "delete_eos"
\* The name the handler passed on is empty or the one the Recorder records into.
NamedInv ==
    \A c \in Clients : pc[c] = "publish" => file[c] \in {None, rfile[recorder]}

\* No other Recorder is left, and no mutex held.
RestInv ==
    \A r \in Ids :
        /\ rstate[r] \notin {"unborn", "freed"} =>
              r = recorder \/ \E t \in Actors : pc[t] = "delete" /\ obj[t] = r
        /\ rmtx[r] # Unlocked => \E t \in Actors : pc[t] = "await_eos" /\ obj[t] = r

\* A recording that was begun goes on, or has been ended.
BegunInv ==
    \A r \in Ids : rfile[r] # None =>
        ended[r] # "no" \/ rstate[r] \in {"recording", "stopping"}

HeldInv == SessionInv /\ InsideInv /\ NamedInv /\ RestInv

\* The drain thread is inside a Recorder of the pipeline it pulls from.
PushInv == pc[Drain] = "push" => obj[Drain] \in Ids /\ rcfg[obj[Drain]] = pipeCfg

\* record_stop names the file of the Recorder it found, or none, and when it has been
\* through Recorder::stop() no recording is open.
StopPath(c, labels) == pc[c] \in labels /\ ret[c] = "stop_reply"
HasStopped(c) ==
    \/ StopPath(c, {"reset_recorder"} \cup DeleteLabels)
    \/ pc[c] = "stop_reply"
    \/ pc[c] \in {"idle", "offline"} /\ cmd[c] = "record_stop" /\ reply[c] = "ok"
AnswerInv ==
    \A c \in Clients :
        /\ cmd[c] = "record_stop" =>
              \/ pc[c] \in {"offline", "idle", "record_stop", "stop_reply"}
              \/ StopPath(c, StopRecordingLabels \cup DeleteLabels)
        /\ StopPath(c, {"stop_recording"}) => recording
        /\ StopPath(c, StopRecordingLabels \cup DeleteLabels) =>
              file[c] \in {None} \cup RecordedFiles
        /\ HasStopped(c) => NoneOpen /\ file[c] \in {None} \cup RecordedFiles

\* All that one thread at a time keeps of the camera, the Recorder and its answers.
SoleInv == CameraInv /\ HeldInv /\ BegunInv /\ PushInv /\ AnswerInv /\ OnlyDrainCrashes
=============================================================================
