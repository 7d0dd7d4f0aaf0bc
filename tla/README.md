# A verification project for RasPiZeroCam

TLA+ models of the camera application in this repository, TLC configurations that
check them on small instances, and TLAPS proofs of the properties that do not depend
on the size of the instance. All paths are relative to the repository; `src/src/...`
in `PROJECT.json` is its directory `src/`.

## 1. The system and its components

One process (`pizero2cam_app`) with these threads:

| thread | created by | runs |
|---|---|---|
| main | – | start-up, the 250 ms loop, shutdown, destructors (`main.cpp`) |
| one WebSocket handler per browser | httplib's pool in `WsServer` | `CommandDispatcher::dispatch` and the command lambdas of `main.cpp` |
| drain (`rec_thread_`) | `GstCameraSource::start` | pulls raw frames, feeds the `Recorder` |
| bus (`bus_thread_`) | `GstCameraSource::start` | ERROR and EOS of the camera pipeline |
| GStreamer streaming thread | GStreamer | `on_jpeg_sample`: MJPEG frame to `MjpegServer`, snapshot file |
| HTTP workers | httplib's pool in `MjpegServer` | one per `/stream.mjpeg` viewer |
| battery | `BatteryMonitor` | reads the INA219, broadcasts |

### Inventory

* **main.cpp.** State: `res_mutex`, `cfg_ptr`, `g_running`. Operations: the commands
  `get_status`, `set_resolution`, `record_start`, `record_stop`, `record_restart`,
  `snapshot`, `list_recordings`, `delete_recording`; the loop with its pushes; the
  shutdown sequence battery, WebSocket server, camera, streamer. Hard: the handlers run
  concurrently, and only `record_start`/`record_restart` hold `res_mutex` across their
  work. Right if a recording is ended once and never lost, every command is answered,
  and shutdown meets no thread that still uses what it destroys.
* **GstCameraSource.** State: `running_`, `cfg_`, `pipeline_`, the two threads and their
  abort flags, `recording_`, `recorder_`, `current_file_`, `snapshot_pending_`,
  `snapshot_path_`. Operations: `start`, `stop`, `set_resolution`, `start_recording`,
  `stop_recording`, `take_snapshot`, the drain, bus and JPEG callbacks. Hard: nearly all
  of it is unlocked and called from several threads. Right if a pipeline is gone before
  the next is built, threads live inside their pipeline, `is_recording()` tells the
  truth, and a snapshot that is reported is on disk.
* **Recorder.** State: `state_` (IDLE, RECORDING, STOPPING), `mtx_`, `hw_encoder_`, the muxing
  pipeline with `appsrc_` and `bus_`, the time base `first_output_`/`base_ts_us_`.
  Operations: `start`, `stop`, `restart`, `push_frame`, `poll_bus`, the encoder's output
  callback, destructor. Hard: `push_frame` and the callback take no lock; `stop` drains the
  encoder, then waits a bounded time for EOS; an ERROR seen by `poll_bus` ends the
  recording but undoes nothing. Right if what is in a file is that recording's frames, in
  order and, after an end of stream, all of them.
* **MjpegServer.** State: `latest_jpeg_`, `latest_seq_` (under `jpeg_mutex_`, with
  `jpeg_cv_`), `client_count_`, the server thread. Hard: lost wake-ups, the count on every
  way a stream ends, a stop while viewers wait.
* **WsServer**, **CommandDispatcher.** State: `clients_` (raw pointers, under
  `clients_mutex_`), `client_count_`. Two threads broadcast while handlers come and go.
  Hard: dangling pointers, sends under a mutex, exceptions of a handler, what `stop`
  waits for.
* **BatteryMonitor**, **INA219.** State: the last record under `data_mutex_`; the chip's
  CONFIG and CALIBRATION registers. A polling thread takes a record by several I2C
  transfers, each of which may fail and then counts as a zero; the chip may lose its
  registers. Right if readers see whole records and the record recovers.
* **CameraManager**, **Frame**, **FrameQueue** (`src/camera/`): the first-generation
  libcamera capture. It is compiled and linked, but `main.cpp` builds a `GstCameraSource`
  instead. Hard: DMA buffers shared through reference counts across a change of
  resolution, and a lock-free ring whose indices wrap.
* **H264HardwareEncoder**, **JpegHwEncoder**, **JpegMtEncoder**: compiled; of these only
  `H264HardwareEncoder` is reached, through a `Recorder` with `sw_encoder = false`, which
  `main.cpp` never asks for. State: free slots, frames kept alive, queues between threads,
  abort flags. Hard: two or more threads and the codec share slots and buffers, and the
  destructor has to drain them. Right if frames come out once and in order, nothing is
  lost, and the destructor returns.
* **web/index.html**, **scripts/**, build files, **third_party/**; `src/snapshot/` is empty.

Interaction: browsers call commands over the WebSocket; a command calls
`GstCameraSource`, which creates and destroys `Recorder`s; the camera's threads call
`Recorder::push_frame` and `MjpegServer::on_jpeg_ready`; main and the battery thread push
through `WsServer::broadcast`; main joins everything at the end.

`PROJECT.json` lists under "hazards", line by line, what in this is hard to test.

## 2. The modules

| module | models | extends / uses |
|---|---|---|
| `CameraControl` | command handlers, `GstCameraSource`'s life cycle, `Recorder`s, drain and bus threads, main's loop, shutdown and destructors | |
| `CameraControl_inv` | its inductive invariants | `CameraControl` |
| `CameraControl_proofs` | its theorems | `CameraControl_inv`, TLAPS |
| `Snapshot` | `take_snapshot` against `on_jpeg_sample` | |
| `Snapshot_proofs` | its theorems | `Snapshot`, TLAPS |
| `MjpegServer` | frames, viewers, `stop` | |
| `MjpegServer_proofs` | its theorems | `MjpegServer`, TLAPS |
| `WsServer` | connections, dispatch, broadcasts, battery thread, `stop` | |
| `WsServer_proofs` | its theorems | `WsServer`, TLAPS |
| `Ina219` | the sensor's registers and the driver's access to them | |
| `BatteryMonitor` | `initialize`, the polling thread, its records and their readers | `Ina219` |
| `BatteryMonitor_proofs` | its theorems | `BatteryMonitor`, TLAPS |
| `CameraBuffers` | `CameraManager`, `Frame`, both queues | |
| `CameraBuffers_proofs` | its theorems | `CameraBuffers`, TLAPS |
| `Fifo` | what a frame queue promises: a bounded FIFO | |
| `FrameQueue` | the ring, step by step | `Fifo` by INSTANCE |
| `Encoder` | what an encoder promises: frames come out once, in order, and its destructor returns with nothing inside | |
| `JpegMtEncoder` | workers, reordering output thread, destructor | `Encoder` by INSTANCE |
| `V4l2Encoder` | both hardware encoders and the codec they drive | `Encoder` by INSTANCE |
| `Recorder` | the `Recorder` with the hardware encoder, of which it assumes what `Encoder` says | |
| `Recorder_proofs` | its theorems | `Recorder`, TLAPS |
| `Stages` | the four stages behind the camera side by side, and the fairness of their threads | `FrameQueue`; `JpegMtEncoder`, `V4l2Encoder`, `Recorder` by INSTANCE |
| `Stages_proofs` | the theorems about the ring, the encoders and the stages together | `Stages`, TLAPS; `Recorder_proofs` by INSTANCE |
| other `MC…` | instances for TLC | the module of that name |

Correspondence. In each module a thread has a label in `pc`; a label is a place between
two accesses to shared state, and an action is one such access with its guard (early
returns, lock waits) and its assignments. A lock is a variable holding its owner. What
C++ leaves undefined, or `std::terminate`, is an action of its own (`Die` in
`CameraControl`, `terminated` in `WsServer`) or a value of `fault` (`CameraBuffers`,
`Recorder`), after which nothing more is claimed. `map` in `PROJECT.json` gives the lines of
every definition.

Steps that are merged because no other thread can tell: the three stores of `stop()`
(`StopFlags`: nothing reads two of them together), `gst_parse_launch` with the change to
PLAYING (`Launch`: the drain and bus threads of that pipeline do not exist yet), the
reply of a handler with its return.

Abstractions:

* `CameraControl` numbers commands; a pipeline, a `Recorder` and its file carry the
  number of the command that made them. A browser's file name is that number, or empty:
  then the `Recorder` makes up a name of its own (recorder.cpp:44), a negative number. So
  names that are not empty are distinct here, which in the code holds if two recordings do
  not start within one second and no browser names a file twice. Frames have no content
  but the resolution they were captured with. `streamer.stop()`, the last step of
  shutdown, is in `MjpegServer`; the two share nothing.
* A browser sends its next command after the reply to the last, as `ws_server.cpp:35-43`
  serves it: one message at a time for each connection.
* `CameraControl` has the `Recorder` as `GstCameraSource` uses it, `sw_encoder = true`
  (gst_camera_source.cpp:261), where `push_frame` writes to the pipeline itself and no
  callback runs, so that `poll_bus` is never called. The module `Recorder` has the other
  path, with one thread that calls `start`, `stop`, `restart` and the destructor and one
  that calls `push_frame`; that several threads may call `stop` is in `CameraControl`.
* An encoder's frames are numbers of `encode()` calls; pixels, bit rates and compression
  are left out. `encode()` does not overlap the destructor of its encoder: the owner's
  consumer thread is the only caller. (`Recorder` shows where that fails: `fault`.)
* The V4L2 codec reads the OUTPUT slots in order and fills one CAPTURE buffer for each, in
  order, but may return a slot before or after it has filled the buffer. The device is
  opened without `O_NONBLOCK` (h264_hw_encoder.cpp:39), so `VIDIOC_DQBUF` waits.
* `BatteryMonitor` counts in mV, mA and uW; the scaling by the registers' LSBs is left out,
  the conversion to a percentage is not. The sensor has one user at a time, so one label
  stands for main during `initialize` and `start` and for the polling thread afterwards.
* libcamera, GStreamer and httplib are modelled from what the code relies on: setting a
  pipeline NULL waits for its streaming threads; `Server::stop()` closes the listening
  socket and `listen()` returns when the workers have ended; `Camera::stop()` cancels the
  queued requests and waits for the event thread.
* `CameraBuffers` uses its queues as atomic: `FrameQueue` justifies that.

## 3. What the runs show

Bounds: every run is exhaustive for its instance.

| run | instance | why it is enough |
|---|---|---|
| `CameraControl_one` | 1 browser, 4 commands (main's start included), 2 presets, all faults but `bus_error` | start, stop, restart and switch in any order of three; a recording across a switch and its successor need two and three commands |
| `CameraControl_two` | 2 browsers, 1 preset, 3 kinds of command, 4 commands, `bus_error` | two threads inside any two of stop, start and stop_recording, with a third command to meet what they left |
| `Snapshot` | 1 client, 2 files and the empty path, 4 frames | a request may be cancelled, its late write land, and a second request be answered |
| `MjpegServer` | 2 viewers, 3 frames, a pool of 1 or 2 workers | a viewer may miss a frame and still get the next, the other may be in any other place, or queued for a worker |
| `WsServer` | 2 connections, 2 broadcasters, a good message and one that throws | one connection ends while a broadcast is in the middle of the two |
| `CameraBuffers` | 2 opens, 4 frames, a still queue of 1; either 2 buffers, a queue of 4 and callers that drain before they close, or 1 buffer, a queue of 1 and callers that do not | a frame in both queues at once while the other buffer moves on; a frame of the first open fills the queue of the second; no more than 4 frames can be alive, two of each open |
| `Stages`, ring | 4 slots, indices modulo 8, 2 frames | the indices wrap several times in every state of fullness |
| `Stages`, JPEG workers | 3 workers, a queue of 2, 4 frames | a frame overtakes two others, the queue refuses one |
| `Stages`, codec | 2 slots, 2 CAPTURE buffers, 4 frames, `VIDIOC_QBUF` and `poll()` failing | every slot and buffer is used again while the other is elsewhere |
| `Stages`, `Recorder` | 2 recordings, 2 frames together, failures of encoder, pipeline and poll thread | a frame of the first recording is still in its encoder when the second begins |
| `BatteryMonitor` | 2 states of the battery, 2 disturbances (change, brown-out, failing transfer) | the second disturbance meets the repair of the first |

* **`CameraControl_one`.** `RecordingIsLive` (what `is_recording()` reports is a RECORDING
  Recorder at the camera's resolution, and the name `current_recording()` reports is empty
  or that of the file it records into), `FramesFitRecording` and `OneCamera` (across
  switches), `ThreadsInsidePipeline`, `JoinsReturn`; `OkStopMeansEnded` (after an ok to
  `record_stop` no recording that was begun is open, and a name in the reply is that of a
  recorded file); `NothingLeftBehind` at exit, which has that none is open as well;
  `OnlyDrainCrashes`: the one way the process can die is the drain thread's race with
  `stop_recording`. `CommandsAnswered` and `ShutdownCompletes` are liveness properties.
* **`CameraControl_two`.** What remains true when two browsers' commands interleave and
  the camera pipeline fails: `StartExclusive`, `ShutdownOrder`, `FinalisedOnce` and the
  inductive invariant `OwnershipInv`. Deadlock is not checked: two `set_resolution`s can
  leave a handler joining a thread that nobody stops (section 5).
* **`Snapshot`.** `OkMeansFresh`: for one client, `ok` means that a frame not yet handled
  at the time of the request is in the file, if the request names one (section 5 for an
  empty path). `NothingAfterReply`: a frame that arrives after the reply, ok or error, is
  not written to its file. One that had arrived may be: `on_jpeg_sample` tests the flag
  before it takes the mutex, and a request that expires in between is answered "error"
  and its file written all the same. `RequestsAnswered`.
* **`MjpegServer`.** `NoLostWakeup`, `FramesAdvance`, `FramesReachViewers`, `CountIsRight`,
  `StopReturns` (with viewers still connected).
* **`WsServer`.** `PointersAreLive`: no broadcast touches a WebSocket whose handler has
  returned. `NoPushAfterStop`, `RequestsAnswered`, `ShutdownCompletes`.
* **`CameraBuffers`.** `OneOwner`: the camera never writes into a buffer a frame views, if
  callers drain before they close. `KeepsBuffers` and `BuffersReturn`: no step loses a
  buffer, and each comes back.
* **`Stages`.** Four parts that share no state, in one run; `stage` says which one a
  behaviour exercises.
  * The ring: `SlotsApart`, and `ImplementsFifo`: under the mapping `Contents` it implements
    `Fifo`, refusing only when full and missing only when empty.
  * The encoders: `ImplementsEncoder` (`JpegMtEncoder` and `V4l2Encoder` implement `Encoder`;
    the codec that stops where it is, `JpegHwEncoder`, and one whose `poll()` has failed
    are `lossy`), `SlotsConserved`, `CaptureApart`, `FramesReleased`. That
    `H264HardwareEncoder` drains is less obvious than its comments say: the loop leaves
    when all input slots are back, which alone would leave results in the CAPTURE queue.
    It works because `poll()` asks for POLLIN, that is the CAPTURE queue, only (the comment
    "either queue" in h264_hw_encoder.cpp:262 is wrong), and the descriptor blocks: each turn
    takes back one slot and one result, in lockstep.
  * The `Recorder`: `FilesInOrder` (a file has frames of its own recording, without a gap from
    the first on, with times that count from one frame, which is that first one unless an
    error has ended the recording before) and `StoppedComplete` (a file ended
    by EOS has all that `push_frame` accepted, for `stop` drains the encoder before it ends
    the stream).
  * `CallsReturn`: the destructors of the encoders, and `start`, `stop`, `restart` and the
    destructor of the `Recorder`, return.
* **`BatteryMonitor`.** `RecordsWhole`: `get_json()` never mixes two records.
  `RecordsRecover`: once disturbances are over the record shows the battery as it is, since
  every poll writes the calibration before it needs it.

Deadlock is checked except where the system ends by itself (`CameraBuffers`, `MjpegServer`,
`Stages`, `BatteryMonitor`), and in `CameraControl_two`.

### Fairness, and why the code justifies it

Threads are scheduled by the operating system: weak fairness for each thread's own steps.
In `MjpegServer` and `WsServer` a thread acquires a mutex that others take and release
for ever: strong fairness for that step, since critical sections are short and Linux
mutexes do not starve a waiter for ever; likewise in `BatteryMonitor` for the polling
thread, whose mutex readers take in between; a `send` ends because httplib has a write
timeout. The V4L2 codec works on what it has, and the sensor converts. Time-outs (500 ms in
`take_snapshot` and `wait_for_jpeg`) do expire. Nothing is assumed of browsers, frames,
callers of `encode`, `start` and `stop`, signals, disks or faults: no liveness property
depends on a browser sending, and the two named `ShutdownCompletes` say "if the browsers
go". A fault such as a failing `poll()` is a step nobody is obliged to take.

### Where code and documentation disagree

Four runs expect a violation; the counterexample is what the code does.

* `CameraControl_hot_switch`: `set_resolution` clears `running_` for the time it rebuilds
  the pipeline, main's loop condition (main.cpp:293) reads it every 250 ms, and the
  program shuts down: the switch is not "at runtime" (README.md:35).
* `CameraControl_drain`: the drain thread is inside `push_frame` of a `Recorder` that
  `stop_recording` has destroyed (recorder.h:69-70).
* `Recorder_after_error`: an ERROR of its pipeline ends a recording and leaves its encoder
  in `hw_encoder_`. The next `start` resets `first_output_` and `base_ts_us_` and then
  destroys that encoder, whose last frames pass through the callback: the first of them
  sets the base, and the times of the new file count from a frame of the recording before
  (recorder.cpp:101, recorder.h:95). TLC's trace has one frame in each recording.
  (main.cpp uses the software encoder only.)
* `WsServer_stop`: `stop()` does not close the clients' connections and waits for silent
  browsers (ws_server.h:41).

## 4. What is proved

`tlapm M_proofs.tla`, for each of the eight modules below. A theorem holds for every value
of its module's constants: any sets of browsers, viewers, commands, presets, buffers,
frames and faults, and any bounds. The assumptions are those the modules state on their
constants, which TLC evaluates in the runs, and for some theorems a hypothesis more:

* the names of the threads differ, and are not the value for "nobody"; what stands for "no
  frame", "no file" or "empty slot" is none of the real ones; bounds are numbers, and the
  resolution at the start is a preset;
* the ring in `Stages`: `N >= 2` slots and `Modulus` index values, a multiple of `N` greater than it.
  The code has `N = 8` (and 2 for stills) and `Modulus = 2^64`;
* `BatteryMonitor`: a battery has a voltage and a current, and the threshold is a percentage;
* `CameraBuffers!OneOwnerEach`: where callers drain the queue before they close the camera,
  it has room for twice the buffers (`DeepQueues`). `FrameQueue<8>` and `bufferCount = 4`
  meet it exactly, and it is needed: TLC refutes `OneOwner` with 2 buffers and a queue of 3;
* `Snapshot!OkIsFresh`: one browser, and a disk that takes every file. With two browsers, or
  a disk that fails, the property is false (section 5). `NothingLate`: one browser;
* the nine theorems of `CameraControl_proofs` from `SoleHolds` on: one browser (`OneBrowser`) and
  no error message from the camera pipeline (`NoBusError`), for any commands, presets, number
  of commands and the four other faults. With two browsers TLC refutes all eight properties;
  with `bus_error` it refutes `OnlyDrainCrashes`, `RecordingIsLive`, `FramesFitRecording` and
  `OneCamera` (sections 3 and 5);
* `Recorder`: `MaxStarts` and `MaxFrames` are natural numbers (a hypothesis of each theorem,
  as the module is used by INSTANCE only; `Stages` assumes it of its own, `BoundsOK`, and the
  theorems on the stages together need it no longer);
* `Stages`: there is a worker, the output thread is none of them (`WorkersOK`), and the bounds
  and numbers of slots are natural numbers (`BoundsOK`);
* `Stages!CodecImplements` and `Stages!RunEncoders`: `Granted <= NumOutputBuffers`, that is, the
  driver grants no more OUTPUT slots than `VIDIOC_REQBUFS` asks for. V4L2 allows both fewer and
  more. The code needs it: TLC refutes `ImplementsEncoder` with 3 slots granted and 2 asked
  for, and not with 2 granted and 2 or 3 asked for. `RunSlots` and `RunCapture` hold without.

| module | theorem | says |
|---|---|---|
| `CameraControl_proofs` | `TypeCorrect` | `Spec => []TypeOK` |
| | `ShutdownOrdered` | `Spec => []ShutdownOrder` |
| | `StartsExclude` | `Spec => []StartExclusive` |
| | `OwnershipHolds` | `Spec => []OwnershipInv` |
| | `EndedOnce` | `Spec => FinalisedOnce` |
| | `SoleHolds` | `Spec => [](TypeOK /\ OwnershipInv /\ SoleInv)` |
| | `CrashesOfDrainOnly` | `Spec => []OnlyDrainCrashes` |
| | `RecordingTold` | `Spec => []RecordingIsLive` |
| | `FramesFit` | `Spec => []FramesFitRecording` |
| | `CameraHeldOnce` | `Spec => []OneCamera` |
| | `ThreadsInside` | `Spec => []ThreadsInsidePipeline` |
| | `JoinsEnd` | `Spec => []JoinsReturn` |
| | `OkStopEnded` | `Spec => []OkStopMeansEnded` |
| | `NothingLeft` | `Spec => []NothingLeftBehind` |
| `Snapshot_proofs` | `TypeCorrect` | `Spec => []TypeOK` |
| | `WaiterBehindFlag` | `Spec => []PendingHasWaiter` |
| | `OkIsFresh` | `Spec => []OkMeansFresh` |
| | `NothingLate` | `Spec => []NothingAfterReply` |
| `BatteryMonitor_proofs` | `TypeCorrect` | `Spec => []TypeOK` |
| | `ReadersSeeWhole` | `Spec => []RecordsWhole` |
| `WsServer_proofs` | `TypeCorrect` | `Spec => []TypeOK` |
| | `PointersLive` | `Spec => []PointersAreLive` |
| | `NobodyPushesAfterStop` | `Spec => []NoPushAfterStop` |
| `MjpegServer_proofs` | `TypeCorrect` | `Spec => []TypeOK` |
| | `ClientsCounted` | `Spec => []CountIsRight` |
| | `WakeupsKept` | `Spec => []NoLostWakeup` |
| | `NewerFramesOnly` | `Spec => FramesAdvance` |
| `CameraBuffers_proofs` | `TypeCorrect` | `Spec => []TypeOK` |
| | `BuffersKept` | `Spec => KeepsBuffers` |
| | `OneOwnerEach` | `Spec => []OneOwner` |
| `Recorder_proofs` | `TypeCorrect` | `Spec => []TypeOK` |
| | `InOrder` | `Spec => []FilesInOrder` |
| | `Complete` | `Spec => []StoppedComplete` |
| `Stages_proofs` | `TypeCorrect` | the ring: `Spec => []TypeOK` |
| | `SidesApart` | the ring: `Spec => []SlotsApart` |
| | `RingIsFifo` | the ring: `Spec => ImplementsFifo` |
| | `CodecTypeCorrect` | `V4l2Encoder`: `Spec => []TypeOK` |
| | `CodecImplements` | `V4l2Encoder`: `Spec => ImplementsEncoder` |
| | `JpegTypeCorrect` | `JpegMtEncoder`: `Spec => []TypeOK` |
| | `JpegImplements` | `JpegMtEncoder`: `Spec => ImplementsEncoder` |
| | `RunSlots` | `RunSpec => []SlotsConserved` |
| | `RunCapture` | `RunSpec => []CaptureApart` |
| | `RunEncoders` | `RunSpec => ImplementsEncoder` |
| | `RunFiles` | `RunSpec => []FilesInOrder` |
| | `RunComplete` | `RunSpec => []StoppedComplete` |

**Control plane.** None of its properties is inductive by itself. The argument goes up in
layers, each inductive relative to those below:

1. `TypeOK`.
2. `MainInv`: handler threads exist only while main is in its loop or in
   `ws_server.stop()`; main is inside `stop_recording()` or `~Recorder()` only on its way
   from `stop()` or from its destructors (the return label `ret` must be bounded, or a
   return could lead anywhere). It implies `ShutdownOrder`.
3. `LockInv`: a handler between `lock` and its reply owns `res_mutex`, also while it
   destroys the Recorder it replaced or failed to start. It implies `StartExclusive`: two
   handlers cannot both own the mutex.
4. `RecorderInv`: `StoppingInv` (who waits for an EOS owns that Recorder's `mtx_`, which is
   STOPPING and not yet ended), `EndedInv` (an ended file's Recorder is idle or freed),
   `BirthInv` and `SerialInv` (a Recorder about to be created does not exist, command
   numbers are distinct, a newborn one has not recorded) and `BornInv` (threads are inside
   Recorders that were created). `BirthInv` needs `LockInv`, for only one handler may be
   between creating a Recorder and starting it; `EndedInv` needs `BirthInv`, for otherwise
   `Recorder::start` could revive an ended one.
5. `FinalisedOnce` is an action property that follows from `RecorderInv`: a second stop
   finds `state_` no longer RECORDING under the mutex.

**Control plane, one browser.** Nothing locks the state of `GstCameraSource`, so its properties hold
only as long as one thread at a time is in it. With one browser `MainInv` gives that
(`OneActor`): main is in its loop or in `ws_server.stop()` while a handler exists. `SoleInv` then
follows the thread at work from label to label (added to the invariants of
`CameraControl_one`, TLC finds no violation of it), in parts proved in this order:

1. `CameraInv`: between calls the camera is `Up` (both threads joinable and not told to end, one
   pipeline playing, at the resolution that is set) or `Down`; at each label of `stop` and
   `start` in between, which flags, threads and pipeline there are (`PhaseInv`); what a thread
   has found `running_` to be still holds (`RunningInv`). It implies `OneCamera`,
   `ThreadsInsidePipeline` and `JoinsReturn`.
2. `HeldInv`: `recorder_` records exactly while `recording_` says so, but for the labels that
   start or stop it (`SessionInv`, `InsideInv`); it records into the file its command has
   named, or into one of its own if that name is empty (`NamedInv`); no other Recorder lives,
   except the one being deleted, and no mutex is held outside the wait for an EOS
   (`RestInv`). A recording that was begun still goes on or has been ended (`BegunInv`). With
   `CameraInv` they imply `RecordingIsLive` and `NothingLeftBehind`.
3. `PushInv`: the drain thread is inside a Recorder started at the pipeline's resolution; a
   pipeline is launched only when that thread has been joined. It is `FramesFitRecording`.
4. `OnlyDrainCrashes`: `CameraInv` excludes what ends in `std::terminate`, `HeldInv` the uses of a
   null or freed Recorder by a command, `OneActor` the double resets and joins.
5. `AnswerInv`: `record_stop` reports an empty name or one that was recorded into, and once
   it is past `Recorder::stop` no recording is open, which stays so until its next command.
   It implies `OkStopMeansEnded`.

**`Snapshot`.** `PendingHasWaiter` (the flag is up only while a `take_snapshot` waits) is
inductive given `TypeOK`: the only step that leaves the waiting labels with the flag possibly
up, `Cancel`, takes it down. It says nothing of a frame that was tested before.
`NothingAfterReply` needs it and `LateInv`: once a request is over, what is written to its file,
and what the streaming thread has in hand past its test, had arrived by the reply.
`OkMeansFresh` needs `FreshInv`: from the moment its path is set, a request that names a file
has either kept the path or had its frame. The frame that takes the path away may have been
tested for an earlier request, but was not yet handled when this one came.

**`BatteryMonitor`.** `RecordsWhole` needs `LocalsInv` (the locals of one poll belong together)
and `RecordInv` (the mutex is held by who is inside a record; a record nobody is storing is
whole, and does not change under a reader). `TypeOK` rests on lemmas about the sensor:
whatever a transfer returns, the percentage made of it is one.

**`WsServer`.** `TypeOK` itself needs `CountInv`: `client_count_` stays a number because it is
the number of the handlers between its two changes. `PointersAreLive` needs `MutexInv`
(`clients_mutex_` is held by exactly the thread whose label says so; a handler that has its
pointer in `clients_` has not destroyed its socket), `NoPushAfterStop` needs `WriteInv` and
`JoinInv` (main is past `battery.stop()` only when that thread has ended).

**`MjpegServer`.** `CountInv` as above, and `RoomInv` for the bound. `CountIsRight` is `CountInv`
with `IdleInv`: `listen()` returns when the workers have ended. `NoLostWakeup` is inductive
given the types: the predicate is tested and the wait entered under one mutex.
`FramesAdvance` needs `MutexInv`, `NumberInv` (`latest_seq_` is the number of `latest_jpeg_`
outside the critical section of `on_jpeg_ready`) and `ViewerInv` (what a viewer copied is
newer than what it wrote last).

**The ring.** Lemmas on remainders give what the code relies on: with `Modulus` a multiple
of `N`, indices less than `N` apart have different slots, also where they wrap, and the
difference of two indices is the number of frames between them. `RingInv`: the slots from
`read_` to `write_` have frames, the others are empty but for the one being filled or
emptied. From it `SlotsApart`, and with `ContentsInv` that each step of the ring is a step of
`Fifo` on `Contents`, or a stutter.

**`CameraBuffers`.** `TypeInv` joins the types with what a thread has at each label
(`LabelInv`), what `open` and `close` have done (`ControlInv`), that a frame lives exactly as
long as it is referred to (`AliveInv`) and that no request is queued twice unless that was
the fault (`QueuedInv`). It is enough for `KeepsBuffers`. `OneOwner` needs `DrainInv` besides:
a request is queued at the camera, or in one frame, or with one thread (`PlaceInv`);
the frames of an earlier open are in the hands of consumers or behind the drain (`AgeInv`);
and the event thread finds room in the queue (`EventInv`), as a lemma of pigeonholes shows
from `DeepQueues`: each frame in the queue is of another request.

**`Recorder`.** The invariant has five parts, each inductive with those before it. `ControlInv`:
at each label of `start` and `stop`, which encoder, dying encoder and pipeline there are;
the callback runs only while its encoder exists; nothing has happened to a recording whose
`start` is not over. `WholeInv`: while a pipeline has no error, what its encoder accepted is
the file, then the frame inside the callback, then what is queued, in this order; so when
`hw_encoder_.reset()` returns, and before EOS is sent, the file has everything
(`DrainedInv`, hence `StoppedComplete`). `NumberInv`: frame numbers grow. `StampInv`: while a
pipeline takes buffers, `base_ts_us_` is the time its first buffer was stamped with; before
the first, either it is to be set, or it is of an older frame of an encoder that an error
had left behind.

**`V4l2Encoder`.** Two invariants. `CodecInv` holds whatever the driver grants and whatever fails:

* `CodecTypes`: the types, and what a thread has in hand at each label;
* `OwnerInv`: which threads have ended, and which flags are up, at each label of the destructor;
* `PlacesInv`: the sequences `free`, `queued`, `readSlots` and the slot in `encode`'s hands together
  have every slot once and none twice. All steps that touch a slot but the destructor's last
  move the head of one sequence behind another (`Moved`); the lemmas `OneOver`, `MoveOnce` and
  `MoveHas` say once what such a move keeps. `PendingInv` adds that `pending_frames_` has a frame
  for exactly the slots that are not free. Both give `SlotsConserved`;
* `BufferInv`: codec, written buffers, output queue and the thread that hands a result on share
  no CAPTURE buffer. It gives `CaptureApart`.

`DrainInv` is what the destructor's promise rests on. `BalanceInv`: slots still out and results
still in the codec are equal in number, one more result while the poll thread is between its
two `VIDIOC_DQBUF`s; this is the lockstep of section 3. `DrainedInv`: a poll thread that has
ended without an error has found all `NUM_OUTPUT_BUFFERS` slots back, so (with
`Granted <= NumOutputBuffers` and `PlacesInv`) none is out, and by the balance no result either.
`OrderInv`: what was accepted is what was delivered, then the result in hand, then the output
queue, the written buffers and the frames being coded. The refinement then takes each step to
`Accept`, `Deliver`, `Close`, `Break` or `Finish` of `Encoder`, or to a stutter.

**`JpegMtEncoder`.** An index is a place in the order of acceptance (`JpegCounts`, and `JpegMatches`:
every item in a queue or in a thread's hands is the frame accepted at its index, and the
output thread delivers the index it expects). `JpegCovers`: each index from the expected one on
is somewhere, in the queue, with a worker, in an output queue or with the output thread, so
none is lost when workers overtake each other. `JpegExits`: a worker ends only after the queue
is empty, the output thread only after the workers and with their queues empty; so when the
destructor returns `JpegCovers` leaves no index between `expected` and `nextIndex`.

**The stages together.** A step of `RunNext` is a step of one stage and leaves the variables of
the others (`RunCodec`, `RunJpeg`, `RunRecorder`), so what is proved of a stage alone holds of
`RunSpec`; `RecP` is `Recorder_proofs` in the variables of `Stages`.

Every safety property and every refinement that a passing run checks is stated by one of these
theorems. Only model-checked are all liveness properties and whatever rests on ENABLED, which
are out of TLAPS's reach: `CommandsAnswered`, `RequestsAnswered`, `ShutdownCompletes`,
`StopReturns`, `FramesReachViewers`, `BuffersReturn`, `CallsReturn`, `FramesReleased`,
`RecordsRecover`.

No module uses RECURSIVE.

## 5. What the models show besides

Definitions that no run lists, with the constants under which TLC refutes them. No
document promises them, or another run already has the cause.

* `StopFinalises` (`CameraControl`; one client, `Faults = {"bus_error"}`): after an error of
  the camera pipeline `running_` is false, `stop()` returns at once
  (gst_camera_source.cpp:157), the recording is not finalised, and the destructor meets a
  joinable `std::thread`: `std::terminate`.
* `CommandsAnswered`, `OnlyDrainCrashes`, `JoinsReturn`, `OkStopMeansEnded` with two clients:
  two `set_resolution`s join one thread twice, assign to a joinable thread, or one resets
  the abort flag the other's join depends on, or leave a pipeline playing that nobody
  refers to (`NothingLeftBehind`).
* `OkMeansFresh` (`Snapshot`) with `DiskFaults = TRUE`: a file that cannot be opened is
  reported as taken. So is an empty path (`"filename":""`, main.cpp:263), with any disk and one
  client: line 357 skips the write, 362 lowers the flag. The run has such requests, and
  `OkMeansFresh` speaks of those that name a file.
* `OkMeansFresh` with two clients (`MCTwoClients` in `MCSnapshot`):
  there is one `snapshot_pending_` and one `snapshot_path_` for all handlers. In TLC's trace
  the first client has waited 500 ms and sees the flag still up (332); the second sets its
  path and raises the flag; the first lowers it (333) and answers "error"; the second finds
  it down and answers ok. No frame was written. gst_camera_source.h:76 and README.md:69
  promise the file.
* An empty name for a recording (`"filename":""`, main.cpp:237): the `Recorder` records into a
  name made of the clock (recorder.cpp:44), while `current_file_` (gst_camera_source.cpp:269),
  the replies and the pushed status carry the empty one. The recording itself is ended like
  any other.
* `MjpegServer`: when the camera does not start, main.cpp:146-151 stops the streamer just
  started; if its thread does not listen yet the stop is lost and the join waits for ever.
  The model has the step (`Stop` while `server = "starting"`); `StopReturns` excludes it. A
  port that is taken (`ListenFails`) leaves a server that has answered `true` to `start`.
* `DispatchReturns` (`WsServer`): a JSON text that is no object, or a `cmd` that is no
  string, makes `msg.value()` throw (command_dispatcher.cpp:22) out of the handler.
* In `CameraBuffers`, not used by `main.cpp`, the second setup reaches two faults: a full
  queue queues a refused frame's request twice (camera_manager.cpp:379-384; `KeepsBuffers`,
  that none is lost, does not exclude it), and a consumer
  that keeps a frame across close and open queues a freed request (453-455) or reads
  unmapped memory. A frame dropped between `start_streaming` and `running_ = true` is not
  queued again (camera_manager.cpp:65): `KeepsBuffers` and `BuffersReturn` speak of a running
  camera only.
* `V4l2Encoder`: with `Granted = 3` and `NumOutputBuffers = 2` (a driver that grants more slots
  than were asked for; lines 110 and 270 use the two numbers) the poll thread leaves too
  early and `ImplementsEncoder` fails; with fewer granted than `NumOutputBuffers` it never
  leaves, and the destructor waits for ever. With `"qbuf_capture"` in `Faults` a CAPTURE buffer is
  lost (line 374), and with the last one gone the destructor waits for ever
  (`DestructorReturns`).
* `Recorder`, after an ERROR of its pipeline: `poll_bus` sets IDLE (recorder.cpp:315), so `stop`
  returns `false`, the file is not ended and the pipeline not set to NULL; the next `start`
  leaks it and replaces the old encoder (what this does to the times: run
  `Recorder_after_error`). If `poll_bus` takes the ERROR while `stop` waits for one, `stop` waits its ten seconds.
* `Recorder`: `push_frame` passes its test (188), `stop` resets `hw_encoder_` or `start` makes one
  that has no callbacks yet, and `encode` runs on it (222): `fault = "no_encoder"`,
  `"no_callback"`.
* `BatteryMonitor`: a failing transfer's zero is a record like any other; a failing read of
  the voltage is pushed as 0 % with `low_battery` set.
* `record_restart` answers ok with a file name even if `start_recording` failed
  (main.cpp:257); recordings and snapshots are named by the clock's second
  (`next_name`, main.cpp:95), so that a restart within a second writes over the file just
  ended. `CameraControl` has the first, and excludes the second by its numbering.

## 6. What is not modelled, and the plan

Not modelled: the web page, scripts, build files, vendored libraries beyond what is
relied on, read-only endpoints (`/snapshot`, `/status`, static files), console output,
parsing of names, the constructors' failures of encoders, and the management of files in
main.cpp (`list_recordings`, `delete_recording`, names by the clock): there recordings are
told apart by what a directory holds, nothing in the program relates a file to the
recording that writes it, and the code promises nothing when the two meet.

All modules of the plan exist: the control plane, the part where a fault loses a recording
or the process; its neighbours (`Snapshot`, `MjpegServer`, `WsServer`, `BatteryMonitor`); the
capture layer (`FrameQueue`, `CameraBuffers`); the encoders and the `Recorder` on top of them.
The safety properties of the passing runs are proved. What proof has not extended are the
instances: the control plane with two browsers is checked, and proved for any number only in
`OwnershipInv` and what follows from it, because the rest is false there (section 5).
