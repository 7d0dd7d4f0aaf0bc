\* A ring whose indices wrap round, three JPEG workers, two slots and two CAPTURE
\* buffers, two recordings of two frames together.
SPECIFICATION RunSpec
CONSTANTS
  Frames = {f1, f2}
  N = 4
  Modulus = 8
  Null = Null
  Workers = {w1, w2, w3}
  Output = output
  MaxQueue = 2
  Granted = 2
  NumOutputBuffers = 2
  CaptureBuffers = {c1, c2}
  CodecFaults = {"qbuf_output", "poll"}
  MaxCalls = 4
  RecorderFaults = {"encoder_fails", "pipeline_fails", "error", "breaks"}
  MaxStarts = 2
  MaxFrames = 2
INVARIANTS
  SlotsApart
  SlotsConserved
  CaptureApart
  FilesInOrder
  StoppedComplete
PROPERTIES
  ImplementsFifo
  ImplementsEncoder
  CallsReturn
  FramesReleased
\* An encoder that is gone does nothing more.
CHECK_DEADLOCK FALSE
