\* One client, a disk that takes every file.
SPECIFICATION FairSpec
CONSTANTS
  c1 = c1
  c2 = c2
  f1 = f1
  f2 = f2
  Clients <- MCOneClient
  Files <- MCFiles
  NoFile = NoFile
  MaxFrames = 4
  DiskFaults = FALSE
INVARIANTS
  OkMeansFresh
  NothingAfterReply
PROPERTIES
  RequestsAnswered
