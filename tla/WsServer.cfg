\* Two connections, two broadcasters, and messages that dispatch() throws on.
SPECIFICATION FairSpec
CONSTANTS
  h1 = h1
  h2 = h2
  Handlers <- MCTwo
  Main = Main
  Battery = Battery
  Free = Free
  Messages <- MCAny
INVARIANTS
  PointersAreLive
  NoPushAfterStop
PROPERTIES
  RequestsAnswered
  ShutdownCompletes
