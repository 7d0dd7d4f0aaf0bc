\* A browser that stays connected keeps stop() from returning.
SPECIFICATION FairSpec
CONSTANTS
  h1 = h1
  h2 = h2
  Handlers <- MCOne
  Main = Main
  Battery = Battery
  Free = Free
  Messages <- MCPlain
PROPERTIES
  StopCloses
