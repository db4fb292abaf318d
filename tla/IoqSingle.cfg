\* No background threads: one file descriptor, another task, two threads.
SPECIFICATION FairSpec
CONSTANTS
  Fds = {f1}
  Jobs = {j1}
  Users = {u1, u2}
  Loop = loop
  Events = {in}
  Err = err
  WaitSets = {{in}}
  RewaitSets = {{}}
  Background = FALSE
  CtlMayFail = TRUE
  MaxEvents = 2
  None = None
INVARIANTS KernelPointersLive LoopWillWake
PROPERTIES ImplementsWaitObject WaitEnds JobsRun
