\* ioq_fd_wait() with the empty set, followed by a cancellation.
SPECIFICATION Spec
CONSTANTS
  Fds = {f1}
  Jobs = {}
  Users = {u1}
  Loop = loop
  Events = {in}
  Err = err
  WaitSets = {{}, {in}}
  RewaitSets = {{}}
  Background = TRUE
  CtlMayFail = FALSE
  MaxEvents = 2
  None = None
INVARIANT CompletionWanted
