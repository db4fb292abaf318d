\* Background threads, two file descriptors of which one fits into evts.
SPECIFICATION Spec
CONSTANTS
  Fds = {f1, f2}
  Jobs = {}
  Users = {u1, u2}
  Loop = loop
  Events = {in}
  Err = err
  WaitSets = {{in}}
  RewaitSets = {{}, {in}}
  Background = TRUE
  CtlMayFail = FALSE
  MaxEvents = 1
  None = None
SYMMETRY Interchangeable
INVARIANTS OneCallback ModListMatchesFlags
