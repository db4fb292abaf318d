\* Two workers; each of their threads may fail to be created.
SPECIFICATION Spec
CONSTANTS
  NumWorkers = 2
  Tasks = {k1}
  Clients = {c1}
  Limits = {0}
  HasHook = FALSE
  NoTask = NoTask
INVARIANT InitReportsFailure
