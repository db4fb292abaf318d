\* Two background workers with a thread of the program that submits tasks and may
\* dispatch them itself; two threads of the program at a queue without workers;
\* a mailbox of three flags with two raising threads beside the consumer, waits for
\* every set of at least one flag and, with mailbox_wait_all(), for the empty set.
SPECIFICATION MCSpec
CONSTANTS
  NumWorkers = 2
  Tasks = {k1, k2}
  Clients = {c1}
  Limits = {0, 1}
  HasHook = FALSE
  NoTask = NoTask
  HookTasks = {k1, k2, k3}
  HookClients = {c1, c2}
  HookLimits = {0, 1, 2}
  Flags = {f1, f2, f3}
  Raisers = {t1, t2}
  Consumer = c
  AnySets = {{f1}, {f1, f2}, {f1, f2, f3}}
  AllSets = {{}, {f1}, {f1, f2}, {f1, f2, f3}}
  NoReq = NoReq
INVARIANTS NoStrandedJob TornDown HookNotForgotten
INVARIANTS OneCompletion ArmedUnsatisfied
PROPERTIES QueueServed DestroyTerminates ImplementsSafePool HookImplementsPool
PROPERTY ImplementsFlagWait
