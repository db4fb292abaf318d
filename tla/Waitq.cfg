\* Two timers and two threads that start, cancel and reschedule them.
SPECIFICATION FairSpec
CONSTANTS
  Timers = {1, 2}
  Users = {u1, u2}
  Intervals = {0, 1}
  MaxTime = 3
  NoTimer = NoTimer
INVARIANTS OneHolder NotEarly NoOversleep
PROPERTY EveryWaitEnds
