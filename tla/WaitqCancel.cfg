\* One thread reschedules a timer that another one cancels.
SPECIFICATION Spec
CONSTANTS
  Timers = {1, 2}
  Users = {u1, u2}
  Intervals = {0, 1}
  MaxTime = 3
  NoTimer = NoTimer
INVARIANT CancelNotLost
