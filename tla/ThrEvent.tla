------------------------------ MODULE ThrEvent ------------------------------
(***************************************************************************)
(* The pthreads event of io/thr.c: a flag, a mutex and a condition         *)
(* variable.  The critical sections of e->lock are single actions;         *)
(* pthread_cond_wait() gives up the lock and goes to sleep in one step,    *)
(* may wake up without reason, and needs the lock again before it returns, *)
(* so the thread looks at e->state once more.  thr_event_raise() signals   *)
(* after it has dropped the lock, and only if the flag was down.           *)
(*                                                                         *)
(* One thread waits, and clears the event when its wait has ended, as a    *)
(* worker of Runq does.  Many threads raise.                               *)
(***************************************************************************)
EXTENDS Integers

CONSTANT Raisers

VARIABLES
  state,       \* e->state
  signalling,  \* threads that left thr_event_raise()'s lock with old = 0
  waiter,      \* where the waiting thread is
  timed        \* it is in thr_event_wait_timeout()

vars == <<state, signalling, waiter, timed>>

\* thr_event_init()
Init ==
  /\ state = 0
  /\ signalling = {}
  /\ waiter = "out"
  /\ timed = FALSE

\* Whether thr_event_raise() is to signal.
MustSignal(old) == old = 0

\* The locked section of thr_event_raise().
Raise(t) ==
  /\ t \notin signalling
  /\ state' = 1
  /\ signalling' = IF MustSignal(state) THEN signalling \cup {t} ELSE signalling
  /\ UNCHANGED <<waiter, timed>>

\* pthread_cond_signal()
Signal(t) ==
  /\ t \in signalling
  /\ signalling' = signalling \ {t}
  /\ waiter' = IF waiter = "asleep" THEN "check" ELSE waiter
  /\ UNCHANGED <<state, timed>>

\* thr_event_wait() or thr_event_wait_timeout() is called.
Enter(with_timeout) ==
  /\ waiter = "out"
  /\ waiter' = "check"
  /\ timed' = with_timeout
  /\ UNCHANGED <<state, signalling>>

\* The loop's test, with the lock held: return, or go to sleep.
Check ==
  /\ waiter = "check"
  /\ waiter' = IF state = 1 THEN "passed" ELSE "asleep"
  /\ UNCHANGED <<state, signalling, timed>>

\* Mutation: the loop around pthread_cond_wait() is an "if".
SpuriousReturn ==
  /\ waiter = "asleep"
  /\ waiter' = "passed"
  /\ UNCHANGED <<state, signalling, timed>>

\* A return from pthread_cond_wait() without a signal.
SpuriousWakeup ==
  /\ waiter = "asleep"
  /\ waiter' = "check"
  /\ UNCHANGED <<state, signalling, timed>>

Carries(nsec) == nsec >= 1000000000

\* The absolute time, in seconds and nanoseconds, at which a wait that begins
\* at sec and usec ends.
Deadline(sec, usec, timeout_ms) ==
  LET nsec == usec * 1000 + (timeout_ms % 1000) * 1000000
  IN  IF Carries(nsec)
      THEN [sec |-> sec + timeout_ms \div 1000 + 1, nsec |-> nsec - 1000000000]
      ELSE [sec |-> sec + timeout_ms \div 1000, nsec |-> nsec]

\* pthread_cond_timedwait() fails; the function returns -1 at once.
Timeout ==
  /\ waiter = "asleep"
  /\ timed
  /\ waiter' = "out"
  /\ timed' = FALSE
  /\ UNCHANGED <<state, signalling>>

\* thr_event_clear(), called after the wait.
Clear ==
  /\ waiter = "passed"
  /\ state' = 0
  /\ waiter' = "out"
  /\ timed' = FALSE
  /\ UNCHANGED signalling

Next ==
  \/ \E t \in Raisers : Raise(t) \/ Signal(t)
  \/ \E with_timeout \in BOOLEAN : Enter(with_timeout)
  \/ Check
  \/ SpuriousWakeup
  \/ Timeout
  \/ Clear

Spec == Init /\ [][Next]_vars

\* Threads that can run do; spurious wakeups and timeouts need not happen.
FairSpec ==
  /\ Spec
  /\ \A t \in Raisers : WF_vars(Signal(t))
  /\ WF_vars(Check)

---------------------------------------------------------------------------
(* Properties *)

TypeOK ==
  /\ state \in {0, 1}
  /\ signalling \in SUBSET Raisers
  /\ waiter \in {"out", "check", "asleep", "passed"}
  /\ timed \in BOOLEAN

\* No signal is lost: if the flag is up while the waiter sleeps, the thread
\* that put it up has still to signal.  It matters that the signal is given
\* outside the lock, possibly after the flag was seen, cleared and put up
\* again, and that later calls of thr_event_raise() do not signal at all.
SleeperIsSignalled == (waiter = "asleep" /\ state = 1) => signalling /= {}

\* The deadline is a valid time, and the timeout after the begin of the wait.
DeadlineExact(sec, usec, timeout_ms) ==
  LET d == Deadline(sec, usec, timeout_ms)
      us == usec + timeout_ms * 1000
  IN  /\ 0 <= d.nsec /\ d.nsec < 1000000000
      /\ d.sec = sec + us \div 1000000
      /\ d.nsec = (us % 1000000) * 1000

Flag == INSTANCE EventFlag WITH
  raised <- state = 1,
  waiter <- IF waiter \in {"check", "asleep"} THEN "waiting" ELSE waiter

\* The condition variable, the mutex and the integer behave as one flag.
ImplementsFlag == Flag!Spec
=============================================================================
