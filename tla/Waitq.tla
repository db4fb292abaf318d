------------------------------- MODULE Waitq -------------------------------
(***************************************************************************)
(* The timers of io/waitq.c, with the thread that serves them.             *)
(*                                                                         *)
(* Every critical section of wq->lock is one action.  What a function does *)
(* before and after it, without the lock, are actions of their own: the    *)
(* new deadline, the wakeup hook, the submission to the run queue.  The    *)
(* red-black tree is abstracted to the set of its nodes and their order    *)
(* (cmp_by_deadline); one answer of rbt_iter_prev() depends on the shape   *)
(* of the tree and is a choice here.                                       *)
(*                                                                         *)
(* The server is the loop of ioq_iterate() in io/ioq_linux.c as far as it  *)
(* concerns timers: waitq_next_deadline(), a sleep that a notification     *)
(* ends, waitq_dispatch().                                                 *)
(***************************************************************************)
EXTENDS Integers, FiniteSets

CONSTANTS
  Timers,        \* the waitq_timer structures, numbered by their addresses
  Users,         \* threads that use them
  Intervals,     \* values of interval_ms
  MaxTime,       \* bound: the clock stops here
  NoTimer

ASSUME WaitqAssumption ==
  /\ Timers \subseteq Nat
  /\ IsFiniteSet(Timers)
  /\ Intervals \subseteq Nat
  /\ 0 \in Intervals
  /\ MaxTime \in Nat \ {0}
  /\ NoTimer \notin Timers

VARIABLES
  now,          \* clock_now()
  waiting_set,  \* wq->waiting_set
  deadline,     \* t->deadline
  op,           \* op[u]: where u is in a function of waitq.c, and with which timer
  queued,       \* queued[t]: t->task is in the run queue
  server,       \* the loop that serves the timers
  notified,     \* the hook was called: the server's sleep ends at once
  wanted,       \* wanted[t]: a wait was requested, no callback yet (history)
  asked         \* asked[t]: cancellation of this wait was requested (history)

vars == <<now, waiting_set, deadline, op, queued, server, notified, wanted, asked>>

\* The server at pc, with none of the local variables of its functions in use.
ServerAt(pc) == [pc |-> pc, now |-> 0, since |-> 0, timeout |-> 0, t |-> NoTimer]

Idle == [pc |-> "idle", t |-> NoTimer]

Init ==
  /\ now = 1
  /\ waiting_set = {}
  /\ deadline = [t \in Timers |-> 0]
  /\ op = [u \in Users |-> Idle]
  /\ queued = [t \in Timers |-> FALSE]
  /\ server = ServerAt("plan")
  /\ notified = FALSE
  /\ wanted = [t \in Timers |-> FALSE]
  /\ asked = [t \in Timers |-> FALSE]

---------------------------------------------------------------------------
(* The waiting set *)

\* cmp_by_deadline(): t comes before s.
Before(t, s) == deadline[t] < deadline[s] \/ (deadline[t] = deadline[s] /\ t < s)

\* rbt_iter_first() of set.
IsFirst(t, set) == t \in set /\ \A s \in set \ {t} : Before(t, s)

\* Mutation: the hook is called when the set was empty.
AddWakesWhenEmpty(t) == waiting_set = {}

\* need_wakeup in wset_add(): no node comes before the new one.
AddWakes(t) == IsFirst(t, waiting_set \cup {t})

\* need_wakeup in wset_remove(), where rbt_iter_prev() is called on the node
\* that has just been removed.  Its own links still tell whether it had a
\* parent or a left child; only a root without left child has neither, which
\* with two nodes depends on which of them is the root.
RemoveWakes(t) ==
  CASE Cardinality(waiting_set) = 1 -> {TRUE}
    [] Cardinality(waiting_set) = 2 /\ IsFirst(t, waiting_set) -> BOOLEAN
    [] OTHER -> {FALSE}

---------------------------------------------------------------------------
(* The functions of a timer *)

\* waitq_timer_wait() up to the call of wset_add().  No wait begins when the
\* bounded clock has stopped: it would expire and begin again for ever.
TimerWait(u, t, interval_ms) ==
  /\ op[u] = Idle
  /\ ~wanted[t]
  /\ now < MaxTime
  /\ now + interval_ms <= MaxTime
  /\ deadline' = [deadline EXCEPT ![t] = now + interval_ms]
  /\ op' = [op EXCEPT ![u] = [pc |-> "add", t |-> t]]
  /\ wanted' = [wanted EXCEPT ![t] = TRUE]
  /\ UNCHANGED <<now, waiting_set, queued, server, notified, asked>>

\* wset_add()
WsetAdd(u) ==
  /\ op[u].pc \in {"add", "readd"}
  /\ waiting_set' = waiting_set \cup {op[u].t}
  /\ op' = [op EXCEPT ![u] = IF AddWakes(@.t) THEN [@ EXCEPT !.pc = "hook"]
                                              ELSE Idle]
  /\ UNCHANGED <<now, deadline, queued, server, notified, wanted, asked>>

\* wset_remove() finds t; it goes on to call the hook or to return.
WsetRemove(u, t, hook, return) ==
  /\ t \in waiting_set
  /\ waiting_set' = waiting_set \ {t}
  /\ \E wakes \in RemoveWakes(t) :
       op' = [op EXCEPT ![u] =
                [pc |-> IF wakes THEN hook ELSE return, t |-> t]]

\* Mutation: the timer's wait is over for a canceller that finds no node.
CancelAlways(u, t) ==
  /\ op[u] = Idle
  /\ op' = [op EXCEPT ![u] = [pc |-> "cancel", t |-> t]]
  /\ asked' = [asked EXCEPT ![t] = wanted[t]]
  /\ waiting_set' = waiting_set \ {t}
  /\ UNCHANGED <<now, deadline, queued, server, notified, wanted>>

\* waitq_timer_cancel(), up to the return from wset_remove().  A cancellation
\* that comes while waitq_timer_wait() has not yet returned is not counted.
Cancel(u, t) ==
  /\ op[u] = Idle
  /\ asked' = [asked EXCEPT ![t] =
                 wanted[t] /\ \A v \in Users : op[v] /= [pc |-> "add", t |-> t]]
  /\ \/ WsetRemove(u, t, "hook_cancel", "cancel")
     \/ t \notin waiting_set /\ UNCHANGED <<waiting_set, op>>
  /\ UNCHANGED <<now, deadline, queued, server, notified, wanted>>

\* The deadline of a cancelled timer, for waitq_timer_cancelled().
CancelledDeadline == 0

\* The rest of waitq_timer_cancel() once it has the timer.
CancelExec(u) ==
  /\ op[u].pc = "cancel"
  /\ deadline' = [deadline EXCEPT ![op[u].t] = CancelledDeadline]
  /\ queued' = [queued EXCEPT ![op[u].t] = TRUE]
  /\ op' = [op EXCEPT ![u] = Idle]
  /\ UNCHANGED <<now, waiting_set, server, notified, wanted, asked>>

\* waitq_timer_reschedule(): the timer's owner may not call it while another
\* of its threads is in a call for the same timer.
Reschedule(u, t) ==
  /\ op[u] = Idle
  /\ \A v \in Users : op[v].t = t => op[v].pc \in {"hook", "cancel", "hook_cancel"}
  /\ WsetRemove(u, t, "hook_resched", "resched")
  /\ UNCHANGED <<now, deadline, queued, server, notified, wanted, asked>>

RescheduleSet(u, interval_ms) ==
  /\ op[u].pc = "resched"
  /\ now + interval_ms <= MaxTime
  /\ deadline' = [deadline EXCEPT ![op[u].t] = now + interval_ms]
  /\ op' = [op EXCEPT ![u].pc = "readd"]
  /\ UNCHANGED <<now, waiting_set, queued, server, notified, wanted, asked>>

\* The call of wq->wakeup, which is ioq_notify().
Hook(u) ==
  /\ op[u].pc \in {"hook", "hook_cancel", "hook_resched"}
  /\ notified' = TRUE
  /\ op' = [op EXCEPT ![u] =
              CASE @.pc = "hook" -> Idle
                [] @.pc = "hook_cancel" -> [@ EXCEPT !.pc = "cancel"]
                [] @.pc = "hook_resched" -> [@ EXCEPT !.pc = "resched"]]
  /\ UNCHANGED <<now, waiting_set, deadline, queued, server, wanted, asked>>

\* The run queue starts the callback.
Callback(t) ==
  /\ queued[t]
  /\ queued' = [queued EXCEPT ![t] = FALSE]
  /\ wanted' = [wanted EXCEPT ![t] = FALSE]
  /\ asked' = [asked EXCEPT ![t] = FALSE]
  /\ UNCHANGED <<now, waiting_set, deadline, op, server, notified>>

---------------------------------------------------------------------------
(* The server *)

\* waitq_next_deadline(): the clock is read before the lock is taken.
ReadClock ==
  /\ server.pc = "plan"
  /\ server' = [server EXCEPT !.pc = "next", !.now = now]
  /\ UNCHANGED <<now, waiting_set, deadline, op, queued, notified, wanted, asked>>

\* Mutation: a deadline that has passed gives a negative time.
TimeLeftRaw(d) == d - server.now

\* The result for the first deadline d.
TimeLeft(d) == IF d < server.now THEN 0 ELSE d - server.now

NextDeadline ==
  /\ server.pc = "next"
  /\ \/ waiting_set = {} /\ server' = [ServerAt("sleep") EXCEPT !.timeout = -1]
     \/ \E t \in waiting_set :
          /\ IsFirst(t, waiting_set)
          /\ server' = [server EXCEPT !.pc = "sleep",
                                      !.timeout = TimeLeft(deadline[t])]
  /\ UNCHANGED <<now, waiting_set, deadline, op, queued, notified, wanted, asked>>

\* epoll_wait() begins; when it did matters only if there is a timeout.
Sleep ==
  /\ server.pc = "sleep"
  /\ server' = [server EXCEPT !.pc = "asleep",
                              !.since = IF server.timeout > 0 THEN now ELSE 0]
  /\ UNCHANGED <<now, waiting_set, deadline, op, queued, notified, wanted, asked>>

\* epoll_wait() ends on time (the end of the bounded clock is late enough for
\* every timeout), or because of a notification, which intr_ack() takes back.
Awake ==
  /\ server.pc = "asleep"
  /\ \/ notified
     \/ server.timeout = 0
     \/ server.timeout > 0 /\ (now >= server.since + server.timeout \/ now = MaxTime)
  /\ notified' = FALSE
  /\ server' = ServerAt("dispatch")
  /\ UNCHANGED <<now, waiting_set, deadline, op, queued, wanted, asked>>

\* It ends because a file descriptor is ready.
AwakeForFd ==
  /\ server.pc = "asleep"
  /\ notified' = FALSE
  /\ server' = ServerAt("dispatch")
  /\ UNCHANGED <<now, waiting_set, deadline, op, queued, wanted, asked>>

\* waitq_dispatch() without a limit.
DispatchBegin ==
  /\ server.pc = "dispatch"
  /\ server' = [server EXCEPT !.pc = "expire", !.now = now]
  /\ UNCHANGED <<now, waiting_set, deadline, op, queued, notified, wanted, asked>>

\* Mutation: the deadline is compared with the time of the next tick.
DueEarly(t) == deadline[t] <= server.now + 1

\* The test of expire_one().
Due(t) == ~(deadline[t] > server.now)

\* expire_one()
ExpireOne ==
  /\ server.pc = "expire"
  /\ \/ \E t \in waiting_set :
          /\ IsFirst(t, waiting_set)
          /\ Due(t)
          /\ waiting_set' = waiting_set \ {t}
          /\ server' = [server EXCEPT !.pc = "exec", !.t = t]
     \/ /\ \A t \in waiting_set : IsFirst(t, waiting_set) => ~Due(t)
        /\ server' = ServerAt("plan")
        /\ UNCHANGED waiting_set
  /\ UNCHANGED <<now, deadline, op, queued, notified, wanted, asked>>

\* The runq_task_exec() in waitq_dispatch().
DispatchExec ==
  /\ server.pc = "exec"
  /\ queued' = [queued EXCEPT ![server.t] = TRUE]
  /\ server' = [server EXCEPT !.pc = "expire", !.t = NoTimer]
  /\ UNCHANGED <<now, waiting_set, deadline, op, notified, wanted, asked>>

Tick ==
  /\ now < MaxTime
  /\ now' = now + 1
  /\ UNCHANGED <<waiting_set, deadline, op, queued, server, notified, wanted, asked>>

---------------------------------------------------------------------------
\* What a user thread goes on with once it has called a function.
UserStep(u) ==
  \/ WsetAdd(u)
  \/ CancelExec(u)
  \/ \E i \in Intervals : RescheduleSet(u, i)
  \/ Hook(u)

ServerStep ==
  \/ ReadClock
  \/ NextDeadline
  \/ Sleep
  \/ Awake
  \/ DispatchBegin
  \/ ExpireOne
  \/ DispatchExec

Next ==
  \/ \E u \in Users :
       \/ UserStep(u)
       \/ \E t \in Timers : \/ \E i \in Intervals : TimerWait(u, t, i)
                            \/ Cancel(u, t)
                            \/ Reschedule(u, t)
  \/ \E t \in Timers : Callback(t)
  \/ ServerStep
  \/ AwakeForFd
  \/ Tick

Spec == Init /\ [][Next]_vars

\* Threads go on with the calls they are in, the program keeps calling
\* ioq_iterate(), the run queue starts its tasks, time passes.
FairSpec ==
  /\ Spec
  /\ \A u \in Users : WF_vars(UserStep(u))
  /\ \A t \in Timers : WF_vars(Callback(t))
  /\ WF_vars(ServerStep)
  /\ WF_vars(Tick)

---------------------------------------------------------------------------
(* Properties *)

TypeOK ==
  /\ now \in 1 .. MaxTime
  /\ waiting_set \in SUBSET Timers
  /\ deadline \in [Timers -> Nat]
  /\ op \in [Users -> [pc : {"idle", "add", "readd", "hook", "hook_cancel", "cancel",
                             "hook_resched", "resched"},
                       t : Timers \cup {NoTimer}]]
  /\ queued \in [Timers -> BOOLEAN]
  /\ server \in [pc : {"plan", "next", "sleep", "asleep", "dispatch", "expire", "exec"},
                 now : 0 .. MaxTime,
                 since : 0 .. MaxTime,
                 timeout : Nat \cup {-1},
                 t : Timers \cup {NoTimer}]
  /\ notified \in BOOLEAN
  /\ wanted \in [Timers -> BOOLEAN]
  /\ asked \in [Timers -> BOOLEAN]

\* The places that can hold a timer whose wait is outstanding.
Holders(t) ==
  (IF t \in waiting_set THEN {"set"} ELSE {})
    \cup (IF queued[t] THEN {"runq"} ELSE {})
    \cup (IF server.t = t THEN {"server"} ELSE {})
    \cup {u \in Users : op[u].t = t /\ op[u].pc /= "hook"}

\* One request, one callback: a timer with an outstanding wait is in exactly
\* one place, the waiting set, a thread that has taken it out or has not yet
\* put it in, or the run queue; a timer without one is nowhere.  So however
\* cancellation, rescheduling and expiry overlap, one of them submits the
\* task, and waitq_timer_wait() never meets a timer that is still in use.
OneHolder ==
  \A t \in Timers : Cardinality(Holders(t)) = IF wanted[t] THEN 1 ELSE 0

\* A callback comes after the deadline unless the timer was cancelled, and
\* waitq_timer_cancelled() (deadline 0) tells the two apart.
NotEarly ==
  \A t \in Timers :
    (queued[t] \/ server.t = t) =>
      \/ deadline[t] = 0 /\ asked[t]
      \/ deadline[t] \in 1 .. now

\* The server never sleeps past a deadline: it was told to wake up, is about
\* to be told, or has a timeout that ends no later than the first deadline
\* (counted from the time the timeout was computed for).
NoOversleep ==
  (server.pc \in {"sleep", "asleep"} /\ ~notified /\ \A u \in Users : op[u].pc /= "hook") =>
    \A t \in waiting_set :
      /\ server.timeout >= 0
      /\ server.timeout = 0 \/ server.now + server.timeout <= deadline[t]

\* Cancellation hastens the expiry of a timer that is waiting: after it was
\* requested the timer does not go back to the waiting set, where it would
\* stay until its deadline.
CancelNotLost == \A t \in Timers : asked[t] => t \notin waiting_set

\* Every wait is called back, because the timer expires or is cancelled, unless
\* the program puts its deadline off again and again.
EveryWaitEnds ==
  \A t \in Timers :
    \/ wanted[t] ~> ~wanted[t]
    \/ []<>(\E u \in Users : op[u] = [pc |-> "resched", t |-> t])

=============================================================================
