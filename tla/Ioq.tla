-------------------------------- MODULE Ioq --------------------------------
(***************************************************************************)
(* The IO queue of io/ioq_linux.c: the loop of ioq_iterate(), the wakeup   *)
(* pipe, the list of modified wait objects, and the kernel's epoll set.    *)
(*                                                                         *)
(* One thread (Loop) calls ioq_iterate() again and again.  User threads    *)
(* start waits, change and cancel them, submit tasks to the run queue and  *)
(* call ioq_notify().  Every critical section of q->lock is one action,    *)
(* together with the epoll_ctl() before it (nobody else looks at what that *)
(* changes).  The run queue is used as TaskPool describes it: without      *)
(* background threads the loop runs the tasks and its wakeup hook is       *)
(* ioq_notify(); with them anybody may start a task.  Timers appear as     *)
(* sleeps that end early and as tasks (Waitq models them).                 *)
(***************************************************************************)
EXTENDS Integers, Sequences, FiniteSets, Functions

CONSTANTS
  Fds,          \* the ioq_fd structures
  Jobs,         \* other tasks of the program, timers among them
  Users,        \* threads of the program, background workers among them
  Loop,         \* the thread that calls ioq_iterate()
  Events,       \* IOQ_EVENT_IN, IOQ_EVENT_OUT
  Err,          \* IOQ_EVENT_ERR or IOQ_EVENT_HUP, reported whatever is asked for
  WaitSets,     \* sets passed to ioq_fd_wait()
  RewaitSets,   \* sets passed to ioq_fd_rewait(); {} is a cancellation
  Background,   \* whether the run queue has background workers
  CtlMayFail,   \* whether the kernel may refuse an epoll_ctl()
  MaxEvents,    \* lengthof(evts)
  None

Thread == Users \cup {Loop}
Task == Fds \cup Jobs
Flag == {"MOD_LIST", "EPOLL", "WAITING"}
Mask == SUBSET (Events \cup {Err})

ASSUME IoqAssumption ==
  /\ Loop \notin Users
  /\ Fds \cap Jobs = {}
  /\ Err \notin Events
  /\ WaitSets \subseteq SUBSET Events
  /\ RewaitSets \subseteq SUBSET Events
  /\ Background \in BOOLEAN
  /\ CtlMayFail \in BOOLEAN
  /\ MaxEvents \in Nat \ {0}
  /\ None \notin Task
  /\ \A m \in Mask : None /= m

VARIABLES
  mod_list,    \* q->mod_list
  intr_state,  \* q->intr_state
  pipe,        \* the wakeup pipe is readable
  flags,       \* f->flags
  requested,   \* f->requested
  ready,       \* f->ready
  err,         \* f->err is set
  epoll,       \* epoll[f]: the events f->fd is registered for, or None
  level,       \* level[f]: the events that are present at f->fd
  queued,      \* tasks in the run queue
  th,          \* th[t]: where thread t is in a function of the interface
  loop,        \* where the loop is, and its local variables
  wanted,      \* wanted[f]: a wait was requested, no callback yet (history)
  cancelled    \* cancelled[f]: this wait was cancelled (history)

qVars == <<mod_list, intr_state, pipe>>
fdVars == <<flags, requested, ready, err>>
history == <<wanted, cancelled>>
vars == <<qVars, fdVars, epoll, level, queued, th, loop, history>>

Out == [pc |-> "out", f |-> None]
At(pc, f) == [pc |-> pc, f |-> f]

LoopAt(pc) == [pc |-> pc, task |-> None, flags |-> {}, requested |-> {}, evts |-> <<>>]

\* ioq_init() and ioq_fd_init()
Init ==
  /\ mod_list = <<>>
  /\ intr_state = 0
  /\ pipe = FALSE
  /\ flags = [f \in Fds |-> {}]
  /\ requested = [f \in Fds |-> {}]
  /\ ready = [f \in Fds |-> {}]
  /\ err = [f \in Fds |-> FALSE]
  /\ epoll = [f \in Fds |-> None]
  /\ level = [f \in Fds |-> {}]
  /\ queued = {}
  /\ th = [t \in Thread |-> Out]
  /\ loop = LoopAt("wait")
  /\ wanted = [f \in Fds |-> FALSE]
  /\ cancelled = [f \in Fds |-> FALSE]

---------------------------------------------------------------------------
(* ioq_notify() and the run queue's hook *)

\* The locked section; only the first of several callers writes to the pipe.
Notify(t) ==
  /\ th[t].pc = "notify"
  /\ intr_state' = 1
  /\ th' = [th EXCEPT ![t] = IF intr_state = 0 THEN At("write", None) ELSE Out]
  /\ UNCHANGED <<mod_list, pipe, fdVars, epoll, level, queued, loop, history>>

Write(t) ==
  /\ th[t].pc = "write"
  /\ pipe' = TRUE
  /\ th' = [th EXCEPT ![t] = Out]
  /\ UNCHANGED <<mod_list, intr_state, fdVars, epoll, level, queued, loop, history>>

\* Mutation: the hook is set when there are background threads.
AfterExecInverted == IF queued = {} /\ Background THEN At("notify", None) ELSE Out

\* Where a thread goes that has submitted a task: wakeup_runq() is set as the
\* hook when there are no background threads.
AfterExec == IF queued = {} /\ ~Background THEN At("notify", None) ELSE Out

\* A thread that may call a function of the interface: a user thread, or the
\* loop when it executes a task.
MayCall(t) ==
  /\ th[t] = Out
  /\ t = Loop => loop.pc = "task"

\* A program may call ioq_notify() itself.
UserNotify(t) ==
  /\ MayCall(t)
  /\ th' = [th EXCEPT ![t] = At("notify", None)]
  /\ UNCHANGED <<qVars, fdVars, epoll, level, queued, loop, history>>

\* runq_task_exec() on the queue's run queue.
ExecJob(t, j) ==
  /\ MayCall(t)
  /\ j \notin queued
  /\ queued' = queued \cup {j}
  /\ th' = [th EXCEPT ![t] = AfterExec]
  /\ UNCHANGED <<qVars, fdVars, epoll, level, loop, history>>

---------------------------------------------------------------------------
(* The functions of a wait object *)

\* What mod_enqueue_nolock() returns, and the list it leaves.
EnqueueWakes(f) == "MOD_LIST" \notin flags[f] /\ mod_list = <<>>

ModEnqueue(f) == IF "MOD_LIST" \in flags[f] THEN mod_list ELSE Append(mod_list, f)

\* ioq_fd_wait() up to the lock.  Only one wait at a time.
FdWait(t, f, set) ==
  /\ MayCall(t)
  /\ ~wanted[f]
  /\ requested' = [requested EXCEPT ![f] = set]
  /\ ready' = [ready EXCEPT ![f] = {}]
  /\ err' = [err EXCEPT ![f] = FALSE]
  /\ flags' = [flags EXCEPT ![f] = {"WAITING"}]
  /\ wanted' = [wanted EXCEPT ![f] = TRUE]
  /\ \/ /\ set = {}
        /\ queued' = queued \cup {f}
        /\ th' = [th EXCEPT ![t] = AfterExec]
     \/ /\ set /= {}
        /\ th' = [th EXCEPT ![t] = At("enqueue", f)]
        /\ UNCHANGED queued
  /\ UNCHANGED <<qVars, epoll, level, loop, cancelled>>

\* The locked section of ioq_fd_wait().
FdWaitEnqueue(t) ==
  /\ th[t].pc = "enqueue"
  /\ LET f == th[t].f
     IN  /\ mod_list' = ModEnqueue(f)
         /\ flags' = [flags EXCEPT ![f] = @ \cup {"MOD_LIST"}]
         /\ th' = [th EXCEPT ![t] = IF EnqueueWakes(f) THEN At("notify", None) ELSE Out]
  /\ UNCHANGED <<intr_state, pipe, requested, ready, err, epoll, level, queued,
                 loop, history>>

\* Mutation: the flag is not looked at.
StillWaitingAlways(f) == TRUE

\* The condition under which ioq_fd_rewait() has an effect.
StillWaiting(f) == "WAITING" \in flags[f]

\* ioq_fd_rewait() and ioq_fd_cancel(), from any thread, also after the wait is
\* over, but not while another thread is inside ioq_fd_wait() for the object:
\* ioq_linux.h forbids simultaneous access.  Without WAITING they do nothing.
FdRewait(t, f, set) ==
  /\ MayCall(t)
  /\ \A u \in Thread : th[u] /= At("enqueue", f)
  /\ StillWaiting(f)
  /\ requested' = [requested EXCEPT ![f] = set]
  /\ mod_list' = ModEnqueue(f)
  /\ flags' = [flags EXCEPT ![f] = @ \cup {"MOD_LIST"}]
  /\ th' = [th EXCEPT ![t] = IF EnqueueWakes(f) THEN At("notify", None) ELSE Out]
  /\ cancelled' = [cancelled EXCEPT ![f] = @ \/ set = {}]
  /\ UNCHANGED <<intr_state, pipe, ready, err, epoll, level, queued, loop, wanted>>

---------------------------------------------------------------------------
(* do_wait() *)

\* The events epoll_wait() would report for f.
Reported(f) == IF epoll[f] = None THEN {} ELSE level[f] \cap (epoll[f] \cup {Err})
Reportable == {f \in Fds : Reported(f) /= {}}

\* epoll_wait() returns with some of the entries that are ready, as many as
\* there are or as fit.  The pipe is one of them.
EpollWait ==
  /\ loop.pc = "wait"
  /\ th[Loop] = Out
  /\ pipe \/ Reportable /= {}
  /\ \E S \in SUBSET Reportable :
       /\ Cardinality(S) <= MaxEvents
       /\ \/ S = Reportable
          \/ Cardinality(S) = MaxEvents
          \/ pipe /\ Cardinality(S) = MaxEvents - 1
       /\ loop' = [LoopAt("drain") EXCEPT !.evts = [f \in S |-> Reported(f)]]
  /\ UNCHANGED <<qVars, fdVars, epoll, level, queued, th, history>>

\* It returns without events, which it does only if there are none, because a
\* timer's deadline has come.
EpollTimeout ==
  /\ loop.pc = "wait"
  /\ th[Loop] = Out
  /\ ~pipe /\ Reportable = {}
  /\ loop' = LoopAt("drain")
  /\ UNCHANGED <<qVars, fdVars, epoll, level, queued, th, history>>

\* A signal ends it, likewise; intr_ack() is not called.
EpollInterrupted ==
  /\ loop.pc = "wait"
  /\ th[Loop] = Out
  /\ ~pipe /\ Reportable = {}
  /\ loop' = LoopAt("mods")
  /\ UNCHANGED <<qVars, fdVars, epoll, level, queued, th, history>>

\* intr_ack() empties the pipe ...
IntrDrain ==
  /\ loop.pc = "drain"
  /\ pipe' = FALSE
  /\ loop' = [loop EXCEPT !.pc = "ack"]
  /\ UNCHANGED <<mod_list, intr_state, fdVars, epoll, level, queued, th, history>>

AckedState == 0

\* ... and then resets the state.
IntrAck ==
  /\ loop.pc = "ack"
  /\ intr_state' = AckedState
  /\ loop' = [loop EXCEPT !.pc = "events"]
  /\ UNCHANGED <<mod_list, pipe, fdVars, epoll, level, queued, th, history>>

\* Mutation: the wait is not marked as over.
FlagsWhenOverKept(f) == (flags[f] \ {"EPOLL"}) \cup {"MOD_LIST"}

\* The flags of an object whose wait is over.
FlagsWhenOver(f) == (flags[f] \ {"EPOLL", "WAITING"}) \cup {"MOD_LIST"}

\* Mutation: the registration is left in the kernel.
UnregisterNot(f) == epoll

\* EPOLL_CTL_DEL
Unregister(f) == [epoll EXCEPT ![f] = None]

\* What is stored in f->ready.
ReadyOf(f) == loop.evts[f]

\* The body of the loop over the events.
HandleEvent(f) ==
  /\ loop.pc = "events"
  /\ f \in DOMAIN loop.evts
  /\ epoll' = Unregister(f)
  /\ ready' = [ready EXCEPT ![f] = ReadyOf(f)]
  /\ flags' = [flags EXCEPT ![f] = FlagsWhenOver(f)]
  /\ mod_list' = ModEnqueue(f)
  /\ loop' = [loop EXCEPT !.evts = Restrict(@, DOMAIN @ \ {f})]
  /\ UNCHANGED <<intr_state, pipe, requested, err, level, queued, th, history>>

EventsDone ==
  /\ loop.pc = "events"
  /\ DOMAIN loop.evts = {}
  /\ loop' = LoopAt("mods")
  /\ UNCHANGED <<qVars, fdVars, epoll, level, queued, th, history>>

---------------------------------------------------------------------------
(* dispatch_mods() *)

\* mod_dequeue(): the loop goes on with copies of the flags and the set.
ModDequeue ==
  /\ loop.pc = "mods"
  /\ th[Loop] = Out
  /\ mod_list /= <<>>
  /\ LET f == Head(mod_list)
     IN  /\ mod_list' = Tail(mod_list)
         /\ flags' = [flags EXCEPT ![f] = @ \ {"MOD_LIST"}]
         /\ loop' = [LoopAt("mod") EXCEPT !.task = f,
                                          !.flags = flags[f] \ {"MOD_LIST"},
                                          !.requested = requested[f]]
  /\ UNCHANGED <<intr_state, pipe, requested, ready, err, epoll, level, queued, th,
                 history>>

ModsDone ==
  /\ loop.pc = "mods"
  /\ th[Loop] = Out
  /\ mod_list = <<>>
  /\ loop' = LoopAt("timers")
  /\ UNCHANGED <<qVars, fdVars, epoll, level, queued, th, history>>

\* The wait is over: submit the callback.
ModComplete ==
  /\ loop.pc = "mod"
  /\ "WAITING" \notin loop.flags
  /\ queued' = queued \cup {loop.task}
  /\ th' = [th EXCEPT ![Loop] = AfterExec]
  /\ loop' = LoopAt("mods")
  /\ UNCHANGED <<qVars, fdVars, epoll, level, history>>

\* It was cancelled, or could not be registered.
ModCancel ==
  /\ loop.pc = "mod"
  /\ "WAITING" \in loop.flags
  /\ loop.requested = {}
  /\ LET f == loop.task
     IN  /\ epoll' = IF "EPOLL" \in loop.flags THEN Unregister(f) ELSE epoll
         /\ ready' = [ready EXCEPT ![f] = {}]
         /\ flags' = [flags EXCEPT ![f] = FlagsWhenOver(f)]
         /\ mod_list' = ModEnqueue(f)
  /\ loop' = LoopAt("mods")
  /\ UNCHANGED <<intr_state, pipe, requested, err, level, queued, th, history>>

\* Mutation: the flags are overwritten by the copy taken before.
FlagsRegisteredStale(f) == loop.flags \cup {"EPOLL"}

FlagsRegistered(f) == flags[f] \cup {"EPOLL"}

\* Whether EPOLL_CTL_MOD or EPOLL_CTL_ADD finds f->fd as it expects it.
CtlApplies(f) == ("EPOLL" \in loop.flags) = (epoll[f] /= None)

\* It is (still) to be registered, and the kernel does that ...
ModRegister ==
  /\ loop.pc = "mod"
  /\ "WAITING" \in loop.flags
  /\ loop.requested /= {}
  /\ CtlApplies(loop.task)
  /\ epoll' = [epoll EXCEPT ![loop.task] = loop.requested]
  /\ flags' = [flags EXCEPT ![loop.task] = FlagsRegistered(loop.task)]
  /\ loop' = LoopAt("mods")
  /\ UNCHANGED <<qVars, requested, ready, err, level, queued, th, history>>

\* ... or refuses.
ModFail ==
  /\ loop.pc = "mod"
  /\ "WAITING" \in loop.flags
  /\ loop.requested /= {}
  /\ CtlMayFail \/ ~CtlApplies(loop.task)
  /\ LET f == loop.task
     IN  /\ err' = [err EXCEPT ![f] = TRUE]
         /\ requested' = [requested EXCEPT ![f] = {}]
         /\ flags' = [flags EXCEPT ![f] = @ \cup {"MOD_LIST"}]
         /\ mod_list' = ModEnqueue(f)
  /\ loop' = LoopAt("mods")
  /\ UNCHANGED <<intr_state, pipe, ready, epoll, level, queued, th, history>>

---------------------------------------------------------------------------
(* waitq_dispatch(), runq_dispatch() and the background workers *)

\* waitq_dispatch() submits the callback of a timer.
TimerExpires(j) ==
  /\ loop.pc = "timers"
  /\ th[Loop] = Out
  /\ j \notin queued
  /\ queued' = queued \cup {j}
  /\ th' = [th EXCEPT ![Loop] = AfterExec]
  /\ UNCHANGED <<qVars, fdVars, epoll, level, loop, history>>

TimersDone ==
  /\ loop.pc = "timers"
  /\ th[Loop] = Out
  /\ loop' = LoopAt("run")
  /\ UNCHANGED <<qVars, fdVars, epoll, level, queued, th, history>>

\* What the start of task k means: a wait ends when its callback begins.
Started(k) ==
  /\ queued' = queued \ {k}
  /\ wanted' = [f \in Fds |-> wanted[f] /\ f /= k]
  /\ cancelled' = [f \in Fds |-> cancelled[f] /\ f /= k]

RunTask(k) ==
  /\ loop.pc = "run"
  /\ k \in queued
  /\ Started(k)
  /\ loop' = [LoopAt("task") EXCEPT !.task = k]
  /\ UNCHANGED <<qVars, fdVars, epoll, level, th>>

TaskReturn ==
  /\ loop.pc = "task"
  /\ th[Loop] = Out
  /\ loop' = LoopAt("run")
  /\ UNCHANGED <<qVars, fdVars, epoll, level, queued, th, history>>

\* The run queue is empty: ioq_iterate() returns and is called again.
RunDone ==
  /\ loop.pc = "run"
  /\ queued = {}
  /\ loop' = LoopAt("wait")
  /\ UNCHANGED <<qVars, fdVars, epoll, level, queued, th, history>>

\* A background worker starts a task.
WorkerTask(k) ==
  /\ Background
  /\ k \in queued
  /\ Started(k)
  /\ UNCHANGED <<qVars, fdVars, epoll, level, th, loop>>

---------------------------------------------------------------------------
\* Something happens at a file descriptor.
LevelChange(f) ==
  /\ \E s \in Mask \ {level[f]} : level' = [level EXCEPT ![f] = s]
  /\ UNCHANGED <<qVars, fdVars, epoll, queued, th, loop, history>>

ThreadStep(t) == FdWaitEnqueue(t) \/ Notify(t) \/ Write(t)

LoopStep ==
  \/ EpollWait
  \/ IntrDrain
  \/ IntrAck
  \/ \E f \in Fds : HandleEvent(f)
  \/ EventsDone
  \/ ModDequeue
  \/ ModsDone
  \/ ModComplete
  \/ ModCancel
  \/ ModRegister
  \/ ModFail
  \/ TimersDone
  \/ \E k \in Task : RunTask(k)
  \/ RunDone

Next ==
  \/ \E t \in Thread :
       \/ ThreadStep(t)
       \/ UserNotify(t)
       \/ \E j \in Jobs : ExecJob(t, j)
       \/ \E f \in Fds : \/ \E set \in WaitSets : FdWait(t, f, set)
                         \/ \E set \in RewaitSets : FdRewait(t, f, set)
  \/ LoopStep
  \/ EpollTimeout
  \/ EpollInterrupted
  \/ \E j \in Jobs : TimerExpires(j)
  \/ TaskReturn
  \/ \E k \in Task : WorkerTask(k)
  \/ \E f \in Fds : LevelChange(f)

Spec == Init /\ [][Next]_vars

\* Threads go on with the calls they are in, the program keeps calling
\* ioq_iterate(), tasks return (they make finitely many calls), and the run
\* queue passes over none of its tasks (TaskPool).  Timeouts, signals and
\* events at the file descriptors need not happen.
FairSpec ==
  /\ Spec
  /\ \A t \in Thread : WF_vars(ThreadStep(t))
  /\ WF_vars(LoopStep)
  /\ SF_vars(TaskReturn)
  /\ \A k \in Task : SF_vars(RunTask(k)) /\ WF_vars(WorkerTask(k))

---------------------------------------------------------------------------
(* Properties *)

TypeOK ==
  /\ mod_list \in Seq(Fds)
  /\ intr_state \in {0, 1}
  /\ pipe \in BOOLEAN
  /\ flags \in [Fds -> SUBSET Flag]
  /\ requested \in [Fds -> SUBSET Events]
  /\ ready \in [Fds -> Mask]
  /\ err \in [Fds -> BOOLEAN]
  /\ epoll \in [Fds -> {None} \cup SUBSET Events]
  /\ level \in [Fds -> Mask]
  /\ queued \in SUBSET Task
  /\ th \in [Thread -> [pc : {"out", "enqueue", "notify", "write"}, f : Fds \cup {None}]]
  /\ loop.pc \in {"wait", "drain", "ack", "events", "mods", "mod", "timers", "run", "task"}
  /\ wanted \in [Fds -> BOOLEAN]
  /\ cancelled \in [Fds -> BOOLEAN]

\* The places where the end of f's wait is still to come from.
Pending(f) ==
  (IF "WAITING" \in flags[f] THEN {"waiting"} ELSE {})
    \cup (IF "WAITING" \notin flags[f] /\ f \in Range(mod_list) THEN {"listed"} ELSE {})
    \cup (IF loop.pc = "mod" /\ loop.task = f /\ "WAITING" \notin loop.flags
          THEN {"loop"} ELSE {})
    \cup (IF f \in queued THEN {"runq"} ELSE {})

\* One request, one callback: however events, cancellations, new sets and
\* failures overlap, a wait that was requested ends in one submission of the
\* callback, and an object without a wait is in none of the structures.
OneCallback ==
  \A f \in Fds : Cardinality(Pending(f)) = IF wanted[f] THEN 1 ELSE 0

\* What OneCallback is for: the loop submits a callback only for a wait that
\* was requested and whose callback is not queued already.  ioq_fd_wait() with
\* the empty set queues it at once and leaves IOQ_FLAG_WAITING set, so that an
\* ioq_fd_cancel() before the callback has run makes the loop submit it again.
CompletionWanted ==
  \A f \in Fds :
    (loop.pc = "mod" /\ loop.task = f /\ "WAITING" \notin loop.flags) =>
      wanted[f] /\ f \notin queued

\* The list is as the flags say, so no node is linked into it twice.
ModListMatchesFlags ==
  /\ \A f \in Fds : f \in Range(mod_list) <=> "MOD_LIST" \in flags[f]
  /\ \A i, j \in DOMAIN mod_list : mod_list[i] = mod_list[j] => i = j

\* The kernel, and the events fetched from it, refer only to objects whose
\* wait is not over: once the callback is submitted the object may be freed.
KernelPointersLive ==
  \A f \in Fds :
    (epoll[f] /= None \/ f \in DOMAIN loop.evts) => "WAITING" \in flags[f]

\* No notification is swallowed for good: intr_state is 1 only while the
\* byte it stands for is in the pipe or about to be written, or between the
\* two steps of intr_ack(), after which the loop looks at everything anyway.
IntrStateBacked ==
  intr_state = 1 => \/ pipe
                    \/ loop.pc = "ack"
                    \/ \E t \in Thread : th[t].pc = "write"

\* The loop does not fall asleep over work: when it is about to wait, objects
\* in the list (and tasks that only the loop can run) come with a byte in the
\* pipe or a thread that is about to write one, and no notifier relies on a
\* byte that is not there.
LoopWillWake ==
  /\ IntrStateBacked
  /\ (loop.pc = "wait" /\ (mod_list /= <<>> \/ (queued /= {} /\ ~Background))) =>
       pipe \/ \E t \in Thread : th[t].pc \in {"notify", "write"}

\* A wait ends if it is cancelled, or if an event in its set stays present,
\* provided that ioq_iterate() keeps returning: its runq_dispatch() has no
\* limit, so tasks that submit tasks without end keep the loop from waiting.
WaitEnds ==
  []<>(loop.pc = "wait") =>
    \A f \in Fds :
      ~<>[](wanted[f] /\ (requested[f] = {} \/ requested[f] \cap level[f] /= {}))

Phase(f) ==
  IF ~wanted[f] THEN "idle" ELSE IF "WAITING" \in flags[f] THEN "waiting" ELSE "over"

WaitObjectOf(f) ==
  INSTANCE WaitObject WITH phase <- Phase(f), set <- requested[f],
                           cancelled <- cancelled[f], ready <- ready[f], err <- err[f]

\* Every wait object does what WaitObject says, whatever the loop, the other
\* objects and the threads do: one callback per wait, and a callback has a
\* reason, an event, a cancellation or an error.  This is all that files and
\* sockets rely on.
ImplementsWaitObject ==
  /\ \A f \in Fds : WaitObjectOf(f)!WaitInit
  /\ [][\A f \in Fds : [WaitObjectOf(f)!WaitNext]_(WaitObjectOf(f)!waitVars)]_vars

\* Tasks that are submitted are started.
JobsRun == \A j \in Jobs : j \in queued ~> j \notin queued
=============================================================================
