------------------------------- MODULE Runq -------------------------------
(***************************************************************************)
(* The run queue of io/runq.c: a pool of background workers fed by a       *)
(* mutex-protected singly linked job list, with one event per worker.      *)
(*                                                                         *)
(* Every critical section of r->lock is one action: it contains no         *)
(* blocking call and nothing outside it reads the data it protects.  The   *)
(* calls on a worker's event are actions of their own (ThrEvent shows that *)
(* an event behaves as the flag used here).  A thread that is inside       *)
(* runq_task_exec() after the unlock, walking over the workers, keeps the  *)
(* number of the next worker in "raising".                                 *)
(***************************************************************************)
EXTENDS Integers, Sequences, Functions

CONSTANTS
  NumWorkers,   \* r->num_workers
  Tasks,        \* the runq_task structures of the program
  Clients,      \* threads of the program that are not workers
  Limits,       \* values passed to runq_dispatch() (0: no limit)
  HasHook,      \* whether r->wakeup is set
  NoTask

Worker == 1 .. NumWorkers
Thread == Worker \cup Clients

ASSUME RunqAssumption ==
  /\ NumWorkers \in Nat
  /\ Clients \cap Worker = {}
  /\ Limits \subseteq Nat
  /\ HasHook \in BOOLEAN
  /\ NoTask \notin Tasks

\* What thr_start() may return.  When no thread can be created it is the positive
\* errno value of pthread_create() (EAGAIN), and -1 in the variant for Windows.
\* Every call chooses anew, which includes what either build does.
ThrStart == {0, 11, -1}

VARIABLES
  job_list,      \* r->job_list, first to be popped first
  quit_request,  \* r->quit_request
  wakeup,        \* wakeup[w]: the state of worker w's event
  pc,            \* where each thread is
  cur,           \* cur[t]: the task whose function t is executing
  raising,       \* raising[t]: next worker to raise in runq_task_exec(); 0: none
  budget,        \* budget[c]: tasks runq_dispatch() may still run; -1: no limit
  notified,      \* the wakeup hook was called and not yet answered
  boss,          \* progress of runq_init() and runq_destroy()
  nth,           \* the worker their loops have reached
  dir            \* the direction of the joining loop

bossVars == <<boss, nth, dir>>
vars == <<job_list, quit_request, wakeup, pc, cur, raising, budget,
          notified, bossVars>>

WorkerPc == {"none", "wait", "clear", "run", "task", "exit"}
ClientPc == {"idle", "run", "task"}
BossPc == {"alloc", "create", "up", "quit", "raise", "join", "failed", "gone"}

Init ==
  /\ job_list = <<>>
  /\ quit_request = FALSE
  /\ wakeup = [w \in Worker |-> FALSE]
  /\ pc = [t \in Thread |-> IF t \in Worker THEN "none" ELSE "idle"]
  /\ cur = [t \in Thread |-> NoTask]
  /\ raising = [t \in Thread |-> 0]
  /\ budget = [c \in Clients |-> 0]
  /\ notified = FALSE
  /\ boss = "alloc"
  /\ nth = 1
  /\ dir = 1

---------------------------------------------------------------------------
(* runq_init() *)

\* The allocation of r->workers; without workers there is nothing to do.
AllocWorkers ==
  /\ boss = "alloc"
  /\ \/ NumWorkers = 0 /\ boss' = "up"
     \/ NumWorkers > 0 /\ boss' \in {"create", "failed"}
  /\ UNCHANGED <<job_list, quit_request, wakeup, pc, cur, raising, budget,
                 notified, nth, dir>>

\* init_worker() for the next worker.  r is what thr_start() returned: the
\* thread exists only if r is 0, but the caller tests r < 0.  (-1 also stands for
\* a failing thr_event_init().)
InitWorker(r) ==
  /\ boss = "create"
  /\ pc' = IF r = 0 THEN [pc EXCEPT ![nth] = "wait"] ELSE pc
  /\ \/ r < 0 /\ boss' = "quit" /\ nth' = nth - 1 /\ dir' = -1
     \/ r >= 0 /\ nth < NumWorkers /\ nth' = nth + 1 /\ UNCHANGED <<boss, dir>>
     \/ r >= 0 /\ nth = NumWorkers /\ boss' = "up" /\ UNCHANGED <<nth, dir>>
  /\ UNCHANGED <<job_list, quit_request, wakeup, cur, raising, budget, notified>>

---------------------------------------------------------------------------
(* runq_destroy(), and the failure path of runq_init() *)

\* What the teardown ends in: runq_init() returns -1, or the pool is gone.
TornDownPc == IF dir = 1 THEN "gone" ELSE "failed"

\* The caller may destroy the queue only when no other thread of the program
\* is using it.  Tasks may still be queued or running on the workers.
DestroyBegin ==
  /\ boss = "up"
  /\ \A c \in Clients : pc[c] = "idle" /\ raising[c] = 0
  /\ boss' = IF NumWorkers = 0 THEN "gone" ELSE "quit"
  /\ nth' = 1
  /\ dir' = 1
  /\ UNCHANGED <<job_list, quit_request, wakeup, pc, cur, raising, budget,
                 notified>>

\* What follows request_quit().
AfterQuit == IF nth \in Worker THEN "raise" ELSE TornDownPc

\* request_quit()
RequestQuit ==
  /\ boss = "quit"
  /\ quit_request' = TRUE
  /\ boss' = AfterQuit
  /\ UNCHANGED <<job_list, wakeup, pc, cur, raising, budget, notified, nth, dir>>

\* join_worker(): raise the worker's event ...
JoinRaise ==
  /\ boss = "raise"
  /\ wakeup' = [wakeup EXCEPT ![nth] = TRUE]
  /\ boss' = "join"
  /\ UNCHANGED <<job_list, quit_request, pc, cur, raising, budget, notified, nth, dir>>

\* Mutation: the loop stops one worker early.
MoreToJoinShort == nth + dir + dir \in Worker

\* Whether the joining loop (upwards in runq_destroy(), downwards in
\* runq_init()) has another round.
MoreToJoin == nth + dir \in Worker

\* The workers that join_worker() is done with: their events are destroyed.
Destroyed ==
  {w \in Worker : /\ boss \in {"raise", "join"}
                  /\ (dir = 1 /\ w < nth) \/ (dir = -1 /\ w > nth)}

\* ... then wait for the thread to end, and destroy the event (see Destroyed).
\* Joining a thread that was never created is undefined; here it returns, if at
\* all, without effect.
JoinWait ==
  /\ boss = "join"
  /\ pc[nth] \in {"exit", "none"}
  /\ boss' = IF MoreToJoin THEN "raise" ELSE TornDownPc
  /\ nth' = IF MoreToJoin THEN nth + dir ELSE nth
  /\ UNCHANGED <<job_list, quit_request, wakeup, pc, cur, raising, budget,
                 notified, dir>>

\* thr_join() returns when it is given a thread.
JoinThread == JoinWait /\ pc[nth] = "exit"

---------------------------------------------------------------------------
(* runq_task_exec() *)

\* A client calls it while the pool is up; a running task may call it at any
\* time, also during teardown.
MayCall(t) ==
  /\ raising[t] = 0
  /\ \/ pc[t] = "task"
     \/ t \in Clients /\ pc[t] = "idle" /\ boss = "up"

\* Mutation: the test for the empty list is made after the append.
WakeFromLate(q) == IF Append(q, NoTask) = <<>> THEN 1 ELSE 0

\* The first worker to raise after the unlock, if the list was empty.
WakeFrom(q) == IF q = <<>> THEN 1 ELSE 0

\* The locked section.  The caller may not reuse a task that is pending.
TaskExec(t, k) ==
  /\ MayCall(t)
  /\ k \notin Range(job_list)
  /\ job_list' = Append(job_list, k)
  /\ raising' = [raising EXCEPT ![t] = WakeFrom(job_list)]
  /\ UNCHANGED <<quit_request, wakeup, pc, cur, budget, notified, bossVars>>

\* Mutation: only the first worker is woken.
RaiseWorkerOnce(t) ==
  /\ raising[t] \in Worker
  /\ wakeup' = [wakeup EXCEPT ![raising[t]] = TRUE]
  /\ raising' = [raising EXCEPT ![t] = NumWorkers + 1]
  /\ UNCHANGED <<job_list, quit_request, pc, cur, budget, notified, bossVars>>

\* One round of the loop over the workers.  What raising a destroyed event does is
\* undefined; whatever it stores, nobody waits for it any more.
RaiseWorker(t) ==
  /\ raising[t] \in Worker
  /\ wakeup' = [wakeup EXCEPT ![raising[t]] = TRUE]
  /\ raising' = [raising EXCEPT ![t] = @ + 1]
  /\ UNCHANGED <<job_list, quit_request, pc, cur, budget, notified, bossVars>>

\* Mutation: the hook is called only when there are workers.
HookTargetWorkers == HasHook /\ NumWorkers > 0

\* Whether the hook is called after the loop.
HookTarget == HasHook

\* The call of the hook, and the return.
CallHook(t) ==
  /\ raising[t] = NumWorkers + 1
  /\ notified' = (notified \/ HookTarget)
  /\ raising' = [raising EXCEPT ![t] = 0]
  /\ UNCHANGED <<job_list, quit_request, wakeup, pc, cur, budget, bossVars>>

---------------------------------------------------------------------------
(* run_one() and the threads that call it *)

\* Mutation: worker_func() takes the -1 for a task that was run.
OnQuitSpins(t) == IF t \in Worker THEN "run" ELSE "idle"

\* Where a thread goes when run_one() returns -1 or 0.
OnQuit(t) == IF t \in Worker THEN "exit" ELSE "idle"
OnEmpty(t) == IF t \in Worker THEN "wait" ELSE "idle"

RunOneQuit(t) ==
  /\ pc[t] = "run"
  /\ quit_request
  /\ pc' = [pc EXCEPT ![t] = OnQuit(t)]
  /\ UNCHANGED <<job_list, quit_request, wakeup, cur, raising, budget,
                 notified, bossVars>>

RunOneEmpty(t) ==
  /\ pc[t] = "run"
  /\ ~quit_request
  /\ job_list = <<>>
  /\ pc' = [pc EXCEPT ![t] = OnEmpty(t)]
  /\ UNCHANGED <<job_list, quit_request, wakeup, cur, raising, budget,
                 notified, bossVars>>

\* Mutation: the whole list is detached instead of its first node.
RestAfterPopAll(q) == <<>>

\* What slist_pop() leaves.
RestAfterPop(q) == Tail(q)

RunOnePop(t) ==
  /\ pc[t] = "run"
  /\ ~quit_request
  /\ job_list /= <<>>
  /\ job_list' = RestAfterPop(job_list)
  /\ cur' = [cur EXCEPT ![t] = Head(job_list)]
  /\ pc' = [pc EXCEPT ![t] = "task"]
  /\ UNCHANGED <<quit_request, wakeup, raising, budget, notified, bossVars>>

\* When a task function returns, worker_func() loops and runq_dispatch() counts.
AfterTask(t) ==
  IF t \in Worker \/ budget[t] /= 1 THEN "run" ELSE "idle"

BudgetAfter(t) ==
  IF t \in Clients /\ budget[t] > 0 THEN [budget EXCEPT ![t] = @ - 1] ELSE budget

TaskReturn(t) ==
  /\ pc[t] = "task"
  /\ raising[t] = 0
  /\ cur' = [cur EXCEPT ![t] = NoTask]
  /\ pc' = [pc EXCEPT ![t] = AfterTask(t)]
  /\ budget' = BudgetAfter(t)
  /\ UNCHANGED <<job_list, quit_request, wakeup, raising, notified, bossVars>>

\* worker_func(): thr_event_wait() ...
WorkerWake(w) ==
  /\ pc[w] = "wait"
  /\ wakeup[w]
  /\ pc' = [pc EXCEPT ![w] = "clear"]
  /\ UNCHANGED <<job_list, quit_request, wakeup, cur, raising, budget,
                 notified, bossVars>>

\* ... and thr_event_clear().
WorkerClear(w) ==
  /\ pc[w] = "clear"
  /\ wakeup' = [wakeup EXCEPT ![w] = FALSE]
  /\ pc' = [pc EXCEPT ![w] = "run"]
  /\ UNCHANGED <<job_list, quit_request, cur, raising, budget, notified, bossVars>>

\* runq_dispatch() called with a limit.
Dispatch(c, limit) ==
  /\ boss = "up"
  /\ pc[c] = "idle"
  /\ raising[c] = 0
  /\ pc' = [pc EXCEPT ![c] = "run"]
  /\ budget' = [budget EXCEPT ![c] = IF limit = 0 THEN -1 ELSE limit]
  /\ UNCHANGED <<job_list, quit_request, wakeup, cur, raising, notified, bossVars>>

\* A client that answers the hook with an unlimited runq_dispatch(), as
\* ioq_iterate() does.
HookDispatch(c) ==
  /\ boss = "up"
  /\ notified
  /\ pc[c] = "idle"
  /\ raising[c] = 0
  /\ notified' = FALSE
  /\ pc' = [pc EXCEPT ![c] = "run"]
  /\ budget' = [budget EXCEPT ![c] = -1]
  /\ UNCHANGED <<job_list, quit_request, wakeup, cur, raising, bossVars>>

---------------------------------------------------------------------------
BossNext ==
  \/ AllocWorkers
  \/ \E r \in ThrStart : InitWorker(r)
  \/ DestroyBegin
  \/ RequestQuit
  \/ JoinRaise
  \/ JoinWait

\* What a thread does between two calls of its own choosing.
ThreadStep(t) ==
  \/ RaiseWorker(t)
  \/ CallHook(t)
  \/ RunOneQuit(t)
  \/ RunOneEmpty(t)
  \/ RunOnePop(t)
  \/ t \in Worker /\ WorkerWake(t)
  \/ t \in Worker /\ WorkerClear(t)

\* The program has destroyed the queue, or could not create it.
Finished ==
  /\ boss \in {"gone", "failed"}
  /\ UNCHANGED vars

Next ==
  \/ BossNext
  \/ \E t \in Thread :
       \/ ThreadStep(t)
       \/ TaskReturn(t)
       \/ \E k \in Tasks : TaskExec(t, k)
  \/ \E c \in Clients :
       \/ \E limit \in Limits : Dispatch(c, limit)
       \/ HookDispatch(c)
  \/ Finished

Spec == Init /\ [][Next]_vars

\* Threads that are able to run are scheduled; the hook is answered; a
\* teardown that has begun goes on.  Nothing is assumed about how long a
\* task runs or whether the queue is ever destroyed.
Fairness ==
  /\ \A t \in Thread : WF_vars(ThreadStep(t))
  /\ WF_vars(\E c \in Clients : HookDispatch(c))
  /\ WF_vars(RequestQuit \/ JoinRaise \/ JoinThread)

FairSpec == Spec /\ Fairness

\* Task functions return.  A task that submits another one is not able to
\* return until runq_task_exec() has, hence strong fairness: it makes finitely
\* many such calls.
TasksReturn == \A t \in Thread : SF_vars(TaskReturn(t))

ReturningSpec == FairSpec /\ TasksReturn

---------------------------------------------------------------------------
(* Properties *)

TypeOK ==
  /\ job_list \in Seq(Tasks)
  /\ quit_request \in BOOLEAN
  /\ wakeup \in [Worker -> BOOLEAN]
  /\ pc \in [Thread -> WorkerPc \cup ClientPc]
  /\ \A w \in Worker : pc[w] \in WorkerPc
  /\ \A c \in Clients : pc[c] \in ClientPc
  /\ cur \in [Thread -> Tasks \cup {NoTask}]
  /\ raising \in [Thread -> 0 .. NumWorkers + 1]
  /\ budget \in [Clients -> Nat \cup {-1}]
  /\ notified \in BOOLEAN
  /\ boss \in BossPc
  /\ nth \in 0 .. NumWorkers + 1
  /\ boss = "alloc" => nth = 1
  /\ boss \in {"create", "raise", "join"} => nth \in Worker
  /\ dir \in {1, -1}

\* Worker w sleeps on its event and nothing has raised it.
Parked(w) == pc[w] = "wait" /\ ~wakeup[w]

\* Some thread is in runq_task_exec() and will still raise worker w's event.
WillBeRaised(w) == \E t \in Thread : raising[t] \in 1 .. w

\* No wakeup is lost: while there are jobs in the list, every worker is awake,
\* has its event raised, or is about to have it raised.  runq_task_exec()
\* raises events only when the list was empty, after it has dropped the lock,
\* and a worker clears its event before, not after, it looks at the list.
NoStrandedJob ==
  job_list /= <<>> =>
    \A w \in Worker : ~Parked(w) \/ WillBeRaised(w)

\* The same for a queue that is served from a hook: while there are jobs, the
\* hook's call is outstanding, or about to be made, or an unlimited
\* runq_dispatch() is going on and will not stop before the list is empty.
NoForgottenHook ==
  (HasHook /\ boss = "up" /\ job_list /= <<>>) =>
    \/ notified
    \/ \E t \in Thread : raising[t] > 0
    \/ \E c \in Clients : pc[c] \in {"run", "task"} /\ budget[c] = -1

\* When runq_destroy() or a failing runq_init() has freed the workers, no
\* worker thread is left that could touch them, neither in worker_func() nor
\* in a runq_task_exec() called by a task.  Before that, the events that
\* join_worker() has already destroyed are raised by nobody but a task on a
\* worker that runq_destroy() joins later, which is a defect of its own.
TornDown ==
  /\ boss \in {"gone", "failed"} =>
       \A t \in Thread : /\ raising[t] = 0
                         /\ t \in Worker => pc[t] \in {"none", "exit"}
  /\ \A t \in Thread :
       raising[t] \in Destroyed => dir = 1 /\ t \in Worker /\ pc[t] = "task" /\ t > raising[t]

\* runq.h: runq_init() initializes a run queue "specifying the number of
\* background workers", so one that returns 0 has created them.  It has not when
\* pthread_create() fails, whose result init_worker() takes for success.
InitReportsFailure == boss = "up" => \A w \in Worker : pc[w] /= "none"

\* One task that does not return does not hold up the others: a queued task
\* leaves the queue unless teardown begins or every worker thread there is (and
\* pthread_create() may have failed for some) is inside a task.
QueueServed ==
  \A k \in Tasks :
    (boss = "up" /\ k \in Range(job_list)) ~>
      \/ k \notin Range(job_list)
      \/ boss /= "up"
      \/ \A w \in Worker : pc[w] \in {"task", "none"}

\* A teardown that has begun ends, however far the workers and the tasks that
\* still submit tasks have come, provided task functions return - unless it comes
\* to a worker for which pthread_create() failed, and joins what is no thread.
DestroyTerminates ==
  TasksReturn =>
    (boss = "quit" ~> \/ boss \in {"gone", "failed"}
                      \/ boss = "join" /\ pc[nth] = "none")

\* What the queue promises to those who submit tasks.
Pool == INSTANCE TaskPool WITH
  Threads <- Thread,
  pending <- Range(job_list),
  running <- cur,
  closed <- quit_request \/ boss \in {"gone", "failed"}

\* The run queue implements TaskPool's safety part: every job in the list is
\* started at most once, whoever pops it, and none after request_quit().
ImplementsSafePool == Pool!SafeSpec

\* If task functions return, it implements all of TaskPool: a job in the list
\* is started in the end unless the queue is torn down.
ImplementsPool == Pool!Spec
=============================================================================
