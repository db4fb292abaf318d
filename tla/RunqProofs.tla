----------------------------- MODULE RunqProofs -----------------------------
(***************************************************************************)
(* Proofs about Runq for any number of workers, client threads and tasks.  *)
(***************************************************************************)
EXTENDS Runq, TLAPS

---------------------------------------------------------------------------
(* Type correctness *)

\* Every step preserves the type invariant.
LEMMA TypeStep == TypeOK /\ [Next]_vars => TypeOK'
<1> SUFFICES ASSUME TypeOK, [Next]_vars PROVE TypeOK'
  OBVIOUS
<1> USE RunqAssumption DEF TypeOK, bossVars
<1>1. CASE AllocWorkers
  BY <1>1 DEF AllocWorkers, BossPc, Worker
<1>2. ASSUME NEW r \in ThrStart, InitWorker(r) PROVE TypeOK'
  <2>1. pc' \in [Thread -> WorkerPc \cup ClientPc]
        /\ (\A w \in Worker : pc'[w] \in WorkerPc)
        /\ (\A c \in Clients : pc'[c] \in ClientPc)
    <3>1. \A c \in Clients : c /= nth
      BY <1>2 DEF InitWorker
    <3>2. QED
      BY <1>2, <3>1 DEF InitWorker, Thread, WorkerPc
  <2>2. boss' \in BossPc /\ nth' \in 0 .. NumWorkers + 1 /\ dir' \in {1, -1}
        /\ (boss' = "alloc" => nth' = 1)
        /\ (boss' \in {"create", "raise", "join"} => nth' \in Worker)
    BY <1>2 DEF InitWorker, BossPc, Worker, ThrStart
  <2>3. QED
    BY <1>2, <2>1, <2>2 DEF InitWorker
<1>3. CASE DestroyBegin
  BY <1>3 DEF DestroyBegin, BossPc
<1>4. CASE RequestQuit
  BY <1>4 DEF RequestQuit, AfterQuit, BossPc, TornDownPc
<1>5. CASE JoinRaise
  BY <1>5 DEF JoinRaise, BossPc, Worker
<1>6. CASE JoinWait
  BY <1>6 DEF JoinWait, MoreToJoin, BossPc, TornDownPc, Worker
<1>7. ASSUME NEW t \in Thread, NEW k \in Tasks, TaskExec(t, k) PROVE TypeOK'
  BY <1>7 DEF TaskExec, WakeFrom
<1>8. ASSUME NEW t \in Thread, RaiseWorker(t) PROVE TypeOK'
  BY <1>8 DEF RaiseWorker, Worker
<1>9. ASSUME NEW t \in Thread, CallHook(t) PROVE TypeOK'
  BY <1>9 DEF CallHook, HookTarget
<1>10. ASSUME NEW t \in Thread, RunOneQuit(t) PROVE TypeOK'
  BY <1>10 DEF RunOneQuit, OnQuit, Thread, WorkerPc, ClientPc
<1>11. ASSUME NEW t \in Thread, RunOneEmpty(t) PROVE TypeOK'
  BY <1>11 DEF RunOneEmpty, OnEmpty, Thread, WorkerPc, ClientPc
<1>12. ASSUME NEW t \in Thread, RunOnePop(t) PROVE TypeOK'
  BY <1>12 DEF RunOnePop, RestAfterPop, Thread, WorkerPc, ClientPc
<1>13. ASSUME NEW t \in Thread, TaskReturn(t) PROVE TypeOK'
  <2>1. \A c \in Clients : budget[c] > 0 => budget[c] - 1 \in Nat
    OBVIOUS
  <2>2. budget' \in [Clients -> Nat \cup {-1}]
    BY <1>13, <2>1 DEF TaskReturn, BudgetAfter
  <2>3. pc' \in [Thread -> WorkerPc \cup ClientPc]
        /\ (\A w \in Worker : pc'[w] \in WorkerPc)
        /\ (\A c \in Clients : pc'[c] \in ClientPc)
    BY <1>13 DEF TaskReturn, AfterTask, Thread, WorkerPc, ClientPc
  <2>4. QED
    BY <1>13, <2>2, <2>3 DEF TaskReturn
<1>14. ASSUME NEW w \in Worker, WorkerWake(w) PROVE TypeOK'
  BY <1>14 DEF WorkerWake, Thread, WorkerPc
<1>15. ASSUME NEW w \in Worker, WorkerClear(w) PROVE TypeOK'
  BY <1>15 DEF WorkerClear, Thread, WorkerPc
<1>16. ASSUME NEW c \in Clients, NEW limit \in Limits, Dispatch(c, limit) PROVE TypeOK'
  BY <1>16 DEF Dispatch, Thread, ClientPc
<1>17. ASSUME NEW c \in Clients, HookDispatch(c) PROVE TypeOK'
  BY <1>17 DEF HookDispatch, Thread, ClientPc
<1>18. CASE UNCHANGED vars
  BY <1>18 DEF vars
<1>19. QED
  BY <1>1, <1>2, <1>3, <1>4, <1>5, <1>6, <1>7, <1>8, <1>9, <1>10, <1>11, <1>12,
     <1>13, <1>14, <1>15, <1>16, <1>17, <1>18
     DEF Next, BossNext, ThreadStep, Finished

\* The state is well formed: in particular the walk over the workers in
\* runq_task_exec() and the joining loops stay within the array.
THEOREM TypeCorrect == Spec => []TypeOK
<1>1. Init => TypeOK
  <2> SUFFICES ASSUME Init PROVE TypeOK
    OBVIOUS
  <2>1. pc \in [Thread -> WorkerPc \cup ClientPc]
        /\ (\A w \in Worker : pc[w] \in WorkerPc)
        /\ (\A c \in Clients : pc[c] \in ClientPc)
    BY RunqAssumption DEF Init, Thread, WorkerPc, ClientPc
  <2>2. raising \in [Thread -> 0 .. NumWorkers + 1] /\ nth \in 0 .. NumWorkers + 1
    BY RunqAssumption DEF Init
  <2>3. job_list \in Seq(Tasks) /\ budget \in [Clients -> Nat \cup {-1}]
    BY DEF Init
  <2>4. quit_request \in BOOLEAN /\ wakeup \in [Worker -> BOOLEAN] /\ notified \in BOOLEAN
    BY DEF Init
  <2>5. cur \in [Thread -> Tasks \cup {NoTask}]
    BY DEF Init
  <2>6. boss \in BossPc /\ dir \in {1, -1} /\ (boss = "alloc" => nth = 1)
        /\ (boss \in {"create", "raise", "join"} => nth \in Worker)
    BY DEF Init, BossPc
  <2>7. QED
    BY <2>1, <2>2, <2>3, <2>4, <2>5, <2>6 DEF TypeOK
<1>2. QED
  BY <1>1, TypeStep, PTL DEF Spec

---------------------------------------------------------------------------
(* The life of the pool *)

\* Until runq_init() returns nothing has been submitted, no event was raised
\* and the workers that exist sleep.
Startup ==
  boss \in {"alloc", "create"} =>
    /\ dir = 1
    /\ job_list = <<>>
    /\ \A t \in Thread : raising[t] = 0 /\ pc[t] \in {"none", "wait", "idle"}
    /\ \A w \in Worker : ~wakeup[w] /\ (w >= nth => pc[w] = "none")

\* Before and after the pool is up the threads of the program are not in it.
ClientsOut ==
  boss /= "up" => \A c \in Clients : pc[c] = "idle" /\ raising[c] = 0

\* A worker is in runq_task_exec() only inside a task.
RaisesInTask == \A w \in Worker : raising[w] /= 0 => pc[w] = "task"

Over(w) == pc[w] \in {"none", "exit"}

\* The workers that the joining loop has passed have ended, or never existed.
Joined ==
  /\ boss \in {"quit", "raise", "join"} =>
       \A w \in Worker : (dir = 1 /\ w < nth) \/ (dir = -1 /\ w > nth) => Over(w)
  /\ boss = "quit" /\ dir = 1 => nth = 1 /\ NumWorkers > 0
  /\ boss = "quit" => nth <= NumWorkers
  /\ boss \in {"gone", "failed"} => \A w \in Worker : Over(w)

LifeInv == Startup /\ ClientsOut /\ RaisesInTask /\ Joined

\* The initial state satisfies the invariant of the pool's life.
LEMMA LifeInit == Init => LifeInv
<1> SUFFICES ASSUME Init PROVE LifeInv
  OBVIOUS
<1> USE RunqAssumption
<1>1. Startup
  BY DEF Init, Startup, Thread
<1>2. ClientsOut
  BY DEF Init, ClientsOut, Thread
<1>3. RaisesInTask /\ Joined
  BY DEF Init, RaisesInTask, Joined, Thread
<1>4. QED
  BY <1>1, <1>2, <1>3 DEF LifeInv

\* Every step preserves it.
LEMMA LifeStep == TypeOK /\ TypeOK' /\ LifeInv /\ [Next]_vars => LifeInv'
<1> SUFFICES ASSUME TypeOK, TypeOK', LifeInv, [Next]_vars PROVE LifeInv'
  OBVIOUS
<1> USE RunqAssumption DEF TypeOK, bossVars, LifeInv
<1>0. Worker \subseteq Thread /\ Clients \subseteq Thread
      /\ (\A w \in Worker : \A c \in Clients : w /= c)
      /\ (\A t \in Thread : t \in Worker \/ t \in Clients)
  BY DEF Thread
<1>1. CASE AllocWorkers
  BY <1>0, <1>1 DEF AllocWorkers, Startup, ClientsOut, RaisesInTask, Joined, Over, Worker
<1>2. ASSUME NEW r \in ThrStart, InitWorker(r) PROVE LifeInv'
  <2> nth \in Worker
    BY <1>2 DEF InitWorker
  <2>1. Startup'
    BY <1>0, <1>2 DEF InitWorker, Startup, ThrStart, Worker
  <2>2. ClientsOut'
    BY <1>0, <1>2 DEF InitWorker, ClientsOut
  <2>3. RaisesInTask'
    BY <1>0, <1>2 DEF InitWorker, RaisesInTask, Startup
  <2>4. Joined'
    BY <1>0, <1>2 DEF InitWorker, Joined, Startup, Over, ThrStart, Worker
  <2>5. QED
    BY <2>1, <2>2, <2>3, <2>4
<1>3. CASE DestroyBegin
  BY <1>0, <1>3 DEF DestroyBegin, Startup, ClientsOut, RaisesInTask, Joined, Over, Worker
<1>4. CASE RequestQuit
  <2>1. Startup' /\ ClientsOut' /\ RaisesInTask'
    BY <1>0, <1>4 DEF RequestQuit, AfterQuit, TornDownPc, Startup, ClientsOut, RaisesInTask
  <2>2. Joined'
    BY <1>0, <1>4 DEF RequestQuit, AfterQuit, TornDownPc, Joined, Over, Worker
  <2>3. QED
    BY <2>1, <2>2
<1>5. CASE JoinRaise
  BY <1>0, <1>5 DEF JoinRaise, Startup, ClientsOut, RaisesInTask, Joined, Over
<1>6. CASE JoinWait
  <2>1. Startup' /\ ClientsOut' /\ RaisesInTask'
    BY <1>0, <1>6 DEF JoinWait, TornDownPc, Startup, ClientsOut, RaisesInTask
  <2>2. nth \in Worker /\ Over(nth)
    BY <1>6 DEF JoinWait, Over
  <2>3. CASE MoreToJoin
    <3>1. boss' = "raise" /\ nth' = nth + dir /\ dir' = dir /\ pc' = pc
      BY <1>6, <2>3 DEF JoinWait
    <3>2. \A w \in Worker : (dir = 1 /\ w < nth + dir) \/ (dir = -1 /\ w > nth + dir)
                           => w = nth \/ (dir = 1 /\ w < nth) \/ (dir = -1 /\ w > nth)
      BY <2>2 DEF Worker
    <3>3. QED
      BY <1>6, <2>1, <2>2, <3>1, <3>2 DEF JoinWait, Joined, Over
  <2>4. CASE ~MoreToJoin
    <3>1. boss' = TornDownPc /\ pc' = pc
      BY <1>6, <2>4 DEF JoinWait
    <3>2. \A w \in Worker : w = nth \/ (dir = 1 /\ w < nth) \/ (dir = -1 /\ w > nth)
      BY <2>2, <2>4 DEF Worker, MoreToJoin
    <3>3. QED
      BY <1>6, <2>1, <2>2, <3>1, <3>2 DEF JoinWait, Joined, Over, TornDownPc
  <2>5. QED
    BY <2>3, <2>4
<1>7. ASSUME NEW t \in Thread, NEW k \in Tasks, TaskExec(t, k) PROVE LifeInv'
  <2>1. boss \notin {"alloc", "create"}
    BY <1>7 DEF TaskExec, MayCall, Startup
  <2>2. Startup' /\ Joined'
    BY <1>7, <2>1 DEF TaskExec, Startup, Joined, Over
  <2>3. t \in Clients => boss = "up"
    BY <1>0, <1>7 DEF TaskExec, MayCall, ClientsOut
  <2>4. ClientsOut'
    BY <1>0, <1>7, <2>3 DEF TaskExec, ClientsOut
  <2>5. RaisesInTask'
    BY <1>0, <1>7 DEF TaskExec, MayCall, RaisesInTask
  <2>6. QED
    BY <2>2, <2>4, <2>5
<1>8. ASSUME NEW t \in Thread, RaiseWorker(t) PROVE LifeInv'
  <2>1. raising[t] /= 0 /\ boss \notin {"alloc", "create"}
    BY <1>8 DEF RaiseWorker, Startup, Worker
  <2>2. Startup' /\ Joined'
    BY <1>8, <2>1 DEF RaiseWorker, Startup, Joined, Over
  <2>3. ClientsOut'
    BY <1>0, <1>8, <2>1 DEF RaiseWorker, ClientsOut
  <2>4. RaisesInTask'
    BY <1>0, <1>8, <2>1 DEF RaiseWorker, RaisesInTask
  <2>5. QED
    BY <2>2, <2>3, <2>4
<1>9. ASSUME NEW t \in Thread, CallHook(t) PROVE LifeInv'
  BY <1>0, <1>9 DEF CallHook, Startup, ClientsOut, RaisesInTask, Joined, Over
<1>10. ASSUME NEW t \in Thread, RunOneQuit(t) PROVE LifeInv'
  BY <1>0, <1>10 DEF RunOneQuit, OnQuit, Startup, ClientsOut, RaisesInTask, Joined, Over
<1>11. ASSUME NEW t \in Thread, RunOneEmpty(t) PROVE LifeInv'
  BY <1>0, <1>11 DEF RunOneEmpty, OnEmpty, Startup, ClientsOut, RaisesInTask, Joined, Over
<1>12. ASSUME NEW t \in Thread, RunOnePop(t) PROVE LifeInv'
  BY <1>0, <1>12 DEF RunOnePop, Startup, ClientsOut, RaisesInTask, Joined, Over
<1>13. ASSUME NEW t \in Thread, TaskReturn(t) PROVE LifeInv'
  BY <1>0, <1>13 DEF TaskReturn, AfterTask, Startup, ClientsOut, RaisesInTask, Joined, Over
<1>14. ASSUME NEW w \in Worker, WorkerWake(w) PROVE LifeInv'
  BY <1>0, <1>14 DEF WorkerWake, Startup, ClientsOut, RaisesInTask, Joined, Over
<1>15. ASSUME NEW w \in Worker, WorkerClear(w) PROVE LifeInv'
  BY <1>0, <1>15 DEF WorkerClear, Startup, ClientsOut, RaisesInTask, Joined, Over
<1>16. ASSUME NEW c \in Clients, NEW limit \in Limits, Dispatch(c, limit) PROVE LifeInv'
  BY <1>0, <1>16 DEF Dispatch, Startup, ClientsOut, RaisesInTask, Joined, Over
<1>17. ASSUME NEW c \in Clients, HookDispatch(c) PROVE LifeInv'
  BY <1>0, <1>17 DEF HookDispatch, Startup, ClientsOut, RaisesInTask, Joined, Over
<1>18. CASE UNCHANGED vars
  BY <1>18 DEF vars, Startup, ClientsOut, RaisesInTask, Joined, Over
<1>19. QED
  BY <1>1, <1>2, <1>3, <1>4, <1>5, <1>6, <1>7, <1>8, <1>9, <1>10, <1>11, <1>12,
     <1>13, <1>14, <1>15, <1>16, <1>17, <1>18
     DEF Next, BossNext, ThreadStep, Finished

\* When runq_init() fails nothing has been submitted.
NeverUp ==
  dir = -1 =>
    /\ boss \in {"quit", "raise", "join", "failed"} /\ job_list = <<>>
    /\ \A t \in Thread : raising[t] = 0 /\ pc[t] /= "task"

\* Nothing is submitted to a queue that did not come up.
LEMMA NeverUpStep == TypeOK /\ LifeInv /\ NeverUp /\ [Next]_vars => NeverUp'
<1> SUFFICES ASSUME TypeOK, LifeInv, NeverUp, [Next]_vars, dir' = -1 PROVE NeverUp'
  BY DEF NeverUp
<1> USE RunqAssumption DEF TypeOK, bossVars, NeverUp
<1>1. ASSUME NEW r \in ThrStart, InitWorker(r) PROVE NeverUp'
  BY <1>1 DEF InitWorker, LifeInv, Startup, Thread
<1>2. CASE AllocWorkers \/ DestroyBegin
  BY <1>2 DEF AllocWorkers, DestroyBegin, LifeInv, Startup
<1>3. CASE RequestQuit \/ JoinRaise
  BY <1>3 DEF RequestQuit, JoinRaise, AfterQuit, TornDownPc
<1>4. CASE JoinWait
  BY <1>4 DEF JoinWait, TornDownPc
<1>5. ASSUME NEW t \in Thread, NEW k \in Tasks, TaskExec(t, k) PROVE NeverUp'
  BY <1>5 DEF TaskExec, MayCall
<1>6. ASSUME NEW t \in Thread, RaiseWorker(t) \/ CallHook(t) PROVE NeverUp'
  BY <1>6 DEF RaiseWorker, CallHook, Worker
<1>7. ASSUME NEW t \in Thread, RunOneQuit(t) \/ RunOneEmpty(t) PROVE NeverUp'
  BY <1>7 DEF RunOneQuit, RunOneEmpty, OnQuit, OnEmpty
<1>8. ASSUME NEW t \in Thread, RunOnePop(t) \/ TaskReturn(t) PROVE NeverUp'
  BY <1>8 DEF RunOnePop, TaskReturn
<1>9. ASSUME NEW w \in Worker, WorkerWake(w) \/ WorkerClear(w) PROVE NeverUp'
  BY <1>9 DEF WorkerWake, WorkerClear, Thread
<1>10. ASSUME NEW c \in Clients, (\E limit \in Limits : Dispatch(c, limit)) \/ HookDispatch(c)
       PROVE  NeverUp'
  BY <1>10 DEF Dispatch, HookDispatch
<1>11. CASE UNCHANGED vars
  BY <1>11 DEF vars
<1>12. QED
  BY <1>1, <1>2, <1>3, <1>4, <1>5, <1>6, <1>7, <1>8, <1>9, <1>10, <1>11
     DEF Next, BossNext, ThreadStep, Finished

\* When the workers have been freed, whether by runq_destroy() or by a failing
\* runq_init(), no thread is left that uses them; and before, an event that is
\* destroyed already is raised only by a task on a worker joined later.
THEOREM TeardownSafe == Spec => []TornDown
<1>1. TypeOK /\ LifeInv /\ NeverUp => TornDown
  <2> SUFFICES ASSUME TypeOK, LifeInv, NeverUp PROVE TornDown
    OBVIOUS
  <2> USE RunqAssumption DEF TypeOK, LifeInv, Thread
  <2>1. boss \in {"gone", "failed"} =>
          \A t \in Thread : raising[t] = 0 /\ (t \in Worker => pc[t] \in {"none", "exit"})
    BY DEF ClientsOut, RaisesInTask, Joined, Over
  <2>2. ASSUME NEW t \in Thread, raising[t] \in Destroyed
        PROVE  dir = 1 /\ t \in Worker /\ pc[t] = "task" /\ t > raising[t]
    <3>1. boss \in {"raise", "join"} /\ raising[t] \in Worker /\ raising[t] /= 0
      BY <2>2 DEF Destroyed, Worker
    <3>2. dir = 1 /\ raising[t] < nth
      BY <2>2, <3>1 DEF Destroyed, NeverUp
    <3>3. t \in Worker /\ pc[t] = "task"
      BY <3>1 DEF ClientsOut, RaisesInTask
    <3>4. ~(t < nth)
      BY <3>1, <3>2, <3>3 DEF Joined, Over
    <3>5. QED
      BY <3>1, <3>2, <3>3, <3>4 DEF Worker
  <2>3. QED
    BY <2>1, <2>2 DEF TornDown
<1>2. Init => NeverUp
  BY DEF Init, NeverUp
<1>3. QED
  BY <1>1, <1>2, NeverUpStep, LifeInit, LifeStep, TypeCorrect, PTL DEF Spec

---------------------------------------------------------------------------
(* No wakeup is lost *)

\* Every step leaves each sleeping worker with a wakeup on its way while there
\* are jobs in the list.
LEMMA WakeStep == TypeOK /\ LifeInv /\ NoStrandedJob /\ [Next]_vars => NoStrandedJob'
<1> SUFFICES ASSUME TypeOK, LifeInv, NoStrandedJob, [Next]_vars,
                    job_list' /= <<>>, NEW w \in Worker
             PROVE  (~Parked(w) \/ WillBeRaised(w))'
  BY DEF NoStrandedJob
<1> USE RunqAssumption DEF TypeOK, bossVars, Parked, WillBeRaised
<1>0. w \in Thread /\ w \in 1 .. NumWorkers
  BY DEF Thread, Worker
<1>a. job_list /= <<>> => ~Parked(w) \/ WillBeRaised(w)
  BY DEF NoStrandedJob
<1>1. CASE AllocWorkers
  BY <1>1, <1>a DEF AllocWorkers
<1>2. ASSUME NEW r \in ThrStart, InitWorker(r)
      PROVE  (~Parked(w) \/ WillBeRaised(w))'
  BY <1>2 DEF InitWorker, LifeInv, Startup
<1>3. CASE DestroyBegin
  BY <1>3, <1>a DEF DestroyBegin
<1>4. CASE RequestQuit
  BY <1>4, <1>a DEF RequestQuit
<1>5. CASE JoinRaise
  BY <1>5, <1>a DEF JoinRaise
<1>6. CASE JoinWait
  BY <1>6, <1>a DEF JoinWait
<1>7. ASSUME NEW t \in Thread, NEW k \in Tasks, TaskExec(t, k)
      PROVE  (~Parked(w) \/ WillBeRaised(w))'
  <2>1. CASE job_list = <<>>
    <3>1. raising'[t] = 1
      BY <1>7, <2>1 DEF TaskExec, WakeFrom
    <3>2. 1 \in 1 .. w
      BY <1>0
    <3>3. QED
      BY <3>1, <3>2
  <2>2. CASE job_list /= <<>>
    <3>1. raising' = raising
      BY <1>7, <2>2 DEF TaskExec, MayCall, WakeFrom
    <3>2. QED
      BY <1>7, <1>a, <2>2, <3>1 DEF TaskExec
  <2>3. QED
    BY <2>1, <2>2
<1>8. ASSUME NEW t \in Thread, RaiseWorker(t)
      PROVE  (~Parked(w) \/ WillBeRaised(w))'
  <2>1. job_list /= <<>> /\ pc' = pc
    BY <1>8 DEF RaiseWorker
  <2>2. CASE ~Parked(w)
    BY <1>8, <2>1, <2>2 DEF RaiseWorker
  <2>3. CASE Parked(w)
    <3>1. PICK u \in Thread : raising[u] \in 1 .. w
      BY <1>a, <2>1, <2>3
    <3>2. CASE u = t /\ raising[t] = w
      BY <1>8, <3>2 DEF RaiseWorker
    <3>3. CASE u = t /\ raising[t] /= w
      <4>1. raising'[t] = raising[t] + 1
        BY <1>8 DEF RaiseWorker
      <4>2. raising[t] + 1 \in 1 .. w
        BY <1>0, <3>1, <3>3
      <4>3. QED
        BY <4>1, <4>2
    <3>4. CASE u /= t
      BY <1>8, <3>1, <3>4 DEF RaiseWorker
    <3>5. QED
      BY <3>2, <3>3, <3>4
  <2>4. QED
    BY <2>2, <2>3
<1>9. ASSUME NEW t \in Thread, CallHook(t)
      PROVE  (~Parked(w) \/ WillBeRaised(w))'
  <2>1. \A u \in Thread : raising[u] \in 1 .. w => raising'[u] = raising[u]
    BY <1>0, <1>9 DEF CallHook
  <2>2. QED
    BY <1>9, <1>a, <2>1 DEF CallHook
<1>10. ASSUME NEW t \in Thread, RunOneQuit(t)
       PROVE  (~Parked(w) \/ WillBeRaised(w))'
  BY <1>0, <1>10, <1>a DEF RunOneQuit, OnQuit
<1>11. ASSUME NEW t \in Thread, RunOneEmpty(t)
       PROVE  (~Parked(w) \/ WillBeRaised(w))'
  BY <1>11 DEF RunOneEmpty
<1>12. ASSUME NEW t \in Thread, RunOnePop(t)
       PROVE  (~Parked(w) \/ WillBeRaised(w))'
  BY <1>0, <1>12, <1>a DEF RunOnePop
<1>13. ASSUME NEW t \in Thread, TaskReturn(t)
       PROVE  (~Parked(w) \/ WillBeRaised(w))'
  BY <1>0, <1>13, <1>a DEF TaskReturn, AfterTask
<1>14. ASSUME NEW v \in Worker, WorkerWake(v)
       PROVE  (~Parked(w) \/ WillBeRaised(w))'
  BY <1>0, <1>14, <1>a DEF WorkerWake
<1>15. ASSUME NEW v \in Worker, WorkerClear(v)
       PROVE  (~Parked(w) \/ WillBeRaised(w))'
  BY <1>0, <1>15, <1>a DEF WorkerClear
<1>16. ASSUME NEW c \in Clients, NEW limit \in Limits, Dispatch(c, limit)
       PROVE  (~Parked(w) \/ WillBeRaised(w))'
  BY <1>0, <1>16, <1>a DEF Dispatch
<1>17. ASSUME NEW c \in Clients, HookDispatch(c)
       PROVE  (~Parked(w) \/ WillBeRaised(w))'
  BY <1>0, <1>17, <1>a DEF HookDispatch
<1>18. CASE UNCHANGED vars
  BY <1>18, <1>a DEF vars
<1>19. QED
  BY <1>1, <1>2, <1>3, <1>4, <1>5, <1>6, <1>7, <1>8, <1>9, <1>10, <1>11, <1>12,
     <1>13, <1>14, <1>15, <1>16, <1>17, <1>18
     DEF Next, BossNext, ThreadStep, Finished

\* However many workers and clients there are, no worker sleeps through a
\* non-empty job list without a wakeup on its way.
THEOREM NoLostWakeup == Spec => []NoStrandedJob
<1>1. Init => NoStrandedJob
  BY DEF Init, NoStrandedJob
<1>2. QED
  BY <1>1, WakeStep, LifeInit, LifeStep, TypeCorrect, PTL DEF Spec

---------------------------------------------------------------------------
(* The hook is not forgotten *)

\* The queue is asked to quit only by a teardown.
QuitOnTeardown == quit_request => boss \notin {"alloc", "create", "up", "quit"}

HookInv == QuitOnTeardown /\ NoForgottenHook

\* Somebody looks after the list, or is about to.
Attended ==
  \/ notified
  \/ \E t \in Thread : raising[t] > 0
  \/ \E c \in Clients : pc[c] \in {"run", "task"} /\ budget[c] = -1

\* Every step leaves somebody who looks after a list that is not empty.
LEMMA HookStep == TypeOK /\ LifeInv /\ HookInv /\ [Next]_vars => HookInv'
<1> SUFFICES ASSUME TypeOK, LifeInv, HookInv, [Next]_vars PROVE HookInv'
  OBVIOUS
<1> USE RunqAssumption DEF TypeOK, bossVars
<1>0. Clients \subseteq Thread /\ (\A w \in Worker : \A c \in Clients : w /= c)
  BY DEF Thread
<1>a. HookInv' = (QuitOnTeardown' /\ (HasHook /\ boss' = "up" /\ job_list' /= <<>> => Attended'))
  BY DEF HookInv, NoForgottenHook, Attended
<1>b. QuitOnTeardown /\ (HasHook /\ boss = "up" /\ job_list /= <<>> => Attended)
  BY DEF HookInv, NoForgottenHook, Attended
<1>1. CASE AllocWorkers
  BY <1>1, <1>a, <1>b DEF AllocWorkers, QuitOnTeardown, LifeInv, Startup
<1>2. ASSUME NEW r \in ThrStart, InitWorker(r) PROVE HookInv'
  BY <1>2, <1>a, <1>b DEF InitWorker, QuitOnTeardown, LifeInv, Startup
<1>3. CASE DestroyBegin
  BY <1>3, <1>a, <1>b DEF DestroyBegin, QuitOnTeardown
<1>4. CASE RequestQuit
  BY <1>4, <1>a, <1>b DEF RequestQuit, QuitOnTeardown, AfterQuit, TornDownPc
<1>5. CASE JoinRaise
  BY <1>5, <1>a, <1>b DEF JoinRaise, QuitOnTeardown
<1>6. CASE JoinWait
  BY <1>6, <1>a, <1>b DEF JoinWait, QuitOnTeardown, TornDownPc
<1>7. ASSUME NEW t \in Thread, NEW k \in Tasks, TaskExec(t, k) PROVE HookInv'
  <2>1. QuitOnTeardown'
    BY <1>7, <1>b DEF TaskExec, QuitOnTeardown
  <2>2. CASE job_list = <<>>
    <3>1. raising'[t] > 0
      BY <1>7, <2>2 DEF TaskExec, WakeFrom
    <3>2. QED
      BY <1>a, <2>1, <3>1 DEF Attended
  <2>3. CASE job_list /= <<>>
    <3>1. raising' = raising
      BY <1>7, <2>3 DEF TaskExec, MayCall, WakeFrom
    <3>2. QED
      BY <1>7, <1>a, <1>b, <2>1, <2>3, <3>1 DEF TaskExec, Attended
  <2>4. QED
    BY <2>2, <2>3
<1>8. ASSUME NEW t \in Thread, RaiseWorker(t) PROVE HookInv'
  <2>1. QuitOnTeardown'
    BY <1>8, <1>b DEF RaiseWorker, QuitOnTeardown
  <2>2. raising'[t] > 0
    BY <1>8 DEF RaiseWorker, Worker
  <2>3. QED
    BY <1>a, <2>1, <2>2 DEF Attended
<1>9. ASSUME NEW t \in Thread, CallHook(t) PROVE HookInv'
  BY <1>9, <1>a, <1>b DEF CallHook, HookTarget, QuitOnTeardown, Attended
<1>10. ASSUME NEW t \in Thread, RunOneQuit(t) PROVE HookInv'
  BY <1>10, <1>a, <1>b DEF RunOneQuit, QuitOnTeardown
<1>11. ASSUME NEW t \in Thread, RunOneEmpty(t) PROVE HookInv'
  BY <1>11, <1>a, <1>b DEF RunOneEmpty, QuitOnTeardown
<1>12. ASSUME NEW t \in Thread, RunOnePop(t) PROVE HookInv'
  <2>1. QuitOnTeardown'
    BY <1>12, <1>b DEF RunOnePop, QuitOnTeardown
  <2>2. Attended => Attended'
    BY <1>0, <1>12 DEF RunOnePop, Attended
  <2>3. QED
    BY <1>12, <1>a, <1>b, <2>1, <2>2 DEF RunOnePop
<1>13. ASSUME NEW t \in Thread, TaskReturn(t) PROVE HookInv'
  <2>1. QuitOnTeardown'
    BY <1>13, <1>b DEF TaskReturn, QuitOnTeardown
  <2>2. ASSUME NEW c \in Clients, pc[c] \in {"run", "task"}, budget[c] = -1
        PROVE  pc'[c] \in {"run", "task"} /\ budget'[c] = -1
    BY <1>0, <1>13, <2>2 DEF TaskReturn, AfterTask, BudgetAfter
  <2>3. Attended => Attended'
    BY <1>13, <2>2 DEF TaskReturn, Attended
  <2>4. QED
    BY <1>13, <1>a, <1>b, <2>1, <2>3 DEF TaskReturn
<1>14. ASSUME NEW w \in Worker, WorkerWake(w) PROVE HookInv'
  BY <1>0, <1>14, <1>a, <1>b DEF WorkerWake, QuitOnTeardown, Attended
<1>15. ASSUME NEW w \in Worker, WorkerClear(w) PROVE HookInv'
  BY <1>0, <1>15, <1>a, <1>b DEF WorkerClear, QuitOnTeardown, Attended
<1>16. ASSUME NEW c \in Clients, NEW limit \in Limits, Dispatch(c, limit) PROVE HookInv'
  BY <1>0, <1>16, <1>a, <1>b DEF Dispatch, QuitOnTeardown, Attended
<1>17. ASSUME NEW c \in Clients, HookDispatch(c) PROVE HookInv'
  <2>1. QuitOnTeardown'
    BY <1>17, <1>b DEF HookDispatch, QuitOnTeardown
  <2>2. pc'[c] = "run" /\ budget'[c] = -1
    BY <1>0, <1>17 DEF HookDispatch
  <2>3. QED
    BY <1>a, <2>1, <2>2 DEF Attended
<1>18. CASE UNCHANGED vars
  BY <1>18, <1>a, <1>b DEF vars, QuitOnTeardown, Attended
<1>19. QED
  BY <1>1, <1>2, <1>3, <1>4, <1>5, <1>6, <1>7, <1>8, <1>9, <1>10, <1>11, <1>12,
     <1>13, <1>14, <1>15, <1>16, <1>17, <1>18
     DEF Next, BossNext, ThreadStep, Finished

\* A queue served from a hook, as ioq does it, never has jobs that nobody is
\* told about.
THEOREM HookKept == Spec => []NoForgottenHook
<1>1. Init => HookInv
  BY DEF Init, HookInv, QuitOnTeardown, NoForgottenHook
<1>2. HookInv => NoForgottenHook
  BY DEF HookInv
<1>3. QED
  BY <1>1, <1>2, HookStep, LifeInit, LifeStep, TypeCorrect, PTL DEF Spec

---------------------------------------------------------------------------
(* The run queue implements TaskPool *)

Distinct(q) == \A i, j \in 1 .. Len(q) : q[i] = q[j] => i = j

\* Appending a job adds it to the set of jobs and keeps the jobs distinct if
\* it is a new one.
LEMMA AppendJob ==
  ASSUME NEW S, NEW q \in Seq(S), NEW k \in S
  PROVE  /\ Range(Append(q, k)) = Range(q) \cup {k}
         /\ Distinct(q) /\ k \notin Range(q) => Distinct(Append(q, k))
<1> DEFINE p == Append(q, k)
<1>1. Len(p) = Len(q) + 1 /\ p \in Seq(S) /\ p[Len(q) + 1] = k /\ Len(q) \in Nat
      /\ DOMAIN p = 1 .. Len(q) + 1 /\ DOMAIN q = 1 .. Len(q)
      /\ \A i \in 1 .. Len(q) : p[i] = q[i]
  OBVIOUS
<1> HIDE DEF p
<1>2. Range(p) = Range(q) \cup {k}
  <2>1. ASSUME NEW x \in Range(p) PROVE x \in Range(q) \cup {k}
    <3>1. PICK i \in 1 .. Len(q) + 1 : x = p[i]
      BY <1>1 DEF Range
    <3>2. CASE i \in 1 .. Len(q)
      BY <1>1, <3>1, <3>2 DEF Range
    <3>3. CASE i = Len(q) + 1
      BY <1>1, <3>1, <3>3
    <3>4. QED
      BY <1>1, <3>1, <3>2, <3>3
  <2>2. ASSUME NEW x \in Range(q) PROVE x \in Range(p)
    <3>1. PICK i \in 1 .. Len(q) : x = q[i]
      BY <1>1 DEF Range
    <3>2. i \in DOMAIN p /\ p[i] = x
      BY <1>1, <3>1
    <3>3. QED
      BY <3>2 DEF Range
  <2>3. k \in Range(p)
    BY <1>1 DEF Range
  <2>4. QED
    BY <2>1, <2>2, <2>3
<1>3. ASSUME Distinct(q), k \notin Range(q) PROVE Distinct(p)
  <2>1. \A i \in 1 .. Len(q) : q[i] /= k
    BY <1>1, <1>3 DEF Range
  <2>2. QED
    BY <1>1, <1>3, <2>1 DEF Distinct
<1>4. QED
  BY <1>2, <1>3 DEF p

\* Popping the first of several distinct jobs removes exactly that one.
LEMMA PopJob ==
  ASSUME NEW S, NEW q \in Seq(S), q /= <<>>, Distinct(q)
  PROVE  /\ Head(q) \in Range(q)
         /\ Range(Tail(q)) = Range(q) \ {Head(q)}
         /\ Distinct(Tail(q))
<1> DEFINE p == Tail(q)
<1>1. /\ Len(q) \in Nat \ {0} /\ Len(p) = Len(q) - 1 /\ Head(q) = q[1]
      /\ DOMAIN p = 1 .. Len(q) - 1 /\ DOMAIN q = 1 .. Len(q)
      /\ \A i \in 1 .. Len(q) - 1 : p[i] = q[i + 1]
  OBVIOUS
<1> HIDE DEF p
<1>2. Head(q) \in Range(q)
  BY <1>1 DEF Range
<1>3. Distinct(p)
  BY <1>1 DEF Distinct
<1>4. Range(p) = Range(q) \ {Head(q)}
  <2>1. ASSUME NEW x \in Range(p) PROVE x \in Range(q) \ {Head(q)}
    <3>1. PICK i \in 1 .. Len(q) - 1 : x = p[i]
      BY <1>1 DEF Range
    <3>2. i + 1 \in 1 .. Len(q) /\ x = q[i + 1] /\ i + 1 /= 1
      BY <1>1, <3>1
    <3>3. x /= q[1]
      BY <1>1, <3>2 DEF Distinct
    <3>4. QED
      BY <1>1, <3>2, <3>3 DEF Range
  <2>2. ASSUME NEW x \in Range(q), x /= Head(q) PROVE x \in Range(p)
    <3>1. PICK i \in 1 .. Len(q) : x = q[i]
      BY <1>1 DEF Range
    <3>2. i - 1 \in 1 .. Len(q) - 1 /\ p[i - 1] = q[i]
      BY <1>1, <2>2, <3>1
    <3>3. QED
      BY <1>1, <3>1, <3>2 DEF Range
  <2>3. QED
    BY <2>1, <2>2
<1>5. QED
  BY <1>2, <1>3, <1>4 DEF p

\* No task is in the list twice, and a thread executes a task exactly when it
\* is between run_one()'s unlock and its return.
JobInv ==
  /\ Distinct(job_list)
  /\ \A t \in Thread : cur[t] = NoTask <=> pc[t] /= "task"

\* Every step preserves this.
LEMMA JobStep == TypeOK /\ LifeInv /\ JobInv /\ [Next]_vars => JobInv'
<1> SUFFICES ASSUME TypeOK, LifeInv, JobInv, [Next]_vars PROVE JobInv'
  OBVIOUS
<1> USE RunqAssumption DEF TypeOK, bossVars, JobInv
<1>1. CASE AllocWorkers
  BY <1>1 DEF AllocWorkers
<1>2. ASSUME NEW r \in ThrStart, InitWorker(r) PROVE JobInv'
  BY <1>2 DEF InitWorker, LifeInv, Startup, Thread
<1>3. CASE DestroyBegin
  BY <1>3 DEF DestroyBegin
<1>4. CASE RequestQuit
  BY <1>4 DEF RequestQuit
<1>5. CASE JoinRaise
  BY <1>5 DEF JoinRaise
<1>6. CASE JoinWait
  BY <1>6 DEF JoinWait
<1>7. ASSUME NEW t \in Thread, NEW k \in Tasks, TaskExec(t, k) PROVE JobInv'
  BY <1>7, AppendJob DEF TaskExec
<1>8. ASSUME NEW t \in Thread, RaiseWorker(t) PROVE JobInv'
  BY <1>8 DEF RaiseWorker
<1>9. ASSUME NEW t \in Thread, CallHook(t) PROVE JobInv'
  BY <1>9 DEF CallHook
<1>10. ASSUME NEW t \in Thread, RunOneQuit(t) PROVE JobInv'
  BY <1>10 DEF RunOneQuit, OnQuit
<1>11. ASSUME NEW t \in Thread, RunOneEmpty(t) PROVE JobInv'
  BY <1>11 DEF RunOneEmpty, OnEmpty
<1>12. ASSUME NEW t \in Thread, RunOnePop(t) PROVE JobInv'
  <2>1. Head(job_list) \in Tasks
    BY <1>12 DEF RunOnePop
  <2>2. Distinct(job_list')
    BY <1>12, PopJob DEF RunOnePop, RestAfterPop
  <2>3. QED
    BY <1>12, <2>1, <2>2 DEF RunOnePop
<1>13. ASSUME NEW t \in Thread, TaskReturn(t) PROVE JobInv'
  BY <1>13 DEF TaskReturn, AfterTask
<1>14. ASSUME NEW w \in Worker, WorkerWake(w) PROVE JobInv'
  BY <1>14 DEF WorkerWake, Thread
<1>15. ASSUME NEW w \in Worker, WorkerClear(w) PROVE JobInv'
  BY <1>15 DEF WorkerClear, Thread
<1>16. ASSUME NEW c \in Clients, NEW limit \in Limits, Dispatch(c, limit) PROVE JobInv'
  BY <1>16 DEF Dispatch, Thread
<1>17. ASSUME NEW c \in Clients, HookDispatch(c) PROVE JobInv'
  BY <1>17 DEF HookDispatch, Thread
<1>18. CASE UNCHANGED vars
  BY <1>18 DEF vars
<1>19. QED
  BY <1>1, <1>2, <1>3, <1>4, <1>5, <1>6, <1>7, <1>8, <1>9, <1>10, <1>11, <1>12,
     <1>13, <1>14, <1>15, <1>16, <1>17, <1>18
     DEF Next, BossNext, ThreadStep, Finished

\* Every step of the queue is a step of the abstract pool or leaves it alone.
LEMMA PoolStep ==
  TypeOK /\ LifeInv /\ JobInv /\ [Next]_vars => [Pool!Next]_(Pool!poolVars)
<1> SUFFICES ASSUME TypeOK, LifeInv, JobInv, [Next]_vars
             PROVE  [Pool!Next]_(Pool!poolVars)
  OBVIOUS
<1> DEFINE Closed == quit_request \/ boss \in {"gone", "failed"}
<1> USE RunqAssumption DEF TypeOK, bossVars
<1>a. ASSUME job_list' = job_list, cur' = cur, Closed' = Closed
      PROVE  [Pool!Next]_(Pool!poolVars)
  BY <1>a DEF Pool!poolVars
<1>b. ASSUME job_list' = job_list, cur' = cur, Closed' = TRUE
      PROVE  [Pool!Next]_(Pool!poolVars)
  <2>1. Range(job_list)' = Range(job_list)
    BY <1>b
  <2>2. QED
    BY <1>b, <2>1 DEF Pool!Next, Pool!Close
<1>1. CASE AllocWorkers
  <2>1. job_list' = job_list /\ cur' = cur /\ quit_request' = quit_request
        /\ boss \notin {"gone", "failed"}
    BY <1>1 DEF AllocWorkers
  <2>2. QED
    BY <2>1, <1>a, <1>b
<1>2. ASSUME NEW r \in ThrStart, InitWorker(r)
      PROVE  [Pool!Next]_(Pool!poolVars)
  <2>1. job_list' = job_list /\ cur' = cur /\ quit_request' = quit_request
        /\ boss \notin {"gone", "failed"} /\ boss' \notin {"gone", "failed"}
    BY <1>2 DEF InitWorker
  <2>2. QED
    BY <2>1, <1>a
<1>3. CASE DestroyBegin
  <2>1. job_list' = job_list /\ cur' = cur /\ quit_request' = quit_request
        /\ boss \notin {"gone", "failed"}
    BY <1>3 DEF DestroyBegin
  <2>2. QED
    BY <2>1, <1>a, <1>b
<1>4. CASE RequestQuit
  BY <1>4, <1>b DEF RequestQuit
<1>5. CASE JoinRaise
  BY <1>5, <1>a DEF JoinRaise
<1>6. CASE JoinWait
  <2>1. job_list' = job_list /\ cur' = cur /\ quit_request' = quit_request
        /\ boss \notin {"gone", "failed"}
    BY <1>6 DEF JoinWait
  <2>2. QED
    BY <2>1, <1>a, <1>b
<1>7. ASSUME NEW t \in Thread, NEW k \in Tasks, TaskExec(t, k)
      PROVE  [Pool!Next]_(Pool!poolVars)
  <2>1. Range(job_list)' = Range(job_list) \cup {k} /\ k \notin Range(job_list)
    BY <1>7, AppendJob DEF TaskExec
  <2>2. cur' = cur /\ Closed' = Closed
    BY <1>7 DEF TaskExec
  <2>3. Pool!Submit(k)
    BY <2>1, <2>2 DEF Pool!Submit
  <2>4. QED
    BY <2>3 DEF Pool!Next
<1>8. ASSUME NEW t \in Thread, RaiseWorker(t)
      PROVE  [Pool!Next]_(Pool!poolVars)
  BY <1>8, <1>a DEF RaiseWorker
<1>9. ASSUME NEW t \in Thread, CallHook(t)
      PROVE  [Pool!Next]_(Pool!poolVars)
  BY <1>9, <1>a DEF CallHook
<1>10. ASSUME NEW t \in Thread, RunOneQuit(t)
       PROVE  [Pool!Next]_(Pool!poolVars)
  BY <1>10, <1>a DEF RunOneQuit
<1>11. ASSUME NEW t \in Thread, RunOneEmpty(t)
       PROVE  [Pool!Next]_(Pool!poolVars)
  BY <1>11, <1>a DEF RunOneEmpty
<1>12. ASSUME NEW t \in Thread, RunOnePop(t)
       PROVE  [Pool!Next]_(Pool!poolVars)
  <2> DEFINE k == Head(job_list)
  <2>1. k \in Tasks
    BY <1>12 DEF RunOnePop
  <2>2. k \in Range(job_list) /\ Range(job_list)' = Range(job_list) \ {k}
    BY <1>12, PopJob DEF RunOnePop, RestAfterPop, JobInv
  <2>3. ~Closed /\ Closed' = Closed
    <3>1. pc[t] = "run" /\ ~quit_request
      BY <1>12 DEF RunOnePop
    <3>2. boss \notin {"gone", "failed"}
      BY <3>1 DEF LifeInv, ClientsOut, Joined, Over, Thread
    <3>3. QED
      BY <1>12, <3>1, <3>2 DEF RunOnePop
  <2>4. cur[t] = NoTask /\ cur' = [cur EXCEPT ![t] = k]
    BY <1>12 DEF RunOnePop, JobInv
  <2>5. Pool!Start(t, k)
    BY <2>2, <2>3, <2>4 DEF Pool!Start
  <2>6. QED
    BY <2>1, <2>5 DEF Pool!Next
<1>13. ASSUME NEW t \in Thread, TaskReturn(t)
       PROVE  [Pool!Next]_(Pool!poolVars)
  <2>1. cur[t] /= NoTask /\ cur' = [cur EXCEPT ![t] = NoTask]
    BY <1>13 DEF TaskReturn, JobInv
  <2>2. Range(job_list)' = Range(job_list) /\ Closed' = Closed
    BY <1>13 DEF TaskReturn
  <2>3. Pool!Finish(t)
    BY <2>1, <2>2 DEF Pool!Finish
  <2>4. QED
    BY <2>3 DEF Pool!Next
<1>14. ASSUME NEW w \in Worker, WorkerWake(w)
       PROVE  [Pool!Next]_(Pool!poolVars)
  BY <1>14, <1>a DEF WorkerWake
<1>15. ASSUME NEW w \in Worker, WorkerClear(w)
       PROVE  [Pool!Next]_(Pool!poolVars)
  BY <1>15, <1>a DEF WorkerClear
<1>16. ASSUME NEW c \in Clients, NEW limit \in Limits, Dispatch(c, limit)
       PROVE  [Pool!Next]_(Pool!poolVars)
  BY <1>16, <1>a DEF Dispatch
<1>17. ASSUME NEW c \in Clients, HookDispatch(c)
       PROVE  [Pool!Next]_(Pool!poolVars)
  BY <1>17, <1>a DEF HookDispatch
<1>18. CASE UNCHANGED vars
  BY <1>18, <1>a DEF vars
<1>19. QED
  BY <1>1, <1>2, <1>3, <1>4, <1>5, <1>6, <1>7, <1>8, <1>9, <1>10, <1>11, <1>12,
     <1>13, <1>14, <1>15, <1>16, <1>17, <1>18
     DEF Next, BossNext, ThreadStep, Finished

\* For any number of workers, clients and tasks: a task that was submitted is
\* started at most once per submission, by one idle thread, and none is
\* started after the queue was asked to quit.
THEOREM RunqImplementsPool == Spec => ImplementsSafePool
<1>1. Init => JobInv
  BY RunqAssumption DEF Init, JobInv, Distinct, Thread
<1>2. Init => Pool!Init
  <2> SUFFICES ASSUME Init PROVE Pool!Init
    OBVIOUS
  <2>1. Range(job_list) = {}
    BY DEF Init, Range
  <2>2. QED
    BY <2>1 DEF Init, Pool!Init
<1>3. QED
  BY <1>1, <1>2, JobStep, PoolStep, LifeInit, LifeStep, TypeCorrect, PTL
     DEF Spec, ImplementsSafePool, Pool!SafeSpec
=============================================================================
