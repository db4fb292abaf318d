----------------------------- MODULE TaskPool -----------------------------
(***************************************************************************)
(* What a run queue promises to the code that submits tasks to it: a task  *)
(* that has been submitted is started exactly once, by some thread that is *)
(* not executing another one, at some later moment.  No order and no       *)
(* particular thread is promised.  A task may be submitted again as soon   *)
(* as it was started.  Once the queue is being torn down it starts nothing *)
(* more.                                                                   *)
(*                                                                         *)
(* Runq implements this specification; the modules of the asynchronous     *)
(* primitives built on a run queue rely on no more than this.              *)
(***************************************************************************)
CONSTANTS
  Tasks,      \* the runq_task structures
  Threads,    \* the threads that execute tasks
  NoTask

VARIABLES
  pending,    \* tasks submitted and not yet started
  running,    \* running[t]: the task whose function t is executing
  closed      \* teardown has been requested

poolVars == <<pending, running, closed>>

Init ==
  /\ pending = {}
  /\ running = [t \in Threads |-> NoTask]
  /\ closed = FALSE

\* A task that is still pending may not be submitted again.
Submit(k) ==
  /\ k \notin pending
  /\ pending' = pending \cup {k}
  /\ UNCHANGED <<running, closed>>

\* Thread t takes k out of the queue and calls its function.
Start(t, k) ==
  /\ ~closed
  /\ k \in pending
  /\ running[t] = NoTask
  /\ pending' = pending \ {k}
  /\ running' = [running EXCEPT ![t] = k]
  /\ UNCHANGED closed

\* The function returns.
Finish(t) ==
  /\ running[t] /= NoTask
  /\ running' = [running EXCEPT ![t] = NoTask]
  /\ UNCHANGED <<pending, closed>>

Close ==
  /\ closed' = TRUE
  /\ UNCHANGED <<pending, running>>

Next ==
  \/ \E k \in Tasks : Submit(k)
  \/ \E t \in Threads, k \in Tasks : Start(t, k)
  \/ \E t \in Threads : Finish(t)
  \/ Close

SafeSpec == Init /\ [][Next]_poolVars

\* A task that stays pending is started, provided task functions return.
Spec ==
  /\ SafeSpec
  /\ \A k \in Tasks : WF_poolVars(\E t \in Threads : Start(t, k))
  /\ \A t \in Threads : WF_poolVars(Finish(t))
=============================================================================
