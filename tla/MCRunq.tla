------------------------------- MODULE MCRunq -------------------------------
(***************************************************************************)
(* Three systems, model-checked in one run: a run queue with workers (the  *)
(* module extended here), one without workers that is served from its      *)
(* hook, as ioq_iterate() serves it, and a mailbox, which submits to such  *)
(* a queue.  The initial state chooses one of them, subject; the variables *)
(* of the others keep their initial values, so that their properties can   *)
(* be stated without naming the subject.                                   *)
(***************************************************************************)
EXTENDS Runq

CONSTANTS
  HookTasks, HookClients, HookLimits,                    \* the queue with the hook
  Flags, Raisers, Consumer, AnySets, AllSets, NoReq      \* Mailbox

VARIABLES
  subject,
  h_job_list, h_quit_request, h_wakeup, h_pc, h_cur, h_raising, h_budget, h_notified,
  h_boss, h_nth, h_dir,                                  \* the queue with the hook
  state, expected, mode, firing, queued, owner, req      \* Mailbox

hookVars == <<h_job_list, h_quit_request, h_wakeup, h_pc, h_cur, h_raising, h_budget,
              h_notified, h_boss, h_nth, h_dir>>
boxVars == <<state, expected, mode, firing, queued, owner, req>>

H == INSTANCE Runq WITH
  NumWorkers <- 0, HasHook <- TRUE,
  Tasks <- HookTasks, Clients <- HookClients, Limits <- HookLimits,
  job_list <- h_job_list, quit_request <- h_quit_request, wakeup <- h_wakeup, pc <- h_pc,
  cur <- h_cur, raising <- h_raising, budget <- h_budget, notified <- h_notified,
  boss <- h_boss, nth <- h_nth, dir <- h_dir

M == INSTANCE Mailbox

ASSUME BoxAssumption == M!MailboxAssumption

MCInit ==
  /\ subject \in {"workers", "hook", "mailbox"}
  /\ Init /\ H!Init /\ M!Init

WorkersStep == subject = "workers" /\ Next /\ UNCHANGED <<subject, hookVars, boxVars>>
HookStep == subject = "hook" /\ H!Next /\ UNCHANGED <<subject, vars, boxVars>>
MailboxStep == subject = "mailbox" /\ M!Next /\ UNCHANGED <<subject, vars, hookVars>>

MCNext == WorkersStep \/ HookStep \/ MailboxStep

\* The fairness of each system, for its behaviours: Fairness for the workers,
\* ReturningSpec for the queue with the hook, and that of Mailbox.
MCFairness ==
  /\ \A t \in Thread : WF_vars(subject = "workers" /\ ThreadStep(t))
  /\ WF_vars(subject = "workers" /\ \E c \in Clients : HookDispatch(c))
  /\ WF_vars(subject = "workers" /\ (RequestQuit \/ JoinRaise \/ JoinThread))
  /\ \A c \in HookClients : WF_hookVars(subject = "hook" /\ H!ThreadStep(c))
  /\ WF_hookVars(subject = "hook" /\ \E c \in HookClients : H!HookDispatch(c))
  /\ \A c \in HookClients : SF_hookVars(subject = "hook" /\ H!TaskReturn(c))
  /\ \A t \in M!Thread : WF_boxVars(subject = "mailbox" /\ M!Exec(t))
  /\ WF_boxVars(subject = "mailbox" /\ M!Callback)

MCSpec == MCInit /\ [][MCNext]_<<subject, vars, hookVars, boxVars>> /\ MCFairness

---------------------------------------------------------------------------
(* Properties: those of Runq, and the following *)

\* While the queue without workers holds jobs, its hook was called, is about to
\* be, or an unlimited runq_dispatch() goes on; limited ones change nothing.
HookNotForgotten == H!NoForgottenHook

\* Served from its hook, a queue without workers implements all of TaskPool, if
\* task functions return.
HookImplementsPool == H!ImplementsPool

\* One wait for flags of a mailbox is completed by one thread, once.
OneCompletion == M!OneCompletion

\* A wait that is still armed is one whose flags are not raised.
ArmedUnsatisfied == M!ArmedUnsatisfied

\* A mailbox implements FlagWait.
ImplementsFlagWait == M!ImplementsFlagWait
=============================================================================
