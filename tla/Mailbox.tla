------------------------------ MODULE Mailbox ------------------------------
(***************************************************************************)
(* The mailbox of io/mailbox.c.  Flag masks are sets of flags.  Each       *)
(* critical section of m->lock is one action; the call of runq_task_exec() *)
(* that follows the unlock is another, and so is the start of the callback *)
(* by the run queue, which is used as TaskPool describes it.               *)
(*                                                                         *)
(* The consumer owns the mailbox: it calls mailbox_take(), mailbox_wait()  *)
(* and mailbox_wait_all() while no wait is outstanding, and goes on in the *)
(* callback.  Everyone may call mailbox_raise() at any time.               *)
(***************************************************************************)
CONSTANTS
  Flags,      \* the flags of a mailbox
  Raisers,    \* threads that call mailbox_raise()
  Consumer,   \* the thread that waits
  AnySets,    \* sets passed to mailbox_wait()
  AllSets,    \* sets passed to mailbox_wait_all()
  NoReq

Thread == Raisers \cup {Consumer}

\* What the constants are (assumed by MCRunq, which gives them values).
MailboxAssumption ==
  /\ Consumer \notin Raisers
  /\ AnySets \subseteq SUBSET Flags
  /\ AllSets \subseteq SUBSET Flags
  /\ NoReq \notin [kind : {"any", "all"}, set : SUBSET Flags]

VARIABLES
  state,      \* m->state
  expected,   \* m->expected
  mode,       \* m->mode
  firing,     \* threads that left the lock with fire = 1
  queued,     \* m->task is in the run queue
  owner,      \* whether the consumer may use the mailbox, or waits
  req         \* the wait the consumer asked for (history)

vars == <<state, expected, mode, firing, queued, owner, req>>

Init ==
  /\ state = {}
  /\ expected = {}
  /\ mode = "none"
  /\ firing = {}
  /\ queued = FALSE
  /\ owner = "running"
  /\ req = NoReq

\* mailbox_take()
Take(clear_mask) ==
  /\ owner = "running"
  /\ state' = state \ clear_mask
  /\ UNCHANGED <<expected, mode, firing, queued, owner, req>>

\* Mutation: a wait for all flags fires when any of them is raised.
RaiseFiresAny(s) == mode /= "none" /\ expected \cap s /= {}

\* The switch in mailbox_raise(), for the new value s of the state.
RaiseFires(s) ==
  \/ mode = "any" /\ expected \cap s /= {}
  \/ mode = "all" /\ expected \cap s = expected

\* Mutation: the mode is reset by the callback's next wait, not here.
ModeAfterRaiseKept(fire) == mode

ModeAfterRaise(fire) == IF fire THEN "none" ELSE mode

\* The locked section of mailbox_raise().
Raise(t, set_mask) ==
  /\ t \notin firing
  /\ t = Consumer => owner = "running"
  /\ state' = state \cup set_mask
  /\ LET fire == RaiseFires(state')
     IN  /\ mode' = ModeAfterRaise(fire)
         /\ firing' = IF fire THEN firing \cup {t} ELSE firing
  /\ UNCHANGED <<expected, queued, owner, req>>

\* Mutation: a wait looks only at flags raised from now on.
WaitFiresNever(kind, set) == FALSE

\* The test in mailbox_wait() and in mailbox_wait_all().
WaitFires(kind, set) ==
  \/ kind = "any" /\ state \cap set /= {}
  \/ kind = "all" /\ state \cap set = set

\* The locked section of mailbox_wait() and of mailbox_wait_all().
Wait(kind, set) ==
  /\ owner = "running"
  /\ Consumer \notin firing
  /\ expected' = set
  /\ IF WaitFires(kind, set)
     THEN firing' = firing \cup {Consumer} /\ UNCHANGED mode
     ELSE mode' = kind /\ UNCHANGED firing
  /\ owner' = "waiting"
  /\ req' = [kind |-> kind, set |-> set]
  /\ UNCHANGED <<state, queued>>

\* The runq_task_exec() after the unlock.
Exec(t) ==
  /\ t \in firing
  /\ firing' = firing \ {t}
  /\ queued' = TRUE
  /\ UNCHANGED <<state, expected, mode, owner, req>>

\* The run queue calls the callback, in which the consumer goes on.
Callback ==
  /\ queued
  /\ queued' = FALSE
  /\ owner' = "running"
  /\ req' = NoReq
  /\ UNCHANGED <<state, expected, mode, firing>>

Next ==
  \/ \E mask \in SUBSET Flags : Take(mask)
  \/ \E t \in Thread : \E mask \in SUBSET Flags : Raise(t, mask)
  \/ \E set \in AnySets : Wait("any", set)
  \/ \E set \in AllSets : Wait("all", set)
  \/ \E t \in Thread : Exec(t)
  \/ Callback

Spec == Init /\ [][Next]_vars

\* Threads inside mailbox_raise() and mailbox_wait() go on, and the run queue
\* starts the tasks submitted to it (TaskPool).
FairSpec ==
  /\ Spec
  /\ \A t \in Thread : WF_vars(Exec(t))
  /\ WF_vars(Callback)

---------------------------------------------------------------------------
(* Properties *)

TypeOK ==
  /\ state \in SUBSET Flags
  /\ expected \in SUBSET Flags
  /\ mode \in {"none", "any", "all"}
  /\ firing \in SUBSET Thread
  /\ queued \in BOOLEAN
  /\ owner \in {"running", "waiting"}
  /\ req \in {NoReq} \cup [kind : {"any", "all"}, set : SUBSET Flags]

\* One request, one callback: from the moment a wait is decided until the
\* callback is started, exactly one thread or the run queue holds m->task, so
\* no runq_task_exec() is called on a task that is pending, and none at all
\* when no wait is outstanding.
OneCompletion ==
  /\ \A t, u \in firing : t = u
  /\ firing /= {} => ~queued
  /\ (firing /= {} \/ queued) => owner = "waiting" /\ mode = "none"

\* No raised flag is overlooked: a wait that is still armed is one whose
\* condition does not hold, whatever threads raised before, during or after
\* the call of mailbox_wait().
ArmedUnsatisfied ==
  mode /= "none" =>
    /\ owner = "waiting" /\ req.kind = mode /\ req.set = expected
    /\ mode = "any" => expected \cap state = {}
    /\ mode = "all" => ~(expected \subseteq state)

WaitSpec == INSTANCE FlagWait WITH flags <- state

\* The mailbox implements FlagWait: a wait completes once, when and only when
\* its condition holds, and the flags are still raised in the callback.
ImplementsFlagWait == WaitSpec!Spec
=============================================================================
