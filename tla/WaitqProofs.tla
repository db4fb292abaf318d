---------------------------- MODULE WaitqProofs ----------------------------
(***************************************************************************)
(* Proofs about Waitq for any set of timers, any number of threads and any *)
(* range of the clock.                                                     *)
(***************************************************************************)
EXTENDS Waitq, FiniteSetTheorems, TLAPS

---------------------------------------------------------------------------
(* Type correctness *)

\* A thread outside the functions of waitq.c has no timer in hand, one inside
\* them has; the server has one between expire_one() and runq_task_exec().
InHand ==
  /\ \A u \in Users : op[u].pc = "idle" <=> op[u].t = NoTimer
  /\ server.pc = "exec" <=> server.t /= NoTimer

Typed == TypeOK /\ InHand

OpType ==
  [pc : {"idle", "add", "readd", "hook", "hook_cancel", "cancel",
         "hook_resched", "resched"},
   t : Timers \cup {NoTimer}]

ServerType ==
  [pc : {"plan", "next", "sleep", "asleep", "dispatch", "expire", "exec"},
   now : 0 .. MaxTime,
   since : 0 .. MaxTime,
   timeout : Nat \cup {-1},
   t : Timers \cup {NoTimer}]

\* The server without local variables in use is well formed.
LEMMA ServerAtTyped ==
  ASSUME NEW p \in {"plan", "next", "sleep", "asleep", "dispatch", "expire", "exec"}
  PROVE  /\ ServerAt(p) \in ServerType
         /\ ServerAt(p).pc = p
         /\ ServerAt(p).t = NoTimer
<1>1. 0 \in 0 .. MaxTime /\ 0 \in Nat \cup {-1}
  BY WaitqAssumption
<1>2. QED
  BY <1>1 DEF ServerAt, ServerType

\* wset_remove() leaves the caller with the timer, before the hook or after it.
LEMMA RemoveTyped ==
  ASSUME NEW u \in Users, NEW t \in Timers,
         NEW hook, NEW return, WsetRemove(u, t, hook, return)
  PROVE  /\ t \in waiting_set
         /\ waiting_set' = waiting_set \ {t}
         /\ \E p \in {hook, return} : op' = [op EXCEPT ![u] = [pc |-> p, t |-> t]]
BY DEF WsetRemove

\* A thread that comes out of wset_remove() with the timer is well formed.
LEMMA TakenTyped ==
  ASSUME op \in [Users -> OpType], NEW u \in Users, NEW t \in Timers,
         NEW p \in {"hook_cancel", "cancel", "hook_resched", "resched"},
         op' = [op EXCEPT ![u] = [pc |-> p, t |-> t]],
         \A v \in Users : op[v].pc = "idle" <=> op[v].t = NoTimer
  PROVE  /\ op' \in [Users -> OpType]
         /\ \A v \in Users : op'[v].pc = "idle" <=> op'[v].t = NoTimer
<1>1. [pc |-> p, t |-> t] \in OpType
  BY DEF OpType
<1>2. QED
  BY <1>1, WaitqAssumption

\* What waitq_next_deadline() does to the server: a result it can sleep for.
LEMMA NextDeadlineEffect ==
  ASSUME Typed, NextDeadline
  PROVE  /\ server.t = NoTimer
         /\ server'.t = NoTimer
         /\ server'.now \in {0, server.now}
         /\ \/ waiting_set = {}
            \/ \E t \in waiting_set : /\ IsFirst(t, waiting_set)
                                      /\ server'.now = server.now
                                      /\ server'.timeout = TimeLeft(deadline[t])
<1>1. server.t = NoTimer
  BY DEF NextDeadline, Typed, InHand
<1>2. CASE waiting_set = {} /\ server' = [ServerAt("sleep") EXCEPT !.timeout = -1]
  BY <1>1, <1>2 DEF ServerAt
<1>3. ASSUME NEW t \in waiting_set, IsFirst(t, waiting_set),
             server' = [server EXCEPT !.pc = "sleep", !.timeout = TimeLeft(deadline[t])]
      PROVE  server'.t = NoTimer /\ server'.now = server.now
             /\ server'.timeout = TimeLeft(deadline[t])
  BY <1>1, <1>3 DEF Typed, TypeOK
<1>4. QED
  BY <1>1, <1>2, <1>3 DEF NextDeadline

\* Every step preserves the type invariant.
LEMMA TypeStep == Typed /\ [Next]_vars => Typed'
<1> SUFFICES ASSUME Typed, [Next]_vars PROVE Typed'
  OBVIOUS
<1> USE WaitqAssumption DEF Typed, TypeOK, InHand
<1>a. now \in 0 .. MaxTime /\ 0 \in 0 .. MaxTime /\ -1 \in Nat \cup {-1} /\ 0 \in Nat \cup {-1}
  OBVIOUS
<1>1. ASSUME NEW u \in Users, WsetAdd(u) PROVE Typed'
  BY <1>1 DEF WsetAdd, Idle
<1>2. ASSUME NEW u \in Users, CancelExec(u) PROVE Typed'
  BY <1>2 DEF CancelExec, CancelledDeadline, Idle
<1>3. ASSUME NEW u \in Users, NEW i \in Intervals, RescheduleSet(u, i) PROVE Typed'
  BY <1>3 DEF RescheduleSet
<1>4. ASSUME NEW u \in Users, Hook(u) PROVE Typed'
  BY <1>4 DEF Hook, Idle
<1>5. ASSUME NEW u \in Users, NEW t \in Timers, NEW i \in Intervals, TimerWait(u, t, i)
      PROVE  Typed'
  BY <1>5 DEF TimerWait
<1>6. ASSUME NEW u \in Users, NEW t \in Timers, Cancel(u, t) PROVE Typed'
  <2>1. CASE WsetRemove(u, t, "hook_cancel", "cancel")
    <3>1. PICK p \in {"hook_cancel", "cancel"} :
            op' = [op EXCEPT ![u] = [pc |-> p, t |-> t]]
      BY <2>1, RemoveTyped
    <3>2. op' \in [Users -> OpType] /\ \A v \in Users : op'[v].pc = "idle" <=> op'[v].t = NoTimer
      BY <3>1, TakenTyped DEF OpType
    <3>3. asked' \in [Timers -> BOOLEAN]
      BY <1>6 DEF Cancel
    <3>4. QED
      BY <1>6, <2>1, <3>2, <3>3 DEF Cancel, WsetRemove, OpType
  <2>2. CASE UNCHANGED <<waiting_set, op>>
    BY <1>6, <2>2 DEF Cancel
  <2>3. QED
    BY <1>6, <2>1, <2>2 DEF Cancel
<1>7. ASSUME NEW u \in Users, NEW t \in Timers, Reschedule(u, t) PROVE Typed'
  <2>1. PICK p \in {"hook_resched", "resched"} :
          op' = [op EXCEPT ![u] = [pc |-> p, t |-> t]]
    BY <1>7, RemoveTyped DEF Reschedule
  <2>2. op' \in [Users -> OpType] /\ \A v \in Users : op'[v].pc = "idle" <=> op'[v].t = NoTimer
    BY <2>1, TakenTyped DEF OpType
  <2>3. QED
    BY <1>7, <2>2 DEF Reschedule, WsetRemove, OpType
<1>8. ASSUME NEW t \in Timers, Callback(t) PROVE Typed'
  BY <1>8 DEF Callback
<1>9. CASE ReadClock
  BY <1>a, <1>9 DEF ReadClock
<1>10. CASE NextDeadline
  <2>1. CASE waiting_set = {} /\ server' = [ServerAt("sleep") EXCEPT !.timeout = -1]
    BY <1>a, <1>10, <2>1 DEF NextDeadline, ServerAt
  <2>2. ASSUME NEW t \in waiting_set,
               server' = [server EXCEPT !.pc = "sleep", !.timeout = TimeLeft(deadline[t])]
        PROVE  Typed'
    <3>1. TimeLeft(deadline[t]) \in Nat \cup {-1}
      BY DEF TimeLeft
    <3>2. QED
      BY <1>10, <2>2, <3>1 DEF NextDeadline
  <2>3. QED
    BY <1>10, <2>1, <2>2 DEF NextDeadline
<1>11. CASE Sleep
  BY <1>a, <1>11 DEF Sleep
<1>12. CASE Awake \/ AwakeForFd
  BY <1>12, ServerAtTyped DEF Awake, AwakeForFd, ServerType
<1>13. CASE DispatchBegin
  BY <1>a, <1>13 DEF DispatchBegin
<1>14. CASE ExpireOne
  <2>1. CASE server' = ServerAt("plan") /\ UNCHANGED waiting_set
    BY <1>14, <2>1, ServerAtTyped DEF ExpireOne, ServerType
  <2>2. ASSUME NEW t \in waiting_set, waiting_set' = waiting_set \ {t},
               server' = [server EXCEPT !.pc = "exec", !.t = t]
        PROVE  Typed'
    BY <1>14, <2>2 DEF ExpireOne
  <2>3. QED
    BY <1>14, <2>1, <2>2 DEF ExpireOne
<1>15. CASE DispatchExec
  BY <1>15 DEF DispatchExec
<1>16. CASE Tick
  BY <1>16 DEF Tick
<1>17. CASE UNCHANGED vars
  BY <1>17 DEF vars
<1>18. QED
  BY <1>1, <1>2, <1>3, <1>4, <1>5, <1>6, <1>7, <1>8, <1>9, <1>10, <1>11, <1>12,
     <1>13, <1>14, <1>15, <1>16, <1>17
     DEF Next, UserStep, ServerStep

\* The state is well formed, and a timer is in hand exactly inside a function.
THEOREM TypeCorrect == Spec => []Typed
<1>1. Init => Typed
  <2> SUFFICES ASSUME Init PROVE Typed
    OBVIOUS
  <2>1. server \in ServerType /\ server.pc /= "exec" /\ server.t = NoTimer
    BY ServerAtTyped DEF Init
  <2>2. Idle \in OpType /\ Idle.pc = "idle" /\ Idle.t = NoTimer
    BY DEF Idle, OpType
  <2>3. op \in [Users -> OpType] /\ \A u \in Users : op[u].pc = "idle" /\ op[u].t = NoTimer
    BY <2>2 DEF Init
  <2>4. now \in 1 .. MaxTime
    BY WaitqAssumption DEF Init
  <2>5. QED
    BY <2>1, <2>3, <2>4 DEF Init, Typed, TypeOK, InHand, ServerType, OpType
<1>2. QED
  BY <1>1, TypeStep, PTL DEF Spec

---------------------------------------------------------------------------
(* One request, one callback *)

\* Thread u has taken t out of the waiting set, or has not yet put it in.
Has(u, t) == op[u].t = t /\ op[u].pc /= "hook"

\* Where a timer is excludes every other place.
Apart(t) ==
  /\ t \in waiting_set => ~queued[t] /\ server.t /= t /\ \A u \in Users : ~Has(u, t)
  /\ queued[t] => server.t /= t /\ \A u \in Users : ~Has(u, t)
  /\ server.t = t => \A u \in Users : ~Has(u, t)
  /\ \A u, v \in Users : Has(u, t) /\ Has(v, t) => u = v

\* A timer is somewhere exactly while its wait is outstanding.
Placed(t) ==
  wanted[t] <=> \/ t \in waiting_set
                \/ queued[t]
                \/ server.t = t
                \/ \E u \in Users : Has(u, t)

HolderInv == \A t \in Timers : Apart(t) /\ Placed(t)

\* At first every timer is nowhere.
LEMMA HolderInit == Init => HolderInv
<1> SUFFICES ASSUME Init PROVE HolderInv
  OBVIOUS
<1>1. server.t = NoTimer
  BY ServerAtTyped DEF Init
<1>2. QED
  BY <1>1, WaitqAssumption DEF Init, HolderInv, Apart, Placed, Has, Idle

\* Every step moves a timer from one place to the next.
LEMMA HolderStep == Typed /\ HolderInv /\ [Next]_vars => HolderInv'
<1> SUFFICES ASSUME Typed, HolderInv, [Next]_vars PROVE HolderInv'
  OBVIOUS
<1> USE WaitqAssumption DEF Typed, TypeOK, InHand, HolderInv, Apart, Placed, Has
<1>1. ASSUME NEW u \in Users, WsetAdd(u) PROVE HolderInv'
  BY <1>1 DEF WsetAdd, Idle
<1>2. ASSUME NEW u \in Users, CancelExec(u) PROVE HolderInv'
  BY <1>2 DEF CancelExec, Idle
<1>3. ASSUME NEW u \in Users, NEW i \in Intervals, RescheduleSet(u, i) PROVE HolderInv'
  BY <1>3 DEF RescheduleSet
<1>4. ASSUME NEW u \in Users, Hook(u) PROVE HolderInv'
  BY <1>4 DEF Hook, Idle
<1>5. ASSUME NEW u \in Users, NEW t \in Timers, NEW i \in Intervals, TimerWait(u, t, i)
      PROVE  HolderInv'
  BY <1>5 DEF TimerWait, Idle
<1>b. ASSUME NEW u \in Users, NEW t \in Timers, op[u] = Idle, t \in waiting_set,
             NEW p \in {"hook_cancel", "cancel", "hook_resched", "resched"},
             waiting_set' = waiting_set \ {t},
             op' = [op EXCEPT ![u] = [pc |-> p, t |-> t]],
             UNCHANGED <<queued, server, wanted>>
      PROVE  HolderInv'
  BY <1>b DEF Idle
<1>c. ASSUME server'.t = server.t, UNCHANGED <<waiting_set, queued, op, wanted>>
      PROVE  HolderInv'
  BY <1>c
<1>6. ASSUME NEW u \in Users, NEW t \in Timers, Cancel(u, t) PROVE HolderInv'
  <2>1. CASE WsetRemove(u, t, "hook_cancel", "cancel")
    BY <1>6, <2>1, <1>b, RemoveTyped DEF Cancel
  <2>2. CASE UNCHANGED <<waiting_set, op>>
    BY <1>6, <2>2 DEF Cancel
  <2>3. QED
    BY <1>6, <2>1, <2>2 DEF Cancel
<1>7. ASSUME NEW u \in Users, NEW t \in Timers, Reschedule(u, t) PROVE HolderInv'
  BY <1>7, <1>b, RemoveTyped DEF Reschedule
<1>8. ASSUME NEW t \in Timers, Callback(t) PROVE HolderInv'
  BY <1>8 DEF Callback
<1>9. CASE ReadClock
  BY <1>9 DEF ReadClock
<1>10. CASE NextDeadline
  <2>1. server'.t = server.t
    BY <1>10, NextDeadlineEffect
  <2>2. QED
    BY <1>10, <2>1, <1>c DEF NextDeadline
<1>11. CASE Sleep
  BY <1>11 DEF Sleep
<1>12. CASE Awake \/ AwakeForFd
  BY <1>12, ServerAtTyped DEF Awake, AwakeForFd
<1>13. CASE DispatchBegin
  BY <1>13 DEF DispatchBegin
<1>14. CASE ExpireOne
  <2>1. CASE server' = ServerAt("plan") /\ UNCHANGED waiting_set
    <3>1. server'.t = server.t
      BY <1>14, <2>1, ServerAtTyped DEF ExpireOne
    <3>2. QED
      BY <1>14, <2>1, <3>1, <1>c DEF ExpireOne
  <2>2. ASSUME NEW t \in waiting_set, waiting_set' = waiting_set \ {t},
               server' = [server EXCEPT !.pc = "exec", !.t = t]
        PROVE  HolderInv'
    <3>1. server.t = NoTimer /\ server'.t = t /\ UNCHANGED <<queued, op, wanted>>
      BY <1>14, <2>2 DEF ExpireOne
    <3>2. QED
      BY <2>2, <3>1
  <2>3. QED
    BY <1>14, <2>1, <2>2 DEF ExpireOne
<1>15. CASE DispatchExec
  BY <1>15 DEF DispatchExec
<1>16. CASE Tick
  BY <1>16 DEF Tick
<1>17. CASE UNCHANGED vars
  BY <1>17 DEF vars
<1>18. QED
  BY <1>1, <1>2, <1>3, <1>4, <1>5, <1>6, <1>7, <1>8, <1>9, <1>10, <1>11, <1>12,
     <1>13, <1>14, <1>15, <1>16, <1>17
     DEF Next, UserStep, ServerStep

\* A timer with an outstanding wait has one holder, a timer without one has none.
LEMMA HolderCount == HolderInv => OneHolder
<1> SUFFICES ASSUME HolderInv, NEW t \in Timers
             PROVE  Cardinality(Holders(t)) = IF wanted[t] THEN 1 ELSE 0
  BY DEF OneHolder
<1> USE DEF HolderInv, Apart, Placed, Has
<1>1. CASE ~wanted[t]
  <2>1. Holders(t) = {}
    BY <1>1 DEF Holders
  <2>2. QED
    BY <1>1, <2>1, FS_EmptySet
<1>2. CASE wanted[t]
  <2>1. PICK x : Holders(t) = {x}
    <3>1. CASE t \in waiting_set
      BY <3>1 DEF Holders
    <3>2. CASE queued[t]
      BY <3>2 DEF Holders
    <3>3. CASE server.t = t
      BY <3>3 DEF Holders
    <3>4. ASSUME NEW u \in Users, Has(u, t) PROVE Holders(t) = {u}
      BY <3>4 DEF Holders
    <3>5. QED
      BY <1>2, <3>1, <3>2, <3>3, <3>4
  <2>2. QED
    <3>1. Cardinality({x}) = 1
      BY FS_Singleton
    <3>2. QED
      BY <1>2, <2>1, <3>1
<1>3. QED
  BY <1>1, <1>2

\* However cancellation, rescheduling and expiry overlap, exactly one of them
\* submits the task of a timer: for any number of timers and threads.
THEOREM OneCallbackPerWait == Spec => []OneHolder
<1>1. QED
  BY HolderInit, HolderStep, HolderCount, TypeCorrect, PTL DEF Spec

---------------------------------------------------------------------------
(* No early callback *)

\* The time the server goes by has come.
ClockRead == server.now <= now

\* A timer that waits, or is about to, has a deadline; only one that is being
\* cancelled loses it, and its cancellation was asked for.
Deadlines ==
  /\ \A t \in waiting_set : deadline[t] >= 1
  /\ \A u \in Users : op[u].pc \in {"add", "readd"} => deadline[op[u].t] >= 1
  /\ \A u \in Users : op[u].pc \in {"hook_cancel", "cancel"} => asked[op[u].t]
  /\ server.t \in Timers => deadline[server.t] \in 1 .. server.now

EarlyInv == ClockRead /\ Deadlines /\ NotEarly

\* Every step preserves it.
LEMMA EarlyStep == Typed /\ HolderInv /\ EarlyInv /\ [Next]_vars => EarlyInv'
<1> SUFFICES ASSUME Typed, HolderInv, EarlyInv, [Next]_vars PROVE EarlyInv'
  OBVIOUS
<1> USE WaitqAssumption DEF Typed, TypeOK, InHand, HolderInv, Apart, Placed, Has,
        EarlyInv, ClockRead, Deadlines, NotEarly
<1>1. ASSUME NEW u \in Users, WsetAdd(u) PROVE EarlyInv'
  BY <1>1 DEF WsetAdd, Idle
<1>2. ASSUME NEW u \in Users, CancelExec(u) PROVE EarlyInv'
  <2>0. PICK t \in Timers : t = op[u].t
    BY <1>2 DEF CancelExec
  <2>1. asked[t] /\ Has(u, t)
    BY <1>2, <2>0 DEF CancelExec
  <2>2. deadline'[t] = 0 /\ queued'[t] /\ asked'[t]
    BY <1>2, <2>0 DEF CancelExec, CancelledDeadline
  <2>3. \A s \in Timers : s /= t => deadline'[s] = deadline[s] /\ queued'[s] = queued[s]
    BY <1>2, <2>0 DEF CancelExec
  <2>4. \A v \in Users : op'[v] = IF v = u THEN Idle ELSE op[v]
    BY <1>2 DEF CancelExec
  <2>5. \A v \in Users : v /= u /\ op[v].pc \in {"add", "readd", "hook_cancel", "cancel"}
                          => op[v].t /= t
    BY <2>1
  <2>6. UNCHANGED <<now, waiting_set, server, asked>>
    BY <1>2 DEF CancelExec
  <2>7. NotEarly'
    BY <2>2, <2>3, <2>6
  <2>8. Deadlines'
    <3>1. \A s \in waiting_set' : deadline'[s] >= 1
      BY <2>1, <2>3, <2>6
    <3>2. \A v \in Users : op'[v].pc /= "idle" => v /= u /\ op'[v] = op[v] /\ op[v].t \in Timers
      BY <2>4 DEF Idle
    <3>3. \A v \in Users : op'[v].pc \in {"add", "readd"} => deadline'[op'[v].t] >= 1
      <4> SUFFICES ASSUME NEW v \in Users, op'[v].pc \in {"add", "readd"}
                   PROVE  deadline'[op'[v].t] >= 1
        OBVIOUS
      <4>1. op'[v] = op[v] /\ op[v].t \in Timers /\ op[v].t /= t
        BY <2>5, <3>2
      <4>2. deadline'[op[v].t] = deadline[op[v].t]
        BY <2>3, <4>1
      <4>3. QED
        BY <4>1, <4>2
    <3>4. \A v \in Users : op'[v].pc \in {"hook_cancel", "cancel"} => asked'[op'[v].t]
      BY <2>6, <3>2
    <3>5. server'.t \in Timers => deadline'[server'.t] \in 1 .. server'.now
      <4>1. server.t /= t
        BY <2>1
      <4>2. server.t \in Timers => deadline'[server.t] = deadline[server.t]
        BY <2>3, <4>1
      <4>3. QED
        BY <2>6, <4>2
    <3>6. QED
      BY <3>1, <3>3, <3>4, <3>5
  <2>9. QED
    BY <2>6, <2>7, <2>8
<1>3. ASSUME NEW u \in Users, NEW i \in Intervals, RescheduleSet(u, i) PROVE EarlyInv'
  BY <1>3 DEF RescheduleSet
<1>4. ASSUME NEW u \in Users, Hook(u) PROVE EarlyInv'
  BY <1>4 DEF Hook, Idle
<1>5. ASSUME NEW u \in Users, NEW t \in Timers, NEW i \in Intervals, TimerWait(u, t, i)
      PROVE  EarlyInv'
  BY <1>5 DEF TimerWait, Idle
<1>6. ASSUME NEW u \in Users, NEW t \in Timers, Cancel(u, t) PROVE EarlyInv'
  <2>1. t \in waiting_set \/ queued[t] \/ server.t = t
          \/ (\E v \in Users : Has(v, t) /\ op[v].pc /= "add") => asked'[t]
    BY <1>6 DEF Cancel
  <2>2. \A s \in Timers \ {t} : asked'[s] = asked[s]
    BY <1>6 DEF Cancel
  <2>3. CASE WsetRemove(u, t, "hook_cancel", "cancel")
    <3>1. PICK p \in {"hook_cancel", "cancel"} :
            op' = [op EXCEPT ![u] = [pc |-> p, t |-> t]]
      BY <2>3, RemoveTyped
    <3>2. \A v \in Users : op'[v] = IF v = u THEN [pc |-> p, t |-> t] ELSE op[v]
      BY <3>1
    <3>3. waiting_set' = waiting_set \ {t} /\ asked'[t]
      BY <2>1, <2>3 DEF WsetRemove
    <3>4. QED
      BY <1>6, <2>1, <2>2, <3>2, <3>3 DEF Cancel, Idle
  <2>4. CASE UNCHANGED <<waiting_set, op>>
    BY <1>6, <2>1, <2>2, <2>4 DEF Cancel
  <2>5. QED
    BY <1>6, <2>3, <2>4 DEF Cancel
<1>7. ASSUME NEW u \in Users, NEW t \in Timers, Reschedule(u, t) PROVE EarlyInv'
  <2>1. PICK p \in {"hook_resched", "resched"} :
          op' = [op EXCEPT ![u] = [pc |-> p, t |-> t]]
    BY <1>7, RemoveTyped DEF Reschedule
  <2>2. \A v \in Users : op'[v] = IF v = u THEN [pc |-> p, t |-> t] ELSE op[v]
    BY <2>1
  <2>3. QED
    BY <1>7, <2>2 DEF Reschedule, WsetRemove
<1>8. ASSUME NEW t \in Timers, Callback(t) PROVE EarlyInv'
  BY <1>8 DEF Callback
<1>c. ASSUME server'.t = NoTimer, server'.now <= now,
             waiting_set' \subseteq waiting_set,
             UNCHANGED <<now, queued, op, deadline, wanted, asked>>
      PROVE  EarlyInv'
  BY <1>c
<1>9. CASE ReadClock
  BY <1>9, <1>c DEF ReadClock
<1>10. CASE NextDeadline
  <2>1. server'.t = NoTimer /\ server'.now <= now
    BY <1>10, NextDeadlineEffect
  <2>2. QED
    BY <1>10, <1>c, <2>1 DEF NextDeadline
<1>11. CASE Sleep
  BY <1>11, <1>c DEF Sleep
<1>a. ASSUME NEW p PROVE ServerAt(p).t = NoTimer /\ ServerAt(p).now = 0
  BY DEF ServerAt
<1>12. CASE Awake \/ AwakeForFd
  BY <1>12, <1>a, <1>c DEF Awake, AwakeForFd
<1>13. CASE DispatchBegin
  BY <1>13, <1>c DEF DispatchBegin
<1>14. CASE ExpireOne
  <2>1. CASE server' = ServerAt("plan") /\ UNCHANGED waiting_set
    <3>1. server'.t = NoTimer /\ server'.now = 0
      BY <2>1, <1>a
    <3>2. server'.now <= now
      BY <3>1
    <3>3. QED
      BY <1>14, <2>1, <3>1, <3>2, <1>c DEF ExpireOne
  <2>2. ASSUME NEW t \in waiting_set, Due(t), waiting_set' = waiting_set \ {t},
               server' = [server EXCEPT !.pc = "exec", !.t = t]
        PROVE  EarlyInv'
    <3>1. /\ server'.t = t
          /\ server'.now = server.now
          /\ UNCHANGED <<now, queued, op, deadline, asked>>
      BY <1>14, <2>2 DEF ExpireOne
    <3>2. deadline[t] \in 1 .. server.now
      BY <2>2 DEF Due
    <3>3. QED
      BY <2>2, <3>1, <3>2
  <2>3. QED
    BY <1>14, <2>1, <2>2 DEF ExpireOne
<1>15. CASE DispatchExec
  BY <1>15 DEF DispatchExec
<1>16. CASE Tick
  BY <1>16 DEF Tick
<1>17. CASE UNCHANGED vars
  BY <1>17 DEF vars
<1>18. QED
  BY <1>1, <1>2, <1>3, <1>4, <1>5, <1>6, <1>7, <1>8, <1>9, <1>10, <1>11, <1>12,
     <1>13, <1>14, <1>15, <1>16, <1>17
     DEF Next, UserStep, ServerStep

\* No callback comes before its deadline unless the wait was cancelled, and the
\* deadline of 0 that waitq_timer_cancelled() tests tells the two apart.
THEOREM NoEarlyCallback == Spec => []NotEarly
<1>1. Init => HolderInv
  BY HolderInit
<1>2. Init => EarlyInv
  <2> SUFFICES ASSUME Init PROVE EarlyInv
    OBVIOUS
  <2>1. server.t = NoTimer /\ server.now = 0
    BY DEF Init, ServerAt
  <2>2. QED
    BY <2>1, WaitqAssumption DEF Init, EarlyInv, ClockRead, Deadlines, NotEarly, Idle
<1>3. EarlyInv => NotEarly
  BY DEF EarlyInv
<1>4. QED
  BY <1>1, <1>2, <1>3, HolderStep, EarlyStep, TypeCorrect, PTL DEF Spec

---------------------------------------------------------------------------
(* No oversleeping *)

\* A new first timer calls the hook; every other one is behind a timer that the
\* server's timeout was computed for, or that called the hook itself.
LEMMA AddedBehind ==
  ASSUME Typed, NEW t \in Timers, ~AddWakes(t)
  PROVE  \E s \in waiting_set : deadline[s] <= deadline[t]
BY WaitqAssumption DEF AddWakes, IsFirst, Before, Typed, TypeOK

\* Every step preserves the property.
LEMMA SleepStep == Typed /\ HolderInv /\ NoOversleep /\ [Next]_vars => NoOversleep'
<1> SUFFICES ASSUME Typed, HolderInv, NoOversleep, [Next]_vars PROVE NoOversleep'
  OBVIOUS
<1> USE WaitqAssumption DEF Typed, TypeOK, InHand, HolderInv, Apart, Has, NoOversleep
<1>0. ASSUME UNCHANGED server, waiting_set' \subseteq waiting_set,
             \A s \in waiting_set' : deadline'[s] = deadline[s],
             notified' \/ (~notified /\ \A v \in Users : op[v].pc = "hook" => op'[v].pc = "hook")
      PROVE  NoOversleep'
  BY <1>0
<1>1. ASSUME NEW u \in Users, WsetAdd(u) PROVE NoOversleep'
  <2>1. CASE AddWakes(op[u].t)
    BY <1>1, <2>1 DEF WsetAdd
  <2>2. CASE ~AddWakes(op[u].t)
    <3>1. PICK s \in waiting_set : deadline[s] <= deadline[op[u].t]
      BY <1>1, <2>2, AddedBehind DEF WsetAdd
    <3>2. op' = [op EXCEPT ![u] = Idle]
      BY <1>1, <2>2 DEF WsetAdd
    <3>3. QED
      BY <1>1, <3>1, <3>2 DEF WsetAdd
  <2>3. QED
    BY <2>1, <2>2
<1>2. ASSUME NEW u \in Users, CancelExec(u) PROVE NoOversleep'
  BY <1>0, <1>2 DEF CancelExec
<1>3. ASSUME NEW u \in Users, NEW i \in Intervals, RescheduleSet(u, i) PROVE NoOversleep'
  BY <1>0, <1>3 DEF RescheduleSet
<1>4. ASSUME NEW u \in Users, Hook(u) PROVE NoOversleep'
  BY <1>0, <1>4 DEF Hook
<1>5. ASSUME NEW u \in Users, NEW t \in Timers, NEW i \in Intervals, TimerWait(u, t, i)
      PROVE  NoOversleep'
  BY <1>0, <1>5 DEF TimerWait, Idle, Placed
<1>b. ASSUME NEW u \in Users, NEW t \in Timers, op[u] = Idle,
             waiting_set' = waiting_set \ {t}, NEW p,
             op' = [op EXCEPT ![u] = [pc |-> p, t |-> t]],
             UNCHANGED <<deadline, server, notified>>
      PROVE  NoOversleep'
  <2>1. \A v \in Users : op[v].pc = "hook" => op'[v].pc = "hook"
    BY <1>b DEF Idle
  <2>2. QED
    BY <1>0, <1>b, <2>1
<1>6. ASSUME NEW u \in Users, NEW t \in Timers, Cancel(u, t) PROVE NoOversleep'
  <2>1. CASE WsetRemove(u, t, "hook_cancel", "cancel")
    <3>1. PICK p \in {"hook_cancel", "cancel"} :
            op' = [op EXCEPT ![u] = [pc |-> p, t |-> t]]
      BY <2>1, RemoveTyped
    <3>2. QED
      BY <1>b, <1>6, <2>1, <3>1 DEF Cancel, WsetRemove
  <2>2. CASE UNCHANGED <<waiting_set, op>>
    BY <1>0, <1>6, <2>2 DEF Cancel
  <2>3. QED
    BY <1>6, <2>1, <2>2 DEF Cancel
<1>7. ASSUME NEW u \in Users, NEW t \in Timers, Reschedule(u, t) PROVE NoOversleep'
  <2>1. PICK p \in {"hook_resched", "resched"} :
          op' = [op EXCEPT ![u] = [pc |-> p, t |-> t]]
    BY <1>7, RemoveTyped DEF Reschedule
  <2>2. QED
    BY <1>b, <1>7, <2>1 DEF Reschedule, WsetRemove
<1>8. ASSUME NEW t \in Timers, Callback(t) PROVE NoOversleep'
  BY <1>0, <1>8 DEF Callback
<1>9. CASE ReadClock
  BY <1>9 DEF ReadClock
<1>10. CASE NextDeadline
  <2>1. CASE waiting_set = {}
    BY <1>10, <2>1 DEF NextDeadline
  <2>2. ASSUME NEW t \in waiting_set, IsFirst(t, waiting_set), server'.now = server.now,
               server'.timeout = TimeLeft(deadline[t])
        PROVE  NoOversleep'
    <3>1. \A s \in waiting_set : deadline[t] <= deadline[s]
      BY <2>2 DEF IsFirst, Before
    <3>2. server'.timeout >= 0
          /\ (server'.timeout = 0 \/ server'.now + server'.timeout = deadline[t])
      BY <2>2 DEF TimeLeft
    <3>3. UNCHANGED <<waiting_set, deadline>>
      BY <1>10 DEF NextDeadline
    <3>4. QED
      BY <3>1, <3>2, <3>3
  <2>3. QED
    BY <1>10, <2>1, <2>2, NextDeadlineEffect
<1>11. CASE Sleep
  BY <1>11 DEF Sleep
<1>12. CASE Awake \/ AwakeForFd
  BY <1>12, ServerAtTyped DEF Awake, AwakeForFd
<1>13. CASE DispatchBegin
  BY <1>13 DEF DispatchBegin
<1>14. CASE ExpireOne
  BY <1>14, ServerAtTyped DEF ExpireOne
<1>15. CASE DispatchExec
  BY <1>15 DEF DispatchExec
<1>16. CASE Tick
  BY <1>16 DEF Tick
<1>17. CASE UNCHANGED vars
  BY <1>17 DEF vars
<1>18. QED
  BY <1>1, <1>2, <1>3, <1>4, <1>5, <1>6, <1>7, <1>8, <1>9, <1>10, <1>11, <1>12,
     <1>13, <1>14, <1>15, <1>16, <1>17
     DEF Next, UserStep, ServerStep

\* The server never sleeps past a deadline, whatever is added, cancelled or
\* rescheduled between the computation of its timeout and its sleep.
THEOREM NeverOversleeps == Spec => []NoOversleep
<1>1. Init => NoOversleep
  BY DEF Init, NoOversleep, ServerAt
<1>2. QED
  BY <1>1, HolderInit, HolderStep, SleepStep, TypeCorrect, PTL DEF Spec

=============================================================================
