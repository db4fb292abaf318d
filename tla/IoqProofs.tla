----------------------------- MODULE IoqProofs -----------------------------
(***************************************************************************)
(* Proofs about Ioq for any number of wait objects, threads and tasks, any *)
(* set of events, with and without background threads.  Where a theorem    *)
(* needs that ioq_fd_wait() is not called with the empty set (the run      *)
(* IoqEmptySet shows what happens then), it says so.                       *)
(***************************************************************************)
EXTENDS Ioq, FiniteSetTheorems, TLAPS

---------------------------------------------------------------------------
(* Lists *)

Distinct(q) == \A i, j \in 1 .. Len(q) : q[i] = q[j] => i = j

\* Appending a node adds it to the list's set and keeps the nodes distinct if
\* it is a new one.
LEMMA AppendNode ==
  ASSUME NEW S, NEW q \in Seq(S), NEW k \in S
  PROVE  /\ Range(Append(q, k)) = Range(q) \cup {k}
         /\ Distinct(q) /\ k \notin Range(q) => Distinct(Append(q, k))
<1> DEFINE p == Append(q, k)
<1>1. Len(p) = Len(q) + 1 /\ p \in Seq(S) /\ p[Len(q) + 1] = k /\ Len(q) \in Nat
      /\ DOMAIN p = 1 .. Len(q) + 1 /\ DOMAIN q = 1 .. Len(q)
      /\ \A i \in 1 .. Len(q) : p[i] = q[i]
  OBVIOUS
<1> HIDE DEF p
<1>2. Range(p) = Range(q) \cup {k}
  <2>1. ASSUME NEW x \in Range(p) PROVE x \in Range(q) \cup {k}
    <3>1. PICK i \in 1 .. Len(q) + 1 : x = p[i]
      BY <1>1 DEF Range
    <3>2. CASE i \in 1 .. Len(q)
      BY <1>1, <3>1, <3>2 DEF Range
    <3>3. CASE i = Len(q) + 1
      BY <1>1, <3>1, <3>3
    <3>4. QED
      BY <1>1, <3>1, <3>2, <3>3
  <2>2. ASSUME NEW x \in Range(q) PROVE x \in Range(p)
    <3>1. PICK i \in 1 .. Len(q) : x = q[i]
      BY <1>1 DEF Range
    <3>2. i \in DOMAIN p /\ p[i] = x
      BY <1>1, <3>1
    <3>3. QED
      BY <3>2 DEF Range
  <2>3. k \in Range(p)
    BY <1>1 DEF Range
  <2>4. QED
    BY <2>1, <2>2, <2>3
<1>3. ASSUME Distinct(q), k \notin Range(q) PROVE Distinct(p)
  <2>1. \A i \in 1 .. Len(q) : q[i] /= k
    BY <1>1, <1>3 DEF Range
  <2>2. QED
    BY <1>1, <1>3, <2>1 DEF Distinct
<1>4. QED
  BY <1>2, <1>3 DEF p

\* Popping the first of several distinct nodes removes exactly that one.
LEMMA PopNode ==
  ASSUME NEW S, NEW q \in Seq(S), q /= <<>>, Distinct(q)
  PROVE  /\ Head(q) \in Range(q)
         /\ Range(Tail(q)) = Range(q) \ {Head(q)}
         /\ Distinct(Tail(q))
<1> DEFINE p == Tail(q)
<1>1. /\ Len(q) \in Nat \ {0} /\ Len(p) = Len(q) - 1 /\ Head(q) = q[1]
      /\ DOMAIN p = 1 .. Len(q) - 1 /\ DOMAIN q = 1 .. Len(q)
      /\ \A i \in 1 .. Len(q) - 1 : p[i] = q[i + 1]
  OBVIOUS
<1> HIDE DEF p
<1>2. Head(q) \in Range(q)
  BY <1>1 DEF Range
<1>3. Distinct(p)
  BY <1>1 DEF Distinct
<1>4. Range(p) = Range(q) \ {Head(q)}
  <2>1. ASSUME NEW x \in Range(p) PROVE x \in Range(q) \ {Head(q)}
    <3>1. PICK i \in 1 .. Len(q) - 1 : x = p[i]
      BY <1>1 DEF Range
    <3>2. i + 1 \in 1 .. Len(q) /\ x = q[i + 1] /\ i + 1 /= 1
      BY <1>1, <3>1
    <3>3. x /= q[1]
      BY <1>1, <3>2 DEF Distinct
    <3>4. QED
      BY <1>1, <3>2, <3>3 DEF Range
  <2>2. ASSUME NEW x \in Range(q), x /= Head(q) PROVE x \in Range(p)
    <3>1. PICK i \in 1 .. Len(q) : x = q[i]
      BY <1>1 DEF Range
    <3>2. i - 1 \in 1 .. Len(q) - 1 /\ p[i - 1] = q[i]
      BY <1>1, <2>2, <3>1
    <3>3. QED
      BY <1>1, <3>1, <3>2 DEF Range
  <2>3. QED
    BY <2>1, <2>2
<1>5. QED
  BY <1>2, <1>3, <1>4 DEF p

\* The first node is a node of the list.
LEMMA HeadInRange ==
  ASSUME NEW S, NEW q \in Seq(S), q /= <<>>
  PROVE  Head(q) \in S /\ Head(q) \in Range(q)
<1>1. 1 \in DOMAIN q /\ Head(q) = q[1]
  OBVIOUS
<1>2. QED
  BY <1>1 DEF Range

---------------------------------------------------------------------------
(* The inductive invariant *)

\* What epoll_wait() may have put into evts: events for some of the objects.
Evts == UNION {[S -> Mask \ {{}}] : S \in SUBSET Fds}

LoopType ==
  [pc : {"wait", "drain", "ack", "events", "mods", "mod", "timers", "run", "task"},
   task : Task \cup {None},
   flags : SUBSET Flag,
   requested : SUBSET Events,
   evts : Evts]

\* The loop's local variables, and the threads inside ioq_fd_wait().
Local ==
  /\ loop \in LoopType
  /\ loop.pc = "mod" => loop.task \in Fds
  /\ loop.pc \notin {"drain", "ack", "events"} => DOMAIN loop.evts = {}
  /\ \A t \in Thread : th[t].pc = "enqueue" => th[t].f \in Fds

Typed == TypeOK /\ Local

\* The four places of OneCallback.  Listed is stated with the flag, which
\* ModListMatchesFlags ties to the list.
Waiting(f) == "WAITING" \in flags[f]
Listed(f) == "WAITING" \notin flags[f] /\ "MOD_LIST" \in flags[f]
Held(f) == loop.pc = "mod" /\ loop.task = f
InLoop(f) == Held(f) /\ "WAITING" \notin loop.flags

\* An object is in one of them exactly while its wait is outstanding.
OnePlace(f) ==
  /\ wanted[f] <=> Waiting(f) \/ Listed(f) \/ InLoop(f) \/ f \in queued
  /\ Waiting(f) => ~InLoop(f) /\ f \notin queued
  /\ Listed(f) => ~InLoop(f) /\ f \notin queued
  /\ InLoop(f) => f \notin queued

\* The flag EPOLL is the truth about the kernel, and the copies of the flags
\* that dispatch_mods() works with have not become stale where it matters.
Registered(f) ==
  /\ epoll[f] /= None <=> "EPOLL" \in flags[f]
  /\ "EPOLL" \in flags[f] => Waiting(f)
  /\ f \in DOMAIN loop.evts => "EPOLL" \in flags[f]
  /\ Held(f) => /\ "WAITING" \in loop.flags <=> "WAITING" \in flags[f]
                /\ "EPOLL" \in loop.flags <=> "EPOLL" \in flags[f]

\* An empty set is a cancellation or a failure, also the copy of it.
Reasoned(f) ==
  /\ Waiting(f) /\ requested[f] = {} => cancelled[f] \/ err[f]
  /\ Held(f) /\ Waiting(f) /\ loop.requested = {} => cancelled[f] \/ err[f]

\* Inside ioq_fd_wait() the object belongs to one thread.
Entering(f) ==
  /\ \A t \in Thread : th[t] = At("enqueue", f) => flags[f] = {"WAITING"} /\ ~Held(f)
  /\ \A t, u \in Thread : th[t] = At("enqueue", f) /\ th[u] = At("enqueue", f) => t = u

ObjectInv ==
  \A f \in Fds : OnePlace(f) /\ Registered(f) /\ Reasoned(f) /\ Entering(f)

---------------------------------------------------------------------------
(* Type correctness *)

\* The loop's state without events, and what epoll_wait() puts into it.
LEMMA EvtsTyped ==
  /\ <<>> \in Evts /\ DOMAIN <<>> = {}
  /\ \A e \in Evts : DOMAIN e \subseteq Fds /\ \A f \in DOMAIN e : e[f] \in Mask \ {{}}
  /\ \A S \in SUBSET Fds : [S -> Mask \ {{}}] \subseteq Evts
<1>1. <<>> \in [{} -> Mask \ {{}}] /\ DOMAIN <<>> = {}
  OBVIOUS
<1>2. ASSUME NEW e \in Evts
      PROVE  DOMAIN e \subseteq Fds /\ \A f \in DOMAIN e : e[f] \in Mask \ {{}}
  <2>1. PICK S \in SUBSET Fds : e \in [S -> Mask \ {{}}]
    BY DEF Evts
  <2>2. QED
    BY <2>1
<1>3. ASSUME NEW S \in SUBSET Fds PROVE [S -> Mask \ {{}}] \subseteq Evts
  BY DEF Evts
<1>4. QED
  BY <1>1, <1>2, <1>3

\* A loop that has just gone to pc is well formed.
LEMMA LoopAtTyped ==
  ASSUME NEW p \in {"wait", "drain", "ack", "events", "mods", "mod", "timers", "run", "task"}
  PROVE  /\ LoopAt(p) \in LoopType
         /\ LoopAt(p).pc = p
         /\ LoopAt(p).task = None
         /\ DOMAIN LoopAt(p).evts = {}
BY EvtsTyped DEF LoopAt, LoopType

ThreadType == [pc : {"out", "enqueue", "notify", "write"}, f : Fds \cup {None}]

\* The places a thread can be in.
LEMMA ThreadPlaces ==
  /\ Out \in ThreadType /\ Out.pc = "out"
  /\ At("notify", None) \in ThreadType /\ At("notify", None).pc = "notify"
  /\ At("write", None) \in ThreadType /\ At("write", None).pc = "write"
  /\ AfterExec \in {Out, At("notify", None)}
  /\ \A f \in Fds : /\ At("enqueue", f) \in ThreadType
                    /\ At("enqueue", f).pc = "enqueue"
                    /\ At("enqueue", f).f = f
BY DEF Out, At, ThreadType, AfterExec

\* mod_enqueue_nolock() and mod_dequeue() keep the list a list of objects.
LEMMA ListTyped ==
  ASSUME TypeOK
  PROVE  /\ \A f \in Fds : ModEnqueue(f) \in Seq(Fds)
         /\ mod_list /= <<>> => Head(mod_list) \in Fds /\ Tail(mod_list) \in Seq(Fds)
<1> USE DEF TypeOK
<1>1. ASSUME NEW f \in Fds PROVE Append(mod_list, f) \in Seq(Fds)
  OBVIOUS
<1>2. ASSUME mod_list /= <<>> PROVE Head(mod_list) \in Fds /\ Tail(mod_list) \in Seq(Fds)
  BY <1>2
<1>3. QED
  BY <1>1, <1>2 DEF ModEnqueue

\* What the steps of the loop do to its local variables.
LEMMA LoopEffects ==
  ASSUME TypeOK, Local
  PROVE  /\ EpollWait => /\ loop' \in LoopType /\ loop'.pc = "drain"
                         /\ \A f \in DOMAIN loop'.evts : epoll[f] /= None
         /\ IntrDrain => loop' \in LoopType /\ loop'.pc = "ack" /\ loop'.evts = loop.evts
         /\ IntrAck => loop' \in LoopType /\ loop'.pc = "events" /\ loop'.evts = loop.evts
         /\ \A f \in Fds :
              HandleEvent(f) => /\ loop' \in LoopType /\ loop'.pc = "events"
                                /\ DOMAIN loop'.evts = DOMAIN loop.evts \ {f}
                                /\ ReadyOf(f) \in Mask \ {{}}
         /\ ModDequeue => /\ loop' \in LoopType /\ loop'.pc = "mod"
                          /\ DOMAIN loop'.evts = {}
                          /\ loop'.task = Head(mod_list)
                          /\ loop'.flags = flags[Head(mod_list)] \ {"MOD_LIST"}
                          /\ loop'.requested = requested[Head(mod_list)]
         /\ \A k \in Task :
              RunTask(k) => /\ loop' \in LoopType /\ loop'.pc = "task"
                            /\ DOMAIN loop'.evts = {}
<1> USE DEF Local
<1>1. ASSUME EpollWait
      PROVE  /\ loop' \in LoopType /\ loop'.pc = "drain"
             /\ \A f \in DOMAIN loop'.evts : epoll[f] /= None
  <2>1. PICK S \in SUBSET Reportable :
          loop' = [LoopAt("drain") EXCEPT !.evts = [f \in S |-> Reported(f)]]
    BY <1>1 DEF EpollWait
  <2>2. \A f \in S : f \in Fds /\ Reported(f) \in Mask \ {{}} /\ epoll[f] /= None
    BY DEF Reportable, Reported, Mask, TypeOK
  <2>3. [f \in S |-> Reported(f)] \in [S -> Mask \ {{}}] /\ S \in SUBSET Fds
    BY <2>2
  <2>4. [f \in S |-> Reported(f)] \in Evts
    BY <2>3, EvtsTyped
  <2>5. loop' \in LoopType /\ loop'.pc = "drain" /\ loop'.evts = [f \in S |-> Reported(f)]
    BY <2>1, <2>4, LoopAtTyped DEF LoopType
  <2>6. QED
    BY <2>2, <2>5
<1>2. ASSUME IntrDrain
      PROVE  loop' \in LoopType /\ loop'.pc = "ack" /\ loop'.evts = loop.evts
  BY <1>2 DEF IntrDrain, LoopType
<1>3. ASSUME IntrAck
      PROVE  loop' \in LoopType /\ loop'.pc = "events" /\ loop'.evts = loop.evts
  BY <1>3 DEF IntrAck, LoopType
<1>4. ASSUME NEW f \in Fds, HandleEvent(f)
      PROVE  /\ loop' \in LoopType /\ loop'.pc = "events"
             /\ DOMAIN loop'.evts = DOMAIN loop.evts \ {f}
             /\ ReadyOf(f) \in Mask \ {{}}
  <2> DEFINE S == DOMAIN loop.evts \ {f}
             e == [x \in S |-> loop.evts[x]]
  <2>1. loop' = [loop EXCEPT !.evts = e] /\ f \in DOMAIN loop.evts
    BY <1>4 DEF HandleEvent, Restrict
  <2>2. loop.evts \in Evts
    BY DEF LoopType
  <2>3. S \in SUBSET Fds /\ e \in [S -> Mask \ {{}}] /\ ReadyOf(f) \in Mask \ {{}}
    BY <2>1, <2>2, EvtsTyped DEF ReadyOf
  <2>4. e \in Evts /\ DOMAIN e = S
    BY <2>3, EvtsTyped
  <2> HIDE DEF e
  <2>5. loop' \in LoopType /\ loop'.pc = "events" /\ loop'.evts = e
    BY <1>4, <2>1, <2>4 DEF HandleEvent, LoopType
  <2>6. QED
    BY <2>3, <2>4, <2>5
<1>5. ASSUME ModDequeue
      PROVE  /\ loop' \in LoopType /\ loop'.pc = "mod"
             /\ DOMAIN loop'.evts = {}
             /\ loop'.task = Head(mod_list)
             /\ loop'.flags = flags[Head(mod_list)] \ {"MOD_LIST"}
             /\ loop'.requested = requested[Head(mod_list)]
  <2>1. Head(mod_list) \in Fds
    BY <1>5, ListTyped DEF ModDequeue
  <2>2. flags[Head(mod_list)] \in SUBSET Flag /\ requested[Head(mod_list)] \in SUBSET Events
    BY <2>1 DEF TypeOK
  <2>3. loop' = [LoopAt("mod") EXCEPT !.task = Head(mod_list),
                                      !.flags = flags[Head(mod_list)] \ {"MOD_LIST"},
                                      !.requested = requested[Head(mod_list)]]
    BY <1>5 DEF ModDequeue
  <2>4. QED
    BY <2>1, <2>2, <2>3, LoopAtTyped DEF LoopType, Task
<1>6. ASSUME NEW k \in Task, RunTask(k)
      PROVE  loop' \in LoopType /\ loop'.pc = "task" /\ DOMAIN loop'.evts = {}
  BY <1>6, LoopAtTyped DEF RunTask, LoopType
<1>7. QED
  BY <1>1, <1>2, <1>3, <1>4, <1>5, <1>6

\* Every step preserves the type invariant.
LEMMA TypeStep == Typed /\ [Next]_vars => Typed'
<1> SUFFICES ASSUME Typed, [Next]_vars PROVE Typed'
  OBVIOUS
<1> USE DEF Typed, qVars, fdVars, history
\* Steps of a thread outside the loop's own code.
<1>a. ASSUME NEW t \in Thread, NEW p \in ThreadType, th' = [th EXCEPT ![t] = p],
             p.pc = "enqueue" => p.f \in Fds
      PROVE  /\ th' \in [Thread -> ThreadType]
             /\ \A u \in Thread : th'[u].pc = "enqueue" => th'[u].f \in Fds
  BY <1>a DEF TypeOK, Local, ThreadType
\* Steps of the loop to a place where it keeps nothing.
<1>b. ASSUME NEW p \in {"wait", "drain", "mods", "timers", "run"}, loop' = LoopAt(p)
      PROVE  /\ loop' \in LoopType
             /\ loop'.pc \in {"wait", "drain", "mods", "timers", "run"}
             /\ DOMAIN loop'.evts = {}
  BY <1>b, LoopAtTyped
<1>c. Loop \in Thread
  BY DEF Thread
<1>1. ASSUME NEW t \in Thread, FdWaitEnqueue(t) PROVE Typed'
  <2>1. th[t].f \in Fds
    BY <1>1 DEF FdWaitEnqueue, Local
  <2>2. flags' \in [Fds -> SUBSET Flag] /\ mod_list' \in Seq(Fds)
    BY <1>1, <2>1, ListTyped DEF FdWaitEnqueue, TypeOK, Flag
  <2>3. \E p \in {Out, At("notify", None)} : th' = [th EXCEPT ![t] = p]
    BY <1>1 DEF FdWaitEnqueue
  <2>4. QED
    BY <1>1, <1>a, <2>2, <2>3, ThreadPlaces DEF FdWaitEnqueue, TypeOK, Local, ThreadType
<1>2. ASSUME NEW t \in Thread, Notify(t) PROVE Typed'
  <2>1. \E p \in {Out, At("write", None)} : th' = [th EXCEPT ![t] = p]
    BY <1>2 DEF Notify
  <2>2. QED
    BY <1>2, <1>a, <2>1, ThreadPlaces DEF Notify, TypeOK, Local, ThreadType
<1>3. ASSUME NEW t \in Thread, Write(t) PROVE Typed'
  BY <1>3, <1>a, ThreadPlaces DEF Write, TypeOK, Local, ThreadType
<1>4. ASSUME NEW t \in Thread, UserNotify(t) PROVE Typed'
  BY <1>4, <1>a, ThreadPlaces DEF UserNotify, TypeOK, Local, ThreadType
<1>5. ASSUME NEW t \in Thread, NEW j \in Jobs, ExecJob(t, j) PROVE Typed'
  <2>1. queued' \in SUBSET Task
    BY <1>5 DEF ExecJob, Task, TypeOK
  <2>2. QED
    BY <1>5, <1>a, <2>1, ThreadPlaces DEF ExecJob, TypeOK, Local, ThreadType
<1>6. ASSUME NEW t \in Thread, NEW f \in Fds, NEW set \in WaitSets, FdWait(t, f, set)
      PROVE  Typed'
  <2>1. \E p \in {Out, At("notify", None), At("enqueue", f)} : th' = [th EXCEPT ![t] = p]
    BY <1>6, ThreadPlaces DEF FdWait
  <2>2. queued' \in SUBSET Task
    BY <1>6 DEF FdWait, Task, TypeOK
  <2>3. set \in SUBSET Events
    BY IoqAssumption
  <2>4. /\ flags' \in [Fds -> SUBSET Flag] /\ requested' \in [Fds -> SUBSET Events]
        /\ ready' \in [Fds -> Mask] /\ err' \in [Fds -> BOOLEAN]
        /\ wanted' \in [Fds -> BOOLEAN]
    BY <1>6, <2>3 DEF FdWait, TypeOK, Flag, Mask
  <2>5. /\ th' \in [Thread -> ThreadType]
        /\ \A u \in Thread : th'[u].pc = "enqueue" => th'[u].f \in Fds
    <3>1. PICK p \in {Out, At("notify", None), At("enqueue", f)} : th' = [th EXCEPT ![t] = p]
      BY <2>1
    <3>2. p \in ThreadType /\ (p.pc = "enqueue" => p.f \in Fds)
      BY ThreadPlaces
    <3>3. QED
      BY <1>a, <3>1, <3>2
  <2>6. QED
    BY <1>6, <2>2, <2>4, <2>5 DEF FdWait, TypeOK, Local, ThreadType
<1>7. ASSUME NEW t \in Thread, NEW f \in Fds, NEW set \in RewaitSets, FdRewait(t, f, set)
      PROVE  Typed'
  <2>1. \E p \in {Out, At("notify", None)} : th' = [th EXCEPT ![t] = p]
    BY <1>7 DEF FdRewait
  <2>2. set \in SUBSET Events
    BY IoqAssumption
  <2>3. /\ flags' \in [Fds -> SUBSET Flag] /\ requested' \in [Fds -> SUBSET Events]
        /\ cancelled' \in [Fds -> BOOLEAN] /\ mod_list' \in Seq(Fds)
    BY <1>7, <2>2, ListTyped DEF FdRewait, TypeOK, Flag
  <2>4. QED
    BY <1>7, <1>a, <2>1, <2>3, ThreadPlaces DEF FdRewait, TypeOK, Local, ThreadType
<1>8. CASE EpollWait
  BY <1>8, LoopEffects DEF EpollWait, TypeOK, Local, LoopType
<1>9. CASE EpollTimeout \/ EpollInterrupted
  BY <1>9, <1>b DEF EpollTimeout, EpollInterrupted, TypeOK, Local
<1>10. CASE IntrDrain
  BY <1>10, LoopEffects DEF IntrDrain, TypeOK, Local
<1>11. CASE IntrAck
  BY <1>11, LoopEffects DEF IntrAck, AckedState, TypeOK, Local
<1>12. ASSUME NEW f \in Fds, HandleEvent(f) PROVE Typed'
  <2>1. /\ flags' \in [Fds -> SUBSET Flag] /\ ready' \in [Fds -> Mask]
        /\ epoll' \in [Fds -> {None} \cup SUBSET Events] /\ mod_list' \in Seq(Fds)
    BY <1>12, LoopEffects, ListTyped DEF HandleEvent, Unregister, FlagsWhenOver, Flag, TypeOK
  <2>2. QED
    BY <1>12, <2>1, LoopEffects DEF HandleEvent, TypeOK, Local
<1>13. CASE EventsDone
  BY <1>13, <1>b DEF EventsDone, TypeOK, Local
<1>14. CASE ModDequeue
  <2>1. Head(mod_list) \in Fds /\ Tail(mod_list) \in Seq(Fds)
    BY <1>14, ListTyped DEF ModDequeue
  <2>2. flags' \in [Fds -> SUBSET Flag] /\ mod_list' \in Seq(Fds)
    BY <1>14, <2>1 DEF ModDequeue, TypeOK
  <2>3. QED
    BY <1>14, <2>1, <2>2, LoopEffects DEF ModDequeue, TypeOK, Local
<1>15. CASE ModsDone
  BY <1>15, <1>b DEF ModsDone, TypeOK, Local
<1>16. CASE ModComplete
  <2>1. queued' \in SUBSET Task
    BY <1>16 DEF ModComplete, Local, Task, TypeOK
  <2>2. /\ th' \in [Thread -> ThreadType]
        /\ \A u \in Thread : th'[u].pc = "enqueue" => th'[u].f \in Fds
    BY <1>16, <1>a, <1>c, ThreadPlaces DEF ModComplete
  <2>3. QED
    BY <1>16, <1>b, <2>1, <2>2 DEF ModComplete, TypeOK, Local, ThreadType
<1>17. CASE ModCancel
  <2>1. loop.task \in Fds
    BY <1>17 DEF ModCancel, Local
  <2>2. /\ flags' \in [Fds -> SUBSET Flag] /\ ready' \in [Fds -> Mask]
        /\ epoll' \in [Fds -> {None} \cup SUBSET Events] /\ mod_list' \in Seq(Fds)
    BY <1>17, <2>1, ListTyped DEF ModCancel, Unregister, FlagsWhenOver, Flag, Mask, TypeOK
  <2>3. QED
    BY <1>17, <1>b, <2>2 DEF ModCancel, TypeOK, Local
<1>18. CASE ModRegister
  <2>1. loop.task \in Fds /\ loop.requested \in SUBSET Events
    BY <1>18 DEF ModRegister, Local, LoopType
  <2>2. /\ flags' \in [Fds -> SUBSET Flag]
        /\ epoll' \in [Fds -> {None} \cup SUBSET Events]
    BY <1>18, <2>1 DEF ModRegister, FlagsRegistered, Flag, TypeOK
  <2>3. QED
    BY <1>18, <1>b, <2>2 DEF ModRegister, TypeOK, Local
<1>19. CASE ModFail
  <2>1. loop.task \in Fds
    BY <1>19 DEF ModFail, Local
  <2>2. /\ flags' \in [Fds -> SUBSET Flag] /\ requested' \in [Fds -> SUBSET Events]
        /\ err' \in [Fds -> BOOLEAN] /\ mod_list' \in Seq(Fds)
    BY <1>19, <2>1, ListTyped DEF ModFail, Flag, TypeOK
  <2>3. QED
    BY <1>19, <1>b, <2>2 DEF ModFail, TypeOK, Local
<1>20. ASSUME NEW j \in Jobs, TimerExpires(j) PROVE Typed'
  <2>1. queued' \in SUBSET Task
    BY <1>20 DEF TimerExpires, Task, TypeOK
  <2>2. QED
    BY <1>20, <1>a, <1>c, <2>1, ThreadPlaces DEF TimerExpires, TypeOK, Local, ThreadType
<1>21. CASE TimersDone \/ TaskReturn \/ RunDone
  BY <1>21, <1>b DEF TimersDone, TaskReturn, RunDone, TypeOK, Local
<1>22. ASSUME NEW k \in Task, Started(k)
       PROVE  /\ queued' \in SUBSET Task
              /\ wanted' \in [Fds -> BOOLEAN] /\ cancelled' \in [Fds -> BOOLEAN]
  BY <1>22 DEF Started, TypeOK
<1>23. ASSUME NEW k \in Task, RunTask(k) PROVE Typed'
  BY <1>23, <1>22, LoopEffects DEF RunTask, TypeOK, Local
<1>24. ASSUME NEW k \in Task, WorkerTask(k) PROVE Typed'
  BY <1>24, <1>22 DEF WorkerTask, TypeOK, Local
<1>25. ASSUME NEW f \in Fds, LevelChange(f) PROVE Typed'
  BY <1>25 DEF LevelChange, TypeOK, Local
<1>26. CASE UNCHANGED vars
  BY <1>26 DEF vars, TypeOK, Local
<1>27. QED
  BY <1>1, <1>2, <1>3, <1>4, <1>5, <1>6, <1>7, <1>8, <1>9, <1>10, <1>11, <1>12, <1>13,
     <1>14, <1>15, <1>16, <1>17, <1>18, <1>19, <1>20, <1>21, <1>23, <1>24, <1>25, <1>26
     DEF Next, ThreadStep, LoopStep

\* The state of the queue is well formed.
THEOREM TypeCorrect == Spec => []Typed
<1>1. Init => Typed
  <2> SUFFICES ASSUME Init PROVE Typed
    OBVIOUS
  <2>1. loop \in LoopType /\ loop.pc = "wait" /\ DOMAIN loop.evts = {}
    BY LoopAtTyped DEF Init
  <2>2. th \in [Thread -> ThreadType] /\ \A t \in Thread : th[t].pc = "out"
    BY ThreadPlaces DEF Init
  <2>3. mod_list \in Seq(Fds) /\ queued \in SUBSET Task
    BY DEF Init
  <2>4. QED
    BY <2>1, <2>2, <2>3 DEF Init, Typed, TypeOK, Local, ThreadType, Mask
<1>2. QED
  BY <1>1, TypeStep, PTL DEF Spec

---------------------------------------------------------------------------
(* The objects and their waits *)

\* ioq_fd_wait() is not called with the empty set.
NonemptyWaits == {} \notin WaitSets

Object(f) == OnePlace(f) /\ Registered(f) /\ Reasoned(f) /\ Entering(f)

\* What a thread that leaves a function or goes on to notify does not change.
LEMMA ThreadMoved ==
  ASSUME Typed, NEW t \in Thread, NEW p \in {Out, At("notify", None), At("write", None)},
         th' = [th EXCEPT ![t] = p]
  PROVE  \A u \in Thread, f \in Fds :
           th'[u] = At("enqueue", f) <=> u /= t /\ th[u] = At("enqueue", f)
<1>1. p.pc /= "enqueue"
  BY ThreadPlaces
<1>2. \A f \in Fds : p /= At("enqueue", f)
  BY <1>1, ThreadPlaces
<1>3. QED
  BY <1>2 DEF Typed, TypeOK

\* A step that does not touch what is known about g.
LEMMA ObjectFrame ==
  ASSUME NEW g \in Fds, Object(g),
         flags'[g] = flags[g], wanted'[g] = wanted[g], requested'[g] = requested[g],
         cancelled'[g] = cancelled[g], err'[g] = err[g], epoll'[g] = epoll[g],
         g \in queued' <=> g \in queued,
         InLoop(g)' <=> InLoop(g),
         Held(g)' => Held(g) /\ loop'.flags = loop.flags /\ loop'.requested = loop.requested,
         g \in DOMAIN loop'.evts => g \in DOMAIN loop.evts \/ epoll[g] /= None,
         \A t \in Thread : th'[t] = At("enqueue", g) => th[t] = At("enqueue", g)
  PROVE  Object(g)'
<1> USE DEF Object
<1>1. OnePlace(g)'
  BY DEF OnePlace, Waiting, Listed
<1>2. Registered(g)'
  BY DEF Registered, Waiting
<1>3. Reasoned(g)'
  BY DEF Reasoned, Waiting
<1>4. Entering(g)'
  BY DEF Entering
<1>5. QED
  BY <1>1, <1>2, <1>3, <1>4

\* The step into ioq_fd_wait(): a new wait for an object that is nowhere.
LEMMA ObjectFdWait ==
  ASSUME NonemptyWaits, Typed, ObjectInv, NEW t \in Thread, NEW f \in Fds,
         NEW set \in WaitSets, FdWait(t, f, set)
  PROVE  ObjectInv'
<1>1. set /= {} /\ th' = [th EXCEPT ![t] = At("enqueue", f)] /\ UNCHANGED queued
  BY DEF FdWait, NonemptyWaits
<1>2. ~Waiting(f) /\ ~Listed(f) /\ ~InLoop(f) /\ f \notin queued
  BY DEF FdWait, ObjectInv, OnePlace
<1>3. "EPOLL" \notin flags[f] /\ epoll[f] = None /\ f \notin DOMAIN loop.evts /\ ~Held(f)
  BY <1>2 DEF ObjectInv, Registered, InLoop, Waiting
<1>4. \A u \in Thread : th[u] /= At("enqueue", f)
  BY <1>2 DEF ObjectInv, Entering, Waiting
<1>5. /\ flags'[f] = {"WAITING"} /\ requested'[f] = set /\ wanted'[f]
      /\ UNCHANGED <<epoll, loop, cancelled>>
  BY DEF FdWait, Typed, TypeOK
<1>6. Object(f)'
  <2>1. OnePlace(f)'
    BY <1>1, <1>2, <1>3, <1>5 DEF OnePlace, Waiting, Listed, InLoop, Held
  <2>2. Registered(f)'
    BY <1>3, <1>5 DEF Registered, Held
  <2>3. Reasoned(f)'
    BY <1>1, <1>3, <1>5 DEF Reasoned, Held
  <2>4. Entering(f)'
    BY <1>1, <1>3, <1>4, <1>5 DEF Entering, Held, Typed, TypeOK
  <2>5. QED
    BY <2>1, <2>2, <2>3, <2>4 DEF Object
<1>7. ASSUME NEW g \in Fds, g /= f PROVE Object(g)'
  <2>1. \A u \in Thread : th'[u] = At("enqueue", g) => th[u] = At("enqueue", g)
    BY <1>1, <1>7, ThreadPlaces DEF Typed, TypeOK
  <2>2. /\ flags'[g] = flags[g] /\ wanted'[g] = wanted[g] /\ requested'[g] = requested[g]
        /\ err'[g] = err[g]
    BY <1>7 DEF FdWait, Typed, TypeOK
  <2>3. InLoop(g)' <=> InLoop(g)
    BY <1>5 DEF InLoop, Held
  <2>4. Object(g)
    BY DEF ObjectInv, Object
  <2>5. QED
    BY <1>1, <1>5, <2>1, <2>2, <2>3, <2>4, ObjectFrame DEF Held
<1>8. QED
  BY <1>6, <1>7 DEF ObjectInv, Object

\* A step that only puts f into the list, while its wait goes on.
LEMMA ObjectEnqueued ==
  ASSUME Typed, ObjectInv, NEW f \in Fds, Waiting(f), ~Held(f) \/ loop'.pc = "mods",
         flags' = [flags EXCEPT ![f] = @ \cup {"MOD_LIST"}],
         \A u \in Thread, g \in Fds :
           th'[u] = At("enqueue", g) => g /= f /\ th[u] = At("enqueue", g),
         \A g \in Fds : g /= f => requested'[g] = requested[g] /\ err'[g] = err[g],
         requested'[f] = {} => cancelled'[f] \/ err'[f],
         \A g \in Fds : g /= f => cancelled'[g] = cancelled[g],
         cancelled[f] => cancelled'[f], err[f] => err'[f],
         UNCHANGED <<epoll, queued, wanted>>,
         UNCHANGED loop \/ (loop'.pc = "mods" /\ Held(f) /\ DOMAIN loop'.evts = {})
  PROVE  ObjectInv'
<1>1. flags'[f] = flags[f] \cup {"MOD_LIST"} /\ \A g \in Fds : g /= f => flags'[g] = flags[g]
  BY DEF Typed, TypeOK
<1>2. \A g \in Fds : Held(g)' => Held(g) /\ loop' = loop
  BY DEF Held
<1>3. ~InLoop(f)
  BY DEF ObjectInv, OnePlace
<1>4. ASSUME NEW g \in Fds PROVE InLoop(g)' <=> InLoop(g)
  BY <1>3 DEF InLoop, Held
<1>5. Object(f)'
  <2>1. OnePlace(f)'
    BY <1>1, <1>3, <1>4 DEF OnePlace, Waiting, Listed, ObjectInv
  <2>2. Registered(f)'
    BY <1>1, <1>2 DEF Registered, Waiting, ObjectInv
  <2>3. Reasoned(f)'
    BY <1>1, <1>2 DEF Reasoned, Waiting, ObjectInv
  <2>4. Entering(f)'
    BY DEF Entering
  <2>5. QED
    BY <2>1, <2>2, <2>3, <2>4 DEF Object
<1>6. ASSUME NEW g \in Fds, g /= f PROVE Object(g)'
  <2>1. Object(g)
    BY DEF ObjectInv, Object
  <2>2. QED
    BY <1>1, <1>2, <1>4, <1>6, <2>1, ObjectFrame
<1>7. QED
  BY <1>5, <1>6 DEF ObjectInv, Object

\* A step that ends f's wait: an event, or dispatch_mods() with an empty set.
LEMMA ObjectOver ==
  ASSUME Typed, ObjectInv, NEW f \in Fds, Waiting(f),
         flags' = [flags EXCEPT ![f] = FlagsWhenOver(f)],
         epoll'[f] = None, \A g \in Fds : g /= f => epoll'[g] = epoll[g],
         UNCHANGED <<requested, err, queued, wanted, cancelled, th>>,
         loop'.pc /= "mod", ~Held(f) => loop.pc /= "mod",
         DOMAIN loop'.evts \subseteq DOMAIN loop.evts \ {f},
         \A u \in Thread : th[u] /= At("enqueue", f)
  PROVE  ObjectInv'
<1>1. /\ flags'[f] = (flags[f] \ {"EPOLL", "WAITING"}) \cup {"MOD_LIST"}
      /\ \A g \in Fds : g /= f => flags'[g] = flags[g]
  BY DEF Typed, TypeOK, FlagsWhenOver
<1>2. \A g \in Fds : ~Held(g)' /\ ~InLoop(g)'
  BY DEF Held, InLoop
<1>3. \A g \in Fds : ~InLoop(g)
  BY DEF ObjectInv, OnePlace, InLoop, Held
<1>4. Object(f)'
  <2>1. OnePlace(f)'
    BY <1>1, <1>2, <1>3 DEF OnePlace, Waiting, Listed, ObjectInv
  <2>2. Registered(f)'
    BY <1>1, <1>2 DEF Registered
  <2>3. Reasoned(f)'
    BY <1>1, <1>2 DEF Reasoned, Waiting
  <2>4. Entering(f)'
    BY DEF Entering
  <2>5. QED
    BY <2>1, <2>2, <2>3, <2>4 DEF Object
<1>5. ASSUME NEW g \in Fds, g /= f PROVE Object(g)'
  <2>1. Object(g)
    BY DEF ObjectInv, Object
  <2>2. QED
    BY <1>1, <1>2, <1>3, <1>5, <2>1, ObjectFrame
<1>6. QED
  BY <1>4, <1>5 DEF ObjectInv, Object

\* A step that concerns no object, or only the loop between two objects.
LEMMA ObjectQuiet ==
  ASSUME Typed, ObjectInv, UNCHANGED <<flags, requested, err, epoll, wanted, cancelled>>,
         \A g \in Fds : g \in queued' <=> g \in queued,
         \/ UNCHANGED loop
         \/ /\ loop.pc /= "mod" /\ loop'.pc /= "mod"
            /\ \A g \in DOMAIN loop'.evts : g \in DOMAIN loop.evts \/ epoll[g] /= None,
         \A t \in Thread, g \in Fds : th'[t] = At("enqueue", g) => th[t] = At("enqueue", g)
  PROVE  ObjectInv'
<1> SUFFICES ASSUME NEW g \in Fds PROVE Object(g)'
  BY DEF ObjectInv, Object
<1>1. Object(g)
  BY DEF ObjectInv, Object
<1>2. /\ InLoop(g)' <=> InLoop(g)
      /\ Held(g)' => Held(g) /\ loop' = loop
  BY DEF InLoop, Held
<1>3. QED
  BY <1>1, <1>2, ObjectFrame

\* mod_dequeue(): the object is in the loop's hands.
LEMMA ObjectDequeue ==
  ASSUME Typed, ObjectInv, ModListMatchesFlags, ModDequeue
  PROVE  ObjectInv'
<1>0. PICK f \in Fds : f = Head(mod_list)
  BY ListTyped DEF ModDequeue, Typed
<1>1. f \in Range(mod_list)
  BY <1>0, HeadInRange DEF ModDequeue, Typed, TypeOK
<1>2. "MOD_LIST" \in flags[f]
  BY <1>1 DEF ModListMatchesFlags
<1>3. /\ loop'.pc = "mod" /\ loop'.task = f /\ DOMAIN loop'.evts = {}
      /\ loop'.flags = flags[f] \ {"MOD_LIST"} /\ loop'.requested = requested[f]
      /\ loop.pc = "mods"
  BY <1>0, LoopEffects DEF Typed, ModDequeue
<1>4. flags' = [flags EXCEPT ![f] = @ \ {"MOD_LIST"}]
      /\ UNCHANGED <<requested, err, epoll, queued, th, wanted, cancelled>>
  BY <1>0 DEF ModDequeue, history
<1>5. flags'[f] = flags[f] \ {"MOD_LIST"} /\ \A g \in Fds : g /= f => flags'[g] = flags[g]
  BY <1>1, <1>4 DEF Typed, TypeOK
<1>6. /\ \A g \in Fds : ~Held(g) /\ ~InLoop(g)
      /\ Held(f)' /\ (InLoop(f)' <=> ~Waiting(f))
      /\ \A g \in Fds : g /= f => ~Held(g)' /\ ~InLoop(g)'
  BY <1>3 DEF Held, InLoop, Waiting
<1>7. \A u \in Thread : th[u] /= At("enqueue", f)
  BY <1>1, <1>2 DEF ObjectInv, Entering
<1>8. Object(f)'
  <2>1. OnePlace(f)'
    BY <1>1, <1>2, <1>4, <1>5, <1>6 DEF ObjectInv, OnePlace, Waiting, Listed
  <2>2. Registered(f)'
    BY <1>1, <1>3, <1>4, <1>5 DEF ObjectInv, Registered, Waiting
  <2>3. Reasoned(f)'
    BY <1>1, <1>3, <1>4, <1>5 DEF ObjectInv, Reasoned, Waiting
  <2>4. Entering(f)'
    BY <1>4, <1>7 DEF Entering
  <2>5. QED
    BY <2>1, <2>2, <2>3, <2>4 DEF Object
<1>9. ASSUME NEW g \in Fds, g /= f PROVE Object(g)'
  <2>1. Object(g)
    BY DEF ObjectInv, Object
  <2>2. QED
    BY <1>3, <1>4, <1>5, <1>6, <1>9, <2>1, ObjectFrame
<1>10. QED
  BY <1>8, <1>9 DEF ObjectInv, Object

\* dispatch_mods() submits the callback.
LEMMA ObjectComplete ==
  ASSUME Typed, ObjectInv, ModComplete
  PROVE  ObjectInv'
<1>0. PICK f \in Fds : f = loop.task
  BY DEF ModComplete, Typed, Local
<1>1. InLoop(f) /\ Held(f)
  BY <1>0 DEF ModComplete, InLoop, Held
<1>2. loop'.pc = "mods" /\ DOMAIN loop'.evts = {}
  BY LoopAtTyped DEF ModComplete
<1>3. \A u \in Thread, g \in Fds : th'[u] = At("enqueue", g) => th[u] = At("enqueue", g)
  BY ThreadMoved, ThreadPlaces DEF ModComplete, Thread
<1>4. queued' = queued \cup {f}
      /\ UNCHANGED <<flags, requested, err, epoll, wanted, cancelled>>
  BY <1>0 DEF ModComplete, fdVars, history
<1>5. \A g \in Fds : ~Held(g)' /\ ~InLoop(g)'
  BY <1>2 DEF Held, InLoop
<1>6. Object(f)'
  <2>1. OnePlace(f)'
    BY <1>1, <1>4, <1>5 DEF ObjectInv, OnePlace, Waiting, Listed
  <2>2. Registered(f)'
    BY <1>1, <1>2, <1>4, <1>5 DEF ObjectInv, Registered, Waiting
  <2>3. Reasoned(f)'
    BY <1>1, <1>4, <1>5 DEF ObjectInv, Reasoned, Waiting
  <2>4. Entering(f)'
    BY <1>1, <1>3, <1>4, <1>5 DEF ObjectInv, Entering
  <2>5. QED
    BY <2>1, <2>2, <2>3, <2>4 DEF Object
<1>7. ASSUME NEW g \in Fds, g /= f PROVE Object(g)'
  <2>1. Object(g)
    BY DEF ObjectInv, Object
  <2>2. ~InLoop(g)
    BY <1>0, <1>7 DEF InLoop, Held
  <2>3. QED
    BY <1>2, <1>3, <1>4, <1>5, <1>7, <2>1, <2>2, ObjectFrame
<1>8. QED
  BY <1>6, <1>7 DEF ObjectInv, Object

\* dispatch_mods() registers the object.
LEMMA ObjectRegister ==
  ASSUME Typed, ObjectInv, ModRegister
  PROVE  ObjectInv'
<1>0. PICK f \in Fds : f = loop.task
  BY DEF ModRegister, Typed, Local
<1>1. Held(f) /\ "WAITING" \in loop.flags /\ loop.requested \in SUBSET Events
  BY <1>0 DEF ModRegister, Typed, Local, Held, LoopType
<1>2. Waiting(f) /\ ~InLoop(f)
  BY <1>1 DEF ObjectInv, Registered, Waiting, InLoop
<1>3. loop'.pc = "mods" /\ DOMAIN loop'.evts = {}
  BY LoopAtTyped DEF ModRegister
<1>4. /\ flags'[f] = flags[f] \cup {"EPOLL"} /\ epoll'[f] = loop.requested
      /\ \A g \in Fds : g /= f => flags'[g] = flags[g] /\ epoll'[g] = epoll[g]
      /\ UNCHANGED <<requested, err, queued, th, wanted, cancelled>>
  BY <1>0, <1>1 DEF ModRegister, FlagsRegistered, Typed, TypeOK, history
<1>5. epoll'[f] /= None
  BY <1>1, <1>4, IoqAssumption DEF Mask
<1>6. \A g \in Fds : ~Held(g)' /\ ~InLoop(g)'
  BY <1>3 DEF Held, InLoop
<1>7. Object(f)'
  <2>1. OnePlace(f)'
    BY <1>1, <1>2, <1>4, <1>6 DEF ObjectInv, OnePlace, Waiting, Listed
  <2>2. Registered(f)'
    BY <1>2, <1>3, <1>4, <1>5, <1>6 DEF Registered, Waiting
  <2>3. Reasoned(f)'
    BY <1>1, <1>2, <1>4, <1>6 DEF ObjectInv, Reasoned, Waiting
  <2>4. Entering(f)'
    BY <1>1, <1>4 DEF ObjectInv, Entering
  <2>5. QED
    BY <2>1, <2>2, <2>3, <2>4 DEF Object
<1>8. ASSUME NEW g \in Fds, g /= f PROVE Object(g)'
  <2>1. Object(g)
    BY DEF ObjectInv, Object
  <2>2. ~InLoop(g)
    BY <1>0, <1>8 DEF InLoop, Held
  <2>3. QED
    BY <1>3, <1>4, <1>6, <1>8, <2>1, <2>2, ObjectFrame
<1>9. QED
  BY <1>7, <1>8 DEF ObjectInv, Object

\* A callback begins: for a wait object its wait is over.
LEMMA ObjectStarted ==
  ASSUME Typed, ObjectInv, NEW k \in Task, k \in queued, Started(k),
         UNCHANGED <<flags, requested, err, epoll, th>>,
         UNCHANGED loop \/ (loop.pc /= "mod" /\ loop'.pc = "task" /\ DOMAIN loop'.evts = {})
  PROVE  ObjectInv'
<1> SUFFICES ASSUME NEW g \in Fds PROVE Object(g)'
  BY DEF ObjectInv, Object
<1>1. Object(g)
  BY DEF ObjectInv, Object
<1>2. /\ InLoop(g)' <=> InLoop(g)
      /\ Held(g)' => Held(g) /\ loop' = loop
      /\ g \in DOMAIN loop'.evts => g \in DOMAIN loop.evts
  BY DEF InLoop, Held
<1>3. CASE g /= k
  <2>1. wanted'[g] = wanted[g] /\ cancelled'[g] = cancelled[g]
    BY <1>3 DEF Started, Typed, TypeOK
  <2>2. g \in queued' <=> g \in queued
    BY <1>3 DEF Started
  <2>3. QED
    BY <1>1, <1>2, <2>1, <2>2, ObjectFrame
<1>4. CASE g = k
  <2>1. ~Waiting(g) /\ ~Listed(g) /\ ~InLoop(g)
    BY <1>1, <1>4 DEF Object, OnePlace
  <2>2. ~wanted'[g] /\ g \notin queued'
    BY <1>4 DEF Started
  <2>3. OnePlace(g)'
    BY <1>2, <2>1, <2>2 DEF OnePlace, Waiting, Listed
  <2>4. Registered(g)'
    BY <1>1, <1>2 DEF Object, Registered, Waiting
  <2>5. Reasoned(g)'
    BY <2>1 DEF Reasoned, Waiting
  <2>6. Entering(g)'
    BY <1>1, <1>2 DEF Object, Entering
  <2>7. QED
    BY <2>3, <2>4, <2>5, <2>6 DEF Object
<1>5. QED
  BY <1>3, <1>4

\* Every step keeps the objects consistent with the kernel, the list, the loop
\* and the run queue.
LEMMA ObjectStep ==
  NonemptyWaits /\ Typed /\ ModListMatchesFlags /\ ObjectInv /\ [Next]_vars => ObjectInv'
<1> SUFFICES ASSUME NonemptyWaits, Typed, ModListMatchesFlags, ObjectInv, [Next]_vars
             PROVE  ObjectInv'
  OBVIOUS
<1> USE DEF qVars, fdVars, history
<1>c. Loop \in Thread
  BY DEF Thread
<1>d. ASSUME NEW p \in {"wait", "drain", "mods", "timers", "run"}, loop' = LoopAt(p)
      PROVE  loop'.pc = p /\ DOMAIN loop'.evts = {}
  BY <1>d, LoopAtTyped
<1>1. ASSUME NEW t \in Thread, FdWaitEnqueue(t) PROVE ObjectInv'
  <2>1. PICK f \in Fds : f = th[t].f
    BY <1>1 DEF FdWaitEnqueue, Typed, Local
  <2>2. th[t] = At("enqueue", f)
    BY <1>1, <2>1 DEF FdWaitEnqueue, At, Typed, TypeOK
  <2>3. Waiting(f) /\ ~Held(f)
    BY <2>2 DEF ObjectInv, Entering, Waiting
  <2>4. \A u \in Thread, g \in Fds :
          th'[u] = At("enqueue", g) <=> u /= t /\ th[u] = At("enqueue", g)
    <3>1. \E p \in {Out, At("notify", None)} : th' = [th EXCEPT ![t] = p]
      BY <1>1 DEF FdWaitEnqueue
    <3>2. QED
      BY <3>1, ThreadMoved
  <2>5. \A u \in Thread, g \in Fds :
          th'[u] = At("enqueue", g) => g /= f /\ th[u] = At("enqueue", g)
    BY <2>2, <2>4 DEF ObjectInv, Entering
  <2>6. requested[f] = {} => cancelled[f] \/ err[f]
    BY <2>3 DEF ObjectInv, Reasoned
  <2>7. /\ flags' = [flags EXCEPT ![f] = @ \cup {"MOD_LIST"}]
        /\ UNCHANGED <<requested, err, epoll, queued, loop, wanted, cancelled>>
    BY <1>1, <2>1 DEF FdWaitEnqueue
  <2>8. QED
    BY <2>3, <2>5, <2>6, <2>7, ObjectEnqueued
<1>2. ASSUME NEW t \in Thread, Notify(t) PROVE ObjectInv'
  <2>1. \E p \in {Out, At("write", None)} : th' = [th EXCEPT ![t] = p]
    BY <1>2 DEF Notify
  <2>2. \A u \in Thread, g \in Fds : th'[u] = At("enqueue", g) => th[u] = At("enqueue", g)
    BY <2>1, ThreadMoved
  <2>3. QED
    BY <1>2, <2>2, ObjectQuiet DEF Notify
<1>3. ASSUME NEW t \in Thread, Write(t) PROVE ObjectInv'
  BY <1>3, ThreadMoved, ObjectQuiet DEF Write
<1>4. ASSUME NEW t \in Thread, UserNotify(t) PROVE ObjectInv'
  BY <1>4, ThreadMoved, ObjectQuiet DEF UserNotify
<1>5. ASSUME NEW t \in Thread, NEW j \in Jobs, ExecJob(t, j) PROVE ObjectInv'
  <2>1. \A g \in Fds : g \in queued' <=> g \in queued
    BY <1>5, IoqAssumption DEF ExecJob
  <2>2. \A u \in Thread, g \in Fds : th'[u] = At("enqueue", g) => th[u] = At("enqueue", g)
    BY <1>5, ThreadMoved, ThreadPlaces DEF ExecJob
  <2>3. QED
    BY <1>5, <2>1, <2>2, ObjectQuiet DEF ExecJob
<1>6. ASSUME NEW t \in Thread, NEW f \in Fds, NEW set \in WaitSets, FdWait(t, f, set)
      PROVE  ObjectInv'
  BY <1>6, ObjectFdWait
<1>7. ASSUME NEW t \in Thread, NEW f \in Fds, NEW set \in RewaitSets, FdRewait(t, f, set)
      PROVE  ObjectInv'
  <2>1. \A u \in Thread, g \in Fds :
          th'[u] = At("enqueue", g) => g /= f /\ th[u] = At("enqueue", g)
    <3>1. \E p \in {Out, At("notify", None)} : th' = [th EXCEPT ![t] = p]
      BY <1>7 DEF FdRewait
    <3>2. \A u \in Thread : th[u] /= At("enqueue", f)
      BY <1>7 DEF FdRewait
    <3>3. QED
      BY <3>1, <3>2, ThreadMoved
  <2>2. /\ flags'[f] = flags[f] \cup {"MOD_LIST"}
        /\ \A g \in Fds : g /= f => flags'[g] = flags[g] /\ requested'[g] = requested[g]
                                    /\ cancelled'[g] = cancelled[g]
        /\ requested'[f] = set
        /\ cancelled'[f] = (cancelled[f] \/ set = {})
        /\ UNCHANGED <<err, epoll, queued, loop, wanted>>
    BY <1>7 DEF FdRewait, Typed, TypeOK
  <2>3. Waiting(f)
    BY <1>7 DEF FdRewait, StillWaiting, Waiting
  <2>4. \A g \in Fds : (InLoop(g)' <=> InLoop(g)) /\ (Held(g)' <=> Held(g))
    BY <2>2 DEF InLoop, Held
  <2>5. Object(f)'
    <3>1. OnePlace(f)'
      BY <2>2, <2>3, <2>4 DEF ObjectInv, OnePlace, Waiting, Listed
    <3>2. Registered(f)'
      BY <2>2, <2>3, <2>4 DEF ObjectInv, Registered, Waiting
    <3>3. Reasoned(f)'
      BY <2>2, <2>3, <2>4 DEF ObjectInv, Reasoned, Waiting
    <3>4. Entering(f)'
      BY <2>1 DEF Entering
    <3>5. QED
      BY <3>1, <3>2, <3>3, <3>4 DEF Object
  <2>6. ASSUME NEW g \in Fds, g /= f PROVE Object(g)'
    <3>1. Object(g)
      BY DEF ObjectInv, Object
    <3>2. QED
      BY <2>1, <2>2, <2>4, <2>6, <3>1, ObjectFrame
  <2>7. QED
    BY <2>5, <2>6 DEF ObjectInv, Object
<1>8. CASE EpollWait
  <2>1. loop.pc /= "mod" /\ loop'.pc /= "mod" /\ \A g \in DOMAIN loop'.evts : epoll[g] /= None
    BY <1>8, LoopEffects DEF EpollWait, Typed
  <2>2. QED
    BY <1>8, <2>1, ObjectQuiet DEF EpollWait
<1>9. CASE EpollTimeout \/ EpollInterrupted
  BY <1>9, <1>d, ObjectQuiet DEF EpollTimeout, EpollInterrupted
<1>10. CASE IntrDrain
  BY <1>10, LoopEffects, ObjectQuiet DEF IntrDrain, Typed
<1>11. CASE IntrAck
  BY <1>11, LoopEffects, ObjectQuiet DEF IntrAck, Typed
<1>12. ASSUME NEW f \in Fds, HandleEvent(f) PROVE ObjectInv'
  <2>1. "EPOLL" \in flags[f] /\ Waiting(f)
    BY <1>12 DEF HandleEvent, ObjectInv, Registered
  <2>2. \A u \in Thread : th[u] /= At("enqueue", f)
    BY <2>1 DEF ObjectInv, Entering
  <2>3. /\ flags' = [flags EXCEPT ![f] = FlagsWhenOver(f)]
        /\ epoll'[f] = None /\ \A g \in Fds : g /= f => epoll'[g] = epoll[g]
        /\ UNCHANGED <<requested, err, queued, wanted, cancelled, th>>
    BY <1>12 DEF HandleEvent, Unregister, Typed, TypeOK
  <2>4. /\ loop'.pc /= "mod" /\ loop.pc /= "mod"
        /\ DOMAIN loop'.evts = DOMAIN loop.evts \ {f}
    BY <1>12, LoopEffects DEF HandleEvent, Typed
  <2>5. QED
    BY <2>1, <2>2, <2>3, <2>4, ObjectOver
<1>13. CASE EventsDone
  BY <1>13, <1>d, ObjectQuiet DEF EventsDone
<1>14. CASE ModDequeue
  BY <1>14, ObjectDequeue
<1>15. CASE ModsDone
  BY <1>15, <1>d, ObjectQuiet DEF ModsDone
<1>16. CASE ModComplete
  BY <1>16, ObjectComplete
<1>17. CASE ModCancel
  <2>1. PICK f \in Fds : f = loop.task
    BY <1>17 DEF ModCancel, Typed, Local
  <2>2. Held(f) /\ "WAITING" \in loop.flags /\ Waiting(f)
    BY <1>17, <2>1 DEF ModCancel, Held, ObjectInv, Registered, Waiting
  <2>3. \A u \in Thread : th[u] /= At("enqueue", f)
    BY <2>2 DEF ObjectInv, Entering
  <2>4. epoll'[f] = None /\ \A g \in Fds : g /= f => epoll'[g] = epoll[g]
    <3>1. CASE "EPOLL" \in loop.flags
      BY <1>17, <2>1, <3>1 DEF ModCancel, Unregister, Typed, TypeOK
    <3>2. CASE "EPOLL" \notin loop.flags
      <4>1. epoll[f] = None
        BY <2>2, <3>2 DEF ObjectInv, Registered
      <4>2. QED
        BY <1>17, <3>2, <4>1 DEF ModCancel
    <3>3. QED
      BY <3>1, <3>2
  <2>5. /\ flags' = [flags EXCEPT ![f] = FlagsWhenOver(f)]
        /\ UNCHANGED <<requested, err, queued, wanted, cancelled, th>>
    BY <1>17, <2>1 DEF ModCancel
  <2>6. loop'.pc = "mods" /\ DOMAIN loop'.evts = {}
    BY <1>17, <1>d DEF ModCancel
  <2>7. QED
    BY <2>2, <2>3, <2>4, <2>5, <2>6, ObjectOver
<1>18. CASE ModRegister
  BY <1>18, ObjectRegister
<1>19. CASE ModFail
  <2>1. PICK f \in Fds : f = loop.task
    BY <1>19 DEF ModFail, Typed, Local
  <2>2. Held(f) /\ "WAITING" \in loop.flags /\ Waiting(f)
    BY <1>19, <2>1 DEF ModFail, Held, ObjectInv, Registered, Waiting
  <2>3. \A u \in Thread, g \in Fds :
          th'[u] = At("enqueue", g) => g /= f /\ th[u] = At("enqueue", g)
    BY <1>19, <2>2 DEF ModFail, ObjectInv, Entering
  <2>4. loop'.pc = "mods" /\ DOMAIN loop'.evts = {}
    BY <1>19, <1>d DEF ModFail
  <2>5. /\ flags' = [flags EXCEPT ![f] = @ \cup {"MOD_LIST"}]
        /\ err'[f] /\ \A g \in Fds : g /= f => requested'[g] = requested[g] /\ err'[g] = err[g]
        /\ UNCHANGED <<epoll, queued, wanted, cancelled>>
    BY <1>19, <2>1 DEF ModFail, Typed, TypeOK
  <2>6. QED
    BY <2>2, <2>3, <2>4, <2>5, ObjectEnqueued
<1>20. ASSUME NEW j \in Jobs, TimerExpires(j) PROVE ObjectInv'
  <2>1. \A g \in Fds : g \in queued' <=> g \in queued
    BY <1>20, IoqAssumption DEF TimerExpires
  <2>2. \A u \in Thread, g \in Fds : th'[u] = At("enqueue", g) => th[u] = At("enqueue", g)
    BY <1>20, <1>c, ThreadMoved, ThreadPlaces DEF TimerExpires
  <2>3. QED
    BY <1>20, <2>1, <2>2, ObjectQuiet DEF TimerExpires
<1>21. CASE TimersDone \/ TaskReturn \/ RunDone
  BY <1>21, <1>d, ObjectQuiet DEF TimersDone, TaskReturn, RunDone
<1>22. ASSUME NEW k \in Task, RunTask(k) PROVE ObjectInv'
  <2>1. loop.pc /= "mod" /\ loop'.pc = "task" /\ DOMAIN loop'.evts = {}
    BY <1>22, LoopEffects DEF RunTask, Typed
  <2>2. QED
    BY <1>22, <2>1, ObjectStarted DEF RunTask
<1>23. ASSUME NEW k \in Task, WorkerTask(k) PROVE ObjectInv'
  BY <1>23, ObjectStarted DEF WorkerTask
<1>24. ASSUME NEW f \in Fds, LevelChange(f) PROVE ObjectInv'
  BY <1>24, ObjectQuiet DEF LevelChange
<1>25. CASE UNCHANGED vars
  BY <1>25, ObjectQuiet DEF vars
<1>26. QED
  BY <1>1, <1>2, <1>3, <1>4, <1>5, <1>6, <1>7, <1>8, <1>9, <1>10, <1>11, <1>12, <1>13,
     <1>14, <1>15, <1>16, <1>17, <1>18, <1>19, <1>20, <1>21, <1>22, <1>23, <1>24, <1>25
     DEF Next, ThreadStep, LoopStep

---------------------------------------------------------------------------
(* The list of modified objects *)

\* The two ways to say that no node is in the list twice agree.
LEMMA ListDistinct ==
  ASSUME TypeOK
  PROVE  Distinct(mod_list) <=>
           \A i, j \in DOMAIN mod_list : mod_list[i] = mod_list[j] => i = j
<1>1. DOMAIN mod_list = 1 .. Len(mod_list)
  BY DEF TypeOK
<1>2. QED
  BY <1>1 DEF Distinct

\* mod_enqueue_nolock() puts f into the list unless it is there.
LEMMA EnqueueEffect ==
  ASSUME TypeOK, ModListMatchesFlags, NEW f \in Fds
  PROVE  /\ Range(ModEnqueue(f)) = Range(mod_list) \cup {f}
         /\ Distinct(ModEnqueue(f))
         /\ ModEnqueue(f) /= <<>>
<1>1. Distinct(mod_list) /\ mod_list \in Seq(Fds)
  BY ListDistinct DEF ModListMatchesFlags, TypeOK
<1>2. CASE "MOD_LIST" \in flags[f]
  <2>1. f \in Range(mod_list)
    BY <1>2 DEF ModListMatchesFlags
  <2>2. mod_list /= <<>>
    BY <2>1 DEF Range
  <2>3. QED
    BY <1>1, <1>2, <2>1, <2>2 DEF ModEnqueue
<1>3. CASE "MOD_LIST" \notin flags[f]
  <2>1. f \notin Range(mod_list)
    BY <1>3 DEF ModListMatchesFlags
  <2>2. Append(mod_list, f) /= <<>>
    <3>1. f \in Range(Append(mod_list, f))
      BY <1>1, AppendNode
    <3>2. QED
      BY <3>1 DEF Range
  <2>3. QED
    BY <1>1, <1>3, <2>1, <2>2, AppendNode DEF ModEnqueue
<1>4. QED
  BY <1>2, <1>3

\* Every step keeps the list and the flag together.
LEMMA ListStep ==
  /\ Typed /\ Typed' /\ ObjectInv /\ ModListMatchesFlags /\ [Next]_vars
  => ModListMatchesFlags'
<1> SUFFICES ASSUME Typed, Typed', ObjectInv, ModListMatchesFlags, [Next]_vars
             PROVE  ModListMatchesFlags'
  OBVIOUS
<1> USE DEF qVars, fdVars, history
<1>a. ASSUME NEW f \in Fds, mod_list' = ModEnqueue(f), "MOD_LIST" \in flags'[f],
             \A g \in Fds : g /= f => flags'[g] = flags[g]
      PROVE  ModListMatchesFlags'
  <2>1. Range(mod_list') = Range(mod_list) \cup {f} /\ Distinct(mod_list')
    BY <1>a, EnqueueEffect DEF Typed
  <2>2. \A g \in Fds : g \in Range(mod_list') <=> "MOD_LIST" \in flags'[g]
    BY <1>a, <2>1 DEF ModListMatchesFlags
  <2>3. DOMAIN mod_list' = 1 .. Len(mod_list')
    BY DEF Typed, TypeOK
  <2>4. QED
    BY <2>1, <2>2, <2>3 DEF ModListMatchesFlags, Distinct
<1>b. ASSUME UNCHANGED mod_list,
             \A g \in Fds : "MOD_LIST" \in flags'[g] <=> "MOD_LIST" \in flags[g]
      PROVE  ModListMatchesFlags'
  BY <1>b DEF ModListMatchesFlags
<1>c. CASE UNCHANGED <<mod_list, flags>>
  BY <1>c, <1>b
<1>1. ASSUME NEW t \in Thread, FdWaitEnqueue(t) PROVE ModListMatchesFlags'
  BY <1>1, <1>a DEF FdWaitEnqueue, Typed, TypeOK, Local
<1>2. ASSUME NEW t \in Thread, Notify(t) \/ Write(t) \/ UserNotify(t) PROVE ModListMatchesFlags'
  BY <1>2, <1>c DEF Notify, Write, UserNotify
<1>3. ASSUME NEW t \in Thread, NEW j \in Jobs, ExecJob(t, j) PROVE ModListMatchesFlags'
  BY <1>3, <1>c DEF ExecJob
<1>4. ASSUME NEW t \in Thread, NEW f \in Fds, NEW set \in WaitSets, FdWait(t, f, set)
      PROVE  ModListMatchesFlags'
  <2>1. "MOD_LIST" \notin flags[f]
    BY <1>4 DEF FdWait, ObjectInv, OnePlace, Waiting, Listed
  <2>2. QED
    BY <1>4, <1>b, <2>1 DEF FdWait, Typed, TypeOK
<1>5. ASSUME NEW t \in Thread, NEW f \in Fds, NEW set \in RewaitSets, FdRewait(t, f, set)
      PROVE  ModListMatchesFlags'
  BY <1>5, <1>a DEF FdRewait, Typed, TypeOK
<1>6. CASE EpollWait \/ EpollTimeout \/ EpollInterrupted
  BY <1>6, <1>c DEF EpollWait, EpollTimeout, EpollInterrupted
<1>7. CASE IntrDrain \/ IntrAck \/ EventsDone \/ ModsDone \/ ModComplete
  BY <1>7, <1>c DEF IntrDrain, IntrAck, EventsDone, ModsDone, ModComplete
<1>8. ASSUME NEW f \in Fds, HandleEvent(f) PROVE ModListMatchesFlags'
  BY <1>8, <1>a DEF HandleEvent, FlagsWhenOver, Typed, TypeOK
<1>9. CASE ModDequeue
  <2>1. PICK f \in Fds : f = Head(mod_list)
    BY <1>9, ListTyped DEF ModDequeue, Typed
  <2>2. Distinct(mod_list) /\ mod_list \in Seq(Fds) /\ mod_list /= <<>>
    BY <1>9, ListDistinct DEF ModListMatchesFlags, Typed, TypeOK, ModDequeue
  <2>3. Range(mod_list') = Range(mod_list) \ {f} /\ Distinct(mod_list')
    BY <1>9, <2>1, <2>2, PopNode DEF ModDequeue
  <2>4. \A g \in Fds : g \in Range(mod_list') <=> "MOD_LIST" \in flags'[g]
    BY <1>9, <2>1, <2>3 DEF ModDequeue, ModListMatchesFlags, Typed, TypeOK
  <2>5. DOMAIN mod_list' = 1 .. Len(mod_list')
    BY DEF Typed, TypeOK
  <2>6. QED
    BY <2>3, <2>4, <2>5 DEF ModListMatchesFlags, Distinct
<1>10. CASE ModCancel
  BY <1>10, <1>a DEF ModCancel, FlagsWhenOver, Typed, TypeOK, Local
<1>11. CASE ModRegister
  <2>1. \A g \in Fds : "MOD_LIST" \in flags'[g] <=> "MOD_LIST" \in flags[g]
    BY <1>11 DEF ModRegister, FlagsRegistered, Typed, TypeOK, Local
  <2>2. QED
    BY <1>11, <1>b, <2>1 DEF ModRegister
<1>12. CASE ModFail
  BY <1>12, <1>a DEF ModFail, Typed, TypeOK, Local
<1>13. ASSUME NEW j \in Jobs, TimerExpires(j) PROVE ModListMatchesFlags'
  BY <1>13, <1>c DEF TimerExpires
<1>14. CASE TimersDone \/ TaskReturn \/ RunDone
  BY <1>14, <1>c DEF TimersDone, TaskReturn, RunDone
<1>15. ASSUME NEW k \in Task, RunTask(k) \/ WorkerTask(k) PROVE ModListMatchesFlags'
  BY <1>15, <1>c DEF RunTask, WorkerTask
<1>16. ASSUME NEW f \in Fds, LevelChange(f) PROVE ModListMatchesFlags'
  BY <1>16, <1>c DEF LevelChange
<1>17. CASE UNCHANGED vars
  BY <1>17, <1>c DEF vars
<1>18. QED
  BY <1>1, <1>2, <1>3, <1>4, <1>5, <1>6, <1>7, <1>8, <1>9, <1>10, <1>11, <1>12, <1>13,
     <1>14, <1>15, <1>16, <1>17
     DEF Next, ThreadStep, LoopStep

ListInv == ObjectInv /\ ModListMatchesFlags

\* The inductive invariant of the objects and the list holds.
LEMMA ListAlways == NonemptyWaits => (Spec => []ListInv)
<1> SUFFICES ASSUME NonemptyWaits PROVE Spec => []ListInv
  OBVIOUS
<1>1. Init => ListInv
  <2> SUFFICES ASSUME Init PROVE ListInv
    OBVIOUS
  <2>1. loop.pc = "wait" /\ DOMAIN loop.evts = {}
    BY LoopAtTyped DEF Init
  <2>2. \A t \in Thread, f \in Fds : th[t] /= At("enqueue", f)
    <3>1. \A t \in Thread : th[t].pc = "out"
      BY ThreadPlaces DEF Init
    <3>2. QED
      BY <3>1, ThreadPlaces
  <2>3. ASSUME NEW f \in Fds PROVE OnePlace(f) /\ Registered(f) /\ Reasoned(f) /\ Entering(f)
    BY <2>1, <2>2 DEF Init, OnePlace, Registered, Reasoned, Entering, Waiting, Listed,
                      InLoop, Held
  <2>4. ModListMatchesFlags
    BY DEF Init, ModListMatchesFlags, Range
  <2>5. QED
    BY <2>3, <2>4 DEF ListInv, ObjectInv
<1>2. Typed /\ Typed' /\ ListInv /\ [Next]_vars => ListInv'
  BY ObjectStep, ListStep DEF ListInv
<1>3. QED
  BY <1>1, <1>2, TypeCorrect, PTL DEF Spec

\* The list holds the objects that have the flag, none of them twice.
THEOREM ListIsFlags == NonemptyWaits => (Spec => []ModListMatchesFlags)
<1> SUFFICES ASSUME NonemptyWaits PROVE Spec => []ModListMatchesFlags
  OBVIOUS
<1>1. ListInv => ModListMatchesFlags
  BY DEF ListInv
<1>2. QED
  BY <1>1, ListAlways, PTL

\* Neither the kernel nor the events fetched from it ever refer to an object
\* whose wait is over, so that its owner may free it in the callback.
THEOREM NoDanglingPointer == NonemptyWaits => (Spec => []KernelPointersLive)
<1> SUFFICES ASSUME NonemptyWaits PROVE Spec => []KernelPointersLive
  OBVIOUS
<1>1. ListInv => KernelPointersLive
  BY DEF ListInv, ObjectInv, Registered, Waiting, KernelPointersLive
<1>2. QED
  BY <1>1, ListAlways, PTL

\* A wait that was requested ends in one submission of its callback.
THEOREM OneCallbackPerWait == NonemptyWaits => (Spec => []OneCallback)
<1> SUFFICES ASSUME NonemptyWaits PROVE Spec => []OneCallback
  OBVIOUS
<1>1. ListInv => OneCallback
  <2> SUFFICES ASSUME ListInv, NEW f \in Fds
               PROVE  Cardinality(Pending(f)) = IF wanted[f] THEN 1 ELSE 0
    BY DEF OneCallback
  <2>1. Listed(f) <=> "WAITING" \notin flags[f] /\ f \in Range(mod_list)
    BY DEF ListInv, ModListMatchesFlags, Listed
  <2>2. OnePlace(f)
    BY DEF ListInv, ObjectInv
  <2>3. CASE ~wanted[f]
    <3>1. Pending(f) = {}
      BY <2>1, <2>2, <2>3 DEF Pending, OnePlace, Waiting, InLoop, Held
    <3>2. QED
      BY <2>3, <3>1, FS_EmptySet
  <2>4. CASE wanted[f]
    <3>1. PICK x : Pending(f) = {x}
      <4>1. CASE Waiting(f)
        BY <2>1, <2>2, <4>1 DEF Pending, OnePlace, Waiting, InLoop, Held
      <4>2. CASE Listed(f)
        BY <2>1, <2>2, <4>2 DEF Pending, OnePlace, Listed, InLoop, Held
      <4>3. CASE InLoop(f)
        BY <2>1, <2>2, <4>3 DEF Pending, OnePlace, Waiting, InLoop, Held
      <4>4. CASE f \in queued
        BY <2>1, <2>2, <4>4 DEF Pending, OnePlace, Waiting, InLoop, Held
      <4>5. QED
        BY <2>2, <2>4, <4>1, <4>2, <4>3, <4>4 DEF OnePlace
    <3>2. Cardinality({x}) = 1
      BY FS_Singleton
    <3>3. QED
      BY <2>4, <3>1, <3>2
  <2>5. QED
    BY <2>3, <2>4
<1>2. QED
  BY <1>1, ListAlways, PTL

---------------------------------------------------------------------------
(* The wakeup pipe *)

Notifying == \E t \in Thread : th[t].pc \in {"notify", "write"}
Writing == \E t \in Thread : th[t].pc = "write"

\* From the moment dispatch_mods() has emptied the list the loop does not look
\* at it again before its next sleep.
LeftList == loop.pc \in {"timers", "run", "task", "wait"} /\ mod_list /= <<>>
LeftTasks == loop.pc = "wait" /\ queued /= {} /\ ~Background

WakeParts ==
  /\ intr_state = 1 => pipe \/ loop.pc = "ack" \/ Writing
  /\ LeftList \/ LeftTasks => pipe \/ Notifying

\* While dispatch_mods() handles an object, the loop is not inside ioq_notify().
LoopOut == loop.pc = "mod" => th[Loop] = Out

\* Every step preserves it.
LEMMA LoopOutStep == Typed /\ LoopOut /\ [Next]_vars => LoopOut'
<1> SUFFICES ASSUME Typed, LoopOut, [Next]_vars PROVE LoopOut'
  OBVIOUS
<1> USE DEF LoopOut
<1>a. ASSUME NEW t \in Thread, NEW p, th' = [th EXCEPT ![t] = p], UNCHANGED loop,
             t = Loop /\ loop.pc = "mod" => th[t].pc \in {"enqueue", "notify", "write"}
      PROVE  LoopOut'
  BY <1>a, ThreadPlaces DEF Typed, TypeOK
<1>b. ASSUME NEW p \in {"wait", "drain", "mods", "timers", "run"}, loop' = LoopAt(p)
      PROVE  LoopOut'
  BY <1>b, LoopAtTyped
<1>c. ASSUME UNCHANGED <<loop, th>> PROVE LoopOut'
  BY <1>c
<1>1. ASSUME NEW t \in Thread, ThreadStep(t) PROVE LoopOut'
  BY <1>1, <1>a DEF ThreadStep, FdWaitEnqueue, Notify, Write
<1>2. ASSUME NEW t \in Thread, MayCall(t), UNCHANGED loop, \E p : th' = [th EXCEPT ![t] = p]
      PROVE  LoopOut'
  BY <1>2, <1>a DEF MayCall
<1>3. ASSUME NEW t \in Thread, NEW j \in Jobs, ExecJob(t, j) PROVE LoopOut'
  BY <1>3, <1>2 DEF ExecJob
<1>4. ASSUME NEW t \in Thread, UserNotify(t) PROVE LoopOut'
  BY <1>4, <1>2 DEF UserNotify
<1>5. ASSUME NEW t \in Thread, NEW f \in Fds, NEW set, FdWait(t, f, set) \/ FdRewait(t, f, set)
      PROVE  LoopOut'
  BY <1>5, <1>2 DEF FdWait, FdRewait
<1>6. CASE ModDequeue
  BY <1>6 DEF ModDequeue
<1>7. CASE EpollWait \/ IntrDrain \/ IntrAck
  BY <1>7, LoopEffects DEF Typed
<1>8. ASSUME NEW f \in Fds, HandleEvent(f) PROVE LoopOut'
  BY <1>8, LoopEffects DEF Typed
<1>9. ASSUME NEW k \in Task, RunTask(k) PROVE LoopOut'
  BY <1>9, LoopEffects DEF Typed
<1>10. CASE EpollTimeout \/ EpollInterrupted \/ EventsDone \/ ModsDone
  BY <1>10, <1>b DEF EpollTimeout, EpollInterrupted, EventsDone, ModsDone
<1>11. CASE ModComplete \/ ModCancel \/ ModRegister \/ ModFail
  BY <1>11, <1>b DEF ModComplete, ModCancel, ModRegister, ModFail
<1>12. CASE TimersDone \/ TaskReturn \/ RunDone
  BY <1>12, <1>b DEF TimersDone, TaskReturn, RunDone
<1>13. ASSUME NEW j \in Jobs, TimerExpires(j) PROVE LoopOut'
  BY <1>13 DEF TimerExpires
<1>14. ASSUME NEW k \in Task, WorkerTask(k) PROVE LoopOut'
  BY <1>14, <1>c DEF WorkerTask
<1>15. ASSUME NEW f \in Fds, LevelChange(f) PROVE LoopOut'
  BY <1>15, <1>c DEF LevelChange
<1>16. CASE UNCHANGED vars
  BY <1>16, <1>c DEF vars
<1>17. QED
  BY <1>1, <1>3, <1>4, <1>5, <1>6, <1>7, <1>8, <1>9, <1>10, <1>11, <1>12, <1>13, <1>14,
     <1>15, <1>16
     DEF Next, LoopStep

\* A thread outside the functions that starts a call takes no notifier away.
LEMMA CallerOut ==
  ASSUME Typed, NEW t \in Thread, th[t].pc \notin {"notify", "write"},
         NEW p, th' = [th EXCEPT ![t] = p]
  PROVE  (Notifying => Notifying') /\ (Writing => Writing')
BY DEF Notifying, Writing, Typed, TypeOK

\* A thread that has gone to the notification is a notifier.
LEMMA NowNotifying ==
  ASSUME Typed, NEW t \in Thread, th' = [th EXCEPT ![t] = At("notify", None)]
  PROVE  Notifying'
BY ThreadPlaces DEF Notifying, Typed, TypeOK

\* Every step preserves it.
LEMMA WakeStep == Typed /\ LoopOut /\ WakeParts /\ [Next]_vars => WakeParts'
<1> SUFFICES ASSUME Typed, LoopOut, WakeParts, [Next]_vars PROVE WakeParts'
  OBVIOUS
<1> USE DEF qVars, fdVars, history, WakeParts
<1>c. Loop \in Thread /\ Out.pc = "out"
  BY ThreadPlaces DEF Thread
<1>d. ASSUME NEW p \in {"wait", "drain", "mods", "timers", "run"}, loop' = LoopAt(p)
      PROVE  loop'.pc = p
  BY <1>d, LoopAtTyped
\* Nothing is added, and the loop was not about to reset the state.
<1>f. ASSUME UNCHANGED <<intr_state, pipe, th>>, loop.pc /= "ack",
             (LeftList' => LeftList) /\ (LeftTasks' => LeftTasks)
      PROVE  WakeParts'
  BY <1>f DEF Notifying, Writing
<1>1. ASSUME NEW t \in Thread, FdWaitEnqueue(t) PROVE WakeParts'
  <2>0. PICK f : f = th[t].f
    OBVIOUS
  <2>1. PICK p : p = IF EnqueueWakes(f) THEN At("notify", None) ELSE Out
    OBVIOUS
  <2>2. p = At("notify", None) \/ (mod_list = <<>> => mod_list' = <<>>)
    BY <1>1, <2>0, <2>1 DEF FdWaitEnqueue, EnqueueWakes, ModEnqueue
  <2>3. th' = [th EXCEPT ![t] = p] /\ th[t].pc = "enqueue"
        /\ UNCHANGED <<intr_state, pipe, queued, loop>>
    BY <1>1, <2>0, <2>1 DEF FdWaitEnqueue
  <2>4. QED
    BY <2>2, <2>3, CallerOut, NowNotifying DEF LeftList, LeftTasks
<1>2. ASSUME NEW t \in Thread, Notify(t) PROVE WakeParts'
  <2>1. CASE intr_state = 0
    <3>1. th' = [th EXCEPT ![t] = At("write", None)]
      BY <1>2, <2>1 DEF Notify
    <3>2. th'[t].pc = "write"
      BY <3>1, ThreadPlaces DEF Typed, TypeOK
    <3>3. Writing' /\ Notifying'
      BY <3>2 DEF Writing, Notifying
    <3>4. QED
      BY <3>3
  <2>2. CASE intr_state = 1
    <3>1. th' = [th EXCEPT ![t] = Out] /\ th[t].pc = "notify" /\ UNCHANGED <<mod_list, pipe, queued, loop>>
      BY <1>2, <2>2 DEF Notify
    <3>2. Writing => Writing'
      BY <3>1 DEF Writing, Typed, TypeOK
    <3>3. Writing' => Notifying'
      BY DEF Writing, Notifying
    <3>4. loop.pc = "ack" => ~LeftList' /\ ~LeftTasks'
      BY <3>1 DEF LeftList, LeftTasks
    <3>5. QED
      BY <2>2, <3>1, <3>2, <3>3, <3>4 DEF LeftList, LeftTasks
  <2>3. QED
    BY <2>1, <2>2 DEF Typed, TypeOK
<1>3. ASSUME NEW t \in Thread, Write(t) PROVE WakeParts'
  BY <1>3 DEF Write
<1>4. ASSUME NEW t \in Thread, UserNotify(t) PROVE WakeParts'
  BY <1>4, <1>c, CallerOut, NowNotifying DEF UserNotify, MayCall
<1>g. ASSUME NEW t \in Thread, th[t] = Out, th' = [th EXCEPT ![t] = AfterExec],
             UNCHANGED <<mod_list, intr_state, pipe>>,
             loop'.pc \notin {"wait", "timers", "run", "task"} \/ loop'.pc = loop.pc,
             loop'.pc = "ack" \/ loop.pc /= "ack"
      PROVE  WakeParts'
  <2>1. (Notifying => Notifying') /\ (Writing => Writing')
    BY <1>g, <1>c, CallerOut
  <2>2. queued = {} /\ ~Background => Notifying'
    BY <1>g, NowNotifying DEF AfterExec
  <2>3. QED
    BY <1>g, <2>1, <2>2 DEF LeftList, LeftTasks
<1>5. ASSUME NEW t \in Thread, NEW j \in Jobs, ExecJob(t, j) PROVE WakeParts'
  BY <1>5, <1>g DEF ExecJob, MayCall
<1>6. ASSUME NEW t \in Thread, NEW f \in Fds, NEW set \in WaitSets, FdWait(t, f, set)
      PROVE  WakeParts'
  <2>1. th[t] = Out /\ UNCHANGED <<mod_list, intr_state, pipe, loop>>
    BY <1>6 DEF FdWait, MayCall
  <2>2. CASE th' = [th EXCEPT ![t] = AfterExec]
    BY <1>g, <2>1, <2>2
  <2>3. CASE th' = [th EXCEPT ![t] = At("enqueue", f)] /\ UNCHANGED queued
    BY <1>c, <2>1, <2>3, CallerOut DEF LeftList, LeftTasks
  <2>4. QED
    BY <1>6, <2>2, <2>3 DEF FdWait
<1>7. ASSUME NEW t \in Thread, NEW f \in Fds, NEW set \in RewaitSets, FdRewait(t, f, set)
      PROVE  WakeParts'
  <2>1. PICK p : p = IF EnqueueWakes(f) THEN At("notify", None) ELSE Out
    OBVIOUS
  <2>2. p = At("notify", None) \/ (mod_list = <<>> => mod_list' = <<>>)
    BY <1>7, <2>1 DEF FdRewait, EnqueueWakes, ModEnqueue
  <2>3. th' = [th EXCEPT ![t] = p] /\ th[t] = Out
        /\ UNCHANGED <<intr_state, pipe, queued, loop>>
    BY <1>7, <2>1 DEF FdRewait, MayCall
  <2>4. QED
    BY <1>c, <2>2, <2>3, CallerOut, NowNotifying DEF LeftList, LeftTasks
<1>8. CASE EpollWait
  <2>1. loop'.pc = "drain"
    BY <1>8, LoopEffects DEF Typed
  <2>2. QED
    BY <1>8, <1>f, <2>1 DEF EpollWait, LeftList, LeftTasks
<1>9. CASE EpollTimeout \/ EpollInterrupted
  BY <1>9, <1>d, <1>f DEF EpollTimeout, EpollInterrupted, LeftList, LeftTasks
<1>10. CASE IntrDrain
  <2>1. loop'.pc = "ack"
    BY <1>10, LoopEffects DEF Typed
  <2>2. QED
    BY <2>1 DEF LeftList, LeftTasks
<1>11. CASE IntrAck
  <2>1. loop'.pc = "events" /\ intr_state' = 0
    BY <1>11, LoopEffects DEF IntrAck, AckedState, Typed
  <2>2. QED
    BY <2>1 DEF LeftList, LeftTasks
<1>12. ASSUME NEW f \in Fds, HandleEvent(f) PROVE WakeParts'
  <2>1. loop'.pc = "events"
    BY <1>12, LoopEffects DEF Typed
  <2>2. QED
    BY <1>12, <1>f, <2>1 DEF HandleEvent, LeftList, LeftTasks
<1>13. CASE EventsDone
  BY <1>13, <1>d, <1>f DEF EventsDone, LeftList, LeftTasks
<1>14. CASE ModDequeue
  <2>1. loop'.pc = "mod"
    BY <1>14, LoopEffects DEF Typed
  <2>2. QED
    BY <1>14, <1>f, <2>1 DEF ModDequeue, LeftList, LeftTasks
<1>15. CASE ModsDone
  BY <1>15, <1>d, <1>f DEF ModsDone, LeftList, LeftTasks
<1>16. CASE ModComplete
  <2>1. loop'.pc = "mods" /\ th[Loop] = Out
    BY <1>16, <1>d DEF ModComplete, LoopOut
  <2>2. QED
    BY <1>16, <1>c, <1>g, <2>1 DEF ModComplete
<1>17. CASE ModCancel \/ ModRegister \/ ModFail
  BY <1>17, <1>d, <1>f DEF ModCancel, ModRegister, ModFail, LeftList, LeftTasks
<1>18. ASSUME NEW j \in Jobs, TimerExpires(j) PROVE WakeParts'
  BY <1>18, <1>c, <1>g DEF TimerExpires
<1>19. CASE TimersDone \/ TaskReturn
  BY <1>19, <1>d, <1>f DEF TimersDone, TaskReturn, LeftList, LeftTasks
<1>20. CASE RunDone
  BY <1>20, <1>d, <1>f DEF RunDone, LeftList, LeftTasks
<1>21. ASSUME NEW k \in Task, RunTask(k) PROVE WakeParts'
  <2>1. loop'.pc = "task"
    BY <1>21, LoopEffects DEF Typed
  <2>2. QED
    BY <1>21, <1>f, <2>1 DEF RunTask, LeftList, LeftTasks
<1>22. ASSUME NEW k \in Task, WorkerTask(k) PROVE WakeParts'
  BY <1>22 DEF WorkerTask, LeftList, LeftTasks, Writing, Notifying
<1>23. ASSUME NEW f \in Fds, LevelChange(f) PROVE WakeParts'
  BY <1>23 DEF LevelChange, LeftList, LeftTasks, Writing, Notifying
<1>24. CASE UNCHANGED vars
  BY <1>24 DEF vars, LeftList, LeftTasks, Writing, Notifying
<1>25. QED
  BY <1>1, <1>2, <1>3, <1>4, <1>5, <1>6, <1>7, <1>8, <1>9, <1>10, <1>11, <1>12, <1>13,
     <1>14, <1>15, <1>16, <1>17, <1>18, <1>19, <1>20, <1>21, <1>22, <1>23, <1>24
     DEF Next, ThreadStep, LoopStep

\* The loop never falls asleep over modified objects, or over tasks that only
\* it can run, without a wakeup that is in the pipe or on its way to it; and no
\* notification relies on a byte that is not there.
THEOREM LoopNotStranded == Spec => []LoopWillWake
<1>1. Init => WakeParts
  <2> SUFFICES ASSUME Init PROVE WakeParts
    OBVIOUS
  <2>1. intr_state = 0 /\ mod_list = <<>> /\ queued = {}
    BY DEF Init
  <2>2. QED
    BY <2>1 DEF WakeParts, LeftList, LeftTasks
<1>2. Init => LoopOut
  BY LoopAtTyped DEF Init, LoopOut
<1>3. WakeParts => LoopWillWake
  BY DEF WakeParts, LoopWillWake, IntrStateBacked, LeftList, LeftTasks, Notifying, Writing
<1>4. QED
  BY <1>1, <1>2, <1>3, LoopOutStep, WakeStep, TypeCorrect, PTL DEF Spec

---------------------------------------------------------------------------
(* Every wait object implements WaitObject *)

\* What f's owner can see of the object does not change.
LEMMA WaitStutter ==
  ASSUME NEW f \in Fds, Phase(f)' = Phase(f), requested'[f] = requested[f],
         cancelled'[f] = cancelled[f], ready'[f] = ready[f], err'[f] = err[f]
  PROVE  [WaitObjectOf(f)!WaitNext]_(WaitObjectOf(f)!waitVars)
BY DEF WaitObjectOf!waitVars

\* An object keeps its phase while its wait and its flag WAITING last.
LEMMA PhaseFrame ==
  ASSUME NEW f \in Fds, wanted'[f] = wanted[f],
         "WAITING" \in flags'[f] <=> "WAITING" \in flags[f]
  PROVE  Phase(f)' = Phase(f)
BY DEF Phase

\* An object that waits has a wait.
LEMMA PhaseWaiting ==
  ASSUME ObjectInv, NEW f \in Fds
  PROVE  Waiting(f) => wanted[f] /\ Phase(f) = "waiting"
BY DEF ObjectInv, OnePlace, Waiting, Phase

\* Every step is, for every object, a step of its abstract specification or
\* one that its owner cannot see.
LEMMA WaitObjectStep ==
  ASSUME NonemptyWaits, Typed, ObjectInv, [Next]_vars, NEW f \in Fds
  PROVE  [WaitObjectOf(f)!WaitNext]_(WaitObjectOf(f)!waitVars)
<1> DEFINE Good == [WaitObjectOf(f)!WaitNext]_(WaitObjectOf(f)!waitVars)
<1> USE DEF qVars, fdVars, history
<1>a. ASSUME UNCHANGED <<flags, requested, ready, err, wanted, cancelled>> PROVE Good
  BY <1>a, PhaseFrame, WaitStutter
<1>b. ASSUME UNCHANGED <<requested, ready, err, wanted, cancelled>>,
             "WAITING" \in flags'[f] <=> "WAITING" \in flags[f]
      PROVE  Good
  BY <1>b, PhaseFrame, WaitStutter
\* The end of f's wait.
<1>c. ASSUME Waiting(f), flags'[f] = FlagsWhenOver(f),
             UNCHANGED <<requested, err, wanted, cancelled>>,
             \/ ready'[f] \in Mask \ {{}}
             \/ ready'[f] = {} /\ (cancelled[f] \/ err[f])
      PROVE  Good
  <2>1. Phase(f) = "waiting" /\ Phase(f)' = "over"
    BY <1>c, PhaseWaiting DEF Phase, FlagsWhenOver
  <2>2. CASE ready'[f] \in Mask \ {{}}
    <3>1. ready'[f] \in (SUBSET (Events \cup {Err})) \ {{}}
      BY <2>2 DEF Mask
    <3>2. \E r \in (SUBSET (Events \cup {Err})) \ {{}} : ready'[f] = r
      BY <3>1
    <3>3. WaitObjectOf(f)!Report
      BY <1>c, <2>1, <3>2 DEF WaitObjectOf!Report
    <3>4. QED
      BY <3>3 DEF WaitObjectOf!WaitNext
  <2>3. CASE ready'[f] = {} /\ (cancelled[f] \/ err[f])
    <3>1. WaitObjectOf(f)!Drop
      BY <1>c, <2>1, <2>3 DEF WaitObjectOf!Drop
    <3>2. QED
      BY <3>1 DEF WaitObjectOf!WaitNext
  <2>4. QED
    BY <1>c, <2>2, <2>3
\* Its callback begins.
<1>d. ASSUME NEW k \in Task, k \in queued, Started(k), UNCHANGED <<flags, requested, ready, err>>
      PROVE  Good
  <2>1. CASE k = f
    <3>1. wanted[f] /\ ~Waiting(f)
      BY <1>d, <2>1 DEF ObjectInv, OnePlace
    <3>2. Phase(f) = "over" /\ Phase(f)' = "idle" /\ cancelled'[f] = FALSE
      BY <1>d, <2>1, <3>1 DEF Phase, Waiting, Started
    <3>3. WaitObjectOf(f)!Called
      BY <1>d, <3>2 DEF WaitObjectOf!Called
    <3>4. QED
      BY <3>3 DEF WaitObjectOf!WaitNext
  <2>2. CASE k /= f
    <3>1. wanted'[f] = wanted[f] /\ cancelled'[f] = cancelled[f]
      BY <1>d, <2>2 DEF Started, Typed, TypeOK
    <3>2. QED
      BY <1>d, <3>1, PhaseFrame, WaitStutter
  <2>3. QED
    BY <2>1, <2>2
<1>1. ASSUME NEW t \in Thread, FdWaitEnqueue(t) PROVE Good
  <2>1. "WAITING" \in flags'[f] <=> "WAITING" \in flags[f]
    BY <1>1 DEF FdWaitEnqueue, Typed, TypeOK, Local
  <2>2. QED
    BY <1>1, <1>b, <2>1 DEF FdWaitEnqueue
<1>2. ASSUME NEW t \in Thread, Notify(t) \/ Write(t) \/ UserNotify(t) PROVE Good
  BY <1>2, <1>a DEF Notify, Write, UserNotify
<1>3. ASSUME NEW t \in Thread, NEW j \in Jobs, ExecJob(t, j) PROVE Good
  BY <1>3, <1>a DEF ExecJob
<1>4. ASSUME NEW t \in Thread, NEW g \in Fds, NEW set \in WaitSets, FdWait(t, g, set)
      PROVE  Good
  <2>1. CASE g = f
    <3>1. set \in SUBSET Events
      BY IoqAssumption
    <3>2. /\ requested'[f] = set /\ ready'[f] = {} /\ err'[f] = FALSE
          /\ flags'[f] = {"WAITING"} /\ wanted'[f] /\ ~wanted[f] /\ UNCHANGED cancelled
      BY <1>4, <2>1 DEF FdWait, Typed, TypeOK
    <3>3. Phase(f) = "idle" /\ Phase(f)' = "waiting"
      BY <3>2 DEF Phase
    <3>4. WaitObjectOf(f)!Wait(set)
      BY <3>2, <3>3 DEF WaitObjectOf!Wait
    <3>5. QED
      BY <3>1, <3>4 DEF WaitObjectOf!WaitNext
  <2>2. CASE g /= f
    <3>1. /\ flags'[f] = flags[f] /\ wanted'[f] = wanted[f] /\ requested'[f] = requested[f]
          /\ ready'[f] = ready[f] /\ err'[f] = err[f] /\ cancelled'[f] = cancelled[f]
      BY <1>4, <2>2 DEF FdWait, Typed, TypeOK
    <3>2. QED
      BY <3>1, PhaseFrame, WaitStutter
  <2>3. QED
    BY <2>1, <2>2
<1>5. ASSUME NEW t \in Thread, NEW g \in Fds, NEW set \in RewaitSets, FdRewait(t, g, set)
      PROVE  Good
  <2>1. CASE g = f
    <3>1. set \in SUBSET Events
      BY IoqAssumption
    <3>2. /\ requested'[f] = set /\ cancelled'[f] = (cancelled[f] \/ set = {})
          /\ flags'[f] = flags[f] \cup {"MOD_LIST"} /\ UNCHANGED <<wanted, ready, err>>
      BY <1>5, <2>1 DEF FdRewait, Typed, TypeOK
    <3>3. Phase(f) = "waiting" /\ Phase(f)' = "waiting"
      BY <1>5, <2>1, <3>2, PhaseWaiting, PhaseFrame DEF FdRewait, StillWaiting, Waiting
    <3>4. WaitObjectOf(f)!Change(set)
      BY <3>2, <3>3 DEF WaitObjectOf!Change
    <3>5. QED
      BY <3>1, <3>4 DEF WaitObjectOf!WaitNext
  <2>2. CASE g /= f
    <3>1. /\ flags'[f] = flags[f] /\ wanted'[f] = wanted[f] /\ requested'[f] = requested[f]
          /\ ready'[f] = ready[f] /\ err'[f] = err[f] /\ cancelled'[f] = cancelled[f]
      BY <1>5, <2>2 DEF FdRewait, Typed, TypeOK
    <3>2. QED
      BY <3>1, PhaseFrame, WaitStutter
  <2>3. QED
    BY <2>1, <2>2
<1>6. CASE EpollWait \/ EpollTimeout \/ EpollInterrupted
  BY <1>6, <1>a DEF EpollWait, EpollTimeout, EpollInterrupted
<1>7. CASE IntrDrain \/ IntrAck \/ EventsDone \/ ModsDone \/ ModComplete
  BY <1>7, <1>a DEF IntrDrain, IntrAck, EventsDone, ModsDone, ModComplete
<1>8. ASSUME NEW g \in Fds, HandleEvent(g) PROVE Good
  <2>1. CASE g = f
    <3>1. ready'[f] \in Mask \ {{}}
      BY <1>8, <2>1, LoopEffects DEF HandleEvent, Typed, TypeOK
    <3>2. Waiting(f)
      BY <1>8, <2>1 DEF HandleEvent, ObjectInv, Registered
    <3>3. flags'[f] = FlagsWhenOver(f)
      BY <1>8, <2>1 DEF HandleEvent, Typed, TypeOK
    <3>4. QED
      BY <1>8, <1>c, <3>1, <3>2, <3>3 DEF HandleEvent
  <2>2. CASE g /= f
    <3>1. /\ flags'[f] = flags[f] /\ ready'[f] = ready[f]
          /\ UNCHANGED <<requested, err, wanted, cancelled>>
      BY <1>8, <2>2 DEF HandleEvent, Typed, TypeOK
    <3>2. QED
      BY <3>1, PhaseFrame, WaitStutter
  <2>3. QED
    BY <2>1, <2>2
<1>9. CASE ModDequeue
  <2>1. "WAITING" \in flags'[f] <=> "WAITING" \in flags[f]
    BY <1>9 DEF ModDequeue, Typed, TypeOK
  <2>2. QED
    BY <1>9, <1>b, <2>1 DEF ModDequeue
<1>10. CASE ModCancel
  <2>1. CASE loop.task = f
    <3>1. Held(f) /\ Waiting(f)
      BY <1>10, <2>1 DEF ModCancel, Held, Waiting, ObjectInv, Registered
    <3>2. cancelled[f] \/ err[f]
      BY <1>10, <3>1 DEF ModCancel, ObjectInv, Reasoned
    <3>3. flags'[f] = FlagsWhenOver(f) /\ ready'[f] = {}
      BY <1>10, <2>1 DEF ModCancel, Typed, TypeOK
    <3>4. QED
      BY <1>10, <1>c, <3>1, <3>2, <3>3 DEF ModCancel
  <2>2. CASE loop.task /= f
    <3>1. /\ flags'[f] = flags[f] /\ ready'[f] = ready[f]
          /\ UNCHANGED <<requested, err, wanted, cancelled>>
      BY <1>10, <2>2 DEF ModCancel, Typed, TypeOK
    <3>2. QED
      BY <3>1, PhaseFrame, WaitStutter
  <2>3. QED
    BY <2>1, <2>2
<1>11. CASE ModRegister
  <2>1. "WAITING" \in flags'[f] <=> "WAITING" \in flags[f]
    BY <1>11 DEF ModRegister, FlagsRegistered, Typed, TypeOK, Local
  <2>2. QED
    BY <1>11, <1>b, <2>1 DEF ModRegister
<1>12. CASE ModFail
  <2>1. CASE loop.task = f
    <3>1. Waiting(f)
      BY <1>12, <2>1 DEF ModFail, Held, Waiting, ObjectInv, Registered
    <3>2. /\ requested'[f] = {} /\ err'[f] = TRUE /\ flags'[f] = flags[f] \cup {"MOD_LIST"}
          /\ UNCHANGED <<ready, wanted, cancelled>>
      BY <1>12, <2>1 DEF ModFail, Typed, TypeOK
    <3>3. Phase(f) = "waiting" /\ Phase(f)' = "waiting"
      BY <3>1, <3>2, PhaseWaiting, PhaseFrame
    <3>4. WaitObjectOf(f)!Refuse
      BY <3>2, <3>3 DEF WaitObjectOf!Refuse
    <3>5. QED
      BY <3>4 DEF WaitObjectOf!WaitNext
  <2>2. CASE loop.task /= f
    <3>1. /\ flags'[f] = flags[f] /\ requested'[f] = requested[f] /\ err'[f] = err[f]
          /\ UNCHANGED <<ready, wanted, cancelled>>
      BY <1>12, <2>2 DEF ModFail, Typed, TypeOK
    <3>2. QED
      BY <3>1, PhaseFrame, WaitStutter
  <2>3. QED
    BY <2>1, <2>2
<1>13. ASSUME NEW j \in Jobs, TimerExpires(j) PROVE Good
  BY <1>13, <1>a DEF TimerExpires
<1>14. CASE TimersDone \/ TaskReturn \/ RunDone
  BY <1>14, <1>a DEF TimersDone, TaskReturn, RunDone
<1>15. ASSUME NEW k \in Task, RunTask(k) \/ WorkerTask(k) PROVE Good
  BY <1>15, <1>d DEF RunTask, WorkerTask
<1>16. ASSUME NEW g \in Fds, LevelChange(g) PROVE Good
  BY <1>16, <1>a DEF LevelChange
<1>17. CASE UNCHANGED vars
  BY <1>17, <1>a DEF vars
<1>18. QED
  BY <1>1, <1>2, <1>3, <1>4, <1>5, <1>6, <1>7, <1>8, <1>9, <1>10, <1>11, <1>12, <1>13,
     <1>14, <1>15, <1>16, <1>17
     DEF Next, ThreadStep, LoopStep

\* Every wait object does what WaitObject says, whatever the loop, the other
\* objects and the threads do.
THEOREM IoqImplementsWaitObject == NonemptyWaits => (Spec => ImplementsWaitObject)
<1> SUFFICES ASSUME NonemptyWaits PROVE Spec => ImplementsWaitObject
  OBVIOUS
<1>1. Init => \A f \in Fds : WaitObjectOf(f)!WaitInit
  BY DEF Init, WaitObjectOf!WaitInit, Phase
<1>2. Typed /\ ListInv /\ [Next]_vars =>
        [\A f \in Fds : [WaitObjectOf(f)!WaitNext]_(WaitObjectOf(f)!waitVars)]_vars
  BY WaitObjectStep DEF ListInv
<1>3. QED
  BY <1>1, <1>2, ListAlways, TypeCorrect, PTL DEF Spec, ImplementsWaitObject
=============================================================================
