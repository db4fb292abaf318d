------------------------------- MODULE Afile -------------------------------
(***************************************************************************)
(* Asynchronous files, io/afile_posix.c, on top of a wait object.  One     *)
(* object serves a read and a write that are requested independently, by   *)
(* any thread and from callbacks.  The critical sections of a->lock are    *)
(* actions; ioq_cb() goes on after its own in two steps per request, as    *)
(* several of them may run on different workers.                           *)
(*                                                                         *)
(* The program requests and cancels whenever it likes, except that it      *)
(* requests no read while a read, and no write while a write, is           *)
(* outstanding.  Two uses go wrong.  A cancellation that finds a->flags    *)
(* empty, because nothing was requested or end_wait() has just taken the   *)
(* request out, leaves F_WANT_CANCEL behind: no later request is waited    *)
(* for (CancelLost).  And a request after a cancellation gives the wait a  *)
(* new set, which delays the cancellation until an event comes.            *)
(***************************************************************************)
EXTENDS Naturals, FiniteSets

VARIABLES
  phase, set, cancelled, ready, err,    \* a->fd
  flags,         \* a->flags
  error,         \* a->read.error and a->write.error: whether one is set
  entered,       \* how many ioq_cb() have begun and not yet locked
  performing,    \* what the others still have to do: requests, cause and stage
  outstanding,   \* requests that were not called back yet (history)
  told           \* the last callback: what ended the request, and what the
                 \* callback finds in the error field (history)

fdObject == <<phase, set, cancelled, ready, err>>

INSTANCE WaitObject WITH Events <- {"in", "out"}, Err <- "err"

afileVars == <<fdObject, flags, error, entered, performing, outstanding, told>>

Op == {"read", "write"}
EventOf == [read |-> "in", write |-> "out"]

\* afile_init()
Init ==
  /\ WaitInit
  /\ flags = {}
  /\ error = [op \in Op |-> FALSE]
  /\ entered = 0
  /\ performing = {}
  /\ outstanding = {}
  /\ told = [op |-> "read", cause |-> "io", error |-> FALSE]

\* ioq_fd_rewait() and ioq_fd_cancel() have no effect when no wait goes on.
Rewait(s) == IF phase = "waiting" THEN Change(s) ELSE UNCHANGED fdObject

\* Mutation: the set is narrowed to the new request's event.
RequestWaitNarrow(op) == IF flags /= {} THEN Rewait({EventOf[op]}) ELSE Wait({EventOf[op]})

RequestWait(op) == IF flags /= {} THEN Rewait({"in", "out"}) ELSE Wait({EventOf[op]})

\* afile_read(), afile_write()
Request(op) ==
  /\ op \notin outstanding
  /\ RequestWait(op)
  /\ flags' = flags \cup {op}
  /\ outstanding' = outstanding \cup {op}
  /\ UNCHANGED <<error, entered, performing, told>>

\* Mutation: the wait is not cancelled, only the request marked.
CancelWaitNot == UNCHANGED fdObject

CancelWait == Rewait({})

\* afile_cancel()
Cancel ==
  /\ CancelWait
  /\ flags' = flags \cup {"cancel"}
  /\ UNCHANGED <<error, entered, performing, outstanding, told>>

\* The wait object calls ioq_cb().
IoqCb ==
  /\ Called
  /\ entered' = entered + 1
  /\ UNCHANGED <<flags, error, performing, outstanding, told>>

\* What is left to an ioq_cb() that is to end ops; reads come first.
Remaining(ops, cause) ==
  IF ops = {} THEN {}
  ELSE {[ops |-> ops, cause |-> cause, stage |-> "perform"]}

First(t) == IF "read" \in t.ops THEN "read" ELSE "write"

\* end_wait() when the wait failed or was cancelled: all requests end.
EndWaitAll ==
  /\ entered > 0
  /\ err \/ "cancel" \in flags
  /\ performing' = performing \cup Remaining(flags \cap Op, IF err THEN "wait error" ELSE "cancel")
  /\ flags' = {}
  /\ entered' = entered - 1
  /\ Forget
  /\ UNCHANGED <<error, outstanding, told>>

ReadyFor(op) == ready \cap {EventOf[op], "err"} /= {}

RestWait(rest) ==
  IF rest = {} THEN Forget ELSE Wait({EventOf[op] : op \in rest})

FlagsAfter(now) == flags \ now

\* end_wait() otherwise: requests whose event came, and a new wait for others.
EndWaitSome ==
  /\ entered > 0
  /\ ~err /\ "cancel" \notin flags
  /\ LET now == {op \in flags : ReadyFor(op)}
     IN  /\ performing' = performing \cup Remaining(now, "io")
         /\ flags' = FlagsAfter(now)
         /\ RestWait(flags \ now)
  /\ entered' = entered - 1
  /\ UNCHANGED <<error, outstanding, told>>

\* Whether the request fails: read() and write() may, a cancelled one does not.
Fails(t) == IF t.cause = "io" THEN BOOLEAN ELSE {t.cause = "wait error"}

\* Where the outcome is put.  That of write() goes into the read's fields.
FieldOf(t) == IF t.cause = "io" THEN "read" ELSE First(t)

Perform(t) ==
  /\ t \in performing
  /\ t.stage = "perform"
  /\ \E f \in Fails(t) :
       /\ error' = [error EXCEPT ![FieldOf(t)] = f]
       /\ performing' = (performing \ {t}) \cup {[t EXCEPT !.stage = "call"]}
  /\ UNCHANGED <<fdObject, flags, entered, outstanding, told>>

Callback(t) ==
  /\ t \in performing
  /\ t.stage = "call"
  /\ performing' = (performing \ {t}) \cup Remaining(t.ops \ {First(t)}, t.cause)
  /\ outstanding' = outstanding \ {First(t)}
  /\ told' = [op |-> First(t), cause |-> t.cause, error |-> error[First(t)]]
  /\ UNCHANGED <<fdObject, flags, error, entered>>

\* The wait object by itself.
WaitStep(A) == A /\ UNCHANGED <<flags, error, entered, performing, outstanding, told>>

\* Of these one at most is possible at a time.
WaitProcess == WaitStep(Drop) \/ IoqCb \/ EndWaitAll \/ EndWaitSome

\* The steps of the ioq_cb() that ends op next.
Ending(op) == \E t \in performing : op = First(t) /\ (Perform(t) \/ Callback(t))

Next ==
  \/ \E op \in Op : Request(op) \/ Ending(op)
  \/ Cancel
  \/ WaitProcess
  \/ WaitStep(Report)
  \/ WaitStep(Refuse)

Spec == Init /\ [][Next]_afileVars

\* The IO queue ends cancelled waits and calls back (Ioq, WaitEnds), and
\* callbacks run to their end.  Events need not come.
FairSpec ==
  /\ Spec
  /\ WF_afileVars(WaitProcess)
  /\ \A op \in Op : WF_afileVars(Ending(op))

-----------------------------------------------------------------------------
(* Properties *)

\* A request that was not called back is known in exactly one place, a->flags
\* or the callback that ends it, and nothing else is in either: each request
\* is called back once although requests, cancellations and callbacks overlap.
FileRequestsOnce ==
  \A op \in Op :
    Cardinality({t \in performing : op \in t.ops}) + (IF op \in flags THEN 1 ELSE 0)
      = IF op \in outstanding THEN 1 ELSE 0

\* F_WANT_CANCEL was set when there was nothing to cancel, and nothing will look
\* at it: no wait goes on and no ioq_cb() has begun.
CancelLost == "cancel" \in flags /\ phase = "idle" /\ entered = 0

\* Requests are waited for: something is in a->flags exactly when a wait goes
\* on or one ioq_cb() is about to look, in every state but the one a needless
\* afile_cancel() leaves behind.  The wait covers every request's event unless it
\* is being cancelled, and a cancelled wait is given events again only with both.
FileWaitArmed ==
  /\ entered <= 1
  /\ CancelLost \/ ((flags = {}) <=> (phase = "idle" /\ entered = 0))
  /\ (phase = "waiting" /\ set /= {}) => \A op \in flags \cap Op : EventOf[op] \in set
  /\ ("cancel" \in flags /\ phase = "waiting") => set \in {{}, {"in", "out"}}

\* AsyncIntro.txt: "ONE request = ONE callback, always".  A request that is still in
\* a->flags can be called back only if a wait goes on or an ioq_cb() is about to
\* look.  After a needless afile_cancel() neither is the case, for good.
RequestsWillEnd == flags \cap Op /= {} => phase /= "idle" \/ entered > 0

\* A write that ends because the file descriptor cannot be waited for says so,
\* and one that was cancelled reports no error, whatever reads and earlier
\* writes left behind.  Only of writes that did not come as far as write() can
\* this be said: the outcome of write() goes into the fields of the read, so that
\* the write then reports what an earlier one left, and the read may report it.
FileFailureTold ==
  (told.op = "write" /\ told.cause /= "io") => told.error = (told.cause = "wait error")

\* The three together.
FileServed == FileRequestsOnce /\ FileWaitArmed /\ FileFailureTold

\* A cancellation that found a request in a->flags ends every outstanding request,
\* events or not, unless a later request has given the wait both events again.
FileCancelEnds ==
  \A op \in Op :
    ("cancel" \in flags /\ ~CancelLost /\ op \in outstanding) ~>
      \/ op \notin outstanding
      \/ phase = "waiting" /\ set = {"in", "out"}
=============================================================================
