-------------------------------- MODULE Adns --------------------------------
(***************************************************************************)
(* The asynchronous resolver, io/adns.c: a worker thread, a list of        *)
(* requests under a lock, and an event that wakes the worker.  Every       *)
(* request belongs to one thread of the program, which asks, cancels and   *)
(* is called back through the run queue.  A question is the number of the  *)
(* adns_request_ask() that put it; an answer is the question it answers.   *)
(*                                                                         *)
(* Two races of the code are part of the model, and recorded in raced: a   *)
(* cancellation that comes between the removal of a request by the worker  *)
(* and its clearing of REQUEST_BUSY, which removes the request once more   *)
(* (list_remove() then follows null pointers, and the program ends); and a *)
(* request that is cancelled and asked again while the worker looks up its *)
(* old question.  The error of a lookup stays in the request when it is    *)
(* asked again, and when it is cancelled then.                             *)
(***************************************************************************)
EXTENDS Naturals, Sequences, FiniteSets

CONSTANTS Requests,
          MaxAsks,    \* how often each of them is asked
          None

VARIABLES
  requests,     \* r->requests
  quit,         \* RESOLVER_QUIT
  notify,       \* the event r->notify is raised
  worker,       \* where do_work() is, with its struct work_req
  busy,         \* REQUEST_BUSY in q->flags
  question,     \* what was asked last
  result,       \* q->result: the question it answers, or None
  failed,       \* q->error is not ADNS_ERROR_NONE
  raising,      \* threads about to raise the event
  cancelling,   \* requests that a cancellation is about to submit
  tasks,        \* how often q->task is in the run queue
  outstanding,  \* requests that were asked and not called back (history)
  ended,        \* what completed the request first since it was asked (history)
  leftover,     \* q->error when it was asked (history)
  raced         \* which of the two races have happened (history)

adnsVars == <<requests, quit, notify, worker, busy, question, result, failed, raising,
              cancelling, tasks, outstanding, ended, leftover, raced>>

\* What callbacks find, and the history it is judged by.
outcomeVars == <<result, failed, ended, leftover>>

At(pc, q) == [pc |-> pc, req |-> q, question |-> IF q = None THEN None ELSE question[q]]

\* adns_resolver_init(), adns_request_init()
Init ==
  /\ requests = <<>> /\ quit = FALSE /\ notify = FALSE
  /\ worker = [pc |-> "peek", req |-> None, question |-> None]
  /\ busy = [q \in Requests |-> FALSE]
  /\ question = [q \in Requests |-> 0]
  /\ result = [q \in Requests |-> None]
  /\ raising = {} /\ cancelling = {}
  /\ tasks = [q \in Requests |-> 0]
  /\ failed = [q \in Requests |-> FALSE]
  /\ ended = [q \in Requests |-> "none"]
  /\ leftover = [q \in Requests |-> FALSE]
  /\ outstanding = {} /\ raced = {}

-----------------------------------------------------------------------------
(* The worker *)

PeekQuit ==
  /\ worker.pc = "peek"
  /\ quit
  /\ worker' = At("done", None)
  /\ UNCHANGED <<requests, quit, notify, busy, question, outcomeVars, raising, cancelling, tasks,
                 outstanding, raced>>

PeekEmpty ==
  /\ worker.pc = "peek"
  /\ ~quit /\ requests = <<>>
  /\ worker' = At("wait", None)
  /\ UNCHANGED <<requests, quit, notify, busy, question, outcomeVars, raising, cancelling, tasks,
                 outstanding, raced>>

\* The question is copied, the request stays in the list.
PeekRequest ==
  /\ worker.pc = "peek"
  /\ ~quit /\ requests /= <<>>
  /\ worker' = At("lookup", Head(requests))
  /\ UNCHANGED <<requests, quit, notify, busy, question, outcomeVars, raising, cancelling, tasks,
                 outstanding, raced>>

WaitEvent ==
  /\ worker.pc = "wait"
  /\ notify
  /\ worker' = At("clear", None)
  /\ UNCHANGED <<requests, quit, notify, busy, question, outcomeVars, raising, cancelling, tasks,
                 outstanding, raced>>

ClearEvent ==
  /\ worker.pc = "clear"
  /\ notify' = FALSE
  /\ worker' = At("peek", None)
  /\ UNCHANGED <<requests, quit, busy, question, outcomeVars, raising, cancelling, tasks,
                 outstanding, raced>>

\* list_remove() of a request, which is in the list once or not at all
ListRemove(q) ==
  IF \A i \in DOMAIN requests : requests[i] /= q
  THEN requests
  ELSE LET i == CHOOSE i \in DOMAIN requests : requests[i] = q
       IN  [j \in 1 .. Len(requests) - 1 |-> requests[IF j < i THEN j ELSE j + 1]]

\* The worker knows its request by its being the first.
StillFirst(q) == requests /= <<>> /\ Head(requests) = q

\* getaddrinfo() returns, and fulfill_request() finds that the request is
\* gone ...
FulfillDrop ==
  /\ worker.pc = "lookup"
  /\ ~StillFirst(worker.req)
  /\ worker' = At("peek", None)
  /\ UNCHANGED <<requests, quit, notify, busy, question, outcomeVars, raising, cancelling, tasks,
                 outstanding, raced>>

\* ... or removes it.
FulfillRemove ==
  /\ worker.pc = "lookup"
  /\ StillFirst(worker.req)
  /\ requests' = ListRemove(worker.req)
  /\ worker' = [worker EXCEPT !.pc = "finish"]
  /\ UNCHANGED <<quit, notify, busy, question, outcomeVars, raising, cancelling, tasks,
                 outstanding, raced>>

\* After the unlock: an answer, or an error and none.
FulfillFinish ==
  /\ worker.pc = "finish"
  /\ LET q == worker.req
     IN  /\ busy' = [busy EXCEPT ![q] = FALSE]
         /\ \E answer \in {worker.question, None} :
              /\ failed' = [failed EXCEPT ![q] = (answer = None)]
              /\ result' = [result EXCEPT ![q] = answer]
         /\ ended' = [ended EXCEPT ![q] = IF @ = "none" THEN "lookup" ELSE @]
         /\ tasks' = [tasks EXCEPT ![q] = @ + 1]
  /\ worker' = At("peek", None)
  /\ UNCHANGED <<requests, quit, notify, question, raising, cancelling, outstanding, leftover,
                 raced>>

-----------------------------------------------------------------------------
(* The program *)

\* Mutation: the event is raised only if there were requests before.
AskRaisesLate == requests /= <<>>

AskRaises == requests = <<>>

ResultAtAsk(q) == None

\* adns_request_ask() up to the unlock
Ask(q) ==
  /\ q \notin outstanding
  /\ question[q] < MaxAsks
  /\ ~quit
  /\ result' = [result EXCEPT ![q] = ResultAtAsk(q)]
  /\ question' = [question EXCEPT ![q] = @ + 1]
  /\ busy' = [busy EXCEPT ![q] = TRUE]
  /\ requests' = Append(requests, q)
  /\ raising' = IF AskRaises THEN raising \cup {q} ELSE raising
  /\ outstanding' = outstanding \cup {q}
  /\ ended' = [ended EXCEPT ![q] = "none"]
  /\ leftover' = [leftover EXCEPT ![q] = failed[q]]
  /\ raced' = IF worker.req = q THEN raced \cup {"asked again"} ELSE raced
  /\ UNCHANGED <<quit, notify, worker, failed, cancelling, tasks>>

Raise(u) ==
  /\ u \in raising
  /\ raising' = raising \ {u}
  /\ notify' = TRUE
  /\ UNCHANGED <<requests, quit, worker, busy, question, outcomeVars, cancelling, tasks,
                 outstanding, raced>>

\* Mutation: a request is submitted whether it is busy or not.
CancelTakesAlways(q) == TRUE

CancelTakes(q) == busy[q]

\* The locked section of adns_request_cancel().  Without an effect on a
\* request that is not busy.  The error of an earlier lookup stays.
Cancel(q) ==
  /\ q \notin raising \cup cancelling
  /\ CancelTakes(q)
  /\ busy' = [busy EXCEPT ![q] = FALSE]
  /\ requests' = ListRemove(q)
  /\ cancelling' = cancelling \cup {q}
  /\ ended' = [ended EXCEPT ![q] = "cancel"]
  /\ raced' = IF worker.pc = "finish" /\ worker.req = q THEN raced \cup {"late cancel"} ELSE raced
  /\ UNCHANGED <<quit, notify, worker, question, result, failed, raising, tasks, outstanding,
                 leftover>>

CancelExec(q) ==
  /\ q \in cancelling
  /\ cancelling' = cancelling \ {q}
  /\ tasks' = [tasks EXCEPT ![q] = @ + 1]
  /\ UNCHANGED <<requests, quit, notify, worker, busy, question, outcomeVars, raising,
                 outstanding, raced>>

Callback(q) ==
  /\ tasks[q] > 0
  /\ tasks' = [tasks EXCEPT ![q] = @ - 1]
  /\ outstanding' = outstanding \ {q}
  /\ UNCHANGED <<requests, quit, notify, worker, busy, question, outcomeVars, raising, cancelling,
                 raced>>

\* Who raises the event after the quit request.
QuitRaisers == {"user"}

\* adns_resolver_destroy(), at any time; it goes on to raise the event and to
\* join the worker.  Requests that are still in the list are left alone.
Destroy ==
  /\ ~quit
  /\ quit' = TRUE
  /\ raising' = raising \cup QuitRaisers
  /\ UNCHANGED <<requests, notify, worker, busy, question, outcomeVars, cancelling, tasks,
                 outstanding, raced>>

\* The program goes on.
Alive == "late cancel" \notin raced

\* After the end all may come to rest; that the worker does not rest anywhere
\* but at its end is for DestroyJoins to say.
Rest ==
  /\ Alive => /\ quit
              /\ raising = {} /\ cancelling = {}
              /\ \A q \in Requests : tasks[q] = 0
  /\ UNCHANGED adnsVars

WorkerStep ==
  /\ Alive
  /\ \/ PeekQuit
     \/ PeekEmpty
     \/ PeekRequest
     \/ WaitEvent
     \/ ClearEvent
     \/ FulfillDrop
     \/ FulfillRemove
     \/ FulfillFinish

RaiseStep(u) == Alive /\ Raise(u)
TaskStep(q) == Alive /\ (CancelExec(q) \/ Callback(q))

Next ==
  \/ WorkerStep
  \/ \E q \in Requests : TaskStep(q) \/ (Alive /\ (Ask(q) \/ Cancel(q)))
  \/ \E u \in Requests \cup {"user"} : RaiseStep(u)
  \/ Alive /\ Destroy
  \/ Rest

Spec == Init /\ [][Next]_adnsVars

\* getaddrinfo() returns, threads go on with the calls they are in, and the
\* run queue serves its tasks.
FairSpec ==
  /\ Spec
  /\ WF_adnsVars(WorkerStep)
  /\ \A u \in Requests \cup {"user"} : WF_adnsVars(RaiseStep(u))
  /\ \A q \in Requests : WF_adnsVars(TaskStep(q))

-----------------------------------------------------------------------------
(* Properties *)

Holders(q) ==
  (IF \E i \in DOMAIN requests : requests[i] = q THEN 1 ELSE 0)
    + (IF worker.pc = "finish" /\ worker.req = q THEN 1 ELSE 0)
    + (IF q \in cancelling THEN 1 ELSE 0) + tasks[q]

\* A request that was asked is in one place only, the list, the worker's or a
\* cancelling thread's hands, or the run queue, and so is called back once.
\* The late cancellation is the only way in which this goes wrong.
AskedOnce ==
  Alive => \A q \in Requests : Holders(q) = IF q \in outstanding THEN 1 ELSE 0

\* What a callback finds belongs to what was asked last.  A request completed
\* by the lookup has the answer to its question and no error, or an error and
\* no answer.  One that is not completed, or was completed by a cancellation,
\* has no answer, whatever the lookup that was under way comes to; its error is
\* the one that it had when it was asked, which adns_request_ask() and
\* adns_request_cancel() do not clear (adns.h says that a cancelled request
\* "completes with a non-error code"; that is so only if its last lookup did
\* not fail).  All of it fails after the two races: a request asked again
\* during the lookup of its old question, or cancelled too late.
OwnAnswer ==
  raced = {} =>
    \A q \in Requests :
      /\ ended[q] = "lookup" => result[q] = IF failed[q] THEN None ELSE question[q]
      /\ ended[q] /= "lookup" => result[q] = None /\ failed[q] = leftover[q]

\* The worker does not sleep through requests or the end: the event is raised,
\* or somebody is about to raise it.
ResolverAwake ==
  (worker.pc = "wait" /\ (requests /= <<>> \/ quit)) => notify \/ raising /= {}

\* The three together, each with the exceptions that it names.
ResolverServes == AskedOnce /\ OwnAnswer /\ ResolverAwake

\* Every request is called back in the end, cancelled or not, unless the
\* resolver is destroyed meanwhile (or the late cancellation ends it all).
EveryAskEnds ==
  \A q \in Requests : q \in outstanding ~> (q \notin outstanding \/ quit \/ ~Alive)

\* The join in adns_resolver_destroy() ends.
DestroyJoins == quit ~> (worker.pc = "done" \/ ~Alive)
=============================================================================
