------------------------------- MODULE Asock -------------------------------
(***************************************************************************)
(* Asynchronous sockets, io/asock_posix.c: one socket, its wait object,    *)
(* the descriptors of the process, and the dispatcher that delivers the    *)
(* callbacks through the run queue.  The critical sections of wait_lock    *)
(* and dispatch_lock are actions, with what their function does before the *)
(* next one.  Background workers may run several callbacks of the socket's *)
(* wait object and its dispatch task at once.  Data, addresses and the     *)
(* results of sending and receiving are left out.                          *)
(*                                                                         *)
(* Assumed of the program: it calls one function of a socket at a time,    *)
(* requests an operation again after its callback, has no accept and       *)
(* connect outstanding together (asock.h), and does not listen, connect or *)
(* destroy while operations are outstanding, since these initialise the    *)
(* wait object again.                                                      *)
(***************************************************************************)
EXTENDS Naturals, FiniteSets

CONSTANT MaxDescriptor   \* the kernel gives out descriptors up to this

ASSUME AsockAssumption == MaxDescriptor \in Nat

VARIABLES
  phase, set, cancelled, ready, err,    \* t->wait_fd
  sock,           \* t->sock, None for -1
  wait_fd,        \* t->wait_fd.fd
  wait_ops,       \* t->wait_ops
  dispatch_queue, \* t->dispatch_queue
  ca_error,       \* whether t->ca_error is set
  client,         \* t->ca_client->sock
  entered,        \* how many wait_end() have begun and not yet locked
  pushes,         \* masks with which dispatch_push() is called, before its lock
  execs,          \* how many of them are about to submit the task
  queued,         \* how often the task is in the run queue
  taking,         \* how many dispatch_func() have begun and not yet locked
  calls,          \* the callbacks the others have still to make
  open,           \* the descriptors that are open
  connected,      \* those the kernel has connected
  outstanding     \* requests that were not called back yet (history)

fdObject == <<phase, set, cancelled, ready, err>>

INSTANCE WaitObject WITH Events <- {"in", "out"}, Err <- "err"

dispatchVars == <<dispatch_queue, execs, queued, taking, calls>>
fdVars == <<sock, client, open, connected>>
asockVars == <<fdObject, fdVars, wait_fd, wait_ops, ca_error, entered, pushes, dispatchVars,
               outstanding>>

Op == {"connect", "accept", "send", "recv"}
CA == {"connect", "accept"}

Descriptors == 1..MaxDescriptor
None == 0

\* The lowest descriptor that is not in use; the set is empty if there is none.
Lowest(used) == {d \in Descriptors \ used : \A e \in Descriptors \ used : d <= e}

\* asock_init(), for this socket and for the client
Init ==
  /\ WaitInit
  /\ sock = None /\ client = None /\ open = {} /\ connected = {}
  /\ wait_fd = None /\ wait_ops = {}
  /\ ca_error = FALSE
  /\ entered = 0 /\ pushes = {}
  /\ dispatch_queue = {} /\ execs = 0 /\ queued = 0 /\ taking = 0 /\ calls = {}
  /\ outstanding = {}

-----------------------------------------------------------------------------
(* The dispatcher *)

\* Mutation: every completion submits the task.
MustExecAlways(ops) == ops /= {}

MustExec(ops) == dispatch_queue = {} /\ ops /= {}

\* The locked section of dispatch_push()
DispatchPush(ops) ==
  /\ ops \in pushes
  /\ pushes' = pushes \ {ops}
  /\ dispatch_queue' = dispatch_queue \cup ops
  /\ execs' = IF MustExec(ops) THEN execs + 1 ELSE execs
  /\ UNCHANGED <<fdObject, fdVars, wait_fd, wait_ops, ca_error, entered, queued, taking,
                 calls, outstanding>>

\* and its submission of the task
DispatchExec ==
  /\ execs > 0
  /\ execs' = execs - 1
  /\ queued' = queued + 1
  /\ UNCHANGED <<fdObject, fdVars, wait_fd, wait_ops, ca_error, entered, pushes,
                 dispatch_queue, taking, calls, outstanding>>

\* The run queue starts dispatch_func() ...
DispatchFunc ==
  /\ queued > 0
  /\ queued' = queued - 1
  /\ taking' = taking + 1
  /\ UNCHANGED <<fdObject, fdVars, wait_fd, wait_ops, ca_error, entered, pushes,
                 dispatch_queue, execs, calls, outstanding>>

\* Mutation: the queue is left as it is.
QueueAfterTakeKept == dispatch_queue

QueueAfterTake == {}

\* ... which takes what there is ...
DispatchTake ==
  /\ taking > 0
  /\ taking' = taking - 1
  /\ dispatch_queue' = QueueAfterTake
  /\ calls' = calls \cup ({dispatch_queue \cap Op} \ {{}})
  /\ UNCHANGED <<fdObject, fdVars, wait_fd, wait_ops, ca_error, entered, pushes, execs,
                 queued, outstanding>>

\* ... and makes the callbacks, in this order.
First(ops) ==
  CASE ops \cap CA /= {} -> ops \cap CA
    [] ops \cap CA = {} /\ "send" \in ops -> {"send"}
    [] OTHER -> {"recv"}

Callback(ops) ==
  /\ ops \in calls
  /\ calls' = (calls \ {ops}) \cup ({ops \ First(ops)} \ {{}})
  /\ outstanding' = outstanding \ First(ops)
  /\ UNCHANGED <<fdObject, fdVars, wait_fd, wait_ops, ca_error, entered, pushes,
                 dispatch_queue, execs, queued, taking>>

-----------------------------------------------------------------------------
(* The wait process *)

\* wait_mask(); errors are reported in any case.
WaitMask(ops) ==
  (IF ops \cap {"connect", "send"} /= {} THEN {"out"} ELSE {})
    \cup (IF ops \cap {"connect", "accept", "recv"} /= {} THEN {"in"} ELSE {})

\* The wait object calls wait_end().
WaitCallback ==
  /\ Called
  /\ entered' = entered + 1
  /\ UNCHANGED <<fdVars, wait_fd, wait_ops, ca_error, pushes, dispatchVars, outstanding>>

\* Mutation: the descriptor is not closed after a cancellation.
OpenAfterCancelKept == open

OpenAfterCancel == IF "cancel" \in wait_ops THEN open \ {wait_fd} ELSE open

\* wait_end() after a cancellation or an error of the wait object
WaitEndAll ==
  /\ entered > 0
  /\ "cancel" \in wait_ops \/ err
  /\ ca_error' = IF wait_ops \cap CA /= {} THEN err ELSE ca_error
  /\ open' = OpenAfterCancel
  /\ connected' = connected \cap open'
  /\ pushes' = pushes \cup ({wait_ops} \ {{}})
  /\ wait_ops' = {}
  /\ entered' = entered - 1
  /\ Forget
  /\ UNCHANGED <<sock, client, wait_fd, dispatchVars, outstanding>>

\* The operations that may be over, given the events: connect() is tried
\* always, the others when their event, or an error, has come.  Any of them
\* may find that it has to wait again.
MayEnd(op) ==
  CASE op = "connect" -> TRUE
    [] op = "accept" -> ready /= {}
    [] op = "send" -> ready \cap {"out", "err"} /= {}
    [] op = "recv" -> ready \cap {"in", "err"} /= {}

\* Mutation: a failed connect() is taken for one that succeeded.
FailedNever(fails) == FALSE

Failed(fails) == fails /= {}

RestWait(rest) == IF rest = {} THEN Forget ELSE Wait(WaitMask(rest))

\* accept() returns a descriptor, which replaces the client's.
Accept ==
  \E d \in Lowest(open) :
    /\ client' = d
    /\ open' = (open \ {client}) \cup {d}
    /\ UNCHANGED sock

\* wait_end() otherwise: the operations in done are over, and if one of them is
\* a connect or an accept, it may have failed.
WaitEndSome(done, fails) ==
  /\ entered > 0
  /\ ~("cancel" \in wait_ops \/ err)
  /\ IF "accept" \in done \ fails
     THEN Accept
     ELSE UNCHANGED <<sock, client, open>>
  /\ ca_error' = IF done \cap CA /= {} THEN Failed(fails) ELSE ca_error
  /\ connected' = (IF "connect" \in done \ fails THEN connected \cup {wait_fd} ELSE connected)
                    \cap open'
  /\ wait_ops' = wait_ops \ done
  /\ RestWait(wait_ops \ done)
  /\ pushes' = pushes \cup ({done} \ {{}})
  /\ entered' = entered - 1
  /\ UNCHANGED <<wait_fd, dispatchVars, outstanding>>

-----------------------------------------------------------------------------
(* The public interface *)

Rewait(s) == IF phase = "waiting" THEN Change(s) ELSE UNCHANGED fdObject

\* Mutation: a new wait is begun although one goes on.
BeginWaitOnlyNew(op) == IF wait_ops = {} THEN Wait(WaitMask({op})) ELSE UNCHANGED fdObject

\* wait_begin() for an operation
BeginWait(op) ==
  IF wait_ops = {} THEN Wait(WaitMask({op})) ELSE Rewait(WaitMask(wait_ops \cup {op}))

MayRequest(op) ==
  /\ op \notin outstanding
  /\ op \in CA => outstanding \cap CA = {}

\* asock_accept(), asock_send(), asock_recv()
Request(op) ==
  /\ MayRequest(op)
  /\ outstanding' = outstanding \cup {op}
  /\ \/ /\ sock = None
        /\ ca_error' = (ca_error \/ op \in CA)
        /\ pushes' = pushes \cup {{op}}
        /\ UNCHANGED <<fdObject, wait_ops>>
     \/ /\ sock /= None
        /\ BeginWait(op)
        /\ wait_ops' = wait_ops \cup {op}
        /\ UNCHANGED <<ca_error, pushes>>
  /\ UNCHANGED <<fdVars, wait_fd, entered, dispatchVars>>

\* A new descriptor takes the place of t->sock, which is closed first, or
\* socket() fails; wait_init().
NewSocket(d) ==
  /\ d \in Lowest(open \ {sock}) \cup {None}
  /\ sock' = d
  /\ open' = (open \ {sock}) \cup ({d} \ {None})
  /\ IF d = None
     THEN UNCHANGED <<fdObject, wait_fd, wait_ops>>
     ELSE /\ FdInit
          /\ wait_fd' = d
          /\ wait_ops' = {}
  /\ UNCHANGED <<client, entered, dispatchVars>>

\* asock_listen(); setsockopt(), bind() or listen() may fail as well.
Listen ==
  /\ outstanding = {}
  /\ \E d \in Descriptors \cup {None}, f \in BOOLEAN :
       /\ NewSocket(d)
       /\ ca_error' = (d = None \/ f \/ ca_error)
  /\ connected' = connected \ {sock}
  /\ UNCHANGED <<pushes, outstanding>>

\* asock_connect() when it ends at once: socket() or connect() failed, or
\* connect() succeeded and errno is what an earlier call has left there.
ConnectAtOnce ==
  /\ outstanding = {}
  /\ outstanding' = {"connect"}
  /\ \E d \in Descriptors \cup {None} :
       /\ NewSocket(d)
       /\ \/ /\ ca_error' = TRUE
             /\ connected' = connected \ {sock}
          \/ /\ d /= None
             /\ ca_error' \in BOOLEAN
             /\ connected' = (connected \ {sock}) \cup {d}
  /\ pushes' = pushes \cup {{"connect"}}

\* asock_connect() when connect() is in progress, or has succeeded and errno
\* is left over and says so.
ConnectLater ==
  /\ outstanding = {}
  /\ outstanding' = {"connect"}
  /\ \E d \in Lowest(open \ {sock}), now \in BOOLEAN :
       /\ sock' = d
       /\ open' = (open \ {sock}) \cup {d}
       /\ wait_fd' = d
       /\ connected' = (connected \ {sock}) \cup (IF now THEN {d} ELSE {})
  /\ wait_ops' = {"connect"}
  /\ phase' = "waiting" /\ set' = WaitMask({"connect"}) /\ cancelled' = FALSE
  /\ ready' = {} /\ err' = FALSE
  /\ UNCHANGED <<client, ca_error, entered, pushes, dispatchVars>>

OpenAfterClose == IF wait_ops = {} THEN open \ {sock} ELSE open

\* Mutation: the operations are not cancelled, only marked.
CancelWaitNot == UNCHANGED fdObject

CancelWait == Rewait({})

\* asock_close()
Close ==
  /\ sock /= None
  /\ open' = OpenAfterClose
  /\ connected' = connected \cap open'
  /\ IF wait_ops = {}
     THEN UNCHANGED <<fdObject, wait_ops>>
     ELSE CancelWait /\ wait_ops' = wait_ops \cup {"cancel"}
  /\ sock' = None
  /\ UNCHANGED <<client, wait_fd, ca_error, entered, pushes, dispatchVars, outstanding>>

\* The program closes the client that was accepted.
CloseClient ==
  /\ client /= None
  /\ "accept" \notin outstanding
  /\ client' = None
  /\ open' = open \ {client}
  /\ UNCHANGED <<fdObject, sock, connected, wait_fd, wait_ops, ca_error, entered, pushes,
                 dispatchVars, outstanding>>

WaitStep(A) ==
  A /\ UNCHANGED <<fdVars, wait_fd, wait_ops, ca_error, entered, pushes, dispatchVars, outstanding>>

WaitEnd ==
  \/ WaitEndAll
  \/ \E done \in SUBSET {op \in wait_ops \cap Op : MayEnd(op)} :
       \E fails \in SUBSET (done \cap CA) : WaitEndSome(done, fails)

WaitProcess == WaitStep(Drop) \/ WaitCallback \/ WaitEnd
Dispatcher == DispatchExec \/ DispatchFunc \/ DispatchTake

\* What brings an operation that is over to its callback.
Delivery(op) ==
  \/ \E ops \in pushes : op \in ops /\ DispatchPush(ops)
  \/ \E ops \in calls : op \in First(ops) /\ Callback(ops)

Next ==
  \/ \E op \in Op \ {"connect"} : Request(op)
  \/ Listen
  \/ ConnectAtOnce
  \/ ConnectLater
  \/ Close
  \/ CloseClient
  \/ WaitProcess
  \/ Dispatcher
  \/ \E op \in Op : Delivery(op)
  \/ WaitStep(Report)
  \/ WaitStep(Refuse)

Spec == Init /\ [][Next]_asockVars

\* As for files: the IO queue ends cancelled waits, its callbacks and the run
\* queue's tasks run, and callbacks return.  Events need not come.  (Of the
\* steps of WaitProcess, of Dispatcher, and of Delivery(op), one at most is
\* possible at a time.)
FairSpec ==
  /\ Spec
  /\ WF_asockVars(WaitProcess)
  /\ WF_asockVars(Dispatcher)
  /\ \A op \in Op : WF_asockVars(Delivery(op))

-----------------------------------------------------------------------------
(* Properties *)

Places(op) ==
  (IF op \in wait_ops THEN 1 ELSE 0) + Cardinality({ops \in pushes : op \in ops})
    + (IF op \in dispatch_queue THEN 1 ELSE 0) + Cardinality({ops \in calls : op \in ops})

\* Each operation is called back once: a request is in exactly one of the
\* masks from wait_begin() to its callback, and nothing else is in any.
SocketRequestsOnce ==
  \A op \in Op : Places(op) = IF op \in outstanding THEN 1 ELSE 0

\* Operations are waited for: wait_ops is empty exactly when no wait goes on
\* and no wait_end() is about to look, a wait covers every operation's events
\* unless it is being cancelled.
SocketWaitArmed ==
  /\ entered <= 1
  /\ (wait_ops = {}) <=> (phase = "idle" /\ entered = 0)
  /\ (phase = "waiting" /\ set /= {}) => WaitMask(wait_ops) \subseteq set
  /\ ("cancel" \in wait_ops /\ phase = "waiting") => set = {}

\* Completions are delivered: while something is in dispatch_queue the task is
\* on its way, once, and never submitted a second time; once the last request
\* was called back nothing refers to the socket, which may be destroyed.
DispatcherArmed ==
  /\ (dispatch_queue /= {}) <=> (execs + queued + taking = 1)
  /\ execs + queued + taking <= 1
  /\ outstanding = {} => pushes = {} /\ dispatch_queue = {} /\ calls = {}

\* Descriptors are neither lost nor closed twice nor used after they are
\* closed: what is open is the socket's, the client's, or that of a wait that
\* is being cancelled, these are different, and they are open.
DescriptorsOwned ==
  LET waiting == IF wait_ops = {} THEN {} ELSE {wait_fd}
      cancelling == IF "cancel" \in wait_ops THEN {wait_fd} ELSE {}
  IN  /\ open = (({sock, client} \ {None}) \cup cancelling)
      /\ waiting \subseteq open
      /\ "cancel" \notin wait_ops /\ wait_ops /= {} => wait_fd = sock
      /\ client /= None => client \notin {sock} \cup cancelling

\* A connect that is reported without an error has connected the socket,
\* unless the program has closed it meanwhile.
ConnectedIfNoError ==
  (\E ops \in calls : "connect" \in ops) /\ ~ca_error /\ sock /= None => sock \in connected

\* Closing ends all outstanding operations, events or not.
CloseEndsAll ==
  \A op \in Op : (sock = None /\ op \in outstanding) ~> op \notin outstanding
=============================================================================
