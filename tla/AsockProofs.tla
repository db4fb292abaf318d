---------------------------- MODULE AsockProofs ----------------------------
(***************************************************************************)
(* Proofs about Asock, for any number of descriptors.  The parts of the    *)
(* inductive invariant that the properties do not state themselves: the    *)
(* masks between the wait process and the callbacks are disjoint and none  *)
(* of them is empty of operations; at most one of accept and connect is    *)
(* outstanding; a socket that is open is the one the wait object is for,   *)
(* and a wait that is being cancelled leaves no socket; and a connect that *)
(* is on its way to its callback without an error is connected.            *)
(***************************************************************************)
EXTENDS Asock, FiniteSetTheorems, TLAPS

FlagsTyped == cancelled \in BOOLEAN /\ err \in BOOLEAN /\ ca_error \in BOOLEAN

CountsTyped == entered \in Nat /\ execs \in Nat /\ queued \in Nat /\ taking \in Nat

SetsTyped ==
  /\ phase \in {"idle", "waiting", "over"}
  /\ set \in SUBSET {"in", "out"}
  /\ ready \in SUBSET {"in", "out", "err"}
  /\ sock \in Descriptors \cup {None}
  /\ client \in Descriptors \cup {None}
  /\ wait_fd \in Descriptors \cup {None}
  /\ open \in SUBSET Descriptors
  /\ connected \in SUBSET Descriptors
  /\ wait_ops \in SUBSET (Op \cup {"cancel"})
  /\ pushes \in SUBSET (SUBSET (Op \cup {"cancel"}))
  /\ dispatch_queue \in SUBSET (Op \cup {"cancel"})
  /\ calls \in SUBSET (SUBSET Op)
  /\ outstanding \in SUBSET Op

Typed == FlagsTyped /\ CountsTyped /\ SetsTyped

Pushed(op) == \E ops \in pushes : op \in ops
Calling(op) == \E ops \in calls : op \in ops

\* An operation is in one mask, and outstanding if it is in any.
Placed(op) ==
  /\ op \in outstanding <=>
       op \in wait_ops \/ Pushed(op) \/ op \in dispatch_queue \/ Calling(op)
  /\ op \in wait_ops => ~Pushed(op) /\ op \notin dispatch_queue /\ ~Calling(op)
  /\ Pushed(op) => op \notin dispatch_queue /\ ~Calling(op)
  /\ op \in dispatch_queue => ~Calling(op)

\* No operation is in two of several masks.
Apart(masks) == \A a, b \in masks, op \in Op : op \in a /\ op \in b => a = b

\* A mask that is not empty holds an operation, not only the cancellation.
Masks ==
  /\ wait_ops /= {} => wait_ops \cap Op /= {}
  /\ dispatch_queue /= {} => dispatch_queue \cap Op /= {}
  /\ \A ops \in pushes : ops \cap Op /= {}
  /\ \A ops \in calls : ops /= {}

OneCA == "connect" \notin outstanding \/ "accept" \notin outstanding

RequestInv ==
  /\ \A op \in Op : Placed(op)
  /\ Apart(pushes)
  /\ Apart(calls)
  /\ Masks
  /\ OneCA

\* The wait object and the wait process.
WaitInv ==
  /\ entered = 0 \/ (entered = 1 /\ phase = "idle")
  /\ SocketWaitArmed

\* The dispatch task is on its way exactly while there is something to take.
TaskInv ==
  /\ (dispatch_queue /= {}) <=> (execs + queued + taking = 1)
  /\ execs + queued + taking <= 1

\* The socket's descriptor is the one that is waited for.
SocketInv ==
  /\ sock /= None => wait_fd = sock
  /\ "cancel" \in wait_ops => sock = None
  /\ DescriptorsOwned

\* A connect that is over without an error has connected the socket.
ConnectInv ==
  ("connect" \in outstanding /\ "connect" \notin wait_ops /\ ~ca_error /\ sock /= None)
    => sock \in connected

---------------------------------------------------------------------------
(* Type correctness *)

\* The lowest free descriptor is one, and is free.
LEMMA LowestFree == \A used : Lowest(used) \subseteq Descriptors \ used
BY DEF Lowest

\* Descriptors are not None.
LEMMA NoneIsNone == None \notin Descriptors
BY AsockAssumption DEF None, Descriptors

\* wait_mask() asks for events.
LEMMA MaskTyped == \A ops : WaitMask(ops) \in SUBSET {"in", "out"}
BY DEF WaitMask

\* Every step keeps the flags Boolean.
LEMMA FlagsStep == FlagsTyped /\ [Next]_asockVars => FlagsTyped'
<1> SUFFICES ASSUME FlagsTyped, [Next]_asockVars PROVE FlagsTyped'
  OBVIOUS
<1> USE DEF FlagsTyped, fdObject, fdVars, dispatchVars
<1>1. ASSUME NEW op \in Op, Request(op) PROVE FlagsTyped'
  <2>1. cancelled' \in BOOLEAN
    BY <1>1 DEF Request, BeginWait, Rewait, Wait, Change
  <2>2. err' \in BOOLEAN
    BY <1>1 DEF Request, BeginWait, Rewait, Wait, Change
  <2>3. ca_error' \in BOOLEAN
    BY <1>1 DEF Request
  <2>4. QED
    BY <2>1, <2>2, <2>3
<1>2. CASE Listen
  BY <1>2 DEF Listen, NewSocket, FdInit
<1>3. CASE ConnectAtOnce
  BY <1>3 DEF ConnectAtOnce, NewSocket, FdInit
<1>4. CASE ConnectLater
  BY <1>4 DEF ConnectLater
<1>5. CASE Close
  BY <1>5 DEF Close, CancelWait, Rewait, Change
<1>6. CASE CloseClient
  BY <1>6 DEF CloseClient
<1>7. CASE WaitStep(Drop) \/ WaitStep(Report) \/ WaitStep(Refuse)
  BY <1>7 DEF WaitStep, Drop, Report, Refuse
<1>8. CASE WaitCallback
  BY <1>8 DEF WaitCallback, Called
<1>9. CASE WaitEndAll
  BY <1>9 DEF WaitEndAll, Forget
<1>10. ASSUME NEW done, NEW fails, WaitEndSome(done, fails) PROVE FlagsTyped'
  BY <1>10 DEF WaitEndSome, RestWait, Wait, Forget, Failed
<1>11. CASE Dispatcher
  BY <1>11 DEF Dispatcher, DispatchExec, DispatchFunc, DispatchTake
<1>12. ASSUME NEW ops, DispatchPush(ops) \/ Callback(ops) PROVE FlagsTyped'
  BY <1>12 DEF DispatchPush, Callback
<1>13. CASE UNCHANGED asockVars
  BY <1>13 DEF asockVars
<1>14. QED
  BY <1>1, <1>2, <1>3, <1>4, <1>5, <1>6, <1>7, <1>8, <1>9, <1>10, <1>11, <1>12, <1>13
     DEF Next, WaitProcess, WaitEnd, Delivery

\* Every step keeps the counters natural numbers.
LEMMA CountsStep == CountsTyped /\ [Next]_asockVars => CountsTyped'
<1> SUFFICES ASSUME CountsTyped, [Next]_asockVars PROVE CountsTyped'
  OBVIOUS
<1> USE DEF CountsTyped, fdObject, fdVars, dispatchVars
<1>1. ASSUME NEW op \in Op, Request(op) PROVE CountsTyped'
  BY <1>1 DEF Request
<1>2. CASE Listen \/ ConnectAtOnce \/ ConnectLater
  BY <1>2 DEF Listen, ConnectAtOnce, ConnectLater, NewSocket
<1>3. CASE Close \/ CloseClient
  BY <1>3 DEF Close, CloseClient
<1>4. CASE WaitStep(Drop) \/ WaitStep(Report) \/ WaitStep(Refuse)
  BY <1>4 DEF WaitStep
<1>5. CASE WaitCallback \/ WaitEndAll
  BY <1>5 DEF WaitCallback, WaitEndAll
<1>6. ASSUME NEW done, NEW fails, WaitEndSome(done, fails) PROVE CountsTyped'
  BY <1>6 DEF WaitEndSome
<1>7. CASE Dispatcher
  BY <1>7 DEF Dispatcher, DispatchExec, DispatchFunc, DispatchTake
<1>8. ASSUME NEW ops, DispatchPush(ops) \/ Callback(ops) PROVE CountsTyped'
  BY <1>8 DEF DispatchPush, Callback
<1>9. CASE UNCHANGED asockVars
  BY <1>9 DEF asockVars
<1>10. QED
  BY <1>1, <1>2, <1>3, <1>4, <1>5, <1>6, <1>7, <1>8, <1>9
     DEF Next, WaitProcess, WaitEnd, Delivery

\* Every step preserves the type invariant.
LEMMA TypeStep == Typed /\ [Next]_asockVars => Typed'
<1> SUFFICES ASSUME SetsTyped, [Next]_asockVars PROVE SetsTyped'
  BY FlagsStep, CountsStep DEF Typed
<1> USE DEF SetsTyped, fdObject, fdVars, dispatchVars
<1>1. ASSUME NEW op \in Op \ {"connect"}, Request(op) PROVE SetsTyped'
  <2>1. phase' \in {"idle", "waiting", "over"} /\ set' \in SUBSET {"in", "out"}
        /\ ready' \in SUBSET {"in", "out", "err"}
    BY <1>1, MaskTyped DEF Request, BeginWait, Rewait, Wait, Change
  <2>2. /\ wait_ops' \in SUBSET (Op \cup {"cancel"})
        /\ pushes' \in SUBSET (SUBSET (Op \cup {"cancel"}))
        /\ outstanding' \in SUBSET Op
    BY <1>1 DEF Request
  <2>3. QED
    BY <1>1, <2>1, <2>2 DEF Request
<1>2. ASSUME NEW d \in Descriptors \cup {None}, NewSocket(d)
      PROVE  /\ phase' \in {"idle", "waiting", "over"} /\ set' \in SUBSET {"in", "out"}
             /\ ready' \in SUBSET {"in", "out", "err"} /\ sock' \in Descriptors \cup {None}
             /\ wait_fd' \in Descriptors \cup {None} /\ open' \in SUBSET Descriptors
             /\ wait_ops' \in SUBSET (Op \cup {"cancel"})
             /\ UNCHANGED <<client, dispatchVars>>
  BY <1>2 DEF NewSocket, FdInit
<1>3. CASE Listen
  BY <1>2, <1>3 DEF Listen
<1>4. CASE ConnectAtOnce
  BY <1>2, <1>4 DEF ConnectAtOnce, Op
<1>5. CASE ConnectLater
  BY <1>5, LowestFree, MaskTyped DEF ConnectLater, Op
<1>6. CASE Close
  <2>1. /\ phase' \in {"idle", "waiting", "over"} /\ set' \in SUBSET {"in", "out"}
        /\ ready' \in SUBSET {"in", "out", "err"}
    BY <1>6 DEF Close, CancelWait, Rewait, Change
  <2>2. /\ sock' = None /\ open' \in SUBSET Descriptors /\ connected' \in SUBSET Descriptors
        /\ wait_ops' \in SUBSET (Op \cup {"cancel"})
    BY <1>6 DEF Close, OpenAfterClose
  <2>3. QED
    BY <1>6, <2>1, <2>2 DEF Close
<1>7. CASE CloseClient
  BY <1>7 DEF CloseClient
<1>8. CASE WaitStep(Drop) \/ WaitStep(Report) \/ WaitStep(Refuse)
  BY <1>8 DEF WaitStep, Drop, Report, Refuse
<1>9. CASE WaitCallback
  BY <1>9 DEF WaitCallback, Called
<1>10. CASE WaitEndAll
  BY <1>10 DEF WaitEndAll, OpenAfterCancel, Forget
<1>11. ASSUME NEW done \in SUBSET (wait_ops \cap Op), NEW fails \in SUBSET (done \cap CA),
              WaitEndSome(done, fails)
       PROVE  SetsTyped'
  <2>1. phase' \in {"idle", "waiting", "over"} /\ set' \in SUBSET {"in", "out"}
        /\ ready' \in SUBSET {"in", "out", "err"}
    BY <1>11, MaskTyped DEF WaitEndSome, RestWait, Wait, Forget
  <2>2. /\ sock' = sock /\ client' \in Descriptors \cup {None} /\ open' \in SUBSET Descriptors
    BY <1>11, LowestFree DEF WaitEndSome, Accept
  <2>3. /\ wait_ops' \in SUBSET (Op \cup {"cancel"})
        /\ pushes' \in SUBSET (SUBSET (Op \cup {"cancel"}))
        /\ connected' \in SUBSET Descriptors
    BY <1>11, <2>2 DEF WaitEndSome
  <2>4. QED
    BY <1>11, <2>1, <2>2, <2>3 DEF WaitEndSome
<1>12. CASE DispatchExec \/ DispatchFunc
  BY <1>12 DEF DispatchExec, DispatchFunc
<1>13. CASE DispatchTake
  BY <1>13 DEF DispatchTake, QueueAfterTake
<1>14. ASSUME NEW ops \in pushes, DispatchPush(ops) PROVE SetsTyped'
  BY <1>14 DEF DispatchPush
<1>15. ASSUME NEW ops \in calls, Callback(ops) PROVE SetsTyped'
  BY <1>15 DEF Callback
<1>16. CASE UNCHANGED asockVars
  BY <1>16 DEF asockVars
<1>17. QED
  BY <1>1, <1>3, <1>4, <1>5, <1>6, <1>7, <1>8, <1>9, <1>10, <1>11, <1>12, <1>13, <1>14,
     <1>15, <1>16
     DEF Next, WaitProcess, WaitEnd, Dispatcher, Delivery

\* The state of a socket is well formed.
THEOREM TypeCorrect == Spec => []Typed
<1>1. Init => FlagsTyped
  BY DEF Init, WaitInit, FlagsTyped
<1>2. Init => CountsTyped
  BY DEF Init, CountsTyped
<1>3. Init => SetsTyped
  BY DEF Init, WaitInit, SetsTyped
<1>4. QED
  BY <1>1, <1>2, <1>3, TypeStep, PTL DEF Spec, Typed

---------------------------------------------------------------------------
(* Requests and masks *)

\* Without a request all masks are empty.
LEMMA NothingPending ==
  ASSUME Typed, RequestInv, outstanding = {}
  PROVE  wait_ops = {} /\ pushes = {} /\ dispatch_queue = {} /\ calls = {}
<1>1. wait_ops \cap Op = {} /\ dispatch_queue \cap Op = {}
  BY DEF RequestInv, Placed
<1>2. \A ops \in pushes : ops \cap Op = {}
  BY DEF RequestInv, Placed, Pushed
<1>3. \A ops \in calls : ops \cap Op = {} /\ ops \in SUBSET Op
  BY DEF RequestInv, Placed, Calling, Typed, SetsTyped
<1>4. QED
  BY <1>1, <1>2, <1>3 DEF RequestInv, Masks

\* The masks do not change.
LEMMA RequestFrame ==
  ASSUME RequestInv, UNCHANGED <<wait_ops, pushes, dispatch_queue, calls, outstanding>>
  PROVE  RequestInv'
BY DEF RequestInv, Placed, Pushed, Calling, Apart, Masks, OneCA

\* The operations in ops leave wait_ops, and dispatch_push() is called with them.
LEMMA RequestEnds ==
  ASSUME Typed, RequestInv, NEW ops \in SUBSET wait_ops, wait_ops' \cap Op = (wait_ops \ ops) \cap Op,
         ops /= {} => ops \cap Op /= {}, wait_ops' /= {} => wait_ops' \cap Op /= {},
         pushes' = pushes \cup ({ops} \ {{}}),
         UNCHANGED <<dispatch_queue, calls, outstanding>>
  PROVE  RequestInv'
<1>1. ASSUME NEW op \in Op PROVE Placed(op)'
  <2>1. Pushed(op)' <=> Pushed(op) \/ op \in ops
    BY DEF Pushed
  <2>2. Calling(op)' <=> Calling(op)
    BY DEF Calling
  <2>3. op \in wait_ops' <=> op \in wait_ops /\ op \notin ops
    OBVIOUS
  <2>4. QED
    BY <2>1, <2>2, <2>3 DEF RequestInv, Placed
<1>2. Apart(pushes)'
  <2> SUFFICES ASSUME NEW a \in pushes', NEW b \in pushes', NEW op \in Op, op \in a, op \in b
               PROVE  a = b
    BY DEF Apart
  <2>1. op \in ops => op \in wait_ops /\ ~Pushed(op)
    BY DEF RequestInv, Placed
  <2>2. QED
    BY <2>1 DEF RequestInv, Apart, Pushed
<1>3. Apart(calls)' /\ Masks' /\ OneCA'
  BY DEF RequestInv, Apart, Masks, OneCA
<1>4. QED
  BY <1>1, <1>2, <1>3 DEF RequestInv

\* A new request, which waits or ends at once.
LEMMA RequestBegins ==
  ASSUME Typed, RequestInv, NEW op \in Op, MayRequest(op), outstanding' = outstanding \cup {op},
         \/ wait_ops' = wait_ops \cup {op} /\ pushes' = pushes
         \/ wait_ops' = wait_ops /\ pushes' = pushes \cup {{op}},
         UNCHANGED <<dispatch_queue, calls>>
  PROVE  RequestInv'
<1>1. op \notin wait_ops /\ ~Pushed(op) /\ op \notin dispatch_queue /\ ~Calling(op)
  BY DEF RequestInv, Placed, MayRequest
<1>2. ASSUME NEW p \in Op PROVE Placed(p)'
  <2>1. Calling(p)' <=> Calling(p)
    BY DEF Calling
  <2>2. CASE wait_ops' = wait_ops \cup {op} /\ pushes' = pushes
    BY <1>1, <2>1, <2>2 DEF RequestInv, Placed, Pushed
  <2>3. CASE wait_ops' = wait_ops /\ pushes' = pushes \cup {{op}}
    <3>1. Pushed(p)' <=> Pushed(p) \/ p = op
      BY <2>3 DEF Pushed
    <3>2. QED
      BY <1>1, <2>1, <2>3, <3>1 DEF RequestInv, Placed
  <2>4. QED
    BY <2>2, <2>3
<1>3. Apart(pushes)'
  <2> SUFFICES ASSUME NEW a \in pushes', NEW b \in pushes', NEW p \in Op, p \in a, p \in b
               PROVE  a = b
    BY DEF Apart
  <2>1. /\ a \in pushes \/ a = {op}
        /\ b \in pushes \/ b = {op}
    OBVIOUS
  <2>2. \A c \in pushes : op \notin c
    BY <1>1 DEF Pushed
  <2>3. CASE p = op
    BY <2>1, <2>2, <2>3
  <2>4. CASE p /= op
    <3>1. a \in pushes /\ b \in pushes
      BY <2>1, <2>4
    <3>2. QED
      BY <3>1 DEF RequestInv, Apart
  <2>5. QED
    BY <2>3, <2>4
<1>4. Apart(calls)' /\ Masks'
  BY DEF RequestInv, Apart, Masks
<1>5. OneCA'
  BY DEF RequestInv, OneCA, MayRequest, CA
<1>6. QED
  BY <1>2, <1>3, <1>4, <1>5 DEF RequestInv

\* Every step keeps each request in one mask.
LEMMA RequestStep == Typed /\ RequestInv /\ [Next]_asockVars => RequestInv'
<1> SUFFICES ASSUME Typed, RequestInv, [Next]_asockVars PROVE RequestInv'
  OBVIOUS
<1> USE DEF fdObject, fdVars, dispatchVars
<1>1. ASSUME NEW op \in Op \ {"connect"}, Request(op) PROVE RequestInv'
  BY <1>1, RequestBegins DEF Request
<1>2. CASE Listen
  <2>1. wait_ops' = {} /\ wait_ops = {}
    BY <1>2, NothingPending DEF Listen, NewSocket
  <2>2. QED
    BY <1>2, <2>1, RequestFrame DEF Listen, NewSocket
<1>3. CASE ConnectAtOnce
  <2>1. wait_ops' = wait_ops /\ MayRequest("connect")
    BY <1>3, NothingPending DEF ConnectAtOnce, NewSocket, MayRequest
  <2>2. QED
    BY <1>3, <2>1, RequestBegins DEF ConnectAtOnce, NewSocket, Op
<1>4. CASE ConnectLater
  <2>1. wait_ops' = wait_ops \cup {"connect"} /\ MayRequest("connect")
    BY <1>4, NothingPending DEF ConnectLater, MayRequest
  <2>2. QED
    BY <1>4, <2>1, RequestBegins DEF ConnectLater, Op
<1>5. CASE Close
  <2>1. CASE wait_ops = {}
    BY <1>5, <2>1, RequestFrame DEF Close
  <2>2. CASE wait_ops /= {}
    <3>1. wait_ops' \cap Op = (wait_ops \ {}) \cap Op /\ wait_ops \cap Op /= {}
      BY <1>5, <2>2 DEF Close, Op, RequestInv, Masks
    <3>2. pushes' = pushes \cup ({{}} \ {{}})
      BY <1>5 DEF Close
    <3>3. QED
      BY <1>5, <3>1, <3>2, RequestEnds DEF Close
  <2>3. QED
    BY <2>1, <2>2
<1>6. CASE CloseClient
  BY <1>6, RequestFrame DEF CloseClient
<1>7. CASE WaitStep(Drop) \/ WaitStep(Report) \/ WaitStep(Refuse)
  BY <1>7, RequestFrame DEF WaitStep
<1>8. CASE WaitCallback
  BY <1>8, RequestFrame DEF WaitCallback
<1>9. CASE WaitEndAll
  <2>1. wait_ops' \cap Op = (wait_ops \ wait_ops) \cap Op /\ wait_ops' = {}
    BY <1>9 DEF WaitEndAll
  <2>2. QED
    BY <1>9, <2>1, RequestEnds DEF WaitEndAll, RequestInv, Masks
<1>10. ASSUME NEW done \in SUBSET (wait_ops \cap Op), NEW fails, WaitEndSome(done, fails)
       PROVE  RequestInv'
  <2>1. wait_ops' = wait_ops \ done /\ "cancel" \notin wait_ops
    BY <1>10 DEF WaitEndSome
  <2>2. wait_ops' \in SUBSET Op
    BY <2>1 DEF Typed, SetsTyped
  <2>3. QED
    BY <1>10, <2>1, <2>2, RequestEnds DEF WaitEndSome
<1>11. CASE DispatchExec \/ DispatchFunc
  BY <1>11, RequestFrame DEF DispatchExec, DispatchFunc
<1>12. CASE DispatchTake
  <2>1. dispatch_queue' = {} /\ calls' = calls \cup ({dispatch_queue \cap Op} \ {{}})
        /\ UNCHANGED <<wait_ops, pushes, outstanding>>
    BY <1>12 DEF DispatchTake, QueueAfterTake
  <2>2. ASSUME NEW op \in Op PROVE Placed(op)'
    <3>1. Calling(op)' <=> Calling(op) \/ op \in dispatch_queue
      BY <2>1 DEF Calling
    <3>2. Pushed(op)' <=> Pushed(op)
      BY <2>1 DEF Pushed
    <3>3. QED
      BY <2>1, <3>1, <3>2 DEF RequestInv, Placed
  <2>3. Apart(calls)'
    BY <2>1 DEF RequestInv, Apart, Placed, Calling
  <2>4. Apart(pushes)' /\ Masks' /\ OneCA'
    BY <2>1 DEF RequestInv, Apart, Masks, OneCA
  <2>5. QED
    BY <2>2, <2>3, <2>4 DEF RequestInv
<1>13. ASSUME NEW ops \in pushes, DispatchPush(ops) PROVE RequestInv'
  <2>1. /\ pushes' = pushes \ {ops} /\ dispatch_queue' = dispatch_queue \cup ops
        /\ UNCHANGED <<wait_ops, calls, outstanding>>
    BY <1>13 DEF DispatchPush
  <2>2. ASSUME NEW op \in Op PROVE Placed(op)'
    <3>1. Calling(op)' <=> Calling(op)
      BY <2>1 DEF Calling
    <3>2. Pushed(op)' <=> Pushed(op) /\ op \notin ops
      BY <2>1 DEF Pushed, RequestInv, Apart
    <3>3. op \in ops => Pushed(op)
      BY DEF Pushed
    <3>4. QED
      BY <2>1, <3>1, <3>2, <3>3 DEF RequestInv, Placed
  <2>3. Apart(pushes)' /\ Apart(calls)' /\ OneCA'
    BY <2>1 DEF RequestInv, Apart, OneCA
  <2>4. Masks'
    BY <2>1 DEF RequestInv, Masks
  <2>5. QED
    BY <2>2, <2>3, <2>4 DEF RequestInv
<1>14. ASSUME NEW ops \in calls, Callback(ops) PROVE RequestInv'
  <2>1. /\ calls' = (calls \ {ops}) \cup ({ops \ First(ops)} \ {{}})
        /\ outstanding' = outstanding \ First(ops)
        /\ UNCHANGED <<wait_ops, pushes, dispatch_queue>>
    BY <1>14 DEF Callback
  <2>2. First(ops) \in SUBSET ops /\ ops \in SUBSET Op
    <3>1. ops \in SUBSET Op /\ ops /= {}
      BY DEF Typed, SetsTyped, RequestInv, Masks
    <3>2. QED
      BY <3>1 DEF First, Op, CA
  <2>3. ASSUME NEW op \in Op PROVE Placed(op)'
    <3>1. Pushed(op)' <=> Pushed(op)
      BY <2>1 DEF Pushed
    <3>2. Calling(op)' <=> Calling(op) /\ op \notin First(ops)
      <4>1. \A c \in calls : op \in ops /\ op \in c => c = ops
        BY DEF RequestInv, Apart
      <4>2. CASE op \in First(ops)
        BY <2>1, <2>2, <4>1, <4>2 DEF Calling
      <4>3. CASE op \in ops \ First(ops)
        <5>1. ops \ First(ops) \in calls'
          BY <2>1, <4>3
        <5>2. QED
          BY <4>3, <5>1 DEF Calling
      <4>4. CASE op \notin ops
        BY <2>1, <2>2, <4>4 DEF Calling
      <4>5. QED
        BY <4>2, <4>3, <4>4
    <3>3. op \in First(ops) => Calling(op)
      BY <2>2 DEF Calling
    <3>4. QED
      BY <2>1, <3>1, <3>2, <3>3 DEF RequestInv, Placed
  <2>4. Apart(calls)'
    BY <2>1 DEF RequestInv, Apart
  <2>5. Apart(pushes)' /\ Masks' /\ OneCA'
    BY <2>1 DEF RequestInv, Apart, Masks, OneCA
  <2>6. QED
    BY <2>3, <2>4, <2>5 DEF RequestInv
<1>15. CASE UNCHANGED asockVars
  BY <1>15, RequestFrame DEF asockVars
<1>16. QED
  BY <1>1, <1>2, <1>3, <1>4, <1>5, <1>6, <1>7, <1>8, <1>9, <1>10, <1>11, <1>12, <1>13,
     <1>14, <1>15
     DEF Next, WaitProcess, WaitEnd, Dispatcher, Delivery

\* A set of masks without common operations has at most one that holds op.
LEMMA MasksOf ==
  ASSUME NEW masks, Apart(masks), NEW op \in Op
  PROVE  Cardinality({ops \in masks : op \in ops}) =
           IF \E ops \in masks : op \in ops THEN 1 ELSE 0
<1>1. CASE \E ops \in masks : op \in ops
  <2>1. PICK a \in masks : op \in a
    BY <1>1
  <2>2. {ops \in masks : op \in ops} = {a}
    BY <2>1 DEF Apart
  <2>3. QED
    BY <1>1, <2>2, FS_Singleton
<1>2. CASE ~\E ops \in masks : op \in ops
  <2>1. {ops \in masks : op \in ops} = {}
    BY <1>2
  <2>2. QED
    BY <1>2, <2>1, FS_EmptySet
<1>3. QED
  BY <1>1, <1>2

\* The requests are placed well at all times.
LEMMA RequestAlways == Spec => []RequestInv
<1>1. Init => RequestInv
  BY DEF Init, RequestInv, Placed, Pushed, Calling, Apart, Masks, OneCA
<1>2. QED
  BY <1>1, RequestStep, TypeCorrect, PTL DEF Spec

\* Each operation is called back once: a request is in exactly one mask from
\* wait_begin() to its callback, and nothing else is in any.
THEOREM OneCallbackPerRequest == Spec => []SocketRequestsOnce
<1>1. RequestInv => SocketRequestsOnce
  <2> SUFFICES ASSUME RequestInv, NEW op \in Op
               PROVE  Places(op) = IF op \in outstanding THEN 1 ELSE 0
    BY DEF SocketRequestsOnce
  <2>1. /\ Cardinality({ops \in pushes : op \in ops}) = IF Pushed(op) THEN 1 ELSE 0
        /\ Cardinality({ops \in calls : op \in ops}) = IF Calling(op) THEN 1 ELSE 0
    BY MasksOf DEF RequestInv, Pushed, Calling
  <2>2. Placed(op)
    BY DEF RequestInv
  <2>3. QED
    BY <2>1, <2>2 DEF Places, Placed
<1>2. QED
  BY <1>1, RequestAlways, PTL

---------------------------------------------------------------------------
(* The dispatcher *)

\* Every step keeps the dispatch task on its way while there is work for it.
LEMMA TaskStep == Typed /\ RequestInv /\ TaskInv /\ [Next]_asockVars => TaskInv'
<1> SUFFICES ASSUME Typed, RequestInv, TaskInv, [Next]_asockVars PROVE TaskInv'
  OBVIOUS
<1> USE DEF TaskInv, fdObject, fdVars, dispatchVars
<1>1. ASSUME UNCHANGED <<dispatch_queue, execs, queued, taking>> PROVE TaskInv'
  BY <1>1
<1>2. ASSUME NEW op \in Op, Request(op) PROVE TaskInv'
  BY <1>1, <1>2 DEF Request
<1>3. CASE Listen \/ ConnectAtOnce \/ ConnectLater
  BY <1>1, <1>3 DEF Listen, ConnectAtOnce, ConnectLater, NewSocket
<1>4. CASE Close \/ CloseClient
  BY <1>1, <1>4 DEF Close, CloseClient
<1>5. CASE WaitStep(Drop) \/ WaitStep(Report) \/ WaitStep(Refuse)
  BY <1>1, <1>5 DEF WaitStep
<1>6. CASE WaitCallback \/ WaitEndAll
  BY <1>1, <1>6 DEF WaitCallback, WaitEndAll
<1>7. ASSUME NEW done, NEW fails, WaitEndSome(done, fails) PROVE TaskInv'
  BY <1>1, <1>7 DEF WaitEndSome
<1>8. CASE DispatchExec \/ DispatchFunc
  BY <1>8 DEF DispatchExec, DispatchFunc, Typed, CountsTyped
<1>9. CASE DispatchTake
  BY <1>9 DEF DispatchTake, QueueAfterTake, Typed, CountsTyped
<1>10. ASSUME NEW ops \in pushes, DispatchPush(ops) PROVE TaskInv'
  <2>1. ops /= {}
    BY DEF RequestInv, Masks
  <2>2. QED
    BY <1>10, <2>1 DEF DispatchPush, MustExec, Typed, CountsTyped
<1>11. ASSUME NEW ops, Callback(ops) PROVE TaskInv'
  BY <1>1, <1>11 DEF Callback
<1>12. CASE UNCHANGED asockVars
  BY <1>1, <1>12 DEF asockVars
<1>13. QED
  BY <1>2, <1>3, <1>4, <1>5, <1>6, <1>7, <1>8, <1>9, <1>10, <1>11, <1>12
     DEF Next, WaitProcess, WaitEnd, Dispatcher, Delivery

\* Completions are delivered: while something is in dispatch_queue the task is
\* on its way, once; after the last callback nothing refers to the socket.
THEOREM CompletionsDelivered == Spec => []DispatcherArmed
<1>1. Init => TaskInv
  BY DEF Init, TaskInv
<1>2. Typed /\ RequestInv /\ TaskInv => DispatcherArmed
  BY NothingPending DEF TaskInv, DispatcherArmed
<1>3. QED
  BY <1>1, <1>2, TaskStep, TypeCorrect, RequestAlways, PTL DEF Spec

---------------------------------------------------------------------------
(* The descriptors *)

\* The descriptors and the waited-for operations do not change.
LEMMA SocketFrame ==
  ASSUME SocketInv, UNCHANGED <<sock, client, wait_fd, wait_ops, open>>
  PROVE  SocketInv'
BY DEF SocketInv, DescriptorsOwned

\* The descriptors when no operation is waited for.
LEMMA SocketQuiet ==
  ASSUME wait_ops = {}
  PROVE  SocketInv <=> /\ sock /= None => wait_fd = sock
                       /\ open = {sock, client} \ {None}
                       /\ client /= None => client /= sock
BY DEF SocketInv, DescriptorsOwned

\* and after a step that leaves none.
LEMMA SocketQuietNext ==
  ASSUME wait_ops' = {}
  PROVE  SocketInv' <=> /\ sock' /= None => wait_fd' = sock'
                        /\ open' = {sock', client'} \ {None}
                        /\ client' /= None => client' /= sock'
BY DEF SocketInv, DescriptorsOwned

\* Every step keeps account of the descriptors.
LEMMA SocketStep == Typed /\ RequestInv /\ SocketInv /\ [Next]_asockVars => SocketInv'
<1> SUFFICES ASSUME Typed, RequestInv, SocketInv, [Next]_asockVars PROVE SocketInv'
  OBVIOUS
<1> USE NoneIsNone DEF fdObject, fdVars, dispatchVars
<1>1. ASSUME NEW op \in Op \ {"connect"}, Request(op) PROVE SocketInv'
  <2>1. CASE sock = None
    BY <1>1, <2>1, SocketFrame DEF Request
  <2>2. CASE sock /= None
    <3>1. wait_ops' = wait_ops \cup {op} /\ op /= "cancel"
          /\ UNCHANGED <<sock, client, wait_fd, open>>
      BY <1>1, <2>2 DEF Request, Op
    <3>2. QED
      BY <2>2, <3>1 DEF SocketInv, DescriptorsOwned
  <2>3. QED
    BY <2>1, <2>2
<1>2. ASSUME NEW d \in Descriptors \cup {None}, NewSocket(d), outstanding = {}
      PROVE  SocketInv'
  <2>1. wait_ops = {} /\ wait_ops' = {}
    BY <1>2, NothingPending DEF NewSocket
  <2>2. d = None \/ d \in Descriptors \ (open \ {sock})
    BY <1>2, LowestFree DEF NewSocket
  <2>3. /\ sock' = d /\ client' = client /\ open' = (open \ {sock}) \cup ({d} \ {None})
        /\ d /= None => wait_fd' = d
    BY <1>2 DEF NewSocket
  <2>4. open = {sock, client} \ {None} /\ (client /= None => client /= sock)
    BY <2>1, SocketQuiet
  <2>5. QED
    BY <2>1, <2>2, <2>3, <2>4, SocketQuietNext
<1>3. CASE Listen \/ ConnectAtOnce
  BY <1>2, <1>3 DEF Listen, ConnectAtOnce
<1>4. CASE ConnectLater
  <2>1. wait_ops = {} /\ wait_ops' = {"connect"}
    BY <1>4, NothingPending DEF ConnectLater
  <2>2. PICK d \in Descriptors \ (open \ {sock}) :
             sock' = d /\ open' = (open \ {sock}) \cup {d} /\ wait_fd' = d
    BY <1>4, LowestFree DEF ConnectLater
  <2>3. open = {sock, client} \ {None} /\ (client /= None => client /= sock)
    BY <2>1, SocketQuiet
  <2>4. QED
    BY <1>4, <2>1, <2>2, <2>3 DEF ConnectLater, SocketInv, DescriptorsOwned
<1>5. CASE Close
  <2>1. CASE wait_ops = {}
    <3>1. /\ sock' = None /\ client' = client /\ open' = open \ {sock} /\ wait_ops' = {}
      BY <1>5, <2>1 DEF Close, OpenAfterClose
    <3>2. QED
      BY <2>1, <3>1, SocketQuiet, SocketQuietNext
  <2>2. CASE wait_ops /= {}
    <3>1. /\ sock' = None /\ open' = open /\ wait_ops' = wait_ops \cup {"cancel"}
          /\ UNCHANGED <<client, wait_fd>> /\ sock /= None
      BY <1>5, <2>2 DEF Close, OpenAfterClose
    <3>2. "cancel" \notin wait_ops /\ wait_fd = sock
      BY <3>1 DEF SocketInv
    <3>3. QED
      BY <2>2, <3>1, <3>2 DEF SocketInv, DescriptorsOwned
  <2>3. QED
    BY <2>1, <2>2
<1>6. CASE CloseClient
  <2>1. /\ client /= None /\ client' = None /\ open' = open \ {client}
        /\ UNCHANGED <<sock, wait_fd, wait_ops>>
    BY <1>6 DEF CloseClient
  <2>2. QED
    BY <2>1 DEF SocketInv, DescriptorsOwned
<1>7. CASE WaitStep(Drop) \/ WaitStep(Report) \/ WaitStep(Refuse)
  BY <1>7, SocketFrame DEF WaitStep
<1>8. CASE WaitCallback
  BY <1>8, SocketFrame DEF WaitCallback
<1>9. CASE WaitEndAll
  <2>1. /\ wait_ops' = {} /\ open' = OpenAfterCancel /\ UNCHANGED <<sock, client, wait_fd>>
    BY <1>9 DEF WaitEndAll
  <2>2. QED
    BY <2>1, SocketQuietNext DEF OpenAfterCancel, SocketInv, DescriptorsOwned
<1>10. ASSUME NEW done \in SUBSET (wait_ops \cap Op), NEW fails, WaitEndSome(done, fails)
       PROVE  SocketInv'
  <2>1. wait_ops' = wait_ops \ done /\ "cancel" \notin wait_ops /\ UNCHANGED <<sock, wait_fd>>
    BY <1>10 DEF WaitEndSome, Accept
  <2>2. CASE UNCHANGED <<client, open>>
    BY <2>1, <2>2 DEF SocketInv, DescriptorsOwned
  <2>3. ASSUME NEW d \in Descriptors \ open, client' = d, open' = (open \ {client}) \cup {d}
        PROVE  SocketInv'
    BY <2>1, <2>3 DEF SocketInv, DescriptorsOwned
  <2>4. QED
    BY <1>10, <2>2, <2>3, LowestFree DEF WaitEndSome, Accept
<1>11. CASE Dispatcher
  BY <1>11, SocketFrame DEF Dispatcher, DispatchExec, DispatchFunc, DispatchTake
<1>12. ASSUME NEW ops, DispatchPush(ops) \/ Callback(ops) PROVE SocketInv'
  BY <1>12, SocketFrame DEF DispatchPush, Callback
<1>13. CASE UNCHANGED asockVars
  BY <1>13, SocketFrame DEF asockVars
<1>14. QED
  BY <1>1, <1>3, <1>4, <1>5, <1>6, <1>7, <1>8, <1>9, <1>10, <1>11, <1>12, <1>13
     DEF Next, WaitProcess, WaitEnd, Delivery

\* The descriptors are accounted for at all times.
LEMMA SocketAlways == Spec => []SocketInv
<1>1. Init => SocketInv
  BY DEF Init, SocketInv, DescriptorsOwned
<1>2. QED
  BY <1>1, SocketStep, RequestAlways, TypeCorrect, PTL DEF Spec

\* Descriptors are neither lost nor closed twice nor used after they are
\* closed, whatever order closing, accepting and cancelled waits take, and
\* although the kernel gives out numbers again.
THEOREM NoDescriptorLost == Spec => []DescriptorsOwned
BY SocketAlways, PTL DEF SocketInv

---------------------------------------------------------------------------
(* The wait process *)

\* The wait process and its wait object do not change.
LEMMA WaitFrame ==
  ASSUME WaitInv, UNCHANGED <<phase, set, wait_ops, entered>>
  PROVE  WaitInv'
BY DEF WaitInv, SocketWaitArmed

\* Every step keeps the operations waited for.
LEMMA WaitInvStep ==
  Typed /\ RequestInv /\ SocketInv /\ WaitInv /\ [Next]_asockVars => WaitInv'
<1> SUFFICES ASSUME Typed, RequestInv, SocketInv, WaitInv, [Next]_asockVars PROVE WaitInv'
  OBVIOUS
<1> USE DEF fdObject, fdVars, dispatchVars
<1>1. ASSUME NEW op \in Op \ {"connect"}, Request(op) PROVE WaitInv'
  <2>1. CASE sock = None
    BY <1>1, <2>1, WaitFrame DEF Request
  <2>2. CASE sock /= None
    <3>1. wait_ops' = wait_ops \cup {op} /\ entered' = entered /\ BeginWait(op)
          /\ op /= "cancel" /\ "cancel" \notin wait_ops
      BY <1>1, <2>2 DEF Request, Op, SocketInv
    <3>2. CASE wait_ops = {}
      <4>1. phase' = "waiting" /\ set' = WaitMask({op}) /\ wait_ops' = {op} /\ entered = 0
        BY <3>1, <3>2 DEF BeginWait, Wait, WaitInv, SocketWaitArmed
      <4>2. QED
        BY <3>1, <4>1 DEF WaitInv, SocketWaitArmed
    <3>3. CASE wait_ops /= {} /\ phase = "waiting"
      <4>1. phase' = "waiting" /\ set' = WaitMask(wait_ops') /\ entered = 0
        BY <3>1, <3>3 DEF BeginWait, Rewait, Change, WaitInv
      <4>2. QED
        BY <3>1, <4>1 DEF WaitInv, SocketWaitArmed
    <3>4. CASE wait_ops /= {} /\ phase /= "waiting"
      <4>1. phase' = phase
        BY <3>1, <3>4 DEF BeginWait, Rewait
      <4>2. QED
        BY <3>1, <3>4, <4>1 DEF WaitInv, SocketWaitArmed
    <3>5. QED
      BY <3>2, <3>3, <3>4
  <2>3. QED
    BY <2>1, <2>2
<1>2. ASSUME NEW d, NewSocket(d), outstanding = {} PROVE WaitInv'
  <2>1. wait_ops = {} /\ wait_ops' = {} /\ entered' = entered
    BY <1>2, NothingPending DEF NewSocket
  <2>2. phase = "idle" /\ entered = 0
    BY <2>1 DEF WaitInv, SocketWaitArmed
  <2>3. phase' = "idle"
    BY <1>2, <2>2 DEF NewSocket, FdInit
  <2>4. QED
    BY <2>1, <2>2, <2>3 DEF WaitInv, SocketWaitArmed
<1>3. CASE Listen \/ ConnectAtOnce
  BY <1>2, <1>3 DEF Listen, ConnectAtOnce
<1>4. CASE ConnectLater
  <2>1. wait_ops = {}
    BY <1>4, NothingPending DEF ConnectLater
  <2>2. entered = 0
    BY <2>1 DEF WaitInv, SocketWaitArmed
  <2>3. QED
    BY <1>4, <2>2 DEF ConnectLater, WaitInv, SocketWaitArmed
<1>5. CASE Close
  <2>1. CASE wait_ops = {}
    BY <1>5, <2>1, WaitFrame DEF Close
  <2>2. CASE wait_ops /= {}
    <3>1. /\ wait_ops' /= {} /\ entered' = entered /\ phase' = phase
          /\ phase = "waiting" => set' = {}
      BY <1>5, <2>2 DEF Close, CancelWait, Rewait, Change
    <3>2. QED
      BY <2>2, <3>1 DEF WaitInv, SocketWaitArmed
  <2>3. QED
    BY <2>1, <2>2
<1>6. CASE CloseClient
  BY <1>6, WaitFrame DEF CloseClient
<1>7. CASE WaitStep(Drop) \/ WaitStep(Report) \/ WaitStep(Refuse)
  BY <1>7 DEF WaitStep, Drop, Report, Refuse, WaitInv, SocketWaitArmed
<1>8. CASE WaitCallback
  BY <1>8 DEF WaitCallback, Called, WaitInv, SocketWaitArmed
<1>9. CASE WaitEndAll
  BY <1>9 DEF WaitEndAll, Forget, WaitInv, SocketWaitArmed
<1>10. ASSUME NEW done \in SUBSET (wait_ops \cap Op), NEW fails, WaitEndSome(done, fails)
       PROVE  WaitInv'
  <2>1. /\ wait_ops' = wait_ops \ done /\ "cancel" \notin wait_ops
        /\ entered = 1 /\ phase = "idle" /\ entered' = 0
    BY <1>10 DEF WaitEndSome, WaitInv
  <2>2. CASE wait_ops \ done = {}
    <3>1. phase' = "idle"
      BY <1>10, <2>1, <2>2 DEF WaitEndSome, RestWait, Forget
    <3>2. QED
      BY <2>1, <2>2, <3>1 DEF WaitInv, SocketWaitArmed
  <2>3. CASE wait_ops \ done /= {}
    <3>1. phase' = "waiting" /\ set' = WaitMask(wait_ops')
      BY <1>10, <2>1, <2>3 DEF WaitEndSome, RestWait, Wait
    <3>2. QED
      BY <2>1, <2>3, <3>1 DEF WaitInv, SocketWaitArmed
  <2>4. QED
    BY <2>2, <2>3
<1>11. CASE Dispatcher
  BY <1>11, WaitFrame DEF Dispatcher, DispatchExec, DispatchFunc, DispatchTake
<1>12. ASSUME NEW ops, DispatchPush(ops) \/ Callback(ops) PROVE WaitInv'
  BY <1>12, WaitFrame DEF DispatchPush, Callback
<1>13. CASE UNCHANGED asockVars
  BY <1>13, WaitFrame DEF asockVars
<1>14. QED
  BY <1>1, <1>3, <1>4, <1>5, <1>6, <1>7, <1>8, <1>9, <1>10, <1>11, <1>12, <1>13
     DEF Next, WaitProcess, WaitEnd, Delivery

\* Operations are waited for: wait_ops is empty exactly when no wait goes on
\* and no wait_end() is about to look, and a wait covers every operation's
\* events unless it is being cancelled.
THEOREM OperationsWaitedFor == Spec => []SocketWaitArmed
<1>1. Init => WaitInv
  BY DEF Init, WaitInit, WaitInv, SocketWaitArmed
<1>2. WaitInv => SocketWaitArmed
  BY DEF WaitInv
<1>3. QED
  BY <1>1, <1>2, WaitInvStep, SocketAlways, RequestAlways, TypeCorrect, PTL DEF Spec

---------------------------------------------------------------------------
(* Connecting *)

\* A socket that is in use is open.
LEMMA SocketOpen == ASSUME SocketInv PROVE sock /= None => sock \in open
BY DEF SocketInv, DescriptorsOwned

\* What a connect that is over is judged by does not change.
LEMMA ConnectFrame ==
  ASSUME ConnectInv, "connect" \in outstanding' => "connect" \in outstanding,
         "connect" \in wait_ops => "connect" \in wait_ops',
         sock' = sock \/ sock' = None, ca_error' = ca_error \/ "connect" \notin outstanding',
         sock \in connected => sock \in connected' \/ sock' = None
  PROVE  ConnectInv'
BY DEF ConnectInv

\* Every step keeps a connect without an error a connection.
LEMMA ConnectStep ==
  Typed /\ RequestInv /\ SocketInv /\ ConnectInv /\ [Next]_asockVars => ConnectInv'
<1> SUFFICES ASSUME Typed, RequestInv, SocketInv, ConnectInv, [Next]_asockVars
             PROVE  ConnectInv'
  OBVIOUS
<1> USE DEF fdObject, fdVars, dispatchVars
\* While connect is outstanding, no other operation concerns ca_error.
<1>a. "connect" \in outstanding => "accept" \notin outstanding /\ "accept" \notin wait_ops
  BY DEF RequestInv, OneCA, Placed, Op
<1>b. "connect" \in wait_ops => "connect" \in outstanding
  BY DEF RequestInv, Placed, Op
<1>1. ASSUME NEW op \in Op \ {"connect"}, Request(op) PROVE ConnectInv'
  <2>1. "connect" \in outstanding => op \notin CA
    BY <1>1 DEF Request, MayRequest, CA
  <2>2. /\ outstanding' = outstanding \cup {op} /\ op /= "connect"
        /\ wait_ops' = wait_ops \/ wait_ops' = wait_ops \cup {op}
        /\ UNCHANGED <<sock, connected>>
    BY <1>1 DEF Request
  <2>3. ca_error' = ca_error \/ "connect" \notin outstanding'
    BY <1>1, <2>1, <2>2 DEF Request, Typed, FlagsTyped
  <2>4. QED
    BY <2>2, <2>3, ConnectFrame
<1>2. CASE Listen
  BY <1>2 DEF Listen, ConnectInv
<1>3. CASE ConnectAtOnce
  BY <1>3 DEF ConnectAtOnce, NewSocket, ConnectInv
<1>4. CASE ConnectLater
  BY <1>4 DEF ConnectLater, ConnectInv
<1>5. CASE Close
  BY <1>5 DEF Close, ConnectInv
<1>6. CASE CloseClient
  BY <1>6, ConnectFrame DEF CloseClient
<1>7. CASE WaitStep(Drop) \/ WaitStep(Report) \/ WaitStep(Refuse)
  BY <1>7, ConnectFrame DEF WaitStep
<1>8. CASE WaitCallback
  BY <1>8, ConnectFrame DEF WaitCallback
<1>9. CASE WaitEndAll
  <2>1. CASE "cancel" \in wait_ops
    <3>1. sock' = None
      BY <1>9, <2>1 DEF WaitEndAll, SocketInv
    <3>2. QED
      BY <3>1 DEF ConnectInv
  <2>2. CASE "cancel" \notin wait_ops
    <3>1. /\ open' = open /\ connected' = connected \cap open /\ sock' = sock
          /\ err /\ outstanding' = outstanding
          /\ ca_error' = IF wait_ops \cap CA /= {} THEN err ELSE ca_error
      BY <1>9, <2>2 DEF WaitEndAll, OpenAfterCancel
    <3>2. CASE "connect" \in wait_ops
      BY <3>1, <3>2 DEF ConnectInv, CA
    <3>3. CASE "connect" \in outstanding /\ "connect" \notin wait_ops
      <4>1. wait_ops \cap CA = {}
        BY <1>a, <3>3 DEF CA
      <4>2. QED
        BY <3>1, <3>3, <4>1, SocketOpen DEF ConnectInv
    <3>4. CASE "connect" \notin outstanding
      BY <3>1, <3>4 DEF ConnectInv
    <3>5. QED
      BY <1>b, <3>2, <3>3, <3>4
  <2>3. QED
    BY <2>1, <2>2
<1>10. ASSUME NEW done \in SUBSET (wait_ops \cap Op), NEW fails \in SUBSET (done \cap CA),
              WaitEndSome(done, fails)
       PROVE  ConnectInv'
  <2>1. /\ wait_ops' = wait_ops \ done /\ "cancel" \notin wait_ops
        /\ wait_ops /= {} => wait_fd = sock
        /\ sock' = sock /\ outstanding' = outstanding
    BY <1>10 DEF WaitEndSome, Accept, SocketInv, DescriptorsOwned
  <2>2. sock \in open => sock \in open'
    BY <1>10, <2>1 DEF WaitEndSome, Accept, SocketInv, DescriptorsOwned
  <2>3. sock /= None => sock \in open'
    BY <2>2, SocketOpen
  <2>4. CASE "connect" \in done
    <3>1. CASE fails = {}
      <4>1. connected' = (connected \cup {wait_fd}) \cap open'
        BY <1>10, <2>4, <3>1 DEF WaitEndSome
      <4>2. QED
        BY <2>1, <2>3, <2>4, <4>1 DEF ConnectInv
    <3>2. CASE fails /= {}
      BY <1>10, <2>4, <3>2 DEF WaitEndSome, ConnectInv, Failed, CA
    <3>3. QED
      BY <3>1, <3>2
  <2>5. CASE "connect" \notin done /\ "connect" \in outstanding
    <3>1. done \cap CA = {}
      BY <1>a, <2>5 DEF CA
    <3>2. ca_error' = ca_error /\ connected' = connected \cap open'
      BY <1>10, <2>5, <3>1 DEF WaitEndSome
    <3>3. QED
      BY <2>1, <2>3, <2>5, <3>2 DEF ConnectInv
  <2>6. CASE "connect" \notin outstanding
    BY <2>1, <2>6 DEF ConnectInv
  <2>7. QED
    BY <2>4, <2>5, <2>6
<1>11. CASE Dispatcher
  BY <1>11, ConnectFrame DEF Dispatcher, DispatchExec, DispatchFunc, DispatchTake
<1>12. ASSUME NEW ops, DispatchPush(ops) \/ Callback(ops) PROVE ConnectInv'
  BY <1>12, ConnectFrame DEF DispatchPush, Callback
<1>13. CASE UNCHANGED asockVars
  BY <1>13, ConnectFrame DEF asockVars
<1>14. QED
  BY <1>1, <1>2, <1>3, <1>4, <1>5, <1>6, <1>7, <1>8, <1>9, <1>10, <1>11, <1>12, <1>13
     DEF Next, WaitProcess, WaitEnd, Delivery

\* A connect that is reported without an error has connected the socket,
\* unless the program has closed it meanwhile.
THEOREM NoFalseConnection == Spec => []ConnectedIfNoError
<1>1. Init => ConnectInv
  BY DEF Init, ConnectInv
<1>2. RequestInv /\ ConnectInv => ConnectedIfNoError
  BY DEF RequestInv, Placed, Calling, ConnectInv, ConnectedIfNoError, Op
<1>3. QED
  BY <1>1, <1>2, ConnectStep, SocketAlways, RequestAlways, TypeCorrect, PTL DEF Spec
=============================================================================
