----------------------------- MODULE AdnsProofs -----------------------------
(***************************************************************************)
(* Proofs about Adns for any requests, asked any number of times.  Beyond  *)
(* the properties themselves the argument needs: that no request is in the *)
(* list twice, that a busy request is in the list or in the worker's hands *)
(* after it was removed (so that a cancellation in time always finds it in *)
(* the list), that a request in either place was not completed yet, and    *)
(* that the question the worker has copied is still that of its request,   *)
(* unless one of the two races has happened.                               *)
(***************************************************************************)
EXTENDS Adns, SequenceTheorems, TLAPS

\* None stands for no request.
NoneDistinct == None \notin Requests

WorkerType == [pc : {"peek", "wait", "clear", "lookup", "finish", "done"},
               req : Requests \cup {None}, question : Nat \cup {None}]

FlagsTyped ==
  /\ quit \in BOOLEAN /\ notify \in BOOLEAN /\ busy \in [Requests -> BOOLEAN]
  /\ failed \in [Requests -> BOOLEAN] /\ leftover \in [Requests -> BOOLEAN]

StateTyped ==
  /\ requests \in Seq(Requests)
  /\ worker \in WorkerType
  /\ IF worker.pc \in {"lookup", "finish"} THEN worker.req \in Requests ELSE worker.req = None
  /\ question \in [Requests -> Nat]
  /\ result \in [Requests -> Nat \cup {None}]
  /\ raising \in SUBSET (Requests \cup {"user"})
  /\ cancelling \in SUBSET Requests
  /\ tasks \in [Requests -> Nat]
  /\ outstanding \in SUBSET Requests
  /\ ended \in [Requests -> {"none", "lookup", "cancel"}]
  /\ raced \in SUBSET {"asked again", "late cancel"}

Typed == FlagsTyped /\ StateTyped

Listed(q) == \E i \in DOMAIN requests : requests[i] = q
Finishing(q) == worker.pc = "finish" /\ worker.req = q

\* No request is in the list twice.
ListedOnce == \A i, j \in DOMAIN requests : requests[i] = requests[j] => i = j

\* A busy request is the list's or the worker's.
BusyInv == \A q \in Requests : busy[q] => Listed(q) \/ Finishing(q)

HolderInv == Alive => ListedOnce /\ BusyInv /\ AskedOnce

\* What is the list's or the worker's is not completed.
EndedInv == Alive => \A q \in Requests : Listed(q) \/ Finishing(q) => ended[q] = "none"

\* The worker's copy of the question is current, and so are the results.
AnswerInv ==
  raced = {} => /\ worker.req /= None => worker.question = question[worker.req]
                /\ OwnAnswer

---------------------------------------------------------------------------
(* The list *)

\* list_remove() takes the request out and leaves the others in their order.
LEMMA ListRemoved ==
  ASSUME requests \in Seq(Requests), ListedOnce, NEW q
  PROVE  /\ ListRemove(q) \in Seq(Requests)
         /\ \A p : (\E i \in DOMAIN ListRemove(q) : ListRemove(q)[i] = p) <=> Listed(p) /\ p /= q
         /\ \A i, j \in DOMAIN ListRemove(q) : ListRemove(q)[i] = ListRemove(q)[j] => i = j
<1>1. CASE ~Listed(q)
  BY <1>1 DEF Listed, ListRemove, ListedOnce
<1>2. CASE Listed(q)
  <2> DEFINE n == Len(requests) - 1
  <2> DEFINE at(i, j) == IF j < i THEN j ELSE j + 1
  <2>1. DOMAIN requests = 1 .. Len(requests) /\ Len(requests) \in Nat
    OBVIOUS
  <2>2. PICK i \in DOMAIN requests : /\ requests[i] = q
                                    /\ i = CHOOSE k \in DOMAIN requests : requests[k] = q
    BY <1>2 DEF Listed
  <2>3. ListRemove(q) = [j \in 1 .. n |-> requests[at(i, j)]]
    BY <1>2, <2>2 DEF ListRemove, Listed
  <2>4. n \in Nat /\ i \in 1 .. n + 1 /\ n + 1 = Len(requests)
    BY <2>1, <2>2
  <2>5. \A j \in 1 .. n : at(i, j) \in 1 .. n + 1 /\ at(i, j) /= i
    BY <2>4
  <2>6. \A k \in 1 .. n + 1 : k /= i => \E j \in 1 .. n : at(i, j) = k
    <3> SUFFICES ASSUME NEW k \in 1 .. n + 1, k /= i PROVE \E j \in 1 .. n : at(i, j) = k
      OBVIOUS
    <3>1. CASE k < i
      <4>1. k \in 1 .. n /\ at(i, k) = k
        BY <2>4, <3>1
      <4>2. QED
        BY <4>1
    <3>2. CASE k > i
      <4>1. k - 1 \in 1 .. n /\ at(i, k - 1) = k
        BY <2>4, <3>2
      <4>2. QED
        BY <4>1
    <3>3. QED
      BY <2>4, <3>1, <3>2
  <2>7. \A j, k \in 1 .. n : at(i, j) = at(i, k) => j = k
    BY <2>4
  <2> HIDE DEF n, at
  <2>8. DOMAIN ListRemove(q) = 1 .. n /\ \A j \in 1 .. n : ListRemove(q)[j] = requests[at(i, j)]
    BY <2>3
  <2>9. \A j \in 1 .. n : at(i, j) \in DOMAIN requests /\ requests[at(i, j)] \in Requests
    BY <2>1, <2>4, <2>5
  <2>10. ListRemove(q) \in Seq(Requests)
    BY <2>3, <2>4, <2>9
  <2>11. \A p : (\E j \in 1 .. n : requests[at(i, j)] = p) => Listed(p) /\ p /= q
    BY <2>2, <2>5, <2>9 DEF Listed, ListedOnce
  <2>12. \A p : Listed(p) /\ p /= q => \E j \in 1 .. n : requests[at(i, j)] = p
    BY <2>1, <2>2, <2>4, <2>6 DEF Listed
  <2>13. \A j, k \in 1 .. n : requests[at(i, j)] = requests[at(i, k)] => j = k
    BY <2>7, <2>9 DEF ListedOnce
  <2>14. QED
    BY <2>8, <2>10, <2>11, <2>12, <2>13
<1>3. QED
  BY <1>1, <1>2

\* The same of the type alone, whether or not a request is in the list twice.
LEMMA ListRemoveTyped ==
  ASSUME requests \in Seq(Requests), NEW q
  PROVE  ListRemove(q) \in Seq(Requests)
<1>1. CASE ~Listed(q)
  BY <1>1 DEF Listed, ListRemove
<1>2. CASE Listed(q)
  <2>1. PICK i \in DOMAIN requests :
             ListRemove(q) = [j \in 1 .. Len(requests) - 1 |->
                                requests[IF j < i THEN j ELSE j + 1]]
    BY <1>2 DEF Listed, ListRemove
  <2>2. DOMAIN requests = 1 .. Len(requests) /\ Len(requests) \in Nat
    OBVIOUS
  <2>3. Len(requests) - 1 \in Nat
    BY <2>2
  <2>4. \A j \in 1 .. Len(requests) - 1 :
          (IF j < i THEN j ELSE j + 1) \in DOMAIN requests
    BY <2>2
  <2>5. \A j \in 1 .. Len(requests) - 1 :
          requests[IF j < i THEN j ELSE j + 1] \in Requests
    BY <2>4
  <2>6. QED
    BY <2>1, <2>3, <2>5
<1>3. QED
  BY <1>1, <1>2

\* A new request goes to the end of the list.
LEMMA ListAppended ==
  ASSUME requests \in Seq(Requests), NEW q \in Requests
  PROVE  /\ Append(requests, q) \in Seq(Requests)
         /\ \A p : (\E i \in DOMAIN Append(requests, q) : Append(requests, q)[i] = p)
                     <=> Listed(p) \/ p = q
         /\ ListedOnce /\ ~Listed(q) =>
              \A i, j \in DOMAIN Append(requests, q) :
                Append(requests, q)[i] = Append(requests, q)[j] => i = j
<1> DEFINE n == Len(requests)
<1>1. n \in Nat /\ DOMAIN requests = 1 .. n
  OBVIOUS
<1>2. /\ Append(requests, q) \in Seq(Requests)
      /\ DOMAIN Append(requests, q) = 1 .. n + 1
      /\ \A i \in 1 .. n : Append(requests, q)[i] = requests[i]
      /\ Append(requests, q)[n + 1] = q
  OBVIOUS
<1> HIDE DEF n
<1>3. \A i \in 1 .. n + 1 : i \in 1 .. n \/ i = n + 1
  BY <1>1
<1>4. 1 .. n \subseteq 1 .. n + 1 /\ n + 1 \in 1 .. n + 1
  BY <1>1
<1>5. \A p : (\E i \in 1 .. n + 1 : Append(requests, q)[i] = p) <=> Listed(p) \/ p = q
  BY <1>1, <1>2, <1>3, <1>4 DEF Listed
<1>6. ASSUME ListedOnce, ~Listed(q), NEW i \in 1 .. n + 1, NEW j \in 1 .. n + 1,
             Append(requests, q)[i] = Append(requests, q)[j]
      PROVE  i = j
  BY <1>1, <1>2, <1>3, <1>6 DEF Listed, ListedOnce
<1>7. QED
  BY <1>2, <1>5, <1>6

---------------------------------------------------------------------------
(* Type correctness *)

\* A counter of q goes up or down.
LEMMA Counted ==
  ASSUME NEW f \in [Requests -> Nat], NEW q \in Requests
  PROVE  /\ [f EXCEPT ![q] = @ + 1] \in [Requests -> Nat]
         /\ f[q] > 0 => [f EXCEPT ![q] = @ - 1] \in [Requests -> Nat]
         /\ \A p \in Requests :
              /\ f[p] \in Nat
              /\ [f EXCEPT ![q] = @ + 1][p] = IF p = q THEN f[p] + 1 ELSE f[p]
              /\ [f EXCEPT ![q] = @ - 1][p] = IF p = q THEN f[p] - 1 ELSE f[p]
OBVIOUS

\* Where the worker can be.
LEMMA WorkerPlaces ==
  ASSUME StateTyped
  PROVE  /\ \A pc \in {"peek", "wait", "clear", "done"} :
              At(pc, None) \in WorkerType /\ At(pc, None).pc = pc /\ At(pc, None).req = None
         /\ NoneDistinct => \A q \in Requests :
              /\ At("lookup", q) \in WorkerType /\ At("lookup", q).pc = "lookup"
              /\ At("lookup", q).req = q /\ At("lookup", q).question = question[q]
<1>1. ASSUME NEW pc \in {"peek", "wait", "clear", "done"}
      PROVE  At(pc, None) \in WorkerType /\ At(pc, None).pc = pc /\ At(pc, None).req = None
  BY DEF At, WorkerType
<1>2. ASSUME NoneDistinct, NEW q \in Requests
      PROVE  /\ At("lookup", q) \in WorkerType /\ At("lookup", q).pc = "lookup"
             /\ At("lookup", q).req = q /\ At("lookup", q).question = question[q]
  <2>1. question[q] \in Nat /\ q /= None
    BY <1>2 DEF StateTyped, NoneDistinct
  <2>2. At("lookup", q) = [pc |-> "lookup", req |-> q, question |-> question[q]]
    BY <2>1 DEF At
  <2>3. QED
    BY <2>1, <2>2 DEF WorkerType
<1>3. QED
  BY <1>1, <1>2

\* What the worker's steps do to its local variables.
LEMMA WorkerEffects ==
  ASSUME NoneDistinct, StateTyped
  PROVE  /\ PeekQuit \/ PeekEmpty \/ WaitEvent \/ ClearEvent \/ FulfillDrop \/ FulfillFinish =>
              worker' \in WorkerType /\ worker'.req = None /\ worker'.pc \notin {"lookup", "finish"}
         /\ PeekRequest => /\ worker' \in WorkerType /\ worker'.pc = "lookup"
                           /\ worker'.req \in Requests
                           /\ worker'.question = question[worker'.req]
         /\ FulfillRemove => /\ worker' \in WorkerType /\ worker'.pc = "finish"
                             /\ worker'.req = worker.req /\ worker'.question = worker.question
                             /\ worker.req \in Requests
<1>1. ASSUME PeekQuit \/ PeekEmpty \/ WaitEvent \/ ClearEvent \/ FulfillDrop \/ FulfillFinish
      PROVE  worker' \in WorkerType /\ worker'.req = None /\ worker'.pc \notin {"lookup", "finish"}
  <2>1. PICK pc \in {"peek", "wait", "clear", "done"} : worker' = At(pc, None)
    BY <1>1 DEF PeekQuit, PeekEmpty, WaitEvent, ClearEvent, FulfillDrop, FulfillFinish
  <2>2. QED
    BY <2>1, WorkerPlaces
<1>2. ASSUME PeekRequest
      PROVE  /\ worker' \in WorkerType /\ worker'.pc = "lookup" /\ worker'.req \in Requests
             /\ worker'.question = question[worker'.req]
  <2>1. requests \in Seq(Requests) /\ requests /= <<>> /\ worker' = At("lookup", Head(requests))
    BY <1>2 DEF PeekRequest, StateTyped
  <2>2. Head(requests) \in Requests
    BY <2>1
  <2>3. QED
    BY <2>1, <2>2, WorkerPlaces
<1>3. ASSUME FulfillRemove
      PROVE  /\ worker' \in WorkerType /\ worker'.pc = "finish"
             /\ worker'.req = worker.req /\ worker'.question = worker.question
             /\ worker.req \in Requests
  BY <1>3 DEF FulfillRemove, StateTyped, WorkerType
<1>4. QED
  BY <1>1, <1>2, <1>3

\* Every step keeps the flags Boolean.
LEMMA FlagsStep == FlagsTyped /\ [Next]_adnsVars => FlagsTyped'
<1> SUFFICES ASSUME FlagsTyped, [Next]_adnsVars PROVE FlagsTyped'
  OBVIOUS
<1> USE DEF FlagsTyped
<1>1. CASE PeekQuit \/ PeekEmpty \/ PeekRequest \/ WaitEvent \/ ClearEvent
  BY <1>1 DEF PeekQuit, PeekEmpty, PeekRequest, WaitEvent, ClearEvent, outcomeVars
<1>2. CASE FulfillDrop \/ FulfillRemove \/ FulfillFinish
  BY <1>2 DEF FulfillDrop, FulfillRemove, FulfillFinish, outcomeVars
<1>3. ASSUME NEW q \in Requests, CancelExec(q) \/ Callback(q) \/ Ask(q) \/ Cancel(q)
      PROVE  FlagsTyped'
  BY <1>3 DEF CancelExec, Callback, Ask, Cancel, outcomeVars
<1>4. ASSUME NEW u, Raise(u) PROVE FlagsTyped'
  BY <1>4 DEF Raise, outcomeVars
<1>5. CASE Destroy
  BY <1>5 DEF Destroy, outcomeVars
<1>6. CASE Rest \/ UNCHANGED adnsVars
  BY <1>6 DEF Rest, adnsVars
<1>7. QED
  BY <1>1, <1>2, <1>3, <1>4, <1>5, <1>6 DEF Next, WorkerStep, TaskStep, RaiseStep

\* Every step preserves the type invariant.
LEMMA TypeStep == NoneDistinct /\ Typed /\ [Next]_adnsVars => Typed'
<1> SUFFICES ASSUME NoneDistinct, StateTyped, [Next]_adnsVars PROVE StateTyped'
  BY FlagsStep DEF Typed
<1>1. CASE PeekQuit \/ PeekEmpty \/ PeekRequest \/ WaitEvent \/ ClearEvent \/ FulfillDrop
  <2>1. UNCHANGED <<requests, question, result, raising, cancelling, tasks, outstanding, ended,
                    raced>>
    BY <1>1 DEF PeekQuit, PeekEmpty, PeekRequest, WaitEvent, ClearEvent, FulfillDrop, outcomeVars
  <2>2. /\ worker' \in WorkerType
        /\ IF worker'.pc \in {"lookup", "finish"} THEN worker'.req \in Requests
                                                  ELSE worker'.req = None
    BY <1>1, WorkerEffects
  <2>3. QED
    BY <2>1, <2>2 DEF StateTyped
<1>2. CASE FulfillRemove
  <2>1. requests' \in Seq(Requests)
    BY <1>2, ListRemoveTyped DEF FulfillRemove, StateTyped
  <2>2. QED
    BY <1>2, <2>1, WorkerEffects DEF FulfillRemove, StateTyped, outcomeVars
<1>3. CASE FulfillFinish
  <2>1. worker.req \in Requests /\ worker.question \in Nat \cup {None}
    BY <1>3 DEF FulfillFinish, StateTyped, WorkerType
  <2>2. PICK answer \in {worker.question, None} :
             result' = [result EXCEPT ![worker.req] = answer]
    BY <1>3 DEF FulfillFinish
  <2>3. result' \in [Requests -> Nat \cup {None}]
    BY <2>1, <2>2 DEF StateTyped
  <2>4. tasks' = [tasks EXCEPT ![worker.req] = @ + 1]
    BY <1>3 DEF FulfillFinish
  <2>5. tasks' \in [Requests -> Nat]
    BY <2>1, <2>4, Counted DEF StateTyped
  <2>6. ended' \in [Requests -> {"none", "lookup", "cancel"}]
    BY <1>3, <2>1 DEF FulfillFinish, StateTyped
  <2>7. QED
    BY <1>3, <2>3, <2>5, <2>6, WorkerEffects DEF FulfillFinish, StateTyped
<1>4. ASSUME NEW q \in Requests, Ask(q) PROVE StateTyped'
  <2>1. requests' \in Seq(Requests)
    BY <1>4, ListAppended DEF Ask, StateTyped
  <2>2. question' \in [Requests -> Nat] /\ result' \in [Requests -> Nat \cup {None}]
    <3>1. question' = [question EXCEPT ![q] = @ + 1] /\ result' = [result EXCEPT ![q] = None]
      BY <1>4 DEF Ask, ResultAtAsk
    <3>2. question' \in [Requests -> Nat]
      BY <3>1, Counted DEF StateTyped
    <3>3. QED
      BY <3>1, <3>2 DEF StateTyped
  <2>3. /\ raising' \in SUBSET (Requests \cup {"user"}) /\ outstanding' \in SUBSET Requests
        /\ raced' \in SUBSET {"asked again", "late cancel"}
    BY <1>4 DEF Ask, StateTyped
  <2>4. QED
    BY <1>4, <2>1, <2>2, <2>3 DEF Ask, StateTyped
<1>5. ASSUME NEW q \in Requests, Cancel(q) PROVE StateTyped'
  <2>1. requests' \in Seq(Requests)
    BY <1>5, ListRemoveTyped DEF Cancel, StateTyped
  <2>2. QED
    BY <1>5, <2>1 DEF Cancel, StateTyped
<1>6. ASSUME NEW q \in Requests, CancelExec(q) PROVE StateTyped'
  <2>1. tasks' = [tasks EXCEPT ![q] = @ + 1]
    BY <1>6 DEF CancelExec
  <2>2. tasks' \in [Requests -> Nat]
    BY <2>1, Counted DEF StateTyped
  <2>3. QED
    BY <1>6, <2>2 DEF CancelExec, StateTyped, outcomeVars
<1>7. ASSUME NEW q \in Requests, Callback(q) PROVE StateTyped'
  <2>1. tasks' = [tasks EXCEPT ![q] = @ - 1] /\ tasks[q] > 0
    BY <1>7 DEF Callback
  <2>2. tasks' \in [Requests -> Nat]
    BY <2>1, Counted DEF StateTyped
  <2>3. QED
    BY <1>7, <2>2 DEF Callback, StateTyped, outcomeVars
<1>8. ASSUME NEW u \in Requests \cup {"user"}, Raise(u) PROVE StateTyped'
  BY <1>8 DEF Raise, StateTyped, outcomeVars
<1>9. CASE Destroy
  BY <1>9 DEF Destroy, StateTyped, QuitRaisers, outcomeVars
<1>10. CASE Rest \/ UNCHANGED adnsVars
  BY <1>10 DEF Rest, adnsVars, StateTyped
<1>11. QED
  BY <1>1, <1>2, <1>3, <1>4, <1>5, <1>6, <1>7, <1>8, <1>9, <1>10
     DEF Next, WorkerStep, TaskStep, RaiseStep

\* The state of the resolver is well formed.
THEOREM TypeCorrect == NoneDistinct => (Spec => []Typed)
<1> SUFFICES ASSUME NoneDistinct PROVE Spec => []Typed
  OBVIOUS
<1>1. Init => FlagsTyped
  BY DEF Init, FlagsTyped
<1>2. Init => StateTyped
  BY DEF Init, StateTyped, WorkerType
<1>3. Typed /\ [Next]_adnsVars => Typed'
  BY TypeStep
<1>4. QED
  BY <1>1, <1>2, <1>3, PTL DEF Spec, Typed

---------------------------------------------------------------------------
(* Who has a request *)

\* The list does not change.
LEMMA ListFrame ==
  ASSUME UNCHANGED requests
  PROVE  (\A q : Listed(q)' <=> Listed(q)) /\ (ListedOnce' <=> ListedOnce)
BY DEF Listed, ListedOnce

\* The request leaves the list, and the others stay.
LEMMA ListShrinks ==
  ASSUME requests \in Seq(Requests), ListedOnce, NEW q, requests' = ListRemove(q)
  PROVE  ListedOnce' /\ \A p : Listed(p)' <=> Listed(p) /\ p /= q
<1>1. /\ \A p : (\E i \in DOMAIN requests' : requests'[i] = p) <=> Listed(p) /\ p /= q
      /\ \A i, j \in DOMAIN requests' : requests'[i] = requests'[j] => i = j
  BY ListRemoved
<1>2. ListedOnce'
  BY <1>1 DEF ListedOnce
<1>3. \A p : Listed(p)' <=> \E i \in DOMAIN requests' : requests'[i] = p
  BY DEF Listed
<1>4. QED
  BY <1>1, <1>2, <1>3

\* Holders(q) with the abbreviations of this module, before and after a step.
LEMMA HoldersAre ==
  ASSUME NEW q
  PROVE  /\ Holders(q) = (IF Listed(q) THEN 1 ELSE 0) + (IF Finishing(q) THEN 1 ELSE 0)
                           + (IF q \in cancelling THEN 1 ELSE 0) + tasks[q]
         /\ Holders(q)' = (IF Listed(q)' THEN 1 ELSE 0) + (IF Finishing(q)' THEN 1 ELSE 0)
                            + (IF q \in cancelling' THEN 1 ELSE 0) + tasks'[q]
BY DEF Holders, Listed, Finishing

\* A step that leaves the places of all requests alone.
LEMMA HolderFrame ==
  ASSUME HolderInv, Alive, UNCHANGED <<requests, busy, cancelling, tasks, outstanding>>,
         \A q \in Requests : Finishing(q)' <=> Finishing(q)
  PROVE  HolderInv'
<1>1. \A q \in Requests : Listed(q)' <=> Listed(q)
  BY ListFrame
<1>2. ListedOnce'
  BY ListFrame DEF HolderInv
<1>3. BusyInv'
  BY <1>1 DEF HolderInv, BusyInv
<1>4. ASSUME NEW q \in Requests PROVE Holders(q)' = Holders(q)
  <2>1. tasks'[q] = tasks[q] /\ (Finishing(q)' <=> Finishing(q))
    OBVIOUS
  <2>2. QED
    BY <1>1, <2>1, HoldersAre
<1>5. AskedOnce'
  BY <1>4 DEF HolderInv, AskedOnce
<1>6. QED
  BY <1>2, <1>3, <1>5 DEF HolderInv

\* Every step keeps each request in one place, until a late cancellation.
LEMMA HolderStep ==
  NoneDistinct /\ Typed /\ HolderInv /\ [Next]_adnsVars => HolderInv'
<1> SUFFICES ASSUME NoneDistinct, Typed, HolderInv, [Next]_adnsVars PROVE HolderInv'
  OBVIOUS
<1>a. StateTyped
  BY DEF Typed
<1>b. ASSUME Alive PROVE ListedOnce /\ BusyInv /\ AskedOnce
  BY <1>b DEF HolderInv
<1>1. CASE Alive /\ (PeekQuit \/ PeekEmpty \/ PeekRequest \/ WaitEvent \/ ClearEvent \/ FulfillDrop)
  <2>1. UNCHANGED <<requests, busy, cancelling, tasks, outstanding>> /\ worker.pc /= "finish"
    BY <1>1 DEF PeekQuit, PeekEmpty, PeekRequest, WaitEvent, ClearEvent, FulfillDrop
  <2>2. worker'.pc /= "finish"
    BY <1>1, <1>a, WorkerEffects
  <2>3. QED
    BY <1>1, <2>1, <2>2, HolderFrame DEF Finishing
<1>2. CASE Alive /\ FulfillRemove
  <2>1. PICK q \in Requests : q = worker.req
    BY <1>2, <1>a, WorkerEffects
  <2>2. /\ requests' = ListRemove(q) /\ UNCHANGED <<busy, cancelling, tasks, outstanding>>
        /\ requests /= <<>> /\ Head(requests) = q /\ worker.pc = "lookup"
    BY <1>2, <2>1 DEF FulfillRemove, StillFirst
  <2>3. ListedOnce' /\ \A p \in Requests : Listed(p)' <=> Listed(p) /\ p /= q
    BY <1>a, <1>b, <1>2, <2>2, ListShrinks DEF StateTyped
  <2>4. Listed(q)
    <3>1. requests \in Seq(Requests)
      BY <1>a DEF StateTyped
    <3>2. 1 \in DOMAIN requests /\ Head(requests) = requests[1]
      BY <2>2, <3>1
    <3>3. QED
      BY <2>2, <3>2 DEF Listed
  <2>5. \A p \in Requests : (Finishing(p)' <=> p = q) /\ ~Finishing(p)
    BY <1>a, <1>2, <2>1, <2>2, WorkerEffects DEF Finishing
  <2>6. BusyInv'
    BY <1>b, <1>2, <2>2, <2>3, <2>5 DEF BusyInv
  <2>7. \A p \in Requests : Holders(p)' = Holders(p)
    <3> SUFFICES ASSUME NEW p \in Requests PROVE Holders(p)' = Holders(p)
      OBVIOUS
    <3>1. tasks[p] \in Nat
      BY <1>a DEF StateTyped
    <3>2. QED
      BY <2>2, <2>3, <2>4, <2>5, <3>1, HoldersAre
  <2>8. AskedOnce'
    BY <1>b, <1>2, <2>2, <2>7 DEF AskedOnce
  <2>9. QED
    BY <2>3, <2>6, <2>8 DEF HolderInv
<1>3. CASE Alive /\ FulfillFinish
  <2>1. PICK q \in Requests : q = worker.req
    BY <1>3, <1>a DEF FulfillFinish, StateTyped
  <2>2. /\ busy' = [busy EXCEPT ![q] = FALSE] /\ UNCHANGED <<requests, cancelling, outstanding>>
        /\ tasks' = [tasks EXCEPT ![q] = @ + 1] /\ worker.pc = "finish"
    BY <1>3, <2>1 DEF FulfillFinish
  <2>3. \A p \in Requests : (Finishing(p) <=> p = q) /\ ~Finishing(p)'
    BY <1>a, <1>3, <2>1, <2>2, WorkerEffects DEF Finishing
  <2>4. ListedOnce' /\ \A p \in Requests : Listed(p)' <=> Listed(p)
    BY <1>b, <1>3, <2>2, ListFrame
  <2>5. BusyInv'
    BY <1>b, <1>3, <2>2, <2>3, <2>4 DEF BusyInv, Typed, FlagsTyped
  <2>6. \A p \in Requests : Holders(p)' = Holders(p)
    <3> SUFFICES ASSUME NEW p \in Requests PROVE Holders(p)' = Holders(p)
      OBVIOUS
    <3>1. tasks[p] \in Nat /\ tasks'[p] = IF p = q THEN tasks[p] + 1 ELSE tasks[p]
      BY <1>a, <2>2 DEF StateTyped
    <3>2. QED
      BY <2>2, <2>3, <2>4, <3>1, HoldersAre
  <2>7. AskedOnce'
    BY <1>b, <1>3, <2>2, <2>6 DEF AskedOnce
  <2>8. QED
    BY <2>4, <2>5, <2>7 DEF HolderInv
<1>4. ASSUME Alive, NEW q \in Requests, Ask(q) PROVE HolderInv'
  <2>1. /\ busy' = [busy EXCEPT ![q] = TRUE] /\ UNCHANGED <<worker, cancelling, tasks>>
        /\ requests' = Append(requests, q) /\ q \notin outstanding
        /\ outstanding' = outstanding \cup {q}
    BY <1>4 DEF Ask
  <2>2. \A p \in Requests : tasks[p] \in Nat
    BY <1>a DEF StateTyped
  <2>3. Holders(q) = 0
    BY <1>b, <1>4, <2>1 DEF AskedOnce
  <2>4. ~Listed(q)
    BY <2>2, <2>3, HoldersAre
  <2>5. ListedOnce' /\ \A p \in Requests : Listed(p)' <=> Listed(p) \/ p = q
    BY <1>a, <1>b, <1>4, <2>1, <2>4, ListAppended DEF StateTyped, Listed, ListedOnce
  <2>6. BusyInv'
    BY <1>b, <1>4, <2>1, <2>5 DEF BusyInv, Typed, FlagsTyped, Finishing
  <2>7. ASSUME NEW p \in Requests PROVE Holders(p)' = IF p \in outstanding' THEN 1 ELSE 0
    <3>1. Holders(p) = IF p \in outstanding THEN 1 ELSE 0
      BY <1>b, <1>4 DEF AskedOnce
    <3>2. Finishing(p)' <=> Finishing(p)
      BY <2>1 DEF Finishing
    <3>3. QED
      BY <2>1, <2>2, <2>4, <2>5, <3>1, <3>2, HoldersAre
  <2>8. QED
    BY <2>5, <2>6, <2>7 DEF HolderInv, AskedOnce
<1>5. ASSUME Alive, NEW q \in Requests, Cancel(q) PROVE HolderInv'
  <2>1. /\ busy' = [busy EXCEPT ![q] = FALSE] /\ UNCHANGED <<worker, tasks, outstanding>>
        /\ requests' = ListRemove(q) /\ cancelling' = cancelling \cup {q}
        /\ q \notin cancelling /\ busy[q]
    BY <1>5 DEF Cancel, CancelTakes
  <2>2. CASE Finishing(q)
    <3>1. "late cancel" \in raced'
      BY <1>5, <2>2 DEF Cancel, Finishing
    <3>2. QED
      BY <3>1 DEF HolderInv, Alive
  <2>3. CASE ~Finishing(q)
    <3>1. Listed(q)
      BY <1>b, <1>5, <2>1, <2>3 DEF BusyInv
    <3>2. ListedOnce' /\ \A p \in Requests : Listed(p)' <=> Listed(p) /\ p /= q
      BY <1>a, <1>b, <1>5, <2>1, ListShrinks DEF StateTyped
    <3>3. \A p \in Requests : Finishing(p)' <=> Finishing(p)
      BY <2>1 DEF Finishing
    <3>4. BusyInv'
      BY <1>b, <1>5, <2>1, <3>2, <3>3 DEF BusyInv, Typed, FlagsTyped
    <3>5. \A p \in Requests : Holders(p)' = Holders(p)
      <4> SUFFICES ASSUME NEW p \in Requests PROVE Holders(p)' = Holders(p)
        OBVIOUS
      <4>1. tasks[p] \in Nat
        BY <1>a DEF StateTyped
      <4>2. QED
        BY <2>1, <3>1, <3>2, <3>3, <4>1, HoldersAre
    <3>6. AskedOnce'
      BY <1>b, <1>5, <2>1, <3>5 DEF AskedOnce
    <3>7. QED
      BY <3>2, <3>4, <3>6 DEF HolderInv
  <2>4. QED
    BY <2>2, <2>3
<1>6. ASSUME Alive, NEW q \in Requests, CancelExec(q) \/ Callback(q) PROVE HolderInv'
  <2>1. UNCHANGED <<requests, busy, worker>>
    BY <1>6 DEF CancelExec, Callback
  <2>2. ListedOnce' /\ \A p \in Requests : (Listed(p)' <=> Listed(p)) /\ (Finishing(p)' <=> Finishing(p))
    BY <1>b, <1>6, <2>1, ListFrame DEF Finishing
  <2>3. BusyInv'
    BY <1>b, <1>6, <2>1, <2>2 DEF BusyInv
  <2>4. ASSUME NEW p \in Requests PROVE Holders(p)' = IF p \in outstanding' THEN 1 ELSE 0
    <3>1. Holders(p) = IF p \in outstanding THEN 1 ELSE 0
      BY <1>b, <1>6 DEF AskedOnce
    <3>2. tasks[p] \in Nat
      BY <1>a DEF StateTyped
    <3>3. CASE CancelExec(q)
      <4>1. /\ q \in cancelling /\ cancelling' = cancelling \ {q} /\ outstanding' = outstanding
            /\ tasks'[p] = IF p = q THEN tasks[p] + 1 ELSE tasks[p]
        BY <1>a, <3>3 DEF CancelExec, StateTyped
      <4>2. QED
        BY <2>2, <3>1, <3>2, <4>1, HoldersAre
    <3>4. CASE Callback(q)
      <4>1. /\ tasks[q] > 0 /\ cancelling' = cancelling /\ outstanding' = outstanding \ {q}
            /\ tasks'[p] = IF p = q THEN tasks[p] - 1 ELSE tasks[p]
        BY <1>a, <3>4 DEF Callback, StateTyped
      <4>2. QED
        BY <2>2, <3>1, <3>2, <4>1, HoldersAre
    <3>5. QED
      BY <1>6, <3>3, <3>4
  <2>5. QED
    BY <2>2, <2>3, <2>4 DEF HolderInv, AskedOnce
<1>7. ASSUME Alive, NEW u, Raise(u) PROVE HolderInv'
  BY <1>7, HolderFrame DEF Raise, Finishing
<1>8. CASE Alive /\ Destroy
  BY <1>8, HolderFrame DEF Destroy, Finishing
<1>9. CASE Rest \/ UNCHANGED adnsVars
  <2>1. UNCHANGED adnsVars
    BY <1>9 DEF Rest
  <2>2. CASE Alive
    BY <2>1, <2>2, HolderFrame DEF adnsVars, Finishing
  <2>3. CASE ~Alive
    BY <2>1, <2>3 DEF adnsVars, Alive, HolderInv
  <2>4. QED
    BY <2>2, <2>3
<1>10. QED
  BY <1>1, <1>2, <1>3, <1>4, <1>5, <1>6, <1>7, <1>8, <1>9
     DEF Next, WorkerStep, TaskStep, RaiseStep

\* Every step leaves what is not completed in the list or with the worker, and
\* nothing else there, until a late cancellation.
LEMMA EndedStep ==
  NoneDistinct /\ Typed /\ HolderInv /\ EndedInv /\ [Next]_adnsVars => EndedInv'
<1> SUFFICES ASSUME NoneDistinct, Typed, HolderInv, EndedInv, [Next]_adnsVars PROVE EndedInv'
  OBVIOUS
<1>a. StateTyped
  BY DEF Typed
<1>b. ASSUME Alive PROVE ListedOnce /\ BusyInv /\ AskedOnce
  BY <1>b DEF HolderInv
<1>1. ASSUME Alive, UNCHANGED <<requests, ended>>,
             \A q \in Requests : Finishing(q)' => Finishing(q)
      PROVE  EndedInv'
  BY <1>1, ListFrame DEF EndedInv
<1>2. CASE Alive /\ (PeekQuit \/ PeekEmpty \/ PeekRequest \/ WaitEvent \/ ClearEvent \/ FulfillDrop)
  <2>1. UNCHANGED <<requests, ended>>
    BY <1>2 DEF PeekQuit, PeekEmpty, PeekRequest, WaitEvent, ClearEvent, FulfillDrop, outcomeVars
  <2>2. worker'.pc /= "finish"
    BY <1>2, <1>a, WorkerEffects
  <2>3. QED
    BY <1>1, <1>2, <2>1, <2>2 DEF Finishing
<1>3. CASE Alive /\ FulfillRemove
  <2>1. PICK q \in Requests : q = worker.req
    BY <1>3, <1>a, WorkerEffects
  <2>2. /\ requests' = ListRemove(q) /\ ended' = ended
        /\ requests /= <<>> /\ Head(requests) = q
    BY <1>3, <2>1 DEF FulfillRemove, StillFirst, outcomeVars
  <2>3. \A p \in Requests : Listed(p)' => Listed(p)
    BY <1>a, <1>b, <1>3, <2>2, ListShrinks DEF StateTyped
  <2>4. Listed(q)
    <3>1. requests \in Seq(Requests)
      BY <1>a DEF StateTyped
    <3>2. 1 \in DOMAIN requests /\ Head(requests) = requests[1]
      BY <2>2, <3>1
    <3>3. QED
      BY <2>2, <3>2 DEF Listed
  <2>5. \A p \in Requests : Finishing(p)' => p = q
    BY <1>a, <1>3, <2>1, WorkerEffects DEF Finishing
  <2>6. QED
    BY <1>3, <2>2, <2>3, <2>4, <2>5 DEF EndedInv
<1>4. CASE Alive /\ FulfillFinish
  <2>1. PICK q \in Requests : q = worker.req
    BY <1>4, <1>a DEF FulfillFinish, StateTyped
  <2>2. requests' = requests /\ cancelling' = cancelling /\ worker.pc = "finish"
    BY <1>4 DEF FulfillFinish
  <2>3. \A p \in Requests : p /= q => ended'[p] = ended[p]
    BY <1>4, <1>a, <2>1 DEF FulfillFinish, StateTyped
  <2>4. \A p \in Requests : ~Finishing(p)'
    BY <1>a, <1>4, WorkerEffects DEF Finishing
  <2>5. ~Listed(q)
    <3>1. Finishing(q) /\ tasks[q] \in Nat
      BY <1>a, <2>1, <2>2 DEF Finishing, StateTyped
    <3>2. Holders(q) \in {0, 1}
      BY <1>b, <1>4 DEF AskedOnce
    <3>3. QED
      BY <3>1, <3>2, HoldersAre
  <2>6. \A p \in Requests : Listed(p)' <=> Listed(p)
    BY <2>2, ListFrame
  <2>7. QED
    BY <1>4, <2>3, <2>4, <2>5, <2>6 DEF EndedInv
<1>5. ASSUME Alive, NEW q \in Requests, Ask(q) PROVE EndedInv'
  <2>1. requests' = Append(requests, q) /\ worker' = worker
    BY <1>5 DEF Ask
  <2>2. \A p \in Requests : ended'[p] = IF p = q THEN "none" ELSE ended[p]
    BY <1>5, <1>a DEF Ask, StateTyped
  <2>3. \A p \in Requests : Listed(p)' <=> Listed(p) \/ p = q
    <3>1. requests \in Seq(Requests)
      BY <1>a DEF StateTyped
    <3>2. \A p : (\E i \in DOMAIN Append(requests, q) : Append(requests, q)[i] = p)
                   <=> Listed(p) \/ p = q
      BY <3>1, ListAppended
    <3>3. \A p : Listed(p)' <=> \E i \in DOMAIN requests' : requests'[i] = p
      BY DEF Listed
    <3>4. QED
      BY <2>1, <3>2, <3>3
  <2>4. \A p \in Requests : Finishing(p)' <=> Finishing(p)
    BY <2>1 DEF Finishing
  <2>5. QED
    BY <1>5, <2>2, <2>3, <2>4 DEF EndedInv
<1>6. ASSUME Alive, NEW q \in Requests, Cancel(q) PROVE EndedInv'
  <2>1. requests' = ListRemove(q) /\ worker' = worker
    BY <1>6 DEF Cancel
  <2>2. \A p \in Requests : p /= q => ended'[p] = ended[p]
    BY <1>6, <1>a DEF Cancel, StateTyped
  <2>3. \A p \in Requests : Listed(p)' <=> Listed(p) /\ p /= q
    BY <1>a, <1>b, <1>6, <2>1, ListShrinks DEF StateTyped
  <2>4. \A p \in Requests : Finishing(p)' <=> Finishing(p)
    BY <2>1 DEF Finishing
  <2>5. Finishing(q) => ~Alive'
    BY <1>6 DEF Cancel, Finishing, Alive
  <2>6. QED
    BY <1>6, <2>2, <2>3, <2>4, <2>5 DEF EndedInv
<1>7. ASSUME Alive, NEW q \in Requests, CancelExec(q) \/ Callback(q) PROVE EndedInv'
  BY <1>1, <1>7 DEF CancelExec, Callback, Finishing, outcomeVars
<1>8. ASSUME Alive, NEW u, Raise(u) PROVE EndedInv'
  BY <1>1, <1>8 DEF Raise, Finishing, outcomeVars
<1>9. CASE Alive /\ Destroy
  BY <1>1, <1>9 DEF Destroy, Finishing, outcomeVars
<1>10. CASE Rest \/ UNCHANGED adnsVars
  <2>1. UNCHANGED adnsVars
    BY <1>10 DEF Rest
  <2>2. CASE Alive
    BY <1>1, <2>1, <2>2 DEF adnsVars, Finishing
  <2>3. CASE ~Alive
    BY <2>1, <2>3 DEF adnsVars, Alive, EndedInv
  <2>4. QED
    BY <2>2, <2>3
<1>11. QED
  BY <1>2, <1>3, <1>4, <1>5, <1>6, <1>7, <1>8, <1>9, <1>10
     DEF Next, WorkerStep, TaskStep, RaiseStep

\* No request is anywhere in the beginning.
LEMMA HolderInit == Init => HolderInv /\ EndedInv
<1> SUFFICES ASSUME Init PROVE HolderInv /\ EndedInv
  OBVIOUS
<1>1. \A q \in Requests : ~Listed(q) /\ ~Finishing(q) /\ q \notin cancelling /\ tasks[q] = 0
  BY DEF Init, Listed, Finishing
<1>2. ListedOnce /\ BusyInv
  BY DEF Init, ListedOnce, BusyInv
<1>3. \A q \in Requests : Holders(q) = 0
  BY <1>1, HoldersAre
<1>4. QED
  BY <1>2, <1>3 DEF Init, HolderInv, AskedOnce, EndedInv

\* A request that was asked is in one place only, the list, the worker's or a
\* cancelling thread's hands, or the run queue, and so is called back once,
\* with the late cancellation as the only exception.
THEOREM OneCallbackPerAsk == NoneDistinct => (Spec => []AskedOnce)
<1> SUFFICES ASSUME NoneDistinct PROVE Spec => []AskedOnce
  OBVIOUS
<1>1. Init => HolderInv
  BY HolderInit
<1>2. Typed /\ HolderInv /\ [Next]_adnsVars => HolderInv'
  BY HolderStep
<1>3. HolderInv => AskedOnce
  BY DEF HolderInv, AskedOnce
<1>4. Spec => []Typed
  BY TypeCorrect
<1>5. QED
  BY <1>1, <1>2, <1>3, <1>4, PTL DEF Spec

---------------------------------------------------------------------------
(* Whose answer it is *)

\* Every step keeps questions, results and the worker's copy in agreement,
\* until one of the races happens.
LEMMA AnswerStep ==
  NoneDistinct /\ Typed /\ HolderInv /\ EndedInv /\ AnswerInv /\ [Next]_adnsVars => AnswerInv'
<1> SUFFICES ASSUME NoneDistinct, Typed, HolderInv, EndedInv, AnswerInv, [Next]_adnsVars
             PROVE  AnswerInv'
  OBVIOUS
<1>a. StateTyped
  BY DEF Typed
<1>b. raced = {} => Alive
  BY DEF Alive
<1>1. ASSUME UNCHANGED <<question, result, failed, ended, leftover>>, raced' = {} => raced = {},
             raced = {} /\ worker'.req /= None => worker'.question = question[worker'.req]
      PROVE  AnswerInv'
  BY <1>1 DEF AnswerInv, OwnAnswer
<1>2. CASE PeekQuit \/ PeekEmpty \/ WaitEvent \/ ClearEvent \/ FulfillDrop
  BY <1>1, <1>2, <1>a, WorkerEffects
     DEF PeekQuit, PeekEmpty, WaitEvent, ClearEvent, FulfillDrop, outcomeVars
<1>3. CASE PeekRequest
  BY <1>1, <1>3, <1>a, WorkerEffects DEF PeekRequest, outcomeVars
<1>4. CASE FulfillRemove
  <2>1. raced = {} => worker'.question = question[worker'.req]
    BY <1>4, <1>a, WorkerEffects DEF AnswerInv, NoneDistinct
  <2>2. QED
    BY <1>1, <1>4, <2>1 DEF FulfillRemove, outcomeVars
<1>5. CASE FulfillFinish
  <2>1. PICK q \in Requests : q = worker.req
    BY <1>5, <1>a DEF FulfillFinish, StateTyped
  <2>2. PICK answer \in {worker.question, None} :
             /\ result' = [result EXCEPT ![q] = answer]
             /\ failed' = [failed EXCEPT ![q] = (answer = None)]
    BY <1>5, <2>1 DEF FulfillFinish
  <2>3. /\ worker'.req = None /\ question' = question /\ raced' = raced /\ leftover' = leftover
        /\ worker.pc = "finish"
    BY <1>5, <1>a, WorkerEffects DEF FulfillFinish
  <2>4. raced = {} => answer \in {question[q], None}
    BY <2>1, <2>2 DEF AnswerInv, NoneDistinct
  <2>5. raced = {} => ended[q] = "none"
    BY <1>b, <2>1, <2>3 DEF EndedInv, Finishing
  <2>6. raced = {} => ended' = [ended EXCEPT ![q] = "lookup"]
    BY <1>5, <1>a, <2>1, <2>5 DEF FulfillFinish, StateTyped
  <2>7. /\ result \in [Requests -> Nat \cup {None}] /\ failed \in [Requests -> BOOLEAN]
        /\ ended \in [Requests -> {"none", "lookup", "cancel"}]
    BY <1>a DEF StateTyped, Typed, FlagsTyped
  <2>8. ASSUME raced = {}, NEW p \in Requests
        PROVE  /\ ended'[p] = "lookup" => result'[p] = IF failed'[p] THEN None ELSE question'[p]
               /\ ended'[p] /= "lookup" => result'[p] = None /\ failed'[p] = leftover'[p]
    <3>1. CASE p = q
      <4>1. ended'[p] = "lookup" /\ result'[p] = answer /\ (failed'[p] <=> answer = None)
        BY <2>2, <2>6, <2>7, <2>8, <3>1
      <4>2. QED
        BY <2>3, <2>4, <2>8, <3>1, <4>1
    <3>2. CASE p /= q
      <4>1. ended'[p] = ended[p] /\ result'[p] = result[p] /\ failed'[p] = failed[p]
        BY <2>2, <2>6, <2>7, <2>8, <3>2
      <4>2. QED
        BY <2>3, <2>8, <4>1 DEF AnswerInv, OwnAnswer
    <3>3. QED
      BY <3>1, <3>2
  <2>9. QED
    BY <2>3, <2>8 DEF AnswerInv, OwnAnswer
<1>6. ASSUME NEW q \in Requests, Ask(q) PROVE AnswerInv'
  <2>1. /\ result' = [result EXCEPT ![q] = None] /\ worker' = worker /\ failed' = failed
        /\ question' = [question EXCEPT ![q] = @ + 1]
        /\ ended' = [ended EXCEPT ![q] = "none"] /\ leftover' = [leftover EXCEPT ![q] = failed[q]]
        /\ raced' = {} => raced = {} /\ worker.req /= q
    BY <1>6 DEF Ask, ResultAtAsk
  <2>2. ASSUME NEW p \in Requests
        PROVE  /\ result'[p] = IF p = q THEN None ELSE result[p]
               /\ ended'[p] = IF p = q THEN "none" ELSE ended[p]
               /\ leftover'[p] = IF p = q THEN failed[p] ELSE leftover[p]
               /\ p /= q => question'[p] = question[p]
    BY <1>a, <2>1 DEF StateTyped, Typed, FlagsTyped
  <2>3. worker.req \in Requests \cup {None}
    BY <1>a DEF StateTyped, WorkerType
  <2>4. raced' = {} /\ worker'.req /= None => worker'.question = question'[worker'.req]
    BY <2>1, <2>2, <2>3 DEF AnswerInv
  <2>5. ASSUME raced' = {}, NEW p \in Requests
        PROVE  /\ ended'[p] = "lookup" => result'[p] = IF failed'[p] THEN None ELSE question'[p]
               /\ ended'[p] /= "lookup" => result'[p] = None /\ failed'[p] = leftover'[p]
    <3>1. CASE p = q
      BY <2>1, <2>2, <3>1
    <3>2. CASE p /= q
      <4>1. /\ ended'[p] = ended[p] /\ result'[p] = result[p] /\ failed'[p] = failed[p]
            /\ leftover'[p] = leftover[p] /\ question'[p] = question[p]
        BY <2>1, <2>2, <3>2
      <4>2. QED
        BY <2>1, <2>5, <4>1 DEF AnswerInv, OwnAnswer
    <3>3. QED
      BY <3>1, <3>2
  <2>6. QED
    BY <2>4, <2>5 DEF AnswerInv, OwnAnswer
<1>7. ASSUME NEW q \in Requests, Cancel(q) PROVE AnswerInv'
  <2>1. /\ UNCHANGED <<worker, question, result, failed, leftover>>
        /\ ended' = [ended EXCEPT ![q] = "cancel"]
        /\ raced' = {} => raced = {}
        /\ busy[q]
    BY <1>7 DEF Cancel, CancelTakes
  <2>2. raced = {} => ended[q] = "none"
    BY <1>b, <2>1 DEF HolderInv, BusyInv, EndedInv
  <2>3. \A p \in Requests : ended'[p] = IF p = q THEN "cancel" ELSE ended[p]
    BY <1>a, <2>1 DEF StateTyped
  <2>4. ASSUME raced = {}, NEW p \in Requests
        PROVE  /\ ended'[p] = "lookup" => ended[p] = "lookup"
               /\ ended'[p] /= "lookup" => ended[p] /= "lookup"
    BY <2>2, <2>3, <2>4
  <2>5. ASSUME raced' = {} PROVE OwnAnswer'
    BY <2>1, <2>4, <2>5 DEF AnswerInv, OwnAnswer
  <2>6. QED
    BY <2>1, <2>5 DEF AnswerInv
<1>8. ASSUME NEW q \in Requests, CancelExec(q) \/ Callback(q) PROVE AnswerInv'
  BY <1>1, <1>8 DEF CancelExec, Callback, AnswerInv, outcomeVars
<1>9. ASSUME NEW u, Raise(u) PROVE AnswerInv'
  BY <1>1, <1>9 DEF Raise, AnswerInv, outcomeVars
<1>10. CASE Destroy
  BY <1>1, <1>10 DEF Destroy, AnswerInv, outcomeVars
<1>11. CASE Rest \/ UNCHANGED adnsVars
  BY <1>1, <1>11 DEF Rest, adnsVars, AnswerInv
<1>12. QED
  BY <1>2, <1>3, <1>4, <1>5, <1>6, <1>7, <1>8, <1>9, <1>10, <1>11
     DEF Next, WorkerStep, TaskStep, RaiseStep

\* What a callback finds belongs to what was asked last, as OwnAnswer has it: a
\* request completed by the lookup has its answer or an error, one completed by a
\* cancellation has no answer and the error it was asked with, which a failed
\* lookup may have left.  One of the two races must have happened before it can
\* be otherwise.
THEOREM AnswersBelong == NoneDistinct => (Spec => []OwnAnswer)
<1> SUFFICES ASSUME NoneDistinct PROVE Spec => []OwnAnswer
  OBVIOUS
<1> DEFINE Inv == HolderInv /\ EndedInv /\ AnswerInv
<1>1. Init => Inv
  <2>1. Init => AnswerInv
    BY DEF Init, AnswerInv, OwnAnswer
  <2>2. QED
    BY <2>1, HolderInit
<1>2. Typed /\ Inv /\ [Next]_adnsVars => Inv'
  BY HolderStep, EndedStep, AnswerStep
<1>3. Inv => OwnAnswer
  BY DEF AnswerInv, OwnAnswer
<1> HIDE DEF Inv
<1>4. Spec => []Typed
  BY TypeCorrect
<1>5. QED
  BY <1>1, <1>2, <1>3, <1>4, PTL DEF Spec

---------------------------------------------------------------------------
(* The wakeup *)

\* Every step keeps the worker from sleeping through requests and the end.
LEMMA AwakeStep ==
  NoneDistinct /\ Typed /\ ResolverAwake /\ [Next]_adnsVars => ResolverAwake'
<1> SUFFICES ASSUME NoneDistinct, Typed, ResolverAwake, [Next]_adnsVars PROVE ResolverAwake'
  OBVIOUS
<1>a. StateTyped
  BY DEF Typed
<1>1. CASE PeekEmpty
  BY <1>1 DEF PeekEmpty, ResolverAwake
<1>2. CASE PeekQuit \/ PeekRequest \/ WaitEvent \/ ClearEvent \/ FulfillDrop \/ FulfillRemove
             \/ FulfillFinish
  <2>1. worker'.pc /= "wait"
    <3>1. CASE PeekQuit
      BY <3>1, <1>a, WorkerPlaces DEF PeekQuit
    <3>2. CASE WaitEvent
      BY <3>2, <1>a, WorkerPlaces DEF WaitEvent
    <3>3. CASE ClearEvent \/ FulfillDrop \/ FulfillFinish
      BY <3>3, <1>a, WorkerPlaces DEF ClearEvent, FulfillDrop, FulfillFinish
    <3>4. QED
      BY <1>2, <1>a, <3>1, <3>2, <3>3, WorkerEffects
  <2>2. QED
    BY <2>1 DEF ResolverAwake
<1>3. ASSUME NEW q \in Requests, Ask(q) PROVE ResolverAwake'
  BY <1>3 DEF Ask, AskRaises, ResolverAwake
<1>4. ASSUME NEW q \in Requests, Cancel(q) PROVE ResolverAwake'
  <2>1. requests = <<>> => requests' = <<>>
    <3> SUFFICES ASSUME requests = <<>> PROVE requests' = <<>>
      OBVIOUS
    <3>1. DOMAIN requests = {}
      OBVIOUS
    <3>2. ListRemove(q) = requests
      BY <3>1 DEF ListRemove
    <3>3. QED
      BY <1>4, <3>2 DEF Cancel
  <2>2. QED
    BY <1>4, <2>1 DEF Cancel, ResolverAwake
<1>5. ASSUME NEW q \in Requests, CancelExec(q) \/ Callback(q) PROVE ResolverAwake'
  BY <1>5 DEF CancelExec, Callback, ResolverAwake
<1>6. ASSUME NEW u, Raise(u) PROVE ResolverAwake'
  BY <1>6 DEF Raise, ResolverAwake
<1>7. CASE Destroy
  BY <1>7 DEF Destroy, QuitRaisers, ResolverAwake
<1>8. CASE Rest \/ UNCHANGED adnsVars
  BY <1>8 DEF Rest, adnsVars, ResolverAwake
<1>9. QED
  BY <1>1, <1>2, <1>3, <1>4, <1>5, <1>6, <1>7, <1>8
     DEF Next, WorkerStep, TaskStep, RaiseStep

\* The resolver serves its requests: the two properties above, with their
\* exceptions (the late cancellation for both, the request asked again during
\* its old lookup for the second), and without exception it does not sleep while
\* there are requests or the end is asked for, unless the event is raised or about
\* to be.
THEOREM ResolverServesAll == NoneDistinct => (Spec => []ResolverServes)
<1> SUFFICES ASSUME NoneDistinct PROVE Spec => []ResolverServes
  OBVIOUS
<1>1. Init => ResolverAwake
  BY DEF Init, ResolverAwake
<1>2. Typed /\ ResolverAwake /\ [Next]_adnsVars => ResolverAwake'
  BY AwakeStep
<1>3. (Spec => []Typed) /\ (Spec => []AskedOnce) /\ (Spec => []OwnAnswer)
  BY TypeCorrect, OneCallbackPerAsk, AnswersBelong
<1>4. QED
  BY <1>1, <1>2, <1>3, PTL DEF Spec, ResolverServes
=============================================================================
