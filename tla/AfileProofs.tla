---------------------------- MODULE AfileProofs ----------------------------
(***************************************************************************)
(* Proofs about Afile.  Its properties need, beyond themselves: that no    *)
(* two ioq_cb() have the same request to end, and that one which is about  *)
(* to call back a write that was not performed finds the outcome it has    *)
(* left in the write's error field.                                        *)
(***************************************************************************)
EXTENDS Afile, FiniteSetTheorems, TLAPS

Causes == {"io", "wait error", "cancel"}
Endings == [ops : (SUBSET Op) \ {{}}, cause : Causes, stage : {"perform", "call"}]

FlagsTyped ==
  /\ cancelled \in BOOLEAN
  /\ err \in BOOLEAN
  /\ error \in [Op -> BOOLEAN]

SetsTyped ==
  /\ phase \in {"idle", "waiting", "over"}
  /\ set \in SUBSET {"in", "out"}
  /\ ready \in SUBSET {"in", "out", "err"}
  /\ flags \in SUBSET (Op \cup {"cancel"})
  /\ entered \in Nat
  /\ performing \in SUBSET Endings
  /\ outstanding \in SUBSET Op

Typed == FlagsTyped /\ SetsTyped

\* Some ioq_cb() has op still to end.
Ended(op) == \E t \in performing : op \in t.ops

\* A request is in one place.
Placed(op) ==
  /\ op \in outstanding <=> op \in flags \/ Ended(op)
  /\ op \in flags => ~Ended(op)

RequestInv ==
  /\ \A op \in Op : Placed(op)
  /\ \A t, u \in performing, op \in Op : op \in t.ops /\ op \in u.ops => t = u

\* An ioq_cb() is about to look only after the wait, and there is one.
WaitInv ==
  /\ entered = 0 \/ (entered = 1 /\ phase = "idle")
  /\ FileWaitArmed

\* A write that ends without write() finds its own outcome.
ToldInv ==
  /\ \A t \in performing :
       t.stage = "call" /\ First(t) = "write" /\ t.cause /= "io"
         => error["write"] = (t.cause = "wait error")
  /\ FileFailureTold

---------------------------------------------------------------------------
(* Type correctness *)

\* What an ioq_cb() that has ops to end for a cause is left with.
LEMMA RemainingTyped ==
  ASSUME NEW ops \in SUBSET Op, NEW cause \in Causes
  PROVE  /\ Remaining(ops, cause) \in SUBSET Endings
         /\ \A t \in Remaining(ops, cause) :
              t.ops = ops /\ t.cause = cause /\ t.stage = "perform"
         /\ ops /= {} => \E t \in Remaining(ops, cause) : t.ops = ops
<1>1. CASE ops = {}
  BY <1>1 DEF Remaining
<1>2. CASE ops /= {}
  <2>1. PICK t \in Endings : t = [ops |-> ops, cause |-> cause, stage |-> "perform"]
    BY <1>2 DEF Endings
  <2>2. Remaining(ops, cause) = {t}
    BY <1>2, <2>1 DEF Remaining
  <2>3. t.ops = ops /\ t.cause = cause /\ t.stage = "perform"
    BY <2>1
  <2>4. QED
    BY <2>2, <2>3
<1>3. QED
  BY <1>1, <1>2

\* The request that comes first is one of them.
LEMMA FirstIn == \A t \in Endings : First(t) \in t.ops /\ First(t) \in Op /\ t.ops \in SUBSET Op
BY DEF Endings, First, Op

\* An ioq_cb() that goes on to the callback.
LEMMA StageCall ==
  ASSUME NEW t \in Endings
  PROVE  /\ [t EXCEPT !.stage = "call"] \in Endings
         /\ [t EXCEPT !.stage = "call"].ops = t.ops
         /\ [t EXCEPT !.stage = "call"].cause = t.cause
         /\ [t EXCEPT !.stage = "call"].stage = "call"
BY DEF Endings

\* Every step keeps the flags Boolean.
LEMMA FlagsStep == FlagsTyped /\ [Next]_afileVars => FlagsTyped'
<1> SUFFICES ASSUME FlagsTyped, [Next]_afileVars PROVE FlagsTyped'
  OBVIOUS
<1> USE DEF FlagsTyped, fdObject
<1>1. ASSUME NEW op \in Op, Request(op) PROVE FlagsTyped'
  <2>1. cancelled' \in BOOLEAN
    BY <1>1 DEF Request, RequestWait, Rewait, Wait, Change
  <2>2. err' \in BOOLEAN
    BY <1>1 DEF Request, RequestWait, Rewait, Wait, Change
  <2>3. QED
    BY <1>1, <2>1, <2>2 DEF Request
<1>2. CASE Cancel
  <2>1. cancelled' \in BOOLEAN /\ err' \in BOOLEAN
    BY <1>2 DEF Cancel, CancelWait, Rewait, Change
  <2>2. QED
    BY <1>2, <2>1 DEF Cancel
<1>3. CASE WaitStep(Drop) \/ WaitStep(Report) \/ WaitStep(Refuse)
  BY <1>3 DEF WaitStep, Drop, Report, Refuse
<1>4. CASE IoqCb
  BY <1>4 DEF IoqCb, Called
<1>5. CASE EndWaitAll
  BY <1>5 DEF EndWaitAll, Forget
<1>6. CASE EndWaitSome
  BY <1>6 DEF EndWaitSome, RestWait, Forget, Wait
<1>7. ASSUME NEW t, Perform(t) PROVE FlagsTyped'
  <2>1. PICK f \in Fails(t) : error' = [error EXCEPT ![FieldOf(t)] = f]
    BY <1>7 DEF Perform
  <2>2. f \in BOOLEAN
    BY DEF Fails
  <2>3. QED
    BY <1>7, <2>1, <2>2 DEF Perform
<1>8. ASSUME NEW t, Callback(t) PROVE FlagsTyped'
  BY <1>8 DEF Callback
<1>9. CASE UNCHANGED afileVars
  BY <1>9 DEF afileVars
<1>10. QED
  BY <1>1, <1>2, <1>3, <1>4, <1>5, <1>6, <1>7, <1>8, <1>9 DEF Next, WaitProcess, Ending

\* Every step preserves the type invariant.
LEMMA TypeStep == Typed /\ [Next]_afileVars => Typed'
<1> SUFFICES ASSUME SetsTyped, [Next]_afileVars PROVE SetsTyped'
  BY FlagsStep DEF Typed
<1> USE DEF SetsTyped, fdObject
<1>1. ASSUME NEW op \in Op, Request(op) PROVE SetsTyped'
  <2>1. EventOf[op] \in {"in", "out"}
    BY DEF EventOf, Op
  <2>2. /\ phase' \in {"idle", "waiting", "over"} /\ set' \in SUBSET {"in", "out"}
        /\ ready' \in SUBSET {"in", "out", "err"}
    BY <1>1, <2>1 DEF Request, RequestWait, Rewait, Wait, Change
  <2>3. QED
    BY <1>1, <2>2 DEF Request
<1>2. CASE Cancel
  BY <1>2 DEF Cancel, CancelWait, Rewait, Change
<1>3. CASE WaitStep(Drop) \/ WaitStep(Report) \/ WaitStep(Refuse)
  BY <1>3 DEF WaitStep, Drop, Report, Refuse
<1>4. CASE IoqCb
  BY <1>4 DEF IoqCb, Called
<1>5. CASE EndWaitAll
  <2>1. Remaining(flags \cap Op, IF err THEN "wait error" ELSE "cancel") \in SUBSET Endings
    BY RemainingTyped DEF Causes
  <2>2. performing' \in SUBSET Endings
    BY <1>5, <2>1 DEF EndWaitAll
  <2>3. /\ phase' = phase /\ set' = {} /\ ready' = {} /\ flags' = {}
        /\ entered > 0 /\ entered' = entered - 1 /\ outstanding' = outstanding
    BY <1>5, Zenon DEF EndWaitAll, Forget
  <2>4. QED
    BY <2>2, <2>3
<1>6. CASE EndWaitSome
  <2> DEFINE now == {op \in flags : ReadyFor(op)}
  <2>1. flags \in SUBSET Op /\ now \in SUBSET Op
    BY <1>6 DEF EndWaitSome
  <2>2. Remaining(now, "io") \in SUBSET Endings
    BY <2>1, RemainingTyped DEF Causes
  <2>3. performing' \in SUBSET Endings
    BY <1>6, <2>2 DEF EndWaitSome
  <2>4. {EventOf[op] : op \in flags \ now} \in SUBSET {"in", "out"}
    BY <2>1 DEF EventOf, Op
  <2>5. /\ phase' \in {"idle", "waiting", "over"} /\ set' \in SUBSET {"in", "out"}
        /\ ready' \in SUBSET {"in", "out", "err"}
    BY <1>6, <2>4 DEF EndWaitSome, RestWait, Forget, Wait
  <2>6. flags' \in SUBSET (Op \cup {"cancel"}) /\ entered' \in Nat
    BY <1>6 DEF EndWaitSome, FlagsAfter
  <2>7. QED
    BY <1>6, <2>3, <2>5, <2>6 DEF EndWaitSome
<1>7. ASSUME NEW t \in performing, Perform(t) PROVE SetsTyped'
  <2>1. performing' \in SUBSET Endings
    BY <1>7, StageCall DEF Perform
  <2>2. QED
    BY <1>7, <2>1 DEF Perform
<1>8. ASSUME NEW t \in performing, Callback(t) PROVE SetsTyped'
  <2>1. t.ops \ {First(t)} \in SUBSET Op /\ t.cause \in Causes
    BY DEF Endings
  <2>2. Remaining(t.ops \ {First(t)}, t.cause) \in SUBSET Endings
    BY <2>1, RemainingTyped
  <2>3. QED
    BY <1>8, <2>2 DEF Callback
<1>9. CASE UNCHANGED afileVars
  BY <1>9 DEF afileVars
<1>10. QED
  BY <1>1, <1>2, <1>3, <1>4, <1>5, <1>6, <1>7, <1>8, <1>9 DEF Next, WaitProcess, Ending

\* The state of a file is well formed.
THEOREM TypeCorrect == Spec => []Typed
<1>1. Init => FlagsTyped
  BY DEF Init, WaitInit, FlagsTyped
<1>2. Init => SetsTyped
  BY DEF Init, WaitInit, SetsTyped
<1>3. QED
  BY <1>1, <1>2, TypeStep, PTL DEF Spec, Typed

---------------------------------------------------------------------------
(* Requests *)

\* The requests in now leave a->flags, and an ioq_cb() has them to end.
LEMMA RequestEnds ==
  ASSUME Typed, RequestInv, NEW now \in SUBSET (flags \cap Op), NEW cause \in Causes,
         flags' \cap Op = (flags \ now) \cap Op, UNCHANGED outstanding,
         performing' = performing \cup Remaining(now, cause)
  PROVE  RequestInv'
<1>1. now \in SUBSET Op /\ Remaining(now, cause) \in SUBSET Endings
  BY RemainingTyped
<1>2. \A t \in Remaining(now, cause) : t.ops = now
  BY <1>1, RemainingTyped
<1>3. \A op \in now : \E t \in Remaining(now, cause) : op \in t.ops
  BY <1>1, RemainingTyped
<1>4. ASSUME NEW op \in Op PROVE Placed(op)'
  <2>1. Ended(op)' <=> Ended(op) \/ op \in now
    BY <1>2, <1>3 DEF Ended
  <2>2. op \in flags' <=> op \in flags /\ op \notin now
    OBVIOUS
  <2>3. QED
    BY <2>1, <2>2 DEF RequestInv, Placed
<1>5. ASSUME NEW t \in performing', NEW u \in performing', NEW op \in Op, op \in t.ops, op \in u.ops
      PROVE  t = u
  <2>1. CASE op \in now
    <3>1. ~Ended(op)
      BY <2>1 DEF RequestInv, Placed
    <3>2. t \in Remaining(now, cause) /\ u \in Remaining(now, cause)
      BY <1>5, <3>1 DEF Ended
    <3>3. QED
      BY <3>2 DEF Remaining
  <2>2. CASE op \notin now
    <3>1. t \in performing /\ u \in performing
      BY <1>2, <1>5, <2>2
    <3>2. QED
      BY <1>5, <3>1 DEF RequestInv
  <2>3. QED
    BY <2>1, <2>2
<1>6. QED
  BY <1>4, <1>5 DEF RequestInv

\* The place of an ioq_cb() is taken by what is left of it.
LEMMA RequestGoesOn ==
  ASSUME Typed, RequestInv, NEW t \in performing, NEW rest \in SUBSET Endings, NEW gone \in SUBSET t.ops,
         UNCHANGED flags, outstanding' = outstanding \ gone,
         performing' = (performing \ {t}) \cup rest,
         \A u, v \in rest : u = v, \A u \in rest : u.ops = t.ops \ gone,
         t.ops \ gone /= {} => rest /= {}
  PROVE  RequestInv'
<1>1. t.ops \in SUBSET Op
  BY DEF Typed, SetsTyped, Endings
<1>2. ASSUME NEW op \in Op PROVE Placed(op)'
  <2>1. \A u \in performing : op \in t.ops /\ op \in u.ops => u = t
    BY DEF RequestInv
  <2>2. Ended(op)' <=> Ended(op) /\ op \notin gone
    <3>1. CASE op \in gone
      BY <2>1, <3>1 DEF Ended
    <3>2. CASE op \in t.ops \ gone
      <4>1. PICK u \in rest : op \in u.ops
        BY <3>2
      <4>2. QED
        BY <3>2, <4>1 DEF Ended
    <3>3. CASE op \notin t.ops
      BY <3>3 DEF Ended
    <3>4. QED
      BY <3>1, <3>2, <3>3
  <2>3. op \in gone => Ended(op)
    BY DEF Ended
  <2>4. QED
    BY <2>2, <2>3 DEF RequestInv, Placed
<1>3. ASSUME NEW u \in performing', NEW v \in performing', NEW op \in Op, op \in u.ops, op \in v.ops
      PROVE  u = v
  <2>1. CASE op \in t.ops
    <3>1. u \in rest /\ v \in rest
      BY <1>3, <2>1 DEF RequestInv
    <3>2. QED
      BY <3>1
  <2>2. CASE op \notin t.ops
    <3>1. u \in performing /\ v \in performing
      BY <1>3, <2>2
    <3>2. QED
      BY <1>3, <3>1 DEF RequestInv
  <2>3. QED
    BY <2>1, <2>2
<1>4. QED
  BY <1>2, <1>3 DEF RequestInv

\* Every step keeps each request in one place.
LEMMA RequestStep == Typed /\ RequestInv /\ [Next]_afileVars => RequestInv'
<1> SUFFICES ASSUME Typed, RequestInv, [Next]_afileVars PROVE RequestInv'
  OBVIOUS
<1> USE DEF fdObject
<1>1. ASSUME UNCHANGED <<performing, outstanding>>, flags' \cap Op = flags \cap Op
      PROVE  RequestInv'
  BY <1>1 DEF RequestInv, Placed, Ended
<1>2. ASSUME NEW op \in Op, Request(op) PROVE RequestInv'
  <2>1. /\ flags' = flags \cup {op} /\ outstanding' = outstanding \cup {op}
        /\ op \notin outstanding /\ performing' = performing
    BY <1>2 DEF Request
  <2>2. op \notin flags /\ ~Ended(op)
    BY <2>1 DEF RequestInv, Placed
  <2>3. QED
    BY <2>1, <2>2 DEF RequestInv, Placed, Ended
<1>3. CASE Cancel
  BY <1>1, <1>3 DEF Cancel, Op
<1>4. CASE WaitStep(Drop) \/ WaitStep(Report) \/ WaitStep(Refuse)
  BY <1>1, <1>4 DEF WaitStep
<1>5. CASE IoqCb
  BY <1>1, <1>5 DEF IoqCb
<1>6. CASE EndWaitAll
  <2>1. PICK cause \in Causes :
             performing' = performing \cup Remaining(flags \cap Op, cause)
    BY <1>6 DEF EndWaitAll, Causes
  <2>2. flags' \cap Op = (flags \ (flags \cap Op)) \cap Op /\ outstanding' = outstanding
    BY <1>6 DEF EndWaitAll
  <2>3. QED
    BY <2>1, <2>2, RequestEnds
<1>7. CASE EndWaitSome
  <2>1. PICK now \in SUBSET flags : now = {op \in flags : ReadyFor(op)}
    OBVIOUS
  <2>2. /\ performing' = performing \cup Remaining(now, "io") /\ flags' = flags \ now
        /\ outstanding' = outstanding /\ "cancel" \notin flags
    BY <1>7, <2>1 DEF EndWaitSome, FlagsAfter
  <2>3. now \in SUBSET (flags \cap Op) /\ "io" \in Causes
    BY <2>1, <2>2 DEF Typed, SetsTyped, Causes
  <2>4. QED
    BY <2>2, <2>3, RequestEnds
<1>8. ASSUME NEW t \in performing, Perform(t) PROVE RequestInv'
  <2>1. t \in Endings
    BY DEF Typed, SetsTyped
  <2>2. PICK u \in Endings : u = [t EXCEPT !.stage = "call"]
    BY <2>1, StageCall
  <2>3. u.ops = t.ops \ {}
    BY <2>1, <2>2, StageCall
  <2>4. /\ performing' = (performing \ {t}) \cup {u} /\ UNCHANGED flags
        /\ outstanding' = outstanding \ {}
    BY <1>8, <2>2 DEF Perform
  <2>5. {u} \in SUBSET Endings /\ (\A v, w \in {u} : v = w) /\ {u} /= {} /\ {} \in SUBSET t.ops
        /\ \A v \in {u} : v.ops = t.ops \ {}
    BY <2>3
  <2>6. QED
    BY <2>4, <2>5, RequestGoesOn
<1>9. ASSUME NEW t \in performing, Callback(t) PROVE RequestInv'
  <2>1. t \in Endings
    BY DEF Typed, SetsTyped
  <2>2. {First(t)} \in SUBSET t.ops /\ t.ops \ {First(t)} \in SUBSET Op /\ t.cause \in Causes
    BY <2>1, FirstIn DEF Endings
  <2>3. PICK rest : rest = Remaining(t.ops \ {First(t)}, t.cause)
    OBVIOUS
  <2>4. rest \in SUBSET Endings /\ \A u \in rest : u.ops = t.ops \ {First(t)}
    BY <2>2, <2>3, RemainingTyped
  <2>5. (\A u, v \in rest : u = v) /\ (t.ops \ {First(t)} /= {} => rest /= {})
    BY <2>3 DEF Remaining
  <2>6. /\ performing' = (performing \ {t}) \cup rest /\ UNCHANGED flags
        /\ outstanding' = outstanding \ {First(t)}
    BY <1>9, <2>3 DEF Callback
  <2>7. QED
    BY <2>2, <2>4, <2>5, <2>6, RequestGoesOn
<1>10. CASE UNCHANGED afileVars
  BY <1>1, <1>10 DEF afileVars
<1>11. QED
  BY <1>2, <1>3, <1>4, <1>5, <1>6, <1>7, <1>8, <1>9, <1>10 DEF Next, WaitProcess, Ending

\* A request that was not called back is in exactly one place, a->flags or the
\* ioq_cb() that ends it: each is called back once.
THEOREM OneCallbackPerRequest == Spec => []FileRequestsOnce
<1>1. Init => RequestInv
  BY DEF Init, RequestInv, Placed, Ended
<1>2. RequestInv => FileRequestsOnce
  <2> SUFFICES ASSUME RequestInv, NEW op \in Op
               PROVE  Cardinality({t \in performing : op \in t.ops})
                        + (IF op \in flags THEN 1 ELSE 0) = IF op \in outstanding THEN 1 ELSE 0
    BY DEF FileRequestsOnce
  <2>1. Cardinality({t \in performing : op \in t.ops}) = IF Ended(op) THEN 1 ELSE 0
    <3>1. CASE Ended(op)
      <4>1. PICK t \in performing : op \in t.ops
        BY <3>1 DEF Ended
      <4>2. {u \in performing : op \in u.ops} = {t}
        BY <4>1 DEF RequestInv
      <4>3. QED
        BY <3>1, <4>2, FS_Singleton
    <3>2. CASE ~Ended(op)
      <4>1. {u \in performing : op \in u.ops} = {}
        BY <3>2 DEF Ended
      <4>2. QED
        BY <3>2, <4>1, FS_EmptySet
    <3>3. QED
      BY <3>1, <3>2
  <2>2. Placed(op)
    BY DEF RequestInv
  <2>3. QED
    BY <2>1, <2>2 DEF Placed
<1>3. QED
  BY <1>1, <1>2, RequestStep, TypeCorrect, PTL DEF Spec

---------------------------------------------------------------------------
(* The wait *)

\* Every step keeps the requests waited for.
LEMMA WaitInvStep == Typed /\ WaitInv /\ [Next]_afileVars => WaitInv'
<1> SUFFICES ASSUME Typed, WaitInv, [Next]_afileVars PROVE WaitInv'
  OBVIOUS
<1> USE DEF fdObject
<1>1. ASSUME UNCHANGED <<phase, set, flags, entered>> PROVE WaitInv'
  BY <1>1 DEF WaitInv, FileWaitArmed, CancelLost
<1>2. ASSUME NEW op \in Op, Request(op) PROVE WaitInv'
  <2>1. flags' = flags \cup {op} /\ entered' = entered /\ RequestWait(op)
        /\ op /= "cancel"
    BY <1>2 DEF Request, Op
  <2>2. CASE flags = {}
    <3>1. phase' = "waiting" /\ set' = {EventOf[op]} /\ flags' = {op} /\ entered = 0
      BY <2>1, <2>2 DEF RequestWait, Wait, WaitInv, FileWaitArmed, CancelLost
    <3>2. QED
      BY <2>1, <3>1 DEF WaitInv, FileWaitArmed
  <2>3. CASE flags /= {} /\ phase = "waiting"
    <3>1. phase' = "waiting" /\ set' = {"in", "out"} /\ entered = 0
      BY <2>1, <2>3 DEF RequestWait, Rewait, Change, WaitInv
    <3>2. \A p \in Op : EventOf[p] \in {"in", "out"}
      BY DEF EventOf, Op
    <3>3. QED
      BY <2>1, <3>1, <3>2 DEF WaitInv, FileWaitArmed
  <2>4. CASE flags /= {} /\ phase /= "waiting"
    <3>1. phase' = phase
      BY <2>1, <2>4 DEF RequestWait, Rewait
    <3>2. QED
      BY <2>1, <2>4, <3>1 DEF WaitInv, FileWaitArmed, CancelLost
  <2>5. QED
    BY <2>2, <2>3, <2>4
<1>3. CASE Cancel
  <2>1. /\ flags' = flags \cup {"cancel"} /\ entered' = entered /\ phase' = phase
        /\ phase = "waiting" => set' = {}
    BY <1>3 DEF Cancel, CancelWait, Rewait, Change
  <2>2. CASE phase = "idle" /\ entered = 0
    BY <2>1, <2>2 DEF WaitInv, FileWaitArmed, CancelLost
  <2>3. CASE phase /= "idle" \/ entered /= 0
    BY <2>1, <2>3 DEF WaitInv, FileWaitArmed, CancelLost
  <2>4. QED
    BY <2>2, <2>3
<1>4. CASE WaitStep(Drop) \/ WaitStep(Report) \/ WaitStep(Refuse)
  BY <1>4 DEF WaitStep, Drop, Report, Refuse, WaitInv, FileWaitArmed, CancelLost
<1>5. CASE IoqCb
  BY <1>5 DEF IoqCb, Called, WaitInv, FileWaitArmed, CancelLost
<1>6. CASE EndWaitAll
  <2>1. phase' = phase /\ flags' = {} /\ entered > 0 /\ entered' = entered - 1
    BY <1>6, Zenon DEF EndWaitAll, Forget
  <2>2. phase' = "idle" /\ entered' = 0
    BY <2>1 DEF WaitInv
  <2>3. QED
    BY <2>1, <2>2 DEF WaitInv, FileWaitArmed
<1>7. CASE EndWaitSome
  <2>1. PICK rest \in SUBSET flags : rest = flags \ {op \in flags : ReadyFor(op)}
    OBVIOUS
  <2>2. /\ flags' = rest /\ RestWait(rest) /\ "cancel" \notin flags
        /\ entered = 1 /\ phase = "idle" /\ entered' = 0
    BY <1>7, <2>1 DEF EndWaitSome, FlagsAfter, WaitInv
  <2>3. CASE rest = {}
    <3>1. phase' = "idle"
      BY <2>2, <2>3 DEF RestWait, Forget
    <3>2. QED
      BY <2>2, <2>3, <3>1 DEF WaitInv, FileWaitArmed
  <2>4. CASE rest /= {}
    <3>1. phase' = "waiting" /\ set' = {EventOf[op] : op \in rest}
      BY <2>2, <2>4 DEF RestWait, Wait
    <3>2. QED
      BY <2>2, <2>4, <3>1 DEF WaitInv, FileWaitArmed
  <2>5. QED
    BY <2>3, <2>4
<1>8. ASSUME NEW t, Perform(t) \/ Callback(t) PROVE WaitInv'
  BY <1>1, <1>8 DEF Perform, Callback
<1>9. CASE UNCHANGED afileVars
  BY <1>1, <1>9 DEF afileVars
<1>10. QED
  BY <1>2, <1>3, <1>4, <1>5, <1>6, <1>7, <1>8, <1>9 DEF Next, WaitProcess, Ending

\* Requests are waited for: something is in a->flags exactly when a wait goes
\* on or an ioq_cb() is about to look, except after an afile_cancel() that found
\* a->flags empty; the wait covers every request's event unless it is being
\* cancelled.
THEOREM RequestsWaitedFor == Spec => []FileWaitArmed
<1>1. Init => WaitInv
  BY DEF Init, WaitInit, WaitInv, FileWaitArmed
<1>2. WaitInv => FileWaitArmed
  BY DEF WaitInv
<1>3. QED
  BY <1>1, <1>2, WaitInvStep, TypeCorrect, PTL DEF Spec

---------------------------------------------------------------------------
(* Outcomes *)

\* Every step keeps the outcome of a write in its field until it is told.
LEMMA ToldStep == Typed /\ RequestInv /\ ToldInv /\ [Next]_afileVars => ToldInv'
<1> SUFFICES ASSUME Typed, RequestInv, ToldInv, [Next]_afileVars PROVE ToldInv'
  OBVIOUS
<1> USE DEF fdObject
\* More to perform, but nothing else.
<1>1. ASSUME NEW new, performing' = performing \cup new, \A t \in new : t.stage = "perform",
             UNCHANGED <<error, told>>
      PROVE  ToldInv'
  BY <1>1 DEF ToldInv, FileFailureTold
<1>2. ASSUME UNCHANGED <<error, performing, told>> PROVE ToldInv'
  BY <1>2 DEF ToldInv, FileFailureTold
<1>3. ASSUME NEW op \in Op, Request(op) PROVE ToldInv'
  BY <1>2, <1>3 DEF Request
<1>4. CASE Cancel
  BY <1>2, <1>4 DEF Cancel
<1>5. CASE WaitStep(Drop) \/ WaitStep(Report) \/ WaitStep(Refuse)
  BY <1>2, <1>5 DEF WaitStep
<1>6. CASE IoqCb
  BY <1>2, <1>6 DEF IoqCb
<1>7. CASE EndWaitAll
  <2>1. PICK cause \in Causes :
             performing' = performing \cup Remaining(flags \cap Op, cause)
    BY <1>7 DEF EndWaitAll, Causes
  <2>2. \A t \in Remaining(flags \cap Op, cause) : t.stage = "perform"
    BY RemainingTyped
  <2>3. QED
    BY <1>1, <1>7, <2>1, <2>2 DEF EndWaitAll
<1>8. CASE EndWaitSome
  <2>1. PICK now : now = {op \in flags : ReadyFor(op)}
    OBVIOUS
  <2>2. now \in SUBSET Op /\ "io" \in Causes
    BY <1>8, <2>1 DEF EndWaitSome, Typed, SetsTyped, Causes
  <2>3. \A t \in Remaining(now, "io") : t.stage = "perform"
    BY <2>2, RemainingTyped
  <2>4. QED
    BY <1>1, <1>8, <2>1, <2>3 DEF EndWaitSome
<1>9. ASSUME NEW t \in performing, Perform(t) PROVE ToldInv'
  <2>1. t \in Endings /\ t.ops \in SUBSET Op
    BY FirstIn DEF Typed, SetsTyped
  <2>2. PICK u \in Endings : u = [t EXCEPT !.stage = "call"]
    BY <2>1, StageCall
  <2>3. u.ops = t.ops /\ u.cause = t.cause /\ First(u) = First(t)
    BY <2>1, <2>2, StageCall DEF First
  <2>4. PICK f \in Fails(t) : /\ error' = [error EXCEPT ![FieldOf(t)] = f]
                              /\ performing' = (performing \ {t}) \cup {u}
    BY <1>9, <2>2 DEF Perform
  <2>5. ASSUME NEW v \in performing', v.stage = "call", First(v) = "write", v.cause /= "io"
        PROVE  error'["write"] = (v.cause = "wait error")
    <3>1. CASE v = u
      <4>1. FieldOf(t) = "write" /\ f = (t.cause = "wait error")
        BY <2>3, <2>5, <3>1 DEF FieldOf, Fails
      <4>2. error'["write"] = f
        BY <2>4, <4>1 DEF Typed, FlagsTyped, Op
      <4>3. QED
        BY <2>3, <3>1, <4>1, <4>2
    <3>2. CASE v /= u
      <4>1. v \in performing /\ v /= t /\ v \in Endings
        BY <2>4, <3>2 DEF Typed, SetsTyped
      <4>2. "write" \in v.ops /\ "write" \in Op
        BY <2>5, <4>1, FirstIn DEF Op
      <4>3. "write" \notin t.ops
        BY <4>1, <4>2 DEF RequestInv
      <4>4. FieldOf(t) /= "write"
        BY <2>1, <4>3, FirstIn DEF FieldOf
      <4>5. error'["write"] = error["write"]
        BY <2>4, <4>2, <4>4 DEF Typed, FlagsTyped
      <4>6. QED
        BY <2>5, <4>1, <4>5 DEF ToldInv
    <3>3. QED
      BY <3>1, <3>2
  <2>6. QED
    BY <1>9, <2>5 DEF Perform, ToldInv, FileFailureTold
<1>10. ASSUME NEW t \in performing, Callback(t) PROVE ToldInv'
  <2>1. t \in Endings
    BY DEF Typed, SetsTyped
  <2>2. t.ops \ {First(t)} \in SUBSET Op /\ t.cause \in Causes
    BY <2>1 DEF Endings
  <2>3. \A u \in Remaining(t.ops \ {First(t)}, t.cause) : u.stage = "perform"
    BY <2>2, RemainingTyped
  <2>4. /\ \A u \in performing' : u.stage = "call" => u \in performing
        /\ error' = error
    BY <1>10, <2>3 DEF Callback
  <2>5. told'.op = First(t) /\ told'.cause = t.cause /\ told'.error = error[First(t)]
    BY <1>10 DEF Callback
  <2>6. FileFailureTold'
    BY <1>10, <2>5 DEF Callback, ToldInv, FileFailureTold
  <2>7. QED
    BY <2>4, <2>6 DEF ToldInv
<1>11. CASE UNCHANGED afileVars
  BY <1>2, <1>11 DEF afileVars
<1>12. QED
  BY <1>3, <1>4, <1>5, <1>6, <1>7, <1>8, <1>9, <1>10, <1>11 DEF Next, WaitProcess, Ending

\* A file serves its requests, however they and cancellations overlap: the two
\* properties above, and a write that ends without write(), because its file
\* descriptor cannot be waited for or it was cancelled, reports just that.
THEOREM FileServes == Spec => []FileServed
<1>1. Init => RequestInv /\ ToldInv
  BY DEF Init, RequestInv, Placed, Ended, ToldInv, FileFailureTold
<1>2. RequestInv /\ Typed /\ [Next]_afileVars => RequestInv'
  BY RequestStep
<1>3. ToldInv => FileFailureTold
  BY DEF ToldInv
<1>4. QED
  BY <1>1, <1>2, <1>3, ToldStep, TypeCorrect, OneCallbackPerRequest, RequestsWaitedFor, PTL
     DEF Spec, FileServed
=============================================================================
