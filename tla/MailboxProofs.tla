--------------------------- MODULE MailboxProofs ---------------------------
(***************************************************************************)
(* Proofs about Mailbox for any set of flags and any number of threads.    *)
(***************************************************************************)
EXTENDS Mailbox, TLAPS

\* What the wait in progress waits for is there.
Condition(s) ==
  \/ req.kind = "any" /\ expected \cap s /= {}
  \/ req.kind = "all" /\ expected \subseteq s

\* The consumer has asked for something and its mask is the current one.
Asked ==
  /\ req \in [kind : {"any", "all"}, set : SUBSET Flags]
  /\ req.set = expected

Armed == mode = req.kind /\ firing = {} /\ ~queued /\ ~Condition(state)

Decided ==
  /\ mode = "none"
  /\ Condition(state)
  /\ \/ ~queued /\ \E t \in Thread : firing = {t}
     \/ queued /\ firing = {}

\* While the consumer runs the mailbox is idle; while it waits, the wait is
\* armed and its condition fails, or it was decided and one thread or the run
\* queue holds the callback.
MailboxInv ==
  /\ TypeOK
  /\ owner = "running" => mode = "none" /\ firing = {} /\ ~queued /\ req = NoReq
  /\ owner = "waiting" => Asked /\ (Armed \/ Decided)

\* The invariant holds initially.
LEMMA MailboxInit == ASSUME MailboxAssumption PROVE Init => MailboxInv
  BY DEF Init, MailboxInv, TypeOK, MailboxAssumption

\* The locked section of mailbox_raise() preserves the invariant.
LEMMA RaisePreserves ==
  ASSUME MailboxInv, NEW t \in Thread, NEW mask \in SUBSET Flags, Raise(t, mask)
  PROVE  MailboxInv'
<1> USE DEF TypeOK
<1> DEFINE s == state \cup mask
<1>1. /\ state' = s /\ expected' = expected /\ queued' = queued /\ owner' = owner
      /\ req' = req
      /\ mode' = IF RaiseFires(s) THEN "none" ELSE mode
      /\ firing' = IF RaiseFires(s) THEN firing \cup {t} ELSE firing
  BY DEF Raise, ModeAfterRaise, RaiseFires
<1>2. s \in SUBSET Flags
  BY DEF MailboxInv
<1> HIDE DEF s
<1>3. TypeOK'
  BY <1>1, <1>2 DEF MailboxInv
<1>4. CASE owner = "running"
  <2>1. ~RaiseFires(s)
    BY <1>4 DEF MailboxInv, RaiseFires
  <2>2. QED
    BY <1>1, <1>3, <1>4, <2>1 DEF MailboxInv
<1>5. CASE owner = "waiting" /\ Decided
  <2>1. ~RaiseFires(s)
    BY <1>5 DEF Decided, RaiseFires
  <2>2. Condition(s)
    BY <1>5 DEF Decided, Condition, s
  <2>3. Decided'
    BY <1>1, <1>5, <2>1, <2>2 DEF Decided, Condition
  <2>4. QED
    BY <1>1, <1>3, <1>5, <2>3 DEF MailboxInv, Asked
<1>6. CASE owner = "waiting" /\ Armed
  <2>1. Asked
    BY <1>6 DEF MailboxInv
  <2>2. RaiseFires(s) <=> Condition(s)
    <3>1. expected \cap s = expected <=> expected \subseteq s
      OBVIOUS
    <3>2. QED
      BY <1>6, <3>1 DEF Armed, RaiseFires, Condition
  <2>3. CASE RaiseFires(s)
    <3>1. mode' = "none" /\ firing' = {t} /\ ~queued' /\ Condition(state)'
      BY <1>1, <1>6, <2>2, <2>3 DEF Armed, Condition
    <3>2. Decided'
      BY <3>1 DEF Decided
    <3>3. QED
      BY <1>1, <1>3, <1>6, <2>1, <3>2 DEF MailboxInv, Asked
  <2>4. CASE ~RaiseFires(s)
    <3>1. Armed'
      BY <1>1, <1>6, <2>2, <2>4 DEF Armed, Condition
    <3>2. QED
      BY <1>1, <1>3, <1>6, <2>1, <3>1 DEF MailboxInv, Asked
  <2>5. QED
    BY <2>3, <2>4
<1>7. QED
  BY <1>4, <1>5, <1>6 DEF MailboxInv

\* The locked section of mailbox_wait() and mailbox_wait_all() does.
LEMMA WaitPreserves ==
  ASSUME MailboxInv, NEW kind \in {"any", "all"}, NEW set \in SUBSET Flags,
         Wait(kind, set)
  PROVE  MailboxInv'
<1> USE DEF TypeOK
<1>1. mode = "none" /\ firing = {} /\ ~queued
  BY DEF MailboxInv, Wait
<1>2. /\ owner' = "waiting" /\ expected' = set /\ state' = state /\ queued' = queued
      /\ req' = [kind |-> kind, set |-> set]
  BY DEF Wait
<1>3. Asked'
  BY <1>2 DEF Asked
<1>4. WaitFires(kind, set) <=> Condition(state)'
  <2>1. state \cap set = set <=> set \subseteq state
    OBVIOUS
  <2>2. QED
    BY <1>2, <2>1 DEF WaitFires, Condition
<1>5. CASE WaitFires(kind, set)
  <2>1. firing' = {Consumer} /\ mode' = "none"
    BY <1>1, <1>5 DEF Wait
  <2>2. Consumer \in Thread
    BY DEF Thread
  <2>3. Decided'
    BY <1>1, <1>2, <1>4, <1>5, <2>1, <2>2 DEF Decided
  <2>4. TypeOK'
    BY <1>2, <2>1, <2>2 DEF MailboxInv
  <2>5. QED
    BY <1>2, <1>3, <2>3, <2>4 DEF MailboxInv
<1>6. CASE ~WaitFires(kind, set)
  <2>1. firing' = {} /\ mode' = kind
    BY <1>1, <1>6 DEF Wait
  <2>2. Armed'
    BY <1>1, <1>2, <1>4, <1>6, <2>1 DEF Armed
  <2>3. TypeOK'
    BY <1>2, <2>1 DEF MailboxInv
  <2>4. QED
    BY <1>2, <1>3, <2>2, <2>3 DEF MailboxInv
<1>7. QED
  BY <1>5, <1>6

\* Every step preserves the invariant.
LEMMA MailboxStep ==
  ASSUME MailboxAssumption PROVE MailboxInv /\ [Next]_vars => MailboxInv'
<1> SUFFICES ASSUME MailboxInv, [Next]_vars PROVE MailboxInv'
  OBVIOUS
<1> USE DEF TypeOK
<1>1. ASSUME NEW mask \in SUBSET Flags, Take(mask) PROVE MailboxInv'
  BY <1>1 DEF Take, MailboxInv
<1>2. ASSUME NEW t \in Thread, NEW mask \in SUBSET Flags, Raise(t, mask) PROVE MailboxInv'
  BY <1>2, RaisePreserves
<1>3. ASSUME NEW set \in AnySets, Wait("any", set) PROVE MailboxInv'
  BY <1>3, WaitPreserves DEF MailboxAssumption
<1>4. ASSUME NEW set \in AllSets, Wait("all", set) PROVE MailboxInv'
  BY <1>4, WaitPreserves DEF MailboxAssumption
<1>5. ASSUME NEW t \in Thread, Exec(t) PROVE MailboxInv'
  <2>1. firing /= {} /\ owner = "waiting" /\ ~Armed
    BY <1>5 DEF Exec, MailboxInv, Armed
  <2>2. Asked /\ Decided
    BY <2>1 DEF MailboxInv
  <2>3. firing = {t}
    BY <1>5, <2>1, <2>2 DEF Exec, Decided
  <2>4. firing' = {} /\ queued'
    BY <1>5, <2>3 DEF Exec
  <2>5. Decided'
    BY <1>5, <2>2, <2>4 DEF Exec, Decided, Condition
  <2>6. Asked'
    BY <1>5, <2>2 DEF Exec, Asked
  <2>7. QED
    BY <1>5, <2>1, <2>4, <2>5, <2>6 DEF Exec, MailboxInv
<1>6. CASE Callback
  <2>1. owner = "waiting" /\ Decided
    BY <1>6 DEF Callback, MailboxInv, Armed
  <2>2. QED
    BY <1>6, <2>1 DEF Callback, MailboxInv, Decided
<1>7. CASE UNCHANGED vars
  BY <1>7 DEF vars, MailboxInv, Asked, Armed, Decided, Condition
<1>8. QED
  BY <1>1, <1>2, <1>3, <1>4, <1>5, <1>6, <1>7 DEF Next

\* The inductive invariant is an invariant.
LEMMA MailboxAlways == ASSUME MailboxAssumption PROVE Spec => []MailboxInv
<1>1. Init => MailboxInv
  BY MailboxInit
<1>2. MailboxInv /\ [Next]_vars => MailboxInv'
  BY MailboxStep
<1>3. QED
  BY <1>1, <1>2, PTL DEF Spec

\* For any number of raising threads, a wait is completed by exactly one of
\* them, or by mailbox_wait() itself.
THEOREM OneCallback == ASSUME MailboxAssumption PROVE Spec => []OneCompletion
<1>1. MailboxInv => OneCompletion
  <2> SUFFICES ASSUME MailboxInv PROVE OneCompletion
    OBVIOUS
  <2>1. CASE owner = "running"
    BY <2>1 DEF MailboxInv, OneCompletion
  <2>2. CASE owner = "waiting" /\ Armed
    BY <2>2 DEF Armed, OneCompletion
  <2>3. CASE owner = "waiting" /\ Decided
    BY <2>3 DEF Decided, OneCompletion
  <2>4. QED
    BY <2>1, <2>2, <2>3 DEF MailboxInv, TypeOK
<1>2. Spec => []MailboxInv
  BY MailboxAlways
<1>3. QED
  BY <1>1, <1>2, PTL

\* No raise is overlooked by a wait, whenever it comes.
THEOREM NoFlagLost == ASSUME MailboxAssumption PROVE Spec => []ArmedUnsatisfied
<1>1. MailboxInv => ArmedUnsatisfied
  <2> SUFFICES ASSUME MailboxInv, mode /= "none"
               PROVE  /\ owner = "waiting" /\ req.kind = mode /\ req.set = expected
                      /\ mode = "any" => expected \cap state = {}
                      /\ mode = "all" => ~(expected \subseteq state)
    BY DEF ArmedUnsatisfied
  <2>1. owner = "waiting" /\ Asked /\ Armed
    BY DEF MailboxInv, TypeOK, Decided
  <2>2. QED
    BY <2>1 DEF Asked, Armed, Condition
<1>2. Spec => []MailboxInv
  BY MailboxAlways
<1>3. QED
  BY <1>1, <1>2, PTL

\* The mailbox implements the safety part of FlagWait: a wait is completed only
\* when its condition holds, once, and no flag is lowered while it lasts.
THEOREM MailboxImplementsFlagWait == ASSUME MailboxAssumption PROVE Spec => WaitSpec!SafeSpec
<1>1. Init => WaitSpec!Init
  BY DEF Init, WaitSpec!Init
<1>2. MailboxInv /\ [Next]_vars => [WaitSpec!Next]_(WaitSpec!waitVars)
  <2> SUFFICES ASSUME MailboxInv, [Next]_vars
               PROVE  [WaitSpec!Next]_(WaitSpec!waitVars)
    OBVIOUS
  <2> USE DEF WaitSpec!waitVars
  <2>1. ASSUME NEW mask \in SUBSET Flags, Take(mask)
        PROVE  [WaitSpec!Next]_(WaitSpec!waitVars)
    <3>1. WaitSpec!Take(mask)
      BY <2>1 DEF Take, WaitSpec!Take, MailboxInv
    <3>2. QED
      BY <3>1 DEF WaitSpec!Next
  <2>2. ASSUME NEW t \in Thread, NEW mask \in SUBSET Flags, Raise(t, mask)
        PROVE  [WaitSpec!Next]_(WaitSpec!waitVars)
    <3>1. WaitSpec!Raise(mask)
      BY <2>2 DEF Raise, WaitSpec!Raise
    <3>2. QED
      BY <3>1 DEF WaitSpec!Next
  <2>3. ASSUME NEW set \in AnySets, Wait("any", set)
        PROVE  [WaitSpec!Next]_(WaitSpec!waitVars)
    <3> DEFINE r == [kind |-> "any", set |-> set]
    <3>1. r \in WaitSpec!Request
      BY DEF WaitSpec!Request
    <3>2. WaitSpec!Wait(r)
      BY <2>3 DEF Wait, WaitSpec!Wait, MailboxInv
    <3>3. QED
      BY <3>1, <3>2 DEF WaitSpec!Next
  <2>4. ASSUME NEW set \in AllSets, Wait("all", set)
        PROVE  [WaitSpec!Next]_(WaitSpec!waitVars)
    <3> DEFINE r == [kind |-> "all", set |-> set]
    <3>1. r \in WaitSpec!Request
      BY DEF WaitSpec!Request
    <3>2. WaitSpec!Wait(r)
      BY <2>4 DEF Wait, WaitSpec!Wait, MailboxInv
    <3>3. QED
      BY <3>1, <3>2 DEF WaitSpec!Next
  <2>5. ASSUME NEW t \in Thread, Exec(t)
        PROVE  [WaitSpec!Next]_(WaitSpec!waitVars)
    BY <2>5 DEF Exec
  <2>6. CASE Callback
    <3>1. owner = "waiting" /\ Asked /\ Decided
      BY <2>6 DEF Callback, MailboxInv, TypeOK, Armed
    <3>2. req /= NoReq
      BY <3>1 DEF Asked, MailboxAssumption
    <3>3. WaitSpec!Satisfied(req, state)
      BY <3>1 DEF Asked, Decided, Condition, WaitSpec!Satisfied
    <3>4. WaitSpec!Complete
      BY <2>6, <3>2, <3>3 DEF Callback, WaitSpec!Complete
    <3>5. QED
      BY <3>4 DEF WaitSpec!Next
  <2>7. CASE UNCHANGED vars
    BY <2>7 DEF vars
  <2>8. QED
    BY <2>1, <2>2, <2>3, <2>4, <2>5, <2>6, <2>7 DEF Next
<1>3. Spec => []MailboxInv
  BY MailboxAlways
<1>4. QED
  BY <1>1, <1>2, <1>3, PTL DEF Spec, WaitSpec!SafeSpec
=============================================================================
