-------------------------- MODULE ComponentProofs ---------------------------
(***************************************************************************)
(* Proofs about the components of Components, for every value of their     *)
(* constants: any items, buffers of any size, tables, texts and vectors of *)
(* any length, any number of raising threads and requests.                 *)
(*                                                                         *)
(* For each data structure there is an invariant, XInv, that ties the      *)
(* links, slots or memory of the code to what the structure should hold, a *)
(* lemma for each operation, XInitInv and XStepInv, which put them         *)
(* together, and a lemma that the invariant implies the properties.  The   *)
(* theorems at the end state them for the behaviours of Components.        *)
(*                                                                         *)
(* Loops of the code are recursive functions, of the number of rounds.     *)
(* That such a function exists, and that what one round keeps is kept by   *)
(* all of them, is proved once, from the fact that a set of numbers has a  *)
(* least one: LeastNumber, Induction, Iteration, StagedLoop, Loop,         *)
(* LoopInvariant and Rounds.                                               *)
(***************************************************************************)
EXTENDS Components, SequenceTheorems, FiniteSetTheorems, TLAPS

-----------------------------------------------------------------------------
(* Induction, sequences, and the lists of list.c and slist.c *)

\* Every set of numbers that is not empty has a least one: what induction is
\* made of here.
LEMMA LeastNumber ==
  ASSUME NEW A, A \subseteq Nat, A # {}
  PROVE  \E m \in A : \A k \in A : m <= k
<1> DEFINE R == OpToRel(<, Nat)
<1>1. PICK m \in A : \A k \in A : ~ (<<k, m>> \in R)
  BY NatLessThanWellFounded, WFMin
<1>2. \A k, n \in Nat : <<k, n>> \in R <=> k < n
  BY DEF OpToRel
<1> HIDE DEF R
<1>3. \A k \in A : k \in Nat /\ m \in Nat /\ ~(k < m)
  BY <1>1, <1>2
<1> QED
  BY <1>3

\* Induction, without an operator as a parameter: a set of numbers that holds 0
\* and the successor of each of its members is all of Nat.
LEMMA Induction ==
  ASSUME NEW A, A \subseteq Nat, 0 \in A, \A n \in A : n + 1 \in A
  PROVE  A = Nat
<1> SUFFICES ASSUME Nat \ A # {} PROVE FALSE
  OBVIOUS
<1>1. PICK m \in Nat \ A : \A k \in Nat \ A : m <= k
  BY LeastNumber
<1>2. m - 1 \in Nat /\ ~(m <= m - 1)
  BY <1>1
<1>3. m - 1 \in A
  BY <1>1, <1>2
<1> QED
  BY <1>1, <1>3

\* No element of q comes twice.
Different(q) == \A i, j \in 1..Len(q) : q[i] = q[j] => i = j

\* The sequence r is q with e inserted at index i.
IsInserted(r, q, e, i) ==
  /\ Len(r) = Len(q) + 1
  /\ \A j \in 1..Len(r) : r[j] = IF j < i THEN q[j] ELSE IF j = i THEN e ELSE q[j - 1]

\* The sequence r is q without what it has at index i.
IsRemoved(r, q, i) ==
  /\ Len(r) = Len(q) - 1
  /\ \A j \in 1..Len(r) : r[j] = IF j < i THEN q[j] ELSE q[j + 1]

\* What an insertion at index i makes of a sequence.
LEMMA Inserted ==
  ASSUME NEW X, NEW q \in Seq(X), NEW e \in X, NEW i \in 1..(Len(q) + 1)
  PROVE  LET r == SubSeq(q, 1, i - 1) \o <<e>> \o SubSeq(q, i, Len(q))
         IN  r \in Seq(X) /\ IsInserted(r, q, e, i)
<1> DEFINE a == SubSeq(q, 1, i - 1)
           b == SubSeq(q, i, Len(q))
           r == SubSeq(q, 1, i - 1) \o <<e>> \o SubSeq(q, i, Len(q))
<1>1. \A j \in 1..Len(q) : q[j] \in X
  OBVIOUS
<1>2. a \in Seq(X) /\ Len(a) = i - 1 /\ \A j \in 1..(i - 1) : a[j] = q[j]
  BY <1>1
<1>3. b \in Seq(X) /\ Len(b) = Len(q) - i + 1 /\ \A j \in 1..Len(b) : b[j] = q[i + j - 1]
  BY <1>1
<1> HIDE DEF a, b
<1>4. <<e>> \in Seq(X) /\ Len(<<e>>) = 1 /\ <<e>>[1] = e
  OBVIOUS
<1>5. a \o <<e>> \in Seq(X) /\ Len(a \o <<e>>) = i
      /\ \A j \in 1..i : (a \o <<e>>)[j] = IF j < i THEN q[j] ELSE e
  BY <1>2, <1>4
<1>6. r = (a \o <<e>>) \o b
  BY DEF a, b
<1> DEFINE c == a \o <<e>>
<1>7. /\ c \in Seq(X) /\ Len(c) = i
      /\ \A j \in 1..i : c[j] = IF j < i THEN q[j] ELSE e
  BY <1>5
<1> HIDE DEF c
<1>8. /\ c \o b \in Seq(X) /\ Len(c \o b) = Len(c) + Len(b)
      /\ \A j \in 1..(Len(c) + Len(b)) : (c \o b)[j] = IF j <= Len(c) THEN c[j] ELSE b[j - Len(c)]
  BY <1>3, <1>7, ConcatProperties
<1>9. r = c \o b
  BY <1>6 DEF c
<1> HIDE DEF r
<1>10. r \in Seq(X) /\ Len(r) = Len(q) + 1 /\ Len(q) \in Nat
  BY <1>3, <1>7, <1>8, <1>9
<1>11. ASSUME NEW j \in 1..Len(r)
       PROVE  r[j] = IF j < i THEN q[j] ELSE IF j = i THEN e ELSE q[j - 1]
  <2>1. CASE j <= i
    BY <2>1, <1>3, <1>7, <1>8, <1>9, <1>10
  <2>2. CASE j > i
    <3>1. j - i \in 1..Len(b) /\ j \in 1..(Len(c) + Len(b)) /\ ~(j <= Len(c)) /\ Len(c) = i
      BY <2>2, <1>3, <1>7, <1>10
    <3>2. r[j] = b[j - i]
      BY <3>1, <1>8, <1>9
    <3>3. b[j - i] = q[i + (j - i) - 1] /\ i + (j - i) - 1 = j - 1
      BY <3>1, <1>3
    <3> QED
      BY <2>2, <3>2, <3>3
  <2> QED
    BY <2>1, <2>2
<1> QED
  BY <1>10, <1>11 DEF r, IsInserted

\* What a removal at index i makes of a sequence.
LEMMA Removed ==
  ASSUME NEW X, NEW q \in Seq(X), NEW i \in 1..Len(q)
  PROVE  LET r == SubSeq(q, 1, i - 1) \o SubSeq(q, i + 1, Len(q))
         IN  r \in Seq(X) /\ IsRemoved(r, q, i)
<1> DEFINE a == SubSeq(q, 1, i - 1)
           b == SubSeq(q, i + 1, Len(q))
           r == SubSeq(q, 1, i - 1) \o SubSeq(q, i + 1, Len(q))
<1>1. \A j \in 1..Len(q) : q[j] \in X
  OBVIOUS
<1>2. a \in Seq(X) /\ Len(a) = i - 1 /\ \A j \in 1..(i - 1) : a[j] = q[j]
  BY <1>1
<1>3. b \in Seq(X) /\ Len(b) = Len(q) - i /\ \A j \in 1..Len(b) : b[j] = q[i + j]
  BY <1>1
<1> HIDE DEF a, b
<1>4. r = a \o b
  BY DEF a, b
<1> HIDE DEF r
<1>5. /\ a \o b \in Seq(X) /\ Len(a \o b) = Len(a) + Len(b)
      /\ \A j \in 1..(Len(a) + Len(b)) : (a \o b)[j] = IF j <= Len(a) THEN a[j] ELSE b[j - Len(a)]
  BY <1>2, <1>3, ConcatProperties
<1>6. r \in Seq(X) /\ Len(r) = Len(q) - 1 /\ Len(q) \in Nat
  BY <1>2, <1>3, <1>4, <1>5
<1>7. ASSUME NEW j \in 1..Len(r)
      PROVE  r[j] = IF j < i THEN q[j] ELSE q[j + 1]
  <2>1. CASE j < i
    BY <2>1, <1>2, <1>3, <1>4, <1>5, <1>6
  <2>2. CASE j >= i
    <3>1. j - (i - 1) \in 1..Len(b) /\ r[j] = b[j - (i - 1)]
      BY <2>2, <1>2, <1>3, <1>4, <1>5, <1>6
    <3>2. b[j - (i - 1)] = q[i + (j - (i - 1))] /\ i + (j - (i - 1)) = j + 1
      BY <3>1, <1>3
    <3> QED
      BY <2>2, <3>1, <3>2
  <2> QED
    BY <2>1, <2>2
<1> QED
  BY <1>6, <1>7 DEF r, IsRemoved

\* An slist is well formed and as SlistMatches says.
SlistInv ==
  /\ sitems \in Seq(Items)
  /\ Different(sitems)
  /\ snext \in [Items -> Items \cup {L!NULL}]
  /\ L!SlistMatches

\* slist_push() keeps the invariant of slist.c.
LEMMA SlistPushStep ==
  ASSUME SlistInv, ListsAssumption, NEW n \in Items, L!SlistPush(n)
  PROVE  SlistInv'
<1> USE DEF SlistInv, L!SlistPush, Different, L!SlistMatches, L!InSlist, L!NULL, ListsAssumption
<1>1. /\ sitems' \in Seq(Items) /\ Len(sitems') = Len(sitems) + 1 /\ sitems'[1] = n
      /\ \A i \in 1..Len(sitems) : sitems'[i + 1] = sitems[i]
  BY ConcatProperties
<1>2. \A i \in 1..Len(sitems) : sitems[i] \in Items /\ sitems[i] # n
  OBVIOUS
<1>3. \A i \in 1..Len(sitems') : IF i = 1 THEN sitems'[i] = n ELSE i - 1 \in 1..Len(sitems) /\ sitems'[i] = sitems[i - 1]
  BY <1>1
<1>4. Different(sitems')
  BY <1>1, <1>2, <1>3
<1>5. snext' \in [Items -> Items \cup {L!NULL}]
  <2>1. slist.start \in Items \cup {L!NULL}
    OBVIOUS
  <2> QED BY <2>1
<1>6. L!SlistMatches'
  <2>1. sitems' # <<>> /\ DOMAIN sitems' = 1..Len(sitems')
    BY <1>1
  <2>2. slist' = [start |-> sitems'[1], end |-> sitems'[Len(sitems')]]
    <3>1. CASE sitems = <<>>
      BY <3>1, <1>1
    <3>2. CASE sitems # <<>>
      <4>1. Len(sitems) \in 1..Len(sitems) /\ sitems'[Len(sitems')] = sitems[Len(sitems)]
        BY <3>2, <1>1
      <4>2. slist.end # "NULL"
        BY <4>1, <3>2
      <4> QED BY <1>1, <4>1, <4>2, <3>2
    <3> QED BY <3>1, <3>2
  <2>3. ASSUME NEW i \in 1..Len(sitems')
        PROVE snext'[sitems'[i]] = IF i < Len(sitems') THEN sitems'[i + 1] ELSE "NULL"
    <3>1. CASE i = 1
      BY <3>1, <1>1
    <3>2. CASE i # 1
      <4>1. i - 1 \in 1..Len(sitems) /\ sitems'[i] = sitems[i - 1]
        BY <3>2, <1>3
      <4>2. snext'[sitems'[i]] = snext[sitems[i - 1]]
        BY <1>2, <4>1
      <4>3. snext[sitems[i - 1]] = IF i - 1 < Len(sitems) THEN sitems[i] ELSE "NULL"
        BY <4>1
      <4>4. i < Len(sitems') => sitems'[i + 1] = sitems[i]
        BY <1>1, <4>1
      <4> QED BY <1>1, <4>2, <4>3, <4>4
    <3> QED BY <3>1, <3>2
  <2> QED BY <2>1, <2>2, <2>3
<1> QED BY <1>1, <1>4, <1>5, <1>6

\* slist_pop() keeps the invariant, and corrects the end with the last item.
LEMMA SlistPopStep ==
  ASSUME SlistInv, ListsAssumption, L!SlistPop
  PROVE  SlistInv'
<1> USE DEF SlistInv, L!SlistPop, L!EndAfterPop, Different, L!SlistMatches, L!NULL, ListsAssumption
<1>0. sitems # <<>>
  OBVIOUS
<1>1. /\ sitems' \in Seq(Items) /\ Len(sitems') = Len(sitems) - 1 /\ Len(sitems) \in Nat
      /\ \A i \in 1..Len(sitems') : sitems'[i] = sitems[i + 1]
  BY <1>0, HeadTailProperties
<1>2. \A i \in 1..Len(sitems) : sitems[i] \in Items
  OBVIOUS
<1>3. Different(sitems')
  BY <1>1
<1>4. snext[sitems[1]] = IF Len(sitems) > 1 THEN sitems[2] ELSE "NULL"
  BY <1>0
<1>5. L!SlistMatches'
  <2>1. CASE Len(sitems) = 1
    <3>1. sitems' = <<>>
      BY <2>1, <1>1
    <3> QED BY <1>0, <1>4, <3>1, <2>1
  <2>2. CASE Len(sitems) > 1
    <3>1. sitems' # <<>> /\ DOMAIN sitems' = 1..Len(sitems')
      BY <2>2, <1>1
    <3>2. sitems'[1] = sitems[2] /\ sitems'[Len(sitems')] = sitems[Len(sitems)] /\ sitems[2] \in Items
      BY <2>2, <1>1, <1>2
    <3>3. \A i \in 1..Len(sitems') : snext[sitems[i + 1]] = IF i + 1 < Len(sitems) THEN sitems[i + 1 + 1] ELSE "NULL"
      BY <2>2, <1>0, <1>1
    <3>4. \A i \in 1..Len(sitems') : snext'[sitems'[i]] = IF i < Len(sitems') THEN sitems'[i + 1] ELSE "NULL"
      BY <1>1, <3>3
    <3>5. slist' = [start |-> sitems'[1], end |-> sitems'[Len(sitems')]]
      BY <1>0, <1>4, <2>2, <3>2
    <3> QED BY <3>1, <3>4, <3>5
  <2> QED BY SMTT(30), <1>0, <1>1, <2>1, <2>2
<1> QED BY <1>1, <1>3, <1>5

\* slist_append() keeps the invariant.
LEMMA SlistAppendStep ==
  ASSUME SlistInv, ListsAssumption, NEW n \in Items, L!SlistAppend(n)
  PROVE  SlistInv'
<1> USE DEF SlistInv, L!SlistAppend, Different, L!SlistMatches, L!InSlist, L!NULL, ListsAssumption
<1>1. /\ sitems' \in Seq(Items) /\ Len(sitems') = Len(sitems) + 1 /\ sitems'[Len(sitems) + 1] = n
      /\ \A i \in 1..Len(sitems) : sitems'[i] = sitems[i]
      /\ Len(sitems) \in Nat
  BY AppendProperties
<1>2. \A i \in 1..Len(sitems) : sitems[i] \in Items /\ sitems[i] # n
  OBVIOUS
<1>4. Different(sitems')
  BY <1>1, <1>2
<1>5. snext' \in [Items -> Items \cup {L!NULL}]
  OBVIOUS
<1>6. L!SlistMatches'
  <2>1. sitems' # <<>> /\ DOMAIN sitems' = 1..Len(sitems')
    BY <1>1
  <2>2. CASE sitems = <<>>
    <3>1. Len(sitems) = 0
      BY <2>2
    <3> QED BY <1>1, <2>1, <2>2, <3>1
  <2>3. CASE sitems # <<>>
    <3>1. Len(sitems) \in 1..Len(sitems) /\ slist.end = sitems[Len(sitems)] /\ slist.start = sitems[1]
      BY <1>1, <2>3
    <3>2. slist.end \in Items /\ slist.end # n /\ slist.end # "NULL"
      BY <1>2, <3>1
    <3>3. slist' = [start |-> sitems'[1], end |-> sitems'[Len(sitems')]]
      BY <1>1, <3>1, <3>2
    <3>4. ASSUME NEW i \in 1..Len(sitems')
          PROVE  snext'[sitems'[i]] = IF i < Len(sitems') THEN sitems'[i + 1] ELSE "NULL"
      <4>1. CASE i = Len(sitems')
        BY <1>1, <4>1
      <4>2. CASE i = Len(sitems)
        BY <1>1, <4>2, <3>1, <3>2
      <4>3. CASE i < Len(sitems)
        <5>1. sitems'[i] = sitems[i] /\ sitems[i] # slist.end /\ sitems[i] # n /\ sitems[i] \in Items
          BY <1>1, <1>2, <3>1, <4>3
        <5>2. snext[sitems[i]] = sitems[i + 1] /\ sitems'[i + 1] = sitems[i + 1]
          BY <1>1, <2>3, <4>3
        <5> QED BY <1>1, <4>3, <5>1, <5>2
      <4> QED BY <1>1, <4>1, <4>2, <4>3
    <3> QED BY <2>1, <3>3, <3>4
  <2> QED BY <2>2, <2>3
<1> QED BY <1>1, <1>4, <1>5, <1>6

(* Doubly linked lists *)

\* The node at place i of the ring of h and q; places 0 and Len(q) + 1 are h.
Node(h, q, i) == IF i \in 1..Len(q) THEN q[i] ELSE h

\* The links nx and pv of the ring with head h are those of the sequence q.
Linked(nx, pv, h, q) ==
  \A i \in 0..Len(q) :
    nx[Node(h, q, i)] = Node(h, q, i + 1) /\ pv[Node(h, q, i + 1)] = Node(h, q, i)

\* What a list is made of.
Nodes == L!Heads \cup Items

\* The ring of ListsMatch is the same.
LEMMA RingLinked ==
  ASSUME NEW h \in L!Heads, NEW q \in Seq(Items), NEW nx, NEW pv
  PROVE  Linked(nx, pv, h, q) <=>
           LET r == L!Ring(h, q)
           IN  \A i \in 1..(Len(r) - 1) : nx[r[i]] = r[i + 1] /\ pv[r[i + 1]] = r[i]
<1> DEFINE r == L!Ring(h, q)
<1>0. h \in Nodes /\ q \in Seq(Nodes) /\ <<h>> \in Seq(Nodes) /\ Len(q) \in Nat
  BY SeqMonotonic DEF Nodes
<1> DEFINE a == <<h>> \o q
<1>1. a \in Seq(Nodes) /\ Len(a) = Len(q) + 1
      /\ \A i \in 1..(Len(q) + 1) : a[i] = IF i <= 1 THEN h ELSE q[i - 1]
  BY <1>0, ConcatProperties
<1> HIDE DEF a
<1>2. a \o <<h>> \in Seq(Nodes) /\ Len(a \o <<h>>) = Len(q) + 2
      /\ \A i \in 1..(Len(q) + 2) : (a \o <<h>>)[i] = IF i <= Len(q) + 1 THEN a[i] ELSE h
  BY <1>0, <1>1, ConcatProperties
<1>3. r = a \o <<h>>
  BY DEF L!Ring, a
<1> HIDE DEF r
<1>4. Len(r) = Len(q) + 2
  BY <1>2, <1>3
<1>5. \A i \in 0..(Len(q) + 1) : r[i + 1] = Node(h, q, i)
  BY <1>0, <1>1, <1>2, <1>3 DEF Node
<1>6. ASSUME Linked(nx, pv, h, q), NEW i \in 1..(Len(r) - 1)
      PROVE  nx[r[i]] = r[i + 1] /\ pv[r[i + 1]] = r[i]
  <2>1. i - 1 \in 0..Len(q) /\ i - 1 + 1 = i /\ i \in 0..(Len(q) + 1) /\ i - 1 \in 0..(Len(q) + 1)
    BY <1>0, <1>4
  <2>2. r[i] = Node(h, q, i - 1) /\ r[i + 1] = Node(h, q, i)
    BY <1>5, <2>1
  <2> QED BY <1>6, <2>1, <2>2 DEF Linked
<1>7. ASSUME \A i \in 1..(Len(r) - 1) : nx[r[i]] = r[i + 1] /\ pv[r[i + 1]] = r[i]
      PROVE  Linked(nx, pv, h, q)
  <2> SUFFICES ASSUME NEW i \in 0..Len(q)
               PROVE  nx[Node(h, q, i)] = Node(h, q, i + 1) /\ pv[Node(h, q, i + 1)] = Node(h, q, i)
    BY DEF Linked
  <2>1. i + 1 \in 1..(Len(r) - 1) /\ i \in 0..(Len(q) + 1) /\ i + 1 \in 0..(Len(q) + 1)
    BY <1>0, <1>4
  <2>2. r[i + 1] = Node(h, q, i) /\ r[i + 1 + 1] = Node(h, q, i + 1)
    BY <1>5, <2>1
  <2> QED BY <1>7, <2>1, <2>2
<1> QED BY <1>6, <1>7 DEF r

\* Nodes at different places are different.
LEMMA NodesApart ==
  ASSUME ListsAssumption, NEW h \in L!Heads, NEW q \in Seq(Items), Different(q),
         NEW i \in 0..(Len(q) + 1), NEW j \in 0..(Len(q) + 1), Node(h, q, i) = Node(h, q, j), i # j
  PROVE  (i = 0 /\ j = Len(q) + 1) \/ (j = 0 /\ i = Len(q) + 1)
<1>1. \A k \in 1..Len(q) : q[k] \in Items /\ q[k] # h
  BY DEF ListsAssumption, L!Heads
<1> QED BY <1>1 DEF Node, Different

\* The nodes of a ring are its head and its items.
LEMMA NodeTyped ==
  ASSUME ListsAssumption, NEW h \in L!Heads, NEW q \in Seq(Items), NEW i
  PROVE  /\ Node(h, q, i) \in Nodes /\ Node(h, q, i) # L!NULL
         /\ Node(h, q, i) \in L!Heads => Node(h, q, i) = h
         /\ Node(h, q, i) \in Items => \E j \in 1..Len(q) : Node(h, q, i) = q[j]
  BY DEF Node, Nodes, ListsAssumption, L!Heads, L!NULL

\* Links that are not touched stay.
LEMMA LinksKept ==
  ASSUME NEW h \in L!Heads, NEW q \in Seq(Items), NEW nx, NEW pv, NEW nx2, NEW pv2,
         Linked(nx, pv, h, q),
         \A i \in 0..(Len(q) + 1) : nx2[Node(h, q, i)] = nx[Node(h, q, i)] /\ pv2[Node(h, q, i)] = pv[Node(h, q, i)]
  PROVE  Linked(nx2, pv2, h, q)
<1> SUFFICES ASSUME NEW i \in 0..Len(q)
             PROVE  nx2[Node(h, q, i)] = Node(h, q, i + 1) /\ pv2[Node(h, q, i + 1)] = Node(h, q, i)
  BY DEF Linked
<1>1. i \in 0..(Len(q) + 1) /\ i + 1 \in 0..(Len(q) + 1)
  OBVIOUS
<1> QED BY <1>1 DEF Linked

\* list_insert()
LEMMA LinkInserted ==
  ASSUME ListsAssumption, NEW h \in L!Heads, NEW q \in Seq(Items), Different(q),
         NEW nx \in [Nodes -> Nodes \cup {L!NULL}], NEW pv \in [Nodes -> Nodes \cup {L!NULL}],
         Linked(nx, pv, h, q),
         NEW e \in Items, \A k \in 1..Len(q) : q[k] # e, NEW i \in 1..(Len(q) + 1),
         NEW q2 \in Seq(Items), IsInserted(q2, q, e, i)
  PROVE  LET after == Node(h, q, i)
         IN  Linked([nx EXCEPT ![e] = after, ![pv[after]] = e],
                    [pv EXCEPT ![e] = pv[after], ![after] = e], h, q2)
<1> DEFINE after == Node(h, q, i)
           before == Node(h, q, i - 1)
           nx2 == [nx EXCEPT ![e] = after, ![pv[after]] = e]
           pv2 == [pv EXCEPT ![e] = pv[after], ![after] = e]
<1> USE DEF IsInserted
<1>0. Len(q) \in Nat /\ i - 1 \in 0..Len(q) /\ i - 1 + 1 = i
  OBVIOUS
<1>1. pv[after] = before /\ nx[before] = after
  BY <1>0 DEF Linked
<1>2. e \in Nodes /\ \A k : Node(h, q, k) \in Nodes /\ Node(h, q, k) # e
  BY NodeTyped DEF Nodes, Node, ListsAssumption, L!Heads
<1>3. \A x \in Nodes : nx2[x] = IF x = before THEN e ELSE IF x = e THEN after ELSE nx[x]
  BY <1>1, <1>2
<1>4. \A x \in Nodes : pv2[x] = IF x = after THEN e ELSE IF x = e THEN before ELSE pv[x]
  BY <1>1, <1>2
<1>5. \A j \in 0..(Len(q2) + 1) :
        Node(h, q2, j) = IF j < i THEN Node(h, q, j) ELSE IF j = i THEN e ELSE Node(h, q, j - 1)
  BY <1>0 DEF Node
<1> HIDE DEF nx2, pv2, after, before
<1>6. ASSUME NEW j \in 0..Len(q2)
      PROVE  nx2[Node(h, q2, j)] = Node(h, q2, j + 1) /\ pv2[Node(h, q2, j + 1)] = Node(h, q2, j)
  <2>0. j \in 0..(Len(q2) + 1) /\ j + 1 \in 0..(Len(q2) + 1)
    BY <1>0
  <2>1. CASE j < i - 1
    <3>1. Node(h, q2, j) = Node(h, q, j) /\ Node(h, q2, j + 1) = Node(h, q, j + 1)
      BY <2>0, <2>1, <1>5, <1>0
    <3>2. Node(h, q, j) # before /\ Node(h, q, j + 1) # after
      BY <2>0, <2>1, <1>0, NodesApart DEF before, after
    <3>3. nx[Node(h, q, j)] = Node(h, q, j + 1) /\ pv[Node(h, q, j + 1)] = Node(h, q, j)
      BY <2>0, <2>1, <1>0 DEF Linked
    <3> QED BY <3>1, <3>2, <3>3, <1>2, <1>3, <1>4
  <2>2. CASE j = i - 1
    <3>1. Node(h, q2, j) = before /\ Node(h, q2, j + 1) = e
      BY <2>0, <2>2, <1>5, <1>0 DEF before
    <3> QED BY <3>1, <1>2, <1>3, <1>4 DEF before, after
  <2>3. CASE j = i
    <3>1. Node(h, q2, j) = e /\ Node(h, q2, j + 1) = after
      BY <2>0, <2>3, <1>5, <1>0 DEF after
    <3> QED BY <3>1, <1>2, <1>3, <1>4 DEF before, after
  <2>4. CASE j > i
    <3>1. Node(h, q2, j) = Node(h, q, j - 1) /\ Node(h, q2, j + 1) = Node(h, q, j) /\ j - 1 \in 0..Len(q) /\ j - 1 + 1 = j
      BY <2>0, <2>4, <1>5, <1>0
    <3>2. Node(h, q, j - 1) # before /\ Node(h, q, j) # after
      BY <3>1, <2>0, <2>4, <1>0, NodesApart DEF before, after
    <3>3. nx[Node(h, q, j - 1)] = Node(h, q, j) /\ pv[Node(h, q, j)] = Node(h, q, j - 1)
      BY <3>1 DEF Linked
    <3> QED BY <3>1, <3>2, <3>3, <1>2, <1>3, <1>4
  <2> QED BY <1>0, <2>1, <2>2, <2>3, <2>4
<1> QED BY <1>6 DEF Linked, nx2, pv2, after

\* list_remove()
LEMMA LinkRemoved ==
  ASSUME ListsAssumption, NEW h \in L!Heads, NEW q \in Seq(Items), Different(q),
         NEW nx \in [Nodes -> Nodes \cup {L!NULL}], NEW pv \in [Nodes -> Nodes \cup {L!NULL}],
         Linked(nx, pv, h, q), NEW i \in 1..Len(q),
         NEW q2 \in Seq(Items), IsRemoved(q2, q, i)
  PROVE  /\ Linked(L!Unlinked(nx, pv, q[i]), L!Unlinked(pv, nx, q[i]), h, q2)
         /\ \A x \in Nodes : x # q[i] /\ x # Node(h, q, i - 1) => L!Unlinked(nx, pv, q[i])[x] = nx[x]
         /\ \A x \in Nodes : x # q[i] /\ x # Node(h, q, i + 1) => L!Unlinked(pv, nx, q[i])[x] = pv[x]
         /\ L!Unlinked(nx, pv, q[i])[q[i]] = L!NULL
         /\ L!Unlinked(pv, nx, q[i])[q[i]] = L!NULL
         /\ L!Unlinked(nx, pv, q[i]) \in [Nodes -> Nodes \cup {L!NULL}]
         /\ L!Unlinked(pv, nx, q[i]) \in [Nodes -> Nodes \cup {L!NULL}]
<1> DEFINE e == q[i]
           after == Node(h, q, i + 1)
           before == Node(h, q, i - 1)
           nx2 == L!Unlinked(nx, pv, e)
           pv2 == L!Unlinked(pv, nx, e)
<1> USE DEF IsRemoved
<1>0. Len(q) \in Nat /\ i - 1 \in 0..Len(q) /\ i - 1 + 1 = i /\ i \in 0..Len(q) /\ e = Node(h, q, i) /\ e \in Items
  BY DEF Node
<1>1. pv[e] = before /\ nx[e] = after
  <2>1. \A k \in 0..Len(q) : nx[Node(h, q, k)] = Node(h, q, k + 1) /\ pv[Node(h, q, k + 1)] = Node(h, q, k)
    BY DEF Linked
  <2> QED BY <1>0, <2>1
<1>2. e \in Nodes /\ before \in Nodes /\ after \in Nodes /\ \A k : Node(h, q, k) \in Nodes
  BY <1>0, NodeTyped DEF Nodes
<1> HIDE DEF e, after, before
<1>3. \A x \in Nodes : nx2[x] = IF x = e THEN L!NULL ELSE IF x = before THEN after ELSE nx[x]
  BY <1>1, <1>2 DEF L!Unlinked
<1>4. \A x \in Nodes : pv2[x] = IF x = e THEN L!NULL ELSE IF x = after THEN before ELSE pv[x]
  BY <1>1, <1>2 DEF L!Unlinked
<1>5. \A j \in 0..(Len(q2) + 1) :
        Node(h, q2, j) = IF j < i THEN Node(h, q, j) ELSE Node(h, q, j + 1)
  BY <1>0 DEF Node
<1>7. nx2 \in [Nodes -> Nodes \cup {L!NULL}] /\ pv2 \in [Nodes -> Nodes \cup {L!NULL}]
  BY <1>1, <1>2 DEF L!Unlinked
<1> HIDE DEF nx2, pv2
<1>8. \A k \in 0..(Len(q) + 1) : k # i => Node(h, q, k) # e
  BY <1>0, NodesApart
<1>6. ASSUME NEW j \in 0..Len(q2)
      PROVE  nx2[Node(h, q2, j)] = Node(h, q2, j + 1) /\ pv2[Node(h, q2, j + 1)] = Node(h, q2, j)
  <2>0. j \in 0..(Len(q2) + 1) /\ j + 1 \in 0..(Len(q2) + 1) /\ j \in 0..Len(q)
    BY <1>0
  <2>1. CASE j < i - 1
    <3>1. Node(h, q2, j) = Node(h, q, j) /\ Node(h, q2, j + 1) = Node(h, q, j + 1)
      BY <2>0, <2>1, <1>5, <1>0
    <3>2. Node(h, q, j) # before /\ Node(h, q, j + 1) # after /\ Node(h, q, j) # e /\ Node(h, q, j + 1) # e
      BY SMTT(30), <2>0, <2>1, <1>0, NodesApart DEF before, after
    <3>3. nx[Node(h, q, j)] = Node(h, q, j + 1) /\ pv[Node(h, q, j + 1)] = Node(h, q, j)
      BY <2>0, <2>1, <1>0 DEF Linked
    <3> QED BY <3>1, <3>2, <3>3, <1>2, <1>3, <1>4
  <2>2. CASE j = i - 1
    <3>1. Node(h, q2, j) = before /\ Node(h, q2, j + 1) = after
      BY <2>0, <2>2, <1>5, <1>0 DEF before, after
    <3>2. before # e /\ after # e
      <4>1. i - 1 \in 0..(Len(q) + 1) /\ i + 1 \in 0..(Len(q) + 1) /\ i - 1 # i /\ i + 1 # i
        BY <1>0
      <4> QED BY <4>1, <1>8 DEF before, after
    <3> QED BY <3>1, <3>2, <1>2, <1>3, <1>4
  <2>3. CASE j > i - 1
    <3>1. /\ Node(h, q2, j) = Node(h, q, j + 1) /\ Node(h, q2, j + 1) = Node(h, q, j + 1 + 1)
          /\ j + 1 \in 0..Len(q) /\ j + 1 \in 0..(Len(q) + 1) /\ j + 1 + 1 \in 0..(Len(q) + 1)
      BY <2>0, <2>3, <1>5, <1>0
    <3>2. Node(h, q, j + 1) # before /\ Node(h, q, j + 1 + 1) # after /\ Node(h, q, j + 1) # e /\ Node(h, q, j + 1 + 1) # e
      BY SMTT(30), <3>1, <2>0, <2>3, <1>0, NodesApart DEF before, after
    <3>3. nx[Node(h, q, j + 1)] = Node(h, q, j + 1 + 1) /\ pv[Node(h, q, j + 1 + 1)] = Node(h, q, j + 1)
      BY <3>1 DEF Linked
    <3> QED BY <3>1, <3>2, <3>3, <1>2, <1>3, <1>4
  <2> QED BY <1>0, <2>1, <2>2, <2>3
<1>9. Linked(nx2, pv2, h, q2)
  BY <1>6 DEF Linked
<1> QED BY <1>2, <1>3, <1>4, <1>7, <1>9 DEF nx2, pv2, e, after, before

\* list_move() of a list that is not empty
LEMMA LinkMoved ==
  ASSUME ListsAssumption, NEW dst \in L!Heads, NEW src \in L!Heads, dst # src,
         NEW q \in Seq(Items), q # <<>>, Different(q),
         NEW nx \in [Nodes -> Nodes \cup {L!NULL}], NEW pv \in [Nodes -> Nodes \cup {L!NULL}],
         Linked(nx, pv, src, q)
  PROVE  LET nx2 == L!Taken(nx, pv, dst, src)
             pv2 == L!Taken(pv, nx, dst, src)
         IN  /\ Linked(nx2, pv2, dst, q) /\ Linked(nx2, pv2, src, <<>>)
             /\ \A x \in Items : (\A k \in 1..Len(q) : q[k] # x) => nx2[x] = nx[x] /\ pv2[x] = pv[x]
             /\ nx2 \in [Nodes -> Nodes \cup {L!NULL}] /\ pv2 \in [Nodes -> Nodes \cup {L!NULL}]
<1> DEFINE m == Len(q)
           first == q[1]
           last == q[m]
           nx2 == L!Taken(nx, pv, dst, src)
           pv2 == L!Taken(pv, nx, dst, src)
<1>0. m \in Nat /\ m >= 1 /\ 1 \in 1..m /\ m \in 1..m /\ first \in Items /\ last \in Items
  OBVIOUS
<1>1. \A k \in 1..m : q[k] \in Items /\ q[k] # src /\ q[k] # dst /\ q[k] \in Nodes
  BY DEF ListsAssumption, L!Heads, Nodes
<1>2. /\ nx[src] = first /\ pv[src] = last
      /\ \A k \in 1..(m - 1) : nx[q[k]] = q[k + 1] /\ pv[q[k + 1]] = q[k]
  <2>1. \A k \in 0..m : nx[Node(src, q, k)] = Node(src, q, k + 1) /\ pv[Node(src, q, k + 1)] = Node(src, q, k)
    BY DEF Linked
  <2> QED BY <1>0, <2>1 DEF Node
<1>3. src \in Nodes /\ dst \in Nodes /\ first \in Nodes /\ last \in Nodes
  BY <1>0 DEF Nodes
<1>4. first # src /\ first # dst /\ last # src /\ last # dst
  BY <1>0, <1>1
<1> HIDE DEF first, last, m
<1>5. \A x \in Nodes : nx2[x] = IF x = src THEN src ELSE IF x = last THEN dst ELSE IF x = dst THEN first ELSE nx[x]
  BY <1>2, <1>3, <1>4 DEF L!Taken
<1>6. \A x \in Nodes : pv2[x] = IF x = src THEN src ELSE IF x = first THEN dst ELSE IF x = dst THEN last ELSE pv[x]
  BY <1>2, <1>3, <1>4 DEF L!Taken
<1>7. nx2 \in [Nodes -> Nodes \cup {L!NULL}] /\ pv2 \in [Nodes -> Nodes \cup {L!NULL}]
  BY <1>2, <1>3 DEF L!Taken
<1> HIDE DEF nx2, pv2
<1>8. Linked(nx2, pv2, src, <<>>)
  BY <1>3, <1>5, <1>6 DEF Linked, Node
<1>9. Linked(nx2, pv2, dst, q)
  <2> SUFFICES ASSUME NEW k \in 0..m
               PROVE  nx2[Node(dst, q, k)] = Node(dst, q, k + 1) /\ pv2[Node(dst, q, k + 1)] = Node(dst, q, k)
    BY DEF Linked, m
  <2>1. nx2[Node(dst, q, k)] = Node(dst, q, k + 1)
    <3>1. CASE k = 0
      BY <3>1, <1>0, <1>3, <1>4, <1>5 DEF Node, first, m
    <3>2. CASE k = m
      BY <3>2, <1>0, <1>3, <1>4, <1>5 DEF Node, last, m
    <3>3. CASE k \in 1..(m - 1)
      <4>1. k \in 1..m /\ k + 1 \in 1..m /\ k # m
        BY <3>3, <1>0
      <4>2. q[k] # last
        BY <4>1, <1>0 DEF Different, last, m
      <4>3. nx2[q[k]] = nx[q[k]] /\ nx[q[k]] = q[k + 1]
        BY <4>1, <4>2, <1>1, <1>2, <1>5, <3>3
      <4> QED BY <4>1, <4>3 DEF Node, m
    <3> QED BY <1>0, <3>1, <3>2, <3>3
  <2>2. pv2[Node(dst, q, k + 1)] = Node(dst, q, k)
    <3>1. CASE k = 0
      BY <3>1, <1>0, <1>3, <1>4, <1>6 DEF Node, first, m
    <3>2. CASE k = m
      BY <3>2, <1>0, <1>3, <1>4, <1>6 DEF Node, last, m
    <3>3. CASE k \in 1..(m - 1)
      <4>1. k \in 1..m /\ k + 1 \in 1..m /\ k # m /\ k + 1 # 1
        BY <3>3, <1>0
      <4>2. q[k + 1] # first
        BY <4>1, <1>0 DEF Different, first, m
      <4>3. pv2[q[k + 1]] = pv[q[k + 1]] /\ pv[q[k + 1]] = q[k]
        BY <4>1, <4>2, <1>1, <1>2, <1>6, <3>3
      <4> QED BY <4>1, <4>3 DEF Node, m
    <3> QED BY <1>0, <3>1, <3>2, <3>3
  <2> QED BY <2>1, <2>2
<1>10. ASSUME NEW x \in Items, \A k \in 1..Len(q) : q[k] # x
       PROVE  nx2[x] = nx[x] /\ pv2[x] = pv[x]
  <2>1. x \in Nodes /\ x # src /\ x # dst
    BY DEF Nodes, ListsAssumption, L!Heads
  <2>2. x # first /\ x # last
    BY <1>10, <1>0 DEF first, last, m
  <2> QED BY <2>1, <2>2, <1>5, <1>6
<1> QED BY <1>7, <1>8, <1>9, <1>10 DEF nx2, pv2

\* Sequence q has the element x.
Holds(q, x) == \E k \in 1..Len(q) : q[k] = x

Link == [Nodes -> Nodes \cup {L!NULL}]

\* A node in no list.
Outside(n, ls) == \A h \in L!Heads : ~ Holds(ls[h], n)

\* The two rings are linked as their sequences say and share nothing, and
\* the links of the other items are NULL.
RingsInv ==
  /\ lists \in [L!Heads -> Seq(Items)] /\ next \in Link /\ prev \in Link
  /\ \A h \in L!Heads : Different(lists[h]) /\ Linked(next, prev, h, lists[h])
  /\ \A g, h \in L!Heads : g # h =>
       \A x : ~ (Holds(lists[g], x) /\ Holds(lists[h], x))
  /\ \A n \in Items : Outside(n, lists) => next[n] = L!NULL /\ prev[n] = L!NULL

\* An item in no ring is one that is in no list.
LEMMA OutsideInLists ==
  ASSUME NEW n \in Items, lists \in [L!Heads -> Seq(Items)]
  PROVE  Outside(n, lists) <=> n \notin L!InLists
<1>1. \A h \in L!Heads : DOMAIN lists[h] = 1..Len(lists[h])
  OBVIOUS
<1>2. ASSUME n \in L!InLists PROVE ~ Outside(n, lists)
  <2>1. PICK h \in L!Heads : n \in {lists[h][i] : i \in DOMAIN lists[h]}
    BY <1>2 DEF L!InLists
  <2>2. PICK i \in 1..Len(lists[h]) : n = lists[h][i]
    BY <1>1, <2>1
  <2> QED BY <2>2 DEF Outside, Holds
<1>3. ASSUME ~ Outside(n, lists) PROVE n \in L!InLists
  <2>1. PICK h \in L!Heads : \E i \in 1..Len(lists[h]) : lists[h][i] = n
    BY <1>3 DEF Outside, Holds
  <2>2. n \in {lists[h][i] : i \in DOMAIN lists[h]}
    BY <1>1, <2>1
  <2> QED BY <2>2 DEF L!InLists
<1> QED BY <1>2, <1>3

\* The rings are the lists that Lists expects.
LEMMA RingsMatch ==
  ASSUME RingsInv
  PROVE  L!ListsMatch
<1>1. ASSUME NEW h \in L!Heads
      PROVE  LET r == L!Ring(h, lists[h]) IN
               \A i \in 1..(Len(r) - 1) : next[r[i]] = r[i + 1] /\ prev[r[i + 1]] = r[i]
  <2>1. lists[h] \in Seq(Items) /\ Linked(next, prev, h, lists[h])
    BY DEF RingsInv
  <2> QED BY <2>1, RingLinked
<1>2. \A n \in Items \ L!InLists : next[n] = L!NULL /\ prev[n] = L!NULL
  BY OutsideInLists DEF RingsInv
<1> QED BY <1>1, <1>2 DEF L!ListsMatch

\* Links of the other list are those of nodes that are not touched.
LEMMA OtherRing ==
  ASSUME RingsInv, NEW g \in L!Heads, NEW nx, NEW pv,
         \A x \in Nodes : x = g \/ Holds(lists[g], x) => nx[x] = next[x] /\ pv[x] = prev[x]
  PROVE  Linked(nx, pv, g, lists[g])
<1>1. lists[g] \in Seq(Items) /\ Linked(next, prev, g, lists[g])
  BY DEF RingsInv
<1>2. ASSUME NEW i \in 0..(Len(lists[g]) + 1)
      PROVE  nx[Node(g, lists[g], i)] = next[Node(g, lists[g], i)] /\ pv[Node(g, lists[g], i)] = prev[Node(g, lists[g], i)]
  BY <1>1 DEF Node, Nodes, Holds
<1> QED BY <1>1, <1>2, LinksKept

\* The elements of a sequence after an insertion.
LEMMA InsertedElements ==
  ASSUME NEW X, NEW q \in Seq(X), Different(q), NEW e \in X, ~ Holds(q, e),
         NEW i \in 1..(Len(q) + 1), NEW r \in Seq(X), IsInserted(r, q, e, i)
  PROVE  Different(r) /\ \A x : Holds(r, x) <=> x = e \/ Holds(q, x)
<1> USE DEF IsInserted, Holds
<1>1. Len(q) \in Nat
  OBVIOUS
<1>2. \A j \in 1..Len(r) : (j < i => j \in 1..Len(q)) /\ (j > i => j - 1 \in 1..Len(q))
  BY <1>1
<1>3. \A j \in 1..Len(r) : /\ j < i => r[j] = q[j]
                           /\ j = i => r[j] = e
                           /\ j > i => r[j] = q[j - 1]
  BY <1>1
<1>4. ASSUME NEW j \in 1..Len(r), NEW k \in 1..Len(r), r[j] = r[k], j < k
      PROVE  FALSE
  <2>1. CASE k < i
    BY <2>1, <1>2, <1>3, <1>4 DEF Different
  <2>2. CASE k = i
    BY <2>2, <1>2, <1>3, <1>4
  <2>3. CASE k > i /\ j = i
    BY <2>3, <1>2, <1>3, <1>4
  <2>4. CASE k > i /\ j > i
    BY SMTT(30), <2>4, <1>2, <1>3, <1>4 DEF Different
  <2>5. CASE k > i /\ j < i
    <3>1. j \in 1..Len(q) /\ k - 1 \in 1..Len(q) /\ q[j] = q[k - 1] /\ j # k - 1
      BY <2>5, <1>2, <1>3, <1>4
    <3> QED BY <3>1 DEF Different
  <2> QED BY <2>1, <2>2, <2>3, <2>4, <2>5
<1>5. Different(r)
  BY <1>4 DEF Different
<1>6. \A j \in 1..Len(q) : /\ j < i => j \in 1..Len(r) /\ r[j] = q[j]
                           /\ j >= i => j + 1 \in 1..Len(r) /\ r[j + 1] = q[j]
  BY <1>1
<1>7. ASSUME NEW k \in 1..Len(r)
      PROVE  r[k] = e \/ \E j \in 1..Len(q) : r[k] = q[j]
  BY <1>2, <1>3
<1>8. ASSUME NEW j \in 1..Len(q)
      PROVE  \E k \in 1..Len(r) : r[k] = q[j]
  <2>1. CASE j < i
    BY <2>1, <1>6
  <2>2. CASE j >= i
    BY <2>2, <1>6
  <2>3. j < i \/ j >= i
    BY <1>1
  <2> QED BY <2>1, <2>2, <2>3
<1>9. i \in 1..Len(r)
  BY <1>1
<1>10. \E k \in 1..Len(r) : r[k] = e
  BY <1>3, <1>9
<1> QED BY ZenonT(60), <1>5, <1>7, <1>8, <1>10

\* The items that remain when one is removed.
LEMMA RemovedElements ==
  ASSUME NEW X, NEW q \in Seq(X), Different(q), NEW i \in 1..Len(q), NEW r \in Seq(X), IsRemoved(r, q, i)
  PROVE  Different(r) /\ \A x : Holds(r, x) <=> x # q[i] /\ Holds(q, x)
<1> USE DEF IsRemoved, Holds
<1>1. Len(q) \in Nat /\ Len(r) = Len(q) - 1
  OBVIOUS
<1>2. \A j \in 1..Len(r) : /\ j < i => r[j] = q[j] /\ j \in 1..Len(q)
                           /\ j >= i => r[j] = q[j + 1] /\ j + 1 \in 1..Len(q)
  BY <1>1
<1>3. Different(r)
  BY <1>1, <1>2 DEF Different
<1>4. ASSUME NEW j \in 1..Len(r)
      PROVE  r[j] # q[i] /\ Holds(q, r[j])
  BY <1>2 DEF Different
<1>5. ASSUME NEW j \in 1..Len(q), j # i
      PROVE  Holds(r, q[j])
  <2>1. CASE j < i
    BY <2>1, <1>1, <1>2
  <2>2. CASE j > i
    <3>1. j - 1 \in 1..Len(r) /\ j - 1 >= i /\ j - 1 + 1 = j
      BY <2>2, <1>1
    <3> QED BY <3>1, <1>2
  <2> QED BY <1>5, <2>1, <2>2
<1> QED BY ZenonT(60), <1>3, <1>4, <1>5

\* A step that changes one of the lists, by one item, and only links of its nodes.
OneRing(h, item, before, after) ==
  /\ next' \in Link /\ prev' \in Link
  /\ lists' = [g \in L!Heads |-> lists'[g]]
  /\ \A g \in L!Heads \ {h} : lists'[g] = lists[g] /\ ~ Holds(lists[g], item)
  /\ lists'[h] \in Seq(Items) /\ Different(lists'[h]) /\ Linked(next', prev', h, lists'[h])
  /\ \A x : x # item => (Holds(lists'[h], x) <=> Holds(lists[h], x))
  /\ before = h \/ Holds(lists[h], before)
  /\ after = h \/ Holds(lists[h], after)
  /\ \A x \in Nodes : /\ x # item /\ x # before => next'[x] = next[x]
                      /\ x # item /\ x # after => prev'[x] = prev[x]
  /\ Holds(lists'[h], item) \/ (next'[item] = L!NULL /\ prev'[item] = L!NULL)

\* A step that changes one ring keeps all of them.
LEMMA OneRingStep ==
  ASSUME RingsInv, ListsAssumption, NEW h \in L!Heads, NEW item \in Items, NEW before, NEW after,
         OneRing(h, item, before, after)
  PROVE  RingsInv'
<1> USE DEF OneRing
<1>1. lists' \in [L!Heads -> Seq(Items)]
  BY DEF RingsInv
<1>2. ASSUME NEW g \in L!Heads, g # h
      PROVE  Linked(next', prev', g, lists'[g]) /\ Different(lists'[g])
  <2>1. lists'[g] = lists[g] /\ ~ Holds(lists[g], item) /\ \A x : ~ (Holds(lists[g], x) /\ Holds(lists[h], x))
    BY <1>2 DEF RingsInv
  <2>2. ~ Holds(lists[g], h) /\ g # item
    BY DEF Holds, RingsInv, ListsAssumption, L!Heads
  <2>3. ASSUME NEW x \in Nodes, x = g \/ Holds(lists[g], x)
        PROVE  next'[x] = next[x] /\ prev'[x] = prev[x]
    <3>1. ~ Holds(lists[h], g)
      BY DEF Holds, RingsInv, ListsAssumption, L!Heads
    <3>2. x # item /\ x # before /\ x # after
      BY <1>2, <2>1, <2>2, <2>3, <3>1
    <3> QED BY <3>2
  <2>4. Linked(next', prev', g, lists[g])
    BY <2>3, OtherRing
  <2> QED BY <2>1, <2>4 DEF RingsInv
<1>3. ASSUME NEW f \in L!Heads, NEW g \in L!Heads, f # g, NEW x, Holds(lists'[f], x), Holds(lists'[g], x)
      PROVE  FALSE
  <2>1. f = h \/ g = h
    BY <1>3 DEF L!Heads
  <2> QED BY <1>3, <2>1 DEF RingsInv
<1>4. ASSUME NEW n \in Items, Outside(n, lists')
      PROVE  next'[n] = L!NULL /\ prev'[n] = L!NULL
  <2>1. CASE n = item
    BY <1>4, <2>1 DEF Outside
  <2>2. CASE n # item
    <3>1. \A g \in L!Heads : ~ Holds(lists[g], n)
      BY <1>4, <2>2 DEF Outside
    <3>2. n \in Nodes /\ n # before /\ n # after
      BY <3>1 DEF Nodes, ListsAssumption, L!Heads
    <3> QED BY <2>2, <3>1, <3>2 DEF RingsInv, Outside
  <2> QED BY <2>1, <2>2
<1> QED BY <1>1, <1>2, <1>3, <1>4 DEF RingsInv

\* list_insert() keeps the rings.
LEMMA ListInsertStep ==
  ASSUME RingsInv, ListsAssumption,
         NEW item \in Items, NEW h \in L!Heads, NEW after, NEW i \in 1..(Len(lists[h]) + 1),
         L!ListInsert(item, after, h, i)
  PROVE  RingsInv'
<1> DEFINE q == lists[h]
           r == lists'[h]
           before == Node(h, q, i - 1)
<1>1. /\ q \in Seq(Items) /\ Different(q) /\ Linked(next, prev, h, q) /\ Len(q) \in Nat
      /\ next \in Link /\ prev \in Link /\ lists \in [L!Heads -> Seq(Items)]
      /\ i \in 1..(Len(q) + 1)
  BY DEF RingsInv
<1>2. /\ after = Node(h, q, i)
      /\ next' = [next EXCEPT ![item] = after, ![prev[after]] = item]
      /\ prev' = [prev EXCEPT ![item] = prev[after], ![after] = item]
      /\ Outside(item, lists)
      /\ lists' = [lists EXCEPT ![h] = SubSeq(q, 1, i - 1) \o <<item>> \o SubSeq(q, i, Len(q))]
  BY SMTT(30), <1>1, OutsideInLists DEF L!ListInsert, Node
<1>3. /\ r = SubSeq(q, 1, i - 1) \o <<item>> \o SubSeq(q, i, Len(q))
      /\ \A g \in L!Heads \ {h} : lists'[g] = lists[g]
      /\ DOMAIN lists' = L!Heads /\ lists' = [g \in L!Heads |-> lists'[g]]
  BY <1>1, <1>2
<1> HIDE DEF q, r
<1>4. r \in Seq(Items) /\ IsInserted(r, q, item, i)
  BY <1>1, <1>3, Inserted
<1>5. ~ Holds(q, item)
  BY <1>2 DEF Outside, q
<1>6. Different(r) /\ \A x : Holds(r, x) <=> x = item \/ Holds(q, x)
  BY <1>1, <1>4, <1>5, InsertedElements
<1>7. Linked(next', prev', h, r)
  <2>1. \A k \in 1..Len(q) : q[k] # item
    BY <1>5 DEF Holds
  <2> QED BY <1>1, <1>2, <1>4, <2>1, LinkInserted DEF Link
<1>8. before \in Nodes /\ after \in Nodes /\ item \in Nodes /\ prev[after] = before
  <2>1. i - 1 \in 0..Len(q) /\ i - 1 + 1 = i
    BY <1>1
  <2>2. prev[Node(h, q, i - 1 + 1)] = Node(h, q, i - 1)
    BY <2>1, <1>1 DEF Linked
  <2> QED BY <1>1, <1>2, <2>1, <2>2, NodeTyped DEF Nodes
<1>9. \A x \in Nodes : /\ x # item /\ x # before => next'[x] = next[x]
                       /\ x # item /\ x # after => prev'[x] = prev[x]
  BY <1>1, <1>2, <1>8 DEF Link
<1>10. next' \in Link /\ prev' \in Link
  BY <1>1, <1>2, <1>8 DEF Link
<1>11. \A x \in {before, after} : x = h \/ Holds(q, x)
  BY <1>2 DEF Node, Holds
<1> HIDE DEF before
<1>12. /\ Holds(lists'[h], item)
       /\ \A x : x # item => (Holds(lists'[h], x) <=> Holds(lists[h], x))
  BY <1>6 DEF q, r
<1>13. lists'[h] \in Seq(Items) /\ Different(lists'[h]) /\ Linked(next', prev', h, lists'[h])
  BY <1>4, <1>6, <1>7 DEF r
<1>14. \A g \in L!Heads \ {h} : ~ Holds(lists[g], item)
  BY <1>2 DEF Outside
<1>15. (before = h \/ Holds(lists[h], before)) /\ (after = h \/ Holds(lists[h], after))
  BY <1>11 DEF q
<1>16. lists' = [g \in L!Heads |-> lists'[g]] /\ \A g \in L!Heads \ {h} : lists'[g] = lists[g]
  BY <1>3
<1>20. OneRing(h, item, before, after)
  BY <1>9, <1>10, <1>12, <1>13, <1>14, <1>15, <1>16 DEF OneRing
<1> QED BY <1>20, OneRingStep

\* list_remove() keeps the rings.
LEMMA ListRemoveStep ==
  ASSUME RingsInv, ListsAssumption,
         NEW item \in Items, NEW h \in L!Heads, NEW i \in 1..Len(lists[h]), L!ListRemove(item, h, i)
  PROVE  RingsInv'
<1> DEFINE q == lists[h]
           r == lists'[h]
           before == Node(h, q, i - 1)
           after == Node(h, q, i + 1)
<1>1. /\ q \in Seq(Items) /\ Different(q) /\ Linked(next, prev, h, q) /\ Len(q) \in Nat
      /\ next \in Link /\ prev \in Link /\ lists \in [L!Heads -> Seq(Items)]
      /\ i \in 1..Len(q)
  BY DEF RingsInv
<1>2. /\ item = q[i]
      /\ next' = L!Unlinked(next, prev, item)
      /\ prev' = L!Unlinked(prev, next, item)
      /\ lists' = [lists EXCEPT ![h] = SubSeq(q, 1, i - 1) \o SubSeq(q, i + 1, Len(q))]
  BY <1>1 DEF L!ListRemove
<1>3. /\ r = SubSeq(q, 1, i - 1) \o SubSeq(q, i + 1, Len(q))
      /\ \A g \in L!Heads \ {h} : lists'[g] = lists[g]
      /\ lists' = [g \in L!Heads |-> lists'[g]]
  BY <1>1, <1>2
<1> HIDE DEF q, r
<1>4. r \in Seq(Items) /\ IsRemoved(r, q, i)
  BY <1>1, <1>3, Removed
<1>5. Different(r) /\ \A x : Holds(r, x) <=> x # item /\ Holds(q, x)
  BY <1>1, <1>2, <1>4, RemovedElements
<1>6. /\ Linked(next', prev', h, r)
      /\ \A x \in Nodes : x # item /\ x # before => next'[x] = next[x]
      /\ \A x \in Nodes : x # item /\ x # after => prev'[x] = prev[x]
      /\ next'[item] = L!NULL /\ prev'[item] = L!NULL
      /\ next' \in Link /\ prev' \in Link
  <2>1. /\ Linked(L!Unlinked(next, prev, q[i]), L!Unlinked(prev, next, q[i]), h, r)
        /\ \A x \in Nodes : x # q[i] /\ x # Node(h, q, i - 1) => L!Unlinked(next, prev, q[i])[x] = next[x]
        /\ \A x \in Nodes : x # q[i] /\ x # Node(h, q, i + 1) => L!Unlinked(prev, next, q[i])[x] = prev[x]
        /\ L!Unlinked(next, prev, q[i])[q[i]] = L!NULL
        /\ L!Unlinked(prev, next, q[i])[q[i]] = L!NULL
        /\ L!Unlinked(next, prev, q[i]) \in [Nodes -> Nodes \cup {L!NULL}]
        /\ L!Unlinked(prev, next, q[i]) \in [Nodes -> Nodes \cup {L!NULL}]
    BY <1>1, <1>4, LinkRemoved DEF Link
  <2> QED BY <2>1, <1>2 DEF Link
<1>7. (before = h \/ Holds(lists[h], before)) /\ (after = h \/ Holds(lists[h], after))
  BY DEF Node, Holds, q
<1> HIDE DEF before, after
<1>8. \A x : x # item => (Holds(lists'[h], x) <=> Holds(lists[h], x))
  BY <1>5 DEF q, r
<1>9. lists'[h] \in Seq(Items) /\ Different(lists'[h]) /\ Linked(next', prev', h, lists'[h])
  BY <1>4, <1>5, <1>6 DEF r
<1>10. Holds(lists[h], item)
  BY <1>1, <1>2 DEF Holds, q
<1>11. \A g \in L!Heads \ {h} : ~ Holds(lists[g], item)
  BY <1>10 DEF RingsInv
<1>12. \A x \in Nodes : /\ x # item /\ x # before => next'[x] = next[x]
                        /\ x # item /\ x # after => prev'[x] = prev[x]
  BY <1>6
<1>20. OneRing(h, item, before, after)
  BY <1>3, <1>6, <1>7, <1>8, <1>9, <1>11, <1>12 DEF OneRing
<1> QED BY <1>20, OneRingStep

\* list_move() keeps the rings.
LEMMA ListMoveStep ==
  ASSUME RingsInv, ListsAssumption, NEW dst \in L!Heads, NEW src \in L!Heads, L!ListMove(dst, src)
  PROVE  RingsInv'
<1> DEFINE q == lists[src]
<1>1. /\ q \in Seq(Items) /\ Different(q) /\ Linked(next, prev, src, q) /\ Len(q) \in Nat
      /\ next \in Link /\ prev \in Link /\ lists \in [L!Heads -> Seq(Items)]
  BY DEF RingsInv
<1>2. /\ dst # src /\ lists[dst] = <<>> /\ L!Heads = {dst, src}
      /\ lists' = [lists EXCEPT ![dst] = q, ![src] = <<>>]
  BY DEF L!ListMove, L!Heads
<1>3. lists'[dst] = q /\ lists'[src] = <<>> /\ lists' \in [L!Heads -> Seq(Items)]
  BY <1>1, <1>2
<1>4. \A x : Outside(x, lists) <=> Outside(x, lists')
  BY <1>2, <1>3 DEF Outside, Holds
<1>5. src \in Nodes /\ dst \in Nodes /\ (next[src] = src <=> q = <<>>)
  <2>1. 0 \in 0..Len(q) /\ Node(src, q, 0) = src /\ next[Node(src, q, 0)] = Node(src, q, 0 + 1)
    BY <1>1 DEF Linked, Node
  <2>2. Len(q) # 0 => q[1] \in Items /\ Node(src, q, 1) = q[1] /\ q[1] # src
    BY <1>1 DEF Node, ListsAssumption, L!Heads
  <2>3. q = <<>> => Node(src, q, 1) = src
    BY DEF Node
  <2> QED BY <1>1, <2>1, <2>2, <2>3 DEF Nodes
<1> HIDE DEF q
<1>6. /\ next' \in Link /\ prev' \in Link
      /\ Linked(next', prev', dst, q) /\ Linked(next', prev', src, <<>>)
      /\ \A x \in Items : ~ Holds(q, x) => next'[x] = next[x] /\ prev'[x] = prev[x]
  <2>1. CASE q = <<>>
    <3>1. next' = [next EXCEPT ![dst] = dst] /\ prev' = [prev EXCEPT ![dst] = dst]
      BY <2>1, <1>5 DEF L!ListMove
    <3>2. next[src] = src /\ prev[src] = src
      BY <2>1, <1>1 DEF Linked, Node
    <3>3. /\ next' \in Link /\ prev' \in Link /\ next'[src] = src /\ prev'[src] = src
          /\ next'[dst] = dst /\ prev'[dst] = dst
      BY <3>1, <3>2, <1>1, <1>5 DEF Link
    <3>4. Linked(next', prev', dst, <<>>) /\ Linked(next', prev', src, <<>>)
      BY <3>3 DEF Linked, Node
    <3>5. \A x \in Items : next'[x] = next[x] /\ prev'[x] = prev[x]
      BY <3>1, <1>1 DEF Link, Nodes, ListsAssumption, L!Heads
    <3> QED BY <2>1, <3>3, <3>4, <3>5
  <2>2. CASE q # <<>>
    <3>1. next' = L!Taken(next, prev, dst, src) /\ prev' = L!Taken(prev, next, dst, src)
      BY <2>2, <1>5 DEF L!ListMove
    <3>2. \A x : ~ Holds(q, x) => \A k \in 1..Len(q) : q[k] # x
      BY DEF Holds
    <3> QED BY SMTT(30), <2>2, <3>1, <3>2, <1>1, <1>2, LinkMoved DEF Link
  <2> QED BY <2>1, <2>2
<1>7. ASSUME NEW n \in Items, Outside(n, lists')
      PROVE  next'[n] = L!NULL /\ prev'[n] = L!NULL
  <2>1. Outside(n, lists) /\ ~ Holds(q, n)
    BY <1>7, <1>4 DEF Outside, q
  <2> QED BY <2>1, <1>6 DEF RingsInv
<1>8. Different(<<>>) /\ \A x : ~ Holds(<<>>, x)
  BY DEF Different, Holds
<1>9. \A h \in L!Heads : Different(lists'[h]) /\ Linked(next', prev', h, lists'[h])
  BY <1>1, <1>2, <1>3, <1>6, <1>8
<1>10. \A g, h \in L!Heads : g # h => \A x : ~ (Holds(lists'[g], x) /\ Holds(lists'[h], x))
  BY <1>2, <1>3, <1>8
<1> QED BY <1>3, <1>6, <1>7, <1>9, <1>10 DEF RingsInv

ListsInv == RingsInv /\ SlistInv

\* Lists begin empty.
LEMMA ListsInitInv ==
  ASSUME L!Init, ListsAssumption
  PROVE  ListsInv
<1>1. SlistInv
  BY DEF L!Init, SlistInv, Different, L!SlistMatches
<1>2. /\ lists \in [L!Heads -> Seq(Items)] /\ next \in Link /\ prev \in Link
      /\ \A h \in L!Heads : lists[h] = <<>> /\ next[h] = h /\ prev[h] = h
      /\ \A n \in Items : next[n] = L!NULL /\ prev[n] = L!NULL
  BY DEF L!Init, Link, Nodes, ListsAssumption, L!Heads
<1>3. \A h \in L!Heads : Different(lists[h]) /\ Linked(next, prev, h, lists[h]) /\ \A x : ~ Holds(lists[h], x)
  BY <1>2 DEF Different, Linked, Node, Holds
<1> QED BY <1>1, <1>2, <1>3 DEF ListsInv, RingsInv

\* Every operation of list.c and slist.c keeps the lists.
LEMMA ListsStepInv ==
  ASSUME ListsInv, ListsAssumption, L!Next
  PROVE  ListsInv'
<1>1. ASSUME NEW item \in Items, NEW h \in L!Heads,
             NEW after, NEW i \in 1..(Len(lists[h]) + 1), L!ListInsert(item, after, h, i)
      PROVE  ListsInv'
  <2>1. UNCHANGED <<slist, snext, sitems>>
    BY <1>1 DEF L!ListInsert
  <2> QED BY <1>1, <2>1, ListInsertStep DEF ListsInv, SlistInv, L!SlistMatches
<1>2. ASSUME NEW item \in Items, NEW h \in L!Heads, NEW i \in 1..Len(lists[h]), L!ListRemove(item, h, i)
      PROVE  ListsInv'
  <2>1. UNCHANGED <<slist, snext, sitems>>
    BY <1>2 DEF L!ListRemove
  <2> QED BY <1>2, <2>1, ListRemoveStep DEF ListsInv, SlistInv, L!SlistMatches
<1>3. ASSUME NEW dst \in L!Heads, NEW src \in L!Heads, L!ListMove(dst, src)
      PROVE  ListsInv'
  <2>1. UNCHANGED <<slist, snext, sitems>>
    BY <1>3 DEF L!ListMove
  <2> QED BY <1>3, <2>1, ListMoveStep DEF ListsInv, SlistInv, L!SlistMatches
<1>4. ASSUME NEW n \in Items, L!SlistPush(n)
      PROVE  ListsInv'
  <2>1. UNCHANGED <<next, prev, lists>>
    BY <1>4 DEF L!SlistPush
  <2> QED BY <1>4, <2>1, SlistPushStep DEF ListsInv, RingsInv, Outside
<1>5. ASSUME NEW n \in Items, L!SlistAppend(n)
      PROVE  ListsInv'
  <2>1. UNCHANGED <<next, prev, lists>>
    BY <1>5 DEF L!SlistAppend
  <2> QED BY <1>5, <2>1, SlistAppendStep DEF ListsInv, RingsInv, Outside
<1>6. ASSUME L!SlistPop
      PROVE  ListsInv'
  <2>1. UNCHANGED <<next, prev, lists>>
    BY <1>6 DEF L!SlistPop
  <2> QED BY <1>6, <2>1, SlistPopStep DEF ListsInv, RingsInv, Outside
<1> QED BY <1>1, <1>2, <1>3, <1>4, <1>5, <1>6 DEF L!Next

-----------------------------------------------------------------------------
(* Loops, and the circular buffers of cbuf.c *)

\* An index wraps around at most once.
LEMMA Wrap ==
  ASSUME NEW m \in Nat \ {0}, NEW x \in Nat, x < 2 * m
  PROVE  x % m = (IF x < m THEN x ELSE x - m) /\ x % m \in 0..(m - 1)
<1>1. CASE x < m
  BY <1>1
<1>2. CASE x >= m
  <2>1. x % m = x - m
    BY <1>2
  <2> QED BY <1>2, <2>1
<1> QED BY <1>1, <1>2

\* The contiguous area at the tail: where it is, how long, and apart from the
\* places in use.
LEMMA TailArea ==
  ASSUME NEW m \in Nat \ {0}, NEW h \in 0..(m - 1), NEW z \in 0..m
  PROVE  LET t == (h + z) % m
             n == m - (IF t > z THEN t ELSE z)
         IN  /\ t \in Nat /\ n \in Nat /\ n <= m - z /\ t + n <= m /\ (n = 0 <=> z = m)
             /\ \A j \in 1..n : (h + (z + j) - 1) % m = t + j - 1
             /\ \A i \in 1..z : /\ (h + i - 1) % m \in 0..(m - 1)
                                /\ ~ (t <= (h + i - 1) % m /\ (h + i - 1) % m < t + n)
<1> DEFINE t == (h + z) % m
           n == m - (IF t > z THEN t ELSE z)
<1>1. t = IF h + z < m THEN h + z ELSE h + z - m
  <2> DEFINE x == h + z
  <2>1. x \in Nat /\ x < 2 * m
    OBVIOUS
  <2> HIDE DEF x
  <2>2. x % m = IF x < m THEN x ELSE x - m
    BY <2>1, Wrap
  <2> QED BY <2>2 DEF x
<1> HIDE DEF t
<1>2. n = IF h + z < m THEN m - h - z ELSE m - z
  BY <1>1
<1>3. t \in Nat /\ n \in Nat /\ n <= m - z /\ t + n <= m /\ (n = 0 <=> z = m)
  BY <1>1, <1>2
<1> HIDE DEF n
<1>4. ASSUME NEW j \in 1..n PROVE (h + (z + j) - 1) % m = t + j - 1
  <2> DEFINE x == h + (z + j) - 1
  <2>1. x \in Nat /\ x < 2 * m
    BY <1>2, <1>3
  <2> HIDE DEF x
  <2>2. x % m = IF x < m THEN x ELSE x - m
    BY <2>1, Wrap
  <2>3. (IF x < m THEN x ELSE x - m) = t + j - 1
    BY <1>1, <1>2 DEF x
  <2>4. x % m = t + j - 1
    BY <2>2, <2>3
  <2> QED BY <2>4 DEF x
<1>5. ASSUME NEW i \in 1..z
      PROVE  /\ (h + i - 1) % m \in 0..(m - 1)
             /\ ~ (t <= (h + i - 1) % m /\ (h + i - 1) % m < t + n)
  <2> DEFINE x == h + i - 1
             y == x % m
  <2>1. x \in Nat /\ x < 2 * m
    OBVIOUS
  <2> HIDE DEF x
  <2>2. y = (IF x < m THEN x ELSE x - m) /\ y \in 0..(m - 1)
    BY <2>1, Wrap
  <2> HIDE DEF y
  <2>3. ~ (t <= y /\ y < t + n)
    BY <2>2, <1>1, <1>2 DEF x
  <2> QED BY <2>2, <2>3 DEF x, y
<1> QED BY <1>3, <1>4, <1>5 DEF t, n

\* The buffer b with the indices c and the memory d holds q.
Holding(b, c, d, q) ==
  /\ c \in [head : Nat, size : Nat] /\ d \in [0..(Capacity[b] - 1) -> Bytes] /\ q \in Seq(Bytes)
  /\ c.head < Capacity[b] /\ c.size = Len(q) /\ Len(q) <= Capacity[b]
  /\ \A i \in 1..Len(q) : d[(c.head + i - 1) % Capacity[b]] = q[i]

\* Bytes written to the tail before it is advanced over them.
LEMMA PutHolds ==
  ASSUME CbufAssumption, NEW b \in C!Buffer, NEW c, NEW d, NEW q, Holding(b, c, d, q),
         NEW s \in Seq(Bytes), Len(s) <= C!CbufTailSize(b, c)
  PROVE  Holding(b, C!TailAdvance(b, c, Len(s)), C!Written(d, C!CbufTail(b, c), s), q \o s)
<1> DEFINE m == Capacity[b]
           h == c.head
           z == c.size
           t == (h + z) % m
           n == m - (IF t > z THEN t ELSE z)
           d2 == C!Written(d, t, s)
           c2 == C!TailAdvance(b, c, Len(s))
           q2 == q \o s
<1>1. m \in Nat \ {0} /\ h \in 0..(m - 1) /\ z \in 0..m /\ z = Len(q)
  BY DEF CbufAssumption, Holding
<1>2. /\ t \in Nat /\ n \in Nat /\ n <= m - z /\ t + n <= m
      /\ \A j \in 1..n : (h + (z + j) - 1) % m = t + j - 1
      /\ \A i \in 1..z : /\ (h + i - 1) % m \in 0..(m - 1)
                         /\ ~ (t <= (h + i - 1) % m /\ (h + i - 1) % m < t + n)
  <2> HIDE DEF m, h, z
  <2> QED BY <1>1, TailArea
<1>3. C!CbufTail(b, c) = t /\ C!CbufTailSize(b, c) = n
  BY DEF C!CbufTail, C!CbufTailSize
<1>4. Len(s) \in Nat /\ Len(s) <= n /\ Len(s) <= m - z
  <2> HIDE DEF t, n, m, z
  <2> QED BY <1>1, <1>2, <1>3
<1>5. /\ d \in [0..(m - 1) -> Bytes] /\ q \in Seq(Bytes)
      /\ \A i \in 1..z : d[(h + i - 1) % m] = q[i]
  BY <1>1 DEF Holding
<1>6. q2 \in Seq(Bytes) /\ Len(q2) = z + Len(s)
      /\ \A i \in 1..(z + Len(s)) : q2[i] = IF i <= z THEN q[i] ELSE s[i - z]
  BY <1>1, <1>5, ConcatProperties
<1>7. c2 \in [head : Nat, size : Nat] /\ c2.head = h /\ c2.size = z + Len(s)
  <2>1. c \in [head : Nat, size : Nat]
    BY DEF Holding
  <2>2. c2 = [c EXCEPT !.size = z + Len(s)]
    <3>1. C!Lesser(Len(s), C!CbufAvail(b, c)) = Len(s)
      <4> HIDE DEF m, z
      <4>1. C!CbufAvail(b, c) = m - z
        BY DEF C!CbufAvail, m, z
      <4> QED BY <1>1, <1>4, <4>1 DEF C!Lesser
    <3> QED BY <2>1, <3>1 DEF C!TailAdvance
  <2>3. z + Len(s) \in Nat
    BY <1>1, <1>4
  <2> QED BY <2>1, <2>2, <2>3
<1>8. d2 \in [0..(m - 1) -> Bytes]
      /\ \A x \in 0..(m - 1) : d2[x] = IF t <= x /\ x < t + Len(s) THEN s[x - t + 1] ELSE d[x]
  <2> HIDE DEF t, m
  <2>1. d2 = [i \in 0..(m - 1) |-> IF t <= i /\ i < t + Len(s) THEN s[i - t + 1] ELSE d[i]]
    BY <1>5 DEF C!Written
  <2>2. ASSUME NEW x \in 0..(m - 1), t <= x, x < t + Len(s) PROVE s[x - t + 1] \in Bytes
    <3>1. x - t + 1 \in 1..Len(s)
      BY <1>1, <1>2, <1>4, <2>2
    <3> QED BY <3>1
  <2>3. \A x \in 0..(m - 1) : d[x] \in Bytes
    BY <1>5
  <2> QED BY <2>1, <2>2, <2>3
<1> HIDE DEF d2, c2, q2, t, n, m, h, z
<1>9. ASSUME NEW i \in 1..Len(q2) PROVE d2[(h + i - 1) % m] = q2[i]
  <2>1. CASE i <= z
    <3>1. /\ i \in 1..z /\ (h + i - 1) % m \in 0..(m - 1) /\ q2[i] = q[i] /\ d[(h + i - 1) % m] = q[i]
          /\ ~ (t <= (h + i - 1) % m /\ (h + i - 1) % m < t + n)
      BY <2>1, <1>1, <1>2, <1>4, <1>5, <1>6
    <3>2. ~ (t <= (h + i - 1) % m /\ (h + i - 1) % m < t + Len(s))
      BY <3>1, <1>1, <1>2, <1>4
    <3> QED BY <3>1, <3>2, <1>8
  <2>2. CASE i > z
    <3>1. i - z \in 1..Len(s) /\ i - z \in 1..n /\ z + (i - z) = i /\ q2[i] = s[i - z]
      BY <2>2, <1>1, <1>2, <1>4, <1>6
    <3> DEFINE x == t + (i - z) - 1
    <3>2. (h + i - 1) % m = x
      BY <3>1, <1>2
    <3>3. x \in 0..(m - 1) /\ t <= x /\ x < t + Len(s) /\ x - t + 1 = i - z
      BY <3>1, <1>1, <1>2, <1>4
    <3> HIDE DEF x
    <3>4. d2[x] = s[i - z]
      BY <3>3, <1>8
    <3> QED BY <3>1, <3>2, <3>4
  <2> QED BY <2>1, <2>2, <1>1
<1>10. Holding(b, c2, d2, q2)
  BY <1>1, <1>4, <1>6, <1>7, <1>8, <1>9 DEF Holding, m
<1> QED BY <1>3, <1>10 DEF c2, d2, q2

\* The head is advanced over n bytes.
LEMMA TakeHolds ==
  ASSUME CbufAssumption, NEW b \in C!Buffer, NEW c, NEW d, NEW q, Holding(b, c, d, q), NEW n \in 0..Len(q)
  PROVE  Holding(b, C!HeadAdvance(b, c, n), d, SubSeq(q, n + 1, Len(q)))
<1> DEFINE m == Capacity[b]
           h == c.head
           z == c.size
           h2 == (h + n) % m
           q2 == SubSeq(q, n + 1, Len(q))
           c2 == C!HeadAdvance(b, c, n)
<1>1. m \in Nat \ {0} /\ h \in 0..(m - 1) /\ z \in 0..m /\ z = Len(q) /\ n \in 0..z
  BY DEF CbufAssumption, Holding
<1>2. /\ d \in [0..(m - 1) -> Bytes] /\ q \in Seq(Bytes)
      /\ \A i \in 1..z : d[(h + i - 1) % m] = q[i]
  BY <1>1 DEF Holding
<1>3. q2 \in Seq(Bytes) /\ Len(q2) = z - n /\ \A i \in 1..(z - n) : q2[i] = q[i + n]
  <2>1. \A i \in 1..Len(q) : q[i] \in Bytes
    BY <1>2
  <2> QED BY <1>1, <1>2, <2>1
<1>4. c2 = [head |-> h2, size |-> z - n]
  BY <1>1 DEF C!HeadAdvance, C!Lesser
<1> HIDE DEF c2, q2, m, h, z, h2
<1>5. h2 = (IF h + n < m THEN h + n ELSE h + n - m) /\ h2 \in 0..(m - 1)
  <2> DEFINE x == h + n
  <2>1. x \in Nat /\ x < 2 * m
    BY <1>1
  <2> HIDE DEF x
  <2>2. x % m = (IF x < m THEN x ELSE x - m) /\ x % m \in 0..(m - 1)
    BY <1>1, <2>1, Wrap
  <2>3. h2 = x % m
    BY DEF x, h2
  <2>4. h2 = (IF x < m THEN x ELSE x - m) /\ h2 \in 0..(m - 1)
    BY <2>2, <2>3
  <2> QED BY <1>1, <2>4 DEF x
<1>6. ASSUME NEW i \in 1..(z - n) PROVE (h2 + i - 1) % m = (h + (i + n) - 1) % m
  <2> DEFINE x == h2 + i - 1
             y == h + (i + n) - 1
  <2>1. x \in Nat /\ y \in Nat /\ x < 2 * m /\ y < 2 * m
    BY <1>1, <1>5
  <2>2. x = y \/ x = y - m
    BY <1>1, <1>5
  <2>3. x >= 0
    BY <2>1
  <2> HIDE DEF x, y
  <2>4. x % m = (IF x < m THEN x ELSE x - m) /\ y % m = (IF y < m THEN y ELSE y - m)
    BY <1>1, <2>1, Wrap
  <2>5. x % m = y % m
    BY <1>1, <2>1, <2>2, <2>4
  <2> QED BY <2>5 DEF x, y
<1>7. ASSUME NEW i \in 1..Len(q2) PROVE d[(c2.head + i - 1) % m] = q2[i]
  <2>1. i \in 1..(z - n) /\ i + n \in 1..z /\ c2.head = h2 /\ q2[i] = q[i + n]
    BY <1>1, <1>3, <1>4
  <2>2. d[(h + (i + n) - 1) % m] = q[i + n]
    BY <2>1, <1>2
  <2> QED BY <2>1, <2>2, <1>6
<1>8. c2 \in [head : Nat, size : Nat] /\ c2.head < m /\ c2.size = Len(q2) /\ Len(q2) <= m
  BY <1>1, <1>3, <1>4, <1>5
<1> QED BY <1>2, <1>3, <1>7, <1>8 DEF Holding, m, c2, q2

\* What the consumer reads at the head is the beginning of what is held.
LEMMA ReadHolds ==
  ASSUME CbufAssumption, NEW b \in C!Buffer, NEW c, NEW d, NEW q, Holding(b, c, d, q),
         NEW n \in 0..C!CbufHeadSize(b, c)
  PROVE  C!Read(d, c.head, n) = SubSeq(q, 1, n) /\ n \in 0..Len(q)
<1> DEFINE m == Capacity[b]
           h == c.head
           r == SubSeq(q, 1, n)
<1>1. m \in Nat \ {0} /\ h \in 0..(m - 1) /\ q \in Seq(Bytes) /\ n \in 0..Len(q) /\ h + n <= m
  BY DEF CbufAssumption, Holding, C!CbufHeadSize, C!Lesser
<1>2. \A i \in 1..Len(q) : d[(h + i - 1) % m] = q[i]
  BY DEF Holding
<1> HIDE DEF m, h
<1>3. r = [i \in 1..n |-> q[i]]
  BY <1>1
<1>4. ASSUME NEW i \in 1..n PROVE d[h + i - 1] = q[i]
  <2> DEFINE x == h + i - 1
  <2>1. x \in Nat /\ x < m /\ i \in 1..Len(q)
    BY <1>1
  <2> HIDE DEF x
  <2>2. x % m = x
    BY <1>1, <2>1
  <2>3. d[x % m] = q[i]
    BY <1>2, <2>1 DEF x
  <2>4. d[x] = q[i]
    BY <2>2, <2>3
  <2> QED BY <1>1, <2>4 DEF x
<1> QED BY <1>1, <1>3, <1>4 DEF C!Read, h

\* The area at the head is empty only when the buffer is, the one at the tail
\* only when the buffer is full.
LEMMA AreaSizes ==
  ASSUME CbufAssumption, NEW b \in C!Buffer, NEW c, NEW d, NEW q, Holding(b, c, d, q)
  PROVE  /\ C!CbufHeadSize(b, c) \in Nat /\ C!CbufTailSize(b, c) \in Nat
         /\ C!CbufHeadSize(b, c) <= Len(q) /\ C!CbufTailSize(b, c) <= Capacity[b] - Len(q)
         /\ C!CbufHeadSize(b, c) = 0 <=> Len(q) = 0
         /\ C!CbufTailSize(b, c) = 0 <=> Len(q) = Capacity[b]
<1> DEFINE m == Capacity[b]
           h == c.head
           z == c.size
           t == (h + z) % m
           n == m - (IF t > z THEN t ELSE z)
<1>1. m \in Nat \ {0} /\ h \in 0..(m - 1) /\ z \in 0..m /\ z = Len(q)
  BY DEF CbufAssumption, Holding
<1>2. n \in Nat /\ n <= m - z /\ (n = 0 <=> z = m)
  <2> HIDE DEF m, h, z
  <2> QED BY <1>1, TailArea
<1>3. C!CbufTailSize(b, c) = n
  BY DEF C!CbufTail, C!CbufTailSize
<1>4. C!CbufHeadSize(b, c) = IF m - h < z THEN m - h ELSE z
  BY DEF C!CbufHeadSize, C!Lesser
<1> HIDE DEF m, h, z, t, n
<1> QED BY <1>1, <1>2, <1>3, <1>4 DEF m

\* The function f is the iteration of rnd, n times from a, within U.
IsIteration(f, a, rnd, n, U) ==
  /\ f = [k \in 0..n |-> IF k = 0 THEN a ELSE rnd[f[k - 1]]]
  /\ \A k \in 0..n : f[k] \in U

\* A function defined by iteration exists.
LEMMA Iteration ==
  ASSUME NEW U, NEW a \in U, NEW rnd, \A u \in U : rnd[u] \in U, NEW n \in Nat
  PROVE  \E f : IsIteration(f, a, rnd, n, U)
<1> DEFINE A == {m \in Nat : \E f : /\ f = [k \in 0..m |-> IF k = 0 THEN a ELSE rnd[f[k - 1]]]
                                    /\ \A k \in 0..m : f[k] \in U}
<1>1. A \subseteq Nat
  OBVIOUS
<1>2. 0 \in A
  <2> DEFINE f == [k \in 0..0 |-> a]
  <2>1. f = [k \in 0..0 |-> IF k = 0 THEN a ELSE rnd[f[k - 1]]] /\ \A k \in 0..0 : f[k] \in U
    OBVIOUS
  <2> HIDE DEF f
  <2> QED BY <2>1
<1>3. ASSUME NEW m \in A PROVE m + 1 \in A
  <2>1. PICK f : /\ f = [k \in 0..m |-> IF k = 0 THEN a ELSE rnd[f[k - 1]]]
                 /\ \A k \in 0..m : f[k] \in U
    OBVIOUS
  <2>2. m \in Nat
    OBVIOUS
  <2> HIDE DEF A
  <2> DEFINE g == [k \in 0..(m + 1) |-> IF k = m + 1 THEN rnd[f[m]] ELSE f[k]]
  <2>3. ASSUME NEW k \in 0..(m + 1) PROVE g[k] = (IF k = 0 THEN a ELSE rnd[g[k - 1]]) /\ g[k] \in U
    <3>1. CASE k = 0
      BY <3>1, <2>1, <2>2
    <3>2. CASE k \in 1..m
      <4>1. k \in 0..m /\ k - 1 \in 0..m /\ k # 0 /\ k # m + 1 /\ k - 1 \in 0..(m + 1) /\ k - 1 # m + 1
        BY <3>2, <2>2
      <4>2. f[k] = rnd[f[k - 1]] /\ f[k] \in U
        BY <4>1, <2>1
      <4>3. g[k] = f[k] /\ g[k - 1] = f[k - 1]
        BY <4>1
      <4> QED BY <4>1, <4>2, <4>3
    <3>3. CASE k = m + 1
      <4>1. m \in 0..m /\ k - 1 = m /\ m \in 0..(m + 1) /\ m # m + 1 /\ k # 0
        BY <3>3, <2>2
      <4>2. g[k] = rnd[f[m]] /\ g[m] = f[m] /\ f[m] \in U
        BY <4>1, <3>3, <2>1
      <4> QED BY <4>1, <4>2
    <3> QED BY <3>1, <3>2, <3>3, <2>2
  <2>4. g = [k \in 0..(m + 1) |-> IF k = 0 THEN a ELSE rnd[g[k - 1]]]
    <3> DEFINE w == [k \in 0..(m + 1) |-> IF k = 0 THEN a ELSE rnd[g[k - 1]]]
    <3>1. \A k \in 0..(m + 1) : g[k] = w[k]
      BY <2>3
    <3> QED BY <3>1
  <2> HIDE DEF g
  <2>5. \A k \in 0..(m + 1) : g[k] \in U
    BY <2>3
  <2>6. \E w : /\ w = [k \in 0..(m + 1) |-> IF k = 0 THEN a ELSE rnd[w[k - 1]]]
               /\ \A k \in 0..(m + 1) : w[k] \in U
    <3> WITNESS g
    <3> QED BY <2>4, <2>5
  <2> QED BY <2>2, <2>6 DEF A
<1> HIDE DEF A
<1>4. A = Nat
  BY <1>1, <1>2, <1>3, Induction
<1> QED BY <1>4 DEF A, IsIteration

\* The sequence r is s without its first m elements.
IsRest(r, s, m) == Len(r) = Len(s) - m /\ \A i \in 1..Len(r) : r[i] = s[m + i]

\* The sequence q with the first m elements of s added.
Added(q, s, m) == q \o SubSeq(s, 1, m)

\* What is left of a sequence without its first n elements.
LEMMA Rest ==
  ASSUME NEW X, NEW q \in Seq(X), NEW n \in 0..Len(q)
  PROVE  LET r == SubSeq(q, n + 1, Len(q)) IN r \in Seq(X) /\ IsRest(r, q, n)
<1> DEFINE r == SubSeq(q, n + 1, Len(q))
<1>1. \A i \in 1..Len(q) : q[i] \in X
  OBVIOUS
<1>2. r \in Seq(X) /\ Len(r) = Len(q) - n /\ \A i \in 1..(Len(q) - n) : r[i] = q[n + i]
  BY <1>1
<1> HIDE DEF r
<1> QED BY <1>2 DEF IsRest, r

\* Taking the beginning of the rest of a sequence.
LEMMA Joined ==
  ASSUME NEW X, NEW q \in Seq(X), NEW s \in Seq(X), NEW m \in 0..Len(s), NEW r \in Seq(X),
         IsRest(r, s, m), NEW n \in 0..Len(r)
  PROVE  Added(Added(q, s, m), r, n) = Added(q, s, m + n)
<1> DEFINE u == SubSeq(s, 1, m)
           v == SubSeq(r, 1, n)
           w == SubSeq(s, 1, m + n)
<1> USE DEF IsRest
<1>1. Len(s) \in Nat /\ Len(q) \in Nat /\ m + n \in 0..Len(s)
  OBVIOUS
<1>2. u \in Seq(X) /\ Len(u) = m /\ \A i \in 1..m : u[i] = s[i]
  BY <1>1
<1>3. v \in Seq(X) /\ Len(v) = n /\ \A i \in 1..n : v[i] = s[m + i]
  BY <1>1
<1>4. w \in Seq(X) /\ Len(w) = m + n /\ \A i \in 1..(m + n) : w[i] = s[i]
  BY <1>1
<1> HIDE DEF u, v, w
<1> DEFINE a == q \o u
<1>5. a \in Seq(X) /\ Len(a) = Len(q) + m
      /\ \A i \in 1..(Len(q) + m) : a[i] = IF i <= Len(q) THEN q[i] ELSE u[i - Len(q)]
  BY ZenonT(60), <1>2, ConcatProperties
<1> HIDE DEF a
<1> DEFINE e == a \o v
           f == q \o w
<1>6. e \in Seq(X) /\ Len(e) = Len(q) + m + n
      /\ \A i \in 1..(Len(q) + m + n) : e[i] = IF i <= Len(q) + m THEN a[i] ELSE v[i - (Len(q) + m)]
  <2>1. /\ e \in Seq(X) /\ Len(e) = Len(a) + Len(v)
        /\ \A i \in 1..(Len(a) + Len(v)) : e[i] = IF i <= Len(a) THEN a[i] ELSE v[i - Len(a)]
    BY <1>3, <1>5, ConcatProperties
  <2> HIDE DEF e
  <2> QED BY <2>1, <1>1, <1>3, <1>5
<1>7. f \in Seq(X) /\ Len(f) = Len(q) + m + n
      /\ \A i \in 1..(Len(q) + m + n) : f[i] = IF i <= Len(q) THEN q[i] ELSE w[i - Len(q)]
  <2>1. /\ f \in Seq(X) /\ Len(f) = Len(q) + Len(w)
        /\ \A i \in 1..(Len(q) + Len(w)) : f[i] = IF i <= Len(q) THEN q[i] ELSE w[i - Len(q)]
    BY <1>4, ConcatProperties
  <2>2. Len(q) + Len(w) = Len(q) + m + n
    BY <1>1, <1>4
  <2> HIDE DEF f
  <2> QED BY <2>1, <2>2
<1> HIDE DEF e, f
<1>8. ASSUME NEW i \in 1..(Len(q) + m + n) PROVE e[i] = f[i]
  <2>1. CASE i <= Len(q)
    BY SMTT(30), <2>1, <1>1, <1>5, <1>6, <1>7
  <2>2. CASE i > Len(q) /\ i <= Len(q) + m
    <3>1. i - Len(q) \in 1..m /\ i - Len(q) \in 1..(m + n) /\ i \in 1..(Len(q) + m)
      BY <2>2, <1>1
    <3>2. e[i] = u[i - Len(q)] /\ f[i] = w[i - Len(q)]
      BY <2>2, <3>1, <1>1, <1>5, <1>6, <1>7
    <3> QED BY <3>1, <3>2, <1>2, <1>4
  <2>3. CASE i > Len(q) + m
    <3>1. i - (Len(q) + m) \in 1..n /\ i - Len(q) \in 1..(m + n) /\ m + (i - (Len(q) + m)) = i - Len(q)
      BY SMTT(30), <2>3, <1>1
    <3>2. e[i] = v[i - (Len(q) + m)] /\ f[i] = w[i - Len(q)]
      BY <2>3, <1>1, <1>6, <1>7
    <3> QED BY <3>1, <3>2, <1>3, <1>4
  <2> QED BY <2>1, <2>2, <2>3, <1>1
<1>9. e = f
  BY <1>6, <1>7, <1>8, SeqEqual
<1> QED BY <1>9 DEF e, f, a, u, v, w, Added

\* Leaving elements out in two portions is leaving them out at once.
LEMMA Dropped ==
  ASSUME NEW X, NEW q \in Seq(X), NEW m \in 0..Len(q), NEW n \in 0..(Len(q) - m)
  PROVE  LET r == SubSeq(q, m + 1, Len(q))
         IN  /\ r \in Seq(X) /\ Len(r) = Len(q) - m
             /\ SubSeq(r, n + 1, Len(r)) = SubSeq(q, m + n + 1, Len(q))
<1> DEFINE r == SubSeq(q, m + 1, Len(q))
           u == SubSeq(r, n + 1, Len(r))
           v == SubSeq(q, m + n + 1, Len(q))
<1>0. \A i \in 1..Len(q) : q[i] \in X
  OBVIOUS
<1>1. r \in Seq(X) /\ Len(r) = Len(q) - m /\ \A i \in 1..(Len(q) - m) : r[i] = q[m + i]
  BY <1>0
<1> HIDE DEF r
<1>2. \A i \in 1..Len(r) : r[i] \in X
  BY <1>1
<1>3. u \in Seq(X) /\ Len(u) = Len(q) - m - n /\ \A i \in 1..(Len(q) - m - n) : u[i] = r[n + i]
  <2>1. Len(r) \in Nat /\ n \in 0..Len(r) /\ Len(r) - n = Len(q) - m - n
    BY <1>1
  <2>2. u \in Seq(X) /\ Len(u) = Len(r) - n /\ \A i \in 1..(Len(r) - n) : u[i] = r[n + i]
    <3>1. u \in Seq(X) /\ IsRest(u, r, n)
      BY <1>1, <2>1, Rest
    <3> HIDE DEF u
    <3> QED BY <3>1 DEF IsRest
  <2> HIDE DEF u
  <2> QED BY <2>1, <2>2
<1>4. v \in Seq(X) /\ Len(v) = Len(q) - m - n /\ \A i \in 1..(Len(q) - m - n) : v[i] = q[m + n + i]
  BY <1>0
<1> HIDE DEF u, v
<1>5. ASSUME NEW i \in 1..(Len(q) - m - n) PROVE u[i] = v[i]
  <2>1. n + i \in 1..(Len(q) - m) /\ m + (n + i) = m + n + i
    OBVIOUS
  <2> QED BY <2>1, <1>1, <1>3, <1>4
<1>6. u = v
  BY <1>3, <1>4, <1>5, SeqEqual
<1> QED BY <1>1, <1>6 DEF u, v, r

\* The state of a helper's loop.
RoundState(b) ==
  [c : [head : Nat, size : Nat], d : [0..(Capacity[b] - 1) -> Bytes], s : Seq(Bytes)]

\* cbuf_move_in(): m bytes of s have been added to what the buffer held, q.
InState(b, q, s, st) ==
  /\ st \in RoundState(b)
  /\ \E m \in 0..Len(s) :
       /\ IsRest(st.s, s, m)
       /\ Holding(b, st.c, st.d, Added(q, s, m))

\* A round of cbuf_move_in() puts in what it takes from its source.
LEMMA MoveInRoundKeeps ==
  ASSUME CbufAssumption, NEW b \in C!Buffer, NEW q \in Seq(Bytes), NEW s \in Seq(Bytes),
         NEW st, InState(b, q, s, st)
  PROVE  InState(b, q, s, C!MoveInRound(b, st))
<1>1. PICK m \in 0..Len(s) :
        /\ IsRest(st.s, s, m)
        /\ Holding(b, st.c, st.d, Added(q, s, m))
  BY DEF InState
<1> DEFINE n == C!Lesser(C!CbufTailSize(b, st.c), Len(st.s))
           r == st.s
           x == SubSeq(r, 1, n)
           y == SubSeq(r, n + 1, Len(r))
<1>2. r \in Seq(Bytes) /\ Len(s) \in Nat
  BY DEF InState, RoundState
<1>3. n \in 0..Len(r) /\ n <= C!CbufTailSize(b, st.c)
  <2>1. C!CbufTailSize(b, st.c) \in Nat
    BY <1>1, AreaSizes
  <2> QED BY <1>2, <2>1 DEF C!Lesser
<1>r. IsRest(r, s, m)
  BY <1>1
<1> HIDE DEF n, r
<1>4. x \in Seq(Bytes) /\ Len(x) = n
  BY <1>2, <1>3
<1>5. y \in Seq(Bytes) /\ m + n \in 0..Len(s) /\ IsRest(y, s, m + n)
  <2> USE DEF IsRest
  <2>1. \A i \in 1..Len(r) : r[i] \in Bytes
    BY <1>2
  <2>2. y \in Seq(Bytes) /\ Len(y) = Len(r) - n /\ \A i \in 1..(Len(r) - n) : y[i] = r[n + i]
    BY <1>2, <1>3, <2>1
  <2> HIDE DEF y
  <2>3. Len(y) = Len(s) - (m + n) /\ m + n \in 0..Len(s) /\ Len(r) = Len(s) - m
    BY <1>2, <1>3, <1>r, <2>2
  <2>4. ASSUME NEW i \in 1..Len(y) PROVE y[i] = s[(m + n) + i]
    <3>1. i \in 1..(Len(r) - n) /\ n + i \in 1..Len(r) /\ m + (n + i) = (m + n) + i
      BY <1>2, <1>3, <2>2
    <3> QED BY <3>1, <2>2, <1>r
  <2> QED BY <2>2, <2>3, <2>4
<1> HIDE DEF x, y
<1> DEFINE st2 == C!MoveInRound(b, st)
<1>6. st2 = [c |-> C!TailAdvance(b, st.c, n), d |-> C!Written(st.d, C!CbufTail(b, st.c), x), s |-> y]
  BY DEF C!MoveInRound, n, x, y, r
<1>7. Holding(b, C!TailAdvance(b, st.c, n), C!Written(st.d, C!CbufTail(b, st.c), x), Added(q, s, m) \o x)
  BY <1>1, <1>3, <1>4, PutHolds
<1>8. Added(q, s, m) \o x = Added(q, s, m + n)
  <2>1. Added(Added(q, s, m), r, n) = Added(q, s, m + n)
    BY <1>1, <1>2, <1>3, <1>r, Joined
  <2> QED BY <2>1 DEF x, Added
<1> HIDE DEF st2
<1>9. Holding(b, st2.c, st2.d, Added(q, s, m + n)) /\ st2.s = y
  BY <1>6, <1>7, <1>8
<1>10. st2 \in RoundState(b)
  BY <1>5, <1>6, <1>9 DEF RoundState, Holding
<1>11. InState(b, q, s, st2)
  BY <1>5, <1>9, <1>10 DEF InState
<1> QED BY <1>11 DEF st2

\* So do all rounds together.
LEMMA MoveInKeeps ==
  ASSUME CbufAssumption, NEW b \in C!Buffer, NEW q \in Seq(Bytes), NEW s \in Seq(Bytes),
         NEW st0, InState(b, q, s, st0)
  PROVE  InState(b, q, s, C!MoveInLoop(b, st0))
<1> DEFINE U == {st \in RoundState(b) : InState(b, q, s, st)}
           rnd == [st \in U |-> C!MoveInRound(b, st)]
           n == Len(st0.s)
           h == CHOOSE f : f = [k \in 0..n |-> IF k = 0 THEN st0 ELSE C!MoveInRound(b, f[k - 1])]
<1>1. n \in Nat /\ st0 \in U
  <2>1. st0 \in RoundState(b)
    BY DEF InState
  <2> QED BY <2>1 DEF RoundState
<1>2. \A st : st \in U <=> InState(b, q, s, st)
  BY DEF InState
<1>3. ASSUME NEW st \in U PROVE rnd[st] = C!MoveInRound(b, st) /\ rnd[st] \in U
  <2>1. InState(b, q, s, C!MoveInRound(b, st))
    BY <1>3, MoveInRoundKeeps
  <2> QED BY <1>2, <2>1
<1> HIDE DEF U, rnd, n
<1>4. PICK g : IsIteration(g, st0, rnd, n, U)
  <2>1. \A st \in U : rnd[st] \in U
    BY <1>3
  <2> QED BY <1>1, <2>1, Iteration
<1>5. g = [k \in 0..n |-> IF k = 0 THEN st0 ELSE C!MoveInRound(b, g[k - 1])]
  <2>1. \A k \in 0..n : k # 0 => k - 1 \in 0..n
    BY <1>1
  <2> QED BY <1>3, <1>4, <2>1 DEF IsIteration
<1>6. h = [k \in 0..n |-> IF k = 0 THEN st0 ELSE C!MoveInRound(b, h[k - 1])]
  BY <1>5
<1>7. C!MoveInLoop(b, st0) = h[n]
  BY DEF C!MoveInLoop, n
<1> HIDE DEF h
<1>8. h[0] = st0 /\ \A k \in 1..n : h[k] = C!MoveInRound(b, h[k - 1])
  BY <1>1, <1>6
<1> DEFINE A == {k \in Nat : k <= n => h[k] \in U}
<1>9. A \subseteq Nat /\ 0 \in A
  BY <1>1, <1>8
<1>10. ASSUME NEW k \in A PROVE k + 1 \in A
  <2>1. k \in Nat /\ (k <= n => h[k] \in U)
    OBVIOUS
  <2>2. ASSUME k + 1 <= n PROVE h[k + 1] \in U
    <3>1. k + 1 \in 1..n /\ k + 1 - 1 = k /\ k <= n
      BY <2>1, <2>2, <1>1
    <3> QED BY <2>1, <3>1, <1>2, <1>8, MoveInRoundKeeps
  <2> QED BY <2>1, <2>2
<1> HIDE DEF A
<1>11. n \in A
  BY <1>1, <1>9, <1>10, Induction
<1> QED BY <1>1, <1>2, <1>7, <1>11 DEF A

\* cbuf_move_out(): as many bytes as st.s has were taken from what the buffer held, q.
OutState(b, d, q, max, st) ==
  /\ st \in RoundState(b) /\ st.d = d
  /\ Len(st.s) <= max /\ Len(st.s) <= Len(q)
  /\ Holding(b, st.c, d, SubSeq(q, Len(st.s) + 1, Len(q)))

\* A round of cbuf_move_out() takes bytes out, or is the last one.
LEMMA MoveOutRoundKeeps ==
  ASSUME CbufAssumption, NEW b \in C!Buffer, NEW d, NEW q \in Seq(Bytes), NEW max \in Nat,
         NEW st, OutState(b, d, q, max, st)
  PROVE  LET st2 == C!MoveOutRound(b, st, max)
         IN  /\ OutState(b, d, q, max, st2)
             /\ Len(st2.s) > Len(st.s) \/ (Len(st2.s) = Len(st.s) /\ Len(st.s) \in {max, Len(q)})
<1> DEFINE m == Len(st.s)
           r == SubSeq(q, m + 1, Len(q))
           n == C!Lesser(C!CbufHeadSize(b, st.c), max - m)
           x == C!Read(st.d, st.c.head, n)
           st2 == C!MoveOutRound(b, st, max)
<1>1. st \in RoundState(b) /\ m \in Nat /\ Len(q) \in Nat /\ m <= max /\ m <= Len(q) /\ Holding(b, st.c, d, r) /\ st.d = d
  BY DEF OutState, RoundState
<1>2. r \in Seq(Bytes) /\ Len(r) = Len(q) - m
  <2>1. m \in 0..Len(q)
    BY <1>1
  <2> HIDE DEF m
  <2>2. r \in Seq(Bytes) /\ IsRest(r, q, m)
    BY <2>1, Rest
  <2> HIDE DEF r
  <2> QED BY <2>2 DEF IsRest
<1> HIDE DEF r, m
<1>3. /\ C!CbufHeadSize(b, st.c) \in Nat /\ C!CbufHeadSize(b, st.c) <= Len(r)
      /\ C!CbufHeadSize(b, st.c) = 0 <=> Len(r) = 0
  BY <1>1, AreaSizes
<1>4. n \in 0..C!CbufHeadSize(b, st.c) /\ n \in 0..Len(r) /\ n <= max - m /\ (n = 0 => m \in {max, Len(q)})
  BY <1>1, <1>2, <1>3 DEF C!Lesser
<1> HIDE DEF n
<1>5. x = SubSeq(r, 1, n)
  BY <1>1, <1>4, ReadHolds
<1>6. x \in Seq(Bytes) /\ Len(x) = n
  BY <1>2, <1>4, <1>5
<1> HIDE DEF x
<1>7. st.s \o x \in Seq(Bytes) /\ Len(st.s \o x) = m + n
  <2>1. st.s \in Seq(Bytes)
    BY <1>1 DEF RoundState
  <2> QED BY <2>1, <1>6, ConcatProperties DEF m
<1>8. Holding(b, C!HeadAdvance(b, st.c, n), d, SubSeq(r, n + 1, Len(r)))
  BY <1>1, <1>4, TakeHolds
<1>9. SubSeq(r, n + 1, Len(r)) = SubSeq(q, m + n + 1, Len(q))
  <2>1. m \in 0..Len(q) /\ n \in 0..(Len(q) - m)
    BY <1>1, <1>2, <1>4
  <2> QED BY <2>1, Dropped DEF r
<1>10. st2 = [st EXCEPT !.c = C!HeadAdvance(b, @, n), !.s = @ \o x]
  BY DEF C!MoveOutRound, n, x, m
<1>11. st2.c = C!HeadAdvance(b, st.c, n) /\ st2.d = d /\ st2.s = st.s \o x
  BY <1>1, <1>10 DEF RoundState
<1>12. Holding(b, st2.c, d, SubSeq(q, Len(st2.s) + 1, Len(q)))
  BY <1>7, <1>8, <1>9, <1>11
<1>13. st2 \in RoundState(b)
  <2>1. C!HeadAdvance(b, st.c, n) \in [head : Nat, size : Nat]
    BY <1>8 DEF Holding
  <2> QED BY <2>1, <1>1, <1>7, <1>10 DEF RoundState
<1> HIDE DEF st2
<1>14. Len(st2.s) = m + n /\ m + n <= max /\ m + n <= Len(q)
  BY <1>1, <1>2, <1>4, <1>7, <1>11
<1>15. OutState(b, d, q, max, st2)
  BY <1>11, <1>12, <1>13, <1>14 DEF OutState
<1>16. Len(st2.s) > m \/ (Len(st2.s) = m /\ m \in {max, Len(q)})
  BY <1>1, <1>4, <1>14
<1> QED BY <1>15, <1>16 DEF st2, m

\* So cbuf_move_out() takes out the first bytes, as many as were asked for.
LEMMA MoveOutKeeps ==
  ASSUME CbufAssumption, NEW b \in C!Buffer, NEW max \in Nat,
         Holding(b, cbuf[b], data[b], queue[b])
  PROVE  Holding(b, C!MoveOut(b, max).c, data[b],
                 SubSeq(queue[b], C!Lesser(max, Len(queue[b])) + 1, Len(queue[b])))
<1> DEFINE d == data[b]
           q == queue[b]
           st0 == [c |-> cbuf[b], d |-> data[b], s |-> <<>>]
           U == {st \in RoundState(b) : OutState(b, d, q, max, st)}
           rnd == [st \in U |-> C!MoveOutRound(b, st, max)]
           h == CHOOSE f : f = [k \in 0..max |-> IF k = 0 THEN st0 ELSE C!MoveOutRound(b, f[k - 1], max)]
           t == C!Lesser(max, Len(q))
<1>0. q \in Seq(Bytes) /\ Len(q) \in Nat
  BY DEF Holding
<1>1. st0 \in U
  <2>1. st0 \in RoundState(b)
    BY DEF Holding, RoundState
  <2>2. SubSeq(q, 0 + 1, Len(q)) = q
    BY <1>0
  <2>3. st0.c = cbuf[b] /\ st0.d = d /\ Len(st0.s) = 0 /\ Holding(b, cbuf[b], d, q)
    OBVIOUS
  <2> HIDE DEF st0, d, q
  <2>4. Holding(b, st0.c, d, SubSeq(q, Len(st0.s) + 1, Len(q)))
    BY <2>2, <2>3
  <2>5. OutState(b, d, q, max, st0)
    BY <2>1, <2>3, <2>4, <1>0 DEF OutState
  <2> QED BY <2>1, <2>5
<1>2. \A st : st \in U <=> OutState(b, d, q, max, st)
  BY DEF OutState
<1> HIDE DEF d, q
<1>3. ASSUME NEW st \in U PROVE rnd[st] = C!MoveOutRound(b, st, max) /\ rnd[st] \in U
  <2>1. OutState(b, d, q, max, C!MoveOutRound(b, st, max))
    BY <1>0, <1>2, <1>3, MoveOutRoundKeeps
  <2> QED BY <1>2, <2>1
<1> HIDE DEF U, rnd
<1>4. PICK g : IsIteration(g, st0, rnd, max, U)
  <2>1. \A st \in U : rnd[st] \in U
    BY <1>3
  <2> HIDE DEF st0
  <2> QED BY <1>1, <2>1, Iteration
<1>5. g = [k \in 0..max |-> IF k = 0 THEN st0 ELSE C!MoveOutRound(b, g[k - 1], max)]
  <2> HIDE DEF st0
  <2>1. \A k \in 0..max : k # 0 => k - 1 \in 0..max
    OBVIOUS
  <2> QED BY <1>3, <1>4, <2>1 DEF IsIteration
<1>6. h = [k \in 0..max |-> IF k = 0 THEN st0 ELSE C!MoveOutRound(b, h[k - 1], max)]
  BY <1>5
<1>7. C!MoveOut(b, max) = h[max]
  BY DEF C!MoveOut
<1>8. Len(st0.s) = 0
  OBVIOUS
<1> HIDE DEF h, st0
<1>9. h[0] = st0 /\ \A k \in 1..max : h[k] = C!MoveOutRound(b, h[k - 1], max)
  BY <1>6
<1> DEFINE A == {k \in Nat : k <= max => OutState(b, d, q, max, h[k]) /\ Len(h[k].s) >= C!Lesser(k, t)}
<1>10. t \in Nat /\ t <= max /\ t <= Len(q) /\ (t = max \/ t = Len(q))
  BY <1>0 DEF C!Lesser
<1> HIDE DEF t
<1>11. A \subseteq Nat /\ 0 \in A
  BY <1>1, <1>2, <1>8, <1>9, <1>10 DEF C!Lesser
<1>12. ASSUME NEW k \in A PROVE k + 1 \in A
  <2>1. k \in Nat /\ (k <= max => OutState(b, d, q, max, h[k]) /\ Len(h[k].s) >= C!Lesser(k, t))
    OBVIOUS
  <2>2. ASSUME k + 1 <= max PROVE OutState(b, d, q, max, h[k + 1]) /\ Len(h[k + 1].s) >= C!Lesser(k + 1, t)
    <3>1. k + 1 \in 1..max /\ k + 1 - 1 = k /\ k <= max
      BY <2>1, <2>2
    <3>2. h[k + 1] = C!MoveOutRound(b, h[k], max)
      BY <3>1, <1>9
    <3>3. /\ OutState(b, d, q, max, h[k + 1])
          /\ Len(h[k + 1].s) > Len(h[k].s) \/ (Len(h[k + 1].s) = Len(h[k].s) /\ Len(h[k].s) \in {max, Len(q)})
      <4>1. OutState(b, d, q, max, h[k])
        BY <3>1, <2>1
      <4> DEFINE st == h[k]
      <4> HIDE DEF st
      <4>2. LET st2 == C!MoveOutRound(b, st, max)
            IN  /\ OutState(b, d, q, max, st2)
                /\ Len(st2.s) > Len(st.s) \/ (Len(st2.s) = Len(st.s) /\ Len(st.s) \in {max, Len(q)})
        <5>1. OutState(b, d, q, max, st)
          BY <4>1 DEF st
        <5> QED BY <5>1, <1>0, MoveOutRoundKeeps
      <4> QED BY <3>2, <4>2 DEF st
    <3>4. Len(h[k].s) \in Nat /\ Len(h[k + 1].s) \in Nat
      BY SMTT(30), <3>1, <3>3, <2>1 DEF OutState, RoundState
    <3> DEFINE x == Len(h[k].s)
               y == Len(h[k + 1].s)
    <3>5. x >= C!Lesser(k, t) /\ (y > x \/ (y = x /\ x \in {max, Len(q)}))
      BY <3>1, <3>3, <2>1
    <3> HIDE DEF x, y
    <3>6. y >= C!Lesser(k + 1, t)
      <4>1. x \in Nat /\ y \in Nat
        BY <3>4 DEF x, y
      <4> QED BY <4>1, <3>5, <2>1, <1>0, <1>10 DEF C!Lesser
    <3> QED BY <3>3, <3>6 DEF y
  <2> QED BY <2>1, <2>2
<1> HIDE DEF A
<1>13. max \in A
  BY <1>11, <1>12, Induction
<1>14. OutState(b, d, q, max, h[max]) /\ Len(h[max].s) >= t
  BY <1>10, <1>13 DEF A, C!Lesser
<1>15. Len(h[max].s) = t
  <2>1. Len(h[max].s) \in Nat
    BY <1>14 DEF OutState, RoundState
  <2> QED BY <2>1, <1>0, <1>10, <1>14 DEF OutState
<1> QED BY <1>7, <1>14, <1>15 DEF OutState, d, q, t

\* Both buffers hold their queues.
CbufInv == /\ cbuf = [b \in C!Buffer |-> cbuf[b]] /\ data = [b \in C!Buffer |-> data[b]]
           /\ queue = [b \in C!Buffer |-> queue[b]]
           /\ \A b \in C!Buffer : Holding(b, cbuf[b], data[b], queue[b])

\* The states of the loop of cbuf_move().
MoveStates ==
  [dst : [head : Nat, size : Nat], src : [head : Nat, size : Nat],
   d : [0..(Capacity["out"] - 1) -> Bytes], count : Nat]

\* cbuf_move(): count bytes have been moved.
MoveState(limit, st) ==
  /\ st \in MoveStates
  /\ st.count <= limit /\ st.count <= Len(queue["in"])
  /\ Holding("in", st.src, data["in"], SubSeq(queue["in"], st.count + 1, Len(queue["in"])))
  /\ Holding("out", st.dst, st.d, Added(queue["out"], queue["in"], st.count))

\* The length of a buffer that m bytes of another were added to.
LEMMA AddedLen ==
  ASSUME NEW q \in Seq(Bytes), NEW s \in Seq(Bytes), NEW m \in 0..Len(s)
  PROVE  Added(q, s, m) \in Seq(Bytes) /\ Len(Added(q, s, m)) = Len(q) + m
<1> DEFINE r == SubSeq(s, 1, m)
<1>1. r \in Seq(Bytes) /\ Len(r) = m
  OBVIOUS
<1> HIDE DEF r
<1>2. q \o r \in Seq(Bytes) /\ Len(q \o r) = Len(q) + m
  BY <1>1, ConcatProperties
<1> QED BY <1>2 DEF Added, r

\* A round of cbuf_move() moves bytes, or there is a reason to stop.
LEMMA MoveRoundKeeps ==
  ASSUME CbufAssumption, CbufInv, NEW limit \in Nat, NEW st, MoveState(limit, st)
  PROVE  LET st2 == C!MoveRound(st, limit)
         IN  /\ MoveState(limit, st2)
             /\ \/ st2.count > st.count
                \/ /\ st2.count = st.count
                   /\ \/ st.count = limit \/ st.count = Len(queue["in"])
                      \/ st.count = Capacity["out"] - Len(queue["out"])
<1> DEFINE q == queue["in"]
           p == queue["out"]
           m == st.count
           r == SubSeq(q, m + 1, Len(q))
           a == C!CbufHeadSize("in", st.src)
           z == C!CbufTailSize("out", st.dst)
           n == C!Lesser(C!Lesser(a, z), limit - m)
           x == C!Read(data["in"], st.src.head, n)
           st2 == C!MoveRound(st, limit)
           cap == Capacity["out"]
<1>0. "in" \in C!Buffer /\ "out" \in C!Buffer
  BY DEF C!Buffer
<1>1. /\ st \in MoveStates /\ m \in Nat /\ q \in Seq(Bytes) /\ p \in Seq(Bytes)
      /\ Len(q) \in Nat /\ Len(p) \in Nat /\ m \in 0..Len(q) /\ m <= limit
      /\ Holding("in", st.src, data["in"], r)
      /\ Holding("out", st.dst, st.d, Added(p, q, m)) /\ cap \in Nat
  <2>1. st \in MoveStates /\ q \in Seq(Bytes) /\ p \in Seq(Bytes) /\ cap \in Nat
    BY <1>0 DEF MoveState, CbufInv, Holding, CbufAssumption
  <2>2. m \in Nat
    BY <2>1 DEF MoveStates
  <2> QED BY <2>1, <2>2 DEF MoveState
<1> HIDE DEF q, p, m
<1>2. r \in Seq(Bytes) /\ IsRest(r, q, m) /\ Len(r) = Len(q) - m
  <2>1. r \in Seq(Bytes) /\ IsRest(r, q, m)
    BY <1>1, Rest
  <2> QED BY <2>1 DEF IsRest
<1> HIDE DEF r
<1>3. Len(Added(p, q, m)) = Len(p) + m
  BY <1>1, AddedLen
<1>4. a \in Nat /\ a <= Len(r) /\ (a = 0 <=> Len(r) = 0)
  BY <1>0, <1>1, AreaSizes
<1>5. z \in Nat /\ z <= cap - (Len(p) + m) /\ (z = 0 <=> Len(p) + m = cap)
  <2> DEFINE l == Len(Added(p, q, m))
  <2>1. z \in Nat /\ z <= cap - l /\ (z = 0 <=> l = cap)
    BY <1>0, <1>1, AreaSizes
  <2> QED BY <2>1, <1>3
<1> HIDE DEF a, z, cap
<1>6. n \in 0..a /\ n <= z /\ n \in 0..Len(r) /\ n <= limit - m /\ (n = 0 => m = limit \/ m = Len(q) \/ m = cap - Len(p))
  BY <1>1, <1>2, <1>4, <1>5 DEF C!Lesser
<1> HIDE DEF n
<1>7. x = SubSeq(r, 1, n)
  BY <1>0, <1>1, <1>6, ReadHolds DEF a
<1>8. x \in Seq(Bytes) /\ Len(x) = n
  BY <1>2, <1>6, <1>7
<1> HIDE DEF x
<1>9. Holding("in", C!HeadAdvance("in", st.src, n), data["in"], SubSeq(q, m + n + 1, Len(q)))
  <2>1. Holding("in", C!HeadAdvance("in", st.src, n), data["in"], SubSeq(r, n + 1, Len(r)))
    BY <1>0, <1>1, <1>6, TakeHolds
  <2>2. n \in 0..(Len(q) - m)
    BY <1>1, <1>2, <1>6
  <2>3. SubSeq(r, n + 1, Len(r)) = SubSeq(q, m + n + 1, Len(q))
    BY <1>1, <2>2, Dropped DEF r
  <2> QED BY <2>1, <2>3
<1>10. Holding("out", C!TailAdvance("out", st.dst, n), C!Written(st.d, C!CbufTail("out", st.dst), x), Added(p, q, m + n))
  <2>1. Holding("out", C!TailAdvance("out", st.dst, n), C!Written(st.d, C!CbufTail("out", st.dst), x), Added(p, q, m) \o x)
    BY <1>0, <1>1, <1>6, <1>8, PutHolds DEF z
  <2>2. Added(Added(p, q, m), r, n) = Added(p, q, m + n)
    BY <1>1, <1>2, <1>6, Joined
  <2>3. Added(p, q, m) \o x = Added(Added(p, q, m), r, n)
    BY <1>7 DEF Added
  <2> QED BY <2>1, <2>2, <2>3
<1>11. st2 = [dst |-> C!TailAdvance("out", st.dst, n), src |-> C!HeadAdvance("in", st.src, n),
              d |-> C!Written(st.d, C!CbufTail("out", st.dst), x), count |-> m + n]
  BY DEF C!MoveRound, n, x, m, a, z
<1> HIDE DEF st2
<1>12. st2.count = m + n /\ m + n \in Nat /\ m + n <= limit /\ m + n <= Len(q)
  BY <1>1, <1>2, <1>6, <1>11
<1>13. st2 \in MoveStates
  BY <1>9, <1>10, <1>11, <1>12 DEF MoveStates, Holding
<1>14. MoveState(limit, st2)
  BY <1>9, <1>10, <1>11, <1>12, <1>13 DEF MoveState, q, p
<1>15. st2.count > m \/ (st2.count = m /\ (m = limit \/ m = Len(q) \/ m = cap - Len(p)))
  BY <1>1, <1>6, <1>12
<1> QED BY <1>14, <1>15 DEF st2, m, q, p, cap

\* So cbuf_move() moves as much as limit, contents and room allow.
LEMMA MoveKeeps ==
  ASSUME CbufAssumption, CbufInv, NEW max \in Nat
  PROVE  LET limit == IF max = 0 THEN cbuf["in"].size ELSE max
         IN  /\ MoveState(limit, C!Move(max))
             /\ C!Move(max).count = C!Lesser(C!Lesser(limit, cbuf["in"].size), C!CbufAvail("out", cbuf["out"]))
<1> DEFINE limit == IF max = 0 THEN cbuf["in"].size ELSE max
           q == queue["in"]
           p == queue["out"]
           cap == Capacity["out"]
           st0 == [dst |-> cbuf["out"], src |-> cbuf["in"], d |-> data["out"], count |-> 0]
           U == {st \in MoveStates : MoveState(limit, st)}
           rnd == [st \in U |-> C!MoveRound(st, limit)]
           h == CHOOSE f : f = [k \in 0..limit |-> IF k = 0 THEN st0 ELSE C!MoveRound(f[k - 1], limit)]
           t == C!Lesser(C!Lesser(limit, Len(q)), cap - Len(p))
<1>0. /\ q \in Seq(Bytes) /\ Len(q) \in Nat /\ p \in Seq(Bytes) /\ Len(p) \in Nat
      /\ cbuf["in"].size = Len(q) /\ cbuf["out"].size = Len(p) /\ cap \in Nat /\ Len(p) <= cap
      /\ Holding("in", cbuf["in"], data["in"], q) /\ Holding("out", cbuf["out"], data["out"], p)
      /\ limit \in Nat
  BY DEF CbufInv, C!Buffer, Holding, CbufAssumption
<1>1. st0 \in U
  <2>1. st0 \in MoveStates
    BY <1>0 DEF Holding, MoveStates
  <2>2. SubSeq(q, 0 + 1, Len(q)) = q
    BY <1>0
  <2>3. Added(p, q, 0) = p
    <3>1. SubSeq(q, 1, 0) = <<>>
      BY <1>0
    <3>2. p \o <<>> = p
      BY <1>0, ConcatEmptySeq
    <3> QED BY <3>1, <3>2 DEF Added
  <2>4. st0.src = cbuf["in"] /\ st0.dst = cbuf["out"] /\ st0.d = data["out"] /\ st0.count = 0
    OBVIOUS
  <2> HIDE DEF st0, limit
  <2>5. Holding("in", st0.src, data["in"], SubSeq(q, st0.count + 1, Len(q)))
    BY <1>0, <2>2, <2>4
  <2>6. Holding("out", st0.dst, st0.d, Added(p, q, st0.count))
    BY <1>0, <2>3, <2>4
  <2>7. MoveState(limit, st0)
    BY <2>1, <2>4, <2>5, <2>6, <1>0 DEF MoveState
  <2> QED BY <2>1, <2>7
<1> HIDE DEF limit
<1>2. \A st : st \in U <=> MoveState(limit, st)
  BY DEF MoveState
<1>3. ASSUME NEW st \in U PROVE rnd[st] = C!MoveRound(st, limit) /\ rnd[st] \in U
  <2>1. MoveState(limit, C!MoveRound(st, limit))
    BY <1>0, <1>2, <1>3, MoveRoundKeeps
  <2> QED BY <1>2, <2>1
<1> HIDE DEF U, rnd
<1>4. PICK g : IsIteration(g, st0, rnd, limit, U)
  <2>1. \A st \in U : rnd[st] \in U
    BY <1>3
  <2> HIDE DEF st0
  <2> QED BY <1>0, <1>1, <2>1, Iteration
<1>5. g = [k \in 0..limit |-> IF k = 0 THEN st0 ELSE C!MoveRound(g[k - 1], limit)]
  <2> HIDE DEF st0
  <2>1. \A k \in 0..limit : k # 0 => k - 1 \in 0..limit
    BY <1>0
  <2> QED BY <1>3, <1>4, <2>1 DEF IsIteration
<1>6. h = [k \in 0..limit |-> IF k = 0 THEN st0 ELSE C!MoveRound(h[k - 1], limit)]
  BY <1>5
<1>7. C!Move(max) = h[limit]
  BY DEF C!Move, limit
<1>8. st0.count = 0
  OBVIOUS
<1> HIDE DEF h, st0
<1>9. h[0] = st0 /\ \A k \in 1..limit : h[k] = C!MoveRound(h[k - 1], limit)
  BY <1>0, <1>6
<1> DEFINE A == {k \in Nat : k <= limit => MoveState(limit, h[k]) /\ h[k].count >= C!Lesser(k, t)}
<1>10. /\ t \in Nat /\ t <= limit /\ t <= Len(q) /\ t <= cap - Len(p)
       /\ (t = limit \/ t = Len(q) \/ t = cap - Len(p))
  BY <1>0 DEF C!Lesser
<1> HIDE DEF t
<1>11. A \subseteq Nat /\ 0 \in A
  BY <1>0, <1>1, <1>2, <1>8, <1>9, <1>10 DEF C!Lesser
<1>12. ASSUME NEW k \in A PROVE k + 1 \in A
  <2>1. k \in Nat /\ (k <= limit => MoveState(limit, h[k]) /\ h[k].count >= C!Lesser(k, t))
    OBVIOUS
  <2>2. ASSUME k + 1 <= limit PROVE MoveState(limit, h[k + 1]) /\ h[k + 1].count >= C!Lesser(k + 1, t)
    <3>1. k + 1 \in 1..limit /\ k + 1 - 1 = k /\ k <= limit
      BY <2>1, <2>2, <1>0
    <3>2. h[k + 1] = C!MoveRound(h[k], limit)
      BY <3>1, <1>9
    <3> DEFINE x == h[k].count
               y == h[k + 1].count
    <3>3. /\ MoveState(limit, h[k + 1])
          /\ y > x \/ (y = x /\ (x = limit \/ x = Len(q) \/ x = cap - Len(p)))
      <4>1. MoveState(limit, h[k])
        BY <3>1, <2>1
      <4> DEFINE st == h[k]
      <4> HIDE DEF st
      <4>2. LET st2 == C!MoveRound(st, limit)
            IN  /\ MoveState(limit, st2)
                /\ \/ st2.count > st.count
                   \/ /\ st2.count = st.count
                      /\ \/ st.count = limit \/ st.count = Len(queue["in"])
                         \/ st.count = Capacity["out"] - Len(queue["out"])
        <5>1. MoveState(limit, st)
          BY <4>1 DEF st
        <5> QED BY <5>1, <1>0, MoveRoundKeeps
      <4> QED BY <3>2, <4>2 DEF st
    <3>4. x \in Nat /\ y \in Nat /\ x >= C!Lesser(k, t)
      BY <3>1, <3>3, <2>1 DEF MoveState, MoveStates
    <3> HIDE DEF x, y, p, q, cap
    <3>5. y >= C!Lesser(k + 1, t)
      BY <3>3, <3>4, <2>1, <1>0, <1>10 DEF C!Lesser
    <3> QED BY <3>3, <3>5 DEF y
  <2> QED BY <2>1, <2>2
<1> HIDE DEF A
<1>13. limit \in A
  BY <1>0, <1>11, <1>12, Induction
<1>14. MoveState(limit, h[limit]) /\ h[limit].count >= t
  BY <1>0, <1>10, <1>13 DEF A, C!Lesser
<1>15. h[limit].count = t
  <2> DEFINE x == h[limit].count
  <2>1. x \in Nat /\ x <= limit /\ x <= Len(q) /\ Holding("out", h[limit].dst, h[limit].d, Added(p, q, x))
    BY <1>14 DEF MoveState, MoveStates
  <2> HIDE DEF x, p, q
  <2>2. Len(Added(p, q, x)) = Len(p) + x
    <3>1. x \in 0..Len(q)
      BY <1>0, <2>1
    <3> QED BY <1>0, <3>1, AddedLen
  <2>3. Len(p) + x <= cap
    BY <2>1, <2>2 DEF Holding
  <2>4. x >= t
    BY <1>14 DEF x
  <2> HIDE DEF cap
  <2>5. x = t
    BY <2>1, <2>3, <2>4, <1>0, <1>10
  <2> QED BY <2>5 DEF x
<1>16. t = C!Lesser(C!Lesser(limit, cbuf["in"].size), C!CbufAvail("out", cbuf["out"]))
  BY <1>0 DEF t, C!CbufAvail
<1>17. MoveState(limit, C!Move(max)) /\ C!Move(max).count = t
  BY <1>7, <1>14, <1>15
<1> QED BY <1>16, <1>17 DEF limit

\* Buffers begin empty.
LEMMA CbufInitInv ==
  ASSUME C!Init, CbufAssumption
  PROVE  CbufInv
<1> DEFINE v == CHOOSE w \in Bytes : TRUE
<1>1. v \in Bytes
  BY DEF CbufAssumption
<1>2. /\ cbuf = [b \in C!Buffer |-> [head |-> 0, size |-> 0]]
      /\ data = [b \in C!Buffer |-> [i \in 0..(Capacity[b] - 1) |-> v]]
      /\ queue = [b \in C!Buffer |-> <<>>]
  BY DEF C!Init
<1> HIDE DEF v
<1>3. ASSUME NEW b \in C!Buffer PROVE Holding(b, cbuf[b], data[b], queue[b])
  <2>1. cbuf[b] = [head |-> 0, size |-> 0] /\ data[b] = [i \in 0..(Capacity[b] - 1) |-> v] /\ queue[b] = <<>>
    BY <1>2
  <2>2. Capacity[b] \in Nat \ {0}
    BY DEF CbufAssumption
  <2> QED BY <2>1, <2>2, <1>1 DEF Holding
<1> QED BY <1>2, <1>3 DEF CbufInv

\* One buffer changes.
LEMMA OneBuffer ==
  ASSUME CbufInv, NEW b \in C!Buffer, NEW c, NEW d, NEW q, Holding(b, c, d, q),
         cbuf' = [cbuf EXCEPT ![b] = c], data' = [data EXCEPT ![b] = d],
         queue' = [queue EXCEPT ![b] = q]
  PROVE  CbufInv'
<1>1. \A x \in C!Buffer : /\ cbuf'[x] = IF x = b THEN c ELSE cbuf[x]
                          /\ data'[x] = IF x = b THEN d ELSE data[x]
                          /\ queue'[x] = IF x = b THEN q ELSE queue[x]
  BY DEF CbufInv
<1>2. \A x \in C!Buffer : Holding(x, cbuf'[x], data'[x], queue'[x])
  BY <1>1 DEF CbufInv
<1> QED BY <1>2 DEF CbufInv

\* Every operation of cbuf.c keeps the contents of both buffers.
LEMMA CbufStepInv ==
  ASSUME CbufInv, CbufAssumption, C!Next
  PROVE  CbufInv'
<1>0. \A b \in C!Buffer : /\ Holding(b, cbuf[b], data[b], queue[b]) /\ queue[b] \in Seq(Bytes)
                          /\ Len(queue[b]) \in Nat /\ data[b] \in [0..(Capacity[b] - 1) -> Bytes]
                          /\ cbuf[b].size = Len(queue[b]) /\ Capacity[b] \in Nat
  BY DEF CbufInv, Holding, CbufAssumption
<1>s. ASSUME NEW n \in Nat, NEW s \in C!ByteStrings(n) PROVE s \in Seq(Bytes)
  <2>1. PICK k \in 1..n : s \in [1..k -> Bytes]
    BY <1>s DEF C!ByteStrings
  <2> QED BY <2>1
<1>1. ASSUME NEW b \in C!Buffer, C!CbufClear(b) PROVE CbufInv'
  <2>1. Holding(b, [head |-> 0, size |-> 0], data[b], <<>>)
    BY <1>0 DEF Holding, CbufAssumption
  <2>2. data' = [data EXCEPT ![b] = data[b]]
    BY <1>1 DEF CbufInv, C!CbufClear
  <2> QED BY <1>1, <2>1, <2>2, OneBuffer DEF C!CbufClear
<1>2. ASSUME NEW b \in C!Buffer, NEW s \in C!ByteStrings(Capacity[b]), C!Produce(b, s) PROVE CbufInv'
  <2> DEFINE c == C!TailAdvance(b, cbuf[b], Len(s))
             d == C!Written(data[b], C!CbufTail(b, cbuf[b]), s)
             q == queue[b] \o s
  <2>1. s \in Seq(Bytes)
    BY <1>0, <1>s
  <2>2. Holding(b, c, d, q)
    BY <1>0, <1>2, <2>1, PutHolds DEF C!Produce
  <2>3. cbuf' = [cbuf EXCEPT ![b] = c] /\ data' = [data EXCEPT ![b] = d] /\ queue' = [queue EXCEPT ![b] = q]
    BY <1>2 DEF C!Produce
  <2> HIDE DEF c, d, q
  <2> QED BY <2>2, <2>3, OneBuffer
<1>3. ASSUME NEW b \in C!Buffer, NEW s \in C!ByteStrings(Capacity[b] + 1), C!CbufMoveIn(b, s) PROVE CbufInv'
  <2> DEFINE st0 == [c |-> cbuf[b], d |-> data[b], s |-> s]
             r == C!MoveInLoop(b, st0)
             q == queue[b] \o SubSeq(s, 1, Len(s) - Len(r.s))
  <2>1. s \in Seq(Bytes)
    BY <1>0, <1>s
  <2>2. InState(b, queue[b], s, st0)
    <3>1. st0 \in RoundState(b)
      BY <1>0, <2>1 DEF RoundState, Holding
    <3>2. Added(queue[b], s, 0) = queue[b]
      <4>1. SubSeq(s, 1, 0) = <<>>
        BY <2>1
      <4>2. queue[b] \o <<>> = queue[b]
        BY <1>0, ConcatEmptySeq
      <4> QED BY <4>1, <4>2 DEF Added
    <3>3. IsRest(s, s, 0) /\ 0 \in 0..Len(s)
      BY <2>1 DEF IsRest
    <3>4. st0.s = s /\ Holding(b, st0.c, st0.d, Added(queue[b], s, 0))
      BY <1>0, <3>2
    <3> HIDE DEF st0
    <3> QED BY <3>1, <3>3, <3>4 DEF InState
  <2>3. cbuf' = [cbuf EXCEPT ![b] = r.c] /\ data' = [data EXCEPT ![b] = r.d] /\ queue' = [queue EXCEPT ![b] = q]
    BY <1>3 DEF C!CbufMoveIn
  <2> HIDE DEF st0
  <2>4. InState(b, queue[b], s, r)
    BY <1>0, <2>1, <2>2, MoveInKeeps
  <2> HIDE DEF r
  <2>5. PICK m \in 0..Len(s) : IsRest(r.s, s, m) /\ Holding(b, r.c, r.d, Added(queue[b], s, m))
    BY <2>4 DEF InState
  <2>6. m = Len(s) - Len(r.s)
    BY <2>1, <2>5 DEF IsRest
  <2>7. Holding(b, r.c, r.d, q)
    BY <2>5, <2>6 DEF Added
  <2> HIDE DEF q
  <2> QED BY <2>3, <2>7, OneBuffer
<1>4. ASSUME NEW b \in C!Buffer, NEW n \in 1..(Capacity[b] + 1), C!Consume(b, n) PROVE CbufInv'
  <2> DEFINE k == C!Lesser(n, Len(queue[b]))
             c == C!HeadAdvance(b, cbuf[b], n)
             q == SubSeq(queue[b], k + 1, Len(queue[b]))
  <2>1. k \in 0..Len(queue[b]) /\ C!Lesser(k, Len(queue[b])) = k
    BY <1>0 DEF C!Lesser
  <2>2. C!HeadAdvance(b, cbuf[b], k) = c
    BY <1>0, <2>1 DEF C!HeadAdvance
  <2>3. cbuf' = [cbuf EXCEPT ![b] = c] /\ queue' = [queue EXCEPT ![b] = q] /\ data' = [data EXCEPT ![b] = data[b]]
    BY <1>4 DEF C!Consume, CbufInv
  <2> HIDE DEF c, k
  <2>4. Holding(b, c, data[b], q)
    BY <1>0, <2>1, <2>2, TakeHolds
  <2> HIDE DEF q
  <2> QED BY <2>3, <2>4, OneBuffer
<1>5. ASSUME NEW b \in C!Buffer, NEW n \in 1..(Capacity[b] + 1), C!CbufMoveOut(b, n) PROVE CbufInv'
  <2> DEFINE c == C!MoveOut(b, n).c
             q == SubSeq(queue[b], C!Lesser(n, Len(queue[b])) + 1, Len(queue[b]))
  <2>1. cbuf' = [cbuf EXCEPT ![b] = c] /\ queue' = [queue EXCEPT ![b] = q] /\ data' = [data EXCEPT ![b] = data[b]]
    BY <1>5 DEF C!CbufMoveOut, CbufInv
  <2>2. Holding(b, c, data[b], q)
    BY <1>0, MoveOutKeeps
  <2> HIDE DEF c, q
  <2> QED BY <2>1, <2>2, OneBuffer
<1>6. ASSUME NEW max \in 0..Capacity["in"], C!CbufMove(max) PROVE CbufInv'
  <2> DEFINE r == C!Move(max)
             q == queue["in"]
             p == queue["out"]
             limit == IF max = 0 THEN cbuf["in"].size ELSE max
  <2>0. "in" \in C!Buffer /\ "out" \in C!Buffer /\ C!Buffer = {"in", "out"} /\ max \in Nat
    BY <1>0 DEF C!Buffer
  <2>1. MoveState(limit, r)
    BY <2>0, MoveKeeps
  <2>2. /\ cbuf' = [b \in C!Buffer |-> IF b = "in" THEN r.src ELSE r.dst]
        /\ data' = [data EXCEPT !["out"] = r.d]
        /\ queue' = [b \in C!Buffer |-> IF b = "in" THEN SubSeq(q, r.count + 1, Len(q))
                                        ELSE p \o SubSeq(q, 1, C!Lesser(r.count, Len(q)))]
    BY <1>6 DEF C!CbufMove
  <2> HIDE DEF r, limit
  <2>3. r.count \in Nat /\ r.count <= Len(q) /\ C!Lesser(r.count, Len(q)) = r.count
    BY <1>0, <2>0, <2>1 DEF MoveState, MoveStates, C!Lesser
  <2>4. /\ Holding("in", cbuf'["in"], data'["in"], queue'["in"])
        /\ Holding("out", cbuf'["out"], data'["out"], queue'["out"])
    <3>1. cbuf'["in"] = r.src /\ data'["in"] = data["in"] /\ queue'["in"] = SubSeq(q, r.count + 1, Len(q))
      BY <2>0, <2>2 DEF CbufInv
    <3>2. cbuf'["out"] = r.dst /\ data'["out"] = r.d /\ queue'["out"] = Added(p, q, r.count)
      BY <2>0, <2>2, <2>3 DEF CbufInv, Added
    <3> HIDE DEF q, p
    <3> QED BY <2>1, <3>1, <3>2 DEF MoveState, q, p
  <2>5. /\ cbuf' = [b \in C!Buffer |-> cbuf'[b]] /\ data' = [b \in C!Buffer |-> data'[b]]
        /\ queue' = [b \in C!Buffer |-> queue'[b]]
    BY <2>2 DEF CbufInv
  <2> QED BY <2>0, <2>4, <2>5 DEF CbufInv
<1> QED BY <1>1, <1>2, <1>3, <1>4, <1>5, <1>6 DEF C!Next

\* A buffer that holds its queue has the properties that Cbuf states.
LEMMA CbufInvExact ==
  ASSUME CbufInv, CbufAssumption
  PROVE  C!HoldsQueue /\ C!AreasApart /\ C!AreasStable /\ C!MoveIsMaximal
<1>1. C!HoldsQueue
  BY DEF CbufInv, Holding, C!HoldsQueue
<1>2. C!MoveIsMaximal
  <2> SUFFICES ASSUME NEW max \in 0..Capacity["in"]
               PROVE  C!Move(max).count =
                        C!Lesser(C!Lesser(IF max = 0 THEN cbuf["in"].size ELSE max, cbuf["in"].size),
                                 C!CbufAvail("out", cbuf["out"]))
    BY DEF C!MoveIsMaximal
  <2>1. max \in Nat
    BY DEF CbufAssumption, C!Buffer
  <2> QED BY <2>1, MoveKeeps
<1>3. C!AreasApart
  <2> SUFFICES ASSUME NEW b \in C!Buffer
               PROVE  LET c == cbuf[b]
                          tail == {C!CbufTail(b, c) + i - 1 : i \in 1..C!CbufTailSize(b, c)}
                          used == {(c.head + i - 1) % Capacity[b] : i \in 1..c.size}
                      IN  /\ tail \subseteq 0..(Capacity[b] - 1) /\ tail \cap used = {}
                          /\ C!CbufTailSize(b, c) = 0 <=> c.size = Capacity[b]
                          /\ C!CbufHeadSize(b, c) = 0 <=> c.size = 0
                          /\ c.head + C!CbufHeadSize(b, c) <= Capacity[b]
    BY DEF C!AreasApart
  <2> DEFINE c == cbuf[b]
             m == Capacity[b]
             h == c.head
             z == c.size
             t == (h + z) % m
             n == m - (IF t > z THEN t ELSE z)
             tail == {t + i - 1 : i \in 1..n}
             used == {(h + i - 1) % m : i \in 1..z}
  <2>1. m \in Nat \ {0} /\ h \in 0..(m - 1) /\ z \in 0..m
    BY DEF CbufAssumption, Holding, CbufInv
  <2>2. C!CbufTail(b, c) = t /\ C!CbufTailSize(b, c) = n /\ C!CbufHeadSize(b, c) = IF m - h < z THEN m - h ELSE z
    BY DEF C!CbufTail, C!CbufTailSize, C!CbufHeadSize, C!Lesser
  <2>3. /\ t \in Nat /\ n \in Nat /\ t + n <= m /\ (n = 0 <=> z = m)
        /\ \A i \in 1..z : /\ (h + i - 1) % m \in 0..(m - 1)
                           /\ ~ (t <= (h + i - 1) % m /\ (h + i - 1) % m < t + n)
    <3> HIDE DEF m, h, z
    <3> QED BY <2>1, TailArea
  <2> HIDE DEF m, h, z, t, n
  <2>4. \A x \in tail : x \in 0..(m - 1) /\ t <= x /\ x < t + n
    BY <2>1, <2>3
  <2>5. \A x \in used : ~ (t <= x /\ x < t + n)
    BY <2>3
  <2>6. tail \subseteq 0..(m - 1) /\ tail \cap used = {}
    BY <2>4, <2>5
  <2>7. (IF m - h < z THEN m - h ELSE z) = 0 <=> z = 0
    BY <2>1
  <2>8. h + (IF m - h < z THEN m - h ELSE z) <= m
    BY <2>1
  <2> QED BY <2>2, <2>3, <2>6, <2>7, <2>8 DEF m, h, z
<1>4. C!AreasStable
  <2> SUFFICES ASSUME NEW b \in C!Buffer, NEW n \in 0..Capacity[b]
               PROVE  LET c == cbuf[b]
                          consumed == C!HeadAdvance(b, c, n)
                          produced == C!TailAdvance(b, c, n)
                      IN  /\ C!CbufTail(b, consumed) = C!CbufTail(b, c)
                          /\ C!CbufTailSize(b, consumed) >= C!CbufTailSize(b, c)
                          /\ produced.head = c.head /\ C!CbufHeadSize(b, produced) >= C!CbufHeadSize(b, c)
    BY DEF C!AreasStable
  <2> DEFINE c == cbuf[b]
             m == Capacity[b]
             h == c.head
             z == c.size
             t == (h + z) % m
             k == C!Lesser(n, z)
             h2 == (h + k) % m
             z2 == z - k
             consumed == C!HeadAdvance(b, c, n)
             produced == C!TailAdvance(b, c, n)
             y == z + C!Lesser(n, m - z)
  <2>1. m \in Nat \ {0} /\ h \in 0..(m - 1) /\ z \in 0..m /\ c \in [head : Nat, size : Nat] /\ n \in Nat
    BY DEF CbufAssumption, Holding, CbufInv
  <2>2. consumed.head = h2 /\ consumed.size = z2 /\ produced.head = h /\ produced.size = y
    <3>1. consumed = [head |-> h2, size |-> z2]
      BY DEF C!HeadAdvance
    <3>2. produced = [c EXCEPT !.size = y]
      BY <2>1 DEF C!TailAdvance, C!CbufAvail
    <3> QED BY <2>1, <3>1, <3>2
  <2> HIDE DEF m, h, z, consumed, produced
  <2>3. k \in 0..z /\ y \in z..m
    BY <2>1 DEF C!Lesser
  <2> HIDE DEF k, y
  <2>4. h2 = (IF h + k < m THEN h + k ELSE h + k - m) /\ h2 \in 0..(m - 1)
    <3> DEFINE x == h + k
    <3>1. x \in Nat /\ x < 2 * m
      BY <2>1, <2>3
    <3>2. h2 = x % m
      OBVIOUS
    <3> HIDE DEF x, h2
    <3>3. h2 = (IF x < m THEN x ELSE x - m) /\ h2 \in 0..(m - 1)
      BY <2>1, <3>1, <3>2, Wrap
    <3> QED BY <2>1, <2>3, <3>3 DEF x
  <2> HIDE DEF h2
  <2>5. (h2 + z2) % m = t
    <3> DEFINE x == h + z
               w == h2 + z2
    <3>1. x \in Nat /\ x < 2 * m /\ w \in Nat /\ w < 2 * m /\ (w = x \/ w = x - m)
      BY <2>1, <2>3, <2>4
    <3> HIDE DEF x, w
    <3>2. x % m = (IF x < m THEN x ELSE x - m) /\ w % m = (IF w < m THEN w ELSE w - m)
      BY <2>1, <3>1, Wrap
    <3>3. x % m = w % m
      BY <2>1, <3>1, <3>2
    <3> QED BY <3>3 DEF x, w
  <2>6. C!CbufTail(b, c) = t /\ C!CbufTail(b, consumed) = t
    BY <2>2, <2>5 DEF C!CbufTail, m, h, z
  <2>7. t \in Nat
    BY <2>1
  <2>8. /\ C!CbufTailSize(b, c) = m - (IF t > z THEN t ELSE z)
        /\ C!CbufTailSize(b, consumed) = m - (IF t > z2 THEN t ELSE z2)
    BY <2>2, <2>6 DEF C!CbufTailSize, m, z
  <2>9. /\ C!CbufHeadSize(b, c) = (IF m - h < z THEN m - h ELSE z)
        /\ C!CbufHeadSize(b, produced) = (IF m - h < y THEN m - h ELSE y)
    BY <2>2 DEF C!CbufHeadSize, C!Lesser, m, z, h
  <2> HIDE DEF t
  <2>10. C!CbufTailSize(b, consumed) >= C!CbufTailSize(b, c)
    BY <2>1, <2>3, <2>7, <2>8
  <2>11. C!CbufHeadSize(b, produced) >= C!CbufHeadSize(b, c)
    BY <2>1, <2>3, <2>9
  <2> QED BY <2>2, <2>6, <2>10, <2>11 DEF consumed, produced, h
<1> QED BY <1>1, <1>2, <1>3, <1>4

-----------------------------------------------------------------------------
(* The allocator of slab.c *)

\* The elements of a sequence with one appended.
LEMMA AppendedElements ==
  ASSUME NEW X, NEW q \in Seq(X), Different(q), NEW e \in X, ~ Holds(q, e)
  PROVE  /\ Append(q, e) \in Seq(X) /\ Len(Append(q, e)) = Len(q) + 1 /\ Append(q, e) # <<>>
         /\ Different(Append(q, e)) /\ \A x : Holds(Append(q, e), x) <=> x = e \/ Holds(q, x)
<1> DEFINE r == Append(q, e)
<1>1. /\ r \in Seq(X) /\ Len(r) = Len(q) + 1 /\ Len(q) \in Nat /\ r # <<>>
      /\ \A i \in 1..Len(q) : r[i] = q[i]
      /\ r[Len(q) + 1] = e
  BY AppendProperties
<1> HIDE DEF r
<1>2. \A i \in 1..Len(r) : i = Len(q) + 1 \/ i \in 1..Len(q)
  BY <1>1
<1>3. \A i \in 1..Len(q) : i \in 1..Len(r) /\ Len(q) + 1 \in 1..Len(r) /\ q[i] # e
  BY <1>1 DEF Holds
<1>4. Different(r)
  BY <1>1, <1>2, <1>3 DEF Different
<1>5. Len(q) + 1 \in 1..Len(r)
  BY <1>1
<1>6. \A x : Holds(r, x) <=> x = e \/ Holds(q, x)
  BY <1>1, <1>2, <1>3, <1>5 DEF Holds
<1> QED BY <1>1, <1>4, <1>6 DEF r

\* The elements of a sequence without its first.
LEMMA TailElements ==
  ASSUME NEW X, NEW q \in Seq(X), Different(q), q # <<>>
  PROVE  /\ Tail(q) \in Seq(X) /\ Len(Tail(q)) = Len(q) - 1 /\ Len(q) \in Nat \ {0}
         /\ Different(Tail(q)) /\ Head(q) \in X /\ Holds(q, Head(q)) /\ Head(q) = q[1]
         /\ \A x : Holds(Tail(q), x) <=> x # Head(q) /\ Holds(q, x)
<1> DEFINE r == Tail(q)
<1>1. /\ r \in Seq(X) /\ Len(r) = Len(q) - 1 /\ Len(q) \in Nat \ {0} /\ Head(q) \in X /\ Head(q) = q[1]
      /\ \A i \in 1..Len(r) : r[i] = q[i + 1]
  BY HeadTailProperties
<1> HIDE DEF r
<1>2. \A i \in 1..Len(r) : i + 1 \in 1..Len(q) /\ i + 1 # 1
  BY <1>1
<1>3. 1 \in 1..Len(q) /\ \A i \in 1..Len(q) : i # 1 => i - 1 \in 1..Len(r) /\ i - 1 + 1 = i
  BY <1>1
<1>4. Different(r)
  BY <1>1, <1>2 DEF Different
<1>5. ASSUME NEW x PROVE Holds(r, x) <=> x # Head(q) /\ Holds(q, x)
  <2>1. ASSUME Holds(r, x) PROVE x # Head(q) /\ Holds(q, x)
    BY <2>1, <1>1, <1>2, <1>3 DEF Different, Holds
  <2>2. ASSUME x # Head(q), Holds(q, x) PROVE Holds(r, x)
    <3>1. PICK i \in 1..Len(q) : q[i] = x
      BY <2>2 DEF Holds
    <3>2. i # 1
      BY <2>2, <3>1, <1>1
    <3>3. i - 1 \in 1..Len(r) /\ r[i - 1] = x
      BY <3>1, <3>2, <1>1, <1>3
    <3> QED BY <3>3 DEF Holds
  <2> QED BY <2>1, <2>2
<1>6. Holds(q, Head(q))
  BY <1>1, <1>3 DEF Holds
<1> QED BY <1>1, <1>4, <1>5, <1>6 DEF r

\* The slabs that remain in a list that one was removed from.
LEMMA WithoutElements ==
  ASSUME NEW X, NEW q \in Seq(X), Different(q), NEW e, Holds(q, e)
  PROVE  /\ S!Without(q, e) \in Seq(X) /\ Different(S!Without(q, e))
         /\ \A x : Holds(S!Without(q, e), x) <=> x # e /\ Holds(q, x)
<1> DEFINE i == CHOOSE j \in DOMAIN q : q[j] = e
           r == SubSeq(q, 1, i - 1) \o SubSeq(q, i + 1, Len(q))
<1>1. DOMAIN q = 1..Len(q)
  OBVIOUS
<1>2. i \in 1..Len(q) /\ q[i] = e
  BY <1>1 DEF Holds
<1>3. S!Without(q, e) = r
  BY DEF S!Without
<1> HIDE DEF i
<1>4. r \in Seq(X) /\ IsRemoved(r, q, i)
  BY <1>2, Removed
<1> HIDE DEF r
<1> QED BY <1>2, <1>3, <1>4, RemovedElements

\* What a sequence holds is of its type.
LEMMA HeldTyped ==
  ASSUME NEW X, NEW q \in Seq(X), NEW x, Holds(q, x)
  PROVE  x \in X
BY DEF Holds

\* Elements has what a sequence holds.
LEMMA ElementsHeld ==
  ASSUME NEW X, NEW q \in Seq(X)
  PROVE  \A x : x \in S!Elements(q) <=> Holds(q, x)
<1>1. DOMAIN q = 1..Len(q)
  OBVIOUS
<1> QED BY <1>1 DEF S!Elements, Holds

\* A sequence without repetition is as long as it has elements.
LEMMA ElementsCounted ==
  ASSUME NEW X, NEW q \in Seq(X), Different(q)
  PROVE  IsFiniteSet(S!Elements(q)) /\ Cardinality(S!Elements(q)) = Len(q)
<1> DEFINE n == Len(q)
           Y == S!Elements(q)
<1>1. n \in Nat /\ DOMAIN q = 1..n /\ q = [i \in 1..n |-> q[i]]
  OBVIOUS
<1>2. \A x : x \in Y <=> \E i \in 1..n : x = q[i]
  BY <1>1 DEF S!Elements
<1> HIDE DEF Y, n
<1>3. q \in [1..n -> Y]
  BY <1>1, <1>2
<1>4. q \in Injection(1..n, Y)
  BY <1>1, <1>3 DEF Injection, IsInjective, Different, n
<1>5. q \in Surjection(1..n, Y)
  BY <1>2, <1>3 DEF Surjection
<1>6. ExistsBijection(1..n, Y)
  BY <1>4, <1>5 DEF ExistsBijection, Bijection
<1>7. Cardinality(Y) = n
  BY <1>1, <1>6, FS_CountingElements
<1>8. IsFiniteSet(1..n)
  BY <1>1, 1 \in Int, n \in Int, FS_Interval
<1>9. IsFiniteSet(Y)
  BY <1>6, <1>8, FS_Bijection
<1> QED BY <1>7, <1>9 DEF Y, n

\* The Cardinality of Slab is that of FiniteSets.
LEMMA SameCardinality ==
  ASSUME NEW X
  PROVE  S!Cardinality(X) = Cardinality(X)
BY DEF S!Cardinality, Cardinality

\* The slabs i with the lists f and p, and the objects hd with the user.
SlabsOk(f, p, i, hd) ==
  /\ f \in Seq(Slabs) /\ p \in Seq(Slabs) /\ Different(f) /\ Different(p)
  /\ DOMAIN i \subseteq Slabs
  /\ \A x \in DOMAIN i : /\ i[x] \in [free : Seq(1..Count), count : Nat]
                         /\ Different(i[x].free) /\ i[x].count = Len(i[x].free)
  /\ \A x : Holds(f, x) <=> x \in DOMAIN i /\ i[x].free = <<>>
  /\ \A x : Holds(p, x) <=> x \in DOMAIN i /\ i[x].free # <<>>
  /\ hd \subseteq (DOMAIN i) \X (1..Count)
  /\ \A x \in DOMAIN i, k \in 1..Count : <<x, k>> \in hd <=> ~ Holds(i[x].free, k)

\* The invariant of slab.c; a slab that is all free is freed at once.
SlabInv == SlabsOk(full, partial, info, held) /\ \A x \in DOMAIN info : info[x].count < Count

\* Slabs that are as SlabInv says have the properties that Slab states.
LEMMA SlabExact ==
  ASSUME SlabInv, SlabAssumption
  PROVE  S!ObjectsAccounted /\ S!SlabsListed
<1> USE DEF SlabInv, SlabsOk, S!Live
<1>1. \A x \in S!Live : \A k : k \in S!Elements(info[x].free) <=> Holds(info[x].free, k)
  BY ElementsHeld
<1>2. \A x \in S!Live : Len(info[x].free) = Cardinality(S!Elements(info[x].free))
  BY ElementsCounted
<1>3. ASSUME NEW x \in S!Live, NEW k, Holds(info[x].free, k) PROVE k \in 1..Count
  <2>1. info[x].free \in Seq(1..Count)
    OBVIOUS
  <2> HIDE DEF SlabInv, SlabsOk
  <2> QED BY <1>3, <2>1, HeldTyped
<1>4. {<<x, k>> : x \in S!Live, k \in 1..Count} =
        held \cup UNION {{<<x, k>> : k \in S!Elements(info[x].free)} : x \in S!Live}
  <2>1. ASSUME NEW x \in S!Live, NEW k \in 1..Count
        PROVE  <<x, k>> \in held \cup UNION {{<<y, j>> : j \in S!Elements(info[y].free)} : y \in S!Live}
    <3>1. <<x, k>> \in held \/ <<x, k>> \in {<<x, j>> : j \in S!Elements(info[x].free)}
      BY <1>1
    <3> QED BY <3>1
  <2>2. held \subseteq {<<x, k>> : x \in S!Live, k \in 1..Count}
    OBVIOUS
  <2>3. ASSUME NEW x \in S!Live, NEW k \in S!Elements(info[x].free)
        PROVE  <<x, k>> \in {<<y, j>> : y \in S!Live, j \in 1..Count}
    <3>1. k \in 1..Count
      BY <1>1, <1>3
    <3> QED BY <3>1
  <2>4. UNION {{<<x, k>> : k \in S!Elements(info[x].free)} : x \in S!Live}
          \subseteq {<<x, k>> : x \in S!Live, k \in 1..Count}
    <3> HIDE DEF SlabInv, SlabsOk, S!Live
    <3> QED BY <2>3
  <2> HIDE DEF SlabInv, SlabsOk, S!Live
  <2> QED BY <2>1, <2>2, <2>4
<1>5. \A obj \in held : obj[1] \in S!Live /\ obj[2] \notin S!Elements(info[obj[1]].free)
  <2> SUFFICES ASSUME NEW obj \in held
               PROVE  obj[1] \in S!Live /\ obj[2] \notin S!Elements(info[obj[1]].free)
    OBVIOUS
  <2>1. obj \in S!Live \X (1..Count)
    OBVIOUS
  <2>2. PICK x \in S!Live, k \in 1..Count : obj = <<x, k>>
    BY <2>1
  <2> QED BY <1>1, <2>2
<1>6. /\ S!Elements(full) = {x \in S!Live : info[x].free = <<>>}
      /\ S!Elements(partial) = {x \in S!Live : info[x].free # <<>>}
  BY ElementsHeld
<1>7. Len(full) + Len(partial) = Cardinality(S!Live)
  <2> DEFINE f == S!Elements(full)
             p == S!Elements(partial)
  <2>1. IsFiniteSet(f) /\ Cardinality(f) = Len(full) /\ IsFiniteSet(p) /\ Cardinality(p) = Len(partial)
    BY ElementsCounted
  <2>2. f \cap p = {} /\ f \cup p = S!Live
    BY <1>6
  <2> HIDE DEF f, p
  <2>3. Cardinality(f \cup p) = Cardinality(f) + Cardinality(p) - Cardinality(f \cap p)
    BY <2>1, FS_Union
  <2>4. Cardinality(f \cap p) = 0
    BY <2>2, FS_EmptySet
  <2> QED BY <2>1, <2>2, <2>3, <2>4
<1>8. \A x \in S!Live : info[x].count = Len(info[x].free) /\ info[x].count < Count
  OBVIOUS
<1> HIDE DEF SlabInv, SlabsOk, S!Live
<1>9. S!ObjectsAccounted
  <2>1. \A sl \in S!Live : Len(info[sl].free) = S!Cardinality(S!Elements(info[sl].free))
    BY <1>2, SameCardinality
  <2>2. {<<sl, k>> : sl \in S!Live, k \in 1..Count} =
          held \cup UNION {{<<sl, k>> : k \in S!Elements(info[sl].free)} : sl \in S!Live}
    BY <1>4
  <2> QED BY <2>1, <2>2, <1>5 DEF S!ObjectsAccounted
<1>10. S!SlabsListed
  BY <1>6, <1>7, <1>8, SameCardinality, Zenon DEF S!SlabsListed
<1> QED BY <1>9, <1>10

\* slab_alloc() takes the first free object of the first slab.
LEMMA TakeStep ==
  ASSUME SlabAssumption, NEW p, NEW i, SlabsOk(full, p, i, held), p # <<>>,
         \A x \in DOMAIN i : i[x].count <= Count /\ (x # Head(p) => i[x].count < Count),
         S!TakeFrom(p, i)
  PROVE  SlabInv'
<1> DEFINE sl == Head(p)
           fr == i[sl].free
           inf == [free |-> Tail(fr), count |-> i[sl].count - 1]
           o == <<sl, Head(fr)>>
<1>1. /\ full \in Seq(Slabs) /\ p \in Seq(Slabs) /\ Different(full) /\ Different(p)
      /\ DOMAIN i \subseteq Slabs
      /\ \A x \in DOMAIN i : /\ i[x] \in [free : Seq(1..Count), count : Nat]
                             /\ Different(i[x].free) /\ i[x].count = Len(i[x].free)
      /\ \A x : Holds(full, x) <=> x \in DOMAIN i /\ i[x].free = <<>>
      /\ \A x : Holds(p, x) <=> x \in DOMAIN i /\ i[x].free # <<>>
      /\ held \subseteq (DOMAIN i) \X (1..Count)
      /\ \A x \in DOMAIN i, k \in 1..Count : <<x, k>> \in held <=> ~ Holds(i[x].free, k)
  BY DEF SlabsOk
<1>2. Holds(p, sl) /\ sl \in Slabs
  BY <1>1, TailElements
<1>3. sl \in DOMAIN i /\ fr # <<>> /\ fr \in Seq(1..Count) /\ Different(fr) /\ i[sl].count = Len(fr) /\ ~ Holds(full, sl)
  BY <1>1, <1>2
<1>4. /\ info' = [i EXCEPT ![sl] = inf] /\ held' = held \cup {o}
      /\ partial' = IF inf.free = <<>> THEN S!Without(p, sl) ELSE p
      /\ full' = IF inf.free = <<>> THEN Append(full, sl) ELSE full
  BY DEF S!TakeFrom, S!UsedUp
<1> HIDE DEF sl, fr
<1>5. /\ Tail(fr) \in Seq(1..Count) /\ Len(Tail(fr)) = Len(fr) - 1 /\ Len(fr) \in Nat \ {0}
      /\ Different(Tail(fr)) /\ Head(fr) \in 1..Count /\ Holds(fr, Head(fr))
      /\ \A k : Holds(Tail(fr), k) <=> k # Head(fr) /\ Holds(fr, k)
  BY <1>3, TailElements
<1>6. /\ inf.free = Tail(fr) /\ inf.count = Len(Tail(fr)) /\ inf \in [free : Seq(1..Count), count : Nat]
      /\ inf.count < i[sl].count
  BY <1>3, <1>5
<1> HIDE DEF inf
<1>7. /\ S!Without(p, sl) \in Seq(Slabs) /\ Different(S!Without(p, sl))
      /\ \A x : Holds(S!Without(p, sl), x) <=> x # sl /\ Holds(p, x)
  BY <1>1, <1>2, WithoutElements
<1>8. /\ Append(full, sl) \in Seq(Slabs) /\ Different(Append(full, sl))
      /\ \A x : Holds(Append(full, sl), x) <=> x = sl \/ Holds(full, x)
  BY <1>1, <1>2, <1>3, AppendedElements
<1>9. DOMAIN info' = DOMAIN i /\ \A x \in DOMAIN i : info'[x] = IF x = sl THEN inf ELSE i[x]
  BY <1>3, <1>4
<1>10. full' \in Seq(Slabs) /\ partial' \in Seq(Slabs) /\ Different(full') /\ Different(partial')
  BY <1>1, <1>4, <1>7, <1>8
<1>11. \A x \in DOMAIN info' : /\ info'[x] \in [free : Seq(1..Count), count : Nat]
                               /\ Different(info'[x].free) /\ info'[x].count = Len(info'[x].free)
  BY <1>1, <1>5, <1>6, <1>9
<1>12. \A x : Holds(full', x) <=> x \in DOMAIN info' /\ info'[x].free = <<>>
  <2>1. CASE inf.free = <<>>
    BY <2>1, <1>1, <1>3, <1>4, <1>8, <1>9
  <2>2. CASE inf.free # <<>>
    BY <2>2, <1>1, <1>3, <1>4, <1>8, <1>9
  <2> QED BY <2>1, <2>2
<1>13. \A x : Holds(partial', x) <=> x \in DOMAIN info' /\ info'[x].free # <<>>
  <2>1. CASE inf.free = <<>>
    BY <2>1, <1>1, <1>3, <1>4, <1>7, <1>9
  <2>2. CASE inf.free # <<>>
    BY <2>2, <1>1, <1>2, <1>3, <1>4, <1>7, <1>9
  <2> QED BY <2>1, <2>2
<1>14. held' \subseteq (DOMAIN info') \X (1..Count)
  BY <1>1, <1>3, <1>4, <1>5, <1>9
<1>15. ASSUME NEW x \in DOMAIN info', NEW k \in 1..Count
       PROVE  <<x, k>> \in held' <=> ~ Holds(info'[x].free, k)
  <2>1. <<x, k>> \in held' <=> <<x, k>> \in held \/ (x = sl /\ k = Head(fr))
    BY <1>4
  <2>2. CASE x = sl
    <3>1. info'[x].free = Tail(fr) /\ (<<x, k>> \in held <=> ~ Holds(fr, k))
      BY <2>2, <1>1, <1>3, <1>6, <1>9 DEF fr
    <3>2. Holds(Tail(fr), k) <=> k # Head(fr) /\ Holds(fr, k)
      BY <1>5
    <3> QED BY <2>1, <2>2, <3>1, <3>2
  <2>3. CASE x # sl
    BY <2>1, <2>3, <1>1, <1>9
  <2> QED BY <2>2, <2>3
<1>16. \A x \in DOMAIN info' : info'[x].count < Count
  <2>1. i[sl].count <= Count /\ i[sl].count \in Nat /\ inf.count \in Nat
    BY <1>1, <1>3, <1>6
  <2>2. inf.count < Count
    BY <2>1, <1>6 DEF SlabAssumption
  <2> QED BY <2>2, <1>9 DEF sl
<1>17. SlabsOk(full, partial, info, held)'
  BY <1>1, <1>9, <1>10, <1>11, <1>12, <1>13, <1>14, <1>15 DEF SlabsOk
<1> QED BY <1>16, <1>17 DEF SlabInv

\* slab_alloc() keeps the invariant, with a new slab or without one.
LEMMA SlabAllocStep ==
  ASSUME SlabInv, SlabAssumption, S!SlabAlloc
  PROVE  SlabInv'
<1>1. CASE partial # <<>> /\ S!TakeFrom(partial, info)
  <2>1. SlabsOk(full, partial, info, held)
    BY DEF SlabInv
  <2>2. \A x \in DOMAIN info : info[x].count <= Count /\ (x # Head(partial) => info[x].count < Count)
    BY DEF SlabInv, SlabsOk, SlabAssumption
  <2> QED BY <1>1, <2>1, <2>2, TakeStep
<1>2. ASSUME partial = <<>>, NEW sl \in Slabs \ S!Live, S!TakeFrom(S!NewSlab(sl).p, S!NewSlab(sl).i)
      PROVE  SlabInv'
  <2> DEFINE p == S!NewSlab(sl).p
             i == S!NewSlab(sl).i
             fr == [k \in 1..Count |-> k]
  <2>1. /\ p = Append(<<>>, sl)
        /\ i = [x \in (DOMAIN info) \cup {sl} |-> IF x = sl THEN [free |-> fr, count |-> Count] ELSE info[x]]
    BY <1>2 DEF S!NewSlab, S!Live
  <2>2. sl \notin DOMAIN info /\ sl \in Slabs
    BY DEF S!Live
  <2>3. fr \in Seq(1..Count) /\ Len(fr) = Count /\ fr # <<>> /\ Different(fr) /\ \A k \in 1..Count : Holds(fr, k)
    <3>1. fr \in Seq(1..Count) /\ Len(fr) = Count /\ \A k \in 1..Count : fr[k] = k
      BY DEF SlabAssumption
    <3> HIDE DEF fr
    <3>2. fr # <<>>
      BY <3>1 DEF SlabAssumption
    <3> QED BY <3>1, <3>2 DEF Different, Holds
  <2> HIDE DEF fr
  <2>4. p \in Seq(Slabs) /\ Different(p) /\ p # <<>> /\ Head(p) = sl /\ \A x : Holds(p, x) <=> x = sl
    <3>1. p = <<sl>>
      BY <2>1
    <3> HIDE DEF p
    <3> QED BY <2>2, <3>1 DEF Different, Holds
  <2> HIDE DEF p
  <2>5. DOMAIN i = (DOMAIN info) \cup {sl} /\ i[sl] = [free |-> fr, count |-> Count] /\ \A x \in DOMAIN info : i[x] = info[x]
    BY <2>1, <2>2
  <2> HIDE DEF i
  <2>6. \A x : Holds(<<>>, x) <=> FALSE
    BY DEF Holds
  <2>7. SlabsOk(full, p, i, held)
    <3>1. /\ full \in Seq(Slabs) /\ Different(full) /\ DOMAIN info \subseteq Slabs
          /\ \A x \in DOMAIN info : /\ info[x] \in [free : Seq(1..Count), count : Nat]
                                    /\ Different(info[x].free) /\ info[x].count = Len(info[x].free)
          /\ \A x : Holds(full, x) <=> x \in DOMAIN info /\ info[x].free = <<>>
          /\ \A x \in DOMAIN info : info[x].free = <<>>
          /\ held \subseteq (DOMAIN info) \X (1..Count)
          /\ \A x \in DOMAIN info, k \in 1..Count : <<x, k>> \in held <=> ~ Holds(info[x].free, k)
      BY <1>2, <2>6 DEF SlabInv, SlabsOk
    <3>2. DOMAIN i \subseteq Slabs
      BY <2>2, <2>5, <3>1
    <3>3. i[sl] \in [free : Seq(1..Count), count : Nat] /\ i[sl].free = fr /\ i[sl].count = Count
      BY <2>3, <2>5 DEF SlabAssumption
    <3>4. \A x \in DOMAIN i : /\ i[x] \in [free : Seq(1..Count), count : Nat]
                              /\ Different(i[x].free) /\ i[x].count = Len(i[x].free)
      BY <2>3, <2>5, <3>1, <3>3
    <3>5. \A x : Holds(full, x) <=> x \in DOMAIN i /\ i[x].free = <<>>
      BY <2>2, <2>3, <2>5, <3>1, <3>3
    <3>6. \A x : Holds(p, x) <=> x \in DOMAIN i /\ i[x].free # <<>>
      BY <2>3, <2>4, <2>5, <3>1, <3>3
    <3>7. held \subseteq (DOMAIN i) \X (1..Count)
      BY <2>5, <3>1
    <3>8. \A x \in DOMAIN i, k \in 1..Count : <<x, k>> \in held <=> ~ Holds(i[x].free, k)
      <4>1. \A k \in 1..Count : <<sl, k>> \notin held
        BY <2>2, <3>1
      <4> QED BY <4>1, <2>3, <2>5, <3>1, <3>3
    <3> QED BY <2>4, <3>1, <3>2, <3>4, <3>5, <3>6, <3>7, <3>8 DEF SlabsOk
  <2>8. \A x \in DOMAIN i : i[x].count <= Count /\ (x # Head(p) => i[x].count < Count)
    BY <2>4, <2>5 DEF SlabInv, SlabsOk, SlabAssumption
  <2> QED BY <1>2, <2>4, <2>7, <2>8, TakeStep DEF p, i
<1> QED BY <1>1, <1>2 DEF S!SlabAlloc

\* A slab all of whose objects but one are free has just that one in use.
LEMMA AllFree ==
  ASSUME SlabAssumption, NEW q \in Seq(1..Count), Different(q), Len(q) >= Count
  PROVE  \A k \in 1..Count : Holds(q, k)
<1> DEFINE Y == S!Elements(q)
<1>1. IsFiniteSet(Y) /\ Cardinality(Y) = Len(q) /\ Len(q) \in Nat
  BY ElementsCounted
<1>2. \A x : x \in Y <=> Holds(q, x)
  BY ElementsHeld
<1>3. Y \subseteq 1..Count
  BY <1>2, HeldTyped
<1> HIDE DEF Y
<1>4. IsFiniteSet(1..Count) /\ Cardinality(1..Count) = Count
  BY 1 \in Int, Count \in Int, FS_Interval DEF SlabAssumption
<1>5. Cardinality(Y) <= Cardinality(1..Count) /\ (Cardinality(1..Count) = Cardinality(Y) => 1..Count = Y)
  BY <1>3, <1>4, FS_Subset
<1>6. 1..Count = Y
  BY <1>1, <1>4, <1>5 DEF SlabAssumption
<1> QED BY <1>2, <1>6

\* slab_free() keeps the invariant, and frees a slab that is all free.
LEMMA SlabFreeStep ==
  ASSUME SlabInv, SlabAssumption, NEW obj \in held, S!SlabFree(obj)
  PROVE  SlabInv'
<1>1. /\ full \in Seq(Slabs) /\ partial \in Seq(Slabs) /\ Different(full) /\ Different(partial)
      /\ DOMAIN info \subseteq Slabs
      /\ \A x \in DOMAIN info : /\ info[x] \in [free : Seq(1..Count), count : Nat]
                                /\ Different(info[x].free) /\ info[x].count = Len(info[x].free)
                                /\ info[x].count < Count
      /\ \A x : Holds(full, x) <=> x \in DOMAIN info /\ info[x].free = <<>>
      /\ \A x : Holds(partial, x) <=> x \in DOMAIN info /\ info[x].free # <<>>
      /\ held \subseteq (DOMAIN info) \X (1..Count)
      /\ \A x \in DOMAIN info, k \in 1..Count : <<x, k>> \in held <=> ~ Holds(info[x].free, k)
  BY DEF SlabInv, SlabsOk
<1>2. PICK sl \in DOMAIN info, n \in 1..Count : obj = <<sl, n>>
  BY <1>1
<1> DEFINE fr == info[sl].free
           inf == [free |-> Append(fr, n), count |-> info[sl].count + 1]
           p == IF fr = <<>> THEN Append(partial, sl) ELSE partial
<1>3. /\ held' = held \ {obj}
      /\ full' = IF fr = <<>> THEN S!Without(full, sl) ELSE full
      /\ IF inf.count >= Count
         THEN partial' = S!Without(p, sl) /\ info' = [x \in (DOMAIN info) \ {sl} |-> info[x]]
         ELSE partial' = p /\ info' = [info EXCEPT ![sl] = inf]
  BY <1>2 DEF S!SlabFree, S!UsedUp, S!Released, S!Live
<1>4. fr \in Seq(1..Count) /\ Different(fr) /\ ~ Holds(fr, n) /\ info[sl].count = Len(fr) /\ sl \in Slabs /\ Len(fr) < Count
  BY <1>1, <1>2
<1> HIDE DEF fr
<1>5. /\ Append(fr, n) \in Seq(1..Count) /\ Len(Append(fr, n)) = Len(fr) + 1 /\ Append(fr, n) # <<>>
      /\ Different(Append(fr, n)) /\ \A k : Holds(Append(fr, n), k) <=> k = n \/ Holds(fr, k)
  BY <1>4, AppendedElements
<1>6. inf.free = Append(fr, n) /\ inf.count = Len(fr) + 1 /\ inf \in [free : Seq(1..Count), count : Nat] /\ Len(fr) \in Nat
  BY <1>4, <1>5
<1> HIDE DEF inf
<1>7. p \in Seq(Slabs) /\ Different(p) /\ \A x : Holds(p, x) <=> x = sl \/ Holds(partial, x)
  <2>1. CASE fr = <<>>
    <3>1. ~ Holds(partial, sl)
      BY <2>1, <1>1 DEF fr
    <3>2. /\ Append(partial, sl) \in Seq(Slabs) /\ Different(Append(partial, sl))
          /\ \A x : Holds(Append(partial, sl), x) <=> x = sl \/ Holds(partial, x)
      BY <3>1, <1>1, <1>4, AppendedElements
    <3> QED BY <2>1, <3>2
  <2>2. CASE fr # <<>>
    BY <2>2, <1>1, <1>2 DEF fr
  <2> QED BY <2>1, <2>2
<1> HIDE DEF p
<1>8. full' \in Seq(Slabs) /\ Different(full') /\ \A x : Holds(full', x) <=> x # sl /\ Holds(full, x)
  <2>1. CASE fr = <<>>
    <3>1. Holds(full, sl)
      BY <2>1, <1>1, <1>2 DEF fr
    <3>2. full' = S!Without(full, sl)
      BY <2>1, <1>3
    <3> QED BY <3>1, <3>2, <1>1, WithoutElements
  <2>2. CASE fr # <<>>
    BY <2>2, <1>1, <1>2, <1>3 DEF fr
  <2> QED BY <2>1, <2>2
<1>9. \A x, k : <<x, k>> \in held' <=> <<x, k>> \in held /\ ~ (x = sl /\ k = n)
  BY <1>2, <1>3
<1>10. CASE inf.count >= Count
  <2>1. \A k \in 1..Count : k = n \/ Holds(fr, k)
    <3>1. Len(Append(fr, n)) >= Count
      BY <1>5, <1>6, <1>10
    <3> QED BY <3>1, <1>5, AllFree
  <2>2. \A k \in 1..Count : <<sl, k>> \notin held'
    BY <2>1, <1>1, <1>9 DEF fr
  <2>3. DOMAIN info' = (DOMAIN info) \ {sl} /\ \A x \in DOMAIN info' : info'[x] = info[x]
    BY <1>3, <1>10
  <2>4. partial' \in Seq(Slabs) /\ Different(partial') /\ \A x : Holds(partial', x) <=> x # sl /\ Holds(partial, x)
    <3>1. partial' = S!Without(p, sl)
      BY <1>3, <1>10
    <3>2. /\ S!Without(p, sl) \in Seq(Slabs) /\ Different(S!Without(p, sl))
          /\ \A x : Holds(S!Without(p, sl), x) <=> x # sl /\ Holds(p, x)
      BY <1>7, WithoutElements
    <3> QED BY <3>1, <3>2, <1>7
  <2>5. held' \subseteq (DOMAIN info') \X (1..Count)
    <3> SUFFICES ASSUME NEW o \in held' PROVE o \in (DOMAIN info') \X (1..Count)
      OBVIOUS
    <3>1. PICK x \in DOMAIN info, k \in 1..Count : o = <<x, k>>
      BY <1>1, <1>3
    <3>2. x # sl
      BY <3>1, <2>2
    <3> QED BY <3>1, <3>2, <2>3
  <2>6. \A x \in DOMAIN info', k \in 1..Count : <<x, k>> \in held' <=> ~ Holds(info'[x].free, k)
    BY <1>1, <1>9, <2>3
  <2>7. \A x : Holds(full', x) <=> x \in DOMAIN info' /\ info'[x].free = <<>>
    BY <1>1, <1>8, <2>3
  <2>8. \A x : Holds(partial', x) <=> x \in DOMAIN info' /\ info'[x].free # <<>>
    BY <1>1, <2>3, <2>4
  <2>9. DOMAIN info' \subseteq Slabs
        /\ \A x \in DOMAIN info' : /\ info'[x] \in [free : Seq(1..Count), count : Nat]
                                   /\ Different(info'[x].free) /\ info'[x].count = Len(info'[x].free)
                                   /\ info'[x].count < Count
    BY <1>1, <2>3
  <2> QED BY <1>8, <2>4, <2>5, <2>6, <2>7, <2>8, <2>9 DEF SlabInv, SlabsOk
<1>11. CASE ~ (inf.count >= Count)
  <2>1. DOMAIN info' = DOMAIN info /\ \A x \in DOMAIN info : info'[x] = IF x = sl THEN inf ELSE info[x]
    BY <1>3, <1>11
  <2>2. partial' = p
    BY <1>3, <1>11
  <2>3. held' \subseteq (DOMAIN info') \X (1..Count)
    BY <1>1, <1>3, <2>1
  <2>4. ASSUME NEW x \in DOMAIN info', NEW k \in 1..Count
        PROVE  <<x, k>> \in held' <=> ~ Holds(info'[x].free, k)
    <3>1. CASE x = sl
      <4>1. info'[x].free = Append(fr, n)
        BY <3>1, <1>6, <2>1
      <4>2. Holds(Append(fr, n), k) <=> k = n \/ Holds(fr, k)
        BY <1>5
      <4>3. <<x, k>> \in held <=> ~ Holds(fr, k)
        BY <3>1, <1>1, <2>1 DEF fr
      <4> QED BY <3>1, <4>1, <4>2, <4>3, <1>9
    <3>2. CASE x # sl
      BY <3>2, <1>1, <1>9, <2>1
    <3> QED BY <3>1, <3>2
  <2>5. \A x : Holds(full', x) <=> x \in DOMAIN info' /\ info'[x].free = <<>>
    BY <1>1, <1>5, <1>6, <1>8, <2>1
  <2>6. \A x : Holds(partial', x) <=> x \in DOMAIN info' /\ info'[x].free # <<>>
    BY <1>1, <1>2, <1>5, <1>6, <1>7, <2>1, <2>2
  <2>7. DOMAIN info' \subseteq Slabs
    BY <1>1, <2>1
  <2>8. ASSUME NEW x \in DOMAIN info'
        PROVE  /\ info'[x] \in [free : Seq(1..Count), count : Nat]
               /\ Different(info'[x].free) /\ info'[x].count = Len(info'[x].free)
               /\ info'[x].count < Count
    <3>1. CASE x = sl
      <4>1. info'[x] = inf
        BY <3>1, <2>1
      <4>2. inf.count \in Nat /\ inf.count < Count
        BY <1>5, <1>6, <1>11 DEF SlabAssumption
      <4>3. inf \in [free : Seq(1..Count), count : Nat]
            /\ Different(inf.free) /\ inf.count = Len(inf.free)
        BY <1>1, <1>5, <1>6, <4>2
      <4> QED BY <4>1, <4>2, <4>3
    <3>2. CASE x # sl
      BY <3>2, <1>1, <2>1
    <3> QED BY <3>1, <3>2
  <2> QED BY <1>7, <1>8, <2>2, <2>3, <2>4, <2>5, <2>6, <2>7, <2>8 DEF SlabInv, SlabsOk
<1> QED BY <1>10, <1>11

\* An allocator without slabs.
LEMMA SlabsNone ==
  ASSUME NEW f, NEW p, NEW i, NEW hd, f = <<>>, p = <<>>, i = <<>>, hd = {}
  PROVE  SlabsOk(f, p, i, hd)
  BY DEF SlabsOk, Different, Holds

\* The allocator begins without slabs.
LEMMA SlabInitInv ==
  ASSUME S!Init
  PROVE  SlabInv
  BY SlabsNone DEF S!Init, SlabInv

\* Every operation of slab.c keeps the invariant.
LEMMA SlabStepInv ==
  ASSUME SlabInv, SlabAssumption, S!Next
  PROVE  SlabInv'
<1>1. CASE S!SlabAlloc
  BY <1>1, SlabAllocStep
<1>2. CASE S!SlabAllocFails
  BY <1>2 DEF S!SlabAllocFails, S!vars, SlabInv, SlabsOk
<1>3. CASE S!SlabFreeAll
  BY <1>3, SlabsNone DEF S!SlabFreeAll, SlabInv
<1>4. ASSUME NEW obj \in held, S!SlabFree(obj) PROVE SlabInv'
  BY <1>4, SlabFreeStep
<1> QED BY <1>1, <1>2, <1>3, <1>4 DEF S!Next

-----------------------------------------------------------------------------
(* The doubling of capacities, and vector.c *)

\* Doubling gives a size that is enough.
LEMMA DoubledEnough ==
  ASSUME NEW least \in Nat \ {0}, NEW needed \in Nat
  PROVE  Doubled(least, needed) \in Nat \ {0} /\ Doubled(least, needed) >= needed
<1> DEFINE U == Nat \ {0}
           rnd == [u \in U |-> IF u < needed THEN 2 * u ELSE u]
           h == CHOOSE f : f = [k \in 0..needed |->
                  IF k = 0 THEN least ELSE IF f[k - 1] < needed THEN 2 * f[k - 1] ELSE f[k - 1]]
<1>1. \A u \in U : rnd[u] = (IF u < needed THEN 2 * u ELSE u) /\ rnd[u] \in U
  OBVIOUS
<1>2. least \in U
  OBVIOUS
<1> HIDE DEF rnd, U
<1>3. PICK g : IsIteration(g, least, rnd, needed, U)
  BY <1>1, <1>2, Iteration
<1>4. g = [k \in 0..needed |->
             IF k = 0 THEN least ELSE IF g[k - 1] < needed THEN 2 * g[k - 1] ELSE g[k - 1]]
  <2>1. \A k \in 0..needed : k # 0 => k - 1 \in 0..needed
    OBVIOUS
  <2> QED BY <1>1, <1>3, <2>1 DEF IsIteration
<1>5. h = [k \in 0..needed |->
             IF k = 0 THEN least ELSE IF h[k - 1] < needed THEN 2 * h[k - 1] ELSE h[k - 1]]
  BY <1>4
<1>6. Doubled(least, needed) = h[needed]
  BY DEF Doubled
<1> HIDE DEF h
<1> DEFINE A == {k \in Nat : k <= needed => h[k] \in Nat \ {0} /\ (h[k] >= needed \/ h[k] >= k + 1)}
<1>7. A \subseteq Nat /\ 0 \in A
  <2>1. h[0] = least
    BY <1>5
  <2> QED BY <2>1
<1>8. ASSUME NEW k \in A PROVE k + 1 \in A
  <2>1. k \in Nat /\ (k <= needed => h[k] \in Nat \ {0} /\ (h[k] >= needed \/ h[k] >= k + 1))
    OBVIOUS
  <2>2. ASSUME k + 1 <= needed
        PROVE  h[k + 1] \in Nat \ {0} /\ (h[k + 1] >= needed \/ h[k + 1] >= k + 1 + 1)
    <3>1. k + 1 \in 0..needed /\ k + 1 # 0 /\ k + 1 - 1 = k /\ k <= needed
      BY <2>1, <2>2
    <3>2. h[k + 1] = IF h[k] < needed THEN 2 * h[k] ELSE h[k]
      BY <3>1, <1>5
    <3> QED BY <2>1, <3>1, <3>2
  <2> QED BY <2>1, <2>2
<1> HIDE DEF A
<1>9. needed \in A
  BY <1>7, <1>8, Induction
<1>10. h[needed] \in Nat \ {0} /\ (h[needed] >= needed \/ h[needed] >= needed + 1)
  BY <1>9 DEF A
<1> QED BY <1>6, <1>10

\* The capacity that size_for() computes is enough.
LEMMA CapForEnough ==
  ASSUME VectorAssumption, NEW needed \in Nat
  PROVE  V!CapFor(needed) \in Nat \ {0} /\ V!CapFor(needed) >= needed
<1>1. V!CapFor(needed) = Doubled(MinElems, needed)
  BY DEF V!CapFor, V!Doubled, Doubled
<1> QED BY <1>1, DoubledEnough DEF VectorAssumption

\* What a vector may hold.
Element == Elems \cup {V!Unset}

\* The memory of a vector reaches as far as its length and has its elements.
VectorInv ==
  /\ ptr \in Seq(Element) /\ elems \in Seq(Element)
  /\ length = Len(elems) /\ length <= Len(ptr)
  /\ \A i \in 1..Len(elems) : elems[i] # V!Unset => ptr[i] = elems[i]

\* size_for() keeps what the memory holds, as far as it reaches, and has room
\* for what was asked for when it succeeds.
Resized(r, p, needed) ==
  /\ r.ptr \in Seq(Element) /\ r.ok \in BOOLEAN
  /\ r.ok => needed <= Len(r.ptr)
  /\ ~ r.ok => r.ptr = p /\ Len(p) < needed
  /\ \A i \in 1..Len(p) : i <= Len(r.ptr) => r.ptr[i] = p[i]

\* size_for() does what Resized says, whether realloc() fails or not.
LEMMA SizeForResizes ==
  ASSUME VectorAssumption, NEW p \in Seq(Element), NEW needed \in Nat,
         NEW r \in V!SizeFor(p, needed)
  PROVE  Resized(r, p, needed)
<1> DEFINE cap == V!CapFor(needed)
           moved == [i \in 1..cap |-> IF i <= Len(p) THEN p[i] ELSE V!Unset]
<1>1. cap \in Nat /\ cap >= needed
  BY CapForEnough
<1> HIDE DEF cap
<1>2. Len(p) \in Nat /\ \A i \in 1..Len(p) : p[i] \in Element
  OBVIOUS
<1>3. moved \in Seq(Element) /\ Len(moved) = cap /\ \A i \in 1..cap : i <= Len(p) => moved[i] = p[i]
  <2>1. \A i \in 1..cap : moved[i] \in Element
    BY <1>1, <1>2 DEF Element
  <2> QED BY <1>1, <2>1
<1> HIDE DEF moved
<1>4. \/ r = [ptr |-> moved, ok |-> TRUE]
      \/ r = [ptr |-> p, ok |-> TRUE] /\ cap <= Len(p)
      \/ r = [ptr |-> p, ok |-> (Len(p) >= needed)]
  BY DEF V!SizeFor, V!RoomLeft, cap, moved
<1>5. CASE r = [ptr |-> moved, ok |-> TRUE]
  BY <1>1, <1>2, <1>3, <1>5 DEF Resized
<1>6. CASE r = [ptr |-> p, ok |-> TRUE] /\ cap <= Len(p)
  BY <1>1, <1>2, <1>6 DEF Resized
<1>7. CASE r = [ptr |-> p, ok |-> (Len(p) >= needed)]
  <2>1. r.ptr = p /\ r.ok = (Len(p) >= needed)
    BY <1>7
  <2>2. CASE Len(p) >= needed
    BY <1>2, <2>1, <2>2 DEF Resized
  <2>3. CASE ~ (Len(p) >= needed)
    <3>0. r.ok = FALSE
      <4> DEFINE room == Len(p) >= needed
      <4>1. r.ok = room
        BY <2>1
      <4>2. ~ room
        BY <2>3
      <4>3. room \in BOOLEAN
        OBVIOUS
      <4> HIDE DEF room
      <4> QED BY <4>1, <4>2, <4>3
    <3>1. r.ok = FALSE /\ Len(p) < needed
      BY <1>2, <2>3, <3>0
    <3>2. \A i \in 1..Len(p) : i <= Len(r.ptr) => r.ptr[i] = p[i]
      BY <2>1
    <3> QED BY <2>1, <3>1, <3>2 DEF Resized
  <2> QED BY <2>2, <2>3
<1> QED BY <1>4, <1>5, <1>6, <1>7

\* vector_resize() keeps the invariant.
LEMMA VectorResizeStep ==
  ASSUME VectorInv, VectorAssumption, NEW n \in 0..MaxElems, V!VectorResize(n)
  PROVE  VectorInv'
<1>1. n \in Nat /\ Len(elems) \in Nat /\ Len(ptr) \in Nat
  BY DEF VectorAssumption, VectorInv
<1>2. PICK r \in V!SizeFor(ptr, n) : ptr' = r.ptr /\ length' = IF r.ok THEN n ELSE length
  BY DEF V!VectorResize, V!Sized
<1>3. Resized(r, ptr, n)
  BY <1>1, SizeForResizes DEF VectorInv
<1>4. CASE ~ r.ok
  <2>1. length' = length /\ ptr' = ptr /\ length < n
    BY <1>1, <1>2, <1>3, <1>4 DEF Resized, VectorInv
  <2>2. elems' = elems
    BY <1>1, <2>1 DEF V!VectorResize, VectorInv
  <2> QED BY <2>1, <2>2 DEF VectorInv
<1>5. CASE r.ok
  <2> DEFINE e == [i \in 1..n |-> IF i <= Len(elems) THEN elems[i] ELSE V!Unset]
  <2>1. length' = n /\ elems' = e
    BY <1>2, <1>5 DEF V!VectorResize
  <2>2. e \in Seq(Element) /\ Len(e) = n /\ \A i \in 1..n : e[i] = IF i <= Len(elems) THEN elems[i] ELSE V!Unset
    <3>1. \A i \in 1..n : e[i] \in Element
      BY <1>1 DEF Element, VectorInv
    <3> QED BY <1>1, <3>1
  <2> HIDE DEF e
  <2>3. ptr' \in Seq(Element) /\ n <= Len(ptr')
    BY <1>2, <1>3, <1>5 DEF Resized
  <2>4. ASSUME NEW i \in 1..n, e[i] # V!Unset PROVE r.ptr[i] = e[i]
    <3>1. i <= Len(elems) /\ i \in 1..Len(elems) /\ e[i] = elems[i] /\ i \in 1..Len(ptr)
      BY <1>1, <2>2, <2>4 DEF VectorInv
    <3>2. i <= Len(r.ptr)
      BY <1>1, <1>2, <2>3
    <3> QED BY <1>3, <2>4, <3>1, <3>2 DEF VectorInv, Resized
  <2> QED BY <1>2, <2>1, <2>2, <2>3, <2>4 DEF VectorInv
<1> QED BY <1>4, <1>5

\* vector_pop() keeps the invariant.
LEMMA VectorPopStep ==
  ASSUME VectorInv, VectorAssumption, NEW n \in 0..MaxElems, V!VectorPop(n)
  PROVE  VectorInv'
<1> DEFINE left == IF n > length THEN 0 ELSE length - n
<1>1. Len(elems) \in Nat /\ Len(ptr) \in Nat /\ left \in Nat /\ left <= Len(elems) /\ Len(elems) <= Len(ptr)
  BY DEF VectorAssumption, VectorInv
<1>2. V!Sized(left) /\ elems' = SubSeq(elems, 1, left)
  BY DEF V!VectorPop
<1> HIDE DEF left
<1>3. PICK r \in V!SizeFor(ptr, left) : ptr' = r.ptr /\ length' = IF r.ok THEN left ELSE length
  BY <1>2 DEF V!Sized
<1>4. Resized(r, ptr, left)
  BY <1>1, SizeForResizes DEF VectorInv
<1>5. r.ok
  BY <1>1, <1>4 DEF Resized
<1>6. /\ SubSeq(elems, 1, left) \in Seq(Element) /\ Len(SubSeq(elems, 1, left)) = left
      /\ \A i \in 1..left : SubSeq(elems, 1, left)[i] = elems[i] /\ i \in 1..Len(elems) /\ i \in 1..Len(ptr)
  BY <1>1 DEF VectorInv
<1>7. ptr' \in Seq(Element) /\ left <= Len(ptr') /\ length' = left /\ ptr' = r.ptr /\ Len(ptr') \in Nat
  BY <1>3, <1>4, <1>5 DEF Resized
<1>8. ASSUME NEW i \in 1..left PROVE i <= Len(r.ptr)
  BY <1>1, <1>7
<1>9. \A i \in 1..left : r.ptr[i] = ptr[i]
  BY <1>4, <1>6, <1>8 DEF Resized
<1> QED BY <1>2, <1>6, <1>7, <1>9 DEF VectorInv

\* vector_push() keeps the invariant.
LEMMA VectorPushStep ==
  ASSUME VectorInv, VectorAssumption, NEW s \in Seq(Elems), V!VectorPush(s)
  PROVE  VectorInv'
<1> DEFINE n == length + Len(s)
<1>1. Len(elems) \in Nat /\ Len(ptr) \in Nat /\ Len(s) \in Nat /\ n \in Nat /\ length = Len(elems)
      /\ Len(elems) <= Len(ptr) /\ length + Len(s) = n /\ s \in Seq(Element)
  BY DEF VectorAssumption, VectorInv, Element
<1>2. PICK r \in V!SizeFor(ptr, n) :
          IF r.ok
          THEN /\ ptr' = [i \in DOMAIN r.ptr |->
                            IF i \in (length + 1)..(length + Len(s)) THEN s[i - length] ELSE r.ptr[i]]
               /\ length' = n
               /\ elems' = elems \o s
          ELSE ptr' = r.ptr /\ UNCHANGED <<length, elems>>
  BY DEF V!VectorPush
<1> HIDE DEF n
<1>3. Resized(r, ptr, n)
  BY <1>1, SizeForResizes DEF VectorInv
<1>4. CASE ~ r.ok
  BY <1>2, <1>3, <1>4 DEF VectorInv, Resized
<1>5. CASE r.ok
  <2> DEFINE m == Len(r.ptr)
             q == [i \in 1..m |-> IF i \in (length + 1)..n THEN s[i - length] ELSE r.ptr[i]]
  <2>1. r.ptr \in Seq(Element) /\ n <= m /\ m \in Nat /\ DOMAIN r.ptr = 1..m
    BY <1>3, <1>5 DEF Resized
  <2>2. ptr' = q /\ length' = n /\ elems' = elems \o s
    BY <1>1, <1>2, <1>5, <2>1
  <2> HIDE DEF m
  <2>3. \A i \in 1..m : q[i] \in Element
    BY <1>1, <2>1 DEF m
  <2>4. q \in Seq(Element) /\ Len(q) = m
        /\ \A i \in 1..m : q[i] = IF i \in (length + 1)..n THEN s[i - length] ELSE r.ptr[i]
    BY <2>1, <2>3
  <2> HIDE DEF q
  <2>5. /\ elems \o s \in Seq(Element) /\ Len(elems \o s) = n
        /\ \A i \in 1..n : (elems \o s)[i] = IF i <= length THEN elems[i] ELSE s[i - length]
    BY <1>1 DEF VectorInv
  <2>6. ASSUME NEW i \in 1..n, (elems \o s)[i] # V!Unset PROVE q[i] = (elems \o s)[i]
    <3>1. i \in 1..m
      BY <1>1, <2>1
    <3>2. CASE i <= length
      <4>1. i \in 1..Len(elems) /\ i \in 1..Len(ptr) /\ i \notin (length + 1)..n /\ i <= Len(r.ptr)
        BY <1>1, <2>1, <3>1, <3>2 DEF m
      <4>2. q[i] = ptr[i]
        BY <1>3, <2>4, <3>1, <4>1 DEF Resized
      <4>3. elems[i] = (elems \o s)[i]
        BY <2>5, <3>2
      <4> QED BY <2>6, <4>1, <4>2, <4>3 DEF VectorInv
    <3>3. CASE ~ (i <= length)
      BY <1>1, <2>4, <2>5, <3>1, <3>3
    <3> QED BY <3>2, <3>3
  <2> QED BY <2>1, <2>2, <2>4, <2>5, <2>6 DEF VectorInv
<1> QED BY <1>4, <1>5

\* A vector begins empty.
LEMMA VectorInitInv ==
  ASSUME V!Init
  PROVE  VectorInv
  BY DEF V!Init, VectorInv

\* Every operation of vector.c keeps the invariant.
LEMMA VectorStepInv ==
  ASSUME VectorInv, VectorAssumption, V!Next
  PROVE  VectorInv'
<1>1. ASSUME NEW n \in 0..MaxElems, V!VectorResize(n) PROVE VectorInv'
  BY <1>1, VectorResizeStep
<1>2. ASSUME NEW n \in 0..MaxElems, V!VectorPop(n) PROVE VectorInv'
  BY <1>2, VectorPopStep
<1>3. ASSUME NEW s \in UNION {[1..k -> Elems] : k \in 1..2}, V!VectorPush(s) PROVE VectorInv'
  <2>1. PICK k \in 1..2 : s \in [1..k -> Elems]
    OBVIOUS
  <2>2. s \in Seq(Elems)
    BY <2>1
  <2> QED BY <1>3, <2>2, VectorPushStep
<1>4. CASE V!VectorClear
  BY <1>4 DEF V!VectorClear, VectorInv
<1> QED BY <1>1, <1>2, <1>3, <1>4 DEF V!Next

\* A vector that is as VectorInv says holds its elements.
LEMMA VectorInvHolds ==
  ASSUME VectorInv
  PROVE  V!VectorHolds
<1>1. DOMAIN elems = 1..Len(elems)
  BY DEF VectorInv
<1> QED BY <1>1 DEF VectorInv, V!VectorHolds

-----------------------------------------------------------------------------
(* Loops whose rounds are numbered, and strbuf.c *)

\* f[k] is the state of a loop after k rounds, in U[k].
IsStagedLoop(f, a, rnd, n, U) ==
  /\ f = [k \in 0..n |-> IF k = 0 THEN a ELSE rnd[<<k, f[k - 1]>>]]
  /\ \A k \in 0..n : f[k] \in U[k]

\* As Iteration, for rounds that depend on their number, and whose outcomes may.
LEMMA StagedLoop ==
  ASSUME NEW n \in Nat, NEW U, NEW a \in U[0], NEW rnd,
         \A k \in 1..n : \A u \in U[k - 1] : rnd[<<k, u>>] \in U[k]
  PROVE  \E f : IsStagedLoop(f, a, rnd, n, U)
<1> DEFINE IsSome(f, m) == /\ f = [k \in 0..m |-> IF k = 0 THEN a ELSE rnd[<<k, f[k - 1]>>]]
                           /\ \A k \in 0..m : f[k] \in U[k]
           A == {m \in Nat : m <= n => \E f : IsSome(f, m)}
<1>1. A \subseteq Nat
  OBVIOUS
<1>2. 0 \in A
  <2> DEFINE f == [k \in 0..0 |-> a]
  <2>1. IsSome(f, 0)
    OBVIOUS
  <2> HIDE DEF IsSome, f
  <2> QED BY <2>1
<1>3. ASSUME NEW m \in A PROVE m + 1 \in A
  <2> SUFFICES ASSUME m + 1 <= n PROVE \E f : IsSome(f, m + 1)
    OBVIOUS
  <2>1. m \in Nat
    OBVIOUS
  <2>2. PICK f : IsSome(f, m)
    BY <2>1
  <2> HIDE DEF A
  <2> DEFINE g == [k \in 0..(m + 1) |-> IF k = m + 1 THEN rnd[<<k, f[m]>>] ELSE f[k]]
  <2>3. ASSUME NEW k \in 0..(m + 1)
        PROVE  g[k] = (IF k = 0 THEN a ELSE rnd[<<k, g[k - 1]>>]) /\ g[k] \in U[k]
    <3>1. CASE k = 0
      BY <3>1, <2>1, <2>2
    <3>2. CASE k \in 1..m
      <4>1. k \in 0..m /\ k - 1 \in 0..m /\ k # 0 /\ k # m + 1 /\ k - 1 \in 0..(m + 1) /\ k - 1 # m + 1
        BY <3>2, <2>1
      <4>2. f[k] = rnd[<<k, f[k - 1]>>] /\ f[k] \in U[k]
        BY <4>1, <2>2
      <4>3. g[k] = f[k] /\ g[k - 1] = f[k - 1]
        BY <4>1
      <4> QED BY <4>1, <4>2, <4>3
    <3>3. CASE k = m + 1
      <4>1. m \in 0..m /\ k - 1 = m /\ m \in 0..(m + 1) /\ m # m + 1 /\ k # 0 /\ k \in 1..n
        BY <3>3, <2>1
      <4>2. g[k] = rnd[<<k, f[m]>>] /\ g[m] = f[m] /\ f[m] \in U[m]
        BY <4>1, <3>3, <2>2
      <4> QED BY <4>1, <4>2
    <3> QED BY <3>1, <3>2, <3>3, <2>1
  <2>4. g = [k \in 0..(m + 1) |-> IF k = 0 THEN a ELSE rnd[<<k, g[k - 1]>>]]
    <3> DEFINE w == [k \in 0..(m + 1) |-> IF k = 0 THEN a ELSE rnd[<<k, g[k - 1]>>]]
    <3>1. \A k \in 0..(m + 1) : g[k] = w[k]
      BY <2>3
    <3> QED BY <3>1
  <2> HIDE DEF g
  <2>5. IsSome(g, m + 1)
    BY <2>3, <2>4
  <2> HIDE DEF IsSome
  <2> QED BY <2>5
<1> HIDE DEF A
<1>4. n \in A
  BY <1>1, <1>2, <1>3, Induction
<1> QED BY <1>4 DEF A, IsStagedLoop

\* f[k] is the state of a loop after k rounds, in U.
IsLoop(f, a, rnd, n, U) ==
  /\ f = [k \in 0..n |-> IF k = 0 THEN a ELSE rnd[<<k, f[k - 1]>>]]
  /\ \A k \in 0..n : f[k] \in U

\* A loop with the same states in every round exists.
LEMMA Loop ==
  ASSUME NEW U, NEW a \in U, NEW n \in Nat, NEW rnd, \A k \in 1..n, u \in U : rnd[<<k, u>>] \in U
  PROVE  \E f : IsLoop(f, a, rnd, n, U)
<1> DEFINE UU == [k \in 0..n |-> U]
<1>1. \A k \in 0..n : UU[k] = U
  OBVIOUS
<1> HIDE DEF UU
<1>2. a \in UU[0]
  BY <1>1
<1>3. \A k \in 1..n : \A u \in UU[k - 1] : rnd[<<k, u>>] \in UU[k]
  <2>1. \A k \in 1..n : UU[k - 1] = U /\ UU[k] = U
    BY <1>1
  <2> QED BY <2>1
<1>4. PICK f : IsStagedLoop(f, a, rnd, n, UU)
  BY <1>2, <1>3, StagedLoop
<1>5. IsLoop(f, a, rnd, n, U)
  BY <1>1, <1>4 DEF IsLoop, IsStagedLoop
<1> QED BY <1>5

\* What holds before a loop, and after each of its rounds if before, holds
\* throughout.
LEMMA LoopInvariant ==
  ASSUME NEW U, NEW n \in Nat, NEW h, h[0] \in U, \A k \in 1..n : h[k - 1] \in U => h[k] \in U
  PROVE  \A k \in 0..n : h[k] \in U
<1> DEFINE A == {k \in Nat : k <= n => h[k] \in U}
<1>1. A \subseteq Nat /\ 0 \in A
  OBVIOUS
<1>2. ASSUME NEW k \in A PROVE k + 1 \in A
  <2>1. k \in Nat /\ (k <= n => h[k] \in U)
    OBVIOUS
  <2>2. ASSUME k + 1 <= n PROVE h[k + 1] \in U
    <3>1. k + 1 \in 1..n /\ k + 1 - 1 = k /\ k <= n
      BY <2>1, <2>2
    <3> QED BY <2>1, <3>1
  <2> QED BY <2>1, <2>2
<1> HIDE DEF A
<1>3. A = Nat
  BY <1>1, <1>2, Induction
<1> QED BY <1>3 DEF A

-----------------------------------------------------------------------------
\* A string buffer has memory for its text and a terminator, or none at all.
BufOk(b) ==
  /\ b \in [text : Seq(Int), length : Nat, failed : BOOLEAN]
  /\ b.text # <<>> => b.length < Len(b.text)
  /\ b.text = <<>> => b.length = 0

\* What strbuf_capacity_hint() may do to buffer b.
Hinted(r, b, n) ==
  /\ BufOk(r.b) /\ r.b.length = b.length /\ r.ok \in BOOLEAN
  /\ r.ok /\ n >= b.length => n < Len(r.b.text)
  /\ ~ r.ok => r.b = b
  /\ \A i \in 1..(b.length + 1) : i <= Len(b.text) => r.b.text[i] = b.text[i]
  /\ b.text # <<>> => r.b.text # <<>>

\* strbuf_capacity_hint() does what Hinted says.
LEMMA HintKeeps ==
  ASSUME TextAssumption, NEW b, BufOk(b), NEW n \in Nat, NEW r \in T!CapacityHint(b, n)
  PROVE  Hinted(r, b, n)
<1> DEFINE cap == T!NewCap(n)
           t == T!Realloc(b.text, cap)
           c == [b EXCEPT !.text = t]
<1>1. cap \in Nat /\ cap > n
  <2>1. cap = Doubled(MinCap, n + 1)
    BY DEF T!NewCap, T!Doubled, Doubled
  <2>2. n + 1 \in Nat
    OBVIOUS
  <2>3. cap \in Nat /\ cap >= n + 1
    BY <2>1, <2>2, DoubledEnough DEF TextAssumption
  <2> HIDE DEF cap
  <2> QED BY <2>3
<1> HIDE DEF cap
<1>2. /\ b \in [text : Seq(Int), length : Nat, failed : BOOLEAN]
      /\ b.text # <<>> => b.length < Len(b.text)
      /\ b.text = <<>> => b.length = 0
      /\ b.text \in Seq(Int) /\ Len(b.text) \in Nat
  BY DEF BufOk
<1>3. t \in Seq(Int) /\ Len(t) = cap /\ \A i \in 1..cap : i <= Len(b.text) => t[i] = b.text[i]
  <2>1. t = [i \in 1..cap |-> IF i <= Len(b.text) THEN b.text[i] ELSE -1]
    BY DEF T!Realloc, T!Junk
  <2>2. \A i \in 1..cap : t[i] \in Int
    BY <1>1, <1>2, <2>1
  <2> HIDE DEF t
  <2> QED BY <1>1, <2>1, <2>2
<1> HIDE DEF t
<1>4. \/ r = [b |-> b, ok |-> TRUE] /\ (n < b.length \/ cap = Len(b.text))
      \/ r = [b |-> c, ok |-> TRUE] /\ ~ (n < b.length)
      \/ r = [b |-> b, ok |-> FALSE]
  BY DEF T!CapacityHint, T!Outcome, cap, t
<1>5. CASE r = [b |-> b, ok |-> TRUE] /\ (n < b.length \/ cap = Len(b.text))
  BY <1>1, <1>2, <1>5 DEF Hinted, BufOk
<1>6. CASE r = [b |-> c, ok |-> TRUE] /\ ~ (n < b.length)
  <2>1. c.text = t /\ c.length = b.length /\ c \in [text : Seq(Int), length : Nat, failed : BOOLEAN]
    BY <1>2, <1>3
  <2>2. r.b = c /\ r.ok = TRUE /\ n >= b.length
    BY <1>2, <1>6
  <2> HIDE DEF c
  <2>3. t # <<>> /\ Len(t) = cap
    BY <1>1, <1>3
  <2>4. BufOk(c) /\ n < Len(c.text)
    BY <1>1, <1>2, <2>1, <2>2, <2>3 DEF BufOk
  <2>5. ASSUME NEW i \in 1..(b.length + 1), i <= Len(b.text) PROVE c.text[i] = b.text[i]
    BY <1>1, <1>2, <1>3, <2>1, <2>2, <2>5
  <2> QED BY <2>1, <2>2, <2>3, <2>4, <2>5 DEF Hinted
<1>7. CASE r = [b |-> b, ok |-> FALSE]
  BY <1>2, <1>7 DEF Hinted, BufOk
<1> QED BY <1>4, <1>5, <1>6, <1>7

\* What it is to write s behind the text of b.
IsPut(c, b, s) ==
  /\ c \in [text : Seq(Int), length : Nat, failed : BOOLEAN] /\ Len(c.text) = Len(b.text)
  /\ c.length = b.length
  /\ \A i \in 1..b.length : c.text[i] = b.text[i]
  /\ \A i \in 1..Len(s) : c.text[b.length + i] = s[i]
  /\ c.text[b.length + Len(s) + 1] = 0

\* What writing behind the text changes.
LEMMA PutWrites ==
  ASSUME NEW b, BufOk(b), NEW s \in Seq(Int), b.length + Len(s) < Len(b.text)
  PROVE  IsPut(T!Put(b, s), b, s)
<1> DEFINE n == b.length
           m == Len(b.text)
           t == [i \in 1..m |->
                  IF i \in (n + 1)..(n + Len(s)) THEN s[i - n]
                  ELSE IF i = n + Len(s) + 1 THEN 0 ELSE b.text[i]]
<1>1. /\ b \in [text : Seq(Int), length : Nat, failed : BOOLEAN]
      /\ b.text \in Seq(Int) /\ m \in Nat /\ n \in Nat /\ DOMAIN b.text = 1..m /\ Len(s) \in Nat
      /\ n + Len(s) < m
  BY DEF BufOk
<1>2. T!Put(b, s) = [b EXCEPT !.text = t]
  BY <1>1 DEF T!Put
<1> HIDE DEF n, m
<1>3. \A i \in 1..m : t[i] \in Int
  BY <1>1 DEF m
<1>4. t \in Seq(Int) /\ Len(t) = m
      /\ \A i \in 1..m : t[i] = IF i \in (n + 1)..(n + Len(s)) THEN s[i - n]
                                ELSE IF i = n + Len(s) + 1 THEN 0 ELSE b.text[i]
  BY <1>1, <1>3
<1> HIDE DEF t
<1>5. /\ T!Put(b, s).text = t /\ T!Put(b, s).length = n
      /\ T!Put(b, s) \in [text : Seq(Int), length : Nat, failed : BOOLEAN]
  BY <1>1, <1>2, <1>4 DEF n
<1>6. \A i \in 1..n : t[i] = b.text[i]
  BY SMTT(30), <1>1, <1>4
<1>7. ASSUME NEW i \in 1..Len(s) PROVE t[n + i] = s[i]
  <2>1. n + i \in 1..m /\ n + i \in (n + 1)..(n + Len(s)) /\ (n + i) - n = i
    BY <1>1
  <2> QED BY <1>4, <2>1
<1>8. t[n + Len(s) + 1] = 0
  BY <1>1, <1>4
<1> QED BY <1>1, <1>4, <1>5, <1>6, <1>7, <1>8 DEF IsPut, n, m

\* The buffer of c is that of b with s added.
IsGrown(c, b, s) ==
  /\ BufOk(c) /\ c.text # <<>> /\ c.length = b.length + Len(s)
  /\ \A i \in 1..b.length : c.text[i] = b.text[i]
  /\ \A i \in 1..Len(s) : c.text[b.length + i] = s[i]
  /\ c.text[c.length + 1] = 0

\* Text that fits is added.
LEMMA GrownGrows ==
  ASSUME NEW b, BufOk(b), NEW s \in Seq(Int), b.length + Len(s) < Len(b.text)
  PROVE  IsGrown(T!Grown(b, s), b, s)
<1> DEFINE c == T!Put(b, s)
<1>1. IsPut(c, b, s)
  BY PutWrites
<1>2. T!Grown(b, s) = [c EXCEPT !.length = @ + Len(s)]
  BY DEF T!Grown
<1> HIDE DEF c
<1>3. b.length \in Nat /\ Len(s) \in Nat /\ Len(b.text) \in Nat
  BY DEF BufOk
<1>4. /\ T!Grown(b, s).text = c.text /\ T!Grown(b, s).length = b.length + Len(s)
      /\ T!Grown(b, s) \in [text : Seq(Int), length : Nat, failed : BOOLEAN]
  <2>1. c \in [text : Seq(Int), length : Nat, failed : BOOLEAN] /\ c.length = b.length
    BY <1>1 DEF IsPut
  <2>2. T!Grown(b, s) = [text |-> c.text, length |-> b.length + Len(s), failed |-> c.failed]
    BY <1>2, <2>1
  <2> QED BY <1>3, <2>1, <2>2
<1>5. c.text # <<>> /\ b.length + Len(s) < Len(c.text)
  BY <1>1, <1>3 DEF IsPut
<1> QED BY <1>1, <1>4, <1>5 DEF IsGrown, IsPut, BufOk

\* strbuf_add_string() adds all of s, or nothing.
LEMMA AddStringAdds ==
  ASSUME TextAssumption, NEW b, BufOk(b), NEW s \in Seq(Int), NEW r \in T!AddString(b, s)
  PROVE  r.ok \in BOOLEAN /\ (r.ok => IsGrown(r.b, b, s)) /\ (~ r.ok => r.b = b)
<1> DEFINE n == b.length + Len(s)
<1>1. b.length \in Nat /\ Len(s) \in Nat /\ n \in Nat /\ n >= b.length
  BY DEF BufOk
<1>2. PICK q \in T!CapacityHint(b, n) : r = IF q.ok THEN T!Outcome(T!Grown(q.b, s), TRUE) ELSE q
  BY DEF T!AddString, T!RoomFor
<1>3. Hinted(q, b, n)
  BY <1>1, HintKeeps
<1>4. CASE ~ q.ok
  BY <1>2, <1>3, <1>4 DEF Hinted
<1>5. CASE q.ok
  <2>1. BufOk(q.b) /\ q.b.length = b.length /\ q.b.length + Len(s) < Len(q.b.text)
    BY <1>1, <1>3, <1>5 DEF Hinted
  <2>2. IsGrown(T!Grown(q.b, s), q.b, s)
    BY <2>1, GrownGrows
  <2>3. r.b = T!Grown(q.b, s) /\ r.ok = TRUE
    BY <1>2, <1>5 DEF T!Outcome
  <2>4. \A i \in 1..b.length : q.b.text[i] = b.text[i]
    <3> SUFFICES ASSUME NEW i \in 1..b.length PROVE q.b.text[i] = b.text[i]
      OBVIOUS
    <3>1. i \in 1..(b.length + 1) /\ i <= Len(b.text)
      BY <1>1 DEF BufOk
    <3> QED BY <1>3, <3>1 DEF Hinted
  <2> QED BY <2>1, <2>2, <2>3, <2>4 DEF IsGrown
<1> QED BY <1>4, <1>5

-----------------------------------------------------------------------------
\* A buffer of strbuf_vprintf(): what it wrote so far is behind the text of b.
Tries(c, b) ==
  BufOk(c) /\ c.text # <<>> /\ c.length = b.length /\ \A i \in 1..b.length : c.text[i] = b.text[i]

\* Asking for more room after an attempt that did not fit loses no text.
LEMMA MoreRoomKeeps ==
  ASSUME TextAssumption, NEW b, BufOk(b), NEW s \in Seq(Int), NEW c, Tries(c, b), ~ T!Fits(c, s),
         NEW r \in T!MoreRoom(c, s)
  PROVE  Tries(r.b, b) /\ r.ok \in BOOLEAN
<1> DEFINE room == Len(c.text) - c.length
           p == SubSeq(s, 1, room - 1)
           d == T!Put(c, p)
<1>1. c.length \in Nat /\ Len(c.text) \in Nat /\ Len(s) \in Nat /\ c.length < Len(c.text)
  BY DEF Tries, BufOk
<1>2. room \in Nat /\ room >= 1 /\ room - 1 <= Len(s) /\ c.length + room = Len(c.text) /\ room - 1 \in Nat
  BY <1>1 DEF T!Fits
<1> HIDE DEF room
<1>3. p \in Seq(Int) /\ Len(p) = room - 1
  <2>1. \A i \in 1..(room - 1) : s[i] \in Int
    BY <1>1, <1>2
  <2> QED BY <1>1, <1>2, <2>1
<1>4. IsPut(d, c, p)
  <2>1. c.length + Len(p) < Len(c.text)
    BY <1>1, <1>2, <1>3
  <2> QED BY <1>3, <2>1, PutWrites DEF Tries
<1>5. r \in T!CapacityHint(d, Len(c.text) + 1)
  BY DEF T!MoreRoom, room
<1> HIDE DEF p, d
<1>6. BufOk(d) /\ d.text # <<>> /\ d.length = c.length /\ Len(d.text) = Len(c.text)
  BY <1>1, <1>4 DEF IsPut, BufOk
<1>7. Hinted(r, d, Len(c.text) + 1)
  BY <1>1, <1>5, <1>6, HintKeeps
<1>8. \A i \in 1..b.length : r.b.text[i] = b.text[i]
  <2> SUFFICES ASSUME NEW i \in 1..b.length PROVE r.b.text[i] = b.text[i]
    OBVIOUS
  <2>1. c.length = b.length /\ c.text[i] = b.text[i]
    BY DEF Tries
  <2>2. i \in 1..(d.length + 1) /\ i <= Len(d.text) /\ i \in 1..c.length
    BY <1>1, <1>6, <2>1
  <2>3. d.text[i] = c.text[i]
    BY <1>4, <2>2 DEF IsPut
  <2> QED BY <1>7, <2>1, <2>2, <2>3 DEF Hinted
<1> QED BY <1>6, <1>7, <1>8 DEF Tries, Hinted

\* The attempts of strbuf_vprintf() add all of the text or none of it.
LEMMA AttemptKeeps ==
  ASSUME TextAssumption, NEW b, BufOk(b), b.text # <<>>, NEW s \in Seq(Int), NEW r \in T!Attempt(b, s)
  PROVE  /\ r.ok \in BOOLEAN
         /\ r.ok => IsGrown(r.b, b, s)
         /\ ~ r.ok => Tries(r.b, b)
<1> DEFINE Buf == [text : Seq(Int), length : Nat, failed : BOOLEAN]
           U == SUBSET {c \in Buf : Tries(c, b)}
           n == Len(s) + 1
           Round(X) == UNION {{q.b : q \in {w \in T!MoreRoom(c, s) : w.ok}}
                                : c \in {d \in X : ~ T!Fits(d, s)}}
           rnd == [ku \in (1..n) \X U |-> Round(ku[2])]
           h == CHOOSE f : f = [k \in 0..n |-> IF k = 0 THEN {b} ELSE Round(f[k - 1])]
<1>1. n \in Nat
  OBVIOUS
<1>2. \A c : Tries(c, b) => c \in Buf
  BY DEF Tries, BufOk
<1>3. Tries(b, b)
  BY DEF Tries
<1>4. {b} \in U
  BY <1>2, <1>3
<1>5. \A X \in U : \A c \in X : Tries(c, b)
  OBVIOUS
<1>6. ASSUME NEW X \in U PROVE Round(X) \in U
  <2> SUFFICES ASSUME NEW y \in Round(X) PROVE y \in Buf /\ Tries(y, b)
    OBVIOUS
  <2>1. PICK c \in X : ~ T!Fits(c, s) /\ \E q \in T!MoreRoom(c, s) : y = q.b
    OBVIOUS
  <2>2. Tries(c, b)
    BY <1>5
  <2> QED BY <1>2, <2>1, <2>2, MoreRoomKeeps
<1> HIDE DEF Buf, U, n, Round
<1>7. \A k \in 1..n, u \in U : rnd[<<k, u>>] = Round(u) /\ rnd[<<k, u>>] \in U
  BY <1>6
<1> HIDE DEF rnd
<1>8. PICK g : IsLoop(g, {b}, rnd, n, U)
  BY <1>1, <1>4, <1>7, Loop
<1>9. g = [k \in 0..n |-> IF k = 0 THEN {b} ELSE Round(g[k - 1])]
  <2>1. \A k \in 0..n : k # 0 => k - 1 \in 0..n /\ k \in 1..n
    BY <1>1
  <2> QED BY <1>7, <1>8, <2>1 DEF IsLoop
<1>10. h = [k \in 0..n |-> IF k = 0 THEN {b} ELSE Round(h[k - 1])]
  BY <1>9
<1> DEFINE bufs == UNION {h[k] : k \in 0..n}
<1>11. \/ \E c \in bufs : T!Fits(c, s) /\ r = T!Outcome(T!Grown(c, s), TRUE)
       \/ \E c \in bufs : /\ ~ T!Fits(c, s)
                          /\ \E q \in T!MoreRoom(c, s) : r = T!Outcome([q.b EXCEPT !.failed = TRUE], FALSE)
  BY DEF T!Attempt, Round, n
<1> HIDE DEF h
<1>12. \A k \in 0..n : h[k] \in U
  <2>1. h[0] \in U /\ \A k \in 1..n : h[k - 1] \in U => h[k] \in U
    BY <1>1, <1>4, <1>6, <1>10
  <2> QED BY <1>1, <2>1, LoopInvariant
<1>13. \A c \in bufs : Tries(c, b)
  BY <1>5, <1>12
<1> HIDE DEF bufs
<1>14. ASSUME NEW c \in bufs, T!Fits(c, s), r = T!Outcome(T!Grown(c, s), TRUE)
       PROVE  r.ok = TRUE /\ IsGrown(r.b, b, s)
  <2>1. BufOk(c) /\ c.length = b.length /\ \A i \in 1..b.length : c.text[i] = b.text[i]
    BY <1>13 DEF Tries
  <2>2. c.length + Len(s) < Len(c.text)
    BY <1>14, <2>1 DEF T!Fits, BufOk
  <2>3. IsGrown(T!Grown(c, s), c, s)
    BY <2>1, <2>2, GrownGrows
  <2>4. r.b = T!Grown(c, s) /\ r.ok = TRUE
    BY <1>14 DEF T!Outcome
  <2> QED BY <2>1, <2>3, <2>4 DEF IsGrown
<1>15. ASSUME NEW c \in bufs, ~ T!Fits(c, s), NEW q \in T!MoreRoom(c, s),
              r = T!Outcome([q.b EXCEPT !.failed = TRUE], FALSE)
       PROVE  r.ok = FALSE /\ Tries(r.b, b)
  <2>1. Tries(q.b, b)
    BY <1>13, <1>15, MoreRoomKeeps
  <2>2. r.b = [q.b EXCEPT !.failed = TRUE] /\ r.ok = FALSE
    BY <1>15 DEF T!Outcome
  <2>3. /\ r.b \in [text : Seq(Int), length : Nat, failed : BOOLEAN]
        /\ r.b.text = q.b.text /\ r.b.length = q.b.length
    BY <2>1, <2>2 DEF Tries, BufOk
  <2> QED BY <2>1, <2>2, <2>3 DEF Tries, BufOk
<1> QED BY <1>11, <1>14, <1>15

\* The buffer c is b with its length set to n.
IsCut(c, b, n) ==
  /\ BufOk(c) /\ c.text # <<>> /\ c.length = n
  /\ \A i \in 1..n : i <= b.length => c.text[i] = b.text[i]
  /\ c.text[n + 1] = 0

\* What cutting the text leaves.
LEMMA CutCuts ==
  ASSUME NEW b, BufOk(b), NEW n \in Nat, n < Len(b.text)
  PROVE  IsCut(T!Cut(b, n), b, n)
<1> DEFINE t == [b.text EXCEPT ![n + 1] = 0]
<1>1. b \in [text : Seq(Int), length : Nat, failed : BOOLEAN] /\ b.text \in Seq(Int) /\ Len(b.text) \in Nat
      /\ n + 1 \in 1..Len(b.text)
  BY DEF BufOk
<1>2. t \in Seq(Int) /\ Len(t) = Len(b.text) /\ t[n + 1] = 0 /\ \A i \in 1..n : t[i] = b.text[i]
  BY <1>1
<1>3. T!Cut(b, n) = [text |-> t, length |-> n, failed |-> b.failed]
  <2>1. T!Cut(b, n) = [b EXCEPT !.length = n, !.text = t]
    BY <1>1 DEF T!Cut
  <2> HIDE DEF t
  <2> QED BY <1>1, <2>1
<1> HIDE DEF t
<1>4. t # <<>>
  BY <1>1, <1>2
<1> QED BY <1>1, <1>2, <1>3, <1>4 DEF IsCut, BufOk

\* strbuf_resize() cuts, or fails and changes nothing.
LEMMA ResizeCuts ==
  ASSUME TextAssumption, NEW b, BufOk(b), NEW n \in Nat, NEW r \in T!Resize(b, n)
  PROVE  /\ r.ok \in BOOLEAN
         /\ r.ok => IsCut(r.b, b, n)
         /\ ~ r.ok => BufOk(r.b) /\ r.b.text = b.text /\ r.b.length = b.length
<1> DEFINE room == IF n + 1 > Len(b.text) THEN T!CapacityHint(b, n) ELSE {T!Outcome(b, TRUE)}
           slim(c) == IF (n + 1) * 4 < Len(c.text) THEN {q.b : q \in T!CapacityHint(c, n + 1)} ELSE {c}
<1>1. b.length \in Nat /\ Len(b.text) \in Nat
  BY DEF BufOk
<1>2. PICK q \in room : r \in IF q.ok THEN {T!Outcome(c, TRUE) : c \in slim(T!Cut(q.b, n))}
                              ELSE {T!Outcome([b EXCEPT !.failed = TRUE], FALSE)}
  BY DEF T!Resize
<1> HIDE DEF slim
<1>3. CASE ~ q.ok
  <2>1. r = T!Outcome([b EXCEPT !.failed = TRUE], FALSE)
    BY <1>2, <1>3
  <2>2. r.ok = FALSE /\ r.b = [text |-> b.text, length |-> b.length, failed |-> TRUE]
    BY <2>1 DEF T!Outcome, BufOk
  <2>3. /\ r.b.text = b.text /\ r.b.length = b.length
        /\ r.b \in [text : Seq(Int), length : Nat, failed : BOOLEAN]
    BY <2>2 DEF BufOk
  <2> QED BY <2>2, <2>3 DEF BufOk
<1>4. CASE q.ok
  <2>1. /\ BufOk(q.b) /\ n < Len(q.b.text)
        /\ \A i \in 1..b.length : q.b.text[i] = b.text[i] /\ q.b.length = b.length
    <3>1. CASE n + 1 > Len(b.text)
      <4>1. q \in T!CapacityHint(b, n)
        BY <3>1
      <4>2. Hinted(q, b, n)
        BY <4>1, HintKeeps
      <4>3. n >= b.length
        BY <1>1, <3>1 DEF BufOk
      <4>4. \A i \in 1..b.length : i \in 1..(b.length + 1) /\ i <= Len(b.text)
        BY <1>1 DEF BufOk
      <4> QED BY <1>4, <4>2, <4>3, <4>4 DEF Hinted
    <3>2. CASE ~ (n + 1 > Len(b.text))
      <4>1. q.b = b
        BY <3>2 DEF T!Outcome
      <4> QED BY <1>1, <3>2, <4>1
    <3> QED BY <3>1, <3>2
  <2> DEFINE c == T!Cut(q.b, n)
  <2>2. IsCut(c, q.b, n)
    BY <2>1, CutCuts
  <2>3. PICK d \in slim(c) : r = T!Outcome(d, TRUE)
    BY <1>2, <1>4
  <2> HIDE DEF c
  <2>4. IsCut(d, q.b, n)
    <3>1. CASE (n + 1) * 4 < Len(c.text)
      <4>1. PICK w \in T!CapacityHint(c, n + 1) : d = w.b
        BY <3>1 DEF slim
      <4>2. n + 1 \in Nat /\ BufOk(c) /\ c.length = n /\ c.text # <<>> /\ n < Len(c.text) /\ Len(c.text) \in Nat
        BY <2>2 DEF IsCut, BufOk
      <4>3. Hinted(w, c, n + 1)
        BY <4>1, <4>2, HintKeeps
      <4>4. \A i \in 1..(n + 1) : d.text[i] = c.text[i]
        BY <4>1, <4>2, <4>3 DEF Hinted
      <4>5. n + 1 \in 1..(n + 1) /\ \A i \in 1..n : i \in 1..(n + 1)
        OBVIOUS
      <4> QED BY <2>2, <4>1, <4>2, <4>3, <4>4, <4>5 DEF IsCut, Hinted
    <3>2. CASE ~ ((n + 1) * 4 < Len(c.text))
      BY <2>2, <2>3, <3>2 DEF slim
    <3> QED BY <3>1, <3>2
  <2>5. r.ok = TRUE /\ r.b = d
    BY <2>3 DEF T!Outcome
  <2>6. \A i \in 1..n : i <= b.length => i \in 1..b.length
    BY <1>1
  <2>7. q.b.length = b.length \/ 1..b.length = {}
    BY <2>1
  <2>8. \A i \in 1..n : i <= b.length => d.text[i] = b.text[i]
    <3> SUFFICES ASSUME NEW i \in 1..n, i <= b.length PROVE d.text[i] = b.text[i]
      OBVIOUS
    <3>1. i \in 1..b.length
      BY <2>6
    <3>2. q.b.text[i] = b.text[i] /\ i <= q.b.length
      BY <2>1, <3>1
    <3> QED BY <2>4, <3>2 DEF IsCut
  <2> QED BY <2>4, <2>5, <2>8 DEF IsCut
<1> QED BY <1>3, <1>4

-----------------------------------------------------------------------------
\* The buffer has the text str, as far as it is known, and a terminator.
StrbufInv ==
  /\ BufOk(buf) /\ torn \in BOOLEAN
  /\ str \in Seq(Int) /\ buf.length = Len(str)
  /\ \A i \in 1..Len(str) : str[i] # T!Junk => buf.text[i] = str[i]
  /\ buf.text # <<>> /\ ~ torn => buf.text[buf.length + 1] = 0

\* A buffer that keeps the text of buf keeps what it should hold.
LEMMA StrKept ==
  ASSUME StrbufInv, buf' \in {b \in [text : Seq(Int), length : Nat, failed : BOOLEAN] : BufOk(b)},
         buf'.length = buf.length, str' = str,
         \A i \in 1..buf.length : buf'.text[i] = buf.text[i],
         torn' \in BOOLEAN, buf'.text # <<>> /\ ~ torn' => buf'.text[buf'.length + 1] = 0
  PROVE  StrbufInv'
  BY DEF StrbufInv, BufOk

\* A buffer that grew by s holds s behind the rest.
LEMMA StrAdded ==
  ASSUME StrbufInv, NEW s \in Seq(Nat), IsGrown(buf', buf, s), str' = str \o s, torn' \in BOOLEAN
  PROVE  StrbufInv'
<1>1. Len(str) \in Nat /\ Len(s) \in Nat /\ buf.length = Len(str)
  BY DEF StrbufInv
<1>2. /\ str \o s \in Seq(Int) /\ Len(str \o s) = Len(str) + Len(s)
      /\ \A i \in 1..(Len(str) + Len(s)) : (str \o s)[i] = IF i <= Len(str) THEN str[i] ELSE s[i - Len(str)]
  <2>1. s \in Seq(Int)
    OBVIOUS
  <2> QED BY <1>1, <2>1 DEF StrbufInv
<1>3. ASSUME NEW i \in 1..(Len(str) + Len(s)), (str \o s)[i] # T!Junk PROVE buf'.text[i] = (str \o s)[i]
  <2>1. CASE i <= Len(str)
    <3>1. i \in 1..Len(str) /\ (str \o s)[i] = str[i]
      BY <1>1, <1>2, <2>1
    <3>2. buf'.text[i] = buf.text[i]
      BY <1>1, <3>1 DEF IsGrown
    <3> QED BY <1>3, <3>1, <3>2 DEF StrbufInv
  <2>2. CASE ~ (i <= Len(str))
    <3>1. i - Len(str) \in 1..Len(s) /\ Len(str) + (i - Len(str)) = i /\ (str \o s)[i] = s[i - Len(str)]
      BY <1>1, <1>2, <2>2
    <3> QED BY <1>1, <3>1 DEF IsGrown
  <2> QED BY <2>1, <2>2
<1> QED BY <1>1, <1>2, <1>3 DEF StrbufInv, IsGrown

\* strbuf_capacity_hint() keeps the invariant.
LEMMA DoHintStep ==
  ASSUME StrbufInv, TextAssumption, NEW n \in Nat, T!DoHint(n)
  PROVE  StrbufInv'
<1>1. PICK r \in T!CapacityHint(buf, n) :
         buf' = r.b /\ torn' = (torn \/ (buf.text = <<>> /\ r.b.text # <<>>))
  BY DEF T!DoHint
<1>2. Hinted(r, buf, n)
  BY HintKeeps DEF StrbufInv
<1>3. buf.length \in Nat /\ Len(buf.text) \in Nat /\ (buf.text # <<>> => buf.length < Len(buf.text))
  BY DEF StrbufInv, BufOk
<1>4. \A i \in 1..buf.length : r.b.text[i] = buf.text[i]
  <2>1. \A i \in 1..buf.length : i \in 1..(buf.length + 1) /\ i <= Len(buf.text)
    BY <1>3 DEF StrbufInv, BufOk
  <2> QED BY <1>2, <2>1 DEF Hinted
<1>5. torn' \in BOOLEAN /\ (~ torn' => ~ torn /\ (buf.text = <<>> => r.b.text = <<>>))
  BY <1>1 DEF StrbufInv
<1>6. ASSUME r.b.text # <<>>, ~ torn' PROVE r.b.text[r.b.length + 1] = 0
  <2>1. buf.text # <<>> /\ buf.text[buf.length + 1] = 0
    BY <1>5, <1>6 DEF StrbufInv
  <2>2. buf.length + 1 \in 1..(buf.length + 1) /\ buf.length + 1 <= Len(buf.text)
    BY <1>3, <2>1
  <2> QED BY <1>2, <2>1, <2>2 DEF Hinted
<1> QED BY <1>1, <1>2, <1>4, <1>5, <1>6, StrKept DEF T!DoHint, Hinted, BufOk

\* strbuf_add_string() keeps the invariant.
LEMMA DoAddStringStep ==
  ASSUME StrbufInv, TextAssumption, NEW s \in Strings, T!DoAddString(s)
  PROVE  StrbufInv'
<1>1. PICK r \in T!AddString(buf, s) :
         buf' = r.b /\ str' = (IF r.ok THEN str \o s ELSE str) /\ torn' = (torn /\ ~ r.ok)
  BY DEF T!DoAddString, T!Becomes
<1>2. s \in Seq(Nat) /\ s \in Seq(Int)
  BY DEF TextAssumption
<1>3. r.ok \in BOOLEAN /\ (r.ok => IsGrown(r.b, buf, s)) /\ (~ r.ok => r.b = buf)
  BY <1>2, AddStringAdds DEF StrbufInv
<1>4. CASE r.ok
  <2>1. torn' = FALSE
    BY <1>1, <1>4
  <2> QED BY <1>1, <1>2, <1>3, <1>4, <2>1, StrAdded
<1>5. CASE ~ r.ok
  <2>1. torn' = torn
    BY <1>1, <1>5 DEF StrbufInv
  <2> QED BY <1>1, <1>3, <1>5, <2>1 DEF StrbufInv
<1> QED BY <1>4, <1>5

\* strbuf_vprintf() keeps the invariant.
LEMMA DoVprintfStep ==
  ASSUME StrbufInv, TextAssumption, NEW s \in Strings, T!DoVprintf(s)
  PROVE  StrbufInv'
<1>1. PICK r \in T!Vprintf(buf, s) :
         buf' = r.b /\ str' = (IF r.ok THEN str \o s ELSE str) /\ torn' = (~ r.ok /\ (torn \/ r.b # buf))
  BY DEF T!DoVprintf, T!Becomes
<1>2. s \in Seq(Nat) /\ s \in Seq(Int)
  BY DEF TextAssumption
<1>3. PICK q \in T!CapacityHint(buf, 1) : r \in IF q.ok THEN T!Attempt(q.b, s) ELSE {q}
  BY DEF T!Vprintf
<1>4. Hinted(q, buf, 1)
  BY HintKeeps DEF StrbufInv
<1>5. buf.length \in Nat /\ Len(buf.text) \in Nat /\ (buf.text # <<>> => buf.length < Len(buf.text))
  BY DEF StrbufInv, BufOk
<1>6. \A i \in 1..buf.length : q.b.text[i] = buf.text[i]
  <2>1. \A i \in 1..buf.length : i \in 1..(buf.length + 1) /\ i <= Len(buf.text)
    BY <1>5 DEF StrbufInv, BufOk
  <2> QED BY <1>4, <2>1 DEF Hinted
<1>7. CASE ~ q.ok
  <2>1. r.b = buf /\ ~ r.ok
    BY <1>3, <1>4, <1>7 DEF Hinted
  <2>2. torn' = torn
    BY <1>1, <2>1 DEF StrbufInv
  <2> QED BY <1>1, <2>1, <2>2 DEF StrbufInv
<1>8. CASE q.ok
  <2>1. q.b.text # <<>>
    BY <1>4, <1>5, <1>8 DEF Hinted, StrbufInv, BufOk
  <2>2. r.ok \in BOOLEAN /\ (r.ok => IsGrown(r.b, q.b, s)) /\ (~ r.ok => Tries(r.b, q.b))
    BY <1>2, <1>3, <1>4, <1>8, <2>1, AttemptKeeps DEF Hinted
  <2>3. CASE r.ok
    <3>1. torn' = FALSE
      BY <1>1, <2>3
    <3>2. IsGrown(r.b, buf, s)
      BY <1>4, <1>6, <2>2, <2>3 DEF IsGrown, Hinted
    <3> QED BY <1>1, <1>2, <2>3, <3>1, <3>2, StrAdded
  <2>4. CASE ~ r.ok
    <3>1. BufOk(r.b) /\ r.b.length = buf.length /\ \A i \in 1..buf.length : r.b.text[i] = buf.text[i]
      BY <1>4, <1>6, <2>2, <2>4 DEF Tries, Hinted
    <3>2. torn' \in BOOLEAN /\ (~ torn' => ~ torn /\ r.b = buf)
      BY <1>1, <2>4 DEF StrbufInv
    <3>3. r.b.text # <<>> /\ ~ torn' => r.b.text[r.b.length + 1] = 0
      BY <3>2 DEF StrbufInv
    <3> QED BY <1>1, <2>4, <3>1, <3>2, <3>3, StrKept DEF BufOk
  <2> QED BY <2>3, <2>4
<1> QED BY <1>7, <1>8

\* strbuf_resize() keeps the invariant.
LEMMA DoResizeStep ==
  ASSUME StrbufInv, TextAssumption, NEW n \in Nat, T!DoResize(n)
  PROVE  StrbufInv'
<1> DEFINE s == [i \in 1..n |-> IF i <= Len(str) THEN str[i] ELSE T!Junk]
<1>1. PICK r \in T!Resize(buf, n) :
         buf' = r.b /\ str' = (IF r.ok THEN s ELSE str) /\ torn' = (torn /\ ~ r.ok)
  BY DEF T!DoResize, T!Becomes
<1>2. /\ r.ok \in BOOLEAN
      /\ r.ok => IsCut(r.b, buf, n)
      /\ ~ r.ok => BufOk(r.b) /\ r.b.text = buf.text /\ r.b.length = buf.length
  BY ResizeCuts DEF StrbufInv
<1>3. Len(str) \in Nat /\ buf.length = Len(str) /\ str \in Seq(Int)
  BY DEF StrbufInv
<1>4. /\ s \in Seq(Int) /\ Len(s) = n
      /\ \A i \in 1..n : s[i] = IF i <= Len(str) THEN str[i] ELSE T!Junk
  <2>1. T!Junk \in Int
    BY DEF T!Junk
  <2>2. \A i \in 1..n : s[i] \in Int
    BY <1>3, <2>1
  <2> QED BY <2>2
<1> HIDE DEF s
<1>5. CASE r.ok
  <2>1. torn' = FALSE
    BY <1>1, <1>5
  <2>2. ASSUME NEW i \in 1..n, s[i] # T!Junk PROVE r.b.text[i] = s[i]
    <3>1. i <= Len(str) /\ i \in 1..Len(str) /\ s[i] = str[i]
      BY <1>3, <1>4, <2>2
    <3> QED BY <1>2, <1>3, <1>5, <2>2, <3>1 DEF IsCut, StrbufInv
  <2> QED BY <1>1, <1>2, <1>4, <1>5, <2>1, <2>2 DEF IsCut, StrbufInv
<1>6. CASE ~ r.ok
  <2>1. torn' = torn
    BY <1>1, <1>6 DEF StrbufInv
  <2> QED BY <1>1, <1>2, <1>6, <2>1 DEF StrbufInv
<1> QED BY <1>5, <1>6

\* A buffer begins without memory.
LEMMA BlankOk == BufOk(T!Blank) /\ T!Blank.length = 0 /\ T!Blank.text = <<>>
  BY DEF T!Blank, BufOk

\* A buffer begins empty.
LEMMA StrbufInitInv ==
  ASSUME T!Init
  PROVE  StrbufInv
<1>1. buf = T!Blank /\ str = <<>> /\ torn = FALSE
  BY DEF T!Init
<1>2. str \in Seq(Int) /\ Len(str) = 0
  BY <1>1
<1> QED BY <1>1, <1>2, BlankOk DEF StrbufInv

\* Every operation of strbuf.c keeps the invariant.
LEMMA StrbufStepInv ==
  ASSUME StrbufInv, TextAssumption, MaxLength \in Nat, T!Next
  PROVE  StrbufInv'
<1>1. ASSUME NEW n \in 0..MaxLength, T!DoHint(n) PROVE StrbufInv'
  BY <1>1, DoHintStep
<1>2. ASSUME NEW n \in 0..MaxLength, T!DoResize(n) PROVE StrbufInv'
  BY <1>2, DoResizeStep
<1>3. ASSUME NEW s \in Strings, T!DoAddString(s) PROVE StrbufInv'
  BY <1>3, DoAddStringStep
<1>4. ASSUME NEW s \in Strings, T!DoVprintf(s) PROVE StrbufInv'
  BY <1>4, DoVprintfStep
<1>5. CASE T!DoClear
  <2>1. buf' = T!Blank /\ str' = <<>> /\ torn' = FALSE
    BY <1>5 DEF T!DoClear
  <2>2. str' \in Seq(Int) /\ Len(str') = 0
    BY <2>1
  <2> QED BY <2>1, <2>2, BlankOk DEF StrbufInv
<1> QED BY <1>1, <1>2, <1>3, <1>4, <1>5 DEF T!Next

\* A buffer that is as StrbufInv says holds its text, with its terminator.
LEMMA StrbufInvHolds ==
  ASSUME StrbufInv
  PROVE  T!StrbufHolds
<1>1. DOMAIN str = 1..Len(str)
  BY DEF StrbufInv
<1> QED BY <1>1 DEF StrbufInv, BufOk, T!StrbufHolds

-----------------------------------------------------------------------------
(* hash.c *)

\* Induction over the rounds of a loop.
LEMMA Rounds ==
  ASSUME NEW n \in Nat, NEW A, 0 \in A, \A k \in 1..n : k - 1 \in A => k \in A
  PROVE  \A k \in 0..n : k \in A
<1> DEFINE B == {k \in Nat : k <= n => k \in A}
<1>1. B \subseteq Nat /\ 0 \in B
  OBVIOUS
<1>2. ASSUME NEW k \in B PROVE k + 1 \in B
  <2>1. k \in Nat /\ (k <= n => k \in A)
    OBVIOUS
  <2>2. ASSUME k + 1 <= n PROVE k + 1 \in A
    <3>1. k + 1 \in 1..n /\ k + 1 - 1 = k /\ k <= n
      BY <2>1, <2>2
    <3> QED BY <2>1, <3>1
  <2> QED BY <2>1, <2>2
<1> HIDE DEF B
<1>3. B = Nat
  BY <1>1, <1>2, Induction
<1> QED BY <1>3 DEF B

\* The elements of a sequence with one put in front.
LEMMA PrependedElements ==
  ASSUME NEW X, NEW q \in Seq(X), NEW e \in X
  PROVE  /\ <<e>> \o q \in Seq(X)
         /\ \A x : Holds(<<e>> \o q, x) <=> x = e \/ Holds(q, x)
         /\ Different(q) /\ ~ Holds(q, e) => Different(<<e>> \o q)
<1> DEFINE r == <<e>> \o q
<1>1. Len(q) \in Nat /\ \A i \in 1..Len(q) : q[i] \in X
  OBVIOUS
<1>2. /\ r \in Seq(X) /\ Len(r) = Len(q) + 1
      /\ r[1] = e /\ \A i \in 2..(Len(q) + 1) : r[i] = q[i - 1]
  BY <1>1
<1> HIDE DEF r
<1>3. ASSUME NEW x PROVE Holds(r, x) <=> x = e \/ Holds(q, x)
  <2>1. ASSUME Holds(r, x) PROVE x = e \/ Holds(q, x)
    <3>1. PICK i \in 1..Len(r) : r[i] = x
      BY <2>1 DEF Holds
    <3>2. CASE i = 1
      BY <1>2, <3>1, <3>2
    <3>3. CASE i # 1
      <4>1. i \in 2..(Len(q) + 1) /\ i - 1 \in 1..Len(q)
        BY <1>1, <1>2, <3>1, <3>3
      <4> QED BY <1>2, <3>1, <4>1 DEF Holds
    <3> QED BY <3>2, <3>3
  <2>2. ASSUME x = e PROVE Holds(r, x)
    BY <1>1, <1>2, <2>2 DEF Holds
  <2>3. ASSUME Holds(q, x) PROVE Holds(r, x)
    <3>1. PICK i \in 1..Len(q) : q[i] = x
      BY <2>3 DEF Holds
    <3>2. i + 1 \in 2..(Len(q) + 1) /\ (i + 1) - 1 = i /\ i + 1 \in 1..Len(r)
      BY <1>1, <1>2, <3>1
    <3> QED BY <1>2, <3>1, <3>2 DEF Holds
  <2> QED BY <2>1, <2>2, <2>3
<1>4. ASSUME Different(q), ~ Holds(q, e) PROVE Different(r)
  <2>1. IsInserted(r, q, e, 1) /\ 1 \in 1..(Len(q) + 1)
    <3>1. ASSUME NEW j \in 1..Len(r)
          PROVE  r[j] = IF j < 1 THEN q[j] ELSE IF j = 1 THEN e ELSE q[j - 1]
      BY <1>1, <1>2
    <3> QED BY <1>1, <1>2, <3>1 DEF IsInserted
  <2> QED BY <1>2, <1>4, <2>1, InsertedElements
<1> QED BY <1>2, <1>3, <1>4 DEF r

-----------------------------------------------------------------------------
\* The tables of size n, and those that have the nodes of X, each once and where
\* its code says.
Tables(n) == [0..(n - 1) -> Seq(HashNodes)]

TableOk(t, n, X) ==
  /\ t \in Tables(n)
  /\ \A i \in 0..(n - 1) : Different(t[i]) /\ \A m : Holds(t[i], m) <=> m \in X /\ m.code % n = i

\* The slot of a node is one of the table.
LEMMA Index ==
  ASSUME HashAssumption, NEW m \in HashNodes, NEW n \in Nat \ {0}
  PROVE  m.code % n \in 0..(n - 1)
<1> DEFINE c == m.code
<1>1. c \in Nat
  BY DEF HashAssumption
<1> HIDE DEF c
<1>2. c % n \in 0..(n - 1)
  BY <1>1
<1> QED BY <1>2 DEF c

\* A node is put at the front of its chain.
LEMMA TableTyped ==
  ASSUME HashAssumption, NEW n \in Nat \ {0}, NEW t \in Tables(n), NEW m \in HashNodes
  PROVE  [t EXCEPT ![m.code % n] = <<m>> \o @] \in Tables(n)
<1> DEFINE i == m.code % n
<1>1. i \in 0..(n - 1)
  BY Index
<1> HIDE DEF i
<1>2. t[i] \in Seq(HashNodes)
  BY <1>1 DEF Tables
<1>3. <<m>> \o t[i] \in Seq(HashNodes)
  BY <1>2, PrependedElements
<1>4. [t EXCEPT ![i] = <<m>> \o @] \in Tables(n)
  BY <1>1, <1>3 DEF Tables
<1> QED BY <1>4 DEF i

\* A node put in front of the chain of its slot.
LEMMA TableWith ==
  ASSUME HashAssumption, NEW n \in Nat \ {0}, NEW X, NEW t, TableOk(t, n, X),
         NEW m \in HashNodes, m \notin X
  PROVE  TableOk([t EXCEPT ![m.code % n] = <<m>> \o @], n, X \cup {m})
<1> DEFINE i == m.code % n
           u == [t EXCEPT ![m.code % n] = <<m>> \o @]
<1>1. i \in 0..(n - 1)
  BY Index
<1>2. u \in Tables(n)
  BY TableTyped DEF TableOk
<1>3. u[i] = <<m>> \o t[i] /\ \A j \in 0..(n - 1) : j # i => u[j] = t[j]
  BY <1>1 DEF TableOk, Tables
<1>4. i = m.code % n
  OBVIOUS
<1> HIDE DEF i, u
<1>5. t[i] \in Seq(HashNodes) /\ Different(t[i]) /\ ~ Holds(t[i], m)
  BY <1>1 DEF TableOk, Tables
<1>6. Different(u[i]) /\ \A x : Holds(u[i], x) <=> x = m \/ Holds(t[i], x)
  BY <1>3, <1>5, PrependedElements
<1>7. ASSUME NEW j \in 0..(n - 1)
      PROVE  Different(u[j]) /\ \A x : Holds(u[j], x) <=> x \in X \cup {m} /\ x.code % n = j
  <2>1. Different(t[j]) /\ \A x : Holds(t[j], x) <=> x \in X /\ x.code % n = j
    BY DEF TableOk
  <2>2. CASE j = i
    BY <1>4, <1>6, <2>1, <2>2
  <2>3. CASE j # i
    BY <1>3, <1>4, <2>1, <2>3
  <2> QED BY <2>2, <2>3
<1>8. TableOk(u, n, X \cup {m})
  BY <1>2, <1>7 DEF TableOk
<1> QED BY <1>8 DEF u

\* The tables of the loop over a chain in hash_capacity_hint().
IsSpread(f, t, chain, n) ==
  /\ f[0] = t
  /\ \A k \in 1..Len(chain) : f[k] = [f[k - 1] EXCEPT ![chain[k].code % n] = <<chain[k]>> \o @]
  /\ f[Len(chain)] = H!Spread(t, chain, n)

\* Spreading a chain over a table gives a table.
LEMMA SpreadTyped ==
  ASSUME HashAssumption, NEW n \in Nat \ {0}, NEW t \in Tables(n), NEW chain \in Seq(HashNodes)
  PROVE  H!Spread(t, chain, n) \in Tables(n) /\ \E f : IsSpread(f, t, chain, n)
<1> DEFINE l == Len(chain)
           U == Tables(n)
           Round(u, k) == [u EXCEPT ![chain[k].code % n] = <<chain[k]>> \o @]
           rnd == [ku \in (1..l) \X U |-> Round(ku[2], ku[1])]
           h == CHOOSE f : f = [k \in 0..l |-> IF k = 0 THEN t ELSE Round(f[k - 1], k)]
<1>1. l \in Nat /\ \A k \in 1..l : chain[k] \in HashNodes
  OBVIOUS
<1>2. ASSUME NEW k \in 1..l, NEW u \in U PROVE Round(u, k) \in U
  BY <1>1, TableTyped
<1>3. H!Spread(t, chain, n) = h[l]
  BY DEF H!Spread
<1>4. \A u, k : Round(u, k) = [u EXCEPT ![chain[k].code % n] = <<chain[k]>> \o @]
  OBVIOUS
<1> HIDE DEF l, U, Round
<1>5. \A k \in 1..l, u \in U : rnd[<<k, u>>] = Round(u, k) /\ rnd[<<k, u>>] \in U
  BY <1>2
<1> HIDE DEF rnd
<1>6. t \in U
  BY DEF U
<1>7. PICK g : IsLoop(g, t, rnd, l, U)
  BY <1>1, <1>5, <1>6, Loop
<1>8. g = [k \in 0..l |-> IF k = 0 THEN t ELSE Round(g[k - 1], k)]
  <2>1. \A k \in 0..l : k # 0 => k - 1 \in 0..l /\ k \in 1..l
    BY <1>1
  <2> QED BY <1>5, <1>7, <2>1 DEF IsLoop
<1>9. h = [k \in 0..l |-> IF k = 0 THEN t ELSE Round(h[k - 1], k)]
  BY <1>8
<1> HIDE DEF h
<1>10. h[0] = t /\ \A k \in 1..l : h[k] = Round(h[k - 1], k)
  BY <1>1, <1>9
<1>11. \A k \in 0..l : h[k] \in U
  <2>1. h[0] \in U /\ \A k \in 1..l : h[k - 1] \in U => h[k] \in U
    BY <1>2, <1>6, <1>10
  <2> QED BY <1>1, <2>1, LoopInvariant
<1>12. IsSpread(h, t, chain, n)
  BY <1>3, <1>4, <1>10 DEF IsSpread, l
<1> QED BY <1>1, <1>3, <1>11, <1>12 DEF U

\* Spreading a chain over a table adds its nodes.
LEMMA SpreadKeeps ==
  ASSUME HashAssumption, NEW n \in Nat \ {0}, NEW X, NEW t, TableOk(t, n, X),
         NEW chain \in Seq(HashNodes), Different(chain), \A m : Holds(chain, m) => m \notin X,
         NEW Y, \A m : m \in Y <=> m \in X \/ Holds(chain, m)
  PROVE  TableOk(H!Spread(t, chain, n), n, Y)
<1> DEFINE l == Len(chain)
           Z(k) == X \cup {chain[j] : j \in 1..k}
           A(f) == {k \in 0..l : TableOk(f[k], n, Z(k))}
<1>1. l \in Nat /\ \A k \in 1..l : chain[k] \in HashNodes
  OBVIOUS
<1>2. PICK f : IsSpread(f, t, chain, n)
  BY SpreadTyped DEF TableOk
<1>3. /\ f[0] = t
      /\ \A k \in 1..l : f[k] = [f[k - 1] EXCEPT ![chain[k].code % n] = <<chain[k]>> \o @]
      /\ f[l] = H!Spread(t, chain, n)
  BY <1>2 DEF IsSpread
<1>4. Z(0) = X
  OBVIOUS
<1>5. Z(l) = Y
  BY DEF Holds
<1>6. ASSUME NEW k \in 1..l PROVE Z(k) = Z(k - 1) \cup {chain[k]} /\ chain[k] \notin Z(k - 1)
  <2>1. \A j : j \in 1..k <=> j \in 1..(k - 1) \/ j = k
    BY <1>1
  <2>2. Z(k) = Z(k - 1) \cup {chain[k]}
    BY <2>1
  <2>3. \A j \in 1..(k - 1) : j \in 1..l /\ j # k
    BY <1>1
  <2>4. chain[k] \notin X
    BY DEF Holds
  <2>5. \A j \in 1..(k - 1) : chain[j] # chain[k]
    BY <2>3 DEF Different
  <2> QED BY <2>2, <2>4, <2>5
<1> HIDE DEF l, Z
<1>7. 0 \in A(f)
  BY SMTT(30), <1>1, <1>3, <1>4
<1>8. ASSUME NEW k \in 1..l, k - 1 \in A(f) PROVE k \in A(f)
  <2>1. TableOk(f[k - 1], n, Z(k - 1)) /\ k \in 0..l
    BY <1>1, <1>8
  <2>2. TableOk([f[k - 1] EXCEPT ![chain[k].code % n] = <<chain[k]>> \o @], n, Z(k - 1) \cup {chain[k]})
    BY <1>1, <1>6, <2>1, TableWith
  <2> QED BY <1>3, <1>6, <2>1, <2>2
<1> DEFINE AA == A(f)
<1>9. 0 \in AA /\ \A k \in 1..l : k - 1 \in AA => k \in AA
  BY <1>7, <1>8
<1>10. \A k \in AA : TableOk(f[k], n, Z(k))
  OBVIOUS
<1> HIDE DEF AA
<1>11. l \in AA
  <2>1. \A k \in 0..l : k \in AA
    BY <1>1, <1>9, Rounds
  <2> QED BY <1>1, <2>1
<1> QED BY <1>3, <1>5, <1>10, <1>11

\* Rehashing keeps the nodes.
LEMMA RehashedKeeps ==
  ASSUME HashAssumption, NEW n \in Nat \ {0}, NEW X, X \subseteq HashNodes,
         NEW o, o.size \in Nat, TableOk(o.table, o.size, X), o.size = 0 => X = {},
         o \in [size : Nat, count : Nat, table : Tables(o.size)]
  PROVE  \E t : TableOk(t, n, X) /\ H!Rehashed(o, n) = [size |-> n, count |-> o.count, table |-> t]
<1> DEFINE l == o.size
           U == Tables(n)
           bare == [k \in 0..(n - 1) |-> <<>>]
           Round(u, k) == H!Spread(u, o.table[k - 1], n)
           rnd == [ku \in (1..l) \X U |-> Round(ku[2], ku[1])]
           h == CHOOSE f : f = [k \in 0..l |-> IF k = 0 THEN bare ELSE Round(f[k - 1], k)]
           Z(k) == {m \in X : m.code % l < k}
<1>1. l \in Nat /\ \A k \in 1..l : k - 1 \in 0..(l - 1)
  OBVIOUS
<1>2. \A k \in 1..l : o.table[k - 1] \in Seq(HashNodes)
  BY <1>1 DEF TableOk, Tables
<1>3. H!Rehashed(o, n) = [size |-> n, count |-> o.count, table |-> h[l]]
  <2>1. H!Rehashed(o, n) = [o EXCEPT !.size = n, !.table = h[l]]
    BY DEF H!Rehashed
  <2> HIDE DEF h
  <2> QED BY <2>1
<1>4. ASSUME NEW k \in 1..l, NEW u \in U PROVE Round(u, k) \in U
  BY <1>2, SpreadTyped
<1>5. TableOk(bare, n, {}) /\ bare \in U
  <2>1. \A i \in 0..(n - 1) : bare[i] = <<>>
    OBVIOUS
  <2>2. Different(<<>>) /\ \A m : ~ Holds(<<>>, m)
    BY DEF Different, Holds
  <2>3. bare \in Tables(n)
    BY DEF Tables
  <2> HIDE DEF bare
  <2> QED BY <2>1, <2>2, <2>3 DEF TableOk
<1>6. \A u, k : Round(u, k) = H!Spread(u, o.table[k - 1], n)
  OBVIOUS
<1> HIDE DEF l, U, bare, Round
<1>7. \A k \in 1..l, u \in U : rnd[<<k, u>>] = Round(u, k) /\ rnd[<<k, u>>] \in U
  BY <1>4
<1> HIDE DEF rnd
<1>8. PICK g : IsLoop(g, bare, rnd, l, U)
  BY <1>1, <1>5, <1>7, Loop
<1>9. g = [k \in 0..l |-> IF k = 0 THEN bare ELSE Round(g[k - 1], k)]
  <2>1. \A k \in 0..l : k # 0 => k - 1 \in 0..l /\ k \in 1..l
    BY <1>1
  <2> QED BY <1>7, <1>8, <2>1 DEF IsLoop
<1>10. h = [k \in 0..l |-> IF k = 0 THEN bare ELSE Round(h[k - 1], k)]
  BY <1>9
<1> HIDE DEF h
<1>11. h[0] = bare /\ \A k \in 1..l : h[k] = H!Spread(h[k - 1], o.table[k - 1], n)
  BY <1>1, <1>6, <1>10
<1>12. \A m \in X : m.code % l \in 0..(l - 1)
  BY <1>1, Index DEF l
<1>15. Z(l) = X /\ Z(0) = {} /\ \A m, k : m \in Z(k) <=> m \in X /\ m.code % l < k
  BY <1>1, <1>12
<1> HIDE DEF Z
<1> DEFINE A == {k \in 0..l : TableOk(h[k], n, Z(k))}
<1>13. 0 \in A
  <2>1. TableOk(bare, n, {}) /\ h[0] = bare /\ Z(0) = {}
    BY <1>5, <1>11, <1>15
  <2>2. 0 \in 0..l
    BY <1>1
  <2> QED BY <2>1, <2>2, Zenon
<1>14. ASSUME NEW k \in 1..l, k - 1 \in A PROVE k \in A
  <2> DEFINE chain == o.table[k - 1]
  <2>1. TableOk(h[k - 1], n, Z(k - 1)) /\ k \in 0..l
    <3>1. k \in 0..l
      BY <1>1
    <3> QED BY <1>14, <3>1
  <2>2. chain \in Seq(HashNodes) /\ Different(chain) /\ \A m : Holds(chain, m) <=> m \in X /\ m.code % l = k - 1
    BY <1>1, <1>2 DEF TableOk, l
  <2> HIDE DEF chain
  <2>3. \A m \in X : m.code % l < k <=> m.code % l < k - 1 \/ m.code % l = k - 1
    BY <1>1, <1>12
  <2>4. \A m : m \in Z(k) <=> m \in Z(k - 1) \/ Holds(chain, m)
    BY <1>15, <2>2, <2>3
  <2>5. \A m : Holds(chain, m) => m \notin Z(k - 1)
    BY <1>1, <1>12, <1>15, <2>2
  <2>6. h[k] = H!Spread(h[k - 1], chain, n)
    BY <1>11 DEF chain
  <2>7. TableOk(h[k], n, Z(k))
    BY <2>1, <2>2, <2>4, <2>5, <2>6, SpreadKeeps
  <2> QED BY <2>1, <2>7
<1>16. \A k \in A : TableOk(h[k], n, Z(k))
  OBVIOUS
<1> HIDE DEF A
<1>17. l \in A
  <2>1. \A k \in 0..l : k \in A
    BY <1>1, <1>13, <1>14, Rounds
  <2> QED BY <1>1, <2>1
<1> QED BY <1>3, <1>15, <1>16, <1>17

\* The search for a prime gives a size that is large enough.
LEMMA PrimeFromEnough ==
  ASSUME NEW n \in Nat
  PROVE  H!PrimeFrom(n) \in Nat /\ H!PrimeFrom(n) >= n
<1> DEFINE U == {u \in Nat : u >= n}
           Round(u) == IF H!IsPrime(u) THEN u ELSE u + 1
           rnd == [u \in U |-> Round(u)]
           h == CHOOSE f : f = [k \in 0..n |-> IF k = 0 THEN n ELSE Round(f[k - 1])]
<1>1. H!PrimeFrom(n) = h[n]
  BY DEF H!PrimeFrom
<1>2. ASSUME NEW u \in U PROVE Round(u) \in U
  <2>1. u \in U /\ u + 1 \in U
    OBVIOUS
  <2> QED BY <2>1
<1>3. n \in U
  OBVIOUS
<1> HIDE DEF Round
<1>4. \A u \in U : rnd[u] = Round(u) /\ rnd[u] \in U
  BY <1>2
<1>5. \A u \in U : u \in Nat /\ u >= n
  OBVIOUS
<1> HIDE DEF U, rnd
<1>6. PICK g : IsIteration(g, n, rnd, n, U)
  BY <1>3, <1>4, Iteration
<1>7. g = [k \in 0..n |-> IF k = 0 THEN n ELSE Round(g[k - 1])]
  <2>1. \A k \in 0..n : k # 0 => k - 1 \in 0..n
    OBVIOUS
  <2> QED BY <1>4, <1>6, <2>1 DEF IsIteration
<1>8. h = [k \in 0..n |-> IF k = 0 THEN n ELSE Round(h[k - 1])]
  BY <1>7
<1> HIDE DEF h
<1>9. \A k \in 0..n : h[k] \in U
  <2>1. h[0] \in U /\ \A k \in 1..n : h[k - 1] \in U => h[k] \in U
    <3>1. h[0] = n /\ \A k \in 1..n : h[k] = Round(h[k - 1])
      BY <1>8
    <3> QED BY <1>2, <1>3, <3>1
  <2> QED BY <2>1, LoopInvariant
<1> QED BY <1>1, <1>5, <1>9

\* The size that hash_capacity_hint() computes is enough, and not zero.
LEMMA NewSizeEnough ==
  ASSUME HashAssumption, NEW hint \in Nat
  PROVE  H!NewSize(hint) \in Nat \ {0} /\ H!NewSize(hint) >= hint
<1> DEFINE d == Doubled(MinSize, hint)
<1>1. d \in Nat \ {0} /\ d >= hint
  BY DoubledEnough DEF HashAssumption
<1>2. H!NewSize(hint) = H!PrimeFrom(d)
  BY DEF H!NewSize, H!Doubled, Doubled
<1> HIDE DEF d
<1>3. H!PrimeFrom(d) \in Nat /\ H!PrimeFrom(d) >= d
  BY <1>1, PrimeFromEnough
<1> QED BY <1>1, <1>2, <1>3

\* The table o has the nodes of X and counts them.
HashOk(o, X) ==
  /\ o \in [size : Nat, count : Nat, table : Tables(o.size)]
  /\ X \subseteq HashNodes /\ IsFiniteSet(X)
  /\ \A m, n \in X : m.key = n.key => m = n
  /\ TableOk(o.table, o.size, X)
  /\ o.count = Cardinality(X) /\ o.count <= o.size

\* hash_capacity_hint() keeps the nodes, and if it succeeds there is room for as
\* many as the hint says.
LEMMA HashHintKeeps ==
  ASSUME HashAssumption, NEW o, NEW X, HashOk(o, X), NEW hint \in Nat,
         NEW r \in H!CapacityHint(o, hint)
  PROVE  /\ HashOk(r.h, X) /\ r.h.count = o.count /\ r.ok \in BOOLEAN
         /\ ~ r.ok => r.h = o
         /\ r.ok /\ hint >= o.count => r.h.size >= hint
<1> DEFINE n == H!NewSize(hint)
           w == H!Rehashed(o, n)
<1>1. n \in Nat \ {0} /\ n >= hint
  BY NewSizeEnough
<1>2. /\ o \in [size : Nat, count : Nat, table : Tables(o.size)]
      /\ X \subseteq HashNodes /\ IsFiniteSet(X) /\ TableOk(o.table, o.size, X)
      /\ o.count = Cardinality(X) /\ o.count <= o.size /\ o.size \in Nat /\ o.count \in Nat
  BY DEF HashOk
<1>3. \/ r = [h |-> o, ok |-> TRUE] /\ (hint < o.count \/ o.size = n)
      \/ r = [h |-> w, ok |-> TRUE] /\ ~ (hint < o.count)
      \/ r = [h |-> o, ok |-> FALSE]
  BY DEF H!CapacityHint
<1> HIDE DEF n
<1>4. CASE r = [h |-> o, ok |-> TRUE] /\ (hint < o.count \/ o.size = n)
  BY <1>1, <1>2, <1>4
<1>5. CASE r = [h |-> w, ok |-> TRUE] /\ ~ (hint < o.count)
  <2>1. o.size = 0 => X = {}
    BY <1>2, FS_EmptySet
  <2>0. PICK t : TableOk(t, n, X) /\ w = [size |-> n, count |-> o.count, table |-> t]
    BY <1>1, <1>2, <2>1, RehashedKeeps
  <2>2. w.size = n /\ w.count = o.count /\ TableOk(w.table, n, X)
    BY <2>0
  <2>3. w = [size |-> w.size, count |-> w.count, table |-> w.table]
    BY <2>0
  <2>4. r.h = w /\ r.ok = TRUE /\ hint >= o.count
    BY <1>2, <1>5
  <2> HIDE DEF w
  <2>5. w \in [size : Nat, count : Nat, table : Tables(w.size)]
    BY <1>1, <1>2, <2>2, <2>3 DEF TableOk
  <2>6. o.count <= n
    BY <1>1, <1>2, <2>4
  <2>7. HashOk(w, X)
    BY <1>2, <2>2, <2>5, <2>6 DEF HashOk
  <2> QED BY <1>1, <2>2, <2>4, <2>7
<1>6. CASE r = [h |-> o, ok |-> FALSE]
  BY <1>2, <1>6
<1> QED BY <1>3, <1>4, <1>5, <1>6

\* The chain that hash_insert() rebuilds has the new node and those with other
\* keys.
LEMMA ChainWithElements ==
  ASSUME NEW chain \in Seq(HashNodes), Different(chain), NEW n \in HashNodes, ~ Holds(chain, n)
  PROVE  /\ H!ChainWith(chain, n) \in Seq(HashNodes) /\ Different(H!ChainWith(chain, n))
         /\ \A m : Holds(H!ChainWith(chain, n), m) <=> m = n \/ (Holds(chain, m) /\ m.key # n.key)
<1> DEFINE l == Len(chain)
           U == Seq(HashNodes)
           Round(u, k) == IF chain[k].key # n.key THEN <<chain[k]>> \o u ELSE u
           rnd == [ku \in (1..l) \X U |-> Round(ku[2], ku[1])]
           h == CHOOSE f : f = [k \in 0..l |-> IF k = 0 THEN <<n>> ELSE Round(f[k - 1], k)]
           Good(u, k) == /\ Different(u)
                         /\ \A m : Holds(u, m) <=> m = n \/ ((\E j \in 1..k : chain[j] = m) /\ m.key # n.key)
<1>1. l \in Nat /\ \A k \in 1..l : chain[k] \in HashNodes
  OBVIOUS
<1>2. ASSUME NEW k \in 1..l, NEW u \in U PROVE Round(u, k) \in U
  <2>1. <<chain[k]>> \o u \in U
    BY <1>1, PrependedElements
  <2> QED BY <2>1
<1>3. H!ChainWith(chain, n) = h[l]
  BY DEF H!ChainWith
<1>4. \A u, k : Round(u, k) = IF chain[k].key # n.key THEN <<chain[k]>> \o u ELSE u
  OBVIOUS
<1>5. <<n>> \in U /\ Good(<<n>>, 0)
  <2> DEFINE one == <<n>>
  <2>1. one \in Seq(HashNodes) /\ Len(one) = 1 /\ one[1] = n
    OBVIOUS
  <2> HIDE DEF one
  <2>2. Different(one) /\ \A m : Holds(one, m) <=> m = n
    BY <2>1 DEF Different, Holds
  <2>3. \A m : ~ \E j \in 1..0 : chain[j] = m
    OBVIOUS
  <2>4. Good(one, 0)
    BY <2>2, <2>3
  <2> QED BY <2>1, <2>4 DEF one
<1>6. ASSUME NEW k \in 1..l, NEW u \in U, Good(u, k - 1) PROVE Good(Round(u, k), k)
  <2> DEFINE c == chain[k]
  <2>1. c \in HashNodes /\ c # n /\ (\A j \in 1..(k - 1) : chain[j] # c)
    <3>1. \A j \in 1..(k - 1) : j \in 1..l /\ j # k
      BY <1>1
    <3> QED BY <1>1, <3>1 DEF Different, Holds
  <2>2. \A m : (\E j \in 1..k : chain[j] = m) <=> (\E j \in 1..(k - 1) : chain[j] = m) \/ m = c
    <3>1. \A j : j \in 1..k <=> j \in 1..(k - 1) \/ j = k
      BY <1>1
    <3> QED BY <3>1
  <2> HIDE DEF c
  <2>3. CASE c.key # n.key
    <3>1. Round(u, k) = <<c>> \o u
      BY <1>4, <2>3 DEF c
    <3>2. ~ Holds(u, c)
      BY <1>6, <2>1
    <3>3. Different(<<c>> \o u) /\ \A m : Holds(<<c>> \o u, m) <=> m = c \/ Holds(u, m)
      BY <1>6, <2>1, <3>2, PrependedElements
    <3>4. \A m : Holds(<<c>> \o u, m) <=> m = n \/ ((\E j \in 1..k : chain[j] = m) /\ m.key # n.key)
      BY <1>6, <2>2, <2>3, <3>3
    <3> QED BY <3>1, <3>3, <3>4
  <2>4. CASE ~ (c.key # n.key)
    <3>1. Round(u, k) = u
      BY <1>4, <2>4 DEF c
    <3>2. \A m : Holds(u, m) <=> m = n \/ ((\E j \in 1..k : chain[j] = m) /\ m.key # n.key)
      BY <1>6, <2>2, <2>4
    <3> QED BY <1>6, <3>1, <3>2
  <2> QED BY <2>3, <2>4
<1>7. \A u : Good(u, l) => Different(u) /\ \A m : Holds(u, m) <=> m = n \/ (Holds(chain, m) /\ m.key # n.key)
  BY DEF Holds
<1> HIDE DEF l, U, Round, Good
<1>8. \A k \in 1..l, u \in U : rnd[<<k, u>>] = Round(u, k) /\ rnd[<<k, u>>] \in U
  BY <1>2
<1> HIDE DEF rnd
<1>9. PICK g : IsLoop(g, <<n>>, rnd, l, U)
  BY <1>1, <1>5, <1>8, Loop
<1>10. g = [k \in 0..l |-> IF k = 0 THEN <<n>> ELSE Round(g[k - 1], k)]
  <2>1. \A k \in 0..l : k # 0 => k - 1 \in 0..l /\ k \in 1..l
    BY <1>1
  <2> QED BY <1>8, <1>9, <2>1 DEF IsLoop
<1>11. h = [k \in 0..l |-> IF k = 0 THEN <<n>> ELSE Round(h[k - 1], k)]
  BY <1>10
<1> HIDE DEF h
<1>12. h[0] = <<n>> /\ \A k \in 1..l : h[k] = Round(h[k - 1], k)
  <2>1. 0 \in 0..l /\ \A k \in 1..l : k \in 0..l /\ k # 0
    BY <1>1
  <2> QED BY <1>11, <2>1
<1> DEFINE A == {k \in 0..l : h[k] \in U /\ Good(h[k], k)}
<1>13. 0 \in A
  BY <1>1, <1>5, <1>12
<1>14. ASSUME NEW k \in 1..l, k - 1 \in A PROVE k \in A
  <2>1. k \in 0..l
    BY <1>1
  <2> QED BY <1>2, <1>6, <1>12, <1>14, <2>1
<1>15. \A k \in A : h[k] \in U /\ Good(h[k], k)
  OBVIOUS
<1> HIDE DEF A
<1>16. l \in A
  <2>1. \A k \in 0..l : k \in A
    BY <1>1, <1>13, <1>14, Rounds
  <2> QED BY <1>1, <2>1
<1> QED BY <1>3, <1>7, <1>15, <1>16 DEF U

\* A change of one chain changes the nodes of the table as it does its own.
LEMMA TableChanged ==
  ASSUME HashAssumption, NEW n \in Nat \ {0}, NEW X, NEW Y, NEW t, TableOk(t, n, X),
         NEW i \in 0..(n - 1), NEW chain \in Seq(HashNodes), Different(chain),
         \A m : Holds(chain, m) <=> m \in Y /\ m.code % n = i,
         \A m : m.code % n # i => (m \in X <=> m \in Y)
  PROVE  TableOk([t EXCEPT ![i] = chain], n, Y)
<1> DEFINE u == [t EXCEPT ![i] = chain]
<1>1. u \in Tables(n) /\ u[i] = chain /\ \A j \in 0..(n - 1) : j # i => u[j] = t[j]
  BY DEF TableOk, Tables
<1> HIDE DEF u
<1>2. ASSUME NEW j \in 0..(n - 1)
      PROVE  Different(u[j]) /\ \A x : Holds(u[j], x) <=> x \in Y /\ x.code % n = j
  <2>1. CASE j = i
    BY <1>1, <2>1
  <2>2. CASE j # i
    BY <1>1, <2>2 DEF TableOk
  <2> QED BY <2>1, <2>2
<1>3. TableOk(u, n, Y)
  BY <1>1, <1>2 DEF TableOk
<1> QED BY <1>3 DEF u

\* Replacing the node of a key, if there is one.
LEMMA Replaced ==
  ASSUME NEW X, IsFiniteSet(X), \A l, m \in X : l.key = m.key => l = m, NEW n, n \notin X,
         NEW Y, Y = {m \in X : m.key # n.key} \cup {n}
  PROVE  /\ IsFiniteSet(Y) /\ \A l, m \in Y : l.key = m.key => l = m
         /\ (\E m \in X : m.key = n.key) => Cardinality(Y) = Cardinality(X)
         /\ ~ (\E m \in X : m.key = n.key) => Cardinality(Y) = Cardinality(X) + 1
<1>1. CASE \E m \in X : m.key = n.key
  <2>1. PICK m \in X : m.key = n.key
    BY <1>1
  <2>2. Y = (X \ {m}) \cup {n}
    BY <2>1
  <2>3. IsFiniteSet(X \ {m}) /\ Cardinality(X \ {m}) = Cardinality(X) - 1 /\ n \notin X \ {m}
        /\ Cardinality(X) \in Nat
    BY <2>1, FS_RemoveElement, FS_CardinalityType
  <2>4. IsFiniteSet((X \ {m}) \cup {n}) /\ Cardinality((X \ {m}) \cup {n}) = Cardinality(X \ {m}) + 1
    BY <2>3, FS_AddElement
  <2>5. Cardinality(Y) = Cardinality(X)
    <3> DEFINE a == Cardinality(X)
               b == Cardinality(X \ {m})
    <3>1. a \in Nat /\ b = a - 1 /\ Cardinality(Y) = b + 1
      BY <2>2, <2>3, <2>4
    <3> HIDE DEF a, b
    <3>2. b + 1 = a
      BY <3>1
    <3> QED BY <3>1, <3>2 DEF a
  <2>6. \A k, l \in Y : k.key = l.key => k = l
    OBVIOUS
  <2> QED BY <1>1, <2>2, <2>4, <2>5, <2>6
<1>2. CASE ~ (\E m \in X : m.key = n.key)
  <2>1. Y = X \cup {n}
    BY <1>2
  <2>2. IsFiniteSet(X \cup {n}) /\ Cardinality(X \cup {n}) = Cardinality(X) + 1
    BY FS_AddElement
  <2>3. \A k, l \in Y : k.key = l.key => k = l
    OBVIOUS
  <2> QED BY <1>2, <2>1, <2>2, <2>3
<1> QED BY <1>1, <1>2

\* hash_insert() puts the node in, and takes one with its key out.
LEMMA InsertIntoInserts ==
  ASSUME HashAssumption, NEW o, NEW X, HashOk(o, X), NEW n \in HashNodes, n \notin X,
         NEW unique \in BOOLEAN, unique => \A m \in X : m.key # n.key, o.size > o.count
  PROVE  HashOk(H!InsertInto(o, n, unique), {m \in X : m.key # n.key} \cup {n})
<1> DEFINE i == n.code % o.size
           Y == {m \in X : m.key # n.key} \cup {n}
           w == H!InsertInto(o, n, unique)
<1>1. /\ o.size \in Nat \ {0} /\ o.count \in Nat /\ X \subseteq HashNodes /\ IsFiniteSet(X)
      /\ \A m, k \in X : m.key = k.key => m = k
      /\ TableOk(o.table, o.size, X) /\ o.count = Cardinality(X)
      /\ o = [size |-> o.size, count |-> o.count, table |-> o.table]
  BY DEF HashOk
<1>2. i \in 0..(o.size - 1)
  BY <1>1, Index
<1>3. i = n.code % o.size
  OBVIOUS
<1> DEFINE t == o.table
<1>4. w = IF unique THEN [o EXCEPT !.table[i] = <<n>> \o @, !.count = @ + 1]
          ELSE [o EXCEPT !.table[i] = H!ChainWith(@, n),
                         !.count = IF H!Replaces(o.table[i], n) THEN @ ELSE @ + 1]
  BY DEF H!InsertInto
<1>5. w = IF unique THEN [size |-> o.size, count |-> o.count + 1, table |-> [t EXCEPT ![i] = <<n>> \o t[i]]]
          ELSE [size |-> o.size, count |-> IF H!Replaces(t[i], n) THEN o.count ELSE o.count + 1,
                table |-> [t EXCEPT ![i] = H!ChainWith(t[i], n)]]
  BY <1>1, <1>4
<1> HIDE DEF w, i
<1>6. t[i] \in Seq(HashNodes) /\ Different(t[i]) /\ \A m : Holds(t[i], m) <=> m \in X /\ m.code % o.size = i
  BY <1>1, <1>2 DEF TableOk, Tables
<1>7. \A m \in X : m.key = n.key => m.code % o.size = i
  BY <1>1, <1>3 DEF HashAssumption
<1>8. H!Replaces(t[i], n) <=> \E m \in X : m.key = n.key
  <2>1. DOMAIN t[i] = 1..Len(t[i])
    BY <1>6
  <2>2. H!Replaces(t[i], n) <=> \E m : Holds(t[i], m) /\ m.key = n.key
    BY <2>1 DEF H!Replaces, Holds
  <2> QED BY <1>6, <1>7, <2>2
<1> HIDE DEF t
<1>9. /\ IsFiniteSet(Y) /\ \A l, m \in Y : l.key = m.key => l = m
      /\ (\E m \in X : m.key = n.key) => Cardinality(Y) = Cardinality(X)
      /\ ~ (\E m \in X : m.key = n.key) => Cardinality(Y) = Cardinality(X) + 1
  BY <1>1, Replaced
<1>10. Y \subseteq HashNodes
  BY <1>1
<1>11. \E u : /\ TableOk(u, o.size, Y)
              /\ w = [size |-> o.size, count |-> Cardinality(Y), table |-> u]
  <2>1. CASE unique
    <3>1. Y = X \cup {n}
      BY <2>1
    <3>2. TableOk([t EXCEPT ![i] = <<n>> \o @], o.size, X \cup {n})
      BY <1>1, <1>3, TableWith DEF t
    <3>3. ~ (\E m \in X : m.key = n.key)
      BY <2>1
    <3>4. w = [size |-> o.size, count |-> o.count + 1, table |-> [t EXCEPT ![i] = <<n>> \o t[i]]]
      BY <1>5, <2>1
    <3>5. Cardinality(Y) = o.count + 1
      BY <1>1, <1>9, <3>3
    <3> HIDE DEF Y
    <3>6. [t EXCEPT ![i] = <<n>> \o @] = [t EXCEPT ![i] = <<n>> \o t[i]]
      OBVIOUS
    <3> QED BY <3>1, <3>2, <3>4, <3>5, <3>6
  <2>2. CASE ~ unique
    <3> DEFINE c == H!ChainWith(t[i], n)
    <3>1. ~ Holds(t[i], n)
      BY <1>6
    <3>2. c \in Seq(HashNodes) /\ Different(c) /\ \A m : Holds(c, m) <=> m = n \/ (Holds(t[i], m) /\ m.key # n.key)
      BY <1>6, <3>1, ChainWithElements
    <3> HIDE DEF c
    <3>0. \A m : m \in Y <=> m = n \/ (m \in X /\ m.key # n.key)
      BY Zenon
    <3>4. \A m : m.code % o.size # i => (m \in X <=> m \in Y)
      BY <1>3, <1>7
    <3>8. Cardinality(Y) = IF H!Replaces(t[i], n) THEN o.count ELSE o.count + 1
      BY <1>1, <1>8, <1>9
    <3> HIDE DEF Y
    <3>3. \A m : Holds(c, m) <=> m \in Y /\ m.code % o.size = i
      BY <1>3, <1>6, <3>0, <3>2
    <3>5. w = [size |-> o.size, count |-> IF H!Replaces(t[i], n) THEN o.count ELSE o.count + 1,
               table |-> [t EXCEPT ![i] = c]]
      BY <1>5, <2>2 DEF c
    <3>7. TableOk([t EXCEPT ![i] = c], o.size, Y)
      BY <1>1, <1>2, <3>2, <3>3, <3>4, TableChanged DEF t
    <3> QED BY <3>5, <3>7, <3>8
  <2> QED BY <2>1, <2>2
<1>12. Cardinality(Y) \in Nat /\ Cardinality(Y) <= o.size
  <2>1. Cardinality(Y) <= o.count + 1 /\ Cardinality(Y) \in Nat
    BY <1>1, <1>9
  <2> QED BY <1>1, <2>1
<1> HIDE DEF Y
<1>13. HashOk(w, Y)
  <2>1. PICK u : TableOk(u, o.size, Y) /\ w = [size |-> o.size, count |-> Cardinality(Y), table |-> u]
    BY <1>11
  <2>2. w.size = o.size /\ w.count = Cardinality(Y) /\ w.table = u /\ u \in Tables(o.size)
    BY <2>1 DEF TableOk
  <2>3. w \in [size : Nat, count : Nat, table : Tables(w.size)]
    BY <1>1, <1>12, <2>1, <2>2
  <2> QED BY <1>9, <1>10, <1>12, <2>1, <2>2, <2>3 DEF HashOk
<1> QED BY <1>13 DEF w, Y

\* The table has the nodes that are stored.
HashInv == HashOk(H!This, stored)

\* The table of the next state.
LEMMA HashBecomes ==
  ASSUME NEW o, H!Becomes(o), HashOk(o, stored')
  PROVE  HashInv'
<1>1. size' = o.size /\ count' = o.count /\ table' = o.table
  BY DEF H!Becomes
<1>2. o = [size |-> o.size, count |-> o.count, table |-> o.table]
  BY DEF HashOk
<1>3. H!This' = [size |-> size', count |-> count', table |-> table']
  BY DEF H!This
<1>4. H!This' = o
  BY <1>1, <1>2, <1>3
<1> QED BY <1>4 DEF HashInv

\* hash_insert() keeps the invariant, also when the table could not grow.
LEMMA HashInsertStep ==
  ASSUME HashInv, HashAssumption, NEW n \in HashNodes, NEW unique \in BOOLEAN, H!HashInsert(n, unique)
  PROVE  HashInv'
<1> DEFINE Y == {m \in stored : m.key # n.key} \cup {n}
<1>1. n \notin stored /\ (unique => \A m \in stored : m.key # n.key)
  BY DEF H!HashInsert
<1>2. PICK r \in H!Grown(H!This) :
         IF ~ r.ok THEN H!Becomes(r.h) /\ UNCHANGED stored
         ELSE H!Becomes(H!InsertInto(r.h, n, unique)) /\ stored' = Y
  BY DEF H!HashInsert
<1>3. /\ HashOk(H!This, stored) /\ H!This.count \in Nat /\ H!This.size \in Nat
  BY DEF HashInv, HashOk
<1>4. HashOk(r.h, stored) /\ r.ok \in BOOLEAN /\ (r.ok => r.h.size > r.h.count)
  <2>1. CASE H!This.count >= H!This.size
    <3>1. r \in H!CapacityHint(H!This, H!This.count + 1) /\ H!This.count + 1 \in Nat
      BY <1>2, <1>3, <2>1 DEF H!Grown
    <3>2. /\ HashOk(r.h, stored) /\ r.h.count = H!This.count /\ r.ok \in BOOLEAN
          /\ r.ok /\ H!This.count + 1 >= H!This.count => r.h.size >= H!This.count + 1
      BY <1>3, <3>1, HashHintKeeps
    <3>3. r.h.size \in Nat
      BY <3>2 DEF HashOk
    <3> QED BY <1>3, <3>2, <3>3
  <2>2. CASE ~ (H!This.count >= H!This.size)
    <3>1. r = [h |-> H!This, ok |-> TRUE]
      BY <1>2, <2>2 DEF H!Grown
    <3> QED BY <1>3, <2>2, <3>1
  <2> QED BY <2>1, <2>2
<1>5. CASE ~ r.ok
  <2>1. H!Becomes(r.h) /\ stored' = stored
    BY <1>2, <1>5
  <2> QED BY <1>4, <2>1, HashBecomes
<1>6. CASE r.ok
  <2>1. H!Becomes(H!InsertInto(r.h, n, unique)) /\ stored' = Y
    BY <1>2, <1>6
  <2>2. HashOk(H!InsertInto(r.h, n, unique), Y)
    BY <1>1, <1>4, <1>6, InsertIntoInserts
  <2> HIDE DEF Y
  <2> QED BY <2>1, <2>2, HashBecomes
<1> QED BY <1>4, <1>5, <1>6

\* The loop of hash_remove() takes the node out, and no other.
LEMMA UnlinkedRemoves ==
  ASSUME HashAssumption, NEW o, NEW X, HashOk(o, X), NEW n \in X
  PROVE  HashOk(H!Unlinked(o, n), X \ {n})
<1> DEFINE i == n.code % o.size
           t == o.table
           chain == t[i]
           Y == X \ {n}
           at == {j \in DOMAIN chain : chain[j] = n}
           a == CHOOSE j \in at : TRUE
           c == SubSeq(chain, 1, a - 1) \o SubSeq(chain, a + 1, Len(chain))
<1>1. /\ o.size \in Nat /\ o.count \in Nat /\ X \subseteq HashNodes /\ IsFiniteSet(X)
      /\ \A m, k \in X : m.key = k.key => m = k
      /\ TableOk(o.table, o.size, X) /\ o.count = Cardinality(X) /\ o.count <= o.size
      /\ o = [size |-> o.size, count |-> o.count, table |-> o.table]
  BY DEF HashOk
<1>2. /\ Cardinality(X) # 0 /\ Cardinality(Y) = Cardinality(X) - 1 /\ IsFiniteSet(Y)
  BY <1>1, FS_EmptySet, FS_RemoveElement
<1>3. /\ o.size \in Nat \ {0} /\ o.count - 1 \in Nat /\ o.count - 1 <= o.size
      /\ o.count - 1 = Cardinality(Y)
  BY <1>1, <1>2
<1>4. i \in 0..(o.size - 1) /\ i = n.code % o.size
  BY <1>1, <1>3, Index
<1>5. H!Unlinked(o, n) = IF at = {} THEN o
                         ELSE [o EXCEPT !.table[i] = c, !.count = @ - 1]
  BY DEF H!Unlinked
<1> HIDE DEF i, Y
<1>6. chain \in Seq(HashNodes) /\ Different(chain) /\ \A m : Holds(chain, m) <=> m \in X /\ m.code % o.size = i
  BY <1>1, <1>4 DEF TableOk, Tables
<1> HIDE DEF chain
<1>7. DOMAIN chain = 1..Len(chain)
  BY <1>6
<1>8. at # {}
  BY <1>4, <1>6, <1>7 DEF Holds
<1>9. a \in 1..Len(chain) /\ chain[a] = n
  BY <1>7, <1>8
<1> HIDE DEF at, a
<1>10. c \in Seq(HashNodes) /\ IsRemoved(c, chain, a)
  BY <1>6, <1>9, Removed
<1> HIDE DEF c
<1>11. Different(c) /\ \A x : Holds(c, x) <=> x # n /\ Holds(chain, x)
  BY <1>6, <1>9, <1>10, RemovedElements
<1>12. H!Unlinked(o, n) = [size |-> o.size, count |-> o.count - 1, table |-> [t EXCEPT ![i] = c]]
  BY <1>1, <1>5, <1>8
<1>13. \A m : m \in Y <=> m \in X /\ m # n
  BY DEF Y
<1>14. TableOk([t EXCEPT ![i] = c], o.size, Y)
  <2>1. \A m : Holds(c, m) <=> m \in Y /\ m.code % o.size = i
    BY <1>6, <1>11, <1>13
  <2>2. \A m : m.code % o.size # i => (m \in X <=> m \in Y)
    BY <1>4, <1>13
  <2> QED BY <1>1, <1>3, <1>4, <1>10, <1>11, <2>1, <2>2, TableChanged
<1> DEFINE u == [t EXCEPT ![i] = c]
           w == H!Unlinked(o, n)
<1>15. TableOk(u, o.size, Y) /\ w = [size |-> o.size, count |-> o.count - 1, table |-> u]
  BY <1>12, <1>14
<1> HIDE DEF t, u, w
<1>16. w.size = o.size /\ w.count = Cardinality(Y) /\ w.table = u /\ u \in Tables(o.size) /\ w.count = o.count - 1
  BY <1>3, <1>15 DEF TableOk
<1>17. w \in [size : Nat, count : Nat, table : Tables(w.size)]
  BY <1>1, <1>3, <1>15, <1>16
<1>18. HashOk(w, Y)
  BY <1>1, <1>2, <1>3, <1>13, <1>15, <1>16, <1>17 DEF HashOk
<1> QED BY <1>18 DEF w, Y

\* hash_remove() keeps the invariant.
LEMMA HashRemoveStep ==
  ASSUME HashInv, HashAssumption, NEW n \in HashNodes, H!HashRemove(n)
  PROVE  HashInv'
<1> DEFINE w == H!Unlinked(H!This, n)
<1>1. n \in stored /\ stored' = stored \ {n}
  BY DEF H!HashRemove
<1>2. PICK o \in H!Shrunk(w) : H!Becomes(o)
  BY DEF H!HashRemove
<1>3. HashOk(w, stored')
  BY <1>1, UnlinkedRemoves DEF HashInv
<1> HIDE DEF w
<1>4. HashOk(o, stored')
  <2>1. CASE H!ShrinkDue(w)
    <3>1. PICK r \in H!CapacityHint(w, w.count) : o = r.h
      BY <1>2, <2>1 DEF H!Shrunk
    <3>2. w.count \in Nat
      BY <1>3 DEF HashOk
    <3> QED BY <1>3, <3>1, <3>2, HashHintKeeps
  <2>2. CASE ~ H!ShrinkDue(w)
    BY <1>2, <1>3, <2>2 DEF H!Shrunk
  <2> QED BY <2>1, <2>2
<1> QED BY <1>2, <1>4, HashBecomes

\* hash_capacity_hint() keeps the invariant.
LEMMA HashHintStep ==
  ASSUME HashInv, HashAssumption, NEW hint \in Nat, H!HashHint(hint)
  PROVE  HashInv'
<1>1. PICK r \in H!CapacityHint(H!This, hint) : H!Becomes(r.h)
  BY DEF H!HashHint
<1>2. HashOk(r.h, stored) /\ stored' = stored
  BY HashHintKeeps DEF HashInv, H!HashHint
<1> QED BY <1>1, <1>2, HashBecomes

\* A table begins without slots.
LEMMA HashInitInv ==
  ASSUME H!Init
  PROVE  HashInv
<1>1. size = 0 /\ count = 0 /\ table = <<>> /\ stored = {}
  BY DEF H!Init
<1>2. H!This = [size |-> 0, count |-> 0, table |-> <<>>]
  BY <1>1 DEF H!This
<1>3. <<>> \in Tables(0) /\ TableOk(<<>>, 0, {})
  BY DEF Tables, TableOk
<1>4. IsFiniteSet({}) /\ Cardinality({}) = 0
  BY FS_EmptySet
<1> QED BY <1>1, <1>2, <1>3, <1>4 DEF HashInv, HashOk

\* Every operation of hash.c keeps the invariant.
LEMMA HashStepInv ==
  ASSUME HashInv, HashAssumption, H!Next
  PROVE  HashInv'
<1>1. ASSUME NEW n \in HashNodes, H!HashRemove(n) PROVE HashInv'
  BY <1>1, HashRemoveStep
<1>2. ASSUME NEW n \in HashNodes, NEW unique \in BOOLEAN, H!HashInsert(n, unique) PROVE HashInv'
  BY <1>2, HashInsertStep
<1>3. ASSUME NEW hint \in 0..MaxHint, H!HashHint(hint) PROVE HashInv'
  BY <1>3, HashHintStep
<1> QED BY <1>1, <1>2, <1>3 DEF H!Next

\* A table that is as HashInv says has the properties that Hash states.
LEMMA HashInvExact ==
  ASSUME HashInv, HashAssumption
  PROVE  H!FindExact /\ H!CountExact
<1>1. H!This.size = size /\ H!This.count = count /\ H!This.table = table
  BY DEF H!This
<1>2. /\ size \in Nat /\ count \in Nat /\ stored \subseteq HashNodes /\ IsFiniteSet(stored)
      /\ \A m, n \in stored : m.key = n.key => m = n
      /\ TableOk(table, size, stored) /\ table \in Tables(size)
      /\ count = Cardinality(stored) /\ count <= size
  BY <1>1 DEF HashInv, HashOk
<1>3. H!CountExact
  <2>1. H!Cardinality(stored) = Cardinality(stored)
    BY DEF H!Cardinality, Cardinality
  <2> QED BY <1>2, <2>1 DEF H!CountExact
<1>4. stored # {} => size \in Nat \ {0}
  <2>1. stored # {} => count # 0
    BY <1>2, FS_EmptySet
  <2> QED BY <1>2, <2>1
<1>5. ASSUME NEW key \in H!HashKeys
      PROVE  /\ H!Find(H!This, key) = <<>> <=> \A n \in stored : n.key # key
             /\ \A n \in stored : n.key = key => H!Find(H!This, key) = <<n>>
  <2> DEFINE c == H!CodeOf(key)
             chain == IF size = 0 THEN <<>> ELSE table[c % size]
             hits == {i \in DOMAIN chain : chain[i].key = key}
             first == CHOOSE i \in hits : \A j \in hits : i <= j
  <2>1. c \in Nat /\ \A n \in HashNodes : n.key = key => n.code = c
    <3>1. \E n \in HashNodes : n.key = key
      BY DEF H!HashKeys
    <3> DEFINE w == CHOOSE n \in HashNodes : n.key = key
    <3>2. w \in HashNodes /\ w.key = key
      BY <3>1
    <3>3. c = w.code
      BY DEF H!CodeOf
    <3> HIDE DEF w, c
    <3> QED BY <3>2, <3>3 DEF HashAssumption
  <2>2. H!Find(H!This, key) = IF hits = {} THEN <<>> ELSE <<chain[first]>>
    BY <1>1 DEF H!Find
  <2> HIDE DEF c
  <2>3. \A m : Holds(chain, m) /\ m.key = key <=> m \in stored /\ m.key = key
    <3>1. CASE size = 0
      <4>1. stored = {} /\ chain = <<>>
        BY <1>4, <3>1
      <4> QED BY <4>1 DEF Holds
    <3>2. CASE size # 0
      <4>1. c % size \in 0..(size - 1)
        BY <1>2, <2>1, <3>2
      <4>2. \A m : Holds(chain, m) <=> m \in stored /\ m.code % size = c % size
        BY <1>2, <3>2, <4>1 DEF TableOk
      <4> QED BY <1>2, <2>1, <4>2
    <3> QED BY <3>1, <3>2
  <2>4. chain \in Seq(HashNodes)
    <3>1. CASE size = 0
      BY <3>1
    <3>2. CASE size # 0
      <4>1. c % size \in 0..(size - 1)
        BY <1>2, <2>1, <3>2
      <4> QED BY <1>2, <3>2, <4>1 DEF Tables
    <3> QED BY <3>1, <3>2
  <2> HIDE DEF chain
  <2>5. DOMAIN chain = 1..Len(chain) /\ Len(chain) \in Nat
    BY <2>4
  <2>6. hits = {} <=> \A n \in stored : n.key # key
    BY <2>3, <2>5 DEF Holds
  <2>7. ASSUME NEW n \in stored, n.key = key PROVE hits # {} /\ chain[first] = n
    <3>1. hits # {} /\ hits \subseteq Nat
      BY <2>3, <2>5, <2>7 DEF Holds
    <3>2. \E i \in hits : \A j \in hits : i <= j
      BY <3>1, LeastNumber
    <3>3. first \in hits
      BY <3>2
    <3>4. Holds(chain, chain[first]) /\ chain[first].key = key
      BY <2>5, <3>3 DEF Holds
    <3> QED BY <1>2, <2>3, <2>7, <3>1, <3>4
  <2>8. ASSUME NEW n \in stored, n.key = key PROVE H!Find(H!This, key) = <<n>>
    BY <2>2, <2>7, <2>8
  <2>9. <<chain[first]>> # <<>>
    OBVIOUS
  <2> HIDE DEF hits, first
  <2> QED BY <2>2, <2>6, <2>8, <2>9
<1>6. \A n \in stored : n.key \in H!HashKeys
  BY <1>2 DEF H!HashKeys
<1>7. {n \in HashNodes : \E i \in DOMAIN table : \E j \in DOMAIN table[i] : table[i][j] = n} = stored
  <2>1. DOMAIN table = 0..(size - 1) /\ \A i \in 0..(size - 1) : DOMAIN table[i] = 1..Len(table[i])
    BY <1>2 DEF Tables
  <2>2. \A n : (\E i \in DOMAIN table : \E j \in DOMAIN table[i] : table[i][j] = n)
               <=> \E i \in 0..(size - 1) : Holds(table[i], n)
    BY <2>1 DEF Holds
  <2>3. \A n \in stored : n.code % size \in 0..(size - 1)
    BY <1>2, <1>4, Index
  <2>4. \A n : (\E i \in 0..(size - 1) : Holds(table[i], n)) <=> n \in stored
    BY <1>2, <2>3 DEF TableOk
  <2> QED BY <1>2, <2>2, <2>4
<1> QED BY <1>3, <1>5, <1>6, <1>7 DEF H!FindExact

-----------------------------------------------------------------------------
(* istr.c *)

\* The operations on the string buffer of a pool are those of strbuf.c.
LEMMA PoolHint ==
  ASSUME NEW b, NEW n
  PROVE  I!T!CapacityHint(b, n) = T!CapacityHint(b, n)
  BY DEF I!T!CapacityHint, T!CapacityHint, I!T!Outcome, T!Outcome, I!T!NewCap, T!NewCap,
         I!T!Doubled, T!Doubled, I!T!Realloc, T!Realloc, I!T!Junk, T!Junk

\* strbuf_add_string() of a pool is the one of strbuf.c.
LEMMA PoolAddString ==
  ASSUME NEW b, NEW s
  PROVE  I!T!AddString(b, s) = T!AddString(b, s)
<1>1. I!T!CapacityHint(b, b.length + Len(s)) = T!CapacityHint(b, b.length + Len(s))
  BY PoolHint
<1>2. \A c : I!T!Grown(c, s) = T!Grown(c, s)
  BY DEF I!T!Grown, T!Grown, I!T!Put, T!Put
<1>3. \A c, ok : I!T!Outcome(c, ok) = T!Outcome(c, ok)
  BY DEF I!T!Outcome, T!Outcome
<1> QED BY <1>1, <1>2, <1>3 DEF I!T!AddString, T!AddString, I!T!RoomFor, T!RoomFor

\* So is the buffer it begins with.
LEMMA PoolBlank == I!T!Blank = T!Blank
  BY DEF I!T!Blank, T!Blank

-----------------------------------------------------------------------------
\* The buffer b has the text s, with its terminator, where e says.
Kept(b, e, s) ==
  /\ s \in Seq(Nat) /\ Len(s) = e.length /\ e.offset + e.length < b.length
  /\ \A i \in 1..e.length : b.text[e.offset + i] = s[i]
  /\ b.text[e.offset + e.length + 1] = 0

\* Descriptors.
Desc == [offset : Nat, length : Nat, refcnt : Nat]

\* A text that is kept is the one istr_text() returns.
LEMMA KeptText ==
  ASSUME NEW b, BufOk(b), NEW e \in Desc, NEW s, Kept(b, e, s)
  PROVE  I!IstrText(b, e) = s
<1> DEFINE o == e.offset
           n == e.length
           r == SubSeq(b.text, o + 1, o + n)
<1>1. o \in Nat /\ n \in Nat /\ b.text \in Seq(Int) /\ Len(b.text) \in Nat /\ b.length \in Nat
      /\ s \in Seq(Nat) /\ Len(s) = n
  BY DEF Desc, BufOk, Kept
<1>2. o + n < Len(b.text)
  BY <1>1 DEF BufOk, Kept
<1>3. \A i \in 1..n : b.text[o + i] = s[i]
  BY DEF Kept
<1>4. I!IstrText(b, e) = r
  BY DEF I!IstrText
<1> HIDE DEF o, n
<1>5. r \in Seq(Int) /\ Len(r) = n /\ \A i \in 1..n : r[i] = b.text[o + i]
  <2>1. o + 1 \in 1..(Len(b.text) + 1) /\ o + n \in 0..Len(b.text) /\ (o + n) - (o + 1) + 1 = n
    BY <1>1, <1>2
  <2>2. Len(r) = n
    BY <1>1, <2>1
  <2>3. ASSUME NEW i \in 1..n PROVE r[i] = b.text[o + i] /\ b.text[o + i] \in Int
    <3>1. o + 1 + i - 1 = o + i /\ o + i \in 1..Len(b.text) /\ i \in 1..((o + n) - (o + 1) + 1)
      BY <1>1, <1>2, <2>1
    <3> QED BY <1>1, <2>1, <3>1
  <2>4. r \in Seq(Int)
    BY <1>1, <2>1, SubSeqProperties
  <2> QED BY <2>2, <2>3, <2>4
<1> HIDE DEF r
<1>6. \A i \in 1..n : r[i] = s[i]
  BY <1>3, <1>5
<1>7. r = s
  <2>1. r = [i \in 1..n |-> r[i]]
    BY <1>1, <1>5
  <2>2. s = [i \in 1..n |-> s[i]]
    BY <1>1
  <2> QED BY <1>6, <2>1, <2>2
<1> QED BY <1>4, <1>7

\* What is written behind the text of a buffer changes nothing of its strings.
LEMMA KeptGrown ==
  ASSUME NEW b, b.length \in Nat, NEW c, c.length \in Nat, c.length >= b.length,
         \A i \in 1..b.length : c.text[i] = b.text[i],
         NEW e \in Desc, NEW s, Kept(b, e, s)
  PROVE  Kept(c, e, s)
<1>1. e.offset \in Nat /\ e.length \in Nat /\ e.offset + e.length < b.length
  BY DEF Desc, Kept
<1>2. ASSUME NEW i \in 1..e.length PROVE c.text[e.offset + i] = s[i]
  <2>1. e.offset + i \in 1..b.length
    BY <1>1
  <2> QED BY <2>1 DEF Kept
<1>3. c.text[e.offset + e.length + 1] = 0
  <2>1. e.offset + e.length + 1 \in 1..b.length
    BY <1>1
  <2> QED BY <2>1 DEF Kept
<1>4. e.offset + e.length < c.length
  BY <1>1
<1> QED BY <1>2, <1>3, <1>4 DEF Kept

\* A string is copied behind the text of buffer c.
LEMMA KeptCopied ==
  ASSUME TextAssumption, NEW b, BufOk(b), NEW e \in Desc, NEW s, Kept(b, e, s), NEW c, BufOk(c),
         NEW r \in T!AddString(c, SubSeq(b.text, e.offset + 1, e.offset + e.length + 1))
  PROVE  /\ BufOk(r.b) /\ r.ok \in BOOLEAN /\ r.b.length >= c.length
         /\ \A i \in 1..c.length : r.b.text[i] = c.text[i]
         /\ r.ok => Kept(r.b, [e EXCEPT !.offset = c.length], s)
<1> DEFINE o == e.offset
           n == e.length
           w == SubSeq(b.text, o + 1, o + n + 1)
           f == [e EXCEPT !.offset = c.length]
<1>1. o \in Nat /\ n \in Nat /\ b.text \in Seq(Int) /\ Len(b.text) \in Nat /\ b.length \in Nat
      /\ s \in Seq(Nat) /\ Len(s) = n /\ c.length \in Nat
  BY DEF Desc, BufOk, Kept
<1>2. o + n < Len(b.text)
  BY SMTT(30), <1>1 DEF BufOk, Kept
<1>3. (\A i \in 1..n : b.text[o + i] = s[i]) /\ b.text[o + n + 1] = 0
  BY DEF Kept
<1>4. f.offset = c.length /\ f.length = n
  BY DEF Desc
<1> HIDE DEF o, n, f
<1>5. w \in Seq(Int) /\ Len(w) = n + 1 /\ \A i \in 1..(n + 1) : w[i] = b.text[o + i]
  <2>1. o + 1 \in 1..(Len(b.text) + 1) /\ o + n + 1 \in 0..Len(b.text) /\ (o + n + 1) - (o + 1) + 1 = n + 1
    BY <1>1, <1>2
  <2>2. Len(w) = n + 1
    BY <1>1, <2>1
  <2>3. ASSUME NEW i \in 1..(n + 1) PROVE w[i] = b.text[o + i] /\ b.text[o + i] \in Int
    <3>1. o + 1 + i - 1 = o + i /\ o + i \in 1..Len(b.text) /\ i \in 1..((o + n + 1) - (o + 1) + 1)
      BY <1>1, <1>2, <2>1
    <3> QED BY <1>1, <2>1, <3>1
  <2>4. w \in Seq(Int)
    BY <1>1, <2>1, SubSeqProperties
  <2> QED BY <2>2, <2>3, <2>4
<1>6. r \in T!AddString(c, w)
  BY DEF o, n
<1> HIDE DEF w
<1>7. r.ok \in BOOLEAN /\ (r.ok => IsGrown(r.b, c, w)) /\ (~ r.ok => r.b = c)
  BY <1>5, <1>6, AddStringAdds
<1>8. CASE ~ r.ok
  BY <1>1, <1>7, <1>8
<1>9. CASE r.ok
  <2>1. /\ BufOk(r.b) /\ r.b.length = c.length + Len(w)
        /\ \A i \in 1..c.length : r.b.text[i] = c.text[i]
        /\ \A i \in 1..Len(w) : r.b.text[c.length + i] = w[i]
    BY <1>7, <1>9 DEF IsGrown
  <2>2. \A i \in 1..n : i \in 1..(n + 1)
    BY <1>1
  <2>3. \A i \in 1..n : r.b.text[c.length + i] = s[i]
    BY <1>3, <1>5, <2>1, <2>2
  <2>4. r.b.text[c.length + n + 1] = 0
    <3>1. n + 1 \in 1..(n + 1) /\ o + (n + 1) = o + n + 1
      BY <1>1
    <3>2. ASSUME NEW m \in Nat PROVE m + (n + 1) = m + n + 1
      BY <1>1
    <3>3. c.length + (n + 1) = c.length + n + 1
      BY <1>1, <3>2
    <3>4. r.b.text[c.length + (n + 1)] = w[n + 1] /\ w[n + 1] = b.text[o + (n + 1)]
      BY <1>5, <2>1, <3>1
    <3>5. b.text[o + (n + 1)] = 0
      BY <1>3, <3>1
    <3> QED BY <3>3, <3>4, <3>5
  <2>5. c.length + n < r.b.length /\ r.b.length >= c.length
    BY <1>1, <1>5, <2>1
  <2>6. Kept(r.b, f, s)
    BY <1>1, <1>4, <2>3, <2>4, <2>5 DEF Kept
  <2> QED BY <1>7, <2>1, <2>5, <2>6 DEF f
<1> QED BY <1>7, <1>8, <1>9

\* p is a record with the fields of a pool.
IsPool(p) ==
  p = [text |-> p.text, all |-> p.all, desc |-> p.desc, gc_threshold |-> p.gc_threshold, lost |-> p.lost]

\* The pool p has the strings ct that the user refers to.
PoolOk(p, ct) ==
  /\ IsPool(p) /\ BufOk(p.text) /\ p.all \in Seq(Descs) /\ Different(p.all)
  /\ p.desc \in [DOMAIN p.desc -> Desc]
  /\ \A d : d \in DOMAIN p.desc <=> Holds(p.all, d)
  /\ \A d : d \in DOMAIN ct <=> d \in DOMAIN p.desc /\ p.desc[d].refcnt > 0
  /\ \A d \in DOMAIN ct : Kept(p.text, p.desc[d], ct[d])

\* gc_desc() keeps the descriptors that are in use.
LEMMA LiveElements ==
  ASSUME NEW p, p.all \in Seq(Descs), Different(p.all)
  PROVE  \E q \in Seq(Descs) :
           /\ Different(q) /\ \A d : Holds(q, d) <=> Holds(p.all, d) /\ I!InUse(p.desc[d])
           /\ I!GcDesc(p) = [p EXCEPT !.all = q, !.desc = I!Only(@, I!Elements(q))]
<1> DEFINE l == Len(p.all)
           U == Seq(Descs)
           Round(u, k) == IF I!InUse(p.desc[p.all[k]]) THEN Append(u, p.all[k]) ELSE u
           rnd == [ku \in (1..l) \X U |-> Round(ku[2], ku[1])]
           h == CHOOSE f : f = [k \in 0..l |-> IF k = 0 THEN <<>> ELSE Round(f[k - 1], k)]
           Good(u, k) == /\ Different(u)
                         /\ \A d : Holds(u, d) <=> (\E j \in 1..k : p.all[j] = d) /\ I!InUse(p.desc[d])
<1>1. l \in Nat /\ \A k \in 1..l : p.all[k] \in Descs
  OBVIOUS
<1>2. ASSUME NEW k \in 1..l, NEW u \in U PROVE Round(u, k) \in U
  <2>1. Append(u, p.all[k]) \in U
    BY <1>1
  <2> QED BY <2>1
<1>3. I!GcDesc(p) = [p EXCEPT !.all = h[l], !.desc = I!Only(@, I!Elements(h[l]))]
  BY DEF I!GcDesc
<1>4. \A u, k : Round(u, k) = IF I!InUse(p.desc[p.all[k]]) THEN Append(u, p.all[k]) ELSE u
  OBVIOUS
<1>5. <<>> \in U /\ Good(<<>>, 0)
  <2>1. Different(<<>>) /\ \A d : ~ Holds(<<>>, d)
    BY DEF Different, Holds
  <2>2. \A d : ~ \E j \in 1..0 : p.all[j] = d
    OBVIOUS
  <2> QED BY <2>1, <2>2
<1>6. ASSUME NEW k \in 1..l, NEW u \in U, Good(u, k - 1) PROVE Good(Round(u, k), k)
  <2> DEFINE c == p.all[k]
  <2>1. c \in Descs /\ (\A j \in 1..(k - 1) : p.all[j] # c)
    <3>1. \A j \in 1..(k - 1) : j \in 1..l /\ j # k
      BY <1>1
    <3> QED BY <1>1, <3>1 DEF Different
  <2>2. \A d : (\E j \in 1..k : p.all[j] = d) <=> (\E j \in 1..(k - 1) : p.all[j] = d) \/ d = c
    <3>1. \A j : j \in 1..k <=> j \in 1..(k - 1) \/ j = k
      BY <1>1
    <3> QED BY <3>1
  <2> HIDE DEF c
  <2>3. CASE I!InUse(p.desc[c])
    <3>1. Round(u, k) = Append(u, c)
      BY <1>4, <2>3 DEF c
    <3>2. ~ Holds(u, c)
      BY <1>6, <2>1
    <3>3. Different(Append(u, c)) /\ \A d : Holds(Append(u, c), d) <=> d = c \/ Holds(u, d)
      BY <1>6, <2>1, <3>2, AppendedElements
    <3>4. \A d : Holds(Append(u, c), d) <=> (\E j \in 1..k : p.all[j] = d) /\ I!InUse(p.desc[d])
      BY <1>6, <2>2, <2>3, <3>3
    <3> QED BY <3>1, <3>3, <3>4
  <2>4. CASE ~ I!InUse(p.desc[c])
    <3>1. Round(u, k) = u
      BY <1>4, <2>4 DEF c
    <3>2. \A d : Holds(u, d) <=> (\E j \in 1..k : p.all[j] = d) /\ I!InUse(p.desc[d])
      BY <1>6, <2>2, <2>4
    <3> QED BY <1>6, <3>1, <3>2
  <2> QED BY <2>3, <2>4
<1>7. \A u : Good(u, l) => Different(u) /\ \A d : Holds(u, d) <=> Holds(p.all, d) /\ I!InUse(p.desc[d])
  BY DEF Holds
<1> HIDE DEF l, U, Round, Good
<1>8. \A k \in 1..l, u \in U : rnd[<<k, u>>] = Round(u, k) /\ rnd[<<k, u>>] \in U
  BY <1>2
<1> HIDE DEF rnd
<1>9. PICK g : IsLoop(g, <<>>, rnd, l, U)
  BY <1>1, <1>5, <1>8, Loop
<1>10. g = [k \in 0..l |-> IF k = 0 THEN <<>> ELSE Round(g[k - 1], k)]
  <2>1. \A k \in 0..l : k # 0 => k - 1 \in 0..l /\ k \in 1..l
    BY <1>1
  <2> QED BY <1>8, <1>9, <2>1 DEF IsLoop
<1>11. h = [k \in 0..l |-> IF k = 0 THEN <<>> ELSE Round(h[k - 1], k)]
  BY <1>10
<1> HIDE DEF h
<1>12. h[0] = <<>> /\ \A k \in 1..l : h[k] = Round(h[k - 1], k)
  <2>1. 0 \in 0..l /\ \A k \in 1..l : k \in 0..l /\ k # 0
    BY <1>1
  <2> QED BY <1>11, <2>1
<1> DEFINE A == {k \in 0..l : h[k] \in U /\ Good(h[k], k)}
<1>13. 0 \in A
  BY <1>1, <1>5, <1>12
<1>14. ASSUME NEW k \in 1..l, k - 1 \in A PROVE k \in A
  <2>1. k \in 0..l
    BY <1>1
  <2> QED BY <1>2, <1>6, <1>12, <1>14, <2>1
<1>15. \A k \in A : h[k] \in U /\ Good(h[k], k)
  OBVIOUS
<1> HIDE DEF A
<1>16. l \in A
  <2>1. \A k \in 0..l : k \in A
    BY <1>1, <1>13, <1>14, Rounds
  <2> QED BY <1>1, <2>1
<1>17. h[l] \in Seq(Descs) /\ Different(h[l]) /\ \A d : Holds(h[l], d) <=> Holds(p.all, d) /\ I!InUse(p.desc[d])
  BY <1>7, <1>15, <1>16 DEF U
<1> QED BY <1>3, <1>17

\* gc_desc() keeps the strings that are in use, and their descriptors only.
LEMMA GcDescKeeps ==
  ASSUME NEW p, NEW ct, PoolOk(p, ct)
  PROVE  /\ PoolOk(I!GcDesc(p), ct) /\ I!GcDesc(p).lost = p.lost
         /\ \A d : d \in DOMAIN ct <=> d \in DOMAIN I!GcDesc(p).desc
<1>1. /\ IsPool(p) /\ BufOk(p.text) /\ p.all \in Seq(Descs) /\ Different(p.all)
      /\ p.desc \in [DOMAIN p.desc -> Desc]
      /\ \A d : d \in DOMAIN p.desc <=> Holds(p.all, d)
      /\ \A d : d \in DOMAIN ct <=> d \in DOMAIN p.desc /\ p.desc[d].refcnt > 0
      /\ \A d \in DOMAIN ct : Kept(p.text, p.desc[d], ct[d])
  BY DEF PoolOk
<1>2. PICK q \in Seq(Descs) :
           /\ Different(q) /\ \A d : Holds(q, d) <=> Holds(p.all, d) /\ I!InUse(p.desc[d])
           /\ I!GcDesc(p) = [p EXCEPT !.all = q, !.desc = I!Only(@, I!Elements(q))]
  BY <1>1, LiveElements
<1> DEFINE w == I!GcDesc(p)
           ds == I!Only(p.desc, I!Elements(q))
<1>3. \A d : d \in I!Elements(q) <=> Holds(q, d)
  <2>1. DOMAIN q = 1..Len(q)
    BY <1>2
  <2> QED BY <2>1 DEF I!Elements, Holds
<1>4. \A d : I!InUse(p.desc[d]) <=> p.desc[d].refcnt > 0
  BY DEF I!InUse
<1>5. \A d : d \in I!Elements(q) <=> d \in DOMAIN ct
  BY <1>1, <1>2, <1>3, <1>4
<1>6. DOMAIN ds = I!Elements(q) /\ \A d \in I!Elements(q) : ds[d] = p.desc[d]
  BY DEF I!Only
<1>7. w = [text |-> p.text, all |-> q, desc |-> ds, gc_threshold |-> p.gc_threshold, lost |-> p.lost]
  BY <1>1, <1>2 DEF IsPool
<1>8. ds \in [DOMAIN ds -> Desc]
  BY <1>1, <1>5, <1>6 DEF I!Only
<1> HIDE DEF w, ds
<1>9. w.text = p.text /\ w.all = q /\ w.desc = ds /\ w.gc_threshold = p.gc_threshold /\ w.lost = p.lost /\ IsPool(w)
  BY <1>7 DEF IsPool
<1>10. PoolOk(w, ct)
  <2>1. \A d : d \in DOMAIN ds <=> Holds(q, d)
    BY <1>3, <1>6
  <2>2. \A d : d \in DOMAIN ct <=> d \in DOMAIN ds /\ ds[d].refcnt > 0
    BY <1>1, <1>5, <1>6
  <2>3. \A d \in DOMAIN ct : Kept(p.text, ds[d], ct[d])
    BY <1>1, <1>5, <1>6
  <2> QED BY <1>1, <1>2, <1>8, <1>9, <2>1, <2>2, <2>3 DEF PoolOk
<1> QED BY <1>5, <1>6, <1>9, <1>10 DEF w

\* The states of the loop of gc_text() on pool p.
CopyState(p) ==
  [p : [text : {p.text}, all : {p.all}, desc : [DOMAIN p.desc -> Desc],
        gc_threshold : {p.gc_threshold}, lost : BOOLEAN],
   new : [text : Seq(Int), length : Nat, failed : BOOLEAN]]

\* After k descriptors: their texts are in the new buffer, unless one was lost,
\* and the other descriptors are as they were.
CopyOk(c, p, ct, k) ==
  /\ c \in CopyState(p) /\ BufOk(c.new)
  /\ \A d \in DOMAIN p.desc : c.p.desc[d].length = p.desc[d].length /\ c.p.desc[d].refcnt = p.desc[d].refcnt
  /\ \A j \in (k + 1)..Len(p.all) : c.p.desc[p.all[j]] = p.desc[p.all[j]]
  /\ ~ c.p.lost => \A j \in 1..k : Kept(c.new, c.p.desc[p.all[j]], ct[p.all[j]])

\* A round of gc_text() copies one text behind the others.
LEMMA CopyTextKeeps ==
  ASSUME TextAssumption, NEW p, NEW ct, PoolOk(p, ct), \A d : d \in DOMAIN ct <=> d \in DOMAIN p.desc,
         NEW k \in 1..Len(p.all), NEW c, CopyOk(c, p, ct, k - 1), NEW w \in I!CopyText(c, p.all[k])
  PROVE  CopyOk(w, p, ct, k)
<1> DEFINE d == p.all[k]
           e == c.p.desc[d]
           f == [e EXCEPT !.offset = c.new.length]
           ds == [c.p.desc EXCEPT ![d] = f]
<1>1. /\ IsPool(p) /\ BufOk(p.text) /\ p.all \in Seq(Descs) /\ Different(p.all)
      /\ p.desc \in [DOMAIN p.desc -> Desc]
      /\ \A x : x \in DOMAIN p.desc <=> Holds(p.all, x)
      /\ \A x \in DOMAIN ct : Kept(p.text, p.desc[x], ct[x])
      /\ Len(p.all) \in Nat
  BY DEF PoolOk
<1>2. /\ c \in CopyState(p) /\ BufOk(c.new) /\ c.new.length \in Nat
      /\ \A x \in DOMAIN p.desc : c.p.desc[x].length = p.desc[x].length /\ c.p.desc[x].refcnt = p.desc[x].refcnt
      /\ \A j \in k..Len(p.all) : c.p.desc[p.all[j]] = p.desc[p.all[j]]
      /\ ~ c.p.lost => \A j \in 1..(k - 1) : Kept(c.new, c.p.desc[p.all[j]], ct[p.all[j]])
  <2>1. (k - 1) + 1 = k
    BY <1>1
  <2> QED BY <2>1 DEF CopyOk, BufOk
<1>3. d \in DOMAIN p.desc /\ d \in DOMAIN ct /\ e = p.desc[d] /\ e \in Desc
  <2>1. k \in k..Len(p.all)
    BY <1>1
  <2>2. d \in DOMAIN p.desc
    BY <1>1 DEF Holds
  <2> QED BY <1>1, <1>2, <2>1, <2>2
<1>4. c.p = [text |-> p.text, all |-> p.all, desc |-> c.p.desc, gc_threshold |-> p.gc_threshold, lost |-> c.p.lost]
      /\ c.p.desc \in [DOMAIN p.desc -> Desc] /\ c.p.lost \in BOOLEAN /\ c.p.text = p.text
  BY SMTT(30), <1>2 DEF CopyState
<1>5. PICK r \in I!T!AddString(c.new, SubSeq(c.p.text.text, e.offset + 1, e.offset + e.length + 1)) :
         w = [p |-> [c.p EXCEPT !.desc[d].offset = c.new.length, !.lost = @ \/ ~ r.ok], new |-> r.b]
  BY DEF I!CopyText
<1>6. r \in T!AddString(c.new, SubSeq(p.text.text, e.offset + 1, e.offset + e.length + 1))
  BY <1>4, <1>5, PoolAddString
<1>7. Kept(p.text, e, ct[d])
  BY SMTT(30), <1>1, <1>3
<1>8. /\ BufOk(r.b) /\ r.ok \in BOOLEAN /\ r.b.length >= c.new.length
      /\ \A i \in 1..c.new.length : r.b.text[i] = c.new.text[i]
      /\ r.ok => Kept(r.b, f, ct[d])
  BY <1>1, <1>2, <1>3, <1>6, <1>7, KeptCopied
<1>9. /\ f \in Desc /\ f.length = e.length /\ f.refcnt = e.refcnt
  BY <1>2, <1>3 DEF Desc
<1>10. w = [p |-> [text |-> p.text, all |-> p.all, desc |-> ds, gc_threshold |-> p.gc_threshold,
                   lost |-> c.p.lost \/ ~ r.ok],
            new |-> r.b]
  <2> DEFINE cp == c.p
             lo == cp.lost \/ ~ r.ok
  <2>1. w = [p |-> [cp EXCEPT !.desc = ds, !.lost = lo], new |-> r.b]
    <3>1. [cp EXCEPT !.desc[d].offset = c.new.length, !.lost = @ \/ ~ r.ok]
            = [cp EXCEPT !.desc = ds, !.lost = lo]
      OBVIOUS
    <3> QED BY <1>5, <3>1
  <2>2. cp = [text |-> p.text, all |-> p.all, desc |-> c.p.desc, gc_threshold |-> p.gc_threshold, lost |-> c.p.lost]
    BY <1>4
  <2> HIDE DEF ds, cp, lo
  <2>3. [cp EXCEPT !.desc = ds, !.lost = lo]
          = [text |-> p.text, all |-> p.all, desc |-> ds, gc_threshold |-> p.gc_threshold, lost |-> lo]
    <3> DEFINE x == [cp EXCEPT !.desc = ds]
    <3>1. x = [text |-> p.text, all |-> p.all, desc |-> ds, gc_threshold |-> p.gc_threshold, lost |-> c.p.lost]
      BY <2>2
    <3>2. [cp EXCEPT !.desc = ds, !.lost = lo] = [x EXCEPT !.lost = lo]
      OBVIOUS
    <3> HIDE DEF x
    <3>3. [x EXCEPT !.lost = lo]
            = [text |-> p.text, all |-> p.all, desc |-> ds, gc_threshold |-> p.gc_threshold, lost |-> lo]
      BY <3>1
    <3> QED BY <3>2, <3>3
  <2> QED BY <2>1, <2>3 DEF lo, cp
<1>11. /\ ds \in [DOMAIN p.desc -> Desc] /\ ds[d] = f
       /\ \A x \in DOMAIN p.desc : x # d => ds[x] = c.p.desc[x]
  BY <1>3, <1>4, <1>9
<1> HIDE DEF ds, f, e
<1> DEFINE lo == c.p.lost \/ ~ r.ok
<1>12. lo \in BOOLEAN /\ (~ lo => ~ c.p.lost /\ r.ok)
  BY <1>4, <1>8
<1>13. /\ w.new = r.b /\ w.p.desc = ds /\ w.p.lost = lo
       /\ w.p = [text |-> p.text, all |-> p.all, desc |-> ds, gc_threshold |-> p.gc_threshold, lost |-> lo]
       /\ w = [p |-> w.p, new |-> w.new]
  BY <1>10
<1> HIDE DEF lo
<1>14. w \in CopyState(p)
  <2>1. r.b \in [text : Seq(Int), length : Nat, failed : BOOLEAN]
    BY <1>8 DEF BufOk
  <2>2. w.p \in [text : {p.text}, all : {p.all}, desc : [DOMAIN p.desc -> Desc],
                 gc_threshold : {p.gc_threshold}, lost : BOOLEAN]
    BY <1>11, <1>12, <1>13
  <2> QED BY <1>13, <2>1, <2>2 DEF CopyState
<1>15. \A x \in DOMAIN p.desc : ds[x].length = p.desc[x].length /\ ds[x].refcnt = p.desc[x].refcnt
  BY <1>2, <1>3, <1>9, <1>11
<1>16. \A j \in 1..Len(p.all) : p.all[j] \in DOMAIN p.desc /\ (j # k => p.all[j] # d)
  BY <1>1 DEF Holds, Different
<1>17. ASSUME NEW j \in (k + 1)..Len(p.all) PROVE ds[p.all[j]] = p.desc[p.all[j]]
  <2>1. j \in 1..Len(p.all) /\ j # k /\ j \in k..Len(p.all)
    BY <1>1
  <2> QED BY <1>2, <1>11, <1>16, <2>1
<1>18. ASSUME ~ lo, NEW j \in 1..k PROVE Kept(r.b, ds[p.all[j]], ct[p.all[j]])
  <2>1. CASE j = k
    BY <1>8, <1>11, <1>12, <1>18, <2>1
  <2>2. CASE j # k
    <3>1. j \in 1..(k - 1) /\ j \in 1..Len(p.all)
      BY <1>1, <2>2
    <3>2. Kept(c.new, ds[p.all[j]], ct[p.all[j]])
      BY <1>2, <1>11, <1>12, <1>16, <1>18, <2>2, <3>1
    <3>3. ds[p.all[j]] \in Desc /\ r.b.length \in Nat
      BY <1>8, <1>11, <1>16, <3>1 DEF BufOk
    <3> QED BY <1>2, <1>8, <3>2, <3>3, KeptGrown
  <2> QED BY <2>1, <2>2
<1> QED BY <1>8, <1>13, <1>14, <1>15, <1>17, <1>18 DEF CopyOk

\* The loop of gc_text() copies all of them, or has lost one.
LEMMA CopyTextsKeep ==
  ASSUME TextAssumption, NEW p, NEW ct, PoolOk(p, ct), p.lost = FALSE,
         \A d : d \in DOMAIN ct <=> d \in DOMAIN p.desc,
         NEW new, BufOk(new), NEW w \in I!CopyTexts(p, new)
  PROVE  CopyOk(w, p, ct, Len(p.all))
<1> DEFINE l == Len(p.all)
           W == CopyState(p)
           U == [k \in 0..l |-> SUBSET {c \in W : CopyOk(c, p, ct, k)}]
           first == {[p |-> p, new |-> new]}
           Round(X, k) == UNION {I!CopyText(c, p.all[k]) : c \in X}
           rnd == [ku \in (1..l) \X SUBSET W |-> Round(ku[2], ku[1])]
           h == CHOOSE f : f = [k \in 0..l |-> IF k = 0 THEN first ELSE Round(f[k - 1], k)]
<1>1. l \in Nat
  BY DEF PoolOk
<1>2. w \in h[l]
  BY DEF I!CopyTexts
<1>3. \A k \in 0..l : \A X : X \in U[k] <=> X \subseteq {c \in W : CopyOk(c, p, ct, k)}
  OBVIOUS
<1>4. \A k \in 0..l : \A X \in U[k] : X \in SUBSET W /\ \A c \in X : CopyOk(c, p, ct, k)
  BY <1>3
<1>5. first \in U[0]
  <2> DEFINE a == [p |-> p, new |-> new]
  <2>1. a.p = p /\ a.new = new /\ a = [p |-> a.p, new |-> a.new]
    OBVIOUS
  <2> HIDE DEF a
  <2>2. p \in [text : {p.text}, all : {p.all}, desc : [DOMAIN p.desc -> Desc],
               gc_threshold : {p.gc_threshold}, lost : BOOLEAN]
    <3>1. IsPool(p) /\ p.desc \in [DOMAIN p.desc -> Desc]
      BY DEF PoolOk
    <3> QED BY <3>1 DEF IsPool
  <2>3. a \in CopyState(p)
    BY <2>1, <2>2 DEF CopyState, BufOk
  <2>4. CopyOk(a, p, ct, 0)
    BY <2>1, <2>3 DEF CopyOk
  <2>5. {a} \subseteq {c \in W : CopyOk(c, p, ct, 0)}
    BY <2>3, <2>4
  <2>6. {a} \in U[0]
    BY <1>1, <1>3, <2>5
  <2> QED BY <2>6 DEF a
<1>6. ASSUME NEW k \in 1..l, NEW X \in U[k - 1] PROVE Round(X, k) \in U[k]
  <2>1. k - 1 \in 0..l /\ k \in 0..l
    BY <1>1
  <2>2. ASSUME NEW y \in Round(X, k) PROVE y \in W /\ CopyOk(y, p, ct, k)
    <3>1. PICK c \in X : y \in I!CopyText(c, p.all[k])
      OBVIOUS
    <3>2. CopyOk(c, p, ct, k - 1)
      BY <1>4, <2>1
    <3>3. CopyOk(y, p, ct, k)
      BY <3>1, <3>2, CopyTextKeeps
    <3> QED BY <3>3 DEF CopyOk
  <2>3. Round(X, k) \subseteq {c \in W : CopyOk(c, p, ct, k)}
    BY <2>2
  <2> QED BY <1>3, <2>1, <2>3
<1> HIDE DEF l, W, U, first, Round
<1>7. \A k \in 1..l : \A u \in U[k - 1] : rnd[<<k, u>>] = Round(u, k) /\ rnd[<<k, u>>] \in U[k]
  <2>1. \A k \in 1..l : k - 1 \in 0..l
    BY <1>1
  <2> QED BY <1>4, <1>6, <2>1
<1> HIDE DEF rnd
<1>8. PICK g : IsStagedLoop(g, first, rnd, l, U)
  BY <1>1, <1>5, <1>7, StagedLoop
<1>9. g = [k \in 0..l |-> IF k = 0 THEN first ELSE Round(g[k - 1], k)]
  <2>1. \A k \in 0..l : k # 0 => k - 1 \in 0..l /\ k \in 1..l
    BY <1>1
  <2> QED BY <1>7, <1>8, <2>1 DEF IsStagedLoop
<1>10. h = [k \in 0..l |-> IF k = 0 THEN first ELSE Round(h[k - 1], k)]
  BY <1>9
<1> HIDE DEF h
<1>11. h[0] = first /\ \A k \in 1..l : h[k] = Round(h[k - 1], k)
  <2>1. 0 \in 0..l /\ \A k \in 1..l : k \in 0..l /\ k # 0
    BY <1>1
  <2> QED BY <1>10, <2>1
<1> DEFINE A == {k \in 0..l : h[k] \in U[k]}
<1>12. 0 \in A
  BY <1>1, <1>5, <1>11
<1>13. ASSUME NEW k \in 1..l, k - 1 \in A PROVE k \in A
  <2>1. k \in 0..l
    BY <1>1
  <2> QED BY <1>6, <1>11, <1>13, <2>1
<1>14. \A k \in A : h[k] \in U[k]
  OBVIOUS
<1> HIDE DEF A
<1>15. l \in A
  <2>1. \A k \in 0..l : k \in A
    BY <1>1, <1>12, <1>13, Rounds
  <2> QED BY <1>1, <2>1
<1> QED BY <1>1, <1>2, <1>4, <1>14, <1>15 DEF l

\* gc_text() keeps the strings, or has lost one.
LEMMA GcTextKeeps ==
  ASSUME TextAssumption, NEW p, NEW ct, PoolOk(p, ct), p.lost = FALSE,
         \A d : d \in DOMAIN ct <=> d \in DOMAIN p.desc, NEW q \in I!GcText(p)
  PROVE  IsPool(q) /\ q.lost \in BOOLEAN /\ (~ q.lost => PoolOk(q, ct))
<1>1. PICK r \in I!T!CapacityHint(I!T!Blank, p.text.length) :
         q \in IF r.ok
               THEN UNION {{[c.p EXCEPT !.text = s.b] : s \in I!T!CapacityHint(c.new, c.new.length)}
                             : c \in I!CopyTexts(p, r.b)}
               ELSE {p}
  BY DEF I!GcText
<1>2. /\ IsPool(p) /\ BufOk(p.text) /\ p.text.length \in Nat /\ p.all \in Seq(Descs) /\ Different(p.all)
      /\ \A x : x \in DOMAIN p.desc <=> Holds(p.all, x)
      /\ \A x \in DOMAIN ct : p.desc[x].refcnt > 0
  BY DEF PoolOk, BufOk
<1>3. Hinted(r, T!Blank, p.text.length)
  BY <1>2, BlankOk, PoolHint, PoolBlank, HintKeeps
<1>4. CASE ~ r.ok
  BY <1>1, <1>2, <1>4
<1>5. CASE r.ok
  <2>1. PICK c \in I!CopyTexts(p, r.b) : \E s \in I!T!CapacityHint(c.new, c.new.length) : q = [c.p EXCEPT !.text = s.b]
    BY <1>1, <1>5
  <2>2. PICK s \in I!T!CapacityHint(c.new, c.new.length) : q = [c.p EXCEPT !.text = s.b]
    BY <2>1
  <2>3. CopyOk(c, p, ct, Len(p.all))
    BY <1>3, <2>1, CopyTextsKeep DEF Hinted
  <2>4. /\ c \in CopyState(p) /\ BufOk(c.new) /\ c.new.length \in Nat
        /\ \A d \in DOMAIN p.desc : c.p.desc[d].refcnt = p.desc[d].refcnt
        /\ ~ c.p.lost => \A j \in 1..Len(p.all) : Kept(c.new, c.p.desc[p.all[j]], ct[p.all[j]])
    BY <2>3 DEF CopyOk, BufOk
  <2>5. c.p = [text |-> p.text, all |-> p.all, desc |-> c.p.desc, gc_threshold |-> p.gc_threshold, lost |-> c.p.lost]
        /\ c.p.desc \in [DOMAIN p.desc -> Desc] /\ c.p.lost \in BOOLEAN
    BY <2>4 DEF CopyState
  <2>6. q = [text |-> s.b, all |-> p.all, desc |-> c.p.desc, gc_threshold |-> p.gc_threshold, lost |-> c.p.lost]
    BY <2>2, <2>5
  <2>7. q.text = s.b /\ q.all = p.all /\ q.desc = c.p.desc /\ q.lost = c.p.lost /\ IsPool(q)
    BY <2>6 DEF IsPool
  <2>8. Hinted(s, c.new, c.new.length)
    BY <2>2, <2>4, PoolHint, HintKeeps
  <2>9. BufOk(s.b) /\ s.b.length = c.new.length /\ \A i \in 1..c.new.length : s.b.text[i] = c.new.text[i]
    <3>1. \A i \in 1..c.new.length : i \in 1..(c.new.length + 1) /\ i <= Len(c.new.text)
      BY <2>4 DEF BufOk
    <3> QED BY <2>8, <3>1 DEF Hinted
  <2>10. ASSUME ~ q.lost, NEW d \in DOMAIN ct PROVE Kept(s.b, c.p.desc[d], ct[d])
    <3>1. PICK j \in 1..Len(p.all) : p.all[j] = d
      BY <1>2 DEF Holds
    <3>2. Kept(c.new, c.p.desc[d], ct[d])
      BY <2>4, <2>7, <2>10, <3>1
    <3>3. c.p.desc[d] \in Desc /\ s.b.length \in Nat /\ s.b.length >= c.new.length
      BY <2>4, <2>5, <2>9
    <3> QED BY <2>4, <2>9, <3>2, <3>3, KeptGrown
  <2>11. \A d : d \in DOMAIN ct <=> d \in DOMAIN q.desc /\ q.desc[d].refcnt > 0
    BY <1>2, <2>4, <2>5, <2>7
  <2>12. q.desc \in [DOMAIN q.desc -> Desc] /\ DOMAIN q.desc = DOMAIN p.desc
    BY <2>5, <2>7
  <2> QED BY <1>2, <2>5, <2>7, <2>9, <2>10, <2>11, <2>12 DEF PoolOk
<1> QED BY <1>3, <1>4, <1>5 DEF Hinted

\* istr_pool_gc() keeps the strings, or has lost one.
LEMMA GcKeeps ==
  ASSUME TextAssumption, NEW p, NEW ct, PoolOk(p, ct), p.lost = FALSE, NEW q \in I!Gc(p)
  PROVE  IsPool(q) /\ q.lost \in BOOLEAN /\ (~ q.lost => PoolOk(q, ct))
<1> DEFINE w == I!GcDesc(p)
<1>1. PoolOk(w, ct) /\ w.lost = FALSE /\ \A d : d \in DOMAIN ct <=> d \in DOMAIN w.desc
  BY GcDescKeeps
<1>2. q \in I!GcText(w)
  BY DEF I!Gc
<1> HIDE DEF w
<1> QED BY <1>1, <1>2, GcTextKeeps

\* The pool has the strings that are referred to, unless one was lost.
IstrInv == lost \in BOOLEAN /\ (~ lost => PoolOk(I!This, content))

\* The threshold for the next collection is of no consequence to the strings.
LEMMA ThresholdSet ==
  ASSUME NEW p, IsPool(p), NEW ct, NEW t
  PROVE  /\ IsPool([p EXCEPT !.gc_threshold = t]) /\ [p EXCEPT !.gc_threshold = t].lost = p.lost
         /\ PoolOk(p, ct) => PoolOk([p EXCEPT !.gc_threshold = t], ct)
<1> DEFINE q == [p EXCEPT !.gc_threshold = t]
<1>1. q = [text |-> p.text, all |-> p.all, desc |-> p.desc, gc_threshold |-> t, lost |-> p.lost]
  BY DEF IsPool
<1> HIDE DEF q
<1>2. q.text = p.text /\ q.all = p.all /\ q.desc = p.desc /\ q.lost = p.lost /\ IsPool(q)
  BY <1>1 DEF IsPool
<1>3. PoolOk(p, ct) => PoolOk(q, ct)
  BY <1>2 DEF PoolOk
<1> QED BY <1>2, <1>3 DEF q

\* The pool of the next state.
LEMMA PoolBecomes ==
  ASSUME NEW q, I!Becomes(q), IsPool(q), q.lost \in BOOLEAN, ~ q.lost => PoolOk(q, content')
  PROVE  IstrInv'
<1>1. text' = q.text /\ all' = q.all /\ desc' = q.desc /\ gc_threshold' = q.gc_threshold /\ lost' = q.lost
  BY DEF I!Becomes
<1>2. I!This' = [text |-> text', all |-> all', desc |-> desc', gc_threshold |-> gc_threshold', lost |-> lost']
  BY DEF I!This
<1>3. I!This' = q
  BY <1>1, <1>2 DEF IsPool
<1> QED BY <1>1, <1>3 DEF IstrInv

\* What the invariant says of the variables.
LEMMA PoolFields ==
  ASSUME IstrInv, ~ lost
  PROVE  /\ PoolOk(I!This, content) /\ IsPool(I!This) /\ I!This.lost = FALSE
         /\ I!This.text = text /\ I!This.all = all /\ I!This.desc = desc
         /\ BufOk(text) /\ all \in Seq(Descs) /\ Different(all) /\ desc \in [DOMAIN desc -> Desc]
         /\ \A d : d \in DOMAIN desc <=> Holds(all, d)
         /\ \A d : d \in DOMAIN content <=> d \in DOMAIN desc /\ desc[d].refcnt > 0
         /\ \A d \in DOMAIN content : Kept(text, desc[d], content[d])
         /\ \A d : d \in I!Elements(all) <=> Holds(all, d)
<1>1. PoolOk(I!This, content) /\ lost = FALSE
  BY DEF IstrInv
<1>2. I!This.text = text /\ I!This.all = all /\ I!This.desc = desc /\ I!This.lost = lost
  BY DEF I!This
<1> USE <1>1, <1>2
<1>3. /\ BufOk(text) /\ all \in Seq(Descs) /\ Different(all) /\ desc \in [DOMAIN desc -> Desc]
      /\ \A d : d \in DOMAIN desc <=> Holds(all, d)
      /\ \A d : d \in DOMAIN content <=> d \in DOMAIN desc /\ desc[d].refcnt > 0
      /\ \A d \in DOMAIN content : Kept(text, desc[d], content[d])
      /\ IsPool(I!This)
  BY DEF PoolOk
<1>4. \A d : d \in I!Elements(all) <=> Holds(all, d)
  <2>1. DOMAIN all = 1..Len(all)
    BY <1>3
  <2> QED BY <2>1 DEF I!Elements, Holds
<1> QED BY <1>3, <1>4

\* Pool p with another text, list and descriptors.
Changed(p, te, al, ds) == [p EXCEPT !.text = te, !.all = al, !.desc = ds]

PoolParts(te, al, ds, ct) ==
  /\ BufOk(te) /\ al \in Seq(Descs) /\ Different(al) /\ ds \in [DOMAIN ds -> Desc]
  /\ \A d : d \in DOMAIN ds <=> Holds(al, d)
  /\ \A d : d \in DOMAIN ct <=> d \in DOMAIN ds /\ ds[d].refcnt > 0
  /\ \A d \in DOMAIN ct : Kept(te, ds[d], ct[d])

\* A pool of parts that fit together is a pool with the strings ct.
LEMMA PoolChanged ==
  ASSUME NEW p, IsPool(p), p.lost = FALSE, NEW te, NEW al, NEW ds, NEW ct, PoolParts(te, al, ds, ct)
  PROVE  PoolOk(Changed(p, te, al, ds), ct) /\ Changed(p, te, al, ds).lost = FALSE
<1> DEFINE q == Changed(p, te, al, ds)
           x == [p EXCEPT !.text = te]
           y == [x EXCEPT !.all = al]
<1>1. q = [y EXCEPT !.desc = ds]
  BY DEF Changed
<1>2. x = [text |-> te, all |-> p.all, desc |-> p.desc, gc_threshold |-> p.gc_threshold, lost |-> p.lost]
  BY DEF IsPool
<1> HIDE DEF x
<1>3. y = [text |-> te, all |-> al, desc |-> p.desc, gc_threshold |-> p.gc_threshold, lost |-> p.lost]
  BY <1>2
<1> HIDE DEF q, y
<1>4. q = [text |-> te, all |-> al, desc |-> ds, gc_threshold |-> p.gc_threshold, lost |-> p.lost]
  BY <1>1, <1>3
<1>5. q.text = te /\ q.all = al /\ q.desc = ds /\ q.lost = p.lost /\ IsPool(q)
  BY <1>4 DEF IsPool
<1>6. PoolOk(q, ct)
  BY <1>5 DEF PoolOk, PoolParts
<1> QED BY <1>5, <1>6 DEF q

-----------------------------------------------------------------------------
\* istr_pool_alloc() puts the text and its terminator behind the others.
LEMMA TextAdded ==
  ASSUME TextAssumption, NEW b, BufOk(b), NEW s \in Strings, NEW r1 \in I!T!AddString(b, s),
         NEW r2 \in IF r1.ok THEN I!T!AddString(r1.b, << 0 >>) ELSE {r1}
  PROVE  /\ BufOk(r2.b) /\ r2.ok \in BOOLEAN /\ r2.b.length \in Nat /\ r2.b.length >= b.length
         /\ \A i \in 1..b.length : r2.b.text[i] = b.text[i]
         /\ r2.ok => Kept(r2.b, [offset |-> b.length, length |-> Len(s), refcnt |-> 1], s)
<1> DEFINE e == [offset |-> b.length, length |-> Len(s), refcnt |-> 1]
           z == << 0 >>
<1>1. s \in Seq(Nat) /\ s \in Seq(Int) /\ Len(s) \in Nat /\ b.length \in Nat
  BY DEF TextAssumption, BufOk
<1>2. z \in Seq(Int) /\ Len(z) = 1 /\ z[1] = 0
  OBVIOUS
<1>3. e.offset = b.length /\ e.length = Len(s)
  OBVIOUS
<1>4. r1 \in T!AddString(b, s)
  BY PoolAddString
<1>5. r1.ok \in BOOLEAN /\ (r1.ok => IsGrown(r1.b, b, s)) /\ (~ r1.ok => r1.b = b)
  BY <1>1, <1>4, AddStringAdds
<1>6. r1.ok => r2 \in I!T!AddString(r1.b, z)
  OBVIOUS
<1> HIDE DEF e, z
<1>7. CASE ~ r1.ok
  <2>1. r2 = r1
    BY <1>7
  <2> QED BY <1>1, <1>5, <1>7, <2>1
<1>8. CASE r1.ok
  <2>1. /\ BufOk(r1.b) /\ r1.b.length = b.length + Len(s)
        /\ \A i \in 1..b.length : r1.b.text[i] = b.text[i]
        /\ \A i \in 1..Len(s) : r1.b.text[b.length + i] = s[i]
    BY <1>5, <1>8 DEF IsGrown
  <2>2. r2 \in T!AddString(r1.b, z)
    BY <1>6, <1>8, PoolAddString
  <2>3. r2.ok \in BOOLEAN /\ (r2.ok => IsGrown(r2.b, r1.b, z)) /\ (~ r2.ok => r2.b = r1.b)
    BY <1>2, <2>1, <2>2, AddStringAdds
  <2>4. r1.b.length \in Nat /\ r1.b.length >= b.length
    BY <1>1, <2>1
  <2>5. CASE ~ r2.ok
    BY <2>1, <2>3, <2>4, <2>5
  <2>6. CASE r2.ok
    <3>1. /\ BufOk(r2.b) /\ r2.b.length = r1.b.length + 1
          /\ \A i \in 1..r1.b.length : r2.b.text[i] = r1.b.text[i]
          /\ \A i \in 1..1 : r2.b.text[r1.b.length + i] = z[i]
      BY <1>2, <2>3, <2>6 DEF IsGrown
    <3>2. r2.b.text[b.length + Len(s) + 1] = 0
      BY <1>1, <1>2, <2>1, <3>1
    <3>3. ASSUME NEW i \in 1..b.length PROVE r2.b.text[i] = b.text[i]
      <4>1. i \in 1..r1.b.length
        BY <1>1, <2>4
      <4> QED BY <2>1, <3>1, <4>1
    <3>4. ASSUME NEW i \in 1..Len(s) PROVE r2.b.text[b.length + i] = s[i]
      <4>1. b.length + i \in 1..r1.b.length
        BY <1>1, <2>1
      <4> QED BY <2>1, <3>1, <4>1
    <3>5. r2.b.length \in Nat /\ r2.b.length >= b.length /\ b.length + Len(s) < r2.b.length
      BY <1>1, <2>1, <2>4, <3>1
    <3>6. Kept(r2.b, e, s)
      BY <1>1, <1>3, <3>2, <3>4, <3>5 DEF Kept
    <3> QED BY <2>3, <3>1, <3>3, <3>5, <3>6 DEF e
  <2> QED BY <2>3, <2>5, <2>6
<1> QED BY <1>5, <1>7, <1>8

\* The collection that may follow an allocation keeps the strings, or has lost
\* one.
LEMMA MaybeGcKeeps ==
  ASSUME TextAssumption, NEW p, NEW ct, PoolOk(p, ct), p.lost = FALSE, NEW q \in I!MaybeGc(p)
  PROVE  IsPool(q) /\ q.lost \in BOOLEAN /\ (~ q.lost => PoolOk(q, ct))
<1>1. CASE q = p
  BY <1>1 DEF PoolOk
<1>2. CASE q # p
  <2>1. PICK w \in I!Gc(p) : q = I!AfterGc(w)
    BY <1>2 DEF I!MaybeGc
  <2>2. IsPool(w) /\ w.lost \in BOOLEAN /\ (~ w.lost => PoolOk(w, ct))
    BY <2>1, GcKeeps
  <2> DEFINE t == IF Len(w.all) * 4 < Threshold THEN Threshold ELSE Len(w.all) * 4
  <2>3. q = [w EXCEPT !.gc_threshold = t]
    BY <2>1 DEF I!AfterGc
  <2> HIDE DEF t
  <2> QED BY <2>2, <2>3, ThresholdSet
<1> QED BY <1>1, <1>2

\* istr_pool_alloc() keeps the invariant, whichever allocation fails.
LEMMA PoolAllocStep ==
  ASSUME TextAssumption, IstrInv, ~ lost, NEW d \in Descs, NEW s \in Strings, I!PoolAlloc(d, s)
  PROVE  IstrInv'
<1> DEFINE e == [offset |-> text.length, length |-> Len(s), refcnt |-> 1]
           ds == I!With(desc, d, e)
           al == <<d>> \o all
           ct == I!With(content, d, s)
           P(b) == Changed(I!This, b, al, ds)
<1>1. /\ PoolOk(I!This, content) /\ IsPool(I!This) /\ I!This.lost = FALSE
      /\ I!This.text = text /\ I!This.all = all /\ I!This.desc = desc
      /\ BufOk(text) /\ all \in Seq(Descs) /\ Different(all) /\ desc \in [DOMAIN desc -> Desc]
      /\ \A x : x \in DOMAIN desc <=> Holds(all, x)
      /\ \A x : x \in DOMAIN content <=> x \in DOMAIN desc /\ desc[x].refcnt > 0
      /\ \A x \in DOMAIN content : Kept(text, desc[x], content[x])
      /\ \A x : x \in I!Elements(all) <=> Holds(all, x)
  BY PoolFields
<1>2. ~ Holds(all, d)
  BY <1>1 DEF I!PoolAlloc
<1>3. PICK r1 \in I!T!AddString(text, s) :
      \E r2 \in IF r1.ok THEN I!T!AddString(r1.b, << 0 >>) ELSE {r1} :
          IF r2.ok
          THEN (\E q \in I!MaybeGc([I!This EXCEPT !.text = r2.b, !.all = <<d>> \o @, !.desc = I!With(@, d, e)]) :
                  I!Becomes(q)) /\ content' = ct
          ELSE I!Becomes([I!This EXCEPT !.text = r2.b]) /\ content' = content
  BY DEF I!PoolAlloc
<1>4. PICK r2 \in IF r1.ok THEN I!T!AddString(r1.b, << 0 >>) ELSE {r1} :
          IF r2.ok
          THEN (\E q \in I!MaybeGc([I!This EXCEPT !.text = r2.b, !.all = <<d>> \o @, !.desc = I!With(@, d, e)]) :
                  I!Becomes(q)) /\ content' = ct
          ELSE I!Becomes([I!This EXCEPT !.text = r2.b]) /\ content' = content
  BY <1>3
<1>5. [I!This EXCEPT !.text = r2.b, !.all = <<d>> \o @, !.desc = I!With(@, d, e)] = P(r2.b)
  BY <1>1 DEF Changed
<1>6. e \in Desc /\ e.refcnt = 1
  BY <1>1 DEF Desc, BufOk, TextAssumption
<1>7. /\ BufOk(r2.b) /\ r2.ok \in BOOLEAN /\ r2.b.length \in Nat /\ r2.b.length >= text.length
      /\ \A i \in 1..text.length : r2.b.text[i] = text.text[i]
      /\ r2.ok => Kept(r2.b, e, s)
  BY <1>1, <1>3, <1>4, TextAdded
<1>8. \A x \in DOMAIN content : Kept(r2.b, desc[x], content[x])
  <2> SUFFICES ASSUME NEW x \in DOMAIN content PROVE Kept(r2.b, desc[x], content[x])
    OBVIOUS
  <2>1. desc[x] \in Desc /\ text.length \in Nat
    BY <1>1 DEF BufOk
  <2> QED BY <1>1, <1>7, <2>1, KeptGrown
<1>9. CASE ~ r2.ok
  <2> DEFINE q == [I!This EXCEPT !.text = r2.b]
  <2>1. I!Becomes(q) /\ content' = content
    BY <1>4, <1>9
  <2>2. q = Changed(I!This, r2.b, all, desc)
    BY <1>1 DEF IsPool, Changed
  <2> HIDE DEF q
  <2>3. PoolParts(r2.b, all, desc, content)
    BY <1>1, <1>7, <1>8 DEF PoolParts
  <2>4. PoolOk(q, content) /\ q.lost = FALSE
    BY <1>1, <2>2, <2>3, PoolChanged
  <2>5. IsPool(q)
    BY <2>4 DEF PoolOk
  <2> QED BY <2>1, <2>4, <2>5, PoolBecomes
<1>10. CASE r2.ok
  <2>1. (\E q \in I!MaybeGc(P(r2.b)) : I!Becomes(q)) /\ content' = ct
    BY <1>4, <1>5, <1>10
  <2>2. PICK q \in I!MaybeGc(P(r2.b)) : I!Becomes(q)
    BY <2>1
  <2>3. /\ DOMAIN ds = DOMAIN desc \cup {d} /\ ds[d] = e /\ \A x \in DOMAIN desc : x # d => ds[x] = desc[x]
        /\ DOMAIN ct = DOMAIN content \cup {d} /\ ct[d] = s /\ \A x \in DOMAIN content : x # d => ct[x] = content[x]
    BY DEF I!With
  <2>4. ds \in [DOMAIN ds -> Desc]
    <3>1. ds = [x \in DOMAIN ds |-> ds[x]]
      BY DEF I!With
    <3>2. \A x \in DOMAIN ds : ds[x] \in Desc
      BY <1>1, <1>6, <2>3
    <3> QED BY <3>1, <3>2
  <2>5. al \in Seq(Descs) /\ Different(al) /\ \A x : Holds(al, x) <=> x = d \/ Holds(all, x)
    BY <1>1, <1>2, PrependedElements
  <2> HIDE DEF ds, ct, al, e
  <2>6. \A x : x \in DOMAIN ds <=> Holds(al, x)
    BY <1>1, <2>3, <2>5
  <2>7. d \notin DOMAIN desc /\ d \notin DOMAIN content
    BY <1>1, <1>2
  <2>8. \A x : x \in DOMAIN ct <=> x \in DOMAIN ds /\ ds[x].refcnt > 0
    BY <1>1, <1>6, <2>3, <2>7
  <2>9. \A x \in DOMAIN ct : Kept(r2.b, ds[x], ct[x])
    BY <1>1, <1>7, <1>8, <1>10, <2>3, <2>7
  <2>10. PoolParts(r2.b, al, ds, ct)
    BY <1>7, <2>4, <2>5, <2>6, <2>8, <2>9 DEF PoolParts
  <2>11. PoolOk(P(r2.b), ct) /\ P(r2.b).lost = FALSE
    BY <1>1, <2>10, PoolChanged
  <2> HIDE DEF P
  <2>12. IsPool(q) /\ q.lost \in BOOLEAN /\ (~ q.lost => PoolOk(q, ct))
    BY <2>2, <2>11, MaybeGcKeeps
  <2> QED BY <2>1, <2>2, <2>12, PoolBecomes
<1> QED BY <1>7, <1>9, <1>10

\* A reference more or less leaves text and list alone.
LEMMA Counted ==
  ASSUME IstrInv, ~ lost, NEW d, Holds(all, d), NEW n \in Nat, NEW ct,
         \A x : x \in DOMAIN ct <=> IF x = d THEN n > 0 ELSE x \in DOMAIN content,
         \A x \in DOMAIN ct : x \in DOMAIN content /\ ct[x] = content[x],
         I!Becomes([I!This EXCEPT !.desc[d].refcnt = n]), content' = ct
  PROVE  IstrInv'
<1> DEFINE f == [desc[d] EXCEPT !.refcnt = n]
           ds == [desc EXCEPT ![d] = f]
           q == [I!This EXCEPT !.desc[d].refcnt = n]
<1>1. /\ PoolOk(I!This, content) /\ IsPool(I!This) /\ I!This.lost = FALSE
      /\ I!This.text = text /\ I!This.all = all /\ I!This.desc = desc
      /\ BufOk(text) /\ all \in Seq(Descs) /\ Different(all) /\ desc \in [DOMAIN desc -> Desc]
      /\ \A x : x \in DOMAIN desc <=> Holds(all, x)
      /\ \A x : x \in DOMAIN content <=> x \in DOMAIN desc /\ desc[x].refcnt > 0
      /\ \A x \in DOMAIN content : Kept(text, desc[x], content[x])
  BY PoolFields
<1>2. d \in DOMAIN desc /\ desc[d] \in Desc
  BY <1>1
<1>3. f \in Desc /\ f.offset = desc[d].offset /\ f.length = desc[d].length /\ f.refcnt = n
  BY <1>2 DEF Desc
<1>4. q = Changed(I!This, text, all, ds)
  <2>1. q = [I!This EXCEPT !.desc = ds]
    BY <1>1
  <2> HIDE DEF ds
  <2> QED BY <1>1, <2>1 DEF IsPool, Changed
<1> HIDE DEF f
<1>5. ds \in [DOMAIN desc -> Desc] /\ ds[d] = f /\ \A x \in DOMAIN desc : x # d => ds[x] = desc[x]
  BY <1>1, <1>2, <1>3
<1> HIDE DEF ds, q
<1>6. \A x : x \in DOMAIN ct <=> x \in DOMAIN ds /\ ds[x].refcnt > 0
  <2>1. DOMAIN ds = DOMAIN desc
    BY <1>5
  <2> QED BY <1>1, <1>2, <1>3, <1>5, <2>1
<1>7. ASSUME NEW x \in DOMAIN ct PROVE Kept(text, ds[x], ct[x])
  <2>1. x \in DOMAIN content /\ ct[x] = content[x] /\ x \in DOMAIN desc
    BY <1>1
  <2>2. ds[x].offset = desc[x].offset /\ ds[x].length = desc[x].length
    BY <1>3, <1>5, <2>1
  <2>3. Kept(text, desc[x], content[x])
    BY <1>1, <2>1
  <2> QED BY <2>1, <2>2, <2>3 DEF Kept
<1>8. \A x : x \in DOMAIN ds <=> Holds(all, x)
  BY <1>1, <1>5
<1>9. ds \in [DOMAIN ds -> Desc]
  BY <1>5
<1>10. PoolParts(text, all, ds, ct)
  BY <1>1, <1>6, <1>7, <1>8, <1>9 DEF PoolParts
<1>11. PoolOk(q, ct) /\ q.lost = FALSE
  BY <1>1, <1>4, <1>10, PoolChanged
<1>12. IsPool(q) /\ I!Becomes(q)
  BY <1>11 DEF PoolOk, q
<1> QED BY <1>11, <1>12, PoolBecomes

\* istr_ref() keeps the invariant.
LEMMA RefStep ==
  ASSUME IstrInv, ~ lost, NEW d \in I!Elements(all), I!Ref(d)
  PROVE  IstrInv'
<1> DEFINE n == desc[d].refcnt + 1
<1>1. /\ I!This.desc = desc /\ \A x : x \in DOMAIN desc <=> Holds(all, x)
      /\ desc \in [DOMAIN desc -> Desc]
      /\ \A x : x \in DOMAIN content <=> x \in DOMAIN desc /\ desc[x].refcnt > 0
      /\ \A x : x \in I!Elements(all) <=> Holds(all, x)
  BY PoolFields
<1>2. Holds(all, d) /\ desc[d] \in Desc /\ desc[d].refcnt \in Nat
  BY <1>1 DEF Desc
<1>3. desc[d].refcnt > 0 /\ content' = content /\ I!Becomes([I!This EXCEPT !.desc[d].refcnt = @ + 1])
  BY DEF I!Ref
<1>4. [I!This EXCEPT !.desc[d].refcnt = @ + 1] = [I!This EXCEPT !.desc[d].refcnt = n]
  BY <1>1
<1>5. n \in Nat /\ n > 0
  BY <1>2
<1> HIDE DEF n
<1>6. d \in DOMAIN content
  BY <1>1, <1>2, <1>3
<1> QED BY <1>2, <1>3, <1>4, <1>5, <1>6, Counted

\* istr_unref() keeps the invariant, and drops the string with its last
\* reference.
LEMMA UnrefStep ==
  ASSUME IstrInv, ~ lost, NEW d \in I!Elements(all), I!Unref(d)
  PROVE  IstrInv'
<1> DEFINE n == desc[d].refcnt - 1
           ct == IF desc[d].refcnt = 1 THEN I!Only(content, DOMAIN content \ {d}) ELSE content
<1>1. /\ I!This.desc = desc /\ \A x : x \in DOMAIN desc <=> Holds(all, x)
      /\ desc \in [DOMAIN desc -> Desc]
      /\ \A x : x \in DOMAIN content <=> x \in DOMAIN desc /\ desc[x].refcnt > 0
      /\ \A x : x \in I!Elements(all) <=> Holds(all, x)
  BY PoolFields
<1>2. Holds(all, d) /\ desc[d] \in Desc /\ desc[d].refcnt \in Nat
  BY <1>1 DEF Desc
<1>3. desc[d].refcnt > 0 /\ content' = ct /\ I!Becomes([I!This EXCEPT !.desc[d].refcnt = @ - 1])
  BY DEF I!Unref
<1>4. [I!This EXCEPT !.desc[d].refcnt = @ - 1] = [I!This EXCEPT !.desc[d].refcnt = n]
  BY <1>1
<1>5. n \in Nat /\ (n > 0 <=> desc[d].refcnt # 1)
  BY <1>2, <1>3
<1>6. d \in DOMAIN content
  BY <1>1, <1>2, <1>3
<1>7. /\ \A x : x \in DOMAIN ct <=> IF x = d THEN desc[d].refcnt # 1 ELSE x \in DOMAIN content
      /\ \A x \in DOMAIN ct : x \in DOMAIN content /\ ct[x] = content[x]
  BY <1>6 DEF I!Only
<1> HIDE DEF n, ct
<1> QED BY <1>2, <1>3, <1>4, <1>5, <1>7, Counted

\* A pool begins without strings.
LEMMA BlankPool ==
  ASSUME TextAssumption
  PROVE  PoolOk([text |-> I!T!Blank, all |-> <<>>, desc |-> <<>>, gc_threshold |-> Threshold, lost |-> FALSE], <<>>)
<1> DEFINE q == [text |-> I!T!Blank, all |-> <<>>, desc |-> <<>>, gc_threshold |-> Threshold, lost |-> FALSE]
           none == <<>>
<1>1. /\ none \in Seq(Descs) /\ Different(none) /\ \A d : ~ Holds(none, d)
      /\ DOMAIN none = {} /\ none \in [{} -> Desc]
  BY DEF Different, Holds
<1>2. BufOk(I!T!Blank)
  BY PoolBlank, BlankOk
<1>3. q.text = I!T!Blank /\ q.all = none /\ q.desc = none /\ IsPool(q)
  BY DEF IsPool
<1> HIDE DEF q, none
<1>4. PoolOk(q, none)
  BY <1>1, <1>2, <1>3 DEF PoolOk
<1> QED BY <1>4 DEF q, none

\* A pool begins as the invariant says.
LEMMA IstrInitInv ==
  ASSUME TextAssumption, I!Init
  PROVE  IstrInv
<1>1. lost = FALSE /\ content = <<>>
      /\ I!This = [text |-> I!T!Blank, all |-> <<>>, desc |-> <<>>, gc_threshold |-> Threshold, lost |-> FALSE]
  BY DEF I!Init, I!This
<1> QED BY <1>1, BlankPool DEF IstrInv

\* Every operation of istr.c keeps the invariant.
LEMMA IstrStepInv ==
  ASSUME TextAssumption, IstrInv, I!Next
  PROVE  IstrInv'
<1>1. ASSUME ~ lost, NEW d \in Descs, NEW s \in Strings, I!PoolAlloc(d, s) PROVE IstrInv'
  BY <1>1, PoolAllocStep
<1>2. ASSUME ~ lost, I!PoolGc PROVE IstrInv'
  <2>1. PICK q \in I!Gc(I!This) : I!Becomes(q)
    BY <1>2 DEF I!PoolGc
  <2>2. content' = content
    BY <1>2 DEF I!PoolGc
  <2>3. PoolOk(I!This, content) /\ I!This.lost = FALSE
    BY <1>2, PoolFields
  <2>4. IsPool(q) /\ q.lost \in BOOLEAN /\ (~ q.lost => PoolOk(q, content))
    BY <2>1, <2>3, GcKeeps
  <2> QED BY <2>1, <2>2, <2>4, PoolBecomes
<1>3. ASSUME ~ lost, NEW d \in I!Elements(all), I!Ref(d) PROVE IstrInv'
  BY <1>3, RefStep
<1>4. ASSUME ~ lost, NEW d \in I!Elements(all), I!Unref(d) PROVE IstrInv'
  BY <1>4, UnrefStep
<1>5. ASSUME I!PoolDestroy PROVE IstrInv'
  <2>1. lost' = FALSE /\ content' = <<>>
        /\ I!This' = [text |-> I!T!Blank, all |-> <<>>, desc |-> <<>>, gc_threshold |-> Threshold, lost |-> FALSE]
    BY <1>5 DEF I!PoolDestroy, I!This
  <2> QED BY <2>1, BlankPool DEF IstrInv
<1> QED BY <1>1, <1>2, <1>3, <1>4, <1>5 DEF I!Next

-----------------------------------------------------------------------------
\* Strings compare equal when they are.
LEMMA CompareEqual ==
  ASSUME NEW a \in Seq(Nat), NEW b \in Seq(Nat)
  PROVE  I!IstrCompare(a, b) = 0 <=> a = b
<1>1. ASSUME NEW n PROVE I!Memcmp(a, b, n) = 0 <=> \A i \in 1..n : a[i] = b[i]
  <2> DEFINE diffs == {i \in 1..n : a[i] # b[i]}
             first == CHOOSE i \in diffs : \A j \in diffs : i <= j
             sign == IF a[first] < b[first] THEN -1 ELSE 1
  <2>1. I!Memcmp(a, b, n) = IF diffs = {} THEN 0 ELSE sign
    BY DEF I!Memcmp
  <2>2. sign # 0
    OBVIOUS
  <2>3. diffs = {} <=> \A i \in 1..n : a[i] = b[i]
    OBVIOUS
  <2> HIDE DEF diffs, sign
  <2> QED BY <2>1, <2>2, <2>3
<1>2. Len(a) \in Nat /\ Len(b) \in Nat
  OBVIOUS
<1>3. CASE Len(a) # Len(b)
  <2>1. a # b
    BY <1>3
  <2>2. CASE Len(a) < Len(b)
    BY <1>2, <2>1, <2>2 DEF I!IstrCompare
  <2>3. CASE Len(a) > Len(b)
    BY <1>2, <2>1, <2>3 DEF I!IstrCompare
  <2> QED BY <1>2, <1>3, <2>2, <2>3
<1>4. CASE Len(a) = Len(b)
  <2>1. I!IstrCompare(a, b) = I!Memcmp(a, b, Len(a))
    BY <1>2, <1>4 DEF I!IstrCompare
  <2>2. a = [i \in 1..Len(a) |-> a[i]] /\ b = [i \in 1..Len(a) |-> b[i]]
    BY <1>4
  <2> QED BY <1>1, <2>1, <2>2
<1> QED BY <1>3, <1>4

\* A pool that is as IstrInv says keeps its strings.
LEMMA IstrInvKept ==
  ASSUME IstrInv
  PROVE  I!StringsKept
<1> SUFFICES ASSUME ~ lost
             PROVE  /\ \A d \in DOMAIN content : d \in I!Elements(all) /\ I!TextKept(d)
                    /\ \A c, d \in DOMAIN content :
                         I!IstrCompare(I!IstrText(text, desc[c]), I!IstrText(text, desc[d])) = 0
                            <=> content[c] = content[d]
  BY DEF I!StringsKept
<1>1. /\ BufOk(text) /\ desc \in [DOMAIN desc -> Desc]
      /\ \A d : d \in DOMAIN desc <=> Holds(all, d)
      /\ \A d : d \in DOMAIN content <=> d \in DOMAIN desc /\ desc[d].refcnt > 0
      /\ \A d \in DOMAIN content : Kept(text, desc[d], content[d])
      /\ \A d : d \in I!Elements(all) <=> Holds(all, d)
  BY PoolFields
<1>2. ASSUME NEW d \in DOMAIN content
      PROVE  I!IstrText(text, desc[d]) = content[d] /\ content[d] \in Seq(Nat)
  <2>1. desc[d] \in Desc /\ Kept(text, desc[d], content[d])
    BY <1>1
  <2> QED BY <1>1, <2>1, KeptText DEF Kept
<1>3. ASSUME NEW d \in DOMAIN content PROVE d \in I!Elements(all) /\ I!TextKept(d)
  <2>1. d \in I!Elements(all) /\ Kept(text, desc[d], content[d])
    BY <1>1
  <2> QED BY <1>2, <2>1 DEF I!TextKept, Kept
<1> QED BY <1>2, <1>3, CompareEqual

-----------------------------------------------------------------------------
(* The theorems: every step is one of the part that the behaviour is about *)

\* A step is one of the part that the behaviour is about.
LEMMA OwnStep ==
  ASSUME [Next]_vars
  PROVE  /\ part' = part
         /\ part = "lists" => ListsStep \/ UNCHANGED vars
         /\ part = "cbuf" => CbufStep \/ UNCHANGED vars
         /\ part = "hash" => HashStep \/ UNCHANGED vars
         /\ part = "slab" => SlabStep \/ UNCHANGED vars
         /\ part = "strbuf" => StrbufStep \/ UNCHANGED vars
         /\ part = "istr" => IstrStep \/ UNCHANGED vars
         /\ part = "vector" => VectorStep \/ UNCHANGED vars
         /\ part = "event" => EventStep \/ UNCHANGED vars
         /\ part = "file" => FileStep \/ UNCHANGED vars
         /\ part = "dns" => DnsStep \/ UNCHANGED vars
<1>1. CASE UNCHANGED vars
  BY <1>1 DEF vars
<1>2. CASE Next
  BY <1>2 DEF Next, ListsStep, CbufStep, HashStep, SlabStep, StrbufStep, IstrStep, VectorStep,
              EventStep, FileStep, DnsStep
<1> QED BY <1>1, <1>2

\* The lists are as ListsInv says in every state.
LEMMA ListsAlways == Spec => [](part = "lists" => ListsInv)
<1>1. Init => (part = "lists" => ListsInv)
  BY ConstantsAssumption, ListsInitInv DEF Init, PartsInit
<1>2. (part = "lists" => ListsInv) /\ [Next]_vars => (part = "lists" => ListsInv)'
  <2> SUFFICES ASSUME part = "lists", ListsInv, [Next]_vars PROVE ListsInv'
    BY OwnStep
  <2>1. CASE ListsStep
    BY <2>1, ConstantsAssumption, ListsStepInv DEF ListsStep
  <2>2. CASE UNCHANGED vars
    <3>1. UNCHANGED <<next, prev, slist, snext, lists, sitems>>
      BY <2>2 DEF vars, structVars, listVars
    <3> QED BY <3>1 DEF ListsInv, RingsInv, SlistInv, L!SlistMatches
  <2> QED BY <2>1, <2>2, OwnStep
<1> QED BY <1>1, <1>2, PTL DEF Spec

\* list.c and slist.c: the links of a list, forwards and backwards, and the
\* pointer to the end of an slist are those of the sequence it should hold, for
\* any number of items and any insertions, removals and moves.
THEOREM ListsCorrect == Spec => []ListsExact
<1>1. (part = "lists" => ListsInv) => ListsExact
  BY ConstantsAssumption, RingsMatch DEF ListsExact, ListsInv, SlistInv
<1> QED BY <1>1, ListsAlways, PTL

\* The buffers are as CbufInv says in every state.
LEMMA CbufAlways == Spec => [](part = "cbuf" => CbufInv)
<1>1. Init => (part = "cbuf" => CbufInv)
  BY ConstantsAssumption, CbufInitInv DEF Init, PartsInit
<1>2. (part = "cbuf" => CbufInv) /\ [Next]_vars => (part = "cbuf" => CbufInv)'
  <2> SUFFICES ASSUME part = "cbuf", CbufInv, [Next]_vars PROVE CbufInv'
    BY OwnStep
  <2>1. CASE CbufStep
    BY <2>1, ConstantsAssumption, CbufStepInv DEF CbufStep
  <2>2. CASE UNCHANGED vars
    <3>1. UNCHANGED <<cbuf, data, queue>>
      BY <2>2 DEF vars, structVars, cbufVars
    <3> QED BY <3>1 DEF CbufInv
  <2> QED BY <2>1, <2>2, OwnStep
<1> QED BY <1>1, <1>2, PTL DEF Spec

\* cbuf.c and cbuf.h: for buffers of any size, what is put in comes out, in order,
\* through wrapped areas of both sides and cbuf_move(), which moves as much as
\* there is and as there is room for.
THEOREM BufferCorrect == Spec => []BufferExact
<1>1. (part = "cbuf" => CbufInv) => BufferExact
  BY ConstantsAssumption, CbufInvExact DEF BufferExact
<1> QED BY <1>1, CbufAlways, PTL

\* The table is as HashInv says in every state.
LEMMA HashAlways == Spec => [](part = "hash" => HashInv)
<1>1. Init => (part = "hash" => HashInv)
  BY ConstantsAssumption, HashInitInv DEF Init, PartsInit
<1>2. (part = "hash" => HashInv) /\ [Next]_vars => (part = "hash" => HashInv)'
  <2> SUFFICES ASSUME part = "hash", HashInv, [Next]_vars PROVE HashInv'
    BY OwnStep
  <2>1. CASE HashStep
    BY <2>1, ConstantsAssumption, HashStepInv DEF HashStep
  <2>2. CASE UNCHANGED vars
    <3>1. UNCHANGED <<size, count, table, stored>>
      BY <2>2 DEF vars, structVars, hashVars
    <3> QED BY <3>1 DEF HashInv, H!This
  <2> QED BY <2>1, <2>2, OwnStep
<1> QED BY <1>1, <1>2, PTL DEF Spec

\* hash.c: for any nodes and any order of insertions, removals and resizings,
\* whichever of them fails, hash_find() finds exactly the node that was inserted
\* last with its key, and the count is that of the nodes.
THEOREM TableCorrect == Spec => []TableExact
<1>1. (part = "hash" => HashInv) => TableExact
  BY ConstantsAssumption, HashInvExact DEF TableExact
<1> QED BY <1>1, HashAlways, PTL

\* The allocator is as SlabInv says in every state.
LEMMA SlabAlways == Spec => [](part = "slab" => SlabInv)
<1>1. Init => (part = "slab" => SlabInv)
  BY ConstantsAssumption, SlabInitInv DEF Init, PartsInit
<1>2. (part = "slab" => SlabInv) /\ [Next]_vars => (part = "slab" => SlabInv)'
  <2> SUFFICES ASSUME part = "slab", SlabInv, [Next]_vars PROVE SlabInv'
    BY OwnStep
  <2>1. CASE SlabStep
    BY <2>1, ConstantsAssumption, SlabStepInv DEF SlabStep
  <2>2. CASE UNCHANGED vars
    <3>1. UNCHANGED <<full, partial, info, held>>
      BY <2>2 DEF vars, structVars, slabVars
    <3> QED BY <3>1 DEF SlabInv
  <2> QED BY <2>1, <2>2, OwnStep
<1> QED BY <1>1, <1>2, PTL DEF Spec

\* The string buffer is as StrbufInv says in every state.
LEMMA StrbufAlways == Spec => [](part = "strbuf" => StrbufInv)
<1>1. Init => (part = "strbuf" => StrbufInv)
  BY ConstantsAssumption, StrbufInitInv DEF Init, PartsInit
<1>2. (part = "strbuf" => StrbufInv) /\ [Next]_vars => (part = "strbuf" => StrbufInv)'
  <2> SUFFICES ASSUME part = "strbuf", StrbufInv, [Next]_vars PROVE StrbufInv'
    BY OwnStep
  <2>1. CASE StrbufStep
    BY <2>1, ConstantsAssumption, StrbufStepInv DEF StrbufStep
  <2>2. CASE UNCHANGED vars
    <3>1. UNCHANGED <<buf, str, torn>>
      BY <2>2 DEF vars, structVars, strbufVars
    <3> QED BY <3>1 DEF StrbufInv
  <2> QED BY <2>1, <2>2, OwnStep
<1> QED BY <1>1, <1>2, PTL DEF Spec

\* The pool is as IstrInv says in every state.
LEMMA IstrAlways == Spec => [](part = "istr" => IstrInv)
<1>1. Init => (part = "istr" => IstrInv)
  BY ConstantsAssumption, IstrInitInv DEF Init, PartsInit
<1>2. (part = "istr" => IstrInv) /\ [Next]_vars => (part = "istr" => IstrInv)'
  <2> SUFFICES ASSUME part = "istr", IstrInv, [Next]_vars PROVE IstrInv'
    BY OwnStep
  <2>1. CASE IstrStep
    BY <2>1, ConstantsAssumption, IstrStepInv DEF IstrStep
  <2>2. CASE UNCHANGED vars
    <3>1. UNCHANGED <<text, all, desc, gc_threshold, content, lost>>
      BY <2>2 DEF vars, structVars, istrVars
    <3> QED BY <3>1 DEF IstrInv, I!This
  <2> QED BY <2>1, <2>2, OwnStep
<1> QED BY <1>1, <1>2, PTL DEF Spec

\* The vector is as VectorInv says in every state.
LEMMA VectorAlways == Spec => [](part = "vector" => VectorInv)
<1>1. Init => (part = "vector" => VectorInv)
  BY ConstantsAssumption, VectorInitInv DEF Init, PartsInit
<1>2. (part = "vector" => VectorInv) /\ [Next]_vars => (part = "vector" => VectorInv)'
  <2> SUFFICES ASSUME part = "vector", VectorInv, [Next]_vars PROVE VectorInv'
    BY OwnStep
  <2>1. CASE VectorStep
    BY <2>1, ConstantsAssumption, VectorStepInv DEF VectorStep
  <2>2. CASE UNCHANGED vars
    <3>1. UNCHANGED <<ptr, length, elems>>
      BY <2>2 DEF vars, structVars, vectorVars
    <3> QED BY <3>1 DEF VectorInv
  <2> QED BY <2>1, <2>2, OwnStep
<1> QED BY <1>1, <1>2, PTL DEF Spec

\* strbuf.c, istr.c, vector.c and slab.c: string buffers and vectors of any length
\* hold what was added to them, whichever allocation fails; a string of a pool
\* keeps its descriptor and its text through any number of garbage collections,
\* unless gc_text() lost one; slab.c gives an object out once and keeps its slab.
THEOREM ContentsCorrect == Spec => []ContentsKept
<1>1. /\ part = "strbuf" => StrbufInv
      /\ part = "istr" => IstrInv
      /\ part = "vector" => VectorInv
      /\ part = "slab" => SlabInv
      => ContentsKept
  BY ConstantsAssumption, StrbufInvHolds, IstrInvKept, VectorInvHolds, SlabExact DEF ContentsKept
<1> QED BY <1>1, StrbufAlways, IstrAlways, VectorAlways, SlabAlways, PTL

-----------------------------------------------------------------------------
(* The event of thr.c *)

\* What every step of a raising or a waiting thread keeps.
EventInv == E!TypeOK /\ E!SleeperIsSignalled

\* What every step of a raising or a waiting thread keeps.
LEMMA EventStepInv ==
  ASSUME EventInv, E!Next
  PROVE  EventInv'
<1> USE DEF EventInv, E!TypeOK, E!SleeperIsSignalled
<1>1. ASSUME NEW t \in Raisers, E!Raise(t) PROVE EventInv'
  BY <1>1 DEF E!Raise, E!MustSignal
<1>2. ASSUME NEW t \in Raisers, E!Signal(t) PROVE EventInv'
  BY <1>2 DEF E!Signal
<1>3. ASSUME NEW b \in BOOLEAN, E!Enter(b) PROVE EventInv'
  BY <1>3 DEF E!Enter
<1>4. CASE E!Check
  BY <1>4 DEF E!Check
<1>5. CASE E!SpuriousWakeup
  BY <1>5 DEF E!SpuriousWakeup
<1>6. CASE E!Timeout
  BY <1>6 DEF E!Timeout
<1>7. CASE E!Clear
  BY <1>7 DEF E!Clear
<1> QED BY <1>1, <1>2, <1>3, <1>4, <1>5, <1>6, <1>7 DEF E!Next

\* Other parts than the event leave it alone.
LEMMA EventFrame ==
  ASSUME [Next]_vars
  PROVE  E!Next \/ UNCHANGED <<state, signalling, waiter, timed>>
  BY DEF Next, vars, ListsStep, CbufStep, HashStep, SlabStep, StrbufStep, IstrStep, VectorStep,
         EventStep, FileStep, DnsStep, ioVars, eventVars

\* The event is as EventInv says in every state.
LEMMA EventAlways == Spec => []EventInv
<1>1. Init => EventInv
  BY DEF Init, PartsInit, E!Init, EventInv, E!TypeOK, E!SleeperIsSignalled
<1>2. EventInv /\ [Next]_vars => EventInv'
  <2> SUFFICES ASSUME EventInv, [Next]_vars PROVE EventInv'
    OBVIOUS
  <2>1. CASE E!Next
    BY <2>1, EventStepInv
  <2>2. CASE UNCHANGED <<state, signalling, waiter, timed>>
    BY <2>2 DEF EventInv, E!TypeOK, E!SleeperIsSignalled
  <2> QED BY <2>1, <2>2, EventFrame
<1> QED BY <1>1, <1>2, PTL DEF Spec

\* The signal that follows the unlock in thr_event_raise() cannot be lost, however
\* many threads raise the event and whatever is cleared in between.
THEOREM NoSignalLost == Spec => []E!SleeperIsSignalled
<1>1. EventInv => E!SleeperIsSignalled
  BY DEF EventInv
<1> QED BY <1>1, EventAlways, PTL

\* Seen by its callers the event is the flag that Runq and Adns take it for, as
\* far as safety goes: a wait passes only while e->state is up, whatever signals,
\* spurious wakeups and timeouts did in between, and only thr_event_clear(),
\* called after a wait that passed, takes the flag down.
THEOREM ThrEventImplementsFlag == Spec => E!Flag!SafeSpec
<1>1. Init => E!Flag!Init
  BY DEF Init, PartsInit, E!Init, E!Flag!Init
<1>2. EventInv /\ [Next]_vars => [E!Flag!Next]_(E!Flag!eventVars)
  <2> SUFFICES ASSUME E!TypeOK, [Next]_vars
               PROVE  E!Flag!Next \/ UNCHANGED E!Flag!eventVars
    BY DEF EventInv
  <2> USE DEF E!TypeOK
  <2>1. ASSUME NEW t \in Raisers, E!Raise(t) PROVE E!Flag!Raise
    BY <2>1 DEF E!Raise, E!Flag!Raise
  <2>2. ASSUME NEW t \in Raisers, E!Signal(t) PROVE UNCHANGED E!Flag!eventVars
    BY <2>2 DEF E!Signal, E!Flag!eventVars
  <2>3. ASSUME NEW b \in BOOLEAN, E!Enter(b) PROVE E!Flag!Enter
    BY <2>3 DEF E!Enter, E!Flag!Enter
  <2>4. CASE E!Check
    <3>1. CASE state = 1
      BY <2>4, <3>1 DEF E!Check, E!Flag!Pass, E!Flag!Next
    <3>2. CASE state /= 1
      BY <2>4, <3>2 DEF E!Check, E!Flag!eventVars
    <3> QED
      BY <3>1, <3>2
  <2>5. CASE E!SpuriousWakeup
    BY <2>5 DEF E!SpuriousWakeup, E!Flag!eventVars
  <2>6. CASE E!Timeout
    BY <2>6 DEF E!Timeout, E!Flag!GiveUp, E!Flag!Next
  <2>7. CASE E!Clear
    BY <2>7 DEF E!Clear, E!Flag!Clear, E!Flag!Next
  <2>8. CASE UNCHANGED <<state, signalling, waiter, timed>>
    BY <2>8 DEF E!Flag!eventVars
  <2>9. QED
    BY <2>1, <2>2, <2>3, <2>4, <2>5, <2>6, <2>7, <2>8, EventFrame DEF E!Next, E!Flag!Next
<1> QED BY <1>1, <1>2, EventAlways, PTL DEF Spec, E!Flag!SafeSpec

\* A timeout is its seconds and its milliseconds, of which there are less than
\* a second; so one carry is enough.
LEMMA SecondsAndRest ==
  ASSUME NEW timeout_ms \in Nat
  PROVE  /\ timeout_ms % 1000 \in Nat /\ timeout_ms % 1000 < 1000 /\ timeout_ms \div 1000 \in Nat
         /\ timeout_ms = 1000 * (timeout_ms \div 1000) + (timeout_ms % 1000)
<1>1. timeout_ms % 1000 \in Nat /\ timeout_ms % 1000 < 1000 /\ timeout_ms \div 1000 \in Nat
  BY SMT
<1>2. timeout_ms = 1000 * (timeout_ms \div 1000) + (timeout_ms % 1000)
  BY SMT
<1> QED
  BY SMT, <1>1, <1>2

\* Whenever a timed wait begins and whatever its timeout, the deadline that
\* thr_event_wait_timeout() computes is a valid time and the right one.
THEOREM TimedWaitExact ==
  \A sec, usec, timeout_ms \in Nat :
    usec < 1000000 => E!DeadlineExact(sec, usec, timeout_ms)
<1> SUFFICES ASSUME NEW sec \in Nat, NEW usec \in Nat, NEW timeout_ms \in Nat,
                    usec < 1000000
             PROVE  E!DeadlineExact(sec, usec, timeout_ms)
  BY SMT
<1> DEFINE q == timeout_ms \div 1000
           m == timeout_ms % 1000
           us == usec + timeout_ms * 1000
<1>1. /\ m \in Nat /\ m < 1000 /\ q \in Nat
      /\ timeout_ms = 1000 * q + m
  BY SMT, SecondsAndRest
<1>2. us = 1000000 * q + (usec + 1000 * m)
  BY SMT, <1>1
<1> HIDE DEF q, m
<1>3. CASE usec + 1000 * m >= 1000000
  <2>1. us \div 1000000 = q + 1 /\ us % 1000000 = usec + 1000 * m - 1000000
    BY SMT, <1>1, <1>2, <1>3
  <2>2. E!Carries(usec * 1000 + m * 1000000)
    BY SMT, <1>1, <1>3 DEF E!Carries
  <2> QED
    BY SMT, <1>1, <1>3, <2>1, <2>2 DEF E!DeadlineExact, E!Deadline, q, m
<1>4. CASE usec + 1000 * m < 1000000
  <2>1. us \div 1000000 = q /\ us % 1000000 = usec + 1000 * m
    BY SMT, <1>1, <1>2, <1>4
  <2>2. ~ E!Carries(usec * 1000 + m * 1000000)
    BY SMT, <1>1, <1>4 DEF E!Carries
  <2> QED
    BY SMT, <1>1, <1>4, <2>1, <2>2 DEF E!DeadlineExact, E!Deadline, q, m
<1> QED
  BY SMT, <1>1, <1>3, <1>4

-----------------------------------------------------------------------------
(* Files and the resolver *)

FP == INSTANCE AfileProofs
DP == INSTANCE AdnsProofs

\* AfileProofs is about the module Afile that Components has as F.
LEMMA SameFile == (F!Next <=> FP!Next) /\ (F!FileServed <=> FP!FileServed)
<1>1. F!Next <=> FP!Next
  BY DEF F!Next, FP!Next, F!Op, FP!Op, F!Request, FP!Request, F!Ending, FP!Ending,
         F!Cancel, FP!Cancel, F!WaitProcess, FP!WaitProcess, F!WaitStep, FP!WaitStep,
         F!Report, FP!Report, F!Refuse, FP!Refuse, F!RequestWait, FP!RequestWait,
         F!First, FP!First, F!Perform, FP!Perform, F!Callback, FP!Callback,
         F!CancelWait, FP!CancelWait, F!Drop, FP!Drop, F!IoqCb, FP!IoqCb, F!EndWaitAll,
         FP!EndWaitAll, F!EndWaitSome, FP!EndWaitSome, F!Rewait, FP!Rewait, F!Wait,
         FP!Wait, F!EventOf, FP!EventOf, F!Fails, FP!Fails, F!FieldOf, FP!FieldOf,
         F!fdObject, FP!fdObject, F!Remaining, FP!Remaining, F!Called, FP!Called,
         F!Forget, FP!Forget, F!ReadyFor, FP!ReadyFor, F!FlagsAfter, FP!FlagsAfter,
         F!RestWait, FP!RestWait, F!Change, FP!Change
<1>2. F!FileServed <=> FP!FileServed
  BY DEF F!FileServed, FP!FileServed, F!FileRequestsOnce, FP!FileRequestsOnce,
         F!FileWaitArmed, FP!FileWaitArmed, F!FileFailureTold, FP!FileFailureTold, F!CancelLost,
         FP!CancelLost, F!Op,
         FP!Op, F!EventOf, FP!EventOf, F!Cardinality, FP!Cardinality
<1> QED BY <1>1, <1>2

\* AdnsProofs is about the module Adns that Components has as D.
LEMMA SameResolver == (D!Next <=> DP!Next) /\ (D!ResolverServes <=> DP!ResolverServes)
<1>1. D!Next <=> DP!Next
  BY DEF D!Next, DP!Next, D!WorkerStep, DP!WorkerStep, D!TaskStep, DP!TaskStep, D!Alive,
         DP!Alive, D!Ask, DP!Ask, D!Cancel, DP!Cancel, D!RaiseStep, DP!RaiseStep,
         D!Destroy, DP!Destroy, D!Rest, DP!Rest, D!PeekQuit, DP!PeekQuit, D!PeekEmpty,
         DP!PeekEmpty, D!PeekRequest, DP!PeekRequest, D!WaitEvent, DP!WaitEvent,
         D!ClearEvent, DP!ClearEvent, D!FulfillDrop, DP!FulfillDrop, D!FulfillRemove,
         DP!FulfillRemove, D!FulfillFinish, DP!FulfillFinish, D!CancelExec,
         DP!CancelExec, D!Callback, DP!Callback, D!ResultAtAsk, DP!ResultAtAsk,
         D!AskRaises, DP!AskRaises, D!CancelTakes, DP!CancelTakes, D!ListRemove,
         DP!ListRemove, D!Raise, DP!Raise, D!QuitRaisers, DP!QuitRaisers, D!adnsVars,
         DP!adnsVars, D!outcomeVars, DP!outcomeVars, D!At, DP!At, D!StillFirst, DP!StillFirst
<1>2. D!ResolverServes <=> DP!ResolverServes
  BY DEF D!ResolverServes, DP!ResolverServes, D!AskedOnce, DP!AskedOnce, D!OwnAnswer,
         DP!OwnAnswer, D!ResolverAwake, DP!ResolverAwake, D!Alive, DP!Alive, D!Holders,
         DP!Holders
<1> QED BY <1>1, <1>2

\* afile_posix.c, as AfileProofs has it, for the behaviours of Components: every
\* request is called back at most once, and waited for but after a needless
\* afile_cancel(); what a write that did not come to write() reports is its own.
THEOREM FilesServed == Spec => []FileServed
<1> DEFINE P == part = "file"
<1>1. Init /\ P => FP!Init
  BY DEF Init, PartsInit, F!Init, FP!Init, F!WaitInit, FP!WaitInit, F!Op, FP!Op
<1>2. P /\ [Next]_vars => [FP!Next]_(FP!afileVars) /\ P'
  <2> SUFFICES ASSUME P, [Next]_vars PROVE (FP!Next \/ UNCHANGED FP!afileVars) /\ P'
    OBVIOUS
  <2>1. CASE FileStep
    BY <2>1, SameFile DEF FileStep
  <2>2. CASE UNCHANGED vars
    BY <2>2 DEF vars, FP!afileVars, ioVars, fileVars, FP!fdObject
  <2> QED BY <2>1, <2>2, OwnStep
<1>3. ~ P /\ [Next]_vars => ~ P'
  BY OwnStep
<1>4. (P => FP!FileServed) => FileServed
  BY SameFile DEF FileServed
<1>5. FP!Spec => []FP!FileServed
  BY FP!FileServes
<1> HIDE DEF P
<1> QED BY <1>1, <1>2, <1>3, <1>4, <1>5, PTL DEF Spec, FP!Spec

\* adns.c, as AdnsProofs has it, for the behaviours of Components: one callback
\* for every question with what belongs to it, unless a late cancellation (or, for
\* the second, a question put during the lookup of the one before) comes between,
\* and no sleep while there is something to do.
THEOREM ResolverServed == Spec => []ResolverServes
<1> DEFINE P == part = "dns"
<1>1. Init /\ P => DP!Init
  BY DEF Init, PartsInit, D!Init, DP!Init
<1>2. P /\ [Next]_vars => [DP!Next]_(DP!adnsVars) /\ P'
  <2> SUFFICES ASSUME P, [Next]_vars PROVE (DP!Next \/ UNCHANGED DP!adnsVars) /\ P'
    OBVIOUS
  <2>1. CASE DnsStep
    BY <2>1, SameResolver DEF DnsStep
  <2>2. CASE UNCHANGED vars
    BY <2>2 DEF vars, DP!adnsVars, ioVars, dnsVars
  <2> QED BY <2>1, <2>2, OwnStep
<1>3. ~ P /\ [Next]_vars => ~ P'
  BY OwnStep
<1>4. (P => DP!ResolverServes) => ResolverServes
  BY SameResolver DEF ResolverServes
<1>5. DP!Spec => []DP!ResolverServes
  <2>1. DP!NoneDistinct
    BY ConstantsAssumption DEF DP!NoneDistinct
  <2> QED BY <2>1, DP!ResolverServesAll
<1> HIDE DEF P
<1> QED BY <1>1, <1>2, <1>3, <1>4, <1>5, PTL DEF Spec, DP!Spec
=============================================================================
