------------------------------- MODULE Arena -------------------------------
(***************************************************************************)
(* The buddy allocator, src/src/arena.c.  Memory is an array of units;     *)
(* HeaderSize units hold a struct arena_block, a block of order o has 2^o  *)
(* units, and Orders stands for ARENA_ORDERS.  header is what lies in      *)
(* memory at the places where a block has ever started: is_free and order, *)
(* kept there, and read as such, after blocks were joined.  free[o] is the *)
(* list of free blocks of order o, by offset, last linked first.           *)
(*                                                                         *)
(* What is left of the memory when it holds no further block is never      *)
(* written.  If a header fits into it, arena_free() may read it; Slack is  *)
(* the set of headers that this memory may happen to look like.            *)
(***************************************************************************)
EXTENDS Integers, Sequences, FiniteSets

CONSTANTS Orders, HeaderSize, ArenaSize, Slack,
          Sizes      \* what the user asks for

VARIABLES free, header,
          owned,     \* offsets of the blocks the user has, with the size asked for
          slack      \* what the memory after the last block looked like at first

vars == <<free, header, owned, slack>>

Order == 0..(Orders - 1)

(* The blocks arena_init() cuts the memory into: pairs of offset and order *)
(* in the order in which they are linked.                                  *)
RECURSIVE Cut(_, _, _)
Cut(base, left, o) ==
    IF o < 0 \/ 2^o < HeaderSize THEN <<>>
    ELSE IF 2^o > left THEN Cut(base, left, o - 1)
    ELSE <<[at |-> base, order |-> o]>> \o Cut(base + 2^o, left - 2^o, o)

Blocks0 == Cut(0, ArenaSize, Orders - 1)
CutAt == {Blocks0[i].at : i \in DOMAIN Blocks0}
SlackAt == LET b == Blocks0[Len(Blocks0)] IN b.at + 2^b.order

Hdr(isFree, o) == [free |-> isFree, order |-> o]
Without(s, e) == SelectSeq(s, LAMBDA a : a # e)

(* Headers are normalised to NoHeader where none has been written. *)
NoHeader == Hdr(FALSE, 0)

Init ==
    /\ slack \in Slack
    /\ header = [a \in 0..(ArenaSize - 1) |->
                   IF a \in CutAt
                   THEN Hdr(TRUE, (CHOOSE b \in {Blocks0[i] : i \in DOMAIN Blocks0} : b.at = a).order)
                   ELSE IF a = SlackAt THEN slack ELSE NoHeader]
    /\ free = [o \in Order |->
                 LET bs == SelectSeq(Blocks0, LAMBDA b : b.order = o)
                 IN  [i \in DOMAIN bs |-> bs[Len(bs) - i + 1].at]]
    /\ owned = <<>>

-----------------------------------------------------------------------------
(* The smallest order from 1 whose block takes size and header; none if    *)
(* that is Orders.                                                         *)
Least(S, default) == IF S = {} THEN default ELSE CHOOSE a \in S : \A b \in S : a <= b

OrderFor(size) ==
    IF size >= 2^(Orders - 1) THEN Orders
    ELSE Least({o \in 1..(Orders - 1) : 2^o >= size + HeaderSize}, Orders)

FreeFrom(st, o) == Least({i \in o..(Orders - 1) : st.free[i] # <<>>}, Orders)

(* Split the first block of order i until there is one of order o. *)
RECURSIVE Split(_, _, _)
Split(st, i, o) ==
    IF i = o THEN st
    ELSE LET b == Head(st.free[i])
             c == b + 2^(i - 1)
         IN  Split([free |-> [st.free EXCEPT ![i] = Tail(@), ![i - 1] = <<c, b>> \o @],
                    header |-> [st.header EXCEPT ![b].order = i - 1, ![c] = Hdr(TRUE, i - 1)]],
                   i - 1, o)

MarkUsed(hdrs, b) == [hdrs EXCEPT ![b].free = FALSE]

(* A set with the new state and the block, empty if there is none. *)
Alloc(st, size) ==
    LET o == OrderFor(size)
        i == FreeFrom(st, o)
        s == Split(st, i, o)
        b == Head(s.free[o])
    IN  IF o >= Orders \/ i >= Orders THEN {}
        ELSE {[free |-> [s.free EXCEPT ![o] = Tail(@)],
               header |-> MarkUsed(s.header, b), at |-> b]}

BuddyOf(b, o) == IF (b \div 2^o) % 2 = 0 THEN b + 2^o ELSE b - 2^o

InsideArena(c) == c + HeaderSize <= ArenaSize

(* Mutation: the order of the buddy is not compared. *)
CanJoinAny(st, c, o) == st.header[c].free

CanJoin(st, c, o) == st.header[c].free /\ st.header[c].order = o

RECURSIVE Join(_, _, _)
Join(st, b, o) ==
    LET c == BuddyOf(b, o)
        low == IF b > c THEN c ELSE b
    IN  IF o + 1 >= Orders \/ ~InsideArena(c) THEN st
        ELSE IF ~CanJoin(st, c, o) THEN st
        ELSE Join([free |-> [st.free EXCEPT ![o] = Without(Without(@, b), c), ![o + 1] = <<low>> \o @],
                   header |-> [st.header EXCEPT ![low].order = o + 1]],
                  low, o + 1)

Free(st, b) ==
    LET o == st.header[b].order
    IN  Join([free |-> [st.free EXCEPT ![o] = <<b>> \o @],
              header |-> [st.header EXCEPT ![b].free = TRUE]], b, o)

-----------------------------------------------------------------------------
This == [free |-> free, header |-> header]
Becomes(st) == free' = st.free /\ header' = st.header /\ UNCHANGED slack

Owns(b, size) == [a \in DOMAIN owned \cup {b} |-> IF a = b THEN size ELSE owned[a]]
Minus(f, b) == [a \in DOMAIN f \ {b} |-> f[a]]

ArenaAlloc(size) ==
    \E r \in Alloc(This, size) : Becomes(r) /\ owned' = Owns(r.at, size)

ArenaFree(b) ==
    /\ Becomes(Free(This, b))
    /\ owned' = Minus(owned, b)

(* The order of a block that need not be moved. *)
AboutRight(have, want) == have = want \/ want + 1 = have

ArenaRealloc(b, size) ==
    /\ OrderFor(size) < Orders
    /\ IF AboutRight(header[b].order, OrderFor(size))
       THEN UNCHANGED <<free, header, slack>> /\ owned' = Owns(b, size)
       ELSE \E r \in Alloc(This, size) :
               /\ Becomes(Free(r, b))
               /\ owned' = Minus(Owns(r.at, size), b)

CountFree ==
    LET Sum[o \in 0..Orders] ==
            IF o = 0 THEN 0 ELSE Sum[o - 1] + Len(free[o - 1]) * (2^(o - 1) - HeaderSize)
    IN  Sum[Orders]

Next ==
    \/ \E size \in Sizes : ArenaAlloc(size)
    \/ \E b \in DOMAIN owned : ArenaFree(b)
    \/ \E b \in DOMAIN owned, size \in Sizes : ArenaRealloc(b, size)

Spec == Init /\ [][Next]_vars

-----------------------------------------------------------------------------
Listed == {<<a, o>> \in (0..(ArenaSize - 1)) \X Order : \E i \in DOMAIN free[o] : free[o][i] = a}
Used == {<<a, header[a].order>> : a \in DOMAIN owned}
Units(blk) == {blk[1] + i : i \in 0..(2^blk[2] - 1)}

(* The memory after the last block does not happen to look like a free     *)
(* block of the last block's order, its buddy.  Otherwise arena_free()     *)
(* joins the last block with memory that is no block.                      *)
SlackHarmless ==
    InsideArena(SlackAt) => ~(slack.free /\ slack.order = Blocks0[Len(Blocks0)].order)

(* Free blocks and blocks of the user together tile the memory that        *)
(* arena_init() has cut up: none overlap, none are lost, each is aligned   *)
(* to its size, the user's have room for what was asked for, and           *)
(* arena_count_free() counts what the free ones could still hold.          *)
BlocksTile ==
    SlackHarmless =>
    /\ \A p, q \in Listed \cup Used : p # q => Units(p) \cap Units(q) = {}
    /\ Listed \cap Used = {}
    /\ UNION {Units(p) : p \in Listed \cup Used} = 0..(SlackAt - 1)
    /\ \A p \in Listed \cup Used : p[1] % 2^p[2] = 0
    /\ \A a \in DOMAIN owned : owned[a] + HeaderSize <= 2^header[a].order
    /\ CountFree = Cardinality(UNION {Units(p) : p \in Listed}) - HeaderSize * Cardinality(Listed)

(* Freeing joins as far as possible: no free block has a free buddy of its *)
(* order, so when everything is freed the arena is as it was at first.     *)
Joined ==
    SlackHarmless =>
    /\ \A p \in Listed : p[2] + 1 < Orders => <<BuddyOf(p[1], p[2]), p[2]>> \notin Listed
    /\ owned = <<>> => Listed = {<<Blocks0[i].at, Blocks0[i].order>> : i \in DOMAIN Blocks0}

(* What a header says is what the lists say: a block is marked free when   *)
(* and only when it is in the list of its order, once.                     *)
HeadersTrue ==
    SlackHarmless =>
    /\ \A p \in Listed : header[p[1]] = Hdr(TRUE, p[2])
    /\ \A a \in DOMAIN owned : ~header[a].free
    /\ \A o \in Order : Len(free[o]) = Cardinality({p \in Listed : p[2] = o})

=============================================================================
