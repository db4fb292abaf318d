-------------------------------- MODULE Cbuf -------------------------------
(***************************************************************************)
(* The circular buffer, src/src/cbuf.c and cbuf.h: two buffers, "in" and   *)
(* "out", with their memory.  A producer and a consumer either use the     *)
(* contiguous areas at the tail and the head and advance the indices, or   *)
(* the helpers that copy.  Loops of the helpers are recursive functions of *)
(* the number of rounds left; each round moves at least one byte.          *)
(***************************************************************************)
EXTENDS Naturals, Sequences

CONSTANTS Capacity,     \* capacity of each buffer, by name
          Bytes         \* the values of a byte

Buffer == {"in", "out"}

VARIABLES cbuf,         \* head and size of each buffer
          data,         \* its memory, indexed from 0
          queue         \* what it should hold, oldest first

vars == <<cbuf, data, queue>>

Lesser(a, b) == IF a < b THEN a ELSE b

CbufAvail(b, c) == Capacity[b] - c.size
CbufTail(b, c) == (c.head + c.size) % Capacity[b]
CbufHeadSize(b, c) == Lesser(Capacity[b] - c.head, c.size)

CbufTailSize(b, c) ==
    LET t == CbufTail(b, c) IN Capacity[b] - (IF t > c.size THEN t ELSE c.size)

(* Mutation: the head is not wrapped around. *)
HeadAdvanceOn(b, c, count) ==
    LET n == Lesser(count, c.size)
    IN  [head |-> c.head + n, size |-> c.size - n]

HeadAdvance(b, c, count) ==
    LET n == Lesser(count, c.size)
    IN  [head |-> (c.head + n) % Capacity[b], size |-> c.size - n]

TailAdvance(b, c, count) == [c EXCEPT !.size = @ + Lesser(count, CbufAvail(b, c))]

(* memcpy() of s into memory d at offset at. *)
Written(d, at, s) == [i \in DOMAIN d |-> IF at <= i /\ i < at + Len(s) THEN s[i - at + 1] ELSE d[i]]
Read(d, at, n) == [i \in 1..n |-> d[at + i - 1]]

Init ==
    /\ cbuf = [b \in Buffer |-> [head |-> 0, size |-> 0]]
    /\ data = [b \in Buffer |-> [i \in 0..(Capacity[b] - 1) |-> CHOOSE v \in Bytes : TRUE]]
    /\ queue = [b \in Buffer |-> <<>>]

CbufClear(b) ==
    /\ cbuf' = [cbuf EXCEPT ![b] = [head |-> 0, size |-> 0]]
    /\ queue' = [queue EXCEPT ![b] = <<>>]
    /\ UNCHANGED data

(* The producer writes into the contiguous area at the tail and advances. *)
Produce(b, s) ==
    /\ Len(s) <= CbufTailSize(b, cbuf[b])
    /\ data' = [data EXCEPT ![b] = Written(@, CbufTail(b, cbuf[b]), s)]
    /\ cbuf' = [cbuf EXCEPT ![b] = TailAdvance(b, @, Len(s))]
    /\ queue' = [queue EXCEPT ![b] = @ \o s]

(* The consumer advances over what it has read; more than there is, is     *)
(* cut.                                                                    *)
Consume(b, count) ==
    /\ cbuf' = [cbuf EXCEPT ![b] = HeadAdvance(b, @, count)]
    /\ queue' = [queue EXCEPT ![b] = SubSeq(@, Lesser(count, Len(@)) + 1, Len(@))]
    /\ UNCHANGED data

-----------------------------------------------------------------------------
(* The helpers.  st is the buffer's indices and memory, the bytes still to *)
(* come or already taken.                                                  *)

MoveInRound(b, st) ==
    LET n == Lesser(CbufTailSize(b, st.c), Len(st.s))
    IN  [c |-> TailAdvance(b, st.c, n),
         d |-> Written(st.d, CbufTail(b, st.c), SubSeq(st.s, 1, n)),
         s |-> SubSeq(st.s, n + 1, Len(st.s))]

MoveInLoop(b, st0) ==
    LET loop[k \in 0..Len(st0.s)] == IF k = 0 THEN st0 ELSE MoveInRound(b, loop[k - 1])
    IN  loop[Len(st0.s)]

CbufMoveIn(b, s) ==
    LET r == MoveInLoop(b, [c |-> cbuf[b], d |-> data[b], s |-> s])
    IN  /\ cbuf' = [cbuf EXCEPT ![b] = r.c]
        /\ data' = [data EXCEPT ![b] = r.d]
        /\ queue' = [queue EXCEPT ![b] = @ \o SubSeq(s, 1, Len(s) - Len(r.s))]

MoveOutRound(b, st, max) ==
    LET n == Lesser(CbufHeadSize(b, st.c), max - Len(st.s))
    IN  [st EXCEPT !.c = HeadAdvance(b, @, n), !.s = @ \o Read(st.d, st.c.head, n)]

MoveOut(b, max) ==
    LET st0 == [c |-> cbuf[b], d |-> data[b], s |-> <<>>]
        loop[k \in 0..max] == IF k = 0 THEN st0 ELSE MoveOutRound(b, loop[k - 1], max)
    IN  loop[max]

CbufMoveOut(b, max) ==
    /\ cbuf' = [cbuf EXCEPT ![b] = MoveOut(b, max).c]
    /\ queue' = [queue EXCEPT ![b] = SubSeq(@, Lesser(max, Len(@)) + 1, Len(@))]
    /\ UNCHANGED data

(* From "in" to "out"; max = 0 stands for all there is. *)
MoveRound(st, max) ==
    LET n == Lesser(Lesser(CbufHeadSize("in", st.src), CbufTailSize("out", st.dst)), max - st.count)
    IN  [dst |-> TailAdvance("out", st.dst, n),
         src |-> HeadAdvance("in", st.src, n),
         d |-> Written(st.d, CbufTail("out", st.dst), Read(data["in"], st.src.head, n)),
         count |-> st.count + n]

Move(max) ==
    LET limit == IF max = 0 THEN cbuf["in"].size ELSE max
        loop[k \in 0..limit] ==
            IF k = 0 THEN [dst |-> cbuf["out"], src |-> cbuf["in"], d |-> data["out"], count |-> 0]
            ELSE MoveRound(loop[k - 1], limit)
    IN  loop[limit]

CbufMove(max) ==
    LET r == Move(max)
        all == queue["in"]
    IN  /\ cbuf' = [b \in Buffer |-> IF b = "in" THEN r.src ELSE r.dst]
        /\ data' = [data EXCEPT !["out"] = r.d]
        /\ queue' = [b \in Buffer |->
                       IF b = "in" THEN SubSeq(all, r.count + 1, Len(all))
                       ELSE queue["out"] \o SubSeq(all, 1, Lesser(r.count, Len(all)))]

ByteStrings(n) == UNION {[1..k -> Bytes] : k \in 1..n}

Next ==
    \/ \E b \in Buffer : CbufClear(b)
    \/ \E b \in Buffer : \E s \in ByteStrings(Capacity[b]) : Produce(b, s)
    \/ \E b \in Buffer : \E s \in ByteStrings(Capacity[b] + 1) : CbufMoveIn(b, s)
    \/ \E b \in Buffer : \E n \in 1..(Capacity[b] + 1) : Consume(b, n) \/ CbufMoveOut(b, n)
    \/ \E max \in 0..Capacity["in"] : CbufMove(max)

Spec == Init /\ [][Next]_vars

-----------------------------------------------------------------------------
(* The used part of the memory, read from the head around the end, is what *)
(* was put in and not yet taken out, however producer, consumer and the    *)
(* helpers mix, and no index leaves the memory.                            *)
HoldsQueue ==
    \A b \in Buffer :
        /\ cbuf[b].head < Capacity[b] /\ cbuf[b].size = Len(queue[b])
        /\ \A i \in 1..Len(queue[b]) :
              data[b][(cbuf[b].head + i - 1) % Capacity[b]] = queue[b][i]

(* The area handed to the producer is contiguous, inside the memory and    *)
(* apart from the bytes that are in use, and it is empty only when the     *)
(* buffer is full; the area handed to the consumer holds used bytes only,  *)
(* and is empty only when the buffer is.                                   *)
AreasApart ==
    \A b \in Buffer :
        LET c == cbuf[b]
            tail == {CbufTail(b, c) + i - 1 : i \in 1..CbufTailSize(b, c)}
            used == {(c.head + i - 1) % Capacity[b] : i \in 1..c.size}
        IN  /\ tail \subseteq 0..(Capacity[b] - 1) /\ tail \cap used = {}
            /\ CbufTailSize(b, c) = 0 <=> c.size = Capacity[b]
            /\ CbufHeadSize(b, c) = 0 <=> c.size = 0
            /\ c.head + CbufHeadSize(b, c) <= Capacity[b]

(* cbuf_move() moves as much as fits: both the limit and the free space    *)
(* allow no more.                                                          *)
MoveIsMaximal ==
    \A max \in 0..Capacity["in"] :
        Move(max).count = Lesser(Lesser(IF max = 0 THEN cbuf["in"].size ELSE max, cbuf["in"].size),
                                 CbufAvail("out", cbuf["out"]))

(* An advance of the other side leaves an area where it is and never makes *)
(* it smaller.                                                             *)
AreasStable ==
    \A b \in Buffer : \A n \in 0..Capacity[b] :
        LET c == cbuf[b]
            consumed == HeadAdvance(b, c, n)
            produced == TailAdvance(b, c, n)
        IN  /\ CbufTail(b, consumed) = CbufTail(b, c)
            /\ CbufTailSize(b, consumed) >= CbufTailSize(b, c)
            /\ produced.head = c.head /\ CbufHeadSize(b, produced) >= CbufHeadSize(b, c)

=============================================================================
