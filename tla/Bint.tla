-------------------------------- MODULE Bint -------------------------------
(***************************************************************************)
(* Big integers: src/src/bint.c.  A number is a sign flag and the sequence *)
(* of its components, least significant first; the chain of chunks shows   *)
(* in the length of the sequence, a multiple of ChunkSize.  CompBits and   *)
(* ChunkSize stand for COMPONENT_BITS (32) and BINT_CHUNK_SIZE (4).        *)
(*                                                                         *)
(* Every operation that allocates does so before it changes an operand;    *)
(* when the allocation fails it returns -1 and changes nothing, which is a *)
(* stuttering step here.                                                   *)
(*                                                                         *)
(* The state is two numbers, x and y.  The code relies on the last chunk   *)
(* of a chain not being all zero (Trimmed), and bint_mul() and             *)
(* bint_shift_left() break that.  The numbers they leave are operands like *)
(* all others here.  bint_bit_length() is 0 for them, so that operations   *)
(* which make room by it may run past the end of a chain; that ends the    *)
(* program and is no step here.  The operators named ...Fits say that an   *)
(* operation does not.                                                     *)
(***************************************************************************)
EXTENDS Integers, Sequences, Bitwise

CONSTANTS CompBits, ChunkSize,
          XBits, YBits    \* bounds on the bit lengths of x and y

VARIABLES x, y

vars == <<x, y>>

B == 2^CompBits
ChunkBits == CompBits * ChunkSize

Zeros(n) == [i \in 1..n |-> 0]
Num(neg, d) == [neg |-> neg, d |-> d]
Least(a, b) == IF a < b THEN a ELSE b
Most(a, b) == IF a < b THEN b ELSE a

-----------------------------------------------------------------------------
(* Chunks *)

IsZero(b) == b.d = Zeros(ChunkSize)

ChunkIsZero(d, k) == \A i \in 1..ChunkSize : d[(k - 1) * ChunkSize + i] = 0

RECURSIVE TrimChunks(_)
TrimChunks(d) ==
    IF Len(d) > ChunkSize /\ ChunkIsZero(d, Len(d) \div ChunkSize)
    THEN TrimChunks(SubSeq(d, 1, Len(d) - ChunkSize)) ELSE d

(* The chain is made long enough for bit number count, new chunks are 0. *)
ExtendLength(d, count) ==
    d \o Zeros(Most(0, (count \div ChunkBits + 1) * ChunkSize - Len(d)))

BitsOf(c) == IF c = 0 THEN 0 ELSE CHOOSE n \in 1..CompBits : 2^(n - 1) <= c /\ c < 2^n

(* Looks at the last chunk only, and gives 0 if that is all zero. *)
BintBitLength(b) ==
    LET last == Len(b.d) - ChunkSize
        used == {i \in 1..ChunkSize : b.d[last + i] # 0}
        top == CHOOSE i \in used : \A j \in used : j <= i
    IN  IF used = {} THEN 0 ELSE (last + top - 1) * CompBits + BitsOf(b.d[last + top])

(* A pass over components: each is raw[i] plus the carry, reduced to       *)
(* CompBits; the rest is the next carry, negative for a borrow.            *)
RECURSIVE Ripple(_, _, _)
Ripple(raw, i, carry) ==
    IF i > Len(raw) THEN [d |-> <<>>, carry |-> carry]
    ELSE LET rest == Ripple(raw, i + 1, (raw[i] + carry) \div B)
         IN  [d |-> <<(raw[i] + carry) % B>> \o rest.d, carry |-> rest.carry]

-----------------------------------------------------------------------------
(* Magnitudes *)

MagCmp(a, b) ==
    LET common == 1..Least(Len(a.d), Len(b.d))
        diffs == {i \in common : a.d[i] # b.d[i]}
        top == CHOOSE i \in diffs : \A j \in diffs : j <= i
    IN  IF Len(a.d) > Len(b.d) THEN 1
        ELSE IF Len(a.d) < Len(b.d) THEN -1
        ELSE IF diffs = {} THEN 0
        ELSE IF a.d[top] < b.d[top] THEN -1 ELSE 1

(* The "carry through" part of mag_add(), over the chunks that only dst    *)
(* has: the carry is tested with r & (1LL << COMPONENT_BITS), whose value  *)
(* does not fit the int it is stored in, so it ends after one component.   *)
CarryThrough(d, carry) ==
    IF carry = 0 \/ d = <<>> THEN d ELSE [d EXCEPT ![1] = (@ + 1) % B]

MagAdd(dst, src) ==
    LET d == ExtendLength(dst.d, Most(BintBitLength(dst), BintBitLength(src)) + 1)
        n == Least(Len(d), Len(src.d))
        low == Ripple([i \in 1..n |-> d[i] + src.d[i]], 1, 0)
    IN  Num(dst.neg, TrimChunks(low.d \o CarryThrough(SubSeq(d, n + 1, Len(d)), low.carry)))

(* bint_copy() and do_subtract() go along src while they write to dst.     *)
CopyFits(dst, src) == Len(src.d) <= Len(ExtendLength(dst.d, BintBitLength(src)))

MagSub(dst, big, small) ==
    LET n == Len(big.d)
        raw == [i \in 1..n |-> big.d[i] - (IF i <= Len(small.d) THEN small.d[i] ELSE 0)]
    IN  Num(dst.neg, TrimChunks(Ripple(raw, 1, 0).d \o SubSeq(dst.d, n + 1, Len(dst.d))))

(* Mutation: the sign stays as it is when src is the greater one. *)
DoSubtractSameSign(dst, src) ==
    IF MagCmp(dst, src) < 0 THEN MagSub(dst, src, dst) ELSE MagSub(dst, dst, src)

DoSubtract(dst, src) ==
    IF MagCmp(dst, src) < 0
    THEN LET ext == Num(dst.neg, ExtendLength(dst.d, BintBitLength(src)))
         IN  Num(~dst.neg, MagSub(ext, src, ext).d)
    ELSE MagSub(dst, dst, src)

SubtractFits(dst, src) == MagCmp(dst, src) < 0 => CopyFits(dst, src)

-----------------------------------------------------------------------------
(* Numbers, signs and sums *)

BintSet(v) == Num(v < 0, [Zeros(ChunkSize) EXCEPT ![1] = IF v < 0 THEN -v ELSE v])

(* The lowest component, cast to a signed one. *)
BintGet(b) ==
    LET wrap(v) == ((v + B \div 2) % B) - B \div 2
    IN  IF b.neg THEN wrap(-b.d[1]) ELSE wrap(b.d[1])

BintGetSign(b) == IF IsZero(b) THEN 0 ELSE IF b.neg THEN -1 ELSE 1
BintSetSign(b, sign) == Num(sign < 0, b.d)

BintCopy(dst, src) ==
    LET d == ExtendLength(dst.d, BintBitLength(src))
    IN  Num(src.neg, [i \in 1..Least(Len(d), Len(src.d)) |-> src.d[i]])

BintCompare(a, b) ==
    IF a.neg # b.neg THEN IF a.neg THEN -1 ELSE 1
    ELSE IF a.neg THEN -MagCmp(a, b) ELSE MagCmp(a, b)

BintAdd(dst, src) == IF dst.neg = src.neg THEN MagAdd(dst, src) ELSE DoSubtract(dst, src)
BintSub(dst, src) == IF dst.neg # src.neg THEN MagAdd(dst, src) ELSE DoSubtract(dst, src)

-----------------------------------------------------------------------------
(* Products *)

Chunk(d, k) == SubSeq(d, (k - 1) * ChunkSize + 1, k * ChunkSize)

(* One row of chunk_mac(): mm plus a * b, with a a component of the one    *)
(* factor and b the other factor, from component i of mm.                  *)
MacRow(mm, a, b, i) ==
    Ripple([j \in 1..Len(mm) |->
              mm[j] + (IF j >= i /\ j < i + ChunkSize THEN a * b[j - i + 1] ELSE 0)], 1, 0).d

RECURSIVE MacRows(_, _, _, _)
MacRows(mm, a, b, i) ==
    IF i > ChunkSize THEN mm ELSE MacRows(MacRow(mm, a[i], b, i), a, b, i + 1)

(* r + carry + a * b, as the new chunk and the new carry.  A carry out of  *)
(* r + carry is dropped: the rows start with a carry of their own.         *)
ChunkMac(a, b, r, carry) ==
    LET sum == Ripple([i \in 1..ChunkSize |-> r[i] + carry[i]], 1, 0)
        mm == MacRows(sum.d \o Zeros(ChunkSize), a, b, 1)
    IN  [r |-> Chunk(mm, 1), carry |-> Chunk(mm, 2), dropped |-> sum.carry # 0]

(* chunk_mac() for chunk k of a with the chunks of b from number j, into   *)
(* the chunks of acc.r; chunks above those of b only take the carry.       *)
(* acc.dropped records that some carry was dropped, within or at the end.  *)
RECURSIVE MulRow(_, _, _, _, _, _)
MulRow(a, b, acc, k, j, carry) ==
    IF (k + j - 1) * ChunkSize > Len(acc.r)
    THEN [acc EXCEPT !.dropped = @ \/ carry # Zeros(ChunkSize)]
    ELSE LET bc == IF j * ChunkSize <= Len(b) THEN Chunk(b, j) ELSE Zeros(ChunkSize)
             m == ChunkMac(Chunk(a, k), bc, Chunk(acc.r, k + j - 1), carry)
             r1 == SubSeq(acc.r, 1, (k + j - 2) * ChunkSize) \o m.r
                      \o SubSeq(acc.r, (k + j - 1) * ChunkSize + 1, Len(acc.r))
         IN  MulRow(a, b, [r |-> r1, dropped |-> acc.dropped \/ m.dropped], k, j + 1, m.carry)

RECURSIVE MulRows(_, _, _, _)
MulRows(a, b, acc, k) ==
    IF k * ChunkSize > Len(a) THEN acc
    ELSE MulRows(a, b, MulRow(a, b, acc, k, 1, Zeros(ChunkSize)), k + 1)

MulRoom(result, a, b) == Len(ExtendLength(result.d, BintBitLength(a) + BintBitLength(b)))

(* There is a chunk for every pair of chunks of the factors. *)
MulFits(result, a, b) == Len(a.d) + Len(b.d) - ChunkSize <= MulRoom(result, a, b)

MulChunks(result, a, b) ==
    MulRows(a.d, b.d, [r |-> Zeros(MulRoom(result, a, b)), dropped |-> FALSE], 1)

BintMul(result, a, b) ==
    BintSetSign(Num(FALSE, MulChunks(result, a, b).r), BintGetSign(a) * BintGetSign(b))

-----------------------------------------------------------------------------
(* Bits *)

BintBitGet(b, pos) ==
    LET i == pos \div CompBits + 1
    IN  i <= Len(b.d) /\ (b.d[i] \div 2^(pos % CompBits)) % 2 = 1

BintBitSet(b, pos) ==
    LET d == ExtendLength(b.d, pos)
    IN  Num(b.neg, [d EXCEPT ![pos \div CompBits + 1] = @ | 2^(pos % CompBits)])

BintBitClear(b, pos) ==
    LET i == pos \div CompBits + 1
        d == IF BintBitGet(b, pos) THEN [b.d EXCEPT ![i] = @ - 2^(pos % CompBits)] ELSE b.d
        last == Len(b.d) - ChunkSize + 1..Len(b.d)
    IN  Num(b.neg, IF i \in last THEN TrimChunks(d) ELSE d)

BintOr(dst, src) ==
    LET d == dst.d \o Zeros(Most(0, Len(src.d) - Len(dst.d)))
    IN  Num(dst.neg, [i \in 1..Len(d) |-> IF i <= Len(src.d) THEN d[i] | src.d[i] ELSE d[i]])

(* need_trim: the last chunk that was worked on has become zero. *)
TrimAfter(d, worked) == IF ChunkIsZero(d, worked \div ChunkSize) THEN TrimChunks(d) ELSE d

BintAnd(dst, src) ==
    LET n == Least(Len(dst.d), Len(src.d))
    IN  Num(dst.neg, TrimAfter([i \in 1..n |-> dst.d[i] & src.d[i]], n))

BintBic(dst, src) ==
    LET n == Least(Len(dst.d), Len(src.d))
    IN  Num(dst.neg, TrimAfter([i \in 1..Len(dst.d) |->
               IF i <= n THEN dst.d[i] - (dst.d[i] & src.d[i]) ELSE dst.d[i]], n))

BintXor(dst, src) ==
    LET d == dst.d \o Zeros(Most(0, Len(src.d) - Len(dst.d)))
    IN  Num(dst.neg, TrimAfter([i \in 1..Len(d) |->
               IF i <= Len(src.d) THEN d[i] ^^ src.d[i] ELSE d[i]], Len(src.d)))

(* Whole chunks or components move by n places; what leaves is lost. *)
MoveUp(d, n) == [i \in 1..Len(d) |-> IF i > n THEN d[i - n] ELSE 0]
MoveDown(d, n) == [i \in 1..Len(d) |-> IF i + n <= Len(d) THEN d[i + n] ELSE 0]

ShiftBitsUp(d, s) == Ripple([i \in 1..Len(d) |-> d[i] * 2^s], 1, 0).d

ShiftBitsDown(d, s) ==
    [i \in 1..Len(d) |-> d[i] \div 2^s +
        (IF i < Len(d) THEN (d[i + 1] % 2^s) * 2^(CompBits - s) ELSE 0)]

BintShiftLeft(b, count) ==
    LET d == ExtendLength(b.d, BintBitLength(b) + count)
        chunks == MoveUp(d, (count \div ChunkBits) * ChunkSize)
        comps == MoveUp(chunks, (count % ChunkBits) \div CompBits)
    IN  IF IsZero(b) THEN b ELSE Num(b.neg, ShiftBitsUp(comps, count % CompBits))

BintShiftRight(b, count) ==
    LET chunks == MoveDown(b.d, (count \div ChunkBits) * ChunkSize)
        comps == MoveDown(chunks, (count % ChunkBits) \div CompBits)
    IN  Num(b.neg, TrimChunks(ShiftBitsDown(comps, count % CompBits)))

-----------------------------------------------------------------------------
(* Division and powers *)

RECURSIVE DivSteps(_, _, _, _)
DivSteps(rem, quot, sdiv, pos) ==
    IF pos < 0 THEN [rem |-> rem, quot |-> quot]
    ELSE IF MagCmp(sdiv, rem) <= 0
         THEN DivSteps(MagSub(rem, rem, sdiv), BintBitSet(quot, pos), BintShiftRight(sdiv, 1), pos - 1)
         ELSE DivSteps(rem, quot, BintShiftRight(sdiv, 1), pos - 1)

(* When the signs differ, one is added to the quotient's magnitude. *)
DivSigns(s, dividend, divisor) ==
    LET rem == Num(divisor.neg, s.rem.d)
    IN  IF dividend.neg = divisor.neg THEN [quot |-> s.quot, rem |-> rem]
        ELSE [quot |-> Num(TRUE, BintAdd(s.quot, BintSet(1)).d), rem |-> Num(divisor.neg, BintSub(rem, divisor).d)]

(* bint_div() returns 1 and does nothing if the divisor has no bits, as    *)
(* bint_bit_length() sees it.                                              *)
Divides(divisor) == BintBitLength(divisor) # 0

DivFits(dividend) == CopyFits(BintSet(0), dividend)

BintDiv(dividend, divisor) ==
    LET pos == Most(0, BintBitLength(dividend) - BintBitLength(divisor))
        copy == BintCopy(BintSet(0), divisor)
        sdiv == Num(FALSE, IF pos > 0 THEN BintShiftLeft(copy, pos).d ELSE copy.d)
        rem == Num(FALSE, BintCopy(BintSet(0), dividend).d)
    IN  DivSigns(DivSteps(rem, BintSet(0), sdiv, pos), dividend, divisor)

Trimmed(b) == b.d = TrimChunks(b.d)

(* r * b^(exponent \div 2^i); p is the spare number.  fits says that no    *)
(* product runs past the end of a chain, dropped that a carry was lost.    *)
RECURSIVE ExptSteps(_, _, _, _, _, _)
ExptSteps(r, b, p, exponent, i, dropped) ==
    IF i >= BintBitLength(exponent) THEN [r |-> r, fits |-> TRUE, dropped |-> dropped]
    ELSE LET odd == BintBitGet(exponent, i)
             r1 == IF odd THEN BintMul(p, r, b) ELSE r
             p1 == IF odd THEN r ELSE p
         IN  IF (odd => MulFits(p, r, b)) /\ MulFits(p1, b, b)
             THEN ExptSteps(r1, BintMul(p1, b, b), b, exponent, i + 1,
                            dropped \/ (odd /\ MulChunks(p, r, b).dropped)
                                    \/ MulChunks(p1, b, b).dropped)
             ELSE [r |-> r, fits |-> FALSE, dropped |-> dropped]

BintExpt(base, exponent) ==
    IF CopyFits(BintSet(0), base)
    THEN ExptSteps(BintSet(1), BintCopy(BintSet(0), base), BintSet(0), exponent, 0, FALSE)
    ELSE [r |-> base, fits |-> FALSE, dropped |-> FALSE]

-----------------------------------------------------------------------------
(* Digits in another base *)

BintDigitPush(b, base, digit) ==
    LET d == ExtendLength(b.d, BintBitLength(b) + BitsOf(base) + 1)
        times == Ripple([i \in 1..Len(d) |-> d[i] * base], 1, 0).d
    IN  IF digit >= base THEN b ELSE Num(b.neg, TrimChunks(Ripple(times, 1, digit).d))

RECURSIVE ShortDivide(_, _, _, _)
ShortDivide(d, base, i, rem) ==
    IF i = 0 THEN [d |-> d, rem |-> rem]
    ELSE LET v == d[i] + rem * B
         IN  ShortDivide([d EXCEPT ![i] = v \div base], base, i - 1, v % base)

BintDigitPop(b, base) ==
    LET s == ShortDivide(b.d, base, Len(b.d), 0)
    IN  IF base = 0 THEN [b |-> b, digit |-> 0]
        ELSE [b |-> Num(b.neg, TrimChunks(s.d)), digit |-> s.rem]

-----------------------------------------------------------------------------
RECURSIVE MagFrom(_, _)
MagFrom(d, i) == IF i > Len(d) THEN 0 ELSE d[i] + B * MagFrom(d, i + 1)
Mag(b) == MagFrom(b.d, 1)
Val(b) == IF b.neg THEN -Mag(b) ELSE Mag(b)

Init == x = BintSet(0) /\ y = BintSet(0)

(* An operation leaves r in x; numbers above the bound are not followed. *)
Result(r) == Mag(r) < 2^XBits /\ x' = r /\ UNCHANGED y

(* Bits in the first and the last chunk, shifts within a component, across *)
(* components and by a chunk, digits in the largest base; the properties   *)
(* try all positions, shifts and bases.                                    *)
Positions == {0, ChunkBits, XBits - 1}
Shifts == {1, CompBits + 1, ChunkBits}

DoSet == \E v \in -(B \div 2)..(B \div 2 - 1) : Result(BintSet(v))
DoSetSign == \E sign \in {-1, 1} : Result(BintSetSign(x, sign))
DoSwap == Mag(x) < 2^YBits /\ x' = y /\ y' = x
DoCopy == CopyFits(x, y) /\ Result(BintCopy(x, y))
DoAdd == (x.neg # y.neg => SubtractFits(x, y)) /\ Result(BintAdd(x, y))
DoSub == (x.neg = y.neg => SubtractFits(x, y)) /\ Result(BintSub(x, y))
DoMul == MulFits(BintSet(0), x, y) /\ Result(BintMul(BintSet(0), x, y))
DoDiv ==
    /\ Divides(y) /\ DivFits(x)
    /\ LET s == BintDiv(x, y)
       IN  Mag(s.rem) < 2^YBits /\ x' = s.quot /\ y' = s.rem
DoExpt ==
    LET p == BintExpt(x, y)
    IN  Mag(y) < 2^CompBits /\ p.fits /\ Result(p.r)
DoOr == Result(BintOr(x, y))
DoAnd == Result(BintAnd(x, y))
DoBic == Result(BintBic(x, y))
DoXor == Result(BintXor(x, y))
DoBitSet == \E pos \in Positions : Result(BintBitSet(x, pos))
DoBitClear == \E pos \in Positions : Result(BintBitClear(x, pos))
DoShiftLeft == \E n \in Shifts : Result(BintShiftLeft(x, n))
DoShiftRight == \E n \in Shifts : Result(BintShiftRight(x, n))
DoDigitPush == \E digit \in 0..(B - 2) : Result(BintDigitPush(x, B - 1, digit))
DoDigitPop == Result(BintDigitPop(x, B - 1).b)

Next ==
    \/ DoSet \/ DoSetSign \/ DoSwap \/ DoCopy
    \/ DoAdd \/ DoSub \/ DoMul \/ DoDiv \/ DoExpt
    \/ DoOr \/ DoAnd \/ DoBic \/ DoXor \/ DoBitSet \/ DoBitClear
    \/ DoShiftLeft \/ DoShiftRight \/ DoDigitPush \/ DoDigitPop

Spec == Init /\ [][Next]_vars

-----------------------------------------------------------------------------
(* Properties *)

Good == Trimmed(x) /\ Trimmed(y)

(* What concerns x alone is looked at where y is zero: x takes all its     *)
(* values there, too.                                                      *)
Alone == y = BintSet(0)

AlmostTrimmed(b) == Len(b.d) <= Len(TrimChunks(b.d)) + ChunkSize

(* The invariant stated at the head of bint.c, the last chunk of a chain   *)
(* is never all zero: sums, differences, digits, bint_shift_right() and    *)
(* bint_and() establish it whatever their operands were, the other bit     *)
(* operations and bint_copy() keep it.  bint_shift_left() and bint_mul()   *)
(* do not: of operands that are not zero they may leave one empty chunk,   *)
(* never more, and bint_shift_left() does so just when the result fills    *)
(* its chunks.                                                             *)
StaysTrimmed ==
    /\ Trimmed(BintAnd(x, y))
    /\ (x.neg # y.neg => SubtractFits(x, y)) => Trimmed(BintAdd(x, y))
    /\ (x.neg = y.neg => SubtractFits(x, y)) => Trimmed(BintSub(x, y))
    /\ Good =>
         /\ \A r \in {BintOr(x, y), BintBic(x, y), BintXor(x, y), BintCopy(x, y)} : Trimmed(r)
         /\ ~IsZero(x) /\ ~IsZero(y) => AlmostTrimmed(BintMul(BintSet(0), x, y))
    /\ Alone =>
         /\ \A n \in 0..(XBits + ChunkBits) : Trimmed(BintShiftRight(x, n))
         /\ \A base \in 1..(B - 1) :
              /\ Trimmed(BintDigitPop(x, base).b)
              /\ \A digit \in 0..(base - 1) : Trimmed(BintDigitPush(x, base, digit))
    /\ Alone /\ Trimmed(x) =>
         /\ \A pos \in 0..XBits : Trimmed(BintBitSet(x, pos)) /\ Trimmed(BintBitClear(x, pos))
         /\ \A n \in 0..XBits :
              LET r == BintShiftLeft(x, n)
              IN  /\ Trimmed(r) <=> (IsZero(x) \/ (BintBitLength(x) + n) % ChunkBits # 0)
                  /\ ~IsZero(x) => AlmostTrimmed(r)

(* Of trimmed numbers no operation runs past the end of a chain, whatever  *)
(* the lengths of the two and of the number that takes the result.  The    *)
(* exception is bint_expt(), whose own products are not trimmed.           *)
RoomEnough ==
    Good => /\ CopyFits(x, y) /\ SubtractFits(x, y)
            /\ MulFits(BintSet(0), x, y) /\ MulFits(x, y, y)
            /\ DivFits(x)

(* The case in which mag_add() keeps all carries: the component of dst     *)
(* above the chunks of src can take one more.                              *)
CarryKept(dst, src) == Len(src.d) < Len(dst.d) => dst.d[Len(src.d) + 1] # B - 1

(* For trimmed numbers of all signs bint_add() and bint_sub() are integer  *)
(* addition and subtraction, as long as the carry past the chunks of src   *)
(* is kept, and bint_compare() is the order of the integers, but that it   *)
(* tells -0 from 0 (bint.h has it that a zero has no sign).                *)
SumExact ==
    Good => /\ (x.neg # y.neg \/ CarryKept(x, y)) => Val(BintAdd(x, y)) = Val(x) + Val(y)
            /\ (x.neg = y.neg \/ CarryKept(x, y)) => Val(BintSub(x, y)) = Val(x) - Val(y)
            /\ ~(Mag(x) = 0 /\ Mag(y) = 0) =>
                 /\ Val(x) < Val(y) <=> BintCompare(x, y) = -1
                 /\ Val(x) = Val(y) <=> BintCompare(x, y) = 0

(* The magnitude of b with the last bit of the second chunk set: a number  *)
(* whose products carry from chunk to chunk.                               *)
Long(b) == Num(FALSE, BintBitSet(b, 2 * ChunkBits - 1).d)

(* bint_mul() is integer multiplication just when it drops no carry        *)
(* between chunks, which trimmed factors are safe from if one has a single *)
(* chunk; bint_expt() is the power if its products are of that kind.       *)
ProductExact ==
    /\ \A f \in {<<x, y>>} \cup (IF x.neg \/ y.neg THEN {} ELSE {<<Long(x), Long(y)>>}) :
         MulFits(BintSet(0), f[1], f[2]) =>
           LET dropped == MulChunks(BintSet(0), f[1], f[2]).dropped
           IN  /\ dropped <=> Val(BintMul(BintSet(0), f[1], f[2])) # Val(f[1]) * Val(f[2])
               /\ Good /\ dropped => Len(f[1].d) > ChunkSize /\ Len(f[2].d) > ChunkSize
    /\ Good /\ Mag(y) < 2^CompBits =>
         LET p == BintExpt(x, y)
         IN  p.fits /\ ~p.dropped => Val(p.r) = IF Mag(y) = 0 THEN 1 ELSE Val(x)^Mag(y)

(* The shifted divisor fills its chunks, so that bint_shift_left() adds an *)
(* empty one and the first bit of the quotient is not tried.               *)
FirstBitSkipped(dividend, divisor) ==
    /\ BintBitLength(dividend) > BintBitLength(divisor)
    /\ BintBitLength(dividend) % ChunkBits = 0

(* One can be added to the magnitude of the quotient if the signs differ. *)
QuotientCarryKept(dividend, divisor) ==
    dividend.neg # divisor.neg =>
      CarryKept(BintDiv(Num(divisor.neg, dividend.d), divisor).quot, BintSet(1))

(* bint_div() gives dividend = divisor * quotient + remainder with a       *)
(* remainder of the divisor's sign, unless the first bit was skipped (or a *)
(* carry lost in the quotient).  The remainder is smaller than the divisor *)
(* but where the signs differ and the division is even: then it is equal.  *)
QuotientExact ==
    Good /\ Mag(y) # 0 /\ QuotientCarryKept(x, y) /\ ~FirstBitSkipped(x, y) =>
      LET s == BintDiv(x, y)
      IN  /\ Val(x) = Val(y) * Val(s.quot) + Val(s.rem)
          /\ Mag(s.rem) # 0 => s.rem.neg = y.neg
          /\ IF x.neg # y.neg /\ Mag(x) % Mag(y) = 0 THEN Mag(s.rem) = Mag(y)
                                                     ELSE Mag(s.rem) < Mag(y)

Bit(m, pos) == (m \div 2^pos) % 2 = 1

(* The bit operations work on the magnitude, bit by bit, whatever the      *)
(* lengths of the two chains, and trimmed or not; shifts across components *)
(* and chunks lose only the bits below zero, those to the left and the bit *)
(* length for trimmed numbers.                                             *)
BitsExact ==
    LET m == Mag(x)  n == Mag(y)
        or == Mag(BintOr(x, y))    and == Mag(BintAnd(x, y))
        bic == Mag(BintBic(x, y))  xor == Mag(BintXor(x, y))
    IN  /\ \A pos \in 0..XBits :
              /\ Bit(or, pos) = (Bit(m, pos) \/ Bit(n, pos))
              /\ Bit(and, pos) = (Bit(m, pos) /\ Bit(n, pos))
              /\ Bit(bic, pos) = (Bit(m, pos) /\ ~Bit(n, pos))
              /\ Bit(xor, pos) = (Bit(m, pos) # Bit(n, pos))
        /\ Alone => \A pos \in 0..XBits :
              /\ BintBitGet(x, pos) = Bit(m, pos)
              /\ Mag(BintShiftRight(x, pos)) = m \div 2^pos
              /\ Mag(BintBitSet(x, pos)) - Mag(BintBitClear(x, pos)) = 2^pos
              /\ m \in {Mag(BintBitSet(x, pos)), Mag(BintBitClear(x, pos))}
              /\ Trimmed(x) => Mag(BintShiftLeft(x, pos)) = m * 2^pos
        /\ Trimmed(x) => /\ BintBitLength(x) <= XBits /\ m < 2^BintBitLength(x)
                         /\ m # 0 => m >= 2^(BintBitLength(x) - 1)

(* Pushing a digit and popping it again gives the digit and the number     *)
(* back in every base, and a number that was not trimmed is trimmed then:  *)
(* short multiplication and division lose no carry.                        *)
DigitsExact ==
    Alone => \A base \in 1..(B - 1) : \A digit \in 0..(base - 1) :
        LET up == BintDigitPush(x, base, digit)
            down == BintDigitPop(up, base)
        IN  /\ Mag(up) = Mag(x) * base + digit
            /\ down.b = Num(x.neg, TrimChunks(x.d)) /\ down.digit = digit

(* bint.h: "Add/subtract the second integer to/from the first."            *)
AddAlwaysExact == Good => Val(BintAdd(x, y)) = Val(x) + Val(y)

=============================================================================
