------------------------------- MODULE Vector -------------------------------
(***************************************************************************)
(* The flexible array, src/src/vector.c.  ptr is its memory in elements,   *)
(* so its length is the capacity; Unset is an element nobody has written.  *)
(* MinElems stands for the least capacity, 8.  realloc() may fail.         *)
(***************************************************************************)
EXTENDS Integers, Sequences, Doubling

CONSTANTS MinElems, Elems, MaxElems     \* MaxElems bounds the size

VARIABLES ptr, length,
          elems      \* what the vector should hold, Unset where unspecified

vars == <<ptr, length, elems>>

Unset == -1

Init == ptr = <<>> /\ length = 0 /\ elems = <<>>

(* The least power of 2 that is enough for needed, and at least MinElems. *)
CapFor(needed) == Doubled(MinElems, needed)

RoomLeft(p, needed) == Len(p) >= needed

(* size_for(): its outcomes, each the memory and whether it succeeded. *)
SizeFor(p, needed) ==
    LET cap == CapFor(needed)
        moved == [i \in 1..cap |-> IF i <= Len(p) THEN p[i] ELSE Unset]
    IN  IF cap <= Len(p) /\ Len(p) <= cap * 2 THEN {[ptr |-> p, ok |-> TRUE]}
        ELSE {[ptr |-> moved, ok |-> TRUE], [ptr |-> p, ok |-> RoomLeft(p, needed)]}

(* vector_resize(), also for vector_pop(), which ignores what it returns. *)
Sized(n) ==
    \E r \in SizeFor(ptr, n) : ptr' = r.ptr /\ length' = IF r.ok THEN n ELSE length

VectorResize(n) ==
    /\ Sized(n)
    /\ elems' = IF length' # n THEN elems
                ELSE [i \in 1..n |-> IF i <= Len(elems) THEN elems[i] ELSE Unset]

VectorPush(s) ==
    /\ length + Len(s) <= MaxElems
    /\ \E r \in SizeFor(ptr, length + Len(s)) :
          IF r.ok
          THEN /\ ptr' = [i \in DOMAIN r.ptr |->
                            IF i \in (length + 1)..(length + Len(s)) THEN s[i - length] ELSE r.ptr[i]]
               /\ length' = length + Len(s)
               /\ elems' = elems \o s
          ELSE ptr' = r.ptr /\ UNCHANGED <<length, elems>>

VectorPop(count) ==
    LET left == IF count > length THEN 0 ELSE length - count
    IN  Sized(left) /\ elems' = SubSeq(elems, 1, left)

VectorClear == ptr' = <<>> /\ length' = 0 /\ elems' = <<>>

Next ==
    \/ \E n \in 0..MaxElems : VectorResize(n) \/ VectorPop(n)
    \/ \E s \in UNION {[1..k -> Elems] : k \in 1..2} : VectorPush(s)
    \/ VectorClear

Spec == Init /\ [][Next]_vars

-----------------------------------------------------------------------------
(* The vector holds, within its memory, what was pushed and not popped,    *)
(* through growing, shrinking and failures of either; vector_pop(), which  *)
(* has no way to fail, always removes what it was asked to.                *)
VectorHolds ==
    /\ length = Len(elems) /\ length <= Len(ptr)
    /\ \A i \in DOMAIN elems : elems[i] # Unset => ptr[i] = elems[i]

=============================================================================
