-------------------------------- MODULE Slab -------------------------------
(***************************************************************************)
(* The slab allocator, src/src/slab.c.  A slab has Count objects; info     *)
(* holds for each live slab its list of free objects and free_count.  The  *)
(* lists of full and partial slabs are sequences (list.c is modelled in    *)
(* Lists).  The sizes computed by slab_init() give Count and are left out. *)
(***************************************************************************)
EXTENDS Naturals, Sequences, FiniteSets

CONSTANTS Slabs,      \* the blocks malloc() may return; it may also fail
          Count       \* objects per slab

VARIABLES full, partial,
          info,       \* slab_info of the live slabs
          held        \* objects the user has, as pairs of slab and number

vars == <<full, partial, info, held>>

(* list_remove(): e is in s, once. *)
Without(s, e) ==
    LET i == CHOOSE j \in DOMAIN s : s[j] = e
    IN  SubSeq(s, 1, i - 1) \o SubSeq(s, i + 1, Len(s))

Elements(s) == {s[i] : i \in DOMAIN s}
Live == DOMAIN info

Init == full = <<>> /\ partial = <<>> /\ info = <<>> /\ held = {}

(* A new slab at the end of the partial list, its objects in order. *)
NewSlab(sl) ==
    [p |-> Append(partial, sl),
     i |-> [s \in Live \cup {sl} |->
              IF s = sl THEN [free |-> [k \in 1..Count |-> k], count |-> Count] ELSE info[s]]]

UsedUp(inf) == inf.free = <<>>

(* The first free object of the first slab of p. *)
TakeFrom(p, i) ==
    LET sl == Head(p)
        inf == [free |-> Tail(i[sl].free), count |-> i[sl].count - 1]
    IN  /\ info' = [i EXCEPT ![sl] = inf]
        /\ held' = held \cup {<<sl, Head(i[sl].free)>>}
        /\ partial' = IF UsedUp(inf) THEN Without(p, sl) ELSE p
        /\ full' = IF UsedUp(inf) THEN Append(full, sl) ELSE full

SlabAlloc ==
    \/ partial # <<>> /\ TakeFrom(partial, info)
    \/ /\ partial = <<>>
       /\ \E sl \in Slabs \ Live : LET n == NewSlab(sl) IN TakeFrom(n.p, n.i)

SlabAllocFails == partial = <<>> /\ UNCHANGED vars

Released(inf) == inf.count >= Count

SlabFree(obj) ==
    LET sl == obj[1]
        wasFull == UsedUp(info[sl])
        inf == [free |-> Append(info[sl].free, obj[2]), count |-> info[sl].count + 1]
        p == IF wasFull THEN Append(partial, sl) ELSE partial
    IN  /\ obj \in held
        /\ held' = held \ {obj}
        /\ full' = IF wasFull THEN Without(full, sl) ELSE full
        /\ IF Released(inf)
           THEN /\ partial' = Without(p, sl)
                /\ info' = [s \in Live \ {sl} |-> info[s]]
           ELSE /\ partial' = p
                /\ info' = [info EXCEPT ![sl] = inf]

SlabFreeAll == full' = <<>> /\ partial' = <<>> /\ info' = <<>> /\ held' = {}

Next == SlabAlloc \/ SlabAllocFails \/ SlabFreeAll \/ \E obj \in held : SlabFree(obj)

Spec == Init /\ [][Next]_vars

-----------------------------------------------------------------------------
(* An object is either with the user or once in the free list of its live  *)
(* slab: none is given out twice, none is lost, and none that the user     *)
(* still has lies in a slab that was released.                             *)
ObjectsAccounted ==
    /\ \A sl \in Live : Len(info[sl].free) = Cardinality(Elements(info[sl].free))
    /\ {<<sl, k>> : sl \in Live, k \in 1..Count} =
          held \cup UNION {{<<sl, k>> : k \in Elements(info[sl].free)} : sl \in Live}
    /\ \A obj \in held : obj[1] \in Live /\ obj[2] \notin Elements(info[obj[1]].free)

(* Every live slab is in the one list its state calls for, the count of    *)
(* free objects is right, and a slab without objects in use is not kept.   *)
SlabsListed ==
    /\ Len(full) + Len(partial) = Cardinality(Live)
    /\ Elements(full) = {sl \in Live : info[sl].free = <<>>}
    /\ Elements(partial) = {sl \in Live : info[sl].free # <<>>}
    /\ \A sl \in Live : info[sl].count = Len(info[sl].free) /\ info[sl].count < Count

=============================================================================
