-------------------------------- MODULE Hash -------------------------------
(***************************************************************************)
(* The hash table, src/src/hash.c.  The table is a function from indices   *)
(* to chains, a chain a sequence of nodes; size 0 is the table that has    *)
(* not been allocated.  MinSize stands for the 32 of hash_capacity_hint(). *)
(* Codes are small numbers, so that nodes collide before and after the     *)
(* table is resized.  malloc() may fail at any call.                       *)
(***************************************************************************)
EXTENDS Integers, Sequences, FiniteSets, Doubling

CONSTANTS HashNodes,    \* the nodes, records of an id, a key and a code
          MinSize,
          MaxHint       \* bound on the hints given by the user

VARIABLES size, count, table,
          stored        \* the nodes that should be in the table

vars == <<size, count, table, stored>>

HashKeys == {n.key : n \in HashNodes}
CodeOf(key) == (CHOOSE n \in HashNodes : n.key = key).code

-----------------------------------------------------------------------------
IsPrime(n) == \A d \in 2..n : d * d <= n => n % d # 0

(* n after each round of the search; there is a prime from n to 2 * n. *)
PrimeFrom(n) ==
    LET found[k \in 0..n] ==
          IF k = 0 THEN n
          ELSE IF IsPrime(found[k - 1]) THEN found[k - 1] ELSE found[k - 1] + 1
    IN  found[n]

NewSize(hint) == PrimeFrom(Doubled(MinSize, hint))

(* The nodes of a chain go to the front of their new chains, one by one. *)
Spread(t, chain, n) ==
    LET after[j \in 0..Len(chain)] ==
          IF j = 0 THEN t
          ELSE [after[j - 1] EXCEPT ![chain[j].code % n] = <<chain[j]>> \o @]
    IN  after[Len(chain)]

(* Mutation: the chains stay at their indices. *)
RehashedNot(h, n) ==
    [h EXCEPT !.size = n, !.table = [i \in 0..(n - 1) |-> IF i < h.size THEN h.table[i] ELSE <<>>]]

Rehashed(h, n) ==
    LET after[i \in 0..h.size] ==
          IF i = 0 THEN [k \in 0..(n - 1) |-> <<>>]
          ELSE Spread(after[i - 1], h.table[i - 1], n)
    IN  [h EXCEPT !.size = n, !.table = after[h.size]]

(* hash_capacity_hint(): the set of possible outcomes, each a table and    *)
(* whether the call succeeded.                                             *)
CapacityHint(h, hint) ==
    IF hint < h.count \/ h.size = NewSize(hint) THEN {[h |-> h, ok |-> TRUE]}
    ELSE {[h |-> Rehashed(h, NewSize(hint)), ok |-> TRUE], [h |-> h, ok |-> FALSE]}

-----------------------------------------------------------------------------
This == [size |-> size, count |-> count, table |-> table]

Becomes(h) == size' = h.size /\ count' = h.count /\ table' = h.table

(* hash_find(): the first node with the key, or nothing. *)
Find(h, key) ==
    LET chain == IF h.size = 0 THEN <<>> ELSE h.table[CodeOf(key) % h.size]
        hits == {i \in DOMAIN chain : chain[i].key = key}
    IN  IF hits = {} THEN <<>> ELSE <<chain[CHOOSE i \in hits : \A j \in hits : i <= j]>>

(* The chain is rebuilt back to front without a node of the same key, the  *)
(* new node ends up last.                                                  *)
ChainWith(chain, n) ==
    LET ins[j \in 0..Len(chain)] ==
          IF j = 0 THEN <<n>>
          ELSE IF chain[j].key # n.key THEN <<chain[j]>> \o ins[j - 1] ELSE ins[j - 1]
    IN  ins[Len(chain)]

Replaces(chain, n) == \E i \in DOMAIN chain : chain[i].key = n.key

InsertInto(h, n, unique) ==
    LET i == n.code % h.size
    IN  IF unique THEN [h EXCEPT !.table[i] = <<n>> \o @, !.count = @ + 1]
        ELSE [h EXCEPT !.table[i] = ChainWith(@, n),
                       !.count = IF Replaces(h.table[i], n) THEN @ ELSE @ + 1]

Grown(h) == IF h.count >= h.size THEN CapacityHint(h, h.count + 1) ELSE {[h |-> h, ok |-> TRUE]}

(* HASH_INSERT_UNIQUE may be given when the key is known to be new. *)
HashInsert(n, unique) ==
    /\ n \notin stored
    /\ unique => \A m \in stored : m.key # n.key
    /\ \E r \in Grown(This) :
          IF ~r.ok THEN Becomes(r.h) /\ UNCHANGED stored
          ELSE /\ Becomes(InsertInto(r.h, n, unique))
               /\ stored' = {m \in stored : m.key # n.key} \cup {n}

ShrinkDue(h) == h.count * 4 < h.size

Shrunk(h) == IF ShrinkDue(h) THEN {r.h : r \in CapacityHint(h, h.count)} ELSE {h}

(* Nothing is removed, and not counted, if the node is not in its chain. *)
Unlinked(h, n) ==
    LET chain == h.table[n.code % h.size]
        at == {i \in DOMAIN chain : chain[i] = n}
        i == CHOOSE i \in at : TRUE
    IN  IF at = {} THEN h
        ELSE [h EXCEPT !.table[n.code % h.size] = SubSeq(chain, 1, i - 1) \o SubSeq(chain, i + 1, Len(chain)),
                       !.count = @ - 1]

HashRemove(n) ==
    /\ n \in stored
    /\ \E h \in Shrunk(Unlinked(This, n)) : Becomes(h)
    /\ stored' = stored \ {n}

HashHint(hint) ==
    /\ \E r \in CapacityHint(This, hint) : Becomes(r.h)
    /\ UNCHANGED stored

Init == size = 0 /\ count = 0 /\ table = <<>> /\ stored = {}

Next ==
    \/ \E n \in HashNodes : HashRemove(n) \/ \E unique \in BOOLEAN : HashInsert(n, unique)
    \/ \E hint \in 0..MaxHint : HashHint(hint)

Spec == Init /\ [][Next]_vars

-----------------------------------------------------------------------------
(* Through collisions, replacements, growing, shrinking and failures to do *)
(* either, a search for a key gives the node last inserted with it, and    *)
(* nothing for a key that is not there; no chain holds anything else.      *)
FindExact ==
    /\ \A key \in HashKeys : Find(This, key) = <<>> <=> \A n \in stored : n.key # key
    /\ \A n \in stored : Find(This, n.key) = <<n>>
    /\ {n \in HashNodes : \E i \in DOMAIN table : \E j \in DOMAIN table[i] : table[i][j] = n} = stored

(* count is the number of nodes, also after replacing one; the table is    *)
(* never fuller than one node per chain, since an insertion that cannot    *)
(* grow it fails.                                                          *)
CountExact == count = Cardinality(stored) /\ count <= size

=============================================================================
