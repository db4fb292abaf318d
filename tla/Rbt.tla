-------------------------------- MODULE Rbt --------------------------------
(***************************************************************************)
(* Red-black trees: src/src/rbt.c with the iterators of rbt_iter.c and     *)
(* the range queries of rbt_range.c, at the level of nodes and links.  A   *)
(* tree is a record: the root, the two children and the parent of every    *)
(* node, and the sets of nodes whose RED and MODIFIED flags are set.  A    *)
(* side is "L" or "R"; code that exists twice, mirrored, is one operator   *)
(* with a side as its argument.                                            *)
(*                                                                         *)
(* A node carries its key.  Node MaxKey + 1 has the same key as TwinKey,   *)
(* so that an insertion may replace a node.  Fields of nodes outside the   *)
(* tree are unspecified in C and normalised here: insertion sets them all. *)
(*                                                                         *)
(* The module contains the client of an augmented tree that rbt_range.h    *)
(* describes: it caches in every node the summary of its subtree (here the *)
(* sequence of its keys) and relies on the MODIFIED flags to know which    *)
(* summaries are stale.                                                    *)
(***************************************************************************)
EXTENDS Naturals, Sequences, FiniteSets

CONSTANTS MaxKey, TwinKey

VARIABLES tree,      \* struct rbt and the nodes
          summary,   \* what the client has cached in each node
          members    \* the nodes that should be in the tree

vars == <<tree, summary, members>>

Null == 0
Node == 1..(MaxKey + 1)
KeyOf(n) == IF n = MaxKey + 1 THEN TwinKey ELSE n
Side == {"L", "R"}
Other(d) == IF d = "L" THEN "R" ELSE "L"

IsRed(t, n) == n \in t.red
IsBlack(t, n) == n \notin t.red
Recolour(t, reds, blacks) == [t EXCEPT !.red = (@ \cup reds) \ blacks]
Mark(t, ns) == [t EXCEPT !.mod = @ \cup ns]

-----------------------------------------------------------------------------
(* Links and rotations *)

SetParent(t, n, p) == IF n = Null THEN t ELSE [t EXCEPT !.up[n] = p]

FixDownptr(t, p, old, n) ==
    IF p = Null THEN [t EXCEPT !.root = n]
    ELSE IF t.kid[p].L = old THEN [t EXCEPT !.kid[p].L = n]
    ELSE [t EXCEPT !.kid[p].R = n]

(* rotate_left() for d = "L", rotate_right() for d = "R". *)
Rotate(t, n, d) ==
    LET p == t.up[n]
        r == t.kid[n][Other(d)]
        c == t.kid[r][d]
        turned == [t EXCEPT !.kid[n][Other(d)] = c, !.kid[r][d] = n,
                            !.up[n] = r, !.up[r] = p]
    IN  FixDownptr(SetParent(turned, c, n), p, n, r)

SideOf(t, n) == IF n = t.kid[t.up[n]].L THEN "L" ELSE "R"
Sibling(t, n) == t.kid[t.up[n]][Other(SideOf(t, n))]

-----------------------------------------------------------------------------
(* Insertion *)

(* The rotations at the end of repair_after_insert(): first bring n and    *)
(* its parent on one line, then rotate the grandparent.                    *)
RotateAfterInsert(t, n) ==
    LET e == SideOf(t, t.up[n])
        inner == SideOf(t, n) # e
        t1 == IF inner THEN Rotate(t, t.up[n], e) ELSE t
        m == IF inner THEN t1.kid[n][e] ELSE n
        g == t1.up[t1.up[m]]
    IN  Rotate(Recolour(t1, {g}, {t1.up[m]}), g, Other(SideOf(t1, m)))

RECURSIVE RepairAfterInsert(_, _)
RepairAfterInsert(t, n) ==
    LET p == t.up[n]
        g == t.up[p]
        u == Sibling(t, p)
    IN  IF p = Null THEN Recolour(t, {}, {n})
        ELSE IF IsBlack(t, p) THEN t
        ELSE IF IsBlack(t, u) THEN RotateAfterInsert(t, n)
        ELSE RepairAfterInsert(Recolour(t, {g}, {u, p}), g)

Towards(key, n) == IF key < KeyOf(n) THEN "L" ELSE "R"

(* The nodes that a search for key meets, from the root. *)
RECURSIVE Path(_, _, _)
Path(t, n, key) ==
    IF n = Null THEN <<>>
    ELSE IF key = KeyOf(n) THEN <<n>>
    ELSE <<n>> \o Path(t, t.kid[n][Towards(key, n)], key)

Last(s) == IF s = <<>> THEN Null ELSE s[Len(s)]
RangeOf(s) == {s[i] : i \in DOMAIN s}

Find(t, key) ==
    LET n == Last(Path(t, t.root, key))
    IN  IF n # Null /\ KeyOf(n) = key THEN n ELSE Null

(* The node c with the same key gives its place, colour and links to n. *)
Replace(t, c, n) ==
    LET p == t.up[c]
        t1 == [t EXCEPT !.kid[n] = t.kid[c], !.up[n] = p,
                        !.red = IF c \in @ THEN @ \cup {n} ELSE @,
                        !.mod = @ \cup {n}]
    IN  SetParent(SetParent(FixDownptr(t1, p, c, n), t1.kid[n].L, n), t1.kid[n].R, n)

AddLeaf(t, p, n) ==
    LET t1 == [t EXCEPT !.kid[n] = [d \in Side |-> Null], !.up[n] = p,
                        !.red = @ \cup {n}, !.mod = @ \cup {n}]
    IN  IF p = Null THEN [t1 EXCEPT !.root = n]
        ELSE [t1 EXCEPT !.kid[p][Towards(KeyOf(n), p)] = n]

Insert(t, n) ==
    LET path == Path(t, t.root, KeyOf(n))
        c == Find(t, KeyOf(n))
        marked == Mark(t, RangeOf(path))
    IN  IF c # Null THEN Replace(marked, c, n)
        ELSE RepairAfterInsert(AddLeaf(marked, Last(path), n), n)

-----------------------------------------------------------------------------
(* Removal *)

RECURSIVE Extreme(_, _, _)
Extreme(t, n, d) == IF t.kid[n][d] = Null THEN n ELSE Extreme(t, t.kid[n][d], d)

RECURSIVE Ancestors(_, _)
Ancestors(t, n) == IF n = Null THEN {} ELSE {n} \cup Ancestors(t, t.up[n])

(* Mutation: the ancestors are not marked. *)
MarkModifiedOne(t, n) == Mark(t, {n})

MarkModified(t, n) == Mark(t, Ancestors(t, n))

(* n and s exchange their flags. *)
SwapIn(set, n, s) ==
    (set \ {n, s}) \cup (IF s \in set THEN {n} ELSE {}) \cup (IF n \in set THEN {s} ELSE {})

SwapWithSuccessor(t, n) ==
    LET p == t.up[n]
        r == t.kid[n].R
        s == Extreme(t, r, "L")
        flagged == [t EXCEPT !.red = SwapIn(@, n, s), !.mod = SwapIn(@, n, s)]
        apart == [flagged EXCEPT !.kid[s] = t.kid[n], !.up[s] = p,
                                 !.kid[n] = t.kid[s], !.up[n] = t.up[s],
                                 !.kid[t.up[s]].L = n]
        adjacent == [flagged EXCEPT !.kid[s] = [L |-> t.kid[n].L, R |-> n], !.up[s] = p,
                                    !.kid[n] = [L |-> Null, R |-> t.kid[s].R], !.up[n] = s]
        t1 == FixDownptr(IF s # r THEN apart ELSE adjacent, p, n, s)
    IN  SetParent(SetParent(SetParent(t1, t1.kid[s].L, s), t1.kid[s].R, s), t1.kid[n].R, n)

(* The last part of repair_after_remove(): p's child on side d is too low  *)
(* by one black node, its sibling s has a red child; s takes p's colour.   *)
RotateAfterRemove(t, p, s, d) ==
    LET near == t.kid[s][d]
        bent == IsBlack(t, t.kid[s][Other(d)])
        t1 == IF bent THEN Rotate(Mark(Recolour(t, {s}, {near}), {s, near}), s, Other(d)) ELSE t
        s1 == IF bent THEN t1.up[s] ELSE s
        far == t1.kid[s1][Other(d)]
        t2 == [t1 EXCEPT !.red = (IF p \in @ THEN @ \cup {s1} ELSE @ \ {s1}) \ {p, far}]
    IN  Rotate(Mark(t2, {s1}), p, d)

RECURSIVE RepairAfterRemove(_, _, _)
RepairAfterRemove(t, p, n) ==
    IF p = Null THEN t ELSE
    LET s0 == IF t.kid[p].L = n THEN t.kid[p].R ELSE t.kid[p].L
        d == IF t.kid[p].L = n THEN "L" ELSE "R"
        t1 == IF IsRed(t, s0) THEN Rotate(Mark(Recolour(t, {p}, {s0}), {s0}), p, d) ELSE t
        s == t1.kid[p][Other(d)]
        blackKids == \A e \in Side : IsBlack(t1, t1.kid[s][e])
    IN  IF blackKids /\ IsBlack(t1, p) THEN RepairAfterRemove(Recolour(t1, {s}, {}), t1.up[p], p)
        ELSE IF blackKids THEN Recolour(t1, {s}, {p})
        ELSE RotateAfterRemove(t1, p, s, d)

Forget(t, n) ==
    IF n = Null THEN t
    ELSE [t EXCEPT !.kid[n] = [d \in Side |-> Null], !.up[n] = Null,
                   !.red = @ \ {n}, !.mod = @ \ {n}]

Remove(t, n) ==
    LET t1 == IF t.kid[n].L # Null /\ t.kid[n].R # Null THEN SwapWithSuccessor(t, n) ELSE t
        s == IF t1.kid[n].L # Null THEN t1.kid[n].L ELSE t1.kid[n].R
        p == t1.up[n]
        t2 == FixDownptr(MarkModified(t1, n), p, n, s)
    IN  Forget(IF s # Null THEN SetParent(Recolour(t2, {}, {s}), s, p)
               ELSE IF IsRed(t2, n) THEN t2
               ELSE RepairAfterRemove(t2, p, Null), n)

-----------------------------------------------------------------------------
(* Iterators: d = "R" moves to the next node, "L" to the previous one. *)

RECURSIVE Climb(_, _, _)
Climb(t, n, d) ==
    IF t.up[n] # Null /\ t.kid[t.up[n]][d] = n THEN Climb(t, t.up[n], d) ELSE t.up[n]

IterNext(t, n, d) ==
    IF t.kid[n][d] # Null THEN Extreme(t, t.kid[n][d], Other(d)) ELSE Climb(t, n, d)

IterEnd(t, d) == IF t.root = Null THEN Null ELSE Extreme(t, t.root, d)

(* The search of rbt_iter_le, ge, lt and gt below node n; m is the best    *)
(* node so far.                                                            *)
RECURSIVE Bound(_, _, _, _, _, _)
Bound(t, n, m, key, below, strict) ==
    LET hit == IF below THEN key > KeyOf(n) ELSE key < KeyOf(n)
    IN  IF n = Null THEN m
        ELSE IF key = KeyOf(n) /\ ~strict THEN n
        ELSE Bound(t, t.kid[n][IF hit = below THEN "R" ELSE "L"], IF hit THEN n ELSE m,
                   key, below, strict)

-----------------------------------------------------------------------------
(* Range queries: the nodes and subtrees passed to the callback, in order. *)

OneNode(n) == <<[node |-> n, type |-> "NODE"]>>
Subtree(n) == IF n = Null THEN <<>> ELSE <<[node |-> n, type |-> "TREE"]>>

RECURSIVE QueryLow(_, _, _)
QueryLow(t, n, lo) ==
    IF n = Null THEN <<>>
    ELSE IF KeyOf(n) < lo THEN QueryLow(t, t.kid[n].R, lo)
    ELSE QueryLow(t, t.kid[n].L, lo) \o OneNode(n) \o Subtree(t.kid[n].R)

RECURSIVE QueryHigh(_, _, _)
QueryHigh(t, n, hi) ==
    IF n = Null THEN <<>>
    ELSE IF KeyOf(n) > hi THEN QueryHigh(t, t.kid[n].L, hi)
    ELSE Subtree(t.kid[n].L) \o OneNode(n) \o QueryHigh(t, t.kid[n].R, hi)

RECURSIVE QueryOver(_, _, _, _)
QueryOver(t, n, lo, hi) ==
    IF n = Null THEN <<>>
    ELSE IF KeyOf(n) < lo THEN QueryOver(t, t.kid[n].R, lo, hi)
    ELSE IF KeyOf(n) > hi THEN QueryOver(t, t.kid[n].L, lo, hi)
    ELSE QueryLow(t, t.kid[n].L, lo) \o OneNode(n) \o QueryHigh(t, t.kid[n].R, hi)

RangeQuery(t, lo, hi) == QueryOver(t, t.root, lo, hi)

-----------------------------------------------------------------------------
(* The client of rbt_range.h: update_subtree() as its comment gives it. *)

RECURSIVE Update(_, _, _)
Update(t, sum, n) ==
    IF n = Null \/ n \notin t.mod THEN sum
    ELSE LET s1 == Update(t, Update(t, sum, t.kid[n].L), t.kid[n].R)
             Of(c) == IF c = Null THEN <<>> ELSE s1[c]
         IN  [s1 EXCEPT ![n] = Of(t.kid[n].L) \o <<KeyOf(n)>> \o Of(t.kid[n].R)]

RECURSIVE Updated(_, _)
Updated(t, n) ==
    IF n = Null \/ n \notin t.mod THEN {}
    ELSE {n} \cup Updated(t, t.kid[n].L) \cup Updated(t, t.kid[n].R)

RECURSIVE Collect(_, _, _)
Collect(t, sum, parts) ==
    IF parts = <<>> THEN <<>>
    ELSE LET e == Head(parts)
         IN  (IF e.type = "NODE" THEN <<KeyOf(e.node)>> ELSE Update(t, sum, e.node)[e.node])
             \o Collect(t, sum, Tail(parts))

-----------------------------------------------------------------------------
Init ==
    /\ tree = [root |-> Null, kid |-> [n \in Node |-> [d \in Side |-> Null]],
               up |-> [n \in Node |-> Null], red |-> {}, mod |-> {}]
    /\ summary = [n \in Node |-> <<>>]
    /\ members = {}

(* A summary is only read while its node is not marked; marked ones are    *)
(* normalised.                                                             *)
Fresh(t, sum) == [n \in Node |-> IF n \in t.mod THEN <<>> ELSE sum[n]]

DoInsert(n) ==
    /\ n \notin members
    /\ tree' = Forget(Insert(tree, n), Find(tree, KeyOf(n)))
    /\ members' = {m \in members : KeyOf(m) # KeyOf(n)} \cup {n}
    /\ summary' = Fresh(tree', [summary EXCEPT ![n] = <<>>])

DoRemove(n) ==
    /\ n \in members
    /\ tree' = Remove(tree, n)
    /\ members' = members \ {n}
    /\ summary' = Fresh(tree', [summary EXCEPT ![n] = <<>>])

(* The client changes the data of a node and says so. *)
DoMark(n) ==
    /\ n \in members
    /\ tree' = MarkModified(tree, n)
    /\ summary' = Fresh(tree', summary)
    /\ UNCHANGED members

(* A query brings the summaries of the subtrees it meets up to date. *)
DoQuery(lo, hi) ==
    /\ lo <= hi
    /\ LET trees == {e.node : e \in {x \in RangeOf(RangeQuery(tree, lo, hi)) : x.type = "TREE"}}
           done == UNION {Updated(tree, n) : n \in trees}
       IN  /\ done # {}
           /\ summary' = [n \in Node |-> IF n \in done THEN Update(tree, summary, n)[n] ELSE summary[n]]
           /\ tree' = [tree EXCEPT !.mod = @ \ done]
    /\ UNCHANGED members

Next ==
    \/ \E n \in Node : DoInsert(n) \/ DoRemove(n) \/ DoMark(n)
    \/ \E lo, hi \in 1..MaxKey : DoQuery(lo, hi)

Spec == Init /\ [][Next]_vars

-----------------------------------------------------------------------------
(* Properties *)

RECURSIVE Inorder(_, _)
Inorder(t, n) ==
    IF n = Null THEN <<>> ELSE Inorder(t, t.kid[n].L) \o <<n>> \o Inorder(t, t.kid[n].R)

RECURSIVE BlackHeights(_, _)
BlackHeights(t, n) ==
    IF n = Null THEN {1}
    ELSE {h + (IF IsRed(t, n) THEN 0 ELSE 1)
            : h \in BlackHeights(t, t.kid[n].L) \cup BlackHeights(t, t.kid[n].R)}

(* The repairs of rbt_insert() and rbt_remove() restore balance after any  *)
(* sequence of operations: the root is black, no red node has a red child  *)
(* and all paths down have the same number of black nodes.                 *)
RedBlack ==
    /\ tree.root = Null \/ IsBlack(tree, tree.root)
    /\ \A n \in members, d \in Side : IsRed(tree, n) => IsBlack(tree, tree.kid[n][d])
    /\ Cardinality(BlackHeights(tree, tree.root)) = 1

(* Rotations, replacement of a node with an equal key and the exchange     *)
(* with the successor lose no node and keep the order: read from left to   *)
(* right the tree is what was inserted and not removed or replaced, sorted *)
(* by key, and every link down has its link up.                            *)
SortedMembers ==
    LET s == Inorder(tree, tree.root)
    IN  /\ RangeOf(s) = members
        /\ \A i \in 1..(Len(s) - 1) : KeyOf(s[i]) < KeyOf(s[i + 1])
        /\ \A n \in members, d \in Side :
               tree.kid[n][d] # Null => tree.up[tree.kid[n][d]] = n
        /\ tree.root # Null => tree.up[tree.root] = Null

(* The greatest (d = "R") or least node of a set, Null for none. *)
Best(set, d) ==
    IF set = {} THEN Null
    ELSE CHOOSE n \in set : \A m \in set : IF d = "R" THEN KeyOf(m) <= KeyOf(n) ELSE KeyOf(n) <= KeyOf(m)

(* rbt_find(), the iterators and the searches for the nearest key agree    *)
(* with the sorted contents for every node and for every key, present or   *)
(* not.                                                                    *)
IteratorsExact ==
    /\ \A d \in Side : IterEnd(tree, d) = Best(members, d)
    /\ \A n \in members :
          /\ IterNext(tree, n, "R") = Best({m \in members : KeyOf(m) > KeyOf(n)}, "L")
          /\ IterNext(tree, n, "L") = Best({m \in members : KeyOf(m) < KeyOf(n)}, "R")
    /\ \A key \in 0..(MaxKey + 1) :
          /\ Find(tree, key) = Best({m \in members : KeyOf(m) = key}, "L")
          /\ \A strict \in BOOLEAN :
                /\ Bound(tree, tree.root, Null, key, TRUE, strict) =
                      Best({m \in members : KeyOf(m) < key \/ (~strict /\ KeyOf(m) = key)}, "R")
                /\ Bound(tree, tree.root, Null, key, FALSE, strict) =
                      Best({m \in members : KeyOf(m) > key \/ (~strict /\ KeyOf(m) = key)}, "L")

(* A range query answered from cached summaries, refreshed only where      *)
(* RBT_FLAG_MODIFIED says so, gives exactly the keys of the range, in      *)
(* order: every operation marks every node whose descendants it changes.   *)
RangeExact ==
    \A lo, hi \in 1..MaxKey : lo <= hi =>
        Collect(tree, summary, RangeQuery(tree, lo, hi)) =
            SelectSeq([i \in 1..MaxKey |-> i],
                      LAMBDA k : lo <= k /\ k <= hi /\ \E n \in members : KeyOf(n) = k)

=============================================================================
