------------------------------- MODULE Lists -------------------------------
(***************************************************************************)
(* The linked lists at pointer level: src/src/list.c (circular, doubly     *)
(* linked, with the heads H1 and H2) and src/src/slist.c (one singly       *)
(* linked list).  Items is the set of nodes; a node is in at most one list *)
(* of each kind.                                                           *)
(***************************************************************************)
EXTENDS Naturals, Sequences

CONSTANTS Items

VARIABLES next, prev,         \* struct list_node of heads and items
          slist, snext,       \* struct slist and the links of its nodes
          lists, sitems       \* what the lists should hold, as sequences

vars == <<next, prev, slist, snext, lists, sitems>>

NULL == "NULL"
Heads == {"H1", "H2"}

InLists == UNION {{lists[h][i] : i \in DOMAIN lists[h]} : h \in Heads}
InSlist == {sitems[i] : i \in DOMAIN sitems}

Init ==
    /\ next = [n \in Heads \cup Items |-> IF n \in Heads THEN n ELSE NULL]
    /\ prev = next
    /\ slist = [start |-> NULL, end |-> NULL]
    /\ snext = [n \in Items |-> NULL]
    /\ lists = [h \in Heads |-> <<>>]
    /\ sitems = <<>>

-----------------------------------------------------------------------------
(* The item goes before the node given, which may be a head.  In the       *)
(* sequence of list h it gets index i.                                     *)
ListInsert(item, after, h, i) ==
    /\ item \notin InLists
    /\ i \in 1..(Len(lists[h]) + 1)
    /\ after = IF i > Len(lists[h]) THEN h ELSE lists[h][i]
    /\ next' = [next EXCEPT ![item] = after, ![prev[after]] = item]
    /\ prev' = [prev EXCEPT ![item] = prev[after], ![after] = item]
    /\ lists' = [lists EXCEPT ![h] = SubSeq(@, 1, i - 1) \o <<item>> \o SubSeq(@, i, Len(@))]
    /\ UNCHANGED <<slist, snext, sitems>>

Unlinked(f, g, item) == [f EXCEPT ![g[item]] = f[item], ![item] = NULL]

(* The item is the one with index i in list h. *)
ListRemove(item, h, i) ==
    /\ i \in 1..Len(lists[h]) /\ item = lists[h][i]
    /\ prev' = Unlinked(prev, next, item)
    /\ next' = Unlinked(next, prev, item)
    /\ lists' = [lists EXCEPT ![h] = SubSeq(@, 1, i - 1) \o SubSeq(@, i + 1, Len(@))]
    /\ UNCHANGED <<slist, snext, sitems>>

Taken(f, g, dst, src) == [f EXCEPT ![dst] = f[src], ![g[src]] = dst, ![src] = src]

(* Meant for an empty destination: what dst held before is cut off. *)
ListMove(dst, src) ==
    /\ dst # src /\ lists[dst] = <<>>
    /\ IF next[src] = src
       THEN /\ next' = [next EXCEPT ![dst] = dst]
            /\ prev' = [prev EXCEPT ![dst] = dst]
       ELSE /\ next' = Taken(next, prev, dst, src)
            /\ prev' = Taken(prev, next, dst, src)
    /\ lists' = [lists EXCEPT ![dst] = lists[src], ![src] = <<>>]
    /\ UNCHANGED <<slist, snext, sitems>>

-----------------------------------------------------------------------------
SlistPush(n) ==
    /\ n \notin InSlist
    /\ snext' = [snext EXCEPT ![n] = slist.start]
    /\ slist' = [start |-> n, end |-> IF slist.end = NULL THEN n ELSE slist.end]
    /\ sitems' = <<n>> \o sitems
    /\ UNCHANGED <<next, prev, lists>>

(* Mutation: the pointer to the end is left dangling. *)
EndAfterPopKept(start) == slist.end

EndAfterPop(start) == IF start = NULL THEN NULL ELSE slist.end

SlistPop ==
    /\ slist.start # NULL
    /\ slist' = [start |-> snext[slist.start], end |-> EndAfterPop(snext[slist.start])]
    /\ sitems' = Tail(sitems)
    /\ UNCHANGED <<next, prev, snext, lists>>

SlistAppend(n) ==
    /\ n \notin InSlist
    /\ snext' = [m \in Items |-> IF m = n THEN NULL ELSE IF m = slist.end THEN n ELSE snext[m]]
    /\ slist' = [start |-> IF slist.end # NULL THEN slist.start ELSE n, end |-> n]
    /\ sitems' = Append(sitems, n)
    /\ UNCHANGED <<next, prev, lists>>

Next ==
    \/ \E item \in Items, h \in Heads : \E after \in Heads \cup Items, i \in 1..(Len(lists[h]) + 1) :
          ListInsert(item, after, h, i)
    \/ \E item \in Items, h \in Heads : \E i \in 1..Len(lists[h]) : ListRemove(item, h, i)
    \/ \E item \in Items : SlistPush(item) \/ SlistAppend(item)
    \/ \E dst, src \in Heads : ListMove(dst, src)
    \/ SlistPop

Spec == Init /\ [][Next]_vars

-----------------------------------------------------------------------------
(* The links of a circular list that holds the sequence s. *)
Ring(h, s) == <<h>> \o s \o <<h>>

(* Whatever is inserted, removed or moved, in the middle or at an end, the *)
(* links forwards and backwards are those of the sequences, and a node     *)
(* outside has none.                                                       *)
ListsMatch ==
    /\ \A h \in Heads : LET r == Ring(h, lists[h]) IN
          \A i \in 1..(Len(r) - 1) : next[r[i]] = r[i + 1] /\ prev[r[i + 1]] = r[i]
    /\ \A n \in Items \ InLists : next[n] = NULL /\ prev[n] = NULL

(* The singly linked list, read from its start, is the sequence of what    *)
(* was pushed and appended, and its end is found after the list has been   *)
(* empty in between.                                                       *)
SlistMatches ==
    IF sitems = <<>> THEN slist = [start |-> NULL, end |-> NULL]
    ELSE /\ slist = [start |-> sitems[1], end |-> sitems[Len(sitems)]]
         /\ \A i \in DOMAIN sitems :
               snext[sitems[i]] = IF i < Len(sitems) THEN sitems[i + 1] ELSE NULL

=============================================================================
