------------------------------ MODULE Library ------------------------------
(***************************************************************************)
(* All independent components of libdlb, model-checked in one run: those   *)
(* of Components, and the red-black trees, the arena and the big integers. *)
(* As there, the initial state chooses one part and the variables of the   *)
(* others keep their initial values.                                       *)
(***************************************************************************)
EXTENDS Components

CONSTANTS MaxKey, TwinKey, Orders, HeaderSize, ArenaSize, Sizes,
          CompBits, ChunkSize, XBits, YBits

VARIABLES
  tree, summary, members,                       \* Rbt
  free, header, owned, slack,                   \* Arena
  x, y                                          \* Bint

rbtVars == <<tree, summary, members>>
arenaVars == <<free, header, owned, slack>>
bintVars == <<x, y>>

\* Nodes 1 and 2 have the same key; nodes 3, 4 and 5 share chains with it, or
\* not, as the table grows.
TableNodes == {[id |-> 1, key |-> 1, code |-> 0], [id |-> 2, key |-> 1, code |-> 0],
               [id |-> 3, key |-> 2, code |-> 5], [id |-> 4, key |-> 3, code |-> 10],
               [id |-> 5, key |-> 4, code |-> 6]}

BufferSizes == [b \in {"in", "out"} |-> IF b = "in" THEN 3 ELSE 2]

SomeStrings == {<<>>, <<1>>, <<2, 1>>}

\* The memory after the last block of the arena looks like a free block, of
\* another order than the last one.
Slack == {[free |-> TRUE, order |-> 3]}

R == INSTANCE Rbt
A == INSTANCE Arena
B == INSTANCE Bint

LibraryInit ==
  /\ part \in Part \cup {"rbt", "arena", "bint"}
  /\ PartsInit /\ R!Init /\ A!Init /\ B!Init

RbtStep == part = "rbt" /\ R!Next /\ UNCHANGED <<vars, arenaVars, bintVars>>
ArenaStep == part = "arena" /\ A!Next /\ UNCHANGED <<vars, rbtVars, bintVars>>
BintStep == part = "bint" /\ B!Next /\ UNCHANGED <<vars, rbtVars, arenaVars>>
ComponentStep == Next /\ UNCHANGED <<rbtVars, arenaVars, bintVars>>

LibraryNext == RbtStep \/ ArenaStep \/ BintStep \/ ComponentStep

LibrarySpec == LibraryInit /\ [][LibraryNext]_<<vars, rbtVars, arenaVars, bintVars>> /\ Fairness

-----------------------------------------------------------------------------
(* Properties *)

\* The repairs of rbt_insert() and rbt_remove() keep the tree balanced, sorted
\* and complete; searches, iterators and range queries from cached summaries,
\* kept by the MODIFIED flags, agree with its contents.
TreeExact ==
  part = "rbt" => R!RedBlack /\ R!SortedMembers /\ R!IteratorsExact /\ R!RangeExact

\* The blocks of arena.c tile its memory, free buddies are joined, and headers in
\* memory agree with the lists.
ArenaExact == part = "arena" => A!BlocksTile /\ A!Joined /\ A!HeadersTrue

\* The operations of bint.c agree with the integers, across components and
\* chunks, run past the end of no chain and leave no empty last chunk.  The cases
\* in which the code does not are excluded by name, and exactly: an addition
\* that loses a carry past the shorter operand (CarryKept, with a run of its own),
\* a product that drops a carry between chunks, a quotient whose first bit is
\* skipped, the empty chunk that bint_shift_left() and bint_mul() may leave and
\* bint_expt() multiplies on, and -0.
ArithmeticExact ==
  part = "bint" =>
    /\ B!StaysTrimmed /\ B!RoomEnough /\ B!SumExact /\ B!ProductExact /\ B!QuotientExact
    /\ B!BitsExact /\ B!DigitsExact
=============================================================================
