------------------------------ MODULE Doubling ------------------------------
(***************************************************************************)
(* The sizes of memory that strbuf.c, hash.c and vector.c choose: least,   *)
(* and twice as much as long as that is not enough.  strbuf.c and hash.c   *)
(* find them by this loop; vector.c, by clearing bits, the same power of 2 *)
(* (least is one there).                                                   *)
(***************************************************************************)
EXTENDS Integers

(* cap[k] is the size after k rounds; needed rounds are more than enough. *)
Doubled(least, needed) ==
    LET cap[k \in 0..needed] ==
          IF k = 0 THEN least
          ELSE IF cap[k - 1] < needed THEN 2 * cap[k - 1] ELSE cap[k - 1]
    IN  cap[needed]
=============================================================================
