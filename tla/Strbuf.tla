------------------------------- MODULE Strbuf -------------------------------
(***************************************************************************)
(* The string buffer, src/src/strbuf.c.  A buffer is a record of its       *)
(* memory, its length and the failed flag; the capacity is the length of   *)
(* the memory, and no memory stands for the constant strbuf_blank.  A      *)
(* character is a number, 0 the terminator and Junk what malloc() leaves.  *)
(* Operations are given as the set of their outcomes, each the new buffer  *)
(* and whether the call succeeded, since any allocation may fail.  MinCap  *)
(* stands for the 32 of strbuf_capacity_hint().                            *)
(***************************************************************************)
EXTENDS Integers, Sequences, Doubling

CONSTANTS MinCap,
          Texts,       \* the strings that are added
          MaxLength    \* bound on the length of the buffer

VARIABLES buf,
          str,         \* what the buffer should hold, Junk where unspecified
          torn         \* the terminator may be missing: the memory is new and no
                       \* text was added, or strbuf_vprintf() failed half-way

vars == <<buf, str, torn>>

Junk == -1
Blank == [text |-> <<>>, length |-> 0, failed |-> FALSE]
Outcome(b, ok) == [b |-> b, ok |-> ok]

-----------------------------------------------------------------------------
NewCap(length) == Doubled(MinCap, length + 1)

Realloc(text, cap) == [i \in 1..cap |-> IF i <= Len(text) THEN text[i] ELSE Junk]

(* The capacity changes to what length needs, downwards too. *)
CapacityHint(b, length) ==
    IF length < b.length \/ NewCap(length) = Len(b.text) THEN {Outcome(b, TRUE)}
    ELSE {Outcome([b EXCEPT !.text = Realloc(@, NewCap(length))], TRUE), Outcome(b, FALSE)}

(* s and a terminator are written behind the text. *)
Put(b, s) ==
    [b EXCEPT !.text = [i \in DOMAIN @ |->
                          IF i \in (b.length + 1)..(b.length + Len(s)) THEN s[i - b.length]
                          ELSE IF i = b.length + Len(s) + 1 THEN 0 ELSE @[i]]]

Grown(b, s) == [Put(b, s) EXCEPT !.length = @ + Len(s)]

(* Mutation: no room is made for the terminator. *)
RoomForShort(b, s) == b.length + Len(s) - 1

RoomFor(b, s) == b.length + Len(s)

(* The failed flag is not set here, other than strbuf.h says. *)
AddString(b, s) ==
    {IF r.ok THEN Outcome(Grown(r.b, s), TRUE) ELSE r : r \in CapacityHint(b, RoomFor(b, s))}

Cut(b, length) == [b EXCEPT !.length = length, !.text[length + 1] = 0]

Resize(b, length) ==
    LET room == IF length + 1 > Len(b.text) THEN CapacityHint(b, length) ELSE {Outcome(b, TRUE)}
        slim(c) == IF (length + 1) * 4 < Len(c.text) THEN {r.b : r \in CapacityHint(c, length + 1)} ELSE {c}
    IN  UNION {IF r.ok THEN {Outcome(c, TRUE) : c \in slim(Cut(r.b, length))}
               ELSE {Outcome([b EXCEPT !.failed = TRUE], FALSE)} : r \in room}

Fits(b, s) == Len(s) + 1 < Len(b.text) - b.length

(* A round in which s does not fit: vsnprintf() writes what does. *)
MoreRoom(b, s) ==
    CapacityHint(Put(b, SubSeq(s, 1, Len(b.text) - b.length - 1)), Len(b.text) + 1)

(* vsnprintf() again and again into more room, at least 1 more each round: *)
(* tried[k] holds the buffer after k rounds that did not fit.              *)
Attempt(b, s) ==
    LET tried[k \in 0..(Len(s) + 1)] ==
          IF k = 0 THEN {b}
          ELSE UNION {{r.b : r \in {q \in MoreRoom(c, s) : q.ok}}
                        : c \in {d \in tried[k - 1] : ~Fits(d, s)}}
        bufs == UNION {tried[k] : k \in 0..(Len(s) + 1)}
        more == UNION {MoreRoom(c, s) : c \in {d \in bufs : ~Fits(d, s)}}
    IN  {Outcome(Grown(c, s), TRUE) : c \in {d \in bufs : Fits(d, s)}}
          \cup {Outcome([r.b EXCEPT !.failed = TRUE], FALSE) : r \in {q \in more : ~q.ok}}

Vprintf(b, s) == UNION {IF r.ok THEN Attempt(r.b, s) ELSE {r} : r \in CapacityHint(b, 1)}

-----------------------------------------------------------------------------
Init == buf = Blank /\ str = <<>> /\ torn = FALSE

Becomes(r, s) == buf' = r.b /\ str' = IF r.ok THEN s ELSE str

DoHint(n) ==
    /\ \E r \in CapacityHint(buf, n) :
          buf' = r.b /\ torn' = (torn \/ (buf.text = <<>> /\ r.b.text # <<>>))
    /\ UNCHANGED str

DoAddString(s) ==
    /\ Len(str) + Len(s) <= MaxLength
    /\ \E r \in AddString(buf, s) : Becomes(r, str \o s) /\ torn' = (torn /\ ~r.ok)

DoResize(n) ==
    \E r \in Resize(buf, n) :
        /\ Becomes(r, [i \in 1..n |-> IF i <= Len(str) THEN str[i] ELSE Junk])
        /\ torn' = (torn /\ ~r.ok)

DoVprintf(s) ==
    /\ Len(str) + Len(s) <= MaxLength
    /\ \E r \in Vprintf(buf, s) :
          Becomes(r, str \o s) /\ torn' = (~r.ok /\ (torn \/ r.b # buf))

DoClear == buf' = Blank /\ str' = <<>> /\ torn' = FALSE

Next ==
    \/ \E n \in 0..MaxLength : DoHint(n) \/ DoResize(n)
    \/ \E s \in Texts : DoAddString(s) \/ DoVprintf(s)
    \/ DoClear

Spec == Init /\ [][Next]_vars

-----------------------------------------------------------------------------
(* Through growing, shrinking and failures of either the buffer holds what *)
(* was put in, inside its memory and with a terminator behind it.  The     *)
(* terminator may be missing where strbuf.h promises it all the same: when *)
(* memory was preallocated and nothing added, and when strbuf_vprintf()    *)
(* fails after an attempt, part of whose output is then in its place.      *)
StrbufHolds ==
    /\ buf.length = Len(str)
    /\ buf.text # <<>> => buf.length < Len(buf.text)
    /\ buf.text = <<>> => buf.length = 0
    /\ \A i \in DOMAIN str : str[i] # Junk => buf.text[i] = str[i]
    /\ (buf.text # <<>> /\ ~torn) => buf.text[buf.length + 1] = 0

=============================================================================
