-------------------------------- MODULE Istr --------------------------------
(***************************************************************************)
(* The pool of immutable strings, src/src/istr.c: descriptors with         *)
(* reference counts, and their texts, one behind the other, in a string    *)
(* buffer that garbage collection copies.  Threshold stands for the 128    *)
(* descriptors at which collection begins.                                 *)
(*                                                                         *)
(* gc_text() reserves room for all texts and then ignores what             *)
(* strbuf_add_string() returns.  But strbuf_add_string() gives the room    *)
(* back and asks for it again bit by bit, so it may fail; the text is then *)
(* gone, which lost records, and nothing but the destruction of the pool   *)
(* is modelled after that.                                                 *)
(***************************************************************************)
EXTENDS Integers, Sequences

CONSTANTS Descs,       \* the descriptors slab_alloc() may return; it may also fail
          Strings,     \* the strings that are allocated
          Threshold, MinCap,
          MaxRefs, MaxText    \* bounds on references and on the text buffer

VARIABLES text,        \* p->text
          all,         \* p->all
          desc,        \* offset, length and refcnt of the descriptors in p->all
          gc_threshold,
          content,     \* the strings the user still refers to
          lost         \* a text was lost in gc_text()

vars == <<text, all, desc, gc_threshold, content, lost>>

T == INSTANCE Strbuf WITH buf <- text, str <- <<>>, torn <- FALSE,
                          Texts <- Strings, MaxLength <- MaxText

Init ==
    /\ text = T!Blank
    /\ all = <<>> /\ desc = <<>> /\ gc_threshold = Threshold
    /\ content = <<>> /\ lost = FALSE

With(f, d, v) == [e \in DOMAIN f \cup {d} |-> IF e = d THEN v ELSE f[e]]
Only(f, D) == [e \in D |-> f[e]]
Elements(s) == {s[i] : i \in DOMAIN s}

IstrText(b, e) == SubSeq(b.text, e.offset + 1, e.offset + e.length)

-----------------------------------------------------------------------------
(* Garbage collection *)

InUse(e) == e.refcnt > 0

(* gc_desc(): the order is kept. *)
GcDesc(p) ==
    LET live[k \in 0..Len(p.all)] ==
          IF k = 0 THEN <<>>
          ELSE IF InUse(p.desc[p.all[k]]) THEN Append(live[k - 1], p.all[k]) ELSE live[k - 1]
        kept == live[Len(p.all)]
    IN  [p EXCEPT !.all = kept, !.desc = Only(@, Elements(kept))]

(* A round of the loop of gc_text(), for descriptor d: its outcomes. *)
CopyText(c, d) ==
    LET e == c.p.desc[d]
        s == SubSeq(c.p.text.text, e.offset + 1, e.offset + e.length + 1)
    IN  {[p |-> [c.p EXCEPT !.desc[d].offset = c.new.length, !.lost = @ \/ ~r.ok], new |-> r.b]
           : r \in T!AddString(c.new, s)}

(* The loop of gc_text(): copied[k] has the outcomes for k descriptors. *)
CopyTexts(p, new) ==
    LET copied[k \in 0..Len(p.all)] ==
          IF k = 0 THEN {[p |-> p, new |-> new]}
          ELSE UNION {CopyText(c, p.all[k]) : c \in copied[k - 1]}
    IN  copied[Len(p.all)]

GcText(p) ==
    LET slim(c) == {[c.p EXCEPT !.text = r.b] : r \in T!CapacityHint(c.new, c.new.length)}
    IN  UNION {IF r.ok THEN UNION {slim(c) : c \in CopyTexts(p, r.b)} ELSE {p}
                 : r \in T!CapacityHint(T!Blank, p.text.length)}

(* istr_pool_gc() *)
Gc(p) == GcText(GcDesc(p))

-----------------------------------------------------------------------------
This == [text |-> text, all |-> all, desc |-> desc, gc_threshold |-> gc_threshold, lost |-> lost]

Becomes(p) ==
    /\ text' = p.text /\ all' = p.all /\ desc' = p.desc
    /\ gc_threshold' = p.gc_threshold /\ lost' = p.lost

AfterGc(p) ==
    [p EXCEPT !.gc_threshold = IF Len(p.all) * 4 < Threshold THEN Threshold ELSE Len(p.all) * 4]

MaybeGc(p) == IF Len(p.all) >= p.gc_threshold THEN {AfterGc(q) : q \in Gc(p)} ELSE {p}

PoolAlloc(d, s) ==
    /\ d \notin Elements(all)
    /\ text.length + Len(s) + 1 <= MaxText
    /\ \E r1 \in T!AddString(text, s) :
       \E r2 \in IF r1.ok THEN T!AddString(r1.b, <<0>>) ELSE {r1} :
          IF r2.ok
          THEN LET e == [offset |-> text.length, length |-> Len(s), refcnt |-> 1]
                   p == [This EXCEPT !.text = r2.b, !.all = <<d>> \o @, !.desc = With(@, d, e)]
               IN  (\E q \in MaybeGc(p) : Becomes(q)) /\ content' = With(content, d, s)
          ELSE Becomes([This EXCEPT !.text = r2.b]) /\ UNCHANGED content

PoolGc == (\E q \in Gc(This) : Becomes(q)) /\ UNCHANGED content

Ref(d) ==
    /\ desc[d].refcnt \in 1..(MaxRefs - 1)
    /\ Becomes([This EXCEPT !.desc[d].refcnt = @ + 1]) /\ UNCHANGED content

Unref(d) ==
    /\ desc[d].refcnt > 0
    /\ Becomes([This EXCEPT !.desc[d].refcnt = @ - 1])
    /\ content' = IF desc[d].refcnt = 1 THEN Only(content, DOMAIN content \ {d}) ELSE content

(* istr_pool_destroy(), and istr_pool_init() again *)
PoolDestroy ==
    /\ text' = T!Blank
    /\ all' = <<>> /\ desc' = <<>> /\ gc_threshold' = Threshold
    /\ content' = <<>> /\ lost' = FALSE

Next ==
    \/ /\ ~lost
       /\ \/ \E d \in Descs, s \in Strings : PoolAlloc(d, s)
          \/ PoolGc
          \/ \E d \in Elements(all) : Ref(d) \/ Unref(d)
    \/ PoolDestroy

Spec == Init /\ [][Next]_vars

-----------------------------------------------------------------------------
(* Comparison: the sign of memcmp() for n characters, and what             *)
(* istr_compare() makes of it.                                             *)
Memcmp(a, b, n) ==
    LET diffs == {i \in 1..n : a[i] # b[i]}
        first == CHOOSE i \in diffs : \A j \in diffs : i <= j
    IN  IF diffs = {} THEN 0 ELSE IF a[first] < b[first] THEN -1 ELSE 1

IstrCompare(a, b) ==
    CASE Len(a) < Len(b) -> IF Memcmp(a, b, Len(a)) = 0 THEN -1 ELSE Memcmp(a, b, Len(a))
      [] Len(a) > Len(b) -> IF Memcmp(a, b, Len(b)) = 0 THEN 1 ELSE Memcmp(a, b, Len(b))
      [] OTHER -> Memcmp(a, b, Len(a))

TextKept(d) ==
    LET e == desc[d]
    IN  /\ e.offset + e.length < text.length
        /\ IstrText(text, e) = content[d]
        /\ text.text[e.offset + e.length + 1] = 0

(* Strings are immutable: whatever is allocated, released and collected,   *)
(* and whichever allocation fails, a string that is referred to keeps its  *)
(* descriptor and its text, with its terminator, and strings compare equal *)
(* when their texts are.  That gc_text() lost no text has to be assumed.   *)
StringsKept ==
    ~lost => /\ \A d \in DOMAIN content : d \in Elements(all) /\ TextKept(d)
             /\ \A c, d \in DOMAIN content :
                   IstrCompare(IstrText(text, desc[c]), IstrText(text, desc[d])) = 0
                      <=> content[c] = content[d]

(* What istr.h says of istr_pool_gc(): that memory could not be allocated  *)
(* is "not a fatal error"; so no string loses its text through it.         *)
GcNotFatal == \A d \in DOMAIN content : TextKept(d)

=============================================================================
