----------------------------- MODULE Components -----------------------------
(***************************************************************************)
(* The components of libdlb that share no state with another one: the data *)
(* structures of src/src, and the events, asynchronous files and resolver  *)
(* of src/io.  The initial state chooses one of them, part, and the        *)
(* variables of the others keep their initial values.  The module adds no  *)
(* behaviour and no property of its own; it gives the components their     *)
(* names and restates the properties of each for its behaviours.  Those    *)
(* that the proofs do not reach are added in Library.                      *)
(***************************************************************************)
EXTENDS Integers, Sequences, Doubling

CONSTANTS Items, Capacity, Bytes, HashNodes, MinSize, MaxHint, Slabs, Count, Strings,
          MinCap, MaxLength, Descs, Threshold, MaxRefs, MaxText, MinElems, Elems, MaxElems,
          Raisers, Requests, MaxAsks, None

VARIABLES
  part,
  next, prev, slist, snext, lists, sitems,      \* Lists
  cbuf, data, queue,                            \* Cbuf
  size, count, table, stored,                   \* Hash
  full, partial, info, held,                    \* Slab
  buf, str, torn,                               \* Strbuf
  text, all, desc, gc_threshold, content, lost, \* Istr
  ptr, length, elems,                           \* Vector
  state, signalling, waiter, timed,             \* ThrEvent
  phase, set, cancelled, ready, err,            \* Afile
  flags, error, entered, performing, told,
  requests, quit, notify, worker, busy,         \* Adns
  question, result, failed, raising, cancelling, tasks, ended, leftover, raced,
  outstanding                                   \* Afile and Adns

listVars == <<next, prev, slist, snext, lists, sitems>>
cbufVars == <<cbuf, data, queue>>
hashVars == <<size, count, table, stored>>
slabVars == <<full, partial, info, held>>
strbufVars == <<buf, str, torn>>
istrVars == <<text, all, desc, gc_threshold, content, lost>>
vectorVars == <<ptr, length, elems>>
eventVars == <<state, signalling, waiter, timed>>
fileVars == <<phase, set, cancelled, ready, err, flags, error, entered, performing, told>>
dnsVars == <<requests, quit, notify, worker, busy, question, result, failed, raising,
             cancelling, tasks, ended, leftover, raced>>

structVars == <<listVars, cbufVars, hashVars, slabVars, strbufVars, istrVars, vectorVars>>
ioVars == <<eventVars, fileVars, dnsVars, outstanding>>
vars == <<part, structVars, ioVars>>

Part == {"lists", "cbuf", "hash", "slab", "strbuf", "istr", "vector", "event", "file", "dns"}

L == INSTANCE Lists
C == INSTANCE Cbuf
H == INSTANCE Hash
S == INSTANCE Slab
T == INSTANCE Strbuf WITH Texts <- Strings
I == INSTANCE Istr
V == INSTANCE Vector
E == INSTANCE ThrEvent
F == INSTANCE Afile
D == INSTANCE Adns

\* What the components need of their constants: the heads and the end of a list
\* are no items of it, memory has a size, minimal sizes are not zero, texts are
\* sequences of characters, and the hash of a node depends on its key.
ListsAssumption == Items \cap {"NULL", "H1", "H2"} = {}

CbufAssumption == (\A b \in C!Buffer : Capacity[b] \in Nat \ {0}) /\ Bytes # {}

HashAssumption ==
  /\ MinSize \in Nat \ {0} /\ MaxHint \in Nat
  /\ \A n \in HashNodes : n.code \in Nat
  /\ \A m, n \in HashNodes : m.key = n.key => m.code = n.code

SlabAssumption == Count \in Nat \ {0}

TextAssumption == MinCap \in Nat \ {0} /\ Strings \subseteq Seq(Nat)

VectorAssumption == MinElems \in Nat \ {0} /\ MaxElems \in Nat

ASSUME ConstantsAssumption ==
  /\ ListsAssumption /\ CbufAssumption /\ HashAssumption /\ SlabAssumption
  /\ TextAssumption /\ MaxLength \in Nat /\ VectorAssumption
  /\ None \notin Requests

PartsInit ==
  /\ L!Init /\ C!Init /\ H!Init /\ S!Init /\ T!Init /\ I!Init /\ V!Init
  /\ E!Init /\ F!Init /\ D!Init

Init == part \in Part /\ PartsInit

ListsStep ==
  /\ part = "lists" /\ L!Next
  /\ UNCHANGED <<part, cbufVars, hashVars, slabVars, strbufVars, istrVars, vectorVars, ioVars>>

CbufStep ==
  /\ part = "cbuf" /\ C!Next
  /\ UNCHANGED <<part, listVars, hashVars, slabVars, strbufVars, istrVars, vectorVars, ioVars>>

HashStep ==
  /\ part = "hash" /\ H!Next
  /\ UNCHANGED <<part, listVars, cbufVars, slabVars, strbufVars, istrVars, vectorVars, ioVars>>

SlabStep ==
  /\ part = "slab" /\ S!Next
  /\ UNCHANGED <<part, listVars, cbufVars, hashVars, strbufVars, istrVars, vectorVars, ioVars>>

StrbufStep ==
  /\ part = "strbuf" /\ T!Next
  /\ UNCHANGED <<part, listVars, cbufVars, hashVars, slabVars, istrVars, vectorVars, ioVars>>

IstrStep ==
  /\ part = "istr" /\ I!Next
  /\ UNCHANGED <<part, listVars, cbufVars, hashVars, slabVars, strbufVars, vectorVars, ioVars>>

VectorStep ==
  /\ part = "vector" /\ V!Next
  /\ UNCHANGED <<part, listVars, cbufVars, hashVars, slabVars, strbufVars, istrVars, ioVars>>

EventStep == part = "event" /\ E!Next /\ UNCHANGED <<part, structVars, fileVars, dnsVars, outstanding>>
FileStep == part = "file" /\ F!Next /\ UNCHANGED <<part, structVars, eventVars, dnsVars>>
DnsStep == part = "dns" /\ D!Next /\ UNCHANGED <<part, structVars, eventVars, fileVars>>

Next ==
  \/ ListsStep \/ CbufStep \/ HashStep \/ SlabStep \/ StrbufStep \/ IstrStep \/ VectorStep
  \/ EventStep \/ FileStep \/ DnsStep

Spec == Init /\ [][Next]_vars

\* The fairness of ThrEvent, Afile and Adns, each for its own behaviours.
Fairness ==
  /\ \A t \in Raisers : WF_eventVars(part = "event" /\ E!Signal(t))
  /\ WF_eventVars(part = "event" /\ E!Check)
  /\ WF_fileVars(part = "file" /\ F!WaitProcess)
  /\ \A op \in F!Op : WF_fileVars(part = "file" /\ F!Ending(op))
  /\ WF_dnsVars(part = "dns" /\ D!WorkerStep)
  /\ \A u \in Requests \cup {"user"} : WF_dnsVars(part = "dns" /\ D!RaiseStep(u))
  /\ \A q \in Requests : WF_dnsVars(part = "dns" /\ D!TaskStep(q))

-----------------------------------------------------------------------------
(* Properties: those of each component, for its behaviours *)

\* The links of list.c, and those of slist.c with its pointer to the end, are
\* those of the sequences the lists should hold.
ListsExact == part = "lists" => L!ListsMatch /\ L!SlistMatches

\* A circular buffer holds the bytes put in and not taken out, in order; the
\* areas of cbuf.h are the right memory, and neither side moves or shrinks the
\* other's; cbuf_move() moves as much as it can.
BufferExact ==
  part = "cbuf" => C!HoldsQueue /\ C!AreasApart /\ C!AreasStable /\ C!MoveIsMaximal

\* hash_find() finds what was inserted last, through collisions, resizing and
\* its failures, and the count is right.
TableExact == part = "hash" => H!FindExact /\ H!CountExact

\* String buffers and vectors hold what was added, and strings of a pool keep
\* their texts, through resizing, garbage collection and failing allocations.
\* Excepted are the terminator of a string buffer that was preallocated or that
\* strbuf_vprintf() failed to extend (torn), and texts that gc_text() had no
\* memory for (lost, see GcNotFatal).  slab.c gives objects out once, keeps their
\* slab meanwhile and lists slabs as their free objects call for.
ContentsKept ==
  /\ part = "strbuf" => T!StrbufHolds
  /\ part = "istr" => I!StringsKept
  /\ part = "vector" => V!VectorHolds
  /\ part = "slab" => S!ObjectsAccounted /\ S!SlabsListed

\* istr.h: a failing garbage collection is "not a fatal error".
GcNotFatal == part = "istr" => I!GcNotFatal

\* Mutex, condition variable and integer of an event behave as one flag (which
\* stays as it is in the behaviours of the other parts).
ImplementsFlag == E!ImplementsFlag

\* Requests of a file are called back at most once.  They are waited for, but
\* after an afile_cancel() that had nothing to cancel (CancelLost).  A write that
\* could not be waited for, or was cancelled, reports just that; of one that came
\* to write() this is not claimed, as its outcome goes into the read's fields.
FileServed == part = "file" => F!FileServed

\* A cancellation that found a request ends the requests of a file, unless a later
\* one has given the wait its events again.
FileCancelEnds == part = "file" => F!FileCancelEnds

\* Requests to the resolver are called back once, unless one was cancelled too
\* late; they come with their own answer or error, or when cancelled with none and
\* the error of an earlier lookup, unless one was cancelled too late or asked again
\* during its old lookup; and the resolver does not sleep while there is something
\* to do.
ResolverServes == part = "dns" => D!ResolverServes

\* Requests to the resolver end, and so does adns_resolver_destroy().
ResolverEnds == part = "dns" => D!EveryAskEnds /\ D!DestroyJoins
=============================================================================
