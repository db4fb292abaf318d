----------------------------- MODULE FlagWait -----------------------------
(***************************************************************************)
(* What a mailbox promises: flags that any thread may raise, and one       *)
(* consumer that may wait for some or for all flags of a set.  A wait is   *)
(* completed once, when its condition holds and not before, and it is      *)
(* completed eventually if the condition holds.  While a wait is           *)
(* outstanding nothing lowers a flag, so the consumer still sees the flags *)
(* it waited for when it is called back.                                   *)
(***************************************************************************)
CONSTANTS Flags, AnySets, AllSets, NoReq

VARIABLES flags,  \* the raised flags
          req     \* the outstanding wait, or NoReq

waitVars == <<flags, req>>

Request == [kind : {"any"}, set : AnySets] \cup [kind : {"all"}, set : AllSets]

\* When a wait is to be completed; waiting for no flags needs none.
Satisfied(r, s) ==
  \/ r.set = {}
  \/ r.kind = "any" /\ r.set \cap s /= {}
  \/ r.kind = "all" /\ r.set \subseteq s

Init == flags = {} /\ req = NoReq

Raise(s) ==
  /\ flags' = flags \cup s
  /\ UNCHANGED req

Take(mask) ==
  /\ req = NoReq
  /\ flags' = flags \ mask
  /\ UNCHANGED req

Wait(r) ==
  /\ req = NoReq
  /\ req' = r
  /\ UNCHANGED flags

Complete ==
  /\ req /= NoReq
  /\ Satisfied(req, flags)
  /\ req' = NoReq
  /\ UNCHANGED flags

Next ==
  \/ \E s \in SUBSET Flags : Raise(s) \/ Take(s)
  \/ \E r \in Request : Wait(r)
  \/ Complete

SafeSpec == Init /\ [][Next]_waitVars

Spec == SafeSpec /\ WF_waitVars(Complete)
=============================================================================
