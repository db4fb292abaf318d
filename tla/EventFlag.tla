----------------------------- MODULE EventFlag -----------------------------
(***************************************************************************)
(* What a thr_event_t promises to a program with one waiting thread: a     *)
(* flag that anybody may raise; a wait ends only when the flag is up, and  *)
(* ends if the flag stays up.  A wait with a timeout may also give up.     *)
(* This is the event that Runq uses.                                       *)
(***************************************************************************)
VARIABLES raised,   \* the flag
          waiter    \* "out", "waiting", or "passed" when the wait has ended

eventVars == <<raised, waiter>>

Init == raised = FALSE /\ waiter = "out"

Raise == raised' = TRUE /\ UNCHANGED waiter

Clear == raised' = FALSE /\ waiter = "passed" /\ waiter' = "out"

Enter == waiter = "out" /\ waiter' = "waiting" /\ UNCHANGED raised

Pass == waiter = "waiting" /\ raised /\ waiter' = "passed" /\ UNCHANGED raised

GiveUp == waiter = "waiting" /\ waiter' = "out" /\ UNCHANGED raised

Next == Raise \/ Clear \/ Enter \/ Pass \/ GiveUp

SafeSpec == Init /\ [][Next]_eventVars

Spec == SafeSpec /\ WF_eventVars(Pass)
=============================================================================
