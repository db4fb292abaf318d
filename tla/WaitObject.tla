----------------------------- MODULE WaitObject -----------------------------
(***************************************************************************)
(* What a wait object of an IO queue (struct ioq_fd, io/ioq_linux.h)       *)
(* promises to the files and sockets built on it: one wait at a time; the  *)
(* wait ends with events, with an error, or because it was cancelled;      *)
(* each wait that was begun is followed by one callback; and changing the  *)
(* set of a wait that is over has no effect.  Ioq implements this, Afile   *)
(* and Asock use it.                                                       *)
(***************************************************************************)
CONSTANTS
  Events,       \* IOQ_EVENT_IN, IOQ_EVENT_OUT
  Err           \* IOQ_EVENT_ERR or IOQ_EVENT_HUP

VARIABLES
  phase,        \* "idle", "waiting", or "over": the callback is still to come
  set,          \* the events that are waited for
  cancelled,    \* the wait was cancelled at some time
  ready,        \* ioq_fd_ready()
  err           \* ioq_fd_error() reports an error

waitVars == <<phase, set, cancelled, ready, err>>

WaitInit ==
  /\ phase = "idle"
  /\ set = {}
  /\ cancelled = FALSE
  /\ ready = {}
  /\ err = FALSE

\* ioq_fd_init() of an object that was used before
FdInit ==
  /\ phase' = "idle"
  /\ set' = {}
  /\ cancelled' = FALSE
  /\ ready' = {}
  /\ err' = FALSE

\* ioq_fd_wait()
Wait(s) ==
  /\ phase = "idle"
  /\ phase' = "waiting"
  /\ set' = s
  /\ ready' = {}
  /\ err' = FALSE
  /\ UNCHANGED cancelled

\* ioq_fd_rewait(), and with the empty set ioq_fd_cancel()
Change(s) ==
  /\ phase = "waiting"
  /\ set' = s
  /\ cancelled' = (cancelled \/ s = {})
  /\ UNCHANGED <<phase, ready, err>>

\* Events end the wait.  They may belong to an earlier set.
Report ==
  /\ phase = "waiting"
  /\ phase' = "over"
  /\ \E r \in (SUBSET (Events \cup {Err})) \ {{}} : ready' = r
  /\ UNCHANGED <<set, cancelled, err>>

\* The kernel refuses to watch the file descriptor: as if cancelled.
Refuse ==
  /\ phase = "waiting"
  /\ set' = {}
  /\ err' = TRUE
  /\ UNCHANGED <<phase, cancelled, ready>>

\* A wait that was cancelled ends, also when a new set came too late.
Drop ==
  /\ phase = "waiting"
  /\ cancelled \/ err
  /\ phase' = "over"
  /\ ready' = {}
  /\ UNCHANGED <<set, cancelled, err>>

\* The callback begins.
Called ==
  /\ phase = "over"
  /\ phase' = "idle"
  /\ cancelled' = FALSE
  /\ UNCHANGED <<set, ready, err>>

\* Once the callback has looked at them, events, error and set mean nothing
\* until the next wait: users of this module forget them then.
Forget ==
  /\ phase = "idle"
  /\ set' = {}
  /\ ready' = {}
  /\ err' = FALSE
  /\ UNCHANGED <<phase, cancelled>>

WaitNext ==
  \/ \E s \in SUBSET Events : Wait(s) \/ Change(s)
  \/ Report
  \/ Refuse
  \/ Drop
  \/ Called

WaitSpec == WaitInit /\ [][WaitNext]_waitVars
=============================================================================
