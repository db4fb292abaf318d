------------------------------- MODULE MCIoq -------------------------------
(* Ioq with the symmetry of its file descriptors and its user threads, for
   runs that check invariants only. *)
EXTENDS Ioq, TLC

Interchangeable == Permutations(Fds) \cup Permutations(Users)
=============================================================================
