----------------------------- MODULE MCReconnect -----------------------------
(* Model-checking instances of Reconnect.  Threads are interchangeable; PTY  *)
(* ids are not, because FreshPty chooses among them.                         *)
EXTENDS Reconnect, TLC

MCSymmetry == Permutations(Threads)

=============================================================================
