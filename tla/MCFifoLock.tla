----------------------------- MODULE MCFifoLock -----------------------------
(* A small instance of FifoLock.  Threads and calls are model values.        *)
EXTENDS FifoLock, TLC

CONSTANTS t1, t2, c1, c2, c3

\* Thread t1 may ask for a read lock while it holds one.
TwoCallsOfOne == (c1 :> t1) @@ (c2 :> t1) @@ (c3 :> t2)
=============================================================================
