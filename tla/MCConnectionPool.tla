-------------------------- MODULE MCConnectionPool --------------------------
(***************************************************************************)
(* ConnectionPool on small instances.                                      *)
(***************************************************************************)
EXTENDS ConnectionPool, TLC

CONSTANTS t1, t2, t3, t4, t5, c1, c2, s1, s2, s3

\* Threads and sessions are interchangeable, as long as all the threads or
\* none of them pass a deadline; closers are interchangeable too.
Symmetry ==
    Permutations(Threads) \cup Permutations(Sessions) \cup Permutations(Closers)
=============================================================================
