----------------------------- MODULE MCJobQueue -----------------------------
(***************************************************************************)
(* Small instances of JobQueue for TLC.                                    *)
(***************************************************************************)
EXTENDS JobQueueLifecycle, JobQueueProcess, JobQueueInvariant, TLC

CONSTANTS p1, p2, q1

\* Every pool polls the one queue.
OneQueue == [p \in Pools |-> q1]

\* Operators, and pools, are interchangeable.
AnyAdmin == Permutations(Admins) \cup Permutations(Pools)
=============================================================================
