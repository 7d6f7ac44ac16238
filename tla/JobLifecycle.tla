---------------------------- MODULE JobLifecycle ----------------------------
(***************************************************************************)
(* What the queue promises about one job.  The states and edges are those  *)
(* of the diagram in docs/ARCHITECTURE.md; the count on the edges is that  *)
(* of retry.go, which dead-letters a job with its failure number limit + 1 *)
(* (the text below the diagram says: number limit).  No tables, processes  *)
(* or transactions: every edge is one step, and there is no other way from *)
(* one state to another.                                                   *)
(***************************************************************************)
EXTENDS Integers

CONSTANTS Jobs,     \* job ids
          Limits    \* the retry limits a job may be given

VARIABLE life       \* state, failures since the last (re)start, and retry limit

States == {"none", "pending", "running", "completed", "dead_letter", "deleted"}

Init ==
    /\ life \in [Jobs -> [state: {"none"}, tries: Nat, limit: Nat]]

Move(j, from, to, tries) ==
    /\ life[j].state = from
    /\ life' = [life EXCEPT ![j] = [@ EXCEPT !.state = to, !.tries = tries]]

Enqueue(j) ==
    /\ life[j].state = "none"
    /\ \E l \in Limits :
          life' = [life EXCEPT ![j] = [state |-> "pending", tries |-> 0, limit |-> l]]

Acquire(j) == Move(j, "pending", "running", life[j].tries)

Complete(j) == Move(j, "running", "completed", life[j].tries)

\* retries_count, after this failure, is within the limit.
Retry(j) ==
    /\ life[j].tries < life[j].limit
    /\ Move(j, "running", "pending", life[j].tries + 1)

\* It exceeds the limit.
DeadLetter(j) ==
    /\ life[j].tries >= life[j].limit
    /\ Move(j, "running", "dead_letter", life[j].tries + 1)

Replay(j) == Move(j, "dead_letter", "pending", 0)

Discard(j) == Move(j, "dead_letter", "deleted", life[j].tries)

\* A purge takes several completed jobs at once.
Purge ==
    \E S \in SUBSET {j \in Jobs : life[j].state = "completed"} :
        life' = [j \in Jobs |-> IF j \in S THEN [life[j] EXCEPT !.state = "deleted"]
                                           ELSE life[j]]

Next ==
    \/ Purge
    \/ \E j \in Jobs : \/ Enqueue(j)    \/ Acquire(j)    \/ Complete(j)
                       \/ Retry(j)      \/ DeadLetter(j)
                       \/ Replay(j)     \/ Discard(j)

Spec == Init /\ [][Next]_life
=============================================================================
