------------------------------- MODULE WorkPool -------------------------------
(***************************************************************************)
(* What a table of jobs with leases promises: a job that was added has no  *)
(* outcome before it was tried, one outcome ends it, and no outcome comes  *)
(* late, or after another, more often than a job was taken from somebody   *)
(* who was still at it.                                                    *)
(***************************************************************************)
EXTENDS Naturals

CONSTANT Jobs

VARIABLES
    work,   \* work[j]: no such job, added, or tried
    taken,  \* jobs taken from somebody who was still at them, so far
    spare   \* of these, those whose late outcome may still come

poolVars == <<work, taken, spare>>

PoolInit == work = [j \in Jobs |-> "none"] /\ taken = 0 /\ spare = 0

Add(j) ==
    /\ work[j] = "none"
    /\ work' = [work EXCEPT ![j] = "added"]
    /\ UNCHANGED <<taken, spare>>

\* Several jobs are handed out at once.
Try(batch) ==
    /\ \A j \in batch : work[j] # "none"
    /\ work' = [j \in Jobs |-> IF j \in batch THEN "tried" ELSE work[j]]
    /\ taken' >= taken
    /\ spare' = spare + (taken' - taken)

End(j) ==
    /\ work[j] = "tried"
    /\ work' = [work EXCEPT ![j] = "none"]
    /\ UNCHANGED <<taken, spare>>

\* Somebody from whom the job was taken writes an outcome all the same: it may end the
\* job that another is to try again, or bring back one that another has ended.
EndLate(j) ==
    /\ spare > 0
    /\ spare' = spare - 1
    /\ work[j] # "added"
    /\ \E state \in {"none", "tried"} : work' = [work EXCEPT ![j] = state]
    /\ UNCHANGED taken

\* Those who would have come late may die before.
Die ==
    /\ spare' \in 0..spare
    /\ UNCHANGED <<work, taken>>

PoolNext ==
    \/ \E j \in Jobs : Add(j) \/ End(j) \/ EndLate(j)
    \/ \E batch \in SUBSET Jobs : Try(batch)
    \/ Die

PoolSpec == PoolInit /\ [][PoolNext]_poolVars
=============================================================================
