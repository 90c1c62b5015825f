---------------------------- MODULE MCLifecycle ----------------------------
(***************************************************************************)
(* Small instances of Lifecycle.  A kind of job has as many rows as it can *)
(* fill: with dedupe, one for each client that may be between its check    *)
(* and its insert; refreshes, one in its last step and its successor for   *)
(* every worker, and one more for every crash and every take-over.         *)
(***************************************************************************)
EXTENDS Lifecycle, TLC

CONSTANTS p1, p2, t1, t2, c1, c2, f1, f2, f3, f4, f5

ASSUME DropletsSuffice ==
    Cardinality(Droplets) >= Cardinality(Workers) + MaxCrashes + MaxFaults + MaxOvertakes

\* None at all: DNS is switched off, and the fallback domain is taken.
ASSUME RecordsSuffice ==
    Records = {} \/ Cardinality(Records) >= Cardinality(Workers) + MaxCrashes + MaxFaults

SomeRows == [provision |-> {p1, p2} \cap JobIds,
             terminate |-> {t1, t2} \cap JobIds,
             cleanup |-> {c1, c2} \cap JobIds,
             refresh |-> {f1, f2, f3, f4, f5} \cap JobIds]

ASSUME RowsSuffice ==
    /\ Cardinality(SomeRows.provision) >= Cardinality(Workers)
    /\ Cardinality(SomeRows.refresh) >= 2 * Cardinality(Workers) + MaxCrashes + MaxOvertakes
    /\ Cardinality(SomeRows.terminate) >= Cardinality(Workers \cup Deletes)
    /\ Cardinality(SomeRows.cleanup) >= Cardinality(Workers \cup Gets \cup Loops)

\* Job rows, droplets and records are given out in a fixed order: they are not symmetric.
LifecycleSymmetry == Permutations(Workers) \cup Permutations(Deletes)
=============================================================================
