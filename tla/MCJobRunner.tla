---------------------------- MODULE MCJobRunner -----------------------------
(* JobRunner on small instances.  The jobs of a run share one key, or all  *)
(* but the last one do.                                                    *)
EXTENDS JobRunner, TLC

CONSTANTS lastJob, firstKey, secondKey

OneKey  == [j \in Jobs |-> firstKey]
TwoKeys == [j \in Jobs |-> IF j = lastJob THEN secondKey ELSE firstKey]

(* Jobs of one key are interchangeable.                                    *)
SymmetricJobs == Permutations(Jobs)
=============================================================================
