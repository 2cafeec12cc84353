---------------------------- MODULE MCScheduler -----------------------------
(* Instances of Scheduler for TLC.  PriorityClass has five values; the      *)
(* instances use Interactive = 1, Normal = 2 and Dream = 4, with time       *)
(* slices that let a process both keep and lose the CPU.                    *)
EXTENDS Scheduler, TLC

OneCpu == {0}
Slices == [i \in Priorities |-> IF i = Normal THEN 2 ELSE 1]
PidSymmetry == Permutations(Pids)
=============================================================================
