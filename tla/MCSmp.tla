------------------------------- MODULE MCSmp --------------------------------
(***************************************************************************)
(* Several CPUs for TLC: two that schedule independently, and three        *)
(* between which balance_load moves processes.  A behaviour exercises one  *)
(* of the two, `part`, and the other rests.                                *)
(***************************************************************************)
EXTENDS Scheduler

CONSTANT Movable       \* the processes that are balanced

VARIABLES
    part,
    bal_sched, bal_running, bal_held, bal_pc, bal_cpu, bal_total, bal_avg_load,
    bal_load, bal_priority_idx, bal_pid, bal_other, bal_target, bal_min_load

OneTick == [i \in Priorities |-> 1]

Bal == INSTANCE LoadBalance WITH
    Pids <- Movable, Priorities <- {1, 4}, CpuCount <- 3,
    sched <- bal_sched, running <- bal_running, held <- bal_held, pc <- bal_pc,
    cpu <- bal_cpu, total <- bal_total, avg_load <- bal_avg_load, load <- bal_load,
    priority_idx <- bal_priority_idx, pid <- bal_pid, other <- bal_other,
    target <- bal_target, min_load <- bal_min_load

bal_vars ==
    <<bal_sched, bal_running, bal_held, bal_pc, bal_cpu, bal_total, bal_avg_load,
      bal_load, bal_priority_idx, bal_pid, bal_other, bal_target, bal_min_load>>
all_vars == <<part, vars, bal_vars>>
-----------------------------------------------------------------------------
SmpInit ==
    /\ part \in {"schedule", "balance"}
    /\ Init
    /\ Bal!Resting
    /\ IF part = "balance" THEN Bal!Distributed ELSE bal_sched = [c \in Bal!CpuIds |-> NewCpuScheduler]

SmpNext ==
    /\ UNCHANGED part
    /\ \/ part = "schedule" /\ NextSameClass /\ UNCHANGED bal_vars
       \/ part = "balance" /\ Bal!Next /\ UNCHANGED vars

\* Ticks and threads are as fair as in FairSpec, and a balancer runs on.
SmpFairSpec ==
    /\ SmpInit /\ [][SmpNext]_all_vars
    /\ \A c \in CPUs : /\ SF_vars(part = "schedule" /\ Tick(c))
                      /\ WF_vars(part = "schedule" /\ Continue(c))
    /\ WF_bal_vars(part = "balance" /\ Bal!Called)
-----------------------------------------------------------------------------
\* Every variable of the schedulers and of the balancer has its type.
TypesOK == TypeOK /\ (part = "balance" => Bal!TypeOK)

\* balance_load: a process that is moved is never lost and never in two places, and
\* every CPU's bitmap stays exact on the way.
MovesAreSafe == part = "balance" => Bal!InOnePlace /\ Bal!BitmapsCoherent

\* balance_load returns.
BalanceReturns == Bal!BalanceReturns
=============================================================================
