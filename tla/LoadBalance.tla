----------------------------- MODULE LoadBalance ----------------------------
(***************************************************************************)
(* process/scheduler.rs, balance_load: one caller moves processes from     *)
(* overloaded CPUs to others while the CPUs go on scheduling.  A step is   *)
(* what happens from taking a scheduler's lock to taking the next; the     *)
(* balancer keeps the target's lock while it takes the source's again.     *)
(* With one balancer no other code holds two of these locks.               *)
(***************************************************************************)
EXTENDS RunQueue, FiniteSetsExt

CONSTANTS
    CpuCount,          \* get_cpu_count()
    NoPid

CpuIds == 0..(CpuCount - 1)

VARIABLES
    sched,             \* CPU_SCHEDULERS
    running,           \* the process each CPU has picked
    held,              \* the schedulers the balancer has locked between steps
    pc, cpu,           \* the balancer: where it is, the CPU it looks at
    total, avg_load, load, priority_idx, pid,
    other, target, min_load   \* the scan for the least loaded of the other CPUs

scan == <<other, target, min_load>>
locals == <<total, avg_load, load, priority_idx, pid, scan>>
vars == <<sched, running, held, pc, cpu, locals>>

\* any distribution of the processes over the queues
Distributed ==
    \E at \in [Pids -> CpuIds \X Priorities], order \in [1..Cardinality(Pids) -> Pids] :
       /\ \A p \in Pids : \E k \in 1..Cardinality(Pids) : order[k] = p
       /\ sched = [c \in CpuIds |->
             LET q == [i \in Priorities |-> SelectSeq(order, LAMBDA p : at[p] = <<c, i>>)]
             IN [queues |-> q, bitmap |-> {i \in Priorities : q[i] # <<>>}]]

\* nobody balances yet
Resting ==
    /\ running = [c \in CpuIds |-> NoPid] /\ held = {}
    /\ pc = "idle" /\ cpu = 0
    /\ total = 0 /\ avg_load = 0 /\ load = 0 /\ priority_idx = 0 /\ pid = NoPid
    /\ other = 0 /\ target = 0 /\ min_load = 0

Init == Distributed /\ Resting
-----------------------------------------------------------------------------
(* the CPUs: pick_next, and back into the queue when the slice is over     *)

Pick(c) ==
    /\ c \notin held /\ running[c] = NoPid /\ CanPick(sched[c], FALSE)
    /\ running' = [running EXCEPT ![c] = Picked(sched[c])]
    /\ sched' = [sched EXCEPT ![c] = AfterPick(@)]
    /\ UNCHANGED <<held, pc, cpu, locals>>

Requeue(c, i) ==
    /\ c \notin held /\ running[c] # NoPid
    /\ sched' = [sched EXCEPT ![c] = Enqueue(@, running[c], i)]
    /\ running' = [running EXCEPT ![c] = NoPid]
    /\ UNCHANGED <<held, pc, cpu, locals>>
-----------------------------------------------------------------------------
Lowest == Max(Priorities)
Unbounded == Cardinality(Pids) + 1   \* usize::MAX

Begin ==
    /\ pc = "idle" /\ CpuCount > 1
    /\ pc' = "sum" /\ cpu' = 0 /\ total' = 0
    /\ UNCHANGED <<sched, running, held, avg_load, load, priority_idx, pid, scan>>

\* one turn of the first loop
SumLoad ==
    /\ pc = "sum" /\ cpu \in CpuIds
    /\ total' = total + TotalLoad(sched[cpu])
    /\ cpu' = cpu + 1
    /\ UNCHANGED <<sched, running, held, pc, avg_load, load, priority_idx, pid, scan>>

Average ==
    /\ pc = "sum" /\ cpu = CpuCount
    /\ pc' = IF total = 0 THEN "idle" ELSE "load"
    /\ cpu' = 0 /\ total' = 0
    /\ avg_load' = total \div CpuCount
    /\ UNCHANGED <<sched, running, held, load, priority_idx, pid, scan>>

\* the loop does not end
NextCpuRound ==
    /\ cpu' = IF cpu + 1 = CpuCount THEN 0 ELSE cpu + 1
    /\ pc' = "load"

NextCpu ==
    /\ cpu' = IF cpu + 1 = CpuCount THEN 0 ELSE cpu + 1
    /\ pc' = IF cpu + 1 = CpuCount THEN "idle" ELSE "load"

\* the CPU's load is read
ReadLoad ==
    /\ pc = "load"
    /\ LET l == TotalLoad(sched[cpu]) IN
       IF l > avg_load + 1
         THEN pc' = "lock" /\ load' = l /\ UNCHANGED cpu
         ELSE NextCpu /\ UNCHANGED load
    /\ UNCHANGED <<sched, running, held, total, avg_load, priority_idx, pid, scan>>

\* ... and its lock taken again
LockSource ==
    /\ pc = "lock" /\ pc' = "steal"
    /\ held' = {cpu} /\ priority_idx' = Lowest
    /\ UNCHANGED <<sched, running, cpu, total, avg_load, load, pid, scan>>

\* the class at priority_idx or below that is not empty, the least urgent first
Classes == {i \in Priorities : i <= priority_idx /\ sched[cpu].queues[i] # <<>>}

\* the popped pid is left in the queue
StealCopy(i) ==
    /\ pid' = Head(sched[cpu].queues[i])
    /\ UNCHANGED sched

\* the bit of a queue that is now empty stays up
PopKeepBit(i) ==
    /\ pid' = Head(sched[cpu].queues[i])
    /\ sched' = [sched EXCEPT ![cpu].queues[i] = Tail(@)]

\* pop, and the bit goes down with the last process
Pop(i) ==
    /\ pid' = Head(sched[cpu].queues[i])
    /\ sched' = [sched EXCEPT ![cpu] =
          [queues |-> [@.queues EXCEPT ![i] = Tail(@)],
           bitmap |-> IF Len(@.queues[i]) = 1 THEN @.bitmap \ {i} ELSE @.bitmap]]

\* a process is popped and the lock released; `load` is the one read at first
Steal ==
    /\ pc = "steal" /\ Classes # {} /\ load > avg_load
    /\ Pop(Max(Classes))
    /\ priority_idx' = Max(Classes)
    /\ held' = {} /\ pc' = "scan"
    /\ other' = 0 /\ target' = 0 /\ min_load' = Unbounded
    /\ UNCHANGED <<running, cpu, total, avg_load, load>>

NoMore ==
    /\ pc = "steal" /\ (Classes = {} \/ load <= avg_load)
    /\ held' = {} /\ load' = 0 /\ priority_idx' = 0
    /\ NextCpu
    /\ UNCHANGED <<sched, running, total, avg_load, pid, scan>>

\* the scan goes one CPU too far
ScanPast ==
    /\ pc = "scan" /\ other <= CpuCount
    /\ other' = other + 1
    /\ UNCHANGED <<sched, running, held, pc, cpu, total, avg_load, load, priority_idx, pid, target, min_load>>

\* one turn of the scan; other CPUs may go on scheduling between two turns
Scan ==
    /\ pc = "scan" /\ other \in CpuIds
    /\ LET l == TotalLoad(sched[other]) IN
       IF other # cpu /\ l < min_load
         THEN target' = other /\ min_load' = l
         ELSE UNCHANGED <<target, min_load>>
    /\ other' = other + 1
    /\ UNCHANGED <<sched, running, held, pc, cpu, total, avg_load, load, priority_idx, pid>>

\* target_sched is locked and stays locked
Give ==
    /\ pc = "scan" /\ other = CpuCount
    /\ pc' = "relock"
    /\ sched' = [sched EXCEPT ![target] = Enqueue(@, pid, priority_idx)]
    /\ held' = {target} /\ pid' = NoPid
    /\ other' = 0 /\ target' = 0 /\ min_load' = 0
    /\ UNCHANGED <<running, cpu, total, avg_load, load, priority_idx>>

\* the source is locked, then the target released
Relock ==
    /\ pc = "relock" /\ pc' = "steal"
    /\ held' = {cpu}
    /\ UNCHANGED <<sched, running, cpu, total, avg_load, load, priority_idx, pid, scan>>
-----------------------------------------------------------------------------
Balancer ==
    Begin \/ SumLoad \/ Average \/ ReadLoad \/ LockSource \/ Steal \/ NoMore \/ Scan \/ Give \/ Relock

\* the steps of a balancer that was called
Called == pc # "idle" /\ Balancer

Next == Balancer \/ \E c \in CpuIds : Pick(c) \/ \E i \in Priorities : Requeue(c, i)

Spec == Init /\ [][Next]_vars
-----------------------------------------------------------------------------
\* Types of the run queues and the balancer.
TypeOK ==
    /\ sched \in [CpuIds -> [queues : [Priorities -> Seq(Pids)], bitmap : SUBSET Priorities]]
    /\ running \in [CpuIds -> Pids \cup {NoPid}]
    /\ held \subseteq CpuIds /\ Cardinality(held) <= 1
    /\ pc \in {"idle", "sum", "load", "lock", "steal", "scan", "relock"} /\ cpu \in 0..CpuCount
    /\ {total, avg_load, load} \subseteq 0..Cardinality(Pids)
    /\ priority_idx \in 0..(NUM_PRIORITIES - 1) /\ pid \in Pids \cup {NoPid}
    /\ other \in 0..CpuCount /\ target \in CpuIds /\ min_load \in 0..Unbounded

\* in how many queues, CPUs and hands a process is
Places(p) ==
    Cardinality({<<c, i>> \in CpuIds \X Priorities : Queued(sched[c], p, i)})
        + Cardinality({c \in CpuIds : running[c] = p})
        + (IF pid = p THEN 1 ELSE 0)

\* A process that is moved is never lost and never in two places, whatever the CPUs
\* pick and put back between the balancer's critical sections.
InOnePlace == \A p \in Pids : Places(p) = 1

\* pick_next can rely on every CPU's bitmap also while the balancer moves processes.
BitmapsCoherent == \A c \in CpuIds : Coherent(sched[c])

\* balance_load returns.
BalanceReturns == pc # "idle" ~> pc = "idle"
=============================================================================
