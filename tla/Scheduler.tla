----------------------------- MODULE Scheduler ------------------------------
(***************************************************************************)
(* The process table, the per-CPU scheduler, the context switch of the     *)
(* timer interrupt and the wait queues of IPC, together: process/mod.rs,   *)
(* process/scheduler.rs, process/context.rs, timer_interrupt_handler and   *)
(* WaitQueue of ipc/mod.rs.                                                *)
(*                                                                         *)
(* A step is one critical section: what happens under the CPU's scheduler  *)
(* lock or the process-table lock.  A timer interrupt may arrive between   *)
(* the sections of a kernel thread unless it runs with interrupts masked.  *)
(* Loops that lock one CPU's scheduler after another (the load scan of     *)
(* add_to_scheduler, remove_from_scheduler) are one step.                  *)
(***************************************************************************)
EXTENDS RunQueue

CONSTANTS
    CPUs,           \* 0 .. get_cpu_count() - 1
    NoPid,          \* the value 0 of CURRENT_PID, and None
    Boot, Idle,     \* the continuations that are no process: _start, ap_idle_loop
    Interactive, Normal,  \* the two other classes the code names
    TimeSlice,      \* Process::time_slice_for_priority, scaled down
    IdleLimit,      \* the 100 of `idle > 100`
    MaxProcesses,   \* MAX_PROCESSES
    MaxWaiters      \* bound on a wait queue's Vec

ASSUME CpusAssumption == CPUs \subseteq Nat /\ 0 \in CPUs
ASSUME PidsAssumption ==
    /\ NoPid \notin Pids /\ Boot \notin Pids /\ Idle \notin Pids
    /\ Boot # Idle
ASSUME ClassesAssumption == {Interactive, Normal} \subseteq Priorities
ASSUME SliceAssumption == TimeSlice \in [Priorities -> Nat]
ASSUME BoundsAssumption == {IdleLimit, MaxProcesses, MaxWaiters} \subseteq Nat

VARIABLES
    state, priority, slice,  \* the process table: Process.state, .priority, .time_slice
    current_pid,             \* CURRENT_PID, one for all CPUs
    sched,                   \* CPU_SCHEDULERS: queues and bitmap of each CPU
    current, time_slice,     \* CpuScheduler.current, .time_slice
    system_idle, idle_ticks, \* SYSTEM_IDLE, IDLE_TICKS
    running,                 \* the continuation each CPU executes
    saved,                   \* the continuation stored in a Process's registers
    irq, next,               \* progress of a CPU's timer handler, and its next_pid
    waiters,                 \* WaitQueue.waiters
    pc, arg, level, target   \* where a kernel thread is in an operation, and its locals

table == <<state, priority, slice>>
queueing == <<sched, current, time_slice, system_idle, idle_ticks>>
cpu == <<current_pid, running, saved, irq, next>>
thread == <<pc, arg, level, target>>
vars == <<table, queueing, cpu, waiters, thread>>

Threads == Pids \cup {Boot}
States == {"Absent", "Ready", "Running", "Blocked", "Zombie"}
PC == {"run", "add_scan", "add_enqueue", "launch", "enter", "prio_update",
       "exit_yield", "exit_key", "halted", "wait_block", "wait_yield", "wake"}

InTable(p) == p \in Pids /\ state[p] # "Absent"

Init ==
    /\ state = [p \in Pids |-> "Absent"]
    /\ priority = [p \in Pids |-> Normal]
    /\ slice = [p \in Pids |-> 0]
    /\ current_pid = NoPid
    /\ sched = [c \in CPUs |-> NewCpuScheduler]
    /\ current = [c \in CPUs |-> NoPid]
    /\ time_slice = [c \in CPUs |-> 0]
    /\ system_idle = FALSE /\ idle_ticks = 0
    /\ running = [c \in CPUs |-> IF c = 0 THEN Boot ELSE Idle]
    /\ saved = [p \in Pids |-> p]
    /\ irq = [c \in CPUs |-> "none"] /\ next = [c \in CPUs |-> NoPid]
    /\ waiters = <<>>
    /\ pc = [t \in Threads |-> "run"]
    /\ arg = [t \in Threads |-> {}]
    /\ level = [t \in Threads |-> Normal]
    /\ target = [t \in Threads |-> 0]
Goto(t, to) == pc' = [pc EXCEPT ![t] = to]

\* the operation returns and its locals die
Return(t, to) ==
    /\ Goto(t, to)
    /\ arg' = [arg EXCEPT ![t] = {}]
    /\ level' = [level EXCEPT ![t] = Normal]
    /\ target' = [target EXCEPT ![t] = 0]
-----------------------------------------------------------------------------
(* The timer interrupt: schedule(), then switch_to_process().              *)

InterruptsMasked(t) == t \in Threads /\ pc[t] \in {"exit_yield", "halted"}

\* a decrement that does not test for zero
DecrementedUnguarded(n) == n - 1

\* "Decrement time slice"
Decremented(n) == IF n > 0 THEN n - 1 ELSE 0

\* schedule() returns the current process: it has ticks left and is Running
Keeps(c) ==
    time_slice[c] > 1 /\ current[c] # NoPid /\ state[current[c]] = "Running"

ScheduleKeep(c) ==
    /\ Keeps(c)
    /\ time_slice' = [time_slice EXCEPT ![c] = @ - 1]
    /\ irq' = [irq EXCEPT ![c] = "switch"]
    /\ next' = [next EXCEPT ![c] = current[c]]
    /\ UNCHANGED <<sched, current, system_idle, idle_ticks, current_pid, running, saved>>

\* "Re-add current process to queue if still runnable"
Readded(c) ==
    IF current[c] # NoPid /\ state[current[c]] \in {"Running", "Ready"}
      THEN Enqueue(sched[c], current[c], priority[current[c]])
      ELSE sched[c]

\* a dispatch that takes pick_next's word that the process exists
ScheduleDispatchUnchecked(c) ==
    LET s == Readded(c)
        p == Picked(s)
    IN  /\ ~Keeps(c)
        /\ CanPick(s, system_idle)
        /\ sched' = [sched EXCEPT ![c] = AfterPick(s)]
        /\ current' = [current EXCEPT ![c] = p]
        /\ time_slice' = [time_slice EXCEPT ![c] = slice[p]]
        /\ idle_ticks' = 0 /\ system_idle' = FALSE
        /\ irq' = [irq EXCEPT ![c] = "switch"]
        /\ next' = [next EXCEPT ![c] = p]
        /\ UNCHANGED <<current_pid, running, saved>>

\* schedule() hands the CPU to the process pick_next takes
ScheduleDispatch(c) ==
    LET s == Readded(c)
        p == Picked(s)
    IN  /\ ~Keeps(c)
        /\ CanPick(s, system_idle) /\ InTable(p)
        /\ sched' = [sched EXCEPT ![c] = AfterPick(s)]
        /\ current' = [current EXCEPT ![c] = p]
        /\ time_slice' = [time_slice EXCEPT ![c] = slice[p]]
        /\ idle_ticks' = 0 /\ system_idle' = FALSE
        /\ irq' = [irq EXCEPT ![c] = "switch"]
        /\ next' = [next EXCEPT ![c] = p]
        /\ UNCHANGED <<current_pid, running, saved>>

\* nothing to run: the CPU's idle path.  IDLE_TICKS is capped where only
\* its comparison with the limit still matters.
ScheduleIdle(c) ==
    LET s == Readded(c)
        p == Picked(s)
    IN  /\ ~Keeps(c)
        /\ ~(CanPick(s, system_idle) /\ InTable(p))
        /\ sched' = [sched EXCEPT ![c] = IF CanPick(s, system_idle) THEN AfterPick(s) ELSE s]
        /\ current' = [current EXCEPT ![c] = NoPid]
        /\ time_slice' = [time_slice EXCEPT ![c] = Decremented(@)]
        /\ idle_ticks' = IF idle_ticks > IdleLimit THEN idle_ticks ELSE idle_ticks + 1
        /\ irq' = [irq EXCEPT ![c] = IF idle_ticks > IdleLimit THEN "store_idle" ELSE "none"]
        /\ UNCHANGED <<system_idle, current_pid, running, saved, next>>

Schedule(c) ==
    /\ irq[c] = "none" /\ ~InterruptsMasked(running[c])
    /\ ScheduleKeep(c) \/ ScheduleDispatch(c) \/ ScheduleIdle(c)
    /\ UNCHANGED <<table, waiters, thread>>

\* SYSTEM_IDLE.store(true), after the fetch_add that reached the limit
StoreIdle(c) ==
    /\ irq[c] = "store_idle"
    /\ irq' = [irq EXCEPT ![c] = "none"]
    /\ system_idle' = TRUE
    /\ UNCHANGED <<table, sched, current, time_slice, idle_ticks, current_pid,
                   running, saved, next, waiters, thread>>

\* switch_to_process that leaves the old process's state alone
SwitchKeepOldState(c) ==
    LET new == next[c]
        old == current_pid
    IN  /\ irq[c] = "switch"
        /\ irq' = [irq EXCEPT ![c] = "none"]
        /\ state' = [state EXCEPT ![new] = "Running"]
        /\ saved' = [p \in Pids |-> IF p = old /\ p # new THEN running[c] ELSE saved[p]]
        /\ running' = [running EXCEPT ![c] = IF old = new THEN @ ELSE saved[new]]
        /\ current_pid' = new
        /\ next' = [next EXCEPT ![c] = NoPid]
        /\ UNCHANGED <<priority, slice, queueing, waiters, thread>>

\* switch_to_process without the set_current_pid call
SwitchNoSetCurrent(c) ==
    LET new == next[c]
        old == current_pid
    IN  /\ irq[c] = "switch"
        /\ irq' = [irq EXCEPT ![c] = "none"]
        /\ IF old = new
             THEN UNCHANGED <<state, saved, running>>
             ELSE /\ state' = [p \in Pids |-> IF p = new THEN "Running"
                                              ELSE IF p = old THEN "Ready" ELSE state[p]]
                  /\ saved' = [p \in Pids |-> IF p = old THEN running[c] ELSE saved[p]]
                  /\ running' = [running EXCEPT ![c] = saved[new]]
        /\ next' = [next EXCEPT ![c] = NoPid]
        /\ UNCHANGED <<priority, slice, current_pid, queueing, waiters, thread>>

\* switch_to_process(next): nothing when CURRENT_PID already is that pid.
\* The old process becomes Ready whatever it was and receives this CPU's
\* registers; with no old process the present continuation is dropped.
SwitchToProcess(c) ==
    LET new == next[c]
        old == current_pid
    IN  /\ irq[c] = "switch"
        /\ irq' = [irq EXCEPT ![c] = "none"]
        /\ IF old = new
             THEN UNCHANGED <<state, saved, running, current_pid>>
             ELSE /\ state' = [p \in Pids |-> IF p = new THEN "Running"
                                              ELSE IF p = old /\ InTable(p) THEN "Ready"
                                              ELSE state[p]]
                  /\ saved' = [p \in Pids |-> IF p = old /\ InTable(p) THEN running[c]
                                              ELSE saved[p]]
                  /\ running' = [running EXCEPT ![c] = saved[new]]
                  /\ current_pid' = new
        /\ next' = [next EXCEPT ![c] = NoPid]
        /\ IF old = NoPid /\ running[c] = Boot THEN Return(Boot, "halted")
                                              ELSE UNCHANGED thread
        /\ UNCHANGED <<priority, slice, queueing, waiters>>

Tick(c) == Schedule(c) \/ StoreIdle(c) \/ SwitchToProcess(c)
-----------------------------------------------------------------------------
(* Kernel threads.  t is the continuation CPU c executes between ticks.    *)

Executes(c, t, at) == irq[c] = "none" /\ running[c] = t /\ t \in Threads /\ pc[t] = at

\* spawn_user_process: table.add, then add_to_scheduler at Interactive.
\* Process::new's time slice stays, the Normal one.
Spawn(c, t, p) ==
    /\ Executes(c, t, "run")
    /\ state[p] = "Absent"
    /\ Cardinality({q \in Pids : InTable(q)}) < MaxProcesses
    /\ state' = [state EXCEPT ![p] = "Ready"]
    /\ priority' = [priority EXCEPT ![p] = Interactive]
    /\ slice' = [slice EXCEPT ![p] = TimeSlice[Normal]]
    /\ Goto(t, "add_scan")
    /\ arg' = [arg EXCEPT ![t] = {p}]
    /\ level' = [level EXCEPT ![t] = Interactive]
    /\ UNCHANGED <<queueing, cpu, waiters, target>>

\* add_to_scheduler_with_priority: the least loaded CPU, the first of them
\* (cpu_affinity is never set)
AddScan(c, t) ==
    /\ Executes(c, t, "add_scan")
    /\ \E d \in CPUs :
           /\ \A e \in CPUs :
                  \/ TotalLoad(sched[d]) < TotalLoad(sched[e])
                  \/ TotalLoad(sched[d]) = TotalLoad(sched[e]) /\ d <= e
           /\ target' = [target EXCEPT ![t] = d]
    /\ Goto(t, "add_enqueue")
    /\ UNCHANGED <<table, queueing, cpu, waiters, arg, level>>

\* ... and the enqueue, on what may no longer be the least loaded CPU.  The
\* boot thread spawns only to launch (launch_user_shell).
AddEnqueue(c, t) ==
    /\ Executes(c, t, "add_enqueue")
    /\ \E p \in arg[t] :
           sched' = [sched EXCEPT ![target[t]] = Enqueue(@, p, level[t])]
    /\ IF t = Boot THEN Goto(t, "launch") /\ UNCHANGED <<arg, level, target>>
                   ELSE Return(t, "run")
    /\ UNCHANGED <<table, current, time_slice, system_idle, idle_ticks, cpu, waiters>>

\* launch_user_shell: set_current_pid, then enter_usermode as that process
LaunchSetCurrent(c) ==
    /\ Executes(c, Boot, "launch")
    /\ current_pid' \in arg[Boot]
    /\ Goto(Boot, "enter")
    /\ UNCHANGED <<table, queueing, running, saved, irq, next, waiters, arg, level, target>>

LaunchEnter(c) ==
    /\ Executes(c, Boot, "enter")
    /\ \E p \in arg[Boot] : running' = [running EXCEPT ![c] = p]
    /\ Return(Boot, "halted")
    /\ UNCHANGED <<table, queueing, current_pid, saved, irq, next, waiters>>

\* set_priority: remove from every queue, update the table, add again
SetPriority(c, t, p, i) ==
    /\ Executes(c, t, "run") /\ t # Boot
    /\ sched' = [d \in CPUs |-> Dequeue(sched[d], p)]
    /\ Goto(t, "prio_update")
    /\ arg' = [arg EXCEPT ![t] = {p}]
    /\ level' = [level EXCEPT ![t] = i]
    /\ UNCHANGED <<table, current, time_slice, system_idle, idle_ticks, cpu, waiters, target>>

SetPriorityUpdate(c, t) ==
    /\ Executes(c, t, "prio_update")
    /\ priority' = [p \in Pids |-> IF p \in arg[t] /\ InTable(p) THEN level[t] ELSE priority[p]]
    /\ slice' = [p \in Pids |-> IF p \in arg[t] /\ InTable(p) THEN TimeSlice[level[t]] ELSE slice[p]]
    /\ Goto(t, "add_scan")
    /\ UNCHANGED <<state, queueing, cpu, waiters, arg, level, target>>

\* set_intent with a Graphics or Interactive intent; the queues keep the pid
\* where it is
SetIntent(c, t, p) ==
    /\ Executes(c, t, "run") /\ t # Boot
    /\ InTable(p) /\ priority[p] > Interactive
    /\ priority' = [priority EXCEPT ![p] = Interactive]
    /\ UNCHANGED <<state, slice, queueing, cpu, waiters, thread>>

\* yield_cpu's critical section: it re-adds the current process whatever its
\* state, and returns to its caller; the switch is left to the next tick
YieldSection(c) ==
    /\ IF current_pid = NoPid
         THEN UNCHANGED <<sched, time_slice>>
         ELSE /\ time_slice' = [time_slice EXCEPT ![c] = 0]
              /\ sched' = IF InTable(current_pid)
                            THEN [sched EXCEPT ![c] = Enqueue(@, current_pid, priority[current_pid])]
                            ELSE sched
    /\ UNCHANGED <<table, current, system_idle, idle_ticks, cpu>>

YieldCpu(c, t) ==
    /\ Executes(c, t, "run")
    /\ YieldSection(c)
    /\ UNCHANGED <<waiters, thread>>

\* exit_process, in a system call with interrupts masked: Zombie and out of
\* the queues, both under the table lock ...
ExitMark(c, t) ==
    /\ Executes(c, t, "run")
    /\ current_pid # NoPid
    /\ IF InTable(current_pid)
         THEN /\ state' = [state EXCEPT ![current_pid] = "Zombie"]
              /\ sched' = [d \in CPUs |-> Dequeue(sched[d], current_pid)]
         ELSE UNCHANGED <<state, sched>>
    /\ Goto(t, "exit_yield")
    /\ UNCHANGED <<priority, slice, current, time_slice, system_idle, idle_ticks, cpu,
                   waiters, arg, level, target>>

\* ... then yield_cpu.  sys_exit of int 0x80 returns to the process; SYS_EXIT
\* of the syscall instruction waits for a key with interrupts on ...
ExitYield(c, t) ==
    /\ Executes(c, t, "exit_yield")
    /\ YieldSection(c)
    /\ Return(t, "run") \/ Return(t, "exit_key")
    /\ UNCHANGED waiters

\* ... and then halts the CPU with interrupts off
ExitHalt(c, t) ==
    /\ Executes(c, t, "exit_key")
    /\ Goto(t, "halted")
    /\ UNCHANGED <<table, queueing, cpu, waiters, arg, level, target>>
-----------------------------------------------------------------------------
(* WaitQueue.  wait() is called with the current pid.                      *)

WaitPush(c, t) ==
    /\ Executes(c, t, "run")
    /\ current_pid # NoPid /\ Len(waiters) < MaxWaiters
    /\ waiters' = Append(waiters, current_pid)
    /\ arg' = [arg EXCEPT ![t] = {current_pid}]
    /\ Goto(t, "wait_block")
    /\ UNCHANGED <<table, queueing, cpu, level, target>>

SetStates(ps, s) ==
    state' = [p \in Pids |-> IF p \in ps /\ InTable(p) THEN s ELSE state[p]]

WaitBlock(c, t) ==
    /\ Executes(c, t, "wait_block")
    /\ SetStates(arg[t], "Blocked")
    /\ Goto(t, "wait_yield")
    /\ UNCHANGED <<priority, slice, queueing, cpu, waiters, arg, level, target>>

WaitYield(c, t) ==
    /\ Executes(c, t, "wait_yield")
    /\ YieldSection(c)
    /\ Return(t, "run")
    /\ UNCHANGED waiters

WakeOne(c, t) ==
    /\ Executes(c, t, "run")
    /\ waiters # <<>>
    /\ waiters' = Tail(waiters)
    /\ arg' = [arg EXCEPT ![t] = {Head(waiters)}]
    /\ Goto(t, "wake")
    /\ UNCHANGED <<table, queueing, cpu, level, target>>

WakeAll(c, t) ==
    /\ Executes(c, t, "run")
    /\ waiters # <<>>
    /\ waiters' = <<>>
    /\ arg' = [arg EXCEPT ![t] = {waiters[k] : k \in 1..Len(waiters)}]
    /\ Goto(t, "wake")
    /\ UNCHANGED <<table, queueing, cpu, level, target>>

\* the table section of wake_one and wake_all; nothing is put in a run queue
WakeReady(c, t) ==
    /\ Executes(c, t, "wake")
    /\ SetStates(arg[t], "Ready")
    /\ Return(t, "run")
    /\ UNCHANGED <<priority, slice, queueing, cpu, waiters>>
-----------------------------------------------------------------------------
\* an operation that has begun goes on
Continue(c) ==
    \/ LaunchSetCurrent(c) \/ LaunchEnter(c)
    \/ \E t \in Threads :
           \/ AddScan(c, t) \/ AddEnqueue(c, t) \/ SetPriorityUpdate(c, t)
           \/ ExitYield(c, t) \/ WaitBlock(c, t) \/ WaitYield(c, t) \/ WakeReady(c, t)

\* what processes do: start, yield, wait, wake, exit
Call(c) ==
    \E t \in Threads :
        \/ \E p \in Pids : Spawn(c, t, p)
        \/ YieldCpu(c, t) \/ ExitMark(c, t) \/ ExitHalt(c, t)
        \/ WaitPush(c, t) \/ WakeOne(c, t) \/ WakeAll(c, t)

\* changes of scheduling class
Reclass(c) ==
    \E t \in Threads, p \in Pids :
        \/ SetIntent(c, t, p)
        \/ \E i \in Priorities : SetPriority(c, t, p, i)

\* no code of the kernel changes a process's class yet (set_priority and
\* set_intent have no callers): the system as it is, and with those calls
NextSameClass == \E c \in CPUs : Tick(c) \/ Continue(c) \/ Call(c)
Next == NextSameClass \/ \E c \in CPUs : Reclass(c)

SpecSameClass == Init /\ [][NextSameClass]_vars
Spec == Init /\ [][Next]_vars

\* Ticks keep coming and begun operations go on.  A tick that finds interrupts
\* masked stays pending in the local APIC, hence the strong fairness.
FairSpec ==
    /\ SpecSameClass
    /\ \A c \in CPUs : SF_vars(Tick(c)) /\ WF_vars(Continue(c))
-----------------------------------------------------------------------------
TableOK ==
    /\ state \in [Pids -> States]
    /\ priority \in [Pids -> Priorities]
    /\ slice \in [Pids -> Nat]

QueueingOK ==
    /\ sched \in [CPUs -> CpuSchedulers]
    /\ current \in [CPUs -> Pids \cup {NoPid}]
    /\ time_slice \in [CPUs -> Nat]
    /\ system_idle \in BOOLEAN /\ idle_ticks \in Nat

CpuOK ==
    /\ current_pid \in Pids \cup {NoPid}
    /\ running \in [CPUs -> Threads \cup {Idle}]
    /\ saved \in [Pids -> Threads \cup {Idle}]
    /\ irq \in [CPUs -> {"none", "switch", "store_idle"}]
    /\ next \in [CPUs -> Pids \cup {NoPid}]

ThreadOK ==
    /\ waiters \in Seq(Pids)
    /\ pc \in [Threads -> PC]
    /\ arg \in [Threads -> SUBSET Pids]
    /\ level \in [Threads -> Priorities]
    /\ target \in [Threads -> CPUs]

\* Types of the processes, the run queues and the CPUs.
TypeOK == TableOK /\ QueueingOK /\ CpuOK /\ ThreadOK

\* On every CPU the bitmap that pick_next trusts agrees with the queues,
\* through enqueue, dequeue and pick_next in any order.
BitmapCoherent == \A c \in CPUs : Coherent(sched[c])

\* A pid is at most once in a queue, although yield_cpu, schedule and
\* add_to_scheduler all enqueue it independently.
QueuesHaveNoDuplicates == \A c \in CPUs : NoDuplicates(sched[c])

\* The run queues are sound: pick_next finds what waits, and each pid once.
QueuesSound == BitmapCoherent /\ QueuesHaveNoDuplicates

\* A queue may hold a pid the table does not (set_priority enqueues any pid),
\* but what `current` or a pending switch names is in the table, so the
\* expect("Process not found") of switch_to_process cannot fail.
DispatchedPidsExist ==
    \A c \in CPUs, p \in Pids :
        current[c] = p \/ (irq[c] = "switch" /\ next[c] = p) => InTable(p)

\* On one CPU the scheduler and CURRENT_PID never disagree about who runs
\* outside the handler: schedule() re-queues the process that was preempted.
SchedulerAgreesWithCpu ==
    \A c \in CPUs :
        irq[c] = "none" /\ current[c] # NoPid => current[c] = current_pid

\* On one CPU only the process CURRENT_PID names can be marked Running.
RunningIsCurrent ==
    \A p \in Pids : state[p] = "Running" => p = current_pid

\* On one CPU what switch_to_process stored for a process is that process's
\* own context, never another's or the boot thread's: CURRENT_PID names what
\* the CPU executes whenever a switch saves registers.
ContextsAreOwn == \A p \in Pids : saved[p] = p

\* On one CPU the scheduler, CURRENT_PID, the state Running and the saved
\* registers tell the same story about who runs.
CurrentIsConsistent == SchedulerAgreesWithCpu /\ RunningIsCurrent /\ ContextsAreOwn

\* schedule() on c takes a process from a queue
Dispatches(c) == irq[c] = "none" /\ irq'[c] = "switch" /\ ~Keeps(c)

\* pick_next takes the most urgent class with a waiting process, and a dream
\* process only when the system is idle ("only run dream processes if system
\* is idle").
DispatchesMostUrgent ==
    [][\A c \in CPUs : Dispatches(c) =>
          \E i \in Priorities :
              /\ \/ Queued(sched[c], next'[c], i)
                 \/ next'[c] = current[c] /\ priority[next'[c]] = i
              /\ i = Dream => system_idle
              /\ \A j \in Priorities : j < i => sched[c].queues[j] = <<>>]_vars

\* a SYS_EXIT has stopped the CPU
Stopped(c) == running[c] \in Threads /\ pc[running[c]] = "halted"

\* Round robin: with no changes of class every queued process is dispatched
\* by the CPU it is queued on, however often others yield, wait, wake or
\* exit, unless exit_process takes it out of the queues or SYS_EXIT stops
\* the CPU.
QueuedIsDispatched ==
    \A c \in CPUs, p \in Pids :
        Queued(sched[c], p, Interactive) ~>
            current[c] = p \/ state[p] = "Zombie" \/ Stopped(c)

\* "Unblock the process": a process that wake_one or wake_all marks Ready runs
\* again.
WokenProcessRuns ==
    \A p \in Pids :
        (\E t \in Threads : pc[t] = "wake" /\ p \in arg[t]) ~>
            current_pid = p \/ \E c \in CPUs : Stopped(c)
=============================================================================
