----------------------------- MODULE KernelLocks -----------------------------
(***************************************************************************)
(* The locks of the process code and the order its calls take them in: one *)
(* IrqSpinlock per CPU around its scheduler (CPU_SCHEDULERS), which turns  *)
(* the CPU's interrupts off while it is waited for and held, and one       *)
(* spin::Mutex around the process table, which does not.  A call is the    *)
(* sequence of its lock operations; the branches that decide which of them *)
(* happen are choices.  A call that holds nothing between two of its       *)
(* critical sections is two calls here.  What the calls do to the queues   *)
(* is in Scheduler and LoadBalance.                                        *)
(***************************************************************************)
EXTENDS Integers, Sequences, SequencesExt, FiniteSets

CONSTANT NumCpus

CPUs == 0 .. NumCpus - 1
Table == NumCpus             \* PROCESS_TABLE, beside the locks of the CPUs' schedulers
Free == -1

VARIABLES
    owner,    \* the CPU that holds each lock
    irq,      \* interrupts are on, on each CPU
    saved,    \* the flag each CPU's guard of each scheduler restores
    frames    \* the call each CPU is in, and on top of it the tick that interrupted it

vars == <<owner, irq, saved, frames>>
-----------------------------------------------------------------------------
\* The operations of a call
Lock(l) == << <<"take", l>> >>
Unlock(l) == << <<"drop", l>> >>
Section(l) == Lock(l) \o Unlock(l)

\* schedule: the table is looked at for the time slice, the current and the next process, each
\* if there is one; a second or third look takes the locks as the first does
schedule(c) == {Lock(c) \o look \o Unlock(c) : look \in {<<>>, Section(Table)}}

\* timer_interrupt_handler: schedule, and switch_to_process if there is one to run
tick(c) == {s \o t : s \in schedule(c), t \in {<<>>, Section(Table)}}

yield_cpu(c) == {Lock(c) \o Lock(Table) \o Unlock(Table) \o Unlock(c)}

\* exit_process: remove_from_scheduler, if there is a process, with the table locked; then
\* yield_cpu, a call of its own
remove_from_scheduler == FlattenSeq([i \in 1 .. NumCpus |-> Section(i - 1)])
exit_process(c) == {Lock(Table) \o remove_from_scheduler \o Unlock(Table)}

\* balance_load, o being overloaded: its lock is dropped while the other loads are read,
\* and taken again before the target's is dropped
balance_load(c) ==
    UNION {{Lock(t) \o Lock(o) \o Unlock(t) \o Unlock(o) : t \in CPUs \ {o}} : o \in CPUs}

\* the table still locked when the target's scheduler is
one_lock_inside(c) == {Lock(Table) \o Section(l) \o Unlock(Table) : l \in CPUs}

\* One lock at a time: add_to_scheduler_with_priority and set_priority (each load, the table, the
\* target), get_cpu_stats; spawn, sys_brk, ps, WaitQueue and others (the table)
one_lock(c) == {Section(l) : l \in CPUs \cup {Table}}

Program(call, c) ==
    CASE call = "yield_cpu" -> yield_cpu(c)
      [] call = "exit_process" -> exit_process(c)
      [] call = "balance_load" -> balance_load(c)
      [] call = "one_lock" -> one_lock(c)
Calls == {"yield_cpu", "exit_process", "balance_load", "one_lock"}
-----------------------------------------------------------------------------
Init ==
    /\ owner = [l \in CPUs \cup {Table} |-> Free]
    /\ irq = [c \in CPUs |-> TRUE]
    /\ saved = [c \in CPUs |-> [l \in CPUs |-> FALSE]]
    /\ frames = [c \in CPUs |-> <<>>]

Top(c) == Last(frames[c])
Ops(c) == Top(c).ops
Busy(c) == frames[c] # <<>> /\ Ops(c) # <<>>
Done(c) ==
    frames' = [frames EXCEPT ![c] = Front(@) \o <<[Last(@) EXCEPT !.ops = Tail(@)]>>]

\* A system call runs with interrupts off (SFMASK); kernel code with the flag as it is
Begin(c, call) ==
    /\ frames[c] = <<>>
    /\ \E ops \in Program(call, c), on \in {irq[c], FALSE} :
          /\ irq' = [irq EXCEPT ![c] = on]
          /\ frames' = [frames EXCEPT ![c] = <<[call |-> call, irq |-> on, ops |-> ops]>>]
    /\ UNCHANGED <<owner, saved>>

Tick(c) ==
    /\ irq[c]
    /\ irq' = [irq EXCEPT ![c] = FALSE]
    /\ \E ops \in tick(c) :
          frames' = [frames EXCEPT ![c] = Append(@, [call |-> "tick", irq |-> FALSE, ops |-> ops])]
    /\ UNCHANGED <<owner, saved>>

Wants(c, l) == Busy(c) /\ Head(Ops(c)) = <<"take", l>>
Waits(c) == \E l \in DOMAIN owner : Wants(c, l) /\ owner[l] # Free

\* IrqSpinlock::lock saves the flag and turns interrupts off, then spins; Mutex::lock spins
Take(c, l) ==
    /\ Wants(c, l) /\ owner[l] = Free
    /\ owner' = [owner EXCEPT ![l] = c]
    /\ IF l = Table THEN UNCHANGED <<irq, saved>>
       ELSE saved' = [saved EXCEPT ![c][l] = irq[c]] /\ irq' = [irq EXCEPT ![c] = FALSE]
    /\ Done(c)

\* It spins on.  A tick may come before interrupts are off, so Tick is possible here too.
Spin(c) == Waits(c) /\ UNCHANGED vars

\* a guard that leaves the interrupt flag alone
DropKeepsFlag(c, l) ==
    /\ Busy(c) /\ Head(Ops(c)) = <<"drop", l>>
    /\ owner' = [owner EXCEPT ![l] = Free]
    /\ Done(c)
    /\ UNCHANGED <<irq, saved>>

\* Drop of a guard; a scheduler's turns interrupts on if they were on when it was taken
Drop(c, l) ==
    /\ Busy(c) /\ Head(Ops(c)) = <<"drop", l>>
    /\ owner' = [owner EXCEPT ![l] = Free]
    /\ IF l = Table THEN UNCHANGED <<irq, saved>>
       ELSE saved' = [saved EXCEPT ![c][l] = FALSE] /\ irq' = [irq EXCEPT ![c] = @ \/ saved[c][l]]
    /\ Done(c)

\* The call returns; sysret from a system call and iretq from the tick turn interrupts on
Return(c) ==
    /\ frames[c] # <<>> /\ Ops(c) = <<>>
    /\ irq' = [irq EXCEPT ![c] = @ \/ ~Top(c).irq]
    /\ frames' = [frames EXCEPT ![c] = Front(@)]
    /\ UNCHANGED <<owner, saved>>

Next ==
    \E c \in CPUs :
        \/ \E call \in Calls : Begin(c, call)
        \/ Tick(c) \/ Spin(c) \/ Return(c)
        \/ \E l \in DOMAIN owner : Take(c, l) \/ Drop(c, l)

Spec == Init /\ [][Next]_vars
-----------------------------------------------------------------------------
\* Locks have owners, and at most a tick is on top of a call.
TypeOK ==
    /\ owner \in [CPUs \cup {Table} -> CPUs \cup {Free}]
    /\ irq \in [CPUs -> BOOLEAN]
    /\ saved \in [CPUs -> [CPUs -> BOOLEAN]]
    /\ \A c \in CPUs : Len(frames[c]) <= 2 /\ \A i \in DOMAIN frames[c] :
                                                 frames[c][i].call \in Calls \cup {"tick"}

Holds(c, l) == owner[l] = c
WaitsIn(c, set) == \E l \in DOMAIN owner : Wants(c, l) /\ owner[l] \in set

\* The three ways the code can lock up: exit_process waits for a scheduler with the table
\* locked (process/mod.rs:292); balance_load waits for one scheduler with another locked, or is
\* interrupted with one locked (scheduler.rs:391); a tick hits its own CPU's table section.
AgainstTheOrder(c) ==
    \/ frames[c][1].call = "exit_process" /\ Holds(c, Table)
    \/ frames[c][1].call = "balance_load" /\ \E s \in CPUs : Holds(c, s)
    \/ Len(frames[c]) = 2 /\ Holds(c, Table)

\* schedule, yield_cpu and the others agree on an order, the scheduler before
\* the table: CPUs that wait for each other in a circle always include one that is in
\* exit_process, in balance_load or in a tick that hit a section of the process table.
CirclesAreKnown ==
    \A set \in SUBSET CPUs \ {{}} :
        (\A c \in set : WaitsIn(c, set)) => \E c \in set : AgainstTheOrder(c)

\* Every call but balance_load ends with the interrupt flag it began with, and none of them
\* can be interrupted while it holds a scheduler.  (balance_load drops the guards out of
\* order: the target's, taken with interrupts on, turns them on with the source still locked.)
FlagsNest ==
    \A c \in CPUs : frames[c] # <<>> /\ frames[c][1].call # "balance_load" =>
        /\ Ops(c) = <<>> => irq[c] = Top(c).irq
        /\ irq[c] => \A s \in CPUs : ~Holds(c, s)
=============================================================================
