----------------------------- MODULE IrqSpinlock ----------------------------
(***************************************************************************)
(* sync/mod.rs: the spinlock that disables interrupts, taken by code on    *)
(* several CPUs and by the interrupt handlers that interrupt it.  Locks    *)
(* are numbers: code takes them in increasing order and, as guards go out  *)
(* of scope, gives them back in the reverse order.                         *)
(***************************************************************************)
EXTENDS Naturals, Sequences, FiniteSets

CONSTANTS CPUs, NumLocks

Locks == 1..NumLocks
None == 0
Code == {"task", "handler"}

VARIABLES
    locked,
    irq, home,         \* the interrupt flag of each CPU, and the one its task began with
    running,           \* whether a CPU runs its task or a handler that interrupted it
    want, flags,       \* the lock each code spins for, the flag it saved
    guards             \* the guards each code holds: lock and saved flag

vars == <<locked, irq, home, running, want, flags, guards>>

\* system calls begin with interrupts off, kernel tasks with interrupts on
Init ==
    /\ locked = [l \in Locks |-> FALSE]
    /\ home \in [CPUs -> BOOLEAN] /\ irq = home
    /\ running = [c \in CPUs |-> "task"]
    /\ want = [c \in CPUs |-> [k \in Code |-> None]]
    /\ flags = [c \in CPUs |-> [k \in Code |-> FALSE]]
    /\ guards = [c \in CPUs |-> [k \in Code |-> <<>>]]

Held(c, k) == guards[c][k]
Top(c, k) == Held(c, k)[Len(Held(c, k))]
Idle(c) == want[c][running[c]] = None
InOrder(c, l) == LET k == running[c] IN Held(c, k) # <<>> => Top(c, k).lock < l
-----------------------------------------------------------------------------
\* the flag is saved, the interrupts stay on
save_only(c) ==
    /\ flags' = [flags EXCEPT ![c][running[c]] = irq[c]]
    /\ UNCHANGED irq

save_and_disable_irq(c) ==
    /\ flags' = [flags EXCEPT ![c][running[c]] = irq[c]]
    /\ irq' = [irq EXCEPT ![c] = FALSE]

\* interrupts go on whatever was saved
restore_always(c, saved) == irq' = [irq EXCEPT ![c] = TRUE]

\* sti if the flag was on; it never turns interrupts off
restore_irq(c, saved) == irq' = [irq EXCEPT ![c] = @ \/ saved]

Lock(c, l) ==
    /\ Idle(c) /\ InOrder(c, l)
    /\ save_and_disable_irq(c)
    /\ want' = [want EXCEPT ![c][running[c]] = l]
    /\ UNCHANGED <<locked, home, running, guards>>

\* a load and a store in place of the compare-exchange, seen when the lock is taken
AcquireTaken(c) ==
    LET k == running[c]
        l == want[c][k] IN
    /\ l # None
    /\ locked' = [locked EXCEPT ![l] = TRUE]
    /\ guards' = [guards EXCEPT ![c][k] = Append(@, [lock |-> l, flags |-> flags[c][k]])]
    /\ want' = [want EXCEPT ![c][k] = None]
    /\ flags' = [flags EXCEPT ![c][k] = FALSE]
    /\ UNCHANGED <<irq, home, running>>

\* the compare-exchange succeeds; until it does the CPU spins
Acquire(c) ==
    LET k == running[c]
        l == want[c][k] IN
    /\ l # None /\ ~locked[l]
    /\ locked' = [locked EXCEPT ![l] = TRUE]
    /\ guards' = [guards EXCEPT ![c][k] = Append(@, [lock |-> l, flags |-> flags[c][k]])]
    /\ want' = [want EXCEPT ![c][k] = None]
    /\ flags' = [flags EXCEPT ![c][k] = FALSE]
    /\ UNCHANGED <<irq, home, running>>

\* try_lock leaves a lock that is taken alone; the flag is saved and restored
TryLock(c, l) ==
    /\ Idle(c) /\ ~locked[l] /\ InOrder(c, l)
    /\ locked' = [locked EXCEPT ![l] = TRUE]
    /\ irq' = [irq EXCEPT ![c] = FALSE]
    /\ guards' = [guards EXCEPT ![c][running[c]] = Append(@, [lock |-> l, flags |-> irq[c]])]
    /\ UNCHANGED <<home, running, want, flags>>

Drop(c) ==
    LET k == running[c] IN
    /\ Idle(c) /\ Held(c, k) # <<>>
    /\ locked' = [locked EXCEPT ![Top(c, k).lock] = FALSE]
    /\ restore_irq(c, Top(c, k).flags)
    /\ guards' = [guards EXCEPT ![c][k] = SubSeq(@, 1, Len(@) - 1)]
    /\ UNCHANGED <<home, running, want, flags>>

\* an interrupt gate turns interrupts off
Interrupt(c) ==
    /\ running[c] = "task" /\ irq[c]
    /\ running' = [running EXCEPT ![c] = "handler"]
    /\ irq' = [irq EXCEPT ![c] = FALSE]
    /\ UNCHANGED <<locked, home, want, flags, guards>>

\* iretq restores the flags of the interrupted task
Iret(c) ==
    /\ running[c] = "handler" /\ Idle(c) /\ Held(c, "handler") = <<>>
    /\ running' = [running EXCEPT ![c] = "task"]
    /\ irq' = [irq EXCEPT ![c] = TRUE]
    /\ UNCHANGED <<locked, home, want, flags, guards>>
-----------------------------------------------------------------------------
Next ==
    \E c \in CPUs :
        \/ \E l \in Locks : Lock(c, l) \/ TryLock(c, l)
        \/ Acquire(c) \/ Drop(c) \/ Interrupt(c) \/ Iret(c)

Spec == Init /\ [][Next]_vars
-----------------------------------------------------------------------------
Guards == [lock : Locks, flags : BOOLEAN]

\* Types of the locks, the flags and the guards.
TypeOK ==
    /\ locked \in [Locks -> BOOLEAN]
    /\ irq \in [CPUs -> BOOLEAN] /\ home \in [CPUs -> BOOLEAN]
    /\ running \in [CPUs -> Code]
    /\ want \in [CPUs -> [Code -> Locks \cup {None}]]
    /\ flags \in [CPUs -> [Code -> BOOLEAN]]
    /\ guards \in [CPUs -> [Code -> Seq(Guards)]]

Owners(l) == {<<c, k>> \in CPUs \X Code : \E i \in 1..Len(Held(c, k)) : Held(c, k)[i].lock = l}

\* A lock has one guard at most, and is marked as taken exactly while it has one.
MutualExclusion == \A l \in Locks : Cardinality(Owners(l)) = (IF locked[l] THEN 1 ELSE 0)

\* Code never spins for a lock that is held by the code it has interrupted, which
\* could not run to give it back.
NoSelfDeadlock ==
    \A c \in CPUs : LET l == want[c][running[c]] IN
        l # None => \A k \in Code : <<c, k>> \notin Owners(l)

\* Nested guards put the interrupt flag back as the outermost lock found it.
FlagComesBack ==
    \A c \in CPUs : running[c] = "task" /\ Idle(c) /\ Held(c, "task") = <<>> => irq[c] = home[c]
=============================================================================
