------------------------------- MODULE MCSync -------------------------------
(***************************************************************************)
(* The synchronisation primitives of sync/mod.rs for TLC, and the locks of *)
(* the process code that are built from them.  They share no state, so a   *)
(* behaviour exercises one of them, `part`, and leaves the others as they  *)
(* were made: TLC explores the sum of their state spaces instead of the    *)
(* product.                                                                *)
(***************************************************************************)
EXTENDS RwLock

CONSTANT Posters       \* threads beside Threads that release or notify

VARIABLES
    part,
    sem_count, sem_pc, sem_current, sem_permits,
    cv_notified, cv_waiters, cv_pc, cv_todo, cv_stores, cv_woken,
    bar_count, bar_generation, bar_pc, bar_gen, bar_entered, bar_left,
    once_state, once_pc, once_called, once_finished,
    irq_locked, irq_irq, irq_home, irq_running, irq_want, irq_flags, irq_guards,
    klk_owner, klk_irq, klk_saved, klk_frames

All == Threads \cup Posters

Sem == INSTANCE Semaphore WITH
    Threads <- All, Initial <- 2, max_count <- 3,
    count <- sem_count, pc <- sem_pc, current <- sem_current, permits <- sem_permits
Cv == INSTANCE Condvar WITH
    Waiters <- Threads, Notifiers <- Posters, MaxNotifications <- 4,
    notified <- cv_notified, waiters <- cv_waiters, pc <- cv_pc, todo <- cv_todo,
    stores <- cv_stores, woken <- cv_woken
Bar == INSTANCE Barrier WITH
    Threads <- All, GenModulus <- 2, MaxRounds <- 3,
    count <- bar_count, generation <- bar_generation, pc <- bar_pc, gen <- bar_gen,
    entered <- bar_entered, left <- bar_left
Onc == INSTANCE Once WITH
    Threads <- All,
    state <- once_state, pc <- once_pc, called <- once_called, finished <- once_finished
Irq == INSTANCE IrqSpinlock WITH
    CPUs <- {0, 1}, NumLocks <- 2,
    locked <- irq_locked, irq <- irq_irq, home <- irq_home, running <- irq_running,
    want <- irq_want, flags <- irq_flags, guards <- irq_guards
Klk == INSTANCE KernelLocks WITH
    NumCpus <- 2,
    owner <- klk_owner, irq <- klk_irq, saved <- klk_saved, frames <- klk_frames

rw_vars == vars
sem_vars == <<sem_count, sem_pc, sem_current, sem_permits>>
cv_vars == <<cv_notified, cv_waiters, cv_pc, cv_todo, cv_stores, cv_woken>>
bar_vars == <<bar_count, bar_generation, bar_pc, bar_gen, bar_entered, bar_left>>
once_vars == <<once_state, once_pc, once_called, once_finished>>
irq_vars == <<irq_locked, irq_irq, irq_home, irq_running, irq_want, irq_flags, irq_guards>>
klk_vars == <<klk_owner, klk_irq, klk_saved, klk_frames>>
all_vars == <<part, rw_vars, sem_vars, cv_vars, bar_vars, once_vars, irq_vars, klk_vars>>
-----------------------------------------------------------------------------
SyncInit ==
    /\ part \in {"rwlock", "semaphore", "condvar", "barrier", "once", "irq", "kernel"}
    /\ Init /\ Sem!Init /\ Cv!Init /\ Bar!Init /\ Onc!Init /\ Irq!Init /\ Klk!Init
    /\ part # "irq" => irq_home = [c \in {0, 1} |-> TRUE]

\* calls of call_once that have all returned, and waiters nobody notifies, rest
Rest ==
    /\ (part = "once" /\ Onc!AllReturned) \/ (part = "condvar" /\ Cv!Exhausted)
    /\ UNCHANGED all_vars

SyncNext ==
    /\ UNCHANGED part
    /\ \/ /\ part = "rwlock" /\ Next
          /\ UNCHANGED <<sem_vars, cv_vars, bar_vars, once_vars, irq_vars, klk_vars>>
       \/ /\ part = "semaphore" /\ Sem!Next
          /\ UNCHANGED <<rw_vars, cv_vars, bar_vars, once_vars, irq_vars, klk_vars>>
       \/ /\ part = "condvar" /\ Cv!Next
          /\ UNCHANGED <<rw_vars, sem_vars, bar_vars, once_vars, irq_vars, klk_vars>>
       \/ /\ part = "barrier" /\ Bar!Next
          /\ UNCHANGED <<rw_vars, sem_vars, cv_vars, once_vars, irq_vars, klk_vars>>
       \/ /\ part = "once" /\ Onc!Next
          /\ UNCHANGED <<rw_vars, sem_vars, cv_vars, bar_vars, irq_vars, klk_vars>>
       \/ /\ part = "irq" /\ Irq!Next
          /\ UNCHANGED <<rw_vars, sem_vars, cv_vars, bar_vars, once_vars, klk_vars>>
       \/ /\ part = "kernel" /\ Klk!Next
          /\ UNCHANGED <<rw_vars, sem_vars, cv_vars, bar_vars, once_vars, irq_vars>>
       \/ Rest

\* A thread inside a call keeps running: it is kernel code on a CPU of its own.
\* Guards are dropped and permits given back, the threads of a barrier come back
\* to it, and the function of call_once returns.  Nobody has to begin a call.
SyncFairSpec ==
    /\ SyncInit /\ [][SyncNext]_all_vars
    /\ \A t \in Threads : WF_rw_vars(part = "rwlock" /\ Step(t))
    /\ \A t \in All : /\ WF_sem_vars(part = "semaphore" /\ Sem!Calls(t))
                      /\ WF_sem_vars(part = "semaphore" /\ Sem!Release(t))
                      /\ WF_bar_vars(part = "barrier" /\ Bar!Thread(t))
                      /\ WF_once_vars(part = "once" /\ Onc!Thread(t))
    /\ \A t \in Threads : WF_cv_vars(part = "condvar" /\ Cv!Waiter(t))
    /\ \A n \in Posters : WF_cv_vars(part = "condvar" /\ Cv!Notifier(n))
-----------------------------------------------------------------------------
\* Every variable of every primitive has its type.
TypesOK ==
    TypeOK /\ Sem!TypeOK /\ Cv!TypeOK /\ Bar!TypeOK /\ Onc!TypeOK /\ Irq!TypeOK /\ Klk!TypeOK

\* Semaphore: acquire and release neither make nor lose a permit.  Condvar: a
\* notification ends at most one wait.  Barrier: nobody leaves a round that somebody
\* has not entered.  Once: the function runs once, and whoever returns finds it
\* finished.  IrqSpinlock: a lock has one guard and is marked taken exactly then, no
\* code spins for a lock of the code it interrupted, and nested guards give the
\* interrupt flag back as they found it.  Kernel: CPUs wait for each other in a circle
\* only through exit_process, balance_load or a tick in a section of the process table,
\* and but for balance_load a scheduler is only held with interrupts off.
PrimitivesSafe ==
    /\ Sem!PermitsConserved /\ Cv!OneWaitPerNotification
    /\ Bar!NobodyLeavesEarly /\ Onc!ExactlyOnce
    /\ Irq!MutualExclusion /\ Irq!NoSelfDeadlock /\ Irq!FlagComesBack
    /\ Klk!CirclesAreKnown /\ Klk!FlagsNest

\* RwLock: a writer that has raised its flag gets in, and threads that back off for
\* each other do not do so for ever.  Semaphore: while there are permits, somebody
\* who waits in acquire gets one.  Condvar: a notification that finds a waiter ends a
\* wait.  Barrier: every round ends.  Once: everybody returns from call_once.
WaitsEnd ==
    /\ WriterGetsIn /\ SomeoneGetsIn /\ Sem!SomebodyGetsIn
    /\ Cv!NotificationIsUsed
    /\ part = "barrier" ~> Bar!AllDone
    /\ part = "once" ~> Onc!AllReturned
=============================================================================
