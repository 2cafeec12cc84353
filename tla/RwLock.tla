------------------------------- MODULE RwLock -------------------------------
(***************************************************************************)
(* sync/mod.rs, RwLock<T>: the readers-writer spinlock.  `readers` and     *)
(* `writer` are the two atomics; every atomic access is one step, and an   *)
(* iteration of a spin loop that finds its condition unmet is a stutter.   *)
(* The accesses that matter are locked read-modify-writes, so on x86 they  *)
(* are totally ordered with the loads that follow them.                    *)
(***************************************************************************)
EXTENDS Naturals, FiniteSets

CONSTANT Threads

ASSUME ThreadsAssumption == IsFiniteSet(Threads)

VARIABLES
    readers,  \* readers: AtomicUsize
    writer,   \* writer: AtomicBool
    pc        \* where each thread is inside read(), write() or a guard

vars == <<readers, writer, pc>>

PC == {"idle", "read_wait", "read_inc", "read_check", "read_back", "reading",
       "write_cas", "write_drain", "writing"}

Goto(t, from, to) == pc[t] = from /\ pc' = [pc EXCEPT ![t] = to]

Init ==
    /\ readers = 0
    /\ writer = FALSE
    /\ pc = [t \in Threads |-> "idle"]
-----------------------------------------------------------------------------
\* RwLock::read

Read(t) == Goto(t, "idle", "read_wait") /\ UNCHANGED <<readers, writer>>

\* a reader that counts itself without waiting for the writer to leave
ReadWaitNoSpin(t) ==
    Goto(t, "read_wait", "read_inc") /\ UNCHANGED <<readers, writer>>

\* the load that leaves `while self.writer.load(..)`
ReadWait(t) ==
    /\ ~writer
    /\ Goto(t, "read_wait", "read_inc")
    /\ UNCHANGED <<readers, writer>>

ReadInc(t) ==
    /\ Goto(t, "read_inc", "read_check")
    /\ readers' = readers + 1
    /\ UNCHANGED writer

\* a reader that skips the second look at `writer`
ReadCheckNoRecheck(t) ==
    Goto(t, "read_check", "reading") /\ UNCHANGED <<readers, writer>>

\* a second look with the branches swapped
ReadCheckInverted(t) ==
    /\ Goto(t, "read_check", IF writer THEN "reading" ELSE "read_back")
    /\ UNCHANGED <<readers, writer>>

ReadCheck(t) ==
    /\ Goto(t, "read_check", IF writer THEN "read_back" ELSE "reading")
    /\ UNCHANGED <<readers, writer>>

\* a reader that backs off without giving its count back
ReadBackOffLeak(t) ==
    Goto(t, "read_back", "read_wait") /\ UNCHANGED <<readers, writer>>

ReadBackOff(t) ==
    /\ Goto(t, "read_back", "read_wait")
    /\ readers' = readers - 1
    /\ UNCHANGED writer

DropReadGuard(t) ==
    /\ Goto(t, "reading", "idle")
    /\ readers' = readers - 1
    /\ UNCHANGED writer
-----------------------------------------------------------------------------
\* RwLock::write

Write(t) == Goto(t, "idle", "write_cas") /\ UNCHANGED <<readers, writer>>

WriteCas(t) ==
    /\ ~writer
    /\ Goto(t, "write_cas", "write_drain")
    /\ writer' = TRUE
    /\ UNCHANGED readers

\* a writer that tolerates one reader still inside
WriteDrainOffByOne(t) ==
    /\ readers <= 1
    /\ Goto(t, "write_drain", "writing")
    /\ UNCHANGED <<readers, writer>>

WriteDrain(t) ==
    /\ readers = 0
    /\ Goto(t, "write_drain", "writing")
    /\ UNCHANGED <<readers, writer>>

DropWriteGuard(t) ==
    /\ Goto(t, "writing", "idle")
    /\ writer' = FALSE
    /\ UNCHANGED readers
-----------------------------------------------------------------------------
\* The steps a call that has begun takes on its own; Read and Write are the
\* client's choice.
Step(t) ==
    \/ ReadWait(t) \/ ReadInc(t) \/ ReadCheck(t) \/ ReadBackOff(t)
    \/ DropReadGuard(t)
    \/ WriteCas(t) \/ WriteDrain(t) \/ DropWriteGuard(t)

Next == \E t \in Threads : Read(t) \/ Write(t) \/ Step(t)

Spec == Init /\ [][Next]_vars
-----------------------------------------------------------------------------
At(labels) == {t \in Threads : pc[t] \in labels}

\* Types of the two atomics and the threads.
TypeOK ==
    /\ readers \in Nat
    /\ writer \in BOOLEAN
    /\ pc \in [Threads -> PC]

\* Between fetch_add and fetch_sub a thread is counted in `readers`, whether
\* it holds a guard or is about to back off; and the flag is up exactly while
\* one thread is past its compare_exchange.  A counter that drifts would keep
\* writers out for ever or let one in beside a reader.
CountersMatchThreads ==
    /\ readers = Cardinality(At({"read_check", "read_back", "reading"}))
    /\ writer = (At({"write_drain", "writing"}) # {})
    /\ \A t, u \in At({"write_drain", "writing"}) : t = u

\* A write guard excludes every other guard (read() and write() of RwLock).
Exclusion ==
    \A t, u \in Threads :
        pc[t] = "writing" /\ t # u => pc[u] \notin {"reading", "writing"}

\* The lock is sound: a writer is alone, and the atomics say who is inside.
LockSound == CountersMatchThreads /\ Exclusion

\* The two atomics implement the abstract readers-writer lock.
Abstract == INSTANCE AbstractRwLock
                WITH reading <- At({"reading"}), writing <- At({"writing"})

ImplementsRwLock == Abstract!Spec

\* Once write() has raised the flag, readers that were already past their
\* first check back off or finish, so the writer always gets in.
WriterGetsIn ==
    \A t \in Threads : pc[t] = "write_drain" ~> pc[t] = "writing"

\* No livelock: when some thread is asking for the lock, some thread is
\* eventually inside it, although readers and writers back off for each other.
SomeoneGetsIn ==
    At({"read_wait", "write_cas"}) # {} ~> At({"reading", "writing"}) # {}
=============================================================================
