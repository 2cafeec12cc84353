-------------------------- MODULE SchedulerProofs ---------------------------
(***************************************************************************)
(* Proofs about RunQueue and Scheduler for any processes, CPUs, classes    *)
(* and time slices.                                                        *)
(***************************************************************************)
EXTENDS Scheduler, SequenceTheorems, TLAPS

\* a run queue as the code keeps it
Good(s) == s \in CpuSchedulers /\ Coherent(s) /\ NoDuplicates(s)

DupFree(q) == \A j, k \in 1..Len(q) : q[j] = q[k] => j = k
-----------------------------------------------------------------------------
(* The operations on one run queue.                                        *)

\* PriorityQueue::push yields a non-empty queue of pids and keeps it free of
\* duplicates.
LEMMA PushProperties ==
    ASSUME NEW q \in Seq(Pids), NEW p \in Pids
    PROVE  /\ Push(q, p) \in Seq(Pids)
           /\ Push(q, p) # <<>>
           /\ DupFree(q) => DupFree(Push(q, p))
<1>1. CASE Contains(q, p)
  <2>1. Push(q, p) = q
    BY <1>1 DEF Push
  <2>2. Len(q) > 0
    BY <1>1 DEF Contains
  <2> QED
    BY <2>1, <2>2
<1>2. CASE ~Contains(q, p)
  <2>1. Push(q, p) = Append(q, p)
    BY <1>2 DEF Push
  <2>2. /\ Append(q, p) \in Seq(Pids)
        /\ Append(q, p) # <<>>
        /\ Len(Append(q, p)) = Len(q) + 1
        /\ \A i \in 1..Len(q) : Append(q, p)[i] = q[i]
        /\ Append(q, p)[Len(q) + 1] = p
    BY AppendProperties
  <2>3. \A k \in 1..Len(q) : q[k] # p
    BY <1>2 DEF Contains
  <2>4. ASSUME DupFree(q) PROVE DupFree(Append(q, p))
    <3> SUFFICES ASSUME NEW j \in 1..Len(Append(q, p)), NEW k \in 1..Len(Append(q, p)),
                        Append(q, p)[j] = Append(q, p)[k]
                 PROVE  j = k
      BY DEF DupFree
    <3>1. Len(q) \in Nat
      OBVIOUS
    <3> QED
      BY <2>2, <2>3, <2>4, <3>1 DEF DupFree
  <2> QED
    BY <2>1, <2>2, <2>4
<1> QED
  BY <1>1, <1>2

\* PriorityQueue::remove yields a queue of pids and keeps it free of
\* duplicates.
LEMMA RetainProperties ==
    ASSUME NEW q \in Seq(Pids), NEW p \in Pids
    PROVE  /\ Retain(q, p) \in Seq(Pids)
           /\ DupFree(q) => DupFree(Retain(q, p))
<1>1. CASE Contains(q, p)
  <2> DEFINE at == CHOOSE k \in 1..Len(q) : q[k] = p
             r == [k \in 1..(Len(q) - 1) |-> IF k < at THEN q[k] ELSE q[k + 1]]
  <2>1. at \in 1..Len(q)
    BY <1>1 DEF Contains
  <2>2. Retain(q, p) = r
    BY <1>1 DEF Retain
  <2> HIDE DEF at
  <2>3. Len(q) - 1 \in Nat
    BY <2>1
  <2>4. \A k \in 1..(Len(q) - 1) : r[k] \in Pids
    BY <2>1, <2>3
  <2>5. r \in Seq(Pids) /\ Len(r) = Len(q) - 1
    BY <2>3, <2>4
  <2>6. ASSUME DupFree(q) PROVE DupFree(r)
    <3> SUFFICES ASSUME NEW j \in 1..(Len(q) - 1), NEW k \in 1..(Len(q) - 1), r[j] = r[k]
                 PROVE  j = k
      BY <2>5 DEF DupFree
    <3> QED
      BY <2>1, <2>3, <2>6 DEF DupFree
  <2> QED
    BY <2>2, <2>5, <2>6
<1>2. CASE ~Contains(q, p)
  BY <1>2 DEF Retain
<1> QED
  BY <1>1, <1>2

\* A new CpuScheduler is good.
LEMMA NewGood == Good(NewCpuScheduler)
  BY DEF Good, NewCpuScheduler, CpuSchedulers, Coherent, NoDuplicates

\* CpuScheduler::enqueue raises the bit of the queue it fills.
LEMMA EnqueueGood ==
    ASSUME NEW s, Good(s), NEW p \in Pids, NEW i \in Priorities
    PROVE  Good(Enqueue(s, p, i))
<1> DEFINE e == Enqueue(s, p, i)
<1>1. s.queues \in [Priorities -> Seq(Pids)] /\ s.bitmap \in SUBSET Priorities
  BY DEF Good, CpuSchedulers
<1>2. e.queues = [s.queues EXCEPT ![i] = Push(@, p)] /\ e.bitmap = s.bitmap \cup {i}
      /\ e = [queues |-> e.queues, bitmap |-> e.bitmap]
  BY DEF Enqueue
<1> HIDE DEF e
<1>3. Push(s.queues[i], p) \in Seq(Pids) /\ Push(s.queues[i], p) # <<>>
      /\ (DupFree(s.queues[i]) => DupFree(Push(s.queues[i], p)))
  BY <1>1, PushProperties
<1>4. \A j \in Priorities : e.queues[j] = IF j = i THEN Push(s.queues[i], p) ELSE s.queues[j]
  BY <1>1, <1>2
<1>5. e \in CpuSchedulers
  BY <1>1, <1>2, <1>3 DEF CpuSchedulers
<1>6. Coherent(e)
  BY <1>2, <1>3, <1>4 DEF Coherent, Good
<1>7. NoDuplicates(e)
  BY <1>3, <1>4 DEF NoDuplicates, Good, DupFree
<1> QED
  BY <1>5, <1>6, <1>7 DEF Good, e

\* CpuScheduler::dequeue clears exactly the bits of the queues it leaves
\* empty.
LEMMA DequeueGood ==
    ASSUME NEW s, Good(s), NEW p \in Pids
    PROVE  Good(Dequeue(s, p))
<1> DEFINE e == Dequeue(s, p)
<1>1. s.queues \in [Priorities -> Seq(Pids)] /\ s.bitmap \in SUBSET Priorities
  BY DEF Good, CpuSchedulers
<1>2. /\ e.queues = [i \in Priorities |-> Retain(s.queues[i], p)]
      /\ e.bitmap = {i \in s.bitmap : e.queues[i] # <<>>}
      /\ e = [queues |-> e.queues, bitmap |-> e.bitmap]
  BY DEF Dequeue
<1> HIDE DEF e
<1>3. \A i \in Priorities : /\ e.queues[i] = Retain(s.queues[i], p)
                            /\ e.queues[i] \in Seq(Pids)
                            /\ DupFree(s.queues[i]) => DupFree(e.queues[i])
  BY <1>1, <1>2, RetainProperties
<1>4. e \in CpuSchedulers
  BY <1>1, <1>2, <1>3 DEF CpuSchedulers
<1>5. \A i \in Priorities : s.queues[i] = <<>> => e.queues[i] = <<>>
  BY <1>1, <1>3 DEF Retain, Contains
<1>6. Coherent(e)
  BY <1>2, <1>5 DEF Coherent, Good
<1>7. NoDuplicates(e)
  BY <1>3 DEF NoDuplicates, Good, DupFree
<1> QED
  BY <1>4, <1>6, <1>7 DEF Good, e

\* trailing_zeros of a bitmap that is not zero is its lowest bit.
LEMMA HighestIsBit ==
    ASSUME NEW s, s.bitmap \in SUBSET Priorities, s.bitmap # {}
    PROVE  HighestPriority(s) \in s.bitmap /\ \A j \in s.bitmap : HighestPriority(s) <= j
<1> DEFINE B == s.bitmap
<1>1. B \subseteq 0..4 /\ B # {}
  <2>1. Priorities \subseteq 0..4
    BY PrioritiesAssumption DEF PrioritiesAssumption, NUM_PRIORITIES
  <2> QED
    BY <2>1
<1> HIDE DEF B
<1>2. \E i \in B : \A j \in B : i <= j
  <2>1. CASE 0 \in B BY <1>1, <2>1
  <2>2. CASE 0 \notin B /\ 1 \in B BY <1>1, <2>2
  <2>3. CASE 0 \notin B /\ 1 \notin B /\ 2 \in B BY <1>1, <2>3
  <2>4. CASE 0 \notin B /\ 1 \notin B /\ 2 \notin B /\ 3 \in B BY <1>1, <2>4
  <2>5. CASE 0 \notin B /\ 1 \notin B /\ 2 \notin B /\ 3 \notin B
    <3>1. \A j \in B : j = 4
      BY <1>1, <2>5
    <3>2. 4 \in B
      BY <1>1, <3>1, Zenon
    <3>3. \A j \in B : 4 <= j
      BY <3>1
    <3> QED
      BY <3>2, <3>3, Zenon
  <2> QED
    BY <2>1, <2>2, <2>3, <2>4, <2>5
<1> QED
  BY <1>2 DEF HighestPriority, B

\* pick_next takes a pid from a non-empty queue and keeps the bitmap right.
LEMMA PickGood ==
    ASSUME NEW s, Good(s), NEW idle, CanPick(s, idle)
    PROVE  Picked(s) \in Pids /\ Good(AfterPick(s))
<1> DEFINE h == HighestPriority(s)
           e == AfterPick(s)
<1>1. s.queues \in [Priorities -> Seq(Pids)] /\ s.bitmap \in SUBSET Priorities
  BY DEF Good, CpuSchedulers
<1>2. h \in s.bitmap /\ s.queues[h] # <<>>
  BY <1>1, HighestIsBit DEF CanPick
<1>3. /\ e.queues = [s.queues EXCEPT ![h] = Tail(s.queues[h])]
      /\ e.bitmap = IF Tail(s.queues[h]) = <<>> THEN s.bitmap \ {h} ELSE s.bitmap
      /\ e = [queues |-> e.queues, bitmap |-> e.bitmap]
  BY DEF AfterPick
<1>0. Picked(s) = Head(s.queues[h])
  BY DEF Picked
<1> HIDE DEF h, e
<1>4. s.queues[h] \in Seq(Pids) /\ h \in Priorities
  BY <1>1, <1>2
<1>5. /\ Head(s.queues[h]) \in Pids
      /\ Tail(s.queues[h]) \in Seq(Pids)
      /\ Len(Tail(s.queues[h])) = Len(s.queues[h]) - 1
      /\ \A i \in 1..Len(Tail(s.queues[h])) : Tail(s.queues[h])[i] = s.queues[h][i + 1]
  BY <1>2, <1>4, HeadTailProperties
<1>6. \A j \in Priorities : e.queues[j] = IF j = h THEN Tail(s.queues[h]) ELSE s.queues[j]
  BY <1>1, <1>3
<1>7. e \in CpuSchedulers
  BY <1>1, <1>3, <1>5 DEF CpuSchedulers
<1>8. Coherent(e)
  BY <1>2, <1>3, <1>6 DEF Coherent, Good
<1>9. DupFree(Tail(s.queues[h]))
  <2>1. DupFree(s.queues[h])
    BY <1>4 DEF Good, NoDuplicates, DupFree
  <2>2. Len(s.queues[h]) \in Nat
    BY <1>4
  <2> DEFINE q == s.queues[h]
             r == Tail(q)
  <2>3. Len(q) \in Nat /\ Len(r) = Len(q) - 1 /\ \A i \in 1..Len(r) : r[i] = q[i + 1]
    BY <1>5, <2>2
  <2> HIDE DEF q, r
  <2>4. DupFree(q)
    BY <2>1 DEF q
  <2>5. DupFree(r)
    <3> SUFFICES ASSUME NEW j \in 1..Len(r), NEW k \in 1..Len(r), r[j] = r[k]
                 PROVE  j = k
      BY DEF DupFree
    <3>1. j + 1 \in 1..Len(q) /\ k + 1 \in 1..Len(q) /\ q[j + 1] = q[k + 1]
      BY <2>3
    <3>2. j + 1 = k + 1
      BY <2>4, <3>1 DEF DupFree
    <3> QED
      BY <2>3, <3>2
  <2> QED
    BY <2>5 DEF r, q
<1>10. NoDuplicates(e)
  BY <1>6, <1>9 DEF NoDuplicates, Good, DupFree
<1> QED
  BY <1>0, <1>5, <1>7, <1>8, <1>10 DEF Good, e
-----------------------------------------------------------------------------
(* The system.                                                             *)

\* every CPU's run queue is good
AllGood(S) == S \in [CPUs -> CpuSchedulers] /\ \A c \in CPUs : Good(S[c])

\* a pending switch names a process
SwitchesToProcess == \A c \in CPUs : irq[c] = "switch" => next[c] \in Pids

\* The invariant the steps preserve: types, good run queues on every CPU, and
\* the pids a CPU dispatches are in the table.
IInv == TypeOK /\ AllGood(sched) /\ DispatchedPidsExist /\ SwitchesToProcess

\* Replacing one CPU's run queue by a good one keeps all of them good.
LEMMA SetOneGood ==
    ASSUME NEW S, AllGood(S), NEW c \in CPUs, NEW s, Good(s)
    PROVE  AllGood([S EXCEPT ![c] = s])
  BY DEF AllGood, Good

\* remove_from_scheduler keeps all run queues good.
LEMMA DequeueAllGood ==
    ASSUME NEW S, AllGood(S), NEW p \in Pids
    PROVE  AllGood([d \in CPUs |-> Dequeue(S[d], p)])
<1>1. \A d \in CPUs : Good(Dequeue(S[d], p))
  BY DequeueGood DEF AllGood
<1> QED
  BY <1>1 DEF AllGood, Good

\* The state after boot satisfies the invariant.
LEMMA InitIInv == Init => IInv
<1> SUFFICES ASSUME Init PROVE IInv
  OBVIOUS
<1>1. Good(NewCpuScheduler)
  BY NewGood
<1>2. AllGood(sched)
  BY <1>1 DEF Init, Good, AllGood
<1>3. TableOK
  BY ClassesAssumption DEF Init, TableOK, States
<1>4. QueueingOK
  BY <1>2 DEF Init, QueueingOK, AllGood
<1>5. CpuOK
  BY DEF Init, CpuOK, Threads
<1>6. ThreadOK
  BY ClassesAssumption, CpusAssumption DEF Init, ThreadOK, PC
<1>7. DispatchedPidsExist /\ SwitchesToProcess
  BY PidsAssumption DEF Init, DispatchedPidsExist, SwitchesToProcess
<1> QED
  BY <1>2, <1>3, <1>4, <1>5, <1>6, <1>7 DEF IInv, TypeOK

\* A step that changes neither `current` nor a handler's progress, and takes
\* no process out of the table, keeps the dispatched pids in the table.
LEMMA DispatchKept ==
    ASSUME DispatchedPidsExist, SwitchesToProcess, UNCHANGED <<current, irq, next>>,
           \A p \in Pids : InTable(p) => InTable(p)'
    PROVE  DispatchedPidsExist' /\ SwitchesToProcess'
  BY DEF DispatchedPidsExist, SwitchesToProcess

\* Return keeps the types of the threads' locals.
LEMMA ReturnOK ==
    ASSUME ThreadOK, NEW t \in Threads, NEW to \in PC, Return(t, to), UNCHANGED waiters
    PROVE  ThreadOK'
  BY ClassesAssumption, CpusAssumption DEF ThreadOK, Return, Goto

\* schedule() first re-adds the process that was running.
LEMMA ReaddedGood ==
    ASSUME IInv, NEW c \in CPUs
    PROVE  Good(Readded(c))
<1>1. Good(sched[c])
  BY DEF IInv, AllGood
<1>2. CASE current[c] # NoPid /\ state[current[c]] \in {"Running", "Ready"}
  <2>1. current[c] \in Pids
    BY <1>2 DEF IInv, TypeOK, QueueingOK
  <2>2. priority[current[c]] \in Priorities
    BY <2>1 DEF IInv, TypeOK, TableOK
  <2> QED
    BY <1>1, <1>2, <2>1, <2>2, EnqueueGood DEF Readded
<1> QED
  BY <1>1, <1>2 DEF Readded

\* schedule(), keeping, dispatching or idling, keeps the invariant.
LEMMA ScheduleIInv ==
    ASSUME IInv, NEW c \in CPUs, Schedule(c)
    PROVE  IInv'
<1> USE DEF IInv, TypeOK
<1>1. TableOK' /\ ThreadOK'
  BY DEF Schedule, TableOK, ThreadOK, table, thread, States, PC
<1>2. \A p \in Pids : InTable(p)' <=> InTable(p)
  BY DEF Schedule, table, InTable
<1>3. CASE ScheduleKeep(c)
  <2>1. current[c] \in Pids
    BY <1>3 DEF ScheduleKeep, Keeps, QueueingOK
  <2>2. QueueingOK'
    BY <1>3 DEF ScheduleKeep, Keeps, QueueingOK
  <2>3. AllGood(sched')
    BY <1>3 DEF ScheduleKeep, AllGood
  <2>4. CpuOK'
    BY <1>3, <2>1 DEF ScheduleKeep, CpuOK
  <2>5. DispatchedPidsExist' /\ SwitchesToProcess'
    BY <1>2, <1>3, <2>1 DEF ScheduleKeep, DispatchedPidsExist, SwitchesToProcess, CpuOK
  <2> QED
    BY <1>1, <2>2, <2>3, <2>4, <2>5
<1>4. CASE ScheduleDispatch(c)
  <2> DEFINE s == Readded(c)
             p == Picked(s)
  <2>1. Good(s) /\ CanPick(s, system_idle)
    BY <1>4, ReaddedGood DEF ScheduleDispatch
  <2>2. p \in Pids /\ Good(AfterPick(s))
    BY <2>1, PickGood
  <2>3. /\ sched' = [sched EXCEPT ![c] = AfterPick(s)]
        /\ current' = [current EXCEPT ![c] = p]
        /\ time_slice' = [time_slice EXCEPT ![c] = slice[p]]
        /\ idle_ticks' = 0 /\ system_idle' = FALSE
        /\ irq' = [irq EXCEPT ![c] = "switch"]
        /\ next' = [next EXCEPT ![c] = p]
        /\ UNCHANGED <<current_pid, running, saved>>
        /\ InTable(p)
    BY <1>4 DEF ScheduleDispatch
  <2> HIDE DEF s, p
  <2>4. AllGood(sched')
    BY <2>2, <2>3, SetOneGood
  <2>5. QueueingOK'
    BY <2>2, <2>3, <2>4 DEF QueueingOK, AllGood, TableOK
  <2>6. CpuOK'
    BY <2>2, <2>3 DEF CpuOK
  <2>7. DispatchedPidsExist' /\ SwitchesToProcess'
    BY <1>2, <2>2, <2>3 DEF DispatchedPidsExist, SwitchesToProcess, CpuOK, QueueingOK
  <2> QED
    BY <1>1, <2>4, <2>5, <2>6, <2>7
<1>5. CASE ScheduleIdle(c)
  <2> DEFINE s == Readded(c)
             left == IF CanPick(s, system_idle) THEN AfterPick(s) ELSE s
  <2>1. Good(s)
    BY ReaddedGood
  <2>2. Good(left)
    BY <2>1, PickGood
  <2>3. /\ sched' = [sched EXCEPT ![c] = left]
        /\ current' = [current EXCEPT ![c] = NoPid]
        /\ time_slice' = [time_slice EXCEPT ![c] = Decremented(@)]
        /\ idle_ticks' = IF idle_ticks > IdleLimit THEN idle_ticks ELSE idle_ticks + 1
        /\ irq' = [irq EXCEPT ![c] = IF idle_ticks > IdleLimit THEN "store_idle" ELSE "none"]
        /\ UNCHANGED <<system_idle, current_pid, running, saved, next>>
    BY <1>5 DEF ScheduleIdle
  <2> HIDE DEF s, left
  <2>4. AllGood(sched')
    BY <2>2, <2>3, SetOneGood
  <2>5. QueueingOK'
    BY <2>3, <2>4 DEF QueueingOK, AllGood, Decremented
  <2>6. CpuOK'
    BY <2>3 DEF CpuOK
  <2>7. DispatchedPidsExist' /\ SwitchesToProcess'
    BY <1>2, <2>3, PidsAssumption DEF DispatchedPidsExist, SwitchesToProcess, CpuOK, QueueingOK
  <2> QED
    BY <1>1, <2>4, <2>5, <2>6, <2>7
<1> QED
  BY <1>3, <1>4, <1>5 DEF Schedule

\* So does storing SYSTEM_IDLE after the scheduler's lock is dropped.
LEMMA StoreIdleIInv ==
    ASSUME IInv, NEW c \in CPUs, StoreIdle(c)
    PROVE  IInv'
<1> USE DEF IInv, TypeOK, StoreIdle
<1>1. TableOK' /\ ThreadOK'
  BY DEF TableOK, ThreadOK, table, thread
<1>2. QueueingOK' /\ AllGood(sched')
  BY DEF QueueingOK, AllGood
<1>3. CpuOK'
  BY DEF CpuOK
<1>4. DispatchedPidsExist' /\ SwitchesToProcess'
  BY DEF DispatchedPidsExist, SwitchesToProcess, CpuOK, InTable, table
<1> QED
  BY <1>1, <1>2, <1>3, <1>4

\* switch_to_process: the pid it is given exists, and it takes no process out
\* of the table.
LEMMA SwitchIInv ==
    ASSUME IInv, NEW c \in CPUs, SwitchToProcess(c)
    PROVE  IInv'
<1> USE DEF IInv, TypeOK
<1> DEFINE new == next[c]
           old == current_pid
<1>1. /\ irq[c] = "switch"
      /\ irq' = [irq EXCEPT ![c] = "none"]
      /\ IF old = new
           THEN UNCHANGED <<state, saved, running, current_pid>>
           ELSE /\ state' = [p \in Pids |-> IF p = new THEN "Running"
                                            ELSE IF p = old /\ InTable(p) THEN "Ready"
                                            ELSE state[p]]
                /\ saved' = [p \in Pids |-> IF p = old /\ InTable(p) THEN running[c]
                                            ELSE saved[p]]
                /\ running' = [running EXCEPT ![c] = saved[new]]
                /\ current_pid' = new
      /\ next' = [next EXCEPT ![c] = NoPid]
      /\ UNCHANGED <<priority, slice, queueing, waiters>>
  BY DEF SwitchToProcess
<1>2. new \in Pids /\ InTable(new)
  BY <1>1 DEF SwitchesToProcess, DispatchedPidsExist
<1>3. ThreadOK'
  <2>1. Boot \in Threads /\ "halted" \in PC
    BY DEF Threads, PC
  <2>2. CASE Return(Boot, "halted")
    BY <1>1, <2>1, <2>2, ReturnOK
  <2>3. CASE UNCHANGED thread
    BY <1>1, <2>3 DEF ThreadOK, thread
  <2> QED
    BY <2>2, <2>3 DEF SwitchToProcess
<1> HIDE DEF new, old
<1>4. TableOK'
  BY <1>1 DEF TableOK, States
<1>5. QueueingOK' /\ AllGood(sched')
  BY <1>1 DEF QueueingOK, AllGood, queueing
<1>6. CpuOK'
  BY <1>1, <1>2 DEF CpuOK
<1>7. \A p \in Pids : InTable(p) => InTable(p)'
  BY <1>1 DEF InTable, TableOK
<1>8. DispatchedPidsExist' /\ SwitchesToProcess'
  BY <1>1, <1>7 DEF DispatchedPidsExist, SwitchesToProcess, CpuOK, queueing
<1> QED
  BY <1>3, <1>4, <1>5, <1>6, <1>8
-----------------------------------------------------------------------------
\* Adding a process to the table keeps the invariant.
LEMMA SpawnIInv ==
    ASSUME IInv, NEW c \in CPUs, NEW t \in Threads, NEW p \in Pids, Spawn(c, t, p)
    PROVE  IInv'
<1> USE DEF IInv, TypeOK, Spawn
<1>1. TableOK'
  BY ClassesAssumption, SliceAssumption DEF TableOK, States
<1>2. QueueingOK' /\ AllGood(sched') /\ CpuOK' /\ UNCHANGED <<current, irq, next>>
  BY DEF QueueingOK, AllGood, CpuOK, queueing, cpu
<1>3. ThreadOK'
  BY ClassesAssumption DEF ThreadOK, Goto, PC
<1>4. \A q \in Pids : InTable(q) => InTable(q)'
  BY DEF InTable, TableOK
<1> QED
  BY <1>1, <1>2, <1>3, <1>4, DispatchKept

\* The search for the least loaded CPU changes no queue.
LEMMA AddScanIInv ==
    ASSUME IInv, NEW c \in CPUs, NEW t \in Threads, AddScan(c, t)
    PROVE  IInv'
<1> USE DEF IInv, TypeOK, AddScan
<1>1. TableOK' /\ QueueingOK' /\ AllGood(sched') /\ CpuOK' /\ UNCHANGED <<current, irq, next>>
  BY DEF TableOK, table, QueueingOK, AllGood, CpuOK, queueing, cpu
<1>2. ThreadOK'
  BY DEF ThreadOK, Goto, PC
<1>3. \A q \in Pids : InTable(q) => InTable(q)'
  BY DEF InTable, table
<1> QED
  BY <1>1, <1>2, <1>3, DispatchKept

\* Enqueueing on the CPU that was found keeps the queues good.
LEMMA AddEnqueueIInv ==
    ASSUME IInv, NEW c \in CPUs, NEW t \in Threads, AddEnqueue(c, t)
    PROVE  IInv'
<1> USE DEF IInv, TypeOK
<1>1. PICK p \in arg[t] : sched' = [sched EXCEPT ![target[t]] = Enqueue(@, p, level[t])]
  BY DEF AddEnqueue
<1>2. p \in Pids /\ level[t] \in Priorities /\ target[t] \in CPUs
  BY DEF ThreadOK
<1>3. Good(Enqueue(sched[target[t]], p, level[t]))
  BY <1>2, EnqueueGood DEF AllGood
<1>4. AllGood(sched')
  BY <1>1, <1>2, <1>3, SetOneGood
<1>5. TableOK' /\ QueueingOK' /\ CpuOK' /\ UNCHANGED <<current, irq, next>>
  BY <1>4 DEF AddEnqueue, TableOK, table, QueueingOK, AllGood, CpuOK, cpu
<1>6. ThreadOK'
  <2>1. "run" \in PC /\ "launch" \in PC /\ UNCHANGED waiters
    BY DEF PC, AddEnqueue
  <2>2. CASE t = Boot
    BY <2>1, <2>2 DEF AddEnqueue, ThreadOK, Goto
  <2>3. CASE t # Boot
    BY <2>1, <2>3, ReturnOK DEF AddEnqueue
  <2> QED
    BY <2>2, <2>3
<1>7. \A q \in Pids : InTable(q) => InTable(q)'
  BY DEF InTable, table, AddEnqueue
<1> QED
  BY <1>4, <1>5, <1>6, <1>7, DispatchKept

\* The two steps of launching the first program keep the invariant.
LEMMA LaunchIInv ==
    ASSUME IInv, NEW c \in CPUs, LaunchSetCurrent(c) \/ LaunchEnter(c)
    PROVE  IInv'
<1> USE DEF IInv, TypeOK, LaunchSetCurrent, LaunchEnter
<1>1. Boot \in Threads /\ "halted" \in PC /\ "enter" \in PC /\ UNCHANGED waiters
  BY DEF Threads, PC
<1>2. arg[Boot] \subseteq Pids
  BY <1>1 DEF ThreadOK
<1>3. TableOK' /\ QueueingOK' /\ AllGood(sched') /\ UNCHANGED <<current, irq, next>>
  BY DEF TableOK, table, QueueingOK, AllGood, queueing
<1>4. CpuOK'
  BY <1>2 DEF CpuOK, Threads
<1>5. ThreadOK'
  <2>1. CASE LaunchSetCurrent(c)
    BY <1>1, <2>1 DEF ThreadOK, Goto
  <2>2. CASE LaunchEnter(c)
    BY <1>1, <2>2, ReturnOK
  <2> QED
    BY <2>1, <2>2
<1>6. \A q \in Pids : InTable(q) => InTable(q)'
  BY DEF InTable, table
<1> QED
  BY <1>3, <1>4, <1>5, <1>6, DispatchKept

\* The first section of set_priority dequeues the process everywhere.
LEMMA SetPriorityIInv ==
    ASSUME IInv, NEW c \in CPUs, NEW t \in Threads, NEW p \in Pids, NEW i \in Priorities,
           SetPriority(c, t, p, i)
    PROVE  IInv'
<1> USE DEF IInv, TypeOK, SetPriority
<1>1. AllGood(sched')
  BY DequeueAllGood
<1>2. TableOK' /\ QueueingOK' /\ CpuOK' /\ UNCHANGED <<current, irq, next>>
  BY <1>1 DEF TableOK, table, QueueingOK, AllGood, CpuOK, cpu
<1>3. ThreadOK'
  BY DEF ThreadOK, Goto, PC
<1>4. \A q \in Pids : InTable(q) => InTable(q)'
  BY DEF InTable, table
<1> QED
  BY <1>1, <1>2, <1>3, <1>4, DispatchKept

\* Storing the new class, or the class of an intent, keeps the invariant.
LEMMA SetClassIInv ==
    ASSUME IInv, NEW c \in CPUs, NEW t \in Threads,
           SetPriorityUpdate(c, t) \/ \E p \in Pids : SetIntent(c, t, p)
    PROVE  IInv'
<1> USE DEF IInv, TypeOK, SetIntent, SetPriorityUpdate
<1>1. AllGood(sched') /\ QueueingOK' /\ CpuOK' /\ UNCHANGED <<current, irq, next>>
  BY DEF QueueingOK, AllGood, CpuOK, cpu, queueing
<1>2. TableOK'
  <2>1. level[t] \in Priorities /\ TimeSlice[level[t]] \in Nat
    BY SliceAssumption DEF ThreadOK
  <2> QED
    BY <2>1, ClassesAssumption DEF TableOK
<1>3. ThreadOK'
  BY DEF ThreadOK, Goto, PC, thread
<1>4. \A q \in Pids : InTable(q) => InTable(q)'
  BY DEF InTable
<1> QED
  BY <1>1, <1>2, <1>3, <1>4, DispatchKept

\* yield_cpu's section keeps the run queues good and the table as it is.
LEMMA YieldSectionGood ==
    ASSUME IInv, NEW c \in CPUs, YieldSection(c)
    PROVE  /\ AllGood(sched') /\ TableOK' /\ QueueingOK' /\ CpuOK'
           /\ UNCHANGED <<current, irq, next>>
           /\ \A q \in Pids : InTable(q) => InTable(q)'
<1> USE DEF IInv, TypeOK
<1>1. AllGood(sched')
  <2>1. CASE current_pid \in Pids /\ InTable(current_pid)
    <3>1. Good(Enqueue(sched[c], current_pid, priority[current_pid]))
      BY <2>1, EnqueueGood DEF AllGood, TableOK
    <3>2. sched' = [sched EXCEPT ![c] = Enqueue(sched[c], current_pid, priority[current_pid])]
      BY <2>1, PidsAssumption DEF YieldSection
    <3> QED
      BY <3>1, <3>2, SetOneGood
  <2>2. CASE ~(current_pid \in Pids /\ InTable(current_pid))
    BY <2>2 DEF YieldSection, InTable
  <2> QED
    BY <2>1, <2>2
<1>2. TableOK' /\ CpuOK' /\ UNCHANGED <<current, irq, next>>
  BY DEF YieldSection, TableOK, table, CpuOK, cpu
<1>3. QueueingOK'
  BY <1>1 DEF YieldSection, QueueingOK, AllGood
<1>4. \A q \in Pids : InTable(q) => InTable(q)'
  BY DEF YieldSection, InTable, table
<1> QED
  BY <1>1, <1>2, <1>3, <1>4

\* The three callers of yield_cpu keep the invariant.
LEMMA YieldIInv ==
    ASSUME IInv, NEW c \in CPUs, NEW t \in Threads,
           YieldCpu(c, t) \/ ExitYield(c, t) \/ WaitYield(c, t)
    PROVE  IInv'
<1> USE DEF IInv, TypeOK
<1>1. YieldSection(c) /\ UNCHANGED waiters
  BY DEF YieldCpu, ExitYield, WaitYield
<1>2. ThreadOK'
  <2>1. "run" \in PC /\ "exit_key" \in PC
    BY DEF PC
  <2>2. CASE YieldCpu(c, t)
    BY <2>2 DEF YieldCpu, ThreadOK, thread
  <2>3. CASE ExitYield(c, t)
    BY <1>1, <2>1, <2>3, ReturnOK DEF ExitYield
  <2>4. CASE WaitYield(c, t)
    BY <1>1, <2>1, <2>4, ReturnOK DEF WaitYield
  <2> QED
    BY <2>2, <2>3, <2>4
<1> QED
  BY <1>1, <1>2, YieldSectionGood, DispatchKept

\* A process that has exited halts and changes no table.
LEMMA ExitHaltIInv ==
    ASSUME IInv, NEW c \in CPUs, NEW t \in Threads, ExitHalt(c, t)
    PROVE  IInv'
<1> USE DEF IInv, TypeOK, ExitHalt
<1>1. TableOK' /\ QueueingOK' /\ AllGood(sched') /\ CpuOK' /\ UNCHANGED <<current, irq, next>>
  BY DEF TableOK, table, QueueingOK, AllGood, CpuOK, queueing, cpu
<1>2. ThreadOK'
  BY DEF ThreadOK, Goto, PC
<1>3. \A q \in Pids : InTable(q) => InTable(q)'
  BY DEF InTable, table
<1> QED
  BY <1>1, <1>2, <1>3, DispatchKept

\* exit_process leaves the Zombie in the table and the run queues good.
LEMMA ExitMarkIInv ==
    ASSUME IInv, NEW c \in CPUs, NEW t \in Threads, ExitMark(c, t)
    PROVE  IInv'
<1> USE DEF IInv, TypeOK
<1>1. AllGood(sched')
  <2>1. CASE InTable(current_pid)
    <3>1. current_pid \in Pids
      BY <2>1 DEF InTable
    <3> QED
      BY <2>1, <3>1, DequeueAllGood DEF ExitMark
  <2>2. CASE ~InTable(current_pid)
    BY <2>2 DEF ExitMark
  <2> QED
    BY <2>1, <2>2
<1>2. TableOK'
  BY DEF ExitMark, TableOK, States
<1>3. QueueingOK' /\ CpuOK' /\ UNCHANGED <<current, irq, next>>
  BY <1>1 DEF ExitMark, QueueingOK, AllGood, CpuOK, cpu
<1>4. ThreadOK'
  BY DEF ExitMark, ThreadOK, Goto, PC
<1>5. \A q \in Pids : InTable(q) => InTable(q)'
  BY DEF ExitMark, InTable, TableOK
<1> QED
  BY <1>1, <1>2, <1>3, <1>4, <1>5, DispatchKept

\* wait, wake_one and wake_all change process states only.
LEMMA WaitQueueIInv ==
    ASSUME IInv, NEW c \in CPUs, NEW t \in Threads,
           \/ WaitPush(c, t) \/ WaitBlock(c, t)
           \/ WakeOne(c, t) \/ WakeAll(c, t) \/ WakeReady(c, t)
    PROVE  IInv'
<1> USE DEF IInv, TypeOK, WaitPush, WaitBlock, WakeOne, WakeAll, WakeReady
<1>1. AllGood(sched') /\ QueueingOK' /\ CpuOK' /\ UNCHANGED <<current, irq, next>>
  BY DEF QueueingOK, AllGood, CpuOK, cpu, queueing
<1>2. TableOK'
  BY DEF TableOK, table, SetStates, States
<1>3. ThreadOK'
  <2>1. {"wait_block", "wait_yield", "wake", "run"} \subseteq PC
    BY DEF PC
  <2>2. CASE WaitPush(c, t)
    BY <2>1, <2>2, AppendProperties DEF ThreadOK, CpuOK, Goto
  <2>3. CASE WaitBlock(c, t)
    BY <2>1, <2>3 DEF ThreadOK, Goto
  <2>4. CASE WakeOne(c, t)
    BY <2>1, <2>4, HeadTailProperties DEF ThreadOK, Goto
  <2>5. CASE WakeAll(c, t)
    <3>1. {waiters[k] : k \in 1..Len(waiters)} \subseteq Pids
      BY ElementOfSeq DEF ThreadOK
    <3> QED
      BY <2>1, <2>5, <3>1 DEF ThreadOK, Goto
  <2>6. CASE WakeReady(c, t)
    BY <2>1, <2>6, ReturnOK
  <2> QED
    BY <2>2, <2>3, <2>4, <2>5, <2>6
<1>4. \A q \in Pids : InTable(q) => InTable(q)'
  BY DEF InTable, SetStates, table
<1> QED
  BY <1>1, <1>2, <1>3, <1>4, DispatchKept
-----------------------------------------------------------------------------
\* Every step of the system preserves the invariant.
LEMMA NextIInv == IInv /\ [Next]_vars => IInv'
<1> SUFFICES ASSUME IInv, [Next]_vars PROVE IInv'
  OBVIOUS
<1>1. ASSUME NEW c \in CPUs, Tick(c) PROVE IInv'
  BY <1>1, ScheduleIInv, StoreIdleIInv, SwitchIInv DEF Tick
<1>2. ASSUME NEW c \in CPUs, Continue(c) PROVE IInv'
  BY <1>2, LaunchIInv, AddScanIInv, AddEnqueueIInv, SetClassIInv, YieldIInv, WaitQueueIInv
     DEF Continue
<1>3. ASSUME NEW c \in CPUs, Call(c) PROVE IInv'
  BY <1>3, SpawnIInv, YieldIInv, ExitMarkIInv, ExitHaltIInv, WaitQueueIInv DEF Call
<1>4. ASSUME NEW c \in CPUs, Reclass(c) PROVE IInv'
  BY <1>4, SetClassIInv, SetPriorityIInv DEF Reclass
<1>5. CASE UNCHANGED vars
  BY <1>5 DEF vars, table, queueing, cpu, thread, IInv, TypeOK, TableOK, QueueingOK, CpuOK,
     ThreadOK, AllGood, DispatchedPidsExist, SwitchesToProcess, InTable
<1> QED
  BY <1>1, <1>2, <1>3, <1>4, <1>5 DEF Next, NextSameClass

\* The invariant holds in every state the kernel reaches, on any number of CPUs.
THEOREM Invariance == Spec => []IInv
  BY InitIInv, NextIInv, PTL DEF Spec

\* TypeOK holds for any number of processes, CPUs and classes.
THEOREM TypeCorrect == Spec => []TypeOK
<1>1. IInv => TypeOK
  BY DEF IInv
<1> QED
  BY <1>1, Invariance, PTL

\* On every CPU the bitmap pick_next trusts agrees with the queues, and no queue
\* ever holds a pid twice.
THEOREM QueuesStaySound == Spec => []QueuesSound
<1>1. IInv => QueuesSound
  BY DEF IInv, AllGood, Good, QueuesSound, BitmapCoherent, QueuesHaveNoDuplicates
<1> QED
  BY <1>1, Invariance, PTL

\* The expect("Process not found") of switch_to_process never fails.
THEOREM SwitchFindsProcess == Spec => []DispatchedPidsExist
<1>1. IInv => DispatchedPidsExist
  BY DEF IInv
<1> QED
  BY <1>1, Invariance, PTL
-----------------------------------------------------------------------------
(* What pick_next chooses.                                                 *)

\* the step property of DispatchesMostUrgent
MostUrgent(c) ==
    \E i \in Priorities :
        /\ \/ Queued(sched[c], next'[c], i)
           \/ next'[c] = current[c] /\ priority[next'[c]] = i
        /\ i = Dream => system_idle
        /\ \A j \in Priorities : j < i => sched[c].queues[j] = <<>>

\* What is in a queue after schedule() re-added the current process was there
\* before, or is that process in its class.
LEMMA ReaddedQueues ==
    ASSUME IInv, NEW c \in CPUs, NEW i \in Priorities
    PROVE  /\ Readded(c).queues[i] = <<>> => sched[c].queues[i] = <<>>
           /\ \A p \in Pids : Queued(Readded(c), p, i) =>
                  \/ Queued(sched[c], p, i)
                  \/ p = current[c] /\ priority[p] = i
<1> DEFINE q == sched[c].queues[i]
<1>1. sched[c].queues \in [Priorities -> Seq(Pids)]
  BY DEF IInv, AllGood, Good, CpuSchedulers
<1>2. q \in Seq(Pids)
  BY <1>1
<1>3. CASE Readded(c) = sched[c]
  BY <1>3
<1>4. CASE Readded(c) # sched[c]
  <2> DEFINE p0 == current[c]
  <2>1. p0 \in Pids /\ Readded(c) = Enqueue(sched[c], p0, priority[p0])
    BY <1>4 DEF Readded, IInv, TypeOK, QueueingOK
  <2>2. Readded(c).queues[i] = IF i = priority[p0] THEN Push(q, p0) ELSE q
    BY <1>1, <2>1 DEF Enqueue
  <2> HIDE DEF q, p0
  <2>3. CASE i = priority[p0]
    <3>1. Push(q, p0) # <<>>
      BY <1>2, <2>1, PushProperties
    <3>2. ASSUME NEW p \in Pids, Contains(Push(q, p0), p) PROVE Contains(q, p) \/ p = p0
      <4>1. CASE Contains(q, p0)
        BY <3>2, <4>1 DEF Push
      <4>2. CASE ~Contains(q, p0)
        <5>1. PICK k \in 1..Len(Append(q, p0)) : Append(q, p0)[k] = p
          BY <3>2, <4>2 DEF Push, Contains
        <5>2. /\ Len(Append(q, p0)) = Len(q) + 1
              /\ \A m \in 1..Len(q) : Append(q, p0)[m] = q[m]
              /\ Append(q, p0)[Len(q) + 1] = p0
          BY <1>2, <2>1, AppendProperties
        <5>3. Len(q) \in Nat
          BY <1>2
        <5> QED
          BY <5>1, <5>2, <5>3 DEF Contains
      <4> QED
        BY <4>1, <4>2
    <3> QED
      BY <2>2, <2>3, <3>1, <3>2 DEF Queued, q, p0
  <2>4. CASE i # priority[p0]
    BY <2>2, <2>4 DEF Queued, q
  <2> QED
    BY <2>3, <2>4
<1> QED
  BY <1>3, <1>4

\* What schedule() dispatches comes from the most urgent class that waits.
LEMMA DispatchStep ==
    ASSUME IInv, NEW c \in CPUs, ScheduleDispatch(c)
    PROVE  MostUrgent(c)
<1> DEFINE s == Readded(c)
           h == HighestPriority(s)
<1>1. Good(s) /\ CanPick(s, system_idle)
  BY ReaddedGood DEF ScheduleDispatch
<1>2. s.bitmap \in SUBSET Priorities /\ s.queues \in [Priorities -> Seq(Pids)] /\ s.bitmap # {}
  BY <1>1 DEF Good, CpuSchedulers, CanPick
<1>3. h \in s.bitmap /\ \A j \in s.bitmap : h <= j
  BY <1>2, HighestIsBit
<1>4. next'[c] = Picked(s)
  BY DEF ScheduleDispatch, IInv, TypeOK, CpuOK
<1>5. s.queues[h] # <<>> /\ (h = Dream => system_idle)
  BY <1>1 DEF CanPick
<1>6. Picked(s) = Head(s.queues[h])
  BY DEF Picked
<1> HIDE DEF s, h
<1>7. h \in Priorities /\ s.queues[h] \in Seq(Pids)
  BY <1>2, <1>3
<1>8. Head(s.queues[h]) \in Pids /\ Queued(s, Head(s.queues[h]), h)
  <2>1. Len(s.queues[h]) \in Nat \ {0}
    BY <1>5, <1>7, EmptySeq
  <2>2. 1 \in 1..Len(s.queues[h]) /\ s.queues[h][1] = Head(s.queues[h])
    BY <1>7, <2>1
  <2> QED
    BY <1>5, <1>7, <2>2, HeadTailProperties DEF Queued, Contains
<1>9. \A j \in Priorities : j < h => sched[c].queues[j] = <<>>
  <2> SUFFICES ASSUME NEW j \in Priorities, j < h PROVE sched[c].queues[j] = <<>>
    OBVIOUS
  <2>1. j \in Nat /\ h \in Nat
    BY <1>7, PrioritiesAssumption DEF PrioritiesAssumption, NUM_PRIORITIES
  <2>2. j \notin s.bitmap
    BY <1>3, <2>1
  <2>3. s.queues[j] = <<>>
    BY <1>1, <2>2 DEF Good, Coherent
  <2> QED
    BY <2>3, ReaddedQueues DEF s
<1>10. \/ Queued(sched[c], Picked(s), h)
       \/ Picked(s) = current[c] /\ priority[Picked(s)] = h
  BY <1>6, <1>7, <1>8, ReaddedQueues DEF s
<1> QED
  BY <1>4, <1>5, <1>7, <1>9, <1>10 DEF MostUrgent

\* Only schedule() starts a switch, on its own CPU.
LEMMA OnlyScheduleDispatches ==
    ASSUME IInv, [Next]_vars, NEW c \in CPUs, Dispatches(c)
    PROVE  ScheduleDispatch(c)
<1> USE DEF Dispatches
<1>1. PICK d \in CPUs : Tick(d) \/ Continue(d) \/ Call(d) \/ Reclass(d)
  BY DEF vars, cpu, Next, NextSameClass
<1>2. Tick(d)
  <2>1. ~Continue(d)
    BY DEF Continue, LaunchSetCurrent, LaunchEnter, AddScan, AddEnqueue, SetPriorityUpdate,
       ExitYield, YieldSection, WaitBlock, WaitYield, WakeReady, cpu
  <2>2. ~Call(d)
    BY DEF Call, Spawn, YieldCpu, YieldSection, ExitMark, ExitHalt, WaitPush, WakeOne, WakeAll, cpu
  <2>3. ~Reclass(d)
    BY DEF Reclass, SetIntent, SetPriority, cpu
  <2> QED
    BY <1>1, <2>1, <2>2, <2>3
<1>3. Schedule(d)
  BY <1>2 DEF Tick, StoreIdle, SwitchToProcess, IInv, TypeOK, CpuOK
<1>4. d = c /\ ScheduleDispatch(c)
  BY <1>3 DEF Schedule, ScheduleKeep, ScheduleDispatch, ScheduleIdle, IInv, TypeOK, CpuOK
<1> QED
  BY <1>4

\* pick_next takes the most urgent waiting class, and a dream process only in
\* an idle system.
THEOREM MostUrgentFirst == Spec => DispatchesMostUrgent
<1>1. IInv /\ [Next]_vars =>
          [\A c \in CPUs : Dispatches(c) => MostUrgent(c)]_vars
  BY DispatchStep, OnlyScheduleDispatches
<1> QED
  BY <1>1, Invariance, PTL DEF Spec, DispatchesMostUrgent, MostUrgent
-----------------------------------------------------------------------------
(* One CPU.  SchedulerAgreesWithCpu, RunningIsCurrent and ContextsAreOwn   *)
(* are inductive together with what the CPU executes: CURRENT_PID when it  *)
(* is a process, and the boot thread only as long as no process but the    *)
(* one being launched exists.                                              *)

\* While the boot thread runs, the table holds what it is launching.
BootPhase ==
    running[0] = Boot =>
        /\ pc[Boot] \in {"run", "add_scan", "add_enqueue", "launch", "enter"}
        /\ waiters = <<>>
        /\ \A p \in Pids : InTable(p) <=> p \in arg[Boot]
        /\ \A p, q \in arg[Boot] : p = q
        /\ pc[Boot] = "run" => arg[Boot] = {}
        /\ IF pc[Boot] = "enter" THEN current_pid \in arg[Boot] ELSE current_pid = NoPid

CpuExecutes ==
    /\ running[0] \in Threads
    /\ running[0] \in Pids => current_pid = running[0]
    /\ irq[0] = "switch" => next[0] = current[0]
    /\ irq[0] # "switch" /\ current[0] # NoPid => current[0] = current_pid

UPInv == CpuExecutes /\ BootPhase /\ RunningIsCurrent /\ ContextsAreOwn

\* Steps that leave the CPU, the processes' states and the boot thread's
\* progress alone.
LEMMA UPKept ==
    ASSUME UPInv, UNCHANGED <<cpu, current, pc[Boot], arg[Boot]>>,
           running[0] = Boot => UNCHANGED <<waiters, state>>,
           \A p \in Pids : state'[p] = "Running" => state[p] = "Running"
    PROVE  UPInv'
  BY DEF UPInv, CpuExecutes, BootPhase, RunningIsCurrent, ContextsAreOwn, InTable, cpu

\* The state after boot satisfies the one-CPU invariant.
LEMMA InitUP == Init => UPInv
  BY CpusAssumption, PidsAssumption
     DEF Init, UPInv, CpuExecutes, BootPhase, RunningIsCurrent, ContextsAreOwn, InTable, Threads

\* On one CPU, schedule() keeps the CPU, CURRENT_PID and the scheduler in step.
LEMMA ScheduleUP ==
    ASSUME CPUs = {0}, IInv, UPInv, Schedule(0)
    PROVE  UPInv'
<1> USE DEF Schedule
<1>1. irq \in [CPUs -> {"none", "switch", "store_idle"}] /\ next \in [CPUs -> Pids \cup {NoPid}]
      /\ current \in [CPUs -> Pids \cup {NoPid}]
  BY DEF IInv, TypeOK, CpuOK, QueueingOK
<1>2. UNCHANGED <<running, current_pid, saved, state, waiters, pc, arg>>
  BY DEF ScheduleKeep, ScheduleDispatch, ScheduleIdle, table, thread
<1>3. CpuExecutes'
  BY <1>1, <1>2 DEF ScheduleKeep, ScheduleDispatch, ScheduleIdle, UPInv, CpuExecutes
<1>4. BootPhase' /\ RunningIsCurrent' /\ ContextsAreOwn'
  BY <1>2 DEF UPInv, BootPhase, RunningIsCurrent, ContextsAreOwn, InTable
<1> QED
  BY <1>3, <1>4 DEF UPInv

\* The heart of the argument: when a switch saves registers, CURRENT_PID is
\* the process the CPU executes; the boot thread is never saved, because the
\* only process that can be dispatched over it is the one it is launching.
LEMMA SwitchUP ==
    ASSUME CPUs = {0}, IInv, UPInv, SwitchToProcess(0)
    PROVE  UPInv'
<1> DEFINE new == next[0]
           old == current_pid
<1>1. /\ irq[0] = "switch" /\ irq'[0] = "none"
      /\ new \in Pids /\ InTable(new) /\ current[0] = new /\ current' = current
      /\ UNCHANGED waiters
  BY DEF SwitchToProcess, IInv, SwitchesToProcess, DispatchedPidsExist, UPInv, CpuExecutes,
     queueing, TypeOK, CpuOK
<1>2. CASE old = new
  <2>1. UNCHANGED <<state, saved, running, current_pid>>
    BY <1>2 DEF SwitchToProcess
  <2>2. old # NoPid
    BY <1>1, <1>2, PidsAssumption
  <2>3. UNCHANGED <<pc, arg>>
    BY <2>2 DEF SwitchToProcess, thread
  <2>4. CpuExecutes'
    BY <1>1, <1>2, <2>1 DEF UPInv, CpuExecutes
  <2> QED
    BY <1>1, <2>1, <2>3, <2>4 DEF UPInv, BootPhase, RunningIsCurrent, ContextsAreOwn, InTable
<1>3. CASE old # new
  <2>1. /\ state' = [p \in Pids |-> IF p = new THEN "Running"
                                    ELSE IF p = old /\ InTable(p) THEN "Ready"
                                    ELSE state[p]]
        /\ saved' = [p \in Pids |-> IF p = old /\ InTable(p) THEN running[0] ELSE saved[p]]
        /\ running' = [running EXCEPT ![0] = saved[new]]
        /\ current_pid' = new
    BY <1>3 DEF SwitchToProcess
  <2>2. saved[new] = new
    BY <1>1 DEF UPInv, ContextsAreOwn
  <2>3. running'[0] = new
    BY <2>1, <2>2 DEF IInv, TypeOK, CpuOK
  <2>4. old \in Pids => running[0] = old
    <3> SUFFICES ASSUME old \in Pids, running[0] = Boot PROVE FALSE
      BY DEF UPInv, CpuExecutes, Threads
    <3>1. old # NoPid
      BY PidsAssumption
    <3>2. new \in arg[Boot] /\ old \in arg[Boot]
      BY <1>1, <3>1 DEF UPInv, BootPhase
    <3> QED
      BY <1>3, <3>2 DEF UPInv, BootPhase
  <2>5. ContextsAreOwn'
    BY <2>1, <2>4 DEF UPInv, ContextsAreOwn
  <2>6. RunningIsCurrent'
    BY <2>1 DEF UPInv, RunningIsCurrent, InTable
  <2>7. CpuExecutes'
    BY <1>1, <2>1, <2>3 DEF CpuExecutes, Threads
  <2>8. BootPhase'
    BY <1>1, <2>3, PidsAssumption DEF BootPhase
  <2> QED
    BY <2>5, <2>6, <2>7, <2>8 DEF UPInv
<1> QED
  BY <1>2, <1>3

\* On one CPU, a tick keeps them in step.
LEMMA TickUP ==
    ASSUME CPUs = {0}, IInv, UPInv, Tick(0)
    PROVE  UPInv'
<1>1. CASE StoreIdle(0)
  BY <1>1 DEF StoreIdle, UPInv, CpuExecutes, BootPhase, RunningIsCurrent, ContextsAreOwn, InTable,
     table, thread, IInv, TypeOK, CpuOK
<1> QED
  BY <1>1, ScheduleUP, SwitchUP DEF Tick

\* The boot thread: it spawns one process and launches it.
LEMMA BootUP ==
    ASSUME CPUs = {0}, IInv, UPInv, running[0] = Boot, irq[0] = "none",
           \/ \E p \in Pids : Spawn(0, Boot, p)
           \/ AddScan(0, Boot) \/ AddEnqueue(0, Boot)
           \/ LaunchSetCurrent(0) \/ LaunchEnter(0)
    PROVE  UPInv'
<1>1. /\ pc \in [Threads -> PC] /\ arg \in [Threads -> SUBSET Pids] /\ Boot \in Threads
      /\ state \in [Pids -> States] /\ running \in [CPUs -> Threads \cup {Idle}]
  BY DEF IInv, TypeOK, ThreadOK, TableOK, CpuOK, Threads
<1>2. /\ waiters = <<>> /\ \A p \in Pids : InTable(p) <=> p \in arg[Boot]
      /\ \A p, q \in arg[Boot] : p = q
      /\ pc[Boot] = "run" => arg[Boot] = {}
      /\ IF pc[Boot] = "enter" THEN current_pid \in arg[Boot] ELSE current_pid = NoPid
      /\ pc[Boot] \in {"run", "add_scan", "add_enqueue", "launch", "enter"}
  BY DEF UPInv, BootPhase
<1>3. CASE \E p \in Pids : Spawn(0, Boot, p)
  <2>1. PICK p \in Pids : Spawn(0, Boot, p)
    BY <1>3
  <2>2. /\ state' = [state EXCEPT ![p] = "Ready"]
        /\ pc'[Boot] = "add_scan" /\ arg'[Boot] = {p} /\ pc[Boot] = "run"
        /\ UNCHANGED <<queueing, cpu, waiters>>
    BY <1>1, <2>1 DEF Spawn, Goto, Executes
  <2>3. BootPhase'
    BY <1>1, <1>2, <2>2 DEF BootPhase, InTable, cpu
  <2>4. CpuExecutes' /\ RunningIsCurrent' /\ ContextsAreOwn'
    BY <1>1, <2>2 DEF UPInv, CpuExecutes, RunningIsCurrent, ContextsAreOwn, cpu, queueing
  <2> QED
    BY <2>3, <2>4 DEF UPInv
<1>4. CASE AddScan(0, Boot) \/ AddEnqueue(0, Boot)
  <2>1. /\ pc'[Boot] \in {"add_enqueue", "launch"} /\ pc[Boot] \in {"add_scan", "add_enqueue"}
        /\ UNCHANGED <<arg, cpu, waiters, table, current>>
    BY <1>1, <1>4 DEF AddScan, AddEnqueue, Goto, Executes, queueing
  <2>2. BootPhase'
    BY <1>2, <2>1 DEF BootPhase, InTable, cpu, table
  <2>3. CpuExecutes' /\ RunningIsCurrent' /\ ContextsAreOwn'
    BY <2>1 DEF UPInv, CpuExecutes, RunningIsCurrent, ContextsAreOwn, cpu, table
  <2> QED
    BY <2>2, <2>3 DEF UPInv
<1>5. CASE LaunchSetCurrent(0)
  <2>1. /\ pc'[Boot] = "enter" /\ pc[Boot] = "launch" /\ current_pid' \in arg[Boot]
        /\ UNCHANGED <<arg, running, saved, irq, next, waiters, table, current>>
    BY <1>1, <1>5 DEF LaunchSetCurrent, Goto, Executes, queueing
  <2>2. BootPhase'
    BY <1>2, <2>1 DEF BootPhase, InTable, table
  <2>3. current[0] = NoPid \/ irq[0] = "switch"
    BY <1>2, <2>1 DEF UPInv, CpuExecutes
  <2>4. RunningIsCurrent' /\ ContextsAreOwn'
    <3>1. \A p \in Pids : state[p] # "Running"
      BY <1>2, <2>1, PidsAssumption DEF UPInv, RunningIsCurrent
    <3> QED
      BY <2>1, <3>1 DEF UPInv, RunningIsCurrent, ContextsAreOwn, table
  <2>5. CpuExecutes'
    BY <2>1, <2>3, PidsAssumption DEF UPInv, CpuExecutes
  <2> QED
    BY <2>2, <2>4, <2>5 DEF UPInv
<1>6. CASE LaunchEnter(0)
  <2>1. /\ pc[Boot] = "enter"
        /\ \E p \in arg[Boot] : running' = [running EXCEPT ![0] = p]
        /\ UNCHANGED <<table, queueing, current_pid, saved, irq, next, waiters>>
    BY <1>6 DEF LaunchEnter, Executes
  <2>2. running'[0] = current_pid /\ current_pid \in Pids
    BY <1>1, <1>2, <2>1
  <2>3. BootPhase'
    BY <2>2, PidsAssumption DEF BootPhase
  <2>4. CpuExecutes' /\ RunningIsCurrent' /\ ContextsAreOwn'
    BY <2>1, <2>2 DEF UPInv, CpuExecutes, RunningIsCurrent, ContextsAreOwn, table, queueing, Threads
  <2> QED
    BY <2>3, <2>4 DEF UPInv
<1> QED
  BY <1>3, <1>4, <1>5, <1>6

\* A process's calls change neither what the CPU executes nor the boot
\* thread, and mark no process Running.
LEMMA ProcessUP ==
    ASSUME CPUs = {0}, IInv, UPInv, NEW t \in Pids, running[0] = t,
           \/ \E p \in Pids : Spawn(0, t, p)
           \/ AddScan(0, t) \/ AddEnqueue(0, t) \/ SetPriorityUpdate(0, t)
           \/ YieldCpu(0, t) \/ ExitMark(0, t) \/ ExitYield(0, t) \/ ExitHalt(0, t)
           \/ WaitPush(0, t) \/ WaitBlock(0, t) \/ WaitYield(0, t)
           \/ WakeOne(0, t) \/ WakeAll(0, t) \/ WakeReady(0, t)
           \/ \E p \in Pids : SetIntent(0, t, p)
           \/ \E p \in Pids, i \in Priorities : SetPriority(0, t, p, i)
    PROVE  UPInv'
<1>1. t # Boot /\ running[0] # Boot
  BY PidsAssumption
<1>2. pc \in [Threads -> PC] /\ arg \in [Threads -> SUBSET Pids] /\ state \in [Pids -> States]
      /\ Boot \in Threads
  BY DEF IInv, TypeOK, ThreadOK, TableOK, Threads
<1>3. UNCHANGED <<cpu, current>>
  BY <1>1 DEF Spawn, AddScan, AddEnqueue, SetPriorityUpdate, YieldCpu, YieldSection, ExitMark, ExitYield, ExitHalt,
     WaitPush, WaitBlock, WaitYield, WakeOne, WakeAll, WakeReady, SetIntent, SetPriority, queueing
<1>4. UNCHANGED <<pc[Boot], arg[Boot]>>
  BY <1>1, <1>2 DEF Spawn, AddScan, AddEnqueue, SetPriorityUpdate, YieldCpu, ExitMark, ExitYield, ExitHalt,
     WaitPush, WaitBlock, WaitYield, WakeOne, WakeAll, WakeReady, SetIntent, SetPriority,
     Goto, Return, thread
<1>5. \A p \in Pids : state'[p] = "Running" => state[p] = "Running"
  BY <1>2 DEF Spawn, AddScan, AddEnqueue, SetPriorityUpdate, YieldCpu, YieldSection, ExitMark, ExitYield, ExitHalt,
     WaitPush, WaitBlock, WaitYield, WakeOne, WakeAll, WakeReady, SetIntent, SetPriority,
     SetStates, table
<1> QED
  BY <1>1, <1>3, <1>4, <1>5, UPKept

\* On one CPU, every step keeps them in step.
LEMMA NextUP == CPUs = {0} /\ IInv /\ UPInv /\ [Next]_vars => UPInv'
<1> SUFFICES ASSUME CPUs = {0}, IInv, UPInv, [Next]_vars PROVE UPInv'
  OBVIOUS
<1>1. CASE UNCHANGED vars
  BY <1>1 DEF vars, table, queueing, cpu, thread, UPInv, CpuExecutes, BootPhase, RunningIsCurrent,
     ContextsAreOwn, InTable
<1>2. CASE Tick(0)
  BY <1>2, TickUP
<1>3. CASE (Continue(0) \/ Call(0) \/ Reclass(0)) /\ running[0] # Boot
  <2>1. ~LaunchSetCurrent(0) /\ ~LaunchEnter(0)
    BY <1>3 DEF LaunchSetCurrent, LaunchEnter, Executes
  <2>2. running[0] \in Pids
    BY <1>3 DEF UPInv, CpuExecutes, Threads
  <2>3. ASSUME NEW t \in Threads, NEW p \in Pids, NEW i \in Priorities
        PROVE  /\ Spawn(0, t, p) \/ SetIntent(0, t, p) \/ SetPriority(0, t, p, i) => t = running[0]
               /\ AddScan(0, t) \/ AddEnqueue(0, t) \/ SetPriorityUpdate(0, t) => t = running[0]
               /\ YieldCpu(0, t) \/ ExitMark(0, t) \/ ExitYield(0, t) \/ ExitHalt(0, t) => t = running[0]
               /\ WaitPush(0, t) \/ WaitBlock(0, t) \/ WaitYield(0, t) => t = running[0]
               /\ WakeOne(0, t) \/ WakeAll(0, t) \/ WakeReady(0, t) => t = running[0]
    BY DEF Spawn, AddScan, AddEnqueue, SetPriorityUpdate, YieldCpu, ExitMark, ExitYield, ExitHalt, WaitPush,
       WaitBlock, WaitYield, WakeOne, WakeAll, WakeReady, SetIntent, SetPriority, Executes
  <2>4. CASE Continue(0)
    BY <2>1, <2>2, <2>3, <2>4, ClassesAssumption, ProcessUP DEF Continue
  <2>5. CASE Call(0)
    BY <2>2, <2>3, <2>5, ClassesAssumption, ProcessUP DEF Call
  <2>6. CASE Reclass(0)
    BY <2>2, <2>3, <2>6, ClassesAssumption, ProcessUP DEF Reclass
  <2> QED
    BY <1>3, <2>4, <2>5, <2>6
<1>4. CASE (Continue(0) \/ Call(0) \/ Reclass(0)) /\ running[0] = Boot
  <2>1. /\ pc[Boot] \in {"run", "add_scan", "add_enqueue", "launch", "enter"} /\ waiters = <<>>
        /\ pc[Boot] = "run" => current_pid = NoPid
    BY <1>4 DEF UPInv, BootPhase
  <2>2. ~Reclass(0)
    BY <1>4 DEF Reclass, SetIntent, SetPriority, Executes
  <2>3. CASE Continue(0)
    <3>1. \/ LaunchSetCurrent(0) \/ LaunchEnter(0) \/ AddScan(0, Boot) \/ AddEnqueue(0, Boot)
      <4>1. \A t \in Threads : /\ ~SetPriorityUpdate(0, t) /\ ~ExitYield(0, t)
                               /\ ~WaitBlock(0, t) /\ ~WaitYield(0, t) /\ ~WakeReady(0, t)
        BY <1>4, <2>1 DEF SetPriorityUpdate, ExitYield, WaitBlock, WaitYield, WakeReady, Executes
      <4>2. \A t \in Threads : AddScan(0, t) \/ AddEnqueue(0, t) => t = Boot
        BY <1>4 DEF AddScan, AddEnqueue, Executes
      <4> QED
        BY <2>3, <4>1, <4>2 DEF Continue
    <3>2. irq[0] = "none"
      BY <3>1 DEF LaunchSetCurrent, LaunchEnter, AddScan, AddEnqueue, Executes
    <3> QED
      BY <1>4, <3>1, <3>2, BootUP
  <2>4. CASE Call(0)
    <3>1. \/ \E p \in Pids : Spawn(0, Boot, p)
          \/ YieldCpu(0, Boot)
      <4>1. \A t \in Threads : ~ExitMark(0, t) /\ ~ExitHalt(0, t) /\ ~WaitPush(0, t) /\ ~WakeOne(0, t) /\ ~WakeAll(0, t)
        BY <1>4, <2>1 DEF ExitMark, ExitHalt, WaitPush, WakeOne, WakeAll, Executes
      <4>2. \A t \in Threads : YieldCpu(0, t) => t = Boot
        BY <1>4 DEF YieldCpu, Executes
      <4>3. \A t \in Threads, p \in Pids : Spawn(0, t, p) => t = Boot
        BY <1>4 DEF Spawn, Executes
      <4> QED
        BY <2>4, <4>1, <4>2, <4>3 DEF Call
    <3>2. CASE YieldCpu(0, Boot)
      <4>1. UNCHANGED <<cpu, current, waiters, table, thread>>
        BY <3>2 DEF YieldCpu, YieldSection
      <4> QED
        BY <4>1, UPKept DEF thread, table
    <3>3. CASE \E p \in Pids : Spawn(0, Boot, p)
      <4>1. irq[0] = "none"
        BY <3>3 DEF Spawn, Executes
      <4> QED
        BY <1>4, <3>3, <4>1, BootUP
    <3> QED
      BY <3>1, <3>2, <3>3
  <2> QED
    BY <1>4, <2>2, <2>3, <2>4
<1> QED
  BY <1>1, <1>2, <1>3, <1>4 DEF Next, NextSameClass

\* On one CPU the scheduler's `current`, CURRENT_PID and the state Running
\* agree, and no process ever receives another's registers.
THEOREM UPCorrect == CPUs = {0} => (Spec => []CurrentIsConsistent)
<1> SUFFICES ASSUME CPUs = {0}
             PROVE  Spec => []CurrentIsConsistent
  OBVIOUS
<1>1. UPInv => CurrentIsConsistent
  BY DEF UPInv, CpuExecutes, CurrentIsConsistent, SchedulerAgreesWithCpu
<1>2. Init => UPInv
  BY InitUP
<1>3. IInv /\ UPInv /\ [Next]_vars => UPInv'
  BY NextUP
<1> QED
  BY <1>1, <1>2, <1>3, Invariance, PTL DEF Spec
=============================================================================
