------------------------------ MODULE RunQueue ------------------------------
(***************************************************************************)
(* process/scheduler.rs, PriorityQueue and CpuScheduler: one CPU's run     *)
(* queue as a value, a FIFO of pids per priority class and the bitmap of   *)
(* classes that pick_next scans.  A CpuScheduler here is the record of its *)
(* queues and active_bitmap (the set of the bits that are up); `active`,   *)
(* which nothing reads, and the statistics are left out.                   *)
(***************************************************************************)
EXTENDS Naturals, Sequences, FiniteSets

CONSTANTS
    Pids,        \* process identifiers
    Priorities,  \* the PriorityClass values in use, 0 the most urgent
    Dream        \* PriorityClass::Dream, run only when the system is idle

NUM_PRIORITIES == 5

ASSUME PrioritiesAssumption ==
    Priorities \subseteq 0..(NUM_PRIORITIES - 1) /\ Dream \in Nat

CpuSchedulers == [queues : [Priorities -> Seq(Pids)], bitmap : SUBSET Priorities]

NewCpuScheduler ==
    [queues |-> [i \in Priorities |-> <<>>], bitmap |-> {}]
-----------------------------------------------------------------------------
Contains(q, p) == \E k \in 1..Len(q) : q[k] = p

\* a push that does not look for the pid first
PushAlways(q, p) == Append(q, p)

\* a push at the end that pop takes from
PushFront(q, p) == IF Contains(q, p) THEN q ELSE <<p>> \o q

\* PriorityQueue::push
Push(q, p) == IF Contains(q, p) THEN q ELSE Append(q, p)

\* PriorityQueue::remove: retain(|&p| p != pid).  Push admits a pid once
\* (NoDuplicates below), so retain drops the one position that holds it.
Retain(q, p) ==
    IF Contains(q, p)
      THEN LET at == CHOOSE k \in 1..Len(q) : q[k] = p
           IN  [k \in 1..(Len(q) - 1) |-> IF k < at THEN q[k] ELSE q[k + 1]]
      ELSE q

\* CpuScheduler::enqueue
Enqueue(s, p, i) ==
    [queues |-> [s.queues EXCEPT ![i] = Push(@, p)],
     bitmap |-> s.bitmap \cup {i}]

\* a dequeue that leaves the bits of the queues it empties
DequeueKeepBits(s, p) ==
    [queues |-> [i \in Priorities |-> Retain(s.queues[i], p)], bitmap |-> s.bitmap]

\* CpuScheduler::dequeue: from every queue, clearing the bits of empty ones
Dequeue(s, p) ==
    LET left == [i \in Priorities |-> Retain(s.queues[i], p)]
    IN  [queues |-> left, bitmap |-> {i \in s.bitmap : left[i] # <<>>}]

\* active_bitmap.trailing_zeros()
HighestPriority(s) == CHOOSE i \in s.bitmap : \A j \in s.bitmap : i <= j

\* pick_next without the dream-mode test
CanPickAnyClass(s, idle) ==
    s.bitmap # {} /\ s.queues[HighestPriority(s)] # <<>>

\* CpuScheduler::pick_next returns Some
CanPick(s, idle) ==
    /\ s.bitmap # {}
    /\ HighestPriority(s) = Dream => idle
    /\ s.queues[HighestPriority(s)] # <<>>

\* ... the pid it returns
Picked(s) == Head(s.queues[HighestPriority(s)])

\* ... and what it leaves behind
AfterPick(s) ==
    LET h == HighestPriority(s)
        rest == Tail(s.queues[h])
    IN  [queues |-> [s.queues EXCEPT ![h] = rest],
         bitmap |-> IF rest = <<>> THEN s.bitmap \ {h} ELSE s.bitmap]

\* the sum of the queues' lengths: of all (class, position) pairs in use
TotalLoad(s) ==
    Cardinality(UNION {{i} \X (1..Len(s.queues[i])) : i \in Priorities})
-----------------------------------------------------------------------------
Queued(s, p, i) == Contains(s.queues[i], p)

\* A bit is up exactly when its queue holds a process: a stale bit makes
\* pick_next give up although lower classes wait, a missing one hides a class.
Coherent(s) == \A i \in Priorities : i \in s.bitmap <=> s.queues[i] # <<>>

\* Push's membership test: no pid twice in one queue.
NoDuplicates(s) ==
    \A i \in Priorities : \A j, k \in 1..Len(s.queues[i]) :
        s.queues[i][j] = s.queues[i][k] => j = k
=============================================================================
