---------------------------- MODULE RwLockProofs ----------------------------
(***************************************************************************)
(* For every finite set of threads: the counters of RwLock<T> agree with   *)
(* the threads' positions, guards exclude each other, and the two atomics  *)
(* implement AbstractRwLock.                                               *)
(***************************************************************************)
EXTENDS RwLock, FiniteSetTheorems, TLAPS

Counted == At({"read_check", "read_back", "reading"})
Claimed == At({"write_drain", "writing"})

\* The inductive invariant.  Exclusion alone is not inductive: that a writer
\* finding readers = 0 is alone needs the count, and that a reader finding the
\* flag down is safe needs the flag.
IInv == TypeOK /\ CountersMatchThreads /\ Exclusion

\* Finitely many threads are counted in readers.
LEMMA CountedFinite == IsFiniteSet(Counted)
  BY ThreadsAssumption, FS_Subset DEF Counted, At

\* A new RwLock satisfies the invariant.
LEMMA InitIInv == Init => IInv
<1> SUFFICES ASSUME Init PROVE IInv
  OBVIOUS
<1>1. TypeOK /\ Exclusion
  BY DEF Init, TypeOK, Exclusion, PC
<1>2. Counted = {} /\ Claimed = {}
  BY DEF Init, Counted, Claimed, At
<1>3. CountersMatchThreads
  BY <1>2, FS_EmptySet DEF Init, CountersMatchThreads, Counted, Claimed
<1> QED BY <1>1, <1>3 DEF IInv

\* A thread entering the counted region adds one, a thread leaving it takes
\* one away, and any other move leaves the count alone.
LEMMA CountStep ==
  ASSUME TypeOK, NEW t \in Threads, NEW to \in PC, pc' = [pc EXCEPT ![t] = to]
  PROVE  LET C == {"read_check", "read_back", "reading"}
         IN  /\ pc[t] \notin C /\ to \in C
                  => Cardinality(Counted') = Cardinality(Counted) + 1
             /\ pc[t] \in C /\ to \notin C
                  => Cardinality(Counted') = Cardinality(Counted) - 1
             /\ (pc[t] \in C) = (to \in C) => Counted' = Counted
<1> DEFINE C == {"read_check", "read_back", "reading"}
<1>1. ASSUME pc[t] \notin C, to \in C
      PROVE  Cardinality(Counted') = Cardinality(Counted) + 1
  <2>1. Counted' = Counted \cup {t} /\ t \notin Counted
    BY <1>1 DEF Counted, At, TypeOK
  <2> QED BY <2>1, CountedFinite, FS_AddElement
<1>2. ASSUME pc[t] \in C, to \notin C
      PROVE  Cardinality(Counted') = Cardinality(Counted) - 1
  <2>1. Counted' = Counted \ {t} /\ t \in Counted
    BY <1>2 DEF Counted, At, TypeOK
  <2> QED BY <2>1, CountedFinite, FS_RemoveElement
<1>3. ASSUME (pc[t] \in C) = (to \in C) PROVE Counted' = Counted
  BY <1>3 DEF Counted, At, TypeOK
<1> QED BY <1>1, <1>2, <1>3

\* Every atomic access of read, write and the guard drops keeps the invariant.
LEMMA NextIInv == IInv /\ [Next]_vars => IInv'
<1> SUFFICES ASSUME IInv, [Next]_vars PROVE IInv'
  OBVIOUS
<1> USE DEF IInv
<1>0. Cardinality(Counted) \in Nat /\ readers = Cardinality(Counted)
  BY CountedFinite, FS_CardinalityType DEF CountersMatchThreads, Counted
<1>m. readers = 0 => Counted = {}
  BY <1>0, CountedFinite, FS_EmptySet
<1>p. ASSUME NEW t \in Counted PROVE readers > 0
  BY <1>0, <1>m, <1>p
<1>1. CASE UNCHANGED vars
  BY <1>1 DEF vars, TypeOK, CountersMatchThreads, Exclusion, At
<1>2. ASSUME NEW t \in Threads, Read(t) \/ ReadWait(t) \/ Write(t)
      PROVE  IInv'
  <2>1. PICK to \in {"read_wait", "read_inc", "write_cas"} :
            /\ pc' = [pc EXCEPT ![t] = to]
            /\ pc[t] \in {"idle", "read_wait"}
    BY <1>2 DEF Read, ReadWait, Write, Goto
  <2>2. UNCHANGED <<readers, writer>>
    BY <1>2 DEF Read, ReadWait, Write
  <2>3. TypeOK'
    BY <2>1, <2>2 DEF TypeOK, PC
  <2>4. Counted' = Counted
    BY <2>1 DEF Counted, At, TypeOK
  <2>5. Claimed' = Claimed
    BY <2>1 DEF Claimed, At, TypeOK
  <2>6. CountersMatchThreads'
    BY <2>2, <2>4, <2>5 DEF CountersMatchThreads, Counted, Claimed
  <2>7. Exclusion'
    BY <2>1 DEF Exclusion, TypeOK
  <2> QED BY <2>3, <2>6, <2>7
<1>3. ASSUME NEW t \in Threads, ReadInc(t) PROVE IInv'
  <2>1. pc[t] = "read_inc" /\ pc' = [pc EXCEPT ![t] = "read_check"]
    BY <1>3 DEF ReadInc, Goto
  <2>2. readers' = readers + 1 /\ writer' = writer
    BY <1>3 DEF ReadInc
  <2>3. TypeOK'
    BY <2>1, <2>2 DEF TypeOK, PC
  <2>4. Cardinality(Counted') = Cardinality(Counted) + 1
    BY <2>1, CountStep DEF PC
  <2>5. Claimed' = Claimed
    BY <2>1 DEF Claimed, At, TypeOK
  <2>6. CountersMatchThreads'
    BY <1>0, <2>2, <2>4, <2>5 DEF CountersMatchThreads, Counted, Claimed
  <2>7. Exclusion'
    BY <2>1 DEF Exclusion, TypeOK
  <2> QED BY <2>3, <2>6, <2>7
<1>4. ASSUME NEW t \in Threads, ReadCheck(t) PROVE IInv'
  <2>1. /\ pc[t] = "read_check"
        /\ \/ writer /\ pc' = [pc EXCEPT ![t] = "read_back"]
           \/ ~writer /\ pc' = [pc EXCEPT ![t] = "reading"]
    BY <1>4 DEF ReadCheck, Goto
  <2>2. readers' = readers /\ writer' = writer
    BY <1>4 DEF ReadCheck
  <2>3. TypeOK'
    BY <2>1, <2>2 DEF TypeOK, PC
  <2>4. Counted' = Counted
    BY <2>1 DEF Counted, At, TypeOK
  <2>5. Claimed' = Claimed
    BY <2>1 DEF Claimed, At, TypeOK
  <2>6. CountersMatchThreads'
    BY <2>2, <2>4, <2>5 DEF CountersMatchThreads, Counted, Claimed
  <2>7. ~writer => \A u \in Threads : pc[u] # "writing"
    BY DEF CountersMatchThreads, At
  <2>8. Exclusion'
    BY <2>1, <2>7 DEF Exclusion, TypeOK
  <2> QED BY <2>3, <2>6, <2>8
<1>5. ASSUME NEW t \in Threads, ReadBackOff(t) \/ DropReadGuard(t) PROVE IInv'
  <2>1. PICK to \in {"read_wait", "idle"} :
            /\ pc' = [pc EXCEPT ![t] = to]
            /\ pc[t] \in {"read_back", "reading"}
    BY <1>5 DEF ReadBackOff, DropReadGuard, Goto
  <2>2. readers' = readers - 1 /\ writer' = writer
    BY <1>5 DEF ReadBackOff, DropReadGuard
  <2>3. readers > 0
    BY <2>1, <1>p DEF Counted, At
  <2>4. TypeOK'
    BY <2>1, <2>2, <2>3 DEF TypeOK, PC
  <2>5. Cardinality(Counted') = Cardinality(Counted) - 1
    BY <2>1, CountStep DEF PC
  <2>6. Claimed' = Claimed
    BY <2>1 DEF Claimed, At, TypeOK
  <2>7. CountersMatchThreads'
    BY <1>0, <2>2, <2>5, <2>6 DEF CountersMatchThreads, Counted, Claimed
  <2>8. Exclusion'
    BY <2>1 DEF Exclusion, TypeOK
  <2> QED BY <2>4, <2>7, <2>8
<1>6. ASSUME NEW t \in Threads, WriteCas(t) PROVE IInv'
  <2>1. pc[t] = "write_cas" /\ pc' = [pc EXCEPT ![t] = "write_drain"]
    BY <1>6 DEF WriteCas, Goto
  <2>2. ~writer /\ readers' = readers /\ writer' = TRUE
    BY <1>6 DEF WriteCas
  <2>3. TypeOK'
    BY <2>1, <2>2 DEF TypeOK, PC
  <2>4. Counted' = Counted
    BY <2>1 DEF Counted, At, TypeOK
  <2>5. Claimed = {}
    BY <2>2 DEF CountersMatchThreads, Claimed
  <2>6. Claimed' = {t}
    BY <2>1, <2>5 DEF Claimed, At, TypeOK
  <2>7. CountersMatchThreads'
    BY <2>2, <2>4, <2>6 DEF CountersMatchThreads, Counted, Claimed
  <2>8. Exclusion'
    BY <2>1 DEF Exclusion, TypeOK
  <2> QED BY <2>3, <2>7, <2>8
<1>7. ASSUME NEW t \in Threads, WriteDrain(t) PROVE IInv'
  <2>1. pc[t] = "write_drain" /\ pc' = [pc EXCEPT ![t] = "writing"]
    BY <1>7 DEF WriteDrain, Goto
  <2>2. readers = 0 /\ readers' = readers /\ writer' = writer
    BY <1>7 DEF WriteDrain
  <2>3. TypeOK'
    BY <2>1, <2>2 DEF TypeOK, PC
  <2>4. Counted' = Counted
    BY <2>1 DEF Counted, At, TypeOK
  <2>5. Claimed' = Claimed
    BY <2>1 DEF Claimed, At, TypeOK
  <2>6. CountersMatchThreads'
    BY <2>2, <2>4, <2>5 DEF CountersMatchThreads, Counted, Claimed
  <2>7. \A u \in Threads : pc[u] # "reading"
    BY <2>2, <1>m DEF Counted, At
  <2>8. \A u \in Threads : u # t => pc[u] # "writing"
    BY <2>1 DEF CountersMatchThreads, At
  <2>9. Exclusion'
    BY <2>1, <2>7, <2>8 DEF Exclusion, TypeOK
  <2> QED BY <2>3, <2>6, <2>9
<1>8. ASSUME NEW t \in Threads, DropWriteGuard(t) PROVE IInv'
  <2>1. pc[t] = "writing" /\ pc' = [pc EXCEPT ![t] = "idle"]
    BY <1>8 DEF DropWriteGuard, Goto
  <2>2. readers' = readers /\ writer' = FALSE
    BY <1>8 DEF DropWriteGuard
  <2>3. TypeOK'
    BY <2>1, <2>2 DEF TypeOK, PC
  <2>4. Counted' = Counted
    BY <2>1 DEF Counted, At, TypeOK
  <2>5. Claimed = {t}
    BY <2>1 DEF CountersMatchThreads, Claimed, At
  <2>6. Claimed' = {}
    BY <2>1, <2>5 DEF Claimed, At, TypeOK
  <2>7. CountersMatchThreads'
    BY <2>2, <2>4, <2>6 DEF CountersMatchThreads, Counted, Claimed
  <2>8. Exclusion'
    BY <2>1 DEF Exclusion, TypeOK
  <2> QED BY <2>3, <2>7, <2>8
<1> QED
  BY <1>1, <1>2, <1>3, <1>4, <1>5, <1>6, <1>7, <1>8 DEF Next, Step

\* The inductive invariant holds in every reachable state.
THEOREM Invariance == Spec => []IInv
  BY InitIInv, NextIInv, PTL DEF Spec

\* Type correctness of the lock's atomics and the threads' positions.
THEOREM TypeCorrect == Spec => []TypeOK
  BY Invariance, PTL DEF IInv

\* Whoever holds a write guard is alone, and the counters of RwLock<T> never drift
\* from the guards they count, for any finite number of threads.
THEOREM LockStaysSound == Spec => []LockSound
  BY Invariance, PTL DEF IInv, LockSound
-----------------------------------------------------------------------------
Reading == At({"reading"})
Writing == At({"writing"})

\* A new RwLock maps to an abstract lock nobody holds.
LEMMA InitRefines == Init => Abstract!Init
  BY DEF Init, Abstract!Init, At

\* Every access maps to taking or releasing the abstract lock, or to no step.
LEMMA NextRefines ==
  IInv /\ [Next]_vars => [Abstract!Next]_<<Reading, Writing>>
<1> SUFFICES ASSUME IInv, [Next]_vars
             PROVE  [Abstract!Next]_<<Reading, Writing>>
  OBVIOUS
<1> USE DEF IInv
<1>1. CASE UNCHANGED vars
  BY <1>1 DEF vars, Reading, Writing, At
<1>2. ASSUME NEW t \in Threads,
             \/ Read(t) \/ Write(t) \/ ReadWait(t) \/ ReadInc(t)
             \/ ReadBackOff(t) \/ WriteCas(t)
      PROVE  UNCHANGED <<Reading, Writing>>
  BY <1>2 DEF Read, Write, ReadWait, ReadInc, ReadBackOff, WriteCas, Goto,
              Reading, Writing, At, TypeOK
<1>3. ASSUME NEW t \in Threads, ReadCheck(t)
      PROVE  [Abstract!Next]_<<Reading, Writing>>
  <2>1. CASE writer
    BY <1>3, <2>1 DEF ReadCheck, Goto, Reading, Writing, At, TypeOK
  <2>2. CASE ~writer
    <3>1. Writing = {} /\ Writing' = Writing
      BY <1>3, <2>2
      DEF ReadCheck, Goto, CountersMatchThreads, Writing, At, TypeOK
    <3>2. t \notin Reading /\ Reading' = Reading \cup {t}
      BY <1>3, <2>2 DEF ReadCheck, Goto, Reading, At, TypeOK
    <3> QED BY <3>1, <3>2 DEF Abstract!Next, Abstract!AcquireRead, Reading, Writing
  <2> QED BY <2>1, <2>2
<1>4. ASSUME NEW t \in Threads, DropReadGuard(t)
      PROVE  Abstract!Next
  <2>1. t \in Reading /\ Reading' = Reading \ {t} /\ Writing' = Writing
    BY <1>4 DEF DropReadGuard, Goto, Reading, Writing, At, TypeOK
  <2> QED BY <2>1 DEF Abstract!Next, Abstract!ReleaseRead, Reading, Writing
<1>5. ASSUME NEW t \in Threads, WriteDrain(t)
      PROVE  Abstract!Next
  <2>1. Counted = {}
    BY <1>5, CountedFinite, FS_EmptySet
    DEF WriteDrain, CountersMatchThreads, Counted
  <2>2. Reading = {} /\ Reading' = Reading
    BY <1>5, <2>1 DEF WriteDrain, Goto, Counted, Reading, At, TypeOK
  <2>3. Writing = {} /\ Writing' = {t}
    BY <1>5 DEF WriteDrain, Goto, CountersMatchThreads, Writing, At, TypeOK
  <2> QED BY <2>2, <2>3 DEF Abstract!Next, Abstract!AcquireWrite, Reading, Writing
<1>6. ASSUME NEW t \in Threads, DropWriteGuard(t)
      PROVE  Abstract!Next
  <2>1. t \in Writing /\ Writing' = Writing \ {t} /\ Reading' = Reading
    BY <1>6 DEF DropWriteGuard, Goto, Reading, Writing, At, TypeOK
  <2> QED BY <2>1 DEF Abstract!Next, Abstract!ReleaseWrite, Reading, Writing
<1> QED
  BY <1>1, <1>2, <1>3, <1>4, <1>5, <1>6 DEF Next, Step

\* RwLock<T> implements the abstract readers-writer lock, for any threads.
THEOREM Refinement == Spec => ImplementsRwLock
  BY InitRefines, NextRefines, Invariance, PTL
  DEF Spec, ImplementsRwLock, Abstract!Spec, Reading, Writing
=============================================================================
