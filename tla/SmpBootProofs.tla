---------------------------- MODULE SmpBootProofs ---------------------------
(***************************************************************************)
(* For any number of application processors that an 8-bit id can number:   *)
(* whatever the delays and time-outs, every AP has resources of its own.   *)
(***************************************************************************)
EXTENDS SmpBoot, FiniteSetTheorems, TLAPS

Initialising == {a \in APs : ap[a] \notin {"parked", "online"}}

\* The id the BSP will give to the AP it is about to start, or has given the last one
NextIdRight ==
    /\ bsp \in {"start", "wait", "done"} /\ current \in 1..(NumAps + 1)
    /\ bsp = "start" /\ current <= NumAps => next_id = current
    /\ bsp = "wait" => current <= NumAps /\ next_id = (current + 1) % IdModulus

\* What an AP finds once it may run stays as it is: the BSP only goes on to later APs.
StartedRight ==
    /\ goto \subseteq APs
    /\ bsp = "start" => \A a \in goto : a < current
    /\ \A a \in goto : a <= current /\ extra[a] = a /\ per_cpu[a] = a

ApRight ==
    \A a \in APs :
        /\ ap[a] # "parked" => a \in goto
        /\ id[a] \in {None, a} /\ (id[a] = a => a \in goto)
        /\ ap[a] \in {"gdt", "syscall"} => id[a] = a
        /\ kernel_gs[a] \in {None, IF a >= SyscallCpus THEN 0 ELSE a}

LockRight ==
    /\ init_lock \in BOOLEAN
    /\ \A a \in Initialising : init_lock /\ \A b \in Initialising : a = b

\* The inductive invariant.  OwnId is not inductive: that an AP finds its own number in
\* cpu.extra, however late it comes, needs what the BSP has written and will write.
IInv ==
    /\ extra \in [APs -> Ids] /\ per_cpu \in [Ids -> APs \cup {None}]
    /\ ap \in [APs -> {"parked", "gs", "gdt", "syscall", "count", "ready", "unlock", "online"}]
    /\ id \in [APs -> Ids \cup {None}] /\ kernel_gs \in [APs -> Ids \cup {None}]
    /\ NextIdRight /\ StartedRight /\ ApRight /\ LockRight

\* The constants are positive.
LEMMA Constants == NumAps \in Nat \ {0} /\ IdModulus \in Nat \ {0} /\ SyscallCpus \in Nat \ {0}
  BY SmpAssumption

\* The counter does not wrap while it counts APs.
LEMMA NoWrap == ASSUME NumAps < IdModulus, NEW n \in 0..NumAps PROVE n % IdModulus = n
  BY Constants

\* init_bsp leaves the invariant true.
LEMMA InitIInv == ASSUME NumAps < IdModulus PROVE Init => IInv
<1> SUFFICES ASSUME Init PROVE IInv
  OBVIOUS
<1> USE Constants DEF Init, APs, Ids, None
<1>1. NextIdRight /\ StartedRight
  BY DEF NextIdRight, StartedRight
<1>2. ApRight
  BY DEF ApRight
<1>3. LockRight
  <2>1. Initialising = {}
    BY DEF Initialising
  <2> QED BY <2>1 DEF LockRight
<1>4. /\ extra \in [APs -> Ids] /\ per_cpu \in [Ids -> APs \cup {None}]
      /\ ap \in [APs -> {"parked", "gs", "gdt", "syscall", "count", "ready", "unlock", "online"}]
      /\ id \in [APs -> Ids \cup {None}] /\ kernel_gs \in [APs -> Ids \cup {None}]
  OBVIOUS
<1> QED BY <1>1, <1>2, <1>3, <1>4 DEF IInv

\* Every step of the BSP and of an AP keeps the invariant.
LEMMA NextIInv == ASSUME NumAps < IdModulus PROVE IInv /\ [Next]_vars => IInv'
<1> SUFFICES ASSUME IInv, [Next]_vars PROVE IInv'
  OBVIOUS
<1> USE Constants DEF IInv, APs, Ids
<1>1. CASE StartAp
  <2>1. current \in APs /\ next_id = current /\ current \in Ids /\ current \notin goto
    BY <1>1 DEF StartAp, NextIdRight, StartedRight
  <2>2. /\ extra' = [extra EXCEPT ![current] = current] /\ goto' = goto \cup {current}
        /\ per_cpu' = [per_cpu EXCEPT ![current] = current]
        /\ current' = current /\ bsp' = "wait" /\ next_id' = (current + 1) % IdModulus
        /\ init_lock' = init_lock /\ ap' = ap /\ id' = id /\ kernel_gs' = kernel_gs
    BY <1>1, <2>1 DEF StartAp, own
  <2>3. NextIdRight'
    BY <2>1, <2>2 DEF NextIdRight
  <2>4. StartedRight'
    BY <2>1, <2>2 DEF StartedRight
  <2>5. ApRight'
    BY <2>1, <2>2 DEF ApRight
  <2>6. LockRight'
    BY <2>2 DEF LockRight, Initialising
  <2> QED BY <2>1, <2>2, <2>3, <2>4, <2>5, <2>6
<1>2. CASE SeeReady \/ TimeOut
  <2>1. /\ bsp = "wait" /\ bsp' = "start" /\ current' = current + 1
        /\ UNCHANGED <<next_id, per_cpu, goto, extra, init_lock, ap, id, kernel_gs>>
    BY <1>2 DEF SeeReady, TimeOut, cpus, shared, own
  <2>2. current + 1 <= NumAps => (current + 1) % IdModulus = current + 1
    BY NoWrap DEF NextIdRight
  <2>3. NextIdRight'
    BY <2>1, <2>2 DEF NextIdRight
  <2>4. StartedRight'
    BY <2>1 DEF StartedRight, NextIdRight
  <2>5. ApRight' /\ LockRight'
    BY <2>1 DEF ApRight, LockRight, Initialising
  <2> QED BY <2>1, <2>3, <2>4, <2>5
<1>3. CASE Finish
  BY <1>3 DEF Finish, cpus, shared, own, NextIdRight, StartedRight, ApRight, LockRight, Initialising
<1>4. ASSUME NEW a \in APs, ApLock(a) PROVE IInv'
  <2>1. /\ a \in goto /\ ~init_lock /\ init_lock' = TRUE /\ ap' = [ap EXCEPT ![a] = "gs"]
        /\ UNCHANGED <<bsp, current, next_id, per_cpu, goto, extra, id, kernel_gs>>
    BY <1>4 DEF ApLock, Go, cpus
  <2>2. NextIdRight' /\ StartedRight' /\ ApRight'
    BY <2>1 DEF NextIdRight, StartedRight, ApRight
  <2>3. Initialising' = {a}
    BY <2>1 DEF LockRight, Initialising
  <2>4. LockRight'
    BY <2>1, <2>3 DEF LockRight
  <2> QED BY <2>1, <2>2, <2>4
<1>5. ASSUME NEW a \in APs, AP(a) PROVE IInv'
  <2>0. bsp' = bsp /\ UNCHANGED <<current, next_id, per_cpu, goto, extra>>
    BY <1>5 DEF AP, ApSetGs, ApLoadGdt, ApSyscall, ApCount, ApReady, ApUnlock, cpus, shared
  <2>1. NextIdRight' /\ StartedRight'
    BY <2>0 DEF NextIdRight, StartedRight
  <2>2. CASE ApSetGs(a)
    <3>1. /\ ap[a] = "gs" /\ ap' = [ap EXCEPT ![a] = "gdt"] /\ id' = [id EXCEPT ![a] = a]
          /\ UNCHANGED <<init_lock, kernel_gs>> /\ a \in goto
      BY <2>2 DEF ApSetGs, Go, shared, ApRight, StartedRight
    <3>2. ApRight'
      BY <2>0, <3>1 DEF ApRight
    <3>3. LockRight'
      BY <3>1 DEF LockRight, Initialising
    <3> QED BY <2>0, <2>1, <3>1, <3>2, <3>3
  <2>3. CASE ApLoadGdt(a)
    <3>1. /\ ap[a] = "gdt" /\ ap' = [ap EXCEPT ![a] = "syscall"]
          /\ UNCHANGED <<init_lock, id, kernel_gs>>
      BY <2>3 DEF ApLoadGdt, Go, shared
    <3>2. ApRight'
      BY <2>0, <3>1 DEF ApRight
    <3>3. LockRight'
      BY <3>1 DEF LockRight, Initialising
    <3> QED BY <2>0, <2>1, <3>1, <3>2, <3>3
  <2>4. CASE ApSyscall(a)
    <3>1. /\ ap[a] = "syscall" /\ ap' = [ap EXCEPT ![a] = "count"] /\ id[a] = a
          /\ kernel_gs' = [kernel_gs EXCEPT ![a] = IF a >= SyscallCpus THEN 0 ELSE a]
          /\ UNCHANGED <<init_lock, id>>
      BY <2>4 DEF ApSyscall, Go, shared, ApRight
    <3>2. ApRight'
      BY <2>0, <3>1 DEF ApRight
    <3>3. LockRight'
      BY <3>1 DEF LockRight, Initialising
    <3> QED BY <2>0, <2>1, <3>1, <3>2, <3>3
  <2>5. CASE ApCount(a)
    <3>1. /\ ap[a] = "count" /\ ap' = [ap EXCEPT ![a] = "ready"]
          /\ UNCHANGED <<init_lock, id, kernel_gs>>
      BY <2>5 DEF ApCount, Go
    <3>2. ApRight'
      BY <2>0, <3>1 DEF ApRight
    <3>3. LockRight'
      BY <3>1 DEF LockRight, Initialising
    <3> QED BY <2>0, <2>1, <3>1, <3>2, <3>3
  <2>6. CASE ApReady(a)
    <3>1. /\ ap[a] = "ready" /\ ap' = [ap EXCEPT ![a] = "unlock"]
          /\ UNCHANGED <<init_lock, id, kernel_gs>>
      BY <2>6 DEF ApReady, Go
    <3>2. ApRight'
      BY <2>0, <3>1 DEF ApRight
    <3>3. LockRight'
      BY <3>1 DEF LockRight, Initialising
    <3> QED BY <2>0, <2>1, <3>1, <3>2, <3>3
  <2>7. CASE ApUnlock(a)
    <3>1. /\ ap[a] = "unlock" /\ ap' = [ap EXCEPT ![a] = "online"]
          /\ init_lock' = FALSE /\ UNCHANGED <<id, kernel_gs>>
      BY <2>7 DEF ApUnlock, Go
    <3>2. ApRight'
      BY <2>0, <3>1 DEF ApRight
    <3>3. Initialising' = {}
      <4>1. a \in Initialising
        BY <3>1 DEF Initialising
      <4>2. \A b \in APs : b # a => ap'[b] \in {"parked", "online"}
        BY <3>1, <4>1 DEF LockRight, Initialising
      <4> QED BY <3>1, <4>2 DEF Initialising
    <3>4. LockRight'
      BY <3>1, <3>3 DEF LockRight
    <3> QED BY <2>0, <2>1, <3>1, <3>2, <3>4
  <2> QED BY <1>5, <2>2, <2>3, <2>4, <2>5, <2>6, <2>7 DEF AP
<1>6. CASE UNCHANGED vars
  BY <1>6 DEF vars, cpus, shared, own, NextIdRight, StartedRight, ApRight, LockRight, Initialising
<1> QED BY <1>1, <1>2, <1>3, <1>4, <1>5, <1>6 DEF Next, BSP

\* Nothing more is needed for what the APs own.
LEMMA IInvOwn == ASSUME NumAps < IdModulus PROVE IInv => OwnResources
<1> SUFFICES ASSUME IInv PROVE OwnResources
  OBVIOUS
<1> USE Constants DEF IInv, APs, Ids, None
<1>1. OwnId
  BY DEF OwnId, ApRight, StartedRight
<1>2. OneInitialises
  <2>1. CASE Initialising = {}
    <3>1. Cardinality(Initialising) = 0
      BY <2>1, FS_EmptySet
    <3> QED BY <3>1 DEF OneInitialises, Initialising
  <2>2. CASE Initialising # {}
    <3>1. PICK a \in Initialising : Initialising = {a}
      BY <2>2 DEF LockRight
    <3>2. Cardinality(Initialising) = 1
      BY <3>1, FS_Singleton
    <3> QED BY <3>2 DEF OneInitialises, Initialising
  <2> QED BY <2>1, <2>2
<1>3. OwnSyscallStack
  BY DEF OwnSyscallStack, ApRight
<1> QED BY <1>1, <1>2, <1>3 DEF OwnResources

\* init_smp and ap_entry: while the ids suffice for the processors, every AP has a CPU id,
\* per-CPU data and a syscall stack of its own and initialises alone, for any number of
\* APs, any delay of any of them and any of the BSP's time-outs.
THEOREM ApsOwnTheirResources == NumAps < IdModulus => (Spec => []OwnResources)
<1> SUFFICES ASSUME NumAps < IdModulus PROVE Spec => []OwnResources
  OBVIOUS
<1>1. Init => IInv
  BY InitIInv
<1>2. IInv /\ [Next]_vars => IInv'
  BY NextIInv
<1>3. IInv => OwnResources
  BY IInvOwn
<1> QED BY <1>1, <1>2, <1>3, PTL DEF Spec
=============================================================================
