------------------------------- MODULE SmpBoot ------------------------------
(***************************************************************************)
(* arch/x86_64/smp.rs: the boot processor starts the application           *)
(* processors (APs) one after the other and waits, with a timeout, for     *)
(* each; the APs initialise themselves under AP_INIT_LOCK.  An AP may be   *)
(* slow, or never come.  register_ap is in arch/x86_64/cpu.rs.             *)
(***************************************************************************)
EXTENDS Integers, FiniteSets

CONSTANTS
    NumAps,            \* APs, numbered in the order of the boot loader's list
    IdModulus,         \* NEXT_CPU_ID is an AtomicU8: register_ap's test for 256 never fails
    SyscallCpus        \* syscall.rs, MAX_CPUS

ASSUME SmpAssumption == {NumAps, IdModulus, SyscallCpus} \subseteq Nat \ {0}

APs == 1..NumAps
Ids == 0..(IdModulus - 1)
None == -1

VARIABLES
    bsp, current,      \* init_smp: where it is, the AP it starts
    next_id, cpu_count, per_cpu,   \* NEXT_CPU_ID, CPU_COUNT, the CPU each PER_CPU_DATA entry is for
    ready, started, init_lock,     \* CURRENT_AP_READY, AP_STARTED_COUNT, AP_INIT_LOCK
    goto, extra,       \* cpu.goto_address is set, cpu.extra
    ap, id,            \* ap_entry: where each AP is, the cpu_id it read
    gs, kernel_gs      \* IA32_GS_BASE and IA32_KERNEL_GS_BASE: whose data they point to

shared == <<ready, started, init_lock, goto, extra>>
cpus == <<next_id, cpu_count, per_cpu>>
own == <<ap, id, gs, kernel_gs>>
vars == <<bsp, current, cpus, shared, own>>

\* as init_bsp leaves it: the BSP is CPU 0
Init ==
    /\ bsp = "start" /\ current = 1
    /\ next_id = 1 /\ cpu_count = 1
    /\ per_cpu = [i \in Ids |-> None]
    /\ ready = FALSE /\ started = 0 /\ init_lock = FALSE
    /\ goto = {} /\ extra = [a \in APs |-> 0]
    /\ ap = [a \in APs |-> "parked"]
    /\ id = [a \in APs |-> None]
    /\ gs = [a \in APs |-> None] /\ kernel_gs = [a \in APs |-> None]
-----------------------------------------------------------------------------
(* init_smp                                                                *)

\* goto_address is written before extra
StartApEarly ==
    /\ bsp = "start" /\ current <= NumAps
    /\ bsp' = "wait"
    /\ per_cpu' = [per_cpu EXCEPT ![next_id] = current]
    /\ cpu_count' = (cpu_count + 1) % IdModulus
    /\ ready' = FALSE
    /\ goto' = goto \cup {current}
    /\ next_id' = (next_id + 1) % IdModulus
    /\ UNCHANGED <<current, extra, started, init_lock, own>>

\* the id counter is wider than the id
StartApNoWrap ==
    /\ bsp = "start" /\ current <= NumAps
    /\ bsp' = "wait"
    /\ per_cpu' = [per_cpu EXCEPT ![next_id] = current]
    /\ cpu_count' = (cpu_count + 1) % IdModulus
    /\ ready' = FALSE
    /\ extra' = [extra EXCEPT ![current] = next_id]
    /\ goto' = goto \cup {current}
    /\ next_id' = next_id + 1
    /\ UNCHANGED <<current, started, init_lock, own>>

\* the loop body up to the wait: the AP sees none of it before goto_address
StartAp ==
    /\ bsp = "start" /\ current <= NumAps
    /\ bsp' = "wait"
    /\ per_cpu' = [per_cpu EXCEPT ![next_id] = current]
    /\ cpu_count' = (cpu_count + 1) % IdModulus
    /\ ready' = FALSE
    /\ extra' = [extra EXCEPT ![current] = next_id]
    /\ goto' = goto \cup {current}
    /\ next_id' = (next_id + 1) % IdModulus
    /\ UNCHANGED <<current, started, init_lock, own>>

SeeReady ==
    /\ bsp = "wait" /\ ready
    /\ bsp' = "start" /\ current' = current + 1
    /\ UNCHANGED <<cpus, shared, own>>

TimeOut ==
    /\ bsp = "wait"
    /\ bsp' = "start" /\ current' = current + 1
    /\ UNCHANGED <<cpus, shared, own>>

Finish ==
    /\ bsp = "start" /\ current > NumAps
    /\ bsp' = "done"
    /\ UNCHANGED <<current, cpus, shared, own>>
-----------------------------------------------------------------------------
(* ap_entry                                                                *)

Go(a, from, to) == ap[a] = from /\ ap' = [ap EXCEPT ![a] = to]

\* the AP does not look at the lock
ApLockUnchecked(a) ==
    /\ a \in goto /\ Go(a, "parked", "gs")
    /\ init_lock' = TRUE
    /\ UNCHANGED <<bsp, current, cpus, ready, started, goto, extra, id, gs, kernel_gs>>

\* the boot loader's code jumps to ap_entry, which takes AP_INIT_LOCK
ApLock(a) ==
    /\ a \in goto /\ ~init_lock /\ Go(a, "parked", "gs")
    /\ init_lock' = TRUE
    /\ UNCHANGED <<bsp, current, cpus, ready, started, goto, extra, id, gs, kernel_gs>>

\* cpu_id is read, set_gs_base points GS to the CPU's data
ApSetGs(a) ==
    /\ Go(a, "gs", "gdt")
    /\ id' = [id EXCEPT ![a] = extra[a]]
    /\ gs' = [gs EXCEPT ![a] = per_cpu[extra[a]]]
    /\ UNCHANGED <<bsp, current, cpus, shared, kernel_gs>>

\* init_gdt_and_tss: `mov gs, ax` loads the base of the data segment, 0
ApLoadGdt(a) ==
    /\ Go(a, "gdt", "syscall")
    /\ gs' = [gs EXCEPT ![a] = None]
    /\ UNCHANGED <<bsp, current, cpus, shared, id, kernel_gs>>

\* a bound that is one too small
ApSyscallShort(a) ==
    /\ Go(a, "syscall", "count")
    /\ kernel_gs' = [kernel_gs EXCEPT ![a] = IF id[a] >= SyscallCpus - 1 THEN 0 ELSE id[a]]
    /\ UNCHANGED <<bsp, current, cpus, shared, id, gs>>

\* init_for_cpu: a CPU past the table takes the BSP's entry
ApSyscall(a) ==
    /\ Go(a, "syscall", "count")
    /\ kernel_gs' = [kernel_gs EXCEPT ![a] = IF id[a] >= SyscallCpus THEN 0 ELSE id[a]]
    /\ UNCHANGED <<bsp, current, cpus, shared, id, gs>>

ApCount(a) ==
    /\ Go(a, "count", "ready")
    /\ started' = started + 1
    /\ UNCHANGED <<bsp, current, cpus, ready, init_lock, goto, extra, id, gs, kernel_gs>>

ApReady(a) ==
    /\ Go(a, "ready", "unlock")
    /\ ready' = TRUE
    /\ UNCHANGED <<bsp, current, cpus, started, init_lock, goto, extra, id, gs, kernel_gs>>

\* the AP tries to take the lock it has to release
ApUnlockSpins(a) == ap[a] = "unlock" /\ init_lock /\ UNCHANGED vars

\* the lock is released; ap_idle_loop
ApUnlock(a) ==
    /\ Go(a, "unlock", "online")
    /\ init_lock' = FALSE
    /\ UNCHANGED <<bsp, current, cpus, ready, started, goto, extra, id, gs, kernel_gs>>
-----------------------------------------------------------------------------
BSP == StartAp \/ SeeReady \/ TimeOut \/ Finish
AP(a) == ApSetGs(a) \/ ApLoadGdt(a) \/ ApSyscall(a) \/ ApCount(a) \/ ApReady(a) \/ ApUnlock(a)

\* init_smp has returned and the APs that came are in ap_idle_loop
Booted == bsp = "done" /\ \A a \in APs : ap[a] = "online"

Next == BSP \/ \E a \in APs : ApLock(a) \/ AP(a)

Spec == Init /\ [][Next]_vars
-----------------------------------------------------------------------------
\* Every variable of the BSP and the APs has its type.
TypeOK ==
    /\ bsp \in {"start", "wait", "done"} /\ current \in 1..(NumAps + 1)
    /\ next_id \in Ids /\ cpu_count \in Ids
    /\ per_cpu \in [Ids -> APs \cup {None}]
    /\ ready \in BOOLEAN /\ init_lock \in BOOLEAN /\ started \in 0..NumAps
    /\ goto \subseteq APs /\ extra \in [APs -> Ids]
    /\ ap \in [APs -> {"parked", "gs", "gdt", "syscall", "count", "ready", "unlock", "online"}]
    /\ id \in [APs -> Ids \cup {None}]
    /\ gs \in [APs -> APs \cup {None}] /\ kernel_gs \in [APs -> Ids \cup {None}]

\* register_ap and cpu.extra give each AP a CPU id of its own, not the BSP's, and
\* the per-CPU data under that id is its own, however late the AP comes.
OwnId ==
    \A a \in APs : id[a] # None =>
        /\ id[a] # 0
        /\ per_cpu[id[a]] = a
        /\ \A b \in APs : id[b] = id[a] => a = b

\* init_gdt_and_tss and init_idt write tables that all CPUs share: under
\* AP_INIT_LOCK one AP at a time runs them, also when the BSP has stopped waiting.
OneInitialises ==
    Cardinality({a \in APs : ap[a] \notin {"parked", "online"}}) <= 1

\* "Wait for THIS AP to signal ready before starting next": when the wait ends by
\* the flag, it is the current AP that has set it.
ReadyIsFromThisAp == [][SeeReady => ap[current] \in {"unlock", "online"}]_vars

\* "Each CPU needs its own syscall stack to avoid corruption": as long as the
\* CPUs fit the table, no two of them use the same entry of CPU_SYSCALL_DATA.
\* (The CPUs past the table all use the boot processor's.)
OwnSyscallStack ==
    NumAps < SyscallCpus =>
        \A a \in APs : kernel_gs[a] # None =>
            kernel_gs[a] # 0 /\ \A b \in APs : kernel_gs[b] = kernel_gs[a] => a = b

\* init_smp and ap_entry: every AP has a CPU id, per-CPU data and a syscall stack of its
\* own, and is alone while it sets up the tables all CPUs share.
OwnResources == OwnId /\ OneInitialises /\ OwnSyscallStack
=============================================================================
