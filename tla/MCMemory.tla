------------------------------ MODULE MCMemory ------------------------------
(***************************************************************************)
(* The memory managers for TLC.  A behaviour exercises one `part`: the     *)
(* frame allocator as its methods are written, for concurrent callers      *)
(* ("lockfree"), as the kernel calls it ("locked"), the heap, the free     *)
(* list of one slab ("objects"), the slab allocator, the address spaces of *)
(* processes ("spaces") or the fractal regions.                            *)
(***************************************************************************)
EXTENDS FrameAllocator, Sequences

CONSTANTS Allocator, Freer

VARIABLES
    part, free_list, allocated, live,
    objs_free_list, next, objs_allocated, held, objs_pc, head, link, obj,
    partial_slabs, full_slabs, free, total_allocs, total_frees, slab_live,
    ram, procs, order,
    root_regions, next_virt_base, mapped, divided, access_count

\* two bits a word, the first frame below 1 MB, a hole in the memory map
FirstFrame == {<<0, 0>>}
WithHole == Frames \ {<<1, 0>>}

\* two programs: text and data that share a page, and one whose file is cut short
Segment(v, f, m, w, x, t) ==
    [vaddr |-> v, filesz |-> f, memsz |-> m, writable |-> w, executable |-> x, truncated |-> t]
Programs ==
    {<<Segment(1, 2, 2, FALSE, TRUE, FALSE), Segment(3, 2, 4, TRUE, FALSE, FALSE)>>,
     <<Segment(0, 1, 1, FALSE, TRUE, FALSE), Segment(2, 1, 3, TRUE, FALSE, TRUE)>>}
\* frames in ascending order, with a hole, and in descending order
FrameOrders ==
    {[k \in 1..36 |-> k], [k \in 1..34 |-> IF k <= 13 THEN k ELSE k + 2], [k \in 1..36 |-> 37 - k]}

UnderMutex == INSTANCE FrameAllocator WITH Locked <- TRUE
Hp == INSTANCE Heap WITH
    KERNEL_HEAP_SIZE <- 14, Node <- 2, Sizes <- {1, 3, 5}, Aligns <- {1, 2, 4}, MaxLive <- 4
Obj == INSTANCE FreeList WITH
    Threads <- {Allocator, Freer}, Allocators <- {Allocator}, total_objects <- 3,
    free_list <- objs_free_list, allocated <- objs_allocated, pc <- objs_pc
Sl == INSTANCE Slab WITH
    SLAB_SIZES <- <<2, 4, 8, 16>>, Requests <- {1, 3, 7, 16, 17}, PAGE_SIZE <- 16, Header <- 7,
    Frames <- {1, 2, 3}, MaxCalls <- 3, live <- slab_live
Sp == INSTANCE AddressSpace WITH
    Frames <- 0..37, Orders <- FrameOrders, PAGE_SIZE <- 2, TopEntries <- 4, Entries <- 2,
    USER_STACK_BASE <- 14, USER_STACK_PAGES <- 2, KERNEL_STACK_PAGES <- 2, HeapLimit <- 9,
    Images <- Programs, MmioPages <- {17, 20, 24}, MaxProcesses <- 2, Increments <- {3, 2, 1, -2, -4}
Fra == INSTANCE Fractal WITH
    Sizes <- {3, 8}, MaxFrames <- 17, MAX_FRACTAL_DEPTH <- 1, MaxPages <- 24, MaxAccess <- 1

heap_vars == <<free_list, allocated, live>>
objs_vars == <<objs_free_list, next, objs_allocated, held, objs_pc, head, link, obj>>
slab_vars == <<partial_slabs, full_slabs, free, total_allocs, total_frees, slab_live>>
space_vars == <<ram, procs, order>>
fractal_vars == <<root_regions, next_virt_base, mapped, divided, access_count>>
all_vars == <<part, vars, heap_vars, objs_vars, slab_vars, space_vars, fractal_vars>>
-----------------------------------------------------------------------------
MemoryInit ==
    /\ part \in {"lockfree", "locked", "heap", "objects", "slab", "spaces", "fractal"}
    /\ Init /\ Hp!Init /\ Obj!Init /\ Sl!Init /\ Fra!Init
    /\ IF part = "spaces" THEN Sp!Init ELSE ram = <<>> /\ procs = <<>> /\ order = <<>>

\* the calls, processes and pages of these parts are bounded
Rest == part \in {"slab", "spaces", "fractal"} /\ UNCHANGED all_vars

MemoryNext ==
    /\ UNCHANGED part
    /\ \/ part = "lockfree" /\ Next /\ UNCHANGED <<heap_vars, objs_vars, slab_vars, space_vars, fractal_vars>>
       \/ part = "locked" /\ UnderMutex!Next /\ UNCHANGED <<heap_vars, objs_vars, slab_vars, space_vars, fractal_vars>>
       \/ part = "heap" /\ Hp!Next /\ UNCHANGED <<vars, objs_vars, slab_vars, space_vars, fractal_vars>>
       \/ part = "objects" /\ Obj!Next /\ UNCHANGED <<vars, heap_vars, slab_vars, space_vars, fractal_vars>>
       \/ part = "slab" /\ Sl!Next /\ UNCHANGED <<vars, heap_vars, objs_vars, space_vars, fractal_vars>>
       \/ part = "spaces" /\ Sp!Next /\ UNCHANGED <<vars, heap_vars, objs_vars, slab_vars, fractal_vars>>
       \/ part = "fractal" /\ Fra!Next /\ UNCHANGED <<vars, heap_vars, objs_vars, slab_vars, space_vars>>
       \/ Rest

\* A CPU inside the allocator keeps running.
MemoryFairSpec ==
    /\ MemoryInit /\ [][MemoryNext]_all_vars
    /\ \A c \in CPUs : WF_vars(part = "locked" /\ Step(c))
-----------------------------------------------------------------------------
\* Every variable of the memory managers has its type.
TypesOK ==
    /\ TypeOK /\ Hp!TypeOK /\ Obj!TypeOK
    /\ part = "slab" => Sl!TypeOK
    /\ part = "spaces" => Sp!TypeOK
    /\ part = "fractal" => Fra!TypeOK

\* allocate() returns None
Fails(c) == pc[c] \in {"load", "cas"} /\ pc'[c] = "idle"

\* Frames: under the mutex allocate() fails only if no frame is free: the search
\* from start_search to the end and, after the wrap, from 0 misses nothing.
FailsOnlyWhenFull ==
    [][\A c \in CPUs : part = "locked" /\ Fails(c) => \A f \in Frames : Set(f)]_vars

\* Frames: under the mutex every call returns: the recursion of allocate() ends.
CallsReturn == \A c \in CPUs : part = "locked" /\ pc[c] # "idle" ~> pc[c] = "idle"

\* Frames: under the mutex allocate() fails only on a full bitmap, and returns.
AllocateServes == FailsOnlyWhenFull /\ CallsReturn

\* Heap: memory in use belongs to one caller and no free block lies in it, the
\* free list stays sorted and coalesced, and `allocated` is what callers hold.
\* Slabs: while one thread allocates and others free, every object is free once or
\* held once; an object lies in its slab, beside the others and the header, is as
\* large as what was asked for, and a slab with a free object is one alloc finds.
\* Fractal regions: no two regions share a page, and a region is mapped.
MemoryDisjoint ==
    /\ Hp!NoOverlap /\ Hp!SortedAndCoalesced /\ Hp!AllocatedCounts
    /\ Obj!EachObjectOnce
    /\ part = "slab" => Sl!SlabsSound
    /\ part = "fractal" => Fra!RegionsDisjoint

\* Address spaces: a frame belongs to one process, the kernel's half is the same in
\* every space, also for MMIO pages mapped later, a kernel stack is its process's
\* own, the heap below the break is backed by pages and the image in memory is the
\* program's, through spawns that run out of frames and breaks that fail half way.
SpacesSound ==
    part = "spaces" =>
        /\ Sp!FramesOfOneSpace /\ Sp!KernelHalfShared /\ Sp!KernelStacksOwned
        /\ Sp!HeapBacked /\ Sp!ImageLoaded
=============================================================================
