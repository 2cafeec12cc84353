---------------------------- MODULE AddressSpace ----------------------------
(***************************************************************************)
(* memory/paging.rs, usermode/spawn.rs and brk: four-level page tables,    *)
(* the address space and image of a spawned process, and its heap.  A page *)
(* number is written with one digit a level.  Memory is counted in cells,  *)
(* PAGE_SIZE to a page; a cell of a frame holds the number of the segment  *)
(* it was loaded from, or 0.  Each call runs to its end: a process has one *)
(* thread, and what calls share is the order frames are handed out in.     *)
(***************************************************************************)
EXTENDS Integers, Sequences, FiniteSets, SequencesExt

CONSTANTS
    Frames,            \* numbers of physical frames
    Orders,            \* orders allocate_frame may hand frames out in
    PAGE_SIZE,
    TopEntries,        \* entries of a P4 table; the upper half is the kernel's
    Entries,           \* entries of the other tables
    USER_STACK_BASE, USER_STACK_PAGES,
    KERNEL_STACK_PAGES,
    HeapLimit,         \* 0x0000_7000_0000_0000
    Images,            \* the PT_LOAD segments of the programs spawned
    MmioPages,
    MaxProcesses,
    Increments         \* arguments of sbrk

VARIABLES
    ram,        \* frames not handed out yet, in order; tables; cells
    procs,      \* the processes in the table
    order       \* the order chosen at boot

vars == <<ram, procs, order>>

Absent == [present |-> FALSE, to |-> 0, writable |-> FALSE, nx |-> FALSE, user |-> FALSE]
Entry(f, w, x, u) ==
    [present |-> TRUE, to |-> f, writable |-> w, nx |-> ~x, user |-> u]
Intermediate(f) == Entry(f, TRUE, TRUE, TRUE)

EmptyTable == [i \in 0..(TopEntries - 1) |-> Absent]
ZeroPage == [c \in 0..(PAGE_SIZE - 1) |-> 0]

\* digits of a page number: p4_index, p3_index, p2_index, p1_index
Weight(level) == Entries^(level - 1)
Index(page, level) ==
    IF level = 4 THEN page \div Weight(4) ELSE (page \div Weight(level)) % Entries
KernelPages == ((TopEntries \div 2) * Weight(4))..(TopEntries * Weight(4) - 1)

KernelRoot == order[1]      \* the P4 table the boot loader set up

\* allocate_frame(), and zero()
Take(m) == [m EXCEPT !.free = Tail(@),
                     !.tab[Head(m.free)] = EmptyTable, !.cell[Head(m.free)] = ZeroPage]
-----------------------------------------------------------------------------
\* PageTableManager.  A walk carries the memory, the table it is at and `ok`.
Walk(m, root) == [ok |-> TRUE, m |-> m, at |-> root]

\* a new table that is not linked from the one above it
DescendUnlinked(w, i, executable) ==
    LET e == w.m.tab[w.at][i] IN
    IF ~w.ok THEN w
    ELSE IF e.present THEN [w EXCEPT !.at = e.to]
    ELSE IF w.m.free = <<>> THEN [w EXCEPT !.ok = FALSE]
    ELSE [w EXCEPT !.at = Head(w.m.free), !.m = Take(w.m)]

\* the next table, made if it is not there; map_executable clears NX on the way
Descend(w, i, executable) ==
    LET e == w.m.tab[w.at][i] IN
    IF ~w.ok THEN w
    ELSE IF e.present
      THEN [w EXCEPT !.at = e.to,
                     !.m.tab[w.at][i] = IF executable THEN Intermediate(e.to) ELSE e]
    ELSE IF w.m.free = <<>> THEN [w EXCEPT !.ok = FALSE]       \* Out of memory
    ELSE LET f == Head(w.m.free)
         IN [w EXCEPT !.at = f, !.m = [Take(w.m) EXCEPT !.tab[w.at][i] = Intermediate(f)]]

ToP1(m, root, page, executable) ==
    FoldLeft(LAMBDA w, level : Descend(w, Index(page, level), executable),
             Walk(m, root), <<4, 3, 2>>)

\* map and map_executable: the second overwrites, the first refuses
Map(m, root, page, entry) ==
    LET w == ToP1(m, root, page, FALSE)
        i == Index(page, 1)
    IN IF ~w.ok \/ w.m.tab[w.at][i].present THEN [w EXCEPT !.ok = FALSE]
       ELSE [w EXCEPT !.m.tab[w.at][i] = entry]

MapExecutable(m, root, page, entry) ==
    LET w == ToP1(m, root, page, TRUE)
    IN IF ~w.ok THEN w
       ELSE [w EXCEPT !.m.tab[w.at][Index(page, 1)] = [entry EXCEPT !.nx = FALSE]]

\* translate(): the entry for the page
Leaf(m, root, page) ==
    FoldLeft(LAMBDA e, level : IF e.present THEN m.tab[e.to][Index(page, level)] ELSE Absent,
             Intermediate(root), <<4, 3, 2, 1>>)
Translate(m, root, page) == Leaf(m, root, page).present

\* a fresh zeroed frame at the page; if map fails the frame is lost
NewPage(w, root, page, writable, executable) ==
    IF ~w.ok \/ w.m.free = <<>> THEN [w EXCEPT !.ok = FALSE]
    ELSE LET e == Entry(Head(w.m.free), writable, executable, TRUE)
         IN IF executable THEN MapExecutable(Take(w.m), root, page, e)
            ELSE Map(Take(w.m), root, page, e)
-----------------------------------------------------------------------------
Pages(first, last) == [i \in 1..(last - first + 1) |-> first + i - 1]

\* create_user_address_space: a P4 table with the kernel's upper half, a stack
CreateUserAddressSpace(m) ==
    LET root == Head(m.free)
        upper == [i \in 0..(TopEntries - 1) |->
                    IF i >= TopEntries \div 2 THEN m.tab[KernelRoot][i] ELSE Absent]
    IN IF m.free = <<>> THEN [Walk(m, 0) EXCEPT !.ok = FALSE]
       ELSE FoldLeft(LAMBDA w, page : NewPage(w, root, page, TRUE, FALSE),
                     Walk([Take(m) EXCEPT !.tab[root] = upper], root),
                     Pages(USER_STACK_BASE, USER_STACK_BASE + USER_STACK_PAGES - 1))

SegmentPages(s) ==
    Pages(s.vaddr \div PAGE_SIZE, (s.vaddr + s.memsz - 1) \div PAGE_SIZE)

\* the pages of a segment that an earlier segment has not mapped
MapSegment(w, root, s, mapped) ==
    FoldLeft(LAMBDA v, page :
                IF page \in mapped THEN v ELSE NewPage(v, root, page, s.writable, s.executable),
             w, SegmentPages(s))

\* the copy starts at the first page instead of the first byte
CopySegmentAligned(m, root, s, k) ==
    FoldLeft(LAMBDA n, a :
                [n EXCEPT !.cell[Leaf(m, root, a \div PAGE_SIZE).to][a % PAGE_SIZE] = k],
             m, Pages(s.vaddr - (s.vaddr % PAGE_SIZE),
                      s.vaddr - (s.vaddr % PAGE_SIZE) + s.filesz - 1))

CopySegment(m, root, s, k) ==
    FoldLeft(LAMBDA n, a :
                [n EXCEPT !.cell[Leaf(m, root, a \div PAGE_SIZE).to][a % PAGE_SIZE] = k],
             m, Pages(s.vaddr, s.vaddr + s.filesz - 1))

MappedBy(image, k) == UNION {Range(SegmentPages(image[j])) : j \in 1..k}

\* load_segment_with_tracking; "Invalid segment offset" is found after mapping
LoadSegment(w, root, image, k) ==
    LET v == MapSegment(w, root, image[k], MappedBy(image, k - 1))
    IN IF ~v.ok THEN v
       ELSE IF image[k].truncated THEN [v EXCEPT !.ok = FALSE]
       ELSE [v EXCEPT !.m = CopySegment(v.m, root, image[k], k)]

HighestAddr(image) ==
    CHOOSE a \in {image[k].vaddr + image[k].memsz : k \in DOMAIN image} :
        \A k \in DOMAIN image : a >= image[k].vaddr + image[k].memsz

AlignUp(a) == (a + PAGE_SIZE - 1) \div PAGE_SIZE

\* the heap starts in the page after the last segment's
HeapStartNoGap(image) == HighestAddr(image) \div PAGE_SIZE

HeapStart(image) == AlignUp(HighestAddr(image) + PAGE_SIZE)

\* allocate_kernel_stack: frames one by one, used as if they were adjacent
KernelStack(w) ==
    IF ~w.ok \/ Len(w.m.free) < KERNEL_STACK_PAGES
      THEN [w EXCEPT !.ok = FALSE, !.m.free = IF w.ok THEN <<>> ELSE @]
      ELSE [w EXCEPT !.m.free = SubSeq(@, KERNEL_STACK_PAGES + 1, Len(@))]

\* spawn_user_process.  An error gives no frame back.
Spawn(image) ==
    LET space == CreateUserAddressSpace(ram)
        root == Head(ram.free)
        loaded == FoldLeft(LAMBDA w, k : LoadSegment(w, root, image, k),
                           space, [k \in DOMAIN image |-> k])
        done == KernelStack(loaded)
    IN /\ ram' = done.m
       /\ IF done.ok /\ Len(procs) < MaxProcesses
            THEN procs' = Append(procs,
                   [page_table |-> root, image |-> image, kernel_stack |-> Head(loaded.m.free),
                    heap_start |-> HeapStart(image), heap_end |-> HeapStart(image)])
            ELSE UNCHANGED procs
       /\ UNCHANGED order

\* heap_end set before the pages are mapped
BrkEager(i, new_end) ==
    LET p == procs[i]
        grown == FoldLeft(LAMBDA w, page :
                    IF Translate(w.m, p.page_table, page) THEN w
                    ELSE NewPage(w, p.page_table, page, TRUE, FALSE),
                 Walk(ram, 0), Pages(p.heap_end, new_end - 1))
    IN /\ new_end >= p.heap_start /\ new_end < HeapLimit
       /\ procs' = [procs EXCEPT ![i].heap_end = new_end]
       /\ IF new_end > p.heap_end THEN ram' = grown.m ELSE UNCHANGED ram
       /\ UNCHANGED order

\* sys_brk, in pages: growing maps what is not mapped and keeps it on failure,
\* shrinking unmaps nothing
Brk(i, new_end) ==
    LET p == procs[i]
        grown == FoldLeft(LAMBDA w, page :
                    IF ~w.ok \/ Translate(w.m, p.page_table, page) THEN w
                    ELSE NewPage(w, p.page_table, page, TRUE, FALSE),
                 Walk(ram, 0), Pages(p.heap_end, new_end - 1))
    IN /\ new_end >= p.heap_start /\ new_end < HeapLimit
       /\ IF new_end > p.heap_end
            THEN /\ ram' = grown.m
                 /\ procs' = IF grown.ok THEN [procs EXCEPT ![i].heap_end = new_end] ELSE procs
            ELSE procs' = [procs EXCEPT ![i].heap_end = new_end] /\ UNCHANGED ram
       /\ UNCHANGED order

\* sys_sbrk, with checked_sub; increments are cells
Sbrk(i, n) ==
    LET addr == procs[i].heap_end * PAGE_SIZE + n
    IN addr > 0 /\ n # 0 /\ Brk(i, AlignUp(addr))

\* map_mmio at device set-up, in the kernel's half
MapMmio(page) ==
    /\ procs = <<>> /\ ~Translate(ram, KernelRoot, page)
    /\ ram' = Map(ram, KernelRoot, page, Entry(0, TRUE, FALSE, FALSE)).m
    /\ UNCHANGED <<procs, order>>

\* the boot loader's table maps the first kernel page
Init ==
    /\ order \in Orders
    /\ procs = <<>>
    /\ ram = Map([free |-> Tail(order), tab |-> [f \in Frames |-> EmptyTable],
                  cell |-> [f \in Frames |-> ZeroPage]],
                 order[1], (TopEntries \div 2) * Weight(4), Entry(0, TRUE, TRUE, FALSE)).m

Next ==
    \/ \E image \in Images : Spawn(image)
    \/ \E i \in DOMAIN procs, n \in Increments : Sbrk(i, n)
    \/ \E page \in MmioPages : MapMmio(page)
-----------------------------------------------------------------------------
\* Types of the page tables, frames and processes.
TypeOK ==
    /\ order \in Orders /\ Len(procs) <= MaxProcesses
    /\ Range(ram.free) \subseteq Frames
    /\ \A i \in DOMAIN procs : procs[i].page_table \in Frames /\ procs[i].kernel_stack \in Frames

Targets(tables, indexes) ==
    {ram.tab[t][i].to : <<t, i>> \in {x \in tables \X indexes : ram.tab[x[1]][x[2]].present}}
Links(tables, indexes) == {x \in tables \X indexes : ram.tab[x[1]][x[2]].present}

\* the present entries of the user half of an address space
UserLinks(root) ==
    LET l4 == 0..(TopEntries \div 2 - 1)
        l == 0..(Entries - 1)
        p3 == Targets({root}, l4)
        p2 == Targets(p3, l)
        p1 == Targets(p2, l)
    IN Links({root}, l4) \cup Links(p3, l) \cup Links(p2, l) \cup Links(p1, l)

Roots == {procs[i].page_table : i \in DOMAIN procs}
AllLinks == UNION {UserLinks(r) : r \in Roots}
To(x) == ram.tab[x[1]][x[2]].to

\* Every table and every page of a process has a frame of its own: two entries
\* never lead to one frame, and none leads to a P4 table, to a frame that is
\* still free or to the first frame of a kernel stack.
FramesOfOneSpace ==
    /\ \A x, y \in AllLinks : To(x) = To(y) => x = y
    /\ \A x \in AllLinks :
         To(x) \notin Roots \cup {KernelRoot} \cup Range(ram.free)
                      \cup {procs[i].kernel_stack : i \in DOMAIN procs}

\* Below the break everything is mapped, writable, for the user and not
\* executable, and lies above the image: through growth that fails half-way,
\* shrinking that leaves pages behind and growth over them.
HeapBacked ==
    \A i \in DOMAIN procs :
        LET p == procs[i] IN
        /\ \A page \in p.heap_start..(p.heap_end - 1) :
              LET e == Leaf(ram, p.page_table, page)
              IN e.present /\ e.writable /\ e.user /\ e.nx
        /\ \A k \in DOMAIN p.image : \A page \in Range(SegmentPages(p.image[k])) :
              page < p.heap_start - 1

\* the segment a cell of a process's memory belongs to, 0 for none
Source(image, a) ==
    LET ks == {k \in DOMAIN image : a >= image[k].vaddr /\ a < image[k].vaddr + image[k].filesz}
    IN IF ks = {} THEN 0 ELSE CHOOSE k \in ks : \A j \in ks : j <= k

\* A spawned process finds its image in memory: the bytes of the file where the
\* program header wants them and zeros in the rest, across shared pages.
ImageLoaded ==
    \A i \in DOMAIN procs : LET p == procs[i] IN
        \A k \in DOMAIN p.image :
        \A a \in p.image[k].vaddr..(p.image[k].vaddr + p.image[k].memsz - 1) :
            LET e == Leaf(ram, p.page_table, a \div PAGE_SIZE)
            IN e.present /\ e.user /\ ram.cell[e.to][a % PAGE_SIZE] = Source(p.image, a)

\* Every address space sees the kernel's mappings.
KernelHalfShared ==
    \A i \in DOMAIN procs : \A page \in KernelPages :
        Leaf(ram, procs[i].page_table, page) = Leaf(ram, KernelRoot, page)

\* Frames handed out in ascending order make the kernel stack adjacent frames
\* that nothing else uses.
KernelStacksOwned ==
    (\A i \in 1..(Len(order) - 1) : order[i + 1] = order[i] + 1) =>
        \A i \in DOMAIN procs : \A n \in 0..(KERNEL_STACK_PAGES - 1) :
            LET f == procs[i].kernel_stack + n IN
            /\ f \notin Range(ram.free) \cup Roots /\ \A x \in AllLinks : To(x) # f
=============================================================================
