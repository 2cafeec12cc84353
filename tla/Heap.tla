-------------------------------- MODULE Heap --------------------------------
(***************************************************************************)
(* memory/heap.rs: the first-fit free list behind the global allocator.    *)
(* Every call runs under HEAP_ALLOCATOR's mutex, so a call is one step.    *)
(* Addresses count from HEAP_START, which every alignment divides.         *)
(***************************************************************************)
EXTENDS Naturals, Sequences, SequencesExt, FiniteSetsExt

CONSTANTS
    KERNEL_HEAP_SIZE,
    Node,       \* size_of::<FreeBlock>()
    Sizes,      \* of the layouts callers ask for
    Aligns,     \* powers of two
    MaxLive     \* bound on the number of live allocations

VARIABLES
    free_list,  \* the blocks [addr, size] in the order of their next pointers
    allocated,
    live        \* what callers hold: [addr, layout]

vars == <<free_list, allocated, live>>

Layouts == [size : Sizes, align : Aligns]

Init ==
    /\ free_list = <<[addr |-> 0, size |-> KERNEL_HEAP_SIZE]>>
    /\ allocated = 0
    /\ live = {}

align_up(x, align) == ((x + align - 1) \div align) * align

\* the size both alloc_impl and dealloc_impl derive from a layout
BlockSize(layout) == align_up(IF layout.size > Node THEN layout.size ELSE Node, layout.align)

\* a test that forgets the padding in front of the aligned address
RequiredNoPadding(block, layout) == BlockSize(layout)

Required(block, layout) == align_up(block.addr, layout.align) - block.addr + BlockSize(layout)

Remainder(block, layout) ==
    [addr |-> align_up(block.addr, layout.align) + BlockSize(layout),
     size |-> block.size - Required(block, layout)]

\* the first block that is large enough is split, or used whole
Alloc(layout) ==
    \E k \in 1..Len(free_list) :
        LET block == free_list[k] IN
        /\ block.size >= Required(block, layout)
        /\ \A j \in 1..(k - 1) : free_list[j].size < Required(free_list[j], layout)
        /\ free_list' = IF block.size > Required(block, layout) + Node
                          THEN ReplaceAt(free_list, k, Remainder(block, layout))
                          ELSE RemoveAt(free_list, k)
        /\ allocated' = allocated + BlockSize(layout)
        /\ live' = live \cup {[addr |-> align_up(block.addr, layout.align), layout |-> layout]}

\* null when no block is large enough
AllocFails(layout) ==
    /\ \A k \in 1..Len(free_list) : free_list[k].size < Required(free_list[k], layout)
    /\ UNCHANGED vars

\* the freed block and the blocks behind it, the first one merged if adjacent
WithNext(block, rest) ==
    IF rest # <<>> /\ Head(rest).addr = block.addr + block.size
      THEN <<[block EXCEPT !.size = @ + Head(rest).size]>> \o Tail(rest)
      ELSE <<block>> \o rest

\* a list to which the freed block is only linked, never merged backwards
WithPrevNever(front, rest) == front \o rest

WithPrev(front, rest) ==
    IF front # <<>> /\ Last(front).addr + Last(front).size = Head(rest).addr
      THEN Front(front) \o <<[Last(front) EXCEPT !.size = @ + Head(rest).size]>> \o Tail(rest)
      ELSE front \o rest

\* a deallocation that forgets the counter
DeallocUncounted(a) ==
    LET block == [addr |-> a.addr, size |-> BlockSize(a.layout)]
        Passed(k) == \A j \in 1..k : free_list[j].addr <= a.addr
        at == Max({k \in 0..Len(free_list) : Passed(k)})
    IN /\ a \in live
       /\ free_list' = WithPrev(SubSeq(free_list, 1, at),
                                WithNext(block, SubSeq(free_list, at + 1, Len(free_list))))
       /\ UNCHANGED allocated
       /\ live' = live \ {a}

\* inserted before the first block with a higher address
Dealloc(a) ==
    LET block == [addr |-> a.addr, size |-> BlockSize(a.layout)]
        Passed(k) == \A j \in 1..k : free_list[j].addr <= a.addr
        at == Max({k \in 0..Len(free_list) : Passed(k)})
    IN /\ a \in live
       /\ free_list' = WithPrev(SubSeq(free_list, 1, at),
                                WithNext(block, SubSeq(free_list, at + 1, Len(free_list))))
       /\ allocated' = allocated - block.size
       /\ live' = live \ {a}

Next ==
    \/ \E layout \in Layouts : Cardinality(live) < MaxLive /\ Alloc(layout)
    \/ \E layout \in Layouts : AllocFails(layout)
    \/ \E a \in live : Dealloc(a)

Spec == Init /\ [][Next]_vars
-----------------------------------------------------------------------------
\* Types of the free list and the live blocks.
TypeOK ==
    /\ free_list \in Seq([addr : 0..KERNEL_HEAP_SIZE, size : 1..KERNEL_HEAP_SIZE])
    /\ allocated \in 0..KERNEL_HEAP_SIZE
    /\ live \subseteq [addr : 0..KERNEL_HEAP_SIZE, layout : Layouts]

Bytes(block) == block.addr..(block.addr + block.size - 1)
LiveBytes(a) == a.addr..(a.addr + BlockSize(a.layout) - 1)

\* Memory in use belongs to one caller: live allocations are aligned, inside
\* the heap and disjoint, and no free block's header can land in one.
NoOverlap ==
    /\ \A a \in live :
        /\ a.addr % a.layout.align = 0
        /\ LiveBytes(a) \subseteq 0..(KERNEL_HEAP_SIZE - 1)
        /\ \A b \in live \ {a} : LiveBytes(a) \cap LiveBytes(b) = {}
        /\ \A k \in 1..Len(free_list) : LiveBytes(a) \cap Bytes(free_list[k]) = {}
    /\ Cardinality({a.addr : a \in live}) = Cardinality(live)

\* The list stays sorted by address, its blocks hold their own header, and
\* coalescing leaves no two adjacent blocks.
SortedAndCoalesced ==
    /\ \A k \in 1..Len(free_list) : free_list[k].size >= Node
    /\ \A k \in 1..(Len(free_list) - 1) :
           free_list[k].addr + free_list[k].size < free_list[k + 1].addr

\* `allocated` is what callers hold, so fetch_sub never takes it below zero.
AllocatedCounts ==
    LET Size(a) == BlockSize(a.layout) IN allocated = MapThenSumSet(Size, live)
=============================================================================
