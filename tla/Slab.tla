-------------------------------- MODULE Slab --------------------------------
(***************************************************************************)
(* memory/slab.rs: the caches of the slab allocator, one for each size     *)
(* class, with their lists of partial and full slabs.  One caller at a     *)
(* time: the lists are changed by plain loads and stores.  A slab is one   *)
(* frame; its header takes whole objects of it.                            *)
(***************************************************************************)
EXTENDS Integers, Sequences, FiniteSets, SequencesExt, FiniteSetsExt

CONSTANTS
    SLAB_SIZES,     \* the size classes, ascending
    Requests,       \* sizes callers ask for
    PAGE_SIZE, Header,
    Frames,         \* frames the frame allocator still has
    MaxCalls        \* bound on calls of alloc

VARIABLES
    partial_slabs, full_slabs,      \* of each class, head first
    free,                           \* the free list of each slab in use
    total_allocs, total_frees,
    live                            \* the objects callers hold, with the size asked

vars == <<partial_slabs, full_slabs, free, total_allocs, total_frees, live>>

Classes == DOMAIN SLAB_SIZES
AlignedHeader(size) == ((Header + size - 1) \div size) * size
UsableObjects(size) == (PAGE_SIZE - AlignedHeader(size)) \div size

\* a class too small for the request
ClassBelow(size) == CHOOSE c \in Classes : \A d \in Classes : SLAB_SIZES[d] >= SLAB_SIZES[c]

\* find_size_class: the first class that is large enough
ClassOf(size) ==
    CHOOSE c \in Classes :
        /\ size <= SLAB_SIZES[c] /\ \A d \in Classes : size <= SLAB_SIZES[d] => c <= d
Fits(size) == \E c \in Classes : size <= SLAB_SIZES[c]

\* Slab::new: the offsets of the objects, the last one first
Offsets(size) ==
    [i \in 1..UsableObjects(size) |-> AlignedHeader(size) + (UsableObjects(size) - i) * size]

Init ==
    /\ partial_slabs = [c \in Classes |-> <<>>] /\ full_slabs = [c \in Classes |-> <<>>]
    /\ free = [f \in {} |-> <<>>]
    /\ total_allocs = [c \in Classes |-> 0] /\ total_frees = [c \in Classes |-> 0]
    /\ live = {}

\* is_full, by the count of allocated objects
IsFull(list) == list = <<>>

Unlink(list, s) == SelectSeq(list, LAMBDA t : t # s)

\* a full slab that stays in the partial list
AllocPartialStays(c, size) ==
    \E s \in Range(partial_slabs[c]) :
        /\ free[s] # <<>>
        /\ free' = [free EXCEPT ![s] = Tail(@)]
        /\ live' = live \cup {[slab |-> s, at |-> Head(free[s]), size |-> size]}
        /\ partial_slabs' = [partial_slabs EXCEPT ![c] = Unlink(@, s)]
        /\ UNCHANGED full_slabs

\* the first partial slab with a free object; the last object moves it to full
AllocPartial(c, size) ==
    LET having == SelectSeq(partial_slabs[c], LAMBDA s : free[s] # <<>>)
        s == Head(having)
        rest == Tail(free[s])
    IN /\ having # <<>>
       /\ free' = [free EXCEPT ![s] = rest]
       /\ live' = live \cup {[slab |-> s, at |-> Head(free[s]), size |-> size]}
       /\ IF IsFull(rest)
            THEN /\ partial_slabs' = [partial_slabs EXCEPT ![c] = Unlink(@, s)]
                 /\ full_slabs' = [full_slabs EXCEPT ![c] = <<s>> \o @]
            ELSE UNCHANGED <<partial_slabs, full_slabs>>

\* a new slab; the object is taken from it without asking whether it is full
AllocNew(c, size) ==
    /\ \A s \in Range(partial_slabs[c]) : free[s] = <<>>
    /\ UsableObjects(SLAB_SIZES[c]) > 0
    /\ \E s \in Frames \ DOMAIN free :
         LET all == Offsets(SLAB_SIZES[c]) IN
         /\ \A t \in Frames \ DOMAIN free : s <= t
         /\ free' = [t \in DOMAIN free \cup {s} |-> IF t = s THEN Tail(all) ELSE free[t]]
         /\ live' = live \cup {[slab |-> s, at |-> Head(all), size |-> size]}
         /\ partial_slabs' = [partial_slabs EXCEPT ![c] = <<s>> \o @]
    /\ UNCHANGED full_slabs

Alloc(size) ==
    /\ Fits(size) /\ total_allocs[ClassOf(size)] < MaxCalls
    /\ AllocPartial(ClassOf(size), size) \/ AllocNew(ClassOf(size), size)
    /\ total_allocs' = [total_allocs EXCEPT ![ClassOf(size)] = @ + 1]
    /\ UNCHANGED total_frees

\* a slab that stays in the full list
FreeStays(o) ==
    LET c == ClassOf(o.size) IN
    /\ o \in live /\ live' = live \ {o}
    /\ o.slab \in Range(partial_slabs[c]) \cup Range(full_slabs[c])
    /\ free' = [free EXCEPT ![o.slab] = <<o.at>> \o @]
    /\ total_frees' = [total_frees EXCEPT ![c] = @ + 1]
    /\ UNCHANGED <<partial_slabs, full_slabs, total_allocs>>

\* partial slabs are searched first; a slab found among the full ones moves
Free(o) ==
    LET c == ClassOf(o.size) IN
    /\ o \in live /\ live' = live \ {o}
    /\ \/ /\ o.slab \in Range(partial_slabs[c])
          /\ UNCHANGED <<partial_slabs, full_slabs>>
       \/ /\ o.slab \in Range(full_slabs[c]) \ Range(partial_slabs[c])
          /\ full_slabs' = [full_slabs EXCEPT ![c] = Unlink(@, o.slab)]
          /\ partial_slabs' = [partial_slabs EXCEPT ![c] = <<o.slab>> \o @]
    /\ free' = [free EXCEPT ![o.slab] = <<o.at>> \o @]
    /\ total_frees' = [total_frees EXCEPT ![c] = @ + 1]
    /\ UNCHANGED total_allocs

Next == (\E size \in Requests : Alloc(size)) \/ \E o \in live : Free(o)
-----------------------------------------------------------------------------
\* Types of the slabs and the statistics.
TypeOK ==
    /\ DOMAIN free \subseteq Frames
    /\ \A c \in Classes : total_allocs[c] \in 0..MaxCalls /\ total_frees[c] \in 0..MaxCalls

OfClass(c) == Range(partial_slabs[c]) \cup Range(full_slabs[c])

\* Slabs are in one list of one class, a full one has nothing free, live objects
\* are large enough, lie past the header and inside the page, and overlap with
\* no other object, live or free; free plus live makes up the slab; and the
\* statistics count what is live.
SlabsSound ==
    /\ \A c \in Classes :
         /\ IsInjective(partial_slabs[c] \o full_slabs[c])
         /\ \A d \in Classes : c # d => OfClass(c) \cap OfClass(d) = {}
         /\ \A s \in Range(full_slabs[c]) : free[s] = <<>>
         /\ \A s \in OfClass(c) :
              LET mine == {o \in live : o.slab = s} IN
              /\ IsInjective(free[s])
              /\ Range(free[s]) \cap {o.at : o \in mine} = {}
              /\ Len(free[s]) + Cardinality(mine) = UsableObjects(SLAB_SIZES[c])
              /\ \A o \in mine : /\ o.size <= SLAB_SIZES[c]
                                 /\ o.at >= Header /\ o.at + SLAB_SIZES[c] <= PAGE_SIZE
                                 /\ \A q \in mine : o.at < q.at => o.at + SLAB_SIZES[c] <= q.at
         /\ total_allocs[c] - total_frees[c] = Cardinality({o \in live : ClassOf(o.size) = c})
    /\ UNION {OfClass(c) : c \in Classes} = DOMAIN free
=============================================================================
