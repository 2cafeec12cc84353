------------------------------ MODULE Fractal ------------------------------
(***************************************************************************)
(* memory/fractal.rs: root regions laid out one after the other from       *)
(* next_virt_base and divided into octants.  Every call holds the mutex    *)
(* FRACTAL_ALLOCATOR.  A region is named by its root and the octants that  *)
(* lead to it; addresses and sizes are in pages, and a frame may run out   *)
(* at any page of a region.                                                *)
(***************************************************************************)
EXTENDS Integers, Sequences, FiniteSets, SequencesExt, FiniteSetsExt

CONSTANTS
    Sizes,              \* sizes asked for, in pages
    MaxFrames,          \* frames there are
    MAX_FRACTAL_DEPTH,
    MaxPages,           \* bound on next_virt_base
    MaxAccess           \* bound on calls of record_access

VARIABLES
    root_regions,       \* base and size of each root region
    next_virt_base,
    mapped,             \* the pages pt.map has mapped, with or without a region
    divided,            \* the regions with children
    access_count        \* of the regions that were accessed

vars == <<root_regions, next_virt_base, mapped, divided, access_count>>

Octants == 0..7
Bit(o, n) == (o \div 2^n) % 2

\* a region: its root's number and the path of octants below it
Root(r) == <<r, <<>>>>
Depth(g) == Len(g[2])
Child(g, o) == <<g[1], Append(g[2], o)>>

\* SpatialCoord::child, from the root's coordinate (root, 0, 0)
Axis(g, n) ==
    FoldLeft(LAMBDA x, o : 2 * x + Bit(o, n), IF n = 0 THEN g[1] ELSE 0, g[2])
Coord(g) == [x |-> Axis(g, 0), y |-> Axis(g, 1), z |-> Axis(g, 2), depth |-> Depth(g)]

Size(g) == root_regions[g[1] + 1].size \div 8^Depth(g)
Base(g) ==
    FoldLeft(LAMBDA b, i : b + g[2][i] * (root_regions[g[1] + 1].size \div 8^i),
             root_regions[g[1] + 1].base, [i \in DOMAIN g[2] |-> i])

Roots == {Root(i - 1) : i \in DOMAIN root_regions}
Regions == Roots \cup {Child(g, o) : g \in divided, o \in Octants}

Init ==
    /\ root_regions = <<>> /\ next_virt_base = 0
    /\ mapped = {} /\ divided = {}
    /\ access_count = [g \in {} |-> 0]

\* next_virt_base moved only when the region is there
AllocateRegionLate(size) ==
    \E n \in 0..size :
        LET new == next_virt_base..(next_virt_base + n - 1) IN
        /\ Cardinality(mapped) + n <= MaxFrames /\ new \cap mapped = {}
        /\ n < size => Cardinality(mapped) + n = MaxFrames
        /\ mapped' = mapped \cup new
        /\ IF n = size
             THEN /\ next_virt_base' = next_virt_base + size
                  /\ root_regions' = Append(root_regions, [base |-> next_virt_base, size |-> size])
             ELSE UNCHANGED <<root_regions, next_virt_base>>
        /\ UNCHANGED <<divided, access_count>>

\* allocate_region: the base moves first; a frame that is missing leaves the
\* pages before it mapped, and no region
AllocateRegion(size) ==
    \E n \in 0..size :
        LET new == next_virt_base..(next_virt_base + n - 1) IN
        /\ next_virt_base + size <= MaxPages
        /\ Cardinality(mapped) + n <= MaxFrames /\ new \cap mapped = {}
        /\ n < size => Cardinality(mapped) + n = MaxFrames
        /\ next_virt_base' = next_virt_base + size
        /\ mapped' = mapped \cup new
        /\ root_regions' = IF n = size
                             THEN Append(root_regions, [base |-> next_virt_base, size |-> size])
                             ELSE root_regions
        /\ UNCHANGED <<divided, access_count>>

\* the octant of a coordinate at one depth of the walk
OctantAt(c, depth) ==
    LET shift == c.depth - depth
    IN Bit(c.x, shift) + 2 * Bit(c.y, shift) + 4 * Bit(c.z, shift)

\* find_region: from the root numbered coord.x down
FoundAt(c) == <<c.x, [d \in 1..c.depth |-> OctantAt(c, d)]>>
Found(c) == c.x < Len(root_regions) /\ FoundAt(c) \in Regions

\* one octant too large
CanSubdivideAny(g) == Depth(g) < MAX_FRACTAL_DEPTH /\ g \notin divided

\* subdivide(): not too deep, not yet divided, children of a page at least
CanSubdivide(g) ==
    /\ Depth(g) < MAX_FRACTAL_DEPTH /\ g \notin divided
    /\ Size(g) \div 8 >= 1

SubdivideRegion(c) ==
    /\ Found(c) /\ CanSubdivide(FoundAt(c))
    /\ divided' = divided \cup {FoundAt(c)}
    /\ UNCHANGED <<root_regions, next_virt_base, mapped, access_count>>

Accesses(g) == IF g \in DOMAIN access_count THEN access_count[g] ELSE 0

RecordAccess(c) ==
    LET g == FoundAt(c) IN
    /\ Found(c)
    /\ FoldFunction(LAMBDA n, m : n + m, 0, access_count) < MaxAccess
    /\ access_count' = [h \in DOMAIN access_count \cup {g} |->
                          IF h = g THEN Accesses(g) + 1 ELSE access_count[h]]
    /\ UNCHANGED <<root_regions, next_virt_base, mapped, divided>>

Coords == {Coord(g) : g \in Regions}

Next ==
    \/ \E size \in Sizes : AllocateRegion(size)
    \/ \E c \in Coords : SubdivideRegion(c) \/ RecordAccess(c)
-----------------------------------------------------------------------------
\* Types of the regions and their pages.
TypeOK ==
    /\ next_virt_base \in 0..MaxPages /\ mapped \subseteq 0..(MaxPages - 1)
    /\ divided \subseteq Regions /\ DOMAIN access_count \subseteq Regions

Span(g) == Base(g)..(Base(g) + Size(g) - 1)
Prefix(g, h) == g[1] = h[1] /\ IsPrefix(g[2], h[2])

\* Regions that are not one inside the other share no page, a child lies inside
\* its parent, every region is backed, a region's page range is never below the
\* base of the next, so pt.map meets no page that a failed call left mapped; a
\* coordinate names one region, and a root is found by its own.
RegionsDisjoint ==
    /\ \A g, h \in Regions :
         /\ Span(g) \subseteq mapped /\ Span(g) # {}
         /\ IF Prefix(g, h) THEN Span(h) \subseteq Span(g)
            ELSE Prefix(h, g) \/ Span(g) \cap Span(h) = {}
         /\ Coord(g) = Coord(h) => g = h
    /\ \A g \in Roots : Found(Coord(g)) /\ FoundAt(Coord(g)) = g
    /\ \A p \in mapped : p < next_virt_base
=============================================================================
