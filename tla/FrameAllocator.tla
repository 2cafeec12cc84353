--------------------------- MODULE FrameAllocator ---------------------------
(***************************************************************************)
(* memory/frame.rs: the physical frame allocator after init, one step per  *)
(* atomic operation on the bitmap, used_frames or start_search.  Its       *)
(* methods take &self and compete by compare-exchange; the kernel calls    *)
(* them under the mutex FRAME_ALLOCATOR (Locked = TRUE).  A frame is a     *)
(* word of the bitmap and a bit of it.                                     *)
(***************************************************************************)
EXTENDS Integers, FiniteSets

CONSTANTS
    CPUs,
    NoCPU,       \* the mutex is free
    NWords,      \* words of the bitmap
    BITS,        \* usize::BITS
    Usable,      \* frames the memory map calls usable
    FirstMB,     \* frames below 1 MB
    Locked       \* callers hold FRAME_ALLOCATOR's mutex

Words == 0..(NWords - 1)
Bits == 0..(BITS - 1)
Frames == Words \X Bits

ASSUME FrameAssumption ==
    /\ NWords \in Nat \ {0} /\ BITS \in Nat \ {0}
    /\ Usable \subseteq Frames /\ FirstMB \subseteq Frames
    /\ IsFiniteSet(CPUs) /\ NoCPU \notin CPUs /\ Locked \in BOOLEAN

VARIABLES
    bitmap,        \* the bits that are set in each word
    used_frames, start_search,
    mutex,
    owned,         \* the frames each CPU was given and has not given back
    pc, start, i, word, bit   \* locals of allocate

shared == <<bitmap, used_frames, start_search>>
local == <<start, i, word, bit>>
vars == <<shared, mutex, owned, pc, local>>

PC == {"idle", "search", "load", "cas", "count", "store", "wrap", "uncount"}

\* init(): all frames taken, the usable ones freed, the first MB taken again
Init ==
    /\ bitmap = [w \in Words |-> {b \in Bits : <<w, b>> \notin Usable \/ <<w, b>> \in FirstMB}]
    /\ used_frames = Cardinality(Usable \cap FirstMB)
    /\ start_search = 0
    /\ mutex = NoCPU
    /\ owned = [c \in CPUs |-> {}]
    /\ pc = [c \in CPUs |-> "idle"]
    /\ start = [c \in CPUs |-> 0] /\ i = [c \in CPUs |-> 0]
    /\ word = [c \in CPUs |-> {}] /\ bit = [c \in CPUs |-> 0]

Goto(c, from, to) == pc[c] = from /\ pc' = [pc EXCEPT ![c] = to]

Enter(c, to) ==
    /\ Goto(c, "idle", to)
    /\ IF Locked THEN mutex = NoCPU /\ mutex' = c ELSE UNCHANGED mutex

Leave(c, from) ==
    /\ Goto(c, from, "idle")
    /\ mutex' = NoCPU
    /\ start' = [start EXCEPT ![c] = 0] /\ i' = [i EXCEPT ![c] = 0]
    /\ word' = [word EXCEPT ![c] = {}] /\ bit' = [bit EXCEPT ![c] = 0]

\* the next zero bit of the word as last seen, from bit `from` on
ZeroBits(w, from) == {b \in Bits : b >= from /\ b \notin w}

\* a search that runs one word past the end
AdvanceLate(c, from, w, b) ==
    IF ZeroBits(w, b) # {}
      THEN /\ Goto(c, from, "cas")
           /\ word' = [word EXCEPT ![c] = w]
           /\ \E z \in ZeroBits(w, b) :
                /\ \A y \in ZeroBits(w, b) : z <= y
                /\ bit' = [bit EXCEPT ![c] = z]
           /\ UNCHANGED <<mutex, start, i>>
      ELSE IF i[c] + 1 <= NWords
        THEN /\ Goto(c, from, "load")
             /\ i' = [i EXCEPT ![c] = @ + 1]
             /\ UNCHANGED <<mutex, start, word, bit>>
        ELSE IF start[c] > 0
          THEN Goto(c, from, "wrap") /\ UNCHANGED <<mutex, local>>
          ELSE Leave(c, from)   \* None

\* on to bit `b` of word w, or to the next word, or to the end of the search
Advance(c, from, w, b) ==
    IF ZeroBits(w, b) # {}
      THEN /\ Goto(c, from, "cas")
           /\ word' = [word EXCEPT ![c] = w]
           /\ \E z \in ZeroBits(w, b) :
                /\ \A y \in ZeroBits(w, b) : z <= y
                /\ bit' = [bit EXCEPT ![c] = z]
           /\ UNCHANGED <<mutex, start, i>>
      ELSE IF i[c] + 1 < NWords
        THEN /\ Goto(c, from, "load")
             /\ i' = [i EXCEPT ![c] = @ + 1]
             /\ UNCHANGED <<mutex, start, word, bit>>
        ELSE IF start[c] > 0
          THEN Goto(c, from, "wrap") /\ UNCHANGED <<mutex, local>>
          ELSE Leave(c, from)   \* None
-----------------------------------------------------------------------------
Allocate(c) ==
    /\ Enter(c, "search")
    /\ UNCHANGED <<shared, owned, local>>

\* start_search is read
Search(c) ==
    /\ Goto(c, "search", "load")
    /\ start' = [start EXCEPT ![c] = start_search]
    /\ i' = [i EXCEPT ![c] = start_search]
    /\ UNCHANGED <<shared, mutex, owned, word, bit>>

Load(c) ==
    /\ Advance(c, "load", bitmap[i[c]], 0)
    /\ UNCHANGED <<shared, owned>>

\* a compare-exchange that forgets to compare
CasBlind(c) ==
    /\ Goto(c, "cas", "count")
    /\ bitmap' = [bitmap EXCEPT ![i[c]] = word[c] \cup {bit[c]}]
    /\ UNCHANGED <<used_frames, start_search, mutex, owned, local>>

Cas(c) ==
    \/ /\ bitmap[i[c]] = word[c]
       /\ Goto(c, "cas", "count")
       /\ bitmap' = [bitmap EXCEPT ![i[c]] = word[c] \cup {bit[c]}]
       /\ UNCHANGED <<used_frames, start_search, mutex, owned, local>>
    \/ \* another CPU changed the word, and not this bit: try again
       /\ bitmap[i[c]] # word[c] /\ bit[c] \notin bitmap[i[c]]
       /\ Goto(c, "cas", "cas")
       /\ word' = [word EXCEPT ![c] = bitmap[i[c]]]
       /\ UNCHANGED <<shared, mutex, owned, start, i, bit>>
    \/ \* another CPU took the bit: on with the next
       /\ bit[c] \in bitmap[i[c]] /\ bitmap[i[c]] # word[c]
       /\ Advance(c, "cas", bitmap[i[c]], bit[c] + 1)
       /\ UNCHANGED <<shared, owned>>

Count(c) ==
    /\ Goto(c, "count", "store")
    /\ used_frames' = used_frames + 1
    /\ UNCHANGED <<bitmap, start_search, mutex, owned, local>>

Store(c) ==
    /\ start_search' = i[c]
    /\ owned' = [owned EXCEPT ![c] = @ \cup {<<i[c], bit[c]>>}]
    /\ Leave(c, "store")
    /\ UNCHANGED <<bitmap, used_frames>>

\* a wrap-around that leaves start_search where it was
WrapKeepStart(c) ==
    /\ Goto(c, "wrap", "search")
    /\ UNCHANGED <<shared, mutex, owned, local>>

\* past the last word: allocate() calls itself
Wrap(c) ==
    /\ Goto(c, "wrap", "search")
    /\ start_search' = 0
    /\ UNCHANGED <<bitmap, used_frames, mutex, owned, local>>

Deallocate(c, f) ==
    /\ f \in owned[c]
    /\ Enter(c, "uncount")
    /\ bitmap' = [bitmap EXCEPT ![f[1]] = @ \ {f[2]}]
    /\ owned' = [owned EXCEPT ![c] = @ \ {f}]
    /\ UNCHANGED <<used_frames, start_search, local>>

\* a deallocation that leaves the counter alone
UncountNever(c) ==
    /\ Leave(c, "uncount")
    /\ UNCHANGED <<shared, owned>>

Uncount(c) ==
    /\ used_frames' = used_frames - 1
    /\ Leave(c, "uncount")
    /\ UNCHANGED <<bitmap, start_search, owned>>
-----------------------------------------------------------------------------
Step(c) ==
    Search(c) \/ Load(c) \/ Cas(c) \/ Count(c) \/ Store(c) \/ Wrap(c) \/ Uncount(c)

Next ==
    \E c \in CPUs : Allocate(c) \/ Step(c) \/ \E f \in Frames : Deallocate(c, f)

Spec == Init /\ [][Next]_vars
-----------------------------------------------------------------------------
\* Types of the bitmap, the counter and the callers.
TypeOK ==
    /\ bitmap \in [Words -> SUBSET Bits]
    /\ used_frames \in Int /\ start_search \in Words
    /\ mutex \in CPUs \cup {NoCPU} /\ owned \in [CPUs -> SUBSET Frames]
    /\ pc \in [CPUs -> PC] /\ start \in [CPUs -> Words] /\ i \in [CPUs -> Words]
    /\ word \in [CPUs -> SUBSET Bits] /\ bit \in [CPUs -> Bits]

Set(f) == f[2] \in bitmap[f[1]]

\* the frames a CPU has: those given to it and the one it has just won
Holds(c) ==
    owned[c] \cup (IF pc[c] \in {"count", "store"} THEN {<<i[c], bit[c]>>} ELSE {})

\* No frame is handed out twice: the compare-exchange gives a bit to one CPU,
\* and what is handed out is usable memory outside the first megabyte, with
\* its bit set for as long as it is held.
NoDoubleAllocation ==
    /\ \A c, d \in CPUs : c # d => Holds(c) \cap Holds(d) = {}
    /\ \A c \in CPUs : \A f \in Holds(c) : Set(f) /\ f \in Usable \ FirstMB

Adding == {c \in CPUs : pc[c] = "count"}
Removing == {c \in CPUs : pc[c] = "uncount"}

\* used_frames counts the usable frames whose bit is set, up to the fetch_add
\* and fetch_sub still to come: no update of the counter is lost.
UsedFramesCounted ==
    used_frames + Cardinality(Adding) - Cardinality(Removing)
        = Cardinality({f \in Usable : Set(f)})
=============================================================================
