------------------------ MODULE FrameAllocatorProofs ------------------------
(***************************************************************************)
(* The frame allocator's safety for any number of CPUs and any bitmap,     *)
(* with the mutex or without it.                                           *)
(***************************************************************************)
EXTENDS FrameAllocator, FiniteSetTheorems, TLAPS

\* Frames outside the allocatable ones are never freed, and a compare-exchange
\* is only tried for a bit that was clear in the word it compares with.
ReservedStaySet == \A f \in Frames : f \notin Usable \ FirstMB => Set(f)
CasBitFree == \A c \in CPUs : pc[c] = "cas" => bit[c] \notin word[c]

UsedSet == {f \in Usable : Set(f)}
Counted == used_frames + Cardinality(Adding) - Cardinality(Removing) = Cardinality(UsedSet)

IInv == TypeOK /\ ReservedStaySet /\ CasBitFree /\ NoDoubleAllocation

\* Steps that leave the bitmap and what is held alone.
Quiet == bitmap' = bitmap /\ \A c \in CPUs : Holds(c)' = Holds(c)

\* The bitmap has finitely many frames.
LEMMA FramesFinite == IsFiniteSet(Frames) /\ IsFiniteSet(Usable)
<1>1. IsFiniteSet(Words) /\ IsFiniteSet(Bits)
  BY FS_Interval, FrameAssumption DEF Words, Bits
<1>2. IsFiniteSet(Frames)
  BY <1>1, FS_Product DEF Frames
<1> QED BY <1>2, FS_Subset, FrameAssumption

\* After init() the invariant holds and used_frames counts the frames of the
\* first megabyte that the memory map called usable.
LEMMA InitIInv == Init => IInv /\ Counted
<1> SUFFICES ASSUME Init PROVE IInv /\ Counted
  OBVIOUS
<1>1. Words # {} /\ Bits # {} /\ 0 \in Words /\ 0 \in Bits
  BY FrameAssumption DEF Words, Bits
<1>2. TypeOK
  <2>1. used_frames \in Int
    <3>1. IsFiniteSet(Usable \cap FirstMB)
      BY FramesFinite, FS_Subset
    <3> QED BY <3>1, FS_CardinalityType DEF Init
  <2> QED BY <1>1, <2>1 DEF Init, TypeOK, PC
<1>3. ReservedStaySet
  BY DEF Init, ReservedStaySet, Set, Frames
<1>4. CasBitFree /\ NoDoubleAllocation
  BY DEF Init, CasBitFree, NoDoubleAllocation, Holds
<1>5. Counted
  <2>1. Adding = {} /\ Removing = {}
    BY DEF Init, Adding, Removing
  <2>2. UsedSet = Usable \cap FirstMB
    BY FrameAssumption DEF Init, UsedSet, Set, Frames
  <2>3. Cardinality(Usable \cap FirstMB) \in Nat
    BY FramesFinite, FS_Subset, FS_CardinalityType
  <2> QED BY <2>1, <2>2, <2>3, FS_EmptySet DEF Init, Counted
<1> QED BY <1>2, <1>3, <1>4, <1>5 DEF IInv

\* Every step keeps the types.
LEMMA NextTypeOK == IInv /\ [Next]_vars => TypeOK'
<1> SUFFICES ASSUME IInv, [Next]_vars PROVE TypeOK'
  OBVIOUS
<1> USE DEF IInv
<1>0. Words \subseteq Int /\ Bits \subseteq Int /\ 0 \in Words /\ 0 \in Bits
  BY FrameAssumption DEF Words, Bits
<1>a. ASSUME NEW c \in CPUs, NEW from \in PC, NEW w \in SUBSET Bits, NEW b \in Int,
             Advance(c, from, w, b), UNCHANGED <<shared, owned>>
      PROVE  TypeOK'
  <2>1. CASE ZeroBits(w, b) # {}
    BY <1>a, <2>1 DEF Advance, Goto, TypeOK, PC, ZeroBits, shared
  <2>2. CASE ZeroBits(w, b) = {} /\ i[c] + 1 < NWords
    <3>1. i[c] + 1 \in Words
      BY <2>2, FrameAssumption DEF TypeOK, Words
    <3> QED BY <1>a, <2>2, <3>1 DEF Advance, Goto, TypeOK, PC, shared
  <2>3. CASE ZeroBits(w, b) = {} /\ ~(i[c] + 1 < NWords)
    BY <1>0, <1>a, <2>3 DEF Advance, Goto, Leave, TypeOK, PC, shared, local
  <2> QED BY <2>1, <2>2, <2>3
<1>1. ASSUME NEW c \in CPUs, Allocate(c) PROVE TypeOK'
  BY <1>1 DEF Allocate, Enter, Goto, TypeOK, PC, shared, local
<1>2. ASSUME NEW c \in CPUs, Step(c) PROVE TypeOK'
  <2>1. CASE Search(c)
    BY <2>1 DEF Search, Goto, TypeOK, PC, shared
  <2>0. bitmap[i[c]] \in SUBSET Bits /\ "cas" \in PC /\ "load" \in PC
    BY DEF TypeOK, PC
  <2>2. CASE Load(c)
    BY <2>0, <2>2, <1>a DEF Load
  <2>3. CASE Cas(c)
    <3>1. CASE Goto(c, "cas", "count") /\ bitmap' = [bitmap EXCEPT ![i[c]] = word[c] \cup {bit[c]}]
               /\ UNCHANGED <<used_frames, start_search, mutex, owned, local>>
      BY <3>1 DEF Goto, TypeOK, PC, local
    <3>2. CASE Goto(c, "cas", "cas") /\ word' = [word EXCEPT ![c] = bitmap[i[c]]]
               /\ UNCHANGED <<shared, mutex, owned, start, i, bit>>
      BY <3>2 DEF Goto, TypeOK, PC, shared
    <3>3. CASE Advance(c, "cas", bitmap[i[c]], bit[c] + 1) /\ UNCHANGED <<shared, owned>>
      <4>1. bit[c] \in Int
        BY <1>0 DEF TypeOK
      <4>2. bit[c] + 1 \in Int
        BY <4>1
      <4> QED BY <2>0, <3>3, <4>2, <1>a
    <3> QED BY <2>3, <3>1, <3>2, <3>3 DEF Cas
  <2>4. CASE Count(c)
    BY <2>4 DEF Count, Goto, TypeOK, PC, local
  <2>5. CASE Store(c)
    <3>1. <<i[c], bit[c]>> \in Frames
      BY DEF TypeOK, Frames
    <3> QED BY <1>0, <2>5, <3>1 DEF Store, Leave, Goto, TypeOK, PC
  <2>6. CASE Wrap(c)
    BY <1>0, <2>6 DEF Wrap, Goto, TypeOK, PC, local
  <2>7. CASE Uncount(c)
    BY <1>0, <2>7 DEF Uncount, Leave, Goto, TypeOK, PC
  <2> QED BY <1>2, <2>1, <2>2, <2>3, <2>4, <2>5, <2>6, <2>7 DEF Step
<1>3. ASSUME NEW c \in CPUs, NEW f \in Frames, Deallocate(c, f) PROVE TypeOK'
  <2>1. f[1] \in Words
    BY DEF Frames
  <2> QED BY <1>3, <2>1 DEF Deallocate, Enter, Goto, TypeOK, PC, local
<1>4. CASE UNCHANGED vars
  BY <1>4 DEF vars, shared, local, TypeOK
<1> QED BY <1>1, <1>2, <1>3, <1>4 DEF Next

\* A step that leaves the bitmap, and what each CPU holds, as they are keeps
\* the two parts of the invariant that speak of them.
LEMMA QuietKeeps ==
    ASSUME ReservedStaySet, NoDoubleAllocation, Quiet
    PROVE  ReservedStaySet' /\ NoDoubleAllocation' /\ UsedSet' = UsedSet
BY DEF Quiet, ReservedStaySet, NoDoubleAllocation, UsedSet, Set

\* Moving on in the search is quiet, and ends at a clear bit or not at a
\* compare-exchange at all.
LEMMA AdvanceQuiet ==
    ASSUME TypeOK, CasBitFree, NEW c \in CPUs, NEW from, from \in {"load", "cas"},
           NEW w, NEW b, Advance(c, from, w, b), UNCHANGED <<shared, owned>>
    PROVE  Quiet /\ CasBitFree' /\ Adding' = Adding /\ Removing' = Removing /\ used_frames' = used_frames
<1> USE DEF TypeOK
<1>1. CASE ZeroBits(w, b) # {}
  BY <1>1 DEF Advance, Goto, Quiet, Holds, CasBitFree, Adding, Removing, ZeroBits, shared
<1>2. CASE ZeroBits(w, b) = {} /\ i[c] + 1 < NWords
  BY <1>2 DEF Advance, Goto, Quiet, Holds, CasBitFree, Adding, Removing, shared
<1>3. CASE ZeroBits(w, b) = {} /\ ~(i[c] + 1 < NWords) /\ start[c] > 0
  BY <1>3 DEF Advance, Goto, Quiet, Holds, CasBitFree, Adding, Removing, shared, local
<1>4. CASE ZeroBits(w, b) = {} /\ ~(i[c] + 1 < NWords) /\ ~(start[c] > 0)
  BY <1>4 DEF Advance, Goto, Leave, Quiet, Holds, CasBitFree, Adding, Removing, shared
<1> QED BY <1>1, <1>2, <1>3, <1>4

\* The step that wins a bit: the frame was free, so nobody held it and it is
\* allocatable; exactly one more frame is used, and one more count is to come.
LEMMA CasWins ==
    ASSUME IInv, Counted, NEW c \in CPUs, bitmap[i[c]] = word[c], Goto(c, "cas", "count"),
           bitmap' = [bitmap EXCEPT ![i[c]] = word[c] \cup {bit[c]}],
           UNCHANGED <<used_frames, start_search, mutex, owned, local>>
    PROVE  ReservedStaySet' /\ CasBitFree' /\ NoDoubleAllocation' /\ Counted'
<1> DEFINE f == <<i[c], bit[c]>>
<1> USE DEF IInv
<1>1. f \in Frames /\ ~Set(f) /\ i[c] \in Words /\ bit[c] \in Bits
  BY DEF Goto, CasBitFree, TypeOK, Set, Frames
<1>2. f \in Usable \ FirstMB
  BY <1>1 DEF ReservedStaySet
<1>3. \A g \in Frames : Set(g)' <=> Set(g) \/ g = f
  BY <1>1 DEF Set, TypeOK, Frames
<1>4. \A d \in CPUs : Holds(d)' = IF d = c THEN Holds(d) \cup {f} ELSE Holds(d)
  BY DEF Holds, Goto, TypeOK, local
<1>5. \A d \in CPUs : f \notin Holds(d) /\ Holds(d) \subseteq Frames
  BY <1>1, FrameAssumption DEF NoDoubleAllocation
<1> HIDE DEF f
<1>6. ReservedStaySet'
  BY <1>3 DEF ReservedStaySet
<1>7. CasBitFree'
  BY DEF CasBitFree, Goto, TypeOK, local
<1>8. NoDoubleAllocation'
  BY <1>1, <1>2, <1>3, <1>4, <1>5 DEF NoDoubleAllocation
<1>9. Counted'
  <2>1. UsedSet' = UsedSet \cup {f} /\ f \notin UsedSet
    BY <1>1, <1>2, <1>3, FrameAssumption DEF UsedSet
  <2>2. Adding' = Adding \cup {c} /\ c \notin Adding /\ Removing' = Removing
    BY DEF Adding, Removing, Goto, TypeOK
  <2>3. IsFiniteSet(UsedSet) /\ IsFiniteSet(Adding) /\ IsFiniteSet(Removing)
    BY FramesFinite, FS_Subset, FrameAssumption DEF UsedSet, Adding, Removing
  <2>4. Cardinality(UsedSet') = Cardinality(UsedSet) + 1 /\ Cardinality(Adding') = Cardinality(Adding) + 1
    BY <2>1, <2>2, <2>3, FS_AddElement
  <2>5. Cardinality(UsedSet) \in Nat /\ Cardinality(Adding) \in Nat /\ Cardinality(Removing) \in Nat
    BY <2>3, FS_CardinalityType
  <2> QED BY <2>2, <2>4, <2>5 DEF Counted, TypeOK
<1> QED BY <1>6, <1>7, <1>8, <1>9

\* Deallocation: the caller held the frame and nobody else did.
LEMMA DeallocateKeeps ==
    ASSUME IInv, Counted, NEW c \in CPUs, NEW f \in Frames, Deallocate(c, f)
    PROVE  ReservedStaySet' /\ CasBitFree' /\ NoDoubleAllocation' /\ Counted'
<1> USE DEF IInv
<1>1. f \in owned[c] /\ pc[c] = "idle" /\ pc' = [pc EXCEPT ![c] = "uncount"]
  BY DEF Deallocate, Enter, Goto
<1>2. f \in Holds(c) /\ Set(f) /\ f \in Usable \ FirstMB
  BY <1>1 DEF Holds, NoDoubleAllocation
<1>3. \A g \in Frames : Set(g)' <=> Set(g) /\ g # f
  <2>1. bitmap' = [bitmap EXCEPT ![f[1]] = @ \ {f[2]}] /\ f[1] \in Words
    BY DEF Deallocate, Frames
  <2> QED BY <2>1 DEF Set, TypeOK, Frames
<1>4. \A d \in CPUs : Holds(d)' = IF d = c THEN Holds(d) \ {f} ELSE Holds(d)
  BY <1>1 DEF Deallocate, Holds, TypeOK, local
<1>5. \A d \in CPUs : Holds(d) \subseteq Frames
  BY FrameAssumption DEF NoDoubleAllocation
<1>6. ReservedStaySet'
  BY <1>2, <1>3 DEF ReservedStaySet
<1>7. CasBitFree'
  BY <1>1 DEF CasBitFree, Deallocate, TypeOK, local
<1>8. NoDoubleAllocation'
  <2>1. \A d, e \in CPUs : d # e => Holds(d)' \cap Holds(e)' = {}
    BY <1>4 DEF NoDoubleAllocation
  <2>2. ASSUME NEW d \in CPUs, NEW g \in Holds(d)' PROVE Set(g)' /\ g \in Usable \ FirstMB
    BY <1>2, <1>3, <1>4, <1>5, <2>2 DEF NoDoubleAllocation
  <2> QED BY <2>1, <2>2 DEF NoDoubleAllocation
<1>9. Counted'
  <2>1. UsedSet' = UsedSet \ {f} /\ f \in UsedSet
    BY <1>2, <1>3, FrameAssumption DEF UsedSet
  <2>2. Removing' = Removing \cup {c} /\ c \notin Removing /\ Adding' = Adding /\ used_frames' = used_frames
    BY <1>1 DEF Adding, Removing, TypeOK, Deallocate
  <2>3. IsFiniteSet(UsedSet) /\ IsFiniteSet(Adding) /\ IsFiniteSet(Removing)
    BY FramesFinite, FS_Subset, FrameAssumption DEF UsedSet, Adding, Removing
  <2>4. Cardinality(UsedSet') = Cardinality(UsedSet) - 1 /\ Cardinality(Removing') = Cardinality(Removing) + 1
    BY <2>1, <2>2, <2>3, FS_AddElement, FS_RemoveElement
  <2>5. Cardinality(UsedSet) \in Nat /\ Cardinality(Adding) \in Nat /\ Cardinality(Removing) \in Nat
    BY <2>3, FS_CardinalityType
  <2> QED BY <2>2, <2>4, <2>5 DEF Counted, TypeOK
<1> QED BY <1>6, <1>7, <1>8, <1>9

\* The remaining steps are quiet; the fetch_add and the fetch_sub settle what
\* the two sets of pending updates promised.
LEMMA NextIInv == IInv /\ Counted /\ [Next]_vars => (IInv /\ Counted)'
<1> SUFFICES ASSUME IInv, Counted, [Next]_vars
             PROVE  ReservedStaySet' /\ CasBitFree' /\ NoDoubleAllocation' /\ Counted'
  BY NextTypeOK DEF IInv
<1> USE DEF IInv
<1>0. /\ IsFiniteSet(Adding) /\ IsFiniteSet(Removing)
      /\ Cardinality(Adding) \in Nat /\ Cardinality(Removing) \in Nat /\ Cardinality(UsedSet) \in Nat
  BY FramesFinite, FS_Subset, FS_CardinalityType, FrameAssumption DEF UsedSet, Adding, Removing
<1>a. ASSUME Quiet, CasBitFree', Adding' = Adding, Removing' = Removing, used_frames' = used_frames
      PROVE  ReservedStaySet' /\ CasBitFree' /\ NoDoubleAllocation' /\ Counted'
  BY <1>a, QuietKeeps DEF Counted
<1>1. ASSUME NEW c \in CPUs, Allocate(c)
      PROVE  ReservedStaySet' /\ CasBitFree' /\ NoDoubleAllocation' /\ Counted'
  <2>1. Quiet /\ CasBitFree' /\ Adding' = Adding /\ Removing' = Removing /\ used_frames' = used_frames
    BY <1>1 DEF Allocate, Enter, Goto, Quiet, Holds, CasBitFree, Adding, Removing, TypeOK, shared, local
  <2> QED BY <2>1, <1>a
<1>2. ASSUME NEW c \in CPUs, Step(c)
      PROVE  ReservedStaySet' /\ CasBitFree' /\ NoDoubleAllocation' /\ Counted'
  <2>1. CASE Search(c)
    <3>1. Quiet /\ CasBitFree' /\ Adding' = Adding /\ Removing' = Removing /\ used_frames' = used_frames
      BY <2>1 DEF Search, Goto, Quiet, Holds, CasBitFree, Adding, Removing, TypeOK, shared
    <3> QED BY <3>1, <1>a
  <2>2. CASE Load(c)
    <3>1. Quiet /\ CasBitFree' /\ Adding' = Adding /\ Removing' = Removing /\ used_frames' = used_frames
      BY <2>2, AdvanceQuiet DEF Load
    <3> QED BY <3>1, <1>a
  <2>3. CASE Cas(c)
    <3>1. CASE bitmap[i[c]] = word[c] /\ Goto(c, "cas", "count")
               /\ bitmap' = [bitmap EXCEPT ![i[c]] = word[c] \cup {bit[c]}]
               /\ UNCHANGED <<used_frames, start_search, mutex, owned, local>>
      BY <3>1, CasWins
    <3>2. CASE bit[c] \notin bitmap[i[c]] /\ Goto(c, "cas", "cas")
               /\ word' = [word EXCEPT ![c] = bitmap[i[c]]]
               /\ UNCHANGED <<shared, mutex, owned, start, i, bit>>
      <4>1. Quiet /\ CasBitFree' /\ Adding' = Adding /\ Removing' = Removing /\ used_frames' = used_frames
        BY <3>2 DEF Goto, Quiet, Holds, CasBitFree, Adding, Removing, TypeOK, shared
      <4> QED BY <4>1, <1>a
    <3>3. CASE Advance(c, "cas", bitmap[i[c]], bit[c] + 1) /\ UNCHANGED <<shared, owned>>
      <4>1. Quiet /\ CasBitFree' /\ Adding' = Adding /\ Removing' = Removing /\ used_frames' = used_frames
        BY <3>3, AdvanceQuiet
      <4> QED BY <4>1, <1>a
    <3> QED BY <2>3, <3>1, <3>2, <3>3 DEF Cas
  <2>4. CASE Count(c)
    <3>1. Quiet /\ CasBitFree'
      BY <2>4 DEF Count, Goto, Quiet, Holds, CasBitFree, TypeOK, local
    <3>2. Adding' = Adding \ {c} /\ c \in Adding /\ Removing' = Removing /\ used_frames' = used_frames + 1
      BY <2>4 DEF Count, Goto, Adding, Removing, TypeOK
    <3>3. Cardinality(Adding') = Cardinality(Adding) - 1
      BY <1>0, <3>2, FS_RemoveElement
    <3> QED BY <1>0, <3>1, <3>2, <3>3, QuietKeeps DEF Counted, TypeOK
  <2>5. CASE Store(c)
    <3>1. CasBitFree' /\ Adding' = Adding /\ Removing' = Removing /\ used_frames' = used_frames
      BY <2>5 DEF Store, Leave, Goto, CasBitFree, Adding, Removing, TypeOK
    <3>2. Quiet
      BY <2>5 DEF Store, Leave, Goto, Quiet, Holds, TypeOK
    <3> QED BY <3>1, <3>2, <1>a
  <2>6. CASE Wrap(c)
    <3>1. Quiet /\ CasBitFree' /\ Adding' = Adding /\ Removing' = Removing /\ used_frames' = used_frames
      BY <2>6 DEF Wrap, Goto, Quiet, Holds, CasBitFree, Adding, Removing, TypeOK, local
    <3> QED BY <3>1, <1>a
  <2>7. CASE Uncount(c)
    <3>1. Quiet /\ CasBitFree'
      BY <2>7 DEF Uncount, Leave, Goto, Quiet, Holds, CasBitFree, TypeOK
    <3>2. Removing' = Removing \ {c} /\ c \in Removing /\ Adding' = Adding /\ used_frames' = used_frames - 1
      BY <2>7 DEF Uncount, Leave, Goto, Adding, Removing, TypeOK
    <3>3. Cardinality(Removing') = Cardinality(Removing) - 1
      BY <1>0, <3>2, FS_RemoveElement
    <3> QED BY <1>0, <3>1, <3>2, <3>3, QuietKeeps DEF Counted, TypeOK
  <2> QED BY <1>2, <2>1, <2>2, <2>3, <2>4, <2>5, <2>6, <2>7 DEF Step
<1>3. ASSUME NEW c \in CPUs, NEW f \in Frames, Deallocate(c, f)
      PROVE  ReservedStaySet' /\ CasBitFree' /\ NoDoubleAllocation' /\ Counted'
  BY <1>3, DeallocateKeeps
<1>4. CASE UNCHANGED vars
  <2>1. Quiet /\ CasBitFree' /\ Adding' = Adding /\ Removing' = Removing /\ used_frames' = used_frames
    BY <1>4 DEF vars, shared, local, Quiet, Holds, CasBitFree, Adding, Removing
  <2> QED BY <2>1, <1>a
<1> QED BY <1>1, <1>2, <1>3, <1>4 DEF Next

\* The invariant holds in every reachable state.
THEOREM Invariance == Spec => [](IInv /\ Counted)
BY InitIInv, NextIInv, PTL DEF Spec

\* The allocator's state keeps its types; used_frames is only an integer here,
\* and FrameCounter says which.
THEOREM TypeCorrect == Spec => []TypeOK
<1>1. IInv /\ Counted => TypeOK
  BY DEF IInv
<1> QED BY <1>1, Invariance, PTL

\* allocate() never hands out a frame twice, an unusable one or one of the
\* first megabyte, whatever the CPUs do between its atomic operations.
THEOREM FramesAreExclusive == Spec => []NoDoubleAllocation
<1>1. IInv /\ Counted => NoDoubleAllocation
  BY DEF IInv
<1> QED BY <1>1, Invariance, PTL

\* used_frames loses no update.
THEOREM FrameCounter == Spec => []UsedFramesCounted
<1>1. IInv /\ Counted => UsedFramesCounted
  BY DEF Counted, UsedSet, UsedFramesCounted
<1> QED BY <1>1, Invariance, PTL
=============================================================================
