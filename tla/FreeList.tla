------------------------------ MODULE FreeList ------------------------------
(***************************************************************************)
(* memory/slab.rs, Slab::alloc and Slab::free: the free list of one slab,  *)
(* a stack of objects linked through their first word and changed by       *)
(* compare_exchange_weak, one step per access to memory.                   *)
(***************************************************************************)
EXTENDS Integers, FiniteSets

CONSTANTS
    Threads,
    Allocators,     \* the threads that call alloc
    total_objects

VARIABLES
    free_list,      \* head of the list
    next,           \* the link in each object
    allocated,
    held,           \* objects callers hold; whoever holds one may free it
    pc, head, link, obj   \* locals: head as loaded, its link, the object to free

local == <<pc, head, link, obj>>
vars == <<free_list, next, allocated, held, local>>

Objects == 1..total_objects
Null == 0

\* Slab::new pushes the objects one after the other
Init ==
    /\ next = [o \in Objects |-> o - 1] /\ free_list = total_objects
    /\ allocated = 0 /\ held = {}
    /\ pc = [t \in Threads |-> "idle"] /\ head = [t \in Threads |-> Null]
    /\ link = [t \in Threads |-> Null] /\ obj = [t \in Threads |-> Null]

Goto(t, from, to) == pc[t] = from /\ pc' = [pc EXCEPT ![t] = to]
Return(t, from) ==
    /\ Goto(t, from, "idle")
    /\ head' = [head EXCEPT ![t] = Null] /\ link' = [link EXCEPT ![t] = Null]
    /\ obj' = [obj EXCEPT ![t] = Null]

Alloc(t) ==
    /\ t \in Allocators /\ Goto(t, "idle", "load")
    /\ UNCHANGED <<free_list, next, allocated, held, head, link, obj>>

\* the head, or None
Load(t) ==
    /\ IF free_list = Null THEN Return(t, "load")
       ELSE /\ Goto(t, "load", "next")
            /\ head' = [head EXCEPT ![t] = free_list] /\ UNCHANGED <<link, obj>>
    /\ UNCHANGED <<free_list, next, allocated, held>>

Next1(t) ==
    /\ Goto(t, "next", "cas")
    /\ link' = [link EXCEPT ![t] = next[head[t]]]
    /\ UNCHANGED <<free_list, next, allocated, held, head, obj>>

\* a plain store in the place of the compare-exchange
StoreHead(t) ==
    /\ Goto(t, "cas", "count")
    /\ free_list' = link[t]
    /\ UNCHANGED <<next, allocated, held, head, link, obj>>

\* a weak compare-exchange may fail though nothing has changed
Cas(t) ==
    /\ \/ /\ free_list = head[t] /\ Goto(t, "cas", "count")
          /\ free_list' = link[t]
       \/ Goto(t, "cas", "load") /\ UNCHANGED free_list
    /\ UNCHANGED <<next, allocated, held, head, link, obj>>

Count(t) ==
    /\ Return(t, "count")
    /\ allocated' = allocated + 1 /\ held' = held \cup {head[t]}
    /\ UNCHANGED <<free_list, next>>

Free(t, o) ==
    /\ o \in held /\ Goto(t, "idle", "free_load")
    /\ held' = held \ {o} /\ obj' = [obj EXCEPT ![t] = o]
    /\ UNCHANGED <<free_list, next, allocated, head, link>>

FreeLoad(t) ==
    /\ Goto(t, "free_load", "free_link")
    /\ head' = [head EXCEPT ![t] = free_list]
    /\ UNCHANGED <<free_list, next, allocated, held, link, obj>>

\* a retry that keeps the link of the first attempt
FreeLinkOnce(t) ==
    /\ Goto(t, "free_link", "free_cas")
    /\ next' = IF link[t] = Null THEN [next EXCEPT ![obj[t]] = head[t]] ELSE next
    /\ link' = [link EXCEPT ![t] = obj[t]]
    /\ UNCHANGED <<free_list, allocated, held, head, obj>>

FreeLink(t) ==
    /\ Goto(t, "free_link", "free_cas")
    /\ next' = [next EXCEPT ![obj[t]] = head[t]]
    /\ UNCHANGED <<free_list, allocated, held, head, link, obj>>

FreeCas(t) ==
    /\ \/ /\ free_list = head[t] /\ Goto(t, "free_cas", "uncount")
          /\ free_list' = obj[t]
       \/ Goto(t, "free_cas", "free_load") /\ UNCHANGED free_list
    /\ UNCHANGED <<next, allocated, held, head, link, obj>>

Uncount(t) ==
    /\ Return(t, "uncount")
    /\ allocated' = allocated - 1
    /\ UNCHANGED <<free_list, next, held>>

Next ==
    \E t \in Threads :
        \/ Alloc(t) \/ Load(t) \/ Next1(t) \/ Cas(t) \/ Count(t)
        \/ \E o \in Objects : Free(t, o)
        \/ FreeLoad(t) \/ FreeLink(t) \/ FreeCas(t) \/ Uncount(t)
-----------------------------------------------------------------------------
\* Types of the free list and the calls on it.
TypeOK ==
    /\ free_list \in Objects \cup {Null} /\ next \in [Objects -> Objects \cup {Null}]
    /\ allocated \in Int /\ held \subseteq Objects
    /\ pc \in [Threads -> {"idle", "load", "next", "cas", "count", "free_load", "free_link",
                           "free_cas", "uncount"}]

\* the objects reached from the head in n steps
Listed ==
    LET after[n \in 0..Cardinality(Objects)] ==
          IF n = 0 THEN free_list
          ELSE IF after[n - 1] = Null THEN Null ELSE next[after[n - 1]]
    IN {after[n] : n \in 0..Cardinality(Objects)} \ {Null}

\* an object a call has taken off the list, or has not put on it yet
InHand(t) ==
    IF pc[t] = "count" THEN {head[t]}
    ELSE IF pc[t] \in {"free_load", "free_link", "free_cas"} THEN {obj[t]} ELSE {}
InHands == UNION {InHand(t) : t \in Threads}

\* With one thread that allocates, and any number that free, no object is handed
\* out twice and none is lost: what is not on the list is held or in a call.
EachObjectOnce ==
    /\ Listed \cap (held \cup InHands) = {} /\ held \cap InHands = {}
    /\ \A t, u \in Threads : t # u => InHand(t) \cap InHand(u) = {}
    /\ Listed \cup held \cup InHands = Objects
=============================================================================
