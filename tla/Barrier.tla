------------------------------- MODULE Barrier ------------------------------
(***************************************************************************)
(* sync/mod.rs: the barrier, used again and again by as many threads as it *)
(* was made for.  Each access to `count` or `generation` is a step.        *)
(***************************************************************************)
EXTENDS Naturals, FiniteSets

CONSTANTS Threads,
    GenModulus,        \* generation wraps: a usize
    MaxRounds          \* bound: waits per thread

threshold == Cardinality(Threads)

VARIABLES
    count, generation,
    pc, gen,           \* where each thread is, the generation it loaded
    entered, left      \* history: the waits each thread has begun and ended

vars == <<count, generation, pc, gen, entered, left>>

Init ==
    /\ count = 0 /\ generation = 0
    /\ pc = [t \in Threads |-> "out"]
    /\ gen = [t \in Threads |-> 0]
    /\ entered = [t \in Threads |-> 0] /\ left = [t \in Threads |-> 0]

Go(t, from, to) == pc[t] = from /\ pc' = [pc EXCEPT ![t] = to]
Leave(t) == left' = [left EXCEPT ![t] = @ + 1]
-----------------------------------------------------------------------------
WaitLoad(t) ==
    /\ entered[t] < MaxRounds
    /\ Go(t, "out", "add")
    /\ gen' = [gen EXCEPT ![t] = generation]
    /\ entered' = [entered EXCEPT ![t] = @ + 1]
    /\ UNCHANGED <<count, generation, left>>

\* the thread that completes the round is found one too early
AddOffByOne(t) ==
    /\ Go(t, "add", IF count + 2 >= threshold THEN "reset" ELSE "spin")
    /\ count' = count + 1
    /\ UNCHANGED <<generation, gen, entered, left>>

Add(t) ==
    /\ Go(t, "add", IF count + 1 >= threshold THEN "reset" ELSE "spin")
    /\ count' = count + 1
    /\ UNCHANGED <<generation, gen, entered, left>>

Reset(t) ==
    /\ Go(t, "reset", "advance")
    /\ count' = 0
    /\ UNCHANGED <<generation, gen, entered, left>>

Advance(t) ==
    /\ Go(t, "advance", "out") /\ Leave(t)
    /\ generation' = (generation + 1) % GenModulus
    /\ UNCHANGED <<count, gen, entered>>

\* the change is not seen
SeeNoChange(t) == pc[t] = "spin" /\ UNCHANGED vars

\* the generation has changed; while it has not the wait goes on
SeeChange(t) ==
    /\ generation # gen[t]
    /\ Go(t, "spin", "out") /\ Leave(t)
    /\ UNCHANGED <<count, generation, gen, entered>>

\* all the waits are done
AllDone == \A t \in Threads : left[t] = MaxRounds
Finished == AllDone /\ UNCHANGED vars
-----------------------------------------------------------------------------
Thread(t) == WaitLoad(t) \/ Add(t) \/ Reset(t) \/ Advance(t) \/ SeeChange(t)

Next == (\E t \in Threads : Thread(t)) \/ Finished

Spec == Init /\ [][Next]_vars
-----------------------------------------------------------------------------
\* Types of the barrier and its threads.
TypeOK ==
    /\ count \in 0..threshold /\ generation \in 0..(GenModulus - 1)
    /\ pc \in [Threads -> {"out", "add", "reset", "advance", "spin"}]
    /\ gen \in [Threads -> 0..(GenModulus - 1)]
    /\ entered \in [Threads -> 0..MaxRounds] /\ left \in [Threads -> 0..MaxRounds]

\* A barrier: nobody returns from a round that somebody has not entered, in any
\* round and with fast threads already in the next one.
NobodyLeavesEarly == \A t, u \in Threads : left[t] <= entered[u]
=============================================================================
