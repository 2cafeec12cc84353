------------------------------ MODULE Semaphore -----------------------------
(***************************************************************************)
(* sync/mod.rs: the counting semaphore.  Each load of `count` and each     *)
(* compare-exchange is a step.  A thread that holds a permit may release   *)
(* it; a poster releases without having acquired.                          *)
(***************************************************************************)
EXTENDS Naturals, FiniteSets

CONSTANTS
    Threads, Posters,  \* finitely many threads, those that only release
    Initial, max_count \* naturals, Initial <= max_count

VARIABLES
    count,
    pc, current,       \* where each thread is, what it loaded
    permits            \* history: the permits there are, free or held

vars == <<count, pc, current, permits>>

Init ==
    /\ count = Initial /\ permits = Initial
    /\ pc = [t \in Threads |-> "idle"]
    /\ current = [t \in Threads |-> 0]

Go(t, from, to) == pc[t] = from /\ pc' = [pc EXCEPT ![t] = to]

Load(t, from, to) ==
    /\ Go(t, from, to)
    /\ current' = [current EXCEPT ![t] = count]
    /\ UNCHANGED <<count, permits>>

\* current is forgotten when a call returns
Done(t) == current' = [current EXCEPT ![t] = 0]
-----------------------------------------------------------------------------
\* acquire and try_acquire begin alike
Acquire(t) == t \notin Posters /\ Load(t, "idle", "acquire")
TryAcquire(t) == t \notin Posters /\ Load(t, "idle", "try")

\* a store in place of the compare-exchange
TakeBlindly(t) ==
    /\ pc[t] \in {"acquire", "try"} /\ current[t] > 0
    /\ count' = current[t] - 1
    /\ pc' = [pc EXCEPT ![t] = "held"] /\ Done(t)
    /\ UNCHANGED permits

Take(t) ==
    /\ pc[t] \in {"acquire", "try"} /\ current[t] > 0
    /\ count = current[t] /\ count' = current[t] - 1
    /\ pc' = [pc EXCEPT ![t] = "held"] /\ Done(t)
    /\ UNCHANGED permits

Missed(t) == current[t] = 0 \/ count # current[t]

AcquireAgain(t) == Missed(t) /\ Load(t, "acquire", "acquire")

TryFails(t) ==
    /\ Missed(t) /\ Go(t, "try", "idle") /\ Done(t)
    /\ UNCHANGED <<count, permits>>
-----------------------------------------------------------------------------
Release(t) == Load(t, "held", "release")
Post(t) == t \in Posters /\ Load(t, "idle", "post")

Give(t, new) ==
    /\ count' = count + 1
    /\ permits' = permits + new
    /\ pc' = [pc EXCEPT ![t] = "idle"] /\ Done(t)

\* the bound is checked on nothing
PutUnbounded(t) ==
    /\ count = current[t]
    /\ \/ pc[t] = "release" /\ Give(t, 0)
       \/ pc[t] = "post" /\ Give(t, 1)

\* release loops without trying
PutSpins(t) == UNCHANGED vars

Put(t) ==
    /\ count = current[t] /\ current[t] < max_count
    /\ \/ pc[t] = "release" /\ Give(t, 0)
       \/ pc[t] = "post" /\ Give(t, 1)

PutAgain(t) ==
    /\ count # current[t] /\ current[t] < max_count
    /\ \/ Load(t, "release", "release")
       \/ Load(t, "post", "post")

\* at max_count release returns and the permit is gone
AtMax(t) ==
    /\ current[t] >= max_count
    /\ \/ Go(t, "release", "idle") /\ permits' = permits - 1
       \/ Go(t, "post", "idle") /\ UNCHANGED permits
    /\ Done(t)
    /\ UNCHANGED count
-----------------------------------------------------------------------------
Calls(t) == Take(t) \/ AcquireAgain(t) \/ TryFails(t) \/ Put(t) \/ PutAgain(t) \/ AtMax(t)

Next == \E t \in Threads : Acquire(t) \/ TryAcquire(t) \/ Release(t) \/ Post(t) \/ Calls(t)

Spec == Init /\ [][Next]_vars
-----------------------------------------------------------------------------
\* Types of the counter and its threads.
TypeOK ==
    /\ count \in 0..max_count
    /\ pc \in [Threads -> {"idle", "acquire", "try", "held", "release", "post"}]
    /\ current \in [Threads -> 0..max_count]
    /\ permits \in Nat

Holders == {t \in Threads : pc[t] \in {"held", "release"}}

\* However loads and compare-exchanges interleave, acquire and release neither
\* make nor lose a permit: those free and those held are those there are.
PermitsConserved == count + Cardinality(Holders) = permits

\* acquire and release make progress together: while there are permits and a
\* thread waits in acquire, somebody gets a permit.  One thread may lose the race
\* for ever.
SomebodyGetsIn ==
    (permits > 0 /\ \E t \in Threads : pc[t] = "acquire") ~>
        ((\E t \in Threads : pc[t] = "held") \/ permits = 0)
=============================================================================
