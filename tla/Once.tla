-------------------------------- MODULE Once --------------------------------
(***************************************************************************)
(* sync/mod.rs: call_once.  Each access to `state` is a step, the call of  *)
(* the function takes two.                                                 *)
(***************************************************************************)
EXTENDS Naturals, FiniteSets

CONSTANTS Threads

VARIABLES
    state,
    pc,
    called, finished   \* history: calls of the function begun and ended

vars == <<state, pc, called, finished>>

Init ==
    /\ state = "uninit" /\ called = 0 /\ finished = 0
    /\ pc = [t \in Threads |-> "check"]

Go(t, from, to) == pc[t] = from /\ pc' = [pc EXCEPT ![t] = to]

Check(t) ==
    /\ Go(t, "check", IF state = "complete" THEN "returned" ELSE "cas")
    /\ UNCHANGED <<state, called, finished>>

Enter(t) ==
    /\ IF state = "uninit" THEN Go(t, "cas", "call") /\ state' = "running"
                           ELSE Go(t, "cas", "wait") /\ UNCHANGED state
    /\ UNCHANGED <<called, finished>>

Call(t) ==
    /\ Go(t, "call", "calling")
    /\ called' = called + 1
    /\ UNCHANGED <<state, finished>>

CallReturns(t) ==
    /\ Go(t, "calling", "complete")
    /\ finished' = finished + 1
    /\ UNCHANGED <<state, called>>

\* an exchange that expects the state before the call, tried for ever
CompleteSpins(t) == pc[t] = "complete" /\ state # "uninit" /\ UNCHANGED vars

Complete(t) ==
    /\ Go(t, "complete", "returned")
    /\ state' = "complete"
    /\ UNCHANGED <<called, finished>>

\* the wait ends as soon as somebody runs the function
WaitEndsEarly(t) ==
    /\ state # "uninit" /\ Go(t, "wait", "returned")
    /\ UNCHANGED <<state, called, finished>>

Wait(t) ==
    /\ state = "complete" /\ Go(t, "wait", "returned")
    /\ UNCHANGED <<state, called, finished>>
-----------------------------------------------------------------------------
Thread(t) == Check(t) \/ Enter(t) \/ Call(t) \/ CallReturns(t) \/ Complete(t) \/ Wait(t)

Next == \E t \in Threads : Thread(t)

Spec == Init /\ [][Next]_vars
-----------------------------------------------------------------------------
\* Types of the state of the cell and its callers.
TypeOK ==
    /\ state \in {"uninit", "running", "complete"}
    /\ pc \in [Threads -> {"check", "cas", "call", "calling", "complete", "wait", "returned"}]
    /\ called \in Nat /\ finished \in 0..called

\* "Call the function exactly once": it is called at most once, and whoever returns
\* from call_once finds that it has finished.
ExactlyOnce ==
    /\ called <= 1
    /\ (\E t \in Threads : pc[t] = "returned") => finished = 1

\* everybody has returned, those that found the function running included
AllReturned == \A t \in Threads : pc[t] = "returned"
=============================================================================
