------------------------------- MODULE Condvar ------------------------------
(***************************************************************************)
(* sync/mod.rs: the busy-waiting condition variable.  Each access to the   *)
(* flag or to the counter of waiters is a step.                            *)
(***************************************************************************)
EXTENDS Naturals, FiniteSets

CONSTANTS Waiters, Notifiers,
    MaxNotifications   \* bound: no notify begins after so many stores to `notified`

VARIABLES
    notified, waiters,
    pc, todo,          \* where each thread is, the stores notify_all has to go
    stores, woken      \* history: notifications made, waits ended

vars == <<notified, waiters, pc, todo, stores, woken>>

Init ==
    /\ notified = FALSE /\ waiters = 0
    /\ pc = [t \in Waiters \cup Notifiers |-> "idle"]
    /\ todo = [n \in Notifiers |-> 0]
    /\ stores = 0 /\ woken = 0

Go(t, from, to) == pc[t] = from /\ pc' = [pc EXCEPT ![t] = to]
-----------------------------------------------------------------------------
WaitEnter(t) ==
    /\ Go(t, "idle", "spin")
    /\ waiters' = waiters + 1
    /\ UNCHANGED <<notified, todo, stores, woken>>

\* a load in place of the swap
WaitTakeNoReset(t) ==
    /\ notified /\ Go(t, "spin", "leave")
    /\ woken' = woken + 1
    /\ UNCHANGED <<notified, waiters, todo, stores>>

\* the waiter does not look at the flag
WaitSpin(t) == UNCHANGED vars

\* notified.swap(false) returns true; while it returns false the wait goes on
WaitTake(t) ==
    /\ notified /\ Go(t, "spin", "leave")
    /\ notified' = FALSE /\ woken' = woken + 1
    /\ UNCHANGED <<waiters, todo, stores>>

WaitLeave(t) ==
    /\ Go(t, "leave", "idle")
    /\ waiters' = waiters - 1
    /\ UNCHANGED <<notified, todo, stores, woken>>

Notify == notified' = TRUE /\ stores' = stores + 1

NotifyOne(n) ==
    /\ pc[n] = "idle" /\ stores < MaxNotifications /\ Notify
    /\ UNCHANGED <<waiters, pc, todo, woken>>

NotifyAll(n) ==
    /\ stores < MaxNotifications /\ Go(n, "idle", "all")
    /\ todo' = [todo EXCEPT ![n] = waiters]
    /\ UNCHANGED <<notified, waiters, stores, woken>>

NotifyAllStore(n) ==
    /\ pc[n] = "all" /\ todo[n] > 0
    /\ Notify
    /\ todo' = [todo EXCEPT ![n] = @ - 1]
    /\ UNCHANGED <<waiters, pc, woken>>

NotifyAllDone(n) ==
    /\ todo[n] = 0 /\ Go(n, "all", "idle")
    /\ UNCHANGED <<notified, waiters, todo, stores, woken>>
-----------------------------------------------------------------------------
Waiter(t) == WaitTake(t) \/ WaitLeave(t)
Notifier(n) == NotifyAllStore(n) \/ NotifyAllDone(n)

Next ==
    \/ \E t \in Waiters : WaitEnter(t) \/ Waiter(t)
    \/ \E n \in Notifiers : NotifyOne(n) \/ NotifyAll(n) \/ Notifier(n)

Spec == Init /\ [][Next]_vars

\* a waiter waits that no notifier will notify: the bound is reached
Exhausted ==
    /\ stores >= MaxNotifications /\ ~notified
    /\ \A t \in Waiters : pc[t] = "spin"
    /\ \A n \in Notifiers : pc[n] = "idle"
-----------------------------------------------------------------------------
\* Types of the condition variable and its threads.
TypeOK ==
    /\ notified \in BOOLEAN /\ waiters \in 0..Cardinality(Waiters)
    /\ pc \in [Waiters \cup Notifiers -> {"idle", "spin", "leave", "all"}]
    /\ todo \in [Notifiers -> 0..Cardinality(Waiters)]
    /\ stores \in Nat /\ woken \in Nat

\* A notification ends at most one wait: the swap in wait uses it up.
OneWaitPerNotification == woken + (IF notified THEN 1 ELSE 0) <= stores

\* A notification that finds a waiter is used: some wait ends.
NotificationIsUsed ==
    (notified /\ \E t \in Waiters : pc[t] = "spin") ~> (\E t \in Waiters : pc[t] = "leave")
=============================================================================
