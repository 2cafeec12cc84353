-------------------------- MODULE AbstractChannel ---------------------------
(***************************************************************************)
(* What an IPC channel promises: a bounded FIFO.  A send is accepted only  *)
(* if it began while the channel was open, and every accepted message is   *)
(* handed out once, in the order of acceptance.                            *)
(***************************************************************************)
EXTENDS Naturals, Sequences

CONSTANTS Threads, Messages, Capacity

VARIABLES queue, open, sending  \* contents, whether open, sends in progress

vars == <<queue, open, sending>>

Init == queue = <<>> /\ open = TRUE /\ sending = {}

BeginSend(t) ==
    /\ open /\ t \notin sending
    /\ sending' = sending \cup {t}
    /\ UNCHANGED <<queue, open>>

Accept(t, m) ==
    /\ t \in sending /\ Len(queue) < Capacity
    /\ queue' = Append(queue, m)
    /\ sending' = sending \ {t}
    /\ UNCHANGED open

GiveUp(t) ==
    /\ t \in sending
    /\ sending' = sending \ {t}
    /\ UNCHANGED <<queue, open>>

Receive ==
    /\ queue # <<>>
    /\ queue' = Tail(queue)
    /\ UNCHANGED <<open, sending>>

Close == open /\ open' = FALSE /\ UNCHANGED <<queue, sending>>

Next ==
    \/ Receive \/ Close
    \/ \E t \in Threads : BeginSend(t) \/ GiveUp(t) \/ \E m \in Messages : Accept(t, m)

Spec == Init /\ [][Next]_vars
=============================================================================
