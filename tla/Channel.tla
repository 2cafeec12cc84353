------------------------------ MODULE Channel -------------------------------
(***************************************************************************)
(* ipc/mod.rs: one Channel, its ring buffer and its two wait queues.  A    *)
(* step is one critical section (the buffer lock, a wait queue's lock, the *)
(* process table's lock) or one access to `closed`.  yield_cpu returns to  *)
(* its caller, so wait() does too; what being Blocked means for the        *)
(* scheduler is Scheduler's subject.  The registry CHANNELS is left out.   *)
(***************************************************************************)
EXTENDS Naturals, Sequences, FiniteSets

CONSTANTS
    Threads,     \* callers, named by their pid
    Kernel,      \* the sets of callers that may have no pid
    Messages,
    NoMessage,   \* None
    NoThread,    \* the buffer lock is free
    Capacity,    \* CHANNEL_CAPACITY
    MaxWaiters   \* how much of a wait queue's growing Vec is recorded

ASSUME ChannelAssumption ==
    /\ Capacity \in Nat \ {0} /\ MaxWaiters \in Nat
    /\ NoMessage \notin Messages /\ NoThread \notin Threads
    /\ Kernel \subseteq SUBSET Threads

VARIABLES
    messages, head, tail, count,  \* MessageBuffer
    lock,                         \* holder of the buffer lock between steps
    closed,
    anonymous,                    \* the callers for which get_current_pid is None
    waiters,                      \* send_waiters and recv_waiters
    blocked,                      \* processes in state Blocked
    pc, msg, wq, woken            \* locals: the message, the wait queue in use, pids to wake

ring == <<messages, head, tail, count>>
local == <<pc, msg, wq, woken>>
vars == <<ring, lock, closed, anonymous, waiters, blocked, local>>

Queues == {"send", "recv"}
SendPC == {"send_push", "send_check"}
PC == {"idle", "recv_pop", "recv_check", "wait_push", "wait_block", "wake_take",
       "wake_ready", "close_flag", "close_take", "close_ready"} \cup SendPC

Init ==
    /\ messages = [i \in 0..(Capacity - 1) |-> NoMessage]
    /\ head = 0 /\ tail = 0 /\ count = 0
    /\ lock = NoThread /\ closed = FALSE
    /\ waiters = [q \in Queues |-> <<>>] /\ blocked = {}
    /\ anonymous \in Kernel
    /\ pc = [t \in Threads |-> "idle"]
    /\ msg = [t \in Threads |-> NoMessage]
    /\ wq = [t \in Threads |-> "send"]
    /\ woken = [t \in Threads |-> {}]

Goto(t, from, to) == pc[t] = from /\ pc' = [pc EXCEPT ![t] = to]

\* the call returns and its locals die
Return(t, from) ==
    /\ Goto(t, from, "idle")
    /\ msg' = [msg EXCEPT ![t] = NoMessage]
    /\ wq' = [wq EXCEPT ![t] = "send"]
    /\ woken' = [woken EXCEPT ![t] = {}]

\* on with the named wait queue
With(t, from, to, q) ==
    /\ Goto(t, from, to)
    /\ wq' = [wq EXCEPT ![t] = q]
    /\ UNCHANGED <<msg, woken>>
-----------------------------------------------------------------------------
(* MessageBuffer                                                           *)

\* an index that wraps one slot early
SuccShort(i) == (i + 1) % (Capacity - 1)

Succ(i) == (i + 1) % Capacity

\* a full test that lets one message too many in
IsFullLate == count > Capacity

IsFull == count >= Capacity

Push(m) ==
    /\ messages' = [messages EXCEPT ![tail] = m]
    /\ tail' = Succ(tail)
    /\ count' = count + 1
    /\ UNCHANGED head

\* a pop that forgets to move head
PopStays ==
    /\ messages' = [messages EXCEPT ![head] = NoMessage]
    /\ count' = count - 1
    /\ UNCHANGED <<head, tail>>

Pop ==
    /\ messages' = [messages EXCEPT ![head] = NoMessage]
    /\ head' = Succ(head)
    /\ count' = count - 1
    /\ UNCHANGED tail
-----------------------------------------------------------------------------
(* channel_send, Channel::send                                             *)

Send(t, m) ==
    /\ ~closed
    /\ Goto(t, "idle", "send_push")
    /\ msg' = [msg EXCEPT ![t] = m]
    /\ UNCHANGED <<ring, lock, closed, anonymous, waiters, blocked, wq, woken>>

\* a full buffer: a caller with no pid gives up, the others wait
SendPush(t) ==
    /\ lock = NoThread
    /\ IF IsFull
         THEN /\ IF t \in anonymous THEN Return(t, "send_push")
                                    ELSE With(t, "send_push", "wait_push", "send")
              /\ UNCHANGED ring
         ELSE Push(msg[t]) /\ With(t, "send_push", "wake_take", "recv")
    /\ UNCHANGED <<lock, closed, anonymous, waiters, blocked>>

\* a sender that goes back to the buffer without looking at `closed`
SendCheckNever(t) ==
    /\ Goto(t, "send_check", "send_push") /\ UNCHANGED <<msg, wq, woken>>
    /\ UNCHANGED <<ring, lock, closed, anonymous, waiters, blocked>>

\* "Check if closed while waiting"
SendCheck(t) ==
    /\ IF closed THEN Return(t, "send_check")
                 ELSE Goto(t, "send_check", "send_push") /\ UNCHANGED <<msg, wq, woken>>
    /\ UNCHANGED <<ring, lock, closed, anonymous, waiters, blocked>>
-----------------------------------------------------------------------------
(* channel_recv, Channel::recv and try_recv                                *)

Recv(t) ==
    /\ Goto(t, "idle", "recv_pop")
    /\ UNCHANGED <<ring, lock, closed, anonymous, waiters, blocked, msg, wq, woken>>

RecvPop(t) ==
    /\ lock = NoThread
    /\ IF count = 0
         THEN Goto(t, "recv_pop", "recv_check") /\ UNCHANGED <<ring, msg, wq, woken>>
         ELSE Pop /\ With(t, "recv_pop", "wake_take", "send")
    /\ UNCHANGED <<lock, closed, anonymous, waiters, blocked>>

RecvCheck(t) ==
    /\ IF closed \/ t \in anonymous THEN Return(t, "recv_check")
                                    ELSE With(t, "recv_check", "wait_push", "recv")
    /\ UNCHANGED <<ring, lock, closed, anonymous, waiters, blocked>>

\* try_recv takes a message and keeps the buffer lock while it wakes a sender
TryRecv(t) ==
    /\ lock = NoThread /\ count # 0
    /\ Pop
    /\ lock' = t
    /\ With(t, "idle", "wake_take", "send")
    /\ UNCHANGED <<closed, anonymous, waiters, blocked>>
-----------------------------------------------------------------------------
(* WaitQueue                                                               *)

WaitPush(t) ==
    /\ waiters' = [waiters EXCEPT ![wq[t]] = IF Len(@) < MaxWaiters THEN Append(@, t) ELSE @]
    /\ Goto(t, "wait_push", "wait_block")
    /\ UNCHANGED <<ring, lock, closed, anonymous, blocked, msg, wq, woken>>

WaitBlock(t) ==
    /\ blocked' = blocked \cup {t}
    /\ Goto(t, "wait_block", IF wq[t] = "send" THEN "send_check" ELSE "recv_pop")
    /\ UNCHANGED <<ring, lock, closed, anonymous, waiters, msg, wq, woken>>

\* wake_one; when the queue is empty the call, send, recv or try_recv, is over
WakeTake(t) ==
    /\ IF waiters[wq[t]] = <<>>
         THEN /\ Return(t, "wake_take")
              /\ lock' = IF lock = t THEN NoThread ELSE lock
              /\ UNCHANGED waiters
         ELSE /\ Goto(t, "wake_take", "wake_ready")
              /\ woken' = [woken EXCEPT ![t] = {Head(waiters[wq[t]])}]
              /\ waiters' = [waiters EXCEPT ![wq[t]] = Tail(@)]
              /\ UNCHANGED <<lock, msg, wq>>
    /\ UNCHANGED <<ring, closed, anonymous, blocked>>

WakeReady(t) ==
    /\ Return(t, "wake_ready")
    /\ blocked' = blocked \ woken[t]
    /\ lock' = IF lock = t THEN NoThread ELSE lock
    /\ UNCHANGED <<ring, closed, anonymous, waiters>>
-----------------------------------------------------------------------------
(* Channel::close                                                          *)

Close(t) ==
    /\ Goto(t, "idle", "close_flag")
    /\ UNCHANGED <<ring, lock, closed, anonymous, waiters, blocked, msg, wq, woken>>

CloseFlag(t) ==
    /\ closed' = TRUE
    /\ With(t, "close_flag", "close_take", "send")
    /\ UNCHANGED <<ring, lock, anonymous, waiters, blocked>>

\* wake_all, of the senders and then of the receivers
CloseTake(t) ==
    /\ Goto(t, "close_take", "close_ready")
    /\ woken' = [woken EXCEPT ![t] = {waiters[wq[t]][k] : k \in 1..Len(waiters[wq[t]])}]
    /\ waiters' = [waiters EXCEPT ![wq[t]] = <<>>]
    /\ UNCHANGED <<ring, lock, closed, anonymous, blocked, msg, wq>>

CloseReady(t) ==
    /\ blocked' = blocked \ woken[t]
    /\ IF wq[t] = "send" THEN With(t, "close_ready", "close_take", "recv")
                         ELSE Return(t, "close_ready")
    /\ UNCHANGED <<ring, lock, closed, anonymous, waiters>>
-----------------------------------------------------------------------------
\* send on a closed channel and try_recv on an empty one fail at once
Refused(t) ==
    /\ pc[t] = "idle" /\ (closed \/ count = 0)
    /\ UNCHANGED vars

Call(t) ==
    \/ \E m \in Messages : Send(t, m)
    \/ Recv(t) \/ TryRecv(t) \/ Close(t) \/ Refused(t)

Step(t) ==
    \/ SendPush(t) \/ SendCheck(t) \/ RecvPop(t) \/ RecvCheck(t)
    \/ WaitPush(t) \/ WaitBlock(t) \/ WakeTake(t) \/ WakeReady(t)
    \/ CloseFlag(t) \/ CloseTake(t) \/ CloseReady(t)

Next == \E t \in Threads : Call(t) \/ Step(t)

Spec == Init /\ [][Next]_vars

\* a call that has begun keeps running
FairSpec == Spec /\ \A t \in Threads : WF_vars(Step(t))
-----------------------------------------------------------------------------
\* Types of the ring, the wait queues and the callers.
TypeOK ==
    /\ messages \in [0..(Capacity - 1) -> Messages \cup {NoMessage}]
    /\ head \in 0..(Capacity - 1) /\ tail \in 0..(Capacity - 1) /\ count \in 0..Capacity
    /\ lock \in Threads \cup {NoThread} /\ closed \in BOOLEAN
    /\ waiters \in [Queues -> Seq(Threads)] /\ blocked \subseteq Threads
    /\ anonymous \in Kernel
    /\ pc \in [Threads -> PC] /\ msg \in [Threads -> Messages \cup {NoMessage}]
    /\ wq \in [Threads -> Queues] /\ woken \in [Threads -> SUBSET Threads]

\* the messages in the ring, oldest first
Contents == [k \in 1..count |-> messages[(head + k - 1) % Capacity]]

InSend(t) ==
    \/ pc[t] \in SendPC
    \/ pc[t] \in {"wait_push", "wait_block"} /\ wq[t] = "send"

Abstract == INSTANCE AbstractChannel WITH
    queue <- Contents, open <- ~closed, sending <- {t \in Threads : InSend(t)}

\* The ring buffer with its head, tail and count, and the race of send and
\* close, implement the bounded FIFO: nothing is lost, doubled or reordered,
\* and what is accepted after close had begun before it.
ImplementsChannel == Abstract!Spec

\* Closing releases everyone: a call in progress, blocked in a wait queue or
\* about to block, returns.
CloseReleasesAll == \A t \in Threads : closed ~> pc[t] = "idle"
=============================================================================
