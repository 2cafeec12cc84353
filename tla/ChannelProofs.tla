---------------------------- MODULE ChannelProofs ---------------------------
(***************************************************************************)
(* The channel implements the bounded FIFO, for any callers, any messages  *)
(* and any capacity.                                                       *)
(***************************************************************************)
EXTENDS Channel, TLAPS

Slots == 0..(Capacity - 1)
Sending == {t \in Threads : InSend(t)}

\* the remainder of an index that has gone round at most once
Mod(n) == IF n < Capacity THEN n ELSE n - Capacity

\* the ring: tail is where head and count say
RingOK ==
    /\ messages \in [Slots -> Messages \cup {NoMessage}]
    /\ head \in Slots /\ tail = Mod(head + count) /\ count \in 0..Capacity

\* the callers: who is in send has a message to send
CallersOK ==
    /\ pc \in [Threads -> PC] /\ wq \in [Threads -> Queues]
    /\ msg \in [Threads -> Messages \cup {NoMessage}]
    /\ \A t \in Sending : msg[t] \in Messages

\* The inductive invariant.  ImplementsChannel needs it for the slot that push fills to be
\* the one behind the newest message, and for what push stores to be a message.
IInv == RingOK /\ CallersOK /\ closed \in BOOLEAN

\* what the ring holds, with the remainders worked out
ContentsRight == Contents = [k \in 1..count |-> messages[Mod(head + (k - 1))]]
-----------------------------------------------------------------------------
\* The capacity is positive.
LEMMA CapacityPositive == Capacity \in Nat \ {0}
  BY ChannelAssumption

\* Mod is the remainder.
LEMMA Wrap == ASSUME NEW n \in 0..(2 * Capacity - 1) PROVE n % Capacity = Mod(n)
  BY CapacityPositive, Z3 DEF Mod

\* The slot of the k-th message is one of the ring's.
LEMMA Slot ==
  ASSUME NEW h \in Slots, NEW k \in 0..Capacity
  PROVE  (h + k) % Capacity = Mod(h + k) /\ Mod(h + k) \in Slots
<1> USE CapacityPositive DEF Slots
<1>1. h + k \in 0..(2 * Capacity - 1)
  OBVIOUS
<1>2. (h + k) % Capacity = Mod(h + k)
  BY <1>1, Wrap
<1>3. Mod(h + k) \in Slots
  BY <1>1 DEF Mod
<1> QED BY <1>2, <1>3

\* The remainders of a sound ring.
LEMMA ContentsSlots == RingOK => ContentsRight
<1> SUFFICES ASSUME head \in Slots, count \in 0..Capacity PROVE ContentsRight
  BY DEF RingOK
<1>1. ASSUME NEW k \in 1..count PROVE (head + k - 1) % Capacity = Mod(head + (k - 1))
  <2>1. k - 1 \in 0..Capacity /\ head + k - 1 = head + (k - 1)
    BY CapacityPositive DEF Slots
  <2> QED BY <2>1, Slot
<1> QED BY <1>1 DEF Contents, ContentsRight

\* MessageBuffer::push appends to what the ring holds.
LEMMA PushAppends ==
  ASSUME RingOK, ~IsFull, NEW m \in Messages, Push(m)
  PROVE  RingOK' /\ Contents' = Append(Contents, m) /\ Len(Contents) < Capacity
<1> USE CapacityPositive
<1>1. /\ head \in Slots /\ tail = Mod(head + count) /\ count \in 0..(Capacity - 1)
      /\ messages \in [Slots -> Messages \cup {NoMessage}]
      /\ count' = count + 1 /\ head' = head /\ messages' = [messages EXCEPT ![tail] = m]
  BY DEF Push, IsFull, RingOK
<1>2. tail \in Slots /\ tail' = Mod(tail + 1)
  BY <1>1, Slot DEF Push, Succ
<1>3. tail' = Mod(head' + count')
  BY <1>1, <1>2 DEF Mod, Slots
<1>4. \A k \in 0..(count - 1) : Mod(head + k) \in Slots /\ Mod(head + k) # tail
  BY <1>1 DEF Mod, Slots
<1>5. RingOK'
  BY <1>1, <1>2, <1>3 DEF RingOK
<1>6. /\ Contents = [k \in 1..count |-> messages[Mod(head + (k - 1))]]
      /\ Contents' = [k \in 1..(count + 1) |-> messages'[Mod(head + (k - 1))]]
  <2>1. ContentsRight /\ ContentsRight'
    BY <1>5, ContentsSlots, PTL
  <2> QED BY <2>1, <1>1 DEF ContentsRight
<1>7. \A k \in 1..count : messages'[Mod(head + (k - 1))] = messages[Mod(head + (k - 1))]
  BY <1>1, <1>4
<1>8. messages'[Mod(head + ((count + 1) - 1))] = m
  BY <1>1, <1>2 DEF Slots
<1>9. Contents' = Append(Contents, m) /\ Len(Contents) = count
  BY <1>1, <1>6, <1>7, <1>8
<1> QED BY <1>1, <1>5, <1>9

\* MessageBuffer::pop removes the oldest of what the ring holds.
LEMMA PopTakesHead ==
  ASSUME RingOK, count # 0, Pop
  PROVE  RingOK' /\ Contents' = Tail(Contents) /\ Contents # <<>>
<1> USE CapacityPositive
<1>1. /\ head \in Slots /\ tail = Mod(head + count) /\ count \in 1..Capacity
      /\ messages \in [Slots -> Messages \cup {NoMessage}]
      /\ count' = count - 1 /\ tail' = tail /\ messages' = [messages EXCEPT ![head] = NoMessage]
  BY DEF Pop, RingOK
<1>2. head' = Mod(head + 1) /\ head' \in Slots
  BY <1>1, Slot DEF Pop, Succ
<1>3. tail' = Mod(head' + count')
  BY <1>1, <1>2 DEF Mod, Slots
<1>4. \A k \in 1..count' : /\ Mod(head' + (k - 1)) = Mod(head + k)
                           /\ Mod(head + k) \in Slots /\ Mod(head + k) # head
  BY <1>1, <1>2 DEF Mod, Slots
<1>5. RingOK'
  BY <1>1, <1>2, <1>3 DEF RingOK
<1>6. ContentsRight /\ ContentsRight'
  BY <1>5, ContentsSlots, PTL
<1>7. /\ Contents = [k \in 1..count |-> messages[Mod(head + (k - 1))]]
      /\ Contents' = [k \in 1..(count - 1) |-> messages'[Mod(head' + (k - 1))]]
  BY <1>1, <1>6 DEF ContentsRight
<1>8. \A k \in 1..count' : messages'[Mod(head' + (k - 1))] = messages[Mod(head + ((k + 1) - 1))]
  BY <1>1, <1>4
<1>9. Contents' = Tail(Contents) /\ Contents # <<>>
  <2>0. Len(Contents) = count
    BY <1>1, <1>7
  <2>1. Contents # <<>>
    BY <1>1, <2>0
  <2>2. Tail(Contents) = [k \in 1..(count - 1) |-> Contents[k + 1]]
    BY <1>1, <1>7, <2>0
  <2>3. \A k \in 1..(count - 1) : Contents[k + 1] = messages[Mod(head + ((k + 1) - 1))]
    BY <1>1, <1>7
  <2>4. \A k \in 1..(count - 1) : messages'[Mod(head' + (k - 1))] = Contents[k + 1]
    BY <1>1, <1>8, <2>3
  <2>5. Contents' = [k \in 1..(count - 1) |-> Contents[k + 1]]
    BY <1>7, <2>4
  <2> QED BY <2>1, <2>2, <2>5
<1> QED BY <1>5, <1>9
-----------------------------------------------------------------------------
(* The steps that change neither the ring, nor `closed`, nor who is in send *)

Quiet(t) ==
    \/ Recv(t) \/ Close(t) \/ Refused(t) \/ RecvCheck(t) \/ WaitPush(t) \/ WaitBlock(t)
    \/ WakeTake(t) \/ WakeReady(t) \/ CloseTake(t) \/ CloseReady(t)

\* A quiet step leaves the abstract channel as it is.
LEMMA QuietStutters ==
  ASSUME IInv, NEW t \in Threads, Quiet(t)
  PROVE  IInv' /\ UNCHANGED <<ring, closed, Sending>>
<1>0. UNCHANGED <<ring, closed>>
  BY DEF Quiet, Recv, Close, Refused, RecvCheck, WaitPush, WaitBlock, WakeTake, WakeReady,
         CloseTake, CloseReady, vars
<1>1. RingOK' /\ closed' \in BOOLEAN
  BY <1>0 DEF IInv, RingOK, Mod, ring
<1> USE DEF IInv, CallersOK, PC, SendPC, Queues, Sending, InSend
<1>2. CallersOK' /\ Sending' = Sending
  <2>1. CASE Recv(t) \/ Close(t)
    BY <2>1 DEF Recv, Close, Goto
  <2>2. CASE Refused(t)
    BY <2>2 DEF Refused, vars, local
  <2>3. CASE RecvCheck(t)
    BY <2>3 DEF RecvCheck, Return, With, Goto
  <2>4. CASE WaitPush(t)
    BY <2>4 DEF WaitPush, Goto
  <2>5. CASE WaitBlock(t)
    BY <2>5 DEF WaitBlock, Goto
  <2>6. CASE WakeTake(t)
    BY <2>6 DEF WakeTake, Return, Goto
  <2>7. CASE WakeReady(t)
    BY <2>7 DEF WakeReady, Return, Goto
  <2>8. CASE CloseTake(t)
    BY <2>8 DEF CloseTake, Goto
  <2>9. CASE CloseReady(t)
    BY <2>9 DEF CloseReady, Return, With, Goto
  <2> QED BY <2>1, <2>2, <2>3, <2>4, <2>5, <2>6, <2>7, <2>8, <2>9 DEF Quiet
<1> QED BY <1>0, <1>1, <1>2
-----------------------------------------------------------------------------
\* The contents depend on the ring only.
LEMMA SameContents == ASSUME UNCHANGED ring PROVE Contents' = Contents
  BY DEF ring, Contents

\* A new channel is the empty FIFO and satisfies the invariant.
LEMMA InitRefines == Init => IInv /\ Abstract!Init
<1> SUFFICES ASSUME Init PROVE IInv /\ Abstract!Init
  OBVIOUS
<1>1. RingOK
  BY CapacityPositive DEF Init, RingOK, Slots, Mod
<1>2. Sending = {}
  BY DEF Init, Sending, InSend, SendPC
<1>3. CallersOK
  BY <1>2 DEF Init, CallersOK, PC, Queues
<1>4. Contents = <<>>
  BY DEF Init, Contents
<1> QED BY <1>1, <1>2, <1>3, <1>4 DEF Init, IInv, Abstract!Init, Sending

\* Every step of a caller is a step of the FIFO, or none, and keeps the invariant.
LEMMA NextRefines ==
  IInv /\ [Next]_vars => IInv' /\ [Abstract!Next]_<<Contents, ~closed, Sending>>
<1> SUFFICES ASSUME IInv, [Next]_vars
             PROVE  IInv' /\ [Abstract!Next]_<<Contents, ~closed, Sending>>
  OBVIOUS
<1> DEFINE Good == IInv' /\ [Abstract!Next]_<<Contents, ~closed, Sending>>
<1>1. CASE UNCHANGED vars
  <2>1. UNCHANGED <<ring, closed, Sending>>
    BY <1>1 DEF vars, local, Sending, InSend
  <2>2. IInv'
    BY <1>1, <2>1 DEF vars, local, ring, IInv, RingOK, Mod, CallersOK
  <2> QED BY <2>1, <2>2, SameContents
<1>2. ASSUME NEW t \in Threads, Quiet(t) PROVE Good
  BY <1>2, QuietStutters, SameContents
<1>3. ASSUME NEW t \in Threads, NEW m \in Messages, Send(t, m) PROVE Good
  <2>1. ~closed /\ UNCHANGED <<ring, closed>> /\ Contents' = Contents
    BY <1>3, SameContents DEF Send
  <2>2. t \notin Sending /\ Sending' = Sending \cup {t}
    BY <1>3 DEF Send, Goto, Sending, InSend, SendPC, IInv, CallersOK, PC
  <2>3. CallersOK'
    BY <1>3, <2>2 DEF Send, Goto, IInv, CallersOK, PC, SendPC, Sending
  <2>4. IInv'
    BY <2>1, <2>3 DEF IInv, RingOK, Mod, ring
  <2>5. Abstract!BeginSend(t)
    BY <2>1, <2>2 DEF Abstract!BeginSend, Sending
  <2> QED BY <2>4, <2>5 DEF Abstract!Next
<1>4. ASSUME NEW t \in Threads, SendPush(t) PROVE Good
  <2>0. t \in Sending /\ msg[t] \in Messages /\ closed' = closed /\ pc[t] = "send_push"
    BY <1>4 DEF SendPush, Return, With, Goto, IInv, CallersOK, Sending, InSend, SendPC
  <2>1. CASE IsFull /\ t \in anonymous
    <3>1. Return(t, "send_push") /\ UNCHANGED ring /\ Contents' = Contents
      BY <1>4, <2>1, SameContents DEF SendPush
    <3>2. Sending' = Sending \ {t}
      BY <3>1 DEF Return, Goto, Sending, InSend, SendPC, IInv, CallersOK
    <3>3. CallersOK'
      BY <3>1, <3>2 DEF Return, Goto, IInv, CallersOK, PC, Queues, Sending
    <3>4. IInv'
      BY <2>0, <3>1, <3>3 DEF IInv, RingOK, Mod, ring
    <3>5. Abstract!GiveUp(t)
      BY <2>0, <3>1, <3>2 DEF Abstract!GiveUp, Sending
    <3> QED BY <3>4, <3>5 DEF Abstract!Next
  <2>2. CASE IsFull /\ t \notin anonymous
    <3>1. With(t, "send_push", "wait_push", "send") /\ UNCHANGED ring /\ Contents' = Contents
      BY <1>4, <2>2, SameContents DEF SendPush
    <3>2. Sending' = Sending
      BY <3>1 DEF With, Goto, Sending, InSend, SendPC, IInv, CallersOK
    <3>3. CallersOK'
      BY <3>1, <3>2 DEF With, Goto, IInv, CallersOK, PC, Queues, Sending
    <3>4. IInv'
      BY <2>0, <3>1, <3>3 DEF IInv, RingOK, Mod, ring
    <3> QED BY <2>0, <3>1, <3>2, <3>4
  <2>3. CASE ~IsFull
    <3>1. Push(msg[t]) /\ With(t, "send_push", "wake_take", "recv")
      BY <1>4, <2>3 DEF SendPush
    <3>2. RingOK' /\ Contents' = Append(Contents, msg[t]) /\ Len(Contents) < Capacity
      BY <2>0, <2>3, <3>1, PushAppends DEF IInv
    <3>3. Sending' = Sending \ {t}
      BY <3>1 DEF With, Goto, Sending, InSend, SendPC, IInv, CallersOK
    <3>4. CallersOK'
      BY <3>1, <3>3 DEF With, Goto, IInv, CallersOK, PC, Queues, Sending
    <3>5. Abstract!Accept(t, msg[t])
      BY <2>0, <3>2, <3>3 DEF Abstract!Accept, Sending
    <3>6. IInv'
      BY <2>0, <3>2, <3>4 DEF IInv
    <3> QED BY <2>0, <3>5, <3>6 DEF Abstract!Next
  <2> QED BY <2>1, <2>2, <2>3
<1>5. ASSUME NEW t \in Threads, SendCheck(t) PROVE Good
  <2>0. t \in Sending /\ UNCHANGED <<ring, closed>> /\ Contents' = Contents
    BY <1>5, SameContents DEF SendCheck, Return, Goto, Sending, InSend, SendPC
  <2>1. CASE closed
    <3>1. Return(t, "send_check")
      BY <1>5, <2>1 DEF SendCheck
    <3>2. Sending' = Sending \ {t}
      BY <3>1 DEF Return, Goto, Sending, InSend, SendPC, IInv, CallersOK
    <3>3. CallersOK'
      BY <3>1, <3>2 DEF Return, Goto, IInv, CallersOK, PC, Queues, Sending
    <3>4. IInv'
      BY <2>0, <3>3 DEF IInv, RingOK, Mod, ring
    <3>5. Abstract!GiveUp(t)
      BY <2>0, <3>2 DEF Abstract!GiveUp, Sending
    <3> QED BY <3>4, <3>5 DEF Abstract!Next
  <2>2. CASE ~closed
    <3>1. Goto(t, "send_check", "send_push") /\ UNCHANGED <<msg, wq>>
      BY <1>5, <2>2 DEF SendCheck
    <3>2. Sending' = Sending
      BY <3>1 DEF Goto, Sending, InSend, SendPC, IInv, CallersOK
    <3>3. CallersOK'
      BY <3>1, <3>2 DEF Goto, IInv, CallersOK, PC, SendPC, Sending
    <3>4. IInv'
      BY <2>0, <3>3 DEF IInv, RingOK, Mod, ring
    <3> QED BY <2>0, <3>2, <3>4
  <2> QED BY <2>1, <2>2
<1>6. ASSUME NEW t \in Threads, RecvPop(t) \/ TryRecv(t) PROVE Good
  <2>0. closed' = closed
    BY <1>6 DEF RecvPop, TryRecv
  <2>1. /\ Sending' = Sending /\ CallersOK'
    <3>1. CASE RecvPop(t)
      BY <3>1 DEF RecvPop, With, Goto, IInv, CallersOK, PC, Queues, Sending, InSend, SendPC
    <3>2. CASE TryRecv(t)
      BY <3>2 DEF TryRecv, With, Goto, IInv, CallersOK, PC, Queues, Sending, InSend, SendPC
    <3> QED BY <1>6, <3>1, <3>2
  <2>2. CASE count = 0
    <3>1. UNCHANGED ring
      BY <1>6, <2>2 DEF RecvPop, TryRecv
    <3>2. IInv'
      BY <2>0, <2>1, <3>1 DEF IInv, RingOK, Mod, ring
    <3> QED BY <2>0, <2>1, <3>1, <3>2, SameContents
  <2>3. CASE count # 0
    <3>1. Pop
      BY <1>6, <2>3 DEF RecvPop, TryRecv
    <3>2. RingOK' /\ Contents' = Tail(Contents) /\ Contents # <<>>
      BY <2>3, <3>1, PopTakesHead DEF IInv
    <3>3. Abstract!Receive
      BY <2>0, <2>1, <3>2 DEF Abstract!Receive, Sending
    <3> QED BY <2>0, <2>1, <3>2, <3>3 DEF IInv, Abstract!Next
  <2> QED BY <2>2, <2>3
<1>7. ASSUME NEW t \in Threads, CloseFlag(t) PROVE Good
  <2>1. UNCHANGED ring /\ closed' = TRUE /\ Contents' = Contents
    BY <1>7, SameContents DEF CloseFlag
  <2>2. Sending' = Sending /\ CallersOK'
    BY <1>7 DEF CloseFlag, With, Goto, IInv, CallersOK, PC, Queues, Sending, InSend, SendPC
  <2>3. IInv'
    BY <2>1, <2>2 DEF IInv, RingOK, Mod, ring
  <2>4. CASE closed
    BY <2>1, <2>2, <2>3, <2>4
  <2>5. CASE ~closed
    <3>1. Abstract!Close
      BY <2>1, <2>2, <2>5 DEF Abstract!Close, Sending
    <3> QED BY <2>3, <3>1 DEF Abstract!Next
  <2> QED BY <2>4, <2>5
<1> QED BY <1>1, <1>2, <1>3, <1>4, <1>5, <1>6, <1>7 DEF Next, Call, Step, Quiet

\* Channel::send, recv, try_recv and close implement the bounded FIFO: whatever the callers'
\* steps, nothing is lost, doubled or reordered, no more than the capacity waits, and what
\* is accepted after close had begun before it.
THEOREM Refinement == Spec => ImplementsChannel
  BY InitRefines, NextRefines, PTL
  DEF Spec, ImplementsChannel, Abstract!Spec, Abstract!vars, Sending
=============================================================================
