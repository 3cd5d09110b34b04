---------------------------- MODULE ChannelProofs ----------------------------
(***************************************************************************)
(* Theorems about Channel for every number of senders, sends and faults.   *)
(* IInv is the inductive invariant: who holds the mutex decides where each *)
(* thread is (MutexInv), and what the pipe holds is accounted for by what  *)
(* waits, by a sender between signalling and pushing, and by failed reads  *)
(* (SignalInv).                                                            *)
(***************************************************************************)
EXTENDS Channel, TLAPS, SequenceTheorems

Pushing == \E s \in Senders : sender[s] = "pushing"
Draining == receiver \in {"draining", "stuck"}

CallsInv == \A s \in Senders : sender[s] # "idle" => calls[s] >= 1

MutexInv ==
  /\ \A s \in Senders : holder = s <=> sender[s] \in {"signalling", "pushing"}
  /\ holder = "receiver" <=> receiver \in {"reading", "draining", "stuck"}
  /\ poisoned => /\ holder = "nobody" /\ queue = <<>>

SignalInv ==
  /\ Pushing => pipe > 0
  /\ queue # <<>> /\ ~Draining => pipe > 0
  /\ receiver \in {"locking", "reading"} => pipe > 0
  /\ pipe <= badReads + IF (queue # <<>> \/ Pushing) /\ ~Draining THEN 1 ELSE 0

IInv == TypeOK /\ CallsInv /\ MutexInv /\ SignalInv

------------------------------------------------------------------------------
(* A message that is being sent has not been numbered before its call. *)
LEMMA CurrentIsMsg ==
  ASSUME TypeOK, CallsInv, NEW s \in Senders, sender[s] # "idle"
  PROVE  Current(s) \in Msg
BY ChannelAssumption DEF TypeOK, CallsInv, Current, Msg

(* Moving the head of a queue to the end of another keeps both sequences. *)
LEMMA MoveHead ==
  ASSUME NEW S, NEW d \in Seq(S), NEW q \in Seq(S), q # <<>>
  PROVE  Append(d, Head(q)) \in Seq(S) /\ Tail(q) \in Seq(S)
BY HeadTailProperties, AppendProperties

(* A channel starts empty, unlocked and unsignalled. *)
LEMMA InitIInv == Init => IInv
<1> SUFFICES ASSUME Init PROVE IInv
  OBVIOUS
<1>1. TypeOK /\ CallsInv
  <2>1. queue \in Seq(Msg) /\ delivered \in Seq(Msg)
    BY EmptySeq DEF Init
  <2>2. outcome \in [Msg -> Results]
    BY DEF Init, Results
  <2>3. sender \in [Senders -> SenderStates] /\ calls \in [Senders -> 0..MaxSends] /\ CallsInv
    BY ChannelAssumption DEF Init, SenderStates, CallsInv
  <2>4. QED
    BY <2>1, <2>2, <2>3 DEF Init, TypeOK, ReceiverStates
<1>2. MutexInv
  BY ChannelAssumption DEF Init, MutexInv
<1>3. SignalInv
  BY DEF Init, SignalInv, Pushing, Draining
<1>4. QED
  BY <1>1, <1>2, <1>3 DEF IInv

(* Every step keeps the shape of the state and the numbering of calls. *)
LEMMA StepTypeOK == IInv /\ [Next]_vars => TypeOK' /\ CallsInv'
<1> SUFFICES ASSUME IInv, [Next]_vars PROVE TypeOK' /\ CallsInv'
  OBVIOUS
<1> USE ChannelAssumption DEF IInv, TypeOK, CallsInv, Results, SenderStates, ReceiverStates,
        mutex, history, faults
<1>1. ASSUME NEW s \in Senders, Send(s) PROVE TypeOK' /\ CallsInv'
  BY <1>1 DEF Send
<1>2. ASSUME NEW s \in Senders, SendLock(s) PROVE TypeOK' /\ CallsInv'
  BY <1>2 DEF SendLock
<1>3. ASSUME NEW s \in Senders, SendPoisoned(s) PROVE TypeOK' /\ CallsInv'
  BY <1>3 DEF SendPoisoned, Return
<1>4. ASSUME NEW s \in Senders, Signal(s) PROVE TypeOK' /\ CallsInv'
  BY <1>4 DEF Signal
<1>5. ASSUME NEW s \in Senders, SignalFails(s) PROVE TypeOK' /\ CallsInv'
  <2>1. sender' \in [Senders -> SenderStates] /\ outcome' \in [Msg -> Results]
    BY <1>5 DEF SignalFails, Return
  <2>2. CallsInv'
    BY <1>5 DEF SignalFails, Return
  <2>3. QED
    BY <1>5, <2>1, <2>2 DEF SignalFails
<1>6. ASSUME NEW s \in Senders, Push(s) PROVE TypeOK' /\ CallsInv'
  <2>1. Current(s) \in Msg
    BY <1>6, CurrentIsMsg DEF Push
  <2>2. queue' \in Seq(Msg)
    BY <1>6, <2>1 DEF Push
  <2>3. QED
    BY <1>6, <2>2 DEF Push, Return
<1>7. CASE Deliver \/ CallbackSends
  <2>1. queue' \in Seq(Msg) /\ delivered' \in Seq(Msg)
    <3>1. /\ queue # <<>> /\ queue' = Tail(queue)
          /\ delivered' = Append(delivered, Head(queue))
      BY <1>7 DEF Deliver, CallbackSends
    <3>2. QED
      BY <3>1, MoveHead
  <2>2. QED
    BY <1>7, <2>1 DEF Deliver, CallbackSends
<1>8. CASE CallbackPanics
  <2>1. queue' \in Seq(Msg) /\ delivered' \in Seq(Msg)
    BY <1>8, MoveHead, EmptySeq DEF CallbackPanics
  <2>2. QED
    BY <1>8, <2>1 DEF CallbackPanics
<1>9. CASE Read \/ ReadFails
  BY <1>9 DEF Read, ReadFails
<1>10. CASE Wake \/ ReceiveLock \/ ReceivePoisoned \/ Unwind \/ DrainEnds
  BY <1>10 DEF Wake, ReceiveLock, ReceivePoisoned, Unwind, DrainEnds
<1>11. CASE Attach \/ Deattach \/ Drop
  BY <1>11 DEF Attach, Deattach, Drop
<1>12. CASE UNCHANGED vars
  BY <1>12 DEF vars
<1>13. QED
  BY <1>1, <1>2, <1>3, <1>4, <1>5, <1>6, <1>7, <1>8, <1>9, <1>10, <1>11, <1>12
     DEF Next, SenderStep, Dispatch

(* Every step keeps the mutex with the thread that took it. *)
LEMMA StepMutexInv == IInv /\ [Next]_vars => MutexInv'
<1> SUFFICES ASSUME IInv, [Next]_vars PROVE MutexInv'
  OBVIOUS
<1> USE ChannelAssumption DEF IInv, TypeOK, MutexInv, SenderStates, ReceiverStates,
        mutex, history, faults
<1>1. ASSUME NEW s \in Senders, Send(s) PROVE MutexInv'
  BY <1>1 DEF Send
<1>2. ASSUME NEW s \in Senders, SendLock(s) PROVE MutexInv'
  BY <1>2 DEF SendLock
<1>3. ASSUME NEW s \in Senders, SendPoisoned(s) PROVE MutexInv'
  BY <1>3 DEF SendPoisoned, Return
<1>4. ASSUME NEW s \in Senders, Signal(s) PROVE MutexInv'
  BY <1>4 DEF Signal
<1>5. ASSUME NEW s \in Senders, SignalFails(s) PROVE MutexInv'
  BY <1>5 DEF SignalFails, Return
<1>6. ASSUME NEW s \in Senders, Push(s) PROVE MutexInv'
  BY <1>6 DEF Push, Return
<1>7. CASE Deliver \/ CallbackSends
  BY <1>7 DEF Deliver, CallbackSends
<1>8. CASE CallbackPanics
  BY <1>8 DEF CallbackPanics
<1>9. CASE Read \/ ReadFails
  BY <1>9 DEF Read, ReadFails
<1>10. CASE Wake \/ ReceiveLock \/ ReceivePoisoned \/ Unwind \/ DrainEnds
  BY <1>10 DEF Wake, ReceiveLock, ReceivePoisoned, Unwind, DrainEnds
<1>11. CASE Attach \/ Deattach \/ Drop
  BY <1>11 DEF Attach, Deattach, Drop
<1>12. CASE UNCHANGED vars
  BY <1>12 DEF vars
<1>13. QED
  BY <1>1, <1>2, <1>3, <1>4, <1>5, <1>6, <1>7, <1>8, <1>9, <1>10, <1>11, <1>12
     DEF Next, SenderStep, Dispatch

(* Every step keeps the account of the bytes in the pipe. *)
LEMMA StepSignalInv == IInv /\ [Next]_vars => SignalInv'
<1> SUFFICES ASSUME IInv, [Next]_vars PROVE SignalInv'
  OBVIOUS
<1> USE ChannelAssumption DEF IInv, TypeOK, MutexInv, SignalInv, Pushing, Draining,
        SenderStates, ReceiverStates, mutex, history, faults
<1>1. ASSUME NEW s \in Senders, Send(s) PROVE SignalInv'
  BY <1>1 DEF Send
<1>2. ASSUME NEW s \in Senders, SendLock(s) PROVE SignalInv'
  BY <1>2 DEF SendLock
<1>3. ASSUME NEW s \in Senders, SendPoisoned(s) PROVE SignalInv'
  BY <1>3 DEF SendPoisoned, Return
<1>4. ASSUME NEW s \in Senders, Signal(s) PROVE SignalInv'
  BY <1>4 DEF Signal
<1>5. ASSUME NEW s \in Senders, SignalFails(s) PROVE SignalInv'
  BY <1>5 DEF SignalFails, Return
<1>6. ASSUME NEW s \in Senders, Push(s) PROVE SignalInv'
  BY <1>6 DEF Push, Return
<1>7. CASE Deliver \/ CallbackSends
  BY <1>7 DEF Deliver, CallbackSends
<1>8. CASE CallbackPanics
  BY <1>8 DEF CallbackPanics
<1>9. CASE Read \/ ReadFails
  BY <1>9 DEF Read, ReadFails
<1>10. CASE Wake \/ ReceiveLock \/ ReceivePoisoned \/ Unwind \/ DrainEnds
  BY <1>10 DEF Wake, ReceiveLock, ReceivePoisoned, Unwind, DrainEnds
<1>11. CASE Attach \/ Deattach \/ Drop
  BY <1>11 DEF Attach, Deattach, Drop
<1>12. CASE UNCHANGED vars
  BY <1>12 DEF vars
<1>13. QED
  BY <1>1, <1>2, <1>3, <1>4, <1>5, <1>6, <1>7, <1>8, <1>9, <1>10, <1>11, <1>12
     DEF Next, SenderStep, Dispatch

(* IInv is an invariant. *)
THEOREM Inductive == Spec => []IInv
<1>1. IInv /\ [Next]_vars => IInv'
  BY StepTypeOK, StepMutexInv, StepSignalInv DEF IInv
<1>2. QED
  BY InitIInv, <1>1, PTL DEF Spec

(* The shape of the state. *)
THEOREM Typing == Spec => []TypeOK
<1>1. IInv => TypeOK
  BY DEF IInv
<1>2. QED
  BY Inductive, <1>1, PTL

(* No lost wakeup, for any number of senders, messages and failed calls. *)
THEOREM NoLostWakeup == Spec => []WakeupPending
<1>1. IInv => WakeupPending
  BY DEF IInv, MutexInv, SignalInv, WakeupPending, Draining
<1>2. QED
  BY Inductive, <1>1, PTL

(* The writes made with the mutex held never fill the pipe. *)
THEOREM PipeNeverFills == Spec => []PipeBounded
<1>1. IInv => PipeBounded
  BY DEF IInv, TypeOK, SignalInv, PipeBounded
<1>2. QED
  BY Inductive, <1>1, PTL

(* The read made with the mutex held never blocks and is never in vain. *)
THEOREM WakeIsNotVain == Spec => []WakeFindsMessage
<1>1. ASSUME IInv PROVE WakeFindsMessage
  <2> SUFFICES ASSUME receiver = "reading"
               PROVE  pipe > 0 /\ (badReads = 0 => queue # <<>>)
    BY DEF WakeFindsMessage
  <2>1. ~Pushing
    BY <1>1, ChannelAssumption DEF IInv, MutexInv, Pushing
  <2>2. QED
    BY <1>1, <2>1 DEF IInv, TypeOK, SignalInv, Draining
<1>2. QED
  BY Inductive, <1>1, PTL

(* After a panic in the callback nothing enters or leaves the queue. *)
THEOREM PoisonIsFinal == Spec => NothingAfterPoison
<1>1. ASSUME IInv, [Next]_vars, poisoned PROVE UNCHANGED <<queue, delivered>>
  <2> USE <1>1 DEF IInv, TypeOK, MutexInv
  <2>1. queue = <<>> /\ \A s \in Senders : sender[s] # "pushing"
    BY ChannelAssumption
  <2>2. receiver # "draining"
    BY ChannelAssumption
  <2>3. QED
    BY <2>1, <2>2 DEF Next, SenderStep, Dispatch, Send, SendLock, SendPoisoned, Signal,
       SignalFails, Push, Attach, Wake, ReceiveLock, ReceivePoisoned, Read, ReadFails,
       Deliver, CallbackSends, CallbackPanics, Unwind, DrainEnds, Deattach, Drop, vars,
       history, mutex, faults
<1>2. QED
  BY Inductive, <1>1, PTL DEF Spec, NothingAfterPoison

------------------------------------------------------------------------------
(* The history: deliveries and queue together are the accepted messages, and *)
(* each sender's messages stand in them in the order of its calls.           *)

Unsent ==
  \A s \in Senders, n \in 1..MaxSends :
    outcome[<<s, n>>] # "none" => n < calls[s] \/ (n = calls[s] /\ sender[s] = "idle")

OnlyAccepted == \A i \in 1..Len(History) : outcome[History[i]] = "ok"

AllAccepted == \A m \in Msg : outcome[m] = "ok" /\ ~poisoned
                                => \E i \in 1..Len(History) : History[i] = m

HistoryInv == Unsent /\ OnlyAccepted /\ AllAccepted /\ PerSenderOrder

(* Delivering the head of the queue leaves the history as it was. *)
LEMMA MoveHeadConcat ==
  ASSUME NEW S, NEW d \in Seq(S), NEW q \in Seq(S), q # <<>>
  PROVE  Append(d, Head(q)) \o Tail(q) = d \o q
<1> DEFINE l == Append(d, Head(q)) \o Tail(q)
           r == d \o q
<1>1. Head(q) \in S /\ Head(q) = q[1] /\ Len(q) \in Nat \ {0}
  BY HeadTailProperties, EmptySeq
<1>2. Append(d, Head(q)) \in Seq(S) /\ Tail(q) \in Seq(S)
  BY MoveHead
<1>3. l \in Seq(S) /\ r \in Seq(S)
  BY <1>2, ConcatProperties
<1>4. Len(l) = Len(d) + 1 + (Len(q) - 1) /\ Len(r) = Len(d) + Len(q)
  BY <1>1, <1>2, ConcatProperties, AppendProperties, HeadTailProperties
<1>5. ASSUME NEW i \in 1..Len(r) PROVE l[i] = r[i]
  <2>1. CASE i <= Len(d)
    BY <1>1, <1>2, <1>4, <2>1, ConcatProperties, AppendProperties, LenProperties
  <2>2. CASE i = Len(d) + 1
    BY <1>1, <1>2, <1>4, <2>2, ConcatProperties, AppendProperties, LenProperties
  <2>3. CASE i > Len(d) + 1
    <3>1. l[i] = Tail(q)[i - (Len(d) + 1)] /\ r[i] = q[i - Len(d)]
      BY <1>1, <1>2, <1>4, <2>3, ConcatProperties, AppendProperties, LenProperties
    <3>2. i - (Len(d) + 1) \in 1..Len(Tail(q))
      BY <1>1, <1>4, <2>3, HeadTailProperties, LenProperties
    <3>3. QED
      BY <3>1, <3>2, HeadTailProperties, LenProperties
  <2>4. QED
    BY <1>4, <2>1, <2>2, <2>3, LenProperties
<1>6. QED
  BY <1>1, <1>3, <1>4, <1>5, SeqEqual, LenProperties

(* Pushing on the queue appends to the history. *)
LEMMA PushConcat ==
  ASSUME NEW S, NEW d \in Seq(S), NEW q \in Seq(S), NEW m \in S
  PROVE  d \o Append(q, m) = Append(d \o q, m)
<1>1. /\ Append(q, m) = q \o <<m>> /\ <<m>> \in Seq(S)
      /\ d \o q \in Seq(S)
  BY AppendIsConcat, ConcatProperties
<1>2. Append(d \o q, m) = (d \o q) \o <<m>>
  BY <1>1, AppendIsConcat
<1>3. QED
  BY <1>1, <1>2, ConcatAssociative

(* What a panic leaves of the history is a prefix of it. *)
LEMMA PanicPrefix ==
  ASSUME NEW S, NEW d \in Seq(S), NEW q \in Seq(S), q # <<>>
  PROVE  LET h == Append(d, Head(q)) \o <<>>
         IN  /\ Len(h) \in 0..Len(d \o q)
             /\ \A i \in 1..Len(h) : h[i] = (d \o q)[i]
<1>1. Head(q) \in S /\ Head(q) = q[1] /\ Len(q) \in Nat \ {0} /\ Len(d) \in Nat
  BY HeadTailProperties, EmptySeq, LenProperties
<1>2. Append(d, Head(q)) \o <<>> = Append(d, Head(q))
  BY <1>1, ConcatEmptySeq, AppendProperties
<1>3. QED
  BY <1>1, <1>2, AppendProperties, ConcatProperties

LEMMA HistoryType == TypeOK => History \in Seq(Msg) /\ Len(History) \in Nat
BY ConcatProperties, LenProperties DEF TypeOK, History

(* A step that leaves the history and the accepted messages alone. *)
LEMMA HistoryKept ==
  ASSUME IInv, HistoryInv, Unsent', History' = History,
         \A m \in Msg : outcome'[m] = "ok" <=> outcome[m] = "ok",
         poisoned => poisoned'
  PROVE  HistoryInv'
<1>1. \A i \in 1..Len(History) : History[i] \in Msg
  BY HistoryType, ElementOfSeq DEF IInv
<1>2. OnlyAccepted'
  BY <1>1 DEF HistoryInv, OnlyAccepted
<1>3. AllAccepted'
  BY DEF HistoryInv, AllAccepted
<1>4. PerSenderOrder'
  BY DEF HistoryInv, PerSenderOrder
<1>5. QED
  BY <1>2, <1>3, <1>4 DEF HistoryInv

(* A step of send that returns the current message refused. *)
LEMMA RefusedHistory ==
  ASSUME IInv, HistoryInv, NEW s \in Senders, sender[s] # "idle", Return(s, "err"),
         UNCHANGED <<calls, delivered, queue, poisoned>>
  PROVE  HistoryInv'
<1>1. Current(s) \in Msg /\ outcome[Current(s)] = "none"
  BY CurrentIsMsg DEF IInv, TypeOK, HistoryInv, Unsent, Current, Msg, Results
<1>2. Unsent'
  BY ChannelAssumption DEF IInv, TypeOK, CallsInv, HistoryInv, Unsent, Return, Current, Msg, SenderStates
<1>3. \A m \in Msg : outcome'[m] = "ok" <=> outcome[m] = "ok"
  BY <1>1 DEF IInv, TypeOK, Return
<1>4. QED
  BY <1>2, <1>3, HistoryKept DEF History

(* A step of send that pushes the current message. *)
LEMMA PushedHistory ==
  ASSUME IInv, HistoryInv, NEW s \in Senders, Push(s)
  PROVE  HistoryInv'
<1> DEFINE m == Current(s)
           n == Len(History)
<1>1. /\ m \in Msg /\ outcome[m] = "none" /\ m = <<s, calls[s]>>
      /\ calls[s] \in 1..MaxSends /\ sender[s] = "pushing"
  BY CurrentIsMsg, ChannelAssumption
     DEF IInv, TypeOK, CallsInv, HistoryInv, Unsent, Current, Msg, Results, Push
<1>2. History \in Seq(Msg) /\ n \in Nat /\ \A i \in 1..n : History[i] \in Msg
  BY HistoryType, ElementOfSeq DEF IInv
<1>3. History' = Append(History, m)
  BY <1>1, PushConcat DEF IInv, TypeOK, History, Push
<1>4. /\ Len(History') = n + 1 /\ History'[n + 1] = m
      /\ \A i \in 1..n : History'[i] = History[i]
  BY <1>1, <1>2, <1>3, AppendProperties
<1>5. /\ outcome' = [outcome EXCEPT ![m] = "ok"]
      /\ sender' = [sender EXCEPT ![s] = "idle"]
      /\ calls' = calls /\ poisoned' = poisoned
  BY DEF Push, Return
<1>6. Unsent'
  BY <1>1, <1>5, ChannelAssumption DEF IInv, TypeOK, CallsInv, HistoryInv, Unsent, Msg, SenderStates
<1>7. OnlyAccepted'
  <2> SUFFICES ASSUME NEW i \in 1..(n + 1) PROVE outcome'[History'[i]] = "ok"
    BY <1>4 DEF OnlyAccepted
  <2>1. outcome \in [Msg -> Results]
    BY DEF IInv, TypeOK
  <2>2. CASE i \in 1..n
    BY <2>1, <2>2, <1>1, <1>2, <1>4, <1>5 DEF HistoryInv, OnlyAccepted
  <2>3. CASE i = n + 1
    BY <2>1, <2>3, <1>1, <1>4, <1>5
  <2>4. QED
    BY <2>2, <2>3, <1>2
<1>8. AllAccepted'
  <2> SUFFICES ASSUME NEW x \in Msg, outcome'[x] = "ok", ~poisoned
               PROVE  \E i \in 1..(n + 1) : History'[i] = x
    BY <1>4, <1>5 DEF AllAccepted
  <2>1. CASE x = m
    BY <2>1, <1>2, <1>4
  <2>2. CASE x # m
    <3>1. outcome[x] = "ok"
      BY <2>2, <1>1, <1>5 DEF IInv, TypeOK
    <3>2. QED
      BY <3>1, <1>2, <1>4 DEF HistoryInv, AllAccepted
  <2>3. QED
    BY <2>1, <2>2
<1>9. PerSenderOrder'
  <2> SUFFICES ASSUME NEW i \in 1..(n + 1), NEW j \in 1..(n + 1), i < j,
                      History'[i][1] = History'[j][1]
               PROVE  History'[i][2] < History'[j][2]
    BY <1>4 DEF PerSenderOrder
  <2>1. CASE j <= n
    BY <2>1, <1>2, <1>4 DEF HistoryInv, PerSenderOrder
  <2>2. CASE j = n + 1
    <3>1. i \in 1..n /\ History'[i] = History[i] /\ History[i] \in Msg
      BY <2>2, <1>2, <1>4
    <3>2. outcome[History[i]] = "ok"
      BY <3>1 DEF HistoryInv, OnlyAccepted
    <3>3. PICK k \in 1..MaxSends : History[i] = <<s, k>>
      BY <3>1, <2>2, <1>1, <1>4 DEF Msg
    <3>4. k < calls[s]
      BY <3>2, <3>3, <1>1 DEF HistoryInv, Unsent
    <3>5. QED
      BY <3>1, <3>3, <3>4, <2>2, <1>1, <1>4
  <2>3. QED
    BY <2>1, <2>2, <1>2
<1>10. QED
  BY <1>6, <1>7, <1>8, <1>9 DEF HistoryInv

(* A panic loses what waited, and keeps the order of what was delivered. *)
LEMMA PanicHistory ==
  ASSUME IInv, HistoryInv, CallbackPanics
  PROVE  HistoryInv'
<1>1. /\ queue # <<>> /\ History' = Append(delivered, Head(queue)) \o <<>>
      /\ UNCHANGED <<outcome, calls, sender>> /\ poisoned'
  BY DEF CallbackPanics, History
<1>2. /\ Len(History') \in 0..Len(History)
      /\ \A i \in 1..Len(History') : History'[i] = History[i]
  BY <1>1, PanicPrefix DEF IInv, TypeOK, History
<1>3. Len(History) \in Nat
  BY HistoryType DEF IInv
<1>4. Unsent' /\ AllAccepted'
  BY <1>1 DEF HistoryInv, Unsent, AllAccepted
<1>5. OnlyAccepted'
  BY <1>1, <1>2, <1>3 DEF HistoryInv, OnlyAccepted
<1>6. PerSenderOrder'
  BY <1>2, <1>3 DEF HistoryInv, PerSenderOrder
<1>7. QED
  BY <1>4, <1>5, <1>6 DEF HistoryInv

(* Every step keeps the history. *)
LEMMA StepHistoryInv == IInv /\ HistoryInv /\ [Next]_vars => HistoryInv'
<1> SUFFICES ASSUME IInv, HistoryInv, [Next]_vars PROVE HistoryInv'
  OBVIOUS
<1> USE DEF mutex, history, faults
<1>1. ASSUME NEW s \in Senders, Send(s) PROVE HistoryInv'
  <2>1. Unsent'
    BY <1>1, ChannelAssumption DEF Send, IInv, TypeOK, HistoryInv, Unsent, SenderStates
  <2>2. QED
    BY <1>1, <2>1, HistoryKept DEF Send, History
<1>2. ASSUME NEW s \in Senders, SendLock(s) \/ Signal(s) PROVE HistoryInv'
  <2>1. Unsent'
    BY <1>2, ChannelAssumption
       DEF SendLock, Signal, IInv, TypeOK, HistoryInv, Unsent, SenderStates
  <2>2. QED
    BY <1>2, <2>1, HistoryKept DEF SendLock, Signal, History
<1>3. ASSUME NEW s \in Senders, SendPoisoned(s) \/ SignalFails(s) PROVE HistoryInv'
  BY <1>3, RefusedHistory DEF SendPoisoned, SignalFails
<1>4. ASSUME NEW s \in Senders, Push(s) PROVE HistoryInv'
  BY <1>4, PushedHistory
<1>5. CASE Deliver \/ CallbackSends
  <2>1. History' = History
    BY <1>5, MoveHeadConcat DEF Deliver, CallbackSends, IInv, TypeOK, History
  <2>2. QED
    BY <1>5, <2>1, HistoryKept DEF Deliver, CallbackSends, HistoryInv, Unsent
<1>6. CASE CallbackPanics
  BY <1>6, PanicHistory
<1>7. CASE \/ Wake \/ ReceiveLock \/ ReceivePoisoned \/ Read \/ ReadFails \/ Unwind
           \/ DrainEnds \/ Attach \/ Deattach \/ Drop
  <2>1. UNCHANGED <<queue, sender, calls, outcome, delivered, poisoned>>
    BY <1>7 DEF Wake, ReceiveLock, ReceivePoisoned, Read, ReadFails, Unwind, DrainEnds,
       Attach, Deattach, Drop
  <2>2. QED
    BY <2>1, HistoryKept DEF History, HistoryInv, Unsent
<1>8. CASE UNCHANGED vars
  BY <1>8, HistoryKept DEF vars, History, HistoryInv, Unsent
<1>9. QED
  BY <1>1, <1>2, <1>3, <1>4, <1>5, <1>6, <1>7, <1>8 DEF Next, SenderStep, Dispatch

(* HistoryInv is an invariant. *)
THEOREM HistoryInductive == Spec => []HistoryInv
<1>1. Init => HistoryInv
  <2> SUFFICES ASSUME Init PROVE HistoryInv
    OBVIOUS
  <2>1. History = <<>> /\ Len(History) = 0
    BY DEF Init, History
  <2>2. \A m \in Msg : outcome[m] = "none"
    BY DEF Init
  <2>3. QED
    BY <2>1, <2>2 DEF HistoryInv, Unsent, OnlyAccepted, AllAccepted, PerSenderOrder, Msg
<1>2. QED
  BY <1>1, Inductive, StepHistoryInv, PTL DEF Spec

(* Each sender's messages reach the callback in the order of its sends. *)
THEOREM Fifo == Spec => []PerSenderOrder
<1>1. HistoryInv => PerSenderOrder
  BY DEF HistoryInv
<1>2. QED
  BY HistoryInductive, <1>1, PTL

(* No message is duplicated, invented or, short of a panic, lost. *)
THEOREM DeliveredOnce == Spec => []ExactlyOnce
<1>1. ASSUME IInv, HistoryInv PROVE ExactlyOnce
  <2>1. \A i, j \in 1..Len(History) : History[i] = History[j] => i = j
    <3> SUFFICES ASSUME NEW i \in 1..Len(History), NEW j \in 1..Len(History), i < j
                 PROVE  History[i] # History[j]
      BY <1>1, HistoryType DEF IInv
    <3>1. History[i] \in Msg
      BY <1>1, HistoryType, ElementOfSeq DEF IInv
    <3>2. QED
      BY <1>1, <3>1 DEF HistoryInv, PerSenderOrder, Msg
  <2>2. QED
    BY <1>1, <2>1 DEF HistoryInv, OnlyAccepted, AllAccepted, ExactlyOnce
<1>2. QED
  BY <1>1, Inductive, HistoryInductive, PTL

------------------------------------------------------------------------------
(* Refinement: the channel implements the mailbox's safety. *)

(* The channel does only what the mailbox allows, for every instance. *)
THEOREM Refinement == Spec => Box!SafeSpec
<1>1. Init => Box!Init
  BY DEF Init, Box!Init, Attached
<1>2. ASSUME IInv, HistoryInv, [Next]_vars PROVE [Box!Next]_Box!vars
  <2> USE DEF Box!Next, Box!vars, mutex, history, faults
  <2>1. IInv /\ HistoryInv /\ TypeOK
    BY <1>2 DEF IInv
  <2>2. ASSUME NEW s \in Senders, sender[s] # "idle"
        PROVE  Current(s) \in Msg /\ outcome[Current(s)] = "none"
    BY <2>1, <2>2, CurrentIsMsg
       DEF IInv, TypeOK, HistoryInv, Unsent, Current, Msg, Results
  <2>3. ASSUME NEW s \in Senders, Send(s) \/ SendLock(s) \/ Signal(s)
        PROVE  UNCHANGED Box!vars
    BY <2>3 DEF Send, SendLock, Signal, Attached
  <2>4. ASSUME NEW s \in Senders, SendPoisoned(s) \/ SignalFails(s)
        PROVE  Box!Refuse(Current(s)) /\ Current(s) \in Msg
    BY <2>2, <2>4 DEF SendPoisoned, SignalFails, Return, Box!Refuse, Attached
  <2>5. ASSUME NEW s \in Senders, Push(s)
        PROVE  Box!Accept(Current(s)) /\ Current(s) \in Msg
    <3>1. ~poisoned
      BY <2>1, <2>5, ChannelAssumption DEF IInv, MutexInv, Push
    <3>2. QED
      BY <2>2, <2>5, <3>1 DEF Push, Return, Box!Accept, Attached
  <2>6. ASSUME Deliver \/ CallbackSends PROVE Box!Deliver \/ Box!Wedge
    BY <2>6 DEF Deliver, CallbackSends, Box!Deliver, Box!Wedge, Attached
  <2>7. ASSUME CallbackPanics PROVE Box!Break
    BY <2>7 DEF CallbackPanics, Box!Break, Attached
  <2>8. ASSUME \/ Wake \/ ReceiveLock \/ ReceivePoisoned \/ Read \/ ReadFails \/ Unwind
               \/ DrainEnds \/ Attach \/ Deattach \/ Drop
        PROVE  Box!Listen \/ UNCHANGED Box!vars
    <3>1. UNCHANGED <<queue, delivered, outcome, poisoned>>
      BY <2>8 DEF Wake, ReceiveLock, ReceivePoisoned, Read, ReadFails, Unwind, DrainEnds,
         Attach, Deattach, Drop
    <3>2. QED
      BY <3>1 DEF Box!Listen, Attached
  <2>9. CASE UNCHANGED vars
    BY <2>9 DEF vars, Attached
  <2>10. QED
    BY <1>2, <2>3, <2>4, <2>5, <2>6, <2>7, <2>8, <2>9 DEF Next, SenderStep, Dispatch
<1>3. QED
  BY <1>1, <1>2, Inductive, HistoryInductive, PTL DEF Spec, Box!SafeSpec
==============================================================================
