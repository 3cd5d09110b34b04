------------------------------- MODULE Channel -------------------------------
(***************************************************************************)
(* pipewire/src/channel.rs: senders on any thread, one receiver whose pipe *)
(* is an IO source of the loop.  The mutex is held by a sender from the    *)
(* emptiness test to the push and by the receiver from the read of the     *)
(* pipe to the end of the drain, the user's callback included.  One step   *)
(* per operation another thread can observe.                               *)
(***************************************************************************)
EXTENDS Integers, Sequences

CONSTANTS
  Senders,      \* one per thread that holds a clone of the Sender
  MaxSends,     \* bound: calls of send per sender
  MaxFaults,    \* bound: failing reads and writes of the pipe
  CallbackMay   \* what the user's callback may do: "panic", "send"

ASSUME ChannelAssumption ==
  /\ "receiver" \notin Senders /\ "nobody" \notin Senders
  /\ MaxSends \in Nat /\ MaxFaults \in Nat
  /\ CallbackMay \subseteq {"panic", "send"}

Msg == Senders \X (1..MaxSends)

VARIABLES
  holder,      \* who has the mutex: a sender, "receiver" or "nobody"
  poisoned,    \* the mutex's poison flag
  pipe,        \* bytes in the signalling pipe
  queue,       \* Channel::queue
  sender,      \* where each sender is in send
  calls,       \* calls of send each sender has started
  receiver,    \* where the receiver's thread is
  outcome,     \* history: what send returned for each message
  delivered,   \* history: messages the callback was called with
  badReads,    \* reads of the pipe that failed
  badWrites    \* writes to the pipe that failed

mutex == <<holder, poisoned>>
history == <<outcome, delivered>>
faults == <<badReads, badWrites>>
vars == <<mutex, pipe, queue, sender, calls, receiver, history, faults>>

Attached == receiver \in {"polling", "locking", "reading", "draining"}

Init ==
  /\ holder = "nobody" /\ poisoned = FALSE
  /\ pipe = 0 /\ queue = <<>>
  /\ sender = [s \in Senders |-> "idle"]
  /\ calls = [s \in Senders |-> 0]
  /\ receiver = "detached"
  /\ outcome = [m \in Msg |-> "none"]
  /\ delivered = <<>>
  /\ badReads = 0 /\ badWrites = 0

Running == receiver # "aborted"
Faulty == badReads + badWrites < MaxFaults

------------------------------------------------------------------------------
(* Sender::send *)

Current(s) == <<s, calls[s]>>

Return(s, result) ==
  /\ sender' = [sender EXCEPT ![s] = "idle"]
  /\ outcome' = [outcome EXCEPT ![Current(s)] = result]

Send(s) ==
  /\ Running
  /\ sender[s] = "idle" /\ calls[s] < MaxSends
  /\ calls' = [calls EXCEPT ![s] = @ + 1]
  /\ sender' = [sender EXCEPT ![s] = "locking"]
  /\ UNCHANGED <<mutex, pipe, queue, receiver, history, faults>>

SendLock(s) ==
  /\ Running
  /\ sender[s] = "locking" /\ holder = "nobody" /\ ~poisoned
  /\ holder' = s
  /\ sender' = [sender EXCEPT ![s] = "signalling"]
  /\ UNCHANGED <<poisoned, pipe, queue, calls, receiver, history, faults>>

\* The lock is poisoned: the message goes back to the caller.
SendPoisoned(s) ==
  /\ Running
  /\ sender[s] = "locking" /\ holder = "nobody" /\ poisoned
  /\ Return(s, "err")
  /\ UNCHANGED <<mutex, pipe, queue, calls, receiver, delivered, faults>>

\* Mutant: the emptiness test is made for the length after the push.
SignalOffByOne(s) ==
  /\ Running
  /\ sender[s] = "signalling"
  /\ pipe' = IF Len(queue) = 1 THEN pipe + 1 ELSE pipe
  /\ sender' = [sender EXCEPT ![s] = "pushing"]
  /\ UNCHANGED <<mutex, queue, calls, receiver, history, faults>>

\* Mutant: one byte per message.
SignalAlways(s) ==
  /\ Running
  /\ sender[s] = "signalling"
  /\ pipe' = pipe + 1
  /\ sender' = [sender EXCEPT ![s] = "pushing"]
  /\ UNCHANGED <<mutex, queue, calls, receiver, history, faults>>

Signal(s) ==
  /\ Running
  /\ sender[s] = "signalling"
  /\ pipe' = IF queue = <<>> THEN pipe + 1 ELSE pipe
  /\ sender' = [sender EXCEPT ![s] = "pushing"]
  /\ UNCHANGED <<mutex, queue, calls, receiver, history, faults>>

\* Mutant: the error path keeps the mutex.
SignalFailsLocked(s) ==
  /\ Running
  /\ sender[s] = "signalling" /\ queue = <<>>
  /\ Faulty /\ badWrites' = badWrites + 1
  /\ holder' = s
  /\ Return(s, "err")
  /\ UNCHANGED <<poisoned, pipe, queue, calls, receiver, delivered, badReads>>

SignalFails(s) ==
  /\ Running
  /\ sender[s] = "signalling" /\ queue = <<>>
  /\ Faulty /\ badWrites' = badWrites + 1
  /\ holder' = "nobody"
  /\ Return(s, "err")
  /\ UNCHANGED <<poisoned, pipe, queue, calls, receiver, delivered, badReads>>

Push(s) ==
  /\ Running
  /\ sender[s] = "pushing"
  /\ queue' = Append(queue, Current(s))
  /\ holder' = "nobody"
  /\ Return(s, "ok")
  /\ UNCHANGED <<poisoned, pipe, calls, receiver, delivered, faults>>

------------------------------------------------------------------------------
(* Receiver::attach, the loop's call of the IO closure, AttachedReceiver *)

\* attach locks the mutex to read readfd; a poisoned one makes it panic,
\* which drops the receiver.
Attach ==
  /\ receiver = "detached" /\ holder = "nobody"
  /\ receiver' = IF poisoned THEN "dropped" ELSE "polling"
  /\ UNCHANGED <<mutex, pipe, queue, sender, calls, history, faults>>

\* The loop polls the read end level-triggered.
Wake ==
  /\ receiver = "polling" /\ pipe > 0
  /\ receiver' = "locking"
  /\ UNCHANGED <<mutex, pipe, queue, sender, calls, history, faults>>

ReceiveLock ==
  /\ receiver = "locking" /\ holder = "nobody" /\ ~poisoned
  /\ holder' = "receiver"
  /\ receiver' = "reading"
  /\ UNCHANGED <<poisoned, pipe, queue, sender, calls, history, faults>>

ReceivePoisoned ==
  /\ receiver = "locking" /\ holder = "nobody" /\ poisoned
  /\ receiver' = "unwinding"
  /\ UNCHANGED <<mutex, pipe, queue, sender, calls, history, faults>>

\* The pipe is blocking: an empty one would keep the thread here.
Read ==
  /\ receiver = "reading" /\ pipe > 0
  /\ pipe' = pipe - 1
  /\ receiver' = "draining"
  /\ UNCHANGED <<mutex, queue, sender, calls, history, faults>>

\* The result of the read is ignored.
ReadFails ==
  /\ receiver = "reading"
  /\ Faulty /\ badReads' = badReads + 1
  /\ receiver' = "draining"
  /\ UNCHANGED <<mutex, pipe, queue, sender, calls, history, badWrites>>

\* Mutant: the message delivered is not the one taken off the queue.
DeliverLast ==
  /\ receiver = "draining" /\ queue # <<>>
  /\ delivered' = Append(delivered, queue[Len(queue)])
  /\ queue' = Tail(queue)
  /\ UNCHANGED <<mutex, pipe, sender, calls, receiver, outcome, faults>>

Deliver ==
  /\ receiver = "draining" /\ queue # <<>>
  /\ delivered' = Append(delivered, Head(queue))
  /\ queue' = Tail(queue)
  /\ UNCHANGED <<mutex, pipe, sender, calls, receiver, outcome, faults>>

\* The callback sends on its own channel: the thread already has the mutex.
CallbackSends ==
  /\ "send" \in CallbackMay
  /\ receiver = "draining" /\ queue # <<>>
  /\ delivered' = Append(delivered, Head(queue))
  /\ queue' = Tail(queue)
  /\ receiver' = "stuck"
  /\ UNCHANGED <<mutex, pipe, sender, calls, outcome, faults>>

\* Dropping the Drain drops what it had not yielded; the guard poisons.
CallbackPanics ==
  /\ "panic" \in CallbackMay
  /\ receiver = "draining" /\ queue # <<>>
  /\ delivered' = Append(delivered, Head(queue))
  /\ queue' = <<>>
  /\ poisoned' = TRUE /\ holder' = "nobody"
  /\ receiver' = "unwinding"
  /\ UNCHANGED <<pipe, sender, calls, outcome, faults>>

\* The panic reaches the loop's C frames: the process aborts or, in builds
\* where it goes through, the caller of run catches it or drops the receiver.
Unwind ==
  /\ receiver = "unwinding"
  /\ receiver' \in {"aborted", "polling", "dropped"}
  /\ UNCHANGED <<mutex, pipe, queue, sender, calls, history, faults>>

DrainEnds ==
  /\ receiver = "draining" /\ queue = <<>>
  /\ holder' = "nobody"
  /\ receiver' = "polling"
  /\ UNCHANGED <<poisoned, pipe, queue, sender, calls, history, faults>>

\* Mutant: detaching discards the messages that wait.
DeattachClears ==
  /\ receiver = "polling"
  /\ receiver' = "detached"
  /\ queue' = <<>>
  /\ UNCHANGED <<mutex, pipe, sender, calls, history, faults>>

Deattach ==
  /\ receiver = "polling"
  /\ receiver' = "detached"
  /\ UNCHANGED <<mutex, pipe, queue, sender, calls, history, faults>>

Drop ==
  /\ receiver \in {"detached", "polling"}
  /\ receiver' = "dropped"
  /\ UNCHANGED <<mutex, pipe, queue, sender, calls, history, faults>>

------------------------------------------------------------------------------
SenderStep(s) == SendLock(s) \/ SendPoisoned(s) \/ Signal(s) \/ SignalFails(s) \/ Push(s)

Dispatch == \/ Wake \/ ReceiveLock \/ ReceivePoisoned \/ Read \/ ReadFails
            \/ Deliver \/ CallbackSends \/ CallbackPanics \/ Unwind \/ DrainEnds

Next == \/ \E s \in Senders : Send(s) \/ SenderStep(s)
        \/ Dispatch \/ Attach \/ Deattach \/ Drop

\* Threads inside send are scheduled and the loop keeps running; nobody has
\* to call send, attach, deattach or drop.
Fairness == /\ \A s \in Senders : WF_vars(SenderStep(s))
            /\ WF_vars(Dispatch)

Spec == Init /\ [][Next]_vars
FairSpec == Spec /\ Fairness

------------------------------------------------------------------------------
(* Properties *)

Results == {"none", "ok", "err"}
SenderStates == {"idle", "locking", "signalling", "pushing"}
ReceiverStates == {"detached", "polling", "locking", "reading", "draining",
                   "stuck", "unwinding", "aborted", "dropped"}

\* The shape of the state.
TypeOK ==
  /\ holder \in Senders \cup {"receiver", "nobody"}
  /\ poisoned \in BOOLEAN
  /\ pipe \in Nat /\ queue \in Seq(Msg)
  /\ sender \in [Senders -> SenderStates]
  /\ calls \in [Senders -> 0..MaxSends]
  /\ receiver \in ReceiverStates
  /\ outcome \in [Msg -> Results]
  /\ delivered \in Seq(Msg)
  /\ badReads \in Nat /\ badWrites \in Nat

\* No lost wakeup: whenever the mutex is free and messages wait, a byte is in
\* the pipe, so a loop that polls it, now or after a later attach, wakes.
WakeupPending == holder = "nobody" /\ queue # <<>> => pipe > 0

\* The pipe never holds more than one byte, and one per read that failed, so
\* the blocking write made with the mutex held cannot fill it.
PipeBounded == pipe <= 1 + badReads

\* The blocking read made with the mutex held finds a byte, and, unless a
\* read failed before, a message: the write that precedes the push under the
\* same lock never lets the loop see the one without the other.
WakeFindsMessage ==
  receiver = "reading" => /\ pipe > 0
                          /\ badReads = 0 => queue # <<>>

History == delivered \o queue

\* A message is in the queue or with the callback at most once and only if
\* send accepted it; none that send accepted is lost unless a callback panicked.
ExactlyOnce ==
  /\ \A i, j \in 1..Len(History) : History[i] = History[j] => i = j
  /\ \A i \in 1..Len(History) : outcome[History[i]] = "ok"
  /\ \A m \in Msg : outcome[m] = "ok" /\ ~poisoned
                      => \E i \in 1..Len(History) : History[i] = m

\* What one sender sends is delivered in the order in which it was sent.
PerSenderOrder ==
  \A i, j \in 1..Len(History) :
    i < j /\ History[i][1] = History[j][1] => History[i][2] < History[j][2]

\* After a callback panicked nothing is accepted and nothing delivered.
NothingAfterPoison == [][poisoned => UNCHANGED <<queue, delivered>>]_vars

\* send returns: no thread waits for ever for the mutex, unless the user's
\* callback, which runs with the mutex held, has itself sent on the channel.
SendReturns ==
  \A s \in Senders :
    sender[s] # "idle" ~> sender[s] = "idle" \/ ~Running \/ receiver = "stuck"

Box == INSTANCE Mailbox WITH
         waiting <- queue, listening <- Attached \/ receiver = "unwinding",
         broken <- poisoned

\* The channel implements the mailbox, its liveness included.
ImplementsMailbox == Box!Spec
==============================================================================
