------------------------------ MODULE Roundtrip ------------------------------
(***************************************************************************)
(* CoreRef::sync, the done event and MainLoop::run/quit as the examples'   *)
(* do_roundtrip uses them.  Client and server exchange messages in order,  *)
(* so the two directions are counters: message n carries sequence number   *)
(* n - 1, wrapped, and causes one event.                                   *)
(***************************************************************************)
EXTENDS SpaResult, Sequences

CONSTANTS
  MaxSent,   \* bound: messages sent
  Window     \* most messages that are unanswered at a time

ASSUME RoundtripAssumption == /\ MaxSent \in Nat
                              /\ Window \in 1..AsyncBit

VARIABLES
  sent,      \* kind of each message sent: "request" or "sync"
  served,    \* messages the server has answered
  seen,      \* events the client has dispatched
  phase,     \* "app", "checking" (while !done) or "inloop" (MainLoop::run)
  pending,   \* what the roundtrip's sync returned
  target,    \* the sync message whose listener is registered; 0 if none is
  done,      \* the Cell shared with the done callback
  running    \* pw_main_loop's flag: set by run, cleared by quit

vars == <<sent, served, seen, phase, pending, target, done, running>>

Init == /\ sent = <<>> /\ served = 0 /\ seen = 0
        /\ phase = "app" /\ target = 0
        /\ pending = 0 /\ done = FALSE /\ running = FALSE

SeqOf(n) == from_seq(n - 1)

CanSend == Len(sent) < MaxSent /\ Len(sent) - seen < Window

\* A method call that is no sync, or a sync nobody waits for.
Request(kind) ==
  /\ phase = "app" /\ CanSend
  /\ sent' = Append(sent, kind)
  /\ UNCHANGED <<served, seen, phase, pending, target, done, running>>

\* do_roundtrip up to its loop: sync, then register the listener.
Sync ==
  /\ phase = "app" /\ CanSend
  /\ sent' = Append(sent, "sync")
  /\ target' = Len(sent) + 1
  /\ pending' = SeqOf(target')
  /\ done' = FALSE
  /\ phase' = "checking"
  /\ UNCHANGED <<served, seen, running>>

\* run sets the flag before it looks at it: an earlier quit is forgotten.
Run ==
  /\ phase = "checking" /\ ~done
  /\ running' = TRUE
  /\ phase' = "inloop"
  /\ UNCHANGED <<sent, served, seen, pending, target, done>>

\* Mutant: a single run, not repeated until done.
ReturnOnce ==
  /\ phase = "checking" /\ (done \/ seen > 0)
  /\ phase' = "app" /\ target' = 0
  /\ UNCHANGED <<sent, served, seen, pending, done, running>>

\* The listener is dropped with do_roundtrip's frame.
Return ==
  /\ phase = "checking" /\ done
  /\ phase' = "app" /\ target' = 0
  /\ UNCHANGED <<sent, served, seen, pending, done, running>>

\* Mutant: the callback compares the id but not the sequence number.
AnyDoneEvent ==
  /\ phase = "inloop" /\ seen < served /\ sent[seen + 1] = "sync"
  /\ seen' = seen + 1
  /\ done' = TRUE /\ running' = FALSE
  /\ UNCHANGED <<sent, served, phase, pending, target>>

\* Mutant: the callback sets done and forgets to quit.
DoneWithoutQuit ==
  /\ phase = "inloop" /\ seen < served /\ sent[seen + 1] = "sync"
  /\ seen' = seen + 1
  /\ done' = (done \/ SeqOf(seen + 1) = pending)
  /\ UNCHANGED <<sent, served, phase, pending, target, running>>

\* The done event of a sync, this roundtrip's or another.
DoneEvent ==
  /\ phase = "inloop" /\ seen < served /\ sent[seen + 1] = "sync"
  /\ seen' = seen + 1
  /\ LET match == SeqOf(seen + 1) = pending
     IN  done' = (done \/ match) /\ running' = (running /\ ~match)
  /\ UNCHANGED <<sent, served, phase, pending, target>>

\* Another event: its callback may quit the loop, send, or do neither.
OtherEvent ==
  /\ phase = "inloop" /\ seen < served /\ sent[seen + 1] = "request"
  /\ seen' = seen + 1
  /\ running' \in {running, FALSE}
  /\ \/ sent' = sent
     \/ CanSend /\ sent' = Append(sent, "request")
  /\ UNCHANGED <<served, phase, pending, target, done>>

\* run returns after the iteration in which quit was called, of which more
\* events may have been part.
Leave ==
  /\ phase = "inloop" /\ ~running
  /\ phase' = "checking"
  /\ UNCHANGED <<sent, served, seen, pending, target, done, running>>

Serve ==
  /\ served < Len(sent)
  /\ served' = served + 1
  /\ UNCHANGED <<sent, seen, phase, pending, target, done, running>>

Client == Run \/ Return \/ DoneEvent \/ OtherEvent \/ Leave

Next == \/ \E kind \in {"request", "sync"} : Request(kind)
        \/ Sync \/ Client \/ Serve

\* The server answers and the loop's thread runs; nobody has to send.
Fairness == WF_vars(Client) /\ WF_vars(Serve)

Spec == Init /\ [][Next]_vars
FairSpec == Spec /\ Fairness

------------------------------------------------------------------------------
(* Properties *)

\* The shape of the state: messages are answered in order, after they are sent.
TypeOK ==
  /\ sent \in Seq({"request", "sync"})
  /\ served \in 0..Len(sent) /\ seen \in 0..served
  /\ phase \in {"app", "checking", "inloop"}
  /\ target \in 0..Len(sent) /\ (target = 0 <=> phase = "app")
  /\ pending \in I32
  /\ done \in BOOLEAN /\ running \in BOOLEAN

\* do_roundtrip processes all pending events: the callback takes no other
\* sync's answer for its own, however often the sequence numbers have wrapped,
\* and no other callback's quit ends the roundtrip, so that when it returns the
\* events of everything sent before its sync have been dispatched.
AllEventsProcessed == [][phase # "app" /\ phase' = "app" => seen >= target]_vars

\* The loop never waits for events after the answer came: the quit made in
\* the callback is not lost to the run it happens in.
QuitNotLost == done /\ phase = "inloop" => ~running

\* do_roundtrip returns.
RoundtripReturns == phase # "app" ~> phase = "app"
==============================================================================
