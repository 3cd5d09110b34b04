----------------------------- MODULE ThreadLoop ------------------------------
(***************************************************************************)
(* pipewire/src/thread_loop.rs: a program whose main thread shares a loop  *)
(* and its sources with the loop's own thread.  Handles are not Send, so   *)
(* there are these two threads only.  The main thread asks for something   *)
(* and waits until a closure says that it is done, or has lent something   *)
(* that the closure needs back.  What the C library does between the calls *)
(* is as its headers describe it.                                          *)
(***************************************************************************)
EXTENDS LoopSources

CONSTANTS
  Notifier,   \* the source whose closure may say that it is done
  Lender,     \* the source whose closure may lend
  MaxGuards,  \* bound: locks that the main thread holds at once
  None        \* no source

ASSUME ThreadLoopAssumption ==
  /\ Notifier \in Sources /\ Lender \in Sources /\ Notifier # Lender
  /\ KindOf[Notifier] = "event"
  /\ MaxGuards \in Nat
  /\ None \notin Sources

VARIABLES
  owner,      \* who has the lock: "main", "worker" or "none"
  guards,     \* lock guards of the main thread
  main,       \* where the main thread is
  worker,     \* where the loop's thread is
  todo,       \* sources still to be dispatched in this iteration
  running,    \* the source whose closure runs
  stopping,   \* the main thread has asked the loop to stop
  quitting,   \* the loop has seen it
  accepts,    \* n_waiting_for_accept
  done,       \* what the main thread asked for has been done
  lent        \* a closure has lent something

lockVars == <<owner, guards>>
workVars == <<worker, todo, running, quitting>>
answerVars == <<accepts, done, lent>>
vars == <<sourceVars, lockVars, main, workVars, stopping, answerVars>>

Init ==
  /\ SourcesInit
  /\ owner = "none" /\ guards = 0
  /\ main = "free" /\ worker = "none"
  /\ todo = {} /\ running = None
  /\ stopping = FALSE /\ quitting = FALSE
  /\ accepts = 0 /\ done = FALSE /\ lent = FALSE

Locked == main = "free" /\ guards > 0

------------------------------------------------------------------------------
(* The main thread *)

\* ThreadLoopLockGuard::new: the lock is recursive.
Lock ==
  /\ main = "free" /\ guards < MaxGuards
  /\ owner \in {"none", "main"}
  /\ owner' = "main" /\ guards' = guards + 1
  /\ UNCHANGED <<sourceVars, main, workVars, stopping, answerVars>>

\* Mutant: the first guard that is dropped gives the lock back.
UnlockAll ==
  /\ Locked
  /\ guards' = guards - 1 /\ owner' = "none"
  /\ UNCHANGED <<sourceVars, main, workVars, stopping, answerVars>>

\* The drop of a guard.
Unlock ==
  /\ Locked
  /\ guards' = guards - 1
  /\ owner' = IF guards = 1 THEN "none" ELSE "main"
  /\ UNCHANGED <<sourceVars, main, workVars, stopping, answerVars>>

\* Mutant: the main thread does not look whether it has been answered.
WaitUntested(how) ==
  /\ Locked /\ guards = 1
  /\ main' = how /\ owner' = "none"
  /\ UNCHANGED <<sourceVars, guards, workVars, stopping, answerVars>>

\* Mutant: the main thread keeps the lock while it waits.
WaitLocked(how) ==
  /\ Locked /\ guards = 1
  /\ ~done /\ ~lent
  /\ main' = how
  /\ UNCHANGED <<sourceVars, lockVars, workVars, stopping, answerVars>>

\* wait, timed_wait and timed_wait_full give up the lock, if it is held once;
\* a thread that held it twice would wait with it.
Wait(how) ==
  /\ Locked /\ guards = 1
  /\ ~done /\ ~lent
  /\ main' = how /\ owner' = "none"
  /\ UNCHANGED <<sourceVars, guards, workVars, stopping, answerVars>>

\* The time limit, of which the caller is not told.
TimesOut ==
  /\ main = "timed"
  /\ main' = "woken"
  /\ UNCHANGED <<sourceVars, lockVars, workVars, stopping, answerVars>>

Relock ==
  /\ main = "woken" /\ owner = "none"
  /\ main' = "free" /\ owner' = "main"
  /\ UNCHANGED <<sourceVars, guards, workVars, stopping, answerVars>>

Request ==
  /\ Locked
  /\ signal(Notifier)
  /\ done' = FALSE
  /\ UNCHANGED <<lockVars, main, workVars, stopping, accepts, lent>>

\* What was lent is given back.
Accept ==
  /\ Locked /\ lent
  /\ lent' = FALSE /\ accepts' = accepts - 1
  /\ worker' = IF worker = "lending" /\ accepts' <= 0 THEN "accepted" ELSE worker
  /\ UNCHANGED <<sourceVars, lockVars, main, todo, running, quitting, stopping, done>>

\* Sources are used with the lock, but an event may be signalled without.
MainUses(s) ==
  /\ \/ Locked /\ Use(s)
     \/ main = "free" /\ signal(s)
  /\ UNCHANGED <<lockVars, main, workVars, stopping, answerVars>>

\* Mutant: without the lock.
MainDropsUnlocked(s) ==
  /\ main = "free"
  /\ ~(worker = "lending" /\ running = s)
  /\ Drop(s)
  /\ todo' = todo \ {s}
  /\ UNCHANGED <<lockVars, main, worker, running, quitting, stopping, answerVars>>

\* Not the source whose closure waits for what it has lent: that closure has
\* given up the lock while it runs.
MainDrops(s) ==
  /\ Locked
  /\ ~(worker \in {"lending", "accepted"} /\ running = s)
  /\ Drop(s)
  /\ todo' = todo \ {s}
  /\ UNCHANGED <<lockVars, main, worker, running, quitting, stopping, answerVars>>

Start ==
  /\ main = "free" /\ worker = "none"
  /\ worker' = "starting"
  /\ UNCHANGED <<sourceVars, lockVars, main, todo, running, quitting, stopping, answerVars>>

\* Mutant: stop with the lock held.
StopLocked ==
  /\ main = "free" /\ worker # "none"
  /\ Lender \notin live /\ ~lent
  /\ stopping' = TRUE /\ main' = "joining"
  /\ UNCHANGED <<sourceVars, lockVars, workVars, answerVars>>

\* stop, or the drop of the last handle: without the lock, as its comment
\* demands, and when nobody can lend any more.
Stop ==
  /\ main = "free" /\ guards = 0 /\ worker # "none"
  /\ Lender \notin live /\ ~lent
  /\ stopping' = TRUE /\ main' = "joining"
  /\ UNCHANGED <<sourceVars, lockVars, workVars, answerVars>>

Joined ==
  /\ main = "joining" /\ worker = "ended"
  /\ main' = "free" /\ worker' = "none"
  /\ stopping' = FALSE /\ quitting' = FALSE
  /\ UNCHANGED <<sourceVars, lockVars, todo, running, answerVars>>

------------------------------------------------------------------------------
(* The loop's thread *)

\* The poll is made without the lock.
Poll ==
  /\ worker = "polling" /\ (ready # {} \/ stopping)
  /\ todo' = ready /\ quitting' = stopping
  /\ worker' = "polled"
  /\ UNCHANGED <<sourceVars, lockVars, main, running, stopping, answerVars>>

WorkerLock ==
  /\ worker \in {"starting", "polled", "accepted"} /\ owner = "none"
  /\ owner' = "worker" /\ worker' = "dispatching"
  /\ UNCHANGED <<sourceVars, guards, main, todo, running, quitting, stopping, answerVars>>

Between == worker = "dispatching" /\ running = None
InClosure == worker = "dispatching" /\ running # None

Call(s) ==
  /\ Between /\ s \in todo
  /\ todo' = todo \ {s}
  /\ IF s \in ready THEN Take(s) /\ running' = s
                    ELSE UNCHANGED <<sourceVars, running>>
  /\ UNCHANGED <<lockVars, main, worker, quitting, stopping, answerVars>>

Return ==
  /\ InClosure
  /\ running' = None
  /\ UNCHANGED <<sourceVars, lockVars, main, worker, todo, quitting, stopping, answerVars>>

BatchEnds ==
  /\ Between /\ todo = {}
  /\ worker' = IF quitting THEN "ended" ELSE "polling"
  /\ owner' = "none"
  /\ UNCHANGED <<sourceVars, guards, main, todo, running, quitting, stopping, answerVars>>

\* Those who wait are woken.
Wake == main' = IF main \in {"waiting", "timed"} THEN "woken" ELSE main

\* signal(false), after what it tells of.
Notify ==
  /\ InClosure /\ running = Notifier
  /\ done' = TRUE
  /\ Wake
  /\ UNCHANGED <<sourceVars, lockVars, workVars, stopping, accepts, lent>>

\* Mutant: signal with wait_for_accept that does not wait.
LendUnawaited ==
  /\ InClosure /\ running = Lender /\ ~lent
  /\ lent' = TRUE
  /\ Wake
  /\ UNCHANGED <<sourceVars, lockVars, workVars, stopping, accepts, done>>

\* signal(true): the lock is given up until somebody has accepted.
Lend ==
  /\ InClosure /\ running = Lender /\ ~lent
  /\ lent' = TRUE /\ accepts' = accepts + 1
  /\ Wake
  /\ owner' = "none" /\ worker' = "lending"
  /\ UNCHANGED <<sourceVars, guards, todo, running, quitting, stopping, done>>

\* A closure uses sources, and drops others than its own.  It does not make
\* one that lends: the main thread must know when to stop.
ClosureUses(s) ==
  /\ InClosure
  /\ s = Lender => s \in live
  /\ \/ (Use(s) \/ signal(s)) /\ UNCHANGED todo
     \/ s # running /\ Drop(s) /\ todo' = todo \ {s}
  /\ UNCHANGED <<lockVars, main, worker, running, quitting, stopping, answerVars>>

Environment == /\ \E s \in Sources : Happens(s)
               /\ UNCHANGED <<lockVars, main, workVars, stopping, answerVars>>

------------------------------------------------------------------------------
Main == \/ Lock \/ Unlock \/ Wait("waiting") \/ Wait("timed") \/ TimesOut \/ Relock
        \/ Request \/ Accept
        \/ \E s \in Sources : MainUses(s) \/ MainDrops(s)
        \/ Start \/ Stop \/ Joined

Worker == \/ Poll \/ WorkerLock \/ BatchEnds
          \/ \E s \in Sources : Call(s) \/ ClosureUses(s)
          \/ Notify \/ Lend \/ Return

Next == Main \/ Worker \/ Environment

\* The loop's thread is scheduled, closures return, and the lock does not pass
\* over a thread for ever.  The program does not hold the lock for ever, and
\* gives back what was lent.
Fairness ==
  /\ WF_vars(Poll) /\ WF_vars(BatchEnds) /\ SF_vars(Return)
  /\ WF_vars(\E s \in Sources : Call(s))
  /\ SF_vars(WorkerLock) /\ SF_vars(Relock)
  /\ WF_vars(guards > 1 /\ Unlock) /\ SF_vars(guards = 1 /\ Unlock)
  /\ WF_vars(lent /\ guards = 0 /\ Lock) /\ SF_vars(Accept)
  /\ WF_vars(Joined)

Spec == Init /\ [][Next]_vars
FairSpec == Spec /\ Fairness

------------------------------------------------------------------------------
(* Properties *)

\* The shape of the state.
TypeOK ==
  /\ live \subseteq Sources /\ ready \subseteq live
  /\ armed \in [Sources -> {"off", "once", "repeat"}]
  /\ owner \in {"main", "worker", "none"}
  /\ guards \in 0..MaxGuards
  /\ main \in {"free", "waiting", "timed", "woken", "joining"}
  /\ worker \in {"none", "starting", "polling", "polled", "dispatching",
                 "lending", "accepted", "ended"}
  /\ todo \subseteq live
  /\ running \in Sources \cup {None}
  /\ stopping \in BOOLEAN /\ quitting \in BOOLEAN
  /\ accepts \in {0, 1}
  /\ done \in BOOLEAN /\ lent \in BOOLEAN

\* While the main thread has a guard and does not wait, the loop's thread
\* neither dispatches nor runs a closure.
MutualExclusion == ~(Locked /\ worker = "dispatching")

\* The main thread never waits for what has already happened.
NoLostWakeup == main \in {"waiting", "timed"} => ~done /\ ~lent

\* A closure is not freed while it runs.
ClosureAlive == running # None => running \in live

\* A closure that has lent something goes on only when it has it back.
LentUntilAccepted == lent => worker = "lending" /\ running = Lender

\* What has happened to a source reaches its closure, unless the source is
\* dropped or disarmed or the loop is stopped.
EventServed ==
  \A s \in Sources :
    s \in ready /\ worker # "none" ~>
      running = s \/ s \notin ready \/ worker \in {"none", "ended"}

\* stop returns.
StopReturns == main = "joining" ~> main = "free"
==============================================================================
