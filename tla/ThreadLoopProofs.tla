-------------------------- MODULE ThreadLoopProofs ---------------------------
(***************************************************************************)
(* For any sources and any number of nested locks: the lock excludes the   *)
(* loop's thread, no wait misses its signal, and a closure outlives its    *)
(* run, though it gives up the lock while it lends something.              *)
(*                                                                         *)
(* ClosureAlive is not inductive by itself: the main thread may drop what  *)
(* does not run, and that a closure runs only while the loop's thread has  *)
(* the lock, or lends, is what Places says.                                *)
(***************************************************************************)
EXTENDS ThreadLoop, TLAPS

(* Who has the lock follows from where the threads are. *)
Places ==
  /\ owner = "main" <=> main = "free" /\ guards > 0
  /\ owner = "worker" <=> worker = "dispatching"
  /\ main \in {"waiting", "timed", "woken"} => guards = 1
  /\ main = "joining" => guards = 0
  /\ running # None => worker \in {"dispatching", "lending", "accepted"}
  /\ worker \in {"lending", "accepted"} => running = Lender

(* What is lent is awaited, by one closure at most. *)
Lending == /\ lent <=> worker = "lending"
           /\ accepts = IF lent THEN 1 ELSE 0

Inv == TypeOK /\ Places /\ Lending /\ NoLostWakeup /\ ClosureAlive

------------------------------------------------------------------------------
(* The sources *)

SourcesOK == /\ live \subseteq Sources /\ ready \subseteq live
             /\ armed \in [Sources -> {"off", "once", "repeat"}]

LEMMA UseKeeps ==
  ASSUME SourcesOK, NEW s \in Sources, Use(s) \/ signal(s)
  PROVE  SourcesOK' /\ live \subseteq live'
<1>1. CASE \E enabled \in BOOLEAN : Add(s, enabled)
  BY <1>1 DEF SourcesOK, Add, Set, Waiting
<1>2. CASE \E enabled \in BOOLEAN : enable(s, enabled)
  BY <1>2 DEF SourcesOK, enable, Set, Waiting, NotWaiting
<1>3. CASE \E value, interval \in BOOLEAN : update_timer(s, value, interval)
  BY <1>3 DEF SourcesOK, update_timer, Set, NotWaiting
<1>4. CASE signal(s)
  BY <1>4 DEF SourcesOK, signal, Waiting
<1> QED
  BY <1>1, <1>2, <1>3, <1>4 DEF Use

LEMMA DropKeeps ==
  ASSUME SourcesOK, NEW s \in Sources, Drop(s)
  PROVE  SourcesOK' /\ live' = live \ {s}
BY DEF SourcesOK, Drop, Set, NotWaiting

LEMMA HappensKeeps ==
  ASSUME SourcesOK, NEW s \in Sources, Happens(s)
  PROVE  SourcesOK' /\ live' = live
BY DEF SourcesOK, Happens, Set, Waiting

LEMMA TakeKeeps ==
  ASSUME SourcesOK, NEW s \in Sources, Take(s)
  PROVE  SourcesOK' /\ live' = live /\ s \in live
<1>1. s \in ready /\ live' = live /\ armed' = armed
  BY DEF Take
<1>2. ready' = ready \/ ready' = ready \ {s}
  BY DEF Take, NotWaiting
<1> QED
  BY <1>1, <1>2 DEF SourcesOK

------------------------------------------------------------------------------
(* The invariant *)

LEMMA Inits == Init => Inv
<1> SUFFICES ASSUME Init PROVE Inv
  OBVIOUS
<1>1. TypeOK
  <2>1. SourcesOK
    BY DEF Init, SourcesInit, SourcesOK
  <2>2. guards \in 0..MaxGuards /\ accepts \in {0, 1}
    BY ThreadLoopAssumption DEF Init
  <2> QED
    BY <2>1, <2>2 DEF Init, SourcesInit, SourcesOK, TypeOK
<1>2. Places /\ NoLostWakeup /\ ClosureAlive
  BY DEF Init, Places, NoLostWakeup, ClosureAlive
<1>3. Lending
  BY DEF Init, Lending
<1> QED
  BY <1>1, <1>2, <1>3 DEF Inv

LEMMA Steps == Inv /\ [Next]_vars => Inv'
<1> SUFFICES ASSUME Inv, [Next]_vars PROVE Inv'
  OBVIOUS
<1> USE ThreadLoopAssumption
<1>0. SourcesOK
  BY DEF Inv, TypeOK, SourcesOK
<1>1. CASE Lock
  BY <1>1 DEF Lock, Inv, TypeOK, Places, Lending, NoLostWakeup, ClosureAlive, workVars, answerVars, sourceVars
<1>2. CASE Unlock
  BY <1>2 DEF Unlock, Locked, Inv, TypeOK, Places, Lending, NoLostWakeup, ClosureAlive, workVars, answerVars, sourceVars
<1>3. ASSUME NEW how \in {"waiting", "timed"}, Wait(how) PROVE Inv'
  BY <1>3 DEF Wait, Locked, Inv, TypeOK, Places, Lending, NoLostWakeup, ClosureAlive, workVars, answerVars, sourceVars
<1>4. CASE TimesOut
  BY <1>4 DEF TimesOut, Inv, TypeOK, Places, Lending, NoLostWakeup, ClosureAlive, workVars, answerVars, sourceVars, lockVars
<1>5. CASE Relock
  BY <1>5 DEF Relock, Inv, TypeOK, Places, Lending, NoLostWakeup, ClosureAlive, workVars, answerVars, sourceVars
<1>6. CASE Request
  <2>1. SourcesOK' /\ live \subseteq live'
    BY <1>0, <1>6, UseKeeps DEF Request
  <2> QED
    BY <1>6, <2>1 DEF Request, Locked, SourcesOK, Inv, TypeOK, Places, Lending, NoLostWakeup, ClosureAlive, workVars, lockVars
<1>7. CASE Accept
  <2>1. lent /\ worker = "lending" /\ main = "free" /\ guards > 0 /\ accepts = 1
    BY <1>7 DEF Accept, Locked, Inv, Lending
  <2>2. lent' = FALSE /\ accepts' = 0 /\ worker' = "accepted"
    BY <1>7, <2>1 DEF Accept
  <2>3. Lending'
    BY <2>2 DEF Lending
  <2>4. TypeOK'
    BY <1>7, <2>2 DEF Accept, Inv, TypeOK, sourceVars, lockVars
  <2>5. Places' /\ NoLostWakeup' /\ ClosureAlive'
    BY <1>7, <2>1, <2>2 DEF Accept, Inv, Places, NoLostWakeup, ClosureAlive, sourceVars, lockVars
  <2> QED
    BY <2>3, <2>4, <2>5 DEF Inv
<1>8. ASSUME NEW s \in Sources, MainUses(s) PROVE Inv'
  <2>1. SourcesOK' /\ live \subseteq live'
    BY <1>0, <1>8, UseKeeps DEF MainUses
  <2> QED
    BY <1>8, <2>1 DEF MainUses, SourcesOK, Inv, TypeOK, Places, Lending, NoLostWakeup, ClosureAlive, workVars, lockVars, answerVars
<1>9. ASSUME NEW s \in Sources, MainDrops(s) PROVE Inv'
  <2>1. SourcesOK' /\ live' = live \ {s}
    BY <1>0, <1>9, DropKeeps DEF MainDrops
  <2>2. running # s
    BY <1>9 DEF MainDrops, Locked, Inv, Places
  <2> QED
    BY <1>9, <2>1, <2>2 DEF MainDrops, SourcesOK, Inv, TypeOK, Places, Lending, NoLostWakeup, ClosureAlive, lockVars, answerVars
<1>10. CASE Start
  BY <1>10 DEF Start, Inv, TypeOK, Places, Lending, NoLostWakeup, ClosureAlive, answerVars, sourceVars, lockVars
<1>11. CASE Stop
  BY <1>11 DEF Stop, Inv, TypeOK, Places, Lending, NoLostWakeup, ClosureAlive, answerVars, sourceVars, lockVars, workVars
<1>12. CASE Joined
  <2>1. TypeOK'
    BY <1>12 DEF Joined, Inv, TypeOK, answerVars, sourceVars, lockVars
  <2>2. running = None /\ ~lent /\ guards = 0
    BY <1>12 DEF Joined, Inv, Places, Lending
  <2>3. Lending'
    BY <1>12, <2>2 DEF Joined, Inv, Lending, answerVars
  <2>4. Places' /\ NoLostWakeup' /\ ClosureAlive'
    BY <1>12, <2>2 DEF Joined, Inv, Places, NoLostWakeup, ClosureAlive, answerVars, sourceVars, lockVars
  <2> QED
    BY <2>1, <2>3, <2>4 DEF Inv
<1>13. CASE Poll
  BY <1>13 DEF Poll, Inv, TypeOK, Places, Lending, NoLostWakeup, ClosureAlive, answerVars, sourceVars, lockVars
<1>14. CASE WorkerLock
  BY <1>14 DEF WorkerLock, Inv, TypeOK, Places, Lending, NoLostWakeup, ClosureAlive, answerVars, sourceVars
<1>15. CASE BatchEnds
  BY <1>15 DEF BatchEnds, Between, Inv, TypeOK, Places, Lending, NoLostWakeup, ClosureAlive, answerVars, sourceVars
<1>16. ASSUME NEW s \in Sources, Call(s) PROVE Inv'
  <2>1. CASE s \in ready
    <3>1. SourcesOK' /\ live' = live /\ s \in live /\ running' = s
      BY <1>0, <1>16, <2>1, TakeKeeps DEF Call
    <3> QED
      BY <1>16, <3>1 DEF Call, Between, SourcesOK, Inv, TypeOK, Places, Lending, NoLostWakeup, ClosureAlive, answerVars, lockVars
  <2>2. CASE s \notin ready
    BY <1>16, <2>2 DEF Call, Between, Inv, TypeOK, Places, Lending, NoLostWakeup, ClosureAlive, answerVars, lockVars, sourceVars
  <2> QED
    BY <2>1, <2>2
<1>17. ASSUME NEW s \in Sources, ClosureUses(s) PROVE Inv'
  <2>1. CASE (Use(s) \/ signal(s)) /\ UNCHANGED todo
    <3>1. SourcesOK' /\ live \subseteq live'
      BY <1>0, <2>1, UseKeeps
    <3> QED
      BY <1>17, <2>1, <3>1 DEF ClosureUses, InClosure, SourcesOK, Inv, TypeOK, Places, Lending, NoLostWakeup, ClosureAlive, lockVars, answerVars
  <2>2. CASE s # running /\ Drop(s) /\ todo' = todo \ {s}
    <3>1. SourcesOK' /\ live' = live \ {s}
      BY <1>0, <2>2, DropKeeps
    <3> QED
      BY <1>17, <2>2, <3>1 DEF ClosureUses, InClosure, SourcesOK, Inv, TypeOK, Places, Lending, NoLostWakeup, ClosureAlive, lockVars, answerVars
  <2> QED
    BY <1>17, <2>1, <2>2 DEF ClosureUses
<1>18. CASE Notify
  BY <1>18 DEF Notify, InClosure, Wake, Inv, TypeOK, Places, Lending, NoLostWakeup, ClosureAlive, sourceVars, lockVars, workVars
<1>19. CASE Lend
  BY <1>19 DEF Lend, InClosure, Wake, Inv, TypeOK, Places, Lending, NoLostWakeup, ClosureAlive, sourceVars
<1>20. CASE Return
  BY <1>20 DEF Return, InClosure, Inv, TypeOK, Places, Lending, NoLostWakeup, ClosureAlive, sourceVars, lockVars, answerVars
<1>21. CASE Environment
  <2>1. SourcesOK' /\ live' = live
    BY <1>0, <1>21, HappensKeeps DEF Environment
  <2> QED
    BY <1>21, <2>1 DEF Environment, SourcesOK, Inv, TypeOK, Places, Lending, NoLostWakeup, ClosureAlive, lockVars, workVars, answerVars
<1>22. CASE UNCHANGED vars
  BY <1>22 DEF vars, Inv, TypeOK, Places, Lending, NoLostWakeup, ClosureAlive, sourceVars, lockVars, workVars, answerVars
<1> QED
  BY <1>1, <1>2, <1>3, <1>4, <1>5, <1>6, <1>7, <1>8, <1>9, <1>10, <1>11, <1>12,
     <1>13, <1>14, <1>15, <1>16, <1>17, <1>18, <1>19, <1>20, <1>21, <1>22
  DEF Next, Main, Worker

LEMMA Invariance == Spec => []Inv
BY Inits, Steps, PTL DEF Spec

------------------------------------------------------------------------------
(* Theorems *)

(* The state of the loop, its thread and the program keeps its shape. *)
THEOREM Typing == Spec => []TypeOK
BY Invariance, PTL DEF Inv

(* While the main thread has a guard and does not wait, no closure runs. *)
THEOREM Exclusion == Spec => []MutualExclusion
<1>1. Inv => MutualExclusion
  BY DEF Inv, Places, MutualExclusion, Locked
<1> QED
  BY <1>1, Invariance, PTL

(* The main thread never waits for what has already happened. *)
THEOREM WakeupsArrive == Spec => []NoLostWakeup
BY Invariance, PTL DEF Inv

(* No closure is freed while it runs, or while it waits for what it lent. *)
THEOREM ClosuresOutlive == Spec => []ClosureAlive
BY Invariance, PTL DEF Inv

(* A closure that has lent something goes on only when it has it back. *)
THEOREM NothingLentIsUsed == Spec => []LentUntilAccepted
<1>1. Inv => LentUntilAccepted
  BY DEF Inv, Places, Lending, LentUntilAccepted
<1> QED
  BY <1>1, Invariance, PTL
==============================================================================
