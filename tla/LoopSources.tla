----------------------------- MODULE LoopSources -----------------------------
(***************************************************************************)
(* pipewire/src/loop_.rs: the sources of a loop.  A source and its boxed   *)
(* closure are made and freed together; the loop calls the closure when    *)
(* what the source stands for has happened.                                *)
(***************************************************************************)
EXTENDS Integers

CONSTANTS
  Sources,   \* the variables of the program that hold a source
  KindOf     \* "io", "idle", "signal", "event" or "timer" for each

ASSUME SourcesAssumption ==
  KindOf \in [Sources -> {"io", "idle", "signal", "event", "timer"}]

VARIABLES
  live,      \* sources that exist, with their closures
  armed,     \* timers: "off", "once" or "repeat"; idle sources that are
             \* enabled: "repeat"
  ready      \* sources that the next poll reports

sourceVars == <<live, armed, ready>>

SourcesInit == live = {} /\ armed = [s \in Sources |-> "off"] /\ ready = {}

Waiting(s) == ready' = ready \cup {s}
NotWaiting(s) == ready' = ready \ {s}
Set(s, to) == armed' = [armed EXCEPT ![s] = to]

\* add_io, add_signal_local, add_event and add_timer; add_idle with enabled.
Add(s, enabled) ==
  /\ s \notin live /\ (enabled => KindOf[s] = "idle")
  /\ live' = live \cup {s}
  /\ Set(s, IF enabled THEN "repeat" ELSE "off")
  /\ IF enabled THEN Waiting(s) ELSE UNCHANGED ready

\* The source is destroyed and its closure freed.
Drop(s) ==
  /\ s \in live
  /\ live' = live \ {s}
  /\ Set(s, "off") /\ NotWaiting(s)

signal(s) ==
  /\ s \in live /\ KindOf[s] = "event"
  /\ Waiting(s)
  /\ UNCHANGED <<live, armed>>

\* Any arming or disarming forgets what had expired.
update_timer(s, value, interval) ==
  /\ s \in live /\ KindOf[s] = "timer"
  /\ Set(s, IF ~value THEN "off" ELSE IF interval THEN "repeat" ELSE "once")
  /\ NotWaiting(s)
  /\ UNCHANGED live

enable(s, enabled) ==
  /\ s \in live /\ KindOf[s] = "idle"
  /\ Set(s, IF enabled THEN "repeat" ELSE "off")
  /\ IF enabled THEN Waiting(s) ELSE NotWaiting(s)
  /\ UNCHANGED live

\* What the program does with a source it has.
Use(s) ==
  \/ \E enabled \in BOOLEAN : Add(s, enabled) \/ enable(s, enabled)
  \/ \E value, interval \in BOOLEAN : update_timer(s, value, interval)

\* A file descriptor is ready, a signal comes, a timer expires.
Happens(s) ==
  /\ s \in live \ ready
  /\ \/ KindOf[s] \in {"io", "signal"} /\ UNCHANGED armed
     \/ /\ KindOf[s] = "timer" /\ armed[s] # "off"
        /\ Set(s, IF armed[s] = "once" THEN "off" ELSE "repeat")
  /\ Waiting(s)
  /\ UNCHANGED live

\* The loop takes what happened and calls the closure.  An idle source stays
\* ready; of a file descriptor the closure may leave something.
Take(s) ==
  /\ s \in ready
  /\ CASE KindOf[s] = "idle" -> UNCHANGED ready
       [] KindOf[s] = "io"   -> ready' \in {ready, ready \ {s}}
       [] OTHER              -> NotWaiting(s)
  /\ UNCHANGED <<live, armed>>
==============================================================================
