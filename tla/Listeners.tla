------------------------------ MODULE Listeners ------------------------------
(***************************************************************************)
(* The listeners of one object: register links a hook to the tail of the   *)
(* object's list, dropping the listener unlinks it, and the C library      *)
(* calls the hooks of the list one by one.  A callback is user code: it    *)
(* may register, drop any listener, itself included, and call methods that *)
(* emit events before they return.                                         *)
(*                                                                         *)
(* The list is circular and doubly linked.  Its nodes are the object's     *)
(* list (0), the hooks, and for each emission under way a cursor that the  *)
(* library keeps behind the hook it is calling (1, 2, ... by depth).       *)
(***************************************************************************)
EXTENDS Naturals, Sequences, FiniteSets

CONSTANTS
  Hooks,       \* the spa_hooks that listeners are made of
  Interface,   \* whose listeners these are: a key of EventsOf
  Depth        \* bound: emissions inside each other's callbacks

CoreEvents == {"info", "done", "error"}
RegistryEvents == {"global", "global_remove"}
ProxyEvents == {"destroy", "bound", "removed", "done", "error"}
NodeEvents == {"info", "param"}
PortEvents == {"info", "param"}
DeviceEvents == {"info", "param"}
ClientEvents == {"info", "permissions"}
FactoryEvents == {"info"}
ModuleEvents == {"info"}
LinkEvents == {"info"}
MetadataEvents == {"property"}
\* No builder method sets command and trigger_done.
StreamEvents == {"state_changed", "control_info", "io_changed", "param_changed",
                 "add_buffer", "remove_buffer", "process", "drained"}

EventsOf ==
  [core |-> CoreEvents, registry |-> RegistryEvents, proxy |-> ProxyEvents,
   node |-> NodeEvents, port |-> PortEvents, device |-> DeviceEvents,
   client |-> ClientEvents, factory |-> FactoryEvents, module |-> ModuleEvents,
   link |-> LinkEvents, metadata |-> MetadataEvents, stream |-> StreamEvents]

ASSUME ListenersAssumption ==
  /\ Interface \in DOMAIN EventsOf
  /\ Depth \in Nat
  /\ \A h \in Hooks : h \notin Nat

Events == EventsOf[Interface]
List == 0
Cursors == 1..Depth
Nodes == {List} \cup Cursors \cup Hooks

VARIABLES
  next, prev,   \* the links of every node; of one outside the list, stale
  handle,       \* of each listener: "none", "registered" or "dropped"
  callbacks,    \* the closures of each listener: the events that have one
  table,        \* the entries of the table of functions the library calls
  frames        \* the emissions under way, innermost last

vars == <<next, prev, handle, callbacks, table, frames>>

\* An emission of an event.  running is the hook whose callback runs, List if
\* none does; due (history) are the hooks registered when it began and since,
\* whose turn is to come, called (history) those that had it.
Frame == [event : Events, running : Hooks \cup {List},
          due : SUBSET Hooks, called : SUBSET Hooks]

Registered == {h \in Hooks : handle[h] = "registered"}
Linked == {List} \cup Registered \cup 1..Len(frames)
Top == frames[Len(frames)]

Init == /\ next = [n \in Nodes |-> List] /\ prev = [n \in Nodes |-> List]
        /\ handle = [h \in Hooks |-> "none"]
        /\ callbacks = [h \in Hooks |-> {}] /\ table = [h \in Hooks |-> {}]
        /\ frames = <<>>

\* Between emissions, and in a callback.
UserCode == frames # <<>> => Top.running # List

\* Links n, which is in no list, behind p.
InsertAfter(p, n) ==
  /\ next' = [next EXCEPT ![p] = n, ![n] = next[p]]
  /\ prev' = [prev EXCEPT ![next[p]] = n, ![n] = p]

\* Mutant: only one of the neighbours is told.
RemoveHalf(n) ==
  /\ next' = [next EXCEPT ![prev[n]] = next[n]]
  /\ prev' = prev
\* list::remove: the neighbours are told, n keeps its stale links.
Remove(n) ==
  /\ next' = [next EXCEPT ![prev[n]] = next[n]]
  /\ prev' = [prev EXCEPT ![next[n]] = prev[n]]

\* Mutant: linked behind the head, before those that registered earlier.
RegisterFirst(h, cbs) ==
  /\ UserCode /\ handle[h] = "none"
  /\ InsertAfter(List, h)
  /\ handle' = [handle EXCEPT ![h] = "registered"]
  /\ callbacks' = [callbacks EXCEPT ![h] = cbs]
  /\ table' = [table EXCEPT ![h] = cbs]
  /\ frames' = [i \in DOMAIN frames |->
                  IF frames[i].event \in cbs
                  THEN [frames[i] EXCEPT !.due = @ \cup {h}] ELSE frames[i]]
\* Mutant: the table has an entry for every event.
RegisterFullTable(h, cbs) ==
  /\ UserCode /\ handle[h] = "none"
  /\ InsertAfter(prev[List], h)
  /\ handle' = [handle EXCEPT ![h] = "registered"]
  /\ callbacks' = [callbacks EXCEPT ![h] = cbs]
  /\ table' = [table EXCEPT ![h] = Events]
  /\ frames' = [i \in DOMAIN frames |->
                  IF frames[i].event \in cbs
                  THEN [frames[i] EXCEPT !.due = @ \cup {h}] ELSE frames[i]]
\* The event's entry of the table is set exactly if there is a callback.
Register(h, cbs) ==
  /\ UserCode /\ handle[h] = "none"
  /\ InsertAfter(prev[List], h)
  /\ handle' = [handle EXCEPT ![h] = "registered"]
  /\ callbacks' = [callbacks EXCEPT ![h] = cbs]
  /\ table' = [table EXCEPT ![h] = cbs]
  /\ frames' = [i \in DOMAIN frames |->
                  IF frames[i].event \in cbs
                  THEN [frames[i] EXCEPT !.due = @ \cup {h}] ELSE frames[i]]

\* Mutant: the listener is freed and its hook left in the list.
DropLinked(h) ==
  /\ UserCode /\ handle[h] = "registered"
  /\ handle' = [handle EXCEPT ![h] = "dropped"]
  /\ frames' = [i \in DOMAIN frames |-> [frames[i] EXCEPT !.due = @ \ {h}]]
  /\ UNCHANGED <<next, prev, callbacks, table>>
\* Drop of a listener, or unregister.  hook.removed was zeroed and is None.
Drop(h) ==
  /\ UserCode /\ handle[h] = "registered"
  /\ Remove(h)
  /\ handle' = [handle EXCEPT ![h] = "dropped"]
  /\ frames' = [i \in DOMAIN frames |-> [frames[i] EXCEPT !.due = @ \ {h}]]
  /\ UNCHANGED <<callbacks, table>>

\* The loop dispatches an event, or a method called from user code emits one.
Emit(e) ==
  /\ UserCode /\ Len(frames) < Depth
  /\ InsertAfter(List, Len(frames) + 1)
  /\ frames' = Append(frames, [event |-> e, running |-> List, called |-> {},
                               due |-> {h \in Registered : e \in callbacks[h]}])
  /\ UNCHANGED <<handle, callbacks, table>>

\* The cursor moves behind the next node.  If that is a hook with an entry
\* for the event, its callback begins.
Advance ==
  LET c == Len(frames)  n == next[c]  p == prev[c]
      called == n \in Hooks /\ Top.event \in table[n]
  IN /\ frames # <<>> /\ Top.running = List /\ n # List
     /\ next' = [next EXCEPT ![p] = n, ![n] = c, ![c] = next[n]]
     /\ prev' = [prev EXCEPT ![n] = p, ![c] = n, ![next[n]] = c]
     /\ frames' = IF called
                  THEN [frames EXCEPT ![c].running = n, ![c].due = @ \ {n},
                                      ![c].called = @ \cup {n}]
                  ELSE frames
     /\ UNCHANGED <<handle, callbacks, table>>

Return ==
  /\ frames # <<>> /\ Top.running # List
  /\ frames' = [frames EXCEPT ![Len(frames)].running = List]
  /\ UNCHANGED <<next, prev, handle, callbacks, table>>

Finish ==
  /\ frames # <<>> /\ Top.running = List /\ next[Len(frames)] = List
  /\ Remove(Len(frames))
  /\ frames' = SubSeq(frames, 1, Len(frames) - 1)
  /\ UNCHANGED <<handle, callbacks, table>>

Next == \/ \E h \in Hooks, cbs \in SUBSET Events : Register(h, cbs)
        \/ \E h \in Hooks : Drop(h)
        \/ \E e \in Events : Emit(e)
        \/ Advance \/ Return \/ Finish

Spec == Init /\ [][Next]_vars

------------------------------------------------------------------------------
(* Properties *)

\* The shape of the state: what is due or was called is a listener that was
\* registered with a callback for the event.
TypeOK ==
  /\ next \in [Nodes -> Nodes] /\ prev \in [Nodes -> Nodes]
  /\ handle \in [Hooks -> {"none", "registered", "dropped"}]
  /\ callbacks \in [Hooks -> SUBSET Events] /\ table \in [Hooks -> SUBSET Events]
  /\ frames \in Seq(Frame) /\ Len(frames) <= Depth
  /\ \A i \in DOMAIN frames :
       /\ frames[i].due \subseteq Registered
       /\ \A h \in frames[i].due \cup frames[i].called :
            frames[i].event \in callbacks[h]

\* Every node of the list has neighbours in the list that know it, whatever
\* was registered and dropped from inside which callbacks: no hook of a
\* listener that was freed is reached, from either side.
LinksMatch ==
  \A n \in Linked : /\ next[n] \in Linked /\ prev[next[n]] = n
                    /\ prev[n] \in Linked /\ next[prev[n]] = n

\* From the head one comes, from each node to its next, to every hook that is
\* registered, to nothing that is not in the list, and back: nobody's
\* registration is lost by another's, or by a listener's end.
OneRing ==
  /\ \A n \in Linked : next[n] \in Linked
  /\ \A S \in SUBSET Nodes :
       List \in S /\ (\A n \in S : next[n] \in S) => Linked \subseteq S
  /\ \E n \in Linked : next[n] = List

\* "The callback will only get called as long as we keep the returned listener
\* alive": a callback begins for a registered listener only, for an event it
\* has a callback for, and once in an emission.
CalledWhileAlive ==
  [][\A i \in DOMAIN frames :
       i \in DOMAIN frames' /\ frames[i].running = List /\ frames'[i].running # List
         => LET h == frames'[i].running IN
            /\ handle[h] = "registered" /\ frames[i].event \in callbacks[h]
            /\ h \notin frames[i].called]_vars

\* An emission ends when everyone registered before or during it who wants the
\* event, and is still registered, has been called.
EveryoneServed ==
  [][Len(frames') < Len(frames) => Top.due = {}]_vars
==============================================================================
