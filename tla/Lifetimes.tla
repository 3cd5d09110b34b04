------------------------------ MODULE Lifetimes ------------------------------
(***************************************************************************)
(* Who keeps whom alive: a context holds its loop, a core its context, a   *)
(* stream its core, and the program holds handles to any of them.  Loops,  *)
(* contexts and cores are reference counted: holders is the set of those   *)
(* whose references are counted.                                           *)
(*                                                                         *)
(* The last reference of an object that goes away runs its Drop, which     *)
(* calls the C destructor, and then drops its fields, which may be the     *)
(* last reference to the next object.  While the destructor runs the       *)
(* library calls listeners: user code, which may drop handles in its turn. *)
(***************************************************************************)
EXTENDS Naturals, Sequences, FiniteSets

CONSTANTS
  Loops, Contexts, Cores, Streams,   \* the objects there may ever be
  Handles                            \* the program's variables

Objects == Loops \cup Contexts \cup Cores \cup Streams
Counted == Loops \cup Contexts \cup Cores

ASSUME LifetimesAssumption ==
  /\ Loops \cap (Contexts \cup Cores \cup Streams) = {}
  /\ Contexts \cap (Cores \cup Streams) = {} /\ Cores \cap Streams = {}
  /\ Handles \cap Objects = {}

VARIABLES
  raw,        \* of each C object: "none", "alive", "dying" or "destroyed"
  parent,     \* what it was made from; itself for loops, and before it is made
  holders,    \* the handles and objects that have a reference to its Rust side
  given,      \* the streams taken out of Rust with into_raw
  dropping    \* the objects whose last reference is gone, innermost last

lifetimesVars == <<raw, parent, holders, given, dropping>>

LifetimesInit ==
  /\ raw = [o \in Objects |-> "none"]
  /\ parent = [o \in Objects |-> o]
  /\ holders = [o \in Objects |-> {}]
  /\ given = {} /\ dropping = <<>>

Innermost == dropping[Len(dropping)]
Below == SubSeq(dropping, 1, Len(dropping) - 1)
Underway == {dropping[i] : i \in DOMAIN dropping}

\* Between calls, and in callbacks that a C destructor makes: a context's for
\* the proxies that are left, a stream's for the change of its state.
ProgramRuns == dropping # <<>> => Innermost \notin Loops /\ raw[Innermost] = "dying"

Free(h) == \A o \in Objects : h \notin holders[o]

\* MainLoop::new, Loop::new and ThreadLoop::new.
NewLoop(l, h) ==
  /\ ProgramRuns /\ raw[l] = "none" /\ Free(h)
  /\ raw' = [raw EXCEPT ![l] = "alive"]
  /\ holders' = [holders EXCEPT ![l] = {h}]
  /\ UNCHANGED <<parent, given, dropping>>

\* Mutant: o keeps no reference to what it was made from.
MakeUnheld(o, p, h) ==
  /\ ProgramRuns /\ raw[o] = "none" /\ Free(h)
  /\ holders[p] \cap Handles # {}
  /\ raw' = [raw EXCEPT ![o] = "alive"]
  /\ parent' = [parent EXCEPT ![o] = p]
  /\ holders' = [holders EXCEPT ![o] = {h}]
  /\ UNCHANGED <<given, dropping>>
\* Through a handle to p the program makes o, which takes a reference to p.
\* If the library refuses, any reference taken is given back: nothing changes.
Make(o, p, h) ==
  /\ ProgramRuns /\ raw[o] = "none" /\ Free(h)
  /\ holders[p] \cap Handles # {}
  /\ raw' = [raw EXCEPT ![o] = "alive"]
  /\ parent' = [parent EXCEPT ![o] = p]
  /\ holders' = [holders EXCEPT ![o] = {h}, ![p] = @ \cup {o}]
  /\ UNCHANGED <<given, dropping>>

NewContext(c, l, h) == Make(c, l, h)
Connect(k, c, h) == Make(k, c, h)
NewStream(s, k, h) == Make(s, k, h)

Clone(o, h) ==
  /\ ProgramRuns /\ Free(h)
  /\ holders[o] \cap Handles # {}
  /\ holders' = [holders EXCEPT ![o] = @ \cup {h}]
  /\ UNCHANGED <<raw, parent, given, dropping>>

\* Mutant: the weak pointer is followed without a look at the count.
UpgradeUnchecked(l, h) ==
  /\ ProgramRuns /\ Free(h) /\ raw[l] # "none"
  /\ holders' = [holders EXCEPT ![l] = @ \cup {h}]
  /\ UNCHANGED <<raw, parent, given, dropping>>
\* WeakMainLoop::upgrade and the like: None once the last reference is gone.
Upgrade(l, h) ==
  /\ ProgramRuns /\ Free(h) /\ holders[l] # {}
  /\ holders' = [holders EXCEPT ![l] = @ \cup {h}]
  /\ UNCHANGED <<raw, parent, given, dropping>>

\* r's reference to o ends, rest being the drops that go on.
Release(o, r, rest) ==
  /\ holders' = [holders EXCEPT ![o] = @ \ {r}]
  /\ dropping' = IF holders[o] \subseteq {r} THEN Append(rest, o) ELSE rest

DropHandle(o, h) ==
  /\ ProgramRuns /\ h \in holders[o]
  /\ Release(o, h, dropping)
  /\ UNCHANGED <<raw, parent, given>>

\* The Drop of a loop, context or stream.  Cores have none.
EnterDestructor ==
  /\ dropping # <<>> /\ Innermost \notin Cores /\ raw[Innermost] = "alive"
  /\ raw' = [raw EXCEPT ![Innermost] = "dying"]
  /\ UNCHANGED <<parent, holders, given, dropping>>

\* A context that is destroyed disconnects its cores.
LeaveDestructor ==
  /\ dropping # <<>> /\ raw[Innermost] = "dying"
  /\ raw' = [o \in Objects |->
               IF \/ o = Innermost
                  \/ o \in Cores /\ parent[o] = Innermost /\ raw[o] = "alive"
               THEN "destroyed" ELSE raw[o]]
  /\ UNCHANGED <<parent, holders, given, dropping>>

\* After the Drop the fields: the reference to the parent.
DropFields ==
  /\ dropping # <<>> /\ (Innermost \in Cores \/ raw[Innermost] = "destroyed")
  /\ IF Innermost \in Loops THEN dropping' = Below /\ holders' = holders
     ELSE Release(parent[Innermost], Innermost, Below)
  /\ UNCHANGED <<raw, parent, given>>

\* Mutant: the core in the ManuallyDrop is forgotten.
IntoRawKeepsCore(s, h) ==
  /\ ProgramRuns /\ h \in holders[s]
  /\ given' = given \cup {s}
  /\ holders' = [holders EXCEPT ![s] = {}]
  /\ UNCHANGED <<raw, parent, dropping>>
\* Stream::into_raw: the core is released, the C stream is left to the caller.
IntoRaw(s, h) ==
  /\ ProgramRuns /\ h \in holders[s]
  /\ given' = given \cup {s}
  /\ LET k == parent[s] IN
     /\ holders' = [holders EXCEPT ![s] = {}, ![k] = @ \ {s}]
     /\ dropping' = IF holders[k] = {s} THEN Append(dropping, k) ELSE dropping
  /\ UNCHANGED <<raw, parent>>

LifetimesNext ==
  \/ \E h \in Handles :
       \/ \E l \in Loops : NewLoop(l, h) \/ Upgrade(l, h)
       \/ \E c \in Contexts, l \in Loops : NewContext(c, l, h)
       \/ \E k \in Cores, c \in Contexts : Connect(k, c, h)
       \/ \E s \in Streams, k \in Cores : NewStream(s, k, h)
       \/ \E o \in Counted : Clone(o, h)
       \/ \E o \in Objects : DropHandle(o, h)
       \/ \E s \in Streams : IntoRaw(s, h)
  \/ EnterDestructor \/ LeaveDestructor \/ DropFields

LifetimesSpec == LifetimesInit /\ [][LifetimesNext]_lifetimesVars

------------------------------------------------------------------------------
(* Properties *)

\* The shape of the state: what is being dropped has no references, is dropped
\* once, and was not given away; a variable is one handle.
LifetimesTypeOK ==
  /\ raw \in [Objects -> {"none", "alive", "dying", "destroyed"}]
  /\ parent \in [Objects -> Objects]
  /\ holders \in [Objects -> SUBSET (Handles \cup Objects)]
  /\ given \subseteq Streams
  /\ dropping \in Seq(Objects)
  /\ \A i, j \in DOMAIN dropping : dropping[i] = dropping[j] => i = j
  /\ \A o \in Underway : holders[o] = {} /\ o \notin given
  /\ \A o, p \in Objects, h \in Handles : h \in holders[o] \cap holders[p] => o = p

\* What the program has a handle to, and what that was made from, is alive,
\* whichever order handles are dropped in, in destructors' callbacks too: no
\* method call and no upgrade reaches an object whose destructor has begun.
HandlesAlive == \A o \in Objects : holders[o] # {} => raw[o] = "alive"

\* "Store the loop here, so that the loop is not dropped before the context",
\* "objects that need to stay alive while the Stream is": the C destructors run
\* from the leaves to the root.  A core may see its context die, which ends it.
ParentsAlive ==
  \A o \in Objects \ Loops :
    raw[o] \in {"alive", "dying"} /\ o \notin given =>
      \/ raw[parent[o]] = "alive"
      \/ o \in Cores /\ raw[parent[o]] = "dying"

\* When no drop is under way everything alive is there for someone: a handle
\* refers to it, or an object that is itself referred to.  Only a core stays
\* connected as long as its context, whoever has let go of it.
NothingLeaks ==
  dropping = <<>> =>
    \A o \in Objects \ given :
      raw[o] = "alive" =>
        \/ \E r \in holders[o] : r \in Handles \/ holders[r] # {}
        \/ o \in Cores /\ holders[o] = {} /\ raw[parent[o]] = "alive"
==============================================================================
