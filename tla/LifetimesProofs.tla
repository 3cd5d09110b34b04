--------------------------- MODULE LifetimesProofs ---------------------------
(***************************************************************************)
(* For any number of objects and handles: what the program can reach is    *)
(* alive, parents outlive their children, and nothing is left behind.      *)
(*                                                                         *)
(* HandlesAlive is not inductive by itself: that a handle's object is      *)
(* alive while its parent is dropped follows from the reference it has to  *)
(* the parent, which it keeps until its own drop is done (Held).           *)
(***************************************************************************)
EXTENDS Lifetimes, TLAPS

(* The Rust side of o is there, perhaps in the middle of its drop. *)
Exists(o) == holders[o] # {} \/ o \in Underway

(* Contexts are made of loops, cores of contexts, streams of cores. *)
Kinds ==
  \A o \in Objects :
    raw[o] # "none" => /\ o \in Contexts => parent[o] \in Loops
                       /\ o \in Cores => parent[o] \in Contexts
                       /\ o \in Streams => parent[o] \in Cores

(* An object has a reference to its parent as long as its Rust side is there, *)
(* and to nothing else.                                                       *)
Held ==
  \A o, p \in Objects : o \in holders[p] <=> o \notin Loops /\ p = parent[o] /\ Exists(o)

Living ==
  /\ \A o \in Objects : holders[o] # {} => raw[o] = "alive"
  /\ \A o \in Underway : raw[o] # "none"
  /\ \A o \in Objects : raw[o] = "dying" => o \in Underway /\ o \notin Cores
  /\ \A o \in Objects \ given : raw[o] = "alive" => Exists(o) \/ o \in Cores
  /\ \A s \in given : holders[s] = {} /\ raw[s] # "none"
  /\ \A k \in Cores : raw[k] = "alive" => raw[parent[k]] \in {"alive", "dying"}

Inv == LifetimesTypeOK /\ Kinds /\ Held /\ Living

------------------------------------------------------------------------------
(* The stack of drops *)

Elements(d) == {d[i] : i \in DOMAIN d}
Distinct(d) == \A i, j \in DOMAIN d : d[i] = d[j] => i = j

LEMMA Push ==
  ASSUME NEW d \in Seq(Objects), Distinct(d), NEW o \in Objects, o \notin Elements(d)
  PROVE  /\ Append(d, o) \in Seq(Objects) /\ Distinct(Append(d, o))
         /\ Elements(Append(d, o)) = Elements(d) \cup {o}
<1> DEFINE e == Append(d, o)
           n == Len(d)
<1>1. /\ n \in Nat /\ DOMAIN d = 1..n /\ e \in Seq(Objects) /\ DOMAIN e = 1..n + 1
      /\ e[n + 1] = o /\ \A i \in 1..n : e[i] = d[i]
  OBVIOUS
<1> HIDE DEF e, n
<1>2. \A i \in 1..n : d[i] # o
  BY <1>1 DEF Elements
<1>3. \A i \in 1..n + 1 : i \in 1..n \/ i = n + 1
  BY <1>1
<1>4. Distinct(e)
  BY <1>1, <1>2, <1>3 DEF Distinct
<1>5. n + 1 \in 1..n + 1 /\ \A i \in 1..n : i \in 1..n + 1
  BY <1>1
<1>6. Elements(e) = Elements(d) \cup {o}
  <2>1. \A x : x \in Elements(e) <=> \E i \in 1..n + 1 : e[i] = x
    BY <1>1 DEF Elements
  <2>2. \A x : x \in Elements(d) <=> \E i \in 1..n : d[i] = x
    BY <1>1 DEF Elements
  <2>3. QED
    BY <1>1, <1>3, <1>5, <2>1, <2>2
<1>7. QED
  BY <1>1, <1>4, <1>6 DEF e

LEMMA Pop ==
  ASSUME NEW d \in Seq(Objects), Distinct(d), d # <<>>
  PROVE  /\ d[Len(d)] \in Elements(d) /\ d[Len(d)] \in Objects
         /\ SubSeq(d, 1, Len(d) - 1) \in Seq(Objects) /\ Distinct(SubSeq(d, 1, Len(d) - 1))
         /\ Elements(SubSeq(d, 1, Len(d) - 1)) = Elements(d) \ {d[Len(d)]}
<1> DEFINE n == Len(d)
           e == SubSeq(d, 1, n - 1)
<1>1. /\ n \in Nat \ {0} /\ DOMAIN d = 1..n /\ d[n] \in Objects
      /\ e \in Seq(Objects) /\ DOMAIN e = 1..n - 1 /\ \A i \in 1..n - 1 : e[i] = d[i]
  OBVIOUS
<1> HIDE DEF e, n
<1>2. n \in 1..n /\ \A i \in 1..n : (i \in 1..n - 1 <=> i # n)
  BY <1>1
<1>3. \A i \in 1..n - 1 : i \in 1..n
  BY <1>1
<1>4. Distinct(e)
  BY <1>1, <1>3 DEF Distinct
<1>5. Elements(e) = Elements(d) \ {d[n]}
  <2>1. \A x : x \in Elements(e) <=> \E i \in 1..n - 1 : e[i] = x
    BY <1>1 DEF Elements
  <2>2. \A x : x \in Elements(d) <=> \E i \in 1..n : d[i] = x
    BY <1>1 DEF Elements
  <2>3. \A i \in 1..n : d[i] = d[n] => i = n
    BY <1>1, <1>2 DEF Distinct
  <2>4. QED
    BY <1>1, <1>2, <1>3, <2>1, <2>2, <2>3
<1>6. d[n] \in Elements(d)
  BY <1>1, <1>2 DEF Elements
<1>7. QED
  BY <1>1, <1>4, <1>5, <1>6 DEF e, n

(* A reference that ends. *)
LEMMA Released ==
  ASSUME holders \in [Objects -> SUBSET (Handles \cup Objects)],
         NEW o \in Objects, NEW r \in holders[o],
         NEW rest \in Seq(Objects), Distinct(rest), o \notin Elements(rest),
         Release(o, r, rest)
  PROVE  /\ holders' \in [Objects -> SUBSET (Handles \cup Objects)]
         /\ holders'[o] = holders[o] \ {r}
         /\ \A q \in Objects : q # o => holders'[q] = holders[q]
         /\ dropping' \in Seq(Objects) /\ Distinct(dropping')
         /\ Underway' = IF holders'[o] = {} THEN Elements(rest) \cup {o}
                                            ELSE Elements(rest)
<1>1. /\ holders' = [holders EXCEPT ![o] = @ \ {r}]
      /\ dropping' = IF holders[o] \subseteq {r} THEN Append(rest, o) ELSE rest
  BY DEF Release
<1>2. /\ holders' \in [Objects -> SUBSET (Handles \cup Objects)]
      /\ holders'[o] = holders[o] \ {r}
      /\ \A q \in Objects : q # o => holders'[q] = holders[q]
  BY <1>1
<1>3. holders[o] \subseteq {r} <=> holders'[o] = {}
  BY <1>2
<1>4. Underway' = Elements(dropping')
  BY DEF Underway, Elements
<1>5. QED
  BY <1>1, <1>2, <1>3, <1>4, Push

------------------------------------------------------------------------------
(* The steps *)

(* LifetimesTypeOK with the stack as a set. *)
LEMMA Typed ==
  LifetimesTypeOK <=>
    /\ raw \in [Objects -> {"none", "alive", "dying", "destroyed"}]
    /\ parent \in [Objects -> Objects]
    /\ holders \in [Objects -> SUBSET (Handles \cup Objects)]
    /\ given \subseteq Streams
    /\ dropping \in Seq(Objects) /\ Distinct(dropping)
    /\ \A o \in Underway : holders[o] = {} /\ o \notin given
    /\ \A o, p \in Objects, h \in Handles : h \in holders[o] \cap holders[p] => o = p
BY DEF LifetimesTypeOK, Distinct

(* Nothing that is made, or was, is in a place where it does not belong. *)
LEMMA Disjoint ==
  /\ \A o \in Objects : \/ o \in Loops /\ o \notin Contexts /\ o \notin Cores /\ o \notin Streams
                        \/ o \notin Loops /\ o \in Contexts /\ o \notin Cores /\ o \notin Streams
                        \/ o \notin Loops /\ o \notin Contexts /\ o \in Cores /\ o \notin Streams
                        \/ o \notin Loops /\ o \notin Contexts /\ o \notin Cores /\ o \in Streams
  /\ \A h \in Handles : h \notin Objects
  /\ Loops \subseteq Objects /\ Contexts \subseteq Objects
  /\ Cores \subseteq Objects /\ Streams \subseteq Objects
BY LifetimesAssumption DEF Objects

LEMMA Stacked ==
  ASSUME dropping \in Seq(Objects)
  PROVE  Underway \subseteq Objects
BY DEF Underway

LEMMA Initially == LifetimesInit => Inv
<1> SUFFICES ASSUME LifetimesInit PROVE Inv
  OBVIOUS
<1>1. Underway = {}
  BY DEF LifetimesInit, Underway
<1>2. dropping \in Seq(Objects) /\ DOMAIN dropping = {}
  BY DEF LifetimesInit
<1>3. LifetimesTypeOK
  BY <1>1, <1>2 DEF LifetimesInit, LifetimesTypeOK
<1>4. Kinds
  BY DEF LifetimesInit, Kinds
<1>5. Held
  BY <1>1 DEF LifetimesInit, Held, Exists
<1>6. Living
  BY <1>1, Disjoint DEF LifetimesInit, Living
<1>7. QED
  BY <1>3, <1>4, <1>5, <1>6 DEF Inv

LEMMA InvNewLoop ==
  ASSUME Inv, NEW l \in Loops, NEW h \in Handles, NewLoop(l, h)
  PROVE  Inv'
<1>1. l \in Objects /\ Underway' = Underway /\ dropping' = dropping
  BY Disjoint DEF NewLoop, Underway
<1>2. LifetimesTypeOK /\ Kinds /\ Held /\ Living
  BY DEF Inv
<1>3. /\ raw' = [raw EXCEPT ![l] = "alive"] /\ raw[l] = "none"
      /\ holders' = [holders EXCEPT ![l] = {h}] /\ holders[l] = {} /\ l \notin Underway
      /\ parent' = parent /\ given' = given
      /\ \A q \in Objects : h \notin holders[q]
  BY <1>1, <1>2 DEF NewLoop, Free, Living
<1>4. LifetimesTypeOK'
  BY <1>1, <1>2, <1>3 DEF LifetimesTypeOK
<1>5. Kinds'
  BY <1>2, <1>3, Disjoint DEF Kinds, LifetimesTypeOK
<1>6. Held'
  BY <1>1, <1>2, <1>3, Disjoint DEF Held, Exists, LifetimesTypeOK
<1>7. Living'
  BY <1>1, <1>2, <1>3, Disjoint DEF Living, Exists, LifetimesTypeOK, Kinds
<1>8. QED
  BY <1>4, <1>5, <1>6, <1>7 DEF Inv

LEMMA InvMake ==
  ASSUME Inv, NEW o \in Objects, NEW p \in Objects, NEW h \in Handles, Make(o, p, h),
         \/ o \in Contexts /\ p \in Loops
         \/ o \in Cores /\ p \in Contexts
         \/ o \in Streams /\ p \in Cores
  PROVE  Inv'
<1>1. Underway' = Underway /\ dropping' = dropping /\ o # p /\ o \notin Loops
  BY Disjoint DEF Make, Underway
<1>2. LifetimesTypeOK /\ Kinds /\ Held /\ Living
  BY DEF Inv
<1>3. /\ raw' = [raw EXCEPT ![o] = "alive"] /\ raw[o] = "none"
      /\ parent' = [parent EXCEPT ![o] = p]
      /\ holders' = [holders EXCEPT ![o] = {h}, ![p] = @ \cup {o}]
      /\ holders[o] = {} /\ o \notin Underway /\ o \notin given
      /\ holders[p] # {} /\ raw[p] = "alive" /\ p \notin Underway
      /\ given' = given
      /\ \A q \in Objects : h \notin holders[q]
  BY <1>1, <1>2 DEF Make, Free, Living, LifetimesTypeOK
<1>4. /\ holders' \in [Objects -> SUBSET (Handles \cup Objects)]
      /\ holders'[o] = {h} /\ holders'[p] = holders[p] \cup {o}
      /\ \A q \in Objects : q # o /\ q # p => holders'[q] = holders[q]
      /\ \A q \in Objects : q # o => raw'[q] = raw[q] /\ parent'[q] = parent[q]
      /\ raw'[o] = "alive" /\ parent'[o] = p
      /\ raw' \in [Objects -> {"none", "alive", "dying", "destroyed"}]
      /\ parent' \in [Objects -> Objects]
  BY <1>1, <1>2, <1>3 DEF LifetimesTypeOK
<1>5. LifetimesTypeOK'
  <2>1. \A a, b \in Objects, g \in Handles : g \in holders'[a] \cap holders'[b] => a = b
    <3>1. \A q \in Objects, g \in Handles : g \in holders'[q] /\ g # h => g \in holders[q]
      BY <1>3, <1>4, Disjoint
    <3>2. \A q \in Objects : h \in holders'[q] => q = o
      BY <1>3, <1>4, Disjoint
    <3>3. QED
      BY <1>2, <3>1, <3>2 DEF LifetimesTypeOK
  <2>2. \A q \in Underway : holders'[q] = {} /\ q \notin given
    BY <1>2, <1>3, <1>4 DEF LifetimesTypeOK, Underway
  <2>3. QED
    BY <1>1, <1>2, <1>3, <1>4, <2>1, <2>2 DEF LifetimesTypeOK
<1>6. Kinds'
  BY <1>2, <1>4, Disjoint DEF Kinds
<1>7. \A q \in Objects : q # o => (Exists(q)' <=> Exists(q))
  BY <1>1, <1>3, <1>4 DEF Exists
<1>8. Exists(o)' /\ ~Exists(o)
  BY <1>3, <1>4 DEF Exists
<1>9. Held'
  <2>1. ASSUME NEW a \in Objects, NEW b \in Objects
        PROVE  a \in holders'[b] <=> a \notin Loops /\ b = parent'[a] /\ Exists(a)'
    <3>1. a \in holders[b] <=> a \notin Loops /\ b = parent[a] /\ Exists(a)
      BY <1>2 DEF Held
    <3>2. a # h
      BY Disjoint
    <3>3. CASE a = o
      BY <1>1, <1>3, <1>4, <1>8, <3>1, <3>2, <3>3
    <3>4. CASE a # o
      <4>1. a \in holders'[b] <=> a \in holders[b]
        BY <1>3, <1>4, <3>2, <3>4
      <4>2. QED
        BY <1>4, <1>7, <3>1, <3>4, <4>1
    <3>5. QED
      BY <3>3, <3>4
  <2>2. QED
    BY <2>1 DEF Held
<1>10. Living'
  <2>1. \A q \in Objects : holders'[q] # {} => raw'[q] = "alive"
    BY <1>1, <1>2, <1>3, <1>4 DEF Living
  <2>2. \A q \in Underway : raw'[q] # "none"
    BY <1>2, <1>3, <1>4, Pop DEF Living, Underway, LifetimesTypeOK
  <2>3. \A q \in Objects : raw'[q] = "dying" => q \in Underway /\ q \notin Cores
    BY <1>2, <1>4 DEF Living
  <2>4. \A q \in Objects \ given : raw'[q] = "alive" => Exists(q)' \/ q \in Cores
    BY <1>2, <1>4, <1>7, <1>8 DEF Living
  <2>5. \A s \in given : holders'[s] = {} /\ raw'[s] # "none"
    BY <1>2, <1>3, <1>4, Disjoint DEF Living, LifetimesTypeOK
  <2>6. \A k \in Cores : raw'[k] = "alive" => raw'[parent'[k]] \in {"alive", "dying"}
    BY <1>1, <1>2, <1>3, <1>4, Disjoint DEF Living, LifetimesTypeOK
  <2>7. QED
    BY <1>1, <1>3, <2>1, <2>2, <2>3, <2>4, <2>5, <2>6 DEF Living
<1>11. QED
  BY <1>5, <1>6, <1>9, <1>10 DEF Inv

(* One more handle to what has references: Clone and Upgrade. *)
LEMMA InvShare ==
  ASSUME Inv, NEW o \in Counted, NEW h \in Handles, Free(h), holders[o] # {},
         holders' = [holders EXCEPT ![o] = @ \cup {h}],
         UNCHANGED <<raw, parent, given, dropping>>
  PROVE  Inv'
<1>1. /\ Underway' = Underway /\ dropping' = dropping /\ raw' = raw
      /\ parent' = parent /\ given' = given /\ o \in Objects
  BY Disjoint DEF Underway, Counted
<1>2. LifetimesTypeOK /\ Kinds /\ Held /\ Living
  BY DEF Inv
<1>3. /\ holders' \in [Objects -> SUBSET (Handles \cup Objects)]
      /\ holders'[o] = holders[o] \cup {h}
      /\ \A q \in Objects : q # o => holders'[q] = holders[q]
      /\ \A q \in Objects : h \notin holders[q]
      /\ h \notin Objects /\ o \notin Underway
  BY <1>1, <1>2, Disjoint DEF LifetimesTypeOK, Free
<1>4. LifetimesTypeOK'
  BY <1>1, <1>2, <1>3 DEF LifetimesTypeOK
<1>5. Kinds'
  BY <1>1, <1>2 DEF Kinds
<1>6. Held'
  BY <1>1, <1>2, <1>3 DEF Held, Exists
<1>7. Living'
  <2>1. o \notin given
    BY <1>2 DEF Living
  <2>2. QED
    BY <1>1, <1>2, <1>3, <2>1, Disjoint DEF Living, Exists, LifetimesTypeOK
<1>8. QED
  BY <1>4, <1>5, <1>6, <1>7 DEF Inv

LEMMA InvDropHandle ==
  ASSUME Inv, NEW o \in Objects, NEW h \in Handles, DropHandle(o, h)
  PROVE  Inv'
<1>1. LifetimesTypeOK /\ Kinds /\ Held /\ Living
  BY DEF Inv
<1>2. /\ raw' = raw /\ parent' = parent /\ given' = given
      /\ h \in holders[o] /\ h \notin Objects /\ Underway = Elements(dropping)
      /\ Release(o, h, dropping)
  BY Disjoint DEF DropHandle, Underway, Elements
<1>3. o \notin Underway /\ o \notin given
  BY <1>1, <1>2 DEF LifetimesTypeOK, Living
<1>4. /\ holders' \in [Objects -> SUBSET (Handles \cup Objects)]
      /\ holders'[o] = holders[o] \ {h}
      /\ \A q \in Objects : q # o => holders'[q] = holders[q]
      /\ dropping' \in Seq(Objects) /\ Distinct(dropping')
      /\ Underway' = IF holders'[o] = {} THEN Underway \cup {o} ELSE Underway
  BY <1>1, <1>2, <1>3, Released, Typed
<1>5. \A q \in Objects : Exists(q)' <=> Exists(q)
  BY <1>2, <1>3, <1>4 DEF Exists
<1>6. LifetimesTypeOK'
  <2>1. \A a, b \in Objects, g \in Handles : g \in holders'[a] \cap holders'[b] => a = b
    BY <1>1, <1>4 DEF LifetimesTypeOK
  <2>2. \A q \in Underway' : holders'[q] = {} /\ q \notin given
    <3>1. \A q \in Underway : q \in Objects /\ q # o /\ holders[q] = {} /\ q \notin given
      BY <1>1, <1>3, Stacked DEF LifetimesTypeOK
    <3>2. QED
      BY <1>3, <1>4, <3>1
  <2>3. QED
    BY <1>1, <1>2, <1>4, <2>1, <2>2 DEF LifetimesTypeOK, Distinct
<1>7. Kinds'
  BY <1>1, <1>2 DEF Kinds
<1>8. Held'
  BY <1>1, <1>2, <1>4, <1>5 DEF Held
<1>9. Living'
  <2>1. raw[o] = "alive"
    BY <1>1, <1>2 DEF Living
  <2>2. QED
    BY <1>1, <1>2, <1>3, <1>4, <1>5, <2>1, Disjoint DEF Living, LifetimesTypeOK
<1>10. QED
  BY <1>6, <1>7, <1>8, <1>9 DEF Inv

(* What is dropped at the top of the stack. *)
LEMMA AtTop ==
  ASSUME Inv, dropping # <<>>
  PROVE  /\ Innermost \in Underway /\ Innermost \in Objects /\ holders[Innermost] = {} /\ Innermost \notin given
         /\ Underway = Elements(dropping)
         /\ Below \in Seq(Objects) /\ Distinct(Below) /\ Elements(Below) = Underway \ {Innermost}
<1>1. Underway = Elements(dropping)
  BY DEF Underway, Elements
<1>2. QED
  BY <1>1, Pop, Typed DEF Inv, Innermost, Below

LEMMA InvEnterDestructor ==
  ASSUME Inv, EnterDestructor
  PROVE  Inv'
<1> DEFINE o == Innermost
<1>1. LifetimesTypeOK /\ Kinds /\ Held /\ Living
  BY DEF Inv
<1>2. /\ o \in Underway /\ o \in Objects /\ holders[o] = {} /\ o \notin given
      /\ o \notin Cores /\ raw[o] = "alive"
      /\ raw' = [raw EXCEPT ![o] = "dying"]
      /\ parent' = parent /\ holders' = holders /\ given' = given /\ dropping' = dropping
      /\ Underway' = Underway
  BY AtTop DEF EnterDestructor, Underway
<1> HIDE DEF o
<1>3. /\ raw' \in [Objects -> {"none", "alive", "dying", "destroyed"}] /\ raw'[o] = "dying"
      /\ \A q \in Objects : q # o => raw'[q] = raw[q]
  BY <1>1, <1>2 DEF LifetimesTypeOK
<1>4. \A q \in Objects : Exists(q)' <=> Exists(q)
  BY <1>2 DEF Exists
<1>5. LifetimesTypeOK'
  BY <1>1, <1>2, <1>3 DEF LifetimesTypeOK
<1>6. Kinds'
  BY <1>1, <1>2, <1>3 DEF Kinds
<1>7. Held'
  BY <1>1, <1>2, <1>4 DEF Held
<1>8. Living'
  <2>1. \A q \in Underway : raw'[q] # "none"
    BY <1>1, <1>2 DEF Living, LifetimesTypeOK
  <2>2. \A q \in Objects : raw'[q] = "dying" => q \in Underway /\ q \notin Cores
    BY <1>1, <1>2, <1>3 DEF Living
  <2>3. \A q \in Objects \ given : raw'[q] = "alive" => Exists(q) \/ q \in Cores
    BY <1>1, <1>2, <1>3 DEF Living
  <2>4. \A s \in given : holders[s] = {} /\ raw'[s] # "none"
    BY <1>1, <1>2 DEF Living, LifetimesTypeOK
  <2>5. \A k \in Cores : raw'[k] = "alive" => raw'[parent[k]] \in {"alive", "dying"}
    BY <1>1, <1>2, <1>3, Disjoint DEF Living, LifetimesTypeOK
  <2>6. \A q \in Objects : holders[q] # {} => raw'[q] = "alive"
    BY <1>1, <1>2, <1>3 DEF Living
  <2>7. QED
    BY <1>2, <1>4, <2>1, <2>2, <2>3, <2>4, <2>5, <2>6 DEF Living
<1>9. QED
  BY <1>5, <1>6, <1>7, <1>8 DEF Inv

(* The cores that die with a context have no Rust side any more. *)
LEMMA InvLeaveDestructor ==
  ASSUME Inv, LeaveDestructor
  PROVE  Inv'
<1> DEFINE o == Innermost
           Dies(q) == q = o \/ (q \in Cores /\ parent[q] = o /\ raw[q] = "alive")
<1>1. LifetimesTypeOK /\ Kinds /\ Held /\ Living
  BY DEF Inv
<1>2. /\ o \in Underway /\ o \in Objects /\ holders[o] = {} /\ o \notin given
      /\ raw[o] = "dying"
      /\ parent' = parent /\ holders' = holders /\ given' = given /\ dropping' = dropping
      /\ Underway' = Underway
  BY AtTop DEF LeaveDestructor, Underway
<1>3. raw' = [q \in Objects |-> IF Dies(q) THEN "destroyed" ELSE raw[q]]
  BY DEF LeaveDestructor
<1>4. \A q \in Objects : Dies(q) => ~(holders[q] # {})
  <2>1. ASSUME NEW q \in Cores, parent[q] = o
        PROVE  holders[q] = {}
    <3>1. q \notin holders[o] /\ q \in Objects /\ q \notin Loops
      BY <1>2, Disjoint
    <3>2. QED
      BY <1>1, <1>2, <2>1, <3>1 DEF Held, Exists
  <2>2. QED
    BY <1>2, <2>1
<1>5. Dies(o) /\ \A q \in Cores : raw[q] = "alive" /\ parent[q] = o => Dies(q)
  OBVIOUS
<1>6. /\ raw' \in [Objects -> {"none", "alive", "dying", "destroyed"}]
      /\ \A q \in Objects : raw'[q] = IF Dies(q) THEN "destroyed" ELSE raw[q]
  BY <1>1, <1>3 DEF LifetimesTypeOK
<1>7. \A q \in Objects : Dies(q) => raw[q] # "none"
  BY <1>2
<1> HIDE DEF Dies, o
<1>8. \A q \in Objects : Exists(q)' <=> Exists(q)
  BY <1>2 DEF Exists
<1>9. LifetimesTypeOK'
  BY <1>1, <1>2, <1>6 DEF LifetimesTypeOK
<1>10. Kinds'
  BY <1>1, <1>2, <1>6, <1>7 DEF Kinds
<1>11. Held'
  BY <1>1, <1>2, <1>8 DEF Held
<1>12. Living'
  <2>1. \A q \in Underway : raw'[q] # "none"
    BY <1>1, <1>6, AtTop DEF Living, LifetimesTypeOK, Underway
  <2>2. \A q \in Objects : raw'[q] = "dying" => q \in Underway /\ q \notin Cores
    BY <1>1, <1>6 DEF Living
  <2>3. \A q \in Objects \ given : raw'[q] = "alive" => Exists(q) \/ q \in Cores
    BY <1>1, <1>6 DEF Living
  <2>4. \A s \in given : holders[s] = {} /\ raw'[s] # "none"
    BY <1>1, <1>6, Disjoint DEF Living, LifetimesTypeOK
  <2>5. \A k \in Cores : raw'[k] = "alive" => raw'[parent[k]] \in {"alive", "dying"}
    <3>1. ASSUME NEW k \in Cores, raw'[k] = "alive"
          PROVE  raw'[parent[k]] \in {"alive", "dying"}
      <4>1. k \in Objects /\ raw[k] = "alive" /\ parent[k] # o
        BY <1>5, <1>6, <3>1, Disjoint
      <4>2. parent[k] \in Contexts /\ parent[k] \in Objects /\ parent[k] \notin Cores
        BY <1>1, <4>1, Disjoint DEF Kinds
      <4>3. ~Dies(parent[k])
        BY <4>1, <4>2 DEF Dies
      <4>4. QED
        BY <1>1, <1>6, <4>1, <4>2, <4>3 DEF Living
    <3>2. QED
      BY <3>1
  <2>6. \A q \in Objects : holders[q] # {} => raw'[q] = "alive"
    BY <1>1, <1>4, <1>6 DEF Living
  <2>7. QED
    BY <1>2, <1>8, <2>1, <2>2, <2>3, <2>4, <2>5, <2>6 DEF Living
<1>13. QED
  BY <1>9, <1>10, <1>11, <1>12 DEF Inv

LEMMA InvDropFields ==
  ASSUME Inv, DropFields
  PROVE  Inv'
<1> DEFINE o == Innermost
           p == parent[o]
<1>1. LifetimesTypeOK /\ Kinds /\ Held /\ Living
  BY DEF Inv
<1>2. /\ o \in Underway /\ o \in Objects /\ holders[o] = {} /\ o \notin given
      /\ Below \in Seq(Objects) /\ Distinct(Below) /\ Elements(Below) = Underway \ {o}
  BY AtTop DEF DropFields
<1>3. /\ raw' = raw /\ parent' = parent /\ given' = given
      /\ o \in Cores \/ raw[o] = "destroyed"
  BY DEF DropFields
<1>4. \A q \in Underway : q \in Objects /\ holders[q] = {} /\ q \notin given
  BY <1>1, Stacked DEF LifetimesTypeOK
<1>5. CASE o \in Loops
  <2>1. dropping' = Below /\ holders' = holders /\ Underway' = Underway \ {o}
    <3>1. dropping' = Below /\ holders' = holders
      BY <1>5 DEF DropFields
    <3>2. QED
      BY <1>2, <3>1 DEF Underway, Elements
  <2> HIDE DEF o, p
  <2>2. LifetimesTypeOK'
    BY <1>1, <1>2, <1>3, <1>4, <2>1 DEF LifetimesTypeOK, Distinct
  <2>3. Kinds'
    BY <1>1, <1>3 DEF Kinds
  <2>4. Held'
    BY <1>1, <1>3, <1>5, <2>1 DEF Held, Exists
  <2>5. Living'
    BY <1>1, <1>2, <1>3, <1>5, <2>1, Disjoint DEF Living, Exists
  <2>6. QED
    BY <2>2, <2>3, <2>4, <2>5 DEF Inv
<1>6. CASE o \notin Loops
  <2>1. /\ p \in Objects /\ p # o /\ o \in holders[p] /\ p \notin given
        /\ p \notin Underway /\ raw[p] = "alive"
    <3>1. raw[o] # "none" /\ p \in Objects
      BY <1>1, <1>2 DEF Living, LifetimesTypeOK
    <3>2. p # o
      BY <1>1, <1>2, <1>6, <3>1, Disjoint DEF Kinds
    <3>3. o \in holders[p]
      BY <1>1, <1>2, <1>6, <3>1 DEF Held, Exists
    <3>4. QED
      BY <1>1, <1>4, <3>1, <3>2, <3>3 DEF Living
  <2>2. Release(p, o, Below)
    BY <1>6 DEF DropFields
  <2>3. /\ holders' \in [Objects -> SUBSET (Handles \cup Objects)]
        /\ holders'[p] = holders[p] \ {o}
        /\ \A q \in Objects : q # p => holders'[q] = holders[q]
        /\ dropping' \in Seq(Objects) /\ Distinct(dropping')
        /\ Underway' = IF holders'[p] = {} THEN (Underway \ {o}) \cup {p} ELSE Underway \ {o}
    <3>1. p \notin Elements(Below)
      BY <1>2, <2>1
    <3>2. holders \in [Objects -> SUBSET (Handles \cup Objects)]
      BY <1>1 DEF LifetimesTypeOK
    <3> HIDE DEF o, p
    <3>3. QED
      BY <1>2, <2>1, <2>2, <3>1, <3>2, Released
  <2> HIDE DEF o, p
  <2>4. \A q \in Objects : q # o => (Exists(q)' <=> Exists(q))
    BY <1>4, <2>1, <2>3 DEF Exists
  <2>5. holders'[o] = {} /\ o \notin Underway' /\ Exists(o)
    BY <1>2, <2>1, <2>3 DEF Exists
  <2>6. LifetimesTypeOK'
    <3>1. \A a, b \in Objects, g \in Handles : g \in holders'[a] \cap holders'[b] => a = b
      BY <1>1, <2>3 DEF LifetimesTypeOK
    <3>2. \A q \in Underway' : holders'[q] = {} /\ q \notin given
      BY <1>4, <2>1, <2>3
    <3>3. QED
      BY <1>1, <1>3, <2>3, <3>1, <3>2 DEF LifetimesTypeOK, Distinct
  <2>7. Kinds'
    BY <1>1, <1>3 DEF Kinds
  <2>8. Held'
    <3>1. ASSUME NEW a \in Objects, NEW b \in Objects
          PROVE  a \in holders'[b] <=> a \notin Loops /\ b = parent[a] /\ Exists(a)'
      <4>1. a \in holders[b] <=> a \notin Loops /\ b = parent[a] /\ Exists(a)
        BY <1>1 DEF Held
      <4>2. CASE a = o
        <5>1. a \notin holders'[b]
          BY <2>3, <4>1, <4>2 DEF p
        <5>2. QED
          BY <2>5, <4>2, <5>1 DEF Exists
      <4>3. CASE a # o
        BY <2>3, <2>4, <4>1, <4>3
      <4>4. QED
        BY <4>2, <4>3
    <3>2. QED
      BY <1>3, <3>1 DEF Held
  <2>9. Living'
    <3>1. \A q \in Objects : holders'[q] # {} => raw[q] = "alive"
      BY <1>1, <2>1, <2>3 DEF Living
    <3>2. \A q \in Underway' : raw[q] # "none"
      BY <1>1, <2>1, <2>3 DEF Living
    <3>3. \A q \in Objects : raw[q] = "dying" => q \in Underway' /\ q \notin Cores
      BY <1>1, <1>3, <2>3 DEF Living
    <3>4. \A q \in Objects \ given : raw[q] = "alive" => Exists(q)' \/ q \in Cores
      BY <1>1, <1>3, <2>4 DEF Living
    <3>5. \A s \in given : holders'[s] = {} /\ raw[s] # "none"
      <4>1. given \subseteq Objects
        BY <1>1, Disjoint DEF LifetimesTypeOK
      <4>2. QED
        BY <1>1, <2>1, <2>3, <4>1 DEF Living
    <3>6. QED
      BY <1>1, <1>3, <3>1, <3>2, <3>3, <3>4, <3>5 DEF Living
  <2>10. QED
    BY <2>6, <2>7, <2>8, <2>9 DEF Inv
<1>7. QED
  BY <1>5, <1>6

LEMMA InvIntoRaw ==
  ASSUME Inv, NEW s \in Streams, NEW h \in Handles, IntoRaw(s, h)
  PROVE  Inv'
<1> DEFINE k == parent[s]
<1>1. LifetimesTypeOK /\ Kinds /\ Held /\ Living
  BY DEF Inv
<1>2. /\ raw' = raw /\ parent' = parent /\ given' = given \cup {s}
      /\ h \in holders[s] /\ s \in Objects /\ Underway = Elements(dropping)
      /\ holders' = [holders EXCEPT ![s] = {}, ![k] = @ \ {s}]
      /\ dropping' = IF holders[k] = {s} THEN Append(dropping, k) ELSE dropping
  BY Disjoint DEF IntoRaw, Underway, Elements
<1>3. \A q \in Underway : q \in Objects /\ holders[q] = {} /\ q \notin given
  BY <1>1, Stacked DEF LifetimesTypeOK
<1>4. /\ k \in Objects /\ k \in Cores /\ k # s /\ s \in holders[k]
      /\ k \notin Underway /\ k \notin given /\ s \notin given /\ s \notin Underway
      /\ raw[k] = "alive" /\ raw[s] = "alive" /\ s \notin Loops /\ s \notin Cores
  <2>1. raw[s] = "alive" /\ s \notin given /\ s \notin Underway /\ s \notin Loops /\ s \notin Cores
    BY <1>1, <1>2, <1>3, Disjoint DEF Living
  <2>2. k \in Cores /\ k \in Objects /\ k # s
    BY <1>1, <1>2, <2>1, Disjoint DEF Kinds
  <2>3. s \in holders[k]
    BY <1>1, <1>2, <2>1, <2>2 DEF Held, Exists
  <2>4. QED
    BY <1>1, <1>3, <2>1, <2>2, <2>3 DEF Living
<1> HIDE DEF k
<1>5. /\ holders' \in [Objects -> SUBSET (Handles \cup Objects)]
      /\ holders'[s] = {} /\ holders'[k] = holders[k] \ {s}
      /\ \A q \in Objects : q # s /\ q # k => holders'[q] = holders[q]
  <2>1. holders \in [Objects -> SUBSET (Handles \cup Objects)]
    BY <1>1 DEF LifetimesTypeOK
  <2>2. QED
    BY <1>2, <1>4, <2>1
<1>6. /\ dropping' \in Seq(Objects) /\ Distinct(dropping')
      /\ Underway' = IF holders'[k] = {} THEN Underway \cup {k} ELSE Underway
  <2>1. dropping \in Seq(Objects) /\ Distinct(dropping)
    BY <1>1, Typed
  <2>2. holders[k] = {s} <=> holders'[k] = {}
    BY <1>4, <1>5
  <2>3. Underway' = Elements(dropping')
    BY DEF Underway, Elements
  <2>4. QED
    BY <1>2, <1>4, <2>1, <2>2, <2>3, Push
<1>7. \A q \in Objects : q # s => (Exists(q)' <=> Exists(q))
  BY <1>3, <1>4, <1>5, <1>6 DEF Exists
<1>8. Exists(s) /\ ~Exists(s)'
  BY <1>2, <1>4, <1>5, <1>6 DEF Exists
<1>9. LifetimesTypeOK'
  <2>1. \A a, b \in Objects, g \in Handles : g \in holders'[a] \cap holders'[b] => a = b
    <3>1. \A a \in Objects : holders'[a] \subseteq holders[a]
      BY <1>5
    <3>2. QED
      BY <1>1, <3>1 DEF LifetimesTypeOK
  <2>2. \A q \in Underway' : holders'[q] = {} /\ q \notin given'
    BY <1>2, <1>3, <1>4, <1>5, <1>6
  <2>3. QED
    BY <1>1, <1>2, <1>5, <1>6, <2>1, <2>2 DEF LifetimesTypeOK, Distinct
<1>10. Kinds'
  BY <1>1, <1>2 DEF Kinds
<1>11. Held'
  <2>1. ASSUME NEW a \in Objects, NEW b \in Objects
        PROVE  a \in holders'[b] <=> a \notin Loops /\ b = parent[a] /\ Exists(a)'
    <3>1. /\ a \in holders[b] <=> a \notin Loops /\ b = parent[a] /\ Exists(a)
          /\ a \in holders[s] <=> a \notin Loops /\ s = parent[a] /\ Exists(a)
      BY <1>1, <1>2 DEF Held
    <3>2. a \notin holders[s]
      <4>1. ASSUME a \in holders[s] PROVE FALSE
        <5>1. raw[a] # "none" /\ s = parent[a]
          BY <1>1, <3>1, <4>1 DEF Living, Exists
        <5>2. QED
          BY <1>1, <5>1, <3>1, <4>1, Disjoint DEF Kinds
      <4>2. QED
        BY <4>1
    <3>3. CASE a = s
      <4>1. a \notin holders'[b]
        BY <1>4, <1>5, <3>1, <3>2, <3>3 DEF k
      <4>2. QED
        BY <1>8, <3>3, <4>1
    <3>4. CASE a # s
      <4>1. a \in holders'[b] <=> a \in holders[b]
        BY <1>5, <3>2, <3>4
      <4>2. QED
        BY <1>7, <3>1, <3>4, <4>1
    <3>5. QED
      BY <3>3, <3>4
  <2>2. QED
    BY <1>2, <2>1 DEF Held
<1>12. Living'
  <2>1. \A q \in Objects : holders'[q] # {} => raw[q] = "alive"
    BY <1>1, <1>5 DEF Living
  <2>2. \A q \in Underway' : raw[q] # "none"
    BY <1>1, <1>4, <1>6 DEF Living
  <2>3. \A q \in Objects : raw[q] = "dying" => q \in Underway' /\ q \notin Cores
    BY <1>1, <1>6 DEF Living
  <2>4. \A q \in Objects \ given' : raw[q] = "alive" => Exists(q)' \/ q \in Cores
    BY <1>1, <1>2, <1>7 DEF Living
  <2>5. \A t \in given' : holders'[t] = {} /\ raw[t] # "none"
    <3>1. given \subseteq Objects
      BY <1>1, Disjoint DEF LifetimesTypeOK
    <3>2. QED
      BY <1>1, <1>2, <1>4, <1>5, <3>1 DEF Living
  <2>6. QED
    BY <1>1, <1>2, <2>1, <2>2, <2>3, <2>4, <2>5 DEF Living
<1>13. QED
  BY <1>9, <1>10, <1>11, <1>12 DEF Inv

------------------------------------------------------------------------------
(* The theorems *)

LEMMA InvNext == Inv /\ [LifetimesNext]_lifetimesVars => Inv'
<1> SUFFICES ASSUME Inv, [LifetimesNext]_lifetimesVars PROVE Inv'
  OBVIOUS
<1>1. ASSUME NEW h \in Handles, NEW l \in Loops, NewLoop(l, h) PROVE Inv'
  BY <1>1, InvNewLoop
<1>2. ASSUME NEW h \in Handles, NEW l \in Loops, Upgrade(l, h) PROVE Inv'
  BY <1>2, InvShare DEF Upgrade, Counted
<1>3. ASSUME NEW h \in Handles, NEW c \in Contexts, NEW l \in Loops, NewContext(c, l, h)
      PROVE  Inv'
  BY <1>3, InvMake, Disjoint DEF NewContext
<1>4. ASSUME NEW h \in Handles, NEW k \in Cores, NEW c \in Contexts, Connect(k, c, h)
      PROVE  Inv'
  BY <1>4, InvMake, Disjoint DEF Connect
<1>5. ASSUME NEW h \in Handles, NEW s \in Streams, NEW k \in Cores, NewStream(s, k, h)
      PROVE  Inv'
  BY <1>5, InvMake, Disjoint DEF NewStream
<1>6. ASSUME NEW h \in Handles, NEW o \in Counted, Clone(o, h) PROVE Inv'
  <2>1. holders[o] # {}
    BY <1>6 DEF Clone
  <2>2. QED
    BY <1>6, <2>1, InvShare DEF Clone
<1>7. ASSUME NEW h \in Handles, NEW o \in Objects, DropHandle(o, h) PROVE Inv'
  BY <1>7, InvDropHandle
<1>8. ASSUME NEW h \in Handles, NEW s \in Streams, IntoRaw(s, h) PROVE Inv'
  BY <1>8, InvIntoRaw
<1>9. CASE EnterDestructor
  BY <1>9, InvEnterDestructor
<1>10. CASE LeaveDestructor
  BY <1>10, InvLeaveDestructor
<1>11. CASE DropFields
  BY <1>11, InvDropFields
<1>12. CASE UNCHANGED lifetimesVars
  BY <1>12 DEF lifetimesVars, Inv, LifetimesTypeOK, Kinds, Held, Living, Exists, Underway
<1>13. QED
  BY <1>1, <1>2, <1>3, <1>4, <1>5, <1>6, <1>7, <1>8, <1>9, <1>10, <1>11, <1>12 DEF LifetimesNext

(* The inductive invariant holds in every state. *)
THEOREM Invariant == LifetimesSpec => []Inv
<1>1. QED
  BY Initially, InvNext, PTL DEF LifetimesSpec

(* What is being dropped has no references, is dropped once, and was not     *)
(* given away: Rust's reference counts as the program uses them.             *)
THEOREM Typing == LifetimesSpec => []LifetimesTypeOK
<1>1. Inv => LifetimesTypeOK
  BY DEF Inv
<1>2. QED
  BY Invariant, <1>1, PTL

(* Whatever a handle reaches is alive: no method of a loop, context, core or *)
(* stream is called on an object whose destructor has begun.                 *)
THEOREM HandlesStayAlive == LifetimesSpec => []HandlesAlive
<1>1. Inv => HandlesAlive
  BY DEF Inv, Living, HandlesAlive
<1>2. QED
  BY Invariant, <1>1, PTL

(* The C destructors run from the leaves to the root, in whatever order the  *)
(* program drops its handles.                                                *)
THEOREM ParentsOutlive == LifetimesSpec => []ParentsAlive
<1>1. Inv => ParentsAlive
  <2> SUFFICES ASSUME Inv, NEW o \in Objects \ Loops,
                      raw[o] \in {"alive", "dying"}, o \notin given
               PROVE  \/ raw[parent[o]] = "alive"
                      \/ o \in Cores /\ raw[parent[o]] = "dying"
    BY DEF ParentsAlive
  <2>1. CASE Exists(o)
    <3>1. parent[o] \in Objects
      BY DEF Inv, LifetimesTypeOK
    <3>2. o \in holders[parent[o]]
      BY <2>1, <3>1 DEF Inv, Held
    <3>3. QED
      BY <3>1, <3>2 DEF Inv, Living
  <2>2. CASE ~Exists(o)
    BY <2>2, Disjoint DEF Inv, Living, Exists
  <2>3. QED
    BY <2>1, <2>2
<1>2. QED
  BY Invariant, <1>1, PTL

(* Once every drop is done, all that is alive is there for somebody.         *)
THEOREM NothingIsLeft == LifetimesSpec => []NothingLeaks
<1>1. Inv => NothingLeaks
  <2> SUFFICES ASSUME Inv, dropping = <<>>, NEW o \in Objects \ given, raw[o] = "alive"
               PROVE  \/ \E r \in holders[o] : r \in Handles \/ holders[r] # {}
                      \/ o \in Cores /\ holders[o] = {} /\ raw[parent[o]] = "alive"
    BY DEF NothingLeaks
  <2>1. Underway = {}
    BY DEF Underway
  <2>2. CASE holders[o] # {}
    <3>1. PICK r \in holders[o] : TRUE
      BY <2>2
    <3>2. r \in Handles \/ (r \in Objects /\ Exists(r))
      BY <3>1 DEF Inv, LifetimesTypeOK, Held
    <3>3. QED
      BY <2>1, <3>1, <3>2 DEF Exists
  <2>3. CASE holders[o] = {}
    <3>1. o \in Cores
      BY <2>1, <2>3 DEF Inv, Living, Exists
    <3>2. parent[o] \in Objects /\ raw[parent[o]] # "dying"
      BY <2>1 DEF Inv, LifetimesTypeOK, Living
    <3>3. QED
      BY <2>3, <3>1, <3>2 DEF Inv, Living
  <2>4. QED
    BY <2>2, <2>3
<1>2. QED
  BY Invariant, <1>1, PTL
==============================================================================
