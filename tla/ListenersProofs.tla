--------------------------- MODULE ListenersProofs ---------------------------
(***************************************************************************)
(* For any number of hooks and any depth of emissions: the links match,    *)
(* callbacks begin for registered listeners only, and an emission reaches  *)
(* everyone it is due to.                                                  *)
(*                                                                         *)
(* The links alone are not inductive: a second ring beside the one through *)
(* the list satisfies them too.  What excludes it is an order: the nodes   *)
(* can be given distinct numbers that grow from each node to the next, the *)
(* list having the least, with no node between one and its next.           *)
(***************************************************************************)
EXTENDS Listeners, WellFoundedInduction, TLAPS

(* nx and pv are the links of the ring of the nodes in L. *)
Ring(nx, pv, L) ==
  \A n \in L : /\ nx[n] \in L /\ pv[nx[n]] = n
               /\ pv[n] \in L /\ nx[pv[n]] = n

(* rank numbers the nodes in L in the order of the ring. *)
Ranked(rank, nx, L) ==
  /\ rank \in [Nodes -> Nat] /\ rank[List] = 0
  /\ \A m, n \in L :
       /\ rank[m] = rank[n] => m = n
       /\ rank[n] < rank[m] => nx[n] # List /\ rank[nx[n]] <= rank[m]
  /\ \A n \in L : nx[n] # List => rank[nx[n]] > rank[n]

Links(nx, pv, L) ==
  /\ nx \in [Nodes -> Nodes] /\ pv \in [Nodes -> Nodes]
  /\ L \subseteq Nodes /\ List \in L

(* What linking and unlinking do to the links. *)
Inserted(nx, pv, p, n, nx2, pv2) ==
  /\ nx2 = [nx EXCEPT ![p] = n, ![n] = nx[p]]
  /\ pv2 = [pv EXCEPT ![nx[p]] = n, ![n] = p]

Removed(nx, pv, n, nx2, pv2) ==
  /\ nx2 = [nx EXCEPT ![pv[n]] = nx[n]]
  /\ pv2 = [pv EXCEPT ![nx[n]] = pv[n]]

(* The numbers that make room for n behind p. *)
Shifted(rank, p, n) ==
  [m \in Nodes |-> IF m = n THEN rank[p] + 1
                   ELSE IF rank[m] > rank[p] THEN rank[m] + 1 ELSE rank[m]]

(* A node that is linked behind one of the ring is in the ring. *)
LEMMA InsertRing ==
  ASSUME NEW nx, NEW pv, NEW L, Links(nx, pv, L), Ring(nx, pv, L),
         NEW p \in L, NEW n \in Nodes, n \notin L,
         NEW nx2, NEW pv2, Inserted(nx, pv, p, n, nx2, pv2)
  PROVE  Ring(nx2, pv2, L \cup {n}) /\ Links(nx2, pv2, L \cup {n})
<1> DEFINE q == nx[p]
<1>1. q \in L /\ pv[q] = p /\ p \in Nodes /\ q \in Nodes /\ n # p /\ n # q
  BY DEF Ring, Links
<1>2. nx2[p] = n /\ nx2[n] = q /\ pv2[q] = n /\ pv2[n] = p
  BY <1>1 DEF Inserted, Links
<1>3. \A m \in L : (m # p => nx2[m] = nx[m]) /\ (m # q => pv2[m] = pv[m])
  BY <1>1 DEF Inserted, Links
<1>4. ASSUME NEW m \in L
      PROVE  /\ nx2[m] \in L \cup {n} /\ pv2[nx2[m]] = m
             /\ pv2[m] \in L \cup {n} /\ nx2[pv2[m]] = m
  <2>1. nx[m] \in L /\ pv[nx[m]] = m /\ pv[m] \in L /\ nx[pv[m]] = m
    BY DEF Ring
  <2>2. m # p => nx[m] # q
    BY <1>1, <2>1
  <2>3. m # q => pv[m] # p
    BY <2>1
  <2> HIDE DEF q
  <2>4. nx2[m] \in L \cup {n} /\ pv2[nx2[m]] = m
    BY <1>2, <1>3, <2>1, <2>2
  <2>5. pv2[m] \in L \cup {n} /\ nx2[pv2[m]] = m
    BY <1>2, <1>3, <2>1, <2>3
  <2>6. QED
    BY <2>4, <2>5
<1>5. Ring(nx2, pv2, L \cup {n})
  <2> HIDE DEF q
  <2>1. QED
    BY <1>1, <1>2, <1>4 DEF Ring
<1>6. nx2 \in [Nodes -> Nodes] /\ pv2 \in [Nodes -> Nodes]
  BY <1>1 DEF Inserted, Links
<1>7. QED
  BY <1>5, <1>6 DEF Links

(* The order makes room for it. *)
LEMMA InsertRanked ==
  ASSUME NEW nx, NEW pv, NEW L, Links(nx, pv, L), Ring(nx, pv, L),
         NEW rank, Ranked(rank, nx, L),
         NEW p \in L, NEW n \in Nodes, n \notin L,
         NEW nx2, NEW pv2, Inserted(nx, pv, p, n, nx2, pv2)
  PROVE  Ranked(Shifted(rank, p, n), nx2, L \cup {n})
<1> DEFINE q == nx[p]
           r == Shifted(rank, p, n)
<1>1. /\ q \in L /\ p \in Nodes /\ q \in Nodes /\ n # p /\ n # q /\ n # List
      /\ List \in L /\ List \in Nodes
  BY DEF Ring, Links
<1>2. nx2[p] = n /\ nx2[n] = q /\ \A m \in L : m # p => nx2[m] = nx[m]
  BY <1>1 DEF Inserted, Links
<1>3. \A m \in L : rank[m] \in Nat /\ m \in Nodes /\ nx[m] \in L
  BY DEF Ranked, Links, Ring
<1>4. /\ r \in [Nodes -> Nat] /\ r[n] = rank[p] + 1
      /\ \A m \in L : r[m] = IF rank[m] > rank[p] THEN rank[m] + 1 ELSE rank[m]
  BY <1>3 DEF Shifted, Ranked
<1>5. rank[List] = 0 /\ r[List] = 0
  BY <1>1, <1>3, <1>4 DEF Ranked
<1>6. \A a, b \in L : /\ rank[a] = rank[b] => a = b
                      /\ rank[b] < rank[a] => nx[b] # List /\ rank[nx[b]] <= rank[a]
  BY DEF Ranked
<1>7. \A b \in L : nx[b] # List => rank[nx[b]] > rank[b]
  BY DEF Ranked
<1> HIDE DEF q, r
<1>8. ASSUME NEW a \in L, NEW b \in L
      PROVE  /\ r[a] = r[b] => a = b
             /\ r[b] < r[a] => nx2[b] # List /\ r[nx2[b]] <= r[a]
  <2>1. r[a] = r[b] => a = b
    BY <1>3, <1>4, <1>6
  <2>2. CASE b = p
    <3>1. nx2[b] = n /\ r[n] = r[b] + 1 /\ r[b] \in Nat /\ r[a] \in Nat
      BY <1>2, <1>3, <1>4, <2>2
    <3>2. QED
      BY <1>1, <2>1, <3>1
  <2>3. CASE b # p
    <3>1. nx2[b] = nx[b] /\ nx[b] \in L
      BY <1>2, <1>3, <2>3
    <3>2. r[b] < r[a] => rank[b] < rank[a]
      BY <1>3, <1>4
    <3>3. rank[nx[b]] <= rank[a] => r[nx[b]] <= r[a]
      BY <1>3, <1>4, <3>1
    <3>4. QED
      BY <1>6, <2>1, <3>1, <3>2, <3>3
  <2>4. QED
    BY <2>1, <2>2, <2>3
<1>9. ASSUME NEW a \in L
      PROVE  /\ r[a] # r[n]
             /\ r[n] < r[a] => nx2[n] # List /\ r[nx2[n]] <= r[a]
             /\ r[a] < r[n] => nx2[a] # List /\ r[nx2[a]] <= r[n]
  <2>1. r[a] # r[n]
    BY <1>3, <1>4
  <2>2. r[n] < r[a] => rank[p] < rank[a]
    BY <1>3, <1>4
  <2>3. rank[p] < rank[a] => q # List /\ rank[q] <= rank[a]
    BY <1>6 DEF q
  <2>4. rank[q] <= rank[a] => r[q] <= r[a]
    BY <1>1, <1>3, <1>4
  <2>5. r[a] < r[n] => nx2[a] # List /\ r[nx2[a]] <= r[n]
    <3>1. CASE a = p
      BY <1>1, <1>2, <1>3, <1>4, <3>1
    <3>2. CASE a # p
      <4>1. r[a] < r[n] => rank[a] < rank[p]
        BY <1>3, <1>4, <1>6, <3>2
      <4>2. nx2[a] = nx[a] /\ nx[a] \in L
        BY <1>2, <1>3, <3>2
      <4>3. rank[nx[a]] <= rank[p] => r[nx[a]] <= r[n]
        BY <1>3, <1>4, <4>2
      <4>4. QED
        BY <1>6, <4>1, <4>2, <4>3
    <3>3. QED
      BY <3>1, <3>2
  <2>6. QED
    BY <1>2, <2>1, <2>2, <2>3, <2>4, <2>5
<1>10. ASSUME NEW b \in L \cup {n}, nx2[b] # List
       PROVE  r[nx2[b]] > r[b]
  <2>1. CASE b = n
    <3>1. rank[q] > rank[p]
      BY <1>2, <1>7, <1>10, <2>1 DEF q
    <3>2. QED
      BY <1>1, <1>2, <1>3, <1>4, <2>1, <3>1
  <2>2. CASE b = p
    BY <1>2, <1>3, <1>4, <2>2
  <2>3. CASE b \in L /\ b # p
    <3>1. nx2[b] = nx[b] /\ nx[b] \in L /\ rank[nx[b]] > rank[b]
      BY <1>2, <1>3, <1>7, <1>10, <2>3
    <3>2. QED
      BY <1>3, <1>4, <2>3, <3>1
  <2>4. QED
    BY <2>1, <2>2, <2>3
<1>11. \A a, b \in L \cup {n} :
         /\ r[a] = r[b] => a = b
         /\ r[b] < r[a] => nx2[b] # List /\ r[nx2[b]] <= r[a]
  <2>1. TAKE a \in L \cup {n}, b \in L \cup {n}
  <2>2. CASE a = n /\ b = n
    BY <1>4, <1>3, <2>2
  <2>3. CASE a = n /\ b \in L
    BY <1>9, <2>3
  <2>4. CASE a \in L /\ b = n
    BY <1>9, <2>4
  <2>5. CASE a \in L /\ b \in L
    BY <1>8, <2>5
  <2>6. QED
    BY <2>2, <2>3, <2>4, <2>5
<1>12. Ranked(r, nx2, L \cup {n})
  BY <1>4, <1>5, <1>10, <1>11 DEF Ranked
<1>13. QED
  BY <1>12 DEF r

(* A node other than the list that is unlinked leaves the ring whole. *)
LEMMA RemoveRing ==
  ASSUME NEW nx, NEW pv, NEW L, Links(nx, pv, L), Ring(nx, pv, L),
         NEW n \in L, n # List,
         NEW nx2, NEW pv2, Removed(nx, pv, n, nx2, pv2)
  PROVE  Ring(nx2, pv2, L \ {n}) /\ Links(nx2, pv2, L \ {n})
<1> DEFINE p == pv[n]
           q == nx[n]
<1>1. p \in L /\ q \in L /\ p \in Nodes /\ q \in Nodes /\ nx[p] = n /\ pv[q] = n
  BY DEF Ring, Links
<1>2. nx2[p] = q /\ pv2[q] = p
  BY <1>1 DEF Removed, Links
<1>3. \A m \in L : (m # p => nx2[m] = nx[m]) /\ (m # q => pv2[m] = pv[m])
  BY <1>1 DEF Removed, Links
<1>4. p = n <=> q = n
  BY <1>1 DEF Ring
<1>5. nx2 \in [Nodes -> Nodes] /\ pv2 \in [Nodes -> Nodes]
  BY <1>1 DEF Removed, Links
<1> HIDE DEF p, q
<1>6. ASSUME NEW m \in L, m # n
      PROVE  /\ nx2[m] \in L \ {n} /\ pv2[nx2[m]] = m
             /\ pv2[m] \in L \ {n} /\ nx2[pv2[m]] = m
  <2>1. nx[m] \in L /\ pv[nx[m]] = m /\ pv[m] \in L /\ nx[pv[m]] = m
    BY DEF Ring
  <2>2. (nx[m] = n <=> m = p) /\ (pv[m] = n <=> m = q)
    BY <1>1, <2>1 DEF p, q
  <2>3. nx2[m] \in L \ {n} /\ pv2[nx2[m]] = m
    <3>1. CASE m = p
      BY <1>1, <1>2, <1>4, <1>6, <3>1
    <3>2. CASE m # p
      <4>1. nx2[m] = nx[m] /\ nx[m] # n
        BY <1>3, <2>2, <3>2
      <4>2. nx[m] # q
        BY <1>1, <1>6, <2>1
      <4>3. QED
        BY <1>3, <2>1, <4>1, <4>2
    <3>3. QED
      BY <3>1, <3>2
  <2>4. pv2[m] \in L \ {n} /\ nx2[pv2[m]] = m
    <3>1. CASE m = q
      BY <1>1, <1>2, <1>4, <1>6, <3>1
    <3>2. CASE m # q
      <4>1. pv2[m] = pv[m] /\ pv[m] # n
        BY <1>3, <2>2, <3>2
      <4>2. pv[m] # p
        BY <1>1, <1>6, <2>1
      <4>3. QED
        BY <1>3, <2>1, <4>1, <4>2
    <3>3. QED
      BY <3>1, <3>2
  <2>5. QED
    BY <2>3, <2>4
<1>7. Ring(nx2, pv2, L \ {n})
  BY <1>6 DEF Ring
<1>8. QED
  BY <1>5, <1>7 DEF Links

(* The order stays. *)
LEMMA RemoveRanked ==
  ASSUME NEW nx, NEW pv, NEW L, Links(nx, pv, L), Ring(nx, pv, L),
         NEW rank, Ranked(rank, nx, L),
         NEW n \in L, n # List,
         NEW nx2, NEW pv2, Removed(nx, pv, n, nx2, pv2)
  PROVE  Ranked(rank, nx2, L \ {n})
<1> DEFINE p == pv[n]
           q == nx[n]
<1>1. p \in L /\ q \in L /\ p \in Nodes /\ nx[p] = n
  BY DEF Ring, Links
<1>2. nx2[p] = q /\ \A m \in L : m # p => nx2[m] = nx[m]
  BY <1>1 DEF Removed, Links
<1>3. /\ rank \in [Nodes -> Nat] /\ rank[List] = 0
      /\ \A m \in L : rank[m] \in Nat /\ nx[m] \in L
  BY DEF Ranked, Links, Ring
<1>4. \A a, b \in L : /\ rank[a] = rank[b] => a = b
                      /\ rank[b] < rank[a] => nx[b] # List /\ rank[nx[b]] <= rank[a]
  BY DEF Ranked
<1>5. \A b \in L : nx[b] # List => rank[nx[b]] > rank[b]
  BY DEF Ranked
<1>6. rank[n] > rank[p]
  BY <1>1, <1>5
<1>7. ASSUME NEW a \in L \ {n}, NEW b \in L \ {n}, rank[b] < rank[a]
      PROVE  nx2[b] # List /\ rank[nx2[b]] <= rank[a]
  <2>1. CASE b = p
    <3>1. rank[n] <= rank[a] /\ rank[n] # rank[a]
      BY <1>1, <1>4, <1>7, <2>1
    <3>2. rank[n] < rank[a]
      BY <1>3, <3>1
    <3>3. q # List /\ rank[q] <= rank[a]
      BY <1>4, <3>2
    <3>4. QED
      BY <1>2, <2>1, <3>3
  <2>2. CASE b # p
    BY <1>2, <1>4, <1>7, <2>2
  <2>3. QED
    BY <2>1, <2>2
<1>8. ASSUME NEW b \in L \ {n}, nx2[b] # List
      PROVE  rank[nx2[b]] > rank[b]
  <2>1. CASE b = p
    <3>1. rank[q] > rank[n]
      BY <1>2, <1>5, <1>8, <2>1
    <3>2. QED
      BY <1>1, <1>2, <1>3, <1>6, <2>1, <3>1
  <2>2. CASE b # p
    BY <1>2, <1>5, <1>8, <2>2
  <2>3. QED
    BY <2>1, <2>2
<1>9. QED
  BY <1>3, <1>4, <1>7, <1>8 DEF Ranked

------------------------------------------------------------------------------
(* The emissions and the listeners *)

(* Entries are set for the closures there are; who was called was registered. *)
Consistent ==
  /\ table = callbacks
  /\ \A i \in DOMAIN frames : \A h \in frames[i].called : handle[h] # "none"

Base == TypeOK /\ Consistent

LEMMA Initially == Init => Base
BY ListenersAssumption
   DEF Init, Base, TypeOK, Consistent, Nodes, List, Cursors, Events, Registered

(* A sequence of frames in which each has been replaced. *)
LEMMA Replaced ==
  ASSUME NEW s \in Seq(Frame), NEW t, t = [i \in DOMAIN s |-> t[i]],
         \A i \in DOMAIN s : t[i] \in Frame
  PROVE  t \in Seq(Frame) /\ Len(t) = Len(s) /\ DOMAIN t = DOMAIN s
<1>1. Len(s) \in Nat /\ DOMAIN s = 1..Len(s)
  OBVIOUS
<1>2. t \in [1..Len(s) -> Frame]
  BY <1>1
<1>3. QED
  BY <1>1, <1>2

(* Registering and dropping change who is due, and nothing else of a frame. *)
LEMMA BaseRegister ==
  ASSUME Base, NEW h \in Hooks, NEW cbs \in SUBSET Events, Register(h, cbs)
  PROVE  Base'
<1>1. frames \in Seq(Frame) /\ DOMAIN frames = 1..Len(frames)
  BY DEF Base, TypeOK
<1>2. \A i \in DOMAIN frames : frames[i] \in Frame
  BY <1>1
<1>3. \A i \in DOMAIN frames :
        /\ frames'[i] \in Frame
        /\ frames'[i].event = frames[i].event /\ frames'[i].called = frames[i].called
        /\ frames'[i].due \subseteq frames[i].due \cup {h}
        /\ h \in frames'[i].due => h \in frames[i].due \/ frames[i].event \in cbs
  BY <1>2 DEF Register, Frame
<1>4. frames' \in Seq(Frame) /\ Len(frames') = Len(frames) /\ DOMAIN frames' = DOMAIN frames
  <2>1. frames' = [i \in DOMAIN frames |-> frames'[i]]
    BY DEF Register
  <2>2. QED
    BY <1>1, <1>3, <2>1, Replaced
<1>5. /\ callbacks' = [callbacks EXCEPT ![h] = cbs] /\ table' = [table EXCEPT ![h] = cbs]
      /\ handle' = [handle EXCEPT ![h] = "registered"] /\ handle[h] = "none"
      /\ Registered' = Registered \cup {h}
  BY DEF Register, Registered, Base, TypeOK
<1>6. next' \in [Nodes -> Nodes] /\ prev' \in [Nodes -> Nodes]
  <2>1. List \in Nodes /\ h \in Nodes
    BY DEF Nodes
  <2>2. QED
    BY <2>1 DEF Register, InsertAfter, Base, TypeOK
<1>7. /\ callbacks' \in [Hooks -> SUBSET Events] /\ table' \in [Hooks -> SUBSET Events]
      /\ handle' \in [Hooks -> {"none", "registered", "dropped"}] /\ table' = callbacks'
  BY <1>5 DEF Base, TypeOK, Consistent
<1>8. ASSUME NEW i \in DOMAIN frames
      PROVE  /\ frames'[i].due \subseteq Registered'
             /\ \A g \in frames'[i].due \cup frames'[i].called :
                  frames'[i].event \in callbacks'[g]
             /\ \A g \in frames'[i].called : handle'[g] # "none"
  <2>1. /\ frames[i].due \subseteq Registered /\ frames[i].called \subseteq Hooks
        /\ \A g \in frames[i].due \cup frames[i].called : frames[i].event \in callbacks[g]
        /\ \A g \in frames[i].called : handle[g] # "none"
    BY <1>2 DEF Base, TypeOK, Consistent, Frame
  <2>2. h \notin frames[i].due /\ h \notin frames[i].called
    BY <1>5, <2>1 DEF Registered
  <2>3. \A g \in Hooks : g # h => callbacks'[g] = callbacks[g] /\ handle'[g] = handle[g]
    BY <1>5 DEF Base, TypeOK
  <2>4. callbacks'[h] = cbs
    BY <1>5 DEF Base, TypeOK
  <2>5. Registered \subseteq Hooks
    BY DEF Registered
  <2>6. \A g \in frames'[i].due : frames'[i].event \in callbacks'[g]
    BY <1>3, <2>1, <2>2, <2>3, <2>4, <2>5
  <2>7. QED
    BY <1>3, <1>5, <2>1, <2>2, <2>3, <2>6
<1>9. TypeOK'
  BY <1>4, <1>6, <1>7, <1>8 DEF TypeOK, Base
<1>10. QED
  BY <1>4, <1>7, <1>8, <1>9 DEF Base, Consistent

LEMMA BaseDrop ==
  ASSUME Base, NEW h \in Hooks, Drop(h)
  PROVE  Base'
<1>1. frames \in Seq(Frame) /\ DOMAIN frames = 1..Len(frames)
  BY DEF Base, TypeOK
<1>2. \A i \in DOMAIN frames : frames[i] \in Frame
  BY <1>1
<1>3. \A i \in DOMAIN frames :
        /\ frames'[i] \in Frame
        /\ frames'[i].event = frames[i].event /\ frames'[i].called = frames[i].called
        /\ frames'[i].due = frames[i].due \ {h}
  BY <1>2 DEF Drop, Frame
<1>4. frames' \in Seq(Frame) /\ Len(frames') = Len(frames) /\ DOMAIN frames' = DOMAIN frames
  <2>1. frames' = [i \in DOMAIN frames |-> frames'[i]]
    BY DEF Drop
  <2>2. QED
    BY <1>1, <1>3, <2>1, Replaced
<1>5. /\ callbacks' = callbacks /\ table' = table
      /\ handle' = [handle EXCEPT ![h] = "dropped"]
      /\ Registered' = Registered \ {h}
  BY DEF Drop, Registered, Base, TypeOK
<1>6. next' \in [Nodes -> Nodes] /\ prev' \in [Nodes -> Nodes]
  <2>1. h \in Nodes
    BY DEF Nodes
  <2>2. QED
    BY <2>1 DEF Drop, Remove, Base, TypeOK
<1>7. /\ handle' \in [Hooks -> {"none", "registered", "dropped"}]
      /\ \A g \in Hooks : handle[g] # "none" => handle'[g] # "none"
  BY <1>5 DEF Base, TypeOK
<1>8. \A i \in DOMAIN frames :
        /\ frames'[i].due \subseteq Registered'
        /\ \A g \in frames'[i].due \cup frames'[i].called :
             frames'[i].event \in callbacks'[g]
        /\ \A g \in frames'[i].called : handle'[g] # "none"
  BY <1>2, <1>3, <1>5, <1>7 DEF Base, TypeOK, Consistent, Frame
<1>9. TypeOK'
  BY <1>4, <1>5, <1>6, <1>7, <1>8 DEF TypeOK, Base
<1>10. QED
  BY <1>4, <1>5, <1>8, <1>9 DEF Base, Consistent

LEMMA BaseEmit ==
  ASSUME Base, NEW e \in Events, Emit(e)
  PROVE  Base'
<1> DEFINE f == [event |-> e, running |-> List, called |-> {},
                 due |-> {h \in Registered : e \in callbacks[h]}]
           c == Len(frames) + 1
<1>1. frames \in Seq(Frame) /\ Len(frames) \in Nat /\ DOMAIN frames = 1..Len(frames)
  BY DEF Base, TypeOK
<1>2. f \in Frame
  BY DEF Frame, Registered
<1>3. frames' = Append(frames, f)
  BY DEF Emit
<1>4. /\ frames' \in Seq(Frame) /\ Len(frames') = c /\ DOMAIN frames' = 1..c
      /\ \A i \in DOMAIN frames : frames'[i] = frames[i]
      /\ frames'[c] = f
  <2> HIDE DEF f
  <2>1. QED
    BY <1>1, <1>2, <1>3
<1>5. c <= Depth /\ c \in Nodes /\ List \in Nodes
  BY <1>1, ListenersAssumption DEF Emit, Nodes, Cursors
<1>6. next' \in [Nodes -> Nodes] /\ prev' \in [Nodes -> Nodes]
  BY <1>5 DEF Emit, InsertAfter, Base, TypeOK
<1>7. handle' = handle /\ callbacks' = callbacks /\ table' = table /\ Registered' = Registered
  BY DEF Emit, Registered
<1>8. ASSUME NEW i \in DOMAIN frames'
      PROVE  /\ frames'[i].due \subseteq Registered
             /\ \A g \in frames'[i].due \cup frames'[i].called :
                  frames'[i].event \in callbacks[g]
             /\ \A g \in frames'[i].called : handle[g] # "none"
  <2>1. CASE i = c
    BY <1>4, <2>1
  <2>2. CASE i # c
    <3>1. i \in DOMAIN frames /\ frames'[i] = frames[i]
      BY <1>1, <1>4, <2>2
    <3>2. QED
      BY <3>1 DEF Base, TypeOK, Consistent
  <2>3. QED
    BY <2>1, <2>2
<1> HIDE DEF f, c
<1>9. TypeOK'
  BY <1>4, <1>5, <1>6, <1>7, <1>8 DEF TypeOK, Base
<1>10. QED
  BY <1>7, <1>8, <1>9 DEF Base, Consistent

(* What Advance does to the innermost frame. *)
LEMMA AdvanceFrames ==
  ASSUME Base, Advance, NEW c, c = Len(frames), NEW n, n = next[c]
  PROVE  /\ c \in DOMAIN frames /\ c \in 1..Depth /\ c \in Nodes /\ n \in Nodes
         /\ frames' \in Seq(Frame) /\ Len(frames') = Len(frames)
         /\ DOMAIN frames' = DOMAIN frames
         /\ \A i \in DOMAIN frames : i # c => frames'[i] = frames[i]
         /\ frames'[c].event = frames[c].event
         /\ IF n \in Hooks /\ frames[c].event \in table[n]
              THEN /\ frames'[c].running = n
                   /\ frames'[c].due = frames[c].due \ {n}
                   /\ frames'[c].called = frames[c].called \cup {n}
              ELSE frames'[c] = frames[c]
<1>1. /\ frames \in Seq(Frame) /\ Len(frames) \in Nat /\ DOMAIN frames = 1..Len(frames)
      /\ Len(frames) <= Depth /\ frames # <<>>
  BY DEF Base, TypeOK, Advance
<1>2. c \in DOMAIN frames /\ c \in 1..Depth /\ c \in Nodes
  BY <1>1, ListenersAssumption DEF Nodes, Cursors
<1>3. n \in Nodes
  BY <1>2 DEF Base, TypeOK
<1>4. \A i \in DOMAIN frames : frames[i] \in Frame
  BY <1>1
<1>5. CASE n \in Hooks /\ frames[c].event \in table[n]
  <2>1. frames' = [frames EXCEPT ![c].running = n, ![c].due = @ \ {n},
                                 ![c].called = @ \cup {n}]
    BY <1>5 DEF Advance, Top
  <2> DEFINE g == [frames[c] EXCEPT !.running = n, !.due = @ \ {n}, !.called = @ \cup {n}]
  <2>2. /\ g \in Frame /\ g.running = n /\ g.due = frames[c].due \ {n}
        /\ g.called = frames[c].called \cup {n} /\ g.event = frames[c].event
    BY <1>2, <1>4, <1>5 DEF Frame
  <2>3. frames' = [frames EXCEPT ![c] = g]
    BY <1>1, <1>2, <1>4, <2>1 DEF Frame
  <2> HIDE DEF g
  <2>4. /\ frames' \in Seq(Frame) /\ Len(frames') = Len(frames)
        /\ DOMAIN frames' = DOMAIN frames /\ frames'[c] = g
        /\ \A i \in DOMAIN frames : i # c => frames'[i] = frames[i]
    BY <1>1, <1>2, <2>2, <2>3
  <2>5. QED
    BY <1>2, <1>3, <1>5, <2>2, <2>4
<1>6. CASE ~(n \in Hooks /\ frames[c].event \in table[n])
  <2>1. frames' = frames
    BY <1>6 DEF Advance, Top
  <2>2. QED
    BY <1>1, <1>2, <1>3, <1>6, <2>1
<1>7. QED
  BY <1>5, <1>6

(* A hook that is reached is registered. *)
LEMMA LinkedHook ==
  ASSUME Base, NEW n \in Linked
  PROVE  /\ n \in Nodes /\ (n \in Hooks => n \in Registered)
         /\ n \notin Hooks => n \in Nat
<1>1. Len(frames) \in Nat /\ Len(frames) <= Depth
  BY DEF Base, TypeOK
<1>2. QED
  BY <1>1, ListenersAssumption DEF Linked, Nodes, Cursors, List, Registered

LEMMA BaseAdvance ==
  ASSUME Base, Advance, next[Len(frames)] \in Linked
  PROVE  Base'
<1> DEFINE c == Len(frames)
           n == next[c]
<1>1. /\ c \in DOMAIN frames /\ c \in Nodes /\ n \in Nodes
      /\ frames' \in Seq(Frame) /\ Len(frames') = Len(frames)
      /\ DOMAIN frames' = DOMAIN frames
      /\ \A i \in DOMAIN frames : i # c => frames'[i] = frames[i]
      /\ frames'[c].event = frames[c].event
      /\ IF n \in Hooks /\ frames[c].event \in table[n]
           THEN /\ frames'[c].due = frames[c].due \ {n}
                /\ frames'[c].called = frames[c].called \cup {n}
           ELSE frames'[c] = frames[c]
  BY AdvanceFrames
<1>2. next' \in [Nodes -> Nodes] /\ prev' \in [Nodes -> Nodes]
  BY <1>1 DEF Advance, Base, TypeOK
<1>3. handle' = handle /\ callbacks' = callbacks /\ table' = table /\ Registered' = Registered
  BY DEF Advance, Registered
<1>4. n \in Hooks => n \in Registered
  BY LinkedHook
<1> HIDE DEF c, n
<1>5. ASSUME NEW i \in DOMAIN frames
      PROVE  /\ frames'[i].due \subseteq Registered
             /\ \A g \in frames'[i].due \cup frames'[i].called :
                  frames'[i].event \in callbacks[g]
             /\ \A g \in frames'[i].called : handle[g] # "none"
  <2>1. /\ frames[i].due \subseteq Registered
        /\ \A g \in frames[i].due \cup frames[i].called : frames[i].event \in callbacks[g]
        /\ \A g \in frames[i].called : handle[g] # "none"
    BY DEF Base, TypeOK, Consistent
  <2>2. CASE i = c /\ n \in Hooks /\ frames[c].event \in table[n]
    <3>1. frames[c].event \in callbacks[n] /\ handle[n] # "none"
      BY <1>4, <2>2 DEF Base, Consistent, Registered
    <3>2. QED
      BY <1>1, <2>1, <2>2, <3>1
  <2>3. CASE ~(i = c /\ n \in Hooks /\ frames[c].event \in table[n])
    BY <1>1, <2>1, <2>3
  <2>4. QED
    BY <2>2, <2>3
<1>6. TypeOK'
  BY <1>1, <1>2, <1>3, <1>5 DEF TypeOK, Base
<1>7. QED
  BY <1>1, <1>3, <1>5, <1>6 DEF Base, Consistent

LEMMA BaseReturn ==
  ASSUME Base, Return
  PROVE  Base' /\ Registered' = Registered /\ Linked' = Linked
         /\ Len(frames') = Len(frames)
         /\ \A i \in DOMAIN frames : /\ frames'[i].event = frames[i].event
                                     /\ frames'[i].due = frames[i].due
                                     /\ frames'[i].called = frames[i].called
<1> DEFINE c == Len(frames)
<1>1. /\ frames \in Seq(Frame) /\ c \in Nat /\ DOMAIN frames = 1..c
      /\ frames # <<>> /\ c \in DOMAIN frames
      /\ \A i \in DOMAIN frames : frames[i] \in Frame
  BY DEF Base, TypeOK, Return
<1> DEFINE g == [frames[c] EXCEPT !.running = List]
<1>2. /\ g \in Frame /\ g.event = frames[c].event /\ g.due = frames[c].due
      /\ g.called = frames[c].called
  BY <1>1 DEF Frame
<1>3. frames' = [frames EXCEPT ![c] = g]
  BY DEF Return
<1> HIDE DEF g, c
<1>4. /\ frames' \in Seq(Frame) /\ Len(frames') = Len(frames) /\ DOMAIN frames' = DOMAIN frames
      /\ \A i \in DOMAIN frames : /\ frames'[i].event = frames[i].event
                                  /\ frames'[i].due = frames[i].due
                                  /\ frames'[i].called = frames[i].called
  BY <1>1, <1>2, <1>3
<1>5. Registered' = Registered /\ Linked' = Linked
  BY <1>4 DEF Return, Registered, Linked
<1>6. QED
  BY <1>4, <1>5 DEF Return, Base, TypeOK, Consistent

LEMMA BaseFinish ==
  ASSUME Base, Finish
  PROVE  /\ Base' /\ Registered' = Registered
         /\ Len(frames') = Len(frames) - 1 /\ Len(frames) \in Nat \ {0}
         /\ \A i \in DOMAIN frames' : i \in DOMAIN frames /\ frames'[i] = frames[i]
<1>1. /\ frames \in Seq(Frame) /\ Len(frames) \in Nat \ {0}
      /\ DOMAIN frames = 1..Len(frames) /\ Len(frames) <= Depth
  BY DEF Base, TypeOK, Finish
<1>2. frames' = SubSeq(frames, 1, Len(frames) - 1)
  BY DEF Finish
<1>3. /\ frames' \in Seq(Frame) /\ Len(frames') = Len(frames) - 1
      /\ \A i \in DOMAIN frames' : i \in DOMAIN frames /\ frames'[i] = frames[i]
  BY <1>1, <1>2
<1>4. Registered' = Registered
  BY DEF Finish, Registered
<1>5. Len(frames) \in Nodes
  BY <1>1, ListenersAssumption DEF Nodes, Cursors
<1>6. next' \in [Nodes -> Nodes] /\ prev' \in [Nodes -> Nodes]
  BY <1>5 DEF Finish, Remove, Base, TypeOK
<1>7. Len(frames') <= Depth
  BY <1>1, <1>3, ListenersAssumption
<1>8. QED
  BY <1>1, <1>3, <1>4, <1>6, <1>7 DEF Finish, Base, TypeOK, Consistent

------------------------------------------------------------------------------
(* The inductive invariant *)

(* The cursor of an emission stands between those it called and those due. *)
Ahead(rank, fs, R) ==
  \A i \in DOMAIN fs : /\ \A h \in fs[i].due : rank[h] > rank[i]
                       /\ \A h \in fs[i].called \cap R : rank[h] < rank[i]

Inv ==
  /\ Base
  /\ Links(next, prev, Linked) /\ Ring(next, prev, Linked)
  /\ \E rank : Ranked(rank, next, Linked) /\ Ahead(rank, frames, Registered)

(* Making room leaves the others in their order, n directly behind p. *)
LEMMA ShiftedOrder ==
  ASSUME NEW nx, NEW pv, NEW L, Links(nx, pv, L), NEW rank, Ranked(rank, nx, L),
         NEW p \in L, NEW n \in Nodes, n \notin L, NEW r, r = Shifted(rank, p, n)
  PROVE  /\ \A a, b \in L : rank[a] < rank[b] => r[a] < r[b]
         /\ \A a \in L : rank[a] <= rank[p] => r[a] < r[n]
         /\ \A a \in L : rank[a] > rank[p] => r[a] > r[n]
<1>1. L \subseteq Nodes /\ rank \in [Nodes -> Nat]
  BY DEF Links, Ranked
<1>2. \A m \in L : rank[m] \in Nat
  BY <1>1
<1>3. /\ r[n] = rank[p] + 1
      /\ \A m \in L : r[m] = IF rank[m] > rank[p] THEN rank[m] + 1 ELSE rank[m]
  BY <1>1 DEF Shifted
<1>4. QED
  BY <1>2, <1>3

(* The frames and the registered hooks are nodes of the ring. *)
LEMMA InLinked ==
  ASSUME Base
  PROVE  /\ DOMAIN frames = 1..Len(frames) /\ Len(frames) \in Nat
         /\ \A i \in DOMAIN frames : i \in Linked /\ i \in Nat /\ i # List
         /\ Registered \subseteq Linked /\ Registered \subseteq Hooks
         /\ List \in Linked /\ List \notin Hooks
         /\ \A i \in DOMAIN frames : /\ frames[i] \in Frame
                                     /\ frames[i].due \subseteq Registered
                                     /\ frames[i].called \subseteq Hooks
<1>1. frames \in Seq(Frame)
  BY DEF Base, TypeOK
<1>2. \A i \in DOMAIN frames : frames[i] \in Frame
  BY <1>1
<1>3. QED
  BY <1>1, <1>2, ListenersAssumption DEF Base, TypeOK, Linked, List, Registered, Frame

LEMMA InvInitially == Init => Inv
<1> SUFFICES ASSUME Init PROVE Inv
  OBVIOUS
<1>1. Base
  BY Initially
<1>2. Linked = {List}
  BY DEF Init, Linked, Registered
<1>3. Links(next, prev, Linked) /\ Ring(next, prev, Linked)
  BY <1>2 DEF Init, Links, Ring, Nodes, List
<1>4. Ranked([m \in Nodes |-> 0], next, Linked)
  BY <1>2 DEF Init, Ranked, Nodes, List
<1>5. Ahead([m \in Nodes |-> 0], frames, Registered)
  BY DEF Init, Ahead
<1>6. QED
  BY <1>1, <1>3, <1>4, <1>5 DEF Inv

(* The new hook comes last: behind every cursor, so it is still due. *)
LEMMA InvRegister ==
  ASSUME Inv, NEW h \in Hooks, NEW cbs \in SUBSET Events, Register(h, cbs)
  PROVE  Inv'
<1>1. PICK rank : Ranked(rank, next, Linked) /\ Ahead(rank, frames, Registered)
  BY DEF Inv
<1>2. Base /\ Base' /\ Links(next, prev, Linked) /\ Ring(next, prev, Linked)
  BY BaseRegister DEF Inv
<1> DEFINE p == prev[List]
           r == Shifted(rank, p, h)
<1>3. p \in Linked /\ next[p] = List
  BY <1>2 DEF Ring, Links
<1>4. h \in Nodes /\ h \notin Linked /\ handle[h] = "none"
  BY <1>2, ListenersAssumption DEF Register, Nodes, Linked, Registered, List, Base, TypeOK
<1>5. frames \in Seq(Frame) /\ Len(frames') = Len(frames) /\ DOMAIN frames' = DOMAIN frames
  <2>1. frames \in Seq(Frame) /\ frames' \in Seq(Frame) /\ DOMAIN frames' = DOMAIN frames
    BY <1>2 DEF Base, TypeOK, Register
  <2>2. QED
    BY <2>1
<1>6. Registered' = Registered \cup {h} /\ Linked' = Linked \cup {h}
  <2>1. Registered' = Registered \cup {h}
    BY <1>2 DEF Register, Registered, Base, TypeOK
  <2>2. QED
    BY <1>5, <2>1 DEF Linked
<1>7. Inserted(next, prev, p, h, next', prev')
  BY DEF Register, InsertAfter, Inserted
<1>8. /\ Links(next', prev', Linked') /\ Ring(next', prev', Linked')
      /\ Ranked(r, next', Linked')
  <2> HIDE DEF p, r
  <2>1. Links(next', prev', Linked') /\ Ring(next', prev', Linked')
    BY <1>2, <1>3, <1>4, <1>6, <1>7, InsertRing
  <2>2. Ranked(Shifted(rank, p, h), next', Linked')
    BY <1>1, <1>2, <1>3, <1>4, <1>6, <1>7, InsertRanked
  <2>3. QED
    BY <2>1, <2>2 DEF r
<1>9. /\ \A a, b \in Linked : rank[a] < rank[b] => r[a] < r[b]
      /\ \A a \in Linked : rank[a] <= rank[p] => r[a] < r[h]
  <2> HIDE DEF p
  <2>1. QED
    BY <1>1, <1>2, <1>3, <1>4, ShiftedOrder
<1>10. \A a \in Linked : r[a] < r[h]
  <2>1. rank \in [Nodes -> Nat] /\ Linked \subseteq Nodes
    BY <1>1, <1>2 DEF Ranked, Links
  <2>2. \A a \in Linked : rank[a] \in Nat /\ ~(rank[p] < rank[a])
    BY <1>1, <1>3, <2>1 DEF Ranked
  <2>3. QED
    BY <1>3, <1>9, <2>2
<1> HIDE DEF p, r
<1>11. ASSUME NEW i \in DOMAIN frames
       PROVE  /\ frames'[i].called = frames[i].called
              /\ frames'[i].due \subseteq frames[i].due \cup {h}
  BY <1>2, <1>5, InLinked DEF Register, Frame
<1>12. ASSUME NEW i \in DOMAIN frames
       PROVE  /\ \A g \in frames'[i].due : r[g] > r[i]
              /\ \A g \in frames'[i].called \cap Registered' : r[g] < r[i]
  <2>1. /\ i \in Linked /\ frames[i].due \subseteq Linked /\ Registered \subseteq Linked
    BY <1>2, InLinked
  <2>2. h \notin frames[i].called
    BY <1>2, <1>4 DEF Base, Consistent
  <2>3. /\ \A g \in frames[i].due : rank[g] > rank[i]
        /\ \A g \in frames[i].called \cap Registered : rank[g] < rank[i]
    BY <1>1 DEF Ahead
  <2>4. /\ \A g \in Linked : rank[g] \in Nat /\ r[g] \in Nat
        /\ r[h] \in Nat
    BY <1>1, <1>2, <1>4, <1>8 DEF Ranked, Links
  <2>5. \A g \in frames[i].due : r[g] > r[i]
    BY <1>9, <2>1, <2>3, <2>4
  <2>6. \A g \in frames[i].called \cap Registered : r[g] < r[i]
    BY <1>9, <2>1, <2>3, <2>4
  <2>7. r[h] > r[i]
    BY <1>10, <2>1, <2>4
  <2>8. QED
    BY <1>6, <1>11, <2>2, <2>5, <2>6, <2>7
<1>13. Ahead(r, frames', Registered')
  BY <1>5, <1>12 DEF Ahead
<1>14. QED
  BY <1>2, <1>8, <1>13 DEF Inv

LEMMA InvDrop ==
  ASSUME Inv, NEW h \in Hooks, Drop(h)
  PROVE  Inv'
<1>1. PICK rank : Ranked(rank, next, Linked) /\ Ahead(rank, frames, Registered)
  BY DEF Inv
<1>2. Base /\ Base' /\ Links(next, prev, Linked) /\ Ring(next, prev, Linked)
  BY BaseDrop DEF Inv
<1>3. h \in Linked /\ h # List /\ h \notin Nat
  BY ListenersAssumption DEF Drop, Linked, Registered, List
<1>4. frames \in Seq(Frame) /\ Len(frames') = Len(frames) /\ DOMAIN frames' = DOMAIN frames
  <2>1. frames \in Seq(Frame) /\ frames' \in Seq(Frame) /\ DOMAIN frames' = DOMAIN frames
    BY <1>2 DEF Base, TypeOK, Drop
  <2>2. QED
    BY <2>1
<1>5. Registered' = Registered \ {h} /\ Linked' = Linked \ {h}
  <2>1. Registered' = Registered \ {h}
    BY <1>2 DEF Drop, Registered, Base, TypeOK
  <2>2. Len(frames) \in Nat
    BY <1>4
  <2>3. QED
    BY <1>3, <1>4, <2>1, <2>2 DEF Linked
<1>6. Removed(next, prev, h, next', prev')
  BY DEF Drop, Remove, Removed
<1>7. Links(next', prev', Linked') /\ Ring(next', prev', Linked')
  BY <1>2, <1>3, <1>5, <1>6, RemoveRing
<1>8. Ranked(rank, next', Linked')
  BY <1>1, <1>2, <1>3, <1>5, <1>6, RemoveRanked
<1>9. \A i \in DOMAIN frames : /\ frames'[i].called = frames[i].called
                               /\ frames'[i].due = frames[i].due \ {h}
  BY <1>2, <1>4, InLinked DEF Drop, Frame
<1>10. Ahead(rank, frames', Registered')
  BY <1>1, <1>4, <1>5, <1>9 DEF Ahead
<1>11. QED
  BY <1>2, <1>7, <1>8, <1>10 DEF Inv

(* The new cursor comes first: everyone registered is still due. *)
LEMMA InvEmit ==
  ASSUME Inv, NEW e \in Events, Emit(e)
  PROVE  Inv'
<1>1. PICK rank : Ranked(rank, next, Linked) /\ Ahead(rank, frames, Registered)
  BY DEF Inv
<1>2. Base /\ Base' /\ Links(next, prev, Linked) /\ Ring(next, prev, Linked)
  BY BaseEmit DEF Inv
<1> DEFINE c == Len(frames) + 1
           r == Shifted(rank, List, c)
<1>3. /\ List \in Linked /\ c \in Nat \ {0} /\ c <= Depth /\ c \in Nodes
      /\ c \notin Linked /\ frames \in Seq(Frame)
  BY <1>2, InLinked, ListenersAssumption
     DEF Emit, Nodes, Cursors, Linked, Registered, List, Base, TypeOK
<1>4. /\ Len(frames') = c /\ DOMAIN frames' = DOMAIN frames \cup {c}
      /\ \A i \in DOMAIN frames : frames'[i] = frames[i] /\ i # c
      /\ frames'[c].called = {} /\ frames'[c].due \subseteq Registered
  <2> DEFINE f == [event |-> e, running |-> List, called |-> {},
                   due |-> {h \in Registered : e \in callbacks[h]}]
  <2>1. frames' = Append(frames, f) /\ f.called = {} /\ f.due \subseteq Registered
    BY DEF Emit
  <2> HIDE DEF f
  <2>2. QED
    BY <1>3, <2>1
<1>5. Registered' = Registered /\ Linked' = Linked \cup {c}
  <2>1. Registered' = Registered
    BY DEF Emit, Registered
  <2>2. QED
    BY <1>2, <1>4, <2>1, InLinked DEF Linked
<1>6. Inserted(next, prev, List, c, next', prev')
  BY DEF Emit, InsertAfter, Inserted
<1> HIDE DEF c
<1>7. /\ Links(next', prev', Linked') /\ Ring(next', prev', Linked')
      /\ Ranked(r, next', Linked')
  BY <1>1, <1>2, <1>3, <1>5, <1>6, InsertRing, InsertRanked
<1>8. /\ \A a, b \in Linked : rank[a] < rank[b] => r[a] < r[b]
      /\ \A a \in Linked : rank[a] > rank[List] => r[a] > r[c]
  BY <1>1, <1>2, <1>3, ShiftedOrder
<1> HIDE DEF r
<1>9. ASSUME NEW i \in DOMAIN frames
      PROVE  /\ \A g \in frames'[i].due : r[g] > r[i]
             /\ \A g \in frames'[i].called \cap Registered : r[g] < r[i]
  <2>1. /\ i \in Linked /\ frames[i].due \subseteq Linked /\ Registered \subseteq Linked
    BY <1>2, InLinked
  <2>2. /\ \A g \in frames[i].due : rank[g] > rank[i]
        /\ \A g \in frames[i].called \cap Registered : rank[g] < rank[i]
    BY <1>1 DEF Ahead
  <2>3. \A g \in Linked : rank[g] \in Nat /\ r[g] \in Nat
    BY <1>1, <1>2, <1>7, <1>3 DEF Ranked, Links
  <2>4. QED
    BY <1>4, <1>8, <2>1, <2>2, <2>3
<1>10. \A g \in Registered : r[g] > r[c]
  <2>1. ASSUME NEW g \in Registered
        PROVE  rank[g] > rank[List]
    <3>1. g \in Linked /\ g # List /\ List \in Linked
      BY <1>2, InLinked
    <3>2. rank[g] \in Nat /\ rank[List] = 0 /\ rank[g] # rank[List]
      BY <1>1, <1>2, <3>1 DEF Ranked, Links
    <3>3. QED
      BY <3>2
  <2>2. QED
    BY <1>2, <1>8, <2>1, InLinked
<1>11. Ahead(r, frames', Registered')
  BY <1>4, <1>5, <1>9, <1>10 DEF Ahead
<1>12. QED
  BY <1>2, <1>7, <1>11 DEF Inv

(* To move behind the next node is to be unlinked and linked behind it. *)
LEMMA AdvanceLinks ==
  ASSUME Inv, Advance, NEW c, c = Len(frames), NEW n, n = next[c],
         NEW rank, Ranked(rank, next, Linked)
  PROVE  /\ Linked' = Linked /\ Links(next', prev', Linked') /\ Ring(next', prev', Linked')
         /\ Ranked(Shifted(rank, n, c), next', Linked')
         /\ c \in Linked /\ n \in Linked \ {c} /\ rank[n] > rank[c]
         /\ \A a, b \in Linked \ {c} :
              rank[a] < rank[b] => Shifted(rank, n, c)[a] < Shifted(rank, n, c)[b]
         /\ \A a \in Linked \ {c} :
              /\ rank[a] <= rank[n] => Shifted(rank, n, c)[a] < Shifted(rank, n, c)[c]
              /\ rank[a] > rank[n] => Shifted(rank, n, c)[a] > Shifted(rank, n, c)[c]
<1> DEFINE p == prev[c]
           q == next[n]
           nx1 == [next EXCEPT ![p] = n]
           pv1 == [prev EXCEPT ![n] = p]
           L1 == Linked \ {c}
<1>1. Base /\ Links(next, prev, Linked) /\ Ring(next, prev, Linked)
  BY DEF Inv
<1>2. c \in Linked /\ c # List /\ c \in Nodes
  BY <1>1, InLinked DEF Advance, Links
<1>3. /\ p \in Linked /\ n \in Linked /\ q \in Linked /\ next[p] = c /\ prev[n] = c
      /\ prev[q] = n /\ n # List /\ n \in Nodes /\ p \in Nodes /\ q \in Nodes
  BY <1>1, <1>2 DEF Ring, Links, Advance
<1>4. rank[p] \in Nat /\ rank[c] \in Nat /\ rank[n] \in Nat
  BY <1>2, <1>3 DEF Ranked
<1>5. rank[c] > rank[p] /\ rank[n] > rank[c]
  BY <1>2, <1>3 DEF Ranked
<1>6. n # p /\ n # c /\ p # c
  BY <1>4, <1>5
<1>7. q # c
  <2>1. prev[c] = n => n = p
    OBVIOUS
  <2>2. QED
    BY <1>3, <1>6, <2>1
<1>8. Removed(next, prev, c, nx1, pv1)
  BY DEF Removed
<1> HIDE DEF p, q
<1>9. nx1[n] = q /\ next \in [Nodes -> Nodes] /\ prev \in [Nodes -> Nodes]
  BY <1>1, <1>3, <1>6 DEF Links, q
<1>10. next' = [next EXCEPT ![p] = n, ![n] = c, ![c] = q]
       /\ prev' = [prev EXCEPT ![n] = p, ![c] = n, ![q] = c]
  BY DEF Advance, p, q
<1>11. next' = [nx1 EXCEPT ![n] = c, ![c] = nx1[n]]
  BY <1>9, <1>10
<1>12. prev' = [pv1 EXCEPT ![nx1[n]] = c, ![c] = n]
  BY <1>7, <1>9, <1>10
<1>13. Inserted(nx1, pv1, n, c, next', prev')
  BY <1>11, <1>12 DEF Inserted
<1> HIDE DEF nx1, pv1, L1
<1>14. Links(nx1, pv1, L1) /\ Ring(nx1, pv1, L1) /\ Ranked(rank, nx1, L1)
  BY <1>1, <1>2, <1>8, RemoveRing, RemoveRanked DEF L1
<1>15. n \in L1 /\ c \notin L1 /\ L1 \cup {c} = Linked
  BY <1>2, <1>3, <1>6 DEF L1
<1>16. /\ Links(next', prev', Linked) /\ Ring(next', prev', Linked)
       /\ Ranked(Shifted(rank, n, c), next', Linked)
  BY <1>2, <1>13, <1>14, <1>15, InsertRing, InsertRanked
<1>17. Linked' = Linked
  <2>1. Len(frames') = Len(frames)
    BY <1>1, AdvanceFrames
  <2>2. Registered' = Registered
    BY DEF Advance, Registered
  <2>3. QED
    BY <2>1, <2>2 DEF Linked
<1>18. /\ \A a, b \in L1 :
            rank[a] < rank[b] => Shifted(rank, n, c)[a] < Shifted(rank, n, c)[b]
       /\ \A a \in L1 :
            /\ rank[a] <= rank[n] => Shifted(rank, n, c)[a] < Shifted(rank, n, c)[c]
            /\ rank[a] > rank[n] => Shifted(rank, n, c)[a] > Shifted(rank, n, c)[c]
  BY <1>2, <1>14, <1>15, ShiftedOrder
<1>19. QED
  BY <1>2, <1>3, <1>5, <1>6, <1>16, <1>17, <1>18 DEF L1

LEMMA InvAdvance ==
  ASSUME Inv, Advance
  PROVE  Inv'
<1>1. PICK rank : Ranked(rank, next, Linked) /\ Ahead(rank, frames, Registered)
  BY DEF Inv
<1> DEFINE c == Len(frames)
           n == next[c]
           r == Shifted(rank, n, c)
<1>2. /\ Linked' = Linked /\ Links(next', prev', Linked') /\ Ring(next', prev', Linked')
      /\ Ranked(r, next', Linked')
      /\ c \in Linked /\ n \in Linked \ {c} /\ rank[n] > rank[c]
      /\ \A a, b \in Linked \ {c} : rank[a] < rank[b] => r[a] < r[b]
      /\ \A a \in Linked \ {c} : /\ rank[a] <= rank[n] => r[a] < r[c]
                                 /\ rank[a] > rank[n] => r[a] > r[c]
  BY <1>1, AdvanceLinks
<1>3. Base /\ Base'
  BY <1>2, BaseAdvance DEF Inv
<1>4. /\ c \in DOMAIN frames /\ DOMAIN frames' = DOMAIN frames
      /\ \A i \in DOMAIN frames : i # c => frames'[i] = frames[i]
      /\ IF n \in Hooks /\ frames[c].event \in table[n]
           THEN /\ frames'[c].due = frames[c].due \ {n}
                /\ frames'[c].called = frames[c].called \cup {n}
           ELSE frames'[c] = frames[c]
  BY <1>3, AdvanceFrames
<1>5. Registered' = Registered
  BY DEF Advance, Registered
<1>6. \A m \in Linked : rank[m] \in Nat /\ r[m] \in Nat
  BY <1>1, <1>2 DEF Ranked, Links, Inv
<1>7. \A a \in Linked : (rank[a] = rank[n] => a = n)
                        /\ (rank[c] < rank[a] => rank[n] <= rank[a])
  BY <1>1, <1>2 DEF Ranked
<1>8. n \in frames[c].due => n \in Hooks /\ frames[c].event \in table[n]
  BY <1>3, <1>4, InLinked DEF Base, TypeOK, Consistent
<1> HIDE DEF c, n, r
<1>9. n \notin frames'[c].due /\ frames'[c].due \subseteq frames[c].due
      /\ frames'[c].called \subseteq frames[c].called \cup {n}
  BY <1>4, <1>8
<1>10. ASSUME NEW i \in DOMAIN frames
       PROVE  /\ i \in Linked /\ frames[i].due \subseteq Linked \ DOMAIN frames
              /\ frames[i].called \cap Registered \subseteq Linked \ DOMAIN frames
              /\ \A g \in frames[i].due : rank[g] > rank[i]
              /\ \A g \in frames[i].called \cap Registered : rank[g] < rank[i]
  BY <1>1, <1>3, InLinked, ListenersAssumption DEF Ahead
<1>11. ASSUME NEW i \in DOMAIN frames, i # c
       PROVE  /\ \A g \in frames'[i].due : r[g] > r[i]
              /\ \A g \in frames'[i].called \cap Registered : r[g] < r[i]
  BY <1>2, <1>4, <1>6, <1>10, <1>11
<1>12. \A g \in frames'[c].due : r[g] > r[c]
  <2>1. ASSUME NEW g \in frames'[c].due PROVE r[g] > r[c]
    <3>1. g \in Linked \ {c} /\ rank[g] > rank[c] /\ g # n
      BY <1>4, <1>9, <1>10
    <3>2. rank[g] > rank[n]
      BY <1>2, <1>6, <1>7, <3>1
    <3>3. QED
      BY <1>2, <3>1, <3>2
  <2>2. QED
    BY <2>1
<1>13. \A g \in frames'[c].called \cap Registered : r[g] < r[c]
  <2>1. ASSUME NEW g \in frames'[c].called \cap Registered PROVE r[g] < r[c]
    <3>1. g = n \/ (g \in Linked \ {c} /\ rank[g] < rank[c])
      BY <1>4, <1>9, <1>10
    <3>2. g \in Linked \ {c} /\ rank[g] <= rank[n]
      BY <1>2, <1>6, <3>1
    <3>3. QED
      BY <1>2, <3>2
  <2>2. QED
    BY <2>1
<1>14. Ahead(r, frames', Registered')
  BY <1>4, <1>5, <1>11, <1>12, <1>13 DEF Ahead
<1>15. QED
  BY <1>2, <1>3, <1>14 DEF Inv

LEMMA InvReturn ==
  ASSUME Inv, Return
  PROVE  Inv'
<1>1. Base
  BY DEF Inv
<1>2. /\ Base' /\ Registered' = Registered /\ Linked' = Linked
      /\ Len(frames') = Len(frames)
      /\ \A i \in DOMAIN frames : /\ frames'[i].due = frames[i].due
                                  /\ frames'[i].called = frames[i].called
  BY <1>1, BaseReturn
<1>3. DOMAIN frames' = DOMAIN frames
  BY <1>1, <1>2 DEF Base, TypeOK
<1>4. next' = next /\ prev' = prev
  BY DEF Return
<1>5. \A rank : Ahead(rank, frames, Registered) => Ahead(rank, frames', Registered')
  BY <1>2, <1>3 DEF Ahead
<1>6. QED
  BY <1>2, <1>4, <1>5 DEF Inv

LEMMA InvFinish ==
  ASSUME Inv, Finish
  PROVE  Inv'
<1>1. PICK rank : Ranked(rank, next, Linked) /\ Ahead(rank, frames, Registered)
  BY DEF Inv
<1> DEFINE c == Len(frames)
<1>2. Base /\ Links(next, prev, Linked) /\ Ring(next, prev, Linked)
  BY DEF Inv
<1>3. /\ Base' /\ Registered' = Registered
      /\ Len(frames') = c - 1 /\ c \in Nat \ {0}
      /\ \A i \in DOMAIN frames' : i \in DOMAIN frames /\ frames'[i] = frames[i]
  BY <1>2, BaseFinish
<1>4. c \in Linked /\ c # List /\ Linked' = Linked \ {c}
  BY <1>2, <1>3, InLinked, ListenersAssumption DEF Linked, List
<1>5. Removed(next, prev, c, next', prev')
  BY DEF Finish, Remove, Removed
<1> HIDE DEF c
<1>6. /\ Links(next', prev', Linked') /\ Ring(next', prev', Linked')
      /\ Ranked(rank, next', Linked')
  BY <1>1, <1>2, <1>4, <1>5, RemoveRing, RemoveRanked
<1>7. Ahead(rank, frames', Registered')
  BY <1>1, <1>3 DEF Ahead
<1>8. QED
  BY <1>3, <1>6, <1>7 DEF Inv

LEMMA InvNext == Inv /\ [Next]_vars => Inv'
<1> SUFFICES ASSUME Inv, [Next]_vars PROVE Inv'
  OBVIOUS
<1>1. CASE \E h \in Hooks, cbs \in SUBSET Events : Register(h, cbs)
  BY <1>1, InvRegister
<1>2. CASE \E h \in Hooks : Drop(h)
  BY <1>2, InvDrop
<1>3. CASE \E e \in Events : Emit(e)
  BY <1>3, InvEmit
<1>4. CASE Advance
  BY <1>4, InvAdvance
<1>5. CASE Return
  BY <1>5, InvReturn
<1>6. CASE Finish
  BY <1>6, InvFinish
<1>7. CASE UNCHANGED vars
  BY <1>7 DEF vars, Inv, Base, TypeOK, Consistent, Registered, Linked
<1>8. QED
  BY <1>1, <1>2, <1>3, <1>4, <1>5, <1>6, <1>7 DEF Next

(* The invariant holds of every behaviour. *)
THEOREM Invariant == Spec => []Inv
<1>1. Init => Inv
  BY InvInitially
<1>2. Inv /\ [Next]_vars => Inv'
  BY InvNext
<1>3. QED
  BY <1>1, <1>2, PTL DEF Spec

(* The state keeps its shape (Listeners!TypeOK). *)
THEOREM Typing == Spec => []TypeOK
<1>1. Inv => TypeOK
  BY DEF Inv, Base
<1>2. QED
  BY <1>1, Invariant, PTL

(* No interleaving of registrations, drops and emissions leaves a link to a *)
(* node that is not in the list, or one that is not answered.               *)
THEOREM LinksAlwaysMatch == Spec => []LinksMatch
<1>1. Inv => LinksMatch
  BY DEF Inv, LinksMatch, Ring
<1>2. QED
  BY <1>1, Invariant, PTL

(* Numbers have a least one. *)
LEMMA Least ==
  ASSUME NEW S \in SUBSET Nat, S # {}
  PROVE  \E x \in S : \A y \in S : x <= y
<1> DEFINE R == {p \in Nat \X Nat : p[1] < p[2]}
<1>1. R = OpToRel(<, Nat)
  BY DEF OpToRel
<1>2. IsWellFoundedOn(R, Nat)
  BY <1>1, NatLessThanWellFounded
<1>3. \A x, y \in Nat : <<x, y>> \notin R => y <= x
  OBVIOUS
<1> HIDE DEF R
<1>4. \E x \in S : \A y \in S : <<y, x>> \notin R
  BY <1>2, WFMin
<1>5. QED
  BY <1>3, <1>4

(* Whoever follows the links from the head comes to all of a ranked ring: of *)
(* the nodes that were missed, one would have the least rank, and the one    *)
(* before it, of lesser rank, would have led there.                          *)
LEMMA RankedReached ==
  ASSUME NEW nx, NEW pv, NEW L, Links(nx, pv, L), Ring(nx, pv, L),
         NEW rank, Ranked(rank, nx, L),
         NEW S, List \in S, \A n \in S : nx[n] \in S
  PROVE  L \subseteq S
<1> SUFFICES ASSUME L \ S # {} PROVE FALSE
  OBVIOUS
<1>1. \A n \in L : rank[n] \in Nat
  BY DEF Links, Ranked
<1>2. {rank[n] : n \in L \ S} \in SUBSET Nat /\ {rank[n] : n \in L \ S} # {}
  BY <1>1
<1>3. \E r \in {rank[n] : n \in L \ S} : \A s \in {rank[n] : n \in L \ S} : r <= s
  BY <1>2, Least
<1>4. PICK m \in L \ S : \A n \in L \ S : rank[m] <= rank[n]
  BY <1>3
<1>5. m # List /\ pv[m] \in L /\ nx[pv[m]] = m
  BY DEF Ring
<1>6. rank[pv[m]] < rank[m]
  BY <1>5 DEF Ranked
<1>7. pv[m] \in S
  BY <1>1, <1>4, <1>5, <1>6
<1>8. QED
  BY <1>5, <1>7

(* From the head one comes to every registered hook and back, whatever was   *)
(* registered and dropped from inside which callbacks (the register and drop *)
(* of each listener, through utils/hook.rs).                                 *)
THEOREM OneRingAlways == Spec => []OneRing
<1>1. ASSUME Inv PROVE OneRing
  <2>1. Links(next, prev, Linked) /\ Ring(next, prev, Linked)
    BY <1>1 DEF Inv
  <2>2. PICK rank : Ranked(rank, next, Linked)
    BY <1>1 DEF Inv
  <2>3. \A S \in SUBSET Nodes :
          List \in S /\ (\A n \in S : next[n] \in S) => Linked \subseteq S
    BY <2>1, <2>2, RankedReached
  <2>4. \E n \in Linked : next[n] = List
    BY <2>1 DEF Links, Ring
  <2>5. \A n \in Linked : next[n] \in Linked
    BY <2>1 DEF Ring
  <2>6. QED
    BY <2>3, <2>4, <2>5 DEF OneRing
<1>2. QED
  BY <1>1, Invariant, PTL

(* A callback begins for a listener that is alive, that has a callback for   *)
(* the event, and that this emission has not called: the hook the cursor     *)
(* comes to is registered, and ranked above those that were called.          *)
THEOREM OnlyTheLivingAreCalled == Spec => CalledWhileAlive
<1> DEFINE Begins(i) ==
             /\ i \in DOMAIN frames' /\ frames[i].running = List
             /\ frames'[i].running # List
           Called(i) ==
             LET h == frames'[i].running IN
             /\ handle[h] = "registered" /\ frames[i].event \in callbacks[h]
             /\ h \notin frames[i].called
<1>1. ASSUME Inv, [Next]_vars, NEW i \in DOMAIN frames, Begins(i)
      PROVE  Called(i)
  <2>1. /\ Base /\ frames \in Seq(Frame) /\ frames[i] \in Frame
        /\ DOMAIN frames = 1..Len(frames) /\ Len(frames) \in Nat
    <3>1. Base /\ frames \in Seq(Frame)
      BY <1>1 DEF Inv, Base, TypeOK
    <3>2. QED
      BY <3>1, InLinked
  <2>2. CASE \E h \in Hooks, cbs \in SUBSET Events : Register(h, cbs)
    <3>1. frames'[i].running = frames[i].running
      BY <2>1, <2>2 DEF Register, Frame
    <3>2. QED
      BY <1>1, <3>1
  <2>3. CASE \E h \in Hooks : Drop(h)
    <3>1. frames'[i].running = frames[i].running
      BY <2>1, <2>3 DEF Drop, Frame
    <3>2. QED
      BY <1>1, <3>1
  <2>4. CASE \E e \in Events : Emit(e)
    <3>1. frames'[i] = frames[i]
      BY <2>1, <2>4 DEF Emit
    <3>2. QED
      BY <1>1, <3>1
  <2>5. CASE Advance
    <3> DEFINE c == Len(frames)
               n == next[c]
    <3>1. PICK rank : Ranked(rank, next, Linked) /\ Ahead(rank, frames, Registered)
      BY <1>1 DEF Inv
    <3>2. c \in Linked /\ n \in Linked /\ rank[n] > rank[c]
      BY <1>1, <2>5, <3>1, AdvanceLinks
    <3>3. /\ c \in DOMAIN frames
          /\ \A j \in DOMAIN frames : j # c => frames'[j] = frames[j]
          /\ IF n \in Hooks /\ frames[c].event \in table[n]
               THEN frames'[c].running = n ELSE frames'[c] = frames[c]
      BY <2>1, <2>5, AdvanceFrames
    <3> HIDE DEF c, n
    <3>4. i = c /\ frames'[i].running = n /\ n \in Hooks /\ frames[c].event \in table[n]
      BY <1>1, <3>3
    <3>5. n \in Registered
      BY <2>1, <3>2, <3>4, LinkedHook
    <3>6. n \notin frames[c].called
      <4>1. n \in frames[c].called => rank[n] < rank[c]
        BY <3>1, <3>3, <3>5 DEF Ahead
      <4>2. rank[n] \in Nat /\ rank[c] \in Nat
        BY <1>1, <3>1, <3>2 DEF Ranked, Links, Inv
      <4>3. QED
        BY <3>2, <4>1, <4>2
    <3>7. QED
      BY <2>1, <3>4, <3>5, <3>6 DEF Registered, Base, Consistent
  <2>6. CASE Return
    <3>1. frames'[i].running = List \/ frames'[i] = frames[i]
      BY <2>1, <2>6 DEF Return, Frame
    <3>2. QED
      BY <1>1, <3>1
  <2>7. CASE Finish
    <3>1. frames'[i] = frames[i]
      BY <1>1, <2>1, <2>7, BaseFinish
    <3>2. QED
      BY <1>1, <3>1
  <2>8. CASE UNCHANGED vars
    BY <1>1, <2>8 DEF vars
  <2>9. QED
    BY <1>1, <2>2, <2>3, <2>4, <2>5, <2>6, <2>7, <2>8 DEF Next
<1>2. Inv /\ [Next]_vars =>
        [\A i \in DOMAIN frames :
           i \in DOMAIN frames' /\ frames[i].running = List /\ frames'[i].running # List
             => LET h == frames'[i].running IN
                /\ handle[h] = "registered" /\ frames[i].event \in callbacks[h]
                /\ h \notin frames[i].called]_vars
  BY <1>1
<1>3. QED
  BY <1>2, Invariant, PTL DEF Spec, CalledWhileAlive

(* An emission that ends has called everyone who is still registered for it: *)
(* its cursor has no one behind it, and whom it still owes is behind it.     *)
THEOREM EveryoneIsServed == Spec => EveryoneServed
<1>1. ASSUME Inv, [Next]_vars, Len(frames') < Len(frames)
      PROVE  Top.due = {}
  <2>1. Base /\ frames \in Seq(Frame) /\ Len(frames) \in Nat
    BY <1>1 DEF Inv, Base, TypeOK
  <2>2. Finish
    <3>1. CASE \E h \in Hooks, cbs \in SUBSET Events : Register(h, cbs)
      <4>1. DOMAIN frames' = DOMAIN frames /\ frames' \in Seq(Frame)
        BY <2>1, <3>1, BaseRegister DEF Register, Base, TypeOK
      <4>2. QED
        BY <1>1, <2>1, <4>1
    <3>2. CASE \E h \in Hooks : Drop(h)
      <4>1. DOMAIN frames' = DOMAIN frames /\ frames' \in Seq(Frame)
        BY <2>1, <3>2, BaseDrop DEF Drop, Base, TypeOK
      <4>2. QED
        BY <1>1, <2>1, <4>1
    <3>3. CASE \E e \in Events : Emit(e)
      <4>1. Len(frames') = Len(frames) + 1
        BY <2>1, <3>3 DEF Emit
      <4>2. QED
        BY <1>1, <2>1, <4>1
    <3>4. CASE Advance
      BY <1>1, <2>1, <3>4, AdvanceFrames
    <3>5. CASE Return
      BY <1>1, <2>1, <3>5, BaseReturn
    <3>6. CASE UNCHANGED vars
      BY <1>1, <2>1, <3>6 DEF vars
    <3>7. QED
      BY <1>1, <3>1, <3>2, <3>3, <3>4, <3>5, <3>6 DEF Next
  <2>3. PICK rank : Ranked(rank, next, Linked) /\ Ahead(rank, frames, Registered)
    BY <1>1 DEF Inv
  <2> DEFINE c == Len(frames)
  <2>4. c \in DOMAIN frames /\ next[c] = List
    BY <2>1, <2>2 DEF Finish
  <2>5. \A h \in frames[c].due : h \in Linked /\ c \in Linked /\ rank[h] > rank[c]
    BY <2>1, <2>3, <2>4, InLinked DEF Ahead
  <2>6. \A h \in Linked : ~(c \in Linked /\ rank[c] < rank[h])
    BY <2>3, <2>4 DEF Ranked
  <2>7. frames[c].due = {}
    BY <2>5, <2>6
  <2>8. QED
    BY <2>7 DEF Top
<1>2. Inv /\ [Next]_vars => [Len(frames') < Len(frames) => Top.due = {}]_vars
  BY <1>1
<1>3. QED
  BY <1>2, Invariant, PTL DEF Spec, EveryoneServed
==============================================================================
