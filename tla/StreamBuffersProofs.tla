------------------------- MODULE StreamBuffersProofs -------------------------
(***************************************************************************)
(* Theorems about StreamBuffers for any streams, buffers and word width.   *)
(* BuffersTypeOK and InOnePlace together are inductive; that a buffer is in a     *)
(* queue of its own stream follows from what is queued where.              *)
(***************************************************************************)
EXTENDS StreamBuffers, TLAPS

\* A buffer is with the program or in one queue of some stream, once.
InOnePlace ==
  \A b \in Buffers :
    IF held[b] = "none" THEN \E place \in Places : copies[b] = OnlyAt(place)
                        ELSE copies[b] = Nowhere

Inv == BuffersTypeOK /\ InOnePlace

(* Where a buffer is decides how its row of copies looks. *)
LEMMA PlacesOfOne ==
  ASSUME NEW p \in Places
  PROVE  /\ OnlyAt(p) \in [Places -> Nat] /\ Nowhere \in [Places -> Nat]
         /\ [OnlyAt(p) EXCEPT ![p] = @ - 1] = Nowhere
         /\ [Nowhere EXCEPT ![p] = @ + 1] = OnlyAt(p)
         /\ \A q \in Places : OnlyAt(p)[q] > 0 => q = p
<1>1. OnlyAt(p) \in [Places -> Nat] /\ Nowhere \in [Places -> Nat]
  BY DEF OnlyAt, Nowhere
<1>2. \A q \in Places : OnlyAt(p)[q] = (IF q = p THEN 1 ELSE 0) /\ Nowhere[q] = 0
  BY DEF OnlyAt, Nowhere
<1>3. [OnlyAt(p) EXCEPT ![p] = @ - 1] = Nowhere
  <2> DEFINE g == [OnlyAt(p) EXCEPT ![p] = @ - 1]
  <2>1. g \in [Places -> Int]
    BY <1>1
  <2>2. \A q \in Places : g[q] = Nowhere[q]
    BY <1>1, <1>2
  <2>3. QED
    BY <1>1, <2>1, <2>2
<1>4. [Nowhere EXCEPT ![p] = @ + 1] = OnlyAt(p)
  <2> DEFINE g == [Nowhere EXCEPT ![p] = @ + 1]
  <2>1. g \in [Places -> Int]
    BY <1>1
  <2>2. \A q \in Places : g[q] = OnlyAt(p)[q]
    BY <1>1, <1>2
  <2>3. QED
    BY <1>1, <2>1, <2>2
<1>5. \A q \in Places : OnlyAt(p)[q] > 0 => q = p
  BY <1>2
<1>6. QED
  BY <1>1, <1>3, <1>4, <1>5

(* Homes have places. *)
LEMMA HomePlaces ==
  ASSUME NEW b \in Buffers, NEW s \in Streams
  PROVE  /\ Home[b] \in Streams
         /\ <<s, "free">> \in Places /\ <<s, "queued">> \in Places
         /\ <<Home[b], "free">> \in Places /\ <<Home[b], "queued">> \in Places
BY BuffersAssumption DEF Places

(* Streams start with their buffers free. *)
LEMMA InitInv == BuffersInit => Inv
<1> SUFFICES ASSUME BuffersInit PROVE Inv
  OBVIOUS
<1>1. \A b \in Buffers : /\ Home[b] \in Streams
                         /\ <<Home[b], "free">> \in Places
                         /\ copies[b] = OnlyAt(<<Home[b], "free">>)
  BY HomePlaces, BuffersAssumption DEF BuffersInit, OnlyAt, Places
<1>2. BuffersTypeOK
  <2>1. copies \in [Buffers -> [Places -> Nat]]
    BY DEF BuffersInit
  <2>2. via \in [Buffers -> Streams]
    BY BuffersAssumption DEF BuffersInit
  <2>3. QED
    BY <2>1, <2>2 DEF BuffersInit, BuffersTypeOK, InCall
<1>3. InOnePlace
  BY <1>1 DEF BuffersInit, InOnePlace
<1>4. QED
  BY <1>2, <1>3 DEF Inv

(* Dropping the timeline keeps the words words. *)
LEMMA DropTimelineType ==
  ASSUME BuffersTypeOK, NEW b \in Buffers, DropTimeline(b)
  PROVE  strong' \in [Buffers -> Word] /\ weak' \in [Buffers -> Word] /\ alive' \in BOOLEAN
<1>1. \A w \in Word : (w - 1) % Width \in Word
  <2>1. Width \in Nat /\ Width > 1
    BY BuffersAssumption
  <2>2. ASSUME NEW w \in Int PROVE w % Width \in 0..Width - 1
    BY <2>1
  <2>3. QED
    BY <2>1, <2>2 DEF Word
<1>2. strong' \in [Buffers -> Word]
  BY <1>1 DEF BuffersTypeOK, DropTimeline
<1>3. weak' \in [Buffers -> Word]
  BY <1>1 DEF BuffersTypeOK, DropTimeline
<1>4. alive' \in BOOLEAN
  BY DEF BuffersTypeOK, DropTimeline
<1>5. QED
  BY <1>2, <1>3, <1>4

\* The program gets hold of b, and of nothing else.
Taken(b, state) ==
  /\ held' = [held EXCEPT ![b] = state] /\ state \in InCall \cup {"buffer", "raw"}
  /\ \E s \in Streams :
       /\ copies[b][<<s, "free">>] > 0
       /\ copies' = [copies EXCEPT ![b][<<s, "free">>] = @ - 1]

\* The program had b and has queued it on s.
Given(b, s) ==
  /\ held[b] # "none" /\ held' = [held EXCEPT ![b] = "none"]
  /\ copies' = [copies EXCEPT ![b][<<s, "queued">>] = @ + 1]

(* A buffer whose row is set to one place, the others as before. *)
LEMMA RowSet ==
  ASSUME Inv, NEW b \in Buffers, NEW p \in Places,
         held' = [held EXCEPT ![b] = "none"], copies' = [copies EXCEPT ![b] = OnlyAt(p)]
  PROVE  InOnePlace'
<1> SUFFICES ASSUME NEW c \in Buffers
             PROVE  IF held'[c] = "none" THEN \E q \in Places : copies'[c] = OnlyAt(q)
                                         ELSE copies'[c] = Nowhere
  BY DEF InOnePlace, OnlyAt, Nowhere
<1>1. CASE c = b
  BY <1>1 DEF Inv, BuffersTypeOK
<1>2. CASE c # b
  BY <1>2 DEF Inv, BuffersTypeOK, InOnePlace
<1>3. QED
  BY <1>1, <1>2

(* Taking a buffer keeps each in one place. *)
LEMMA TakenInv ==
  ASSUME Inv, NEW b \in Buffers, NEW state, Taken(b, state)
  PROVE  InOnePlace' /\ copies' \in [Buffers -> [Places -> Nat]]
<1>1. PICK s \in Streams : /\ copies[b][<<s, "free">>] > 0
                           /\ copies' = [copies EXCEPT ![b][<<s, "free">>] = @ - 1]
  BY DEF Taken
<1> DEFINE p == <<s, "free">>
<1>2. p \in Places
  BY HomePlaces
<1>3. copies[b] = OnlyAt(p)
  <2>1. copies[b] # Nowhere
    BY <1>1, <1>2 DEF Nowhere
  <2>2. PICK q \in Places : copies[b] = OnlyAt(q)
    BY <2>1 DEF Inv, InOnePlace
  <2>3. QED
    BY <1>1, <1>2, <2>2, PlacesOfOne
<1> HIDE DEF p
<1>4. copies' = [copies EXCEPT ![b] = [copies[b] EXCEPT ![p] = @ - 1]]
  BY <1>1 DEF p
<1>5. copies'[b] = Nowhere
  BY <1>2, <1>3, <1>4, PlacesOfOne DEF Inv, BuffersTypeOK
<1>6. Nowhere \in [Places -> Nat]
  BY DEF Nowhere
<1>7. copies' = [copies EXCEPT ![b] = Nowhere]
  BY <1>4, <1>5 DEF Inv, BuffersTypeOK
<1>8. copies' \in [Buffers -> [Places -> Nat]]
  BY <1>6, <1>7 DEF Inv, BuffersTypeOK
<1>9. held' = [held EXCEPT ![b] = state] /\ state # "none"
  BY DEF Taken, InCall
<1>10. InOnePlace'
  BY <1>7, <1>9 DEF Inv, BuffersTypeOK, InOnePlace, OnlyAt, Nowhere
<1>11. QED
  BY <1>8, <1>10

(* Queueing a buffer that the program had keeps each in one place. *)
LEMMA GivenInv ==
  ASSUME Inv, NEW b \in Buffers, NEW s \in Streams, Given(b, s)
  PROVE  InOnePlace' /\ copies' \in [Buffers -> [Places -> Nat]]
<1> DEFINE p == <<s, "queued">>
<1>1. p \in Places
  BY HomePlaces
<1>2. copies[b] = Nowhere
  BY DEF Inv, InOnePlace, Given
<1>3. copies' = [copies EXCEPT ![b] = [copies[b] EXCEPT ![p] = @ + 1]]
  BY DEF Given
<1> HIDE DEF p
<1>4. copies' = [copies EXCEPT ![b] = OnlyAt(p)]
  BY <1>1, <1>2, <1>3, PlacesOfOne
<1>5. OnlyAt(p) \in [Places -> Nat]
  BY <1>1, PlacesOfOne
<1>6. copies' \in [Buffers -> [Places -> Nat]]
  BY <1>4, <1>5 DEF Inv, BuffersTypeOK
<1>7. held' = [held EXCEPT ![b] = "none"]
  BY DEF Given
<1>8. InOnePlace'
  BY <1>1, <1>4, <1>7, RowSet
<1>9. QED
  BY <1>6, <1>8

(* The way of a queued buffer through the graph keeps each in one place. *)
LEMMA CycleInv ==
  ASSUME Inv, NEW b \in Buffers, Cycle(b)
  PROVE  InOnePlace' /\ copies' \in [Buffers -> [Places -> Nat]]
<1> DEFINE q == <<Home[b], "queued">>
           f == <<Home[b], "free">>
<1>1. q \in Places /\ f \in Places /\ q # f
  BY HomePlaces, BuffersAssumption
<1>2. /\ copies[b][q] > 0
      /\ copies' = [[copies EXCEPT ![b][q] = @ - 1] EXCEPT ![b][f] = @ + 1]
      /\ held' = held
  BY DEF Cycle, calls
<1> HIDE DEF q, f
<1>3. held[b] = "none" /\ copies[b] = OnlyAt(q)
  <2>1. copies[b] # Nowhere
    BY <1>1, <1>2 DEF Nowhere
  <2>2. held[b] = "none" /\ \E r \in Places : copies[b] = OnlyAt(r)
    BY <2>1 DEF Inv, InOnePlace
  <2>3. QED
    BY <1>1, <1>2, <2>2, PlacesOfOne
<1>4. copies' = [copies EXCEPT ![b] = OnlyAt(f)]
  <2> DEFINE g == [copies EXCEPT ![b][q] = @ - 1]
  <2>1. g = [copies EXCEPT ![b] = Nowhere]
    <3>1. g = [copies EXCEPT ![b] = [copies[b] EXCEPT ![q] = @ - 1]]
      OBVIOUS
    <3>2. QED
      BY <1>1, <1>3, <3>1, PlacesOfOne
  <2>2. g[b] = Nowhere
    BY <2>1 DEF Inv, BuffersTypeOK
  <2>3. copies' = [g EXCEPT ![b] = [g[b] EXCEPT ![f] = @ + 1]]
    BY <1>2
  <2> HIDE DEF g
  <2>4. copies' = [g EXCEPT ![b] = OnlyAt(f)]
    BY <1>1, <2>2, <2>3, PlacesOfOne
  <2>5. QED
    BY <2>1, <2>4 DEF Inv, BuffersTypeOK
<1>5. OnlyAt(f) \in [Places -> Nat]
  BY <1>1, PlacesOfOne
<1>6. copies' \in [Buffers -> [Places -> Nat]]
  BY <1>4, <1>5 DEF Inv, BuffersTypeOK
<1>7. held' = [held EXCEPT ![b] = "none"]
  BY <1>2, <1>3 DEF Inv, BuffersTypeOK
<1>8. InOnePlace'
  BY <1>1, <1>4, <1>7, RowSet
<1>9. QED
  BY <1>6, <1>8

\* What BuffersTypeOK says of everything but copies.
RestOK ==
  /\ held \in [Buffers -> InCall \cup {"none", "buffer", "raw"}]
  /\ via \in [Buffers -> Streams]
  /\ late \in [Buffers -> BOOLEAN]
  /\ point \in [Buffers -> {0, 1}] /\ signalled \in [Buffers -> BOOLEAN]
  /\ strong \in [Buffers -> Word] /\ weak \in [Buffers -> Word]
  /\ alive \in BOOLEAN

(* Every step on one buffer keeps the rest of the state in shape. *)
LEMMA StepRest ==
  ASSUME Inv, NEW b \in Buffers,
         \/ Dequeue(b) \/ DequeueRaw(b) \/ DequeueWithSync(b)
         \/ TimePasses(b) \/ Poll(b) \/ Cancel(b)
         \/ Drop(b) \/ QueueRaw(b)
         \/ \E s \in Streams, method \in {"queueing", "customising"} : Call(b, s, method)
         \/ Cycle(b) \/ Signal(b)
  PROVE  RestOK'
<1> USE DEF Inv, BuffersTypeOK, RestOK, InCall, Become, timeline, memory, calls
<1>1. CASE Dequeue(b) \/ DequeueRaw(b) \/ DequeueWithSync(b)
  BY <1>1 DEF Dequeue, DequeueRaw, DequeueWithSync, DequeueAs
<1>2. CASE TimePasses(b) \/ Cycle(b) \/ Signal(b)
  BY <1>2 DEF TimePasses, Cycle, Signal
<1>3. CASE Obtain(b) \/ TimesOut(b)
  BY <1>3, DropTimelineType DEF Obtain, TimesOut
<1>4. CASE QueueSynced(b) \/ QueueSyncFails(b)
  BY <1>4, DropTimelineType DEF QueueSynced, QueueSyncFails
<1>5. CASE QueueCustom(b)
  BY <1>5, DropTimelineType DEF QueueCustom
<1>6. CASE CustomRefused(b) \/ CustomSyncFails(b)
  BY <1>6, DropTimelineType DEF CustomRefused, CustomSyncFails
<1>7. CASE Cancel(b)
  BY <1>7, DropTimelineType DEF Cancel
<1>8. CASE Drop(b) \/ QueueRaw(b)
  BY <1>8 DEF Drop, QueueRaw
<1>9. CASE \E s \in Streams, method \in {"queueing", "customising"} : Call(b, s, method)
  BY <1>9 DEF Call
<1>10. QED
  BY <1>1, <1>2, <1>3, <1>4, <1>5, <1>6, <1>7, <1>8, <1>9 DEF Poll

(* Every step on one buffer keeps each in one place. *)
LEMMA StepPlace ==
  ASSUME Inv, NEW b \in Buffers,
         \/ Dequeue(b) \/ DequeueRaw(b) \/ DequeueWithSync(b)
         \/ TimePasses(b) \/ Poll(b) \/ Cancel(b)
         \/ Drop(b) \/ QueueRaw(b)
         \/ \E s \in Streams, method \in {"queueing", "customising"} : Call(b, s, method)
         \/ Cycle(b) \/ Signal(b)
  PROVE  InOnePlace' /\ copies' \in [Buffers -> [Places -> Nat]]
<1>1. CASE Dequeue(b) \/ DequeueRaw(b) \/ DequeueWithSync(b)
  <2>1. \E state : Taken(b, state)
    BY <1>1 DEF Dequeue, DequeueRaw, DequeueWithSync, DequeueAs, Become, Taken, InCall
  <2>2. QED
    BY <2>1, TakenInv
<1>2. CASE \E s \in Streams : Given(b, s)
  BY <1>2, GivenInv
<1>3. CASE /\ copies' = copies /\ held[b] # "none"
           /\ \E state \in InCall \cup {"buffer"} : held' = [held EXCEPT ![b] = state]
  BY <1>3 DEF Inv, BuffersTypeOK, InOnePlace, InCall, Nowhere, OnlyAt
<1>4. CASE copies' = copies /\ held' = held
  BY <1>4 DEF Inv, BuffersTypeOK, InOnePlace, Nowhere, OnlyAt
<1>5. CASE Cycle(b)
  BY <1>5, CycleInv
<1>6. TimePasses(b) \/ Signal(b) => copies' = copies /\ held' = held
  BY DEF TimePasses, Signal, calls
<1>7. Obtain(b) \/ (\E s \in Streams, method \in {"queueing", "customising"} : Call(b, s, method))
      => /\ copies' = copies /\ held[b] # "none"
         /\ \E state \in InCall \cup {"buffer"} : held' = [held EXCEPT ![b] = state]
  BY DEF Obtain, Call, Become, InCall
<1>8. TimesOut(b) \/ QueueSyncFails(b) \/ CustomRefused(b) \/ CustomSyncFails(b)
      \/ Cancel(b) \/ Drop(b) \/ QueueRaw(b) => Given(b, Home[b])
  BY DEF TimesOut, QueueSyncFails, CustomRefused, CustomSyncFails, Cancel, Drop, QueueRaw,
         DropBuffer, Queue, Become, Given
<1>9. QueueSynced(b) \/ QueueCustom(b) => Given(b, via[b])
  BY DEF QueueSynced, QueueCustom, Queue, Become, Given
<1>10. Home[b] \in Streams /\ via[b] \in Streams
  BY BuffersAssumption DEF Inv, BuffersTypeOK
<1>11. QED
  BY <1>1, <1>2, <1>3, <1>4, <1>5, <1>6, <1>7, <1>8, <1>9, <1>10 DEF Poll

(* Type correctness and placement are inductive, for any buffers and streams. *)
THEOREM Inductive == BuffersSpec => []Inv
<1>1. Inv /\ [BuffersNext]_bufferVars => Inv'
  <2> SUFFICES ASSUME Inv, [BuffersNext]_bufferVars PROVE Inv'
    OBVIOUS
  <2>1. CASE BuffersNext
    <3>1. PICK b \in Buffers :
            \/ Dequeue(b) \/ DequeueRaw(b) \/ DequeueWithSync(b)
            \/ TimePasses(b) \/ Poll(b) \/ Cancel(b)
            \/ Drop(b) \/ QueueRaw(b)
            \/ \E s \in Streams, method \in {"queueing", "customising"} : Call(b, s, method)
            \/ Cycle(b) \/ Signal(b)
      BY <2>1 DEF BuffersNext
    <3>2. RestOK'
      BY <3>1, StepRest
    <3>3. InOnePlace' /\ copies' \in [Buffers -> [Places -> Nat]]
      BY <3>1, StepPlace
    <3>4. QED
      BY <3>2, <3>3 DEF Inv, BuffersTypeOK, RestOK
  <2>2. CASE UNCHANGED bufferVars
    BY <2>2 DEF bufferVars, calls, timeline, memory, Inv, BuffersTypeOK, InOnePlace, Nowhere, OnlyAt
  <2>3. QED
    BY <2>1, <2>2
<1>2. QED
  BY <1>1, InitInv, PTL DEF BuffersSpec

(* The state keeps its shape. *)
THEOREM Typing == BuffersSpec => []BuffersTypeOK
<1>1. Inv => BuffersTypeOK
  BY DEF Inv
<1>2. QED
  BY <1>1, Inductive, PTL

(* A buffer that is in a queue is in one of its own stream, and is on its way
   to no other. *)
AtHome ==
  \A c \in Buffers :
    via[c] = Home[c] /\ \A p \in Places : copies[c][p] > 0 => p[1] = Home[c]

LEMMA StepHome ==
  ASSUME Inv, AtHome, ~Mixed, [BuffersNext]_bufferVars
  PROVE  AtHome'
<1> SUFFICES ASSUME NEW c \in Buffers
             PROVE  via'[c] = Home[c] /\ \A p \in Places : copies'[c][p] > 0 => p[1] = Home[c]
  BY DEF AtHome
<1>1. /\ via[c] = Home[c] /\ \A p \in Places : copies[c][p] > 0 => p[1] = Home[c]
      /\ via \in [Buffers -> Streams] /\ copies \in [Buffers -> [Places -> Nat]]
  BY DEF AtHome, Inv, BuffersTypeOK
<1>2. CASE UNCHANGED bufferVars
  BY <1>1, <1>2 DEF bufferVars, calls
<1>3. CASE BuffersNext
  <2>1. PICK b \in Buffers :
          \/ Dequeue(b) \/ DequeueRaw(b) \/ DequeueWithSync(b)
          \/ TimePasses(b) \/ Poll(b) \/ Cancel(b)
          \/ Drop(b) \/ QueueRaw(b)
          \/ \E s \in Streams, method \in {"queueing", "customising"} : Call(b, s, method)
          \/ Cycle(b) \/ Signal(b)
    BY <1>3 DEF BuffersNext
  <2>2. \A s \in Streams : <<s, "queued">> \in Places /\ <<s, "free">> \in Places
    BY DEF Places
  <2>3. via[b] = Home[b] /\ Home[b] \in Streams
    BY BuffersAssumption DEF AtHome
  <2>4. CASE Dequeue(b) \/ DequeueRaw(b) \/ DequeueWithSync(b)
    <3>1. PICK s \in Streams : /\ copies' = [copies EXCEPT ![b][<<s, "free">>] = @ - 1]
                               /\ copies[b][<<s, "free">>] > 0 /\ via' = via
      BY <2>4 DEF Dequeue, DequeueRaw, DequeueWithSync, DequeueAs
    <3>2. \A p \in Places : copies'[c][p] > 0 => copies[c][p] > 0
      BY <1>1, <2>2, <3>1
    <3> QED
      BY <1>1, <3>1, <3>2
  <2>5. CASE Queue(Home[b], b) /\ via' = via
    <3>1. PICK q : q = <<Home[b], "queued">>
      OBVIOUS
    <3>2. q \in Places /\ q[1] = Home[b]
      BY <2>2, <2>3, <3>1
    <3>3. copies' = [copies EXCEPT ![b][q] = @ + 1]
      BY <2>5, <3>1 DEF Queue
    <3>4. \A p \in Places : copies'[c][p] > 0 => copies[c][p] > 0 \/ (c = b /\ p = q)
      BY <1>1, <3>2, <3>3
    <3> QED
      BY <1>1, <2>5, <3>2, <3>4
  <2>6. TimesOut(b) \/ QueueSynced(b) \/ QueueSyncFails(b) \/ QueueCustom(b)
        \/ CustomRefused(b) \/ CustomSyncFails(b) \/ Cancel(b) \/ Drop(b) \/ QueueRaw(b)
          => Queue(Home[b], b) /\ via' = via
    BY <2>3 DEF TimesOut, QueueSynced, QueueSyncFails, QueueCustom, CustomRefused,
                CustomSyncFails, Cancel, Drop, QueueRaw, DropBuffer, Queue
  <2>7. CASE copies' = copies /\ via' = via
    BY <1>1, <2>7
  <2>8. TimePasses(b) \/ Obtain(b) \/ Signal(b) => copies' = copies /\ via' = via
    BY DEF TimePasses, Obtain, Signal, calls
  <2>9. CASE \E s \in Streams, method \in {"queueing", "customising"} : Call(b, s, method)
    BY <1>1, <2>9 DEF Call
  <2>10. CASE Cycle(b)
    <3>1. PICK q, f : q = <<Home[b], "queued">> /\ f = <<Home[b], "free">>
      OBVIOUS
    <3>2. q \in Places /\ f \in Places /\ f[1] = Home[b]
      BY <2>2, <2>3, <3>1
    <3>3. copies' = [copies EXCEPT ![b][q] = @ - 1, ![b][f] = @ + 1] /\ via' = via
      BY <2>10, <3>1 DEF Cycle, calls
    <3>4. \A p \in Places : copies'[c][p] > 0 => copies[c][p] > 0 \/ (c = b /\ p = f)
      BY <1>1, <3>2, <3>3
    <3> QED
      BY <1>1, <3>2, <3>3, <3>4
  <2> QED
    BY <2>1, <2>4, <2>5, <2>6, <2>7, <2>8, <2>9, <2>10 DEF Poll
<1> QED
  BY <1>2, <1>3

LEMMA InitHome == BuffersInit => AtHome
<1> SUFFICES ASSUME BuffersInit, NEW c \in Buffers
             PROVE  via[c] = Home[c] /\ \A p \in Places : copies[c][p] > 0 => p[1] = Home[c]
  BY DEF AtHome
<1>1. \A p \in Places : copies[c][p] > 0 => p = <<Home[c], "free">>
  BY DEF BuffersInit
<1> QED
  BY <1>1 DEF BuffersInit

(* Whatever fails or is cancelled: a buffer is in one place, once, and unless a
   program gives it to another stream's methods that place is its own stream's. *)
THEOREM OnePlace == ~Mixed /\ BuffersSpec => []ExactlyOnePlace
<1> SUFFICES ASSUME ~Mixed PROVE BuffersSpec => []ExactlyOnePlace
  OBVIOUS
<1>1. BuffersInit => AtHome
  BY InitHome
<1>2. Inv /\ AtHome /\ [BuffersNext]_bufferVars => AtHome'
  BY StepHome
<1>3. ASSUME Inv, AtHome PROVE ExactlyOnePlace
  <2> SUFFICES ASSUME NEW b \in Buffers, held[b] = "none"
               PROVE  \E queue \in {"free", "queued"} : copies[b] = OnlyAt(<<Home[b], queue>>)
    BY <1>3 DEF Inv, InOnePlace, ExactlyOnePlace
  <2>1. PICK place \in Places : copies[b] = OnlyAt(place)
    BY <1>3 DEF Inv, InOnePlace
  <2>2. copies[b][place] = 1
    BY <2>1 DEF OnlyAt
  <2>3. place[1] = Home[b]
    BY <1>3, <2>2 DEF AtHome
  <2>4. PICK s \in Streams, queue \in {"free", "queued"} : place = <<s, queue>>
    BY DEF Places
  <2> QED
    BY <2>1, <2>3, <2>4
<1> QED
  BY <1>1, <1>2, <1>3, Inductive, PTL DEF BuffersSpec
==============================================================================
