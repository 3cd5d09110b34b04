-------------------------- MODULE PodFramesProofs ---------------------------
(***************************************************************************)
(* For any body sizes, any Vec and any nesting: the header of each pod     *)
(* that a Builder has finished is in the Vec and gives the pod's length,   *)
(* and what a Parser or an iterator finds by going from header to header   *)
(* is what was built, each pod once and at its depth.                      *)
(*                                                                         *)
(* HeadersWritten is not inductive by itself.  A pop writes over a header: *)
(* that this is never the header of a finished pod is what Apart says,     *)
(* that it gives the right length is what Counting says, and that it lands *)
(* in the Vec, wherever the overflow callback has put that, InReach.       *)
(*                                                                         *)
(* What readers rely on is Layout: the top level, each open frame and each *)
(* finished struct, object and sequence is filled by its children, without *)
(* a gap and without an overlap, so that behind each child the next begins *)
(* or all ends.  A reader's position is then carried from child to child:  *)
(* Stands for the parser, with OpenedWithin, which says that a parser that *)
(* can go on is in structs only, and Yields for the iterators.             *)
(***************************************************************************)
EXTENDS PodFrames, FiniteSetTheorems, TLAPS

(* The builder knows where its Vec is, and has written no further. *)
InReach == size = len /\ data = home /\ offset <= len

(* What each open frame has counted ends at the offset. *)
Counting == \A i \in 1..Depth : /\ frames[i].at + 8 + frames[i].size = offset
                                /\ Padding(frames[i].size) = 0

(* Finished pods lie before the offset and are not open frames, of which *)
(* each has its own place.                                               *)
Apart == /\ \A e \in extents : e.at < offset /\ e.to <= offset
         /\ \A e \in extents : \A i \in 1..Depth : e.at # frames[i].at
         /\ \A i, j \in 1..Depth : i # j => frames[i].at # frames[j].at

Inv == BuilderTypeOK /\ InReach /\ Counting /\ Apart /\ HeadersWritten

------------------------------------------------------------------------------
(* How pods lie in the Vec *)

(* The length of what is in front of a kind's children, and of what is in *)
(* front of each of them.                                                 *)
HeadOf(kind) == IF kind = "struct" THEN 8 ELSE 16
KeyOf(kind) == IF kind = "struct" THEN 0 ELSE 8

(* The open frames, as if the Vec were a struct's body: where they begin, *)
(* what they are, and where what is finished in them ends.                *)
At(i) == IF i = 0 THEN -8 ELSE frames[i].at
Kind(i) == IF i = 0 THEN "struct" ELSE frames[i].kind
Limit(i) == IF i < Depth THEN frames[i + 1].at - KeyOf(Kind(i))
            ELSE IF i > 0 /\ frames[i].keyed THEN offset - 8 ELSE offset

(* Of the extents E, the children of what lies at a depth between two *)
(* places, and that they fill it: behind the head and behind each of  *)
(* them is the end, or the next one behind its key.                   *)
Children(E, at, depth, to) == {c \in E : c.depth = depth + 1 /\ at < c.at /\ c.to <= to}

Filled(E, kind, at, depth, to) ==
  LET C == Children(E, at, depth, to)
      first == at + HeadOf(kind)
      step == KeyOf(kind)
  IN /\ \A x \in {first} \cup {c.to : c \in C} : x = to \/ \E c \in C : c.at = x + step
     /\ \A c \in C : first + step <= c.at
     /\ \A c, d \in C : c = d \/ c.to + step <= d.at \/ d.to + step <= c.at

(* There are headers where pods or open frames begin, nowhere else. *)
HeadersKnown == DOMAIN headers = {e.at : e \in extents} \cup {frames[i].at : i \in 1..Depth}

(* Only the innermost frame waits for a value, and it is no struct. *)
KeysPending == \A i \in 1..Depth : frames[i].keyed => i = Depth /\ frames[i].kind # "struct"

(* Frames begin one behind the other, each behind the head of the last. *)
Ordered == /\ \A i \in 0..Depth : At(i) + HeadOf(Kind(i)) <= Limit(i)
           /\ \A i, j \in 1..Depth : i < j => frames[i].at < frames[j].at

(* Finished pods end before what is still to come, and reach into no open *)
(* frame and no finished pod that they do not lie in.                     *)
Behind == /\ \A e \in extents : e.depth <= Depth => e.to <= Limit(e.depth)
          /\ \A e \in extents : \A i \in 1..Depth : e.at < frames[i].at => e.to <= frames[i].at
          /\ \A e, f \in extents : f.at <= e.at /\ e.at < f.to => e.to <= f.to

(* An open frame is filled as far as it goes, and has counted its children, *)
(* the open one among them.                                                 *)
FilledSoFar(i) ==
  /\ Filled(extents, Kind(i), At(i), i - 1, Limit(i))
  /\ i > 0 => frames[i].count = Cardinality(Children(extents, At(i), i - 1, Limit(i)))
                                + (IF i < Depth THEN 1 ELSE 0)

(* A finished struct, object or sequence is filled by the children it has *)
(* counted, and has no padding.                                           *)
Whole(e) ==
  headers[e.at].type # "leaf" =>
    /\ Padding(headers[e.at].size) = 0
    /\ Filled(extents, headers[e.at].type, e.at, e.depth, e.to)
    /\ e.count = Cardinality(Children(extents, e.at, e.depth, e.to))

Layout == /\ IsFiniteSet(extents)
          /\ HeadersKnown /\ KeysPending /\ Ordered /\ Behind
          /\ \A i \in 0..Depth : FilledSoFar(i)
          /\ \A e \in extents : Whole(e)

------------------------------------------------------------------------------
(* Where readers are *)

ends(f) == f.at + 8 + f.size
Opened == [at : Nat, size : Nat, arm : BOOLEAN, alive : BOOLEAN]

ReaderTypeOK ==
  /\ reading \in {"no", "parser", "views"}
  /\ total \in Nat /\ cursor \in Nat
  /\ opened \in Seq(Opened)
  /\ view \in [at : Nat, next : Nat, yielded : Nat, over : BOOLEAN]

(* The Vec is read once the Builder is gone, by one kind of reader. *)
ReadAfter ==
  /\ reading = "no" => cursor = 0
  /\ reading # "no" => frames = <<>> /\ extents # {}
  /\ reading # "parser" => opened = <<>>
  /\ reading # "views" => view = Views!NoView
  /\ reading = "views" => as_bytes + Padding(headers[0].size) <= total

(* All of the parser's frames lie in what it reads, and all but the *)
(* innermost are structs.  The parser is behind the head of that, and, when *)
(* that is no struct, behind everything.                                    *)
OpenedWithin ==
  /\ \A i \in 1..Len(opened) : ends(opened[i]) <= total
  /\ \A i \in 1..(Len(opened) - 1) : headers[opened[i].at].type = "struct"
  /\ opened # <<>> =>
       LET inner == opened[Len(opened)]
       IN  inner.at < cursor /\ (headers[inner.at].type = "struct" \/ cursor = total)

(* InStep, of frames that are gone too. *)
Stands ==
  reading = "parser" =>
    \/ \E e \in Built(cursor, Len(opened)) : opened # <<>> => e.to <= ends(opened[Len(opened)])
    \/ IF opened = <<>> THEN cursor = offset
       ELSE cursor \in {ends(opened[Len(opened)]), total}

(* The iterator stands where the children that it has not yielded begin. *)
Yielded(e) ==
  /\ e.at = view.at /\ e.to <= total /\ headers[e.at].type \in {"struct", "object"}
  /\ view.next <= e.to
  /\ view.yielded = Cardinality({c \in Children(extents, e.at, e.depth, e.to) : c.to <= view.next})
  /\ \/ view.next = e.to
     \/ /\ ~view.over
        /\ \E c \in Children(extents, e.at, e.depth, e.to) : c.at = view.next + Views!Key

Yields == view # Views!NoView => \E e \in extents : Yielded(e)

RInv == /\ Inv /\ Layout
        /\ ReaderTypeOK /\ ReadAfter /\ OpenedWithin /\ FramesNested /\ Stands /\ Yields

------------------------------------------------------------------------------
(* Lengths *)

(* A pod with its padding is a multiple of eight long. *)
LEMMA PaddedPod ==
  ASSUME NEW n \in Nat
  PROVE  Padding(n) \in Nat /\ Padding(8 + n + Padding(n)) = 0
BY DEF Padding

LEMMA PaddingAdds ==
  ASSUME NEW m \in Nat, NEW n \in Nat, Padding(m) = 0, Padding(n) = 0
  PROVE  Padding(m + n) = 0
BY DEF Padding

LEMMA Heads == Padding(0) = 0 /\ Padding(8) = 0 /\ Padding(16) = 0
BY DEF Padding

------------------------------------------------------------------------------
(* The parts of a call *)

(* Bytes are written where the Vec is, which may have moved. *)
LEMMA RawReaches ==
  ASSUME Inv, NEW n \in Nat, Raw(n)
  PROVE  /\ offset' = offset + n /\ offset' \in 0..Capacity
         /\ InReach' /\ len <= len'
         /\ len' \in 0..Capacity /\ size' \in 0..Capacity
         /\ home' \in {0, 1} /\ data' \in {0, 1}
BY BuilderAssumption DEF Inv, BuilderTypeOK, InReach, Raw, Overflow, vector

(* Every open frame counts them. *)
LEMMA FrameCounts ==
  ASSUME NEW f \in Frame, NEW n \in Nat
  PROVE  LET g == [f EXCEPT !.size = @ + n]
         IN  /\ g \in Frame /\ g.at = f.at /\ g.size = f.size + n /\ g.count = f.count
             /\ g.kind = f.kind /\ g.keyed = f.keyed
<1>1. f.size + n \in Nat
  BY DEF Frame
<1> QED
  BY <1>1 DEF Frame

LEMMA FrameGetsChild ==
  ASSUME NEW f \in Frame
  PROVE  LET g == [f EXCEPT !.keyed = FALSE, !.count = @ + 1]
         IN  /\ g \in Frame /\ g.at = f.at /\ g.size = f.size /\ g.count = f.count + 1
             /\ g.kind = f.kind /\ ~g.keyed
<1>1. f.count + 1 \in Nat
  BY DEF Frame
<1> QED
  BY <1>1 DEF Frame

LEMMA FrameKeyed ==
  ASSUME NEW f \in Frame
  PROVE  LET g == [f EXCEPT !.keyed = TRUE]
         IN  /\ g \in Frame /\ g.at = f.at /\ g.size = f.size /\ g.count = f.count
             /\ g.kind = f.kind /\ g.keyed
BY DEF Frame

LEMMA CountedShape ==
  ASSUME Inv, NEW n \in Nat
  PROVE  /\ Counted(n) \in Seq(Frame) /\ Len(Counted(n)) = Depth
         /\ \A i \in 1..Depth : /\ Counted(n)[i].at = frames[i].at
                                /\ Counted(n)[i].size = frames[i].size + n
                                /\ Counted(n)[i].kind = frames[i].kind
                                /\ Counted(n)[i].keyed = frames[i].keyed
                                /\ Counted(n)[i].count = frames[i].count
<1>1. Depth \in Nat /\ \A i \in 1..Depth : frames[i] \in Frame
  BY DEF Inv, BuilderTypeOK, Depth
<1> DEFINE g(i) == [frames[i] EXCEPT !.size = @ + n]
<1>2. \A i \in 1..Depth : /\ g(i) \in Frame /\ g(i).at = frames[i].at
                           /\ g(i).size = frames[i].size + n
                           /\ g(i).kind = frames[i].kind /\ g(i).keyed = frames[i].keyed
                           /\ g(i).count = frames[i].count
  BY <1>1, FrameCounts
<1>3. Counted(n) = [i \in 1..Depth |-> g(i)]
  BY DEF Counted
<1> HIDE DEF g
<1> QED
  BY <1>1, <1>2, <1>3

LEMMA ParentsShape ==
  ASSUME Inv, NEW n \in Nat
  PROVE  /\ Parents(n) \in Seq(Frame) /\ Len(Parents(n)) = Depth
         /\ \A i \in 1..Depth : /\ Parents(n)[i].at = frames[i].at
                                /\ Parents(n)[i].size = frames[i].size + n
                                /\ Parents(n)[i].kind = frames[i].kind
         /\ \A i \in 1..Depth :
              IF i = Depth
              THEN ~Parents(n)[i].keyed /\ Parents(n)[i].count = frames[i].count + 1
              ELSE /\ Parents(n)[i].keyed = frames[i].keyed
                   /\ Parents(n)[i].count = frames[i].count
<1>1. CASE frames = <<>>
  BY <1>1 DEF Parents, Inv, BuilderTypeOK, Depth
<1>2. CASE frames # <<>>
  <2> DEFINE c == Counted(n)
             top == [c[Depth] EXCEPT !.keyed = FALSE, !.count = @ + 1]
  <2>1. Depth \in 1..Depth
    BY <1>2 DEF Inv, BuilderTypeOK, Depth
  <2>2. /\ c \in Seq(Frame) /\ Len(c) = Depth
        /\ \A i \in 1..Depth : /\ c[i].at = frames[i].at /\ c[i].size = frames[i].size + n
                               /\ c[i].kind = frames[i].kind /\ c[i].keyed = frames[i].keyed
                               /\ c[i].count = frames[i].count
    BY CountedShape
  <2>3. Parents(n) = [c EXCEPT ![Depth].keyed = FALSE, ![Depth].count = @ + 1]
    BY <1>2 DEF Parents
  <2> HIDE DEF c
  <2>4. c[Depth] \in Frame
    BY <2>1, <2>2
  <2>5. /\ top \in Frame /\ top.at = c[Depth].at /\ top.size = c[Depth].size
        /\ top.kind = c[Depth].kind /\ ~top.keyed /\ top.count = c[Depth].count + 1
    BY <2>4, FrameGetsChild
  <2>6. Parents(n) = [c EXCEPT ![Depth] = top]
    BY <2>1, <2>2, <2>3, <2>4 DEF Frame
  <2> HIDE DEF top
  <2> QED
    BY <2>1, <2>2, <2>5, <2>6
<1> QED
  BY <1>1, <1>2

(* A header that is written is the only one that changes. *)
LEMMA StoreShape ==
  ASSUME Inv, InReach', NEW at \in 0..Capacity, NEW type \in Kinds \cup {"leaf"}, NEW n \in Nat,
         Store(at, type, n)
  PROVE  /\ DOMAIN headers' = DOMAIN headers \cup {at}
         /\ headers'[at] = [type |-> type, size |-> n]
         /\ \A x \in DOMAIN headers : x # at => headers'[x] = headers[x]
         /\ DOMAIN headers' \subseteq 0..Capacity
         /\ \A x \in DOMAIN headers' :
              headers'[x] \in [type : Kinds \cup {"leaf"}, size : Nat]
<1>1. headers' = [x \in DOMAIN headers \cup {at} |->
                    IF x = at THEN [type |-> type, size |-> n] ELSE headers[x]]
  BY DEF Store, InReach
<1>2. /\ DOMAIN headers' = DOMAIN headers \cup {at}
      /\ headers'[at] = [type |-> type, size |-> n]
      /\ \A x \in DOMAIN headers : x # at => headers'[x] = headers[x]
  BY <1>1
<1> QED
  BY <1>2 DEF Inv, BuilderTypeOK

(* Frames that count n bytes, of which the offset moves by as many. *)
LEMMA CountingOn ==
  ASSUME Inv, NEW n \in Nat, Padding(n) = 0, offset' = offset + n,
         Len(frames') = Depth,
         \A i \in 1..Depth : /\ frames'[i].at = frames[i].at
                             /\ frames'[i].size = frames[i].size + n
  PROVE  /\ Counting'
         /\ \A i, j \in 1..Depth : i # j => frames'[i].at # frames'[j].at
<1>1. offset \in Nat /\ Depth' = Depth
  BY DEF Inv, BuilderTypeOK, Depth
<1>2. \A i \in 1..Depth : frames[i].at \in Nat /\ frames[i].size \in Nat
  <2>1. \A i \in 1..Depth : frames[i] \in Frame
    BY DEF Inv, BuilderTypeOK, Depth
  <2> QED
    BY <2>1 DEF Frame
<1>3. ASSUME NEW i \in 1..Depth
      PROVE  frames'[i].at + 8 + frames'[i].size = offset'
  <2>1. /\ frames[i].at \in Nat /\ frames[i].size \in Nat
        /\ frames[i].at + 8 + frames[i].size = offset
    BY <1>2 DEF Inv, Counting
  <2>2. frames'[i].at = frames[i].at /\ frames'[i].size = frames[i].size + n
    OBVIOUS
  <2>3. n \in Nat /\ offset' = offset + n
    OBVIOUS
  <2>4. \A a, b, c \in Nat : a + 8 + (b + c) = (a + 8 + b) + c
    OBVIOUS
  <2>5. frames[i].at + 8 + (frames[i].size + n) = offset + n
    BY <2>1, <2>3, <2>4
  <2> QED
    BY <2>2, <2>3, <2>5
<1>4. ASSUME NEW i \in 1..Depth
      PROVE  Padding(frames'[i].size) = 0
  <2>1. Padding(frames[i].size) = 0 /\ frames[i].size \in Nat
    BY <1>2 DEF Inv, Counting
  <2> QED
    BY <2>1, PaddingAdds
<1>5. Counting'
  <2>1. \A i \in 1..Depth' : /\ frames'[i].at + 8 + frames'[i].size = offset'
                             /\ Padding(frames'[i].size) = 0
    BY <1>1, <1>3, <1>4
  <2> QED
    BY <2>1 DEF Counting, Padding
<1> QED
  BY <1>5 DEF Inv, Apart

(* A header written at the offset leaves those of finished pods alone. *)
LEMMA OthersKept ==
  ASSUME Inv, InReach', len <= len', len' \in 0..Capacity,
         NEW type \in Kinds \cup {"leaf"}, NEW n \in Nat,
         Store(offset, type, n)
  PROVE  \A e \in extents :
           /\ e.to <= len' /\ e.at \in DOMAIN headers'
           /\ e.to - e.at = 8 + headers'[e.at].size + Padding(headers'[e.at].size)
<1>1. TAKE e \in extents
<1>2. offset \in 0..Capacity /\ len \in 0..Capacity
  BY DEF Inv, BuilderTypeOK
<1>3. e.at \in 0..Capacity /\ e.to \in 0..Capacity /\ e.at < offset
  BY DEF Inv, BuilderTypeOK, Apart
<1>4. /\ e.to <= len /\ e.at \in DOMAIN headers
      /\ e.to - e.at = 8 + headers[e.at].size + Padding(headers[e.at].size)
  BY DEF Inv, HeadersWritten
<1>5. /\ DOMAIN headers' = DOMAIN headers \cup {offset}
      /\ \A x \in DOMAIN headers : x # offset => headers'[x] = headers[x]
  BY <1>2, StoreShape
<1>6. e.at \in DOMAIN headers' /\ headers'[e.at] = headers[e.at]
  BY <1>2, <1>3, <1>4, <1>5
<1> QED
  BY <1>2, <1>3, <1>4, <1>6, BuilderAssumption

(* The same for what Apart says. *)
LEMMA OthersBefore ==
  ASSUME Inv, NEW n \in Nat, offset' = offset + n
  PROVE  \A e \in extents : e.at < offset' /\ e.to <= offset' /\ e.at # offset
<1>1. TAKE e \in extents
<1>2. e.at \in 0..Capacity /\ e.to \in 0..Capacity /\ offset \in 0..Capacity
  BY DEF Inv, BuilderTypeOK
<1>3. e.at < offset /\ e.to <= offset
  BY DEF Inv, Apart
<1> QED
  BY <1>2, <1>3, BuilderAssumption

------------------------------------------------------------------------------
(* The calls *)

LEMMA AddWholeKeeps ==
  ASSUME Inv, NEW n \in LeafSizes, AddWhole(n)
  PROVE  Inv'
<1> DEFINE k == 8 + n + Padding(n)
<1>1. n \in Nat /\ k \in Nat /\ k > 0 /\ Padding(k) = 0 /\ Padding(n) \in Nat
  BY PaddedPod, BuilderAssumption
<1>2. /\ Raw(k) /\ Store(offset, "leaf", n) /\ frames' = Parents(k)
      /\ extents' = extents \cup {[at |-> offset, to |-> offset', depth |-> Depth, count |-> 0]}
  BY DEF AddWhole, Finished
<1> HIDE DEF k
<1>3. /\ offset' = offset + k /\ offset' \in 0..Capacity /\ InReach' /\ len <= len'
      /\ len' \in 0..Capacity /\ size' \in 0..Capacity /\ home' \in {0, 1} /\ data' \in {0, 1}
  BY <1>1, <1>2, RawReaches
<1>4. offset \in 0..Capacity /\ Depth \in Nat
  BY DEF Inv, BuilderTypeOK, Depth
<1>5. /\ frames' \in Seq(Frame) /\ Len(frames') = Depth
      /\ \A i \in 1..Depth : /\ frames'[i].at = frames[i].at
                             /\ frames'[i].size = frames[i].size + k
  BY <1>1, <1>2, ParentsShape
<1>6. /\ DOMAIN headers' \subseteq 0..Capacity
      /\ \A x \in DOMAIN headers' : headers'[x] \in [type : Kinds \cup {"leaf"}, size : Nat]
      /\ offset \in DOMAIN headers' /\ headers'[offset].size = n
  <2>1. "leaf" \in Kinds \cup {"leaf"}
    OBVIOUS
  <2>2. /\ DOMAIN headers' = DOMAIN headers \cup {offset}
        /\ headers'[offset] = [type |-> "leaf", size |-> n]
        /\ DOMAIN headers' \subseteq 0..Capacity
        /\ \A x \in DOMAIN headers' : headers'[x] \in [type : Kinds \cup {"leaf"}, size : Nat]
    BY <2>1, <1>1, <1>2, <1>3, <1>4, StoreShape
  <2> QED
    BY <2>2
<1>7. BuilderTypeOK'
  <2>1. extents' \subseteq [at : 0..Capacity, to : 0..Capacity, depth : Nat, count : Nat]
    BY <1>2, <1>3, <1>4 DEF Inv, BuilderTypeOK
  <2> QED
    BY <2>1, <1>3, <1>5, <1>6 DEF BuilderTypeOK
<1>8. Counting' /\ \A i, j \in 1..Depth : i # j => frames'[i].at # frames'[j].at
  BY <1>1, <1>3, <1>5, CountingOn
<1>9. Apart'
  <2>1. \A e \in extents' : e.at < offset' /\ e.to <= offset'
    BY <1>1, <1>2, <1>3, <1>4, OthersBefore, BuilderAssumption
  <2>2. \A i \in 1..Depth : frames[i].at # offset
    <3>1. \A i \in 1..Depth : frames[i] \in Frame
      BY DEF Inv, BuilderTypeOK, Depth
    <3>2. \A i \in 1..Depth : /\ frames[i].at \in Nat /\ frames[i].size \in Nat
                              /\ frames[i].at + 8 + frames[i].size = offset
      BY <3>1 DEF Frame, Inv, Counting
    <3> QED
      BY <3>2, <1>4
  <2>3. \A e \in extents' : \A i \in 1..Depth : e.at # frames'[i].at
    BY <1>2, <1>5, <2>2 DEF Inv, Apart
  <2> QED
    BY <2>1, <2>3, <1>5, <1>8 DEF Apart, Depth
<1>10. HeadersWritten'
  <2>1. offset' - offset = 8 + n + Padding(n) /\ offset' <= len'
    BY <1>1, <1>3, <1>4 DEF k, InReach
  <2> QED
    BY <2>1, <1>1, <1>2, <1>3, <1>6, OthersKept DEF HeadersWritten
<1> QED
  BY <1>3, <1>7, <1>8, <1>9, <1>10 DEF Inv

LEMMA PushKeeps ==
  ASSUME Inv, NEW kind \in Kinds, NEW head \in {8, 16}, Push(kind, head)
  PROVE  Inv'
<1> DEFINE f == [kind |-> kind, at |-> offset, size |-> head - 8, keyed |-> FALSE, count |-> 0]
           before == Parents(head)
<1>1. head \in Nat /\ head - 8 \in Nat /\ head > 0
  OBVIOUS
<1>2. Padding(head) = 0 /\ Padding(head - 8) = 0
  BY DEF Padding
<1>3. /\ Raw(head) /\ Store(offset, kind, head - 8) /\ extents' = extents
      /\ frames' = Append(before, f)
  BY DEF Push
<1>4. /\ offset' = offset + head /\ offset' \in 0..Capacity /\ InReach' /\ len <= len'
      /\ len' \in 0..Capacity /\ size' \in 0..Capacity /\ home' \in {0, 1} /\ data' \in {0, 1}
  BY <1>1, <1>3, RawReaches
<1>5. offset \in 0..Capacity /\ Depth \in Nat
  BY DEF Inv, BuilderTypeOK, Depth
<1>6. f \in Frame /\ f.at = offset /\ f.size = head - 8
  BY <1>1, <1>5 DEF Frame
<1>7. /\ before \in Seq(Frame) /\ Len(before) = Depth
      /\ \A i \in 1..Depth : before[i].at = frames[i].at /\ before[i].size = frames[i].size + head
  BY <1>1, ParentsShape
<1> HIDE DEF f, before
<1>8. /\ frames' \in Seq(Frame) /\ Depth' = Depth + 1
      /\ frames'[Depth + 1] = f
      /\ \A i \in 1..Depth : frames'[i] = before[i]
  BY <1>3, <1>5, <1>6, <1>7 DEF Depth
<1>9. \A i \in 1..Depth : /\ frames[i].at \in Nat /\ frames[i].size \in Nat
                          /\ frames[i].at + 8 + frames[i].size = offset
                          /\ Padding(frames[i].size) = 0
  <2>1. \A i \in 1..Depth : frames[i] \in Frame
    BY DEF Inv, BuilderTypeOK, Depth
  <2> QED
    BY <2>1 DEF Frame, Inv, Counting
<1>10. BuilderTypeOK'
  <2>1. /\ DOMAIN headers' \subseteq 0..Capacity
        /\ \A x \in DOMAIN headers' : headers'[x] \in [type : Kinds \cup {"leaf"}, size : Nat]
    BY <1>1, <1>3, <1>4, <1>5, StoreShape
  <2>2. extents' \subseteq [at : 0..Capacity, to : 0..Capacity, depth : Nat, count : Nat]
    BY <1>3 DEF Inv, BuilderTypeOK
  <2> QED
    BY <2>1, <2>2, <1>4, <1>8 DEF BuilderTypeOK
<1>11. Counting'
  <2>1. ASSUME NEW i \in 1..Depth
        PROVE  frames'[i].at + 8 + frames'[i].size = offset' /\ Padding(frames'[i].size) = 0
    <3>1. Padding(frames[i].size + head) = 0
      BY <1>1, <1>2, <1>9, PaddingAdds
    <3>2. frames[i].at + 8 + (frames[i].size + head) = offset + head
      BY <1>1, <1>5, <1>9
    <3> QED
      BY <3>1, <3>2, <1>4, <1>7, <1>8
  <2>2. f.at + 8 + f.size = offset' /\ Padding(f.size) = 0
    BY <1>1, <1>2, <1>4, <1>5, <1>6
  <2>3. \A i \in 1..Depth' : i \in 1..Depth \/ i = Depth + 1
    BY <1>5, <1>8
  <2>4. \A i \in 1..Depth' : /\ frames'[i].at + 8 + frames'[i].size = offset'
                             /\ Padding(frames'[i].size) = 0
    BY <2>1, <2>2, <2>3, <1>8
  <2> QED
    BY <2>4 DEF Counting, Padding
<1>12. Apart'
  <2>1. \A e \in extents' : e.at < offset' /\ e.to <= offset' /\ e.at # offset
    BY <1>1, <1>3, <1>4, OthersBefore
  <2>2. \A i \in 1..Depth' : i \in 1..Depth \/ i = Depth + 1
    BY <1>5, <1>8
  <2>3. \A i \in 1..Depth : frames'[i].at = frames[i].at /\ frames'[i].at # offset
    <3>1. \A i \in 1..Depth : frames[i].at # offset
      BY <1>5, <1>9
    <3>2. \A i \in 1..Depth : frames'[i].at = frames[i].at
      BY <1>7, <1>8
    <3> QED
      BY <3>1, <3>2
  <2>4. frames'[Depth + 1].at = offset
    BY <1>6, <1>8
  <2>5. \A e \in extents', i \in 1..Depth' : e.at # frames'[i].at
    <3> TAKE e \in extents', i \in 1..Depth'
    <3>1. CASE i \in 1..Depth
      BY <3>1, <2>3, <1>3 DEF Inv, Apart
    <3>2. CASE i = Depth + 1
      BY <3>2, <2>1, <2>4
    <3> QED
      BY <3>1, <3>2, <2>2
  <2>6. \A i, j \in 1..Depth' : i # j => frames'[i].at # frames'[j].at
    BY <2>2, <2>3, <2>4 DEF Inv, Apart
  <2> QED
    BY <2>1, <2>5, <2>6 DEF Apart
<1>13. HeadersWritten'
  BY <1>1, <1>3, <1>4, OthersKept DEF HeadersWritten
<1> QED
  BY <1>4, <1>10, <1>11, <1>12, <1>13 DEF Inv

LEMMA AddKeyKeeps ==
  ASSUME Inv, NEW kind \in Kinds, AddKey(kind)
  PROVE  Inv'
<1> DEFINE c == Counted(8)
           top == [c[Depth] EXCEPT !.keyed = TRUE]
<1>1. Depth \in Nat /\ Depth \in 1..Depth /\ offset \in 0..Capacity
  BY DEF AddKey, Inv, BuilderTypeOK, Depth
<1>2. /\ Raw(8) /\ headers' = headers /\ extents' = extents
      /\ frames' = [c EXCEPT ![Depth].keyed = TRUE]
  BY DEF AddKey
<1>3. /\ offset' = offset + 8 /\ offset' \in 0..Capacity /\ InReach' /\ len <= len'
      /\ len' \in 0..Capacity /\ size' \in 0..Capacity /\ home' \in {0, 1} /\ data' \in {0, 1}
  BY <1>2, RawReaches
<1>4. /\ c \in Seq(Frame) /\ Len(c) = Depth
      /\ \A i \in 1..Depth : c[i].at = frames[i].at /\ c[i].size = frames[i].size + 8
  BY CountedShape
<1> HIDE DEF c
<1>5. c[Depth] \in Frame
  BY <1>1, <1>4
<1>6. top \in Frame /\ top.at = c[Depth].at /\ top.size = c[Depth].size
  BY <1>5, FrameKeyed
<1>7. frames' = [c EXCEPT ![Depth] = top]
  BY <1>1, <1>2, <1>4, <1>5 DEF Frame
<1> HIDE DEF top
<1>8. /\ frames' \in Seq(Frame) /\ Len(frames') = Depth
      /\ \A i \in 1..Depth : /\ frames'[i].at = frames[i].at
                             /\ frames'[i].size = frames[i].size + 8
  BY <1>1, <1>4, <1>6, <1>7
<1>9. BuilderTypeOK'
  BY <1>2, <1>3, <1>8 DEF Inv, BuilderTypeOK
<1>10. Counting' /\ \A i, j \in 1..Depth : i # j => frames'[i].at # frames'[j].at
  BY <1>3, <1>8, Heads, CountingOn
<1>11. Apart'
  <2>1. \A e \in extents' : e.at < offset' /\ e.to <= offset'
    BY <1>2, <1>3, OthersBefore
  <2>2. \A e \in extents' : \A i \in 1..Depth : e.at # frames'[i].at
    BY <1>2, <1>8 DEF Inv, Apart
  <2> QED
    BY <2>1, <2>2, <1>8, <1>10 DEF Apart, Depth
<1>12. HeadersWritten'
  <2>1. \A e \in extents : e.to <= len'
    <3>1. \A e \in extents : e.to \in 0..Capacity /\ e.to <= len
      BY DEF Inv, BuilderTypeOK, HeadersWritten
    <3>2. len \in 0..Capacity
      BY DEF Inv, BuilderTypeOK
    <3> QED
      BY <3>1, <3>2, <1>3, BuilderAssumption
  <2> QED
    BY <2>1, <1>2 DEF Inv, HeadersWritten, Padding
<1> QED
  BY <1>3, <1>9, <1>10, <1>11, <1>12 DEF Inv

LEMMA PopKeeps ==
  ASSUME Inv, Pop
  PROVE  Inv'
<1>1. Depth \in Nat /\ Depth \in 1..Depth /\ Len(frames) = Depth /\ frames \in Seq(Frame)
  BY DEF Pop, Inv, BuilderTypeOK, Depth
<1>2. /\ UNCHANGED <<len, home, size, data, offset>>
      /\ frames' = SubSeq(frames, 1, Depth - 1)
      /\ extents' = extents \cup {[at |-> Top.at, to |-> offset, depth |-> Depth - 1, count |-> Top.count]}
  BY DEF Pop, vector, Finished
<1>3. InReach' /\ InReach /\ len \in 0..Capacity /\ offset \in 0..Capacity
  BY <1>2 DEF Inv, InReach, BuilderTypeOK
<1>4. frames' \in Seq(Frame) /\ Len(frames') = Depth - 1 /\ \A i \in 1..(Depth - 1) : frames'[i] = frames[i]
  BY <1>1, <1>2
<1>5. Top \in Frame /\ Top = frames[Depth]
  BY <1>1 DEF Top
<1>6. /\ Top.at \in Nat /\ Top.size \in Nat /\ Top.count \in Nat /\ Top.kind \in Kinds
      /\ Top.at + 8 + Top.size = offset /\ Padding(Top.size) = 0
  BY <1>1, <1>5 DEF Frame, Inv, Counting
<1>7. Top.at \in 0..Capacity /\ Top.at < offset
  BY <1>3, <1>6, BuilderAssumption
<1>8. Store(Top.at, Top.kind, Top.size)
  <2>1. Top.at + 8 + Top.size <= size
    BY <1>3, <1>6 DEF InReach
  <2> QED
    BY <2>1 DEF Pop
<1>9. /\ DOMAIN headers' = DOMAIN headers \cup {Top.at}
      /\ headers'[Top.at] = [type |-> Top.kind, size |-> Top.size]
      /\ \A x \in DOMAIN headers : x # Top.at => headers'[x] = headers[x]
      /\ DOMAIN headers' \subseteq 0..Capacity
      /\ \A x \in DOMAIN headers' : headers'[x] \in [type : Kinds \cup {"leaf"}, size : Nat]
  BY <1>3, <1>6, <1>7, <1>8, StoreShape
<1>10. BuilderTypeOK'
  <2>1. extents' \subseteq [at : 0..Capacity, to : 0..Capacity, depth : Nat, count : Nat]
    BY <1>1, <1>2, <1>3, <1>6, <1>7 DEF Inv, BuilderTypeOK
  <2> QED
    BY <2>1, <1>2, <1>4, <1>9 DEF Inv, BuilderTypeOK
<1>11. Counting'
  <2>1. \A i \in 1..(Depth - 1) : i \in 1..Depth
    BY <1>1
  <2>2. Depth' = Depth - 1
    BY <1>4 DEF Depth
  <2>3. \A i \in 1..Depth' : /\ frames'[i].at + 8 + frames'[i].size = offset'
                             /\ Padding(frames'[i].size) = 0
    BY <1>2, <1>4, <2>1, <2>2 DEF Inv, Counting
  <2> QED
    BY <2>3 DEF Counting, Padding
<1>12. Apart'
  <2>1. \A i \in 1..(Depth - 1) : i \in 1..Depth /\ i # Depth
    BY <1>1
  <2>2. Depth' = Depth - 1
    BY <1>4 DEF Depth
  <2>3. \A i \in 1..(Depth - 1) : frames[i].at # Top.at
    BY <1>1, <1>5, <2>1 DEF Inv, Apart
  <2>4. \A e \in extents' : e.at < offset' /\ e.to <= offset'
    BY <1>2, <1>3, <1>7 DEF Inv, Apart
  <2>5. \A e \in extents' : \A i \in 1..Depth' : e.at # frames'[i].at
    BY <1>2, <1>4, <2>1, <2>2, <2>3 DEF Inv, Apart
  <2>6. \A i, j \in 1..Depth' : i # j => frames'[i].at # frames'[j].at
    BY <1>4, <2>1, <2>2 DEF Inv, Apart
  <2> QED
    BY <2>4, <2>5, <2>6 DEF Apart
<1>13. HeadersWritten'
  <2>1. ASSUME NEW e \in extents
        PROVE  /\ e.to <= len' /\ e.at \in DOMAIN headers'
               /\ e.to - e.at = 8 + headers'[e.at].size + Padding(headers'[e.at].size)
    <3>1. e.at # Top.at
      BY <1>1, <1>5 DEF Inv, Apart
    <3>2. /\ e.to <= len /\ e.at \in DOMAIN headers
          /\ e.to - e.at = 8 + headers[e.at].size + Padding(headers[e.at].size)
      BY DEF Inv, HeadersWritten
    <3>3. e.at \in DOMAIN headers' /\ headers'[e.at] = headers[e.at]
      BY <1>9, <3>1, <3>2
    <3> QED
      BY <1>2, <3>2, <3>3
  <2>2. offset - Top.at = 8 + Top.size + Padding(Top.size) /\ offset <= len'
    BY <1>2, <1>3, <1>6 DEF InReach
  <2>3. headers'[Top.at].size = Top.size /\ Top.at \in DOMAIN headers'
    BY <1>9
  <2>4. \A e \in extents' : e \in extents \/ (e.at = Top.at /\ e.to = offset)
    BY <1>2
  <2> QED
    BY <2>1, <2>2, <2>3, <2>4 DEF HeadersWritten, Padding
<1> QED
  BY <1>3, <1>10, <1>11, <1>12, <1>13 DEF Inv

------------------------------------------------------------------------------
(* The invariant *)

LEMMA News == New => Inv
<1> SUFFICES ASSUME New PROVE Inv
  OBVIOUS
<1>1. frames = <<>> /\ extents = {} /\ Depth = 0 /\ DOMAIN headers = {}
  BY DEF New, Depth
<1>2. BuilderTypeOK
  BY <1>1, BuilderAssumption DEF New, BuilderTypeOK
<1> QED
  BY <1>1, <1>2, BuilderAssumption DEF New, Inv, InReach, Counting, Apart, HeadersWritten

LEMMA BuildKeeps == ASSUME Inv, Build PROVE Inv'
<1>1. ASSUME NEW n \in LeafSizes, AddWhole(n) PROVE Inv'
  BY <1>1, AddWholeKeeps
<1>2. CASE PushStruct
  BY <1>2, PushKeeps DEF PushStruct, Kinds
<1>3. CASE PushObject
  BY <1>3, PushKeeps DEF PushObject, Kinds
<1>4. CASE PushSequence
  BY <1>4, PushKeeps DEF PushSequence, Kinds
<1>5. CASE AddProp
  BY <1>5, AddKeyKeeps DEF AddProp, Kinds
<1>6. CASE AddControl
  BY <1>6, AddKeyKeeps DEF AddControl, Kinds
<1>7. CASE Pop
  BY <1>7, PopKeeps
<1> QED
  BY <1>1, <1>2, <1>3, <1>4, <1>5, <1>6, <1>7 DEF Build

LEMMA Rests == ASSUME Inv, UNCHANGED builderVars PROVE Inv'
BY DEF builderVars, vector, Inv, BuilderTypeOK, InReach, Counting, Apart,
       HeadersWritten, Depth, Padding

------------------------------------------------------------------------------
(* Children *)

(* Pods that end behind their header's eight bytes. *)
Extents(E) == \A e \in E : e.at \in Nat /\ e.to \in Nat /\ e.depth \in Nat /\ e.at + 8 <= e.to

LEMMA HeadsAndKeys ==
  \A kind : HeadOf(kind) \in {8, 16} /\ KeyOf(kind) \in {0, 8}
BY DEF HeadOf, KeyOf

(* What has only a head has no children and is filled by it. *)
LEMMA NoChildYet ==
  ASSUME NEW E, Extents(E), NEW kind, NEW at \in Int, NEW depth \in Int,
         \A c \in E : c.at <= at
  PROVE  /\ Children(E, at, depth, at + HeadOf(kind)) = {}
         /\ Filled(E, kind, at, depth, at + HeadOf(kind))
<1>1. Children(E, at, depth, at + HeadOf(kind)) = {}
  BY DEF Extents, Children
<1> QED
  BY <1>1 DEF Filled

(* A pod that lies elsewhere changes nothing. *)
LEMMA ChildElsewhere ==
  ASSUME NEW E, NEW kind, NEW at, NEW depth, NEW to, NEW n,
         ~(n.depth = depth + 1 /\ at < n.at /\ n.to <= to)
  PROVE  /\ Children(E \cup {n}, at, depth, to) = Children(E, at, depth, to)
         /\ Filled(E, kind, at, depth, to) => Filled(E \cup {n}, kind, at, depth, to)
<1>1. Children(E \cup {n}, at, depth, to) = Children(E, at, depth, to)
  BY DEF Children
<1> QED
  BY <1>1 DEF Filled

(* A pod that begins where the last ended, behind a key, fills further. *)
LEMMA ChildAdded ==
  ASSUME NEW E, Extents(E), NEW kind, NEW at \in Int, NEW depth \in Int, NEW to \in Int,
         Filled(E, kind, at, depth, to), at + HeadOf(kind) <= to,
         \A c \in E : c.depth = depth + 1 /\ at < c.at => c.to <= to,
         NEW n, n.at \in Nat, n.to \in Nat, n.at + 8 <= n.to,
         n.depth = depth + 1, n.at = to + KeyOf(kind)
  PROVE  /\ Children(E \cup {n}, at, depth, n.to) = Children(E, at, depth, to) \cup {n}
         /\ n \notin Children(E, at, depth, to)
         /\ Filled(E \cup {n}, kind, at, depth, n.to)
<1> DEFINE C == Children(E, at, depth, to)
           D == Children(E \cup {n}, at, depth, n.to)
           first == at + HeadOf(kind)
           step == KeyOf(kind)
<1>1. first \in Int /\ step \in {0, 8} /\ first > at /\ first <= to
  BY HeadsAndKeys
<1>2. \A c \in C : c \in E /\ c.at \in Nat /\ c.to \in Nat /\ c.at + 8 <= c.to /\ at < c.at /\ c.to <= to
  BY DEF Extents, Children
<1>3. D = C \cup {n}
  <2>1. n \in D
    BY <1>1 DEF Children
  <2>2. \A c \in E : c \in D <=> c \in C
    <3>1. \A c \in E : c.to \in Nat /\ c.at \in Nat
      BY DEF Extents
    <3>2. to <= n.to
      BY <1>1
    <3> QED
      BY <3>1, <3>2 DEF Children
  <2>3. D \subseteq E \cup {n} /\ C \subseteq E
    BY DEF Children
  <2> QED
    BY <2>1, <2>2, <2>3
<1>4. n \notin C
  BY <1>1, <1>2
<1>5. /\ \A x \in {first} \cup {c.to : c \in C} : x = to \/ \E c \in C : c.at = x + step
      /\ \A c \in C : first + step <= c.at
      /\ \A c, d \in C : c = d \/ c.to + step <= d.at \/ d.to + step <= c.at
  BY DEF Filled
<1> HIDE DEF C, D, first, step
<1>6. \A x \in {first} \cup {c.to : c \in D} : x = n.to \/ \E c \in D : c.at = x + step
  <2> TAKE x \in {first} \cup {c.to : c \in D}
  <2>1. x = n.to \/ x \in {first} \cup {c.to : c \in C}
    BY <1>3
  <2>2. CASE x \in {first} \cup {c.to : c \in C}
    <3>1. CASE x = to
      BY <1>3, <3>1 DEF step
    <3>2. CASE \E c \in C : c.at = x + step
      BY <1>3, <3>2
    <3> QED
      BY <1>5, <2>2, <3>1, <3>2
  <2> QED
    BY <2>1, <2>2
<1>7. \A c \in D : first + step <= c.at
  <2>1. first + step <= n.at
    BY <1>1 DEF step
  <2> QED
    BY <1>3, <1>5, <2>1
<1>8. \A c, d \in D : c = d \/ c.to + step <= d.at \/ d.to + step <= c.at
  <2>1. \A c \in C : c.to + step <= n.at
    BY <1>1, <1>2 DEF step
  <2> QED
    BY <1>3, <1>5, <2>1
<1> QED
  BY <1>3, <1>4, <1>6, <1>7, <1>8 DEF Filled, C, D, first, step

------------------------------------------------------------------------------
(* Levels *)

LEMMA InvExtents == Inv => Extents(extents)
<1> SUFFICES ASSUME Inv, NEW e \in extents
             PROVE  e.at \in Nat /\ e.to \in Nat /\ e.depth \in Nat /\ e.at + 8 <= e.to
  BY DEF Extents
<1>1. e.at \in Nat /\ e.to \in Nat /\ e.depth \in Nat
  BY BuilderAssumption DEF Inv, BuilderTypeOK
<1>2. headers[e.at].size \in Nat /\ e.to - e.at = 8 + headers[e.at].size + Padding(headers[e.at].size)
  BY DEF Inv, HeadersWritten, BuilderTypeOK
<1>3. Padding(headers[e.at].size) \in Nat
  BY <1>2, PaddedPod
<1> QED
  BY <1>1, <1>2, <1>3

LEMMA Levels ==
  ASSUME Inv, Layout
  PROVE  /\ Depth \in Nat /\ offset \in Nat
         /\ \A i \in 0..Depth : /\ At(i) \in Int /\ Limit(i) \in Int /\ Limit(i) <= offset
                                /\ At(i) + HeadOf(Kind(i)) <= Limit(i)
         /\ \A i \in 1..Depth : frames[i] \in Frame /\ frames[i].at \in Nat
<1>1. Depth \in Nat /\ offset \in Nat /\ \A i \in 1..Depth : frames[i] \in Frame
  BY BuilderAssumption DEF Inv, BuilderTypeOK, Depth
<1>2. \A i \in 1..Depth : /\ frames[i].at \in Nat /\ frames[i].size \in Nat
                          /\ frames[i].at + 8 + frames[i].size = offset
  BY <1>1 DEF Frame, Inv, Counting
<1>3. ASSUME NEW i \in 0..Depth
      PROVE  At(i) \in Int /\ Limit(i) \in Int /\ Limit(i) <= offset
  <2>1. At(i) \in Int
    BY <1>1, <1>2 DEF At
  <2>2. CASE i < Depth
    <3>1. i + 1 \in 1..Depth
      BY <1>1, <2>2
    <3>2. Limit(i) = frames[i + 1].at - KeyOf(Kind(i))
      BY <2>2 DEF Limit
    <3> QED
      BY <1>1, <1>2, <2>1, <3>1, <3>2, HeadsAndKeys
  <2>3. CASE ~(i < Depth)
    <3>1. Limit(i) = offset - 8 \/ Limit(i) = offset
      BY <2>3 DEF Limit
    <3> QED
      BY <1>1, <2>1, <3>1
  <2> QED
    BY <2>2, <2>3
<1> QED
  BY <1>1, <1>2, <1>3 DEF Layout, Ordered

(* Where a value goes when the builder is ready for one. *)
LEMMA ReadyAtLimit ==
  ASSUME Inv, Layout, Ready
  PROVE  offset = Limit(Depth) + KeyOf(Kind(Depth))
<1>1. Depth \in Nat /\ offset \in Nat /\ Len(frames) = Depth /\ frames \in Seq(Frame)
  BY Levels DEF Depth, Inv, BuilderTypeOK
<1>2. CASE frames = <<>>
  <2>1. Depth = 0
    BY <1>1, <1>2
  <2> QED
    BY <1>1, <2>1 DEF Limit, Kind, KeyOf
<1>3. CASE frames # <<>>
  <2>1. Depth \in 1..Depth /\ Depth > 0 /\ ~(Depth < Depth)
    BY <1>1, <1>3
  <2>2. Kind(Depth) = frames[Depth].kind
    BY <2>1 DEF Kind
  <2>3. CASE frames[Depth].keyed
    <3>1. frames[Depth].kind # "struct"
      BY <2>1, <2>3 DEF Layout, KeysPending
    <3>2. Limit(Depth) = offset - 8
      BY <2>1, <2>3 DEF Limit
    <3> QED
      BY <1>1, <2>2, <3>1, <3>2 DEF KeyOf
  <2>4. CASE ~frames[Depth].keyed
    <3>1. frames[Depth].kind = "struct"
      BY <1>3, <2>4 DEF Ready, Top
    <3>2. Limit(Depth) = offset
      BY <2>1, <2>4 DEF Limit
    <3> QED
      BY <1>1, <2>2, <3>1, <3>2 DEF KeyOf
  <2> QED
    BY <2>3, <2>4
<1> QED
  BY <1>2, <1>3

LEMMA NotReadyAtLimit ==
  ASSUME Inv, Layout, Depth > 0, ~Top.keyed
  PROVE  Limit(Depth) = offset
BY Levels DEF Limit, Top

(* Frames of which nothing but the size changes, and below the innermost. *)
LEMMA LevelsStay ==
  ASSUME Inv, Layout, NEW d \in 0..Depth, Depth' \in Nat, d <= Depth',
         \A i \in 1..d : frames'[i].at = frames[i].at /\ frames'[i].kind = frames[i].kind
  PROVE  /\ \A i \in 0..d : At(i)' = At(i) /\ Kind(i)' = Kind(i)
         /\ \A i \in 0..(d - 1) : Limit(i)' = Limit(i)
<1>1. Depth \in Nat /\ d \in Nat
  BY Levels
<1>2. \A i \in 0..d : At(i)' = At(i) /\ Kind(i)' = Kind(i)
  BY <1>1 DEF At, Kind
<1>3. ASSUME NEW i \in 0..(d - 1) PROVE Limit(i)' = Limit(i)
  <2>1. i < Depth /\ i < Depth' /\ i + 1 \in 1..d /\ i \in 0..d
    BY <1>1
  <2>2. Limit(i) = frames[i + 1].at - KeyOf(Kind(i))
    BY <2>1 DEF Limit
  <2>3. Limit(i)' = frames'[i + 1].at - KeyOf(Kind(i)')
    BY <2>1 DEF Limit, KeyOf
  <2> QED
    BY <1>2, <2>1, <2>2, <2>3
<1> QED
  BY <1>2, <1>3

(* Finished pods do not change when one is added that is none of their  *)
(* children.                                                            *)
LEMMA WholesStay ==
  ASSUME Inv, Layout, NEW n, extents' = extents \cup {n},
         \A e \in extents : headers'[e.at] = headers[e.at],
         \A e \in extents : ~(n.depth = e.depth + 1 /\ e.at < n.at /\ n.to <= e.to)
  PROVE  \A e \in extents : Whole(e)'
<1> TAKE e \in extents
<1>1. Whole(e) /\ headers'[e.at] = headers[e.at]
  BY DEF Layout
<1>2. /\ Children(extents', e.at, e.depth, e.to) = Children(extents, e.at, e.depth, e.to)
      /\ Filled(extents, headers[e.at].type, e.at, e.depth, e.to)
           => Filled(extents', headers[e.at].type, e.at, e.depth, e.to)
  <2> DEFINE type == headers[e.at].type
  <2>1. ~(n.depth = e.depth + 1 /\ e.at < n.at /\ n.to <= e.to)
    OBVIOUS
  <2> HIDE DEF type
  <2>2. /\ Children(extents \cup {n}, e.at, e.depth, e.to) = Children(extents, e.at, e.depth, e.to)
        /\ Filled(extents, type, e.at, e.depth, e.to)
             => Filled(extents \cup {n}, type, e.at, e.depth, e.to)
    BY <2>1, ChildElsewhere
  <2> QED
    BY <2>2 DEF type
<1> QED
  BY <1>1, <1>2 DEF Whole

(* Nor do the frames that get no child. *)
LEMMA FrameStays ==
  ASSUME Inv, Layout, NEW i \in 0..Depth,
         At(i)' = At(i), Kind(i)' = Kind(i), Limit(i)' = Limit(i),
         i > 0 => IF i = Depth /\ i < Depth'
                  THEN frames'[i].count = frames[i].count + 1
                  ELSE frames'[i].count = frames[i].count /\ (i < Depth' <=> i < Depth),
         \/ extents' = extents
         \/ \E n : extents' = extents \cup {n} /\ n.depth # i
  PROVE  FilledSoFar(i)'
<1>1. FilledSoFar(i) /\ i \in Int /\ Depth \in Nat
  BY Levels DEF Layout
<1>2. /\ Children(extents', At(i), i - 1, Limit(i)) = Children(extents, At(i), i - 1, Limit(i))
      /\ Filled(extents', Kind(i), At(i), i - 1, Limit(i))
  <2>1. CASE extents' = extents
    BY <1>1, <2>1 DEF FilledSoFar
  <2>2. ASSUME NEW n, extents' = extents \cup {n}, n.depth # i
        PROVE  /\ Children(extents', At(i), i - 1, Limit(i)) = Children(extents, At(i), i - 1, Limit(i))
               /\ Filled(extents', Kind(i), At(i), i - 1, Limit(i))
    <3> DEFINE kind == Kind(i)
               at == At(i)
               depth == i - 1
               to == Limit(i)
    <3>1. ~(n.depth = depth + 1 /\ at < n.at /\ n.to <= to)
      BY <1>1, <2>2
    <3>2. Filled(extents, kind, at, depth, to)
      BY <1>1 DEF FilledSoFar
    <3> HIDE DEF kind, at, depth, to
    <3>3. /\ Children(extents \cup {n}, at, depth, to) = Children(extents, at, depth, to)
          /\ Filled(extents \cup {n}, kind, at, depth, to)
      BY <3>1, <3>2, ChildElsewhere
    <3> QED
      BY <2>2, <3>3 DEF kind, at, depth, to
  <2> QED
    BY <2>1, <2>2
<1> DEFINE C == Children(extents, At(i), i - 1, Limit(i))
<1>3. i > 0 => frames[i].count = Cardinality(C) + (IF i < Depth THEN 1 ELSE 0)
  BY <1>1 DEF FilledSoFar
<1>4. IsFiniteSet(C)
  BY FS_Subset DEF Layout, Children
<1>5. Cardinality(C) \in Nat
  BY <1>4, FS_CardinalityType
<1> HIDE DEF C
<1>6. i > 0 => frames'[i].count = Cardinality(C) + (IF i < Depth' THEN 1 ELSE 0)
  BY <1>1, <1>3, <1>5
<1>7. Filled(extents', Kind(i)', At(i)', i - 1, Limit(i)')
  BY <1>2
<1>8. i > 0 => frames'[i].count = Cardinality(Children(extents', At(i)', i - 1, Limit(i)'))
                                    + (IF i < Depth' THEN 1 ELSE 0)
  BY <1>2, <1>6 DEF C
<1> QED
  BY <1>7, <1>8 DEF FilledSoFar

(* A frame is filled further by a child that begins where the last ended. *)
LEMMA FrameGoesOn ==
  ASSUME Inv, Layout, NEW i \in 0..Depth, Depth' = i,
         At(i)' = At(i), Kind(i)' = Kind(i),
         NEW n, extents' = extents \cup {n}, n.at \in Nat, n.to \in Nat, n.at + 8 <= n.to,
         n.depth = i, n.at = Limit(i) + KeyOf(Kind(i)), Limit(i)' = n.to,
         i > 0 => frames'[i].count = frames[i].count + (IF i < Depth THEN 0 ELSE 1)
  PROVE  FilledSoFar(i)'
<1> DEFINE kind == Kind(i)
           at == At(i)
           depth == i - 1
           to == Limit(i)
           C == Children(extents, at, depth, to)
<1>1. /\ FilledSoFar(i) /\ i \in Int /\ Depth \in Nat /\ Extents(extents)
      /\ at \in Int /\ to \in Int /\ depth \in Int /\ at + HeadOf(kind) <= to
  BY Levels, InvExtents DEF Layout
<1>2. Filled(extents, kind, at, depth, to)
  BY <1>1 DEF FilledSoFar
<1>3. \A c \in extents : c.depth = depth + 1 /\ at < c.at => c.to <= to
  BY <1>1 DEF Layout, Behind
<1>4. n.depth = depth + 1 /\ n.at = to + KeyOf(kind)
  BY <1>1
<1> HIDE DEF kind, at, depth, to
<1>5. /\ Children(extents \cup {n}, at, depth, n.to) = C \cup {n}
      /\ n \notin C
      /\ Filled(extents \cup {n}, kind, at, depth, n.to)
  BY <1>1, <1>2, <1>3, <1>4, ChildAdded
<1>6. IsFiniteSet(C)
  BY FS_Subset DEF Layout, Children
<1>7. Cardinality(C) \in Nat /\ Cardinality(C \cup {n}) = Cardinality(C) + 1
  BY <1>5, <1>6, FS_CardinalityType, FS_AddElement
<1>8. i > 0 => frames[i].count = Cardinality(C) + (IF i < Depth THEN 1 ELSE 0)
  BY <1>1 DEF FilledSoFar, at, depth, to
<1> HIDE DEF C
<1>9. i > 0 => frames'[i].count = Cardinality(C \cup {n}) + (IF i < Depth' THEN 1 ELSE 0)
  BY <1>1, <1>7, <1>8
<1>10. Filled(extents', Kind(i)', At(i)', i - 1, Limit(i)')
  BY <1>5 DEF kind, at, depth
<1>11. i > 0 => frames'[i].count = Cardinality(Children(extents', At(i)', i - 1, Limit(i)'))
                                     + (IF i < Depth' THEN 1 ELSE 0)
  BY <1>5, <1>9 DEF at, depth
<1> QED
  BY <1>10, <1>11 DEF FilledSoFar

(* A pod that is finished in the frame d, the innermost from then on, behind *)
(* whatever lies outside of it.                                              *)
LEMMA FinishedLays ==
  ASSUME Inv, Layout, NEW d \in 0..Depth, Depth' = d,
         \A i \in 1..d : frames'[i].at = frames[i].at /\ frames'[i].kind = frames[i].kind,
         \A i \in 1..(d - 1) : frames'[i].count = frames[i].count,
         d > 0 => /\ ~frames'[d].keyed
                  /\ frames'[d].count = frames[d].count + (IF d < Depth THEN 0 ELSE 1),
         NEW n, extents' = extents \cup {n}, n.at \in Nat, n.to \in Nat, n.at + 8 <= n.to,
         n.depth = d, n.at = Limit(d) + KeyOf(Kind(d)),
         offset' = n.to, offset <= n.to,
         \A e \in extents : e.to <= n.at \/ n.at < e.at,
         \A e \in extents : headers'[e.at] = headers[e.at]
  PROVE  /\ IsFiniteSet(extents)' /\ Ordered' /\ Behind'
         /\ \A i \in 0..Depth' : FilledSoFar(i)'
         /\ \A e \in extents : Whole(e)'
<1>1. /\ Depth \in Nat /\ d \in Nat /\ offset \in Nat
      /\ \A i \in 0..Depth : /\ At(i) \in Int /\ Limit(i) \in Int /\ Limit(i) <= offset
                             /\ At(i) + HeadOf(Kind(i)) <= Limit(i)
      /\ \A i \in 1..Depth : frames[i].at \in Nat
  BY Levels
<1>2. /\ \A i \in 0..d : At(i)' = At(i) /\ Kind(i)' = Kind(i)
      /\ \A i \in 0..(d - 1) : Limit(i)' = Limit(i)
  BY <1>1, LevelsStay
<1>3. Limit(d)' = n.to
  BY <1>1 DEF Limit
<1>4. Extents(extents) /\ \A e \in extents : e.to <= offset
  BY InvExtents DEF Inv, Apart
<1>5. IsFiniteSet(extents)'
  BY FS_AddElement DEF Layout
<1>6. Ordered'
  <2>1. ASSUME NEW i \in 0..d
        PROVE  At(i)' + HeadOf(Kind(i)') <= Limit(i)'
    <3>1. CASE i < d
      BY <1>1, <1>2, <3>1
    <3>2. CASE i = d
      <4>1. At(d) + HeadOf(Kind(d)) <= Limit(d) /\ Limit(d) <= n.to
        BY <1>1
      <4>2. At(d) + HeadOf(Kind(d)) \in Int
        BY <1>1, HeadsAndKeys
      <4> QED
        BY <1>1, <1>2, <1>3, <3>2, <4>1, <4>2
    <3> QED
      BY <1>1, <3>1, <3>2
  <2>2. \A i, j \in 1..d : i < j => frames'[i].at < frames'[j].at
    BY <1>1 DEF Layout, Ordered
  <2> QED
    BY <2>1, <2>2 DEF Ordered, HeadOf
<1>7. Behind'
  <2>1. ASSUME NEW e \in extents', e.depth <= d
        PROVE  e.to <= Limit(e.depth)'
    <3>1. CASE e = n
      BY <1>1, <1>3, <3>1
    <3>2. CASE e \in extents
      <4>1. e.to <= Limit(e.depth) /\ e.depth \in 0..d /\ e.to \in Nat /\ e.to <= offset
        BY <1>1, <1>4, <2>1, <3>2 DEF Layout, Behind, Extents
      <4>2. CASE e.depth < d
        BY <1>1, <1>2, <4>1, <4>2
      <4>3. CASE e.depth = d
        BY <1>1, <1>3, <4>1, <4>3
      <4> QED
        BY <1>1, <4>1, <4>2, <4>3
    <3> QED
      BY <3>1, <3>2
  <2>2. ASSUME NEW e \in extents', NEW i \in 1..d, e.at < frames'[i].at
        PROVE  e.to <= frames'[i].at
    <3>1. CASE e = n
      <4>1. frames[i].at <= At(d) /\ At(d) = frames[d].at
        BY <1>1 DEF At, Layout, Ordered
      <4>2. n.at >= At(d) + 8
        BY <1>1, HeadsAndKeys
      <4>3. n.at < frames[i].at
        BY <2>2, <3>1
      <4> QED
        BY <1>1, <4>1, <4>2, <4>3
    <3>2. CASE e \in extents
      BY <1>1, <2>2, <3>2 DEF Layout, Behind
    <3> QED
      BY <3>1, <3>2
  <2>3. ASSUME NEW e \in extents', NEW f \in extents', f.at <= e.at, e.at < f.to
        PROVE  e.to <= f.to
    <3>1. CASE e \in extents /\ f \in extents
      BY <2>3, <3>1 DEF Layout, Behind
    <3>2. CASE e = n /\ f \in extents
      <4>1. f.at \in Nat /\ f.to \in Nat
        BY <1>4, <3>2 DEF Extents
      <4> QED
        BY <2>3, <3>2, <4>1
    <3>3. CASE e \in extents /\ f = n
      <4>1. e.to \in Nat /\ e.to <= offset
        BY <1>4, <3>3 DEF Extents
      <4> QED
        BY <1>1, <3>3, <4>1
    <3>4. CASE e = n /\ f = n
      BY <3>4
    <3> QED
      BY <3>1, <3>2, <3>3, <3>4
  <2> QED
    BY <2>1, <2>2, <2>3 DEF Behind
<1>8. ASSUME NEW i \in 0..d
      PROVE  FilledSoFar(i)'
  <2>1. CASE i < d
    <3>1. i \in 0..(d - 1) /\ i \in 0..d /\ i \in 0..Depth /\ i # d /\ i < Depth' /\ i < Depth /\ i # Depth
      BY <1>1, <2>1
    <3>2. At(i)' = At(i) /\ Kind(i)' = Kind(i) /\ Limit(i)' = Limit(i)
      BY <1>2, <3>1
    <3>3. i > 0 => frames'[i].count = frames[i].count
      BY <1>1, <3>1
    <3>4. \E m : extents' = extents \cup {m} /\ m.depth # i
      BY <3>1
    <3> QED
      BY <3>1, <3>2, <3>3, <3>4, FrameStays
  <2>2. CASE i = d
    <3>1. At(d)' = At(d) /\ Kind(d)' = Kind(d)
      BY <1>1, <1>2
    <3> QED
      BY <1>3, <2>2, <3>1, FrameGoesOn
  <2> QED
    BY <1>1, <2>1, <2>2
<1>9. \A e \in extents : Whole(e)'
  <2>1. ASSUME NEW e \in extents
        PROVE  ~(n.depth = e.depth + 1 /\ e.at < n.at /\ n.to <= e.to)
    <3>1. e.at \in Nat /\ e.to \in Nat
      BY <1>4 DEF Extents
    <3> QED
      BY <3>1
  <2> QED
    BY <2>1, WholesStay
<1> QED
  BY <1>5, <1>6, <1>7, <1>8, <1>9

------------------------------------------------------------------------------
(* The calls keep the layout *)

LEMMA AddWholeLays ==
  ASSUME Inv, Layout, NEW n \in LeafSizes, AddWhole(n)
  PROVE  Layout'
<1> DEFINE k == 8 + n + Padding(n)
<1>e. PICK e : e = [at |-> offset, to |-> offset', depth |-> Depth, count |-> 0]
  OBVIOUS
<1>d. PICK d : d = Depth
  OBVIOUS
<1> USE <1>d
<1>1. n \in Nat /\ k \in Nat /\ k >= 8 /\ Padding(n) \in Nat
  BY PaddedPod, BuilderAssumption
<1>2. /\ Raw(k) /\ Store(offset, "leaf", n) /\ frames' = Parents(k) /\ Ready
      /\ extents' = extents \cup {e}
  BY <1>e DEF AddWhole, Finished
<1> HIDE DEF k
<1>3. offset' = offset + k /\ InReach' /\ offset' \in 0..Capacity
  BY <1>1, <1>2, RawReaches
<1>4. /\ d \in Nat /\ offset \in 0..Capacity /\ offset \in Nat
      /\ \A i \in 1..d : frames[i].at \in Nat
  BY Levels DEF Inv, BuilderTypeOK
<1>5. /\ frames' \in Seq(Frame) /\ Depth' = d
      /\ \A i \in 1..d : frames'[i].at = frames[i].at /\ frames'[i].kind = frames[i].kind
      /\ \A i \in 1..d :
           IF i = d THEN ~frames'[i].keyed /\ frames'[i].count = frames[i].count + 1
           ELSE frames'[i].keyed = frames[i].keyed /\ frames'[i].count = frames[i].count
  BY <1>1, <1>2, ParentsShape DEF Depth
<1>6. /\ DOMAIN headers' = DOMAIN headers \cup {offset}
      /\ headers'[offset].type = "leaf"
      /\ \A x \in DOMAIN headers : x # offset => headers'[x] = headers[x]
  <2>1. "leaf" \in Kinds \cup {"leaf"}
    OBVIOUS
  <2>2. /\ DOMAIN headers' = DOMAIN headers \cup {offset}
        /\ headers'[offset] = [type |-> "leaf", size |-> n]
        /\ \A x \in DOMAIN headers : x # offset => headers'[x] = headers[x]
    BY <2>1, <1>1, <1>2, <1>3, <1>4, StoreShape
  <2> QED
    BY <2>2
<1>7. \A f \in extents : f.at < offset /\ f.to <= offset /\ f.at \in DOMAIN headers /\ f.at \in Nat
  BY InvExtents DEF Inv, Apart, HeadersWritten, Extents
<1>8. \A f \in extents : headers'[f.at] = headers[f.at]
  BY <1>4, <1>6, <1>7
<1>9. offset = Limit(d) + KeyOf(Kind(d))
  BY <1>2, ReadyAtLimit
<1>10. e.at = offset /\ e.to = offset' /\ e.depth = d
  BY <1>e, <1>d
<1>11. /\ d \in 0..Depth /\ ~(d < Depth)
       /\ e.at \in Nat /\ e.to \in Nat /\ e.at + 8 <= e.to /\ offset <= e.to
       /\ \A f \in extents : f.to <= e.at \/ e.at < f.at
  BY <1>1, <1>3, <1>4, <1>7, <1>10
<1>12. /\ \A i \in 1..(d - 1) : frames'[i].count = frames[i].count
       /\ d > 0 => ~frames'[d].keyed /\ frames'[d].count = frames[d].count + 1
  BY <1>4, <1>5
<1>13. /\ IsFiniteSet(extents)' /\ Ordered' /\ Behind'
       /\ \A i \in 0..Depth' : FilledSoFar(i)'
       /\ \A f \in extents : Whole(f)'
  BY <1>2, <1>5, <1>8, <1>9, <1>10, <1>11, <1>12, FinishedLays
<1>14. HeadersKnown'
  <2>1. {f.at : f \in extents'} = {f.at : f \in extents} \cup {offset}
    BY <1>2, <1>10
  <2>2. {frames'[i].at : i \in 1..Depth'} = {frames[i].at : i \in 1..Depth}
    BY <1>5
  <2>3. DOMAIN headers = {f.at : f \in extents} \cup {frames[i].at : i \in 1..Depth}
    BY DEF Layout, HeadersKnown
  <2>4. DOMAIN headers' = {f.at : f \in extents'} \cup {frames'[i].at : i \in 1..Depth'}
    BY <1>6, <2>1, <2>2, <2>3
  <2> QED
    BY <2>4 DEF HeadersKnown
<1>15. KeysPending'
  <2>1. ASSUME NEW i \in 1..d, frames'[i].keyed
        PROVE  i = d /\ frames'[i].kind # "struct"
    <3>1. i # d /\ frames[i].keyed
      BY <1>5, <2>1
    <3> QED
      BY <3>1 DEF Layout, KeysPending
  <2> QED
    BY <1>5, <2>1 DEF KeysPending
<1>16. \A f \in extents' : Whole(f)'
  <2>1. Whole(e)'
    BY <1>6, <1>10 DEF Whole
  <2> QED
    BY <1>2, <1>13, <2>1
<1> QED
  BY <1>13, <1>14, <1>15, <1>16 DEF Layout

LEMMA PopLays ==
  ASSUME Inv, Layout, Pop
  PROVE  Layout'
<1>e. PICK e : e = [at |-> Top.at, to |-> offset, depth |-> Depth - 1, count |-> Top.count]
  OBVIOUS
<1>d. PICK d : d = Depth - 1
  OBVIOUS
<1> USE <1>d
<1>1. /\ Depth \in Nat /\ Depth \in 1..Depth /\ d \in Nat /\ d \in 0..Depth /\ d < Depth
      /\ Len(frames) = Depth /\ frames \in Seq(Frame)
  BY DEF Pop, Inv, BuilderTypeOK, Depth
<1>2. /\ UNCHANGED <<len, home, size, data, offset>>
      /\ frames' = SubSeq(frames, 1, Depth - 1)
      /\ extents' = extents \cup {e} /\ ~Top.keyed
  BY <1>e DEF Pop, vector, Finished
<1>3. Depth' = d /\ \A i \in 1..d : frames'[i] = frames[i] /\ i \in 1..Depth /\ i # Depth
  BY <1>1, <1>2 DEF Depth
<1>4. Top \in Frame /\ Top = frames[Depth]
  BY <1>1 DEF Top
<1>5. /\ Top.at \in Nat /\ Top.size \in Nat /\ Top.count \in Nat /\ Top.kind \in Kinds
      /\ Top.at + 8 + Top.size = offset /\ Padding(Top.size) = 0
  BY <1>1, <1>4 DEF Frame, Inv, Counting
<1>6. offset \in 0..Capacity /\ Top.at \in 0..Capacity /\ InReach' /\ InReach
  BY <1>2, <1>5, BuilderAssumption DEF Inv, BuilderTypeOK, InReach
<1>7. Store(Top.at, Top.kind, Top.size)
  <2>1. Top.at + 8 + Top.size <= size
    BY <1>5, <1>6 DEF InReach
  <2> QED
    BY <2>1 DEF Pop
<1>8. /\ DOMAIN headers' = DOMAIN headers \cup {Top.at}
      /\ headers'[Top.at] = [type |-> Top.kind, size |-> Top.size]
      /\ \A x \in DOMAIN headers : x # Top.at => headers'[x] = headers[x]
  <2>1. InReach' /\ Top.at \in 0..Capacity /\ Top.kind \in Kinds \cup {"leaf"} /\ Top.size \in Nat
    BY <1>5, <1>6
  <2> QED
    BY <2>1, <1>7, StoreShape
<1>9. \A f \in extents : f.at # Top.at /\ f.at \in DOMAIN headers
  BY <1>1, <1>4 DEF Inv, Apart, HeadersWritten
<1>10. \A f \in extents : headers'[f.at] = headers[f.at]
  BY <1>8, <1>9
<1>11. Top.at = Limit(d) + KeyOf(Kind(d)) /\ Limit(Depth) = offset
  <2>1. Limit(d) = frames[d + 1].at - KeyOf(Kind(d)) /\ d + 1 = Depth
    BY <1>1 DEF Limit
  <2>2. KeyOf(Kind(d)) \in Int
    BY HeadsAndKeys
  <2>3. Limit(Depth) = offset
    BY <1>1, <1>2, NotReadyAtLimit
  <2> QED
    BY <1>4, <1>5, <2>1, <2>2, <2>3
<1>12. e.at = Top.at /\ e.to = offset /\ e.depth = d /\ e.count = Top.count
  BY <1>e, <1>d
<1>13. \A f \in extents : f.to <= e.at \/ e.at < f.at
  <2>1. \A f \in extents : f.at \in Nat
    BY InvExtents DEF Extents
  <2>2. \A f \in extents : f.at < Top.at => f.to <= Top.at
    BY <1>1, <1>4 DEF Layout, Behind
  <2> QED
    BY <1>5, <1>9, <1>12, <2>1, <2>2
<1>14. /\ d > 0 => ~frames'[d].keyed /\ frames'[d].count = frames[d].count
       /\ \A i \in 1..d : ~frames'[i].keyed
  <2>1. \A i \in 1..d : frames[i].keyed => FALSE
    BY <1>3 DEF Layout, KeysPending
  <2>2. d > 0 => d \in 1..d
    BY <1>1
  <2> QED
    BY <1>3, <2>1, <2>2
<1>15. /\ \A i \in 1..d : frames'[i].at = frames[i].at /\ frames'[i].kind = frames[i].kind
       /\ \A i \in 1..(d - 1) : frames'[i].count = frames[i].count
  BY <1>1, <1>3
<1>16. /\ e.at \in Nat /\ e.to \in Nat /\ e.at + 8 <= e.to /\ offset' = e.to /\ offset <= e.to
       /\ e.at = Limit(d) + KeyOf(Kind(d))
  BY <1>2, <1>5, <1>6, <1>11, <1>12
<1>17. d > 0 => /\ ~frames'[d].keyed
                /\ frames'[d].count = frames[d].count + (IF d < Depth THEN 0 ELSE 1)
  <2>1. d > 0 => frames[d].count \in Nat
    <3>1. d > 0 => frames[d] \in Frame
      BY <1>1, Levels
    <3> QED
      BY <3>1 DEF Frame
  <2> QED
    BY <1>1, <1>14, <2>1
<1>18. /\ IsFiniteSet(extents)' /\ Ordered' /\ Behind'
       /\ \A i \in 0..Depth' : FilledSoFar(i)'
       /\ \A f \in extents : Whole(f)'
  BY <1>1, <1>2, <1>3, <1>10, <1>12, <1>13, <1>15, <1>16, <1>17, FinishedLays
<1>19. HeadersKnown'
  <2>1. {f.at : f \in extents'} = {f.at : f \in extents} \cup {Top.at}
    BY <1>2, <1>12
  <2>2. {frames[i].at : i \in 1..Depth} = {frames'[i].at : i \in 1..Depth'} \cup {Top.at}
    <3>1. \A i \in 1..Depth : i \in 1..d \/ i = Depth
      BY <1>1
    <3> QED
      BY <1>1, <1>3, <1>4, <3>1
  <2>3. DOMAIN headers = {f.at : f \in extents} \cup {frames[i].at : i \in 1..Depth}
    BY DEF Layout, HeadersKnown
  <2>4. DOMAIN headers' = {f.at : f \in extents'} \cup {frames'[i].at : i \in 1..Depth'}
    BY <1>8, <2>1, <2>2, <2>3
  <2> QED
    BY <2>4 DEF HeadersKnown
<1>20. KeysPending'
  BY <1>3, <1>14 DEF KeysPending
<1>21. Whole(e)'
  <2> DEFINE kind == Kind(Depth)
             at == At(Depth)
             to == Limit(Depth)
             C == Children(extents, at, d, to)
  <2>1. kind = Top.kind /\ at = Top.at /\ to = offset
    BY <1>1, <1>4, <1>11 DEF Kind, At
  <2>2. /\ Filled(extents, kind, at, d, to)
        /\ Top.count = Cardinality(C) + 0
    <3>1. FilledSoFar(Depth) /\ Depth > 0 /\ ~(Depth < Depth) /\ Depth \in 0..Depth
      BY <1>1 DEF Layout
    <3> QED
      BY <1>4, <3>1 DEF FilledSoFar
  <2>3. ~(e.depth = d + 1 /\ at < e.at /\ e.to <= to)
    BY <1>1, <1>12
  <2>4. IsFiniteSet(C)
    BY FS_Subset DEF Layout, Children
  <2> HIDE DEF kind, at, to, C
  <2>5. /\ Children(extents \cup {e}, at, d, to) = Children(extents, at, d, to)
        /\ Filled(extents \cup {e}, kind, at, d, to)
    BY <2>2, <2>3, ChildElsewhere
  <2>6. Top.count = Cardinality(C)
    BY <2>2, <2>4, FS_CardinalityType
  <2>7. headers'[e.at].type = kind /\ headers'[e.at].size = Top.size
    BY <1>8, <1>12, <2>1
  <2>8. /\ Padding(headers'[e.at].size) = 0
        /\ Filled(extents', headers'[e.at].type, e.at, e.depth, e.to)
        /\ e.count = Cardinality(Children(extents', e.at, e.depth, e.to))
    BY <1>2, <1>5, <1>12, <2>1, <2>5, <2>6, <2>7 DEF C
  <2> QED
    BY <2>8 DEF Whole
<1>22. \A f \in extents' : Whole(f)'
  BY <1>2, <1>18, <1>21
<1> QED
  BY <1>18, <1>19, <1>20, <1>22 DEF Layout

LEMMA PushLays ==
  ASSUME Inv, Layout, NEW kind \in Kinds, Push(kind, HeadOf(kind))
  PROVE  Layout'
<1> DEFINE head == HeadOf(kind)
<1>f. PICK f : f = [kind |-> kind, at |-> offset, size |-> head - 8, keyed |-> FALSE, count |-> 0]
  OBVIOUS
<1>d. PICK d : d = Depth
  OBVIOUS
<1>b. PICK before : before = Parents(head)
  OBVIOUS
<1>1. head \in Nat /\ head - 8 \in Nat /\ head >= 8
  BY HeadsAndKeys
<1>2. /\ Raw(head) /\ Store(offset, kind, head - 8) /\ extents' = extents
      /\ frames' = Append(before, f) /\ Ready
  BY <1>f, <1>b DEF Push
<1>3. f.kind = kind /\ f.at = offset /\ ~f.keyed /\ f.count = 0
  BY <1>f
<1>4. /\ d \in Nat /\ offset \in 0..Capacity /\ offset \in Nat
      /\ \A i \in 0..d : /\ At(i) \in Int /\ Limit(i) \in Int /\ Limit(i) <= offset
                         /\ At(i) + HeadOf(Kind(i)) <= Limit(i)
  BY <1>d, Levels DEF Inv, BuilderTypeOK
<1> HIDE DEF head
<1>5. offset' = offset + head /\ InReach'
  BY <1>1, <1>2, RawReaches
<1>6. /\ before \in Seq(Frame) /\ Len(before) = d
      /\ \A i \in 1..d : before[i].at = frames[i].at /\ before[i].kind = frames[i].kind
      /\ \A i \in 1..d : IF i = d THEN ~before[i].keyed /\ before[i].count = frames[i].count + 1
                         ELSE before[i].keyed = frames[i].keyed /\ before[i].count = frames[i].count
  BY <1>1, <1>b, <1>d, ParentsShape
<1>7. /\ Depth' = d + 1 /\ frames'[d + 1] = f
      /\ \A i \in 1..d : frames'[i] = before[i]
  BY <1>2, <1>4, <1>6 DEF Depth
<1>8. /\ DOMAIN headers' = DOMAIN headers \cup {offset}
      /\ \A x \in DOMAIN headers : x # offset => headers'[x] = headers[x]
  <2>1. kind \in Kinds \cup {"leaf"}
    OBVIOUS
  <2> QED
    BY <2>1, <1>1, <1>2, <1>4, <1>5, StoreShape
<1>9. \A e \in extents : /\ e.at < offset /\ e.to <= offset /\ e.at \in DOMAIN headers
                         /\ e.at \in Nat /\ e.to \in Nat /\ e.depth \in Nat
  BY InvExtents DEF Inv, Apart, HeadersWritten, Extents
<1>10. /\ \A i \in 0..d : At(i)' = At(i) /\ Kind(i)' = Kind(i)
       /\ \A i \in 0..(d - 1) : Limit(i)' = Limit(i)
  <2>1. \A i \in 1..d : frames'[i].at = frames[i].at /\ frames'[i].kind = frames[i].kind
    BY <1>6, <1>7
  <2>2. d \in 0..Depth /\ Depth' \in Nat /\ d <= Depth'
    BY <1>4, <1>7, <1>d
  <2> QED
    BY <2>1, <2>2, LevelsStay
<1>11. Limit(d)' = Limit(d)
  <2>1. Limit(d)' = frames'[d + 1].at - KeyOf(Kind(d)')
    BY <1>4, <1>7 DEF Limit, KeyOf
  <2>2. offset = Limit(d) + KeyOf(Kind(d)) /\ KeyOf(Kind(d)) \in Int
    BY <1>2, <1>d, ReadyAtLimit, HeadsAndKeys
  <2>3. Kind(d)' = Kind(d)
    BY <1>4, <1>10
  <2> QED
    BY <1>3, <1>4, <1>7, <2>1, <2>2, <2>3
<1>12. \A i \in 0..d : Limit(i)' = Limit(i)
  BY <1>4, <1>10, <1>11
<1>13. At(d + 1)' = offset /\ Kind(d + 1)' = kind /\ Limit(d + 1)' = offset'
  BY <1>3, <1>4, <1>7 DEF At, Kind, Limit
<1>14. \A i \in 0..Depth' : i \in 0..d \/ i = d + 1
  BY <1>4, <1>7
<1>15. \A i \in 1..Depth' : i \in 1..d \/ i = d + 1
  BY <1>4, <1>7
<1>16. HeadersKnown'
  <2>1. \A i \in 1..d : frames'[i].at = frames[i].at /\ i \in 1..Depth'
    BY <1>4, <1>6, <1>7
  <2>2. d + 1 \in 1..Depth' /\ frames'[d + 1].at = offset
    BY <1>3, <1>4, <1>7
  <2>3. {frames'[i].at : i \in 1..Depth'} = {frames[i].at : i \in 1..d} \cup {offset}
    BY <1>15, <2>1, <2>2
  <2> QED
    BY <1>2, <1>8, <1>d, <2>3 DEF Layout, HeadersKnown
<1>17. KeysPending'
  <2>1. ASSUME NEW i \in 1..d
        PROVE  ~frames'[i].keyed
    <3>1. frames[i].keyed => i = d
      BY <1>d DEF Layout, KeysPending
    <3> QED
      BY <1>6, <1>7, <3>1
  <2>2. ~frames'[d + 1].keyed
    BY <1>3, <1>7
  <2> QED
    BY <1>15, <2>1, <2>2 DEF KeysPending
<1>18. Ordered'
  <2>1. \A i \in 0..d : At(i)' + HeadOf(Kind(i)') <= Limit(i)'
    BY <1>4, <1>10, <1>12
  <2>2. At(d + 1)' + HeadOf(Kind(d + 1)') <= Limit(d + 1)'
    BY <1>1, <1>4, <1>5, <1>13 DEF head
  <2>3. \A i \in 0..Depth' : At(i)' + HeadOf(Kind(i)') <= Limit(i)'
    BY <1>14, <2>1, <2>2
  <2>4. \A i \in 1..d : frames'[i].at = frames[i].at /\ frames[i].at < offset
    <3>1. \A i \in 1..d : frames[i] \in Frame
      BY <1>d, Levels
    <3>2. \A i \in 1..d : frames[i].at + 8 + frames[i].size = offset
      BY <1>d DEF Inv, Counting
    <3>3. \A i \in 1..d : frames[i].at < offset
      BY <3>1, <3>2, <1>4 DEF Frame
    <3> QED
      BY <1>6, <1>7, <3>3
  <2>5. \A i, j \in 1..d : i < j => frames[i].at < frames[j].at
    BY <1>d DEF Layout, Ordered
  <2>6. ASSUME NEW i \in 1..Depth', NEW j \in 1..Depth', i < j
        PROVE  frames'[i].at < frames'[j].at
    <3>1. i \in 1..d
      BY <1>4, <1>7, <2>6
    <3>2. CASE j \in 1..d
      BY <2>4, <2>5, <2>6, <3>1, <3>2
    <3>3. CASE j = d + 1
      BY <1>3, <1>7, <2>4, <3>1, <3>3
    <3> QED
      BY <1>15, <3>2, <3>3
  <2> QED
    BY <2>3, <2>6 DEF Ordered, HeadOf
<1>19. Behind'
  <2>1. ASSUME NEW e \in extents, e.depth <= Depth'
        PROVE  e.to <= Limit(e.depth)'
    <3>1. CASE e.depth <= d
      <4>1. e.depth \in 0..d /\ e.to <= Limit(e.depth)
        BY <1>4, <1>9, <1>d, <3>1 DEF Layout, Behind
      <4> QED
        BY <1>12, <4>1
    <3>2. CASE e.depth = d + 1
      BY <1>1, <1>4, <1>5, <1>9, <1>13, <3>2
    <3> QED
      BY <1>4, <1>7, <1>9, <2>1, <3>1, <3>2
  <2>2. ASSUME NEW e \in extents, NEW i \in 1..Depth', e.at < frames'[i].at
        PROVE  e.to <= frames'[i].at
    <3>1. CASE i \in 1..d
      BY <1>6, <1>7, <1>d, <2>2, <3>1 DEF Layout, Behind
    <3>2. CASE i = d + 1
      BY <1>3, <1>7, <1>9, <3>2
    <3> QED
      BY <1>15, <3>1, <3>2
  <2>3. \A e, f2 \in extents : f2.at <= e.at /\ e.at < f2.to => e.to <= f2.to
    BY DEF Layout, Behind
  <2> QED
    BY <1>2, <2>1, <2>2, <2>3 DEF Behind
<1>20. ASSUME NEW i \in 0..d
       PROVE  FilledSoFar(i)'
  <2>1. At(i)' = At(i) /\ Kind(i)' = Kind(i) /\ Limit(i)' = Limit(i) /\ i \in 0..Depth
    BY <1>10, <1>12, <1>d
  <2>2. i > 0 => IF i = Depth /\ i < Depth'
                 THEN frames'[i].count = frames[i].count + 1
                 ELSE frames'[i].count = frames[i].count /\ (i < Depth' <=> i < Depth)
    <3>1. i > 0 => i \in 1..d
      BY <1>4
    <3>2. i < Depth'
      BY <1>4, <1>7
    <3>3. i < Depth <=> i # d
      BY <1>4, <1>d
    <3> QED
      BY <1>6, <1>7, <1>d, <3>1, <3>2, <3>3
  <2> QED
    BY <1>2, <2>1, <2>2, FrameStays
<1>21. FilledSoFar(d + 1)'
  <2>1. Extents(extents) /\ \A c \in extents : c.at <= offset
    BY <1>4, <1>9, InvExtents
  <2>2. /\ Children(extents, offset, d, offset + head) = {}
        /\ Filled(extents, kind, offset, d, offset + head)
    BY <1>4, <2>1, NoChildYet DEF head
  <2>3. (d + 1) - 1 = d
    BY <1>4
  <2>4. Filled(extents', Kind(d + 1)', At(d + 1)', (d + 1) - 1, Limit(d + 1)')
    BY <1>2, <1>5, <1>13, <2>2, <2>3
  <2>5. Cardinality(Children(extents', At(d + 1)', (d + 1) - 1, Limit(d + 1)')) = 0
    BY <1>2, <1>5, <1>13, <2>2, <2>3, FS_EmptySet
  <2>6. frames'[d + 1].count = 0 /\ ~(d + 1 < Depth')
    BY <1>3, <1>4, <1>7
  <2> QED
    BY <2>4, <2>5, <2>6 DEF FilledSoFar
<1>22. ASSUME NEW e \in extents
       PROVE  Whole(e)'
  <2>1. headers'[e.at] = headers[e.at] /\ Whole(e)
    BY <1>4, <1>8, <1>9 DEF Layout
  <2> QED
    BY <1>2, <2>1 DEF Whole
<1>23. \A i \in 0..Depth' : FilledSoFar(i)'
  BY <1>14, <1>20, <1>21
<1>24. IsFiniteSet(extents)' /\ \A e \in extents' : Whole(e)'
  BY <1>2, <1>22 DEF Layout
<1> QED
  BY <1>16, <1>17, <1>18, <1>19, <1>23, <1>24 DEF Layout

LEMMA AddKeyLays ==
  ASSUME Inv, Layout, NEW kind \in Kinds, kind # "struct", AddKey(kind)
  PROVE  Layout'
<1>d. PICK d : d = Depth
  OBVIOUS
<1>c. PICK c : c = Counted(8)
  OBVIOUS
<1>1. /\ d \in Nat /\ d \in 1..d /\ d \in 1..Depth /\ offset \in Nat /\ Top = frames[d]
      /\ Top.kind = kind /\ ~Top.keyed
      /\ \A i \in 0..d : Limit(i) \in Int /\ Limit(i) <= offset
  BY <1>d, Levels DEF AddKey, Inv, BuilderTypeOK, Depth, Top
<1>2. /\ Raw(8) /\ headers' = headers /\ extents' = extents
      /\ frames' = [c EXCEPT ![d].keyed = TRUE]
  BY <1>c, <1>d DEF AddKey
<1>3. offset' = offset + 8
  BY <1>2, RawReaches
<1>4. /\ c \in Seq(Frame) /\ Len(c) = d
      /\ \A i \in 1..d : /\ c[i].at = frames[i].at /\ c[i].kind = frames[i].kind
                         /\ c[i].keyed = frames[i].keyed /\ c[i].count = frames[i].count
  BY <1>c, <1>d, CountedShape
<1>5. c[d] \in Frame
  BY <1>1, <1>4
<1>6. PICK top : /\ top = [c[d] EXCEPT !.keyed = TRUE]
                 /\ top \in Frame /\ top.at = c[d].at /\ top.kind = c[d].kind
                 /\ top.keyed /\ top.count = c[d].count
  BY <1>5, FrameKeyed
<1>7. frames' = [c EXCEPT ![d] = top]
  BY <1>1, <1>2, <1>4, <1>5, <1>6 DEF Frame
<1>8. /\ Depth' = d
      /\ \A i \in 1..d : /\ frames'[i].at = frames[i].at /\ frames'[i].kind = frames[i].kind
                         /\ frames'[i].count = frames[i].count
                         /\ frames'[i].keyed => i = d \/ frames[i].keyed
      /\ frames'[d].keyed
  BY <1>1, <1>4, <1>6, <1>7 DEF Depth
<1>9. \A i \in 0..d : At(i)' = At(i) /\ Kind(i)' = Kind(i)
  <2>1. d \in 0..Depth /\ Depth' \in Nat /\ d <= Depth'
    BY <1>1, <1>8, <1>d
  <2> QED
    BY <1>8, <2>1, LevelsStay
<1>10. \A i \in 0..d : Limit(i)' = Limit(i)
  <2>1. \A i \in 0..(d - 1) : Limit(i)' = Limit(i)
    <3>1. d \in 0..Depth /\ Depth' \in Nat /\ d <= Depth'
      BY <1>1, <1>8, <1>d
    <3> QED
      BY <1>8, <3>1, LevelsStay
  <2>2. Limit(d) = offset
    BY <1>1, <1>d, NotReadyAtLimit
  <2>3. Limit(d)' = offset' - 8
    BY <1>1, <1>8 DEF Limit
  <2> QED
    BY <1>1, <1>3, <2>1, <2>2, <2>3
<1>11. HeadersKnown'
  <2>1. {frames'[i].at : i \in 1..Depth'} = {frames[i].at : i \in 1..Depth}
    BY <1>8, <1>d
  <2> QED
    BY <1>2, <2>1 DEF Layout, HeadersKnown
<1>12. KeysPending'
  <2>1. ASSUME NEW i \in 1..d, frames'[i].keyed
        PROVE  i = d /\ frames'[i].kind # "struct"
    <3>1. i = d
      BY <1>8, <1>d, <2>1 DEF Layout, KeysPending
    <3> QED
      BY <1>1, <1>8, <3>1
  <2> QED
    BY <1>8, <2>1 DEF KeysPending
<1>13. Ordered'
  <2>1. \A i \in 0..Depth' : At(i)' + HeadOf(Kind(i)') <= Limit(i)'
    BY <1>8, <1>9, <1>10, <1>d DEF Layout, Ordered
  <2>2. \A i, j \in 1..Depth' : i < j => frames'[i].at < frames'[j].at
    BY <1>8, <1>d DEF Layout, Ordered
  <2> QED
    BY <2>1, <2>2 DEF Ordered, HeadOf
<1>14. Behind'
  <2>1. ASSUME NEW e \in extents, e.depth <= Depth'
        PROVE  e.to <= Limit(e.depth)'
    <3>1. e.depth \in 0..d /\ e.to <= Limit(e.depth)
      BY <1>1, <1>8, <1>d, <2>1, InvExtents DEF Layout, Behind, Extents
    <3> QED
      BY <1>10, <3>1
  <2>2. \A e \in extents : \A i \in 1..Depth' : e.at < frames'[i].at => e.to <= frames'[i].at
    BY <1>8, <1>d DEF Layout, Behind
  <2>3. \A e, f \in extents : f.at <= e.at /\ e.at < f.to => e.to <= f.to
    BY DEF Layout, Behind
  <2> QED
    BY <1>2, <2>1, <2>2, <2>3 DEF Behind
<1>15. ASSUME NEW i \in 0..d
       PROVE  FilledSoFar(i)'
  <2>1. At(i)' = At(i) /\ Kind(i)' = Kind(i) /\ Limit(i)' = Limit(i) /\ i \in 0..Depth
    BY <1>9, <1>10, <1>d
  <2>2. i > 0 => IF i = Depth /\ i < Depth'
                 THEN frames'[i].count = frames[i].count + 1
                 ELSE frames'[i].count = frames[i].count /\ (i < Depth' <=> i < Depth)
    <3>1. i > 0 => i \in 1..d
      BY <1>1
    <3>2. Depth' = Depth /\ ~(Depth < Depth)
      BY <1>1, <1>8, <1>d
    <3> QED
      BY <1>8, <1>d, <3>1, <3>2
  <2> QED
    BY <1>2, <2>1, <2>2, FrameStays
<1>16. \A e \in extents' : Whole(e)'
  BY <1>2 DEF Layout, Whole
<1>17. IsFiniteSet(extents)' /\ \A i \in 0..Depth' : FilledSoFar(i)'
  BY <1>2, <1>8, <1>15 DEF Layout
<1> QED
  BY <1>11, <1>12, <1>13, <1>14, <1>16, <1>17 DEF Layout

LEMMA NewLays == ASSUME New PROVE Layout
<1>1. frames = <<>> /\ extents = {} /\ Depth = 0 /\ DOMAIN headers = {} /\ offset = 0
  BY DEF New, Depth
<1>2. HeadersKnown /\ KeysPending
  BY <1>1 DEF HeadersKnown, KeysPending
<1>3. At(0) = -8 /\ Kind(0) = "struct" /\ Limit(0) = 0 /\ HeadOf("struct") = 8
  BY <1>1 DEF At, Kind, Limit, HeadOf
<1>4. Ordered /\ Behind
  BY <1>1, <1>3 DEF Ordered, Behind
<1>5. FilledSoFar(0)
  <2>1. Extents({}) /\ \A c \in {} : c.at <= -8
    BY DEF Extents
  <2>2. Filled({}, "struct", -8, -1, -8 + HeadOf("struct"))
    BY <2>1, NoChildYet
  <2> QED
    BY <1>1, <1>3, <2>2 DEF FilledSoFar
<1>6. IsFiniteSet(extents)
  BY <1>1, FS_EmptySet
<1> QED
  BY <1>1, <1>2, <1>4, <1>5, <1>6 DEF Layout

LEMMA BuildLays == ASSUME Inv, Layout, Build PROVE Layout'
<1>1. ASSUME NEW n \in LeafSizes, AddWhole(n) PROVE Layout'
  BY <1>1, AddWholeLays
<1>2. HeadOf("struct") = 8 /\ HeadOf("object") = 16 /\ HeadOf("sequence") = 16
  BY DEF HeadOf
<1>3. CASE PushStruct
  BY <1>2, <1>3, PushLays DEF PushStruct, Kinds
<1>4. CASE PushObject
  BY <1>2, <1>4, PushLays DEF PushObject, Kinds
<1>5. CASE PushSequence
  BY <1>2, <1>5, PushLays DEF PushSequence, Kinds
<1>6. CASE AddProp
  BY <1>6, AddKeyLays DEF AddProp, Kinds
<1>7. CASE AddControl
  BY <1>7, AddKeyLays DEF AddControl, Kinds
<1>8. CASE Pop
  BY <1>8, PopLays
<1> QED
  BY <1>1, <1>3, <1>4, <1>5, <1>6, <1>7, <1>8 DEF Build

LEMMA LayoutRests == ASSUME Layout, UNCHANGED builderVars PROVE Layout'
<1>1. /\ UNCHANGED <<offset, frames, headers, extents>> /\ Depth' = Depth
      /\ HeadersKnown' /\ KeysPending' /\ IsFiniteSet(extents)'
  BY DEF builderVars, Depth, Layout, HeadersKnown, KeysPending
<1>2. /\ \A i : At(i)' = At(i) /\ Kind(i)' = Kind(i)
      /\ \A i : Limit(i)' = Limit(i)
  BY <1>1 DEF At, Kind, Limit, KeyOf
<1>3. Ordered' /\ Behind'
  BY <1>1, <1>2 DEF Layout, Ordered, Behind, HeadOf
<1>4. ASSUME NEW i \in 0..Depth PROVE FilledSoFar(i)'
  BY <1>1, <1>2 DEF Layout, FilledSoFar
<1>5. ASSUME NEW e \in extents PROVE Whole(e)'
  <2>1. headers' = headers /\ extents' = extents /\ Whole(e)
    BY <1>1 DEF Layout
  <2> QED
    BY <2>1 DEF Whole
<1> QED
  BY <1>1, <1>3, <1>4, <1>5 DEF Layout

------------------------------------------------------------------------------
(* What a reader finds *)

(* Behind what is finished at the top level begins the next pod. *)
LEMMA TopLevel ==
  ASSUME Inv, Layout, frames = <<>>
  PROVE  /\ 0 = offset \/ \E c \in extents : c.at = 0 /\ c.depth = 0
         /\ \A e \in extents : e.depth = 0 =>
              e.to = offset \/ \E c \in extents : c.at = e.to /\ c.depth = 0
<1>1. Depth = 0 /\ FilledSoFar(0) /\ offset \in Nat
  BY Levels DEF Layout, Depth
<1>2. At(0) = -8 /\ Kind(0) = "struct" /\ Limit(0) = offset
  BY <1>1 DEF At, Kind, Limit
<1> DEFINE C == Children(extents, -8, -1, offset)
<1>3. \A e \in extents : e.depth = 0 => e \in C
  <2>1. Extents(extents) /\ \A e \in extents : e.to <= offset
    BY InvExtents DEF Inv, Apart
  <2> QED
    BY <2>1 DEF Extents, Children
<1>4. \A c \in C : c \in extents /\ c.depth = 0
  BY DEF Children
<1>5. HeadOf("struct") = 8 /\ KeyOf("struct") = 0
  BY DEF HeadOf, KeyOf
<1>6. Filled(extents, "struct", -8, -1, offset)
  BY <1>1, <1>2 DEF FilledSoFar
<1>7. \A x \in {0} \cup {c.to : c \in C} : x = offset \/ \E c \in C : c.at = x + 0
  BY <1>5, <1>6 DEF Filled
<1> HIDE DEF C
<1>8. \A c \in C : c.at + 0 = c.at
  BY <1>4, InvExtents DEF Extents
<1>9. 0 = offset \/ \E c \in extents : c.at = 0 /\ c.depth = 0
  BY <1>4, <1>7
<1>10. ASSUME NEW e \in extents, e.depth = 0
       PROVE  e.to = offset \/ \E c \in extents : c.at = e.to /\ c.depth = 0
  <2>1. e \in C /\ e.to \in Nat
    BY <1>3, <1>10, InvExtents DEF Extents
  <2> QED
    BY <1>4, <1>7, <2>1
<1> QED
  BY <1>9, <1>10

(* And so in a struct. *)
LEMMA InStruct ==
  ASSUME Inv, Layout, NEW s \in extents, headers[s.at].type = "struct"
  PROVE  /\ s.at + 8 = s.to \/ \E c \in extents : /\ c.at = s.at + 8 /\ c.depth = s.depth + 1
                                                 /\ c.to <= s.to
         /\ \A e \in extents :
              e.depth = s.depth + 1 /\ s.at < e.at /\ e.to <= s.to =>
                e.to = s.to \/ \E c \in extents : /\ c.at = e.to /\ c.depth = s.depth + 1
                                                  /\ c.to <= s.to
<1> DEFINE C == Children(extents, s.at, s.depth, s.to)
<1>1. Filled(extents, "struct", s.at, s.depth, s.to)
  BY DEF Layout, Whole
<1>2. HeadOf("struct") = 8 /\ KeyOf("struct") = 0
  BY DEF HeadOf, KeyOf
<1>3. Extents(extents)
  BY InvExtents
<1>4. \A x \in {s.at + 8} \cup {c.to : c \in C} : x = s.to \/ \E c \in C : c.at = x + 0
  BY <1>1, <1>2 DEF Filled
<1>5. \A c \in C : c \in extents /\ c.depth = s.depth + 1 /\ c.to <= s.to
  BY DEF Children
<1>6. \A e \in extents : e.depth = s.depth + 1 /\ s.at < e.at /\ e.to <= s.to => e \in C
  BY DEF Children
<1> HIDE DEF C
<1>7. s.at + 8 + 0 = s.at + 8 /\ \A e \in extents : e.to + 0 = e.to
  BY <1>3 DEF Extents
<1>8. s.at + 8 = s.to \/ \E c \in extents : c.at = s.at + 8 /\ c.depth = s.depth + 1 /\ c.to <= s.to
  BY <1>4, <1>5, <1>7
<1>9. ASSUME NEW e \in extents, e.depth = s.depth + 1, s.at < e.at, e.to <= s.to
      PROVE  e.to = s.to \/ \E c \in extents : /\ c.at = e.to /\ c.depth = s.depth + 1
                                               /\ c.to <= s.to
  <2>1. e \in C /\ e.to + 0 = e.to
    BY <1>6, <1>7, <1>9
  <2> QED
    BY <1>4, <1>5, <2>1
<1> QED
  BY <1>8, <1>9

(* Where the parser finds a pod one was built, in its innermost frame, which *)
(* is a struct, and going on by what the header says goes to the pod's end.  *)
LEMMA FindsPod ==
  ASSUME RInv, reading = "parser", Parser!Current
  PROVE  \E e \in Built(cursor, Len(opened)) :
           /\ e.to = cursor + 8 + Parser!Pod.size + Padding(Parser!Pod.size)
           /\ Parser!Pod.size \in Nat /\ cursor < total
           /\ cursor + 8 + Parser!Pod.size <= total
           /\ opened # <<>> => /\ e.to <= ends(opened[Len(opened)])
                               /\ headers[opened[Len(opened)].at].type = "struct"
<1> DEFINE inner == opened[Len(opened)]
<1>1. /\ cursor \in DOMAIN headers /\ Parser!Pod = headers[cursor] /\ cursor \in Nat
      /\ cursor + 8 + headers[cursor].size <= Parser!End
  BY DEF Parser!Current, Parser!Pod, RInv, ReaderTypeOK
<1>2. headers[cursor].size \in Nat /\ total \in Nat
  BY <1>1 DEF RInv, Inv, BuilderTypeOK, ReaderTypeOK
<1>3. Parser!End = IF opened = <<>> THEN total ELSE ends(inner)
  BY DEF Parser!End, Parser!Inner, Parser!Depth, ends
<1>4. opened # <<>> => ends(inner) <= total /\ ends(inner) \in Nat
  <2>1. opened # <<>> => Len(opened) \in 1..Len(opened) /\ inner \in Opened
    BY DEF RInv, ReaderTypeOK
  <2> QED
    BY <2>1 DEF RInv, OpenedWithin, Opened, ends
<1> HIDE DEF inner
<1>5. cursor + 8 + headers[cursor].size <= total /\ cursor < total
  BY <1>1, <1>2, <1>3, <1>4
<1>6. opened # <<>> => headers[inner.at].type = "struct" /\ cursor # ends(inner)
  <2>1. opened # <<>> => headers[inner.at].type = "struct" \/ cursor = total
    BY DEF RInv, OpenedWithin, inner
  <2> QED
    BY <1>1, <1>2, <1>3, <1>5, <1>4, <2>1
<1>7. opened = <<>> => cursor # offset
  <2>1. Depth = 0 /\ frames = <<>>
    BY DEF RInv, ReadAfter, Depth
  <2>2. \A x \in DOMAIN headers : \E e \in extents : x = e.at
    BY <2>1 DEF RInv, Layout, HeadersKnown
  <2>3. PICK e \in extents : cursor = e.at
    BY <1>1, <2>2
  <2>4. cursor < offset /\ offset \in Nat
    BY <2>3, BuilderAssumption DEF RInv, Inv, Apart, BuilderTypeOK
  <2> QED
    BY <1>1, <2>4
<1>8. PICK e \in Built(cursor, Len(opened)) : opened # <<>> => e.to <= ends(inner)
  BY <1>5, <1>6, <1>7, <1>2, <1>1 DEF RInv, Stands, inner
<1>9. e.to = cursor + 8 + headers[cursor].size + Padding(headers[cursor].size)
  <2>1. e \in extents /\ e.at = cursor
    BY <1>8 DEF Built
  <2>2. e.to \in Nat /\ e.to - e.at = 8 + headers[e.at].size + Padding(headers[e.at].size)
    BY <2>1, InvExtents DEF RInv, Inv, HeadersWritten, Extents
  <2>3. Padding(headers[cursor].size) \in Nat
    BY <1>2, PaddedPod
  <2> QED
    BY <1>1, <1>2, <2>1, <2>2, <2>3
<1> QED
  BY <1>1, <1>2, <1>5, <1>6, <1>8, <1>9 DEF inner

------------------------------------------------------------------------------
(* The parser *)

(* What is read does not change. *)
LEMMA Unwritten ==
  ASSUME RInv, UNCHANGED builderVars
  PROVE  /\ Inv' /\ Layout' /\ as_bytes' = as_bytes
         /\ UNCHANGED <<offset, frames, headers, extents>>
BY Rests, LayoutRests DEF RInv, builderVars, as_bytes

(* The parser goes on in the frame it is in. *)
LEMMA Moved ==
  ASSUME RInv, UNCHANGED <<builderVars, reading, total, opened, view>>, reading = "parser",
         cursor' \in Nat, cursor <= cursor',
         opened # <<>> => headers[opened[Len(opened)].at].type = "struct" \/ cursor' = total,
         Stands'
  PROVE  RInv'
<1>1. Inv' /\ Layout' /\ UNCHANGED <<offset, frames, headers, extents>> /\ as_bytes' = as_bytes
  BY Unwritten
<1>2. ReaderTypeOK'
  BY DEF RInv, ReaderTypeOK
<1>3. ReadAfter'
  BY <1>1 DEF RInv, ReadAfter, Padding, Views!NoView
<1>4. OpenedWithin'
  <2>1. opened # <<>> => opened[Len(opened)].at < cursor'
    <3>1. opened # <<>> => opened[Len(opened)] \in Opened
      BY DEF RInv, ReaderTypeOK
    <3>2. opened # <<>> => opened[Len(opened)].at < cursor
      BY DEF RInv, OpenedWithin
    <3> QED
      BY <3>1, <3>2 DEF Opened, RInv, ReaderTypeOK
  <2> QED
    BY <1>1, <2>1 DEF RInv, OpenedWithin, ends
<1>5. FramesNested'
  BY <1>1 DEF RInv, FramesNested, Built
<1>6. Yields'
  BY <1>1 DEF RInv, ReadAfter, Yields, Views!NoView
<1> QED
  BY <1>1, <1>2, <1>3, <1>4, <1>5, <1>6 DEF RInv

LEMMA Advances ==
  ASSUME RInv, UNCHANGED <<builderVars, reading, total, opened, view>>, reading = "parser",
         Parser!Current, Parser!Advance
  PROVE  RInv'
<1>1. PICK e \in Built(cursor, Len(opened)) :
        /\ e.to = cursor + 8 + Parser!Pod.size + Padding(Parser!Pod.size)
        /\ Parser!Pod.size \in Nat
        /\ opened # <<>> => /\ e.to <= ends(opened[Len(opened)])
                            /\ headers[opened[Len(opened)].at].type = "struct"
  BY FindsPod
<1>2. cursor' = e.to
  BY <1>1 DEF Parser!Advance, Parser!Padding, Padding
<1>3. e \in extents /\ e.at = cursor /\ e.depth = Len(opened) /\ e.to \in Nat /\ e.at + 8 <= e.to
  BY <1>1, InvExtents DEF Built, RInv, Extents
<1>4. cursor' \in Nat /\ cursor <= cursor'
  BY <1>2, <1>3 DEF RInv, ReaderTypeOK
<1>5. UNCHANGED <<offset, frames, headers, extents>>
  BY Unwritten
<1>6. Stands'
  <2>1. CASE opened = <<>>
    <3>1. frames = <<>> /\ e.depth = 0
      BY <1>3, <2>1 DEF RInv, ReadAfter
    <3>2. e.to = offset \/ \E c \in extents : c.at = e.to /\ c.depth = 0
      BY <1>3, <3>1, TopLevel DEF RInv
    <3> QED
      BY <1>2, <1>5, <2>1, <3>1, <1>3, <3>2 DEF Stands, Built
  <2>2. CASE opened # <<>>
    <3> DEFINE n == Len(opened)
    <3>1. n \in 1..n /\ n \in Nat
      BY <2>2 DEF RInv, ReaderTypeOK
    <3>2. PICK s \in Built(opened[n].at, n - 1) : s.to = ends(opened[n])
      BY <3>1 DEF RInv, FramesNested, ends
    <3>3. s \in extents /\ s.at = opened[n].at /\ s.depth = n - 1 /\ headers[s.at].type = "struct"
      BY <1>1, <2>2, <3>2 DEF Built
    <3>4. e.depth = s.depth + 1 /\ s.at < e.at /\ e.to <= s.to
      BY <1>1, <1>3, <2>2, <3>1, <3>2, <3>3 DEF RInv, OpenedWithin
    <3>5. e.to = s.to \/ \E c \in extents : c.at = e.to /\ c.depth = s.depth + 1 /\ c.to <= s.to
      BY <1>3, <3>3, <3>4, InStruct DEF RInv
    <3>6. s.depth + 1 = n
      BY <3>1, <3>3
    <3>7. e.to = ends(opened[n]) \/ \E c \in Built(e.to, n) : c.to <= ends(opened[n])
      BY <3>2, <3>5, <3>6 DEF Built
    <3> QED
      BY <1>2, <1>5, <2>2, <3>7 DEF Stands, Built, ends
  <2> QED
    BY <2>1, <2>2
<1> QED
  BY <1>1, <1>4, <1>6, Moved

(* The parser goes into a struct or an object. *)
LEMMA Deeper ==
  ASSUME RInv, UNCHANGED <<builderVars, reading, total, view>>, reading = "parser",
         Parser!Current, NEW f \in Opened, f.at = cursor, f.size = Parser!Pod.size,
         opened' = Append(opened, f), cursor' \in Nat, cursor < cursor',
         Parser!Pod.type \in {"struct", "object"},
         Parser!Pod.type = "struct" \/ cursor' = total,
         Parser!Pod.type = "struct" => cursor' = cursor + 8
  PROVE  RInv'
<1>1. Inv' /\ Layout' /\ UNCHANGED <<offset, frames, headers, extents>> /\ as_bytes' = as_bytes
  BY Unwritten
<1>n. PICK n : n = Len(opened)
  OBVIOUS
<1>2. PICK e \in Built(cursor, n) :
        /\ e.to = cursor + 8 + Parser!Pod.size + Padding(Parser!Pod.size)
        /\ Parser!Pod.size \in Nat /\ cursor + 8 + Parser!Pod.size <= total
        /\ opened # <<>> => /\ e.to <= ends(opened[n])
                            /\ headers[opened[n].at].type = "struct"
  BY <1>n, FindsPod
<1>3. e \in extents /\ e.at = cursor /\ e.depth = n /\ Parser!Pod = headers[e.at] /\ cursor \in Nat
  BY <1>2 DEF Built, Parser!Pod, RInv, ReaderTypeOK
<1>4. e.to = ends(f) /\ Whole(e)
  <2>1. Whole(e)
    BY <1>3 DEF RInv, Layout
  <2>2. Padding(Parser!Pod.size) = 0
    BY <1>3, <2>1 DEF Whole
  <2> QED
    BY <1>2, <1>3, <2>1, <2>2 DEF ends
<1>5. /\ n \in Nat /\ opened' \in Seq(Opened) /\ Len(opened') = n + 1 /\ opened'[n + 1] = f
      /\ \A i \in 1..n : opened'[i] = opened[i] /\ opened[i] \in Opened
      /\ opened' # <<>> /\ (opened = <<>> <=> n = 0)
  BY <1>n DEF RInv, ReaderTypeOK
<1>6. \A i \in 1..Len(opened') : i \in 1..n \/ i = n + 1
  BY <1>5
<1>7. ReaderTypeOK'
  BY <1>5 DEF RInv, ReaderTypeOK
<1>8. ReadAfter'
  BY <1>1 DEF RInv, ReadAfter, Padding, Views!NoView
<1>9. OpenedWithin'
  <2>1. \A i \in 1..n : ends(opened[i]) <= total
    BY <1>n DEF RInv, OpenedWithin
  <2>2. ends(f) <= total
    BY <1>2 DEF ends
  <2>3. \A i \in 1..Len(opened') : ends(opened'[i]) <= total
    BY <1>5, <1>6, <2>1, <2>2
  <2>4. ASSUME NEW i \in 1..n PROVE headers[opened[i].at].type = "struct"
    <3>1. CASE i = n
      BY <1>2, <1>5, <3>1
    <3>2. CASE i # n
      <4>1. i \in 1..(n - 1)
        BY <1>5, <3>2
      <4> QED
        BY <1>n, <4>1 DEF RInv, OpenedWithin
    <3> QED
      BY <3>1, <3>2
  <2>5. Len(opened') - 1 = n
    BY <1>5
  <2>6. \A i \in 1..(Len(opened') - 1) : headers'[opened'[i].at].type = "struct"
    BY <1>1, <1>5, <2>4, <2>5
  <2>7. f.at < cursor' /\ (headers'[f.at].type = "struct" \/ cursor' = total)
    BY <1>1, <1>3
  <2> QED
    BY <1>5, <2>3, <2>6, <2>7 DEF OpenedWithin, ends
<1>10. FramesNested'
  <2>1. ASSUME NEW i \in 1..n
        PROVE  /\ \E g \in Built(opened[i].at, i - 1) : g.to = ends(opened[i])
               /\ i > 1 => /\ opened[i - 1].at < opened[i].at
                           /\ ends(opened[i]) <= ends(opened[i - 1])
               /\ i > 1 => i - 1 \in 1..n
    BY <1>5, <1>n DEF RInv, FramesNested, ends
  <2>2. /\ \E g \in Built(f.at, n) : g.to = ends(f)
        /\ n + 1 > 1 => /\ opened[n].at < f.at
                        /\ ends(f) <= ends(opened[n])
    <3>1. n + 1 > 1 => opened # <<>>
      BY <1>5
    <3>2. opened # <<>> => opened[n].at < cursor
      BY <1>n DEF RInv, OpenedWithin
    <3> QED
      BY <1>2, <1>4, <3>1, <3>2
  <2>3. ASSUME NEW i \in 1..Len(opened')
        PROVE  /\ \E g \in Built(opened'[i].at, i - 1) : g.to = ends(opened'[i])
               /\ i > 1 => /\ opened'[i - 1].at < opened'[i].at
                           /\ ends(opened'[i]) <= ends(opened'[i - 1])
    <3>1. CASE i \in 1..n
      BY <1>5, <2>1, <3>1
    <3>2. CASE i = n + 1
      <4>1. i - 1 = n /\ (i > 1 => n \in 1..n)
        BY <1>5, <3>2
      <4> QED
        BY <1>5, <2>2, <3>2, <4>1
    <3> QED
      BY <1>6, <3>1, <3>2
  <2> QED
    BY <1>1, <2>3 DEF FramesNested, Built, ends
<1>11. Stands'
  <2>1. CASE Parser!Pod.type = "struct"
    <3>1. headers[e.at].type = "struct"
      BY <1>3, <2>1
    <3>2. e.at + 8 = e.to \/ \E c \in extents : c.at = e.at + 8 /\ c.depth = e.depth + 1 /\ c.to <= e.to
      BY <1>3, <3>1, InStruct DEF RInv
    <3>3. cursor' = ends(f) \/ \E c \in Built(cursor', n + 1) : c.to <= ends(f)
      BY <1>3, <1>4, <2>1, <3>2 DEF Built
    <3> QED
      BY <1>1, <1>5, <3>3 DEF Stands, Built, ends
  <2>2. CASE cursor' = total
    BY <1>5, <2>2 DEF Stands
  <2> QED
    BY <2>1, <2>2
<1>12. Yields'
  BY <1>1 DEF RInv, ReadAfter, Yields, Views!NoView
<1> QED
  BY <1>1, <1>7, <1>8, <1>9, <1>10, <1>11, <1>12 DEF RInv

(* The parser leaves a frame for the pod behind it, read or not. *)
LEMMA Leaves ==
  ASSUME RInv, UNCHANGED <<builderVars, reading, total, view>>, reading = "parser",
         NEW k \in 1..Len(opened),
         cursor' = opened[k].at + 8 + opened[k].size, opened' = SubSeq(opened, 1, k - 1)
  PROVE  RInv'
<1>1. Inv' /\ Layout' /\ UNCHANGED <<offset, frames, headers, extents>> /\ as_bytes' = as_bytes
  BY Unwritten
<1>m. PICK m : m = k - 1
  OBVIOUS
<1>2. /\ m \in Nat /\ Len(opened') = m /\ opened' \in Seq(Opened)
      /\ \A i \in 1..m : opened'[i] = opened[i] /\ i \in 1..(Len(opened) - 1) /\ i \in 1..Len(opened)
      /\ (opened' = <<>> <=> m = 0)
  BY <1>m DEF RInv, ReaderTypeOK
<1>3. opened[k] \in Opened /\ cursor' = ends(opened[k]) /\ cursor' \in Nat
  <2>1. opened[k] \in Opened
    BY DEF RInv, ReaderTypeOK
  <2>2. opened[k].at \in Nat /\ opened[k].size \in Nat
    BY <2>1 DEF Opened
  <2> QED
    BY <2>1, <2>2 DEF ends
<1>4. PICK e \in Built(opened[k].at, m) : e.to = ends(opened[k])
  BY <1>m DEF RInv, FramesNested, ends
<1>5. e \in extents /\ e.at = opened[k].at /\ e.depth = m /\ e.to = cursor'
  BY <1>3, <1>4 DEF Built
<1>6. m > 0 => /\ opened[m].at < opened[k].at /\ ends(opened[k]) <= ends(opened[m])
               /\ m \in 1..m /\ opened[m] \in Opened /\ k > 1 /\ opened'[m] = opened[m]
  <2>1. m > 0 => m \in 1..m /\ k > 1 /\ k - 1 = m
    BY <1>m, <1>2
  <2>2. m > 0 => opened[m] \in Opened
    BY <1>2, <2>1 DEF RInv, ReaderTypeOK
  <2> QED
    BY <1>2, <2>1, <2>2 DEF RInv, FramesNested, ends
<1>7. ReaderTypeOK'
  BY <1>2, <1>3 DEF RInv, ReaderTypeOK
<1>8. ReadAfter'
  BY <1>1 DEF RInv, ReadAfter, Padding, Views!NoView
<1>9. OpenedWithin'
  <2>1. \A i \in 1..m : ends(opened'[i]) <= total /\ headers[opened'[i].at].type = "struct"
    BY <1>2 DEF RInv, OpenedWithin
  <2>2. m > 0 => opened'[m].at < cursor'
    <3>1. opened[k].at \in Nat /\ opened[k].size \in Nat
      BY <1>3 DEF Opened
    <3>2. opened[k].at < cursor'
      BY <3>1
    <3>3. m > 0 => opened[m].at \in Nat
      BY <1>6 DEF Opened
    <3>4. cursor' \in Nat
      BY <1>3
    <3>5. m > 0 => opened[m].at < opened[k].at /\ opened'[m] = opened[m]
      BY <1>6
    <3>6. \A x, y, z \in Nat : x < y /\ y < z => x < z
      OBVIOUS
    <3> QED
      BY <3>1, <3>2, <3>3, <3>4, <3>5, <3>6, Zenon
  <2>3. \A i \in 1..(m - 1) : i \in 1..m
    BY <1>2
  <2>4. opened' # <<>> => m \in 1..m
    BY <1>2
  <2>5. opened' # <<>> => m > 0
    BY <1>2
  <2>6. /\ \A i \in 1..Len(opened') : ends(opened'[i]) <= total'
        /\ \A i \in 1..(Len(opened') - 1) : headers'[opened'[i].at].type = "struct"
    BY <1>1, <1>2, <2>1, <2>3
  <2>7. opened' # <<>> => /\ opened'[Len(opened')].at < cursor'
                         /\ headers'[opened'[Len(opened')].at].type = "struct"
    BY <1>1, <1>2, <2>1, <2>2, <2>4, <2>5
  <2> QED
    BY <2>6, <2>7 DEF OpenedWithin, ends
<1>10. FramesNested'
  <2>1. ASSUME NEW i \in 1..m
        PROVE  /\ \E g \in Built(opened'[i].at, i - 1) : g.to = ends(opened'[i])
               /\ i > 1 => /\ opened'[i - 1].at < opened'[i].at
                           /\ ends(opened'[i]) <= ends(opened'[i - 1])
    <3>1. i > 1 => i - 1 \in 1..m
      BY <1>2
    <3> QED
      BY <1>2, <3>1 DEF RInv, FramesNested, ends
  <2> QED
    BY <1>1, <1>2, <2>1 DEF FramesNested, Built, ends
<1>11. Stands'
  <2>1. CASE m = 0
    <3>1. frames = <<>>
      BY DEF RInv, ReadAfter
    <3>2. e.to = offset \/ \E c \in extents : c.at = e.to /\ c.depth = 0
      BY <1>5, <2>1, <3>1, TopLevel DEF RInv
    <3> QED
      BY <1>1, <1>2, <1>5, <2>1, <3>2 DEF Stands, Built
  <2>2. CASE m > 0
    <3>1. PICK s \in Built(opened[m].at, m - 1) : s.to = ends(opened[m])
      BY <1>2, <1>6, <2>2 DEF RInv, FramesNested, ends
    <3>2. s \in extents /\ s.at = opened[m].at /\ s.depth = m - 1
      BY <3>1 DEF Built
    <3>3. headers[s.at].type = "struct"
      BY <1>2, <1>6, <2>2, <3>2 DEF RInv, OpenedWithin
    <3>4. e.depth = s.depth + 1 /\ s.at < e.at /\ e.to <= s.to
      BY <1>2, <1>4, <1>5, <1>6, <2>2, <3>1, <3>2
    <3>5. e.to = s.to \/ \E c \in extents : c.at = e.to /\ c.depth = s.depth + 1 /\ c.to <= s.to
      BY <1>5, <3>2, <3>3, <3>4, InStruct DEF RInv
    <3>6. s.depth + 1 = m
      BY <1>2, <3>2
    <3>7. cursor' = ends(opened[m]) \/ \E c \in Built(cursor', m) : c.to <= ends(opened[m])
      BY <1>5, <3>1, <3>5, <3>6 DEF Built
    <3>8. Len(opened') = m /\ opened'[Len(opened')] = opened[m] /\ opened' # <<>>
      <4>1. Len(opened') = m /\ opened' # <<>>
        <5>1. m # 0
          BY <1>2, <2>2
        <5> QED
          BY <1>2, <5>1, Zenon
      <4>2. opened'[m] = opened[m]
        BY <1>6, <2>2
      <4> QED
        BY <4>1, <4>2
    <3>9. \/ cursor' = ends(opened'[Len(opened')])
          \/ \E c \in Built(cursor', Len(opened')) : c.to <= ends(opened'[Len(opened')])
      BY <3>7, <3>8
    <3> QED
      BY <1>1, <3>8, <3>9 DEF Stands, Built, ends
  <2> QED
    BY <1>2, <2>1, <2>2
<1>12. Yields'
  BY <1>1 DEF RInv, ReadAfter, Yields, Views!NoView
<1> QED
  BY <1>1, <1>7, <1>8, <1>9, <1>10, <1>11, <1>12 DEF RInv

(* A failed call takes the frames of its arms from the parser's reach; they *)
(* stay where they are.                                                     *)
LEMMA Abandoned ==
  ASSUME RInv, UNCHANGED <<builderVars, reading, view>>, reading = "parser", Parser!Fails
  PROVE  RInv'
<1>1. Inv' /\ Layout' /\ UNCHANGED <<offset, frames, headers, extents>> /\ as_bytes' = as_bytes
  BY Unwritten
<1>n. PICK n : n = Len(opened)
  OBVIOUS
<1> DEFINE g(i) == [opened[i] EXCEPT !.alive = ~opened[i].arm]
<1>2. /\ UNCHANGED <<total, cursor>> /\ opened' = [i \in 1..n |-> g(i)]
      /\ n \in Nat /\ n \in 1..n /\ opened # <<>>
      /\ \A i \in 1..n : opened[i] \in Opened
  BY <1>n DEF Parser!Fails, Parser!Depth, RInv, ReaderTypeOK
<1>3. \A i \in 1..n : g(i) \in Opened /\ g(i).at = opened[i].at /\ g(i).size = opened[i].size
  BY <1>2 DEF Opened
<1> HIDE DEF g
<1>4. /\ opened' \in Seq(Opened) /\ Len(opened') = n /\ opened' # <<>>
      /\ \A i \in 1..n : opened'[i].at = opened[i].at /\ ends(opened'[i]) = ends(opened[i])
  BY <1>2, <1>3 DEF ends
<1>5. ReaderTypeOK'
  BY <1>2, <1>4 DEF RInv, ReaderTypeOK
<1>6. ReadAfter'
  BY <1>1 DEF RInv, ReadAfter, Padding, Views!NoView
<1>7. OpenedWithin'
  <2>1. \A i \in 1..(n - 1) : i \in 1..n
    BY <1>2
  <2>2. /\ \A i \in 1..n : ends(opened'[i]) <= total
        /\ \A i \in 1..(n - 1) : headers'[opened'[i].at].type = "struct"
        /\ /\ opened'[n].at < cursor
           /\ headers'[opened'[n].at].type = "struct" \/ cursor = total
    BY <1>1, <1>2, <1>4, <1>n, <2>1 DEF RInv, OpenedWithin
  <2> QED
    BY <1>2, <1>4, <2>2 DEF OpenedWithin, ends
<1>8. FramesNested'
  <2>1. ASSUME NEW i \in 1..n
        PROVE  /\ \E e \in Built(opened'[i].at, i - 1) : e.to = ends(opened'[i])
               /\ i > 1 => /\ opened'[i - 1].at < opened'[i].at
                           /\ ends(opened'[i]) <= ends(opened'[i - 1])
    <3>1. i > 1 => i - 1 \in 1..n
      BY <1>2
    <3>2. /\ \E e \in Built(opened[i].at, i - 1) : e.to = ends(opened[i])
          /\ i > 1 => /\ opened[i - 1].at < opened[i].at
                      /\ ends(opened[i]) <= ends(opened[i - 1])
      BY <1>n DEF RInv, FramesNested, ends
    <3> QED
      BY <1>4, <3>1, <3>2
  <2> QED
    BY <1>1, <1>4, <2>1 DEF FramesNested, Built, ends
<1>9. Stands'
  BY <1>1, <1>2, <1>4, <1>n DEF RInv, Stands, Built
<1>10. Yields'
  BY <1>1 DEF RInv, ReadAfter, Yields, Views!NoView
<1> QED
  BY <1>1, <1>5, <1>6, <1>7, <1>8, <1>9, <1>10 DEF RInv

LEMMA Still ==
  ASSUME RInv, UNCHANGED <<builderVars, reading, total, cursor, opened, view>>
  PROVE  RInv'
<1>1. Inv' /\ Layout' /\ UNCHANGED <<offset, frames, headers, extents>> /\ as_bytes' = as_bytes
  BY Unwritten
<1>2. ReaderTypeOK'
  BY DEF RInv, ReaderTypeOK
<1>3. ReadAfter'
  BY <1>1 DEF RInv, ReadAfter, Padding, Views!NoView
<1>4. OpenedWithin' /\ FramesNested' /\ Stands'
  BY <1>1 DEF RInv, OpenedWithin, FramesNested, Stands, Built, ends
<1>5. Yields'
  BY <1>1 DEF RInv, Yields, Yielded, Views!NoView, Views!Key, Children
<1> QED
  BY <1>1, <1>2, <1>3, <1>4, <1>5 DEF RInv

------------------------------------------------------------------------------
(* The iterators *)

(* Wherever an iterator is put where the children it has not yielded begin. *)
LEMMA Looked ==
  ASSUME RInv, UNCHANGED <<builderVars, reading, total, cursor, opened>>, reading = "views",
         view' \in [at : Nat, next : Nat, yielded : Nat, over : BOOLEAN],
         NEW e \in extents, Yielded(e)'
  PROVE  RInv'
<1>1. Inv' /\ Layout' /\ UNCHANGED <<offset, frames, headers, extents>> /\ as_bytes' = as_bytes
  BY Unwritten
<1>2. ReaderTypeOK'
  BY DEF RInv, ReaderTypeOK
<1>3. ReadAfter'
  BY <1>1 DEF RInv, ReadAfter, Padding
<1>4. OpenedWithin'
  BY <1>1 DEF RInv, OpenedWithin, ends
<1>5. FramesNested'
  BY <1>1 DEF RInv, FramesNested, Built
<1>6. Stands'
  BY <1>1 DEF RInv, Stands
<1>7. e \in extents'
  BY <1>1
<1>8. Yields'
  BY <1>7 DEF Yields
<1> QED
  BY <1>1, <1>2, <1>3, <1>4, <1>5, <1>6, <1>8 DEF RInv

(* A pod of which a reference can be had lies in what was read. *)
LEMMA InSlice ==
  ASSUME RInv, reading = "views", NEW at \in DOMAIN headers, at < as_bytes
  PROVE  \E e \in extents : e.at = at /\ e.to <= total
<1>1. Extents(extents) /\ frames = <<>> /\ Depth = 0 /\ offset \in Nat /\ total \in Nat
  BY InvExtents, BuilderAssumption DEF RInv, ReadAfter, Depth, Inv, BuilderTypeOK, ReaderTypeOK
<1>2. PICK e \in extents : e.at = at
  BY <1>1 DEF RInv, Layout, HeadersKnown
<1>3. offset # 0
  BY <1>1, <1>2 DEF RInv, Inv, Apart, Extents
<1>4. PICK c \in extents : c.at = 0
  BY <1>1, <1>3, TopLevel DEF RInv
<1>5. /\ headers[0].size \in Nat
      /\ c.to - c.at = 8 + headers[0].size + Padding(headers[0].size)
  BY <1>4 DEF RInv, Inv, HeadersWritten, BuilderTypeOK
<1>6. Padding(headers[0].size) \in Nat
  BY <1>5, PaddedPod
<1>7. as_bytes <= c.to /\ c.to <= total
  <2>1. c.to = as_bytes + Padding(headers[0].size)
    BY <1>1, <1>4, <1>5, <1>6 DEF as_bytes, Extents
  <2>2. as_bytes + Padding(headers[0].size) <= total
    BY DEF RInv, ReadAfter
  <2>3. as_bytes \in Nat
    BY <1>5 DEF as_bytes
  <2> QED
    BY <1>6, <2>1, <2>2, <2>3
<1>8. c.at <= e.at /\ e.at < c.to
  <2>1. as_bytes \in Nat
    BY <1>5 DEF as_bytes
  <2> QED
    BY <1>1, <1>2, <1>4, <1>7, <2>1 DEF Extents
<1>9. e.to <= c.to
  BY <1>8 DEF RInv, Layout, Behind
<1> QED
  BY <1>1, <1>2, <1>7, <1>9 DEF Extents

(* It starts behind the head. *)
LEMMA StartsLooking ==
  ASSUME RInv, UNCHANGED <<builderVars, reading, total, cursor, opened>>, reading = "views",
         NEW at \in DOMAIN headers, at < as_bytes, headers[at].type \in {"struct", "object"},
         view' = [at |-> at, next |-> at + HeadOf(headers[at].type), yielded |-> 0, over |-> FALSE]
  PROVE  RInv'
<1>1. UNCHANGED <<offset, frames, headers, extents>> /\ total' = total
  BY Unwritten
<1>2. PICK e \in extents : e.at = at /\ e.to <= total
  BY InSlice
<1>t. PICK type : type = headers[at].type
  OBVIOUS
<1>n. PICK next : next = at + HeadOf(type)
  OBVIOUS
<1>3. e.at \in Nat /\ e.to \in Nat /\ at \in Nat
  BY <1>2, InvExtents DEF RInv, Extents
<1>4. Filled(extents, type, e.at, e.depth, e.to)
  BY <1>2, <1>t DEF RInv, Layout, Whole
<1> DEFINE C == Children(extents, e.at, e.depth, e.to)
<1>5. /\ next = e.to \/ \E c \in C : c.at = next + KeyOf(type)
      /\ \A c \in C : next + KeyOf(type) <= c.at
  BY <1>2, <1>4, <1>n DEF Filled
<1>6. \A c \in C : c \in extents /\ c.at \in Nat /\ c.to \in Nat /\ c.at + 8 <= c.to /\ c.to <= e.to
  BY InvExtents DEF RInv, Children, Extents
<1> HIDE DEF C
<1>7. next \in Nat /\ KeyOf(type) \in Nat
  BY <1>3, <1>n, HeadsAndKeys
<1>8. {c \in C : c.to <= next} = {}
  BY <1>5, <1>6, <1>7
<1>9. next <= e.to
  BY <1>3, <1>5, <1>6, <1>7
<1>10. view'.at = at /\ view'.next = next /\ view'.yielded = 0 /\ ~view'.over
  BY <1>n, <1>t
<1>11. Views!Key' = KeyOf(type)
  BY <1>1, <1>10, <1>t DEF Views!Key, KeyOf
<1>12. Yielded(e)'
  <2>1. /\ e.at = view'.at /\ e.to <= total' /\ headers'[e.at].type \in {"struct", "object"}
        /\ view'.next <= e.to
    BY <1>1, <1>2, <1>9, <1>10
  <2>2. view'.yielded = Cardinality({c \in Children(extents', e.at, e.depth, e.to) : c.to <= view'.next})
    BY <1>1, <1>8, <1>10, FS_EmptySet DEF C
  <2>3. \/ view'.next = e.to
        \/ /\ ~view'.over
           /\ \E c \in Children(extents', e.at, e.depth, e.to) : c.at = view'.next + Views!Key'
    BY <1>1, <1>5, <1>10, <1>11 DEF C
  <2> QED
    BY <2>1, <2>2, <2>3 DEF Yielded
<1>13. view' \in [at : Nat, next : Nat, yielded : Nat, over : BOOLEAN]
  BY <1>3, <1>7, <1>n, <1>t
<1> QED
  BY <1>12, <1>13, Looked

LEMMA Looks ==
  ASSUME RInv, UNCHANGED <<builderVars, reading, total, cursor, opened>>, reading = "views", View
  PROVE  RInv'
<1>1. PICK at \in DOMAIN headers : at < as_bytes /\ (Views!Fields(at) \/ Views!Props(at))
  BY DEF View
<1>2. HeadOf("struct") = 8 /\ HeadOf("object") = 16
  BY DEF HeadOf
<1>3. CASE Views!Fields(at)
  <2>1. /\ headers[at].type = "struct"
        /\ view' = [at |-> at, next |-> at + HeadOf(headers[at].type), yielded |-> 0, over |-> FALSE]
    BY <1>2, <1>3 DEF Views!Fields
  <2> QED
    BY <1>1, <2>1, StartsLooking
<1>4. CASE Views!Props(at)
  <2>1. /\ headers[at].type = "object"
        /\ view' = [at |-> at, next |-> at + HeadOf(headers[at].type), yielded |-> 0, over |-> FALSE]
    BY <1>2, <1>4 DEF Views!Props
  <2> QED
    BY <1>1, <2>1, StartsLooking
<1> QED
  BY <1>1, <1>3, <1>4

(* The child it goes over is the only one between where it stood and where *)
(* it then stands.                                                         *)
LEMMA GoesOn ==
  ASSUME RInv, UNCHANGED <<builderVars, reading, total, cursor, opened>>, reading = "views", Views!Next
  PROVE  RInv'
<1>1. UNCHANGED <<offset, frames, headers, extents>> /\ total' = total
  BY Unwritten
<1>2. ~view.over /\ view \in [at : Nat, next : Nat, yielded : Nat, over : BOOLEAN]
  BY DEF Views!Next, RInv, ReaderTypeOK
<1>3. view # Views!NoView
  BY <1>2 DEF Views!NoView
<1>4. PICK e \in extents : Yielded(e)
  BY <1>3 DEF RInv, Yields
<1>t. PICK type : type = headers[e.at].type
  OBVIOUS
<1>n. PICK next, step : next = view.next /\ step = KeyOf(type)
  OBVIOUS
<1>5. /\ e.at = view.at /\ e.to <= total /\ type \in {"struct", "object"} /\ next <= e.to
      /\ next \in Nat /\ step \in Nat /\ Views!Key = step
  BY <1>2, <1>4, <1>n, <1>t, HeadsAndKeys DEF Yielded, Views!Key, KeyOf
<1>6. /\ Filled(extents, type, e.at, e.depth, e.to)
      /\ Padding(headers[e.at].size) = 0
  BY <1>5, <1>t DEF RInv, Layout, Whole
<1>7. e.at \in Nat /\ e.to \in Nat /\ e.to = view.at + 8 + headers[view.at].size
  <2>1. e.at \in Nat /\ e.to \in Nat
    BY InvExtents DEF RInv, Extents
  <2>2. headers[e.at].size \in Nat /\ e.to - e.at = 8 + headers[e.at].size + Padding(headers[e.at].size)
    BY DEF RInv, Inv, HeadersWritten, BuilderTypeOK
  <2> QED
    BY <1>5, <1>6, <2>1, <2>2
<1>8. Views!Inside <=> next < e.to
  BY <1>7, <1>n DEF Views!Inside
<1> DEFINE C == Children(extents, e.at, e.depth, e.to)
           D == {c \in C : c.to <= next}
<1>9. \A c \in C : c \in extents /\ c.at \in Nat /\ c.to \in Nat /\ c.at + 8 <= c.to /\ c.to <= e.to
  BY InvExtents DEF RInv, Children, Extents
<1>10. /\ view.yielded = Cardinality(D)
       /\ next = e.to \/ \E c \in C : c.at = next + step
  BY <1>4, <1>5, <1>n DEF Yielded
<1>11. IsFiniteSet(D)
  BY FS_Subset DEF RInv, Layout, Children
<1>12. /\ \A x \in {e.at + HeadOf(type)} \cup {c.to : c \in C} : x = e.to \/ \E c \in C : c.at = x + step
       /\ \A c, d \in C : c = d \/ c.to + step <= d.at \/ d.to + step <= c.at
  BY <1>6, <1>n DEF Filled
<1>13. CASE ~Views!Inside
  <2>1. next = e.to
    BY <1>5, <1>7, <1>8, <1>13
  <2>2. view' = [view EXCEPT !.over = TRUE]
    BY <1>13 DEF Views!Next
  <2>3. view'.at = view.at /\ view'.next = next /\ view'.yielded = view.yielded
    BY <1>2, <1>n, <2>2
  <2>4. Yielded(e)'
    BY <1>1, <1>5, <1>10, <1>t, <2>1, <2>3 DEF Yielded
  <2>5. view' \in [at : Nat, next : Nat, yielded : Nat, over : BOOLEAN]
    BY <1>2, <2>2
  <2> QED
    BY <2>4, <2>5, Looked
<1>14. CASE Views!Inside
  <2>1. PICK c \in C : c.at = next + step
    BY <1>5, <1>7, <1>8, <1>10, <1>14
  <2>2. c \in extents /\ c.at \in Nat /\ c.to \in Nat /\ c.at + 8 <= c.to /\ c.to <= e.to
    BY <1>9
  <2>3. Views!Value = headers[c.at]
    BY <1>5, <1>n, <2>1 DEF Views!Value
  <2>4. /\ headers[c.at].size \in Nat
        /\ c.to = c.at + 8 + headers[c.at].size + Padding(headers[c.at].size)
    <3>1. headers[c.at].size \in Nat /\ c.to - c.at = 8 + headers[c.at].size + Padding(headers[c.at].size)
      BY <2>2 DEF RInv, Inv, HeadersWritten, BuilderTypeOK
    <3>2. Padding(headers[c.at].size) \in Nat
      BY <3>1, PaddedPod
    <3> QED
      BY <2>2, <3>1, <3>2
  <2>5. next + step + 8 + headers[c.at].size + Padding(headers[c.at].size) = c.to
    BY <2>1, <2>4
  <2>6. view' = [view EXCEPT !.next = c.to, !.yielded = @ + 1]
    <3>1. view' = [view EXCEPT !.next = @ + Views!Key + 8 + Views!Value.size + Views!Padding(Views!Value.size),
                               !.yielded = @ + 1]
      BY <1>14 DEF Views!Next
    <3>2. Views!Padding(Views!Value.size) = Padding(headers[c.at].size)
      BY <2>3 DEF Views!Padding, Padding
    <3>3. view.next + Views!Key + 8 + Views!Value.size + Views!Padding(Views!Value.size) = c.to
      BY <1>5, <1>n, <2>3, <2>5, <3>2
    <3> QED
      BY <3>1, <3>3
  <2>7. view'.at = view.at /\ view'.next = c.to /\ view'.yielded = view.yielded + 1 /\ view'.over = view.over
    BY <1>2, <2>6
  <2>8. {d \in C : d.to <= c.to} = D \cup {c} /\ c \notin D
    <3>1. next < c.to
      BY <1>5, <2>1, <2>2
    <3>2. ASSUME NEW d \in C
          PROVE  d.to <= c.to <=> d.to <= next \/ d = c
      <4>1. d.at \in Nat /\ d.to \in Nat /\ d.at + 8 <= d.to
        BY <1>9
      <4>2. d = c \/ d.to + step <= c.at \/ c.to + step <= d.at
        BY <1>12
      <4> QED
        BY <1>5, <2>1, <2>2, <3>1, <4>1, <4>2
    <3> HIDE DEF C
    <3>3. c \notin D
      BY <1>5, <2>2, <3>1
    <3> QED
      BY <2>1, <3>2, <3>3
  <2> HIDE DEF D
  <2>9. Cardinality({d \in C : d.to <= c.to}) = view.yielded + 1
    BY <1>10, <1>11, <2>8, FS_AddElement
  <2>10. c.to = e.to \/ \E d \in C : d.at = c.to + step
    <3> HIDE DEF C
    <3> QED
      BY <1>12, <2>1
  <2>11. Views!Key' = step
    <3>1. Views!Key' = Views!Key
      BY <1>1, <2>7 DEF Views!Key
    <3> QED
      BY <1>5, <3>1
  <2>12. Yielded(e)'
    <3>1. /\ e.at = view'.at /\ e.to <= total' /\ headers'[e.at].type \in {"struct", "object"}
          /\ view'.next <= e.to
      BY <1>1, <1>5, <1>t, <2>2, <2>7
    <3>2. view'.yielded = Cardinality({d \in Children(extents', e.at, e.depth, e.to) : d.to <= view'.next})
      BY <1>1, <2>7, <2>9
    <3>3. \/ view'.next = e.to
          \/ /\ ~view'.over
             /\ \E d \in Children(extents', e.at, e.depth, e.to) : d.at = view'.next + Views!Key'
      BY <1>1, <1>2, <2>7, <2>10, <2>11
    <3> QED
      BY <3>1, <3>2, <3>3 DEF Yielded
  <2>13. view' \in [at : Nat, next : Nat, yielded : Nat, over : BOOLEAN]
    <3>1. view.yielded + 1 \in Nat
      BY <1>2
    <3>2. c.to \in Nat
      BY <2>2
    <3> HIDE DEF C
    <3> QED
      BY <1>2, <2>6, <3>1, <3>2
  <2> QED
    BY <2>12, <2>13, Looked
<1> QED
  BY <1>13, <1>14

------------------------------------------------------------------------------
(* The invariant *)

(* Someone gets the Vec to read it. *)
LEMMA ReadBegins ==
  ASSUME RInv, NEW who \in {"parser", "views"}, NEW n \in Nat, Read(who, n),
         who = "views" => as_bytes + Padding(headers[0].size) <= n
  PROVE  RInv'
<1>1. Inv' /\ Layout' /\ UNCHANGED <<offset, frames, headers, extents>> /\ as_bytes' = as_bytes
  BY Unwritten DEF Read
<1>2. /\ reading = "no" /\ frames = <<>> /\ extents # {} /\ reading' = who /\ total' = n
      /\ UNCHANGED <<cursor, opened, view>>
  BY DEF Read
<1>3. cursor = 0 /\ opened = <<>> /\ view = Views!NoView
  BY <1>2 DEF RInv, ReadAfter
<1>4. ReaderTypeOK'
  BY <1>2 DEF RInv, ReaderTypeOK
<1>5. ReadAfter'
  BY <1>1, <1>2, <1>3 DEF ReadAfter, Padding, Views!NoView
<1>6. OpenedWithin' /\ FramesNested'
  BY <1>2, <1>3 DEF OpenedWithin, FramesNested
<1>7. Stands'
  <2>1. 0 = offset \/ \E c \in extents : c.at = 0 /\ c.depth = 0
    BY <1>2, TopLevel DEF RInv
  <2> QED
    BY <1>1, <1>2, <1>3, <2>1 DEF Stands, Built
<1>8. Yields'
  BY <1>2, <1>3 DEF Yields, Views!NoView
<1> QED
  BY <1>1, <1>4, <1>5, <1>6, <1>7, <1>8 DEF RInv

LEMMA Begins ==
  ASSUME RInv, ParserNew \/ ParserFromPod \/ \E n \in 1..len : from_bytes(n)
  PROVE  RInv'
<1>1. len \in Nat
  BY BuilderAssumption DEF RInv, Inv, BuilderTypeOK
<1>2. frames = <<>> /\ extents # {} => as_bytes \in Nat
  <2> SUFFICES ASSUME frames = <<>>, extents # {}
               PROVE  as_bytes \in Nat
    OBVIOUS
  <2>1. PICK e \in extents : TRUE
    OBVIOUS
  <2>2. offset # 0
    BY <2>1, InvExtents DEF RInv, Inv, Apart, Extents
  <2>3. PICK c \in extents : c.at = 0
    BY <2>2, TopLevel DEF RInv
  <2>4. headers[0].size \in Nat
    BY <2>3 DEF RInv, Inv, HeadersWritten, BuilderTypeOK
  <2> QED
    BY <2>4 DEF as_bytes
<1>3. CASE ParserNew
  BY <1>1, <1>3, ReadBegins DEF ParserNew
<1>4. CASE ParserFromPod
  <2>1. as_bytes \in Nat
    BY <1>2, <1>4 DEF ParserFromPod, Read
  <2> QED
    BY <1>4, <2>1, ReadBegins DEF ParserFromPod
<1>5. ASSUME NEW n \in 1..len, from_bytes(n) PROVE RInv'
  BY <1>1, <1>5, ReadBegins DEF from_bytes
<1> QED
  BY <1>3, <1>4, <1>5

(* While it is built nobody reads it. *)
LEMMA Builds ==
  ASSUME RInv, reading = "no", Build, UNCHANGED <<reading, readerVars>>
  PROVE  RInv'
<1>1. Inv' /\ Layout'
  BY BuildKeeps, BuildLays DEF RInv
<1>2. UNCHANGED <<total, cursor, opened, view>>
  BY DEF readerVars
<1>3. cursor = 0 /\ opened = <<>> /\ view = Views!NoView
  BY DEF RInv, ReadAfter
<1>4. ReaderTypeOK' /\ ReadAfter' /\ OpenedWithin' /\ FramesNested' /\ Stands' /\ Yields'
  BY <1>2, <1>3 DEF RInv, ReaderTypeOK, ReadAfter, OpenedWithin, FramesNested, Stands, Yields,
                    Views!NoView
<1> QED
  BY <1>1, <1>4 DEF RInv

LEMMA Parses ==
  ASSUME RInv, reading = "parser", Parser!Parse, UNCHANGED <<builderVars, reading, view>>
  PROVE  RInv'
<1>1. CASE (\E n \in LeafSizes : Parser!Get(n)) \/ Parser!GetPod
  BY <1>1, Advances DEF Parser!Get, Parser!GetPod
<1>2. ASSUME NEW arm \in BOOLEAN, Parser!PushStruct(arm) PROVE RInv'
  <2>1. /\ Parser!Current /\ Parser!Pod.type = "struct" /\ UNCHANGED total
        /\ cursor' = cursor + 8
        /\ opened' = Append(opened, [at |-> cursor, size |-> Parser!Pod.size,
                                     arm |-> arm, alive |-> TRUE])
    BY <1>2 DEF Parser!PushStruct, Parser!Push
  <2>2. Parser!Pod.size \in Nat /\ cursor \in Nat
    BY <2>1, FindsPod DEF RInv, ReaderTypeOK
  <2> DEFINE f == [at |-> cursor, size |-> Parser!Pod.size, arm |-> arm, alive |-> TRUE]
  <2>3. f \in Opened /\ f.at = cursor /\ f.size = Parser!Pod.size
    BY <2>2 DEF Opened
  <2>4. cursor' \in Nat /\ cursor < cursor'
    BY <2>1, <2>2
  <2> HIDE DEF f
  <2>5. opened' = Append(opened, f)
    BY <2>1 DEF f
  <2> QED
    BY <2>1, <2>3, <2>4, <2>5, Deeper
<1>3. CASE Parser!PushObject
  <2>1. /\ Parser!Current /\ Parser!Pod.type = "object" /\ UNCHANGED total
        /\ cursor' = total
        /\ opened' = Append(opened, [at |-> cursor, size |-> Parser!Pod.size,
                                     arm |-> FALSE, alive |-> TRUE])
    BY <1>3 DEF Parser!PushObject, Parser!Push
  <2>2. Parser!Pod.size \in Nat /\ cursor \in Nat /\ total \in Nat /\ cursor < total
    BY <2>1, FindsPod DEF RInv, ReaderTypeOK
  <2> DEFINE f == [at |-> cursor, size |-> Parser!Pod.size, arm |-> FALSE, alive |-> TRUE]
  <2>3. f \in Opened /\ f.at = cursor /\ f.size = Parser!Pod.size
    BY <2>2 DEF Opened
  <2> HIDE DEF f
  <2>4. opened' = Append(opened, f)
    BY <2>1 DEF f
  <2> QED
    BY <2>1, <2>2, <2>3, <2>4, Deeper
<1>4. CASE Parser!Pop
  <2>1. PICK k \in 1..Len(opened) :
          /\ cursor' = opened[k].at + 8 + opened[k].size
          /\ opened' = SubSeq(opened, 1, k - 1)
    BY <1>4 DEF Parser!Pop, Parser!Depth
  <2>2. UNCHANGED <<builderVars, reading, total, view>>
    BY <1>4 DEF Parser!Pop
  <2> QED
    BY <2>1, <2>2, Leaves
<1>5. CASE Parser!Fails
  BY <1>5, Abandoned
<1>6. CASE Parser!UseDeadFrame \/ Parser!UseLeftovers
  <2>1. UNCHANGED <<builderVars, reading, total, cursor, opened, view>>
    BY <1>6 DEF Parser!UseDeadFrame, Parser!UseLeftovers
  <2> QED
    BY <2>1, Still
<1> QED
  BY <1>1, <1>2, <1>3, <1>4, <1>5, <1>6 DEF Parser!Parse

LEMMA ReaderSteps == RInv /\ [Next]_allVars => RInv'
<1> SUFFICES ASSUME RInv, [Next]_allVars PROVE RInv'
  OBVIOUS
<1>1. CASE reading = "no" /\ Build /\ UNCHANGED <<reading, readerVars>>
  BY <1>1, Builds
<1>2. CASE ParserNew \/ ParserFromPod \/ \E n \in 1..len : from_bytes(n)
  BY <1>2, Begins
<1>3. CASE reading = "parser" /\ Parser!Parse /\ UNCHANGED <<builderVars, reading, view>>
  BY <1>3, Parses
<1>4. CASE /\ reading = "views"
           /\ (view.over /\ View) \/ Views!Next
           /\ UNCHANGED <<builderVars, reading, total, cursor, opened, mode>>
  <2>1. reading = "views" /\ UNCHANGED <<builderVars, reading, total, cursor, opened>>
    BY <1>4
  <2>2. CASE View
    BY <2>1, <2>2, Looks
  <2>3. CASE Views!Next
    BY <2>1, <2>3, GoesOn
  <2> QED
    BY <1>4, <2>2, <2>3
<1>5. CASE UNCHANGED allVars
  BY <1>5, Still DEF allVars, readerVars
<1> QED
  BY <1>1, <1>2, <1>3, <1>4, <1>5 DEF Next

LEMMA ReaderInvariance == Spec => []RInv
<1>1. Init => RInv
  <2> SUFFICES ASSUME Init PROVE RInv
    OBVIOUS
  <2>1. Inv /\ Layout
    BY News, NewLays DEF Init
  <2>2. ReaderTypeOK /\ ReadAfter /\ OpenedWithin /\ FramesNested /\ Stands /\ Yields
    BY DEF Init, ReaderTypeOK, ReadAfter, OpenedWithin, FramesNested, Stands, Yields, Views!NoView
  <2> QED
    BY <2>1, <2>2 DEF RInv
<1> QED
  BY <1>1, ReaderSteps, PTL DEF Spec

------------------------------------------------------------------------------
(* Theorems *)

(* The builder, its frames and its Vec keep their shape. *)
THEOREM Typing == Spec => []BuilderTypeOK
BY ReaderInvariance, PTL DEF RInv, Inv

(* The header of each finished pod is in the Vec and gives its length, though *)
(* the overflow callback of builder.rs may have moved the Vec since.          *)
THEOREM HeadersInPlace == Spec => []HeadersWritten
BY ReaderInvariance, PTL DEF RInv, Inv

(* The builder always knows where the Vec is and how long. *)
THEOREM VecInReach == Spec => []InReach
BY ReaderInvariance, PTL DEF RInv, Inv

(* The frames that push_struct and push_object of parser.rs open are structs *)
(* and objects as they were built, each within the one before.               *)
THEOREM FramesAreNested == Spec => []FramesNested
BY ReaderInvariance, PTL DEF RInv

(* As long as no frame has died, the parser stands before a pod that was     *)
(* built as a child of its innermost frame, or at an end, whatever was read, *)
(* skipped by get_pod, or left by a pop of parser.rs.                        *)
THEOREM ParserInStep == Spec => []InStep
<1>1. RInv => InStep
  <2>1. RInv => Stands
    BY DEF RInv
  <2>2. opened # <<>> => Parser!End = ends(opened[Len(opened)])
    BY DEF Parser!End, Parser!Inner, Parser!Depth, ends
  <2> QED
    BY <2>1, <2>2 DEF Stands, InStep
<1> QED
  BY <1>1, ReaderInvariance, PTL

(* The iterators of pod/mod.rs yield each child that was added once, and stay *)
(* in the slice that Pod::from_bytes was given.                               *)
THEOREM ChildrenOnce == Spec => []EachChildOnce
<1>1. ASSUME RInv, view # Views!NoView
      PROVE  \E e \in extents :
               /\ e.at = view.at /\ e.to <= total
               /\ IF view.next = e.to THEN e.count = view.yielded
                  ELSE /\ ~view.over
                       /\ \E child \in Built(view.next + Views!Key, e.depth + 1) : child.to <= e.to
  <2>1. PICK e \in extents : Yielded(e)
    BY <1>1 DEF RInv, Yields
  <2>2. e.count = Cardinality(Children(extents, e.at, e.depth, e.to))
    <3>1. headers[e.at].type # "leaf" /\ Whole(e)
      BY <1>1, <2>1 DEF Yielded, RInv, Layout
    <3> QED
      BY <3>1 DEF Whole
  <2>3. CASE view.next = e.to
    <3>1. {c \in Children(extents, e.at, e.depth, e.to) : c.to <= view.next}
            = Children(extents, e.at, e.depth, e.to)
      BY <2>3 DEF Children
    <3> QED
      BY <2>1, <2>2, <2>3, <3>1 DEF Yielded
  <2>4. CASE view.next # e.to
    <3>1. ~view.over /\ \E c \in Children(extents, e.at, e.depth, e.to) : c.at = view.next + Views!Key
      BY <2>1, <2>4 DEF Yielded
    <3>2. \E c \in Built(view.next + Views!Key, e.depth + 1) : c.to <= e.to
      BY <3>1 DEF Children, Built
    <3> QED
      BY <2>1, <2>4, <3>1, <3>2 DEF Yielded
  <2> QED
    BY <2>3, <2>4
<1>2. RInv => EachChildOnce
  BY <1>1 DEF EachChildOnce
<1> QED
  BY <1>2, ReaderInvariance, PTL
==============================================================================
