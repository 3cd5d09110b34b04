------------------------- MODULE PodRoundtripProofs --------------------------
(***************************************************************************)
(* Proofs about PodSerializer and PodRoundtrip, for a writer that holds    *)
(* nothing beyond its position and for pointers of 8 bytes: otherwise end  *)
(* seeks elsewhere, and a pointer's pod is not padded.                     *)
(*                                                                         *)
(* The writer's invariant IInv ties the call stack to the stream: each     *)
(* frame begins where its parent's count of written bytes says, and the    *)
(* innermost one has the rest of the stream.                               *)
(*                                                                         *)
(* The reader's RInv says that there is a log of the writer's stack and    *)
(* position before each call, and that the reader stands at a mark of it:  *)
(* its scopes are the frames of that mark, and where one ends is where the *)
(* header says that the frame ended.                                       *)
(***************************************************************************)
EXTENDS PodRoundtrip, SequenceTheorems, TLAPS

Fresh == Held = 0 /\ PtrSize = 8

\* The bytes of a frame's pod so far, and where a pod inside it begins.
Extent(f) == CASE f.kind = "struct" -> 8 + f.written
               [] f.kind = "object" -> 16 + f.written
               [] OTHER -> 16 + f.written * f.elem
Key(f) == IF f.kind = "object" THEN 8 ELSE 0
ChildAt(f) == f.at + Extent(f) + Key(f)
NextAt(fs) == IF fs = <<>> THEN 0 ELSE ChildAt(fs[Len(fs)])

\* A stack of frames whose headers are in a set of offsets.
Stacked(fs, offsets) ==
  /\ fs \in Seq(Frame)
  /\ \A i \in 1..Len(fs) : /\ fs[i].at \in offsets
                           /\ fs[i].at % 8 = 0
                           /\ fs[i].kind # "array" => fs[i].written % 8 = 0
  /\ \A i \in 1..Len(fs) - 1 : /\ fs[i].kind # "array"
                               /\ fs[i + 1].at = ChildAt(fs[i])
  /\ \A i, j \in 1..Len(fs) : i < j => fs[i].at < fs[j].at
  /\ fs # <<>> => fs[1].at = 0

\* A stack in which a pod may be written next.
Open(fs) == fs # <<>> => fs[Len(fs)].kind # "array"

StreamInv ==
  /\ length = pos
  /\ DOMAIN headers \subseteq 0..pos - 1
  /\ Stacked(frames, DOMAIN headers)

TurnInv ==
  /\ turn = "value" => Open(frames) /\ pos = NextAt(frames)
  /\ turn = "frame" => frames # <<>> /\ pos = Top.at + Extent(Top)
  /\ turn = "done" => result = pos

ArrayInv ==
  frames # <<>> /\ Top.kind = "array" =>
    headers[Top.at].size = (8 + Top.length * Top.elem) % U32

ExtentInv ==
  \A e \in extents :
    /\ e.at \in DOMAIN headers
    /\ \A i \in 1..Depth : frames[i].at # e.at

\* All of it is said of a stream that is not too long for a u32.
IInv == /\ length < U32
        /\ TypeOK /\ StreamInv /\ TurnInv /\ ArrayInv /\ ExtentInv /\ HeadersTruthful

------------------------------------------------------------------------------
(* Arithmetic *)

\* Padding fills up to the next multiple of eight.
LEMMA PaddingFills ==
  ASSUME NEW n \in Nat
  PROVE  Padding(n) \in 0..7 /\ (n + Padding(n)) % 8 = 0
BY SMT DEF Padding

LEMMA PodLength ==
  ASSUME NEW n \in Nat
  PROVE  Padding(n) \in Nat /\ 8 + n + Padding(n) \in Nat
         /\ 8 <= 8 + n + Padding(n) /\ n <= 8 + n + Padding(n)
         /\ (8 + n + Padding(n)) % 8 = 0
BY SMT DEF Padding

LEMMA Multiples ==
  ASSUME NEW m \in Int, NEW n \in Int, m % 8 = 0, n % 8 = 0
  PROVE  (m + n) % 8 = 0 /\ (8 + m) % 8 = 0 /\ (16 + m) % 8 = 0
BY SMT

LEMMA Products ==
  ASSUME NEW m \in Nat, NEW n \in Nat
  PROVE  m * n \in Nat /\ (m + 1) * n = m * n + n /\ 0 * n = 0
BY SMT

LEMMA ProductGrows ==
  ASSUME NEW m \in Nat, NEW n \in Nat \ {0}
  PROVE  m <= m * n
BY SMT

LEMMA SizeFits ==
  ASSUME NEW n \in Nat, n < U32
  PROVE  n % U32 = n
BY SMT, SerializerAssumption

LEMMA ExtentTyped ==
  ASSUME NEW f \in Frame
  PROVE  Extent(f) \in Nat /\ Key(f) \in {0, 8} /\ ChildAt(f) \in Nat
         /\ (f.kind = "array" => Extent(f) = 16 + f.written * f.elem)
<1>1. f.written * f.elem \in Nat
  BY Products DEF Frame
<1> QED
  BY <1>1, SMT DEF Extent, Key, ChildAt, Frame

LEMMA ChildAligned ==
  ASSUME NEW f \in Frame, f.kind # "array", f.at % 8 = 0, f.written % 8 = 0
  PROVE  ChildAt(f) % 8 = 0 /\ (f.at + Extent(f)) % 8 = 0
BY SMT DEF Extent, Key, ChildAt, Frame

------------------------------------------------------------------------------
(* Stacks of frames *)

LEMMA NextAligned ==
  ASSUME NEW fs, NEW offsets, Stacked(fs, offsets), Open(fs)
  PROVE  NextAt(fs) \in Nat /\ NextAt(fs) % 8 = 0
<1>1. CASE fs = <<>>
  BY <1>1 DEF NextAt
<1>2. CASE fs # <<>>
  <2>1. Len(fs) \in 1..Len(fs) /\ fs[Len(fs)] \in Frame
    BY <1>2 DEF Stacked
  <2> QED
    BY <1>2, <2>1, ChildAligned, ExtentTyped DEF Stacked, Open, NextAt
<1> QED
  BY <1>1, <1>2

LEMMA FrontOfSeq ==
  ASSUME NEW S, NEW s \in Seq(S), Len(s) \in Nat \ {0}
  PROVE  LET front == SubSeq(s, 1, Len(s) - 1)
         IN  /\ front \in Seq(S) /\ Len(front) = Len(s) - 1
             /\ \A i \in 1..Len(front) : front[i] = s[i]
<1> DEFINE m == Len(s) - 1
           front == SubSeq(s, 1, m)
<1>1. m \in Nat /\ \A i \in 1..m : s[i] \in S
  BY ElementOfSeq
<1>2. /\ front \in Seq(S)
      /\ Len(front) = IF 1 <= m THEN m - 1 + 1 ELSE 0
      /\ \A i \in 1..m - 1 + 1 : front[i] = s[1 + i - 1]
  <2> HIDE DEF m
  <2> QED
    BY <1>1, SubSeqProperties
<1> HIDE DEF m, front
<1>3. Len(front) = m /\ \A i \in 1..m : front[i] = s[i]
  BY <1>1, <1>2
<1> QED
  BY <1>2, <1>3 DEF m, front

LEMMA WrittenChanges ==
  ASSUME NEW f \in Frame, NEW w \in Nat
  PROVE  LET g == [f EXCEPT !.written = w]
         IN  /\ g \in Frame /\ g.kind = f.kind /\ g.at = f.at
             /\ g.elem = f.elem /\ g.length = f.length /\ g.written = w
BY DEF Frame

\* Without its innermost frame a stack is still one, and open.
LEMMA StackPop ==
  ASSUME NEW fs, NEW offsets, Stacked(fs, offsets), fs # <<>>
  PROVE  LET outer == SubSeq(fs, 1, Len(fs) - 1)
         IN  /\ Stacked(outer, offsets) /\ Open(outer)
             /\ Len(outer) = Len(fs) - 1
             /\ fs[Len(fs)].at = NextAt(outer)
             /\ \A i \in 1..Len(outer) : outer[i] = fs[i] /\ outer[i].at < fs[Len(fs)].at
<1> DEFINE outer == SubSeq(fs, 1, Len(fs) - 1)
<1>1. fs \in Seq(Frame) /\ Len(fs) \in Nat \ {0}
  BY DEF Stacked
<1>2. /\ outer \in Seq(Frame) /\ Len(outer) = Len(fs) - 1
      /\ \A i \in 1..Len(outer) : outer[i] = fs[i]
  BY <1>1, FrontOfSeq
<1>3. outer # <<>> => /\ Len(outer) \in 1..Len(fs) - 1
                      /\ outer[Len(outer)] = fs[Len(fs) - 1]
                      /\ outer[1] = fs[1]
  BY <1>1, <1>2
<1>4. outer = <<>> => Len(fs) = 1
  <2>1. outer = <<>> => Len(outer) = 0
    BY EmptySeq
  <2> HIDE DEF outer
  <2> QED
    BY <1>1, <1>2, <2>1
<1>5. Stacked(outer, offsets)
  BY <1>1, <1>2, <1>3, SMTT(20) DEF Stacked
<1>6. Open(outer)
  BY <1>1, <1>2, <1>3 DEF Stacked, Open
<1>7. fs[Len(fs)].at = NextAt(outer)
  BY <1>1, <1>2, <1>3, <1>4 DEF Stacked, NextAt
<1>8. \A i \in 1..Len(outer) : outer[i].at < fs[Len(fs)].at
  BY <1>1, <1>2 DEF Stacked
<1> QED
  BY <1>2, <1>5, <1>6, <1>7, <1>8

LEMMA StackGrowsOffsets ==
  ASSUME NEW fs, NEW offsets, NEW more, Stacked(fs, offsets), offsets \subseteq more
  PROVE  Stacked(fs, more)
BY DEF Stacked

\* A new frame begins where the next pod does.
LEMMA StackPush ==
  ASSUME NEW fs, NEW offsets, NEW f \in Frame,
         Stacked(fs, offsets), Open(fs),
         f.at = NextAt(fs), f.written = 0,
         \A o \in offsets : o < f.at
  PROVE  Stacked(Append(fs, f), offsets \cup {f.at})
<1> DEFINE new == Append(fs, f)
<1>1. /\ fs \in Seq(Frame) /\ new \in Seq(Frame) /\ Len(new) = Len(fs) + 1
      /\ \A i \in 1..Len(fs) : new[i] = fs[i]
      /\ new[Len(fs) + 1] = f /\ Len(fs) \in Nat
  BY DEF Stacked
<1>2. f.at % 8 = 0
  BY NextAligned
<1>3. \A i \in 1..Len(new) : /\ new[i].at \in offsets \cup {f.at}
                             /\ new[i].at % 8 = 0
                             /\ new[i].kind # "array" => new[i].written % 8 = 0
  BY <1>1, <1>2 DEF Stacked
<1>4. ASSUME NEW i \in 1..Len(new) - 1
      PROVE  new[i].kind # "array" /\ new[i + 1].at = ChildAt(new[i])
  <2>1. CASE i = Len(fs)
    <3>1. fs # <<>> /\ new[i] = fs[Len(fs)] /\ new[i + 1] = f
      BY <1>1, <2>1
    <3> QED
      BY <3>1 DEF Open, NextAt
  <2>2. CASE i # Len(fs)
    <3>1. i \in 1..Len(fs) - 1 /\ new[i] = fs[i] /\ new[i + 1] = fs[i + 1]
      BY <1>1, <2>2
    <3> QED
      BY <3>1 DEF Stacked
  <2> QED
    BY <2>1, <2>2
<1>5. ASSUME NEW i \in 1..Len(new), NEW j \in 1..Len(new), i < j
      PROVE  new[i].at < new[j].at
  <2>1. i \in 1..Len(fs) /\ new[i] = fs[i] /\ fs[i].at \in offsets
    BY <1>1, <1>5 DEF Stacked
  <2>2. CASE j = Len(fs) + 1
    BY <1>1, <2>1, <2>2
  <2>3. CASE j # Len(fs) + 1
    BY <1>1, <1>5, <2>1, <2>3 DEF Stacked
  <2> QED
    BY <2>2, <2>3
<1>6. new # <<>> /\ new[1].at = 0
  <2>1. CASE fs = <<>>
    BY <1>1, <2>1 DEF NextAt
  <2>2. CASE fs # <<>>
    BY <1>1, <2>2 DEF Stacked
  <2> QED
    BY <1>1, <2>1, <2>2
<1> QED
  BY <1>1, <1>3, <1>4, <1>5, <1>6 DEF Stacked

\* What a finished pod adds to its parent.
Grown(outer, len) ==
  IF outer = <<>> THEN outer
  ELSE [outer EXCEPT ![Len(outer)].written = @ + len + Key(outer[Len(outer)])]

LEMMA StackReturn ==
  ASSUME NEW outer, NEW offsets, NEW len \in Nat,
         Stacked(outer, offsets), Open(outer), len % 8 = 0
  PROVE  LET new == Grown(outer, len)
         IN  /\ Stacked(new, offsets) /\ Open(new)
             /\ Len(new) = Len(outer)
             /\ new = <<>> <=> outer = <<>>
             /\ \A i \in 1..Len(new) : new[i].at = outer[i].at
             /\ new # <<>> =>
                  new[Len(new)].at + Extent(new[Len(new)]) = NextAt(outer) + len
<1>1. CASE outer = <<>>
  BY <1>1 DEF Grown
<1>2. CASE outer # <<>>
  <2> DEFINE new == Grown(outer, len)
             n == Len(outer)
             top == outer[n]
             top2 == [top EXCEPT !.written = @ + len + Key(top)]
  <2>1. outer \in Seq(Frame) /\ n \in Nat \ {0} /\ n \in 1..n /\ top \in Frame
    BY <1>2 DEF Stacked
  <2>2. top.kind # "array" /\ top.at % 8 = 0 /\ top.written % 8 = 0
    BY <1>2, <2>1 DEF Stacked, Open
  <2>3. /\ Key(top) \in {0, 8} /\ top.written \in Nat /\ top.at \in Nat
        /\ top.kind \in {"struct", "object", "array"}
    <3> HIDE DEF top
    <3> QED
      BY <2>1, ExtentTyped DEF Frame
  <2>4. /\ top2 \in Frame /\ top2.kind = top.kind /\ top2.at = top.at
        /\ top2.written = top.written + len + Key(top)
        /\ top2.elem = top.elem
    <3> HIDE DEF top
    <3>1. top.written + len + Key(top) \in Nat
      BY <2>3
    <3> QED
      BY <2>1, <3>1, WrittenChanges
  <2>5. top2.written % 8 = 0
    <3> HIDE DEF top, top2
    <3> QED
      BY <2>2, <2>3, <2>4, SMT
  <2>6. top2.at + Extent(top2) = ChildAt(top) + len
    <3> HIDE DEF top, top2
    <3> QED
      BY <2>2, <2>3, <2>4, SMT DEF Extent, ChildAt, Key
  <2>7. /\ new \in Seq(Frame) /\ Len(new) = n /\ new # <<>>
        /\ new[n] = top2
        /\ \A i \in 1..n - 1 : new[i] = outer[i]
    BY <1>2, <2>1, <2>4 DEF Grown
  <2>8. \A i \in 1..n : new[i].at = outer[i].at /\ new[i].kind = outer[i].kind
    <3> HIDE DEF new, top2
    <3>1. \A i \in 1..n : i = n \/ i \in 1..n - 1
      BY <2>1
    <3> QED
      BY <2>4, <2>7, <3>1
  <2>9. \A i \in 1..n : new[i].kind # "array" => new[i].written % 8 = 0
    <3> HIDE DEF new, top2
    <3>1. \A i \in 1..n : i = n \/ i \in 1..n - 1
      BY <2>1
    <3> QED
      BY <2>5, <2>7, <3>1 DEF Stacked
  <2>10. \A i \in 1..n - 1 : new[i].kind # "array" /\ new[i + 1].at = ChildAt(new[i])
    BY <2>1, <2>7, <2>8 DEF Stacked
  <2>11. Stacked(new, offsets)
    BY <1>2, <2>1, <2>7, <2>8, <2>9, <2>10 DEF Stacked
  <2> QED
    BY <1>2, <2>1, <2>2, <2>4, <2>6, <2>7, <2>8, <2>11 DEF Open, NextAt
<1> QED
  BY <1>1, <1>2

------------------------------------------------------------------------------
(* Headers and finished pods *)

LEMMA HeaderTyped ==
  ASSUME NEW type \in {"leaf", "choice", "pointer", "struct", "object", "array"},
         NEW size \in Nat, NEW elem \in Nat
  PROVE  /\ Header(type, size, elem) \in PodHeader
         /\ Header(type, size, elem).size = size % U32
<1>1. size % U32 \in 0..U32 - 1
  BY SMT, SerializerAssumption
<1> QED
  BY <1>1 DEF Header, PodHeader

\* A header is written at an offset that no finished pod has.
LEMMA HeadersKept ==
  ASSUME IInv, NEW at \in Nat, at < pos', pos <= pos',
         pos' \in 0..Capacity, NEW h \in PodHeader,
         headers' = Put(at, h),
         \A e \in extents : e.at # at
  PROVE  /\ DOMAIN headers' = DOMAIN headers \cup {at}
         /\ DOMAIN headers' \subseteq 0..pos' - 1
         /\ DOMAIN headers' \subseteq 0..Capacity
         /\ \A x \in DOMAIN headers' : headers'[x] \in PodHeader
         /\ extents \subseteq [at : DOMAIN headers', to : 0..Capacity]
         /\ \A e \in extents : /\ e.at \in DOMAIN headers'
                               /\ headers'[e.at] = headers[e.at]
         /\ headers'[at] = h
<1>1. /\ DOMAIN headers' = DOMAIN headers \cup {at}
      /\ headers'[at] = h
      /\ \A x \in DOMAIN headers : x # at => headers'[x] = headers[x]
  BY DEF Put
<1>2. pos \in Nat /\ DOMAIN headers \subseteq 0..pos - 1
  BY SerializerAssumption DEF IInv, TypeOK, StreamInv
<1>3. DOMAIN headers' \subseteq 0..pos' - 1
  BY <1>1, <1>2, SerializerAssumption
<1>4. DOMAIN headers' \subseteq 0..Capacity
  BY <1>3, SerializerAssumption
<1>5. \A x \in DOMAIN headers' : headers'[x] \in PodHeader
  BY <1>1 DEF IInv, TypeOK
<1>6. extents \subseteq [at : DOMAIN headers', to : 0..Capacity]
  BY <1>1 DEF IInv, TypeOK
<1>7. \A e \in extents : e.at \in DOMAIN headers' /\ headers'[e.at] = headers[e.at]
  BY <1>1 DEF IInv, ExtentInv
<1> QED
  BY <1>1, <1>3, <1>4, <1>5, <1>6, <1>7

\* What goes back to the parent leaves the stack as it must be.
LEMMA Returned ==
  ASSUME NEW outer, NEW offsets, NEW len \in Nat,
         Stacked(outer, offsets), Open(outer), len % 8 = 0,
         Return(outer, len), pos' = NextAt(outer) + len
  PROVE  /\ Stacked(frames', offsets) /\ Open(frames')
         /\ Len(frames') = Len(outer)
         /\ \A i \in 1..Len(frames') : frames'[i].at = outer[i].at
         /\ frames' \in Seq(Frame) /\ result' \in Nat
         /\ turn' \in {"done", "frame"}
         /\ turn' = "done" <=> frames' = <<>>
         /\ TurnInv'
<1>1. frames' = Grown(outer, len)
  BY DEF Return, Grown, Key
<1>2. /\ Stacked(frames', offsets) /\ Open(frames')
      /\ Len(frames') = Len(outer)
      /\ frames' = <<>> <=> outer = <<>>
      /\ \A i \in 1..Len(frames') : frames'[i].at = outer[i].at
      /\ frames' # <<>> =>
           frames'[Len(frames')].at + Extent(frames'[Len(frames')]) = NextAt(outer) + len
  <2> HIDE DEF Grown
  <2> QED
    BY <1>1, StackReturn
<1>3. result' = len /\ turn' = IF outer = <<>> THEN "done" ELSE "frame"
  BY DEF Return
<1>4. outer = <<>> => pos' = len
  BY DEF NextAt
<1>5. TurnInv'
  BY <1>2, <1>3, <1>4 DEF TurnInv, Top, Depth
<1> QED
  BY <1>2, <1>3, <1>5 DEF Stacked

\* A pod of len bytes that begins at "at" is finished, in the frame that is
\* the innermost of outer.
Finishes(outer, at, size, len, event) ==
  /\ len = 8 + size + Padding(size)
  /\ at = NextAt(outer) /\ pos' = at + len
  /\ pos <= pos' /\ pos' <= Capacity /\ length' = pos'
  /\ Stacked(outer, DOMAIN headers') /\ Open(outer)
  /\ \A i \in 1..Len(outer) : outer[i].at < at /\ \A e \in extents : outer[i].at # e.at
  /\ DOMAIN headers' \subseteq 0..pos' - 1
  /\ at \in DOMAIN headers'
  /\ \A x \in DOMAIN headers' : headers'[x] \in PodHeader
  /\ extents \subseteq [at : DOMAIN headers', to : 0..Capacity]
  /\ \A e \in extents : e.at \in DOMAIN headers' /\ headers'[e.at] = headers[e.at]
  /\ headers'[at].size = size
  /\ Return(outer, len)
  /\ extents' = extents \cup {[at |-> at, to |-> pos']}
  /\ events' = Append(events, event)

LEMMA PodFinished ==
  ASSUME Fresh, IInv, length' < U32, NEW outer, NEW at \in Nat, NEW size \in Nat,
         NEW len \in Nat, NEW event \in Calls,
         Finishes(outer, at, size, len, event)
  PROVE  IInv'
<1> USE DEF Finishes
<1>1. len % 8 = 0
  BY PodLength, Zenon
<1>2. /\ Stacked(frames', DOMAIN headers') /\ Open(frames')
      /\ Len(frames') = Len(outer)
      /\ \A i \in 1..Len(frames') : frames'[i].at = outer[i].at
      /\ frames' \in Seq(Frame) /\ result' \in Nat
      /\ turn' \in {"done", "frame"}
      /\ turn' = "done" <=> frames' = <<>>
      /\ TurnInv'
  BY <1>1, Returned
<1>3. pos' \in 0..Capacity /\ length' \in pos'..Capacity
  BY SerializerAssumption
<1>4. DOMAIN headers' \subseteq 0..Capacity
  BY <1>3, SerializerAssumption, SMTT(30)
<1>5. extents' \subseteq [at : DOMAIN headers', to : 0..Capacity]
  <2>1. [at |-> at, to |-> pos'] \in [at : DOMAIN headers', to : 0..Capacity]
    BY <1>3, Zenon
  <2> QED
    BY <2>1, Zenon
<1>6. events' \in Seq(Calls)
  BY AppendProperties DEF IInv, TypeOK
<1>7. TypeOK'
  BY <1>2, <1>3, <1>4, <1>5, <1>6 DEF TypeOK
<1>8. StreamInv'
  BY <1>2 DEF StreamInv
<1>9. ArrayInv'
  BY <1>2 DEF ArrayInv, Open, Top, Depth
<1>10. \A i \in 1..Len(frames') : frames'[i].at # at /\ \A e \in extents : frames'[i].at # e.at
  <2> TAKE i \in 1..Len(frames')
  <2>1. outer[i].at \in Nat /\ outer[i].at < at
    <3>1. outer \in Seq(Frame) /\ i \in 1..Len(outer)
      BY <1>2 DEF Stacked
    <3>2. outer[i] \in Frame
      BY <3>1
    <3> QED
      BY <3>1, <3>2 DEF Frame
  <2> QED
    BY <1>2, <2>1
<1>11. ExtentInv'
  <2>1. \A e \in extents' : e \in extents \/ e.at = at
    OBVIOUS
  <2>2. \A e \in extents' : e.at \in DOMAIN headers'
    BY <2>1
  <2>3. \A e \in extents' : \A i \in 1..Len(frames') : frames'[i].at # e.at
    BY <1>10, <2>1
  <2> QED
    BY <2>2, <2>3 DEF ExtentInv, Depth
<1>12. HeadersTruthful'
  <2>1. ASSUME NEW e \in extents
        PROVE  e.to - e.at = 8 + headers'[e.at].size + Padding(headers'[e.at].size)
    BY <2>1 DEF IInv, HeadersTruthful
  <2>2. pos' - at = len
    OBVIOUS
  <2>3. ASSUME NEW e \in extents'
        PROVE  e.to - e.at = 8 + headers'[e.at].size + Padding(headers'[e.at].size)
    <3>1. CASE e \in extents
      BY <2>1, <3>1
    <3>2. CASE e = [at |-> at, to |-> pos']
      BY <2>2, <3>2
    <3> QED
      BY <3>1, <3>2
  <2> QED
    BY <2>3, Zenon DEF HeadersTruthful, Padding
<1> QED
  BY <1>2, <1>7, <1>8, <1>9, <1>11, <1>12 DEF IInv

------------------------------------------------------------------------------
(* The steps *)

LEMMA StreamFacts ==
  ASSUME IInv
  PROVE  /\ pos \in 0..Capacity /\ pos \in Nat /\ length = pos /\ pos < U32
         /\ DOMAIN headers \subseteq 0..pos - 1
         /\ \A o \in DOMAIN headers : o < pos
         /\ \A e \in extents : e.at # pos
         /\ \A i \in 1..Depth : frames[i].at < pos
         /\ Stacked(frames, DOMAIN headers) /\ frames \in Seq(Frame)
<1>1. pos \in 0..Capacity /\ length = pos /\ DOMAIN headers \subseteq 0..pos - 1
      /\ pos < U32
      /\ Stacked(frames, DOMAIN headers) /\ frames \in Seq(Frame)
  BY DEF IInv, TypeOK, StreamInv
<1>2. \A o \in DOMAIN headers : o \in Nat /\ o < pos
  BY <1>1, SerializerAssumption
<1>3. \A e \in extents : e.at \in DOMAIN headers
  BY DEF IInv, ExtentInv
<1>4. \A i \in 1..Depth : frames[i].at \in DOMAIN headers
  BY <1>1 DEF Stacked, Depth
<1>5. pos \in Nat
  BY <1>1, SerializerAssumption
<1> QED
  BY <1>1, <1>2, <1>3, <1>4, <1>5

LEMMA GenFacts ==
  ASSUME IInv, NEW n \in Nat, Gen(n)
  PROVE  /\ pos' = pos + n /\ length' = pos' /\ pos <= pos' /\ pos' <= Capacity
         /\ pos' \in 0..Capacity
BY StreamFacts, SerializerAssumption, SMT DEF Gen

LEMMA WholeStep ==
  ASSUME Fresh, IInv, length' < U32,
         NEW type \in {"leaf", "choice", "pointer"}, NEW size \in Nat, NEW elem \in Nat,
         NEW event \in Calls,
         Whole(type, size, elem, Padding(size), event)
  PROVE  IInv'
<1> DEFINE len == 8 + size + Padding(size)
           h == Header(type, size, elem)
<1>1. Padding(size) \in Nat /\ len \in Nat /\ 8 <= len /\ size <= len
      /\ len = 8 + size + Padding(size)
  BY PodLength, Zenon
<1>2. /\ turn = "value" /\ Gen(len) /\ headers' = Put(pos, h)
      /\ Return(frames, len) /\ events' = Append(events, event)
      /\ extents' = extents \cup {[at |-> pos, to |-> pos']}
  BY DEF Whole, Record
<1> HIDE DEF len
<1>3. /\ pos' = pos + len /\ length' = pos' /\ pos <= pos' /\ pos' <= Capacity
      /\ pos' \in 0..Capacity
  BY <1>1, <1>2, GenFacts
<1>4. Open(frames) /\ pos = NextAt(frames)
  BY <1>2 DEF IInv, TurnInv
<1>5. h \in PodHeader /\ h.size = size
  <2>1. size < U32
    BY <1>1, <1>3, StreamFacts, SerializerAssumption, SMTT(30)
  <2> QED
    BY <2>1, HeaderTyped, SizeFits
<1> HIDE DEF h
<1>6. pos < pos' /\ pos \in Nat /\ \A e \in extents : e.at # pos
  BY <1>1, <1>3, StreamFacts
<1>7. /\ DOMAIN headers' = DOMAIN headers \cup {pos}
      /\ DOMAIN headers' \subseteq 0..pos' - 1
      /\ \A x \in DOMAIN headers' : headers'[x] \in PodHeader
      /\ extents \subseteq [at : DOMAIN headers', to : 0..Capacity]
      /\ \A e \in extents : e.at \in DOMAIN headers' /\ headers'[e.at] = headers[e.at]
      /\ headers'[pos] = h
  BY <1>2, <1>3, <1>5, <1>6, HeadersKept
<1>8. Stacked(frames, DOMAIN headers')
  BY <1>7, StreamFacts, StackGrowsOffsets
<1>9. \A i \in 1..Len(frames) : frames[i].at < pos /\ \A e \in extents : frames[i].at # e.at
  BY StreamFacts DEF IInv, ExtentInv, Depth
<1>10. headers'[pos].size = size /\ pos \in DOMAIN headers'
  BY <1>5, <1>7
<1>11. Finishes(frames, pos, size, len, event)
  BY <1>1, <1>2, <1>3, <1>4, <1>7, <1>8, <1>9, <1>10, Zenon DEF Finishes
<1> QED
  BY <1>1, <1>6, <1>11, PodFinished

\* Without its top, the stack of an open struct, object or array.
LEMMA TopFacts ==
  ASSUME IInv, turn = "frame"
  PROVE  /\ Depth \in Nat \ {0} /\ Top \in Frame /\ Top.at \in DOMAIN headers
         /\ Top.at \in Nat /\ Top.written \in Nat /\ Top.at < pos
         /\ Stacked(Outer, DOMAIN headers) /\ Open(Outer)
         /\ Top.at = NextAt(Outer)
         /\ pos = Top.at + Extent(Top)
         /\ \A i \in 1..Len(Outer) : /\ Outer[i].at < Top.at
                                     /\ \A e \in extents : Outer[i].at # e.at
         /\ \A e \in extents : e.at # Top.at
<1>1. frames # <<>> /\ pos = Top.at + Extent(Top)
  BY DEF IInv, TurnInv
<1>2. Depth \in Nat \ {0} /\ Depth \in 1..Depth
  BY <1>1, StreamFacts DEF Depth
<1>3. Top \in Frame /\ Top.at \in DOMAIN headers
  BY <1>2, StreamFacts DEF Top, Depth, Stacked
<1>4. Top.at \in Nat /\ Top.written \in Nat
  BY <1>3 DEF Frame
<1>5. Top.at < pos
  BY <1>2, StreamFacts DEF Top
<1>6. /\ Stacked(Outer, DOMAIN headers) /\ Open(Outer)
      /\ Len(Outer) = Depth - 1
      /\ Top.at = NextAt(Outer)
      /\ \A i \in 1..Len(Outer) : Outer[i] = frames[i] /\ Outer[i].at < Top.at
  BY <1>1, StreamFacts, StackPop DEF Outer, Top, Depth
<1>7. \A e \in extents : \A i \in 1..Depth : frames[i].at # e.at
  BY DEF IInv, ExtentInv
<1>8. \A e \in extents : e.at # Top.at
  BY <1>2, <1>7 DEF Top
<1>9. \A i \in 1..Len(Outer) : \A e \in extents : Outer[i].at # e.at
  BY <1>2, <1>6, <1>7
<1> QED
  BY <1>1, <1>2, <1>3, <1>4, <1>5, <1>6, <1>8, <1>9

LEMMA EndStep ==
  ASSUME Fresh, IInv, length' < U32, NEW kind \in {"struct", "object"}, NEW size \in Nat,
         End(kind, size), Extent(Top) = 8 + size
  PROVE  IInv'
<1> DEFINE h == Header(kind, size, 0)
           at == Top.at
<1>1. /\ turn = "frame" /\ Top.kind = kind /\ headers' = Put(at, h)
      /\ pos' = length /\ length' = length
      /\ Return(Outer, 8 + size) /\ extents' = extents \cup {[at |-> at, to |-> pos]}
      /\ events' = Append(events, <<"end", 0>>)
  BY DEF End, Record
<1>2. /\ Top \in Frame /\ at \in DOMAIN headers /\ at \in Nat /\ Top.written \in Nat
      /\ at < pos /\ Stacked(Outer, DOMAIN headers) /\ Open(Outer)
      /\ at = NextAt(Outer) /\ pos = at + Extent(Top) /\ Depth \in Nat \ {0}
      /\ \A i \in 1..Len(Outer) : /\ Outer[i].at < at
                                  /\ \A e \in extents : Outer[i].at # e.at
      /\ \A e \in extents : e.at # at
  BY <1>1, TopFacts
<1>3. pos' = pos /\ length' = pos' /\ pos' \in 0..Capacity /\ pos \in Nat
  BY <1>1, StreamFacts
<1>4. size \in Nat /\ size < U32 /\ 8 + size \in Nat /\ pos = at + (8 + size)
  BY <1>2, <1>3, StreamFacts, SerializerAssumption
<1>5. h \in PodHeader /\ h.size = size
  BY <1>4, HeaderTyped, SizeFits
<1> HIDE DEF h
<1>6. /\ DOMAIN headers' = DOMAIN headers \cup {at}
      /\ DOMAIN headers' \subseteq 0..pos' - 1
      /\ \A x \in DOMAIN headers' : headers'[x] \in PodHeader
      /\ extents \subseteq [at : DOMAIN headers', to : 0..Capacity]
      /\ \A e \in extents : e.at \in DOMAIN headers' /\ headers'[e.at] = headers[e.at]
      /\ headers'[at] = h
  <2>1. at \in Nat /\ at < pos' /\ pos <= pos' /\ pos' \in 0..Capacity
    BY <1>2, <1>3
  <2>2. headers' = Put(at, h) /\ \A e \in extents : e.at # at
    BY <1>1, <1>2
  <2> HIDE DEF at
  <2> QED
    BY <1>5, <2>1, <2>2, HeadersKept
<1>7. Stacked(Outer, DOMAIN headers')
  BY <1>2, <1>6, StackGrowsOffsets
<1>8. Padding(size) = 0
  <2>1. (8 + size) % 8 = 0
    <3>1. Top.at % 8 = 0 /\ (Top.at + Extent(Top)) % 8 = 0
      <4>1. Top.at % 8 = 0 /\ (Top.kind # "array" => Top.written % 8 = 0)
        <5>1. Depth \in 1..Len(frames)
          BY <1>2 DEF Depth
        <5> QED
          BY <5>1, StreamFacts DEF Stacked, Top
      <4> QED
        BY <1>1, <1>2, <4>1, ChildAligned
    <3> QED
      BY <1>2, <1>4, <3>1, SMTT(20)
  <2> QED
    BY <2>1 DEF Padding
<1>9. headers'[at].size = size /\ at \in DOMAIN headers' /\ 8 + size = 8 + size + Padding(size)
  BY <1>5, <1>6, <1>8
<1> QED
  <2>1. <<"end", 0>> \in Calls
    BY DEF Calls
  <2>2. /\ pos' = at + (8 + size) /\ pos <= pos' /\ pos' <= Capacity
        /\ extents' = extents \cup {[at |-> at, to |-> pos']}
    BY <1>1, <1>3, <1>4, SerializerAssumption
  <2> HIDE DEF at
  <2>3. Finishes(Outer, at, size, 8 + size, <<"end", 0>>)
    BY <1>1, <1>2, <1>3, <1>6, <1>7, <1>9, <2>2, Zenon DEF Finishes
  <2> QED
    BY <1>2, <1>4, <2>1, <2>3, PodFinished

\* The body of an array is shorter than the stream.
LEMMA BodyFits ==
  ASSUME IInv, turn = "frame", Top.kind = "array"
  PROVE  BodyWritten = Top.written * Top.elem
<1>1. /\ Top \in Frame /\ Top.at \in Nat /\ pos = Top.at + Extent(Top)
      /\ pos \in Nat /\ pos < U32
  BY TopFacts, StreamFacts
<1>2. Top.written * Top.elem \in Nat /\ Extent(Top) = 16 + Top.written * Top.elem
  BY <1>1, Products, ExtentTyped DEF Frame
<1>3. Top.written * Top.elem < U32
  BY <1>1, <1>2, SerializerAssumption
<1> QED
  BY <1>2, <1>3, SizeFits DEF BodyWritten

LEMMA ArrayEndStep ==
  ASSUME Fresh, IInv, length' < U32, ArrayEnd
  PROVE  IInv'
<1> DEFINE at == Top.at
           bytes == Top.written * Top.elem
           size == 8 + bytes
           len == 16 + bytes + Padding(bytes)
<1> turn = "frame" /\ Top.kind = "array"
  BY DEF ArrayEnd, ArrayEndWith
<1>0. BodyWritten = bytes
  BY BodyFits
<1>1. /\ turn = "frame" /\ Top.kind = "array" /\ Top.written = Top.length
      /\ Gen(Padding(bytes)) /\ headers' = headers
      /\ Return(Outer, len) /\ extents' = extents \cup {[at |-> at, to |-> pos']}
      /\ events' = Append(events, <<"end", 0>>)
  BY <1>0 DEF ArrayEnd, ArrayEndWith, Record
<1>2. /\ Top \in Frame /\ at \in DOMAIN headers /\ at \in Nat /\ Top.written \in Nat
      /\ at < pos /\ Stacked(Outer, DOMAIN headers) /\ Open(Outer)
      /\ at = NextAt(Outer) /\ pos = at + Extent(Top) /\ Depth \in Nat \ {0}
      /\ \A i \in 1..Len(Outer) : /\ Outer[i].at < at
                                  /\ \A e \in extents : Outer[i].at # e.at
  BY <1>1, TopFacts
<1>3. bytes \in Nat /\ Extent(Top) = 16 + bytes
  BY <1>1, <1>2, Products, ExtentTyped DEF Frame
<1>4. headers[at].size = (8 + bytes) % U32
  BY <1>1, <1>2, StreamFacts, EmptySeq DEF IInv, ArrayInv, Depth
<1>5. \A x \in DOMAIN headers : headers[x] \in PodHeader
  BY DEF IInv, TypeOK
<1>6. /\ extents \subseteq [at : DOMAIN headers, to : 0..Capacity]
      /\ \A e \in extents : e.at \in DOMAIN headers
  BY DEF IInv, TypeOK, ExtentInv
<1>7. StreamInv /\ pos \in Nat /\ pos \in 0..Capacity
  BY StreamFacts DEF IInv
<1>8. <<"end", 0>> \in Calls
  BY DEF Calls
<1> HIDE DEF at, bytes
<1>9. /\ Padding(bytes) \in Nat /\ Padding(8 + bytes) = Padding(bytes)
  BY <1>3, SMT DEF Padding
<1>10. /\ pos' = pos + Padding(bytes) /\ length' = pos' /\ pos <= pos'
       /\ pos' <= Capacity /\ pos' \in 0..Capacity
  BY <1>1, <1>9, GenFacts
<1>11. /\ len = 8 + size + Padding(size) /\ pos' = at + len
       /\ len \in Nat /\ size \in Nat
  <2>1. pos = at + 16 + bytes /\ at \in Nat
    BY <1>2, <1>3
  <2>2. pos' = at + len /\ len \in Nat /\ size \in Nat
    BY <1>3, <1>9, <1>10, <2>1
  <2>3. len = 8 + size + Padding(bytes) /\ Padding(size) = Padding(bytes)
    BY <1>3, <1>9
  <2> QED
    BY <2>2, <2>3
<1>12. headers'[at].size = size
  <2>1. size < U32
    BY <1>2, <1>3, <1>7, StreamFacts, SerializerAssumption
  <2> QED
    BY <1>1, <1>4, <1>11, <2>1, SizeFits
<1>13. DOMAIN headers' \subseteq 0..pos' - 1
  BY <1>1, <1>7, <1>10, SerializerAssumption DEF StreamInv
<1> HIDE DEF len, size
<1>14. Finishes(Outer, at, size, len, <<"end", 0>>)
  BY <1>1, <1>2, <1>5, <1>6, <1>10, <1>11, <1>12, <1>13, Zenon DEF Finishes
<1> QED
  BY <1>2, <1>8, <1>11, <1>14, PodFinished

\* A frame with the header h is opened.
Opens(n, f, h, event) ==
  /\ turn = "value" /\ turn' = "frame"
  /\ Gen(n) /\ n \in Nat /\ 8 <= n
  /\ f.at = pos /\ f.written = 0 /\ Extent(f) = n
  /\ f.kind = "array" => h.size = (8 + f.length * f.elem) % U32
  /\ headers' = Put(pos, h)
  /\ frames' = Append(frames, f)
  /\ events' = Append(events, event)
  /\ result' = result /\ extents' = extents

LEMMA FrameOpened ==
  ASSUME Fresh, IInv, length' < U32, NEW n, NEW f \in Frame, NEW h \in PodHeader, NEW event \in Calls,
         Opens(n, f, h, event)
  PROVE  IInv'
<1>1. /\ turn = "value" /\ turn' = "frame" /\ Gen(n) /\ n \in Nat /\ 8 <= n
      /\ f.at = pos /\ f.written = 0 /\ Extent(f) = n
      /\ f.kind = "array" => h.size = (8 + f.length * f.elem) % U32
      /\ headers' = Put(pos, h) /\ frames' = Append(frames, f)
      /\ events' = Append(events, event) /\ result' = result /\ extents' = extents
  BY DEF Opens
<1>2. /\ pos' = pos + n /\ length' = pos' /\ pos <= pos' /\ pos' \in 0..Capacity
  BY <1>1, GenFacts
<1>3. /\ pos \in Nat /\ pos < pos'
      /\ \A o \in DOMAIN headers : o < pos
      /\ \A e \in extents : e.at # pos
      /\ Stacked(frames, DOMAIN headers) /\ frames \in Seq(Frame)
      /\ \A i \in 1..Len(frames) : frames[i].at < pos
  BY <1>1, <1>2, StreamFacts DEF Depth
<1>4. Open(frames) /\ pos = NextAt(frames)
  BY <1>1 DEF IInv, TurnInv
<1>5. /\ DOMAIN headers' = DOMAIN headers \cup {pos}
      /\ DOMAIN headers' \subseteq 0..pos' - 1
      /\ DOMAIN headers' \subseteq 0..Capacity
      /\ \A x \in DOMAIN headers' : headers'[x] \in PodHeader
      /\ extents \subseteq [at : DOMAIN headers', to : 0..Capacity]
      /\ \A e \in extents : e.at \in DOMAIN headers' /\ headers'[e.at] = headers[e.at]
      /\ headers'[pos] = h
  BY <1>1, <1>2, <1>3, HeadersKept
<1>6. Stacked(frames', DOMAIN headers')
  BY <1>1, <1>3, <1>4, <1>5, StackPush
<1>7. /\ frames' \in Seq(Frame) /\ frames' # <<>> /\ Len(frames') = Len(frames) + 1
      /\ frames'[Len(frames')] = f
      /\ \A i \in 1..Len(frames) : frames'[i] = frames[i]
  BY <1>1, <1>3, AppendProperties
<1>8. TypeOK'
  <2>1. events' \in Seq(Calls)
    BY <1>1, AppendProperties DEF IInv, TypeOK
  <2>2. length' \in pos'..Capacity
    BY <1>2, SerializerAssumption
  <2>3. result' \in Nat
    BY <1>1 DEF IInv, TypeOK
  <2> QED
    BY <1>1, <1>2, <1>5, <1>7, <2>1, <2>2, <2>3, Zenon DEF TypeOK
<1>9. StreamInv'
  BY <1>2, <1>5, <1>6 DEF StreamInv
<1>10. Top' = f /\ Depth' = Len(frames) + 1
  BY <1>7 DEF Top, Depth
<1>11. TurnInv'
  BY <1>1, <1>2, <1>7, <1>10 DEF TurnInv
<1>12. ArrayInv'
  BY <1>1, <1>5, <1>10 DEF ArrayInv
<1>13. ExtentInv'
  <2>1. ASSUME NEW e \in extents, NEW i \in 1..Len(frames) + 1
        PROVE  frames'[i].at # e.at
    <3>1. CASE i \in 1..Len(frames)
      BY <1>7, <2>1, <3>1 DEF IInv, ExtentInv, Depth
    <3>2. CASE i = Len(frames) + 1
      BY <1>1, <1>3, <1>7, <2>1, <3>2
    <3> QED
      BY <1>3, <3>1, <3>2, LenProperties
  <2> QED
    BY <1>1, <1>5, <1>10, <2>1 DEF ExtentInv
<1>14. HeadersTruthful'
  BY <1>1, <1>5 DEF IInv, HeadersTruthful
<1> QED
  BY <1>8, <1>9, <1>11, <1>12, <1>13, <1>14 DEF IInv

LEMMA BeginStep ==
  ASSUME Fresh, IInv, length' < U32, SerializeStruct \/ SerializeObject
  PROVE  IInv'
<1>1. PICK kind \in {"struct", "object"}, n \in {8, 16} :
        Begin(kind, n) /\ n = IF kind = "struct" THEN 8 ELSE 16
  BY DEF SerializeStruct, SerializeObject
<1> DEFINE f == [kind |-> kind, at |-> pos, written |-> 0, length |-> 0, elem |-> 0]
           h == Header(kind, 0, 0)
<1>2. f \in Frame /\ f.kind = kind /\ f.at = pos /\ f.written = 0
  BY StreamFacts DEF Frame
<1>3. Extent(f) = n
  BY <1>1, <1>2 DEF Extent
<1>4. h \in PodHeader /\ <<kind, n>> \in Calls
  BY HeaderTyped DEF Calls
<1>5. Opens(n, f, h, <<kind, n>>)
  <2> HIDE DEF f, h
  <2>1. /\ turn = "value" /\ turn' = "frame" /\ Gen(n)
        /\ headers' = Put(pos, h) /\ frames' = Append(frames, f)
        /\ events' = Append(events, <<kind, n>>) /\ result' = result /\ extents' = extents
    BY <1>1 DEF Begin, Record, f, h
  <2> QED
    BY <1>2, <1>3, <2>1 DEF Opens
<1> QED
  <2> HIDE DEF f, h
  <2> QED
    BY <1>2, <1>4, <1>5, FrameOpened

LEMMA ArrayStep ==
  ASSUME Fresh, IInv, length' < U32, NEW count \in Lengths, NEW elem \in ElemSizes,
         SerializeArray(count, elem)
  PROVE  IInv'
<1> DEFINE f == [kind |-> "array", at |-> pos, written |-> 0, length |-> count, elem |-> elem]
           h == Header("array", 8 + count * elem, elem)
<1>1. count \in Nat /\ elem \in Nat /\ 8 + count * elem \in Nat
  BY SerializerAssumption, Products
<1>2. /\ f \in Frame /\ f.kind = "array" /\ f.at = pos /\ f.written = 0
      /\ f.length = count /\ f.elem = elem
  BY <1>1, StreamFacts DEF Frame
<1>3. Extent(f) = 16
  <2> HIDE DEF f
  <2>1. f.written * f.elem = 0
    BY <1>1, <1>2, Products
  <2> QED
    BY <1>2, <2>1 DEF Extent
<1>4. h \in PodHeader /\ h.size = (8 + count * elem) % U32
  BY <1>1, HeaderTyped
<1> DEFINE event == <<IF elem = 0 THEN "units" ELSE "array", count>>
<1>5. event \in Calls
  BY <1>1 DEF Calls
<1> HIDE DEF f, h
<1>6. Opens(16, f, h, event)
  <2>1. /\ turn = "value" /\ turn' = "frame" /\ Gen(16)
        /\ headers' = Put(pos, h) /\ frames' = Append(frames, f)
        /\ events' = Append(events, event)
        /\ result' = result /\ extents' = extents
    BY DEF SerializeArray, Record, f, h
  <2> QED
    BY <1>2, <1>3, <1>4, <2>1 DEF Opens
<1> HIDE DEF event
<1> QED
  BY <1>2, <1>4, <1>5, <1>6, FrameOpened

\* Elements that have bytes are fewer than the stream has.
LEMMA ElementsFit ==
  ASSUME IInv, turn = "frame", Top.kind = "array", Top.elem # 0,
         length' < U32, length' = pos + Top.elem
  PROVE  Top.written + 1 < U32
<1>1. /\ Top \in Frame /\ Top.at \in Nat /\ pos = Top.at + Extent(Top)
      /\ Top.written \in Nat /\ Top.elem \in Nat
  BY TopFacts DEF Frame
<1>2. Extent(Top) = 16 + Top.written * Top.elem
  BY <1>1, ExtentTyped
<1>3. Top.written <= Top.written * Top.elem /\ Top.written * Top.elem \in Nat
  BY <1>1, Products, ProductGrows
<1> QED
  BY <1>1, <1>2, <1>3, SerializerAssumption

LEMMA ElementStep ==
  ASSUME Fresh, IInv, length' < U32, SerializeElement
  PROVE  IInv'
<1> DEFINE w == (Top.written + 1) % U32
           g == [Top EXCEPT !.written = w]
<1>1. /\ turn = "frame" /\ Top.kind = "array" /\ Gen(Top.elem)
      /\ frames' = [frames EXCEPT ![Depth].written = (@ + 1) % U32]
      /\ events' = events \/ events' = Append(events, <<"element", Top.elem>>)
      /\ UNCHANGED <<headers, turn, result, extents>>
  BY DEF SerializeElement, Record
<1>2. /\ Top \in Frame /\ Top.written \in Nat /\ Top.elem \in Nat /\ Top.at \in Nat
      /\ pos = Top.at + Extent(Top)
      /\ Depth \in Nat \ {0} /\ Depth \in 1..Len(frames) /\ Depth = Len(frames)
      /\ frames \in Seq(Frame)
  BY <1>1, TopFacts, StreamFacts DEF Depth, Frame
<1>3. /\ pos' = pos + Top.elem /\ length' = pos' /\ pos <= pos' /\ pos' \in 0..Capacity
  BY <1>1, <1>2, GenFacts
<1>w. w \in Nat /\ w * Top.elem = Top.written * Top.elem + Top.elem
  <2>1. w \in Nat
    BY <1>2, SerializerAssumption
  <2>2. CASE Top.elem = 0
    BY <1>2, <2>1, <2>2, Products
  <2>3. CASE Top.elem # 0
    <3>1. Top.written + 1 < U32
      BY <1>1, <1>2, <1>3, <2>3, ElementsFit
    <3>2. w = Top.written + 1
      BY <1>2, <3>1, SizeFits
    <3> HIDE DEF w
    <3> QED
      BY <1>2, <2>1, <3>2, Products
  <2> QED
    BY <2>1, <2>2, <2>3
<1>4. /\ g \in Frame /\ g.kind = Top.kind /\ g.at = Top.at /\ g.length = Top.length
      /\ g.elem = Top.elem /\ g.written = w
  <2> HIDE DEF w
  <2> QED
    BY <1>2, <1>w, WrittenChanges
<1>5. /\ frames' \in Seq(Frame) /\ Len(frames') = Len(frames)
      /\ \A i \in 1..Len(frames) : frames'[i] = IF i = Depth THEN g ELSE frames[i]
  <2>1. frames' = [frames EXCEPT ![Depth] = g]
    BY <1>1 DEF Top
  <2> HIDE DEF g
  <2> QED
    BY <1>2, <1>4, <2>1, ExceptSeq
<1>6. Extent(g) = Extent(Top) + Top.elem
  <2> HIDE DEF g
  <2>1. g.written * g.elem = Top.written * Top.elem + Top.elem
    BY <1>4, <1>w
  <2>2. Top.written * Top.elem \in Nat
    BY <1>2, Products
  <2>3. Extent(g) = 16 + g.written * g.elem /\ Extent(Top) = 16 + Top.written * Top.elem
    BY <1>1, <1>2, <1>4, ExtentTyped
  <2> QED
    BY <1>2, <2>1, <2>2, <2>3
<1>7. Top' = g /\ Depth' = Depth
  BY <1>2, <1>5 DEF Top, Depth
<1> HIDE DEF g
<1>8. Stacked(frames', DOMAIN headers')
  <2>1. /\ \A i \in 1..Len(frames) : frames'[i].at = frames[i].at /\ frames'[i].kind = frames[i].kind
        /\ frames'[Depth].kind = "array"
    BY <1>1, <1>2, <1>4, <1>5 DEF Top
  <2>2. \A i \in 1..Len(frames) - 1 : frames'[i] = frames[i]
    BY <1>2, <1>5
  <2>3. \A i \in 1..Len(frames) : frames'[i].kind # "array" => frames'[i] = frames[i]
    BY <1>2, <1>5, <2>1
  <2>4. Stacked(frames, DOMAIN headers)
    BY StreamFacts
  <2>5. \A i \in 1..Len(frames) : /\ frames'[i].at \in DOMAIN headers
                                  /\ frames'[i].at % 8 = 0
                                  /\ frames'[i].kind # "array" => frames'[i].written % 8 = 0
    BY <2>1, <2>3, <2>4 DEF Stacked
  <2>6. \A i \in 1..Len(frames) - 1 : /\ frames'[i].kind # "array"
                                      /\ frames'[i + 1].at = ChildAt(frames'[i])
    BY <1>2, <2>1, <2>2, <2>4 DEF Stacked
  <2>7. \A i, j \in 1..Len(frames) : i < j => frames'[i].at < frames'[j].at
    BY <2>1, <2>4 DEF Stacked
  <2>8. frames'[1].at = 0
    BY <1>2, <2>1, <2>4, EmptySeq DEF Stacked
  <2> QED
    BY <1>1, <1>5, <2>5, <2>6, <2>7, <2>8 DEF Stacked
<1>9. TypeOK'
  <2>1. <<"element", Top.elem>> \in Calls
    BY <1>2 DEF Calls
  <2>2. events' \in Seq(Calls)
    <3>1. events \in Seq(Calls)
      BY DEF IInv, TypeOK
    <3> QED
      BY <1>1, <2>1, <3>1, AppendProperties
  <2>3. length' \in pos'..Capacity
    BY <1>3, SerializerAssumption
  <2>4. frames' # <<>>
    BY <1>2, <1>5, EmptySeq
  <2> QED
    BY <1>1, <1>3, <1>5, <2>2, <2>3, <2>4 DEF IInv, TypeOK
<1>10. StreamInv'
  <2>1. DOMAIN headers' \subseteq 0..pos' - 1
    BY <1>1, <1>3, StreamFacts, SerializerAssumption
  <2> QED
    BY <1>3, <1>8, <2>1 DEF StreamInv
<1>11. TurnInv'
  <2>1. pos' = g.at + Extent(g)
    <3>1. Extent(Top) \in Nat
      BY <1>2, ExtentTyped
    <3> QED
      BY <1>2, <1>3, <1>4, <1>6, <3>1
  <2>2. frames' # <<>>
    BY <1>2, <1>5, EmptySeq
  <2> QED
    BY <1>1, <1>7, <2>1, <2>2 DEF TurnInv
<1>12. ArrayInv'
  <2>1. frames # <<>>
    BY <1>2, EmptySeq
  <2> QED
    BY <1>1, <1>4, <1>7, <2>1 DEF IInv, ArrayInv
<1>13. ExtentInv'
  <2>1. \A i \in 1..Depth : frames'[i].at = frames[i].at
    BY <1>2, <1>4, <1>5 DEF Top
  <2> QED
    BY <1>1, <1>7, <2>1 DEF IInv, ExtentInv
<1>14. HeadersTruthful'
  BY <1>1 DEF IInv, HeadersTruthful
<1> QED
  BY <1>9, <1>10, <1>11, <1>12, <1>13, <1>14 DEF IInv

\* A pod in a struct or an object is about to be written.
LEMMA NestStep ==
  ASSUME Fresh, IInv, length' < U32, SerializeField \/ SerializeProperty
  PROVE  IInv'
<1>1. /\ turn = "frame" /\ Top.kind \in {"struct", "object"} /\ turn' = "value"
      /\ UNCHANGED <<headers, frames, result, extents>>
  BY DEF SerializeField, SerializeProperty
<1>2. /\ Top \in Frame /\ pos = Top.at + Extent(Top) /\ Extent(Top) \in Nat
      /\ Top.at \in Nat /\ frames # <<>>
  BY <1>1, TopFacts, ExtentTyped, EmptySeq DEF Depth
<1>3. /\ pos' = pos + Key(Top) /\ length' = pos' /\ pos <= pos' /\ pos' \in 0..Capacity
      /\ events' \in Seq(Calls)
  <2>1. CASE SerializeField
    <3>1. Key(Top) = 0 /\ pos' = pos /\ length' = length /\ events' = events
      BY <2>1 DEF SerializeField, Key, stream
    <3> QED
      BY <3>1, StreamFacts DEF IInv, TypeOK
  <2>2. CASE SerializeProperty
    <3>1. Key(Top) = 8 /\ Gen(8) /\ events' = Append(events, <<"property", 8>>)
      BY <2>2 DEF SerializeProperty, Key, Record
    <3>2. <<"property", 8>> \in Calls
      BY DEF Calls
    <3>3. events' \in Seq(Calls)
      BY <3>1, <3>2, AppendProperties DEF IInv, TypeOK
    <3> QED
      BY <3>1, <3>3, GenFacts
  <2> QED
    BY <2>1, <2>2
<1>4. TypeOK'
  <2>1. length' \in pos'..Capacity
    BY <1>3, SerializerAssumption
  <2> QED
    BY <1>1, <1>3, <2>1 DEF IInv, TypeOK
<1>5. StreamInv'
  <2>1. DOMAIN headers \subseteq 0..pos' - 1
    BY <1>3, StreamFacts, SerializerAssumption
  <2> QED
    BY <1>1, <1>3, <2>1 DEF IInv, StreamInv
<1>6. TurnInv'
  <2>1. pos' = NextAt(frames) /\ Open(frames)
    BY <1>1, <1>2, <1>3, ExtentTyped DEF NextAt, Open, ChildAt, Top, Depth
  <2> QED
    BY <1>1, <2>1 DEF TurnInv
<1>7. ArrayInv' /\ ExtentInv' /\ HeadersTruthful'
  BY <1>1 DEF IInv, ArrayInv, ExtentInv, HeadersTruthful, Top, Depth
<1> QED
  BY <1>4, <1>5, <1>6, <1>7 DEF IInv

LEMMA StopStep ==
  ASSUME Fresh, IInv, turn' \in {"failed", "panicked"},
         UNCHANGED <<stream, headers, frames, result, extents, events>>
  PROVE  IInv'
BY DEF IInv, TypeOK, StreamInv, TurnInv, ArrayInv, ExtentInv, HeadersTruthful,
       stream, Top, Depth

LEMMA Initially ==
  ASSUME Fresh, Init
  PROVE  IInv
<1>1. /\ pos = 0 /\ length = 0 /\ headers = <<>> /\ frames = <<>> /\ turn = "value"
      /\ result = 0 /\ extents = {} /\ events = <<>>
  BY DEF Init, Fresh
<1>2. DOMAIN headers = {}
  BY <1>1
<1>3. TypeOK
  BY <1>1, <1>2, SerializerAssumption, EmptySeq DEF TypeOK
<1>4. Stacked(frames, DOMAIN headers)
  BY <1>1, EmptySeq DEF Stacked
<1> QED
  BY <1>1, <1>2, <1>3, <1>4, EmptySeq, SerializerAssumption
     DEF IInv, StreamInv, TurnInv, ArrayInv, ExtentInv, HeadersTruthful, Open, NextAt, Depth

LEMMA Preserved ==
  ASSUME Fresh, IInv, length' < U32, [Next]_vars
  PROVE  IInv'
<1>1. ASSUME NEW size \in LeafSizes, WritePod(size)
      PROVE  IInv'
  <2>1. size \in Nat /\ <<"leaf", size>> \in Calls
    BY SerializerAssumption DEF Calls
  <2> QED
    BY <1>1, <2>1, WholeStep DEF WritePod
<1>2. ASSUME NEW count \in Lengths, NEW elem \in ElemSizes, Choice(count + 1, elem)
      PROVE  IInv'
  <2>1. count + 1 \in Nat /\ elem \in Nat
    BY SerializerAssumption
  <2>2. 16 + (count + 1) * elem \in Nat
    BY <2>1, Products
  <2>3. <<"choice", count + 1>> \in Calls
    BY <2>1 DEF Calls
  <2> QED
    BY <1>2, <2>1, <2>2, <2>3, WholeStep DEF Choice
<1>3. CASE Pointer
  <2>1. 8 + PtrSize = 16 /\ Padding(16) = 0 /\ PtrSize \in Nat
    BY DEF Fresh, Padding
  <2>2. <<"pointer", PtrSize>> \in Calls
    BY <2>1 DEF Calls
  <2>3. Whole("pointer", 16, 0, Padding(16), <<"pointer", PtrSize>>)
    BY <1>3, <2>1 DEF Pointer
  <2> QED
    BY <2>2, <2>3, WholeStep
<1>4. CASE SerializeStruct \/ SerializeObject
  BY <1>4, BeginStep
<1>5. CASE SerializeField \/ SerializeProperty
  BY <1>5, NestStep
<1>6. CASE StructEnd
  <2>1. /\ turn = "frame" /\ Top.kind = "struct" /\ End("struct", Top.written)
    BY <1>6 DEF StructEnd, End
  <2>2. Top.written \in Nat /\ Extent(Top) = 8 + Top.written
    BY <2>1, TopFacts DEF Extent
  <2> QED
    BY <2>1, <2>2, EndStep
<1>7. CASE ObjectEnd
  <2>1. /\ turn = "frame" /\ Top.kind = "object" /\ End("object", Top.written + 8)
    BY <1>7 DEF ObjectEnd, End
  <2>2. Top.written + 8 \in Nat /\ Extent(Top) = 8 + (Top.written + 8)
    BY <2>1, TopFacts DEF Extent
  <2> QED
    BY <2>1, <2>2, EndStep
<1>8. ASSUME NEW count \in Lengths, NEW elem \in ElemSizes, SerializeArray(count, elem)
      PROVE  IInv'
  BY <1>8, ArrayStep
<1>9. CASE SerializeElement
  BY <1>9, ElementStep
<1>10. CASE ArrayEnd
  BY <1>10, ArrayEndStep
<1>11. CASE ElementRefused \/ ArrayIncomplete \/ WriteFails
            \/ \E count \in Lengths, elem \in ElemSizes : ArrayTooLong(count, elem)
  BY <1>11, StopStep DEF ElementRefused, ArrayIncomplete, WriteFails, ArrayTooLong
<1>12. CASE UNCHANGED vars
  BY <1>12 DEF IInv, TypeOK, StreamInv, TurnInv, ArrayInv, ExtentInv, HeadersTruthful,
               vars, stream, Top, Depth
<1> QED
  BY <1>1, <1>2, <1>3, <1>4, <1>5, <1>6, <1>7, <1>8, <1>9, <1>10, <1>11, <1>12 DEF Next

------------------------------------------------------------------------------
(* The shape of the state, however long the stream is *)

TInv == TypeOK /\ \A i \in 1..Depth : frames[i].at \in DOMAIN headers

LEMMA Generated ==
  ASSUME TInv, NEW n \in Nat, Gen(n)
  PROVE  /\ pos \in Nat /\ pos' \in 0..Capacity /\ pos <= pos'
         /\ length' \in pos'..Capacity /\ length <= length'
         /\ length = pos => length' = pos'
         /\ DOMAIN headers \subseteq 0..Capacity /\ pos \in 0..Capacity
BY SerializerAssumption, SMT DEF TInv, TypeOK, Gen

LEMMA HeaderPut ==
  ASSUME TInv, NEW at \in 0..Capacity, NEW h \in PodHeader, headers' = Put(at, h)
  PROVE  /\ DOMAIN headers' = DOMAIN headers \cup {at}
         /\ DOMAIN headers' \subseteq 0..Capacity
         /\ \A x \in DOMAIN headers' : headers'[x] \in PodHeader
BY DEF TInv, TypeOK, Put

LEMMA FramesReturned ==
  ASSUME NEW outer \in Seq(Frame), NEW len \in Nat, Return(outer, len)
  PROVE  /\ frames' \in Seq(Frame) /\ Len(frames') = Len(outer)
         /\ \A i \in 1..Len(outer) : frames'[i].at = outer[i].at
         /\ result' \in Nat /\ turn' \in {"frame", "done"}
         /\ turn' = "frame" => frames' # <<>>
         /\ turn' = "done" => frames' = <<>>
<1>1. CASE outer = <<>>
  BY <1>1 DEF Return
<1>2. CASE outer # <<>>
  <2> DEFINE n == Len(outer)
             key == IF outer[n].kind = "object" THEN 8 ELSE 0
             w == outer[n].written + len + key
             g == [outer[n] EXCEPT !.written = w]
  <2>1. n \in Nat \ {0} /\ n \in 1..n /\ outer[n] \in Frame
    BY <1>2, EmptySeq
  <2>2. w \in Nat
    <3>1. outer[n].written \in Nat /\ key \in {0, 8}
      BY <2>1 DEF Frame
    <3> QED
      BY <3>1
  <2>3. g \in Frame /\ g.at = outer[n].at
    <3> HIDE DEF w
    <3> QED
      BY <2>1, <2>2, WrittenChanges
  <2>4. frames' = [outer EXCEPT ![n] = g]
    BY <1>2 DEF Return
  <2>5. result' = len /\ turn' = "frame"
    BY <1>2 DEF Return
  <2> HIDE DEF g
  <2>6. /\ frames' \in Seq(Frame) /\ Len(frames') = Len(outer)
        /\ \A i \in 1..Len(outer) : frames'[i] = IF i = n THEN g ELSE outer[i]
    BY <2>1, <2>3, <2>4, ExceptSeq
  <2>7. frames' # <<>>
    BY <2>1, <2>6, EmptySeq
  <2> QED
    BY <2>3, <2>5, <2>6, <2>7
<1> QED
  BY <1>1, <1>2

\* A step that finishes the pod that began at "at", in the innermost frame of outer.
LEMMA ShapeReturned ==
  ASSUME TInv, NEW outer \in Seq(Frame), NEW len \in Nat, NEW at, NEW event \in Calls,
         Return(outer, len),
         \A i \in 1..Len(outer) : outer[i].at \in DOMAIN headers,
         pos' \in 0..Capacity, length' \in pos'..Capacity,
         DOMAIN headers \subseteq DOMAIN headers', DOMAIN headers' \subseteq 0..Capacity,
         \A x \in DOMAIN headers' : headers'[x] \in PodHeader,
         at \in DOMAIN headers',
         \E to \in 0..Capacity : extents' = extents \cup {[at |-> at, to |-> to]},
         events' = Append(events, event)
  PROVE  TInv'
<1>1. /\ frames' \in Seq(Frame) /\ Len(frames') = Len(outer)
      /\ \A i \in 1..Len(outer) : frames'[i].at = outer[i].at
      /\ result' \in Nat /\ turn' \in {"frame", "done"}
      /\ turn' = "frame" => frames' # <<>>
      /\ turn' = "done" => frames' = <<>>
  BY FramesReturned
<1>2. \A i \in 1..Depth' : frames'[i].at \in DOMAIN headers'
  BY <1>1 DEF Depth
<1>3. extents' \subseteq [at : DOMAIN headers', to : 0..Capacity]
  <2>1. extents \subseteq [at : DOMAIN headers, to : 0..Capacity]
    BY DEF TInv, TypeOK
  <2>2. extents \subseteq [at : DOMAIN headers', to : 0..Capacity]
    BY <2>1
  <2>3. PICK to \in 0..Capacity : extents' = extents \cup {[at |-> at, to |-> to]}
    OBVIOUS
  <2>4. [at |-> at, to |-> to] \in [at : DOMAIN headers', to : 0..Capacity]
    OBVIOUS
  <2> QED
    BY <2>2, <2>3, <2>4, Zenon
<1>4. events' \in Seq(Calls)
  BY AppendProperties DEF TInv, TypeOK
<1> QED
  BY <1>1, <1>2, <1>3, <1>4 DEF TInv, TypeOK

\* A step that opens a frame where the stream is.
LEMMA ShapeOpened ==
  ASSUME TInv, NEW f \in Frame, NEW h \in PodHeader, NEW n \in Nat, NEW event \in Calls,
         f.at = pos, Gen(n), headers' = Put(pos, h), frames' = Append(frames, f),
         turn' = "frame", events' = Append(events, event),
         UNCHANGED <<result, extents>>
  PROVE  TInv'
<1>1. /\ pos \in Nat /\ pos' \in 0..Capacity /\ pos \in 0..Capacity
      /\ length' \in pos'..Capacity
  BY Generated
<1>2. /\ DOMAIN headers' = DOMAIN headers \cup {pos}
      /\ DOMAIN headers' \subseteq 0..Capacity
      /\ \A x \in DOMAIN headers' : headers'[x] \in PodHeader
  BY <1>1, HeaderPut
<1>3. /\ frames \in Seq(Frame) /\ frames' \in Seq(Frame) /\ Len(frames') = Len(frames) + 1
      /\ \A i \in 1..Len(frames) : frames'[i] = frames[i]
      /\ frames'[Len(frames) + 1] = f /\ frames' # <<>>
  BY AppendProperties DEF TInv, TypeOK
<1>4. \A i \in 1..Depth' : frames'[i].at \in DOMAIN headers'
  <2> TAKE i \in 1..Depth'
  <2>1. CASE i = Len(frames) + 1
    BY <1>2, <1>3, <2>1
  <2>2. CASE i # Len(frames) + 1
    <3>1. i \in 1..Len(frames)
      BY <1>3, <2>2 DEF Depth
    <3> QED
      BY <1>2, <1>3, <3>1 DEF TInv, Depth
  <2> QED
    BY <2>1, <2>2
<1>5. extents' \subseteq [at : DOMAIN headers', to : 0..Capacity]
  BY <1>2 DEF TInv, TypeOK
<1>6. events' \in Seq(Calls) /\ result' \in Nat
  BY AppendProperties DEF TInv, TypeOK
<1> QED
  BY <1>1, <1>2, <1>3, <1>4, <1>5, <1>6 DEF TInv, TypeOK

\* The innermost frame, and the stack around it.
LEMMA TopShape ==
  ASSUME TInv, turn = "frame"
  PROVE  /\ frames \in Seq(Frame) /\ frames # <<>> /\ Depth \in Nat \ {0}
         /\ Top \in Frame /\ Top.written \in Nat /\ Top.elem \in Nat
         /\ Top.at \in DOMAIN headers /\ Top.at \in 0..Capacity
         /\ Outer \in Seq(Frame)
         /\ \A i \in 1..Len(Outer) : Outer[i].at \in DOMAIN headers
<1>1. frames \in Seq(Frame) /\ frames # <<>> /\ DOMAIN headers \subseteq 0..Capacity
  BY DEF TInv, TypeOK
<1>2. Depth \in Nat \ {0} /\ Depth \in 1..Depth /\ Top \in Frame
  BY <1>1, EmptySeq DEF Depth, Top
<1>3. /\ Outer \in Seq(Frame) /\ Len(Outer) = Depth - 1
      /\ \A i \in 1..Len(Outer) : Outer[i] = frames[i]
  BY <1>1, <1>2, FrontOfSeq DEF Outer, Depth
<1>4. Top.written \in Nat /\ Top.elem \in Nat
  BY <1>2 DEF Frame
<1>5. Top.at \in DOMAIN headers
  BY <1>2 DEF TInv, Top
<1> QED
  BY <1>1, <1>2, <1>3, <1>4, <1>5 DEF TInv

LEMMA ShapeInitially == Init => TInv
<1> SUFFICES ASSUME Init PROVE TInv
  OBVIOUS
<1>1. /\ pos = 0 /\ length = Held /\ headers = <<>> /\ frames = <<>> /\ turn = "value"
      /\ result = 0 /\ extents = {} /\ events = <<>>
  BY DEF Init
<1>2. DOMAIN headers = {} /\ Depth = 0
  BY <1>1, EmptySeq DEF Depth
<1>3. TypeOK
  BY <1>1, <1>2, SerializerAssumption, EmptySeq DEF TypeOK
<1> QED
  BY <1>2, <1>3 DEF TInv

LEMMA WholeShape ==
  ASSUME TInv, NEW type \in {"leaf", "choice", "pointer"}, NEW size \in Nat,
         NEW elem \in Nat, NEW pad \in Nat, NEW event \in Calls,
         Whole(type, size, elem, pad, event)
  PROVE  TInv'
<1> DEFINE len == 8 + size + pad
           h == Header(type, size, elem)
<1>1. /\ Gen(len) /\ headers' = Put(pos, h) /\ Return(frames, len)
      /\ extents' = extents \cup {[at |-> pos, to |-> pos']}
      /\ events' = Append(events, event)
  BY DEF Whole, Record
<1>2. len \in Nat /\ h \in PodHeader
  BY HeaderTyped
<1> HIDE DEF len, h
<1>3. /\ pos \in 0..Capacity /\ pos' \in 0..Capacity /\ length' \in pos'..Capacity
  BY <1>1, <1>2, Generated
<1>4. /\ DOMAIN headers' = DOMAIN headers \cup {pos}
      /\ DOMAIN headers' \subseteq 0..Capacity
      /\ \A x \in DOMAIN headers' : headers'[x] \in PodHeader
  BY <1>1, <1>2, <1>3, HeaderPut
<1>5. frames \in Seq(Frame) /\ \A i \in 1..Len(frames) : frames[i].at \in DOMAIN headers
  BY DEF TInv, TypeOK, Depth
<1>6. \E to \in 0..Capacity : extents' = extents \cup {[at |-> pos, to |-> to]}
  BY <1>1, <1>3
<1>7. pos \in DOMAIN headers' /\ DOMAIN headers \subseteq DOMAIN headers'
  BY <1>4
<1> QED
  BY <1>1, <1>2, <1>3, <1>4, <1>5, <1>6, <1>7, ShapeReturned

LEMMA EndShape ==
  ASSUME TInv, NEW kind \in {"struct", "object"}, NEW size \in Nat, End(kind, size)
  PROVE  TInv'
<1>1. /\ turn = "frame" /\ headers' = Put(Top.at, Header(kind, size, 0))
      /\ pos' = length /\ length' = length /\ Return(Outer, 8 + size)
      /\ extents' = extents \cup {[at |-> Top.at, to |-> pos]}
      /\ events' = Append(events, <<"end", 0>>)
  BY DEF End, Record
<1>2. /\ Top.at \in 0..Capacity /\ Top.at \in DOMAIN headers /\ Outer \in Seq(Frame)
      /\ \A i \in 1..Len(Outer) : Outer[i].at \in DOMAIN headers
  BY <1>1, TopShape
<1>3. Header(kind, size, 0) \in PodHeader /\ 8 + size \in Nat /\ <<"end", 0>> \in Calls
  BY HeaderTyped DEF Calls
<1>4. /\ DOMAIN headers' = DOMAIN headers \cup {Top.at}
      /\ DOMAIN headers' \subseteq 0..Capacity
      /\ \A x \in DOMAIN headers' : headers'[x] \in PodHeader
  BY <1>1, <1>2, <1>3, HeaderPut
<1>5. pos' \in 0..Capacity /\ length' \in pos'..Capacity /\ pos \in 0..Capacity
  BY <1>1, SerializerAssumption DEF TInv, TypeOK
<1>6. \E to \in 0..Capacity : extents' = extents \cup {[at |-> Top.at, to |-> to]}
  BY <1>1, <1>5
<1>7. Top.at \in DOMAIN headers' /\ DOMAIN headers \subseteq DOMAIN headers'
  BY <1>4
<1> QED
  BY <1>1, <1>2, <1>3, <1>4, <1>5, <1>6, <1>7, ShapeReturned

LEMMA ArrayEndShape ==
  ASSUME TInv, ArrayEnd
  PROVE  TInv'
<1> DEFINE pad == Padding(BodyWritten)
           len == 16 + BodyWritten + pad
<1>1. /\ turn = "frame" /\ Gen(pad) /\ headers' = headers /\ Return(Outer, len)
      /\ extents' = extents \cup {[at |-> Top.at, to |-> pos']}
      /\ events' = Append(events, <<"end", 0>>)
  BY DEF ArrayEnd, ArrayEndWith, Record
<1>2. /\ Top.at \in DOMAIN headers /\ Outer \in Seq(Frame)
      /\ \A i \in 1..Len(Outer) : Outer[i].at \in DOMAIN headers
      /\ Top.written \in Nat /\ Top.elem \in Nat
  BY <1>1, TopShape
<1>3. BodyWritten \in Nat
  <2>1. Top.written * Top.elem \in Nat
    BY <1>2, Products
  <2> QED
    BY <2>1, SerializerAssumption, SMT DEF BodyWritten
<1>4. pad \in Nat /\ len \in Nat
  BY <1>3, PodLength
<1> HIDE DEF pad, len
<1>5. /\ pos' \in 0..Capacity /\ length' \in pos'..Capacity
      /\ DOMAIN headers \subseteq 0..Capacity
  BY <1>1, <1>4, Generated
<1>6. \E to \in 0..Capacity : extents' = extents \cup {[at |-> Top.at, to |-> to]}
  BY <1>1, <1>5
<1>7. /\ <<"end", 0>> \in Calls /\ \A x \in DOMAIN headers' : headers'[x] \in PodHeader
      /\ Top.at \in DOMAIN headers' /\ DOMAIN headers \subseteq DOMAIN headers'
      /\ DOMAIN headers' \subseteq 0..Capacity
  BY <1>1, <1>2, <1>5 DEF Calls, TInv, TypeOK
<1> QED
  BY <1>1, <1>2, <1>4, <1>5, <1>6, <1>7, ShapeReturned

LEMMA BeginShape ==
  ASSUME TInv, SerializeStruct \/ SerializeObject
  PROVE  TInv'
<1>1. PICK kind \in {"struct", "object"}, n \in {8, 16} : Begin(kind, n)
  BY DEF SerializeStruct, SerializeObject
<1> DEFINE f == [kind |-> kind, at |-> pos, written |-> 0, length |-> 0, elem |-> 0]
           h == Header(kind, 0, 0)
<1>p. pos \in Nat
  BY SerializerAssumption DEF TInv, TypeOK
<1>2. f \in Frame /\ f.at = pos /\ h \in PodHeader /\ <<kind, n>> \in Calls
  BY <1>p, HeaderTyped DEF Frame, Calls
<1>3. /\ Gen(n) /\ headers' = Put(pos, h) /\ frames' = Append(frames, f)
      /\ turn' = "frame" /\ events' = Append(events, <<kind, n>>)
      /\ UNCHANGED <<result, extents>>
  BY <1>1 DEF Begin, Record
<1> HIDE DEF f, h
<1> QED
  BY <1>2, <1>3, ShapeOpened

LEMMA ArrayShape ==
  ASSUME TInv, NEW count \in Lengths, NEW elem \in ElemSizes, SerializeArray(count, elem)
  PROVE  TInv'
<1> DEFINE f == [kind |-> "array", at |-> pos, written |-> 0, length |-> count, elem |-> elem]
           h == Header("array", 8 + count * elem, elem)
           event == <<IF elem = 0 THEN "units" ELSE "array", count>>
<1>1. count \in Nat /\ elem \in Nat /\ 8 + count * elem \in Nat
  BY SerializerAssumption, Products
<1>p. pos \in Nat
  BY SerializerAssumption DEF TInv, TypeOK
<1>2. f \in Frame /\ f.at = pos /\ h \in PodHeader /\ event \in Calls
  BY <1>1, <1>p, HeaderTyped DEF Frame, Calls
<1>3. /\ Gen(16) /\ headers' = Put(pos, h) /\ frames' = Append(frames, f)
      /\ turn' = "frame" /\ events' = Append(events, event)
      /\ UNCHANGED <<result, extents>>
  BY DEF SerializeArray, Record
<1> HIDE DEF f, h, event
<1> QED
  BY <1>2, <1>3, ShapeOpened

LEMMA ElementShape ==
  ASSUME TInv, SerializeElement
  PROVE  TInv'
<1> DEFINE w == (Top.written + 1) % U32
           g == [Top EXCEPT !.written = w]
<1>1. /\ turn = "frame" /\ Gen(Top.elem)
      /\ frames' = [frames EXCEPT ![Depth].written = (@ + 1) % U32]
      /\ events' = events \/ events' = Append(events, <<"element", Top.elem>>)
      /\ UNCHANGED <<headers, turn, result, extents>>
  BY DEF SerializeElement, Record
<1>2. /\ frames \in Seq(Frame) /\ frames # <<>> /\ Depth \in Nat \ {0}
      /\ Top \in Frame /\ Top.written \in Nat /\ Top.elem \in Nat
  BY <1>1, TopShape
<1>3. w \in Nat
  BY <1>2, SerializerAssumption, SMT
<1>4. g \in Frame /\ g.at = Top.at
  <2> HIDE DEF w
  <2> QED
    BY <1>2, <1>3, WrittenChanges
<1>5. frames' = [frames EXCEPT ![Depth] = g]
  BY <1>1 DEF Top
<1> HIDE DEF g
<1>6. /\ frames' \in Seq(Frame) /\ Len(frames') = Len(frames)
      /\ \A i \in 1..Len(frames) : frames'[i] = IF i = Depth THEN g ELSE frames[i]
  BY <1>2, <1>4, <1>5, ExceptSeq DEF Depth
<1>7. \A i \in 1..Depth' : frames'[i].at \in DOMAIN headers'
  BY <1>1, <1>4, <1>6 DEF TInv, Depth, Top
<1>8. events' \in Seq(Calls) /\ frames' # <<>>
  <2>1. events \in Seq(Calls) /\ <<"element", Top.elem>> \in Calls
    BY <1>2 DEF Calls, TInv, TypeOK
  <2>2. events' \in Seq(Calls)
    BY <1>1, <2>1, AppendProperties
  <2>3. frames' # <<>>
    BY <1>2, <1>6, EmptySeq DEF Depth
  <2> QED
    BY <2>2, <2>3
<1>9. pos' \in 0..Capacity /\ length' \in pos'..Capacity
  BY <1>1, <1>2, Generated
<1> QED
  BY <1>1, <1>6, <1>7, <1>8, <1>9 DEF TInv, TypeOK

LEMMA NestShape ==
  ASSUME TInv, SerializeField \/ SerializeProperty
  PROVE  TInv'
<1>1. turn' = "value" /\ UNCHANGED <<headers, frames, result, extents>>
  BY DEF SerializeField, SerializeProperty
<1>2. /\ pos' \in 0..Capacity /\ length' \in pos'..Capacity /\ events' \in Seq(Calls)
  <2>1. CASE SerializeField
    BY <2>1 DEF SerializeField, stream, TInv, TypeOK
  <2>2. CASE SerializeProperty
    <3>1. Gen(8) /\ events' = Append(events, <<"property", 8>>)
      BY <2>2 DEF SerializeProperty, Record
    <3>2. events \in Seq(Calls) /\ <<"property", 8>> \in Calls
      BY DEF Calls, TInv, TypeOK
    <3> QED
      BY <3>1, <3>2, Generated, AppendProperties
  <2> QED
    BY <2>1, <2>2
<1> QED
  BY <1>1, <1>2 DEF TInv, TypeOK, Depth

\* The state keeps its shape, and the stream does not become shorter.
LEMMA ShapeKept ==
  ASSUME TInv, [Next]_vars
  PROVE  TInv'
<1>1. ASSUME NEW size \in LeafSizes, WritePod(size)
      PROVE  TInv'
  <2>1. size \in Nat /\ <<"leaf", size>> \in Calls
    BY SerializerAssumption DEF Calls
  <2> QED
    BY <1>1, <2>1, PodLength, WholeShape DEF WritePod
<1>2. ASSUME NEW count \in Lengths, NEW elem \in ElemSizes, Choice(count + 1, elem)
      PROVE  TInv'
  <2>1. count + 1 \in Nat /\ elem \in Nat
    BY SerializerAssumption
  <2>2. 16 + (count + 1) * elem \in Nat
    BY <2>1, Products
  <2>3. <<"choice", count + 1>> \in Calls
    BY <2>1 DEF Calls
  <2> QED
    BY <1>2, <2>1, <2>2, <2>3, PodLength, WholeShape DEF Choice
<1>3. CASE Pointer
  <2>1. 8 + PtrSize \in Nat /\ <<"pointer", PtrSize>> \in Calls
    BY SerializerAssumption DEF Calls
  <2> QED
    BY <1>3, <2>1, WholeShape DEF Pointer
<1>4. CASE StructEnd \/ ObjectEnd
  <2>1. PICK kind \in {"struct", "object"}, size \in {Top.written, Top.written + 8} :
          End(kind, size)
    BY <1>4 DEF StructEnd, ObjectEnd
  <2>2. turn = "frame"
    BY <2>1 DEF End
  <2>3. size \in Nat
    BY <2>2, TopShape
  <2> QED
    BY <2>1, <2>3, EndShape
<1>5. CASE ElementRefused \/ ArrayIncomplete \/ WriteFails
           \/ \E count \in Lengths, elem \in ElemSizes : ArrayTooLong(count, elem)
  BY <1>5 DEF ElementRefused, ArrayIncomplete, WriteFails, ArrayTooLong, stream,
              TInv, TypeOK, Depth
<1>6. CASE UNCHANGED vars
  BY <1>6 DEF vars, stream, TInv, TypeOK, Depth
<1> QED
  BY <1>1, <1>2, <1>3, <1>4, <1>5, <1>6, BeginShape, NestShape, ArrayShape,
     ElementShape, ArrayEndShape DEF Next

\* The stream does not become shorter, and ends where the writer is if it did.
LEMMA StreamGrows ==
  ASSUME TInv, [Next]_vars
  PROVE  length <= length' /\ (length = pos => length' = pos')
<1>1. CASE UNCHANGED stream
  BY <1>1, SerializerAssumption DEF stream, TInv, TypeOK
<1>2. ASSUME NEW n \in Nat, Gen(n)
      PROVE  length <= length' /\ (length = pos => length' = pos')
  BY <1>2, Generated
<1>3. ASSUME NEW kind, NEW size, End(kind, size)
      PROVE  length <= length' /\ (length = pos => length' = pos')
  BY <1>3, SerializerAssumption DEF End, TInv, TypeOK
<1>4. ASSUME NEW size \in LeafSizes, WritePod(size)
      PROVE  \E n \in Nat : Gen(n)
  BY <1>4, SerializerAssumption, PodLength DEF WritePod, Whole
<1>5. ASSUME NEW count \in Lengths, NEW elem \in ElemSizes, Choice(count + 1, elem)
      PROVE  \E n \in Nat : Gen(n)
  <2>1. 16 + (count + 1) * elem \in Nat
    BY SerializerAssumption, Products
  <2> QED
    BY <1>5, <2>1, PodLength DEF Choice, Whole
<1>6. CASE Pointer
  <2>1. 8 + (8 + PtrSize) + 0 \in Nat
    BY SerializerAssumption
  <2> QED
    BY <1>2, <1>6, <2>1 DEF Pointer, Whole
<1>7. CASE \/ SerializeStruct \/ SerializeObject \/ SerializeProperty
           \/ \E count \in Lengths, elem \in ElemSizes : SerializeArray(count, elem)
  BY <1>2, <1>7 DEF SerializeStruct, SerializeObject, Begin, SerializeProperty, SerializeArray
<1>8. CASE SerializeElement
  BY <1>2, <1>8, TopShape DEF SerializeElement
<1>9. CASE ArrayEnd
  <2>1. turn = "frame" /\ Gen(Padding(BodyWritten))
    BY <1>9 DEF ArrayEnd, ArrayEndWith
  <2>2. Top.written * Top.elem \in Nat
    BY <2>1, TopShape, Products
  <2>3. BodyWritten \in Nat
    BY <2>2, SerializerAssumption, SMT DEF BodyWritten
  <2> QED
    BY <1>2, <2>1, <2>3, PodLength
<1>10. CASE StructEnd \/ ObjectEnd
  BY <1>3, <1>10 DEF StructEnd, ObjectEnd
<1>11. CASE SerializeField \/ ElementRefused \/ ArrayIncomplete \/ WriteFails
            \/ \E count \in Lengths, elem \in ElemSizes : ArrayTooLong(count, elem)
  BY <1>1, <1>11 DEF SerializeField, ElementRefused, ArrayIncomplete, WriteFails, ArrayTooLong
<1>12. CASE UNCHANGED vars
  BY <1>1, <1>12 DEF vars
<1> QED
  BY <1>2, <1>4, <1>5, <1>6, <1>7, <1>8, <1>9, <1>10, <1>11, <1>12 DEF Next

------------------------------------------------------------------------------
(* The theorems *)

\* The state of a serialization keeps its shape, whatever the stream holds and
\* however long it gets.
THEOREM Typing == Spec => []TypeOK
<1>1. TInv => TypeOK
  BY DEF TInv
<1> QED
  BY <1>1, ShapeInitially, ShapeKept, PTL DEF Spec

\* The invariant holds of every serialization into a fresh writer, as long as
\* the stream is not too long for a u32.
THEOREM Inductive == Fresh /\ Spec => []((length < U32) => IInv)
<1> SUFFICES ASSUME Fresh PROVE Spec => []((length < U32) => IInv)
  OBVIOUS
<1>1. Init => TInv /\ ((length < U32) => IInv)
  BY Initially, ShapeInitially
<1>2. ASSUME TInv, (length < U32) => IInv, [Next]_vars
      PROVE  TInv' /\ ((length < U32) => IInv)'
  <2>1. TInv'
    BY <1>2, ShapeKept
  <2>2. ASSUME length' < U32
        PROVE  IInv'
    <3>1. length < U32
      BY <1>2, <2>1, <2>2, StreamGrows, SerializerAssumption DEF TInv, TypeOK
    <3> QED
      BY <1>2, <2>2, <3>1, Preserved
  <2> QED
    BY <2>1, <2>2
<1> QED
  BY <1>1, <1>2, PTL DEF Spec

\* In a stream that is not too long for a u32 every finished pod's header gives
\* its length, however pods are nested.
THEOREM Truthfulness == Fresh /\ Spec => []((length < U32) => HeadersTruthful)
<1>1. IInv => HeadersTruthful
  BY DEF IInv
<1> QED
  BY <1>1, Inductive, PTL

\* In it every pod begins on a multiple of 8.
THEOREM Alignment == Fresh /\ Spec => []((length < U32) => Aligned)
<1>1. IInv => Aligned
  BY NextAligned DEF IInv, StreamInv, TurnInv, Aligned
<1> QED
  BY <1>1, Inductive, PTL

\* serialize reports the number of bytes it has written.
THEOREM LengthIsReported == Fresh /\ Spec => []((length < U32) => LengthReported)
<1>1. IInv => LengthReported
  BY DEF IInv, TurnInv, LengthReported
<1> QED
  BY <1>1, Inductive, PTL

\* Seeking to the end of the stream leads back to where the writer was, if the
\* stream held nothing, for pointers of any size and streams of any length.
THEOREM SeekingBack == Held = 0 /\ Spec => SeeksBack
<1> SUFFICES ASSUME Held = 0 PROVE Spec => SeeksBack
  OBVIOUS
<1> DEFINE AtEnd == length = pos
<1>1. Init => TInv /\ AtEnd
  BY ShapeInitially DEF Init
<1>2. TInv /\ AtEnd /\ [Next]_vars => (TInv /\ AtEnd)'
  BY ShapeKept, StreamGrows
<1>3. AtEnd /\ [Next]_vars => [StructEnd \/ ObjectEnd => pos' = pos]_vars
  BY DEF StructEnd, ObjectEnd, End
<1> QED
  BY <1>1, <1>2, <1>3, PTL DEF Spec, SeeksBack

------------------------------------------------------------------------------

(* What was written, call by call *)

Single == {"leaf", "choice", "pointer"}
Compound == {"struct", "object", "array"}
Begun == Compound \cup {"units"}
Pods == Single \cup Begun

\* The stack of serializers: of arrays of elements without bytes neither how
\* many there are nor how many there will be.
BareOf(f) == IF f.kind = "array" /\ f.elem = 0
             THEN [f EXCEPT !.written = 0, !.length = 0] ELSE f
Bare(fs) == [i \in 1..Len(fs) |-> BareOf(fs[i])]
Stack == Bare(frames)
Height == Len(Stack)
Tip == Stack[Height]

\* The stack of serializers and the stream's position before a call.
Mark == [stack : Seq(Frame), at : Nat]
Last(s) == s[Len(s)]

Same(f, g) == /\ f.kind = g.kind /\ f.at = g.at
              /\ f.length = g.length /\ f.elem = g.elem
Below(s, t) == /\ Len(s) <= Len(t)
               /\ \A i \in 1..Len(s) : Same(s[i], t[i])

Innermost(s) == \A i \in 1..Len(s) :
  s[i].kind = "array" => i = Len(s) /\ (s[i].elem > 0 \/ s[i].length = 0)

Finished(at) == \E e \in extents : e.at = at
EndAt(f) == f.at + 8 + headers[f.at].size

\* A pod that is written in one go, and what the reader will say of it.
Content(ev, h) ==
  /\ ev[1] = "leaf" => h.size = ev[2]
  /\ ev[1] = "choice" => h.size = 16 + ev[2] * h.elem
  /\ ev[1] = "pointer" => h.size = 16 /\ ev[2] = 8

WroteSingle(ev, b, a) ==
  /\ Len(a.stack) = Len(b.stack) /\ Below(b.stack, a.stack)
  /\ b.at \in DOMAIN headers /\ Finished(b.at)
  /\ headers[b.at].type = ev[1]
  /\ Content(ev, headers[b.at])
  /\ a.at = b.at + 8 + headers[b.at].size + Padding(headers[b.at].size)

\* The type of the pod that a call begins.
KindOf(ev) == IF ev[1] = "units" THEN "array" ELSE ev[1]

WroteCompound(ev, b, a) ==
  LET f == Last(a.stack)
  IN  /\ Len(a.stack) = Len(b.stack) + 1 /\ Below(b.stack, a.stack)
      /\ f.kind = KindOf(ev) /\ f.at = b.at
      /\ f.written = 0
      /\ a.at = b.at + (IF ev[1] = "struct" THEN 8 ELSE 16)
      /\ IF f.kind = "array"
         THEN Seen(ev)[2] = f.length /\ (ev[1] = "units" <=> f.elem = 0)
         ELSE ev[2] = IF ev[1] = "struct" THEN 8 ELSE 16

WroteProperty(ev, b, a) ==
  /\ Len(a.stack) = Len(b.stack) /\ Below(b.stack, a.stack)
  /\ a.at = b.at + 8 /\ ev[2] = 8

WroteElement(ev, b, a) ==
  /\ Len(a.stack) = Len(b.stack) /\ Below(b.stack, a.stack)
  /\ Last(a.stack).written = Last(b.stack).written + 1
  /\ a.at = b.at + ev[2] /\ ev[2] = Last(b.stack).elem

WroteEnd(ev, b, a) ==
  /\ Len(a.stack) = Len(b.stack) - 1 /\ Below(a.stack, b.stack)
  /\ ev[2] = 0
  /\ a.at = b.at + IF Last(b.stack).kind = "array"
                   THEN Padding(Last(b.stack).written * Last(b.stack).elem) ELSE 0

Wrote(ev, b, a) ==
  /\ ev[1] \in Single => WroteSingle(ev, b, a)
  /\ ev[1] \in Begun => WroteCompound(ev, b, a)
  /\ ev[1] = "property" => WroteProperty(ev, b, a)
  /\ ev[1] = "element" => WroteElement(ev, b, a)
  /\ ev[1] = "end" => WroteEnd(ev, b, a)

\* What may be called at a mark.
Due(L, k) ==
  LET s == L[k].stack
  IN  IF s = <<>> THEN IF k = 1 THEN Pods ELSE {}
      ELSE IF Last(s).kind = "struct" THEN Pods \cup {"end"}
      ELSE IF Last(s).kind = "array" THEN {"element", "end"}
      ELSE IF k > 1 /\ events[k - 1][1] = "property" THEN Pods ELSE {"property", "end"}

Ends(L, k, i) == i = Len(L[k].stack) /\ events[k][1] = "end"
Added(L, k, i) ==
  L[k].stack[i].written
  + IF i = Len(L[k].stack) /\ events[k][1] = "element" THEN 1 ELSE 0

IsOpen(f, i) == i <= Height /\ Stack[i].at = f.at

StillOpen(L, k, i) ==
  /\ Same(L[k].stack[i], Stack[i])
  /\ Stack[i].kind = "array" => Added(L, k, i) <= Stack[i].written
  /\ ~Ends(L, k, i)

Closed(L, k, i) ==
  LET f == L[k].stack[i]
  IN  /\ Finished(f.at) /\ EndAt(f) <= pos
      /\ IF Ends(L, k, i) THEN L[k].at = EndAt(f) ELSE L[k + 1].at <= EndAt(f)
      /\ f.kind = "array" =>
           /\ headers[f.at].size = 8 + f.length * f.elem
           /\ Added(L, k, i) <= f.length
           /\ Ends(L, k, i) => f.written = f.length
      /\ i < Len(L[k].stack) =>
           /\ Finished(L[k].stack[i + 1].at)
           /\ EndAt(L[k].stack[i + 1]) <= EndAt(f)

Framed(L, k, i) ==
  IF IsOpen(L[k].stack[i], i) THEN StillOpen(L, k, i) ELSE Closed(L, k, i)

Headed(hs, f) == /\ f.at \in DOMAIN hs /\ hs[f.at].type = f.kind
                 /\ f.kind = "array" => hs[f.at].elem = f.elem

Shaped(s, at) == /\ s \in Seq(Frame) /\ Innermost(s)
                 /\ \A i \in 1..Len(s) : s[i].at < at

LogShape(L) ==
  /\ L \in Seq(Mark) /\ Len(L) = Len(events) + 1
  /\ L[1].stack = <<>> /\ L[1].at = 0
  /\ L[Len(L)].stack = Stack /\ L[Len(L)].at = pos
  /\ \A k \in 1..Len(L) : L[k].at <= pos /\ Shaped(L[k].stack, L[k].at)
  /\ \A k \in 1..Len(L) : \A i \in 1..Len(L[k].stack) : Headed(headers, L[k].stack[i])

LogCalls(L) ==
  \A k \in 1..Len(events) : /\ Wrote(events[k], L[k], L[k + 1])
                            /\ events[k][1] \in Due(L, k)

LogFrames(L) ==
  \A k \in 1..Len(events) : \A i \in 1..Len(L[k].stack) : Framed(L, k, i)

LogTurn(L) ==
  /\ turn = "value" => Pods \subseteq Due(L, Len(L))
  /\ turn = "frame" /\ Tip.kind = "object" => events[Len(events)][1] # "property"
  /\ turn = "frame" \/ turn = "done" => events # <<>>

Log(L) == LogShape(L) /\ LogCalls(L) /\ LogFrames(L) /\ LogTurn(L)

(* The reader beside it *)

\* What was read is what there is to see of what was written, as far as it goes.
Echoes(cs, evs) == Len(cs) <= Len(evs) /\ \A i \in 1..Len(cs) : cs[i] = Seen(evs[i])

Here == Len(calls) + 1

Matches(L, i) ==
  LET f == L[Here].stack[i]
  IN  /\ scopes[i].kind = f.kind
      /\ IF f.kind = "array"
         THEN /\ scopes[i].length = f.length /\ scopes[i].elem = f.elem
              /\ scopes[i].read = f.written /\ scopes[i].held
         ELSE EndOf(i) = EndAt(f) /\ (scopes[i].held \/ scopes[i].remaining # 0)

Scope == [kind : Compound, remaining : Nat, mark : Nat, held : BOOLEAN,
          length : Nat, read : Nat, elem : Nat]

\* What a panic may come from.
Panics == {"", "visitor", "unwrap", "division"}
Excusable == panic = "division" \/ (typed /\ panic \in {"visitor", "unwrap"})

ReaderShape ==
  /\ input \in Nat /\ scopes \in Seq(Scope) /\ typed \in BOOLEAN /\ total \in Nat
  /\ stage \in {"value", "scope", "done", "error", "panicked"}
  /\ panic \in Panics /\ calls \in Seq(Calls)

Tracks(L) ==
  /\ input = L[Here].at
  /\ Len(scopes) <= Len(L[Here].stack)
  /\ \A i \in 1..Len(scopes) : Matches(L, i)
  /\ \A i \in 1..Len(scopes) - 1 : ~scopes[i].held

Excused == typed \/ total < length

AtValue(L) ==
  /\ Here <= Len(events) /\ events[Here][1] \in Pods
  /\ Len(scopes) = Len(L[Here].stack)
  /\ scopes # <<>> => ~scopes[Len(scopes)].held

AtScope(L) ==
  /\ scopes # <<>>
  /\ IF scopes[Len(scopes)].held
     THEN /\ Len(scopes) = Len(L[Here].stack) /\ calls # <<>>
          /\ scopes[Len(scopes)].kind = "object" => events[Len(calls)][1] # "property"
     ELSE Excused

Reading(L) ==
  /\ turn = "done" /\ total <= length /\ input <= total
  /\ Here <= Len(L) /\ Echoes(calls, events)
  /\ stage \in {"value", "scope"} => Tracks(L)
  /\ stage = "value" => AtValue(L)
  /\ stage = "scope" => AtScope(L)
  /\ stage = "error" => Excused
  /\ stage = "panicked" => Excusable
  /\ stage = "done" => Here = Len(L) /\ input = L[Here].at

Idle == input = 0 /\ scopes = <<>> /\ stage = "value" /\ calls = <<>>

\* The reader is at work on what the log tells of.
Busy(L) == /\ IInv /\ ReaderShape /\ Log(L)
           /\ total > 0 /\ Reading(L) /\ stage \in {"value", "scope"}

------------------------------------------------------------------------------
(* The log is kept while a pod is written *)

LEMMA BareFrame ==
  ASSUME NEW f \in Frame
  PROVE  /\ BareOf(f) \in Frame
         /\ BareOf(f).kind = f.kind /\ BareOf(f).at = f.at /\ BareOf(f).elem = f.elem
         /\ f.kind # "array" \/ f.elem # 0 => BareOf(f) = f
         /\ f.kind = "array" /\ f.elem = 0 => BareOf(f).written = 0 /\ BareOf(f).length = 0
         /\ f.written = 0 => BareOf(f).written = 0
BY DEF BareOf, Frame

LEMMA BareFacts ==
  ASSUME NEW fs \in Seq(Frame), NEW offsets, Stacked(fs, offsets)
  PROVE  /\ Bare(fs) \in Seq(Frame) /\ Len(Bare(fs)) = Len(fs)
         /\ Bare(fs) = <<>> <=> fs = <<>>
         /\ \A i \in 1..Len(fs) : Bare(fs)[i] = BareOf(fs[i])
         /\ Stacked(Bare(fs), offsets)
         /\ Open(fs) <=> Open(Bare(fs))
<1>1. \A i \in 1..Len(fs) : fs[i] \in Frame
  OBVIOUS
<1>2. \A i \in 1..Len(fs) : BareOf(fs[i]) \in Frame
  BY <1>1, BareFrame
<1>3. /\ Bare(fs) \in Seq(Frame) /\ Len(Bare(fs)) = Len(fs) /\ Len(fs) \in Nat
      /\ \A i \in 1..Len(fs) : Bare(fs)[i] = BareOf(fs[i])
  BY <1>2 DEF Bare
<1>4. Bare(fs) = <<>> <=> fs = <<>>
  BY <1>3, EmptySeq
<1>5. \A i \in 1..Len(fs) : /\ Bare(fs)[i].at = fs[i].at /\ Bare(fs)[i].kind = fs[i].kind
                            /\ fs[i].kind # "array" => Bare(fs)[i] = fs[i]
  BY <1>1, <1>3, BareFrame
<1>6. fs # <<>> => 1 \in 1..Len(fs) /\ Len(fs) \in 1..Len(fs)
  BY <1>3, EmptySeq
<1>7. ASSUME NEW i \in 1..Len(fs) - 1
      PROVE  Bare(fs)[i].kind # "array" /\ Bare(fs)[i + 1].at = ChildAt(Bare(fs)[i])
  <2>1. i \in 1..Len(fs) /\ i + 1 \in 1..Len(fs)
    BY <1>3
  <2>2. fs[i].kind # "array" /\ fs[i + 1].at = ChildAt(fs[i])
    BY DEF Stacked
  <2> QED
    BY <1>5, <2>1, <2>2
<1>8. Stacked(Bare(fs), offsets)
  BY <1>3, <1>4, <1>5, <1>6, <1>7 DEF Stacked
<1>9. Open(fs) <=> Open(Bare(fs))
  BY <1>3, <1>4, <1>5, <1>6 DEF Open
<1> QED
  BY <1>3, <1>4, <1>8, <1>9

LEMMA StackFacts ==
  ASSUME IInv
  PROVE  /\ Stack \in Seq(Frame) /\ Height = Depth /\ Height \in Nat /\ Height = Len(Stack)
         /\ Stack = <<>> <=> frames = <<>>
         /\ \A i \in 1..Depth : Stack[i] = BareOf(frames[i]) /\ frames[i] \in Frame
         /\ Stacked(Stack, DOMAIN headers)
         /\ Open(frames) <=> Open(Stack)
         /\ frames # <<>> => Tip = BareOf(Top) /\ Top \in Frame
<1>1. frames \in Seq(Frame) /\ Stacked(frames, DOMAIN headers)
  BY StreamFacts
<1>2. /\ Stack \in Seq(Frame) /\ Len(Stack) = Len(frames)
      /\ Stack = <<>> <=> frames = <<>>
      /\ \A i \in 1..Len(frames) : Stack[i] = BareOf(frames[i])
      /\ Stacked(Stack, DOMAIN headers)
      /\ Open(frames) <=> Open(Stack)
  BY <1>1, BareFacts DEF Stack
<1>3. frames # <<>> => Depth \in 1..Depth
  BY <1>1, EmptySeq DEF Depth
<1>4. Height = Depth /\ Height \in Nat /\ Height = Len(Stack)
  BY <1>1, <1>2 DEF Height, Depth
<1>5. \A i \in 1..Depth : frames[i] \in Frame
  BY <1>1 DEF Depth
<1> QED
  BY <1>2, <1>3, <1>4, <1>5 DEF Tip, Top, Depth

LEMMA StackAfter ==
  ASSUME IInv'
  PROVE  /\ Stack' \in Seq(Frame) /\ Height' = Depth' /\ Height' \in Nat /\ Height' = Len(Stack')
         /\ Stack' = <<>> <=> frames' = <<>>
         /\ \A i \in 1..Depth' : Stack'[i] = BareOf(frames'[i]) /\ frames'[i] \in Frame
         /\ Stacked(Stack', DOMAIN headers')
         /\ Open(frames') <=> Open(Stack')
<1>1. frames' \in Seq(Frame) /\ Stacked(frames', DOMAIN headers')
  BY DEF IInv, TypeOK, StreamInv
<1>2. /\ Bare(frames') \in Seq(Frame) /\ Len(Bare(frames')) = Len(frames')
      /\ Bare(frames') = <<>> <=> frames' = <<>>
      /\ \A i \in 1..Len(frames') : Bare(frames')[i] = BareOf(frames'[i])
      /\ Stacked(Bare(frames'), DOMAIN headers')
      /\ Open(frames') <=> Open(Bare(frames'))
  BY <1>1, BareFacts
<1>3. Stack' = Bare(frames')
  BY DEF Stack, Bare, BareOf
<1>4. Len(frames') \in Nat /\ \A i \in 1..Len(frames') : frames'[i] \in Frame
  BY <1>1
<1> QED
  BY <1>2, <1>3, <1>4 DEF Height, Depth

\* What is the same in two stacks is the same in what is left of them.
LEMMA StackSame ==
  ASSUME IInv, IInv', Depth' <= Depth,
         \A i \in 1..Depth' : Same(frames[i], frames'[i])
  PROVE  /\ Height' = Depth' /\ Height = Depth /\ Height \in Nat /\ Height' \in Nat
         /\ \A i \in 1..Height' : Same(Stack[i], Stack'[i])
<1>1. /\ Height' = Depth' /\ Height = Depth /\ Height \in Nat /\ Height' \in Nat
      /\ \A i \in 1..Depth : Stack[i] = BareOf(frames[i]) /\ frames[i] \in Frame
      /\ \A i \in 1..Depth' : Stack'[i] = BareOf(frames'[i]) /\ frames'[i] \in Frame
  BY StackFacts, StackAfter
<1>2. ASSUME NEW f \in Frame, NEW g \in Frame, Same(f, g)
      PROVE  Same(BareOf(f), BareOf(g))
  <2>1. f.kind = g.kind /\ f.at = g.at /\ f.length = g.length /\ f.elem = g.elem
    BY <1>2 DEF Same
  <2>2. CASE f.kind = "array" /\ f.elem = 0
    BY <2>1, <2>2, BareFrame DEF Same
  <2>3. CASE ~(f.kind = "array" /\ f.elem = 0)
    BY <1>2, <2>1, <2>3, BareFrame
  <2> QED
    BY <2>2, <2>3
<1>3. ASSUME NEW i \in 1..Height'
      PROVE  Same(Stack[i], Stack'[i])
  <2>1. i \in 1..Depth /\ i \in 1..Depth'
    BY <1>1, <1>3
  <2>2. PICK f \in Frame, g \in Frame : f = frames[i] /\ g = frames'[i]
    BY <1>1, <2>1
  <2>3. Same(f, g)
    BY <2>1, <2>2
  <2> QED
    BY <1>1, <1>2, <2>1, <2>2, <2>3
<1> QED
  BY <1>1, <1>3

\* What every call that is recorded does to the stream and the stack.
Logged(ev) ==
  /\ events' = Append(events, ev)
  /\ pos <= pos'
  /\ \A x \in DOMAIN headers :
       Finished(x) => /\ \E e \in extents' : e.at = x
                      /\ x \in DOMAIN headers' /\ headers'[x] = headers[x]
  /\ \A i \in 1..Height : Headed(headers, Stack[i]) => Headed(headers', Stack[i])
  /\ \A i \in 1..Height : i <= Height' =>
       /\ Same(Stack[i], Stack'[i])
       /\ Stack[i].kind = "array" =>
            Stack[i].written + (IF i = Height /\ ev[1] = "element" THEN 1 ELSE 0)
              <= Stack'[i].written
  /\ Height' <= Height + 1
  /\ Height' > Height => /\ Stack'[Height'].at = pos /\ pos < pos'
                         /\ Headed(headers', Stack'[Height'])
                         /\ Stack'[Height'].kind = "array" =>
                              Stack'[Height'].elem > 0 \/ Stack'[Height'].length = 0
  /\ IF ev[1] = "end"
     THEN /\ Height > 0 /\ Height' = Height - 1
          /\ \E e \in extents' : e.at = Tip.at
          /\ Tip.at + 8 + headers'[Tip.at].size = pos
          /\ Tip.kind = "array" => /\ Tip.written = Tip.length
                                   /\ headers'[Tip.at].size = 8 + Tip.length * Tip.elem
     ELSE Height <= Height'

\* The log with one more mark.
LEMMA LogAppended ==
  ASSUME NEW L, NEW m \in Mark, NEW ev, LogShape(L), events \in Seq(Calls),
         events' = Append(events, ev)
  PROVE  LET N == Append(L, m)
         IN  /\ N \in Seq(Mark) /\ Len(N) = Len(L) + 1 /\ Len(N) = Len(events') + 1
             /\ Len(events') = Len(L) /\ Len(L) = Len(events) + 1 /\ Len(events) \in Nat
             /\ \A k \in 1..Len(L) : N[k] = L[k]
             /\ N[Len(L) + 1] = m
             /\ \A k \in 1..Len(events) : events'[k] = events[k]
             /\ events'[Len(L)] = ev
             /\ \A k \in 1..Len(L) : L[k] \in Mark /\ L[k].stack \in Seq(Frame) /\ L[k].at \in Nat
<1>1. /\ L \in Seq(Mark) /\ Len(L) = Len(events) + 1
  BY DEF LogShape
<1>2. \A k \in 1..Len(L) : L[k] \in Mark
  BY <1>1
<1>3. \A k \in 1..Len(L) : L[k].stack \in Seq(Frame) /\ L[k].at \in Nat
  BY <1>2 DEF Mark
<1>4. /\ Len(events') = Len(events) + 1 /\ events'[Len(events) + 1] = ev
      /\ \A k \in 1..Len(events) : events'[k] = events[k]
  BY AppendProperties
<1>5. /\ Append(L, m) \in Seq(Mark) /\ Len(Append(L, m)) = Len(L) + 1
      /\ Append(L, m)[Len(L) + 1] = m
      /\ \A k \in 1..Len(L) : Append(L, m)[k] = L[k]
  BY <1>1, AppendProperties
<1> QED
  BY <1>1, <1>2, <1>3, <1>4, <1>5

LEMMA StateFacts ==
  ASSUME IInv
  PROVE  /\ events \in Seq(Calls) /\ Stack \in Seq(Frame) /\ Height \in Nat /\ pos \in Nat
         /\ \A x \in DOMAIN headers : headers[x] \in PodHeader /\ headers[x].size \in Nat
                                    /\ headers[x].elem \in Nat
         /\ \A x : Finished(x) => x \in DOMAIN headers /\ headers[x].size \in Nat
<1>1. \A x \in DOMAIN headers : headers[x] \in PodHeader
  BY DEF IInv, TypeOK
<1>2. \A x \in DOMAIN headers : headers[x].size \in Nat /\ headers[x].elem \in Nat
  BY <1>1, SerializerAssumption DEF PodHeader
<1>3. \A x : Finished(x) => x \in DOMAIN headers
  BY DEF Finished, IInv, ExtentInv
<1>4. events \in Seq(Calls) /\ Stack \in Seq(Frame) /\ pos \in 0..Capacity
  BY StackFacts DEF IInv, TypeOK
<1>5. pos \in Nat /\ Height \in Nat
  BY <1>4, SerializerAssumption DEF Height
<1> QED
  BY <1>1, <1>2, <1>3, <1>4, <1>5

LEMMA Onward ==
  ASSUME IInv, IInv', NEW ev, Logged(ev)
  PROVE  pos \in Nat /\ pos' \in Nat /\ pos <= pos'
<1>1. pos \in 0..Capacity /\ pos' \in 0..Capacity
  BY DEF IInv, TypeOK
<1>2. pos <= pos'
  BY Zenon DEF Logged
<1> QED
  BY <1>1, <1>2, SerializerAssumption

\* A frame that was closed stays closed.
LEMMA ClosedKept ==
  ASSUME IInv, IInv', NEW L, NEW m \in Mark, NEW ev, Log(L), Logged(ev),
         NEW k \in 1..Len(events), NEW i \in 1..Len(L[k].stack), Closed(L, k, i)
  PROVE  Closed(Append(L, m), k, i)'
<1> DEFINE N == Append(L, m)
           f == L[k].stack[i]
           g == L[k].stack[i + 1]
<1>1. /\ N[k] = L[k] /\ N[k + 1] = L[k + 1] /\ events'[k] = events[k]
      /\ L[k].stack \in Seq(Frame) /\ L[k].at \in Nat /\ L[k + 1].at \in Nat
  <2>1. LogShape(L) /\ events \in Seq(Calls) /\ events' = Append(events, ev)
    BY StateFacts DEF Log, Logged
  <2> HIDE DEF f, g
  <2> QED
    BY <2>1, LogAppended, SMTT(30)
<1>2. /\ Finished(f.at) /\ EndAt(f) <= pos
      /\ IF Ends(L, k, i) THEN L[k].at = EndAt(f) ELSE L[k + 1].at <= EndAt(f)
      /\ f.kind = "array" =>
           /\ headers[f.at].size = 8 + f.length * f.elem
           /\ Added(L, k, i) <= f.length
           /\ Ends(L, k, i) => f.written = f.length
      /\ i < Len(L[k].stack) => Finished(g.at) /\ EndAt(g) <= EndAt(f)
  BY DEF Closed
<1>3. \A x : Finished(x) => Finished(x)' /\ headers'[x] = headers[x]
                           /\ headers[x].size \in Nat
  BY StateFacts DEF Logged, Finished
<1>4. f \in Frame /\ (i < Len(L[k].stack) => g \in Frame)
  BY <1>1
<1>5. EndAt(f)' = EndAt(f) /\ EndAt(f) \in Nat
  <2> HIDE DEF f
  <2>1. f.at \in Nat
    BY <1>4 DEF Frame
  <2>2. headers'[f.at] = headers[f.at] /\ headers[f.at].size \in Nat
    BY <1>2, <1>3
  <2> QED
    BY <2>1, <2>2 DEF EndAt
<1>6. i < Len(L[k].stack) => EndAt(g)' = EndAt(g)
  BY <1>2, <1>3 DEF EndAt
<1>7. Ends(N, k, i)' = Ends(L, k, i) /\ Added(N, k, i)' = Added(L, k, i)
  BY <1>1 DEF Ends, Added
<1>8. EndAt(f) <= pos'
  <2>1. pos \in Nat /\ pos <= pos' /\ pos' \in Nat
    BY Onward
  <2>2. EndAt(f) \in Nat /\ EndAt(f) <= pos
    BY <1>2, <1>5
  <2> HIDE DEF f
  <2> QED
    BY <2>1, <2>2
<1> QED
  BY <1>1, <1>2, <1>3, <1>5, <1>6, <1>7, <1>8 DEF Closed

\* What was written stays what it was.
LEMMA WroteKept ==
  ASSUME IInv, NEW ev, NEW new, NEW b \in Mark, NEW a \in Mark, Logged(new), Wrote(ev, b, a)
  PROVE  Wrote(ev, b, a)'
<1>1. CASE ev[1] \in Single
  <2>1. WroteSingle(ev, b, a)
    BY <1>1 DEF Wrote
  <2>2. Finished(b.at)' /\ b.at \in DOMAIN headers' /\ headers'[b.at] = headers[b.at]
    BY <2>1 DEF WroteSingle, Logged, Finished
  <2>3. WroteSingle(ev, b, a)'
    BY <2>1, <2>2 DEF WroteSingle
  <2> QED
    BY <1>1, <2>3 DEF Wrote
<1>2. CASE ev[1] \notin Single
  BY <1>2, Zenon DEF Wrote, WroteCompound, WroteProperty, WroteElement, WroteEnd
<1> QED
  BY <1>1, <1>2

\* The pod that is finished ends where the stream is.
LEMMA TopEnds ==
  ASSUME IInv, IInv', NEW ev, Logged(ev), ev[1] = "end"
  PROVE  /\ Height > 0 /\ Height' = Height - 1
         /\ \E e \in extents' : e.at = Tip.at
         /\ Tip.at + 8 + headers'[Tip.at].size = pos
         /\ Tip.kind = "array" => /\ Tip.written = Tip.length
                                  /\ headers'[Tip.at].size = 8 + Tip.length * Tip.elem
BY StateFacts, Zenon DEF Logged, Tip

LEMMA FrameCloses ==
  ASSUME IInv, IInv', NEW L, NEW m \in Mark, NEW ev, Log(L), Logged(ev), ev[1] = "end",
         NEW k \in 1..Len(events), NEW i \in 1..Len(L[k].stack), i = Height,
         IsOpen(L[k].stack[i], i), Framed(L, k, i)
  PROVE  Closed(Append(L, m), k, i)'
<1> DEFINE N == Append(L, m)
           f == L[k].stack[i]
           g == L[k].stack[i + 1]
<1>1. /\ LogShape(L) /\ LogFrames(L) /\ events \in Seq(Calls) /\ events' = Append(events, ev)
  BY StateFacts DEF Log, Logged
<1>2. /\ N[k] = L[k] /\ N[k + 1] = L[k + 1] /\ events'[k] = events[k]
      /\ L[k].stack \in Seq(Frame) /\ L[k].at \in Nat /\ L[k + 1].at \in Nat
      /\ k + 1 \in 1..Len(L) /\ k \in 1..Len(L)
  <2> HIDE DEF f, g
  <2>1. Len(events) \in Nat /\ Len(L) = Len(events) + 1
    BY <1>1, LogAppended
  <2>2. k + 1 \in 1..Len(L) /\ k \in 1..Len(L)
    BY <2>1
  <2> QED
    BY <1>1, <2>2, LogAppended
<1>3. /\ Same(f, Tip) /\ (Tip.kind = "array" => Added(L, k, i) <= Tip.written)
      /\ ~Ends(L, k, i)
  BY DEF Framed, StillOpen, Tip
<1>4. /\ Height \in Nat /\ Height > 0 /\ Height' = Height - 1
      /\ \E e \in extents' : e.at = Tip.at
      /\ Tip.at + 8 + headers'[Tip.at].size = pos
      /\ Tip.kind = "array" => /\ Tip.written = Tip.length
                               /\ headers'[Tip.at].size = 8 + Tip.length * Tip.elem
  BY TopEnds, StateFacts
<1>5. Ends(N, k, i)' = Ends(L, k, i) /\ Added(N, k, i)' = Added(L, k, i)
  BY <1>2 DEF Ends, Added
<1>6. /\ f.at = Tip.at /\ f.kind = Tip.kind /\ f.length = Tip.length /\ f.elem = Tip.elem
  BY <1>3 DEF Same
<1>7. Finished(f.at)'
  <2> HIDE DEF f
  <2> QED
    BY <1>4, <1>6 DEF Finished
<1>8. EndAt(f)' = pos
  <2> HIDE DEF f
  <2> QED
    BY <1>4, <1>6 DEF EndAt
<1>9. pos \in Nat /\ pos' \in Nat /\ pos <= pos' /\ L[k + 1].at <= pos
  BY <1>1, <1>2, Onward DEF LogShape
<1>10. i < Len(L[k].stack) => Finished(g.at)' /\ EndAt(g)' <= pos
  <2> SUFFICES ASSUME i < Len(L[k].stack)
               PROVE  Finished(g.at)' /\ EndAt(g)' <= pos
    OBVIOUS
  <2>1. i \in Nat /\ i + 1 \in 1..Len(L[k].stack) /\ ~IsOpen(g, i + 1)
    BY <1>2, <1>4 DEF IsOpen
  <2>2. Closed(L, k, i + 1)
    BY <1>1, <2>1 DEF LogFrames, Framed
  <2>3. Finished(g.at) /\ EndAt(g) <= pos
    BY <2>2 DEF Closed
  <2>4. Finished(g.at)' /\ headers'[g.at] = headers[g.at]
    BY <2>3, StateFacts DEF Logged, Finished
  <2> QED
    BY <2>3, <2>4 DEF EndAt
<1>11. f.kind = "array" =>
         /\ headers'[f.at].size = 8 + f.length * f.elem
         /\ Added(L, k, i) <= f.length
  BY <1>3, <1>4, <1>6, Zenon
<1> HIDE DEF N, g, f
<1>12. EndAt(f)' <= pos' /\ L[k + 1].at <= EndAt(f)'
       /\ (i < Len(L[k].stack) => EndAt(g)' <= EndAt(f)')
  BY <1>8, <1>9, <1>10
<1>13. f = N[k].stack[i] /\ g = N[k].stack[i + 1]
  BY <1>2 DEF f, g
<1> QED
  BY <1>2, <1>3, <1>5, <1>7, <1>10, <1>11, <1>12, <1>13, Zenon DEF Closed, N

\* The Stack of an earlier mark.
LEMMA OldFrames ==
  ASSUME IInv, IInv', NEW L, NEW m \in Mark, NEW ev, Log(L), Logged(ev),
         NEW k \in 1..Len(events), NEW i \in 1..Len(L[k].stack)
  PROVE  Framed(Append(L, m), k, i)'
<1> DEFINE N == Append(L, m)
           f == L[k].stack[i]
<1>1. /\ LogShape(L) /\ Framed(L, k, i) /\ events \in Seq(Calls) /\ events' = Append(events, ev)
  BY StateFacts DEF Log, Logged, LogFrames
<1>2. /\ N[k] = L[k] /\ events'[k] = events[k]
      /\ L[k].stack \in Seq(Frame) /\ L[k].at \in Nat
      /\ k \in 1..Len(L)
  <2> HIDE DEF f
  <2> QED
    BY <1>1, LogAppended
<1>3. i \in Nat /\ Height \in Nat /\ Height' \in Nat /\ f \in Frame /\ f.at \in Nat
      /\ f.at < L[k].at /\ L[k].at <= pos /\ pos \in Nat
  <2>1. f \in Frame /\ i \in Nat
    BY <1>2
  <2>2. f.at < L[k].at /\ L[k].at <= pos
    BY <1>1, <1>2 DEF LogShape, Shaped
  <2>3. Stack' \in Seq(Frame)
    BY StackAfter
  <2> QED
    BY <2>1, <2>2, <2>3, StateFacts DEF Height, Frame
<1>4. /\ \A j \in 1..Height : j <= Height' =>
           /\ Same(Stack[j], Stack'[j])
           /\ Stack[j].kind = "array" => Stack[j].written <= Stack'[j].written
      /\ Height' <= Height + 1
      /\ Height' > Height => Stack'[Height'].at = pos
      /\ IF ev[1] = "end" THEN Height' = Height - 1 ELSE Height <= Height'
  <2>1. \A j \in 1..Height : Stack[j] \in Frame
    BY StateFacts DEF Height
  <2>2. ASSUME NEW j \in 1..Height, j <= Height', Stack[j].kind = "array"
        PROVE  Stack[j].written <= Stack'[j].written
    <3>1. Stack[j].written \in Nat /\ Stack'[j].written \in Nat
      <4>1. Stack'[j] \in Frame
        BY <1>3, <2>2, StackAfter DEF Height
      <4> QED
        BY <2>1, <4>1 DEF Frame
    <3>2. Stack[j].written + (IF j = Height /\ ev[1] = "element" THEN 1 ELSE 0) <= Stack'[j].written
      BY <2>2, Zenon DEF Logged
    <3> QED
      BY <3>1, <3>2
  <2>3. \A j \in 1..Height : j <= Height' => Same(Stack[j], Stack'[j])
    BY Zenon DEF Logged
  <2>4. /\ Height' <= Height + 1
        /\ Height' > Height => Stack'[Height'].at = pos
        /\ IF ev[1] = "end" THEN Height' = Height - 1 ELSE Height <= Height'
    BY Zenon DEF Logged
  <2> QED
    BY <2>2, <2>3, <2>4, Zenon
<1>5. CASE IsOpen(f, i) /\ i <= Height'
  <2>1. /\ i \in 1..Height /\ Stack[i].at = f.at /\ Same(f, Stack[i]) /\ ~Ends(L, k, i)
        /\ Stack[i].kind = "array" => Added(L, k, i) <= Stack[i].written
    BY <1>1, <1>3, <1>5 DEF Framed, IsOpen, StillOpen
  <2>2. Same(f, Stack'[i]) /\ Stack'[i].at = f.at /\ Stack'[i].kind = Stack[i].kind
    BY <1>4, <1>5, <2>1 DEF Same
  <2>3. IsOpen(f, i)'
    BY <1>5, <2>2 DEF IsOpen
  <2>4. Stack'[i].kind = "array" => Added(L, k, i) <= Stack'[i].written
    <3>1. Stack[i].written \in Nat /\ f.written \in Nat
      <4>1. Stack[i] \in Frame
        BY <2>1, StateFacts DEF Height
      <4> HIDE DEF f
      <4> QED
        BY <1>3, <4>1 DEF Frame
    <3>2. Stack'[i].written \in Nat
      <4>1. Stack'[i] \in Frame
        BY <1>3, <1>5, StackAfter DEF Height
      <4> QED
        BY <4>1 DEF Frame
    <3>3. Added(L, k, i) \in Nat
      BY <3>1 DEF Added
    <3>4. Stack[i].kind = "array" => Stack[i].written <= Stack'[i].written
      BY <1>4, <1>5, <2>1
    <3> QED
      BY <2>1, <2>2, <3>1, <3>2, <3>3, <3>4
  <2>5. Ends(N, k, i)' = Ends(L, k, i) /\ Added(N, k, i)' = Added(L, k, i)
    BY <1>2 DEF Ends, Added
  <2>6. StillOpen(N, k, i)'
    BY <1>2, <2>1, <2>2, <2>4, <2>5 DEF StillOpen
  <2> QED
    BY <1>2, <2>3, <2>6 DEF Framed
<1>6. CASE IsOpen(f, i) /\ ~(i <= Height')
  <2>1. i <= Height /\ i = Height /\ ev[1] = "end"
    BY <1>3, <1>4, <1>6 DEF IsOpen
  <2>2. Closed(N, k, i)'
    <3> HIDE DEF N
    <3> QED
      BY <1>1, <1>6, <2>1, FrameCloses DEF N
  <2>3. ~IsOpen(f, i)'
    BY <1>6 DEF IsOpen
  <2> QED
    BY <1>2, <2>2, <2>3 DEF Framed
<1>7. CASE ~IsOpen(f, i)
  <2>1. Closed(L, k, i)
    BY <1>1, <1>7 DEF Framed
  <2>2. Closed(N, k, i)'
    BY <2>1, ClosedKept
  <2>3. ~IsOpen(f, i)'
    <3>1. CASE i <= Height
      BY <1>3, <1>4, <1>7, <3>1 DEF IsOpen, Same
    <3>2. CASE ~(i <= Height)
      <4> SUFFICES ASSUME i <= Height' PROVE Stack'[i].at # f.at
        BY DEF IsOpen
      <4>1. i = Height' /\ Height' > Height
        BY <1>3, <1>4, <3>2
      <4>2. Stack'[i].at = pos
        BY <1>4, <4>1
      <4> HIDE DEF f
      <4> QED
        BY <1>2, <1>3, <4>2
    <3> QED
      BY <3>1, <3>2
  <2> QED
    BY <1>2, <2>2, <2>3 DEF Framed
<1> QED
  BY <1>5, <1>6, <1>7

\* The Stack of the mark that was the last.
LEMMA NewFrames ==
  ASSUME IInv, IInv', NEW L, NEW m \in Mark, NEW ev, Log(L), Logged(ev),
         NEW k, k = Len(L), NEW i \in 1..Len(L[k].stack)
  PROVE  Framed(Append(L, m), k, i)'
<1> DEFINE N == Append(L, m)
           f == L[k].stack[i]
<1>1. /\ LogShape(L) /\ events \in Seq(Calls) /\ events' = Append(events, ev)
  BY StateFacts DEF Log, Logged
<1>2. /\ N[k] = L[k] /\ events'[k] = ev /\ Len(L) \in 1..Len(L)
  <2> HIDE DEF f
  <2>1. Len(events) \in Nat /\ Len(L) = Len(events) + 1
    BY <1>1, LogAppended
  <2> QED
    BY <1>1, <2>1, LogAppended
<1>3. L[k].stack = Stack /\ L[k].at = pos /\ i \in 1..Height /\ f = Stack[i]
  BY <1>1 DEF LogShape, Height
<1>4. f \in Frame /\ f.at \in Nat /\ f.written \in Nat /\ i \in Nat
      /\ Height \in Nat /\ Height' \in Nat
  <2>1. f \in Frame
    BY <1>3, StateFacts DEF Height
  <2>2. Stack' \in Seq(Frame)
    BY StackAfter
  <2>3. f.at \in Nat /\ f.written \in Nat
    <3> HIDE DEF f
    <3> QED
      BY <2>1 DEF Frame
  <2> QED
    BY <1>3, <2>1, <2>2, <2>3, StateFacts DEF Height
<1>5. Added(N, k, i)' = f.written + (IF i = Height /\ ev[1] = "element" THEN 1 ELSE 0)
      /\ (Ends(N, k, i)' <=> i = Height /\ ev[1] = "end")
  BY <1>2, <1>3 DEF Added, Ends, Height
<1>6. CASE i <= Height'
  <2>1. /\ Same(Stack[i], Stack'[i])
        /\ Stack[i].kind = "array" =>
             Stack[i].written + (IF i = Height /\ ev[1] = "element" THEN 1 ELSE 0)
               <= Stack'[i].written
    BY <1>3, <1>6, Zenon DEF Logged
  <2>2. IsOpen(f, i)'
    BY <1>3, <1>6, <2>1 DEF IsOpen, Same
  <2>3. ~Ends(N, k, i)'
    <3>1. ev[1] = "end" => Height' = Height - 1
      BY Zenon DEF Logged
    <3> QED
      BY <1>4, <1>5, <1>6, <3>1
  <2>4. Stack'[i].kind = "array" => Added(N, k, i)' <= Stack'[i].written
    BY <1>3, <1>5, <2>1, Zenon DEF Same
  <2>5. StillOpen(N, k, i)'
    BY <1>2, <1>3, <2>1, <2>3, <2>4, Zenon DEF StillOpen
  <2> QED
    BY <1>2, <2>2, <2>5 DEF Framed
<1>7. CASE ~(i <= Height')
  <2>1. ev[1] = "end" /\ i = Height
    <3>1. IF ev[1] = "end" THEN Height' = Height - 1 ELSE Height <= Height'
      BY Zenon DEF Logged
    <3> QED
      BY <1>3, <1>4, <1>7, <3>1
  <2>2. /\ \E e \in extents' : e.at = f.at
        /\ f.at + 8 + headers'[f.at].size = pos
        /\ f.kind = "array" => /\ f.written = f.length
                               /\ headers'[f.at].size = 8 + f.length * f.elem
    <3>1. f = Tip
      BY <1>3, <2>1 DEF Tip
    <3> HIDE DEF f
    <3> QED
      BY <2>1, <3>1, TopEnds, Zenon
  <2>3. Finished(f.at)' /\ EndAt(f)' = pos
    <3> HIDE DEF f
    <3> QED
      BY <2>2, Zenon DEF Finished, EndAt
  <2>4. pos <= pos' /\ i = Len(L[k].stack) /\ ~(i < Len(L[k].stack))
    BY <1>3, <1>4, <2>1, Onward DEF Height
  <2>5. Added(N, k, i)' = f.written
    <3> HIDE DEF f
    <3> QED
      BY <1>4, <1>5, <2>1
  <2>6. f.kind = "array" => Added(N, k, i)' <= f.length
    <3> HIDE DEF f, N
    <3> QED
      BY <1>4, <2>2, <2>5
  <2>7. Closed(N, k, i)'
    <3> HIDE DEF N
    <3>1. N[k].stack[i] = f /\ N[k].at = pos /\ Len(N[k].stack) = Len(L[k].stack)
      BY <1>2, <1>3
    <3>2. Ends(N, k, i)' /\ EndAt(f)' <= pos'
      BY <1>5, <2>1, <2>3, <2>4 DEF N
    <3> HIDE DEF f
    <3> QED
      BY <2>2, <2>3, <2>4, <2>6, <3>1, <3>2, Zenon DEF Closed
  <2>8. ~IsOpen(f, i)'
    BY <1>7 DEF IsOpen
  <2> QED
    BY <1>2, <2>7, <2>8 DEF Framed
<1> QED
  BY <1>6, <1>7

\* The headers of all Stack of all marks.
LEMMA HeadsKept ==
  ASSUME IInv, IInv', NEW L, NEW m \in Mark, NEW ev, Log(L), Logged(ev),
         m.stack = Stack', m.at = pos'
  PROVE  LogShape(Append(L, m))'
<1> DEFINE N == Append(L, m)
<1>1. /\ LogShape(L) /\ LogFrames(L) /\ events \in Seq(Calls) /\ events' = Append(events, ev)
  BY StateFacts DEF Log, Logged
<1>2. /\ N \in Seq(Mark) /\ Len(N) = Len(L) + 1 /\ Len(N) = Len(events') + 1
      /\ Len(L) = Len(events) + 1 /\ Len(events) \in Nat
      /\ \A k \in 1..Len(L) : N[k] = L[k]
      /\ N[Len(L) + 1] = m
      /\ \A k \in 1..Len(L) : L[k].stack \in Seq(Frame) /\ L[k].at \in Nat
  BY <1>1, LogAppended
<1>3. pos \in Nat /\ pos' \in Nat /\ pos <= pos'
  BY Onward
<1>4. /\ N[1].stack = <<>> /\ N[1].at = 0
      /\ N[Len(N)].stack = Stack' /\ N[Len(N)].at = pos'
  BY <1>1, <1>2 DEF LogShape
<1>5. Stack' \in Seq(Frame) /\ Height' \in Nat /\ Height \in Nat /\ Stack \in Seq(Frame)
  <2>1. Stack' \in Seq(Frame)
    BY StackAfter
  <2> QED
    BY <2>1, StateFacts DEF Height
<1>6. /\ \A j \in 1..Height : j <= Height' => Same(Stack[j], Stack'[j])
      /\ Height' <= Height + 1
      /\ Height' > Height => /\ Stack'[Height'].at = pos /\ pos < pos'
                             /\ Headed(headers', Stack'[Height'])
                             /\ Stack'[Height'].kind = "array" =>
                                  Stack'[Height'].elem > 0 \/ Stack'[Height'].length = 0
      /\ \A j \in 1..Height : Headed(headers, Stack[j]) => Headed(headers', Stack[j])
  BY Zenon DEF Logged
<1>7. \A j \in 1..Height' : j \in 1..Height \/ (j = Height' /\ Height' > Height)
  BY <1>5, <1>6
<1>8. /\ \A k \in 1..Len(L) : L[k].at <= pos /\ Shaped(L[k].stack, L[k].at)
      /\ \A k \in 1..Len(L) : \A i \in 1..Len(L[k].stack) : Headed(headers, L[k].stack[i])
      /\ L[Len(L)].stack = Stack
  BY <1>1 DEF LogShape
<1>9. \A j \in 1..Height : Headed(headers, Stack[j]) /\ Headed(headers', Stack[j])
  <2>1. Len(L) \in 1..Len(L)
    BY <1>2
  <2> QED
    BY <1>6, <1>8, <2>1 DEF Height
<1>10. ASSUME NEW j \in 1..Height' PROVE Headed(headers', Stack'[j])
  <2>1. CASE j \in 1..Height
    <3>1. Same(Stack[j], Stack'[j]) /\ Headed(headers', Stack[j])
      BY <1>6, <1>9, <1>10, <2>1
    <3> QED
      BY <3>1 DEF Same, Headed
  <2>2. CASE j = Height' /\ Height' > Height
    BY <1>6, <2>2, Zenon
  <2> QED
    BY <1>7, <1>10, <2>1, <2>2
<1>11. ASSUME NEW k \in 1..Len(events), NEW i \in 1..Len(L[k].stack)
       PROVE  Headed(headers', L[k].stack[i])
  <2> DEFINE f == L[k].stack[i]
  <2>1. Framed(L, k, i) /\ Headed(headers, f)
    BY <1>1, <1>2, <1>8 DEF LogFrames
  <2>2. CASE IsOpen(f, i)
    <3>1. i \in 1..Height /\ Same(f, Stack[i])
      BY <1>2, <1>5, <2>1, <2>2 DEF IsOpen, Framed, StillOpen
    <3>2. Headed(headers', Stack[i])
      BY <1>9, <3>1
    <3> QED
      BY <3>1, <3>2 DEF Same, Headed
  <2>3. CASE ~IsOpen(f, i)
    <3>1. Finished(f.at)
      BY <2>1, <2>3 DEF Framed, Closed
    <3>2. f.at \in DOMAIN headers' /\ headers'[f.at] = headers[f.at]
      BY <3>1, StateFacts, Zenon DEF Logged
    <3> QED
      BY <2>1, <3>2 DEF Headed
  <2> QED
    BY <2>2, <2>3
<1>12. Shaped(Stack', pos')
  <2>1. Stacked(Stack', DOMAIN headers') /\ DOMAIN headers' \subseteq 0..pos' - 1
    BY StackAfter DEF IInv, StreamInv
  <2>2. \A j \in 1..Height' : Stack'[j].at < pos'
    BY <1>3, <2>1 DEF Stacked, Height
  <2>3. ASSUME NEW j \in 1..Height', Stack'[j].kind = "array"
        PROVE  j = Height' /\ (Stack'[j].elem > 0 \/ Stack'[j].length = 0)
    <3>1. j = Height'
      BY <1>5, <2>1, <2>3 DEF Stacked, Height
    <3>2. CASE j \in 1..Height
      <4>1. Same(Stack[j], Stack'[j])
        BY <1>6, <3>1, <3>2
      <4>2. Len(L) \in 1..Len(L) /\ Innermost(Stack)
        BY <1>2, <1>8 DEF Shaped
      <4> QED
        BY <2>3, <3>1, <3>2, <4>1, <4>2 DEF Same, Innermost, Height
    <3>3. CASE j = Height' /\ Height' > Height
      BY <1>6, <2>3, <3>1, <3>3, Zenon
    <3> QED
      BY <1>7, <2>3, <3>2, <3>3
  <2> QED
    BY <1>5, <2>2, <2>3 DEF Shaped, Innermost, Height
<1>13. ASSUME NEW k \in 1..Len(N)
       PROVE  N[k].at <= pos' /\ Shaped(N[k].stack, N[k].at)
  <2>1. CASE k \in 1..Len(L)
    BY <1>2, <1>3, <1>8, <2>1
  <2>2. CASE k = Len(N)
    BY <1>3, <1>4, <1>12, <2>2
  <2> QED
    BY <1>2, <2>1, <2>2
<1>14. ASSUME NEW k \in 1..Len(N), NEW i \in 1..Len(N[k].stack)
       PROVE  Headed(headers', N[k].stack[i])
  <2>1. CASE k \in 1..Len(events)
    BY <1>2, <1>11, <1>14, <2>1
  <2>2. CASE k = Len(L)
    BY <1>2, <1>8, <1>9, <1>14, <2>2 DEF Height
  <2>3. CASE k = Len(N)
    BY <1>4, <1>10, <1>14, <2>3 DEF Height
  <2> QED
    BY <1>2, <2>1, <2>2, <2>3
<1>15. LogShape(N)'
  <2> HIDE DEF N
  <2> QED
    BY <1>2, <1>4, <1>13, <1>14 DEF LogShape
<1> QED
  BY <1>15

\* A call makes the log longer by one mark.
LEMMA LogGrows ==
  ASSUME IInv, IInv', NEW L, NEW m \in Mark, NEW ev, Log(L), Logged(ev),
         m.stack = Stack', m.at = pos',
         ev \in Calls, ev[1] \in Due(L, Len(L)),
         Wrote(ev, L[Len(L)], m)', LogTurn(Append(L, m))'
  PROVE  Log(Append(L, m))'
<1> DEFINE N == Append(L, m)
<1>1. /\ LogShape(L) /\ LogCalls(L) /\ events \in Seq(Calls) /\ events' = Append(events, ev)
  BY StateFacts DEF Log, Logged
<1>2. /\ N \in Seq(Mark) /\ Len(N) = Len(L) + 1
      /\ Len(events') = Len(L) /\ Len(L) = Len(events) + 1 /\ Len(events) \in Nat
      /\ \A k \in 1..Len(L) : N[k] = L[k]
      /\ N[Len(L) + 1] = m
      /\ \A k \in 1..Len(events) : events'[k] = events[k]
      /\ events'[Len(L)] = ev
      /\ \A k \in 1..Len(L) : L[k] \in Mark
  BY <1>1, LogAppended
<1>3. ASSUME NEW k \in 1..Len(L) PROVE Due(N, k)' = Due(L, k)
  <2>1. N[k] = L[k] /\ (k > 1 => events'[k - 1] = events[k - 1])
    BY <1>2
  <2> QED
    BY <2>1, Zenon DEF Due
<1>4. LogCalls(N)'
  <2>1. ASSUME NEW k \in 1..Len(L)
        PROVE  (Wrote(events[k], N[k], N[k + 1]) /\ events[k][1] \in Due(N, k))'
    <3>1. CASE k \in 1..Len(events)
      <4>1. Wrote(events[k], L[k], L[k + 1]) /\ events[k][1] \in Due(L, k)
        BY <1>1, <3>1 DEF LogCalls
      <4>2. PICK e : e = events[k]
        OBVIOUS
      <4>3. L[k] \in Mark /\ L[k + 1] \in Mark /\ k + 1 \in 1..Len(L)
        BY <1>2, <3>1
      <4>4. Wrote(e, L[k], L[k + 1])'
        BY <4>1, <4>2, <4>3, WroteKept
      <4>5. events'[k] = e /\ N[k] = L[k] /\ N[k + 1] = L[k + 1]
        BY <1>2, <3>1, <4>2, <4>3
      <4>6. Wrote(e, N[k], N[k + 1])'
        BY <4>4, <4>5
      <4> QED
        BY <1>3, <4>1, <4>2, <4>5, <4>6
    <3>2. CASE k = Len(L)
      <4>1. PICK e : e = ev
        OBVIOUS
      <4>2. events'[k] = ev /\ N[k] = L[k] /\ N[k + 1] = m
        BY <1>2, <3>2
      <4> QED
        BY <1>3, <3>2, <4>2
    <3> QED
      BY <1>2, <3>1, <3>2
  <2> QED
    BY <1>2, <2>1 DEF LogCalls
<1>5. LogFrames(N)'
  <2>1. ASSUME NEW k \in 1..Len(L), NEW i \in 1..Len(L[k].stack)
        PROVE  Framed(N, k, i)'
    <3>1. CASE k \in 1..Len(events)
      BY <2>1, <3>1, OldFrames
    <3>2. CASE k = Len(L)
      BY <2>1, <3>2, NewFrames
    <3> QED
      BY <1>2, <3>1, <3>2
  <2>2. \A k \in 1..Len(L) : N[k].stack = L[k].stack
    BY <1>2
  <2> QED
    BY <1>2, <2>1, <2>2 DEF LogFrames
<1> QED
  BY <1>4, <1>5, HeadsKept DEF Log

\* Who has the serializer after a call.
LEMMA TurnLogged ==
  ASSUME IInv, IInv', NEW L, NEW m \in Mark, NEW ev, Log(L), Logged(ev), m.stack = Stack',
         \/ turn' \in {"frame", "done"} /\ ev[1] # "property"
         \/ turn' = "value" /\ ev[1] = "property" /\ Open(Stack') /\ Stack' # <<>>
  PROVE  LogTurn(Append(L, m))'
<1> DEFINE N == Append(L, m)
<1>1. LogShape(L) /\ events \in Seq(Calls) /\ events' = Append(events, ev)
  BY StateFacts DEF Log, Logged
<1>2. /\ Len(N) = Len(L) + 1 /\ N[Len(L) + 1] = m
      /\ Len(events') = Len(L) /\ Len(L) = Len(events) + 1 /\ Len(events) \in Nat
      /\ events'[Len(L)] = ev
  BY <1>1, LogAppended
<1>3. N[Len(N)].stack = Stack' /\ events'[Len(N) - 1] = ev /\ Len(N) > 1
  <2> HIDE DEF N
  <2> QED
    BY <1>2
<1> HIDE DEF N
<1>4. turn' = "value" => Pods \subseteq Due(N, Len(N))'
  <2> SUFFICES ASSUME turn' = "value" PROVE Pods \subseteq Due(N, Len(N))'
    OBVIOUS
  <2>1. ev[1] = "property" /\ Stack' # <<>> /\ Last(Stack').kind # "array"
    BY DEF Open, Last
  <2>2. Last(Stack').kind = "struct" \/ Last(Stack').kind # "struct"
    OBVIOUS
  <2> QED
    BY <1>3, <2>1, Zenon DEF Due
<1>5. turn' = "frame" => events'[Len(events')][1] # "property"
  BY <1>2
<1>6. events' # <<>>
  BY <1>2, EmptySeq
<1>7. LogTurn(N)'
  BY <1>4, <1>5, <1>6 DEF LogTurn
<1> QED
  BY <1>7 DEF N

\* What goes back to the parent changes only its count.
LEMMA ReturnSame ==
  ASSUME NEW outer \in Seq(Frame), NEW len \in Nat, Return(outer, len)
  PROVE  /\ Len(frames') = Len(outer) /\ turn' \in {"frame", "done"}
         /\ \A i \in 1..Len(outer) : Same(outer[i], frames'[i])
<1>1. CASE outer = <<>>
  BY <1>1 DEF Return
<1>2. CASE outer # <<>>
  <2> DEFINE n == Len(outer)
             key == IF outer[n].kind = "object" THEN 8 ELSE 0
             w == outer[n].written + len + key
             g == [outer[n] EXCEPT !.written = w]
  <2>1. n \in 1..n /\ outer[n] \in Frame
    BY <1>2
  <2>2. frames' = [outer EXCEPT ![n] = g] /\ turn' = "frame"
    BY <1>2, <2>1 DEF Return
  <2>3. w \in Nat
    <3>1. outer[n].written \in Nat
      BY <2>1 DEF Frame
    <3> HIDE DEF n
    <3> QED
      BY <3>1
  <2>4. Same(outer[n], g)
    <3> HIDE DEF w, n
    <3> QED
      BY <2>1, <2>3, WrittenChanges DEF Same
  <2>5. Len(frames') = Len(outer)
        /\ \A i \in 1..n : frames'[i] = IF i = n THEN g ELSE outer[i]
    <3> HIDE DEF g
    <3> QED
      BY <2>2
  <2> HIDE DEF g, n
  <2>6. \A i \in 1..n : Same(outer[i], frames'[i])
    BY <2>4, <2>5 DEF Same
  <2> QED
    BY <2>2, <2>5, <2>6 DEF n
<1> QED
  BY <1>1, <1>2

\* In an open stack there are no arrays.
LEMMA NoArrays ==
  ASSUME NEW fs, NEW offsets, Stacked(fs, offsets), Open(fs)
  PROVE  \A i \in 1..Len(fs) : fs[i].kind # "array"
<1>1. \A i \in 1..Len(fs) : i \in 1..Len(fs) - 1 \/ i = Len(fs)
  BY DEF Stacked
<1>2. Len(fs) \in 1..Len(fs) => fs # <<>>
  BY EmptySeq
<1> QED
  BY <1>1, <1>2 DEF Stacked, Open

\* The mark before a call.
LEMMA LastMark ==
  ASSUME NEW L, Log(L)
  PROVE  L[Len(L)].stack = Stack /\ L[Len(L)].at = pos
BY DEF Log, LogShape

LEMMA PutFacts ==
  ASSUME NEW at, NEW h, headers' = Put(at, h)
  PROVE  /\ DOMAIN headers' = DOMAIN headers \cup {at} /\ headers'[at] = h
         /\ \A x \in DOMAIN headers : x # at => headers'[x] = headers[x]
BY DEF Put

LEMMA WholeLogged ==
  ASSUME Fresh, IInv, IInv', NEW L, NEW m \in Mark, Log(L), m.stack = Stack', m.at = pos',
         NEW type \in Single, NEW size \in Nat, NEW elem \in Nat, NEW ev \in Calls,
         Whole(type, size, elem, Padding(size), ev),
         ev[1] = type, Content(ev, [size |-> size, elem |-> elem])
  PROVE  Log(Append(L, m))'
<1> DEFINE len == 8 + size + Padding(size)
           h == Header(type, size, elem)
           b == L[Len(L)]
<1>1. Padding(size) \in Nat /\ len \in Nat /\ 8 <= len /\ size <= len
  BY PodLength, Zenon
<1>2. /\ turn = "value" /\ Gen(len) /\ headers' = Put(pos, h)
      /\ Return(frames, len) /\ events' = Append(events, ev)
      /\ extents' = extents \cup {[at |-> pos, to |-> pos']}
  BY DEF Whole, Record
<1> HIDE DEF len
<1>3. pos' = pos + len /\ pos \in Nat /\ pos <= pos' /\ pos' \in 0..Capacity
  BY <1>1, <1>2, GenFacts, StateFacts
<1>4. /\ Open(Stack) /\ Stacked(Stack, DOMAIN headers) /\ Stack \in Seq(Frame)
      /\ frames \in Seq(Frame) /\ Len(frames) = Depth /\ Len(Stack) = Height
      /\ \A o \in DOMAIN headers : o # pos
  BY <1>2, <1>3, StreamFacts, StackFacts DEF IInv, TurnInv, Depth
<1>5. h.size = size /\ h.elem = elem /\ h.type = type
  <2>1. size < U32
    <3>1. pos' < U32
      BY DEF IInv, StreamInv
    <3> QED
      BY <1>1, <1>3, <3>1, SerializerAssumption
  <2> QED
    BY <2>1, SizeFits DEF Header
<1> HIDE DEF h
<1>6. /\ \A x \in DOMAIN headers : x \in DOMAIN headers' /\ headers'[x] = headers[x]
      /\ pos \in DOMAIN headers' /\ headers'[pos] = h
  <2>1. headers' = Put(pos, h)
    BY <1>2
  <2>2. /\ DOMAIN headers' = DOMAIN headers \cup {pos} /\ headers'[pos] = h
        /\ \A x \in DOMAIN headers : x # pos => headers'[x] = headers[x]
    BY <2>1, PutFacts, Zenon
  <2>3. \A o \in DOMAIN headers : o # pos
    BY <1>4
  <2> QED
    BY <2>2, <2>3, Zenon
<1>7. turn' \in {"frame", "done"} /\ Height' = Height /\ Height \in Nat
      /\ \A i \in 1..Height : Same(Stack[i], Stack'[i])
  <2>1. /\ Len(frames') = Len(frames) /\ turn' \in {"frame", "done"}
        /\ \A i \in 1..Len(frames) : Same(frames[i], frames'[i])
    BY <1>1, <1>2, <1>4, ReturnSame
  <2>2. Depth' = Depth /\ Depth \in Nat
    BY <1>4, <2>1 DEF Depth
  <2> QED
    BY <1>4, <2>1, <2>2, StackSame
<1>8. Len(Stack') = Len(Stack)
  BY <1>7 DEF Height
<1>9. ev[1] # "end" /\ ev[1] # "property" /\ ev[1] \in Pods
  BY DEF Single, Pods
<1>10. \A x : Finished(x) => \E e \in extents' : e.at = x
  BY <1>2 DEF Finished
<1>11. \A i \in 1..Height : Headed(headers, Stack[i]) => Headed(headers', Stack[i])
  BY <1>6 DEF Headed
<1>12. \A i \in 1..Height : Stack[i].kind # "array"
  BY <1>4, NoArrays DEF Height
<1>13. Logged(ev)
  <2>1. \A x \in DOMAIN headers :
          Finished(x) => /\ \E e \in extents' : e.at = x
                         /\ x \in DOMAIN headers' /\ headers'[x] = headers[x]
    BY <1>6, <1>10
  <2>2. \A i \in 1..Height : Same(Stack[i], Stack'[i])
    BY <1>7
  <2>3. Height' <= Height + 1 /\ ~(Height' > Height) /\ Height <= Height'
    BY <1>7
  <2> QED
    BY <1>2, <1>3, <1>9, <1>11, <1>12, <2>1, <2>2, <2>3, Zenon DEF Logged
<1>14. b.stack = Stack /\ b.at = pos
  BY LastMark
<1> HIDE DEF b
<1>15. WroteSingle(ev, b, m)'
  <2>1. [at |-> pos, to |-> pos'] \in extents'
    BY <1>2
  <2>2. Finished(b.at)'
    BY <1>14, <2>1 DEF Finished
  <2>3. Below(b.stack, m.stack) /\ Len(m.stack) = Len(b.stack)
    BY <1>4, <1>7, <1>8, <1>14 DEF Below, Height
  <2>4. Content(ev, headers'[b.at])
    BY <1>5, <1>6, <1>14 DEF Content
  <2>5. m.at = b.at + 8 + headers'[b.at].size + Padding(headers'[b.at].size)
    <3>1. headers'[b.at].size = size /\ b.at = pos /\ m.at = pos + len
      BY <1>3, <1>5, <1>6, <1>14
    <3>2. pos + len = pos + 8 + size + Padding(size)
      BY <1>1, <1>3 DEF len
    <3> QED
      BY <3>1, <3>2
  <2> QED
    BY <1>5, <1>6, <1>14, <2>2, <2>3, <2>4, <2>5 DEF WroteSingle
<1>16. Wrote(ev, b, m)'
  BY <1>15, Zenon DEF Wrote, Single, Begun, Compound
<1>17. ev[1] \in Due(L, Len(L))
  BY <1>2, <1>9 DEF Log, LogTurn
<1>18. LogTurn(Append(L, m))'
  BY <1>7, <1>9, <1>13, TurnLogged
<1> QED
  BY <1>13, <1>16, <1>17, <1>18, LogGrows DEF b

LEMMA OpensLogged ==
  ASSUME Fresh, IInv, IInv', NEW L, NEW m \in Mark, Log(L), m.stack = Stack', m.at = pos',
         NEW n, NEW f \in Frame, NEW h \in PodHeader, NEW ev \in Calls,
         Opens(n, f, h, ev),
         ev[1] = (IF f.kind = "array" /\ f.elem = 0 THEN "units" ELSE f.kind),
         h.type = f.kind, f.kind = "array" => h.elem = f.elem,
         n = IF f.kind = "struct" THEN 8 ELSE 16,
         ev[2] = IF f.kind = "array" THEN f.length ELSE n
  PROVE  Log(Append(L, m))'
<1> DEFINE b == L[Len(L)]
           q == BareOf(f)
<1>0. /\ q \in Frame /\ q.kind = f.kind /\ q.at = f.at /\ q.elem = f.elem /\ q.elem \in Nat
      /\ f.written = 0 => q.written = 0
      /\ q.kind = "array" => q.length = IF f.elem = 0 THEN 0 ELSE f.length
  BY BareFrame DEF Frame
<1> HIDE DEF q
<1>1. /\ turn = "value" /\ turn' = "frame" /\ Gen(n) /\ n \in Nat /\ 8 <= n
      /\ f.at = pos /\ f.written = 0
      /\ headers' = Put(pos, h) /\ frames' = Append(frames, f)
      /\ events' = Append(events, ev) /\ extents' = extents
  BY DEF Opens
<1>2. pos' = pos + n /\ pos \in Nat /\ pos < pos' /\ pos <= pos'
  BY <1>1, GenFacts, StateFacts
<1>3. /\ Open(Stack) /\ Stacked(Stack, DOMAIN headers) /\ Stack \in Seq(Frame)
      /\ frames \in Seq(Frame) /\ Len(frames) = Depth /\ Len(Stack) = Height
      /\ Height = Depth /\ Height \in Nat
      /\ \A i \in 1..Height : Stack[i] = BareOf(frames[i])
      /\ \A o \in DOMAIN headers : o # pos
  BY <1>1, <1>2, StreamFacts, StackFacts DEF IInv, TurnInv, Depth
<1>4. /\ \A x \in DOMAIN headers : x \in DOMAIN headers' /\ headers'[x] = headers[x]
      /\ pos \in DOMAIN headers' /\ headers'[pos] = h
  <2>1. headers' = Put(pos, h)
    BY <1>1
  <2>2. /\ DOMAIN headers' = DOMAIN headers \cup {pos} /\ headers'[pos] = h
        /\ \A x \in DOMAIN headers : x # pos => headers'[x] = headers[x]
    BY <2>1, PutFacts, Zenon
  <2>3. \A o \in DOMAIN headers : o # pos
    BY <1>3
  <2> QED
    BY <2>2, <2>3, Zenon
<1>5. /\ Stack' \in Seq(Frame) /\ Len(Stack') = Height + 1
      /\ Stack'[Height + 1] = q
      /\ \A i \in 1..Height : Stack'[i] = Stack[i]
  <2>1. /\ Len(frames') = Height + 1 /\ frames'[Height + 1] = f
        /\ \A i \in 1..Height : frames'[i] = frames[i]
    BY <1>1, <1>3, AppendProperties
  <2>2. /\ Stack' \in Seq(Frame) /\ Len(Stack') = Height + 1
        /\ \A i \in 1..Height + 1 : Stack'[i] = BareOf(frames'[i])
    BY <2>1, StackAfter DEF Depth
  <2>3. Height + 1 \in 1..Height + 1 /\ \A i \in 1..Height : i \in 1..Height + 1
    BY <1>3
  <2> QED
    BY <1>3, <2>1, <2>2, <2>3 DEF q
<1>6. Height' = Height + 1 /\ Height = Len(Stack) /\ Height \in Nat /\ Stack'[Height'] = q
  BY <1>3, <1>5 DEF Height
<1>7. ev[1] # "end" /\ ev[1] # "property" /\ ev[1] \in Begun /\ ev[1] \in Pods
  BY DEF Frame, Compound, Begun, Pods
<1>8. Headed(headers', q)
  BY <1>0, <1>1, <1>4 DEF Headed
<1>9. \A i \in 1..Height : /\ Same(Stack[i], Stack'[i])
                           /\ Headed(headers, Stack[i]) => Headed(headers', Stack[i])
  BY <1>4, <1>5, <1>6 DEF Same, Headed
<1>10. \A i \in 1..Height : Stack[i].kind # "array"
  BY <1>3, NoArrays DEF Height
<1>11. Logged(ev)
  <2>1. \A x \in DOMAIN headers :
          Finished(x) => /\ \E e \in extents' : e.at = x
                         /\ x \in DOMAIN headers' /\ headers'[x] = headers[x]
    BY <1>1, <1>4 DEF Finished
  <2>2. Height' <= Height + 1 /\ Height' > Height /\ Height <= Height'
    BY <1>6
  <2>3. q.at = pos /\ (q.kind = "array" => q.elem > 0 \/ q.length = 0)
    BY <1>0, <1>1
  <2>4. ~(ev[1] = "end")
    BY <1>7
  <2> QED
    BY <1>1, <1>2, <1>6, <1>7, <1>8, <1>9, <1>10, <2>1, <2>2, <2>3, <2>4, Zenon DEF Logged
<1>12. b.stack = Stack /\ b.at = pos
  BY LastMark
<1> HIDE DEF b
<1>13. WroteCompound(ev, b, m)
  <2>1. Last(m.stack) = q
    BY <1>5 DEF Last
  <2>2. Below(b.stack, m.stack) /\ Len(m.stack) = Len(b.stack) + 1
    BY <1>5, <1>6, <1>9, <1>12 DEF Below
  <2>3. m.at = b.at + n
    BY <1>2, <1>12
  <2>4. q.kind \in Compound
    BY <1>0 DEF Frame, Compound
  <2>5. q.kind = "array" => Seen(ev)[2] = q.length /\ (ev[1] = "units" <=> q.elem = 0)
    BY <1>0 DEF Seen
  <2> QED
    BY <1>0, <1>1, <1>12, <2>1, <2>2, <2>3, <2>4, <2>5 DEF WroteCompound, Compound, KindOf
<1>14. Wrote(ev, b, m)'
  <2>1. WroteCompound(ev, b, m)'
    BY <1>13 DEF WroteCompound, Seen, KindOf
  <2> QED
    BY <1>7, <2>1, Zenon DEF Wrote, Single, Begun, Compound
<1>15. ev[1] \in Due(L, Len(L))
  BY <1>1, <1>7 DEF Log, LogTurn
<1>16. LogTurn(Append(L, m))'
  BY <1>1, <1>7, <1>11, TurnLogged
<1> QED
  BY <1>11, <1>14, <1>15, <1>16, LogGrows DEF b

LEMMA TipFacts ==
  ASSUME IInv, turn = "frame"
  PROVE  /\ Tip \in Frame /\ Tip.kind = Top.kind /\ Tip.at = Top.at /\ Tip.elem = Top.elem
         /\ Tip.written * Tip.elem = Top.written * Top.elem
         /\ Tip.length * Tip.elem = Top.length * Top.elem
         /\ Top.written = Top.length => Tip.written = Tip.length
         /\ Top.kind # "array" \/ Top.elem # 0 => Tip = Top
         /\ Height = Depth /\ Tip = Stack[Height] /\ Tip.at \in Nat /\ Tip.written \in Nat
         /\ Stack # <<>> /\ Last(Stack) = Tip
<1>1. frames # <<>>
  BY DEF IInv, TurnInv
<1>2. /\ Tip = BareOf(Top) /\ Top \in Frame /\ Height = Depth /\ Tip = Stack[Height]
      /\ Stack # <<>> /\ Height = Len(Stack)
  BY <1>1, StackFacts DEF Tip
<1>3. /\ Tip \in Frame /\ Tip.kind = Top.kind /\ Tip.at = Top.at /\ Tip.elem = Top.elem
      /\ Top.kind # "array" \/ Top.elem # 0 => Tip = Top
      /\ Top.kind = "array" /\ Top.elem = 0 => Tip.written = 0 /\ Tip.length = 0
  BY <1>2, BareFrame
<1>4. /\ Tip.at \in Nat /\ Tip.written \in Nat /\ Tip.length \in Nat
      /\ Top.written \in Nat /\ Top.length \in Nat
  BY <1>2, <1>3 DEF Frame
<1>5. \A n \in Nat : n * 0 = 0
  OBVIOUS
<1> QED
  BY <1>2, <1>3, <1>4, <1>5 DEF Last

\* The innermost frame is closed.
Closes(len, to) ==
  /\ turn = "frame" /\ Return(Outer, len) /\ len \in Nat
  /\ events' = Append(events, <<"end", 0>>)
  /\ extents' = extents \cup {[at |-> Top.at, to |-> to]}
  /\ \A x \in DOMAIN headers : /\ x \in DOMAIN headers'
                               /\ x # Top.at => headers'[x] = headers[x]
  /\ Headed(headers, Top) => Headed(headers', Top)
  /\ Top.at + 8 + headers'[Top.at].size = pos
  /\ Top.kind = "array" => /\ Top.written = Top.length
                           /\ headers'[Top.at].size = 8 + Top.length * Top.elem
  /\ pos' = pos + IF Top.kind = "array" THEN Padding(Top.written * Top.elem) ELSE 0

LEMMA ClosesLogged ==
  ASSUME IInv, IInv', NEW L, NEW m \in Mark, Log(L), m.stack = Stack', m.at = pos',
         NEW len, NEW to, Closes(len, to)
  PROVE  Log(Append(L, m))'
<1> DEFINE b == L[Len(L)]
           ev == <<"end", 0>>
<1>0. /\ Tip \in Frame /\ Tip.kind = Top.kind /\ Tip.at = Top.at /\ Tip.elem = Top.elem
      /\ Tip.written * Tip.elem = Top.written * Top.elem
      /\ Tip.length * Tip.elem = Top.length * Top.elem
      /\ Top.written = Top.length => Tip.written = Tip.length
      /\ Height = Depth /\ Tip = Stack[Height] /\ Tip.at \in Nat /\ Tip.written \in Nat
  BY TipFacts DEF Closes
<1>1. /\ turn = "frame" /\ Return(Outer, len) /\ len \in Nat
      /\ events' = Append(events, ev)
      /\ extents' = extents \cup {[at |-> Tip.at, to |-> to]}
      /\ \A x \in DOMAIN headers : /\ x \in DOMAIN headers'
                                   /\ x # Tip.at => headers'[x] = headers[x]
      /\ Headed(headers, Tip) => Headed(headers', Tip)
      /\ Tip.at + 8 + headers'[Tip.at].size = pos
      /\ Tip.kind = "array" => /\ Tip.written = Tip.length
                               /\ headers'[Tip.at].size = 8 + Tip.length * Tip.elem
      /\ pos' = pos + IF Tip.kind = "array" THEN Padding(Tip.written * Tip.elem) ELSE 0
  BY <1>0 DEF Closes, Headed
<1>2. /\ Height \in Nat \ {0} /\ Tip.at \in DOMAIN headers
      /\ \A e \in extents : e.at # Tip.at
  BY <1>0, <1>1, TopFacts
<1>3. /\ Stack \in Seq(Frame) /\ Height = Len(Stack) /\ Tip = Stack[Height]
      /\ Stacked(Stack, DOMAIN headers)
  BY <1>0, StackFacts
<1>4. /\ Outer \in Seq(Frame) /\ Len(Outer) = Height - 1
      /\ \A i \in 1..Len(Outer) : Outer[i] = frames[i]
  <2>1. frames \in Seq(Frame) /\ Len(frames) = Height /\ Len(frames) \in Nat \ {0}
    BY <1>0, <1>2, StreamFacts DEF Depth
  <2> QED
    BY <2>1, FrontOfSeq DEF Outer, Depth
<1>5. /\ Height' = Height - 1 /\ Len(Stack') = Height - 1 /\ turn' \in {"frame", "done"}
      /\ \A i \in 1..Height - 1 : Same(Stack[i], Stack'[i])
  <2>1. /\ Depth' = Height - 1 /\ turn' \in {"frame", "done"}
        /\ \A i \in 1..Height - 1 : Same(frames[i], frames'[i])
    BY <1>1, <1>4, ReturnSame DEF Depth
  <2>2. Depth' <= Depth
    BY <1>0, <1>2, <2>1
  <2> QED
    BY <2>1, <2>2, StackSame DEF Height
<1>6. Height' = Height - 1
  BY <1>5
<1>7. \A x : Finished(x) => x # Tip.at
  BY <1>2 DEF Finished
<1>8. \A i \in 1..Height - 1 : /\ Stack[i].at # Tip.at
                              /\ Stack[i].kind # "array"
  <2>1. \A i \in 1..Height - 1 : Stack[i].at \in Nat
    <3>1. \A i \in 1..Height - 1 : Stack[i] \in Frame
      BY <1>2, <1>3
    <3> QED
      BY <3>1 DEF Frame
  <2>2. \A i \in 1..Height - 1 : Stack[i].at < Tip.at
    BY <1>2, <1>3 DEF Stacked
  <2>3. \A i \in 1..Height - 1 : Stack[i].kind # "array"
    BY <1>2, <1>3 DEF Stacked
  <2> QED
    BY <1>0, <2>1, <2>2, <2>3
<1>9. pos \in Nat /\ pos' \in Nat /\ pos <= pos'
  <2>1. Tip.elem \in Nat
    BY <1>0 DEF Frame
  <2>2. Tip.written * Tip.elem \in Nat
    BY <1>0, <2>1, Products
  <2>3. Padding(Tip.written * Tip.elem) \in Nat
    BY <2>2, PodLength, Zenon
  <2>4. pos' = pos + IF Tip.kind = "array" THEN Padding(Tip.written * Tip.elem) ELSE 0
    BY <1>1
  <2> QED
    BY <2>3, <2>4, StateFacts
<1>10. \A i \in 1..Height : Headed(headers, Stack[i]) => Headed(headers', Stack[i])
  <2>1. \A i \in 1..Height : i = Height \/ i \in 1..Height - 1
    BY <1>2
  <2>2. ASSUME NEW i \in 1..Height - 1, Headed(headers, Stack[i])
        PROVE  Headed(headers', Stack[i])
    BY <1>1, <1>8, <2>2 DEF Headed
  <2> QED
    BY <1>1, <1>3, <2>1, <2>2
<1>11. Logged(ev)
  <2>1. \A x \in DOMAIN headers :
          Finished(x) => /\ \E e \in extents' : e.at = x
                         /\ x \in DOMAIN headers' /\ headers'[x] = headers[x]
    BY <1>1, <1>7 DEF Finished
  <2>2. \A i \in 1..Height : i <= Height' =>
          /\ i \in 1..Height - 1
          /\ Same(Stack[i], Stack'[i])
          /\ Stack[i].kind # "array"
    BY <1>2, <1>5, <1>6, <1>8
  <2>3. Height' <= Height + 1 /\ ~(Height' > Height) /\ Height > 0
    BY <1>2, <1>6
  <2>4. \E e \in extents' : e.at = Tip.at
    <3>1. [at |-> Tip.at, to |-> to] \in extents'
      BY <1>1, Zenon
    <3> QED
      BY <3>1
  <2>5. ev[1] = "end"
    OBVIOUS
  <2> HIDE DEF ev
  <2> QED
    BY <1>1, <1>6, <1>9, <1>10, <2>1, <2>2, <2>3, <2>4, <2>5, Zenon DEF Logged
<1>12. b.stack = Stack /\ b.at = pos
  BY LastMark
<1>13. WroteEnd(ev, b, m)
  <2>1. Last(b.stack) = Tip
    BY <1>3, <1>12 DEF Last
  <2>2. Below(m.stack, b.stack) /\ Len(m.stack) = Len(b.stack) - 1
    <3>1. Len(Stack') = Len(Stack) - 1 /\ Len(Stack) \in Nat
      BY <1>2, <1>3, <1>5
    <3>2. \A i \in 1..Len(Stack') : Same(Stack'[i], Stack[i])
      BY <1>5 DEF Same
    <3>3. Below(Stack', Stack)
      BY <3>1, <3>2 DEF Below
    <3> HIDE DEF b
    <3> QED
      BY <1>12, <3>1, <3>3
  <2>3. pos' = pos + IF Tip.kind = "array" THEN Padding(Tip.written * Tip.elem) ELSE 0
    BY <1>1
  <2> HIDE DEF b
  <2> QED
    BY <1>12, <2>1, <2>2, <2>3 DEF WroteEnd
<1>14. Wrote(ev, b, m)'
  <2>1. WroteEnd(ev, b, m)' /\ ev[1] = "end"
    BY <1>13 DEF WroteEnd
  <2> QED
    BY <2>1, Zenon DEF Wrote, Single, Begun, Compound
<1>15. ev[1] \in Due(L, Len(L))
  <2>1. Tip.kind = "object" => events[Len(events)][1] # "property"
    BY <1>1 DEF Log, LogTurn
  <2>2. Len(L) = Len(events) + 1 /\ Len(events) \in Nat
    BY StateFacts DEF Log, LogShape
  <2>3. Stack # <<>> /\ Last(Stack) = Tip
    BY <1>2, <1>3, EmptySeq DEF Last
  <2>4. Tip.kind \in {"struct", "object", "array"}
    BY <1>0 DEF Frame
  <2>5. Len(L) - 1 = Len(events)
    BY <2>2
  <2> QED
    BY <1>12, <2>1, <2>3, <2>4, <2>5 DEF Due
<1>16. LogTurn(Append(L, m))'
  <2>1. ev[1] # "property"
    OBVIOUS
  <2> HIDE DEF ev
  <2> QED
    BY <1>5, <1>11, <2>1, TurnLogged
<1>17. ev \in Calls
  BY DEF Calls
<1> HIDE DEF ev
<1> QED
  BY <1>11, <1>14, <1>15, <1>16, <1>17, LogGrows

LEMMA EndLogged ==
  ASSUME Fresh, IInv, IInv', NEW L, NEW m \in Mark, Log(L), m.stack = Stack', m.at = pos',
         NEW kind \in {"struct", "object"}, NEW size \in Nat,
         End(kind, size), Extent(Top) = 8 + size
  PROVE  Log(Append(L, m))'
<1>1. /\ turn = "frame" /\ Top.kind = kind /\ headers' = Put(Top.at, Header(kind, size, 0))
      /\ pos' = length /\ Return(Outer, 8 + size)
      /\ extents' = extents \cup {[at |-> Top.at, to |-> pos]}
      /\ events' = Append(events, <<"end", 0>>)
  BY DEF End, Record
<1>2. pos' = pos /\ pos \in 0..Capacity /\ pos = Top.at + Extent(Top) /\ Top.at \in Nat
  BY <1>1, StreamFacts, TopFacts
<1>3. size < U32
  <2>1. pos \in Nat /\ pos < U32
    BY StreamFacts
  <2> QED
    BY <1>2, <2>1, SerializerAssumption
<1> DEFINE h == Header(kind, size, 0)
<1>4. h.size = size /\ h.type = kind
  BY <1>3, SizeFits DEF Header
<1> HIDE DEF h
<1>5. /\ DOMAIN headers' = DOMAIN headers \cup {Top.at} /\ headers'[Top.at] = h
      /\ \A x \in DOMAIN headers : x # Top.at => headers'[x] = headers[x]
  <2>1. headers' = Put(Top.at, h)
    BY <1>1 DEF h
  <2> QED
    BY <2>1, PutFacts, Zenon
<1>6. Headed(headers', Top)
  BY <1>1, <1>4, <1>5 DEF Headed
<1>7. Top.at + 8 + headers'[Top.at].size = pos
  BY <1>2, <1>3, <1>4, <1>5, SerializerAssumption
<1>8. \A x \in DOMAIN headers : /\ x \in DOMAIN headers'
                                /\ x # Top.at => headers'[x] = headers[x]
  BY <1>5
<1>9. Top.kind # "array" /\ 8 + size \in Nat
  BY <1>1
<1>10. pos' = pos + IF Top.kind = "array" THEN Padding(Top.written * Top.elem) ELSE 0
  BY <1>2, <1>9, SerializerAssumption
<1>11. Closes(8 + size, pos)
  BY <1>1, <1>6, <1>7, <1>8, <1>9, <1>10, Zenon DEF Closes
<1> QED
  BY <1>11, ClosesLogged

LEMMA ArrayEndLogged ==
  ASSUME Fresh, IInv, IInv', NEW L, NEW m \in Mark, Log(L), m.stack = Stack', m.at = pos',
         ArrayEnd
  PROVE  Log(Append(L, m))'
<1> DEFINE bytes == Top.written * Top.elem
           len == 16 + bytes + Padding(bytes)
<1>1. /\ turn = "frame" /\ Top.kind = "array" /\ Top.written = Top.length
      /\ Gen(Padding(bytes)) /\ headers' = headers
      /\ Return(Outer, len) /\ extents' = extents \cup {[at |-> Top.at, to |-> pos']}
      /\ events' = Append(events, <<"end", 0>>)
  <2>1. turn = "frame" /\ Top.kind = "array"
    BY DEF ArrayEnd, ArrayEndWith
  <2>2. BodyWritten = bytes
    BY <2>1, BodyFits
  <2> QED
    BY <2>2 DEF ArrayEnd, ArrayEndWith, Record
<1>2. /\ Top \in Frame /\ Top.at \in Nat /\ Top.written \in Nat /\ Top.elem \in Nat
      /\ pos = Top.at + Extent(Top) /\ Depth \in Nat \ {0} /\ pos \in 0..Capacity
  BY <1>1, TopFacts, StreamFacts DEF Frame
<1>3. bytes \in Nat /\ Extent(Top) = 16 + bytes
  BY <1>1, <1>2, Products, ExtentTyped
<1>4. headers[Top.at].size = (8 + bytes) % U32
  BY <1>1, <1>2, StreamFacts, EmptySeq DEF IInv, ArrayInv, Depth
<1>5. bytes = Top.length * Top.elem
  BY <1>1
<1> HIDE DEF bytes
<1>6. Padding(bytes) \in Nat /\ len \in Nat
  <2>1. Padding(bytes) \in Nat
    BY <1>3, PodLength, Zenon
  <2> QED
    BY <1>3, <2>1
<1>7. pos' = pos + Padding(bytes)
  BY <1>1, <1>6, GenFacts
<1>8. headers'[Top.at].size = 8 + bytes
  <2>1. 8 + bytes \in Nat /\ 8 + bytes < U32
    <3>1. pos < U32 /\ pos \in Nat
      BY StreamFacts
    <3> QED
      BY <1>2, <1>3, <3>1, SerializerAssumption
  <2> QED
    BY <1>1, <1>4, <2>1, SizeFits
<1>9. Top.at + 8 + headers'[Top.at].size = pos
  BY <1>2, <1>3, <1>8
<1>10. \A x \in DOMAIN headers : /\ x \in DOMAIN headers'
                                 /\ x # Top.at => headers'[x] = headers[x]
  BY <1>1
<1>11. Headed(headers, Top) => Headed(headers', Top)
  BY <1>1
<1>12. pos' = pos + IF Top.kind = "array" THEN Padding(Top.written * Top.elem) ELSE 0
  BY <1>1, <1>7 DEF bytes
<1>13. PICK to : to = pos'
  OBVIOUS
<1> HIDE DEF len
<1>14. Closes(len, to)
  BY <1>1, <1>5, <1>6, <1>8, <1>9, <1>10, <1>11, <1>12, <1>13, Zenon DEF Closes
<1> QED
  BY <1>14, ClosesLogged

LEMMA ElementLogged ==
  ASSUME Fresh, IInv, IInv', NEW L, NEW m \in Mark, Log(L), m.stack = Stack', m.at = pos',
         SerializeElement, Top.elem # 0
  PROVE  Log(Append(L, m))'
<1> DEFINE b == L[Len(L)]
           g == [Top EXCEPT !.written = Top.written + 1]
<1>0. PICK ev : ev = <<"element", Top.elem>>
  OBVIOUS
<1>1. /\ turn = "frame" /\ turn' = "frame" /\ Top.kind = "array" /\ Gen(Top.elem)
      /\ frames' = [frames EXCEPT ![Depth].written = (@ + 1) % U32]
      /\ events' = Append(events, ev)
      /\ headers' = headers /\ extents' = extents
  BY <1>0 DEF SerializeElement, Record
<1>2. /\ Top \in Frame /\ Top.written \in Nat /\ Top.elem \in Nat
      /\ Depth \in Nat \ {0} /\ Depth \in 1..Depth /\ Depth = Len(frames) /\ frames \in Seq(Frame)
      /\ Top = frames[Depth] /\ Stacked(frames, DOMAIN headers)
  BY <1>1, TopFacts, StreamFacts DEF Depth, Frame, Top
<1>3. pos' = pos + Top.elem /\ pos <= pos' /\ pos \in Nat /\ length' = pos'
  BY <1>1, <1>2, GenFacts, StateFacts
<1>4. /\ Same(Top, g) /\ g.written = Top.written + 1 /\ g \in Frame
      /\ (Top.written + 1) % U32 = Top.written + 1
  <2>1. Top.written + 1 \in Nat
    BY <1>2
  <2>2. Top.written + 1 < U32
    <3>1. length' < U32
      BY DEF IInv
    <3> QED
      BY <1>1, <1>3, <3>1, ElementsFit
  <2> QED
    BY <1>2, <2>1, <2>2, WrittenChanges, SizeFits DEF Same
<1>5. /\ Len(Stack') = Len(Stack) /\ Height' = Height /\ Height = Depth
      /\ Tip = Top /\ Tip = Stack[Height]
      /\ \A i \in 1..Height : Stack'[i] = IF i = Height THEN g ELSE Stack[i]
  <2>1. frames' = [frames EXCEPT ![Depth] = g]
    BY <1>1, <1>2, <1>4
  <2> HIDE DEF g
  <2>2. /\ Len(frames') = Len(frames)
        /\ \A i \in 1..Depth : frames'[i] = IF i = Depth THEN g ELSE frames[i]
    BY <1>2, <1>4, <2>1, ExceptSeq
  <2>3. Depth' = Depth
    BY <1>2, <2>2 DEF Depth
  <2>4. g.elem = Top.elem /\ BareOf(g) = g
    BY <1>4, BareFrame DEF Same
  <2>5. /\ Height = Depth /\ Height' = Depth' /\ Height = Len(Stack) /\ Height' = Len(Stack')
        /\ \A i \in 1..Depth : Stack[i] = BareOf(frames[i])
        /\ \A i \in 1..Depth' : Stack'[i] = BareOf(frames'[i])
    BY StackFacts, StackAfter
  <2>6. Tip = Top /\ Tip = Stack[Height]
    BY <1>1, TipFacts
  <2> QED
    BY <2>2, <2>3, <2>4, <2>5, <2>6
<1> HIDE DEF g
<1>6. \A i \in 1..Height : Same(Stack[i], Stack'[i])
  BY <1>4, <1>5 DEF Same
<1>7. /\ Height' = Height /\ Height \in Nat \ {0} /\ Height = Len(Stack)
      /\ Tip.written \in Nat /\ Stacked(Stack, DOMAIN headers) /\ Stack # <<>> /\ Last(Stack) = Tip
  BY <1>1, <1>2, <1>5, StackFacts, TipFacts
<1>8. \A i \in 1..Height : Stack[i].kind = "array" =>
         Stack[i].written + (IF i = Height /\ ev[1] = "element" THEN 1 ELSE 0) <= Stack'[i].written
  <2>1. \A i \in 1..Height : Stack[i].kind = "array" => i = Height
    <3>1. \A i \in 1..Height : i = Height \/ i \in 1..Height - 1
      BY <1>7
    <3> QED
      BY <1>7, <3>1 DEF Stacked
  <2>2. Tip.written + 1 <= Stack'[Height].written
    BY <1>7, <1>4, <1>5
  <2> QED
    BY <1>0, <1>5, <1>7, <2>1, <2>2
<1>9. ev[1] = "element" /\ ev[1] # "end" /\ ev[1] # "property" /\ ev[2] = Tip.elem
  BY <1>0, <1>5
<1>10. ev \in Calls
  BY <1>0, <1>2 DEF Calls
<1>11. Logged(ev)
  <2>1. \A x \in DOMAIN headers :
          Finished(x) => /\ \E e \in extents' : e.at = x
                         /\ x \in DOMAIN headers' /\ headers'[x] = headers[x]
    BY <1>1 DEF Finished
  <2>2. Height' <= Height + 1 /\ ~(Height' > Height) /\ Height <= Height'
    BY <1>7
  <2> QED
    BY <1>1, <1>3, <1>6, <1>8, <1>9, <2>1, <2>2, Zenon DEF Logged
<1>12. b.stack = Stack /\ b.at = pos
  BY LastMark
<1> HIDE DEF b
<1>13. WroteElement(ev, b, m)
  <2>0. Height \in 1..Height /\ Len(Stack) = Height /\ Len(Stack') = Height
        /\ Stack'[Height] = g
    <3>1. Height \in 1..Height
      BY <1>7
    <3> QED
      BY <1>5, <1>7, <3>1
  <2>1. Last(b.stack) = Tip /\ Last(m.stack) = g
    BY <1>7, <1>12, <2>0, Zenon DEF Last
  <2>2. Below(b.stack, m.stack) /\ Len(m.stack) = Len(b.stack)
    <3>1. Below(Stack, Stack')
      BY <1>6, <1>7, <2>0 DEF Below
    <3> QED
      BY <1>12, <2>0, <3>1, Zenon
  <2>3. m.at = b.at + ev[2]
    BY <1>3, <1>5, <1>9, <1>12
  <2>4. g.written = Tip.written + 1 /\ ev[2] = Tip.elem
    BY <1>4, <1>5, <1>9
  <2> QED
    BY <2>1, <2>2, <2>3, <2>4 DEF WroteElement
<1>14. Wrote(ev, b, m)'
  <2>1. WroteElement(ev, b, m)'
    BY <1>13 DEF WroteElement
  <2> QED
    BY <1>9, <2>1, Zenon DEF Wrote, Single, Begun, Compound
<1>15. ev[1] \in Due(L, Len(L))
  <2>1. Stack # <<>> /\ Last(Stack) = Tip /\ Tip.kind = "array"
    BY <1>1, <1>5, <1>7
  <2> QED
    BY <1>9, <1>12, <2>1 DEF Due, b
<1>16. LogTurn(Append(L, m))'
  BY <1>1, <1>9, <1>11, TurnLogged
<1> QED
  BY <1>10, <1>11, <1>14, <1>15, <1>16, LogGrows DEF b

LEMMA PropertyLogged ==
  ASSUME Fresh, IInv, IInv', NEW L, NEW m \in Mark, Log(L), m.stack = Stack', m.at = pos',
         SerializeProperty
  PROVE  Log(Append(L, m))'
<1> DEFINE b == L[Len(L)]
           ev == <<"property", 8>>
<1>1. /\ turn = "frame" /\ turn' = "value" /\ Top.kind = "object" /\ Gen(8)
      /\ frames' = frames /\ events' = Append(events, ev)
      /\ headers' = headers /\ extents' = extents
  BY DEF SerializeProperty, Record
<1>2. /\ Height \in Nat \ {0} /\ Height = Len(Stack) /\ Stack \in Seq(Frame)
      /\ Tip = Stack[Height] /\ Stacked(Stack, DOMAIN headers) /\ Tip.kind = "object"
      /\ Stack # <<>> /\ Last(Stack) = Tip
  BY <1>1, TopFacts, TipFacts, StackFacts
<1>0. Stack' = Stack
  BY <1>1 DEF Stack, Bare, BareOf
<1>3. pos' = pos + 8 /\ pos <= pos' /\ pos \in Nat
  BY <1>1, GenFacts, StateFacts
<1>4. Open(Stack') /\ Stack' # <<>> /\ Open(Stack)
  BY <1>0, <1>2 DEF Open
<1>5. \A i \in 1..Height : Stack[i].kind # "array"
  BY <1>2, <1>4, NoArrays
<1>6. \A i \in 1..Height : Same(Stack[i], Stack'[i])
  BY <1>0 DEF Same
<1>7. Height' = Height
  BY <1>0 DEF Height
<1>8. ev[1] = "property" /\ ev[1] # "end" /\ ev[2] = 8 /\ ev \in Calls
  BY DEF Calls
<1> HIDE DEF ev
<1>9. Logged(ev)
  <2>1. \A x \in DOMAIN headers :
          Finished(x) => /\ \E e \in extents' : e.at = x
                         /\ x \in DOMAIN headers' /\ headers'[x] = headers[x]
    BY <1>1 DEF Finished
  <2>2. Height' <= Height + 1 /\ ~(Height' > Height) /\ Height <= Height'
    BY <1>2, <1>7
  <2> QED
    BY <1>1, <1>3, <1>5, <1>6, <1>8, <2>1, <2>2, Zenon DEF Logged
<1>10. b.stack = Stack /\ b.at = pos
  BY LastMark
<1> HIDE DEF b
<1>11. WroteProperty(ev, b, m)
  BY <1>0, <1>2, <1>3, <1>6, <1>8, <1>10 DEF WroteProperty, Below
<1>12. Wrote(ev, b, m)'
  <2>1. WroteProperty(ev, b, m)'
    BY <1>11 DEF WroteProperty
  <2> QED
    BY <1>8, <2>1, Zenon DEF Wrote, Single, Begun, Compound
<1>13. ev[1] \in Due(L, Len(L))
  <2>1. Stack # <<>> /\ Last(Stack) = Tip
    BY <1>2
  <2>2. Len(L) - 1 = Len(events)
    <3>1. Len(L) = Len(events) + 1 /\ Len(events) \in Nat
      BY StateFacts DEF Log, LogShape
    <3> QED
      BY <3>1
  <2>3. events[Len(events)][1] # "property"
    BY <1>1, <1>2 DEF Log, LogTurn
  <2> QED
    BY <1>2, <1>8, <1>10, <2>1, <2>2, <2>3 DEF Due, b
<1>14. LogTurn(Append(L, m))'
  BY <1>1, <1>4, <1>8, <1>9, TurnLogged
<1> QED
  BY <1>8, <1>9, <1>12, <1>13, <1>14, LogGrows DEF b

\* Where no call is made the log stays.
LEMMA LogStays ==
  ASSUME IInv, NEW L, Log(L),
         UNCHANGED <<pos, headers, Stack, extents, events>>,
         \/ turn' = turn
         \/ turn' \in {"failed", "panicked"}
         \/ turn' = "value" /\ turn = "frame" /\ Top.kind = "struct"
  PROVE  Log(L)'
<1>1. /\ pos' = pos /\ headers' = headers /\ Stack' = Stack
      /\ extents' = extents /\ events' = events
  OBVIOUS
<1>2. LogShape(L)' /\ LogFrames(L)'
  <2>1. LogShape(L)'
    BY <1>1 DEF Log, LogShape
  <2>2. LogFrames(L)'
    BY <1>1, SMTT(30) DEF Log, LogFrames, Framed, StillOpen, Closed, IsOpen, Height,
               Finished, EndAt, Ends, Added
  <2> QED
    BY <2>1, <2>2
<1>3. LogCalls(L)'
  BY <1>1 DEF Log, LogCalls, Wrote, WroteSingle, WroteCompound, KindOf, Seen,
             WroteProperty, WroteElement, WroteEnd, Due, Finished
<1>4. LogTurn(L)'
  <2>1. CASE turn' = turn
    BY <1>1, <2>1 DEF Log, LogTurn, Due, Tip, Height
  <2>2. CASE turn' \in {"failed", "panicked"}
    BY <1>1, <2>2 DEF LogTurn
  <2>3. CASE turn' = "value" /\ turn = "frame" /\ Top.kind = "struct"
    <3>1. L[Len(L)].stack = Stack
      BY LastMark
    <3>2. Stack # <<>> /\ Last(Stack) = Tip /\ Tip.kind = "struct"
      BY <2>3, TipFacts
    <3>3. Pods \subseteq Due(L, Len(L))'
      BY <1>1, <2>3, <3>1, <3>2 DEF Due
    <3> QED
      BY <2>3, <3>3 DEF LogTurn
  <2> QED
    BY <2>1, <2>2, <2>3
<1> QED
  BY <1>2, <1>3, <1>4 DEF Log

\* An element without bytes leaves nothing in the log.
LEMMA UnitStays ==
  ASSUME IInv, IInv', SerializeElement, Top.elem = 0
  PROVE  UNCHANGED <<pos, headers, Stack, extents, events>>
<1>1. /\ turn = "frame" /\ Top.kind = "array" /\ Gen(0)
      /\ frames' = [frames EXCEPT ![Depth].written = (@ + 1) % U32]
      /\ UNCHANGED <<headers, extents, events>>
  BY DEF SerializeElement
<1>2. pos' = pos
  <2>1. 0 \in Nat /\ pos \in Nat
    BY StreamFacts
  <2> QED
    BY <1>1, <2>1, GenFacts
<1>3. /\ Stack \in Seq(Frame) /\ Height = Depth /\ Height = Len(Stack)
      /\ \A i \in 1..Depth : Stack[i] = BareOf(frames[i]) /\ frames[i] \in Frame
      /\ Stack' \in Seq(Frame) /\ Height' = Depth' /\ Height' = Len(Stack')
      /\ \A i \in 1..Depth' : Stack'[i] = BareOf(frames'[i]) /\ frames'[i] \in Frame
      /\ frames \in Seq(Frame)
  BY StackFacts, StackAfter, StreamFacts
<1> DEFINE w == (Top.written + 1) % U32
           g == [Top EXCEPT !.written = w]
<1>4. /\ Depth' = Depth /\ Depth \in 1..Depth /\ Top = frames[Depth] /\ Top \in Frame
      /\ \A i \in 1..Depth : i # Depth => frames'[i] = frames[i]
      /\ frames'[Depth] = g
  <2>1. /\ Depth \in 1..Depth /\ Top = frames[Depth] /\ Top \in Frame /\ Depth = Len(frames)
    BY <1>1, TopFacts DEF Depth, Top
  <2>2. frames' = [frames EXCEPT ![Depth] = g]
    BY <1>1, <1>3, <2>1
  <2>3. g \in Frame
    <3>1. w \in Nat
      <4>1. Top.written + 1 \in Nat
        BY <2>1 DEF Frame
      <4> QED
        BY <4>1, SerializerAssumption
    <3> HIDE DEF w
    <3> QED
      BY <2>1, <3>1, WrittenChanges
  <2> HIDE DEF g
  <2>4. /\ Len(frames') = Len(frames)
        /\ \A i \in 1..Depth : frames'[i] = IF i = Depth THEN g ELSE frames[i]
    <3>1. frames \in Seq(Frame) /\ Depth \in 1..Len(frames)
      BY <1>3, <2>1
    <3> QED
      BY <2>1, <2>2, <2>3, <3>1, ExceptSeq
  <2> QED
    BY <2>1, <2>4 DEF Depth
<1>5. BareOf(frames'[Depth]) = BareOf(Top)
  <2>1. BareOf(g) = BareOf(Top)
    <3> HIDE DEF w
    <3> QED
      BY <1>1, <1>4 DEF BareOf, Frame
  <2> QED
    BY <1>4, <2>1
<1> HIDE DEF g
<1>6. \A i \in 1..Depth : Stack'[i] = Stack[i]
  <2>1. \A i \in 1..Depth : i # Depth => Stack'[i] = Stack[i]
    BY <1>3, <1>4
  <2>2. Stack'[Depth] = Stack[Depth]
    BY <1>3, <1>4, <1>5
  <2> QED
    BY <2>1, <2>2
<1>7. Stack' = Stack
  <2>1. Len(Stack') = Len(Stack) /\ \A i \in 1..Len(Stack) : Stack'[i] = Stack[i]
    BY <1>3, <1>4, <1>6
  <2> QED
    BY <1>3, <2>1, SeqEqual
<1> QED
  BY <1>1, <1>2, <1>7

LEMMA LogStarts ==
  ASSUME Fresh, Init
  PROVE  \E L : Log(L)
<1> DEFINE b == [stack |-> <<>>, at |-> 0]
           L == <<b>>
<1>1. /\ pos = 0 /\ headers = <<>> /\ frames = <<>> /\ turn = "value" /\ events = <<>>
      /\ Len(events) = 0 /\ Stack = <<>> /\ Height = 0
  BY EmptySeq DEF Init, Stack, Bare, Height
<1>2. /\ b.stack = <<>> /\ b.at = 0 /\ b \in Mark /\ Len(b.stack) = 0
      /\ b.stack \in Seq(Frame)
  BY EmptySeq DEF Mark
<1> HIDE DEF b
<1>3. L \in Seq(Mark) /\ Len(L) = 1 /\ L[1] = b
  BY <1>2
<1> HIDE DEF L
<1>4. LogShape(L)
  <2>1. \A k \in 1..Len(L) : L[k] = b
    BY <1>3
  <2>2. Shaped(b.stack, b.at) /\ b.at <= pos
    BY <1>1, <1>2 DEF Shaped, Innermost
  <2>3. \A k \in 1..Len(L) : \A i \in 1..Len(L[k].stack) : Headed(headers, L[k].stack[i])
    BY <1>2, <2>1
  <2> QED
    BY <1>1, <1>2, <1>3, <2>1, <2>2, <2>3 DEF LogShape
<1>5. LogCalls(L) /\ LogFrames(L)
  BY <1>1 DEF LogCalls, LogFrames
<1>6. LogTurn(L)
  BY <1>1, <1>2, <1>3 DEF LogTurn, Due
<1> QED
  BY <1>4, <1>5, <1>6 DEF Log

LEMMA LogStep ==
  ASSUME Fresh, IInv, length' < U32, [Next]_vars, NEW L, Log(L)
  PROVE  \E N : Log(N)'
<1>1. IInv'
  BY Preserved
<1>2. PICK m : m = [stack |-> Stack', at |-> pos']
  OBVIOUS
<1>3. m \in Mark /\ m.stack = Stack' /\ m.at = pos'
  <2>1. Stack' \in Seq(Frame) /\ pos' \in 0..Capacity
    BY <1>1, StackAfter DEF IInv, TypeOK
  <2>2. pos' \in Nat
    BY <2>1, SerializerAssumption
  <2> QED
    BY <1>2, <2>1, <2>2 DEF Mark
<1>4. ASSUME NEW size \in LeafSizes, WritePod(size)
      PROVE  Log(Append(L, m))'
  <2> DEFINE ev == <<"leaf", size>>
  <2>1. size \in Nat
    BY SerializerAssumption
  <2>2. ev \in Calls /\ ev[1] = "leaf" /\ Content(ev, [size |-> size, elem |-> 0])
    BY <2>1 DEF Calls, Content
  <2>3. Whole("leaf", size, 0, Padding(size), ev)
    BY <1>4 DEF WritePod
  <2> HIDE DEF ev
  <2> QED
    BY <1>1, <1>3, <2>1, <2>2, <2>3, WholeLogged DEF Single
<1>5. ASSUME NEW count \in Lengths, NEW elem \in ElemSizes, Choice(count + 1, elem)
      PROVE  Log(Append(L, m))'
  <2> DEFINE n == count + 1
             ev == <<"choice", n>>
             size == 16 + n * elem
  <2>1. n \in Nat /\ elem \in Nat
    BY SerializerAssumption
  <2>2. Choice(n, elem)
    BY <1>5
  <2> HIDE DEF n
  <2>3. size \in Nat
    BY <2>1, Products
  <2>4. ev \in Calls /\ ev[1] = "choice" /\ ev[2] = n
    BY <2>1 DEF Calls
  <2>5. Whole("choice", size, elem, Padding(size), ev)
    BY <2>2 DEF Choice
  <2>6. size = 16 + ev[2] * elem
    BY <2>4
  <2> HIDE DEF size, ev
  <2>7. Content(ev, [size |-> size, elem |-> elem])
    BY <2>1, <2>4, <2>6 DEF Content
  <2> QED
    BY <1>1, <1>3, <2>1, <2>3, <2>4, <2>5, <2>7, WholeLogged DEF Single
<1>6. CASE Pointer
  <2> DEFINE ev == <<"pointer", PtrSize>>
  <2>1. 8 + PtrSize = 16 /\ Padding(16) = 0 /\ PtrSize = 8
    BY DEF Fresh, Padding
  <2>2. Whole("pointer", 16, 0, Padding(16), ev)
    BY <1>6, <2>1 DEF Pointer
  <2>3. ev \in Calls /\ ev[1] = "pointer" /\ Content(ev, [size |-> 16, elem |-> 0])
    BY <2>1 DEF Calls, Content
  <2> HIDE DEF ev
  <2> QED
    BY <1>1, <1>3, <2>2, <2>3, WholeLogged DEF Single
<1>7. ASSUME NEW kind, NEW n, Begin(kind, n),
             \/ kind = "struct" /\ n = 8
             \/ kind = "object" /\ n = 16
      PROVE  Log(Append(L, m))'
  <2> DEFINE f == [kind |-> kind, at |-> pos, written |-> 0, length |-> 0, elem |-> 0]
             h == Header(kind, 0, 0)
             ev == <<kind, n>>
  <2>1. f \in Frame /\ f.kind = kind /\ f.at = pos /\ f.written = 0
    BY <1>7, StreamFacts DEF Frame
  <2>2. h \in PodHeader /\ h.type = kind /\ ev \in Calls /\ ev[1] = kind /\ ev[2] = n
    BY <1>7, HeaderTyped DEF Calls, Header
  <2>3. /\ turn = "value" /\ turn' = "frame" /\ Gen(n)
        /\ headers' = Put(pos, h) /\ frames' = Append(frames, f)
        /\ events' = Append(events, ev) /\ result' = result /\ extents' = extents
    BY <1>7 DEF Begin, Record
  <2> HIDE DEF f, h, ev
  <2>4. Extent(f) = n
    BY <1>7, <2>1 DEF Extent
  <2>5. Opens(n, f, h, ev)
    BY <1>7, <2>1, <2>3, <2>4 DEF Opens
  <2> QED
    BY <1>1, <1>3, <1>7, <2>1, <2>2, <2>5, OpensLogged
<1>8. ASSUME NEW count \in Lengths, NEW elem \in ElemSizes, SerializeArray(count, elem)
      PROVE  Log(Append(L, m))'
  <2> DEFINE f == [kind |-> "array", at |-> pos, written |-> 0, length |-> count, elem |-> elem]
             h == Header("array", 8 + count * elem, elem)
             ev == <<IF elem = 0 THEN "units" ELSE "array", count>>
  <2>1. count \in Nat /\ elem \in Nat /\ 8 + count * elem \in Nat
    BY SerializerAssumption, Products
  <2>2. /\ f \in Frame /\ f.kind = "array" /\ f.at = pos /\ f.written = 0
        /\ f.length = count /\ f.elem = elem
    BY <2>1, StreamFacts DEF Frame
  <2>3. h \in PodHeader /\ h.size = (8 + count * elem) % U32 /\ h.type = "array" /\ h.elem = elem
    BY <2>1, HeaderTyped DEF Header
  <2>4. /\ ev \in Calls /\ ev[2] = count
        /\ ev[1] = IF elem = 0 THEN "units" ELSE "array"
    BY <2>1 DEF Calls
  <2>5. /\ turn = "value" /\ turn' = "frame" /\ Gen(16)
        /\ headers' = Put(pos, h) /\ frames' = Append(frames, f)
        /\ events' = Append(events, ev) /\ result' = result /\ extents' = extents
    BY <1>8 DEF SerializeArray, Record
  <2> HIDE DEF f, h, ev
  <2>6. Extent(f) = 16
    <3>1. f.written * f.elem = 0
      BY <2>1, <2>2, Products
    <3> QED
      BY <2>2, <3>1 DEF Extent
  <2>7. Opens(16, f, h, ev)
    BY <2>2, <2>3, <2>5, <2>6 DEF Opens
  <2> QED
    BY <1>1, <1>3, <2>1, <2>2, <2>3, <2>4, <2>7, OpensLogged
<1>9. CASE StructEnd
  <2>1. /\ turn = "frame" /\ Top.kind = "struct" /\ End("struct", Top.written)
    BY <1>9 DEF StructEnd, End
  <2>2. PICK size : size = Top.written
    OBVIOUS
  <2>3. size \in Nat /\ Extent(Top) = 8 + size
    BY <2>1, <2>2, TopFacts DEF Extent
  <2> QED
    BY <1>1, <1>3, <2>1, <2>2, <2>3, EndLogged
<1>10. CASE ObjectEnd
  <2>1. /\ turn = "frame" /\ Top.kind = "object" /\ End("object", Top.written + 8)
    BY <1>10 DEF ObjectEnd, End
  <2>2. PICK size : size = Top.written + 8
    OBVIOUS
  <2>3. size \in Nat /\ Extent(Top) = 8 + size
    BY <2>1, <2>2, TopFacts DEF Extent
  <2> QED
    BY <1>1, <1>3, <2>1, <2>2, <2>3, EndLogged
<1>11. CASE SerializeElement
  <2>1. CASE Top.elem # 0
    BY <1>1, <1>3, <1>11, <2>1, ElementLogged
  <2>2. CASE Top.elem = 0
    BY <1>1, <1>11, <2>2, UnitStays, LogStays DEF SerializeElement
  <2> QED
    BY <2>1, <2>2
<1>12. CASE SerializeProperty
  BY <1>1, <1>3, <1>12, PropertyLogged
<1>13. CASE ArrayEnd
  BY <1>1, <1>3, <1>13, ArrayEndLogged
<1>14. CASE SerializeField
  BY <1>14, LogStays DEF SerializeField, stream, Stack, Bare, BareOf
<1>15. CASE ElementRefused \/ ArrayIncomplete \/ WriteFails
            \/ \E count \in Lengths, elem \in ElemSizes : ArrayTooLong(count, elem)
  BY <1>15, LogStays DEF ElementRefused, ArrayIncomplete, WriteFails, ArrayTooLong, stream,
                             Stack, Bare, BareOf
<1>16. CASE UNCHANGED vars
  BY <1>16, LogStays DEF vars, stream, Stack, Bare, BareOf
<1>17. CASE SerializeStruct \/ SerializeObject
  BY <1>7, <1>17 DEF SerializeStruct, SerializeObject
<1> QED
  BY <1>4, <1>5, <1>6, <1>8, <1>9, <1>10, <1>11, <1>12, <1>13, <1>14, <1>15, <1>16, <1>17
     DEF Next

------------------------------------------------------------------------------
(* The log of a finished pod *)

\* What is known of a finished pod.
LEMMA Complete ==
  ASSUME IInv, NEW L, Log(L), turn = "done"
  PROVE  /\ events \in Seq(Calls) /\ Len(events) \in Nat \ {0} /\ Len(L) = Len(events) + 1
         /\ L[Len(L)].stack = <<>> /\ L[Len(L)].at = pos /\ pos = length /\ result = pos
         /\ pos \in Nat
         /\ L[1].stack = <<>> /\ L[1].at = 0
         /\ \A k \in 1..Len(L) : /\ L[k].stack \in Seq(Frame) /\ L[k].at \in Nat
                                 /\ L[k].at <= pos /\ Innermost(L[k].stack)
         /\ \A k \in 1..Len(events) :
              /\ Wrote(events[k], L[k], L[k + 1]) /\ events[k][1] \in Due(L, k)
              /\ \A i \in 1..Len(L[k].stack) : /\ Closed(L, k, i)
                                               /\ Headed(headers, L[k].stack[i])
<1>1. /\ Stack = <<>> /\ Height = 0 /\ result = pos /\ length = pos
  <2>1. frames = <<>> /\ result = pos
    BY DEF IInv, TypeOK, TurnInv
  <2> QED
    BY <2>1, EmptySeq, StreamFacts, StackFacts DEF Height
<1>2. /\ events \in Seq(Calls) /\ Len(events) \in Nat /\ events # <<>> /\ pos \in Nat
  BY StateFacts DEF Log, LogTurn
<1>3. Len(events) # 0
  BY <1>2, EmptySeq
<1>4. LogShape(L) /\ LogCalls(L) /\ LogFrames(L)
  BY DEF Log
<1>5. /\ Len(L) = Len(events) + 1 /\ L \in Seq(Mark)
      /\ L[Len(L)].stack = <<>> /\ L[Len(L)].at = pos
      /\ L[1].stack = <<>> /\ L[1].at = 0
  BY <1>1, <1>4 DEF LogShape
<1>6. \A k \in 1..Len(L) : L[k] \in Mark
  BY <1>5
<1>7. \A k \in 1..Len(L) : /\ L[k].stack \in Seq(Frame) /\ L[k].at \in Nat
                           /\ L[k].at <= pos /\ Innermost(L[k].stack)
  BY <1>4, <1>6 DEF Mark, LogShape, Shaped
<1>8. ASSUME NEW k \in 1..Len(events), NEW i \in 1..Len(L[k].stack)
      PROVE  Closed(L, k, i) /\ Headed(headers, L[k].stack[i])
  <2>1. k \in 1..Len(L) /\ i \in Nat \ {0}
    BY <1>2, <1>5, <1>7
  <2>2. ~IsOpen(L[k].stack[i], i)
    BY <1>1, <2>1 DEF IsOpen
  <2> QED
    BY <1>4, <2>1, <2>2, Zenon DEF LogFrames, Framed, LogShape
<1>9. \A k \in 1..Len(events) : Wrote(events[k], L[k], L[k + 1]) /\ events[k][1] \in Due(L, k)
  BY <1>4 DEF LogCalls
<1> QED
  BY <1>1, <1>2, <1>3, <1>5, <1>7, <1>8, <1>9

\* Where a frame ends.
LEMMA ClosedFacts ==
  ASSUME IInv, NEW L, Log(L), turn = "done",
         NEW k \in 1..Len(events), NEW i \in 1..Len(L[k].stack)
  PROVE  LET f == L[k].stack[i]
         IN  /\ f \in Frame /\ f.at \in DOMAIN headers /\ headers[f.at].type = f.kind
             /\ headers[f.at].size \in Nat /\ headers[f.at].size < U32
             /\ EndAt(f) \in Nat /\ EndAt(f) <= pos
             /\ f.kind = "array" => /\ headers[f.at].elem = f.elem
                                    /\ headers[f.at].size = 8 + f.length * f.elem
             /\ IF Ends(L, k, i) THEN L[k].at = EndAt(f) ELSE L[k + 1].at <= EndAt(f)
<1> DEFINE f == L[k].stack[i]
<1>1. Closed(L, k, i) /\ Headed(headers, f) /\ L[k].stack \in Seq(Frame)
  <2>1. k \in 1..Len(L)
    BY Complete
  <2> QED
    BY <2>1, Complete
<1>2. f \in Frame
  BY <1>1
<1>3. f.at \in DOMAIN headers /\ headers[f.at].type = f.kind
      /\ (f.kind = "array" => headers[f.at].elem = f.elem)
  BY <1>1 DEF Headed
<1>4. headers[f.at].size \in 0..U32 - 1 /\ headers[f.at].size \in Nat
  BY <1>3, StateFacts DEF PodHeader
<1>5. EndAt(f) \in Nat /\ headers[f.at].size < U32
  <2> HIDE DEF f
  <2>1. f.at \in Nat
    BY <1>2 DEF Frame
  <2> QED
    BY <1>4, <2>1, SerializerAssumption, SMTT(30) DEF EndAt
<1> QED
  BY <1>1, <1>2, <1>3, <1>4, <1>5 DEF Closed

\* Every pod and every key takes some bytes.
LEMMA Progress ==
  ASSUME IInv, NEW L, Log(L), turn = "done", NEW k \in 1..Len(events),
         events[k][1] \in Pods \cup {"property"}
  PROVE  L[k].at < L[k + 1].at
<1>1. /\ Wrote(events[k], L[k], L[k + 1]) /\ L[k].at \in Nat /\ L[k + 1].at \in Nat
  <2>1. Len(L) = Len(events) + 1 /\ Len(events) \in Nat
    BY Complete
  <2>2. k \in 1..Len(L) /\ k + 1 \in 1..Len(L)
    BY <2>1
  <2> QED
    BY <2>2, Complete
<1>2. CASE events[k][1] \in Single
  <2>1. WroteSingle(events[k], L[k], L[k + 1])
    BY <1>1, <1>2 DEF Wrote
  <2>2. headers[L[k].at].size \in Nat
    BY <2>1, StateFacts DEF WroteSingle
  <2>3. PICK z : z = headers[L[k].at].size
    OBVIOUS
  <2>4. PICK p : p = Padding(z)
    OBVIOUS
  <2>5. p \in Nat /\ z \in Nat
    BY <2>2, <2>3, <2>4, PodLength
  <2>6. PICK b : b = L[k].at
    OBVIOUS
  <2>7. PICK a : a = L[k + 1].at
    OBVIOUS
  <2>8. a = b + 8 + z + p
    BY <2>1, <2>3, <2>4, <2>6, <2>7 DEF WroteSingle
  <2>9. a \in Nat /\ b \in Nat
    BY <1>1, <2>6, <2>7
  <2>10. b < a
    BY <2>5, <2>8, <2>9
  <2> QED
    BY <2>6, <2>7, <2>10
<1>3. CASE events[k][1] \in Begun
  <2>1. WroteCompound(events[k], L[k], L[k + 1])
    BY <1>1, <1>3 DEF Wrote
  <2> QED
    BY <1>1, <2>1 DEF WroteCompound
<1>4. CASE events[k][1] = "property"
  <2>1. WroteProperty(events[k], L[k], L[k + 1])
    BY <1>1, <1>4 DEF Wrote
  <2> QED
    BY <1>1, <2>1 DEF WroteProperty
<1> QED
  BY <1>2, <1>3, <1>4 DEF Pods

\* One more call of the reader.
LEMMA CallsGrow ==
  ASSUME events \in Seq(Calls), calls \in Seq(Calls), Echoes(calls, events),
         Here <= Len(events), calls' = Append(calls, Seen(events[Here]))
  PROVE  /\ Len(calls') = Len(calls) + 1 /\ Here' = Here + 1
         /\ Echoes(calls', events) /\ calls' # <<>>
         /\ calls' \in Seq(Calls)
<1> DEFINE n == Len(calls)
           e == Seen(events[n + 1])
<1>1. n \in Nat /\ n + 1 <= Len(events) /\ Len(events) \in Nat /\ n + 1 \in 1..Len(events)
  BY DEF Here
<1>2. e \in Calls
  BY <1>1 DEF Seen, Calls
<1>3. calls' = Append(calls, e)
  BY DEF Here
<1>4. \A i \in 1..n : calls[i] = Seen(events[i])
  BY DEF Echoes
<1> HIDE DEF e
<1>5. /\ Len(calls') = n + 1 /\ calls' \in Seq(Calls) /\ calls'[n + 1] = e
      /\ \A i \in 1..n : calls'[i] = calls[i]
  BY <1>2, <1>3, AppendProperties
<1>6. ASSUME NEW i \in 1..n + 1 PROVE calls'[i] = Seen(events[i])
  <2>1. CASE i \in 1..n
    BY <1>4, <1>5, <2>1
  <2>2. CASE i = n + 1
    BY <1>5, <2>2 DEF e
  <2> QED
    BY <1>1, <2>1, <2>2
<1>7. Echoes(calls', events)
  BY <1>1, <1>5, <1>6 DEF Echoes
<1> QED
  BY <1>1, <1>5, <1>7, EmptySeq DEF Here

\* Where the reader is in the log.
LEMMA Where ==
  ASSUME NEW L, Busy(L)
  PROVE  /\ Here \in 1..Len(L) /\ Len(calls) \in Nat /\ input = L[Here].at
         /\ L[Here].stack \in Seq(Frame)
         /\ scopes \in Seq(Scope) /\ Len(scopes) \in Nat
         /\ Len(scopes) <= Len(L[Here].stack)
         /\ \A i \in 1..Len(scopes) :
              /\ i \in 1..Len(L[Here].stack) /\ scopes[i] \in Scope
              /\ Matches(L, i)
         /\ \A i \in 1..Len(scopes) :
              ~scopes[i].held => scopes[i].kind # "array"
         /\ \A i \in 1..Len(scopes) - 1 : ~scopes[i].held
         /\ input \in Nat /\ input <= total /\ total <= pos /\ total \in Nat /\ total > 0
         /\ turn = "done" /\ pos = length
<1>1. /\ IInv /\ ReaderShape /\ Log(L) /\ turn = "done" /\ Tracks(L) /\ Reading(L) /\ total > 0
  BY DEF Busy, Reading
<1>2. /\ scopes \in Seq(Scope) /\ calls \in Seq(Calls) /\ input \in Nat /\ total \in Nat
  BY <1>1 DEF ReaderShape
<1>3. Len(calls) \in Nat /\ Here \in Nat \ {0} /\ Len(scopes) \in Nat
  BY <1>2 DEF Here
<1>4. Here <= Len(L) /\ total <= length /\ input <= total
  BY <1>1 DEF Reading
<1>5. Len(L) = Len(events) + 1 /\ Len(events) \in Nat /\ pos = length
  BY <1>1, Complete
<1>6. Here \in 1..Len(L)
  BY <1>3, <1>4, <1>5
<1>7. L[Here].stack \in Seq(Frame)
  BY <1>1, <1>6, Complete
<1>8. /\ input = L[Here].at /\ Len(scopes) <= Len(L[Here].stack)
      /\ \A i \in 1..Len(scopes) : Matches(L, i)
      /\ \A i \in 1..Len(scopes) - 1 : ~scopes[i].held
  BY <1>1 DEF Tracks
<1>9. ASSUME NEW i \in 1..Len(scopes)
      PROVE  /\ i \in 1..Len(L[Here].stack) /\ scopes[i] \in Scope
             /\ ~scopes[i].held => scopes[i].kind # "array"
  <2>1. i \in 1..Len(L[Here].stack) /\ scopes[i] \in Scope
    BY <1>2, <1>3, <1>7, <1>8
  <2>2. Matches(L, i)
    BY <1>8
  <2> QED
    BY <2>1, <2>2 DEF Matches
<1> QED
  BY <1>1, <1>2, <1>3, <1>4, <1>5, <1>6, <1>7, <1>8, <1>9

\* DeserializeSuccess in the deserializer it goes back to.
LEMMA Handed ==
  ASSUME NEW outer \in Seq(Scope), outer # <<>>, Reader!Finish(outer), input' \in Nat,
         outer[Len(outer)].remaining - (input' - outer[Len(outer)].mark) >= 0
  PROVE  /\ scopes' \in Seq(Scope) /\ Len(scopes') = Len(outer) /\ stage' = "scope"
         /\ typed' = typed /\ panic' = panic
         /\ \A i \in 1..Len(outer) : i < Len(outer) => scopes'[i] = outer[i]
         /\ scopes'[Len(outer)].kind = outer[Len(outer)].kind
         /\ scopes'[Len(outer)].held
         /\ scopes'[Len(outer)].remaining
              = outer[Len(outer)].remaining - (input' - outer[Len(outer)].mark)
<1> DEFINE n == Len(outer)
<1>1. PICK own : own = outer[n]
  OBVIOUS
<1>2. PICK left : left = own.remaining - (input' - own.mark)
  OBVIOUS
<1>3. n \in Nat /\ n \in 1..n /\ own \in Scope
  BY <1>1
<1>4. left \in Nat
  <2>1. own.remaining \in Nat /\ own.mark \in Nat
    BY <1>3 DEF Scope
  <2> QED
    BY <1>1, <1>2, <2>1
<1>5. /\ scopes' = [outer EXCEPT ![n].remaining = left, ![n].held = TRUE]
      /\ stage' = "scope" /\ typed' = typed /\ panic' = panic
  BY <1>1, <1>2, <1>4 DEF Reader!Finish
<1> DEFINE g == [own EXCEPT !.remaining = left, !.held = TRUE]
<1>6. scopes' = [outer EXCEPT ![n] = g]
  BY <1>1, <1>3, <1>5
<1>7. g \in Scope /\ g.kind = own.kind /\ g.held = TRUE /\ g.remaining = left
  BY <1>3, <1>4 DEF Scope
<1> HIDE DEF g, n
<1>8. /\ scopes' \in Seq(Scope) /\ Len(scopes') = Len(outer)
      /\ \A i \in 1..Len(outer) : scopes'[i] = IF i = n THEN g ELSE outer[i]
  BY <1>3, <1>6, <1>7, ExceptSeq DEF n
<1> QED
  BY <1>1, <1>2, <1>3, <1>5, <1>7, <1>8 DEF n

------------------------------------------------------------------------------
(* What a step of the reader has in common with others *)

\* What a finished stream looks like stays as it is while it is read.
LEMMA Unmoved ==
  ASSUME UNCHANGED vars, NEW L
  PROVE  /\ turn' = turn /\ length' = length /\ headers' = headers /\ events' = events
         /\ result' = result
         /\ \A f : EndAt(f)' = EndAt(f)
<1>1. turn' = turn /\ length' = length /\ headers' = headers /\ events' = events
      /\ result' = result
  BY DEF vars, stream
<1> QED
  BY <1>1 DEF EndAt

\* After a pod that is not inside another one there is nothing.
LEMMA NothingAfter ==
  ASSUME IInv, NEW L, Log(L), turn = "done", NEW k \in 1..Len(events),
         Len(L[k + 1].stack) = 0
  PROVE  k + 1 = Len(L)
<1>1. Len(L) = Len(events) + 1 /\ Len(events) \in Nat
  BY Complete
<1>2. k + 1 \in 1..Len(L) /\ k + 1 # 1
  BY <1>1
<1>3. L[k + 1].stack \in Seq(Frame)
  BY <1>2, Complete
<1>4. L[k + 1].stack = <<>>
  BY <1>3, EmptySeq
<1>5. Due(L, k + 1) = {}
  BY <1>2, <1>4 DEF Due
<1>6. k + 1 \notin 1..Len(events)
  <2> SUFFICES ASSUME k + 1 \in 1..Len(events) PROVE FALSE
    OBVIOUS
  <2>1. events[k + 1][1] \in Due(L, k + 1)
    BY Complete
  <2> QED
    BY <1>5, <2>1
<1> QED
  BY <1>1, <1>2, <1>6

\* What is left of the scope that goes on.
LEMMA LeftOver ==
  ASSUME NEW L, Busy(L), NEW n \in 1..Len(scopes), ~scopes[n].held, Here <= Len(events),
         ~Ends(L, Here, n), input' = L[Here + 1].at
  PROVE  /\ scopes[n].remaining - (input' - scopes[n].mark) >= 0
         /\ scopes[n].remaining - (input' - scopes[n].mark)
              = EndAt(L[Here].stack[n]) - input'
         /\ input' \in Nat /\ EndAt(L[Here].stack[n]) \in Nat
         /\ EndOf(n) = EndAt(L[Here].stack[n])
<1>1. /\ IInv /\ Log(L) /\ turn = "done" /\ Here \in 1..Len(L) /\ n \in 1..Len(L[Here].stack)
      /\ Matches(L, n) /\ scopes[n] \in Scope /\ scopes[n].kind # "array"
  BY Where, Zenon DEF Busy
<1>2. Len(L) = Len(events) + 1 /\ Len(events) \in Nat
  BY <1>1, Complete
<1>3. Here \in 1..Len(events) /\ Here + 1 \in 1..Len(L)
  BY <1>1, <1>2
<1>4. PICK k : k = Here
  OBVIOUS
<1>5. EndAt(L[k].stack[n]) \in Nat /\ L[k + 1].at <= EndAt(L[k].stack[n])
  BY <1>1, <1>3, <1>4, ClosedFacts
<1>6. input' \in Nat
  BY <1>1, <1>3, Complete
<1>7. EndOf(n) = EndAt(L[k].stack[n])
  BY <1>1, <1>4 DEF Matches
<1>8. EndOf(n) = scopes[n].remaining + scopes[n].mark
        /\ scopes[n].remaining \in Nat /\ scopes[n].mark \in Nat
  BY <1>1 DEF EndOf, Scope
<1>9. PICK e : e = EndAt(L[k].stack[n])
  OBVIOUS
<1>10. PICK a : a = L[k + 1].at
  OBVIOUS
<1>11. a <= e /\ e \in Nat /\ input' = a
  BY <1>4, <1>5, <1>9, <1>10
<1>12. e = scopes[n].remaining + scopes[n].mark
  BY <1>7, <1>8, <1>9
<1> QED
  BY <1>4, <1>6, <1>7, <1>8, <1>9, <1>11, <1>12

\* What every call that is read moves.
LEMMA Recorded ==
  ASSUME NEW L, Busy(L), UNCHANGED <<vars, total>>, Here <= Len(events),
         calls' = Append(calls, Seen(events[Here])), input' = L[Here + 1].at, input' <= total
  PROVE  /\ turn' = "done" /\ total' <= length' /\ input' <= total' /\ Here' <= Len(L)
         /\ Echoes(calls', events') /\ calls' \in Seq(Calls)
         /\ calls' # <<>> /\ Len(calls') = Here /\ Here' = Here + 1
         /\ input' = L[Here'].at /\ input' \in Nat /\ total' \in Nat
         /\ Here \in 1..Len(events) /\ Here + 1 \in 1..Len(L)
         /\ L[Here + 1].stack \in Seq(Frame)
<1>1. /\ IInv /\ Log(L) /\ turn = "done" /\ Len(calls) \in Nat /\ Here \in 1..Len(L)
      /\ total <= pos /\ pos = length /\ total \in Nat
  BY Where, Zenon DEF Busy
<1>2. Len(L) = Len(events) + 1 /\ Len(events) \in Nat /\ events \in Seq(Calls)
  BY <1>1, Complete
<1>3. Echoes(calls, events)
  BY DEF Busy, Reading
<1>0. calls \in Seq(Calls)
  BY DEF Busy, ReaderShape
<1>4. /\ turn' = turn /\ length' = length /\ events' = events /\ total' = total
  BY Unmoved
<1>5. /\ Len(calls') = Len(calls) + 1 /\ Here' = Here + 1
      /\ Echoes(calls', events) /\ calls' # <<>>
      /\ calls' \in Seq(Calls)
  BY <1>0, <1>1, <1>2, <1>3, CallsGrow
<1>6. Here \in 1..Len(events) /\ Here + 1 \in 1..Len(L)
  BY <1>1, <1>2
<1>7. input' \in Nat /\ L[Here + 1].stack \in Seq(Frame)
  BY <1>1, <1>6, Complete
<1>8. Here = Len(calls) + 1
  BY DEF Here
<1>9. /\ turn' = "done" /\ total' <= length' /\ input' <= total' /\ total' \in Nat
  BY <1>1, <1>4
<1>10. Here' <= Len(L) /\ Len(calls') = Here /\ input' = L[Here'].at
  BY <1>5, <1>6, <1>8
<1>11. Echoes(calls', events')
  BY <1>4, <1>5
<1> QED
  BY <1>5, <1>6, <1>7, <1>9, <1>10, <1>11

\* A scope that waits for what is inside it stays where it was.
LEMMA Waits ==
  ASSUME NEW L, Busy(L), UNCHANGED <<vars, total>>, NEW i \in 1..Len(scopes),
         ~scopes[i].held, scopes'[i] = scopes[i],
         Here' \in 1..Len(L), i \in 1..Len(L[Here'].stack),
         Same(L[Here].stack[i], L[Here'].stack[i])
  PROVE  Matches(L, i)'
<1> DEFINE f == L[Here].stack[i]
<1>1. /\ scopes[i].kind = f.kind /\ scopes[i].kind # "array" /\ Matches(L, i)
  BY Where DEF Matches
<1>2. EndOf(i) = EndAt(f) /\ (scopes[i].held \/ scopes[i].remaining # 0)
  BY <1>1 DEF Matches
<1>3. EndOf(i)' = scopes[i].remaining + scopes[i].mark /\ EndOf(i) = scopes[i].remaining + scopes[i].mark
  BY DEF EndOf
<1>10. PICK m : m = Here'
  OBVIOUS
<1>4. PICK g : g = L[m].stack[i]
  OBVIOUS
<1>5. g.at = f.at /\ g.kind = f.kind
  BY <1>10, <1>4 DEF Same
<1>6. headers' = headers
  BY Unmoved
<1>7. EndOf(i)' = g.at + 8 + headers'[g.at].size
  BY <1>2, <1>3, <1>5, <1>6 DEF EndAt
<1>8. scopes'[i].kind = g.kind /\ scopes'[i].kind # "array" /\ scopes'[i].remaining # 0
  BY <1>1, <1>2, <1>5
<1>9. g = L[Here'].stack[i]
  BY <1>10, <1>4
<1> QED
  BY <1>7, <1>8, <1>9 DEF Matches, EndAt

\* What was read goes back to the deserializer it was asked by.
LEMMA HandedBack ==
  ASSUME NEW L, Busy(L), UNCHANGED <<vars, total>>, Here <= Len(events),
         calls' = Append(calls, Seen(events[Here])), input' = L[Here + 1].at, input' <= total,
         events[Here][1] # "property",
         NEW outer \in Seq(Scope), Len(outer) <= Len(scopes),
         Len(L[Here + 1].stack) = Len(outer),
         \A i \in 1..Len(outer) :
           /\ outer[i] = scopes[i] /\ ~scopes[i].held /\ ~Ends(L, Here, i)
           /\ Same(L[Here].stack[i], L[Here + 1].stack[i]),
         Reader!Finish(outer)
  PROVE  Reading(L)' /\ ReaderShape'
<1> DEFINE n == Len(outer)
<1>1. /\ turn' = "done" /\ total' <= length' /\ input' <= total' /\ Here' <= Len(L)
      /\ Echoes(calls', events') /\ calls' \in Seq(Calls)
      /\ calls' # <<>> /\ Len(calls') = Here /\ Here' = Here + 1
      /\ input' = L[Here'].at /\ input' \in Nat /\ total' \in Nat
      /\ Here \in 1..Len(events) /\ Here + 1 \in 1..Len(L)
  BY Recorded
<1>2. /\ IInv /\ Log(L) /\ turn = "done" /\ typed \in BOOLEAN /\ panic \in Panics
  BY DEF Busy, Reading, ReaderShape
<1>3. events' = events
  BY Unmoved
<1>4. CASE outer = <<>>
  <2>1. scopes' = <<>> /\ stage' = "done" /\ typed' = typed /\ panic' = panic
    BY <1>4 DEF Reader!Finish
  <2>2. Len(outer) = 0
    BY <1>4
  <2>3. Here + 1 = Len(L)
    BY <1>1, <1>2, <2>2, NothingAfter
  <2>4. ReaderShape'
    BY <1>1, <1>2, <2>1 DEF ReaderShape
  <2>5. Here' = Len(L) /\ stage' \notin {"value", "scope", "error", "panicked"}
    BY <1>1, <2>1, <2>3
  <2>6. Reading(L)'
    BY <1>1, <2>5 DEF Reading
  <2> QED
    BY <2>4, <2>6
<1>5. CASE outer # <<>>
  <2>1. n \in Nat \ {0} /\ n \in 1..n /\ Len(scopes) \in Nat /\ n \in 1..Len(scopes)
    <3>1. n \in Nat /\ n # 0 /\ Len(scopes) \in Nat
      BY <1>5, EmptySeq, Where
    <3> HIDE DEF n
    <3> QED
      BY <3>1 DEF n
  <2>2. /\ outer[n].remaining - (input' - outer[n].mark) >= 0
        /\ outer[n].remaining - (input' - outer[n].mark) = EndAt(L[Here].stack[n]) - input'
        /\ EndAt(L[Here].stack[n]) \in Nat
    <3>1. outer[n] = scopes[n] /\ ~scopes[n].held /\ ~Ends(L, Here, n)
      BY <2>1
    <3> HIDE DEF n
    <3> QED
      BY <2>1, <3>1, LeftOver
  <2>3. /\ scopes' \in Seq(Scope) /\ Len(scopes') = n /\ stage' = "scope"
        /\ typed' = typed /\ panic' = panic
        /\ \A i \in 1..n : i < n => scopes'[i] = outer[i]
        /\ scopes'[n].kind = outer[n].kind
        /\ scopes'[n].held
        /\ scopes'[n].remaining = EndAt(L[Here].stack[n]) - input'
    BY <1>1, <1>5, <2>2, Handed
  <2>4. ReaderShape'
    BY <1>1, <1>2, <2>3 DEF ReaderShape
  <2>5. Here' \in 1..Len(L)
    BY <1>1
  <2>6. PICK m : m = Here'
    OBVIOUS
  <2>7. Len(L[m].stack) = n /\ m = Here + 1 /\ L[m].stack \in Seq(Frame)
    BY <1>1, <2>6, Recorded
  <2>8. ASSUME NEW i \in 1..n, i < n PROVE Matches(L, i)' /\ ~scopes'[i].held
    <3>1. i \in 1..Len(scopes)
      BY <2>1, Where
    <3>2. scopes'[i] = scopes[i] /\ ~scopes[i].held
      BY <2>3, <2>8
    <3>3. i \in 1..Len(L[Here'].stack) /\ Same(L[Here].stack[i], L[Here'].stack[i])
      BY <2>6, <2>7
    <3> QED
      BY <2>5, <3>1, <3>2, <3>3, Waits
  <2>9. PICK g : g = L[m].stack[n]
    OBVIOUS
  <2>10. Same(L[Here].stack[n], g) /\ headers' = headers
    BY <2>1, <2>7, <2>9, Unmoved
  <2>11. EndAt(L[Here].stack[n]) = g.at + 8 + headers'[g.at].size
    BY <2>10 DEF EndAt, Same
  <2>12. scopes[n].kind = L[Here].stack[n].kind /\ scopes[n].kind # "array"
    BY <2>1, Where DEF Matches
  <2>13. scopes'[n].kind = g.kind /\ g.kind # "array"
    BY <2>1, <2>3, <2>10, <2>12 DEF Same
  <2>14. PICK e : e = EndAt(L[Here].stack[n])
    OBVIOUS
  <2>15. e \in Nat /\ scopes'[n].remaining = e - input' /\ e = g.at + 8 + headers'[g.at].size
    BY <2>2, <2>3, <2>11, <2>14
  <2>16. scopes'[n].remaining + input' = g.at + 8 + headers'[g.at].size
    <3> HIDE DEF n
    <3>1. scopes'[n].remaining + input' = e
      BY <1>1, <2>15
    <3> QED
      BY <2>15, <3>1
  <2>17. EndOf(n)' = g.at + 8 + headers'[g.at].size
    BY <2>3, <2>16 DEF EndOf
  <2>18. Matches(L, n)'
    <3>1. g = L[Here'].stack[n]
      BY <2>6, <2>9
    <3> HIDE DEF n
    <3> QED
      BY <2>3, <2>13, <2>17, <3>1 DEF Matches, EndAt
  <2>19. \A i \in 1..n : Matches(L, i)'
    <3>1. \A i \in 1..n : i < n \/ i = n
      BY <2>1
    <3> QED
      BY <2>8, <2>18, <3>1
  <2>20. \A i \in 1..n - 1 : ~scopes'[i].held
    <3>1. \A i \in 1..n - 1 : i \in 1..n /\ i < n
      BY <2>1
    <3> QED
      BY <2>8, <3>1
  <2>21. Tracks(L)'
    <3>1. Len(scopes') <= Len(L[Here'].stack)
      BY <2>1, <2>3, <2>6, <2>7
    <3> HIDE DEF n
    <3> QED
      BY <1>1, <2>3, <2>19, <2>20, <3>1 DEF Tracks
  <2>22. AtScope(L)'
    <3>1. Len(scopes') = Len(L[Here'].stack) /\ scopes' # <<>>
      BY <2>1, <2>3, <2>6, <2>7, EmptySeq
    <3>2. events'[Len(calls')][1] # "property"
      BY <1>1, <1>3
    <3> HIDE DEF n
    <3> QED
      BY <1>1, <2>3, <3>1, <3>2 DEF AtScope
  <2>23. Reading(L)'
    <3>1. stage' \notin {"value", "error", "panicked", "done"}
      BY <2>3
    <3> QED
      BY <1>1, <2>21, <2>22, <3>1 DEF Reading
  <2> QED
    BY <2>4, <2>23
<1> QED
  BY <1>4, <1>5

------------------------------------------------------------------------------
(* Pods that are read in one go *)

LEMMA Counted ==
  ASSUME NEW n \in Nat, NEW e \in Nat, e > 0
  PROVE  n * e \in Nat /\ (n * e) \div e = n
BY SMT

LEMMA SamePadding ==
  ASSUME NEW n \in Nat
  PROVE  Padding(16 + n) = Padding(n) /\ Padding(16) = 0
BY SMT DEF Padding

\* The reader stands before the header of the pod that was written next.
LEMMA TypeHere ==
  ASSUME NEW L, Busy(L), stage = "value"
  PROVE  /\ Here \in 1..Len(events) /\ Here \in 1..Len(L) /\ Here + 1 \in 1..Len(L)
         /\ events[Here][1] \in Pods /\ events[Here] \in Calls
         /\ Wrote(events[Here], L[Here], L[Here + 1])
         /\ input \in DOMAIN headers /\ headers[input].type = KindOf(events[Here])
         /\ headers[input].size \in Nat /\ headers[input].size < U32
         /\ headers[input].elem \in Nat /\ input \in Nat
         /\ Reader!Kind = KindOf(events[Here])
         /\ Len(scopes) = Len(L[Here].stack)
         /\ \A i \in 1..Len(scopes) : ~scopes[i].held
         /\ \A i \in 1..Len(scopes) : ~Ends(L, Here, i)
         /\ L[Here].stack \in Seq(Frame) /\ L[Here + 1].stack \in Seq(Frame)
<1>1. /\ IInv /\ Log(L) /\ turn = "done" /\ Here \in 1..Len(L) /\ input = L[Here].at
      /\ input \in Nat
      /\ \A i \in 1..Len(scopes) - 1 : ~scopes[i].held
      /\ Len(scopes) \in Nat
  BY Where, Zenon DEF Busy
<1>2. AtValue(L)
  BY DEF Busy, Reading
<1>3. Here <= Len(events) /\ events[Here][1] \in Pods /\ Len(scopes) = Len(L[Here].stack)
      /\ (scopes # <<>> => ~scopes[Len(scopes)].held)
  BY <1>2 DEF AtValue
<1>4. Len(L) = Len(events) + 1 /\ Len(events) \in Nat /\ events \in Seq(Calls)
      /\ L[Len(L)].stack = <<>>
  BY <1>1, Complete
<1>5. PICK k : k = Here
  OBVIOUS
<1>6. k \in 1..Len(events) /\ k \in 1..Len(L) /\ k + 1 \in 1..Len(L)
  BY <1>1, <1>3, <1>4, <1>5
<1>7. Wrote(events[k], L[k], L[k + 1]) /\ events[k] \in Calls
      /\ L[k].stack \in Seq(Frame) /\ L[k + 1].stack \in Seq(Frame)
  <2>1. Wrote(events[k], L[k], L[k + 1])
    BY <1>1, <1>6, Complete
  <2>2. events[k] \in Calls
    BY <1>4, <1>6
  <2>3. L[k].stack \in Seq(Frame) /\ L[k + 1].stack \in Seq(Frame)
    BY <1>1, <1>6, Complete
  <2> QED
    BY <2>1, <2>2, <2>3
<1>8. L[k].at \in DOMAIN headers /\ headers[L[k].at].type = KindOf(events[k])
  <2>1. CASE events[k][1] \in Single
    BY <1>7, <2>1 DEF Wrote, WroteSingle, KindOf, Single
  <2>2. CASE events[k][1] \in Begun
    <3>1. /\ Len(L[k + 1].stack) = Len(L[k].stack) + 1
          /\ Last(L[k + 1].stack).kind = KindOf(events[k]) /\ Last(L[k + 1].stack).at = L[k].at
      BY <1>7, <2>2 DEF Wrote, WroteCompound
    <3>2. Len(L[k + 1].stack) \in Nat \ {0}
      BY <1>7, <3>1
    <3>3. L[k + 1].stack # <<>>
      BY <3>2, EmptySeq
    <3>4. k + 1 # Len(L)
      BY <1>4, <3>3
    <3>5. k + 1 \in 1..Len(events)
      BY <1>4, <1>6, <3>4
    <3>6. PICK d : d = Len(L[k + 1].stack)
      OBVIOUS
    <3>7. d \in 1..Len(L[k + 1].stack)
      BY <3>2, <3>6
    <3>8. Headed(headers, L[k + 1].stack[d])
      BY <1>1, <3>5, <3>7, Complete
    <3> QED
      BY <3>1, <3>6, <3>8 DEF Headed, Last
  <2> QED
    BY <1>3, <1>5, <2>1, <2>2 DEF Pods
<1>9. input \in DOMAIN headers /\ headers[input].type = KindOf(events[k])
  BY <1>1, <1>5, <1>8
<1>10. headers[input] \in PodHeader /\ headers[input].size \in Nat /\ headers[input].elem \in Nat
  BY <1>1, <1>9, StateFacts
<1>11. headers[input].size < U32
  BY <1>10, SerializerAssumption DEF PodHeader
<1>12. Reader!Kind = KindOf(events[k])
  BY <1>9 DEF Reader!Kind, Reader!Pod
<1>13. \A i \in 1..Len(scopes) : ~scopes[i].held
  <2> SUFFICES ASSUME NEW i \in 1..Len(scopes) PROVE ~scopes[i].held
    OBVIOUS
  <2>1. CASE i = Len(scopes)
    <3>1. Len(scopes) # 0
      BY <2>1
    <3>2. scopes # <<>>
      BY <3>1
    <3> QED
      BY <1>3, <2>1, <3>2
  <2>2. CASE i # Len(scopes)
    <3>1. i \in 1..Len(scopes) - 1
      BY <1>1, <2>2
    <3> QED
      BY <1>1, <3>1
  <2> QED
    BY <2>1, <2>2
<1>14. \A i \in 1..Len(scopes) : ~Ends(L, Here, i)
  BY <1>3 DEF Ends, Pods, Single, Begun, Compound
<1> QED
  BY <1>1, <1>3, <1>5, <1>6, <1>7, <1>9, <1>10, <1>11, <1>12, <1>13, <1>14

\* The bytes that are consumed for a pod that is written in one go, and what is
\* made of them.
LEMMA SingleRead ==
  ASSUME NEW L, Busy(L), stage = "value", events[Here][1] \in Single
  PROVE  /\ input + Reader!Bytes = L[Here + 1].at /\ Reader!Bytes \in Nat
         /\ events[Here][1] = "leaf" => events[Here] = <<"leaf", Reader!Pod.size>>
         /\ events[Here][1] = "choice" /\ Reader!Pod.elem # 0 => events[Here] = <<"choice", Reader!ChoiceValues>>
         /\ events[Here][1] = "pointer" => /\ events[Here] = <<"pointer", Reader!Pod.size - 8>>
                                           /\ Reader!Pod.size - 8 = 8
<1>1. PICK ev : ev = events[Here]
  OBVIOUS
<1>2. PICK h : h = headers[input]
  OBVIOUS
<1>3. /\ Wrote(ev, L[Here], L[Here + 1]) /\ ev \in Calls /\ ev[1] \in Single
      /\ input \in DOMAIN headers /\ h.type = ev[1] /\ h.size \in Nat /\ h.elem \in Nat
      /\ Reader!Kind = ev[1] /\ input \in Nat
  BY <1>1, <1>2, TypeHere DEF KindOf, Single
<1>4. WroteSingle(ev, L[Here], L[Here + 1]) /\ input = L[Here].at
  BY <1>3, Where DEF Wrote
<1>5. Content(ev, h) /\ L[Here + 1].at = input + 8 + h.size + Padding(h.size)
  BY <1>2, <1>4 DEF WroteSingle
<1>6. ev = <<ev[1], ev[2]>> /\ ev[2] \in Nat
  BY <1>3 DEF Calls
<1>7. Reader!Pod = h
  BY <1>2 DEF Reader!Pod
<1>8. PICK p : p = Padding(h.size)
  OBVIOUS
<1>9. p \in Nat /\ L[Here + 1].at = input + 8 + h.size + p
  BY <1>3, <1>5, <1>8, PodLength
<1>10. CASE ev[1] = "leaf"
  <2>1. h.size = ev[2]
    BY <1>5, <1>10 DEF Content
  <2>2. Reader!calc_padding_needed(h.size) = p
    BY <1>8 DEF Reader!calc_padding_needed, Padding
  <2>3. Reader!Bytes = 8 + (h.size + p)
    BY <1>3, <1>7, <1>10, <2>2 DEF Reader!Bytes
  <2>4. input + Reader!Bytes = L[Here + 1].at /\ Reader!Bytes \in Nat
    BY <1>3, <1>9, <2>3
  <2> QED
    BY <1>1, <1>6, <1>7, <1>10, <2>1, <2>4
<1>11. CASE ev[1] = "choice"
  <2>1. h.size = 16 + ev[2] * h.elem
    BY <1>5, <1>11 DEF Content
  <2>2. PICK x : x = ev[2] * h.elem
    OBVIOUS
  <2>3. x \in Nat /\ (h.elem # 0 => x \div h.elem = ev[2]) /\ (h.elem = 0 => x = 0)
    <3>1. CASE h.elem # 0
      BY <1>3, <1>6, <2>2, <3>1, Counted
    <3>2. CASE h.elem = 0
      BY <1>6, <2>2, <3>2
    <3> QED
      BY <3>1, <3>2
  <2>4. h.size = 16 + x /\ h.size - 16 = x
    BY <2>1, <2>2, <2>3
  <2>5. h.elem # 0 => Reader!ChoiceValues = ev[2]
    BY <1>7, <2>3, <2>4 DEF Reader!ChoiceValues
  <2>6. Reader!ChoiceBytes = x
    BY <1>7, <2>2, <2>3, <2>5 DEF Reader!ChoiceBytes
  <2>7. Padding(x) = p
    BY <1>8, <2>3, <2>4, SamePadding
  <2>8. Reader!calc_padding_needed(x) = p
    BY <2>7 DEF Reader!calc_padding_needed, Padding
  <2>9. Reader!Bytes = 8 + (16 + x + p)
    BY <1>3, <1>11, <2>6, <2>8 DEF Reader!Bytes
  <2>10. input + Reader!Bytes = L[Here + 1].at /\ Reader!Bytes \in Nat
    BY <1>3, <1>9, <2>3, <2>4, <2>9
  <2> QED
    BY <1>1, <1>6, <1>7, <1>11, <2>5, <2>10
<1>12. CASE ev[1] = "pointer"
  <2>1. h.size = 16 /\ ev[2] = 8
    BY <1>5, <1>12 DEF Content
  <2>2. p = 0
    BY <1>8, <2>1, SamePadding
  <2>3. Reader!Bytes = 8 + 16
    BY <1>3, <1>7, <1>12, <2>1 DEF Reader!Bytes
  <2>4. input + Reader!Bytes = L[Here + 1].at /\ Reader!Bytes \in Nat
    BY <1>3, <1>9, <2>1, <2>2, <2>3
  <2>5. Reader!Pod.size - 8 = 8
    BY <1>7, <2>1
  <2> QED
    BY <1>1, <1>6, <1>12, <2>1, <2>4, <2>5
<1> QED
  BY <1>1, <1>3, <1>10, <1>11, <1>12 DEF Single

\* Leaf, Choice and Pointer.
LEMMA ReadsWhole ==
  ASSUME NEW L, Busy(L), UNCHANGED <<vars, total>>,
         Reader!Leaf \/ Reader!Choice \/ Reader!Pointer
  PROVE  Reading(L)' /\ ReaderShape'
<1>1. /\ stage = "value" /\ Reader!Kind \in Single
      /\ ~Reader!Cut(Reader!Bytes) /\ input' = input + Reader!Bytes
      /\ Reader!Finish(scopes)
      /\ \/ Reader!Kind = "leaf" /\ calls' = Append(calls, <<"leaf", Reader!Pod.size>>)
         \/ Reader!Kind = "choice" /\ Reader!Pod.elem # 0
            /\ calls' = Append(calls, <<"choice", Reader!ChoiceValues>>)
         \/ Reader!Kind = "pointer" /\ calls' = Append(calls, <<"pointer", Reader!Pod.size - 8>>)
  <2>1. CASE Reader!Leaf
    BY <2>1, Zenon DEF Reader!Leaf, Reader!Whole, Reader!Consume, Reader!Record, Single
  <2>2. CASE Reader!Choice
    BY <2>2, Zenon DEF Reader!Choice, Reader!Whole, Reader!Consume, Reader!Record, Single
  <2>3. CASE Reader!Pointer
    BY <2>3, Zenon DEF Reader!Pointer, Reader!Whole, Reader!Consume, Reader!Record, Single
  <2> QED
    BY <2>1, <2>2, <2>3
<1>2. /\ Here \in 1..Len(events) /\ events[Here][1] = Reader!Kind
      /\ Len(scopes) = Len(L[Here].stack) /\ L[Here].stack \in Seq(Frame)
      /\ \A i \in 1..Len(scopes) : ~scopes[i].held /\ ~Ends(L, Here, i)
      /\ Wrote(events[Here], L[Here], L[Here + 1])
  BY <1>1, TypeHere DEF KindOf, Single
<1>3. /\ input' = L[Here + 1].at /\ Reader!Bytes \in Nat
      /\ calls' = Append(calls, Seen(events[Here]))
  BY <1>1, <1>2, SingleRead DEF Seen
<1>4. /\ scopes \in Seq(Scope) /\ Len(scopes) \in Nat /\ total \in Nat /\ input \in Nat
      /\ Here <= Len(events)
  <2>1. Here <= Len(events)
    BY <1>2
  <2> QED
    BY <2>1, Where
<1>5. input' <= total
  <2>1. ~(input + Reader!Bytes > total) /\ input + Reader!Bytes \in Nat
    BY <1>1, <1>3, <1>4 DEF Reader!Cut
  <2> QED
    BY <1>1, <1>4, <2>1
<1>6. /\ Len(L[Here + 1].stack) = Len(scopes)
      /\ \A i \in 1..Len(scopes) : Same(L[Here].stack[i], L[Here + 1].stack[i])
  BY <1>1, <1>2 DEF Wrote, WroteSingle, Below
<1>7. events[Here][1] # "property"
  BY <1>1, <1>2 DEF Single
<1>8. Len(scopes) <= Len(scopes)
  BY <1>4
<1> QED
  BY <1>1, <1>2, <1>3, <1>4, <1>5, <1>6, <1>7, <1>8, HandedBack

------------------------------------------------------------------------------
(* Beginnings *)

\* The frame that was opened where the reader stands.
LEMMA OpenedHere ==
  ASSUME NEW L, Busy(L), stage = "value", events[Here][1] \in Begun
  PROVE  LET d == Len(scopes) + 1
             f == L[Here + 1].stack[d]
         IN  /\ Len(L[Here + 1].stack) = d /\ f \in Frame
             /\ f.kind = KindOf(events[Here]) /\ f.at = input /\ f.written = 0
             /\ L[Here + 1].at = input + IF f.kind = "struct" THEN 8 ELSE 16
             /\ f.kind = "array" => Seen(events[Here])
                                   = <<IF f.elem = 0 THEN "units" ELSE "array", f.length>>
             /\ f.kind # "array" => Seen(events[Here])
                                   = <<f.kind, IF f.kind = "struct" THEN 8 ELSE 16>>
             /\ \A i \in 1..Len(scopes) : Same(L[Here].stack[i], L[Here + 1].stack[i])
             /\ f.kind = "object" => headers[input].size >= 8
             /\ f.kind = "array" => /\ headers[input].elem = f.elem /\ (f.elem > 0 \/ f.length = 0)
                                    /\ headers[input].size = 8 + f.length * f.elem
<1> DEFINE d == Len(scopes) + 1
<1>1. PICK k : k = Here
  OBVIOUS
<1>2. /\ IInv /\ Log(L) /\ turn = "done" /\ input = L[k].at
      /\ input \in Nat /\ Len(scopes) \in Nat
  BY <1>1, Where, Zenon DEF Busy
<1>3. /\ k \in 1..Len(events) /\ k \in 1..Len(L) /\ k + 1 \in 1..Len(L)
      /\ events[k] \in Calls /\ Wrote(events[k], L[k], L[k + 1])
      /\ Len(scopes) = Len(L[k].stack) /\ L[k + 1].stack \in Seq(Frame)
      /\ events[k][1] \in Begun
      /\ headers[input].size \in Nat
  BY <1>1, TypeHere
<1>4. PICK s : s = L[k + 1].stack
  OBVIOUS
<1>5. PICK f : f = s[d]
  OBVIOUS
<1>6. WroteCompound(events[k], L[k], L[k + 1])
  BY <1>3 DEF Wrote
<1>7. /\ Len(s) = d /\ f.kind = KindOf(events[k]) /\ f.at = input /\ f.written = 0
      /\ L[k + 1].at = input + IF f.kind = "struct" THEN 8 ELSE 16
      /\ f.kind = "array" => Seen(events[k])[2] = f.length
                             /\ (events[k][1] = "units" <=> f.elem = 0)
      /\ f.kind # "array" => events[k][2] = IF f.kind = "struct" THEN 8 ELSE 16
  BY <1>2, <1>3, <1>4, <1>5, <1>6 DEF WroteCompound, Last, KindOf
<1>8. d \in 1..Len(s) /\ f \in Frame /\ s # <<>> /\ s \in Seq(Frame)
  <2>1. d \in 1..Len(s) /\ Len(s) # 0 /\ s \in Seq(Frame)
    BY <1>2, <1>3, <1>4, <1>7, SMTT(30)
  <2> HIDE DEF d
  <2> QED
    BY <1>5, <2>1, EmptySeq
<1>9. /\ f.kind = "array" => Seen(events[k])
                              = <<IF f.elem = 0 THEN "units" ELSE "array", f.length>>
      /\ f.kind # "array" => Seen(events[k])
                              = <<f.kind, IF f.kind = "struct" THEN 8 ELSE 16>>
  <2>1. events[k] = <<events[k][1], events[k][2]>>
    BY <1>3 DEF Calls
  <2> QED
    BY <1>7, <2>1 DEF Seen, KindOf
<1>10. \A i \in 1..Len(scopes) : Same(L[k].stack[i], s[i])
  BY <1>3, <1>4, <1>6 DEF WroteCompound, Below
<1>11. Len(L) = Len(events) + 1 /\ Len(events) \in Nat /\ L[Len(L)].stack = <<>>
  BY <1>2, Complete
<1>12. k + 1 \in 1..Len(events) /\ k + 1 > 1
  <2>1. k + 1 # Len(L)
    BY <1>4, <1>8, <1>11
  <2> QED
    BY <1>3, <1>11, <2>1
<1>13. PICK m : m = k + 1
  OBVIOUS
<1>14. /\ f.kind = "array" => /\ headers[f.at].elem = f.elem
                              /\ headers[f.at].size = 8 + f.length * f.elem
       /\ EndAt(f) \in Nat
       /\ IF Ends(L, m, d) THEN L[m].at = EndAt(f) ELSE L[m + 1].at <= EndAt(f)
  <2>1. d \in 1..Len(L[m].stack) /\ f = L[m].stack[d] /\ m \in 1..Len(events)
    BY <1>4, <1>5, <1>8, <1>12, <1>13
  <2> HIDE DEF d
  <2> QED
    BY <1>2, <2>1, ClosedFacts
<1>15. ASSUME f.kind = "array" PROVE f.elem > 0 \/ f.length = 0
  <2>1. Innermost(s)
    BY <1>2, <1>3, <1>4, Complete
  <2> HIDE DEF d
  <2> QED
    BY <1>5, <1>8, <1>15, <2>1 DEF Innermost
<1>16. ASSUME f.kind = "object" PROVE headers[input].size >= 8
  <2>1. events[m][1] \in Due(L, m)
    BY <1>2, <1>12, <1>13, Complete
  <2>2. m # 1 /\ m - 1 = k
    BY <1>3, <1>13
  <2>3. events[m - 1][1] # "property"
    BY <1>7, <1>16, <2>2 DEF KindOf
  <2>4. Last(s) = f
    BY <1>5, <1>7 DEF Last
  <2>5. Due(L, m) = {"property", "end"}
    BY <1>4, <1>8, <1>13, <1>16, <2>2, <2>3, <2>4 DEF Due
  <2>6. L[m].at = input + 16
    BY <1>7, <1>13, <1>16
  <2>7. L[m].at <= EndAt(f)
    <3>1. CASE events[m][1] = "end"
      <4>1. Ends(L, m, d)
        BY <1>4, <1>7, <1>13, <3>1 DEF Ends
      <4>2. EndAt(f) \in Nat /\ L[m].at = EndAt(f)
        BY <1>14, <4>1
      <4> QED
        BY <4>2
    <3>2. CASE events[m][1] = "property"
      <4>1. ~Ends(L, m, d)
        BY <3>2 DEF Ends
      <4>2. L[m].at < L[m + 1].at
        BY <1>2, <1>12, <1>13, <3>2, Progress
      <4>3. m \in 1..Len(L) /\ m + 1 \in 1..Len(L)
        BY <1>11, <1>12, <1>13
      <4>4. L[m].at \in Nat /\ L[m + 1].at \in Nat
        BY <1>2, <4>3, Complete
      <4>5. L[m + 1].at <= EndAt(f) /\ EndAt(f) \in Nat
        BY <1>14, <4>1
      <4> QED
        BY <4>2, <4>4, <4>5
    <3> QED
      BY <2>1, <2>5, <3>1, <3>2
  <2>8. EndAt(f) = input + 8 + headers[input].size
    BY <1>7 DEF EndAt
  <2>9. PICK a : a = L[m].at
    OBVIOUS
  <2>10. PICK e : e = EndAt(f)
    OBVIOUS
  <2>11. a <= e /\ a = input + 16 /\ e = input + 8 + headers[input].size
    BY <2>6, <2>7, <2>8, <2>9, <2>10
  <2>12. PICK z : z = headers[input].size
    OBVIOUS
  <2>13. z \in Nat /\ input \in Nat
    BY <1>2, <1>3, <2>12
  <2> QED
    BY <2>11, <2>12, <2>13
<1> QED
  BY <1>1, <1>4, <1>5, <1>7, <1>8, <1>9, <1>10, <1>14, <1>15, <1>16

\* A deserializer is made.
LEMMA Began ==
  ASSUME NEW L, Busy(L), UNCHANGED <<vars, total>>, stage = "value",
         Here <= Len(events), Len(scopes) = Len(L[Here].stack),
         calls' = Append(calls, Seen(events[Here])), input' = L[Here + 1].at, input' <= total,
         events[Here][1] # "property",
         NEW r \in Scope, scopes' = Append(scopes, r), stage' = "scope",
         typed' = typed, panic' = panic,
         NEW f \in Frame, f = L[Here + 1].stack[Len(scopes) + 1],
         Len(L[Here + 1].stack) = Len(scopes) + 1,
         \A i \in 1..Len(scopes) : Same(L[Here].stack[i], L[Here + 1].stack[i]),
         r.kind = f.kind, r.held,
         IF f.kind = "array" THEN r.length = f.length /\ r.elem = f.elem /\ r.read = f.written
                             ELSE r.remaining + input' = EndAt(f)
  PROVE  Reading(L)' /\ ReaderShape'
<1> DEFINE n == Len(scopes)
<1>1. /\ turn' = "done" /\ total' <= length' /\ input' <= total' /\ Here' <= Len(L)
      /\ Echoes(calls', events') /\ calls' \in Seq(Calls)
      /\ calls' # <<>> /\ Len(calls') = Here /\ Here' = Here + 1
      /\ input' = L[Here'].at /\ input' \in Nat /\ total' \in Nat
      /\ Here \in 1..Len(events) /\ Here + 1 \in 1..Len(L)
  BY Recorded
<1>2. /\ typed \in BOOLEAN /\ panic \in Panics /\ scopes \in Seq(Scope) /\ n \in Nat
      /\ events' = events /\ headers' = headers
  BY Unmoved DEF Busy, ReaderShape
<1>3. /\ scopes' \in Seq(Scope) /\ Len(scopes') = n + 1 /\ scopes' # <<>>
      /\ \A i \in 1..n : scopes'[i] = scopes[i]
      /\ scopes'[n + 1] = r
  BY <1>2, AppendProperties
<1>4. ReaderShape'
  BY <1>1, <1>2, <1>3 DEF ReaderShape
<1>5. PICK m : m = Here'
  OBVIOUS
<1>6. m = Here + 1 /\ Here' \in 1..Len(L) /\ Len(L[m].stack) = n + 1
  BY <1>1, <1>5
<1>7. \A i \in 1..n : ~scopes[i].held
  BY TypeHere
<1>8. ASSUME NEW i \in 1..n PROVE Matches(L, i)' /\ ~scopes'[i].held
  <2>1. /\ i \in 1..Len(L[Here'].stack) /\ Same(L[Here].stack[i], L[Here'].stack[i])
    <3>1. Same(L[Here].stack[i], L[m].stack[i])
      BY <1>6
    <3>2. i \in 1..n + 1
      BY <1>2
    <3> QED
      BY <1>5, <1>6, <3>1, <3>2
  <2>2. scopes'[i] = scopes[i] /\ ~scopes[i].held
    BY <1>3, <1>7
  <2> QED
    BY <1>6, <2>1, <2>2, Waits
<1>20. PICK d : d = n + 1
  OBVIOUS
<1>9. Matches(L, d)'
  <2>2. f = L[Here'].stack[d] /\ scopes'[d] = r
    BY <1>3, <1>5, <1>6, <1>20
  <2>3. EndAt(f)' = EndAt(f)
    BY <1>2 DEF EndAt
  <2>4. f.kind # "array" => EndOf(d)' = EndAt(f)'
    BY <2>2, <2>3 DEF EndOf
  <2> QED
    BY <2>2, <2>4, SMT DEF Matches
<1>10. \A i \in 1..Len(scopes') : Matches(L, i)'
  <2>1. \A i \in 1..Len(scopes') : i \in 1..n \/ i = d
    BY <1>2, <1>3, <1>20
  <2> QED
    BY <1>8, <1>9, <2>1
<1>11. \A i \in 1..Len(scopes') - 1 : ~scopes'[i].held
  <2>1. \A i \in 1..Len(scopes') - 1 : i \in 1..n
    BY <1>2, <1>3
  <2> QED
    BY <1>8, <2>1
<1>12. Len(scopes') = Len(L[Here'].stack) /\ Len(scopes') <= Len(L[Here'].stack)
  BY <1>2, <1>3, <1>5, <1>6
<1>13. Tracks(L)'
  BY <1>1, <1>10, <1>11, <1>12 DEF Tracks
<1>14. AtScope(L)'
  <2>1. scopes'[Len(scopes')].held
    BY <1>3
  <2>2. events'[Len(calls')][1] # "property"
    BY <1>1, <1>2
  <2> QED
    BY <1>1, <1>3, <1>12, <2>1, <2>2 DEF AtScope
<1>15. Reading(L)'
  <2>1. stage' \notin {"value", "error", "panicked", "done"}
    OBVIOUS
  <2> QED
    BY <1>1, <1>13, <1>14, <2>1 DEF Reading
<1> QED
  BY <1>4, <1>15

LEMMA Wrapped ==
  ASSUME NEW n \in Nat, n < U32
  PROVE  n % U32 = n
BY SMT, SerializerAssumption

\* How many elements the reader expects, and what it calls them.
CountOf(h) == IF h.elem = 0 THEN 0 ELSE ((h.size - 8) % U32) \div h.elem
NameOf(h) == IF h.elem = 0 THEN "units" ELSE "array"

LEMMA CountedRight ==
  ASSUME NEW h, h.size \in Nat, h.size < U32, NEW f \in Frame, h.elem = f.elem,
         h.size = 8 + f.length * f.elem, f.elem > 0 \/ f.length = 0
  PROVE  CountOf(h) = f.length
<1>1. PICK x : x = f.length * f.elem
  OBVIOUS
<1>2. PICK z : z = h.size
  OBVIOUS
<1>3. f.length \in Nat /\ f.elem \in Nat
  BY DEF Frame
<1>4. CASE f.elem = 0
  BY <1>3, <1>4 DEF CountOf
<1>5. CASE f.elem # 0
  <2>1. x \in Nat /\ x \div f.elem = f.length
    BY <1>1, <1>3, <1>5, Counted
  <2>2. z - 8 = x /\ x < U32
    BY <1>1, <1>2, <2>1, SerializerAssumption
  <2>3. (h.size - 8) % U32 = x
    BY <1>2, <2>1, <2>2, Wrapped
  <2> QED
    BY <1>5, <2>1, <2>3 DEF CountOf
<1> QED
  BY <1>4, <1>5

\* Struct, Object and Array.
LEMMA ReadsBeginning ==
  ASSUME NEW L, Busy(L), UNCHANGED <<vars, total>>, stage = "value",
         NEW kind \in Compound, Reader!Kind = kind,
         Reader!Consume(Reader!Bytes), NEW r \in Scope, scopes' = Append(scopes, r),
         stage' = "scope", r.kind = kind, r.held, UNCHANGED <<typed, panic>>,
         NEW name, name = (IF kind = "array" THEN NameOf(headers[input]) ELSE kind),
         NEW count, calls' = Append(calls, <<name, count>>),
         kind = "array" => /\ count = CountOf(headers[input])
                           /\ r.length = count /\ r.elem = headers[input].elem /\ r.read = 0,
         kind # "array" => /\ count = Reader!Bytes
                           /\ r.remaining = IF kind = "struct" THEN headers[input].size
                                            ELSE (headers[input].size - 8) % U32
  PROVE  Reading(L)' /\ ReaderShape'
<1>1. PICK h : h = headers[input]
  OBVIOUS
<1>2. PICK d : d = Len(scopes) + 1
  OBVIOUS
<1>3. PICK f : f = L[Here + 1].stack[d]
  OBVIOUS
<1>4. /\ KindOf(events[Here]) = kind /\ events[Here][1] \in Begun /\ Here \in 1..Len(events)
      /\ Len(scopes) = Len(L[Here].stack)
      /\ h.size \in Nat /\ h.size < U32 /\ h.elem \in Nat /\ input \in Nat
  BY <1>1, TypeHere DEF KindOf, Begun, Compound
<1>5. /\ Len(L[Here + 1].stack) = d /\ f \in Frame
      /\ f.kind = kind /\ f.at = input /\ f.written = 0
      /\ L[Here + 1].at = input + IF f.kind = "struct" THEN 8 ELSE 16
      /\ kind = "array" => Seen(events[Here]) = <<name, f.length>>
      /\ kind # "array" => Seen(events[Here]) = <<name, IF kind = "struct" THEN 8 ELSE 16>>
      /\ \A i \in 1..Len(scopes) : Same(L[Here].stack[i], L[Here + 1].stack[i])
      /\ kind = "object" => h.size >= 8
      /\ kind = "array" => /\ h.elem = f.elem /\ (f.elem > 0 \/ f.length = 0)
                           /\ h.size = 8 + f.length * f.elem
  <2>1. events[Here][1] \in Begun
    BY <1>4
  <2>2. /\ Len(L[Here + 1].stack) = d /\ f \in Frame
        /\ f.kind = KindOf(events[Here]) /\ f.at = input /\ f.written = 0
        /\ L[Here + 1].at = input + IF f.kind = "struct" THEN 8 ELSE 16
        /\ f.kind = "array" => Seen(events[Here])
                              = <<IF f.elem = 0 THEN "units" ELSE "array", f.length>>
        /\ f.kind # "array" => Seen(events[Here])
                              = <<f.kind, IF f.kind = "struct" THEN 8 ELSE 16>>
        /\ \A i \in 1..Len(scopes) : Same(L[Here].stack[i], L[Here + 1].stack[i])
    BY <1>2, <1>3, <2>1, OpenedHere, ZenonT(30)
  <2>3. /\ f.kind = "object" => h.size >= 8
        /\ f.kind = "array" => /\ h.elem = f.elem /\ (f.elem > 0 \/ f.length = 0)
                               /\ h.size = 8 + f.length * f.elem
    BY <1>1, <1>2, <1>3, <2>1, OpenedHere, ZenonT(30)
  <2>4. kind = "array" => name = IF f.elem = 0 THEN "units" ELSE "array"
    BY <1>1, <1>4, <2>2, <2>3 DEF NameOf
  <2>5. kind = "array" => Seen(events[Here]) = <<name, f.length>>
    BY <1>4, <2>2, <2>4
  <2>6. kind # "array" => Seen(events[Here]) = <<name, IF kind = "struct" THEN 8 ELSE 16>>
    BY <1>4, <2>2
  <2> QED
    BY <1>4, <2>2, <2>3, <2>5, <2>6, Zenon
<1>6. Reader!Bytes = IF kind = "struct" THEN 8 ELSE 16
  BY DEF Reader!Bytes, Compound
<1>7. input' = input + Reader!Bytes /\ ~(input + Reader!Bytes > total)
  BY DEF Reader!Consume, Reader!Cut
<1>8. total \in Nat /\ Here <= Len(events)
  BY <1>4, Where
<1>9. input' = L[Here + 1].at /\ input' <= total
  BY <1>4, <1>5, <1>6, <1>7, <1>8
<1>10. ASSUME kind = "array"
       PROVE  count = f.length
  BY <1>1, <1>4, <1>5, <1>10, CountedRight
<1>11. calls' = Append(calls, Seen(events[Here]))
  <2>1. CASE kind = "array"
    BY <1>5, <1>10, <2>1
  <2>2. CASE kind # "array"
    BY <1>5, <1>6, <2>2
  <2> QED
    BY <2>1, <2>2
<1>12. ASSUME kind # "array"
       PROVE  r.remaining + input' = EndAt(f)
  <2>1. EndAt(f) = input + 8 + h.size
    BY <1>1, <1>5 DEF EndAt
  <2>2. CASE kind = "struct"
    <3>1. r.remaining = h.size /\ input' = input + 8
      BY <1>1, <1>6, <1>7, <2>2
    <3> QED
      BY <1>4, <2>1, <3>1
  <2>3. CASE kind = "object"
    <3>1. r.remaining = (h.size - 8) % U32 /\ input' = input + 16
      BY <1>1, <1>6, <1>7, <2>3
    <3>2. h.size >= 8
      BY <1>5, <2>3
    <3>8. PICK z : z = h.size
      OBVIOUS
    <3>9. z \in Nat /\ z < U32 /\ z >= 8
      BY <1>4, <3>2, <3>8
    <3>11. z - 8 \in Nat /\ z - 8 < U32
      BY <3>9, SerializerAssumption
    <3>3. h.size - 8 \in Nat /\ h.size - 8 < U32
      BY <3>8, <3>11
    <3>4. (h.size - 8) % U32 = h.size - 8
      BY <3>3, Wrapped
    <3>5. r.remaining = h.size - 8 /\ input' = input + 16
      BY <3>1, <3>4
    <3>6. z \in Nat /\ input \in Nat /\ r.remaining = z - 8 /\ EndAt(f) = input + 8 + z
      BY <1>4, <2>1, <3>5, <3>8
    <3> QED
      BY <3>5, <3>6
  <2> QED
    BY <1>12, <2>2, <2>3 DEF Compound
<1>13. IF f.kind = "array" THEN r.length = f.length /\ r.elem = f.elem /\ r.read = f.written
                           ELSE r.remaining + input' = EndAt(f)
  BY <1>1, <1>5, <1>10, <1>12
<1>14. events[Here][1] # "property"
  BY <1>4 DEF Begun, Compound
<1> QED
  BY <1>2, <1>3, <1>4, <1>5, <1>8, <1>9, <1>11, <1>13, <1>14, Began

LEMMA ReadsCompound ==
  ASSUME NEW L, Busy(L), UNCHANGED <<vars, total>>,
         Reader!Struct \/ Reader!Object \/ Reader!Array
  PROVE  Reading(L)' /\ ReaderShape'
<1> DEFINE Made(kind, remaining, length0, elem) ==
      [kind |-> kind, remaining |-> remaining, mark |-> 0, held |-> TRUE,
       length |-> length0, read |-> 0, elem |-> elem]
           h == headers[input]
<1>1. stage = "value"
  BY DEF Reader!Struct, Reader!Object, Reader!Array, Reader!Begin
<1>2. /\ h.size \in Nat /\ h.elem \in Nat /\ Reader!Kind = h.type
  BY <1>1, TypeHere
<1>3. CASE Reader!Struct
  <2>1. PICK r : r = Made("struct", h.size, 0, 0)
    OBVIOUS
  <2>2. r \in Scope /\ r.kind = "struct" /\ r.held /\ r.remaining = h.size
    BY <1>2, <2>1 DEF Scope, Compound
  <2>3. /\ Reader!Kind = "struct" /\ Reader!Consume(Reader!Bytes)
        /\ scopes' = Append(scopes, r) /\ stage' = "scope"
        /\ calls' = Append(calls, <<"struct", Reader!Bytes>>)
        /\ UNCHANGED <<typed, panic>>
    BY <1>3, <2>1, Zenon DEF Reader!Struct, Reader!Begin, Reader!Record, Reader!Pod
  <2>4. PICK count : count = Reader!Bytes
    OBVIOUS
  <2>5. "struct" \in Compound
    BY DEF Compound
  <2> HIDE DEF h
  <2>6. PICK name : name = "struct"
    OBVIOUS
  <2> QED
    BY <1>1, <2>2, <2>3, <2>4, <2>5, <2>6, ReadsBeginning DEF h
<1>4. CASE Reader!Object
  <2>1. PICK r : r = Made("object", (h.size - 8) % U32, 0, 0)
    OBVIOUS
  <2>2. PICK count : count = Reader!Bytes
    OBVIOUS
  <2>3. /\ Reader!Kind = "object" /\ Reader!Consume(Reader!Bytes)
        /\ scopes' = Append(scopes, r) /\ stage' = "scope"
        /\ calls' = Append(calls, <<"object", count>>)
        /\ UNCHANGED <<typed, panic>>
    BY <1>4, <2>1, <2>2, Zenon DEF Reader!Object, Reader!Begin, Reader!Record, Reader!Pod
  <2>4. "object" \in Compound
    BY DEF Compound
  <2>5. h.size >= 8
    <3>1. events[Here][1] = "object"
      BY <1>1, <2>3, TypeHere DEF KindOf
    <3>2. events[Here][1] \in Begun /\ L[Here + 1].stack[Len(scopes) + 1].kind = "object"
      BY <1>1, <2>4, <3>1, OpenedHere DEF Begun, KindOf
    <3> QED
      BY <1>1, <3>2, OpenedHere
  <2>6. (h.size - 8) % U32 \in Nat
    <3>1. h.size - 8 \in Nat /\ h.size - 8 < U32
      BY <1>1, <1>2, <2>5, TypeHere, SerializerAssumption
    <3> QED
      BY <3>1, Wrapped
  <2>7. r \in Scope /\ r.kind = "object" /\ r.held /\ r.remaining = (h.size - 8) % U32
    BY <2>1, <2>6 DEF Scope, Compound
  <2> HIDE DEF h
  <2>8. PICK name : name = "object"
    OBVIOUS
  <2> QED
    BY <1>1, <2>2, <2>3, <2>4, <2>7, <2>8, ReadsBeginning DEF h
<1>5. CASE Reader!Array
  <2>1. PICK count, name : count = CountOf(h) /\ name = NameOf(h)
    OBVIOUS
  <2>2. PICK r : r = Made("array", 0, count, h.elem)
    OBVIOUS
  <2>3. /\ Reader!Kind = "array" /\ Reader!Consume(Reader!Bytes)
        /\ scopes' = Append(scopes, r) /\ stage' = "scope"
        /\ calls' = Append(calls, <<name, count>>)
        /\ UNCHANGED <<typed, panic>>
    BY <1>5, <2>1, <2>2, Zenon DEF Reader!Array, Reader!Record, Reader!Pod, CountOf, NameOf
  <2>4. "array" \in Compound
    BY DEF Compound
  <2>5. count \in Nat
    <3>1. KindOf(events[Here]) = "array" /\ events[Here][1] \in Begun
      BY <1>1, <2>3, TypeHere DEF KindOf, Begun, Compound
    <3>2. PICK f : f = L[Here + 1].stack[Len(scopes) + 1]
      OBVIOUS
    <3>3. /\ f \in Frame /\ h.elem = f.elem /\ (f.elem > 0 \/ f.length = 0)
          /\ h.size = 8 + f.length * f.elem
      BY <1>1, <3>1, <3>2, OpenedHere
    <3>4. h.size < U32
      BY <1>1, TypeHere
    <3>5. count = f.length
      BY <1>2, <2>1, <3>3, <3>4, CountedRight
    <3> QED
      BY <3>3, <3>5 DEF Frame
  <2>6. /\ r \in Scope /\ r.kind = "array" /\ r.held
        /\ r.length = count /\ r.elem = h.elem /\ r.read = 0
    BY <1>2, <2>2, <2>5 DEF Scope, Compound
  <2> HIDE DEF h
  <2> QED
    BY <1>1, <2>1, <2>3, <2>4, <2>6, ReadsBeginning DEF h
<1> QED
  BY <1>3, <1>4, <1>5

------------------------------------------------------------------------------
(* What goes on in a scope *)

\* The innermost scope has its deserializer: what the writer did next.
LEMMA ScopeHere ==
  ASSUME NEW L, Busy(L), stage = "scope", scopes[Len(scopes)].held
  PROVE  LET n == Len(scopes)
             f == L[Here].stack[n]
         IN  /\ n \in Nat /\ n \in 1..n /\ n = Len(L[Here].stack) /\ f \in Frame
             /\ Here \in 1..Len(events) /\ Here + 1 \in 1..Len(L)
             /\ Wrote(events[Here], L[Here], L[Here + 1]) /\ events[Here] \in Calls
             /\ L[Here + 1].stack \in Seq(Frame)
             /\ scopes[n].kind = f.kind /\ Last(L[Here].stack) = f
             /\ f.kind = "struct" => events[Here][1] \in Pods \cup {"end"}
             /\ f.kind = "object" => events[Here][1] \in {"property", "end"}
             /\ f.kind = "array" => events[Here][1] \in {"element", "end"}
             /\ f.kind # "array" =>
                  /\ scopes[n].remaining + input = EndAt(f)
                  /\ scopes[n].remaining = 0 <=> events[Here][1] = "end"
             /\ events[Here][1] # "end" => \A i \in 1..n : ~Ends(L, Here, i)
<1> DEFINE n == Len(scopes)
<1>1. PICK k : k = Here
  OBVIOUS
<1>2. PICK s : s = L[k].stack
  OBVIOUS
<1>3. PICK f : f = s[n]
  OBVIOUS
<1>4. /\ IInv /\ Log(L) /\ turn = "done" /\ k \in 1..Len(L) /\ input = L[k].at
      /\ Len(calls) \in Nat /\ k = Len(calls) + 1
      /\ s \in Seq(Frame) /\ n \in Nat /\ input \in Nat
      /\ \A i \in 1..n : Matches(L, i) /\ scopes[i] \in Scope
  <2>1. IInv /\ Log(L)
    BY DEF Busy
  <2>2. k = Len(calls) + 1
    BY <1>1 DEF Here
  <2> QED
    BY <1>1, <1>2, <2>1, <2>2, Where
<1>5. /\ scopes # <<>> /\ n = Len(s) /\ calls # <<>>
      /\ scopes[n].kind = "object" => events[Len(calls)][1] # "property"
  <2>1. AtScope(L)
    BY DEF Busy, Reading
  <2> QED
    BY <1>1, <1>2, <2>1 DEF AtScope
<1>6. n \in 1..n /\ n # 0 /\ Len(calls) # 0
  <2>1. n # 0
    BY <1>5, Where, EmptySeq
  <2>2. calls \in Seq(Calls)
    BY DEF Busy, ReaderShape
  <2>3. Len(calls) # 0
    BY <1>5, <2>2, EmptySeq
  <2> HIDE DEF n
  <2> QED
    BY <1>4, <2>1, <2>3
<1>7. f \in Frame /\ s # <<>> /\ Last(s) = f
  <2>1. f \in Frame /\ s # <<>>
    <3> HIDE DEF n
    <3> QED
      BY <1>3, <1>4, <1>5, <1>6, EmptySeq
  <2> QED
    BY <1>3, <1>5, <2>1 DEF Last
<1>8. Matches(L, n) /\ scopes[n].kind = f.kind
  <2>1. Matches(L, n)
    BY <1>4, <1>6
  <2> QED
    BY <1>1, <1>2, <1>3, <2>1 DEF Matches
<1>9. /\ Len(L) = Len(events) + 1 /\ Len(events) \in Nat /\ L[Len(L)].stack = <<>>
      /\ events \in Seq(Calls)
  BY <1>4, Complete
<1>10. k \in 1..Len(events) /\ k + 1 \in 1..Len(L) /\ k # 1 /\ k > 1 /\ k - 1 = Len(calls)
  <2>1. k # Len(L)
    BY <1>2, <1>7, <1>9
  <2> QED
    BY <1>4, <1>6, <1>9, <2>1
<1>11. /\ Wrote(events[k], L[k], L[k + 1]) /\ events[k] \in Calls
       /\ L[k + 1].stack \in Seq(Frame) /\ events[k][1] \in Due(L, k)
  <2>1. Wrote(events[k], L[k], L[k + 1]) /\ events[k][1] \in Due(L, k)
    BY <1>4, <1>10, Complete
  <2>2. L[k + 1].stack \in Seq(Frame)
    BY <1>4, <1>10, Complete
  <2>3. events[k] \in Calls
    BY <1>9, <1>10
  <2> QED
    BY <2>1, <2>2, <2>3
<1>12. /\ f.kind = "struct" => events[k][1] \in Pods \cup {"end"}
       /\ f.kind = "object" => events[k][1] \in {"property", "end"}
       /\ f.kind = "array" => events[k][1] \in {"element", "end"}
  <2>1. f.kind = "struct" => Due(L, k) = Pods \cup {"end"}
    BY <1>2, <1>7 DEF Due
  <2>2. f.kind = "array" => Due(L, k) = {"element", "end"}
    BY <1>2, <1>7 DEF Due
  <2>3. ASSUME f.kind = "object" PROVE Due(L, k) = {"property", "end"}
    <3>1. events[k - 1][1] # "property"
      BY <1>5, <1>8, <1>10, <2>3
    <3> QED
      BY <1>2, <1>7, <2>3, <3>1 DEF Due
  <2> QED
    BY <1>11, <2>1, <2>2, <2>3
<1>13. ASSUME events[k][1] # "end" PROVE \A i \in 1..n : ~Ends(L, k, i)
  BY <1>13 DEF Ends
<1>14. ASSUME f.kind # "array"
       PROVE  /\ scopes[n].remaining + input = EndAt(f)
              /\ scopes[n].remaining = 0 <=> events[k][1] = "end"
  <2>1. EndOf(n) = EndAt(f) /\ EndOf(n) = scopes[n].remaining + input
    <3>1. EndOf(n) = EndAt(f)
      BY <1>1, <1>2, <1>3, <1>8, <1>14 DEF Matches
    <3> QED
      BY <3>1 DEF EndOf
  <2>2. PICK rest : rest = scopes[n].remaining
    OBVIOUS
  <2>3. rest \in Nat
    BY <1>4, <1>6, <2>2 DEF Scope
  <2>4. PICK e : e = EndAt(f)
    OBVIOUS
  <2>5. /\ e \in Nat
        /\ IF Ends(L, k, n) THEN L[k].at = e ELSE L[k + 1].at <= e
    <3>1. n \in 1..Len(L[k].stack) /\ f = L[k].stack[n]
      BY <1>2, <1>3, <1>5, <1>6
    <3> HIDE DEF n
    <3> QED
      BY <1>4, <1>10, <2>4, <3>1, ClosedFacts
  <2>6. rest + input = e
    BY <2>1, <2>2, <2>4
  <2>7. ASSUME events[k][1] = "end" PROVE rest = 0
    <3>1. Ends(L, k, n)
      BY <1>2, <1>5, <2>7 DEF Ends
    <3>2. input = e
      BY <1>4, <2>5, <3>1
    <3> QED
      BY <1>4, <2>3, <2>6, <3>2
  <2>8. ASSUME events[k][1] # "end" PROVE rest # 0
    <3>1. ~Ends(L, k, n)
      BY <2>8 DEF Ends
    <3>2. PICK a : a = L[k + 1].at
      OBVIOUS
    <3>3. a <= e /\ a \in Nat
      BY <1>4, <1>10, <2>5, <3>1, <3>2, Complete
    <3>4. f.kind \in {"struct", "object"}
      BY <1>7, <1>14 DEF Frame
    <3>5. events[k][1] \in Pods \cup {"property"}
      BY <1>12, <2>8, <3>4
    <3>6. input < a
      BY <1>4, <1>10, <3>2, <3>5, Progress
    <3> QED
      BY <1>4, <2>3, <2>6, <3>3, <3>6
  <2> QED
    BY <2>1, <2>2, <2>7, <2>8
<1> QED
  BY <1>1, <1>2, <1>3, <1>4, <1>5, <1>6, <1>7, <1>8, <1>10, <1>11, <1>12, <1>13, <1>14, Zenon

\* The innermost deserializer is handed on to what is inside it.
LEMMA Suspended ==
  ASSUME NEW L, Busy(L), UNCHANGED <<vars, total>>, stage = "scope",
         scopes[Len(scopes)].held, scopes[Len(scopes)].kind # "array",
         scopes[Len(scopes)].remaining # 0,
         scopes' = [scopes EXCEPT ![Len(scopes)].mark = input,
                                  ![Len(scopes)].held = FALSE],
         Here' \in 1..Len(L), input' = L[Here'].at,
         Len(L[Here'].stack) = Len(scopes),
         \A i \in 1..Len(scopes) : Same(L[Here].stack[i], L[Here'].stack[i])
  PROVE  /\ scopes' \in Seq(Scope) /\ Len(scopes') = Len(scopes) /\ scopes' # <<>>
         /\ ~scopes'[Len(scopes)].held
         /\ Tracks(L)'
<1>1. PICK n : n = Len(scopes)
  OBVIOUS
<1>2. PICK own : own = scopes[n]
  OBVIOUS
<1>3. /\ n \in Nat /\ n \in 1..n /\ own.kind # "array" /\ own.remaining # 0 /\ own.held
      /\ L[Here].stack[n].kind = own.kind /\ n = Len(L[Here].stack)
      /\ own.remaining + input = EndAt(L[Here].stack[n])
  BY <1>1, <1>2, ScopeHere, Zenon
<1>4. /\ scopes \in Seq(Scope) /\ own \in Scope /\ input \in Nat
      /\ \A i \in 1..n - 1 : ~scopes[i].held
  BY <1>1, <1>2, <1>3, Where
<1>5. PICK g : g = [own EXCEPT !.mark = input, !.held = FALSE]
  OBVIOUS
<1>6. /\ g \in Scope /\ g.kind = own.kind /\ g.held = FALSE /\ g.mark = input
      /\ g.remaining = own.remaining
  BY <1>4, <1>5 DEF Scope
<1>7. scopes' = [scopes EXCEPT ![n] = g]
  BY <1>1, <1>2, <1>3, <1>4, <1>5
<1>8. /\ scopes' \in Seq(Scope) /\ Len(scopes') = n
      /\ \A i \in 1..n : scopes'[i] = IF i = n THEN g ELSE scopes[i]
  <2>1. /\ scopes' \in Seq(Scope) /\ Len(scopes') = Len(scopes)
        /\ \A i \in 1..Len(scopes) : scopes'[i] = IF i = n THEN g ELSE scopes[i]
    <3>1. n \in 1..Len(scopes)
      BY <1>1, <1>3
    <3> QED
      BY <1>4, <1>6, <1>7, <3>1, ExceptSeq, SMTT(20)
  <2> QED
    BY <1>1, <2>1
<1>9. scopes' # <<>>
  BY <1>3, <1>8, EmptySeq
<1>10. ASSUME NEW i \in 1..n, i < n PROVE Matches(L, i)' /\ ~scopes'[i].held
  <2>1. i \in 1..Len(scopes) /\ i \in 1..n - 1 /\ i \in 1..Len(L[Here'].stack)
    BY <1>1, <1>3, <1>10
  <2>2. scopes'[i] = scopes[i] /\ ~scopes[i].held
    BY <1>4, <1>8, <1>10, <2>1
  <2>3. Same(L[Here].stack[i], L[Here'].stack[i])
    BY <2>1
  <2> QED
    BY <2>1, <2>2, <2>3, Waits
<1>11. PICK m : m = Here'
  OBVIOUS
<1>12. PICK f : f = L[m].stack[n]
  OBVIOUS
<1>13. headers' = headers
  BY Unmoved
<1>14. Matches(L, n)'
  <2>1. Same(L[Here].stack[n], f)
    BY <1>1, <1>3, <1>11, <1>12
  <2>2. EndAt(L[Here].stack[n]) = f.at + 8 + headers'[f.at].size
    BY <1>13, <2>1 DEF EndAt, Same
  <2>3. EndOf(n)' = g.remaining + g.mark
    BY <1>3, <1>6, <1>8 DEF EndOf
  <2>4. EndOf(n)' = f.at + 8 + headers'[f.at].size
    BY <1>3, <1>6, <2>2, <2>3
  <2>5. scopes'[n].kind = f.kind /\ f.kind # "array" /\ scopes'[n].remaining # 0
    BY <1>3, <1>6, <1>8, <2>1 DEF Same
  <2>6. f = L[Here'].stack[n]
    BY <1>11, <1>12
  <2> QED
    BY <2>4, <2>5, <2>6 DEF Matches, EndAt
<1>15. \A i \in 1..Len(scopes') : Matches(L, i)'
  <2>1. \A i \in 1..Len(scopes') : i \in 1..n /\ (i < n \/ i = n)
    BY <1>3, <1>8
  <2> QED
    BY <1>10, <1>14, <2>1
<1>16. \A i \in 1..Len(scopes') - 1 : ~scopes'[i].held
  <2>1. \A i \in 1..Len(scopes') - 1 : i \in 1..n /\ i < n
    BY <1>3, <1>8
  <2> QED
    BY <1>10, <2>1
<1>17. Len(scopes') <= Len(L[Here'].stack)
  BY <1>1, <1>3, <1>8
<1>18. Tracks(L)'
  BY <1>15, <1>16, <1>17 DEF Tracks
<1> QED
  BY <1>1, <1>3, <1>6, <1>8, <1>9, <1>18

LEMMA ReadsField ==
  ASSUME NEW L, Busy(L), UNCHANGED <<vars, total>>, Reader!DeserializeField
  PROVE  Reading(L)' /\ ReaderShape'
<1> DEFINE n == Len(scopes)
<1>1. /\ stage = "scope" /\ scopes[n].kind = "struct" /\ scopes[n].remaining # 0
      /\ scopes[n].held
      /\ scopes' = [scopes EXCEPT ![n].mark = input, ![n].held = FALSE]
      /\ stage' = "value" /\ UNCHANGED <<typed, panic, input, calls>>
  BY DEF Reader!DeserializeField, Reader!GoesOn, Reader!Top, Reader!Depth
<1>2. /\ L[Here].stack[n].kind = "struct" /\ n = Len(L[Here].stack)
      /\ events[Here][1] \in Pods \cup {"end"}
      /\ Here \in 1..Len(events)
      /\ scopes[n].remaining = 0 <=> events[Here][1] = "end"
  BY <1>1, ScopeHere
<1>3. Here' = Here /\ events' = events
  BY <1>1, Unmoved DEF Here
<1>4. /\ Here \in 1..Len(L) /\ input = L[Here].at
  BY Where
<1>5. \A i \in 1..Len(scopes) : Same(L[Here].stack[i], L[Here'].stack[i])
  BY <1>3 DEF Same
<1>6. /\ scopes' \in Seq(Scope) /\ Len(scopes') = n /\ scopes' # <<>>
      /\ ~scopes'[n].held /\ Tracks(L)'
  BY <1>1, <1>2, <1>3, <1>4, <1>5, Suspended
<1>7. ReaderShape /\ Reading(L)
  BY DEF Busy
<1>8. total' = total /\ length' = length /\ turn' = turn
  BY Unmoved
<1>9. ReaderShape'
  BY <1>1, <1>6, <1>7, <1>8 DEF ReaderShape
<1>10. Here' <= Len(events') /\ events'[Here'][1] \in Pods /\ Len(scopes') = Len(L[Here'].stack)
  BY <1>1, <1>2, <1>3, <1>6
<1>11. AtValue(L)'
  BY <1>6, <1>10 DEF AtValue
<1>12. Reading(L)'
  <2>1. stage' \notin {"scope", "error", "panicked", "done"}
    BY <1>1
  <2>2. /\ turn' = "done" /\ total' <= length' /\ input' <= total'
        /\ Here' <= Len(L) /\ Echoes(calls', events')
    BY <1>1, <1>3, <1>7, <1>8 DEF Reading
  <2> QED
    BY <1>6, <1>11, <2>1, <2>2 DEF Reading
<1> QED
  BY <1>9, <1>12

LEMMA ReadsProperty ==
  ASSUME NEW L, Busy(L), UNCHANGED <<vars, total>>, Reader!DeserializeProperty
  PROVE  Reading(L)' /\ ReaderShape'
<1> DEFINE n == Len(scopes)
<1>1. /\ stage = "scope" /\ scopes[n].kind = "object" /\ scopes[n].remaining # 0
      /\ scopes[n].held
      /\ scopes' = [scopes EXCEPT ![n].mark = input, ![n].held = FALSE]
      /\ stage' = "value" /\ UNCHANGED <<typed, panic>>
      /\ ~(input + 8 > total) /\ input' = input + 8
      /\ calls' = Append(calls, <<"property", 8>>)
  BY DEF Reader!DeserializeProperty, Reader!GoesOn, Reader!Top, Reader!Depth,
         Reader!Consume, Reader!Cut, Reader!Record
<1>2. PICK k : k = Here
  OBVIOUS
<1>3. /\ L[k].stack[n].kind = "object" /\ n = Len(L[k].stack)
      /\ events[k][1] \in {"property", "end"}
      /\ k \in 1..Len(events) /\ k + 1 \in 1..Len(L)
      /\ scopes[n].remaining = 0 <=> events[k][1] = "end"
      /\ Wrote(events[k], L[k], L[k + 1]) /\ events[k] \in Calls
      /\ L[k + 1].stack \in Seq(Frame) /\ n \in 1..n /\ n \in Nat
  BY <1>1, <1>2, ScopeHere
<1>4. events[k][1] = "property"
  BY <1>1, <1>3
<1>5. WroteProperty(events[k], L[k], L[k + 1])
  BY <1>3, <1>4 DEF Wrote
<1>6. /\ Len(L[k + 1].stack) = n /\ L[k + 1].at = L[k].at + 8 /\ events[k][2] = 8
      /\ \A i \in 1..n : Same(L[k].stack[i], L[k + 1].stack[i])
  BY <1>3, <1>5 DEF WroteProperty, Below
<1>7. events[k] = <<"property", 8>>
  BY <1>3, <1>4, <1>6 DEF Calls
<1>8. input = L[k].at /\ total \in Nat /\ input \in Nat /\ IInv /\ Log(L) /\ turn = "done"
  BY <1>2, Where, Zenon DEF Busy
<1>9. /\ input' = L[Here + 1].at /\ input' <= total /\ Here <= Len(events)
      /\ calls' = Append(calls, Seen(events[Here]))
  BY <1>1, <1>2, <1>3, <1>6, <1>7, <1>8 DEF Seen
<1>10. /\ turn' = "done" /\ total' <= length' /\ input' <= total' /\ Here' <= Len(L)
       /\ Echoes(calls', events') /\ calls' \in Seq(Calls)
       /\ Here' = k + 1 /\ input' = L[Here'].at /\ input' \in Nat /\ total' \in Nat
  BY <1>2, <1>9, Recorded
<1>11. events' = events
  BY Unmoved
<1>12. /\ scopes' \in Seq(Scope) /\ Len(scopes') = n /\ scopes' # <<>>
       /\ ~scopes'[n].held /\ Tracks(L)'
  <2>1. /\ Here' \in 1..Len(L) /\ Len(L[Here'].stack) = Len(scopes)
        /\ \A i \in 1..Len(scopes) : Same(L[Here].stack[i], L[Here'].stack[i])
    BY <1>2, <1>3, <1>6, <1>10
  <2> QED
    BY <1>1, <1>10, <2>1, Suspended
<1>13. ReaderShape'
  <2>1. typed \in BOOLEAN /\ panic \in Panics
    BY DEF Busy, ReaderShape
  <2> QED
    BY <1>1, <1>10, <1>12, <2>1 DEF ReaderShape
<1>14. PICK m : m = k + 1
  OBVIOUS
<1>15. PICK s : s = L[m].stack
  OBVIOUS
<1>16. /\ s # <<>> /\ m > 1 /\ m - 1 = k /\ Last(s).kind = "object"
  <2>1. Len(s) = n /\ s \in Seq(Frame) /\ Len(s) # 0
    BY <1>3, <1>6, <1>14, <1>15
  <2>2. Same(L[k].stack[n], s[n])
    BY <1>3, <1>6, <1>14, <1>15
  <2> QED
    BY <1>3, <1>14, <2>1, <2>2, EmptySeq DEF Last, Same
<1>17. m \in 1..Len(events)
  <2>1. Len(L) = Len(events) + 1 /\ L[Len(L)].stack = <<>> /\ Len(events) \in Nat
    BY <1>8, Complete
  <2>2. m # Len(L)
    BY <1>15, <1>16, <2>1
  <2> QED
    BY <1>3, <1>14, <2>1, <2>2
<1>18. events[m][1] \in Pods
  <2>1. events[m][1] \in Due(L, m)
    BY <1>8, <1>17, Complete
  <2>2. Due(L, m) = Pods
    BY <1>4, <1>15, <1>16 DEF Due
  <2> QED
    BY <2>1, <2>2
<1>19. Here' <= Len(events') /\ events'[Here'][1] \in Pods /\ Len(scopes') = Len(L[Here'].stack)
  BY <1>6, <1>10, <1>11, <1>12, <1>14, <1>17, <1>18
<1>20. AtValue(L)'
  BY <1>12, <1>19 DEF AtValue
<1>21. Reading(L)'
  <2>1. stage' \notin {"scope", "error", "panicked", "done"}
    BY <1>1
  <2> QED
    BY <1>10, <1>12, <1>20, <2>1 DEF Reading
<1> QED
  BY <1>13, <1>21

------------------------------------------------------------------------------
(* Ends *)

\* The innermost scope is an array.
LEMMA ArrayHere ==
  ASSUME NEW L, Busy(L), stage = "scope", scopes # <<>>, scopes[Len(scopes)].kind = "array"
  PROVE  LET own == scopes[Len(scopes)]
         IN  /\ own.held /\ own.read \in Nat /\ own.length \in Nat /\ own.elem \in Nat
             /\ own.read = L[Here].stack[Len(scopes)].written
             /\ own.elem = L[Here].stack[Len(scopes)].elem
             /\ own.length = L[Here].stack[Len(scopes)].length
             /\ own.read <= own.length
             /\ own.read < own.length => /\ events[Here] = <<"element", own.elem>>
                                         /\ L[Here + 1].at = input + own.elem
             /\ own.read = own.length => /\ events[Here] = <<"end", 0>>
                                         /\ L[Here + 1].at = input + Padding(own.read * own.elem)
<1>1. PICK n : n = Len(scopes)
  OBVIOUS
<1>2. PICK own : own = scopes[n]
  OBVIOUS
<1>3. n \in 1..Len(scopes) /\ n \in Nat
  <2>1. scopes \in Seq(Scope)
    BY Where
  <2> QED
    BY <1>1, <2>1, EmptySeq
<1>4. own \in Scope /\ Matches(L, n) /\ input = L[Here].at
  BY <1>2, <1>3, Where
<1>5. PICK k : k = Here
  OBVIOUS
<1>6. PICK f : f = L[k].stack[n]
  OBVIOUS
<1>7. /\ own.kind = f.kind /\ own.kind = "array" /\ own.held
      /\ own.length = f.length /\ own.elem = f.elem /\ own.read = f.written
  BY <1>1, <1>2, <1>4, <1>5, <1>6 DEF Matches
<1>8. own.read \in Nat /\ own.length \in Nat /\ own.elem \in Nat
  BY <1>4 DEF Scope
<1>9. scopes[Len(scopes)].held
  BY <1>1, <1>2, <1>7
<1>10. /\ n = Len(L[k].stack) /\ k \in 1..Len(events) /\ Last(L[k].stack) = f
       /\ events[k][1] \in {"element", "end"} /\ events[k] \in Calls
       /\ Wrote(events[k], L[k], L[k + 1])
       /\ n \in 1..Len(L[k].stack)
  BY <1>1, <1>3, <1>5, <1>6, <1>7, <1>9, ScopeHere
<1>11. Closed(L, k, n)
  <2>1. IInv /\ Log(L) /\ turn = "done"
    BY DEF Busy, Reading
  <2> QED
    BY <1>10, <2>1, Complete
<1>12. Added(L, k, n) <= f.length /\ (Ends(L, k, n) => f.written = f.length)
  BY <1>6, <1>7, <1>11 DEF Closed
<1>13. events[k] = <<events[k][1], events[k][2]>>
  BY <1>10 DEF Calls
<1>14. ASSUME events[k][1] = "element"
       PROVE  /\ own.read < own.length /\ events[k] = <<"element", own.elem>>
              /\ L[k + 1].at = input + own.elem
  <2>1. WroteElement(events[k], L[k], L[k + 1])
    BY <1>10, <1>14 DEF Wrote
  <2>2. events[k][2] = f.elem /\ L[k + 1].at = L[k].at + events[k][2]
    BY <1>10, <2>1 DEF WroteElement
  <2>3. Added(L, k, n) = f.written + 1
    BY <1>6, <1>10, <1>14 DEF Added
  <2>4. own.read < own.length
    BY <1>7, <1>8, <1>12, <2>3
  <2>5. events[k] = <<"element", own.elem>>
    BY <1>7, <1>13, <1>14, <2>2
  <2> QED
    BY <1>4, <1>5, <1>7, <2>2, <2>4, <2>5
<1>15. ASSUME events[k][1] = "end"
       PROVE  /\ own.read = own.length /\ events[k] = <<"end", 0>>
              /\ L[k + 1].at = input + Padding(own.read * own.elem)
  <2>1. WroteEnd(events[k], L[k], L[k + 1])
    BY <1>10, <1>15 DEF Wrote
  <2>2. events[k][2] = 0 /\ L[k + 1].at = L[k].at + Padding(f.written * f.elem)
    BY <1>7, <1>10, <2>1 DEF WroteEnd
  <2>3. Ends(L, k, n)
    BY <1>10, <1>15 DEF Ends
  <2>4. own.read = own.length
    BY <1>7, <1>12, <2>3
  <2>5. events[k] = <<"end", 0>>
    BY <1>13, <1>15, <2>2
  <2> QED
    BY <1>4, <1>5, <1>7, <2>2, <2>4, <2>5
<1>16. own.read < own.length => events[k][1] = "element"
  BY <1>8, <1>10, <1>15
<1>17. own.read = own.length => events[k][1] = "end"
  BY <1>8, <1>10, <1>14
<1>18. own.read <= own.length
  BY <1>8, <1>10, <1>14, <1>15
<1> QED
  BY <1>1, <1>2, <1>5, <1>6, <1>7, <1>8, <1>14, <1>15, <1>16, <1>17, <1>18, Zenon

\* The innermost deserializer is at its end and goes; the one around it gets on.
LEMMA ClosedHere ==
  ASSUME NEW L, Busy(L), UNCHANGED <<vars, total>>, stage = "scope", scopes # <<>>,
         scopes[Len(scopes)].held, events[Here] = <<"end", 0>>,
         input' = L[Here + 1].at, input' <= total,
         Reader!Finish(SubSeq(scopes, 1, Len(scopes) - 1)),
         calls' = Append(calls, <<"end", 0>>)
  PROVE  Reading(L)' /\ ReaderShape'
<1>1. PICK n : n = Len(scopes)
  OBVIOUS
<1>2. PICK outer : outer = SubSeq(scopes, 1, n - 1)
  OBVIOUS
<1>3. /\ n \in Nat /\ n \in 1..n /\ n = Len(L[Here].stack)
      /\ Here \in 1..Len(events) /\ Wrote(events[Here], L[Here], L[Here + 1])
      /\ L[Here + 1].stack \in Seq(Frame)
  BY <1>1, ScopeHere, Zenon
<1>4. scopes \in Seq(Scope) /\ \A i \in 1..n - 1 : ~scopes[i].held
  BY <1>1, Where
<1>5. /\ outer \in Seq(Scope) /\ Len(outer) = n - 1
      /\ \A i \in 1..Len(outer) : outer[i] = scopes[i]
  <2>1. Len(scopes) \in Nat \ {0}
    BY <1>1, <1>3
  <2> QED
    BY <1>1, <1>2, <1>4, <2>1, FrontOfSeq
<1>6. events[Here][1] = "end"
  OBVIOUS
<1>7. WroteEnd(events[Here], L[Here], L[Here + 1])
  BY <1>3, <1>6 DEF Wrote
<1>8. /\ Len(L[Here + 1].stack) = n - 1
      /\ \A i \in 1..n - 1 : Same(L[Here].stack[i], L[Here + 1].stack[i])
  BY <1>3, <1>7 DEF WroteEnd, Below, Same
<1>9. \A i \in 1..n - 1 : ~Ends(L, Here, i)
  BY <1>3 DEF Ends
<1>10. /\ Len(outer) <= Len(scopes) /\ Len(L[Here + 1].stack) = Len(outer)
       /\ \A i \in 1..Len(outer) :
            /\ outer[i] = scopes[i] /\ ~scopes[i].held /\ ~Ends(L, Here, i)
            /\ Same(L[Here].stack[i], L[Here + 1].stack[i])
  <2>1. Len(outer) <= Len(scopes) /\ Len(L[Here + 1].stack) = Len(outer)
    BY <1>1, <1>3, <1>5, <1>8, SMTT(30)
  <2>2. 1..Len(outer) = 1..n - 1
    BY <1>5
  <2> QED
    BY <1>4, <1>5, <1>8, <1>9, <2>1, <2>2, Zenon
<1>11. Reader!Finish(outer) /\ Here <= Len(events) /\ events[Here][1] # "property"
  BY <1>1, <1>2, <1>3, <1>6
<1>12. calls' = Append(calls, Seen(events[Here]))
  BY DEF Seen
<1> QED
  BY <1>5, <1>10, <1>11, <1>12, HandedBack

LEMMA ReadsEnd ==
  ASSUME NEW L, Busy(L), UNCHANGED <<vars, total>>, Reader!End
  PROVE  Reading(L)' /\ ReaderShape'
<1> DEFINE n == Len(scopes)
<1>1. /\ stage = "scope" /\ scopes[n].kind \in {"struct", "object"} /\ scopes[n].remaining = 0
      /\ input' = input /\ Reader!Finish(SubSeq(scopes, 1, n - 1))
      /\ calls' = Append(calls, <<"end", 0>>)
  BY DEF Reader!End, Reader!InVisitor, Reader!Top, Reader!Depth, Reader!Outer, Reader!Record
<1>2. scopes # <<>>
  BY <1>1 DEF Busy, Reading, AtScope
<1>3. n \in 1..n
  <2>1. scopes \in Seq(Scope)
    BY Where
  <2> QED
    BY <1>2, <2>1, EmptySeq
<1>4. scopes[n].held
  <2>1. Matches(L, n)
    BY <1>3, Where
  <2> QED
    BY <1>1, <2>1 DEF Matches
<1>5. PICK k : k = Here
  OBVIOUS
<1>6. PICK f : f = L[k].stack[n]
  OBVIOUS
<1>7. /\ f.kind = scopes[n].kind /\ Last(L[k].stack) = f /\ events[k] \in Calls
      /\ Wrote(events[k], L[k], L[k + 1])
      /\ f.kind # "array" => (scopes[n].remaining = 0 <=> events[k][1] = "end")
  BY <1>1, <1>4, <1>5, <1>6, ScopeHere, Zenon
<1>8. events[k][1] = "end"
  BY <1>1, <1>7
<1>9. WroteEnd(events[k], L[k], L[k + 1])
  BY <1>7, <1>8 DEF Wrote
<1>10. events[k][2] = 0 /\ L[k + 1].at = L[k].at + 0
  BY <1>1, <1>7, <1>9 DEF WroteEnd
<1>11. events[k] = <<"end", 0>>
  BY <1>7, <1>8, <1>10 DEF Calls
<1>12. input = L[k].at /\ input \in Nat /\ input <= total
  BY <1>5, Where
<1>13. input' = L[Here + 1].at /\ input' <= total
  BY <1>1, <1>5, <1>10, <1>12
<1> QED
  BY <1>1, <1>2, <1>4, <1>5, <1>11, <1>13, ClosedHere

LEMMA ReadsArrayEnd ==
  ASSUME NEW L, Busy(L), UNCHANGED <<vars, total>>, Reader!ArrayEnd
  PROVE  Reading(L)' /\ ReaderShape'
<1> DEFINE n == Len(scopes)
<1>1. PICK p : p = Padding(scopes[n].read * scopes[n].elem)
  OBVIOUS
<1>2. /\ stage = "scope" /\ scopes[n].kind = "array" /\ scopes[n].read = scopes[n].length
      /\ ~(input + p > total) /\ input' = input + p
      /\ Reader!Finish(SubSeq(scopes, 1, n - 1))
      /\ calls' = Append(calls, <<"end", 0>>)
  BY <1>1 DEF Reader!ArrayEnd, Reader!Top, Reader!Depth, Reader!Outer, Reader!Record,
              Reader!Consume, Reader!Cut, Reader!calc_padding_needed, Padding
<1>3. scopes # <<>>
  BY <1>2 DEF Busy, Reading, AtScope
<1>4. /\ scopes[n].held /\ events[Here] = <<"end", 0>>
      /\ L[Here + 1].at = input + p
      /\ scopes[n].read \in Nat /\ scopes[n].elem \in Nat
  BY <1>1, <1>2, <1>3, ArrayHere
<1>5. p \in Nat
  <2>1. PICK x : x = scopes[n].read * scopes[n].elem
    OBVIOUS
  <2>2. x \in Nat
    <3> HIDE DEF n
    <3> QED
      BY <1>4, <2>1, Products
  <2> QED
    BY <1>1, <2>1, <2>2, PodLength
<1>6. input' = L[Here + 1].at /\ input' <= total
  <2>1. input \in Nat /\ total \in Nat
    BY Where
  <2> QED
    BY <1>2, <1>4, <1>5, <2>1
<1> QED
  BY <1>2, <1>3, <1>4, <1>6, ClosedHere

LEMMA ReadsElement ==
  ASSUME NEW L, Busy(L), UNCHANGED <<vars, total>>, Reader!DeserializeElement
  PROVE  Reading(L)' /\ ReaderShape'
<1>1. PICK n : n = Len(scopes)
  OBVIOUS
<1>2. PICK own : own = scopes[n]
  OBVIOUS
<1>3. /\ stage = "scope" /\ own.kind = "array" /\ own.read < own.length
      /\ ~(input + own.elem > total) /\ input' = input + own.elem
      /\ scopes' = [scopes EXCEPT ![n].read = @ + 1]
      /\ calls' = Append(calls, <<"element", own.elem>>)
      /\ UNCHANGED <<stage, typed, panic>>
  BY <1>1, <1>2 DEF Reader!DeserializeElement, Reader!Top, Reader!Depth, Reader!Record,
                    Reader!Consume, Reader!Cut
<1>4. scopes # <<>>
  BY <1>3 DEF Busy, Reading, AtScope
<1>5. PICK k : k = Here
  OBVIOUS
<1>6. PICK f : f = L[k].stack[n]
  OBVIOUS
<1>7. /\ own.held /\ own.read \in Nat /\ own.length \in Nat /\ own.elem \in Nat
      /\ own.read = f.written /\ own.elem = f.elem /\ own.length = f.length
      /\ events[k] = <<"element", own.elem>>
      /\ L[k + 1].at = input + own.elem
  BY <1>1, <1>2, <1>3, <1>4, <1>5, <1>6, ArrayHere, Zenon
<1>8. scopes[Len(scopes)].held
  BY <1>1, <1>2, <1>7
<1>9. /\ n \in Nat /\ n \in 1..n /\ n = Len(L[k].stack) /\ Last(L[k].stack) = f
      /\ k \in 1..Len(events) /\ k + 1 \in 1..Len(L)
      /\ own.kind = f.kind
      /\ Wrote(events[k], L[k], L[k + 1]) /\ L[k + 1].stack \in Seq(Frame)
      /\ \A i \in 1..n : ~Ends(L, k, i)
  <2>1. events[k][1] # "end"
    BY <1>7
  <2> QED
    BY <1>1, <1>2, <1>3, <1>5, <1>6, <1>8, <2>1, ScopeHere, Zenon
<1>10. WroteElement(events[k], L[k], L[k + 1])
  BY <1>7, <1>9 DEF Wrote
<1>11. PICK g : g = L[k + 1].stack[n]
  OBVIOUS
<1>12. /\ Len(L[k + 1].stack) = n /\ g.written = f.written + 1
       /\ \A i \in 1..n : Same(L[k].stack[i], L[k + 1].stack[i])
  BY <1>9, <1>10, <1>11 DEF WroteElement, Below, Last
<1>13. Same(f, g)
  BY <1>6, <1>9, <1>11, <1>12
<1>14. /\ input \in Nat /\ total \in Nat /\ scopes \in Seq(Scope) /\ own \in Scope
       /\ \A i \in 1..n - 1 : ~scopes[i].held
  BY <1>1, <1>2, <1>9, Where
<1>15. /\ input' = L[Here + 1].at /\ input' <= total /\ Here <= Len(events)
       /\ calls' = Append(calls, Seen(events[Here]))
  <2>1. Seen(events[k]) = <<"element", own.elem>>
    BY <1>7 DEF Seen
  <2>2. calls' = Append(calls, Seen(events[Here]))
    BY <1>3, <1>5, <2>1
  <2>3. input + own.elem = L[Here + 1].at /\ input + own.elem <= total
    BY <1>3, <1>5, <1>7, <1>14
  <2>4. Here <= Len(events)
    BY <1>5, <1>9
  <2> QED
    BY <1>3, <2>2, <2>3, <2>4
<1>16. /\ turn' = "done" /\ total' <= length' /\ input' <= total' /\ Here' <= Len(L)
       /\ Echoes(calls', events') /\ calls' \in Seq(Calls) /\ calls' # <<>>
       /\ Here' = k + 1 /\ input' = L[Here'].at /\ input' \in Nat /\ total' \in Nat
  BY <1>5, <1>15, Recorded
<1>17. PICK r : r = [own EXCEPT !.read = own.read + 1]
  OBVIOUS
<1>18. /\ r \in Scope /\ r.kind = "array" /\ r.held = own.held
       /\ r.length = own.length /\ r.elem = own.elem /\ r.read = own.read + 1
  <2>1. PICK x : x = own.read + 1
    OBVIOUS
  <2>2. x \in Nat
    BY <1>7, <2>1
  <2>3. r = [own EXCEPT !.read = x] /\ own \in Scope
    BY <1>14, <1>17, <2>1
  <2>4. r \in Scope /\ r.kind = own.kind /\ r.held = own.held
        /\ r.length = own.length /\ r.elem = own.elem /\ r.read = x
    BY <2>2, <2>3 DEF Scope
  <2> QED
    BY <1>3, <2>1, <2>4
<1>19. scopes' = [scopes EXCEPT ![n] = r]
  BY <1>2, <1>3, <1>17
<1>20. /\ scopes' \in Seq(Scope) /\ Len(scopes') = n
       /\ \A i \in 1..n : scopes'[i] = IF i = n THEN r ELSE scopes[i]
  <2>1. /\ scopes' \in Seq(Scope) /\ Len(scopes') = Len(scopes)
        /\ \A i \in 1..Len(scopes) : scopes'[i] = IF i = n THEN r ELSE scopes[i]
    <3>1. n \in 1..Len(scopes)
      BY <1>1, <1>9
    <3> QED
      BY <1>14, <1>18, <1>19, <3>1, ExceptSeq, SMTT(20)
  <2> QED
    BY <1>1, <2>1
<1>21. ReaderShape'
  <2>1. typed \in BOOLEAN /\ panic \in Panics
    BY DEF Busy, ReaderShape
  <2> QED
    BY <1>3, <1>16, <1>20, <2>1 DEF ReaderShape
<1>22. Here' \in 1..Len(L)
  BY <1>9, <1>16
<1>23. ASSUME NEW i \in 1..n, i < n PROVE Matches(L, i)' /\ ~scopes'[i].held
  <2>1. i \in 1..Len(scopes) /\ i \in 1..n - 1 /\ i \in 1..Len(L[Here'].stack)
    BY <1>1, <1>9, <1>12, <1>16, <1>23
  <2>2. scopes'[i] = scopes[i] /\ ~scopes[i].held
    BY <1>14, <1>20, <1>23, <2>1
  <2>3. Same(L[Here].stack[i], L[Here'].stack[i])
    BY <1>5, <1>12, <1>16
  <2> QED
    BY <1>22, <2>1, <2>2, <2>3, Waits
<1>24. Matches(L, n)'
  <2>1. g = L[Here'].stack[n] /\ scopes'[n] = r
    BY <1>9, <1>11, <1>16, <1>20
  <2>2. /\ r.kind = g.kind /\ g.kind = "array" /\ r.length = g.length /\ r.elem = g.elem
        /\ r.read = g.written /\ r.held
    BY <1>3, <1>7, <1>9, <1>12, <1>13, <1>18 DEF Same
  <2> QED
    BY <2>1, <2>2 DEF Matches
<1>25. \A i \in 1..Len(scopes') : Matches(L, i)'
  <2>1. \A i \in 1..Len(scopes') : i \in 1..n /\ (i < n \/ i = n)
    BY <1>9, <1>20
  <2> QED
    BY <1>23, <1>24, <2>1
<1>26. \A i \in 1..Len(scopes') - 1 : ~scopes'[i].held
  <2>1. \A i \in 1..Len(scopes') - 1 : i \in 1..n /\ i < n
    BY <1>9, <1>20
  <2> QED
    BY <1>23, <2>1
<1>27. Len(scopes') = Len(L[Here'].stack) /\ Len(scopes') <= Len(L[Here'].stack)
  BY <1>9, <1>12, <1>16, <1>20
<1>28. Tracks(L)'
  BY <1>16, <1>25, <1>26, <1>27 DEF Tracks
<1>29. AtScope(L)'
  <2>1. scopes' # <<>>
    BY <1>9, <1>20, EmptySeq
  <2>2. scopes'[Len(scopes')].held /\ scopes'[Len(scopes')].kind = "array"
    BY <1>7, <1>9, <1>18, <1>20
  <2> QED
    BY <1>16, <1>27, <2>1, <2>2 DEF AtScope
<1>30. Reading(L)'
  <2>1. stage' \notin {"value", "error", "panicked", "done"}
    BY <1>3
  <2> QED
    BY <1>16, <1>28, <1>29, <2>1 DEF Reading
<1> QED
  BY <1>21, <1>30

\* An error goes back to a visitor, or out.
LEMMA Failing ==
  ASSUME NEW L, Busy(L), UNCHANGED <<vars, total>>, Excused,
         NEW outer \in Seq(Scope), Len(outer) <= Len(scopes),
         \A i \in 1..Len(outer) : outer[i] = scopes[i] /\ ~scopes[i].held,
         Reader!Fail(outer)
  PROVE  Reading(L)' /\ ReaderShape'
<1>1. /\ scopes' = outer /\ stage' = IF outer = <<>> THEN "error" ELSE "scope"
      /\ UNCHANGED <<input, typed, calls, panic>>
  BY DEF Reader!Fail
<1>2. /\ turn' = turn /\ length' = length /\ headers' = headers /\ events' = events
      /\ total' = total
  BY Unmoved
<1>3. ReaderShape /\ Reading(L) /\ Here' = Here
  BY <1>1 DEF Busy, Here
<1>4. ReaderShape'
  BY <1>1, <1>2, <1>3 DEF ReaderShape
<1>5. Excused'
  BY <1>1, <1>2 DEF Excused
<1>6. /\ turn' = "done" /\ total' <= length' /\ input' <= total'
      /\ Here' <= Len(L) /\ Echoes(calls', events')
  BY <1>1, <1>2, <1>3 DEF Reading
<1>7. CASE outer = <<>>
  <2>1. stage' \notin {"value", "scope", "panicked", "done"}
    BY <1>1, <1>7
  <2> QED
    BY <1>4, <1>5, <1>6, <2>1 DEF Reading
<1>8. CASE outer # <<>>
  <2>1. Len(outer) \in 1..Len(outer) /\ Len(outer) \in Nat
    BY <1>8, EmptySeq
  <2>2. /\ Len(scopes) \in Nat /\ Len(scopes) <= Len(L[Here].stack)
        /\ Len(L[Here].stack) \in Nat /\ Here \in 1..Len(L) /\ input = L[Here].at
    BY Where
  <2>3. ASSUME NEW i \in 1..Len(outer) PROVE Matches(L, i)'
    <3>1. i \in 1..Len(scopes) /\ i \in 1..Len(L[Here'].stack)
      BY <1>3, <2>1, <2>2
    <3>2. scopes'[i] = scopes[i] /\ ~scopes[i].held
      BY <1>1
    <3>3. Same(L[Here].stack[i], L[Here'].stack[i]) /\ Here' \in 1..Len(L)
      BY <1>3, <2>2 DEF Same
    <3> QED
      BY <3>1, <3>2, <3>3, Waits
  <2>4. Len(scopes') <= Len(L[Here'].stack) /\ input' = L[Here'].at
    BY <1>1, <1>3, <2>1, <2>2
  <2>5. \A i \in 1..Len(scopes') - 1 : ~scopes'[i].held
    <3>1. \A i \in 1..Len(outer) - 1 : i \in 1..Len(outer)
      BY <2>1
    <3> QED
      BY <1>1, <3>1
  <2>6. Tracks(L)'
    BY <1>1, <2>3, <2>4, <2>5 DEF Tracks
  <2>7. scopes' # <<>> /\ ~scopes'[Len(scopes')].held
    BY <1>1, <1>8, <2>1
  <2>8. AtScope(L)'
    BY <1>5, <2>7 DEF AtScope
  <2>9. stage' \notin {"value", "error", "panicked", "done"}
    BY <1>1, <1>8
  <2> QED
    BY <1>4, <1>6, <2>6, <2>8, <2>9 DEF Reading
<1> QED
  BY <1>7, <1>8

------------------------------------------------------------------------------
(* Errors *)

\* Where the next pod or call ends, there is still input if nothing is cut off.
LEMMA NotCut ==
  ASSUME NEW L, Busy(L), Here \in 1..Len(events), NEW n \in Nat,
         L[Here + 1].at = input + n, Reader!Cut(n)
  PROVE  Excused
<1>1. /\ IInv /\ Log(L) /\ turn = "done" /\ pos = length /\ total \in Nat /\ input \in Nat
  BY Where, Zenon DEF Busy
<1>2. Len(L) = Len(events) + 1 /\ Len(events) \in Nat /\ pos \in Nat
  BY <1>1, Complete
<1>3. PICK k : k = Here + 1
  OBVIOUS
<1>4. k \in 1..Len(L)
  BY <1>2, <1>3
<1>5. L[k].at \in Nat /\ L[k].at <= pos
  BY <1>1, <1>4, Complete
<1>6. input + n <= length /\ input + n > total
  BY <1>1, <1>3, <1>5 DEF Reader!Cut
<1> QED
  BY <1>1, <1>2, <1>6 DEF Excused

\* The deserializers around the innermost one are all lent.
LEMMA OuterLent ==
  ASSUME NEW L, Busy(L), stage = "scope"
  PROVE  LET outer == Reader!Outer
         IN  /\ outer \in Seq(Scope) /\ Len(outer) <= Len(scopes)
             /\ \A i \in 1..Len(outer) : outer[i] = scopes[i] /\ ~scopes[i].held
<1> DEFINE outer == SubSeq(scopes, 1, Len(scopes) - 1)
<1>1. scopes # <<>>
  BY DEF Busy, Reading, AtScope
<1>2. /\ scopes \in Seq(Scope) /\ Len(scopes) \in Nat
      /\ \A i \in 1..Len(scopes) - 1 : ~scopes[i].held
  BY Where
<1>3. Len(scopes) \in Nat \ {0}
  BY <1>1, <1>2, EmptySeq
<1>4. /\ outer \in Seq(Scope) /\ Len(outer) = Len(scopes) - 1
      /\ \A i \in 1..Len(outer) : outer[i] = scopes[i]
  BY <1>2, <1>3, FrontOfSeq
<1>5. Reader!Outer = outer
  BY DEF Reader!Outer, Reader!Depth
<1> HIDE DEF outer
<1> QED
  BY <1>2, <1>3, <1>4, <1>5

LEMMA FailsOutside ==
  ASSUME NEW L, Busy(L), UNCHANGED <<vars, total>>, Excused, stage = "scope",
         Reader!Fail(Reader!Outer)
  PROVE  Reading(L)' /\ ReaderShape'
<1>1. PICK outer : outer = Reader!Outer
  OBVIOUS
<1>2. /\ outer \in Seq(Scope) /\ Len(outer) <= Len(scopes)
      /\ \A i \in 1..Len(outer) : outer[i] = scopes[i] /\ ~scopes[i].held
  BY <1>1, OuterLent
<1>3. Reader!Fail(outer)
  BY <1>1 DEF Reader!Fail
<1> QED
  BY <1>2, <1>3, Failing

LEMMA FailsHere ==
  ASSUME NEW L, Busy(L), UNCHANGED <<vars, total>>, Excused, stage = "value",
         Reader!Fail(scopes)
  PROVE  Reading(L)' /\ ReaderShape'
<1>1. PICK outer : outer = scopes
  OBVIOUS
<1>2. /\ outer \in Seq(Scope) /\ Len(outer) <= Len(scopes)
      /\ \A i \in 1..Len(outer) : outer[i] = scopes[i] /\ ~scopes[i].held
  BY <1>1, Where, TypeHere
<1>3. Reader!Fail(outer)
  BY <1>1 DEF Reader!Fail
<1> QED
  BY <1>2, <1>3, Failing

\* Only what is cut off is rejected.
LEMMA Rejects ==
  ASSUME NEW L, Busy(L), UNCHANGED <<vars, total>>, Reader!Reject
  PROVE  Reading(L)' /\ ReaderShape'
<1> DEFINE n == Len(scopes)
<1>1. CASE /\ stage = "value"
           /\ Reader!Kind = "invalid" \/ Reader!Cut(Reader!Bytes)
           /\ Reader!Fail(scopes)
  <2>1. /\ Here \in 1..Len(events) /\ events[Here][1] \in Pods
        /\ Reader!Kind = KindOf(events[Here]) /\ input \in Nat
    BY <1>1, TypeHere
  <2>0. Reader!Kind \in Single \cup Compound
    BY <2>1 DEF KindOf, Pods, Begun, Compound
  <2>2. Reader!Cut(Reader!Bytes)
    BY <1>1, <2>0 DEF Single, Compound
  <2>3. PICK bytes : bytes = Reader!Bytes
    OBVIOUS
  <2>4. bytes \in Nat /\ L[Here + 1].at = input + bytes
    <3>1. CASE Reader!Kind \in Single
      <4>1. events[Here][1] \in Single
        BY <2>1, <3>1 DEF KindOf, Single
      <4> QED
        BY <1>1, <2>3, <4>1, SingleRead
    <3>2. CASE Reader!Kind \in Compound
      <4>1. bytes = IF Reader!Kind = "struct" THEN 8 ELSE 16
        BY <2>3, <3>2 DEF Reader!Bytes, Compound
      <4>2. PICK f : f = L[Here + 1].stack[n + 1]
        OBVIOUS
      <4>0. events[Here][1] \in Begun
        BY <2>1, <3>2 DEF KindOf, Pods, Begun, Single, Compound
      <4>3. /\ f.kind = KindOf(events[Here])
            /\ L[Here + 1].at = input + IF f.kind = "struct" THEN 8 ELSE 16
        BY <1>1, <4>0, <4>2, OpenedHere, Zenon
      <4> QED
        BY <2>1, <4>1, <4>3
    <3> QED
      BY <2>0, <3>1, <3>2
  <2>5. Excused
    <3>1. Reader!Cut(bytes)
      BY <2>2, <2>3 DEF Reader!Cut
    <3> QED
      BY <2>1, <2>4, <3>1, NotCut
  <2> QED
    BY <1>1, <2>5, FailsHere
<1>2. CASE /\ stage = "scope" /\ Reader!Top.kind = "array"
           /\ Reader!Cut(IF Reader!Top.read < Reader!Top.length THEN Reader!Top.elem
                         ELSE Reader!calc_padding_needed(Reader!Top.read * Reader!Top.elem))
           /\ Reader!Fail(Reader!Outer)
  <2>1. PICK own : own = scopes[n]
    OBVIOUS
  <2>2. Reader!Top = own
    BY <2>1 DEF Reader!Top, Reader!Depth
  <2>3. scopes # <<>>
    BY <1>2 DEF Busy, Reading, AtScope
  <2>4. /\ own.held /\ own.read \in Nat /\ own.length \in Nat /\ own.elem \in Nat
        /\ own.read <= own.length
        /\ own.read < own.length => L[Here + 1].at = input + own.elem
        /\ own.read = own.length => L[Here + 1].at = input + Padding(own.read * own.elem)
    BY <1>2, <2>1, <2>2, <2>3, ArrayHere, Zenon
  <2>5. scopes[Len(scopes)].held
    BY <2>1, <2>4
  <2>6. Here \in 1..Len(events)
    BY <1>2, <2>5, ScopeHere
  <2>7. PICK p : p = Padding(own.read * own.elem)
    OBVIOUS
  <2>8. p \in Nat
    <3>1. PICK x : x = own.read * own.elem
      OBVIOUS
    <3>2. x \in Nat
      BY <2>4, <3>1, Products
    <3> QED
      BY <2>7, <3>1, <3>2, PodLength
  <2>9. PICK bytes : bytes = IF own.read < own.length THEN own.elem ELSE p
    OBVIOUS
  <2>10. bytes \in Nat /\ L[Here + 1].at = input + bytes
    <3>1. CASE own.read < own.length
      BY <2>4, <2>9, <3>1
    <3>2. CASE ~(own.read < own.length)
      <4>1. own.read = own.length
        BY <2>4, <3>2
      <4> QED
        BY <2>4, <2>7, <2>8, <2>9, <3>2, <4>1
    <3> QED
      BY <3>1, <3>2
  <2>11. Reader!Cut(bytes)
    BY <1>2, <2>2, <2>7, <2>9 DEF Reader!Cut, Reader!calc_padding_needed, Padding
  <2>12. Excused
    BY <2>6, <2>10, <2>11, NotCut
  <2> QED
    BY <1>2, <2>12, FailsOutside
<1>3. CASE /\ stage = "scope" /\ Reader!Top.kind = "object" /\ Reader!Top.remaining # 0
           /\ Reader!Top.held /\ Reader!Cut(8)
           /\ scopes' = [scopes EXCEPT ![Reader!Depth].mark = input,
                                       ![Reader!Depth].held = FALSE]
           /\ UNCHANGED <<input, stage, typed, calls, panic>>
  <2>1. /\ scopes[n].kind = "object" /\ scopes[n].remaining # 0 /\ scopes[n].held
        /\ scopes' = [scopes EXCEPT ![n].mark = input, ![n].held = FALSE]
    BY <1>3 DEF Reader!Top, Reader!Depth
  <2>2. PICK k : k = Here
    OBVIOUS
  <2>3. /\ L[k].stack[n].kind = "object" /\ n = Len(L[k].stack)
        /\ events[k][1] \in {"property", "end"} /\ k \in 1..Len(events)
        /\ scopes[n].remaining = 0 <=> events[k][1] = "end"
        /\ Wrote(events[k], L[k], L[k + 1])
    BY <1>3, <2>1, <2>2, ScopeHere
  <2>4. /\ WroteProperty(events[k], L[k], L[k + 1]) /\ input = L[k].at /\ k \in 1..Len(L)
    BY <2>1, <2>2, <2>3, Where DEF Wrote
  <2>5. L[k + 1].at = input + 8
    BY <2>4 DEF WroteProperty
  <2>6. Excused
    BY <1>3, <2>2, <2>3, <2>5, NotCut
  <2>7. /\ turn' = turn /\ length' = length /\ events' = events /\ total' = total
    BY Unmoved
  <2>8. Here' = k /\ ReaderShape /\ Reading(L)
    BY <1>3, <2>2 DEF Here, Busy
  <2>9. /\ scopes' \in Seq(Scope) /\ scopes' # <<>> /\ Len(scopes') = n
        /\ ~scopes'[n].held /\ Tracks(L)'
    <3>1. \A i \in 1..n : Same(L[Here].stack[i], L[Here'].stack[i])
      BY <2>2, <2>8 DEF Same
    <3>2. Here' \in 1..Len(L) /\ input' = L[Here'].at /\ Len(L[Here'].stack) = n
      BY <1>3, <2>3, <2>4, <2>8
    <3> QED
      BY <1>3, <2>1, <3>1, <3>2, Suspended
  <2>10. ReaderShape'
    BY <1>3, <2>7, <2>8, <2>9 DEF ReaderShape
  <2>11. Excused'
    BY <1>3, <2>6, <2>7 DEF Excused
  <2>12. AtScope(L)'
    BY <2>9, <2>11 DEF AtScope
  <2>13. /\ turn' = "done" /\ total' <= length' /\ input' <= total'
         /\ Here' <= Len(L) /\ Echoes(calls', events')
    BY <1>3, <2>2, <2>7, <2>8 DEF Reading
  <2>14. stage' \notin {"value", "error", "panicked", "done"}
    BY <1>3
  <2> QED
    BY <2>9, <2>10, <2>12, <2>13, <2>14 DEF Reading
<1> QED
  BY <1>1, <1>2, <1>3, Zenon DEF Reader!Reject

------------------------------------------------------------------------------
(* Every step of the reader *)

\* Why a read panics is remembered.
LEMMA Panicking ==
  ASSUME NEW L, Busy(L), UNCHANGED <<vars, total>>, NEW why \in Panics, Reader!Panic(why),
         why = "division" \/ (typed /\ why \in {"visitor", "unwrap"})
  PROVE  Reading(L)' /\ ReaderShape'
<1>0. /\ stage' = "panicked" /\ panic' = why /\ UNCHANGED <<input, scopes, typed, calls>>
      /\ Excusable'
  BY DEF Reader!Panic, Excusable
<1>1. ReaderShape /\ Reading(L) /\ Here' = Here
  BY <1>0 DEF Busy, Here
<1>2. /\ turn' = turn /\ length' = length /\ events' = events /\ total' = total
  BY Unmoved
<1>3. ReaderShape'
  BY <1>0, <1>1, <1>2 DEF ReaderShape
<1>4. /\ turn' = "done" /\ total' <= length' /\ input' <= total'
      /\ Here' <= Len(L) /\ Echoes(calls', events')
  BY <1>0, <1>1, <1>2 DEF Reading
<1>5. stage' \notin {"value", "scope", "error", "done"}
  BY <1>0
<1> QED
  BY <1>0, <1>3, <1>4, <1>5 DEF Reading

\* Whatever the reader does next, it follows the log.
LEMMA ReaderFollows ==
  ASSUME NEW L, Busy(L), UNCHANGED <<vars, total>>, Reader!Next
  PROVE  Reading(L)' /\ ReaderShape'
<1>1. CASE Reader!Leaf \/ Reader!Choice \/ Reader!Pointer
  BY <1>1, ReadsWhole
<1>2. CASE Reader!Struct \/ Reader!Object \/ Reader!Array
  BY <1>2, ReadsCompound
<1>3. CASE Reader!DeserializeField
  BY <1>3, ReadsField
<1>4. CASE Reader!DeserializeProperty
  BY <1>4, ReadsProperty
<1>5. CASE Reader!End
  BY <1>5, ReadsEnd
<1>6. CASE Reader!DeserializeElement
  BY <1>6, ReadsElement
<1>7. CASE Reader!ArrayEnd
  BY <1>7, ReadsArrayEnd
<1>8. CASE Reader!Reject
  BY <1>8, Rejects
<1>9. CASE Reader!VisitorFails
  <2>1. stage = "scope" /\ (typed \/ ~scopes[Len(scopes)].held) /\ Reader!Fail(Reader!Outer)
    BY <1>9 DEF Reader!VisitorFails, Reader!InVisitor, Reader!Top, Reader!Depth
  <2>2. Excused
    BY <2>1 DEF Busy, Reading, AtScope, Excused
  <2> QED
    BY <2>1, <2>2, FailsOutside
<1>10. CASE Reader!VisitorAstray
  BY <1>10, Panicking DEF Reader!VisitorAstray, Panics
<1>11. CASE Reader!WrongType \/ Reader!Unsupported
  <2>1. stage = "value" /\ typed /\ Reader!Fail(scopes)
    BY <1>11 DEF Reader!WrongType, Reader!Unsupported
  <2>2. Excused
    BY <2>1 DEF Excused
  <2> QED
    BY <2>1, <2>2, FailsHere
<1>12. CASE Reader!AskNone
  BY <1>12, Panicking DEF Reader!AskNone, Panics
<1>13. CASE Reader!ChoiceOfUnits
  BY <1>13, Panicking DEF Reader!ChoiceOfUnits, Panics
<1> QED
  BY <1>1, <1>2, <1>3, <1>4, <1>5, <1>6, <1>7, <1>8, <1>9, <1>10, <1>11, <1>12, <1>13, Zenon
     DEF Reader!Next, Reader!Read

\* The reader moves only where something is left to read.
LEMMA ReaderMoves ==
  ASSUME Reader!Next
  PROVE  stage \in {"value", "scope"}
<1>1. CASE Reader!Leaf \/ Reader!Choice \/ Reader!Pointer
  BY <1>1 DEF Reader!Leaf, Reader!Choice, Reader!Pointer, Reader!Whole
<1>2. CASE Reader!Struct \/ Reader!Object \/ Reader!Array
  BY <1>2 DEF Reader!Struct, Reader!Object, Reader!Array, Reader!Begin
<1>3. CASE Reader!DeserializeField \/ Reader!DeserializeProperty
  BY <1>3 DEF Reader!DeserializeField, Reader!DeserializeProperty, Reader!GoesOn
<1>4. CASE Reader!End \/ Reader!VisitorFails \/ Reader!VisitorAstray
  BY <1>4 DEF Reader!End, Reader!VisitorFails, Reader!VisitorAstray, Reader!InVisitor
<1>5. CASE Reader!DeserializeElement \/ Reader!ArrayEnd
  BY <1>5 DEF Reader!DeserializeElement, Reader!ArrayEnd
<1>6. CASE Reader!Reject
  BY <1>6 DEF Reader!Reject
<1>7. CASE Reader!WrongType \/ Reader!Unsupported \/ Reader!AskNone \/ Reader!ChoiceOfUnits
  BY <1>7 DEF Reader!WrongType, Reader!Unsupported, Reader!AskNone, Reader!ChoiceOfUnits
<1> QED
  BY <1>1, <1>2, <1>3, <1>4, <1>5, <1>6, <1>7, Zenon DEF Reader!Next, Reader!Read

------------------------------------------------------------------------------
(* How much is left to do *)

\* What the innermost deserializer still does before anything is recorded or it
\* is gone: a deserializer that is there is lent, what it is lent for fails.
Awaiting == IF stage = "value" THEN 2
            ELSE IF stage # "scope" THEN 0
            ELSE IF scopes[Len(scopes)].held THEN 3 ELSE 1

\* The steps that the reader has left, at most.
Left == 3 * (Len(events) - Len(calls)) + Len(scopes) + Awaiting

\* DeserializeSuccess does not change how deep the reader is.
LEMMA DepthAfter ==
  ASSUME NEW outer \in Seq(Scope), Reader!Finish(outer), input' \in Nat
  PROVE  Len(scopes') = Len(outer)
<1>1. CASE outer = <<>>
  BY <1>1 DEF Reader!Finish
<1>2. CASE outer # <<>> /\ outer[Len(outer)].remaining - (input' - outer[Len(outer)].mark) >= 0
  BY <1>2, Handed
<1>3. CASE outer # <<>> /\ ~(outer[Len(outer)].remaining - (input' - outer[Len(outer)].mark) >= 0)
  <2>1. PICK left : left = outer[Len(outer)].remaining - (input' - outer[Len(outer)].mark)
    OBVIOUS
  <2>2. outer[Len(outer)] \in Scope
    BY <1>3, EmptySeq
  <2>3. left \in Int
    BY <2>1, <2>2 DEF Scope
  <2>4. left < 0
    BY <1>3, <2>1, <2>3
  <2> QED
    BY <1>3, <2>1, <2>4 DEF Reader!Finish
<1> QED
  BY <1>1, <1>2, <1>3

\* A call that is recorded opens one pod at most, and only where one is due.
LEMMA RecordedOnce ==
  ASSUME NEW L, Busy(L), input' \in Nat, Reader!Read, ~Reader!DeserializeField,
         ~Reader!ChoiceOfUnits
  PROVE  /\ \E call : calls' = Append(calls, call)
         /\ Len(scopes') <= Len(scopes) + IF stage = "value" THEN 1 ELSE 0
<1>1. scopes \in Seq(Scope) /\ Len(scopes) \in Nat
  BY Where
<1>2. CASE Reader!Leaf \/ Reader!Choice \/ Reader!Pointer
  <2>1. PICK kind, call : Reader!Whole(kind, call)
    BY <1>2 DEF Reader!Leaf, Reader!Choice, Reader!Pointer
  <2>2. Reader!Finish(scopes) /\ calls' = Append(calls, call) /\ stage = "value"
    BY <2>1 DEF Reader!Whole, Reader!Record
  <2>3. PICK outer : outer = scopes
    OBVIOUS
  <2>4. Reader!Finish(outer)
    BY <2>2, <2>3 DEF Reader!Finish
  <2>5. Len(scopes') = Len(scopes)
    BY <1>1, <2>3, <2>4, DepthAfter
  <2> QED
    BY <1>1, <2>2, <2>5
<1>3. CASE Reader!Struct \/ Reader!Object \/ Reader!Array
  <2>1. /\ stage = "value"
        /\ \E s : scopes' = Append(scopes, s)
        /\ \E call : calls' = Append(calls, call)
    BY <1>3 DEF Reader!Struct, Reader!Object, Reader!Array, Reader!Begin, Reader!Record
  <2> QED
    BY <1>1, <2>1
<1>4. CASE Reader!DeserializeProperty \/ Reader!DeserializeElement
  <2>1. \E call : calls' = Append(calls, call)
    BY <1>4 DEF Reader!DeserializeProperty, Reader!DeserializeElement, Reader!Record
  <2>2. Len(scopes') = Len(scopes)
    BY <1>1, <1>4 DEF Reader!DeserializeProperty, Reader!GoesOn, Reader!DeserializeElement
  <2> QED
    BY <1>1, <2>1, <2>2
<1>5. CASE Reader!End \/ Reader!ArrayEnd
  <2>1. /\ stage = "scope" /\ Reader!Finish(Reader!Outer)
        /\ \E call : calls' = Append(calls, call)
    BY <1>5 DEF Reader!End, Reader!InVisitor, Reader!ArrayEnd, Reader!Record
  <2>2. PICK outer : outer = Reader!Outer
    OBVIOUS
  <2>3. outer \in Seq(Scope) /\ Len(outer) <= Len(scopes)
    BY <2>1, <2>2, OuterLent
  <2>4. Reader!Finish(outer)
    BY <2>1, <2>2 DEF Reader!Finish
  <2>5. Len(scopes') <= Len(scopes)
    BY <2>3, <2>4, DepthAfter
  <2> QED
    BY <1>1, <2>1, <2>5
<1> QED
  BY <1>2, <1>3, <1>4, <1>5 DEF Reader!Read

\* An error leaves the deserializer it ends, and finds the next one lent.
LEMMA FailedOnce ==
  ASSUME NEW L, Busy(L),
         \/ stage = "value" /\ Reader!Fail(scopes)
         \/ stage = "scope" /\ Reader!Fail(Reader!Outer)
  PROVE  /\ calls' = calls
         /\ Len(scopes') = Len(scopes) - IF stage = "value" THEN 0 ELSE 1
         /\ stage' # "value" /\ (stage' = "scope" => ~scopes'[Len(scopes')].held)
<1>1. scopes \in Seq(Scope) /\ Len(scopes) \in Nat
  BY Where
<1>2. CASE stage = "value" /\ Reader!Fail(scopes)
  <2>1. /\ calls' = calls /\ scopes' = scopes
        /\ stage' = IF scopes = <<>> THEN "error" ELSE "scope"
    BY <1>2 DEF Reader!Fail
  <2>2. scopes # <<>> => ~scopes[Len(scopes)].held
    BY <1>2 DEF Busy, Reading, AtValue
  <2> QED
    BY <1>1, <1>2, <2>1, <2>2
<1>3. CASE stage = "scope" /\ Reader!Fail(Reader!Outer)
  <2>1. PICK outer : outer = Reader!Outer
    OBVIOUS
  <2>2. /\ outer \in Seq(Scope) /\ \A i \in 1..Len(outer) : ~scopes[i].held /\ outer[i] = scopes[i]
    BY <1>3, <2>1, OuterLent
  <2>3. /\ calls' = calls /\ scopes' = outer
        /\ stage' = IF outer = <<>> THEN "error" ELSE "scope"
    BY <1>3, <2>1 DEF Reader!Fail
  <2>4. outer # <<>> => ~outer[Len(outer)].held
    <3>1. outer # <<>> => Len(outer) \in 1..Len(outer)
      BY <2>2, EmptySeq
    <3> QED
      BY <2>2, <3>1
  <2>5. Len(outer) = Len(scopes) - 1
    <3>1. scopes # <<>>
      BY <1>3 DEF Busy, Reading, AtScope
    <3> QED
      BY <1>1, <2>1, <3>1, FrontOfSeq, EmptySeq DEF Reader!Outer, Reader!Depth
  <2> QED
    BY <1>3, <2>3, <2>4, <2>5
<1> QED
  BY <1>2, <1>3

\* Every step of the reader leaves it less to do.
LEMMA ReaderShrinks ==
  ASSUME NEW L, Busy(L), UNCHANGED <<vars, total>>, Reader!Next
  PROVE  Left' < Left /\ Left' \in Nat
<1>1. IInv /\ Log(L) /\ turn = "done" /\ stage \in {"value", "scope"}
  BY DEF Busy, Reading
<1>2. Reading(L)' /\ ReaderShape'
  BY ReaderFollows
<1>3. /\ scopes \in Seq(Scope) /\ Len(scopes) \in Nat /\ Len(calls) \in Nat
      /\ scopes' \in Seq(Scope) /\ calls' \in Seq(Calls) /\ input' \in Nat
  BY <1>2, Where DEF ReaderShape
<1>4. Len(scopes') \in Nat /\ Len(calls') \in Nat
  BY <1>3
<1>5. Len(events') = Len(events) /\ Len(events) \in Nat /\ Len(calls') <= Len(events)
  <2>1. Len(L) = Len(events) + 1 /\ Len(events) \in Nat
    BY <1>1, Complete
  <2>2. Len(calls') + 1 <= Len(L)
    BY <1>2 DEF Reading, Here
  <2> QED
    BY <1>4, <2>1, <2>2, Unmoved
<1>6. Awaiting \in 1..3 /\ Awaiting' \in 0..3
  BY <1>1 DEF Awaiting
<1>7. Left' = 3 * (Len(events) - Len(calls')) + Len(scopes') + Awaiting'
  BY <1>5 DEF Left
<1>8. Left' \in Nat
  BY <1>4, <1>5, <1>6, <1>7
<1>9. SUFFICES Len(scopes') + Awaiting' + 3 * Len(calls)
                 < Len(scopes) + Awaiting + 3 * Len(calls')
  BY <1>3, <1>4, <1>5, <1>6, <1>7, <1>8 DEF Left
<1>10. CASE Reader!Read /\ ~Reader!DeserializeField /\ ~Reader!ChoiceOfUnits
  <2>1. /\ \E call : calls' = Append(calls, call)
        /\ Len(scopes') <= Len(scopes) + IF stage = "value" THEN 1 ELSE 0
    BY <1>3, <1>10, RecordedOnce
  <2>2. Len(calls') = Len(calls) + 1
    BY <1>3, <2>1 DEF Busy, ReaderShape
  <2>3. stage = "value" => Awaiting = 2
    BY DEF Awaiting
  <2> QED
    BY <1>3, <1>4, <1>6, <2>1, <2>2, <2>3
<1>11. CASE Reader!DeserializeField
  <2>1. /\ stage = "scope" /\ scopes[Len(scopes)].held /\ stage' = "value" /\ calls' = calls
        /\ scopes' = [scopes EXCEPT ![Len(scopes)].mark = input, ![Len(scopes)].held = FALSE]
    BY <1>11 DEF Reader!DeserializeField, Reader!GoesOn, Reader!Top, Reader!Depth
  <2>2. Awaiting = 3 /\ Awaiting' = 2
    BY <2>1 DEF Awaiting
  <2>3. Len(scopes') = Len(scopes)
    BY <1>3, <2>1
  <2> QED
    BY <1>3, <2>1, <2>2, <2>3
<1>12. ASSUME \/ stage = "value" /\ Reader!Fail(scopes)
              \/ stage = "scope" /\ Reader!Fail(Reader!Outer)
       PROVE  Len(scopes') + Awaiting' + 3 * Len(calls)
                < Len(scopes) + Awaiting + 3 * Len(calls')
  <2>1. /\ calls' = calls
        /\ Len(scopes') = Len(scopes) - IF stage = "value" THEN 0 ELSE 1
        /\ stage' # "value" /\ (stage' = "scope" => ~scopes'[Len(scopes')].held)
    BY <1>12, FailedOnce
  <2>2. Awaiting' <= 1 /\ (stage = "value" => Awaiting = 2)
    BY <2>1 DEF Awaiting
  <2> QED
    BY <1>3, <1>4, <1>6, <2>1, <2>2
<1>13. CASE Reader!VisitorAstray \/ Reader!AskNone \/ Reader!ChoiceOfUnits
  <2>1. stage' = "panicked" /\ scopes' = scopes /\ calls' = calls
    BY <1>13 DEF Reader!VisitorAstray, Reader!AskNone, Reader!ChoiceOfUnits, Reader!Panic
  <2>2. Awaiting' = 0
    BY <2>1 DEF Awaiting
  <2> QED
    BY <1>3, <1>6, <2>1, <2>2
<1>14. CASE /\ stage = "scope" /\ Reader!Top.held
            /\ scopes' = [scopes EXCEPT ![Reader!Depth].mark = input,
                                        ![Reader!Depth].held = FALSE]
            /\ UNCHANGED <<stage, calls>>
  <2>1. /\ scopes[Len(scopes)].held
        /\ scopes' = [scopes EXCEPT ![Len(scopes)].mark = input, ![Len(scopes)].held = FALSE]
    BY <1>14 DEF Reader!Top, Reader!Depth
  <2>2. Len(scopes') = Len(scopes) /\ Len(scopes) \in 1..Len(scopes)
    BY <1>3, <1>14, <2>1, EmptySeq DEF Busy, Reading, AtScope
  <2>3. ~scopes'[Len(scopes')].held
    <3>1. scopes[Len(scopes)] \in Scope
      BY <1>3, <2>2
    <3> QED
      BY <1>3, <2>1, <2>2, <3>1 DEF Scope
  <2>4. Awaiting = 3 /\ Awaiting' = 1
    BY <1>14, <2>1, <2>3 DEF Awaiting
  <2> QED
    BY <1>3, <1>14, <2>2, <2>4
<1>15. CASE Reader!Reject
  BY <1>12, <1>14, <1>15, Zenon DEF Reader!Reject
<1>16. CASE Reader!VisitorFails
  BY <1>12, <1>16 DEF Reader!VisitorFails, Reader!InVisitor
<1>17. CASE Reader!WrongType \/ Reader!Unsupported
  BY <1>12, <1>17 DEF Reader!WrongType, Reader!Unsupported
<1> QED
  BY <1>10, <1>11, <1>13, <1>15, <1>16, <1>17, Zenon DEF Reader!Next

------------------------------------------------------------------------------
(* Writer and reader together *)

\* The first pod begins the bytes and ends in them.
LEMMA FirstPod ==
  ASSUME IInv, NEW L, Log(L), turn = "done"
  PROVE  /\ headers[0].size \in Nat /\ 8 + headers[0].size <= length
         /\ 1 \in 1..Len(events) /\ events[1][1] \in Pods
<1>1. /\ events \in Seq(Calls) /\ Len(events) \in Nat \ {0} /\ Len(L) = Len(events) + 1
      /\ L[Len(L)].stack = <<>> /\ pos = length /\ pos \in Nat
      /\ L[1].stack = <<>> /\ L[1].at = 0
  BY Complete
<1>2. 1 \in 1..Len(events) /\ 1 + 1 \in 1..Len(L) /\ 1 + 1 = 2
  BY <1>1
<1>3. /\ Wrote(events[1], L[1], L[2]) /\ events[1][1] \in Due(L, 1)
      /\ L[2].stack \in Seq(Frame) /\ L[2].at \in Nat /\ L[2].at <= pos
  BY <1>2, Complete
<1>4. events[1][1] \in Pods
  BY <1>1, <1>3 DEF Due
<1>5. CASE events[1][1] \in Single
  <2>1. WroteSingle(events[1], L[1], L[2])
    BY <1>3, <1>5 DEF Wrote
  <2>2. /\ 0 \in DOMAIN headers
        /\ L[2].at = 0 + 8 + headers[0].size + Padding(headers[0].size)
    BY <1>1, <2>1 DEF WroteSingle
  <2>3. headers[0].size \in Nat
    BY <2>2, StateFacts
  <2>4. PICK z : z = headers[0].size
    OBVIOUS
  <2>5. PICK p : p = Padding(z)
    OBVIOUS
  <2>6. p \in Nat /\ z \in Nat
    BY <2>3, <2>4, <2>5, PodLength
  <2>7. L[2].at = 8 + z + p
    BY <2>2, <2>4, <2>5, <2>6
  <2>8. 8 + z <= length
    BY <1>1, <1>3, <2>6, <2>7
  <2> QED
    BY <1>2, <1>4, <2>4, <2>6, <2>8
<1>6. CASE events[1][1] \in Begun
  <2>1. WroteCompound(events[1], L[1], L[2])
    BY <1>3, <1>6 DEF Wrote, Begun, Compound, Single
  <2>2. Len(L[1].stack) = 0
    BY <1>1
  <2>3. Len(L[2].stack) = 1 /\ L[2].stack[1].at = 0
    BY <1>1, <2>1, <2>2 DEF WroteCompound, Last
  <2>4. L[2].stack # <<>>
    BY <2>3
  <2>5. 2 # Len(L)
    BY <1>1, <2>4
  <2>6. 2 \in 1..Len(events) /\ 1 \in 1..Len(L[2].stack)
    BY <1>1, <1>2, <2>3, <2>5
  <2>7. PICK f : f = L[2].stack[1]
    OBVIOUS
  <2>8. f.at \in DOMAIN headers /\ headers[f.at].size \in Nat /\ EndAt(f) <= pos
    BY <2>6, <2>7, ClosedFacts
  <2>9. EndAt(f) = 0 + 8 + headers[0].size /\ headers[0].size \in Nat
    BY <2>3, <2>7, <2>8 DEF EndAt
  <2> QED
    BY <1>1, <1>2, <1>4, <2>8, <2>9
<1> QED
  BY <1>4, <1>5, <1>6 DEF Pods

\* Writer, reader and what was written.
RInv == /\ IInv /\ ReaderShape
        /\ \E L : Log(L) /\ IF total = 0 THEN Idle ELSE Reading(L)

LEMMA RoundtripStarts == Fresh /\ RoundtripInit => RInv
<1> SUFFICES ASSUME Fresh, RoundtripInit PROVE RInv
  OBVIOUS
<1>1. IInv /\ \E L : Log(L)
  BY Initially, LogStarts DEF RoundtripInit
<1>2. ReaderShape /\ Idle /\ total = 0
  BY EmptySeq DEF RoundtripInit, Reader!Init, ReaderShape, Idle, Panics
<1> QED
  BY <1>1, <1>2 DEF RInv

\* The reader gets the first n bytes.
LEMMA ReadStarts ==
  ASSUME Fresh, RInv, length' < U32, NEW n \in Nat, n > 0, n <= length, Read(n)
  PROVE  RInv'
<1>1. /\ turn = "done" /\ total = 0 /\ total' = n /\ typed' \in BOOLEAN
      /\ UNCHANGED <<vars, input, scopes, stage, calls, panic>>
  BY DEF Read
<1>2. PICK L : Log(L)
  BY DEF RInv
<1>3. IInv /\ ReaderShape /\ Idle
  BY <1>1 DEF RInv
<1>4. IInv'
  BY <1>1, <1>3, Preserved
<1>5. /\ turn' = turn /\ length' = length /\ events' = events
  BY <1>1, Unmoved
<1>6. Log(L)'
  <2>1. UNCHANGED <<pos, headers, Stack, extents, events>> /\ turn' = turn
    BY <1>1 DEF vars, stream, Stack, Bare, BareOf
  <2> QED
    BY <1>2, <1>3, <2>1, LogStays
<1>7. /\ input' = 0 /\ scopes' = <<>> /\ stage' = "value" /\ calls' = <<>>
      /\ Len(scopes') = 0 /\ Len(calls') = 0 /\ Here' = 1
  BY <1>1, <1>3 DEF Idle, Here
<1>8. ReaderShape'
  BY <1>1, <1>3 DEF ReaderShape
<1>9. /\ Len(L) = Len(events) + 1 /\ Len(events) \in Nat /\ L[1].stack = <<>> /\ L[1].at = 0
      /\ 1 \in 1..Len(events) /\ events[1][1] \in Pods
  BY <1>1, <1>2, <1>3, Complete, FirstPod
<1>10. Len(L[1].stack) = 0
  BY <1>9
<1>11. Tracks(L)'
  BY <1>7, <1>9, <1>10 DEF Tracks
<1>12. AtValue(L)'
  BY <1>5, <1>7, <1>9, <1>10 DEF AtValue
<1>13. Echoes(calls', events')
  BY <1>7 DEF Echoes
<1>14. /\ turn' = "done" /\ total' <= length' /\ input' <= total' /\ Here' <= Len(L)
  BY <1>1, <1>5, <1>7, <1>9
<1>15. Reading(L)'
  BY <1>7, <1>11, <1>12, <1>13, <1>14 DEF Reading
<1>16. total' # 0
  BY <1>1
<1> QED
  BY <1>4, <1>6, <1>8, <1>15, <1>16 DEF RInv

\* Nothing is written once a pod is finished.
LEMMA WriterDone ==
  ASSUME turn = "done"
  PROVE  ~Next
<1>1. turn \notin {"value", "frame"}
  OBVIOUS
<1> QED
  BY <1>1 DEF Next, WritePod, Choice, SerializeArray, ArrayTooLong, Pointer, SerializeStruct,
     SerializeField, StructEnd, SerializeObject, SerializeProperty, ObjectEnd,
     SerializeElement, ElementRefused, ArrayEnd, ArrayIncomplete, WriteFails,
     Whole, Begin, End, ArrayEndWith

LEMMA RoundtripGoesOn ==
  ASSUME Fresh, RInv, length' < U32, [RoundtripNext]_allVars
  PROVE  RInv'
<1>1. IInv /\ ReaderShape
  BY DEF RInv
<1>2. PICK L : Log(L) /\ IF total = 0 THEN Idle ELSE Reading(L)
  BY DEF RInv
<1>3. CASE Next /\ UNCHANGED readerVars
  <2>1. total = 0
    BY <1>2, <1>3, WriterDone DEF Reading
  <2>2. Idle /\ Idle' /\ total' = 0
    BY <1>2, <1>3, <2>1 DEF Idle, readerVars
  <2>3. IInv'
    BY <1>1, <1>3, Preserved
  <2>4. \E N : Log(N)'
    BY <1>1, <1>2, <1>3, LogStep
  <2>5. ReaderShape'
    BY <1>1, <1>3 DEF ReaderShape, readerVars
  <2> QED
    BY <2>2, <2>3, <2>4, <2>5 DEF RInv
<1>4. CASE DeserializeFrom
  <2>1. PICK n \in 1..length : Read(n)
    BY <1>4 DEF DeserializeFrom
  <2>2. length \in Nat
    BY <1>1, StreamFacts
  <2>3. n \in Nat /\ n > 0 /\ n <= length
    BY <2>1, <2>2
  <2> QED
    BY <2>1, <2>3, ReadStarts
<1>5. CASE DeserializePtr
  <2>1. PICK n : n = 8 + headers[0].size
    OBVIOUS
  <2>2. turn = "done" /\ Read(n)
    BY <1>5, <2>1 DEF DeserializePtr, Read
  <2>3. headers[0].size \in Nat /\ 8 + headers[0].size <= length
    BY <1>1, <1>2, <2>2, FirstPod
  <2>4. n \in Nat /\ n > 0 /\ n <= length
    BY <2>1, <2>3
  <2> QED
    BY <2>2, <2>4, ReadStarts
<1>6. CASE ReaderStep
  <2>1. total > 0 /\ Reader!Next /\ UNCHANGED <<vars, total>>
    BY <1>6 DEF ReaderStep
  <2>2. total # 0
    BY <2>1
  <2>3. Reading(L) /\ stage \in {"value", "scope"}
    BY <1>2, <2>1, <2>2, ReaderMoves
  <2>4. Busy(L)
    BY <1>1, <1>2, <2>1, <2>3 DEF Busy
  <2>5. Reading(L)' /\ ReaderShape'
    BY <2>1, <2>4, ReaderFollows
  <2>6. IInv'
    BY <1>1, <2>1, Preserved
  <2>7. Log(L)'
    <3>1. UNCHANGED <<pos, headers, Stack, extents, events>> /\ turn' = turn
      BY <2>1 DEF vars, stream, Stack, Bare, BareOf
    <3> QED
      BY <1>1, <1>2, <3>1, LogStays
  <2>8. total' # 0
    BY <2>1, <2>2
  <2> QED
    BY <2>5, <2>6, <2>7, <2>8 DEF RInv
<1>7. CASE UNCHANGED allVars
  <2>1. UNCHANGED <<vars, total, input, scopes, stage, typed, calls, panic>>
    BY <1>7 DEF allVars, readerVars
  <2>2. IInv'
    BY <1>1, <2>1, Preserved
  <2>3. Log(L)'
    <3>1. UNCHANGED <<pos, headers, Stack, extents, events>> /\ turn' = turn
      BY <2>1 DEF vars, stream, Stack, Bare, BareOf
    <3> QED
      BY <1>1, <1>2, <3>1, LogStays
  <2>4. ReaderShape'
    BY <1>1, <2>1 DEF ReaderShape
  <2>5. CASE total = 0
    <3>1. Idle' /\ total' = 0
      BY <1>2, <2>1, <2>5 DEF Idle
    <3> QED
      BY <2>2, <2>3, <2>4, <3>1 DEF RInv
  <2>6. CASE total # 0
    <3>1. Reading(L)
      BY <1>2, <2>6
    <3>2. Reading(L)'
      BY <2>1, <3>1 DEF Reading, Tracks, AtValue, AtScope, Excused, Excusable, Echoes, Here, Matches, EndOf, EndAt, vars, stream
    <3> QED
      BY <2>1, <2>2, <2>3, <2>4, <2>6, <3>2 DEF RInv
  <2> QED
    BY <2>5, <2>6
<1> QED
  BY <1>3, <1>4, <1>5, <1>6, <1>7 DEF RoundtripNext

------------------------------------------------------------------------------
(* The theorems *)

LEMMA FollowsIsRead ==
  ASSUME RInv
  PROVE  ReadsWhatWasWritten /\ ConsumesExactly
<1>1. IInv /\ ReaderShape
  BY DEF RInv
<1>2. PICK L : Log(L) /\ IF total = 0 THEN Idle ELSE Reading(L)
  BY DEF RInv
<1>3. CASE total = 0
  <2>1. /\ stage = "value" /\ calls = <<>> /\ Len(calls) = 0
    BY <1>2, <1>3 DEF Idle
  <2>2. Len(events) \in Nat
    BY <1>1, StateFacts
  <2> QED
    BY <2>1, <2>2 DEF ReadsWhatWasWritten, ConsumesExactly
<1>4. CASE total # 0
  <2>1. /\ turn = "done" /\ total <= length /\ input <= total
        /\ Echoes(calls, events)
        /\ stage = "error" => Excused
        /\ stage = "panicked" => Excusable
        /\ stage = "done" => Here = Len(L) /\ input = L[Here].at
    BY <1>2, <1>4 DEF Reading
  <2>2. /\ Len(L) = Len(events) + 1 /\ Len(events) \in Nat
        /\ L[Len(L)].at = pos /\ pos = length /\ result = pos /\ pos \in Nat
    BY <1>1, <1>2, <2>1, Complete
  <2>3. /\ Len(calls) \in Nat /\ input \in Nat /\ total \in Nat
    BY <1>1 DEF ReaderShape
  <2>4. stage = "done" => input = result /\ total = length
    BY <2>1, <2>2, <2>3
  <2>5. stage = "done" => Len(calls) = Len(events)
    BY <2>1, <2>2, <2>3 DEF Here
  <2>6. Len(calls) <= Len(events) /\ \A i \in 1..Len(calls) : calls[i] = Seen(events[i])
    BY <2>1 DEF Echoes
  <2>7. stage = "error" => total < length \/ typed
    BY <2>1 DEF Excused
  <2>8. stage = "panicked" => panic = "division" \/ (typed /\ panic \in {"visitor", "unwrap"})
    BY <2>1 DEF Excusable
  <2> QED
    BY <2>4, <2>5, <2>6, <2>7, <2>8 DEF ReadsWhatWasWritten, ConsumesExactly
<1> QED
  BY <1>3, <1>4

LEMMA FollowsIsNested ==
  ASSUME RInv
  PROVE  ScopesNested
<1>1. IInv /\ ReaderShape
  BY DEF RInv
<1>2. PICK L : Log(L) /\ IF total = 0 THEN Idle ELSE Reading(L)
  BY DEF RInv
<1> SUFFICES ASSUME stage \in {"value", "scope"}, NEW i \in 1..Len(scopes) - 1,
                    scopes[i + 1].kind # "array"
             PROVE  EndOf(i + 1) <= EndOf(i)
  BY DEF ScopesNested
<1>3. scopes \in Seq(Scope) /\ Len(scopes) \in Nat /\ i \in Nat /\ i > 0
  BY <1>1 DEF ReaderShape
<1>4. total # 0
  <2>1. Len(scopes) # 0
    BY <1>3
  <2> QED
    BY <1>2, <2>1 DEF Idle
<1>5. Busy(L)
  BY <1>1, <1>2, <1>4 DEF Busy, ReaderShape
<1>6. PICK j : j = i + 1
  OBVIOUS
<1>7. i \in 1..Len(scopes) /\ j \in 1..Len(scopes) /\ i < j
  BY <1>3, <1>6
<1>8. PICK k : k = Here
  OBVIOUS
<1>9. /\ Matches(L, i) /\ Matches(L, j) /\ ~scopes[i].held
      /\ k \in 1..Len(L) /\ L[k].stack \in Seq(Frame)
      /\ Len(scopes) <= Len(L[k].stack) /\ turn = "done"
      /\ scopes[i].kind # "array"
  BY <1>5, <1>7, <1>8, Where
<1>10. /\ EndOf(i) = EndAt(L[k].stack[i]) /\ EndOf(j) = EndAt(L[k].stack[j])
  BY <1>6, <1>8, <1>9 DEF Matches
<1>11. k \in 1..Len(events) /\ i \in 1..Len(L[k].stack) /\ i < Len(L[k].stack)
  <2>1. Len(L) = Len(events) + 1 /\ Len(events) \in Nat /\ L[Len(L)].stack = <<>>
    BY <1>1, <1>2, <1>9, Complete
  <2>2. i \in 1..Len(L[k].stack) /\ i < Len(L[k].stack)
    BY <1>3, <1>9
  <2>3. L[k].stack # <<>>
    BY <2>2
  <2>4. k # Len(L)
    BY <2>1, <2>3
  <2> QED
    BY <1>9, <2>1, <2>2, <2>4
<1>12. Closed(L, k, i)
  BY <1>1, <1>2, <1>9, <1>11, Complete
<1>13. EndAt(L[k].stack[j]) <= EndAt(L[k].stack[i])
  BY <1>6, <1>11, <1>12 DEF Closed
<1> QED
  BY <1>6, <1>10, <1>13

\* The bytes become no fewer: below 2^32 now, they were before.
LEMMA BytesStay ==
  ASSUME TInv, [RoundtripNext]_allVars
  PROVE  TInv' /\ length <= length'
<1>1. CASE Next
  BY <1>1, ShapeKept, StreamGrows
<1>2. CASE UNCHANGED vars
  BY <1>2, ShapeKept, StreamGrows
<1> QED
  BY <1>1, <1>2
     DEF RoundtripNext, DeserializeFrom, DeserializePtr, Read, ReaderStep, allVars

(* The inductive invariant of writing and reading. *)
THEOREM ReaderFollowsWriter == Fresh /\ RoundtripSpec => []((length < U32) => RInv)
<1> SUFFICES ASSUME Fresh PROVE RoundtripSpec => []((length < U32) => RInv)
  OBVIOUS
<1>1. RoundtripInit => TInv /\ ((length < U32) => RInv)
  BY RoundtripStarts, ShapeInitially DEF RoundtripInit
<1>2. ASSUME TInv, (length < U32) => RInv, [RoundtripNext]_allVars
      PROVE  TInv' /\ ((length < U32) => RInv)'
  <2>1. TInv' /\ length <= length'
    BY <1>2, BytesStay
  <2>2. ASSUME length' < U32
        PROVE  RInv'
    <3>1. length < U32
      BY <1>2, <2>1, <2>2, SerializerAssumption DEF TInv, TypeOK
    <3> QED
      BY <1>2, <2>2, <3>1, RoundtripGoesOn
  <2> QED
    BY <2>1, <2>2
<1> QED
  BY <1>1, <1>2, PTL DEF RoundtripSpec

\* In a stream below 2^32 bytes, what is read is what was written, in the same
\* order and nesting, save the number of elements that have no bytes; nothing
\* that is whole is refused unless a visitor does, and the counters of remaining
\* bytes never run below zero: a read panics for one of three reasons only.
THEOREM RoundtripIsFaithful ==
  Fresh /\ RoundtripSpec => []((length < U32) => ReadsWhatWasWritten)
<1>1. RInv => ReadsWhatWasWritten
  BY FollowsIsRead
<1> QED
  BY <1>1, ReaderFollowsWriter, PTL

\* The reader succeeds only on a whole pod, and consumes exactly what serialize
\* said it wrote.
THEOREM RoundtripIsExact ==
  Fresh /\ RoundtripSpec => []((length < U32) => ConsumesExactly)
<1>1. RInv => ConsumesExactly
  BY FollowsIsRead
<1> QED
  BY <1>1, ReaderFollowsWriter, PTL

\* A struct or object that is read inside another one ends where that one does,
\* or before.
THEOREM ScopesAreNested ==
  Fresh /\ RoundtripSpec => []((length < U32) => ScopesNested)
<1>1. RInv => ScopesNested
  BY FollowsIsNested
<1> QED
  BY <1>1, ReaderFollowsWriter, PTL

\* Every step of a read leaves less to do, counted by a number that does not go
\* below zero: no visitor that behaves or misbehaves, and no error that is
\* passed over, makes the reader go on for ever.
THEOREM ReaderEnds ==
  Fresh /\ RoundtripSpec =>
    [][total > 0 /\ length < U32 => Left' < Left /\ Left' \in Nat]_readerVars
<1> SUFFICES ASSUME Fresh
             PROVE  RoundtripSpec =>
                      [][total > 0 /\ length < U32 => Left' < Left /\ Left' \in Nat]_readerVars
  OBVIOUS
<1>1. ((length < U32) => RInv) /\ [RoundtripNext]_allVars
        => [total > 0 /\ length < U32 => Left' < Left /\ Left' \in Nat]_readerVars
  <2> SUFFICES ASSUME RInv, RoundtripNext, readerVars' # readerVars, total > 0
               PROVE  Left' < Left /\ Left' \in Nat
    BY DEF allVars
  <2>1. PICK L : Log(L) /\ Reading(L)
    BY DEF RInv
  <2>2. ReaderStep
    BY DEF RoundtripNext, DeserializeFrom, DeserializePtr, Read
  <2>3. Reader!Next /\ UNCHANGED <<vars, total>> /\ stage \in {"value", "scope"}
    BY <2>2, ReaderMoves DEF ReaderStep
  <2>4. Busy(L)
    BY <2>1, <2>3 DEF Busy, RInv
  <2> QED
    BY <2>3, <2>4, ReaderShrinks
<1> QED
  BY <1>1, ReaderFollowsWriter, PTL DEF RoundtripSpec
==============================================================================
