---------------------------- MODULE PodSerializer ----------------------------
(***************************************************************************)
(* libspa/src/pod/serialize.rs: one call of PodSerializer::serialize.  The *)
(* bytes of bodies are left out; where they begin and end, and what the    *)
(* headers say of it, is kept.  Rust's call stack of serializers that own  *)
(* one another is the sequence of frames.                                  *)
(***************************************************************************)
EXTENDS Integers, Sequences

CONSTANTS
  LeafSizes,   \* body sizes of the fixed-size, string and bytes pods
  ElemSizes,   \* CanonicalType::SIZE of array elements and choice values: 0 is ()
  Lengths,     \* lengths that serialize_array is called with
  PtrSize,     \* size_of::<usize>()
  U32,         \* 2^32
  Capacity,    \* most bytes the writer takes
  Held         \* length of the writer's stream when serialization begins

ASSUME SerializerAssumption ==
  /\ U32 \in Nat \ {0}
  /\ LeafSizes \subseteq Nat /\ ElemSizes \subseteq Nat
  /\ Lengths \subseteq 0..U32 - 1
  /\ PtrSize \in {4, 8}
  /\ Capacity \in Nat
  /\ Held \in 0..Capacity

VARIABLES
  pos,       \* the writer's stream position
  length,    \* the writer's stream length
  headers,   \* the pod header written at each offset that has one
  frames,    \* struct, object and array serializers, outermost first
  turn,      \* who has the serializer: a "value" about to be written, the
             \* innermost "frame", or nobody: "done", "failed", "panicked"
  result,    \* SerializeSuccess::len of the last pod that was finished
  extents,   \* history: where each finished pod begins and ends
  events     \* history: the calls made; of elements that have no bytes only
             \* their number, with their array

stream == <<pos, length>>
vars == <<stream, headers, frames, turn, result, extents, events>>

Init == /\ pos = 0 /\ length = Held
        /\ headers = <<>> /\ frames = <<>>
        /\ turn = "value" /\ result = 0
        /\ extents = {} /\ events = <<>>

Padding(size) == (8 - (size % 8)) % 8
Header(type, size, elem) == [type |-> type, size |-> size % U32, elem |-> elem]
Put(at, header) ==
  [x \in DOMAIN headers \cup {at} |-> IF x = at THEN header ELSE headers[x]]

Depth == Len(frames)
Top == frames[Depth]
Outer == SubSeq(frames, 1, Depth - 1)

\* gen with n bytes, which fit.
Gen(n) == /\ pos + n <= Capacity
          /\ pos' = pos + n
          /\ length' = IF pos + n > length THEN pos + n ELSE length

Record(event) == events' = Append(events, event)

\* Mutant: a property's key and flags are not counted.
ReturnForgetsKey(outer, len) ==
  /\ result' = len
  /\ turn' = IF outer = <<>> THEN "done" ELSE "frame"
  /\ frames' = IF outer = <<>> THEN outer
               ELSE [outer EXCEPT ![Len(outer)].written = @ + len]

\* SerializeSuccess goes back to serialize_field, serialize_property or serialize.
Return(outer, len) ==
  /\ result' = len
  /\ turn' = IF outer = <<>> THEN "done" ELSE "frame"
  /\ frames' = IF outer = <<>> THEN outer
               ELSE LET key == IF outer[Len(outer)].kind = "object" THEN 8 ELSE 0
                    IN  [outer EXCEPT ![Len(outer)].written = @ + len + key]

------------------------------------------------------------------------------
(* Pods that are written in one go *)

Whole(type, size, elem, pad, event) ==
  /\ turn = "value"
  /\ Gen(8 + size + pad)
  /\ headers' = Put(pos, Header(type, size, elem))
  /\ Return(frames, 8 + size + pad)
  /\ extents' = extents \cup {[at |-> pos, to |-> pos']}
  /\ Record(event)

WritePod(size) == Whole("leaf", size, 0, Padding(size), <<"leaf", size>>)

Choice(count, elem) ==
  LET size == 16 + count * elem
  IN  Whole("choice", size, elem, Padding(size), <<"choice", count>>)

\* No padding is written.
Pointer == Whole("pointer", 8 + PtrSize, 0, 0, <<"pointer", PtrSize>>)

------------------------------------------------------------------------------
(* Struct and object serializers *)

Begin(kind, n) ==
  /\ turn = "value"
  /\ Gen(n)
  /\ headers' = Put(pos, Header(kind, 0, 0))
  /\ frames' = Append(frames, [kind |-> kind, at |-> pos, written |-> 0,
                               length |-> 0, elem |-> 0])
  /\ turn' = "frame"
  /\ Record(<<kind, n>>)
  /\ UNCHANGED <<result, extents>>

SerializeStruct == Begin("struct", 8)
SerializeObject == Begin("object", 16)

SerializeField ==
  /\ turn = "frame" /\ Top.kind = "struct"
  /\ turn' = "value"
  /\ UNCHANGED <<stream, headers, frames, result, extents, events>>

SerializeProperty ==
  /\ turn = "frame" /\ Top.kind = "object"
  /\ Gen(8)
  /\ turn' = "value"
  /\ Record(<<"property", 8>>)
  /\ UNCHANGED <<headers, frames, result, extents>>

\* Seek to the header, write the size into it, seek to the end of the stream.
End(kind, size) ==
  /\ turn = "frame" /\ Top.kind = kind
  /\ headers' = Put(Top.at, Header(kind, size, 0))
  /\ pos' = length /\ UNCHANGED length
  /\ Return(Outer, 8 + size)
  /\ extents' = extents \cup {[at |-> Top.at, to |-> pos]}
  /\ Record(<<"end", 0>>)

StructEnd == End("struct", Top.written)
ObjectEnd == End("object", Top.written + 8)

------------------------------------------------------------------------------
(* Array serializers *)

\* 8 + length * SIZE is computed in a u32: a debug build panics if that
\* overflows, a release build writes what is left.
SerializeArray(count, elem) ==
  /\ turn = "value"
  /\ Gen(16)
  /\ headers' = Put(pos, Header("array", 8 + count * elem, elem))
  /\ frames' = Append(frames, [kind |-> "array", at |-> pos, written |-> 0,
                               length |-> count, elem |-> elem])
  /\ turn' = "frame"
  /\ Record(<<IF elem = 0 THEN "units" ELSE "array", count>>)
  /\ UNCHANGED <<result, extents>>

ArrayTooLong(count, elem) ==
  /\ turn = "value" /\ 8 + count * elem >= U32
  /\ turn' = "panicked"
  /\ UNCHANGED <<stream, headers, frames, result, extents, events>>

\* !self.written < self.length, with the bitwise complement of a u32.
RefusesElement == U32 - 1 - Top.written < Top.length

SerializeElement ==
  /\ turn = "frame" /\ Top.kind = "array" /\ ~RefusesElement
  /\ Gen(Top.elem)
  /\ frames' = [frames EXCEPT ![Depth].written = (@ + 1) % U32]
  /\ IF Top.elem = 0 THEN UNCHANGED events ELSE Record(<<"element", Top.elem>>)
  /\ UNCHANGED <<headers, turn, result, extents>>

\* In a debug build also where written, a u32, overflows.
ElementRefused ==
  /\ turn = "frame" /\ Top.kind = "array"
  /\ RefusesElement \/ Top.written = U32 - 1
  /\ turn' = "panicked"
  /\ UNCHANGED <<stream, headers, frames, result, extents, events>>

\* The body's length is a product of two u32.
BodyWritten == (Top.written * Top.elem) % U32

ArrayEndWith(complete, pad) ==
  /\ turn = "frame" /\ Top.kind = "array"
  /\ complete
  /\ Gen(pad)
  /\ Return(Outer, 16 + BodyWritten + pad)
  /\ extents' = extents \cup {[at |-> Top.at, to |-> pos']}
  /\ Record(<<"end", 0>>)
  /\ UNCHANGED headers

\* Mutants: without the assertion; without the padding.
ArrayEndUnchecked == ArrayEndWith(TRUE, Padding(BodyWritten))
ArrayEndUnpadded == ArrayEndWith(Top.written = Top.length, 0)
ArrayEnd == ArrayEndWith(Top.written = Top.length, Padding(BodyWritten))

ArrayIncomplete ==
  /\ turn = "frame" /\ Top.kind = "array" /\ Top.written # Top.length
  /\ turn' = "panicked"
  /\ UNCHANGED <<stream, headers, frames, result, extents, events>>

------------------------------------------------------------------------------
\* Any write may fail; the writer is lost and the error returned, through
\* serializers that are left without one.
WriteFails ==
  /\ turn \in {"value", "frame"}
  /\ turn' = "failed"
  /\ UNCHANGED <<stream, headers, frames, result, extents, events>>

Next == \/ \E size \in LeafSizes : WritePod(size)
        \/ \E count \in Lengths, elem \in ElemSizes :
             \/ Choice(count + 1, elem)
             \/ SerializeArray(count, elem) \/ ArrayTooLong(count, elem)
        \/ Pointer
        \/ SerializeStruct \/ SerializeField \/ StructEnd
        \/ SerializeObject \/ SerializeProperty \/ ObjectEnd
        \/ SerializeElement \/ ElementRefused \/ ArrayEnd \/ ArrayIncomplete
        \/ WriteFails

Spec == Init /\ [][Next]_vars

------------------------------------------------------------------------------
(* Properties *)

Frame == [kind : {"struct", "object", "array"}, at : Nat, written : Nat,
          length : Nat, elem : Nat]
Calls == {"leaf", "choice", "pointer", "struct", "object", "array", "units",
          "property", "element", "end"} \X Nat
PodHeader == [type : {"leaf", "choice", "pointer", "struct", "object", "array"},
              size : 0..U32 - 1, elem : Nat]

\* The shape of the state.
TypeOK ==
  /\ pos \in 0..Capacity /\ length \in pos..Capacity
  /\ DOMAIN headers \subseteq 0..Capacity
  /\ \A at \in DOMAIN headers : headers[at] \in PodHeader
  /\ frames \in Seq(Frame)
  /\ turn \in {"value", "frame", "done", "failed", "panicked"}
  /\ turn = "frame" => frames # <<>>
  /\ turn = "done" => frames = <<>>
  /\ result \in Nat
  /\ extents \subseteq [at : DOMAIN headers, to : 0..Capacity]
  /\ events \in Seq(Calls)

\* Every finished pod's header gives the length of its body, up to padding,
\* though structs and objects get theirs by adding up what nested
\* serializers report and write it afterwards, and arrays before they
\* have elements.
HeadersTruthful ==
  \A e \in extents :
    LET size == headers[e.at].size
    IN  e.to - e.at = 8 + size + Padding(size)

\* Every pod begins on a multiple of 8, whatever was written before it.
Aligned == turn = "value" => pos % 8 = 0

\* The length serialize reports is what it has written.
LengthReported == turn = "done" => result = pos

\* Seeking back after a header was written leads to where the writer was.
SeeksBack == [][StructEnd \/ ObjectEnd => pos' = pos]_vars
==============================================================================
