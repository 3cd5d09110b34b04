----------------------------- MODULE PodBuilder ------------------------------
(***************************************************************************)
(* libspa/src/pod/builder.rs: pods are built in a Vec through C's          *)
(* spa_pod_builder, which keeps its own idea of where the Vec's buffer is  *)
(* and how long.  The Vec grows by the overflow callback, and may move.    *)
(* Calls nest as in builder_add!.  Bytes of bodies are left out.           *)
(***************************************************************************)
EXTENDS Integers, Sequences

CONSTANTS
  LeafSizes,   \* body sizes of the pods that are added whole
  Capacity,    \* most bytes that are built
  Held         \* length of the Vec that Builder::new gets

ASSUME BuilderAssumption ==
  /\ LeafSizes \subseteq Nat
  /\ Capacity \in Nat /\ Held \in 0..Capacity

VARIABLES
  len,       \* the Vec's length
  home,      \* where its buffer is: one of two places
  size,      \* the builder's size
  data,      \* the builder's data pointer
  offset,    \* the builder's state.offset
  frames,    \* open frames, outermost first: the pod header to be written
             \* and where; keyed when a property's key waits for its value
  headers,   \* the pod header in the Vec at each offset that has one
  extents    \* history: where each finished pod lies, how deep, and how many
             \* children it has

vector == <<len, home, size, data>>
builderVars == <<vector, offset, frames, headers, extents>>

\* What the Vec holds is overwritten.
New == /\ len = Held /\ home = 0
       /\ size = Held /\ data = 0 /\ offset = 0
       /\ frames = <<>> /\ headers = <<>> /\ extents = {}

Padding(n) == (8 - (n % 8)) % 8
Depth == Len(frames)
Top == frames[Depth]

\* Mutant: the new address is not passed on.
OverflowKeepsData(need) ==
  /\ len' = need /\ home' \in {0, 1}
  /\ data' = data /\ size' = need

\* The Vec is resized to what is needed, which may move it.
Overflow(need) ==
  /\ len' = need /\ home' \in {0, 1}
  /\ data' = home' /\ size' = need

\* spa_pod_builder_raw: n bytes at the offset.
Raw(n) ==
  /\ offset + n <= Capacity
  /\ offset' = offset + n
  /\ IF offset + n > size THEN Overflow(offset + n) ELSE UNCHANGED vector

\* Mutant: only the innermost frame counts the bytes.
CountedOnce(n) == [i \in 1..Depth |->
                     IF i = Depth THEN [frames[i] EXCEPT !.size = @ + n] ELSE frames[i]]

\* All open frames count the bytes.
Counted(n) == [i \in 1..Depth |-> [frames[i] EXCEPT !.size = @ + n]]

\* The innermost frame gets a child.
Parents(n) ==
  IF frames = <<>> THEN frames
  ELSE [Counted(n) EXCEPT ![Depth].keyed = FALSE, ![Depth].count = @ + 1]

\* A header written where the builder believes the Vec to be.
Store(at, type, n) ==
  headers' = IF data' # home' THEN headers
             ELSE [x \in DOMAIN headers \cup {at} |->
                     IF x = at THEN [type |-> type, size |-> n] ELSE headers[x]]

Finished(at, to, depth, count) ==
  extents' = extents \cup {[at |-> at, to |-> to, depth |-> depth, count |-> count]}

\* A value goes to the top level, into a struct, or behind a key.
Ready == frames # <<>> => Top.kind = "struct" \/ Top.keyed

------------------------------------------------------------------------------
\* add_bool and the like, and add_array.
AddWhole(n) ==
  /\ Ready
  /\ Raw(8 + n + Padding(n))
  /\ Store(offset, "leaf", n)
  /\ frames' = Parents(8 + n + Padding(n))
  /\ Finished(offset, offset', Depth, 0)

Push(kind, head) ==
  /\ Ready
  /\ Raw(head)
  /\ Store(offset, kind, head - 8)
  /\ frames' = Append(Parents(head), [kind |-> kind, at |-> offset,
                        size |-> head - 8, keyed |-> FALSE, count |-> 0])
  /\ UNCHANGED extents

PushStruct == Push("struct", 8)
PushObject == Push("object", 16)
PushSequence == Push("sequence", 16)

\* add_prop, and add_control in a sequence.
AddKey(kind) ==
  /\ frames # <<>> /\ Top.kind = kind /\ ~Top.keyed
  /\ Raw(8)
  /\ frames' = [Counted(8) EXCEPT ![Depth].keyed = TRUE]
  /\ UNCHANGED <<headers, extents>>

AddProp == AddKey("object")
AddControl == AddKey("sequence")

\* The frame's header is written over the first one, if it is in reach.
Pop ==
  /\ frames # <<>> /\ ~Top.keyed
  /\ frames' = SubSeq(frames, 1, Depth - 1)
  /\ UNCHANGED <<vector, offset>>
  /\ IF Top.at + 8 + Top.size <= size THEN Store(Top.at, Top.kind, Top.size)
                                      ELSE UNCHANGED headers
  /\ Finished(Top.at, offset, Depth - 1, Top.count)

Build == \/ \E n \in LeafSizes : AddWhole(n)
         \/ PushStruct \/ PushObject \/ PushSequence
         \/ AddProp \/ AddControl
         \/ Pop

BuilderSpec == New /\ [][Build]_builderVars

------------------------------------------------------------------------------
(* Properties *)

Kinds == {"struct", "object", "sequence"}
Frame == [kind : Kinds, at : Nat, size : Nat, keyed : BOOLEAN, count : Nat]

\* The shape of the state.
BuilderTypeOK ==
  /\ len \in 0..Capacity /\ size \in 0..Capacity
  /\ home \in {0, 1} /\ data \in {0, 1}
  /\ offset \in 0..Capacity
  /\ frames \in Seq(Frame)
  /\ DOMAIN headers \subseteq 0..Capacity
  /\ \A at \in DOMAIN headers : headers[at] \in [type : Kinds \cup {"leaf"}, size : Nat]
  /\ extents \subseteq [at : 0..Capacity, to : 0..Capacity, depth : Nat, count : Nat]

\* The Vec holds every pod that was finished, with a header that gives its
\* length, though the headers of structs, objects and sequences are written
\* back after the Vec may have grown and moved.
HeadersWritten ==
  \A e \in extents :
    /\ e.to <= len /\ e.at \in DOMAIN headers
    /\ e.to - e.at = 8 + headers[e.at].size + Padding(headers[e.at].size)
==============================================================================
