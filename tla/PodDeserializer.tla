--------------------------- MODULE PodDeserializer ---------------------------
(***************************************************************************)
(* libspa/src/pod/deserialize.rs on an input of which the pod headers are  *)
(* known: deserialize_any with the ValueVisitor, which reads structs and   *)
(* objects to their end, or a program's own PodDeserialize and visitors,   *)
(* which ask for types of their choice, stop where they like and may go on *)
(* after an error.  The sequence of scopes is the call stack.              *)
(***************************************************************************)
EXTENDS Integers, Sequences

CONSTANT U32   \* 2^32

VARIABLES
  headers,   \* the input: the pod header at each offset that has one
  total,     \* the input's length
  input,     \* how much of it has been consumed
  scopes,    \* struct, object and array deserializers, outermost first
  stage,     \* what happens next: a "value" is read, the innermost "scope"
             \* goes on, or nothing: "done", "error", "panicked"
  typed,     \* the program asks for types, with visitors of its own
  calls,     \* history: what was read
  panic      \* history: why a read that panicked did. A "visitor" did what its
             \* documentation forbids or went on after an error; an "unwrap";
             \* a "division" by zero; "" for what nothing here allows for

vars == <<input, scopes, stage, typed, calls, panic>>

Init == /\ input = 0 /\ scopes = <<>> /\ stage = "value" /\ typed = FALSE
        /\ calls = <<>> /\ panic = ""

calc_padding_needed(size) == (8 - (size % 8)) % 8

Pod == headers[input]
Kind == IF input \in DOMAIN headers THEN Pod.type ELSE "invalid"

Depth == Len(scopes)
Top == scopes[Depth]
Record(call) == calls' = Append(calls, call)

\* The input ends before n more bytes.
Cut(n) == input + n > total
Consume(n) == ~Cut(n) /\ input' = input + n

Panic(why) == /\ stage' = "panicked" /\ panic' = why
              /\ UNCHANGED <<input, scopes, typed, calls>>

\* A choice's values are read like an array's.
ChoiceValues == (Pod.size - 16) \div Pod.elem
ChoiceBytes == IF Pod.elem = 0 THEN 0 ELSE ChoiceValues * Pod.elem

\* How much is consumed before a visitor gets the pod, or what is in it.
Bytes == 8 + CASE Kind = "leaf" -> Pod.size + calc_padding_needed(Pod.size)
               [] Kind = "choice" -> 16 + ChoiceBytes + calc_padding_needed(ChoiceBytes)
               [] Kind = "pointer" -> Pod.size
               [] Kind = "struct" -> 0
               [] OTHER -> 8

\* Mutant: the input is measured after the property's key was read.
FinishForgetsKey(outer) ==
  /\ UNCHANGED <<typed, panic>>
  /\ IF outer = <<>> THEN scopes' = outer /\ stage' = "done"
     ELSE LET own == outer[Len(outer)]
              left == own.remaining - (input' - own.mark)
                      + (IF own.kind = "object" THEN 8 ELSE 0)
          IN  IF left < 0 THEN scopes' = outer /\ stage' = "panicked"
              ELSE /\ scopes' = [outer EXCEPT ![Len(outer)].remaining = left,
                                             ![Len(outer)].held = TRUE]
                   /\ stage' = "scope"

\* DeserializeSuccess goes back to deserialize_field or deserialize_property,
\* which subtracts what was consumed from a u32 and puts the deserializer back.
Finish(outer) ==
  /\ UNCHANGED <<typed, panic>>
  /\ IF outer = <<>> THEN scopes' = outer /\ stage' = "done"
     ELSE LET own == outer[Len(outer)]
              left == own.remaining - (input' - own.mark)
          IN  IF left < 0 THEN scopes' = outer /\ stage' = "panicked"
              ELSE /\ scopes' = [outer EXCEPT ![Len(outer)].remaining = left,
                                             ![Len(outer)].held = TRUE]
                   /\ stage' = "scope"

\* An error goes back to the visitor that asked; the deserializer is gone.
Fail(outer) ==
  /\ scopes' = outer
  /\ stage' = IF outer = <<>> THEN "error" ELSE "scope"
  /\ UNCHANGED <<input, typed, calls, panic>>

------------------------------------------------------------------------------
(* Pods that are read in one go *)

Whole(kind, call) ==
  /\ stage = "value" /\ Kind = kind
  /\ Consume(Bytes)
  /\ Finish(scopes)
  /\ Record(call)

Leaf == Whole("leaf", <<"leaf", Pod.size>>)
Choice == /\ Kind = "choice" /\ Pod.elem # 0
          /\ Whole("choice", <<"choice", ChoiceValues>>)

\* The number of values is computed from their size before their type is known.
ChoiceOfUnits == /\ stage = "value" /\ Kind = "choice" /\ Pod.elem = 0
                 /\ ~Cut(24)
                 /\ Panic("division")

\* A pointer of another size panics; no serializer writes one.
Pointer == /\ Kind = "pointer" /\ Pod.size - 8 \in {4, 8}
           /\ Whole("pointer", <<"pointer", Pod.size - 8>>)

------------------------------------------------------------------------------
(* Struct and object deserializers *)

Begin(kind, remaining) ==
  /\ stage = "value" /\ Kind = kind
  /\ Consume(Bytes)
  /\ scopes' = Append(scopes, [kind |-> kind, remaining |-> remaining,
                               mark |-> 0, held |-> TRUE,
                               length |-> 0, read |-> 0, elem |-> 0])
  /\ stage' = "scope"
  /\ Record(<<kind, Bytes>>)
  /\ UNCHANGED <<typed, panic>>

Struct == Begin("struct", Pod.size)
Object == Begin("object", (Pod.size - 8) % U32)

\* The visitor goes on; what it asks for gets the deserializer.
GoesOn(kind) ==
  /\ stage = "scope" /\ Top.kind = kind /\ Top.remaining # 0 /\ Top.held
  /\ scopes' = [scopes EXCEPT ![Depth].mark = input, ![Depth].held = FALSE]
  /\ stage' = "value"
  /\ UNCHANGED <<typed, panic>>

DeserializeField == GoesOn("struct") /\ UNCHANGED <<input, calls>>

DeserializeProperty ==
  GoesOn("object") /\ Consume(8) /\ Record(<<"property", 8>>)

InVisitor == stage = "scope" /\ Top.kind \in {"struct", "object"}
Outer == SubSeq(scopes, 1, Depth - 1)

\* Mutant: a visitor may stop before the end.
EndUnchecked ==
  /\ InVisitor /\ (typed \/ Top.remaining = 0)
  /\ UNCHANGED input
  /\ Finish(Outer)
  /\ Record(<<"end", 0>>)

\* The visitor got None; no padding is parsed.
End ==
  /\ InVisitor /\ Top.remaining = 0
  /\ UNCHANGED input
  /\ Finish(Outer)
  /\ Record(<<"end", 0>>)

\* A visitor returns an error: the one it got, that a key is missing or wrong
\* (deserialize_property_key), or its own.
VisitorFails == /\ InVisitor /\ (typed \/ ~Top.held)
                /\ Fail(Outer)

\* A visitor stops before the end, or goes on after an error, which finds no
\* deserializer.
VisitorAstray ==
  /\ typed /\ InVisitor /\ Top.remaining # 0
  /\ Panic("visitor")

------------------------------------------------------------------------------
(* Array deserializers *)

\* Of elements that have no bytes there are none.
Array ==
  /\ stage = "value" /\ Kind = "array"
  /\ Consume(Bytes)
  /\ LET count == IF Pod.elem = 0 THEN 0 ELSE ((Pod.size - 8) % U32) \div Pod.elem
     IN  /\ scopes' = Append(scopes, [kind |-> "array", remaining |-> 0,
                       mark |-> 0, held |-> TRUE,
                       length |-> count, read |-> 0, elem |-> Pod.elem])
         /\ Record(<<IF Pod.elem = 0 THEN "units" ELSE "array", count>>)
  /\ stage' = "scope"
  /\ UNCHANGED <<typed, panic>>

DeserializeElement ==
  /\ stage = "scope" /\ Top.kind = "array" /\ Top.read < Top.length
  /\ Consume(Top.elem)
  /\ scopes' = [scopes EXCEPT ![Depth].read = @ + 1]
  /\ Record(<<"element", Top.elem>>)
  /\ UNCHANGED <<stage, typed, panic>>

ArrayEnd ==
  /\ stage = "scope" /\ Top.kind = "array" /\ Top.read = Top.length
  /\ Consume(calc_padding_needed(Top.read * Top.elem))
  /\ Finish(Outer)
  /\ Record(<<"end", 0>>)

------------------------------------------------------------------------------
Read == \/ Leaf \/ Choice \/ ChoiceOfUnits \/ Pointer
        \/ Struct \/ DeserializeField \/ Object \/ DeserializeProperty \/ End
        \/ Array \/ DeserializeElement \/ ArrayEnd

\* An unknown type, or too little input for what is next.  A property whose
\* key is cut off keeps the deserializer.
Reject ==
  \/ /\ stage = "value"
     /\ Kind = "invalid" \/ Cut(Bytes)
     /\ Fail(scopes)
  \/ /\ stage = "scope" /\ Top.kind = "array"
     /\ Cut(IF Top.read < Top.length THEN Top.elem
            ELSE calc_padding_needed(Top.read * Top.elem))
     /\ Fail(Outer)
  \/ /\ stage = "scope" /\ Top.kind = "object" /\ Top.remaining # 0 /\ Top.held
     /\ Cut(8)
     /\ scopes' = [scopes EXCEPT ![Depth].mark = input, ![Depth].held = FALSE]
     /\ UNCHANGED <<input, stage, typed, calls, panic>>

\* A type was asked for that is not there.
WrongType == typed /\ stage = "value" /\ Fail(scopes)

\* The type is there, but the visitor does not take it.
Unsupported == typed /\ stage = "value" /\ Kind # "invalid" /\ Fail(scopes)

\* deserialize_none unwraps where something else than a whole None is; what has
\* no bytes may be empty Bytes, or a None that is cut off.
AskNone == typed /\ stage = "value" /\ Panic("unwrap")

Next == Read \/ Reject \/ VisitorFails \/ VisitorAstray
        \/ WrongType \/ Unsupported \/ AskNone
==============================================================================
