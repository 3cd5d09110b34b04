---------------------------- MODULE PodRoundtrip -----------------------------
(***************************************************************************)
(* What one call of PodSerializer::serialize wrote, or the beginning of    *)
(* it, is read by one call of PodDeserializer::deserialize_from, as a      *)
(* Value or as a type of the program.                                      *)
(***************************************************************************)
EXTENDS PodSerializer

VARIABLES total, input, scopes, stage, typed, calls, panic

Reader == INSTANCE PodDeserializer

readerVars == <<total, input, scopes, stage, typed, calls, panic>>
allVars == <<vars, readerVars>>

RoundtripInit == Init /\ total = 0 /\ Reader!Init

Read(n) == /\ turn = "done" /\ total = 0
           /\ total' = n /\ typed' \in BOOLEAN
           /\ UNCHANGED <<vars, input, scopes, stage, calls, panic>>

\* deserialize_from gets everything, or only a part of it.
DeserializeFrom ==
  \E n \in 1..length : (n = length \/ n % 4 = 0) /\ Read(n)

\* deserialize_ptr looks up the length in the header.
DeserializePtr == Read(8 + headers[0].size)

ReaderStep == /\ total > 0
              /\ Reader!Next
              /\ UNCHANGED <<vars, total>>

RoundtripNext == \/ Next /\ UNCHANGED readerVars
                 \/ DeserializeFrom \/ DeserializePtr
                 \/ ReaderStep

RoundtripSpec == /\ RoundtripInit /\ [][RoundtripNext]_allVars
                 /\ WF_allVars(ReaderStep)

------------------------------------------------------------------------------
(* Properties *)

\* What is read of what was written: no number of elements without bytes.
Seen(call) == IF call[1] = "units" THEN <<"units", 0>> ELSE call

\* The reader makes of the bytes what the writer was told to write: the same
\* nesting, the same counts save of elements without bytes, in the same order.
\* It refuses nothing that was written whole unless a visitor does.  No counter
\* of remaining bytes runs below zero: without visitors of the program's own
\* the only panic is the division by the size of a choice's values.
ReadsWhatWasWritten ==
  /\ stage = "panicked" =>
       panic = "division" \/ (typed /\ panic \in {"visitor", "unwrap"})
  /\ stage = "error" => total < length \/ typed
  /\ Len(calls) <= Len(events)
  /\ \A i \in 1..Len(calls) : calls[i] = Seen(events[i])
  /\ stage = "done" => Len(calls) = Len(events)

\* The reader succeeds only on the whole pod and consumes exactly what the
\* writer said it wrote, whatever types a program asks for, wherever its
\* visitors stop and whatever errors they pass over.
ConsumesExactly == stage = "done" => input = result /\ total = length

\* Where the pod that scope i reads ends.
EndOf(i) == scopes[i].remaining
            + (IF scopes[i].held THEN input ELSE scopes[i].mark)

\* A nested struct or object ends where its parent does, or before.
ScopesNested ==
  stage \in {"value", "scope"} =>
    \A i \in 1..Len(scopes) - 1 :
      scopes[i + 1].kind # "array" => EndOf(i + 1) <= EndOf(i)

\* Every call of the reader ends, whole or cut its input: with the pod, with an
\* error, or in one of the three panics that have a name.
ReaderFinishes ==
  total > 0 ~> stage \in {"done", "error"} \/ (stage = "panicked" /\ panic # "")

\* A pod that is read through a pointer to it is accepted.
PointerAccepted ==
  total > 0 /\ total = 8 + headers[0].size /\ ~typed => stage # "error"

\* A pod of another type than the one asked for is an error, no panic.
WrongTypesAreErrors == stage = "panicked" => panic = "visitor"
==============================================================================
