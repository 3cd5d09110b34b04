------------------------------ MODULE PodFrames ------------------------------
(***************************************************************************)
(* Pods built by a Builder are read from its Vec by a Parser and looked at *)
(* as Pods.                                                                *)
(***************************************************************************)
EXTENDS PodBuilder

VARIABLES
  reading,   \* who reads the Vec once the Builder is gone: "no" one yet, a
             \* "parser", or iterators over "views"
  total,     \* how much of the Vec the reader gets
  cursor, opened, mode, view

Parser == INSTANCE PodParser
Views == INSTANCE PodViews

readerVars == <<total, cursor, opened, mode, view>>
allVars == <<builderVars, reading, readerVars>>

Init == /\ New
        /\ reading = "no"
        /\ total = 0 /\ cursor = 0 /\ opened = <<>> /\ mode = "parsing"
        /\ view = Views!NoView

Read(who, n) == /\ reading = "no" /\ frames = <<>> /\ extents # {}
                /\ reading' = who /\ total' = n
                /\ UNCHANGED <<builderVars, cursor, opened, mode, view>>

\* The length of the bytes that Pod::as_bytes returns for the first pod.
as_bytes == 8 + headers[0].size

\* Parser::new over the Vec, or Parser::from_pod with its first pod.
ParserNew == Read("parser", len)
ParserFromPod == Read("parser", as_bytes)

\* Pod::from_bytes makes a pod of n bytes if they hold all of it.
from_bytes(n) == Read("views", n) /\ as_bytes + Padding(headers[0].size) <= n

\* Structs and objects of which a reference can be had.
View == \E at \in DOMAIN headers :
          /\ at < as_bytes
          /\ Views!Fields(at) \/ Views!Props(at)

Next == \/ reading = "no" /\ Build /\ UNCHANGED <<reading, readerVars>>
        \/ ParserNew \/ ParserFromPod \/ \E n \in 1..len : from_bytes(n)
        \/ /\ reading = "parser" /\ Parser!Parse
           /\ UNCHANGED <<builderVars, reading, view>>
        \/ /\ reading = "views"
           /\ (view.over /\ View) \/ Views!Next
           /\ UNCHANGED <<builderVars, reading, total, cursor, opened, mode>>

Spec == Init /\ [][Next]_allVars

------------------------------------------------------------------------------
(* Properties *)

Built(at, depth) == {e \in extents : e.at = at /\ e.depth = depth}

\* As long as no frame has died the parser is in step with the builder: it
\* stands before a pod that was built as a child of its innermost frame, or at
\* the frame's end, whatever was read, skipped, or left when a frame was
\* popped before its end.
InStep ==
  reading = "parser" /\ Parser!Usable =>
    \/ \E e \in Built(cursor, Len(opened)) : opened # <<>> => e.to <= Parser!End
    \/ IF opened = <<>> THEN cursor = offset
       ELSE cursor \in {Parser!End, total}

\* The parser's frames are structs and objects as they were built, each
\* within the one before.
FramesNested ==
  \A i \in 1..Len(opened) :
    LET end(f) == f.at + 8 + f.size
    IN  /\ \E e \in Built(opened[i].at, i - 1) : e.to = end(opened[i])
        /\ i > 1 => /\ opened[i - 1].at < opened[i].at
                    /\ end(opened[i]) <= end(opened[i - 1])

\* An iterator yields each child once and stays in the slice: it always
\* stands before a child, or at the end, where it has yielded as many as
\* were added.
EachChildOnce ==
  view # Views!NoView =>
    \E e \in extents :
      /\ e.at = view.at /\ e.to <= total
      /\ IF view.next = e.to THEN e.count = view.yielded
         ELSE /\ ~view.over
              /\ \E child \in Built(view.next + Views!Key, e.depth + 1) : child.to <= e.to

\* No call reads a frame that has gone out of scope.
FramesAlive == mode # "deadFrame"
==============================================================================
