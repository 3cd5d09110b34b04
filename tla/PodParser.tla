------------------------------ MODULE PodParser ------------------------------
(***************************************************************************)
(* libspa/src/pod/parser.rs: a program reads pods by calls of Parser, some *)
(* of them made by nested Struct arms of parser_get!, whose frames are     *)
(* local variables of the arms; others with frames of its own.             *)
(***************************************************************************)
EXTENDS Integers, Sequences

CONSTANT LeafSizes

VARIABLES
  headers,   \* the pod header at each offset that has one
  total,     \* the parser's size
  cursor,    \* the parser's state.offset
  opened,    \* frames linked from state.frame, outermost first; arm when it
             \* belongs to a macro arm, alive until the arm is left
  mode       \* "parsing", or "leftovers" or "deadFrame" when a call has read
             \* bytes that are no pod, or a frame that is gone

parserVars == <<total, cursor, opened, mode>>

Padding(n) == (8 - (n % 8)) % 8

Depth == Len(opened)
Inner == opened[Depth]
End == IF opened = <<>> THEN total ELSE Inner.at + 8 + Inner.size

Usable == mode = "parsing" /\ (opened # <<>> => Inner.alive)

\* spa_pod_parser_current finds a pod.
Current == /\ cursor \in DOMAIN headers
           /\ cursor + 8 + headers[cursor].size <= End
Pod == headers[cursor]
Advance == cursor' = cursor + 8 + Pod.size + Padding(Pod.size)

\* get_bool and the like, asked for what is there.
Get(n) == /\ Usable /\ Current
          /\ Pod.type = "leaf" /\ Pod.size = n
          /\ Advance
          /\ UNCHANGED <<total, opened, mode>>

GetPod == /\ Usable /\ Current
          /\ Advance
          /\ UNCHANGED <<total, opened, mode>>

\* Mutant: the frame is taken for the pod behind its header.
PushBehindHeader(arm) ==
  /\ opened # <<>> /\ Inner.arm => arm
  /\ opened' = Append(opened, [at |-> cursor + 8, size |-> Pod.size,
                               arm |-> arm, alive |-> TRUE])

\* An arm contains fields and arms only.
Push(arm) ==
  /\ opened # <<>> /\ Inner.arm => arm
  /\ opened' = Append(opened, [at |-> cursor, size |-> Pod.size,
                               arm |-> arm, alive |-> TRUE])

PushStruct(arm) ==
  /\ Usable /\ Current /\ Pod.type = "struct"
  /\ Push(arm)
  /\ cursor' = cursor + 8
  /\ UNCHANGED <<total, mode>>

\* The C function leaves the offset at the end of the data.
PushObject ==
  /\ Usable /\ Current /\ Pod.type = "object"
  /\ Push(FALSE)
  /\ cursor' = total
  /\ UNCHANGED <<total, mode>>

\* Mutant: the parser stays where it was.
PopKeepsOffset ==
  /\ mode = "parsing"
  /\ \E k \in 1..Depth :
       /\ opened[k].alive /\ \A j \in k + 1..Depth : ~opened[j].alive
       /\ opened' = SubSeq(opened, 1, k - 1)
  /\ UNCHANGED <<total, cursor, mode>>

\* The last frame that is alive is popped, however much of it was read, and
\* with it what is linked on top of it.
Pop ==
  /\ mode = "parsing"
  /\ \E k \in 1..Depth :
       /\ opened[k].alive /\ \A j \in k + 1..Depth : ~opened[j].alive
       /\ cursor' = opened[k].at + 8 + opened[k].size
       /\ opened' = SubSeq(opened, 1, k - 1)
  /\ UNCHANGED <<total, mode>>

\* A call in an arm asks for another type than is there, or for more than
\* there is: every arm is left at once, and none pops its frame.
Fails ==
  /\ Usable /\ opened # <<>> /\ Inner.arm
  /\ opened' = [i \in 1..Depth |-> [opened[i] EXCEPT !.alive = ~opened[i].arm]]
  /\ UNCHANGED <<total, cursor, mode>>

\* The next call reads the end of the frame that is gone.
UseDeadFrame ==
  /\ mode = "parsing" /\ opened # <<>> /\ ~Inner.alive
  /\ mode' = "deadFrame"
  /\ UNCHANGED <<total, cursor, opened>>

\* A call behind what was built.
UseLeftovers ==
  /\ Usable /\ cursor + 8 <= End /\ cursor \notin DOMAIN headers
  /\ mode' = "leftovers"
  /\ UNCHANGED <<total, cursor, opened>>

Parse == \/ \E n \in LeafSizes : Get(n)
         \/ GetPod
         \/ \E arm \in BOOLEAN : PushStruct(arm)
         \/ PushObject
         \/ Pop
         \/ Fails \/ UseDeadFrame \/ UseLeftovers
==============================================================================
