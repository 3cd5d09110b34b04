------------------------------ MODULE PodViews -------------------------------
(***************************************************************************)
(* libspa/src/pod/mod.rs: the iterators over the fields of a struct and    *)
(* the properties of an object, which step through the bytes by what the   *)
(* headers say.                                                            *)
(***************************************************************************)
EXTENDS Integers, Sequences

VARIABLES
  headers,   \* the pod header at each offset that has one
  view       \* the iterator in use: the pod it is over, its next pointer,
             \* how many it has yielded, and whether it has returned None

Padding(n) == (8 - (n % 8)) % 8
NoView == [at |-> 0, next |-> 0, yielded |-> 0, over |-> TRUE]

\* as_struct and fields, or as_object and props.
Fields(at) == /\ headers[at].type = "struct"
              /\ view' = [at |-> at, next |-> at + 8, yielded |-> 0, over |-> FALSE]
Props(at) == /\ headers[at].type = "object"
             /\ view' = [at |-> at, next |-> at + 16, yielded |-> 0, over |-> FALSE]

\* The value a property is in front of begins behind its key and flags.
Key == IF headers[view.at].type = "object" THEN 8 ELSE 0
Value == headers[view.next + Key]
\* spa_pod_is_inside and spa_pod_prop_is_inside.
Inside == view.next < view.at + 8 + headers[view.at].size

\* Mutant: a property's key is not stepped over.
NextForgetsKey ==
  /\ ~view.over
  /\ IF Inside
     THEN view' = [view EXCEPT !.next = @ + 8 + Value.size + Padding(Value.size),
                               !.yielded = @ + 1]
     ELSE view' = [view EXCEPT !.over = TRUE]

\* The child next points to is returned and next moved behind it, or None.
Next == /\ ~view.over
        /\ IF Inside
           THEN view' = [view EXCEPT !.next = @ + Key + 8 + Value.size + Padding(Value.size),
                                     !.yielded = @ + 1]
           ELSE view' = [view EXCEPT !.over = TRUE]
==============================================================================
