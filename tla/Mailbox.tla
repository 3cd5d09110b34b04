------------------------------- MODULE Mailbox -------------------------------
(***************************************************************************)
(* What pipewire::channel promises its users, without mutex, pipe or loop. *)
(* Every message is accepted or refused once; accepted messages are handed *)
(* to the callback in the order of acceptance, each once; while the        *)
(* receiver is attached to a running loop none waits for ever.  Only the   *)
(* callback can end that: a panic loses what waited and refuses            *)
(* everything else, and if it sends to its own mailbox nobody listens any  *)
(* more.                                                                   *)
(***************************************************************************)
EXTENDS Sequences

CONSTANT Msg

VARIABLES waiting,     \* accepted messages, oldest first
          delivered,   \* every message handed to the callback, in order
          outcome,     \* what send returned for each message
          listening,   \* the receiver is attached to a running loop
          broken       \* a callback has panicked

vars == <<waiting, delivered, outcome, listening, broken>>

Init == /\ waiting = <<>>
        /\ delivered = <<>>
        /\ outcome = [m \in Msg |-> "none"]
        /\ listening = FALSE
        /\ broken = FALSE

Accept(m) == /\ ~broken
             /\ outcome[m] = "none"
             /\ outcome' = [outcome EXCEPT ![m] = "ok"]
             /\ waiting' = Append(waiting, m)
             /\ UNCHANGED <<delivered, listening, broken>>

Refuse(m) == /\ outcome[m] = "none"
             /\ outcome' = [outcome EXCEPT ![m] = "err"]
             /\ UNCHANGED <<waiting, delivered, listening, broken>>

Deliver == /\ listening
           /\ waiting # <<>>
           /\ delivered' = Append(delivered, Head(waiting))
           /\ waiting' = Tail(waiting)
           /\ UNCHANGED <<outcome, listening, broken>>

Wedge == /\ listening
         /\ waiting # <<>>
         /\ delivered' = Append(delivered, Head(waiting))
         /\ waiting' = Tail(waiting)
         /\ listening' = FALSE
         /\ UNCHANGED <<outcome, broken>>

Break == /\ listening
         /\ waiting # <<>>
         /\ delivered' = Append(delivered, Head(waiting))
         /\ waiting' = <<>>
         /\ broken' = TRUE
         /\ UNCHANGED <<outcome, listening>>

Listen == /\ listening' = ~listening
          /\ UNCHANGED <<waiting, delivered, outcome, broken>>

Next == \/ \E m \in Msg : Accept(m) \/ Refuse(m)
        \/ Deliver \/ Wedge \/ Break \/ Listen

SafeSpec == Init /\ [][Next]_vars

Spec == SafeSpec /\ WF_vars(Deliver \/ Wedge \/ Break)
==============================================================================
