---------------------------- MODULE MCThreadLoop -----------------------------
(* Instances of ThreadLoop for TLC. *)
EXTENDS ThreadLoop, TLC

CONSTANTS event, timer, idle, io
Kinds == event :> "event" @@ timer :> "timer" @@ idle :> "idle" @@ io :> "io"
==============================================================================
