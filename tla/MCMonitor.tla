------------------------------ MODULE MCMonitor ------------------------------
(* Instances of Monitor for TLC. *)
EXTENDS Monitor, TLC

CONSTANTS node, metadata, other
Types == node :> "Node" @@ metadata :> "Metadata" @@ other :> "Other"
==============================================================================
