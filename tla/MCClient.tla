------------------------------- MODULE MCClient -------------------------------
(***************************************************************************)
(* Three programs of a client: one that does a roundtrip, one that follows *)
(* the registry, and one that passes on a stream's buffers.  A behaviour   *)
(* is that of one of them, or only a return code to look at.               *)
(***************************************************************************)
EXTENDS MCRoundtrip, MCMonitor, MCStreamBuffers

VARIABLE example

roundtripVars == <<vars, res>>

ClientInit == /\ MCInit /\ MonitorInit /\ BuffersInit
              /\ example \in {"code", "roundtrip", "monitor", "stream"}
              /\ example # "code" => res = 0
              /\ example # "stream" =>
                   \A b \in Buffers : point[b] = 0 /\ strong[b] = 0 /\ weak[b] = 0

Roundtrips(A) == /\ example = "roundtrip" /\ A
                 /\ UNCHANGED <<example, res, monitorVars, bufferVars>>
Monitors(A) == /\ example = "monitor" /\ A
               /\ UNCHANGED <<example, roundtripVars, bufferVars>>
PassesOn(A) == /\ example = "stream" /\ A
               /\ UNCHANGED <<example, roundtripVars, monitorVars>>

ClientNext == Roundtrips(Next) \/ Monitors(MonitorNext) \/ PassesOn(BuffersNext)

allVars == <<roundtripVars, monitorVars, bufferVars, example>>

\* The fairness of the three, whichever of them runs.
ClientFairness ==
  /\ WF_allVars(Roundtrips(Client) \/ Monitors(ServeBind))
  /\ WF_allVars(Roundtrips(Serve) \/ Monitors(Dispatch))
  /\ \A b \in Buffers : /\ WF_allVars(PassesOn(Poll(b)))
                        /\ WF_allVars(PassesOn(TimePasses(b)))

ClientSpec == ClientInit /\ [][ClientNext]_allVars /\ ClientFairness
==============================================================================
