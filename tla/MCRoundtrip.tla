---------------------------- MODULE MCRoundtrip ------------------------------
(***************************************************************************)
(* Roundtrip with its return codes: SpaResult, whose operators the         *)
(* roundtrip's sequence numbers go through, on every i32.                  *)
(***************************************************************************)
EXTENDS Roundtrip

VARIABLE res   \* what some C call returned, or a sequence number

MCInit == Init /\ res \in I32
MCNext == Next /\ UNCHANGED res
MCSpec == MCInit /\ [][MCNext]_<<vars, res>> /\ Fairness

------------------------------------------------------------------------------
(* Properties *)

\* A sequence number survives the trip through a C return: of every i32
\* from_seq makes an answer to come, which is taken for one and has the low
\* bits for its sequence number.
SeqSurvives ==
  LET raw == from_seq(res) IN
  /\ raw \in I32 /\ into_async_result(raw) = AsyncOk(raw)
  /\ async_seq(raw) = async_seq(res)

\* into_result never takes an error for an answer to come, though the async bit
\* is set in small errnos: it is an error or a panic exactly on what is
\* negative, asynchronous exactly where is_async says so, which are the values
\* from the async bit up, and an error that it names is the one that was
\* returned.
Classified ==
  LET r == into_result(res) IN
  /\ res < 0 <=> r.kind \in {"error", "panic"}
  /\ r.kind = "async" <=> res >= AsyncBit
  /\ is_async(res) <=> r.kind = "async"
  /\ r.kind = "error" /\ r.value # UnknownErrno => r.value = -res
==============================================================================
