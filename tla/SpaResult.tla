------------------------------ MODULE SpaResult ------------------------------
(***************************************************************************)
(* libspa/src/utils/result.rs: an i32 returned by a C method is an error,  *)
(* a synchronous result or the promise of an answer with a sequence        *)
(* number.  AsyncBit is SPA_ASYNC_BIT (2^30); an i32 has one value bit     *)
(* more, and the sign.                                                     *)
(***************************************************************************)
EXTENDS Integers

CONSTANTS
  AsyncBit,
  Errnos     \* the numbers of the errors that the system has names for

ASSUME AsyncBitAssumption == AsyncBit \in Nat \ {0}
ASSUME ErrnosAssumption == Errnos \subseteq Nat \ {0}

I32 == -(2 * AsyncBit) .. 2 * AsyncBit - 1

\* res & SPA_ASYNC_SEQ_MASK, in two's complement.
async_seq(res) == res % AsyncBit

\* The bits above those, the sign first, as a number below 4.
top_bits(val) == (val % (4 * AsyncBit)) \div AsyncBit

\* Mutant: the sign bit is not tested.
is_async_unsigned(val) == top_bits(val) % 2 = 1
\* SPA_ASYNC_MASK is the async bit and the sign bit.
is_async(val) == top_bits(val) = 1

\* Mutant: the bit is added to a sequence number that was not masked.
from_seq_unmasked(seq) == IF seq + AsyncBit >= 2 * AsyncBit
                          THEN seq - 3 * AsyncBit ELSE seq + AsyncBit
\* AsyncSeq::from_seq, and SpaResult::new_return_async
from_seq(seq) == AsyncBit + async_seq(seq)

AsyncOk(raw) == [kind |-> "async", value |-> raw]
SyncOk(res) == [kind |-> "sync", value |-> res]

\* Errno::from_raw makes one error, whose number is 0, of all that have no name.
UnknownErrno == 0
Err(e) == [kind |-> "error", value |-> IF e \in Errnos THEN e ELSE UnknownErrno]
Panic == [kind |-> "panic", value |-> 0]

\* Negating i32::MIN overflows: a panic, or a negative errno that
\* Error::new's assertion refuses.
into_result(res) ==
  IF res = -(2 * AsyncBit) THEN Panic
  ELSE IF res < 0 THEN Err(-res)
  ELSE IF is_async(res) THEN AsyncOk(res) ELSE SyncOk(res)

Demand(kind, result) == IF result.kind \in {kind, "error"} THEN result ELSE Panic

into_async_result(res) == Demand("async", into_result(res))
into_sync_result(res) == Demand("sync", into_result(res))
==============================================================================
