--------------------------- MODULE BandwidthRate ---------------------------
(***************************************************************************)
(* BandwidthRate::transfer_time (src/src/resource/bandwidth_rate.cpp):     *)
(* bytes at rate.bytes per rate.interval, in whole units of time, rounded  *)
(* up.  std::uint64_t is a word of MaxWord + 1 values; sums and products   *)
(* wrap.                                                                   *)
(***************************************************************************)
EXTENDS Integers

CONSTANTS MaxWord,    \* std::numeric_limits<std::uint64_t>::max()
          Overflow    \* std::overflow_error was thrown

ASSUME WordAssumption == MaxWord \in Nat \ {0} /\ Overflow \notin Int

Wrap(n) == n % (MaxWord + 1)

TransferOverflows_without_rounding(rate, bytes) == bytes > MaxWord \div rate.interval

\* The two checks: the product, and the sum that rounds up.
TransferOverflows(rate, bytes) ==
    \/ bytes > MaxWord \div rate.interval
    \/ bytes * rate.interval > MaxWord - (rate.bytes - 1)

transfer_time(rate, bytes) ==
    IF TransferOverflows(rate, bytes) THEN Overflow
    ELSE Wrap(Wrap(bytes * rate.interval) + rate.bytes - 1) \div rate.bytes
=============================================================================
