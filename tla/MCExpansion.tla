---------------------------- MODULE MCExpansion ----------------------------
(***************************************************************************)
(* Devices for the run of Expansion.  The small ones put burst, interleave *)
(* line and row into every proportion and are swept from end to end, as    *)
(* far as their capacity; the standards' are given the addresses at which  *)
(* a bit field of the mapping changes.  A word has 17 bits.                *)
(***************************************************************************)
EXTENDS Expansion

LastWord == 131071

Small == [stacks |-> 1, channels_per_stack |-> 1, pseudo_channels |-> 2, bank_groups |-> 2,
          banks |-> 2, columns |-> 2, rows |-> 2, burst |-> 2, interleave |-> 2,
          mapping |-> "Linear", rate |-> [bytes |-> 3, interval |-> 5]]

\* A range that starts anywhere in the first rows, and one that is everything.
Sweep(capacity) ==
    {[address |-> a, size |-> n] : a \in 0 .. 7, n \in {1, 3, 8}}
    \cup {[address |-> 0, size |-> capacity]}
    \cup {[address |-> LastWord - 2, size |-> n] : n \in {1, 3, 4}}

SmallDevice(o, granularity) ==
    [org |-> o, granularity |-> granularity, ranges |-> Sweep(bank_count(o) * o.rows * o.columns * o.interleave)]

SmallDevices ==
    {SmallDevice(Small, 0), SmallDevice(Small, 4),
     SmallDevice([Small EXCEPT !.burst = 4], 8),                        \* line < burst
     SmallDevice([Small EXCEPT !.interleave = 4, !.columns = 1], 8),    \* line > burst
     SmallDevice([Small EXCEPT !.interleave = 3, !.burst = 4], 8),      \* neither divides
     SmallDevice([Small EXCEPT !.stacks = 2, !.channels_per_stack = 3], 4),
     SmallDevice([Small EXCEPT !.rate = [bytes |-> 20000, interval |-> 32000]], 4),
     SmallDevice([Small EXCEPT !.rate = [bytes |-> 1, interval |-> 40000]], 4)}

Hbm2 == [Small EXCEPT !.bank_groups = 4, !.banks = 4, !.columns = 32, !.rows = 16384,
                      !.burst = 32, !.interleave = 32, !.mapping = "Hbm2PseudoChannelBrc",
                      !.rate = [bytes |-> 32, interval |-> 2000]]
Hbm3 == [Hbm2 EXCEPT !.mapping = "Linear", !.rate = [bytes |-> 32, interval |-> 1250]]
Hbm4 == [Hbm3 EXCEPT !.bank_groups = 2, !.banks = 8, !.columns = 256,
                     !.rate = [bytes |-> 64, interval |-> 1000]]

FieldEdges ==
    {[address |-> a, size |-> n] : a \in {0, 16, 32, 192, 992, 2016, 2048, 65472, 65504},
                                   n \in {32, 96}}

StandardDevices == {[org |-> o, granularity |-> g, ranges |-> FieldEdges] :
                        o \in {Hbm2, Hbm3, Hbm4}, g \in {0, 128}}

\* A custom device with the Brc mapping and fewer bank groups than its fields: the
\* mapping throws inside the first range, and at the first byte of the second.
Misfit == [org |-> [Hbm2 EXCEPT !.bank_groups = 2], granularity |-> 0,
           ranges |-> {[address |-> 64, size |-> 96], [address |-> 128, size |-> 32]}]

AllDevices == SmallDevices \cup StandardDevices \cup {Misfit}
=============================================================================
