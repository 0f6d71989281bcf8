----------------------------- MODULE Expansion -----------------------------
(***************************************************************************)
(* How HbmSystem expands the byte range of a transaction into accesses     *)
(* (src/src/hbm_system.cpp).  try_submit_now calls next_access for the     *)
(* first access of a range and then accepts the range; each turn of        *)
(* pump_admissions' inner loop calls next_access at the first byte not yet *)
(* admitted; next_access scans bursts, and groups them while they lie      *)
(* contiguously in one row; the access it returns is admitted and served   *)
(* in transfer_time.  The module has one action per step of these loops.   *)
(* Refusals for want of capacity are the subject of HbmSystem.             *)
(***************************************************************************)
EXTENDS AddressMapper, BandwidthRate, Sequences

CONSTANT Devices    \* [org, granularity, ranges]: the devices, each with the
                    \* byte ranges [address, size] that clients submit to it

\* HbmConfig::validate.  It accepts the Brc mapping with any organization, but
\* its bit fields are those of the HBM2 standard's.
ASSUME DevicesAssumption ==
    \A device \in Devices :
        /\ ValidOrganization(device.org)
        /\ device.granularity \in Nat
        /\ device.granularity # 0 => device.granularity >= device.org.burst
        /\ \A range \in device.ranges : range.address \in 0 .. MaxWord /\ range.size \in 1 .. MaxWord

VARIABLES device,     \* the configuration, chosen once
          phase,      \* "idle", "admitting" (pump_admissions), "scanning"
                      \* (next_access) or "fault" (an exception was thrown)
          accepted,   \* the range has a parent, which an exception leaves behind
          txn,        \* the byte range submitted last
          admitted,   \* admitted_bytes
          accesses,   \* the accesses admitted so far (history)
          address, remaining, grouped,   \* of next_access; grouped is the size
          previous    \* of the group, 0 for none; previous_address is mapped
                      \* from the first byte of the burst scanned before

vars == <<device, phase, accepted, txn, admitted, accesses, address, remaining, grouped, previous>>

org == device.org
map_address(byte) == map_fields(org, byte)

\* max_group_bytes
MaxGroup == IF device.granularity = 0 THEN org.burst ELSE device.granularity

Least(m, n) == IF m <= n THEN m ELSE n

Init == /\ device \in Devices
        /\ phase = "idle" /\ accepted = FALSE /\ txn = [address |-> 0, size |-> 0]
        /\ admitted = 0 /\ accesses = <<>>
        /\ address = 0 /\ remaining = 0 /\ grouped = 0 /\ previous = 0

FieldsFit ==
    org.mapping = "Hbm2PseudoChannelBrc" =>
        /\ org.pseudo_channels >= 2 /\ org.bank_groups >= 4 /\ org.banks >= 4
        /\ org.columns >= 32 /\ org.rows >= 16384 /\ org.interleave = 32

-----------------------------------------------------------------------------
\* (A definition named "..._without_..." or "..._with_..." is the next one with a
\* plausible mistake; the specification does not use it.)
Overruns_without_check(range) == FALSE

\* The range would end beyond the last address.
Overruns(range) == range.size - 1 > MaxWord - range.address

\* The locals of a call of next_access(range, offset).
BeginNextAccess(range, offset) ==
    /\ phase' = "scanning" /\ grouped' = 0 /\ previous' = 0
    /\ address' = Wrap(range.address + offset)
    /\ remaining' = range.size - offset

\* try_submit_now looks for the first access of a range that does not overrun.
\* No other parent is being expanded: one that an exception left pending would
\* be met again by every later pump_admissions.
Submit(range) ==
    /\ phase = "idle" \/ (phase = "fault" /\ ~accepted)
    /\ ~Overruns(range)
    /\ BeginNextAccess(range, 0)
    /\ accepted' = FALSE /\ txn' = range /\ admitted' = 0 /\ accesses' = <<>>
    /\ UNCHANGED device

\* pump_admissions calls next_access(transaction, admitted_bytes).
CallNextAccess ==
    /\ phase = "admitting" /\ admitted < txn.size
    /\ BeginNextAccess(txn, admitted)
    /\ UNCHANGED <<device, accepted, txn, admitted, accesses>>

burst_boundary_with_zero(byte) == (org.burst - (byte % org.burst)) % org.burst
burst_boundary(byte) == org.burst - (byte % org.burst)

ScannedBytes_without_mapping_boundary == Least(remaining, burst_boundary(address))
ScannedBytes_without_remaining ==
    Least(burst_boundary(address), next_mapping_boundary(org, address))

\* The bytes of the next burst, of its interleave line and of the range.
ScannedBytes ==
    Least(remaining, Least(burst_boundary(address), next_mapping_boundary(org, address)))

same_resource(a, b) == [a EXCEPT !.column = b.column] = b

Contiguous(before, after) == after.column \in {before.column, before.column + 1}

FitsGroup_with_any_size(bytes) == TRUE
FitsGroup(bytes) == grouped + bytes <= MaxGroup

\* can_extend.  The group starts at the first byte not yet admitted.
CanExtend(bytes) ==
    /\ FitsGroup(bytes)
    /\ same_resource(map_address(txn.address + admitted), map_address(address))
    /\ Contiguous(map_address(previous), map_address(address))

Scanning == phase = "scanning" /\ remaining # 0 /\ InsideTopology(org, map_address(address))

\* The burst becomes, or joins, the group.
TakeBurst(bytes) ==
    /\ grouped' = grouped + bytes
    /\ previous' = address
    /\ remaining' = remaining - bytes
    /\ IF remaining = bytes THEN UNCHANGED <<address, phase>>
       ELSE IF address > MaxWord - bytes THEN phase' = "fault" /\ UNCHANGED address
       ELSE address' = address + bytes /\ UNCHANGED phase
    /\ UNCHANGED <<device, accepted, txn, admitted, accesses>>

StartGroup  == Scanning /\ grouped = 0 /\ TakeBurst(ScannedBytes)
ExtendGroup == Scanning /\ grouped # 0 /\ CanExtend(ScannedBytes) /\ TakeBurst(ScannedBytes)

\* map throws out_of_range.
MapThrows ==
    /\ phase = "scanning" /\ remaining # 0 /\ ~InsideTopology(org, map_address(address))
    /\ phase' = "fault"
    /\ UNCHANGED <<device, accepted, txn, admitted, accesses, address, remaining, grouped, previous>>

\* An access and the time its transfer will take.
Access(first, size) == [address |-> first, size |-> size, at |-> map_address(first),
                        service |-> transfer_time(org.rate, size)]

\* next_access returns the group, because nothing remains or the burst does not
\* fit it.
NextAccessReturns ==
    /\ phase = "scanning" /\ grouped # 0
    /\ remaining = 0 \/ (Scanning /\ ~CanExtend(ScannedBytes))
    /\ phase' = "admitting"
    /\ address' = 0 /\ remaining' = 0 /\ grouped' = 0 /\ previous' = 0
    /\ UNCHANGED <<device, txn>>

\* try_submit_now wants the first access for its channel only.  The parent is
\* queued, with nothing admitted yet.
Accept ==
    /\ NextAccessReturns /\ ~accepted
    /\ accepted' = TRUE
    /\ UNCHANGED <<admitted, accesses>>

\* pump_admissions admits the access.
ReturnAccess ==
    /\ NextAccessReturns /\ accepted
    /\ admitted' = admitted + grouped
    /\ accesses' = Append(accesses, Access(txn.address + admitted, grouped))
    /\ UNCHANGED accepted

\* Everything is admitted: the parent leaves pending_admissions_.
Finish ==
    /\ phase = "admitting" /\ admitted = txn.size
    /\ phase' = "idle"
    /\ UNCHANGED <<device, accepted, txn, admitted, accesses, address, remaining, grouped, previous>>

Step == CallNextAccess \/ StartGroup \/ ExtendGroup \/ MapThrows \/ Accept \/ ReturnAccess \/ Finish
Next == (\E range \in device.ranges : Submit(range)) \/ Step

Spec == Init /\ [][Next]_vars /\ WF_vars(Step)

-----------------------------------------------------------------------------
TypeOK ==
    /\ phase \in {"idle", "admitting", "scanning", "fault"} /\ accepted \in BOOLEAN
    /\ txn.address \in 0 .. MaxWord /\ txn.size \in 0 .. MaxWord
    /\ admitted \in 0 .. txn.size
    /\ address \in 0 .. MaxWord /\ previous \in 0 .. MaxWord
    /\ remaining \in 0 .. txn.size /\ grouped \in 0 .. txn.size

End(i) == accesses[i].address + accesses[i].size

\* Nothing is lost, repeated or reordered at the boundaries of bursts, lines,
\* groups and calls: the accesses tile the range from its first byte, and a range
\* that passed the check of try_submit_now never runs into the overflow_error of next_access
\* (hbm_system.cpp:265) or out of the topology of a layout that fits.
BytesAreTiled ==
    /\ accesses # <<>> => accesses[1].address = txn.address
    /\ \A i \in DOMAIN accesses : /\ accesses[i].size > 0
                                  /\ i > 1 => accesses[i].address = End(i - 1)
    /\ (IF accesses = <<>> THEN txn.address ELSE End(Len(accesses))) = txn.address + admitted
    /\ phase = "fault" => ~FieldsFit

\* "Aggregation never crosses a channel, pseudo-channel, bank group, bank, or
\* row" (docs/ITERATIVE_DEVELOPMENT_PLAN.md:72): every byte of an access, and not
\* only the first one of each burst, lies in the row the controller opens for
\* it, at columns without a gap.
AccessStaysInOneRow ==
    FieldsFit =>
        \A i \in DOMAIN accesses : \A byte \in accesses[i].address .. End(i) - 1 :
            /\ same_resource(accesses[i].at, map_address(byte))
            /\ byte > accesses[i].address => Contiguous(map_address(byte - 1), map_address(byte))

\* A group never outgrows the simulation granularity, nor one physical burst
\* without it.
AccessIsBounded == \A i \in DOMAIN accesses : accesses[i].size <= MaxGroup

\* The number a location stands for, digit by digit from the slowest: the linear
\* line of the location, or the address of the Brc bit fields.
LineOf(at) ==
    ((((at.pseudo_channel * org.bank_groups + at.bank_group) * org.banks + at.bank)
        * org.rows + at.row) * org.columns + at.column) * channel_count(org) + flat_channel(org, at)

BrcAddressOf(at) == 65536 * at.row + 2048 * at.column + 256 * at.bank
                    + 64 * at.bank_group + 32 * at.pseudo_channel

\* The addresses that the Brc bit fields tell apart.
BrcReach == 65536 * 16384

Capacity == bank_count(org) * org.rows * org.columns

\* No two lines of the device share a column, apart from addresses beyond its
\* capacity and, in the Brc layout, those that differ in bit 10: the mapping can
\* be inverted.  And bank_address finds the same coordinates from flat_bank.
LocationsAreDistinct ==
    FieldsFit =>
        \A i \in DOMAIN accesses :
            LET at == accesses[i].at
                bank == flat_bank(org, at)
            IN  /\ IF org.mapping = "Linear"
                   THEN LineOf(at) = (accesses[i].address \div org.interleave) % Capacity
                   ELSE BrcAddressOf(at) + 1024 * Digit(accesses[i].address, 1024, 2)
                            = (accesses[i].address - (accesses[i].address % 32)) % BrcReach
                /\ bank < bank_count(org)
                /\ \A field \in DOMAIN bank_address(org, bank) :
                       bank_address(org, bank)[field] = at[field]

\* The data bus is held for the shortest time that keeps to its rate, which is
\* never zero, and overflow is reported exactly when a word cannot hold the sum.
TransferTimeIsExact ==
    \A i \in DOMAIN accesses :
        LET scaled == accesses[i].size * org.rate.interval
        IN  IF accesses[i].service = Overflow
            THEN scaled + org.rate.bytes - 1 > MaxWord
            ELSE /\ accesses[i].service * org.rate.bytes >= scaled
                 /\ (accesses[i].service - 1) * org.rate.bytes < scaled

\* The scan of bursts and the calls for the next access come to an end.
ExpansionEnds == phase \in {"scanning", "admitting"} ~> phase \in {"idle", "fault"}
=============================================================================
