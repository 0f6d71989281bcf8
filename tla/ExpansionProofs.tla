-------------------------- MODULE ExpansionProofs --------------------------
(***************************************************************************)
(* For every device and every range of every word size: the accesses of a  *)
(* transaction tile its range, within one row and the granularity each,    *)
(* no exception is thrown on the way, transfer times are exact, and the    *)
(* mapping of addresses to locations can be inverted.                      *)
(***************************************************************************)
EXTENDS Expansion, TLAPS

USE WordAssumption

-----------------------------------------------------------------------------
(* Division.                                                                *)

LEMMA DivMod ==
  ASSUME NEW n \in Nat, NEW d \in Nat \ {0}
  PROVE  /\ n \div d \in Nat /\ n % d \in 0 .. d - 1
         /\ n = d * (n \div d) + (n % d)
  BY SMT

LEMMA DivUnique ==
  ASSUME NEW n \in Nat, NEW d \in Nat \ {0}, NEW q \in Nat, d * q <= n, n < d * q + d
  PROVE  n \div d = q
  BY DivMod, SMT

\* Up to the next multiple of d, numbers have the same quotient.
LEMMA SameQuotient ==
  ASSUME NEW n \in Nat, NEW d \in Nat \ {0}, NEW m \in Nat, n <= m, m < n + (d - (n % d))
  PROVE  m \div d = n \div d
<1> DEFINE q == n \div d  dq == d * q
<1>1. q \in Nat /\ n % d \in 0 .. d - 1 /\ n = dq + (n % d)
  BY DivMod
<1>2. dq \in Nat
  BY <1>1
<1>3. dq <= m /\ m < dq + d
  <2> HIDE DEF dq
  <2> QED BY <1>1, <1>2
<1> QED BY <1>1, <1>3, DivUnique

LEMMA QuotientBound ==
  ASSUME NEW n \in Nat, NEW d \in Nat \ {0}, NEW w \in Nat, n > w \div d
  PROVE  n * d > w
<1> DEFINE q == w \div d
<1>1. q \in Nat /\ w % d \in 0 .. d - 1 /\ w = d * q + (w % d)
  BY DivMod
<1>2. n >= q + 1
  BY <1>1
<1>3. d * n >= d * (q + 1)
  <2> HIDE DEF q
  <2> QED BY <1>1, <1>2, SMT
<1>4. d * (q + 1) = d * q + d
  <2> HIDE DEF q
  <2> QED BY <1>1
<1> QED BY <1>1, <1>3, <1>4

\* Rounding a quotient up.
LEMMA RoundUp ==
  ASSUME NEW n \in Nat, NEW d \in Nat \ {0}
  PROVE  LET q == (n + d - 1) \div d IN q * d >= n /\ (q - 1) * d < n
  BY DivMod, SMT

-----------------------------------------------------------------------------
(* The mapping and the data rate.                                           *)

LEMMA DeviceFacts ==
  ASSUME device \in Devices
  PROVE  /\ ValidOrganization(org)
         /\ org.burst \in Nat \ {0} /\ org.interleave \in Nat \ {0}
         /\ MaxGroup \in Nat \ {0} /\ org.burst <= MaxGroup
         /\ org.rate.bytes \in Nat \ {0} /\ org.rate.interval \in Nat \ {0}
         /\ \A range \in device.ranges : range.address \in 0 .. MaxWord /\ range.size \in 1 .. MaxWord
<1>1. /\ ValidOrganization(org) /\ device.granularity \in Nat
      /\ device.granularity # 0 => device.granularity >= org.burst
      /\ \A range \in device.ranges : range.address \in 0 .. MaxWord /\ range.size \in 1 .. MaxWord
  BY DevicesAssumption DEF org
<1>2. /\ org.burst \in Nat \ {0} /\ org.interleave \in Nat \ {0}
      /\ org.rate.bytes \in Nat \ {0} /\ org.rate.interval \in Nat \ {0}
  BY <1>1 DEF ValidOrganization
<1> QED BY <1>1, <1>2 DEF MaxGroup

\* Bytes of one interleave line lie in one column of one row.
LEMMA LineIsOneColumn ==
  ASSUME device \in Devices, FieldsFit, NEW first \in Nat, NEW byte \in Nat,
         first <= byte, byte < first + next_mapping_boundary(org, first)
  PROVE  map_address(byte) = map_address(first)
<1>1. byte \div org.interleave = first \div org.interleave
  BY DeviceFacts, SameQuotient DEF next_mapping_boundary
<1>2. CASE org.mapping = "Linear"
  BY <1>1, <1>2 DEF map_address, map_fields
<1>3. CASE org.mapping # "Linear"
  <2>1. org.interleave = 32
    BY <1>3, DeviceFacts, SMT DEF ValidOrganization, FieldsFit
  <2>2. /\ byte \div 64 = first \div 64 /\ byte \div 256 = first \div 256
        /\ byte \div 2048 = first \div 2048 /\ byte \div 65536 = first \div 65536
    BY <1>1, <2>1, SMT
  <2> QED BY <1>1, <1>3, <2>1, <2>2, SMT DEF map_address, map_fields, BrcFields, Digit
<1> QED BY <1>2, <1>3

\* A layout whose fields fit maps every address into its topology.
LEMMA MapNeverThrows ==
  ASSUME device \in Devices, FieldsFit, NEW byte \in Nat
  PROVE  InsideTopology(org, map_address(byte))
<1>1. ValidOrganization(org)
  BY DeviceFacts
<1>2. CASE org.mapping = "Linear"
  <2>1. /\ org.pseudo_channels \in Nat \ {0} /\ org.bank_groups \in Nat \ {0}
        /\ org.banks \in Nat \ {0} /\ org.columns \in Nat \ {0} /\ org.rows \in Nat \ {0}
        /\ channel_count(org) \in Nat \ {0}
    BY <1>1 DEF ValidOrganization, channel_count
  <2>2. ASSUME NEW n \in Nat, NEW below \in Nat \ {0}, NEW size \in Nat \ {0}
        PROVE  Digit(n, below, size) < size
    BY DivMod DEF Digit
  <2>3. byte \div org.interleave \in Nat
    BY DeviceFacts, DivMod
  <2> DEFINE channels == channel_count(org)
             rowLines == channels * org.columns
             bankLines == rowLines * org.rows
             groupLines == bankLines * org.banks
  <2>4. channels \in Nat \ {0} /\ rowLines \in Nat \ {0} /\ bankLines \in Nat \ {0}
        /\ groupLines \in Nat \ {0} /\ groupLines * org.bank_groups \in Nat \ {0}
    BY <2>1
  <2> QED BY <1>2, <2>1, <2>2, <2>3, <2>4 DEF map_address, map_fields, LinearFields, InsideTopology
<1>3. CASE org.mapping # "Linear"
  <2>1. /\ org.pseudo_channels >= 2 /\ org.bank_groups >= 4 /\ org.banks >= 4
        /\ org.columns >= 32 /\ org.rows >= 16384
        /\ org.pseudo_channels \in Nat /\ org.bank_groups \in Nat /\ org.banks \in Nat
        /\ org.columns \in Nat /\ org.rows \in Nat
    BY <1>1, <1>3, SMT DEF ValidOrganization, FieldsFit
  <2> QED BY <1>3, <2>1, SMT DEF map_address, map_fields, BrcFields, Digit, InsideTopology
<1> QED BY <1>2, <1>3

\* transfer_time is the least time that holds the bytes at the rate.
LEMMA TransferTime ==
  ASSUME device \in Devices, NEW bytes \in 1 .. MaxWord
  PROVE  LET scaled == bytes * org.rate.interval
             service == transfer_time(org.rate, bytes)
         IN  IF service = Overflow THEN scaled + org.rate.bytes - 1 > MaxWord
             ELSE /\ service * org.rate.bytes >= scaled
                  /\ (service - 1) * org.rate.bytes < scaled
<1> DEFINE scaled == bytes * org.rate.interval
           sum == scaled + org.rate.bytes - 1
<1>1. org.rate.bytes \in Nat \ {0} /\ org.rate.interval \in Nat \ {0} /\ scaled \in Nat /\ sum \in Nat
  BY DeviceFacts
<1>2. CASE TransferOverflows(org.rate, bytes)
  <2>1. transfer_time(org.rate, bytes) = Overflow
    BY <1>2 DEF transfer_time
  <2>2. scaled > MaxWord - (org.rate.bytes - 1)
    <3>1. bytes > MaxWord \div org.rate.interval => scaled > MaxWord
      BY <1>1, QuotientBound
    <3>2. \/ bytes > MaxWord \div org.rate.interval
          \/ scaled > MaxWord - (org.rate.bytes - 1)
      BY <1>2 DEF TransferOverflows
    <3> HIDE DEF scaled
    <3> QED BY <1>1, <3>1, <3>2
  <2> QED BY <1>1, <2>1, <2>2
<1>3. CASE ~TransferOverflows(org.rate, bytes)
  <2>1. scaled <= MaxWord /\ sum <= MaxWord
    BY <1>1, <1>3 DEF TransferOverflows
  <2>2. Wrap(scaled) = scaled /\ Wrap(scaled + org.rate.bytes - 1) = scaled + org.rate.bytes - 1
    <3>1. ASSUME NEW n \in 0 .. MaxWord PROVE Wrap(n) = n
      BY SMT DEF Wrap
    <3> QED BY <1>1, <2>1, <3>1
  <2>3. transfer_time(org.rate, bytes) = sum \div org.rate.bytes
    BY <1>3, <2>2 DEF transfer_time
  <2> DEFINE service == sum \div org.rate.bytes
  <2>4. service \in Nat
    BY <1>1, DivMod
  <2>5. service # Overflow
    BY <2>4
  <2>6. service * org.rate.bytes >= scaled /\ (service - 1) * org.rate.bytes < scaled
    BY <1>1, RoundUp
  <2> QED BY <2>3, <2>5, <2>6
<1> QED BY <1>2, <1>3

-----------------------------------------------------------------------------
(* The inductive invariant: the accepted range fits the address space; the  *)
(* accesses are what map and transfer_time make of their bytes; and while   *)
(* next_access scans, the group and what remains are the rest of the range, *)
(* the next burst starts where the group ends, and the group is in one row. *)

AccessSet == {Access(first, size) : first \in 0 .. MaxWord, size \in 1 .. MaxWord}

Accepted == txn.size > 0 => txn.size - 1 <= MaxWord - txn.address

ScanIsOn ==
    phase = "scanning" =>
        /\ admitted < txn.size
        /\ remaining + grouped = txn.size - admitted
        /\ remaining # 0 => address = txn.address + admitted + grouped
        /\ grouped <= MaxGroup

Resting == phase \in {"idle", "admitting"} => remaining = 0 /\ grouped = 0

InRow(first, size) ==
    \A byte \in first .. first + size - 1 :
        /\ same_resource(map_address(first), map_address(byte))
        /\ byte > first => Contiguous(map_address(byte - 1), map_address(byte))

GroupInRow ==
    phase = "scanning" /\ grouped # 0 /\ FieldsFit =>
        /\ InRow(txn.address + admitted, grouped)
        /\ map_address(previous) = map_address(txn.address + admitted + grouped - 1)

IInv == /\ device \in Devices /\ TypeOK /\ Accepted
        /\ accesses \in Seq(AccessSet)
        /\ BytesAreTiled /\ AccessIsBounded /\ AccessStaysInOneRow
        /\ ScanIsOn /\ Resting /\ GroupInRow

LEMMA InitIInv == Init => IInv
<1> SUFFICES ASSUME Init PROVE IInv
  OBVIOUS
<1>1. accesses = <<>> /\ DOMAIN accesses = {} /\ phase = "idle"
  BY DEF Init
<1>2. TypeOK /\ Accepted
  <2>1. accepted \in BOOLEAN
    BY Zenon DEF Init
  <2>2. /\ txn.address = 0 /\ txn.size = 0 /\ admitted = 0 /\ address = 0
        /\ remaining = 0 /\ grouped = 0 /\ previous = 0
    BY DEF Init
  <2> QED BY <1>1, <2>1, <2>2 DEF TypeOK, Accepted
<1>3. BytesAreTiled
  BY <1>1 DEF Init, BytesAreTiled
<1>4. accesses \in Seq(AccessSet)
  BY <1>1
<1> QED BY <1>1, <1>2, <1>3, <1>4 DEF Init, IInv, AccessIsBounded, AccessStaysInOneRow, ScanIsOn, Resting, GroupInRow

\* What stays the same while the device does.
LEMMA DeviceStays ==
  ASSUME device' = device
  PROVE  /\ org' = org /\ MaxGroup' = MaxGroup /\ FieldsFit' = FieldsFit
         /\ AccessSet' = AccessSet
         /\ \A byte : map_address(byte)' = map_address(byte)
         /\ \A first, size : Access(first, size)' = Access(first, size)
         /\ \A first, size : InRow(first, size)' = InRow(first, size)
  BY SMT DEF org, MaxGroup, FieldsFit, AccessSet, map_address, Access, InRow

LEMMA LeastIsBoth ==
  ASSUME NEW m \in Nat \ {0}, NEW n \in Nat \ {0}
  PROVE  Least(m, n) \in Nat \ {0} /\ Least(m, n) <= m /\ Least(m, n) <= n
  BY DEF Least

LEMMA ScannedFacts ==
  ASSUME IInv, Scanning
  PROVE  /\ ScannedBytes \in 1 .. remaining /\ ScannedBytes <= org.burst
         /\ next_mapping_boundary(org, address) \in Nat
         /\ ScannedBytes <= next_mapping_boundary(org, address)
<1> DEFINE line == next_mapping_boundary(org, address)
           burst == burst_boundary(address)
<1>1. remaining \in Nat \ {0} /\ address \in Nat /\ device \in Devices
  BY DEF IInv, TypeOK, Scanning
<1>2. org.burst \in Nat \ {0} /\ org.interleave \in Nat \ {0}
  BY <1>1, DeviceFacts
<1>3. address % org.burst \in 0 .. org.burst - 1
  BY <1>1, <1>2, DivMod
<1>4. address % org.interleave \in 0 .. org.interleave - 1
  BY <1>1, <1>2, DivMod
<1>5. burst \in Nat \ {0} /\ burst <= org.burst
  BY <1>2, <1>3 DEF burst_boundary
<1>6. line \in Nat \ {0}
  BY <1>2, <1>4 DEF next_mapping_boundary
<1> HIDE DEF line, burst
<1>7. Least(burst, line) \in Nat \ {0} /\ Least(burst, line) <= burst /\ Least(burst, line) <= line
  BY <1>5, <1>6, LeastIsBoth
<1>8. LET n == Least(remaining, Least(burst, line))
      IN  n \in Nat \ {0} /\ n <= remaining /\ n <= Least(burst, line)
  BY <1>1, <1>7, LeastIsBoth
<1>9. ScannedBytes = Least(remaining, Least(burst, line))
  BY DEF ScannedBytes, burst, line
<1> QED BY <1>1, <1>2, <1>5, <1>6, <1>7, <1>8, <1>9 DEF line

LEMMA SameAsItself ==
  ASSUME NEW byte
  PROVE  same_resource(map_address(byte), map_address(byte))
  BY SMT DEF same_resource, map_address, map_fields, LinearFields, BrcFields

\* The range of an accepted transaction ends within the word.
LEMMA AcceptedFits ==
  ASSUME IInv, admitted < txn.size
  PROVE  /\ txn.address \in Nat /\ txn.size \in Nat \ {0} /\ admitted \in Nat
         /\ txn.address + txn.size - 1 <= MaxWord
<1>1. txn.address \in Nat /\ txn.size \in Nat /\ admitted \in Nat
  BY DEF IInv, TypeOK
<1>2. txn.size > 0
  BY <1>1
<1>3. txn.size - 1 <= MaxWord - txn.address
  BY <1>2 DEF IInv, Accepted
<1> QED BY <1>1, <1>2, <1>3, WordAssumption

\* The burst that starts a group or joins one.
LEMMA TakeBurstIInv ==
  ASSUME IInv, Scanning, TakeBurst(ScannedBytes),
         grouped # 0 => CanExtend(ScannedBytes)
  PROVE  IInv'
<1> DEFINE first == txn.address + admitted
           bytes == ScannedBytes
<1>1. /\ device \in Devices /\ device' = device /\ txn' = txn /\ admitted' = admitted
      /\ accesses' = accesses /\ accepted' = accepted /\ phase = "scanning"
      /\ bytes \in 1 .. remaining /\ bytes <= org.burst
      /\ next_mapping_boundary(org, address) \in Nat /\ bytes <= next_mapping_boundary(org, address)
      /\ grouped' = grouped + bytes /\ previous' = address /\ remaining' = remaining - bytes
  BY ScannedFacts DEF IInv, TakeBurst, Scanning
<1>2. /\ first \in Nat /\ grouped \in Nat /\ address = first + grouped /\ address \in Nat
      /\ MaxGroup \in Nat /\ grouped + bytes <= MaxGroup
      /\ remaining + grouped = txn.size - admitted /\ admitted < txn.size
      /\ remaining \in Nat /\ txn.size \in Nat /\ admitted \in Nat /\ txn.address \in Nat
      /\ txn.address + txn.size - 1 <= MaxWord
  <2>1. /\ txn.address \in Nat /\ txn.size \in Nat /\ admitted \in Nat
        /\ grouped \in Nat /\ remaining \in Nat /\ address \in Nat
    BY DEF IInv, TypeOK
  <2>2. /\ remaining # 0 /\ address = first + grouped
        /\ remaining + grouped = txn.size - admitted /\ admitted < txn.size
    BY <1>1, <2>1 DEF IInv, ScanIsOn, Scanning
  <2>3. grouped + bytes <= MaxGroup /\ MaxGroup \in Nat
    BY <1>1, <2>1, DeviceFacts DEF CanExtend, FitsGroup
  <2>4. first \in Nat
    BY <2>1
  <2>5. txn.address + txn.size - 1 <= MaxWord
    BY <2>1, <2>2, AcceptedFits
  <2> QED BY <2>1, <2>2, <2>3, <2>4, <2>5
<1> HIDE DEF bytes
<1>3. phase' = phase /\ (remaining' # 0 => address' = first + grouped') /\ address' \in 0 .. MaxWord
  <2>1. remaining # bytes => address + bytes <= MaxWord
    BY <1>1, <1>2
  <2>2. address \in 0 .. MaxWord
    BY DEF IInv, TypeOK
  <2>3. \/ remaining = bytes /\ phase' = phase /\ address' = address
        \/ remaining # bytes /\ address > MaxWord - bytes
        \/ remaining # bytes /\ phase' = phase /\ address' = address + bytes
    BY DEF TakeBurst, bytes
  <2>4. bytes \in Nat
    BY <1>1, <1>2
  <2>5. CASE remaining = bytes
    <3>1. phase' = phase /\ address' = address /\ remaining' = 0
      BY <1>1, <2>3, <2>4, <2>5
    <3> QED BY <2>2, <3>1
  <2>6. CASE remaining # bytes
    <3>1. ~ (address > MaxWord - bytes)
      BY <1>2, <2>1, <2>4, <2>6, WordAssumption
    <3>2. phase' = phase /\ address' = address + bytes
      BY <2>3, <2>6, <3>1
    <3>3. address + bytes = first + (grouped + bytes)
      BY <1>2, <2>4
    <3>4. address + bytes \in 0 .. MaxWord
      BY <1>2, <2>1, <2>4, <2>6, WordAssumption
    <3> QED BY <1>1, <3>2, <3>3, <3>4
  <2> QED BY <2>5, <2>6
<1>4. TypeOK'
  <2>1. TypeOK
    BY DEF IInv
  <2>2. grouped' \in 0 .. txn.size /\ remaining' \in 0 .. txn.size
    BY <1>1, <1>2
  <2>3. previous' \in 0 .. MaxWord
    BY <1>1, <2>1 DEF TypeOK
  <2> QED BY <1>1, <1>3, <2>1, <2>2, <2>3 DEF TypeOK
<1>5. ScanIsOn' /\ Resting'
  <2>1. MaxGroup' = MaxGroup
    BY <1>1, DeviceStays
  <2>2. remaining' + grouped' = txn.size - admitted
    BY <1>1, <1>2
  <2>3. ScanIsOn'
    BY <1>1, <1>2, <1>3, <2>1, <2>2 DEF ScanIsOn
  <2>4. phase' \notin {"idle", "admitting"}
    BY <1>1, <1>3
  <2> QED BY <2>3, <2>4 DEF Resting
<1>6. (BytesAreTiled /\ AccessIsBounded /\ AccessStaysInOneRow /\ Accepted)'
  BY <1>1, <1>3, DeviceStays DEF IInv, BytesAreTiled, AccessIsBounded, AccessStaysInOneRow, Accepted, End
<1>7. GroupInRow'
  <2> SUFFICES ASSUME FieldsFit
               PROVE  /\ InRow(first, grouped + bytes)
                      /\ map_address(address) = map_address(first + (grouped + bytes) - 1)
    BY <1>1, SMT DEF GroupInRow, InRow, map_address, org, FieldsFit, bytes
  <2>1. ASSUME NEW byte \in Nat, address <= byte, byte < address + bytes
        PROVE  map_address(byte) = map_address(address)
    BY <1>1, <1>2, <2>1, LineIsOneColumn
  <2>2. same_resource(map_address(first), map_address(address))
    <3>1. CASE grouped = 0
      BY <1>2, <3>1, SameAsItself
    <3>2. CASE grouped # 0
      BY <3>2 DEF CanExtend
    <3> QED BY <3>1, <3>2
  <2>3. grouped # 0 => Contiguous(map_address(first + grouped - 1), map_address(address))
    BY <1>1 DEF CanExtend, IInv, GroupInRow
  <2>4. ASSUME NEW byte \in first .. first + (grouped + bytes) - 1
        PROVE  /\ same_resource(map_address(first), map_address(byte))
               /\ byte > first => Contiguous(map_address(byte - 1), map_address(byte))
    <3>1. CASE byte < address
      <4>1. grouped # 0 /\ byte \in first .. first + grouped - 1
        BY <1>1, <1>2, <3>1
      <4> QED BY <1>1, <4>1 DEF IInv, GroupInRow, InRow
    <3>2. CASE byte = address
      BY <1>2, <2>2, <2>3, <3>2
    <3>3. CASE byte > address
      <4>1. map_address(byte) = map_address(address) /\ map_address(byte - 1) = map_address(address)
        BY <1>1, <1>2, <2>1, <3>3
      <4> QED BY <2>2, <4>1 DEF Contiguous
    <3> QED BY <1>1, <1>2, <3>1, <3>2, <3>3
  <2>5. InRow(first, grouped + bytes)
    BY <2>4 DEF InRow
  <2>6. first + (grouped + bytes) - 1 \in Nat /\ address <= first + (grouped + bytes) - 1
        /\ first + (grouped + bytes) - 1 < address + bytes
    BY <1>1, <1>2
  <2> QED BY <2>1, <2>5, <2>6
<1> QED BY <1>1, <1>4, <1>5, <1>6, <1>7, DeviceStays DEF IInv

\* A step that leaves the accesses alone keeps what is said about them.
LEMMA AccessesStay ==
  ASSUME IInv, device' = device, txn' = txn, accesses' = accesses, admitted' = admitted,
         phase' = "fault" => ~FieldsFit
  PROVE  /\ device' \in Devices /\ Accepted' /\ (accesses \in Seq(AccessSet))'
         /\ BytesAreTiled' /\ AccessIsBounded' /\ AccessStaysInOneRow'
  BY DeviceStays DEF IInv, BytesAreTiled, AccessIsBounded, AccessStaysInOneRow, Accepted, End

LEMMA SubmitIInv ==
  ASSUME IInv, NEW range \in device.ranges, Submit(range)
  PROVE  IInv'
<1>1. range.address \in 0 .. MaxWord /\ range.size \in 1 .. MaxWord /\ device \in Devices
  BY DeviceFacts DEF IInv
<1>2. accesses' = <<>> /\ DOMAIN accesses' = {} /\ admitted' = 0 /\ device' = device /\ phase' = "scanning"
      /\ txn' = range /\ accepted' = FALSE /\ grouped' = 0 /\ previous' = 0 /\ remaining' = range.size
  BY <1>1 DEF Submit, BeginNextAccess
<1>scan. address' = range.address
  <2>1. ASSUME NEW n \in 0 .. MaxWord PROVE Wrap(n) = n
    BY SMT DEF Wrap
  <2>2. address' = Wrap(range.address + 0) /\ range.address + 0 = range.address
    BY <1>1 DEF Submit, BeginNextAccess
  <2> QED BY <1>1, <2>1, <2>2
<1>3. TypeOK'
  <2>1. accepted' \in BOOLEAN
    BY <1>2, Zenon
  <2>2. /\ phase' = "scanning" /\ txn' = range /\ admitted' = 0 /\ grouped' = 0
        /\ previous' = 0 /\ remaining' = range.size
    BY <1>2, Zenon
  <2> QED BY <1>1, <1>scan, <2>1, <2>2 DEF TypeOK
<1>4. Accepted'
  BY <1>1 DEF Submit, Overruns, Accepted
<1>5. BytesAreTiled'
  BY <1>1, <1>2 DEF Submit, BytesAreTiled
<1>6. (accesses \in Seq(AccessSet))'
  BY <1>2
<1>7. AccessIsBounded' /\ AccessStaysInOneRow' /\ Resting' /\ GroupInRow'
  BY <1>2 DEF AccessIsBounded, AccessStaysInOneRow, Resting, GroupInRow
<1>8. ScanIsOn'
  <2>1. MaxGroup' \in Nat
    BY <1>1, <1>2, DeviceFacts, DeviceStays
  <2>2. /\ admitted' < txn'.size /\ remaining' + grouped' = txn'.size - admitted'
        /\ address' = txn'.address + admitted' + grouped' /\ grouped' <= MaxGroup'
    BY <1>1, <1>2, <1>scan, <2>1
  <2> QED BY <2>2 DEF ScanIsOn
<1> QED BY <1>1, <1>2, <1>3, <1>4, <1>5, <1>6, <1>7, <1>8 DEF IInv

LEMMA CallNextAccessIInv ==
  ASSUME IInv, CallNextAccess
  PROVE  IInv'
<1>1. /\ device' = device /\ txn' = txn /\ accesses' = accesses /\ admitted' = admitted /\ accepted' = accepted
      /\ phase' = "scanning" /\ grouped' = 0 /\ remaining' = txn.size - admitted
      /\ address' = Wrap(txn.address + admitted) /\ previous' = 0 /\ admitted < txn.size
  BY DEF CallNextAccess, BeginNextAccess
<1>2. /\ txn.address \in Nat /\ txn.size \in Nat /\ admitted \in Nat /\ device \in Devices
      /\ txn.address + txn.size - 1 <= MaxWord
  BY <1>1, AcceptedFits DEF IInv
<1>3. address' = txn.address + admitted /\ address' \in 0 .. MaxWord
  <2>1. ASSUME NEW n \in 0 .. MaxWord PROVE Wrap(n) = n
    BY SMT DEF Wrap
  <2>2. txn.address + admitted \in 0 .. MaxWord
    BY <1>1, <1>2
  <2> QED BY <1>1, <2>1, <2>2
<1>4. TypeOK'
  BY <1>1, <1>2, <1>3 DEF IInv, TypeOK
<1>5. ScanIsOn' /\ Resting'
  <2>1. MaxGroup' \in Nat
    BY <1>1, <1>2, DeviceFacts, DeviceStays
  <2>2. /\ phase' = "scanning" /\ admitted' < txn'.size /\ remaining' + grouped' = txn'.size - admitted'
        /\ address' = txn'.address + admitted' + grouped' /\ grouped' <= MaxGroup'
    BY <1>1, <1>2, <1>3, <2>1
  <2> QED BY <2>2 DEF ScanIsOn, Resting
<1>6. GroupInRow'
  BY <1>1 DEF GroupInRow
<1> QED BY <1>1, <1>4, <1>5, <1>6, AccessesStay DEF IInv

\* The range gets a parent; the first access is asked for again.
LEMMA AcceptIInv ==
  ASSUME IInv, Accept
  PROVE  IInv'
<1>1. /\ device' = device /\ txn' = txn /\ accesses' = accesses /\ admitted' = admitted
      /\ phase' = "admitting" /\ accepted' = TRUE
      /\ address' = 0 /\ remaining' = 0 /\ grouped' = 0 /\ previous' = 0
  BY DEF Accept, NextAccessReturns
<1>2. TypeOK' /\ ScanIsOn' /\ Resting' /\ GroupInRow'
  BY <1>1 DEF IInv, TypeOK, ScanIsOn, Resting, GroupInRow
<1> QED BY <1>1, <1>2, AccessesStay DEF IInv

\* The group becomes the next access.
LEMMA ReturnAccessIInv ==
  ASSUME IInv, ReturnAccess
  PROVE  IInv'
<1> DEFINE first == txn.address + admitted
           access == Access(first, grouped)
           n == Len(accesses)
<1>1. /\ device' = device /\ txn' = txn /\ accesses' = Append(accesses, access)
      /\ admitted' = admitted + grouped /\ phase = "scanning" /\ phase' = "admitting" /\ grouped # 0
      /\ address' = 0 /\ remaining' = 0 /\ grouped' = 0 /\ previous' = 0 /\ accepted' = accepted
  BY DEF ReturnAccess, NextAccessReturns
<1>2. /\ txn.address \in Nat /\ txn.size \in Nat /\ admitted \in Nat /\ device \in Devices
      /\ grouped \in Nat \ {0} /\ remaining \in Nat /\ remaining + grouped = txn.size - admitted
      /\ grouped <= MaxGroup /\ txn.address + txn.size - 1 <= MaxWord
      /\ txn.address \in 0 .. MaxWord /\ txn.size \in 0 .. MaxWord
  <2>1. admitted < txn.size /\ remaining + grouped = txn.size - admitted /\ grouped <= MaxGroup
    BY <1>1 DEF IInv, ScanIsOn
  <2>2. /\ grouped \in Nat /\ remaining \in Nat
        /\ txn.address \in 0 .. MaxWord /\ txn.size \in 0 .. MaxWord /\ device \in Devices
    BY DEF IInv, TypeOK
  <2>3. /\ txn.address \in Nat /\ txn.size \in Nat /\ admitted \in Nat
        /\ txn.address + txn.size - 1 <= MaxWord
    BY <2>1, AcceptedFits
  <2> QED BY <1>1, <2>1, <2>2, <2>3
<1>3. TypeOK'
  BY <1>1, <1>2 DEF IInv, TypeOK
<1>4. Accepted' /\ ScanIsOn' /\ Resting' /\ GroupInRow'
  BY <1>1 DEF IInv, Accepted, ScanIsOn, Resting, GroupInRow
<1>5. first \in 0 .. MaxWord /\ grouped \in 1 .. MaxWord
  BY <1>2
<1>6. access \in AccessSet /\ access.address = first /\ access.size = grouped
      /\ access.at = map_address(first)
  BY <1>5 DEF AccessSet, Access
<1> HIDE DEF access
<1>7. /\ accesses \in Seq(AccessSet) /\ n \in Nat /\ DOMAIN accesses = 1 .. n
      /\ accesses' \in Seq(AccessSet) /\ Len(accesses') = n + 1 /\ DOMAIN accesses' = 1 .. n + 1
      /\ accesses'[n + 1] = access /\ \A i \in 1 .. n : accesses'[i] = accesses[i]
  BY <1>1, <1>6 DEF IInv
<1>typed. /\ \A i \in 1 .. n : accesses[i].address \in Nat /\ accesses[i].size \in Nat
          /\ \A i \in 1 .. n + 1 : accesses'[i].address \in Nat /\ accesses'[i].size \in Nat
  <2>1. \A x \in AccessSet : x.address \in Nat /\ x.size \in Nat
    BY DEF AccessSet, Access
  <2> QED BY <1>7, <2>1
<1>8. BytesAreTiled'
  <2>1. BytesAreTiled /\ phase' # "fault"
    BY <1>1 DEF IInv
  <2>2. ASSUME NEW i \in 1 .. n
        PROVE  /\ accesses[i].size > 0
               /\ i > 1 => accesses[i].address = accesses[i - 1].address + accesses[i - 1].size
    BY <1>7, <2>1 DEF BytesAreTiled, End
  <2>3. IF n = 0 THEN first = txn.address
                 ELSE accesses[n].address + accesses[n].size = first /\ accesses[1].address = txn.address
    BY <1>7, <2>1 DEF BytesAreTiled, End
  <2>4. accesses'[1].address = txn.address
    BY <1>6, <1>7, <2>3
  <2>5. ASSUME NEW i \in 1 .. n + 1
        PROVE  /\ accesses'[i].size > 0
               /\ i > 1 => accesses'[i].address = accesses'[i - 1].address + accesses'[i - 1].size
    <3>1. CASE i = n + 1
      <4>1. accesses'[i].size = grouped /\ accesses'[i].address = first /\ grouped > 0
        BY <1>2, <1>6, <1>7, <3>1
      <4>2. ASSUME i > 1
            PROVE  accesses'[i].address = accesses'[i - 1].address + accesses'[i - 1].size
        <5>1. n \in 1 .. n /\ n # 0 /\ i - 1 = n
          BY <1>7, <3>1, <4>2
        <5>2. accesses'[n] = accesses[n]
          BY <1>7, <5>1
        <5>3. accesses[n].address + accesses[n].size = first
          BY <2>3, <5>1
        <5> QED BY <4>1, <5>1, <5>2, <5>3
      <4> QED BY <4>1, <4>2
    <3>2. CASE i \in 1 .. n
      <4>1. accesses'[i] = accesses[i]
        BY <1>7, <3>2
      <4>2. i > 1 => i - 1 \in 1 .. n /\ accesses'[i - 1] = accesses[i - 1]
        BY <1>7, <3>2
      <4>3. /\ accesses[i].size > 0
            /\ i > 1 => accesses[i].address = accesses[i - 1].address + accesses[i - 1].size
        BY <2>2, <3>2
      <4> QED BY <4>1, <4>2, <4>3, Zenon
    <3> QED BY <1>7, <3>1, <3>2
  <2>6. accesses'[n + 1].address + accesses'[n + 1].size = txn.address + (admitted + grouped)
    BY <1>2, <1>6, <1>7
  <2> QED BY <1>1, <1>7, <2>1, <2>4, <2>5, <2>6 DEF BytesAreTiled, End
<1>9. AccessIsBounded'
  BY <1>1, <1>2, <1>6, <1>7, DeviceStays DEF IInv, AccessIsBounded
<1>10. AccessStaysInOneRow'
  <2> HIDE DEF n
  <2>1. \A byte : map_address(byte)' = map_address(byte)
    BY <1>1, DeviceStays
  <2>2. FieldsFit' = FieldsFit /\ DOMAIN accesses' = 1 .. n + 1
    BY <1>1, <1>7, DeviceStays
  <2>3. ASSUME FieldsFit, NEW i \in 1 .. n + 1,
               NEW byte \in accesses'[i].address .. accesses'[i].address + accesses'[i].size - 1
        PROVE  /\ same_resource(accesses'[i].at, map_address(byte))
               /\ byte > accesses'[i].address => Contiguous(map_address(byte - 1), map_address(byte))
    <3>1. CASE i = n + 1
      <4>1. InRow(first, grouped) /\ byte \in first .. first + grouped - 1
        BY <1>1, <1>6, <1>7, <2>3, <3>1 DEF IInv, GroupInRow
      <4> QED BY <1>6, <1>7, <3>1, <4>1 DEF InRow
    <3>2. CASE i \in 1 .. n
      <4>1. AccessStaysInOneRow /\ i \in DOMAIN accesses /\ accesses'[i] = accesses[i]
        BY <1>7, <3>2 DEF IInv
      <4>2. byte \in accesses[i].address .. accesses[i].address + accesses[i].size - 1
        BY <4>1
      <4>3. /\ same_resource(accesses[i].at, map_address(byte))
            /\ byte > accesses[i].address => Contiguous(map_address(byte - 1), map_address(byte))
        BY <1>typed, <2>3, <3>2, <4>1, <4>2 DEF AccessStaysInOneRow, End
      <4> QED BY <4>1, <4>3
    <3> QED BY <1>7, <3>1, <3>2
  <2> SUFFICES ASSUME FieldsFit', NEW i \in DOMAIN accesses',
                      NEW byte \in accesses'[i].address .. accesses'[i].address + accesses'[i].size - 1
               PROVE  /\ same_resource(accesses'[i].at, map_fields(device'.org, byte))
                      /\ byte > accesses'[i].address =>
                            Contiguous(map_fields(device'.org, byte - 1), map_fields(device'.org, byte))
    BY <1>typed, <2>2 DEF AccessStaysInOneRow, End, map_address, org
  <2> QED BY <1>1, <2>2, <2>3 DEF map_address, org
<1>11. (accesses \in Seq(AccessSet))' /\ device' \in Devices
  BY <1>1, <1>2, <1>7, DeviceStays
<1> QED BY <1>3, <1>4, <1>8, <1>9, <1>10, <1>11 DEF IInv

LEMMA NextIInv == IInv /\ [Next]_vars => IInv'
<1> SUFFICES ASSUME IInv, [Next]_vars PROVE IInv'
  OBVIOUS
<1>1. ASSUME NEW range \in device.ranges, Submit(range) PROVE IInv'
  BY <1>1, SubmitIInv
<1>2. CASE CallNextAccess
  BY <1>2, CallNextAccessIInv
<1>3. CASE StartGroup
  BY <1>3, TakeBurstIInv DEF StartGroup
<1>4. CASE ExtendGroup
  BY <1>4, TakeBurstIInv DEF ExtendGroup
<1>5. CASE MapThrows
  <2>1. ~FieldsFit
    BY <1>5, MapNeverThrows DEF MapThrows, IInv, TypeOK
  <2>2. TypeOK' /\ ScanIsOn' /\ Resting' /\ GroupInRow'
    BY <1>5 DEF MapThrows, IInv, TypeOK, ScanIsOn, Resting, GroupInRow
  <2> QED BY <1>5, <2>1, <2>2, AccessesStay DEF MapThrows, IInv
<1>6. CASE ReturnAccess
  BY <1>6, ReturnAccessIInv
<1>7. CASE Finish
  <2>1. TypeOK' /\ ScanIsOn' /\ Resting' /\ GroupInRow'
    BY <1>7 DEF Finish, IInv, TypeOK, ScanIsOn, Resting, GroupInRow
  <2> QED BY <1>7, <2>1, AccessesStay DEF Finish, IInv
<1>8. CASE UNCHANGED vars
  <2>1. TypeOK' /\ ScanIsOn' /\ Resting' /\ GroupInRow'
    BY <1>8, DeviceStays DEF vars, IInv, TypeOK, ScanIsOn, Resting, GroupInRow
  <2>2. phase' = "fault" => ~FieldsFit
    BY <1>8 DEF vars, IInv, BytesAreTiled
  <2> QED BY <1>8, <2>1, <2>2, AccessesStay DEF vars, IInv
<1>9. CASE Accept
  BY <1>9, AcceptIInv
<1> QED BY <1>1, <1>2, <1>3, <1>4, <1>5, <1>6, <1>7, <1>8, <1>9 DEF Next, Step

THEOREM Invariance == Spec => []IInv
  BY InitIInv, NextIInv, PTL DEF Spec

\* Every variable of the expansion keeps its type.
THEOREM TypeCorrect == Spec => []TypeOK
<1>1. IInv => TypeOK
  BY DEF IInv
<1> QED BY <1>1, Invariance, PTL

\* Whatever the burst, the interleave and the granularity: the accesses of a
\* transaction tile its byte range, and no exception is thrown on the way.
THEOREM BytesAreAlwaysTiled == Spec => []BytesAreTiled
<1>1. IInv => BytesAreTiled
  BY DEF IInv
<1> QED BY <1>1, Invariance, PTL

\* Aggregation never crosses a channel, pseudo-channel, bank or row.
THEOREM AccessesStayInOneRow == Spec => []AccessStaysInOneRow
<1>1. IInv => AccessStaysInOneRow
  BY DEF IInv
<1> QED BY <1>1, Invariance, PTL

\* Aggregation never outgrows the configured granularity.
THEOREM AccessesAreBounded == Spec => []AccessIsBounded
<1>1. IInv => AccessIsBounded
  BY DEF IInv
<1> QED BY <1>1, Invariance, PTL

\* Transfer times are rounded up exactly, in words of every width.
THEOREM TransferTimesAreExact == Spec => []TransferTimeIsExact
<1>1. IInv => TransferTimeIsExact
  <2> SUFFICES ASSUME IInv, NEW i \in DOMAIN accesses
               PROVE  LET scaled == accesses[i].size * org.rate.interval
                      IN  IF accesses[i].service = Overflow
                          THEN scaled + org.rate.bytes - 1 > MaxWord
                          ELSE /\ accesses[i].service * org.rate.bytes >= scaled
                               /\ (accesses[i].service - 1) * org.rate.bytes < scaled
    BY DEF TransferTimeIsExact
  <2>1. accesses[i] \in AccessSet /\ device \in Devices
    BY DEF IInv
  <2>2. PICK first \in 0 .. MaxWord, size \in 1 .. MaxWord : accesses[i] = Access(first, size)
    BY <2>1 DEF AccessSet
  <2>3. accesses[i].size = size /\ accesses[i].service = transfer_time(org.rate, size)
    BY <2>2 DEF Access
  <2> QED BY <2>1, <2>3, TransferTime
<1> QED BY <1>1, Invariance, PTL

-----------------------------------------------------------------------------
(* The mapping can be inverted: its digits are those of a mixed radix.      *)

\* Dividing twice is dividing by the product.
LEMMA DivOfDiv ==
  ASSUME NEW n \in Nat, NEW a \in Nat \ {0}, NEW b \in Nat \ {0}
  PROVE  (n \div a) \div b = n \div (a * b)
<1> DEFINE q == n \div a  s == n % a  t == q \div b  u == q % b
<1>1. q \in Nat /\ s \in 0 .. a - 1 /\ n = a * q + s
  BY DivMod
<1>2. t \in Nat /\ u \in 0 .. b - 1 /\ q = b * t + u
  BY <1>1, DivMod
<1> HIDE DEF q, s, t, u
<1>3. n = (a * b) * t + (a * u + s)
  <2>1. n = a * (b * t + u) + s
    BY <1>1, <1>2
  <2> QED BY <1>1, <1>2, <2>1, SMT
<1>4. a * u + s \in 0 .. a * b - 1
  <2>1. a * u <= a * (b - 1)
    BY <1>2, SMT
  <2>2. a * (b - 1) = a * b - a /\ a * u \in Nat /\ a * b \in Nat
    BY <1>2, SMT
  <2> QED BY <1>1, <2>1, <2>2
<1> DEFINE d == a * b  r == a * u + s  dt == d * t
<1>5. d \in Nat \ {0} /\ dt \in Nat
  BY <1>2, SMT
<1> HIDE DEF r
<1>6. dt <= n /\ n < dt + d
  <2>1. n = dt + r /\ r \in 0 .. d - 1
    BY <1>3, <1>4 DEF r
  <2> HIDE DEF dt, d
  <2> QED BY <1>5, <2>1
<1>7. n \div d = t
  <2> HIDE DEF d
  <2> QED BY <1>2, <1>5, <1>6, DivUnique
<1> QED BY <1>7 DEF q, t

\* One digit more: the remainder by a product.
LEMMA MixedRadix ==
  ASSUME NEW n \in Nat, NEW a \in Nat \ {0}, NEW b \in Nat \ {0}
  PROVE  n % (a * b) = ((n \div a) % b) * a + (n % a)
<1> DEFINE q == n \div a  s == n % a  t == q \div b  u == q % b  d == a * b
<1>1. q \in Nat /\ s \in 0 .. a - 1 /\ n = a * q + s
  BY DivMod
<1>2. t \in Nat /\ u \in 0 .. b - 1 /\ q = b * t + u
  BY <1>1, DivMod
<1>3. d \in Nat \ {0}
  BY SMT
<1>4. n \div d = t
  BY DivOfDiv
<1>5. n = d * (n \div d) + (n % d) /\ n % d \in Nat
  <2> HIDE DEF d
  <2> QED BY <1>3, DivMod
<1> HIDE DEF q, s, t, u
<1>6. n = d * t + (u * a + s)
  <2>1. n = a * (b * t + u) + s
    BY <1>1, <1>2
  <2> QED BY <1>1, <1>2, <2>1, SMT
<1> DEFINE r == u * a + s  dt == d * t
<1>7. r \in Nat /\ dt \in Nat
  BY <1>1, <1>2, <1>3, SMT
<1>8. n = dt + r /\ n = dt + (n % d)
  BY <1>4, <1>5, <1>6
<1> HIDE DEF r, dt, d
<1>9. n % d = r
  BY <1>5, <1>7, <1>8
<1> QED BY <1>9 DEF r, d, u, q, s

\* A number is recovered from its last digit and the rest.
LEMMA SplitDigit ==
  ASSUME NEW x \in Nat, NEW size \in Nat \ {0}, NEW digit \in 0 .. size - 1
  PROVE  (x * size + digit) \div size = x /\ (x * size + digit) % size = digit
<1> DEFINE n == x * size + digit  m == size * x
<1>1. n \in Nat /\ m \in Nat /\ n = m + digit
  BY SMT
<1>2. n \div size = x
  <2>1. m <= n /\ n < m + size
    <3> HIDE DEF n, m
    <3> QED BY <1>1
  <2> HIDE DEF n
  <2> QED BY <1>1, <2>1, DivUnique
<1>3. n = m + (n % size) /\ n % size \in Nat
  <2> HIDE DEF n
  <2>1. n = size * (n \div size) + (n % size) /\ n % size \in 0 .. size - 1
    BY <1>1, DivMod
  <2> QED BY <1>2, <2>1
<1>4. n % size = digit
  <2> HIDE DEF n, m
  <2> QED BY <1>1, <1>3
<1> QED BY <1>2, <1>4

\* A digit more keeps a number below the product.
LEMMA DigitBound ==
  ASSUME NEW size \in Nat \ {0}, NEW count \in Nat \ {0}, NEW x \in 0 .. count - 1,
         NEW digit \in 0 .. size - 1
  PROVE  x * size + digit \in 0 .. count * size - 1 /\ count * size \in Nat \ {0}
<1>1. x * size <= (count - 1) * size
  BY SMT
<1>2. (count - 1) * size = count * size - size /\ x * size \in Nat /\ count * size \in Nat \ {0}
  BY SMT
<1> DEFINE xs == x * size  cs == count * size
<1> HIDE DEF xs, cs
<1>3. xs <= cs - size /\ xs \in Nat /\ cs \in Nat \ {0}
  BY <1>1, <1>2 DEF xs, cs
<1>4. xs + digit \in 0 .. cs - 1 /\ cs \in Nat \ {0}
  BY <1>3
<1> QED BY <1>4 DEF xs, cs

\* The sizes of an organization.
LEMMA OrganizationFacts ==
  ASSUME device \in Devices
  PROVE  /\ org.stacks \in Nat \ {0} /\ org.channels_per_stack \in Nat \ {0}
         /\ org.pseudo_channels \in Nat \ {0} /\ org.bank_groups \in Nat \ {0} /\ org.banks \in Nat \ {0}
         /\ org.columns \in Nat \ {0} /\ org.rows \in Nat \ {0} /\ org.interleave \in Nat \ {0}
         /\ org.mapping \in {"Linear", "Hbm2PseudoChannelBrc"}
         /\ channel_count(org) \in Nat \ {0}
<1>1. ValidOrganization(org)
  BY DeviceFacts
<1>2. org.stacks \in Nat \ {0} /\ org.channels_per_stack \in Nat \ {0}
  BY <1>1 DEF ValidOrganization
<1>3. org.stacks * org.channels_per_stack \in Nat \ {0}
  BY <1>2, SMT
<1> QED BY <1>1, <1>2, <1>3 DEF ValidOrganization, channel_count

\* A location inside the topology, as map_fields makes it.
Inside(at) ==
  /\ at.stack \in Nat /\ at.channel \in 0 .. org.channels_per_stack - 1
  /\ flat_channel(org, at) \in 0 .. channel_count(org) - 1
  /\ at.pseudo_channel \in 0 .. org.pseudo_channels - 1
  /\ at.bank_group \in 0 .. org.bank_groups - 1 /\ at.bank \in 0 .. org.banks - 1

\* bank_address undoes flat_bank.
LEMMA BankAddressInverts ==
  ASSUME device \in Devices, NEW at, Inside(at)
  PROVE  LET bank == flat_bank(org, at)
         IN  /\ bank < bank_count(org)
             /\ \A field \in DOMAIN bank_address(org, bank) :
                   bank_address(org, bank)[field] = at[field]
<1> DEFINE flat == flat_channel(org, at)
           pseudo == flat_pseudo_channel(org, at)
           group == flat_bank_group(org, at)
           bank == flat_bank(org, at)
           C == channel_count(org)
           P == pseudo_channel_count(org)
           G == bank_group_count(org)
           B == bank_count(org)
<1>1. /\ org.stacks \in Nat \ {0} /\ org.channels_per_stack \in Nat \ {0}
      /\ org.pseudo_channels \in Nat \ {0} /\ org.bank_groups \in Nat \ {0} /\ org.banks \in Nat \ {0}
      /\ C \in Nat \ {0}
  BY OrganizationFacts
<1>2. /\ flat = at.stack * org.channels_per_stack + at.channel
      /\ pseudo = flat * org.pseudo_channels + at.pseudo_channel
      /\ group = pseudo * org.bank_groups + at.bank_group
      /\ bank = group * org.banks + at.bank
      /\ P = C * org.pseudo_channels /\ G = P * org.bank_groups /\ B = G * org.banks
  BY DEF flat_channel, flat_pseudo_channel, flat_bank_group, flat_bank,
     pseudo_channel_count, bank_group_count, bank_count
<1>3. /\ at.stack \in Nat /\ at.channel \in 0 .. org.channels_per_stack - 1 /\ flat \in 0 .. C - 1
      /\ at.pseudo_channel \in 0 .. org.pseudo_channels - 1
      /\ at.bank_group \in 0 .. org.bank_groups - 1 /\ at.bank \in 0 .. org.banks - 1
  BY DEF Inside
<1> HIDE DEF flat, pseudo, group, bank, C, P, G, B
<1>4. pseudo \in 0 .. P - 1 /\ P \in Nat \ {0}
  BY <1>1, <1>2, <1>3, DigitBound
<1>5. group \in 0 .. G - 1 /\ G \in Nat \ {0}
  BY <1>1, <1>2, <1>3, <1>4, DigitBound
<1>6. bank \in 0 .. B - 1 /\ B \in Nat \ {0}
  BY <1>1, <1>2, <1>3, <1>5, DigitBound
<1>7. bank \div org.banks = group /\ bank % org.banks = at.bank
  <2>0. group \in Nat /\ org.banks \in Nat \ {0} /\ at.bank \in 0 .. org.banks - 1
    BY <1>1, <1>3, <1>5
  <2>1. (group * org.banks + at.bank) \div org.banks = group
        /\ (group * org.banks + at.bank) % org.banks = at.bank
    BY <2>0, SplitDigit, Zenon
  <2> QED BY <1>2, <2>1
<1>8. group \div org.bank_groups = pseudo /\ group % org.bank_groups = at.bank_group
  <2>0. pseudo \in Nat /\ org.bank_groups \in Nat \ {0} /\ at.bank_group \in 0 .. org.bank_groups - 1
    BY <1>1, <1>3, <1>4
  <2>1. (pseudo * org.bank_groups + at.bank_group) \div org.bank_groups = pseudo
        /\ (pseudo * org.bank_groups + at.bank_group) % org.bank_groups = at.bank_group
    BY <2>0, SplitDigit, Zenon
  <2> QED BY <1>2, <2>1
<1>9. pseudo \div org.pseudo_channels = flat /\ pseudo % org.pseudo_channels = at.pseudo_channel
  <2>0. flat \in Nat /\ org.pseudo_channels \in Nat \ {0} /\ at.pseudo_channel \in 0 .. org.pseudo_channels - 1
    BY <1>1, <1>3
  <2>1. (flat * org.pseudo_channels + at.pseudo_channel) \div org.pseudo_channels = flat
        /\ (flat * org.pseudo_channels + at.pseudo_channel) % org.pseudo_channels = at.pseudo_channel
    BY <2>0, SplitDigit, Zenon
  <2> QED BY <1>2, <2>1
<1>10. flat \div org.channels_per_stack = at.stack /\ flat % org.channels_per_stack = at.channel
  <2>0. at.stack \in Nat /\ org.channels_per_stack \in Nat \ {0} /\ at.channel \in 0 .. org.channels_per_stack - 1
    BY <1>1, <1>3
  <2>1. (at.stack * org.channels_per_stack + at.channel) \div org.channels_per_stack = at.stack
        /\ (at.stack * org.channels_per_stack + at.channel) % org.channels_per_stack = at.channel
    BY <2>0, SplitDigit, Zenon
  <2> QED BY <1>2, <2>1
<1>11. bank_address(org, bank) =
          [stack |-> at.stack, channel |-> at.channel, pseudo_channel |-> at.pseudo_channel,
           bank_group |-> at.bank_group, bank |-> at.bank]
  BY <1>7, <1>8, <1>9, <1>10 DEF bank_address
<1>12. bank < B
  BY <1>6
<1> QED BY <1>11, <1>12 DEF bank, B

\* A digit of the linear layout is a remainder of the quotients taken so far.
LEMMA DigitStep ==
  ASSUME NEW n \in Nat, NEW below \in Nat \ {0}, NEW size \in Nat \ {0}
  PROVE  /\ Digit(n, below, size) = (n \div below) % size
         /\ Digit(n, below, size) \in 0 .. size - 1
         /\ (n \div below) \div size = n \div (below * size)
         /\ below * size \in Nat \ {0}
         /\ n \div below \in Nat /\ (n \div below) \div size \in Nat
<1> DEFINE q == n \div below
<1>1. q \in Nat /\ q % size \in 0 .. size - 1 /\ q \div size \in Nat
  <2>1. q \in Nat
    BY DivMod
  <2> HIDE DEF q
  <2> QED BY <2>1, DivMod
<1>2. q \div size = n \div (below * size)
  BY DivOfDiv
<1>3. below * size \in Nat \ {0}
  BY SMT
<1> QED BY <1>1, <1>2, <1>3 DEF Digit

\* What map_fields makes of a line lies inside the topology, and reading its
\* digits from the slowest gives the line, as far as the device reaches.
LEMMA LinearInverts ==
  ASSUME device \in Devices, org.mapping = "Linear", NEW byte \in Nat
  PROVE  /\ Inside(map_address(byte))
         /\ LineOf(map_address(byte)) = (byte \div org.interleave) % Capacity
<1> DEFINE line == byte \div org.interleave
           at == map_address(byte)
           c == channel_count(org)  K == org.columns  R == org.rows
           B == org.banks  G == org.bank_groups  P == org.pseudo_channels
           q1 == line \div c
           q2 == q1 \div K
           q3 == q2 \div R
           q4 == q3 \div B
           q5 == q4 \div G
<1>1. /\ c \in Nat \ {0} /\ K \in Nat \ {0} /\ R \in Nat \ {0}
      /\ B \in Nat \ {0} /\ G \in Nat \ {0} /\ P \in Nat \ {0}
      /\ org.channels_per_stack \in Nat \ {0} /\ org.interleave \in Nat \ {0}
  BY OrganizationFacts
<1>2. line \in Nat
  BY <1>1, DivMod
<1>3. at = LinearFields(org, line)
  BY DEF map_address, map_fields
<1> HIDE DEF at, c, K, R, B, G, P, line
<1>4. /\ at.stack = (line % c) \div org.channels_per_stack
      /\ at.channel = (line % c) % org.channels_per_stack
      /\ at.column = Digit(line, c, K)
      /\ at.row = Digit(line, c * K, R)
      /\ at.bank = Digit(line, c * K * R, B)
      /\ at.bank_group = Digit(line, c * K * R * B, G)
      /\ at.pseudo_channel = Digit(line, c * K * R * B * G, P)
  BY <1>3 DEF LinearFields, c, K, R, B, G, P
<1> HIDE DEF q1, q2, q3, q4, q5
<1>5. /\ at.column = q1 % K /\ at.column \in 0 .. K - 1
      /\ q2 = line \div (c * K) /\ c * K \in Nat \ {0} /\ q1 \in Nat /\ q2 \in Nat
  <2> DEFINE below == c
  <2>1. below \in Nat \ {0} /\ q1 = line \div below /\ at.column = Digit(line, below, K)
    BY <1>1, <1>4 DEF q1
  <2> HIDE DEF below
  <2>2. /\ Digit(line, below, K) = (line \div below) % K
        /\ Digit(line, below, K) \in 0 .. K - 1
        /\ (line \div below) \div K = line \div (below * K)
        /\ below * K \in Nat \ {0}
        /\ line \div below \in Nat /\ (line \div below) \div K \in Nat
    BY <1>1, <1>2, <2>1, DigitStep, Zenon
  <2> QED BY <2>1, <2>2 DEF below, q2
<1>6. /\ at.row = q2 % R /\ at.row \in 0 .. R - 1
      /\ q3 = line \div (c * K * R) /\ c * K * R \in Nat \ {0} /\ q2 \in Nat /\ q3 \in Nat
  <2> DEFINE below == c * K
  <2>1. below \in Nat \ {0} /\ q2 = line \div below /\ at.row = Digit(line, below, R)
    BY <1>5, <1>1, <1>4
  <2> HIDE DEF below
  <2>2. /\ Digit(line, below, R) = (line \div below) % R
        /\ Digit(line, below, R) \in 0 .. R - 1
        /\ (line \div below) \div R = line \div (below * R)
        /\ below * R \in Nat \ {0}
        /\ line \div below \in Nat /\ (line \div below) \div R \in Nat
    BY <1>1, <1>2, <2>1, DigitStep, Zenon
  <2> QED BY <2>1, <2>2 DEF below, q3
<1>7. /\ at.bank = q3 % B /\ at.bank \in 0 .. B - 1
      /\ q4 = line \div (c * K * R * B) /\ c * K * R * B \in Nat \ {0} /\ q3 \in Nat /\ q4 \in Nat
  <2> DEFINE below == c * K * R
  <2>1. below \in Nat \ {0} /\ q3 = line \div below /\ at.bank = Digit(line, below, B)
    BY <1>6, <1>1, <1>4
  <2> HIDE DEF below
  <2>2. /\ Digit(line, below, B) = (line \div below) % B
        /\ Digit(line, below, B) \in 0 .. B - 1
        /\ (line \div below) \div B = line \div (below * B)
        /\ below * B \in Nat \ {0}
        /\ line \div below \in Nat /\ (line \div below) \div B \in Nat
    BY <1>1, <1>2, <2>1, DigitStep, Zenon
  <2> QED BY <2>1, <2>2 DEF below, q4
<1>8. /\ at.bank_group = q4 % G /\ at.bank_group \in 0 .. G - 1
      /\ q5 = line \div (c * K * R * B * G) /\ c * K * R * B * G \in Nat \ {0} /\ q4 \in Nat /\ q5 \in Nat
  <2> DEFINE below == c * K * R * B
  <2>1. below \in Nat \ {0} /\ q4 = line \div below /\ at.bank_group = Digit(line, below, G)
    BY <1>7, <1>1, <1>4
  <2> HIDE DEF below
  <2>2. /\ Digit(line, below, G) = (line \div below) % G
        /\ Digit(line, below, G) \in 0 .. G - 1
        /\ (line \div below) \div G = line \div (below * G)
        /\ below * G \in Nat \ {0}
        /\ line \div below \in Nat /\ (line \div below) \div G \in Nat
    BY <1>1, <1>2, <2>1, DigitStep, Zenon
  <2> QED BY <2>1, <2>2 DEF below, q5
<1>9. at.pseudo_channel = q5 % P /\ at.pseudo_channel \in 0 .. P - 1
  <2> DEFINE below == c * K * R * B * G
  <2>1. below \in Nat \ {0} /\ q5 = line \div below /\ at.pseudo_channel = Digit(line, below, P)
    BY <1>8, <1>1, <1>4
  <2> HIDE DEF below
  <2>2. /\ Digit(line, below, P) = (line \div below) % P
        /\ Digit(line, below, P) \in 0 .. P - 1
        /\ (line \div below) \div P = line \div (below * P)
        /\ below * P \in Nat \ {0}
        /\ line \div below \in Nat /\ (line \div below) \div P \in Nat
    BY <1>1, <1>2, <2>1, DigitStep, Zenon
  <2> QED BY <2>1, <2>2 DEF below
<1>10. /\ line % c \in 0 .. c - 1 /\ at.stack \in Nat /\ at.channel \in 0 .. org.channels_per_stack - 1
       /\ flat_channel(org, at) = line % c
  <2> DEFINE f == line % c  s == org.channels_per_stack
  <2>1. f \in 0 .. c - 1
    BY <1>1, <1>2, DivMod
  <2>2. at.stack = f \div s /\ at.channel = f % s /\ s \in Nat \ {0} /\ f \in Nat
    BY <1>1, <1>4, <2>1
  <2>3. flat_channel(org, at) = at.stack * s + at.channel
    BY DEF flat_channel
  <2> HIDE DEF f, s
  <2>4. f \div s \in Nat /\ f % s \in 0 .. s - 1 /\ f = s * (f \div s) + (f % s)
    BY <2>2, DivMod
  <2>5. s * at.stack = at.stack * s
    BY <2>2, <2>4
  <2> QED BY <2>1, <2>2, <2>3, <2>4, <2>5 DEF f, s
<1>11. Inside(at)
  BY <1>7, <1>8, <1>9, <1>10 DEF Inside, c, B, G, P
<1>12. LineOf(at) = line % Capacity
  <2> DEFINE h5 == at.pseudo_channel
             h4 == h5 * G + at.bank_group
             h3 == h4 * B + at.bank
             h2 == h3 * R + at.row
             h1 == h2 * K + at.column
             h0 == h1 * c + flat_channel(org, at)
  <2>1. LineOf(at) = h0
    BY DEF LineOf, c, K, R, B, G
  <2>2. G * P \in Nat \ {0} /\ q4 % (G * P) = h4
    <3>1. q4 % (G * P) = ((q4 \div G) % P) * G + (q4 % G)
      BY <1>1, <1>7, MixedRadix, Zenon
    <3>2. G * P \in Nat \ {0}
      BY <1>1, SMT
    <3> QED BY <1>8, <1>9, <3>1, <3>2 DEF q5
  <2> HIDE DEF h4
  <2>3. B * (G * P) \in Nat \ {0} /\ q3 % (B * (G * P)) = h3
    <3> DEFINE below == G * P
    <3> HIDE DEF below
    <3>1. below \in Nat \ {0} /\ q4 % below = h4
      BY <2>2 DEF below
    <3>2. q3 % (B * below) = ((q3 \div B) % below) * B + (q3 % B)
      BY <1>1, <1>6, <3>1, MixedRadix, Zenon
    <3>3. B * below \in Nat \ {0}
      BY <1>1, <3>1, SMT
    <3>4. q3 % (B * below) = h3
      BY <1>7, <3>1, <3>2 DEF q4, h3
    <3> QED BY <3>3, <3>4 DEF below
  <2> HIDE DEF h3
  <2>4. R * (B * (G * P)) \in Nat \ {0} /\ q2 % (R * (B * (G * P))) = h2
    <3> DEFINE below == B * (G * P)
    <3> HIDE DEF below
    <3>1. below \in Nat \ {0} /\ q3 % below = h3
      BY <2>3 DEF below
    <3>2. q2 % (R * below) = ((q2 \div R) % below) * R + (q2 % R)
      BY <1>1, <1>5, <3>1, MixedRadix, Zenon
    <3>3. R * below \in Nat \ {0}
      BY <1>1, <3>1, SMT
    <3>4. q2 % (R * below) = h2
      BY <1>6, <3>1, <3>2 DEF q3, h2
    <3> QED BY <3>3, <3>4 DEF below
  <2> HIDE DEF h2
  <2>5. K * (R * (B * (G * P))) \in Nat \ {0} /\ q1 % (K * (R * (B * (G * P)))) = h1
    <3> DEFINE below == R * (B * (G * P))
    <3> HIDE DEF below
    <3>1. below \in Nat \ {0} /\ q2 % below = h2
      BY <2>4 DEF below
    <3>2. q1 % (K * below) = ((q1 \div K) % below) * K + (q1 % K)
      BY <1>1, <1>5, <3>1, MixedRadix, Zenon
    <3>3. K * below \in Nat \ {0}
      BY <1>1, <3>1, SMT
    <3>4. q1 % (K * below) = h1
      BY <1>5, <3>1, <3>2 DEF q2, h1
    <3> QED BY <3>3, <3>4 DEF below
  <2> HIDE DEF h1
  <2>6. line % (c * (K * (R * (B * (G * P))))) = h0
    <3> DEFINE below == K * (R * (B * (G * P)))
    <3> HIDE DEF below
    <3>1. below \in Nat \ {0} /\ q1 % below = h1
      BY <2>5 DEF below
    <3>2. line % (c * below) = ((line \div c) % below) * c + (line % c)
      BY <1>1, <1>2, <3>1, MixedRadix, Zenon
    <3>3. line % (c * below) = h0
      BY <1>10, <3>1, <3>2 DEF q1
    <3> QED BY <3>3 DEF below
  <2>7. Capacity = c * (K * (R * (B * (G * P))))
    <3>1. Capacity = (((c * P) * G) * B) * R * K
      BY DEF Capacity, bank_count, bank_group_count, pseudo_channel_count, c, P, G, B, R, K
    <3>2. (((c * P) * G) * B) * R * K = c * (K * (R * (B * (G * P))))
      BY <1>1, SMT
    <3> QED BY <3>1, <3>2
  <2> QED BY <2>1, <2>6, <2>7
<1> QED BY <1>11, <1>12 DEF at, line

\* The same of the Brc bit fields, apart from bit 10.
LEMMA BrcInverts ==
  ASSUME device \in Devices, FieldsFit, org.mapping # "Linear", NEW byte \in Nat
  PROVE  /\ Inside(map_address(byte))
         /\ BrcAddressOf(map_address(byte)) + 1024 * Digit(byte, 1024, 2) = (byte - (byte % 32)) % BrcReach
<1> DEFINE at == map_address(byte)
<1>1. at = BrcFields(byte)
  BY DEF map_address, map_fields
<1>2. /\ org.pseudo_channels >= 2 /\ org.bank_groups >= 4 /\ org.banks >= 4
      /\ org.pseudo_channels \in Nat /\ org.bank_groups \in Nat /\ org.banks \in Nat
      /\ org.channels_per_stack \in Nat \ {0} /\ channel_count(org) \in Nat \ {0}
  BY OrganizationFacts, SMT DEF FieldsFit
<1> HIDE DEF at
<1>3. /\ at.stack = 0 /\ at.channel = 0 /\ at.pseudo_channel = Digit(byte, 32, 2)
      /\ at.bank_group = Digit(byte, 64, 4) /\ at.bank = Digit(byte, 256, 4)
      /\ at.column = Digit(byte, 2048, 32) /\ at.row = Digit(byte, 65536, 16384)
  BY <1>1, SMT DEF BrcFields
<1>4. /\ at.pseudo_channel \in 0 .. 1 /\ at.bank_group \in 0 .. 3 /\ at.bank \in 0 .. 3
  BY <1>3, SMT DEF Digit
<1>5. flat_channel(org, at) = 0
  BY <1>2, <1>3, SMT DEF flat_channel
<1>6. Inside(at)
  BY <1>2, <1>3, <1>4, <1>5, SMT DEF Inside
<1>7. BrcAddressOf(at) + 1024 * Digit(byte, 1024, 2) = (byte - (byte % 32)) % BrcReach
  <2> DEFINE q1 == byte \div 32  q2 == q1 \div 2  q3 == q2 \div 4  q4 == q3 \div 4
             q5 == q4 \div 2  q6 == q5 \div 32
  <2>1. /\ q1 \in Nat /\ q2 \in Nat /\ q3 \in Nat /\ q4 \in Nat /\ q5 \in Nat /\ q6 \in Nat
    BY SMT
  <2>2. /\ byte \div 64 = q2 /\ byte \div 256 = q3 /\ byte \div 1024 = q4
        /\ byte \div 2048 = q5 /\ byte \div 65536 = q6
    BY SMT
  <2>3. /\ byte - (byte % 32) = 32 * q1 /\ q1 = 2 * q2 + (q1 % 2) /\ q2 = 4 * q3 + (q2 % 4)
        /\ q3 = 4 * q4 + (q3 % 4) /\ q4 = 2 * q5 + (q4 % 2) /\ q5 = 32 * q6 + (q5 % 32)
    <3>1. ASSUME NEW n \in Nat PROVE /\ n - (n % 32) = 32 * (n \div 32) /\ n = 2 * (n \div 2) + (n % 2)
                                     /\ n = 4 * (n \div 4) + (n % 4) /\ n = 32 * (n \div 32) + (n % 32)
      BY SMT
    <3> HIDE DEF q1, q2, q3, q4, q5, q6
    <3> QED BY <2>1, <3>1, SMT DEF q1, q2, q3, q4, q5, q6
  <2>4. /\ q1 % 2 \in 0 .. 1 /\ q2 % 4 \in 0 .. 3 /\ q3 % 4 \in 0 .. 3 /\ q4 % 2 \in 0 .. 1
        /\ q5 % 32 \in 0 .. 31
    <3> HIDE DEF q1, q2, q3, q4, q5, q6
    <3> QED BY <2>1, SMT
  <2> DEFINE p == q1 % 2  g == q2 % 4  b == q3 % 4  e == q4 % 2  c == q5 % 32
             w == 2048 * c + 1024 * e + 256 * b + 64 * g + 32 * p
             m == byte - (byte % 32)  A == 65536  D == 16384
  <2>5. /\ at.pseudo_channel = p /\ at.bank_group = g /\ at.bank = b /\ Digit(byte, 1024, 2) = e
        /\ at.column = c /\ at.row = q6 % D
    BY <1>3, <2>2, SMT DEF Digit
  <2>6. m \in Nat /\ A \in Nat \ {0} /\ D \in Nat \ {0} /\ BrcReach = A * D
    BY SMT DEF BrcReach
  <2> HIDE DEF q1, q2, q3, q4, q5, q6, p, g, b, e, c, A, D
  <2>7. /\ q1 = 2 * q2 + p /\ q2 = 4 * q3 + g /\ q3 = 4 * q4 + b /\ q4 = 2 * q5 + e /\ q5 = 32 * q6 + c
        /\ p \in 0 .. 1 /\ g \in 0 .. 3 /\ b \in 0 .. 3 /\ e \in 0 .. 1 /\ c \in 0 .. 31
    BY <2>3, <2>4, SMT DEF p, g, b, e, c
  <2>8. m = q6 * A + w /\ w \in 0 .. A - 1
    <3>1. m = 32 * q1
      BY <2>3, SMT
    <3> HIDE DEF m
    <3>2. 32 * q1 = 256 * q3 + (64 * g + 32 * p) /\ 64 * g + 32 * p \in 0 .. 255
      BY <2>1, <2>7, SMT
    <3>3. 256 * q3 = 2048 * q5 + (1024 * e + 256 * b) /\ 1024 * e + 256 * b \in 0 .. 1792
      BY <2>1, <2>7, SMT
    <3>4. 2048 * q5 = q6 * A + 2048 * c /\ 2048 * c \in 0 .. A - 2048
      <4>1. q5 = 32 * q6 + c /\ c \in 0 .. 31 /\ q5 \in Nat /\ q6 \in Nat
        BY <2>1, <2>7, SMT
      <4>2. 2048 * q5 = q6 * 65536 + 2048 * c
        BY <4>1, SMT
      <4>3. c \in Int /\ 0 <= c /\ c <= 31
        BY <4>1, SMT
      <4>4. 2048 * c \in Int /\ 0 <= 2048 * c /\ 2048 * c <= 63488
        BY <4>3, SMT
      <4>5. A - 2048 = 63488
        BY SMT DEF A
      <4>6. 2048 * q5 = q6 * A + 2048 * c
        BY <4>2, SMT DEF A
      <4>7. 2048 * c \in 0 .. A - 2048
        <5> DEFINE v == 2048 * c
                   last == A - 2048
        <5> HIDE DEF v, last
        <5>1. v \in Int /\ 0 <= v /\ v <= last /\ last \in Int
          BY <4>4, <4>5, SMT DEF v, last
        <5>2. v \in 0 .. last
          BY <5>1, SMT
        <5> QED BY <5>2, SMT DEF v, last
      <4> QED BY <4>6, <4>7
    <3> DEFINE v1 == 64 * g + 32 * p  v2 == 1024 * e + 256 * b  v3 == 2048 * c
               w1 == 32 * q1  w2 == 256 * q3  w3 == 2048 * q5  w4 == q6 * A
    <3>5. w = v3 + v2 + v1
      BY <2>7, SMT
    <3>6. w1 \in Nat /\ w2 \in Nat /\ w3 \in Nat /\ w4 \in Nat
      BY <2>1, <2>6, SMT
    <3> HIDE DEF w, v1, v2, v3, w1, w2, w3, w4
    <3>7. m = w1
      BY <3>1, SMT DEF w1
    <3>8. w1 = w2 + v1 /\ v1 \in 0 .. 255
      BY <3>2, SMT DEF w1, w2, v1
    <3>9. w2 = w3 + v2 /\ v2 \in 0 .. 1792
      BY <3>3, SMT DEF w2, w3, v2
    <3>10. w3 = w4 + v3 /\ v3 \in 0 .. A - 2048
      BY <3>4, SMT DEF w3, w4, v3
    <3>11. w1 = w4 + w /\ w \in 0 .. A - 1
      BY <2>6, <3>5, <3>6, <3>8, <3>9, <3>10, SMT
    <3> QED BY <3>7, <3>11, SMT DEF w4
  <2> HIDE DEF m, w
  <2>9. m \div A = q6 /\ m % A = w
    <3>1. q6 \in Nat /\ A \in Nat \ {0} /\ w \in 0 .. A - 1
      BY <2>1, <2>6, <2>8, SMT
    <3>2. (q6 * A + w) \div A = q6 /\ (q6 * A + w) % A = w
      BY <3>1, SplitDigit, Zenon
    <3> QED BY <2>8, <3>2, Zenon
  <2>10. m % (A * D) = ((m \div A) % D) * A + (m % A)
    BY <2>6, MixedRadix, Zenon
  <2>11. m % BrcReach = at.row * 65536 + w
    BY <2>5, <2>6, <2>9, <2>10, SMT DEF A
  <2>12. at.row \in Nat
    BY <2>1, <2>5, <2>6, DivMod, SMT
  <2>13. BrcAddressOf(at) + 1024 * Digit(byte, 1024, 2) = at.row * 65536 + w
    BY <2>5, <2>7, <2>12, SMT DEF BrcAddressOf, w
  <2> QED BY <2>11, <2>13, SMT DEF m
<1> QED BY <1>6, <1>7 DEF at

\* The mapping can be inverted on every device whose fields fit, and a flat bank
\* number is decoded to the coordinates it was made from.
THEOREM LocationsAreAlwaysDistinct == Spec => []LocationsAreDistinct
<1>1. IInv => LocationsAreDistinct
  <2> SUFFICES ASSUME IInv, FieldsFit, NEW i \in DOMAIN accesses
               PROVE  LET at == accesses[i].at
                          bank == flat_bank(org, at)
                      IN  /\ IF org.mapping = "Linear"
                             THEN LineOf(at) = (accesses[i].address \div org.interleave) % Capacity
                             ELSE BrcAddressOf(at) + 1024 * Digit(accesses[i].address, 1024, 2)
                                      = (accesses[i].address - (accesses[i].address % 32)) % BrcReach
                          /\ bank < bank_count(org)
                          /\ \A field \in DOMAIN bank_address(org, bank) :
                                 bank_address(org, bank)[field] = at[field]
    BY DEF LocationsAreDistinct
  <2>1. accesses[i] \in AccessSet /\ device \in Devices
    BY DEF IInv
  <2>2. PICK first \in 0 .. MaxWord, size \in 1 .. MaxWord : accesses[i] = Access(first, size)
    BY <2>1 DEF AccessSet
  <2>3. accesses[i].address = first /\ accesses[i].at = map_address(first) /\ first \in Nat
    BY <2>2 DEF Access
  <2>4. Inside(map_address(first))
    BY <2>1, <2>3, LinearInverts, BrcInverts
  <2>5. IF org.mapping = "Linear"
        THEN LineOf(map_address(first)) = (first \div org.interleave) % Capacity
        ELSE BrcAddressOf(map_address(first)) + 1024 * Digit(first, 1024, 2) = (first - (first % 32)) % BrcReach
    BY <2>1, <2>3, LinearInverts, BrcInverts
  <2>6. LET bank == flat_bank(org, map_address(first))
        IN  /\ bank < bank_count(org)
            /\ \A field \in DOMAIN bank_address(org, bank) :
                  bank_address(org, bank)[field] = map_address(first)[field]
    BY <2>1, <2>4, BankAddressInverts
  <2> QED BY <2>3, <2>5, <2>6
<1> QED BY <1>1, Invariance, PTL
=============================================================================
