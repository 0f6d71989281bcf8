--------------------------- MODULE AddressMapper ---------------------------
(***************************************************************************)
(* HbmAddressMapper (src/src/mapping/address_mapper.cpp): where a byte     *)
(* address lies on the device.  An organization `org' is the record of     *)
(* HbmOrganization's fields and those of its topology: stacks,             *)
(* channels_per_stack, pseudo_channels, bank_groups, banks (per group),    *)
(* columns, rows, burst, interleave, mapping and the data rate             *)
(* [bytes, interval].                                                      *)
(***************************************************************************)
EXTENDS Integers

channel_count(org) == org.stacks * org.channels_per_stack
pseudo_channel_count(org) == channel_count(org) * org.pseudo_channels
bank_group_count(org) == pseudo_channel_count(org) * org.bank_groups
bank_count(org) == bank_group_count(org) * org.banks

\* topology.validate and the geometry checks of HbmConfig::validate.
ValidOrganization(org) ==
    /\ {org.stacks, org.channels_per_stack, org.pseudo_channels, org.bank_groups, org.banks,
        org.columns, org.rows, org.burst, org.interleave,
        org.rate.bytes, org.rate.interval} \subseteq Nat \ {0}
    /\ org.mapping \in {"Linear", "Hbm2PseudoChannelBrc"}

\* The digit of n that counts units of `below' and takes `size' values.
Digit(n, below, size) == (n \div below) % size

\* (A definition named "..._without_..." or "..._with_..." is the next one with a
\* plausible mistake; the specification does not use it.)
LinearFields_without_column_digit(org, line) ==
    LET channels == channel_count(org)
        bankLines == channels * org.rows
    IN  [stack          |-> (line % channels) \div org.channels_per_stack,
         channel        |-> (line % channels) % org.channels_per_stack,
         column         |-> Digit(line, channels, org.columns),
         row            |-> Digit(line, channels, org.rows),
         bank           |-> Digit(line, bankLines, org.banks),
         bank_group     |-> Digit(line, bankLines * org.banks, org.bank_groups),
         pseudo_channel |-> 0]

\* AddressMapping::Linear: channel, column, row, bank, bank group and pseudo-
\* channel of an interleave line, from its fastest to its slowest digit.
LinearFields(org, line) ==
    LET channels == channel_count(org)
        rowLines == channels * org.columns
        bankLines == rowLines * org.rows
        groupLines == bankLines * org.banks
    IN  [stack          |-> (line % channels) \div org.channels_per_stack,
         channel        |-> (line % channels) % org.channels_per_stack,
         column         |-> Digit(line, channels, org.columns),
         row            |-> Digit(line, rowLines, org.rows),
         bank           |-> Digit(line, bankLines, org.banks),
         bank_group     |-> Digit(line, groupLines, org.bank_groups),
         pseudo_channel |-> Digit(line, groupLines * org.bank_groups, org.pseudo_channels)]

\* AddressMapping::Hbm2PseudoChannelBrc: fixed bit fields.  Bit 10 is in none of
\* them, and the interleave is not looked at.
BrcFields(address) ==
    [stack |-> 0, channel |-> 0,
     pseudo_channel |-> Digit(address, 32, 2),
     bank_group     |-> Digit(address, 64, 4),
     bank           |-> Digit(address, 256, 4),
     column         |-> Digit(address, 2048, 32),
     row            |-> Digit(address, 65536, 16384)]

map_fields(org, address) ==
    IF org.mapping = "Linear" THEN LinearFields(org, address \div org.interleave)
                              ELSE BrcFields(address)

\* Else map throws out_of_range.
InsideTopology(org, at) ==
    /\ at.pseudo_channel < org.pseudo_channels /\ at.bank_group < org.bank_groups
    /\ at.bank < org.banks /\ at.column < org.columns /\ at.row < org.rows

flat_channel(org, at) == at.stack * org.channels_per_stack + at.channel
flat_pseudo_channel(org, at) == flat_channel(org, at) * org.pseudo_channels + at.pseudo_channel
flat_bank_group(org, at) == flat_pseudo_channel(org, at) * org.bank_groups + at.bank_group
flat_bank(org, at) == flat_bank_group(org, at) * org.banks + at.bank

\* bank_address: the coordinates of a flat bank number.
bank_address(org, bank) ==
    LET group  == bank \div org.banks
        pseudo == group \div org.bank_groups
        flat   == pseudo \div org.pseudo_channels
    IN  [stack          |-> flat \div org.channels_per_stack,
         channel        |-> flat % org.channels_per_stack,
         pseudo_channel |-> pseudo % org.pseudo_channels,
         bank_group     |-> group % org.bank_groups,
         bank           |-> bank % org.banks]

\* Bytes from an address to the end of its interleave line.
next_mapping_boundary(org, address) == org.interleave - (address % org.interleave)
=============================================================================
