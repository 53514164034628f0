---------------------------- MODULE PageEntries ----------------------------
(***************************************************************************)
(* The bit arithmetic of src/vms/src/pte.c and page_table.c, and why Vms   *)
(* may take an entry for a record of a page and four flags, and an address *)
(* for three indexes and an offset.  A 64-bit word is the set of its bits. *)
(***************************************************************************)
EXTENDS Integers

Bits == 0..63
Word == SUBSET Bits
ShiftLeft(w, n) == {b \in Bits : b - n \in w}
ShiftRight(w, n) == {b \in Bits : b + n \in w}
Complement(w) == Bits \ w

PteValid == {0}
PteRead == {1}
PteWrite == {2}
PteCustom == {8}
PpnStartBit == 10
OffsetBits == 12
IndexBits == 9

FlagSet(entry, flag) == entry \cup flag
FlagClear(entry, flag) == entry \cap Complement(flag)
Flag(entry, flag) == entry \cap flag # {}

PpnMask == ShiftRight(ShiftLeft(Bits, 20), PpnStartBit)
GetPpn(entry) == ShiftRight(entry \cap PpnMask, PpnStartBit)
SetPpn(entry, ppn) ==
    (entry \cap Complement(PpnMask))
    \cup ShiftRight(ShiftLeft(ppn, 20), PpnStartBit)

PpnToPage(ppn) == ShiftLeft(ppn, OffsetBits)
PageToPpn(pointer) == ShiftRight(pointer, OffsetBits)

\* 0x1FF << start_bit selects the index of a level.
StartBit(level) == IndexBits * level + OffsetBits
PageTableIndex(address, level) ==
    ShiftRight(ShiftLeft(0..8, StartBit(level)) \cap address, StartBit(level))
Offset(address) == address \cap 0..11

Flags == {PteValid, PteRead, PteWrite, PteCustom}
Aligned(pointer) == pointer \cap 0..(OffsetBits - 1) = {}
=============================================================================
