--------------------------- MODULE MCAddressSpace ---------------------------
(* AddressSpace with ten pages of two bytes, a file of three bytes and, in *)
(* the pages right behind it as first fit has it, a stack of two pages.    *)
(* A size of 19 is within a page of the whole address space.               *)
EXTENDS AddressSpace

MCAddresses == {0, 13, 16}
MCOffsets == {0, 1, 2}
MCSizes == {0, 3, 5, 19}
=============================================================================
