--------------------------- MODULE MCAddressSpace ---------------------------
(***************************************************************************)
(* Instances of AddressSpace: regions of two pages.  Region 0 is the       *)
(* kernel, programs live in region 1 and have their stack in region 2, as  *)
(* test/link.ld and elf.c place them.                                      *)
(***************************************************************************)
EXTENDS AddressSpace

MCImages == {{2}, {2, 3}}
MCStack  == {5}
=============================================================================
