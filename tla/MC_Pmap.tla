------------------------------- MODULE MC_Pmap -------------------------------
(* Tables of four entries: 256 virtual pages, of which 128 to 255 are shared  *)
(* through two entries of the top table; huge pages of 4 and 16 pages, pages  *)
(* of 2 bytes.  Memory maps: one that a single huge page covers, one that     *)
(* needs every size and skips the kernel's image, and one whose regions are   *)
(* not aligned, so that the second begins in a page the first has mapped.     *)
EXTENDS Pmap

Region(t, b, l) == [type |-> t, base |-> b, length |-> l]
Section(v, p, l) == [virt |-> v, phys |-> p, length |-> l]

MCMemmaps ==
  { << Region("usable", 0, 32) >>,
    << Region("usable", 8, 52), Region("executable", 64, 8), Region("reserved", 72, 4) >>,
    << Region("reserved", 0, 7), Region("usable", 7, 5), Region("bad", 12, 2) >> }

MCImage == << Section(480, 64, 3), Section(484, 68, 4) >>
==============================================================================
