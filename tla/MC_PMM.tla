------------------------------- MODULE MC_PMM -------------------------------
(* Memory maps of a few pages of two bytes each, in the shapes boot loaders *)
(* hand over: usable RAM from address 0, a hole, unaligned region ends, the *)
(* bitmap in the first region or in a later one (page 0 then is RAM that    *)
(* could be lent), and no room for it.                                      *)
EXTENDS PMM

Entry(b, l, u) == [base |-> b, length |-> l, usable |-> u]

MCMemMaps == {
  << Entry(0, 12, TRUE) >>,
  << Entry(0, 4, FALSE), Entry(4, 12, TRUE) >>,
  << Entry(0, 6, TRUE), Entry(6, 2, FALSE), Entry(8, 8, TRUE) >>,
  << Entry(1, 1, TRUE), Entry(3, 6, TRUE), Entry(9, 2, FALSE), Entry(11, 6, TRUE) >>,
  << Entry(0, 2, TRUE), Entry(2, 18, FALSE), Entry(20, 2, TRUE), Entry(22, 6, TRUE), Entry(28, 9, TRUE) >>,
  << Entry(0, 20, FALSE), Entry(20, 1, TRUE) >> }
=============================================================================
