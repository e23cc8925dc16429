------------------------------ MODULE MC_VmMap ------------------------------
(* VmMap with a firmware table that may straddle two pages.  The identity   *)
(* map has that table's first page, a frame of usable memory and a huge      *)
(* entry; holes appear as pages are unmapped.                                *)
EXTENDS VmMap, TLC

CONSTANTS f1, f2, w1, w2

FirmwarePages == <<w1, w2>>

IdentityMap == (2 :> w1) @@ (4 :> f1) @@ (6 :> HugePage) @@ (8 :> HugePage)
=============================================================================
