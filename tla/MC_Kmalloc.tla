----------------------------- MODULE MC_Kmalloc -----------------------------
(* The table of stdlib.c, and every request around the classes' boundaries. *)
EXTENDS Kmalloc, Sequences

Table == << 8, 16, 24, 32, 40, 48, 56, 64, 80, 96, 112, 128, 160, 192, 224, 256,
            320, 384, 448, 512, 640, 768, 896, 1024, 2048, 3072 >>

MCSizes == [i \in 0 .. Len(Table) - 1 |-> Table[i + 1]]

MCRequests == {s \in 1 .. 8300 : s % 16 \in {0, 1, 8, 15}}
=============================================================================
