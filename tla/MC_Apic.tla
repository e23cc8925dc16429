------------------------------- MODULE MC_Apic -------------------------------
\* Every MADT of up to four entries out of: a CPU, enabled or not, an I/O APIC,
\* an override, one of another bus, entries that are too short for their type,
\* one of an unknown type, and one shorter than a header; with a length that is
\* right or cuts the last entry.
EXTENDS Apic

Entry(type, length, bus) ==
  [type |-> type, length |-> length, bus |-> bus, id |-> 0, enabled |-> length # 9, source |-> 0, gsi |-> 0, flags |-> 0]

Kinds == {Entry("LAPIC", 8, 0), Entry("LAPIC", 9, 0), Entry("LAPIC", 6, 0), Entry("IOAPIC", 12, 0),
          Entry("ISO", 10, 0), Entry("ISO", 10, 1), Entry("NMI", 4, 0), Entry("LAPIC", 1, 0)}

Numbered(s) == [i \in DOMAIN s |-> [s[i] EXCEPT !.id = i, !.source = i, !.gsi = i % 2]]
Bytes(s) == FoldLeft(LAMBDA n, e : n + e.length, 0, s)

SomeTables ==
  LET S == UNION {[1 .. n -> Kinds] : n \in 0 .. 4}
      tables == {[entries |-> Numbered(s), bytes |-> Bytes(s) - cut] : s \in S, cut \in {0, 1}}
  IN {t \in tables : t.bytes >= 0}

SomeGaps == 1 .. 3
=============================================================================
