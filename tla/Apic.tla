-------------------------------- MODULE Apic --------------------------------
(***************************************************************************)
(* What kmain does between the memory managers and the scheduler: reading  *)
(* the MADT (apic.c), calibrating the local APIC's timer against the PIT   *)
(* (lapic.c, pit.c), the per-CPU areas (percpu.c), and lapic_timer_start.  *)
(*                                                                         *)
(* Nothing else runs meanwhile, but time passes: between two reads of the  *)
(* PIT's counter any number of its ticks may go by.                        *)
(***************************************************************************)
EXTENDS Integers, Sequences, SequencesExt

CONSTANTS
  NONE,
  MAX_CPU, MAX_IOAPIC, MAX_ISO,
  Tables,     \* the MADTs: [entries, bytes], where bytes is the length of the entries
  RELOAD,     \* the PIT counts from RELOAD down to 1
  SleepTicks, \* PIT ticks in the ten milliseconds of the calibration
  Rates,      \* ticks of the local APIC's timer in a tick of the PIT
  Gaps,       \* PIT ticks that may go by between two reads
  MaxElapsed  \* bound: PIT ticks that the calibration takes

ASSUME ApicAssumption ==
  /\ {MAX_CPU, MAX_IOAPIC, MAX_ISO, RELOAD, SleepTicks} \subseteq Nat \ {0}
  /\ Rates \subseteq Nat /\ NONE \notin Tables \union Nat
  /\ \A t \in Tables : /\ t.bytes \in Nat /\ t.entries \in Seq(Range(t.entries))
                        /\ \A i \in DOMAIN t.entries : LET e == t.entries[i] IN
                             /\ e.length \in Nat
                             /\ e.type = "ISO" => {e.source, e.gsi, e.flags} \subseteq Nat

\* Two reads of the PIT's counter, one right after the other in the loop of
\* pit_sleep, are less than a period of the counter (55 ms) apart.
ASSUME GapsAssumption == Gaps \subseteq 1 .. RELOAD - 1

VARIABLES
  table,     \* the MADT, or NONE if the firmware has none
  pos,       \* the entry that ptr points to
  apic,      \* struct apic_info
  phase,     \* how far kmain has come
  rate,      \* the hardware: how fast the local APIC's timer is
  pit,       \* the PIT's counter
  sleep,     \* pit_sleep's last_tick and accumulated_ticks; ghosts: the ticks
             \* that really went by, and how often the counter was seen to wrap
  lapic,     \* lapic_ticks_per_ms, and the timer's initial count: 0 is off
  percpu     \* percpu_base and the GS base register

apic_vars == <<table, pos, apic, phase, rate, pit, sleep, lapic, percpu>>

ApicInit ==
  /\ table \in Tables \union {NONE} /\ pos = 1
  /\ apic = [cpus |-> <<>>, ioapic |-> <<>>, iso |-> [i \in 0 .. MAX_ISO - 1 |-> NONE], iso_count |-> 0]
  /\ phase = "madt" /\ rate \in Rates /\ pit = RELOAD
  /\ sleep = [last |-> 0, accumulated |-> 0, elapsed |-> 0, wraps |-> 0]
  /\ lapic = [per_ms |-> 0, initial |-> 0]
  /\ percpu = [base |-> <<>>, gs |-> NONE]

-----------------------------------------------------------------------------
(* The MADT *)

HEADER == 2
Size(type) == CASE type = "LAPIC" -> 8 [] type = "IOAPIC" -> 12 [] type = "ISO" -> 10

parse_lapic(a, e) ==
  IF e.length >= Size("LAPIC") /\ Len(a.cpus) < MAX_CPU
    THEN [a EXCEPT !.cpus = Append(@, [id |-> e.id, enabled |-> e.enabled])] ELSE a

parse_ioapic(a, e) ==
  IF e.length >= Size("IOAPIC") /\ Len(a.ioapic) < MAX_IOAPIC
    THEN [a EXCEPT !.ioapic = Append(@, e.id)] ELSE a

\* iso[MAX_ISO] lies where iso_count lies: its three bytes become the low ones
\* of the count.
SetIso(a, i, e) ==
  CASE i < MAX_ISO -> [a EXCEPT !.iso[i] = e.id, !.iso_count = i + 1]
    [] i = MAX_ISO -> [a EXCEPT !.iso_count = e.source + 256 * e.gsi + 65536 * e.flags]

parse_iso(a, e) ==
  IF e.length >= Size("ISO") /\ e.bus = 0 /\ a.iso_count <= MAX_ISO
    THEN SetIso(a, a.iso_count, e) ELSE a

Parse(a, e) ==
  CASE e.type = "LAPIC"  -> parse_lapic(a, e)
    [] e.type = "IOAPIC" -> parse_ioapic(a, e)
    [] e.type = "ISO"    -> parse_iso(a, e)
    [] OTHER             -> a

\* The bytes from the table's entries to entry i
Offset(i) ==
  LET sum[n \in 0 .. Len(table.entries)] ==
        IF n = 0 THEN 0 ELSE sum[n - 1] + table.entries[n].length
  IN sum[i - 1]

\* Mutant: only the header of an entry has to lie in the table.
Complete_HeaderOnly(i) ==
  i <= Len(table.entries) /\ Offset(i) + HEADER <= table.bytes /\ table.entries[i].length >= HEADER

\* Entry i lies in the table and its length can be right.
Complete(i) ==
  /\ i <= Len(table.entries) /\ Offset(i) + HEADER <= table.bytes
  /\ table.entries[i].length >= HEADER
  /\ Offset(i) + table.entries[i].length <= table.bytes

parse_madt ==
  /\ phase = "madt"
  /\ IF table # NONE /\ Complete(pos)
       THEN apic' = Parse(apic, table.entries[pos]) /\ pos' = pos + 1 /\ UNCHANGED phase
       ELSE phase' = "lapic" /\ UNCHANGED <<apic, pos>>
  /\ UNCHANGED <<table, rate, pit, sleep, lapic, percpu>>

-----------------------------------------------------------------------------
(* The timer.  A read of the PIT's counter lets some of its ticks go by.   *)

\* The counter after n ticks
Later(counter, n) == ((counter - 1 - n) % RELOAD) + 1

\* init_lapic up to the first read in pit_sleep, which loads the counter
pit_sleep_begin ==
  /\ phase = "lapic" /\ phase' = "sleep"
  /\ \E gap \in Gaps \union {0} :
       /\ pit' = Later(RELOAD, gap)
       /\ sleep' = [last |-> pit', accumulated |-> 0, elapsed |-> 0, wraps |-> 0]
  /\ UNCHANGED <<table, pos, apic, rate, lapic, percpu>>

\* Mutant: a counter that has wrapped adds nothing.
Passed_NoWrap(last, current) == IF last >= current THEN last - current ELSE 0

\* The ticks between two reads, as pit_sleep computes them
Passed(last, current) == IF last >= current THEN last - current ELSE last + (RELOAD - current) + 1

pit_sleep ==
  /\ phase = "sleep" /\ sleep.accumulated < SleepTicks
  /\ \E gap \in Gaps :
       /\ sleep.elapsed + gap <= MaxElapsed
       /\ pit' = Later(pit, gap)
       /\ sleep' = [last |-> pit',
                    accumulated |-> sleep.accumulated + Passed(sleep.last, pit'),
                    elapsed |-> sleep.elapsed + gap,
                    wraps |-> sleep.wraps + IF sleep.last < pit' THEN 1 ELSE 0]
  /\ UNCHANGED <<table, pos, apic, phase, rate, lapic, percpu>>

lapic_timer_calibrate ==
  /\ phase = "sleep" /\ sleep.accumulated >= SleepTicks /\ phase' = "percpu"
  /\ lapic' = [per_ms |-> (rate * sleep.elapsed) \div 10, initial |-> 0]
  /\ UNCHANGED <<table, pos, apic, rate, pit, sleep, percpu>>

\* Mutant: only CPUs that are enabled get an area.
AreaCount_Enabled == Len(SelectSeq(apic.cpus, LAMBDA c : c.enabled))

AreaCount == Len(apic.cpus)

\* An area for every CPU of the MADT, enabled or not.  kmalloc does not fail.
init_percpu ==
  /\ phase = "percpu" /\ phase' = "start"
  /\ percpu' = LET n == AreaCount IN [base |-> [i \in 1 .. n |-> i], gs |-> IF n = 0 THEN NONE ELSE 1]
  /\ UNCHANGED <<table, pos, apic, rate, pit, sleep, lapic>>

\* sched_run_bsp asks for 1000 ticks a second.
lapic_timer_start(hz) ==
  /\ phase = "start" /\ percpu.gs # NONE /\ phase' = "done"
  /\ lapic' = [lapic EXCEPT !.initial = (lapic.per_ms * 1000) \div hz]
  /\ UNCHANGED <<table, pos, apic, rate, pit, sleep, percpu>>

ApicNext ==
  \/ parse_madt
  \/ pit_sleep_begin \/ pit_sleep \/ lapic_timer_calibrate
  \/ init_percpu
  \/ lapic_timer_start(1000)

ApicSpec == ApicInit /\ [][ApicNext]_apic_vars

-----------------------------------------------------------------------------
(* Properties *)

\* How many entries come before the first that cannot be right
Readable ==
  LET Good(n) == \A i \in 1 .. n : table.entries[i].length >= HEADER /\ Offset(i + 1) <= table.bytes
  IN CHOOSE n \in 0 .. Len(table.entries) :
       Good(n) /\ \A m \in n + 1 .. Len(table.entries) : ~Good(m)

Fits(e, type) == e.type = type /\ e.length >= Size(type) /\ (type = "ISO" => e.bus = 0)

\* The first n entries without those that are not of the type or not right
Kept(type, n) ==
  LET kept[i \in 0 .. Len(table.entries)] ==
        IF i = 0 THEN <<>>
        ELSE IF Fits(table.entries[i], type) THEN Append(kept[i - 1], table.entries[i])
        ELSE kept[i - 1]
  IN kept[n]

Usable(type) == IF table = NONE THEN <<>> ELSE Kept(type, Readable)

Ids(s) == [i \in DOMAIN s |-> s[i].id]
AtMost(s, n) == IF Len(s) <= n THEN s ELSE SubSeq(s, 1, n)

\* After parse_madt the kernel knows the table's CPUs, I/O APICs and overrides,
\* in order, as many as there is room for, and nothing that lies beyond the end
\* of the table.  For the overrides this holds as long as they fit: one more is
\* not refused (parse_iso compares with >) and becomes the count.
MadtRecorded ==
  phase = "lapic" =>
    /\ Ids(apic.cpus) = AtMost(Ids(Usable("LAPIC")), MAX_CPU)
    /\ apic.ioapic = AtMost(Ids(Usable("IOAPIC")), MAX_IOAPIC)
    /\ LET isos == Ids(Usable("ISO"))
       IN Len(isos) <= MAX_ISO =>
            /\ apic.iso_count = Len(isos)
            /\ \A i \in DOMAIN isos : apic.iso[i - 1] = isos[i]

\* Whatever the PIT's counter showed when it was read, the timer interrupts at
\* most once every millisecond, but for one PIT tick each time pit_sleep saw the
\* counter wrap (it takes the period to be RELOAD + 1), and no later than the
\* last read made the calibration overshoot.
TimerPeriod ==
  phase = "done" =>
    /\ lapic.initial >= (rate * (SleepTicks - sleep.wraps)) \div 10
    /\ \E g \in Gaps : lapic.initial <= (rate * (SleepTicks + g - 1)) \div 10

\* The scheduler's per-CPU variables have a place exactly when the MADT lists
\* a CPU: without one, GS stays 0 and init_percpu says nothing.
PercpuReady == phase \in {"start", "done"} => (percpu.gs # NONE <=> Usable("LAPIC") # <<>>)
=============================================================================
