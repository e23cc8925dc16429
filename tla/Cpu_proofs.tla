----------------------------- MODULE Cpu_proofs -----------------------------
(***************************************************************************)
(* The CPU: how kmain finds the CPUs and starts the timer, for every table *)
(* of the firmware and every speed of the timers (Apic), how tasks share   *)
(* the CPU, for every set of tasks (RoundRobin, Scheduler), and the run    *)
(* queue with any number of tasks and any vruntimes (RunQueueSpec).  The   *)
(* specifications share no variable; their proofs follow one another.      *)
(***************************************************************************)
EXTENDS Apic, RoundRobin, Scheduler, RunQueueSpec, RBTree_proofs

-----------------------------------------------------------------------------
(* The timer *)

\* pit_sleep counts the ticks that go by, and one more each time it sees the
\* counter wrap.
LEMMA OneRead ==
  ASSUME NEW last \in 1 .. RELOAD, NEW gap \in 0 .. RELOAD - 1
  PROVE  /\ Later(last, gap) \in 1 .. RELOAD
         /\ Passed(last, Later(last, gap)) =
              gap + IF last < Later(last, gap) THEN 1 ELSE 0
  <1>1. RELOAD \in Nat \ {0} BY ApicAssumption
  <1> DEFINE x == last - 1 - gap
  <1>2. CASE x >= 0
    <2>1. x % RELOAD = x BY <1>1, <1>2
    <2>2. Later(last, gap) = last - gap BY <1>1, <2>1 DEF Later
    <2> QED BY <1>1, <1>2, <2>2 DEF Passed
  <1>3. CASE x < 0
    <2>1. x % RELOAD = x + RELOAD
      <3>1. x \in Int /\ -RELOAD < x BY <1>1
      <3>2. x % RELOAD \in 0 .. RELOAD - 1 /\ x = RELOAD * (x \div RELOAD) + (x % RELOAD) /\ x \div RELOAD \in Int
        BY <1>1
      <3> QED BY <1>1, <1>3, <3>1, <3>2
    <2>2. Later(last, gap) = last - gap + RELOAD BY <1>1, <2>1 DEF Later
    <2> QED BY <1>1, <1>3, <2>2 DEF Passed
  <1> QED BY <1>1, <1>2, <1>3

SleepInv ==
  /\ rate \in Rates /\ pit \in 1 .. RELOAD
  /\ sleep.last \in Nat /\ sleep.accumulated \in Nat /\ sleep.elapsed \in Nat /\ sleep.wraps \in Nat
  /\ sleep.accumulated = sleep.elapsed + sleep.wraps
  /\ phase = "sleep" => sleep.last = pit
  /\ sleep.accumulated >= SleepTicks => \E g \in Gaps : sleep.elapsed <= SleepTicks + g - 1
  /\ phase \in {"percpu", "start", "done"} => sleep.accumulated >= SleepTicks
  /\ phase \in {"percpu", "start"} => lapic = [per_ms |-> (rate * sleep.elapsed) \div 10, initial |-> 0]
  /\ phase = "done" => lapic.initial = (rate * sleep.elapsed) \div 10

LEMMA InitSleep == ApicInit => SleepInv
  BY ApicAssumption DEF ApicInit, SleepInv

LEMMA NextSleep ==
  ASSUME SleepInv, [ApicNext]_apic_vars
  PROVE  SleepInv'
  <1>1. CASE UNCHANGED apic_vars BY <1>1 DEF apic_vars, SleepInv
  <1>2. CASE parse_madt BY <1>2 DEF parse_madt, SleepInv
  <1>3. CASE pit_sleep_begin
    <2>1. PICK gap \in Gaps \union {0} :
            /\ pit' = Later(RELOAD, gap)
            /\ sleep' = [last |-> pit', accumulated |-> 0, elapsed |-> 0, wraps |-> 0]
      BY <1>3 DEF pit_sleep_begin
    <2>2. gap \in 0 .. RELOAD - 1 /\ RELOAD \in 1 .. RELOAD BY ApicAssumption, GapsAssumption
    <2>3. pit' \in 1 .. RELOAD BY <2>1, <2>2, OneRead
    <2>4. ~(0 >= SleepTicks) BY ApicAssumption
    <2> QED BY <1>3, <2>1, <2>3, <2>4 DEF pit_sleep_begin, SleepInv
  <1>4. CASE pit_sleep
    <2>1. PICK gap \in Gaps :
            /\ pit' = Later(pit, gap)
            /\ sleep' = [last |-> pit',
                         accumulated |-> sleep.accumulated + Passed(sleep.last, pit'),
                         elapsed |-> sleep.elapsed + gap,
                         wraps |-> sleep.wraps + IF sleep.last < pit' THEN 1 ELSE 0]
      BY <1>4 DEF pit_sleep
    <2>2. /\ phase = "sleep" /\ phase' = "sleep" /\ sleep.accumulated < SleepTicks
          /\ rate' = rate /\ sleep.last = pit
      BY <1>4 DEF pit_sleep, SleepInv
    <2>3. gap \in 0 .. RELOAD - 1 /\ gap \in Nat BY ApicAssumption, GapsAssumption
    <2>4. /\ pit' \in 1 .. RELOAD
          /\ Passed(pit, pit') = gap + IF pit < pit' THEN 1 ELSE 0
      BY <2>1, <2>3, OneRead DEF SleepInv
    <2> DEFINE w == IF pit < pit' THEN 1 ELSE 0
    <2>5. w \in {0, 1} OBVIOUS
    <2>6. /\ sleep'.last = pit' /\ sleep'.accumulated = sleep.accumulated + (gap + w)
          /\ sleep'.elapsed = sleep.elapsed + gap /\ sleep'.wraps = sleep.wraps + w
      BY <2>1, <2>2, <2>4
    <2> HIDE DEF w
    <2>7. /\ sleep'.last \in Nat /\ sleep'.accumulated \in Nat /\ sleep'.elapsed \in Nat
          /\ sleep'.wraps \in Nat /\ sleep'.accumulated = sleep'.elapsed + sleep'.wraps
      BY <2>3, <2>4, <2>5, <2>6 DEF SleepInv
    <2>8. sleep'.elapsed <= SleepTicks + gap - 1
      <3>1. sleep.elapsed \in Nat /\ sleep.wraps \in Nat /\ sleep.accumulated = sleep.elapsed + sleep.wraps
        BY <2>2 DEF SleepInv
      <3>2. PICK e \in Nat, x \in Nat : e = sleep.elapsed /\ x = sleep.wraps BY <3>1
      <3>3. SleepTicks \in Nat BY ApicAssumption
      <3>4. e + x < SleepTicks BY <2>2, <3>1, <3>2
      <3>5. e + gap <= SleepTicks + gap - 1 BY <2>3, <3>3, <3>4
      <3> QED BY <2>6, <3>2, <3>5
    <2> QED BY <2>2, <2>4, <2>6, <2>7, <2>8 DEF SleepInv
  <1>5. CASE lapic_timer_calibrate BY <1>5 DEF lapic_timer_calibrate, SleepInv
  <1>6. CASE init_percpu BY <1>6 DEF init_percpu, SleepInv
  <1>7. CASE lapic_timer_start(1000)
    <2>1. /\ phase = "start" /\ phase' = "done" /\ UNCHANGED <<rate, pit, sleep>>
          /\ lapic' = [lapic EXCEPT !.initial = (lapic.per_ms * 1000) \div 1000]
      BY <1>7 DEF lapic_timer_start
    <2> DEFINE q == (rate * sleep.elapsed) \div 10
    <2>2. lapic = [per_ms |-> q, initial |-> 0] BY <2>1 DEF SleepInv
    <2>3. q \in Int
      <3>1. rate * sleep.elapsed \in Nat BY ApicAssumption DEF SleepInv
      <3> QED BY <3>1
    <2> HIDE DEF q
    <2>4. (q * 1000) \div 1000 = q BY <2>3
    <2>5. lapic'.initial = q BY <2>1, <2>2, <2>4
    <2> QED BY <2>1, <2>5 DEF SleepInv, q
  <1> QED BY <1>1, <1>2, <1>3, <1>4, <1>5, <1>6, <1>7 DEF ApicNext

\* A longer time gives a larger count.
LEMMA Longer ==
  ASSUME NEW r \in Nat, NEW x \in Int, NEW y \in Int, x <= y
  PROVE  (r * x) \div 10 <= (r * y) \div 10
  <1>1. r * x \in Int /\ r * y \in Int /\ r * x <= r * y OBVIOUS
  <1>2. \A a, b \in Int : a <= b => a \div 10 <= b \div 10 OBVIOUS
  <1> QED BY <1>1, <1>2

\* lapic_timer_calibrate and lapic_timer_start: the initial count lies between
\* the count for the ten milliseconds that pit_sleep waits, less the ticks it
\* counts twice, and that count lengthened by the last gap between two reads.
THEOREM TimerPeriodHolds == ApicSpec => []TimerPeriod
  <1>1. SleepInv => TimerPeriod
    <2> SUFFICES ASSUME SleepInv, phase = "done"
                 PROVE  /\ lapic.initial >= (rate * (SleepTicks - sleep.wraps)) \div 10
                        /\ \E g \in Gaps : lapic.initial <= (rate * (SleepTicks + g - 1)) \div 10
      BY DEF TimerPeriod
    <2>1. /\ rate \in Nat /\ SleepTicks \in Nat /\ Gaps \subseteq Int
          /\ sleep.elapsed \in Nat /\ sleep.wraps \in Nat
      BY ApicAssumption, GapsAssumption DEF SleepInv
    <2>2. sleep.elapsed + sleep.wraps >= SleepTicks /\ lapic.initial = (rate * sleep.elapsed) \div 10
      BY DEF SleepInv
    <2>3. PICK g \in Gaps : sleep.elapsed <= SleepTicks + g - 1 BY <2>2 DEF SleepInv
    <2>4. /\ SleepTicks - sleep.wraps \in Int /\ SleepTicks + g - 1 \in Int
          /\ SleepTicks - sleep.wraps <= sleep.elapsed
      BY <2>1, <2>2
    <2>5. (rate * (SleepTicks - sleep.wraps)) \div 10 <= lapic.initial BY <2>1, <2>2, <2>4, Longer
    <2>6. lapic.initial <= (rate * (SleepTicks + g - 1)) \div 10 BY <2>1, <2>2, <2>3, <2>4, Longer
    <2>7. lapic.initial \in Int
      <3>1. rate * sleep.elapsed \in Int BY <2>1
      <3> QED BY <2>2, <3>1
    <2>8. (rate * (SleepTicks - sleep.wraps)) \div 10 \in Int
      <3>1. rate * (SleepTicks - sleep.wraps) \in Int BY <2>1, <2>4
      <3> QED BY <3>1
    <2>9. lapic.initial >= (rate * (SleepTicks - sleep.wraps)) \div 10 BY <2>5, <2>7, <2>8
    <2> QED BY <2>6, <2>9
  <1>2. SleepInv /\ [ApicNext]_apic_vars => SleepInv' BY NextSleep
  <1> QED BY <1>1, <1>2, InitSleep, PTL DEF ApicSpec
-----------------------------------------------------------------------------
(* The MADT *)

IsSeq(s) == \E T : s \in Seq(T)

LEMMA Appended ==
  ASSUME NEW s, IsSeq(s), NEW x
  PROVE  /\ IsSeq(Append(s, x)) /\ Len(s) \in Nat /\ Len(Append(s, x)) = Len(s) + 1
         /\ DOMAIN s = 1 .. Len(s) /\ DOMAIN Append(s, x) = 1 .. Len(s) + 1
         /\ \A i \in 1 .. Len(s) : Append(s, x)[i] = s[i]
         /\ Append(s, x)[Len(s) + 1] = x
  <1>1. PICK T : s \in Seq(T) BY DEF IsSeq
  <1>2. s \in Seq(T \union {x}) BY <1>1
  <1>3. Append(s, x) \in Seq(T \union {x}) BY <1>2
  <1>4. IsSeq(Append(s, x)) BY <1>3 DEF IsSeq
  <1> QED BY <1>2, <1>3, <1>4

\* Two sequences of the same length with the same elements are the same.
LEMMA SameSeq ==
  ASSUME NEW s, NEW t, IsSeq(s), IsSeq(t), Len(s) = Len(t), \A i \in 1 .. Len(s) : s[i] = t[i]
  PROVE  s = t
  <1>1. PICK T : s \in Seq(T) BY DEF IsSeq
  <1>2. PICK U : t \in Seq(U) BY DEF IsSeq
  <1> QED BY <1>1, <1>2

LEMMA IdsSeq ==
  ASSUME NEW s, IsSeq(s)
  PROVE  IsSeq(Ids(s)) /\ Len(Ids(s)) = Len(s) /\ \A i \in 1 .. Len(s) : Ids(s)[i] = s[i].id
  <1>1. Len(s) \in Nat /\ DOMAIN s = 1 .. Len(s) BY Appended
  <1>2. Ids(s) = [i \in 1 .. Len(s) |-> s[i].id] BY <1>1 DEF Ids
  <1> DEFINE T == {s[i].id : i \in 1 .. Len(s)}
  <1>3. Ids(s) \in [1 .. Len(s) -> T] BY <1>2
  <1>4. Ids(s) \in Seq(T) /\ Len(Ids(s)) = Len(s) BY <1>1, <1>3
  <1> QED BY <1>2, <1>4 DEF IsSeq

LEMMA IdsAppend ==
  ASSUME NEW s, IsSeq(s), NEW x
  PROVE  Ids(Append(s, x)) = Append(Ids(s), x.id)
  <1> DEFINE t == Append(s, x)  u == Append(Ids(s), x.id)
  <1>1. /\ IsSeq(t) /\ Len(s) \in Nat /\ Len(t) = Len(s) + 1
        /\ \A i \in 1 .. Len(s) : t[i] = s[i]
        /\ t[Len(s) + 1] = x
    BY Appended
  <1>2. IsSeq(Ids(s)) /\ Len(Ids(s)) = Len(s) /\ \A i \in 1 .. Len(s) : Ids(s)[i] = s[i].id
    BY IdsSeq
  <1>3. /\ IsSeq(u) /\ Len(u) = Len(s) + 1
        /\ \A i \in 1 .. Len(s) : u[i] = Ids(s)[i]
        /\ u[Len(s) + 1] = x.id
    BY <1>2, Appended
  <1> HIDE DEF t, u
  <1>4. IsSeq(Ids(t)) /\ Len(Ids(t)) = Len(t) /\ \A i \in 1 .. Len(t) : Ids(t)[i] = t[i].id
    BY <1>1, IdsSeq
  <1>5. \A i \in 1 .. Len(t) : Ids(t)[i] = u[i]
    <2> TAKE i \in 1 .. Len(t)
    <2>1. Ids(t)[i] = t[i].id BY <1>4
    <2>2. i \in 1 .. Len(s) \/ i = Len(s) + 1 BY <1>1
    <2> QED BY <1>1, <1>2, <1>3, <2>1, <2>2
  <1>6. Ids(t) = u BY <1>1, <1>3, <1>4, <1>5, SameSeq
  <1> QED BY <1>6 DEF t, u

\* The first of a longer sequence are the first of the shorter one and, if there
\* is room, the new element.
LEMMA AtMostAppend ==
  ASSUME NEW s, IsSeq(s), NEW x, NEW n \in Nat
  PROVE  /\ IsSeq(AtMost(s, n))
         /\ Len(AtMost(s, n)) = IF Len(s) <= n THEN Len(s) ELSE n
         /\ AtMost(Append(s, x), n) =
              IF Len(AtMost(s, n)) < n THEN Append(AtMost(s, n), x) ELSE AtMost(s, n)
  <1>1. PICK T : s \in Seq(T) BY DEF IsSeq
  <1>2. s \in Seq(T \union {x}) BY <1>1
  <1>3. /\ Append(s, x) \in Seq(T \union {x}) /\ Len(s) \in Nat /\ Len(Append(s, x)) = Len(s) + 1
        /\ \A i \in 1 .. Len(s) : Append(s, x)[i] = s[i]
    BY <1>2
  <1>4. CASE Len(s) < n
    <2>1. AtMost(s, n) = s /\ AtMost(Append(s, x), n) = Append(s, x) BY <1>3, <1>4 DEF AtMost
    <2> QED BY <1>3, <1>4, <2>1
  <1>5. CASE Len(s) = n
    <2>1. AtMost(s, n) = s /\ AtMost(Append(s, x), n) = SubSeq(Append(s, x), 1, n)
      BY <1>3, <1>5 DEF AtMost
    <2>2. SubSeq(Append(s, x), 1, n) = s BY <1>2, <1>3, <1>5
    <2> QED BY <1>3, <1>5, <2>1, <2>2
  <1>6. CASE Len(s) > n
    <2>1. AtMost(s, n) = SubSeq(s, 1, n) /\ AtMost(Append(s, x), n) = SubSeq(Append(s, x), 1, n)
      BY <1>3, <1>6 DEF AtMost
    <2>2. SubSeq(s, 1, n) \in Seq(T \union {x}) /\ Len(SubSeq(s, 1, n)) = n BY <1>2, <1>3, <1>6
    <2>3. SubSeq(Append(s, x), 1, n) = SubSeq(s, 1, n) BY <1>2, <1>3, <1>6
    <2>4. IsSeq(SubSeq(s, 1, n)) BY <2>2 DEF IsSeq
    <2> QED BY <1>3, <1>6, <2>1, <2>2, <2>3, <2>4
  <1> QED BY <1>3, <1>4, <1>5, <1>6

Shape(a) ==
  /\ a = [cpus |-> a.cpus, ioapic |-> a.ioapic, iso |-> a.iso, iso_count |-> a.iso_count]
  /\ IsSeq(a.cpus) /\ IsSeq(a.ioapic) /\ a.iso_count \in Nat
  /\ a.iso = [i \in 0 .. MAX_ISO - 1 |-> a.iso[i]]

\* The entries l, o and s of the three types are what a holds.
Recorded(a, l, o, s) ==
  /\ Ids(a.cpus) = AtMost(Ids(l), MAX_CPU)
  /\ a.ioapic = AtMost(Ids(o), MAX_IOAPIC)
  /\ Len(Ids(s)) <= MAX_ISO =>
       /\ a.iso_count = Len(Ids(s))
       /\ \A i \in DOMAIN Ids(s) : a.iso[i - 1] = Ids(s)[i]

And(k, e, type) == IF Fits(e, type) THEN Append(k, e) ELSE k

LEMMA ParseStep ==
  ASSUME NEW a, NEW e, NEW l, NEW o, NEW s, Shape(a), IsSeq(l), IsSeq(o), IsSeq(s),
         Recorded(a, l, o, s), e.length \in Nat,
         e.type = "ISO" => {e.source, e.gsi, e.flags} \subseteq Nat
  PROVE  Shape(Parse(a, e)) /\
         Recorded(Parse(a, e), And(l, e, "LAPIC"), And(o, e, "IOAPIC"), And(s, e, "ISO"))
  <1>0. MAX_CPU \in Nat /\ MAX_IOAPIC \in Nat /\ MAX_ISO \in Nat BY ApicAssumption
  <1>1. CASE e.type = "LAPIC"
    <2>1. And(o, e, "IOAPIC") = o /\ And(s, e, "ISO") = s BY <1>1 DEF And, Fits
    <2>2. Parse(a, e) = parse_lapic(a, e) BY <1>1 DEF Parse
    <2>3. CASE ~(e.length >= Size("LAPIC"))
      <3>1. And(l, e, "LAPIC") = l /\ parse_lapic(a, e) = a BY <1>1, <2>3 DEF And, Fits, parse_lapic
      <3> QED BY <2>1, <2>2, <3>1
    <2>4. CASE e.length >= Size("LAPIC")
      <3>1. And(l, e, "LAPIC") = Append(l, e) BY <1>1, <2>4 DEF And, Fits
      <3>2. IsSeq(Ids(l)) /\ IsSeq(Ids(a.cpus)) /\ Len(Ids(a.cpus)) = Len(a.cpus)
        BY IdsSeq DEF Shape
      <3>3. Ids(Append(l, e)) = Append(Ids(l), e.id) BY IdsAppend
      <3>4. AtMost(Append(Ids(l), e.id), MAX_CPU) =
              IF Len(a.cpus) < MAX_CPU THEN Append(Ids(a.cpus), e.id) ELSE Ids(a.cpus)
        <4>1. Ids(a.cpus) = AtMost(Ids(l), MAX_CPU) BY DEF Recorded
        <4>2. AtMost(Append(Ids(l), e.id), MAX_CPU) =
                IF Len(AtMost(Ids(l), MAX_CPU)) < MAX_CPU
                  THEN Append(AtMost(Ids(l), MAX_CPU), e.id) ELSE AtMost(Ids(l), MAX_CPU)
          BY <1>0, <3>2, AtMostAppend
        <4> QED BY <3>2, <4>1, <4>2
      <3>5. CASE Len(a.cpus) < MAX_CPU
        <4> DEFINE x == [id |-> e.id, enabled |-> e.enabled]
                   c == Append(a.cpus, x)
        <4>1. Ids(c) = Append(Ids(a.cpus), x.id) /\ IsSeq(c) BY IdsAppend, Appended DEF Shape
        <4>2. parse_lapic(a, e) = [a EXCEPT !.cpus = c] BY <2>4, <3>5 DEF parse_lapic
        <4>3. Ids(c) = Append(Ids(a.cpus), e.id) BY <4>1
        <4> HIDE DEF c
        <4>4. Shape(parse_lapic(a, e)) BY <4>1, <4>2 DEF Shape
        <4>5. /\ parse_lapic(a, e).cpus = c /\ parse_lapic(a, e).ioapic = a.ioapic
              /\ parse_lapic(a, e).iso = a.iso /\ parse_lapic(a, e).iso_count = a.iso_count
          BY <4>2 DEF Shape
        <4> QED BY <2>1, <2>2, <3>1, <3>3, <3>4, <3>5, <4>3, <4>4, <4>5 DEF Recorded
      <3>6. CASE ~(Len(a.cpus) < MAX_CPU)
        <4>1. parse_lapic(a, e) = a BY <3>6 DEF parse_lapic
        <4> QED BY <2>1, <2>2, <3>1, <3>3, <3>4, <3>6, <4>1 DEF Recorded
      <3> QED BY <3>5, <3>6
    <2> QED BY <2>3, <2>4
  <1>2. CASE e.type = "IOAPIC"
    <2>1. And(l, e, "LAPIC") = l /\ And(s, e, "ISO") = s BY <1>2 DEF And, Fits
    <2>2. Parse(a, e) = parse_ioapic(a, e) BY <1>2 DEF Parse
    <2>3. CASE ~(e.length >= Size("IOAPIC"))
      <3>1. And(o, e, "IOAPIC") = o /\ parse_ioapic(a, e) = a BY <1>2, <2>3 DEF And, Fits, parse_ioapic
      <3> QED BY <2>1, <2>2, <3>1
    <2>4. CASE e.length >= Size("IOAPIC")
      <3>1. And(o, e, "IOAPIC") = Append(o, e) BY <1>2, <2>4 DEF And, Fits
      <3>2. IsSeq(Ids(o)) BY IdsSeq
      <3>3. Ids(Append(o, e)) = Append(Ids(o), e.id) BY IdsAppend
      <3>4. AtMost(Append(Ids(o), e.id), MAX_IOAPIC) =
              IF Len(a.ioapic) < MAX_IOAPIC THEN Append(a.ioapic, e.id) ELSE a.ioapic
        <4>1. a.ioapic = AtMost(Ids(o), MAX_IOAPIC) BY DEF Recorded
        <4>2. AtMost(Append(Ids(o), e.id), MAX_IOAPIC) =
                IF Len(AtMost(Ids(o), MAX_IOAPIC)) < MAX_IOAPIC
                  THEN Append(AtMost(Ids(o), MAX_IOAPIC), e.id) ELSE AtMost(Ids(o), MAX_IOAPIC)
          BY <1>0, <3>2, AtMostAppend
        <4> QED BY <4>1, <4>2
      <3>5. CASE Len(a.ioapic) < MAX_IOAPIC
        <4> DEFINE c == Append(a.ioapic, e.id)
        <4>1. IsSeq(c) BY Appended DEF Shape
        <4>2. parse_ioapic(a, e) = [a EXCEPT !.ioapic = c] BY <2>4, <3>5 DEF parse_ioapic
        <4>3. Append(a.ioapic, e.id) = c OBVIOUS
        <4> HIDE DEF c
        <4>4. Shape(parse_ioapic(a, e)) BY <4>1, <4>2 DEF Shape
        <4>5. /\ parse_ioapic(a, e).cpus = a.cpus /\ parse_ioapic(a, e).ioapic = c
              /\ parse_ioapic(a, e).iso = a.iso /\ parse_ioapic(a, e).iso_count = a.iso_count
          BY <4>2 DEF Shape
        <4> QED BY <2>1, <2>2, <3>1, <3>3, <3>4, <3>5, <4>3, <4>4, <4>5 DEF Recorded
      <3>6. CASE ~(Len(a.ioapic) < MAX_IOAPIC)
        <4>1. parse_ioapic(a, e) = a BY <3>6 DEF parse_ioapic
        <4> QED BY <2>1, <2>2, <3>1, <3>3, <3>4, <3>6, <4>1 DEF Recorded
      <3> QED BY <3>5, <3>6
    <2> QED BY <2>3, <2>4
  <1>3. CASE e.type = "ISO"
    <2>1. And(l, e, "LAPIC") = l /\ And(o, e, "IOAPIC") = o BY <1>3 DEF And, Fits
    <2>2. Parse(a, e) = parse_iso(a, e) BY <1>3 DEF Parse
    <2>3. CASE ~(e.length >= Size("ISO") /\ e.bus = 0)
      <3>1. And(s, e, "ISO") = s /\ parse_iso(a, e) = a BY <1>3, <2>3 DEF And, Fits, parse_iso
      <3> QED BY <2>1, <2>2, <3>1
    <2>4. CASE e.length >= Size("ISO") /\ e.bus = 0
      <3>1. And(s, e, "ISO") = Append(s, e) BY <1>3, <2>4 DEF And, Fits
      <3> DEFINE b == parse_iso(a, e)
      <3>2. b = IF a.iso_count <= MAX_ISO THEN SetIso(a, a.iso_count, e) ELSE a
        BY <2>4 DEF parse_iso
      <3>3. /\ b.cpus = a.cpus /\ b.ioapic = a.ioapic /\ Shape(b)
            /\ a.iso_count < MAX_ISO => /\ b.iso_count = a.iso_count + 1 /\ b.iso[a.iso_count] = e.id
                                        /\ \A i \in 0 .. a.iso_count - 1 : b.iso[i] = a.iso[i]
        <4>1. CASE a.iso_count < MAX_ISO
          <5>1. a.iso_count \in 0 .. MAX_ISO - 1 /\ a.iso_count + 1 \in Nat BY <1>0, <4>1 DEF Shape
          <5> DEFINE d == [a.iso EXCEPT ![a.iso_count] = e.id]
          <5>2. /\ d = [i \in 0 .. MAX_ISO - 1 |-> d[i]] /\ d[a.iso_count] = e.id
                /\ \A i \in 0 .. a.iso_count - 1 : d[i] = a.iso[i]
            <6>1. PICK n \in 0 .. MAX_ISO - 1 : n = a.iso_count BY <5>1
            <6>2. PICK f : f = a.iso OBVIOUS
            <6>3. f = [i \in 0 .. MAX_ISO - 1 |-> f[i]] BY <6>2 DEF Shape
            <6> DEFINE g == [f EXCEPT ![n] = e.id]
            <6>4. g = [i \in 0 .. MAX_ISO - 1 |-> g[i]] /\ g[n] = e.id BY <6>1, <6>3
            <6>5. \A i \in 0 .. n - 1 : g[i] = f[i] BY <1>0, <6>1, <6>3
            <6>6. d = g BY <6>1, <6>2
            <6> HIDE DEF g, d
            <6> QED BY <6>1, <6>2, <6>4, <6>5, <6>6
          <5>3. b = [a EXCEPT !.iso = d, !.iso_count = a.iso_count + 1]
            BY <1>0, <3>2, <4>1, <5>1 DEF SetIso, Shape
          <5> HIDE DEF d, b
          <5>4. b = [cpus |-> a.cpus, ioapic |-> a.ioapic, iso |-> d, iso_count |-> a.iso_count + 1]
            BY <5>3 DEF Shape
          <5>5. b.cpus = a.cpus /\ b.ioapic = a.ioapic /\ b.iso = d /\ b.iso_count = a.iso_count + 1
            BY <5>4
          <5>6. Shape(b) BY <5>1, <5>2, <5>4, <5>5 DEF Shape
          <5> QED BY <5>2, <5>5, <5>6
        <4>2. CASE a.iso_count = MAX_ISO
          <5>1. PICK c : c = e.source + 256 * e.gsi + 65536 * e.flags OBVIOUS
          <5>2. c \in Nat BY <1>3, <5>1
          <5>3. b = [a EXCEPT !.iso_count = c] BY <1>0, <3>2, <4>2, <5>1 DEF SetIso, Shape
          <5> HIDE DEF b
          <5>4. b = [cpus |-> a.cpus, ioapic |-> a.ioapic, iso |-> a.iso, iso_count |-> c]
            BY <5>3 DEF Shape
          <5>5. b.cpus = a.cpus /\ b.ioapic = a.ioapic /\ b.iso = a.iso /\ b.iso_count = c
            BY <5>4
          <5>6. Shape(b) BY <5>2, <5>4, <5>5 DEF Shape
          <5> QED BY <1>0, <4>2, <5>5, <5>6
        <4>3. CASE a.iso_count > MAX_ISO
          <5>1. b = a BY <1>0, <3>2, <4>3 DEF Shape
          <5> HIDE DEF b
          <5>2. b.cpus = a.cpus /\ b.ioapic = a.ioapic /\ Shape(b) BY <5>1
          <5>3. ~(a.iso_count < MAX_ISO) BY <1>0, <4>3 DEF Shape
          <5> QED BY <5>2, <5>3
        <4> HIDE DEF b
        <4>4. a.iso_count < MAX_ISO \/ a.iso_count = MAX_ISO \/ a.iso_count > MAX_ISO
          BY <1>0 DEF Shape
        <4> QED BY <4>1, <4>2, <4>3, <4>4, Zenon
      <3> HIDE DEF b
      <3>4. /\ IsSeq(Ids(s)) /\ Len(Ids(s)) \in Nat /\ DOMAIN Ids(s) = 1 .. Len(Ids(s))
            /\ Ids(Append(s, e)) = Append(Ids(s), e.id)
        BY IdsSeq, IdsAppend, Appended
      <3> DEFINE q == Ids(s)  r == Append(Ids(s), e.id)
      <3>5. /\ Len(r) = Len(q) + 1 /\ DOMAIN r = 1 .. Len(q) + 1
            /\ \A i \in 1 .. Len(q) : r[i] = q[i]
            /\ r[Len(q) + 1] = e.id
        BY <3>4, Appended
      <3>6. ASSUME Len(r) <= MAX_ISO
            PROVE  b.iso_count = Len(r) /\ \A i \in DOMAIN r : b.iso[i - 1] = r[i]
        <4> HIDE DEF q, r
        <4>1. a.iso_count = Len(q) /\ \A i \in 1 .. Len(q) : a.iso[i - 1] = q[i]
          BY <1>0, <3>4, <3>5, <3>6 DEF Recorded, q
        <4>2. a.iso_count < MAX_ISO /\ Len(q) \in Nat BY <1>0, <3>4, <3>5, <3>6, <4>1 DEF q
        <4>3. ASSUME NEW i \in DOMAIN r PROVE b.iso[i - 1] = r[i]
          <5>1. CASE i = Len(q) + 1 BY <3>3, <3>5, <4>1, <4>2, <5>1
          <5>2. CASE i \in 1 .. Len(q)
            <6>1. i - 1 \in 0 .. a.iso_count - 1 BY <4>1, <4>2, <5>2
            <6>2. b.iso[i - 1] = a.iso[i - 1] BY <3>3, <4>2, <6>1
            <6> QED BY <3>5, <4>1, <5>2, <6>2
          <5> QED BY <3>5, <4>2, <5>1, <5>2
        <4> QED BY <3>3, <3>5, <4>1, <4>2, <4>3
      <3>7. Recorded(b, l, o, Append(s, e)) BY <3>3, <3>4, <3>6 DEF Recorded
      <3> QED BY <2>1, <2>2, <3>1, <3>3, <3>7 DEF b
    <2> QED BY <2>3, <2>4
  <1>4. CASE e.type \notin {"LAPIC", "IOAPIC", "ISO"}
    <2>1. Parse(a, e) = a BY <1>4 DEF Parse
    <2>2. And(l, e, "LAPIC") = l /\ And(o, e, "IOAPIC") = o /\ And(s, e, "ISO") = s
      BY <1>4 DEF And, Fits
    <2> QED BY <2>1, <2>2
  <1> QED BY <1>1, <1>2, <1>3, <1>4

\* Where an entry begins, and what is kept of the entries before it
Steps ==
  /\ Offset(1) = 0
  /\ \A n \in 1 .. Len(table.entries) :
       Offset(n) \in Nat /\ Offset(n + 1) = Offset(n) + table.entries[n].length

LEMMA Offsets ==
  ASSUME table \in Tables
  PROVE  Steps
  <1> DEFINE E == table.entries  N == Len(E)
             Eq(f) == f = [n \in 0 .. N |-> IF n = 0 THEN 0 ELSE f[n - 1] + E[n].length]
             sum == CHOOSE f : Eq(f)
             g == [n \in 1 .. N |-> [x \in Nat |-> x + E[n].length]]
  <1>1. N \in Nat /\ DOMAIN E = 1 .. N /\ \A n \in 1 .. N : E[n].length \in Nat
    <2>1. E \in Seq(Range(E)) BY ApicAssumption
    <2>2. N \in Nat /\ DOMAIN E = 1 .. N BY <2>1
    <2> QED BY <2>2, ApicAssumption
  <1>2. \A i : Offset(i) = sum[i - 1] BY DEF Offset
  <1> HIDE DEF E, N
  <1>3. g \in [1 .. N -> [Nat -> Nat]] /\ 0 \in Nat BY <1>1
  <1>4. \E f \in [0 .. N -> Nat] : Follows(f, N, 0, g)
    <2> HIDE DEF g
    <2> QED BY <1>1, <1>3, Recursion
  <1>5. PICK f \in [0 .. N -> Nat] : Follows(f, N, 0, g) BY <1>4
  <1>6. \A n \in 1 .. N : f[n] = f[n - 1] + E[n].length
    <2> TAKE n \in 1 .. N
    <2>1. n - 1 \in 0 .. N BY <1>1
    <2>2. f[n] = g[n][f[n - 1]] BY <1>5, Zenon DEF Follows
    <2>3. f[n - 1] \in Nat BY <2>1
    <2> QED BY <2>2, <2>3
  <1>7. f[0] = 0 BY <1>5 DEF Follows
  <1> HIDE DEF g
  <1>8. Eq(f)
    <2> DEFINE h == [n \in 0 .. N |-> IF n = 0 THEN 0 ELSE f[n - 1] + E[n].length]
    <2>1. ASSUME NEW n \in 0 .. N PROVE f[n] = h[n] BY <1>1, <1>6, <1>7
    <2> QED BY <1>5, <2>1
  <1>9. Eq(sum) BY <1>8
  <1> HIDE DEF sum
  <1>10. sum[0] = 0 /\ \A n \in 1 .. N : sum[n] = sum[n - 1] + E[n].length BY <1>1, <1>9
  <1>11. \A n \in 0 .. N : sum[n] \in Nat
    <2> DEFINE S == {n \in 0 .. N : sum[n] \in Nat}
    <2>1. 0 \in S BY <1>1, <1>10
    <2>2. ASSUME NEW i \in 0 .. N - 1, i \in S PROVE i + 1 \in S
      <3>1. i + 1 \in 1 .. N /\ i + 1 - 1 = i /\ sum[i] \in Nat BY <1>1, <2>2
      <3>2. sum[i + 1] = sum[i] + E[i + 1].length BY <1>10, <3>1
      <3>3. sum[i + 1] \in Nat BY <1>1, <3>1, <3>2
      <3> QED BY <1>1, <3>1, <3>3
    <2> HIDE DEF S
    <2>3. 0 .. N \subseteq S BY <1>1, <2>1, <2>2, InductionUpTo
    <2> QED BY <2>3 DEF S
  <1>12. ASSUME NEW n \in 1 .. N PROVE Offset(n) \in Nat /\ Offset(n + 1) = Offset(n) + E[n].length
    <2>1. n - 1 \in 0 .. N /\ n + 1 - 1 = n BY <1>1
    <2>2. Offset(n) = sum[n - 1] /\ Offset(n + 1) = sum[n] BY <1>2, <2>1
    <2> QED BY <1>10, <1>11, <2>1, <2>2
  <1>13. Offset(1) = 0 BY <1>2, <1>10
  <1> QED BY <1>12, <1>13 DEF Steps, E, N

KeptRight(type) ==
  /\ Kept(type, 0) = <<>>
  /\ \A n \in 1 .. Len(table.entries) : Kept(type, n) = And(Kept(type, n - 1), table.entries[n], type)
  /\ \A n \in 0 .. Len(table.entries) : IsSeq(Kept(type, n))

LEMMA KeptSteps ==
  ASSUME table \in Tables, NEW type
  PROVE  KeptRight(type)
  <1> DEFINE E == table.entries  N == Len(E)  T == Seq(Range(E))
             Eq(f) == f = [n \in 0 .. N |->
                             IF n = 0 THEN <<>>
                             ELSE IF Fits(E[n], type) THEN Append(f[n - 1], E[n])
                             ELSE f[n - 1]]
             kept == CHOOSE f : Eq(f)
             g == [n \in 1 .. N |-> [x \in T |-> And(x, E[n], type)]]
  <1>1. N \in Nat /\ E \in [1 .. N -> Range(E)]
    <2>1. E \in Seq(Range(E)) BY ApicAssumption
    <2> QED BY <2>1
  <1>2. \A i : Kept(type, i) = kept[i] BY DEF Kept
  <1>3. \A n \in 1 .. N : \A x \in T : And(x, E[n], type) \in T
    <2> HIDE DEF E, N
    <2> TAKE n \in 1 .. N
    <2> TAKE x \in T
    <2>1. E[n] \in Range(E) BY <1>1
    <2>2. Append(x, E[n]) \in T BY <2>1
    <2> QED BY <2>2 DEF And
  <1>4. <<>> \in T OBVIOUS
  <1> HIDE DEF E, N, T
  <1>5. g \in [1 .. N -> [T -> T]] BY <1>3
  <1>6. \E f \in [0 .. N -> T] : Follows(f, N, <<>>, g)
    <2> HIDE DEF g
    <2> QED BY <1>1, <1>4, <1>5, Recursion
  <1>7. PICK f \in [0 .. N -> T] : Follows(f, N, <<>>, g) BY <1>6
  <1>8. \A n \in 1 .. N : f[n] = And(f[n - 1], E[n], type)
    <2> TAKE n \in 1 .. N
    <2>1. n - 1 \in 0 .. N /\ f[n - 1] \in T /\ f[n] = g[n][f[n - 1]] BY <1>1, <1>7 DEF Follows
    <2> QED BY <2>1
  <1>9. f[0] = <<>> BY <1>7 DEF Follows
  <1> HIDE DEF g
  <1>10. Eq(f)
    <2> DEFINE h == [n \in 0 .. N |->
                       IF n = 0 THEN <<>>
                       ELSE IF Fits(E[n], type) THEN Append(f[n - 1], E[n])
                       ELSE f[n - 1]]
    <2>1. ASSUME NEW n \in 0 .. N PROVE f[n] = h[n]
      <3>1. CASE n = 0 BY <1>1, <1>9, <3>1
      <3>2. CASE n # 0
        <4>1. n \in 1 .. N BY <3>2
        <4>2. f[n] = And(f[n - 1], E[n], type) BY <1>8, <4>1
        <4> QED BY <3>2, <4>2 DEF And
      <3> QED BY <3>1, <3>2
    <2> QED BY <1>7, <2>1
  <1>11. Eq(kept) BY <1>10
  <1> HIDE DEF kept
  <1>12. kept[0] = <<>> BY <1>1, <1>11
  <1>13. ASSUME NEW n \in 1 .. N PROVE kept[n] = And(kept[n - 1], E[n], type)
    <2>1. n \in 0 .. N /\ n # 0 BY <1>1
    <2> QED BY <1>11, <2>1 DEF And
  <1>14. \A n \in 0 .. N : IsSeq(kept[n])
    <2> DEFINE S == {n \in 0 .. N : IsSeq(kept[n])}
    <2>1. 0 \in S
      <3>1. IsSeq(<<>>) BY <1>4 DEF IsSeq, T
      <3> QED BY <1>1, <1>12, <3>1
    <2>2. ASSUME NEW i \in 0 .. N - 1, i \in S PROVE i + 1 \in S
      <3>1. i + 1 \in 1 .. N /\ i + 1 - 1 = i /\ IsSeq(kept[i]) BY <1>1, <2>2
      <3>2. kept[i + 1] = And(kept[i], E[i + 1], type) BY <1>13, <3>1
      <3>3. IsSeq(kept[i + 1]) BY <3>1, <3>2, Appended DEF And
      <3> QED BY <1>1, <3>1, <3>3
    <2> HIDE DEF S
    <2>3. 0 .. N \subseteq S BY <1>1, <2>1, <2>2, InductionUpTo
    <2> QED BY <2>3 DEF S
  <1> QED BY <1>2, <1>12, <1>13, <1>14 DEF KeptRight, E, N

\* What is kept of the first n entries; no table has none.
Found(type, n) == IF table = NONE THEN <<>> ELSE Kept(type, n)

Good(n) ==
  \A i \in 1 .. n : table.entries[i].length >= HEADER /\ Offset(i + 1) <= table.bytes

\* The loop of parse_madt has recorded the first n entries of the table.
Parsed(n) == Recorded(apic, Found("LAPIC", n), Found("IOAPIC", n), Found("ISO", n))

MadtInv ==
  /\ table \in Tables \union {NONE} /\ Shape(apic) /\ pos \in Nat
  /\ phase = "madt" =>
       /\ table # NONE => pos - 1 \in 0 .. Len(table.entries) /\ Good(pos - 1)
       /\ Parsed(pos - 1)
  /\ phase # "madt" => /\ Recorded(apic, Usable("LAPIC"), Usable("IOAPIC"), Usable("ISO"))
                       /\ IsSeq(Usable("LAPIC"))
  /\ phase \in {"start", "done"} => (percpu.gs # NONE <=> apic.cpus # <<>>)

LEMMA TableFacts ==
  ASSUME table \in Tables
  PROVE  /\ table # NONE /\ Len(table.entries) \in Nat /\ table.bytes \in Nat
         /\ \A n \in 1 .. Len(table.entries) :
              /\ table.entries[n].length \in Nat
              /\ table.entries[n].type = "ISO" =>
                   {table.entries[n].source, table.entries[n].gsi, table.entries[n].flags} \subseteq Nat
  <1>1. table.entries \in Seq(Range(table.entries)) BY ApicAssumption
  <1>2. Len(table.entries) \in Nat /\ DOMAIN table.entries = 1 .. Len(table.entries) BY <1>1
  <1> QED BY <1>2, ApicAssumption

LEMMA NothingFound ==
  IsSeq(<<>>) /\ Ids(<<>>) = <<>> /\ \A n \in Nat : AtMost(<<>>, n) = <<>>
  <1>1. <<>> \in Seq({}) OBVIOUS
  <1> QED BY <1>1 DEF IsSeq, Ids, AtMost

LEMMA InitMadt == ApicInit => MadtInv
  <1> SUFFICES ASSUME ApicInit PROVE MadtInv OBVIOUS
  <1>0. MAX_CPU \in Nat /\ MAX_IOAPIC \in Nat /\ MAX_ISO \in Nat BY ApicAssumption
  <1>1. /\ table \in Tables \union {NONE} /\ pos - 1 = 0 /\ pos \in Nat /\ phase = "madt"
        /\ apic.cpus = <<>> /\ apic.ioapic = <<>> /\ apic.iso_count = 0
    BY DEF ApicInit
  <1>2. Shape(apic)
    <2>1. apic = [cpus |-> <<>>, ioapic |-> <<>>, iso |-> [i \in 0 .. MAX_ISO - 1 |-> NONE], iso_count |-> 0]
      BY DEF ApicInit
    <2>2. PICK f : f = [i \in 0 .. MAX_ISO - 1 |-> NONE] OBVIOUS
    <2>3. f = [i \in 0 .. MAX_ISO - 1 |-> f[i]] BY <2>2
    <2>4. apic = [cpus |-> <<>>, ioapic |-> <<>>, iso |-> f, iso_count |-> 0] BY <2>1, <2>2
    <2> QED BY <2>3, <2>4, NothingFound DEF Shape
  <1>3. ASSUME NEW type PROVE Found(type, 0) = <<>>
    <2>1. CASE table = NONE BY <2>1 DEF Found
    <2>2. CASE table # NONE BY <1>1, <2>2, KeptSteps DEF Found, KeptRight
    <2> QED BY <2>1, <2>2
  <1>4. Recorded(apic, <<>>, <<>>, <<>>)
    <2>1. Len(Ids(<<>>)) = 0 /\ DOMAIN Ids(<<>>) = {} BY NothingFound
    <2> QED BY <1>0, <1>1, <2>1, NothingFound DEF Recorded
  <1>5. Parsed(0) BY <1>3, <1>4 DEF Parsed
  <1>6. table # NONE => pos - 1 \in 0 .. Len(table.entries) /\ Good(pos - 1)
    <2>1. \A i \in 1 .. 0 : FALSE OBVIOUS
    <2>2. Good(0) BY <2>1 DEF Good
    <2> QED BY <1>1, <2>2, TableFacts
  <1> QED BY <1>1, <1>2, <1>5, <1>6 DEF MadtInv

\* The loop ends at the first entry that cannot be right.
LEMMA ParseEnds ==
  ASSUME table \in Tables, pos - 1 \in 0 .. Len(table.entries), Good(pos - 1), ~Complete(pos), pos \in Int
  PROVE  Readable = pos - 1
  <1> DEFINE N == Len(table.entries)
             LastGood(n) == Good(n) /\ \A m \in n + 1 .. N : ~Good(m)
  <1>1. N \in Nat /\ table.bytes \in Nat BY TableFacts
  <1>2. Readable = CHOOSE n \in 0 .. N : LastGood(n) BY DEF Readable, Good
  <1>3. ASSUME NEW m \in pos .. N PROVE ~Good(m)
    <2>1. pos \in 1 .. N /\ pos \in 1 .. m BY <1>1, <1>3
    <2>2. Offset(pos) \in Nat /\ Offset(pos + 1) = Offset(pos) + table.entries[pos].length
      BY <2>1, Offsets DEF Steps
    <2>3. table.entries[pos].length \in Nat BY <2>1, TableFacts
    <2>4. ~(table.entries[pos].length >= HEADER /\ Offset(pos + 1) <= table.bytes)
      <3> SUFFICES ASSUME table.entries[pos].length >= HEADER, Offset(pos + 1) <= table.bytes PROVE FALSE
        OBVIOUS
      <3>1. PICK o \in Nat, k \in Nat, b \in Nat :
              o = Offset(pos) /\ k = table.entries[pos].length /\ b = table.bytes
        BY <1>1, <2>2, <2>3
      <3>2. o + k <= b BY <2>2, <3>1
      <3>3. k >= 2 BY <3>1 DEF HEADER
      <3>4. o + 2 <= b BY <3>2, <3>3
      <3>5. pos <= N BY <2>1
      <3>6. Complete(pos) BY <3>1, <3>2, <3>4, <3>5 DEF Complete, HEADER
      <3> QED BY <3>6
    <2> QED BY <2>1, <2>4 DEF Good
  <1>4. LastGood(pos - 1)
    <2>1. pos - 1 + 1 = pos OBVIOUS
    <2> QED BY <1>3, <2>1
  <1>5. ASSUME NEW n \in 0 .. N, LastGood(n) PROVE n = pos - 1
    <2>1. ~(n < pos - 1)
      <3>1. SUFFICES ASSUME n < pos - 1 PROVE FALSE OBVIOUS
      <3>2. pos - 1 \in n + 1 .. N BY <1>1, <3>1
      <3> QED BY <1>5, <3>2
    <2>2. ~(pos - 1 < n)
      <3>1. SUFFICES ASSUME pos - 1 < n PROVE FALSE OBVIOUS
      <3>2. n \in pos .. N BY <1>1, <3>1
      <3> QED BY <1>3, <1>5, <3>2
    <2> QED BY <1>1, <2>1, <2>2
  <1> HIDE DEF LastGood
  <1> QED BY <1>2, <1>4, <1>5

\* Nothing writes to the table.
SameTable ==
  /\ \A type, n : Kept(type, n)' = Kept(type, n) /\ Found(type, n)' = Found(type, n)
  /\ \A type : Usable(type)' = Usable(type)
  /\ \A n : Offset(n)' = Offset(n) /\ Good(n)' = Good(n)

LEMMA TableKept ==
  ASSUME table' = table
  PROVE  SameTable
  <1>1. ASSUME NEW type, NEW n PROVE Kept(type, n)' = Kept(type, n) BY DEF Kept, Fits, Size
  <1>2. ASSUME NEW type, NEW n PROVE Found(type, n)' = Found(type, n) BY <1>1 DEF Found
  <1>3. ASSUME NEW n PROVE Offset(n)' = Offset(n) BY DEF Offset
  <1>4. ASSUME NEW n PROVE Good(n)' = Good(n) BY <1>3 DEF Good
  <1>5. Readable' = Readable BY DEF Readable, Offset
  <1>6. ASSUME NEW type PROVE Usable(type)' = Usable(type) BY <1>5 DEF Usable, Kept, Fits, Size
  <1> QED BY <1>1, <1>2, <1>3, <1>4, <1>6 DEF SameTable

LEMMA NextMadt ==
  ASSUME MadtInv, [ApicNext]_apic_vars
  PROVE  MadtInv'
  <1>0. table' = table /\ table \in Tables \union {NONE} /\ Shape(apic) /\ pos \in Nat
    BY DEF ApicNext, apic_vars, parse_madt, pit_sleep_begin, pit_sleep, lapic_timer_calibrate, init_percpu,
           lapic_timer_start, MadtInv
  <1>1. SameTable BY <1>0, TableKept
  <1>2. CASE parse_madt /\ table # NONE /\ Complete(pos)
    <2>1. /\ phase = "madt" /\ phase' = "madt" /\ table \in Tables
          /\ apic' = Parse(apic, table.entries[pos]) /\ pos' = pos + 1
      BY <1>0, <1>2 DEF parse_madt
    <2>2. /\ pos - 1 \in 0 .. Len(table.entries) /\ Good(pos - 1)
          /\ Recorded(apic, Found("LAPIC", pos - 1), Found("IOAPIC", pos - 1), Found("ISO", pos - 1))
      BY <1>2, <2>1 DEF MadtInv, Parsed
    <2>3. PICK e : e = table.entries[pos] OBVIOUS
    <2>4. pos \in 1 .. Len(table.entries) /\ pos - 1 + 1 = pos
      <3>1. Len(table.entries) \in Nat /\ pos <= Len(table.entries) BY <1>2, <2>1, TableFacts DEF Complete
      <3> QED BY <1>0, <2>2, <3>1
    <2>5. /\ e.length \in Nat
          /\ e.type = "ISO" => {e.source, e.gsi, e.flags} \subseteq Nat
      BY <2>1, <2>3, <2>4, TableFacts
    <2>6. ASSUME NEW type
          PROVE IsSeq(Found(type, pos - 1)) /\ Found(type, pos) = And(Found(type, pos - 1), e, type)
      <3>1. KeptRight(type) BY <2>1, KeptSteps
      <3> QED BY <1>2, <2>2, <2>3, <2>4, <3>1 DEF Found, KeptRight
    <2>7. Shape(apic') /\ Recorded(apic', Found("LAPIC", pos), Found("IOAPIC", pos), Found("ISO", pos))
      BY <1>0, <2>1, <2>2, <2>3, <2>5, <2>6, ParseStep
    <2>8. Good(pos)
      <3>1. Offset(pos) \in Nat /\ Offset(pos + 1) = Offset(pos) + table.entries[pos].length
        BY <2>1, <2>4, Offsets DEF Steps
      <3>2. table.entries[pos].length >= HEADER /\ Offset(pos + 1) <= table.bytes
        BY <1>2, <3>1 DEF Complete
      <3> QED BY <1>0, <2>2, <2>4, <3>2 DEF Good
    <2>9. PICK n : n = pos OBVIOUS
    <2>10. /\ Found("LAPIC", n)' = Found("LAPIC", n) /\ Found("IOAPIC", n)' = Found("IOAPIC", n)
           /\ Found("ISO", n)' = Found("ISO", n) /\ Good(n)' = Good(n)
      BY <1>1 DEF SameTable
    <2>11. Recorded(apic, Found("LAPIC", n), Found("IOAPIC", n), Found("ISO", n))'
      BY <2>7, <2>9, <2>10 DEF Recorded
    <2>12. Parsed(n)' /\ Good(n)' BY <2>8, <2>9, <2>10, <2>11 DEF Parsed
    <2>13. pos' - 1 = n /\ pos' \in Nat /\ n \in 0 .. Len(table.entries) BY <1>0, <2>1, <2>4, <2>9
    <2>14. Parsed(pos - 1)' /\ Good(pos - 1)' BY <2>12, <2>13
    <2> QED BY <1>0, <2>1, <2>7, <2>13, <2>14 DEF MadtInv
  <1>3. CASE parse_madt /\ ~(table # NONE /\ Complete(pos))
    <2>1. phase = "madt" /\ phase' = "lapic" /\ apic' = apic /\ pos' = pos
      BY <1>3 DEF parse_madt
    <2>2. /\ table # NONE => pos - 1 \in 0 .. Len(table.entries) /\ Good(pos - 1)
          /\ Recorded(apic, Found("LAPIC", pos - 1), Found("IOAPIC", pos - 1), Found("ISO", pos - 1))
      BY <2>1 DEF MadtInv, Parsed
    <2>3. ASSUME NEW type PROVE Usable(type) = Found(type, pos - 1)
      <3>1. CASE table = NONE BY <3>1 DEF Usable, Found
      <3>2. CASE table # NONE
        <4>1. Readable = pos - 1 BY <1>0, <1>3, <2>2, <3>2, ParseEnds
        <4> QED BY <3>2, <4>1 DEF Usable, Found
      <3> QED BY <3>1, <3>2
    <2>4. Recorded(apic, Usable("LAPIC"), Usable("IOAPIC"), Usable("ISO")) BY <2>2, <2>3
    <2>5. Recorded(apic, Usable("LAPIC"), Usable("IOAPIC"), Usable("ISO"))'
      BY <1>1, <2>1, <2>4 DEF SameTable, Recorded
    <2>6. IsSeq(Found("LAPIC", pos - 1))
      <3>1. CASE table = NONE BY <3>1, NothingFound DEF Found
      <3>2. CASE table # NONE BY <1>0, <2>2, <3>2, KeptSteps DEF Found, KeptRight
      <3> QED BY <3>1, <3>2
    <2>7. IsSeq(Usable("LAPIC")') BY <1>1, <2>3, <2>6 DEF SameTable
    <2> QED BY <1>0, <2>1, <2>5, <2>7 DEF MadtInv
  <1>4. ASSUME apic' = apic, phase # "madt", phase' # "madt"
        PROVE  Recorded(apic, Usable("LAPIC"), Usable("IOAPIC"), Usable("ISO"))' /\ IsSeq(Usable("LAPIC"))'
    <2>1. Recorded(apic, Usable("LAPIC"), Usable("IOAPIC"), Usable("ISO")) /\ IsSeq(Usable("LAPIC"))
      BY <1>4 DEF MadtInv
    <2> QED BY <1>1, <1>4, <2>1 DEF SameTable, Recorded
  <1>5. CASE pit_sleep_begin \/ pit_sleep \/ lapic_timer_calibrate
    <2>1. /\ apic' = apic /\ pos' = pos /\ phase # "madt" /\ phase' \notin {"madt", "start", "done"}
      BY <1>5 DEF pit_sleep_begin, pit_sleep, lapic_timer_calibrate
    <2> QED BY <1>0, <1>4, <2>1 DEF MadtInv
  <1>6. CASE init_percpu
    <2>1. /\ apic' = apic /\ pos' = pos /\ phase = "percpu" /\ phase' = "start"
          /\ percpu'.gs = IF Len(apic.cpus) = 0 THEN NONE ELSE 1
      BY <1>6 DEF init_percpu, AreaCount
    <2>2. Len(apic.cpus) = 0 <=> apic.cpus = <<>>
      <3>1. PICK T : apic.cpus \in Seq(T) BY <1>0 DEF Shape, IsSeq
      <3> QED BY <3>1
    <2>3. NONE # 1 BY ApicAssumption
    <2> QED BY <1>0, <1>4, <2>1, <2>2, <2>3 DEF MadtInv
  <1>7. CASE lapic_timer_start(1000)
    <2>1. apic' = apic /\ pos' = pos /\ percpu' = percpu /\ phase = "start" /\ phase' = "done"
      BY <1>7 DEF lapic_timer_start
    <2> QED BY <1>0, <1>4, <2>1 DEF MadtInv
  <1>8. CASE UNCHANGED apic_vars
    <2>1. apic' = apic /\ pos' = pos /\ percpu' = percpu /\ phase' = phase
      BY <1>8 DEF apic_vars
    <2>2. CASE phase = "madt"
      <3>1. PICK n : n = pos - 1 OBVIOUS
      <3>2. /\ Found("LAPIC", n)' = Found("LAPIC", n) /\ Found("IOAPIC", n)' = Found("IOAPIC", n)
            /\ Found("ISO", n)' = Found("ISO", n) /\ Good(n)' = Good(n)
        BY <1>1 DEF SameTable
      <3>3. Parsed(n) /\ (table # NONE => n \in 0 .. Len(table.entries) /\ Good(n))
        BY <2>2, <3>1 DEF MadtInv
      <3>4. Parsed(n)' BY <2>1, <3>2, <3>3 DEF Parsed, Recorded
      <3>5. pos' - 1 = n BY <2>1, <3>1
      <3>6. Parsed(pos - 1)' /\ (table # NONE => Good(pos - 1))' BY <1>0, <3>2, <3>3, <3>4, <3>5
      <3> QED BY <1>0, <2>1, <2>2, <3>3, <3>5, <3>6 DEF MadtInv
    <2>3. CASE phase # "madt" BY <1>0, <1>4, <2>1, <2>3 DEF MadtInv
    <2> QED BY <2>2, <2>3
  <1> QED BY <1>2, <1>3, <1>5, <1>6, <1>7, <1>8 DEF ApicNext

\* parse_madt, parse_lapic, parse_ioapic and parse_iso: whatever the table, the
\* kernel records its CPUs, I/O APICs and, if they fit, its overrides, in order,
\* and nothing that lies beyond the first entry that cannot be right.
THEOREM MadtIsRecorded == ApicSpec => []MadtRecorded
  <1>1. MadtInv => MadtRecorded BY DEF MadtInv, MadtRecorded, Recorded
  <1>2. MadtInv /\ [ApicNext]_apic_vars => MadtInv' BY NextMadt
  <1> QED BY <1>1, <1>2, InitMadt, PTL DEF ApicSpec

\* init_percpu: the boot processor has its per-CPU area exactly if the MADT
\* lists a CPU.
THEOREM PercpuIsReady == ApicSpec => []PercpuReady
  <1>1. MadtInv => PercpuReady
    <2> SUFFICES ASSUME MadtInv, phase \in {"start", "done"}
                 PROVE  percpu.gs # NONE <=> Usable("LAPIC") # <<>>
      BY DEF PercpuReady
    <2>1. /\ Shape(apic) /\ Ids(apic.cpus) = AtMost(Ids(Usable("LAPIC")), MAX_CPU)
          /\ percpu.gs # NONE <=> apic.cpus # <<>>
      BY DEF MadtInv, Recorded
    <2>2. PICK u : u = Usable("LAPIC") OBVIOUS
    <2>3. IsSeq(u) /\ IsSeq(apic.cpus) BY <2>1, <2>2 DEF MadtInv, Shape
    <2>4. /\ IsSeq(Ids(u)) /\ Len(Ids(u)) = Len(u) /\ Len(u) \in Nat /\ Len(Ids(apic.cpus)) = Len(apic.cpus)
          /\ Len(apic.cpus) \in Nat /\ MAX_CPU \in Nat \ {0}
      BY <2>3, IdsSeq, Appended, ApicAssumption
    <2>5. Len(apic.cpus) = IF Len(u) <= MAX_CPU THEN Len(u) ELSE MAX_CPU
      <3>1. Len(AtMost(Ids(u), MAX_CPU)) = IF Len(Ids(u)) <= MAX_CPU THEN Len(Ids(u)) ELSE MAX_CPU
        BY <2>4, AtMostAppend
      <3> QED BY <2>1, <2>2, <2>4, <3>1
    <2>6. Len(apic.cpus) = 0 <=> Len(u) = 0 BY <2>4, <2>5
    <2>7. ASSUME NEW s, IsSeq(s) PROVE Len(s) = 0 <=> s = <<>>
      <3>1. PICK T : s \in Seq(T) BY <2>7 DEF IsSeq
      <3> QED BY <3>1
    <2> QED BY <2>1, <2>2, <2>3, <2>6, <2>7
  <1>2. MadtInv /\ [ApicNext]_apic_vars => MadtInv' BY NextMadt
  <1> QED BY <1>1, <1>2, InitMadt, PTL DEF ApicSpec

-----------------------------------------------------------------------------
(* Round robin: a task that can run is in exactly one place, and no waiting *)
(* task is overtaken.                                                      *)

IInv == TypeOK /\ OnePlace

LEMMA InitIInv == Init => IInv
  BY DEF Init, IInv, TypeOK, OnePlace, Queued

\* The entries of a queue with a task appended.
LEMMA AppendEntries ==
  ASSUME NEW q \in Seq(Threads), NEW t \in Threads
  PROVE  /\ Append(q, t) \in Seq(Threads)
         /\ DOMAIN Append(q, t) = 1 .. Len(q) + 1
         /\ DOMAIN q = 1 .. Len(q) /\ Len(q) \in Nat
         /\ \A i \in 1 .. Len(q) : Append(q, t)[i] = q[i]
         /\ Append(q, t)[Len(q) + 1] = t
  OBVIOUS

\* The entries of a non-empty queue without its head.
LEMMA TailEntries ==
  ASSUME NEW q \in Seq(Threads), q # << >>
  PROVE  /\ Tail(q) \in Seq(Threads) /\ Head(q) = q[1] /\ Head(q) \in Threads
         /\ DOMAIN q = 1 .. Len(q) /\ Len(q) \in Nat \ {0}
         /\ DOMAIN Tail(q) = 1 .. Len(q) - 1
         /\ \A i \in 1 .. Len(q) - 1 : Tail(q)[i] = q[i + 1]
  OBVIOUS

Entries(q) == {q[i] : i \in DOMAIN q}
Distinct(q) == \A i, j \in DOMAIN q : q[i] = q[j] => i = j

\* Appending a task that is not in the queue keeps its entries distinct.
LEMMA AppendDistinct ==
  ASSUME NEW q \in Seq(Threads), NEW t \in Threads, Distinct(q), t \notin Entries(q)
  PROVE  /\ Append(q, t) \in Seq(Threads)
         /\ Entries(Append(q, t)) = Entries(q) \cup {t}
         /\ Distinct(Append(q, t))
  <1>1. Append(q, t) \in Seq(Threads) BY AppendEntries
  <1>2. Entries(Append(q, t)) = Entries(q) \cup {t}
    BY AppendEntries DEF Entries
  <1>3. Distinct(Append(q, t))
    BY AppendEntries DEF Entries, Distinct
  <1> QED BY <1>1, <1>2, <1>3

\* Taking the head of a queue of distinct tasks takes that task out.
LEMMA TailDistinct ==
  ASSUME NEW q \in Seq(Threads), q # << >>, Distinct(q)
  PROVE  /\ Tail(q) \in Seq(Threads) /\ Head(q) \in Threads
         /\ Entries(q) = Entries(Tail(q)) \cup {Head(q)}
         /\ Head(q) \notin Entries(Tail(q))
         /\ Distinct(Tail(q))
  <1>1. Tail(q) \in Seq(Threads) /\ Head(q) \in Threads BY TailEntries
  <1>2. Entries(q) = Entries(Tail(q)) \cup {Head(q)}
    <2>1. \A i \in DOMAIN q : i = 1 \/ (i - 1 \in DOMAIN Tail(q) /\ Tail(q)[i - 1] = q[i])
      BY TailEntries
    <2>2. \A i \in DOMAIN Tail(q) : i + 1 \in DOMAIN q /\ Tail(q)[i] = q[i + 1]
      BY TailEntries
    <2>3. 1 \in DOMAIN q /\ Head(q) = q[1] BY TailEntries
    <2>4. ASSUME NEW x \in Entries(q) PROVE x \in Entries(Tail(q)) \cup {Head(q)}
      <3>1. PICK i \in DOMAIN q : x = q[i] BY DEF Entries
      <3> QED BY <2>1, <2>3, <3>1 DEF Entries
    <2>5. ASSUME NEW x \in Entries(Tail(q)) PROVE x \in Entries(q)
      <3>1. PICK i \in DOMAIN Tail(q) : x = Tail(q)[i] BY DEF Entries
      <3> QED BY <2>2, <3>1 DEF Entries
    <2>6. Head(q) \in Entries(q) BY <2>3 DEF Entries
    <2> QED BY <2>4, <2>5, <2>6
  <1>3. Head(q) \notin Entries(Tail(q))
    BY TailEntries DEF Entries, Distinct
  <1>4. Distinct(Tail(q))
    BY TailEntries DEF Distinct
  <1> QED BY <1>1, <1>2, <1>3, <1>4

LEMMA QueuedEntries == Queued = Entries(queue) /\ Queued' = Entries(queue')
  BY DEF Queued, Entries

\* Dispatching from a queue q that holds every ready task once.
LEMMA DispatchStep ==
  ASSUME IdleApart, NEW q \in Seq(Threads), Distinct(q), ready' = Entries(q),
         ready' \subseteq Threads, Dispatch(q)
  PROVE  IInv'
  <1>1. CASE q = << >>
    <2>1. Entries(q) = {} BY <1>1 DEF Entries
    <2>2. running' = Idle /\ queue' = << >> BY <1>1 DEF Dispatch
    <2> QED BY <2>1, <2>2, QueuedEntries, <1>1
            DEF IdleApart, IInv, TypeOK, OnePlace, Distinct
  <1>2. CASE q # << >>
    <2>1. running' = Head(q) /\ queue' = Tail(q) BY <1>2 DEF Dispatch
    <2>2. running' # Idle BY <1>2, <2>1, TailDistinct DEF IdleApart
    <2> QED BY <1>2, <2>1, <2>2, TailDistinct, QueuedEntries
            DEF IInv, TypeOK, OnePlace, Distinct
  <1> QED BY <1>1, <1>2

LEMMA NextIInv ==
  ASSUME IdleApart
  PROVE  IInv /\ [Next]_vars => IInv'
  <1> SUFFICES ASSUME IInv, [Next]_vars PROVE IInv' OBVIOUS
  <1>1. /\ queue \in Seq(Threads) /\ Distinct(queue) /\ Queued = Entries(queue)
        /\ ready \subseteq Threads
    BY QueuedEntries DEF IInv, TypeOK, OnePlace, Distinct
  <1>2. ASSUME NEW t \in Threads, Wake(t) PROVE IInv'
    <2>1. t \notin Entries(queue) /\ t # running
      BY <1>1, <1>2 DEF IdleApart, Wake, IInv, OnePlace
    <2>2. Queued' = Queued \cup {t} /\ Distinct(queue') /\ queue' \in Seq(Threads)
      BY <1>1, <1>2, <2>1, AppendDistinct, QueuedEntries DEF Wake
    <2> QED BY <1>2, <2>1, <2>2 DEF Wake, IInv, TypeOK, OnePlace, Distinct
  <1>3. ASSUME NEW t \in Threads, Start(t) PROVE IInv'
    BY <1>3 DEF IdleApart, Start, IInv, TypeOK, OnePlace, Queued
  <1>4. CASE Turn
    <2>1. CASE running = Idle
      <3>1. ready = Entries(queue) BY <1>1, <2>1 DEF IInv, OnePlace
      <3> QED BY <1>1, <1>4, <2>1, <3>1, DispatchStep DEF Turn
    <2>2. CASE running # Idle
      <3>1. running \in Threads /\ running \notin Entries(queue)
        BY <1>1, <2>2 DEF IInv, TypeOK, OnePlace
      <3>2. ready = Entries(Append(queue, running))
        BY <1>1, <2>2, <3>1, AppendDistinct DEF IInv, OnePlace
      <3> QED BY <1>1, <1>4, <2>2, <3>1, <3>2, AppendDistinct, DispatchStep DEF Turn
    <2> QED BY <2>1, <2>2
  <1>5. CASE End
    <2>1. ready' = Entries(queue) BY <1>1, <1>5 DEF End, IInv, OnePlace
    <2> QED BY <1>1, <1>5, <2>1, DispatchStep DEF End, IInv, TypeOK
  <1>6. CASE UNCHANGED vars
    BY <1>6 DEF vars, IInv, TypeOK, OnePlace, Queued
  <1> QED BY <1>2, <1>3, <1>4, <1>5, <1>6 DEF Next

LEMMA Inductive ==
  ASSUME IdleApart
  PROVE  Spec => []IInv
  BY InitIInv, NextIInv, PTL DEF Spec

\* Type correctness.
THEOREM TypeCorrect ==
  ASSUME IdleApart
  PROVE  Spec => []TypeOK
  <1>1. IInv => TypeOK BY DEF IInv
  <1> QED BY <1>1, Inductive, PTL

\* For every set of tasks: a task that can run is on the CPU or at exactly one
\* position of the queue, never both, never twice and never nowhere.
THEOREM EveryTaskHasOnePlace ==
  ASSUME IdleApart
  PROVE  Spec => []OnePlace
  <1>1. IInv => OnePlace BY DEF IInv
  <1> QED BY <1>1, Inductive, PTL

\* The entry at position i of q survives a dispatch or is dispatched.
LEMMA DispatchOrder ==
  ASSUME NEW q \in Seq(Threads), NEW i \in DOMAIN q, Dispatch(q)
  PROVE  \/ \E j \in DOMAIN queue' : j <= i /\ queue'[j] = q[i]
         \/ i = 1 /\ running' = q[i]
  <1>1. q # << >> BY DEF Dispatch
  <1>2. running' = Head(q) /\ queue' = Tail(q) BY <1>1 DEF Dispatch
  <1>3. CASE i = 1 BY <1>1, <1>2, <1>3, TailEntries
  <1>4. CASE i # 1
    <2>1. i - 1 \in DOMAIN queue' /\ queue'[i - 1] = q[i] /\ i - 1 <= i
      BY <1>1, <1>2, <1>4, TailEntries
    <2> QED BY <2>1
  <1> QED BY <1>3, <1>4

\* For every set of tasks: a step never moves a waiting task back.
THEOREM NobodyIsOvertaken ==
  ASSUME IdleApart
  PROVE  Spec => NoOvertaking
  <1> DEFINE Stays(i) == \/ \E j \in DOMAIN queue' : j <= i /\ queue'[j] = queue[i]
                         \/ i = 1 /\ running' = queue[i]
  <1>1. ASSUME IInv, [Next]_vars, NEW i \in DOMAIN queue PROVE Stays(i)
    <2>1. queue \in Seq(Threads) /\ i \in Nat BY <1>1 DEF IInv, TypeOK
    <2>2. ASSUME NEW t \in Threads, queue' = Append(queue, t) PROVE Stays(i)
      <3>1. i \in DOMAIN queue' /\ queue'[i] = queue[i] /\ i <= i
        BY <2>1, <2>2, AppendEntries
      <3> QED BY <3>1
    <2>3. ASSUME queue' = queue PROVE Stays(i)
      BY <2>1, <2>3
    <2>4. CASE Turn
      <3>1. CASE running = Idle BY <2>1, <2>4, <3>1, DispatchOrder DEF Turn
      <3>2. CASE running # Idle
        <4>1. running \in Threads BY <1>1, <3>2 DEF IInv, TypeOK
        <4>2. /\ Append(queue, running) \in Seq(Threads)
              /\ i \in DOMAIN Append(queue, running)
              /\ Append(queue, running)[i] = queue[i]
          BY <2>1, <4>1, AppendEntries
        <4>3. Dispatch(Append(queue, running)) BY <2>4, <3>2 DEF Turn
        <4> QED BY <4>2, <4>3, DispatchOrder
      <3> QED BY <3>1, <3>2
    <2>5. CASE End BY <2>1, <2>5, DispatchOrder DEF End
    <2> QED BY <1>1, <2>2, <2>3, <2>4, <2>5 DEF Next, Wake, Start, vars
  <1>2. IInv /\ [Next]_vars => [\A i \in DOMAIN queue : Stays(i)]_vars
    BY <1>1
  <1> QED BY <1>2, Inductive, PTL DEF Spec, NoOvertaking

-----------------------------------------------------------------------------
(* The tree of the run queue: insertion and erasure keep it red-black      *)

Counts(M) == [M -> Nat \ {0}]

\* The number of black nodes on the way down from x, when b has it for nodes.
Blacks(b, x) == IF x = NULL THEN 1 ELSE b[x]

Weight(h, x) == IF IsRed(h, x) THEN 0 ELSE 1

\* Both ways down from x meet the same number of black nodes.
Even(h, b, x) == \A s \in Sides : b[x] = Blacks(b, h.n[x][s]) + Weight(h, x)

\* If x is red, its children are black; only e is excused.
Calm(h, x, e) == IsRed(h, x) => \A s \in Sides : h.n[x][s] # e => ~IsRed(h, h.n[x][s])

\* A red-black tree, with the counts b
Counted(h, M, b) ==
  /\ h.ok /\ b \in Counts(M) /\ ~IsRed(h, h.root)
  /\ \A x \in M : Even(h, b, x) /\ Calm(h, x, NULL)

\* One, but the red node may have a red parent or be the root.
RedAt(h, M, b, node) ==
  /\ h.ok /\ b \in Counts(M) /\ IsRed(h, node)
  /\ IsRed(h, h.root) => h.root = node
  /\ \A x \in M : Even(h, b, x) /\ Calm(h, x, node)

\* One, but there is one black node too few below node, a child of parent.
ShortAt(h, M, b, node, parent) ==
  LET side == SideOf(h, node, parent)
  IN /\ h.ok /\ b \in Counts(M) /\ ~IsRed(h, h.root)
     /\ \A x \in M : Calm(h, x, NULL)
     /\ \A x \in M \ {parent} : Even(h, b, x)
     /\ h.n[parent][side] = node /\ ~IsRed(h, node)
     /\ b[parent] = Blacks(b, node) + 1 + Weight(h, parent)
     /\ b[parent] = Blacks(b, h.n[parent][Other(side)]) + Weight(h, parent)

LEMMA CountAt ==
  ASSUME NEW h, NEW b, NEW x, Even(h, b, x), NEW s \in Sides, NEW y, y = h.n[x][s], NEW w, Weight(h, x) = w
  PROVE  b[x] = Blacks(b, y) + w
  BY DEF Even

LEMMA CalmAt ==
  ASSUME NEW h, NEW x, NEW e, Calm(h, x, e), IsRed(h, x), NEW s \in Sides, NEW y, y = h.n[x][s], y # e
  PROVE  ~IsRed(h, y)
  BY DEF Calm

-----------------------------------------------------------------------------
(* A rotation *)

\* The colours and counts around a rotation, when b2 has its new counts
Turned(h, g, M, b, b2, old, new, side, c) ==
  LET tmp == h.n[new][Other(side)]
      near == h.n[old][Other(side)]
      far == h.n[new][side]
      Rest == (M \cup {NULL}) \ {old, new}
  IN /\ new \in M /\ new # old /\ tmp \in Rest /\ near \in Rest /\ far \in Rest
     /\ g.n[old][side] = tmp /\ g.n[old][Other(side)] = near
     /\ g.n[new][Other(side)] = old /\ g.n[new][side] = far
     /\ \A z \in Rest : Blacks(b2, z) = Blacks(b, z) /\ (IsRed(g, z) <=> IsRed(h, z))
     /\ IsRed(g, old) <=> c = Red
     /\ IsRed(g, new) <=> IsRed(h, old)
     /\ \A x \in M \ {old, new} : /\ Even(h, b, x) => Even(g, b2, x)
                                  /\ \A e : e # old /\ Calm(h, x, e) => Calm(g, x, e)
     /\ g.ok = h.ok
     /\ IsRed(g, g.root) <=> IsRed(h, h.root)

LEMMA RotatedCounts ==
  ASSUME NEW M, NEW n, NEW p, NEW h, Numbered(M, n, p), IsTree(h, M, n, p),
         NEW old \in M, NEW side \in Sides, NEW new, new = h.n[old][side], new # NULL,
         NEW c \in {Red, Black}, NEW d \in {Red, Black}, NEW g, Rotated(h, g, old, new, side, c, d),
         LET tmp == h.n[new][Other(side)] IN tmp # NULL => h.n[tmp].color = d,
         NEW b \in Counts(M), NEW b2 \in Counts(M), \A x \in M \ {old, new} : b2[x] = b[x], b2[new] = b[old]
  PROVE  Turned(h, g, M, b, b2, old, new, side, c)
  <1> DEFINE far == Other(side)
             tmp == h.n[new][far]
             q == h.n[old].parent
             Rest == (M \cup {NULL}) \ {old, new}
  <1>1. PICK lo, hi : Tree(h, M, n, p, lo, hi) BY DEF IsTree
  <1>2. h \in Heap /\ M \in SUBSET Nodes /\ NULL \notin M /\ far \in Sides /\ far # side /\ (\A s \in Sides : s = side \/ s = far)
    BY InTree DEF Other, Sides
  <1>3. /\ new \in M /\ h.n[new].parent = old /\ old # new /\ q \notin {old, new} /\ tmp \notin {old, new}
    BY <1>1, Apart
  <1>4. \A x \in M : \A s \in Sides : h.n[x][s] # NULL => h.n[x][s] \in M /\ h.n[h.n[x][s]].parent = x /\ h.n[x][s] # x
    BY ChildIn
  <1>5. tmp \in Rest /\ h.n[new][side] \in Rest /\ h.n[old][far] \in Rest
    <2>1. tmp \in Rest BY <1>2, <1>3, <1>4
    <2>2. h.n[new][side] \in Rest BY <1>2, <1>3, <1>4
    <2>3. h.n[old][far] # new
      <3>1. h.n[new].parent = old /\ old # NULL BY <1>2, <1>3
      <3>2. h.n[old][SideOf(h, new, old)] = new /\ h.n[old][Other(SideOf(h, new, old))] # new /\ SideOf(h, new, old) \in Sides
        BY <1>3, <3>1, ParentSide
      <3>3. SideOf(h, new, old) = side
        BY <1>2, <3>2 DEF Sides, Other
      <3> QED BY <3>2, <3>3
    <2>4. h.n[old][far] \in Rest BY <1>2, <1>4, <2>3
    <2> QED BY <2>1, <2>2, <2>4
  <1>6. /\ g.ok = h.ok
        /\ g.root = IF q = NULL THEN new ELSE h.root
        /\ \A y \in M : g.n[y].color = IF y = old THEN c ELSE IF y = new THEN h.n[old].color
                                       ELSE IF y = tmp THEN d ELSE h.n[y].color
        /\ \A y \in M : \A s \in Sides :
             g.n[y][s] = IF y = old /\ s = side THEN tmp
                         ELSE IF y = new /\ s = far THEN old
                         ELSE IF y = q /\ h.n[y][s] = old THEN new
                         ELSE h.n[y][s]
    BY <1>2 DEF Rotated
  <1>7. tmp # NULL => h.n[tmp].color = d OBVIOUS
  <1>8. h.n[old][side] = new OBVIOUS
  <1>9. Hangs(h, M, old) BY <1>1 DEF Tree
  <1>10. q = NULL => old = h.root BY <1>9 DEF Hangs
  <1>11. h.root # NULL => h.root \in M /\ h.n[h.root].parent = NULL BY <1>1 DEF Tree, Rooted
  <1> HIDE DEF far, tmp, q
  <1>12. /\ g.n[old][side] = tmp /\ g.n[old][far] = h.n[old][far]
         /\ g.n[new][far] = old /\ g.n[new][side] = h.n[new][side]
    BY <1>2, <1>3, <1>6
  <1>13. /\ \A z \in Rest : Blacks(b2, z) = Blacks(b, z) /\ (IsRed(g, z) <=> IsRed(h, z))
         /\ IsRed(g, old) <=> c = Red
         /\ IsRed(g, new) <=> IsRed(h, old)
    <2>1. \A z \in Rest : Blacks(b2, z) = Blacks(b, z) BY <1>2 DEF Blacks
    <2>2. \A z \in Rest : IsRed(g, z) <=> IsRed(h, z) BY <1>6, <1>7 DEF IsRed
    <2>3. IsRed(g, old) <=> c = Red BY <1>2, <1>6 DEF IsRed
    <2>4. IsRed(g, new) <=> IsRed(h, old) BY <1>2, <1>3, <1>6 DEF IsRed
    <2> QED BY <2>1, <2>2, <2>3, <2>4
  <1>14. ASSUME NEW x \in M \ {old, new}
         PROVE  /\ IsRed(g, x) <=> IsRed(h, x)
                /\ \A s \in Sides : /\ Blacks(b2, g.n[x][s]) = Blacks(b, h.n[x][s])
                                    /\ IsRed(g, g.n[x][s]) <=> IsRed(h, h.n[x][s])
                                    /\ g.n[x][s] = h.n[x][s] \/ h.n[x][s] = old
    <2>1. IsRed(g, x) <=> IsRed(h, x) BY <1>13
    <2>2. ASSUME NEW s \in Sides
          PROVE  /\ Blacks(b2, g.n[x][s]) = Blacks(b, h.n[x][s])
                 /\ IsRed(g, g.n[x][s]) <=> IsRed(h, h.n[x][s])
                 /\ g.n[x][s] = h.n[x][s] \/ h.n[x][s] = old
      <3>1. CASE h.n[x][s] = old
        <4>1. x = q BY <1>2, <1>4, <3>1 DEF q
        <4>2. g.n[x][s] = new BY <1>6, <3>1, <4>1
        <4>3. Blacks(b2, new) = Blacks(b, old) BY <1>2, <1>3 DEF Blacks
        <4> QED BY <1>13, <3>1, <4>2, <4>3
      <3>2. CASE h.n[x][s] # old
        <4>1. g.n[x][s] = h.n[x][s] BY <1>6, <3>2
        <4>2. h.n[x][s] # new BY <1>2, <1>3, <1>4
        <4>3. h.n[x][s] \in Rest BY <1>2, <1>4, <3>2, <4>2
        <4> QED BY <1>13, <4>1, <4>3
      <3> QED BY <3>1, <3>2
    <2> QED BY <2>1, <2>2
  <1>15. ASSUME NEW x \in M \ {old, new}, Even(h, b, x) PROVE Even(g, b2, x)
    <2>1. b2[x] = b[x] /\ Weight(g, x) = Weight(h, x) BY <1>14 DEF Weight
    <2> QED BY <1>14, <1>15, <2>1 DEF Even
  <1>16. ASSUME NEW x \in M \ {old, new}, NEW e, e # old, Calm(h, x, e) PROVE Calm(g, x, e)
    BY <1>14, <1>16 DEF Calm
  <1>17. IsRed(g, g.root) <=> IsRed(h, h.root)
    <2>1. CASE q = NULL BY <1>6, <1>10, <1>13, <2>1
    <2>2. CASE q # NULL
      <3>1. g.root = h.root /\ h.root # old /\ h.root # new
        BY <1>2, <1>3, <1>6, <1>11, <2>2 DEF q
      <3> QED BY <1>11, <1>13, <3>1
    <2> QED BY <2>1, <2>2
  <1> QED BY <1>3, <1>5, <1>6, <1>12, <1>13, <1>15, <1>16, <1>17 DEF Turned, far, tmp

(* Insertion *)

\* The red node below a red parent is not the root, so the root is black; its
\* grandparent is black.
LEMMA RedPair ==
  ASSUME NEW M, NEW n, NEW p, NEW h, Numbered(M, n, p), IsTree(h, M, n, p), NEW b, NEW node \in M, RedAt(h, M, b, node),
         NEW parent, parent = h.n[node].parent, IsRed(h, parent)
  PROVE  /\ parent \in M /\ parent # node /\ ~IsRed(h, h.root) /\ h.n[parent].parent # NULL
         /\ h.n[parent].parent \in M /\ ~IsRed(h, h.n[parent].parent)
         /\ h.n[parent].parent \notin {node, parent}
  <1>1. parent # NULL BY DEF IsRed
  <1>2. parent \in M /\ parent # node BY <1>1, ParentSide
  <1>3. PICK lo, hi : Tree(h, M, n, p, lo, hi) BY DEF IsTree
  <1>4. h.root # NULL => h.n[h.root].parent = NULL BY <1>3 DEF Tree, Rooted
  <1>5. ~IsRed(h, h.root) BY <1>1, <1>4 DEF RedAt, IsRed
  <1>6. h.n[parent].parent # NULL
    <2>1. Hangs(h, M, parent) BY <1>2, <1>3 DEF Tree
    <2> QED BY <1>5, <2>1 DEF Hangs
  <1> DEFINE gparent == h.n[parent].parent
  <1>7. gparent \in M /\ gparent # parent /\ SideOf(h, parent, gparent) \in Sides /\ h.n[gparent][SideOf(h, parent, gparent)] = parent
    BY <1>2, <1>6, ParentSide
  <1>8. ~IsRed(h, gparent) BY <1>2, <1>7 DEF RedAt, Calm
  <1>9. gparent # node BY <1>8 DEF RedAt
  <1> QED BY <1>2, <1>5, <1>6, <1>7, <1>8, <1>9

\* A red node on the given side at of a red parent; the uncle is black.
RedUp(h, node, parent, gparent, side, far, at) ==
  /\ parent = h.n[node].parent /\ IsRed(h, parent) /\ h.n[parent][at] = node
  /\ gparent = h.n[parent].parent
  /\ side \in Sides /\ far = Other(side)
  /\ h.n[gparent][side] = parent /\ ~IsRed(h, h.n[gparent][far])

\* Case 3
LEMMA InsertRotated ==
  ASSUME NEW M, NEW n, NEW p, NEW h, Numbered(M, n, p), IsTree(h, M, n, p), NEW b, NEW node \in M, RedAt(h, M, b, node),
         NEW parent, NEW gparent, NEW side, NEW far, RedUp(h, node, parent, gparent, side, far, side)
  PROVE  \E b2 : Counted(Rotate(h, gparent, parent, side, Red, Black), M, b2)
  <1> DEFINE g == Rotate(h, gparent, parent, side, Red, Black)
             b2 == [b EXCEPT ![parent] = b[gparent], ![gparent] = b[parent]]
  <1>1. parent = h.n[node].parent /\ gparent = h.n[parent].parent BY DEF RedUp
  <1>2. IsRed(h, parent) /\ ~IsRed(h, h.n[gparent][far]) BY DEF RedUp
  <1>3. side \in Sides /\ far = Other(side) BY DEF RedUp
  <1>4. h.n[gparent][side] = parent /\ h.n[parent][side] = node BY DEF RedUp
  <1>5. PICK tmp, near : tmp = h.n[parent][far] /\ near = h.n[gparent][far] OBVIOUS
  <1>6. /\ parent \in M /\ parent # node /\ ~IsRed(h, h.root) /\ gparent # NULL
        /\ gparent \in M /\ ~IsRed(h, gparent) /\ gparent \notin {node, parent}
    BY <1>1, <1>2, RedPair
  <1>7. h \in Heap /\ M \in SUBSET Nodes /\ NULL \notin M /\ far \in Sides /\ (\A s \in Sides : s = side \/ s = far)
        /\ far # side /\ Other(far) = side
    BY <1>3, InTree DEF Other, Sides
  <1>8. Rotated(h, g, gparent, parent, side, Red, Black)
    <2>1. parent # NULL BY <1>6, <1>7
    <2> QED BY <1>3, <1>4, <1>6, <2>1, RotateTree
  <1> HIDE DEF g
  <1>9. /\ b \in Counts(M) /\ IsRed(h, node) /\ h.ok
        /\ \A x \in M : Even(h, b, x) /\ Calm(h, x, node)
    BY DEF RedAt
  <1>10. b2 \in Counts(M) /\ b2[parent] = b[gparent] /\ b2[gparent] = b[parent]
        /\ \A x \in M \ {gparent, parent} : b2[x] = b[x]
    BY <1>6, <1>9 DEF Counts
  <1> HIDE DEF b2
  <1>11. ~IsRed(h, tmp)
    <2>1. tmp # node
      <3>1. node # NULL /\ SideOf(h, node, parent) \in Sides /\ h.n[parent][SideOf(h, node, parent)] = node
            /\ h.n[parent][Other(SideOf(h, node, parent))] # node
        BY <1>1, <1>6, <1>7, ParentSide
      <3>2. SideOf(h, node, parent) = side BY <1>3, <1>4, <3>1 DEF Sides, Other
      <3> QED BY <1>3, <1>5, <3>1, <3>2
    <2> QED BY <1>2, <1>5, <1>6, <1>7, <1>9, <2>1 DEF Calm
  <1>12. tmp # NULL => h.n[tmp].color = Black
    <2>1. tmp # NULL => tmp \in M BY <1>5, <1>6, <1>7, ChildIn
    <2>2. tmp # NULL => h.n[tmp].color \in {Red, Black} BY <1>7, <2>1 DEF Heap, rb_node
    <2> QED BY <1>11, <2>2 DEF IsRed
  <1>13. Turned(h, g, M, b, b2, gparent, parent, side, Red)
    <2>1. parent # NULL BY <1>6, <1>7
    <2>2. LET t == h.n[parent][Other(side)] IN t # NULL => h.n[t].color = Black BY <1>3, <1>5, <1>12
    <2> QED BY <1>3, <1>4, <1>6, <1>8, <1>9, <1>10, <2>1, <2>2, RotatedCounts
  <1>14. /\ g.n[gparent][side] = tmp /\ g.n[gparent][far] = near
         /\ g.n[parent][far] = gparent /\ g.n[parent][side] = node
         /\ Blacks(b2, tmp) = Blacks(b, tmp) /\ ~IsRed(g, tmp)
         /\ Blacks(b2, near) = Blacks(b, near) /\ ~IsRed(g, near)
         /\ Blacks(b2, node) = Blacks(b, node) /\ (IsRed(g, node) <=> IsRed(h, node))
         /\ IsRed(g, gparent) /\ ~IsRed(g, parent)
    <2>1. node \in (M \cup {NULL}) \ {gparent, parent} BY <1>6
    <2>2. LET rest == (M \cup {NULL}) \ {gparent, parent}
          IN /\ tmp \in rest /\ near \in rest
             /\ g.n[gparent][side] = tmp /\ g.n[gparent][far] = near
             /\ g.n[parent][far] = gparent /\ g.n[parent][side] = node
             /\ IsRed(g, gparent) /\ (IsRed(g, parent) <=> IsRed(h, gparent))
             /\ \A z \in rest : Blacks(b2, z) = Blacks(b, z) /\ (IsRed(g, z) <=> IsRed(h, z))
      BY <1>3, <1>4, <1>5, <1>13 DEF Turned
    <2>3. ~IsRed(h, near) BY <1>2, <1>5
    <2> QED BY <1>6, <1>11, <2>1, <2>2, <2>3
  <1>15. /\ b[gparent] = b[parent] + 1 /\ b[gparent] = Blacks(b, near) + 1
         /\ b[parent] = Blacks(b, node) /\ b[parent] = Blacks(b, tmp)
         /\ b[gparent] \in Nat /\ b[parent] \in Nat /\ Blacks(b, near) \in Nat
    <2>1. Even(h, b, gparent) /\ Even(h, b, parent) BY <1>6, <1>9
    <2>2. Weight(h, gparent) = 1 /\ Weight(h, parent) = 0 BY <1>2, <1>6 DEF Weight
    <2>3. Blacks(b, parent) = b[parent] BY <1>6, <1>7 DEF Blacks
    <2>4. Blacks(b, near) \in Nat /\ Blacks(b, node) \in Nat /\ Blacks(b, tmp) \in Nat /\ b[parent] \in Nat /\ b[gparent] \in Nat
      <3>1. near # NULL => near \in M BY <1>5, <1>6, <1>7, ChildIn
      <3>2. tmp # NULL => tmp \in M BY <1>5, <1>6, <1>7, ChildIn
      <3> QED BY <1>6, <1>9, <3>1, <3>2 DEF Blacks, Counts
    <2>5. b[gparent] = Blacks(b, parent) + 1 BY <1>3, <1>4, <2>1, <2>2, CountAt
    <2>6. b[gparent] = Blacks(b, near) + 1 BY <1>5, <1>7, <2>1, <2>2, CountAt
    <2>7. b[parent] = Blacks(b, node) + 0 BY <1>3, <1>4, <2>1, <2>2, CountAt
    <2>8. b[parent] = Blacks(b, tmp) + 0 BY <1>5, <1>7, <2>1, <2>2, CountAt
    <2> QED BY <2>3, <2>4, <2>5, <2>6, <2>7, <2>8
  <1>16. Even(g, b2, gparent) /\ Calm(g, gparent, NULL)
    <2>1. Weight(g, gparent) = 0 BY <1>14 DEF Weight
    <2>2. Even(g, b2, gparent)
      <3>1. Blacks(b, near) = b[parent] /\ b[parent] = b[parent] + 0 BY <1>15
      <3> QED BY <1>7, <1>10, <1>14, <1>15, <2>1, <3>1 DEF Even
    <2>3. Calm(g, gparent, NULL) BY <1>7, <1>14 DEF Calm
    <2> QED BY <2>2, <2>3
  <1>17. Even(g, b2, parent) /\ Calm(g, parent, NULL)
    <2>1. Weight(g, parent) = 1 /\ Blacks(b2, gparent) = b[parent] BY <1>6, <1>7, <1>10, <1>14 DEF Weight, Blacks
    <2>2. Even(g, b2, parent) BY <1>7, <1>10, <1>14, <1>15, <2>1 DEF Even
    <2>3. Calm(g, parent, NULL) BY <1>14 DEF Calm
    <2> QED BY <2>2, <2>3
  <1>18. ASSUME NEW x \in M \ {gparent, parent} PROVE Even(g, b2, x) /\ Calm(g, x, NULL)
    <2>1. Even(g, b2, x) BY <1>9, <1>13, <1>18 DEF Turned
    <2>2. Calm(h, x, NULL)
      <3>1. ASSUME NEW s \in Sides, h.n[x][s] = node, node # NULL PROVE FALSE
        <4>1. h.n[node].parent = x BY <1>18, <3>1, ChildIn
        <4> QED BY <1>1, <1>18, <4>1
      <3> QED BY <1>7, <1>9, <1>18, <3>1 DEF Calm
    <2>3. Calm(g, x, NULL) BY <1>6, <1>7, <1>13, <1>18, <2>2 DEF Turned
    <2> QED BY <2>1, <2>3
  <1>19. g.ok /\ ~IsRed(g, g.root) BY <1>6, <1>9, <1>13 DEF Turned
  <1>20. Counted(g, M, b2) BY <1>10, <1>16, <1>17, <1>18, <1>19 DEF Counted
  <1> QED BY <1>20 DEF g

\* The links of what is above a rotation
LEMMA RotatedAbove ==
  ASSUME NEW h, NEW g, NEW old \in Nodes, NEW new \in Nodes, NEW side, NEW c, NEW d, Rotated(h, g, old, new, side, c, d),
         h.n[old].parent \in Nodes \ {old, new}, NEW s \in Sides
  PROVE  LET q == h.n[old].parent IN g.n[q][s] = IF h.n[q][s] = old THEN new ELSE h.n[q][s]
  BY DEF Rotated

\* Case 2 makes case 3 of it, with node and parent exchanged.
LEMMA InsertTwisted ==
  ASSUME NEW M, NEW n, NEW p, NEW h, Numbered(M, n, p), IsTree(h, M, n, p), NEW b, NEW node \in M, RedAt(h, M, b, node),
         NEW parent, NEW gparent, NEW side, NEW far, RedUp(h, node, parent, gparent, side, far, far),
         NEW g, IsTree(g, M, n, p), Rotated(h, g, parent, node, far, Red, Black)
  PROVE  RedAt(g, M, b, parent) /\ RedUp(g, parent, node, gparent, side, far, side)
  <1>1. parent = h.n[node].parent /\ gparent = h.n[parent].parent BY DEF RedUp
  <1>2. IsRed(h, parent) /\ ~IsRed(h, h.n[gparent][far]) BY DEF RedUp
  <1>3. side \in Sides /\ far = Other(side) BY DEF RedUp
  <1>4. h.n[gparent][side] = parent /\ h.n[parent][far] = node BY DEF RedUp
  <1>5. PICK tmp, near, last : tmp = h.n[node][side] /\ near = h.n[parent][side] /\ last = h.n[node][far] OBVIOUS
  <1>6. /\ parent \in M /\ parent # node /\ ~IsRed(h, h.root) /\ gparent # NULL
        /\ gparent \in M /\ ~IsRed(h, gparent) /\ gparent \notin {node, parent}
    BY <1>1, <1>2, RedPair
  <1>7. h \in Heap /\ M \in SUBSET Nodes /\ NULL \notin M /\ far \in Sides /\ (\A s \in Sides : s = side \/ s = far)
        /\ far # side /\ Other(far) = side
    BY <1>3, InTree DEF Other, Sides
  <1>8. /\ b \in Counts(M) /\ IsRed(h, node) /\ h.ok
        /\ \A x \in M : Even(h, b, x) /\ Calm(h, x, node)
    BY DEF RedAt
  <1>9. ~IsRed(h, tmp) /\ ~IsRed(h, last) /\ ~IsRed(h, near) /\ near # node
    <2>1. tmp # node /\ last # node BY <1>3, <1>5, <1>7, ChildIn
    <2>2. near # node
      <3>1. node # NULL /\ SideOf(h, node, parent) \in Sides /\ h.n[parent][SideOf(h, node, parent)] = node
            /\ h.n[parent][Other(SideOf(h, node, parent))] # node
        BY <1>1, <1>6, <1>7, ParentSide
      <3>2. SideOf(h, node, parent) = far BY <1>3, <1>4, <3>1 DEF Sides, Other
      <3> QED BY <1>5, <1>7, <3>1, <3>2
    <2>3. Calm(h, node, node) /\ Calm(h, parent, node) BY <1>6, <1>8
    <2>4. ~IsRed(h, tmp) /\ ~IsRed(h, last) BY <1>3, <1>5, <1>7, <1>8, <2>1, <2>3, CalmAt
    <2>5. ~IsRed(h, near) BY <1>2, <1>3, <1>5, <2>2, <2>3, CalmAt
    <2> QED BY <2>2, <2>4, <2>5
  <1>10. tmp # NULL => h.n[tmp].color = Black
    <2>1. tmp # NULL => tmp \in M BY <1>3, <1>5, ChildIn
    <2>2. tmp # NULL => h.n[tmp].color \in {Red, Black} BY <1>7, <2>1 DEF Heap, rb_node
    <2> QED BY <1>9, <2>2 DEF IsRed
  <1>11. PICK k \in Nat : /\ b[parent] = k /\ b[node] = k
                        /\ Blacks(b, near) = k /\ Blacks(b, tmp) = k /\ Blacks(b, last) = k
    <2>1. Even(h, b, node) /\ Even(h, b, parent) BY <1>6, <1>8
    <2>2. Weight(h, node) = 0 /\ Weight(h, parent) = 0 BY <1>2, <1>8 DEF Weight
    <2>3. Blacks(b, node) = b[node] BY <1>7 DEF Blacks
    <2>4. Blacks(b, near) \in Nat /\ Blacks(b, last) \in Nat /\ Blacks(b, tmp) \in Nat /\ b[parent] \in Nat /\ b[node] \in Nat
      <3>1. near # NULL => near \in M BY <1>3, <1>5, <1>6, ChildIn
      <3>2. tmp # NULL => tmp \in M BY <1>3, <1>5, ChildIn
      <3>3. last # NULL => last \in M BY <1>5, <1>7, ChildIn
      <3> QED BY <1>6, <1>8, <3>1, <3>2, <3>3 DEF Blacks, Counts
    <2>5. b[parent] = Blacks(b, node) + 0 BY <1>3, <1>4, <1>7, <2>1, <2>2, CountAt
    <2>6. b[parent] = Blacks(b, near) + 0 BY <1>3, <1>5, <2>1, <2>2, CountAt
    <2>7. b[node] = Blacks(b, tmp) + 0 BY <1>3, <1>5, <2>1, <2>2, CountAt
    <2>8. b[node] = Blacks(b, last) + 0 BY <1>5, <1>7, <2>1, <2>2, CountAt
    <2> QED BY <2>3, <2>4, <2>5, <2>6, <2>7, <2>8
  <1>12. Turned(h, g, M, b, b, parent, node, far, Red)
    <2>1. node # NULL BY <1>7
    <2>2. LET t == h.n[node][Other(far)] IN t # NULL => h.n[t].color = Black BY <1>5, <1>7, <1>10
    <2>3. b[parent] = b[node] BY <1>11
    <2> QED BY <1>4, <1>6, <1>7, <1>8, <2>1, <2>2, <2>3, RotatedCounts
  <1>13. /\ g.n[parent][far] = tmp /\ g.n[parent][side] = near
        /\ g.n[node][side] = parent /\ g.n[node][far] = last
        /\ ~IsRed(g, tmp) /\ ~IsRed(g, near) /\ ~IsRed(g, last)
        /\ IsRed(g, node) /\ IsRed(g, parent) /\ g.ok /\ ~IsRed(g, g.root)
    <2>1. LET rest == (M \cup {NULL}) \ {parent, node}
          IN /\ tmp \in rest /\ near \in rest /\ last \in rest
             /\ g.n[parent][far] = tmp /\ g.n[parent][side] = near
             /\ g.n[node][side] = parent /\ g.n[node][far] = last
             /\ IsRed(g, parent) /\ (IsRed(g, node) <=> IsRed(h, parent))
             /\ g.ok = h.ok /\ (IsRed(g, g.root) <=> IsRed(h, h.root))
             /\ \A z \in rest : IsRed(g, z) <=> IsRed(h, z)
      BY <1>5, <1>7, <1>12 DEF Turned
    <2> QED BY <1>2, <1>6, <1>8, <1>9, <2>1
  <1>14. h.n[gparent][far] \notin {node, parent} /\ (h.n[gparent][far] # NULL => h.n[gparent][far] \in M)
    <2>1. h.n[gparent][far] # node
      <3>1. h.n[gparent][far] = node => h.n[node].parent = gparent BY <1>6, <1>7, ChildIn
      <3> QED BY <1>1, <1>6, <3>1
    <2>2. h.n[gparent][far] # parent
      <3>1. parent # NULL /\ SideOf(h, parent, gparent) \in Sides /\ h.n[gparent][SideOf(h, parent, gparent)] = parent
            /\ h.n[gparent][Other(SideOf(h, parent, gparent))] # parent
        BY <1>1, <1>6, <1>7, ParentSide
      <3>2. SideOf(h, parent, gparent) = side BY <1>3, <1>4, <1>7, <3>1 DEF Sides, Other
      <3> QED BY <1>3, <3>1, <3>2
    <2> QED BY <1>6, <1>7, <2>1, <2>2, ChildIn
  <1>15. Even(g, b, parent) /\ Calm(g, parent, parent)
    <2>1. Weight(g, parent) = 0 BY <1>13 DEF Weight
    <2>2. Even(g, b, parent)
      <3>1. k = k + 0 OBVIOUS
      <3> QED BY <1>7, <1>11, <1>13, <2>1, <3>1 DEF Even
    <2>3. Calm(g, parent, parent) BY <1>7, <1>13 DEF Calm
    <2> QED BY <2>2, <2>3
  <1>16. Even(g, b, node) /\ Calm(g, node, parent)
    <2>1. Weight(g, node) = 0 /\ Blacks(b, parent) = b[parent] BY <1>6, <1>7, <1>13 DEF Weight, Blacks
    <2>2. Even(g, b, node)
      <3>1. k = k + 0 OBVIOUS
      <3> QED BY <1>7, <1>11, <1>13, <2>1, <3>1 DEF Even
    <2>3. Calm(g, node, parent) BY <1>7, <1>13 DEF Calm
    <2> QED BY <2>2, <2>3
  <1>17. ASSUME NEW x \in M \ {parent, node} PROVE Even(g, b, x) /\ Calm(g, x, parent)
    <2>1. Even(g, b, x) BY <1>8, <1>12, <1>17 DEF Turned
    <2>2. Calm(h, x, NULL)
      <3>1. ASSUME NEW s \in Sides, h.n[x][s] = node, node # NULL PROVE FALSE
        <4>1. h.n[node].parent = x BY <1>17, <3>1, ChildIn
        <4> QED BY <1>1, <1>17, <4>1
      <3> QED BY <1>7, <1>8, <1>17, <3>1 DEF Calm
    <2>3. Calm(g, x, NULL) BY <1>6, <1>7, <1>12, <1>17, <2>2 DEF Turned
    <2> QED BY <2>1, <2>3 DEF Calm, IsRed
  <1>18. RedAt(g, M, b, parent) BY <1>8, <1>13, <1>15, <1>16, <1>17 DEF RedAt
  <1>19. g.n[parent].parent = node /\ g.n[node].parent = gparent
    BY <1>1, <1>6, <1>7 DEF Rotated
  <1>20. g.n[gparent][side] = node /\ g.n[gparent][far] = h.n[gparent][far]
    <2>1. parent \in Nodes /\ node \in Nodes /\ gparent \in Nodes BY <1>6, <1>7
    <2>2. parent # node /\ gparent # parent /\ gparent # node /\ gparent = h.n[parent].parent BY <1>1, <1>6
    <2>3. ASSUME NEW s \in Sides
          PROVE  g.n[gparent][s] = IF h.n[gparent][s] = parent THEN node ELSE h.n[gparent][s]
      BY <2>1, <2>2, RotatedAbove
    <2> QED BY <1>3, <1>4, <1>7, <1>14, <2>3
  <1>21. ~IsRed(g, g.n[gparent][far])
    <2>1. h.n[gparent][far] \in (M \cup {NULL}) \ {parent, node} BY <1>14
    <2> QED BY <1>2, <1>12, <1>20, <2>1 DEF Turned
  <1>22. RedUp(g, parent, node, gparent, side, far, side) BY <1>2, <1>3, <1>13, <1>19, <1>20, <1>21 DEF RedUp
  <1> QED BY <1>13, <1>18, <1>22

\* A parent has more members below it than its child.
LEMMA Grows ==
  ASSUME NEW M, NEW n, NEW p, NEW lo, NEW hi, NEW h, Numbered(M, n, p), Tree(h, M, n, p, lo, hi),
         NEW x \in M, h.n[x].parent # NULL
  PROVE  h.n[x].parent \in M /\ hi[h.n[x].parent] - lo[h.n[x].parent] > hi[x] - lo[x]
  <1> DEFINE q == h.n[x].parent
  <1>1. q \in M /\ x \in {h.n[q].left, h.n[q].right} /\ x # NULL
    BY Numbers, TreeAssumption DEF Hangs
  <1>2. /\ lo[q] \in Int /\ hi[q] \in Int /\ p[q] \in Int /\ lo[x] \in Int /\ hi[x] \in Int
        /\ lo[q] <= p[q] /\ p[q] <= hi[q] /\ Below(h, M, p, lo, hi, q)
    BY <1>1, Numbers
  <1> HIDE DEF q
  <1>3. (lo[x] = lo[q] /\ hi[x] = p[q] - 1) \/ (hi[x] = hi[q] /\ lo[x] = p[q] + 1)
    BY <1>1, <1>2 DEF Below
  <1>4. hi[q] - lo[q] > hi[x] - lo[x] BY <1>2, <1>3
  <1> QED BY <1>1, <1>4 DEF q

LEMMA InsertTurnCounts ==
  ASSUME NEW M, NEW n, NEW p, NEW lo, NEW hi, NEW h, Numbered(M, n, p), Tree(h, M, n, p, lo, hi),
         NEW b, NEW node \in M, RedAt(h, M, b, node), InsertTurn(h, node) # NULL
  PROVE  LET t == InsertTurn(h, node)
         IN /\ t.node \in M /\ Tree(t.h, M, n, p, lo, hi)
            /\ \E b2 : RedAt(t.h, M, b2, t.node)
            /\ hi[t.node] - lo[t.node] > hi[node] - lo[node]
  <1>1. PICK parent : parent = h.n[node].parent OBVIOUS
  <1>2. PICK gparent : gparent = h.n[parent].parent OBVIOUS
  <1>3. PICK uncle : uncle = Uncle(h, parent, gparent) OBVIOUS
  <1> DEFINE h1 == rb_set_parent_color(h, uncle, gparent, Black)
             h2 == rb_set_parent_color(h1, parent, gparent, Black)
             h3 == Set(h2, gparent, "color", Red)
             b2 == [b EXCEPT ![parent] = @ + 1, ![uncle] = @ + 1]
             side == SideOf(h, parent, gparent)
             far == Other(side)
  <1>4. IsTree(h, M, n, p) BY DEF IsTree
  <1>5. InsertTurn(h, node) = IF IsRed(h, parent) /\ gparent # NULL /\ IsRed(h, uncle)
                              THEN [h |-> h3, node |-> gparent] ELSE NULL
    BY <1>1, <1>2, <1>3 DEF InsertTurn
  <1>6. IsRed(h, parent) /\ IsRed(h, uncle) BY <1>5
  <1>7. /\ parent \in M /\ parent # node /\ ~IsRed(h, h.root) /\ gparent # NULL
        /\ gparent \in M /\ ~IsRed(h, gparent) /\ gparent \notin {node, parent}
    BY <1>4, <1>1, <1>2, <1>6, RedPair
  <1>8. /\ h \in Heap /\ M \in SUBSET Nodes /\ NULL \notin M /\ side \in Sides /\ far \in Sides
        /\ (\A s \in Sides : s = side \/ s = far)
        /\ h.n[gparent][side] = parent /\ h.n[gparent][far] # parent /\ h.n[gparent][far] = uncle
    <2>1. side \in Sides /\ h.n[gparent][side] = parent /\ h.n[gparent][far] # parent
      BY <1>4, <1>2, <1>7, ParentSide
    <2>2. h.n[gparent][far] = uncle BY <1>3 DEF Uncle
    <2>3. h \in Heap /\ M \in SUBSET Nodes /\ NULL \notin M BY <1>4, InTree
    <2> QED BY <2>1, <2>2, <2>3 DEF Sides, Other
  <1> HIDE DEF side, far
  <1>9. uncle \in M /\ h.n[uncle].parent = gparent /\ uncle # gparent /\ uncle # parent /\ uncle # NULL
    <2>1. uncle # NULL BY <1>6 DEF IsRed
    <2> QED BY <1>4, <1>7, <1>8, <2>1, ChildIn
  <1>10. /\ PcSet(h, h1, uncle, gparent, Black) /\ PcSet(h1, h2, parent, gparent, Black)
        /\ h2 \in Heap
    <2>1. uncle \in Nodes /\ parent \in Nodes /\ gparent \in Pointer BY <1>7, <1>8, <1>9 DEF Pointer
    <2>2. PcSet(h, h1, uncle, gparent, Black) BY <1>8, <2>1, PcIs
    <2>3. h1 \in Heap BY <2>2 DEF PcSet
    <2> HIDE DEF h1
    <2>4. PcSet(h1, h2, parent, gparent, Black) BY <2>1, <2>3, PcIs
    <2> HIDE DEF h2
    <2> QED BY <2>2, <2>4 DEF PcSet
  <1> HIDE DEF h1, h2
  <1>11. PICK g : g = h3 OBVIOUS
  <1>12. /\ g \in Heap /\ g.root = h2.root /\ g.ok = h2.ok
         /\ \A y \in Nodes : /\ g.n[y].parent = h2.n[y].parent
                             /\ g.n[y].color = IF y = gparent THEN Red ELSE h2.n[y].color
                             /\ \A s \in Sides : g.n[y][s] = h2.n[y][s]
    <2>1. h3 \in Heap BY <1>10, ColorTyped
    <2> QED BY <1>10, <1>11, <2>1 DEF Set, Heap, rb_node, Sides
  <1>13. /\ g \in Heap /\ g.root = h.root /\ g.ok = h.ok
         /\ \A y \in Nodes : /\ g.n[y].parent = h.n[y].parent
                             /\ g.n[y].color = IF y = gparent THEN Red ELSE IF y = parent \/ y = uncle THEN Black ELSE h.n[y].color
         /\ \A y \in Nodes : \A s \in Sides : g.n[y][s] = h.n[y][s]
    BY <1>2, <1>7, <1>8, <1>9, <1>10, <1>12 DEF PcSet
  <1> HIDE DEF h3
  <1>14. Tree(g, M, n, p, lo, hi)
    <2>1. SameLinks(h, g) BY <1>13 DEF SameLinks
    <2> QED BY <2>1, SameTree
  <1>15. hi[gparent] - lo[gparent] > hi[node] - lo[node]
    <2>1. hi[parent] - lo[parent] > hi[node] - lo[node] BY <1>1, <1>7, <1>8, Grows
    <2>2. hi[gparent] - lo[gparent] > hi[parent] - lo[parent] BY <1>2, <1>7, Grows
    <2>3. \A x \in M : hi[x] \in Int /\ lo[x] \in Int BY Numbers
    <2> QED BY <1>7, <2>1, <2>2, <2>3
  <1>16. /\ b \in Counts(M) /\ h.ok
         /\ \A x \in M : Even(h, b, x) /\ Calm(h, x, node)
    BY DEF RedAt
  <1>17. /\ b2 \in Counts(M) /\ b2[parent] = b[parent] + 1 /\ b2[uncle] = b[uncle] + 1
         /\ \A x \in M \ {parent, uncle} : b2[x] = b[x]
    BY <1>7, <1>9, <1>16 DEF Counts
  <1> HIDE DEF b2
  <1>18. /\ \A z : z \notin {gparent, parent, uncle} /\ (z # NULL => z \in M) => (IsRed(g, z) <=> IsRed(h, z))
         /\ IsRed(g, gparent) /\ ~IsRed(g, parent) /\ ~IsRed(g, uncle)
    <2>1. Red # Black BY DEF Red, Black
    <2> QED BY <1>7, <1>8, <1>9, <1>13, <2>1 DEF IsRed
  <1>19. \A x \in M : \A s \in Sides : g.n[x][s] = h.n[x][s] /\ (h.n[x][s] # NULL => h.n[x][s] \in M /\ h.n[h.n[x][s]].parent = x)
    BY <1>4, <1>8, <1>13, ChildIn
  <1>20. \A x \in M : b[x] \in Nat /\ \A s \in Sides : Blacks(b, h.n[x][s]) \in Nat
    BY <1>16, <1>19 DEF Blacks, Counts
  <1>21. ASSUME NEW x \in {parent, uncle} PROVE Even(g, b2, x) /\ Calm(g, x, gparent)
    <2>1. x \in M /\ b2[x] = b[x] + 1 /\ IsRed(h, x) /\ ~IsRed(g, x) BY <1>6, <1>7, <1>9, <1>17, <1>18
    <2>2. \A s \in Sides : Blacks(b2, h.n[x][s]) = Blacks(b, h.n[x][s])
      <3>1. ASSUME NEW s \in Sides, h.n[x][s] # NULL PROVE h.n[x][s] \notin {parent, uncle}
        BY <1>2, <1>7, <1>9, <1>19, <2>1, <3>1
      <3> QED BY <1>17, <1>19, <2>1, <3>1 DEF Blacks
    <2>3. Weight(h, x) = 0 /\ Weight(g, x) = 1 BY <2>1 DEF Weight
    <2>4. ASSUME NEW s \in Sides PROVE b2[x] = Blacks(b2, g.n[x][s]) + Weight(g, x)
      <3>1. b[x] = Blacks(b, h.n[x][s]) + 0 BY <1>16, <2>1, <2>3 DEF Even
      <3>2. Blacks(b2, g.n[x][s]) = Blacks(b, h.n[x][s]) /\ Blacks(b, h.n[x][s]) \in Nat BY <1>19, <1>20, <2>1, <2>2
      <3> QED BY <2>1, <2>3, <3>1, <3>2
    <2> QED BY <2>1, <2>4 DEF Even, Calm
  <1>22. Even(g, b2, gparent) /\ Calm(g, gparent, gparent)
    <2>1. b2[gparent] = b[gparent] BY <1>7, <1>9, <1>17
    <2>2. Weight(h, gparent) = 1 /\ Weight(g, gparent) = 0 BY <1>7, <1>18 DEF Weight
    <2>3. Blacks(b2, parent) = b[parent] + 1 /\ Blacks(b2, uncle) = b[uncle] + 1 /\ Blacks(b, parent) = b[parent] /\ Blacks(b, uncle) = b[uncle]
      BY <1>7, <1>8, <1>9, <1>17 DEF Blacks
    <2>4. ASSUME NEW s \in Sides PROVE b2[gparent] = Blacks(b2, g.n[gparent][s]) + Weight(g, gparent)
      <3>1. PICK z \in {parent, uncle} : g.n[gparent][s] = z /\ h.n[gparent][s] = z BY <1>7, <1>8, <1>19
      <3>2. b[gparent] = b[z] + 1 /\ b[z] \in Nat BY <1>7, <1>9, <1>16, <1>20, <2>2, <2>3, <3>1 DEF Even
      <3>3. Blacks(b2, z) = b[z] + 1 BY <2>3, <3>1
      <3> QED BY <2>1, <2>2, <3>1, <3>2, <3>3
    <2>5. Calm(g, gparent, gparent) BY <1>7, <1>8, <1>18, <1>19 DEF Calm
    <2> QED BY <2>4, <2>5 DEF Even
  <1>23. ASSUME NEW x \in M \ {gparent, parent, uncle} PROVE Even(g, b2, x) /\ Calm(g, x, gparent)
    <2>1. b2[x] = b[x] /\ (IsRed(g, x) <=> IsRed(h, x)) BY <1>8, <1>17, <1>18, <1>23
    <2>2. \A s \in Sides : h.n[x][s] \notin {parent, uncle} BY <1>2, <1>7, <1>9, <1>19, <1>23, <1>8
    <2>3. \A s \in Sides : Blacks(b2, g.n[x][s]) = Blacks(b, h.n[x][s]) BY <1>17, <1>19, <1>23, <2>2 DEF Blacks
    <2>4. Even(g, b2, x) BY <1>16, <1>23, <2>1, <2>3 DEF Even, Weight
    <2>5. ASSUME IsRed(g, x), NEW s \in Sides, g.n[x][s] # gparent PROVE ~IsRed(g, g.n[x][s])
      <3>1. h.n[x][s] # node BY <1>1, <1>8, <1>19, <1>23
      <3>2. ~IsRed(h, h.n[x][s]) BY <1>16, <1>23, <2>1, <2>5, <3>1 DEF Calm
      <3> QED BY <1>18, <1>19, <1>23, <2>2, <2>5, <3>2
    <2> QED BY <2>4, <2>5 DEF Calm
  <1>24. IsRed(g, g.root) => g.root = gparent
    <2>1. g.root = h.root /\ (h.root # NULL => h.root \in M /\ h.n[h.root].parent = NULL) BY <1>13 DEF Tree, Rooted
    <2>2. h.root \notin {parent, uncle} BY <1>2, <1>7, <1>8, <1>9, <2>1
    <2> QED BY <1>7, <1>18, <2>1, <2>2
  <1>25. RedAt(g, M, b2, gparent)
    <2>1. \A x \in M : Even(g, b2, x) /\ Calm(g, x, gparent) BY <1>21, <1>22, <1>23
    <2> QED BY <1>13, <1>16, <1>17, <1>18, <1>24, <2>1 DEF RedAt
  <1>26. InsertTurn(h, node).h = g /\ InsertTurn(h, node).node = gparent BY <1>5, <1>11
  <1> QED BY <1>7, <1>14, <1>15, <1>25, <1>26

LEMMA InsertEndCounts ==
  ASSUME NEW M, NEW n, NEW p, NEW h, Numbered(M, n, p), IsTree(h, M, n, p),
         NEW b, NEW node \in M, RedAt(h, M, b, node), InsertTurn(h, node) = NULL
  PROVE  \E b2 : Counted(InsertEnd(h, node), M, b2)
  <1>1. PICK parent : parent = h.n[node].parent OBVIOUS
  <1>2. PICK gparent : gparent = h.n[parent].parent OBVIOUS
  <1>3. /\ b \in Counts(M) /\ IsRed(h, node) /\ h.ok /\ (IsRed(h, h.root) => h.root = node)
        /\ \A x \in M : Even(h, b, x) /\ Calm(h, x, node)
    BY DEF RedAt
  <1>4. h \in Heap /\ M \in SUBSET Nodes /\ NULL \notin M /\ NULL \in Pointer BY InTree DEF Pointer
  <1>5. \A x \in M : \A s \in Sides : h.n[x][s] # NULL => h.n[x][s] \in M /\ h.n[h.n[x][s]].parent = x BY ChildIn
  <1>6. CASE parent = NULL
    <2>1. PICK g : g = rb_set_parent_color(h, node, NULL, Black) OBVIOUS
    <2>2. InsertEnd(h, node) = g BY <1>1, <1>6, <2>1 DEF InsertEnd
    <2>3. PcSet(h, g, node, NULL, Black) BY <1>4, <2>1, PcIs
    <2> DEFINE b2 == [b EXCEPT ![node] = @ + 1]
    <2>4. b2 \in Counts(M) /\ b2[node] = b[node] + 1 /\ \A x \in M \ {node} : b2[x] = b[x] BY <1>3 DEF Counts
    <2> HIDE DEF b2
    <2>5. node = h.root
      <3>1. PICK lo, hi : Tree(h, M, n, p, lo, hi) BY DEF IsTree
      <3>2. Hangs(h, M, node) BY <3>1 DEF Tree
      <3> QED BY <1>1, <1>6, <3>2 DEF Hangs
    <2>6. /\ ~IsRed(g, node) /\ g.ok
          /\ \A x \in M : x # node => (IsRed(g, x) <=> IsRed(h, x))
          /\ ~IsRed(g, NULL) /\ ~IsRed(h, NULL)
          /\ \A x \in M : \A s \in Sides : g.n[x][s] = h.n[x][s] /\ h.n[x][s] # node
      <3>1. Red # Black BY DEF Red, Black
      <3>2. ASSUME NEW x \in M, NEW s \in Sides PROVE h.n[x][s] # node
        <4>1. h.n[x][s] = node => h.n[node].parent = x BY <1>4, <1>5
        <4> QED BY <1>1, <1>4, <1>6, <4>1
      <3> QED BY <1>3, <1>4, <2>3, <3>1, <3>2 DEF PcSet, IsRed
    <2>7. ~IsRed(g, g.root) BY <2>3, <2>5, <2>6 DEF PcSet
    <2>8. \A x \in M : \A s \in Sides : Blacks(b2, g.n[x][s]) = Blacks(b, h.n[x][s]) /\ Blacks(b, h.n[x][s]) \in Nat
      BY <1>3, <1>5, <2>4, <2>6 DEF Blacks, Counts
    <2>9. ASSUME NEW x \in M PROVE Even(g, b2, x)
      <3>1. CASE x = node
        <4>1. Weight(h, x) = 0 /\ Weight(g, x) = 1 BY <1>3, <2>6, <3>1 DEF Weight
        <4>2. ASSUME NEW s \in Sides PROVE b2[x] = Blacks(b2, g.n[x][s]) + Weight(g, x)
          <5>1. b[x] = Blacks(b, h.n[x][s]) + 0 BY <1>3, <4>1 DEF Even
          <5> QED BY <2>4, <2>8, <3>1, <4>1, <5>1
        <4> QED BY <4>2 DEF Even
      <3>2. CASE x # node BY <1>3, <2>4, <2>6, <2>8, <3>2 DEF Even, Weight
      <3> QED BY <3>1, <3>2
    <2>10. ASSUME NEW x \in M PROVE Calm(g, x, NULL)
      <3>1. ASSUME IsRed(g, x), NEW s \in Sides PROVE ~IsRed(g, g.n[x][s])
        <4>1. x # node /\ IsRed(h, x) /\ g.n[x][s] = h.n[x][s] /\ h.n[x][s] # node BY <2>6, <3>1
        <4>2. ~IsRed(h, h.n[x][s]) BY <1>3, <3>1, <4>1 DEF Calm
        <4> QED BY <1>5, <2>6, <4>1, <4>2
      <3> QED BY <3>1 DEF Calm
    <2>11. Counted(g, M, b2) BY <2>4, <2>6, <2>7, <2>9, <2>10 DEF Counted
    <2> QED BY <2>2, <2>11
  <1>7. CASE parent # NULL /\ ~IsRed(h, parent)
    <2>1. InsertEnd(h, node) = h BY <1>1, <1>7 DEF InsertEnd
    <2>2. ~IsRed(h, h.root)
      <3>1. PICK lo, hi : Tree(h, M, n, p, lo, hi) BY DEF IsTree
      <3>2. h.root # NULL => h.n[h.root].parent = NULL BY <3>1 DEF Tree, Rooted
      <3> QED BY <1>1, <1>3, <1>7, <3>2 DEF IsRed
    <2>3. ASSUME NEW x \in M PROVE Calm(h, x, NULL)
      <3>1. ASSUME NEW s \in Sides, IsRed(h, x) PROVE ~IsRed(h, h.n[x][s])
        <4>1. h.n[x][s] = node => x = parent BY <1>1, <1>4, <1>5
        <4> QED BY <1>3, <1>7, <3>1, <4>1 DEF Calm
      <3> QED BY <3>1 DEF Calm
    <2>4. Counted(h, M, b) BY <1>3, <2>2, <2>3 DEF Counted
    <2> QED BY <2>1, <2>4
  <1>8. CASE IsRed(h, parent)
    <2>1. /\ parent \in M /\ parent # node /\ ~IsRed(h, h.root) /\ gparent # NULL
          /\ gparent \in M /\ ~IsRed(h, gparent) /\ gparent \notin {node, parent}
      BY <1>1, <1>2, <1>8, RedPair
    <2>2. PICK side : side = SideOf(h, parent, gparent) OBVIOUS
    <2>3. side \in Sides /\ Other(side) \in Sides /\ h.n[gparent][side] = parent BY <1>2, <2>1, <2>2, ParentSide, SideIs
    <2>4. PICK twice : twice = Rotate(h, parent, node, Other(side), Red, Black) OBVIOUS
    <2>5. parent # NULL BY <1>4, <2>1
    <2>6. InsertEnd(h, node) = IF node = h.n[parent][Other(side)]
                               THEN Rotate(twice, gparent, node, side, Red, Black)
                               ELSE Rotate(h, gparent, parent, side, Red, Black)
      BY <1>1, <1>2, <1>8, <2>1, <2>2, <2>4, <2>5 DEF InsertEnd
    <2>7. ~IsRed(h, h.n[gparent][Other(side)])
      <3>1. PICK uncle : uncle = Uncle(h, parent, gparent) OBVIOUS
      <3>2. uncle = h.n[gparent][Other(side)] BY <2>2, <3>1 DEF Uncle
      <3>3. InsertTurn(h, node) \in IF IsRed(h, parent) /\ gparent # NULL /\ IsRed(h, uncle)
                                    THEN [h : Heap, node : Nodes] ELSE {NULL}
        BY <1>1, <1>2, <1>4, <3>1, InsertTurnIs
      <3> QED BY <1>8, <2>1, <3>2, <3>3, LoopAssumption
    <2>8. CASE node = h.n[parent][Other(side)]
      <3>1. h.n[parent][Other(side)] = node /\ node # NULL BY <1>4, <2>8
      <3>2. IsTree(twice, M, n, p) /\ Rotated(h, twice, parent, node, Other(side), Red, Black)
        BY <2>1, <2>3, <2>4, <3>1, RotateTree
      <3>3. RedUp(h, node, parent, gparent, side, Other(side), Other(side))
        BY <1>1, <1>2, <1>8, <2>3, <2>7, <3>1 DEF RedUp
      <3>4. RedAt(twice, M, b, parent) /\ RedUp(twice, parent, node, gparent, side, Other(side), side)
        BY <3>1, <3>2, <3>3, InsertTwisted
      <3>5. \E b2 : Counted(Rotate(twice, gparent, node, side, Red, Black), M, b2)
        BY <2>1, <3>2, <3>4, InsertRotated
      <3> QED BY <2>6, <2>8, <3>5
    <2>9. CASE node # h.n[parent][Other(side)]
      <3>1. h.n[parent][side] = node
        <4>1. SideOf(h, node, parent) \in Sides /\ h.n[parent][SideOf(h, node, parent)] = node BY <1>1, <2>5, ParentSide
        <4> QED BY <2>3, <2>9, <4>1 DEF Sides, Other
      <3>2. RedUp(h, node, parent, gparent, side, Other(side), side)
        BY <1>1, <1>2, <1>8, <2>3, <2>7, <3>1 DEF RedUp
      <3>3. \E b2 : Counted(Rotate(h, gparent, parent, side, Red, Black), M, b2)
        BY <3>2, InsertRotated
      <3> QED BY <2>6, <2>9, <3>3
    <2> QED BY <2>8, <2>9
  <1> QED BY <1>6, <1>7, <1>8

\* rb_insert_color makes a red-black tree of one whose new node is red.
LEMMA InsertCounts ==
  ASSUME NEW M, NEW n, NEW p, NEW h, Numbered(M, n, p), IsTree(h, M, n, p), NEW b, NEW node \in M, RedAt(h, M, b, node)
  PROVE  \E b2 : Counted(rb_insert_color(h, node), M, b2)
  <1>1. PICK lo, hi : Tree(h, M, n, p, lo, hi) BY DEF IsTree
  <1> DEFINE D == [h : Heap, node : Nodes]
             f == [s \in D |-> InsertTurn(s.h, s.node)]
             S == {s \in D : s.node \in M /\ Tree(s.h, M, n, p, lo, hi) /\ \E b2 : RedAt(s.h, M, b2, s.node)}
             m == [s \in S |-> n - (hi[s.node] - lo[s.node])]
             s0 == [h |-> h, node |-> node]
             end == Loop(f, s0)
  <1>2. f \in [D -> D \cup {NULL}] BY InsertTurnTyped
  <1>3. s0 \in S BY <1>1, InTree
  <1>4. \A x \in M : lo[x] \in Int /\ hi[x] \in Int /\ 1 <= lo[x] /\ lo[x] <= hi[x] /\ hi[x] <= n /\ n \in Nat
    <2>1. ASSUME NEW x \in M PROVE lo[x] \in Int /\ hi[x] \in Int /\ 1 <= lo[x] /\ lo[x] <= hi[x] /\ hi[x] <= n /\ n \in Nat
      <3>1. /\ n \in Nat /\ lo[x] \in Int /\ hi[x] \in Int /\ p[x] \in Int
            /\ 1 <= lo[x] /\ lo[x] <= p[x] /\ p[x] <= hi[x] /\ hi[x] <= n
        BY <1>1, Numbers
      <3> QED BY <3>1
    <2> QED BY <2>1
  <1>5. ASSUME NEW s \in S PROVE f[s] = NULL \/ (f[s] \in S /\ m[f[s]] < m[s])
    <2>1. s \in D /\ s.node \in M /\ Tree(s.h, M, n, p, lo, hi) /\ (\E b2 : RedAt(s.h, M, b2, s.node)) /\ f[s] = InsertTurn(s.h, s.node)
      OBVIOUS
    <2>2. f[s] # NULL => /\ f[s].node \in M /\ Tree(f[s].h, M, n, p, lo, hi)
                         /\ \E b2 : RedAt(f[s].h, M, b2, f[s].node)
                         /\ hi[f[s].node] - lo[f[s].node] > hi[s.node] - lo[s.node]
      BY <2>1, InsertTurnCounts
    <2> HIDE DEF f, D
    <2>3. f[s] # NULL => f[s] \in S BY <1>2, <2>1, <2>2
    <2>4. ASSUME f[s] # NULL PROVE m[f[s]] < m[s]
      <3>1. m[f[s]] = n - (hi[f[s].node] - lo[f[s].node]) /\ m[s] = n - (hi[s.node] - lo[s.node]) BY <2>3, <2>4
      <3> QED BY <1>4, <2>1, <2>2, <2>4, <3>1
    <2> QED BY <2>3, <2>4
  <1>6. m \in [S -> Nat] /\ m[s0] <= Cardinality(Nodes)
    <2>1. ASSUME NEW s \in S PROVE m[s] \in Nat /\ m[s] <= n BY <1>4
    <2>2. n <= Cardinality(Nodes) /\ Cardinality(Nodes) \in Nat /\ n \in Nat BY Bounded
    <2>3. m[s0] \in Nat /\ m[s0] <= n BY <1>3, <2>1
    <2>4. m = [s \in S |-> m[s]] OBVIOUS
    <2> HIDE DEF m, S, s0
    <2> QED BY <2>1, <2>2, <2>3, <2>4
  <1>7. S \in SUBSET D OBVIOUS
  <1>8. end \in S /\ f[end] = NULL
    <2> HIDE DEF D, S, f, s0, m
    <2> QED BY <1>2, <1>3, <1>5, <1>6, <1>7, LoopStays, LoopEnds
  <1>9. rb_insert_color(h, node) = InsertEnd(end.h, end.node) BY DEF rb_insert_color
  <1>10. PICK e : e = end OBVIOUS
  <1>11. e.node \in M /\ Tree(e.h, M, n, p, lo, hi) /\ (\E b2 : RedAt(e.h, M, b2, e.node)) /\ InsertTurn(e.h, e.node) = NULL
    <2>1. e \in S /\ e \in D /\ f[e] = NULL BY <1>7, <1>8, <1>10
    <2> HIDE DEF end
    <2> QED BY <2>1
  <1> HIDE DEF end
  <1>12. IsTree(e.h, M, n, p) BY <1>11 DEF IsTree
  <1> QED BY <1>9, <1>10, <1>11, <1>12, InsertEndCounts

\* A new node is red.
LEMMA LinkCounts ==
  ASSUME NEW M, NEW n, NEW p, NEW h, Numbered(M, n, p), IsTree(h, M, n, p), NEW b, Counted(h, M, b),
         NEW t \in Nodes, t \notin M, NEW k \in 0 .. n, NEW parent, NEW side, FreePlace(h, M, n, p, k, parent, side)
  PROVE  \E b2 : RedAt(rb_link_node(h, t, parent, side), M \cup {t}, b2, t)
  <1>1. PICK g : g = rb_link_node(h, t, parent, side) OBVIOUS
  <1>2. h \in Heap /\ M \in SUBSET Nodes /\ NULL \notin M /\ NULL \notin Nodes BY InTree, TreeAssumption
  <1>3. /\ side \in Sides /\ (parent = NULL => M = {})
        /\ parent # NULL => parent \in M /\ h.n[parent][side] = NULL
    BY DEF FreePlace
  <1>4. Linking(h, g, t, parent, side)
    <2>1. parent \in Pointer /\ parent # t BY <1>2, <1>3 DEF Pointer
    <2> QED BY <1>1, <1>2, <1>3, <2>1, LinkIs
  <1>5. /\ h.ok /\ b \in Counts(M) /\ ~IsRed(h, h.root)
        /\ \A x \in M : Even(h, b, x) /\ Calm(h, x, NULL)
    BY DEF Counted
  <1> DEFINE M2 == M \cup {t}
             b2 == [x \in M2 |-> IF x = t THEN 1 ELSE b[x]]
  <1>6. b2 \in Counts(M2) /\ b2[t] = 1 /\ \A x \in M : b2[x] = b[x] BY <1>5 DEF Counts
  <1> HIDE DEF b2
  <1>7. /\ IsRed(g, t) /\ (\A x : x # t /\ (x # NULL => x \in M) => (IsRed(g, x) <=> IsRed(h, x)))
        /\ \A s \in Sides : g.n[t][s] = NULL
        /\ g.ok /\ g.root = IF parent = NULL THEN t ELSE h.root
    <2>1. g.n[t]["left"] = NULL /\ g.n[t]["right"] = NULL BY <1>4 DEF Linking
    <2>2. \A s \in Sides : g.n[t][s] = NULL BY <2>1 DEF Sides
    <2>3. IsRed(g, t) BY <1>2, <1>4 DEF Linking, IsRed
    <2> QED BY <1>2, <1>4, <1>5, <2>2, <2>3 DEF Linking, IsRed
  <1>8. \A x \in M : \A s \in Sides : /\ g.n[x][s] = IF x = parent /\ s = side THEN t ELSE h.n[x][s]
                                      /\ h.n[x][s] # t /\ (h.n[x][s] # NULL => h.n[x][s] \in M)
    BY <1>2, <1>4, ChildIn DEF Linking
  <1>9. ASSUME NEW x \in M PROVE Even(g, b2, x) /\ Calm(g, x, t)
    <2>1. b2[x] = b[x] /\ (IsRed(g, x) <=> IsRed(h, x)) BY <1>6, <1>7
    <2>2. \A s \in Sides : Blacks(b2, g.n[x][s]) = Blacks(b, h.n[x][s]) BY <1>2, <1>3, <1>6, <1>8 DEF Blacks
    <2>3. Even(g, b2, x) BY <1>5, <2>1, <2>2 DEF Even, Weight
    <2>4. ASSUME IsRed(g, x), NEW s \in Sides, g.n[x][s] # t PROVE ~IsRed(g, g.n[x][s])
      <3>1. g.n[x][s] = h.n[x][s] /\ h.n[x][s] # t BY <1>8, <2>4
      <3>2. h.n[x][s] # NULL => ~IsRed(h, h.n[x][s]) BY <1>5, <2>1, <2>4 DEF Calm
      <3> QED BY <1>7, <1>8, <3>1, <3>2 DEF IsRed
    <2> QED BY <2>3, <2>4 DEF Calm
  <1>10. Even(g, b2, t) /\ Calm(g, t, t)
    <2>1. Weight(g, t) = 0 /\ Blacks(b2, NULL) = 1 BY <1>7 DEF Weight, Blacks
    <2>2. ~IsRed(g, NULL) BY DEF IsRed
    <2> QED BY <1>6, <1>7, <2>1, <2>2 DEF Even, Calm
  <1>11. IsRed(g, g.root) => g.root = t
    <2>1. CASE parent = NULL BY <1>7, <2>1
    <2>2. CASE parent # NULL
      <3>1. PICK lo, hi : Tree(h, M, n, p, lo, hi) BY DEF IsTree
      <3>2. h.root # NULL => h.root \in M BY <3>1 DEF Tree, Rooted
      <3> QED BY <1>5, <1>7, <2>2, <3>2 DEF IsRed
    <2> QED BY <2>1, <2>2
  <1>12. RedAt(g, M2, b2, t) BY <1>6, <1>7, <1>9, <1>10, <1>11 DEF RedAt
  <1> QED BY <1>1, <1>12

\* An insertion keeps a red-black tree.
LEMMA InsertedCounts ==
  ASSUME NEW M, NEW n, NEW p, NEW h, Numbered(M, n, p), IsTree(h, M, n, p), \E b : Counted(h, M, b),
         NEW t \in Nodes, t \notin M, NEW k \in 0 .. n, NEW parent, NEW side, FreePlace(h, M, n, p, k, parent, side)
  PROVE  \E b2 : Counted(rb_insert_color(rb_link_node(h, t, parent, side), t), M \cup {t}, b2)
  <1> DEFINE g == rb_link_node(h, t, parent, side)
             M2 == M \cup {t}
             p2 == Shifted(M, p, t, k)
  <1>1. IsTree(g, M2, n + 1, p2) BY LinkTree
  <1>2. Numbered(M2, n + 1, p2) BY ShiftedNumbers
  <1>3. \E b2 : RedAt(g, M2, b2, t) BY LinkCounts
  <1>4. t \in M2 OBVIOUS
  <1> HIDE DEF g, M2, p2
  <1>5. \E b2 : Counted(rb_insert_color(g, t), M2, b2) BY <1>1, <1>2, <1>3, <1>4, InsertCounts
  <1> QED BY <1>5 DEF g, M2

(* Erasure *)

LEMMA SideFound ==
  ASSUME NEW h, NEW x, NEW side \in Sides, NEW node, h.n[x][side] = node, h.n[x][Other(side)] # node
  PROVE  SideOf(h, node, x) = side
  BY DEF SideOf, Other, Sides

\* There is a sibling, and what its count is
LEMMA ShortIs ==
  ASSUME NEW M, NEW n, NEW p, NEW h, Numbered(M, n, p), IsTree(h, M, n, p), NEW parent \in M, NEW node,
         NEW b, ShortAt(h, M, b, node, parent),
         NEW side, side = SideOf(h, node, parent), NEW sibling, sibling = h.n[parent][Other(side)]
  PROVE  /\ side \in Sides /\ Other(side) \in Sides /\ side # Other(side) /\ Other(Other(side)) = side
         /\ \A s \in Sides : s = side \/ s = Other(side)
         /\ h.n[parent][side] = node
         /\ node # NULL => node \in M /\ h.n[node].parent = parent
         /\ sibling # NULL /\ sibling \in M /\ h.n[sibling].parent = parent
         /\ sibling # node /\ sibling # parent /\ node # parent
         /\ \E k \in Nat \ {0} : /\ Blacks(b, node) = k /\ b[sibling] = k + 1 /\ Blacks(b, sibling) = k + 1
                                 /\ b[parent] = k + 1 + Weight(h, parent)
  <1>1. /\ side \in Sides /\ Other(side) \in Sides /\ side # Other(side) /\ Other(Other(side)) = side
        /\ \A s \in Sides : s = side \/ s = Other(side)
    BY SideIs DEF Sides, Other
  <1>2. /\ b \in Counts(M) /\ h.n[parent][side] = node
        /\ b[parent] = Blacks(b, node) + 1 + Weight(h, parent)
        /\ b[parent] = Blacks(b, sibling) + Weight(h, parent)
    BY DEF ShortAt
  <1>3. NULL \notin M /\ parent # NULL BY InTree
  <1>4. node # NULL => node \in M /\ h.n[node].parent = parent /\ node # parent BY <1>1, <1>2, ChildIn
  <1>5. sibling # NULL => sibling \in M /\ h.n[sibling].parent = parent /\ sibling # parent BY <1>1, ChildIn
  <1>6. PICK k \in Nat \ {0} : Blacks(b, node) = k BY <1>2, <1>4 DEF Blacks, Counts
  <1>7. Blacks(b, sibling) \in Nat BY <1>2, <1>5 DEF Blacks, Counts
  <1>8. Weight(h, parent) \in {0, 1} BY DEF Weight
  <1>9. Blacks(b, sibling) = k + 1 BY <1>2, <1>6, <1>7, <1>8
  <1>10. sibling # NULL /\ sibling # node BY <1>6, <1>9 DEF Blacks
  <1>11. b[sibling] = k + 1 BY <1>9, <1>10 DEF Blacks
  <1>12. b[parent] = k + 1 + Weight(h, parent) BY <1>2, <1>6
  <1> QED BY <1>1, <1>2, <1>3, <1>4, <1>5, <1>6, <1>9, <1>10, <1>11, <1>12

\* Case 1
LEMMA SiblingCounts ==
  ASSUME NEW M, NEW n, NEW p, NEW h, Numbered(M, n, p), IsTree(h, M, n, p), NEW parent \in M, NEW node,
         NEW b, ShortAt(h, M, b, node, parent), NEW c, c = Sibling(h, node, parent)
  PROVE  /\ IsTree(c.h, M, n, p) /\ \E b2 : ShortAt(c.h, M, b2, node, parent)
         /\ SideOf(c.h, node, parent) = SideOf(h, node, parent)
         /\ c.sibling = c.h.n[parent][Other(SideOf(h, node, parent))]
         /\ ~IsRed(c.h, c.sibling)
         /\ c.h = h \/ IsRed(c.h, parent)
  <1>1. PICK side : side = SideOf(h, node, parent) OBVIOUS
  <1>2. PICK far : far = Other(side) OBVIOUS
  <1>3. PICK sibling : sibling = h.n[parent][far] OBVIOUS
  <1>4. /\ side \in Sides /\ far \in Sides /\ side # far /\ Other(far) = side
        /\ \A s \in Sides : s = side \/ s = far
        /\ h.n[parent][side] = node
        /\ node # NULL => node \in M /\ h.n[node].parent = parent
        /\ sibling # NULL /\ sibling \in M /\ h.n[sibling].parent = parent
        /\ sibling # node /\ sibling # parent /\ node # parent
        /\ \E k \in Nat \ {0} : /\ Blacks(b, node) = k /\ b[sibling] = k + 1 /\ Blacks(b, sibling) = k + 1
                                /\ b[parent] = k + 1 + Weight(h, parent)
    BY <1>1, <1>2, <1>3, ShortIs
  <1>5. IsTree(c.h, M, n, p) /\ c.h.n[parent][far] = c.sibling BY <1>1, <1>2, SiblingTree
  <1>6. CASE ~IsRed(h, sibling)
    <2>1. c = [h |-> h, sibling |-> sibling] BY <1>1, <1>2, <1>3, <1>6 DEF Sibling
    <2>2. c.h = h /\ c.sibling = sibling BY <2>1
    <2> QED BY <1>1, <1>2, <1>3, <1>5, <1>6, <2>2
  <1>7. CASE IsRed(h, sibling)
    <2>1. PICK g : g = Rotate(h, parent, sibling, far, Red, Black) OBVIOUS
    <2>2. PICK tmp : tmp = h.n[sibling][side] OBVIOUS
    <2>3. c = [h |-> g, sibling |-> tmp] BY <1>1, <1>2, <1>3, <1>7, <2>1, <2>2 DEF Sibling
    <2>4. c.h = g /\ c.sibling = tmp BY <2>3
    <2>5. PICK last : last = h.n[sibling][far] OBVIOUS
    <2>6. /\ h.ok /\ b \in Counts(M) /\ ~IsRed(h, h.root) /\ ~IsRed(h, node)
          /\ \A x \in M : Calm(h, x, NULL)
          /\ \A x \in M \ {parent} : Even(h, b, x)
      BY DEF ShortAt
    <2>7. h \in Heap /\ M \in SUBSET Nodes /\ NULL \notin M BY InTree
    <2>8. Rotated(h, g, parent, sibling, far, Red, Black) BY <1>3, <1>4, <2>1, RotateTree
    <2>9. ~IsRed(h, parent) /\ ~IsRed(h, tmp) /\ ~IsRed(h, last)
      <3>1. ~IsRed(h, NULL) BY DEF IsRed
      <3> QED BY <1>3, <1>4, <1>7, <2>2, <2>5, <2>6, <3>1 DEF Calm
    <2>10. PICK k \in Nat \ {0} : Blacks(b, node) = k /\ b[sibling] = k + 1 /\ b[parent] = k + 2
      <3>1. Weight(h, parent) = 1 BY <2>9 DEF Weight
      <3> QED BY <1>4, <3>1
    <2>11. Blacks(b, tmp) = k + 1 /\ Blacks(b, last) = k + 1 /\ tmp \in M /\ tmp # NULL /\ h.n[tmp].parent = sibling
      <3>1. (tmp # NULL => tmp \in M /\ h.n[tmp].parent = sibling) /\ (last # NULL => last \in M) BY <1>4, <2>2, <2>5, ChildIn
      <3>2. Blacks(b, tmp) \in Nat /\ Blacks(b, last) \in Nat BY <2>6, <3>1 DEF Blacks, Counts
      <3>3. Weight(h, sibling) = 0 /\ Even(h, b, sibling) BY <1>4, <1>7, <2>6 DEF Weight
      <3>4. b[sibling] = Blacks(b, tmp) + 0 /\ b[sibling] = Blacks(b, last) + 0 BY <1>4, <2>2, <2>5, <3>3 DEF Even
      <3>5. Blacks(b, tmp) = k + 1 /\ Blacks(b, last) = k + 1 BY <2>10, <3>2, <3>4
      <3>6. tmp # NULL BY <2>10, <3>5 DEF Blacks
      <3> QED BY <3>1, <3>5, <3>6
    <2>12. h.n[tmp].color = Black
      <3>1. h.n[tmp].color \in {Red, Black} BY <2>7, <2>11 DEF Heap, rb_node
      <3> QED BY <2>9, <2>11, <3>1 DEF IsRed
    <2> DEFINE b2 == [b EXCEPT ![parent] = k + 1, ![sibling] = k + 2]
    <2>13. b2 \in Counts(M) /\ b2[parent] = k + 1 /\ b2[sibling] = k + 2 /\ \A x \in M \ {parent, sibling} : b2[x] = b[x]
      <3>1. k + 1 \in Nat \ {0} /\ k + 2 \in Nat \ {0} OBVIOUS
      <3> QED BY <1>4, <2>6, <3>1 DEF Counts
    <2> HIDE DEF b2
    <2>14. Turned(h, g, M, b, b2, parent, sibling, far, Red)
      <3>1. LET t == h.n[sibling][Other(far)] IN t # NULL => h.n[t].color = Black BY <1>4, <2>2, <2>12
      <3>2. b2[sibling] = b[parent] BY <2>10, <2>13
      <3> QED BY <1>3, <1>4, <2>6, <2>8, <2>13, <3>1, <3>2, RotatedCounts
    <2>15. node \in (M \cup {NULL}) \ {parent, sibling} BY <1>4, <2>7
    <2>16. /\ g.n[parent][far] = tmp /\ g.n[parent][side] = node
           /\ g.n[sibling][side] = parent /\ g.n[sibling][far] = last
           /\ Blacks(b2, tmp) = k + 1 /\ Blacks(b2, last) = k + 1 /\ Blacks(b2, node) = k /\ Blacks(b2, parent) = k + 1
           /\ ~IsRed(g, tmp) /\ ~IsRed(g, last) /\ ~IsRed(g, node)
           /\ IsRed(g, parent) /\ ~IsRed(g, sibling) /\ g.ok /\ ~IsRed(g, g.root)
      <3>1. Blacks(b2, parent) = k + 1 BY <2>7, <2>13 DEF Blacks
      <3> QED BY <1>4, <2>2, <2>5, <2>6, <2>9, <2>10, <2>11, <2>14, <2>15, <3>1 DEF Turned
    <2>17. SideOf(g, node, parent) = side
      <3>1. tmp # node BY <1>4, <2>11
      <3>2. g.n[parent][Other(side)] # node BY <1>2, <2>16, <3>1
      <3> QED BY <1>4, <2>16, <3>2, SideFound
    <2>18. Even(g, b2, sibling) /\ Calm(g, sibling, NULL)
      <3>1. Weight(g, sibling) = 1 BY <2>16 DEF Weight
      <3>2. k + 2 = (k + 1) + 1 OBVIOUS
      <3> QED BY <1>4, <2>13, <2>16, <3>1, <3>2 DEF Even, Calm
    <2>19. Calm(g, parent, NULL) BY <1>4, <2>16 DEF Calm
    <2>20. ASSUME NEW x \in M \ {parent, sibling} PROVE Even(g, b2, x) /\ Calm(g, x, NULL)
      BY <2>6, <2>7, <2>14, <2>20 DEF Turned
    <2>21. /\ b2[parent] = Blacks(b2, node) + 1 + Weight(g, parent)
           /\ b2[parent] = Blacks(b2, g.n[parent][far]) + Weight(g, parent)
      <3>1. Weight(g, parent) = 0 BY <2>16 DEF Weight
      <3>2. k + 1 = k + 1 + 0 /\ k + 1 = (k + 1) + 0 OBVIOUS
      <3> QED BY <2>13, <2>16, <3>1, <3>2
    <2>22. ShortAt(g, M, b2, node, parent)
      <3>1. /\ \A x \in M : Calm(g, x, NULL)
            /\ \A x \in M \ {parent} : Even(g, b2, x)
        BY <2>18, <2>19, <2>20
      <3> QED BY <1>2, <2>13, <2>16, <2>17, <2>21, <3>1 DEF ShortAt
    <2> QED BY <1>1, <1>2, <1>5, <2>4, <2>16, <2>17, <2>22
  <1> QED BY <1>6, <1>7

\* Case 2: below parent, which is black afterwards, all is well.
LEMMA Flipped ==
  ASSUME NEW M, NEW n, NEW p, NEW h, Numbered(M, n, p), IsTree(h, M, n, p), NEW parent \in M, NEW node,
         NEW b, ShortAt(h, M, b, node, parent),
         NEW sibling, sibling = h.n[parent][Other(SideOf(h, node, parent))],
         ~IsRed(h, sibling), BlackChildren(h, sibling),
         NEW g, SameLinks(h, g), g.ok = h.ok,
         \A y \in M : g.n[y].color = IF y = sibling THEN Red ELSE IF y = parent THEN Black ELSE h.n[y].color
  PROVE  \E b2 \in Counts(M) :
           /\ \A x \in M : Calm(g, x, NULL)
           /\ ~IsRed(g, parent) /\ ~IsRed(g, g.root) /\ g.ok
           /\ \A x \in M : (x = h.n[parent].parent => IsRed(h, parent)) => Even(g, b2, x)
           /\ ~IsRed(h, parent) => b[parent] = b2[parent] + 1
           /\ \A z \in (M \cup {NULL}) \ {parent, sibling} : Blacks(b2, z) = Blacks(b, z) /\ (IsRed(g, z) <=> IsRed(h, z))
           /\ b2[parent] \in Nat
  <1>1. PICK side : side = SideOf(h, node, parent) OBVIOUS
  <1>2. PICK far : far = Other(side) OBVIOUS
  <1>3. /\ side \in Sides /\ far \in Sides /\ side # far
        /\ \A s \in Sides : s = side \/ s = far
        /\ h.n[parent][side] = node /\ h.n[parent][far] = sibling
        /\ node # NULL => node \in M /\ h.n[node].parent = parent
        /\ sibling # NULL /\ sibling \in M /\ h.n[sibling].parent = parent
        /\ sibling # node /\ sibling # parent /\ node # parent
        /\ \E k \in Nat \ {0} : /\ Blacks(b, node) = k /\ b[sibling] = k + 1 /\ Blacks(b, sibling) = k + 1
                                /\ b[parent] = k + 1 + Weight(h, parent)
    BY <1>1, <1>2, ShortIs
  <1>4. PICK k \in Nat \ {0} : /\ Blacks(b, node) = k /\ b[sibling] = k + 1 /\ Blacks(b, sibling) = k + 1
                               /\ b[parent] = k + 1 + Weight(h, parent)
    BY <1>3
  <1>5. /\ h.ok /\ b \in Counts(M) /\ ~IsRed(h, h.root) /\ ~IsRed(h, node)
        /\ \A x \in M : Calm(h, x, NULL)
        /\ \A x \in M \ {parent} : Even(h, b, x)
    BY DEF ShortAt
  <1>6. h \in Heap /\ M \in SUBSET Nodes /\ NULL \notin M BY InTree
  <1> DEFINE b2 == [b EXCEPT ![parent] = k + 1, ![sibling] = k]
  <1>7. b2 \in Counts(M) /\ b2[parent] = k + 1 /\ b2[sibling] = k /\ \A x \in M \ {parent, sibling} : b2[x] = b[x]
    <2>1. k + 1 \in Nat \ {0} OBVIOUS
    <2> QED BY <1>3, <1>5, <2>1 DEF Counts
  <1> HIDE DEF b2
  <1>8. /\ \A z \in (M \cup {NULL}) \ {parent, sibling} : Blacks(b2, z) = Blacks(b, z) /\ (IsRed(g, z) <=> IsRed(h, z))
        /\ IsRed(g, sibling) /\ ~IsRed(g, parent)
    <2>1. Red # Black BY DEF Red, Black
    <2> QED BY <1>3, <1>6, <1>7, <2>1 DEF Blacks, IsRed
  <1>9. \A x \in M : \A s \in Sides : /\ g.n[x][s] = h.n[x][s]
                                      /\ h.n[x][s] # NULL => h.n[x][s] \in M /\ h.n[h.n[x][s]].parent = x
    BY <1>6, ChildIn DEF SameLinks
  <1>10. ~IsRed(g, g.root)
    <2>1. PICK lo, hi : Tree(h, M, n, p, lo, hi) BY DEF IsTree
    <2>2. h.root # NULL => h.root \in M /\ h.n[h.root].parent = NULL BY <2>1 DEF Tree, Rooted
    <2>3. g.root = h.root BY DEF SameLinks
    <2>4. h.root # sibling BY <1>3, <1>6, <2>2
    <2> QED BY <1>5, <1>8, <2>2, <2>3, <2>4
  <1>11. ~IsRed(h, parent) => b[parent] = b2[parent] + 1
    <2>1. ~IsRed(h, parent) => Weight(h, parent) = 1 BY DEF Weight
    <2> QED BY <1>4, <1>7, <2>1
  <1>12. IsRed(h, parent) => b[parent] = b2[parent]
    <2>1. IsRed(h, parent) => Weight(h, parent) = 0 BY DEF Weight
    <2> QED BY <1>4, <1>7, <2>1
  <1>13. /\ Blacks(b2, node) = k /\ Blacks(b2, sibling) = k /\ ~IsRed(g, node)
    <2>1. node \in (M \cup {NULL}) \ {parent, sibling} BY <1>3
    <2> QED BY <1>3, <1>4, <1>5, <1>7, <1>8, <2>1 DEF Blacks
  <1>14. Even(g, b2, parent) /\ Calm(g, parent, NULL)
    <2>1. Weight(g, parent) = 1 BY <1>8 DEF Weight
    <2> QED BY <1>3, <1>7, <1>8, <1>9, <1>13, <2>1 DEF Even, Calm
  <1>15. Even(g, b2, sibling) /\ Calm(g, sibling, NULL)
    <2>1. Weight(g, sibling) = 0 /\ Weight(h, sibling) = 1 BY <1>8 DEF Weight
    <2>2. ASSUME NEW s \in Sides PROVE b2[sibling] = Blacks(b2, g.n[sibling][s]) + Weight(g, sibling) /\ ~IsRed(g, g.n[sibling][s])
      <3>1. PICK z : z = h.n[sibling][s] OBVIOUS
      <3>2. z \in (M \cup {NULL}) \ {parent, sibling}
        <4>1. z # parent
          <5>1. PICK lo, hi : Tree(h, M, n, p, lo, hi) BY DEF IsTree
          <5>2. h.n[parent].parent \notin {parent, sibling} BY <1>3, <5>1, Apart
          <5>3. z # NULL => h.n[z].parent = sibling BY <1>3, <1>9, <3>1
          <5> QED BY <1>6, <5>2, <5>3
        <4>2. z # sibling BY <1>3, <3>1, ChildIn
        <4> QED BY <1>3, <1>9, <3>1, <4>1, <4>2
      <3>3. ~IsRed(h, z)
        <4>1. ~IsRed(h, h.n[sibling]["left"]) /\ ~IsRed(h, h.n[sibling]["right"]) BY DEF BlackChildren
        <4> QED BY <3>1, <4>1 DEF Sides
      <3>4. b[sibling] = Blacks(b, z) + 1 BY <1>3, <1>5, <2>1, <3>1 DEF Even
      <3>5. Blacks(b, z) \in Nat BY <1>5, <3>2 DEF Blacks, Counts
      <3>6. Blacks(b, z) = k BY <1>4, <3>4, <3>5
      <3>7. g.n[sibling][s] = z /\ Blacks(b2, z) = k /\ ~IsRed(g, z) BY <1>3, <1>8, <1>9, <3>1, <3>2, <3>3, <3>6
      <3>8. k = k + 0 OBVIOUS
      <3> QED BY <1>7, <2>1, <3>7, <3>8
    <2> QED BY <2>2 DEF Even, Calm
  <1>16. ASSUME NEW x \in M \ {parent, sibling}
         PROVE  /\ Calm(g, x, NULL)
                /\ (x = h.n[parent].parent => IsRed(h, parent)) => Even(g, b2, x)
    <2>1. \A s \in Sides : h.n[x][s] # sibling /\ (h.n[x][s] = parent => x = h.n[parent].parent)
      BY <1>3, <1>6, <1>9, <1>16
    <2>2. b2[x] = b[x] /\ (IsRed(g, x) <=> IsRed(h, x)) BY <1>7, <1>8, <1>16
    <2>3. Calm(g, x, NULL)
      <3>1. ASSUME IsRed(g, x), NEW s \in Sides, g.n[x][s] # NULL PROVE ~IsRed(g, g.n[x][s])
        <4>1. ~IsRed(h, h.n[x][s]) /\ h.n[x][s] \in M BY <1>5, <1>9, <1>16, <2>2, <3>1 DEF Calm
        <4> QED BY <1>8, <1>9, <1>16, <2>1, <4>1
      <3> QED BY <3>1 DEF Calm
    <2>4. ASSUME x = h.n[parent].parent => IsRed(h, parent) PROVE Even(g, b2, x)
      <3>1. ASSUME NEW s \in Sides PROVE Blacks(b2, g.n[x][s]) = Blacks(b, h.n[x][s])
        <4>1. CASE h.n[x][s] = parent
          <5>1. b2[parent] = b[parent] BY <1>12, <2>1, <2>4, <4>1
          <5> QED BY <1>6, <1>9, <1>16, <4>1, <5>1 DEF Blacks
        <4>2. CASE h.n[x][s] # parent BY <1>8, <1>9, <1>16, <2>1, <4>2
        <4> QED BY <4>1, <4>2
      <3> QED BY <1>5, <1>16, <2>2, <3>1 DEF Even, Weight
    <2> QED BY <2>3, <2>4
  <1>17. \A x \in M : /\ Calm(g, x, NULL)
                      /\ (x = h.n[parent].parent => IsRed(h, parent)) => Even(g, b2, x)
    BY <1>14, <1>15, <1>16
  <1> QED BY <1>5, <1>7, <1>8, <1>10, <1>11, <1>17

LEMMA EraseTurnCounts ==
  ASSUME NEW M, NEW n, NEW p, NEW lo, NEW hi, NEW h, Numbered(M, n, p), Tree(h, M, n, p, lo, hi),
         NEW parent \in M, NEW node, NEW b, ShortAt(h, M, b, node, parent), EraseTurn(h, node, parent) # NULL
  PROVE  LET t == EraseTurn(h, node, parent)
         IN /\ t.parent \in M /\ Tree(t.h, M, n, p, lo, hi)
            /\ \E b2 : ShortAt(t.h, M, b2, t.node, t.parent)
            /\ hi[t.parent] - lo[t.parent] > hi[parent] - lo[parent]
  <1>1. IsTree(h, M, n, p) BY DEF IsTree
  <1>2. PICK c : c = Sibling(h, node, parent) OBVIOUS
  <1>3. PICK g : g = rb_set_parent_color(c.h, c.sibling, parent, Red) OBVIOUS
  <1>4. PICK up : up = c.h.n[parent].parent OBVIOUS
  <1>5. /\ EraseTurn(h, node, parent) = [h |-> g, node |-> parent, parent |-> up]
        /\ c.sibling # NULL /\ BlackChildren(c.h, c.sibling) /\ ~IsRed(c.h, parent) /\ up # NULL
    BY <1>2, <1>3, <1>4 DEF EraseTurn
  <1>6. /\ c.sibling = c.h.n[parent][Other(SideOf(h, node, parent))]
        /\ ~IsRed(c.h, c.sibling)
        /\ c.h = h
    BY <1>1, <1>2, <1>5, SiblingCounts
  <1>7. PICK sibling : sibling = c.sibling OBVIOUS
  <1>8. /\ sibling = h.n[parent][Other(SideOf(h, node, parent))]
        /\ ~IsRed(h, sibling) /\ BlackChildren(h, sibling) /\ ~IsRed(h, parent) /\ up = h.n[parent].parent
        /\ g = rb_set_parent_color(h, sibling, parent, Red)
    BY <1>3, <1>4, <1>5, <1>6, <1>7
  <1>9. sibling \in M /\ h.n[sibling].parent = parent /\ sibling # parent BY <1>1, <1>8, ShortIs
  <1>10. h \in Heap /\ M \in SUBSET Nodes /\ NULL \notin M BY <1>1, InTree
  <1>11. PcSet(h, g, sibling, parent, Red)
    <2>1. sibling \in Nodes /\ parent \in Pointer BY <1>9, <1>10 DEF Pointer
    <2> QED BY <1>8, <1>10, <2>1, PcIs
  <1>12. /\ SameLinks(h, g) /\ g.ok = h.ok
         /\ \A y \in M : g.n[y].color = IF y = sibling THEN Red ELSE IF y = parent THEN Black ELSE h.n[y].color
    <2>1. SameLinks(h, g) /\ g.ok = h.ok BY <1>9, <1>11 DEF PcSet, SameLinks
    <2>2. h.n[parent].color = Black
      <3>1. h.n[parent].color \in {Red, Black} BY <1>10 DEF Heap, rb_node
      <3> QED BY <1>8, <1>10, <3>1 DEF IsRed
    <2> QED BY <1>9, <1>10, <1>11, <2>1, <2>2 DEF PcSet
  <1>13. PICK b2 \in Counts(M) :
           /\ \A x \in M : Calm(g, x, NULL)
           /\ ~IsRed(g, parent) /\ ~IsRed(g, g.root) /\ g.ok
           /\ \A x \in M : x # up => Even(g, b2, x)
           /\ b[parent] = b2[parent] + 1
           /\ \A z \in (M \cup {NULL}) \ {parent, sibling} : Blacks(b2, z) = Blacks(b, z) /\ (IsRed(g, z) <=> IsRed(h, z))
           /\ b2[parent] \in Nat
    BY <1>1, <1>8, <1>12, Flipped
  <1>14. Tree(g, M, n, p, lo, hi) BY <1>12, SameTree
  <1>15. up \in M /\ hi[up] - lo[up] > hi[parent] - lo[parent] BY <1>5, <1>8, Grows
  <1>16. up # parent /\ up # sibling
    <2>1. Other(SideOf(h, node, parent)) \in Sides BY SideIs
    <2>2. sibling # NULL BY <1>9, <1>10
    <2> QED BY <1>8, <2>1, <2>2, Apart
  <1>17. PICK side : side = SideOf(g, parent, up) OBVIOUS
  <1>18. side \in Sides /\ Other(side) \in Sides /\ g.n[up][side] = parent /\ g.n[up][Other(side)] # parent
    <2>1. g.n[parent].parent = up BY <1>8, <1>10, <1>12 DEF SameLinks
    <2>2. IsTree(g, M, n, p) BY <1>14 DEF IsTree
    <2> QED BY <1>5, <1>17, <2>1, <2>2, ParentSide, SideIs
  <1>19. \A s \in Sides : /\ h.n[up][s] = g.n[up][s]
                          /\ h.n[up][s] # NULL => h.n[up][s] \in M /\ h.n[h.n[up][s]].parent = up
    BY <1>1, <1>10, <1>12, <1>15, ChildIn DEF SameLinks
  <1>20. /\ b2[up] = b2[parent] + 1 + Weight(g, up)
         /\ b2[up] = Blacks(b2, g.n[up][Other(side)]) + Weight(g, up)
    <2>1. Even(h, b, up) BY <1>15, <1>16 DEF ShortAt
    <2>2. b2[up] = b[up] /\ Weight(g, up) = Weight(h, up)
      <3>1. Blacks(b2, up) = Blacks(b, up) /\ (IsRed(g, up) <=> IsRed(h, up)) BY <1>13, <1>15, <1>16
      <3> QED BY <1>10, <1>15, <3>1 DEF Blacks, Weight
    <2>3. Blacks(b, parent) = b2[parent] + 1 BY <1>10, <1>13 DEF Blacks
    <2>4. Blacks(b2, g.n[up][Other(side)]) = Blacks(b, h.n[up][Other(side)])
      <3>1. g.n[up][Other(side)] # sibling BY <1>9, <1>10, <1>16, <1>18, <1>19
      <3> QED BY <1>13, <1>18, <1>19, <3>1
    <2>5. b[up] = Blacks(b, parent) + Weight(h, up) /\ b[up] = Blacks(b, h.n[up][Other(side)]) + Weight(h, up)
      BY <1>18, <1>19, <2>1 DEF Even
    <2> QED BY <2>2, <2>3, <2>4, <2>5
  <1>21. ShortAt(g, M, b2, parent, up)
    <2>1. Blacks(b2, parent) = b2[parent] BY <1>10 DEF Blacks
    <2> QED BY <1>13, <1>17, <1>18, <1>20, <2>1 DEF ShortAt
  <1>22. PICK t : t = EraseTurn(h, node, parent) OBVIOUS
  <1>23. t.h = g /\ t.node = parent /\ t.parent = up BY <1>5, <1>22
  <1> QED BY <1>14, <1>15, <1>21, <1>22, <1>23

\* The red node is on the side of node: the code turns it outward.
Case3(h, node, parent, side, far, sibling, inner) ==
  /\ side = SideOf(h, node, parent) /\ far = Other(side)
  /\ sibling = h.n[parent][far] /\ ~IsRed(h, sibling)
  /\ ~IsRed(h, h.n[sibling][far])
  /\ inner = h.n[sibling][side] /\ IsRed(h, inner)

\* The red node is on the far side: one rotation ends the loop.
Case4(h, node, parent, side, far, top, tmp, out, d) ==
  /\ side = SideOf(h, node, parent) /\ far = Other(side)
  /\ top = h.n[parent][far] /\ ~IsRed(h, top)
  /\ out = h.n[top][far] /\ IsRed(h, out)
  /\ tmp = h.n[top][side] /\ d = IF IsRed(h, tmp) THEN Red ELSE Black

\* Case 3 makes case 4 of it.
LEMMA EraseTwisted ==
  ASSUME NEW M, NEW n, NEW p, NEW h, Numbered(M, n, p), IsTree(h, M, n, p), NEW parent \in M, NEW node,
         NEW b, ShortAt(h, M, b, node, parent), NEW side, NEW far, NEW sibling, NEW inner,
         Case3(h, node, parent, side, far, sibling, inner),
         NEW g, IsTree(g, M, n, p), Rotated(h, g, sibling, inner, side, Red, Black)
  PROVE  /\ IsTree(g, M, n, p) /\ \E b2 : ShortAt(g, M, b2, node, parent)
         /\ SideOf(g, node, parent) = side /\ g.n[parent][far] = inner
         /\ ~IsRed(g, inner) /\ IsRed(g, g.n[inner][far])
  <1>1. side = SideOf(h, node, parent) /\ far = Other(side) /\ sibling = h.n[parent][far] BY DEF Case3
  <1>2. /\ ~IsRed(h, sibling) /\ ~IsRed(h, h.n[sibling][far])
        /\ inner = h.n[sibling][side] /\ IsRed(h, inner)
    BY DEF Case3
  <1>3. /\ side \in Sides /\ far \in Sides /\ side # far /\ Other(far) = side
        /\ \A s \in Sides : s = side \/ s = far
        /\ h.n[parent][side] = node
        /\ node # NULL => node \in M /\ h.n[node].parent = parent
        /\ sibling # NULL /\ sibling \in M /\ h.n[sibling].parent = parent
        /\ sibling # node /\ sibling # parent /\ node # parent
        /\ \E k \in Nat \ {0} : /\ Blacks(b, node) = k /\ b[sibling] = k + 1 /\ Blacks(b, sibling) = k + 1
                                /\ b[parent] = k + 1 + Weight(h, parent)
    BY <1>1, ShortIs
  <1>4. PICK k \in Nat \ {0} : /\ Blacks(b, node) = k /\ b[sibling] = k + 1 /\ b[parent] = k + 1 + Weight(h, parent)
    BY <1>3
  <1>5. /\ h.ok /\ b \in Counts(M) /\ ~IsRed(h, h.root) /\ ~IsRed(h, node)
        /\ \A x \in M : Calm(h, x, NULL)
        /\ \A x \in M \ {parent} : Even(h, b, x)
    BY DEF ShortAt
  <1>6. h \in Heap /\ M \in SUBSET Nodes /\ NULL \notin M BY InTree
  <1>7. inner # NULL /\ inner \in M /\ h.n[inner].parent = sibling /\ inner # sibling
    <2>1. inner # NULL BY <1>2 DEF IsRed
    <2>2. sibling \in M /\ side \in Sides BY <1>3
    <2> QED BY <1>2, <2>1, <2>2, ChildIn
  <1>8. inner # parent
    <2>1. PICK lo, hi : Tree(h, M, n, p, lo, hi) BY DEF IsTree
    <2>2. sibling \in M /\ side \in Sides /\ h.n[sibling].parent = parent BY <1>3
    <2> QED BY <1>2, <1>7, <2>1, <2>2, Apart
  <1>9. PICK tmp, near, out : tmp = h.n[inner][far] /\ near = h.n[sibling][far] /\ out = h.n[inner][side] OBVIOUS
  <1>10. ~IsRed(h, tmp) /\ ~IsRed(h, out) /\ ~IsRed(h, near)
    <2>1. ~IsRed(h, NULL) BY DEF IsRed
    <2>2. side \in Sides /\ far \in Sides BY <1>3
    <2> QED BY <1>2, <1>5, <1>7, <1>9, <2>1, <2>2 DEF Calm
  <1>11. Blacks(b, tmp) = k /\ Blacks(b, out) = k /\ Blacks(b, near) = k /\ b[inner] = k
    <2>1. (tmp # NULL => tmp \in M) /\ (out # NULL => out \in M) /\ (near # NULL => near \in M) BY <1>3, <1>7, <1>9, ChildIn
    <2>2. Blacks(b, tmp) \in Nat /\ Blacks(b, out) \in Nat /\ Blacks(b, near) \in Nat /\ Blacks(b, inner) \in Nat
      BY <1>5, <1>7, <2>1 DEF Blacks, Counts
    <2>3. Weight(h, sibling) = 1 /\ Weight(h, inner) = 0 /\ Even(h, b, sibling) /\ Even(h, b, inner)
      BY <1>2, <1>3, <1>5, <1>7, <1>8 DEF Weight
    <2>7. side \in Sides /\ far \in Sides BY <1>3
    <2>4. /\ b[sibling] = Blacks(b, inner) + 1 /\ b[sibling] = Blacks(b, near) + 1
          /\ b[inner] = Blacks(b, tmp) + 0 /\ b[inner] = Blacks(b, out) + 0
      BY <1>2, <1>9, <2>3, <2>7 DEF Even
    <2>5. Blacks(b, inner) = k /\ Blacks(b, near) = k BY <1>4, <2>2, <2>4
    <2>6. Blacks(b, inner) = b[inner] BY <1>7 DEF Blacks
    <2> QED BY <2>2, <2>4, <2>5, <2>6
  <1>12. tmp # NULL => h.n[tmp].color = Black
    <2>1. tmp # NULL => tmp \in M BY <1>3, <1>7, <1>9, ChildIn
    <2>2. tmp # NULL => h.n[tmp].color \in {Red, Black} BY <1>6, <2>1 DEF Heap, rb_node
    <2> QED BY <1>10, <2>2 DEF IsRed
  <1> DEFINE b2 == [b EXCEPT ![inner] = k + 1, ![sibling] = k]
  <1>13. b2 \in Counts(M) /\ b2[inner] = k + 1 /\ b2[sibling] = k /\ \A x \in M \ {sibling, inner} : b2[x] = b[x]
    <2>1. k + 1 \in Nat \ {0} OBVIOUS
    <2> QED BY <1>3, <1>5, <1>7, <2>1 DEF Counts
  <1> HIDE DEF b2
  <1>14. Turned(h, g, M, b, b2, sibling, inner, side, Red)
    <2>1. LET t == h.n[inner][Other(side)] IN t # NULL => h.n[t].color = Black BY <1>1, <1>9, <1>12
    <2>2. b2[inner] = b[sibling] BY <1>4, <1>13
    <2>3. Red \in {Red, Black} /\ Black \in {Red, Black} OBVIOUS
    <2>4. /\ sibling \in M /\ side \in Sides /\ inner = h.n[sibling][side] /\ inner # NULL
          /\ b \in Counts(M) /\ b2 \in Counts(M) /\ \A x \in M \ {sibling, inner} : b2[x] = b[x]
      BY <1>2, <1>3, <1>5, <1>7, <1>13
    <2> QED BY <2>4, <2>1, <2>2, <2>3, RotatedCounts
  <1>15. node \in (M \cup {NULL}) \ {sibling, inner} BY <1>3, <1>6, <1>7
  <1>16. /\ g.n[sibling][side] = tmp /\ g.n[sibling][far] = near
         /\ g.n[inner][far] = sibling /\ g.n[inner][side] = out
         /\ Blacks(b2, tmp) = k /\ Blacks(b2, near) = k /\ Blacks(b2, out) = k /\ Blacks(b2, node) = k /\ Blacks(b2, sibling) = k /\ Blacks(b2, inner) = k + 1
         /\ ~IsRed(g, tmp) /\ ~IsRed(g, near) /\ ~IsRed(g, out) /\ ~IsRed(g, node)
         /\ IsRed(g, sibling) /\ ~IsRed(g, inner) /\ g.ok /\ ~IsRed(g, g.root)
    <2>1. Blacks(b2, sibling) = k /\ Blacks(b2, inner) = k + 1 BY <1>3, <1>7, <1>13 DEF Blacks
    <2>2. Other(side) = far /\ near = h.n[sibling][far] /\ tmp = h.n[inner][far] /\ out = h.n[inner][side] BY <1>1, <1>9
    <2>3. /\ tmp \in (M \cup {NULL}) \ {sibling, inner} /\ near \in (M \cup {NULL}) \ {sibling, inner}
          /\ out \in (M \cup {NULL}) \ {sibling, inner}
          /\ g.n[sibling][side] = tmp /\ g.n[sibling][far] = near
          /\ g.n[inner][far] = sibling /\ g.n[inner][side] = out
          /\ IsRed(g, sibling) /\ (IsRed(g, inner) <=> IsRed(h, sibling))
          /\ g.ok = h.ok /\ (IsRed(g, g.root) <=> IsRed(h, h.root))
      BY <1>14, <2>2 DEF Turned
    <2>4. \A z \in (M \cup {NULL}) \ {sibling, inner} : Blacks(b2, z) = Blacks(b, z) /\ (IsRed(g, z) <=> IsRed(h, z))
      BY <1>14 DEF Turned
    <2> QED BY <1>2, <1>4, <1>5, <1>10, <1>11, <1>15, <2>1, <2>3, <2>4
  <1>17. g.n[parent][side] = node /\ g.n[parent][far] = inner
    BY <1>1, <1>3, <1>6, <1>8, <1>15 DEF Rotated
  <1>18. SideOf(g, node, parent) = side BY <1>1, <1>3, <1>15, <1>17, SideFound
  <1>19. Even(g, b2, sibling) /\ Calm(g, sibling, NULL)
    <2>1. Weight(g, sibling) = 0 /\ k = k + 0 BY <1>16 DEF Weight
    <2> QED BY <1>3, <1>13, <1>16, <2>1 DEF Even, Calm
  <1>20. Even(g, b2, inner) /\ Calm(g, inner, NULL)
    <2>1. Weight(g, inner) = 1 BY <1>16 DEF Weight
    <2> QED BY <1>3, <1>13, <1>16, <2>1 DEF Even, Calm
  <1>21. ASSUME NEW x \in M \ {sibling, inner} PROVE (x # parent => Even(g, b2, x)) /\ Calm(g, x, NULL)
    BY <1>3, <1>5, <1>6, <1>14, <1>21 DEF Turned
  <1>22. /\ b2[parent] = Blacks(b2, node) + 1 + Weight(g, parent)
         /\ b2[parent] = Blacks(b2, g.n[parent][far]) + Weight(g, parent)
    <2>1. parent \in (M \cup {NULL}) \ {sibling, inner} BY <1>3, <1>8
    <2>2. Weight(g, parent) = Weight(h, parent) BY <1>14, <2>1 DEF Turned, Weight
    <2>3. b2[parent] = k + 1 + Weight(g, parent) BY <1>4, <1>13, <2>1, <2>2
    <2> QED BY <1>16, <1>17, <2>3
  <1>23. ShortAt(g, M, b2, node, parent)
    <2>1. /\ \A x \in M : Calm(g, x, NULL)
          /\ \A x \in M \ {parent} : Even(g, b2, x)
      BY <1>19, <1>20, <1>21
    <2>2. Other(SideOf(g, node, parent)) = far BY <1>1, <1>18
    <2> QED BY <1>13, <1>16, <1>17, <1>18, <1>22, <2>1, <2>2 DEF ShortAt
  <1> QED BY <1>16, <1>17, <1>18, <1>23

\* Case 4
LEMMA EraseRotated ==
  ASSUME NEW M, NEW n, NEW p, NEW h, Numbered(M, n, p), IsTree(h, M, n, p), NEW parent \in M, NEW node,
         NEW b, ShortAt(h, M, b, node, parent), NEW side, NEW far, NEW top, NEW tmp, NEW out, NEW d,
         Case4(h, node, parent, side, far, top, tmp, out, d),
         NEW h4, IsTree(h4, M, n, p), Rotated(h, h4, parent, top, far, Black, d),
         NEW g, PcSet(h4, g, out, top, Black)
  PROVE  \E b2 : Counted(g, M, b2)
  <1>1. side = SideOf(h, node, parent) /\ far = Other(side) /\ top = h.n[parent][far] BY DEF Case4
  <1>2. /\ ~IsRed(h, top) /\ out = h.n[top][far] /\ IsRed(h, out)
        /\ tmp = h.n[top][side] /\ d = IF IsRed(h, tmp) THEN Red ELSE Black
    BY DEF Case4
  <1>3. /\ side \in Sides /\ far \in Sides /\ side # far /\ Other(far) = side
        /\ \A s \in Sides : s = side \/ s = far
        /\ h.n[parent][side] = node
        /\ node # NULL => node \in M /\ h.n[node].parent = parent
        /\ top # NULL /\ top \in M /\ h.n[top].parent = parent
        /\ top # node /\ top # parent /\ node # parent
        /\ \E k \in Nat \ {0} : /\ Blacks(b, node) = k /\ b[top] = k + 1 /\ Blacks(b, top) = k + 1
                                /\ b[parent] = k + 1 + Weight(h, parent)
    BY <1>1, ShortIs
  <1>4. PICK k \in Nat \ {0} : /\ Blacks(b, node) = k /\ b[top] = k + 1 /\ b[parent] = k + 1 + Weight(h, parent)
    BY <1>3
  <1>5. /\ h.ok /\ b \in Counts(M) /\ ~IsRed(h, h.root) /\ ~IsRed(h, node)
        /\ \A x \in M : Calm(h, x, NULL)
        /\ \A x \in M \ {parent} : Even(h, b, x)
    BY DEF ShortAt
  <1>6. h \in Heap /\ M \in SUBSET Nodes /\ NULL \notin M /\ d \in {Red, Black} BY <1>2, InTree
  <1>7. IsRed(h, out) /\ out \in M /\ out # NULL /\ out # top /\ h.n[out].parent = top
    <2>1. IsRed(h, out) /\ out # NULL BY <1>2 DEF IsRed
    <2>2. top \in M /\ far \in Sides BY <1>3
    <2> QED BY <1>2, <2>1, <2>2, ChildIn
  <1>8. Blacks(b, tmp) = k /\ b[out] = k
    <2>1. tmp # NULL => tmp \in M BY <1>3, <1>2, ChildIn
    <2>2. Blacks(b, tmp) \in Nat /\ b[out] \in Nat BY <1>5, <1>7, <2>1 DEF Blacks, Counts
    <2>3. Weight(h, top) = 1 /\ Even(h, b, top) BY <1>2, <1>3, <1>5 DEF Weight
    <2>4. b[top] = Blacks(b, tmp) + 1 /\ b[top] = Blacks(b, out) + 1 BY <1>3, <1>2, <2>3 DEF Even
    <2>5. Blacks(b, out) = b[out] BY <1>7 DEF Blacks
    <2> QED BY <1>4, <2>2, <2>4, <2>5
  <1>9. tmp # NULL => h.n[tmp].color = d
    <2>1. tmp # NULL => tmp \in M BY <1>3, <1>2, ChildIn
    <2>2. tmp # NULL => h.n[tmp].color \in {Red, Black} BY <1>6, <2>1 DEF Heap, rb_node
    <2> QED BY <1>2, <2>2 DEF IsRed
  <1>10. PICK w \in {0, 1} : w = Weight(h, parent) BY DEF Weight
  <1> DEFINE b1 == [b EXCEPT ![parent] = k + 1, ![top] = k + 1 + w]
             b2 == [b1 EXCEPT ![out] = k + 1]
  <1>11. b1 \in Counts(M) /\ b1[parent] = k + 1 /\ b1[top] = k + 1 + w /\ \A x \in M \ {parent, top} : b1[x] = b[x]
    <2>1. k + 1 \in Nat \ {0} /\ k + 1 + w \in Nat \ {0} OBVIOUS
    <2> QED BY <1>3, <1>5, <2>1 DEF Counts
  <1> HIDE DEF b1
  <1>12. b2 \in Counts(M) /\ b2[out] = k + 1 /\ \A x \in M \ {out} : b2[x] = b1[x]
    <2>1. k + 1 \in Nat \ {0} OBVIOUS
    <2> QED BY <1>7, <1>11, <2>1 DEF Counts
  <1> HIDE DEF b2
  <1>13. Turned(h, h4, M, b, b1, parent, top, far, Black)
    <2>1. LET t == h.n[top][Other(far)] IN t # NULL => h.n[t].color = d BY <1>3, <1>2, <1>9
    <2>2. b1[top] = b[parent] BY <1>4, <1>10, <1>11
    <2>3. Black \in {Red, Black} OBVIOUS
    <2>4. /\ far \in Sides /\ top = h.n[parent][far] /\ top # NULL /\ d \in {Red, Black}
          /\ b \in Counts(M) /\ b1 \in Counts(M) /\ \A x \in M \ {parent, top} : b1[x] = b[x]
      BY <1>1, <1>3, <1>5, <1>6, <1>11
    <2> QED BY <2>1, <2>2, <2>3, <2>4, RotatedCounts
  <1>14. out # parent /\ node \in (M \cup {NULL}) \ {parent, top} /\ out # node
    <2>1. out \in (M \cup {NULL}) \ {parent, top} BY <1>2, <1>13 DEF Turned
    <2> QED BY <1>3, <1>5, <1>7, <2>1
  <1>15. /\ h4.n[parent][far] = tmp /\ h4.n[parent][side] = node
         /\ h4.n[top][side] = parent /\ h4.n[top][far] = out
         /\ Blacks(b1, tmp) = k /\ Blacks(b1, node) = k /\ Blacks(b1, out) = k
         /\ ~IsRed(h4, node) /\ IsRed(h4, out)
         /\ ~IsRed(h4, parent) /\ h4.ok /\ ~IsRed(h4, h4.root)
         /\ (IsRed(h4, top) <=> IsRed(h, parent))
    <2>1. Black # Red BY DEF Red, Black
    <2>2. Blacks(b, out) = k BY <1>7, <1>8 DEF Blacks
    <2> QED BY <1>3, <1>4, <1>5, <1>2, <1>7, <1>8, <1>13, <1>14, <2>1, <2>2 DEF Turned
  <1>16. /\ h4 \in Heap
         /\ \A x \in M : \A s \in Sides : h4.n[x][s] # NULL => h4.n[x][s] \in M /\ h4.n[h4.n[x][s]].parent = x /\ h4.n[x][s] # x
    BY InTree, ChildIn
  <1>17. /\ g.ok /\ g.root = h4.root
         /\ ~IsRed(g, out)
         /\ \A z \in (M \cup {NULL}) \ {out} : (IsRed(g, z) <=> IsRed(h4, z)) /\ Blacks(b2, z) = Blacks(b1, z)
         /\ \A x \in M : \A s \in Sides : g.n[x][s] = h4.n[x][s]
    <2>1. Black # Red BY DEF Red, Black
    <2> QED BY <1>6, <1>7, <1>12, <1>15, <2>1 DEF PcSet, IsRed, Blacks
  <1>18. ASSUME NEW x \in M PROVE Calm(g, x, NULL)
    <2>1. Calm(h4, x, NULL) \/ x \in {parent, top} BY <1>3, <1>5, <1>6, <1>13 DEF Turned
    <2>2. CASE x = parent BY <1>14, <1>15, <1>17, <2>2 DEF Calm
    <2>3. CASE x = top
      <3>1. ~IsRed(g, parent) BY <1>14, <1>15, <1>17
      <3> QED BY <1>3, <1>15, <1>17, <2>3, <3>1 DEF Calm
    <2>4. CASE x \notin {parent, top}
      <3>1. ASSUME IsRed(g, x), NEW s \in Sides, g.n[x][s] # NULL PROVE ~IsRed(g, g.n[x][s])
        <4>1. x # out BY <1>17, <3>1
        <4>2. IsRed(h4, x) /\ ~IsRed(h4, h4.n[x][s]) BY <1>17, <2>1, <2>4, <3>1, <4>1 DEF Calm
        <4>3. h4.n[x][s] \in M /\ h4.n[x][s] # out BY <1>15, <1>16, <1>17, <3>1, <4>2
        <4> QED BY <1>17, <4>2, <4>3
      <3> QED BY <3>1 DEF Calm
    <2> QED BY <2>2, <2>3, <2>4
  <1>19. Even(g, b2, parent)
    <2>1. Weight(g, parent) = 1 BY <1>14, <1>15, <1>17 DEF Weight
    <2>2. b2[parent] = k + 1 BY <1>11, <1>12, <1>14
    <2>3. Blacks(b2, node) = k /\ Blacks(b2, tmp) = k
      <3>1. tmp # out /\ (tmp # NULL => tmp \in M)
        <4>1. h4.n[out].parent = top BY <1>3, <1>7, <1>15, <1>16
        <4>2. tmp # NULL => tmp \in M /\ h4.n[tmp].parent = parent BY <1>3, <1>15, <1>16
        <4> QED BY <1>3, <1>7, <4>1, <4>2
      <3>2. Blacks(b2, tmp) = Blacks(b1, tmp) BY <1>17, <3>1
      <3>3. Blacks(b2, node) = Blacks(b1, node) BY <1>14, <1>17
      <3> QED BY <1>15, <3>2, <3>3
    <2> QED BY <1>3, <1>15, <1>17, <2>1, <2>2, <2>3 DEF Even
  <1>20. Even(g, b2, top)
    <2>1. Weight(g, top) = w BY <1>3, <1>7, <1>10, <1>15, <1>17 DEF Weight
    <2>2. b2[top] = k + 1 + w BY <1>3, <1>7, <1>11, <1>12
    <2>3. Blacks(b2, parent) = k + 1 /\ Blacks(b2, out) = k + 1 BY <1>6, <1>7, <1>11, <1>12, <1>14 DEF Blacks
    <2> QED BY <1>3, <1>15, <1>17, <2>1, <2>2, <2>3 DEF Even
  <1>21. ASSUME NEW x \in M \ {parent, top} PROVE Even(g, b2, x)
    <2>1. Even(h4, b1, x) BY <1>5, <1>13, <1>21 DEF Turned
    <2>2. ASSUME NEW s \in Sides PROVE Blacks(b2, g.n[x][s]) = Blacks(b1, h4.n[x][s])
      <3>1. h4.n[x][s] # out BY <1>3, <1>7, <1>15, <1>16, <1>21
      <3>2. h4.n[x][s] \in (M \cup {NULL}) \ {out} BY <1>16, <1>21, <3>1
      <3> QED BY <1>17, <1>21, <3>2
    <2>3. CASE x = out
      <3>1. Weight(g, x) = 1 /\ Weight(h4, x) = 0 BY <1>15, <1>17, <2>3 DEF Weight
      <3>2. b2[x] = k + 1 /\ b1[x] = k BY <1>8, <1>11, <1>12, <1>21, <2>3
      <3>3. ASSUME NEW s \in Sides PROVE b2[x] = Blacks(b2, g.n[x][s]) + Weight(g, x)
        <4>1. b1[x] = Blacks(b1, h4.n[x][s]) + 0 BY <2>1, <3>1 DEF Even
        <4>2. Blacks(b1, h4.n[x][s]) \in Nat BY <1>11, <1>16, <1>21 DEF Blacks, Counts
        <4>3. Blacks(b2, g.n[x][s]) = k BY <2>2, <3>2, <4>1, <4>2
        <4> QED BY <3>1, <3>2, <4>3
      <3> QED BY <3>3 DEF Even
    <2>4. CASE x # out
      <3>1. b2[x] = b1[x] /\ (IsRed(g, x) <=> IsRed(h4, x)) BY <1>12, <1>17, <1>21, <2>4
      <3> QED BY <2>1, <2>2, <3>1 DEF Even, Weight
    <2> QED BY <2>3, <2>4
  <1>22. ~IsRed(g, g.root)
    <2>1. CASE h4.root = out BY <1>17, <2>1
    <2>2. CASE h4.root # out
      <3>1. PICK lo, hi : Tree(h4, M, n, p, lo, hi) BY DEF IsTree
      <3>2. h4.root \in M \cup {NULL} BY <3>1 DEF Tree, Rooted
      <3> QED BY <1>15, <1>17, <2>2, <3>2
    <2> QED BY <2>1, <2>2
  <1>23. \A x \in M : Even(g, b2, x) /\ Calm(g, x, NULL) BY <1>18, <1>19, <1>20, <1>21
  <1>24. Counted(g, M, b2) BY <1>12, <1>17, <1>22, <1>23 DEF Counted
  <1> QED BY <1>24

LEMMA SameTwice ==
  ASSUME NEW h, NEW f, NEW g, SameLinks(h, f), SameLinks(f, g)
  PROVE  SameLinks(h, g)
  BY DEF SameLinks

\* Case 2 ends the loop when parent was red or is the root.
LEMMA FlippedEnd ==
  ASSUME NEW M, NEW n, NEW p, NEW h, Numbered(M, n, p), IsTree(h, M, n, p), NEW parent \in M, NEW node,
         NEW b, ShortAt(h, M, b, node, parent),
         NEW sibling, sibling = h.n[parent][Other(SideOf(h, node, parent))],
         ~IsRed(h, sibling), BlackChildren(h, sibling), IsRed(h, parent) \/ h.n[parent].parent = NULL,
         NEW flipped, flipped = rb_set_parent_color(h, sibling, parent, Red),
         NEW g, g = IF IsRed(h, parent) THEN Set(flipped, parent, "color", Black) ELSE flipped
  PROVE  \E b2 : Counted(g, M, b2)
  <1>1. sibling \in M /\ h.n[sibling].parent = parent /\ sibling # parent BY ShortIs
  <1>2. h \in Heap /\ M \in SUBSET Nodes /\ NULL \notin M BY InTree
  <1>3. PcSet(h, flipped, sibling, parent, Red)
    <2>1. sibling \in Nodes /\ parent \in Pointer BY <1>1, <1>2 DEF Pointer
    <2> QED BY <1>2, <2>1, PcIs
  <1>4. /\ SameLinks(h, flipped) /\ flipped.ok = h.ok
        /\ \A y \in M : flipped.n[y].color = IF y = sibling THEN Red ELSE h.n[y].color
    <2>1. SameLinks(h, flipped) /\ flipped.ok = h.ok BY <1>1, <1>3 DEF PcSet, SameLinks
    <2> QED BY <1>2, <1>3, <2>1 DEF PcSet
  <1>5. /\ SameLinks(h, g) /\ g.ok = h.ok
        /\ \A y \in M : g.n[y].color = IF y = sibling THEN Red ELSE IF y = parent THEN Black ELSE h.n[y].color
    <2>1. CASE IsRed(h, parent)
      <3>1. g = Set(flipped, parent, "color", Black) BY <2>1
      <3>2. flipped \in Heap BY <1>4 DEF SameLinks
      <3>3. SameLinks(flipped, g) BY <3>1, <3>2, ColorLinks
      <3>4. /\ g.ok = flipped.ok
            /\ \A y \in M : g.n[y].color = IF y = parent THEN Black ELSE flipped.n[y].color
        BY <1>2, <3>1, <3>2 DEF Set, Heap, rb_node
      <3>5. SameLinks(h, g) BY <1>4, <3>3, SameTwice
      <3> QED BY <1>1, <1>4, <3>4, <3>5
    <2>2. CASE ~IsRed(h, parent)
      <3>1. g = flipped BY <2>2
      <3>2. h.n[parent].color = Black
        <4>1. h.n[parent].color \in {Red, Black} BY <1>2 DEF Heap, rb_node
        <4> QED BY <1>2, <2>2, <4>1 DEF IsRed
      <3> QED BY <1>1, <1>4, <3>1, <3>2
    <2> QED BY <2>1, <2>2
  <1>6. PICK b2 \in Counts(M) :
          /\ \A x \in M : Calm(g, x, NULL)
          /\ ~IsRed(g, g.root) /\ g.ok
          /\ \A x \in M : (x = h.n[parent].parent => IsRed(h, parent)) => Even(g, b2, x)
    BY <1>5, Flipped
  <1>7. \A x \in M : Even(g, b2, x) BY <1>2, <1>6
  <1>8. Counted(g, M, b2) BY <1>6, <1>7 DEF Counted
  <1> QED BY <1>8

\* Case 4 ends the loop.
LEMMA RotatedEnd ==
  ASSUME NEW M, NEW n, NEW p, NEW h, Numbered(M, n, p), IsTree(h, M, n, p), NEW parent \in M, NEW node,
         NEW b, ShortAt(h, M, b, node, parent), NEW side, NEW far, NEW top, NEW tmp, NEW out, NEW d,
         Case4(h, node, parent, side, far, top, tmp, out, d)
  PROVE  LET h4 == Rotate(h, parent, top, far, Black, d)
             g == rb_set_parent_color(h4, h4.n[top][far], top, Black)
         IN \E b2 : Counted(g, M, b2)
  <1>1. PICK h4 : h4 = Rotate(h, parent, top, far, Black, d) OBVIOUS
  <1>2. PICK g : g = rb_set_parent_color(h4, h4.n[top][far], top, Black) OBVIOUS
  <1>3. /\ side = SideOf(h, node, parent) /\ far = Other(side) /\ top = h.n[parent][far]
        /\ out = h.n[top][far] /\ IsRed(h, out) /\ d \in {Red, Black}
    BY DEF Case4
  <1>4. /\ side \in Sides /\ far \in Sides /\ far # side /\ Other(far) = side
        /\ top # NULL /\ top \in M /\ h.n[top].parent = parent /\ top # parent
    <2>1. side = SideOf(h, node, parent) /\ top = h.n[parent][Other(side)] BY <1>3
    <2>2. /\ side \in Sides /\ Other(side) \in Sides /\ side # Other(side) /\ Other(Other(side)) = side
          /\ top # NULL /\ top \in M /\ h.n[top].parent = parent /\ top # parent
      BY <2>1, ShortIs
    <2> QED BY <1>3, <2>2
  <1>5. IsTree(h4, M, n, p) /\ Rotated(h, h4, parent, top, far, Black, d)
    <2>1. top = h.n[parent][far] /\ top # NULL /\ far \in Sides /\ d \in {Red, Black} /\ Black \in {Red, Black} BY <1>3, <1>4
    <2> QED BY <1>1, <2>1, RotateTree
  <1>6. h4 \in Heap /\ M \in SUBSET Nodes /\ NULL \notin M BY <1>5, InTree
  <1>7. h4.n[top][far] = out
    <2>1. top \in Nodes /\ h.n[parent].parent # top
      <3>1. top \in Nodes BY <1>4, <1>6
      <3>2. PICK lo, hi : Tree(h, M, n, p, lo, hi) BY DEF IsTree
      <3>3. h.n[parent].parent \notin {parent, top} BY <1>3, <1>4, <3>2, Apart
      <3> QED BY <3>1, <3>3
    <2> QED BY <1>3, <1>4, <1>5, <2>1 DEF Rotated
  <1>8. PcSet(h4, g, out, top, Black)
    <2>1. out # NULL BY <1>3 DEF IsRed
    <2>2. out \in M BY <1>3, <1>4, <2>1, ChildIn
    <2>3. out \in Nodes /\ top \in Pointer BY <1>4, <1>6, <2>2 DEF Pointer
    <2> QED BY <1>2, <1>6, <1>7, <2>3, PcIs
  <1>9. \E b2 : Counted(g, M, b2) BY <1>5, <1>8, EraseRotated
  <1> QED BY <1>1, <1>2, <1>9

LEMMA EraseEndCounts ==
  ASSUME NEW M, NEW n, NEW p, NEW h, Numbered(M, n, p), IsTree(h, M, n, p), NEW parent \in M, NEW node,
         NEW b, ShortAt(h, M, b, node, parent), EraseTurn(h, node, parent) = NULL
  PROVE  \E b2 : Counted(EraseEnd(h, node, parent), M, b2)
  <1>1. PICK c : c = Sibling(h, node, parent) OBVIOUS
  <1>2. PICK side : side = SideOf(h, node, parent) OBVIOUS
  <1>3. PICK far : far = Other(side) OBVIOUS
  <1>4. PICK sibling : sibling = c.sibling OBVIOUS
  <1>5. PICK hc : hc = c.h OBVIOUS
  <1>6. /\ IsTree(hc, M, n, p) /\ (\E b2 : ShortAt(hc, M, b2, node, parent))
        /\ SideOf(hc, node, parent) = side /\ sibling = hc.n[parent][far] /\ ~IsRed(hc, sibling)
    BY <1>1, <1>2, <1>3, <1>4, <1>5, SiblingCounts
  <1>7. PICK b1 : ShortAt(hc, M, b1, node, parent) BY <1>6
  <1>8. side \in Sides /\ far \in Sides /\ (\A s \in Sides : s = side \/ s = far) /\ sibling # NULL /\ sibling \in M
    <2>1. sibling = hc.n[parent][Other(side)] /\ side = SideOf(hc, node, parent) BY <1>3, <1>6
    <2>2. /\ side \in Sides /\ Other(side) \in Sides /\ (\A s \in Sides : s = side \/ s = Other(side))
          /\ sibling # NULL /\ sibling \in M
      BY <1>6, <1>7, <2>1, ShortIs
    <2> QED BY <1>3, <2>2
  <1>9. PICK inner : inner = hc.n[sibling][side] OBVIOUS
  <1>10. PICK twisted : twisted = Rotate(hc, sibling, inner, side, Red, Black) OBVIOUS
  <1>11. PICK h3 : h3 = IF IsRed(hc, hc.n[sibling][far]) THEN hc ELSE twisted OBVIOUS
  <1>12. PICK top : top = h3.n[parent][far] OBVIOUS
  <1>13. PICK tmp, out : tmp = h3.n[top][side] /\ out = h3.n[top][far] OBVIOUS
  <1>14. PICK d : d = IF IsRed(h3, tmp) THEN Red ELSE Black OBVIOUS
  <1>15. PICK h4 : h4 = Rotate(h3, parent, top, far, Black, d) OBVIOUS
  <1>16. PICK last : last = rb_set_parent_color(h4, h4.n[top][far], top, Black) OBVIOUS
  <1>17. PICK flipped : flipped = rb_set_parent_color(hc, sibling, parent, Red) OBVIOUS
  <1>18. PICK flat : flat = IF IsRed(hc, parent) THEN Set(flipped, parent, "color", Black) ELSE flipped OBVIOUS
  <1>19. EraseEnd(h, node, parent)
           = IF sibling = NULL THEN Crash(hc)
             ELSE IF BlackChildren(hc, sibling) THEN flat
             ELSE IF top = NULL THEN Crash(h3) ELSE last
    <2> DEFINE C == Sibling(h, node, parent)
               Side == SideOf(h, node, parent)
               Far == Other(Side)
               Flip == rb_set_parent_color(C.h, C.sibling, parent, Red)
               Inner == C.h.n[C.sibling][Side]
               H3 == IF IsRed(C.h, C.h.n[C.sibling][Far]) THEN C.h ELSE Rotate(C.h, C.sibling, Inner, Side, Red, Black)
               Top == H3.n[parent][Far]
               Tmp == H3.n[Top][Side]
               H4 == Rotate(H3, parent, Top, Far, Black, IF IsRed(H3, Tmp) THEN Red ELSE Black)
    <2>1. EraseEnd(h, node, parent)
            = IF C.sibling = NULL THEN Crash(C.h)
              ELSE IF BlackChildren(C.h, C.sibling)
                THEN IF IsRed(C.h, parent) THEN Set(Flip, parent, "color", Black) ELSE Flip
              ELSE IF Top = NULL THEN Crash(H3) ELSE rb_set_parent_color(H4, H4.n[Top][Far], Top, Black)
      BY DEF EraseEnd
    <2>2. C.h = hc /\ C.sibling = sibling /\ Side = side BY <1>1, <1>2, <1>4, <1>5
    <2>3. Far = far BY <1>3, <2>2
    <2> HIDE DEF C, Side, Far
    <2>4. Flip = flipped /\ Inner = inner BY <1>9, <1>17, <2>2
    <2> HIDE DEF Flip, Inner
    <2>5. H3 = h3 BY <1>10, <1>11, <2>2, <2>3, <2>4
    <2> HIDE DEF H3
    <2>6. Top = top BY <1>12, <2>3, <2>5
    <2> HIDE DEF Top
    <2>7. Tmp = tmp BY <1>13, <2>2, <2>5, <2>6
    <2> HIDE DEF Tmp
    <2>8. H4 = h4 BY <1>14, <1>15, <2>3, <2>5, <2>6, <2>7
    <2> HIDE DEF H4
    <2> QED BY <1>16, <1>18, <2>1, <2>2, <2>3, <2>4, <2>5, <2>6, <2>8
  <1>20. CASE BlackChildren(hc, sibling)
    <2>1. IsRed(hc, parent) \/ hc.n[parent].parent = NULL
      <3>1. h \in Heap /\ parent \in Nodes BY InTree
      <3>2. node \in Pointer
        <4>1. PICK sib : sib = h.n[parent][Other(side)] OBVIOUS
        <4>2. node # NULL => node \in M BY <1>2, <4>1, ShortIs
        <4> QED BY <4>2, InTree DEF Pointer
      <3>3. EraseTurn(h, node, parent) \in
              IF sibling # NULL /\ BlackChildren(hc, sibling) /\ ~IsRed(hc, parent) /\ hc.n[parent].parent # NULL
              THEN [h : Heap, node : Pointer, parent : Nodes] ELSE {NULL}
        BY <1>1, <1>4, <1>5, <3>1, <3>2, EraseTurnIs
      <3> QED BY <1>8, <1>20, <3>3, LoopAssumption
    <2>2. sibling = hc.n[parent][Other(SideOf(hc, node, parent))] BY <1>3, <1>6
    <2>3. \E b2 : Counted(flat, M, b2) BY <1>6, <1>7, <1>17, <1>18, <1>20, <2>1, <2>2, FlippedEnd
    <2> QED BY <1>8, <1>19, <1>20, <2>3
  <1>21. CASE ~BlackChildren(hc, sibling)
    <2>1. ~IsRed(hc, hc.n[sibling][far]) => IsRed(hc, inner)
      <3>1. \E s \in Sides : IsRed(hc, hc.n[sibling][s]) BY <1>21 DEF BlackChildren, Sides
      <3> QED BY <1>8, <1>9, <3>1
    <2>2. /\ IsTree(h3, M, n, p) /\ (\E b2 : ShortAt(h3, M, b2, node, parent)) /\ SideOf(h3, node, parent) = side
          /\ ~IsRed(h3, top) /\ IsRed(h3, out)
      <3>1. CASE IsRed(hc, hc.n[sibling][far])
        <4>1. h3 = hc /\ top = sibling BY <1>6, <1>11, <1>12, <3>1
        <4> QED BY <1>6, <1>13, <3>1, <4>1
      <3>2. CASE ~IsRed(hc, hc.n[sibling][far])
        <4>1. h3 = twisted /\ IsRed(hc, inner) BY <1>11, <2>1, <3>2
        <4>2. inner # NULL BY <4>1 DEF IsRed
        <4>3. Red \in {Red, Black} /\ Black \in {Red, Black} OBVIOUS
        <4>4. IsTree(twisted, M, n, p) /\ Rotated(hc, twisted, sibling, inner, side, Red, Black)
          BY <1>6, <1>8, <1>9, <1>10, <4>2, <4>3, RotateTree
        <4>5. Case3(hc, node, parent, side, far, sibling, inner) BY <1>3, <1>6, <1>9, <3>2, <4>1 DEF Case3
        <4>6. /\ \E b2 : ShortAt(twisted, M, b2, node, parent)
              /\ SideOf(twisted, node, parent) = side /\ twisted.n[parent][far] = inner
              /\ ~IsRed(twisted, inner) /\ IsRed(twisted, twisted.n[inner][far])
          BY <1>6, <1>7, <4>4, <4>5, EraseTwisted
        <4> QED BY <1>12, <1>13, <4>1, <4>4, <4>6
      <3> QED BY <3>1, <3>2
    <2>3. PICK b3 : ShortAt(h3, M, b3, node, parent) BY <2>2
    <2>4. Case4(h3, node, parent, side, far, top, tmp, out, d) BY <1>3, <1>12, <1>13, <1>14, <2>2 DEF Case4
    <2>5. \E b2 : Counted(last, M, b2) BY <1>15, <1>16, <2>2, <2>3, <2>4, RotatedEnd
    <2>6. top # NULL
      <3>1. top = h3.n[parent][Other(side)] /\ side = SideOf(h3, node, parent) BY <1>3, <1>12, <2>2
      <3> QED BY <2>2, <2>3, <3>1, ShortIs
    <2> QED BY <1>8, <1>19, <1>21, <2>5, <2>6
  <1> QED BY <1>20, <1>21

\* ____rb_erase_color makes up for the black node that went away.
LEMMA EraseColorCounts ==
  ASSUME NEW M, NEW n, NEW p, NEW h, Numbered(M, n, p), IsTree(h, M, n, p), NEW parent \in M,
         NEW b, ShortAt(h, M, b, NULL, parent)
  PROVE  \E b2 : Counted(____rb_erase_color(h, parent), M, b2)
  <1>1. PICK lo, hi : Tree(h, M, n, p, lo, hi) BY DEF IsTree
  <1> DEFINE D == [h : Heap, node : Pointer, parent : Nodes]
             f == [s \in D |-> EraseTurn(s.h, s.node, s.parent)]
             S == {s \in D : s.parent \in M /\ Tree(s.h, M, n, p, lo, hi) /\ \E b2 : ShortAt(s.h, M, b2, s.node, s.parent)}
             m == [s \in S |-> n - (hi[s.parent] - lo[s.parent])]
             s0 == [h |-> h, node |-> NULL, parent |-> parent]
             end == Loop(f, s0)
  <1>2. f \in [D -> D \cup {NULL}] BY EraseTurnTyped
  <1>3. s0 \in S BY <1>1, InTree DEF Pointer
  <1>4. \A x \in M : lo[x] \in Int /\ hi[x] \in Int /\ 1 <= lo[x] /\ lo[x] <= hi[x] /\ hi[x] <= n /\ n \in Nat
    <2>1. ASSUME NEW x \in M PROVE lo[x] \in Int /\ hi[x] \in Int /\ 1 <= lo[x] /\ lo[x] <= hi[x] /\ hi[x] <= n /\ n \in Nat
      <3>1. /\ n \in Nat /\ lo[x] \in Int /\ hi[x] \in Int /\ p[x] \in Int
            /\ 1 <= lo[x] /\ lo[x] <= p[x] /\ p[x] <= hi[x] /\ hi[x] <= n
        BY <1>1, Numbers
      <3> QED BY <3>1
    <2> QED BY <2>1
  <1>5. ASSUME NEW s \in S PROVE f[s] = NULL \/ (f[s] \in S /\ m[f[s]] < m[s])
    <2>1. s \in D /\ s.parent \in M /\ Tree(s.h, M, n, p, lo, hi) /\ (\E b2 : ShortAt(s.h, M, b2, s.node, s.parent)) /\ f[s] = EraseTurn(s.h, s.node, s.parent)
      OBVIOUS
    <2>2. f[s] # NULL => /\ f[s].parent \in M /\ Tree(f[s].h, M, n, p, lo, hi)
                         /\ \E b2 : ShortAt(f[s].h, M, b2, f[s].node, f[s].parent)
                         /\ hi[f[s].parent] - lo[f[s].parent] > hi[s.parent] - lo[s.parent]
      BY <2>1, EraseTurnCounts
    <2> HIDE DEF f, D
    <2>3. f[s] # NULL => f[s] \in S BY <1>2, <2>1, <2>2
    <2>4. ASSUME f[s] # NULL PROVE m[f[s]] < m[s]
      <3>1. m[f[s]] = n - (hi[f[s].parent] - lo[f[s].parent]) /\ m[s] = n - (hi[s.parent] - lo[s.parent]) BY <2>3, <2>4
      <3> QED BY <1>4, <2>1, <2>2, <2>4, <3>1
    <2> QED BY <2>3, <2>4
  <1>6. m \in [S -> Nat] /\ m[s0] <= Cardinality(Nodes)
    <2>1. ASSUME NEW s \in S PROVE m[s] \in Nat /\ m[s] <= n BY <1>4
    <2>2. n <= Cardinality(Nodes) /\ Cardinality(Nodes) \in Nat /\ n \in Nat BY Bounded
    <2>3. m[s0] \in Nat /\ m[s0] <= n BY <1>3, <2>1
    <2>4. m = [s \in S |-> m[s]] OBVIOUS
    <2> HIDE DEF m, S, s0
    <2> QED BY <2>1, <2>2, <2>3, <2>4
  <1>7. S \in SUBSET D OBVIOUS
  <1>8. end \in S /\ f[end] = NULL
    <2> HIDE DEF D, S, f, s0, m
    <2> QED BY <1>2, <1>3, <1>5, <1>6, <1>7, LoopStays, LoopEnds
  <1>9. ____rb_erase_color(h, parent) = EraseEnd(end.h, end.node, end.parent) BY DEF ____rb_erase_color
  <1>10. PICK e : e = end OBVIOUS
  <1>11. e.parent \in M /\ Tree(e.h, M, n, p, lo, hi) /\ (\E b2 : ShortAt(e.h, M, b2, e.node, e.parent)) /\ EraseTurn(e.h, e.node, e.parent) = NULL
    <2>1. e \in S /\ e \in D /\ f[e] = NULL BY <1>7, <1>8, <1>10
    <2> HIDE DEF end
    <2> QED BY <2>1
  <1> HIDE DEF end
  <1>12. IsTree(e.h, M, n, p) BY <1>11 DEF IsTree
  <1> QED BY <1>9, <1>10, <1>11, <1>12, EraseEndCounts

\* Where a black node without children went away, its parent is one short on that side.
LEMMA ShortFound ==
  ASSUME NEW M, NEW h, NEW b \in Counts(M), h.ok, ~IsRed(h, h.root), \A x \in M : Calm(h, x, NULL),
         NEW parent, \A x \in M \ {parent} : Even(h, b, x),
         NEW side \in Sides, h.n[parent][side] = NULL, b[parent] = 2 + Weight(h, parent),
         b[parent] = Blacks(b, h.n[parent][Other(side)]) + Weight(h, parent)
  PROVE  ShortAt(h, M, b, NULL, parent)
  <1>1. PICK w \in {0, 1} : w = Weight(h, parent) BY DEF Weight
  <1>2. Blacks(b, NULL) = 1 BY DEF Blacks
  <1>3. h.n[parent][Other(side)] # NULL BY <1>1, <1>2
  <1>4. SideOf(h, NULL, parent) = side BY <1>3, SideFound
  <1>5. ~IsRed(h, NULL) BY DEF IsRed
  <1>6. b[parent] = Blacks(b, NULL) + 1 + Weight(h, parent) BY <1>1, <1>2
  <1> QED BY <1>4, <1>5, <1>6 DEF ShortAt

\* Unlinking a node with at most one child
LEMMA OuterCounts ==
  ASSUME NEW M, NEW n, NEW p, NEW h, Numbered(M, n, p), IsTree(h, M, n, p), NEW b, Counted(h, M, b), NEW t \in M,
         h.n[t].left = NULL \/ h.n[t].right = NULL,
         NEW g, g = EraseOuter(h, t).h, NEW r, r = EraseOuter(h, t).rebalance
  PROVE  \E b2 : IF r = NULL THEN Counted(g, M \ {t}, b2) ELSE ShortAt(g, M \ {t}, b2, NULL, r)
  <1>1. PICK child : child = IF h.n[t].left = NULL THEN h.n[t].right ELSE h.n[t].left OBVIOUS
  <1>2. PICK q : q = h.n[t].parent OBVIOUS
  <1>3. PICK M2 : M2 = M \ {t} OBVIOUS
  <1>4. /\ IsTree(g, M2, n - 1, Closed(M, p, t)) /\ (r # NULL => r \in M2)
        /\ Replaced(h, g, t, child) /\ r = IF child = NULL /\ ~IsRed(h, t) THEN q ELSE NULL
    BY <1>1, <1>2, <1>3, OuterTree
  <1>5. /\ h.ok /\ b \in Counts(M) /\ ~IsRed(h, h.root)
        /\ \A x \in M : Even(h, b, x) /\ Calm(h, x, NULL)
    BY DEF Counted
  <1>6. h \in Heap /\ M \in SUBSET Nodes /\ NULL \notin M /\ \A x \in M : b[x] \in Nat \ {0}
    BY <1>5, InTree DEF Counts
  <1>7. \A x \in M : \A s \in Sides : h.n[x][s] # NULL => h.n[x][s] \in M /\ h.n[h.n[x][s]].parent = x /\ h.n[x][s] # x
    BY ChildIn
  <1>8. \E s \in Sides : h.n[t][s] = child /\ h.n[t][Other(s)] = NULL
    <2>1. CASE h.n[t].left = NULL
      <3>1. h.n[t]["right"] = child /\ h.n[t][Other("right")] = NULL BY <1>1, <2>1 DEF Other
      <3> QED BY <3>1 DEF Sides
    <2>2. CASE h.n[t].left # NULL
      <3>1. h.n[t]["left"] = child /\ h.n[t][Other("left")] = NULL BY <1>1, <2>2 DEF Other
      <3> QED BY <3>1 DEF Sides
    <2> QED BY <2>1, <2>2
  <1>9. PICK w \in {0, 1} : w = Weight(h, t) BY DEF Weight
  <1>10. Blacks(b, child) = 1 /\ b[t] = 1 + w
    <2>1. PICK s \in Sides : h.n[t][s] = child /\ h.n[t][Other(s)] = NULL BY <1>8
    <2>2. Other(s) \in Sides /\ Blacks(b, NULL) = 1 BY DEF Sides, Other, Blacks
    <2>3. b[t] = Blacks(b, child) + w /\ b[t] = Blacks(b, NULL) + w BY <1>5, <1>9, <2>1, <2>2 DEF Even
    <2>4. child # NULL => child \in M BY <1>7, <2>1
    <2>5. Blacks(b, child) \in Nat BY <1>6, <2>4 DEF Blacks
    <2> QED BY <2>2, <2>3, <2>5
  <1>11. child # NULL => child \in M2 /\ h.n[child].parent = t /\ IsRed(h, child) /\ ~IsRed(h, t) /\ w = 1
    <2>1. SUFFICES ASSUME child # NULL PROVE child \in M2 /\ h.n[child].parent = t /\ IsRed(h, child) /\ ~IsRed(h, t) /\ w = 1
      OBVIOUS
    <2>2. child \in M2 /\ h.n[child].parent = t BY <1>3, <1>7, <1>8, <2>1
    <2>3. IsRed(h, child)
      <3>1. SUFFICES ASSUME ~IsRed(h, child) PROVE FALSE OBVIOUS
      <3>2. child \in M BY <1>3, <2>2
      <3>3. PICK s \in Sides : s = "left" BY DEF Sides
      <3>4. Weight(h, child) = 1 /\ b[child] = Blacks(b, h.n[child][s]) + Weight(h, child) BY <1>5, <3>1, <3>2 DEF Weight, Even
      <3>5. Blacks(b, h.n[child][s]) \in Nat \ {0} BY <1>6, <1>7, <3>2 DEF Blacks
      <3>6. b[child] = 1 BY <1>10, <2>1 DEF Blacks
      <3> QED BY <3>4, <3>5, <3>6
    <2>4. ~IsRed(h, t) BY <1>5, <1>8, <2>1, <2>3 DEF Calm
    <2>5. w = 1 BY <1>9, <2>4 DEF Weight
    <2> QED BY <2>2, <2>3, <2>4, <2>5
  <1> DEFINE b2 == [x \in M2 |-> IF x = child THEN 2 ELSE b[x]]
  <1>12. b2 \in Counts(M2) /\ \A x \in M2 : b2[x] = IF x = child THEN 2 ELSE b[x] BY <1>3, <1>5 DEF Counts
  <1> HIDE DEF b2
  <1>13. /\ g.ok /\ g.root = IF q = NULL THEN child ELSE h.root
         /\ \A z \in (M2 \cup {NULL}) \ {child} : Blacks(b2, z) = Blacks(b, z) /\ (IsRed(g, z) <=> IsRed(h, z))
         /\ child # NULL => Blacks(b2, child) = 2 /\ ~IsRed(g, child)
         /\ ~IsRed(g, NULL) /\ ~IsRed(h, NULL) /\ Blacks(b2, NULL) = 1
    <2>1. g.ok /\ g.root = IF q = NULL THEN child ELSE h.root BY <1>2, <1>4, <1>5 DEF Replaced
    <2>2. \A y \in M2 : g.n[y].color = IF y = child THEN h.n[t].color ELSE h.n[y].color BY <1>3, <1>4, <1>6 DEF Replaced
    <2>3. ASSUME NEW z \in (M2 \cup {NULL}) \ {child} PROVE Blacks(b2, z) = Blacks(b, z) /\ (IsRed(g, z) <=> IsRed(h, z))
      BY <1>12, <2>2 DEF Blacks, IsRed
    <2>4. ASSUME child # NULL PROVE Blacks(b2, child) = 2 /\ ~IsRed(g, child)
      <3>1. h.n[t].color # Red BY <1>6, <1>11, <2>4 DEF IsRed
      <3> QED BY <1>11, <1>12, <2>2, <2>4, <3>1 DEF Blacks, IsRed
    <2> QED BY <2>1, <2>3, <2>4 DEF Blacks, IsRed
  <1>14. ASSUME NEW x \in M2, NEW s \in Sides
         PROVE  /\ h.n[x][s] = t => x = q /\ g.n[x][s] = child
                /\ h.n[x][s] # t => g.n[x][s] = h.n[x][s] /\ h.n[x][s] \in (M2 \cup {NULL}) /\ (h.n[x][s] = child => child = NULL)
    <2>1. g.n[x][s] = IF x = q /\ h.n[x][s] = t THEN child ELSE h.n[x][s] BY <1>2, <1>3, <1>4, <1>6 DEF Replaced
    <2>2. h.n[x][s] = t => x = q BY <1>2, <1>3, <1>6, <1>7
    <2>3. h.n[x][s] # t => h.n[x][s] \in (M2 \cup {NULL}) BY <1>3, <1>7
    <2>4. h.n[x][s] = child => child = NULL BY <1>3, <1>7, <1>11
    <2> QED BY <2>1, <2>2, <2>3, <2>4
  <1>15. ~IsRed(g, g.root)
    <2>1. PICK lo, hi : Tree(h, M, n, p, lo, hi) BY DEF IsTree
    <2>2. h.root # NULL => h.root \in M /\ h.n[h.root].parent = NULL BY <2>1 DEF Tree, Rooted
    <2>3. CASE q = NULL BY <1>13, <2>3
    <2>4. CASE q # NULL
      <3>1. g.root = h.root /\ h.root # t BY <1>2, <1>6, <1>13, <2>2, <2>4
      <3>2. h.root \in M2 \cup {NULL} BY <1>3, <2>2, <3>1
      <3> QED BY <1>5, <1>13, <3>1, <3>2
    <2> QED BY <2>3, <2>4
  <1>16. ASSUME NEW x \in M2 PROVE Calm(g, x, NULL)
    <2>1. ASSUME IsRed(g, x), NEW s \in Sides PROVE ~IsRed(g, g.n[x][s])
      <3>1. x # child /\ IsRed(h, x) BY <1>13, <2>1
      <3>2. h.n[x][s] # NULL => ~IsRed(h, h.n[x][s]) BY <1>3, <1>5, <2>1, <3>1 DEF Calm
      <3>3. CASE h.n[x][s] = t BY <1>13, <1>14, <3>3
      <3>4. CASE h.n[x][s] # t
        <4>1. g.n[x][s] = h.n[x][s] /\ h.n[x][s] \in (M2 \cup {NULL}) /\ (h.n[x][s] = child => child = NULL) BY <1>14, <3>4
        <4> QED BY <1>13, <3>2, <4>1
      <3> QED BY <3>3, <3>4
    <2> QED BY <2>1 DEF Calm
  <1>17. ASSUME NEW x \in M2, x # q \/ r = NULL PROVE Even(g, b2, x)
    <2>1. ASSUME NEW s \in Sides, x # child PROVE Blacks(b2, g.n[x][s]) = Blacks(b, h.n[x][s])
      <3>1. CASE h.n[x][s] = t
        <4>1. x = q /\ g.n[x][s] = child /\ r = NULL BY <1>14, <1>17, <3>1
        <4>2. Blacks(b, t) = 1 + w BY <1>6, <1>10 DEF Blacks
        <4>3. q # NULL BY <1>3, <1>6, <4>1
        <4>4. CASE child = NULL
          <5>1. w = 0 BY <1>4, <1>9, <4>1, <4>3, <4>4 DEF Weight
          <5> QED BY <1>13, <3>1, <4>1, <4>2, <4>4, <5>1
        <4>5. CASE child # NULL BY <1>11, <1>13, <3>1, <4>1, <4>2, <4>5
        <4> QED BY <4>4, <4>5
      <3>2. CASE h.n[x][s] # t
        <4>1. g.n[x][s] = h.n[x][s] /\ h.n[x][s] \in (M2 \cup {NULL}) /\ (h.n[x][s] = child => child = NULL) BY <1>14, <3>2
        <4>2. Blacks(b2, NULL) = Blacks(b, NULL) BY DEF Blacks
        <4> QED BY <1>13, <4>1, <4>2
      <3> QED BY <3>1, <3>2
    <2>2. CASE x # child
      <3>1. b2[x] = b[x] /\ Weight(g, x) = Weight(h, x) /\ Even(h, b, x) BY <1>3, <1>5, <1>12, <1>13, <2>2 DEF Weight
      <3> QED BY <2>1, <2>2, <3>1 DEF Even
    <2>3. CASE x = child
      <3>1. child # NULL /\ child \in M BY <1>3, <1>6, <2>3
      <3>2. b[x] = 1 /\ Weight(h, x) = 0 /\ Weight(g, x) = 1 /\ b2[x] = 2
        BY <1>10, <1>11, <1>12, <1>13, <2>3, <3>1 DEF Blacks, Weight
      <3>3. ASSUME NEW s \in Sides PROVE b2[x] = Blacks(b2, g.n[x][s]) + Weight(g, x)
        <4>1. h.n[x][s] # t
          <5>1. SUFFICES ASSUME h.n[x][s] = t PROVE FALSE OBVIOUS
          <5>2. b[x] = Blacks(b, t) + 0 BY <1>3, <1>5, <3>2, <5>1 DEF Even
          <5>3. Blacks(b, t) = 1 + w /\ w = 1 BY <1>6, <1>10, <1>11, <3>1 DEF Blacks
          <5> QED BY <3>2, <5>2, <5>3
        <4>2. g.n[x][s] = h.n[x][s] /\ h.n[x][s] \in (M2 \cup {NULL}) /\ h.n[x][s] # child BY <1>14, <3>1, <4>1
        <4>3. Blacks(b2, g.n[x][s]) = Blacks(b, h.n[x][s]) BY <1>13, <4>2
        <4>4. b[x] = Blacks(b, h.n[x][s]) + 0 BY <1>3, <1>5, <3>2 DEF Even
        <4>5. Blacks(b, h.n[x][s]) \in Nat BY <1>3, <1>6, <4>2 DEF Blacks
        <4> QED BY <3>2, <4>3, <4>4, <4>5
      <3> QED BY <3>3 DEF Even
    <2> QED BY <2>2, <2>3
  <1>18. CASE r = NULL
    <2>1. Counted(g, M2, b2) BY <1>12, <1>13, <1>15, <1>16, <1>17, <1>18 DEF Counted
    <2> QED BY <1>3, <1>18, <2>1
  <1>19. CASE r # NULL
    <2>1. r = q /\ q \in M2 /\ child = NULL /\ ~IsRed(h, t) /\ q # NULL BY <1>4, <1>19
    <2>2. PICK side : side = SideOf(h, t, q) OBVIOUS
    <2>3. side \in Sides /\ Other(side) \in Sides /\ h.n[q][side] = t /\ h.n[q][Other(side)] # t
      BY <1>2, <2>1, <2>2, ParentSide, SideIs
    <2>4. g.n[q][side] = NULL /\ g.n[q][Other(side)] = h.n[q][Other(side)] /\ h.n[q][Other(side)] \in M2 \cup {NULL}
      BY <1>14, <2>1, <2>3
    <2>5. b2[q] = b[q] /\ Weight(g, q) = Weight(h, q) /\ Even(h, b, q) BY <1>3, <1>5, <1>12, <1>13, <2>1 DEF Weight
    <2>6. Blacks(b, t) = 2
      <3>1. w = 1 BY <1>9, <2>1 DEF Weight
      <3> QED BY <1>6, <1>10, <3>1 DEF Blacks
    <2>7. Blacks(b2, g.n[q][Other(side)]) = Blacks(b, h.n[q][Other(side)])
      <3>1. Blacks(b2, NULL) = Blacks(b, NULL) BY DEF Blacks
      <3> QED BY <1>13, <2>1, <2>4, <3>1
    <2>8. b2[q] = 2 + Weight(g, q) /\ b2[q] = Blacks(b2, g.n[q][Other(side)]) + Weight(g, q)
      BY <2>3, <2>5, <2>6, <2>7 DEF Even
    <2>9. \A x \in M2 \ {q} : Even(g, b2, x) BY <1>17
    <2>10. ShortAt(g, M2, b2, NULL, q) BY <1>12, <1>13, <1>15, <1>16, <2>3, <2>4, <2>8, <2>9, ShortFound
    <2> QED BY <1>3, <1>19, <2>1, <2>10
  <1> QED BY <1>18, <1>19

\* Unlinking a node with two children: s, the next one, gets its place and its colour.
LEMMA InnerCounts ==
  ASSUME NEW M, NEW n, NEW p, NEW h, Numbered(M, n, p), IsTree(h, M, n, p), NEW b, Counted(h, M, b), NEW t \in M,
         h.n[t].left # NULL, h.n[t].right # NULL,
         NEW lo, NEW hi, NEW s, NEW above, Tree(h, M, n, p, lo, hi), Successor(h, M, p, lo, hi, t, s, above),
         NEW g, Succeeded(h, g, t, s, above),
         NEW r, r = IF h.n[s].right = NULL /\ ~IsRed(h, s) THEN (IF above = NULL THEN s ELSE above) ELSE NULL
  PROVE  \E b2 : IF r = NULL THEN Counted(g, M \ {t}, b2) ELSE ShortAt(g, M \ {t}, b2, NULL, r)
  <1>2. PICK left : left = h.n[t].left OBVIOUS
  <1>3. PICK right : right = h.n[t].right OBVIOUS
  <1>4. PICK child2 : child2 = h.n[s].right OBVIOUS
  <1>5. PICK q : q = h.n[t].parent OBVIOUS
  <1>6. PICK right2 : right2 = IF above = NULL THEN child2 ELSE right OBVIOUS
  <1>7. PICK M2 : M2 = M \ {t} OBVIOUS
  <1>8. /\ h.ok /\ b \in Counts(M) /\ ~IsRed(h, h.root)
        /\ \A x \in M : Even(h, b, x) /\ Calm(h, x, NULL)
    BY DEF Counted
  <1>9. h \in Heap /\ M \in SUBSET Nodes /\ NULL \notin M /\ \A x \in M : b[x] \in Nat \ {0}
    BY <1>8, InTree DEF Counts
  <1>10. \A x \in M : \A d \in Sides : h.n[x][d] # NULL => h.n[x][d] \in M /\ h.n[h.n[x][d]].parent = x /\ h.n[x][d] # x
    BY ChildIn
  <1>11. /\ left \in M2 /\ right \in M2 /\ h.n[left].parent = t /\ h.n[right].parent = t
         /\ child2 # NULL => child2 \in M2 /\ h.n[child2].parent = s /\ child2 # above
         /\ (above = NULL => h.n[s].parent = t) /\ (above # NULL => h.n[s].parent = above)
         /\ t \notin {s, left, right, child2, above, q} /\ s \notin {left, child2, above, q}
         /\ left \notin {right, child2} /\ (above # NULL => right # child2)
    <2>1. /\ left \in M /\ h.n[left].parent = t /\ lo[left] = lo[t] /\ hi[left] = p[t] - 1
          /\ right \in M /\ h.n[right].parent = t /\ lo[right] = p[t] + 1 /\ hi[right] = hi[t]
          /\ child2 # NULL => child2 \in M /\ h.n[child2].parent = s /\ lo[child2] = p[t] + 2 /\ hi[child2] = hi[s]
          /\ child2 = NULL => hi[s] = p[t] + 1
          /\ lo[s] = p[t] + 1
          /\ above = NULL => h.n[s].parent = t /\ hi[s] = hi[t]
          /\ above # NULL => h.n[s].parent = above /\ hi[s] = p[above] - 1 /\ p[above] > p[t] + 1
          /\ t \notin {s, left, right, child2, above, q} /\ s \notin {left, child2, above, q}
          /\ left \notin {right, child2} /\ (above # NULL => right # child2)
      BY <1>2, <1>3, <1>4, <1>5, SuccessorPlaces
    <2>2. above # NULL => lo[above] = p[t] + 1 BY DEF Successor
    <2>3. p[t] \in Int BY Numbers
    <2>4. child2 # NULL => child2 # above
      <3>1. SUFFICES ASSUME child2 # NULL, child2 = above PROVE FALSE OBVIOUS
      <3>2. p[t] + 2 = p[t] + 1 BY <2>1, <2>2, <3>1
      <3> QED BY <2>3, <3>2
    <2> QED BY <1>7, <2>1, <2>4
  <1>12. /\ s \in M2 /\ s # NULL /\ h.n[s].left = NULL
         /\ (above = NULL => s = right) /\ (above # NULL => above \in M2 /\ h.n[above].left = s /\ s # right)
    BY <1>3, <1>7, <1>9, <1>11 DEF Successor
  <1>13. right2 # t /\ right2 # s /\ right2 # NULL => right2 \in M2 BY <1>6, <1>11
  <1>14. PICK w \in {0, 1} : w = Weight(h, s) BY DEF Weight
  <1>15. Blacks(b, child2) = 1 /\ b[s] = 1 + w /\ Blacks(b, s) = 1 + w
    <2>1. "left" \in Sides /\ "right" \in Sides BY DEF Sides
    <2>2. b[s] = Blacks(b, NULL) + w /\ b[s] = Blacks(b, child2) + w BY <1>4, <1>7, <1>8, <1>12, <1>14, <2>1 DEF Even
    <2>3. Blacks(b, NULL) = 1 BY DEF Blacks
    <2>4. Blacks(b, child2) \in Nat BY <1>7, <1>9, <1>11 DEF Blacks
    <2>5. Blacks(b, s) = b[s] BY <1>12 DEF Blacks
    <2> QED BY <2>2, <2>3, <2>4, <2>5
  <1>16. child2 # NULL => IsRed(h, child2) /\ ~IsRed(h, s) /\ w = 1 /\ b[child2] = 1
    <2>1. SUFFICES ASSUME child2 # NULL PROVE IsRed(h, child2) /\ ~IsRed(h, s) /\ w = 1 /\ b[child2] = 1 OBVIOUS
    <2>2. child2 \in M /\ b[child2] = 1 BY <1>7, <1>11, <1>15, <2>1 DEF Blacks
    <2>3. IsRed(h, child2)
      <3>1. SUFFICES ASSUME ~IsRed(h, child2) PROVE FALSE OBVIOUS
      <3>2. PICK d \in Sides : d = "left" BY DEF Sides
      <3>3. Weight(h, child2) = 1 /\ b[child2] = Blacks(b, h.n[child2][d]) + Weight(h, child2) BY <1>8, <2>2, <3>1 DEF Weight, Even
      <3>4. Blacks(b, h.n[child2][d]) \in Nat \ {0} BY <1>9, <1>10, <2>2 DEF Blacks
      <3> QED BY <2>2, <3>3, <3>4
    <2>4. ~IsRed(h, s)
      <3>1. "right" \in Sides /\ h.n[s]["right"] = child2 BY <1>4 DEF Sides
      <3> QED BY <1>7, <1>8, <1>12, <2>1, <2>3, <3>1 DEF Calm
    <2>5. w = 1 BY <1>14, <2>4 DEF Weight
    <2> QED BY <2>2, <2>3, <2>4, <2>5
  <1> DEFINE b2 == [x \in M2 |-> IF x = s THEN b[t] ELSE IF x = child2 THEN 2 ELSE b[x]]
             Rest == {z \in (M2 \cup {NULL}) \ {s} : z = child2 => z = NULL}
  <1>17. b2 \in Counts(M2) /\ \A x \in M2 : b2[x] = IF x = s THEN b[t] ELSE IF x = child2 THEN 2 ELSE b[x]
    BY <1>7, <1>8 DEF Counts
  <1> HIDE DEF b2
  <1>18. /\ g.ok /\ g.root = IF q = NULL THEN s ELSE h.root
         /\ \A z \in Rest : Blacks(b2, z) = Blacks(b, z) /\ (IsRed(g, z) <=> IsRed(h, z))
         /\ child2 # NULL => Blacks(b2, child2) = 2 /\ ~IsRed(g, child2)
         /\ Blacks(b2, s) = Blacks(b, t) /\ Blacks(b, t) = b[t] /\ (IsRed(g, s) <=> IsRed(h, t))
         /\ ~IsRed(g, NULL) /\ ~IsRed(h, NULL) /\ Blacks(b2, NULL) = 1 /\ Blacks(b, NULL) = 1
    <2>1. g.ok /\ g.root = IF q = NULL THEN s ELSE h.root BY <1>5, <1>8 DEF Succeeded
    <2>2. \A y \in M2 : g.n[y].color = IF y = s THEN h.n[t].color ELSE IF y = child2 THEN Black ELSE h.n[y].color
      BY <1>4, <1>7, <1>9 DEF Succeeded
    <2>3. ASSUME NEW z \in Rest PROVE Blacks(b2, z) = Blacks(b, z) /\ (IsRed(g, z) <=> IsRed(h, z))
      BY <1>17, <2>2 DEF Blacks, IsRed
    <2>4. ASSUME child2 # NULL PROVE Blacks(b2, child2) = 2 /\ ~IsRed(g, child2)
      <3>1. Red # Black BY DEF Red, Black
      <3> QED BY <1>11, <1>17, <2>2, <2>4, <3>1 DEF Blacks, IsRed
    <2>5. Blacks(b2, s) = Blacks(b, t) /\ Blacks(b, t) = b[t] /\ (IsRed(g, s) <=> IsRed(h, t))
      BY <1>9, <1>12, <1>17, <2>2 DEF Blacks, IsRed
    <2> QED BY <2>1, <2>3, <2>4, <2>5 DEF Blacks, IsRed
  <1>19. /\ g.n[s].left = left /\ g.n[s].right = right2
         /\ above # NULL => g.n[above].left = child2
         /\ \A x \in M2 \ {s} : \A d \in Sides :
              ~(x = above /\ d = "left") => /\ h.n[x][d] = t => g.n[x][d] = s
                                            /\ h.n[x][d] # t => g.n[x][d] = h.n[x][d] /\ h.n[x][d] \in Rest
    <2>1. \A y \in M2 : \A d \in Sides :
            g.n[y][d] = IF y = s THEN (IF d = "left" THEN left ELSE right2)
                        ELSE IF y = above /\ d = "left" THEN child2
                        ELSE IF y = q /\ h.n[y][d] = t THEN s ELSE h.n[y][d]
      BY <1>2, <1>3, <1>4, <1>5, <1>6, <1>7, <1>9 DEF Succeeded
    <2>2. "left" \in Sides /\ "right" \in Sides /\ "right" # "left" BY DEF Sides
    <2>3. g.n[s]["left"] = left /\ g.n[s]["right"] = right2 BY <1>12, <2>1, <2>2
    <2>4. above # NULL => g.n[above]["left"] = child2 BY <1>11, <1>12, <2>1, <2>2
    <2>5. ASSUME NEW x \in M2 \ {s}, NEW d \in Sides, ~(x = above /\ d = "left")
          PROVE  /\ h.n[x][d] = t => g.n[x][d] = s
                 /\ h.n[x][d] # t => g.n[x][d] = h.n[x][d] /\ h.n[x][d] \in Rest
      <3>1. g.n[x][d] = IF x = q /\ h.n[x][d] = t THEN s ELSE h.n[x][d] BY <2>1, <2>5
      <3>2. h.n[x][d] = t => x = q BY <1>5, <1>7, <1>9, <1>10
      <3>3. ASSUME h.n[x][d] # t PROVE h.n[x][d] \in Rest
        <4>1. h.n[x][d] \in M2 \cup {NULL} BY <1>7, <1>10, <3>3
        <4>2. child2 # NULL => h.n[x][d] # child2 BY <1>7, <1>10, <1>11
        <4>3. h.n[x][d] # s
          <5>1. SUFFICES ASSUME h.n[x][d] = s PROVE FALSE OBVIOUS
          <5>2. above # NULL /\ x = above BY <1>7, <1>10, <1>11, <1>12, <5>1
          <5>3. d = "right" BY <2>5, <5>2 DEF Sides
          <5>4. h.n[above]["left"] = s /\ h.n[above]["right"] = s BY <1>12, <5>1, <5>2, <5>3
          <5>5. SideOf(h, s, above) \in Sides /\ h.n[above][Other(SideOf(h, s, above))] # s BY <1>7, <1>11, <1>12, <5>2, ParentSide
          <5> QED BY <5>4, <5>5 DEF Sides, Other
        <4> QED BY <1>12, <4>1, <4>2, <4>3
      <3> QED BY <3>1, <3>2, <3>3
    <2> QED BY <2>3, <2>4, <2>5
  <1>20. "left" \in Sides /\ "right" \in Sides /\ (\A d \in Sides : d = "left" \/ d = "right")
         /\ Other("left") = "right" /\ Other("right") = "left" /\ "right" # "left"
    BY DEF Sides, Other
  <1>21. left \in Rest /\ (above # NULL => right \in Rest /\ right2 = right) /\ (above = NULL => right2 = child2)
    BY <1>6, <1>11, <1>12
  <1>22. ~IsRed(g, g.root)
    <2>2. h.root # NULL => h.root \in M /\ h.n[h.root].parent = NULL BY DEF Tree, Rooted
    <2>3. CASE q = NULL
      <3>1. t = h.root
        <4>1. Hangs(h, M, t) BY Numbers
        <4> QED BY <1>5, <2>3, <4>1 DEF Hangs
      <3> QED BY <1>8, <1>18, <2>3, <3>1
    <2>4. CASE q # NULL
      <3>1. g.root = h.root /\ h.root # t BY <1>5, <1>9, <1>18, <2>2, <2>4
      <3>2. h.root # s BY <1>9, <1>11, <1>12, <2>2
      <3>3. CASE h.root = child2 BY <1>18, <3>1, <3>3
      <3>4. CASE h.root # child2
        <4>1. h.root \in Rest BY <1>7, <2>2, <3>1, <3>2, <3>4
        <4> QED BY <1>8, <1>18, <3>1, <4>1
      <3> QED BY <3>3, <3>4
    <2> QED BY <2>3, <2>4
  <1>23. ASSUME NEW x \in M2 PROVE Calm(g, x, NULL)
    <2>1. ASSUME IsRed(g, x), NEW d \in Sides PROVE ~IsRed(g, g.n[x][d])
      <3>1. x # child2 /\ x # NULL BY <1>7, <1>9, <1>18, <2>1
      <3>2. CASE x = s
        <4>1. IsRed(h, t) BY <1>18, <2>1, <3>2
        <4>2. h.n[t]["left"] = left /\ h.n[t]["right"] = right /\ left # NULL /\ right # NULL BY <1>2, <1>3
        <4>3. ~IsRed(h, left) /\ ~IsRed(h, right) BY <1>8, <1>20, <4>1, <4>2 DEF Calm
        <4>4. ~IsRed(g, left) BY <1>18, <1>21, <4>3
        <4>5. ~IsRed(g, right2) BY <1>18, <1>21, <4>3
        <4>6. g.n[s]["left"] = left /\ g.n[s]["right"] = right2 BY <1>19
        <4> QED BY <1>20, <3>2, <4>4, <4>5, <4>6
      <3>3. CASE x # s /\ x = above /\ d = "left"
        <4>1. g.n[above]["left"] = child2 BY <1>19, <3>1, <3>3
        <4> QED BY <1>18, <3>3, <4>1
      <3>4. CASE x # s /\ ~(x = above /\ d = "left")
        <4>1. IsRed(h, x)
          <5>1. x \in Rest BY <3>1, <3>4
          <5> QED BY <1>18, <2>1, <5>1
        <4>2. h.n[x][d] # NULL => ~IsRed(h, h.n[x][d]) BY <1>7, <1>8, <2>1, <4>1 DEF Calm
        <4>3. CASE h.n[x][d] = t BY <1>9, <1>18, <1>19, <3>4, <4>2, <4>3
        <4>4. CASE h.n[x][d] # t
          <5>1. g.n[x][d] = h.n[x][d] /\ h.n[x][d] \in Rest BY <1>19, <3>4, <4>4
          <5> QED BY <1>18, <4>2, <5>1
        <4> QED BY <4>3, <4>4
      <3> QED BY <3>2, <3>3, <3>4
    <2> QED BY <2>1 DEF Calm
  <1>24. r = NULL => Blacks(b2, child2) = Blacks(b, s)
    <2>1. SUFFICES ASSUME r = NULL PROVE Blacks(b2, child2) = Blacks(b, s) OBVIOUS
    <2>2. CASE child2 # NULL BY <1>15, <1>16, <1>18, <2>2
    <2>3. CASE child2 = NULL
      <3>1. IsRed(h, s) BY <1>4, <1>12, <2>1, <2>3
      <3>2. w = 0 BY <1>14, <3>1 DEF Weight
      <3> QED BY <1>15, <1>18, <2>3, <3>2
    <2> QED BY <2>2, <2>3
  <1>25. \A x \in M2 \ {s} : \A d \in Sides : ~(x = above /\ d = "left") => Blacks(b2, g.n[x][d]) = Blacks(b, h.n[x][d])
    BY <1>18, <1>19
  <1>26. /\ b2[s] = Blacks(b2, left) + Weight(g, s)
         /\ b2[s] = Blacks(b, right) + Weight(g, s)
         /\ above # NULL => b2[s] = Blacks(b2, right2) + Weight(g, s)
    <2>1. Weight(g, s) = Weight(h, t) /\ b2[s] = b[t] BY <1>12, <1>17, <1>18 DEF Weight
    <2>2. h.n[t]["left"] = left /\ h.n[t]["right"] = right BY <1>2, <1>3
    <2>3. b[t] = Blacks(b, left) + Weight(h, t) /\ b[t] = Blacks(b, right) + Weight(h, t) BY <1>8, <1>20, <2>2 DEF Even
    <2>4. Blacks(b2, left) = Blacks(b, left) /\ (above # NULL => Blacks(b2, right2) = Blacks(b, right)) BY <1>18, <1>21
    <2> QED BY <2>1, <2>3, <2>4
  <1>27. ASSUME NEW x \in M2, r = NULL \/ x # r PROVE Even(g, b2, x)
    <2>1. CASE x = s
      <3>1. g.n[s]["left"] = left /\ g.n[s]["right"] = right2 BY <1>19
      <3>2. b2[s] = Blacks(b2, right2) + Weight(g, s)
        <4>1. CASE above # NULL BY <1>26, <4>1
        <4>2. CASE above = NULL
          <5>1. r = NULL BY <1>27, <2>1, <4>2
          <5> QED BY <1>12, <1>21, <1>24, <1>26, <4>2, <5>1
        <4> QED BY <4>1, <4>2
      <3> QED BY <1>20, <1>26, <2>1, <3>1, <3>2 DEF Even
    <2>2. CASE x # s
      <3>1. ASSUME NEW d \in Sides PROVE Blacks(b2, g.n[x][d]) = Blacks(b, h.n[x][d])
        <4>1. CASE x = above /\ d = "left"
          <5>1. above # NULL BY <1>7, <1>9, <4>1
          <5>2. r = NULL BY <1>27, <4>1, <5>1
          <5>3. g.n[above]["left"] = child2 /\ h.n[above]["left"] = s BY <1>12, <1>19, <5>1
          <5> QED BY <1>24, <4>1, <5>2, <5>3
        <4>2. CASE ~(x = above /\ d = "left") BY <1>25, <2>2, <4>2
        <4> QED BY <4>1, <4>2
      <3>2. Even(h, b, x) BY <1>7, <1>8
      <3>3. CASE x = child2
        <4>1. child2 # NULL BY <1>7, <1>9, <3>3
        <4>2. b[x] = 1 /\ Weight(h, x) = 0 /\ Weight(g, x) = 1 /\ b2[x] = 2 BY <1>16, <1>17, <1>18, <2>2, <3>3, <4>1 DEF Weight
        <4>3. ASSUME NEW d \in Sides PROVE b2[x] = Blacks(b2, g.n[x][d]) + Weight(g, x)
          <5>1. b[x] = Blacks(b, h.n[x][d]) + 0 BY <3>2, <4>2 DEF Even
          <5>2. Blacks(b, h.n[x][d]) \in Nat BY <1>7, <1>9, <1>10 DEF Blacks
          <5> QED BY <3>1, <4>2, <5>1, <5>2
        <4> QED BY <4>3 DEF Even
      <3>4. CASE x # child2
        <4>1. b2[x] = b[x] BY <1>17, <2>2, <3>4
        <4>2. Weight(g, x) = Weight(h, x)
          <5>1. x \in Rest BY <2>2, <3>4
          <5> QED BY <1>18, <5>1 DEF Weight
        <4> QED BY <3>1, <3>2, <4>1, <4>2 DEF Even
      <3> QED BY <3>3, <3>4
    <2> QED BY <2>1, <2>2
  <1>28. CASE r = NULL
    <2>1. Counted(g, M2, b2) BY <1>17, <1>18, <1>22, <1>23, <1>27, <1>28 DEF Counted
    <2> QED BY <1>7, <1>28, <2>1
  <1>29. CASE r # NULL
    <2>1. child2 = NULL /\ ~IsRed(h, s) /\ r = (IF above = NULL THEN s ELSE above) BY <1>4, <1>29
    <2>2. Blacks(b, s) = 2
      <3>1. w = 1 BY <1>14, <2>1 DEF Weight
      <3> QED BY <1>15, <3>1
    <2>3. \A x \in M2 \ {r} : Even(g, b2, x) BY <1>27
    <2>4. CASE above = NULL
      <3>1. r = s /\ g.n[s]["right"] = NULL /\ g.n[s][Other("right")] = left BY <1>19, <1>20, <1>21, <2>1, <2>4
      <3>2. b2[s] = 2 + Weight(g, s) /\ b2[s] = Blacks(b2, left) + Weight(g, s) BY <1>12, <1>26, <2>2, <2>4
      <3>3. ShortAt(g, M2, b2, NULL, s) BY <1>17, <1>18, <1>20, <1>22, <1>23, <2>3, <3>1, <3>2, ShortFound
      <3> QED BY <1>7, <1>29, <3>1, <3>3
    <2>5. CASE above # NULL
      <3>1. r = above /\ above \in M2 /\ above # s /\ g.n[above]["left"] = NULL BY <1>11, <1>12, <1>19, <2>1, <2>5
      <3>2. Blacks(b2, g.n[above]["right"]) = Blacks(b, h.n[above]["right"]) BY <1>20, <1>25, <3>1
      <3>3. b2[above] = b[above] /\ Weight(g, above) = Weight(h, above) /\ Even(h, b, above)
        <4>1. above \in Rest /\ above # child2 BY <2>1, <2>5, <3>1
        <4> QED BY <1>7, <1>8, <1>17, <1>18, <3>1, <4>1 DEF Weight
      <3>4. h.n[above]["left"] = s BY <1>12, <2>5
      <3>5. b2[above] = 2 + Weight(g, above) /\ b2[above] = Blacks(b2, g.n[above][Other("left")]) + Weight(g, above)
        BY <1>20, <2>2, <3>2, <3>3, <3>4 DEF Even
      <3>6. ShortAt(g, M2, b2, NULL, above) BY <1>17, <1>18, <1>20, <1>22, <1>23, <2>3, <3>1, <3>5, ShortFound
      <3> QED BY <1>7, <1>29, <3>1, <3>6
    <2> QED BY <2>4, <2>5
  <1> QED BY <1>28, <1>29

\* rb_erase keeps a red-black tree.
LEMMA ErasedCounts ==
  ASSUME NEW M, NEW n, NEW p, NEW h, Numbered(M, n, p), IsTree(h, M, n, p), \E b : Counted(h, M, b), NEW t \in M
  PROVE  \E b2 : Counted(rb_erase(h, t), M \ {t}, b2)
  <1>1. PICK b : Counted(h, M, b) OBVIOUS
  <1>2. PICK e : e = __rb_erase_augmented(h, t) OBVIOUS
  <1>3. PICK M2 : M2 = M \ {t} OBVIOUS
  <1>4. /\ IsTree(e.h, M2, n - 1, Closed(M, p, t)) /\ (e.rebalance # NULL => e.rebalance \in M2)
        /\ \E b2 : IF e.rebalance = NULL THEN Counted(e.h, M2, b2) ELSE ShortAt(e.h, M2, b2, NULL, e.rebalance)
    <2>1. CASE h.n[t].left = NULL \/ h.n[t].right = NULL
      <3>1. e = EraseOuter(h, t) BY <1>2, <2>1 DEF __rb_erase_augmented
      <3>2. IsTree(e.h, M2, n - 1, Closed(M, p, t)) /\ (e.rebalance # NULL => e.rebalance \in M2)
        BY <1>3, <2>1, <3>1, OuterTree
      <3> QED BY <1>1, <1>3, <2>1, <3>1, <3>2, OuterCounts
    <2>2. CASE h.n[t].left # NULL /\ h.n[t].right # NULL
      <3>1. e = EraseInner(h, t) BY <1>2, <2>2 DEF __rb_erase_augmented
      <3>2. /\ IsTree(e.h, M2, n - 1, Closed(M, p, t)) /\ (e.rebalance # NULL => e.rebalance \in M2)
            /\ \E lo, hi, s, above :
                 /\ Tree(h, M, n, p, lo, hi) /\ Successor(h, M, p, lo, hi, t, s, above)
                 /\ Succeeded(h, e.h, t, s, above)
                 /\ e.rebalance = IF h.n[s].right = NULL /\ ~IsRed(h, s) THEN (IF above = NULL THEN s ELSE above) ELSE NULL
        BY <1>3, <2>2, <3>1, InnerTree
      <3> QED BY <1>1, <1>3, <2>2, <3>2, InnerCounts
    <2> QED BY <2>1, <2>2
  <1>5. rb_erase(h, t) = IF e.rebalance = NULL THEN e.h ELSE ____rb_erase_color(e.h, e.rebalance) BY <1>2 DEF rb_erase
  <1>6. Numbered(M2, n - 1, Closed(M, p, t)) BY <1>3, ClosedNumbers
  <1>7. CASE e.rebalance = NULL BY <1>3, <1>4, <1>5, <1>7
  <1>8. CASE e.rebalance # NULL
    <2>1. PICK b2 : ShortAt(e.h, M2, b2, NULL, e.rebalance) BY <1>4, <1>8
    <2>2. \E b3 : Counted(____rb_erase_color(e.h, e.rebalance), M2, b3) BY <1>4, <1>6, <1>8, <2>1, EraseColorCounts
    <2> QED BY <1>3, <1>5, <1>8, <2>2
  <1> QED BY <1>7, <1>8

\* height[k][y] is the number of black nodes met in at most k steps from y to the left.
Heights(height, h, fuel) ==
  /\ height \in [0 .. fuel -> [Pointer -> Nat]]
  /\ \A k \in 0 .. fuel : height[k][NULL] = 1
  /\ \A k \in 1 .. fuel : \A y \in Nodes : height[k][y] = height[k - 1][h.n[y].left] + Weight(h, y)

LEMMA HeightGoes ==
  ASSUME NEW h \in Heap
  PROVE  \E height : /\ Heights(height, h, Cardinality(Nodes))
                     /\ \A x \in Pointer : BlackHeight(h, x) = height[Cardinality(Nodes)][x]
  <1> DEFINE fuel == Cardinality(Nodes)
             T == [Pointer -> Nat]
             turn(k, f) == [y \in Pointer |-> IF y = NULL \/ k = 0 THEN 1
                                              ELSE f[k - 1][h.n[y].left] + IF IsRed(h, y) THEN 0 ELSE 1]
             step == [w \in T |-> [y \in Pointer |-> IF y = NULL THEN 1
                                                     ELSE w[h.n[y].left] + IF IsRed(h, y) THEN 0 ELSE 1]]
             one == [y \in Pointer |-> 1]
             f0 == CHOOSE f : f = [k \in 0 .. fuel |-> turn(k, f)]
  <1>1. fuel \in Nat BY FS_CardinalityType, TreeAssumption
  <1>2. \A x \in Pointer : BlackHeight(h, x) = f0[fuel][x] BY DEF BlackHeight
  <1> HIDE DEF fuel
  <1>3. one \in T OBVIOUS
  <1>4. step \in [T -> T]
    <2>1. ASSUME NEW w \in T, NEW y \in Pointer
          PROVE  (IF y = NULL THEN 1 ELSE w[h.n[y].left] + IF IsRed(h, y) THEN 0 ELSE 1) \in Nat
      <3>1. CASE y = NULL BY <3>1
      <3>2. CASE y # NULL
        <4>1. y \in Nodes BY <3>2 DEF Pointer
        <4>2. h.n[y].left \in Pointer BY <4>1, Field DEF Sides
        <4>3. w[h.n[y].left] \in Nat BY <4>2
        <4> QED BY <3>2, <4>3
      <3> QED BY <3>1, <3>2
    <2>2. ASSUME NEW w \in T
          PROVE  [y \in Pointer |-> IF y = NULL THEN 1 ELSE w[h.n[y].left] + IF IsRed(h, y) THEN 0 ELSE 1] \in T
      BY <2>1, Zenon
    <2> QED BY <2>2, Zenon
  <1>5. PICK height \in [0 .. fuel -> T] : Follows(height, fuel, one, [i \in 1 .. fuel |-> step])
    <2> HIDE DEF T, one, step
    <2>1. [i \in 1 .. fuel |-> step] \in [1 .. fuel -> [T -> T]] BY <1>4
    <2> QED BY <1>1, <1>3, <2>1, Recursion
  <1>6. ASSUME NEW k \in 0 .. fuel PROVE height[k] = turn(k, height)
    <2>1. CASE k = 0
      <3>1. height[0] = one BY <1>5 DEF Follows
      <3>2. turn(0, height) = one OBVIOUS
      <3> QED BY <2>1, <3>1, <3>2
    <2>2. CASE k # 0
      <3>1. k \in 1 .. fuel /\ k - 1 \in 0 .. fuel BY <1>1, <2>2
      <3>2. height[k] = step[height[k - 1]] /\ height[k - 1] \in T BY <1>5, <3>1 DEF Follows
      <3>3. step[height[k - 1]] = [y \in Pointer |-> IF y = NULL THEN 1
                                     ELSE height[k - 1][h.n[y].left] + IF IsRed(h, y) THEN 0 ELSE 1] BY <3>2
      <3>4. turn(k, height) = [y \in Pointer |-> IF y = NULL THEN 1
                                 ELSE height[k - 1][h.n[y].left] + IF IsRed(h, y) THEN 0 ELSE 1] BY <2>2
      <3> QED BY <3>2, <3>3, <3>4
    <2> QED BY <2>1, <2>2
  <1>7. height = [k \in 0 .. fuel |-> turn(k, height)]
    <2> HIDE DEF T, turn
    <2> QED BY <1>5, <1>6
  <1>8. f0 = [k \in 0 .. fuel |-> turn(k, f0)]
    <2> HIDE DEF turn
    <2> QED BY <1>7
  <1>9. ASSUME NEW k \in 0 .. fuel PROVE f0[k] = turn(k, f0)
    <2> HIDE DEF turn, f0
    <2> QED BY <1>8
  <1> HIDE DEF f0
  <1> DEFINE I == {k \in 0 .. fuel : f0[k] = height[k]}
  <1>10. 0 .. fuel \subseteq I
    <2>1. 0 \in I
      <3>1. turn(0, f0) = turn(0, height) OBVIOUS
      <3> HIDE DEF turn
      <3> QED BY <1>1, <1>6, <1>9, <3>1
    <2>2. ASSUME NEW k \in 0 .. fuel - 1, k \in I PROVE k + 1 \in I
      <3>1. k + 1 \in 0 .. fuel /\ (k + 1) - 1 = k /\ k + 1 # 0 BY <1>1
      <3>2. f0[k] = height[k] BY <2>2
      <3>3. turn(k + 1, f0) = turn(k + 1, height) BY <3>1, <3>2, Zenon
      <3> HIDE DEF turn
      <3> QED BY <1>6, <1>9, <3>1, <3>3
    <2> HIDE DEF I
    <2> QED BY <1>1, <2>1, <2>2, InductionUpTo
  <1>11. f0[fuel] = height[fuel] BY <1>1, <1>10
  <1>12. Heights(height, h, fuel)
    <2>1. NULL \in Pointer /\ NULL \notin Nodes /\ Nodes \subseteq Pointer BY TreeAssumption DEF Pointer
    <2>2. ASSUME NEW k \in 0 .. fuel PROVE height[k][NULL] = 1
      <3>1. height[k] = turn(k, height)
        <4> HIDE DEF turn
        <4> QED BY <1>6
      <3> QED BY <2>1, <3>1
    <2>3. ASSUME NEW k \in 1 .. fuel, NEW y \in Nodes
          PROVE  height[k][y] = height[k - 1][h.n[y].left] + Weight(h, y)
      <3>1. height[k] = turn(k, height) /\ k # 0
        <4>1. k \in 0 .. fuel /\ k # 0 BY <1>1
        <4> HIDE DEF turn
        <4> QED BY <1>6, <4>1
      <3>2. height[k][y] = height[k - 1][h.n[y].left] + IF IsRed(h, y) THEN 0 ELSE 1 BY <2>1, <3>1
      <3> QED BY <3>2 DEF Weight
    <2> QED BY <1>5, <2>2, <2>3 DEF Heights
  <1> QED BY <1>2, <1>11, <1>12 DEF fuel

\* The number of black nodes on the way to the left is the count.
LEMMA HeightIs ==
  ASSUME NEW M, NEW n, NEW p, NEW h, NEW b, Numbered(M, n, p), IsTree(h, M, n, p), Counted(h, M, b),
         NEW x \in M \cup {NULL}
  PROVE  BlackHeight(h, x) = Blacks(b, x)
  <1>1. PICK lo, hi : Tree(h, M, n, p, lo, hi) BY DEF IsTree
  <1>2. PICK fuel : fuel = Cardinality(Nodes) OBVIOUS
  <1>3. fuel \in Nat /\ n <= fuel BY <1>2, Bounded, FS_CardinalityType, TreeAssumption
  <1>4. h \in Heap /\ M \in SUBSET Nodes /\ NULL \notin M BY <1>1, TreeAssumption DEF Tree, Numbered
  <1>5. PICK height : Heights(height, h, fuel) /\ \A y \in Pointer : BlackHeight(h, y) = height[fuel][y]
    BY <1>2, <1>4, HeightGoes
  <1>6. \A y \in M : /\ lo[y] \in Int /\ hi[y] \in Int /\ p[y] \in Int /\ n \in Nat /\ Below(h, M, p, lo, hi, y)
                     /\ 1 <= lo[y] /\ lo[y] <= p[y] /\ p[y] <= hi[y] /\ hi[y] <= n
    BY <1>1, Numbers
  <1> DEFINE I == {k \in 0 .. fuel : \A y \in M : hi[y] - lo[y] < k => height[k][y] = b[y]}
  <1>7. 0 \in I BY <1>3, <1>6
  <1>8. ASSUME NEW k \in 0 .. fuel - 1, k \in I PROVE k + 1 \in I
    <2>1. k + 1 \in 1 .. fuel /\ (k + 1) - 1 = k /\ k + 1 \in 0 .. fuel /\ k \in 0 .. fuel BY <1>3
    <2>2. ASSUME NEW y \in M, hi[y] - lo[y] < k + 1 PROVE height[k + 1][y] = b[y]
      <3>1. PICK l : l = h.n[y].left OBVIOUS
      <3>2. height[k + 1][y] = height[k][l] + Weight(h, y) BY <1>4, <1>5, <2>1, <3>1 DEF Heights
      <3>3. height[k][l] = Blacks(b, l)
        <4>1. CASE l = NULL BY <1>5, <2>1, <4>1 DEF Heights, Blacks
        <4>2. CASE l # NULL
          <5>1. l \in M /\ lo[l] = lo[y] /\ hi[l] = p[y] - 1 BY <1>6, <3>1, <4>2 DEF Below
          <5>2. hi[l] - lo[l] < k BY <1>6, <2>1, <2>2, <5>1
          <5>3. height[k][l] = b[l] BY <1>8, <5>1, <5>2
          <5> QED BY <4>2, <5>3 DEF Blacks
        <4> QED BY <4>1, <4>2
      <3>4. b[y] = Blacks(b, h.n[y]["left"]) + Weight(h, y) BY DEF Counted, Even, Sides
      <3> QED BY <3>1, <3>2, <3>3, <3>4
    <2> QED BY <2>1, <2>2
  <1>9. 0 .. fuel \subseteq I
    <2> HIDE DEF I
    <2> QED BY <1>3, <1>7, <1>8, InductionUpTo
  <1>10. CASE x = NULL
    <2>1. NULL \in Pointer /\ fuel \in 0 .. fuel BY <1>3 DEF Pointer
    <2> QED BY <1>5, <1>10, <2>1 DEF Heights, Blacks
  <1>11. CASE x # NULL
    <2>1. x \in M /\ x \in Pointer BY <1>4, <1>11 DEF Pointer
    <2>2. hi[x] - lo[x] < fuel BY <1>3, <1>6, <2>1
    <2>3. fuel \in I BY <1>3, <1>9
    <2>4. height[fuel][x] = b[x] BY <2>1, <2>2, <2>3
    <2> QED BY <1>5, <1>11, <2>1, <2>4 DEF Blacks
  <1> QED BY <1>10, <1>11

LEMMA CountedBalanced ==
  ASSUME NEW M, NEW n, NEW p, NEW h, NEW b, Numbered(M, n, p), IsTree(h, M, n, p), Counted(h, M, b)
  PROVE  h.ok /\ Linked(h, M) /\ Balanced(h, M)
  <1>1. PICK lo, hi : Tree(h, M, n, p, lo, hi) BY DEF IsTree
  <1>2. /\ Rooted(h, M, n, lo, hi) /\ M \in SUBSET Nodes /\ NULL \notin M /\ \A x \in M : Below(h, M, p, lo, hi, x)
    BY <1>1, TreeAssumption DEF Tree, Numbered
  <1>3. Linked(h, M) BY <1>2 DEF Linked, Rooted, Below
  <1>4. h.ok /\ b \in [M -> Nat \ {0}] /\ ~IsRed(h, h.root) /\ \A x \in M : Even(h, b, x) /\ Calm(h, x, NULL)
    BY DEF Counted, Counts
  <1>5. ASSUME NEW x \in M
        PROVE  /\ IsRed(h, x) => ~IsRed(h, h.n[x].left) /\ ~IsRed(h, h.n[x].right)
               /\ BlackHeight(h, h.n[x].left) = BlackHeight(h, h.n[x].right)
    <2>1. PICK l, r : l = h.n[x].left /\ r = h.n[x].right OBVIOUS
    <2>2. l \in M \cup {NULL} /\ r \in M \cup {NULL} BY <1>2, <2>1 DEF Below
    <2>3. IsRed(h, x) => ~IsRed(h, l) /\ ~IsRed(h, r)
      <3>1. Calm(h, x, NULL) BY <1>4
      <3> QED BY <2>1, <3>1 DEF Calm, Sides, IsRed
    <2>4. Even(h, b, x) BY <1>4
    <2>5. b[x] = Blacks(b, l) + Weight(h, x) /\ b[x] = Blacks(b, r) + Weight(h, x) BY <2>1, <2>4 DEF Even, Sides
    <2>6. Blacks(b, l) \in Nat /\ Blacks(b, r) \in Nat BY <1>4, <2>2 DEF Blacks
    <2>7. Weight(h, x) \in {0, 1} BY DEF Weight
    <2>8. Blacks(b, l) = Blacks(b, r) BY <2>5, <2>6, <2>7
    <2>9. BlackHeight(h, l) = Blacks(b, l) /\ BlackHeight(h, r) = Blacks(b, r) BY <2>2, HeightIs
    <2> QED BY <2>1, <2>3, <2>8, <2>9
  <1> QED BY <1>3, <1>4, <1>5 DEF Balanced

-----------------------------------------------------------------------------
(* The run queue: the tree holds the queued tasks in order, and stays red-black *)

\* A sequence with every member at its place is the order.
LEMMA OrderOnly ==
  ASSUME NEW M, NEW n, NEW p, Numbered(M, n, p), NEW seq \in Seq(M), Len(seq) = n,
         \A i \in 1 .. n : p[seq[i]] = i
  PROVE  seq = OrderOf(M, n, p)
  <1> DEFINE O == OrderOf(M, n, p)
  <1>1. /\ O \in Seq(M) /\ Len(O) = n
        /\ \A x \in M : O[p[x]] = x
    BY OrderIs
  <1> HIDE DEF O
  <1>2. ASSUME NEW i \in 1 .. n PROVE seq[i] = O[i]
    <2>1. seq[i] \in M /\ p[seq[i]] = i BY <1>2
    <2> QED BY <1>1, <2>1
  <1>3. seq = O BY <1>1, <1>2
  <1> QED BY <1>3 DEF O

\* The queued tasks carry the numbers of their places.
LEMMA CountIs ==
  ASSUME NEW n \in 0 .. MaxSize
  PROVE  /\ Numbered(1 .. n, n, Count(n)) /\ Count(n) \in Seq(1 .. n) /\ Len(Count(n)) = n
         /\ \A i \in 1 .. n : Count(n)[i] = i
         /\ OrderOf(1 .. n, n, Count(n)) = Count(n)
  <1>1. n \in Nat /\ 1 .. n \subseteq Nodes BY NodesAssumption
  <1>2. Count(n) \in [1 .. n -> 1 .. n] /\ \A i \in 1 .. n : Count(n)[i] = i BY DEF Count
  <1>3. Count(n) \in Seq(1 .. n) /\ Len(Count(n)) = n BY <1>1, <1>2
  <1>4. Numbered(1 .. n, n, Count(n)) BY <1>1, <1>2 DEF Numbered
  <1>5. \A i \in 1 .. n : Count(n)[Count(n)[i]] = i BY <1>2
  <1> QED BY <1>2, <1>3, <1>4, <1>5, OrderOnly

LEMMA InsertedOrder ==
  ASSUME NEW n \in 0 .. MaxSize, n < MaxSize, NEW k \in 0 .. n
  PROVE  LET M == 1 .. n
             t == n + 1
         IN InsertAt(Count(n), k + 1, t) = OrderOf(M \cup {t}, n + 1, Shifted(M, Count(n), t, k))
  <1> DEFINE M == 1 .. n
             t == n + 1
             p == Shifted(M, Count(n), t, k)
             c == Count(n)
             a == SubSeq(c, 1, k)
             b == SubSeq(c, k + 1, n)
             s == InsertAt(c, k + 1, t)
  <1>1. n \in Nat /\ k \in Int /\ k + 1 - 1 = k /\ t \in Nodes /\ t \notin M BY NodesAssumption
  <1>2. Numbered(M, n, c) /\ c \in Seq(M) /\ Len(c) = n /\ \A i \in M : c[i] = i BY CountIs
  <1>3. Numbered(M \cup {t}, n + 1, p) BY <1>1, <1>2, ShiftedNumbers
  <1>4. \A x \in M : p[x] = (IF x > k THEN x + 1 ELSE x)
    <2>1. \A x \in M : p[x] = (IF x = t THEN k + 1 ELSE IF c[x] > k THEN c[x] + 1 ELSE c[x]) BY DEF Shifted
    <2> HIDE DEF p, c
    <2> QED BY <1>1, <1>2, <2>1
  <1>5. p[t] = k + 1 BY DEF Shifted
  <1>6. s = a \o <<t>> \o b BY <1>1, <1>2 DEF InsertAt
  <1> HIDE DEF c, p, s
  <1>7. /\ a \in Seq(M) /\ Len(a) = k /\ \A i \in 1 .. k : a[i] = i
        /\ b \in Seq(M) /\ Len(b) = n - k /\ \A i \in 1 .. n - k : b[i] = i + k
    <2>1. a \in Seq(M) /\ Len(a) = k /\ \A i \in 1 .. k : a[i] = i BY <1>1, <1>2
    <2>2. b \in Seq(M) /\ Len(b) = n - k /\ \A i \in 1 .. n - k : b[i] = i + k BY <1>1, <1>2
    <2> QED BY <2>1, <2>2
  <1> HIDE DEF a, b
  <1> DEFINE M2 == M \cup {t}
             d == a \o <<t>>
  <1>8. a \in Seq(M2) /\ b \in Seq(M2) /\ <<t>> \in Seq(M2)
    <2>1. t \in M2 /\ M \subseteq M2 OBVIOUS
    <2> HIDE DEF M2, t, M
    <2> QED BY <1>7, <2>1, SeqMonotonic
  <1>9. d \in Seq(M2) /\ Len(d) = k + 1 /\ \A i \in 1 .. k + 1 : d[i] = IF i = k + 1 THEN t ELSE i
    BY <1>1, <1>7, <1>8
  <1> HIDE DEF M2, d
  <1>10. s = d \o b BY <1>6 DEF d
  <1>11. s \in Seq(M2) /\ Len(s) = n + 1
    <2>1. s \in Seq(M2) /\ Len(s) = Len(d) + Len(b) BY <1>8, <1>9, <1>10, ConcatProperties
    <2> QED BY <1>1, <1>7, <1>9, <2>1
  <1>12. ASSUME NEW i \in 1 .. n + 1 PROVE p[s[i]] = i
    <2>1. CASE i <= k
      <3>1. i \in 1 .. k + 1 /\ i # k + 1 /\ i \in M /\ ~(i > k) BY <1>1, <2>1
      <3>2. s[i] = i BY <1>7, <1>8, <1>9, <1>10, <1>1, <3>1
      <3> QED BY <1>4, <3>1, <3>2
    <2>2. CASE i = k + 1
      <3>1. s[i] = t BY <1>7, <1>8, <1>9, <1>10, <1>1, <2>2
      <3> QED BY <1>5, <2>2, <3>1
    <2>3. CASE i > k + 1
      <3>1. i - (k + 1) \in 1 .. n - k /\ i - 1 \in M /\ i - 1 > k /\ i - 1 + 1 = i BY <1>1, <2>3
      <3>2. s[i] = b[i - (k + 1)] BY <1>7, <1>8, <1>9, <1>10, <1>1, <2>3
      <3>3. s[i] = i - 1 BY <1>1, <1>7, <3>1, <3>2
      <3> QED BY <1>4, <3>1, <3>3
    <2> QED BY <1>1, <2>1, <2>2, <2>3
  <1>13. s = OrderOf(M2, n + 1, p) BY <1>3, <1>11, <1>12, OrderOnly DEF M2
  <1> QED BY <1>13 DEF M2, p, s, c

LEMMA RemovedOrder ==
  ASSUME NEW n \in 0 .. MaxSize, NEW t \in 1 .. n
  PROVE  RemoveAt(Count(n), t) = OrderOf((1 .. n) \ {t}, n - 1, Closed(1 .. n, Count(n), t))
  <1> DEFINE M == 1 .. n
             c == Count(n)
             p == Closed(M, c, t)
             a == SubSeq(c, 1, t - 1)
             b == SubSeq(c, t + 1, n)
             s == RemoveAt(c, t)
             M2 == M \ {t}
  <1>1. n \in Nat /\ t \in Int /\ 1 <= t /\ t <= n /\ t - 1 \in Nat BY NodesAssumption
  <1>2. Numbered(M, n, c) /\ c \in Seq(M) /\ Len(c) = n /\ \A i \in M : c[i] = i BY CountIs
  <1>3. Numbered(M2, n - 1, p) BY <1>2, ClosedNumbers
  <1>4. \A x \in M2 : p[x] = (IF x > t THEN x - 1 ELSE x)
    <2>1. \A x \in M2 : p[x] = (IF c[x] > c[t] THEN c[x] - 1 ELSE c[x]) BY DEF Closed
    <2> HIDE DEF p, c
    <2> QED BY <1>1, <1>2, <2>1
  <1>5. s = a \o b BY <1>1, <1>2 DEF RemoveAt
  <1> HIDE DEF c, p, s
  <1>6. /\ a \in Seq(M2) /\ Len(a) = t - 1 /\ \A i \in 1 .. t - 1 : a[i] = i
        /\ b \in Seq(M2) /\ Len(b) = n - t /\ \A i \in 1 .. n - t : b[i] = i + t
    <2>1. Len(a) = t - 1 /\ \A i \in 1 .. t - 1 : a[i] = i /\ i \in M2 BY <1>1, <1>2
    <2>2. Len(b) = n - t /\ \A i \in 1 .. n - t : b[i] = i + t /\ i + t \in M2 BY <1>1, <1>2
    <2>3. a = [i \in 1 .. t - 1 |-> a[i]] /\ b = [i \in 1 .. n - t |-> b[i]] BY <1>1, <1>2
    <2> HIDE DEF a, b, M2
    <2>4. a \in [1 .. t - 1 -> M2] /\ b \in [1 .. n - t -> M2] BY <2>1, <2>2, <2>3
    <2>5. t - 1 \in Nat /\ n - t \in Nat BY <1>1
    <2> QED BY <2>1, <2>2, <2>4, <2>5
  <1> HIDE DEF a, b, M2
  <1>7. s \in Seq(M2) /\ Len(s) = n - 1
    <2>1. s \in Seq(M2) /\ Len(s) = Len(a) + Len(b) BY <1>5, <1>6, ConcatProperties
    <2> QED BY <1>1, <1>6, <2>1
  <1>8. ASSUME NEW i \in 1 .. n - 1 PROVE p[s[i]] = i
    <2>1. CASE i <= t - 1
      <3>1. s[i] = i /\ i \in M2 /\ ~(i > t) BY <1>1, <1>5, <1>6, <2>1 DEF M2
      <3> QED BY <1>4, <3>1
    <2>2. CASE i > t - 1
      <3>1. s[i] = b[i - (t - 1)] BY <1>1, <1>5, <1>6, <2>2
      <3>2. s[i] = i + 1 /\ i + 1 \in M2 /\ i + 1 > t BY <1>1, <1>6, <2>2, <3>1 DEF M2
      <3> QED BY <1>4, <3>2
    <2> QED BY <1>1, <2>1, <2>2
  <1> QED BY <1>3, <1>7, <1>8, OrderOnly DEF M2, p, s, c, M

LEMMA TailOrder ==
  ASSUME NEW n \in 1 .. MaxSize
  PROVE  Tail(Count(n)) = RemoveAt(Count(n), 1)
  <1>1. Count(n) \in Seq(1 .. n) /\ Len(Count(n)) = n BY CountIs
  <1>2. 1 - 1 = 0 /\ 1 + 1 = 2 /\ n \in Nat BY NodesAssumption
  <1>3. SubSeq(Count(n), 1, 0) = << >> BY <1>1
  <1>4. SubSeq(Count(n), 2, n) \in Seq(1 .. n) BY <1>1, <1>2
  <1>5. << >> \o SubSeq(Count(n), 2, n) = SubSeq(Count(n), 2, n) BY <1>4
  <1>6. Tail(Count(n)) = SubSeq(Count(n), 2, n) BY <1>1, <1>2
  <1> QED BY <1>1, <1>2, <1>3, <1>5, <1>6 DEF RemoveAt

-----------------------------------------------------------------------------
\* Renumbering: a tree of the members of M in the order p becomes the same tree
\* of their places, with the same counts.
LEMMA RenumberIs ==
  ASSUME NEW M, NEW n \in 0 .. MaxSize, NEW p, NEW r \in QueueType, Numbered(M, n, p), IsTree(r.heap, M, n, p)
  PROVE  LET g == Renumber(r, OrderOf(M, n, p))
         IN /\ IsTree(g.heap, 1 .. n, n, Count(n))
            /\ g \in QueueType
            /\ g.leftmost = IF r.leftmost \in M THEN p[r.leftmost] ELSE NULL
            /\ g.num_threads = r.num_threads
            /\ (\E b : Counted(r.heap, M, b)) => \E b : Counted(g.heap, 1 .. n, b)
  <1>1. PICK h : h = r.heap OBVIOUS
  <1>2. PICK lo, hi : Tree(h, M, n, p, lo, hi) BY <1>1 DEF IsTree
  <1>3. PICK seq : seq = OrderOf(M, n, p) OBVIOUS
  <1>4. /\ n \in Nat /\ 1 .. n \subseteq Nodes /\ NULL \notin 1 .. n
        /\ M \in SUBSET Nodes /\ NULL \notin M /\ h \in Heap
    BY <1>2, TreeAssumption, NodesAssumption DEF Numbered, Tree
  <1>5. /\ seq \in Seq(M) /\ Len(seq) = n /\ DOMAIN seq = 1 .. n
        /\ \A x \in M : p[x] \in 1 .. n /\ seq[p[x]] = x
        /\ \A i \in 1 .. n : seq[i] \in M /\ p[seq[i]] = i
    BY <1>3, <1>4, OrderIs DEF Numbered
  <1> DEFINE New(x) == IF x \in Range(seq) THEN CHOOSE i \in DOMAIN seq : seq[i] = x ELSE NULL
             Node(c) == [parent |-> New(c.parent), color |-> c.color, left |-> New(c.left), right |-> New(c.right)]
             hn == [i \in Nodes |-> IF i \in DOMAIN seq THEN Node(h.n[seq[i]]) ELSE ZeroNode]
             hh == [root |-> New(h.root), ok |-> h.ok, n |-> hn]
  <1>6. Renumber(r, seq) = [r EXCEPT !.leftmost = New(r.leftmost), !.heap = hh] BY <1>1 DEF Renumber
  <1>7. Range(seq) = M
    <2>1. Range(seq) = {seq[i] : i \in 1 .. n} BY <1>5 DEF Range
    <2> QED BY <1>5, <2>1
  <1>8. /\ \A x \in M : New(x) = p[x] /\ New(x) \in 1 .. n
        /\ \A x : x \notin M => New(x) = NULL
        /\ \A x : New(x) \in Pointer
    <2>1. ASSUME NEW x \in M PROVE New(x) = p[x]
      <3>1. New(x) = CHOOSE i \in 1 .. n : seq[i] = x BY <1>5, <1>7
      <3>2. \A i \in 1 .. n : seq[i] = x <=> i = p[x] BY <1>5
      <3> QED BY <1>5, <3>1, <3>2
    <2>2. \A x : x \notin M => New(x) = NULL BY <1>7
    <2> HIDE DEF New
    <2> QED BY <1>4, <1>5, <2>1, <2>2 DEF Pointer
  <1> HIDE DEF New
  <1>9. \A i \in 1 .. n : /\ hn[i].parent = New(h.n[seq[i]].parent)
                          /\ hn[i].left = New(h.n[seq[i]].left)
                          /\ hn[i].right = New(h.n[seq[i]].right)
                          /\ hn[i].color = h.n[seq[i]].color
    BY <1>4, <1>5
  <1>10. hn \in [Nodes -> rb_node]
    <2>1. ASSUME NEW i \in Nodes PROVE (IF i \in DOMAIN seq THEN Node(h.n[seq[i]]) ELSE ZeroNode) \in rb_node
      <3>1. CASE i \in DOMAIN seq
        <4>1. seq[i] \in Nodes BY <1>4, <1>5, <3>1
        <4>2. h.n[seq[i]].color \in {Red, Black} BY <1>4, <4>1 DEF Heap, rb_node
        <4>3. Node(h.n[seq[i]]) \in rb_node BY <1>8, <4>2 DEF rb_node
        <4> QED BY <3>1, <4>3
      <3>2. CASE i \notin DOMAIN seq BY <3>2 DEF ZeroNode, rb_node, Pointer
      <3> QED BY <3>1, <3>2
    <2> QED BY <2>1
  <1> HIDE DEF hn
  <1>11. hh \in Heap /\ hh.root = New(h.root) /\ hh.n = hn /\ hh.ok = h.ok
    BY <1>4, <1>8, <1>10 DEF Heap
  <1> HIDE DEF hh
  <1>12. PICK g : g = Renumber(r, seq) OBVIOUS
  <1>13. /\ g \in QueueType /\ g.heap = hh /\ g.leftmost = New(r.leftmost) /\ g.num_threads = r.num_threads
    BY <1>6, <1>8, <1>11, <1>12 DEF QueueType
  <1> DEFINE lo2 == [i \in 1 .. n |-> lo[seq[i]]]
             hi2 == [i \in 1 .. n |-> hi[seq[i]]]
  <1>14. Tree(hh, 1 .. n, n, Count(n), lo2, hi2)
    <2>1. /\ lo2 \in [1 .. n -> 1 .. n] /\ hi2 \in [1 .. n -> 1 .. n]
          /\ \A x \in M : lo2[p[x]] = lo[x] /\ hi2[p[x]] = hi[x]
      BY <1>2, <1>5 DEF Tree
    <2> HIDE DEF lo2, hi2
    <2>2. Rooted(hh, 1 .. n, n, lo2, hi2)
      <3>1. Rooted(h, M, n, lo, hi) BY <1>2 DEF Tree
      <3>2. CASE h.root = NULL
        <4>1. n = 0 /\ hh.root = NULL BY <1>4, <1>8, <1>11, <3>1, <3>2 DEF Rooted
        <4> QED BY <4>1 DEF Rooted
      <3>3. CASE h.root # NULL
        <4>1. h.root \in M /\ h.n[h.root].parent = NULL /\ lo[h.root] = 1 /\ hi[h.root] = n BY <3>1, <3>3 DEF Rooted
        <4>2. PICK i : i = p[h.root] OBVIOUS
        <4>3. i \in 1 .. n /\ seq[i] = h.root /\ lo2[i] = 1 /\ hi2[i] = n BY <1>5, <2>1, <4>1, <4>2
        <4>4. hh.root = i BY <1>8, <1>11, <4>1, <4>2
        <4>5. hh.n[i].parent = NULL BY <1>4, <1>8, <1>9, <1>11, <4>1, <4>3
        <4> QED BY <1>4, <4>3, <4>4, <4>5 DEF Rooted
      <3> QED BY <3>2, <3>3
    <2>3. ASSUME NEW i \in 1 .. n PROVE Below(hh, 1 .. n, Count(n), lo2, hi2, i) /\ Hangs(hh, 1 .. n, i)
      <3>1. PICK x \in M : x = seq[i] BY <1>5
      <3>2. p[x] = i /\ Below(h, M, p, lo, hi, x) /\ Hangs(h, M, x) BY <1>2, <1>5, <3>1 DEF Tree
      <3>3. PICK l, rr, q : l = h.n[x].left /\ rr = h.n[x].right /\ q = h.n[x].parent OBVIOUS
      <3>4. hh.n[i].left = New(l) /\ hh.n[i].right = New(rr) /\ hh.n[i].parent = New(q) BY <1>9, <1>11, <3>1, <3>3
      <3>5. /\ lo[x] <= i /\ i <= hi[x]
            /\ l = NULL => lo[x] = i
            /\ l # NULL => l \in M /\ h.n[l].parent = x /\ lo[l] = lo[x] /\ hi[l] = i - 1
            /\ rr = NULL => hi[x] = i
            /\ rr # NULL => rr \in M /\ h.n[rr].parent = x /\ hi[rr] = hi[x] /\ lo[rr] = i + 1
        BY <3>2, <3>3 DEF Below
      <3>6. Count(n)[i] = i BY CountIs
      <3>7. lo2[i] = lo[x] /\ hi2[i] = hi[x] BY <2>1, <3>2
      <3>8. ASSUME NEW c \in M, h.n[c].parent = x
            PROVE  New(c) \in 1 .. n /\ New(c) # NULL /\ hh.n[New(c)].parent = i /\ lo2[New(c)] = lo[c] /\ hi2[New(c)] = hi[c]
        <4>1. New(c) = p[c] /\ New(c) \in 1 .. n /\ seq[p[c]] = c BY <1>5, <1>8
        <4>2. New(x) = i BY <1>8, <3>2
        <4>3. hh.n[New(c)].parent = New(h.n[c].parent) BY <1>9, <1>11, <4>1
        <4> QED BY <1>4, <2>1, <3>8, <4>1, <4>2, <4>3
      <3>9. Below(hh, 1 .. n, Count(n), lo2, hi2, i)
        <4>1. /\ l = NULL => New(l) = NULL
              /\ rr = NULL => New(rr) = NULL
          BY <1>4, <1>8
        <4>2. New(l) = NULL => lo2[i] = i BY <3>5, <3>7, <3>8
        <4>3. New(l) # NULL => New(l) \in 1 .. n /\ hh.n[New(l)].parent = i /\ lo2[New(l)] = lo2[i] /\ hi2[New(l)] = i - 1
          BY <3>5, <3>7, <3>8, <4>1
        <4>4. New(rr) = NULL => hi2[i] = i BY <3>5, <3>7, <3>8
        <4>5. New(rr) # NULL => New(rr) \in 1 .. n /\ hh.n[New(rr)].parent = i /\ hi2[New(rr)] = hi2[i] /\ lo2[New(rr)] = i + 1
          BY <3>5, <3>7, <3>8, <4>1
        <4> QED BY <3>4, <3>5, <3>6, <3>7, <4>2, <4>3, <4>4, <4>5 DEF Below
      <3>10. Hangs(hh, 1 .. n, i)
        <4>1. CASE q = NULL
          <5>1. x = h.root BY <3>2, <3>3, <4>1 DEF Hangs
          <5>2. hh.root = i BY <1>8, <1>11, <3>2, <5>1
          <5>3. New(q) = NULL BY <1>4, <1>8, <4>1
          <5> QED BY <3>4, <5>2, <5>3 DEF Hangs
        <4>2. CASE q # NULL
          <5>1. q \in M /\ x \in {h.n[q].left, h.n[q].right} BY <3>2, <3>3, <4>2 DEF Hangs
          <5>2. New(q) = p[q] /\ New(q) \in 1 .. n /\ seq[p[q]] = q /\ New(x) = i BY <1>5, <1>8, <3>2, <5>1
          <5>3. hh.n[New(q)].left = New(h.n[q].left) /\ hh.n[New(q)].right = New(h.n[q].right)
            BY <1>9, <1>11, <5>2
          <5>4. i \in {hh.n[New(q)].left, hh.n[New(q)].right} BY <5>1, <5>2, <5>3
          <5> QED BY <1>4, <3>4, <5>2, <5>4 DEF Hangs
        <4> QED BY <4>1, <4>2
      <3> QED BY <3>9, <3>10
    <2> QED BY <1>11, <2>1, <2>2, <2>3 DEF Tree
  <1>15. IsTree(hh, 1 .. n, n, Count(n)) BY <1>14 DEF IsTree
  <1>16. New(r.leftmost) = IF r.leftmost \in M THEN p[r.leftmost] ELSE NULL BY <1>8
  <1>17. ASSUME NEW b, Counted(h, M, b) PROVE \E b2 : Counted(hh, 1 .. n, b2)
    <2> DEFINE b2 == [i \in 1 .. n |-> b[seq[i]]]
    <2>1. h.ok /\ b \in [M -> Nat \ {0}] /\ ~IsRed(h, h.root) /\ \A x \in M : Even(h, b, x) /\ Calm(h, x, NULL)
      BY <1>17 DEF Counted, Counts
    <2>2. b2 \in Counts(1 .. n) /\ \A i \in 1 .. n : b2[i] = b[seq[i]] BY <1>5, <2>1 DEF Counts
    <2> HIDE DEF b2
    <2>3. ASSUME NEW y \in M \cup {NULL}
          PROVE  (IsRed(hh, New(y)) <=> IsRed(h, y)) /\ Blacks(b2, New(y)) = Blacks(b, y)
      <3>1. CASE y = NULL
        <4>1. New(y) = NULL BY <1>4, <1>8, <3>1
        <4> QED BY <3>1, <4>1 DEF IsRed, Blacks
      <3>2. CASE y # NULL
        <4>1. y \in M /\ New(y) = p[y] /\ New(y) \in 1 .. n /\ New(y) # NULL /\ seq[p[y]] = y
          BY <1>4, <1>5, <1>8, <3>2
        <4>2. hh.n[New(y)].color = h.n[y].color /\ b2[New(y)] = b[y] BY <1>9, <1>11, <2>2, <4>1
        <4> QED BY <3>2, <4>1, <4>2 DEF IsRed, Blacks
      <3> QED BY <3>1, <3>2
    <2>4. ~IsRed(hh, hh.root)
      <3>1. h.root \in M \cup {NULL} BY <1>2 DEF Tree, Rooted
      <3> QED BY <1>11, <2>1, <2>3, <3>1
    <2>5. ASSUME NEW i \in 1 .. n PROVE Even(hh, b2, i) /\ Calm(hh, i, NULL)
      <3>1. PICK x \in M : x = seq[i] BY <1>5
      <3>2. New(x) = i /\ b2[i] = b[x] /\ Even(h, b, x) /\ Calm(h, x, NULL) BY <1>5, <1>8, <2>1, <2>2, <3>1
      <3>3. ASSUME NEW s \in Sides PROVE h.n[x][s] \in M \cup {NULL} /\ hh.n[i][s] = New(h.n[x][s])
        <4>1. h.n[x].left \in M \cup {NULL} /\ h.n[x].right \in M \cup {NULL} BY <1>2 DEF Tree, Below
        <4> QED BY <1>9, <1>11, <3>1, <4>1 DEF Sides
      <3>4. IsRed(hh, i) <=> IsRed(h, x) BY <2>3, <3>2
      <3>5. Weight(hh, i) = Weight(h, x) BY <3>4 DEF Weight
      <3>6. Even(hh, b2, i) BY <2>3, <3>2, <3>3, <3>5 DEF Even
      <3>7. NULL = New(NULL) /\ \A y \in M : New(y) # NULL BY <1>4, <1>8
      <3>8. Calm(hh, i, NULL) BY <2>3, <3>2, <3>3, <3>4, <3>7 DEF Calm
      <3> QED BY <3>6, <3>8
    <2>6. Counted(hh, 1 .. n, b2) BY <1>11, <2>1, <2>2, <2>4, <2>5 DEF Counted
    <2> QED BY <2>6
  <1>18. (\E b : Counted(h, M, b)) => \E b : Counted(g.heap, 1 .. n, b) BY <1>13, <1>17
  <1> QED BY <1>1, <1>3, <1>12, <1>13, <1>15, <1>16, <1>18

\* A sound queue of the tasks 1 .. n
Sound(r, vr, n) ==
  /\ n \in 0 .. MaxSize
  /\ vr \in [Nodes -> Nat]
  /\ \A i, j \in 1 .. n : i < j => vr[i] <= vr[j]
  /\ r \in QueueType
  /\ IsTree(r.heap, 1 .. n, n, Count(n))
  /\ \E b : Counted(r.heap, 1 .. n, b)
  /\ r.leftmost = IF n = 0 THEN NULL ELSE 1
  /\ r.num_threads = n

RunqInv == Sound(system_runq, vruntimes, queued)

LEMMA SettleIs ==
  ASSUME NEW M, NEW m \in 0 .. MaxSize, NEW p, NEW r \in QueueType, Numbered(M, m, p), IsTree(r.heap, M, m, p),
         \E b : Counted(r.heap, M, b), NEW vr \in [Nodes -> Nat], \A x, y \in M : p[x] < p[y] => vr[x] <= vr[y],
         m = 0 => r.leftmost \notin M, m # 0 => r.leftmost \in M /\ p[r.leftmost] = 1,
         r.num_threads = m, Settle(r, vr, OrderOf(M, m, p))
  PROVE  RunqInv'
  <1>1. PICK seq : seq = OrderOf(M, m, p) OBVIOUS
  <1>2. /\ m \in Nat /\ 1 .. m \subseteq Nodes /\ M \in SUBSET Nodes BY NodesAssumption DEF Numbered
  <1>3. /\ seq \in Seq(M) /\ Len(seq) = m /\ DOMAIN seq = 1 .. m
        /\ \A i \in 1 .. m : seq[i] \in M /\ p[seq[i]] = i
    <2>1. seq \in Seq(M) /\ Len(seq) = m /\ \A i \in 1 .. m : p[seq[i]] = i BY <1>1, OrderIs
    <2>2. DOMAIN seq = 1 .. m /\ \A i \in 1 .. m : seq[i] \in M BY <2>1
    <2> QED BY <2>1, <2>2
  <1>4. /\ system_runq' = Renumber(r, seq) /\ queued' = m
        /\ vruntimes' = [i \in Nodes |-> IF i \in DOMAIN seq THEN vr[seq[i]] ELSE 0]
    BY <1>1, <1>3 DEF Settle
  <1>5. vruntimes' \in [Nodes -> Nat] /\ \A i \in 1 .. m : vruntimes'[i] = vr[seq[i]]
    <2>1. \A i \in Nodes : (IF i \in DOMAIN seq THEN vr[seq[i]] ELSE 0) \in Nat BY <1>2, <1>3
    <2> QED BY <1>2, <1>3, <1>4, <2>1
  <1>6. \A i, j \in 1 .. m : i < j => vruntimes'[i] <= vruntimes'[j] BY <1>3, <1>5
  <1>7. /\ IsTree(system_runq'.heap, 1 .. m, m, Count(m)) /\ system_runq' \in QueueType
        /\ \E b : Counted(system_runq'.heap, 1 .. m, b)
        /\ system_runq'.leftmost = (IF r.leftmost \in M THEN p[r.leftmost] ELSE NULL)
        /\ system_runq'.num_threads = r.num_threads
    BY <1>1, <1>4, RenumberIs
  <1>8. Sound(system_runq', vruntimes', m)
    <2>1. system_runq'.leftmost = IF m = 0 THEN NULL ELSE 1 BY <1>7
    <2> QED BY <1>5, <1>6, <1>7, <2>1 DEF Sound
  <1> QED BY <1>4, <1>8 DEF RunqInv

\* A set of 1 .. n that is closed downwards is a prefix.
LEMMA PrefixIs ==
  ASSUME NEW n \in Nat, NEW S \in SUBSET (1 .. n), \A i \in S : \A j \in 1 .. n : j < i => j \in S
  PROVE  Cardinality(S) \in 0 .. n /\ S = 1 .. Cardinality(S)
  <1> DEFINE T == (1 .. n + 1) \ S
  <1>1. T \in SUBSET Nat /\ n + 1 \in T OBVIOUS
  <1>2. PICK e \in T : \A j \in T : e <= j BY <1>1, SmallestElement
  <1>3. e \in 1 .. n + 1 /\ e - 1 \in 0 .. n /\ e - 1 \in Nat BY <1>2
  <1>4. S = 1 .. e - 1
    <2>1. ASSUME NEW i \in S PROVE i \in 1 .. e - 1
      <3>1. i # e /\ ~(e < i) BY <1>2, <2>1
      <3> QED BY <1>3, <3>1
    <2>2. ASSUME NEW i \in 1 .. e - 1 PROVE i \in S
      <3>1. i \in 1 .. n + 1 /\ ~(e <= i) BY <1>3, <2>2
      <3> QED BY <1>2, <3>1
    <2> QED BY <2>1, <2>2
  <1>5. Cardinality(S) = e - 1 BY <1>3, <1>4, FS_Interval
  <1> QED BY <1>3, <1>4, <1>5

LEMMA RunqStart == RunqInit => RunqInv
  <1> SUFFICES ASSUME RunqInit PROVE RunqInv OBVIOUS
  <1> DEFINE none == [x \in {} |-> x]
  <1>1. /\ system_runq = [heap |-> EmptyHeap, leftmost |-> NULL, num_threads |-> 0] /\ queued = 0
        /\ vruntimes \in [Nodes -> Nat]
    BY DEF RunqInit, EmptyQueue
  <1>2. EmptyHeap \in Heap /\ EmptyHeap.root = NULL BY DEF EmptyHeap, Heap, ZeroNode, rb_node, Pointer
  <1>3. 1 .. 0 = {} /\ 0 \in 0 .. MaxSize BY NodesAssumption
  <1>4. Tree(EmptyHeap, 1 .. 0, 0, Count(0), none, none) BY <1>2, <1>3 DEF Tree, Rooted
  <1>5. IsTree(EmptyHeap, 1 .. 0, 0, Count(0)) BY <1>4 DEF IsTree
  <1>6. system_runq \in QueueType BY <1>1, <1>2 DEF QueueType, Pointer
  <1>7. none \in Counts(1 .. 0) BY <1>3 DEF Counts
  <1> HIDE DEF none
  <1>8. Counted(EmptyHeap, 1 .. 0, none) BY <1>2, <1>3, <1>7 DEF Counted, EmptyHeap, IsRed
  <1> QED BY <1>1, <1>3, <1>5, <1>6, <1>8 DEF RunqInv, Sound

LEMMA AddSound ==
  ASSUME RunqInv, NEW key \in Nat, add_with_key(key)
  PROVE  RunqInv'
  <1>1. PICK r, n, v : r = system_runq /\ n = queued /\ v = vruntimes OBVIOUS
  <1> DEFINE x == n + 1
             M == 1 .. n
             ahead == {i \in 1 .. n : v[i] <= key}
             k == Cardinality(ahead)
             p == Count(n)
             p2 == Shifted(M, p, x, k)
  <1>2. /\ n \in 0 .. MaxSize /\ v \in [Nodes -> Nat] /\ r \in QueueType
        /\ \A i, j \in 1 .. n : i < j => v[i] <= v[j]
        /\ IsTree(r.heap, M, n, p) /\ \E b : Counted(r.heap, M, b)
        /\ r.leftmost = (IF n = 0 THEN NULL ELSE 1)
        /\ r.num_threads = n
    BY <1>1 DEF RunqInv, Sound
  <1>3. PICK vr : vr = [v EXCEPT ![x] = key] OBVIOUS
  <1>4. /\ n < MaxSize
        /\ Settle(tree_insert(r, x, vr), vr, InsertAt(p, k + 1, x))
    BY <1>1, <1>3 DEF add_with_key
  <1>5. /\ n \in Nat /\ MaxSize \in Nat /\ x \in Nodes /\ x \notin M /\ M \subseteq Nodes /\ NULL \notin Nodes
        /\ x \in 0 .. MaxSize
    BY <1>2, <1>4, NodesAssumption, TreeAssumption
  <1>6. vr \in [Nodes -> Nat] /\ vr[x] = key /\ \A i \in M : vr[i] = v[i] BY <1>2, <1>3, <1>5
  <1>7. k \in 0 .. n /\ ahead = 1 .. k
    <2>1. \A i \in ahead : \A j \in 1 .. n : j < i => j \in ahead
      <3>1. ASSUME NEW i \in ahead, NEW j \in 1 .. n, j < i PROVE j \in ahead
        <4>1. v[j] \in Nat /\ v[i] \in Nat /\ v[i] <= key /\ v[j] <= v[i] BY <1>2, <1>5, <3>1
        <4> QED BY <3>1, <4>1
      <3> QED BY <3>1
    <2>2. ahead \in SUBSET (1 .. n) OBVIOUS
    <2> HIDE DEF ahead
    <2> QED BY <1>5, <2>1, <2>2, PrefixIs
  <1>8. \A i \in M : v[i] \in Nat /\ (i <= k <=> v[i] <= key)
    <2>1. \A i \in M : i \in ahead <=> i \in 1 .. k BY <1>7
    <2> HIDE DEF k
    <2> QED BY <1>2, <1>5, <1>7, <2>1
  <1> HIDE DEF k, ahead
  <1>9. Numbered(M, n, p) /\ \A i \in M : p[i] = i BY <1>2, CountIs
  <1> HIDE DEF p
  <1>10. PICK place : place = FindPlace(r, x, vr) OBVIOUS
  <1>11. FreePlace(r.heap, M, n, p, k, place.parent, place.side)
    <2>1. CASE r.heap.root = NULL
      <3>1. place = [parent |-> NULL, side |-> "left"] BY <1>10, <2>1 DEF FindPlace
      <3>2. PICK lo, hi : Tree(r.heap, M, n, p, lo, hi) BY <1>2 DEF IsTree
      <3>3. M = {} BY <2>1, <3>2 DEF Tree, Rooted
      <3> QED BY <3>1, <3>3 DEF FreePlace, Sides
    <2>2. CASE r.heap.root # NULL
      <3>1. place = Place(r.heap, key, vr) BY <1>6, <1>10, <2>2 DEF FindPlace
      <3>2. \A i \in M : key < vr[i] <=> p[i] > k BY <1>6, <1>7, <1>8, <1>9
      <3> HIDE DEF M
      <3> QED BY <1>2, <1>7, <1>9, <2>2, <3>1, <3>2, PlaceIs
    <2> QED BY <2>1, <2>2
  <1>12. PICK g : g = rb_insert_color(rb_link_node(r.heap, x, place.parent, place.side), x) OBVIOUS
  <1>13. /\ IsTree(g, M \cup {x}, n + 1, p2) /\ Numbered(M \cup {x}, n + 1, p2)
         /\ \E b : Counted(g, M \cup {x}, b)
    <2> HIDE DEF M, x, p2
    <2>1. IsTree(g, M \cup {x}, n + 1, Shifted(M, p, x, k)) BY <1>2, <1>5, <1>7, <1>9, <1>11, <1>12, InsertedTree
    <2>2. Numbered(M \cup {x}, n + 1, Shifted(M, p, x, k)) BY <1>5, <1>7, <1>9, ShiftedNumbers
    <2>3. \E b : Counted(g, M \cup {x}, b) BY <1>2, <1>5, <1>7, <1>9, <1>11, <1>12, InsertedCounts
    <2> QED BY <2>1, <2>2, <2>3 DEF p2
  <1>14. PICK r2 : r2 = tree_insert(r, x, vr) OBVIOUS
  <1>15. /\ r2 \in QueueType /\ r2.heap = g /\ r2.num_threads = n + 1
         /\ r2.leftmost = IF r.leftmost = NULL \/ key < vr[r.leftmost] THEN x ELSE r.leftmost
    <2>1. r2 \in QueueType BY <1>2, <1>5, <1>14, TreeInsertTyped
    <2>2. r2 = UpdateCache([r EXCEPT !.heap = g], x, vr) BY <1>10, <1>12, <1>14 DEF tree_insert
    <2>3. [r EXCEPT !.heap = g].leftmost = r.leftmost /\ [r EXCEPT !.heap = g].num_threads = n
          /\ [r EXCEPT !.heap = g].heap = g
      BY <1>2 DEF QueueType
    <2>4. /\ r2.heap = g /\ r2.num_threads = (n + 1) % WORD
          /\ r2.leftmost = IF r.leftmost = NULL \/ vr[x] < vr[r.leftmost] THEN x ELSE r.leftmost
      BY <1>2, <2>2, <2>3 DEF UpdateCache, QueueType
    <2>5. (n + 1) % WORD = n + 1
      <3>1. WORD \in Nat BY DEF WORD
      <3>2. n + 1 < WORD BY <1>4, <1>5, <3>1, NodesAssumption
      <3> HIDE DEF WORD
      <3> QED BY <1>5, <3>1, <3>2
    <2> QED BY <1>6, <2>1, <2>4, <2>5
  <1>16. p2[x] = k + 1 /\ \A i \in M : p2[i] = IF i > k THEN i + 1 ELSE i
    <2>1. \A i \in M : p2[i] = (IF i = x THEN k + 1 ELSE IF p[i] > k THEN p[i] + 1 ELSE p[i]) BY DEF Shifted
    <2>2. p2[x] = k + 1 BY DEF Shifted
    <2> HIDE DEF p2
    <2> QED BY <1>5, <1>9, <2>1, <2>2
  <1> HIDE DEF p2
  <1>17. r2.leftmost \in M \cup {x} /\ p2[r2.leftmost] = 1
    <2>1. CASE n = 0
      <3>1. r2.leftmost = x /\ k = 0 BY <1>2, <1>7, <1>15, <2>1
      <3> QED BY <1>16, <3>1
    <2>2. CASE n # 0
      <3>1. 1 \in M /\ r.leftmost = 1 /\ r.leftmost # NULL /\ vr[1] = v[1] BY <1>2, <1>5, <1>6, <2>2
      <3>2. CASE key < vr[1]
        <4>1. r2.leftmost = x /\ k = 0 BY <1>7, <1>8, <1>15, <3>1, <3>2
        <4> QED BY <1>16, <4>1
      <3>3. CASE ~(key < vr[1])
        <4>1. r2.leftmost = 1 /\ k >= 1 BY <1>7, <1>8, <1>15, <3>1, <3>3
        <4> QED BY <1>7, <1>16, <3>1, <4>1
      <3> QED BY <3>2, <3>3
    <2> QED BY <2>1, <2>2
  <1>18. ASSUME NEW a \in M \cup {x}, NEW b \in M \cup {x}, p2[a] < p2[b] PROVE vr[a] <= vr[b]
    <2>1. CASE a \in M /\ b \in M
      <3>1. a < b BY <1>7, <1>16, <1>18, <2>1
      <3> QED BY <1>2, <1>6, <2>1, <3>1
    <2>2. CASE a = x /\ b \in M
      <3>1. ~(b <= k) BY <1>7, <1>16, <1>18, <2>2
      <3> QED BY <1>6, <1>8, <2>2, <3>1
    <2>3. CASE a \in M /\ b = x
      <3>1. a <= k BY <1>7, <1>16, <1>18, <2>3
      <3> QED BY <1>6, <1>8, <2>3, <3>1
    <2>4. CASE a = x /\ b = x BY <1>16, <1>18, <1>7, <2>4
    <2> QED BY <2>1, <2>2, <2>3, <2>4
  <1>19. InsertAt(p, k + 1, x) = OrderOf(M \cup {x}, n + 1, p2) BY <1>2, <1>4, <1>7, InsertedOrder DEF p, p2
  <1>20. Settle(r2, vr, OrderOf(M \cup {x}, n + 1, p2)) BY <1>4, <1>14, <1>19
  <1>21. n + 1 \in 0 .. MaxSize /\ n + 1 # 0 BY <1>5
  <1> HIDE DEF M, x
  <1> QED BY <1>6, <1>13, <1>15, <1>17, <1>18, <1>20, <1>21, SettleIs

LEMMA RemoveSound ==
  ASSUME RunqInv, NEW t \in 1 .. queued,
         Settle(tree_remove(system_runq, t), vruntimes, RemoveAt(Count(queued), t))
  PROVE  RunqInv'
  <1>1. PICK r, n, v : r = system_runq /\ n = queued /\ v = vruntimes OBVIOUS
  <1> DEFINE M == 1 .. n
             p == Count(n)
             M2 == M \ {t}
             p2 == Closed(M, p, t)
  <1>2. /\ n \in 0 .. MaxSize /\ v \in [Nodes -> Nat] /\ r \in QueueType
        /\ \A i, j \in 1 .. n : i < j => v[i] <= v[j]
        /\ IsTree(r.heap, M, n, p) /\ \E b : Counted(r.heap, M, b)
        /\ r.leftmost = (IF n = 0 THEN NULL ELSE 1)
        /\ r.num_threads = n
    BY <1>1 DEF RunqInv, Sound
  <1>3. t \in M /\ Settle(tree_remove(r, t), v, RemoveAt(p, t)) BY <1>1
  <1>4. /\ n \in Nat /\ n # 0 /\ MaxSize \in Nat /\ t \in Nodes /\ M \subseteq Nodes /\ NULL \notin Nodes
        /\ n - 1 \in 0 .. MaxSize /\ 1 \in M
    BY <1>2, <1>3, NodesAssumption, TreeAssumption
  <1>5. Numbered(M, n, p) /\ \A i \in M : p[i] = i BY <1>2, CountIs
  <1>6. RemoveAt(p, t) = OrderOf(M2, n - 1, p2) BY <1>2, <1>3, RemovedOrder
  <1> HIDE DEF p
  <1>7. \A i \in M2 : p2[i] = IF i > t THEN i - 1 ELSE i
    <2>1. \A i \in M2 : p2[i] = (IF p[i] > p[t] THEN p[i] - 1 ELSE p[i]) BY DEF Closed
    <2> HIDE DEF p2
    <2> QED BY <1>3, <1>5, <2>1
  <1>8. PICK r2 : r2 = tree_remove(r, t) OBVIOUS
  <1>9. /\ r2 \in QueueType /\ r2.heap = rb_erase(r.heap, t) /\ r2.num_threads = n - 1
        /\ r2.leftmost = IF r.leftmost = t THEN rb_next(r.heap, t) ELSE r.leftmost
    <2>1. r2 \in QueueType BY <1>2, <1>4, <1>8, TreeRemoveTyped
    <2>2. /\ r2.heap = rb_erase(r.heap, t) /\ r2.num_threads = (n + WORD - 1) % WORD
          /\ r2.leftmost = IF r.leftmost = t THEN rb_next(r.heap, t) ELSE r.leftmost
      BY <1>2, <1>8 DEF tree_remove
    <2>3. (n + WORD - 1) % WORD = n - 1
      <3>1. WORD \in Nat BY DEF WORD
      <3>2. n < WORD BY <1>2, <1>4, <3>1, NodesAssumption
      <3> HIDE DEF WORD
      <3>3. n + WORD - 1 = (n - 1) + WORD /\ n - 1 \in 0 .. WORD - 1 BY <1>4, <3>1, <3>2
      <3> QED BY <3>1, <3>3
    <2> QED BY <2>1, <2>2, <2>3
  <1>10. /\ IsTree(r2.heap, M2, n - 1, p2) /\ Numbered(M2, n - 1, p2)
         /\ \E b : Counted(r2.heap, M2, b)
    <2> HIDE DEF M
    <2>1. IsTree(r2.heap, M2, n - 1, p2) /\ Numbered(M2, n - 1, p2) BY <1>2, <1>3, <1>5, <1>9, EraseTree, ClosedNumbers
    <2>2. \E b : Counted(r2.heap, M2, b) BY <1>2, <1>3, <1>5, <1>9, ErasedCounts
    <2> QED BY <2>1, <2>2
  <1> HIDE DEF p2
  <1>11. ASSUME t = 1 PROVE /\ (n = 1 => r2.leftmost \notin M2) /\ (n # 1 => r2.leftmost \in M2 /\ p2[r2.leftmost] = 1)
    <2>1. r2.leftmost = rb_next(r.heap, t) BY <1>2, <1>4, <1>9, <1>11
    <2>2. IF p[t] = n THEN r2.leftmost = NULL ELSE r2.leftmost \in M /\ p[r2.leftmost] = p[t] + 1
      <3> HIDE DEF M
      <3> QED BY <1>2, <1>3, <1>5, <2>1, NeighbourrightIs
    <2>3. n = 1 => r2.leftmost \notin M2 BY <1>3, <1>4, <1>5, <1>11, <2>2
    <2>4. n # 1 => r2.leftmost \in M2 /\ p2[r2.leftmost] = 1 BY <1>3, <1>4, <1>5, <1>7, <1>11, <2>2
    <2> QED BY <1>4, <2>3, <2>4
  <1>12. ASSUME t # 1 PROVE /\ (n = 1 => r2.leftmost \notin M2) /\ (n # 1 => r2.leftmost \in M2 /\ p2[r2.leftmost] = 1)
    <2>1. r2.leftmost = 1 /\ 1 \in M2 /\ p2[1] = 1 BY <1>2, <1>4, <1>7, <1>9, <1>12
    <2>2. n # 1 BY <1>3, <1>12
    <2> QED BY <1>4, <2>1, <2>2
  <1>13. \A x, y \in M2 : p2[x] < p2[y] => v[x] <= v[y]
    <2>1. ASSUME NEW x \in M2, NEW y \in M2, p2[x] < p2[y] PROVE v[x] <= v[y]
      <3>1. x < y BY <1>4, <1>7, <2>1
      <3> QED BY <1>2, <3>1
    <2> QED BY <2>1
  <1>14. Settle(r2, v, OrderOf(M2, n - 1, p2)) BY <1>3, <1>6, <1>8
  <1> HIDE DEF M2
  <1>15. /\ n - 1 \in 0 .. MaxSize /\ r2 \in QueueType /\ v \in [Nodes -> Nat] /\ r2.num_threads = n - 1
         /\ n - 1 = 0 => r2.leftmost \notin M2
         /\ n - 1 # 0 => r2.leftmost \in M2 /\ p2[r2.leftmost] = 1
    BY <1>2, <1>4, <1>9, <1>11, <1>12
  <1> QED BY <1>10, <1>13, <1>14, <1>15, SettleIs

\* Every operation keeps the queue sound.
LEMMA RunqStep == RunqInv /\ [RunqNext]_runq_vars => RunqInv'
  <1> SUFFICES ASSUME RunqInv, [RunqNext]_runq_vars PROVE RunqInv' OBVIOUS
  <1>1. ASSUME NEW key \in Keys \cup {min_vruntime(system_runq, vruntimes)}, add_with_key(key) PROVE RunqInv'
    <2>1. min_vruntime(system_runq, vruntimes) \in Nat
      <3>1. CASE queued = 0 BY <3>1 DEF RunqInv, Sound, min_vruntime
      <3>2. CASE queued # 0
        <4>1. system_runq.leftmost = 1 /\ 1 \in Nodes /\ vruntimes[1] \in Nat
          BY <3>2, NodesAssumption DEF RunqInv, Sound
        <4> QED BY <4>1, TreeAssumption DEF min_vruntime
      <3> QED BY <3>1, <3>2
    <2>2. key \in Nat BY <1>1, <2>1, KeysAssumption
    <2> QED BY <1>1, <2>2, AddSound
  <1>2. ASSUME NEW t \in 1 .. queued, remove_runq(t) PROVE RunqInv' BY <1>2, RemoveSound DEF remove_runq
  <1>3. CASE next_runq
    <2>1. CASE system_runq.leftmost = NULL BY <1>3, <2>1 DEF next_runq, runq_vars, RunqInv
    <2>2. CASE system_runq.leftmost # NULL
      <3>1. queued \in 1 .. MaxSize /\ system_runq.leftmost = 1 /\ 1 \in 1 .. queued
        BY <2>2, NodesAssumption DEF RunqInv, Sound
      <3>2. Settle(tree_remove(system_runq, 1), vruntimes, RemoveAt(Count(queued), 1))
        BY <1>3, <2>2, <3>1, TailOrder DEF next_runq
      <3> QED BY <3>1, <3>2, RemoveSound
    <2> QED BY <2>1, <2>2
  <1>4. CASE UNCHANGED runq_vars BY <1>4 DEF runq_vars, RunqInv
  <1> QED BY <1>1, <1>2, <1>3, <1>4 DEF RunqNext

LEMMA RunqSound == RunqSpec => []RunqInv
  BY RunqStart, RunqStep, PTL DEF RunqSpec

\* The tree of the run queue holds exactly the queued tasks, by vruntime and
\* then by arrival (sched/runq.c and the insertion and erasure of lib/rbtree.c).
THEOREM RunQueueInOrder == RunqSpec => []InOrder
  <1>1. RunqInv => InOrder
    <2> SUFFICES ASSUME RunqInv PROVE InOrder OBVIOUS
    <2>1. /\ queued \in 0 .. MaxSize
          /\ \A i, j \in 1 .. queued : i < j => vruntimes[i] <= vruntimes[j]
          /\ IsTree(system_runq.heap, 1 .. queued, queued, Count(queued))
      BY DEF RunqInv, Sound
    <2>2. MaxSize \in Nat /\ queued <= MaxSize BY <2>1, NodesAssumption
    <2>3. PICK M, h : M = 1 .. queued /\ h = system_runq.heap OBVIOUS
    <2>4. IsTree(h, M, queued, Count(queued)) /\ Numbered(M, queued, Count(queued)) BY <2>1, <2>3, CountIs
    <2>5. Walk(h, h.root, MaxSize) = OrderOf(M, queued, Count(queued)) BY <2>2, <2>4, WalkAll
    <2> QED BY <2>1, <2>3, <2>5, CountIs DEF InOrder
  <1> QED BY <1>1, RunqSound, PTL

\* The cached rb_leftmost is the first node of the tree, and num_threads counts
\* the queued tasks.
THEOREM RunQueueCacheExact == RunqSpec => []CacheExact
  <1>1. RunqInv => CacheExact
    <2> SUFFICES ASSUME RunqInv PROVE CacheExact OBVIOUS
    <2>1. PICK h, n : h = system_runq.heap /\ n = queued OBVIOUS
    <2>2. /\ n \in 0 .. MaxSize /\ IsTree(h, 1 .. n, n, Count(n)) /\ system_runq.num_threads = n
          /\ system_runq.leftmost = IF n = 0 THEN NULL ELSE 1
      BY <2>1 DEF RunqInv, Sound
    <2>3. PICK lo, hi : Tree(h, 1 .. n, n, Count(n), lo, hi) BY <2>2 DEF IsTree
    <2>4. Rooted(h, 1 .. n, n, lo, hi) /\ Numbered(1 .. n, n, Count(n)) BY <2>2, <2>3, CountIs DEF Tree
    <2>5. CASE h.root = NULL
      <3>1. n = 0 BY <2>4, <2>5 DEF Rooted
      <3> QED BY <2>1, <2>2, <2>5, <3>1 DEF CacheExact, rb_first
    <2>6. CASE h.root # NULL
      <3>1. h.root \in 1 .. n /\ lo[h.root] = 1 BY <2>4, <2>6 DEF Rooted
      <3>2. Descend(h, h.root, "left") \in 1 .. n /\ Count(n)[Descend(h, h.root, "left")] = 1
        <4>1. PICK M, p : M = 1 .. n /\ p = Count(n) OBVIOUS
        <4>2. Numbered(M, n, p) /\ Tree(h, M, n, p, lo, hi) /\ h.root \in M BY <2>3, <2>4, <3>1, <4>1
        <4>3. Descend(h, h.root, "left") \in M /\ p[Descend(h, h.root, "left")] = lo[h.root] BY <4>2, DescendleftIs
        <4> QED BY <3>1, <4>1, <4>3
      <3>3. rb_first(h) = 1 BY <2>2, <2>6, <3>2, CountIs DEF rb_first
      <3>4. n # 0 BY <2>2, <3>1, NodesAssumption
      <3> QED BY <2>1, <2>2, <3>3, <3>4 DEF CacheExact
    <2> QED BY <2>5, <2>6
  <1> QED BY <1>1, RunqSound, PTL

\* Rebalancing after any insertions and erasures leaves a red-black tree: black
\* root, no red child of a red node, as many black nodes on every path, links
\* that match both ways; and no NULL pointer was followed on the way.
THEOREM RunQueueRedBlack == RunqSpec => []RedBlack
  <1>1. RunqInv => RedBlack
    <2> SUFFICES ASSUME RunqInv PROVE RedBlack OBVIOUS
    <2>1. PICK h, n : h = system_runq.heap /\ n = queued OBVIOUS
    <2>2. n \in 0 .. MaxSize /\ IsTree(h, 1 .. n, n, Count(n)) /\ \E b : Counted(h, 1 .. n, b)
      BY <2>1 DEF RunqInv, Sound
    <2>3. Numbered(1 .. n, n, Count(n)) BY <2>2, CountIs
    <2>4. PICK M, p : M = 1 .. n /\ p = Count(n) OBVIOUS
    <2>5. h.ok /\ Linked(h, M) /\ Balanced(h, M) BY <2>2, <2>3, <2>4, CountedBalanced
    <2> QED BY <2>1, <2>4, <2>5 DEF RedBlack
  <1> QED BY <1>1, RunqSound, PTL

-----------------------------------------------------------------------------
(* The scheduler *)

Taking == {"flags", "switch", "stacks"}
BootStages == {"spawn", "timer", "yield", "remove", "done"} \cup Taking

WakeType ==
  {NoWake} \cup [pc : {"link", "color", "cache"}, task : Tasks, place : [parent : Pointer, side : Sides]]

\* What the queue and the contexts hold, also when the queue has been damaged
SchedTypes ==
  /\ rq \in QueueType /\ wake \in WakeType
  /\ current \in All /\ runflag \in [All -> BOOLEAN]
  /\ boot \in BootStages /\ (boot \in Taking \cup {"remove"} => picked \in All)

\* bsp alone is in the queue.
Single(r) == r.leftmost = Bsp /\ \E p : Numbered({Bsp}, 1, p) /\ IsTree(r.heap, {Bsp}, 1, p)

\* Idle has the CPU only when the queue is empty, or holds bsp alone and the boot
\* context has not removed it; and while that switches to a task, nothing else
\* gets the CPU, and idle has TASK_RUNNING only from a tick.
BootInv ==
  /\ boot = "spawn" => rq = EmptyQueue /\ current = IDLE
  /\ current = IDLE /\ boot # "spawn" =>
       \/ rq.leftmost = NULL
       \/ boot \in {"timer", "yield", "remove"} /\ Single(rq) /\ (boot = "remove" => picked = Bsp)
  /\ boot \in Taking => current = IDLE /\ rq.leftmost = NULL
  /\ boot \in {"switch", "stacks"} => runflag[picked] /\ (runflag[IDLE] => picked = IDLE \/ stale # "nothing")

LEMMA AddTyped ==
  ASSUME NEW q, q.rq \in QueueType, NEW t \in Tasks
  PROVE  add_runq(q, t).rq \in QueueType
  BY TreeInsertTyped DEF add_runq, Tasks

LEMMA NextTyped ==
  ASSUME NEW r \in QueueType
  PROVE  NextTask(r) \in All /\ (NextTask(r) # IDLE => NextTask(r) \in Tasks)
  BY DEF NextTask, QueueType, Pointer, All, Tasks

\* sched_run_bsp queues bsp, ...
LEMMA FirstQueued ==
  ASSUME NEW q, q.rq = EmptyQueue
  PROVE  Single(add_runq(q, Bsp).rq)
  <1> DEFINE vr == [q.vr EXCEPT ![Bsp] = min_vruntime(q.rq, q.vr)]
             none == [x \in {} |-> x]
  <1>1. PICK r : r = tree_insert(EmptyQueue, Bsp, vr) OBVIOUS
  <1>2. add_runq(q, Bsp).rq = r BY <1>1 DEF add_runq
  <1> HIDE DEF vr
  <1>3. Bsp \in Nodes BY SchedAssumption DEF Tasks
  <1>4. EmptyHeap \in Heap /\ EmptyHeap.root = NULL BY DEF EmptyHeap, Heap, ZeroNode, rb_node, Pointer
  <1>5. IsTree(EmptyHeap, {}, 0, none)
    <2>1. Tree(EmptyHeap, {}, 0, none, none, none) BY <1>4 DEF Tree, Rooted
    <2> QED BY <2>1 DEF IsTree
  <1>6. Numbered({}, 0, none) BY DEF Numbered
  <1> HIDE DEF none
  <1>7. FreePlace(EmptyHeap, {}, 0, none, 0, NULL, "left") BY DEF FreePlace, Sides
  <1>8. PICK g : g = rb_insert_color(rb_link_node(EmptyHeap, Bsp, NULL, "left"), Bsp) OBVIOUS
  <1>9. PICK p : p = Shifted({}, none, Bsp, 0) OBVIOUS
  <1>10. IsTree(g, {Bsp}, 1, p) /\ Numbered({Bsp}, 1, p)
    <2>1. {} \cup {Bsp} = {Bsp} /\ 0 + 1 = 1 /\ 0 \in 0 .. 0 /\ Bsp \notin {} OBVIOUS
    <2>2. IsTree(g, {} \cup {Bsp}, 0 + 1, p) BY <1>3, <1>5, <1>6, <1>7, <1>8, <1>9, <2>1, InsertedTree
    <2>3. Numbered({} \cup {Bsp}, 0 + 1, p) BY <1>3, <1>6, <1>9, <2>1, ShiftedNumbers
    <2> QED BY <2>1, <2>2, <2>3
  <1>11. r.heap = g /\ r.leftmost = Bsp
    <2>1. FindPlace(EmptyQueue, Bsp, vr) = [parent |-> NULL, side |-> "left"] BY <1>4 DEF FindPlace, EmptyQueue
    <2>2. r = UpdateCache([EmptyQueue EXCEPT !.heap = g], Bsp, vr) BY <1>1, <1>8, <2>1 DEF tree_insert, EmptyQueue
    <2>3. [EmptyQueue EXCEPT !.heap = g] = [heap |-> g, leftmost |-> NULL, num_threads |-> 0] BY DEF EmptyQueue
    <2> QED BY <2>2, <2>3 DEF UpdateCache
  <1> QED BY <1>2, <1>10, <1>11 DEF Single

\* ... and without it the queue is empty again.
LEMMA FirstRemoved ==
  ASSUME NEW r, Single(r)
  PROVE  tree_remove(r, Bsp).leftmost = NULL
  <1>1. PICK p : Numbered({Bsp}, 1, p) /\ IsTree(r.heap, {Bsp}, 1, p) BY DEF Single
  <1>2. p[Bsp] = 1 BY <1>1 DEF Numbered
  <1>3. rb_next(r.heap, Bsp) = NULL BY <1>1, <1>2, NeighbourrightIs
  <1> QED BY <1>3 DEF Single, tree_remove

\* A tick leaves the idle task what it has.
Marks == (stale # "nothing" => stale' # "nothing") /\ (current = IDLE /\ boot \in {"switch", "stacks"} => stale' # "nothing")

\* However schedule() is entered, TASK_RUNNING moves with the CPU.
LEMMA ScheduleRight ==
  ASSUME SchedTypes, RunningFlagExact, BootInv, NEW q, q.rq \in QueueType, NEW st, NEW flag, schedule(q, st, flag),
         UNCHANGED <<wake, boot, picked>>, st[current] = "S_TASK_RUNNABLE" => current \in Tasks,
         current = IDLE => q.rq = rq, boot # "spawn", Marks
  PROVE  SchedTypes' /\ RunningFlagExact' /\ BootInv'
  <1> DEFINE c == Charge(q)
             q2 == IF st[current] = "S_TASK_RUNNABLE" THEN add_runq(c, current) ELSE c
             next == NextTask(q2.rq)
  <1>1. c.rq = q.rq BY DEF Charge
  <1> HIDE DEF c
  <1>2. q2.rq \in QueueType BY <1>1, AddTyped
  <1>3. current = IDLE => q2.rq = rq BY <1>1, SchedAssumption DEF Tasks
  <1>4. Switch(q2, next, [runflag EXCEPT ![current] = FALSE, ![next] = TRUE], flag) BY DEF schedule, c
  <1> HIDE DEF q2
  <1>5. next \in All /\ (next # IDLE => next \in Tasks) BY <1>2, NextTyped
  <1>6. (next = IDLE <=> q2.rq.leftmost = NULL) /\ Bsp # NULL /\ Bsp # IDLE
    BY <1>2, SchedAssumption, TreeAssumption DEF NextTask, QueueType, Pointer, Tasks
  <1> HIDE DEF next
  <1>7. /\ rq' = IF next = IDLE THEN q2.rq ELSE tree_remove(q2.rq, next)
        /\ runflag' = [runflag EXCEPT ![current] = FALSE, ![next] = TRUE]
        /\ current' = next
    BY <1>4 DEF Switch
  <1>8. rq' \in QueueType BY <1>2, <1>5, <1>7, TreeRemoveTyped DEF Tasks
  <1>9. SchedTypes' BY <1>5, <1>7, <1>8 DEF SchedTypes
  <1>10. boot \in Taking => current = IDLE /\ next = IDLE /\ rq' = rq /\ rq.leftmost = NULL
    BY <1>3, <1>6, <1>7 DEF BootInv
  <1>11. boot \in {"switch", "stacks"} => boot \in Taking /\ picked \in All BY DEF Taking, SchedTypes
  <1>12. IDLE \in All BY DEF All
  <1>13. current \in All /\ runflag \in [All -> BOOLEAN] BY DEF SchedTypes
  <1>14. RunningFlagExact'
    <2>1. ASSUME NEW t \in All, runflag'[t]
          PROVE  t = next \/ (boot \in {"switch", "stacks"} /\ t = picked) \/ (t = IDLE /\ stale' # "nothing")
      <3>1. t # next => t # current /\ runflag[t] BY <1>5, <1>7, <1>13, <2>1
      <3> QED BY <3>1 DEF RunningFlagExact, Marks
    <2>2. runflag'[next] BY <1>5, <1>7, <1>13
    <2> QED BY <1>7, <2>1, <2>2 DEF RunningFlagExact
  <1>15. BootInv'
    <2>1. current' = IDLE => rq'.leftmost = NULL BY <1>6, <1>7
    <2>2. boot \in Taking => current' = IDLE BY <1>7, <1>10
    <2>3. ASSUME boot \in {"switch", "stacks"} PROVE runflag'[picked] /\ stale' # "nothing"
      <3>1. runflag[picked] /\ current = IDLE /\ next = IDLE BY <1>10, <1>11, <2>3 DEF BootInv
      <3>2. runflag'[picked] BY <1>7, <1>11, <1>13, <2>3, <3>1
      <3> QED BY <2>3, <3>1, <3>2 DEF Marks
    <2> QED BY <2>1, <2>2, <2>3 DEF BootInv
  <1> QED BY <1>9, <1>14, <1>15

States == {"none", "S_TASK_INIT", "S_TASK_RUNNABLE", "S_TASK_ZOMBIE"}

SchedInv ==
  /\ SchedTypes /\ RunningFlagExact /\ BootInv
  /\ state \in [All -> States] /\ state[IDLE] = "S_TASK_INIT" /\ cast \in Casts

LEMMA InitSched == SchedInit => SchedInv
  <1> SUFFICES ASSUME SchedInit PROVE SchedInv OBVIOUS
  <1>1. IDLE \in All BY DEF All
  <1>2. rq \in QueueType
    <2>1. ZeroNode \in rb_node BY DEF ZeroNode, rb_node, Pointer
    <2>2. [x \in Nodes |-> ZeroNode] \in [Nodes -> rb_node] BY <2>1
    <2>3. EmptyHeap \in Heap BY <2>2 DEF EmptyHeap, Heap, Pointer
    <2> QED BY <2>3 DEF SchedInit, EmptyQueue, QueueType, Pointer
  <1>3. wake \in WakeType BY DEF SchedInit, WakeType
  <1>4. current \in All /\ runflag \in [All -> BOOLEAN] /\ boot = "spawn" BY <1>1 DEF SchedInit
  <1>5. SchedTypes BY <1>2, <1>3, <1>4 DEF SchedTypes, BootStages, Taking
  <1>6. RunningFlagExact BY DEF SchedInit, RunningFlagExact
  <1>7. BootInv BY DEF SchedInit, BootInv, Taking
  <1>8. state \in [All -> States] /\ state[IDLE] = "S_TASK_INIT" /\ cast \in Casts
    BY <1>1 DEF SchedInit, States
  <1> QED BY <1>5, <1>6, <1>7, <1>8 DEF SchedInv

\* A step that leaves the CPU and the boot context alone, and the queue unless a
\* task takes it
LEMMA CpuKept ==
  ASSUME SchedInv, rq' \in QueueType, wake' \in WakeType, rq' = rq \/ current # IDLE,
         UNCHANGED <<current, runflag, boot, picked, stale, cast>>,
         state' \in [All -> States], state'[IDLE] = state[IDLE]
  PROVE  SchedInv'
  <1>1. SchedTypes' BY DEF SchedInv, SchedTypes
  <1>2. RunningFlagExact' BY DEF SchedInv, RunningFlagExact
  <1>3. BootInv'
    <2>1. CASE rq' = rq
      <3>1. UNCHANGED <<rq, current, boot, picked, runflag, stale>> BY <2>1
      <3> QED BY <3>1 DEF SchedInv, BootInv
    <2>2. CASE current # IDLE
      <3>1. boot \notin Taking /\ boot # "spawn" BY <2>2 DEF SchedInv, BootInv
      <3> QED BY <2>2, <3>1 DEF BootInv, Taking
    <2> QED BY <2>1, <2>2
  <1> QED BY <1>1, <1>2, <1>3 DEF SchedInv

\* The state of a task changes, never the idle task's.
LEMMA StateTyped ==
  ASSUME SchedInv, NEW t \in Tasks, NEW s \in States, state' = [state EXCEPT ![t] = s]
  PROVE  state' \in [All -> States] /\ state'[IDLE] = state[IDLE]
  BY SchedAssumption DEF SchedInv, All

LEMMA BootSteps ==
  ASSUME SchedInv,
         \/ sched_run_bsp \/ local_timer_start \/ sched_yield \/ next_runq_removes
         \/ schedule_flags \/ switch_stacks \/ __switch_to
  PROVE  SchedInv'
  <1>0. /\ rq \in QueueType /\ wake \in WakeType /\ Bsp \in Tasks /\ IDLE \in All /\ Bsp # IDLE
        /\ current \in All /\ runflag \in [All -> BOOLEAN] /\ SchedTypes /\ BootInv /\ RunningFlagExact
    BY SchedAssumption DEF SchedInv, SchedTypes, All
  <1>1. CASE sched_run_bsp
    <2>1. /\ boot' = "timer" /\ UNCHANGED <<current, runflag, picked, wake, stale, cast>>
          /\ boot = "spawn" /\ state' = [state EXCEPT ![Bsp] = "S_TASK_RUNNABLE"]
          /\ rq' = add_runq(Queue, Bsp).rq
      BY <1>1 DEF sched_run_bsp
    <2>2. Queue.rq = rq /\ rq = EmptyQueue /\ current = IDLE BY <1>0, <2>1 DEF Queue, BootInv
    <2>3. rq' \in QueueType /\ Single(rq') BY <1>0, <2>1, <2>2, AddTyped, FirstQueued
    <2>4. state' \in [All -> States] /\ state'[IDLE] = state[IDLE] BY <1>0, <2>1, StateTyped DEF States
    <2>5. SchedTypes' BY <1>0, <2>1, <2>3 DEF SchedTypes, BootStages, Taking
    <2>6. RunningFlagExact' BY <1>0, <2>1, <2>2 DEF RunningFlagExact
    <2>7. BootInv' BY <2>1, <2>2, <2>3 DEF BootInv, Taking
    <2> QED BY <2>1, <2>4, <2>5, <2>6, <2>7 DEF SchedInv
  <1>2. ASSUME NEW from, NEW to, BootStep(from, to), rq' \in QueueType, runflag' \in [All -> BOOLEAN], current' \in All,
               to \in BootStages, to \in Taking \cup {"remove"} => picked' \in All, RunningFlagExact', BootInv'
        PROVE  SchedInv'
    BY <1>0, <1>2 DEF BootStep, SchedInv, SchedTypes
  <1>3. CASE local_timer_start
    <2>1. BootStep("timer", "yield") /\ UNCHANGED <<current, runflag, rq, picked>> BY <1>3 DEF local_timer_start
    <2>2. boot = "timer" /\ boot' = "yield" /\ current = IDLE /\ stale' = stale BY <2>1 DEF BootStep
    <2>3. RunningFlagExact' BY <1>0, <2>1, <2>2 DEF RunningFlagExact
    <2>4. BootInv' BY <1>0, <2>1, <2>2 DEF BootInv, Taking, Single
    <2> QED BY <1>0, <1>2, <2>1, <2>2, <2>3, <2>4 DEF BootStages, Taking
  <1>4. CASE sched_yield
    <2>1. BootStep("yield", "remove") /\ UNCHANGED <<current, runflag, rq>> /\ picked' = NextTask(rq)
      BY <1>4 DEF sched_yield
    <2>2. boot = "yield" /\ boot' = "remove" /\ current = IDLE /\ stale' = stale BY <2>1 DEF BootStep
    <2>3. RunningFlagExact' BY <1>0, <2>1, <2>2 DEF RunningFlagExact
    <2>4. picked' \in All BY <1>0, <2>1, NextTyped
    <2>5. Single(rq) => picked' = Bsp BY <1>0, <2>1, TreeAssumption DEF Single, NextTask, Tasks
    <2>6. BootInv' BY <1>0, <2>1, <2>2, <2>5 DEF BootInv, Taking, Single
    <2> QED BY <1>0, <1>2, <2>1, <2>2, <2>3, <2>4, <2>6 DEF BootStages, Taking
  <1>5. CASE next_runq_removes
    <2>1. /\ BootStep("remove", "flags") /\ UNCHANGED <<current, runflag, picked>>
          /\ rq' = IF picked = IDLE THEN rq ELSE tree_remove(rq, picked)
      BY <1>5 DEF next_runq_removes
    <2>2. boot = "remove" /\ boot' = "flags" /\ current = IDLE /\ stale' = stale BY <2>1 DEF BootStep
    <2>3. picked \in All /\ (picked # IDLE => picked \in Tasks) BY <1>0, <2>2 DEF SchedTypes, All
    <2>4. rq' \in QueueType BY <1>0, <2>1, <2>3, TreeRemoveTyped DEF Tasks
    <2>5. rq'.leftmost = NULL
      <3>1. CASE rq.leftmost = NULL
        <4>1. picked # NULL BY <2>3, SchedAssumption, TreeAssumption DEF Tasks
        <4> QED BY <2>1, <3>1, <4>1 DEF tree_remove
      <3>2. CASE Single(rq) /\ picked = Bsp BY <1>0, <2>1, <3>2, FirstRemoved
      <3> QED BY <1>0, <2>2, <3>1, <3>2 DEF BootInv
    <2>6. RunningFlagExact' BY <1>0, <2>1, <2>2 DEF RunningFlagExact
    <2>7. BootInv' BY <2>1, <2>2, <2>5 DEF BootInv, Taking
    <2> QED BY <1>0, <1>2, <2>1, <2>2, <2>3, <2>4, <2>6, <2>7 DEF BootStages, Taking
  <1>6. CASE schedule_flags
    <2>1. /\ BootStep("flags", "switch") /\ UNCHANGED <<current, rq, picked>>
          /\ runflag' = [runflag EXCEPT ![current] = FALSE, ![picked] = TRUE]
      BY <1>6 DEF schedule_flags
    <2>2. boot = "flags" /\ boot' = "switch" /\ current = IDLE /\ stale' = stale BY <2>1 DEF BootStep
    <2>3. picked \in All /\ rq.leftmost = NULL BY <1>0, <2>2 DEF SchedTypes, BootInv, Taking
    <2>4. runflag'[picked] /\ \A t \in All : t # picked /\ runflag'[t] => t # IDLE /\ runflag[t]
      BY <1>0, <2>1, <2>2, <2>3
    <2>5. RunningFlagExact' BY <1>0, <2>1, <2>2, <2>4 DEF RunningFlagExact
    <2>6. BootInv' BY <1>0, <2>1, <2>2, <2>3, <2>4 DEF BootInv
    <2> QED BY <1>0, <1>2, <2>1, <2>2, <2>3, <2>5, <2>6 DEF BootStages, Taking
  <1>7. CASE switch_stacks
    <2>1. BootStep("switch", "stacks") /\ UNCHANGED <<current, runflag, rq, picked>> BY <1>7 DEF switch_stacks
    <2>2. boot = "switch" /\ boot' = "stacks" /\ current = IDLE /\ stale' = stale BY <2>1 DEF BootStep
    <2>3. picked \in All BY <1>0, <2>2 DEF SchedTypes, Taking
    <2>4. RunningFlagExact' BY <1>0, <2>1, <2>2 DEF RunningFlagExact
    <2>5. BootInv' BY <1>0, <2>1, <2>2 DEF BootInv, Taking
    <2> QED BY <1>0, <1>2, <2>1, <2>2, <2>3, <2>4, <2>5 DEF BootStages, Taking
  <1>8. CASE __switch_to
    <2>1. BootStep("stacks", "done") /\ UNCHANGED <<runflag, rq>> /\ current' = picked BY <1>8 DEF __switch_to
    <2>2. boot = "stacks" /\ boot' = "done" /\ current = IDLE /\ stale' = stale BY <2>1 DEF BootStep
    <2>3. picked \in All /\ rq.leftmost = NULL BY <1>0, <2>2 DEF SchedTypes, BootInv, Taking
    <2>4. RunningFlagExact' BY <1>0, <2>1, <2>2, <2>3 DEF RunningFlagExact, BootInv
    <2>5. BootInv' BY <2>1, <2>2, <2>3 DEF BootInv, Taking
    <2> QED BY <1>0, <1>2, <2>1, <2>2, <2>3, <2>4, <2>5 DEF BootStages, Taking
  <1> QED BY <1>1, <1>3, <1>4, <1>5, <1>6, <1>7, <1>8

LEMMA WakeSteps ==
  ASSUME SchedInv,
         \/ \E t \in Tasks : utask_spawn(t) \/ task_wake(t)
         \/ wake_link \/ wake_color \/ wake_cache
  PROVE  SchedInv'
  <1>0. /\ rq \in QueueType /\ wake \in WakeType /\ rq.heap \in Heap
        /\ state \in [All -> States]
    BY DEF SchedInv, SchedTypes, QueueType
  <1>1. ASSUME NEW t \in Tasks, utask_spawn(t) PROVE SchedInv'
    <2>1. state' \in [All -> States] /\ state'[IDLE] = state[IDLE]
      BY <1>1, StateTyped DEF utask_spawn, ktask_spawn, States
    <2> QED BY <1>0, <1>1, <2>1, CpuKept DEF utask_spawn, ktask_spawn, context
  <1>2. ASSUME NEW t \in Tasks, task_wake(t) PROVE SchedInv'
    <2>1. state' \in [All -> States] /\ state'[IDLE] = state[IDLE]
      BY <1>2, StateTyped DEF task_wake, States
    <2>2. FindPlace(rq, t, vruntime') \in [parent : Pointer, side : Sides] BY <1>0, PlaceTyped
    <2>3. wake' \in WakeType BY <1>2, <2>2 DEF task_wake, WakeType
    <2> QED BY <1>0, <1>2, <2>1, <2>3, CpuKept DEF task_wake
  <1>3. ASSUME NEW from \in {"link", "color", "cache"}, NEW to \in {"color", "cache", "none"}, WakeStep(from, to)
        PROVE  /\ wake' \in WakeType
               /\ wake.task \in Nodes /\ wake.place.parent \in Pointer /\ wake.place.side \in Sides
               /\ UNCHANGED <<current, state, runflag, boot, picked, stale, cast>> /\ current # IDLE
    <2>1. wake.pc \in {"link", "color", "cache"} BY <1>3 DEF WakeStep
    <2>2. wake \in [pc : {"link", "color", "cache"}, task : Tasks, place : [parent : Pointer, side : Sides]]
      BY <1>0, <2>1 DEF WakeType, NoWake
    <2>3. wake' \in WakeType BY <1>3, <2>2 DEF WakeStep, WakeType
    <2>4. current # IDLE BY <1>3, SchedAssumption DEF WakeStep, InBsp
    <2> QED BY <1>3, <2>2, <2>3, <2>4 DEF WakeStep, Tasks
  <1>4. CASE wake_link
    <2>1. WakeStep("link", "color") BY <1>4 DEF wake_link
    <2>2. rb_link_node(rq.heap, wake.task, wake.place.parent, wake.place.side) \in Heap
      BY <1>0, <1>3, <2>1, LinkTyped
    <2>3. rq' \in QueueType BY <1>0, <1>4, <2>2, HeapInQueue DEF wake_link
    <2> QED BY <1>0, <1>3, <2>1, <2>3, CpuKept
  <1>5. CASE wake_color
    <2>1. WakeStep("color", "cache") BY <1>5 DEF wake_color
    <2>2. rb_insert_color(rq.heap, wake.task) \in Heap BY <1>0, <1>3, <2>1, InsertTyped
    <2>3. rq' \in QueueType BY <1>0, <1>5, <2>2, HeapInQueue DEF wake_color
    <2> QED BY <1>0, <1>3, <2>1, <2>3, CpuKept
  <1>6. CASE wake_cache
    <2>1. WakeStep("cache", "none") BY <1>6 DEF wake_cache
    <2>2. rq' \in QueueType BY <1>0, <1>3, <1>6, <2>1, CacheTyped DEF wake_cache
    <2> QED BY <1>0, <1>3, <2>1, <2>2, CpuKept
  <1> QED BY <1>1, <1>2, <1>4, <1>5, <1>6

LEMMA ExitStep ==
  ASSUME SchedInv, current \in Tasks, NEW flag, task_exit(flag)
  PROVE  SchedInv'
  <1>0. rq \in QueueType /\ SchedTypes /\ RunningFlagExact /\ BootInv /\ current # IDLE /\ boot # "spawn"
    BY SchedAssumption DEF SchedInv, SchedTypes, BootInv
  <1>1. state' \in [All -> States] /\ state'[IDLE] = state[IDLE] BY StateTyped DEF task_exit, States
  <1>2. UNCHANGED <<boot, picked, wake, stale, cast>> BY DEF task_exit, context
  <1> DEFINE q == IF state[current] = "S_TASK_RUNNABLE" THEN [Queue EXCEPT !.rq = tree_remove(rq, current)] ELSE Queue
  <1>3. q.rq \in QueueType
    <2>1. tree_remove(rq, current) \in QueueType BY <1>0, TreeRemoveTyped DEF Tasks
    <2> QED BY <1>0, <2>1 DEF Queue
  <1>4. IF q.rq.heap.ok THEN schedule(q, state', flag)
        ELSE rq' = q.rq /\ UNCHANGED <<need_resched, vruntime, runflag, current, IF_idle>>
    BY DEF task_exit
  <1> HIDE DEF q
  <1>5. CASE q.rq.heap.ok
    <2>1. Marks BY <1>0, <1>2 DEF Marks
    <2>2. SchedTypes' /\ RunningFlagExact' /\ BootInv' BY <1>0, <1>2, <1>3, <1>4, <1>5, <2>1, ScheduleRight
    <2> QED BY <1>1, <1>2, <2>2 DEF SchedInv
  <1>6. CASE ~q.rq.heap.ok
    <2>1. rq' \in QueueType /\ UNCHANGED <<runflag, current>> BY <1>3, <1>4, <1>6
    <2> QED BY <1>0, <1>1, <1>2, <2>1, CpuKept DEF SchedTypes
  <1> QED BY <1>5, <1>6

LEMMA NextSched ==
  ASSUME SchedInv, [SchedNext]_sched_vars
  PROVE  SchedInv'
  <1>0. /\ rq \in QueueType /\ SchedTypes /\ RunningFlagExact /\ BootInv /\ state \in [All -> States]
        /\ current \in All /\ (state[current] = "S_TASK_RUNNABLE" => current \in Tasks)
    BY DEF SchedInv, SchedTypes, All
  <1>1. ASSUME UNCHANGED <<current, runflag, rq, boot, picked, wake, stale, state, cast>> PROVE SchedInv'
    BY <1>0, <1>1, CpuKept DEF SchedTypes
  <1>2. CASE \/ sched_run_bsp \/ local_timer_start \/ sched_yield \/ next_runq_removes
             \/ schedule_flags \/ switch_stacks \/ __switch_to
    BY <1>2, BootSteps
  <1>3. ASSUME NEW t \in Tasks, utask_spawn(t) PROVE SchedInv' BY <1>3, WakeSteps
  <1>4. ASSUME NEW t \in Tasks, task_wake(t) PROVE SchedInv' BY <1>4, WakeSteps
  <1>5. CASE wake_link \/ wake_color \/ wake_cache BY <1>5, WakeSteps
  <1>6. CASE utask_trampoline \/ bsp_execve
    BY <1>1, <1>6 DEF utask_trampoline, bsp_execve, ktask_execve, context
  <1>7. CASE lapic_timer_handler
    <2>1. PICK ends, resched : Tick(ends, resched) BY <1>7 DEF lapic_timer_handler
    <2>2. UNCHANGED <<state, boot, picked, wake, cast>> BY <2>1 DEF Tick, context
    <2>3. CASE resched
      <3>1. schedule(Queue, state, FALSE) BY <2>1, <2>3 DEF Tick
      <3>2. Queue.rq = rq BY DEF Queue
      <3>3. boot # "spawn" /\ stale' = Stale BY <2>1, <2>3 DEF Tick, TickEnabled
      <3>4. Marks BY <3>3 DEF Marks, Stale
      <3>5. SchedTypes' /\ RunningFlagExact' /\ BootInv' BY <1>0, <2>2, <3>1, <3>2, <3>3, <3>4, ScheduleRight
      <3> QED BY <2>2, <3>5 DEF SchedInv
    <2>4. CASE ~resched
      <3>1. UNCHANGED <<rq, runflag, current, stale>> BY <2>1, <2>4 DEF Tick
      <3> QED BY <1>1, <2>2, <3>1
    <2> QED BY <2>3, <2>4
  <1>8. cast.faulting \cup cast.returning \subseteq Tasks BY SchedAssumption DEF SchedInv
  <1>9. CASE vm_fault_exit
    <2>1. current \in Tasks BY <1>8, <1>9 DEF vm_fault_exit
    <2> QED BY <1>9, <2>1, ExitStep DEF vm_fault_exit
  <1>10. CASE __kfork_return
    <2>1. current \in Tasks BY <1>8, <1>10 DEF __kfork_return
    <2> QED BY <1>10, <2>1, ExitStep DEF __kfork_return
  <1>11. CASE Hlt \/ UNCHANGED sched_vars BY <1>1, <1>11 DEF Hlt, sched_vars, context
  <1> QED BY <1>2, <1>3, <1>4, <1>5, <1>6, <1>7, <1>9, <1>10, <1>11 DEF SchedNext

\* schedule(), sched_yield and __switch_to move TASK_RUNNING with the CPU, for
\* every set of tasks, wherever the ticks come, also when the queue has been
\* damaged; except that a tick between the boot context's writes of the flags and
\* of current_task leaves it with the idle task as well.
THEOREM RunningFlagIsExact == SchedSpec => []RunningFlagExact
  <1>1. SchedInv => RunningFlagExact BY DEF SchedInv
  <1> QED BY <1>1, InitSched, NextSched, PTL DEF SchedSpec
=============================================================================
