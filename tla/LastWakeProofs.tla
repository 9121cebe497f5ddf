--------------------------- MODULE LastWakeProofs ---------------------------
(***************************************************************************)
(* Proofs about LastWake, for every number of suspend cycles, every clock, *)
(* every window of the journal and every length of the history.            *)
(***************************************************************************)
EXTENDS LastWake, SequenceTheorems, FiniteSetTheorems, TLAPS

Event == [kind : {"entry", "exit"}, head : {"offset +00:00"},
          at : 0..MaxClock, cycle : 1..MaxCycles]

\* Types.
KernelTypes ==
  /\ phase \in {"awake", "entering", "asleep", "thawed"}
  /\ cycle \in 0..MaxCycles
  /\ log \in Seq(Event)
  /\ clock \in 0..MaxClock
  /\ wakeIrq # None =>
       wakeIrq[1].irq \in IRQs /\ wakeIrq[1].cycle \in 1..MaxCycles

Flags == disturbed \in BOOLEAN /\ stepped \in BOOLEAN

ReportTypes ==
  /\ pc \in PCs
  /\ args.verbose \in BOOLEAN
  /\ args.history \in Counts \union {NoCount}
  /\ rep = [last_sleep |-> rep.last_sleep, last_wake |-> rep.last_wake,
            wake_irq |-> rep.wake_irq, device |-> rep.device,
            dmesg_wake |-> rep.dmesg_wake, acpi_enabled |-> rep.acpi_enabled,
            history |-> rep.history]
  /\ rep.device \in {None, Some("named")}
  /\ rep.dmesg_wake \in {None, Some("lines")}
  /\ rep.acpi_enabled \in {None, Some("lines")}
  /\ rep.wake_irq # None => rep.wake_irq[1].cycle \in 1..MaxCycles
  /\ rep.history # None => rep.history[1] \in Seq(Event)

\* The log is the history of the cycles: entry and exit in turn, each at its
\* place, and it goes as far as the kernel has got.
LogShape ==
  /\ Len(log) = 2 * cycle - (IF phase = "awake" THEN 0 ELSE 1)
  /\ \A i \in 1..Len(log) : Place(log[i]) = i + 1

\* Unless the clock was set back, it has only gone forward.
LogTimed ==
  ~stepped => \A i, j \in 1..Len(log) :
                i <= j => log[i].at <= log[j].at /\ log[j].at <= clock

\* The interrupt on record ended the last cycle that was slept through.
IrqIsNewest ==
  wakeIrq # None =>
    /\ phase # "asleep"
    /\ wakeIrq[1].cycle = IF phase = "entering" THEN cycle - 1 ELSE cycle

\* What has not been read yet.
ReadInOrder ==
  /\ pc = "sleep" => rep.last_sleep = None
  /\ pc \in {"sleep", "wake"} => rep.last_wake = None
  /\ pc \in {"sleep", "wake", "irq"} => rep.wake_irq = None
  /\ pc = "device" => rep.wake_irq # None
  /\ rep.device # None => rep.wake_irq # None
  /\ pc # "done" => rep.history = None
  /\ pc = "history" => args.history # NoCount

\* A reported event is one of the log, and as long as nothing was logged since
\* the first reading, the last of its kind.
InLog(e) ==
  /\ e \in Event
  /\ Place(e) - 1 \in 1..Len(log)
  /\ log[Place(e) - 1] = e

SleepIsLogged ==
  rep.last_sleep # None =>
    /\ InLog(rep.last_sleep[1]) /\ rep.last_sleep[1].kind = "entry"
    /\ ~disturbed => rep.last_sleep[1].cycle = cycle

WakeIsLogged ==
  rep.last_wake # None =>
    /\ InLog(rep.last_wake[1]) /\ rep.last_wake[1].kind = "exit"
    /\ ~disturbed => rep.last_wake[1].cycle =
                       IF phase = "awake" THEN cycle ELSE cycle - 1

KernelInv == KernelTypes /\ Flags /\ LogShape /\ LogTimed /\ IrqIsNewest

ReportInv ==
  /\ ReportTypes /\ ReadInOrder /\ SleepIsLogged /\ WakeIsLogged
  /\ IrqNotStale /\ HistoryReachesReport

IInv == KernelInv /\ ReportInv

USE BoundsAssumption, SinceAssumption, CountsAssumption

-----------------------------------------------------------------------------
(* What is printed and what is found in it. *)

\* The fields of a message.
LEMMA EventFields ==
  ASSUME NEW e \in Event
  PROVE  /\ e.kind \in {"entry", "exit"}
         /\ e.head = "offset +00:00"
         /\ e.at \in 0..MaxClock /\ e.at \in Int
         /\ e.cycle \in 1..MaxCycles /\ e.cycle \in Int
<1>1. /\ e.kind \in {"entry", "exit"} /\ e.head \in {"offset +00:00"}
      /\ e.at \in 0..MaxClock /\ e.cycle \in 1..MaxCycles
  BY DEF Event
<1>2. \A x : x \in 0..MaxClock \/ x \in 1..MaxCycles => x \in Int
  OBVIOUS
<1> QED BY <1>1, <1>2, Zenon

\* A set of numbers from 1 to n that is not empty has a greatest element: the
\* least distance from n is that of the greatest.
LEMMA GreatestBelow ==
  ASSUME NEW n \in Nat, NEW T \in SUBSET (1..n), T # {}
  PROVE  \E x \in T : \A y \in T : y <= x
<1> DEFINE D == {e \in Nat : \E x \in T : e = n - x}
<1>1. \A x \in T : x \in Int /\ n - x \in Nat
  OBVIOUS
<1>2. \A y \in T : n - y \in D
  BY <1>1
<1>3. D # {} /\ D \subseteq Nat
  BY <1>2
<1> HIDE DEF D
<1>4. \E d \in D : \A e \in D : ~(<<e, d>> \in OpToRel(<, Nat))
  BY <1>3, NatLessThanWellFounded, WFMin
<1>5. \A x, y \in Nat : y < x => <<y, x>> \in OpToRel(<, Nat)
  BY DEF OpToRel
<1>6. \E d \in D : \A e \in D : ~(e < d)
  BY <1>3, <1>4, <1>5, Zenon
<1>7. PICK d \in D : \A e \in D : d <= e
  BY <1>3, <1>6
<1>8. PICK x \in T : d = n - x
  BY DEF D
<1>9. ASSUME NEW y \in T PROVE y <= x
  BY <1>1, <1>2, <1>7, <1>8
<1> QED BY <1>9

\* s is the log from its i-th message on.
IsTail(s, i) ==
  /\ s \in Seq(Event)
  /\ i \in 1..(Len(log) + 1)
  /\ Len(s) = Len(log) + 1 - i
  /\ \A k \in 1..Len(s) : s[k] = log[k + i - 1]

Recent(i, since) == log[i].at + since >= clock

\* Any end of the log is a tail.
LEMMA TailOfLog ==
  ASSUME log \in Seq(Event), NEW i \in 1..(Len(log) + 1)
  PROVE  IsTail(SubSeq(log, i, Len(log)), i)
<1>1. Len(log) \in Nat /\ \A k \in i..Len(log) : log[k] \in Event
  BY LenProperties, ElementOfSeq
<1> DEFINE s == SubSeq(log, i, Len(log))
<1>2. /\ s \in Seq(Event)
      /\ Len(s) = IF i <= Len(log) THEN Len(log) - i + 1 ELSE 0
      /\ \A k \in 1..(Len(log) - i + 1) : s[k] = log[i + k - 1]
  BY <1>1, SubSeqProperties
<1>3. Len(s) = Len(log) + 1 - i
  BY <1>1, <1>2
<1>4. \A k \in 1..Len(s) : s[k] = log[k + i - 1]
  BY <1>1, <1>2, <1>3
<1> QED BY <1>2, <1>3, <1>4 DEF IsTail

\* journalctl prints a tail, and one that is not empty starts where the
\* message before is too old.
LEMMA PrintedIsTail ==
  ASSUME log \in Seq(Event), NEW since \in Nat, NEW s \in Printed(since)
  PROVE  \E i \in 1..(Len(log) + 1) :
           IsTail(s, i) /\ (s # <<>> /\ i > 1 => ~Recent(i - 1, since))
<1>1. Len(log) \in Nat
  BY LenProperties
<1>2. CASE s = <<>>
  <2>1. Len(log) + 1 \in 1..(Len(log) + 1) /\ Len(s) = 0
    BY <1>1, <1>2
  <2>2. IsTail(s, Len(log) + 1)
    BY <1>1, <1>2, <2>1, EmptySeq DEF IsTail
  <2> QED BY <1>2, <2>1, <2>2
<1>3. CASE s # <<>>
  <2>1. PICK i \in 1..(Len(log) + 1) :
          s = SubSeq(log, i, Len(log)) /\ (i > 1 => ~Recent(i - 1, since))
    BY <1>3 DEF Printed, Recent
  <2>2. IsTail(s, i)
    BY <2>1, TailOfLog
  <2> QED BY <2>1, <2>2
<1> QED BY <1>2, <1>3

\* The kernel's messages are all readable: a lookup that finds nothing means
\* that none is of the kind, and one that finds something that nothing of the
\* kind follows it.
LEMMA LastMatch ==
  ASSUME NEW s \in Seq(Event), NEW kind, LastKernelEvent(s, kind) # None
  PROVE  \E k \in 1..Len(s) :
           /\ LastKernelEvent(s, kind) = Some(s[k])
           /\ s[k].kind = kind
           /\ \A j \in 1..Len(s) : s[j].kind = kind => j <= k
<1>1. /\ Len(s) \in Nat /\ DOMAIN s = 1..Len(s)
      /\ \A j \in 1..Len(s) : s[j] \in Event
  BY LenProperties, ElementOfSeq
<1>2. \A j \in 1..Len(s) : Readable(s[j])
  BY <1>1 DEF Readable, Event
<1>3. \A j : j \in Matches(s, kind) <=> j \in 1..Len(s) /\ s[j].kind = kind
  BY <1>1, <1>2 DEF Matches
<1>4. PICK M : M = Matches(s, kind)
  OBVIOUS
<1>5. M # {}
  BY <1>4 DEF LastKernelEvent
<1>6. M \in SUBSET (1..Len(s))
  BY <1>3, <1>4
<1>7. \E x \in M : \A y \in M : y <= x
  BY <1>1, <1>5, <1>6, GreatestBelow
<1>8. PICK k : k = CHOOSE i \in M : \A j \in M : j <= i
  OBVIOUS
<1>9. k \in M /\ \A j \in M : j <= k
  BY <1>7, <1>8
<1>10. LastKernelEvent(s, kind) = Some(s[k])
  BY <1>4, <1>5, <1>8 DEF LastKernelEvent
<1> QED BY <1>3, <1>4, <1>9, <1>10

\* Every message of the kernel is an event of the history.
LEMMA AllKept ==
  ASSUME NEW s \in Seq(Event)
  PROVE  ListKernelEvents(s) = s
<1>1. /\ Len(s) \in Nat /\ DOMAIN s = 1..Len(s)
      /\ \A j \in 1..Len(s) : s[j] \in Event
      /\ s \in [1..Len(s) -> Event]
  BY LenProperties, ElementOfSeq
<1>2. \A j \in 1..Len(s) : Readable(s[j]) /\ s[j].kind \in {"entry", "exit"}
  BY <1>1 DEF Readable, Event
<1>3. PICK M : M = Matches(s, "entry") \union Matches(s, "exit")
  OBVIOUS
<1>4. M = 1..Len(s)
  BY <1>1, <1>2, <1>3 DEF Matches
<1>5. Cardinality(M) = Len(s)
  <2>1. Cardinality(1..Len(s)) = IF 1 > Len(s) THEN 0 ELSE Len(s) - 1 + 1
    BY <1>1, FS_Interval
  <2>2. Cardinality(1..Len(s)) = Len(s)
    BY <1>1, <2>1
  <2> QED BY <1>4, <2>2
<1>6. ASSUME NEW i \in M PROVE Cardinality({j \in M : j < i}) = i - 1
  <2>1. {j \in M : j < i} = 1..(i - 1) /\ i \in Nat /\ i >= 1
    BY <1>1, <1>4
  <2>2. Cardinality(1..(i - 1)) = IF 1 > i - 1 THEN 0 ELSE i - 1 - 1 + 1
    BY <2>1, FS_Interval
  <2>3. Cardinality(1..(i - 1)) = i - 1
    BY <2>1, <2>2
  <2> QED BY <2>1, <2>3, Zenon
<1>7. ASSUME NEW n \in 1..Len(s)
      PROVE  (CHOOSE i \in M : Cardinality({j \in M : j < i}) = n - 1) = n
  <2>1. \A i \in M : Cardinality({j \in M : j < i}) = n - 1 <=> i = n
    BY <1>1, <1>4, <1>6
  <2>2. PICK c : c = CHOOSE i \in M : Cardinality({j \in M : j < i}) = n - 1
    OBVIOUS
  <2>3. \E i \in M : Cardinality({j \in M : j < i}) = n - 1
    BY <1>4, <2>1
  <2>4. c \in M /\ Cardinality({j \in M : j < c}) = n - 1
    BY <2>2, <2>3
  <2> QED BY <2>1, <2>2, <2>4
<1>8. ListKernelEvents(s) =
        [n \in 1..Len(s) |->
           s[CHOOSE i \in M : Cardinality({j \in M : j < i}) = n - 1]]
  BY <1>3, <1>5 DEF ListKernelEvents
<1>9. ListKernelEvents(s) = [n \in 1..Len(s) |-> s[n]]
  BY <1>7, <1>8
<1> QED BY <1>1, <1>9

\* The history is a tail of the log: two events of it, if the window does not
\* cut them off, are its last two.
LEMMA HistoryIsTail ==
  ASSUME log \in Seq(Event), NEW since \in Nat, NEW s \in Printed(since),
         NEW n \in Nat
  PROVE  \E i \in 1..(Len(log) + 1) :
           /\ IsTail(KeepLast(ListKernelEvents(s), n), i)
           /\ i <= Len(log) /\ n >= 2 =>
                \A k \in 1..Len(log) :
                  k >= Len(log) - 1 /\ Recent(k, since) => k >= i
<1>1. PICK i \in 1..(Len(log) + 1) :
        IsTail(s, i) /\ (s # <<>> /\ i > 1 => ~Recent(i - 1, since))
  BY PrintedIsTail
<1>2. ListKernelEvents(s) = s
  BY <1>1, AllKept DEF IsTail
<1>3. Len(log) \in Nat /\ Len(s) \in Nat
  BY <1>1, LenProperties DEF IsTail
<1>4. PICK m : m = (IF Len(s) > n THEN Len(s) - n ELSE 0) + 1
  OBVIOUS
<1>5. m \in 1..(Len(s) + 1)
  BY <1>3, <1>4
<1> DEFINE h == SubSeq(s, m, Len(s))
<1>6. KeepLast(ListKernelEvents(s), n) = h
  BY <1>2, <1>4 DEF KeepLast
<1>7. /\ h \in Seq(Event)
      /\ Len(h) = Len(s) - m + 1
      /\ \A k \in 1..(Len(s) - m + 1) : h[k] = s[m + k - 1]
  <2>1. \A k \in m..Len(s) : s[k] \in Event
    BY <1>1, <1>3, <1>5, ElementOfSeq DEF IsTail
  <2> QED BY <1>3, <1>5, <2>1, SubSeqProperties
<1> HIDE DEF h
<1>8. IsTail(h, i + m - 1)
  <2>1. Len(h) = Len(log) + 1 - (i + m - 1) /\ i + m - 1 \in 1..(Len(log) + 1)
    BY <1>1, <1>3, <1>5, <1>7 DEF IsTail
  <2>2. ASSUME NEW k \in 1..Len(h) PROVE h[k] = log[k + (i + m - 1) - 1]
    <3>1. h[k] = s[m + k - 1]
      BY <1>7
    <3>3. m + k - 1 \in 1..Len(s)
      BY <1>3, <1>5, <1>7
    <3>2. s[m + k - 1] = log[m + k - 1 + i - 1]
      BY <1>1, <3>3 DEF IsTail
    <3> QED BY <1>1, <1>5, <3>1, <3>2
  <2> QED BY <1>7, <2>1, <2>2 DEF IsTail
<1>9. ASSUME i + m - 1 <= Len(log), n >= 2, NEW k \in 1..Len(log),
             k >= Len(log) - 1, Recent(k, since)
      PROVE  k >= i + m - 1
  <2>1. Len(s) = Len(log) + 1 - i
    BY <1>1 DEF IsTail
  <2>2. CASE Len(s) > n
    BY <1>1, <1>3, <1>4, <1>9, <2>1, <2>2
  <2>3. CASE Len(s) <= n
    <3>1. m = 1 /\ i <= Len(log)
      BY <1>1, <1>3, <1>4, <1>9, <2>3
    <3>2. s # <<>>
      BY <1>1, <1>3, <2>1, <3>1, EmptySeq
    <3>3. i > 1 => ~Recent(i - 1, since)
      BY <1>1, <3>2
    <3>4. i - 1 # k
      BY <1>1, <1>9, <3>3
    <3> QED BY <1>1, <1>3, <1>9, <3>1, <3>4
  <2> QED BY <1>3, <2>2, <2>3
<1>10. i + m - 1 \in 1..(Len(log) + 1)
  BY <1>8 DEF IsTail
<1> QED BY <1>6, <1>8, <1>9, <1>10

-----------------------------------------------------------------------------
(* Every step keeps the invariant. *)

\* The log is empty and nothing was read.
LEMMA InitEstablishes == Init => IInv
<1> SUFFICES ASSUME Init PROVE IInv
  OBVIOUS
<1>1. KernelTypes
  BY EmptySeq DEF Init, KernelTypes
<1>2. Flags
  BY Zenon DEF Init, Flags
<1>3. LogShape /\ LogTimed
  <2>1. Len(log) = 0
    BY EmptySeq DEF Init
  <2> QED BY <2>1 DEF Init, LogShape, LogTimed
<1>4. IrqIsNewest
  BY DEF Init, IrqIsNewest
<1>5. ReportTypes
  BY DEF Init, ReportTypes, PCs, None
<1>6. ReadInOrder /\ SleepIsLogged /\ WakeIsLogged
  BY DEF Init, ReadInOrder, SleepIsLogged, WakeIsLogged, None
<1>7. IrqNotStale /\ HistoryReachesReport
  BY DEF Init, IrqNotStale, HistoryReachesReport
<1> QED BY <1>1, <1>2, <1>3, <1>4, <1>5, <1>6, <1>7 DEF IInv, KernelInv, ReportInv

\* What was logged stays logged.
LEMMA StaysLogged ==
  ASSUME log \in Seq(Event), log' \in Seq(Event), Len(log) <= Len(log'),
         \A k \in 1..Len(log) : log'[k] = log[k],
         NEW e, InLog(e)
  PROVE  InLog(e)'
<1>1. Len(log) \in Nat /\ Len(log') \in Nat
  BY LenProperties
<1>2. /\ e \in Event
      /\ Place(e) - 1 \in 1..Len(log)
      /\ log[Place(e) - 1] = e
  BY DEF InLog
<1>3. Place(e) - 1 \in 1..Len(log') /\ log'[Place(e) - 1] = e
  BY <1>1, <1>2
<1> QED BY <1>2, <1>3 DEF InLog

\* The report is left alone by a step that logs nothing and begins or ends no
\* cycle.
LEMMA QuietKeepsReport ==
  ASSUME ReportInv, UNCHANGED <<cliVars, log, cycle, disturbed>>,
         (phase = "awake") <=> (phase' = "awake")
  PROVE  ReportInv'
<1>1. ReportTypes' /\ ReadInOrder'
  BY DEF ReportInv, cliVars, ReportTypes, ReadInOrder
<1>2. SleepIsLogged' /\ WakeIsLogged'
  BY DEF ReportInv, cliVars, SleepIsLogged, WakeIsLogged, InLog
<1>3. IrqNotStale' /\ HistoryReachesReport'
  BY DEF ReportInv, cliVars, IrqNotStale, HistoryReachesReport
<1> QED BY <1>1, <1>2, <1>3 DEF ReportInv

\* A message is appended at its place.
LEMMA LoggedKeeps ==
  ASSUME IInv, NEW kind \in {"entry", "exit"}, NEW c \in 1..MaxCycles,
         Logged(kind, c), UNCHANGED <<cliVars, clock, stepped>>,
         2 * c + (IF kind = "exit" THEN 1 ELSE 0) = Len(log) + 2
  PROVE  /\ log' \in Seq(Event) /\ Len(log') = Len(log) + 1
         /\ \A i \in 1..Len(log') : Place(log'[i]) = i + 1
         /\ Flags' /\ LogTimed' /\ ReportInv'
<1> DEFINE new == [kind |-> kind, head |-> "offset +00:00", at |-> clock, cycle |-> c]
<1>1. new \in Event
  BY DEF Event, IInv, KernelInv, KernelTypes
<1>2. log \in Seq(Event) /\ Len(log) \in Nat
  BY LenProperties DEF IInv, KernelInv, KernelTypes
<1>3. log' = Append(log, new)
  BY DEF Logged
<1>4. Place(new) = Len(log) + 2 /\ new.at = clock
  BY DEF Place
<1> HIDE DEF new
<1>5. /\ log' \in Seq(Event) /\ Len(log') = Len(log) + 1
      /\ \A i \in 1..Len(log) : log'[i] = log[i]
      /\ log'[Len(log) + 1] = new
  BY <1>1, <1>2, <1>3, AppendProperties
<1>6. ASSUME NEW i \in 1..Len(log') PROVE Place(log'[i]) = i + 1
  <2>1. CASE i = Len(log) + 1
    BY <1>2, <1>4, <1>5, <2>1
  <2>2. CASE i \in 1..Len(log)
    <3>1. Place(log[i]) = i + 1
      BY <2>2 DEF IInv, KernelInv, LogShape
    <3> QED BY <1>5, <2>2, <3>1
  <2> QED BY <1>2, <1>5, <2>1, <2>2
<1>7. Flags'
  BY Zenon DEF IInv, KernelInv, Flags, Logged
<1>8. LogTimed'
  <2> SUFFICES ASSUME ~stepped, NEW i \in 1..Len(log'), NEW j \in 1..Len(log'), i <= j
               PROVE  log'[i].at <= log'[j].at /\ log'[j].at <= clock
    BY DEF LogTimed
  <2>1. clock \in Int
    BY DEF IInv, KernelInv, KernelTypes
  <2>2. \A k, l \in 1..Len(log) : k <= l => log[k].at <= log[l].at /\ log[l].at <= clock
    BY DEF IInv, KernelInv, LogTimed
  <2>3. CASE j \in 1..Len(log)
    BY <1>2, <1>5, <2>2, <2>3
  <2>4. CASE j = Len(log) + 1 /\ i = j
    BY <1>4, <1>5, <2>1, <2>4
  <2>5. CASE j = Len(log) + 1 /\ i \in 1..Len(log)
    BY <1>2, <1>4, <1>5, <2>1, <2>2, <2>5
  <2> QED BY <1>2, <1>5, <2>3, <2>4, <2>5
<1>9. ReportTypes' /\ ReadInOrder' /\ IrqNotStale' /\ HistoryReachesReport'
  <2>1. ReportTypes' /\ ReadInOrder'
    BY DEF IInv, ReportInv, cliVars, ReportTypes, ReadInOrder
  <2>2. IrqNotStale' /\ HistoryReachesReport'
    BY DEF IInv, ReportInv, cliVars, IrqNotStale, HistoryReachesReport
  <2> QED BY <2>1, <2>2
<1>10. rep' = rep /\ (~disturbed' => pc = "sleep")
  BY DEF cliVars, Logged
<1>11. \A e : InLog(e) => InLog(e)'
  <2> SUFFICES ASSUME NEW e, InLog(e) PROVE InLog(e)'
    OBVIOUS
  <2> QED BY <1>2, <1>5, StaysLogged
<1>12. SleepIsLogged'
  <2>1. PICK e : e = rep.last_sleep
    OBVIOUS
  <2>2. e # None => InLog(e[1]) /\ e[1].kind = "entry" /\ disturbed'
    BY <1>10, <2>1 DEF IInv, ReportInv, SleepIsLogged, ReadInOrder
  <2>3. e # None => InLog(e[1])'
    BY <1>11, <2>2
  <2> QED BY <1>10, <2>1, <2>2, <2>3 DEF SleepIsLogged
<1>13. WakeIsLogged'
  <2>1. PICK e : e = rep.last_wake
    OBVIOUS
  <2>2. e # None => InLog(e[1]) /\ e[1].kind = "exit" /\ disturbed'
    BY <1>10, <2>1 DEF IInv, ReportInv, WakeIsLogged, ReadInOrder
  <2>3. e # None => InLog(e[1])'
    BY <1>11, <2>2
  <2> QED BY <1>10, <2>1, <2>2, <2>3 DEF WakeIsLogged
<1> QED BY <1>5, <1>6, <1>7, <1>8, <1>9, <1>12, <1>13 DEF ReportInv

\* The kernel logs that it goes to sleep.
LEMMA EntryKeeps == ASSUME IInv, SuspendEntry PROVE IInv'
<1>1. /\ phase = "awake" /\ phase' = "entering"
      /\ cycle' = cycle + 1 /\ cycle' \in 1..MaxCycles
      /\ Len(log) = 2 * cycle
      /\ cycle \in Int
  BY DEF SuspendEntry, IInv, KernelInv, KernelTypes, LogShape
<1>2. /\ Logged("entry", cycle + 1)
      /\ UNCHANGED <<cliVars, clock, stepped>> /\ wakeIrq' = wakeIrq
  BY DEF SuspendEntry
<1>3. /\ log' \in Seq(Event) /\ Len(log') = Len(log) + 1
      /\ \A i \in 1..Len(log') : Place(log'[i]) = i + 1
      /\ Flags' /\ LogTimed' /\ ReportInv'
  BY <1>1, <1>2, LoggedKeeps
<1>4. KernelTypes'
  BY <1>1, <1>2, <1>3 DEF IInv, KernelInv, KernelTypes
<1>5. LogShape'
  BY <1>1, <1>3 DEF LogShape
<1>6. IrqIsNewest'
  BY <1>1, <1>2 DEF IInv, KernelInv, IrqIsNewest
<1> QED BY <1>3, <1>4, <1>5, <1>6 DEF IInv, KernelInv

\* The kernel logs that it woke up.
LEMMA ExitKeeps == ASSUME IInv, SuspendExit PROVE IInv'
<1>1. /\ phase = "thawed" /\ phase' = "awake" /\ cycle' = cycle
      /\ Len(log) = 2 * cycle - 1
      /\ Len(log) \in Nat
      /\ cycle \in 0..MaxCycles
  BY LenProperties DEF SuspendExit, IInv, KernelInv, KernelTypes, LogShape
<1>2. cycle \in 1..MaxCycles
  BY <1>1
<1>3. /\ Logged("exit", cycle)
      /\ UNCHANGED <<cliVars, clock, stepped>> /\ wakeIrq' = wakeIrq
  BY DEF SuspendExit
<1>4. /\ log' \in Seq(Event) /\ Len(log') = Len(log) + 1
      /\ \A i \in 1..Len(log') : Place(log'[i]) = i + 1
      /\ Flags' /\ LogTimed' /\ ReportInv'
  BY <1>1, <1>2, <1>3, LoggedKeeps
<1>5. KernelTypes'
  BY <1>1, <1>3, <1>4 DEF IInv, KernelInv, KernelTypes
<1>6. LogShape'
  BY <1>1, <1>4 DEF LogShape
<1>7. IrqIsNewest'
  BY <1>1, <1>3 DEF IInv, KernelInv, IrqIsNewest
<1> QED BY <1>4, <1>5, <1>6, <1>7 DEF IInv, KernelInv

\* The other steps of the kernel write no message.
LEMMA SilentKeeps == ASSUME IInv, Freeze \/ Thaw PROVE IInv'
<1>1. /\ phase # "awake" /\ phase' # "awake"
      /\ phase \in {"entering", "asleep"} /\ phase' \in {"asleep", "thawed"}
      /\ log' = log /\ cycle' = cycle /\ clock' = clock /\ stepped' = stepped
      /\ disturbed' = disturbed
      /\ UNCHANGED <<cliVars, log, cycle, disturbed>>
  BY DEF Freeze, Thaw
<1>2. Len(log) \in Nat /\ Len(log) = 2 * cycle - 1 /\ cycle \in 0..MaxCycles
  BY <1>1, LenProperties DEF IInv, KernelInv, KernelTypes, LogShape
<1>3. cycle \in 1..MaxCycles
  BY <1>2
<1>4. wakeIrq' # None =>
        /\ Thaw
        /\ wakeIrq'[1].irq \in IRQs /\ wakeIrq'[1].cycle = cycle
  BY DEF Freeze, Thaw, None, Some
<1>5. KernelTypes'
  BY <1>1, <1>3, <1>4 DEF IInv, KernelInv, KernelTypes
<1>6. Flags'
  BY <1>1, Zenon DEF IInv, KernelInv, Flags
<1>7. LogShape' /\ LogTimed'
  BY <1>1 DEF IInv, KernelInv, LogShape, LogTimed
<1>8. IrqIsNewest'
  BY <1>1, <1>4 DEF IrqIsNewest, Thaw
<1>9. ReportInv'
  BY <1>1, QuietKeepsReport DEF IInv
<1> QED BY <1>5, <1>6, <1>7, <1>8, <1>9 DEF IInv, KernelInv

\* The clock moves, or is set back.
LEMMA ClockKeeps == ASSUME IInv, Tick \/ StepBack PROVE IInv'
<1>1. /\ phase' = phase /\ log' = log /\ cycle' = cycle /\ wakeIrq' = wakeIrq
      /\ disturbed' = disturbed
      /\ UNCHANGED <<cliVars, log, cycle, disturbed>>
  BY DEF Tick, StepBack, kernelVars
<1>2. clock \in 0..MaxClock /\ clock' \in 0..MaxClock /\ log \in Seq(Event)
  BY DEF IInv, KernelInv, KernelTypes, Tick, StepBack
<1>3. KernelTypes'
  BY <1>1, <1>2 DEF IInv, KernelInv, KernelTypes
<1>4. Flags'
  BY <1>1, Zenon DEF IInv, KernelInv, Flags, Tick, StepBack, kernelVars
<1>5. LogShape' /\ IrqIsNewest'
  BY <1>1 DEF IInv, KernelInv, LogShape, IrqIsNewest
<1>6. LogTimed'
  <2>1. CASE StepBack
    BY <2>1 DEF StepBack, LogTimed
  <2>2. CASE Tick
    <3>1. stepped' = stepped /\ clock' = clock + 1
      BY <2>2 DEF Tick, kernelVars
    <3>2. \A j \in 1..Len(log) : log[j].at \in Int
      BY <1>2, ElementOfSeq, EventFields
    <3> QED BY <1>1, <1>2, <3>1, <3>2 DEF IInv, KernelInv, LogTimed
  <2> QED BY <2>1, <2>2
<1>7. ReportInv'
  BY <1>1, QuietKeepsReport DEF IInv
<1> QED BY <1>3, <1>4, <1>5, <1>6, <1>7 DEF IInv, KernelInv

\* A reading changes nothing outside the report.
LEMMA KernelStays ==
  ASSUME KernelInv, UNCHANGED <<kernelVars, clock, disturbed>>
  PROVE  KernelInv'
<1>1. Flags'
  BY Zenon DEF KernelInv, kernelVars, Flags
<1>2. KernelTypes' /\ LogShape' /\ LogTimed' /\ IrqIsNewest'
  BY DEF KernelInv, kernelVars, KernelTypes, LogShape, LogTimed, IrqIsNewest
<1> QED BY <1>1, <1>2 DEF KernelInv

\* Where each reading leads.
LEMMA OrderOfReadings ==
  /\ NextReading("sleep") = "wake"
  /\ NextReading("wake") = "irq"
  /\ \A here \in {"irq", "device", "dmesg", "acpi"} :
       NextReading(here) \in {"dmesg", "acpi", "history", "done"}
  /\ NextReading("history") = "done"
  /\ \A here \in PCs :
       NextReading(here) = "history" => args.history # NoCount
<1>1. NextReading("sleep") = "wake" /\ NextReading("wake") = "irq"
  BY DEF NextReading
<1>2. \A here \in {"irq", "device", "dmesg", "acpi"} :
        NextReading(here) \in {"dmesg", "acpi", "history", "done"}
  BY DEF NextReading
<1>3. NextReading("history") = "done"
  BY DEF NextReading
<1>4. \A here \in PCs :
        NextReading(here) = "history" => args.history # NoCount
  BY DEF NextReading, PCs
<1> QED BY <1>1, <1>2, <1>3, <1>4

\* A lookup finds an event of the log that no other of its kind follows.
LEMMA NewestFound ==
  ASSUME KernelInv, NEW since \in Nat, NEW s \in Printed(since), NEW kind,
         LastKernelEvent(s, kind) # None
  PROVE  \E e : /\ LastKernelEvent(s, kind) = Some(e)
                /\ InLog(e) /\ e.kind = kind
                /\ \A k \in 1..Len(log) : log[k].kind = kind => k < Place(e)
<1>1. log \in Seq(Event) /\ Len(log) \in Nat
  BY LenProperties DEF KernelInv, KernelTypes
<1>2. PICK i \in 1..(Len(log) + 1) : IsTail(s, i)
  BY <1>1, PrintedIsTail
<1>3. /\ s \in Seq(Event) /\ Len(s) = Len(log) + 1 - i
      /\ \A k \in 1..Len(s) : s[k] = log[k + i - 1]
  BY <1>2 DEF IsTail
<1>4. PICK k \in 1..Len(s) :
        /\ LastKernelEvent(s, kind) = Some(s[k])
        /\ s[k].kind = kind
        /\ \A j \in 1..Len(s) : s[j].kind = kind => j <= k
  BY <1>3, LastMatch
<1>5. k + i - 1 \in 1..Len(log) /\ s[k] = log[k + i - 1] /\ k \in Int
  BY <1>1, <1>3
<1>6. Place(s[k]) = k + i /\ s[k] \in Event
  BY <1>1, <1>5, ElementOfSeq DEF KernelInv, LogShape
<1>7. InLog(s[k])
  BY <1>5, <1>6 DEF InLog
<1>8. ASSUME NEW j \in 1..Len(log), log[j].kind = kind
      PROVE  j < Place(s[k])
  <2>1. CASE j < i
    BY <1>5, <1>6, <2>1
  <2>2. CASE j >= i
    <3>1. PICK l \in Int : l = j - i + 1
      OBVIOUS
    <3>2. l \in 1..Len(s) /\ l + i - 1 = j
      BY <1>1, <1>3, <2>2, <3>1
    <3>3. s[l] = log[j]
      BY <1>3, <3>2
    <3>4. l <= k
      BY <1>4, <1>8, <3>2, <3>3
    <3> QED BY <1>5, <1>6, <3>2, <3>4
  <2> QED BY <2>1, <2>2
<1> QED BY <1>4, <1>6, <1>7, <1>8

\* Which place the entry and the exit of a cycle have.
LEMMA PlaceOfEvent ==
  ASSUME KernelInv, NEW e, InLog(e)
  PROVE  /\ e.cycle \in Int /\ Place(e) \in Int
         /\ e.kind = "entry" => Place(e) = 2 * e.cycle
         /\ e.kind = "exit" => Place(e) = 2 * e.cycle + 1
         /\ Place(e) - 1 \in 1..Len(log)
<1>1. e.cycle \in Int
  BY EventFields DEF InLog
<1>2. e.kind = "entry" => Place(e) = 2 * e.cycle
  BY <1>1 DEF Place
<1>3. e.kind = "exit" => Place(e) = 2 * e.cycle + 1
  BY <1>1 DEF Place
<1>4. Place(e) \in Int
  <2>1. e.kind \in {"entry", "exit"}
    BY EventFields DEF InLog
  <2>2. PICK c \in Int : c = e.cycle
    BY <1>1
  <2>3. Place(e) = 2 * c \/ Place(e) = 2 * c + 1
    BY <1>2, <1>3, <2>1, <2>2
  <2> QED BY <2>3
<1>5. Place(e) - 1 \in 1..Len(log)
  BY DEF InLog
<1> QED BY <1>1, <1>2, <1>3, <1>4, <1>5

\* How far the log goes.
LEMMA LengthOfLog ==
  ASSUME KernelInv
  PROVE  /\ Len(log) \in Nat /\ cycle \in Nat
         /\ phase = "awake" => Len(log) = 2 * cycle
         /\ phase # "awake" => Len(log) = 2 * cycle - 1
<1>1. Len(log) \in Nat /\ cycle \in Nat
  BY LenProperties DEF KernelInv, KernelTypes
<1>2. Len(log) = 2 * cycle - (IF phase = "awake" THEN 0 ELSE 1)
  BY DEF KernelInv, LogShape
<1> QED BY <1>1, <1>2

\* The last entry is that of the current cycle.
LEMMA LastEntry ==
  ASSUME KernelInv, NEW e, InLog(e), e.kind = "entry",
         \A k \in 1..Len(log) : log[k].kind = "entry" => k < Place(e)
  PROVE  e.cycle = cycle
<1>0. Len(log) \in Nat /\ cycle \in Nat /\ Len(log) \in {2 * cycle, 2 * cycle - 1}
  BY LengthOfLog
<1>1. /\ e.cycle \in Int /\ Place(e) = 2 * e.cycle
      /\ Place(e) - 1 \in 1..Len(log) /\ Len(log) \in Nat /\ cycle \in Nat
      /\ Len(log) <= 2 * cycle /\ Len(log) >= 2 * cycle - 1
  BY <1>0, PlaceOfEvent
<1>2. e.cycle <= cycle
  BY <1>1
<1>3. ASSUME e.cycle < cycle PROVE FALSE
  <2>1. PICK k \in Int : k = 2 * cycle - 1
    BY <1>1
  <2>2. k \in 1..Len(log) /\ k >= Place(e)
    BY <1>1, <1>3, <2>1
  <2>3. PICK f : f = log[k]
    OBVIOUS
  <2>4. f \in Event /\ Place(f) = 2 * cycle
    BY <1>1, <2>1, <2>2, <2>3, ElementOfSeq DEF KernelInv, KernelTypes, LogShape
  <2>5. PICK c \in Int : c = f.cycle
    BY <2>4, EventFields
  <2>6. 2 * c + (IF f.kind = "exit" THEN 1 ELSE 0) = 2 * cycle
    BY <2>4, <2>5 DEF Place
  <2>7. ASSUME f.kind = "exit" PROVE FALSE
    <3>1. 2 * c + 1 = 2 * cycle
      BY <2>6, <2>7
    <3> QED BY <1>1, <3>1
  <2>8. f.kind = "entry"
    BY <2>4, <2>7, EventFields
  <2> QED BY <1>1, <2>2, <2>3, <2>8
<1> QED BY <1>1, <1>2, <1>3

\* The last exit is that of the current cycle, or of the one before as long
\* as the current one is not over.
LEMMA LastExit ==
  ASSUME KernelInv, NEW e, InLog(e), e.kind = "exit",
         \A k \in 1..Len(log) : log[k].kind = "exit" => k < Place(e)
  PROVE  e.cycle = IF phase = "awake" THEN cycle ELSE cycle - 1
<1>1. PICK last : last = IF phase = "awake" THEN cycle ELSE cycle - 1
  OBVIOUS
<1>5. /\ Len(log) \in Nat /\ cycle \in Nat /\ last \in Int
      /\ Len(log) \in {2 * last, 2 * last + 1}
  <2>1. CASE phase = "awake"
    BY <1>1, <2>1, LengthOfLog
  <2>2. CASE phase # "awake"
    BY <1>1, <2>2, LengthOfLog
  <2> QED BY <2>1, <2>2
<1>2. /\ e.cycle \in Int /\ Place(e) = 2 * e.cycle + 1
      /\ Place(e) - 1 \in 1..Len(log) /\ Len(log) \in Nat /\ cycle \in Nat
      /\ last \in Int /\ Len(log) <= 2 * last + 1 /\ Len(log) >= 2 * last
  BY <1>5, PlaceOfEvent
<1>3. e.cycle <= last
  BY <1>2
<1>4. ASSUME e.cycle < last PROVE FALSE
  <2>1. PICK k \in Int : k = 2 * last
    BY <1>2
  <2>2. k \in 1..Len(log) /\ k >= Place(e)
    BY <1>2, <1>4, <2>1
  <2>3. PICK f : f = log[k]
    OBVIOUS
  <2>4. f \in Event /\ Place(f) = 2 * last + 1
    BY <1>2, <2>1, <2>2, <2>3, ElementOfSeq DEF KernelInv, KernelTypes, LogShape
  <2>5. PICK c \in Int : c = f.cycle
    BY <2>4, EventFields
  <2>6. 2 * c + (IF f.kind = "exit" THEN 1 ELSE 0) = 2 * last + 1
    BY <2>4, <2>5 DEF Place
  <2>7. f.kind = "exit"
    BY <1>2, <2>6
  <2> QED BY <1>2, <2>2, <2>3, <2>7
<1> QED BY <1>1, <1>2, <1>3, <1>4

\* What a reading of the sleep and of the wake time finds.
LEMMA ReadSleepKeeps == ASSUME IInv, ReadSleep PROVE IInv'
<1>1. /\ pc = "sleep" /\ pc' = "wake" /\ args' = args
      /\ UNCHANGED <<kernelVars, clock, disturbed>>
      /\ log' = log /\ cycle' = cycle /\ phase' = phase /\ disturbed' = disturbed
  BY OrderOfReadings DEF ReadSleep, Reading, kernelVars
<1>2. KernelInv'
  BY <1>1, KernelStays DEF IInv
<1>3. CASE rep' = rep
  <2>1. ReportTypes' /\ ReadInOrder'
    BY <1>1, <1>3 DEF IInv, ReportInv, ReportTypes, ReadInOrder, PCs
  <2>2. SleepIsLogged' /\ WakeIsLogged'
    BY <1>1, <1>3 DEF IInv, ReportInv, SleepIsLogged, WakeIsLogged, InLog
  <2>3. IrqNotStale' /\ HistoryReachesReport'
    BY <1>3 DEF IInv, ReportInv, IrqNotStale, HistoryReachesReport
  <2> QED BY <1>2, <2>1, <2>2, <2>3 DEF IInv, ReportInv
<1>4. CASE rep' # rep
  <2>1. PICK s \in Printed(DefaultSince) :
          rep' = [rep EXCEPT !.last_sleep = LastKernelEvent(s, "entry")]
    BY <1>4 DEF ReadSleep, Fails
  <2>2. PICK found : found = LastKernelEvent(s, "entry")
    OBVIOUS
  <2>3. rep' = [last_sleep |-> found,
                last_wake |-> rep.last_wake,
                wake_irq |-> rep.wake_irq,
                device |-> rep.device,
                dmesg_wake |-> rep.dmesg_wake,
                acpi_enabled |-> rep.acpi_enabled,
                history |-> rep.history]
    BY <2>1, <2>2 DEF IInv, ReportInv, ReportTypes
  <2>4. /\ rep'.last_sleep = found
        /\ rep'.last_wake = rep.last_wake
        /\ rep'.wake_irq = rep.wake_irq
        /\ rep'.device = rep.device
        /\ rep'.dmesg_wake = rep.dmesg_wake
        /\ rep'.acpi_enabled = rep.acpi_enabled
        /\ rep'.history = rep.history
    BY <2>3
  <2>5. ReportTypes' /\ ReadInOrder'
    BY <1>1, <2>3, <2>4 DEF IInv, ReportInv, ReportTypes, ReadInOrder, PCs
  <2>6. SleepIsLogged'
    <3> SUFFICES ASSUME found # None
                 PROVE  InLog(found[1]) /\ found[1].kind = "entry" /\ found[1].cycle = cycle
      BY <1>1, <2>4 DEF SleepIsLogged, InLog
    <3>1. PICK e : /\ found = Some(e) /\ InLog(e) /\ e.kind = "entry"
                   /\ \A k \in 1..Len(log) : log[k].kind = "entry" => k < Place(e)
      BY <2>1, <2>2, NewestFound DEF IInv
    <3>2. e.cycle = cycle
      BY <3>1, LastEntry DEF IInv
    <3> QED BY <3>1, <3>2 DEF Some
  <2>7. WakeIsLogged' /\ IrqNotStale' /\ HistoryReachesReport'
    BY <1>1, <2>4 DEF IInv, ReportInv, WakeIsLogged, IrqNotStale, HistoryReachesReport,
      ReadInOrder
  <2> QED BY <1>2, <2>5, <2>6, <2>7 DEF IInv, ReportInv
<1> QED BY <1>3, <1>4

\* The program looks for the last wake.
LEMMA ReadWakeKeeps == ASSUME IInv, ReadWake PROVE IInv'
<1>1. /\ pc = "wake" /\ pc' = "irq" /\ args' = args
      /\ UNCHANGED <<kernelVars, clock, disturbed>>
      /\ log' = log /\ cycle' = cycle /\ phase' = phase /\ disturbed' = disturbed
  BY OrderOfReadings DEF ReadWake, Reading, kernelVars
<1>2. KernelInv'
  BY <1>1, KernelStays DEF IInv
<1>3. CASE rep' = rep
  <2>1. ReportTypes' /\ ReadInOrder'
    BY <1>1, <1>3 DEF IInv, ReportInv, ReportTypes, ReadInOrder, PCs
  <2>2. SleepIsLogged' /\ WakeIsLogged'
    BY <1>1, <1>3 DEF IInv, ReportInv, SleepIsLogged, WakeIsLogged, InLog
  <2>3. IrqNotStale' /\ HistoryReachesReport'
    BY <1>3 DEF IInv, ReportInv, IrqNotStale, HistoryReachesReport
  <2> QED BY <1>2, <2>1, <2>2, <2>3 DEF IInv, ReportInv
<1>4. CASE rep' # rep
  <2>1. PICK s \in Printed(DefaultSince) :
          rep' = [rep EXCEPT !.last_wake = LastKernelEvent(s, "exit")]
    BY <1>4 DEF ReadWake, Fails
  <2>2. PICK found : found = LastKernelEvent(s, "exit")
    OBVIOUS
  <2>3. rep' = [last_sleep |-> rep.last_sleep,
                last_wake |-> found,
                wake_irq |-> rep.wake_irq,
                device |-> rep.device,
                dmesg_wake |-> rep.dmesg_wake,
                acpi_enabled |-> rep.acpi_enabled,
                history |-> rep.history]
    BY <2>1, <2>2 DEF IInv, ReportInv, ReportTypes
  <2>4. /\ rep'.last_sleep = rep.last_sleep
        /\ rep'.last_wake = found
        /\ rep'.wake_irq = rep.wake_irq
        /\ rep'.device = rep.device
        /\ rep'.dmesg_wake = rep.dmesg_wake
        /\ rep'.acpi_enabled = rep.acpi_enabled
        /\ rep'.history = rep.history
    BY <2>3
  <2>5. ReportTypes' /\ ReadInOrder'
    BY <1>1, <2>3, <2>4 DEF IInv, ReportInv, ReportTypes, ReadInOrder, PCs
  <2>6. WakeIsLogged'
    <3> SUFFICES ASSUME found # None
                 PROVE  /\ InLog(found[1]) /\ found[1].kind = "exit"
                        /\ found[1].cycle = IF phase = "awake" THEN cycle ELSE cycle - 1
      BY <1>1, <2>4 DEF WakeIsLogged, InLog
    <3>1. PICK e : /\ found = Some(e) /\ InLog(e) /\ e.kind = "exit"
                   /\ \A k \in 1..Len(log) : log[k].kind = "exit" => k < Place(e)
      BY <2>1, <2>2, NewestFound DEF IInv
    <3>2. e.cycle = IF phase = "awake" THEN cycle ELSE cycle - 1
      BY <3>1, LastExit DEF IInv
    <3> QED BY <3>1, <3>2 DEF Some
  <2>7. SleepIsLogged'
    BY <1>1, <2>4 DEF IInv, ReportInv, SleepIsLogged, InLog
  <2>8. IrqNotStale' /\ HistoryReachesReport'
    BY <1>1, <2>4 DEF IInv, ReportInv, IrqNotStale, HistoryReachesReport, ReadInOrder
  <2> QED BY <1>2, <2>5, <2>6, <2>7, <2>8 DEF IInv, ReportInv
<1> QED BY <1>3, <1>4

\* The interrupt is no older than any exit in the log.
LEMMA ReadIrqKeeps == ASSUME IInv, ReadIrq PROVE IInv'
<1>1. /\ pc = "irq" /\ pc' = "device" /\ args' = args
      /\ UNCHANGED <<kernelVars, clock, disturbed>>
      /\ log' = log /\ cycle' = cycle /\ phase' = phase /\ disturbed' = disturbed
      /\ wakeIrq # None /\ phase # "asleep"
      /\ rep' = [rep EXCEPT !.wake_irq = wakeIrq]
  BY DEF ReadIrq, kernelVars, Running
<1>2. KernelInv'
  BY <1>1, KernelStays DEF IInv
<1>3. rep' = [last_sleep |-> rep.last_sleep,
              last_wake |-> rep.last_wake,
              wake_irq |-> wakeIrq,
              device |-> rep.device,
              dmesg_wake |-> rep.dmesg_wake,
              acpi_enabled |-> rep.acpi_enabled,
              history |-> rep.history]
  BY <1>1 DEF IInv, ReportInv, ReportTypes
<1>4. /\ rep'.last_sleep = rep.last_sleep
      /\ rep'.last_wake = rep.last_wake
      /\ rep'.wake_irq = wakeIrq
      /\ rep'.device = rep.device
      /\ rep'.dmesg_wake = rep.dmesg_wake
      /\ rep'.acpi_enabled = rep.acpi_enabled
      /\ rep'.history = rep.history
  BY <1>3
<1>5. ReportTypes' /\ ReadInOrder'
  BY <1>1, <1>3, <1>4 DEF IInv, KernelInv, KernelTypes, ReportInv, ReportTypes,
    ReadInOrder, PCs
<1>6. SleepIsLogged' /\ WakeIsLogged'
  BY <1>1, <1>4 DEF IInv, ReportInv, SleepIsLogged, WakeIsLogged, InLog
<1>7. IrqNotStale'
  <2> SUFFICES ASSUME rep.last_wake # None
               PROVE  wakeIrq[1].cycle >= rep.last_wake[1].cycle
    BY <1>4 DEF IrqNotStale
  <2>1. PICK e : e = rep.last_wake[1]
    OBVIOUS
  <2>2. InLog(e) /\ e.kind = "exit"
    BY <2>1 DEF IInv, ReportInv, WakeIsLogged
  <2>3. /\ e.cycle \in Int /\ Place(e) = 2 * e.cycle + 1
        /\ Place(e) - 1 \in 1..Len(log)
        /\ Len(log) \in Nat /\ cycle \in Nat
        /\ phase = "awake" => Len(log) = 2 * cycle
        /\ phase # "awake" => Len(log) = 2 * cycle - 1
    BY <2>2, PlaceOfEvent, LengthOfLog DEF IInv
  <2>4. wakeIrq[1].cycle = IF phase = "entering" THEN cycle - 1 ELSE cycle
    BY <1>1 DEF IInv, KernelInv, IrqIsNewest
  <2>5. CASE phase = "awake"
    BY <2>1, <2>3, <2>4, <2>5
  <2>6. CASE phase = "entering"
    BY <2>1, <2>3, <2>4, <2>6
  <2>7. CASE phase = "thawed"
    BY <2>1, <2>3, <2>4, <2>7
  <2> QED BY <1>1, <2>5, <2>6, <2>7 DEF IInv, KernelInv, KernelTypes
<1>8. HistoryReachesReport'
  BY <1>4 DEF IInv, ReportInv, HistoryReachesReport
<1> QED BY <1>2, <1>5, <1>6, <1>7, <1>8 DEF IInv, ReportInv

\* The readings that are not compared with the log.
LEMMA OtherReadingsKeep ==
  ASSUME IInv, ReadNoIrq \/ ReadDevice \/ ReadDmesg \/ ReadAcpi
  PROVE  IInv'
<1>1. /\ pc \in {"irq", "device", "dmesg", "acpi"}
      /\ pc' \in {"dmesg", "acpi", "history", "done"} /\ args' = args
      /\ pc' = "history" => args.history # NoCount
      /\ UNCHANGED <<kernelVars, clock, disturbed>>
      /\ log' = log /\ cycle' = cycle /\ phase' = phase /\ disturbed' = disturbed
  BY OrderOfReadings DEF ReadNoIrq, ReadDevice, ReadDmesg, ReadAcpi, Reading, kernelVars, PCs
<1>2. KernelInv'
  BY <1>1, KernelStays DEF IInv
<1>3. PICK device, dmesg, acpi :
        /\ device \in {None, Some("named")}
        /\ dmesg \in {None, Some("lines")} /\ acpi \in {None, Some("lines")}
        /\ device # None => rep.wake_irq # None
        /\ rep' = [last_sleep |-> rep.last_sleep, last_wake |-> rep.last_wake,
                   wake_irq |-> rep.wake_irq, device |-> device,
                   dmesg_wake |-> dmesg, acpi_enabled |-> acpi,
                   history |-> rep.history]
  <2>5. /\ rep.device \in {None, Some("named")}
        /\ rep.dmesg_wake \in {None, Some("lines")}
        /\ rep.acpi_enabled \in {None, Some("lines")}
        /\ rep.device # None => rep.wake_irq # None
    BY DEF IInv, ReportInv, ReportTypes, ReadInOrder
  <2>1. CASE rep' = rep
    BY <2>1, <2>5 DEF IInv, ReportInv, ReportTypes
  <2>2. CASE ReadDevice /\ rep' # rep
    <3>1. PICK device \in {None, Some("named")} : rep' = [rep EXCEPT !.device = device]
      BY <2>2 DEF ReadDevice, Fails
    <3>2. rep.wake_irq # None
      BY <2>2 DEF ReadDevice, Reading, IInv, ReportInv, ReadInOrder
    <3>3. rep' = [last_sleep |-> rep.last_sleep, last_wake |-> rep.last_wake,
                   wake_irq |-> rep.wake_irq, device |-> device,
                   dmesg_wake |-> rep.dmesg_wake, acpi_enabled |-> rep.acpi_enabled,
                   history |-> rep.history]
      BY <3>1 DEF IInv, ReportInv, ReportTypes
    <3> QED BY <2>5, <3>2, <3>3
  <2>3. CASE ReadDmesg /\ rep' # rep
    <3>1. rep' = [rep EXCEPT !.dmesg_wake = Some("lines")]
      BY <2>3 DEF ReadDmesg, Fails
    <3>2. rep' = [last_sleep |-> rep.last_sleep, last_wake |-> rep.last_wake,
                   wake_irq |-> rep.wake_irq, device |-> rep.device,
                   dmesg_wake |-> Some("lines"), acpi_enabled |-> rep.acpi_enabled,
                   history |-> rep.history]
      BY <3>1 DEF IInv, ReportInv, ReportTypes
    <3> QED BY <2>5, <3>2
  <2>4. CASE ReadAcpi /\ rep' # rep
    <3>1. rep' = [rep EXCEPT !.acpi_enabled = Some("lines")]
      BY <2>4 DEF ReadAcpi, Fails
    <3>2. rep' = [last_sleep |-> rep.last_sleep, last_wake |-> rep.last_wake,
                   wake_irq |-> rep.wake_irq, device |-> rep.device,
                   dmesg_wake |-> rep.dmesg_wake, acpi_enabled |-> Some("lines"),
                   history |-> rep.history]
      BY <3>1 DEF IInv, ReportInv, ReportTypes
    <3> QED BY <2>5, <3>2
  <2> QED BY <2>1, <2>2, <2>3, <2>4 DEF ReadNoIrq
<1>4. /\ rep'.last_sleep = rep.last_sleep /\ rep'.last_wake = rep.last_wake
      /\ rep'.wake_irq = rep.wake_irq /\ rep'.history = rep.history
      /\ rep'.device = device /\ rep'.dmesg_wake = dmesg /\ rep'.acpi_enabled = acpi
  BY <1>3
<1>5. ReportTypes'
  <2>1. rep' = [last_sleep |-> rep'.last_sleep, last_wake |-> rep'.last_wake,
                wake_irq |-> rep'.wake_irq, device |-> rep'.device,
                dmesg_wake |-> rep'.dmesg_wake, acpi_enabled |-> rep'.acpi_enabled,
                history |-> rep'.history]
    BY <1>3, <1>4
  <2> QED BY <1>1, <1>3, <1>4, <2>1 DEF IInv, ReportInv, ReportTypes, PCs
<1>6. ReadInOrder'
  BY <1>1, <1>3, <1>4 DEF IInv, ReportInv, ReadInOrder
<1>7. SleepIsLogged' /\ WakeIsLogged'
  BY <1>1, <1>4 DEF IInv, ReportInv, SleepIsLogged, WakeIsLogged, InLog
<1>8. IrqNotStale' /\ HistoryReachesReport'
  BY <1>4 DEF IInv, ReportInv, IrqNotStale, HistoryReachesReport
<1> QED BY <1>2, <1>5, <1>6, <1>7, <1>8 DEF IInv, ReportInv

\* The history ends with the last message of the log.
LEMMA ReadHistoryKeeps ==
  ASSUME IInv, ReadHistory PROVE IInv' /\ QuietHistoryStep
<1>1. /\ pc = "history" /\ pc' = "done" /\ args' = args
      /\ UNCHANGED <<kernelVars, clock, disturbed>>
      /\ log' = log /\ cycle' = cycle /\ phase' = phase /\ disturbed' = disturbed
  BY OrderOfReadings DEF ReadHistory, Reading, kernelVars
<1>2. KernelInv'
  BY <1>1, KernelStays DEF IInv
<1>3. CASE rep' = rep
  <2>1. ReportTypes' /\ ReadInOrder'
    BY <1>1, <1>3 DEF IInv, ReportInv, ReportTypes, ReadInOrder, PCs
  <2>2. SleepIsLogged' /\ WakeIsLogged'
    BY <1>1, <1>3 DEF IInv, ReportInv, SleepIsLogged, WakeIsLogged, InLog
  <2>3. IrqNotStale' /\ HistoryReachesReport'
    BY <1>3 DEF IInv, ReportInv, IrqNotStale, HistoryReachesReport
  <2>4. rep'.history = None
    BY <1>1, <1>3 DEF IInv, ReportInv, ReadInOrder
  <2> QED BY <1>2, <2>1, <2>2, <2>3, <2>4 DEF IInv, ReportInv, QuietHistoryStep
<1>4. CASE rep' # rep
  <2>1. PICK s \in Printed(HistorySince) :
          rep' = [rep EXCEPT !.history =
                    Some(KeepLast(ListKernelEvents(s), args.history))]
    BY <1>4 DEF ReadHistory, Fails
  <2>2. log \in Seq(Event) /\ Len(log) \in Nat /\ args.history \in Nat
    BY <1>1, LenProperties DEF IInv, KernelInv, KernelTypes, ReportInv, ReportTypes,
      ReadInOrder
  <2>3. PICK h : h = KeepLast(ListKernelEvents(s), args.history)
    OBVIOUS
  <2>4. rep' = [last_sleep |-> rep.last_sleep,
                last_wake |-> rep.last_wake,
                wake_irq |-> rep.wake_irq,
                device |-> rep.device,
                dmesg_wake |-> rep.dmesg_wake,
                acpi_enabled |-> rep.acpi_enabled,
                history |-> Some(h)]
    BY <2>1, <2>3 DEF IInv, ReportInv, ReportTypes
  <2>5. /\ rep'.last_sleep = rep.last_sleep
        /\ rep'.last_wake = rep.last_wake
        /\ rep'.wake_irq = rep.wake_irq
        /\ rep'.device = rep.device
        /\ rep'.dmesg_wake = rep.dmesg_wake
        /\ rep'.acpi_enabled = rep.acpi_enabled
        /\ rep'.history = Some(h)
    BY <2>4
  <2>6. PICK i \in 1..(Len(log) + 1) :
          /\ IsTail(h, i)
          /\ i <= Len(log) /\ args.history >= 2 =>
               \A k \in 1..Len(log) :
                 k >= Len(log) - 1 /\ Recent(k, HistorySince) => k >= i
    BY <2>2, <2>3, HistoryIsTail
  <2>7. /\ h \in Seq(Event) /\ Len(h) = Len(log) + 1 - i
        /\ \A k \in 1..Len(h) : h[k] = log[k + i - 1]
    BY <2>6 DEF IsTail
  <2>8. rep'.history[1] = h
    BY <2>5 DEF Some
  <2>9. ReportTypes' /\ ReadInOrder'
    BY <1>1, <2>4, <2>5, <2>7, <2>8 DEF IInv, ReportInv, ReportTypes, ReadInOrder, PCs
  <2>10. SleepIsLogged' /\ WakeIsLogged' /\ IrqNotStale'
    BY <1>1, <2>5 DEF IInv, ReportInv, SleepIsLogged, WakeIsLogged, InLog, IrqNotStale
  <2>11. \A e \in {rep.last_sleep, rep.last_wake} : e # None => InLog(e[1])
    BY DEF IInv, ReportInv, SleepIsLogged, WakeIsLogged
  <2>12. HistoryReachesReport'
    <3> SUFFICES ASSUME h # <<>>, NEW e \in {rep.last_sleep, rep.last_wake}, e # None
                 PROVE  Place(h[Len(h)]) >= Place(e[1])
      BY <2>5, <2>8 DEF HistoryReachesReport
    <3>1. Len(h) \in 1..Len(h) /\ Len(h) + i - 1 = Len(log) /\ Len(log) \in 1..Len(log)
      BY <2>2, <2>7, EmptySeq
    <3>2. Place(h[Len(h)]) = Len(log) + 1
      BY <2>7, <3>1 DEF IInv, KernelInv, LogShape
    <3>3. PICK f : f = e[1]
      OBVIOUS
    <3>4. InLog(f)
      BY <2>11, <3>3
    <3>5. PICK p : p = Place(f)
      OBVIOUS
    <3>6. p - 1 \in 1..Len(log) /\ p \in Int
      BY <3>4, <3>5, PlaceOfEvent DEF IInv
    <3> QED BY <2>2, <3>2, <3>3, <3>5, <3>6
  <2>13. QuietHistoryStep
    <3> SUFFICES ASSUME args.history >= 2, ~disturbed, h # <<>>,
                        NEW e \in {rep.last_sleep, rep.last_wake}, e # None,
                        e[1].at + HistorySince >= clock
                 PROVE  \E j \in DOMAIN h : h[j] = e[1]
      BY <2>8 DEF QuietHistoryStep
    <3>1. PICK f : f = e[1]
      OBVIOUS
    <3>2. InLog(f)
      BY <2>11, <3>1
    <3>3. \/ f.kind = "entry" /\ f.cycle = cycle
          \/ f.kind = "exit" /\ f.cycle = IF phase = "awake" THEN cycle ELSE cycle - 1
      BY <3>1 DEF IInv, ReportInv, SleepIsLogged, WakeIsLogged
    <3>4. PICK k \in Int : k = Place(f) - 1
      BY <3>2, PlaceOfEvent DEF IInv
    <3>5. k \in 1..Len(log) /\ log[k] = f
      BY <3>2, <3>4 DEF InLog
    <3>6. k >= Len(log) - 1
      <4>1. /\ Len(log) \in Nat /\ cycle \in Nat
            /\ phase = "awake" => Len(log) = 2 * cycle
            /\ phase # "awake" => Len(log) = 2 * cycle - 1
        BY LengthOfLog DEF IInv
      <4>2. CASE f.kind = "entry"
        <5>1. Place(f) = 2 * cycle
          BY <3>2, <3>3, <4>2, PlaceOfEvent DEF IInv
        <5> QED BY <3>4, <4>1, <5>1
      <4>3. CASE f.kind = "exit"
        <5>1. Place(f) = 2 * f.cycle + 1
          BY <3>2, <4>3, PlaceOfEvent DEF IInv
        <5>2. f.cycle = IF phase = "awake" THEN cycle ELSE cycle - 1
          BY <3>3, <4>3
        <5> QED BY <3>4, <4>1, <5>1, <5>2
      <4> QED BY <3>3, <4>2, <4>3
    <3>7. Len(h) \in Nat /\ Len(h) > 0 /\ DOMAIN h = 1..Len(h)
      BY <2>7, EmptySeq, LenProperties
    <3>8. i <= Len(log)
      BY <2>2, <2>7, <3>7
    <3>9. k >= i
      BY <2>6, <3>1, <3>5, <3>6, <3>8 DEF Recent
    <3>10. PICK j \in Int : j = k - i + 1
      OBVIOUS
    <3>11. j \in 1..Len(h) /\ j + i - 1 = k
      BY <2>2, <2>7, <3>5, <3>9, <3>10
    <3>12. h[j] = f
      BY <2>7, <3>5, <3>11
    <3> QED BY <3>1, <3>7, <3>11, <3>12
  <2> QED BY <1>2, <2>9, <2>10, <2>12, <2>13 DEF IInv, ReportInv
<1> QED BY <1>3, <1>4

\* Nothing moves.
LEMMA StutterKeeps == ASSUME IInv, UNCHANGED vars PROVE IInv'
<1>1. UNCHANGED <<kernelVars, clock, disturbed>>
  BY DEF vars
<1>2. UNCHANGED <<cliVars, log, cycle, disturbed>> /\ phase' = phase
  BY DEF vars, kernelVars
<1> QED BY <1>1, <1>2, KernelStays, QuietKeepsReport DEF IInv

\* The report and the kernel's history keep to each other.
THEOREM ReportInvariant == Spec => []IInv
<1>1. IInv /\ [Next]_vars => IInv'
  <2> SUFFICES ASSUME IInv, [Next]_vars PROVE IInv'
    OBVIOUS
  <2>1. CASE Kernel
    BY <2>1, EntryKeeps, ExitKeeps, SilentKeeps, ClockKeeps DEF Kernel
  <2>2. CASE Program
    BY <2>2, ReadSleepKeeps, ReadWakeKeeps, ReadIrqKeeps, OtherReadingsKeep,
      ReadHistoryKeeps DEF Program
  <2>3. CASE UNCHANGED vars
    BY <2>3, StutterKeeps
  <2> QED BY <2>1, <2>2, <2>3 DEF Next
<1> QED BY <1>1, InitEstablishes, PTL DEF Spec

-----------------------------------------------------------------------------
(* What the invariant says of the printed report. *)

\* Every variable keeps its type.
THEOREM TypeCorrect == Spec => []TypeOK
<1>1. IInv => TypeOK
  <2> SUFFICES ASSUME IInv PROVE TypeOK
    OBVIOUS
  <2>1. ASSUME NEW i \in DOMAIN log
        PROVE  /\ log[i].kind \in {"entry", "exit"}
               /\ log[i].at \in 0..MaxClock /\ log[i].cycle \in 1..MaxCycles
    <3>1. log[i] \in Event
      BY LenProperties, ElementOfSeq DEF IInv, KernelInv, KernelTypes
    <3> QED BY <3>1, EventFields
  <2>2. /\ phase \in {"awake", "entering", "asleep", "thawed"}
        /\ cycle \in 0..MaxCycles /\ clock \in 0..MaxClock
        /\ wakeIrq # None =>
             wakeIrq[1].irq \in IRQs /\ wakeIrq[1].cycle \in 1..MaxCycles
    BY DEF IInv, KernelInv, KernelTypes
  <2>3. /\ pc \in PCs
        /\ {rep.dmesg_wake, rep.acpi_enabled} \subseteq {None, Some("lines")}
        /\ rep.device \in {None, Some("named")}
        /\ rep.device # None => rep.wake_irq # None
        /\ args.history \in Counts \union {NoCount}
    BY DEF IInv, ReportInv, ReportTypes, ReadInOrder
  <2>4. args.verbose \in BOOLEAN /\ disturbed \in BOOLEAN /\ stepped \in BOOLEAN
    BY Zenon DEF IInv, KernelInv, Flags, ReportInv, ReportTypes
  <2> QED BY <2>1, <2>2, <2>3, <2>4, Zenon DEF TypeOK
<1> QED BY <1>1, ReportInvariant, PTL

\* The interrupt that is blamed is never older than the reported wake.
THEOREM IrqIsNeverStale == Spec => []IrqNotStale
<1>1. IInv => IrqNotStale
  BY DEF IInv, ReportInv
<1> QED BY <1>1, ReportInvariant, PTL

\* The history reaches as far as what is reported above it.
THEOREM HistoryReaches == Spec => []HistoryReachesReport
<1>1. IInv => HistoryReachesReport
  BY DEF IInv, ReportInv
<1> QED BY <1>1, ReportInvariant, PTL

\* The order of times is that of places as long as the clock is not set back.
LEMMA LaterIsAfter ==
  ASSUME KernelInv, ~stepped, NEW s, NEW w, InLog(s), InLog(w), w.at > s.at
  PROVE  Place(w) > Place(s)
<1>1. PICK i, j \in Int : i = Place(s) - 1 /\ j = Place(w) - 1
  BY PlaceOfEvent
<1>2. /\ i \in 1..Len(log) /\ log[i] = s
      /\ j \in 1..Len(log) /\ log[j] = w
  BY <1>1 DEF InLog
<1>3. s.at \in Int /\ w.at \in Int
  BY EventFields DEF InLog
<1>4. ~(j <= i)
  <2>1. ASSUME j <= i PROVE w.at <= s.at
    BY <1>2, <2>1 DEF KernelInv, LogTimed
  <2> QED BY <1>3, <2>1
<1>5. Place(s) = i + 1 /\ Place(w) = j + 1
  <2>1. Place(s) \in Int /\ Place(w) \in Int
    BY PlaceOfEvent
  <2> QED BY <1>1, <2>1
<1> QED BY <1>1, <1>4, <1>5

\* The two ends of a printed duration.
LEMMA ShownDuration ==
  ASSUME IInv, ShowsDuration(rep), ~stepped
  PROVE  \E s, w : /\ s = rep.last_sleep[1] /\ w = rep.last_wake[1]
                   /\ InLog(s) /\ s.kind = "entry" /\ InLog(w) /\ w.kind = "exit"
                   /\ s.cycle \in Int /\ w.cycle \in Int /\ w.cycle >= s.cycle
<1>1. PICK s, w : s = rep.last_sleep[1] /\ w = rep.last_wake[1]
  OBVIOUS
<1>2. InLog(s) /\ s.kind = "entry" /\ InLog(w) /\ w.kind = "exit"
  BY <1>1 DEF ShowsDuration, IInv, ReportInv, SleepIsLogged, WakeIsLogged
<1>3. w.at - s.at > 0
  BY <1>1 DEF ShowsDuration
<1>4. s.at \in Int /\ w.at \in Int
  BY <1>2, EventFields DEF InLog
<1>5. Place(w) > Place(s)
  BY <1>2, <1>3, <1>4, LaterIsAfter DEF IInv
<1>6. /\ s.cycle \in Int /\ Place(s) = 2 * s.cycle
      /\ w.cycle \in Int /\ Place(w) = 2 * w.cycle + 1
  <2>1. KernelInv
    BY DEF IInv
  <2>2. s.cycle \in Int /\ Place(s) = 2 * s.cycle
    BY <1>2, <2>1, PlaceOfEvent
  <2>3. w.cycle \in Int /\ Place(w) = 2 * w.cycle + 1
    BY <1>2, <2>1, PlaceOfEvent
  <2> QED BY <2>2, <2>3
<1>7. w.cycle >= s.cycle
  BY <1>5, <1>6
<1> QED BY <1>1, <1>2, <1>6, <1>7

\* A printed duration runs from a sleep to a wake that followed it.
THEOREM DurationsFollowSleeps == Spec => []DurationFollowsSleep
<1>1. IInv => DurationFollowsSleep
  BY ShownDuration DEF DurationFollowsSleep
<1> QED BY <1>1, ReportInvariant, PTL

\* When nothing was logged between the readings, it is that of one cycle.
THEOREM QuietDurations == Spec => []QuietDurationIsOneCycle
<1>1. IInv => QuietDurationIsOneCycle
  <2> SUFFICES ASSUME IInv, ShowsDuration(rep), ~stepped, ~disturbed
               PROVE  rep.last_wake[1].cycle = rep.last_sleep[1].cycle
    BY DEF QuietDurationIsOneCycle
  <2>1. PICK s, w : /\ s = rep.last_sleep[1] /\ w = rep.last_wake[1]
                    /\ s.cycle \in Int /\ w.cycle \in Int /\ w.cycle >= s.cycle
    BY ShownDuration
  <2>2. /\ s.cycle = cycle /\ cycle \in Int
        /\ w.cycle = IF phase = "awake" THEN cycle ELSE cycle - 1
    BY <2>1 DEF ShowsDuration, IInv, KernelInv, KernelTypes, ReportInv,
      SleepIsLogged, WakeIsLogged
  <2> QED BY <2>1, <2>2
<1> QED BY <1>1, ReportInvariant, PTL

\* In a quiet run the history repeats the report.
THEOREM QuietHistoryRepeats == Spec => QuietHistoryRepeatsReport
<1>1. IInv /\ [Next]_vars => [QuietHistoryStep]_vars
  <2> SUFFICES ASSUME IInv, [Next]_vars PROVE [QuietHistoryStep]_vars
    OBVIOUS
  <2>1. CASE ReadHistory
    BY <2>1, ReadHistoryKeeps
  <2>2. CASE ~ReadHistory
    <3>1. pc = "history" => rep' = rep \/ UNCHANGED vars
      BY <2>2 DEF Next, Kernel, Program, SuspendEntry, Freeze, Thaw, SuspendExit,
        Tick, StepBack, ReadSleep, ReadWake, ReadNoIrq, ReadIrq, ReadDevice,
        ReadDmesg, ReadAcpi, Reading, cliVars
    <3>2. pc = "history" => rep.history = None
      BY DEF IInv, ReportInv, ReadInOrder
    <3> QED BY <3>1, <3>2 DEF QuietHistoryStep, vars, cliVars
  <2> QED BY <2>1, <2>2
<1> QED BY <1>1, ReportInvariant, PTL DEF Spec, QuietHistoryRepeatsReport

=============================================================================
