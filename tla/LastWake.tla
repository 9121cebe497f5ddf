------------------------------ MODULE LastWake ------------------------------
(***************************************************************************)
(* The lastwake subcommand against a kernel that keeps running.            *)
(*                                                                         *)
(* cmd::lastwake::run takes up to six readings one after another: two      *)
(* journalctl calls, pm_wakeup_irq, /proc/interrupts, with --verbose dmesg *)
(* and /proc/acpi/wakeup, with -n N a third journalctl. A suspend cycle    *)
(* may begin or complete between any two of them. The kernel logs "PM:     *)
(* suspend entry" before it freezes user space and "PM: suspend exit"      *)
(* after it has thawed it, so the program also runs between a logged entry *)
(* and the freeze, and between the thaw and the logged exit.               *)
(***************************************************************************)
EXTENDS Journal

CONSTANTS
  IRQs,          \* interrupt numbers that may wake the machine
  Listed,        \* those that have a row in /proc/interrupts
  DefaultSince,  \* the window of the two default lookups (7 days)
  HistorySince,  \* the window of the history lookup (30 days)
  Counts,        \* the values of -n to consider
  Faults,        \* readings that may fail: journalctl, status, irq, ...
  MaxCycles,     \* bound: suspend cycles in a behaviour
  MaxClock       \* bound: the wall clock, in seconds

AllFaults == {"journalctl", "status", "irq", "interrupts", "dmesg", "acpi"}

ASSUME IRQsAssumption == Listed \subseteq IRQs
ASSUME SinceAssumption ==
  DefaultSince \in Nat /\ HistorySince \in Nat /\ DefaultSince < HistorySince
ASSUME CountsAssumption == Counts \subseteq Nat
ASSUME FaultsAssumption == Faults \subseteq AllFaults
ASSUME BoundsAssumption == MaxCycles \in Nat /\ MaxClock \in Nat

VARIABLES
  phase,     \* the kernel: awake, entering, asleep, thawed
  cycle,     \* how many suspend cycles have begun
  log,       \* the kernel messages journalctl can print
  clock,     \* the wall clock
  stepped,   \* history: the wall clock has been set back
  wakeIrq,   \* pm_wakeup_irq: None, or a number and the cycle it ended
  pc,        \* the next reading of the program
  args,      \* its flags: verbose and the -n count (or NoCount)
  rep,       \* the LastWakeReport built so far
  disturbed  \* history: a suspend message was logged since the first reading

kernelVars == <<phase, cycle, log, wakeIrq, stepped>>
cliVars == <<pc, args, rep>>
vars == <<kernelVars, clock, cliVars, disturbed>>

NoCount == -1

PCs == {"sleep", "wake", "irq", "device", "dmesg", "acpi", "history", "done"}

TypeOK ==
  /\ phase \in {"awake", "entering", "asleep", "thawed"}
  /\ cycle \in 0..MaxCycles
  /\ \A i \in DOMAIN log : /\ log[i].kind \in {"entry", "exit"}
                           /\ log[i].at \in 0..MaxClock
                           /\ log[i].cycle \in 1..MaxCycles
  /\ clock \in 0..MaxClock
  /\ wakeIrq # None =>
       wakeIrq[1].irq \in IRQs /\ wakeIrq[1].cycle \in 1..MaxCycles
  /\ pc \in PCs
  /\ {rep.dmesg_wake, rep.acpi_enabled} \subseteq {None, Some("lines")}
  /\ rep.device \in {None, Some("named")}
  /\ rep.device # None => rep.wake_irq # None
  /\ args.verbose \in BOOLEAN /\ args.history \in Counts \union {NoCount}
  /\ disturbed \in BOOLEAN /\ stepped \in BOOLEAN

Init ==
  /\ phase = "awake"
  /\ cycle = 0
  /\ log = <<>>
  /\ clock = 0
  /\ wakeIrq = None
  /\ pc = "sleep"
  /\ args \in [verbose : BOOLEAN, history : Counts \union {NoCount}]
  /\ rep = [last_sleep |-> None, last_wake |-> None, wake_irq |-> None,
            device |-> None, dmesg_wake |-> None, acpi_enabled |-> None,
            history |-> None]
  /\ disturbed = FALSE
  /\ stepped = FALSE

-----------------------------------------------------------------------------
(* The kernel. *)

Logged(kind, c) ==
  /\ log' = Append(log, [kind |-> kind, head |-> "offset +00:00",
                          at |-> clock, cycle |-> c])
  /\ disturbed' = (disturbed \/ pc # "sleep")

SuspendEntry ==
  /\ phase = "awake" /\ cycle < MaxCycles
  /\ phase' = "entering"
  /\ cycle' = cycle + 1
  /\ Logged("entry", cycle + 1)
  /\ UNCHANGED <<clock, stepped, wakeIrq, cliVars>>

\* User space stops, and the previous wake-up interrupt is forgotten.
Freeze ==
  /\ phase = "entering"
  /\ phase' = "asleep"
  /\ wakeIrq' = None
  /\ UNCHANGED <<cycle, log, clock, stepped, cliVars, disturbed>>

\* Some wake-ups, and suspends that are aborted, record no interrupt.
Thaw ==
  /\ phase = "asleep"
  /\ phase' = "thawed"
  /\ wakeIrq' \in {None} \union {Some([irq |-> i, cycle |-> cycle]) : i \in IRQs}
  /\ UNCHANGED <<cycle, log, clock, stepped, cliVars, disturbed>>

SuspendExit ==
  /\ phase = "thawed"
  /\ phase' = "awake"
  /\ Logged("exit", cycle)
  /\ UNCHANGED <<cycle, clock, stepped, wakeIrq, cliVars>>

Tick ==
  /\ clock < MaxClock
  /\ clock' = clock + 1
  /\ UNCHANGED <<kernelVars, cliVars, disturbed>>

\* NTP or the user sets the clock back.
StepBack ==
  /\ clock > 0
  /\ clock' \in 0..(clock - 1)
  /\ stepped' = TRUE
  /\ UNCHANGED <<phase, cycle, log, wakeIrq, cliVars, disturbed>>

-----------------------------------------------------------------------------
(* The program. Each reading is one step; a failed one is only logged and  *)
(* leaves its field as LastWakeReport::default() made it.                  *)

Running == phase # "asleep"

\* What journalctl --since prints: the log from the first message that is
\* recent enough. It finds that message by bisection, so when the clock was
\* set back any message that follows one too old may be where it starts.
\* Its exit status is not looked at: a journalctl that fails is one that
\* prints nothing.
Printed(since) ==
  LET Recent(i) == log[i].at + since >= clock
      Starts == {i \in 1..(Len(log) + 1) :
                   /\ i \in DOMAIN log => Recent(i)
                   /\ i > 1 => ~Recent(i - 1)}
  IN  {SubSeq(log, i, Len(log)) : i \in Starts} \union
      (IF "status" \in Faults THEN {<<>>} ELSE {})

\* Faulty variant: the wake source is looked up before the wake time.
IrqBeforeWake(here) ==
  CASE here = "sleep"               -> "irq"
    [] here \in {"irq", "device"}   -> "wake"
    [] here = "wake" /\ args.verbose -> "dmesg"
    [] here = "dmesg"               -> "acpi"
    [] here \in {"wake", "acpi"} /\ args.history # NoCount -> "history"
    [] OTHER                        -> "done"

\* The order of the readings; the flags decide what follows the wake source.
NextReading(here) ==
  CASE here = "sleep"               -> "wake"
    [] here = "wake"                -> "irq"
    [] here \in {"irq", "device"} /\ args.verbose -> "dmesg"
    [] here = "dmesg"               -> "acpi"
    [] here \in {"irq", "device", "acpi"} /\ args.history # NoCount -> "history"
    [] OTHER                        -> "done"

Reading(here) == Running /\ pc = here /\ pc' = NextReading(here)

\* A reading that returned Err, at any of the readings that can fail.
Fails(fault) == fault \in Faults /\ UNCHANGED rep

\* Faulty variant: the sleep lookup stops at the first match.
ReadOldestSleep ==
  /\ Reading("sleep")
  /\ \E lines \in Printed(DefaultSince) :
       rep' = [rep EXCEPT !.last_sleep = FirstKernelEvent(lines, "entry")]
  /\ UNCHANGED <<kernelVars, clock, args, disturbed>>

ReadSleep ==
  /\ Reading("sleep")
  /\ \/ \E lines \in Printed(DefaultSince) :
          rep' = [rep EXCEPT !.last_sleep = LastKernelEvent(lines, "entry")]
     \/ Fails("journalctl")
  /\ UNCHANGED <<kernelVars, clock, args, disturbed>>

ReadWake ==
  /\ Reading("wake")
  /\ \/ \E lines \in Printed(DefaultSince) :
          rep' = [rep EXCEPT !.last_wake = LastKernelEvent(lines, "exit")]
     \/ Fails("journalctl")
  /\ UNCHANGED <<kernelVars, clock, args, disturbed>>

\* An empty or unreadable pm_wakeup_irq: no wake source, no device lookup.
ReadNoIrq ==
  /\ Reading("irq")
  /\ wakeIrq = None \/ "irq" \in Faults
  /\ UNCHANGED <<kernelVars, clock, args, rep, disturbed>>

ReadIrq ==
  /\ Running /\ pc = "irq" /\ pc' = "device"
  /\ wakeIrq # None
  /\ rep' = [rep EXCEPT !.wake_irq = wakeIrq]
  /\ UNCHANGED <<kernelVars, clock, args, disturbed>>

ReadDevice ==
  /\ Reading("device")
  /\ \/ rep' = [rep EXCEPT !.device =
                   IF rep.wake_irq[1].irq \in Listed THEN Some("named") ELSE None]
     \/ Fails("interrupts")
  /\ UNCHANGED <<kernelVars, clock, args, disturbed>>

\* Faulty variant: an error ends up in the report.
ReadDmesgOrError ==
  /\ Reading("dmesg")
  /\ \E found \in {"lines", "error"} :
       rep' = [rep EXCEPT !.dmesg_wake = Some(found)]
  /\ UNCHANGED <<kernelVars, clock, args, disturbed>>

\* dmesg's exit status is not looked at either: a refused dmesg is an empty
\* list. Which lines it found, if any, is left out.
ReadDmesg ==
  /\ Reading("dmesg")
  /\ \/ rep' = [rep EXCEPT !.dmesg_wake = Some("lines")]
     \/ Fails("dmesg")
  /\ UNCHANGED <<kernelVars, clock, args, disturbed>>

ReadAcpi ==
  /\ Reading("acpi")
  /\ \/ rep' = [rep EXCEPT !.acpi_enabled = Some("lines")]
     \/ Fails("acpi")
  /\ UNCHANGED <<kernelVars, clock, args, disturbed>>

ReadHistory ==
  /\ Reading("history")
  /\ \/ \E lines \in Printed(HistorySince) :
          rep' = [rep EXCEPT !.history =
                    Some(KeepLast(ListKernelEvents(lines), args.history))]
     \/ Fails("journalctl")
  /\ UNCHANGED <<kernelVars, clock, args, disturbed>>

Kernel == SuspendEntry \/ Freeze \/ Thaw \/ SuspendExit \/ Tick \/ StepBack

Program ==
  \/ ReadSleep \/ ReadWake \/ ReadNoIrq \/ ReadIrq \/ ReadDevice
  \/ ReadDmesg \/ ReadAcpi \/ ReadHistory

Next == Kernel \/ Program

Spec == Init /\ [][Next]_vars

-----------------------------------------------------------------------------
(* What the printed report says. *)

\* Faulty variant: a wake in the same second as the sleep counts.
DurationOrZero(r) ==
  /\ r.last_sleep # None /\ r.last_wake # None
  /\ r.last_wake[1].at - r.last_sleep[1].at >= 0

\* print_lastwake prints a duration only for a wake after the sleep.
ShowsDuration(r) ==
  /\ r.last_sleep # None /\ r.last_wake # None
  /\ r.last_wake[1].at - r.last_sleep[1].at > 0

\* The place of an event in the kernel's history.
Place(e) == 2 * e.cycle + (IF e.kind = "exit" THEN 1 ELSE 0)

\* As long as the wall clock is never set back, a printed duration runs from a
\* sleep to a wake that followed it, whatever happens between the readings.
DurationFollowsSleep ==
  ShowsDuration(rep) /\ ~stepped => rep.last_wake[1].cycle >= rep.last_sleep[1].cycle

\* If moreover nothing was logged between the two lookups, the duration is
\* that of one suspend cycle. A cycle completed between them is the one way
\* the report adds up the sleep of one cycle, the time awake and a later wake.
QuietDurationIsOneCycle ==
  ShowsDuration(rep) /\ ~stepped /\ ~disturbed =>
    rep.last_wake[1].cycle = rep.last_sleep[1].cycle

\* The wake source is read after the wake time, so it can be newer than the
\* reported wake but never older: a stale interrupt is not blamed for a wake.
IrqNotStale ==
  rep.wake_irq # None /\ rep.last_wake # None =>
    rep.wake_irq[1].cycle >= rep.last_wake[1].cycle

\* The history is read last: it reaches at least as far as the sleep and the
\* wake reported above it, whatever its length, unless it is empty.
HistoryReachesReport ==
  rep.history # None =>
    LET h == rep.history[1]
    IN  h # <<>> =>
          \A e \in {rep.last_sleep, rep.last_wake} :
            e # None => Place(h[Len(h)]) >= Place(e[1])

\* In a quiet run two events of history are enough to repeat the reported
\* sleep and wake, those of them that are still in the wider window by the
\* time the history is read.
QuietHistoryStep ==
  LET h == rep'.history[1]
      InWindow(e) == e # None /\ e[1].at + HistorySince >= clock
  IN  /\ pc = "history" /\ rep'.history # None
      /\ args.history >= 2 /\ ~disturbed
      /\ h # <<>>
      => \A e \in {rep.last_sleep, rep.last_wake} :
           InWindow(e) => \E i \in DOMAIN h : h[i] = e[1]

QuietHistoryRepeatsReport == [][QuietHistoryStep]_vars

=============================================================================
