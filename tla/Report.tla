------------------------------- MODULE Report -------------------------------
(***************************************************************************)
(* From the text of a file to a report, and from a report to the lines of  *)
(* the text output: the parsers of procfs, sysfs and userspace, and the    *)
(* six printers of format::text.                                           *)
(*                                                                         *)
(* A line is a tuple: what it says, and the values in it. A section's      *)
(* blank line, title and rule are one line here. Column widths, units and  *)
(* wording are left out; what is printed, when, and from which value, is   *)
(* not. A value that may be absent is <<>> or <<v>>.                       *)
(***************************************************************************)
EXTENDS Integers, FiniteSetsExt, SequencesExt

CONSTANTS
  TimersCap,    \* ALL_TIMERS_DISPLAY_CAP, 15 in the source
  MessagesCap,  \* the last 5 messages
  LineMax       \* KERNEL_WAKE_LINE_MAX, 70 in the source

ASSUME CapsAssumption == TimersCap \in Nat /\ MessagesCap \in Nat /\ LineMax \in Nat \ {0, 1, 2}

None == <<>>
Some(x) == <<x>>

Only(condition, lines) == IF condition THEN lines ELSE <<>>
Map(op(_), s) == [i \in DOMAIN s |-> op(s[i])]
FlatMap(op(_), s) == FlattenSeq(Map(op, s))
\* The elements that pass a test, in their order.
Keep(s, test(_)) == FlatMap(LAMBDA x : Only(test(x), <<x>>), s)
Sum(op(_), s) == MapThenSumSet(LAMBDA i : op(s[i]), DOMAIN s)
Body(text) == IF text = <<>> THEN <<>> ELSE Tail(text)   \* without the header line

-----------------------------------------------------------------------------
(* Parsers. A line of a table is a record with the number of its columns.  *)

\* Tokens of which one may stand in brackets; of several, the last counts.
ParseBracketedModes(tokens) ==
  LET bracketed(t) == t.bracketed
      marked == Keep(tokens, bracketed)
  IN  [modes   |-> Map(LAMBDA t : t.name, tokens),
       current |-> IF marked = <<>> THEN None ELSE Some(marked[Len(marked)].name)]

\* Lines with a device, a type and a size that is a number.
ParseSwaps(text) ==
  LET usable(l) == l.cols >= 3 /\ l.size # None
  IN  Map(LAMBDA l : [device |-> l.device, size_kb |-> l.size[1]],
          Keep(Body(text), usable))

\* Lines with a device, a state and a status; the sysfs node is optional. An
\* error (None) if there are lines but none of them is like that.
ParseAcpiWakeup(text) ==
  LET usable(l) == l.cols >= 3
      blank(l) == l.cols = 0
      devices == Keep(Body(text), usable)
  IN  IF devices = <<>> /\ \E l \in Range(Body(text)) : ~blank(l) THEN None
      ELSE Some(Map(LAMBDA l : [device |-> l.device, enabled |-> l.enabled,
                                sysfs |-> IF l.cols > 3 THEN Some(l.pci) ELSE None],
                    devices))

\* The first line of that interrupt whose colon is followed by a blank, if it
\* has anything else on it; no later line is looked at.
FindIrqInfo(text, irq) ==
  LET its == {i \in DOMAIN text : text[i].irq = irq /\ ~text[i].glued}
      row == text[Min(its)]
  IN  IF its = {} \/ row.cols < 2 THEN None ELSE Some(row.name)

\* The last few of the lines that speak of waking.
ParseDmesgWakeLines(text) ==
  LET wakes(l) == l.wakes
      matches == Keep(text, wakes)
      n == Len(matches)
  IN  SubSeq(matches, IF n > MessagesCap THEN n - MessagesCap + 1 ELSE 1, n)

\* The non-zero components, or zero seconds.
FormatDuration(secs) ==
  LET parts == << <<secs \div 86400, "d">>, <<(secs % 86400) \div 3600, "h">>,
                  <<(secs % 3600) \div 60, "m">>, <<secs % 60, "s">> >>
      nonzero(p) == p[1] > 0
      shown == Keep(parts, nonzero)
  IN  IF shown = <<>> THEN << <<0, "s">> >> ELSE shown

\* The unit, and the value in its last printed digit. Halfway between two MHz
\* it is the even one; halfway in GHz a binary fraction decides, which is not
\* modelled: no input has such a value.
FormatFreq(khz) ==
  LET Rounded(n, unit) ==
        LET half == 2 * (n % unit) IN
        n \div unit + (IF half > unit \/ (half = unit /\ (n \div unit) % 2 = 1)
                       THEN 1 ELSE 0)
  IN  CASE khz >= 1000000 -> <<"GHz", Rounded(khz, 10000)>>
        [] khz >= 1000 /\ khz < 1000000 -> <<"MHz", Rounded(khz, 1000)>>
        [] OTHER -> <<"kHz", khz>>

-----------------------------------------------------------------------------
(* Printers. *)

Section(title, lines) == << <<"section", title>> >> \o lines
OrNone(lines) == IF lines = <<>> THEN << <<"none">> >> ELSE lines
Rule == << <<"rule">> >>

States == {"freeze", "mem", "disk", "standby"}       \* STATE_DESC
MemModes == {"s2idle", "shallow", "deep"}            \* MEM_MODE_DESC

StateLines(state, verbose) ==
  << <<"state", state, state \in States>> >> \o
  Only(state \in States /\ verbose, << <<"state description", state>> >>)

SwapLines(swaps) ==
  IF swaps = <<>> THEN << <<"swap none">> >>
  ELSE << <<"swap", Sum(LAMBDA s : s.size_kb, swaps) \div 1024>> >> \o
       Map(LAMBDA s : <<"swap device", s.device, s.device = "zram">>, swaps)

PrintSleepStates(r, verbose) ==
  Section("states",
    IF r.states = <<>> THEN << <<"unable">> >>
    ELSE FlatMap(LAMBDA s : StateLines(s, verbose), r.states)) \o
  Section("memory sleep mode",
    IF r.mem.current = None /\ r.mem.modes = <<>> THEN << <<"unable">> >>
    ELSE Map(LAMBDA m : <<"current", m, m \in MemModes>>, r.mem.current) \o
         Only(r.mem.modes # <<>>, << <<"available", r.mem.modes>> >>)) \o
  Only("disk" \in Range(r.states),
    Section("hibernation mode",
      Map(LAMBDA m : <<"current", m, FALSE>>, r.disk.current) \o
      Only(r.disk.modes # <<>> /\ verbose, << <<"available", r.disk.modes>> >>) \o
      SwapLines(r.swaps))) \o
  Only(verbose /\ r.image_size # None,
    Section("hibernation image", Map(LAMBDA n : <<"max", n>>, r.image_size))) \o
  Rule

\* The PCI device is read again while its line is printed; its address stands
\* in if it has no description, and its wake count is shown if it can be read
\* and is not zero.
DeviceLines(d, verbose) ==
  << <<"device", d.device, d.enabled,
       IF d.sysfs = None THEN None
       ELSE IF d.sysfs[1].description = None THEN Some("address")
       ELSE d.sysfs[1].description>> >> \o
  Only(verbose /\ d.sysfs # None /\ d.sysfs[1].wakeup_count \notin {None, Some(0)},
       << <<"wake count", d.sysfs[1].wakeup_count>> >>)

PrintDeviceQuery(r, verbose, enabled_only) ==
  LET enabled(d) == d.enabled
      shown(d) == enabled_only => d.enabled
      acpi == Keep(r.acpi_devices, shown)
      usb == Map(LAMBDA d : <<"usb device", d>>, r.usb_devices)
  IN  Section("acpi wake devices",
        OrNone(FlatMap(LAMBDA d : DeviceLines(d, verbose), acpi))) \o
      Only(usb # <<>>, Section("usb wake devices", usb)) \o
      Rule \o
      << <<"wake-enabled", Len(Keep(r.acpi_devices, enabled)) + Len(usb),
           Len(r.acpi_devices) + Len(usb)>> >>

\* Status, then capacity or else level, then power, each if it is known.
SupplyLine(s) ==
  << "supply", s.name,
     (IF s.status = None THEN <<"Unknown">> ELSE s.status) \o
     (IF s.capacity_pct # None THEN <<"pct">> \o s.capacity_pct ELSE s.level) \o
     (IF s.power_uw # None THEN <<"W">> \o s.power_uw ELSE <<>>) >>

CpuLines(c, verbose) ==
  Map(LAMBDA v : <<"driver", v>>, c.driver) \o
  Map(LAMBDA v : <<"governor", v>>, c.governor) \o
  Map(LAMBDA v : <<"current", FormatFreq(v),
                   IF c.min # None /\ c.max # None
                   THEN <<FormatFreq(c.min[1]), FormatFreq(c.max[1])>>
                   ELSE None>>, c.cur) \o
  Map(LAMBDA v : <<"epp", v>>, c.epp) \o
  Only(c.epp # None /\ verbose, Map(LAMBDA v : <<"available", v>>, c.epp_available)) \o
  << <<"cores", c.cpu_count>> >>

PrintEnergy(r, verbose) ==
  Section("power supplies",
    IF r.supplies = <<>> THEN << <<"no supplies">> >> ELSE Map(SupplyLine, r.supplies)) \o
  Section("cpu frequency", CpuLines(r.cpu, verbose)) \o
  Only(r.temperatures # <<>>,
    Section("temperatures", Map(LAMBDA t : <<"temperature", t>>, r.temperatures))) \o
  Only(r.throttle_count > 0,
    Section("thermal throttling", << <<"events", r.throttle_count>> >>)) \o
  Rule

\* Of name, binary and PID what there is; the binary leads if there is no name.
FormatAudioClient(s) ==
  IF s.name \o s.binary \o s.pid = <<>> THEN <<"unknown">>
  ELSE s.name \o s.binary \o s.pid

VmLabel(comm) ==
  CASE comm = "qemu" -> "QEMU/KVM VM"
    [] comm = "VBoxHeadless" -> "VirtualBox VM"
    [] OTHER -> comm

\* An inhibitor of something else than sleep or idle is counted, not shown.
InhibitorLines(i) ==
  Only(i.what \in {"sleep", "idle"}, << <<"process", i.comm, i.what>> >>)

\* Faulty variant: the inhibitors that are not shown are not counted.
SummaryOfShown(r) ==
  LET total == Len(FlatMap(InhibitorLines, r.inhibitors)) + Len(r.wake_locks)
               + Len(r.audio_streams) + Len(r.vms)
  IN  IF total > 0 THEN <<"blockers", total>> ELSE <<"no blockers">>

Summary(r) ==
  LET total == Len(r.inhibitors) + Len(r.wake_locks) + Len(r.audio_streams)
               + Len(r.vms)
  IN  IF total > 0 THEN <<"blockers", total>> ELSE <<"no blockers">>

PrintRequests(r, verbose) ==
  Section("system inhibitors",
    IF r.inhibitors = <<>> THEN << <<"none">> >>
    ELSE FlatMap(InhibitorLines, r.inhibitors)) \o
  Section("kernel wake locks", OrNone(Map(LAMBDA l : <<"lock", l>>, r.wake_locks))) \o
  Section("audio streams",
    OrNone(Map(LAMBDA s : <<"stream", FormatAudioClient(s)>>, r.audio_streams))) \o
  Section("virtual machines",
    OrNone(Map(LAMBDA c : <<"vm", VmLabel(c)>>, r.vms))) \o
  Only(verbose, Section("usb wakeup devices",
    OrNone(IF r.usb_wakeup = None THEN <<>>
           ELSE Map(LAMBDA d : <<"usb device", d>>, r.usb_wakeup[1])))) \o
  Rule \o << Summary(r) >>

\* 0 and the largest value of u64 stand for no next elapse; a time that is no
\* local time, or two when the clock is set back an hour, is not shown either.
NextElapseDisplay(t) ==
  IF t.next \in {"zero", "max", "no single time"} THEN "n/a" ELSE t.next

PrintWakeTimers(r, verbose) ==
  LET all == IF r.all_timers = None THEN <<>> ELSE r.all_timers[1]
      n == Len(all)
  IN  Section("timers with wakesystem",
        IF r.wake_timers = <<>> THEN << <<"no timers will wake">> >>
        ELSE Map(LAMBDA t : <<"timer", t.unit, NextElapseDisplay(t)>>, r.wake_timers)) \o
      Only(verbose /\ all # <<>>,
        Section("all scheduled timers",
          Map(LAMBDA t : <<"row", t.unit, t.wake_system, NextElapseDisplay(t)>>,
              SubSeq(all, 1, IF n < TimersCap THEN n ELSE TimersCap)) \o
          Only(n > TimersCap, << <<"more", n - TimersCap>> >>))) \o
      Section("rtc wake alarm",
        IF r.rtc_wakealarm = None THEN << <<"no alarm">> >>
        ELSE << <<"alarm", r.rtc_wakealarm[1]>> >>) \o
      Rule \o
      << IF r.wake_timers = <<>> THEN <<"no wake timers">>
         ELSE <<"wake timers", Len(r.wake_timers)>> >>

\* How much of a long line is left, and whether dots follow it.
TruncateKernelWakeLine(n) == IF n > LineMax THEN <<LineMax - 3, TRUE>> ELSE <<n, FALSE>>

PrintLastWake(r, verbose, history) ==
  Section("last sleep/wake cycle",
    << <<"sleep time", r.last_sleep>>, <<"wake time", r.last_wake>> >> \o
    Only(r.last_sleep # None /\ r.last_wake # None /\ r.last_wake[1] > r.last_sleep[1],
      << <<"duration", FormatDuration(r.last_wake[1] - r.last_sleep[1])>> >>)) \o
  Section("wake source",
    << <<"irq", r.wake_irq>> >> \o
    Only(r.wake_irq # None, Map(LAMBDA d : <<"irq device", d>>, r.device))) \o
  Only(verbose /\ r.dmesg_wake \notin {None, Some(<<>>)},
    Section("kernel wake messages",
      Map(LAMBDA l : <<"message">> \o TruncateKernelWakeLine(l.length), r.dmesg_wake[1]))) \o
  Only(verbose,
    Section("enabled acpi wake devices",
      OrNone(IF r.acpi_enabled = None THEN <<>>
             ELSE Map(LAMBDA d : <<"acpi device", d.device, d.sysfs # None>>,
                      r.acpi_enabled[1])))) \o
  Only(history # None,
    Section("recent sleep/wake history",
      IF r.history \in {None, Some(<<>>)} THEN << <<"no events">> >>
      ELSE Map(LAMBDA e : <<"event", e>>, r.history[1]))) \o
  Rule

=============================================================================
