------------------------------- MODULE Output -------------------------------
(***************************************************************************)
(* A run of the program from the command line to its exit status: main,    *)
(* the end of every cmd::*::run, format::text and format::json, against a  *)
(* reader of standard output that may be slow or close the pipe.           *)
(*                                                                         *)
(* devicequery, sleepstates and energy print with println!, which panics   *)
(* if a line cannot be written; requests, waketimers and lastwake return   *)
(* the error to main; JSON output takes a closed pipe for the end of a     *)
(* successful run.                                                         *)
(*                                                                         *)
(* Reports that take several readings of a moving system are built in      *)
(* Requests, WakeTimers, LastWake and Sysfs; here they are given, together *)
(* with the texts of the files that are parsed at once.                    *)
(***************************************************************************)
EXTENDS Report

CONSTANTS
  Formats,   \* of "text" and "json"
  PipeCap,   \* bound: lines the pipe holds
  Faults     \* of "write" (standard output fails) and "stderr"

ASSUME FormatsAssumption == Formats \subseteq {"text", "json"}
ASSUME PipeCapAssumption == PipeCap \in Nat \ {0}

VARIABLES
  call,     \* the command, its flags, the format, and what its sources yield
  pc,       \* run, write, report, exited
  rep,      \* the report
  out,      \* the lines to write
  pos,      \* the lines written
  pipe,     \* written and not yet read
  reader,   \* reads, closed
  exit      \* the exit status, at the end

vars == <<call, pc, rep, out, pos, pipe, reader, exit>>

-----------------------------------------------------------------------------
(* Calls. A source is None if it cannot be read. *)

Calls(cmd, flags, sources) ==
  {[cmd |-> cmd, format |-> f, flags |-> g, sources |-> s] :
     f \in Formats, g \in flags, s \in sources}

Verbosely == [verbose : BOOLEAN]
Token(name) == [name |-> name, bracketed |-> FALSE]
Current(name) == [name |-> name, bracketed |-> TRUE]
Header == [cols |-> 5, device |-> "Filename", size |-> None]
Swap(cols, device, size) == [cols |-> cols, device |-> device, size |-> size]

SleepStatesCalls ==
  Calls("sleepstates", Verbosely,
    [state : {None, Some(<<>>), Some(<<"mem", "odd">>), Some(<<"freeze", "disk">>)},
     mem_sleep : {None, Some(<<Token("odd")>>),
                  Some(<<Token("s2idle"), Current("deep")>>)},
     disk : {None, Some(<<Current("platform"), Token("shutdown")>>)},
     swaps : {None} \union
             {Some(<<Header>> \o s) :
                s \in SeqOf({Swap(2, "sda", None), Swap(5, "sdb", None),
                             Swap(5, "sdc", Some(4096)), Swap(5, "zram", Some(512))}, 1)},
     image_size : {None, Some(None), Some(Some(7))}])

Pci == {[description |-> None, wakeup_count |-> None],
        [description |-> Some("USB Controller"), wakeup_count |-> Some(0)],
        [description |-> Some("NIC"), wakeup_count |-> Some(3)]}
AcpiLine(cols, enabled, pci) ==
  [cols |-> cols, device |-> "GPP0", enabled |-> enabled, pci |-> pci]
AcpiLines ==
  {AcpiLine(c, TRUE, p) : c \in {0, 2, 4}, p \in Pci} \union
  {AcpiLine(c, e, CHOOSE p \in Pci : TRUE) : c \in {3, 4}, e \in BOOLEAN}

DeviceQueryCalls ==
  Calls("devicequery", [verbose : BOOLEAN, enabled_only : BOOLEAN],
    [acpi : {None, Some(<<>>)} \union
            {Some(<<AcpiLine(4, FALSE, None)>> \o s) : s \in SeqOf(AcpiLines, 2)},
     usb : {None, Some(<<"1-1", "1-2">>)}])

Supply(status, pct, level, uw) ==
  [name |-> "BAT0", status |-> status, capacity_pct |-> pct, level |-> level,
   power_uw |-> uw]
NoCpu == [driver |-> None, governor |-> None, cur |-> None, min |-> None, max |-> None,
          epp |-> None, epp_available |-> None, cpu_count |-> 0]
CpuReadings(drivers, governors, curs, mins, maxs, epps, available, counts) ==
  [driver : drivers, governor : governors, cur : curs, min : mins, max : maxs,
   epp : epps, epp_available : available, cpu_count : counts]
Frequencies == {None, Some(999), Some(1000), Some(999500), Some(1000000)}
Lowest == {None, Some(400000)}
Highest == {None, Some(3404000)}
Cpus ==
  CpuReadings({None}, {None}, Frequencies, Lowest, Highest, {None}, {None}, {2}) \union
  CpuReadings({Some("intel")}, {Some("powersave")}, {None}, {None}, {None},
              {None, Some("power")}, {None, Some("power performance")}, {0})
Energies(supplies, cpus, temperatures, throttles) ==
  [supplies : supplies, cpu : cpus, temperatures : temperatures,
   throttle_count : throttles]

EnergyCalls ==
  Calls("energy", Verbosely,
    Energies({<<>>}, Cpus, {<<>>}, {0}) \union
    Energies({<<>>, <<Supply(None, None, None, None)>>,
              <<Supply(Some("Full"), Some(100), Some("Normal"), None),
                Supply(Some("Full"), None, Some("Normal"), Some(5))>>},
             {NoCpu}, {<<>>, <<"Tctl">>}, {0, 3}))

Client(name, binary, pid) == [name |-> name, binary |-> binary, pid |-> pid]

RequestsCalls ==
  Calls("requests", Verbosely,
    [inhibitors : SeqOf([comm : {"app"}, what : {"sleep", "shutdown"}], 2),
     wake_locks : {<<>>, <<"lock">>},
     audio_streams : {<<>>} \union
       {<<Client(n, b, p)>> : n \in {None, Some("n")}, b \in {None, Some("b")},
                              p \in {None, Some("p")}},
     vms : {<<>>, <<"qemu", "VBoxHeadless", "other">>},
     usb_wakeup : {None, Some(<<>>), Some(<<"1-1">>)}])

\* The bus may be out of reach, or the list of the timers refused.
WakeTimersCalls ==
  Calls("waketimers", Verbosely,
    [timers : {None} \union
       {Some(q) : q \in SeqOf([unit : {"t.timer"}, wake_system : BOOLEAN,
                               next : {"zero", "no single time", "09:00"}],
                              TimersCap + 1)},
     rtc_wakealarm : {None, Some("07:00")}])

Message(wakes, length) == [wakes |-> wakes, length |-> length]
IrqLine(irq, glued, cols, name) ==
  [irq |-> irq, glued |-> glued, cols |-> cols, name |-> name]
Interrupts ==
  {None, Some(<<IrqLine(9, FALSE, 1, "")>>),
   Some(<<IrqLine(9, TRUE, 3, "glued"), IrqLine(9, FALSE, 3, "acpi"),
          IrqLine(9, FALSE, 3, "again")>>)}
Dmesgs ==
  {None, Some(<<Message(FALSE, 1)>>),
   Some(<<Message(TRUE, LineMax), Message(FALSE, 1)>> \o
        [i \in 1..MessagesCap |-> Message(TRUE, LineMax + 1)])}
AcpiTexts ==
  {None, Some(<<AcpiLine(4, FALSE, None), AcpiLine(3, TRUE, None),
                AcpiLine(4, FALSE, None)>>)}
Histories == {None, Some(<<>>), Some(<<"sleep", "wake">>)}
Wakes == {None, Some(5), Some(90066)}
LastWakeSources ==
  [last_sleep : {None, Some(5)}, last_wake : Wakes, wake_irq : {None, Some(9)},
   interrupts : Interrupts, dmesg : Dmesgs, acpi : AcpiTexts, history : Histories]

LastWakeCalls ==
  Calls("lastwake", [verbose : BOOLEAN, history : {None, Some(2)}], LastWakeSources)

-----------------------------------------------------------------------------
(* The reports. *)

OrEmpty(source) == IF source = None THEN <<>> ELSE source[1]

\* Faulty variant: the image size is read whatever the flags.
BuildSleepStatesAlways(s, verbose) ==
  [states     |-> OrEmpty(s.state),
   mem        |-> ParseBracketedModes(OrEmpty(s.mem_sleep)),
   disk       |-> ParseBracketedModes(OrEmpty(s.disk)),
   swaps      |-> ParseSwaps(OrEmpty(s.swaps)),
   image_size |-> OrEmpty(s.image_size)]

\* The size of the image is read with --verbose only; a size that does not
\* parse is as good as none.
BuildSleepStates(s, verbose) ==
  [states     |-> OrEmpty(s.state),
   mem        |-> ParseBracketedModes(OrEmpty(s.mem_sleep)),
   disk       |-> ParseBracketedModes(OrEmpty(s.disk)),
   swaps      |-> ParseSwaps(OrEmpty(s.swaps)),
   image_size |-> IF verbose THEN OrEmpty(s.image_size) ELSE None]

BuildDeviceQuery(s) ==
  [acpi_devices |-> OrEmpty(IF s.acpi = None THEN None ELSE ParseAcpiWakeup(s.acpi[1])),
   usb_devices  |-> OrEmpty(s.usb)]

\* The USB devices are asked for with --verbose only.
BuildRequests(s, verbose) ==
  [s EXCEPT !.usb_wakeup = IF verbose THEN s.usb_wakeup ELSE None]

\* A list that cannot be read is no list, with --verbose too.
BuildWakeTimers(s, verbose) ==
  LET wakes(t) == t.wake_system
  IN  [wake_timers |-> Keep(OrEmpty(s.timers), wakes),
       all_timers |-> IF verbose THEN s.timers ELSE None,
       rtc_wakealarm |-> s.rtc_wakealarm]

BuildLastWake(s, flags) ==
  LET enabled(d) == d.enabled
      devices == IF s.acpi = None THEN None ELSE ParseAcpiWakeup(s.acpi[1])
  IN  [last_sleep |-> s.last_sleep, last_wake |-> s.last_wake,
       wake_irq |-> s.wake_irq,
       device |-> IF s.wake_irq = None \/ s.interrupts = None THEN None
                  ELSE FindIrqInfo(s.interrupts[1], s.wake_irq[1]),
       dmesg_wake |-> IF flags.verbose /\ s.dmesg # None
                      THEN Some(ParseDmesgWakeLines(s.dmesg[1])) ELSE None,
       acpi_enabled |-> IF flags.verbose /\ devices # None
                        THEN Some(Keep(devices[1], enabled)) ELSE None,
       history |-> IF flags.history = None THEN None ELSE s.history]

Build(c) ==
  CASE c.cmd = "sleepstates" -> BuildSleepStates(c.sources, c.flags.verbose)
    [] c.cmd = "devicequery" -> BuildDeviceQuery(c.sources)
    [] c.cmd = "requests"    -> BuildRequests(c.sources, c.flags.verbose)
    [] c.cmd = "waketimers"  -> BuildWakeTimers(c.sources, c.flags.verbose)
    [] c.cmd = "lastwake"    -> BuildLastWake(c.sources, c.flags)
    [] OTHER                 -> c.sources

Text(c, r) ==
  CASE c.cmd = "sleepstates" -> PrintSleepStates(r, c.flags.verbose)
    [] c.cmd = "devicequery" -> PrintDeviceQuery(r, c.flags.verbose, c.flags.enabled_only)
    [] c.cmd = "waketimers"  -> PrintWakeTimers(r, c.flags.verbose)
    [] c.cmd = "lastwake"    -> PrintLastWake(r, c.flags.verbose, c.flags.history)
    [] c.cmd = "energy"      -> PrintEnergy(r, c.flags.verbose)
    [] c.cmd = "requests"    -> PrintRequests(r, c.flags.verbose)

\* The fields that are left out of the object when there is nothing in them
\* (skip_serializing_if); any other is null then.
Skipped == {"image_size", "usb_wakeup", "all_timers", "dmesg_wake", "acpi_enabled",
            "history"}

Json(r) ==
  << <<"object", {k \in DOMAIN r : k \in Skipped => r[k] # None}>>, <<"newline">> >>

Panics(c) == c.format = "text" /\ c.cmd \in {"devicequery", "sleepstates", "energy"}

-----------------------------------------------------------------------------

TypeOK ==
  /\ pc \in {"run", "write", "report", "exited"}
  /\ pos \in 0..Len(out) /\ pipe \in 0..PipeCap /\ pipe <= pos
  /\ reader \in {"reads", "closed"}
  /\ exit \in {None, Some(0), Some(1), Some(101)}
  /\ exit # None <=> pc = "exited"
  /\ pc # "run" =>
       /\ call.cmd = "sleepstates" /\ rep.image_size # None => call.flags.verbose
       /\ call.cmd = "lastwake" =>
            /\ rep.dmesg_wake # None \/ rep.acpi_enabled # None => call.flags.verbose
            /\ rep.history # None => call.flags.history # None
       /\ call.cmd = "waketimers" /\ rep.all_timers # None => call.flags.verbose

Init ==
  /\ \/ call \in SleepStatesCalls \/ call \in DeviceQueryCalls
     \/ call \in EnergyCalls \/ call \in RequestsCalls
     \/ call \in WakeTimersCalls \/ call \in LastWakeCalls
  /\ pc = "run" /\ rep = None /\ out = <<>> /\ pos = 0
  /\ pipe = 0 /\ reader = "reads" /\ exit = None

\* Sources that fail leave their default; no command fails because of them.
Run ==
  /\ pc = "run" /\ pc' = "write"
  /\ rep' = Build(call)
  /\ out' = IF call.format = "json" THEN Json(rep') ELSE Text(call, rep')
  /\ UNCHANGED <<call, pos, pipe, reader, exit>>

Written ==
  /\ pc = "write" /\ pos < Len(out)
  /\ UNCHANGED <<call, rep, out, reader>>

\* Standard output is written line by line, and a write waits for room.
WriteLine ==
  /\ Written
  /\ reader = "reads" /\ pipe < PipeCap
  /\ pos' = pos + 1 /\ pipe' = pipe + 1
  /\ UNCHANGED <<pc, exit>>

Exit(status) == pc' = "exited" /\ exit' = Some(status)

\* Faulty variant: JSON goes on writing.
BrokenPipeIgnored ==
  /\ Written
  /\ reader = "closed"
  /\ IF Panics(call) THEN Exit(101)
     ELSE IF call.format = "json" THEN UNCHANGED <<pc, exit>>
     ELSE pc' = "report" /\ UNCHANGED exit
  /\ UNCHANGED <<pos, pipe>>

\* EPIPE: SIGPIPE is ignored in a Rust program.
BrokenPipe ==
  /\ Written
  /\ reader = "closed"
  /\ IF Panics(call) THEN Exit(101)
     ELSE IF call.format = "json" THEN Exit(0)
     ELSE pc' = "report" /\ UNCHANGED exit
  /\ UNCHANGED <<pos, pipe>>

\* Faulty variant: JSON takes any error for a closed pipe.
WriteErrorIgnored ==
  /\ Written
  /\ "write" \in Faults
  /\ IF Panics(call) THEN Exit(101)
     ELSE IF call.format = "json" THEN Exit(0)
     ELSE pc' = "report" /\ UNCHANGED exit
  /\ UNCHANGED <<pos, pipe>>

\* Any other error, such as a full disk.
WriteError ==
  /\ Written
  /\ "write" \in Faults
  /\ IF Panics(call) THEN Exit(101) ELSE pc' = "report" /\ UNCHANGED exit
  /\ UNCHANGED <<pos, pipe>>

\* "error: ..." on standard error, which panics if that cannot be written.
ReportError ==
  /\ pc = "report"
  /\ Exit(1) \/ ("stderr" \in Faults /\ Exit(101))
  /\ UNCHANGED <<call, rep, out, pos, pipe, reader>>

Done ==
  /\ pc = "write" /\ pos = Len(out)
  /\ Exit(0)
  /\ UNCHANGED <<call, rep, out, pos, pipe, reader>>

Read ==
  /\ reader = "reads" /\ pipe > 0
  /\ pipe' = pipe - 1
  /\ UNCHANGED <<call, pc, rep, out, pos, reader, exit>>

\* head or less takes what it wants; what is in the pipe is lost.
Close ==
  /\ reader = "reads" /\ pc = "write"
  /\ reader' = "closed" /\ pipe' = 0
  /\ UNCHANGED <<call, pc, rep, out, pos, exit>>

Program == Run \/ WriteLine \/ BrokenPipe \/ ReportError \/ Done

Next == Program \/ WriteError \/ Read \/ Close

\* The program is scheduled, no write need ever fail, and the reader reads on
\* unless it closes.
Spec == Init /\ [][Next]_vars /\ WF_vars(Program) /\ WF_vars(Read)

-----------------------------------------------------------------------------

Count(kind) == Cardinality({i \in DOMAIN out : out[i][1] = kind})
Printed(line) == \E i \in DOMAIN out : out[i] = line

\* What is not shown is counted all the same.
RequestsVerdict(s) ==
  LET hidden == {i \in DOMAIN s.inhibitors : s.inhibitors[i].what \notin {"sleep", "idle"}}
      n == Count("process") + Cardinality(hidden) + Count("lock")
           + Count("stream") + Count("vm")
  IN  IF s.inhibitors \o s.wake_locks \o s.audio_streams \o s.vms = <<>>
      THEN Printed(<<"no blockers">>) /\ Count("none") >= 4
      ELSE Printed(<<"blockers", n>>)

WakeTimersVerdict(s) ==
  LET timers == OrEmpty(s.timers)
      n == Cardinality({i \in DOMAIN timers : timers[i].wake_system}) IN
    /\ IF n = 0 THEN Printed(<<"no wake timers">>) /\ Printed(<<"no timers will wake">>)
       ELSE Printed(<<"wake timers", n>>) /\ Count("timer") = n
    /\ call.flags.verbose /\ Count("row") < Len(timers) =>
         Printed(<<"more", Len(timers) - Count("row")>>)

\* The same totals with and without --enabled-only.
DeviceQueryVerdict(s) ==
  LET acpi == {i \in DOMAIN OrEmpty(s.acpi) : i > 1 /\ s.acpi[1][i].cols >= 3}
      wake == {i \in acpi : s.acpi[1][i].enabled}
      usb == Len(OrEmpty(s.usb))
  IN  /\ Printed(<<"wake-enabled", Cardinality(wake) + usb, Cardinality(acpi) + usb>>)
      /\ Count("device") = Cardinality(IF call.flags.enabled_only THEN wake ELSE acpi)
      /\ Count("usb device") = usb

\* Hibernation is called unavailable only with disk among the states and no
\* usable swap, and the swaps listed add up to the total above them.
SleepStatesVerdict(s) ==
  LET usable == {i \in DOMAIN OrEmpty(s.swaps) :
                   i > 1 /\ s.swaps[1][i].cols >= 3 /\ s.swaps[1][i].size # None}
      kb == MapThenSumSet(LAMBDA i : s.swaps[1][i].size[1], usable)
      hibernates == s.state # None /\ \E i \in DOMAIN s.state[1] : s.state[1][i] = "disk"
  IN  /\ Printed(<<"swap none">>) <=> hibernates /\ usable = {}
      /\ hibernates /\ usable # {} => Printed(<<"swap", kb \div 1024>>)
      /\ hibernates => Count("swap device") = Cardinality(usable)

\* A key that belongs to a flag is in the object exactly if the flag was given
\* and the source could be read and understood.
KeysFollowFlags(s) ==
  LET Key(k) == k \in out[1][2]
      verbose == call.flags.verbose
  IN  CASE call.cmd = "sleepstates" ->
             Key("image_size") <=> verbose /\ s.image_size \notin {None, Some(None)}
        [] call.cmd = "requests" -> Key("usb_wakeup") <=> verbose /\ s.usb_wakeup # None
        [] call.cmd = "waketimers" -> Key("all_timers") <=> verbose /\ s.timers # None
        [] call.cmd = "lastwake" ->
             /\ Key("dmesg_wake") <=> verbose /\ s.dmesg # None
             /\ Key("acpi_enabled") <=> verbose /\ s.acpi # None
             /\ Key("history") <=> call.flags.history # None /\ s.history # None
        [] OTHER -> TRUE

\* The line that sums a report up agrees with the sections above it and with
\* what the sources hold: nothing blocks sleep, no timer will wake the machine,
\* so many of so many devices can, hibernation has no swap. In JSON the keys
\* follow the flags.
VerdictsAgree ==
  exit = Some(0) /\ pos = Len(out) =>
    IF call.format = "json" THEN KeysFollowFlags(call.sources)
    ELSE CASE call.cmd = "requests"    -> RequestsVerdict(call.sources)
           [] call.cmd = "waketimers"  -> WakeTimersVerdict(call.sources)
           [] call.cmd = "devicequery" -> DeviceQueryVerdict(call.sources)
           [] call.cmd = "sleepstates" -> SleepStatesVerdict(call.sources)
           [] OTHER -> TRUE

\* The exit status tells the truth about standard output: 0 means that every
\* line was written or that the reader of JSON closed the pipe, and anything
\* else that a line could not be written. A source that fails never shows.
ExitTellsTruth ==
  /\ exit = Some(0) =>
       pos = Len(out) \/ (call.format = "json" /\ reader = "closed")
  /\ exit \in {Some(1), Some(101)} => pos < Len(out)

\* The program ends, whatever it prints and whenever the reader stops.
Ends == <>(pc = "exited")

\* As the comment on write_report has it, println! swallows write errors: a
\* command that prints text is not disturbed by a reader that has seen enough.
ClosedPipeIsClean ==
  Panics(call) /\ exit # None => exit = Some(0)

=============================================================================
