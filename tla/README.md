# powercfg: specifications and proofs

`powercfg` is a Linux command that reports what the power management of a
machine is doing: what keeps it awake (`requests`), why it woke up
(`lastwake`), what may wake it (`devicequery`, `waketimers`), what it can sleep
as (`sleepstates`) and what it consumes (`energy`). It keeps no state of its
own. Everything it prints it has just read from somewhere that keeps changing:
the kernel journal, sysfs, procfs, D-Bus services and three helper programs. Its
hard parts are therefore of five kinds, and the modules here are about them:

- a bounded subprocess call made of threads, pipes, a deadline and signals;
- reports put together from readings that were not taken at one instant;
- readings that fail one at a time, and the report that is printed all the same;
- an output that may find nobody to read it, and an exit status that must tell;
- a release script that changes a git repository step by step and unwinds.

## Inventory

| Part | State | Operations | Talks to | What is hard | What makes it correct |
|---|---|---|---|---|---|
| `source/exec.rs` | child handle, two drain threads with their buffers | spawn, drain, wait, kill, reap, join | child and its descendants by pipes and signals; every caller below | full pipes, exit racing the deadline, descendants, failing system calls | an `Ok` is complete and final, a `Timeout` honest, no child left behind, the call returns |
| `source/journal.rs` | none (a pass over one reply) | `last_kernel_event`, `list_kernel_events` | `exec`, `journalctl` | file order against wall clock | the newest matching line wins, order is kept |
| `cmd/lastwake.rs` | the report | six readings in order | `journal`, `sysfs`, `procfs`, `userspace` | suspend cycles between readings, clock steps | sleep, wake, interrupt and history belong together |
| `cmd/requests.rs`, `model/requests.rs` | the report, the position in `/proc` | inhibitors, holder names, wake locks, streams, VM walk | logind, procfs, sysfs, `pactl` | exits and PID reuse during the walk | live holders are named, resident VMs found, the all-clear is right |
| `cmd/waketimers.rs` | the report, the position in the unit list | unit walk, split, RTC alarm | systemd, sysfs | reloads between two property reads, one failing unit | rows follow the reply, no waking timer invented |
| `source/dbus.rs` | one connection | three calls | logind, systemd | torn replies, calls without deadline | as above |
| `source/procfs.rs` | none | the process walk and one parser per file | the kernel | processes that come and go, malformed rows | as above; a parser never invents a row |
| `source/sysfs.rs` | none | walks over USB, supplies, chips and CPUs; PCI name and counters; single files | the kernel | devices that go or are replaced between two files of a row, missing files, capacity and throttle counts | a device that stayed is shown as it is, no row mixes two slots, sums do not wrap |
| `source/userspace.rs` | the stream being parsed | `list_audio_streams`, dmesg lines | `pactl`, `dmesg` by `exec` | blocks with missing parts, an output cut anywhere, exit statuses not looked at | a property belongs to its own block, a cut loses the end only |
| `cmd/devicequery.rs`, `cmd/sleepstates.rs`, `cmd/energy.rs` | the report | independent readings | `sysfs`, `procfs` | each reading may fail by itself, PCI state read again while printing | each section shows what its reader returned |
| `format/text.rs`, `format/json.rs` | none | six printers, `write_report` | stdout | a closed pipe, a full disk, totals over rows that are not shown | the last line agrees with the sections, the exit status with what was written |
| `format/mod.rs`, `time.rs` | none | durations, frequencies, ISO-8601 stamps | printers, `journal` | rounding, zero | as their modules' operators say |
| `cli.rs`, `main.rs` | none | parse, dispatch, report an error | all commands | an error that cannot be reported | exit status 0 exactly when all was written or nobody wanted it |
| `paths.rs`, `error.rs` | none | join, convert | all sources | nothing of note | - |
| `scripts/bump-version.py`, `Makefile` | the repository: branch, tree, index, tags | bump, commit, tag, build, unwind | git, cargo, make, the owner | failures and Ctrl-C between any two commands, concurrent edits | a tag is a release of its version, a failed build is undone exactly |

The commands call the sources directly and synchronously. The only concurrency
inside the program is in `source/exec.rs`. All other concurrency is with the
machine that is being observed, which is why the modules of the commands have a
kernel, a logind, a systemd or a repository owner as a second actor whose steps
fall between the program's readings.

## Modules

**ExecSpec** is the promise of `run_with_timeout`: a command is started at most
once, produces output, and one answer is given; `Ok` carries everything produced
once nobody can produce any more, `Timeout` and `NotFound` carry nothing.

**Exec** is `source/exec.rs`. The caller's program counter `pc` follows the
function line by line (`spawn`, `drain_stdout`, `drain_stderr`, `wait`, `kill`,
`reap`, `join_stdout`, `join_stderr`, `done`); `drain` and `buf` are the two
threads. The kernel's share, modelled from how the code uses it: bounded pipes
(`pipe`), open write ends (`ends`), processes and zombies (`proc`), SIGPIPE,
SIGKILL and the deadline. The child may fork one descendant, its *heir*, that
inherits the pipes. A unit of output is any chunk; `written` is a history
variable against which completeness is stated. `Faults` selects which system
calls may fail. `Promise` is the refinement mapping to ExecSpec.

**ExecProofs**, **LastWakeProofs**, **RequestsProofs**, **WakeTimersProofs**,
**PactlProofs**, **SysfsProofs**, **OutputProofs** and **ReleaseProofs** hold the
theorems about the module they are named after.

**Journal** is the journal readers as operators on the lines `journalctl`
printed. A line keeps what the properties tell apart: its kind, whether its head
parses, its time, and the suspend cycle it belongs to. The head is a stamp with
one of the offsets `parse_iso8601` accepts, or one it refuses.

**LastWake** composes Journal with `cmd::lastwake::run` and a kernel. A cycle
goes `awake`, `entering`, `asleep`, `thawed`, `awake`; the entry is logged before
user space freezes and the exit after it thaws, so the program runs in
`entering` and `thawed` too. `Printed` gives what `journalctl --since` can print
when the clock has been stepped: it bisects, so any message that follows one too
old may be where it starts.

**Requests** is `cmd::requests::run` with `list_inhibitors`, `resolve_comm` and
`find_processes_by_comm`. Processes have a birth number besides their PID, so
that PID reuse is visible to the properties and not to the program. `/proc` is
walked in batches, as `readdir` returns them, by increasing PID, and each `comm`
is read later than the entry was listed. The USB table is abstracted to whether
it was read; the streams are what Pactl makes of pactl's output.

**WakeTimers** is `list_systemd_timers` and `cmd::waketimers::run` against a
systemd that reloads units between the round trips. The rows are a sequence; the
list of those that wake the machine, which is filtered out of it, is a set.

**Pactl** is `list_audio_streams` and its parser against a pactl that writes any
block structure its format allows and may die anywhere. `current`,
`in_properties` and `streams` are the parser's variables, and there is one
action per arm of its loop. A line is what the parser can tell of it, and a
property is remembered as the line it was read from, so that the properties can
tell whose it is. The parser takes any line that ends in a quote mark for a
finished entry and does not unescape. An escaped quote mark inside a value is
therefore one a line may be cut behind, or the first line of a value of several
lines may end in: the entry then has the beginning of the value (`partial`). What
is assumed of pactl is that no later line of such a value looks like a header or
like `Properties:`.

**Sysfs** is the seven readers of `source/sysfs.rs` that open several files. A
behaviour is one call of one of them: `pc` says whether it checks, lists, opens a
device or reads the next of its `files`; the tables `UsbFiles`, `SupplyFiles` and
so on give the files in the order the code opens them and what is given up when
one is missing, odd or does not parse: the field, the row or the whole call.
Between any two files a device may be plugged, removed, replaced or
reconfigured. A value is given as slot, device and file. The directory may be
there and yet not be listed, for a lack of permission or of file descriptors
(`readable`); each reader then takes the arm its code has for that, which for the
counts is zero. A CPU is counted by its entry in the directory, whatever is known
of its frequency policy.

**Report** has no state. It is the parsers of files that are read at once
(`/proc/interrupts`, `/proc/acpi/wakeup`, `/proc/swaps`, bracketed modes, dmesg
lines), durations and frequencies, and the six printers of `format/text.rs` from
a report to its sequence of lines. A line says what it shows and from which
values; widths, units and wording are left out.

**Output** composes Report with `main`, the end of every `cmd::*::run` and
`write_report`: a call (command, flags, format, and what its sources yield) is
built into a report and written line by line to a pipe whose reader may be slow
or close it. A source may have failed, the list of timers as any other, and its
section or key is then missing. The commands differ in what a failing write does: `println!`
panics (status 101), `writeln!` returns the error to `main` (status 1), JSON takes
a closed pipe for success.

**Release** is `scripts/bump-version.py` on a repository: `hist` (the branch, a
sequence of contents), `tree`, `staged` (what `git add` took), `tags` and
`pushed`. Each command is a step that may fail; Ctrl-C may come between any two;
the owner edits, commits and pushes at any moment, and discards between runs. A
content has the version in
`Cargo.toml`, version and dependencies in `Cargo.lock`, and the rest. The owner
commits with `git commit -a`, never an unfinished version bump. A run that ends
well prints how to push it (`told`), and the owner does so once, whenever they
like: also while the next run is building. `git push` then takes the release
commit of that run along, which a failing build resets away (`exposed`).

Definitions that start with "Faulty variant" in their comment are wrong on
purpose and used by no specification: each is a plausible mistake in the
definition that follows it, and shows that a property notices.

## Runs

| Run | Question | Result |
|---|---|---|
| `exec_safety` | is an `Ok` complete, does Exec implement ExecSpec, is `IInv` an invariant? | hold |
| `exec_live` | does the call return, can full pipes deadlock it, is a `Timeout` honest, is a child left behind? | hold |
| `lastwake_run` | do sleep, wake, interrupt, duration and history belong together? | hold |
| `requests_run` | are live holders named, resident VMs found once, is the all-clear right? | hold |
| `waketimers_run` | are the rows true under reloads and failures? | hold |
| `sysfs_run` | is a device that stayed reported as it is, are rows and counts never invented? | hold |
| `pactl_run` | does every property reach its own stream, what does a cut cost? | hold |
| `output_run` | does the last line agree with the sections, the exit status with the writes, does the program end? | hold |
| `release_run` | are tags and pushes stable, is a failed build undone, a verified release clean? | hold |
| `exec_heir_blocks` | does the call return when a descendant keeps the pipes? | no: finding |
| `output_pipe` | does a command that prints text survive a closed pipe? | no: finding |
| `release_lock` | is a failed build undone when `Cargo.lock` was modified? | no: finding |

The three runs that end in a violation each refute a sentence of the repository's
own documentation, quoted in `PROJECT.json`. They describe what the program does
in a corner, mostly a deliberate best effort, and the sentence that promises more:

1. `exec.rs:3-5`: a hung subprocess cannot block the CLI. A descendant that
   keeps the pipes open can, because the joins have no deadline.
   `ReturnsUnlessHeld` shows that nothing else can.
2. `format/json.rs:27-28`: the text path swallows write errors with `println!`.
   `println!` panics: a closed pipe ends `devicequery`, `sleepstates` and
   `energy` with status 101, and the three commands that use `writeln!` with
   status 1.
3. `bump-version.py:14-15`: a failed build restores the exact state before. An
   uncommitted `Cargo.lock` passes the clean check, enters the release commit
   and is discarded with it.

Divergences of the same kind that the models show but no run is spent on:
`exec.rs:71-73` says the pipes are closed when `wait_timeout` fails, and the
detached drain threads read on; `model/lastwake.rs:58-63` and
`model/waketimers.rs:82-84` say a flag implies its field, which is left out when
its source fails; `model/lastwake.rs:37-38` says no device means an unlisted
interrupt, and it may mean that `/proc/interrupts` could not be read;
`sysfs.rs:367` gives a capacity as 0..=100, and 101 to 255 are taken as they are.

- `exec.rs:126-129`, above the joins, says that a drain thread that panicked is
  folded into no captured bytes and is no error of the function. `join_drain`
  (142-158) returns `ExecError::Io`, as its own comment says. The model follows the
  code, and `OkIsComplete` holds because of it: an `Ok` with an empty stream in
  place of a lost one would violate it.
- `bump-version.py:16-18` and `171-173` call the commit and the tag local until
  they are pushed, and the push instruction is only printed on success. The
  instruction of the run before can be followed while a build is going on: `git
  push` then publishes the commit that a failing build resets. `PushedStays` says
  that this is the only way and that this one commit is all that is lost. The tag
  is never pushed that way.
- `bump-version.py:180` resets `HEAD^`. If the owner commits during the build it
  is their commit that goes and the release commit that stays.
- `bump-version.py:193-195` report a revert after a failing build. They are also
  printed when `git tag -d` or `git reset` failed and there was none; that line is
  hedged with "if", and `CleanRevertRestores` is about reverts that ran to the end.
- `docs/json-schema.md:102-105` has consumers compute the totals from
  `acpi_devices`. The last line of the text report counts the USB devices too.
  `VerdictsAgree` follows the code.
- `userspace.rs:182-190` keeps escaped quotes as they are because the values that
  are extracted have none. If one has, a cut line can pass for a whole one, and
  `CutLosesOnlyTheEnd` makes an exception for it.

### Bounds, and why they are enough

- *Exec*: pipes of one unit, one or two units per process and stream. A writer
  blocks on a pipe that is full and a reader on one that is empty, and both
  happen with one unit; the second unit makes a process block with output left.
  The theorems hold for every capacity and every amount. `exec_safety` leaves
  out a failing `wait()`, with which the promise cannot be kept, and
  `exec_live` a failing `kill()`.
- *LastWake*: two suspend cycles, so that one completes before, across or after
  any of the readings and the next begins, a clock of three seconds and windows of
  one and two, so that messages fall inside, outside and at the edge of both; a
  history of two events, the shortest that holds a sleep and a wake.
  Second granularity makes equal times common, the case in which no duration is
  shown. The clock may be set back at any moment; the two properties about
  durations are about runs in which it was not (`stepped`). That a quiet history
  repeats the report (`QuietHistoryRepeatsReport`) is a property of the step that
  reads it and only of the events that are inside its window then: the clock goes
  on between the readings, and a wake that was a second inside the window of the
  report may be outside that of the history.
- *Requests*: two PIDs with three births, so that a PID is reused while another
  process lives, behind, at or ahead of the cursor. Changes that no later reading
  could see are left out. The only inhibitors are for `shutdown`, the kind that
  is counted and not displayed, which is where the summary and the list differ.
  `QuietVerdictIsRight` is about runs in which nothing changed or failed.
- *WakeTimers*: two timers and one other unit, all initial states, one reload at
  any moment: the properties relate at most two rows.
- *Sysfs*: two slots, so that a device has a neighbour before or after it, two
  files of a device missing or odd, two changes during the call: a device that is
  removed and replaced between two reads of its row. Whether the directory can be
  listed is chosen at the beginning. The throttle counter ends
  at `Cap`, which stands for 2^64 - 1; two CPUs reach it.
- *Pactl*: six lines, which hold two blocks with their properties, or one after
  a preamble with a value of several lines; two extracted keys and one that is
  ignored; values with and without a quote mark in them; every cut.
- *Output*: sources are enumerated as small sets with each failure, each
  edge of a table's columns and each side of a display limit (two instead of
  15 timers, 5 messages and a line of 70). The pipe holds one line. Frequencies
  are on both sides of each unit; GHz values whose last digit is a tie are left
  out, since the rounding there follows the binary fraction and not the decimal.
- *Release*: three runs of the script, so that a failed, a repeated and a next
  release follow each other, with two edits; a push of one release during the
  build of the next needs two of them. The owner works on while the script
  runs; `VerifiedIsClean` and `CleanRevertRestores` are about runs during which
  they do not (`meddled`), whatever happened before.

Deadlock is checked in the Exec runs, where an explicit `Terminated` step stands
for the legitimate end. The other programs end after their last reading, line or
byte of output and the release script is run a bounded number of times, so those
runs say `CHECK_DEADLOCK FALSE`; that Output cannot stop earlier is `Ends`.

### Fairness

Exec has three strengths, each named by the property that needs it:

- `LiveSpec`: the operating system schedules the program's threads. The fairness
  is on steps *without* a fault (`WithoutFault`): a thread that waits is not
  helped by an error it might receive instead, otherwise a failing `wait()` would
  make any hang go away.
- `Bounded`: the deadline is reached and a SIGKILL takes effect. Under it
  `ReturnsUnlessHeld` says exactly when the call ends: it returns, or a
  descendant holds a pipe open for ever. Nothing is assumed of the command.
- `Cooperative`: the processes write and exit, but need not close a stream early,
  and the deadline need not come. Under it `CompletesUnlessExpired` says that the
  call does not get in the way of a healthy command.

`exec_live` excludes the fault `kill`: if the signal cannot be sent to a running
child, which the code ignores, `wait()` may block for ever. `exec_heir_blocks`
uses `FairSpec`, the first two together.

Output assumes that the program is scheduled and that a reader reads on unless it
closes the pipe; no write ever has to fail. Without a reader that does either, a
program that prints to a full pipe rightly waits.

## Proofs

TLAPS checks eight proof modules, for every value of the constants that the
assumptions of their models allow.

**ExecProofs**: for every `PipeCap`, `MaxUnits`, `Forks` and `Faults`.

- `TypeCorrect`: the type invariant.
- `InductiveInvariant`: `IInv`. The properties are not inductive by themselves.
  That an `Ok` is complete rests on what happened to bytes long before: every
  unit written is in a buffer or in a pipe (`Conserved`); only running processes
  hold write ends (`EndsAreLive`), so that none comes back once the last is
  closed; a thread that saw the end of a stream saw all of it and none can add to
  it (`EofIsEnd`); and what the caller knows at each point (`CallerKnows`) and
  what each answer stands for (`AnswerMeans`). `TimeoutIsHonest` and `NoOrphan`
  are inductive in that company. There is one proof step per action.
- `OkComplete`, `TimeoutHonest`, `NoOrphans`, `HeirsDelayJoins`: consequences of
  `IInv`.
- `OkFinal`: an action property, since an `Ok` leaves no writer.
- `ImplementsPromise`: with `"wait" \notin Faults`, `Spec => KeepsPromise`; each
  action is mapped to `Start`, `Produce`, `Churn`, `Answer` or a stutter. The
  hypothesis is needed: if the `wait()` after the kill fails, a `Timeout` is
  answered while the child may still be there.

The runs check the same formulas on small instances first (`exec_safety` checks
`IInv` itself); `OkIsFinal` is proved and no longer run.

The other proof modules each have inductive invariants of their own, of which
the properties of the run are a part or a consequence. They assume nothing but
the `ASSUME`s of the modules they are about, which every run evaluates, and hold
for every bound.

**LastWakeProofs**: the report is put together from readings of a log that grows
meanwhile. `KernelInv` is about the log alone: sleeps and wakes alternate in it and
their cycles are numbered as the kernel counts them (`LogShape`); as long as the
clock was never set back their times do not decrease (`LogTimed`); the wake
interrupt is of the newest cycle that reached the wake (`IrqIsNewest`).
`ReportInv` says what a reading is of the log it was taken from: the reported
sleep and wake are entries of it (`SleepIsLogged`, `WakeIsLogged`) and, unless
something was disturbed since, still the newest. From it follow that the interrupt
is not stale, that the history reaches the report, and what a printed duration
spans (`DurationsFollowSleeps`, `QuietDurations`). The selection of the last line
that matches is a `CHOOSE` of a greatest element, whose existence is proved once;
that of the history keeps order and end of the log (`HistoryReaches`), and in a
quiet run has the sleep and the wake in its last two places (`QuietHistoryRepeats`,
an action property).

**WakeTimersProofs**: `NoWakeInvented` and `StableRowsTrue` speak of the rows of
the report, and a row is made in two steps with reloads between them. `WalkTypes`
says that what is being built is a row of a timer, `WakingSeen` that whatever a
unit or an unfinished row says of waking has been true since the call began, and
`RowIsFresh` that a new row starts without waking and that an unfinished one is
true of a unit nobody has touched. `RowsMatch` and `TypeCorrect` need a second
invariant, `OrderInv`: the reply lists each unit once, the queue is its end, and
the rows are of the timers in what lies before it, in order (`RowsUpTo`).

**RequestsProofs**: that a holder has its own name (`HoldersNamed`) rests on who
was alive when: numbers of births identify processes (`BirthsUnique`) and an
inhibitor's process had been born (`HoldersBorn`), so that a PID that was used
again is seen to be another process. That a resident machine is found
(`VmsFound`) rests on where the walk stands: until it ends, such a machine has
been found, is in the batch, or lies ahead of the cursor, or a name could not be
read (`VmsAhead`). The all-clear (`QuietVerdict`) needs `RunInv`: in a run that
nothing disturbs each section, once read, is empty exactly if the system holds
nothing of its kind, and a sum of counts is zero exactly if each is.

**ReleaseProofs**: the argument is what each command of the script may rely on.
`BumpUnderWay` says which of the tree, the index and the last commit carry the new
version at each point, in spite of an owner who edits and commits meanwhile, so
that `git tag` names a commit of that version (`TagsNameReleases`). `NotPushed`
says that the tag a run may delete is never pushed, and that the commit it may
reset is not pushed either unless the last push came during that run. Hence
`PushedIsKept`: whatever was pushed stays, but for the newest commit of a branch
that was so exposed. `Kept` is that statement about two branches, and
`KeptByCommit` and `KeptByReset` say that it survives a commit and a reset: the
branch cannot be pushed again until it continues what the remote has.
`TagsStay` follows from the steps. `VerifiedReleaseIsClean` and `FailedBuildIsUndone` are about a run
that nobody disturbs and need a second invariant, `RunInvariant`: until the commit
the branch and the tags are those the run began with, after it the branch is
exactly one commit longer, after the tag there is exactly one tag more, and the
working tree is what was committed (`Undisturbed`).

**PactlProofs**: `TextInv` is about what pactl wrote and how much of it was handed
over (`Handed`): a key occurs once in a block (`KeyOnce`), and only the last line
can differ from what was printed; if it is an entry then, what was printed holds
a quote mark inside the value of the same key. `ParseInv` is the loop
invariant of the parser: each finished stream says what its block says, the one
under construction what the lines so far say (`UnderConstruction`), the flag is
set exactly below the block's marker, and no header that was read is without its
stream (`HeadersSeen`). A process id that is not a number sets the field to
nothing, which is only right because of `KeyOnce`. `EveryBlockParsed` is the
invariant at the end of the output, and `CutOutputLosesTheEnd` compares it with
what pactl printed. `TypeCorrect` needs that a stream and its properties come
from lines already read (`Placed`).

**SysfsProofs**: a reader is at some place of a fixed table of files, so the
module begins with the tables: each names a file once, and what is left of one
behind a given place (`Rest`) shrinks by one file or up to the end of a row
(`NextFile`, `NextRowIs`, the latter by the least element that the code's search
finds). `DeviceInv` is about the devices alone: the one in a slot is the newest
the slot has held. `ControlInv` is about where the reader is. `RowInv` says that
after `n` files the row at hand holds values of one slot, each from one of these
`n` files and from a device the slot held during the call (`FilledTo`), and that no
later file was read from an earlier device (`InOrder`); every row pushed keeps
that. `NothingInvented` and `TypeCorrect` are consequences. The proof showed that
`MaxOdd` must not be zero, or `Configure` makes a device the type does not have.

`ThrottleBounded` compares three sums over sets of CPUs. The folds of the library
are recursive functions over sets, so the module first proves that the function
exists and what it does when an element is added or taken away (`SumsExist`,
`SumInsert`, `SumRemove`, `SumGrows`), by a smallest set on which it fails.
`ThrottleInv` then says that what was counted so far lies between the sums, over
the CPUs already visited, of the counters at the beginning and of those now. The
lower bound is claimed of a directory that can be listed: of another the answer
is zero.

`SteadyReported` is the converse of `NothingInvented`: what was there and stayed is
reported, and right. `SteadyInv` says of each device that nothing touched that it
is still in the queue (`Waiting`), or is being read and the row at hand is what its
files have said so far (`Reading`, `Current`), or is done with, and exactly the rows
it owes were pushed, in order (`Finished`, `Owed`). The queue is sorted and what was
pushed comes before it (`Sorted`), and the steps of the reader about the other
devices leave that alone (`OthersGoOn`).

**OutputProofs**: `ExitInv` is about the exit status alone: the program reports an
error only while a line is unwritten, hence `ExitTrue`. `ReportInv` ties the rest
together: the call is one of the six commands', the report is `Build` of its
sources and the lines are those of the report, so that everything said of the
lines at the end is a statement about `Build`, `Text` and `Json`. `TypeCorrect` and
`VerdictsTrue` follow from both.

What is behind `VerdictsTrue` is counting. A report is sequences of lines joined,
flattened and kept or dropped, and the verdict compares a number in its last line
with the number of lines above it and with the elements of a source.

- `Says(s, k, n)` states that `s` is a sequence with exactly `n` lines of the kind
  `k`. It adds up over sequences that are joined (`SaysJoined`), and of sequences
  with one such line or none, put in a row by `FlattenSeq`, it counts those that
  have one (`FlattenNumber`); the recursive function
  behind `FlattenSeq` is shown to exist, and both lemmas follow, by a least
  counterexample (`LeastOf`).
- `Kept(t, s, D)` states that `t` is the elements of `s` at the positions `D`, by a
  bijection of the positions (`Picks`). What the parsers keep of a text is of that
  form (`KeptIs`), so it has as many elements as positions were kept
  (`KeptLength`) and as many in any set as are in it at those positions (`KeptNumber`).
- For each printer a lemma says how many lines of each kind it prints and which
  line it ends with (`RequestsPrinted`, `WakeTimersPrinted`, `DeviceQueryPrinted`,
  `SleepStatesPrinted`), for every report of the right shape. Energy and
  lastwake have no summary; their lines are shown to be a sequence.
- For each command a lemma says what its sources are like (`...Call`), what the
  parsers make of them, and that the verdict holds (`...Agree`) or that the keys
  of the object follow the flags (`...Keys`).

`FrequencyIsNear` is about `FormatFreq` alone, for every frequency: the tie rule,
whichever way it goes, keeps the printed value within half of its last digit.

`Keep` of Report is written with `FlatMap` because the prover knows nothing about
`SelectSeq`, a recursive operator of the standard modules.

Only model-checked: the liveness properties `ReturnsUnlessHeld`,
`CompletesUnlessExpired` and `Ends`, which need fairness and `ENABLED` and are out
of the prover's reach. Of the safety properties and action properties that a
passing run checks, each is stated by a theorem. `VerdictsTrue` is about the
sources the calls of the model enumerate, for every bound on the tables, every
size of the pipe and every fault; the lemmas about the printers and about `Keep`
are about sequences of any length.

The library's induction theorems cannot be used, since they take an operator as a
parameter. Where a proof needs one it argues by a least counterexample, from the
well-foundedness of `<` on the naturals (`LeastOf` in SysfsProofs and
OutputProofs).

## Not modelled

- The serialisation of a report into JSON (the serde library) beyond which keys
  there are; argument parsing (the clap library); column widths, units and
  wording of the text output.
- The time a D-Bus call takes. The code sets no deadline on it; the models let
  a call succeed or fail and claim nothing about when.
- `paths.rs` and `source/error.rs`: joining and conversion, without state.
- Container image, RPM spec file and the fixture capture script.

The readers that open a single file have no module of their own: such a reading
is one step of the command that makes it (LastWake, Requests, WakeTimers) or a
source that is given (Output).

## Plan

Done, in this order, most important behaviour first: ExecSpec, Exec, ExecProofs;
Journal, LastWake; Requests; WakeTimers; Release; Pactl; Sysfs; Report, Output;
WakeTimersProofs, RequestsProofs, ReleaseProofs, PactlProofs, LastWakeProofs,
SysfsProofs, OutputProofs.

Next modules: the composition of LastWake and Requests with the outcomes of
ExecSpec in place of their faults, so that a timeout, a partial output and a
missing tool are told apart; and of Sysfs with the two reports that call it.

Next theorems: `VerdictsAgree` for sources of any length. The lemmas about the
printers already hold of any report, so that only the lemmas about the calls
(`RequestsCall`, `WakeTimersCall`, `DeviceQueryCall`, `SleepStatesCall`) and the sum
of the swap sizes would have to be stated for a text of any number of lines.

## Running

    tlc -workers 2 -config ExecSafety.cfg Exec.tla
    tlapm ExecProofs.tla

Each run of `PROJECT.json` names its module and configuration; all of them
together take a few minutes.
