------------------------------- MODULE Sysfs -------------------------------
(***************************************************************************)
(* The sysfs readers of devicequery and energy, against devices that come  *)
(* and go while they read.                                                 *)
(*                                                                         *)
(* A behaviour is one call of one reader. The directory is listed once;    *)
(* the files of each device are then opened one by one, so a device may be *)
(* plugged, removed, replaced or reconfigured between any two of them. A   *)
(* value that was read is given as where it comes from: slot, device and   *)
(* file.                                                                   *)
(***************************************************************************)
EXTENDS Integers, FiniteSetsExt, SequencesExt

CONSTANTS
  Slots,       \* places a device can be in, in the order of their names
  Readers,     \* the readers to consider
  Cap,         \* the largest value of the throttle counter (2^64 - 1)
  MaxOdd,      \* bound: files of a device that are missing or odd
  MaxChanges   \* bound: changes of the system during a call

Walkers == {"usb", "supply", "hwmon", "throttle"}

ASSUME SlotsAssumption == Slots \subseteq Nat /\ IsFiniteSet(Slots) /\ 0 \in Slots
ASSUME ReadersAssumption ==
  Readers \subseteq Walkers \union {"cpufreq", "description", "stats"}
ASSUME BoundsAssumption ==
  Cap \in Nat \ {0} /\ MaxOdd \in Nat \ {0} /\ MaxChanges \in Nat

VARIABLES
  parent,    \* the directory of the devices exists
  readable,  \* read_dir succeeds on it, if it exists
  dev,       \* the device in each slot, or the frequency policy of each CPU, if any
  count,     \* the throttle counter of each CPU
  changes,   \* changes so far
  reader,    \* the function that was called
  pc,        \* exists, policy, list, device, sensors, file, count, done
  queue,     \* the listed devices, first the one being read
  files,     \* the files of it still to be read
  row,       \* what was read of it
  rows,      \* the rows pushed
  total,     \* throttle_count, cpu_count
  result,    \* Ok, NotFound or Err, at the end
  before,    \* history: count when the call began
  seen,      \* history: the devices each slot has held during the call
  touched    \* history: the slots that changed during the call

systemVars == <<parent, readable, dev, count, changes, seen, touched>>
vars == <<systemVars, reader, pc, queue, files, row, rows, total, result, before>>

None == <<>>
Some(x) == <<x>>

(***************************************************************************)
(* The files each reader opens for a device, in order: the field of the    *)
(* row, what is given up if the file cannot be read or does not hold what  *)
(* is expected (the field, the row or the whole call), what is expected,   *)
(* and whether the row is complete with it.                                *)
(***************************************************************************)
File(id, field, lost, expected) ==
  [id |-> id, field |-> field, lost |-> lost, expected |-> expected, last |-> FALSE]
Plain(id, expected) == File(id, id, "field", expected)
Final(f) == [f EXCEPT !.last = TRUE]

Sensors == <<
  File("temp1_input", "temp_c", "row", "number"),
  Final(File("temp1_label", "label", "field", "text")),
  File("temp2_input", "temp_c", "row", "number"),
  Final(File("temp2_label", "label", "field", "text")) >>

UsbFiles == << File("power/wakeup", "status", "row", "enabled"),
               Plain("manufacturer", "text"), Final(Plain("product", "text")) >>
SupplyFiles == << Plain("type", "text"), Plain("status", "text"),
                  Plain("capacity", "u8"), Plain("capacity_level", "text"),
                  Final(Plain("power_now", "number")) >>
ChipFiles == << File("name", "source", "row", "known chip") >>
ThrottleFiles == << File("package_throttle_count", "n", "row", "number") >>
CpuFreqFiles == << Plain("scaling_driver", "text"), Plain("scaling_governor", "text"),
                   Plain("scaling_cur_freq", "number"),
                   Plain("scaling_min_freq", "number"),
                   Plain("scaling_max_freq", "number"),
                   Plain("epp", "text"), Final(Plain("epp_available", "text")) >>
PciFiles == << Plain("class", "known"), Final(Plain("vendor", "known")) >>
StatsFiles == << File("count", "count", "call", "number"),
                 File("active_count", "active_count", "call", "number"),
                 Final(File("last_time_ms", "last_time_ms", "call", "number")) >>

FilesOf == [usb |-> UsbFiles, supply |-> SupplyFiles, hwmon |-> ChipFiles,
            throttle |-> ThrottleFiles, cpufreq |-> CpuFreqFiles,
            description |-> PciFiles, stats |-> StatsFiles]

AllFiles(r) == IF r = "hwmon" THEN FilesOf[r] \o Sensors ELSE FilesOf[r]
Ids(r) == {AllFiles(r)[i].id : i \in DOMAIN AllFiles(r)}
Fields(r) == {AllFiles(r)[i].field : i \in DOMAIN AllFiles(r)}
Empty(r) == [f \in Fields(r) |-> None]

(***************************************************************************)
(* Devices. Some files may be missing, or hold something else than what is *)
(* expected: "disabled", an unknown chip or class, no number, an empty     *)
(* text. A capacity may be above 100.                                      *)
(***************************************************************************)
Device(r, born) ==
  [born : {born}, odd : {{}}, is : {"missing"}] \union
  [born : {born}, is : {"missing", "odd"},
   odd : {S \in SUBSET Ids(r) : S # {} /\ Cardinality(S) <= MaxOdd}] \union
  [born : {born}, is : {"above 100"}, odd : {S \in {{"capacity"}} : r = "supply"}]

\* What read_to_string, trim and parse make of a file: nothing, or a value.
Reads(d, f) ==
  d # None /\ \/ f.id \notin d[1].odd
              \/ d[1].is = "odd" /\ f.expected = "text"
              \/ d[1].is = "above 100"

Value(s, d, f) == [slot |-> s, born |-> d[1].born, id |-> f.id,
                   empty |-> f.id \in d[1].odd /\ d[1].is = "odd"]

Read(s, f) == IF Reads(dev[s], f) THEN Some(Value(s, dev[s], f)) ELSE None

Capped(n) == IF n > Cap THEN Cap ELSE n

TypeOK ==
  /\ parent \in BOOLEAN /\ readable \in BOOLEAN
  /\ changes \in 0..MaxChanges /\ reader \in Readers
  /\ \A s \in Slots :
       /\ dev[s] # None =>
            parent /\ dev[s][1] \in Device(reader, dev[s][1].born)
       /\ dev[s] # None => dev[s][1].born \in seen[s]
       /\ {before[s], count[s]} \subseteq 0..Cap /\ seen[s] \subseteq 0..MaxChanges
  /\ pc \in {"exists", "policy", "list", "device", "sensors", "file", "count", "done"}
  /\ queue \in Seq(Slots) /\ touched \subseteq Slots
  /\ IsSuffix(files, AllFiles(reader)) \/ IsSuffix(files, FilesOf[reader])
  /\ \A f \in Fields(reader) :
       pc = "file" /\ row[f] # None =>
         row[f][1].slot = Head(queue) /\ row[f][1].id \in Ids(reader)
  /\ reader = "throttle" => total \in 0..Cap
  /\ reader = "cpufreq" => total \in 0..Cardinality(Slots)
  /\ result \in {None, Some("ok"), Some("notfound"), Some("err")}
  /\ result # None <=> pc = "done"

Init ==
  /\ reader \in Readers
  /\ parent \in BOOLEAN /\ readable \in BOOLEAN
  /\ dev \in [Slots -> {None} \union {Some(d) : d \in Device(reader, 0)}]
  /\ parent \/ \A s \in Slots : dev[s] = None
  /\ reader \in {"description", "stats"} => readable
  /\ reader \in {"description", "stats", "cpufreq"} =>
       \A s \in Slots \ {0} : dev[s] # None => dev[s][1].odd = {}
  /\ count \in [Slots -> IF reader = "throttle" THEN {0, Cap - 1} ELSE {0}]
  /\ before = count /\ changes = 0 /\ touched = {}
  /\ seen = [s \in Slots |-> IF dev[s] = None THEN {} ELSE {0}]
  /\ pc = "exists" /\ queue = <<>> /\ files = <<>>
  /\ row = Empty(reader) /\ rows = <<>> /\ total = 0 /\ result = None

-----------------------------------------------------------------------------
(* The system. *)

Change(s) ==
  /\ pc # "done" /\ changes < MaxChanges
  /\ changes' = changes + 1
  /\ touched' = touched \union s
  /\ UNCHANGED <<readable, reader, pc, queue, files, row, rows, total, result, before>>

\* A new device, in a free slot or in the place of another.
Plug(s) ==
  /\ parent
  /\ Change({s})
  /\ dev' = [dev EXCEPT ![s] = Some([born |-> changes', odd |-> {}, is |-> "missing"])]
  /\ seen' = [seen EXCEPT ![s] = @ \union {changes'}]
  /\ UNCHANGED <<parent, count>>

Unplug(s) ==
  /\ dev[s] # None
  /\ Change({s})
  /\ dev' = [dev EXCEPT ![s] = None]
  /\ UNCHANGED <<parent, count, seen>>

\* A driver is unloaded, and the directory goes with its devices.
Unload ==
  /\ parent /\ reader \in Walkers
  /\ Change(Slots)
  /\ parent' = FALSE
  /\ dev' = [s \in Slots |-> None]
  /\ UNCHANGED <<count, seen>>

\* A device is configured to wake the machine, or no longer.
Configure(s) ==
  /\ reader = "usb" /\ dev[s] # None
  /\ Change({s})
  /\ LET awakes == [dev[s][1] EXCEPT !.odd = {}, !.is = "missing"]
         sleeps == [dev[s][1] EXCEPT !.odd = {"power/wakeup"}, !.is = "odd"]
     IN  \/ dev[s][1] = awakes /\ dev' = [dev EXCEPT ![s] = Some(sleeps)]
         \/ dev[s][1] = sleeps /\ dev' = [dev EXCEPT ![s] = Some(awakes)]
  /\ UNCHANGED <<parent, count, seen>>

\* A CPU is throttled.
Throttle(s) ==
  /\ reader = "throttle" /\ count[s] < Cap
  /\ Change({})
  /\ count' = [count EXCEPT ![s] = @ + 1]
  /\ UNCHANGED <<parent, dev, seen>>

-----------------------------------------------------------------------------
(* The readers. *)

Return(r) ==
  /\ pc' = "done" /\ result' = Some(r)
  /\ UNCHANGED <<systemVars, reader, before>>

Unchanged == UNCHANGED <<systemVars, reader, result, before>>

\* No directory, no devices: Ok(vec![]), or the default.
NoParent ==
  /\ pc = "exists" /\ reader \in Walkers \union {"cpufreq"}
  /\ ~parent
  /\ Return("ok")
  /\ UNCHANGED <<queue, files, row, rows, total>>

\* The PCI readers are called with the address of one device. The description
\* reader looks first whether it is there.
NoSuchDevice ==
  /\ pc = "exists" /\ reader = "description"
  /\ dev[0] = None
  /\ Return("notfound")
  /\ UNCHANGED <<queue, files, row, rows, total>>

OpenPci ==
  /\ pc = "exists" /\ reader \in {"description", "stats"}
  /\ reader = "description" => dev[0] # None
  /\ pc' = "device" /\ queue' = <<0>>
  /\ UNCHANGED <<files, row, rows, total>> /\ Unchanged

ParentExists ==
  /\ pc = "exists" /\ parent
  /\ reader \in Walkers \union {"cpufreq"}
  /\ pc' = IF reader = "cpufreq" THEN "policy" ELSE "list"
  /\ UNCHANGED <<queue, files, row, rows, total>> /\ Unchanged

\* cpu0/cpufreq, without which only the CPUs are counted. A CPU may be there and
\* have none.
CheckPolicy ==
  /\ pc = "policy"
  /\ pc' = IF dev[0] = None THEN "count" ELSE "device"
  /\ queue' = IF dev[0] = None THEN <<>> ELSE <<0>>
  /\ UNCHANGED <<files, row, rows, total>> /\ Unchanged

Listed == {s \in Slots : dev[s] # None}

\* read_dir fails, on a directory that is gone or that may not be read: an error,
\* except that no throttle events are counted then.
ListFails ==
  /\ pc = "list" /\ ~(parent /\ readable)
  /\ Return(IF reader = "throttle" THEN "ok" ELSE "err")
  /\ UNCHANGED <<queue, files, row, rows, total>>

\* The names are sorted, except by the throttle reader.
ListDevices ==
  /\ pc = "list" /\ parent /\ readable
  /\ queue' \in {q \in SetToSeqs(Listed) :
                   reader = "throttle" \/ \A i, j \in DOMAIN q : i < j => q[i] < q[j]}
  /\ pc' = "device"
  /\ UNCHANGED <<files, row, rows, total>> /\ Unchanged

\* is_dir, which two of the readers check.
SkipVanished ==
  /\ pc = "device" /\ queue # <<>> /\ reader \in {"usb", "hwmon"}
  /\ dev[Head(queue)] = None
  /\ queue' = Tail(queue)
  /\ UNCHANGED <<pc, files, row, rows, total>> /\ Unchanged

\* Faulty variant: what was read of the device before is kept.
OpenDeviceKeepingRow ==
  /\ pc = "device" /\ queue # <<>>
  /\ reader \in {"usb", "hwmon"} => dev[Head(queue)] # None
  /\ pc' = "file" /\ files' = FilesOf[reader]
  /\ UNCHANGED <<queue, row, rows, total>> /\ Unchanged

OpenDevice ==
  /\ pc = "device" /\ queue # <<>>
  /\ reader \in {"usb", "hwmon"} => dev[Head(queue)] # None
  /\ pc' = "file" /\ files' = FilesOf[reader] /\ row' = Empty(reader)
  /\ UNCHANGED <<queue, rows, total>> /\ Unchanged

\* Goes on with the next file, the next device or, for a known chip, with the
\* list of its sensors.
After(rest) ==
  /\ files' = rest
  /\ pc' = IF rest # <<>> THEN "file"
           ELSE IF reader = "hwmon" /\ Head(files).id = "name"
                   /\ Read(Head(queue), Head(files)) # None THEN "sensors"
           ELSE "device"
  /\ queue' = IF pc' = "device" THEN Tail(queue) ELSE queue

\* The name of a USB device falls back to its directory, that of a sensor to
\* "CPU".
Fallback(fields) ==
  CASE reader = "usb" -> \A f \in {"manufacturer", "product"} :
                           fields[f] = None \/ fields[f][1].empty
    [] reader = "hwmon" -> fields["label"] = None
    [] OTHER -> FALSE

Push(fields) ==
  rows' = Append(rows, [slot |-> Head(queue), fields |-> fields,
                        fallback |-> Fallback(fields)])

Here == Head(queue)
TheFile == Head(files)

\* Faulty variant: the path of the first device is used for all of them.
GotOfFirst == Read(0, TheFile)

\* fs::read_to_string and what is made of the text.
Got == Read(Here, TheFile)

\* Faulty variant: one bad sensor ends the chip.
NextRowBreaks == <<>>

\* What is left of the device when the row at hand is given up.
NextRow ==
  LET ends == {i \in DOMAIN files : files[i].last}
  IN  IF ends = {} THEN <<>> ELSE SubSeq(files, Min(ends) + 1, Len(files))

\* A file that can be read, or that the row can do without.
ReadField ==
  /\ pc = "file" /\ reader # "throttle"
  /\ Got # None \/ TheFile.lost = "field"
  /\ LET filled == [row EXCEPT ![TheFile.field] = Got] IN
       IF TheFile.last
       THEN Push(filled) /\ row' = [f \in Fields(reader) |->
                                      IF f = "source" THEN row[f] ELSE None]
       ELSE row' = filled /\ UNCHANGED rows
  /\ After(Tail(files))
  /\ UNCHANGED total /\ Unchanged

\* A file without which there is no row: the others are read all the same.
SkipRow ==
  /\ pc = "file" /\ Got = None /\ TheFile.lost = "row"
  /\ After(NextRow)
  /\ UNCHANGED <<row, rows, total>> /\ Unchanged

\* A file without which there is no answer.
GiveUp ==
  /\ pc = "file" /\ Got = None /\ TheFile.lost = "call"
  /\ Return("err")
  /\ UNCHANGED <<queue, files, row, rows, total>>

\* The chip's own directory is listed after its name was read; if that fails
\* the chip is skipped. One that may not be listed reads like one without inputs.
ListSensors ==
  /\ pc = "sensors"
  /\ IF dev[Here] = None
     THEN pc' = "device" /\ queue' = Tail(queue) /\ UNCHANGED files
     ELSE pc' = "file" /\ files' = Sensors /\ UNCHANGED queue
  /\ UNCHANGED <<row, rows, total>> /\ Unchanged

\* Faulty variant: a plain addition.
AddWrapping ==
  /\ pc = "file" /\ reader = "throttle" /\ Got # None
  /\ total' = (total + count[Here]) % (Cap + 1)
  /\ After(<<>>)
  /\ UNCHANGED <<row, rows>> /\ Unchanged

\* saturating_add of one CPU's counter.
AddThrottle ==
  /\ pc = "file" /\ reader = "throttle" /\ Got # None
  /\ total' = Capped(total + count[Here])
  /\ After(<<>>)
  /\ UNCHANGED <<row, rows>> /\ Unchanged

\* The CPUs are counted whether or not there is a frequency policy; none if the
\* directory cannot be listed.
CountCpus ==
  /\ pc = "count"
  /\ Return("ok")
  /\ IF readable THEN total' \in Cardinality(Listed)..Cardinality(Slots)
     ELSE total' = 0
  /\ UNCHANGED <<queue, files, row, rows>>

NoMoreDevices ==
  /\ pc = "device" /\ queue = <<>>
  /\ IF reader = "cpufreq"
     THEN pc' = "count" /\ Unchanged
     ELSE Return("ok")
  /\ UNCHANGED <<queue, files, row, rows, total>>

System ==
  \/ \E s \in Slots : Plug(s) \/ Unplug(s) \/ Configure(s) \/ Throttle(s)
  \/ Unload

Program ==
  \/ NoParent \/ NoSuchDevice \/ OpenPci \/ ParentExists \/ CheckPolicy
  \/ ListFails \/ ListDevices \/ SkipVanished \/ OpenDevice
  \/ ReadField \/ SkipRow \/ GiveUp \/ ListSensors \/ AddThrottle
  \/ CountCpus \/ NoMoreDevices

Next == System \/ Program

Spec == Init /\ [][Next]_vars

-----------------------------------------------------------------------------
(* What the readers owe to the devices, without the order of their reads. *)

\* The rows a device is due: one, or none if a file it cannot do without is
\* missing or odd; for a chip one per sensor.
DueRows(s) ==
  LET lost == {i \in DOMAIN AllFiles(reader) :
                 AllFiles(reader)[i].lost = "row" /\ Read(s, AllFiles(reader)[i]) = None}
  IN  IF 1 \in lost THEN {}
      ELSE IF reader = "hwmon" THEN {i \in {2, 4} : i \notin lost}
      ELSE {1}

\* The content of row i of a device: each field from its own file.
TrueField(s, i, f) ==
  LET own == CHOOSE j \in DOMAIN AllFiles(reader) :
               /\ AllFiles(reader)[j].field = f
               /\ f \in {"temp_c", "label"} => j \in {i, i + 1}
  IN  Read(s, AllFiles(reader)[own])

\* A USB device with neither maker nor product, a sensor without label.
Nameless(s, i) ==
  \/ reader = "usb" /\ {"manufacturer", "product"} \subseteq dev[s][1].odd
  \/ /\ reader = "hwmon" /\ dev[s][1].is = "missing"
     /\ AllFiles(reader)[i + 1].id \in dev[s][1].odd

DueRow(s, i) == [slot |-> s, fields |-> [f \in Fields(reader) |-> TrueField(s, i, f)],
                 fallback |-> Nameless(s, i)]

\* A device that was there and did not change from the beginning of the call
\* to its end is reported as it is: each row that it is due, once and in order,
\* and no other, each field from its own file and empty exactly if that file is
\* of no use, and a name of its own if it has one, in the order of the slots.
\* Its neighbours may come, go, lack files or be skipped.
SteadyDevicesTrue ==
  result = Some("ok") /\ reader # "throttle" =>
    /\ \A k, l \in DOMAIN rows : k < l => rows[k].slot <= rows[l].slot
    /\ \A s \in Slots \ touched :
         dev[s] # None /\ (reader \notin Walkers => s = 0) =>
           /\ \A i \in DueRows(s) : \E k \in DOMAIN rows : rows[k] = DueRow(s, i)
           /\ \A k \in DOMAIN rows :
                rows[k].slot = s => \E i \in DueRows(s) : rows[k] = DueRow(s, i)
           /\ \A i, j \in DueRows(s) : \A k, l \in DOMAIN rows :
                rows[k] = DueRow(s, i) /\ rows[l] = DueRow(s, j) /\ k < l => i < j

\* A row never mixes two slots, and a value in it comes from a device that was
\* in the slot during the call. A row of a device that was replaced meanwhile
\* goes over from the old one to the new one once, in the order of the files.
RowsNotInvented ==
  \A i \in DOMAIN rows :
    LET value(file) == rows[i].fields[file.field][1]
        read == {j \in DOMAIN AllFiles(reader) :
                   LET file == AllFiles(reader)[j] IN
                     rows[i].fields[file.field] # None /\ value(file).id = file.id}
    IN  /\ \A f \in Fields(reader) :
             rows[i].fields[f] # None =>
               /\ rows[i].fields[f][1].slot = rows[i].slot
               /\ rows[i].fields[f][1].born \in seen[rows[i].slot]
        /\ \A j, k \in read :
             j < k => value(AllFiles(reader)[j]).born <= value(AllFiles(reader)[k]).born

\* The throttle count is at least what the CPUs that stayed had counted when
\* the call began, provided that they could be listed, and at most what all had
\* counted when it ended, whichever CPUs went offline meanwhile; beyond the
\* largest value it stays there.
ThrottleInBounds ==
  result = Some("ok") /\ reader = "throttle" =>
    LET stayed == {s \in Slots \ touched : dev[s] # None /\ dev[s][1].odd = {}}
        Old(s) == before[s]
        Now(s) == count[s]
    IN  /\ readable => total >= Capped(MapThenSumSet(Old, stayed))
        /\ total <= Capped(MapThenSumSet(Now, Slots))

=============================================================================
