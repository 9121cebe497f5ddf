----------------------------- MODULE SysfsProofs -----------------------------
(***************************************************************************)
(* Proofs about Sysfs, for any number of slots, missing or odd files and   *)
(* changes during the call.                                                *)
(***************************************************************************)
EXTENDS Sysfs, SequenceTheorems, FiniteSetTheorems, WellFoundedInduction, TLAPS

-----------------------------------------------------------------------------
(* The tables of files.                                                    *)

\* What is left of the files up to m of a table when n of them are read.
Rest(t, n, m) == SubSeq(t, n + 1, m)

\* A sequence of files, of which each is named once.
IsTable(t) ==
  /\ t \in Seq(Range(t)) /\ Len(t) >= 1
  /\ \A i \in DOMAIN t : t[i].lost \in {"field", "row", "call"}
  /\ \A i, j \in DOMAIN t : t[i].id = t[j].id => i = j

\* A reader that makes one row of a device: each file has a field of its own,
\* the last one completes the row, and no file but the first takes the row
\* with it.
OneRow(t) ==
  /\ IsTable(t)
  /\ \A i, j \in DOMAIN t : t[i].field = t[j].field => i = j
  /\ \A i \in DOMAIN t : t[i].last <=> i = Len(t)
  /\ \A i \in DOMAIN t : t[i].lost = "row" => i = 1
  /\ \A i \in DOMAIN t : t[i].field \notin {"temp_c", "label", "source"}

\* devicequery's USB devices.
LEMMA UsbTable == OneRow(UsbFiles)
<1>1. PICK a, b, c :
        /\ a = File("power/wakeup", "status", "row", "enabled")
        /\ b = Plain("manufacturer", "text")
        /\ c = Final(Plain("product", "text"))
  OBVIOUS
<1>2. UsbFiles = <<a, b, c>>
  BY <1>1 DEF UsbFiles
<1>3. /\ a.id = "power/wakeup" /\ a.field = "status"
      /\ a.lost = "row" /\ a.last = FALSE
  BY <1>1 DEF Plain, File, Final
<1>4. /\ b.id = "manufacturer" /\ b.field = "manufacturer"
      /\ b.lost = "field" /\ b.last = FALSE
  BY <1>1 DEF Plain, File, Final
<1>5. /\ c.id = "product" /\ c.field = "product"
      /\ c.lost = "field" /\ c.last = TRUE
  BY <1>1 DEF Plain, File, Final
<1>6. /\ Len(UsbFiles) = 3 /\ DOMAIN UsbFiles = 1..3
      /\ UsbFiles \in Seq(Range(UsbFiles))
      /\ UsbFiles[1] = a /\ UsbFiles[2] = b /\ UsbFiles[3] = c
  BY <1>2 DEF Range
<1> QED BY <1>3, <1>4, <1>5, <1>6 DEF OneRow, IsTable

\* energy's power supplies.
LEMMA SupplyTable == OneRow(SupplyFiles)
<1>1. PICK a, b, c, d, e :
        /\ a = Plain("type", "text")
        /\ b = Plain("status", "text")
        /\ c = Plain("capacity", "u8")
        /\ d = Plain("capacity_level", "text")
        /\ e = Final(Plain("power_now", "number"))
  OBVIOUS
<1>2. SupplyFiles = <<a, b, c, d, e>>
  BY <1>1 DEF SupplyFiles
<1>3. /\ a.id = "type" /\ a.field = "type"
      /\ a.lost = "field" /\ a.last = FALSE
  BY <1>1 DEF Plain, File, Final
<1>4. /\ b.id = "status" /\ b.field = "status"
      /\ b.lost = "field" /\ b.last = FALSE
  BY <1>1 DEF Plain, File, Final
<1>5. /\ c.id = "capacity" /\ c.field = "capacity"
      /\ c.lost = "field" /\ c.last = FALSE
  BY <1>1 DEF Plain, File, Final
<1>6. /\ d.id = "capacity_level" /\ d.field = "capacity_level"
      /\ d.lost = "field" /\ d.last = FALSE
  BY <1>1 DEF Plain, File, Final
<1>7. /\ e.id = "power_now" /\ e.field = "power_now"
      /\ e.lost = "field" /\ e.last = TRUE
  BY <1>1 DEF Plain, File, Final
<1>8. /\ Len(SupplyFiles) = 5 /\ DOMAIN SupplyFiles = 1..5
      /\ SupplyFiles \in Seq(Range(SupplyFiles))
      /\ SupplyFiles[1] = a /\ SupplyFiles[2] = b /\ SupplyFiles[3] = c /\ SupplyFiles[4] = d /\ SupplyFiles[5] = e
  BY <1>2 DEF Range
<1> QED BY <1>3, <1>4, <1>5, <1>6, <1>7, <1>8 DEF OneRow, IsTable

\* energy's frequency policy.
LEMMA CpuFreqTable == OneRow(CpuFreqFiles)
<1>1. PICK a, b, c, d, e, f, g :
        /\ a = Plain("scaling_driver", "text")
        /\ b = Plain("scaling_governor", "text")
        /\ c = Plain("scaling_cur_freq", "number")
        /\ d = Plain("scaling_min_freq", "number")
        /\ e = Plain("scaling_max_freq", "number")
        /\ f = Plain("epp", "text")
        /\ g = Final(Plain("epp_available", "text"))
  OBVIOUS
<1>2. CpuFreqFiles = <<a, b, c, d, e, f, g>>
  BY <1>1 DEF CpuFreqFiles
<1>3. /\ a.id = "scaling_driver" /\ a.field = "scaling_driver"
      /\ a.lost = "field" /\ a.last = FALSE
  BY <1>1 DEF Plain, File, Final
<1>4. /\ b.id = "scaling_governor" /\ b.field = "scaling_governor"
      /\ b.lost = "field" /\ b.last = FALSE
  BY <1>1 DEF Plain, File, Final
<1>5. /\ c.id = "scaling_cur_freq" /\ c.field = "scaling_cur_freq"
      /\ c.lost = "field" /\ c.last = FALSE
  BY <1>1 DEF Plain, File, Final
<1>6. /\ d.id = "scaling_min_freq" /\ d.field = "scaling_min_freq"
      /\ d.lost = "field" /\ d.last = FALSE
  BY <1>1 DEF Plain, File, Final
<1>7. /\ e.id = "scaling_max_freq" /\ e.field = "scaling_max_freq"
      /\ e.lost = "field" /\ e.last = FALSE
  BY <1>1 DEF Plain, File, Final
<1>8. /\ f.id = "epp" /\ f.field = "epp"
      /\ f.lost = "field" /\ f.last = FALSE
  BY <1>1 DEF Plain, File, Final
<1>9. /\ g.id = "epp_available" /\ g.field = "epp_available"
      /\ g.lost = "field" /\ g.last = TRUE
  BY <1>1 DEF Plain, File, Final
<1>10. /\ Len(CpuFreqFiles) = 7 /\ DOMAIN CpuFreqFiles = 1..7
      /\ CpuFreqFiles \in Seq(Range(CpuFreqFiles))
      /\ CpuFreqFiles[1] = a /\ CpuFreqFiles[2] = b /\ CpuFreqFiles[3] = c /\ CpuFreqFiles[4] = d /\ CpuFreqFiles[5] = e /\ CpuFreqFiles[6] = f /\ CpuFreqFiles[7] = g
  BY <1>2 DEF Range
<1> QED BY <1>3, <1>4, <1>5, <1>6, <1>7, <1>8, <1>9, <1>10 DEF OneRow, IsTable

\* The description of a PCI device.
LEMMA PciTable == OneRow(PciFiles)
<1>1. PICK a, b :
        /\ a = Plain("class", "known")
        /\ b = Final(Plain("vendor", "known"))
  OBVIOUS
<1>2. PciFiles = <<a, b>>
  BY <1>1 DEF PciFiles
<1>3. /\ a.id = "class" /\ a.field = "class"
      /\ a.lost = "field" /\ a.last = FALSE
  BY <1>1 DEF Plain, File, Final
<1>4. /\ b.id = "vendor" /\ b.field = "vendor"
      /\ b.lost = "field" /\ b.last = TRUE
  BY <1>1 DEF Plain, File, Final
<1>5. /\ Len(PciFiles) = 2 /\ DOMAIN PciFiles = 1..2
      /\ PciFiles \in Seq(Range(PciFiles))
      /\ PciFiles[1] = a /\ PciFiles[2] = b
  BY <1>2 DEF Range
<1> QED BY <1>3, <1>4, <1>5 DEF OneRow, IsTable

\* The wakeup counters of a PCI device.
LEMMA StatsTable == OneRow(StatsFiles)
<1>1. PICK a, b, c :
        /\ a = File("count", "count", "call", "number")
        /\ b = File("active_count", "active_count", "call", "number")
        /\ c = Final(File("last_time_ms", "last_time_ms", "call", "number"))
  OBVIOUS
<1>2. StatsFiles = <<a, b, c>>
  BY <1>1 DEF StatsFiles
<1>3. /\ a.id = "count" /\ a.field = "count"
      /\ a.lost = "call" /\ a.last = FALSE
  BY <1>1 DEF Plain, File, Final
<1>4. /\ b.id = "active_count" /\ b.field = "active_count"
      /\ b.lost = "call" /\ b.last = FALSE
  BY <1>1 DEF Plain, File, Final
<1>5. /\ c.id = "last_time_ms" /\ c.field = "last_time_ms"
      /\ c.lost = "call" /\ c.last = TRUE
  BY <1>1 DEF Plain, File, Final
<1>6. /\ Len(StatsFiles) = 3 /\ DOMAIN StatsFiles = 1..3
      /\ StatsFiles \in Seq(Range(StatsFiles))
      /\ StatsFiles[1] = a /\ StatsFiles[2] = b /\ StatsFiles[3] = c
  BY <1>2 DEF Range
<1> QED BY <1>3, <1>4, <1>5, <1>6 DEF OneRow, IsTable

\* energy's temperature sensors: the chip's name, and two sensors of two files.
LEMMA HwmonTable ==
  ASSUME NEW t, t = AllFiles("hwmon")
  PROVE  /\ IsTable(t) /\ Len(t) = 5
         /\ t[1].field = "source" /\ t[1].lost = "row" /\ ~t[1].last
         /\ t[2].field = "temp_c" /\ t[2].lost = "row" /\ ~t[2].last
         /\ t[3].field = "label" /\ t[3].lost = "field" /\ t[3].last
         /\ t[4].field = "temp_c" /\ t[4].lost = "row" /\ ~t[4].last
         /\ t[5].field = "label" /\ t[5].lost = "field" /\ t[5].last
         /\ t[1].id = "name" /\ t[3].expected = "text" /\ t[5].expected = "text"
         /\ FilesOf["hwmon"] = SubSeq(t, 1, 1) /\ Len(FilesOf["hwmon"]) = 1
         /\ Sensors = SubSeq(t, 2, 5)
<1>1. PICK a, b, c, d, e :
        /\ a = File("name", "source", "row", "known chip")
        /\ b = File("temp1_input", "temp_c", "row", "number")
        /\ c = Final(File("temp1_label", "label", "field", "text"))
        /\ d = File("temp2_input", "temp_c", "row", "number")
        /\ e = Final(File("temp2_label", "label", "field", "text"))
  OBVIOUS
<1>2. ChipFiles = <<a>> /\ Sensors = <<b, c, d, e>>
  BY <1>1 DEF ChipFiles, Sensors
<1>3. /\ a.id = "name" /\ a.field = "source" /\ a.lost = "row" /\ a.last = FALSE
  BY <1>1 DEF File
<1>4. /\ b.id = "temp1_input" /\ b.field = "temp_c" /\ b.lost = "row" /\ b.last = FALSE
  BY <1>1 DEF File
<1>5. /\ c.id = "temp1_label" /\ c.field = "label" /\ c.lost = "field" /\ c.last = TRUE
      /\ c.expected = "text"
  BY <1>1 DEF File, Final
<1>6. /\ d.id = "temp2_input" /\ d.field = "temp_c" /\ d.lost = "row" /\ d.last = FALSE
  BY <1>1 DEF File
<1>7. /\ e.id = "temp2_label" /\ e.field = "label" /\ e.lost = "field" /\ e.last = TRUE
      /\ e.expected = "text"
  BY <1>1 DEF File, Final
<1>8. FilesOf["hwmon"] = <<a>> /\ t = <<a>> \o <<b, c, d, e>>
  BY <1>2 DEF FilesOf, AllFiles
<1>9. t = <<a, b, c, d, e>>
  BY <1>8
<1>10. /\ Len(t) = 5 /\ DOMAIN t = 1..5 /\ t \in Seq(Range(t))
       /\ t[1] = a /\ t[2] = b /\ t[3] = c /\ t[4] = d /\ t[5] = e
  BY <1>9 DEF Range
<1>11. IsTable(t)
  <2>1. \A i \in DOMAIN t : i = 1 \/ i = 2 \/ i = 3 \/ i = 4 \/ i = 5
    BY <1>10
  <2>2. \A i \in DOMAIN t : t[i].lost \in {"field", "row", "call"}
    BY <1>3, <1>4, <1>5, <1>6, <1>7, <1>10, <2>1
  <2>3. \A i, j \in DOMAIN t : t[i].id = t[j].id => i = j
    <3>1. /\ t[1].id = "name" /\ t[2].id = "temp1_input" /\ t[3].id = "temp1_label"
          /\ t[4].id = "temp2_input" /\ t[5].id = "temp2_label"
      BY <1>3, <1>4, <1>5, <1>6, <1>7, <1>10
    <3> QED BY <2>1, <3>1
  <2> QED BY <1>10, <2>2, <2>3 DEF IsTable
<1>12. /\ SubSeq(t, 1, 1) = <<a>> /\ SubSeq(t, 2, 5) = <<b, c, d, e>>
  <2>1. PICK S : S = {a, b, c, d, e}
    OBVIOUS
  <2>2. PICK u, v : u = <<a>> /\ v = <<b, c, d, e>>
    OBVIOUS
  <2>3. /\ u \in Seq(S) /\ Len(u) = 1 /\ u[1] = a
        /\ v \in Seq(S) /\ Len(v) = 4
        /\ v[1] = b /\ v[2] = c /\ v[3] = d /\ v[4] = e
    BY <2>1, <2>2
  <2>4. /\ \A i \in 1..1 : t[i] \in S
        /\ \A i \in 2..5 : t[i] \in S
    BY <1>10, <2>1
  <2>5. /\ SubSeq(t, 1, 1) \in Seq(S) /\ Len(SubSeq(t, 1, 1)) = 1
        /\ SubSeq(t, 1, 1)[1] = t[1]
    BY <2>4, SubSeqProperties
  <2>6. /\ SubSeq(t, 2, 5) \in Seq(S) /\ Len(SubSeq(t, 2, 5)) = 4
        /\ SubSeq(t, 2, 5)[1] = t[2] /\ SubSeq(t, 2, 5)[2] = t[3]
        /\ SubSeq(t, 2, 5)[3] = t[4] /\ SubSeq(t, 2, 5)[4] = t[5]
    BY <2>4, SubSeqProperties
  <2>7. SubSeq(t, 1, 1) = u
    BY <1>10, <2>3, <2>5, SeqEqual
  <2>8. SubSeq(t, 2, 5) = v
    BY <1>10, <2>3, <2>6, SeqEqual
  <2> QED BY <2>2, <2>7, <2>8
<1> QED BY <1>2, <1>3, <1>4, <1>5, <1>6, <1>7, <1>8, <1>10, <1>11, <1>12

\* energy's throttle counters: one file for each CPU.
LEMMA ThrottleTable ==
  ASSUME NEW t, t = FilesOf["throttle"]
  PROVE  IsTable(t) /\ Len(t) = 1 /\ t[1].lost = "row" /\ t[1].field = "n"
<1>1. PICK a : a = File("package_throttle_count", "n", "row", "number")
  OBVIOUS
<1>2. t = <<a>>
  BY <1>1 DEF FilesOf, ThrottleFiles
<1>3. a.lost = "row" /\ a.field = "n"
  BY <1>1 DEF File
<1>4. Len(t) = 1 /\ DOMAIN t = 1..1 /\ t \in Seq(Range(t)) /\ t[1] = a
  BY <1>2 DEF Range
<1> QED BY <1>3, <1>4 DEF IsTable

AllReaders == Walkers \union {"cpufreq", "description", "stats"}

\* The files a reader opens first, and all of them.
LEMMA ReaderTables ==
  ASSUME NEW r \in AllReaders
  PROVE  /\ IsTable(AllFiles(r))
         /\ Len(FilesOf[r]) \in 1..Len(AllFiles(r))
         /\ FilesOf[r] = Rest(AllFiles(r), 0, Len(FilesOf[r]))
         /\ r # "hwmon" => AllFiles(r) = FilesOf[r]
         /\ r \notin {"hwmon", "throttle"} => OneRow(AllFiles(r))
<1>1. CASE r = "hwmon"
  <2>1. PICK t : t = AllFiles("hwmon")
    OBVIOUS
  <2>2. /\ IsTable(t) /\ Len(t) = 5 /\ Len(FilesOf["hwmon"]) = 1
        /\ FilesOf["hwmon"] = SubSeq(t, 1, 1)
    BY <2>1, HwmonTable
  <2> QED BY <1>1, <2>1, <2>2 DEF Rest
<1>2. ASSUME r # "hwmon", IsTable(FilesOf[r]) PROVE
        /\ Len(FilesOf[r]) \in 1..Len(FilesOf[r])
        /\ FilesOf[r] = Rest(FilesOf[r], 0, Len(FilesOf[r]))
  <2>1. PICK t : t = FilesOf[r]
    OBVIOUS
  <2>2. t \in Seq(Range(t)) /\ Len(t) \in Nat /\ Len(t) >= 1
    BY <1>2, <2>1 DEF IsTable
  <2>3. t = SubSeq(t, 1, Len(t))
    BY <2>2, SubSeqFull
  <2> QED BY <2>1, <2>2, <2>3 DEF Rest
<1>3. r # "hwmon" => AllFiles(r) = FilesOf[r]
  BY DEF AllFiles
<1>4. CASE r = "throttle"
  BY <1>2, <1>3, <1>4, ThrottleTable
<1>5. ASSUME r \notin {"hwmon", "throttle"} PROVE OneRow(FilesOf[r])
  <2>1. r \in {"usb", "supply", "cpufreq", "description", "stats"}
    BY <1>5 DEF AllReaders, Walkers
  <2>2. /\ FilesOf["usb"] = UsbFiles /\ FilesOf["supply"] = SupplyFiles
        /\ FilesOf["cpufreq"] = CpuFreqFiles /\ FilesOf["description"] = PciFiles
        /\ FilesOf["stats"] = StatsFiles
    BY DEF FilesOf
  <2> QED BY <2>1, <2>2, UsbTable, SupplyTable, CpuFreqTable, PciTable, StatsTable
<1>6. CASE r \notin {"hwmon", "throttle"}
  BY <1>2, <1>3, <1>5, <1>6 DEF OneRow
<1> QED BY <1>1, <1>4, <1>6

\* It has as many files as are not read.
LEMMA Remaining ==
  ASSUME NEW t, IsTable(t), NEW m \in Nat, NEW n \in Nat, n <= m, m <= Len(t)
  PROVE  /\ Rest(t, n, m) \in Seq(Range(t))
         /\ Len(Rest(t, n, m)) = m - n
         /\ Rest(t, n, m) = <<>> <=> n = m
<1>1. t \in Seq(Range(t)) /\ Len(t) \in Nat /\ DOMAIN t = 1..Len(t)
  BY DEF IsTable
<1>2. PICK rest : rest = Rest(t, n, m)
  OBVIOUS
<1>3. PICK a \in Int : a = n + 1
  OBVIOUS
<1>4. m \in Int /\ \A i \in a..m : t[i] \in Range(t)
  BY <1>1, <1>3 DEF Range
<1>5. /\ SubSeq(t, a, m) \in Seq(Range(t))
      /\ Len(SubSeq(t, a, m)) = IF a <= m THEN m - a + 1 ELSE 0
  BY <1>4, SubSeqProperties
<1>6. rest \in Seq(Range(t)) /\ Len(rest) = m - n
  BY <1>2, <1>3, <1>5 DEF Rest
<1>7. rest = <<>> <=> n = m
  BY <1>6
<1> QED BY <1>2, <1>6, <1>7

\* It begins with the next file, which is the first that is not read.
LEMMA NextFile ==
  ASSUME NEW t, IsTable(t), NEW m \in Nat, NEW n \in Nat, n < m, m <= Len(t)
  PROVE  /\ Head(Rest(t, n, m)) = t[n + 1]
         /\ n + 1 \in DOMAIN t
         /\ Tail(Rest(t, n, m)) = Rest(t, n + 1, m)
<1>1. t \in Seq(Range(t)) /\ Len(t) \in Nat /\ DOMAIN t = 1..Len(t)
  BY DEF IsTable
<1>2. n + 1 \in 1..Len(t) /\ m \in (n + 1)..Len(t)
  BY <1>1
<1> QED BY <1>1, <1>2, HeadTailOfSubSeq DEF Rest

\* Its elements are the files of the table behind the first n.
LEMMA Element ==
  ASSUME NEW t, IsTable(t), NEW m \in Nat, NEW n \in Nat, n <= m, m <= Len(t),
         NEW i \in 1..(m - n)
  PROVE  Rest(t, n, m)[i] = t[n + i] /\ n + i \in DOMAIN t
<1>1. t \in Seq(Range(t)) /\ Len(t) \in Nat /\ DOMAIN t = 1..Len(t)
  BY DEF IsTable
<1>2. PICK a \in Int : a = n + 1
  OBVIOUS
<1>3. m \in Int /\ \A j \in a..m : t[j] \in Range(t)
  BY <1>1, <1>2 DEF Range
<1>4. \A j \in 1..(m - a + 1) : SubSeq(t, a, m)[j] = t[a + j - 1]
  BY <1>3, SubSeqProperties
<1>5. i \in 1..(m - a + 1) /\ a + i - 1 = n + i
  BY <1>2
<1>6. SubSeq(t, a, m)[i] = t[a + i - 1]
  BY <1>4, <1>5
<1>7. SubSeq(t, a, m)[i] = t[n + i]
  BY <1>5, <1>6
<1> QED BY <1>1, <1>2, <1>7 DEF Rest

\* A set of numbers that is not empty has a least one.
LEMMA LeastOf ==
  ASSUME NEW S \in SUBSET Nat, S # {}
  PROVE  \E x \in S : \A y \in S : x <= y
<1>1. \E x \in S : \A y \in S : ~(<<y, x>> \in OpToRel(<, Nat))
  BY NatLessThanWellFounded, WFMin
<1>2. \A x, y \in Nat : y < x => <<y, x>> \in OpToRel(<, Nat)
  BY DEF OpToRel
<1>3. \E x \in S : \A y \in S : ~(y < x)
  BY <1>1, <1>2, Zenon
<1> QED BY <1>3

\* The files still to be read.
Left(t, n, m) == files = Rest(t, n, m)

\* What is left of a table when the row at hand is given up: everything behind
\* the next file that completes a row.
LEMMA NextRowIs ==
  ASSUME NEW t, IsTable(t), NEW m \in Nat, NEW n \in Nat, n < m, m <= Len(t),
         Left(t, n, m)
  PROVE  \E k \in Nat :
           /\ n < k /\ k <= m
           /\ NextRow = Rest(t, k, m)
           /\ k = m \/ t[k].last
           /\ \A i \in Nat : n < i /\ i < k => ~t[i].last
<1>1. Len(t) \in Nat /\ n <= m
  BY DEF IsTable
<1>2. Len(files) = m - n /\ files \in Seq(Range(t))
  <2>1. Len(Rest(t, n, m)) = m - n
    BY <1>1, Remaining
  <2>2. Rest(t, n, m) \in Seq(Range(t))
    BY <1>1, Remaining
  <2> QED BY <2>1, <2>2 DEF Left
<1>3. DOMAIN files = 1..(m - n)
  BY <1>2
<1>4. \A i \in 1..(m - n) : files[i] = t[n + i]
  BY <1>1, Element DEF Left
<1>5. PICK ends : ends = {i \in DOMAIN files : files[i].last}
  OBVIOUS
<1>6. NextRow = IF ends = {} THEN <<>> ELSE SubSeq(files, Min(ends) + 1, Len(files))
  BY <1>5 DEF NextRow
<1>7. ASSUME NEW i \in Nat, n < i, i <= m, i - n \notin ends
      PROVE  ~t[i].last
  <2>1. PICK h \in Nat : h = i - n
    BY <1>7
  <2>2. h \in 1..(m - n) /\ n + h = i
    BY <1>7, <2>1
  <2>3. files[h] = t[n + h]
    BY <1>4, <2>2
  <2>4. files[h] = t[i]
    BY <2>2, <2>3
  <2>5. ~files[h].last
    BY <1>3, <1>5, <1>7, <2>1, <2>2
  <2> QED BY <2>4, <2>5
<1>8. CASE ends = {}
  <2>1. NextRow = Rest(t, m, m)
    <3>1. Rest(t, m, m) = <<>>
      BY <1>1, Remaining
    <3> QED BY <1>6, <1>8, <3>1
  <2>2. \A i \in Nat : n < i /\ i < m => ~t[i].last
    BY <1>7, <1>8
  <2> QED BY <1>1, <2>1, <2>2
<1>9. CASE ends # {}
  <2>1. ends \subseteq Nat
    BY <1>3, <1>5
  <2>2. PICK e \in ends : \A x \in ends : e <= x
    BY <1>9, <2>1, LeastOf
  <2>3. PICK h : h = Min(ends)
    OBVIOUS
  <2>4. h \in ends /\ \A x \in ends : h <= x
    BY <2>2, <2>3 DEF Min
  <2>5. h \in 1..(m - n) /\ h \in Nat /\ files[h].last
    BY <1>1, <1>3, <1>5, <2>4
  <2>6. PICK k \in Nat : k = n + h
    BY <2>5
  <2>7. n < k /\ k <= m /\ n <= k
    BY <2>5, <2>6
  <2>8. t[k].last
    <3>1. files[h] = t[n + h]
      BY <1>4, <2>5
    <3> QED BY <2>5, <2>6, <3>1
  <2>9. ASSUME NEW i \in Nat, n < i, i < k
        PROVE  ~t[i].last
    <3>1. PICK j \in Nat : j = i - n
      BY <2>9
    <3>2. j < h /\ i <= m
      BY <2>5, <2>6, <2>7, <2>9, <3>1
    <3>3. j \notin ends
      BY <2>1, <2>4, <2>5, <3>2
    <3> QED BY <1>7, <2>9, <3>1, <3>2, <3>3
  <2>10. PICK u : u = NextRow
    OBVIOUS
  <2>11. PICK v : v = Rest(t, k, m)
    OBVIOUS
  <2>12. PICK b \in Int : b = h + 1
    BY <2>5
  <2>13. PICK l \in Int : l = m - n
    OBVIOUS
  <2>14. u = SubSeq(files, b, l)
    BY <1>2, <1>6, <1>9, <2>3, <2>10, <2>12, <2>13
  <2>15. /\ u \in Seq(Range(t))
         /\ Len(u) = IF b <= l THEN l - b + 1 ELSE 0
         /\ \A i \in 1..(l - b + 1) : u[i] = files[b + i - 1]
    <3>1. \A i \in b..l : files[i] \in Range(t)
      BY <1>2, <1>3, <2>5, <2>12, <2>13
    <3> QED BY <2>14, <3>1, SubSeqProperties
  <2>16. Len(u) = m - k
    BY <2>5, <2>6, <2>12, <2>13, <2>15
  <2>17. v \in Seq(Range(t)) /\ Len(v) = m - k
    <3>1. Len(Rest(t, k, m)) = m - k
      BY <2>7, Remaining
    <3>2. Rest(t, k, m) \in Seq(Range(t))
      BY <2>7, Remaining
    <3> QED BY <2>11, <3>1, <3>2
  <2>18. ASSUME NEW i \in 1..(m - k)
         PROVE  u[i] = v[i]
    <3>1. PICK j \in Nat : j = h + i
      BY <2>5, <2>7, <2>18
    <3>2. i \in 1..(l - b + 1) /\ b + i - 1 = j
      BY <2>5, <2>6, <2>12, <2>13, <2>18, <3>1
    <3>3. u[i] = files[b + i - 1]
      BY <2>15, <3>2
    <3>4. j \in 1..(m - n) /\ n + j = k + i
      BY <2>5, <2>6, <2>7, <2>18, <3>1
    <3>5. files[j] = t[n + j]
      BY <1>4, <3>4
    <3>6. v[i] = t[k + i]
      BY <2>7, <2>11, <2>18, Element
    <3> QED BY <3>2, <3>3, <3>4, <3>5, <3>6
  <2>19. u = v
    BY <2>15, <2>16, <2>17, <2>18, SeqEqual
  <2> QED BY <2>7, <2>8, <2>9, <2>10, <2>11, <2>19
<1> QED BY <1>8, <1>9

-----------------------------------------------------------------------------
(* Rows.                                                                   *)

\* The file j of a table has filled its field.
Used(t, fields, j) ==
  fields[t[j].field] # None /\ fields[t[j].field][1].id = t[j].id

\* What is filled comes from slot s, from a device out of S, and from one of
\* the first n files.
FilledTo(t, fields, n, s, S) ==
  \A f \in DOMAIN fields :
    fields[f] # None =>
      /\ fields[f][1].slot = s /\ fields[f][1].born \in S
      /\ \E q \in DOMAIN t : q <= n /\ t[q].field = f /\ t[q].id = fields[f][1].id

\* A later file is not read from an earlier device.
InOrder(t, fields) ==
  \A j, k \in DOMAIN t :
    j < k /\ Used(t, fields, j) /\ Used(t, fields, k) =>
      fields[t[j].field][1].born <= fields[t[k].field][1].born

\* The next file fills its field from the device that is there now, which is
\* the newest, or leaves it empty.
LEMMA FillKeeps ==
  ASSUME NEW t, IsTable(t), NEW n \in Nat, n + 1 \in DOMAIN t,
         NEW F, NEW fields, DOMAIN fields = F, \A i \in DOMAIN t : t[i].field \in F,
         NEW s, NEW S \in SUBSET Nat,
         FilledTo(t, fields, n, s, S), InOrder(t, fields),
         NEW g, g = None \/ /\ g # None /\ g[1].slot = s /\ g[1].id = t[n + 1].id
                            /\ g[1].born \in S /\ \A b \in S : b <= g[1].born,
         NEW filled, filled = [fields EXCEPT ![t[n + 1].field] = g]
  PROVE  FilledTo(t, filled, n + 1, s, S) /\ InOrder(t, filled)
<1>1. /\ DOMAIN filled = F /\ DOMAIN fields = F /\ t[n + 1].field \in F
      /\ filled[t[n + 1].field] = g
      /\ \A f \in F : f # t[n + 1].field => filled[f] = fields[f]
  OBVIOUS
<1>2. /\ DOMAIN t \subseteq Nat
      /\ \A i, j \in DOMAIN t : t[i].id = t[j].id => i = j
  BY DEF IsTable
<1>3. FilledTo(t, filled, n + 1, s, S)
  <2> SUFFICES ASSUME NEW f \in F, filled[f] # None
               PROVE  /\ filled[f][1].slot = s /\ filled[f][1].born \in S
                      /\ \E q \in DOMAIN t : /\ q <= n + 1 /\ t[q].field = f
                                             /\ t[q].id = filled[f][1].id
    BY <1>1 DEF FilledTo
  <2>1. CASE f = t[n + 1].field
    BY <1>1, <2>1
  <2>2. CASE f # t[n + 1].field
    <3>1. /\ fields[f] # None /\ filled[f] = fields[f]
      BY <1>1, <2>2
    <3>2. PICK q \in DOMAIN t : q <= n /\ t[q].field = f /\ t[q].id = fields[f][1].id
      BY <1>1, <3>1 DEF FilledTo
    <3>3. q <= n + 1
      BY <1>2, <3>2
    <3> QED BY <1>1, <3>1, <3>2, <3>3 DEF FilledTo
  <2> QED BY <2>1, <2>2
<1>4. ASSUME NEW j \in DOMAIN t, Used(t, filled, j), t[j].field = t[n + 1].field
      PROVE  j = n + 1 /\ g # None
  BY <1>1, <1>2, <1>4 DEF Used
<1>5. ASSUME NEW j \in DOMAIN t, Used(t, filled, j), t[j].field # t[n + 1].field
      PROVE  /\ Used(t, fields, j) /\ filled[t[j].field] = fields[t[j].field]
             /\ j <= n /\ fields[t[j].field][1].born \in S
  <2>1. filled[t[j].field] = fields[t[j].field] /\ t[j].field \in F
    BY <1>1, <1>5
  <2>2. Used(t, fields, j)
    BY <1>5, <2>1 DEF Used
  <2>3. PICK q \in DOMAIN t : q <= n /\ t[q].id = fields[t[j].field][1].id
    BY <1>1, <2>1, <2>2 DEF FilledTo, Used
  <2>4. q = j
    BY <1>2, <2>2, <2>3 DEF Used
  <2>5. fields[t[j].field][1].born \in S
    BY <1>1, <2>1, <2>2 DEF FilledTo, Used
  <2> QED BY <2>1, <2>2, <2>3, <2>4, <2>5
<1>6. InOrder(t, filled)
  <2> SUFFICES ASSUME NEW j \in DOMAIN t, NEW k \in DOMAIN t, j < k,
                      Used(t, filled, j), Used(t, filled, k)
               PROVE  filled[t[j].field][1].born <= filled[t[k].field][1].born
    BY DEF InOrder
  <2>1. CASE t[k].field = t[n + 1].field
    <3>1. k = n + 1 /\ g # None
      BY <1>4, <2>1
    <3>2. t[j].field # t[n + 1].field
      <4>1. j # n + 1
        BY <1>2, <3>1
      <4> QED BY <1>4, <4>1
    <3>3. filled[t[j].field][1].born \in S
      BY <1>5, <3>2
    <3> QED BY <1>1, <2>1, <3>1, <3>3
  <2>2. CASE t[k].field # t[n + 1].field
    <3>1. Used(t, fields, k) /\ filled[t[k].field] = fields[t[k].field] /\ k <= n
      BY <1>5, <2>2
    <3>2. t[j].field # t[n + 1].field
      <4>1. j # n + 1
        BY <1>2, <3>1
      <4> QED BY <1>4, <4>1
    <3>3. Used(t, fields, j) /\ filled[t[j].field] = fields[t[j].field]
      BY <1>5, <3>2
    <3> QED BY <3>1, <3>3 DEF InOrder
  <2> QED BY <2>1, <2>2
<1> QED BY <1>3, <1>6

\* Fewer fields are filled no worse.
LEMMA ClearKeeps ==
  ASSUME NEW t, NEW n, NEW fields, NEW left, DOMAIN left = DOMAIN fields,
         \A i \in DOMAIN t : t[i].field \in DOMAIN fields,
         NEW s, NEW S, FilledTo(t, fields, n, s, S), InOrder(t, fields),
         \A f \in DOMAIN fields : left[f] \in {None, fields[f]}
  PROVE  FilledTo(t, left, n, s, S) /\ InOrder(t, left)
<1>1. FilledTo(t, left, n, s, S)
  BY DEF FilledTo
<1>2. ASSUME NEW j \in DOMAIN t, Used(t, left, j)
      PROVE  Used(t, fields, j) /\ left[t[j].field] = fields[t[j].field]
  BY <1>2 DEF Used
<1>3. InOrder(t, left)
  BY <1>2 DEF InOrder
<1> QED BY <1>1, <1>3

-----------------------------------------------------------------------------
(* The devices.                                                            *)

\* The device in a slot is one the slot held during the call, the newest.
DeviceOK(s) ==
  dev[s] # None =>
    /\ parent
    /\ dev[s][1] \in Device(reader, dev[s][1].born)
    /\ dev[s][1].born \in seen[s]
    /\ \A b \in seen[s] : b <= dev[s][1].born

DeviceInv ==
  /\ reader \in Readers /\ parent \in BOOLEAN /\ readable \in BOOLEAN
  /\ changes \in Nat /\ changes <= MaxChanges
  /\ DOMAIN dev = Slots
  /\ count \in [Slots -> 0..Cap] /\ before \in [Slots -> 0..Cap]
  /\ seen \in [Slots -> SUBSET (0..changes)]
  /\ touched \subseteq Slots
  /\ \A s \in Slots : DeviceOK(s)

\* A device in order is one of those that may be there.
LEMMA SoundDevice ==
  ASSUME NEW r, NEW born
  PROVE  [born |-> born, odd |-> {}, is |-> "missing"] \in Device(r, born)
BY DEF Device

\* So is a USB device that does not wake the machine.
LEMMA SleepingDevice ==
  ASSUME NEW born
  PROVE  [born |-> born, odd |-> {"power/wakeup"}, is |-> "odd"] \in Device("usb", born)
<1>1. "power/wakeup" \in Ids("usb")
  <2>1. AllFiles("usb") = <<UsbFiles[1], UsbFiles[2], UsbFiles[3]>>
    BY DEF AllFiles, FilesOf, UsbFiles
  <2>2. UsbFiles[1].id = "power/wakeup"
    BY DEF UsbFiles, File
  <2> QED BY <2>1, <2>2 DEF Ids
<1>2. Cardinality({"power/wakeup"}) <= MaxOdd
  <2>1. Cardinality({"power/wakeup"}) = 1
    BY FS_Singleton
  <2> QED BY <2>1, BoundsAssumption
<1> QED BY <1>1, <1>2 DEF Device

\* A device has its own birth.
LEMMA DeviceBorn ==
  ASSUME NEW r, NEW born, NEW d \in Device(r, born)
  PROVE  /\ d.born = born
         /\ d = [born |-> d.born, odd |-> d.odd, is |-> d.is]
BY DEF Device

\* The devices that are there when the call begins.
LEMMA DeviceInit == Init => DeviceInv
<1> SUFFICES ASSUME Init PROVE DeviceInv
  OBVIOUS
<1>1. /\ reader \in Readers /\ parent \in BOOLEAN /\ readable \in BOOLEAN
      /\ changes = 0 /\ touched = {} /\ before = count
      /\ dev \in [Slots -> {None} \union {Some(d) : d \in Device(reader, 0)}]
      /\ seen = [s \in Slots |-> IF dev[s] = None THEN {} ELSE {0}]
      /\ count \in [Slots -> IF reader = "throttle" THEN {0, Cap - 1} ELSE {0}]
      /\ \A s \in Slots : dev[s] # None => parent
  BY DEF Init
<1>2. {0, Cap - 1} \subseteq 0..Cap /\ MaxChanges \in Nat
  BY BoundsAssumption
<1>3. count \in [Slots -> 0..Cap]
  BY <1>1, <1>2
<1>4. seen \in [Slots -> SUBSET (0..changes)]
  BY <1>1
<1>5. ASSUME NEW s \in Slots PROVE DeviceOK(s)
  <2>1. ASSUME dev[s] # None
        PROVE  /\ dev[s][1] \in Device(reader, dev[s][1].born)
               /\ dev[s][1].born = 0
    <3>1. PICK d \in Device(reader, 0) : dev[s] = Some(d)
      BY <1>1, <2>1
    <3>2. dev[s][1] = d
      BY <3>1 DEF Some
    <3> QED BY <3>1, <3>2, DeviceBorn
  <2> QED BY <1>1, <2>1 DEF DeviceOK
<1> QED BY <1>1, <1>2, <1>3, <1>4, <1>5 DEF DeviceInv

\* A slot that a step leaves alone stays as it is.
LEMMA SlotKept ==
  ASSUME NEW s \in Slots, DeviceOK(s), parent', reader' = reader,
         dev'[s] = dev[s], seen'[s] = seen[s]
  PROVE  DeviceOK(s)'
BY DEF DeviceOK

\* A change of the system.
LEMMA DeviceChange ==
  ASSUME DeviceInv, NEW S \in SUBSET Slots, Change(S)
  PROVE  /\ reader' = reader /\ readable' = readable /\ before' = before
         /\ changes' \in Nat /\ changes' <= MaxChanges /\ changes' = changes + 1
         /\ touched' \subseteq Slots
         /\ seen \in [Slots -> SUBSET (0..changes')]
<1>1. /\ changes \in Nat /\ MaxChanges \in Nat /\ changes < MaxChanges
      /\ changes' = changes + 1 /\ touched' = touched \union S
      /\ reader' = reader /\ readable' = readable /\ before' = before
  BY BoundsAssumption DEF DeviceInv, Change
<1>2. 0..changes \subseteq 0..changes'
  BY <1>1
<1>3. seen \in [Slots -> SUBSET (0..changes')]
  BY <1>2 DEF DeviceInv
<1> QED BY <1>1, <1>3 DEF DeviceInv

\* Devices that are plugged, removed and configured, and CPUs that are
\* throttled.
LEMMA DeviceSystem ==
  ASSUME DeviceInv, System
  PROVE  DeviceInv'
<1> USE DEF DeviceInv
<1>1. ASSUME NEW s \in Slots, Plug(s) PROVE DeviceInv'
  <2>1. PICK d : d = [born |-> changes', odd |-> {}, is |-> "missing"]
    OBVIOUS
  <2>2. /\ Change({s}) /\ parent /\ parent' = parent /\ count' = count
        /\ dev' = [dev EXCEPT ![s] = Some(d)]
        /\ seen' = [seen EXCEPT ![s] = @ \union {changes'}]
    BY <1>1, <2>1 DEF Plug
  <2>3. /\ reader' = reader /\ readable' = readable /\ before' = before
        /\ changes' \in Nat /\ changes' <= MaxChanges /\ changes' = changes + 1
        /\ touched' \subseteq Slots
        /\ seen \in [Slots -> SUBSET (0..changes')]
    BY <2>2, DeviceChange
  <2>4. seen' \in [Slots -> SUBSET (0..changes')]
    BY <2>2, <2>3
  <2>5. DOMAIN dev' = Slots
    BY <2>2
  <2>6. ASSUME NEW q \in Slots PROVE DeviceOK(q)'
    <3>1. CASE q = s
      <4>1. dev'[q] = Some(d) /\ dev'[q][1] = d /\ d.born = changes'
        BY <2>1, <2>2, <3>1 DEF Some
      <4>2. d \in Device(reader', changes')
        BY <2>1, SoundDevice
      <4>3. seen'[q] = seen[q] \union {changes'} /\ seen[q] \subseteq 0..changes'
        BY <2>2, <2>3, <3>1
      <4>4. \A b \in seen'[q] : b <= changes'
        BY <2>3, <4>3
      <4> QED BY <2>2, <4>1, <4>2, <4>3, <4>4 DEF DeviceOK
    <3>2. CASE q # s
      BY <2>2, <2>3, <3>2, SlotKept
    <3> QED BY <3>1, <3>2
  <2> QED BY <2>2, <2>3, <2>4, <2>5, <2>6
<1>2. ASSUME NEW s \in Slots, Unplug(s) PROVE DeviceInv'
  <2>1. /\ Change({s}) /\ parent' = parent /\ count' = count
        /\ dev' = [dev EXCEPT ![s] = None] /\ seen' = seen
    BY <1>2 DEF Unplug
  <2>2. /\ reader' = reader /\ readable' = readable /\ before' = before
        /\ changes' \in Nat /\ changes' <= MaxChanges
        /\ touched' \subseteq Slots
        /\ seen \in [Slots -> SUBSET (0..changes')]
    BY <2>1, DeviceChange
  <2>3. ASSUME NEW q \in Slots PROVE DeviceOK(q)'
    BY <2>1, <2>2 DEF DeviceOK
  <2> QED BY <2>1, <2>2, <2>3
<1>3. ASSUME Unload PROVE DeviceInv'
  <2>1. /\ Change(Slots) /\ parent' = FALSE /\ count' = count
        /\ dev' = [s \in Slots |-> None] /\ seen' = seen
    BY <1>3 DEF Unload
  <2>2. /\ reader' = reader /\ readable' = readable /\ before' = before
        /\ changes' \in Nat /\ changes' <= MaxChanges
        /\ touched' \subseteq Slots
        /\ seen \in [Slots -> SUBSET (0..changes')]
    BY <2>1, DeviceChange
  <2>3. ASSUME NEW q \in Slots PROVE DeviceOK(q)'
    BY <2>1 DEF DeviceOK
  <2> QED BY <2>1, <2>2, <2>3
<1>4. ASSUME NEW s \in Slots, Configure(s) PROVE DeviceInv'
  <2>1. PICK d : d = dev[s][1]
    OBVIOUS
  <2>2. PICK awakes, sleeps :
          /\ awakes = [d EXCEPT !.odd = {}, !.is = "missing"]
          /\ sleeps = [d EXCEPT !.odd = {"power/wakeup"}, !.is = "odd"]
    OBVIOUS
  <2>3. /\ Change({s}) /\ parent' = parent /\ count' = count /\ seen' = seen
        /\ reader = "usb" /\ dev[s] # None
        /\ \/ dev' = [dev EXCEPT ![s] = Some(sleeps)]
           \/ dev' = [dev EXCEPT ![s] = Some(awakes)]
    BY <1>4, <2>1, <2>2 DEF Configure
  <2>4. /\ reader' = reader /\ readable' = readable /\ before' = before
        /\ changes' \in Nat /\ changes' <= MaxChanges
        /\ touched' \subseteq Slots
        /\ seen \in [Slots -> SUBSET (0..changes')]
    BY <2>3, DeviceChange
  <2>5. /\ d \in Device("usb", d.born) /\ d.born \in seen[s] /\ parent
        /\ \A b \in seen[s] : b <= d.born
    BY <2>1, <2>3 DEF DeviceOK
  <2>6. d = [born |-> d.born, odd |-> d.odd, is |-> d.is]
    BY <2>5, DeviceBorn
  <2>7. /\ awakes = [born |-> d.born, odd |-> {}, is |-> "missing"]
        /\ sleeps = [born |-> d.born, odd |-> {"power/wakeup"}, is |-> "odd"]
    BY <2>2, <2>6
  <2>8. /\ awakes.born = d.born /\ sleeps.born = d.born
        /\ {awakes, sleeps} \subseteq Device("usb", d.born)
    BY <2>7, SoundDevice, SleepingDevice
  <2>9. PICK e \in {awakes, sleeps} : dev' = [dev EXCEPT ![s] = Some(e)]
    BY <2>3
  <2>10. e.born = d.born /\ e \in Device("usb", d.born)
    BY <2>8
  <2>11. ASSUME NEW q \in Slots PROVE DeviceOK(q)'
    <3>1. CASE q = s
      <4>1. dev'[q][1] = e
        BY <2>9, <3>1 DEF Some
      <4> QED BY <2>3, <2>4, <2>5, <2>10, <3>1, <4>1 DEF DeviceOK
    <3>2. CASE q # s
      <4>1. parent' /\ dev'[q] = dev[q] /\ seen'[q] = seen[q]
        BY <2>3, <2>5, <2>9, <3>2
      <4> QED BY <2>4, <4>1, SlotKept
    <3> QED BY <3>1, <3>2
  <2>12. DOMAIN dev' = Slots
    BY <2>9
  <2> QED BY <2>3, <2>4, <2>11, <2>12
<1>5. ASSUME NEW s \in Slots, Throttle(s) PROVE DeviceInv'
  <2>1. /\ Change({}) /\ parent' = parent /\ dev' = dev /\ seen' = seen
        /\ count' = [count EXCEPT ![s] = @ + 1] /\ count[s] < Cap
    BY <1>5 DEF Throttle
  <2>2. /\ reader' = reader /\ readable' = readable /\ before' = before
        /\ changes' \in Nat /\ changes' <= MaxChanges
        /\ touched' \subseteq Slots
        /\ seen \in [Slots -> SUBSET (0..changes')]
    BY <2>1, DeviceChange
  <2>3. count' \in [Slots -> 0..Cap]
    BY <2>1, BoundsAssumption
  <2>4. ASSUME NEW q \in Slots PROVE DeviceOK(q)'
    BY <2>1, <2>2 DEF DeviceOK
  <2> QED BY <2>1, <2>2, <2>3, <2>4
<1> QED BY <1>1, <1>2, <1>3, <1>4, <1>5 DEF System

\* Whatever the readers do, they only read.
LEMMA DeviceKept ==
  ASSUME DeviceInv, UNCHANGED <<systemVars, reader, before>>
  PROVE  DeviceInv'
<1>1. \A s \in Slots : DeviceOK(s) => DeviceOK(s)'
  BY DEF DeviceOK, systemVars
<1> QED BY <1>1 DEF DeviceInv, systemVars

\* No step of a reader changes a device.
LEMMA ProgramReads == Program => UNCHANGED <<systemVars, reader, before>>
BY DEF Program, NoParent, NoSuchDevice, OpenPci, ParentExists, CheckPolicy,
       ListFails, ListDevices, SkipVanished, OpenDevice, ReadField, SkipRow,
       GiveUp, ListSensors, AddThrottle, CountCpus, NoMoreDevices, Return,
       Unchanged, systemVars

-----------------------------------------------------------------------------
(* The reader.                                                             *)

Places == {"exists", "policy", "list", "device", "sensors", "file", "count", "done"}
Results == {None, Some("ok"), Some("notfound"), Some("err")}

\* Where the reader is and which devices it still has to visit.
ControlInv ==
  /\ pc \in Places
  /\ result \in Results /\ (result # None <=> pc = "done")
  /\ queue \in Seq(Slots)
  /\ pc \in {"file", "sensors"} => queue # <<>>
  /\ pc \in {"policy", "count"} => reader = "cpufreq"

\* The list of a directory names slots.
LEMMA ListedSlots == \A q \in SetToSeqs(Listed) : q \in Seq(Slots)
<1>1. Listed \subseteq Slots /\ IsFiniteSet(Slots)
  BY SlotsAssumption DEF Listed
<1>2. IsFiniteSet(Listed)
  BY <1>1, FS_Subset
<1>3. Cardinality(Listed) \in Nat
  BY <1>2, FS_CardinalityType
<1>4. ASSUME NEW q \in SetToSeqs(Listed) PROVE q \in Seq(Slots)
  <2>1. q \in [1..Cardinality(Listed) -> Listed]
    BY DEF SetToSeqs
  <2>2. q \in [1..Cardinality(Listed) -> Slots]
    BY <1>1, <2>1
  <2> QED BY <1>3, <2>2, SeqDef
<1> QED BY <1>4

\* After a file comes another one, the list of the sensors or the next device.
LEMMA AfterControl ==
  ASSUME ControlInv, pc = "file", NEW rest, After(rest), reader' = reader,
         result' = result
  PROVE  ControlInv'
<1>1. /\ queue \in Seq(Slots) /\ queue # <<>> /\ result = None
  BY DEF ControlInv
<1>2. /\ pc' \in {"file", "sensors", "device"}
      /\ pc' \in {"file", "sensors"} => queue' = queue
      /\ pc' = "device" => queue' = Tail(queue)
  BY DEF After
<1>3. Tail(queue) \in Seq(Slots)
  BY <1>1
<1> QED BY <1>1, <1>2, <1>3 DEF ControlInv, Places, Results

\* Every step of a reader leads to a place in order.
LEMMA ControlStep ==
  ASSUME ControlInv, Program
  PROVE  ControlInv'
<1> USE DEF ControlInv, Places, Results
<1>1. ASSUME NEW r \in {"ok", "notfound", "err"}, Return(r), queue' \in Seq(Slots)
      PROVE  ControlInv'
  BY <1>1 DEF Return, Some, None
<1>2. ASSUME NoParent PROVE ControlInv'
  BY <1>1, <1>2 DEF NoParent
<1>3. ASSUME NoSuchDevice PROVE ControlInv'
  BY <1>1, <1>3 DEF NoSuchDevice
<1>4. ASSUME OpenPci PROVE ControlInv'
  <2>1. 0 \in Slots
    BY SlotsAssumption
  <2>2. queue' \in Seq(Slots) /\ pc' = "device" /\ result' = result /\ reader' = reader
    BY <1>4, <2>1 DEF OpenPci, Unchanged
  <2> QED BY <1>4, <2>2 DEF OpenPci
<1>5. ASSUME ParentExists PROVE ControlInv'
  BY <1>5 DEF ParentExists, Unchanged
<1>6. ASSUME CheckPolicy PROVE ControlInv'
  <2>1. 0 \in Slots
    BY SlotsAssumption
  <2>2. <<>> \in Seq(Slots)
    OBVIOUS
  <2>3. queue' \in Seq(Slots)
    BY <1>6, <2>1, <2>2 DEF CheckPolicy
  <2> QED BY <1>6, <2>3 DEF CheckPolicy, Unchanged
<1>7. ASSUME ListFails PROVE ControlInv'
  BY <1>1, <1>7 DEF ListFails
<1>8. ASSUME ListDevices PROVE ControlInv'
  <2>1. queue' \in Seq(Slots)
    BY <1>8, ListedSlots DEF ListDevices
  <2> QED BY <1>8, <2>1 DEF ListDevices, Unchanged
<1>9. ASSUME SkipVanished PROVE ControlInv'
  BY <1>9 DEF SkipVanished, Unchanged
<1>10. ASSUME OpenDevice PROVE ControlInv'
  BY <1>10 DEF OpenDevice, Unchanged
<1>11. ASSUME ReadField PROVE ControlInv'
  <2>1. pc = "file" /\ reader' = reader /\ result' = result /\ After(Tail(files))
    BY <1>11 DEF ReadField, Unchanged
  <2> QED BY <2>1, AfterControl
<1>12. ASSUME SkipRow PROVE ControlInv'
  <2>1. pc = "file" /\ reader' = reader /\ result' = result /\ After(NextRow)
    BY <1>12 DEF SkipRow, Unchanged
  <2> QED BY <2>1, AfterControl
<1>13. ASSUME GiveUp PROVE ControlInv'
  BY <1>1, <1>13 DEF GiveUp
<1>14. ASSUME ListSensors PROVE ControlInv'
  <2>1. /\ pc = "sensors" /\ queue \in Seq(Slots) /\ queue # <<>>
        /\ reader' = reader /\ result' = result
        /\ \/ pc' = "device" /\ queue' = Tail(queue)
           \/ pc' = "file" /\ queue' = queue
    BY <1>14 DEF ListSensors, Unchanged
  <2> QED BY <2>1
<1>15. ASSUME AddThrottle PROVE ControlInv'
  <2>1. pc = "file" /\ reader' = reader /\ result' = result /\ After(<<>>)
    BY <1>15 DEF AddThrottle, Unchanged
  <2> QED BY <2>1, AfterControl
<1>16. ASSUME CountCpus PROVE ControlInv'
  BY <1>1, <1>16 DEF CountCpus
<1>17. ASSUME NoMoreDevices PROVE ControlInv'
  <2>1. CASE reader = "cpufreq"
    BY <1>17, <2>1 DEF NoMoreDevices, Unchanged
  <2>2. CASE reader # "cpufreq"
    BY <1>1, <1>17, <2>2 DEF NoMoreDevices
  <2> QED BY <2>1, <2>2
<1> QED BY <1>2, <1>3, <1>4, <1>5, <1>6, <1>7, <1>8, <1>9, <1>10, <1>11, <1>12,
          <1>13, <1>14, <1>15, <1>16, <1>17 DEF Program

\* The system does not disturb the reader.
LEMMA SystemLeaves ==
  System => UNCHANGED <<readable, reader, pc, queue, files, row, rows, total, result, before>>
BY DEF System, Plug, Unplug, Unload, Configure, Throttle, Change

-----------------------------------------------------------------------------
(* What is read.                                                           *)

\* What the row at hand holds after n files of the device in front.
Partly(n) ==
  /\ FilledTo(AllFiles(reader), row, n, Here, seen[Here])
  /\ InOrder(AllFiles(reader), row)

\* n files of the table are read, and the list at hand goes up to m.
CursorAt(n, m) ==
  /\ n <= m /\ m <= Len(AllFiles(reader))
  /\ m \in {Len(FilesOf[reader]), Len(AllFiles(reader))}
  /\ Left(AllFiles(reader), n, m)
  /\ pc = "file" => n < m /\ Partly(n)

\* A row that was pushed comes from one slot, in the order of the files.
RowOK(r, rdr, held) ==
  /\ r.slot \in Slots /\ DOMAIN r.fields = Fields(rdr)
  /\ FilledTo(AllFiles(rdr), r.fields, Len(AllFiles(rdr)), r.slot, held[r.slot])
  /\ InOrder(AllFiles(rdr), r.fields)

RowsOK ==
  rows \in Seq(Range(rows)) /\ \A i \in DOMAIN rows : RowOK(rows[i], reader, seen)

RowInv ==
  /\ DOMAIN row = Fields(reader)
  /\ \E n, m \in Nat : CursorAt(n, m)
  /\ pc = "sensors" => reader = "hwmon" /\ Partly(1)
  /\ RowsOK

TotalInv ==
  /\ reader = "throttle" => total \in 0..Cap
  /\ reader = "cpufreq" => total \in 0..Cardinality(Slots)

ReadInv == DeviceInv /\ ControlInv /\ RowInv

\* The table of the reader.
LEMMA TableOf ==
  ASSUME DeviceInv, NEW t, t = AllFiles(reader)
  PROVE  /\ IsTable(t) /\ Len(t) \in Nat /\ DOMAIN t = 1..Len(t)
         /\ Len(FilesOf[reader]) \in Nat /\ 1 <= Len(FilesOf[reader])
         /\ Len(FilesOf[reader]) <= Len(t)
         /\ FilesOf[reader] = Rest(t, 0, Len(FilesOf[reader]))
         /\ \A i \in DOMAIN t : t[i].field \in Fields(reader) /\ t[i].id \in Ids(reader)
<1>1. reader \in AllReaders
  BY ReadersAssumption DEF DeviceInv, AllReaders
<1>2. /\ IsTable(t) /\ Len(FilesOf[reader]) \in 1..Len(t)
      /\ FilesOf[reader] = Rest(t, 0, Len(FilesOf[reader]))
  BY <1>1, ReaderTables
<1>3. Len(t) \in Nat /\ DOMAIN t = 1..Len(t)
  BY <1>2 DEF IsTable
<1>4. \A i \in DOMAIN t : t[i].field \in Fields(reader) /\ t[i].id \in Ids(reader)
  BY DEF Fields, Ids
<1> QED BY <1>2, <1>3, <1>4

\* A row at hand holds no less when the slot has held more devices.
LEMMA MoreSeen ==
  ASSUME NEW t, NEW n, NEW fields, NEW s, NEW S, NEW R, S \subseteq R,
         FilledTo(t, fields, n, s, S)
  PROVE  FilledTo(t, fields, n, s, R)
BY DEF FilledTo

\* A row pushed: the sequence stays one.
LEMMA PushRow ==
  ASSUME NEW u, u \in Seq(Range(u)), NEW x, NEW v, v = Append(u, x)
  PROVE  /\ v \in Seq(Range(v))
         /\ \A i \in DOMAIN v : v[i] = x \/ (i \in DOMAIN u /\ v[i] = u[i])
<1>1. /\ v \in Seq(Range(u) \union {x}) /\ Len(u) \in Nat /\ DOMAIN u = 1..Len(u)
      /\ Len(v) = Len(u) + 1 /\ v[Len(u) + 1] = x
      /\ \A i \in 1..Len(u) : v[i] = u[i]
  <2>1. u \in Seq(Range(u) \union {x})
    <3>1. \A i \in DOMAIN u : u[i] \in Range(u) \union {x}
      BY DEF Range
    <3> QED BY <3>1
  <2> QED BY <2>1
<1>2. DOMAIN v = 1..Len(v)
  BY <1>1
<1>3. v \in Seq(Range(v))
  BY <1>1, SeqOfRange
<1>4. \A i \in DOMAIN v : v[i] = x \/ (i \in DOMAIN u /\ v[i] = u[i])
  BY <1>1, <1>2
<1> QED BY <1>3, <1>4

\* More files read: what is filled comes from one of them.
LEMMA MoreFiles ==
  ASSUME NEW t, DOMAIN t \subseteq Nat, NEW n \in Nat, NEW k \in Nat, n <= k,
         NEW fields, NEW s, NEW S, FilledTo(t, fields, n, s, S)
  PROVE  FilledTo(t, fields, k, s, S)
<1> SUFFICES ASSUME NEW f \in DOMAIN fields, fields[f] # None
             PROVE  /\ fields[f][1].slot = s /\ fields[f][1].born \in S
                    /\ \E q \in DOMAIN t : /\ q <= k /\ t[q].field = f
                                           /\ t[q].id = fields[f][1].id
  BY DEF FilledTo
<1>1. PICK q \in DOMAIN t : q <= n /\ t[q].field = f /\ t[q].id = fields[f][1].id
  BY DEF FilledTo
<1>2. q <= k
  BY <1>1
<1> QED BY <1>1, <1>2 DEF FilledTo

\* What a file gives is of the device that is there now, the newest.
LEMMA GotIs ==
  ASSUME DeviceInv, ControlInv, pc = "file",
         NEW t, t = AllFiles(reader), NEW n \in Nat, NEW m \in Nat, n < m,
         m <= Len(t), Left(t, n, m)
  PROVE  /\ TheFile = t[n + 1] /\ n + 1 \in DOMAIN t /\ Tail(files) = Rest(t, n + 1, m)
         /\ Here \in Slots /\ seen[Here] \in SUBSET Nat
         /\ Got # None => /\ Got[1].slot = Here /\ Got[1].id = t[n + 1].id
                          /\ Got[1].born \in seen[Here]
                          /\ \A b \in seen[Here] : b <= Got[1].born
<1>1. IsTable(t)
  BY TableOf
<1>2. /\ TheFile = t[n + 1] /\ n + 1 \in DOMAIN t
      /\ Tail(files) = Rest(t, n + 1, m)
  BY <1>1, NextFile DEF Left, TheFile
<1>3. Here \in Slots
  BY DEF ControlInv, Here
<1>4. seen[Here] \in SUBSET Nat
  BY <1>3 DEF DeviceInv
<1>5. ASSUME Got # None
      PROVE  /\ Got[1].slot = Here /\ Got[1].id = t[n + 1].id
             /\ Got[1].born \in seen[Here]
             /\ \A b \in seen[Here] : b <= Got[1].born
  <2>1. Reads(dev[Here], TheFile) /\ Got = Some(Value(Here, dev[Here], TheFile))
    BY <1>5 DEF Got, Read
  <2>2. dev[Here] # None
    BY <2>1 DEF Reads
  <2>3. /\ Got[1].slot = Here /\ Got[1].id = TheFile.id
        /\ Got[1].born = dev[Here][1].born
    BY <2>1 DEF Some, Value
  <2> QED BY <1>2, <1>3, <2>2, <2>3 DEF DeviceInv, DeviceOK
<1> QED BY <1>2, <1>3, <1>4, <1>5

\* Rows pushed before stay as good.
LEMMA RowKept ==
  ASSUME NEW r, NEW rdr, NEW held, NEW later, RowOK(r, rdr, held),
         \A s \in Slots : held[s] \subseteq later[s]
  PROVE  RowOK(r, rdr, later)
<1>1. PICK t : t = AllFiles(rdr)
  OBVIOUS
<1>2. FilledTo(t, r.fields, Len(t), r.slot, later[r.slot])
  BY <1>1, MoreSeen DEF RowOK
<1> QED BY <1>1, <1>2 DEF RowOK

\* After some files of the device in front.
LEMMA AfterFiles ==
  ASSUME DeviceInv, ControlInv, pc = "file",
         UNCHANGED <<systemVars, reader>>,
         NEW t, t = AllFiles(reader),
         NEW n \in Nat, NEW m \in Nat, NEW k \in Nat, n < k, k <= m, m <= Len(t),
         m \in {Len(FilesOf[reader]), Len(t)},
         Left(t, n, m), After(Rest(t, k, m)),
         Got # None => k = n + 1,
         FilledTo(t, row', k, Here, seen[Here]), InOrder(t, row')
  PROVE  /\ \E i, j \in Nat : CursorAt(i, j)'
         /\ pc' = "sensors" => reader' = "hwmon" /\ Partly(1)'
<1>1. IsTable(t)
  BY TableOf
<1>2. Rest(t, k, m) = <<>> <=> k = m
  BY <1>1, Remaining
<1>3. /\ files' = Rest(t, k, m)
      /\ pc' = "file" <=> Rest(t, k, m) # <<>>
      /\ pc' = "sensors" => /\ reader = "hwmon" /\ Head(files).id = "name"
                            /\ Read(Head(queue), Head(files)) # None
      /\ pc' # "device" => queue' = queue
  BY DEF After
<1>4. reader' = reader /\ seen' = seen
  BY DEF systemVars
<1>5. ASSUME pc' # "device"
      PROVE  Partly(k)'
  <2>1. Here' = Here
    BY <1>3, <1>5 DEF Here
  <2> QED BY <1>4, <2>1 DEF Partly
<1>6. CursorAt(k, m)'
  <2>1. Left(AllFiles(reader), k, m)'
    BY <1>3, <1>4 DEF Left
  <2>2. pc' = "file" => k < m /\ Partly(k)'
    BY <1>2, <1>3, <1>5
  <2> QED BY <1>4, <2>1, <2>2 DEF CursorAt
<1>7. ASSUME pc' = "sensors" PROVE reader' = "hwmon" /\ Partly(1)'
  <2>1. reader = "hwmon" /\ TheFile.id = "name" /\ Got # None
    BY <1>3, <1>7 DEF TheFile, Got, Here
  <2>2. TheFile = t[n + 1] /\ n + 1 \in DOMAIN t
    BY GotIs
  <2>3. t[1].id = "name" /\ 1 \in DOMAIN t
    <3>1. t = AllFiles("hwmon")
      BY <2>1
    <3>2. t[1].id = "name" /\ Len(t) = 5
      BY <3>1, HwmonTable
    <3> QED BY <1>1, <3>2 DEF IsTable
  <2>4. n + 1 = 1
    BY <1>1, <2>1, <2>2, <2>3 DEF IsTable
  <2>5. k = 1
    BY <2>1, <2>4
  <2> QED BY <1>4, <1>5, <1>7, <2>1, <2>5
<1> QED BY <1>6, <1>7

\* Rows that are left alone, or that one is pushed to.
LEMMA RowsKept ==
  ASSUME RowsOK, reader' = reader, \A s \in Slots : seen[s] \subseteq seen'[s],
         rows' = rows \/ (\E r : RowOK(r, reader, seen) /\ rows' = Append(rows, r))
  PROVE  RowsOK'
<1>1. ASSUME NEW r, RowOK(r, reader, seen) PROVE RowOK(r, reader', seen')
  BY <1>1, RowKept
<1>2. rows \in Seq(Range(rows)) /\ \A i \in DOMAIN rows : RowOK(rows[i], reader, seen)
  BY DEF RowsOK
<1>3. CASE rows' = rows
  BY <1>1, <1>2, <1>3 DEF RowsOK
<1>4. CASE \E r : RowOK(r, reader, seen) /\ rows' = Append(rows, r)
  <2>1. PICK r : RowOK(r, reader, seen) /\ rows' = Append(rows, r)
    BY <1>4
  <2>2. PICK v : v = rows'
    OBVIOUS
  <2>3. v \in Seq(Range(v))
    BY <1>2, <2>1, <2>2, PushRow
  <2>4. \A i \in DOMAIN v : v[i] = r \/ (i \in DOMAIN rows /\ v[i] = rows[i])
    BY <1>2, <2>1, <2>2, PushRow
  <2>5. \A i \in DOMAIN v : RowOK(v[i], reader', seen')
    BY <1>1, <1>2, <2>1, <2>4
  <2> QED BY <2>2, <2>3, <2>5 DEF RowsOK
<1> QED BY <1>3, <1>4

\* A file that was read, or that the row can do without.
LEMMA RowReadField ==
  ASSUME ReadInv, ReadField
  PROVE  RowInv'
<1> USE DEF ReadInv
<1>1. PICK t : t = AllFiles(reader)
  OBVIOUS
<1>2. PICK n \in Nat, m \in Nat : CursorAt(n, m)
  BY DEF RowInv
<1>3. /\ pc = "file" /\ After(Tail(files)) /\ UNCHANGED <<systemVars, reader>>
  BY DEF ReadField, Unchanged
<1>4. /\ n < m /\ m <= Len(t) /\ m \in {Len(FilesOf[reader]), Len(t)}
      /\ Left(t, n, m)
      /\ FilledTo(t, row, n, Here, seen[Here]) /\ InOrder(t, row)
  BY <1>1, <1>2, <1>3 DEF CursorAt, Partly
<1>5. /\ IsTable(t) /\ Len(t) \in Nat /\ DOMAIN t = 1..Len(t)
      /\ \A i \in DOMAIN t : t[i].field \in Fields(reader)
  BY <1>1, TableOf
<1>6. /\ TheFile = t[n + 1] /\ n + 1 \in DOMAIN t /\ Tail(files) = Rest(t, n + 1, m)
      /\ Here \in Slots /\ seen[Here] \in SUBSET Nat
  BY <1>1, <1>3, <1>4, GotIs
<1>7. Got # None => /\ Got[1].slot = Here /\ Got[1].id = t[n + 1].id
                    /\ Got[1].born \in seen[Here]
                    /\ \A b \in seen[Here] : b <= Got[1].born
  BY <1>1, <1>3, <1>4, GotIs
<1>8. PICK filled : filled = [row EXCEPT ![t[n + 1].field] = Got]
  OBVIOUS
<1>9. DOMAIN row = Fields(reader) /\ DOMAIN filled = Fields(reader)
  BY <1>8 DEF RowInv
<1>10. FilledTo(t, filled, n + 1, Here, seen[Here]) /\ InOrder(t, filled)
  BY <1>4, <1>5, <1>6, <1>7, <1>8, <1>9, FillKeeps
<1>11. PICK k \in Nat : k = n + 1
  OBVIOUS
<1>15. n < m /\ m <= Len(t) /\ Len(t) \in Nat
  BY <1>4, <1>5
<1>16. n < k /\ k <= m /\ n <= k /\ k <= Len(t)
  BY <1>11, <1>15
<1>12. DOMAIN t \subseteq Nat
  BY <1>5
<1>13. CASE TheFile.last
  <2>1. /\ row' = [f \in Fields(reader) |-> IF f = "source" THEN row[f] ELSE None]
        /\ rows' = Append(rows, [slot |-> Here, fields |-> filled,
                                 fallback |-> Fallback(filled)])
    BY <1>6, <1>8, <1>13 DEF ReadField, Push, Here
  <2>2. PICK r : r = [slot |-> Here, fields |-> filled, fallback |-> Fallback(filled)]
    OBVIOUS
  <2>3. r.slot = Here /\ r.fields = filled
    BY <2>2
  <2>4. FilledTo(t, filled, Len(t), Here, seen[Here])
    BY <1>5, <1>10, <1>11, <1>12, <1>16, MoreFiles
  <2>5. RowOK(r, reader, seen)
    BY <1>1, <1>6, <1>9, <1>10, <2>3, <2>4 DEF RowOK
  <2>6. DOMAIN row' = Fields(reader) /\ \A f \in Fields(reader) : row'[f] \in {None, row[f]}
    BY <2>1
  <2>7. FilledTo(t, row', k, Here, seen[Here]) /\ InOrder(t, row')
    <3>1. /\ DOMAIN row' = DOMAIN row /\ \A f \in DOMAIN row : row'[f] \in {None, row[f]}
          /\ \A i \in DOMAIN t : t[i].field \in DOMAIN row
      BY <1>5, <1>9, <2>6
    <3>2. FilledTo(t, row', n, Here, seen[Here]) /\ InOrder(t, row')
      BY <1>4, <3>1, ClearKeeps
    <3> QED BY <1>12, <1>16, <3>2, MoreFiles
  <2>8. /\ \E i, j \in Nat : CursorAt(i, j)'
        /\ pc' = "sensors" => reader' = "hwmon" /\ Partly(1)'
    BY <1>1, <1>3, <1>4, <1>6, <1>11, <1>16, <2>7, AfterFiles
  <2>9. RowsOK'
    BY <1>3, <2>1, <2>2, <2>5, RowsKept DEF RowInv, systemVars
  <2> QED BY <1>3, <2>6, <2>8, <2>9 DEF RowInv
<1>14. CASE ~TheFile.last
  <2>1. row' = filled /\ rows' = rows
    BY <1>6, <1>8, <1>14 DEF ReadField
  <2>2. /\ \E i, j \in Nat : CursorAt(i, j)'
        /\ pc' = "sensors" => reader' = "hwmon" /\ Partly(1)'
    BY <1>1, <1>3, <1>4, <1>6, <1>10, <1>11, <1>16, <2>1, AfterFiles
  <2>3. RowsOK'
    BY <1>3, <2>1, RowsKept DEF RowInv, systemVars
  <2> QED BY <1>3, <1>9, <2>1, <2>2, <2>3 DEF RowInv
<1> QED BY <1>13, <1>14

\* A file without which there is no row.
LEMMA RowSkipRow ==
  ASSUME ReadInv, SkipRow
  PROVE  RowInv'
<1> USE DEF ReadInv
<1>1. PICK t : t = AllFiles(reader)
  OBVIOUS
<1>2. PICK n \in Nat, m \in Nat : CursorAt(n, m)
  BY DEF RowInv
<1>3. /\ pc = "file" /\ Got = None /\ After(NextRow) /\ row' = row /\ rows' = rows
      /\ UNCHANGED <<systemVars, reader>>
  BY DEF SkipRow, Unchanged
<1>4. /\ n < m /\ m <= Len(t) /\ m \in {Len(FilesOf[reader]), Len(t)}
      /\ Left(t, n, m)
      /\ FilledTo(t, row, n, Here, seen[Here]) /\ InOrder(t, row)
  BY <1>1, <1>2, <1>3 DEF CursorAt, Partly
<1>5. IsTable(t) /\ DOMAIN t \subseteq Nat
  BY <1>1, TableOf
<1>6. PICK k \in Nat : n < k /\ k <= m /\ NextRow = Rest(t, k, m)
  BY <1>4, <1>5, NextRowIs
<1>7. FilledTo(t, row', k, Here, seen[Here]) /\ InOrder(t, row')
  <2>1. n <= k
    BY <1>6
  <2> QED BY <1>3, <1>4, <1>5, <2>1, MoreFiles
<1>8. After(Rest(t, k, m))
  BY <1>3, <1>6
<1>9. /\ \E i, j \in Nat : CursorAt(i, j)'
      /\ pc' = "sensors" => reader' = "hwmon" /\ Partly(1)'
  BY <1>1, <1>3, <1>4, <1>6, <1>7, <1>8, AfterFiles
<1>10. RowsOK'
  BY <1>3, RowsKept DEF RowInv, systemVars
<1> QED BY <1>3, <1>9, <1>10 DEF RowInv

\* The counter of a CPU.
LEMMA RowAddThrottle ==
  ASSUME ReadInv, AddThrottle
  PROVE  RowInv'
<1> USE DEF ReadInv
<1>1. PICK t : t = AllFiles(reader)
  OBVIOUS
<1>2. PICK n \in Nat, m \in Nat : CursorAt(n, m)
  BY DEF RowInv
<1>3. /\ pc = "file" /\ reader = "throttle" /\ After(<<>>) /\ row' = row /\ rows' = rows
      /\ UNCHANGED <<systemVars, reader>>
  BY DEF AddThrottle, Unchanged
<1>4. /\ n < m /\ m <= Len(t) /\ m \in {Len(FilesOf[reader]), Len(t)}
      /\ Left(t, n, m)
      /\ FilledTo(t, row, n, Here, seen[Here]) /\ InOrder(t, row)
  BY <1>1, <1>2, <1>3 DEF CursorAt, Partly
<1>5. /\ IsTable(t) /\ DOMAIN t \subseteq Nat
  BY <1>1, TableOf
<1>6. Len(t) = 1
  <2>1. t = FilesOf["throttle"]
    BY <1>1, <1>3 DEF AllFiles
  <2> QED BY <2>1, ThrottleTable
<1>7. m = n + 1 /\ n <= m
  BY <1>4, <1>6
<1>8. FilledTo(t, row', m, Here, seen[Here]) /\ InOrder(t, row')
  BY <1>3, <1>4, <1>5, <1>7, MoreFiles
<1>9. After(Rest(t, m, m))
  <2>1. Rest(t, m, m) = <<>>
    BY <1>4, <1>5, Remaining
  <2> QED BY <1>3, <2>1
<1>10. /\ \E i, j \in Nat : CursorAt(i, j)'
       /\ pc' = "sensors" => reader' = "hwmon" /\ Partly(1)'
  BY <1>1, <1>3, <1>4, <1>7, <1>8, <1>9, AfterFiles
<1>11. RowsOK'
  BY <1>3, RowsKept DEF RowInv, systemVars
<1> QED BY <1>3, <1>10, <1>11 DEF RowInv

\* An empty row.
LEMMA NothingFilled ==
  ASSUME NEW t, NEW n, NEW r, NEW fields, fields = Empty(r), NEW s, NEW S
  PROVE  /\ DOMAIN fields = Fields(r) /\ FilledTo(t, fields, n, s, S)
         /\ \A i \in DOMAIN t : t[i].field \in Fields(r) => ~Used(t, fields, i)
BY DEF Empty, FilledTo, Used

\* The first file of a device is about to be read.
LEMMA RowOpenDevice ==
  ASSUME ReadInv, OpenDevice
  PROVE  RowInv'
<1> USE DEF ReadInv
<1>1. PICK t : t = AllFiles(reader)
  OBVIOUS
<1>2. PICK m : m = Len(FilesOf[reader])
  OBVIOUS
<1>3. /\ pc' = "file" /\ files' = FilesOf[reader] /\ row' = Empty(reader)
      /\ rows' = rows /\ UNCHANGED <<systemVars, reader>>
  BY DEF OpenDevice, Unchanged
<1>4. /\ IsTable(t) /\ m \in Nat /\ 1 <= m /\ m <= Len(t)
      /\ FilesOf[reader] = Rest(t, 0, m)
      /\ \A i \in DOMAIN t : t[i].field \in Fields(reader)
  BY <1>1, <1>2, TableOf
<1>5. /\ DOMAIN row' = Fields(reader)
      /\ FilledTo(t, row', 0, Here', seen'[Here'])
      /\ \A i \in DOMAIN t : ~Used(t, row', i)
  BY <1>3, <1>4, NothingFilled
<1>6. InOrder(t, row')
  BY <1>5 DEF InOrder
<1>7. Partly(0)'
  BY <1>1, <1>3, <1>5, <1>6 DEF Partly
<1>8. Left(AllFiles(reader), 0, m)'
  BY <1>1, <1>3, <1>4 DEF Left
<1>9. CursorAt(0, m)'
  BY <1>1, <1>2, <1>3, <1>4, <1>7, <1>8 DEF CursorAt
<1>10. RowsOK'
  BY <1>3, RowsKept DEF RowInv, systemVars
<1> QED BY <1>3, <1>4, <1>5, <1>9, <1>10 DEF RowInv

\* The sensors of a known chip are about to be read, or the chip is skipped.
LEMMA RowListSensors ==
  ASSUME ReadInv, ListSensors
  PROVE  RowInv'
<1> USE DEF ReadInv
<1>1. PICK t : t = AllFiles(reader)
  OBVIOUS
<1>2. /\ pc = "sensors" /\ row' = row /\ rows' = rows
      /\ UNCHANGED <<systemVars, reader>>
      /\ \/ pc' = "device" /\ files' = files
         \/ pc' = "file" /\ files' = Sensors /\ queue' = queue
  BY DEF ListSensors, Unchanged
<1>3. RowsOK'
  BY <1>2, RowsKept DEF RowInv, systemVars
<1>4. CASE pc' = "device" /\ files' = files
  <2>1. PICK n \in Nat, m \in Nat : CursorAt(n, m)
    BY DEF RowInv
  <2>2. CursorAt(n, m)'
    BY <1>2, <1>4, <2>1 DEF CursorAt, Left
  <2> QED BY <1>2, <1>3, <1>4, <2>2 DEF RowInv
<1>5. CASE pc' = "file" /\ files' = Sensors /\ queue' = queue
  <2>1. reader = "hwmon" /\ Partly(1)
    BY <1>2 DEF RowInv
  <2>2. Sensors = Rest(t, 1, 5) /\ Len(t) = 5
    BY <1>1, <2>1, HwmonTable DEF Rest
  <2>3. Partly(1)'
    <3>1. Here' = Here /\ reader' = reader /\ seen' = seen
      BY <1>2, <1>5 DEF Here, systemVars
    <3> QED BY <1>2, <2>1, <3>1 DEF Partly
  <2>4. Left(AllFiles(reader), 1, 5)'
    BY <1>1, <1>2, <1>5, <2>2 DEF Left
  <2>5. CursorAt(1, 5)'
    <3>1. AllFiles(reader') = t
      BY <1>1, <1>2
    <3> QED BY <2>2, <2>3, <2>4, <3>1 DEF CursorAt
  <2> QED BY <1>2, <1>3, <1>5, <2>5 DEF RowInv
<1> QED BY <1>2, <1>4, <1>5

\* Between two devices.
LEMMA RowIdle ==
  ASSUME ReadInv, pc' \notin {"file", "sensors"},
         UNCHANGED <<systemVars, reader, files, row, rows>>
  PROVE  RowInv'
<1>1. PICK n \in Nat, m \in Nat : CursorAt(n, m)
  BY DEF ReadInv, RowInv
<1>2. CursorAt(n, m)'
  BY <1>1 DEF CursorAt, Left
<1>3. RowsOK'
  BY RowsKept DEF ReadInv, RowInv, systemVars
<1> QED BY <1>2, <1>3 DEF ReadInv, RowInv

\* Every step of a reader keeps the rows in order.
LEMMA RowProgram ==
  ASSUME ReadInv, Program
  PROVE  RowInv'
<1>1. ASSUME \/ NoParent \/ NoSuchDevice \/ OpenPci \/ ParentExists \/ CheckPolicy
             \/ ListFails \/ ListDevices \/ SkipVanished \/ GiveUp \/ CountCpus
             \/ NoMoreDevices
      PROVE  RowInv'
  <2>1. pc' \notin {"file", "sensors"} /\ UNCHANGED <<systemVars, reader, files, row, rows>>
    BY <1>1 DEF NoParent, NoSuchDevice, OpenPci, ParentExists, CheckPolicy, ListFails,
          ListDevices, SkipVanished, GiveUp, CountCpus, NoMoreDevices, Return, Unchanged
  <2> QED BY <2>1, RowIdle
<1> QED BY <1>1, RowOpenDevice, RowReadField, RowSkipRow, RowListSensors,
           RowAddThrottle DEF Program

\* So does every change of the devices.
LEMMA RowSystem ==
  ASSUME ReadInv, System
  PROVE  RowInv'
<1> USE DEF ReadInv
<1>1. UNCHANGED <<reader, pc, queue, files, row, rows>>
  BY SystemLeaves
<1>2. ASSUME NEW s \in Slots PROVE seen[s] \subseteq seen'[s]
  <2>1. \/ seen' = seen
        \/ \E q \in Slots : seen' = [seen EXCEPT ![q] = @ \union {changes'}]
    BY DEF System, Plug, Unplug, Unload, Configure, Throttle
  <2>2. DOMAIN seen = Slots
    BY DEF DeviceInv
  <2> QED BY <2>1, <2>2
<1>3. ASSUME NEW n, Partly(n), queue # <<>> PROVE Partly(n)'
  <2>1. PICK t : t = AllFiles(reader)
    OBVIOUS
  <2>2. Here \in Slots /\ Here' = Here
    BY <1>1, <1>3 DEF ControlInv, Here
  <2>3. FilledTo(t, row, n, Here, seen[Here]) /\ InOrder(t, row)
    BY <1>3, <2>1 DEF Partly
  <2>4. seen[Here] \subseteq seen'[Here]
    BY <1>2, <2>2
  <2>5. FilledTo(t, row, n, Here, seen'[Here])
    BY <2>3, <2>4, MoreSeen
  <2> QED BY <1>1, <2>1, <2>2, <2>3, <2>5 DEF Partly
<1>4. PICK n \in Nat, m \in Nat : CursorAt(n, m)
  BY DEF RowInv
<1>5. pc \in {"file", "sensors"} => queue # <<>>
  BY DEF ControlInv
<1>6. CursorAt(n, m)'
  BY <1>1, <1>3, <1>4, <1>5 DEF CursorAt, Left
<1>7. pc' = "sensors" => reader' = "hwmon" /\ Partly(1)'
  BY <1>1, <1>3, <1>5 DEF RowInv
<1>8. RowsOK'
  BY <1>1, <1>2, RowsKept DEF RowInv
<1> QED BY <1>1, <1>6, <1>7, <1>8 DEF RowInv

\* Nothing was read when the call begins.
LEMMA ReadInit == Init => ReadInv
<1> SUFFICES ASSUME Init PROVE ReadInv
  OBVIOUS
<1>1. /\ pc = "exists" /\ queue = <<>> /\ files = <<>> /\ row = Empty(reader)
      /\ rows = <<>> /\ result = None
  BY DEF Init
<1>2. DeviceInv
  BY DeviceInit
<1>3. ControlInv
  <2>1. <<>> \in Seq(Slots)
    OBVIOUS
  <2> QED BY <1>1, <2>1 DEF ControlInv, Places, Results
<1>4. PICK t : t = AllFiles(reader)
  OBVIOUS
<1>5. IsTable(t) /\ Len(t) \in Nat
  BY <1>2, <1>4, TableOf
<1>6. Left(t, Len(t), Len(t))
  <2>1. Rest(t, Len(t), Len(t)) = <<>>
    BY <1>5, Remaining
  <2> QED BY <1>1, <2>1 DEF Left
<1>7. CursorAt(Len(t), Len(t))
  BY <1>1, <1>4, <1>5, <1>6 DEF CursorAt
<1>8. DOMAIN row = Fields(reader)
  BY <1>1, NothingFilled
<1>9. RowsOK
  <2>1. rows \in Seq(Range(rows)) /\ DOMAIN rows = {}
    BY <1>1
  <2> QED BY <2>1 DEF RowsOK
<1> QED BY <1>1, <1>2, <1>3, <1>5, <1>7, <1>8, <1>9 DEF ReadInv, RowInv

\* What a reader has read comes from the devices that were there.
THEOREM ReadInvariant == Spec => []ReadInv
<1>1. ASSUME ReadInv, [Next]_vars PROVE ReadInv'
  <2>1. CASE System
    <3>1. DeviceInv' /\ RowInv'
      BY <1>1, <2>1, DeviceSystem, RowSystem DEF ReadInv
    <3>2. UNCHANGED <<pc, queue, result, reader>>
      BY <2>1, SystemLeaves
    <3>3. ControlInv'
      BY <1>1, <3>2 DEF ControlInv, ReadInv
    <3> QED BY <3>1, <3>3 DEF ReadInv
  <2>2. CASE Program
    BY <1>1, <2>2, ProgramReads, DeviceKept, ControlStep, RowProgram DEF ReadInv
  <2>3. CASE UNCHANGED vars
    <3>1. UNCHANGED <<systemVars, reader, pc, queue, files, row, rows, result, before>>
      BY <2>3 DEF vars
    <3>2. DeviceInv'
      BY <1>1, <3>1, DeviceKept DEF ReadInv
    <3>3. ControlInv'
      BY <1>1, <3>1 DEF ControlInv, ReadInv
    <3>4. RowsOK'
      BY <1>1, <3>1, RowsKept DEF ReadInv, RowInv, systemVars
    <3>5. \A n : Partly(n) => Partly(n)'
      BY <3>1 DEF Partly, Here, systemVars
    <3>6. \A n, m \in Nat : CursorAt(n, m) => CursorAt(n, m)'
      BY <3>1, <3>5 DEF CursorAt, Left
    <3> QED BY <1>1, <3>1, <3>2, <3>3, <3>4, <3>5, <3>6 DEF ReadInv, RowInv
  <2> QED BY <1>1, <2>1, <2>2, <2>3 DEF Next
<1> QED BY <1>1, ReadInit, PTL DEF Spec

\* A row never mixes two slots, and a value in it comes from a device that was
\* in the slot during the call; a row of a device that was replaced meanwhile
\* goes over from the old one to the new one once, in the order of the files.
THEOREM NothingInvented == Spec => []RowsNotInvented
<1>1. ASSUME ReadInv PROVE RowsNotInvented
  <2> SUFFICES ASSUME NEW i \in DOMAIN rows
      PROVE  /\ \A f \in Fields(reader) :
                  rows[i].fields[f] # None =>
                    /\ rows[i].fields[f][1].slot = rows[i].slot
                    /\ rows[i].fields[f][1].born \in seen[rows[i].slot]
             /\ \A j, k \in {q \in DOMAIN AllFiles(reader) :
                               /\ rows[i].fields[AllFiles(reader)[q].field] # None
                               /\ rows[i].fields[AllFiles(reader)[q].field][1].id
                                    = AllFiles(reader)[q].id} :
                  j < k => rows[i].fields[AllFiles(reader)[j].field][1].born
                             <= rows[i].fields[AllFiles(reader)[k].field][1].born
    BY DEF RowsNotInvented
  <2>1. PICK t : t = AllFiles(reader)
    OBVIOUS
  <2>2. PICK fields : fields = rows[i].fields
    OBVIOUS
  <2>3. RowOK(rows[i], reader, seen)
    BY <1>1 DEF ReadInv, RowInv, RowsOK
  <2>4. /\ DOMAIN fields = Fields(reader) /\ InOrder(t, fields)
        /\ FilledTo(t, fields, Len(t), rows[i].slot, seen[rows[i].slot])
    BY <2>1, <2>2, <2>3 DEF RowOK
  <2>5. ASSUME NEW f \in Fields(reader), fields[f] # None
        PROVE  /\ fields[f][1].slot = rows[i].slot
               /\ fields[f][1].born \in seen[rows[i].slot]
    BY <2>4, <2>5 DEF FilledTo
  <2>6. ASSUME NEW j \in DOMAIN t, NEW k \in DOMAIN t, j < k,
               Used(t, fields, j), Used(t, fields, k)
        PROVE  fields[t[j].field][1].born <= fields[t[k].field][1].born
    BY <2>4, <2>6 DEF InOrder
  <2> QED BY <2>1, <2>2, <2>5, <2>6 DEF Used
<1> QED BY <1>1, ReadInvariant, PTL

-----------------------------------------------------------------------------
(* Types.                                                                  *)

\* The files still to be read are the end of the list at hand.
LEMMA RestIsSuffix ==
  ASSUME NEW t, IsTable(t), NEW m \in Nat, NEW n \in Nat, n <= m, m <= Len(t)
  PROVE  IsSuffix(Rest(t, n, m), Rest(t, 0, m))
<1>1. PICK d \in Nat : d = m - n
  OBVIOUS
<1>2. PICK u : u = Reverse(Rest(t, n, m))
  OBVIOUS
<1>3. PICK w : w = Reverse(Rest(t, 0, m))
  OBVIOUS
<1>4. Len(Rest(t, n, m)) = d
  BY <1>1, Remaining
<1>5. Len(Rest(t, 0, m)) = m
  <2>1. 0 <= m
    OBVIOUS
  <2>2. Len(Rest(t, 0, m)) = m - 0
    BY <2>1, Remaining
  <2> QED BY <2>2
<1>6. u = [i \in 1..d |-> Rest(t, n, m)[(d - i) + 1]]
  BY <1>2, <1>4 DEF Reverse
<1>7. w = [i \in 1..m |-> Rest(t, 0, m)[(m - i) + 1]]
  BY <1>3, <1>5 DEF Reverse
<1>8. ASSUME NEW i \in 1..d
      PROVE  u[i] = w[i] /\ u[i] \in Range(t)
  <2>1. PICK j \in Nat : j = (d - i) + 1
    BY <1>1
  <2>2. PICK k \in Nat : k = (m - i) + 1
    BY <1>1
  <2>3. j \in 1..(m - n) /\ k \in 1..(m - 0) /\ n + j = k /\ i \in 1..m /\ 0 + k = k
    BY <1>1, <2>1, <2>2
  <2>4. Rest(t, n, m)[j] = t[n + j] /\ n + j \in DOMAIN t
    BY <2>3, Element
  <2>5. Rest(t, 0, m)[k] = t[0 + k]
    <3>1. 0 <= m
      OBVIOUS
    <3> QED BY <2>3, <3>1, Element
  <2>6. u[i] = t[k] /\ k \in DOMAIN t
    BY <1>6, <2>1, <2>3, <2>4
  <2>7. w[i] = t[k]
    BY <1>7, <2>2, <2>3, <2>5
  <2> QED BY <2>6, <2>7 DEF Range
<1>9. Len(u) = d /\ Len(w) = m /\ d <= m
  BY <1>1, <1>6, <1>7
<1>10. d \in Int /\ \A i \in 1..d : u[i] \in Range(t) /\ w[i] \in Range(t)
  BY <1>8
<1>11. PICK x : x = SubSeq(u, 1, d)
  OBVIOUS
<1>12. PICK y : y = SubSeq(w, 1, d)
  OBVIOUS
<1>13. /\ x \in Seq(Range(t)) /\ Len(x) = d /\ \A i \in 1..d : x[i] = u[i]
  <2>1. /\ x \in Seq(Range(t)) /\ Len(x) = IF 1 <= d THEN d - 1 + 1 ELSE 0
        /\ \A i \in 1..(d - 1 + 1) : x[i] = u[1 + i - 1]
    BY <1>10, <1>11, SubSeqProperties
  <2> QED BY <2>1
<1>14. /\ y \in Seq(Range(t)) /\ Len(y) = d /\ \A i \in 1..d : y[i] = w[i]
  <2>1. /\ y \in Seq(Range(t)) /\ Len(y) = IF 1 <= d THEN d - 1 + 1 ELSE 0
        /\ \A i \in 1..(d - 1 + 1) : y[i] = w[1 + i - 1]
    BY <1>10, <1>12, SubSeqProperties
  <2> QED BY <2>1
<1>15. x = y
  BY <1>8, <1>13, <1>14, SeqEqual
<1> QED BY <1>2, <1>3, <1>9, <1>11, <1>12, <1>15 DEF IsSuffix, IsPrefix

\* The counts of the readers that count.
LEMMA TotalStep ==
  ASSUME ReadInv, TotalInv, [Next]_vars
  PROVE  TotalInv'
<1> USE DEF ReadInv
<1>1. IsFiniteSet(Slots) /\ Cardinality(Slots) \in Nat
  BY SlotsAssumption, FS_CardinalityType
<1>2. CASE total' = total /\ reader' = reader
  BY <1>2 DEF TotalInv
<1>3. CASE AddThrottle
  <2>1. /\ reader = "throttle" /\ reader' = reader /\ pc = "file"
        /\ total' = Capped(total + count[Here])
    BY <1>3 DEF AddThrottle, Unchanged
  <2>2. Here \in Slots
    BY <2>1 DEF ControlInv, Here
  <2>3. count[Here] \in 0..Cap /\ total \in 0..Cap /\ Cap \in Nat
    BY <2>1, <2>2, BoundsAssumption DEF DeviceInv, TotalInv
  <2>4. total' \in 0..Cap
    BY <2>1, <2>3 DEF Capped
  <2> QED BY <2>1, <2>4 DEF TotalInv
<1>4. CASE CountCpus
  <2>1. /\ reader = "cpufreq" /\ reader' = reader
        /\ total' = 0 \/ total' \in Cardinality(Listed)..Cardinality(Slots)
    BY <1>4 DEF CountCpus, Return, ControlInv
  <2>2. Listed \subseteq Slots
    BY DEF Listed
  <2>3. /\ Cardinality(Listed) \in Nat /\ Cardinality(Slots) \in Nat
        /\ Cardinality(Listed) <= Cardinality(Slots)
    BY <1>1, <2>2, SlotsAssumption, FS_Subset, FS_CardinalityType
  <2> QED BY <1>1, <2>1, <2>3 DEF TotalInv
<1>5. [Next]_vars => \/ total' = total /\ reader' = reader
                     \/ AddThrottle \/ CountCpus
  <2>1. System => total' = total /\ reader' = reader
    BY SystemLeaves
  <2>2. Program => \/ total' = total /\ reader' = reader
                   \/ AddThrottle \/ CountCpus
    BY DEF Program, NoParent, NoSuchDevice, OpenPci, ParentExists, CheckPolicy,
           ListFails, ListDevices, SkipVanished, OpenDevice, ReadField, SkipRow,
           GiveUp, ListSensors, NoMoreDevices, Return, Unchanged
  <2> QED BY <2>1, <2>2 DEF Next, vars
<1> QED BY <1>2, <1>3, <1>4, <1>5

\* The type invariant.
THEOREM TypeCorrect == Spec => []TypeOK
<1>1. Init => TotalInv
  <2>1. Cardinality(Slots) \in Nat /\ Cap \in Nat
    BY SlotsAssumption, BoundsAssumption, FS_CardinalityType
  <2> QED BY <2>1 DEF Init, TotalInv
<1>2. ASSUME ReadInv, TotalInv PROVE TypeOK
  <2> USE <1>2 DEF ReadInv
  <2>1. PICK t : t = AllFiles(reader)
    OBVIOUS
  <2>2. PICK n \in Nat, m \in Nat : CursorAt(n, m)
    BY DEF RowInv
  <2>3. /\ IsTable(t) /\ Len(t) \in Nat /\ Len(FilesOf[reader]) \in Nat
        /\ FilesOf[reader] = Rest(t, 0, Len(FilesOf[reader]))
        /\ \A i \in DOMAIN t : t[i].id \in Ids(reader)
    BY <2>1, TableOf
  <2>4. /\ n <= m /\ m <= Len(t) /\ m \in {Len(FilesOf[reader]), Len(t)}
        /\ files = Rest(t, n, m)
    BY <2>1, <2>2 DEF CursorAt, Left
  <2>5. IsSuffix(files, Rest(t, 0, m))
    BY <2>3, <2>4, RestIsSuffix
  <2>6. IsSuffix(files, AllFiles(reader)) \/ IsSuffix(files, FilesOf[reader])
    <3>1. CASE m = Len(FilesOf[reader])
      BY <2>3, <2>5, <3>1
    <3>2. CASE m = Len(t)
      <4>1. t = SubSeq(t, 1, Len(t))
        BY <2>3, SubSeqFull DEF IsTable
      <4>2. 0 + 1 = 1
        OBVIOUS
      <4>3. Rest(t, 0, Len(t)) = SubSeq(t, 1, Len(t))
        BY <4>2 DEF Rest
      <4> QED BY <2>1, <2>5, <3>2, <4>1, <4>3
    <3> QED BY <2>4, <3>1, <3>2
  <2>7. ASSUME NEW f \in Fields(reader), pc = "file", row[f] # None
        PROVE  row[f][1].slot = Head(queue) /\ row[f][1].id \in Ids(reader)
    <3>1. FilledTo(t, row, n, Here, seen[Here]) /\ DOMAIN row = Fields(reader)
      BY <2>1, <2>2, <2>7 DEF CursorAt, Partly, RowInv
    <3>2. PICK q \in DOMAIN t : t[q].id = row[f][1].id
      BY <2>7, <3>1 DEF FilledTo
    <3>3. row[f][1].slot = Here
      BY <2>7, <3>1 DEF FilledTo
    <3> QED BY <2>3, <3>2, <3>3 DEF Here
  <2>8. ASSUME NEW s \in Slots
        PROVE  /\ dev[s] # None =>
                    parent /\ dev[s][1] \in Device(reader, dev[s][1].born)
               /\ dev[s] # None => dev[s][1].born \in seen[s]
               /\ {before[s], count[s]} \subseteq 0..Cap /\ seen[s] \subseteq 0..MaxChanges
    <3>1. seen[s] \subseteq 0..changes /\ changes \in Nat /\ changes <= MaxChanges
      BY DEF DeviceInv
    <3>2. 0..changes \subseteq 0..MaxChanges
      BY <3>1, BoundsAssumption
    <3>3. before[s] \in 0..Cap /\ count[s] \in 0..Cap
      BY DEF DeviceInv
    <3> QED BY <3>1, <3>2, <3>3 DEF DeviceInv, DeviceOK
  <2>9. parent \in BOOLEAN /\ readable \in BOOLEAN /\ changes \in 0..MaxChanges /\ reader \in Readers
    BY BoundsAssumption DEF DeviceInv
  <2>10. /\ pc \in {"exists", "policy", "list", "device", "sensors", "file", "count", "done"}
         /\ queue \in Seq(Slots) /\ touched \subseteq Slots
         /\ result \in {None, Some("ok"), Some("notfound"), Some("err")}
         /\ result # None <=> pc = "done"
    BY DEF DeviceInv, ControlInv, Places, Results
  <2> QED BY <2>6, <2>7, <2>8, <2>9, <2>10 DEF TypeOK, TotalInv
<1> QED BY <1>1, <1>2, ReadInvariant, TotalStep, PTL DEF Spec

-----------------------------------------------------------------------------
(* Sums.                                                                   *)

\* The sum of f over S.
SumOver(f, S) == MapThenSumSet(LAMBDA s : f[s], S)

\* The element of T that the fold takes first, and the rest.
First(T) == CHOOSE x \in T : TRUE
Others(T) == T \ {First(T)}

\* g holds what the fold computes for each of the sets in W.
SumsOf(f, W, g) ==
  g = [T \in W |-> IF T = {} THEN 0 ELSE f[First(T)] + g[Others(T)]]

\* A set without one of its elements is smaller.
LEMMA Fewer ==
  ASSUME NEW T, IsFiniteSet(T), NEW x \in T
  PROVE  /\ IsFiniteSet(T \ {x}) /\ Cardinality(T \ {x}) \in Nat
         /\ Cardinality(T) \in Nat /\ Cardinality(T \ {x}) < Cardinality(T)
<1>1. IsFiniteSet(T \ {x}) /\ Cardinality(T \ {x}) = Cardinality(T) - 1
  BY FS_RemoveElement
<1>2. Cardinality(T) \in Nat /\ Cardinality(T \ {x}) \in Nat
  BY <1>1, FS_CardinalityType
<1> QED BY <1>1, <1>2

\* The fold is defined for every part of a finite set.
LEMMA SumsExist ==
  ASSUME NEW f, NEW S, IsFiniteSet(S)
  PROVE  \E g : SumsOf(f, SUBSET S, g)
<1> DEFINE Small(n) == {T \in SUBSET S : Cardinality(T) <= n}
           Bad == {n \in Nat : ~ \E g : SumsOf(f, Small(n), g)}
<1>1. \A T \in SUBSET S : IsFiniteSet(T) /\ Cardinality(T) \in Nat
  BY FS_Subset, FS_CardinalityType
<1>2. \A T \in SUBSET S : T # {} =>
        Others(T) \in SUBSET S /\ Cardinality(Others(T)) < Cardinality(T)
  <2> SUFFICES ASSUME NEW T \in SUBSET S, T # {}
               PROVE  Others(T) \in SUBSET S /\ Cardinality(Others(T)) < Cardinality(T)
    OBVIOUS
  <2>1. First(T) \in T
    BY DEF First
  <2> QED BY <1>1, <2>1, Fewer DEF Others
<1>3. Bad = {}
  <2> SUFFICES ASSUME Bad # {} PROVE FALSE
    OBVIOUS
  <2>1. PICK n \in Bad : \A k \in Bad : n <= k
    <3>1. Bad \in SUBSET Nat
      OBVIOUS
    <3> HIDE DEF Bad
    <3> QED BY <3>1, LeastOf
  <2>2. n \in Nat /\ ~ \E g : SumsOf(f, Small(n), g)
    OBVIOUS
  <2>3. PICK g : \A T \in Small(n) : T # {} =>
           g[Others(T)] = IF Others(T) = {} THEN 0
                          ELSE f[First(Others(T))] + g[Others(Others(T))]
    <3>1. CASE n = 0
      <4>1. \A T \in Small(n) : T = {}
        <5> SUFFICES ASSUME NEW T \in Small(n), T # {} PROVE FALSE
          OBVIOUS
        <5>1. Cardinality(Others(T)) < Cardinality(T) /\ Others(T) \in SUBSET S
          BY <1>2
        <5>2. Cardinality(Others(T)) \in Nat /\ Cardinality(T) \in Nat /\ Cardinality(T) <= 0
          BY <1>1, <3>1, <5>1
        <5> QED BY <5>1, <5>2
      <4> QED BY <4>1, Zenon
    <3>2. CASE n # 0
      <4>1. PICK k \in Nat : n = k + 1
        BY <2>2, <3>2
      <4>2. k \notin Bad
        <5>1. ~(n <= k)
          BY <4>1
        <5> HIDE DEF Bad
        <5> QED BY <2>1, <5>1
      <4>3. PICK g : SumsOf(f, Small(k), g)
        BY <4>2
      <4>4. ASSUME NEW T \in Small(n), T # {}
            PROVE  Others(T) \in Small(k)
        <5>1. Cardinality(Others(T)) < Cardinality(T) /\ Others(T) \in SUBSET S
          BY <1>2, <4>4
        <5>2. Cardinality(Others(T)) \in Nat /\ Cardinality(T) \in Nat /\ Cardinality(T) <= n
          BY <1>1, <4>4, <5>1
        <5> QED BY <4>1, <5>1, <5>2
      <4>5. \A U \in Small(k) :
              g[U] = IF U = {} THEN 0 ELSE f[First(U)] + g[Others(U)]
        <5> HIDE DEF Small
        <5> QED BY <4>3 DEF SumsOf
      <4> QED BY <4>4, <4>5, Zenon
    <3> QED BY <3>1, <3>2
  <2>4. PICK h : h = [T \in Small(n) |->
                        IF T = {} THEN 0 ELSE f[First(T)] + g[Others(T)]]
    OBVIOUS
  <2>5. ASSUME NEW T \in Small(n), T # {}
        PROVE  h[Others(T)] = g[Others(T)]
    <3>1. Others(T) \in Small(n)
      <4>1. Cardinality(Others(T)) < Cardinality(T) /\ Others(T) \in SUBSET S
        BY <1>2, <2>5
      <4>2. Cardinality(Others(T)) \in Nat /\ Cardinality(T) \in Nat /\ Cardinality(T) <= n
        BY <1>1, <2>5, <4>1
      <4> QED BY <2>2, <4>1, <4>2
    <3> HIDE DEF Small
    <3> QED BY <2>3, <2>4, <2>5, <3>1
  <2>6. SumsOf(f, Small(n), h)
    <3> HIDE DEF Small
    <3>1. \A T \in Small(n) : (IF T = {} THEN 0 ELSE f[First(T)] + g[Others(T)])
             = (IF T = {} THEN 0 ELSE f[First(T)] + h[Others(T)])
      BY <2>5
    <3> QED BY <2>4, <3>1 DEF SumsOf
  <2> QED BY <2>2, <2>6
<1>4. Cardinality(S) \in Nat
  BY FS_CardinalityType
<1>5. Small(Cardinality(S)) = SUBSET S
  BY FS_Subset
<1>6. \E g : SumsOf(f, Small(Cardinality(S)), g)
  BY <1>3, <1>4
<1> QED BY <1>5, <1>6

\* The sum is what the fold computes for the whole set.
LEMMA SumIsFold ==
  ASSUME NEW f, NEW S, IsFiniteSet(S)
  PROVE  \E g : SumsOf(f, SUBSET S, g) /\ SumOver(f, S) = g[S]
<1>1. \E g : SumsOf(f, SUBSET S, g)
  BY SumsExist
<1> QED BY <1>1 DEF SumsOf, SumOver, MapThenSumSet, MapThenFoldSet, First, Others

\* It does not matter of which larger set it is a part.
LEMMA SumsAgree ==
  ASSUME NEW f, NEW S, IsFiniteSet(S), NEW R \in SUBSET S, NEW g, NEW h,
         SumsOf(f, SUBSET S, g), SumsOf(f, SUBSET R, h)
  PROVE  g[R] = h[R]
<1> DEFINE Bad == {n \in Nat : \E T \in SUBSET R : Cardinality(T) = n /\ g[T] # h[T]}
<1>1. ASSUME NEW T \in SUBSET R
      PROVE  /\ IsFiniteSet(T) /\ Cardinality(T) \in Nat
             /\ g[T] = IF T = {} THEN 0 ELSE f[First(T)] + g[Others(T)]
             /\ h[T] = IF T = {} THEN 0 ELSE f[First(T)] + h[Others(T)]
  <2>1. IsFiniteSet(T) /\ Cardinality(T) \in Nat /\ T \in SUBSET S
    BY FS_Subset, FS_CardinalityType
  <2>2. g[T] = IF T = {} THEN 0 ELSE f[First(T)] + g[Others(T)]
    BY <2>1 DEF SumsOf
  <2>3. h[T] = IF T = {} THEN 0 ELSE f[First(T)] + h[Others(T)]
    BY DEF SumsOf
  <2> QED BY <2>1, <2>2, <2>3
<1>2. Bad = {}
  <2> SUFFICES ASSUME Bad # {} PROVE FALSE
    OBVIOUS
  <2>1. PICK n \in Bad : \A k \in Bad : n <= k
    <3>1. Bad \in SUBSET Nat
      OBVIOUS
    <3> HIDE DEF Bad
    <3> QED BY <3>1, LeastOf
  <2>2. PICK T \in SUBSET R : Cardinality(T) = n /\ g[T] # h[T]
    OBVIOUS
  <2>3. T # {} /\ g[Others(T)] # h[Others(T)]
    BY <1>1, <2>2
  <2>4. First(T) \in T
    BY <2>3 DEF First
  <2>5. /\ Others(T) \in SUBSET R /\ Cardinality(Others(T)) \in Nat
        /\ Cardinality(Others(T)) < Cardinality(T) /\ Cardinality(T) \in Nat
    BY <1>1, <2>4, Fewer DEF Others
  <2>6. Cardinality(Others(T)) \in Bad
    BY <2>3, <2>5
  <2> QED BY <2>1, <2>2, <2>5, <2>6
<1>3. R \in SUBSET R /\ Cardinality(R) \in Nat
  BY <1>1
<1> QED BY <1>2, <1>3

\* Nothing is added up.
LEMMA SumEmpty == ASSUME NEW f PROVE SumOver(f, {}) = 0
<1>1. IsFiniteSet({})
  BY FS_EmptySet
<1>2. PICK g : SumsOf(f, SUBSET {}, g) /\ SumOver(f, {}) = g[{}]
  BY <1>1, SumIsFold
<1>3. {} \in SUBSET {}
  OBVIOUS
<1> QED BY <1>2, <1>3 DEF SumsOf

\* The first element and the sum of the others.
LEMMA SumFirst ==
  ASSUME NEW f, NEW S, IsFiniteSet(S), S # {}
  PROVE  /\ First(S) \in S
         /\ SumOver(f, S) = f[First(S)] + SumOver(f, Others(S))
<1>1. First(S) \in S
  BY DEF First
<1>2. IsFiniteSet(Others(S)) /\ Others(S) \in SUBSET S
  BY <1>1, Fewer DEF Others
<1>3. PICK g : SumsOf(f, SUBSET S, g) /\ SumOver(f, S) = g[S]
  BY SumIsFold
<1>4. PICK h : SumsOf(f, SUBSET Others(S), h) /\ SumOver(f, Others(S)) = h[Others(S)]
  BY <1>2, SumIsFold
<1>5. g[Others(S)] = h[Others(S)]
  BY <1>2, <1>3, <1>4, SumsAgree
<1>6. S \in SUBSET S
  OBVIOUS
<1>7. g[S] = f[First(S)] + g[Others(S)]
  BY <1>3, <1>6 DEF SumsOf
<1> QED BY <1>1, <1>3, <1>4, <1>5, <1>7

\* Any element and the sum of the others, which is a number.
LEMMA SumRemove ==
  ASSUME NEW f, NEW S, IsFiniteSet(S), \A s \in S : f[s] \in Nat
  PROVE  /\ SumOver(f, S) \in Nat
         /\ \A x \in S : SumOver(f, S) = f[x] + SumOver(f, S \ {x})
<1> DEFINE Good(T) == /\ SumOver(f, T) \in Nat
                      /\ \A x \in T : SumOver(f, T) = f[x] + SumOver(f, T \ {x})
           Bad == {n \in Nat : \E T \in SUBSET S : Cardinality(T) = n /\ ~Good(T)}
<1>1. Bad = {}
  <2> SUFFICES ASSUME Bad # {} PROVE FALSE
    OBVIOUS
  <2>1. PICK n \in Bad : \A k \in Bad : n <= k
    <3>1. Bad \in SUBSET Nat
      OBVIOUS
    <3> HIDE DEF Bad
    <3> QED BY <3>1, LeastOf
  <2>2. PICK T \in SUBSET S : Cardinality(T) = n /\ ~Good(T)
    OBVIOUS
  <2>3. IsFiniteSet(T)
    BY FS_Subset
  <2>4. T # {}
    <3>1. T = {} => Good(T)
      BY SumEmpty
    <3> QED BY <2>2, <3>1
  <2>5. ASSUME NEW x \in T PROVE Good(T \ {x})
    <3>1. /\ T \ {x} \in SUBSET S /\ Cardinality(T \ {x}) \in Nat
          /\ Cardinality(T) \in Nat /\ Cardinality(T \ {x}) < Cardinality(T)
      BY <2>3, Fewer
    <3>2. Cardinality(T \ {x}) \notin Bad
      <4>1. ~(n <= Cardinality(T \ {x}))
        BY <2>2, <3>1
      <4> HIDE DEF Bad
      <4> QED BY <2>1, <4>1
    <3> HIDE DEF Good
    <3> QED BY <3>1, <3>2
  <2>6. PICK y : y = First(T)
    OBVIOUS
  <2>7. y \in T /\ SumOver(f, T) = f[y] + SumOver(f, T \ {y})
    BY <2>3, <2>4, <2>6, SumFirst DEF Others
  <2>8. f[y] \in Nat /\ SumOver(f, T \ {y}) \in Nat
    BY <2>5, <2>7
  <2>9. ASSUME NEW x \in T PROVE SumOver(f, T) = f[x] + SumOver(f, T \ {x})
    <3>1. CASE x = y
      BY <2>7, <3>1
    <3>2. CASE x # y
      <4>1. x \in T \ {y} /\ y \in T \ {x}
        BY <2>7, <3>2
      <4>2. SumOver(f, T \ {y}) = f[x] + SumOver(f, (T \ {y}) \ {x})
        BY <2>5, <2>7, <4>1
      <4>3. SumOver(f, T \ {x}) = f[y] + SumOver(f, (T \ {x}) \ {y})
        BY <2>5, <4>1
      <4>4. PICK R : R = (T \ {x}) \ {y}
        OBVIOUS
      <4>5. R = (T \ {y}) \ {x}
        BY <4>4
      <4>6. SumOver(f, R) \in Nat
        <5>1. IsFiniteSet(T \ {x})
          BY <2>3, FS_Subset
        <5>2. R = T \ {x, y} /\ R \in SUBSET S
          BY <4>4
        <5>3. IsFiniteSet(R)
          BY <4>4, <5>1, FS_Subset
        <5>4. Cardinality(R) \in Nat /\ Cardinality(T) \in Nat /\ Cardinality(R) < Cardinality(T)
          <6>1. Cardinality(T \ {x}) \in Nat /\ Cardinality(T) \in Nat
                /\ Cardinality(T \ {x}) < Cardinality(T)
            BY <2>3, Fewer
          <6>2. Cardinality(R) \in Nat /\ Cardinality(R) < Cardinality(T \ {x})
            BY <4>1, <4>4, <5>1, Fewer
          <6> QED BY <6>1, <6>2
        <5>5. Cardinality(R) \notin Bad
          <6>1. ~(n <= Cardinality(R))
            BY <2>2, <5>4
          <6> HIDE DEF Bad
          <6> QED BY <2>1, <6>1
        <5>6. Good(R)
          <6> HIDE DEF Good
          <6> QED BY <5>2, <5>4, <5>5
        <5> QED BY <5>6
      <4>7. f[x] \in Nat
        OBVIOUS
      <4>8. PICK a, b, c, d, e :
              /\ a = SumOver(f, T) /\ b = SumOver(f, T \ {y}) /\ c = SumOver(f, T \ {x})
              /\ d = SumOver(f, R) /\ e = f[x]
        OBVIOUS
      <4>9. a = f[y] + b /\ b = e + d /\ c = f[y] + d
        BY <2>7, <4>2, <4>3, <4>4, <4>5, <4>8
      <4>10. f[y] \in Nat /\ d \in Nat /\ e \in Nat
        BY <2>8, <4>6, <4>7, <4>8
      <4>11. a = e + c
        BY <4>9, <4>10
      <4> QED BY <4>8, <4>11
    <3> QED BY <3>1, <3>2
  <2>10. Good(T)
    BY <2>7, <2>8, <2>9
  <2> QED BY <2>2, <2>10
<1>2. S \in SUBSET S /\ Cardinality(S) \in Nat
  BY FS_CardinalityType
<1>3. Good(S)
  <2> HIDE DEF Good
  <2> QED BY <1>1, <1>2
<1> QED BY <1>3

\* One more element.
LEMMA SumInsert ==
  ASSUME NEW f, NEW S, IsFiniteSet(S), \A s \in S : f[s] \in Nat,
         NEW x, x \notin S, f[x] \in Nat
  PROVE  SumOver(f, S \union {x}) = f[x] + SumOver(f, S)
<1>1. IsFiniteSet(S \union {x})
  BY FS_AddElement
<1>2. (S \union {x}) \ {x} = S
  OBVIOUS
<1>3. SumOver(f, S \union {x}) = f[x] + SumOver(f, (S \union {x}) \ {x})
  BY <1>1, SumRemove
<1> QED BY <1>2, <1>3

\* A sum of less, and of fewer, is not larger.
LEMMA SumGrows ==
  ASSUME NEW f, NEW g, NEW S, IsFiniteSet(S), NEW R \in SUBSET S,
         \A s \in S : f[s] \in Nat /\ g[s] \in Nat,
         \A s \in R : f[s] <= g[s]
  PROVE  SumOver(f, R) <= SumOver(g, S)
<1> DEFINE Bad == {n \in Nat : \E T \in SUBSET R, U \in SUBSET S :
                     /\ T \subseteq U /\ Cardinality(T) = n
                     /\ ~(SumOver(f, T) <= SumOver(g, U))}
<1>1. Bad = {}
  <2> SUFFICES ASSUME Bad # {} PROVE FALSE
    OBVIOUS
  <2>1. PICK n \in Bad : \A k \in Bad : n <= k
    <3>1. Bad \in SUBSET Nat
      OBVIOUS
    <3> HIDE DEF Bad
    <3> QED BY <3>1, LeastOf
  <2>2. PICK T \in SUBSET R, U \in SUBSET S :
          T \subseteq U /\ Cardinality(T) = n /\ ~(SumOver(f, T) <= SumOver(g, U))
    OBVIOUS
  <2>3. IsFiniteSet(T) /\ IsFiniteSet(U)
    BY FS_Subset
  <2>4. SumOver(g, U) \in Nat /\ \A x \in U : SumOver(g, U) = g[x] + SumOver(g, U \ {x})
    BY <2>3, SumRemove
  <2>5. SumOver(f, T) \in Nat /\ \A x \in T : SumOver(f, T) = f[x] + SumOver(f, T \ {x})
    BY <2>3, SumRemove
  <2>6. T # {}
    <3>1. T = {} => SumOver(f, T) = 0
      BY SumEmpty
    <3> QED BY <2>2, <2>4, <3>1
  <2>7. PICK x \in T : TRUE
    BY <2>6
  <2>8. PICK V, W : V = T \ {x} /\ W = U \ {x}
    OBVIOUS
  <2>9. SumOver(f, V) \in Nat /\ SumOver(g, W) \in Nat
    <3>1. IsFiniteSet(V) /\ IsFiniteSet(W) /\ V \in SUBSET S /\ W \in SUBSET S
      BY <2>3, <2>8, FS_Subset
    <3> QED BY <3>1, SumRemove
  <2>10. SumOver(f, V) <= SumOver(g, W)
    <3>1. /\ V \in SUBSET R /\ W \in SUBSET S /\ V \subseteq W
      BY <2>2, <2>8
    <3>2. /\ Cardinality(V) \in Nat /\ Cardinality(T) \in Nat
          /\ Cardinality(V) < Cardinality(T)
      BY <2>3, <2>8, Fewer
    <3>3. Cardinality(V) \notin Bad
      <4>1. ~(n <= Cardinality(V))
        BY <2>2, <3>2
      <4> HIDE DEF Bad
      <4> QED BY <2>1, <4>1
    <3> QED BY <3>1, <3>2, <3>3
  <2>11. f[x] <= g[x] /\ f[x] \in Nat /\ g[x] \in Nat
    OBVIOUS
  <2>12. SumOver(f, T) = f[x] + SumOver(f, V) /\ SumOver(g, U) = g[x] + SumOver(g, W)
    BY <2>2, <2>4, <2>5, <2>8
  <2>13. SumOver(f, T) <= SumOver(g, U)
    BY <2>9, <2>10, <2>11, <2>12
  <2> QED BY <2>2, <2>13
<1>2. /\ R \in SUBSET R /\ S \in SUBSET S /\ Cardinality(R) \in Nat
  BY FS_Subset, FS_CardinalityType
<1> QED BY <1>1, <1>2

-----------------------------------------------------------------------------
(* The list of a directory.                                                *)

\* It names every device that is there, once.
LEMMA ListIsComplete ==
  ASSUME NEW q \in SetToSeqs(Listed)
  PROVE  /\ q \in Seq(Slots)
         /\ \A i, j \in DOMAIN q : q[i] = q[j] => i = j
         /\ \A s \in Listed : \E i \in DOMAIN q : q[i] = s
         /\ \A i \in DOMAIN q : q[i] \in Listed
<1>1. IsFiniteSet(Listed)
  BY SlotsAssumption, FS_Subset DEF Listed
<1>2. PICK c \in Nat : c = Cardinality(Listed)
  BY <1>1, FS_CardinalityType
<1>3. q \in [1..c -> Listed] /\ \A i, j \in 1..c : i # j => q[i] # q[j]
  BY <1>2 DEF SetToSeqs
<1>4. q \in Injection(1..c, Listed)
  BY <1>3 DEF Injection, IsInjective
<1>5. IsFiniteSet(1..c) /\ Cardinality(1..c) = c
  <2>1. /\ IsFiniteSet(1..c)
        /\ Cardinality(1..c) = IF 1 > c THEN 0 ELSE c - 1 + 1
    BY FS_Interval
  <2> QED BY <2>1
<1>6. q \in Surjection(1..c, Listed)
  BY <1>1, <1>2, <1>4, <1>5, FS_Injection
<1>7. \A s \in Listed : \E i \in 1..c : q[i] = s
  BY <1>6 DEF Surjection
<1>8. DOMAIN q = 1..c
  BY <1>3
<1>9. q \in Seq(Slots)
  BY ListedSlots
<1> QED BY <1>3, <1>7, <1>8, <1>9

\* The rest of the queue.
LEMMA QueueTail ==
  ASSUME queue \in Seq(Slots), queue # <<>>
  PROVE  /\ Here \in Slots /\ 1 \in DOMAIN queue /\ queue[1] = Here
         /\ Tail(queue) \in Seq(Slots)
         /\ \A i \in DOMAIN Tail(queue) :
              i + 1 \in DOMAIN queue /\ Tail(queue)[i] = queue[i + 1]
         /\ \A i \in DOMAIN queue : i # 1 =>
              \E j \in DOMAIN Tail(queue) : i = j + 1 /\ Tail(queue)[j] = queue[i]
<1>1. /\ Len(queue) \in Nat /\ DOMAIN queue = 1..Len(queue) /\ Len(queue) >= 1
  BY EmptySeq
<1>2. /\ Tail(queue) \in Seq(Slots) /\ Len(Tail(queue)) = Len(queue) - 1
      /\ \A i \in 1..(Len(queue) - 1) : Tail(queue)[i] = queue[i + 1]
  BY <1>1, HeadTailProperties
<1>3. DOMAIN Tail(queue) = 1..(Len(queue) - 1)
  BY <1>2
<1>4. ASSUME NEW i \in DOMAIN queue, i # 1
      PROVE  \E j \in DOMAIN Tail(queue) : i = j + 1 /\ Tail(queue)[j] = queue[i]
  <2>1. PICK n \in Nat : n = Len(queue)
    BY <1>1
  <2>2. i \in 2..n
    BY <1>1, <1>4, <2>1
  <2>3. PICK j : j = i - 1
    OBVIOUS
  <2>4. i = j + 1 /\ j \in 1..(Len(queue) - 1)
    BY <2>1, <2>2, <2>3
  <2> QED BY <1>2, <1>3, <2>4
<1> QED BY <1>1, <1>2, <1>3, <1>4 DEF Here

-----------------------------------------------------------------------------
(* What is left alone.                                                     *)

\* The slots that have a device and were not touched.
Steady == {s \in Slots \ touched : dev[s] # None}

\* A slot that is still untouched after a step of the system has the device
\* it had.
LEMMA SystemSteady ==
  ASSUME DeviceInv, System
  PROVE  /\ Steady' \subseteq Steady
         /\ \A s \in Steady' : dev'[s] = dev[s]
         /\ touched \subseteq touched'
<1> USE DEF DeviceInv
<1>1. ASSUME NEW S \in SUBSET Slots, Change(S), \A s \in Slots \ S : dev'[s] = dev[s]
      PROVE  /\ Steady' \subseteq Steady
             /\ \A s \in Steady' : dev'[s] = dev[s]
             /\ touched \subseteq touched'
  BY <1>1 DEF Change, Steady
<1>2. ASSUME NEW s \in Slots, Plug(s) \/ Unplug(s) \/ Configure(s)
      PROVE  Change({s}) /\ \A q \in Slots \ {s} : dev'[q] = dev[q]
  BY <1>2 DEF Plug, Unplug, Configure
<1>3. ASSUME NEW s \in Slots, Throttle(s)
      PROVE  Change({}) /\ \A q \in Slots : dev'[q] = dev[q]
  BY <1>3 DEF Throttle
<1>4. Unload => Change(Slots)
  BY DEF Unload
<1>5. CASE \E s \in Slots : Plug(s) \/ Unplug(s) \/ Configure(s)
  <2>1. PICK s \in Slots : Plug(s) \/ Unplug(s) \/ Configure(s)
    BY <1>5
  <2>2. Change({s}) /\ \A q \in Slots \ {s} : dev'[q] = dev[q]
    BY <1>2, <2>1
  <2>3. {s} \in SUBSET Slots
    OBVIOUS
  <2> QED BY <1>1, <2>2, <2>3
<1>6. CASE \E s \in Slots : Throttle(s)
  <2>1. PICK s \in Slots : Throttle(s)
    BY <1>6
  <2>2. Change({}) /\ \A q \in Slots : dev'[q] = dev[q]
    BY <1>3, <2>1
  <2> QED BY <1>1, <2>2
<1>7. CASE Unload
  BY <1>1, <1>4, <1>7
<1> QED BY <1>5, <1>6, <1>7 DEF System

-----------------------------------------------------------------------------
(* The throttle counters.                                                  *)

\* The CPUs whose counter can be read all the time.
Sound == {s \in Steady : readable /\ dev[s][1].odd = {}}

\* D are the CPUs that were visited.
Counted(D) ==
  /\ Capped(SumOver(before, D \intersect Sound)) <= total
  /\ total <= Capped(SumOver(count, D))
  /\ \A s \in Sound : s \in D \/ \E i \in DOMAIN queue : queue[i] = s
  /\ \A i \in DOMAIN queue : queue[i] \notin D

ThrottleInv ==
  reader = "throttle" =>
    /\ total \in 0..Cap
    /\ \A s \in Slots : before[s] <= count[s]
    /\ \A i, j \in DOMAIN queue : queue[i] = queue[j] => i = j
    /\ pc \in {"exists", "list"} => queue = <<>> /\ total = 0
    /\ pc \in {"device", "file", "done"} => \E D \in SUBSET Slots : Counted(D)
    /\ pc = "done" => queue = <<>>

\* Adding up to the largest value keeps the order.
LEMMA CappedOrder ==
  ASSUME NEW a \in Nat, NEW b \in Nat, a <= b
  PROVE  Capped(a) <= Capped(b) /\ Capped(a) \in 0..Cap
BY BoundsAssumption DEF Capped

\* Adding the same to both sides does, too.
LEMMA CappedSum ==
  ASSUME NEW a \in Nat, NEW b \in Nat, NEW c \in Nat, NEW d \in Nat, NEW t \in 0..Cap
  PROVE  /\ t <= Capped(a) => Capped(t + c) <= Capped(c + a)
         /\ Capped(b) <= t /\ d <= c => Capped(d + b) <= Capped(t + c)
BY BoundsAssumption DEF Capped

\* The sums are numbers.
LEMMA Sums ==
  ASSUME DeviceInv, NEW D \in SUBSET Slots
  PROVE  /\ IsFiniteSet(D)
         /\ \A s \in D : before[s] \in Nat /\ count[s] \in Nat
         /\ SumOver(before, D) \in Nat /\ SumOver(count, D) \in Nat
<1>1. IsFiniteSet(D)
  BY SlotsAssumption, FS_Subset
<1>2. \A s \in D : before[s] \in Nat /\ count[s] \in Nat
  BY BoundsAssumption DEF DeviceInv
<1> QED BY <1>1, <1>2, SumRemove

\* The counters only grow, and fewer and fewer of them are untouched.
LEMMA CountedSystem ==
  ASSUME DeviceInv, DeviceInv', System, NEW D \in SUBSET Slots, Counted(D), total \in 0..Cap
  PROVE  Counted(D)'
<1>1. UNCHANGED <<queue, total, before>>
  BY SystemLeaves
<1>2. Sound' \subseteq Sound
  BY SystemLeaves, SystemSteady DEF Sound
<1>3. \A s \in Slots : count[s] <= count'[s]
  <2>1. count' = count \/ \E s \in Slots : count' = [count EXCEPT ![s] = @ + 1]
    BY DEF System, Plug, Unplug, Unload, Configure, Throttle
  <2>2. count \in [Slots -> Int]
    BY DEF DeviceInv
  <2> QED BY <2>1, <2>2
<1>4. PICK A, B : A = D \intersect Sound /\ B = D \intersect Sound'
  OBVIOUS
<1>5. A \in SUBSET Slots /\ B \in SUBSET Slots /\ B \in SUBSET A
  BY <1>2, <1>4
<1>6. SumOver(before, B) \in Nat /\ SumOver(before, A) \in Nat
  BY <1>5, Sums
<1>7. SumOver(before, B) <= SumOver(before, A)
  <2>1. IsFiniteSet(A) /\ \A s \in A : before[s] \in Nat
    BY <1>5, Sums
  <2>2. \A s \in A : before[s] <= before[s]
    BY <2>1
  <2> QED BY <1>5, <2>1, <2>2, SumGrows
<1>8. IsFiniteSet(D) /\ \A s \in D : count[s] \in Nat /\ count'[s] \in Nat
  <2>1. IsFiniteSet(D)
    BY Sums
  <2>2. count \in [Slots -> 0..Cap] /\ count' \in [Slots -> 0..Cap] /\ 0..Cap \subseteq Nat
    BY BoundsAssumption DEF DeviceInv
  <2> QED BY <2>1, <2>2
<1>9. /\ SumOver(count, D) \in Nat /\ SumOver(count', D) \in Nat
      /\ SumOver(count, D) <= SumOver(count', D)
  <2>1. SumOver(count, D) \in Nat
    BY <1>8, SumRemove
  <2>2. SumOver(count', D) \in Nat
    BY <1>8, SumRemove
  <2>3. SumOver(count, D) <= SumOver(count', D)
    BY <1>3, <1>8, SumGrows
  <2> QED BY <2>1, <2>2, <2>3
<1>10. Capped(SumOver(before, B)) <= Capped(SumOver(before, A)) /\ Capped(SumOver(before, A)) \in 0..Cap
       /\ Capped(SumOver(before, B)) \in 0..Cap
  BY <1>6, <1>7, CappedOrder
<1>11. Capped(SumOver(count, D)) <= Capped(SumOver(count', D)) /\ Capped(SumOver(count, D)) \in 0..Cap
       /\ Capped(SumOver(count', D)) \in 0..Cap
  BY <1>9, CappedOrder
<1>12. Capped(SumOver(before, B)) <= total
  BY <1>4, <1>10, BoundsAssumption DEF Counted
<1>13. total <= Capped(SumOver(count', D))
  BY <1>11, BoundsAssumption DEF Counted
<1>14. /\ \A s \in Sound' : s \in D \/ \E i \in DOMAIN queue : queue[i] = s
       /\ \A i \in DOMAIN queue : queue[i] \notin D
  BY <1>2 DEF Counted
<1> QED BY <1>1, <1>4, <1>12, <1>13, <1>14 DEF Counted

\* The counter of the CPU in front is added.
LEMMA CountedAdd ==
  ASSUME DeviceInv, ControlInv, ThrottleInv, AddThrottle,
         NEW D \in SUBSET Slots, Counted(D), NEW E, E = D \union {Here}
  PROVE  /\ queue' = Tail(queue) /\ pc' = "device" /\ total' \in 0..Cap
         /\ E \in SUBSET Slots /\ Counted(E)'
<1>1. /\ pc = "file" /\ reader = "throttle" /\ total' = Capped(total + count[Here])
      /\ After(<<>>) /\ UNCHANGED <<systemVars, before>>
  BY DEF AddThrottle, Unchanged
<1>2. pc' = "device" /\ queue' = Tail(queue)
  BY <1>1 DEF After
<1>3. queue \in Seq(Slots) /\ queue # <<>> /\ total \in 0..Cap
  BY <1>1 DEF ControlInv, ThrottleInv
<1>4. /\ Here \in Slots /\ 1 \in DOMAIN queue /\ queue[1] = Here
      /\ \A i \in DOMAIN Tail(queue) :
           i + 1 \in DOMAIN queue /\ Tail(queue)[i] = queue[i + 1]
      /\ \A i \in DOMAIN queue : i # 1 =>
           \E j \in DOMAIN Tail(queue) : i = j + 1 /\ Tail(queue)[j] = queue[i]
  BY <1>3, QueueTail
<1>5. Here \notin D
  BY <1>4 DEF Counted
<1>6. E = D \union {Here} /\ E \in SUBSET Slots
  BY <1>4
<1>7. PICK b, c : b = before[Here] /\ c = count[Here]
  OBVIOUS
<1>8. b \in Nat /\ c \in Nat /\ b <= c
  <2>1. b \in 0..Cap /\ c \in 0..Cap
    BY <1>4, <1>7 DEF DeviceInv
  <2> QED BY <1>1, <1>4, <1>7, <2>1, BoundsAssumption DEF ThrottleInv
<1>9. PICK p : p = SumOver(count, D)
  OBVIOUS
<1>10. p \in Nat /\ SumOver(count, E) = c + p
  <2>1. p \in Nat /\ IsFiniteSet(D) /\ \A s \in D : count[s] \in Nat
    BY <1>9, Sums
  <2> QED BY <1>5, <1>6, <1>7, <1>8, <1>9, <2>1, SumInsert
<1>11. PICK A : A = D \intersect Sound
  OBVIOUS
<1>12. PICK q : q = SumOver(before, A)
  OBVIOUS
<1>13. q \in Nat /\ SumOver(before, A \union {Here}) = b + q
  <2>1. q \in Nat /\ IsFiniteSet(A) /\ \A s \in A : before[s] \in Nat
    BY <1>11, <1>12, Sums
  <2>2. Here \notin A
    BY <1>5, <1>11
  <2> QED BY <1>7, <1>8, <1>12, <2>1, <2>2, SumInsert
<1>14. total <= Capped(p) /\ Capped(q) <= total
  BY <1>9, <1>11, <1>12 DEF Counted
<1>15. total' <= Capped(SumOver(count, E))
  <2>1. Capped(total + c) <= Capped(c + p)
    BY <1>3, <1>8, <1>10, <1>13, <1>14, CappedSum
  <2> QED BY <1>1, <1>7, <1>10, <2>1
<1>16. Capped(SumOver(before, E \intersect Sound)) <= total'
  <2>1. CASE Here \in Sound
    <3>1. E \intersect Sound = A \union {Here}
      BY <1>6, <1>11, <2>1
    <3>2. Capped(b + q) <= Capped(total + c)
      BY <1>3, <1>8, <1>10, <1>13, <1>14, CappedSum
    <3> QED BY <1>1, <1>7, <1>13, <3>1, <3>2
  <2>2. CASE Here \notin Sound
    <3>1. E \intersect Sound = A
      BY <1>6, <1>11, <2>2
    <3>2. 0 \in Nat /\ 0 <= c /\ 0 + q = q
      BY <1>8, <1>13
    <3>3. Capped(0 + q) <= Capped(total + c)
      BY <1>3, <1>8, <1>10, <1>13, <1>14, <3>2, CappedSum
    <3> QED BY <1>1, <1>7, <1>12, <3>1, <3>2, <3>3
  <2> QED BY <2>1, <2>2
<1>17. \A s \in Sound : s \in E \/ \E i \in DOMAIN queue' : queue'[i] = s
  <2> SUFFICES ASSUME NEW s \in Sound, s \notin E
               PROVE  \E i \in DOMAIN queue' : queue'[i] = s
    OBVIOUS
  <2>1. PICK i \in DOMAIN queue : queue[i] = s
    BY <1>6 DEF Counted
  <2>2. i # 1
    BY <1>4, <1>6, <2>1
  <2> QED BY <1>2, <1>4, <2>1, <2>2
<1>18. \A i \in DOMAIN queue' : queue'[i] \notin E
  <2> SUFFICES ASSUME NEW i \in DOMAIN queue', queue'[i] \in E
               PROVE  FALSE
    OBVIOUS
  <2>1. i + 1 \in DOMAIN queue /\ queue'[i] = queue[i + 1]
    BY <1>2, <1>4
  <2>2. queue[i + 1] \notin D
    BY <2>1 DEF Counted
  <2>3. queue[i + 1] = queue[1]
    BY <1>4, <1>6, <2>1, <2>2
  <2>4. i + 1 = 1
    BY <1>1, <1>4, <2>1, <2>3 DEF ThrottleInv
  <2>5. i \in Nat /\ i # 0
    BY <1>2, <1>3, QueueTail
  <2> QED BY <2>4, <2>5
<1>19. Sound' = Sound
  BY <1>1 DEF Sound, Steady, systemVars
<1>20. total' \in 0..Cap
  <2>1. total + c \in Nat
    BY <1>3, <1>8
  <2> QED BY <1>1, <1>7, <2>1, CappedOrder
<1>21. count' = count /\ before' = before
  BY <1>1 DEF systemVars
<1> QED BY <1>2, <1>4, <1>6, <1>15, <1>16, <1>17, <1>18, <1>19, <1>20, <1>21 DEF Counted

\* A CPU that is left out was not there all the time.
LEMMA CountedSkip ==
  ASSUME ReadInv, ThrottleInv, SkipRow, reader = "throttle",
         NEW D \in SUBSET Slots, Counted(D)
  PROVE  queue' = Tail(queue) /\ pc' = "device" /\ Counted(D)'
<1> USE DEF ReadInv
<1>1. /\ pc = "file" /\ Got = None /\ After(NextRow)
      /\ UNCHANGED <<systemVars, before, total>>
  BY DEF SkipRow, Unchanged
<1>2. PICK t : t = AllFiles(reader)
  OBVIOUS
<1>3. PICK n \in Nat, m \in Nat : CursorAt(n, m)
  BY DEF RowInv
<1>4. n < m /\ m <= Len(t) /\ Left(t, n, m)
  BY <1>1, <1>2, <1>3 DEF CursorAt
<1>5. IsTable(t)
  BY <1>2, TableOf
<1>6. Len(t) = 1
  <2>1. t = FilesOf["throttle"]
    BY <1>2 DEF AllFiles
  <2> QED BY <2>1, ThrottleTable
<1>7. PICK k \in Nat : n < k /\ k <= m /\ NextRow = Rest(t, k, m)
  BY <1>4, <1>5, NextRowIs
<1>8. k = m
  BY <1>4, <1>6, <1>7
<1>9. NextRow = <<>>
  BY <1>4, <1>5, <1>7, <1>8, Remaining
<1>10. pc' = "device" /\ queue' = Tail(queue)
  BY <1>1, <1>9 DEF After
<1>11. queue \in Seq(Slots) /\ queue # <<>>
  BY <1>1 DEF ControlInv
<1>12. /\ queue[1] = Here /\ 1 \in DOMAIN queue
       /\ \A i \in DOMAIN Tail(queue) :
            i + 1 \in DOMAIN queue /\ Tail(queue)[i] = queue[i + 1]
       /\ \A i \in DOMAIN queue : i # 1 =>
            \E j \in DOMAIN Tail(queue) : i = j + 1 /\ Tail(queue)[j] = queue[i]
  BY <1>11, QueueTail
<1>13. Here \notin Sound
  <2>1. ASSUME Here \in Sound PROVE Got # None
    <3>1. Reads(dev[Here], TheFile)
      BY <2>1 DEF Sound, Steady, Reads
    <3> QED BY <3>1 DEF Got, Read, Some, None
  <2> QED BY <1>1, <2>1
<1>14. \A s \in Sound : s \in D \/ \E i \in DOMAIN queue' : queue'[i] = s
  <2> SUFFICES ASSUME NEW s \in Sound, s \notin D
               PROVE  \E i \in DOMAIN queue' : queue'[i] = s
    OBVIOUS
  <2>1. PICK i \in DOMAIN queue : queue[i] = s
    BY DEF Counted
  <2>2. i # 1
    BY <1>12, <1>13, <2>1
  <2> QED BY <1>10, <1>12, <2>1, <2>2
<1>15. \A i \in DOMAIN queue' : queue'[i] \notin D
  BY <1>10, <1>12 DEF Counted
<1>16. Sound' = Sound /\ count' = count /\ before' = before /\ total' = total
  BY <1>1 DEF Sound, Steady, systemVars
<1> QED BY <1>10, <1>14, <1>15, <1>16 DEF Counted

\* The rest of a list names each slot once, too.
LEMMA TailOnce ==
  ASSUME queue \in Seq(Slots), queue # <<>>,
         \A i, j \in DOMAIN queue : queue[i] = queue[j] => i = j
  PROVE  \A i, j \in DOMAIN Tail(queue) : Tail(queue)[i] = Tail(queue)[j] => i = j
<1> SUFFICES ASSUME NEW i \in DOMAIN Tail(queue), NEW j \in DOMAIN Tail(queue),
                    Tail(queue)[i] = Tail(queue)[j]
             PROVE  i = j
  OBVIOUS
<1>1. /\ i + 1 \in DOMAIN queue /\ Tail(queue)[i] = queue[i + 1]
      /\ j + 1 \in DOMAIN queue /\ Tail(queue)[j] = queue[j + 1]
  BY QueueTail
<1>2. i + 1 = j + 1
  BY <1>1
<1>3. i \in Nat /\ j \in Nat
  <2>1. Tail(queue) \in Seq(Slots)
    BY QueueTail
  <2> QED BY <2>1
<1> QED BY <1>2, <1>3

\* Nothing was added up yet.
LEMMA CountedNothing ==
  ASSUME DeviceInv, total = 0, NEW q, queue' = q,
         UNCHANGED <<systemVars, before, total>>,
         \A s \in Sound : \E i \in DOMAIN q : q[i] = s
  PROVE  Counted({})'
<1>1. SumOver(before, {}) = 0 /\ SumOver(count, {}) = 0
  BY SumEmpty
<1>2. Capped(0) = 0
  BY BoundsAssumption DEF Capped
<1>3. {} \intersect Sound = {} /\ Sound' = Sound /\ count' = count /\ before' = before
  BY DEF Sound, Steady, systemVars
<1> QED BY <1>1, <1>2, <1>3 DEF Counted

\* Every step keeps the sum within its bounds.
LEMMA ThrottleStep ==
  ASSUME ReadInv, ReadInv', ThrottleInv, [Next]_vars
  PROVE  ThrottleInv'
<1> SUFFICES ASSUME reader' = "throttle" PROVE ThrottleInv'
  BY DEF ThrottleInv
<1> USE DEF ReadInv
<1>1. CASE System
  <2>1. UNCHANGED <<reader, pc, queue, total, before>>
    BY <1>1, SystemLeaves
  <2>2. reader = "throttle"
    BY <2>1
  <2>3. \A s \in Slots : count[s] <= count'[s]
    <3>1. count' = count \/ \E s \in Slots : count' = [count EXCEPT ![s] = @ + 1]
      BY <1>1 DEF System, Plug, Unplug, Unload, Configure, Throttle
    <3>2. count \in [Slots -> Int]
      BY DEF DeviceInv
    <3> QED BY <3>1, <3>2
  <2>4. \A s \in Slots : before'[s] <= count'[s]
    <3>1. \A s \in Slots : before[s] \in Int /\ count[s] \in Int /\ count'[s] \in Int
      BY DEF DeviceInv
    <3> QED BY <2>1, <2>2, <2>3, <3>1 DEF ThrottleInv
  <2>5. ASSUME pc' \in {"device", "file", "done"} PROVE \E D \in SUBSET Slots : Counted(D)'
    <3>1. PICK D \in SUBSET Slots : Counted(D)
      BY <2>1, <2>2, <2>5 DEF ThrottleInv
    <3> QED BY <1>1, <2>2, <3>1, CountedSystem DEF ThrottleInv
  <2> QED BY <2>1, <2>2, <2>4, <2>5 DEF ThrottleInv
<1>2. ASSUME Program PROVE ThrottleInv'
  <2>1. UNCHANGED <<systemVars, reader, before>>
    BY <1>2, ProgramReads
  <2>2. /\ reader = "throttle" /\ reader' = reader
        /\ \A s \in Slots : before'[s] <= count'[s]
        /\ Sound' = Sound
    BY <2>1 DEF ThrottleInv, systemVars, Sound, Steady
  <2> USE <2>2
  <2>3. ASSUME NoParent \/ ListFails PROVE ThrottleInv'
    <3>1. /\ pc \in {"exists", "list"} /\ pc' = "done"
          /\ ~parent \/ ~readable
          /\ UNCHANGED <<queue, total>>
      BY <2>3 DEF NoParent, ListFails, Return
    <3>2. queue = <<>> /\ total = 0 /\ total \in 0..Cap
      BY <3>1 DEF ThrottleInv
    <3>3. Sound = {}
      BY <3>1 DEF DeviceInv, DeviceOK, Sound, Steady
    <3>4. Counted({})'
      BY <2>1, <3>1, <3>2, <3>3, CountedNothing
    <3> QED BY <3>1, <3>2, <3>4 DEF ThrottleInv
  <2>4. ASSUME ParentExists PROVE ThrottleInv'
    <3>1. pc = "exists" /\ pc' = "list" /\ UNCHANGED <<queue, total>>
      BY <2>4 DEF ParentExists
    <3> QED BY <3>1 DEF ThrottleInv
  <2>5. ASSUME ListDevices PROVE ThrottleInv'
    <3>1. /\ pc = "list" /\ pc' = "device" /\ queue' \in SetToSeqs(Listed) /\ total' = total
      BY <2>5 DEF ListDevices
    <3>2. total = 0 /\ total \in 0..Cap
      BY <3>1 DEF ThrottleInv
    <3>3. /\ \A i, j \in DOMAIN queue' : queue'[i] = queue'[j] => i = j
          /\ \A s \in Listed : \E i \in DOMAIN queue' : queue'[i] = s
      BY <3>1, ListIsComplete
    <3>4. Sound \subseteq Listed
      BY DEF Sound, Steady, Listed
    <3>5. Counted({})'
      BY <2>1, <3>1, <3>2, <3>3, <3>4, CountedNothing
    <3> QED BY <3>1, <3>2, <3>3, <3>5 DEF ThrottleInv
  <2>6. ASSUME OpenDevice PROVE ThrottleInv'
    <3>1. pc = "device" /\ pc' = "file" /\ UNCHANGED <<queue, total>>
      BY <2>6 DEF OpenDevice
    <3>2. \A D : Counted(D) => Counted(D)'
      BY <2>1, <3>1 DEF Counted, systemVars
    <3> QED BY <3>1, <3>2 DEF ThrottleInv
  <2>7. ASSUME SkipRow PROVE ThrottleInv'
    <3>1. pc = "file" /\ total' = total /\ queue \in Seq(Slots) /\ queue # <<>>
      BY <2>7 DEF SkipRow, ControlInv
    <3>2. PICK D \in SUBSET Slots : Counted(D)
      BY <3>1 DEF ThrottleInv
    <3>3. queue' = Tail(queue) /\ pc' = "device" /\ Counted(D)'
      BY <2>7, <3>2, CountedSkip
    <3> QED BY <3>1, <3>3, TailOnce DEF ThrottleInv
  <2>8. ASSUME AddThrottle PROVE ThrottleInv'
    <3>1. pc = "file" /\ queue \in Seq(Slots) /\ queue # <<>>
      BY <2>8 DEF AddThrottle, ControlInv
    <3>2. PICK D \in SUBSET Slots : Counted(D)
      BY <3>1 DEF ThrottleInv
    <3>3. PICK E : E = D \union {Here}
      OBVIOUS
    <3>4. /\ queue' = Tail(queue) /\ pc' = "device" /\ total' \in 0..Cap
          /\ E \in SUBSET Slots /\ Counted(E)'
      BY <2>8, <3>2, <3>3, CountedAdd
    <3> QED BY <3>1, <3>4, TailOnce DEF ThrottleInv
  <2>9. ASSUME GiveUp PROVE FALSE
    <3>1. PICK t : t = AllFiles(reader)
      OBVIOUS
    <3>2. pc = "file" /\ TheFile.lost = "call"
      BY <2>9 DEF GiveUp
    <3>3. PICK n \in Nat, m \in Nat : CursorAt(n, m)
      BY DEF RowInv
    <3>4. n < m /\ m <= Len(t) /\ Left(t, n, m)
      BY <3>1, <3>2, <3>3 DEF CursorAt
    <3>5. TheFile = t[n + 1]
      BY <3>1, <3>2, <3>4, GotIs
    <3>6. Len(t) = 1 /\ t[1].lost = "row"
      <4>1. t = FilesOf["throttle"]
        BY <3>1 DEF AllFiles
      <4> QED BY <4>1, ThrottleTable
    <3>7. n + 1 = 1
      BY <3>4, <3>6
    <3> QED BY <3>2, <3>5, <3>6, <3>7
  <2>10. ASSUME NoMoreDevices PROVE ThrottleInv'
    <3>1. pc = "device" /\ queue = <<>> /\ pc' = "done" /\ UNCHANGED <<queue, total>>
      BY <2>10 DEF NoMoreDevices, Return
    <3>2. \A D : Counted(D) => Counted(D)'
      BY <2>1, <3>1 DEF Counted, systemVars
    <3> QED BY <3>1, <3>2 DEF ThrottleInv
  <2>11. ~NoSuchDevice /\ ~OpenPci /\ ~SkipVanished /\ ~ReadField
    BY DEF NoSuchDevice, OpenPci, SkipVanished, ReadField
  <2>12. ~CheckPolicy /\ ~CountCpus
    BY DEF CheckPolicy, CountCpus, ControlInv
  <2>13. ~ListSensors
    BY DEF ListSensors, RowInv
  <2> QED BY <1>2, <2>3, <2>4, <2>5, <2>6, <2>7, <2>8, <2>9, <2>10, <2>11, <2>12, <2>13
          DEF Program
<1>3. CASE UNCHANGED vars
  <2>1. UNCHANGED <<systemVars, reader, pc, queue, total, before>>
    BY <1>3 DEF vars
  <2>2. \A D : Counted(D) => Counted(D)'
    BY <2>1 DEF Counted, systemVars, Sound, Steady
  <2> QED BY <2>1, <2>2 DEF ThrottleInv, systemVars
<1> QED BY <1>1, <1>2, <1>3 DEF Next

\* The throttle count is at least what the CPUs that stayed had counted when
\* the call began, provided that they could be listed, and at most what all had
\* counted when it ended, whichever CPUs went offline meanwhile; beyond the
\* largest value it stays there.
THEOREM ThrottleBounded == Spec => []ThrottleInBounds
<1>1. Init => ThrottleInv
  <2> SUFFICES ASSUME Init PROVE ThrottleInv
    OBVIOUS
  <2>1. pc = "exists" /\ queue = <<>> /\ total = 0 /\ before = count
    BY DEF Init
  <2>2. DeviceInv
    BY DeviceInit
  <2>3. \A s \in Slots : before[s] <= count[s]
    BY <2>1, <2>2 DEF DeviceInv
  <2>4. total \in 0..Cap
    BY <2>1, BoundsAssumption
  <2> QED BY <2>1, <2>3, <2>4 DEF ThrottleInv
<1>2. ASSUME ReadInv, ThrottleInv PROVE ThrottleInBounds
  <2> USE <1>2 DEF ReadInv
  <2> SUFFICES ASSUME result = Some("ok"), reader = "throttle"
               PROVE  /\ readable => total >= Capped(SumOver(before, Sound))
                      /\ total <= Capped(SumOver(count, Slots))
    BY DEF ThrottleInBounds, SumOver, Sound, Steady
  <2>1. pc = "done"
    BY DEF ControlInv, Some, None
  <2>2. queue = <<>> /\ total \in 0..Cap
    BY <2>1 DEF ThrottleInv
  <2>3. PICK D \in SUBSET Slots : Counted(D)
    BY <2>1 DEF ThrottleInv
  <2>4. D \intersect Sound = Sound
    BY <2>2, <2>3 DEF Counted
  <2>5. Sound \in SUBSET Slots /\ Slots \in SUBSET Slots
    BY DEF Sound, Steady
  <2>6. SumOver(before, Sound) \in Nat
    BY <2>5, Sums
  <2>7. SumOver(count, D) \in Nat
    BY Sums
  <2>8. SumOver(count, Slots) \in Nat /\ IsFiniteSet(Slots) /\ \A s \in Slots : count[s] \in Nat
    BY <2>5, Sums
  <2>9. SumOver(count, D) <= SumOver(count, Slots)
    <3>1. \A s \in D : count[s] <= count[s]
      BY <2>8
    <3> QED BY <2>8, <3>1, SumGrows
  <2>10. /\ Capped(SumOver(count, D)) <= Capped(SumOver(count, Slots))
         /\ Capped(SumOver(count, D)) \in 0..Cap
    BY <2>7, <2>8, <2>9, CappedOrder
  <2>11. Capped(SumOver(before, Sound)) \in 0..Cap /\ Capped(SumOver(count, Slots)) \in 0..Cap
    BY <2>6, <2>8, CappedOrder
  <2>12. Capped(SumOver(before, Sound)) <= total /\ total <= Capped(SumOver(count, D))
    BY <2>3, <2>4 DEF Counted
  <2> QED BY <2>2, <2>10, <2>11, <2>12, BoundsAssumption
<1> QED BY <1>1, <1>2, ReadInvariant, ThrottleStep, PTL DEF Spec

-----------------------------------------------------------------------------
(* Devices that are left alone.                                            *)

\* The files whose value is in the row at hand when n files are read.
Current(t, j, n) ==
  j <= n /\ (t[j].field = "source" \/ \A i \in j..n : ~t[i].last)

\* The row at hand is what the files hold.
RowAt(t, s, n) ==
  /\ \A j \in DOMAIN t : Current(t, j, n) =>
       /\ row[t[j].field] = Read(s, t[j])
       /\ t[j].lost = "row" => Read(s, t[j]) # None
  /\ \A f \in Fields(reader) :
       (\A j \in DOMAIN t : t[j].field = f => ~Current(t, j, n)) => row[f] = None

\* The file that completes row i.
EndOf(i) == IF reader = "hwmon" THEN i + 1 ELSE Len(AllFiles(reader))

\* The rows of a device that are complete with n files are reported, and no
\* others.
Reported(s, n) ==
  /\ \A i \in DueRows(s) : EndOf(i) <= n => \E k \in DOMAIN rows : rows[k] = DueRow(s, i)
  /\ \A k \in DOMAIN rows :
       rows[k].slot = s => \E i \in DueRows(s) : EndOf(i) <= n /\ rows[k] = DueRow(s, i)
  /\ \A i, j \in DueRows(s) : \A k, l \in DOMAIN rows :
       rows[k] = DueRow(s, i) /\ rows[l] = DueRow(s, j) /\ k < l => i < j

\* The device waits to be read, is being read, or has been.
Waiting(s) ==
  /\ \E i \in DOMAIN queue : queue[i] = s /\ (i = 1 => pc = "device")
  /\ \A k \in DOMAIN rows : rows[k].slot # s

ReadingAt(s, n, m) ==
  /\ n <= m /\ m <= Len(AllFiles(reader))
  /\ m \in {Len(FilesOf[reader]), Len(AllFiles(reader))}
  /\ Left(AllFiles(reader), n, m)
  /\ n = 0 => m = Len(FilesOf[reader])
  /\ pc = "file" => n < m
  /\ pc = "sensors" => n = 1
  /\ RowAt(AllFiles(reader), s, n)
  /\ Reported(s, n)

Reading(s) ==
  /\ pc \in {"file", "sensors"} /\ Here = s
  /\ \E n, m \in Nat : ReadingAt(s, n, m)

Finished(s) ==
  /\ \A i \in DOMAIN queue : queue[i] # s
  /\ Reported(s, Len(AllFiles(reader)))

Progress(s) ==
  /\ pc \in {"device", "file", "sensors"} => Waiting(s) \/ Reading(s) \/ Finished(s)
  /\ pc = "count" \/ result = Some("ok") => Finished(s)

\* The devices that are listed, and did not change.
Owed == {s \in Steady : reader \notin Walkers => s = 0}

Ascending(q) == \A i, j \in DOMAIN q : i < j => q[i] < q[j]

\* The devices are read in the order of their names.
Sorted ==
  /\ Ascending(queue)
  /\ \A k, l \in DOMAIN rows : k < l => rows[k].slot <= rows[l].slot
  /\ \A k \in DOMAIN rows : \A i \in DOMAIN queue : rows[k].slot <= queue[i]
  /\ pc \in {"exists", "policy", "list"} => rows = <<>> /\ queue = <<>>

SteadyInv == reader # "throttle" => Sorted /\ \A s \in Owed : Progress(s)

\* A table of which several rows can be made: a field is filled twice only
\* after a row is complete, and a file without which there is no row is the
\* first of one; the name of a chip is in all of them.
RowTable(t) ==
  /\ \A j, k \in DOMAIN t : j < k /\ t[j].field = t[k].field =>
       t[j].field # "source" /\ \E i \in j..(k - 1) : t[i].last
  /\ \A j \in DOMAIN t : t[j].field = "source" => j = 1 /\ ~t[j].last
  /\ \A j, k \in DOMAIN t : t[k].lost = "row" /\ j < k /\ t[j].field # "source" =>
       \E i \in j..(k - 1) : t[i].last
  /\ t[Len(t)].last

\* The files of a chip and its sensors by number.
LEMMA HwmonFiles ==
  ASSUME NEW t, t = AllFiles("hwmon")
  PROVE  /\ Len(t) = 5 /\ DOMAIN t = 1..5
         /\ t[1].field = "source" /\ t[2].field = "temp_c" /\ t[3].field = "label"
         /\ t[4].field = "temp_c" /\ t[5].field = "label"
         /\ t[1].lost = "row" /\ t[2].lost = "row" /\ t[3].lost = "field"
         /\ t[4].lost = "row" /\ t[5].lost = "field"
         /\ ~t[1].last /\ ~t[2].last /\ t[3].last /\ ~t[4].last /\ t[5].last
         /\ \A j \in DOMAIN t : j = 1 \/ j = 2 \/ j = 3 \/ j = 4 \/ j = 5
<1>1. IsTable(t) /\ Len(t) = 5
  BY HwmonTable
<1>2. DOMAIN t = 1..5
  BY <1>1 DEF IsTable
<1>3. /\ t[1].field = "source" /\ t[2].field = "temp_c" /\ t[3].field = "label"
      /\ t[4].field = "temp_c" /\ t[5].field = "label"
      /\ t[1].lost = "row" /\ t[2].lost = "row" /\ t[3].lost = "field"
      /\ t[4].lost = "row" /\ t[5].lost = "field"
      /\ ~t[1].last /\ ~t[2].last /\ t[3].last /\ ~t[4].last /\ t[5].last
  BY HwmonTable
<1> QED BY <1>1, <1>2, <1>3

\* The tables of all readers but the one that adds up are like that.
LEMMA RowTables ==
  ASSUME NEW r \in AllReaders, r # "throttle", NEW t, t = AllFiles(r)
  PROVE  RowTable(t)
<1>1. CASE r = "hwmon"
  <2>1. /\ Len(t) = 5 /\ DOMAIN t = 1..5
        /\ t[1].field = "source" /\ t[2].field = "temp_c" /\ t[3].field = "label"
        /\ t[4].field = "temp_c" /\ t[5].field = "label"
        /\ t[1].lost = "row" /\ t[2].lost = "row" /\ t[3].lost = "field"
        /\ t[4].lost = "row" /\ t[5].lost = "field"
        /\ ~t[1].last /\ ~t[2].last /\ t[3].last /\ ~t[4].last /\ t[5].last
        /\ \A j \in DOMAIN t : j = 1 \/ j = 2 \/ j = 3 \/ j = 4 \/ j = 5
    BY <1>1, HwmonFiles
  <2>2. ASSUME NEW j \in DOMAIN t, NEW k \in DOMAIN t, j < k, t[j].field = t[k].field
        PROVE  t[j].field # "source" /\ \E i \in j..(k - 1) : t[i].last
    <3>1. (j = 2 /\ k = 4) \/ (j = 3 /\ k = 5)
      BY <2>1, <2>2
    <3>2. 3 \in j..(k - 1)
      BY <3>1
    <3> QED BY <2>1, <3>1, <3>2
  <2>3. \A j \in DOMAIN t : t[j].field = "source" => j = 1 /\ ~t[j].last
    BY <2>1
  <2>4. ASSUME NEW j \in DOMAIN t, NEW k \in DOMAIN t, t[k].lost = "row", j < k,
               t[j].field # "source"
        PROVE  \E i \in j..(k - 1) : t[i].last
    <3>1. (j = 2 \/ j = 3) /\ k = 4
      BY <2>1, <2>4
    <3>2. 3 \in j..(k - 1)
      BY <3>1
    <3> QED BY <2>1, <3>2
  <2> QED BY <2>1, <2>2, <2>3, <2>4 DEF RowTable
<1>2. CASE r # "hwmon"
  <2>1. OneRow(t)
    BY <1>2, ReaderTables
  <2>2. DOMAIN t = 1..Len(t) /\ Len(t) \in DOMAIN t
    BY <2>1 DEF OneRow, IsTable
  <2>3. \A j, k \in DOMAIN t : t[k].lost = "row" => ~(j < k)
    BY <2>1, <2>2 DEF OneRow
  <2>4. \A j, k \in DOMAIN t : t[j].field = t[k].field => ~(j < k)
    BY <2>1, <2>2 DEF OneRow
  <2>5. \A j \in DOMAIN t : t[j].field # "source"
    BY <2>1 DEF OneRow
  <2>6. t[Len(t)].last
    BY <2>1, <2>2 DEF OneRow
  <2> QED BY <2>3, <2>4, <2>5, <2>6 DEF RowTable
<1> QED BY <1>1, <1>2

\* One file more in the same row.
LEMMA CurrentNext ==
  ASSUME NEW t, IsTable(t), RowTable(t), NEW n \in Nat, NEW k \in DOMAIN t, k = n + 1,
         ~t[k].last
  PROVE  /\ Current(t, k, k)
         /\ \A j \in DOMAIN t : Current(t, j, k) /\ j # k =>
              Current(t, j, n) /\ t[j].field # t[k].field
         /\ \A j \in DOMAIN t : Current(t, j, n) => Current(t, j, k)
<1>1. DOMAIN t \subseteq Nat
  BY DEF IsTable
<1>2. Current(t, k, k)
  BY <1>1 DEF Current
<1>3. ASSUME NEW j \in DOMAIN t, Current(t, j, k), j # k
      PROVE  Current(t, j, n) /\ t[j].field # t[k].field
  <2>1. j <= n /\ j < k
    BY <1>1, <1>3 DEF Current
  <2>2. \A i \in j..n : i \in j..k
    BY <1>1, <2>1
  <2>3. Current(t, j, n)
    BY <1>3, <2>1, <2>2 DEF Current
  <2>4. ASSUME t[j].field = t[k].field PROVE FALSE
    <3>1. PICK i \in j..(k - 1) : t[i].last /\ t[j].field # "source"
      BY <2>1, <2>4 DEF RowTable
    <3>2. i \in j..k
      BY <1>1, <3>1
    <3> QED BY <1>3, <3>1, <3>2 DEF Current
  <2> QED BY <2>3, <2>4
<1>4. ASSUME NEW j \in DOMAIN t, Current(t, j, n)
      PROVE  Current(t, j, k)
  <2>1. j <= k
    BY <1>1, <1>4 DEF Current
  <2>2. \A i \in j..k : i \in j..n \/ i = k
    BY <1>1
  <2> QED BY <1>4, <2>1, <2>2 DEF Current
<1> QED BY <1>2, <1>3, <1>4

\* Behind the last file of a row only the name of the chip is left.
LEMMA CurrentLast ==
  ASSUME NEW t, IsTable(t), RowTable(t), NEW n \in Nat, NEW k \in DOMAIN t, n < k,
         t[k].last, NEW j \in DOMAIN t
  PROVE  /\ Current(t, j, k) <=> t[j].field = "source"
         /\ n >= 1 /\ t[j].field = "source" => Current(t, j, n)
<1>1. DOMAIN t \subseteq Nat /\ j >= 1 /\ k >= 1
  BY DEF IsTable
<1>2. ASSUME Current(t, j, k) PROVE t[j].field = "source"
  <2>1. k \in j..k
    BY <1>1, <1>2 DEF Current
  <2> QED BY <1>2, <2>1 DEF Current
<1>3. ASSUME t[j].field = "source" PROVE Current(t, j, k) /\ (n >= 1 => Current(t, j, n))
  <2>1. j = 1
    BY <1>3 DEF RowTable
  <2> QED BY <1>1, <1>3, <2>1 DEF Current
<1> QED BY <1>2, <1>3

\* The device in the slot is the one that was there.
Same(s) == dev'[s] = dev[s] /\ reader' = reader

\* What it shows does not change unless the device does.
LEMMA SameRead ==
  ASSUME NEW s, Same(s)
  PROVE  /\ \A f : Read(s, f)' = Read(s, f)
         /\ DueRows(s)' = DueRows(s)
         /\ \A i : DueRow(s, i)' = DueRow(s, i)
         /\ \A i : EndOf(i)' = EndOf(i)
<1>1. \A f : Read(s, f)' = Read(s, f)
  BY DEF Same, Read
<1>2. DueRows(s)' = DueRows(s)
  BY DEF Same, DueRows, Read
<1>3. \A i : EndOf(i)' = EndOf(i)
  BY DEF Same, EndOf
<1>4. \A i, f : TrueField(s, i, f)' = TrueField(s, i, f)
  BY DEF Same, TrueField, Read
<1>5. \A i : Nameless(s, i)' = Nameless(s, i)
  BY Zenon DEF Same, Nameless
<1>6. \A i : DueRow(s, i)' = DueRow(s, i)
  BY <1>4, <1>5 DEF Same, DueRow
<1> QED BY <1>1, <1>2, <1>3, <1>6

\* A field more in the row at hand.
LEMMA FieldRead ==
  ASSUME NEW t, IsTable(t), RowTable(t), DOMAIN row = Fields(reader),
         \A i \in DOMAIN t : t[i].field \in Fields(reader),
         NEW s, Same(s), NEW n \in Nat, NEW k \in DOMAIN t, k = n + 1, ~t[k].last,
         RowAt(t, s, n), Read(s, t[k]) # None \/ t[k].lost = "field",
         row' = [row EXCEPT ![t[k].field] = Read(s, t[k])]
  PROVE  RowAt(t, s, k)'
<1>1. \A f : Read(s, f)' = Read(s, f)
  BY SameRead
<1>2. /\ \A j \in DOMAIN t : Current(t, j, k) /\ j # k =>
           Current(t, j, n) /\ t[j].field # t[k].field
      /\ \A j \in DOMAIN t : Current(t, j, n) => Current(t, j, k)
      /\ Current(t, k, k)
  BY CurrentNext
<1>3. row'[t[k].field] = Read(s, t[k])
  OBVIOUS
<1>4. \A f \in Fields(reader) : f # t[k].field => row'[f] = row[f]
  OBVIOUS
<1>5. ASSUME NEW j \in DOMAIN t, Current(t, j, k)
      PROVE  row'[t[j].field] = Read(s, t[j]) /\ (t[j].lost = "row" => Read(s, t[j]) # None)
  <2>1. CASE j = k
    BY <1>3, <2>1
  <2>2. CASE j # k
    BY <1>2, <1>4, <1>5, <2>2 DEF RowAt
  <2> QED BY <2>1, <2>2
<1>6. ASSUME NEW f \in Fields(reader), \A j \in DOMAIN t : t[j].field = f => ~Current(t, j, k)
      PROVE  row'[f] = None
  <2>1. f # t[k].field
    BY <1>2, <1>6
  <2>2. \A j \in DOMAIN t : t[j].field = f => ~Current(t, j, n)
    BY <1>2, <1>6
  <2> QED BY <1>4, <2>1, <2>2 DEF RowAt
<1>7. reader' = reader
  BY DEF Same
<1> QED BY <1>1, <1>5, <1>6, <1>7 DEF RowAt

\* Behind a row that was pushed only the name of the chip is kept.
LEMMA RowPushed ==
  ASSUME NEW t, IsTable(t), RowTable(t), NEW s, Same(s),
         \A i \in DOMAIN t : t[i].field \in Fields(reader),
         NEW n \in Nat, NEW k \in DOMAIN t, k = n + 1, t[k].last,
         RowAt(t, s, n),
         row' = [f \in Fields(reader) |-> IF f = "source" THEN row[f] ELSE None]
  PROVE  RowAt(t, s, k)'
<1>1. \A f : Read(s, f)' = Read(s, f)
  BY SameRead
<1>2. ASSUME NEW j \in DOMAIN t
      PROVE  /\ Current(t, j, k) <=> t[j].field = "source"
             /\ t[j].field = "source" => Current(t, j, n)
  <2>1. n < k
    OBVIOUS
  <2>2. Current(t, j, k) <=> t[j].field = "source"
    BY <2>1, CurrentLast
  <2>3. ASSUME t[j].field = "source" PROVE n >= 1
    <3>1. j = 1 /\ ~t[1].last
      BY <2>3 DEF RowTable
    <3>2. k # 1
      BY <3>1
    <3> QED BY <3>2
  <2>4. t[j].field = "source" => Current(t, j, n)
    BY <2>1, <2>3, CurrentLast
  <2> QED BY <2>2, <2>4
<1>3. ASSUME NEW j \in DOMAIN t, Current(t, j, k)
      PROVE  row'[t[j].field] = Read(s, t[j]) /\ (t[j].lost = "row" => Read(s, t[j]) # None)
  <2>1. t[j].field = "source" /\ Current(t, j, n)
    BY <1>2, <1>3
  <2> QED BY <2>1 DEF RowAt
<1>4. ASSUME NEW f \in Fields(reader), \A j \in DOMAIN t : t[j].field = f => ~Current(t, j, k)
      PROVE  row'[f] = None
  <2>1. CASE f = "source"
    <3>1. \A j \in DOMAIN t : t[j].field # f
      BY <1>2, <1>4, <2>1
    <3> QED BY <2>1, <3>1 DEF RowAt
  <2>2. CASE f # "source"
    BY <2>2
  <2> QED BY <2>1, <2>2
<1>5. reader' = reader
  BY DEF Same
<1> QED BY <1>1, <1>3, <1>4, <1>5 DEF RowAt

\* So it is behind a row that was given up at its first file.
LEMMA RowGivenUp ==
  ASSUME NEW t, IsTable(t), RowTable(t), NEW s, Same(s),
         NEW n \in Nat, n >= 1, NEW j \in DOMAIN t, j = n + 1, t[j].lost = "row",
         NEW k \in DOMAIN t, n < k, t[k].last,
         RowAt(t, s, n), row' = row
  PROVE  RowAt(t, s, k)'
<1>1. \A f : Read(s, f)' = Read(s, f)
  BY SameRead
<1>2. ASSUME NEW i \in DOMAIN t
      PROVE  /\ Current(t, i, k) <=> t[i].field = "source"
             /\ t[i].field = "source" => Current(t, i, n)
  BY CurrentLast
<1>3. ASSUME NEW i \in DOMAIN t, Current(t, i, n) PROVE t[i].field = "source"
  <2> SUFFICES ASSUME t[i].field # "source" PROVE FALSE
    OBVIOUS
  <2>1. i \in Nat /\ i <= n /\ i < j
    BY <1>3 DEF Current, IsTable
  <2>2. PICK h \in i..(j - 1) : t[h].last
    BY <2>1 DEF RowTable
  <2>3. h \in i..n
    BY <2>1, <2>2
  <2> QED BY <1>3, <2>2, <2>3 DEF Current
<1>4. reader' = reader
  BY DEF Same
<1>5. \A i \in DOMAIN t : Current(t, i, k) <=> Current(t, i, n)
  BY <1>2, <1>3
<1> QED BY <1>1, <1>4, <1>5 DEF RowAt

\* The file that is j of table t is the one that field f of row i comes from.
Own(t, i, f, j) ==
  t[j].field = f /\ (f \in {"temp_c", "label"} => j \in {i, i + 1})

\* The row that is complete with file k: the first, or that of a sensor.
RowEndedBy(k) == IF reader = "hwmon" THEN k - 1 ELSE 1
Ends(k, i) == i = RowEndedBy(k)

\* The row at hand with what file f holds.
FilledIn(fields, s, f) == fields = [row EXCEPT ![f.field] = Read(s, f)]

\* With its last file, all files of a device that gives one row are read.
LEMMA OneRowCurrent ==
  ASSUME NEW t, OneRow(t), NEW k \in DOMAIN t, t[k].last, NEW n \in Nat, k = n + 1,
         NEW w \in DOMAIN t, w # k
  PROVE  k = Len(t) /\ Current(t, w, n)
<1>1. \A q \in DOMAIN t : t[q].last <=> q = Len(t)
  BY Zenon DEF OneRow
<1>2. DOMAIN t = 1..Len(t) /\ Len(t) \in Nat
  BY DEF OneRow, IsTable
<1>3. k = Len(t)
  BY <1>1, Zenon
<1>4. w <= n /\ w \in Nat /\ w >= 1 /\ n < Len(t)
  BY <1>2, <1>3
<1>5. ASSUME NEW q \in w..n PROVE q \in DOMAIN t /\ q # Len(t)
  <2>1. q >= w /\ q <= n /\ q \in Nat
    BY <1>4
  <2>2. PICK l \in Nat : l = Len(t)
    BY <1>2
  <2>3. q # l
    BY <1>4, <2>1, <2>2
  <2>4. q \in 1..l
    BY <1>4, <2>1, <2>2
  <2> QED BY <1>2, <2>2, <2>3, <2>4
<1>6. \A q \in w..n : ~t[q].last
  BY <1>1, <1>5, Zenon
<1> QED BY <1>3, <1>4, <1>6 DEF Current

\* When a row is complete, each field of it was read from its own file.
LEMMA OwnFiles ==
  ASSUME reader \in AllReaders, reader # "throttle", NEW t, t = AllFiles(reader),
         NEW k \in DOMAIN t, t[k].last, NEW n \in Nat, k = n + 1,
         NEW i, Ends(k, i), NEW f \in Fields(reader)
  PROVE  \E j \in DOMAIN t :
           /\ \A q \in DOMAIN t : Own(t, i, f, q) <=> q = j
           /\ (j = k /\ f = t[k].field) \/ (Current(t, j, n) /\ f # t[k].field)
<1>1. PICK w \in DOMAIN t : t[w].field = f
  BY DEF Fields
<1>2. CASE reader # "hwmon"
  <2>1. OneRow(t)
    BY <1>2, ReaderTables
  <2>2. /\ \A p, q \in DOMAIN t : t[p].field = t[q].field => p = q
        /\ f \notin {"temp_c", "label"}
    BY <1>1, <2>1 DEF OneRow
  <2>3. \A q \in DOMAIN t : Own(t, i, f, q) <=> q = w
    BY <1>1, <2>2, Zenon DEF Own
  <2>4. w = k <=> f = t[k].field
    BY <1>1, <2>2, Zenon
  <2>5. w # k => Current(t, w, n)
    BY <2>1, OneRowCurrent
  <2> QED BY <2>3, <2>4, <2>5, Zenon
<1>3. CASE reader = "hwmon"
  <2>1. /\ Len(t) = 5 /\ DOMAIN t = 1..5
        /\ t[1].field = "source" /\ t[2].field = "temp_c" /\ t[3].field = "label"
        /\ t[4].field = "temp_c" /\ t[5].field = "label"
        /\ ~t[1].last /\ ~t[2].last /\ t[3].last /\ ~t[4].last /\ t[5].last
        /\ \A j \in DOMAIN t : j = 1 \/ j = 2 \/ j = 3 \/ j = 4 \/ j = 5
    BY <1>3, HwmonFiles
  <2>2. i = n /\ ((i = 2 /\ k = 3) \/ (i = 4 /\ k = 5))
    BY <1>3, <2>1 DEF Ends, RowEndedBy
  <2>3. t[k].field = "label" /\ t[i].field = "temp_c" /\ i \in DOMAIN t /\ 1 \in DOMAIN t
    BY <2>1, <2>2
  <2>4. CASE f = "source"
    <3>1. \A q \in DOMAIN t : Own(t, i, f, q) <=> q = 1
      BY <2>1, <2>4 DEF Own
    <3>2. Current(t, 1, n)
      BY <2>1, <2>2 DEF Current
    <3> QED BY <2>3, <2>4, <3>1, <3>2
  <2>5. CASE f = "temp_c"
    <3>1. \A q \in DOMAIN t : Own(t, i, f, q) <=> q = i
      BY <2>1, <2>2, <2>5 DEF Own
    <3>2. \A q \in i..n : ~t[q].last
      BY <2>1, <2>2
    <3>3. Current(t, i, n)
      BY <2>2, <3>2 DEF Current
    <3> QED BY <2>3, <2>5, <3>1, <3>3
  <2>6. CASE f = "label"
    <3>1. \A q \in DOMAIN t : Own(t, i, f, q) <=> q = k
      BY <2>1, <2>2, <2>6 DEF Own
    <3> QED BY <2>3, <2>6, <3>1
  <2>7. f = "source" \/ f = "temp_c" \/ f = "label"
    BY <1>1, <2>1
  <2> QED BY <2>4, <2>5, <2>6, <2>7
<1> QED BY <1>2, <1>3

\* Its content is what the files hold.
LEMMA FilledIs ==
  ASSUME reader \in AllReaders, reader # "throttle", NEW t, t = AllFiles(reader),
         DOMAIN row = Fields(reader),
         NEW k \in DOMAIN t, t[k].last, NEW n \in Nat, k = n + 1,
         NEW s, RowAt(t, s, n),
         NEW i, Ends(k, i),
         NEW filled, FilledIn(filled, s, t[k])
  PROVE  filled = [f \in Fields(reader) |-> TrueField(s, i, f)]
<1>1. ASSUME NEW f \in Fields(reader) PROVE filled[f] = TrueField(s, i, f)
  <2>1. PICK j \in DOMAIN t :
          /\ \A q \in DOMAIN t : Own(t, i, f, q) <=> q = j
          /\ (j = k /\ f = t[k].field) \/ (Current(t, j, n) /\ f # t[k].field)
    BY OwnFiles
  <2>2. TrueField(s, i, f) = Read(s, t[CHOOSE q \in DOMAIN t : Own(t, i, f, q)])
    BY DEF TrueField, Own
  <2>3. (CHOOSE q \in DOMAIN t : Own(t, i, f, q)) = j
    BY <2>1
  <2>4. t[j].field = f
    BY <2>1 DEF Own
  <2>5. filled[f] = Read(s, t[j])
    <3>1. CASE j = k /\ f = t[k].field
      BY <3>1 DEF FilledIn
    <3>2. CASE Current(t, j, n) /\ f # t[k].field
      <4>1. filled[f] = row[f]
        BY <3>2 DEF FilledIn
      <4> QED BY <2>4, <3>2, <4>1 DEF RowAt
    <3> QED BY <2>1, <3>1, <3>2
  <2> QED BY <2>2, <2>3, <2>5
<1>2. filled = [f \in Fields(reader) |-> filled[f]]
  BY DEF FilledIn
<1> QED BY <1>1, <1>2

\* It is due.
LEMMA RowIsDue ==
  ASSUME reader \in AllReaders, reader # "throttle", NEW t, t = AllFiles(reader),
         NEW k \in DOMAIN t, t[k].last, NEW n \in Nat, k = n + 1,
         NEW s, RowAt(t, s, n), Read(s, t[k]) # None \/ t[k].lost = "field",
         NEW i, Ends(k, i)
  PROVE  i \in DueRows(s) /\ EndOf(i) = k
<1>1. PICK lost : lost = {j \in DOMAIN t : t[j].lost = "row" /\ Read(s, t[j]) = None}
  OBVIOUS
<1>2. DueRows(s) = IF 1 \in lost THEN {}
                   ELSE IF reader = "hwmon" THEN {j \in {2, 4} : j \notin lost} ELSE {1}
  BY <1>1 DEF DueRows
<1>3. \A j \in DOMAIN t : j = k \/ Current(t, j, n) => j \notin lost
  BY <1>1 DEF RowAt
<1>4. CASE reader # "hwmon"
  <2>1. OneRow(t)
    BY <1>4, ReaderTables
  <2>2. DOMAIN t = 1..Len(t) /\ Len(t) \in Nat
    BY <2>1 DEF OneRow, IsTable
  <2>3. 1 \in DOMAIN t
    BY <2>2
  <2>4. k = Len(t) /\ (1 # k => Current(t, 1, n))
    <3>1. 1 # k => Current(t, 1, n)
      BY <2>1, <2>3, OneRowCurrent
    <3>2. k = Len(t)
      BY <2>1, Zenon DEF OneRow
    <3> QED BY <3>1, <3>2
  <2>5. 1 \notin lost
    BY <1>3, <2>3, <2>4
  <2> QED BY <1>2, <1>4, <2>4, <2>5 DEF Ends, RowEndedBy, EndOf
<1>5. CASE reader = "hwmon"
  <2>1. /\ Len(t) = 5 /\ DOMAIN t = 1..5
        /\ t[1].field = "source"
        /\ ~t[1].last /\ ~t[2].last /\ t[3].last /\ ~t[4].last /\ t[5].last
        /\ \A j \in DOMAIN t : j = 1 \/ j = 2 \/ j = 3 \/ j = 4 \/ j = 5
    BY <1>5, HwmonFiles
  <2>2. i = n /\ ((i = 2 /\ k = 3) \/ (i = 4 /\ k = 5))
    BY <1>5, <2>1 DEF Ends, RowEndedBy
  <2>3. Current(t, 1, n)
    BY <2>1, <2>2 DEF Current
  <2>4. \A q \in i..n : ~t[q].last
    BY <2>1, <2>2
  <2>5. Current(t, i, n)
    BY <2>2, <2>4 DEF Current
  <2>6. 1 \notin lost /\ i \notin lost
    BY <1>3, <2>1, <2>2, <2>3, <2>5
  <2> QED BY <1>2, <1>5, <2>2, <2>6 DEF EndOf
<1> QED BY <1>4, <1>5

\* The names of a USB device and of a sensor.
LEMMA NameFiles ==
  /\ AllFiles("usb")[2].field = "manufacturer" /\ AllFiles("usb")[2].id = "manufacturer"
  /\ AllFiles("usb")[2].expected = "text"
  /\ AllFiles("usb")[3].field = "product" /\ AllFiles("usb")[3].id = "product"
  /\ AllFiles("usb")[3].expected = "text"
  /\ DOMAIN AllFiles("usb") = 1..3
<1>1. PICK a, b, c :
        /\ a = File("power/wakeup", "status", "row", "enabled")
        /\ b = Plain("manufacturer", "text")
        /\ c = Final(Plain("product", "text"))
  OBVIOUS
<1>2. AllFiles("usb") = <<a, b, c>>
  BY <1>1 DEF AllFiles, FilesOf, UsbFiles
<1>3. b.id = "manufacturer" /\ b.field = "manufacturer" /\ b.expected = "text"
  BY <1>1 DEF Plain, File
<1>4. c.id = "product" /\ c.field = "product" /\ c.expected = "text"
  BY <1>1 DEF Plain, File, Final
<1> QED BY <1>2, <1>3, <1>4

\* A text is missing or empty only if the device lacks the file.
LEMMA TextIs ==
  ASSUME NEW r, r # "supply", NEW born, NEW d \in Device(r, born), NEW s, dev[s] # None, d = dev[s][1],
         NEW f, f.expected = "text"
  PROVE  /\ Read(s, f) = None <=> f.id \in d.odd /\ d.is = "missing"
         /\ Read(s, f) # None => (Read(s, f)[1].empty <=> f.id \in d.odd)
<1>1. d.is = "missing" \/ d.is = "odd"
  BY DEF Device
<1>2. dev[s][1] = d /\ dev[s] # None
  OBVIOUS
<1>3. Reads(dev[s], f) <=> ~(f.id \in d.odd /\ d.is = "missing")
  BY <1>1, <1>2 DEF Reads
<1>4. Read(s, f) = IF Reads(dev[s], f) THEN <<Value(s, dev[s], f)>> ELSE <<>>
  BY DEF Read, Some, None
<1>5. Read(s, f) = None <=> ~Reads(dev[s], f)
  BY <1>4 DEF None
<1>6. Reads(dev[s], f) => Read(s, f)[1] = Value(s, dev[s], f)
  BY <1>4
<1>7. Value(s, dev[s], f).empty <=> f.id \in d.odd /\ d.is = "odd"
  BY <1>2 DEF Value
<1> QED BY <1>1, <1>3, <1>5, <1>6, <1>7

\* The row has a name of its own if the device has one.
LEMMA FallbackIs ==
  ASSUME reader \in AllReaders, reader # "throttle", NEW t, t = AllFiles(reader),
         NEW s, dev[s] # None,
         dev[s][1] \in Device(reader, dev[s][1].born),
         NEW i, reader = "hwmon" => i = 2 \/ i = 4,
         NEW fields, \A f \in Fields(reader) : fields[f] = TrueField(s, i, f)
  PROVE  Fallback(fields) <=> Nameless(s, i)
<1>1. PICK d : d = dev[s][1]
  OBVIOUS
<1>2. ASSUME NEW j \in DOMAIN t, \A q \in DOMAIN t : Own(t, i, t[j].field, q) <=> q = j
      PROVE  fields[t[j].field] = Read(s, t[j])
  <2>1. TrueField(s, i, t[j].field)
          = Read(s, t[CHOOSE q \in DOMAIN t : Own(t, i, t[j].field, q)])
    BY DEF TrueField, Own
  <2>2. (CHOOSE q \in DOMAIN t : Own(t, i, t[j].field, q)) = j
    BY <1>2
  <2>3. t[j].field \in Fields(reader)
    BY DEF Fields
  <2> QED BY <2>1, <2>2, <2>3
<1>3. CASE reader = "usb"
  <2>1. /\ t[2].field = "manufacturer" /\ t[2].id = "manufacturer" /\ t[2].expected = "text"
        /\ t[3].field = "product" /\ t[3].id = "product" /\ t[3].expected = "text"
        /\ 2 \in DOMAIN t /\ 3 \in DOMAIN t
    BY <1>3, NameFiles
  <2>2. \A p, q \in DOMAIN t : t[p].field = t[q].field => p = q
    BY <1>3, ReaderTables DEF OneRow
  <2>3. /\ \A q \in DOMAIN t : Own(t, i, t[2].field, q) <=> q = 2
        /\ \A q \in DOMAIN t : Own(t, i, t[3].field, q) <=> q = 3
    BY <2>1, <2>2 DEF Own
  <2>4. fields["manufacturer"] = Read(s, t[2]) /\ fields["product"] = Read(s, t[3])
    BY <1>2, <2>1, <2>3
  <2>5. d \in Device("usb", d.born) /\ d = dev[s][1]
    BY <1>1, <1>3
  <2>6. /\ Read(s, t[2]) = None \/ Read(s, t[2])[1].empty <=> "manufacturer" \in d.odd
        /\ Read(s, t[3]) = None \/ Read(s, t[3])[1].empty <=> "product" \in d.odd
    BY <2>1, <2>5, TextIs
  <2>7. Fallback(fields) <=> /\ fields["manufacturer"] = None \/ fields["manufacturer"][1].empty
                             /\ fields["product"] = None \/ fields["product"][1].empty
    BY <1>3 DEF Fallback
  <2>8. Nameless(s, i) <=> "manufacturer" \in d.odd /\ "product" \in d.odd
    BY <1>1, <1>3 DEF Nameless
  <2> QED BY <2>4, <2>6, <2>7, <2>8
<1>4. CASE reader = "hwmon"
  <2>1. PICK j : j = i + 1
    OBVIOUS
  <2>2. (i = 2 /\ j = 3) \/ (i = 4 /\ j = 5)
    BY <1>4, <2>1
  <2>3. t[3].expected = "text" /\ t[5].expected = "text"
    BY <1>4, HwmonTable
  <2>4. /\ DOMAIN t = 1..5
        /\ t[1].field = "source" /\ t[2].field = "temp_c" /\ t[3].field = "label"
        /\ t[4].field = "temp_c" /\ t[5].field = "label"
        /\ \A q \in DOMAIN t : q = 1 \/ q = 2 \/ q = 3 \/ q = 4 \/ q = 5
    BY <1>4, HwmonFiles
  <2>5. j \in DOMAIN t /\ t[j].field = "label" /\ t[j].expected = "text"
    BY <2>2, <2>3, <2>4
  <2>6. \A q \in DOMAIN t : Own(t, i, t[j].field, q) <=> q = j
    BY <2>1, <2>2, <2>4, <2>5 DEF Own
  <2>7. fields["label"] = Read(s, t[j])
    BY <1>2, <2>5, <2>6
  <2>8. d \in Device("hwmon", d.born) /\ d = dev[s][1]
    BY <1>1, <1>4
  <2>9. Read(s, t[j]) = None <=> t[j].id \in d.odd /\ d.is = "missing"
    BY <2>5, <2>8, TextIs
  <2>10. Fallback(fields) <=> fields["label"] = None
    BY <1>4 DEF Fallback
  <2>11. Nameless(s, i) <=> d.is = "missing" /\ t[j].id \in d.odd
    BY <1>1, <1>4, <2>1 DEF Nameless
  <2> QED BY <2>7, <2>9, <2>10, <2>11
<1>5. CASE reader \notin {"usb", "hwmon"}
  BY <1>5 DEF Fallback, Nameless
<1> QED BY <1>3, <1>4, <1>5

\* What can be read is a value of its file.
LEMMA ReadIs ==
  ASSUME NEW s, NEW f, Read(s, f) # None
  PROVE  Read(s, f)[1].id = f.id /\ Read(s, f)[1].slot = s
BY DEF Read, Some, Value

\* Two rows that a device is due differ.
LEMMA RowsDiffer ==
  ASSUME reader \in AllReaders, NEW s,
         NEW i \in DueRows(s), NEW j \in DueRows(s), DueRow(s, i) = DueRow(s, j)
  PROVE  i = j
<1>1. CASE reader # "hwmon"
  BY <1>1 DEF DueRows
<1>2. CASE reader = "hwmon"
  <2>1. PICK t : t = AllFiles(reader)
    OBVIOUS
  <2>2. /\ DOMAIN t = 1..5
        /\ t[1].field = "source" /\ t[2].field = "temp_c" /\ t[3].field = "label"
        /\ t[4].field = "temp_c" /\ t[5].field = "label"
        /\ t[2].lost = "row" /\ t[4].lost = "row"
        /\ \A q \in DOMAIN t : q = 1 \/ q = 2 \/ q = 3 \/ q = 4 \/ q = 5
    BY <1>2, <2>1, HwmonFiles
  <2>3. \A h \in DueRows(s) : (h = 2 \/ h = 4) /\ Read(s, t[h]) # None
    BY <1>2, <2>1, <2>2 DEF DueRows
  <2>4. ASSUME NEW h \in DueRows(s) PROVE TrueField(s, h, "temp_c") = Read(s, t[h])
    <3>1. TrueField(s, h, "temp_c")
            = Read(s, t[CHOOSE q \in DOMAIN t : Own(t, h, "temp_c", q)])
      BY <2>1 DEF TrueField, Own
    <3>2. \A q \in DOMAIN t : Own(t, h, "temp_c", q) <=> q = h
      BY <2>2, <2>3 DEF Own
    <3>3. h \in DOMAIN t
      BY <2>2, <2>3
    <3> QED BY <3>1, <3>2, <3>3
  <2>5. "temp_c" \in Fields(reader)
    BY <2>1, <2>2 DEF Fields
  <2>6. \A h \in DueRows(s) : DueRow(s, h).fields["temp_c"] = Read(s, t[h])
    BY <2>4, <2>5 DEF DueRow
  <2>7. t[i].id = t[j].id
    BY <2>3, <2>6, ReadIs
  <2>8. IsTable(t)
    BY <1>2, <2>1, HwmonTable
  <2>9. i \in DOMAIN t /\ j \in DOMAIN t
    BY <2>2, <2>3
  <2> QED BY <2>7, <2>8, <2>9 DEF IsTable
<1> QED BY <1>1, <1>2

\* A row that is due is complete with the last file of a row.
LEMMA DueEnds ==
  ASSUME reader \in AllReaders, reader # "throttle", NEW t, t = AllFiles(reader),
         NEW s, NEW i \in DueRows(s)
  PROVE  EndOf(i) \in DOMAIN t /\ t[EndOf(i)].last /\ i = RowEndedBy(EndOf(i))
<1>1. CASE reader # "hwmon"
  <2>1. OneRow(t)
    BY <1>1, ReaderTables
  <2>2. Len(t) \in DOMAIN t
    BY <2>1 DEF OneRow, IsTable
  <2>3. t[Len(t)].last
    BY <2>1, <2>2, Zenon DEF OneRow
  <2>4. i = 1
    BY <1>1 DEF DueRows
  <2> QED BY <1>1, <2>2, <2>3, <2>4 DEF EndOf, RowEndedBy
<1>2. CASE reader = "hwmon"
  <2>1. DOMAIN t = 1..5 /\ t[3].last /\ t[5].last
    BY <1>2, HwmonFiles
  <2>2. i = 2 \/ i = 4
    BY <1>2 DEF DueRows
  <2>3. (i = 2 /\ EndOf(i) = 3) \/ (i = 4 /\ EndOf(i) = 5)
    BY <1>2, <2>2 DEF EndOf
  <2> QED BY <1>2, <2>1, <2>3 DEF RowEndedBy
<1> QED BY <1>1, <1>2

\* A row pushed comes behind the others.
LEMMA PushKeeps ==
  ASSUME NEW u, u \in Seq(Range(u)), NEW x, NEW v, v = Append(u, x)
  PROVE  /\ Len(u) \in Nat /\ DOMAIN u = 1..Len(u)
         /\ DOMAIN v = 1..(Len(u) + 1) /\ v[Len(u) + 1] = x
         /\ \A q \in DOMAIN u : q \in DOMAIN v /\ v[q] = u[q]
         /\ \A q \in DOMAIN v : q = Len(u) + 1 \/ q \in DOMAIN u
<1>1. u \in Seq(Range(u) \union {x})
  <2>1. \A i \in DOMAIN u : u[i] \in Range(u) \union {x}
    BY DEF Range
  <2> QED BY <2>1
<1>2. /\ Len(u) \in Nat /\ DOMAIN u = 1..Len(u)
      /\ Len(v) = Len(u) + 1 /\ v[Len(u) + 1] = x
      /\ \A i \in 1..Len(u) : v[i] = u[i]
  BY <1>1
<1>3. DOMAIN v = 1..Len(v)
  BY <1>1
<1> QED BY <1>2, <1>3

\* The row that is pushed is the one the device is due.
LEMMA PushedIsDue ==
  ASSUME reader \in AllReaders, reader # "throttle", NEW t, t = AllFiles(reader),
         DOMAIN row = Fields(reader), NEW s, dev[s] # None,
         dev[s][1] \in Device(reader, dev[s][1].born),
         NEW k \in DOMAIN t, t[k].last, NEW n \in Nat, k = n + 1, RowAt(t, s, n),
         Read(s, t[k]) # None \/ t[k].lost = "field",
         NEW i, Ends(k, i),
         NEW filled, FilledIn(filled, s, t[k])
  PROVE  [slot |-> s, fields |-> filled, fallback |-> Fallback(filled)] = DueRow(s, i)
<1>1. filled = [f \in Fields(reader) |-> TrueField(s, i, f)]
  BY FilledIs
<1>2. \A f \in Fields(reader) : filled[f] = TrueField(s, i, f)
  BY <1>1
<1>3. i \in DueRows(s)
  BY RowIsDue
<1>4. reader = "hwmon" => i = 2 \/ i = 4
  BY <1>3 DEF DueRows
<1>5. Fallback(filled) <=> Nameless(s, i)
  BY <1>2, <1>4, FallbackIs
<1>6. Fallback(filled) \in BOOLEAN /\ Nameless(s, i) \in BOOLEAN
  <2>1. Nameless(s, i) \in BOOLEAN
    BY DEF Nameless
  <2>2. Fallback(filled) \in BOOLEAN
    <3>1. CASE reader = "usb"
      BY <3>1 DEF Fallback
    <3>2. CASE reader = "hwmon"
      BY <3>2 DEF Fallback
    <3>3. CASE reader \notin {"usb", "hwmon"}
      BY <3>3 DEF Fallback
    <3> QED BY <3>1, <3>2, <3>3
  <2> QED BY <2>1, <2>2
<1>7. Fallback(filled) = Nameless(s, i)
  BY <1>5, <1>6
<1> QED BY <1>1, <1>7 DEF DueRow

\* Later rows of a device are complete with later files.
LEMMA DueOrder ==
  ASSUME NEW s, NEW i \in DueRows(s), NEW j \in DueRows(s), EndOf(i) < EndOf(j)
  PROVE  i < j
<1>1. CASE reader = "hwmon"
  <2>1. i \in Int /\ j \in Int
    BY <1>1 DEF DueRows
  <2> QED BY <1>1, <2>1 DEF EndOf
<1>2. CASE reader # "hwmon"
  <2>1. PICK l : l = Len(AllFiles(reader))
    OBVIOUS
  <2>2. l < l
    BY <1>2, <2>1 DEF EndOf
  <2>3. l \in Int
    BY <2>1
  <2> QED BY <2>2, <2>3
<1> QED BY <1>1, <1>2

\* What is reported, in the state that a step leads to.
LEMMA ReportedNext ==
  ASSUME NEW s, Same(s), NEW k,
         \A i \in DueRows(s) : EndOf(i) <= k =>
           \E q \in DOMAIN rows' : rows'[q] = DueRow(s, i),
         \A q \in DOMAIN rows' : rows'[q].slot = s =>
           \E i \in DueRows(s) : EndOf(i) <= k /\ rows'[q] = DueRow(s, i),
         \A i, j \in DueRows(s) : \A q, l \in DOMAIN rows' :
           rows'[q] = DueRow(s, i) /\ rows'[l] = DueRow(s, j) /\ q < l => i < j
  PROVE  Reported(s, k)'
<1>1. /\ DueRows(s)' = DueRows(s)
      /\ \A i : DueRow(s, i)' = DueRow(s, i)
      /\ \A i : EndOf(i)' = EndOf(i)
  BY SameRead
<1>2. \A i \in DueRows(s)' : EndOf(i)' <= k =>
        \E q \in DOMAIN rows' : rows'[q] = DueRow(s, i)'
  BY <1>1
<1>3. \A q \in DOMAIN rows' : rows'[q].slot = s =>
        \E i \in DueRows(s)' : EndOf(i)' <= k /\ rows'[q] = DueRow(s, i)'
  BY <1>1
<1>4. \A i, j \in DueRows(s)' : \A q, l \in DOMAIN rows' :
        rows'[q] = DueRow(s, i)' /\ rows'[l] = DueRow(s, j)' /\ q < l => i < j
  BY <1>1
<1> QED BY <1>2, <1>3, <1>4 DEF Reported

\* Rows of other devices and rows that were given up do not count.
LEMMA ReportedKept ==
  ASSUME NEW s, Same(s), NEW n \in Nat, NEW k \in Nat, Reported(s, n),
         rows \in Seq(Range(rows)),
         \A i \in DueRows(s) : EndOf(i) <= k <=> EndOf(i) <= n,
         rows' = rows \/ \E r : r.slot # s /\ rows' = Append(rows, r)
  PROVE  Reported(s, k)'
<1>1. /\ \A q \in DOMAIN rows : q \in DOMAIN rows' /\ rows'[q] = rows[q]
      /\ \A q \in DOMAIN rows' :
           \/ q \in DOMAIN rows /\ rows'[q] = rows[q]
           \/ rows'[q].slot # s
  <2>1. CASE rows' = rows
    BY <2>1
  <2>2. CASE \E r : r.slot # s /\ rows' = Append(rows, r)
    <3>1. PICK r : r.slot # s /\ rows' = Append(rows, r)
      BY <2>2
    <3>2. \A q \in DOMAIN rows : q \in DOMAIN rows' /\ rows'[q] = rows[q]
      BY <3>1, PushKeeps
    <3>3. \A q \in DOMAIN rows' : rows'[q] = r \/ (q \in DOMAIN rows /\ rows'[q] = rows[q])
      BY <3>1, PushRow
    <3> QED BY <3>1, <3>2, <3>3
  <2> QED BY <2>1, <2>2
<1>2. \A i : DueRow(s, i).slot = s
  BY DEF DueRow
<1>3. ASSUME NEW i \in DueRows(s), EndOf(i) <= k
      PROVE  \E q \in DOMAIN rows' : rows'[q] = DueRow(s, i)
  BY <1>1, <1>3 DEF Reported
<1>4. ASSUME NEW q \in DOMAIN rows', rows'[q].slot = s
      PROVE  \E i \in DueRows(s) : EndOf(i) <= k /\ rows'[q] = DueRow(s, i)
  BY <1>1, <1>4 DEF Reported
<1>5. ASSUME NEW i \in DueRows(s), NEW j \in DueRows(s),
             NEW q \in DOMAIN rows', NEW l \in DOMAIN rows',
             rows'[q] = DueRow(s, i), rows'[l] = DueRow(s, j), q < l
      PROVE  i < j
  BY <1>1, <1>2, <1>5 DEF Reported
<1> QED BY <1>3, <1>4, <1>5, ReportedNext

\* A row more is reported.
LEMMA ReportedPush ==
  ASSUME reader \in AllReaders, reader # "throttle", NEW t, IsTable(t), t = AllFiles(reader),
         NEW s, Same(s), NEW n \in Nat, NEW k \in Nat, k = n + 1, Reported(s, n),
         rows \in Seq(Range(rows)),
         NEW h \in DueRows(s), EndOf(h) = k, NEW r, r = DueRow(s, h),
         rows' = Append(rows, r)
  PROVE  Reported(s, k)'
<1>1. \A i \in DueRows(s) : EndOf(i) \in Nat /\ i = RowEndedBy(EndOf(i))
  <2>1. DOMAIN t \subseteq Nat
    BY DEF IsTable
  <2> QED BY <2>1, DueEnds
<1>2. \A i \in DueRows(s) : EndOf(i) = k => i = h
  BY <1>1
<1>3. \A i \in DueRows(s) : EndOf(i) <= k <=> (EndOf(i) <= n \/ i = h)
  BY <1>1, <1>2
<1>4. /\ Len(rows) \in Nat /\ DOMAIN rows = 1..Len(rows)
      /\ DOMAIN rows' = 1..(Len(rows) + 1) /\ rows'[Len(rows) + 1] = r
      /\ \A q \in DOMAIN rows : q \in DOMAIN rows' /\ rows'[q] = rows[q]
      /\ \A q \in DOMAIN rows' : q = Len(rows) + 1 \/ q \in DOMAIN rows
  BY PushKeeps
<1>5. ASSUME NEW i \in DueRows(s), EndOf(i) <= k
      PROVE  \E q \in DOMAIN rows' : rows'[q] = DueRow(s, i)
  <2>1. CASE i = h
    <3>1. Len(rows) + 1 \in DOMAIN rows'
      BY <1>4
    <3> QED BY <1>4, <2>1, <3>1
  <2>2. CASE i # h
    BY <1>3, <1>4, <1>5, <2>2 DEF Reported
  <2> QED BY <2>1, <2>2
<1>6. ASSUME NEW q \in DOMAIN rows', rows'[q].slot = s
      PROVE  \E i \in DueRows(s) : EndOf(i) <= k /\ rows'[q] = DueRow(s, i)
  <2>1. CASE q = Len(rows) + 1
    BY <1>3, <1>4, <2>1
  <2>2. CASE q \in DOMAIN rows
    BY <1>3, <1>4, <1>6, <2>2 DEF Reported
  <2> QED BY <1>4, <2>1, <2>2
<1>7. ASSUME NEW i \in DueRows(s), NEW j \in DueRows(s),
             NEW q \in DOMAIN rows', NEW l \in DOMAIN rows',
             rows'[q] = DueRow(s, i), rows'[l] = DueRow(s, j), q < l
      PROVE  i < j
  <2>1. q \in DOMAIN rows /\ rows[q] = DueRow(s, i)
    <3>1. q # Len(rows) + 1
      BY <1>4, <1>7
    <3> QED BY <1>4, <1>7, <3>1
  <2>2. CASE l \in DOMAIN rows
    <3>1. rows[l] = DueRow(s, j)
      BY <1>4, <1>7, <2>2
    <3> QED BY <1>7, <2>1, <2>2, <3>1 DEF Reported
  <2>3. CASE l = Len(rows) + 1
    <3>1. j = h
      BY <1>4, <1>7, <2>3, RowsDiffer
    <3>2. rows[q].slot = s
      BY <2>1 DEF DueRow
    <3>3. PICK x \in DueRows(s) : EndOf(x) <= n /\ rows[q] = DueRow(s, x)
      BY <2>1, <3>2 DEF Reported
    <3>4. x = i
      BY <2>1, <3>3, RowsDiffer
    <3>5. EndOf(i) < EndOf(j)
      BY <1>1, <3>1, <3>3, <3>4
    <3> QED BY <3>5, DueOrder
  <2> QED BY <1>4, <2>2, <2>3
<1> QED BY <1>5, <1>6, <1>7, ReportedNext

\* Behind the device in front there is no other row to make for it.
LEMMA AscendingTail ==
  ASSUME queue \in Seq(Slots), queue # <<>>, Ascending(queue)
  PROVE  /\ Ascending(Tail(queue))
         /\ \A i \in DOMAIN Tail(queue) : Here < Tail(queue)[i] /\ Tail(queue)[i] # Here
<1>1. /\ Here \in Slots /\ 1 \in DOMAIN queue /\ queue[1] = Here
      /\ Tail(queue) \in Seq(Slots)
      /\ \A i \in DOMAIN Tail(queue) :
           i + 1 \in DOMAIN queue /\ Tail(queue)[i] = queue[i + 1]
  BY QueueTail
<1>2. \A i \in DOMAIN Tail(queue) : i \in Nat /\ i >= 1
  BY <1>1
<1>3. ASSUME NEW i \in DOMAIN Tail(queue), NEW j \in DOMAIN Tail(queue), i < j
      PROVE  Tail(queue)[i] < Tail(queue)[j]
  <2>1. i + 1 < j + 1
    BY <1>2, <1>3
  <2>2. i + 1 \in DOMAIN queue /\ j + 1 \in DOMAIN queue
    BY <1>1
  <2>3. queue[i + 1] < queue[j + 1]
    BY <2>1, <2>2 DEF Ascending
  <2> QED BY <1>1, <2>3
<1>4. ASSUME NEW i \in DOMAIN Tail(queue)
      PROVE  Here < Tail(queue)[i] /\ Tail(queue)[i] # Here
  <2>1. 1 < i + 1 /\ i + 1 \in DOMAIN queue
    BY <1>1, <1>2
  <2>2. queue[1] < queue[i + 1]
    BY <1>1, <2>1 DEF Ascending
  <2>3. Here < Tail(queue)[i]
    BY <1>1, <2>2
  <2>4. Here \in Nat
    BY <1>1, SlotsAssumption
  <2> QED BY <2>3, <2>4
<1> QED BY <1>3, <1>4 DEF Ascending

\* The device is done when the queue goes on behind it.
LEMMA Done ==
  ASSUME queue \in Seq(Slots), queue # <<>>, Ascending(queue), NEW s, Here = s,
         queue' = Tail(queue), reader' = reader, Reported(s, Len(AllFiles(reader)))'
  PROVE  Finished(s)'
<1>1. \A i \in DOMAIN queue' : queue'[i] # s
  BY AscendingTail
<1> QED BY <1>1 DEF Finished

\* What follows the next file of a device.
LEMMA Onward ==
  ASSUME DeviceInv, ControlInv, pc = "file", Ascending(queue),
         reader' = reader, result' = result,
         NEW t, t = AllFiles(reader), NEW s, Here = s,
         NEW n \in Nat, NEW m \in Nat, NEW k \in Nat, n < k, k <= m, m <= Len(t),
         m \in {Len(FilesOf[reader]), Len(t)}, n = 0 => m = Len(FilesOf[reader]),
         Left(t, n, m), After(Rest(t, k, m)), Got # None => k = n + 1,
         RowAt(t, s, k)',
         pc' # "device" => Reported(s, k)',
         pc' = "device" => Reported(s, Len(t))'
  PROVE  Progress(s)'
<1>1. IsTable(t)
  BY TableOf
<1>2. Rest(t, k, m) = <<>> <=> k = m
  BY <1>1, Remaining
<1>3. /\ files' = Rest(t, k, m)
      /\ pc' = "file" <=> Rest(t, k, m) # <<>>
      /\ pc' \in {"file", "sensors", "device"}
      /\ pc' = "sensors" => /\ reader = "hwmon" /\ Head(files).id = "name"
                            /\ Read(Head(queue), Head(files)) # None
      /\ pc' # "device" => queue' = queue
      /\ pc' = "device" => queue' = Tail(queue)
  BY DEF After
<1>4. AllFiles(reader)' = t /\ FilesOf[reader]' = FilesOf[reader]
  OBVIOUS
<1>5. result' = None /\ result' # Some("ok")
  BY DEF ControlInv, Some, None
<1>6. CASE pc' = "device"
  <2>1. queue \in Seq(Slots) /\ queue # <<>>
    BY DEF ControlInv
  <2>2. Finished(s)'
    BY <1>3, <1>6, <2>1, Done
  <2> QED BY <1>5, <1>6, <2>2 DEF Progress
<1>7. CASE pc' = "file"
  <2>1. k < m
    BY <1>2, <1>3, <1>7
  <2>2. Left(AllFiles(reader), k, m)'
    BY <1>3, <1>4 DEF Left
  <2>3. ReadingAt(s, k, m)'
    BY <1>4, <1>7, <2>1, <2>2 DEF ReadingAt
  <2>4. Here' = s
    BY <1>3, <1>7 DEF Here
  <2>5. Reading(s)'
    BY <1>7, <2>3, <2>4 DEF Reading
  <2> QED BY <1>5, <1>7, <2>5 DEF Progress
<1>8. CASE pc' = "sensors"
  <2>1. k = m
    BY <1>2, <1>3, <1>8
  <2>2. reader = "hwmon" /\ TheFile.id = "name" /\ Got # None
    BY <1>3, <1>8 DEF TheFile, Got, Here
  <2>3. TheFile = t[n + 1] /\ n + 1 \in DOMAIN t
    BY <1>1, NextFile DEF Left, TheFile
  <2>4. t[1].id = "name" /\ 1 \in DOMAIN t
    BY <1>1, <2>2, HwmonTable DEF IsTable
  <2>5. n + 1 = 1
    BY <1>1, <2>2, <2>3, <2>4 DEF IsTable
  <2>6. k = 1
    BY <2>2, <2>5
  <2>7. Left(AllFiles(reader), k, m)'
    BY <1>3, <1>4 DEF Left
  <2>8. ReadingAt(s, k, m)'
    BY <1>4, <1>8, <2>1, <2>6, <2>7 DEF ReadingAt
  <2>9. Here' = s
    BY <1>3, <1>8 DEF Here
  <2>10. Reading(s)'
    BY <1>8, <2>8, <2>9 DEF Reading
  <2> QED BY <1>5, <1>8, <2>10 DEF Progress
<1> QED BY <1>3, <1>6, <1>7, <1>8

\* The device in front is read one file further.
LEMMA SteadyReadField ==
  ASSUME ReadInv, Ascending(queue), ReadField, NEW s \in Steady, Here = s, Reading(s)
  PROVE  Progress(s)'
<1> USE DEF ReadInv
<1>1. PICK t : t = AllFiles(reader)
  OBVIOUS
<1>2. PICK n \in Nat, m \in Nat : ReadingAt(s, n, m)
  BY DEF Reading
<1>3. PICK k \in Nat : k = n + 1
  OBVIOUS
<1>4. PICK filled : filled = [row EXCEPT ![TheFile.field] = Got]
  OBVIOUS
<1>5. /\ pc = "file" /\ reader # "throttle" /\ UNCHANGED <<systemVars, reader, result>>
      /\ Got # None \/ TheFile.lost = "field"
      /\ After(Tail(files))
      /\ IF TheFile.last
         THEN /\ Push(filled)
              /\ row' = [f \in Fields(reader) |-> IF f = "source" THEN row[f] ELSE None]
         ELSE row' = filled /\ rows' = rows
  BY <1>4 DEF ReadField, Unchanged
<1>6. Same(s) /\ dev[s] # None /\ s \in Slots
  BY <1>5 DEF Same, systemVars, Steady
<1>7. reader \in AllReaders
  BY ReadersAssumption DEF DeviceInv, AllReaders
<1>8. /\ IsTable(t) /\ Len(t) \in Nat /\ RowTable(t)
      /\ \A i \in DOMAIN t : t[i].field \in Fields(reader)
  BY <1>1, <1>5, <1>7, TableOf, RowTables
<1>9. /\ n < m /\ m <= Len(t) /\ m \in {Len(FilesOf[reader]), Len(t)} /\ Left(t, n, m)
      /\ n = 0 => m = Len(FilesOf[reader])
      /\ RowAt(t, s, n) /\ Reported(s, n)
  BY <1>1, <1>2, <1>5 DEF ReadingAt
<1>10. TheFile = t[k] /\ k \in DOMAIN t /\ Tail(files) = Rest(t, k, m)
  BY <1>3, <1>8, <1>9, NextFile DEF Left, TheFile
<1>11. Got = Read(s, t[k])
  BY <1>10 DEF Got
<1>12. Read(s, t[k]) # None \/ t[k].lost = "field"
  BY <1>5, <1>10, <1>11
<1>13. DOMAIN row = Fields(reader) /\ rows \in Seq(Range(rows))
  BY DEF RowInv, RowsOK
<1>14. FilledIn(filled, s, t[k])
  BY <1>4, <1>10, <1>11 DEF FilledIn
<1>15. RowAt(t, s, k)'
  <2>1. CASE t[k].last
    <3>1. row' = [f \in Fields(reader) |-> IF f = "source" THEN row[f] ELSE None]
      BY <1>5, <1>10, <2>1
    <3> QED BY <1>3, <1>6, <1>8, <1>9, <1>10, <2>1, <3>1, RowPushed
  <2>2. CASE ~t[k].last
    <3>1. row' = [row EXCEPT ![t[k].field] = Read(s, t[k])]
      BY <1>5, <1>10, <1>14, <2>2 DEF FilledIn
    <3> QED BY <1>3, <1>6, <1>8, <1>9, <1>10, <1>12, <1>13, <2>2, <3>1, FieldRead
  <2> QED BY <2>1, <2>2
<1>16. Reported(s, k)'
  <2>1. CASE t[k].last
    <3>1. PICK i : Ends(k, i)
      BY DEF Ends
    <3>2. i \in DueRows(s) /\ EndOf(i) = k
      BY <1>1, <1>3, <1>5, <1>7, <1>9, <1>10, <1>12, <2>1, <3>1, RowIsDue
    <3>3. PICK r : r = DueRow(s, i)
      OBVIOUS
    <3>4. dev[s][1] \in Device(reader, dev[s][1].born)
      BY <1>6 DEF DeviceInv, DeviceOK
    <3>5. [slot |-> s, fields |-> filled, fallback |-> Fallback(filled)] = DueRow(s, i)
      BY <1>1, <1>3, <1>5, <1>6, <1>7, <1>9, <1>10, <1>12, <1>13, <1>14, <2>1, <3>1, <3>4,
         PushedIsDue
    <3>6. rows' = Append(rows, r)
      BY <1>5, <1>10, <2>1, <3>3, <3>5 DEF Push, Here
    <3> QED BY <1>1, <1>3, <1>5, <1>6, <1>7, <1>8, <1>9, <1>13, <3>2, <3>3, <3>6,
               ReportedPush
  <2>2. CASE ~t[k].last
    <3>1. rows' = rows
      BY <1>5, <1>10, <2>2
    <3>2. ASSUME NEW i \in DueRows(s) PROVE EndOf(i) <= k <=> EndOf(i) <= n
      <4>1. EndOf(i) \in DOMAIN t /\ t[EndOf(i)].last
        BY <1>1, <1>5, <1>7, DueEnds
      <4>2. EndOf(i) # k
        BY <2>2, <4>1
      <4>3. EndOf(i) \in Nat
        BY <1>8, <4>1 DEF IsTable
      <4> QED BY <1>3, <4>2, <4>3
    <3> QED BY <1>6, <1>9, <1>13, <3>1, <3>2, ReportedKept
  <2> QED BY <2>1, <2>2
<1>17. ASSUME pc' = "device" PROVE k = Len(t)
  <2>1. Rest(t, k, m) = <<>>
    BY <1>5, <1>10, <1>17 DEF After
  <2>2. k <= m
    BY <1>3, <1>9
  <2>3. k = m
    BY <1>8, <1>9, <2>1, <2>2, Remaining
  <2>4. CASE reader # "hwmon"
    BY <1>1, <1>7, <1>9, <2>3, <2>4, ReaderTables
  <2>5. CASE reader = "hwmon"
    <3>1. /\ Len(FilesOf[reader]) = 1 /\ t[1].id = "name" /\ t[1].lost = "row"
      BY <1>1, <2>5, HwmonTable
    <3>2. ASSUME k = 1 PROVE FALSE
      <4>1. Got # None /\ TheFile.id = "name"
        BY <1>10, <1>11, <1>12, <3>1, <3>2
      <4>2. pc' = "sensors"
        BY <1>5, <1>10, <2>1, <2>5, <4>1 DEF After, Got, TheFile, Here
      <4> QED BY <1>17, <4>2
    <3> QED BY <1>9, <2>3, <3>1, <3>2
  <2> QED BY <2>4, <2>5
<1>18. n < k /\ k <= m /\ (Got # None => k = n + 1)
  BY <1>3, <1>9
<1>19. pc' = "device" => Reported(s, Len(t))'
  BY <1>16, <1>17
<1>20. reader' = reader /\ result' = result /\ After(Rest(t, k, m))
  BY <1>5, <1>10
<1> QED BY <1>1, <1>5, <1>9, <1>15, <1>16, <1>18, <1>19, <1>20, Onward

\* A row is given up that the device in front is not due.
LEMMA SteadySkipRow ==
  ASSUME ReadInv, Ascending(queue), reader # "throttle", SkipRow,
         NEW s \in Steady, Here = s, Reading(s)
  PROVE  Progress(s)'
<1> USE DEF ReadInv
<1>1. PICK t : t = AllFiles(reader)
  OBVIOUS
<1>2. PICK n \in Nat, m \in Nat : ReadingAt(s, n, m)
  BY DEF Reading
<1>3. PICK h \in Nat : h = n + 1
  OBVIOUS
<1>4. /\ pc = "file" /\ UNCHANGED <<systemVars, reader, result, row, rows>>
      /\ After(NextRow) /\ Got = None /\ TheFile.lost = "row"
  BY DEF SkipRow, Unchanged
<1>5. Same(s) /\ dev[s] # None /\ s \in Slots
  BY <1>4 DEF Same, systemVars, Steady
<1>6. reader \in AllReaders
  BY ReadersAssumption DEF DeviceInv, AllReaders
<1>7. IsTable(t) /\ Len(t) \in Nat /\ RowTable(t) /\ DOMAIN t = 1..Len(t)
  BY <1>1, <1>6, TableOf, RowTables
<1>8. /\ n < m /\ m <= Len(t) /\ m \in {Len(FilesOf[reader]), Len(t)} /\ Left(t, n, m)
      /\ n = 0 => m = Len(FilesOf[reader])
      /\ RowAt(t, s, n) /\ Reported(s, n)
  BY <1>1, <1>2, <1>4 DEF ReadingAt
<1>9. TheFile = t[h] /\ h \in DOMAIN t
  BY <1>3, <1>7, <1>8, NextFile DEF Left, TheFile
<1>10. Read(s, t[h]) = None /\ t[h].lost = "row"
  BY <1>4, <1>9 DEF Got
<1>11. PICK k \in Nat : /\ n < k /\ k <= m /\ NextRow = Rest(t, k, m)
                        /\ k = m \/ t[k].last
                        /\ \A i \in Nat : n < i /\ i < k => ~t[i].last
  <2>1. IsTable(t) /\ n < m /\ m <= Len(t) /\ Left(t, n, m)
    BY <1>7, <1>8
  <2> QED BY <2>1, NextRowIs
<1>12. rows \in Seq(Range(rows)) /\ queue \in Seq(Slots) /\ queue # <<>>
  BY <1>4 DEF RowInv, RowsOK, ControlInv
<1>13. PICK lost : lost = {j \in DOMAIN t : t[j].lost = "row" /\ Read(s, t[j]) = None}
  OBVIOUS
<1>14. h \in lost
  BY <1>9, <1>10, <1>13
<1>15. DueRows(s) = IF 1 \in lost THEN {}
                    ELSE IF reader = "hwmon" THEN {j \in {2, 4} : j \notin lost} ELSE {1}
  BY <1>1, <1>13 DEF DueRows
<1>16. CASE n = 0
  <2>1. DueRows(s) = {}
    BY <1>3, <1>14, <1>15, <1>16
  <2>2. k = m
    <3>1. CASE reader = "hwmon"
      <4>1. Len(FilesOf[reader]) = 1
        BY <3>1, HwmonTable
      <4> QED BY <1>8, <1>11, <1>16, <4>1
    <3>2. CASE reader # "hwmon"
      <4>1. OneRow(t) /\ m = Len(t)
        BY <1>1, <1>6, <1>8, <1>16, <3>2, ReaderTables
      <4>2. k \in DOMAIN t
        <5>1. PICK l \in Nat : l = Len(t)
          BY <1>7
        <5>2. k \in 1..l
          BY <1>8, <1>11, <5>1
        <5> QED BY <1>7, <5>1, <5>2
      <4>3. t[k].last => k = Len(t)
        BY <4>1, <4>2, Zenon DEF OneRow
      <4> QED BY <1>11, <4>1, <4>3
    <3> QED BY <3>1, <3>2
  <2>3. NextRow = <<>>
    <3>1. IsTable(t) /\ k <= m /\ m <= Len(t) /\ NextRow = Rest(t, k, m)
      BY <1>7, <1>8, <1>11
    <3> QED BY <2>2, <3>1, Remaining
  <2>4. pc' = "device" /\ queue' = Tail(queue)
    BY <1>4, <2>3 DEF After, Got, TheFile, Here
  <2>5. Reported(s, Len(t))'
    BY <1>4, <1>5, <1>7, <1>8, <1>12, <2>1, ReportedKept
  <2>6. Finished(s)'
    BY <1>1, <1>4, <1>12, <2>4, <2>5, Done
  <2>7. result' = None /\ result' # Some("ok")
    BY <1>4 DEF ControlInv, Some, None
  <2> QED BY <2>4, <2>6, <2>7 DEF Progress
<1>17. CASE n # 0
  <2>1. h # 1 /\ n >= 1
    BY <1>3, <1>17
  <2>2. reader = "hwmon"
    <3> SUFFICES ASSUME reader # "hwmon" PROVE FALSE
      OBVIOUS
    <3>1. OneRow(t)
      BY <1>1, <1>6, ReaderTables
    <3> QED BY <1>9, <1>10, <2>1, <3>1 DEF OneRow
  <2>3. /\ Len(t) = 5 /\ DOMAIN t = 1..5
        /\ t[1].lost = "row" /\ t[2].lost = "row" /\ t[3].lost = "field"
        /\ t[4].lost = "row" /\ t[5].lost = "field"
        /\ ~t[1].last /\ ~t[2].last /\ t[3].last /\ ~t[4].last /\ t[5].last
        /\ \A j \in DOMAIN t : j = 1 \/ j = 2 \/ j = 3 \/ j = 4 \/ j = 5
    BY <1>1, <2>2, HwmonFiles
  <2>4. (h = 2 /\ n = 1) \/ (h = 4 /\ n = 3)
    BY <1>3, <1>9, <1>10, <2>1, <2>3
  <2>5. m = 5
    <3>1. Len(FilesOf[reader]) = 1
      BY <2>2, HwmonTable
    <3> QED BY <1>8, <2>1, <2>3, <3>1
  <2>6. t[k].last /\ k \in DOMAIN t
    BY <1>11, <2>3, <2>5
  <2>7. (h = 2 /\ n = 1 /\ k = 3) \/ (h = 4 /\ n = 3 /\ k = 5)
    <3>1. k \in 1..5
      BY <2>3, <2>6
    <3>2. k = 3 \/ k = 5
      BY <2>3, <2>6
    <3>3. ~(n < 3 /\ 3 < k)
      BY <1>11, <2>3
    <3> QED BY <1>11, <2>4, <3>2, <3>3
  <2>8. ASSUME NEW i \in DueRows(s) PROVE EndOf(i) <= k <=> EndOf(i) <= n
    <3>1. (i = 2 \/ i = 4) /\ i # h
      BY <1>14, <1>15, <2>2
    <3>2. EndOf(i) = i + 1
      BY <2>2 DEF EndOf
    <3>3. (i = 2 /\ EndOf(i) = 3) \/ (i = 4 /\ EndOf(i) = 5)
      BY <3>1, <3>2
    <3> QED BY <2>7, <3>1, <3>3
  <2>9. RowAt(t, s, k)'
    BY <1>3, <1>4, <1>5, <1>7, <1>8, <1>9, <1>10, <1>11, <2>1, <2>6, RowGivenUp
  <2>10. Reported(s, k)'
    BY <1>4, <1>5, <1>8, <1>12, <2>8, ReportedKept
  <2>11. pc' = "device" => Reported(s, Len(t))'
    <3>1. pc' = "device" => NextRow = <<>>
      BY <1>4 DEF After
    <3>2. NextRow = <<>> => k = m
      <4>1. IsTable(t) /\ k <= m /\ m <= Len(t) /\ NextRow = Rest(t, k, m)
        BY <1>7, <1>8, <1>11
      <4> QED BY <4>1, Remaining
    <3> QED BY <2>3, <2>5, <2>10, <3>1, <3>2
  <2>12. reader' = reader /\ result' = result /\ After(Rest(t, k, m))
    BY <1>4, <1>11
  <2> QED BY <1>1, <1>4, <1>8, <1>11, <2>9, <2>10, <2>11, <2>12, Onward
<1> QED BY <1>16, <1>17

\* The first places of a call, where nothing was listed.
Early == {"exists", "policy", "list"}

\* The devices go on in their order.
LEMMA SortedOnward ==
  ASSUME Sorted, RowsOK, queue \in Seq(Slots), queue # <<>>,
         queue' \in {queue, Tail(queue)}, pc' \notin Early,
         rows' = rows \/ \E r : r.slot = Here /\ rows' = Append(rows, r)
  PROVE  Sorted'
<1>1. Ascending(queue)
  BY DEF Sorted
<1>2. /\ Here \in Slots /\ 1 \in DOMAIN queue /\ queue[1] = Here
      /\ \A i \in DOMAIN Tail(queue) :
           i + 1 \in DOMAIN queue /\ Tail(queue)[i] = queue[i + 1]
      /\ \A i \in DOMAIN queue : i # 1 =>
           \E j \in DOMAIN Tail(queue) : i = j + 1 /\ Tail(queue)[j] = queue[i]
  BY QueueTail
<1>3. \A i \in DOMAIN queue : queue[i] \in Int
  <2>1. \A i \in DOMAIN queue : queue[i] \in Slots
    OBVIOUS
  <2>2. \A s \in Slots : s \in Int
    BY SlotsAssumption
  <2> QED BY <2>1, <2>2
<1>4. \A k \in DOMAIN rows : rows[k].slot \in Int /\ rows[k].slot <= Here
  <2>1. \A k \in DOMAIN rows : rows[k].slot \in Int
    <3>1. \A k \in DOMAIN rows : rows[k].slot \in Slots
      BY DEF RowsOK, RowOK
    <3>2. \A s \in Slots : s \in Int
      BY SlotsAssumption
    <3> QED BY <3>1, <3>2
  <2>2. \A k \in DOMAIN rows : rows[k].slot <= Here
    BY <1>2 DEF Sorted
  <2> QED BY <2>1, <2>2
<1>5. Ascending(Tail(queue)) /\ \A i \in DOMAIN Tail(queue) : Here < Tail(queue)[i]
  BY <1>1, AscendingTail
<1>6. Here \in Int
  BY <1>2, SlotsAssumption
<1>7. \A i \in DOMAIN queue : Here <= queue[i]
  <2> SUFFICES ASSUME NEW i \in DOMAIN queue PROVE Here <= queue[i]
    OBVIOUS
  <2>1. CASE i = 1
    BY <1>2, <1>6, <2>1
  <2>2. CASE i # 1
    <3>1. PICK j \in DOMAIN Tail(queue) : Tail(queue)[j] = queue[i]
      BY <1>2, <2>2
    <3>2. Here < queue[i]
      BY <1>5, <3>1
    <3> QED BY <1>3, <1>6, <3>2
  <2> QED BY <2>1, <2>2
<1>8. /\ Ascending(queue') /\ \A i \in DOMAIN queue' : queue'[i] \in Int /\ Here <= queue'[i]
  <2>1. CASE queue' = queue
    BY <1>1, <1>3, <1>7, <2>1
  <2>2. CASE queue' = Tail(queue)
    <3>1. \A i \in DOMAIN queue' : queue'[i] \in Int /\ Here < queue'[i]
      BY <1>2, <1>3, <1>5, <2>2
    <3>2. \A i \in DOMAIN queue' : queue'[i] \in Int /\ Here <= queue'[i]
      BY <1>6, <3>1
    <3> QED BY <1>5, <2>2, <3>2
  <2> QED BY <2>1, <2>2
<1>9. PICK l : l = Len(rows)
  OBVIOUS
<1>10. /\ \A k \in DOMAIN rows' : \/ k \in DOMAIN rows /\ rows'[k] = rows[k]
                                  \/ k = l + 1 /\ rows'[k].slot = Here
       /\ DOMAIN rows = 1..l /\ l \in Nat
  <2>1. rows \in Seq(Range(rows))
    BY DEF RowsOK
  <2>2. CASE rows' = rows
    BY <1>9, <2>1, <2>2
  <2>3. CASE \E r : r.slot = Here /\ rows' = Append(rows, r)
    <3>1. PICK r : r.slot = Here /\ rows' = Append(rows, r)
      BY <2>3
    <3>2. /\ Len(rows) \in Nat /\ DOMAIN rows = 1..Len(rows)
          /\ DOMAIN rows' = 1..(Len(rows) + 1) /\ rows'[Len(rows) + 1] = r
          /\ \A q \in DOMAIN rows : q \in DOMAIN rows' /\ rows'[q] = rows[q]
          /\ \A q \in DOMAIN rows' : q = Len(rows) + 1 \/ q \in DOMAIN rows
      BY <2>1, <3>1, PushKeeps
    <3> QED BY <1>9, <3>1, <3>2
  <2> QED BY <2>2, <2>3
<1>11. \A k \in DOMAIN rows' : rows'[k].slot \in Int /\ rows'[k].slot <= Here
  <2> SUFFICES ASSUME NEW k \in DOMAIN rows'
               PROVE  rows'[k].slot \in Int /\ rows'[k].slot <= Here
    OBVIOUS
  <2>1. CASE k \in DOMAIN rows /\ rows'[k] = rows[k]
    BY <1>4, <2>1
  <2>2. CASE rows'[k].slot = Here
    BY <1>6, <2>2
  <2> QED BY <1>10, <2>1, <2>2
<1>12. ASSUME NEW k \in DOMAIN rows', NEW h \in DOMAIN rows', k < h
       PROVE  rows'[k].slot <= rows'[h].slot
  <2>1. CASE h \in DOMAIN rows /\ rows'[h] = rows[h]
    <3>1. k # l + 1
      BY <1>10, <1>12, <2>1
    <3>2. k \in DOMAIN rows /\ rows'[k] = rows[k]
      BY <1>10, <3>1
    <3> QED BY <1>12, <2>1, <3>2 DEF Sorted
  <2>2. CASE rows'[h].slot = Here
    BY <1>11, <2>2
  <2> QED BY <1>10, <2>1, <2>2
<1>13. ASSUME NEW k \in DOMAIN rows', NEW i \in DOMAIN queue'
       PROVE  rows'[k].slot <= queue'[i]
  <2>1. rows'[k].slot \in Int /\ rows'[k].slot <= Here
    BY <1>11
  <2>2. queue'[i] \in Int /\ Here <= queue'[i]
    BY <1>8
  <2> QED BY <1>6, <2>1, <2>2
<1> QED BY <1>8, <1>12, <1>13 DEF Sorted, Early

\* So they begin.
LEMMA SortedBegins ==
  ASSUME Sorted, pc \in Early, pc' \notin Early, rows' = rows, Ascending(queue')
  PROVE  Sorted' /\ rows' = <<>>
<1>1. rows' = <<>>
  BY DEF Sorted, Early
<1>2. DOMAIN rows' = {}
  BY <1>1
<1> QED BY <1>1, <1>2 DEF Sorted, Early

\* Nothing changes for the devices.
LEMMA SortedStays ==
  ASSUME Sorted, queue' = queue, rows' = rows, pc' \in Early => pc \in Early
  PROVE  Sorted'
<1>1. rows' = rows /\ queue' = queue
  OBVIOUS
<1>2. Ascending(queue)
  BY DEF Sorted
<1>3. Ascending(queue')
  BY <1>1, <1>2
<1>4. \A k, l \in DOMAIN rows' : k < l => rows'[k].slot <= rows'[l].slot
  BY <1>1 DEF Sorted
<1>5. \A k \in DOMAIN rows' : \A i \in DOMAIN queue' : rows'[k].slot <= queue'[i]
  BY <1>1 DEF Sorted
<1>6. pc' \in Early => rows' = <<>> /\ queue' = <<>>
  BY <1>1 DEF Sorted, Early
<1> QED BY <1>3, <1>4, <1>5, <1>6 DEF Sorted, Early

\* The row at hand of a device that did not change.
LEMMA RowAtKept ==
  ASSUME NEW t, NEW s, Same(s), NEW n, RowAt(t, s, n), row' = row
  PROVE  RowAt(t, s, n)'
<1>1. \A f : Read(s, f)' = Read(s, f)
  BY SameRead
<1> QED BY <1>1 DEF RowAt, Same

\* While another device is in front.
LEMMA OthersGoOn ==
  ASSUME NEW s, Same(s), queue \in Seq(Slots), queue # <<>>, Here # s, RowsOK,
         queue' = queue \/ (queue' = Tail(queue) /\ pc' = "device"),
         pc' \in {"device", "file", "sensors"},
         rows' = rows \/ \E r : r.slot # s /\ rows' = Append(rows, r),
         result' = None, Waiting(s) \/ Finished(s), Len(AllFiles(reader)) \in Nat
  PROVE  Progress(s)'
<1>1. /\ 1 \in DOMAIN queue /\ queue[1] = Here
      /\ \A i \in DOMAIN Tail(queue) :
           i + 1 \in DOMAIN queue /\ Tail(queue)[i] = queue[i + 1]
      /\ \A i \in DOMAIN queue : i # 1 =>
           \E j \in DOMAIN Tail(queue) : i = j + 1 /\ Tail(queue)[j] = queue[i]
  BY QueueTail
<1>2. rows \in Seq(Range(rows))
  BY DEF RowsOK
<1>3. ASSUME Waiting(s) PROVE Waiting(s)'
  <2>1. PICK i \in DOMAIN queue : queue[i] = s
    BY <1>3 DEF Waiting
  <2>2. i # 1
    BY <1>1, <2>1
  <2>3. \E j \in DOMAIN queue' : queue'[j] = s /\ (j = 1 => pc' = "device")
    <3>1. CASE queue' = queue
      BY <2>1, <2>2, <3>1
    <3>2. CASE queue' = Tail(queue) /\ pc' = "device"
      <4>1. PICK j \in DOMAIN Tail(queue) : Tail(queue)[j] = s
        BY <1>1, <2>1, <2>2
      <4> QED BY <3>2, <4>1
    <3> QED BY <3>1, <3>2
  <2>4. \A k \in DOMAIN rows' : rows'[k].slot # s
    <3>1. CASE rows' = rows
      BY <1>3, <3>1 DEF Waiting
    <3>2. CASE \E r : r.slot # s /\ rows' = Append(rows, r)
      <4>1. PICK r : r.slot # s /\ rows' = Append(rows, r)
        BY <3>2
      <4>2. \A k \in DOMAIN rows' : rows'[k] = r \/ (k \in DOMAIN rows /\ rows'[k] = rows[k])
        BY <1>2, <4>1, PushRow
      <4> QED BY <1>3, <4>1, <4>2 DEF Waiting
    <3> QED BY <3>1, <3>2
  <2> QED BY <2>3, <2>4 DEF Waiting
<1>4. ASSUME Finished(s) PROVE Finished(s)'
  <2>1. \A i \in DOMAIN queue' : queue'[i] # s
    <3>1. \A i \in DOMAIN queue : queue[i] # s
      BY <1>4 DEF Finished
    <3>2. CASE queue' = queue
      BY <3>1, <3>2
    <3>3. CASE queue' = Tail(queue)
      BY <1>1, <3>1, <3>3
    <3> QED BY <3>2, <3>3
  <2>2. Reported(s, Len(AllFiles(reader)))
    BY <1>4 DEF Finished
  <2>3. PICK l \in Nat : l = Len(AllFiles(reader))
    OBVIOUS
  <2>4. Reported(s, l)'
    BY <1>2, <2>2, <2>3, ReportedKept
  <2>5. Len(AllFiles(reader))' = l
    BY <2>3 DEF Same
  <2> QED BY <2>1, <2>4, <2>5 DEF Finished
<1>5. result' # Some("ok")
  BY DEF Some, None
<1> QED BY <1>3, <1>4, <1>5 DEF Progress

\* A device that waits for the list.
LEMMA WaitingBegins ==
  ASSUME NEW s, \E i \in DOMAIN queue' : queue'[i] = s, rows' = <<>>,
         pc' = "device", result' = None
  PROVE  Progress(s)'
<1>1. DOMAIN rows' = {}
  OBVIOUS
<1>2. Waiting(s)'
  BY <1>1 DEF Waiting
<1>3. result' # Some("ok")
  BY DEF Some, None
<1> QED BY <1>2, <1>3 DEF Progress

\* Nothing happens to the device.
LEMMA ProgressStays ==
  ASSUME NEW s, Same(s), Progress(s), RowsOK, Len(AllFiles(reader)) \in Nat,
         UNCHANGED <<pc, queue, files, row, rows, result>>
  PROVE  Progress(s)'
<1>1. rows \in Seq(Range(rows))
  BY DEF RowsOK
<1>2. Waiting(s) => Waiting(s)'
  BY DEF Waiting
<1>3. \A n \in Nat : Reported(s, n) => Reported(s, n)'
  BY <1>1, ReportedKept
<1>4. Finished(s) => Finished(s)'
  BY <1>3 DEF Finished, Same
<1>5. Reading(s) => Reading(s)'
  <2> SUFFICES ASSUME Reading(s) PROVE Reading(s)'
    OBVIOUS
  <2>1. PICK n \in Nat, m \in Nat : ReadingAt(s, n, m)
    BY DEF Reading
  <2>2. PICK t : t = AllFiles(reader)
    OBVIOUS
  <2>3. RowAt(t, s, n)'
    BY <2>1, <2>2, RowAtKept DEF ReadingAt
  <2>4. Reported(s, n)'
    BY <1>3, <2>1 DEF ReadingAt
  <2>5. AllFiles(reader)' = t /\ FilesOf[reader]' = FilesOf[reader]
    BY <2>2 DEF Same
  <2>6. Left(t, n, m)'
    BY <2>1, <2>2 DEF ReadingAt, Left
  <2>7. ReadingAt(s, n, m)'
    BY <2>1, <2>2, <2>3, <2>4, <2>5, <2>6 DEF ReadingAt
  <2>8. pc' \in {"file", "sensors"} /\ Here' = s
    BY DEF Reading, Here
  <2> QED BY <2>7, <2>8 DEF Reading
<1> QED BY <1>2, <1>4, <1>5 DEF Progress

\* The device in front is opened.
LEMMA SteadyOpenDevice ==
  ASSUME ReadInv, reader # "throttle", OpenDevice,
         NEW s \in Steady, Here = s, Waiting(s)
  PROVE  Progress(s)'
<1> USE DEF ReadInv
<1>1. PICK t : t = AllFiles(reader)
  OBVIOUS
<1>2. /\ pc = "device" /\ pc' = "file" /\ files' = FilesOf[reader] /\ row' = Empty(reader)
      /\ UNCHANGED <<systemVars, reader, result, queue, rows>>
  BY DEF OpenDevice, Unchanged
<1>3. Same(s)
  BY <1>2 DEF Same, systemVars
<1>4. reader \in AllReaders
  BY ReadersAssumption DEF DeviceInv, AllReaders
<1>5. PICK m \in Nat : m = Len(FilesOf[reader])
  BY <1>1, TableOf
<1>6. IsTable(t) /\ 1 <= m /\ m <= Len(t) /\ FilesOf[reader] = Rest(t, 0, m)
  BY <1>1, <1>5, TableOf
<1>7. \A j \in DOMAIN t : j \in Nat /\ j >= 1
  BY <1>6 DEF IsTable
<1>8. \A j \in DOMAIN t : ~Current(t, j, 0)
  BY <1>7 DEF Current
<1>9. RowAt(t, s, 0)'
  <2>1. \A f \in Fields(reader) : row'[f] = None
    BY <1>2 DEF Empty
  <2> QED BY <1>2, <1>8, <2>1 DEF RowAt
<1>10. Reported(s, 0)'
  <2>1. \A i \in DueRows(s) : ~(EndOf(i) <= 0)
    <3>1. \A i \in DueRows(s) : EndOf(i) \in DOMAIN t
      BY <1>1, <1>4, DueEnds
    <3> QED BY <1>7, <3>1
  <2>2. \A q \in DOMAIN rows' : rows'[q].slot # s
    BY <1>2 DEF Waiting
  <2>3. \A i : DueRow(s, i).slot = s
    BY DEF DueRow
  <2> QED BY <1>3, <2>1, <2>2, <2>3, ReportedNext
<1>11. Left(AllFiles(reader), 0, m)'
  BY <1>1, <1>2, <1>6 DEF Left
<1>12. AllFiles(reader)' = t /\ FilesOf[reader]' = FilesOf[reader]
  BY <1>1, <1>2
<1>13. 0 \in Nat /\ 0 < m /\ 0 <= m
  BY <1>6
<1>14. ReadingAt(s, 0, m)'
  BY <1>2, <1>5, <1>6, <1>9, <1>10, <1>11, <1>12, <1>13 DEF ReadingAt
<1>15. Here' = s
  BY <1>2 DEF Here
<1>16. Reading(s)'
  BY <1>2, <1>13, <1>14, <1>15 DEF Reading
<1>17. result' = None /\ result' # Some("ok")
  BY <1>2 DEF ControlInv, Some, None
<1> QED BY <1>2, <1>16, <1>17 DEF Progress

\* The sensors of the chip in front are listed.
LEMMA SteadyListSensors ==
  ASSUME ReadInv, ListSensors, NEW s \in Steady, Here = s, Reading(s)
  PROVE  Progress(s)'
<1> USE DEF ReadInv
<1>1. PICK t : t = AllFiles(reader)
  OBVIOUS
<1>2. /\ pc = "sensors" /\ dev[s] # None
      /\ pc' = "file" /\ files' = Sensors /\ queue' = queue
      /\ UNCHANGED <<systemVars, reader, result, row, rows>>
  BY DEF ListSensors, Unchanged, Steady
<1>3. reader = "hwmon"
  BY <1>2 DEF RowInv
<1>4. PICK n \in Nat, m \in Nat : ReadingAt(s, n, m)
  BY DEF Reading
<1>5. n = 1 /\ RowAt(t, s, n) /\ Reported(s, n)
  BY <1>1, <1>2, <1>4 DEF ReadingAt
<1>6. Same(s)
  BY <1>2 DEF Same, systemVars
<1>7. rows \in Seq(Range(rows))
  BY DEF RowInv, RowsOK
<1>8. RowAt(t, s, 1)' /\ Reported(s, 1)'
  <2>1. RowAt(t, s, n)'
    BY <1>2, <1>5, <1>6, RowAtKept
  <2>2. Reported(s, n)'
    BY <1>2, <1>5, <1>6, <1>7, ReportedKept
  <2> QED BY <1>5, <2>1, <2>2
<1>9. Len(t) = 5 /\ Sensors = Rest(t, 1, 5)
  BY <1>1, <1>3, HwmonTable DEF Rest
<1>10. AllFiles(reader)' = t /\ FilesOf[reader]' = FilesOf[reader]
  BY <1>1, <1>2
<1>11. Left(t, 1, 5)'
  BY <1>2, <1>9 DEF Left
<1>12. ReadingAt(s, 1, 5)'
  BY <1>2, <1>8, <1>9, <1>10, <1>11 DEF ReadingAt
<1>13. Here' = s
  BY <1>2 DEF Here
<1>14. Reading(s)'
  BY <1>2, <1>12, <1>13 DEF Reading
<1>15. result' = None /\ result' # Some("ok")
  BY <1>2 DEF ControlInv, Some, None
<1> QED BY <1>2, <1>14, <1>15 DEF Progress

\* Every step of a reader brings the devices further that are left alone.
LEMMA ProgressProgram ==
  ASSUME ReadInv, reader # "throttle", Sorted, Program, NEW s \in Owed, Progress(s)
  PROVE  Progress(s)'
<1> USE DEF ReadInv
<1>1. UNCHANGED <<systemVars, reader, before>>
  BY ProgramReads
<1>2. Same(s) /\ s \in Steady /\ s \in Slots /\ dev[s] # None
  BY <1>1 DEF Same, systemVars, Owed, Steady
<1>3. parent
  BY <1>2 DEF DeviceInv, DeviceOK
<1>4. RowsOK /\ queue \in Seq(Slots) /\ Ascending(queue)
  BY DEF RowInv, ControlInv, Sorted
<1>5. Len(AllFiles(reader)) \in Nat
  BY TableOf
<1>6. pc # "done" => result = None
  BY DEF ControlInv
<1>7. (1 \in DOMAIN queue /\ queue[1] = Here) \/ queue = <<>>
  BY <1>4, QueueTail
<1>8. ASSUME NEW r, r # "ok", Return(r) PROVE Progress(s)'
  <2>1. pc' = "done" /\ result' # Some("ok")
    BY <1>8 DEF Return, Some
  <2> QED BY <2>1 DEF Progress
<1>9. ~NoParent
  BY <1>3 DEF NoParent
<1>10. ASSUME NoSuchDevice PROVE Progress(s)'
  BY <1>8, <1>10 DEF NoSuchDevice
<1>11. ASSUME GiveUp \/ ListFails PROVE Progress(s)'
  BY <1>8, <1>11 DEF GiveUp, ListFails
<1>12. ASSUME OpenPci PROVE Progress(s)'
  <2>1. /\ pc = "exists" /\ reader \in {"description", "stats"} /\ pc' = "device"
        /\ queue' = <<0>> /\ rows' = rows /\ result' = result
    BY <1>12 DEF OpenPci, Unchanged
  <2>2. s = 0
    BY <2>1 DEF Owed, Walkers
  <2>3. rows = <<>>
    BY <2>1 DEF Sorted
  <2>4. 1 \in DOMAIN queue' /\ queue'[1] = s
    BY <2>1, <2>2
  <2> QED BY <1>6, <2>1, <2>3, <2>4, WaitingBegins
<1>13. ASSUME ParentExists PROVE Progress(s)'
  <2>1. pc' \in {"policy", "list"} /\ result' = None
    BY <1>6, <1>13 DEF ParentExists, Unchanged
  <2> QED BY <2>1 DEF Progress, Some, None
<1>14. ASSUME CheckPolicy PROVE Progress(s)'
  <2>1. /\ pc = "policy" /\ reader = "cpufreq" /\ rows' = rows /\ result' = result
        /\ pc' = IF dev[0] = None THEN "count" ELSE "device"
        /\ queue' = IF dev[0] = None THEN <<>> ELSE <<0>>
    BY <1>14 DEF CheckPolicy, ControlInv, Unchanged
  <2>2. s = 0
    BY <2>1 DEF Owed, Walkers
  <2>3. rows = <<>>
    BY <2>1 DEF Sorted
  <2>4. pc' = "device" /\ queue' = <<0>>
    BY <1>2, <2>1, <2>2
  <2>5. 1 \in DOMAIN queue' /\ queue'[1] = s
    BY <2>2, <2>4
  <2> QED BY <1>6, <2>1, <2>3, <2>4, <2>5, WaitingBegins
<1>15. ASSUME ListDevices PROVE Progress(s)'
  <2>1. /\ pc = "list" /\ pc' = "device" /\ queue' \in SetToSeqs(Listed)
        /\ rows' = rows /\ result' = result
    BY <1>15 DEF ListDevices, Unchanged
  <2>2. s \in Listed
    BY <1>2 DEF Listed
  <2>3. \E i \in DOMAIN queue' : queue'[i] = s
    BY <2>1, <2>2, ListIsComplete
  <2>4. rows = <<>>
    BY <2>1 DEF Sorted
  <2> QED BY <1>6, <2>1, <2>3, <2>4, WaitingBegins
<1>16. ASSUME SkipVanished PROVE Progress(s)'
  <2>1. /\ pc = "device" /\ queue # <<>> /\ dev[Here] = None /\ pc' = pc
        /\ queue' = Tail(queue) /\ UNCHANGED <<rows, result>>
    BY <1>16 DEF SkipVanished, Unchanged, Here
  <2>2. Here # s
    BY <1>2, <2>1
  <2>3. Waiting(s) \/ Finished(s)
    BY <2>1 DEF Progress, Reading
  <2> QED BY <1>2, <1>4, <1>5, <1>6, <2>1, <2>2, <2>3, OthersGoOn
<1>17. ASSUME OpenDevice PROVE Progress(s)'
  <2>1. /\ pc = "device" /\ queue # <<>> /\ pc' = "file" /\ UNCHANGED <<queue, rows, result>>
    BY <1>17 DEF OpenDevice, Unchanged
  <2>2. Waiting(s) \/ Finished(s)
    BY <2>1 DEF Progress, Reading
  <2>3. CASE Here = s
    <3>1. Waiting(s)
      BY <1>7, <2>1, <2>2, <2>3 DEF Finished
    <3> QED BY <1>2, <1>17, <2>3, <3>1, SteadyOpenDevice
  <2>4. CASE Here # s
    BY <1>2, <1>4, <1>5, <1>6, <2>1, <2>2, <2>4, OthersGoOn
  <2> QED BY <2>3, <2>4
<1>18. ASSUME pc \in {"file", "sensors"}, Here = s PROVE Reading(s)
  <2>1. 1 \in DOMAIN queue /\ queue[1] = s
    BY <1>7, <1>18 DEF ControlInv
  <2>2. ~Finished(s)
    BY <2>1 DEF Finished
  <2>3. ASSUME Waiting(s) PROVE FALSE
    <3>1. PICK i \in DOMAIN queue : queue[i] = s /\ (i = 1 => pc = "device")
      BY <2>3 DEF Waiting
    <3>2. i # 1 /\ queue # <<>>
      BY <1>18, <3>1 DEF ControlInv
    <3>3. PICK j \in DOMAIN Tail(queue) : Tail(queue)[j] = queue[i]
      BY <1>4, <3>1, <3>2, QueueTail
    <3>4. Tail(queue)[j] # Here
      BY <1>4, <3>2, <3>3, AscendingTail
    <3> QED BY <1>18, <3>1, <3>3, <3>4
  <2> QED BY <1>18, <2>2, <2>3 DEF Progress
<1>19. ASSUME pc \in {"file", "sensors"}, Here # s PROVE Waiting(s) \/ Finished(s)
  BY <1>19 DEF Progress, Reading
<1>20. ASSUME ReadField PROVE Progress(s)'
  <2>1. pc = "file" /\ result' = result /\ After(Tail(files)) /\ queue # <<>>
    BY <1>20 DEF ReadField, Unchanged, ControlInv
  <2>2. CASE Here = s
    BY <1>2, <1>4, <1>18, <1>20, <2>1, <2>2, SteadyReadField
  <2>3. CASE Here # s
    <3>1. /\ queue' = queue \/ (queue' = Tail(queue) /\ pc' = "device")
          /\ pc' \in {"device", "file", "sensors"}
      BY <2>1 DEF After
    <3>2. rows' = rows \/ \E r : r.slot # s /\ rows' = Append(rows, r)
      <4>1. rows' = rows \/ \E fields : Push(fields)
        BY <1>20 DEF ReadField
      <4>2. \A fields : Push(fields) => \E r : r.slot = Here /\ rows' = Append(rows, r)
        BY DEF Push, Here
      <4> QED BY <2>3, <4>1, <4>2
    <3>3. Waiting(s) \/ Finished(s)
      BY <1>19, <2>1, <2>3
    <3> QED BY <1>2, <1>4, <1>5, <1>6, <2>1, <2>3, <3>1, <3>2, <3>3, OthersGoOn
  <2> QED BY <2>2, <2>3
<1>21. ASSUME SkipRow PROVE Progress(s)'
  <2>1. pc = "file" /\ result' = result /\ rows' = rows /\ After(NextRow) /\ queue # <<>>
    BY <1>21 DEF SkipRow, Unchanged, ControlInv
  <2>2. CASE Here = s
    BY <1>2, <1>4, <1>18, <1>21, <2>1, <2>2, SteadySkipRow
  <2>3. CASE Here # s
    <3>1. /\ queue' = queue \/ (queue' = Tail(queue) /\ pc' = "device")
          /\ pc' \in {"device", "file", "sensors"}
      BY <2>1 DEF After
    <3>2. Waiting(s) \/ Finished(s)
      BY <1>19, <2>1, <2>3
    <3> QED BY <1>2, <1>4, <1>5, <1>6, <2>1, <2>3, <3>1, <3>2, OthersGoOn
  <2> QED BY <2>2, <2>3
<1>22. ASSUME ListSensors PROVE Progress(s)'
  <2>1. pc = "sensors" /\ result' = result /\ rows' = rows /\ queue # <<>>
    BY <1>22 DEF ListSensors, Unchanged, ControlInv
  <2>2. CASE Here = s
    BY <1>2, <1>18, <1>22, <2>1, <2>2, SteadyListSensors
  <2>3. CASE Here # s
    <3>1. /\ queue' = queue \/ (queue' = Tail(queue) /\ pc' = "device")
          /\ pc' \in {"device", "file", "sensors"}
      BY <1>22 DEF ListSensors
    <3>2. Waiting(s) \/ Finished(s)
      BY <1>19, <2>1, <2>3
    <3> QED BY <1>2, <1>4, <1>5, <1>6, <2>1, <2>3, <3>1, <3>2, OthersGoOn
  <2> QED BY <2>2, <2>3
<1>23. ~AddThrottle
  BY DEF AddThrottle
<1>24. ASSUME Finished(s), rows' = rows, queue' = queue PROVE Finished(s)'
  <2>1. PICK l \in Nat : l = Len(AllFiles(reader))
    BY <1>5
  <2>2. Reported(s, l)'
    BY <1>2, <1>4, <1>24, <2>1, ReportedKept DEF Finished, RowsOK
  <2>3. Len(AllFiles(reader))' = l
    BY <1>2, <2>1 DEF Same
  <2> QED BY <1>24, <2>2, <2>3 DEF Finished
<1>25. ASSUME CountCpus PROVE Progress(s)'
  <2>1. pc = "count" /\ rows' = rows /\ queue' = queue
    BY <1>25 DEF CountCpus
  <2>2. Finished(s)'
    BY <1>24, <2>1 DEF Progress
  <2> QED BY <2>2 DEF Progress
<1>26. ASSUME NoMoreDevices PROVE Progress(s)'
  <2>1. pc = "device" /\ queue = <<>> /\ rows' = rows /\ queue' = queue
    BY <1>26 DEF NoMoreDevices
  <2>2. Finished(s)
    BY <2>1 DEF Progress, Waiting, Reading
  <2>3. Finished(s)'
    BY <1>24, <2>1, <2>2
  <2> QED BY <2>3 DEF Progress
<1> QED BY <1>9, <1>10, <1>11, <1>12, <1>13, <1>14, <1>15, <1>16, <1>17, <1>20, <1>21,
           <1>22, <1>23, <1>25, <1>26 DEF Program

\* Every step of a reader keeps to the order of the devices.
LEMMA SortedProgram ==
  ASSUME ReadInv, reader # "throttle", Sorted, Program
  PROVE  Sorted'
<1> USE DEF ReadInv
<1>1. RowsOK /\ queue \in Seq(Slots)
  BY DEF RowInv, ControlInv
<1>2. ASSUME \/ NoParent \/ NoSuchDevice \/ ParentExists \/ ListFails \/ OpenDevice
             \/ GiveUp \/ CountCpus \/ NoMoreDevices
      PROVE  Sorted'
  <2>1. queue' = queue /\ rows' = rows /\ (pc' \in Early => pc \in Early)
    BY <1>2 DEF NoParent, NoSuchDevice, ParentExists, ListFails, OpenDevice, GiveUp,
          CountCpus, NoMoreDevices, Return, Unchanged, Early
  <2> QED BY <2>1, SortedStays
<1>3. ASSUME OpenPci \/ CheckPolicy PROVE Sorted'
  <2>1. pc \in Early /\ pc' \notin Early /\ rows' = rows /\ (queue' = <<0>> \/ queue' = <<>>)
    BY <1>3 DEF OpenPci, CheckPolicy, Early
  <2>2. Ascending(<<0>>) /\ Ascending(<<>>)
    BY DEF Ascending
  <2>3. Ascending(queue')
    BY <2>1, <2>2
  <2> QED BY <2>1, <2>3, SortedBegins
<1>4. ASSUME ListDevices PROVE Sorted'
  <2>1. /\ pc \in Early /\ pc' \notin Early /\ rows' = rows
        /\ \A i, j \in DOMAIN queue' : i < j => queue'[i] < queue'[j]
    BY <1>4 DEF ListDevices, Early
  <2>2. Ascending(queue')
    BY <2>1 DEF Ascending
  <2> QED BY <2>1, <2>2, SortedBegins
<1>5. ASSUME SkipVanished PROVE Sorted'
  <2>1. queue # <<>> /\ queue' = Tail(queue) /\ pc' \notin Early /\ rows' = rows
    BY <1>5 DEF SkipVanished, Early
  <2> QED BY <1>1, <2>1, SortedOnward
<1>6. ASSUME NEW rest, After(rest) PROVE queue' \in {queue, Tail(queue)} /\ pc' \notin Early
  BY <1>6 DEF After, Early
<1>7. ASSUME ReadField PROVE Sorted'
  <2>1. queue # <<>> /\ After(Tail(files))
    BY <1>7 DEF ReadField, ControlInv
  <2>2. rows' = rows \/ \E r : r.slot = Here /\ rows' = Append(rows, r)
    <3>1. rows' = rows \/ \E fields : Push(fields)
      BY <1>7 DEF ReadField
    <3>2. \A fields : Push(fields) => \E r : r.slot = Here /\ rows' = Append(rows, r)
      BY DEF Push, Here
    <3> QED BY <3>1, <3>2
  <2> QED BY <1>1, <1>6, <2>1, <2>2, SortedOnward
<1>8. ASSUME SkipRow PROVE Sorted'
  <2>1. queue # <<>> /\ After(NextRow) /\ rows' = rows
    BY <1>8 DEF SkipRow, ControlInv
  <2> QED BY <1>1, <1>6, <2>1, SortedOnward
<1>9. ASSUME ListSensors PROVE Sorted'
  <2>1. /\ queue # <<>> /\ queue' \in {queue, Tail(queue)} /\ pc' \notin Early
        /\ rows' = rows
    BY <1>9 DEF ListSensors, ControlInv, Early
  <2> QED BY <1>1, <2>1, SortedOnward
<1>10. ~AddThrottle
  BY DEF AddThrottle
<1> QED BY <1>2, <1>3, <1>4, <1>5, <1>7, <1>8, <1>9, <1>10 DEF Program

\* Every step keeps the promise to the devices that are left alone.
LEMMA SteadyStep ==
  ASSUME ReadInv, SteadyInv, [Next]_vars
  PROVE  SteadyInv'
<1> USE DEF ReadInv
<1>1. RowsOK /\ Len(AllFiles(reader)) \in Nat
  BY TableOf DEF RowInv
<1>2. CASE System
  <2>1. UNCHANGED <<reader, pc, queue, files, row, rows, result>>
    BY <1>2, SystemLeaves
  <2>2. Steady' \subseteq Steady /\ \A s \in Steady' : dev'[s] = dev[s]
    BY <1>2, SystemSteady
  <2> SUFFICES ASSUME reader' # "throttle" PROVE Sorted' /\ \A s \in Owed' : Progress(s)'
    BY DEF SteadyInv
  <2>3. reader # "throttle" /\ Sorted /\ \A s \in Owed : Progress(s)
    BY <2>1 DEF SteadyInv
  <2>4. Sorted'
    BY <2>1, <2>3, SortedStays
  <2>5. ASSUME NEW s \in Owed' PROVE Progress(s)'
    <3>1. s \in Owed /\ Same(s)
      BY <2>1, <2>2, <2>5 DEF Owed, Same
    <3> QED BY <1>1, <2>1, <2>3, <3>1, ProgressStays
  <2> QED BY <2>4, <2>5
<1>3. CASE Program
  <2>1. UNCHANGED <<systemVars, reader, before>>
    BY <1>3, ProgramReads
  <2>2. Owed' = Owed
    BY <2>1 DEF Owed, Steady, systemVars
  <2> SUFFICES ASSUME reader' # "throttle" PROVE Sorted' /\ \A s \in Owed' : Progress(s)'
    BY DEF SteadyInv
  <2>3. reader # "throttle" /\ Sorted /\ \A s \in Owed : Progress(s)
    BY <2>1 DEF SteadyInv
  <2> QED BY <1>3, <2>2, <2>3, SortedProgram, ProgressProgram
<1>4. CASE UNCHANGED vars
  <2>1. UNCHANGED <<systemVars, reader, pc, queue, files, row, rows, result>>
    BY <1>4 DEF vars
  <2>2. Owed' = Owed /\ \A s : Same(s)
    BY <2>1 DEF Owed, Steady, systemVars, Same
  <2> SUFFICES ASSUME reader' # "throttle" PROVE Sorted' /\ \A s \in Owed' : Progress(s)'
    BY DEF SteadyInv
  <2>3. reader # "throttle" /\ Sorted /\ \A s \in Owed : Progress(s)
    BY <2>1 DEF SteadyInv
  <2>4. Sorted'
    BY <2>1, <2>3, SortedStays
  <2> QED BY <1>1, <2>1, <2>2, <2>3, <2>4, ProgressStays
<1> QED BY <1>2, <1>3, <1>4 DEF Next

\* A device that was there and did not change from the beginning of the call
\* to its end is reported as it is: each row that it is due, once and in order,
\* and no other, each field from its own file, in the order of the slots.
\* Its neighbours may come, go, lack files or be skipped.
THEOREM SteadyReported == Spec => []SteadyDevicesTrue
<1>1. Init => SteadyInv
  <2> SUFFICES ASSUME Init PROVE SteadyInv
    OBVIOUS
  <2>1. pc = "exists" /\ queue = <<>> /\ rows = <<>> /\ result = None
    BY DEF Init
  <2>2. DOMAIN queue = {} /\ DOMAIN rows = {}
    BY <2>1
  <2>3. Sorted
    BY <2>1, <2>2 DEF Sorted, Ascending
  <2>4. \A s \in Owed : Progress(s)
    BY <2>1 DEF Progress, Some, None
  <2> QED BY <2>3, <2>4 DEF SteadyInv
<1>2. ASSUME ReadInv, SteadyInv PROVE SteadyDevicesTrue
  <2> USE <1>2 DEF ReadInv
  <2> SUFFICES ASSUME result = Some("ok"), reader # "throttle"
      PROVE  /\ \A k, l \in DOMAIN rows : k < l => rows[k].slot <= rows[l].slot
             /\ \A s \in Slots \ touched :
                  dev[s] # None /\ (reader \notin Walkers => s = 0) =>
                    /\ \A i \in DueRows(s) : \E k \in DOMAIN rows : rows[k] = DueRow(s, i)
                    /\ \A k \in DOMAIN rows :
                         rows[k].slot = s => \E i \in DueRows(s) : rows[k] = DueRow(s, i)
                    /\ \A i, j \in DueRows(s) : \A k, l \in DOMAIN rows :
                         rows[k] = DueRow(s, i) /\ rows[l] = DueRow(s, j) /\ k < l => i < j
    BY DEF SteadyDevicesTrue
  <2>1. \A k, l \in DOMAIN rows : k < l => rows[k].slot <= rows[l].slot
    BY DEF SteadyInv, Sorted
  <2>2. PICK t : t = AllFiles(reader)
    OBVIOUS
  <2>3. IsTable(t) /\ DOMAIN t = 1..Len(t) /\ Len(t) \in Nat
    BY <2>2, TableOf
  <2>4. reader \in AllReaders
    BY ReadersAssumption DEF DeviceInv, AllReaders
  <2>5. ASSUME NEW s \in Slots \ touched, dev[s] # None, reader \notin Walkers => s = 0
        PROVE  /\ \A i \in DueRows(s) : \E k \in DOMAIN rows : rows[k] = DueRow(s, i)
               /\ \A k \in DOMAIN rows :
                    rows[k].slot = s => \E i \in DueRows(s) : rows[k] = DueRow(s, i)
               /\ \A i, j \in DueRows(s) : \A k, l \in DOMAIN rows :
                    rows[k] = DueRow(s, i) /\ rows[l] = DueRow(s, j) /\ k < l => i < j
    <3>1. s \in Owed
      BY <2>5 DEF Owed, Steady
    <3>2. Finished(s)
      BY <3>1 DEF SteadyInv, Progress
    <3>3. Reported(s, Len(t))
      BY <2>2, <3>2 DEF Finished
    <3>4. \A i \in DueRows(s) : EndOf(i) <= Len(t)
      <4>1. \A i \in DueRows(s) : EndOf(i) \in DOMAIN t
        BY <2>2, <2>4, DueEnds
      <4> QED BY <2>3, <4>1
    <3> QED BY <3>3, <3>4 DEF Reported
  <2> QED BY <2>1, <2>5
<1> QED BY <1>1, <1>2, ReadInvariant, SteadyStep, PTL DEF Spec

=============================================================================
