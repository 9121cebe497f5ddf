----------------------------- MODULE WakeTimers -----------------------------
(***************************************************************************)
(* The waketimers subcommand: which systemd timers wake the machine.       *)
(*                                                                         *)
(* dbus::list_systemd_timers takes one ListUnits reply and then, unit by   *)
(* unit, builds a Timer proxy and reads two properties of it, each in a    *)
(* round trip of its own. Units are loaded, changed and removed meanwhile. *)
(* cmd::waketimers::run splits off the waking ones and reads the RTC alarm.*)
(***************************************************************************)
EXTENDS Integers, Sequences, SequencesExt

CONSTANTS
  Timers,     \* the units whose name ends in .timer
  Others,     \* the other units
  Elapses,    \* the values NextElapseUSecRealtime can have besides 0
  Faults,     \* calls that may fail
  MaxReloads  \* bound: changes to the units during the run

AllFaults == {"bus", "list", "proxy", "wake", "next", "rtc"}

ASSUME UnitsAssumption ==
  Timers \intersect Others = {} /\ IsFiniteSet(Timers \union Others)
ASSUME ElapsesAssumption == Elapses \subseteq Nat \ {0}
ASSUME FaultsAssumption == Faults \subseteq AllFaults
ASSUME MaxReloadsAssumption == MaxReloads \in Nat

VARIABLES
  units,    \* systemd: each unit's state
  reloads,  \* how often it changed
  alarm,    \* /sys/class/rtc/rtc0/wakealarm: unset, set, garbled
  pc,       \* the next call of the program
  verbose,  \* its flag
  reply,    \* the units of the ListUnits reply
  todo,     \* those not walked yet
  row,      \* the TimerEntry being built
  timers,   \* the TimerEntries built so far
  rep,      \* the WakeTimersReport
  touched,  \* history: units changed since the reply
  waking,   \* history: units seen with WakeSystem=yes since the start
  failed    \* history: calls that failed

systemdVars == <<units, reloads, alarm, waking>>
walkVars == <<reply, todo, row, timers>>
vars == <<systemdVars, pc, verbose, walkVars, rep, touched, failed>>

Units == Timers \union Others

\* A unit that is not loaded, and the states of one that is. A unit that is
\* not a timer has no Timer interface: neither property can be read.
Unloaded == [loaded |-> FALSE, wake |-> FALSE, next |-> 0]
Loaded == [loaded : {TRUE}, wake : BOOLEAN, next : Elapses \union {0}]
IsLoaded(u) == units[u].loaded

None == <<>>
Some(x) == <<x>>

Entry == [unit : Timers, wake_system : BOOLEAN, next : Elapses \union {0}]

TypeOK ==
  /\ \A u \in Units : units[u] = Unloaded \/ units[u] \in Loaded
  /\ alarm \in {"unset", "set", "garbled"}
  /\ pc \in {"bus", "unit", "wake", "next", "rtc", "done"}
  /\ \A i \in DOMAIN todo : todo[i] \in Units
  /\ \A i \in DOMAIN timers : timers[i] \in Entry
  /\ rep.wake_timers \subseteq Entry
  /\ rep.rtc_wakealarm \in {None, Some("set")}

Init ==
  /\ units \in [Units -> Loaded \union {Unloaded}]
  /\ reloads = 0
  /\ alarm \in {"unset", "set", "garbled"}
  /\ pc = "bus"
  /\ verbose \in BOOLEAN
  /\ reply = <<>> /\ todo = <<>> /\ timers = <<>>
  /\ row = [unit |-> CHOOSE u \in Units : TRUE, wake_system |-> FALSE]
  /\ rep = [wake_timers |-> {}, all_timers |-> None, rtc_wakealarm |-> None]
  /\ touched = {}
  /\ waking = {u \in Units : units[u].wake}
  /\ failed = {}

-----------------------------------------------------------------------------
(* systemd. *)

\* daemon-reload, or a unit that is loaded, edited, elapses or is removed.
Reload(u) ==
  /\ reloads < MaxReloads /\ pc # "done"
  /\ \E s \in Loaded \union {Unloaded} :
       s # units[u] /\ units' = [units EXCEPT ![u] = s]
  /\ reloads' = reloads + 1
  /\ touched' = touched \union {u}
  /\ waking' = waking \union {v \in Units : units'[v].wake}
  /\ UNCHANGED <<alarm, pc, verbose, walkVars, rep, failed>>

-----------------------------------------------------------------------------
(* The program. *)

Fault(f) ==
  /\ f \in Faults
  /\ failed' = failed \union {f}

\* No bus or no reply: the whole section stays empty.
NoBus ==
  /\ pc = "bus"
  /\ Fault("bus") \/ Fault("list")
  /\ pc' = "rtc"
  /\ UNCHANGED <<systemdVars, verbose, walkVars, rep, touched>>

\* ListUnits lists the loaded units, in an order of its own.
ListUnits ==
  /\ pc = "bus"
  /\ reply' \in SetToSeqs({u \in Units : IsLoaded(u)})
  /\ todo' = reply'
  /\ pc' = "unit"
  /\ touched' = {}
  /\ UNCHANGED <<systemdVars, verbose, row, timers, rep, failed>>

\* Only *.timer units are asked about.
SkipUnit ==
  /\ pc = "unit" /\ todo # <<>>
  /\ Head(todo) \notin Timers
  /\ todo' = Tail(todo)
  /\ UNCHANGED <<systemdVars, pc, verbose, reply, row, timers, rep, touched, failed>>

BuildProxy ==
  /\ pc = "unit" /\ todo # <<>>
  /\ Head(todo) \in Timers
  /\ pc' = "wake"
  /\ row' = [unit |-> Head(todo), wake_system |-> FALSE]
  /\ UNCHANGED <<systemdVars, verbose, reply, todo, timers, rep, touched, failed>>

\* Unlike a failed property read, a proxy that cannot be built fails the walk
\* and drops the rows built so far.
ProxyFails ==
  /\ pc = "unit" /\ todo # <<>>
  /\ Head(todo) \in Timers
  /\ Fault("proxy")
  /\ pc' = "rtc"
  /\ timers' = <<>> /\ todo' = <<>>
  /\ UNCHANGED <<systemdVars, verbose, reply, row, rep, touched>>

\* Faulty variant: a property that cannot be read counts as true.
ReadWakeOrTrue ==
  /\ pc = "wake" /\ pc' = "next"
  /\ row' = [row EXCEPT !.wake_system = IsLoaded(row.unit) => units[row.unit].wake]
  /\ UNCHANGED <<systemdVars, verbose, reply, todo, timers, rep, touched, failed>>

\* Faulty variant: the proxy of the first unit is used for all of them.
ReadWakeOfFirst ==
  /\ pc = "wake" /\ pc' = "next"
  /\ row' = [row EXCEPT !.wake_system = units[Head(reply)].wake]
  /\ UNCHANGED <<systemdVars, verbose, reply, todo, timers, rep, touched, failed>>

\* A property that cannot be read, because the call fails or the unit has gone,
\* counts as false.
ReadWakeSystem ==
  /\ pc = "wake" /\ pc' = "next"
  /\ \/ /\ IsLoaded(row.unit)
        /\ row' = [row EXCEPT !.wake_system = units[row.unit].wake]
        /\ UNCHANGED failed
     \/ ~IsLoaded(row.unit) /\ UNCHANGED <<row, failed>>
     \/ Fault("wake") /\ UNCHANGED row
  /\ UNCHANGED <<systemdVars, verbose, reply, todo, timers, rep, touched>>

Push(next) ==
  /\ timers' = Append(timers, [unit |-> row.unit,
                               wake_system |-> row.wake_system,
                               next |-> next])
  /\ todo' = Tail(todo)

\* Faulty variant: a unit that has gone gets no row.
ReadNextOrDrop ==
  /\ pc = "next" /\ pc' = "unit"
  /\ \/ IsLoaded(row.unit) /\ Push(units[row.unit].next)
     \/ ~IsLoaded(row.unit) /\ todo' = Tail(todo) /\ UNCHANGED timers
  /\ UNCHANGED <<systemdVars, verbose, reply, row, rep, touched, failed>>

\* The other property counts as 0, "no next elapse", and the row is complete.
ReadNextElapse ==
  /\ pc = "next" /\ pc' = "unit"
  /\ \/ Push(units[row.unit].next) /\ UNCHANGED failed
     \/ Push(0) /\ Fault("next")
  /\ UNCHANGED <<systemdVars, verbose, reply, row, rep, touched>>

\* Faulty variant: a garbled alarm is shown as it stands.
ReadRtcRaw ==
  /\ pc = "rtc" /\ pc' = "done"
  /\ rep' = [rep EXCEPT !.rtc_wakealarm =
               IF alarm # "unset" THEN Some(alarm) ELSE None]
  /\ UNCHANGED <<systemdVars, verbose, walkVars, touched, failed>>

\* wake_capable, whose order is that of the rows, and the full list only when
\* it was asked for.
SplitTimers ==
  /\ pc = "unit" /\ todo = <<>>
  /\ rep' = [rep EXCEPT !.wake_timers = {e \in Range(timers) : e.wake_system},
                        !.all_timers = IF verbose THEN Some(timers) ELSE None]
  /\ pc' = "rtc"
  /\ UNCHANGED <<systemdVars, verbose, walkVars, touched, failed>>

\* 0 and an empty file mean no alarm; a value that does not parse is an error.
ReadRtc ==
  /\ pc = "rtc" /\ pc' = "done"
  /\ \/ /\ rep' = [rep EXCEPT !.rtc_wakealarm =
                     IF alarm = "set" THEN Some("set") ELSE None]
        /\ UNCHANGED failed
     \/ Fault("rtc") /\ UNCHANGED rep
  /\ UNCHANGED <<systemdVars, verbose, walkVars, touched>>

Program ==
  \/ NoBus \/ ListUnits \/ SkipUnit \/ BuildProxy \/ ProxyFails
  \/ ReadWakeSystem \/ ReadNextElapse \/ SplitTimers \/ ReadRtc

Next == Program \/ \E u \in Units : Reload(u)

Spec == Init /\ [][Next]_vars

-----------------------------------------------------------------------------

Before(u, v) == \E k, l \in DOMAIN reply : k < l /\ reply[k] = u /\ reply[l] = v

\* Every timer of the reply has one row, in the order of the reply (which lists
\* a unit once), also one that is removed while the walk is under way.
RowsMatchReply ==
  rep.all_timers # None =>
    LET rows == rep.all_timers[1] IN
      /\ {rows[i].unit : i \in DOMAIN rows} = Range(reply) \intersect Timers
      /\ \A i, j \in DOMAIN rows : i < j => Before(rows[i].unit, rows[j].unit)

\* No timer is said to wake the machine that was not set to since the run
\* began, whatever is reloaded or fails.
WakesNotInvented ==
  \A i \in DOMAIN timers : timers[i].wake_system => timers[i].unit \in waking

\* A timer that stays as it was since the reply is reported as it is, if its
\* properties could be read: nothing leaks from one row into the next.
StableRowsAreTrue ==
  failed \intersect {"wake", "next"} = {} =>
    \A i \in DOMAIN timers :
      LET e == timers[i] IN
        e.unit \notin touched =>
          /\ e.wake_system = units[e.unit].wake
          /\ e.next = units[e.unit].next

=============================================================================
