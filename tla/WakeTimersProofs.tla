-------------------------- MODULE WakeTimersProofs --------------------------
(***************************************************************************)
(* Proofs about WakeTimers, for every set of units, values of the          *)
(* properties, failing calls and number of reloads.                        *)
(***************************************************************************)
EXTENDS WakeTimers, FiniteSetTheorems, TLAPS

States == Loaded \union {Unloaded}

\* Types: a row is about a timer while it is being built.
WalkTypes ==
  /\ units \in [Units -> States]
  /\ timers \in Seq(Entry)
  /\ row = [unit |-> row.unit, wake_system |-> row.wake_system]
  /\ row.wake_system \in BOOLEAN
  /\ pc \in {"wake", "next"} => row.unit \in Timers

\* What is set to wake now has been seen to be, and so has what a row says.
WakingSeen ==
  /\ \A u \in Units : units[u].wake => u \in waking
  /\ row.wake_system => row.unit \in waking

\* Nothing is left in a row from the one before, and a row half built is true
\* of a timer that nobody touched.
RowIsFresh ==
  /\ pc = "bus" => timers = <<>>
  /\ pc = "wake" => ~row.wake_system
  /\ pc = "next" /\ "wake" \notin failed /\ row.unit \notin touched =>
       row.wake_system = units[row.unit].wake

IInv == WalkTypes /\ WakingSeen /\ RowIsFresh /\ WakesNotInvented /\ StableRowsAreTrue

\* The properties of a unit; one that is not loaded wakes nothing.
LEMMA StateFields ==
  ASSUME NEW s \in States
  PROVE  /\ s.loaded \in BOOLEAN /\ s.wake \in BOOLEAN
         /\ s.next \in Elapses \union {0}
         /\ ~s.loaded => ~s.wake
<1>1. CASE s \in Loaded
  BY <1>1 DEF Loaded
<1>2. CASE s = Unloaded
  BY <1>2 DEF Unloaded
<1> QED
  BY <1>1, <1>2 DEF States

\* The invariant holds before the first call.
LEMMA InitEstablishes == Init => IInv
<1> SUFFICES ASSUME Init PROVE IInv
  OBVIOUS
<1>1. WalkTypes
  BY DEF Init, WalkTypes, States
<1>2. WakingSeen /\ RowIsFresh
  BY DEF Init, WakingSeen, RowIsFresh
<1>3. WakesNotInvented /\ StableRowsAreTrue
  BY DEF Init, WakesNotInvented, StableRowsAreTrue
<1> QED
  BY <1>1, <1>2, <1>3 DEF IInv

\* A reload changes one unit, which is touched by it and remembered if it wakes.
LEMMA ReloadKeeps == ASSUME IInv, NEW r \in Units, Reload(r) PROVE IInv'
<1>1. PICK s \in States : units' = [units EXCEPT ![r] = s]
  BY DEF Reload, States
<1>2. /\ touched' = touched \union {r}
      /\ waking' = waking \union {v \in Units : units'[v].wake}
      /\ UNCHANGED <<pc, timers, row, failed>>
  BY DEF Reload, walkVars
<1>3. \A u \in Units : u \notin touched' => units'[u] = units[u] /\ u \notin touched
  BY <1>1, <1>2 DEF IInv, WalkTypes
<1>4. WalkTypes'
  BY <1>1, <1>2 DEF IInv, WalkTypes
<1>5. WakingSeen'
  BY <1>2 DEF IInv, WakingSeen
<1>6. RowIsFresh'
  BY <1>2, <1>3 DEF IInv, RowIsFresh, WalkTypes, Units
<1>7. WakesNotInvented'
  BY <1>2 DEF IInv, WakesNotInvented
<1>8. StableRowsAreTrue'
  <2>1. \A i \in DOMAIN timers : timers[i].unit \in Units
    <3>1. \A i \in DOMAIN timers : timers[i] \in Entry
      BY DEF IInv, WalkTypes
    <3> QED
      BY <3>1 DEF Entry, Units
  <2> QED
    BY <1>2, <1>3, <2>1 DEF IInv, StableRowsAreTrue
<1> QED
  BY <1>4, <1>5, <1>6, <1>7, <1>8 DEF IInv

\* Reading WakeSystem takes over what systemd says, or leaves FALSE.
LEMMA ReadWakeKeeps == ASSUME IInv, ReadWakeSystem PROVE IInv'
<1>1. /\ pc = "wake" /\ pc' = "next"
      /\ UNCHANGED <<units, waking, timers, touched>>
      /\ row.unit \in Units /\ row.unit \in Timers
  BY DEF ReadWakeSystem, systemdVars, IInv, WalkTypes, Units
<1>2. /\ units[row.unit].wake \in BOOLEAN
      /\ ~IsLoaded(row.unit) => ~units[row.unit].wake
  BY <1>1, StateFields DEF IInv, WalkTypes, IsLoaded
<1>3. row' = [unit |-> row.unit, wake_system |-> row'.wake_system]
  BY DEF ReadWakeSystem, IInv, WalkTypes
<1>4. /\ row'.wake_system \in BOOLEAN
      /\ row'.wake_system => units[row.unit].wake
      /\ "wake" \notin failed' => row'.wake_system = units[row.unit].wake
  <2>1. ~row.wake_system
    BY <1>1 DEF IInv, RowIsFresh
  <2>2. CASE IsLoaded(row.unit) /\ row' = [row EXCEPT !.wake_system = units[row.unit].wake]
    <3>1. row'.wake_system = units[row.unit].wake
      BY <2>2 DEF IInv, WalkTypes
    <3> QED
      BY <1>2, <3>1
  <2>3. CASE ~IsLoaded(row.unit) /\ UNCHANGED row
    <3>1. row'.wake_system = FALSE /\ units[row.unit].wake = FALSE
      BY <1>2, <2>1, <2>3 DEF IInv, WalkTypes
    <3> QED
      BY <3>1
  <2>4. CASE Fault("wake") /\ UNCHANGED row
    <3>1. row'.wake_system = FALSE /\ "wake" \in failed'
      BY <2>1, <2>4 DEF Fault, IInv, WalkTypes
    <3> QED
      BY <3>1
  <2> QED
    BY <2>2, <2>3, <2>4 DEF ReadWakeSystem
<1>5. failed \subseteq failed'
  BY DEF ReadWakeSystem, Fault
<1>6. WalkTypes'
  BY <1>1, <1>3, <1>4 DEF IInv, WalkTypes
<1>7. WakingSeen' /\ RowIsFresh'
  BY <1>1, <1>3, <1>4 DEF IInv, WakingSeen, RowIsFresh
<1>8. WakesNotInvented' /\ StableRowsAreTrue'
  BY <1>1, <1>5 DEF IInv, WakesNotInvented, StableRowsAreTrue
<1> QED
  BY <1>6, <1>7, <1>8 DEF IInv

\* Reading NextElapseUSecRealtime completes the row and pushes it.
LEMMA ReadNextKeeps == ASSUME IInv, ReadNextElapse PROVE IInv'
<1>1. /\ pc = "next" /\ pc' = "unit"
      /\ UNCHANGED <<units, waking, touched, row>>
      /\ row.unit \in Units /\ row.unit \in Timers
  BY DEF ReadNextElapse, systemdVars, IInv, WalkTypes, Units
<1>2. PICK n \in Elapses \union {0} :
        /\ Push(n)
        /\ "next" \notin failed' => n = units[row.unit].next
        /\ failed \subseteq failed'
  <2>1. units[row.unit].next \in Elapses \union {0}
    BY <1>1, StateFields DEF IInv, WalkTypes
  <2> QED
    BY <2>1 DEF ReadNextElapse, Fault
<1> DEFINE e == [unit |-> row.unit, wake_system |-> row.wake_system, next |-> n]
<1>3. e \in Entry /\ timers \in Seq(Entry) /\ timers' = Append(timers, e)
  BY <1>1, <1>2 DEF IInv, WalkTypes, Entry, Push
<1>4. timers' \in Seq(Entry)
  BY <1>3
<1>5. \A i \in DOMAIN timers' :
        timers'[i] = e \/ (i \in DOMAIN timers /\ timers'[i] = timers[i])
  BY <1>3
<1>6. WalkTypes' /\ WakingSeen' /\ RowIsFresh'
  BY <1>1, <1>4 DEF IInv, WalkTypes, WakingSeen, RowIsFresh
<1>7. WakesNotInvented'
  BY <1>1, <1>5 DEF IInv, WakesNotInvented, WakingSeen
<1>8. StableRowsAreTrue'
  BY <1>1, <1>2, <1>5 DEF IInv, StableRowsAreTrue, RowIsFresh
<1> QED
  BY <1>6, <1>7, <1>8 DEF IInv

\* No other step of the program adds to a row, except that a new one begins
\* with FALSE, or touches a unit.
LEMMA OtherStepsKeep ==
  ASSUME IInv,
         \/ NoBus \/ ListUnits \/ SkipUnit \/ BuildProxy \/ ProxyFails
         \/ SplitTimers \/ ReadRtc \/ UNCHANGED vars
  PROVE  IInv'
<1>1. /\ UNCHANGED <<units, waking>>
      /\ UNCHANGED timers \/ timers' = <<>>
      /\ UNCHANGED touched \/ (pc = "bus" /\ UNCHANGED timers)
      /\ failed \subseteq failed'
      /\ \/ UNCHANGED row /\ (pc' \notin {"bus", "wake", "next"} \/ UNCHANGED <<pc, touched, failed, timers>>)
         \/ /\ row' = [unit |-> row'.unit, wake_system |-> FALSE]
            /\ row'.unit \in Timers /\ pc' = "wake"
  <2>1. CASE NoBus
    BY <2>1 DEF NoBus, Fault, systemdVars, walkVars
  <2>2. CASE ListUnits
    BY <2>2 DEF ListUnits, systemdVars
  <2>3. CASE SkipUnit
    BY <2>3 DEF SkipUnit, systemdVars
  <2>4. CASE BuildProxy
    BY <2>4 DEF BuildProxy, systemdVars
  <2>5. CASE ProxyFails
    BY <2>5 DEF ProxyFails, Fault, systemdVars
  <2>6. CASE SplitTimers
    BY <2>6 DEF SplitTimers, systemdVars, walkVars
  <2>7. CASE ReadRtc
    BY <2>7 DEF ReadRtc, Fault, systemdVars, walkVars
  <2>8. CASE UNCHANGED vars
    BY <2>8 DEF vars, systemdVars, walkVars
  <2> QED
    BY <2>1, <2>2, <2>3, <2>4, <2>5, <2>6, <2>7, <2>8
<1>2. WalkTypes'
  <2>1. units' \in [Units -> States] /\ timers' \in Seq(Entry)
    <3>1. <<>> \in Seq(Entry)
      OBVIOUS
    <3>2. units \in [Units -> States] /\ timers \in Seq(Entry)
      BY DEF IInv, WalkTypes
    <3> QED
      BY <1>1, <3>1, <3>2
  <2>2. CASE /\ row' = [unit |-> row'.unit, wake_system |-> FALSE]
             /\ row'.unit \in Timers
    <3>1. row'.wake_system = FALSE
      BY <2>2
    <3> QED
      BY <2>1, <2>2, <3>1 DEF WalkTypes
  <2>3. CASE UNCHANGED row /\ (pc' \in {"wake", "next"} => pc' = pc)
    BY <2>1, <2>3 DEF IInv, WalkTypes
  <2> QED
    BY <1>1, <2>2, <2>3
<1>3. WakingSeen'
  BY <1>1 DEF IInv, WakingSeen
<1>4. RowIsFresh'
  BY <1>1 DEF IInv, RowIsFresh
<1>5. WakesNotInvented'
  BY <1>1 DEF IInv, WakesNotInvented
<1>6. StableRowsAreTrue'
  BY <1>1 DEF IInv, StableRowsAreTrue, RowIsFresh
<1> QED
  BY <1>2, <1>3, <1>4, <1>5, <1>6 DEF IInv

\* IInv is an invariant: only Reload changes units, only ReadWakeSystem fills in
\* a row and only ReadNextElapse pushes one.
THEOREM WalkInvariant == Spec => []IInv
<1>1. IInv /\ [Next]_vars => IInv'
  BY ReloadKeeps, ReadWakeKeeps, ReadNextKeeps, OtherStepsKeep DEF Next, Program
<1> QED
  BY InitEstablishes, <1>1, PTL DEF Spec

\* No timer is said to wake the machine that was not set to since the run
\* began: list_systemd_timers takes a property that cannot be read for FALSE.
THEOREM NoWakeInvented == Spec => []WakesNotInvented
BY WalkInvariant, PTL DEF IInv

\* A timer that stays as it was since the reply is reported as it is, however
\* the others change, if its two property reads did not fail.
THEOREM StableRowsTrue == Spec => []StableRowsAreTrue
BY WalkInvariant, PTL DEF IInv

-----------------------------------------------------------------------------
(* The walk itself: which unit of the reply has which row.                 *)

\* Rows built from the first n units of a reply: one for each timer among
\* them, in their order.
RowsUpTo(list, rows, n) ==
  /\ \A i \in DOMAIN rows : \E k \in 1..n : rows[i].unit = list[k]
  /\ \A k \in 1..n :
       list[k] \in Timers => \E i \in DOMAIN rows : rows[i].unit = list[k]
  /\ \A i, j \in DOMAIN rows :
       i < j => \E k, l \in 1..n :
                  k < l /\ list[k] = rows[i].unit /\ list[l] = rows[j].unit

\* The last units of the reply are still to be walked, and the rows are those
\* of the ones before. While a row is built its unit is the next.
Walking ==
  /\ Len(todo) <= Len(reply)
  /\ \A i \in 1..Len(todo) : todo[i] = reply[(Len(reply) - Len(todo)) + i]
  /\ RowsUpTo(reply, timers, Len(reply) - Len(todo))
  /\ pc \in {"wake", "next"} => todo # <<>> /\ row.unit = Head(todo)

OrderTypes ==
  /\ alarm \in {"unset", "set", "garbled"}
  /\ pc \in {"bus", "unit", "wake", "next", "rtc", "done"}
  /\ reply \in Seq(Units) /\ todo \in Seq(Units)

\* What the report holds. The list is filled when all of the reply is walked.
ReportInv ==
  /\ rep = [wake_timers |-> rep.wake_timers, all_timers |-> rep.all_timers,
            rtc_wakealarm |-> rep.rtc_wakealarm]
  /\ rep.wake_timers \subseteq Entry
  /\ rep.rtc_wakealarm \in {None, Some("set")}
  /\ pc \in {"bus", "unit", "wake", "next"} => rep.all_timers = None
  /\ \/ rep.all_timers = None
     \/ /\ rep.all_timers = Some(rep.all_timers[1])
        /\ rep.all_timers[1] \in Seq(Entry)
        /\ RowsUpTo(reply, rep.all_timers[1], Len(reply))

OrderInv ==
  OrderTypes /\ ReportInv /\ (pc \in {"unit", "wake", "next"} => Walking)

\* A list of all the units that are loaded, in whatever order, is a sequence.
LEMMA ReplyIsSeq ==
  ASSUME NEW S \in SUBSET Units, NEW s \in SetToSeqs(S)
  PROVE  s \in Seq(Units)
<1>1. IsFiniteSet(S)
  BY UnitsAssumption, FS_Subset DEF Units
<1>2. Cardinality(S) \in Nat
  BY <1>1, FS_CardinalityType
<1>3. s \in [1..Cardinality(S) -> S]
  BY DEF SetToSeqs
<1> QED BY <1>2, <1>3

\* Nothing is walked and the report is empty.
LEMMA OrderInit == Init => OrderInv
BY DEF Init, OrderInv, OrderTypes, ReportInv, None

\* Nothing that the walk keeps is changed by a reload or by no step.
LEMMA OrderUnmoved ==
  ASSUME OrderInv, UNCHANGED <<alarm, pc, reply, todo, row, timers, rep>>
  PROVE  OrderInv'
<1>1. OrderTypes' /\ ReportInv'
  BY DEF OrderInv, OrderTypes, ReportInv, RowsUpTo
<1>2. pc' \in {"unit", "wake", "next"} => Walking'
  BY DEF OrderInv, Walking, RowsUpTo
<1> QED BY <1>1, <1>2 DEF OrderInv

\* The report is not written, and the reply has been taken.
LEMMA ReportUnmoved ==
  ASSUME OrderInv, UNCHANGED <<reply, rep>>,
         pc \in {"unit", "wake", "next"} \/ pc' \in {"rtc", "done"}
  PROVE  ReportInv'
BY DEF OrderInv, ReportInv, RowsUpTo

\* The reply arrives and all of it is to be walked.
LEMMA ListUnitsOrder == ASSUME IInv, OrderInv, ListUnits PROVE OrderInv'
<1>1. /\ pc = "bus" /\ pc' = "unit" /\ todo' = reply' /\ timers' = <<>>
      /\ rep' = rep /\ alarm' = alarm
  BY DEF ListUnits, systemdVars, IInv, RowIsFresh
<1>2. reply' \in Seq(Units)
  BY ReplyIsSeq DEF ListUnits
<1>3. Walking'
  <2>1. Len(reply') \in Nat
    BY <1>2
  <2>2. RowsUpTo(reply, timers, Len(reply) - Len(todo))'
    BY <1>1, <2>1 DEF RowsUpTo
  <2> QED BY <1>1, <2>1, <2>2 DEF Walking
<1>4. ReportInv'
  BY <1>1 DEF OrderInv, ReportInv, None
<1> QED BY <1>1, <1>2, <1>3, <1>4 DEF OrderInv, OrderTypes

\* The next unit, its place in the reply and what is left when it is walked.
LEMMA NextUnit ==
  ASSUME OrderTypes, Walking, todo # <<>>
  PROVE  /\ Len(todo) \in Nat /\ Len(reply) \in Nat /\ Len(todo) >= 1
         /\ Head(todo) = reply[(Len(reply) - Len(todo)) + 1]
         /\ Tail(todo) \in Seq(Units) /\ Len(Tail(todo)) = Len(todo) - 1
         /\ \A i \in 1..Len(Tail(todo)) :
              Tail(todo)[i] = reply[(Len(reply) - Len(Tail(todo))) + i]
<1>1. /\ todo \in Seq(Units) /\ reply \in Seq(Units)
      /\ Len(todo) \in Nat /\ Len(reply) \in Nat /\ Len(todo) >= 1
  BY DEF OrderTypes
<1>2. Head(todo) = todo[1]
  BY <1>1
<1>3. /\ Tail(todo) \in Seq(Units) /\ Len(Tail(todo)) = Len(todo) - 1
      /\ \A i \in 1..Len(Tail(todo)) : Tail(todo)[i] = todo[i + 1]
  BY <1>1
<1>4. \A i \in 1..Len(todo) : todo[i] = reply[(Len(reply) - Len(todo)) + i]
  BY DEF Walking
<1>5. ASSUME NEW i \in 1..Len(Tail(todo))
      PROVE  Tail(todo)[i] = reply[(Len(reply) - Len(Tail(todo))) + i]
  <2>1. i + 1 \in 1..Len(todo)
    BY <1>1, <1>3
  <2>2. (Len(reply) - Len(todo)) + (i + 1) = (Len(reply) - Len(Tail(todo))) + i
    BY <1>1, <1>3
  <2> QED BY <1>3, <1>4, <2>1, <2>2
<1> QED BY <1>1, <1>2, <1>3, <1>4, <1>5

\* A unit that is not a timer is passed over and needs no row.
LEMMA SkipUnitOrder == ASSUME IInv, OrderInv, SkipUnit PROVE OrderInv'
<1>1. /\ pc = "unit" /\ pc' = "unit" /\ todo # <<>> /\ Head(todo) \notin Timers
      /\ todo' = Tail(todo)
      /\ UNCHANGED <<alarm, reply, timers, rep>>
  BY DEF SkipUnit, systemdVars
<1>2. Walking /\ OrderTypes
  BY <1>1 DEF OrderInv
<1>0. PICK n : n = Len(reply) - Len(todo)
  OBVIOUS
<1>3. /\ n \in Nat /\ Len(reply') - Len(todo') = n + 1
      /\ reply[n + 1] \notin Timers
  BY <1>0, <1>1, <1>2, NextUnit DEF Walking
<1>4. RowsUpTo(reply, timers, n)
  BY <1>0, <1>2 DEF Walking
<1>5. 1..(n + 1) = 1..n \union {n + 1}
  BY <1>3
<1>6. RowsUpTo(reply', timers', n + 1)
  BY <1>1, <1>3, <1>4, <1>5 DEF RowsUpTo
<1>7. Walking'
  BY <1>1, <1>2, <1>3, <1>6, NextUnit DEF Walking
<1>8. ReportInv'
  BY <1>1, ReportUnmoved
<1> QED BY <1>1, <1>2, <1>7, <1>8, NextUnit DEF OrderInv, OrderTypes

\* The unit of the row under construction is the next one of the reply, until
\* its row is pushed.
LEMMA BuildRowOrder ==
  ASSUME IInv, OrderInv, BuildProxy \/ ReadWakeSystem PROVE OrderInv'
<1>1. /\ pc \in {"unit", "wake"} /\ pc' \in {"wake", "next"}
      /\ todo # <<>> /\ row'.unit = Head(todo)
      /\ UNCHANGED <<alarm, reply, todo, timers, rep>>
  <2>1. CASE BuildProxy
    BY <2>1 DEF BuildProxy, systemdVars
  <2>2. CASE ReadWakeSystem
    <3>1. /\ pc = "wake" /\ pc' = "next"
          /\ UNCHANGED <<alarm, reply, todo, timers, rep>>
      BY <2>2 DEF ReadWakeSystem, systemdVars
    <3>2. todo # <<>> /\ row.unit = Head(todo)
      BY <3>1 DEF OrderInv, Walking
    <3>3. row'.unit = row.unit
      BY <2>2 DEF ReadWakeSystem, IInv, WalkTypes
    <3> QED BY <3>1, <3>2, <3>3
  <2> QED BY <2>1, <2>2
<1>2. Walking'
  BY <1>1 DEF OrderInv, Walking, RowsUpTo
<1>3. ReportInv'
  BY <1>1, ReportUnmoved
<1> QED BY <1>1, <1>2, <1>3 DEF OrderInv, OrderTypes

\* A row is pushed for the next unit of the reply.
LEMMA ReadNextOrder == ASSUME IInv, OrderInv, ReadNextElapse PROVE OrderInv'
<1>1. /\ pc = "next" /\ pc' = "unit" /\ todo' = Tail(todo)
      /\ UNCHANGED <<alarm, reply, rep>>
  BY DEF ReadNextElapse, Push, systemdVars
<1>2. Walking /\ OrderTypes /\ todo # <<>> /\ row.unit = Head(todo)
  BY <1>1 DEF OrderInv, Walking
<1>3. PICK e : e.unit = row.unit /\ timers' = Append(timers, e)
  <2>1. PICK v : Push(v)
    BY DEF ReadNextElapse
  <2> QED BY <2>1 DEF Push
<1>0. PICK n : n = Len(reply) - Len(todo)
  OBVIOUS
<1>4. /\ n \in Nat /\ Len(reply') - Len(todo') = n + 1
      /\ e.unit = reply[n + 1]
  BY <1>0, <1>1, <1>2, <1>3, NextUnit DEF Walking
<1>5. RowsUpTo(reply, timers, n)
  BY <1>0, <1>2 DEF Walking
<1>6. 1..(n + 1) = 1..n \union {n + 1} /\ \A k \in 1..n : k < n + 1
  BY <1>4
<1>7. /\ Len(timers) \in Nat /\ DOMAIN timers = 1..Len(timers)
      /\ DOMAIN timers' = 1..Len(timers) \union {Len(timers) + 1}
      /\ \A i \in 1..Len(timers) : timers'[i] = timers[i]
      /\ timers'[Len(timers) + 1] = e
  <2>1. PICK T : timers \in Seq(T) /\ e \in T
    <3>1. timers \in Seq(Entry \union {e})
      <4>1. timers \in Seq(Entry)
        BY DEF IInv, WalkTypes
      <4> QED BY <4>1
    <3> QED BY <3>1
  <2> QED BY <1>3, <2>1
<1>8. RowsUpTo(reply', timers', n + 1)
  <2>1. ASSUME NEW i \in DOMAIN timers'
        PROVE  \E k \in 1..(n + 1) : timers'[i].unit = reply[k]
    BY <1>4, <1>5, <1>6, <1>7 DEF RowsUpTo
  <2>2. ASSUME NEW k \in 1..(n + 1), reply[k] \in Timers
        PROVE  \E i \in DOMAIN timers' : timers'[i].unit = reply[k]
    BY <1>4, <1>5, <1>6, <1>7, <2>2 DEF RowsUpTo
  <2>3. ASSUME NEW i \in DOMAIN timers', NEW j \in DOMAIN timers', i < j
        PROVE  \E k, l \in 1..(n + 1) :
                 k < l /\ reply[k] = timers'[i].unit /\ reply[l] = timers'[j].unit
    <3>1. CASE j \in 1..Len(timers)
      <4>1. i \in 1..Len(timers)
        BY <1>7, <2>3, <3>1
      <4> QED BY <1>5, <1>6, <1>7, <2>3, <3>1, <4>1 DEF RowsUpTo
    <3>2. CASE j = Len(timers) + 1
      <4>1. i \in 1..Len(timers)
        BY <1>7, <2>3, <3>2
      <4>2. PICK k \in 1..n : timers[i].unit = reply[k]
        BY <1>5, <1>7, <4>1 DEF RowsUpTo
      <4> QED BY <1>4, <1>6, <1>7, <3>2, <4>1, <4>2
    <3> QED BY <1>7, <3>1, <3>2
  <2> QED BY <1>1, <2>1, <2>2, <2>3 DEF RowsUpTo
<1>9. Walking'
  BY <1>1, <1>2, <1>4, <1>8, NextUnit DEF Walking
<1>10. ReportInv'
  BY <1>1, ReportUnmoved
<1> QED BY <1>1, <1>2, <1>9, <1>10, NextUnit DEF OrderInv, OrderTypes

\* The whole reply is walked and its rows are split.
LEMMA SplitTimersOrder == ASSUME IInv, OrderInv, SplitTimers PROVE OrderInv'
<1>1. /\ pc = "unit" /\ pc' = "rtc" /\ todo = <<>>
      /\ UNCHANGED <<alarm, reply, todo>>
      /\ timers \in Seq(Entry)
  BY DEF SplitTimers, systemdVars, walkVars, IInv, WalkTypes
<1>2. RowsUpTo(reply, timers, Len(reply))
  <2>1. Len(reply) \in Nat /\ Len(todo) = 0
    BY <1>1 DEF OrderInv, OrderTypes
  <2>2. RowsUpTo(reply, timers, Len(reply) - Len(todo))
    BY <1>1 DEF OrderInv, Walking
  <2> QED BY <2>1, <2>2
<1>3. /\ rep' = [wake_timers |-> rep'.wake_timers, all_timers |-> rep'.all_timers,
                 rtc_wakealarm |-> rep'.rtc_wakealarm]
      /\ rep'.wake_timers = {e \in Range(timers) : e.wake_system}
      /\ rep'.all_timers = None \/ rep'.all_timers = Some(timers)
      /\ rep'.rtc_wakealarm = rep.rtc_wakealarm
  BY DEF SplitTimers, OrderInv, ReportInv
<1>4. rep'.wake_timers \subseteq Entry
  BY <1>1, <1>3 DEF Range
<1>5. rep'.all_timers = Some(timers) =>
        /\ rep'.all_timers = Some(rep'.all_timers[1])
        /\ rep'.all_timers[1] = timers
  BY DEF Some
<1>6. ReportInv'
  BY <1>1, <1>2, <1>3, <1>4, <1>5 DEF ReportInv, OrderInv
<1> QED BY <1>1, <1>6 DEF OrderInv, OrderTypes

\* The walk is over, or it failed, or there was none.
LEMMA WalkOverOrder ==
  ASSUME IInv, OrderInv, NoBus \/ ProxyFails \/ ReadRtc PROVE OrderInv'
<1>1. /\ pc' \in {"rtc", "done"} /\ UNCHANGED <<alarm, reply>>
      /\ todo' = todo \/ todo' = <<>>
      /\ \/ rep' = rep
         \/ rep' = [rep EXCEPT !.rtc_wakealarm =
                      IF alarm = "set" THEN Some("set") ELSE None]
  <2>1. CASE NoBus
    BY <2>1 DEF NoBus, systemdVars, walkVars
  <2>2. CASE ProxyFails
    BY <2>2 DEF ProxyFails, systemdVars
  <2>3. CASE ReadRtc
    BY <2>3 DEF ReadRtc, systemdVars, walkVars
  <2> QED BY <2>1, <2>2, <2>3
<1>2. /\ rep' = [wake_timers |-> rep'.wake_timers, all_timers |-> rep'.all_timers,
                 rtc_wakealarm |-> rep'.rtc_wakealarm]
      /\ rep'.wake_timers = rep.wake_timers /\ rep'.all_timers = rep.all_timers
      /\ rep'.rtc_wakealarm \in {None, Some("set"), rep.rtc_wakealarm}
  BY <1>1 DEF OrderInv, ReportInv
<1>3. ReportInv'
  BY <1>1, <1>2 DEF OrderInv, ReportInv, RowsUpTo
<1>4. OrderTypes'
  <2>1. <<>> \in Seq(Units)
    OBVIOUS
  <2> QED BY <1>1, <2>1 DEF OrderInv, OrderTypes
<1> QED BY <1>1, <1>3, <1>4 DEF OrderInv

\* OrderInv is an invariant, with the help of IInv.
THEOREM OrderInvariant == Spec => []OrderInv
<1>1. IInv /\ OrderInv /\ [Next]_vars => OrderInv'
  <2> SUFFICES ASSUME IInv, OrderInv, [Next]_vars PROVE OrderInv'
    OBVIOUS
  <2>1. CASE UNCHANGED vars \/ \E u \in Units : Reload(u)
    BY <2>1, OrderUnmoved DEF vars, systemdVars, walkVars, Reload
  <2>2. CASE Program
    BY <2>2, ListUnitsOrder, SkipUnitOrder, BuildRowOrder, ReadNextOrder,
       SplitTimersOrder, WalkOverOrder
    DEF Program
  <2> QED BY <2>1, <2>2 DEF Next
<1> QED BY OrderInit, <1>1, WalkInvariant, PTL DEF Spec

\* Every variable keeps its type.
THEOREM TypeCorrect == Spec => []TypeOK
<1>1. IInv /\ OrderInv => TypeOK
  <2> SUFFICES ASSUME IInv, OrderInv PROVE TypeOK
    OBVIOUS
  <2>1. \A u \in Units : units[u] = Unloaded \/ units[u] \in Loaded
    BY DEF IInv, WalkTypes, States
  <2>2. (\A i \in DOMAIN todo : todo[i] \in Units)
        /\ \A i \in DOMAIN timers : timers[i] \in Entry
    BY DEF IInv, WalkTypes, OrderInv, OrderTypes
  <2> QED BY <2>1, <2>2 DEF TypeOK, OrderInv, OrderTypes, ReportInv
<1> QED BY <1>1, WalkInvariant, OrderInvariant, PTL

\* Every timer of the reply has its row, in the reply's order, whatever is
\* reloaded or removed while the properties are read.
THEOREM RowsMatch == Spec => []RowsMatchReply
<1>1. OrderInv => RowsMatchReply
  <2> SUFFICES ASSUME OrderInv, rep.all_timers # None
               PROVE  LET rows == rep.all_timers[1] IN
                        /\ {rows[i].unit : i \in DOMAIN rows}
                             = Range(reply) \intersect Timers
                        /\ \A i, j \in DOMAIN rows :
                             i < j => Before(rows[i].unit, rows[j].unit)
    BY DEF RowsMatchReply
  <2>1. PICK rows : rows = rep.all_timers[1]
    OBVIOUS
  <2>2. /\ rows \in Seq(Entry) /\ RowsUpTo(reply, rows, Len(reply))
        /\ DOMAIN reply = 1..Len(reply)
    BY <2>1 DEF OrderInv, OrderTypes, ReportInv
  <2>3. ASSUME NEW i \in DOMAIN rows
        PROVE  rows[i].unit \in Range(reply) \intersect Timers
    <3>1. rows[i] \in Entry
      BY <2>2
    <3>2. rows[i].unit \in Timers
      BY <3>1 DEF Entry
    <3>3. PICK k \in DOMAIN reply : rows[i].unit = reply[k]
      BY <2>2 DEF RowsUpTo
    <3> QED BY <3>2, <3>3 DEF Range
  <2>4. ASSUME NEW u \in Range(reply) \intersect Timers
        PROVE  \E i \in DOMAIN rows : rows[i].unit = u
    <3>1. PICK k \in DOMAIN reply : u = reply[k]
      BY DEF Range
    <3> QED BY <2>2, <3>1 DEF RowsUpTo
  <2>5. ASSUME NEW i \in DOMAIN rows, NEW j \in DOMAIN rows, i < j
        PROVE  Before(rows[i].unit, rows[j].unit)
    <3>1. PICK k \in DOMAIN reply, l \in DOMAIN reply :
            k < l /\ reply[k] = rows[i].unit /\ reply[l] = rows[j].unit
      BY <2>2, <2>5 DEF RowsUpTo
    <3> QED BY <3>1 DEF Before
  <2>6. {rows[i].unit : i \in DOMAIN rows} = Range(reply) \intersect Timers
    BY <2>3, <2>4
  <2> QED BY <2>1, <2>5, <2>6
<1> QED BY <1>1, OrderInvariant, PTL

=============================================================================
