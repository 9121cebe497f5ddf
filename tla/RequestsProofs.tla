--------------------------- MODULE RequestsProofs ---------------------------
(***************************************************************************)
(* Proofs about Requests, for every set of PIDs, names, inhibitors and     *)
(* failing readings, and any number of processes.                          *)
(***************************************************************************)
EXTENDS Requests, FiniteSetTheorems, SequenceTheorems, TLAPS

\* A process keeps its birth number and its name; the numbers of different
\* processes differ.
BirthsUnique ==
  /\ births \in Nat
  /\ procs \in [Pids -> [birth : 0..births, comm : Comms \union {"none"}]]
  /\ \A p \in Alive : procs[p].birth # 0 /\ procs[p].comm \in Comms
  /\ \A p, q \in Alive : procs[p].birth = procs[q].birth => p = q

\* An inhibitor was taken by a process that had been born.
HoldersBorn ==
  \A i \in inhibitors \union unnamed \union rep.inhibitors :
    i.pid \in Pids /\ i.birth \in 1..births

\* The report and the walk.
WalkTypes ==
  /\ rep = [inhibitors |-> rep.inhibitors, wake_locks |-> rep.wake_locks,
            audio_streams |-> rep.audio_streams, vms |-> rep.vms,
            usb_wakeup |-> rep.usb_wakeup]
  /\ rep.vms \in Seq([pid : Pids, birth : Nat, comm : VmNames])
  /\ cursor \in Nat /\ batch \subseteq Pids

\* A machine that was running when the walk began, and still is, has been
\* found, is about to be looked at, or lies ahead.
Found(p) == \E i \in DOMAIN rep.vms : rep.vms[i].birth = procs[p].birth

VmsAhead ==
  /\ resident \subseteq 1..births
  /\ pc = "vms" =>
       \A p \in Alive :
         procs[p].birth \in resident =>
           /\ procs[p].comm \in VmNames
           /\ Found(p) \/ p \in batch \/ p > cursor \/ "comm" \in failed

IInv ==
  /\ BirthsUnique /\ HoldersBorn /\ WalkTypes /\ VmsAhead
  /\ LiveHoldersNamed /\ ResidentVmsFound

USE PidsAssumption, VmNamesAssumption

\* The invariant holds before the first reading.
LEMMA InitEstablishes == Init => IInv
<1> SUFFICES ASSUME Init PROVE IInv
  OBVIOUS
<1> USE DEF Init
<1>1. BirthsUnique
  BY DEF BirthsUnique, Alive, Free
<1>2. HoldersBorn /\ LiveHoldersNamed
  BY DEF HoldersBorn, LiveHoldersNamed
<1>3. WalkTypes
  BY DEF WalkTypes
<1>4. VmsAhead /\ ResidentVmsFound
  BY DEF VmsAhead, ResidentVmsFound
<1> QED
  BY <1>1, <1>2, <1>3, <1>4 DEF IInv

\* A process that starts is nobody the program has heard of.
LEMMA StartKeeps == ASSUME IInv, NEW p \in Pids, Start(p) PROVE IInv'
<1>1. PICK c \in Comms : procs' = [procs EXCEPT ![p] = [birth |-> births + 1, comm |-> c]]
  BY DEF Start
<1>2. /\ births' = births + 1
      /\ procs[p] = Free
      /\ UNCHANGED <<inhibitors, pc, unnamed, cursor, batch, resident, rep, failed>>
      /\ pc \in {"bus", "comm", "locks", "audio", "vms"}
  BY DEF Start, Changing, walkVars
<1>3. births \in Nat /\ procs \in [Pids -> [birth : 0..births, comm : Comms \union {"none"}]]
  BY DEF IInv, BirthsUnique
<1>4. /\ procs'[p].birth = births + 1 /\ procs'[p].comm \in Comms
      /\ procs'[p] # Free
      /\ \A q \in Pids : q # p => procs'[q] = procs[q]
  BY <1>1, <1>3 DEF Free
<1>5. \A q \in Pids : procs[q].birth \in 0..births
  BY <1>3
<1>6. /\ Alive' = Alive \union {p}
      /\ p \notin Alive
  BY <1>2, <1>4 DEF Alive
<1>7. BirthsUnique'
  <2>1. procs' \in [Pids -> [birth : 0..births', comm : Comms \union {"none"}]]
    BY <1>1, <1>2, <1>3
  <2>2. \A q \in Alive' : procs'[q].birth # 0 /\ procs'[q].comm \in Comms
    BY <1>2, <1>3, <1>4, <1>6 DEF IInv, BirthsUnique, Alive
  <2>3. \A q, r \in Alive' : procs'[q].birth = procs'[r].birth => q = r
    <3>1. ASSUME NEW q \in Alive
          PROVE  procs'[q] = procs[q] /\ procs[q].birth # births + 1
      <4>1. q \in Pids /\ q # p
        BY <1>6 DEF Alive
      <4>2. procs[q].birth \in 0..births
        BY <1>5, <4>1
      <4>3. procs'[q] = procs[q]
        BY <1>4, <4>1
      <4> QED
        BY <1>3, <4>2, <4>3
    <3>2. \A q, r \in Alive : procs[q].birth = procs[r].birth => q = r
      BY DEF IInv, BirthsUnique
    <3> QED
      BY <1>4, <1>6, <3>1, <3>2
  <2> QED
    BY <1>2, <1>3, <2>1, <2>2, <2>3 DEF BirthsUnique
<1>8. HoldersBorn'
  BY <1>2, <1>3 DEF IInv, HoldersBorn
<1>9. WalkTypes'
  BY <1>2 DEF IInv, WalkTypes
<1>10. VmsAhead'
  <2>1. resident' \subseteq 1..births' /\ births + 1 \notin resident'
    BY <1>2, <1>3 DEF IInv, VmsAhead
  <2>2. ASSUME pc' = "vms", NEW q \in Alive', procs'[q].birth \in resident'
        PROVE  /\ procs'[q].comm \in VmNames
               /\ Found(q)' \/ q \in batch' \/ q > cursor' \/ "comm" \in failed'
    <3>1. q \in Alive /\ procs'[q] = procs[q]
      BY <1>4, <1>6, <2>1, <2>2 DEF Alive
    <3> QED
      BY <1>2, <2>2, <3>1 DEF IInv, VmsAhead, Found
  <2> QED
    BY <2>1, <2>2 DEF VmsAhead
<1>11. LiveHoldersNamed'
  <2>1. \A i \in rep.inhibitors : i.pid \in Pids /\ i.birth \in 1..births
    BY DEF IInv, HoldersBorn
  <2> QED
    <3>1. ASSUME NEW i \in rep.inhibitors, procs'[i.pid].birth = i.birth
          PROVE  procs'[i.pid] = procs[i.pid]
      <4>1. i.birth # births + 1 /\ i.pid \in Pids
        BY <1>3, <2>1
      <4>2. i.pid # p
        BY <1>4, <3>1, <4>1
      <4> QED
        BY <1>4, <4>1, <4>2
    <3>2. rep' = rep /\ failed' = failed
      BY <1>2
    <3>3. LiveHoldersNamed
      BY DEF IInv
    <3> QED
      BY <3>1, <3>2, <3>3 DEF LiveHoldersNamed
<1>12. ResidentVmsFound'
  BY <1>2 DEF ResidentVmsFound
<1> QED
  BY <1>7, <1>8, <1>9, <1>10, <1>11, <1>12 DEF IInv

\* A process that exits asks nothing of the report any more.
LEMMA ExitKeeps == ASSUME IInv, NEW p \in Pids, Exit(p) PROVE IInv'
<1>1. /\ procs' = [procs EXCEPT ![p] = Free]
      /\ UNCHANGED <<births, inhibitors, pc, unnamed, cursor, batch, resident, rep, failed>>
      /\ pc \in {"bus", "comm", "locks", "audio", "vms"}
  BY DEF Exit, Changing, walkVars
<1>2. births \in Nat /\ procs \in [Pids -> [birth : 0..births, comm : Comms \union {"none"}]]
  BY DEF IInv, BirthsUnique
<1>3. /\ procs'[p] = Free
      /\ \A q \in Pids : q # p => procs'[q] = procs[q]
  BY <1>1, <1>2
<1>4. Alive' = Alive \ {p} /\ \A q \in Alive' : procs'[q] = procs[q]
  BY <1>3 DEF Alive
<1>5. BirthsUnique'
  <2>1. procs' \in [Pids -> [birth : 0..births, comm : Comms \union {"none"}]]
    BY <1>1, <1>2 DEF Free
  <2> QED
    BY <1>1, <1>2, <1>4, <2>1 DEF IInv, BirthsUnique
<1>6. HoldersBorn' /\ WalkTypes'
  BY <1>1 DEF IInv, HoldersBorn, WalkTypes
<1>7. VmsAhead'
  BY <1>1, <1>4 DEF IInv, VmsAhead, Found
<1>8. LiveHoldersNamed'
  <2>1. \A i \in rep.inhibitors : i.pid \in Pids /\ i.birth \in 1..births
    BY DEF IInv, HoldersBorn
  <2> QED
    BY <1>1, <1>2, <1>3, <2>1 DEF IInv, LiveHoldersNamed, Free
<1>9. ResidentVmsFound'
  BY <1>1 DEF ResidentVmsFound
<1> QED
  BY <1>5, <1>6, <1>7, <1>8, <1>9 DEF IInv

\* Every other step leaves the processes alone.
Still == UNCHANGED <<procs, births>>

\* A step that touches no process leaves who is alive as it was.
LEMMA StillKeeps == ASSUME IInv, Still PROVE BirthsUnique' /\ Alive' = Alive
BY DEF IInv, Still, BirthsUnique, Alive

\* The other steps of the system only reach logind, the wake lock and the
\* stream.
LEMMA SystemKeeps ==
  ASSUME IInv, \/ \E p \in Pids : Inhibit(p)
               \/ \E i \in inhibitors : Release(i)
               \/ Toggle
               \/ UNCHANGED vars
  PROVE  IInv'
<1>1. /\ Still
      /\ UNCHANGED <<pc, unnamed, cursor, batch, resident, rep, failed>>
  BY DEF Still, Inhibit, Release, Toggle, Changing, walkVars, systemVars, vars
<1>2. \A i \in inhibitors' : i.pid \in Pids /\ i.birth \in 1..births
  <2>1. CASE UNCHANGED inhibitors \/ \E i \in inhibitors : inhibitors' = inhibitors \ {i}
    BY <2>1 DEF IInv, HoldersBorn
  <2>2. ASSUME NEW p \in Pids, Inhibit(p)
        PROVE  \A i \in inhibitors' : i.pid \in Pids /\ i.birth \in 1..births
    <3>1. PICK w \in Whats : 
            inhibitors' = inhibitors \union {[pid |-> p, birth |-> procs[p].birth, what |-> w]}
      BY <2>2 DEF Inhibit
    <3>2. procs[p].birth \in 1..births
      BY <2>2 DEF Inhibit, IInv, BirthsUnique
    <3> QED
      BY <3>1, <3>2 DEF IInv, HoldersBorn
  <2> QED
    BY <2>1, <2>2 DEF Release, Toggle, vars, systemVars
<1>3. HoldersBorn'
  BY <1>1, <1>2 DEF IInv, HoldersBorn, Still
<1>4. WalkTypes'
  BY <1>1 DEF IInv, WalkTypes
<1>5. VmsAhead' /\ LiveHoldersNamed' /\ ResidentVmsFound'
  BY <1>1 DEF IInv, VmsAhead, Found, Alive, LiveHoldersNamed, ResidentVmsFound, Still
<1> QED
  BY <1>1, <1>3, <1>4, <1>5, StillKeeps DEF IInv

\* The readings that neither name a holder nor walk /proc.
LEMMA ReadingsKeep ==
  ASSUME IInv, ListInhibitors \/ AllNamed \/ ReadWakeLocks \/ ReadUsb
  PROVE  IInv'
<1>1. /\ Still
      /\ UNCHANGED <<inhibitors, cursor, batch, resident>>
      /\ UNCHANGED unnamed \/ unnamed' = inhibitors
      /\ failed \subseteq failed'
      /\ rep'.inhibitors = rep.inhibitors /\ rep'.vms = rep.vms
      /\ rep' = [inhibitors |-> rep'.inhibitors, wake_locks |-> rep'.wake_locks,
                 audio_streams |-> rep'.audio_streams, vms |-> rep'.vms,
                 usb_wakeup |-> rep'.usb_wakeup]
  BY DEF IInv, WalkTypes, Still, ListInhibitors, AllNamed, ReadWakeLocks, ReadUsb,
         Fails, walkVars, systemVars
<1>2. pc' \in {"comm", "locks", "audio"} \/ (pc = "usb" /\ pc' = "done")
  BY DEF ListInhibitors, AllNamed, ReadWakeLocks, ReadUsb
<1>3. HoldersBorn'
  BY <1>1 DEF IInv, HoldersBorn, Still
<1>4. WalkTypes'
  BY <1>1 DEF IInv, WalkTypes
<1>5. VmsAhead'
  BY <1>1, <1>2 DEF IInv, VmsAhead, Still
<1>6. LiveHoldersNamed'
  BY <1>1 DEF IInv, LiveHoldersNamed, Still
<1>7. ResidentVmsFound'
  BY <1>1, <1>2 DEF IInv, ResidentVmsFound, Alive, Still
<1> QED
  BY <1>1, <1>3, <1>4, <1>5, <1>6, <1>7, StillKeeps DEF IInv

\* A holder that still runs has the PID, so the name found there is its own.
LEMMA ResolveKeeps ==
  ASSUME IInv, NEW i \in unnamed, ResolveComm(i)
  PROVE  IInv'
<1>1. PICK c : /\ rep' = [rep EXCEPT !.inhibitors = @ \union
                            {[pid |-> i.pid, birth |-> i.birth, what |-> i.what,
                              comm |-> c]}]
               /\ c = NameOf(i) \/ (c = "who" /\ "comm" \in failed')
  BY DEF ResolveComm
<1>2. /\ Still /\ pc = "comm" /\ pc' = "comm"
      /\ UNCHANGED <<inhibitors, cursor, batch, resident>>
      /\ unnamed' \subseteq unnamed
      /\ failed \subseteq failed'
  BY DEF ResolveComm, Still, walkVars, systemVars
<1> DEFINE new == [pid |-> i.pid, birth |-> i.birth, what |-> i.what, comm |-> c]
<1>3. /\ rep'.inhibitors = rep.inhibitors \union {new} /\ rep'.vms = rep.vms
      /\ rep' = [inhibitors |-> rep'.inhibitors, wake_locks |-> rep'.wake_locks,
                 audio_streams |-> rep'.audio_streams, vms |-> rep'.vms,
                 usb_wakeup |-> rep'.usb_wakeup]
  BY <1>1 DEF IInv, WalkTypes
<1>4. i.pid \in Pids /\ i.birth \in 1..births
  BY DEF IInv, HoldersBorn
<1>5. HoldersBorn'
  BY <1>2, <1>3, <1>4 DEF IInv, HoldersBorn, Still
<1>6. WalkTypes'
  BY <1>2, <1>3 DEF IInv, WalkTypes
<1>7. VmsAhead' /\ ResidentVmsFound'
  BY <1>2 DEF IInv, VmsAhead, ResidentVmsFound, Still
<1>8. LiveHoldersNamed'
  <2>1. procs[i.pid].birth = i.birth => c = procs[i.pid].comm \/ (c = "who" /\ "comm" \in failed')
    <3>1. births \in Nat
      BY DEF IInv, BirthsUnique
    <3> QED
      BY <1>1, <1>4, <3>1 DEF NameOf, Free
  <2> QED
    BY <1>2, <1>3, <2>1 DEF IInv, LiveHoldersNamed, Still
<1> QED
  BY <1>2, <1>5, <1>6, <1>7, <1>8, StillKeeps DEF IInv

\* The walk begins: every machine that runs lies ahead, whatever is already in
\* a batch.
LEMMA WalkBegins == ASSUME IInv, ListAudioStreams PROVE IInv'
<1>1. /\ Still /\ pc' = "vms"
      /\ UNCHANGED <<inhibitors, unnamed, batch>>
      /\ cursor' = 0
      /\ resident' = {procs[p].birth : p \in {q \in Alive : procs[q].comm \in VmNames}}
      /\ failed \subseteq failed'
      /\ rep'.inhibitors = rep.inhibitors /\ rep'.vms = rep.vms
      /\ rep' = [inhibitors |-> rep'.inhibitors, wake_locks |-> rep'.wake_locks,
                 audio_streams |-> rep'.audio_streams, vms |-> rep'.vms,
                 usb_wakeup |-> rep'.usb_wakeup]
  BY DEF IInv, WalkTypes, Still, ListAudioStreams, Fails, systemVars
<1>2. HoldersBorn'
  BY <1>1 DEF IInv, HoldersBorn, Still
<1>3. WalkTypes'
  BY <1>1 DEF IInv, WalkTypes
<1>4. VmsAhead'
  <2>1. resident' \subseteq 1..births
    BY <1>1 DEF IInv, BirthsUnique, Alive
  <2>2. \A p \in Alive : procs[p].birth \in resident' => procs[p].comm \in VmNames
    BY <1>1 DEF IInv, BirthsUnique
  <2>3. \A p \in Alive : p > cursor'
    BY <1>1 DEF Alive
  <2> QED
    BY <1>1, <2>1, <2>2, <2>3, StillKeeps DEF VmsAhead, Still
<1>5. LiveHoldersNamed' /\ ResidentVmsFound'
  BY <1>1 DEF IInv, LiveHoldersNamed, ResidentVmsFound, Still
<1> QED
  BY <1>1, <1>2, <1>3, <1>4, <1>5, StillKeeps DEF IInv

\* readdir passes over no process that is there.
LEMMA ReadDirKeeps == ASSUME IInv, ReadDir PROVE IInv'
<1>1. PICK last \in {p \in Alive : p > cursor} :
        /\ batch' = {p \in Alive : p > cursor /\ p <= last}
        /\ cursor' = last
  BY DEF ReadDir
<1>2. /\ Still /\ pc = "vms" /\ batch = {}
      /\ UNCHANGED <<inhibitors, unnamed, pc, resident, rep, failed>>
  BY DEF ReadDir, Still, systemVars
<1>3. HoldersBorn' /\ LiveHoldersNamed' /\ ResidentVmsFound'
  BY <1>2 DEF IInv, HoldersBorn, LiveHoldersNamed, ResidentVmsFound, Still
<1>4. WalkTypes'
  BY <1>1, <1>2 DEF IInv, WalkTypes, Alive
<1>5. VmsAhead'
  <2>1. \A p \in Alive : p \in Nat /\ last \in Nat /\ cursor \in Nat
    BY DEF Alive, IInv, WalkTypes
  <2>2. \A p \in Alive : p > cursor => p \in batch' \/ p > cursor'
    BY <1>1, <2>1
  <2> QED
    BY <1>2, <2>2, StillKeeps DEF IInv, VmsAhead, Found, Still
<1> QED
  BY <1>2, <1>3, <1>4, <1>5, StillKeeps DEF IInv

\* An entry that is looked at is found or its failure noted; the others of the
\* batch stay.
LEMMA ReadCommKeeps == ASSUME IInv, ReadComm PROVE IInv'
<1>1. PICK p \in batch :
        /\ batch' = batch \ {p}
        /\ \/ /\ procs[p].comm \in VmNames
              /\ rep' = [rep EXCEPT !.vms =
                           Append(@, [pid |-> p, birth |-> procs[p].birth,
                                      comm |-> procs[p].comm])]
           \/ UNCHANGED rep /\ (procs[p].comm \notin VmNames \/ "comm" \in failed')
  BY DEF ReadComm, Fails
<1>2. /\ Still /\ pc = "vms"
      /\ UNCHANGED <<inhibitors, unnamed, pc, cursor, resident>>
      /\ failed \subseteq failed'
  BY DEF ReadComm, Fails, Still, systemVars
<1> DEFINE row == [pid |-> p, birth |-> procs[p].birth, comm |-> procs[p].comm]
<1>3. p \in Pids /\ procs[p].birth \in Nat
  BY DEF IInv, WalkTypes, BirthsUnique
<1>4. rep.vms \in Seq([pid : Pids, birth : Nat, comm : VmNames])
  BY DEF IInv, WalkTypes
<1>5. /\ rep'.vms \in Seq([pid : Pids, birth : Nat, comm : VmNames])
      /\ \A i \in DOMAIN rep.vms : i \in DOMAIN rep'.vms /\ rep'.vms[i] = rep.vms[i]
      /\ procs[p].comm \in VmNames =>
           "comm" \in failed' \/ \E i \in DOMAIN rep'.vms : rep'.vms[i].birth = procs[p].birth
  <2>1. CASE UNCHANGED rep /\ (procs[p].comm \notin VmNames \/ "comm" \in failed')
    BY <1>4, <2>1
  <2>2. CASE procs[p].comm \in VmNames /\ rep' = [rep EXCEPT !.vms = Append(@, row)]
    <3>1. row \in [pid : Pids, birth : Nat, comm : VmNames]
      BY <1>3, <2>2
    <3>2. rep'.vms = Append(rep.vms, row)
      BY <2>2 DEF IInv, WalkTypes
    <3>3. /\ rep'.vms \in Seq([pid : Pids, birth : Nat, comm : VmNames])
          /\ \A i \in DOMAIN rep.vms : i \in DOMAIN rep'.vms /\ rep'.vms[i] = rep.vms[i]
          /\ Len(rep.vms) + 1 \in DOMAIN rep'.vms /\ rep'.vms[Len(rep.vms) + 1] = row
      BY <1>4, <3>1, <3>2
    <3> QED
      BY <3>3
  <2> QED
    BY <1>1, <2>1, <2>2
<1>6. /\ rep'.inhibitors = rep.inhibitors
      /\ rep' = [inhibitors |-> rep'.inhibitors, wake_locks |-> rep'.wake_locks,
                 audio_streams |-> rep'.audio_streams, vms |-> rep'.vms,
                 usb_wakeup |-> rep'.usb_wakeup]
  BY <1>1 DEF IInv, WalkTypes
<1>7. HoldersBorn' /\ LiveHoldersNamed' /\ ResidentVmsFound'
  BY <1>2, <1>6 DEF IInv, HoldersBorn, LiveHoldersNamed, ResidentVmsFound, Still
<1>8. WalkTypes'
  BY <1>1, <1>2, <1>5, <1>6 DEF IInv, WalkTypes
<1>9. VmsAhead'
  <2>1. ASSUME NEW q \in Alive, procs[q].birth \in resident
        PROVE  /\ procs[q].comm \in VmNames
               /\ \/ \E i \in DOMAIN rep'.vms : rep'.vms[i].birth = procs[q].birth
                  \/ q \in batch' \/ q > cursor' \/ "comm" \in failed'
    <3>1. /\ procs[q].comm \in VmNames
          /\ Found(q) \/ q \in batch \/ q > cursor \/ "comm" \in failed
      BY <1>2, <2>1 DEF IInv, VmsAhead
    <3>2. CASE q = p
      BY <1>5, <3>1, <3>2
    <3>3. CASE q # p
      BY <1>1, <1>2, <1>5, <3>1, <3>3 DEF Found
    <3> QED
      BY <3>2, <3>3
  <2> QED
    BY <1>2, <2>1, StillKeeps DEF IInv, VmsAhead, Found, Still
<1> QED
  BY <1>2, <1>7, <1>8, <1>9, StillKeeps DEF IInv

\* The walk is refused, which is noted, or comes to an end with nothing ahead.
LEMMA WalkEnds == ASSUME IInv, WalkRefused \/ EndOfDir PROVE IInv'
<1>1. /\ Still /\ pc = "vms" /\ pc' = AfterVms
      /\ UNCHANGED <<inhibitors, unnamed, cursor, batch, resident, rep>>
      /\ failed \subseteq failed'
      /\ "proc" \in failed' \/ (batch = {} /\ \A p \in Alive : p <= cursor)
  BY DEF WalkRefused, EndOfDir, Fails, Still, systemVars, walkVars
<1>2. pc' \in {"usb", "done"}
  BY <1>1 DEF AfterVms
<1>3. HoldersBorn' /\ WalkTypes' /\ LiveHoldersNamed'
  BY <1>1 DEF IInv, HoldersBorn, WalkTypes, LiveHoldersNamed, Still
<1>4. VmsAhead'
  BY <1>1, <1>2 DEF IInv, VmsAhead, Still
<1>5. ResidentVmsFound'
  <2>1. ASSUME failed' \intersect {"proc", "comm"} = {}, NEW p \in Alive,
               procs[p].birth \in resident
        PROVE  Found(p)
    <3>1. p \in Nat /\ cursor \in Nat /\ p <= cursor /\ p \notin batch
      BY <1>1, <2>1 DEF Alive, IInv, WalkTypes
    <3>2. "comm" \notin failed
      BY <1>1, <2>1
    <3> QED
      BY <1>1, <2>1, <3>1, <3>2 DEF IInv, VmsAhead
  <2> QED
    BY <1>1, <2>1, StillKeeps DEF ResidentVmsFound, Found, Still
<1> QED
  BY <1>1, <1>3, <1>4, <1>5, StillKeeps DEF IInv

\* IInv is an invariant.
THEOREM ReportInvariant == Spec => []IInv
<1>1. IInv /\ [Next]_vars => IInv'
  BY StartKeeps, ExitKeeps, SystemKeeps, ReadingsKeep, ResolveKeeps, WalkBegins,
     ReadDirKeeps, ReadCommKeeps, WalkEnds
  DEF Next, System, Program
<1> QED
  BY InitEstablishes, <1>1, PTL DEF Spec

\* A holder that still runs is reported under its own name, or its "who" if the
\* name could not be read: resolve_comm runs after the reply, and only the PID of
\* a holder that has exited can be somebody else's.
THEOREM HoldersNamed == Spec => []LiveHoldersNamed
BY ReportInvariant, PTL DEF IInv

\* find_processes_by_comm misses no virtual machine that runs throughout the
\* walk, although /proc is not listed at one instant.
THEOREM VmsFound == Spec => []ResidentVmsFound
BY ReportInvariant, PTL DEF IInv

-----------------------------------------------------------------------------
(* Types, and what a quiet run finds. *)

Early == {"bus", "comm", "locks", "audio"}    \* before the walk

Types ==
  /\ births <= MaxBirths
  /\ pc \in {"bus", "comm", "locks", "audio", "vms", "usb", "done"}
  /\ \A i \in inhibitors : i.what \in Whats
  /\ cursor \in Pids \union {0}
  /\ pc \in Early => batch = {}
  /\ \A p \in batch : p <= cursor
  /\ failed \subseteq Faults

ReportTypes ==
  /\ IsFiniteSet(rep.inhibitors)
  /\ \A i \in rep.inhibitors : i.comm \in Comms \union {"who"}
  /\ rep.wake_locks \in 0..1 /\ rep.audio_streams \in 0..1

\* In a run during which nothing changed and nothing failed, each count of the
\* report that has been taken is zero exactly when there is nothing to count.
SomeVm == \E p \in Alive : procs[p].comm \in VmNames

QuietReport ==
  /\ pc = "comm" \/ unnamed = {}
  /\ pc = "bus" => rep.inhibitors = {}
  /\ pc \in Early => rep.vms = <<>>
  /\ quiet /\ failed = {} =>
       /\ pc # "bus" => (rep.inhibitors = {} /\ unnamed = {} <=> inhibitors = {})
       /\ pc \notin {"bus", "comm", "locks"} => (rep.wake_locks = 0 <=> ~locked)
       /\ pc \notin Early =>
            /\ rep.audio_streams = 0 <=> ~playing
            /\ rep.vms # <<>> => SomeVm
            /\ \A p \in Alive :
                 procs[p].comm \in VmNames => procs[p].birth \in resident

RunInv == Types /\ ReportTypes /\ QuietReport

USE MaxBirthsAssumption

\* The counts are right before anything has been counted.
LEMMA RunInitEstablishes == Init => RunInv
<1> SUFFICES ASSUME Init PROVE RunInv
  OBVIOUS
<1>1. Types
  BY DEF Init, Types
<1>2. ReportTypes
  BY FS_EmptySet DEF Init, ReportTypes
<1>3. QuietReport
  BY DEF Init, QuietReport, Early
<1> QED BY <1>1, <1>2, <1>3 DEF RunInv

\* While the system changes, the program does not look; what it looked at
\* before is no longer quiet.
LEMMA ChangingKeeps ==
  ASSUME RunInv, pc \in {"bus", "comm", "locks", "audio", "vms"}, Changing({pc})
  PROVE  /\ ReportTypes' /\ QuietReport'
         /\ UNCHANGED <<pc, cursor, batch, failed>>
<1>1. /\ UNCHANGED <<pc, unnamed, cursor, batch, resident, rep, failed>>
      /\ quiet' = (quiet /\ pc = "bus")
  BY DEF Changing, walkVars
<1>2. ReportTypes'
  BY <1>1 DEF RunInv, ReportTypes
<1>3. QuietReport'
  <2>1. CASE pc = "bus"
    BY <1>1, <2>1 DEF RunInv, QuietReport, Early
  <2>2. CASE pc # "bus"
    BY <1>1, <2>2 DEF RunInv, QuietReport
  <2> QED BY <2>1, <2>2
<1> QED BY <1>1, <1>2, <1>3

\* What the system does while the program runs.
LEMMA SystemKeepsRun == ASSUME IInv, RunInv, System PROVE RunInv'
<1>1. pc \in {"bus", "comm", "locks", "audio", "vms"} /\ Changing({pc})
  BY DEF System, Start, Exit, Inhibit, Release, Toggle, Changing
<1>2. /\ ReportTypes' /\ QuietReport'
      /\ UNCHANGED <<pc, cursor, batch, failed>>
  BY <1>1, ChangingKeeps
<1>3. births' \in Nat /\ births' <= MaxBirths
  <2>1. births \in Nat /\ births <= MaxBirths
    BY DEF IInv, BirthsUnique, RunInv, Types
  <2>2. births' = births \/ (births < MaxBirths /\ births' = births + 1)
    BY DEF System, Start, Exit, Inhibit, Release, Toggle
  <2> QED BY <2>1, <2>2
<1>4. \A i \in inhibitors' : i.what \in Whats
  <2>1. CASE inhibitors' \subseteq inhibitors
    BY <2>1 DEF RunInv, Types
  <2>2. ASSUME NEW p \in Pids, Inhibit(p)
        PROVE  \A i \in inhibitors' : i.what \in Whats
    BY <2>2 DEF Inhibit, RunInv, Types
  <2> QED BY <2>1, <2>2 DEF System, Start, Exit, Release, Toggle
<1> QED BY <1>2, <1>3, <1>4 DEF RunInv, Types

\* The system as a reading leaves it.
Unmoved == UNCHANGED <<procs, births, inhibitors, locked, playing, quiet>>

\* A reading moves no process.
LEMMA UnmovedKeeps ==
  ASSUME IInv, Unmoved
  PROVE  Alive' = Alive /\ (SomeVm' <=> SomeVm)
BY DEF Unmoved, Alive, SomeVm

\* The reply holds logind's list, or the failure is noted.
LEMMA ListInhibitorsKeepsRun == ASSUME IInv, RunInv, ListInhibitors PROVE RunInv'
<1>1. /\ Unmoved /\ pc = "bus" /\ rep' = rep
      /\ UNCHANGED <<cursor, batch, resident>>
      /\ \/ pc' = "comm" /\ unnamed' = inhibitors /\ failed' = failed
         \/ pc' = "locks" /\ unnamed' = unnamed /\ "bus" \in Faults /\ failed' = failed \union {"bus"}
  BY DEF ListInhibitors, Fails, Unmoved, systemVars, walkVars
<1>2. Types'
  BY <1>1 DEF RunInv, Types, Unmoved, Early
<1>3. ReportTypes'
  BY <1>1 DEF RunInv, ReportTypes
<1>4. QuietReport'
  BY <1>1 DEF RunInv, QuietReport, Unmoved, Early
<1> QED BY <1>2, <1>3, <1>4 DEF RunInv

\* Naming the holder of an entry of the reply loses no entry.
LEMMA ResolveKeepsRun ==
  ASSUME IInv, RunInv, NEW i \in unnamed, ResolveComm(i)
  PROVE  RunInv'
<1>1. PICK c : /\ rep' = [rep EXCEPT !.inhibitors = @ \union
                            {[pid |-> i.pid, birth |-> i.birth, what |-> i.what,
                              comm |-> c]}]
               /\ c = NameOf(i) \/ c = "who"
               /\ failed' = failed \/ ("comm" \in Faults /\ failed' = failed \union {"comm"})
  BY DEF ResolveComm
<1>2. /\ Unmoved /\ pc = "comm" /\ pc' = "comm"
      /\ UNCHANGED <<cursor, batch, resident>>
      /\ unnamed' = unnamed \ {i}
  BY DEF ResolveComm, Unmoved, walkVars, systemVars
<1> DEFINE new == [pid |-> i.pid, birth |-> i.birth, what |-> i.what, comm |-> c]
<1>3. /\ rep'.inhibitors = rep.inhibitors \union {new} /\ rep'.vms = rep.vms
      /\ rep'.wake_locks = rep.wake_locks /\ rep'.audio_streams = rep.audio_streams
  BY <1>1 DEF IInv, WalkTypes
<1>4. Types'
  BY <1>1, <1>2 DEF RunInv, Types, Unmoved
<1>5. ReportTypes'
  <2>1. c \in Comms \union {"who"}
    <3>1. i.pid \in Pids
      BY DEF IInv, HoldersBorn
    <3>2. procs[i.pid] = Free \/ procs[i.pid].comm \in Comms
      BY <3>1 DEF IInv, BirthsUnique, Alive
    <3> QED BY <1>1, <3>2 DEF NameOf
  <2>2. IsFiniteSet(rep.inhibitors \union {new})
    BY FS_AddElement DEF RunInv, ReportTypes
  <2> QED BY <1>3, <2>1, <2>2 DEF RunInv, ReportTypes
<1>6. QuietReport'
  <2>1. rep'.inhibitors # {} /\ pc' = "comm" /\ pc' \in Early
    BY <1>2, <1>3 DEF Early
  <2>2. rep'.vms = <<>>
    BY <1>2, <1>3 DEF RunInv, QuietReport, Early
  <2>3. quiet /\ failed' = {} => inhibitors' # {}
    BY <1>1, <1>2 DEF RunInv, QuietReport, Unmoved
  <2> QED BY <1>2, <2>1, <2>2, <2>3 DEF QuietReport, Unmoved
<1> QED BY <1>4, <1>5, <1>6 DEF RunInv

\* Every entry of the reply has been reported.
LEMMA AllNamedKeepsRun == ASSUME IInv, RunInv, AllNamed PROVE RunInv'
<1>1. /\ Unmoved /\ pc = "comm" /\ pc' = "locks" /\ rep' = rep /\ unnamed = {}
      /\ UNCHANGED <<cursor, batch, resident, failed, unnamed>>
  BY DEF AllNamed, Unmoved, systemVars, walkVars
<1>2. Types'
  BY <1>1 DEF RunInv, Types, Unmoved, Early
<1>3. ReportTypes'
  BY <1>1 DEF RunInv, ReportTypes
<1>4. QuietReport'
  BY <1>1 DEF RunInv, QuietReport, Unmoved, Early
<1> QED BY <1>2, <1>3, <1>4 DEF RunInv

\* A wake lock is counted, or the failure is noted.
LEMMA ReadWakeLocksKeepsRun == ASSUME IInv, RunInv, ReadWakeLocks PROVE RunInv'
<1>1. /\ Unmoved /\ pc = "locks" /\ pc' = "audio"
      /\ UNCHANGED <<cursor, batch, resident, unnamed>>
      /\ \/ /\ rep' = [rep EXCEPT !.wake_locks = IF locked THEN 1 ELSE 0]
            /\ failed' = failed
         \/ "locks" \in Faults /\ failed' = failed \union {"locks"} /\ rep' = rep
  BY DEF ReadWakeLocks, Fails, Unmoved, systemVars, walkVars
<1>2. /\ rep'.inhibitors = rep.inhibitors /\ rep'.vms = rep.vms
      /\ rep'.audio_streams = rep.audio_streams
      /\ rep'.wake_locks \in 0..1
      /\ failed' = {} => (rep'.wake_locks = 0 <=> ~locked)
  <2>1. CASE rep' = rep /\ failed' # {}
    BY <2>1 DEF RunInv, ReportTypes
  <2>2. CASE rep' = [rep EXCEPT !.wake_locks = IF locked THEN 1 ELSE 0]
    BY <2>2 DEF IInv, WalkTypes
  <2> QED BY <1>1, <2>1, <2>2
<1>3. Types'
  BY <1>1 DEF RunInv, Types, Unmoved, Early
<1>4. ReportTypes'
  BY <1>2 DEF RunInv, ReportTypes
<1>5. QuietReport'
  <2>1. failed' = {} => failed = {}
    BY <1>1
  <2> QED BY <1>1, <1>2, <2>1 DEF RunInv, QuietReport, Unmoved, Early
<1> QED BY <1>3, <1>4, <1>5 DEF RunInv

\* A stream is counted, or the failure is noted; the walk begins.
LEMMA ListAudioKeepsRun == ASSUME IInv, RunInv, ListAudioStreams PROVE RunInv'
<1>1. /\ Unmoved /\ pc = "audio" /\ pc' = "vms"
      /\ cursor' = 0 /\ batch' = batch /\ unnamed' = unnamed
      /\ resident' = {procs[p].birth : p \in {q \in Alive : procs[q].comm \in VmNames}}
      /\ \/ /\ rep' = [rep EXCEPT !.audio_streams = IF playing THEN 1 ELSE 0]
            /\ failed' = failed
         \/ "pactl" \in Faults /\ failed' = failed \union {"pactl"} /\ rep' = rep
  BY DEF ListAudioStreams, Fails, Unmoved, systemVars
<1>2. /\ rep'.inhibitors = rep.inhibitors /\ rep'.vms = rep.vms
      /\ rep'.wake_locks = rep.wake_locks
      /\ rep'.audio_streams \in 0..1
      /\ failed' = {} => (rep'.audio_streams = 0 <=> ~playing)
  <2>1. CASE rep' = rep /\ failed' # {}
    BY <2>1 DEF RunInv, ReportTypes
  <2>2. CASE rep' = [rep EXCEPT !.audio_streams = IF playing THEN 1 ELSE 0]
    BY <2>2 DEF IInv, WalkTypes
  <2> QED BY <1>1, <2>1, <2>2
<1>3. Types'
  <2>1. batch = {}
    BY <1>1 DEF RunInv, Types, Early
  <2> QED BY <1>1, <2>1 DEF RunInv, Types, Unmoved, Early
<1>4. ReportTypes'
  BY <1>2 DEF RunInv, ReportTypes
<1>5. QuietReport'
  <2>1. failed' = {} => failed = {}
    BY <1>1
  <2>2. Alive' = Alive /\ \A p \in Alive : procs[p].comm \in VmNames => procs[p].birth \in resident'
    BY <1>1, UnmovedKeeps
  <2> QED BY <1>1, <1>2, <2>1, <2>2 DEF RunInv, QuietReport, Unmoved, Early
<1> QED BY <1>3, <1>4, <1>5 DEF RunInv

\* The steps of the walk: what they add to the report is a machine that runs.
LEMMA WalkKeepsRun ==
  ASSUME IInv, RunInv, WalkRefused \/ ReadDir \/ ReadComm \/ EndOfDir
  PROVE  RunInv'
<1>1. /\ Unmoved /\ pc = "vms" /\ pc' \in {"vms", "usb", "done"}
      /\ UNCHANGED <<resident, unnamed>>
      /\ failed \subseteq failed' /\ failed' \subseteq failed \union Faults
  BY DEF WalkRefused, ReadDir, ReadComm, EndOfDir, AfterVms, Fails, Unmoved, systemVars, walkVars
<1>2. /\ rep'.inhibitors = rep.inhibitors /\ rep'.wake_locks = rep.wake_locks
      /\ rep'.audio_streams = rep.audio_streams
      /\ rep'.vms = rep.vms \/ SomeVm
  <2>1. CASE rep' = rep
    BY <2>1
  <2>2. CASE rep' # rep
    <3>1. PICK p \in batch :
            /\ procs[p].comm \in VmNames
            /\ rep' = [rep EXCEPT !.vms =
                         Append(@, [pid |-> p, birth |-> procs[p].birth,
                                    comm |-> procs[p].comm])]
      BY <2>2 DEF WalkRefused, ReadDir, ReadComm, EndOfDir, Fails
    <3>2. p \in Alive
      BY <3>1 DEF Alive, Free, IInv, WalkTypes
    <3> QED BY <3>1, <3>2 DEF SomeVm, IInv, WalkTypes
  <2> QED BY <2>1, <2>2
<1>3. /\ cursor' \in Pids \union {0} /\ \A p \in batch' : p <= cursor'
  <2>1. CASE cursor' = cursor /\ batch' \subseteq batch
    BY <2>1 DEF RunInv, Types
  <2>2. CASE ReadDir
    BY <2>2 DEF ReadDir, Alive
  <2> QED BY <2>1, <2>2 DEF WalkRefused, ReadComm, EndOfDir, walkVars
<1>4. Types'
  BY <1>1, <1>3 DEF RunInv, Types, Unmoved, Early
<1>5. ReportTypes'
  BY <1>2 DEF RunInv, ReportTypes
<1>6. QuietReport'
  <2>1. failed' = {} => failed = {}
    BY <1>1
  <2>2. Alive' = Alive /\ (SomeVm' <=> SomeVm)
    BY <1>1, UnmovedKeeps
  <2> QED BY <1>1, <1>2, <2>1, <2>2 DEF RunInv, QuietReport, Unmoved, Early
<1> QED BY <1>4, <1>5, <1>6 DEF RunInv

\* The USB devices are not counted.
LEMMA ReadUsbKeepsRun == ASSUME IInv, RunInv, ReadUsb PROVE RunInv'
<1>1. /\ Unmoved /\ pc = "usb" /\ pc' = "done"
      /\ UNCHANGED <<cursor, batch, resident, unnamed>>
      /\ \/ rep' = [rep EXCEPT !.usb_wakeup = "listed"] /\ failed' = failed
         \/ "usb" \in Faults /\ failed' = failed \union {"usb"} /\ rep' = rep
  BY DEF ReadUsb, Fails, Unmoved, systemVars, walkVars
<1>2. /\ rep'.inhibitors = rep.inhibitors /\ rep'.vms = rep.vms
      /\ rep'.wake_locks = rep.wake_locks /\ rep'.audio_streams = rep.audio_streams
  BY <1>1 DEF IInv, WalkTypes
<1>3. Types'
  BY <1>1 DEF RunInv, Types, Unmoved, Early
<1>4. ReportTypes'
  BY <1>2 DEF RunInv, ReportTypes
<1>5. QuietReport'
  <2>1. failed' = {} => failed = {}
    BY <1>1
  <2>2. Alive' = Alive /\ (SomeVm' <=> SomeVm)
    BY <1>1, UnmovedKeeps
  <2> QED BY <1>1, <1>2, <2>1, <2>2 DEF RunInv, QuietReport, Unmoved, Early
<1> QED BY <1>3, <1>4, <1>5 DEF RunInv

\* A stuttering step.
LEMMA RunStutterKeeps == ASSUME RunInv, UNCHANGED vars PROVE RunInv'
<1>1. UNCHANGED <<births, inhibitors, pc, cursor, batch, failed, rep>>
  BY DEF vars, systemVars, walkVars
<1>2. Types' /\ ReportTypes'
  BY <1>1 DEF RunInv, Types, ReportTypes
<1>3. QuietReport'
  BY DEF RunInv, QuietReport, vars, systemVars, walkVars, SomeVm, Alive
<1> QED BY <1>2, <1>3 DEF RunInv

\* RunInv is an invariant, with the help of IInv.
THEOREM RunInvariant == Spec => []RunInv
<1>1. IInv /\ RunInv /\ [Next]_vars => RunInv'
  BY SystemKeepsRun, ListInhibitorsKeepsRun, ResolveKeepsRun, AllNamedKeepsRun,
     ReadWakeLocksKeepsRun, ListAudioKeepsRun, WalkKeepsRun, ReadUsbKeepsRun,
     RunStutterKeeps
  DEF Next, Program
<1> QED BY RunInitEstablishes, <1>1, ReportInvariant, PTL DEF Spec

\* Every variable keeps its type.
THEOREM TypeCorrect == Spec => []TypeOK
<1>1. IInv /\ RunInv => TypeOK
  <2> SUFFICES ASSUME IInv, RunInv PROVE TypeOK
    OBVIOUS
  <2>1. /\ births \in 0..MaxBirths
        /\ procs \in [Pids -> [birth : 0..MaxBirths, comm : Comms \union {"none"}]]
    <3>1. births \in Nat /\ births <= MaxBirths
      BY DEF IInv, BirthsUnique, RunInv, Types
    <3>2. 0..births \subseteq 0..MaxBirths
      BY <3>1
    <3>3. procs \in [Pids -> [birth : 0..births, comm : Comms \union {"none"}]]
      BY DEF IInv, BirthsUnique
    <3> QED BY <3>1, <3>2, <3>3
  <2>2. \A i \in inhibitors : i.pid \in Pids /\ i.what \in Whats
    BY DEF IInv, HoldersBorn, RunInv, Types
  <2>3. /\ pc \in {"bus", "comm", "locks", "audio", "vms", "usb", "done"}
        /\ cursor \in Pids \union {0} /\ batch \subseteq Pids
        /\ \A p \in batch : p <= cursor
        /\ failed \subseteq Faults
    BY DEF IInv, WalkTypes, RunInv, Types
  <2>4. /\ \A i \in rep.inhibitors : i.comm \in Comms \union {"who"}
        /\ rep.wake_locks \in 0..1 /\ rep.audio_streams \in 0..1
    BY DEF RunInv, ReportTypes
  <2>5. \A i \in DOMAIN rep.vms :
          rep.vms[i].pid \in Pids /\ rep.vms[i].comm \in VmNames
    <3> SUFFICES ASSUME NEW i \in DOMAIN rep.vms
                 PROVE  rep.vms[i].pid \in Pids /\ rep.vms[i].comm \in VmNames
      OBVIOUS
    <3>1. rep.vms[i] \in [pid : Pids, birth : Nat, comm : VmNames]
      <4>1. PICK Row : Row = [pid : Pids, birth : Nat, comm : VmNames]
        OBVIOUS
      <4>2. rep.vms \in Seq(Row)
        BY <4>1 DEF IInv, WalkTypes
      <4>3. DOMAIN rep.vms = 1..Len(rep.vms)
        BY <4>2, LenProperties
      <4>4. rep.vms[i] \in Row
        BY <4>2, <4>3, ElementOfSeq
      <4> QED BY <4>1, <4>4
    <3> QED BY <3>1
  <2> QED BY <2>1, <2>2, <2>3, <2>4, <2>5 DEF TypeOK
<1> QED BY <1>1, ReportInvariant, RunInvariant, PTL

\* On a system that stands still and answers, the verdict is right: nothing is
\* counted exactly when there is nothing that blocks sleep.
THEOREM QuietVerdict == Spec => []QuietVerdictIsRight
<1>1. IInv /\ RunInv => QuietVerdictIsRight
  <2> SUFFICES ASSUME IInv, RunInv, pc = "done", quiet, failed = {}
               PROVE  AllClear <=> /\ inhibitors = {} /\ ~locked /\ ~playing
                                   /\ ~SomeVm
    BY DEF QuietVerdictIsRight, SomeVm
  <2>1. /\ rep.inhibitors = {} <=> inhibitors = {}
        /\ rep.wake_locks = 0 <=> ~locked
        /\ rep.audio_streams = 0 <=> ~playing
        /\ rep.vms # <<>> => SomeVm
        /\ \A p \in Alive : procs[p].comm \in VmNames => procs[p].birth \in resident
    BY DEF RunInv, QuietReport, Early
  <2>2. SomeVm => rep.vms # <<>>
    <3> SUFFICES ASSUME NEW p \in Alive, procs[p].comm \in VmNames
                 PROVE  rep.vms # <<>>
      BY DEF SomeVm
    <3>1. Found(p)
      BY <2>1 DEF IInv, ResidentVmsFound, Found
    <3> QED BY <3>1 DEF Found
  <2>3. AllClear <=> /\ rep.inhibitors = {} /\ rep.wake_locks = 0
                     /\ rep.audio_streams = 0 /\ rep.vms = <<>>
    <3>1. /\ Cardinality(rep.inhibitors) \in Nat
          /\ Cardinality(rep.inhibitors) = 0 <=> rep.inhibitors = {}
      BY FS_CardinalityType, FS_EmptySet DEF RunInv, ReportTypes
    <3>2. rep.wake_locks \in 0..1 /\ rep.audio_streams \in 0..1
      BY DEF RunInv, ReportTypes
    <3>3. Len(rep.vms) \in Nat /\ (Len(rep.vms) = 0 <=> rep.vms = <<>>)
      BY DEF IInv, WalkTypes
    <3> QED BY <3>1, <3>2, <3>3 DEF AllClear, Total
  <2> QED BY <2>1, <2>2, <2>3, Zenon
<1> QED BY <1>1, ReportInvariant, RunInvariant, PTL

=============================================================================
