------------------------------ MODULE Requests ------------------------------
(***************************************************************************)
(* The requests subcommand: who keeps the machine awake.                   *)
(*                                                                         *)
(* cmd::requests::run asks logind for its inhibitors, names each holder    *)
(* from /proc/<pid>/comm, reads the kernel wake locks, runs pactl, walks   *)
(* /proc for virtual machines, and with --verbose lists the USB devices.   *)
(* Meanwhile processes start and exit, the kernel reuses their PIDs, and   *)
(* logind learns of a holder's death a little after it.                    *)
(***************************************************************************)
EXTENDS Integers, Sequences, FiniteSets

CONSTANTS
  Pids,       \* process ids, numbers
  Comms,      \* the names a process can have
  VmNames,    \* those in VM_COMM_NAMES
  Whats,      \* what inhibitors can block
  Toggling,   \* which of "lock" and "audio" come and go
  Faults,     \* readings that may fail
  MaxBirths   \* bound: processes started in a behaviour

AllFaults == {"bus", "comm", "locks", "pactl", "proc", "usb"}

ASSUME PidsAssumption == Pids \subseteq Nat \ {0}
ASSUME VmNamesAssumption == VmNames \subseteq Comms /\ "none" \notin Comms
ASSUME WhatsAssumption == Whats \subseteq {"sleep", "idle", "shutdown"}
ASSUME TogglingAssumption == Toggling \subseteq {"lock", "audio"}
ASSUME FaultsAssumption == Faults \subseteq AllFaults
ASSUME MaxBirthsAssumption == MaxBirths \in Nat

VARIABLES
  procs,      \* the process of each PID: its birth number and name
  births,     \* processes started so far
  inhibitors, \* logind's list: holder's PID and birth, and what it blocks
  locked,     \* a kernel wake lock is held
  playing,    \* an audio stream is active
  pc,         \* the next reading of the program
  verbose,    \* its flag
  unnamed,    \* inhibitors of the reply whose holder is not looked up yet
  cursor,     \* the last PID readdir returned from /proc
  batch,      \* PIDs readdir returned whose comm is not read yet
  rep,        \* the RequestsReport built so far
  failed,     \* history: readings that failed
  resident,   \* history: births of the VMs running when the walk began
  quiet       \* history: the system has not changed since the first reading

systemVars == <<procs, births, inhibitors, locked, playing>>
walkVars == <<cursor, batch, resident>>
vars == <<systemVars, pc, verbose, unnamed, walkVars, rep, failed, quiet>>

\* A PID nobody has. Births are numbered from 1.
Free == [birth |-> 0, comm |-> "none"]
Alive == {p \in Pids : procs[p] # Free}
Kept == {"sleep", "idle"}     \* the ones print_requests displays

TypeOK ==
  /\ procs \in [Pids -> [birth : 0..MaxBirths, comm : Comms \union {"none"}]]
  /\ births \in 0..MaxBirths
  /\ \A i \in inhibitors : i.pid \in Pids /\ i.what \in Whats
  /\ pc \in {"bus", "comm", "locks", "audio", "vms", "usb", "done"}
  /\ cursor \in Pids \union {0} /\ batch \subseteq Pids
  /\ \A p \in batch : p <= cursor
  /\ \A i \in rep.inhibitors : i.comm \in Comms \union {"who"}
  /\ \A i \in DOMAIN rep.vms :
       rep.vms[i].pid \in Pids /\ rep.vms[i].comm \in VmNames
  /\ rep.wake_locks \in 0..1 /\ rep.audio_streams \in 0..1
  /\ failed \subseteq Faults

Init ==
  /\ procs = [p \in Pids |-> Free]
  /\ births = 0
  /\ inhibitors = {}
  /\ locked = FALSE /\ playing = FALSE
  /\ pc = "bus"
  /\ verbose \in BOOLEAN
  /\ unnamed = {}
  /\ cursor = 0 /\ batch = {}
  /\ rep = [inhibitors |-> {}, wake_locks |-> 0, audio_streams |-> 0,
            vms |-> <<>>, usb_wakeup |-> "absent"]
  /\ failed = {}
  /\ resident = {}
  /\ quiet = TRUE

-----------------------------------------------------------------------------
(* The system. What the program has read for the last time may change as   *)
(* it likes: nothing can tell, so those changes are left out.              *)

Changing(pcs) ==
  /\ pc \in pcs
  /\ quiet' = (quiet /\ pc = "bus")
  /\ UNCHANGED <<pc, verbose, unnamed, walkVars, rep, failed>>

Start(p) ==
  /\ Changing({"bus", "comm", "locks", "audio", "vms"})
  /\ procs[p] = Free /\ births < MaxBirths
  /\ births' = births + 1
  /\ \E c \in Comms : procs' = [procs EXCEPT ![p] = [birth |-> births + 1, comm |-> c]]
  /\ UNCHANGED <<inhibitors, locked, playing>>

Exit(p) ==
  /\ Changing({"bus", "comm", "locks", "audio", "vms"})
  /\ p \in Alive
  /\ procs' = [procs EXCEPT ![p] = Free]
  /\ UNCHANGED <<births, inhibitors, locked, playing>>

Inhibit(p) ==
  /\ Changing({"bus"})
  /\ p \in Alive
  /\ \A i \in inhibitors : i.birth # procs[p].birth
  /\ \E w \in Whats :
       inhibitors' = inhibitors \union
                       {[pid |-> p, birth |-> procs[p].birth, what |-> w]}
  /\ UNCHANGED <<procs, births, locked, playing>>

\* logind sees the file descriptor of an inhibitor closed.
Release(i) ==
  /\ Changing({"bus"})
  /\ inhibitors' = inhibitors \ {i}
  /\ UNCHANGED <<procs, births, locked, playing>>

Toggle ==
  \/ /\ Changing({"bus", "comm", "locks"})
     /\ "lock" \in Toggling /\ locked' = ~locked
     /\ UNCHANGED <<procs, births, inhibitors, playing>>
  \/ /\ Changing({"bus", "comm", "locks", "audio"})
     /\ "audio" \in Toggling /\ playing' = ~playing
     /\ UNCHANGED <<procs, births, inhibitors, locked>>

-----------------------------------------------------------------------------
(* The program. A failed reading is logged and leaves its field empty.     *)

Fails(f) ==
  /\ f \in Faults
  /\ failed' = failed \union {f}
  /\ UNCHANGED rep

\* One connection and one ListInhibitors reply.
ListInhibitors ==
  /\ pc = "bus"
  /\ \/ /\ unnamed' = inhibitors
        /\ pc' = "comm"
        /\ UNCHANGED <<rep, failed>>
     \/ Fails("bus") /\ pc' = "locks" /\ UNCHANGED unnamed
  /\ UNCHANGED <<systemVars, verbose, walkVars, quiet>>

\* Faulty variant: whatever /proc/<pid>/comm holds once the holder is gone is
\* reported, even nothing.
NameOrNothing(i) == IF procs[i.pid] = Free THEN "none" ELSE procs[i.pid].comm

\* resolve_comm: the name of the process that has the PID now; the holder's
\* own "who" when there is none.
NameOf(i) == IF procs[i.pid] = Free THEN "who" ELSE procs[i.pid].comm

\* Faulty variant: one name is looked up for the whole reply.
NameAllAlike(i) ==
  /\ pc = "comm" /\ i \in unnamed
  /\ \E j \in unnamed :
       rep' = [rep EXCEPT !.inhibitors = @ \union
                 {[pid |-> k.pid, birth |-> k.birth, what |-> k.what,
                   comm |-> NameOf(j)] : k \in unnamed}]
  /\ unnamed' = {}
  /\ UNCHANGED <<systemVars, pc, verbose, walkVars, quiet, failed>>

\* Inhibitor::from_dbus_tuple on one entry of the reply.
ResolveComm(i) ==
  /\ pc = "comm" /\ i \in unnamed
  /\ \/ /\ rep' = [rep EXCEPT !.inhibitors = @ \union
                    {[pid |-> i.pid, birth |-> i.birth, what |-> i.what,
                      comm |-> NameOf(i)]}]
        /\ UNCHANGED failed
     \/ /\ "comm" \in Faults
        /\ failed' = failed \union {"comm"}
        /\ rep' = [rep EXCEPT !.inhibitors = @ \union
                    {[pid |-> i.pid, birth |-> i.birth, what |-> i.what,
                      comm |-> "who"]}]
  /\ unnamed' = unnamed \ {i}
  /\ UNCHANGED <<systemVars, pc, verbose, walkVars, quiet>>

AllNamed ==
  /\ pc = "comm" /\ unnamed = {}
  /\ pc' = "locks"
  /\ UNCHANGED <<systemVars, verbose, unnamed, walkVars, rep, failed, quiet>>

\* A missing or unreadable wake_lock file counts as no locks.
ReadWakeLocks ==
  /\ pc = "locks" /\ pc' = "audio"
  /\ \/ /\ rep' = [rep EXCEPT !.wake_locks = IF locked THEN 1 ELSE 0]
        /\ UNCHANGED failed
     \/ Fails("locks")
  /\ UNCHANGED <<systemVars, verbose, unnamed, walkVars, quiet>>

\* pactl's exit status is not looked at: one that runs and fails lists no
\* streams, as if it could not be run.
ListAudioStreams ==
  /\ pc = "audio" /\ pc' = "vms"
  /\ \/ /\ rep' = [rep EXCEPT !.audio_streams = IF playing THEN 1 ELSE 0]
        /\ UNCHANGED failed
     \/ Fails("pactl")
  /\ cursor' = 0
  /\ resident' = {procs[p].birth : p \in {q \in Alive : procs[q].comm \in VmNames}}
  /\ UNCHANGED <<systemVars, verbose, unnamed, batch, quiet>>

AfterVms == IF verbose THEN "usb" ELSE "done"

WalkRefused ==
  /\ pc = "vms" /\ cursor = 0
  /\ Fails("proc")
  /\ pc' = AfterVms
  /\ UNCHANGED <<systemVars, verbose, unnamed, walkVars, quiet>>

\* readdir returns the next PIDs in increasing order, as many as it likes; the
\* directory is not a snapshot.
ReadDir ==
  /\ pc = "vms" /\ batch = {}
  /\ \E last \in {p \in Alive : p > cursor} :
       /\ batch' = {p \in Alive : p > cursor /\ p <= last}
       /\ cursor' = last
  /\ UNCHANGED <<systemVars, pc, verbose, unnamed, resident, rep, failed, quiet>>

\* Faulty variant: a process that is gone ends the walk.
ReadCommOrStop ==
  /\ pc = "vms"
  /\ \E p \in batch :
       /\ \A q \in batch : p <= q
       /\ batch' = IF p \in Alive THEN batch \ {p} ELSE {}
       /\ pc' = IF p \in Alive THEN pc ELSE AfterVms
       /\ rep' = IF procs[p].comm \in VmNames
                 THEN [rep EXCEPT !.vms = 
                         Append(@, [pid |-> p, birth |-> procs[p].birth,
                                    comm |-> procs[p].comm])]
                 ELSE rep
  /\ UNCHANGED <<systemVars, verbose, unnamed, cursor, resident, failed, quiet>>

\* The name is compared when the comm file is read, which may be after the
\* process readdir saw has gone; an entry that cannot be read is skipped.
ReadComm ==
  /\ pc = "vms"
  /\ \E p \in batch :
       /\ \A q \in batch : p <= q
       /\ batch' = batch \ {p}
       /\ \/ /\ rep' = IF procs[p].comm \in VmNames
                       THEN [rep EXCEPT !.vms =
                               Append(@, [pid |-> p, birth |-> procs[p].birth,
                                          comm |-> procs[p].comm])]
                       ELSE rep
             /\ UNCHANGED failed
          \/ Fails("comm")
  /\ UNCHANGED <<systemVars, pc, verbose, unnamed, cursor, resident, quiet>>

EndOfDir ==
  /\ pc = "vms" /\ batch = {}
  /\ \A p \in Alive : p <= cursor
  /\ pc' = AfterVms
  /\ UNCHANGED <<systemVars, verbose, unnamed, walkVars, rep, failed, quiet>>

ReadUsb ==
  /\ pc = "usb" /\ pc' = "done"
  /\ \/ rep' = [rep EXCEPT !.usb_wakeup = "listed"] /\ UNCHANGED failed
     \/ Fails("usb")
  /\ UNCHANGED <<systemVars, verbose, unnamed, walkVars, quiet>>

System ==
  \/ \E p \in Pids : Start(p) \/ Exit(p) \/ Inhibit(p)
  \/ \E i \in inhibitors : Release(i)
  \/ Toggle

Program ==
  \/ ListInhibitors \/ (\E i \in unnamed : ResolveComm(i)) \/ AllNamed
  \/ ReadWakeLocks \/ ListAudioStreams
  \/ WalkRefused \/ ReadDir \/ ReadComm \/ EndOfDir
  \/ ReadUsb

Next == System \/ Program

Spec == Init /\ [][Next]_vars

-----------------------------------------------------------------------------
(* What print_requests makes of the report. *)

Displayed == {i \in rep.inhibitors : i.what \in Kept}

\* Faulty variant: the summary counts what is displayed.
TotalDisplayed ==
  Cardinality(Displayed) + rep.wake_locks + rep.audio_streams +
  Len(rep.vms)

\* The summary counts the unfiltered inhibitors.
Total ==
  Cardinality(rep.inhibitors) + rep.wake_locks + rep.audio_streams +
  Len(rep.vms)

AllClear == Total = 0

\* A holder that is still running is reported under its own name, or its "who"
\* if that name could not be read. Only the inhibitor of a process that has
\* exited can be put under the name of whoever got its PID.
LiveHoldersNamed ==
  \A i \in rep.inhibitors :
    procs[i.pid].birth = i.birth =>
      \/ i.comm = procs[i.pid].comm
      \/ i.comm = "who" /\ "comm" \in failed

\* A virtual machine that runs from the beginning of the /proc walk to its end
\* is found, however many processes come and go around it.
ResidentVmsFound ==
  pc \in {"usb", "done"} /\ failed \intersect {"proc", "comm"} = {} =>
    \A p \in Alive :
      procs[p].birth \in resident =>
        \E i \in DOMAIN rep.vms : rep.vms[i].birth = procs[p].birth

\* On a system that does not change during the run, and if every source
\* answers, the program says that nothing blocks sleep exactly when there is
\* no inhibitor of any kind, no wake lock, no stream and no machine.
QuietVerdictIsRight ==
  pc = "done" /\ quiet /\ failed = {} =>
    (AllClear <=> /\ inhibitors = {} /\ ~locked /\ ~playing
                  /\ \A p \in Alive : procs[p].comm \notin VmNames)

=============================================================================
