-------------------------------- MODULE Exec --------------------------------
(***************************************************************************)
(* source::exec::run_with_timeout, the bounded subprocess call every       *)
(* pactl, journalctl and dmesg read of the program goes through.           *)
(*                                                                         *)
(* Four parties run concurrently: the caller's thread, two drain threads   *)
(* (one per captured stream), the child process, and possibly a process    *)
(* the child forked, its heir, which inherits the write ends of the pipes. *)
(* The kernel owns the pipes (bounded), the deadline of wait_timeout, and  *)
(* the delivery of SIGKILL.                                                *)
(*                                                                         *)
(* Output is modelled by how many units each stream has carried: a unit is *)
(* any chunk, and PipeCap units fill a pipe (64 KB on Linux).              *)
(***************************************************************************)
EXTENDS Naturals, FiniteSets

CONSTANTS
  PipeCap,    \* units a pipe holds before a writer blocks
  MaxUnits,   \* bound: the most units one process has to write on a stream
  Forks,      \* whether the child may leave a descendant behind
  Faults      \* the system calls that may fail

Streams == {"stdout", "stderr"}
Procs == {"child", "heir"}
AllFaults ==
  {"notfound", "spawn", "thread", "wait_timeout", "kill", "wait", "read"}

ASSUME PipeCapAssumption == PipeCap \in Nat \ {0}
ASSUME MaxUnitsAssumption == MaxUnits \in Nat
ASSUME ForksAssumption == Forks \in BOOLEAN
ASSUME FaultsAssumption == Faults \subseteq AllFaults

VARIABLES
  pc,       \* where the caller's thread is in run_with_timeout
  result,   \* what it returned, "none" until then
  output,   \* the bytes in the returned Output, per stream
  drain,    \* each drain thread: none, reading, eof, failed, dropped
  buf,      \* what each drain thread has read so far
  proc,     \* each process: unborn, running, zombie, gone
  ends,     \* the open write ends, as <<process, stream>>
  todo,     \* what each process still has to write, per stream
  killed,   \* SIGKILL was sent to the child
  pipe,     \* what each pipe holds
  written,  \* history: everything ever written to each stream
  expired,  \* the deadline given to wait_timeout has passed
  faults    \* history: the calls that have failed

callerVars == <<pc, result, output, killed>>
drainVars  == <<drain, buf>>
procVars   == <<proc, ends, todo, written>>
vars == <<callerVars, drainVars, procVars, pipe, expired, faults>>

Nothing == [s \in Streams |-> 0]
DrainPc   == [stdout |-> "drain_stdout", stderr |-> "drain_stderr"]
AfterDrain == [stdout |-> "drain_stderr", stderr |-> "wait"]
JoinPc    == [stdout |-> "join_stdout", stderr |-> "join_stderr"]

PCs == {"spawn", "drain_stdout", "drain_stderr", "wait", "kill", "reap",
        "join_stdout", "join_stderr", "done", "exited"}
Results == {"none", "NotFound", "Io", "Timeout", "Panic", "Ok"}

TypeOK ==
  /\ pc \in PCs
  /\ result \in Results
  /\ output \in [Streams -> Nat]
  /\ drain \in [Streams -> {"none", "reading", "eof", "failed", "dropped"}]
  /\ buf \in [Streams -> Nat]
  /\ proc \in [Procs -> {"unborn", "running", "zombie", "gone"}]
  /\ ends \in SUBSET (Procs \X Streams)
  /\ todo \in [Procs -> [Streams -> Nat]]
  /\ killed \in BOOLEAN
  /\ pipe \in [Streams -> Nat]
  /\ written \in [Streams -> Nat]
  /\ expired \in BOOLEAN
  /\ faults \in SUBSET Faults

Init ==
  /\ pc = "spawn"
  /\ result = "none"
  /\ output = Nothing
  /\ drain = [s \in Streams |-> "none"]
  /\ buf = Nothing
  /\ proc = [p \in Procs |-> "unborn"]
  /\ ends = {}
  /\ todo \in [Procs -> [Streams -> 0..MaxUnits]]
  /\ todo["heir"] # Nothing => Forks
  /\ killed = FALSE
  /\ pipe = Nothing
  /\ written = Nothing
  /\ expired = FALSE
  /\ faults = {}

-----------------------------------------------------------------------------
(* What the parties can see of each other. *)

\* The read end of a pipe is open while its ChildStdout/ChildStderr handle
\* waits to be moved into a drain thread, and while that thread reads.
HasReader(s) ==
  \/ drain[s] = "reading"
  \/ drain[s] = "none" /\ pc \in {"drain_stdout", "drain_stderr"}

Writers(s) == {p \in Procs : <<p, s>> \in ends}

\* A process that ends closes its write ends; the child stays a zombie until
\* its parent reaps it, the heir is reaped by init.
Gone(p) ==
  /\ proc' = [proc EXCEPT ![p] = IF p = "child" THEN "zombie" ELSE "gone"]
  /\ ends' = ends \ ({p} \X Streams)
  /\ UNCHANGED <<todo, written>>

Fault(f) ==
  /\ f \in Faults
  /\ faults' = faults \union {f}

Return(r) ==
  /\ pc' = "done"
  /\ result' = r

-----------------------------------------------------------------------------
(* The caller's thread. *)

SpawnFails ==
  /\ pc = "spawn"
  /\ \/ Fault("notfound") /\ Return("NotFound")
     \/ Fault("spawn") /\ Return("Io")
  /\ UNCHANGED <<output, killed, drainVars, procVars, pipe, expired>>

\* Both streams are always piped, whatever the caller configured.
Spawn ==
  /\ pc = "spawn"
  /\ pc' = "drain_stdout"
  /\ proc' = [proc EXCEPT !["child"] = "running"]
  /\ ends' = {"child"} \X Streams
  /\ UNCHANGED <<result, output, killed, drainVars, todo, written, pipe,
                 expired, faults>>

\* Faulty variant: stderr is drained only once stdout has reached its end.
StartDrainInSequence(s) ==
  /\ pc = DrainPc[s]
  /\ s = "stderr" => drain["stdout"] = "eof"
  /\ drain' = [drain EXCEPT ![s] = "reading"]
  /\ pc' = AfterDrain[s]
  /\ UNCHANGED <<result, output, killed, buf, procVars, pipe, expired, faults>>

StartDrain(s) ==
  /\ pc = DrainPc[s]
  /\ drain' = [drain EXCEPT ![s] = "reading"]
  /\ pc' = AfterDrain[s]
  /\ UNCHANGED <<result, output, killed, buf, procVars, pipe, expired, faults>>

\* thread::spawn panics when the OS refuses a thread; the unwinding drops the
\* Child handle, which neither kills nor reaps it.
ThreadRefused(s) ==
  /\ pc = DrainPc[s]
  /\ Fault("thread")
  /\ Return("Panic")
  /\ UNCHANGED <<output, killed, drainVars, procVars, pipe, expired>>

\* wait_timeout sees the child's exit and reaps it.
WaitSome ==
  /\ pc = "wait"
  /\ proc["child"] = "zombie"
  /\ proc' = [proc EXCEPT !["child"] = "gone"]
  /\ pc' = "join_stdout"
  /\ UNCHANGED <<result, output, killed, drainVars, ends, todo, written, pipe,
                 expired, faults>>

\* Faulty variant: a timeout is answered at once, the child left running.
WaitNoneNoKill ==
  /\ pc = "wait" /\ expired
  /\ Return("Timeout")
  /\ UNCHANGED <<output, killed, drainVars, procVars, pipe, expired, faults>>

\* Faulty variant: a timeout falls through to the joins.
WaitNoneJoins ==
  /\ pc = "wait" /\ expired
  /\ pc' = "join_stdout"
  /\ UNCHANGED <<result, output, killed, drainVars, procVars, pipe, expired,
                 faults>>

\* The deadline passes first; the child may have exited meanwhile.
WaitNone ==
  /\ pc = "wait" /\ expired
  /\ pc' = "kill"
  /\ UNCHANGED <<result, output, killed, drainVars, procVars, pipe, expired,
                 faults>>

WaitFails ==
  /\ pc = "wait"
  /\ Fault("wait_timeout")
  /\ Return("Io")
  /\ UNCHANGED <<output, killed, drainVars, procVars, pipe, expired>>

\* Faulty variant: the child is waited for but never signalled.
KillNobody ==
  /\ pc = "kill"
  /\ pc' = "reap"
  /\ UNCHANGED <<result, output, killed, drainVars, procVars, pipe, expired,
                 faults>>

\* The outcome of kill() is ignored; signalling a zombie has no effect.
Kill ==
  /\ pc = "kill"
  /\ pc' = "reap"
  /\ \/ killed' = TRUE /\ UNCHANGED faults
     \/ killed' = FALSE /\ Fault("kill")
  /\ UNCHANGED <<result, output, drainVars, procVars, pipe, expired>>

\* Faulty variant: what was read before the kill is handed back.
ReapKeepingOutput ==
  /\ pc = "reap"
  /\ Return("Timeout")
  /\ output' = buf
  /\ proc["child"] = "zombie" /\ proc' = [proc EXCEPT !["child"] = "gone"]
  /\ UNCHANGED <<killed, drainVars, ends, todo, written, pipe, expired, faults>>

\* wait() blocks until the child is a zombie; its error is only logged.
Reap ==
  /\ pc = "reap"
  /\ Return("Timeout")
  /\ \/ /\ proc["child"] = "zombie"
        /\ proc' = [proc EXCEPT !["child"] = "gone"]
        /\ UNCHANGED faults
     \/ Fault("wait") /\ UNCHANGED proc
  /\ UNCHANGED <<output, killed, drainVars, ends, todo, written, pipe, expired>>

\* join_drain on success: stdout first, then stderr, then the Output is built.
JoinDrained(s) ==
  /\ pc = JoinPc[s]
  /\ drain[s] = "eof"
  /\ IF s = "stdout"
     THEN pc' = "join_stderr" /\ UNCHANGED <<result, output>>
     ELSE Return("Ok") /\ output' = buf
  /\ UNCHANGED <<killed, drainVars, procVars, pipe, expired, faults>>

\* join_drain on a failed read or a panicked thread: an error of the call, and not
\* an empty stream as the comment above the joins has it. A failure on stdout
\* leaves the stderr thread unjoined.
JoinFailed(s) ==
  /\ pc = JoinPc[s]
  /\ drain[s] = "failed"
  /\ Return("Io")
  /\ UNCHANGED <<output, killed, drainVars, procVars, pipe, expired, faults>>

\* The CLI ends some time after the call (at once if it panicked), and every
\* drain thread still reading ends with it.
CliExit ==
  /\ pc = "done"
  /\ pc' = "exited"
  /\ drain' = [s \in Streams |->
                 IF drain[s] = "reading" THEN "dropped" ELSE drain[s]]
  /\ UNCHANGED <<result, output, killed, buf, procVars, pipe, expired, faults>>

-----------------------------------------------------------------------------
(* The drain threads: read_to_end on one stream. *)

\* Faulty variant: one unit too many is counted as read.
ReadsPastEnd(s) ==
  /\ drain[s] = "reading"
  /\ \E n \in 1..(pipe[s] + 1) :
       /\ buf' = [buf EXCEPT ![s] = @ + n]
       /\ pipe' = [pipe EXCEPT ![s] = @ - n]
  /\ UNCHANGED <<callerVars, drain, procVars, expired, faults>>

Read(s) ==
  /\ drain[s] = "reading"
  /\ \E n \in 1..pipe[s] :
       /\ buf' = [buf EXCEPT ![s] = @ + n]
       /\ pipe' = [pipe EXCEPT ![s] = @ - n]
  /\ UNCHANGED <<callerVars, drain, procVars, expired, faults>>

\* Faulty variant: an empty pipe is taken for a closed one.
EofWhenEmpty(s) ==
  /\ drain[s] = "reading"
  /\ pipe[s] = 0
  /\ drain' = [drain EXCEPT ![s] = "eof"]
  /\ UNCHANGED <<callerVars, buf, procVars, pipe, expired, faults>>

Eof(s) ==
  /\ drain[s] = "reading"
  /\ pipe[s] = 0
  /\ Writers(s) = {}
  /\ drain' = [drain EXCEPT ![s] = "eof"]
  /\ UNCHANGED <<callerVars, buf, procVars, pipe, expired, faults>>

ReadFails(s) ==
  /\ drain[s] = "reading"
  /\ Fault("read")
  /\ drain' = [drain EXCEPT ![s] = "failed"]
  /\ UNCHANGED <<callerVars, buf, procVars, pipe, expired>>

-----------------------------------------------------------------------------
(* The child, its heir, and the kernel. *)

Write(p, s) ==
  /\ proc[p] = "running" /\ <<p, s>> \in ends
  /\ todo[p][s] > 0
  /\ HasReader(s)
  /\ pipe[s] < PipeCap
  /\ todo' = [todo EXCEPT ![p][s] = @ - 1]
  /\ pipe' = [pipe EXCEPT ![s] = @ + 1]
  /\ written' = [written EXCEPT ![s] = @ + 1]
  /\ UNCHANGED <<callerVars, drainVars, proc, ends, expired, faults>>

\* Writing to a pipe nobody reads delivers SIGPIPE.
Sigpipe(p, s) ==
  /\ proc[p] = "running" /\ <<p, s>> \in ends
  /\ todo[p][s] > 0
  /\ ~HasReader(s)
  /\ Gone(p)
  /\ UNCHANGED <<callerVars, drainVars, pipe, expired, faults>>

Close(p, s) ==
  /\ proc[p] = "running" /\ <<p, s>> \in ends
  /\ todo[p][s] = 0
  /\ ends' = ends \ {<<p, s>>}
  /\ UNCHANGED <<callerVars, drainVars, proc, todo, written, pipe, expired,
                 faults>>

Exit(p) ==
  /\ proc[p] = "running"
  /\ \A s \in Streams : <<p, s>> \in ends => todo[p][s] = 0
  /\ Gone(p)
  /\ UNCHANGED <<callerVars, drainVars, pipe, expired, faults>>

Fork ==
  /\ Forks
  /\ proc["child"] = "running" /\ proc["heir"] = "unborn"
  /\ proc' = [proc EXCEPT !["heir"] = "running"]
  /\ ends' = ends \union ({"heir"} \X {s \in Streams : <<"child", s>> \in ends})
  /\ UNCHANGED <<callerVars, drainVars, todo, written, pipe, expired, faults>>

\* SIGKILL ends the child only; the heir is another process.
Die ==
  /\ killed /\ proc["child"] = "running"
  /\ Gone("child")
  /\ UNCHANGED <<callerVars, drainVars, pipe, expired, faults>>

Expire ==
  /\ pc = "wait" /\ ~expired
  /\ expired' = TRUE
  /\ UNCHANGED <<callerVars, drainVars, procVars, pipe, faults>>

-----------------------------------------------------------------------------

Caller ==
  \/ SpawnFails \/ Spawn
  \/ \E s \in Streams : StartDrain(s) \/ ThreadRefused(s)
  \/ WaitSome \/ WaitNone \/ WaitFails
  \/ Kill \/ Reap
  \/ \E s \in Streams : JoinDrained(s) \/ JoinFailed(s)

Drain(s) == Read(s) \/ Eof(s) \/ ReadFails(s)

Process(p) ==
  \/ \E s \in Streams : Write(p, s) \/ Sigpipe(p, s) \/ Close(p, s)
  \/ Exit(p)

\* The program has ended and so has everything it started.
Terminated ==
  /\ pc = "exited"
  /\ \A p \in Procs : proc[p] # "running"
  /\ UNCHANGED vars

Next ==
  \/ Caller
  \/ CliExit
  \/ \E s \in Streams : Drain(s)
  \/ \E p \in Procs : Process(p)
  \/ Fork \/ Die \/ Expire
  \/ Terminated

Spec == Init /\ [][Next]_vars

(***************************************************************************)
(* The OS runs the program's threads. No call is obliged to fail: a thread *)
(* that waits for something is not helped by an error it might get instead.*)
(* What else must be assumed is named by each liveness property.           *)
(***************************************************************************)
WithoutFault(A) == A /\ UNCHANGED faults

LiveSpec ==
  /\ Spec
  /\ WF_vars(WithoutFault(Caller))
  /\ \A s \in Streams : WF_vars(WithoutFault(Drain(s)))

\* The clock reaches the deadline and a SIGKILL takes effect.
Bounded == WF_vars(Die) /\ WF_vars(Expire)

FairSpec == LiveSpec /\ Bounded

\* The commands write what they have to write and then exit. They need not
\* close a stream early.
Cooperative ==
  \A p \in Procs :
    WF_vars(Exit(p) \/ \E s \in Streams : Write(p, s) \/ Sigpipe(p, s))

-----------------------------------------------------------------------------
(* What a reaped child, an answered call and a returned Output mean. *)

\* An Ok is complete: the child has been reaped, no process can add to either
\* stream, and each returned buffer is all that was ever written to that
\* stream, in particular what a descendant wrote after the child's exit. A thread
\* that failed or panicked never leaves a stream empty in an Ok.
OkIsComplete ==
  result = "Ok" =>
    /\ proc["child"] = "gone"
    /\ ends = {}
    /\ output = written

\* A Timeout is honest: the deadline really passed, the caller gets nothing
\* of what was read, and the child was reaped unless wait() itself failed.
TimeoutIsHonest ==
  result = "Timeout" =>
    /\ expired
    /\ output = Nothing
    /\ proc["child"] = "gone" \/ "wait" \in faults

\* Once the call is over no child survives it, alive or as a zombie, except
\* on the paths that give up on it: a failed wait_timeout, a failed wait()
\* after the kill, a drain thread that could not be created.
NoOrphan ==
  pc \in {"done", "exited"} /\ proc["child"] \in {"running", "zombie"} =>
    faults \intersect {"wait_timeout", "wait", "thread"} # {}

\* The joins have no deadline, but the only process that can hold one up is a
\* descendant that inherited the pipe: never the child itself.
OnlyHeirsDelayJoins ==
  \A s \in Streams :
    pc \in {"join_stdout", "join_stderr"} /\ drain[s] = "reading" =>
      Writers(s) \subseteq {"heir"}

\* An Ok is final: no step of any process later adds to what was captured.
OkIsFinal == [][result = "Ok" => written' = written]_vars

\* The module's documentation: a hung subprocess cannot block the caller.
Returns == <>(pc \in {"done", "exited"})

\* The call returns, even for a child that hangs, ignores its pipes or exits as
\* the deadline passes. The one way it may not: it waits for ever at a join,
\* for the end of a stream that a descendant holds open for ever. Nothing is
\* assumed of the child or of its descendant.
ReturnsUnlessHeld ==
  Bounded =>
    \/ Returns
    \/ \E s \in Streams : <>[](pc = JoinPc[s] /\ <<"heir", s>> \in ends)

\* No pipe deadlock: whatever its processes write, on whichever stream and
\* however little a pipe holds, the call succeeds if the deadline is not
\* reached first and no system call fails. The deadline need not come.
CompletesUnlessExpired ==
  Cooperative => <>(expired \/ result = "Ok" \/ faults # {})

-----------------------------------------------------------------------------
(***************************************************************************)
(* The inductive invariant: what makes the properties above hold at every  *)
(* step. Its parts say what each thread may rely on of the others.         *)
(***************************************************************************)

\* Nothing written is ever lost between a writer and its drain thread.
Conserved == \A s \in Streams : buf[s] + pipe[s] = written[s]

\* Only running processes hold write ends.
EndsAreLive == \A e \in ends : proc[e[1]] = "running"

\* Before the spawn there is nothing to drain and nothing that could write.
Unstarted ==
  pc = "spawn" =>
    /\ ends = {}
    /\ \A p \in Procs : proc[p] = "unborn"
    /\ \A s \in Streams : drain[s] = "none"

\* A drain thread that saw the end of its stream saw all of it.
EofIsEnd ==
  \A s \in Streams : drain[s] = "eof" => pipe[s] = 0 /\ Writers(s) = {}

\* What each point of the caller's thread knows.
CallerKnows ==
  /\ pc \in {"join_stdout", "join_stderr"} => proc["child"] = "gone"
  /\ pc = "join_stderr" => drain["stdout"] = "eof"
  /\ pc \in {"kill", "reap"} => expired
  /\ pc \in {"done", "exited"} <=> result # "none"

\* What each answer stands for.
AnswerMeans ==
  /\ result = "Ok" =>
       /\ proc["child"] = "gone"
       /\ \A s \in Streams : drain[s] = "eof" /\ output[s] = buf[s]
  /\ result = "NotFound" => proc["child"] = "unborn"
  /\ result # "Ok" => output = Nothing

\* The conjunction, inductive with the type invariant and NoOrphan.
IInv ==
  /\ TypeOK
  /\ Conserved
  /\ EndsAreLive
  /\ Unstarted
  /\ EofIsEnd
  /\ CallerKnows
  /\ AnswerMeans
  /\ TimeoutIsHonest
  /\ NoOrphan

-----------------------------------------------------------------------------
(* The call implements what ExecSpec promises. *)

Promise == INSTANCE ExecSpec WITH
  command  <- CASE proc["child"] = "unborn"  -> "none"
                [] proc["child"] = "running" -> "live"
                [] OTHER                     -> "ended",
  writers  <- {p \in Procs : \E s \in Streams : <<p, s>> \in ends},
  produced <- written,
  answer   <- result

\* Every step of the threads, processes and kernel is a step of the promise
\* or leaves it unchanged.
KeepsPromise == Promise!Spec

=============================================================================
