----------------------------- MODULE ExecProofs -----------------------------
(***************************************************************************)
(* Proofs about Exec, for every pipe capacity, amount of output and set of *)
(* failing calls, with or without descendants.                             *)
(***************************************************************************)
EXTENDS Exec, TLAPS

USE PipeCapAssumption, MaxUnitsAssumption, ForksAssumption, FaultsAssumption

\* Every variable keeps its type through every step.
LEMMA TypeStep == TypeOK /\ [Next]_vars => TypeOK'
<1> SUFFICES ASSUME TypeOK, [Next]_vars PROVE TypeOK'
  OBVIOUS
<1> USE DEF TypeOK, Streams, Procs, PCs, Results, AllFaults, Nothing,
            callerVars, drainVars, procVars, Fault, Return
<1>1. CASE SpawnFails
  BY <1>1 DEF SpawnFails
<1>2. CASE Spawn
  BY <1>2 DEF Spawn
<1>3. ASSUME NEW s \in Streams, StartDrain(s) PROVE TypeOK'
  BY <1>3 DEF StartDrain, AfterDrain
<1>4. ASSUME NEW s \in Streams, ThreadRefused(s) PROVE TypeOK'
  BY <1>4 DEF ThreadRefused
<1>5. CASE WaitSome
  BY <1>5 DEF WaitSome
<1>6. CASE WaitNone
  BY <1>6 DEF WaitNone
<1>7. CASE WaitFails
  BY <1>7 DEF WaitFails
<1>8. CASE Kill
  BY <1>8 DEF Kill
<1>9. CASE Reap
  BY <1>9 DEF Reap
<1>10. ASSUME NEW s \in Streams, JoinDrained(s) PROVE TypeOK'
  BY <1>10 DEF JoinDrained
<1>11. ASSUME NEW s \in Streams, JoinFailed(s) PROVE TypeOK'
  BY <1>11 DEF JoinFailed
<1>12. CASE CliExit
  BY <1>12 DEF CliExit
<1>13. ASSUME NEW s \in Streams, Read(s) PROVE TypeOK'
  <2>1. PICK n \in 1..pipe[s] : /\ buf' = [buf EXCEPT ![s] = @ + n]
                                /\ pipe' = [pipe EXCEPT ![s] = @ - n]
    BY <1>13 DEF Read
  <2>2. n \in Nat /\ pipe[s] - n \in Nat /\ buf[s] + n \in Nat
    OBVIOUS
  <2>3. buf' \in [Streams -> Nat] /\ pipe' \in [Streams -> Nat]
    BY <2>1, <2>2
  <2>4. QED
    BY <1>13, <2>3 DEF Read
<1>14. ASSUME NEW s \in Streams, Eof(s) PROVE TypeOK'
  BY <1>14 DEF Eof
<1>15. ASSUME NEW s \in Streams, ReadFails(s) PROVE TypeOK'
  BY <1>15 DEF ReadFails
<1>16. ASSUME NEW p \in Procs, NEW s \in Streams, Write(p, s) PROVE TypeOK'
  BY <1>16 DEF Write
<1>17. ASSUME NEW p \in Procs, NEW s \in Streams, Sigpipe(p, s) PROVE TypeOK'
  BY <1>17 DEF Sigpipe, Gone
<1>18. ASSUME NEW p \in Procs, NEW s \in Streams, Close(p, s) PROVE TypeOK'
  BY <1>18 DEF Close
<1>19. ASSUME NEW p \in Procs, Exit(p) PROVE TypeOK'
  BY <1>19 DEF Exit, Gone
<1>20. CASE Fork
  <2>1. ends' \in SUBSET (Procs \X Streams)
    BY <1>20 DEF Fork
  <2>2. proc' \in [Procs -> {"unborn", "running", "zombie", "gone"}]
    BY <1>20 DEF Fork
  <2>3. QED
    BY <1>20, <2>1, <2>2 DEF Fork
<1>21. CASE Die
  BY <1>21 DEF Die, Gone
<1>22. CASE Expire
  BY <1>22 DEF Expire
<1>23. CASE UNCHANGED vars
  BY <1>23 DEF vars
<1>24. QED
  BY <1>1, <1>2, <1>3, <1>4, <1>5, <1>6, <1>7, <1>8, <1>9, <1>10, <1>11,
     <1>12, <1>13, <1>14, <1>15, <1>16, <1>17, <1>18, <1>19, <1>20, <1>21,
     <1>22, <1>23 DEF Next, Caller, Drain, Process, Terminated

\* The initial states have the type.
LEMMA TypeInit == Init => TypeOK
<1> SUFFICES ASSUME Init PROVE TypeOK
  OBVIOUS
<1>1. todo \in [Procs -> [Streams -> Nat]]
  <2>1. 0..MaxUnits \subseteq Nat
    OBVIOUS
  <2>2. todo \in [Procs -> [Streams -> 0..MaxUnits]]
    BY DEF Init
  <2>3. QED
    BY <2>1, <2>2
<1>2. QED
  BY <1>1 DEF Init, TypeOK, Streams, Procs, PCs, Results, Nothing

\* The variables of the bounded call keep their types.
THEOREM TypeCorrect == Spec => []TypeOK
<1>1. Init => TypeOK
  BY TypeInit
<1>2. TypeOK /\ [Next]_vars => TypeOK'
  BY TypeStep
<1>3. QED
  BY <1>1, <1>2, PTL DEF Spec

\* Every step keeps what the threads rely on of one another.
LEMMA IInvStep == IInv /\ [Next]_vars => IInv'
<1> SUFFICES ASSUME IInv, [Next]_vars PROVE IInv'
  OBVIOUS
<1> TypeOK /\ TypeOK'
  BY TypeStep DEF IInv
<1> USE DEF IInv, TypeOK, Streams, Procs, Nothing, callerVars, drainVars,
            procVars, Fault, Return, Conserved, EndsAreLive, Unstarted,
            EofIsEnd, CallerKnows, AnswerMeans, TimeoutIsHonest, NoOrphan,
            Writers
<1>1. CASE SpawnFails
  BY <1>1 DEF SpawnFails
<1>2. CASE Spawn
  BY <1>2 DEF Spawn
<1>3. ASSUME NEW s \in Streams, StartDrain(s) PROVE IInv'
  BY <1>3 DEF StartDrain, DrainPc, AfterDrain
<1>4. ASSUME NEW s \in Streams, ThreadRefused(s) PROVE IInv'
  BY <1>4 DEF ThreadRefused, DrainPc
<1>5. CASE WaitSome
  BY <1>5 DEF WaitSome
<1>6. CASE WaitNone
  BY <1>6 DEF WaitNone
<1>7. CASE WaitFails
  BY <1>7 DEF WaitFails
<1>8. CASE Kill
  BY <1>8 DEF Kill
<1>9. CASE Reap
  BY <1>9 DEF Reap
<1>10. ASSUME NEW s \in Streams, JoinDrained(s) PROVE IInv'
  BY <1>10 DEF JoinDrained, JoinPc
<1>11. ASSUME NEW s \in Streams, JoinFailed(s) PROVE IInv'
  BY <1>11 DEF JoinFailed, JoinPc
<1>12. CASE CliExit
  BY <1>12 DEF CliExit
<1>13. ASSUME NEW s \in Streams, Read(s) PROVE IInv'
  BY <1>13 DEF Read
<1>14. ASSUME NEW s \in Streams, Eof(s) PROVE IInv'
  BY <1>14 DEF Eof
<1>15. ASSUME NEW s \in Streams, ReadFails(s) PROVE IInv'
  BY <1>15 DEF ReadFails
<1>16. ASSUME NEW p \in Procs, NEW s \in Streams, Write(p, s) PROVE IInv'
  BY <1>16 DEF Write
<1>17. ASSUME NEW p \in Procs, NEW s \in Streams, Sigpipe(p, s) PROVE IInv'
  BY <1>17 DEF Sigpipe, Gone
<1>18. ASSUME NEW p \in Procs, NEW s \in Streams, Close(p, s) PROVE IInv'
  BY <1>18 DEF Close
<1>19. ASSUME NEW p \in Procs, Exit(p) PROVE IInv'
  BY <1>19 DEF Exit, Gone
<1>20. CASE Fork
  BY <1>20 DEF Fork
<1>21. CASE Die
  BY <1>21 DEF Die, Gone
<1>22. CASE Expire
  BY <1>22 DEF Expire
<1>23. CASE UNCHANGED vars
  BY <1>23 DEF vars
<1>24. QED
  BY <1>1, <1>2, <1>3, <1>4, <1>5, <1>6, <1>7, <1>8, <1>9, <1>10, <1>11,
     <1>12, <1>13, <1>14, <1>15, <1>16, <1>17, <1>18, <1>19, <1>20, <1>21,
     <1>22, <1>23 DEF Next, Caller, Drain, Process, Terminated

\* The inductive invariant holds throughout.
THEOREM InductiveInvariant == Spec => []IInv
<1>1. Init => IInv
  BY TypeInit DEF Init, IInv, Conserved, EndsAreLive, Unstarted, EofIsEnd,
     CallerKnows, AnswerMeans, TimeoutIsHonest, NoOrphan, Streams, Procs,
     Nothing
<1>2. IInv /\ [Next]_vars => IInv'
  BY IInvStep
<1>3. QED
  BY <1>1, <1>2, PTL DEF Spec

\* The invariant makes an Ok complete: a drain thread that saw the end of its
\* stream read all of it, and no write end is left open.
LEMMA IInvOk == IInv => OkIsComplete
<1> SUFFICES ASSUME IInv, result = "Ok"
             PROVE proc["child"] = "gone" /\ ends = {} /\ output = written
  BY DEF OkIsComplete
<1>1. \A s \in Streams : drain[s] = "eof" /\ output[s] = buf[s]
  BY DEF IInv, AnswerMeans
<1>2. \A s \in Streams : pipe[s] = 0 /\ Writers(s) = {}
  BY <1>1 DEF IInv, EofIsEnd
<1>3. ends = {}
  BY <1>2 DEF IInv, TypeOK, Writers
<1>4. \A s \in Streams : output[s] = written[s]
  BY <1>1, <1>2 DEF IInv, TypeOK, Conserved
<1>5. output = written
  BY <1>4 DEF IInv, TypeOK
<1>6. QED
  BY <1>3, <1>5 DEF IInv, AnswerMeans

\* run_with_timeout never returns an Ok that lost or misplaced output, or
\* whose child or streams are still live.
THEOREM OkComplete == Spec => []OkIsComplete
  BY InductiveInvariant, IInvOk, PTL

\* run_with_timeout never reports a timeout that did not happen, and never
\* leaves the timed-out child behind unless wait() failed.
THEOREM TimeoutHonest == Spec => []TimeoutIsHonest
<1>1. IInv => TimeoutIsHonest
  BY DEF IInv
<1>2. QED
  BY <1>1, InductiveInvariant, PTL

\* Only the three give-up paths leave a child behind.
THEOREM NoOrphans == Spec => []NoOrphan
<1>1. IInv => NoOrphan
  BY DEF IInv
<1>2. QED
  BY <1>1, InductiveInvariant, PTL

\* Whoever keeps a join waiting is a descendant of the child.
THEOREM HeirsDelayJoins == Spec => []OnlyHeirsDelayJoins
<1>1. IInv => OnlyHeirsDelayJoins
  BY DEF IInv, CallerKnows, EndsAreLive, OnlyHeirsDelayJoins, Writers, Procs,
     Streams, TypeOK
<1>2. QED
  BY <1>1, InductiveInvariant, PTL

\* After an Ok the captured streams never grow.
THEOREM OkFinal == Spec => OkIsFinal
<1>1. IInv /\ [Next]_vars => [result = "Ok" => written' = written]_vars
  <2> SUFFICES ASSUME IInv, Next, result = "Ok"
               PROVE written' = written
    BY DEF vars, procVars
  <2>1. ends = {}
    BY IInvOk DEF OkIsComplete
  <2>2. pc \in {"done", "exited"} /\ \A s \in Streams : drain[s] = "eof"
    BY DEF IInv, CallerKnows, AnswerMeans
  <2>3. CASE Caller
    BY <2>2, <2>3 DEF Caller, SpawnFails, Spawn, StartDrain, ThreadRefused,
       WaitSome, WaitNone, WaitFails, Kill, Reap, JoinDrained, JoinFailed,
       DrainPc, JoinPc, Streams, procVars
  <2>4. CASE \E p \in Procs : Process(p)
    BY <2>1, <2>4 DEF Process, Write, Sigpipe, Close, Exit, Gone
  <2>5. QED
    BY <2>2, <2>3, <2>4 DEF Next, Drain, Read, Eof, ReadFails, CliExit, Fork,
       Die, Gone, Expire, Terminated, vars, procVars
<1>2. QED
  BY <1>1, InductiveInvariant, PTL DEF Spec, OkIsFinal

-----------------------------------------------------------------------------
(***************************************************************************)
(* The call implements ExecSpec when wait() after a kill does not fail.    *)
(* That failure is the one case in which a Timeout is answered while the   *)
(* command may still be alive.                                             *)
(***************************************************************************)

\* One step of the threads, processes or kernel is one step of the promise,
\* or leaves what the promise talks about unchanged.
LEMMA PromiseStep ==
  ASSUME "wait" \notin Faults, IInv, IInv', [Next]_vars
  PROVE  [Promise!Next]_(Promise!svars)
<1> USE DEF callerVars, drainVars, procVars, Return, Nothing, Streams, Procs,
            Promise!Nothing, Promise!svars
<1>1. TypeOK /\ TypeOK'
  BY DEF IInv
<1>2. CASE SpawnFails
    BY <1>1, <1>2 DEF IInv, CallerKnows, AnswerMeans, Unstarted, SpawnFails,
     Promise!Next, Promise!Answer,
     Promise!Answers, Promise!Failures
<1>3. CASE Spawn
  BY <1>1, <1>3 DEF TypeOK, Spawn, IInv, CallerKnows, Unstarted, Promise!Next,
     Promise!Start
<1>4. ASSUME NEW s \in Streams, ThreadRefused(s) PROVE Promise!Next
    BY <1>1, <1>4 DEF IInv, CallerKnows, AnswerMeans, ThreadRefused, DrainPc,
     Promise!Next, Promise!Answer,
     Promise!Answers, Promise!Failures
<1>5. CASE WaitFails
    BY <1>1, <1>5 DEF IInv, CallerKnows, AnswerMeans, WaitFails, Promise!Next,
     Promise!Answer,
     Promise!Answers, Promise!Failures
<1>6. CASE Reap
  <2>1. proc["child"] = "zombie" /\ proc' = [proc EXCEPT !["child"] = "gone"]
    BY <1>6 DEF Reap, Fault
  <2>2. result = "none" /\ output = Nothing
    BY <1>6 DEF Reap, IInv, CallerKnows, AnswerMeans
  <2>3. Promise!Answer("Timeout")
    BY <1>1, <1>6, <2>1, <2>2 DEF TypeOK, Reap, Promise!Answer
  <2>4. QED
    BY <2>3 DEF Promise!Next, Promise!Answers
<1>7. ASSUME NEW s \in Streams, JoinDrained(s)
      PROVE  [Promise!Next]_(Promise!svars)
  <2>1. CASE s = "stdout"
    BY <1>7, <2>1 DEF JoinDrained
  <2>2. CASE s = "stderr"
    <3>1. result = "none" /\ result' = "Ok" /\ proc["child"] = "gone"
      BY <1>7, <2>2 DEF JoinDrained, JoinPc, IInv, CallerKnows
    <3>2. OkIsComplete'
      BY IInvOk, PTL
    <3>3. ends = {} /\ output' = written
      BY <1>7, <3>1, <3>2 DEF JoinDrained, OkIsComplete
    <3>4. Promise!Answer("Ok")
      BY <1>1, <1>7, <3>1, <3>3 DEF JoinDrained, Promise!Answer
    <3>5. QED
      BY <3>4 DEF Promise!Next, Promise!Answers
  <2>3. QED
    BY <2>1, <2>2
<1>8. ASSUME NEW s \in Streams, JoinFailed(s) PROVE Promise!Next
    BY <1>1, <1>8 DEF IInv, CallerKnows, AnswerMeans, JoinFailed, JoinPc,
     Promise!Next, Promise!Answer,
     Promise!Answers, Promise!Failures
<1>9. ASSUME NEW p \in Procs, NEW s \in Streams, Write(p, s) PROVE Promise!Next
  BY <1>1, <1>9 DEF TypeOK, Write, Promise!Next, Promise!Produce
<1>10. ASSUME NEW p \in Procs, NEW s \in Streams, Close(p, s) PROVE Promise!Next
  BY <1>1, <1>10 DEF TypeOK, Close, Promise!Next, Promise!Churn
<1>11. ASSUME NEW p \in Procs, proc[p] = "running", Gone(p), UNCHANGED callerVars
       PROVE [Promise!Next]_(Promise!svars)
  BY <1>1, <1>11 DEF TypeOK, Gone, Promise!Next, Promise!Churn
<1>12. CASE Fork
  BY <1>1, <1>12 DEF TypeOK, Fork, Promise!Next, Promise!Churn
<1>13. CASE WaitSome
  BY <1>1, <1>13 DEF TypeOK, WaitSome
<1>14. CASE UNCHANGED <<result, output, procVars>>
  BY <1>14
<1>15. QED
  BY <1>2, <1>3, <1>4, <1>5, <1>6, <1>7, <1>8, <1>9, <1>10, <1>11, <1>12,
     <1>13, <1>14
     DEF Next, Caller, StartDrain, WaitNone, Kill, CliExit, Drain, Read, Eof,
         ReadFails, Process, Sigpipe, Exit, Die, Expire, Terminated, vars

\* The call keeps its promise: every behaviour of Exec is one of ExecSpec.
THEOREM ImplementsPromise ==
  ASSUME "wait" \notin Faults
  PROVE  Spec => KeepsPromise
<1>1. Init => Promise!Init
  BY DEF Init, Promise!Init, Promise!Nothing, Nothing, Procs
<1>2. IInv /\ IInv' /\ [Next]_vars => [Promise!Next]_(Promise!svars)
  BY PromiseStep
<1>3. QED
  BY <1>1, <1>2, InductiveInvariant, PTL DEF Spec, KeepsPromise, Promise!Spec

=============================================================================
