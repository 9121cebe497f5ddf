------------------------------ MODULE ExecSpec ------------------------------
(***************************************************************************)
(* What source::exec::run_with_timeout promises its callers, without the   *)
(* threads, pipes and timers it is made of.                                *)
(*                                                                         *)
(* A command is started at most once; it and its descendants produce       *)
(* output on two streams; one answer is given:                             *)
(*   - Ok, carrying on each stream everything that was ever produced on    *)
(*     it, once the command has ended and nobody can produce any more;     *)
(*   - Timeout, carrying nothing, once the command has ended;              *)
(*   - NotFound, carrying nothing, and nothing was started;                *)
(*   - a failure (Io or Panic), carrying nothing and promising nothing     *)
(*     about the command.                                                  *)
(***************************************************************************)
EXTENDS Naturals

CONSTANT Streams,   \* the captured output streams
         Procs      \* the command and its possible descendants

VARIABLES command,  \* "none" before it is started, "live", "ended"
          writers,  \* the processes that can still produce output
          produced, \* how much each stream has been given so far
          answer,   \* what the caller was told, "none" until then
          output    \* what the caller was given on each stream

svars == <<command, writers, produced, answer, output>>

Nothing == [s \in Streams |-> 0]
Failures == {"Io", "Panic"}
Answers == {"Ok", "Timeout", "NotFound"} \union Failures

Init ==
  /\ command = "none"
  /\ writers = {}
  /\ produced = Nothing
  /\ answer = "none"
  /\ output = Nothing

(* Spawning the command makes it the only process that can write. *)
Start ==
  /\ command = "none" /\ answer = "none"
  /\ command' = "live"
  /\ writers' \in SUBSET Procs
  /\ UNCHANGED <<produced, answer, output>>

(* A process that holds a stream open produces output on it. *)
Produce ==
  /\ writers # {}
  /\ produced' \in [Streams -> Nat]
  /\ \A s \in Streams : produced'[s] >= produced[s]
  /\ UNCHANGED <<command, writers, answer, output>>

(* Processes come and go; once all writers are gone none ever returns. *)
Churn ==
  /\ writers # {} \/ command = "live"
  /\ writers' \in SUBSET Procs
  /\ writers = {} => writers' = {}
  /\ command' = command \/ (command = "live" /\ command' = "ended")
  /\ UNCHANGED <<produced, answer, output>>

Answer(a) ==
  /\ answer = "none"
  /\ a = "NotFound" => command = "none"
  /\ a \in {"Ok", "Timeout"} => command = "ended"
  /\ a = "Ok" => writers = {}
  /\ answer' = a
  /\ output' = IF a = "Ok" THEN produced ELSE Nothing
  /\ UNCHANGED <<command, writers, produced>>

Next == Start \/ Produce \/ Churn \/ \E a \in Answers : Answer(a)

Spec == Init /\ [][Next]_svars

=============================================================================
