------------------------------ MODULE Journal -------------------------------
(***************************************************************************)
(* The readers of source::journal as functions of what journalctl printed. *)
(* A line is a record: what its body says (kind), what its head looks like *)
(* (head: a time with a colon in its offset, one without, or something     *)
(* else), that time (at), and the suspend cycle it is about.               *)
(***************************************************************************)
EXTENDS Integers, Sequences, FiniteSets

\* Rust's Option, as a sequence of at most one value.
None == <<>>
Some(x) == <<x>>

\* parse_iso_timestamp takes both forms of the offset.
Readable(line) == line.head \in {"offset +00:00", "offset +0000"}

\* The positions of the lines that contain the matcher and whose head parses.
Matches(lines, kind) ==
  {i \in DOMAIN lines : lines[i].kind = kind /\ Readable(lines[i])}

\* Faulty variant: the scan stops at the first match.
FirstKernelEvent(lines, kind) ==
  LET M == Matches(lines, kind)
  IN  IF M = {} THEN None
      ELSE Some(lines[CHOOSE i \in M : \A j \in M : i <= j])

\* Later matches overwrite earlier ones: file order decides, not the times.
LastKernelEvent(lines, kind) ==
  LET M == Matches(lines, kind)
  IN  IF M = {} THEN None
      ELSE Some(lines[CHOOSE i \in M : \A j \in M : j <= i])

\* Sleep and wake events together, in file order: the n-th one is the match
\* that has n - 1 matches before it.
ListKernelEvents(lines) ==
  LET M == Matches(lines, "entry") \union Matches(lines, "exit")
      Nth(n) == CHOOSE i \in M : Cardinality({j \in M : j < i}) = n - 1
  IN  [n \in 1..Cardinality(M) |-> lines[Nth(n)]]

\* Faulty variants: the oldest events are kept, or the newest is left out.
KeepFirst(events, n) == SubSeq(events, 1, IF Len(events) > n THEN n ELSE Len(events))
KeepLastButOne(events, n) ==
  SubSeq(events, (IF Len(events) > n THEN Len(events) - n ELSE 1), Len(events) - 1)

\* The last n events, all of them when there are fewer (saturating_sub).
KeepLast(events, n) ==
  SubSeq(events, (IF Len(events) > n THEN Len(events) - n ELSE 0) + 1,
         Len(events))

=============================================================================
