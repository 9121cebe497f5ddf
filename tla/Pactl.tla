-------------------------------- MODULE Pactl --------------------------------
(***************************************************************************)
(* The audio streams: userspace::list_audio_streams and the parser of      *)
(* `pactl list sink-inputs`.                                               *)
(*                                                                         *)
(* pactl prints one block per stream: a header, top-level fields, a line   *)
(* "Properties:" and one line per property, of which any part may be       *)
(* missing. It may die halfway: its exit status is not looked at, so       *)
(* whatever arrived is parsed, up to a last line that may be cut in two.   *)
(*                                                                         *)
(* The parser goes through the lines once, with one stream under           *)
(* construction and one flag. A field of a stream is given as the place it *)
(* was read from, so that the properties can tell whose it is.             *)
(***************************************************************************)
EXTENDS Integers, Sequences

CONSTANTS
  Keys,      \* application.name, .process.id, .process.binary, others
  Wanted,    \* the three keys that are extracted
  MaxLines   \* bound: lines pactl prints

ASSUME KeysAssumption ==
  Wanted \subseteq Keys /\ "application.process.id" \in Wanted
ASSUME MaxLinesAssumption == MaxLines \in Nat

VARIABLES
  printed,      \* what pactl prints, a sequence of lines
  writing,      \* pactl: in its preamble, a block's fields, its properties,
                \*   a value of several lines, or at its end
  lines,        \* what the program was handed of it
  pc,           \* the program: pactl, line, done
  pos,          \* the lines parsed so far
  current,      \* the stream under construction, if any
  in_properties,
  streams       \* the streams finished so far

pactlVars == <<printed, writing>>
parserVars == <<pos, current, in_properties, streams>>
vars == <<pactlVars, lines, pc, parserVars>>

None == <<>>
Some(x) == <<x>>

(***************************************************************************)
(* A line is what the parser can tell: a header, a line that begins the    *)
(* properties, an entry key = "value", or anything else, such as a line on *)
(* which a quote is left open. It is marked if it was cut in two.          *)
(*                                                                         *)
(* A value is usable, empty, not a number (for the process id), or quoted: *)
(* a quote mark, escaped, stands inside it. The parser does not unescape,  *)
(* so a line that ends in such a quote mark is an entry to it, with the    *)
(* partial value up to there: a line cut right behind the mark, or the     *)
(* first line of a value of several lines.                                 *)
(***************************************************************************)
ProcessId == "application.process.id"
Header == [kind |-> "header", cut |-> FALSE]
Marker == [kind |-> "properties", cut |-> FALSE]
Other == [kind |-> "other", cut |-> FALSE]
Entry(k, v) == [kind |-> "entry", cut |-> FALSE, key |-> k, value |-> v]
Opened(k, v) == [kind |-> "opened", cut |-> FALSE, key |-> k, value |-> v]

Entries == {Entry(k, v) : k \in Keys, v \in {"usable", "empty", "quoted"}} \union
           {Entry(ProcessId, "unparseable")}
FirstLines == {Opened(k, v) : k \in Keys, v \in {"usable", "quoted"}} \union
              {Entry(k, "partial") : k \in Keys}

KeyedLines == [kind : {"entry", "opened"}, cut : BOOLEAN, key : Keys,
               value : {"usable", "empty", "unparseable", "quoted", "partial"}]
Lines == {Marker} \union [kind : {"header", "other"}, cut : BOOLEAN] \union KeyedLines

Keyed(line) == line.kind \in {"entry", "opened"}
HoldsQuote(line) == line.value \in {"quoted", "partial"}

\* Faulty variant: off by one.
NewStreamBefore(h) == [head |-> h - 1, props |-> [k \in Wanted |-> None]]

\* PartialStream::new: the header it stands under and no property yet.
NewStream(h) == [head |-> h, props |-> [k \in Wanted |-> None]]

Stream(n) == [head : 1..n, props : [Wanted -> {None} \union {Some(i) : i \in 1..n}]]

TypeOK ==
  /\ printed \in Seq(Lines) /\ lines \in Seq(Lines)
  /\ writing \in {"preamble", "fields", "properties", "value", "ended"}
  /\ pc \in {"pactl", "line", "done"}
  /\ pos \in 0..Len(lines)
  /\ current = None \/ \E s \in Stream(pos) : current = Some(s)
  /\ in_properties \in BOOLEAN
  /\ streams \in Seq(Stream(pos))

Init ==
  /\ printed = <<>> /\ writing = "preamble"
  /\ lines = <<>>
  /\ pc = "pactl"
  /\ pos = 0
  /\ current = None
  /\ in_properties = FALSE
  /\ streams = <<>>

-----------------------------------------------------------------------------
(* pactl. *)

PrintLine(from, line, to) ==
  /\ writing \in from /\ Len(printed) < MaxLines
  /\ printed' = Append(printed, line)
  /\ writing' = to
  /\ UNCHANGED <<lines, pc, parserVars>>

Blocks == {"fields", "properties"}

PrintHeader == PrintLine({"preamble"} \union Blocks, Header, "fields")

\* A banner, a blank line, a field of the block, also after its properties.
PrintOther == PrintLine({"preamble"}, Other, "preamble")
PrintField == \E b \in Blocks : PrintLine({b}, Other, b)

PrintMarker == PrintLine({"fields"}, Marker, "properties")

\* The printed lines that belong to the last block.
InLastBlock(i) ==
  \A j \in i..Len(printed) : printed[j].kind # "header"

\* Each key once per block.
NewKey(k) ==
  \A i \in 1..Len(printed) :
    InLastBlock(i) /\ Keyed(printed[i]) => printed[i].key # k

PrintEntry ==
  \E e \in Entries : NewKey(e.key) /\ PrintLine({"properties"}, e, "properties")

\* A value of several lines: its last line closes the quote. None of its lines
\* but the first is an entry, for the quotes in them are escaped; that none is
\* a header or a marker is assumed.
PrintOpened ==
  \E f \in FirstLines : NewKey(f.key) /\ PrintLine({"properties"}, f, "value")
PrintTail == PrintLine({"value"}, Other, "properties")

\* What is left of a line that is cut in two.
CutOf(line) ==
  {[kind |-> "other", cut |-> TRUE]} \union
  (IF line.kind = "header" THEN {[kind |-> "header", cut |-> TRUE]} ELSE {}) \union
  (IF Keyed(line) THEN {[line EXCEPT !.kind = "opened", !.cut = TRUE]} ELSE {}) \union
  (IF Keyed(line) /\ HoldsQuote(line)
   THEN {[line EXCEPT !.kind = "entry", !.cut = TRUE, !.value = "partial"]} ELSE {})

-----------------------------------------------------------------------------
(* The program. *)

\* run_with_timeout returned Ok: all of the output, or what a pactl that died
\* had written by then.
Captured ==
  /\ pc = "pactl" /\ pc' = "line"
  /\ writing' = "ended"
  /\ \/ lines' = printed
     \/ \E n \in 1..Len(printed) :
          \/ lines' = SubSeq(printed, 1, n - 1)
          \/ \E c \in CutOf(printed[n]) :
               lines' = Append(SubSeq(printed, 1, n - 1), c)
  /\ UNCHANGED <<printed, parserVars>>

\* It returned an error: no streams, whatever was written before.
NotCaptured ==
  /\ pc = "pactl" /\ pc' = "done"
  /\ writing' = "ended"
  /\ UNCHANGED <<printed, lines, parserVars>>

Line == lines[pos + 1]

Parsing(kinds) ==
  /\ pc = "line" /\ pos < Len(lines)
  /\ Line.kind \in kinds
  /\ pos' = pos + 1
  /\ UNCHANGED <<pactlVars, lines, pc>>

\* Faulty variant: the block before is lost unless it had properties.
ParseHeaderDropping ==
  /\ Parsing({"header"})
  /\ streams' = IF in_properties THEN streams \o current ELSE streams
  /\ current' = Some(NewStream(pos + 1))
  /\ in_properties' = FALSE

\* A header finishes the block before it and starts one.
ParseHeader ==
  /\ Parsing({"header"})
  /\ streams' = streams \o current
  /\ current' = Some(NewStream(pos + 1))
  /\ in_properties' = FALSE

\* Whatever precedes the first header.
SkipPreamble ==
  /\ current = None
  /\ Parsing({"properties", "entry", "opened", "other"})
  /\ UNCHANGED <<current, in_properties, streams>>

ParseMarker ==
  /\ current # None
  /\ Parsing({"properties"})
  /\ in_properties' = TRUE
  /\ UNCHANGED <<current, streams>>

\* Fields of the block, and in its properties anything that is not an entry,
\* such as a line on which a quote is left open.
SkipLine ==
  /\ current # None
  /\ Parsing(IF in_properties THEN {"opened", "other"}
             ELSE {"entry", "opened", "other"})
  /\ UNCHANGED <<current, in_properties, streams>>

\* A value that sets a property: a process id has to be a number.
Shown(line) ==
  line.value = "usable" \/ (HoldsQuote(line) /\ line.key # ProcessId)

\* set_property: empty values and other keys are ignored; a process id that is
\* not a number leaves the stream without one.
Set(s, line, i) ==
  IF line.value = "empty" \/ line.key \notin Wanted THEN s
  ELSE [s EXCEPT !.props[line.key] = IF Shown(line) THEN Some(i) ELSE None]

\* Faulty variant: the closing quote is optional.
ParseOpenEntry ==
  /\ current # None /\ in_properties
  /\ Parsing({"entry", "opened"})
  /\ current' = Some(Set(current[1], Line, pos + 1))
  /\ UNCHANGED <<in_properties, streams>>

\* parse_property_line and set_property.
ParseEntry ==
  /\ current # None /\ in_properties
  /\ Parsing({"entry"})
  /\ current' = Some(Set(current[1], Line, pos + 1))
  /\ UNCHANGED <<in_properties, streams>>

\* The end of the output finishes the last block.
EndOfOutput ==
  /\ pc = "line" /\ pos = Len(lines)
  /\ pc' = "done"
  /\ streams' = streams \o current
  /\ current' = None
  /\ UNCHANGED <<pactlVars, lines, pos, in_properties>>

Writer ==
  \/ PrintHeader \/ PrintOther \/ PrintField \/ PrintMarker
  \/ PrintEntry \/ PrintOpened \/ PrintTail

Parser ==
  \/ Captured \/ NotCaptured
  \/ ParseHeader \/ SkipPreamble \/ ParseMarker \/ SkipLine \/ ParseEntry
  \/ EndOfOutput

Next == Writer \/ Parser

Spec == Init /\ [][Next]_vars

-----------------------------------------------------------------------------
(* What a text in this format says, without reading it in order. *)

Headers(text) == {i \in DOMAIN text : text[i].kind = "header"}

\* Line i belongs to the block of header h.
InBlock(text, h, i) == h < i /\ \A j \in (h + 1)..i : text[j].kind # "header"

\* Line i is below the marker of the block of h and begins a value of the key.
Begins(text, h, k, i) ==
  /\ InBlock(text, h, i)
  /\ Keyed(text[i]) /\ text[i].key = k
  /\ \E m \in h..i : text[m].kind = "properties"

\* The entry of a key in the block of h with a value that can be shown.
EntryOf(text, h, k) ==
  {i \in DOMAIN text :
     Begins(text, h, k, i) /\ text[i].kind = "entry" /\ Shown(text[i])}

Says(text, s) ==
  \A k \in Wanted :
    /\ s.props[k] = None <=> EntryOf(text, s.head, k) = {}
    /\ s.props[k] # None => s.props[k][1] \in EntryOf(text, s.head, k)

\* The parser reports each block of what it was handed once, in order, with
\* the properties that stand in that block and no other's, whichever parts of
\* a block are missing.
ParsedAsWritten ==
  pc = "done" =>
    /\ \A i, j \in DOMAIN streams : i < j => streams[i].head < streams[j].head
    /\ {streams[i].head : i \in DOMAIN streams} = Headers(lines)
    /\ \A i \in DOMAIN streams : Says(lines, streams[i])

\* A pactl that dies loses streams from the end only. All but the last are
\* reported as the whole output would have it, and the last has no property
\* that its block does not have there. A property that is shown is the whole
\* value, unless a quote mark stands inside it: then it may be its beginning.
\* (The number of the last stream may be cut as well.)
CutLosesOnlyTheEnd ==
  \A i \in DOMAIN streams :
    /\ streams[i].head \in Headers(printed)
    /\ \A h \in Headers(printed) :
         h < streams[i].head => \E j \in 1..(i - 1) : streams[j].head = h
    /\ i < Len(streams) => Says(printed, streams[i])
    /\ \A k \in Wanted : \A p \in DOMAIN lines :
         streams[i].props[k] = Some(p) =>
           /\ Begins(printed, streams[i].head, k, p)
           /\ lines[p] = printed[p] \/ HoldsQuote(printed[p])

=============================================================================
