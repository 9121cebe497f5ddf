----------------------------- MODULE PactlProofs -----------------------------
(***************************************************************************)
(* Proofs about Pactl, for every set of keys and every length of output.   *)
(***************************************************************************)
EXTENDS Pactl, SequenceTheorems, TLAPS

USE KeysAssumption, MaxLinesAssumption

\* What pactl writes with a key is a line with a key.
LEMMA KeyedFields ==
  ASSUME NEW e \in Entries \union FirstLines
  PROVE  e \in Lines /\ Keyed(e)
<1>1. ProcessId \in Keys
  BY DEF ProcessId
<1>2. ASSUME NEW k \in Keys,
             NEW v \in {"usable", "empty", "unparseable", "quoted", "partial"}
      PROVE  /\ Entry(k, v) \in KeyedLines /\ Keyed(Entry(k, v))
             /\ Opened(k, v) \in KeyedLines /\ Keyed(Opened(k, v))
  <2>1. Entry(k, v) \in KeyedLines /\ Keyed(Entry(k, v))
    BY DEF Entry, KeyedLines, Keyed
  <2>2. Opened(k, v) \in KeyedLines /\ Keyed(Opened(k, v))
    BY DEF Opened, KeyedLines, Keyed
  <2> QED
    BY <2>1, <2>2
<1>3. CASE e \in Entries
  <2>1. CASE e = Entry(ProcessId, "unparseable")
    BY <1>1, <1>2, <2>1 DEF Lines
  <2>2. CASE e # Entry(ProcessId, "unparseable")
    <3>1. PICK k \in Keys, v \in {"usable", "empty", "quoted"} : e = Entry(k, v)
      BY <1>3, <2>2 DEF Entries
    <3> QED
      BY <1>2, <3>1 DEF Lines
  <2> QED
    BY <2>1, <2>2
<1>4. CASE e \in {Opened(k, v) : k \in Keys, v \in {"usable", "quoted"}}
  <2>1. PICK k \in Keys, v \in {"usable", "quoted"} : e = Opened(k, v)
    BY <1>4
  <2> QED
    BY <1>2, <2>1 DEF Lines
<1>5. CASE e \in {Entry(k, "partial") : k \in Keys}
  <2>1. PICK k \in Keys : e = Entry(k, "partial")
    BY <1>5
  <2> QED
    BY <1>2, <2>1 DEF Lines
<1> QED
  BY <1>3, <1>4, <1>5 DEF FirstLines

\* What is left of a line is marked as cut. A header is left only of a header, a
\* key only of a line with that key, and an entry only of a line with a quote
\* mark inside its value.
LEMMA CutOfLine ==
  ASSUME NEW l \in Lines, NEW c \in CutOf(l)
  PROVE  /\ c \in Lines /\ c.kind # "properties"
         /\ c.kind = "header" => l.kind = "header"
         /\ Keyed(c) => Keyed(l) /\ c.key = l.key
         /\ c.kind = "entry" => HoldsQuote(l)
<1>1. CASE c = [kind |-> "other", cut |-> TRUE]
  BY <1>1 DEF Lines, Keyed
<1>2. CASE l.kind = "header" /\ c = [kind |-> "header", cut |-> TRUE]
  BY <1>2 DEF Lines, Keyed
<1>3. ASSUME Keyed(l) PROVE l \in KeyedLines
  BY <1>3 DEF Lines, Marker, Keyed
<1>4. CASE Keyed(l) /\ c = [l EXCEPT !.kind = "opened", !.cut = TRUE]
  <2>1. l \in KeyedLines
    BY <1>3, <1>4
  <2>2. c \in KeyedLines /\ c.kind = "opened" /\ c.key = l.key
    BY <1>4, <2>1 DEF KeyedLines
  <2> QED
    BY <1>4, <2>2 DEF Lines, Keyed
<1>5. CASE /\ Keyed(l) /\ HoldsQuote(l)
           /\ c = [l EXCEPT !.kind = "entry", !.cut = TRUE, !.value = "partial"]
  <2>1. l \in KeyedLines
    BY <1>3, <1>5
  <2>2. c \in KeyedLines /\ c.kind = "entry" /\ c.key = l.key
    BY <1>5, <2>1 DEF KeyedLines
  <2> QED
    BY <1>5, <2>2 DEF Lines, Keyed
<1> QED
  BY <1>1, <1>2, <1>4, <1>5 DEF CutOf

\* A key occurs once in a block.
KeyOnce(text) ==
  \A i, j \in DOMAIN text :
    /\ i < j /\ Keyed(text[i]) /\ Keyed(text[j])
    /\ text[i].key = text[j].key
    => \E h \in i..j : text[h].kind = "header"

\* What the program was handed is what was printed, up to a last line that is
\* taken for an entry only if it is cut at a quote mark inside the value.
Handed ==
  /\ Len(lines) <= Len(printed)
  /\ \A i \in DOMAIN lines :
       \/ lines[i] = printed[i]
       \/ /\ i = Len(lines) /\ lines[i].kind # "properties"
          /\ lines[i].kind = "header" => printed[i].kind = "header"
          /\ Keyed(lines[i]) => Keyed(printed[i]) /\ lines[i].key = printed[i].key
          /\ lines[i].kind = "entry" => HoldsQuote(printed[i])

TextInv ==
  /\ printed \in Seq(Lines) /\ lines \in Seq(Lines)
  /\ KeyOnce(printed)
  /\ Handed
  /\ pc = "pactl" => lines = <<>>
  /\ pc \in {"line", "done"} => writing = "ended"

\* pactl goes on writing: one more line, of a key that is new in its block.
LEMMA PrintKeeps ==
  ASSUME TextInv, NEW line \in Lines, NEW from, NEW to,
         "ended" \notin from, PrintLine(from, line, to),
         Keyed(line) => NewKey(line.key)
  PROVE  TextInv'
<1>1. /\ printed' = Append(printed, line) /\ writing # "ended"
      /\ UNCHANGED <<lines, pc>>
  BY DEF PrintLine
<1>2. /\ printed' \in Seq(Lines) /\ Len(printed') = Len(printed) + 1
      /\ DOMAIN printed' = 1..(Len(printed) + 1)
      /\ DOMAIN printed = 1..Len(printed)
      /\ \A i \in 1..Len(printed) : printed'[i] = printed[i]
      /\ printed'[Len(printed) + 1] = line
  BY <1>1 DEF TextInv
<1>4. KeyOnce(printed')
  <2> SUFFICES ASSUME NEW i \in DOMAIN printed', NEW j \in DOMAIN printed',
                      i < j, Keyed(printed'[i]), Keyed(printed'[j]),
                      printed'[i].key = printed'[j].key
               PROVE  \E h \in i..j : printed'[h].kind = "header"
    BY DEF KeyOnce
  <2>1. CASE j \in 1..Len(printed)
    <3>1. i \in DOMAIN printed /\ j \in DOMAIN printed
      BY <1>2, <2>1
    <3>2. PICK h \in i..j : printed[h].kind = "header"
      BY <1>2, <2>1, <3>1 DEF TextInv, KeyOnce
    <3> QED
      BY <1>2, <2>1, <3>1, <3>2
  <2>2. CASE j = Len(printed) + 1
    <3>1. i \in 1..Len(printed) /\ Keyed(printed[i]) /\ printed[i].key = line.key
      BY <1>2, <2>2
    <3>2. ~InLastBlock(i)
      BY <1>2, <2>2, <3>1 DEF NewKey
    <3>3. PICK h \in i..Len(printed) : printed[h].kind = "header"
      BY <3>2 DEF InLastBlock
    <3> QED
      BY <1>2, <2>2, <3>1, <3>3
  <2> QED
    BY <1>2, <2>1, <2>2
<1>5. Handed'
  BY <1>1, <1>2 DEF TextInv, Handed
<1> QED
  BY <1>1, <1>2, <1>4, <1>5 DEF TextInv

\* All of it or a part is handed over.
LEMMA CapturedKeeps == ASSUME TextInv, Captured PROVE TextInv'
<1>1. UNCHANGED printed /\ pc' = "line" /\ writing' = "ended"
  BY DEF Captured
<1>2. lines' \in Seq(Lines) /\ Handed'
  <2>1. CASE lines' = printed
    BY <1>1, <2>1 DEF TextInv, Handed
  <2>2. ASSUME NEW n \in 1..Len(printed), lines' = SubSeq(printed, 1, n - 1)
        PROVE  lines' \in Seq(Lines) /\ Handed'
    <3>1. /\ lines' \in Seq(Lines) /\ Len(lines') = n - 1
          /\ \A i \in 1..(n - 1) : lines'[i] = printed[i]
      BY <2>2 DEF TextInv
    <3> QED
      BY <1>1, <3>1 DEF TextInv, Handed
  <2>3. ASSUME NEW n \in 1..Len(printed), NEW c \in CutOf(printed[n]),
               lines' = Append(SubSeq(printed, 1, n - 1), c)
        PROVE  lines' \in Seq(Lines) /\ Handed'
    <3>1. /\ c \in Lines /\ c.kind # "properties"
          /\ c.kind = "header" => printed[n].kind = "header"
          /\ Keyed(c) => Keyed(printed[n]) /\ c.key = printed[n].key
          /\ c.kind = "entry" => HoldsQuote(printed[n])
      <4>1. printed[n] \in Lines
        BY DEF TextInv
      <4> QED
        BY <2>3, <4>1, CutOfLine
    <3>2. /\ SubSeq(printed, 1, n - 1) \in Seq(Lines)
          /\ Len(SubSeq(printed, 1, n - 1)) = n - 1
          /\ \A i \in 1..(n - 1) : SubSeq(printed, 1, n - 1)[i] = printed[i]
      BY DEF TextInv
    <3>3. /\ lines' \in Seq(Lines) /\ Len(lines') = n
          /\ \A i \in 1..(n - 1) : lines'[i] = printed[i]
          /\ lines'[n] = c
      BY <2>3, <3>1, <3>2
    <3> QED
      BY <1>1, <3>1, <3>3 DEF TextInv, Handed
  <2> QED
    BY <2>1, <2>2, <2>3 DEF Captured
<1> QED
  BY <1>1, <1>2 DEF TextInv

\* A line with a key is left of one with that key, so a key occurs once in a
\* block of what was handed over as well.
LEMMA HandedOnce == ASSUME TextInv PROVE KeyOnce(lines)
<1> SUFFICES ASSUME NEW i \in DOMAIN lines, NEW j \in DOMAIN lines,
                    i < j, Keyed(lines[i]), Keyed(lines[j]),
                    lines[i].key = lines[j].key
             PROVE  \E h \in i..j : lines[h].kind = "header"
  BY DEF KeyOnce
<1>1. /\ DOMAIN lines = 1..Len(lines) /\ DOMAIN printed = 1..Len(printed)
      /\ Len(lines) \in Nat /\ Len(printed) \in Nat /\ Len(lines) <= Len(printed)
  BY DEF TextInv, Handed
<1>a. ASSUME NEW n \in DOMAIN lines, Keyed(lines[n])
      PROVE  Keyed(printed[n]) /\ lines[n].key = printed[n].key
  <2>1. CASE lines[n] = printed[n]
    BY <1>a, <2>1
  <2>2. CASE lines[n] # printed[n]
    BY <1>a, <2>2 DEF TextInv, Handed
  <2> QED
    BY <2>1, <2>2
<1>2. /\ Keyed(printed[i]) /\ Keyed(printed[j]) /\ lines[i].key = printed[i].key
      /\ lines[j].key = printed[j].key
  BY <1>a
<1>3. PICK h \in i..j : printed[h].kind = "header"
  <2>1. i \in DOMAIN printed /\ j \in DOMAIN printed
    BY <1>1
  <2>2. KeyOnce(printed) /\ printed[i].key = printed[j].key
    BY <1>2 DEF TextInv
  <2> QED
    BY <1>2, <2>1, <2>2 DEF KeyOnce
<1>4. h # j
  BY <1>2, <1>3 DEF Keyed
<1>5. lines[h] = printed[h]
  BY <1>1, <1>3, <1>4 DEF TextInv, Handed
<1> QED
  BY <1>3, <1>5

-----------------------------------------------------------------------------
(* The parser.                                                             *)

Finished == [head : Nat, props : [Wanted -> {None} \union {Some(i) : i \in Nat}]]

\* A stream under construction, with what the lines up to n say of it.
SaysUpTo(s, n) ==
  \A k \in Wanted :
    /\ s.props[k] = None <=> \A i \in EntryOf(lines, s.head, k) : i > n
    /\ s.props[k] # None => s.props[k][1] \in EntryOf(lines, s.head, k)

UnderConstruction(s) ==
  /\ s \in Finished
  /\ s.head \in 1..pos /\ lines[s.head].kind = "header"
  /\ \A i \in (s.head + 1)..pos : lines[i].kind # "header"
  /\ in_properties <=> \E m \in s.head..pos : lines[m].kind = "properties"
  /\ SaysUpTo(s, pos)

\* The streams pushed, in the order of their headers.
StreamsInv ==
  /\ streams \in Seq(Finished)
  /\ \A i \in DOMAIN streams :
       /\ streams[i].head \in 1..pos
       /\ lines[streams[i].head].kind = "header"
       /\ Says(lines, streams[i])
  /\ \A i, j \in DOMAIN streams : i < j => streams[i].head < streams[j].head

CurrentInv ==
  /\ current = None \/ \E s \in Finished : current = Some(s)
  /\ current # None =>
       /\ UnderConstruction(current[1])
       /\ \A i \in DOMAIN streams : streams[i].head < current[1].head

\* No header that has been read is without its stream.
HeadersSeen ==
  \A h \in Headers(lines) :
    h <= pos => \/ \E i \in DOMAIN streams : streams[i].head = h
                \/ current # None /\ current[1].head = h

ParseInv ==
  /\ pc \in {"pactl", "line", "done"}
  /\ pos \in 0..Len(lines)
  /\ pc = "pactl" => pos = 0 /\ streams = <<>> /\ current = None
  /\ pc = "done" => pos = Len(lines) /\ current = None
  /\ StreamsInv /\ CurrentInv /\ HeadersSeen

IInv == TextInv /\ ParseInv

\* The block of a header ends before the next one.
LEMMA BlockEnds ==
  ASSUME NEW text \in Seq(Lines), NEW h \in Nat, NEW k, NEW i \in EntryOf(text, h, k),
         NEW g \in Nat, h < g, text[g].kind = "header"
  PROVE  i < g
BY DEF EntryOf, Begins, InBlock

\* When the next line is a header, or there is none, a stream says what its
\* block says.
LEMMA ConstructionEnds ==
  ASSUME IInv, NEW s, UnderConstruction(s),
         pos = Len(lines) \/ (pos < Len(lines) /\ lines[pos + 1].kind = "header")
  PROVE  Says(lines, s)
<1>1. lines \in Seq(Lines) /\ pos \in 0..Len(lines) /\ s.head \in 1..pos
  BY DEF IInv, TextInv, ParseInv, UnderConstruction
<1>2. ASSUME NEW k \in Wanted, NEW i \in EntryOf(lines, s.head, k)
      PROVE  ~(i > pos)
  <2>1. CASE pos = Len(lines)
    BY <1>1, <2>1 DEF EntryOf
  <2>2. CASE pos < Len(lines) /\ lines[pos + 1].kind = "header"
    <3>1. i < pos + 1
      BY <1>1, <2>2, BlockEnds
    <3>2. i \in Nat
      BY <1>1 DEF EntryOf
    <3> QED
      BY <1>1, <3>1, <3>2
  <2> QED
    BY <2>1, <2>2
<1> QED
  BY <1>2 DEF UnderConstruction, SaysUpTo, Says

\* A block that is finished, if there is one, is pushed.
LEMMA PushKeeps ==
  ASSUME IInv, streams' = streams \o current,
         pos = Len(lines) \/ (pos < Len(lines) /\ lines[pos + 1].kind = "header")
  PROVE  /\ streams' \in Seq(Finished)
         /\ \A i \in DOMAIN streams' :
              /\ streams'[i].head \in 1..pos
              /\ lines[streams'[i].head].kind = "header"
              /\ Says(lines, streams'[i])
         /\ \A i, j \in DOMAIN streams' : i < j => streams'[i].head < streams'[j].head
         /\ \A h \in Headers(lines) :
              h <= pos => \E i \in DOMAIN streams' : streams'[i].head = h
<1>1. /\ streams \in Seq(Finished) /\ pos \in Nat
      /\ current = None \/ \E s \in Finished : current = Some(s)
      /\ \A i \in DOMAIN streams :
           /\ streams[i].head \in 1..pos
           /\ lines[streams[i].head].kind = "header"
           /\ Says(lines, streams[i])
      /\ \A i, j \in DOMAIN streams : i < j => streams[i].head < streams[j].head
      /\ \A h \in Headers(lines) :
           h <= pos => \/ \E i \in DOMAIN streams : streams[i].head = h
                       \/ current # None /\ current[1].head = h
  BY DEF IInv, TextInv, ParseInv, StreamsInv, CurrentInv, HeadersSeen
<1>2. CASE current = None
  <2>1. streams' = streams
    BY <1>1, <1>2 DEF None
  <2> QED
    BY <1>1, <1>2, <2>1
<1>3. CASE current # None
  <2>1. PICK s \in Finished : current = Some(s)
    BY <1>1, <1>3
  <2>2. current[1] = s /\ streams' = Append(streams, s)
    BY <1>1, <2>1, AppendIsConcat DEF Some
  <2>3. /\ streams' \in Seq(Finished)
        /\ DOMAIN streams = 1..Len(streams) /\ DOMAIN streams' = 1..(Len(streams) + 1)
        /\ Len(streams) \in Nat
        /\ \A i \in 1..Len(streams) : streams'[i] = streams[i]
        /\ streams'[Len(streams) + 1] = s
    BY <1>1, <2>2
  <2>4. /\ s.head \in 1..pos /\ lines[s.head].kind = "header" /\ Says(lines, s)
        /\ \A i \in DOMAIN streams : streams[i].head < s.head
    BY <1>3, <2>2, ConstructionEnds DEF IInv, ParseInv, CurrentInv, UnderConstruction
  <2>5. ASSUME NEW i \in DOMAIN streams'
        PROVE  /\ streams'[i].head \in 1..pos
               /\ lines[streams'[i].head].kind = "header"
               /\ Says(lines, streams'[i])
    BY <1>1, <2>3, <2>4
  <2>6. ASSUME NEW i \in DOMAIN streams', NEW j \in DOMAIN streams', i < j
        PROVE  streams'[i].head < streams'[j].head
    <3>1. i \in DOMAIN streams
      BY <2>3, <2>6
    <3>2. CASE j \in DOMAIN streams
      BY <1>1, <2>3, <2>6, <3>1, <3>2
    <3>3. CASE j = Len(streams) + 1
      BY <2>3, <2>4, <3>1, <3>3
    <3> QED
      BY <2>3, <3>2, <3>3
  <2>7. ASSUME NEW h \in Headers(lines), h <= pos
        PROVE  \E i \in DOMAIN streams' : streams'[i].head = h
    <3>1. CASE \E i \in DOMAIN streams : streams[i].head = h
      BY <2>3, <3>1
    <3>2. CASE s.head = h
      <4>1. Len(streams) + 1 \in DOMAIN streams'
        BY <2>3
      <4> QED
        BY <2>3, <3>2, <4>1
    <3> QED
      BY <1>1, <2>2, <2>7, <3>1, <3>2
  <2> QED
    BY <2>3, <2>5, <2>6, <2>7
<1> QED
  BY <1>2, <1>3

\* A line that is neither a header nor counts leaves a stream as it was: what
\* it says up to here it says up to the next line.
LEMMA LineSaysNothing ==
  ASSUME IInv, NEW s, UnderConstruction(s), pos < Len(lines),
         Line.kind # "header", pos' = pos + 1, UNCHANGED lines,
         \A k \in Wanted : pos + 1 \notin EntryOf(lines, s.head, k),
         in_properties' <=> in_properties \/ Line.kind = "properties"
  PROVE  UnderConstruction(s)'
<1>1. /\ lines' = lines /\ pos \in Nat /\ s \in Finished /\ s.head \in 1..pos
      /\ lines[pos + 1].kind # "header"
  BY DEF IInv, ParseInv, TextInv, UnderConstruction, Line
<1>2. SaysUpTo(s, pos)'
  <2>1. ASSUME NEW k \in Wanted
        PROVE  /\ s.props[k] = None <=> \A i \in EntryOf(lines, s.head, k) : i > pos + 1
               /\ s.props[k] # None => s.props[k][1] \in EntryOf(lines, s.head, k)
    <3>1. ASSUME NEW i \in EntryOf(lines, s.head, k)
          PROVE  i > pos <=> i > pos + 1
      <4>1. i \in Nat /\ i # pos + 1
        BY DEF EntryOf, IInv, TextInv
      <4> QED
        BY <1>1, <4>1
    <3> QED
      BY <3>1 DEF UnderConstruction, SaysUpTo
  <2> QED
    BY <1>1, <2>1 DEF SaysUpTo
<1>3. \A i \in (s.head + 1)..pos' : lines[i].kind # "header"
  BY <1>1 DEF UnderConstruction
<1>4. in_properties' <=> \E m \in s.head..pos' : lines[m].kind = "properties"
  <2>1. in_properties <=> \E m \in s.head..pos : lines[m].kind = "properties"
    BY DEF UnderConstruction
  <2>2. \A m : m \in s.head..(pos + 1) <=> m \in s.head..pos \/ m = pos + 1
    BY <1>1
  <2>3. Line = lines[pos + 1]
    BY DEF Line
  <2> QED
    BY <2>1, <2>2, <2>3
<1>5. lines[s.head].kind = "header" /\ s.head \in 1..pos'
  BY <1>1 DEF UnderConstruction
<1> QED
  BY <1>1, <1>2, <1>3, <1>4, <1>5 DEF UnderConstruction

\* The other conjuncts when the parser takes a line.
LEMMA ParsingKeeps ==
  ASSUME IInv, NEW kinds, Parsing(kinds)
  PROVE  /\ TextInv'
         /\ pc = "line" /\ pc' = "line" /\ lines' = lines /\ pos < Len(lines)
         /\ pos' = pos + 1 /\ pos \in Nat /\ pos' \in 0..Len(lines')
         /\ Line \in Lines /\ Line.kind \in kinds
         /\ Len(lines) \in Nat /\ DOMAIN lines = 1..Len(lines)
<1>1. /\ pc = "line" /\ pc' = "line" /\ lines' = lines /\ printed' = printed
      /\ writing' = writing /\ pos < Len(lines) /\ pos' = pos + 1
      /\ Line.kind \in kinds
  BY DEF Parsing, pactlVars
<1>2. pos \in Nat /\ lines \in Seq(Lines)
  BY DEF IInv, ParseInv, TextInv
<1>3. Line \in Lines
  BY <1>1, <1>2 DEF Line
<1>4. TextInv'
  BY <1>1 DEF IInv, TextInv, Handed
<1> QED
  BY <1>1, <1>2, <1>3, <1>4

\* A line that is not a header, with a stream under construction or without.
LEMMA SameStreamsKeep ==
  ASSUME IInv, NEW kinds, Parsing(kinds), "header" \notin kinds,
         UNCHANGED streams,
         \/ current = None /\ current' = None
         \/ \E s, t \in Finished :
              /\ current = Some(s) /\ current' = Some(t) /\ t.head = s.head
              /\ UnderConstruction(t)'
  PROVE  IInv'
<1>1. /\ TextInv'
      /\ pc = "line" /\ pc' = "line" /\ lines' = lines /\ pos < Len(lines)
      /\ pos' = pos + 1 /\ pos \in Nat /\ pos' \in 0..Len(lines')
      /\ Line.kind # "header"
  BY ParsingKeeps
<1>2. StreamsInv'
  <2>1. StreamsInv /\ streams' = streams
    BY DEF IInv, ParseInv
  <2> QED
    BY <1>1, <2>1 DEF StreamsInv
<1>3. \A h \in Headers(lines) : h <= pos + 1 => h <= pos
  <2>1. Line = lines[pos + 1]
    BY DEF Line
  <2>2. \A h \in Headers(lines) : h \in Nat /\ lines[h].kind = "header"
    BY DEF Headers, IInv, TextInv
  <2> QED
    BY <1>1, <2>1, <2>2
<1>4. CASE current = None /\ current' = None
  <2>1. CurrentInv'
    BY <1>4 DEF CurrentInv
  <2>2. HeadersSeen'
    BY <1>1, <1>3, <1>4 DEF HeadersSeen, IInv, ParseInv
  <2> QED
    BY <1>1, <1>2, <2>1, <2>2 DEF IInv, ParseInv
<1>5. ASSUME NEW s \in Finished, NEW t \in Finished,
             current = Some(s), current' = Some(t), t.head = s.head,
             UnderConstruction(t)'
      PROVE  IInv'
  <2>1. /\ current # None /\ current[1] = s /\ current' # None /\ current'[1] = t
    BY <1>5 DEF Some, None
  <2>2. CurrentInv'
    <3>1. \A i \in DOMAIN streams : streams[i].head < s.head
      BY <2>1 DEF IInv, ParseInv, CurrentInv
    <3>2. current'[1] = t /\ current' = Some(t) /\ streams' = streams
      BY <1>5, <2>1
    <3>3. UnderConstruction(current[1])'
      BY <1>5, <3>2 DEF UnderConstruction, SaysUpTo
    <3> QED
      BY <1>5, <3>1, <3>2, <3>3 DEF CurrentInv
  <2>3. HeadersSeen'
    BY <1>1, <1>3, <1>5, <2>1 DEF HeadersSeen, IInv, ParseInv
  <2> QED
    BY <1>1, <1>2, <2>1, <2>2, <2>3 DEF IInv, ParseInv
<1> QED
  BY <1>4, <1>5

\* The stream under construction.
LEMMA TheStream ==
  ASSUME IInv, current # None
  PROVE  \E s \in Finished :
           /\ current = Some(s) /\ current[1] = s /\ UnderConstruction(s)
<1>1. PICK s \in Finished : current = Some(s)
  BY DEF IInv, ParseInv, CurrentInv
<1>2. current[1] = s
  BY <1>1 DEF Some
<1> QED
  BY <1>1, <1>2 DEF IInv, ParseInv, CurrentInv

\* Above the first header there is no stream, and the line starts none.
LEMMA SkipPreambleKeeps == ASSUME IInv, SkipPreamble PROVE IInv'
<1>1. /\ current = None /\ current' = None /\ streams' = streams
      /\ Parsing({"properties", "entry", "opened", "other"})
  BY DEF SkipPreamble
<1> QED
  BY <1>1, SameStreamsKeep

\* The marker opens the properties of the block and says nothing itself.
LEMMA ParseMarkerKeeps == ASSUME IInv, ParseMarker PROVE IInv'
<1>1. /\ current # None /\ current' = current /\ streams' = streams
      /\ Parsing({"properties"}) /\ in_properties' = TRUE
  BY DEF ParseMarker
<1>2. PICK s \in Finished : current = Some(s) /\ current[1] = s /\ UnderConstruction(s)
  BY <1>1, TheStream
<1>3. /\ pos < Len(lines) /\ Line.kind = "properties" /\ pos' = pos + 1
      /\ lines' = lines /\ Line = lines[pos + 1]
  BY <1>1, ParsingKeeps DEF Line
<1>4. \A k \in Wanted : pos + 1 \notin EntryOf(lines, s.head, k)
  BY <1>3 DEF EntryOf
<1>5. UnderConstruction(s)'
  BY <1>1, <1>2, <1>3, <1>4, LineSaysNothing
<1> QED
  BY <1>1, <1>2, <1>5, SameStreamsKeep

\* A line that is passed over is no entry below a marker, so its block says
\* nothing by it.
LEMMA SkipLineKeeps == ASSUME IInv, SkipLine PROVE IInv'
<1> DEFINE kinds == IF in_properties THEN {"opened", "other"}
                    ELSE {"entry", "opened", "other"}
<1>1. /\ current # None /\ current' = current /\ streams' = streams
      /\ Parsing(kinds) /\ in_properties' = in_properties
      /\ "header" \notin kinds /\ "properties" \notin kinds
      /\ in_properties => "entry" \notin kinds
  BY DEF SkipLine
<1>2. PICK s \in Finished : current = Some(s) /\ current[1] = s /\ UnderConstruction(s)
  BY <1>1, TheStream
<1> HIDE DEF kinds
<1>3. /\ pos < Len(lines) /\ Line.kind \in kinds /\ pos' = pos + 1
      /\ lines' = lines /\ Line = lines[pos + 1] /\ pos \in Nat
  BY <1>1, ParsingKeeps DEF Line
<1>4. ASSUME NEW k \in Wanted, pos + 1 \in EntryOf(lines, s.head, k)
      PROVE  FALSE
  <2>1. Line.kind = "entry" /\ \E m \in s.head..(pos + 1) : lines[m].kind = "properties"
    BY <1>3, <1>4 DEF EntryOf, Begins
  <2>2. PICK m \in s.head..(pos + 1) : lines[m].kind = "properties"
    BY <2>1
  <2>3. m # pos + 1 /\ s.head \in 1..pos
    BY <1>2, <1>3, <2>1, <2>2 DEF UnderConstruction
  <2>4. m \in s.head..pos
    BY <1>3, <2>2, <2>3
  <2>5. in_properties
    BY <1>2, <2>2, <2>4 DEF UnderConstruction
  <2> QED
    BY <1>1, <1>3, <2>1, <2>5
<1>5. UnderConstruction(s)'
  BY <1>1, <1>2, <1>3, <1>4, LineSaysNothing
<1> QED
  BY <1>1, <1>2, <1>5, SameStreamsKeep

\* What set_property changes.
LEMMA SetFields ==
  ASSUME NEW s \in Finished, NEW line, NEW i \in Nat
  PROVE  /\ Set(s, line, i) \in Finished
         /\ Set(s, line, i).head = s.head
         /\ \A k \in Wanted :
              Set(s, line, i).props[k] =
                IF k = line.key /\ line.value # "empty"
                THEN IF Shown(line) THEN Some(i) ELSE None
                ELSE s.props[k]
<1>1. CASE line.value = "empty" \/ line.key \notin Wanted
  BY <1>1 DEF Set
<1>2. CASE ~(line.value = "empty" \/ line.key \notin Wanted)
  <2> DEFINE new == IF Shown(line) THEN Some(i) ELSE None
             t == [s EXCEPT !.props[line.key] = new]
  <2>1. Set(s, line, i) = t
    BY <1>2 DEF Set
  <2>2. new \in {None} \union {Some(j) : j \in Nat}
    OBVIOUS
  <2> HIDE DEF new
  <2>3. /\ t \in Finished /\ t.head = s.head
        /\ \A k \in Wanted : t.props[k] = IF k = line.key THEN new ELSE s.props[k]
    BY <1>2, <2>2 DEF Finished
  <2> QED
    BY <1>2, <2>1, <2>3 DEF new
<1> QED
  BY <1>1, <1>2

\* An entry that stands below the marker of its block is the only one of its
\* key there, so what it sets, or leaves unset, is what the block says.
LEMMA ParseEntryKeeps == ASSUME IInv, ParseEntry PROVE IInv'
<1>1. /\ current # None /\ streams' = streams /\ in_properties
      /\ current' = Some(Set(current[1], Line, pos + 1))
      /\ Parsing({"entry"}) /\ in_properties' = in_properties
  BY DEF ParseEntry
<1>2. PICK s \in Finished : current = Some(s) /\ current[1] = s /\ UnderConstruction(s)
  BY <1>1, TheStream
<1>3. /\ pos < Len(lines) /\ Line.kind = "entry" /\ pos' = pos + 1
      /\ lines' = lines /\ Line = lines[pos + 1] /\ pos \in Nat /\ Line \in Lines
      /\ Len(lines) \in Nat /\ DOMAIN lines = 1..Len(lines)
  BY <1>1, ParsingKeeps DEF Line
<1>a. PICK t : t = Set(s, Line, pos + 1)
  OBVIOUS
<1>4. /\ t \in Finished /\ t.head = s.head
      /\ \A k \in Wanted :
           t.props[k] = IF k = Line.key /\ Line.value # "empty"
                        THEN IF Shown(Line) THEN Some(pos + 1) ELSE None
                        ELSE s.props[k]
  BY <1>3, <1>a, SetFields
<1>5. Shown(Line) => Line.value # "empty"
  BY DEF Shown, HoldsQuote
<1>6. s.head \in 1..pos /\ lines[s.head].kind = "header"
      /\ \A i \in (s.head + 1)..pos : lines[i].kind # "header"
  BY <1>2 DEF UnderConstruction
<1>7. InBlock(lines, s.head, pos + 1)
  BY <1>3, <1>6 DEF InBlock
<1>8. \E m \in s.head..(pos + 1) : lines[m].kind = "properties"
  BY <1>1, <1>2, <1>3, <1>6 DEF UnderConstruction
<1>9. ASSUME NEW k \in Wanted
      PROVE  pos + 1 \in EntryOf(lines, s.head, k)
               <=> k = Line.key /\ Shown(Line)
  BY <1>3, <1>7, <1>8 DEF EntryOf, Begins, Keyed
<1>10. ASSUME NEW i \in EntryOf(lines, s.head, Line.key)
       PROVE  i > pos
  <2> SUFFICES ASSUME ~(i > pos) PROVE FALSE
    OBVIOUS
  <2>1. /\ i \in DOMAIN lines /\ lines[i].kind = "entry" /\ lines[i].key = Line.key
        /\ s.head < i
    BY DEF EntryOf, Begins, InBlock
  <2>2. PICK h \in i..(pos + 1) : lines[h].kind = "header"
    <3>1. KeyOnce(lines)
      BY HandedOnce DEF IInv
    <3> QED
      BY <1>3, <2>1, <3>1 DEF KeyOnce, Keyed
  <2>3. h # pos + 1
    BY <1>3, <2>2
  <2> QED
    BY <1>3, <1>6, <2>1, <2>2, <2>3
<1>11. SaysUpTo(t, pos + 1)
  <2> SUFFICES ASSUME NEW k \in Wanted
               PROVE  /\ t.props[k] = None <=> \A i \in EntryOf(lines, s.head, k) : i > pos + 1
                      /\ t.props[k] # None => t.props[k][1] \in EntryOf(lines, s.head, k)
    BY <1>4 DEF SaysUpTo
  <2>1. \A i \in EntryOf(lines, s.head, k) : i \in Nat
    BY <1>3 DEF EntryOf
  <2>2. /\ s.props[k] = None <=> \A i \in EntryOf(lines, s.head, k) : i > pos
        /\ s.props[k] # None => s.props[k][1] \in EntryOf(lines, s.head, k)
    BY <1>2 DEF UnderConstruction, SaysUpTo
  <2>3. CASE k = Line.key /\ Shown(Line)
    <3>1. t.props[k] = Some(pos + 1) /\ Some(pos + 1) # None /\ Some(pos + 1)[1] = pos + 1
      BY <1>4, <1>5, <2>3 DEF Some, None
    <3> QED
      BY <1>3, <1>9, <2>1, <2>3, <3>1
  <2>4. CASE k = Line.key /\ Line.value # "empty" /\ ~Shown(Line)
    <3>1. t.props[k] = None
      BY <1>4, <2>4
    <3>2. ASSUME NEW i \in EntryOf(lines, s.head, k) PROVE i > pos + 1
      BY <1>3, <1>9, <1>10, <2>1, <2>4
    <3> QED
      BY <3>1, <3>2
  <2>5. CASE k # Line.key \/ Line.value = "empty"
    <3>1. t.props[k] = s.props[k]
      BY <1>4, <2>5
    <3>2. \A i \in EntryOf(lines, s.head, k) : i > pos <=> i > pos + 1
      BY <1>3, <1>5, <1>9, <2>1, <2>5
    <3> QED
      BY <2>2, <3>1, <3>2
  <2> QED
    BY <2>3, <2>4, <2>5
<1>12. UnderConstruction(t)'
  <2>1. \A i \in (s.head + 1)..(pos + 1) : lines[i].kind # "header"
    BY <1>3, <1>6
  <2>2. in_properties' <=> \E m \in s.head..(pos + 1) : lines[m].kind = "properties"
    BY <1>1, <1>8
  <2> QED
    BY <1>3, <1>4, <1>6, <1>11, <2>1, <2>2 DEF UnderConstruction, SaysUpTo
<1> QED
  BY <1>1, <1>2, <1>4, <1>12, <1>a, SameStreamsKeep

\* A new stream stands under the line that was read.
LEMMA ParseHeaderKeeps == ASSUME IInv, ParseHeader PROVE IInv'
<1>1. /\ streams' = streams \o current /\ current' = Some(NewStream(pos + 1))
      /\ Parsing({"header"}) /\ in_properties' = FALSE
  BY DEF ParseHeader
<1>2. /\ TextInv'
      /\ pc = "line" /\ pc' = "line" /\ lines' = lines /\ pos < Len(lines)
      /\ pos' = pos + 1 /\ pos \in Nat /\ pos' \in 0..Len(lines')
      /\ lines[pos + 1].kind = "header" /\ Line = lines[pos + 1]
      /\ Len(lines) \in Nat /\ DOMAIN lines = 1..Len(lines)
  BY <1>1, ParsingKeeps DEF Line
<1>3. /\ streams' \in Seq(Finished)
      /\ \A i \in DOMAIN streams' :
           /\ streams'[i].head \in 1..pos
           /\ lines[streams'[i].head].kind = "header"
           /\ Says(lines, streams'[i])
      /\ \A i, j \in DOMAIN streams' : i < j => streams'[i].head < streams'[j].head
      /\ \A h \in Headers(lines) :
           h <= pos => \E i \in DOMAIN streams' : streams'[i].head = h
  BY <1>1, <1>2, PushKeeps
<1>4. StreamsInv'
  BY <1>2, <1>3 DEF StreamsInv
<1> DEFINE s == NewStream(pos + 1)
<1>5. /\ s \in Finished /\ s.head = pos + 1 /\ \A k \in Wanted : s.props[k] = None
      /\ current' # None /\ current'[1] = s
  BY <1>1, <1>2 DEF NewStream, Finished, Some, None
<1>6. current' = Some(s)
  BY <1>1
<1> HIDE DEF s
<1>7. SaysUpTo(s, pos + 1)
  <2>1. ASSUME NEW k \in Wanted, NEW i \in EntryOf(lines, s.head, k)
        PROVE  i > pos + 1
    BY <1>5 DEF EntryOf, Begins, InBlock
  <2> QED
    BY <1>5, <2>1 DEF SaysUpTo
<1>8. UnderConstruction(current[1])'
  <2>1. s.head \in 1..(pos + 1) /\ \A i \in (s.head + 1)..(pos + 1) : lines[i].kind # "header"
    BY <1>2, <1>5
  <2>2. ~ \E m \in s.head..(pos + 1) : lines[m].kind = "properties"
    BY <1>2, <1>5
  <2> QED
    BY <1>1, <1>2, <1>5, <1>7, <2>1, <2>2 DEF UnderConstruction, SaysUpTo
<1>9. CurrentInv'
  BY <1>2, <1>3, <1>5, <1>6, <1>8 DEF CurrentInv
<1>10. HeadersSeen'
  <2>1. \A h \in Headers(lines) : h \in Nat
    BY <1>2 DEF Headers
  <2> QED
    BY <1>2, <1>3, <1>5, <2>1 DEF HeadersSeen
<1> QED
  BY <1>2, <1>4, <1>9, <1>10 DEF IInv, ParseInv

\* At the end of the output the last block is complete.
LEMMA EndOfOutputKeeps == ASSUME IInv, EndOfOutput PROVE IInv'
<1>1. /\ pc = "line" /\ pos = Len(lines) /\ pc' = "done"
      /\ streams' = streams \o current /\ current' = None
      /\ lines' = lines /\ pos' = pos
      /\ UNCHANGED <<printed, writing, in_properties>>
  BY DEF EndOfOutput, pactlVars
<1>2. /\ StreamsInv'
      /\ \A h \in Headers(lines) :
           h <= pos => \E i \in DOMAIN streams' : streams'[i].head = h
  BY <1>1, PushKeeps DEF StreamsInv
<1>3. TextInv'
  BY <1>1 DEF IInv, TextInv, Handed
<1>4. CurrentInv' /\ HeadersSeen'
  BY <1>1, <1>2 DEF CurrentInv, HeadersSeen
<1>5. pos' \in 0..Len(lines')
  BY <1>1 DEF IInv, ParseInv
<1> QED
  BY <1>1, <1>2, <1>3, <1>4, <1>5 DEF IInv, ParseInv

-----------------------------------------------------------------------------
(* Every step.                                                             *)

\* Before the program has anything the parser's part is untouched.
LEMMA ParserWaits ==
  ASSUME IInv, TextInv', pc = "pactl", pc' \in {"pactl", "line", "done"},
         UNCHANGED parserVars,
         pc' = "done" => lines' = <<>>
  PROVE  IInv'
<1>1. pos' = 0 /\ streams' = <<>> /\ current' = None /\ pos = 0
  BY DEF parserVars, IInv, ParseInv
<1>2. lines' \in Seq(Lines)
  BY DEF TextInv
<1>3. pos' \in 0..Len(lines') /\ (pc' = "done" => pos' = Len(lines'))
  BY <1>1, <1>2
<1>4. StreamsInv'
  BY <1>1 DEF StreamsInv
<1>5. CurrentInv'
  BY <1>1 DEF CurrentInv
<1>6. HeadersSeen'
  BY <1>1, <1>2 DEF HeadersSeen, Headers
<1> QED
  BY <1>1, <1>3, <1>4, <1>5, <1>6 DEF IInv, ParseInv

\* A step of pactl: one line more, and nothing else that is looked at.
LEMMA PrintedKeeps ==
  ASSUME IInv, NEW line \in Lines, NEW from, NEW to,
         "ended" \notin from, PrintLine(from, line, to),
         Keyed(line) => NewKey(line.key)
  PROVE  IInv'
<1>1. TextInv'
  BY PrintKeeps DEF IInv
<1>2. /\ UNCHANGED parserVars /\ pc' = pc /\ lines' = lines /\ writing # "ended"
  BY DEF PrintLine
<1>3. pc = "pactl" /\ lines' = <<>>
  BY <1>2 DEF IInv, TextInv, ParseInv
<1> QED
  BY <1>1, <1>2, <1>3, ParserWaits

\* Whatever pactl prints next.
LEMMA WriterKeeps == ASSUME IInv, Writer PROVE IInv'
<1>1. /\ Header \in Lines /\ ~Keyed(Header)
      /\ Marker \in Lines /\ ~Keyed(Marker)
      /\ Other \in Lines /\ ~Keyed(Other)
  BY DEF Header, Marker, Other, Lines, Keyed
<1>2. CASE PrintHeader
  BY <1>1, <1>2, PrintedKeeps DEF PrintHeader, Blocks
<1>3. CASE PrintOther
  BY <1>1, <1>3, PrintedKeeps DEF PrintOther
<1>4. CASE PrintField
  <2>1. PICK b \in Blocks : PrintLine({b}, Other, b)
    BY <1>4 DEF PrintField
  <2>2. "ended" \notin {b}
    BY DEF Blocks
  <2> QED
    BY <1>1, <2>1, <2>2, PrintedKeeps
<1>5. CASE PrintMarker
  BY <1>1, <1>5, PrintedKeeps DEF PrintMarker
<1>6. CASE PrintEntry
  <2>1. PICK e \in Entries : NewKey(e.key) /\ PrintLine({"properties"}, e, "properties")
    BY <1>6 DEF PrintEntry
  <2>2. e \in Lines
    BY KeyedFields
  <2> QED
    BY <2>1, <2>2, PrintedKeeps
<1>7. CASE PrintOpened
  <2>1. PICK f \in FirstLines : NewKey(f.key) /\ PrintLine({"properties"}, f, "value")
    BY <1>7 DEF PrintOpened
  <2>2. f \in Lines
    BY KeyedFields
  <2> QED
    BY <2>1, <2>2, PrintedKeeps
<1>8. CASE PrintTail
  BY <1>1, <1>8, PrintedKeeps DEF PrintTail
<1> QED
  BY <1>2, <1>3, <1>4, <1>5, <1>6, <1>7, <1>8 DEF Writer

\* The output is handed over, whole or in part, or it is not.
LEMMA CaptureKeeps == ASSUME IInv, Captured \/ NotCaptured PROVE IInv'
<1>1. CASE Captured
  <2>1. TextInv'
    BY <1>1, CapturedKeeps DEF IInv
  <2> QED
    BY <1>1, <2>1, ParserWaits DEF Captured
<1>2. CASE NotCaptured
  <2>1. /\ pc = "pactl" /\ pc' = "done" /\ writing' = "ended"
        /\ printed' = printed /\ lines' = lines /\ UNCHANGED parserVars
    BY <1>2 DEF NotCaptured
  <2>2. lines = <<>>
    BY <2>1 DEF IInv, TextInv
  <2>3. TextInv'
    BY <2>1 DEF IInv, TextInv, Handed
  <2> QED
    BY <2>1, <2>2, <2>3, ParserWaits
<1> QED
  BY <1>1, <1>2

\* A step that changes nothing.
LEMMA StutterKeeps == ASSUME IInv, UNCHANGED vars PROVE IInv'
<1>1. /\ printed' = printed /\ writing' = writing /\ lines' = lines /\ pc' = pc
      /\ pos' = pos /\ current' = current /\ in_properties' = in_properties
      /\ streams' = streams
  BY DEF vars, pactlVars, parserVars
<1>2. TextInv'
  BY <1>1 DEF IInv, TextInv, Handed
<1>3. StreamsInv'
  BY <1>1 DEF IInv, ParseInv, StreamsInv
<1>4. CurrentInv' /\ HeadersSeen'
  BY <1>1 DEF IInv, ParseInv, CurrentInv, HeadersSeen, UnderConstruction, SaysUpTo
<1> QED
  BY <1>1, <1>2, <1>3, <1>4 DEF IInv, ParseInv

\* Nothing is printed and nothing read.
LEMMA InitHolds == ASSUME Init PROVE IInv
<1>1. /\ printed = <<>> /\ writing = "preamble" /\ lines = <<>> /\ pc = "pactl"
      /\ pos = 0 /\ current = None /\ streams = <<>>
  BY DEF Init
<1>2. TextInv
  BY <1>1 DEF TextInv, KeyOnce, Handed
<1>3. StreamsInv /\ CurrentInv /\ HeadersSeen
  BY <1>1 DEF StreamsInv, CurrentInv, HeadersSeen, Headers
<1> QED
  BY <1>1, <1>2, <1>3 DEF IInv, ParseInv

\* What the parser holds at every line: the streams it has finished say what
\* their blocks say, the one under construction what its block says so far,
\* and no header is without a stream.
THEOREM ParserInvariant == Spec => []IInv
<1>1. Init => IInv
  BY InitHolds
<1>2. IInv /\ [Next]_vars => IInv'
  <2> SUFFICES ASSUME IInv, [Next]_vars PROVE IInv'
    OBVIOUS
  <2>1. CASE UNCHANGED vars
    BY <2>1, StutterKeeps
  <2>2. CASE Writer
    BY <2>2, WriterKeeps
  <2>3. CASE Captured \/ NotCaptured
    BY <2>3, CaptureKeeps
  <2>4. CASE ParseHeader
    BY <2>4, ParseHeaderKeeps
  <2>5. CASE SkipPreamble
    BY <2>5, SkipPreambleKeeps
  <2>6. CASE ParseMarker
    BY <2>6, ParseMarkerKeeps
  <2>7. CASE SkipLine
    BY <2>7, SkipLineKeeps
  <2>8. CASE ParseEntry
    BY <2>8, ParseEntryKeeps
  <2>9. CASE EndOfOutput
    BY <2>9, EndOfOutputKeeps
  <2> QED
    BY <2>1, <2>2, <2>3, <2>4, <2>5, <2>6, <2>7, <2>8, <2>9 DEF Next, Parser
<1> QED
  BY <1>1, <1>2, PTL DEF Spec

\* Each block that arrived is reported once, in order, with its own properties,
\* for every set of keys and an output of any length.
THEOREM EveryBlockParsed == Spec => []ParsedAsWritten
<1>1. IInv => ParsedAsWritten
  <2> SUFFICES ASSUME IInv, pc = "done"
               PROVE  /\ \A i, j \in DOMAIN streams : i < j => streams[i].head < streams[j].head
                      /\ {streams[i].head : i \in DOMAIN streams} = Headers(lines)
                      /\ \A i \in DOMAIN streams : Says(lines, streams[i])
    BY DEF ParsedAsWritten
  <2>1. /\ pos = Len(lines) /\ current = None /\ lines \in Seq(Lines)
        /\ StreamsInv /\ HeadersSeen
    BY DEF IInv, ParseInv, TextInv
  <2>2. ASSUME NEW i \in DOMAIN streams PROVE streams[i].head \in Headers(lines)
    BY <2>1 DEF StreamsInv, Headers
  <2>3. ASSUME NEW h \in Headers(lines)
        PROVE  \E i \in DOMAIN streams : streams[i].head = h
    BY <2>1 DEF HeadersSeen, Headers
  <2> QED
    BY <2>1, <2>2, <2>3 DEF StreamsInv
<1> QED
  BY <1>1, ParserInvariant, PTL

-----------------------------------------------------------------------------
(* A pactl that died.                                                      *)

\* What was handed over, said of what was printed.
LEMMA HandedLines ==
  ASSUME TextInv
  PROVE  /\ lines \in Seq(Lines) /\ printed \in Seq(Lines)
         /\ Len(lines) \in Nat /\ Len(printed) \in Nat /\ Len(lines) <= Len(printed)
         /\ DOMAIN lines = 1..Len(lines) /\ DOMAIN printed = 1..Len(printed)
         /\ \A i \in 1..Len(lines) :
              /\ i < Len(lines) => lines[i] = printed[i]
              /\ lines[i].kind = "header" => printed[i].kind = "header"
              /\ lines[i].kind = "properties" => lines[i] = printed[i]
              /\ lines[i].kind = "entry" =>
                   /\ Keyed(printed[i]) /\ lines[i].key = printed[i].key
                   /\ lines[i] = printed[i] \/ HoldsQuote(printed[i])
BY DEF TextInv, Handed, Keyed

\* An entry that was handed over begins a value in the same block of what was
\* printed, and is whole unless a quote mark stands inside the value.
LEMMA EntryPrinted ==
  ASSUME TextInv, NEW h \in DOMAIN lines, NEW k, NEW i \in EntryOf(lines, h, k)
  PROVE  /\ i \in DOMAIN lines /\ Begins(printed, h, k, i)
         /\ lines[i] = printed[i] \/ HoldsQuote(printed[i])
<1>1. /\ i \in 1..Len(lines) /\ h \in Nat /\ 1 <= h /\ h < i
      /\ \A j \in (h + 1)..i : lines[j].kind # "header"
      /\ lines[i].kind = "entry" /\ lines[i].key = k
      /\ \E m \in h..i : lines[m].kind = "properties"
  BY HandedLines DEF EntryOf, Begins, InBlock
<1>2. /\ Keyed(printed[i]) /\ printed[i].key = k
      /\ lines[i] = printed[i] \/ HoldsQuote(printed[i])
  BY <1>1, HandedLines
<1>3. \A j \in h..i : j < i => lines[j] = printed[j]
  BY <1>1, HandedLines
<1>4. \A j \in (h + 1)..i : printed[j].kind # "header"
  <2> SUFFICES ASSUME NEW j \in (h + 1)..i PROVE printed[j].kind # "header"
    OBVIOUS
  <2>1. CASE j = i
    BY <1>2, <2>1 DEF Keyed
  <2>2. CASE j < i
    BY <1>1, <1>3, <2>2
  <2> QED
    BY <1>1, <2>1, <2>2
<1>5. \E m \in h..i : printed[m].kind = "properties"
  <2>1. PICK m \in h..i : lines[m].kind = "properties"
    BY <1>1
  <2>2. m < i
    BY <1>1, <2>1
  <2> QED
    BY <1>3, <2>1, <2>2
<1> QED
  BY <1>1, <1>2, <1>4, <1>5, HandedLines DEF Begins, InBlock

\* A block below which another header was handed over is complete.
LEMMA WholeBlock ==
  ASSUME TextInv, NEW h \in DOMAIN lines, NEW g \in DOMAIN lines,
         h < g, lines[g].kind = "header", NEW k
  PROVE  EntryOf(lines, h, k) = EntryOf(printed, h, k)
<1>1. ASSUME NEW i \in 1..Len(printed), h < i,
             i < g \/ (i \in DOMAIN lines /\ \A j \in (h + 1)..i : lines[j].kind # "header")
                    \/ \A j \in (h + 1)..i : printed[j].kind # "header"
      PROVE  i < g /\ i \in DOMAIN lines /\ \A j \in h..i : lines[j] = printed[j]
  <2>1. printed[g].kind = "header" /\ g \in 1..Len(lines) /\ h \in Nat /\ i \in Nat
    BY HandedLines
  <2>2. i < g
    BY <1>1, <2>1, HandedLines
  <2> QED
    BY <2>1, <2>2, HandedLines
<1>2. EntryOf(lines, h, k) \subseteq EntryOf(printed, h, k)
  <2> SUFFICES ASSUME NEW i \in EntryOf(lines, h, k) PROVE i \in EntryOf(printed, h, k)
    OBVIOUS
  <2>1. /\ i \in DOMAIN lines /\ h < i /\ \A j \in (h + 1)..i : lines[j].kind # "header"
        /\ lines[i].kind = "entry" /\ Shown(lines[i])
    BY DEF EntryOf, Begins, InBlock
  <2>2. i \in 1..Len(printed) /\ h \in Nat
    BY <2>1, HandedLines
  <2>3. lines[i] = printed[i] /\ Begins(printed, h, k, i)
    BY <1>1, <2>1, <2>2, EntryPrinted
  <2> QED
    BY <2>1, <2>2, <2>3, HandedLines DEF EntryOf
<1>3. ASSUME NEW i \in EntryOf(printed, h, k)
      PROVE  i \in EntryOf(lines, h, k)
  <2>1. /\ i \in 1..Len(printed) /\ h \in Nat /\ 1 <= h /\ h < i
        /\ \A j \in (h + 1)..i : printed[j].kind # "header"
        /\ printed[i].kind = "entry" /\ Keyed(printed[i]) /\ printed[i].key = k
        /\ Shown(printed[i])
        /\ \E m \in h..i : printed[m].kind = "properties"
    BY HandedLines DEF EntryOf, Begins, InBlock
  <2>2. i \in DOMAIN lines /\ \A j \in h..i : lines[j] = printed[j]
    BY <1>1, <2>1
  <2>3. (\A j \in (h + 1)..i : j \in h..i) /\ i \in h..i
    BY <2>1
  <2> QED
    BY <2>1, <2>2, <2>3 DEF EntryOf, Begins, InBlock
<1> QED
  BY <1>2, <1>3

\* Whatever is left of the output, the streams lost are the last ones, every
\* stream but the last is as the whole output would have it, and each property
\* that is shown is one of its block, whole unless it holds a quote mark.
THEOREM CutOutputLosesTheEnd == Spec => []CutLosesOnlyTheEnd
<1>1. IInv => CutLosesOnlyTheEnd
  <2> SUFFICES ASSUME IInv, NEW i \in DOMAIN streams
               PROVE  /\ streams[i].head \in Headers(printed)
                      /\ \A h \in Headers(printed) :
                           h < streams[i].head => \E j \in 1..(i - 1) : streams[j].head = h
                      /\ i < Len(streams) => Says(printed, streams[i])
                      /\ \A k \in Wanted : \A p \in DOMAIN lines :
                           streams[i].props[k] = Some(p) =>
                             /\ Begins(printed, streams[i].head, k, p)
                             /\ lines[p] = printed[p] \/ HoldsQuote(printed[p])
    BY DEF CutLosesOnlyTheEnd
  <2>1. /\ TextInv /\ StreamsInv /\ CurrentInv /\ HeadersSeen
        /\ pos \in 0..Len(lines)
    BY DEF IInv, ParseInv
  <2>2. /\ Len(lines) \in Nat /\ Len(printed) \in Nat /\ Len(lines) <= Len(printed)
        /\ DOMAIN lines = 1..Len(lines) /\ DOMAIN printed = 1..Len(printed)
    BY <2>1, HandedLines
  <2>3. /\ streams \in Seq(Finished) /\ DOMAIN streams = 1..Len(streams) /\ Len(streams) \in Nat
        /\ \A j \in DOMAIN streams : streams[j].head \in DOMAIN lines
                                     /\ lines[streams[j].head].kind = "header"
                                     /\ streams[j].head <= pos
                                     /\ Says(lines, streams[j])
        /\ \A j, m \in DOMAIN streams : j < m => streams[j].head < streams[m].head
    BY <2>1, <2>2 DEF StreamsInv
  <2>4. streams[i].head \in Headers(printed)
    <3>1. streams[i].head \in 1..Len(lines) /\ lines[streams[i].head].kind = "header"
      BY <2>2, <2>3
    <3>2. printed[streams[i].head].kind = "header"
      BY <2>1, <3>1, HandedLines
    <3> QED
      BY <2>2, <3>1, <3>2 DEF Headers
  <2>5. ASSUME NEW h \in Headers(printed), h < streams[i].head
        PROVE  \E j \in 1..(i - 1) : streams[j].head = h
    <3>1. h \in 1..Len(printed) /\ printed[h].kind = "header"
      BY <2>2 DEF Headers
    <3>2. h \in Headers(lines) /\ h <= pos
      BY <2>1, <2>2, <2>3, <2>5, <3>1, HandedLines DEF Headers
    <3>3. ~(current # None /\ current[1].head = h)
      <4> SUFFICES ASSUME current # None, current[1].head = h PROVE FALSE
        OBVIOUS
      <4>1. streams[i].head < h
        BY <2>1 DEF CurrentInv
      <4> QED
        BY <2>2, <2>3, <2>5, <3>1, <4>1
    <3>4. PICK j \in DOMAIN streams : streams[j].head = h
      BY <2>1, <3>2, <3>3 DEF HeadersSeen
    <3>5. j < i
      <4>1. j # i /\ ~(i < j)
        BY <2>2, <2>3, <2>5, <3>1, <3>4
      <4> QED
        BY <2>3, <4>1
    <3>6. j \in 1..(i - 1)
      BY <2>3, <3>5
    <3> QED
      BY <3>4, <3>6
  <2>6. ASSUME i < Len(streams) PROVE Says(printed, streams[i])
    <3>1. i + 1 \in DOMAIN streams /\ i < i + 1
      BY <2>3, <2>6
    <3>2. streams[i].head < streams[i + 1].head
      BY <2>3, <3>1
    <3>3. \A k \in Wanted :
            EntryOf(lines, streams[i].head, k) = EntryOf(printed, streams[i].head, k)
      BY <2>1, <2>3, <3>1, <3>2, WholeBlock
    <3> QED
      BY <2>3, <3>3 DEF Says
  <2>7. ASSUME NEW k \in Wanted, NEW p \in DOMAIN lines, streams[i].props[k] = Some(p)
        PROVE  /\ Begins(printed, streams[i].head, k, p)
               /\ lines[p] = printed[p] \/ HoldsQuote(printed[p])
    <3>1. streams[i].props[k] # None /\ streams[i].props[k][1] = p
      BY <2>7 DEF Some, None
    <3>2. p \in EntryOf(lines, streams[i].head, k)
      BY <2>3, <3>1 DEF Says
    <3> QED
      BY <2>1, <2>3, <3>2, EntryPrinted
  <2> QED
    BY <2>4, <2>5, <2>6, <2>7
<1> QED
  BY <1>1, ParserInvariant, PTL

-----------------------------------------------------------------------------
(* Types: a stream refers to lines that have been read.                    *)

Placed ==
  /\ writing \in {"preamble", "fields", "properties", "value", "ended"}
  /\ in_properties \in BOOLEAN
  /\ current = None \/ \E s \in Stream(pos) : current = Some(s)
  /\ streams \in Seq(Stream(pos))

\* A place that has been read stays read.
LEMMA StreamGrows ==
  ASSUME NEW n \in Nat
  PROVE  /\ Stream(n) \subseteq Stream(n + 1)
         /\ Seq(Stream(n)) \subseteq Seq(Stream(n + 1))
<1>1. 1..n \subseteq 1..(n + 1)
  OBVIOUS
<1>2. PICK P, Q : /\ P = {None} \union {Some(i) : i \in 1..n}
                  /\ Q = {None} \union {Some(i) : i \in 1..(n + 1)}
  OBVIOUS
<1>3. P \subseteq Q
  BY <1>1, <1>2
<1>4. [Wanted -> P] \subseteq [Wanted -> Q]
  BY <1>3
<1>5. Stream(n) \subseteq Stream(n + 1)
  BY <1>1, <1>2, <1>4 DEF Stream
<1> QED BY <1>5

\* A property that is set refers to the line that sets it.
LEMMA SetPlaced ==
  ASSUME NEW n \in Nat, NEW s \in Stream(n), NEW line
  PROVE  Set(s, line, n) \in Stream(n)
<1>1. n \in 1..n
  BY DEF Stream
<1>2. PICK P : P = {None} \union {Some(i) : i \in 1..n}
  OBVIOUS
<1>3. s \in [head : 1..n, props : [Wanted -> P]]
  BY <1>2 DEF Stream
<1>4. (IF Shown(line) THEN Some(n) ELSE None) \in P
  BY <1>1, <1>2
<1>5. Set(s, line, n) \in [head : 1..n, props : [Wanted -> P]]
  BY <1>3, <1>4 DEF Set
<1> QED BY <1>2, <1>5 DEF Stream

\* A new stream refers to its header.
LEMMA NewPlaced ==
  ASSUME NEW n \in Nat, n >= 1
  PROVE  NewStream(n) \in Stream(n)
BY DEF NewStream, Stream

\* The streams with the one that is finished.
LEMMA FinishedPlaced ==
  ASSUME Placed
  PROVE  streams \o current \in Seq(Stream(pos))
<1>1. CASE current = None
  <2>1. current \in Seq(Stream(pos))
    BY <1>1 DEF None
  <2> QED BY <2>1 DEF Placed
<1>2. ASSUME NEW s \in Stream(pos), current = Some(s)
      PROVE  streams \o current \in Seq(Stream(pos))
  <2>1. current \in Seq(Stream(pos))
    BY <1>2 DEF Some
  <2> QED BY <2>1 DEF Placed
<1> QED BY <1>1, <1>2 DEF Placed

\* Every step keeps the places.
LEMMA PlacedKept == ASSUME IInv, Placed, [Next]_vars PROVE Placed'
<1>1. pos \in Nat
  BY DEF IInv, TextInv, ParseInv
<1>2. CASE UNCHANGED vars
  BY <1>2 DEF Placed, vars, pactlVars, parserVars
<1>3. CASE Writer
  <2>1. /\ UNCHANGED parserVars
        /\ writing' \in {"preamble", "fields", "properties", "value"}
    BY <1>3 DEF Writer, PrintHeader, PrintOther, PrintField, PrintMarker,
                PrintEntry, PrintOpened, PrintTail, PrintLine, Blocks
  <2> QED BY <2>1 DEF Placed, parserVars
<1>4. CASE Captured \/ NotCaptured
  BY <1>4 DEF Captured, NotCaptured, Placed, parserVars
<1>5. ASSUME pos' = pos + 1, UNCHANGED <<writing, current, streams>>,
             in_properties' \in BOOLEAN
      PROVE  Placed'
  BY <1>1, <1>5, StreamGrows DEF Placed
<1>6. CASE SkipPreamble \/ SkipLine
  BY <1>5, <1>6 DEF SkipPreamble, SkipLine, Parsing, pactlVars, Placed
<1>7. CASE ParseMarker
  BY <1>5, <1>7 DEF ParseMarker, Parsing, pactlVars, Placed
<1>8. CASE ParseHeader
  <2>1. /\ pos' = pos + 1 /\ writing' = writing /\ in_properties' = FALSE
        /\ streams' = streams \o current /\ current' = Some(NewStream(pos + 1))
    BY <1>8 DEF ParseHeader, Parsing, pactlVars
  <2>2. streams' \in Seq(Stream(pos'))
    BY <1>1, <2>1, FinishedPlaced, StreamGrows
  <2>3. NewStream(pos + 1) \in Stream(pos + 1)
    BY <1>1, NewPlaced
  <2> QED BY <2>1, <2>2, <2>3 DEF Placed
<1>9. CASE ParseEntry
  <2>1. /\ pos' = pos + 1 /\ writing' = writing /\ in_properties' = in_properties
        /\ streams' = streams /\ current # None
        /\ current' = Some(Set(current[1], Line, pos + 1))
    BY <1>9 DEF ParseEntry, Parsing, pactlVars
  <2>2. PICK s \in Stream(pos) : current = Some(s)
    BY <2>1 DEF Placed
  <2>3. current[1] = s /\ s \in Stream(pos + 1)
    BY <1>1, <2>2, StreamGrows DEF Some
  <2>4. Set(s, Line, pos + 1) \in Stream(pos + 1)
    BY <1>1, <2>3, SetPlaced
  <2>5. streams' \in Seq(Stream(pos'))
    BY <1>1, <2>1, StreamGrows DEF Placed
  <2> QED BY <2>1, <2>3, <2>4, <2>5 DEF Placed
<1>10. CASE EndOfOutput
  <2>1. /\ UNCHANGED <<pos, writing, in_properties>>
        /\ streams' = streams \o current /\ current' = None
    BY <1>10 DEF EndOfOutput, pactlVars
  <2> QED BY <2>1, FinishedPlaced DEF Placed
<1> QED
  BY <1>2, <1>3, <1>4, <1>6, <1>7, <1>8, <1>9, <1>10 DEF Next, Parser

\* Every variable keeps its type: a stream refers to the line of its header and
\* to lines of properties, and to none that was not read.
THEOREM TypeCorrect == Spec => []TypeOK
<1>1. Init => Placed
  <2>1. <<>> \in Seq(Stream(pos))
    OBVIOUS
  <2> QED BY <2>1 DEF Init, Placed
<1>2. IInv /\ Placed => TypeOK
  BY DEF IInv, TextInv, ParseInv, Placed, TypeOK
<1>3. IInv /\ Placed /\ [Next]_vars => Placed'
  BY PlacedKept
<1> QED BY <1>1, <1>2, <1>3, ParserInvariant, PTL DEF Spec

=============================================================================
