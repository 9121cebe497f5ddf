---------------------------- MODULE OutputProofs ----------------------------
(***************************************************************************)
(* Proofs about Output, for every call, every report, every size of the    *)
(* pipe and every fault: what is printed agrees with what the sources hold *)
(* and with the exit status. And about the frequencies that are printed.   *)
(***************************************************************************)
EXTENDS Output, TLAPS, FiniteSetTheorems, FunctionTheorems, NaturalsInduction,
        WellFoundedInduction

-----------------------------------------------------------------------------
(* Sequences of lines.                                                     *)

\* A sequence, whatever its elements are.
IsSequence(s) == \E S : s \in Seq(S)

\* How many lines say k, and whether a line is there.
Lines(s, k) == {i \in 1..Len(s) : s[i][1] = k}
Number(s, k) == Cardinality(Lines(s, k))
Has(s, line) == \E i \in 1..Len(s) : s[i] = line

\* A function on an interval from 1 is a sequence.
LEMMA Sequences ==
  ASSUME NEW n \in Nat, NEW s, DOMAIN s = 1..n, s = [i \in 1..n |-> s[i]]
  PROVE  IsSequence(s) /\ Len(s) = n
<1>1. s \in Seq({s[i] : i \in 1..n}) /\ Len(s) = n
  OBVIOUS
<1> QED BY <1>1 DEF IsSequence

\* Its elements are those of an interval.
LEMMA SequenceIs ==
  ASSUME NEW s, IsSequence(s)
  PROVE  Len(s) \in Nat /\ DOMAIN s = 1..Len(s) /\ s = [i \in 1..Len(s) |-> s[i]]
BY DEF IsSequence

\* Sequences with the same elements are equal.
LEMMA SameSequence ==
  ASSUME NEW s, NEW t, IsSequence(s), IsSequence(t), Len(s) = Len(t),
         \A i \in 1..Len(s) : s[i] = t[i]
  PROVE  s = t
<1>1. s = [i \in 1..Len(s) |-> s[i]] /\ t = [i \in 1..Len(s) |-> t[i]]
  BY SequenceIs
<1> QED BY <1>1

\* Nothing and a single line are sequences.
LEMMA Singles ==
  ASSUME NEW x
  PROVE  /\ IsSequence(<<x>>) /\ Len(<<x>>) = 1 /\ <<x>>[1] = x
         /\ IsSequence(<<>>) /\ Len(<<>>) = 0
<1>1. <<x>> \in Seq({x}) /\ <<>> \in Seq({x})
  OBVIOUS
<1>2. Len(<<x>>) = 1 /\ <<x>>[1] = x /\ Len(<<>>) = 0
  OBVIOUS
<1> QED BY <1>1, <1>2 DEF IsSequence

\* The one without elements.
LEMMA Nothing ==
  ASSUME NEW s, IsSequence(s)
  PROVE  s = <<>> <=> Len(s) = 0
BY DEF IsSequence

\* Two sequences in a row.
LEMMA Joined ==
  ASSUME NEW s, NEW t, IsSequence(s), IsSequence(t)
  PROVE  /\ IsSequence(s \o t) /\ Len(s \o t) = Len(s) + Len(t)
         /\ \A i \in 1..Len(s) : (s \o t)[i] = s[i]
         /\ \A i \in 1..Len(t) : (s \o t)[Len(s) + i] = t[i]
<1>1. PICK S : s \in Seq(S)
  BY DEF IsSequence
<1>2. PICK T : t \in Seq(T)
  BY DEF IsSequence
<1>3. s \in Seq(S \cup T) /\ t \in Seq(S \cup T)
  BY <1>1, <1>2
<1>4. s \o t \in Seq(S \cup T)
  BY <1>3
<1>5. Len(s \o t) = Len(s) + Len(t) /\ Len(s) \in Nat /\ Len(t) \in Nat
  BY <1>3
<1>6. \A i \in 1..Len(s) : (s \o t)[i] = s[i]
  BY <1>3, <1>5
<1>7. \A i \in 1..Len(t) : (s \o t)[Len(s) + i] = t[i]
  BY <1>3, <1>5
<1> QED BY <1>4, <1>5, <1>6, <1>7 DEF IsSequence

\* An interval from 1 has as many elements as its end says.
LEMMA UptoNumber ==
  ASSUME NEW n \in Nat
  PROVE  IsFiniteSet(1..n) /\ Cardinality(1..n) = n
<1>1. Cardinality(1..n) = IF 1 > n THEN 0 ELSE n - 1 + 1
  BY FS_Interval
<1> QED BY <1>1, FS_Interval

\* The lines that say k are finite in number.
LEMMA NumberIs ==
  ASSUME NEW s, IsSequence(s), NEW k
  PROVE  IsFiniteSet(Lines(s, k)) /\ Number(s, k) \in Nat
<1>1. Len(s) \in Nat
  BY SequenceIs
<1>2. IsFiniteSet(1..Len(s))
  BY <1>1, UptoNumber
<1>3. Lines(s, k) \in SUBSET (1..Len(s))
  BY DEF Lines
<1>4. IsFiniteSet(Lines(s, k))
  BY <1>2, <1>3, FS_Subset
<1> QED BY <1>4, FS_CardinalityType DEF Number

\* Lines add up.
LEMMA JoinedNumber ==
  ASSUME NEW s, NEW t, IsSequence(s), IsSequence(t), NEW k
  PROVE  Number(s \o t, k) = Number(s, k) + Number(t, k)
<1> DEFINE A == Lines(s, k)
           B == Lines(t, k)
           C == {Len(s) + i : i \in B}
<1>1. IsFiniteSet(A) /\ IsFiniteSet(B) /\ Number(s, k) \in Nat /\ Number(t, k) \in Nat
  BY NumberIs
<1>2. Len(s) \in Nat /\ Len(t) \in Nat
  BY SequenceIs
<1>3. IsFiniteSet(C) /\ Cardinality(C) = Cardinality(B)
  <2> DEFINE f == [i \in B |-> Len(s) + i]
  <2>1. B \subseteq Nat
    BY <1>2 DEF Lines
  <2>2. f \in [B -> C] /\ \A i, j \in B : f[i] = f[j] => i = j
    BY <1>2, <2>1
  <2>3. \A c \in C : \E i \in B : f[i] = c
    OBVIOUS
  <2>4. f \in Bijection(B, C)
    BY <2>2, <2>3 DEF Bijection, Injection, Surjection, IsInjective
  <2> HIDE DEF f, B, C
  <2> QED BY <1>1, <2>4, FS_Bijection DEF ExistsBijection
<1>4. A \cap C = {}
  BY <1>2 DEF Lines
<1>5. Lines(s \o t, k) = A \cup C
  <2>1. /\ Len(s \o t) = Len(s) + Len(t)
        /\ \A i \in 1..Len(s) : (s \o t)[i] = s[i]
        /\ \A i \in 1..Len(t) : (s \o t)[Len(s) + i] = t[i]
    BY Joined
  <2>2. ASSUME NEW i \in Lines(s \o t, k) PROVE i \in A \cup C
    <3>1. i \in 1..(Len(s) + Len(t)) /\ (s \o t)[i][1] = k
      BY <2>1 DEF Lines
    <3>2. CASE i <= Len(s)
      BY <1>2, <2>1, <3>1, <3>2 DEF Lines
    <3>3. CASE ~(i <= Len(s))
      <4>1. PICK j \in 1..Len(t) : i = Len(s) + j
        <5>1. i - Len(s) \in 1..Len(t) /\ i = Len(s) + (i - Len(s))
          BY <1>2, <3>1, <3>3
        <5> QED BY <5>1
      <4>2. j \in B
        BY <2>1, <3>1, <4>1 DEF Lines
      <4> QED BY <4>1, <4>2
    <3> QED BY <3>2, <3>3
  <2>3. ASSUME NEW i \in A PROVE i \in Lines(s \o t, k)
    BY <1>2, <2>1 DEF Lines
  <2>4. ASSUME NEW j \in B PROVE Len(s) + j \in Lines(s \o t, k)
    BY <1>2, <2>1 DEF Lines
  <2> QED BY <2>2, <2>3, <2>4
<1>6. Cardinality(A \cup C) = Cardinality(A) + Cardinality(C) - Cardinality({})
  BY <1>1, <1>3, <1>4, FS_Union
<1>7. Cardinality({}) = 0
  BY FS_EmptySet
<1> QED BY <1>1, <1>3, <1>5, <1>6, <1>7 DEF Number

\* A line is in the one or in the other.
LEMMA JoinedHas ==
  ASSUME NEW s, NEW t, IsSequence(s), IsSequence(t), NEW line
  PROVE  Has(s \o t, line) <=> Has(s, line) \/ Has(t, line)
<1>1. /\ Len(s \o t) = Len(s) + Len(t)
      /\ \A i \in 1..Len(s) : (s \o t)[i] = s[i]
      /\ \A i \in 1..Len(t) : (s \o t)[Len(s) + i] = t[i]
  BY Joined
<1>2. Len(s) \in Nat /\ Len(t) \in Nat
  BY SequenceIs
<1>3. ASSUME Has(s \o t, line) PROVE Has(s, line) \/ Has(t, line)
  <2>1. PICK i \in 1..(Len(s) + Len(t)) : (s \o t)[i] = line
    BY <1>1, <1>3 DEF Has
  <2>2. CASE i <= Len(s)
    BY <1>1, <1>2, <2>1, <2>2 DEF Has
  <2>3. CASE ~(i <= Len(s))
    <3>1. i - Len(s) \in 1..Len(t) /\ i = Len(s) + (i - Len(s))
      BY <1>2, <2>3
    <3> QED BY <1>1, <2>1, <3>1 DEF Has
  <2> QED BY <2>2, <2>3
<1>4. ASSUME Has(s, line) PROVE Has(s \o t, line)
  BY <1>1, <1>2, <1>4 DEF Has
<1>5. ASSUME Has(t, line) PROVE Has(s \o t, line)
  <2>1. PICK i \in 1..Len(t) : t[i] = line
    BY <1>5 DEF Has
  <2>2. Len(s) + i \in 1..Len(s \o t)
    BY <1>1, <1>2
  <2> QED BY <1>1, <2>1, <2>2 DEF Has
<1> QED BY <1>3, <1>4, <1>5

\* No line says k, or only one.
LEMMA NoneSays ==
  ASSUME NEW s, IsSequence(s), NEW k
  PROVE  Number(s, k) = 0 <=> \A i \in 1..Len(s) : s[i][1] # k
<1>1. IsFiniteSet(Lines(s, k))
  BY NumberIs
<1>2. Number(s, k) = 0 <=> Lines(s, k) = {}
  BY <1>1, FS_EmptySet DEF Number
<1> QED BY <1>2 DEF Lines

\* If every line says k, as many say it as there are lines.
LEMMA AllSay ==
  ASSUME NEW s, IsSequence(s), NEW k, \A i \in 1..Len(s) : s[i][1] = k
  PROVE  Number(s, k) = Len(s)
<1>1. Lines(s, k) = 1..Len(s) /\ Len(s) \in Nat
  BY SequenceIs DEF Lines
<1>2. Cardinality(1..Len(s)) = Len(s)
  BY <1>1, UptoNumber
<1> QED BY <1>1, <1>2 DEF Number

\* A line is not there if none says what it says.
LEMMA NotThere ==
  ASSUME NEW s, IsSequence(s), NEW line, Number(s, line[1]) = 0
  PROVE  ~Has(s, line)
BY NoneSays DEF Has

-----------------------------------------------------------------------------
(* Sequences of sequences, one behind the other.                           *)

\* A set of numbers that is not empty has a least one.
LEMMA LeastOf ==
  ASSUME NEW S \in SUBSET Nat, S # {}
  PROVE  \E x \in S : \A y \in S : x <= y
<1>1. \E x \in S : \A y \in S : ~(<<y, x>> \in OpToRel(<, Nat))
  BY NatLessThanWellFounded, WFMin
<1>2. \A x, y \in Nat : y < x => <<y, x>> \in OpToRel(<, Nat)
  BY DEF OpToRel
<1>3. \E x \in S : \A y \in S : ~(y < x)
  BY <1>1, <1>2, Zenon
<1> QED BY <1>3

\* The function that FlattenSeq computes, on the first n sequences.
Flat(ss, n, f) == f = [i \in 1..n |-> IF i = 1 THEN ss[i] ELSE f[i - 1] \o ss[i]]

\* There is one for every n.
LEMMA FlatExists ==
  ASSUME NEW ss, NEW m \in Nat
  PROVE  \E f : Flat(ss, m, f)
<1> DEFINE Bad == {n \in Nat : ~ \E f : Flat(ss, n, f)}
<1> SUFFICES ASSUME Bad # {} PROVE FALSE
  OBVIOUS
<1>1. PICK n \in Bad : \A k \in Bad : n <= k
  <2>1. Bad \in SUBSET Nat
    OBVIOUS
  <2> HIDE DEF Bad
  <2> QED BY <2>1, LeastOf
<1>2. n \in Nat /\ ~ \E f : Flat(ss, n, f)
  OBVIOUS
<1>3. n # 0
  <2>1. Flat(ss, 0, [i \in 1..0 |-> 0])
    <3>1. 1..0 = {}
      OBVIOUS
    <3> QED BY <3>1 DEF Flat
  <2> QED BY <1>2, <2>1
<1>4. PICK k \in Nat : n = k + 1
  BY <1>2, <1>3
<1>5. PICK g : Flat(ss, k, g)
  <2>1. k \notin Bad
    <3>1. ~(n <= k)
      BY <1>4
    <3> HIDE DEF Bad
    <3> QED BY <1>1, <3>1
  <2> QED BY <2>1
<1> DEFINE f == [i \in 1..n |-> IF i = 1 THEN ss[i] ELSE g[i - 1] \o ss[i]]
<1>6. \A i \in 1..k : g[i] = IF i = 1 THEN ss[i] ELSE g[i - 1] \o ss[i]
  BY <1>5 DEF Flat
<1>7. \A i \in 1..k : f[i] = g[i]
  BY <1>4, <1>6
<1>8. \A i \in 1..n : i # 1 => i - 1 \in 1..k
  BY <1>4
<1>9. \A i \in 1..n : f[i] = IF i = 1 THEN ss[i] ELSE f[i - 1] \o ss[i]
  BY <1>7, <1>8
<1>10. Flat(ss, n, f)
  BY <1>9 DEF Flat
<1> QED BY <1>2, <1>10

\* What it is step by step, and FlattenSeq at the end of it.
LEMMA FlattenIs ==
  ASSUME NEW ss, IsSequence(ss), Len(ss) # 0
  PROVE  \E f : /\ f[1] = ss[1]
                /\ \A i \in 1..Len(ss) : i # 1 => f[i] = f[i - 1] \o ss[i]
                /\ FlattenSeq(ss) = f[Len(ss)]
<1>1. Len(ss) \in Nat /\ 1 \in 1..Len(ss)
  BY SequenceIs
<1> DEFINE f == CHOOSE g : Flat(ss, Len(ss), g)
<1>2. Flat(ss, Len(ss), f)
  BY <1>1, FlatExists
<1>3. FlattenSeq(ss) = f[Len(ss)]
  BY DEF FlattenSeq, Flat
<1>4. \A i \in 1..Len(ss) : f[i] = IF i = 1 THEN ss[i] ELSE f[i - 1] \o ss[i]
  <2> HIDE DEF f
  <2> QED BY <1>2 DEF Flat
<1> QED BY <1>1, <1>3, <1>4

\* Of no sequences nothing comes.
LEMMA FlattenNothing ==
  ASSUME NEW ss, IsSequence(ss), Len(ss) = 0
  PROVE  IsSequence(FlattenSeq(ss)) /\ Len(FlattenSeq(ss)) = 0
BY DEF FlattenSeq

\* Sequences in a row are a sequence.
LEMMA FlattenSequence ==
  ASSUME NEW ss, IsSequence(ss), \A i \in 1..Len(ss) : IsSequence(ss[i])
  PROVE  IsSequence(FlattenSeq(ss))
<1>1. CASE Len(ss) = 0
  BY <1>1, FlattenNothing
<1>2. CASE Len(ss) # 0
  <2>1. PICK f : /\ f[1] = ss[1]
                 /\ \A i \in 1..Len(ss) : i # 1 => f[i] = f[i - 1] \o ss[i]
                 /\ FlattenSeq(ss) = f[Len(ss)]
    BY <1>2, FlattenIs
  <2> DEFINE Bad == {n \in 1..Len(ss) : ~IsSequence(f[n])}
  <2>2. Bad = {}
    <3> SUFFICES ASSUME Bad # {} PROVE FALSE
      OBVIOUS
    <3>1. Len(ss) \in Nat
      BY SequenceIs
    <3>2. PICK n \in Bad : \A k \in Bad : n <= k
      <4>1. Bad \in SUBSET Nat
        BY <3>1
      <4> HIDE DEF Bad
      <4> QED BY <4>1, LeastOf
    <3>3. n \in 1..Len(ss) /\ ~IsSequence(f[n])
      OBVIOUS
    <3>4. n # 1
      BY <2>1, <3>3
    <3>5. n - 1 \in 1..Len(ss) /\ ~(n <= n - 1)
      BY <3>1, <3>3, <3>4
    <3>6. IsSequence(f[n - 1])
      BY <3>2, <3>5
    <3>7. f[n] = f[n - 1] \o ss[n] /\ IsSequence(ss[n])
      BY <2>1, <3>3, <3>4
    <3>8. IsSequence(f[n - 1] \o ss[n])
      BY <3>6, <3>7, Joined
    <3> QED BY <3>3, <3>7, <3>8
  <2>3. Len(ss) \in 1..Len(ss)
    BY <1>2, SequenceIs
  <2> QED BY <2>1, <2>2, <2>3
<1> QED BY <1>1, <1>2

\* Those of a set of numbers up to a bound.
Upto(D, n) == {i \in D : i <= n}

\* What is up to n is what is up to the one before, with n if it is in D.
LEMMA UptoNext ==
  ASSUME NEW m \in Nat, NEW D, \A d \in D : d \in 1..m, NEW n \in 1..m, n # 1
  PROVE  IF n \in D THEN Upto(D, n) = Upto(D, n - 1) \cup {n} /\ n \notin Upto(D, n - 1)
         ELSE Upto(D, n) = Upto(D, n - 1)
<1>1. CASE n \in D
  <2>1. \A d \in Upto(D, n) : d \in Upto(D, n - 1) \cup {n}
    BY DEF Upto
  <2>2. \A d \in Upto(D, n - 1) : d \in Upto(D, n) /\ d # n
    BY DEF Upto
  <2>3. n \in Upto(D, n)
    BY <1>1 DEF Upto
  <2> QED BY <1>1, <2>1, <2>2, <2>3
<1>2. CASE n \notin D
  <2>1. Upto(D, n) = Upto(D, n - 1)
    BY <1>2 DEF Upto
  <2> QED BY <1>2, <2>1
<1> QED BY <1>1, <1>2

Grows(D, n) ==
  /\ Cardinality(Upto(D, 1)) = IF 1 \in D THEN 1 ELSE 0
  /\ n # 1 => Cardinality(Upto(D, n))
              = Cardinality(Upto(D, n - 1)) + IF n \in D THEN 1 ELSE 0

\* One by one.
LEMMA UptoGrows ==
  ASSUME NEW m \in Nat, NEW D, \A d \in D : d \in 1..m, NEW n \in 1..m
  PROVE  Grows(D, n) /\ Upto(D, m) = D
<1>1. \A j \in 0..m : IsFiniteSet(Upto(D, j)) /\ Cardinality(Upto(D, j)) \in Nat
  <2> SUFFICES ASSUME NEW j \in 0..m
               PROVE  IsFiniteSet(Upto(D, j)) /\ Cardinality(Upto(D, j)) \in Nat
    OBVIOUS
  <2>1. IsFiniteSet(1..m) /\ Upto(D, j) \in SUBSET (1..m)
    BY FS_Interval DEF Upto
  <2> QED BY <2>1, FS_Subset, FS_CardinalityType
<1>2. Upto(D, 1) = IF 1 \in D THEN {1} ELSE {}
  BY DEF Upto
<1>3. Cardinality(Upto(D, 1)) = IF 1 \in D THEN 1 ELSE 0
  BY <1>2, FS_EmptySet, FS_Singleton
<1>4. ASSUME n # 1
      PROVE  Cardinality(Upto(D, n)) = Cardinality(Upto(D, n - 1)) + IF n \in D THEN 1 ELSE 0
  <2>1. n - 1 \in 0..m
    BY <1>4
  <2>2. CASE n \in D
    <3>1. Upto(D, n) = Upto(D, n - 1) \cup {n} /\ n \notin Upto(D, n - 1)
      BY <1>4, <2>2, UptoNext
    <3> QED BY <1>1, <2>1, <2>2, <3>1, FS_AddElement
  <2>3. CASE n \notin D
    <3>1. Upto(D, n) = Upto(D, n - 1)
      BY <1>4, <2>3, UptoNext
    <3> QED BY <1>1, <2>1, <2>3, <3>1
  <2> QED BY <2>2, <2>3
<1>5. Upto(D, m) = D
  BY DEF Upto
<1> QED BY <1>3, <1>4, <1>5 DEF Grows

\* If D are the sequences of which one line says k, and in the others none
\* does, as many lines of all say it.
LEMMA FlattenNumber ==
  ASSUME NEW ss, IsSequence(ss), NEW k, NEW D, \A d \in D : d \in 1..Len(ss),
         \A i \in 1..Len(ss) :
           IsSequence(ss[i]) /\ Number(ss[i], k) = IF i \in D THEN 1 ELSE 0
  PROVE  Number(FlattenSeq(ss), k) = Cardinality(D)
<1>0. Len(ss) \in Nat
  BY SequenceIs
<1>1. CASE Len(ss) = 0
  <2>1. D = {}
    BY <1>1, SMT
  <2>2. IsSequence(FlattenSeq(ss)) /\ Len(FlattenSeq(ss)) = 0
    BY <1>1, FlattenNothing
  <2>3. Lines(FlattenSeq(ss), k) = {}
    BY <2>2 DEF Lines
  <2> QED BY <2>1, <2>3 DEF Number
<1>2. CASE Len(ss) # 0
  <2>1. PICK f : /\ f[1] = ss[1]
                 /\ \A i \in 1..Len(ss) : i # 1 => f[i] = f[i - 1] \o ss[i]
                 /\ FlattenSeq(ss) = f[Len(ss)]
    BY <1>2, FlattenIs
  <2> DEFINE Right(n) == IsSequence(f[n]) /\ Number(f[n], k) = Cardinality(Upto(D, n))
             Bad == {n \in 1..Len(ss) : ~Right(n)}
  <2>2. Bad = {}
    <3> SUFFICES ASSUME Bad # {} PROVE FALSE
      OBVIOUS
    <3>1. PICK n \in Bad : \A j \in Bad : n <= j
      <4>1. Bad \in SUBSET Nat
        BY <1>0
      <4> HIDE DEF Bad
      <4> QED BY <4>1, LeastOf
    <3>2. n \in 1..Len(ss) /\ ~Right(n)
      OBVIOUS
    <3>3. /\ Cardinality(Upto(D, 1)) = IF 1 \in D THEN 1 ELSE 0
          /\ n # 1 => Cardinality(Upto(D, n))
                       = Cardinality(Upto(D, n - 1)) + IF n \in D THEN 1 ELSE 0
      <4>1. Grows(D, n)
        BY <1>0, <3>2, UptoGrows
      <4> QED BY <4>1 DEF Grows
    <3>4. n # 1
      BY <2>1, <3>2, <3>3
    <3>5. n - 1 \in 1..Len(ss) /\ ~(n <= n - 1) /\ n \in Nat
      BY <1>0, <3>2, <3>4
    <3>6. Right(n - 1)
      <4>1. n - 1 \notin Bad
        <5> HIDE DEF Bad
        <5> QED BY <3>1, <3>5
      <4> QED BY <3>5, <4>1
    <3>7. /\ f[n] = f[n - 1] \o ss[n] /\ IsSequence(ss[n])
          /\ Number(ss[n], k) = IF n \in D THEN 1 ELSE 0
      BY <2>1, <3>2, <3>4
    <3>8. IsSequence(f[n - 1] \o ss[n])
      BY <3>6, <3>7, Joined
    <3>9. Number(f[n - 1] \o ss[n], k) = Number(f[n - 1], k) + Number(ss[n], k)
      BY <3>6, <3>7, JoinedNumber
    <3> QED BY <3>2, <3>3, <3>4, <3>6, <3>7, <3>8, <3>9
  <2>3. Len(ss) \in 1..Len(ss)
    BY <1>0, <1>2
  <2>4. Right(Len(ss))
    BY <2>2, <2>3
  <2>5. Upto(D, Len(ss)) = D
    BY <1>0, <2>3, UptoGrows
  <2> QED BY <2>1, <2>4, <2>5
<1> QED BY <1>1, <1>2

-----------------------------------------------------------------------------
(* What is kept of a sequence.                                             *)

\* t consists of the elements of s at the positions in D.
Picks(t, s, D, h) ==
  /\ h \in [1..Len(t) -> D]
  /\ \A i, j \in 1..Len(t) : h[i] = h[j] => i = j
  /\ \A d \in D : \E j \in 1..Len(t) : h[j] = d
  /\ \A j \in 1..Len(t) : t[j] = s[h[j]]

Kept(t, s, D) == IsSequence(t) /\ \E h : Picks(t, s, D, h)

\* One more element.
LEMMA PicksOneMore ==
  ASSUME NEW t, IsSequence(t), NEW s, NEW D, NEW d, d \notin D, Kept(t, s, D)
  PROVE  Kept(t \o <<s[d]>>, s, D \cup {d})
<1>1. PICK h : Picks(t, s, D, h)
  BY DEF Kept
<1> DEFINE u == t \o <<s[d]>>
           g == [j \in 1..Len(u) |-> IF j \in 1..Len(t) THEN h[j] ELSE d]
<1>2. IsSequence(<<s[d]>>) /\ Len(<<s[d]>>) = 1 /\ <<s[d]>>[1] = s[d]
  BY Singles
<1>3. /\ IsSequence(u) /\ Len(u) = Len(t) + 1
      /\ \A i \in 1..Len(t) : u[i] = t[i]
      /\ u[Len(t) + 1] = s[d]
  <2>1. /\ IsSequence(u) /\ Len(u) = Len(t) + Len(<<s[d]>>)
        /\ \A i \in 1..Len(t) : u[i] = t[i]
        /\ \A i \in 1..Len(<<s[d]>>) : u[Len(t) + i] = <<s[d]>>[i]
    BY <1>2, Joined
  <2> QED BY <1>2, <2>1
<1>4. Len(t) \in Nat
  BY SequenceIs
<1> HIDE DEF u
<1>5. \A j \in 1..Len(u) : j \in 1..Len(t) \/ j = Len(t) + 1
  BY <1>3, <1>4
<1>6. Len(t) + 1 \in 1..Len(u) /\ Len(t) + 1 \notin 1..Len(t) /\ \A j \in 1..Len(t) : j \in 1..Len(u)
  BY <1>3, <1>4
<1>7. /\ h \in [1..Len(t) -> D]
      /\ \A i, j \in 1..Len(t) : h[i] = h[j] => i = j
      /\ \A e \in D : \E j \in 1..Len(t) : h[j] = e
      /\ \A j \in 1..Len(t) : t[j] = s[h[j]]
  BY <1>1 DEF Picks
<1>8. (\A j \in 1..Len(t) : g[j] = h[j]) /\ g[Len(t) + 1] = d
  BY <1>6
<1>9. g \in [1..Len(u) -> D \cup {d}]
  BY <1>5, <1>7
<1>10. \A i, j \in 1..Len(u) : g[i] = g[j] => i = j
  <2> HIDE DEF g
  <2>1. \A i \in 1..Len(t) : g[i] \in D
    BY <1>7, <1>8
  <2> QED BY <1>5, <1>7, <1>8, <2>1
<1>11. \A e \in D \cup {d} : \E j \in 1..Len(u) : g[j] = e
  <2> HIDE DEF g
  <2> QED BY <1>6, <1>7, <1>8
<1>12. \A j \in 1..Len(u) : u[j] = s[g[j]]
  <2> HIDE DEF g
  <2> QED BY <1>3, <1>5, <1>7, <1>8
<1>13. Picks(u, s, D \cup {d}, g)
  <2> HIDE DEF g
  <2> QED BY <1>9, <1>10, <1>11, <1>12 DEF Picks
<1> QED BY <1>3, <1>13 DEF Kept, u

\* An element or nothing for each element, one behind the other.
LEMMA KeptIs ==
  ASSUME NEW s, NEW ss, IsSequence(ss), NEW D, \A d \in D : d \in 1..Len(ss),
         \A i \in 1..Len(ss) : ss[i] = IF i \in D THEN <<s[i]>> ELSE <<>>
  PROVE  Kept(FlattenSeq(ss), s, D)
<1>0. Len(ss) \in Nat
  BY SequenceIs
<1>1. \A x : IsSequence(<<x>>) /\ IsSequence(<<>>) /\ Len(<<>>) = 0 /\ Len(<<x>>) = 1 /\ <<x>>[1] = x
  BY Singles
<1>2. Kept(<<>>, s, {})
  <2>1. Picks(<<>>, s, {}, <<>>)
    BY DEF Picks
  <2> QED BY <1>1, <2>1 DEF Kept
<1>3. CASE Len(ss) = 0
  <2>1. D = {}
    BY <1>3, SMT
  <2>2. FlattenSeq(ss) = <<>>
    <3>1. IsSequence(FlattenSeq(ss)) /\ Len(FlattenSeq(ss)) = 0
      BY <1>3, FlattenNothing
    <3> QED BY <3>1 DEF IsSequence
  <2> QED BY <1>2, <2>1, <2>2
<1>4. CASE Len(ss) # 0
  <2>1. PICK f : /\ f[1] = ss[1]
                 /\ \A i \in 1..Len(ss) : i # 1 => f[i] = f[i - 1] \o ss[i]
                 /\ FlattenSeq(ss) = f[Len(ss)]
    BY <1>4, FlattenIs
  <2> DEFINE Right(n) == Kept(f[n], s, Upto(D, n))
             Bad == {n \in 1..Len(ss) : ~Right(n)}
  <2>2. Bad = {}
    <3> SUFFICES ASSUME Bad # {} PROVE FALSE
      OBVIOUS
    <3>1. PICK n \in Bad : \A j \in Bad : n <= j
      <4>1. Bad \in SUBSET Nat
        BY <1>0
      <4> HIDE DEF Bad
      <4> QED BY <4>1, LeastOf
    <3>2. n \in 1..Len(ss) /\ ~Right(n)
      OBVIOUS
    <3>3. n # 1
      <4> SUFFICES ASSUME n = 1 PROVE FALSE
        OBVIOUS
      <4>1. CASE 1 \in D
        <5>1. \A d \in D : d <= 1 => d = 1
          BY <1>0
        <5>2. Upto(D, 1) = {1}
          BY <4>1, <5>1 DEF Upto
        <5>3. f[1] = <<s[1]>>
          BY <2>1, <3>2, <4>1
        <5>4. Picks(<<s[1]>>, s, {1}, <<1>>)
          BY DEF Picks
        <5> QED BY <1>1, <3>2, <5>2, <5>3, <5>4 DEF Kept
      <4>2. CASE 1 \notin D
        <5>1. \A d \in D : ~(d <= 1)
          BY <1>0, <4>2
        <5>2. Upto(D, 1) = {}
          BY <5>1 DEF Upto
        <5>3. f[1] = <<>>
          BY <2>1, <3>2, <4>2
        <5> QED BY <1>2, <3>2, <5>2, <5>3
      <4> QED BY <4>1, <4>2
    <3>4. n - 1 \in 1..Len(ss) /\ ~(n <= n - 1) /\ n \in Nat
      BY <1>0, <3>2, <3>3
    <3>5. Right(n - 1)
      <4>1. n - 1 \notin Bad
        <5> HIDE DEF Bad
        <5> QED BY <3>1, <3>4
      <4> QED BY <3>4, <4>1
    <3>6. IsSequence(f[n - 1])
      BY <3>5 DEF Kept
    <3>7. f[n] = f[n - 1] \o ss[n]
      BY <2>1, <3>2, <3>3
    <3>8. CASE n \in D
      <4>1. Upto(D, n) = Upto(D, n - 1) \cup {n} /\ n \notin Upto(D, n - 1)
        BY <1>0, <3>2, <3>3, <3>8, UptoNext
      <4>2. f[n] = f[n - 1] \o <<s[n]>>
        BY <3>2, <3>7, <3>8
      <4> QED BY <3>2, <3>5, <3>6, <4>1, <4>2, PicksOneMore
    <3>9. CASE n \notin D
      <4>1. Upto(D, n) = Upto(D, n - 1)
        BY <1>0, <3>2, <3>3, <3>9, UptoNext
      <4>2. f[n] = f[n - 1]
        <5>1. f[n] = f[n - 1] \o <<>>
          BY <3>2, <3>7, <3>9
        <5> QED BY <3>6, <5>1 DEF IsSequence
      <4> QED BY <3>2, <3>5, <4>1, <4>2
    <3> QED BY <3>8, <3>9
  <2>3. Len(ss) \in 1..Len(ss)
    BY <1>0, <1>4
  <2>4. Right(Len(ss))
    BY <2>2, <2>3
  <2>5. Upto(D, Len(ss)) = D
    BY <1>0, <2>3, UptoGrows
  <2> QED BY <2>1, <2>4, <2>5
<1> QED BY <1>3, <1>4

\* The positions of elements that are in a set.
Within(D, s, F) == {i \in D : s[i] \in F}

\* As many of the elements kept are in a set as of those at the positions.
LEMMA KeptNumber ==
  ASSUME NEW t, NEW s, NEW D, Kept(t, s, D), NEW F
  PROVE  Cardinality(Within(1..Len(t), t, F)) = Cardinality(Within(D, s, F))
<1>1. PICK h : Picks(t, s, D, h)
  BY DEF Kept
<1> DEFINE A == {j \in 1..Len(t) : t[j] \in F}
           B == {i \in D : s[i] \in F}
           g == [j \in A |-> h[j]]
<1>2. /\ h \in [1..Len(t) -> D]
      /\ \A i, j \in 1..Len(t) : h[i] = h[j] => i = j
      /\ \A e \in D : \E j \in 1..Len(t) : h[j] = e
      /\ \A j \in 1..Len(t) : t[j] = s[h[j]]
  BY <1>1 DEF Picks
<1>3. IsFiniteSet(A)
  <2>1. Len(t) \in Nat
    BY SequenceIs DEF Kept
  <2>2. IsFiniteSet(1..Len(t)) /\ A \in SUBSET (1..Len(t))
    BY <2>1, UptoNumber
  <2> HIDE DEF A
  <2> QED BY <2>2, FS_Subset
<1>4. g \in [A -> B] /\ (\A i, j \in A : g[i] = g[j] => i = j) /\ \A b \in B : \E a \in A : g[a] = b
  BY <1>2
<1>5. g \in Bijection(A, B)
  <2> HIDE DEF g, A, B
  <2> QED BY <1>4 DEF Bijection, Injection, Surjection, IsInjective
<1> HIDE DEF g, A, B
<1>6. Cardinality(A) = Cardinality(B)
  BY <1>3, <1>5, FS_Bijection DEF ExistsBijection
<1> QED BY <1>6 DEF A, B, Within

\* As many are kept as there are positions.
LEMMA KeptLength ==
  ASSUME NEW t, NEW s, NEW D, Kept(t, s, D)
  PROVE  IsSequence(t) /\ Len(t) = Cardinality(D) /\ (t = <<>> <=> D = {}) /\ IsFiniteSet(D)
<1>1. IsSequence(t) /\ Len(t) \in Nat
  BY SequenceIs DEF Kept
<1>2. PICK h : Picks(t, s, D, h)
  BY DEF Kept
<1>3. h \in Bijection(1..Len(t), D)
  BY <1>2 DEF Picks, Bijection, Injection, Surjection, IsInjective
<1>4. IsFiniteSet(1..Len(t)) /\ Cardinality(1..Len(t)) = Len(t)
  BY <1>1, UptoNumber
<1>5. IsFiniteSet(D) /\ Cardinality(D) = Len(t)
  BY <1>3, <1>4, FS_Bijection DEF ExistsBijection
<1>6. D = {} <=> Len(t) = 0
  BY <1>5, FS_EmptySet
<1>7. t = <<>> <=> Len(t) = 0
  BY <1>1 DEF IsSequence
<1> QED BY <1>1, <1>5, <1>6, <1>7

-----------------------------------------------------------------------------
(* Pieces of a report.                                                     *)

\* n lines of s say k.
Says(s, k, n) == IsSequence(s) /\ Number(s, k) = n /\ n \in Nat

\* What two sequences say adds up when one is put behind the other.
LEMMA SaysJoined ==
  ASSUME NEW s, NEW t, NEW k, NEW m, NEW n, Says(s, k, m), Says(t, k, n)
  PROVE  Says(s \o t, k, m + n)
BY Joined, JoinedNumber DEF Says

\* No lines say nothing.
LEMMA SaysNothing ==
  ASSUME NEW k
  PROVE  Says(<<>>, k, 0)
<1>1. IsSequence(<<>>) /\ Len(<<>>) = 0
  BY Singles
<1> QED BY <1>1, NoneSays DEF Says

\* One line says what it says, once.
LEMMA SaysOne ==
  ASSUME NEW line, NEW k
  PROVE  Says(<<line>>, k, IF line[1] = k THEN 1 ELSE 0)
<1>1. IsSequence(<<line>>) /\ Len(<<line>>) = 1 /\ <<line>>[1] = line
  BY Singles
<1>2. CASE line[1] = k
  <2>1. \A i \in 1..Len(<<line>>) : <<line>>[i][1] = k
    BY <1>1, <1>2
  <2> QED BY <1>1, <1>2, <2>1, AllSay DEF Says
<1>3. CASE line[1] # k
  <2>1. \A i \in 1..Len(<<line>>) : <<line>>[i][1] # k
    BY <1>1, <1>3
  <2> QED BY <1>1, <1>3, <2>1, NoneSays DEF Says
<1> QED BY <1>2, <1>3

\* A line for each element of a sequence, all of one kind.
LEMMA SaysMapped ==
  ASSUME NEW s, IsSequence(s), NEW t, NEW h, DOMAIN t = DOMAIN s, t = [i \in DOMAIN s |-> t[i]],
         \A i \in DOMAIN s : t[i][1] = h
  PROVE  /\ IsSequence(t) /\ Len(t) = Len(s)
         /\ \A k : Says(t, k, IF k = h THEN Len(s) ELSE 0)
<1>1. DOMAIN s = 1..Len(s) /\ Len(s) \in Nat
  BY SequenceIs
<1>2. IsSequence(t) /\ Len(t) = Len(s)
  BY <1>1, Sequences
<1>3. ASSUME NEW k PROVE Says(t, k, IF k = h THEN Len(s) ELSE 0)
  <2>1. \A i \in 1..Len(t) : t[i][1] = h
    BY <1>1, <1>2
  <2>2. CASE k = h
    BY <1>1, <1>2, <2>1, <2>2, AllSay DEF Says
  <2>3. CASE k # h
    BY <1>1, <1>2, <2>1, <2>3, NoneSays DEF Says
  <2> QED BY <2>2, <2>3
<1> QED BY <1>2, <1>3

\* A title is a line of its own.
LEMMA SaysSection ==
  ASSUME NEW lines, NEW k, NEW n, NEW title, k # "section", Says(lines, k, n)
  PROVE  Says(Section(title, lines), k, n)
<1>1. Says(<< <<"section", title>> >>, k, IF <<"section", title>>[1] = k THEN 1 ELSE 0)
  BY SaysOne
<1>2. <<"section", title>>[1] # k
  OBVIOUS
<1>3. Says(<< <<"section", title>> >>, k, 0)
  BY <1>1, <1>2
<1>4. Says(<< <<"section", title>> >> \o lines, k, 0 + n)
  BY <1>3, SaysJoined
<1>5. 0 + n = n
  BY DEF Says
<1> QED BY <1>4, <1>5 DEF Section

\* A line that is there is there whatever stands before or behind it.
LEMMA HasJoined ==
  ASSUME NEW s, NEW t, NEW line, IsSequence(s), IsSequence(t), Has(s, line) \/ Has(t, line)
  PROVE  Has(s \o t, line)
BY JoinedHas

\* A line is among itself.
LEMMA HasOne ==
  ASSUME NEW line
  PROVE  Has(<<line>>, line)
BY Singles DEF Has

\* The first lines of a sequence.
LEMMA FirstLines ==
  ASSUME NEW s, IsSequence(s), NEW m \in 0..Len(s)
  PROVE  IsSequence(SubSeq(s, 1, m)) /\ Len(SubSeq(s, 1, m)) = m
<1>1. PICK S : s \in Seq(S)
  BY DEF IsSequence
<1>2. SubSeq(s, 1, m) \in Seq(S) /\ Len(SubSeq(s, 1, m)) = m
  BY <1>1
<1> QED BY <1>2 DEF IsSequence

-----------------------------------------------------------------------------
(* The report of waketimers.                                               *)

\* What is in the report.
WakeTimersReport(r) ==
  /\ IsSequence(r.wake_timers)
  /\ r.all_timers # None => IsSequence(r.all_timers[1])

\* The lines of the timers, and what the report says of them.
LEMMA WakeTimersPrinted ==
  ASSUME NEW r, WakeTimersReport(r), NEW verbose \in BOOLEAN, TimersCap \in Nat
  PROVE  /\ Says(PrintWakeTimers(r, verbose), "timer", Len(r.wake_timers))
         /\ \E n \in Nat : Says(PrintWakeTimers(r, verbose), "row", n)
         /\ r.all_timers # None /\ verbose =>
              LET all == r.all_timers[1]
                  n == IF Len(all) < TimersCap THEN Len(all) ELSE TimersCap
              IN  /\ Says(PrintWakeTimers(r, verbose), "row", n)
                  /\ Len(all) > TimersCap =>
                       Has(PrintWakeTimers(r, verbose), <<"more", Len(all) - TimersCap>>)
         /\ r.wake_timers = <<>> =>
              /\ Has(PrintWakeTimers(r, verbose), <<"no timers will wake">>)
              /\ Has(PrintWakeTimers(r, verbose), <<"no wake timers">>)
         /\ r.wake_timers # <<>> =>
              Has(PrintWakeTimers(r, verbose), <<"wake timers", Len(r.wake_timers)>>)
<1> DEFINE all == IF r.all_timers = None THEN <<>> ELSE r.all_timers[1]
           cut == IF Len(all) < TimersCap THEN Len(all) ELSE TimersCap
           T == Map(LAMBDA t : <<"timer", t.unit, NextElapseDisplay(t)>>, r.wake_timers)
           A == IF r.wake_timers = <<>> THEN << <<"no timers will wake">> >> ELSE T
           F == SubSeq(all, 1, cut)
           R == Map(LAMBDA t : <<"row", t.unit, t.wake_system, NextElapseDisplay(t)>>, F)
           M == Only(Len(all) > TimersCap, << <<"more", Len(all) - TimersCap>> >>)
           B == Only(verbose /\ all # <<>>, Section("all scheduled timers", R \o M))
           C == IF r.rtc_wakealarm = None THEN << <<"no alarm">> >>
                ELSE << <<"alarm", r.rtc_wakealarm[1]>> >>
           E == IF r.wake_timers = <<>> THEN <<"no wake timers">>
                ELSE <<"wake timers", Len(r.wake_timers)>>
           SA == Section("timers with wakesystem", A)
           SC == Section("rtc wake alarm", C)
           P == SA \o B \o SC \o Rule \o <<E>>
<1>1. PrintWakeTimers(r, verbose) = P
  BY DEF PrintWakeTimers
<1>2. IsSequence(r.wake_timers) /\ Len(r.wake_timers) \in Nat /\ DOMAIN r.wake_timers = 1..Len(r.wake_timers)
  BY SequenceIs DEF WakeTimersReport
<1>3. IsSequence(all) /\ Len(all) \in Nat
  BY Singles, SequenceIs DEF WakeTimersReport
<1>4. \A k : Says(T, k, IF k = "timer" THEN Len(r.wake_timers) ELSE 0)
  <2>1. DOMAIN T = DOMAIN r.wake_timers /\ T = [i \in DOMAIN r.wake_timers |-> T[i]]
    BY DEF Map
  <2>2. \A i \in DOMAIN r.wake_timers : T[i][1] = "timer"
    BY DEF Map
  <2> HIDE DEF T
  <2> QED BY <1>2, <2>1, <2>2, SaysMapped
<1>5. cut \in 0..Len(all) /\ cut \in Nat
  BY <1>3
<1>6. IsSequence(F) /\ Len(F) = cut
  <2> HIDE DEF all, cut
  <2> QED BY <1>3, <1>5, FirstLines
<1>7. \A k : Says(R, k, IF k = "row" THEN cut ELSE 0)
  <2> HIDE DEF F, cut
  <2>1. DOMAIN R = DOMAIN F /\ R = [i \in DOMAIN F |-> R[i]]
    BY DEF Map
  <2>2. \A i \in DOMAIN F : R[i][1] = "row"
    BY DEF Map
  <2> HIDE DEF R
  <2> QED BY <1>6, <2>1, <2>2, SaysMapped
<1> HIDE DEF all, cut, T, F, R
<1>8. \A k \in {"timer", "row"} : Says(M, k, 0)
  <2> SUFFICES ASSUME NEW k \in {"timer", "row"} PROVE Says(M, k, 0)
    OBVIOUS
  <2>1. <<"more", Len(all) - TimersCap>>[1] # k
    OBVIOUS
  <2> QED BY <2>1, SaysOne, SaysNothing DEF Only
<1>9. \A k \in {"timer", "row"} :
        Says(B, k, IF k = "row" /\ verbose /\ all # <<>> THEN cut ELSE 0)
  <2> SUFFICES ASSUME NEW k \in {"timer", "row"}
               PROVE  Says(B, k, IF k = "row" /\ verbose /\ all # <<>> THEN cut ELSE 0)
    OBVIOUS
  <2>1. Says(R \o M, k, (IF k = "row" THEN cut ELSE 0) + 0)
    BY <1>7, <1>8, SaysJoined
  <2>2. Says(R \o M, k, IF k = "row" THEN cut ELSE 0)
    BY <1>5, <2>1
  <2>3. Says(Section("all scheduled timers", R \o M), k, IF k = "row" THEN cut ELSE 0)
    BY <2>2, SaysSection
  <2> QED BY <2>3, SaysNothing DEF Only
<1>10. \A k \in {"timer", "row"} : Says(C, k, 0) /\ Says(<<E>>, k, 0) /\ Says(Rule, k, 0)
  <2> SUFFICES ASSUME NEW k \in {"timer", "row"}
               PROVE  Says(C, k, 0) /\ Says(<<E>>, k, 0) /\ Says(Rule, k, 0)
    OBVIOUS
  <2>1. <<"no alarm">>[1] # k /\ <<"alarm", r.rtc_wakealarm[1]>>[1] # k /\ E[1] # k /\ <<"rule">>[1] # k
    OBVIOUS
  <2> QED BY <2>1, SaysOne DEF Rule
<1>11. \A k \in {"timer", "row"} : Says(A, k, IF k = "timer" THEN Len(r.wake_timers) ELSE 0)
  <2> SUFFICES ASSUME NEW k \in {"timer", "row"}
               PROVE  Says(A, k, IF k = "timer" THEN Len(r.wake_timers) ELSE 0)
    OBVIOUS
  <2>1. CASE r.wake_timers = <<>>
    <3>1. <<"no timers will wake">>[1] # k /\ Len(r.wake_timers) = 0
      BY <2>1
    <3> QED BY <2>1, <3>1, SaysOne
  <2>2. CASE r.wake_timers # <<>>
    BY <1>4, <2>2
  <2> QED BY <2>1, <2>2
<1> HIDE DEF A, B, C, E
<1>12. ASSUME NEW k \in {"timer", "row"}
       PROVE  Says(P, k, IF k = "timer" THEN Len(r.wake_timers)
                         ELSE IF verbose /\ all # <<>> THEN cut ELSE 0)
  <2>1. Says(SA, k, IF k = "timer" THEN Len(r.wake_timers) ELSE 0) /\ Says(SC, k, 0)
    BY <1>10, <1>11, SaysSection
  <2>2. PICK m \in Nat : m = IF k = "timer" THEN Len(r.wake_timers) ELSE 0
    BY <1>2
  <2>3. PICK n \in Nat : n = IF k = "row" /\ verbose /\ all # <<>> THEN cut ELSE 0
    BY <1>5
  <2>4. Says(SA, k, m) /\ Says(B, k, n) /\ Says(SC, k, 0) /\ Says(Rule, k, 0) /\ Says(<<E>>, k, 0)
    BY <1>9, <1>10, <2>1, <2>2, <2>3
  <2> HIDE DEF SA, SC
  <2>5. Says(P, k, m + n + 0 + 0 + 0)
    BY <2>4, SaysJoined
  <2>6. m + n + 0 + 0 + 0 = IF k = "timer" THEN Len(r.wake_timers)
                            ELSE IF verbose /\ all # <<>> THEN cut ELSE 0
    <3>1. CASE k = "timer"
      BY <1>2, <2>2, <2>3, <3>1
    <3>2. CASE k = "row"
      BY <2>2, <2>3, <3>2
    <3> QED BY <3>1, <3>2
  <2> QED BY <2>5, <2>6
<1>13. /\ IsSequence(SA) /\ IsSequence(B) /\ IsSequence(SC) /\ IsSequence(Rule) /\ IsSequence(<<E>>)
       /\ IsSequence(A) /\ IsSequence(R) /\ IsSequence(M) /\ IsSequence(R \o M)
       /\ \A title : IsSequence(<< <<"section", title>> >>)
  <2>1. "timer" \in {"timer", "row"}
    OBVIOUS
  <2>2. /\ IsSequence(B) /\ IsSequence(C) /\ IsSequence(Rule) /\ IsSequence(<<E>>)
        /\ IsSequence(A) /\ IsSequence(R) /\ IsSequence(M)
    BY <1>7, <1>8, <1>9, <1>10, <1>11, <2>1 DEF Says
  <2>3. \A title : IsSequence(<< <<"section", title>> >>)
    BY Singles
  <2> QED BY <2>2, <2>3, Joined DEF Section
<1>14. \A line : Has(A, line) \/ Has(B, line) \/ Has(<<E>>, line) => Has(P, line)
  <2> SUFFICES ASSUME NEW line, Has(A, line) \/ Has(B, line) \/ Has(<<E>>, line)
               PROVE  Has(P, line)
    OBVIOUS
  <2>1. Has(A, line) => Has(SA, line)
    BY <1>11, <1>13, JoinedHas DEF Section, Says
  <2>2. Has(SA, line) \/ Has(B, line) => Has(SA \o B, line)
    BY <1>13, JoinedHas
  <2>3. IsSequence(SA \o B) /\ IsSequence(SA \o B \o SC) /\ IsSequence(SA \o B \o SC \o Rule)
    BY <1>13, Joined
  <2> HIDE DEF SA, SC
  <2>4. Has(SA \o B, line) => Has(SA \o B \o SC, line)
    BY <1>13, <2>3, JoinedHas
  <2>5. Has(SA \o B \o SC, line) => Has(SA \o B \o SC \o Rule, line)
    BY <1>13, <2>3, JoinedHas
  <2>6. Has(SA \o B \o SC \o Rule, line) \/ Has(<<E>>, line) => Has(P, line)
    BY <1>13, <2>3, JoinedHas
  <2> QED BY <2>1, <2>2, <2>4, <2>5, <2>6
<1> HIDE DEF P, SA, SC
<1>15. Says(P, "timer", Len(r.wake_timers))
  BY <1>12
<1>16. \E n \in Nat : Says(P, "row", n)
  <2>1. Says(P, "row", IF verbose /\ all # <<>> THEN cut ELSE 0)
    BY <1>12
  <2> QED BY <1>5, <2>1
<1>17. ASSUME r.all_timers # None, verbose
       PROVE  /\ all = r.all_timers[1] /\ Says(P, "row", cut)
              /\ Len(all) > TimersCap => Has(P, <<"more", Len(all) - TimersCap>>)
  <2>1. all = r.all_timers[1]
    BY <1>17 DEF all
  <2>2. all = <<>> => cut = 0
    <3>1. all = <<>> => Len(all) = 0
      OBVIOUS
    <3> QED BY <3>1 DEF cut
  <2>3. Says(P, "row", IF verbose /\ all # <<>> THEN cut ELSE 0)
    BY <1>12
  <2>4. Says(P, "row", cut)
    BY <1>17, <2>2, <2>3
  <2>5. ASSUME Len(all) > TimersCap PROVE Has(P, <<"more", Len(all) - TimersCap>>)
    <3>1. all # <<>>
      <4>1. all = <<>> => Len(all) = 0
        OBVIOUS
      <4> QED BY <2>5, <4>1
    <3>2. Has(M, <<"more", Len(all) - TimersCap>>)
      BY <2>5, HasOne DEF Only
    <3>3. Has(R \o M, <<"more", Len(all) - TimersCap>>)
      BY <1>13, <3>2, JoinedHas
    <3>4. B = << <<"section", "all scheduled timers">> >> \o (R \o M)
      BY <1>17, <3>1 DEF B, Only, Section
    <3>5. Has(B, <<"more", Len(all) - TimersCap>>)
      BY <1>13, <3>3, <3>4, JoinedHas
    <3> QED BY <1>14, <3>5
  <2> QED BY <2>1, <2>4, <2>5
<1>18. ASSUME r.wake_timers = <<>>
       PROVE  Has(P, <<"no timers will wake">>) /\ Has(P, <<"no wake timers">>)
  BY <1>14, <1>18, HasOne DEF A, E
<1>19. ASSUME r.wake_timers # <<>> PROVE Has(P, <<"wake timers", Len(r.wake_timers)>>)
  BY <1>14, <1>19, HasOne DEF E
<1> QED BY <1>1, <1>15, <1>16, <1>17, <1>18, <1>19 DEF cut

\* Counting and finding lines in what is written.
LEMMA CountIs ==
  ASSUME IsSequence(out)
  PROVE  /\ \A k : Count(k) = Number(out, k) /\ Count(k) \in Nat
         /\ \A line : Printed(line) <=> Has(out, line)
<1>1. DOMAIN out = 1..Len(out)
  BY SequenceIs
<1>2. \A k : {i \in DOMAIN out : out[i][1] = k} = Lines(out, k)
  BY <1>1 DEF Lines
<1> QED BY <1>1, <1>2, NumberIs DEF Count, Number, Printed, Has

\* A table is a sequence of its rows, and no longer than allowed.
LEMMA Bounded ==
  ASSUME NEW S, NEW n \in Nat, NEW s \in SeqOf(S, n)
  PROVE  IsSequence(s) /\ Len(s) \in 0..n /\ \A i \in 1..Len(s) : s[i] \in S
<1>1. PICK m \in 0..n : s \in [1..m -> S]
  BY DEF SeqOf
<1>2. m \in Nat /\ DOMAIN s = 1..m /\ s = [i \in 1..m |-> s[i]]
  BY <1>1
<1>3. IsSequence(s) /\ Len(s) = m
  BY <1>2, Sequences
<1> QED BY <1>1, <1>3

\* A call has its command, its flags and its sources.
LEMMA CallIs ==
  ASSUME NEW cmd, NEW flags, NEW sources, NEW c \in Calls(cmd, flags, sources)
  PROVE  c.cmd = cmd /\ c.format \in Formats /\ c.flags \in flags /\ c.sources \in sources
BY DEF Calls

\* A call of waketimers.
LEMMA WakeTimersCall ==
  ASSUME NEW c \in WakeTimersCalls
  PROVE  /\ c.cmd = "waketimers" /\ c.format \in Formats /\ c.flags.verbose \in BOOLEAN
         /\ IsSequence(OrEmpty(c.sources.timers))
         /\ \A i \in 1..Len(OrEmpty(c.sources.timers)) :
              OrEmpty(c.sources.timers)[i].wake_system \in BOOLEAN
         /\ c.sources.timers # None => c.sources.timers = Some(OrEmpty(c.sources.timers))
<1> DEFINE T == [unit : {"t.timer"}, wake_system : BOOLEAN,
                 next : {"zero", "no single time", "09:00"}]
           Q == SeqOf(T, TimersCap + 1)
           S == [timers : {None} \union {Some(q) : q \in Q},
                 rtc_wakealarm : {None, Some("07:00")}]
           t == c.sources.timers
           u == OrEmpty(t)
<1>1. c \in Calls("waketimers", Verbosely, S)
  BY DEF WakeTimersCalls
<1> HIDE DEF S
<1>2. c.cmd = "waketimers" /\ c.format \in Formats /\ c.flags \in Verbosely /\ c.sources \in S
  BY <1>1, CallIs
<1>3. c.flags.verbose \in BOOLEAN
  BY <1>2 DEF Verbosely
<1>4. t \in {None} \union {Some(q) : q \in Q}
  BY <1>2 DEF S
<1> HIDE DEF T, Q, t, u
<1>5. \A q \in Q : IsSequence(q) /\ \A i \in 1..Len(q) : q[i] \in T
  BY CapsAssumption, Bounded DEF Q
<1>6. \A q \in Q : \A i \in 1..Len(q) : q[i].wake_system \in BOOLEAN
  BY <1>5 DEF T
<1>7. /\ IsSequence(u) /\ \A i \in 1..Len(u) : u[i].wake_system \in BOOLEAN
      /\ t # None => t = Some(u)
  <2>1. CASE t = None
    <3>1. u = <<>>
      BY <2>1 DEF u, OrEmpty
    <3>2. IsSequence(u) /\ Len(u) = 0
      BY <3>1, Singles DEF IsSequence
    <3> QED BY <2>1, <3>2
  <2>2. CASE t # None
    <3>1. PICK q \in Q : t = Some(q)
      BY <1>4, <2>2
    <3>2. u = q
      BY <2>2, <3>1 DEF u, OrEmpty, Some
    <3> QED BY <1>5, <1>6, <3>1, <3>2
  <2> QED BY <2>1, <2>2
<1> QED BY <1>2, <1>3, <1>7 DEF t, u

\* What the report of waketimers says is what the timers are.
LEMMA WakeTimersAgree ==
  ASSUME call \in WakeTimersCalls, out = Text(call, Build(call))
  PROVE  IsSequence(out) /\ WakeTimersVerdict(call.sources)
<1> DEFINE s == call.sources
           verbose == call.flags.verbose
           t == OrEmpty(s.timers)
           r == BuildWakeTimers(s, verbose)
           D == {i \in DOMAIN t : t[i].wake_system}
<1>1. /\ call.cmd = "waketimers" /\ verbose \in BOOLEAN /\ IsSequence(t)
      /\ \A i \in 1..Len(t) : t[i].wake_system \in BOOLEAN
      /\ s.timers # None => s.timers = Some(t)
  BY WakeTimersCall
<1>2. out = PrintWakeTimers(r, verbose)
  BY <1>1 DEF Text, Build
<1>3. DOMAIN t = 1..Len(t) /\ Len(t) \in Nat
  BY <1>1, SequenceIs
<1>4. Kept(r.wake_timers, t, D)
  <2> DEFINE ss == [i \in DOMAIN t |-> Only(t[i].wake_system, <<t[i]>>)]
  <2>1. r.wake_timers = FlattenSeq(ss)
    BY DEF BuildWakeTimers, Keep, FlatMap, Map
  <2>2. DOMAIN ss = 1..Len(t) /\ ss = [i \in 1..Len(t) |-> ss[i]]
    BY <1>3
  <2>3. \A i \in 1..Len(t) : ss[i] = IF i \in D THEN <<t[i]>> ELSE <<>>
    BY <1>3 DEF Only
  <2>4. \A d \in D : d \in 1..Len(t)
    BY <1>3
  <2> HIDE DEF ss, D
  <2>5. IsSequence(ss) /\ Len(ss) = Len(t)
    BY <1>3, <2>2, Sequences
  <2> QED BY <2>1, <2>3, <2>4, <2>5, KeptIs
<1>5. /\ IsSequence(r.wake_timers) /\ Len(r.wake_timers) = Cardinality(D)
      /\ (r.wake_timers = <<>> <=> D = {}) /\ IsFiniteSet(D)
  <2> HIDE DEF D, r
  <2> QED BY <1>4, KeptLength
<1>6. /\ r.all_timers = IF verbose THEN s.timers ELSE None
      /\ s.timers = None => t = <<>>
  BY DEF BuildWakeTimers, OrEmpty
<1>7. /\ WakeTimersReport(r)
      /\ verbose /\ s.timers # None => r.all_timers # None /\ r.all_timers[1] = t
  <2> HIDE DEF r, t
  <2> QED BY <1>1, <1>5, <1>6 DEF WakeTimersReport, Some, None
<1> HIDE DEF r, D, s, verbose, t
<1>8. /\ Says(out, "timer", Cardinality(D))
      /\ \E n \in Nat : Says(out, "row", n)
      /\ verbose /\ s.timers # None =>
           LET n == IF Len(t) < TimersCap THEN Len(t) ELSE TimersCap
           IN  /\ Says(out, "row", n)
               /\ Len(t) > TimersCap => Has(out, <<"more", Len(t) - TimersCap>>)
      /\ D = {} => Has(out, <<"no timers will wake">>) /\ Has(out, <<"no wake timers">>)
      /\ D # {} => Has(out, <<"wake timers", Cardinality(D)>>)
  <2>1. TimersCap \in Nat
    BY CapsAssumption
  <2> QED BY <1>1, <1>2, <1>5, <1>7, <2>1, WakeTimersPrinted
<1>9. Cardinality(D) = 0 <=> D = {}
  BY <1>5, FS_EmptySet
<1>10. IsSequence(out)
  BY <1>8 DEF Says
<1>11. /\ Count("timer") = Cardinality(D)
       /\ \A line : Printed(line) <=> Has(out, line)
       /\ Count("row") = Number(out, "row")
  BY <1>8, <1>10, CountIs DEF Says
<1>12. verbose /\ Count("row") < Len(t) => Printed(<<"more", Len(t) - Count("row")>>)
  <2> SUFFICES ASSUME verbose, Count("row") < Len(t)
               PROVE  Printed(<<"more", Len(t) - Count("row")>>)
    OBVIOUS
  <2>0. s.timers # None
    <3>1. PICK n \in Nat : Number(out, "row") = n
      BY <1>8 DEF Says
    <3>2. t # <<>>
      BY <1>11, <3>1
    <3> QED BY <1>6, <3>2
  <2>1. Count("row") = IF Len(t) < TimersCap THEN Len(t) ELSE TimersCap
    BY <1>8, <1>11, <2>0 DEF Says
  <2>2. Count("row") = TimersCap /\ Len(t) > TimersCap
    BY <1>3, <2>1, CapsAssumption
  <2> QED BY <1>8, <1>11, <2>0, <2>2
<1>13. IF Cardinality(D) = 0 THEN Printed(<<"no wake timers">>) /\ Printed(<<"no timers will wake">>)
       ELSE Printed(<<"wake timers", Cardinality(D)>>) /\ Count("timer") = Cardinality(D)
  BY <1>8, <1>9, <1>11
<1>14. WakeTimersVerdict(s)
  BY <1>12, <1>13 DEF WakeTimersVerdict, D, verbose, t
<1> QED BY <1>10, <1>14 DEF s

-----------------------------------------------------------------------------
(* The report of requests.                                                 *)

\* A section that says so if there is nothing in it.
LEMMA SaysOrNone ==
  ASSUME NEW s, IsSequence(s), NEW t, NEW h, h # "none",
         DOMAIN t = DOMAIN s, t = [i \in DOMAIN s |-> t[i]],
         \A i \in DOMAIN s : t[i][1] = h
  PROVE  \A k : Says(OrNone(t), k, IF k = h THEN Len(s)
                                   ELSE IF k = "none" /\ s = <<>> THEN 1 ELSE 0)
<1> SUFFICES ASSUME NEW k
             PROVE  Says(OrNone(t), k, IF k = h THEN Len(s)
                                       ELSE IF k = "none" /\ s = <<>> THEN 1 ELSE 0)
  OBVIOUS
<1>1. /\ IsSequence(t) /\ Len(t) = Len(s)
      /\ Says(t, k, IF k = h THEN Len(s) ELSE 0)
  BY SaysMapped
<1>2. t = <<>> <=> s = <<>>
  BY <1>1 DEF IsSequence
<1>3. CASE t = <<>>
  <2>1. Says(<< <<"none">> >>, k, IF k = "none" THEN 1 ELSE 0)
    BY SaysOne
  <2>2. s = <<>> /\ Len(s) = 0
    BY <1>2, <1>3
  <2> QED BY <1>3, <2>1, <2>2 DEF OrNone
<1>4. CASE t # <<>>
  BY <1>1, <1>2, <1>4 DEF OrNone
<1> QED BY <1>3, <1>4

\* What is in the report.
RequestsReport(r) ==
  /\ IsSequence(r.inhibitors) /\ IsSequence(r.wake_locks)
  /\ IsSequence(r.audio_streams) /\ IsSequence(r.vms)
  /\ r.usb_wakeup # None => IsSequence(r.usb_wakeup[1])

\* The inhibitors that are shown.
ShownIn(inhibitors) == {i \in DOMAIN inhibitors : inhibitors[i].what \in {"sleep", "idle"}}

RequestsKinds == {"process", "lock", "stream", "vm", "none"}

\* The inhibitors' section has a line for each that is shown.
LEMMA InhibitorsPrinted ==
  ASSUME NEW s, IsSequence(s), NEW k \in RequestsKinds
  PROVE  Says(IF s = <<>> THEN << <<"none">> >> ELSE FlatMap(InhibitorLines, s), k,
              IF k = "process" THEN Cardinality(ShownIn(s))
              ELSE IF k = "none" /\ s = <<>> THEN 1 ELSE 0)
<1> DEFINE D == ShownIn(s)
           ss == [i \in DOMAIN s |-> InhibitorLines(s[i])]
<1>1. DOMAIN s = 1..Len(s) /\ Len(s) \in Nat
  BY SequenceIs
<1>2. IsFiniteSet(D) /\ Cardinality(D) \in Nat /\ \A d \in D : d \in 1..Len(s)
  <2>1. IsFiniteSet(1..Len(s)) /\ D \in SUBSET (1..Len(s))
    BY <1>1, UptoNumber DEF ShownIn
  <2> HIDE DEF D
  <2> QED BY <2>1, FS_Subset, FS_CardinalityType
<1>3. FlatMap(InhibitorLines, s) = FlattenSeq(ss)
  BY DEF FlatMap, Map
<1>4. IsSequence(ss) /\ Len(ss) = Len(s)
  <2>1. DOMAIN ss = 1..Len(s) /\ ss = [i \in 1..Len(s) |-> ss[i]]
    BY <1>1
  <2> HIDE DEF ss
  <2> QED BY <1>1, <2>1, Sequences
<1>5. \A i \in 1..Len(s) : Says(ss[i], k, IF k = "process" /\ i \in D THEN 1 ELSE 0)
  <2> SUFFICES ASSUME NEW i \in 1..Len(s)
               PROVE  Says(ss[i], k, IF k = "process" /\ i \in D THEN 1 ELSE 0)
    OBVIOUS
  <2>1. ss[i] = Only(i \in D, << <<"process", s[i].comm, s[i].what>> >>)
    BY <1>1 DEF InhibitorLines, Only, ShownIn
  <2>2. Says(<< <<"process", s[i].comm, s[i].what>> >>, k, IF k = "process" THEN 1 ELSE 0)
    <3>1. <<"process", s[i].comm, s[i].what>>[1] = "process"
      OBVIOUS
    <3> QED BY <3>1, SaysOne
  <2> HIDE DEF ss, D
  <2> QED BY <2>1, <2>2, SaysNothing DEF Only
<1> HIDE DEF ss, D
<1>6. \A i \in 1..Len(ss) : IsSequence(ss[i])
  BY <1>4, <1>5 DEF Says
<1>7. Says(FlattenSeq(ss), k, IF k = "process" THEN Cardinality(D) ELSE 0)
  <2>1. IsSequence(FlattenSeq(ss))
    BY <1>4, <1>6, FlattenSequence
  <2>2. CASE k = "process"
    <3>1. \A i \in 1..Len(ss) : IsSequence(ss[i]) /\ Number(ss[i], k) = IF i \in D THEN 1 ELSE 0
      BY <1>4, <1>5, <2>2 DEF Says
    <3>2. Number(FlattenSeq(ss), k) = Cardinality(D)
      BY <1>2, <1>4, <3>1, FlattenNumber
    <3> QED BY <1>2, <2>1, <2>2, <3>2 DEF Says
  <2>3. CASE k # "process"
    <3> DEFINE N == {}
    <3>1. \A i \in 1..Len(ss) : IsSequence(ss[i]) /\ Number(ss[i], k) = IF i \in N THEN 1 ELSE 0
      BY <1>4, <1>5, <2>3 DEF Says
    <3>2. \A d \in N : d \in 1..Len(ss)
      OBVIOUS
    <3>3. Cardinality(N) = 0
      BY FS_EmptySet
    <3> HIDE DEF N
    <3>4. Number(FlattenSeq(ss), k) = Cardinality(N)
      BY <1>4, <3>1, <3>2, FlattenNumber
    <3> QED BY <2>1, <2>3, <3>3, <3>4 DEF Says
  <2> QED BY <2>2, <2>3
<1>8. CASE s = <<>>
  <2>1. D = {} /\ Cardinality(D) = 0
    <3>1. DOMAIN s = {}
      BY <1>1, <1>8
    <3>2. D = {}
      BY <3>1 DEF D, ShownIn
    <3> QED BY <3>2, FS_EmptySet
  <2>2. <<"none">>[1] = "none"
    OBVIOUS
  <2>3. Says(<< <<"none">> >>, k, IF k = "none" THEN 1 ELSE 0)
    BY <2>2, SaysOne
  <2> QED BY <1>8, <2>1, <2>3 DEF D
<1>9. CASE s # <<>>
  BY <1>3, <1>7, <1>9 DEF D
<1> QED BY <1>8, <1>9

\* The lines of the report of requests, and its summary.
LEMMA RequestsPrinted ==
  ASSUME NEW r, RequestsReport(r), NEW verbose \in BOOLEAN
  PROVE  /\ Says(PrintRequests(r, verbose), "process", Cardinality(ShownIn(r.inhibitors)))
         /\ Says(PrintRequests(r, verbose), "lock", Len(r.wake_locks))
         /\ Says(PrintRequests(r, verbose), "stream", Len(r.audio_streams))
         /\ Says(PrintRequests(r, verbose), "vm", Len(r.vms))
         /\ r.inhibitors = <<>> /\ r.wake_locks = <<>> /\ r.audio_streams = <<>> /\ r.vms = <<>> =>
              \E n \in Nat : n >= 4 /\ Says(PrintRequests(r, verbose), "none", n)
         /\ Has(PrintRequests(r, verbose), Summary(r))
<1> DEFINE usb == IF r.usb_wakeup = None THEN <<>> ELSE r.usb_wakeup[1]
           I == IF r.inhibitors = <<>> THEN << <<"none">> >> ELSE FlatMap(InhibitorLines, r.inhibitors)
           L == Map(LAMBDA l : <<"lock", l>>, r.wake_locks)
           A == Map(LAMBDA s : <<"stream", FormatAudioClient(s)>>, r.audio_streams)
           V == Map(LAMBDA c : <<"vm", VmLabel(c)>>, r.vms)
           U == IF r.usb_wakeup = None THEN <<>>
                ELSE Map(LAMBDA d : <<"usb device", d>>, r.usb_wakeup[1])
           SI == Section("system inhibitors", I)
           SL == Section("kernel wake locks", OrNone(L))
           SA == Section("audio streams", OrNone(A))
           SV == Section("virtual machines", OrNone(V))
           SU == Only(verbose, Section("usb wakeup devices", OrNone(U)))
           P == SI \o SL \o SA \o SV \o SU \o Rule \o <<Summary(r)>>
<1>1. PrintRequests(r, verbose) = P
  BY DEF PrintRequests
<1>2. /\ IsSequence(r.inhibitors) /\ IsSequence(r.wake_locks)
      /\ IsSequence(r.audio_streams) /\ IsSequence(r.vms) /\ IsSequence(usb)
  BY Singles DEF RequestsReport
<1>3. \A k : /\ Says(OrNone(L), k, IF k = "lock" THEN Len(r.wake_locks)
                                   ELSE IF k = "none" /\ r.wake_locks = <<>> THEN 1 ELSE 0)
             /\ Says(OrNone(A), k, IF k = "stream" THEN Len(r.audio_streams)
                                   ELSE IF k = "none" /\ r.audio_streams = <<>> THEN 1 ELSE 0)
             /\ Says(OrNone(V), k, IF k = "vm" THEN Len(r.vms)
                                   ELSE IF k = "none" /\ r.vms = <<>> THEN 1 ELSE 0)
             /\ Says(OrNone(U), k, IF k = "usb device" THEN Len(usb)
                                   ELSE IF k = "none" /\ usb = <<>> THEN 1 ELSE 0)
  <2>1. /\ DOMAIN L = DOMAIN r.wake_locks /\ L = [i \in DOMAIN r.wake_locks |-> L[i]]
        /\ \A i \in DOMAIN r.wake_locks : L[i][1] = "lock"
    BY DEF Map
  <2>2. /\ DOMAIN A = DOMAIN r.audio_streams /\ A = [i \in DOMAIN r.audio_streams |-> A[i]]
        /\ \A i \in DOMAIN r.audio_streams : A[i][1] = "stream"
    BY DEF Map
  <2>3. /\ DOMAIN V = DOMAIN r.vms /\ V = [i \in DOMAIN r.vms |-> V[i]]
        /\ \A i \in DOMAIN r.vms : V[i][1] = "vm"
    BY DEF Map
  <2>4. /\ DOMAIN U = DOMAIN usb /\ U = [i \in DOMAIN usb |-> U[i]]
        /\ \A i \in DOMAIN usb : U[i][1] = "usb device"
    <3>1. CASE r.usb_wakeup = None
      <4>1. U = <<>> /\ usb = <<>>
        BY <3>1
      <4>2. DOMAIN <<>> = {}
        OBVIOUS
      <4> HIDE DEF U, usb
      <4> QED BY <4>1, <4>2
    <3>2. CASE r.usb_wakeup # None
      BY <3>2 DEF Map
    <3> QED BY <3>1, <3>2
  <2> HIDE DEF L, A, V, U, usb
  <2>5. "lock" # "none" /\ "stream" # "none" /\ "vm" # "none" /\ "usb device" # "none"
    OBVIOUS
  <2>6. \A k : Says(OrNone(L), k, IF k = "lock" THEN Len(r.wake_locks)
                                  ELSE IF k = "none" /\ r.wake_locks = <<>> THEN 1 ELSE 0)
    BY <1>2, <2>1, <2>5, SaysOrNone
  <2>7. \A k : Says(OrNone(A), k, IF k = "stream" THEN Len(r.audio_streams)
                                  ELSE IF k = "none" /\ r.audio_streams = <<>> THEN 1 ELSE 0)
    BY <1>2, <2>2, <2>5, SaysOrNone
  <2>8. \A k : Says(OrNone(V), k, IF k = "vm" THEN Len(r.vms)
                                  ELSE IF k = "none" /\ r.vms = <<>> THEN 1 ELSE 0)
    BY <1>2, <2>3, <2>5, SaysOrNone
  <2>9. \A k : Says(OrNone(U), k, IF k = "usb device" THEN Len(usb)
                                  ELSE IF k = "none" /\ usb = <<>> THEN 1 ELSE 0)
    BY <1>2, <2>4, <2>5, SaysOrNone
  <2> QED BY <2>6, <2>7, <2>8, <2>9
<1>4. \A k \in RequestsKinds :
        Says(I, k, IF k = "process" THEN Cardinality(ShownIn(r.inhibitors))
                   ELSE IF k = "none" /\ r.inhibitors = <<>> THEN 1 ELSE 0)
  BY <1>2, InhibitorsPrinted
<1> HIDE DEF I, L, A, V, U, usb
<1>5. \A k \in RequestsKinds : \E n \in Nat : Says(SU, k, n) /\ (k # "none" => n = 0)
  <2> SUFFICES ASSUME NEW k \in RequestsKinds
               PROVE  \E n \in Nat : Says(SU, k, n) /\ (k # "none" => n = 0)
    OBVIOUS
  <2>1. k # "section" /\ k # "usb device"
    BY DEF RequestsKinds
  <2>2. PICK n \in Nat : n = IF k = "none" /\ usb = <<>> THEN 1 ELSE 0
    OBVIOUS
  <2>3. Says(OrNone(U), k, n)
    <3>1. Says(OrNone(U), k, IF k = "usb device" THEN Len(usb)
                             ELSE IF k = "none" /\ usb = <<>> THEN 1 ELSE 0)
      BY <1>3
    <3> QED BY <2>1, <2>2, <3>1
  <2>4. Says(Section("usb wakeup devices", OrNone(U)), k, n)
    BY <2>1, <2>3, SaysSection
  <2> QED BY <2>2, <2>4, SaysNothing DEF Only
<1>6. \A k \in RequestsKinds : Says(Rule, k, 0) /\ Says(<<Summary(r)>>, k, 0)
  <2> SUFFICES ASSUME NEW k \in RequestsKinds
               PROVE  Says(Rule, k, 0) /\ Says(<<Summary(r)>>, k, 0)
    OBVIOUS
  <2>1. <<"rule">>[1] # k
    BY DEF RequestsKinds
  <2>2. Summary(r)[1] # k
    <3>1. Summary(r)[1] \in {"blockers", "no blockers"}
      BY DEF Summary
    <3> HIDE DEF Summary
    <3> QED BY <3>1 DEF RequestsKinds
  <2> QED BY <2>1, <2>2, SaysOne DEF Rule
<1>7. ASSUME NEW k \in RequestsKinds, NEW a \in Nat, NEW b \in Nat, NEW c \in Nat, NEW d \in Nat,
             Says(I, k, a), Says(OrNone(L), k, b), Says(OrNone(A), k, c), Says(OrNone(V), k, d)
      PROVE  \E n \in Nat : Says(P, k, a + b + c + d + n) /\ (k # "none" => n = 0)
  <2>1. k # "section"
    BY DEF RequestsKinds
  <2>2. Says(SI, k, a) /\ Says(SL, k, b) /\ Says(SA, k, c) /\ Says(SV, k, d)
    BY <1>7, <2>1, SaysSection
  <2>3. PICK n \in Nat : Says(SU, k, n) /\ (k # "none" => n = 0)
    BY <1>5
  <2>4. Says(Rule, k, 0) /\ Says(<<Summary(r)>>, k, 0)
    BY <1>6
  <2> HIDE DEF SI, SL, SA, SV, SU
  <2>5. Says(P, k, a + b + c + d + n + 0 + 0)
    BY <2>2, <2>3, <2>4, SaysJoined
  <2>6. a + b + c + d + n + 0 + 0 = a + b + c + d + n
    OBVIOUS
  <2> QED BY <2>3, <2>5, <2>6
<1>8. Has(P, Summary(r))
  <2>1. "lock" \in RequestsKinds /\ "lock" # "section"
    BY DEF RequestsKinds
  <2>2. IsSequence(I) /\ IsSequence(OrNone(L)) /\ IsSequence(OrNone(A)) /\ IsSequence(OrNone(V))
    BY <1>3, <1>4, <2>1 DEF Says
  <2>3. IsSequence(SU) /\ IsSequence(Rule) /\ IsSequence(<<Summary(r)>>)
    BY <1>5, <1>6, <2>1 DEF Says
  <2>4. \A title : IsSequence(<< <<"section", title>> >>)
    BY Singles
  <2>5. IsSequence(SI) /\ IsSequence(SL) /\ IsSequence(SA) /\ IsSequence(SV)
    BY <2>2, <2>4, Joined DEF Section
  <2> HIDE DEF SI, SL, SA, SV, SU
  <2>6. IsSequence(SI \o SL \o SA \o SV \o SU \o Rule)
    BY <2>3, <2>5, Joined
  <2> QED BY <2>3, <2>6, HasOne, JoinedHas
<1> HIDE DEF P
<1>9. Len(r.wake_locks) \in Nat /\ Len(r.audio_streams) \in Nat /\ Len(r.vms) \in Nat
  BY <1>2, SequenceIs
<1>10. Says(P, "process", Cardinality(ShownIn(r.inhibitors)))
  <2>1. "process" \in RequestsKinds
    BY DEF RequestsKinds
  <2>2. PICK a \in Nat : a = Cardinality(ShownIn(r.inhibitors)) /\ Says(I, "process", a)
    BY <1>4, <2>1 DEF Says
  <2>3. Says(OrNone(L), "process", 0) /\ Says(OrNone(A), "process", 0) /\ Says(OrNone(V), "process", 0)
    BY <1>3
  <2>4. \E n \in Nat : Says(P, "process", a + 0 + 0 + 0 + n) /\ ("process" # "none" => n = 0)
    BY <1>7, <2>1, <2>2, <2>3
  <2>5. a + 0 + 0 + 0 + 0 = a
    OBVIOUS
  <2> QED BY <2>2, <2>4, <2>5
<1>11. Says(P, "lock", Len(r.wake_locks))
  <2>1. "lock" \in RequestsKinds
    BY DEF RequestsKinds
  <2>2. PICK b \in Nat : b = Len(r.wake_locks) /\ Says(OrNone(L), "lock", b)
    BY <1>3, <1>9
  <2>3. Says(I, "lock", 0) /\ Says(OrNone(A), "lock", 0) /\ Says(OrNone(V), "lock", 0)
    BY <1>3, <1>4, <2>1
  <2>4. \E n \in Nat : Says(P, "lock", 0 + b + 0 + 0 + n) /\ ("lock" # "none" => n = 0)
    BY <1>7, <2>1, <2>2, <2>3
  <2>5. 0 + b + 0 + 0 + 0 = b
    OBVIOUS
  <2> QED BY <2>2, <2>4, <2>5
<1>12. Says(P, "stream", Len(r.audio_streams))
  <2>1. "stream" \in RequestsKinds
    BY DEF RequestsKinds
  <2>2. PICK c \in Nat : c = Len(r.audio_streams) /\ Says(OrNone(A), "stream", c)
    BY <1>3, <1>9
  <2>3. Says(I, "stream", 0) /\ Says(OrNone(L), "stream", 0) /\ Says(OrNone(V), "stream", 0)
    BY <1>3, <1>4, <2>1
  <2>4. \E n \in Nat : Says(P, "stream", 0 + 0 + c + 0 + n) /\ ("stream" # "none" => n = 0)
    BY <1>7, <2>1, <2>2, <2>3
  <2>5. 0 + 0 + c + 0 + 0 = c
    OBVIOUS
  <2> QED BY <2>2, <2>4, <2>5
<1>13. Says(P, "vm", Len(r.vms))
  <2>1. "vm" \in RequestsKinds
    BY DEF RequestsKinds
  <2>2. PICK d \in Nat : d = Len(r.vms) /\ Says(OrNone(V), "vm", d)
    BY <1>3, <1>9
  <2>3. Says(I, "vm", 0) /\ Says(OrNone(L), "vm", 0) /\ Says(OrNone(A), "vm", 0)
    BY <1>3, <1>4, <2>1
  <2>4. \E n \in Nat : Says(P, "vm", 0 + 0 + 0 + d + n) /\ ("vm" # "none" => n = 0)
    BY <1>7, <2>1, <2>2, <2>3
  <2>5. 0 + 0 + 0 + d + 0 = d
    OBVIOUS
  <2> QED BY <2>2, <2>4, <2>5
<1>14. ASSUME r.inhibitors = <<>>, r.wake_locks = <<>>, r.audio_streams = <<>>, r.vms = <<>>
       PROVE  \E n \in Nat : n >= 4 /\ Says(P, "none", n)
  <2>1. "none" \in RequestsKinds
    BY DEF RequestsKinds
  <2>2. Says(OrNone(L), "none", 1) /\ Says(OrNone(A), "none", 1) /\ Says(OrNone(V), "none", 1)
    BY <1>3, <1>14
  <2>3. Says(I, "none", 1)
    <3>1. Says(I, "none", IF "none" = "process" THEN Cardinality(ShownIn(r.inhibitors))
                          ELSE IF "none" = "none" /\ r.inhibitors = <<>> THEN 1 ELSE 0)
      BY <1>4, <2>1
    <3> QED BY <1>14, <3>1
  <2>4. PICK n \in Nat : Says(P, "none", 1 + 1 + 1 + 1 + n)
    BY <1>7, <2>1, <2>2, <2>3
  <2>5. 1 + 1 + 1 + 1 + n \in Nat /\ 1 + 1 + 1 + 1 + n >= 4
    OBVIOUS
  <2> QED BY <2>4, <2>5
<1> QED BY <1>1, <1>8, <1>10, <1>11, <1>12, <1>13, <1>14

\* A call of requests.
LEMMA RequestsCall ==
  ASSUME NEW c \in RequestsCalls
  PROVE  /\ c.cmd = "requests" /\ c.format \in Formats /\ c.flags.verbose \in BOOLEAN
         /\ c.sources \in [inhibitors : {c.sources.inhibitors}, wake_locks : {c.sources.wake_locks},
                           audio_streams : {c.sources.audio_streams}, vms : {c.sources.vms},
                           usb_wakeup : {c.sources.usb_wakeup}]
         /\ RequestsReport(c.sources)
<1> DEFINE I == [comm : {"app"}, what : {"sleep", "shutdown"}]
           L == {<<>>, <<"lock">>}
           A == {<<>>} \union {<<Client(n, b, p)>> : n \in {None, Some("n")}, b \in {None, Some("b")},
                                                     p \in {None, Some("p")}}
           V == {<<>>, <<"qemu", "VBoxHeadless", "other">>}
           U == {None, Some(<<>>), Some(<<"1-1">>)}
           S == [inhibitors : SeqOf(I, 2), wake_locks : L, audio_streams : A, vms : V, usb_wakeup : U]
<1>1. c \in Calls("requests", Verbosely, S)
  BY DEF RequestsCalls
<1> HIDE DEF S
<1>2. c.cmd = "requests" /\ c.format \in Formats /\ c.flags \in Verbosely /\ c.sources \in S
  BY <1>1, CallIs
<1>3. c.flags.verbose \in BOOLEAN
  BY <1>2 DEF Verbosely
<1>4. /\ c.sources.inhibitors \in SeqOf(I, 2) /\ c.sources.wake_locks \in L
      /\ c.sources.audio_streams \in A /\ c.sources.vms \in V /\ c.sources.usb_wakeup \in U
  <2> HIDE DEF I, L, A, V, U
  <2> QED BY <1>2 DEF S
<1>5. c.sources \in [inhibitors : {c.sources.inhibitors}, wake_locks : {c.sources.wake_locks},
                     audio_streams : {c.sources.audio_streams}, vms : {c.sources.vms},
                     usb_wakeup : {c.sources.usb_wakeup}]
  <2> HIDE DEF I, L, A, V, U
  <2> QED BY <1>2 DEF S
<1>6. IsSequence(c.sources.inhibitors)
  <2> HIDE DEF I
  <2> QED BY <1>4, Bounded
<1>7. IsSequence(c.sources.wake_locks)
  BY <1>4, Singles
<1>8. IsSequence(c.sources.audio_streams)
  <2>1. \A a \in A : a = <<>> \/ \E x : a = <<x>>
    OBVIOUS
  <2> HIDE DEF A
  <2> QED BY <1>4, <2>1, Singles
<1>9. IsSequence(c.sources.vms)
  <2>1. <<"qemu", "VBoxHeadless", "other">> \in Seq({"qemu", "VBoxHeadless", "other"})
    OBVIOUS
  <2>2. IsSequence(<<"qemu", "VBoxHeadless", "other">>)
    BY <2>1 DEF IsSequence
  <2>3. IsSequence(<<>>)
    BY Singles
  <2> QED BY <1>4, <2>2, <2>3
<1>10. c.sources.usb_wakeup # None => IsSequence(c.sources.usb_wakeup[1])
  <2>1. \A u \in U : u = None \/ u[1] = <<>> \/ u[1] = <<"1-1">>
    BY DEF Some
  <2>2. IsSequence(<<>>) /\ IsSequence(<<"1-1">>)
    BY Singles
  <2> HIDE DEF U
  <2>3. \A u \in U : u # None => IsSequence(u[1])
    BY <2>1, <2>2
  <2> QED BY <1>4, <2>3
<1> QED BY <1>2, <1>3, <1>5, <1>6, <1>7, <1>8, <1>9, <1>10 DEF RequestsReport

\* What the report of requests says is what blocks sleep.
LEMMA RequestsAgree ==
  ASSUME call \in RequestsCalls, out = Text(call, Build(call))
  PROVE  IsSequence(out) /\ RequestsVerdict(call.sources)
<1> DEFINE s == call.sources
           verbose == call.flags.verbose
           r == BuildRequests(s, verbose)
           hidden == {i \in DOMAIN s.inhibitors : s.inhibitors[i].what \notin {"sleep", "idle"}}
           shown == ShownIn(s.inhibitors)
<1>1. /\ call.cmd = "requests" /\ verbose \in BOOLEAN /\ RequestsReport(s)
      /\ s \in [inhibitors : {s.inhibitors}, wake_locks : {s.wake_locks},
                audio_streams : {s.audio_streams}, vms : {s.vms}, usb_wakeup : {s.usb_wakeup}]
  BY RequestsCall
<1>2. out = PrintRequests(r, verbose)
  BY <1>1 DEF Text, Build
<1>3. /\ r.inhibitors = s.inhibitors /\ r.wake_locks = s.wake_locks
      /\ r.audio_streams = s.audio_streams /\ r.vms = s.vms
      /\ r.usb_wakeup = IF verbose THEN s.usb_wakeup ELSE None
  <2> HIDE DEF s, verbose
  <2> QED BY <1>1 DEF BuildRequests
<1>4. RequestsReport(r)
  <2> HIDE DEF r, s, verbose
  <2> QED BY <1>1, <1>3 DEF RequestsReport
<1> HIDE DEF r, s, verbose
<1>5. /\ IsSequence(s.inhibitors) /\ IsSequence(s.wake_locks)
      /\ IsSequence(s.audio_streams) /\ IsSequence(s.vms)
  BY <1>1 DEF RequestsReport
<1>6. /\ Says(out, "process", Cardinality(shown)) /\ Says(out, "lock", Len(s.wake_locks))
      /\ Says(out, "stream", Len(s.audio_streams)) /\ Says(out, "vm", Len(s.vms))
      /\ s.inhibitors = <<>> /\ s.wake_locks = <<>> /\ s.audio_streams = <<>> /\ s.vms = <<>> =>
           \E n \in Nat : n >= 4 /\ Says(out, "none", n)
      /\ Has(out, Summary(r))
  BY <1>1, <1>2, <1>3, <1>4, RequestsPrinted
<1>7. IsSequence(out)
  BY <1>6 DEF Says
<1>8. /\ Count("process") = Cardinality(shown) /\ Count("lock") = Len(s.wake_locks)
      /\ Count("stream") = Len(s.audio_streams) /\ Count("vm") = Len(s.vms)
  BY <1>6, <1>7, CountIs DEF Says
<1>9. Printed(Summary(r))
  BY <1>6, <1>7, CountIs
<1>10. /\ Len(s.inhibitors) \in Nat /\ Len(s.wake_locks) \in Nat
       /\ Len(s.audio_streams) \in Nat /\ Len(s.vms) \in Nat
       /\ DOMAIN s.inhibitors = 1..Len(s.inhibitors)
  BY <1>5, SequenceIs
<1>11. Cardinality(shown) + Cardinality(hidden) = Len(s.inhibitors)
       /\ Cardinality(shown) \in Nat /\ Cardinality(hidden) \in Nat
  <2>1. /\ shown \cup hidden = 1..Len(s.inhibitors) /\ shown \cap hidden = {}
        /\ shown \in SUBSET (1..Len(s.inhibitors)) /\ hidden \in SUBSET (1..Len(s.inhibitors))
    BY <1>10 DEF ShownIn
  <2>2. IsFiniteSet(1..Len(s.inhibitors)) /\ Cardinality(1..Len(s.inhibitors)) = Len(s.inhibitors)
    BY <1>10, UptoNumber
  <2> HIDE DEF shown, hidden
  <2>3. IsFiniteSet(shown) /\ IsFiniteSet(hidden)
    BY <2>1, <2>2, FS_Subset
  <2>4. Cardinality(shown) \in Nat /\ Cardinality(hidden) \in Nat
    BY <2>3, FS_CardinalityType
  <2>5. Cardinality(shown \cup hidden) = Cardinality(shown) + Cardinality(hidden) - Cardinality(shown \cap hidden)
    BY <2>3, FS_Union
  <2>6. Cardinality({}) = 0
    BY FS_EmptySet
  <2>7. PICK x \in Nat, y \in Nat : x = Cardinality(shown) /\ y = Cardinality(hidden)
    BY <2>4
  <2>8. Len(s.inhibitors) = x + y - 0
    BY <2>1, <2>2, <2>5, <2>6, <2>7
  <2> QED BY <2>7, <2>8
<1> HIDE DEF shown, hidden
<1>12. PICK a \in Nat, b \in Nat, c \in Nat, d \in Nat :
         a = Len(s.inhibitors) /\ b = Len(s.wake_locks) /\ c = Len(s.audio_streams) /\ d = Len(s.vms)
  BY <1>10
<1>13. Count("process") + Cardinality(hidden) + Count("lock") + Count("stream") + Count("vm")
       = a + b + c + d
  BY <1>8, <1>11, <1>12
<1>14. Summary(r) = IF a + b + c + d > 0 THEN <<"blockers", a + b + c + d>> ELSE <<"no blockers">>
  BY <1>3, <1>12 DEF Summary
<1>15. s.inhibitors \o s.wake_locks \o s.audio_streams \o s.vms = <<>> <=> a + b + c + d = 0
  <2>1. /\ IsSequence(s.inhibitors \o s.wake_locks)
        /\ Len(s.inhibitors \o s.wake_locks) = a + b
    BY <1>5, <1>12, Joined
  <2>2. /\ IsSequence(s.inhibitors \o s.wake_locks \o s.audio_streams)
        /\ Len(s.inhibitors \o s.wake_locks \o s.audio_streams) = a + b + c
    BY <1>5, <1>12, <2>1, Joined
  <2>3. /\ IsSequence(s.inhibitors \o s.wake_locks \o s.audio_streams \o s.vms)
        /\ Len(s.inhibitors \o s.wake_locks \o s.audio_streams \o s.vms) = a + b + c + d
    BY <1>5, <1>12, <2>2, Joined
  <2> QED BY <2>3, Nothing
<1>16. CASE a + b + c + d = 0
  <2>1. a = 0 /\ b = 0 /\ c = 0 /\ d = 0
    BY <1>16
  <2>2. s.inhibitors = <<>> /\ s.wake_locks = <<>> /\ s.audio_streams = <<>> /\ s.vms = <<>>
    BY <1>5, <1>12, <2>1, Nothing
  <2>3. PICK n \in Nat : n >= 4 /\ Says(out, "none", n)
    BY <1>6, <2>2
  <2>4. Count("none") >= 4
    BY <1>7, <2>3, CountIs DEF Says
  <2>5. Printed(<<"no blockers">>)
    <3>1. ~(a + b + c + d > 0)
      BY <1>16
    <3> QED BY <1>9, <1>14, <3>1
  <2> QED BY <1>7, <1>15, <1>16, <2>4, <2>5 DEF RequestsVerdict, hidden, s
<1>17. CASE a + b + c + d # 0
  <2>1. a + b + c + d > 0
    BY <1>17
  <2>2. Printed(<<"blockers", a + b + c + d>>)
    BY <1>9, <1>14, <2>1
  <2>3. Printed(<<"blockers", Count("process") + Cardinality(hidden) + Count("lock")
                              + Count("stream") + Count("vm")>>)
    BY <1>13, <2>2
  <2> QED BY <1>7, <1>15, <1>17, <2>3 DEF RequestsVerdict, hidden, s
<1> QED BY <1>16, <1>17

-----------------------------------------------------------------------------
(* The report of devicequery.                                              *)

\* A set of numbers and the same set one up have the same size.
LEMMA Shifted ==
  ASSUME NEW n \in Nat, NEW D, \A d \in D : d \in 1..n, NEW E, \A e \in E : e \in Int,
         \A d \in D : d + 1 \in E, \A e \in E : e - 1 \in D
  PROVE  IsFiniteSet(D) /\ IsFiniteSet(E) /\ Cardinality(E) = Cardinality(D)
<1> DEFINE f == [d \in D |-> d + 1]
<1>1. IsFiniteSet(D)
  <2>1. IsFiniteSet(1..n) /\ D \in SUBSET (1..n)
    BY UptoNumber
  <2> QED BY <2>1, FS_Subset
<1>2. f \in [D -> E] /\ \A c, d \in D : f[c] = f[d] => c = d
  BY SMT
<1>3. \A e \in E : \E d \in D : f[d] = e
  <2> SUFFICES ASSUME NEW e \in E PROVE f[e - 1] = e /\ e - 1 \in D
    OBVIOUS
  <2> QED OBVIOUS
<1>4. f \in Bijection(D, E)
  <2> HIDE DEF f
  <2> QED BY <1>2, <1>3 DEF Bijection, Injection, Surjection, IsInjective
<1> QED BY <1>1, <1>4, FS_Bijection DEF ExistsBijection

\* What is left without the header.
LEMMA BodyIs ==
  ASSUME NEW s, IsSequence(s)
  PROVE  /\ IsSequence(Body(s)) /\ Len(Body(s)) = IF Len(s) = 0 THEN 0 ELSE Len(s) - 1
         /\ \A i \in 1..Len(Body(s)) : i + 1 \in 1..Len(s) /\ Body(s)[i] = s[i + 1]
<1>1. Len(s) \in Nat
  BY SequenceIs
<1>2. CASE s = <<>>
  BY <1>2, Singles DEF Body
<1>3. CASE s # <<>>
  <2>1. PICK S : s \in Seq(S)
    BY DEF IsSequence
  <2>2. Len(s) # 0
    BY <1>3, Nothing
  <2>3. Tail(s) \in Seq(S) /\ Len(Tail(s)) = Len(s) - 1
    BY <1>3, <2>1
  <2>4. \A i \in 1..(Len(s) - 1) : Tail(s)[i] = s[i + 1]
    BY <1>3, <2>1
  <2>5. Body(s) = Tail(s)
    BY <1>3 DEF Body
  <2> QED BY <1>1, <2>2, <2>3, <2>4, <2>5 DEF IsSequence
<1> QED BY <1>2, <1>3

\* A line of the table for a device, and those that can wake the machine.
UsableAcpi(text) == {i \in DOMAIN text : i > 1 /\ text[i].cols >= 3}
WakeAcpi(text) == {i \in UsableAcpi(text) : text[i].enabled}

\* The table, parsed: a device for each line that has the columns.
LEMMA AcpiParsed ==
  ASSUME NEW text, IsSequence(text)
  PROVE  LET devices == OrEmpty(ParseAcpiWakeup(text))
         IN  /\ IsSequence(devices) /\ Len(devices) = Cardinality(UsableAcpi(text))
             /\ Cardinality({j \in DOMAIN devices : devices[j].enabled}) = Cardinality(WakeAcpi(text))
             /\ UsableAcpi(text) # {} => ParseAcpiWakeup(text) # None
<1> DEFINE b == Body(text)
           D == {i \in DOMAIN b : b[i].cols >= 3}
           W == {i \in D : b[i].enabled}
           t == Keep(b, LAMBDA l : l.cols >= 3)
           F == {b[i] : i \in W}
           dev(l) == [device |-> l.device, enabled |-> l.enabled,
                      sysfs |-> IF l.cols > 3 THEN Some(l.pci) ELSE None]
           m == [j \in DOMAIN t |-> dev(t[j])]
<1>1. /\ IsSequence(b) /\ Len(b) \in Nat /\ DOMAIN b = 1..Len(b)
      /\ Len(b) = IF Len(text) = 0 THEN 0 ELSE Len(text) - 1
      /\ \A i \in 1..Len(b) : i + 1 \in 1..Len(text) /\ b[i] = text[i + 1]
      /\ Len(text) \in Nat /\ DOMAIN text = 1..Len(text)
  BY BodyIs, SequenceIs
<1> HIDE DEF b
<1>2. \A d \in D : d \in 1..Len(b) /\ d + 1 \in UsableAcpi(text)
  <2> SUFFICES ASSUME NEW d \in D PROVE d \in 1..Len(b) /\ d + 1 \in UsableAcpi(text)
    OBVIOUS
  <2>1. d \in 1..Len(b) /\ b[d].cols >= 3
    BY <1>1
  <2> HIDE DEF D
  <2>2. d + 1 \in DOMAIN text /\ b[d] = text[d + 1] /\ d + 1 > 1
    <3>1. d + 1 \in 1..Len(text) /\ b[d] = text[d + 1]
      BY <1>1, <2>1
    <3>2. d \in Nat /\ d >= 1
      <4>1. PICK l \in Nat : l = Len(b)
        BY <1>1
      <4>2. d \in 1..l
        BY <2>1, <4>1
      <4> QED BY <4>2
    <3>3. d + 1 > 1
      BY <3>2
    <3> QED BY <1>1, <3>1, <3>3
  <2> QED BY <2>1, <2>2 DEF UsableAcpi
<1>3. \A e \in UsableAcpi(text) : e \in Int /\ e - 1 \in D
  <2> SUFFICES ASSUME NEW e \in UsableAcpi(text) PROVE e \in Int /\ e - 1 \in D
    OBVIOUS
  <2>1. e \in 1..Len(text) /\ e > 1 /\ text[e].cols >= 3
    BY <1>1 DEF UsableAcpi
  <2>2. PICK k \in Nat : e = k + 1 /\ k \in 1..Len(b) /\ e - 1 = k
    <3>1. PICK n \in Nat : n = Len(text)
      BY <1>1
    <3>2. n # 0 /\ e \in 1..n /\ e > 1
      BY <2>1, <3>1
    <3>3. Len(b) = n - 1
      BY <1>1, <3>1, <3>2
    <3>4. e - 1 \in Nat /\ e = e - 1 + 1 /\ e - 1 \in 1..(n - 1)
      BY <3>2
    <3> QED BY <3>3, <3>4
  <2>3. b[k] = text[e] /\ k \in DOMAIN b
    BY <1>1, <2>2
  <2> QED BY <2>1, <2>2, <2>3
<1>4. IsFiniteSet(D) /\ Cardinality(UsableAcpi(text)) = Cardinality(D)
  <2> HIDE DEF D
  <2> QED BY <1>1, <1>2, <1>3, Shifted
<1>5. \A d \in W : d \in 1..Len(b) /\ d + 1 \in WakeAcpi(text)
  BY <1>1, <1>2 DEF WakeAcpi
<1>6. \A e \in WakeAcpi(text) : e \in Int /\ e - 1 \in W
  <2> SUFFICES ASSUME NEW e \in WakeAcpi(text) PROVE e \in Int /\ e - 1 \in W
    OBVIOUS
  <2>1. e \in UsableAcpi(text) /\ text[e].enabled
    BY DEF WakeAcpi
  <2>2. e \in Int /\ e - 1 \in D
    BY <1>3, <2>1
  <2>3. b[e - 1] = text[e - 1 + 1] /\ e - 1 + 1 = e
    <3>1. e - 1 \in 1..Len(b) /\ e - 1 + 1 = e
      BY <1>2, <2>2
    <3> HIDE DEF D, W
    <3> QED BY <1>1, <3>1
  <2> QED BY <2>1, <2>2, <2>3
<1>7. Cardinality(WakeAcpi(text)) = Cardinality(W)
  <2> HIDE DEF W
  <2> QED BY <1>1, <1>5, <1>6, Shifted
<1>8. Kept(t, b, D)
  <2> DEFINE ss == [i \in DOMAIN b |-> Only(b[i].cols >= 3, <<b[i]>>)]
  <2>1. t = FlattenSeq(ss)
    BY DEF Keep, FlatMap, Map
  <2>2. DOMAIN ss = 1..Len(b) /\ ss = [i \in 1..Len(b) |-> ss[i]]
    BY <1>1
  <2>3. \A i \in 1..Len(b) : ss[i] = IF i \in D THEN <<b[i]>> ELSE <<>>
    BY <1>1 DEF Only
  <2> HIDE DEF ss, D, t
  <2>4. IsSequence(ss) /\ Len(ss) = Len(b)
    BY <1>1, <2>2, Sequences
  <2>5. \A d \in D : d \in 1..Len(ss)
    BY <1>2, <2>4
  <2> QED BY <2>1, <2>3, <2>4, <2>5, KeptIs
<1>9. IsSequence(t) /\ Len(t) = Cardinality(D) /\ (t = <<>> <=> D = {})
  <2> HIDE DEF t, D
  <2> QED BY <1>8, KeptLength
<1>10. Cardinality(Within(1..Len(t), t, F)) = Cardinality(W)
  <2>1. Cardinality(Within(1..Len(t), t, F)) = Cardinality(Within(D, b, F))
    <3> HIDE DEF t, D, F
    <3> QED BY <1>8, KeptNumber
  <2>2. Within(D, b, F) = W
    <3>1. \A i \in D : b[i] \in F => b[i].enabled
      OBVIOUS
    <3>2. \A i \in W : b[i] \in F
      OBVIOUS
    <3> HIDE DEF F, D
    <3> QED BY <3>1, <3>2 DEF Within
  <2> QED BY <2>1, <2>2
<1>11. DOMAIN t = 1..Len(t) /\ Len(t) \in Nat
  <2> HIDE DEF t
  <2> QED BY <1>9, SequenceIs
<1>12. \A j \in 1..Len(t) : t[j] \in F <=> t[j].enabled
  <2>1. PICK h : Picks(t, b, D, h)
    <3> HIDE DEF t, D
    <3> QED BY <1>8 DEF Kept
  <2>2. \A j \in 1..Len(t) : h[j] \in D /\ t[j] = b[h[j]]
    <3> HIDE DEF t, D
    <3> QED BY <2>1 DEF Picks
  <2> HIDE DEF t, D
  <2> QED BY <2>2
<1>13. IsSequence(m) /\ Len(m) = Len(t)
  <2>1. DOMAIN m = 1..Len(t) /\ m = [j \in 1..Len(t) |-> m[j]]
    <3> HIDE DEF t
    <3> QED BY <1>11
  <2> HIDE DEF m, t
  <2> QED BY <1>11, <2>1, Sequences
<1>14. Cardinality({j \in DOMAIN m : m[j].enabled}) = Cardinality(W)
  <2>1. {j \in DOMAIN m : m[j].enabled} = Within(1..Len(t), t, F)
    <3> HIDE DEF t, F
    <3> QED BY <1>11, <1>12 DEF Within
  <2> QED BY <1>10, <2>1
<1>15. ParseAcpiWakeup(text) = IF t = <<>> /\ \E l \in Range(b) : ~(l.cols = 0) THEN None ELSE Some(m)
  BY DEF ParseAcpiWakeup, Map, b
<1> HIDE DEF m, t, D, W, F
<1>16. CASE ParseAcpiWakeup(text) = Some(m)
  <2>1. OrEmpty(ParseAcpiWakeup(text)) = m /\ Some(m) # None
    BY <1>16 DEF OrEmpty, Some, None
  <2> QED BY <1>4, <1>7, <1>9, <1>13, <1>14, <1>16, <2>1
<1>17. CASE ParseAcpiWakeup(text) = None /\ t = <<>>
  <2>1. OrEmpty(ParseAcpiWakeup(text)) = <<>>
    BY <1>17 DEF OrEmpty
  <2>2. D = {} /\ W = {} /\ UsableAcpi(text) = {}
    BY <1>3, <1>9, <1>17 DEF W
  <2>3. Cardinality({}) = 0 /\ {j \in DOMAIN <<>> : <<>>[j].enabled} = {}
    BY FS_EmptySet
  <2> QED BY <1>7, <2>1, <2>2, <2>3, Singles
<1> QED BY <1>15, <1>16, <1>17

\* Lines that do not say it change nothing.
LEMMA SaysMore ==
  ASSUME NEW s, NEW t, NEW k, NEW n \in Nat, Says(s, k, n), Says(t, k, 0)
  PROVE  Says(s \o t, k, n)
<1>1. Says(s \o t, k, n + 0)
  BY SaysJoined
<1>2. n + 0 = n
  OBVIOUS
<1> QED BY <1>1, <1>2

\* A device has one line, and maybe one for its wake count.
LEMMA DeviceLinesSay ==
  ASSUME NEW d, NEW verbose, NEW k \in {"device", "usb device"}
  PROVE  Says(DeviceLines(d, verbose), k, IF k = "device" THEN 1 ELSE 0)
<1> DEFINE sysfs == IF d.sysfs = None THEN None
                    ELSE IF d.sysfs[1].description = None THEN Some("address")
                    ELSE d.sysfs[1].description
           L == <<"device", d.device, d.enabled, sysfs>>
           W == <<"wake count", d.sysfs[1].wakeup_count>>
           C == Only(verbose /\ d.sysfs # None /\ d.sysfs[1].wakeup_count \notin {None, Some(0)}, <<W>>)
<1>1. DeviceLines(d, verbose) = <<L>> \o C
  BY DEF DeviceLines
<1>2. L[1] = "device" /\ W[1] # k
  OBVIOUS
<1> HIDE DEF L, W, sysfs
<1>3. Says(<<L>>, k, IF k = "device" THEN 1 ELSE 0)
  BY <1>2, SaysOne
<1>4. Says(<<W>>, k, 0)
  BY <1>2, SaysOne
<1>5. Says(C, k, 0)
  BY <1>4, SaysNothing DEF Only
<1> HIDE DEF C
<1>6. Says(<<L>> \o C, k, (IF k = "device" THEN 1 ELSE 0) + 0)
  BY <1>3, <1>5, SaysJoined
<1>7. CASE k = "device"
  <2>1. Says(<<L>> \o C, k, 1 + 0) /\ 1 + 0 = 1
    BY <1>6, <1>7
  <2> QED BY <1>1, <1>7, <2>1
<1>8. CASE k # "device"
  <2>1. PICK n \in Nat : n = IF k = "device" THEN 1 ELSE 0
    OBVIOUS
  <2>2. Says(<<L>>, k, n)
    BY <1>3, <2>1
  <2> QED BY <1>1, <1>5, <2>1, <2>2, SaysMore
<1> QED BY <1>7, <1>8

\* The lines of a list of devices.
DevicesShown(s, verbose) == OrNone(FlatMap(LAMBDA d : DeviceLines(d, verbose), s))

\* Each device of devicequery has one line that names it, and none that
\* names a USB device.
LEMMA DevicesSay ==
  ASSUME NEW s, IsSequence(s), NEW verbose, NEW k \in {"device", "usb device"}
  PROVE  Says(DevicesShown(s, verbose), k,
              IF k = "device" THEN Len(s) ELSE 0)
<1> DEFINE ss == [i \in DOMAIN s |-> DeviceLines(s[i], verbose)]
           D == IF k = "device" THEN 1..Len(s) ELSE {}
           f == FlattenSeq(ss)
<1>1. DOMAIN s = 1..Len(s) /\ Len(s) \in Nat
  BY SequenceIs
<1>2. DevicesShown(s, verbose) = OrNone(f)
  BY DEF FlatMap, Map, DevicesShown
<1>3. IsSequence(ss) /\ Len(ss) = Len(s)
  <2>1. DOMAIN ss = 1..Len(s) /\ ss = [i \in 1..Len(s) |-> ss[i]]
    BY <1>1
  <2> HIDE DEF ss
  <2> QED BY <1>1, <2>1, Sequences
<1>4. \A i \in 1..Len(ss) : Says(ss[i], k, IF k = "device" THEN 1 ELSE 0)
  <2>1. \A i \in 1..Len(ss) : ss[i] = DeviceLines(s[i], verbose)
    BY <1>1, <1>3
  <2> HIDE DEF ss
  <2> QED BY <2>1, DeviceLinesSay
<1> HIDE DEF ss
<1>5. \A i \in 1..Len(ss) : IsSequence(ss[i]) /\ Number(ss[i], k) = IF i \in D THEN 1 ELSE 0
  BY <1>3, <1>4 DEF Says
<1>6. \A d \in D : d \in 1..Len(ss)
  BY <1>3
<1>7. Cardinality(D) = IF k = "device" THEN Len(s) ELSE 0
  <2>1. PICK n \in Nat : n = Len(s)
    BY <1>1
  <2>2. Cardinality(1..n) = n /\ Cardinality({}) = 0
    BY UptoNumber, FS_EmptySet
  <2> QED BY <2>1, <2>2
<1>8. Says(f, k, IF k = "device" THEN Len(s) ELSE 0)
  <2>1. IsSequence(f)
    BY <1>3, <1>5, FlattenSequence
  <2> HIDE DEF D
  <2>2. Number(f, k) = Cardinality(D)
    BY <1>3, <1>5, <1>6, FlattenNumber
  <2> QED BY <1>1, <1>7, <2>1, <2>2 DEF Says
<1> HIDE DEF f
<1>9. CASE f = <<>>
  <2>1. Says(f, k, 0)
    BY <1>9, SaysNothing
  <2>2. (IF k = "device" THEN Len(s) ELSE 0) = 0
    BY <1>8, <2>1 DEF Says
  <2>3. <<"none">>[1] # k
    OBVIOUS
  <2>4. Says(<< <<"none">> >>, k, 0)
    BY <2>3, SaysOne
  <2> QED BY <1>2, <1>9, <2>2, <2>4 DEF OrNone
<1>10. CASE f # <<>>
  BY <1>2, <1>8, <1>10 DEF OrNone
<1> QED BY <1>9, <1>10

\* The devices that can wake the machine.
EnabledOf(devices) == {j \in DOMAIN devices : devices[j].enabled}

\* The lines of the report of devicequery, and its totals.
LEMMA DeviceQueryPrinted ==
  ASSUME NEW r, IsSequence(r.acpi_devices), IsSequence(r.usb_devices),
         NEW verbose \in BOOLEAN, NEW only \in BOOLEAN
  PROVE  /\ Says(PrintDeviceQuery(r, verbose, only), "device",
                 IF only THEN Cardinality(EnabledOf(r.acpi_devices)) ELSE Len(r.acpi_devices))
         /\ Says(PrintDeviceQuery(r, verbose, only), "usb device", Len(r.usb_devices))
         /\ Has(PrintDeviceQuery(r, verbose, only),
                <<"wake-enabled", Cardinality(EnabledOf(r.acpi_devices)) + Len(r.usb_devices),
                  Len(r.acpi_devices) + Len(r.usb_devices)>>)
<1> DEFINE devices == r.acpi_devices
           acpi == Keep(devices, LAMBDA d : only => d.enabled)
           enabled == Keep(devices, LAMBDA d : d.enabled)
           E == EnabledOf(devices)
           N == {j \in DOMAIN devices : only => devices[j].enabled}
           usb == Map(LAMBDA d : <<"usb device", d>>, r.usb_devices)
           A == DevicesShown(acpi, verbose)
           SA == Section("acpi wake devices", A)
           SU == Only(usb # <<>>, Section("usb wake devices", usb))
           T == <<"wake-enabled", Len(enabled) + Len(usb), Len(devices) + Len(usb)>>
           P == SA \o SU \o Rule \o <<T>>
<1>1. PrintDeviceQuery(r, verbose, only) = P
  BY DEF PrintDeviceQuery, DevicesShown
<1>2. DOMAIN devices = 1..Len(devices) /\ Len(devices) \in Nat
  BY SequenceIs
<1>3. Kept(acpi, devices, N)
  <2> DEFINE ss == [i \in DOMAIN devices |-> Only(only => devices[i].enabled, <<devices[i]>>)]
  <2>1. acpi = FlattenSeq(ss)
    BY DEF Keep, FlatMap, Map
  <2>2. DOMAIN ss = 1..Len(devices) /\ ss = [i \in 1..Len(devices) |-> ss[i]]
    BY <1>2
  <2>3. \A i \in 1..Len(devices) : ss[i] = IF i \in N THEN <<devices[i]>> ELSE <<>>
    BY <1>2 DEF Only
  <2>4. \A d \in N : d \in 1..Len(devices)
    BY <1>2
  <2> HIDE DEF ss, N, acpi
  <2>5. IsSequence(ss) /\ Len(ss) = Len(devices)
    BY <1>2, <2>2, Sequences
  <2> QED BY <2>1, <2>3, <2>4, <2>5, KeptIs
<1>4. Kept(enabled, devices, E)
  <2> DEFINE ss == [i \in DOMAIN devices |-> Only(devices[i].enabled, <<devices[i]>>)]
  <2>1. enabled = FlattenSeq(ss)
    BY DEF Keep, FlatMap, Map
  <2>2. DOMAIN ss = 1..Len(devices) /\ ss = [i \in 1..Len(devices) |-> ss[i]]
    BY <1>2
  <2>3. \A i \in 1..Len(devices) : ss[i] = IF i \in E THEN <<devices[i]>> ELSE <<>>
    BY <1>2 DEF Only, EnabledOf
  <2>4. \A d \in E : d \in 1..Len(devices)
    BY <1>2 DEF EnabledOf
  <2> HIDE DEF ss, E, enabled
  <2>5. IsSequence(ss) /\ Len(ss) = Len(devices)
    BY <1>2, <2>2, Sequences
  <2> QED BY <2>1, <2>3, <2>4, <2>5, KeptIs
<1>5. Len(enabled) = Cardinality(E)
  <2> HIDE DEF enabled, E
  <2> QED BY <1>4, KeptLength
<1>6. IsSequence(acpi) /\ Len(acpi) = IF only THEN Cardinality(E) ELSE Len(devices)
  <2>1. IsSequence(acpi) /\ Len(acpi) = Cardinality(N)
    <3> HIDE DEF acpi, N
    <3> QED BY <1>3, KeptLength
  <2>2. CASE only
    <3>1. N = E
      BY <2>2 DEF EnabledOf
    <3> HIDE DEF acpi, N, E
    <3> QED BY <2>1, <2>2, <3>1
  <2>3. CASE ~only
    <3>1. N = 1..Len(devices)
      BY <1>2, <2>3
    <3>2. PICK n \in Nat : n = Len(devices)
      BY <1>2
    <3>3. Cardinality(1..n) = n
      BY UptoNumber
    <3> HIDE DEF acpi, N, E
    <3> QED BY <2>1, <2>3, <3>1, <3>2, <3>3
  <2> QED BY <2>2, <2>3
<1>7. \A k : Says(usb, k, IF k = "usb device" THEN Len(r.usb_devices) ELSE 0)
  <2>1. /\ DOMAIN usb = DOMAIN r.usb_devices /\ usb = [i \in DOMAIN r.usb_devices |-> usb[i]]
        /\ \A i \in DOMAIN r.usb_devices : usb[i][1] = "usb device"
    BY DEF Map
  <2> HIDE DEF usb
  <2> QED BY <2>1, SaysMapped
<1>8. Len(usb) = Len(r.usb_devices)
  <2>1. /\ DOMAIN usb = DOMAIN r.usb_devices /\ usb = [i \in DOMAIN r.usb_devices |-> usb[i]]
        /\ \A i \in DOMAIN r.usb_devices : usb[i][1] = "usb device"
    BY DEF Map
  <2> HIDE DEF usb
  <2> QED BY <2>1, SaysMapped
<1>9. \A k \in {"device", "usb device"} : Says(A, k, IF k = "device" THEN Len(acpi) ELSE 0)
  <2> HIDE DEF acpi
  <2> QED BY <1>6, DevicesSay
<1> HIDE DEF acpi, enabled, usb, A
<1>10. \A k \in {"device", "usb device"} : Says(SU, k, IF k = "usb device" THEN Len(r.usb_devices) ELSE 0)
  <2> SUFFICES ASSUME NEW k \in {"device", "usb device"}
               PROVE  Says(SU, k, IF k = "usb device" THEN Len(r.usb_devices) ELSE 0)
    OBVIOUS
  <2>1. CASE usb = <<>>
    <3>1. Says(usb, k, 0)
      BY <2>1, SaysNothing
    <3>2. (IF k = "usb device" THEN Len(r.usb_devices) ELSE 0) = 0
      BY <1>7, <3>1 DEF Says
    <3> QED BY <2>1, <3>2, SaysNothing DEF Only
  <2>2. CASE usb # <<>>
    <3>1. k # "section"
      OBVIOUS
    <3> QED BY <1>7, <2>2, <3>1, SaysSection DEF Only
  <2> QED BY <2>1, <2>2
<1>11. \A k \in {"device", "usb device"} : Says(Rule, k, 0) /\ Says(<<T>>, k, 0)
  <2> SUFFICES ASSUME NEW k \in {"device", "usb device"} PROVE Says(Rule, k, 0) /\ Says(<<T>>, k, 0)
    OBVIOUS
  <2>1. <<"rule">>[1] # k /\ T[1] # k
    OBVIOUS
  <2> HIDE DEF T
  <2> QED BY <2>1, SaysOne DEF Rule
<1>12. \A k \in {"device", "usb device"} : Says(SA, k, IF k = "device" THEN Len(acpi) ELSE 0)
  <2> SUFFICES ASSUME NEW k \in {"device", "usb device"}
               PROVE  Says(SA, k, IF k = "device" THEN Len(acpi) ELSE 0)
    OBVIOUS
  <2>1. k # "section"
    OBVIOUS
  <2> QED BY <1>9, <2>1, SaysSection
<1> HIDE DEF SA, SU
<1>13. Says(P, "device", Len(acpi))
  <2>1. PICK n \in Nat : n = Len(acpi)
    BY <1>6, SequenceIs
  <2>2. Says(SA, "device", n) /\ Says(SU, "device", 0) /\ Says(Rule, "device", 0) /\ Says(<<T>>, "device", 0)
    BY <1>10, <1>11, <1>12, <2>1
  <2> HIDE DEF T
  <2>3. Says(P, "device", n + 0 + 0 + 0)
    BY <2>2, SaysJoined
  <2>4. n + 0 + 0 + 0 = n
    OBVIOUS
  <2> QED BY <2>1, <2>3, <2>4
<1>14. Says(P, "usb device", Len(r.usb_devices))
  <2>1. PICK n \in Nat : n = Len(r.usb_devices)
    BY SequenceIs
  <2>2. /\ Says(SA, "usb device", 0) /\ Says(SU, "usb device", n)
        /\ Says(Rule, "usb device", 0) /\ Says(<<T>>, "usb device", 0)
    BY <1>10, <1>11, <1>12, <2>1
  <2> HIDE DEF T
  <2>3. Says(P, "usb device", 0 + n + 0 + 0)
    BY <2>2, SaysJoined
  <2>4. 0 + n + 0 + 0 = n
    OBVIOUS
  <2> QED BY <2>1, <2>3, <2>4
<1>15. Has(P, T)
  <2>1. IsSequence(SA) /\ IsSequence(SU) /\ IsSequence(Rule) /\ IsSequence(<<T>>)
    BY <1>10, <1>11, <1>12 DEF Says
  <2> HIDE DEF T
  <2>2. IsSequence(SA \o SU \o Rule)
    BY <2>1, Joined
  <2> QED BY <2>1, <2>2, HasOne, JoinedHas
<1>16. T = <<"wake-enabled", Cardinality(E) + Len(r.usb_devices), Len(devices) + Len(r.usb_devices)>>
  BY <1>5, <1>8
<1> HIDE DEF P, T
<1> QED BY <1>1, <1>6, <1>13, <1>14, <1>15, <1>16

\* A call of devicequery.
LEMMA DeviceQueryCall ==
  ASSUME NEW c \in DeviceQueryCalls
  PROVE  /\ c.cmd = "devicequery" /\ c.format \in Formats
         /\ c.flags.verbose \in BOOLEAN /\ c.flags.enabled_only \in BOOLEAN
         /\ c.sources.acpi # None => IsSequence(c.sources.acpi[1])
         /\ IsSequence(OrEmpty(c.sources.usb))
<1> DEFINE H == AcpiLine(4, FALSE, None)
           A == {None, Some(<<>>)} \union {Some(<<H>> \o s) : s \in SeqOf(AcpiLines, 2)}
           U == {None, Some(<<"1-1", "1-2">>)}
           G == [verbose : BOOLEAN, enabled_only : BOOLEAN]
           S == [acpi : A, usb : U]
<1>1. c \in Calls("devicequery", G, S)
  BY DEF DeviceQueryCalls
<1> HIDE DEF S, G
<1>2. c.cmd = "devicequery" /\ c.format \in Formats /\ c.flags \in G /\ c.sources \in S
  BY <1>1, CallIs
<1>3. c.flags.verbose \in BOOLEAN /\ c.flags.enabled_only \in BOOLEAN
  BY <1>2 DEF G
<1>4. c.sources.acpi \in A /\ c.sources.usb \in U
  <2> HIDE DEF A, U
  <2> QED BY <1>2 DEF S
<1> HIDE DEF H
<1>5. ASSUME NEW a \in A, a # None PROVE IsSequence(a[1])
  <2>1. CASE a = Some(<<>>)
    BY <2>1, Singles DEF Some
  <2>2. CASE \E s \in SeqOf(AcpiLines, 2) : a = Some(<<H>> \o s)
    <3>1. PICK s \in SeqOf(AcpiLines, 2) : a = Some(<<H>> \o s)
      BY <2>2
    <3>2. IsSequence(s)
      BY Bounded
    <3>3. IsSequence(<<H>> \o s)
      BY <3>2, Singles, Joined
    <3> QED BY <3>1, <3>3 DEF Some
  <2> QED BY <1>5, <2>1, <2>2
<1>6. IsSequence(OrEmpty(c.sources.usb))
  <2>1. <<"1-1", "1-2">> \in Seq({"1-1", "1-2"})
    OBVIOUS
  <2>2. IsSequence(<<"1-1", "1-2">>) /\ IsSequence(<<>>)
    BY <2>1, Singles DEF IsSequence
  <2>3. c.sources.usb = None \/ c.sources.usb = Some(<<"1-1", "1-2">>)
    BY <1>4
  <2>4. CASE c.sources.usb = None
    BY <2>2, <2>4 DEF OrEmpty
  <2>5. CASE c.sources.usb = Some(<<"1-1", "1-2">>)
    <3>1. c.sources.usb # None /\ c.sources.usb[1] = <<"1-1", "1-2">>
      BY <2>5 DEF Some, None
    <3> QED BY <2>2, <3>1 DEF OrEmpty
  <2> QED BY <2>3, <2>4, <2>5
<1> HIDE DEF A
<1> QED BY <1>2, <1>3, <1>4, <1>5, <1>6

\* What the report of devicequery says is what the table and the bus hold.
LEMMA DeviceQueryAgree ==
  ASSUME call \in DeviceQueryCalls, out = Text(call, Build(call))
  PROVE  IsSequence(out) /\ DeviceQueryVerdict(call.sources)
<1> DEFINE s == call.sources
           only == call.flags.enabled_only
           r == BuildDeviceQuery(s)
           acpi == {i \in DOMAIN OrEmpty(s.acpi) : i > 1 /\ s.acpi[1][i].cols >= 3}
           wake == {i \in acpi : s.acpi[1][i].enabled}
           usb == Len(OrEmpty(s.usb))
<1>1. /\ call.cmd = "devicequery" /\ call.flags.verbose \in BOOLEAN /\ only \in BOOLEAN
      /\ s.acpi # None => IsSequence(s.acpi[1])
      /\ IsSequence(OrEmpty(s.usb))
  BY DeviceQueryCall
<1>2. out = PrintDeviceQuery(r, call.flags.verbose, only)
  BY <1>1 DEF Text, Build
<1>3. /\ r.acpi_devices = OrEmpty(IF s.acpi = None THEN None ELSE ParseAcpiWakeup(s.acpi[1]))
      /\ r.usb_devices = OrEmpty(s.usb)
  BY DEF BuildDeviceQuery
<1> HIDE DEF r
<1>4. /\ IsSequence(r.acpi_devices) /\ Len(r.acpi_devices) = Cardinality(acpi)
      /\ Cardinality(EnabledOf(r.acpi_devices)) = Cardinality(wake)
  <2>1. CASE s.acpi = None
    <3>1. r.acpi_devices = <<>> /\ OrEmpty(s.acpi) = <<>>
      BY <1>3, <2>1 DEF OrEmpty
    <3>2. acpi = {} /\ wake = {} /\ EnabledOf(<<>>) = {}
      BY <3>1 DEF EnabledOf
    <3>3. IsSequence(<<>>) /\ Len(<<>>) = 0 /\ Cardinality({}) = 0
      BY Singles, FS_EmptySet
    <3> HIDE DEF acpi, wake
    <3> QED BY <3>1, <3>2, <3>3
  <2>2. CASE s.acpi # None
    <3>1. /\ r.acpi_devices = OrEmpty(ParseAcpiWakeup(s.acpi[1]))
          /\ OrEmpty(s.acpi) = s.acpi[1] /\ IsSequence(s.acpi[1])
      BY <1>1, <1>3, <2>2 DEF OrEmpty
    <3>2. acpi = UsableAcpi(s.acpi[1])
      BY <3>1 DEF UsableAcpi
    <3>3. wake = WakeAcpi(s.acpi[1])
      <4> HIDE DEF acpi
      <4> QED BY <3>2 DEF WakeAcpi
    <3> HIDE DEF acpi, wake
    <3>4. /\ IsSequence(r.acpi_devices) /\ Len(r.acpi_devices) = Cardinality(UsableAcpi(s.acpi[1]))
          /\ Cardinality({j \in DOMAIN r.acpi_devices : r.acpi_devices[j].enabled})
             = Cardinality(WakeAcpi(s.acpi[1]))
      BY <3>1, AcpiParsed
    <3> QED BY <3>2, <3>3, <3>4 DEF EnabledOf
  <2> QED BY <2>1, <2>2
<1>5. IsSequence(r.usb_devices) /\ Len(r.usb_devices) = usb
  BY <1>1, <1>3
<1> HIDE DEF s, acpi, wake, usb, only
<1>6. /\ Says(out, "device", IF only THEN Cardinality(wake) ELSE Cardinality(acpi))
      /\ Says(out, "usb device", usb)
      /\ Has(out, <<"wake-enabled", Cardinality(wake) + usb, Cardinality(acpi) + usb>>)
  BY <1>1, <1>2, <1>4, <1>5, DeviceQueryPrinted
<1>7. IsSequence(out)
  BY <1>6 DEF Says
<1>8. /\ Count("device") = Cardinality(IF only THEN wake ELSE acpi)
      /\ Count("usb device") = usb
      /\ Printed(<<"wake-enabled", Cardinality(wake) + usb, Cardinality(acpi) + usb>>)
  <2>1. Count("device") = Number(out, "device") /\ Count("usb device") = Number(out, "usb device")
    BY <1>7, CountIs
  <2>2. Count("device") = IF only THEN Cardinality(wake) ELSE Cardinality(acpi)
    BY <1>6, <2>1 DEF Says
  <2>3. Count("usb device") = usb
    BY <1>6, <2>1 DEF Says
  <2>4. Printed(<<"wake-enabled", Cardinality(wake) + usb, Cardinality(acpi) + usb>>)
    BY <1>6, <1>7, CountIs
  <2> QED BY <2>2, <2>3, <2>4
<1>9. DeviceQueryVerdict(s)
  BY <1>8 DEF DeviceQueryVerdict, acpi, wake, usb, only
<1> QED BY <1>7, <1>9 DEF s

-----------------------------------------------------------------------------
(* The report of sleepstates.                                              *)

\* Nothing says it if no part does.
LEMMA FlattenSaysNone ==
  ASSUME NEW ss, IsSequence(ss), NEW k, \A i \in 1..Len(ss) : Says(ss[i], k, 0)
  PROVE  Says(FlattenSeq(ss), k, 0)
<1> DEFINE N == {}
<1>1. \A i \in 1..Len(ss) : IsSequence(ss[i]) /\ Number(ss[i], k) = IF i \in N THEN 1 ELSE 0
  BY DEF Says
<1>2. \A d \in N : d \in 1..Len(ss)
  OBVIOUS
<1>3. Cardinality(N) = 0
  BY FS_EmptySet
<1>4. IsSequence(FlattenSeq(ss))
  BY <1>1, FlattenSequence
<1> HIDE DEF N
<1>5. Number(FlattenSeq(ss), k) = Cardinality(N)
  BY <1>1, <1>2, FlattenNumber
<1> QED BY <1>3, <1>4, <1>5 DEF Says

\* The sizes of one swap add up to its size, in the file and in the report.
LEMMA OneSize ==
  ASSUME NEW t, NEW x, t[x].size[1] \in Nat
  PROVE  MapThenSumSet(LAMBDA i : t[i].size[1], {x}) = t[x].size[1]
<1> DEFINE Step(g) == [s \in SUBSET {x} |->
                         IF s = {} THEN 0
                         ELSE t[CHOOSE y \in s : TRUE].size[1] + g[s \ {CHOOSE y \in s : TRUE}]]
           f == CHOOSE g : g = Step(g)
<1>1. \A s \in SUBSET {x} : s # {} => s = {x} /\ (CHOOSE y \in s : TRUE) = x
  OBVIOUS
<1>2. {x} \ {x} = {} /\ {} \in SUBSET {x} /\ {x} \in SUBSET {x} /\ {x} # {}
  OBVIOUS
<1>3. \E g : g = Step(g)
  <2> DEFINE g == [s \in SUBSET {x} |-> IF s = {} THEN 0 ELSE t[x].size[1] + 0]
  <2>1. \A s \in SUBSET {x} : g[s] = IF s = {} THEN 0 ELSE t[x].size[1] + 0
    OBVIOUS
  <2>2. \A s \in SUBSET {x} :
          (IF s = {} THEN 0 ELSE t[x].size[1] + 0)
          = IF s = {} THEN 0
            ELSE t[CHOOSE y \in s : TRUE].size[1] + g[s \ {CHOOSE y \in s : TRUE}]
    <3>1. g[{}] = 0
      BY <1>2, <2>1
    <3> HIDE DEF g
    <3> QED BY <1>1, <1>2, <3>1
  <2>3. g = Step(g)
    BY <2>2
  <2> QED BY <2>3
<1>4. f = Step(f)
  <2> HIDE DEF Step
  <2> QED BY <1>3
<1>5. MapThenSumSet(LAMBDA i : t[i].size[1], {x}) = f[{x}]
  BY DEF MapThenSumSet, MapThenFoldSet
<1>6. f[{}] = 0 /\ f[{x}] = t[x].size[1] + f[{}]
  <2>1. \A s \in SUBSET {x} :
          f[s] = IF s = {} THEN 0
                 ELSE t[CHOOSE y \in s : TRUE].size[1] + f[s \ {CHOOSE y \in s : TRUE}]
    <3> HIDE DEF f
    <3> QED BY <1>4
  <2> HIDE DEF f, Step
  <2>2. f[{}] = 0
    BY <1>2, <2>1
  <2>3. f[{x}] = t[CHOOSE y \in {x} : TRUE].size[1] + f[{x} \ {CHOOSE y \in {x} : TRUE}]
    BY <1>2, <2>1, Zenon
  <2>4. (CHOOSE y \in {x} : TRUE) = x
    BY <1>1, <1>2
  <2>5. f[{x}] = t[x].size[1] + f[{x} \ {x}]
    BY <2>3, <2>4, Zenon
  <2> QED BY <1>2, <2>2, <2>5, Zenon
<1> HIDE DEF f
<1> QED BY <1>5, <1>6

\* The size of a single swap is the total.
LEMMA OneSizeKb ==
  ASSUME NEW t, NEW x, t[x].size_kb \in Nat
  PROVE  MapThenSumSet(LAMBDA i : t[i].size_kb, {x}) = t[x].size_kb
<1> DEFINE Step(g) == [s \in SUBSET {x} |->
                         IF s = {} THEN 0
                         ELSE t[CHOOSE y \in s : TRUE].size_kb + g[s \ {CHOOSE y \in s : TRUE}]]
           f == CHOOSE g : g = Step(g)
<1>1. \A s \in SUBSET {x} : s # {} => s = {x} /\ (CHOOSE y \in s : TRUE) = x
  OBVIOUS
<1>2. {x} \ {x} = {} /\ {} \in SUBSET {x} /\ {x} \in SUBSET {x} /\ {x} # {}
  OBVIOUS
<1>3. \E g : g = Step(g)
  <2> DEFINE g == [s \in SUBSET {x} |-> IF s = {} THEN 0 ELSE t[x].size_kb + 0]
  <2>1. \A s \in SUBSET {x} : g[s] = IF s = {} THEN 0 ELSE t[x].size_kb + 0
    OBVIOUS
  <2>2. \A s \in SUBSET {x} :
          (IF s = {} THEN 0 ELSE t[x].size_kb + 0)
          = IF s = {} THEN 0
            ELSE t[CHOOSE y \in s : TRUE].size_kb + g[s \ {CHOOSE y \in s : TRUE}]
    <3>1. g[{}] = 0
      BY <1>2, <2>1
    <3> HIDE DEF g
    <3> QED BY <1>1, <1>2, <3>1
  <2>3. g = Step(g)
    BY <2>2
  <2> QED BY <2>3
<1>4. f = Step(f)
  <2> HIDE DEF Step
  <2> QED BY <1>3
<1>5. MapThenSumSet(LAMBDA i : t[i].size_kb, {x}) = f[{x}]
  BY DEF MapThenSumSet, MapThenFoldSet
<1>6. f[{}] = 0 /\ f[{x}] = t[x].size_kb + f[{}]
  <2>1. \A s \in SUBSET {x} :
          f[s] = IF s = {} THEN 0
                 ELSE t[CHOOSE y \in s : TRUE].size_kb + f[s \ {CHOOSE y \in s : TRUE}]
    <3> HIDE DEF f
    <3> QED BY <1>4
  <2> HIDE DEF f, Step
  <2>2. f[{}] = 0
    BY <1>2, <2>1
  <2>3. f[{x}] = t[CHOOSE y \in {x} : TRUE].size_kb + f[{x} \ {CHOOSE y \in {x} : TRUE}]
    BY <1>2, <2>1, Zenon
  <2>4. (CHOOSE y \in {x} : TRUE) = x
    BY <1>1, <1>2
  <2>5. f[{x}] = t[x].size_kb + f[{x} \ {x}]
    BY <2>3, <2>4, Zenon
  <2> QED BY <1>2, <2>2, <2>5, Zenon
<1> HIDE DEF f
<1> QED BY <1>5, <1>6

\* The lines of the file for swaps that can be used.
UsableSwaps(text) == {i \in DOMAIN text : i > 1 /\ text[i].cols >= 3 /\ text[i].size # None}
SwapOf(l) == [device |-> l.device, size_kb |-> l.size[1]]

\* Of a header and at most one swap, parsed, the swap is there if it is usable.
LEMMA SwapsParsed ==
  ASSUME NEW text, IsSequence(text), Len(text) \in 0..2
  PROVE  \/ UsableSwaps(text) = {} /\ ParseSwaps(text) = <<>>
         \/ UsableSwaps(text) = {2} /\ ParseSwaps(text) = <<SwapOf(text[2])>>
<1> DEFINE b == Body(text)
           t == Keep(b, LAMBDA l : l.cols >= 3 /\ l.size # None)
           D == {i \in DOMAIN b : b[i].cols >= 3 /\ b[i].size # None}
           m == [j \in DOMAIN t |-> SwapOf(t[j])]
<1>1. /\ IsSequence(b) /\ DOMAIN b = 1..Len(b)
      /\ Len(b) = IF Len(text) = 0 THEN 0 ELSE Len(text) - 1
      /\ \A i \in 1..Len(b) : b[i] = text[i + 1]
      /\ DOMAIN text = 1..Len(text)
  BY BodyIs, SequenceIs
<1>2. ParseSwaps(text) = m
  BY DEF ParseSwaps, Map, SwapOf
<1> HIDE DEF b
<1>3. Kept(t, b, D)
  <2> DEFINE ss == [i \in DOMAIN b |-> Only(b[i].cols >= 3 /\ b[i].size # None, <<b[i]>>)]
  <2>1. t = FlattenSeq(ss)
    BY DEF Keep, FlatMap, Map
  <2>2. DOMAIN ss = 1..Len(b) /\ ss = [i \in 1..Len(b) |-> ss[i]]
    BY <1>1
  <2>3. \A i \in 1..Len(b) : ss[i] = IF i \in D THEN <<b[i]>> ELSE <<>>
    BY <1>1 DEF Only
  <2>4. \A d \in D : d \in 1..Len(b)
    BY <1>1
  <2>5. Len(b) \in Nat
    BY <1>1, SequenceIs
  <2> HIDE DEF ss, D, t
  <2>6. IsSequence(ss) /\ Len(ss) = Len(b)
    BY <2>2, <2>5, Sequences
  <2> QED BY <2>1, <2>3, <2>4, <2>6, KeptIs
<1>4. IsSequence(t) /\ Len(t) = Cardinality(D) /\ (t = <<>> <=> D = {})
  <2> HIDE DEF t, D
  <2> QED BY <1>3, KeptLength
<1>5. DOMAIN t = 1..Len(t)
  <2> HIDE DEF t
  <2> QED BY <1>4, SequenceIs
<1>6. Len(text) = 0 \/ Len(text) = 1 \/ Len(text) = 2
  OBVIOUS
<1>7. CASE D = {}
  <2>1. t = <<>>
    <3> HIDE DEF t, D
    <3> QED BY <1>4, <1>7
  <2>2. m = <<>>
    <3> HIDE DEF t
    <3> QED BY <2>1
  <2>3. UsableSwaps(text) = {}
    <3> SUFFICES ASSUME NEW i \in UsableSwaps(text) PROVE FALSE
      OBVIOUS
    <3>1. i \in 1..Len(text) /\ i > 1 /\ text[i].cols >= 3 /\ text[i].size # None
      BY <1>1 DEF UsableSwaps
    <3>2. i = 2 /\ Len(text) = 2
      BY <1>6, <3>1
    <3>3. Len(b) = 1 /\ 1 \in 1..1 /\ 1 + 1 = 2
      BY <1>1, <3>2
    <3>4. 1 \in DOMAIN b /\ b[1] = text[2]
      BY <1>1, <3>3
    <3>5. 1 \in D
      BY <3>1, <3>2, <3>4
    <3> QED BY <1>7, <3>5
  <2> QED BY <1>2, <2>2, <2>3
<1>8. CASE D # {}
  <2>1. PICK d \in D : TRUE
    BY <1>8
  <2>2. d \in 1..Len(b)
    BY <1>1
  <2>3. Len(text) = 2 /\ Len(b) = 1 /\ d = 1
    <3> HIDE DEF t, D, m
    <3>1. Len(b) = 0 \/ (Len(b) = 1 /\ Len(text) = 2)
      <4>1. CASE Len(text) = 0
        BY <1>1, <4>1
      <4>2. CASE Len(text) = 1
        BY <1>1, <4>2
      <4>3. CASE Len(text) = 2
        BY <1>1, <4>3
      <4> QED BY <1>6, <4>1, <4>2, <4>3
    <3> QED BY <2>2, <3>1
  <2>4. D = {1}
    <3>1. DOMAIN b = {1}
      BY <1>1, <2>3
    <3>2. 1 \in D
      BY <2>1, <2>3
    <3>3. \A e \in D : e \in DOMAIN b
      OBVIOUS
    <3> HIDE DEF D
    <3> QED BY <3>1, <3>2, <3>3
  <2>5. b[1] = text[2] /\ b[1].cols >= 3 /\ b[1].size # None
    <3>1. 1 + 1 = 2 /\ 1 \in 1..Len(b)
      BY <2>3
    <3>2. 1 \in D
      BY <2>4
    <3> QED BY <1>1, <3>1, <3>2
  <2>6. UsableSwaps(text) = {2}
    <3>1. DOMAIN text = {1, 2}
      BY <1>1, <2>3
    <3>2. 2 > 1 /\ ~(1 > 1)
      OBVIOUS
    <3> QED BY <2>5, <3>1, <3>2 DEF UsableSwaps
  <2>7. Len(t) = 1
    <3>1. Cardinality({1}) = 1
      BY FS_Singleton
    <3> HIDE DEF t, D
    <3> QED BY <1>4, <2>4, <3>1
  <2>8. t[1] = b[1]
    <3>1. PICK h : Picks(t, b, D, h)
      <4> HIDE DEF t, D
      <4> QED BY <1>3 DEF Kept
    <3>2. 1 \in 1..Len(t)
      <4> HIDE DEF t, D, m
      <4> QED BY <2>7
    <3>3. h[1] \in D /\ t[1] = b[h[1]]
      <4> HIDE DEF t, D
      <4> QED BY <3>1, <3>2 DEF Picks
    <3> QED BY <2>4, <3>3
  <2>9. m = <<SwapOf(text[2])>>
    <3>1. DOMAIN t = 1..1
      BY <1>5, <2>7
    <3> HIDE DEF t
    <3>2. m = [j \in 1..1 |-> SwapOf(text[2])]
      BY <2>5, <2>8, <3>1
    <3> HIDE DEF m
    <3>3. IsSequence(m) /\ Len(m) = 1
      <4>1. DOMAIN m = 1..1 /\ m = [j \in 1..1 |-> m[j]]
        BY <3>2
      <4> QED BY <4>1, Sequences
    <3>4. m[1] = SwapOf(text[2])
      BY <3>2
    <3>5. /\ IsSequence(<<SwapOf(text[2])>>) /\ Len(<<SwapOf(text[2])>>) = 1
          /\ <<SwapOf(text[2])>>[1] = SwapOf(text[2])
      BY Singles
    <3>6. \A i \in 1..Len(m) : m[i] = <<SwapOf(text[2])>>[i]
      BY <3>3, <3>4, <3>5
    <3> QED BY <3>3, <3>5, <3>6, SameSequence
  <2> QED BY <1>2, <2>6, <2>9
<1> QED BY <1>7, <1>8

SwapKinds == {"swap none", "swap device"}

\* Neither a state nor its description speaks of swap.
LEMMA StateLinesSay ==
  ASSUME NEW x, NEW verbose, NEW k \in SwapKinds
  PROVE  Says(StateLines(x, verbose), k, 0)
<1> DEFINE L == <<"state", x, x \in States>>
           T == <<"state description", x>>
           C == Only(x \in States /\ verbose, <<T>>)
<1>1. StateLines(x, verbose) = <<L>> \o C
  BY DEF StateLines
<1>2. L[1] # k /\ T[1] # k
  BY DEF SwapKinds
<1> HIDE DEF L, T
<1>3. Says(<<L>>, k, 0) /\ Says(<<T>>, k, 0)
  BY <1>2, SaysOne
<1>4. Says(C, k, 0)
  BY <1>3, SaysNothing DEF Only
<1> HIDE DEF C
<1>5. Says(<<L>> \o C, k, 0)
  BY <1>3, <1>4, SaysMore
<1> QED BY <1>1, <1>5

\* The section of the states.
StatesShown(s, verbose) ==
  IF s = <<>> THEN << <<"unable">> >> ELSE FlatMap(LAMBDA x : StateLines(x, verbose), s)

\* The lines about the sleep states say nothing about swap.
LEMMA StatesSay ==
  ASSUME NEW s, IsSequence(s), NEW verbose, NEW k \in SwapKinds
  PROVE  Says(StatesShown(s, verbose), k, 0)
<1> DEFINE ss == [i \in DOMAIN s |-> StateLines(s[i], verbose)]
<1>1. DOMAIN s = 1..Len(s) /\ Len(s) \in Nat
  BY SequenceIs
<1>2. FlatMap(LAMBDA x : StateLines(x, verbose), s) = FlattenSeq(ss)
  BY DEF FlatMap, Map
<1>3. IsSequence(ss) /\ Len(ss) = Len(s)
  <2>1. DOMAIN ss = 1..Len(s) /\ ss = [i \in 1..Len(s) |-> ss[i]]
    BY <1>1
  <2> HIDE DEF ss
  <2> QED BY <1>1, <2>1, Sequences
<1>4. \A i \in 1..Len(ss) : Says(ss[i], k, 0)
  <2>1. \A i \in 1..Len(ss) : ss[i] = StateLines(s[i], verbose)
    BY <1>1, <1>3
  <2> HIDE DEF ss
  <2> QED BY <2>1, StateLinesSay
<1>5. Says(FlattenSeq(ss), k, 0)
  <2> HIDE DEF ss
  <2> QED BY <1>3, <1>4, FlattenSaysNone
<1>6. <<"unable">>[1] # k
  BY DEF SwapKinds
<1>7. Says(<< <<"unable">> >>, k, 0)
  BY <1>6, SaysOne
<1> QED BY <1>2, <1>5, <1>7 DEF StatesShown

\* The sizes of the swaps, added up.
SizesOf(swaps) == MapThenSumSet(LAMBDA i : swaps[i].size_kb, DOMAIN swaps)

SwapTotal(swaps) == <<"swap", SizesOf(swaps) \div 1024>>

\* The swaps that are listed, and the line above them.
LEMMA SwapLinesSay ==
  ASSUME NEW swaps, IsSequence(swaps)
  PROVE  /\ Says(SwapLines(swaps), "swap device", Len(swaps))
         /\ Says(SwapLines(swaps), "swap none", IF swaps = <<>> THEN 1 ELSE 0)
         /\ swaps = <<>> => Has(SwapLines(swaps), <<"swap none">>)
         /\ swaps # <<>> =>
              Has(SwapLines(swaps), SwapTotal(swaps))
<1> DEFINE T == SwapTotal(swaps)
           m == [i \in DOMAIN swaps |-> <<"swap device", swaps[i].device, swaps[i].device = "zram">>]
<1>1. SwapLines(swaps) = IF swaps = <<>> THEN << <<"swap none">> >> ELSE <<T>> \o m
  BY DEF SwapLines, Sum, Map, SizesOf, SwapTotal
<1>2. T[1] = "swap"
  BY DEF SwapTotal
<1>3. \A k : Says(m, k, IF k = "swap device" THEN Len(swaps) ELSE 0)
  <2>1. /\ DOMAIN m = DOMAIN swaps /\ m = [i \in DOMAIN swaps |-> m[i]]
        /\ \A i \in DOMAIN swaps : m[i][1] = "swap device"
    OBVIOUS
  <2> HIDE DEF m
  <2> QED BY <2>1, SaysMapped
<1> HIDE DEF T, m
<1>4. CASE swaps = <<>>
  <2>1. <<"swap none">>[1] = "swap none"
    OBVIOUS
  <2>2. Says(<< <<"swap none">> >>, "swap device", 0) /\ Says(<< <<"swap none">> >>, "swap none", 1)
    BY <2>1, SaysOne
  <2>3. Len(swaps) = 0
    BY <1>4
  <2>4. SwapLines(swaps) = << <<"swap none">> >>
    BY <1>1, <1>4
  <2> QED BY <1>4, <2>2, <2>3, <2>4, HasOne
<1>5. CASE swaps # <<>>
  <2>1. SwapLines(swaps) = <<T>> \o m
    BY <1>1, <1>5
  <2>2. Says(<<T>>, "swap device", 0) /\ Says(<<T>>, "swap none", 0)
    BY <1>2, SaysOne
  <2>3. PICK n \in Nat : n = Len(swaps)
    BY SequenceIs
  <2>4. Says(m, "swap device", n) /\ Says(m, "swap none", 0)
    BY <1>3, <2>3
  <2>5. Says(<<T>> \o m, "swap device", 0 + n) /\ Says(<<T>> \o m, "swap none", 0)
    BY <2>2, <2>4, SaysJoined, SaysMore
  <2>6. 0 + n = n
    OBVIOUS
  <2>7. Has(<<T>> \o m, T)
    BY <2>2, <2>4, HasOne, HasJoined DEF Says
  <2> QED BY <1>5, <2>1, <2>3, <2>5, <2>6, <2>7 DEF T
<1> QED BY <1>4, <1>5

\* What is in the report.
SleepStatesReport(r) ==
  /\ IsSequence(r.states) /\ IsSequence(r.mem.current) /\ IsSequence(r.disk.current)
  /\ IsSequence(r.swaps) /\ IsSequence(r.image_size)

\* The lines of the report of sleepstates that speak of swap.
LEMMA SleepStatesPrinted ==
  ASSUME NEW r, SleepStatesReport(r), NEW verbose \in BOOLEAN
  PROVE  LET P == PrintSleepStates(r, verbose)
         IN  /\ IsSequence(P)
             /\ "disk" \notin Range(r.states) => Says(P, "swap none", 0)
             /\ "disk" \in Range(r.states) =>
                  /\ Says(P, "swap device", Len(r.swaps))
                  /\ r.swaps = <<>> => Has(P, <<"swap none">>)
                  /\ r.swaps # <<>> =>
                       /\ Says(P, "swap none", 0)
                       /\ Has(P, SwapTotal(r.swaps))
<1> DEFINE S == StatesShown(r.states, verbose)
           MC == [i \in DOMAIN r.mem.current |->
                    <<"current", r.mem.current[i], r.mem.current[i] \in MemModes>>]
           MA == Only(r.mem.modes # <<>>, << <<"available", r.mem.modes>> >>)
           M == IF r.mem.current = None /\ r.mem.modes = <<>> THEN << <<"unable">> >> ELSE MC \o MA
           DC == [i \in DOMAIN r.disk.current |-> <<"current", r.disk.current[i], FALSE>>]
           DA == Only(r.disk.modes # <<>> /\ verbose, << <<"available", r.disk.modes>> >>)
           H == DC \o DA \o SwapLines(r.swaps)
           I == [i \in DOMAIN r.image_size |-> <<"max", r.image_size[i]>>]
           SS == Section("states", S)
           SM == Section("memory sleep mode", M)
           SH == Only("disk" \in Range(r.states), Section("hibernation mode", H))
           SI == Only(verbose /\ r.image_size # None, Section("hibernation image", I))
           P == SS \o SM \o SH \o SI \o Rule
<1>1. PrintSleepStates(r, verbose) = P
  BY DEF PrintSleepStates, Map, StatesShown
<1>2. ASSUME NEW k \in SwapKinds, NEW line, line[1] \in {"unable", "available", "rule"}
      PROVE  Says(<<line>>, k, 0)
  <2>1. line[1] # k
    BY <1>2 DEF SwapKinds
  <2> QED BY <2>1, SaysOne
<1>3. /\ <<"unable">>[1] = "unable" /\ <<"rule">>[1] = "rule"
      /\ <<"available", r.mem.modes>>[1] = "available"
      /\ <<"available", r.disk.modes>>[1] = "available"
  OBVIOUS
<1>4. \A k \in SwapKinds : Says(MC, k, 0) /\ Says(DC, k, 0) /\ Says(I, k, 0)
  <2>1. /\ DOMAIN MC = DOMAIN r.mem.current /\ MC = [i \in DOMAIN r.mem.current |-> MC[i]]
        /\ \A i \in DOMAIN r.mem.current : MC[i][1] = "current"
    OBVIOUS
  <2>2. /\ DOMAIN DC = DOMAIN r.disk.current /\ DC = [i \in DOMAIN r.disk.current |-> DC[i]]
        /\ \A i \in DOMAIN r.disk.current : DC[i][1] = "current"
    OBVIOUS
  <2>3. /\ DOMAIN I = DOMAIN r.image_size /\ I = [i \in DOMAIN r.image_size |-> I[i]]
        /\ \A i \in DOMAIN r.image_size : I[i][1] = "max"
    OBVIOUS
  <2>4. \A k \in SwapKinds : k # "current" /\ k # "max"
    BY DEF SwapKinds
  <2>5. IsSequence(r.mem.current) /\ IsSequence(r.disk.current) /\ IsSequence(r.image_size)
    BY DEF SleepStatesReport
  <2> HIDE DEF MC, DC, I
  <2>6. \A k \in SwapKinds : Says(MC, k, 0)
    <3>1. \A k : Says(MC, k, IF k = "current" THEN Len(r.mem.current) ELSE 0)
      BY <2>1, <2>5, SaysMapped
    <3> QED BY <2>4, <3>1
  <2>7. \A k \in SwapKinds : Says(DC, k, 0)
    <3>1. \A k : Says(DC, k, IF k = "current" THEN Len(r.disk.current) ELSE 0)
      BY <2>2, <2>5, SaysMapped
    <3> QED BY <2>4, <3>1
  <2>8. \A k \in SwapKinds : Says(I, k, 0)
    <3>1. \A k : Says(I, k, IF k = "max" THEN Len(r.image_size) ELSE 0)
      BY <2>3, <2>5, SaysMapped
    <3> QED BY <2>4, <3>1
  <2> QED BY <2>6, <2>7, <2>8
<1>5. \A k \in SwapKinds : Says(MA, k, 0) /\ Says(DA, k, 0)
  <2> SUFFICES ASSUME NEW k \in SwapKinds PROVE Says(MA, k, 0) /\ Says(DA, k, 0)
    OBVIOUS
  <2>1. Says(<< <<"available", r.mem.modes>> >>, k, 0)
    BY <1>2, <1>3
  <2>2. Says(<< <<"available", r.disk.modes>> >>, k, 0)
    BY <1>2, <1>3
  <2> QED BY <2>1, <2>2, SaysNothing DEF Only
<1>6. \A k \in SwapKinds : Says(S, k, 0)
  <2>1. IsSequence(r.states)
    BY DEF SleepStatesReport
  <2> QED BY <2>1, StatesSay
<1> HIDE DEF MC, DC, I, MA, DA, S
<1>7. \A k \in SwapKinds : Says(M, k, 0)
  <2> SUFFICES ASSUME NEW k \in SwapKinds PROVE Says(M, k, 0)
    OBVIOUS
  <2>1. Says(<< <<"unable">> >>, k, 0)
    BY <1>2, <1>3
  <2>2. Says(MC \o MA, k, 0)
    BY <1>4, <1>5, SaysMore
  <2> QED BY <2>1, <2>2
<1>8. \A k \in SwapKinds : k # "section"
  BY DEF SwapKinds
<1>9. \A k \in SwapKinds : Says(SS, k, 0) /\ Says(SM, k, 0) /\ Says(SI, k, 0) /\ Says(Rule, k, 0)
  <2> SUFFICES ASSUME NEW k \in SwapKinds
               PROVE  Says(SS, k, 0) /\ Says(SM, k, 0) /\ Says(SI, k, 0) /\ Says(Rule, k, 0)
    OBVIOUS
  <2> HIDE DEF M
  <2>1. Says(SS, k, 0)
    BY <1>6, <1>8, SaysSection
  <2>2. Says(SM, k, 0)
    BY <1>7, <1>8, SaysSection
  <2>3. Says(SI, k, 0)
    BY <1>4, <1>8, SaysSection, SaysNothing DEF Only
  <2>4. Says(Rule, k, 0)
    BY <1>2, <1>3 DEF Rule
  <2> QED BY <2>1, <2>2, <2>3, <2>4
<1> HIDE DEF SS, SM, SI
<1>10. PICK n \in Nat : n = Len(r.swaps)
  BY SequenceIs DEF SleepStatesReport
<1>11. /\ Says(SwapLines(r.swaps), "swap device", n)
       /\ Says(SwapLines(r.swaps), "swap none", IF r.swaps = <<>> THEN 1 ELSE 0)
       /\ r.swaps = <<>> => Has(SwapLines(r.swaps), <<"swap none">>)
       /\ r.swaps # <<>> =>
            Has(SwapLines(r.swaps), SwapTotal(r.swaps))
  BY <1>10, SwapLinesSay DEF SleepStatesReport
<1>12. ASSUME NEW k \in SwapKinds, NEW m \in Nat, Says(SwapLines(r.swaps), k, m)
       PROVE  Says(Section("hibernation mode", H), k, m)
  <2>1. Says(DC \o DA, k, 0)
    BY <1>4, <1>5, SaysMore
  <2>2. Says(H, k, 0 + m)
    BY <1>12, <2>1, SaysJoined
  <2>3. 0 + m = m
    OBVIOUS
  <2> HIDE DEF H
  <2> QED BY <1>8, <2>2, <2>3, SaysSection
<1>13. ASSUME NEW k \in SwapKinds, NEW m \in Nat, Says(SH, k, m)
       PROVE  Says(P, k, m)
  <2> HIDE DEF SH
  <2>1. Says(SS \o SM, k, 0)
    BY <1>9, SaysMore
  <2>2. Says(SS \o SM \o SH, k, 0 + m)
    BY <1>13, <2>1, SaysJoined
  <2>3. 0 + m = m
    OBVIOUS
  <2>4. Says(SS \o SM \o SH, k, m)
    BY <2>2, <2>3
  <2> QED BY <1>9, <2>4, SaysMore
<1>14. ASSUME NEW line, IsSequence(SH), Has(SH, line)
       PROVE  Has(P, line)
  <2> HIDE DEF SH
  <2>1. IsSequence(SS) /\ IsSequence(SM) /\ IsSequence(SI) /\ IsSequence(Rule)
    BY <1>9 DEF Says, SwapKinds
  <2>2. IsSequence(SS \o SM) /\ IsSequence(SS \o SM \o SH) /\ IsSequence(SS \o SM \o SH \o SI)
    BY <1>14, <2>1, Joined
  <2> QED BY <1>14, <2>1, <2>2, HasJoined
<1>15. "swap none" \in SwapKinds /\ "swap device" \in SwapKinds
  BY DEF SwapKinds
<1>16. CASE "disk" \notin Range(r.states)
  <2>1. SH = <<>>
    BY <1>16 DEF Only
  <2>2. Says(SH, "swap none", 0)
    BY <2>1, SaysNothing
  <2> HIDE DEF SH, P
  <2>3. Says(P, "swap none", 0)
    BY <1>13, <1>15, <2>2
  <2> QED BY <1>1, <1>16, <2>3 DEF Says
<1>17. CASE "disk" \in Range(r.states)
  <2>1. SH = Section("hibernation mode", H)
    BY <1>17 DEF Only
  <2>2. Says(SH, "swap device", n)
    BY <1>11, <1>12, <1>15, <2>1
  <2>3. Says(SH, "swap none", IF r.swaps = <<>> THEN 1 ELSE 0)
    <3>1. (IF r.swaps = <<>> THEN 1 ELSE 0) \in Nat
      OBVIOUS
    <3> HIDE DEF SH, H
    <3> QED BY <1>11, <1>12, <1>15, <2>1, <3>1
  <2>4. ASSUME NEW line, Has(SwapLines(r.swaps), line) PROVE Has(SH, line)
    <3>1. Section("hibernation mode", H) = << <<"section", "hibernation mode">> >> \o H
      BY DEF Section
    <3>2. IsSequence(DC) /\ IsSequence(DA) /\ IsSequence(SwapLines(r.swaps))
      BY <1>4, <1>5, <1>11, <1>15 DEF Says
    <3>3. IsSequence(DC \o DA) /\ IsSequence(H)
      BY <3>2, Joined
    <3>4. Has(H, line)
      BY <2>4, <3>2, <3>3, HasJoined
    <3> HIDE DEF H
    <3>5. IsSequence(<< <<"section", "hibernation mode">> >>)
      BY Singles
    <3> HIDE DEF SH
    <3> QED BY <2>1, <3>1, <3>3, <3>4, <3>5, HasJoined
  <2>5. IsSequence(SH)
    BY <2>2 DEF Says
  <2> HIDE DEF SH, P, H
  <2>6. Says(P, "swap device", n)
    BY <1>13, <1>15, <2>2
  <2>7. r.swaps = <<>> => Has(P, <<"swap none">>)
    BY <1>11, <1>14, <2>4, <2>5
  <2>8. r.swaps # <<>> =>
          Has(P, SwapTotal(r.swaps))
    BY <1>11, <1>14, <2>4, <2>5
  <2>9. r.swaps # <<>> => Says(P, "swap none", 0)
    BY <1>13, <1>15, <2>3
  <2> QED BY <1>1, <1>10, <1>17, <2>6, <2>7, <2>8, <2>9 DEF Says
<1> QED BY <1>16, <1>17

\* A call of sleepstates.
LEMMA SleepStatesCall ==
  ASSUME NEW c \in SleepStatesCalls
  PROVE  /\ c.cmd = "sleepstates" /\ c.format \in Formats /\ c.flags.verbose \in BOOLEAN
         /\ IsSequence(OrEmpty(c.sources.state)) /\ IsSequence(OrEmpty(c.sources.image_size))
         /\ IsSequence(OrEmpty(c.sources.swaps)) /\ Len(OrEmpty(c.sources.swaps)) \in 0..2
         /\ \A i \in UsableSwaps(OrEmpty(c.sources.swaps)) :
              OrEmpty(c.sources.swaps)[i].size[1] \in Nat
         /\ c.sources.image_size \in {None, Some(None), Some(Some(7))}
<1> DEFINE ST == {None, Some(<<>>), Some(<<"mem", "odd">>), Some(<<"freeze", "disk">>)}
           SM == {None, Some(<<Token("odd")>>), Some(<<Token("s2idle"), Current("deep")>>)}
           SD == {None, Some(<<Current("platform"), Token("shutdown")>>)}
           W == {Swap(2, "sda", None), Swap(5, "sdb", None),
                 Swap(5, "sdc", Some(4096)), Swap(5, "zram", Some(512))}
           SS == {None} \union {Some(<<Header>> \o s) : s \in SeqOf(W, 1)}
           SI == {None, Some(None), Some(Some(7))}
           S == [state : ST, mem_sleep : SM, disk : SD, swaps : SS, image_size : SI]
<1>1. c \in Calls("sleepstates", Verbosely, S)
  BY DEF SleepStatesCalls
<1> HIDE DEF S
<1>2. c.cmd = "sleepstates" /\ c.format \in Formats /\ c.flags \in Verbosely /\ c.sources \in S
  BY <1>1, CallIs
<1>3. c.flags.verbose \in BOOLEAN
  BY <1>2 DEF Verbosely
<1>4. c.sources.state \in ST /\ c.sources.swaps \in SS /\ c.sources.image_size \in SI
  <2> HIDE DEF ST, SM, SD, SS, SI
  <2> QED BY <1>2 DEF S
<1>5. \A x : OrEmpty(None) = <<>> /\ OrEmpty(Some(x)) = x
  BY DEF OrEmpty, Some, None
<1>6. IsSequence(OrEmpty(c.sources.state))
  <2>1. <<"mem", "odd">> \in Seq({"mem", "odd"}) /\ <<"freeze", "disk">> \in Seq({"freeze", "disk"})
    OBVIOUS
  <2>2. IsSequence(<<>>) /\ IsSequence(<<"mem", "odd">>) /\ IsSequence(<<"freeze", "disk">>)
    BY <2>1, Singles DEF IsSequence
  <2>3. OrEmpty(c.sources.state) \in {<<>>, <<"mem", "odd">>, <<"freeze", "disk">>}
    BY <1>4, <1>5
  <2> QED BY <2>2, <2>3
<1>7. IsSequence(OrEmpty(c.sources.image_size))
  <2>1. OrEmpty(c.sources.image_size) \in {<<>>, None, Some(7)}
    BY <1>4, <1>5
  <2>2. IsSequence(<<>>) /\ IsSequence(None) /\ IsSequence(Some(7))
    BY Singles DEF None, Some
  <2> QED BY <2>1, <2>2
<1>8. \A w \in W : w.size # None => w.size[1] \in Nat
  BY DEF Swap, Some, None
<1> HIDE DEF W
<1>9. CASE c.sources.swaps = None
  <2>1. OrEmpty(c.sources.swaps) = <<>>
    BY <1>5, <1>9
  <2>2. UsableSwaps(<<>>) = {} /\ IsSequence(<<>>) /\ Len(<<>>) = 0
    <3>1. \A t : DOMAIN t = {} => UsableSwaps(t) = {}
      BY DEF UsableSwaps
    <3>2. DOMAIN <<>> = {}
      OBVIOUS
    <3> QED BY <3>1, <3>2, Singles
  <2> QED BY <1>2, <1>3, <1>4, <1>6, <1>7, <2>1, <2>2
<1>10. CASE \E s \in SeqOf(W, 1) : c.sources.swaps = Some(<<Header>> \o s)
  <2>1. PICK s \in SeqOf(W, 1) : c.sources.swaps = Some(<<Header>> \o s)
    BY <1>10
  <2> DEFINE t == <<Header>> \o s
  <2>2. OrEmpty(c.sources.swaps) = t
    BY <1>5, <2>1
  <2>3. IsSequence(s) /\ Len(s) \in 0..1 /\ \A i \in 1..Len(s) : s[i] \in W
    BY Bounded
  <2>4. IsSequence(<<Header>>) /\ Len(<<Header>>) = 1
    BY Singles
  <2>5. /\ IsSequence(t) /\ Len(t) = 1 + Len(s)
        /\ \A i \in 1..Len(s) : t[1 + i] = s[i]
    BY <2>3, <2>4, Joined
  <2> HIDE DEF t
  <2>6. Len(t) \in 0..2
    BY <2>3, <2>5
  <2>7. ASSUME NEW i \in UsableSwaps(t) PROVE t[i].size[1] \in Nat
    <3>1. i \in 1..Len(t) /\ i > 1 /\ t[i].size # None
      BY <2>5, SequenceIs DEF UsableSwaps
    <3>2. Len(s) = 0 \/ Len(s) = 1
      BY <2>3
    <3>3. i = 2 /\ Len(s) = 1
      BY <2>5, <3>1, <3>2
    <3>4. 1 \in 1..Len(s) /\ 1 + 1 = 2
      BY <3>3
    <3>5. t[2] = s[1] /\ s[1] \in W
      BY <2>3, <2>5, <3>4
    <3> QED BY <1>8, <3>1, <3>3, <3>5
  <2> QED BY <1>2, <1>3, <1>4, <1>6, <1>7, <2>2, <2>5, <2>6, <2>7
<1> QED BY <1>4, <1>9, <1>10

\* What the report of sleepstates says of hibernation is what the files hold.
LEMMA SleepStatesAgree ==
  ASSUME call \in SleepStatesCalls, out = Text(call, Build(call))
  PROVE  IsSequence(out) /\ SleepStatesVerdict(call.sources)
<1> DEFINE s == call.sources
           verbose == call.flags.verbose
           r == BuildSleepStates(s, verbose)
           text == OrEmpty(s.swaps)
           usable == {i \in DOMAIN OrEmpty(s.swaps) :
                        i > 1 /\ s.swaps[1][i].cols >= 3 /\ s.swaps[1][i].size # None}
           kb == MapThenSumSet(LAMBDA i : s.swaps[1][i].size[1], usable)
           hibernates == s.state # None /\ \E i \in DOMAIN s.state[1] : s.state[1][i] = "disk"
<1>1. /\ call.cmd = "sleepstates" /\ verbose \in BOOLEAN
      /\ IsSequence(OrEmpty(s.state)) /\ IsSequence(OrEmpty(s.image_size))
      /\ IsSequence(text) /\ Len(text) \in 0..2
      /\ \A i \in UsableSwaps(text) : text[i].size[1] \in Nat
  BY SleepStatesCall
<1>2. out = PrintSleepStates(r, verbose)
  BY <1>1 DEF Text, Build
<1>3. /\ r.states = OrEmpty(s.state) /\ r.swaps = ParseSwaps(text)
      /\ r.mem = ParseBracketedModes(OrEmpty(s.mem_sleep))
      /\ r.disk = ParseBracketedModes(OrEmpty(s.disk))
      /\ r.image_size = IF verbose THEN OrEmpty(s.image_size) ELSE None
  BY DEF BuildSleepStates
<1>4. \A tokens : IsSequence(ParseBracketedModes(tokens).current)
  <2> SUFFICES ASSUME NEW tokens PROVE IsSequence(ParseBracketedModes(tokens).current)
    OBVIOUS
  <2>1. \/ ParseBracketedModes(tokens).current = <<>>
        \/ \E x : ParseBracketedModes(tokens).current = <<x>>
    BY DEF ParseBracketedModes, None, Some
  <2> QED BY <2>1, Singles
<1>5. usable = UsableSwaps(text) /\ (usable # {} => text = s.swaps[1])
  <2>1. CASE s.swaps = None
    BY <2>1 DEF OrEmpty, UsableSwaps
  <2>2. CASE s.swaps # None
    BY <2>2 DEF OrEmpty, UsableSwaps
  <2> QED BY <2>1, <2>2
<1>6. hibernates <=> "disk" \in Range(r.states)
  <2>1. CASE s.state = None
    <3>1. r.states = <<>>
      BY <1>3, <2>1 DEF OrEmpty
    <3> QED BY <2>1, <3>1 DEF Range
  <2>2. CASE s.state # None
    <3>1. r.states = s.state[1]
      BY <1>3, <2>2 DEF OrEmpty
    <3> HIDE DEF r
    <3> QED BY <2>2, <3>1 DEF Range
  <2> QED BY <2>1, <2>2
<1>7. \/ usable = {} /\ r.swaps = <<>>
      \/ usable = {2} /\ r.swaps = <<SwapOf(text[2])>>
  <2> HIDE DEF usable, r, text
  <2> QED BY <1>1, <1>3, <1>5, SwapsParsed
<1> HIDE DEF r
<1>8. IsSequence(r.swaps) /\ Len(r.swaps) = Cardinality(usable) /\ (r.swaps = <<>> <=> usable = {})
  <2> HIDE DEF usable, text
  <2>1. /\ IsSequence(<<>>) /\ Len(<<>>) = 0
        /\ IsSequence(<<SwapOf(text[2])>>) /\ Len(<<SwapOf(text[2])>>) = 1
    BY Singles
  <2>2. Cardinality({}) = 0 /\ Cardinality({2}) = 1
    BY FS_EmptySet, FS_Singleton
  <2>3. CASE usable = {} /\ r.swaps = <<>>
    BY <2>1, <2>2, <2>3
  <2>4. CASE usable = {2} /\ r.swaps = <<SwapOf(text[2])>>
    <3>1. r.swaps # <<>>
      BY <2>1, <2>4
    <3>2. {2} # {}
      OBVIOUS
    <3> QED BY <2>1, <2>2, <2>4, <3>1, <3>2
  <2> QED BY <1>7, <2>3, <2>4
<1>9. SleepStatesReport(r)
  <2>1. IsSequence(None)
    BY Singles DEF None
  <2> HIDE DEF s, text, usable
  <2> QED BY <1>1, <1>3, <1>4, <1>8, <2>1 DEF SleepStatesReport
<1>10. usable # {} => SwapTotal(r.swaps) = <<"swap", kb \div 1024>>
  <2> SUFFICES ASSUME usable # {} PROVE SwapTotal(r.swaps) = <<"swap", kb \div 1024>>
    OBVIOUS
  <2> HIDE DEF text, s
  <2>1. text = s.swaps[1]
    BY <1>5
  <2> HIDE DEF usable
  <2>2. usable = {2} /\ r.swaps = <<SwapOf(text[2])>>
    BY <1>7
  <2>3. text[2].size[1] \in Nat
    BY <1>1, <1>5, <2>2
  <2>4. kb = text[2].size[1]
    <3>1. MapThenSumSet(LAMBDA i : text[i].size[1], {2}) = text[2].size[1]
      BY <2>3, OneSize
    <3> QED BY <2>1, <2>2, <3>1
  <2>5. DOMAIN r.swaps = {1} /\ r.swaps[1].size_kb = text[2].size[1]
    BY <2>2 DEF SwapOf
  <2>6. SizesOf(r.swaps) = r.swaps[1].size_kb
    <3>1. MapThenSumSet(LAMBDA i : r.swaps[i].size_kb, {1}) = r.swaps[1].size_kb
      <4>1. r.swaps[1].size_kb \in Nat
        BY <2>3, <2>5
      <4> DEFINE t == r.swaps
      <4> HIDE DEF t
      <4>2. MapThenSumSet(LAMBDA i : t[i].size_kb, {1}) = t[1].size_kb
        BY <4>1, OneSizeKb DEF t
      <4> QED BY <4>2 DEF t
    <3> QED BY <2>5, <3>1 DEF SizesOf
  <2> HIDE DEF kb
  <2> QED BY <2>4, <2>5, <2>6 DEF SwapTotal
<1> HIDE DEF s, verbose, text, usable, kb, hibernates
<1>11. /\ IsSequence(out)
       /\ ~hibernates => Says(out, "swap none", 0)
       /\ hibernates =>
            /\ Says(out, "swap device", Cardinality(usable))
            /\ usable = {} => Has(out, <<"swap none">>)
            /\ usable # {} => Says(out, "swap none", 0) /\ Has(out, SwapTotal(r.swaps))
  BY <1>1, <1>2, <1>6, <1>8, <1>9, SleepStatesPrinted
<1>12. Says(out, "swap none", 0) => ~Has(out, <<"swap none">>)
  <2>1. <<"swap none">>[1] = "swap none"
    OBVIOUS
  <2> QED BY <1>11, <2>1, NotThere DEF Says
<1>13. Printed(<<"swap none">>) <=> hibernates /\ usable = {}
  BY <1>11, <1>12, CountIs
<1>14. hibernates /\ usable # {} => Printed(<<"swap", kb \div 1024>>)
  <2>1. hibernates /\ usable # {} => Has(out, SwapTotal(r.swaps))
    BY <1>11
  <2>2. hibernates /\ usable # {} => Printed(SwapTotal(r.swaps))
    BY <1>11, <2>1, CountIs
  <2> QED BY <1>10, <2>2
<1>15. hibernates => Count("swap device") = Cardinality(usable)
  BY <1>11, CountIs DEF Says
<1>16. SleepStatesVerdict(s)
  BY <1>13, <1>14, <1>15 DEF SleepStatesVerdict, s, usable, kb, hibernates
<1> QED BY <1>11, <1>16 DEF s

-----------------------------------------------------------------------------
(* The reports of energy and lastwake.                                     *)

\* A line for each element, a condition, a title: what is a sequence stays one.
LEMMA MappedSequence ==
  ASSUME NEW s, IsSequence(s), NEW t, DOMAIN t = DOMAIN s, t = [i \in DOMAIN s |-> t[i]]
  PROVE  IsSequence(t)
<1>1. DOMAIN s = 1..Len(s) /\ Len(s) \in Nat
  BY SequenceIs
<1> QED BY <1>1, Sequences

\* Lines that are printed on a condition are a sequence.
LEMMA OnlySequence ==
  ASSUME NEW s, IsSequence(s), NEW condition
  PROVE  IsSequence(Only(condition, s))
BY Singles DEF Only

\* A section under its title is a sequence.
LEMMA SectionSequence ==
  ASSUME NEW s, IsSequence(s), NEW title
  PROVE  IsSequence(Section(title, s))
<1>1. IsSequence(<< <<"section", title>> >>)
  BY Singles
<1> QED BY <1>1, Joined DEF Section

\* A rule is a sequence.
LEMMA RuleSequence == IsSequence(Rule)
BY Singles DEF Rule

\* What is in the report of energy.
EnergyReport(r) ==
  /\ IsSequence(r.supplies) /\ IsSequence(r.temperatures)
  /\ IsSequence(r.cpu.driver) /\ IsSequence(r.cpu.governor) /\ IsSequence(r.cpu.cur)
  /\ IsSequence(r.cpu.epp) /\ IsSequence(r.cpu.epp_available)

\* The report of energy is a sequence of lines.
LEMMA EnergyPrinted ==
  ASSUME NEW r, EnergyReport(r), NEW verbose
  PROVE  IsSequence(PrintEnergy(r, verbose))
<1> DEFINE c == r.cpu
           S == [i \in DOMAIN r.supplies |-> SupplyLine(r.supplies[i])]
           T == [i \in DOMAIN r.temperatures |-> <<"temperature", r.temperatures[i]>>]
           D == [i \in DOMAIN c.driver |-> <<"driver", c.driver[i]>>]
           G == [i \in DOMAIN c.governor |-> <<"governor", c.governor[i]>>]
           F == [i \in DOMAIN c.cur |->
                   <<"current", FormatFreq(c.cur[i]),
                     IF c.min # None /\ c.max # None
                     THEN <<FormatFreq(c.min[1]), FormatFreq(c.max[1])>> ELSE None>>]
           E == [i \in DOMAIN c.epp |-> <<"epp", c.epp[i]>>]
           A == [i \in DOMAIN c.epp_available |-> <<"available", c.epp_available[i]>>]
           OA == Only(c.epp # None /\ verbose, A)
           N == << <<"cores", c.cpu_count>> >>
           C == D \o G \o F \o E \o OA \o N
           SU == IF r.supplies = <<>> THEN << <<"no supplies">> >> ELSE S
           OT == Only(r.temperatures # <<>>, Section("temperatures", T))
           V == << <<"events", r.throttle_count>> >>
           OV == Only(r.throttle_count > 0, Section("thermal throttling", V))
<1>1. PrintEnergy(r, verbose)
      = Section("power supplies", SU) \o Section("cpu frequency", C) \o OT \o OV \o Rule
  BY DEF PrintEnergy, CpuLines, Map
<1>2. /\ IsSequence(r.supplies) /\ IsSequence(r.temperatures)
      /\ IsSequence(c.driver) /\ IsSequence(c.governor) /\ IsSequence(c.cur)
      /\ IsSequence(c.epp) /\ IsSequence(c.epp_available)
  BY DEF EnergyReport
<1> HIDE DEF c
<1>3. /\ DOMAIN S = DOMAIN r.supplies /\ S = [i \in DOMAIN r.supplies |-> S[i]]
      /\ DOMAIN T = DOMAIN r.temperatures /\ T = [i \in DOMAIN r.temperatures |-> T[i]]
  OBVIOUS
<1>4. /\ DOMAIN D = DOMAIN c.driver /\ D = [i \in DOMAIN c.driver |-> D[i]]
      /\ DOMAIN G = DOMAIN c.governor /\ G = [i \in DOMAIN c.governor |-> G[i]]
      /\ DOMAIN E = DOMAIN c.epp /\ E = [i \in DOMAIN c.epp |-> E[i]]
      /\ DOMAIN A = DOMAIN c.epp_available /\ A = [i \in DOMAIN c.epp_available |-> A[i]]
  OBVIOUS
<1>5. DOMAIN F = DOMAIN c.cur /\ F = [i \in DOMAIN c.cur |-> F[i]]
  OBVIOUS
<1> HIDE DEF S, T, D, G, E, A, F
<1>6. IsSequence(S) /\ IsSequence(T)
  BY <1>2, <1>3, MappedSequence
<1>7. IsSequence(D) /\ IsSequence(G) /\ IsSequence(E) /\ IsSequence(A)
  BY <1>2, <1>4, MappedSequence
<1>8. IsSequence(F)
  BY <1>2, <1>5, MappedSequence
<1>9. IsSequence(OA)
  BY <1>7, OnlySequence
<1>10. IsSequence(N) /\ IsSequence(V) /\ IsSequence(<< <<"no supplies">> >>)
  BY Singles
<1> HIDE DEF OA, N, V
<1>11. IsSequence(C)
  <2>1. IsSequence(D \o G) /\ IsSequence(D \o G \o F) /\ IsSequence(D \o G \o F \o E)
    BY <1>7, <1>8, Joined
  <2>2. IsSequence(D \o G \o F \o E \o OA)
    BY <1>9, <2>1, Joined
  <2> QED BY <1>10, <2>2, Joined
<1>12. IsSequence(SU)
  BY <1>6, <1>10
<1>13. IsSequence(OT)
  BY <1>6, OnlySequence, SectionSequence
<1>14. IsSequence(OV)
  <2>1. IsSequence(Section("thermal throttling", V))
    BY <1>10, SectionSequence
  <2> QED BY <2>1, OnlySequence
<1> HIDE DEF SU, C, OT, OV
<1>15. IsSequence(Section("power supplies", SU)) /\ IsSequence(Section("cpu frequency", C))
  BY <1>11, <1>12, SectionSequence
<1>16. /\ IsSequence(Section("power supplies", SU) \o Section("cpu frequency", C))
       /\ IsSequence(Section("power supplies", SU) \o Section("cpu frequency", C) \o OT)
       /\ IsSequence(Section("power supplies", SU) \o Section("cpu frequency", C) \o OT \o OV)
  BY <1>13, <1>14, <1>15, Joined
<1> QED BY <1>1, <1>16, RuleSequence, Joined

\* What is in the report of lastwake.
LastWakeReport(r) ==
  /\ IsSequence(r.device)
  /\ r.dmesg_wake # None => IsSequence(r.dmesg_wake[1])
  /\ r.acpi_enabled # None => IsSequence(r.acpi_enabled[1])
  /\ r.history # None => IsSequence(r.history[1])

\* The report of lastwake is a sequence of lines.
LEMMA LastWakePrinted ==
  ASSUME NEW r, LastWakeReport(r), NEW verbose, NEW history
  PROVE  IsSequence(PrintLastWake(r, verbose, history))
<1> DEFINE L == << <<"sleep time", r.last_sleep>>, <<"wake time", r.last_wake>> >>
           U == << <<"duration", FormatDuration(r.last_wake[1] - r.last_sleep[1])>> >>
           OU == Only(r.last_sleep # None /\ r.last_wake # None /\ r.last_wake[1] > r.last_sleep[1], U)
           Q == << <<"irq", r.wake_irq>> >>
           D == [i \in DOMAIN r.device |-> <<"irq device", r.device[i]>>]
           OD == Only(r.wake_irq # None, D)
           M == [i \in DOMAIN r.dmesg_wake[1] |->
                   <<"message">> \o TruncateKernelWakeLine(r.dmesg_wake[1][i].length)]
           OM == Only(verbose /\ r.dmesg_wake \notin {None, Some(<<>>)}, Section("kernel wake messages", M))
           A == [i \in DOMAIN r.acpi_enabled[1] |->
                   <<"acpi device", r.acpi_enabled[1][i].device, r.acpi_enabled[1][i].sysfs # None>>]
           NA == OrNone(IF r.acpi_enabled = None THEN <<>> ELSE A)
           OA == Only(verbose, Section("enabled acpi wake devices", NA))
           H == [i \in DOMAIN r.history[1] |-> <<"event", r.history[1][i]>>]
           NH == IF r.history \in {None, Some(<<>>)} THEN << <<"no events">> >> ELSE H
           OH == Only(history # None, Section("recent sleep/wake history", NH))
           SL == Section("last sleep/wake cycle", L \o OU)
           SQ == Section("wake source", Q \o OD)
<1>1. PrintLastWake(r, verbose, history) = SL \o SQ \o OM \o OA \o OH \o Rule
  BY DEF PrintLastWake, Map
<1>2. IsSequence(<< <<"no events">> >>) /\ IsSequence(U) /\ IsSequence(Q) /\ IsSequence(<<>>)
      /\ IsSequence(<< <<"none">> >>)
  BY Singles
<1>3. IsSequence(L)
  <2> DEFINE a == <<"sleep time", r.last_sleep>>
             b == <<"wake time", r.last_wake>>
  <2>1. L = <<a, b>>
    OBVIOUS
  <2> HIDE DEF a, b, L
  <2>2. <<a, b>> \in Seq({a, b})
    OBVIOUS
  <2> QED BY <2>1, <2>2 DEF IsSequence
<1> HIDE DEF L, U, Q
<1>4. IsSequence(SL)
  <2>1. IsSequence(OU)
    BY <1>2, OnlySequence
  <2> HIDE DEF OU
  <2>2. IsSequence(L \o OU)
    BY <1>3, <2>1, Joined
  <2> QED BY <2>2, SectionSequence
<1>5. IsSequence(SQ)
  <2>1. DOMAIN D = DOMAIN r.device /\ D = [i \in DOMAIN r.device |-> D[i]]
    OBVIOUS
  <2> HIDE DEF D
  <2>2. IsSequence(OD)
    BY <2>1, MappedSequence, OnlySequence DEF LastWakeReport
  <2> HIDE DEF OD
  <2>3. IsSequence(Q \o OD)
    BY <1>2, <2>2, Joined
  <2> QED BY <2>3, SectionSequence
<1>6. IsSequence(OM)
  <2>1. CASE r.dmesg_wake = None
    BY <1>2, <2>1 DEF Only
  <2>2. CASE r.dmesg_wake # None
    <3>1. DOMAIN M = DOMAIN r.dmesg_wake[1] /\ M = [i \in DOMAIN r.dmesg_wake[1] |-> M[i]]
      OBVIOUS
    <3>2. IsSequence(r.dmesg_wake[1])
      BY <2>2 DEF LastWakeReport
    <3> HIDE DEF M
    <3>3. IsSequence(Section("kernel wake messages", M))
      BY <3>1, <3>2, MappedSequence, SectionSequence
    <3> QED BY <3>3, OnlySequence
  <2> QED BY <2>1, <2>2
<1>7. IsSequence(OA)
  <2>1. IsSequence(IF r.acpi_enabled = None THEN <<>> ELSE A)
    <3>1. CASE r.acpi_enabled = None
      BY <1>2, <3>1
    <3>2. CASE r.acpi_enabled # None
      <4>1. DOMAIN A = DOMAIN r.acpi_enabled[1] /\ A = [i \in DOMAIN r.acpi_enabled[1] |-> A[i]]
        OBVIOUS
      <4>2. IsSequence(r.acpi_enabled[1])
        BY <3>2 DEF LastWakeReport
      <4> HIDE DEF A
      <4>3. IsSequence(A)
        BY <4>1, <4>2, MappedSequence
      <4> QED BY <3>2, <4>3
    <3> QED BY <3>1, <3>2
  <2> HIDE DEF A
  <2>2. IsSequence(NA)
    BY <1>2, <2>1 DEF OrNone
  <2> HIDE DEF NA
  <2> QED BY <2>2, SectionSequence, OnlySequence
<1>8. IsSequence(OH)
  <2>1. IsSequence(NH)
    <3>1. CASE r.history = None
      BY <1>2, <3>1
    <3>2. CASE r.history # None
      <4>1. DOMAIN H = DOMAIN r.history[1] /\ H = [i \in DOMAIN r.history[1] |-> H[i]]
        OBVIOUS
      <4>2. IsSequence(r.history[1])
        BY <3>2 DEF LastWakeReport
      <4> HIDE DEF H
      <4>3. IsSequence(H)
        BY <4>1, <4>2, MappedSequence
      <4> QED BY <1>2, <4>3
    <3> QED BY <3>1, <3>2
  <2> HIDE DEF NH
  <2> QED BY <2>1, SectionSequence, OnlySequence
<1> HIDE DEF SL, SQ, OM, OA, OH
<1>9. /\ IsSequence(SL \o SQ) /\ IsSequence(SL \o SQ \o OM) /\ IsSequence(SL \o SQ \o OM \o OA)
      /\ IsSequence(SL \o SQ \o OM \o OA \o OH)
  BY <1>4, <1>5, <1>6, <1>7, <1>8, Joined
<1> QED BY <1>1, <1>9, RuleSequence, Joined

\* What is read of a processor is one of what may be read.
LEMMA CpuReading ==
  ASSUME NEW D, NEW G, NEW U, NEW L, NEW H, NEW E, NEW A, NEW N,
         NEW c \in CpuReadings(D, G, U, L, H, E, A, N)
  PROVE  c.driver \in D /\ c.governor \in G /\ c.cur \in U /\ c.epp \in E /\ c.epp_available \in A
BY DEF CpuReadings

\* A value that may be absent is a sequence.
LEMMA CpuIs ==
  ASSUME NEW c \in Cpus \cup {NoCpu}
  PROVE  /\ IsSequence(c.driver) /\ IsSequence(c.governor) /\ IsSequence(c.cur)
         /\ IsSequence(c.epp) /\ IsSequence(c.epp_available)
<1>1. IsSequence(None) /\ \A x : IsSequence(Some(x))
  BY Singles DEF None, Some
<1>2. \A u \in Frequencies : u = None \/ \E n : u = Some(n)
  BY SMT DEF Frequencies
<1>3. CASE c = NoCpu
  <2>1. /\ c.driver = None /\ c.governor = None /\ c.cur = None
        /\ c.epp = None /\ c.epp_available = None
    BY <1>3 DEF NoCpu
  <2> QED BY <1>1, <2>1
<1>4. c \in CpuReadings({None}, {None}, Frequencies, Lowest, Highest, {None}, {None}, {2}) =>
        /\ c.driver \in {None} /\ c.governor \in {None} /\ c.cur \in Frequencies
        /\ c.epp \in {None} /\ c.epp_available \in {None}
  BY CpuReading
<1>5. c \in CpuReadings({Some("intel")}, {Some("powersave")}, {None}, {None}, {None},
                        {None, Some("power")}, {None, Some("power performance")}, {0}) =>
        /\ c.driver \in {Some("intel")} /\ c.governor \in {Some("powersave")}
        /\ c.cur \in {None} /\ c.epp \in {None, Some("power")}
        /\ c.epp_available \in {None, Some("power performance")}
  BY CpuReading
<1>6. c \in Cpus =>
        \/ c \in CpuReadings({None}, {None}, Frequencies, Lowest, Highest, {None}, {None}, {2})
        \/ c \in CpuReadings({Some("intel")}, {Some("powersave")}, {None}, {None}, {None},
                             {None, Some("power")}, {None, Some("power performance")}, {0})
  BY DEF Cpus
<1> QED BY <1>1, <1>2, <1>3, <1>4, <1>5, <1>6

\* A call of energy.
LEMMA EnergyCall ==
  ASSUME NEW c \in EnergyCalls
  PROVE  /\ c.cmd = "energy" /\ c.format \in Formats /\ c.flags.verbose \in BOOLEAN
         /\ EnergyReport(c.sources)
<1> DEFINE B == Supply(None, None, None, None)
           B1 == Supply(Some("Full"), Some(100), Some("Normal"), None)
           B2 == Supply(Some("Full"), None, Some("Normal"), Some(5))
           PS == {<<>>, <<B>>, <<B1, B2>>}
           TS == {<<>>, <<"Tctl">>}
           E1 == Energies({<<>>}, Cpus, {<<>>}, {0})
           E2 == Energies(PS, {NoCpu}, TS, {0, 3})
<1>1. c \in Calls("energy", Verbosely, E1 \union E2)
  BY DEF EnergyCalls
<1> HIDE DEF E1, E2
<1>2. c.cmd = "energy" /\ c.format \in Formats /\ c.flags \in Verbosely /\ c.sources \in E1 \union E2
  BY <1>1, CallIs
<1>3. c.flags.verbose \in BOOLEAN
  BY <1>2 DEF Verbosely
<1> HIDE DEF B, B1, B2
<1>4. /\ c.sources.supplies \in PS /\ c.sources.temperatures \in TS
      /\ c.sources.cpu \in Cpus \cup {NoCpu}
  <2>1. CASE c.sources \in E1
    BY <2>1 DEF E1, Energies
  <2>2. CASE c.sources \in E2
    <3> HIDE DEF PS, TS
    <3> QED BY <2>2 DEF E2, Energies
  <2> QED BY <1>2, <2>1, <2>2
<1>5. IsSequence(c.sources.supplies)
  <2>1. <<B1, B2>> \in Seq({B1, B2})
    OBVIOUS
  <2>2. IsSequence(<<B1, B2>>) /\ IsSequence(<<B>>) /\ IsSequence(<<>>)
    BY <2>1, Singles DEF IsSequence
  <2> QED BY <1>4, <2>2
<1>6. IsSequence(c.sources.temperatures)
  BY <1>4, Singles
<1> QED BY <1>2, <1>3, <1>4, <1>5, <1>6, CpuIs DEF EnergyReport, IsSequence

\* A call of lastwake.
LEMMA LastWakeCall ==
  ASSUME NEW c \in LastWakeCalls
  PROVE  /\ c.cmd = "lastwake" /\ c.format \in Formats /\ c.flags.verbose \in BOOLEAN
         /\ c.sources.dmesg # None => IsSequence(c.sources.dmesg[1])
         /\ c.sources.acpi # None =>
              IsSequence(c.sources.acpi[1]) /\ UsableAcpi(c.sources.acpi[1]) # {}
         /\ c.sources.history # None => IsSequence(c.sources.history[1])
<1> DEFINE A1 == AcpiLine(4, FALSE, None)
           A2 == AcpiLine(3, TRUE, None)
           G == [verbose : BOOLEAN, history : {None, Some(2)}]
<1>1. c \in Calls("lastwake", G, LastWakeSources)
  BY DEF LastWakeCalls
<1> HIDE DEF G
<1>2. c.cmd = "lastwake" /\ c.format \in Formats /\ c.flags \in G /\ c.sources \in LastWakeSources
  BY <1>1, CallIs
<1>3. c.flags.verbose \in BOOLEAN
  BY <1>2 DEF G
<1> DEFINE DN == [i \in 1..MessagesCap |-> Message(TRUE, LineMax + 1)]
           D0 == Message(FALSE, 1)
           D1 == Message(TRUE, LineMax)
<1>4. /\ c.sources.dmesg \in Dmesgs /\ c.sources.acpi \in AcpiTexts
      /\ c.sources.history \in Histories
  BY <1>2 DEF LastWakeSources
<1>9. Dmesgs = {None, Some(<<D0>>), Some(<<D1, D0>> \o DN)}
  BY DEF Dmesgs
<1>10. AcpiTexts = {None, Some(<<A1, A2, A1>>)}
  BY DEF AcpiTexts
<1> HIDE DEF A1, A2
<1>5. \A x : Some(x) # None /\ Some(x)[1] = x
  BY DEF Some, None
<1>6. c.sources.dmesg # None => IsSequence(c.sources.dmesg[1])
  <2>1. DOMAIN DN = 1..MessagesCap /\ DN = [i \in 1..MessagesCap |-> DN[i]] /\ MessagesCap \in Nat
    BY CapsAssumption
  <2> HIDE DEF D0, D1, DN
  <2>2. IsSequence(DN)
    BY <2>1, Sequences
  <2>3. <<D1, D0>> \in Seq({D1, D0})
    OBVIOUS
  <2>4. IsSequence(<<D1, D0>> \o DN) /\ IsSequence(<<D0>>)
    BY <2>2, <2>3, Singles, Joined DEF IsSequence
  <2> QED BY <1>4, <1>5, <1>9, <2>4
<1>7. c.sources.acpi # None =>
        IsSequence(c.sources.acpi[1]) /\ UsableAcpi(c.sources.acpi[1]) # {}
  <2> DEFINE t == <<A1, A2, A1>>
  <2>1. t \in Seq({A1, A2}) /\ Len(t) = 3 /\ t[2] = A2 /\ 2 \in DOMAIN t
    OBVIOUS
  <2>2. A2.cols >= 3
    BY DEF A2, AcpiLine
  <2>3. IsSequence(t)
    BY <2>1 DEF IsSequence
  <2> HIDE DEF t
  <2>4. 2 \in UsableAcpi(t)
    <3>1. 2 > 1 /\ t[2].cols >= 3
      BY <2>1, <2>2
    <3> QED BY <2>1, <3>1 DEF UsableAcpi
  <2>5. c.sources.acpi # None => c.sources.acpi[1] = t
    BY <1>4, <1>5, <1>10 DEF t
  <2> QED BY <2>3, <2>4, <2>5
<1>8. c.sources.history # None => IsSequence(c.sources.history[1])
  <2>1. <<"sleep", "wake">> \in Seq({"sleep", "wake"})
    OBVIOUS
  <2>2. IsSequence(<<"sleep", "wake">>) /\ IsSequence(<<>>)
    BY <2>1, Singles DEF IsSequence
  <2> QED BY <1>4, <1>5, <2>2 DEF Histories
<1> QED BY <1>2, <1>3, <1>6, <1>7, <1>8

\* The messages and the devices that speak of waking.
LEMMA MessagesParsed ==
  ASSUME NEW text, IsSequence(text)
  PROVE  IsSequence(ParseDmesgWakeLines(text))
<1> DEFINE ss == [i \in DOMAIN text |-> Only(text[i].wakes, <<text[i]>>)]
           t == FlattenSeq(ss)
           a == IF Len(t) > MessagesCap THEN Len(t) - MessagesCap + 1 ELSE 1
<1>1. ParseDmesgWakeLines(text) = SubSeq(t, a, Len(t))
  BY DEF ParseDmesgWakeLines, Keep, FlatMap, Map
<1>2. IsSequence(ss)
  <2>1. DOMAIN ss = DOMAIN text /\ ss = [i \in DOMAIN text |-> ss[i]]
    OBVIOUS
  <2> HIDE DEF ss
  <2> QED BY <2>1, MappedSequence
<1>3. \A i \in 1..Len(ss) : IsSequence(ss[i])
  <2>1. \A i \in DOMAIN ss : ss[i] = <<>> \/ ss[i] = <<text[i]>>
    BY DEF Only
  <2> HIDE DEF ss
  <2>2. DOMAIN ss = 1..Len(ss)
    BY <1>2, SequenceIs
  <2> QED BY <2>1, <2>2, Singles
<1>4. IsSequence(t)
  <2> HIDE DEF ss
  <2> QED BY <1>2, <1>3, FlattenSequence
<1> HIDE DEF t, ss
<1>5. PICK T : t \in Seq(T)
  BY <1>4 DEF IsSequence
<1>6. PICK n \in Nat : n = Len(t)
  BY <1>4, SequenceIs
<1>7. a \in 1..(n + 1)
  BY <1>6, CapsAssumption
<1>8. DOMAIN SubSeq(t, a, n) = 1..(n - a + 1)
      /\ SubSeq(t, a, n) = [i \in 1..(n - a + 1) |-> SubSeq(t, a, n)[i]]
  <2> HIDE DEF a
  <2>1. PICK m \in 1..(n + 1) : m = a
    BY <1>7
  <2>2. SubSeq(t, m, n) = [i \in 1..(n - m + 1) |-> t[m + i - 1]]
    OBVIOUS
  <2>3. DOMAIN SubSeq(t, m, n) = 1..(n - m + 1)
        /\ SubSeq(t, m, n) = [i \in 1..(n - m + 1) |-> SubSeq(t, m, n)[i]]
    BY <2>2
  <2> QED BY <2>1, <2>3
<1>9. n - a + 1 \in Nat
  BY <1>7
<1> HIDE DEF a
<1>10. IsSequence(SubSeq(t, a, n))
  BY <1>8, <1>9, Sequences
<1> QED BY <1>1, <1>6, <1>10

\* The devices that are enabled, kept from those that were parsed.
LEMMA EnabledParsed ==
  ASSUME NEW s, IsSequence(s)
  PROVE  IsSequence(Keep(s, LAMBDA d : d.enabled))
<1> DEFINE ss == [i \in DOMAIN s |-> Only(s[i].enabled, <<s[i]>>)]
<1>1. Keep(s, LAMBDA d : d.enabled) = FlattenSeq(ss)
  BY DEF Keep, FlatMap, Map
<1>2. IsSequence(ss)
  <2>1. DOMAIN ss = DOMAIN s /\ ss = [i \in DOMAIN s |-> ss[i]]
    OBVIOUS
  <2> HIDE DEF ss
  <2> QED BY <2>1, MappedSequence
<1>3. \A i \in 1..Len(ss) : IsSequence(ss[i])
  <2>1. \A i \in DOMAIN ss : ss[i] = <<>> \/ ss[i] = <<s[i]>>
    BY DEF Only
  <2> HIDE DEF ss
  <2>2. DOMAIN ss = 1..Len(ss)
    BY <1>2, SequenceIs
  <2> QED BY <2>1, <2>2, Singles
<1> HIDE DEF ss
<1>4. IsSequence(FlattenSeq(ss))
  BY <1>2, <1>3, FlattenSequence
<1> QED BY <1>1, <1>4

-----------------------------------------------------------------------------
(* The object of JSON.                                                     *)

\* A key that may be left out is there if there is something in it.
LEMMA KeyIs ==
  ASSUME NEW r, out = Json(r), NEW k \in Skipped, k \in DOMAIN r
  PROVE  k \in out[1][2] <=> r[k] # None
<1> DEFINE K == {j \in DOMAIN r : j \in Skipped => r[j] # None}
           L == <<"object", K>>
           N == <<"newline">>
<1>1. out = <<L, N>>
  BY DEF Json
<1>2. out[1] = L
  <2> HIDE DEF L, N
  <2> QED BY <1>1
<1>3. L[2] = K
  <2> HIDE DEF K
  <2> QED OBVIOUS
<1>4. out[1][2] = K
  <2> HIDE DEF L, K
  <2> QED BY <1>2, <1>3
<1> QED BY <1>4

\* The object and the newline behind it.
LEMMA JsonSequence ==
  ASSUME NEW r
  PROVE  IsSequence(Json(r))
<1> DEFINE L == <<"object", {j \in DOMAIN r : j \in Skipped => r[j] # None}>>
           N == <<"newline">>
<1>1. Json(r) = <<L, N>>
  BY DEF Json
<1> HIDE DEF L, N
<1>2. <<L, N>> \in Seq({L, N})
  OBVIOUS
<1> QED BY <1>1, <1>2 DEF IsSequence

\* The keys follow the flags, command by command.
LEMMA SleepStatesKeys ==
  ASSUME call \in SleepStatesCalls, out = Json(Build(call))
  PROVE  KeysFollowFlags(call.sources)
<1> DEFINE s == call.sources
           verbose == call.flags.verbose
           r == BuildSleepStates(s, verbose)
<1>1. /\ call.cmd = "sleepstates" /\ verbose \in BOOLEAN
      /\ s.image_size \in {None, Some(None), Some(Some(7))}
  BY SleepStatesCall
<1>2. out = Json(r)
  BY <1>1 DEF Build
<1>3. /\ "image_size" \in Skipped /\ "image_size" \in DOMAIN r
      /\ r.image_size = IF verbose THEN OrEmpty(s.image_size) ELSE None
  BY DEF Skipped, BuildSleepStates
<1> HIDE DEF r
<1>4. "image_size" \in out[1][2] <=> r.image_size # None
  BY <1>2, <1>3, KeyIs
<1>5. OrEmpty(s.image_size) # None <=> s.image_size \notin {None, Some(None)}
  <2>1. \A x : OrEmpty(None) = None /\ OrEmpty(Some(x)) = x /\ Some(x) # None
    BY DEF OrEmpty, Some, None
  <2>2. Some(Some(7)) # Some(None)
    <3>1. Some(Some(7))[1] = Some(7) /\ Some(None)[1] = None
      BY DEF Some
    <3> QED BY <2>1, <3>1
  <2>3. CASE s.image_size = None
    BY <2>1, <2>3
  <2>4. CASE s.image_size = Some(None)
    BY <2>1, <2>4
  <2>5. CASE s.image_size = Some(Some(7))
    BY <2>1, <2>2, <2>5
  <2> QED BY <1>1, <2>3, <2>4, <2>5
<1>6. "image_size" \in out[1][2] <=> verbose /\ s.image_size \notin {None, Some(None)}
  BY <1>1, <1>3, <1>4, <1>5
<1> QED BY <1>1, <1>6 DEF KeysFollowFlags

\* The USB devices are a key of requests exactly with --verbose.
LEMMA RequestsKeys ==
  ASSUME call \in RequestsCalls, out = Json(Build(call))
  PROVE  KeysFollowFlags(call.sources)
<1> DEFINE s == call.sources
           verbose == call.flags.verbose
           r == BuildRequests(s, verbose)
<1>1. /\ call.cmd = "requests" /\ verbose \in BOOLEAN
      /\ s \in [inhibitors : {s.inhibitors}, wake_locks : {s.wake_locks},
                audio_streams : {s.audio_streams}, vms : {s.vms}, usb_wakeup : {s.usb_wakeup}]
  BY RequestsCall
<1>2. out = Json(r)
  BY <1>1 DEF Build
<1>3. /\ "usb_wakeup" \in Skipped /\ "usb_wakeup" \in DOMAIN r
      /\ r.usb_wakeup = IF verbose THEN s.usb_wakeup ELSE None
  <2> HIDE DEF s, verbose
  <2> QED BY <1>1 DEF Skipped, BuildRequests
<1> HIDE DEF r
<1>4. "usb_wakeup" \in out[1][2] <=> r.usb_wakeup # None
  BY <1>2, <1>3, KeyIs
<1>5. "usb_wakeup" \in out[1][2] <=> verbose /\ s.usb_wakeup # None
  BY <1>1, <1>3, <1>4
<1> QED BY <1>1, <1>5 DEF KeysFollowFlags

\* All timers are a key of waketimers exactly with --verbose and a list that
\* could be read.
LEMMA WakeTimersKeys ==
  ASSUME call \in WakeTimersCalls, out = Json(Build(call))
  PROVE  KeysFollowFlags(call.sources)
<1> DEFINE s == call.sources
           verbose == call.flags.verbose
           r == BuildWakeTimers(s, verbose)
<1>1. call.cmd = "waketimers" /\ verbose \in BOOLEAN
  BY WakeTimersCall
<1>2. out = Json(r)
  BY <1>1 DEF Build
<1>3. /\ "all_timers" \in Skipped /\ "all_timers" \in DOMAIN r
      /\ r.all_timers = IF verbose THEN s.timers ELSE None
  BY DEF Skipped, BuildWakeTimers
<1> HIDE DEF r
<1>4. "all_timers" \in out[1][2] <=> r.all_timers # None
  BY <1>2, <1>3, KeyIs
<1>5. "all_timers" \in out[1][2] <=> verbose /\ s.timers # None
  BY <1>1, <1>3, <1>4
<1> QED BY <1>1, <1>5 DEF KeysFollowFlags

\* Nothing or a single thing, whatever it is, is a sequence.
LEMMA AtMostOne ==
  \A f : (f = <<>> \/ \E x : f = <<x>>) => IsSequence(f)
<1>1. IsSequence(<<>>) /\ \A x : IsSequence(<<x>>)
  BY Singles
<1> QED BY <1>1

\* What the report of lastwake holds, from what its sources hold.
LEMMA LastWakeBuilt ==
  ASSUME NEW c \in LastWakeCalls, NEW r, r = BuildLastWake(c.sources, c.flags)
  PROVE  /\ LastWakeReport(r)
         /\ {"dmesg_wake", "acpi_enabled", "history"} \subseteq DOMAIN r
         /\ r.dmesg_wake # None <=> c.flags.verbose /\ c.sources.dmesg # None
         /\ r.acpi_enabled # None <=> c.flags.verbose /\ c.sources.acpi # None
         /\ r.history # None <=> c.flags.history # None /\ c.sources.history # None
<1> DEFINE s == c.sources
           verbose == c.flags.verbose
           devices == IF s.acpi = None THEN None ELSE ParseAcpiWakeup(s.acpi[1])
           E == Keep(devices[1], LAMBDA d : d.enabled)
<1>1. /\ verbose \in BOOLEAN
      /\ s.dmesg # None => IsSequence(s.dmesg[1])
      /\ s.acpi # None => IsSequence(s.acpi[1]) /\ UsableAcpi(s.acpi[1]) # {}
      /\ s.history # None => IsSequence(s.history[1])
  BY LastWakeCall
<1>2. /\ {"dmesg_wake", "acpi_enabled", "history"} \subseteq DOMAIN r
      /\ r.device = IF s.wake_irq = None \/ s.interrupts = None THEN None
                    ELSE FindIrqInfo(s.interrupts[1], s.wake_irq[1])
      /\ r.dmesg_wake = IF verbose /\ s.dmesg # None
                        THEN Some(ParseDmesgWakeLines(s.dmesg[1])) ELSE None
      /\ r.acpi_enabled = IF verbose /\ devices # None THEN Some(E) ELSE None
      /\ r.history = IF c.flags.history = None THEN None ELSE s.history
  BY DEF BuildLastWake
<1>3. \A x : Some(x) # None /\ Some(x)[1] = x
  BY DEF Some, None
<1>4. devices # None <=> s.acpi # None
  BY <1>1, AcpiParsed
<1>5. s.acpi # None => IsSequence(E)
  <2> SUFFICES ASSUME s.acpi # None PROVE IsSequence(E)
    OBVIOUS
  <2>1. IsSequence(OrEmpty(ParseAcpiWakeup(s.acpi[1]))) /\ ParseAcpiWakeup(s.acpi[1]) # None
    BY <1>1, AcpiParsed
  <2>2. IsSequence(devices[1])
    BY <2>1 DEF OrEmpty
  <2> DEFINE dd == devices[1]
  <2>3. IsSequence(dd)
    BY <2>2
  <2> HIDE DEF dd
  <2>4. IsSequence(Keep(dd, LAMBDA d : d.enabled))
    BY <2>3, EnabledParsed
  <2> QED BY <2>4 DEF dd
<1>6. IsSequence(r.device)
  <2>1. \A text, irq : FindIrqInfo(text, irq) = <<>> \/ \E x : FindIrqInfo(text, irq) = <<x>>
    BY DEF FindIrqInfo, None, Some
  <2>2. IsSequence(None)
    BY Singles DEF None
  <2>3. \A text, irq : IsSequence(FindIrqInfo(text, irq))
    BY <2>1, AtMostOne
  <2> QED BY <1>2, <2>2, <2>3
<1> HIDE DEF s, verbose, devices, E
<1>7. r.dmesg_wake # None => IsSequence(r.dmesg_wake[1])
  <2> SUFFICES ASSUME r.dmesg_wake # None PROVE IsSequence(r.dmesg_wake[1])
    OBVIOUS
  <2>1. s.dmesg # None /\ r.dmesg_wake[1] = ParseDmesgWakeLines(s.dmesg[1])
    BY <1>2, <1>3
  <2> QED BY <1>1, <2>1, MessagesParsed
<1>8. r.acpi_enabled # None => IsSequence(r.acpi_enabled[1])
  BY <1>2, <1>3, <1>4, <1>5
<1>9. r.history # None => IsSequence(r.history[1])
  BY <1>1, <1>2
<1>10. LastWakeReport(r)
  BY <1>6, <1>7, <1>8, <1>9 DEF LastWakeReport
<1>11. r.dmesg_wake # None <=> verbose /\ s.dmesg # None
  BY <1>2, <1>3
<1>12. r.acpi_enabled # None <=> verbose /\ s.acpi # None
  BY <1>2, <1>3, <1>4
<1>13. r.history # None <=> c.flags.history # None /\ s.history # None
  BY <1>2
<1> QED BY <1>2, <1>10, <1>11, <1>12, <1>13 DEF s, verbose

\* The keys of lastwake belong to --verbose and --history.
LEMMA LastWakeKeys ==
  ASSUME call \in LastWakeCalls, out = Json(Build(call))
  PROVE  KeysFollowFlags(call.sources)
<1> DEFINE r == BuildLastWake(call.sources, call.flags)
<1>1. call.cmd = "lastwake" /\ call.flags.verbose \in BOOLEAN
  BY LastWakeCall
<1>2. out = Json(r)
  BY <1>1 DEF Build
<1> HIDE DEF r
<1>3. /\ {"dmesg_wake", "acpi_enabled", "history"} \subseteq DOMAIN r
      /\ r.dmesg_wake # None <=> call.flags.verbose /\ call.sources.dmesg # None
      /\ r.acpi_enabled # None <=> call.flags.verbose /\ call.sources.acpi # None
      /\ r.history # None <=> call.flags.history # None /\ call.sources.history # None
  BY LastWakeBuilt DEF r
<1>4. /\ "dmesg_wake" \in Skipped /\ "acpi_enabled" \in Skipped /\ "history" \in Skipped
      /\ "dmesg_wake" \in DOMAIN r /\ "acpi_enabled" \in DOMAIN r /\ "history" \in DOMAIN r
  BY <1>3 DEF Skipped
<1>5. /\ "dmesg_wake" \in out[1][2] <=> r.dmesg_wake # None
      /\ "acpi_enabled" \in out[1][2] <=> r.acpi_enabled # None
      /\ "history" \in out[1][2] <=> r.history # None
  BY <1>2, <1>4, KeyIs
<1> QED BY <1>1, <1>3, <1>5 DEF KeysFollowFlags

-----------------------------------------------------------------------------
(* The exit status.                                                        *)

\* An error is reported only while there is a line that was not written.
ExitInv ==
  /\ pc \in {"run", "write", "report", "exited"}
  /\ exit \in {None, Some(0), Some(1), Some(101)}
  /\ exit # None <=> pc = "exited"
  /\ pc = "report" => pos < Len(out)
  /\ ExitTellsTruth

\* A status is none of the others.
LEMMA Statuses ==
  /\ Some(0) # None /\ Some(1) # None /\ Some(101) # None
  /\ Some(0) # Some(1) /\ Some(0) # Some(101)
BY DEF Some, None

\* A line that cannot be written: the program panics, ends or reports it.
LEMMA FailedWrite ==
  ASSUME ExitInv, Written, UNCHANGED pos,
         \/ Exit(101)
         \/ Exit(0) /\ call.format = "json" /\ reader = "closed"
         \/ pc' = "report" /\ UNCHANGED exit
  PROVE  ExitInv'
<1>1. /\ pos < Len(out) /\ pos' = pos /\ out' = out /\ pc = "write"
      /\ call' = call /\ reader' = reader
  BY DEF Written
<1>2. exit = None
  BY <1>1 DEF ExitInv
<1>3. CASE Exit(101)
  BY <1>1, <1>3, Statuses DEF ExitInv, ExitTellsTruth, Exit
<1>4. CASE Exit(0) /\ call.format = "json" /\ reader = "closed"
  BY <1>1, <1>4, Statuses DEF ExitInv, ExitTellsTruth, Exit
<1>5. CASE pc' = "report" /\ UNCHANGED exit
  BY <1>1, <1>2, <1>5, Statuses DEF ExitInv, ExitTellsTruth
<1> QED BY <1>3, <1>4, <1>5

\* Every step keeps what is known of the exit status.
LEMMA ExitStep ==
  ASSUME ExitInv, [Next]_vars
  PROVE  ExitInv'
<1>1. CASE Run
  <2>1. pc = "run" /\ pc' = "write" /\ exit' = exit
    BY <1>1 DEF Run
  <2> QED BY <2>1, Statuses DEF ExitInv, ExitTellsTruth
<1>2. CASE WriteLine
  <2>1. pc = "write" /\ pc' = pc /\ exit' = exit
    BY <1>2 DEF WriteLine, Written
  <2> QED BY <2>1, Statuses DEF ExitInv, ExitTellsTruth
<1>3. CASE BrokenPipe
  BY <1>3, FailedWrite DEF BrokenPipe
<1>4. CASE WriteError
  BY <1>4, FailedWrite DEF WriteError
<1>5. CASE ReportError
  <2>1. /\ pos < Len(out) /\ pos' = pos /\ out' = out
        /\ pc' = "exited" /\ exit' \in {Some(1), Some(101)}
    BY <1>5 DEF ReportError, Exit, ExitInv
  <2> QED BY <2>1, Statuses DEF ExitInv, ExitTellsTruth
<1>6. CASE Done
  <2>1. /\ pos = Len(out) /\ pos' = pos /\ out' = out
        /\ pc' = "exited" /\ exit' = Some(0)
    BY <1>6 DEF Done, Exit
  <2> QED BY <2>1, Statuses DEF ExitInv, ExitTellsTruth
<1>7. CASE Read
  <2>1. UNCHANGED <<call, pc, rep, out, pos, reader, exit>>
    BY <1>7 DEF Read
  <2> QED BY <2>1 DEF ExitInv, ExitTellsTruth
<1>8. CASE Close
  <2>1. pc = "write" /\ UNCHANGED <<call, pc, rep, out, pos, exit>>
    BY <1>8 DEF Close
  <2> QED BY <2>1, Statuses DEF ExitInv, ExitTellsTruth
<1>9. CASE UNCHANGED vars
  BY <1>9 DEF vars, ExitInv, ExitTellsTruth
<1> QED BY <1>1, <1>2, <1>3, <1>4, <1>5, <1>6, <1>7, <1>8, <1>9 DEF Next, Program

\* So it holds of every state.
LEMMA ExitInvariant == Spec => []ExitInv
<1>1. Init => ExitInv
  BY Statuses DEF Init, ExitInv, ExitTellsTruth
<1>2. ExitInv /\ [Next]_vars => ExitInv'
  BY ExitStep
<1> QED BY <1>1, <1>2, PTL DEF Spec

\* The exit status tells the truth about standard output.
THEOREM ExitTrue == Spec => []ExitTellsTruth
<1>1. ExitInv => ExitTellsTruth
  BY DEF ExitInv
<1> QED BY <1>1, ExitInvariant, PTL

-----------------------------------------------------------------------------
(* Every state of a run.                                                   *)

\* The call is one of the six, the report is built from its sources and the
\* lines from the report, and no more lines are written than there are.
ReportInv ==
  /\ \/ call \in SleepStatesCalls \/ call \in DeviceQueryCalls
     \/ call \in EnergyCalls \/ call \in RequestsCalls
     \/ call \in WakeTimersCalls \/ call \in LastWakeCalls
  /\ pc = "run" => out = <<>>
  /\ pc # "run" => /\ rep = Build(call)
                   /\ out = IF call.format = "json" THEN Json(rep) ELSE Text(call, rep)
  /\ pos \in Nat /\ (pos = 0 \/ pos <= Len(out))
  /\ pc = "run" => pos = 0
  /\ pipe \in 0..PipeCap /\ pipe <= pos
  /\ reader \in {"reads", "closed"}

\* What a command prints is a sequence of lines.
LEMMA SequencePrinted ==
  ASSUME ReportInv, pc # "run"
  PROVE  IsSequence(out)
<1>1. /\ rep = Build(call)
      /\ out = IF call.format = "json" THEN Json(rep) ELSE Text(call, rep)
  BY DEF ReportInv
<1>2. CASE call.format = "json"
  <2>1. out = Json(rep)
    BY <1>1, <1>2
  <2> QED BY <2>1, JsonSequence
<1>3. CASE call.format # "json"
  <2>1. out = Text(call, Build(call))
    BY <1>1, <1>3
  <2>2. CASE call \in SleepStatesCalls
    BY <2>1, <2>2, SleepStatesAgree
  <2>3. CASE call \in DeviceQueryCalls
    BY <2>1, <2>3, DeviceQueryAgree
  <2>4. CASE call \in RequestsCalls
    BY <2>1, <2>4, RequestsAgree
  <2>5. CASE call \in WakeTimersCalls
    BY <2>1, <2>5, WakeTimersAgree
  <2>6. CASE call \in EnergyCalls
    <3>1. call.cmd = "energy" /\ EnergyReport(call.sources)
      BY <2>6, EnergyCall
    <3>2. Build(call) = call.sources
      BY <3>1 DEF Build
    <3>3. out = PrintEnergy(call.sources, call.flags.verbose)
      BY <2>1, <3>1, <3>2 DEF Text
    <3> QED BY <3>1, <3>3, EnergyPrinted
  <2>7. CASE call \in LastWakeCalls
    <3> DEFINE r == BuildLastWake(call.sources, call.flags)
    <3>1. call.cmd = "lastwake"
      BY <2>7, LastWakeCall
    <3>2. Build(call) = r
      BY <3>1 DEF Build
    <3>3. LastWakeReport(r)
      BY <2>7, LastWakeBuilt
    <3> HIDE DEF r
    <3>4. out = PrintLastWake(r, call.flags.verbose, call.flags.history)
      BY <2>1, <3>1, <3>2 DEF Text
    <3> QED BY <3>3, <3>4, LastWakePrinted
  <2> QED BY <2>2, <2>3, <2>4, <2>5, <2>6, <2>7 DEF ReportInv
<1> QED BY <1>2, <1>3

\* Every step keeps it.
LEMMA ReportStep ==
  ASSUME ReportInv, ExitInv, [Next]_vars
  PROVE  ReportInv'
<1> DEFINE Calling(c) == \/ c \in SleepStatesCalls \/ c \in DeviceQueryCalls
                         \/ c \in EnergyCalls \/ c \in RequestsCalls
                         \/ c \in WakeTimersCalls \/ c \in LastWakeCalls
<1>1. Calling(call)
  BY DEF ReportInv
<1>2. call' = call
  BY DEF Next, Program, Run, WriteLine, BrokenPipe, ReportError, Done, WriteError, Read, Close,
         Written, vars
<1>3. Calling(call')
  BY <1>1, <1>2
<1> HIDE DEF Calling
<1>4. /\ pc = "run" => out = <<>>
      /\ pc # "run" => /\ rep = Build(call)
                       /\ out = IF call.format = "json" THEN Json(rep) ELSE Text(call, rep)
      /\ pos \in Nat /\ (pos = 0 \/ pos <= Len(out))
      /\ pc = "run" => pos = 0
      /\ pipe \in 0..PipeCap /\ pipe <= pos
      /\ reader \in {"reads", "closed"}
  BY DEF ReportInv
<1>5. PipeCap \in Nat
  BY PipeCapAssumption
<1>6. /\ pc' = "run" => out' = <<>>
      /\ pc' # "run" => /\ rep' = Build(call')
                        /\ out' = IF call'.format = "json" THEN Json(rep') ELSE Text(call', rep')
      /\ pos' \in Nat /\ (pos' = 0 \/ pos' <= Len(out'))
      /\ pc' = "run" => pos' = 0
      /\ pipe' \in 0..PipeCap /\ pipe' <= pos'
      /\ reader' \in {"reads", "closed"}
  <2>1. CASE Run
    <3>1. /\ pc = "run" /\ pc' = "write" /\ rep' = Build(call)
          /\ out' = IF call.format = "json" THEN Json(rep') ELSE Text(call, rep')
          /\ pos' = pos /\ pipe' = pipe /\ reader' = reader
      BY <2>1 DEF Run
    <3>2. pos' = 0
      BY <1>4, <3>1
    <3> QED BY <1>2, <1>4, <3>1, <3>2
  <2>2. CASE WriteLine
    <3>1. /\ pc = "write" /\ pos < Len(out) /\ pipe < PipeCap /\ pc' = pc
          /\ rep' = rep /\ out' = out /\ reader' = reader
          /\ pos' = pos + 1 /\ pipe' = pipe + 1
      BY <2>2 DEF WriteLine, Written
    <3>2. Len(out) \in Nat
      <4>1. IsSequence(out)
        BY <3>1, SequencePrinted
      <4> QED BY <4>1, SequenceIs
    <3>3. pos' \in Nat /\ pos' <= Len(out') /\ pipe' \in 0..PipeCap /\ pipe' <= pos'
      BY <1>4, <1>5, <3>1, <3>2
    <3> QED BY <1>2, <1>4, <3>1, <3>3
  <2>3. CASE BrokenPipe \/ WriteError
    <3>1. /\ pc = "write" /\ pc' \in {"write", "report", "exited"}
          /\ rep' = rep /\ out' = out /\ reader' = reader /\ pos' = pos /\ pipe' = pipe
      BY <2>3 DEF BrokenPipe, WriteError, Written, Exit
    <3> QED BY <1>2, <1>4, <3>1
  <2>4. CASE ReportError \/ Done
    <3>1. /\ pc \in {"report", "write"} /\ pc' = "exited"
          /\ rep' = rep /\ out' = out /\ reader' = reader /\ pos' = pos /\ pipe' = pipe
      BY <2>4 DEF ReportError, Done, Exit
    <3> QED BY <1>2, <1>4, <3>1
  <2>5. CASE Read
    <3>1. /\ pipe > 0 /\ pipe' = pipe - 1 /\ pc' = pc
          /\ rep' = rep /\ out' = out /\ reader' = reader /\ pos' = pos
      BY <2>5 DEF Read
    <3>2. pipe' \in 0..PipeCap /\ pipe' <= pos'
      BY <1>4, <1>5, <3>1
    <3> QED BY <1>2, <1>4, <3>1, <3>2
  <2>6. CASE Close
    <3>1. /\ reader' = "closed" /\ pipe' = 0 /\ pc' = pc
          /\ rep' = rep /\ out' = out /\ pos' = pos
      BY <2>6 DEF Close
    <3>2. pipe' \in 0..PipeCap /\ pipe' <= pos'
      BY <1>4, <1>5, <3>1
    <3> QED BY <1>2, <1>4, <3>1, <3>2
  <2>7. CASE UNCHANGED vars
    BY <1>4, <2>7 DEF vars
  <2> QED BY <2>1, <2>2, <2>3, <2>4, <2>5, <2>6, <2>7 DEF Next, Program
<1> QED BY <1>3, <1>6 DEF ReportInv, Calling

\* So it holds of every state.
LEMMA ReportInvariant == Spec => []ReportInv
<1>1. Init => ReportInv
  BY PipeCapAssumption DEF Init, ReportInv
<1>2. ReportInv /\ ExitInv /\ [Next]_vars => ReportInv'
  BY ReportStep
<1> QED BY <1>1, <1>2, ExitInvariant, PTL DEF Spec

\* The lines that are written are lines of the output.
LEMMA PositionIn ==
  ASSUME ReportInv
  PROVE  pos \in 0..Len(out)
<1>1. pos \in Nat /\ (pos = 0 \/ pos <= Len(out))
  BY DEF ReportInv
<1>2. Len(out) \in Nat
  <2>1. CASE pc = "run"
    <3>1. out = <<>>
      BY <2>1 DEF ReportInv
    <3> QED BY <3>1
  <2>2. CASE pc # "run"
    BY <2>2, SequencePrinted, SequenceIs
  <2> QED BY <2>1, <2>2
<1> QED BY <1>1, <1>2

\* What the flags do not ask for is not in the report.
LEMMA FlagsRead ==
  ASSUME ReportInv, pc # "run"
  PROVE  /\ call.cmd = "sleepstates" /\ rep.image_size # None => call.flags.verbose
         /\ call.cmd = "lastwake" =>
              /\ rep.dmesg_wake # None \/ rep.acpi_enabled # None => call.flags.verbose
              /\ rep.history # None => call.flags.history # None
         /\ call.cmd = "waketimers" /\ rep.all_timers # None => call.flags.verbose
<1>1. rep = Build(call)
  BY DEF ReportInv
<1>2. CASE call \in SleepStatesCalls
  <2>1. call.cmd = "sleepstates" /\ call.flags.verbose \in BOOLEAN
    BY <1>2, SleepStatesCall
  <2>2. rep = BuildSleepStates(call.sources, call.flags.verbose)
    BY <1>1, <2>1 DEF Build
  <2>3. rep.image_size = IF call.flags.verbose THEN OrEmpty(call.sources.image_size) ELSE None
    BY <2>2 DEF BuildSleepStates
  <2> QED BY <2>1, <2>3
<1>3. CASE call \in LastWakeCalls
  <2>1. call.cmd = "lastwake" /\ call.flags.verbose \in BOOLEAN
    BY <1>3, LastWakeCall
  <2>2. rep = BuildLastWake(call.sources, call.flags)
    BY <1>1, <2>1 DEF Build
  <2>3. /\ rep.dmesg_wake # None \/ rep.acpi_enabled # None => call.flags.verbose
        /\ rep.history # None => call.flags.history # None
    BY <1>3, <2>2, LastWakeBuilt
  <2> QED BY <2>1, <2>3
<1>4. CASE call \in WakeTimersCalls
  <2>1. call.cmd = "waketimers" /\ call.flags.verbose \in BOOLEAN
    BY <1>4, WakeTimersCall
  <2>2. rep = BuildWakeTimers(call.sources, call.flags.verbose)
    BY <1>1, <2>1 DEF Build
  <2>3. rep.all_timers = IF call.flags.verbose THEN call.sources.timers ELSE None
    BY <2>2 DEF BuildWakeTimers
  <2> QED BY <2>1, <2>3
<1>5. CASE call \in DeviceQueryCalls \/ call \in EnergyCalls \/ call \in RequestsCalls
  <2>1. call.cmd \in {"devicequery", "energy", "requests"}
    BY <1>5, DeviceQueryCall, EnergyCall, RequestsCall
  <2> QED BY <2>1
<1> QED BY <1>2, <1>3, <1>4, <1>5 DEF ReportInv

\* The variables have their types, and nothing is in the report that the flags
\* did not ask for.
THEOREM TypeCorrect == Spec => []TypeOK
<1>1. ReportInv /\ ExitInv => TypeOK
  <2> SUFFICES ASSUME ReportInv, ExitInv PROVE TypeOK
    OBVIOUS
  <2>1. pos \in 0..Len(out)
    BY PositionIn
  <2>2. /\ pipe \in 0..PipeCap /\ pipe <= pos /\ reader \in {"reads", "closed"}
    BY DEF ReportInv
  <2>3. /\ pc \in {"run", "write", "report", "exited"}
        /\ exit \in {None, Some(0), Some(1), Some(101)}
        /\ exit # None <=> pc = "exited"
    BY DEF ExitInv
  <2> QED BY <2>1, <2>2, <2>3, FlagsRead DEF TypeOK
<1> QED BY <1>1, ReportInvariant, ExitInvariant, PTL

\* The line that sums a report up agrees with the sections above it and with
\* what the sources hold, and the keys of the JSON follow the flags.
THEOREM VerdictsTrue == Spec => []VerdictsAgree
<1>1. ReportInv /\ ExitInv => VerdictsAgree
  <2> SUFFICES ASSUME ReportInv, ExitInv, exit = Some(0)
               PROVE  IF call.format = "json" THEN KeysFollowFlags(call.sources)
                      ELSE CASE call.cmd = "requests"    -> RequestsVerdict(call.sources)
                             [] call.cmd = "waketimers"  -> WakeTimersVerdict(call.sources)
                             [] call.cmd = "devicequery" -> DeviceQueryVerdict(call.sources)
                             [] call.cmd = "sleepstates" -> SleepStatesVerdict(call.sources)
                             [] OTHER -> TRUE
    BY DEF VerdictsAgree
  <2>1. pc = "exited"
    BY Statuses DEF ExitInv
  <2>2. out = IF call.format = "json" THEN Json(Build(call)) ELSE Text(call, Build(call))
    BY <2>1 DEF ReportInv
  <2>3. call.format = "json" => out = Json(Build(call))
    BY <2>2
  <2>4. call.format # "json" => out = Text(call, Build(call))
    BY <2>2
  <2>5. CASE call \in SleepStatesCalls
    BY <2>3, <2>4, <2>5, SleepStatesCall, SleepStatesKeys, SleepStatesAgree
  <2>6. CASE call \in DeviceQueryCalls
    <3>1. call.cmd = "devicequery"
      BY <2>6, DeviceQueryCall
    <3>2. KeysFollowFlags(call.sources)
      BY <3>1 DEF KeysFollowFlags
    <3> QED BY <2>4, <2>6, <3>1, <3>2, DeviceQueryAgree
  <2>7. CASE call \in RequestsCalls
    BY <2>3, <2>4, <2>7, RequestsCall, RequestsKeys, RequestsAgree
  <2>8. CASE call \in WakeTimersCalls
    BY <2>3, <2>4, <2>8, WakeTimersCall, WakeTimersKeys, WakeTimersAgree
  <2>9. CASE call \in EnergyCalls
    <3>1. call.cmd = "energy"
      BY <2>9, EnergyCall
    <3>2. KeysFollowFlags(call.sources)
      BY <3>1 DEF KeysFollowFlags
    <3> QED BY <3>1, <3>2
  <2>10. CASE call \in LastWakeCalls
    BY <2>3, <2>10, LastWakeCall, LastWakeKeys
  <2> QED BY <2>5, <2>6, <2>7, <2>8, <2>9, <2>10 DEF ReportInv
<1> QED BY <1>1, ReportInvariant, ExitInvariant, PTL

-----------------------------------------------------------------------------
(* Frequencies.                                                            *)

\* The printed frequency differs from the one read by at most half of its
\* last digit, 10 MHz, 1 MHz or nothing, and is never zero unless it is.
THEOREM FrequencyIsNear ==
  ASSUME NEW khz \in Nat
  PROVE  \/ /\ khz >= 1000000
            /\ \E n \in Nat : /\ FormatFreq(khz) = <<"GHz", n>> /\ n >= 100
                              /\ n * 10000 - khz <= 5000 /\ khz - n * 10000 <= 5000
         \/ /\ khz >= 1000 /\ khz < 1000000
            /\ \E n \in Nat : /\ FormatFreq(khz) = <<"MHz", n>> /\ n \in 1..1000
                              /\ n * 1000 - khz <= 500 /\ khz - n * 1000 <= 500
         \/ khz < 1000 /\ FormatFreq(khz) = <<"kHz", khz>>
<1>1. CASE khz >= 1000000
  <2>1. PICK q \in Nat : q = khz \div 10000
    BY SMTT(20)
  <2>2. PICK r \in 0..9999 : r = khz % 10000
    BY SMTT(20)
  <2>3. khz = q * 10000 + r
    BY <2>1, <2>2, SMTT(20)
  <2>4. PICK u \in {0, 1} :
          u = IF 2 * r > 10000 \/ (2 * r = 10000 /\ q % 2 = 1) THEN 1 ELSE 0
    BY SMTT(20)
  <2>5. FormatFreq(khz) = <<"GHz", q + u>>
    BY <1>1, <2>1, <2>2, <2>4, SMTT(20) DEF FormatFreq
  <2>6. /\ q + u \in Nat /\ q + u >= 100
        /\ (q + u) * 10000 - khz <= 5000 /\ khz - (q + u) * 10000 <= 5000
    BY <1>1, <2>3, <2>4, SMTT(20)
  <2> QED BY <1>1, <2>5, <2>6, SMTT(20)
<1>2. CASE khz >= 1000 /\ khz < 1000000
  <2>1. PICK q \in Nat : q = khz \div 1000
    BY SMTT(20)
  <2>2. PICK r \in 0..999 : r = khz % 1000
    BY SMTT(20)
  <2>3. khz = q * 1000 + r
    BY <2>1, <2>2, SMTT(20)
  <2>4. PICK u \in {0, 1} :
          u = IF 2 * r > 1000 \/ (2 * r = 1000 /\ q % 2 = 1) THEN 1 ELSE 0
    BY SMTT(20)
  <2>5. FormatFreq(khz) = <<"MHz", q + u>>
    BY <1>2, <2>1, <2>2, <2>4, SMTT(20) DEF FormatFreq
  <2>6. /\ q + u \in Nat /\ q + u \in 1..1000
        /\ (q + u) * 1000 - khz <= 500 /\ khz - (q + u) * 1000 <= 500
    BY <1>2, <2>3, <2>4, SMTT(20)
  <2> QED BY <1>2, <2>5, <2>6, SMTT(20)
<1>3. CASE khz < 1000
  <2>1. ~(khz >= 1000000) /\ ~(khz >= 1000)
    BY <1>3, SMT
  <2> QED BY <1>3, <2>1, SMT DEF FormatFreq
<1> QED BY <1>1, <1>2, <1>3, SMT

=============================================================================
