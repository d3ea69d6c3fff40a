------------------------ MODULE MessageBufferProofs ------------------------
(***************************************************************************)
(* Lemmas about the operators on message buffers, for every alphabet: what *)
(* composing, finalizing, reading and lexing do to a buffer, whoever owns  *)
(* it.  The proofs about the two ends of a connection rest on them.        *)
(***************************************************************************)
EXTENDS MessageBuffer, SequenceTheorems, FiniteSetTheorems, WellFoundedInduction, TLAPS

\* What lines are made of.
Text == Word \cup Glued \cup Garbled

\* A block under composition: it ends with a word, and its newlines stand
\* behind continuation marks.
Composed(d) ==
  /\ d # <<>> => d[Len(d)] \in Word
  /\ \A i \in 1 .. Len(d) : d[i] = NEWLINE => i > 1 /\ d[i - 1] = CONTINUE

\* A finalized block: it ends at its last symbol, and nowhere before.
Framed(d) ==
  /\ Len(d) > 0
  /\ \A i \in 1 .. Len(d) : EndsBlock(d, i) <=> i = Len(d)

\* The words of line lie in d behind s, and the line ends with the newline at
\* e, perhaps with a continuation mark before it.
LineAt(d, line, s, e) ==
  /\ \/ e = s + Len(line) + 1
     \/ e = s + Len(line) + 2 /\ d[e - 1] = CONTINUE
  /\ d[e] = NEWLINE
  /\ \A j \in 1 .. Len(line) : d[s + j] = line[j]

\* The lines ls lie in d one behind the other, and nothing else: the i-th
\* between at[i] and at[i + 1].
Layout(d, ls, at) ==
  /\ at[1] = 0
  /\ at[Len(ls) + 1] = Len(d)
  /\ \A i, j \in 1 .. Len(ls) + 1 : i < j => at[i] < at[j]
  /\ \A i \in 1 .. Len(ls) : LineAt(d, ls[i], at[i], at[i + 1])

LaidOut(d, ls) == \E at \in [1 .. Len(ls) + 1 -> 0 .. Len(d)] : Layout(d, ls, at)

\* s is the start of d, and t behind it agrees with d as far as d reaches.
Starts(d, s, t) ==
  /\ Len(s) < Len(d)
  /\ \A i \in 1 .. Len(s) : s[i] = d[i]
  /\ \A j \in 1 .. Len(t) : Len(s) + j <= Len(d) => t[j] = d[Len(s) + j]

\* Two rearrangements of sums that the provers do not find under a prime.
LEMMA Arithmetic ==
  \A a, b, c \in Nat : a + (b + c) = (a + b) + c /\ (a + c) + (b - c) = a + b
  OBVIOUS

-----------------------------------------------------------------------------
(* The operators on buffers.                                               *)

\* A fresh buffer is one.
LEMMA EmptyBufferType == EmptyBuffer \in Buffer
  BY DEF EmptyBuffer, Buffer

\* What is left to write is what lies behind the place reached.
LEMMA UnwrittenLength ==
  ASSUME NEW b \in Buffer, b.bol <= Len(b.data)
  PROVE  Len(Unwritten(b)) = Len(b.data) - b.bol
<1>1. b.data \in Seq(Symbol) /\ b.bol \in Nat /\ Len(b.data) \in Nat
  BY DEF Buffer
<1>2. \A i \in b.bol + 1 .. Len(b.data) : b.data[i] \in Symbol
  BY <1>1
<1>3. Len(SubSeq(b.data, b.bol + 1, Len(b.data))) =
        IF b.bol + 1 <= Len(b.data) THEN Len(b.data) - (b.bol + 1) + 1 ELSE 0
  BY <1>1, <1>2, SubSeqProperties
<1> QED
  BY <1>1, <1>3 DEF Unwritten

\* A buffer whose end is not reached has something to write.
LEMMA SomeUnwritten ==
  ASSUME NEW b \in Buffer, b.bol < Len(b.data)
  PROVE  Unwritten(b) # <<>>
<1>1. b.bol \in Nat /\ Len(b.data) \in Nat
  BY DEF Buffer
<1>2. Len(Unwritten(b)) = Len(b.data) - b.bol
  BY <1>1, UnwrittenLength
<1> QED
  BY <1>1, <1>2

\* A fresh buffer has nothing to write.
LEMMA NothingUnwritten == Len(Unwritten(EmptyBuffer)) = 0
  BY SubSeqEmpty DEF Unwritten, EmptyBuffer

\* n symbols of a sequence behind the k-th.
LEMMA PieceOf ==
  ASSUME NEW d \in Seq(Symbol), NEW k \in Nat, NEW n \in Nat, n > 0, k + n <= Len(d)
  PROVE  /\ SubSeq(d, k + 1, k + n) \in Seq(Symbol)
         /\ Len(SubSeq(d, k + 1, k + n)) = n
         /\ \A i \in 1 .. n : SubSeq(d, k + 1, k + n)[i] = d[k + i]
<1>1. \A i \in k + 1 .. k + n : d[i] \in Symbol
  OBVIOUS
<1>2. k + 1 <= k + n /\ k + n - (k + 1) + 1 = n
  OBVIOUS
<1>3. /\ SubSeq(d, k + 1, k + n) \in Seq(Symbol)
      /\ Len(SubSeq(d, k + 1, k + n)) =
           IF k + 1 <= k + n THEN k + n - (k + 1) + 1 ELSE 0
  BY <1>1, SubSeqProperties
<1>4. ASSUME NEW i \in 1 .. n PROVE SubSeq(d, k + 1, k + n)[i] = d[k + i]
  <2>1. i \in 1 .. k + n - (k + 1) + 1 /\ k + 1 + i - 1 = k + i
    BY <1>2
  <2>2. SubSeq(d, k + 1, k + n)[i] = d[k + 1 + i - 1]
    BY <1>1, <2>1, SubSeqProperties
  <2> QED
    BY <2>1, <2>2
<1> QED
  BY <1>2, <1>3, <1>4

\* What write(2) takes is as long as it says.
LEMMA UnwrittenPiece ==
  ASSUME NEW b \in Buffer, b.bol < Len(b.data), NEW n \in Nat, n > 0,
         n <= Len(Unwritten(b))
  PROVE  /\ SubSeq(b.data, b.bol + 1, b.bol + n) \in Seq(Symbol)
         /\ Len(SubSeq(b.data, b.bol + 1, b.bol + n)) = n
<1>1. b.data \in Seq(Symbol) /\ b.bol \in Nat /\ Len(b.data) \in Nat
  BY DEF Buffer
<1>2. b.bol + n <= Len(b.data)
  BY <1>1, UnwrittenLength
<1> QED
  BY <1>1, <1>2, PieceOf

\* A buffer stays one when a line is added, or when it is finalized.
LEMMA ComposingKeepsBuffer ==
  ASSUME NEW b \in Buffer, NEW words \in Seq(Word)
  PROVE  AppendLine(b, words) \in Buffer /\ PrepareToWrite(b) \in Buffer
<1>1. /\ b.data \in Seq(Symbol) /\ words \in Seq(Symbol)
      /\ <<CONTINUE, NEWLINE>> \in Seq(Symbol) /\ NEWLINE \in Symbol
  BY DEF Buffer, Symbol
<1>2. PICK d \in Seq(Symbol) : BeginLine(b) = [data |-> d, bol |-> Len(d)]
  <2>1. <<>> \in Seq(Symbol) /\ b.data \o <<CONTINUE, NEWLINE>> \in Seq(Symbol)
    BY <1>1
  <2> QED
    BY <2>1 DEF BeginLine
<1>3. AppendLine(b, words) = [data |-> d \o words, bol |-> Len(d)]
  <2>1. PICK n, text : n = Len(d) /\ text = d \o words
    OBVIOUS
  <2>2. PICK begun : begun = [data |-> d, bol |-> n]
    OBVIOUS
  <2>3. [begun EXCEPT !.data = text] = [data |-> text, bol |-> n]
    BY <2>2
  <2>4. AppendLine(b, words) = [begun EXCEPT !.data = begun.data \o words]
    BY <1>2, <2>1, <2>2, Zenon DEF AppendLine, AppendWords
  <2>5. begun.data \o words = text
    BY <2>1, <2>2
  <2> QED
    BY <2>1, <2>3, <2>4, <2>5, Zenon
<1>4. d \o words \in Seq(Symbol) /\ Len(d) \in Nat
  BY <1>1
<1>5. Append(b.data, NEWLINE) \in Seq(Symbol)
  BY <1>1
<1> QED
  BY <1>3, <1>4, <1>5 DEF PrepareToWrite, Buffer

\* Composing a line of words keeps a buffer composed.
LEMMA AppendLineComposes ==
  ASSUME NEW b \in Buffer, NEW words \in Seq(Word) \ {<<>>}, Composed(b.data)
  PROVE  /\ AppendLine(b, words) \in Buffer
         /\ Composed(AppendLine(b, words).data)
         /\ AppendLine(b, words).data # <<>>
<1> DEFINE start == IF b.data = <<>> THEN <<>> ELSE b.data \o <<CONTINUE, NEWLINE>>
<1>1. b.data \in Seq(Symbol) /\ words \in Seq(Symbol) /\ Len(words) > 0
  BY DEF Buffer, Symbol
<1>2. start \in Seq(Symbol)
  <2>1. <<CONTINUE, NEWLINE>> \in Seq(Symbol)
    BY DEF Symbol
  <2> QED
    BY <1>1, <2>1, EmptySeq, ConcatProperties
<1>3. AppendLine(b, words) = [data |-> start \o words, bol |-> Len(start)]
  <2>1. BeginLine(b) = [data |-> start, bol |-> Len(start)]
    BY DEF BeginLine
  <2>2. BeginLine(b).data = start /\ BeginLine(b).bol = Len(start)
    BY <2>1
  <2>3. AppendLine(b, words) = [BeginLine(b) EXCEPT !.data = BeginLine(b).data \o words]
    BY DEF AppendLine, AppendWords
  <2> HIDE DEF start
  <2> QED
    BY <2>1, <2>2, <2>3
<1>4. start \o words \in Seq(Symbol) /\ Len(start \o words) = Len(start) + Len(words)
  BY <1>1, <1>2
<1>5. \A i \in 1 .. Len(start) : start[i] = NEWLINE => i > 1 /\ start[i - 1] = CONTINUE
  <2>1. CASE b.data = <<>>
    BY <2>1
  <2>2. CASE b.data # <<>>
    <3>1. /\ Len(start) = Len(b.data) + 2
          /\ Len(b.data) > 0
          /\ \A i \in 1 .. Len(b.data) : start[i] = b.data[i]
          /\ start[Len(b.data) + 1] = CONTINUE
          /\ start[Len(b.data) + 2] = NEWLINE
      BY <1>1, <2>2
    <3> HIDE DEF start
    <3>2. CONTINUE # NEWLINE
      BY DEF CONTINUE, NEWLINE
    <3>3. ASSUME NEW i \in 1 .. Len(start), start[i] = NEWLINE
          PROVE  i > 1 /\ start[i - 1] = CONTINUE
      <4>1. CASE i \in 1 .. Len(b.data)
        <5>1. b.data[i] = NEWLINE
          BY <3>1, <3>3, <4>1
        <5>2. i > 1 /\ b.data[i - 1] = CONTINUE
          BY <4>1, <5>1 DEF Composed
        <5>3. i - 1 \in 1 .. Len(b.data)
          BY <4>1, <5>2, <1>1
        <5> QED
          BY <3>1, <5>2, <5>3
      <4>2. CASE i = Len(b.data) + 1
        BY <3>1, <3>2, <3>3, <4>2
      <4>3. CASE i = Len(b.data) + 2
        <5>1. i - 1 = Len(b.data) + 1 /\ i > 1
          BY <4>3, <1>1
        <5> QED
          BY <3>1, <5>1
      <4> QED
        BY <3>1, <4>1, <4>2, <4>3, <1>1
    <3> QED
      BY <3>3
  <2> QED
    BY <2>1, <2>2
<1> HIDE DEF start
<1>6. \A i \in 1 .. Len(words) : (start \o words)[Len(start) + i] \in Word
  BY <1>1, <1>2
<1>7. \A i \in 1 .. Len(start) : (start \o words)[i] = start[i]
  BY <1>1, <1>2
<1>8. NEWLINE \notin Word
  BY AlphabetAssumption
<1>9. \A i \in 1 .. Len(start \o words) :
        (start \o words)[i] = NEWLINE => i > 1 /\ (start \o words)[i - 1] = CONTINUE
  <2> SUFFICES ASSUME NEW i \in 1 .. Len(start \o words), (start \o words)[i] = NEWLINE
               PROVE  i > 1 /\ (start \o words)[i - 1] = CONTINUE
    OBVIOUS
  <2>1. i \in 1 .. Len(start)
    <3>1. CASE i > Len(start)
      <4>1. i - Len(start) \in 1 .. Len(words) /\ i = Len(start) + (i - Len(start))
        BY <3>1, <1>1, <1>2, <1>4
      <4> QED
        BY <4>1, <1>6, <1>8
    <3> QED
      BY <3>1, <1>2, <1>4
  <2>2. start[i] = NEWLINE
    BY <2>1, <1>7
  <2>3. i > 1 /\ start[i - 1] = CONTINUE
    BY <2>1, <2>2, <1>5
  <2>4. i - 1 \in 1 .. Len(start)
    BY <2>1, <2>3, <1>2
  <2> QED
    BY <2>3, <2>4, <1>7
<1>10. (start \o words)[Len(start \o words)] \in Word
  BY <1>1, <1>4, <1>6
<1>11. start \o words # <<>> /\ Len(start) \in Nat
  BY <1>1, <1>2, <1>4
<1>12. Composed(start \o words)
  BY <1>9, <1>10 DEF Composed
<1> QED
  BY <1>3, <1>4, <1>11, <1>12 DEF Buffer

\* The symbols of a buffer to which a line was added.
LEMMA AppendLineSymbols ==
  ASSUME NEW b \in Buffer, NEW words \in Seq(Word), b.data # <<>>
  PROVE  LET d == b.data
             e == AppendLine(b, words).data
         IN  /\ e \in Seq(Symbol)
             /\ Len(e) = Len(d) + 2 + Len(words)
             /\ \A i \in 1 .. Len(d) : e[i] = d[i]
             /\ e[Len(d) + 1] = CONTINUE
             /\ e[Len(d) + 2] = NEWLINE
             /\ \A j \in 1 .. Len(words) : e[Len(d) + 2 + j] = words[j]
<1> DEFINE d == b.data
           start == d \o <<CONTINUE, NEWLINE>>
           e == AppendLine(b, words).data
<1>1. d \in Seq(Symbol) /\ words \in Seq(Symbol) /\ <<CONTINUE, NEWLINE>> \in Seq(Symbol)
  BY DEF Buffer, Symbol
<1>2. /\ start \in Seq(Symbol) /\ Len(start) = Len(d) + 2
      /\ \A i \in 1 .. Len(d) : start[i] = d[i]
      /\ start[Len(d) + 1] = CONTINUE
      /\ start[Len(d) + 2] = NEWLINE
  BY <1>1
<1>3. e = start \o words
  BY DEF AppendLine, AppendWords, BeginLine
<1> HIDE DEF start, d, e
<1>4. /\ e \in Seq(Symbol) /\ Len(e) = Len(start) + Len(words)
      /\ \A i \in 1 .. Len(start) : e[i] = start[i]
      /\ \A j \in 1 .. Len(words) : e[Len(start) + j] = words[j]
  <2>1. /\ start \o words \in Seq(Symbol)
        /\ Len(start \o words) = Len(start) + Len(words)
        /\ \A i \in 1 .. Len(start) : (start \o words)[i] = start[i]
        /\ \A j \in 1 .. Len(words) : (start \o words)[Len(start) + j] = words[j]
    BY <1>1, <1>2, SMTT(40)
  <2> QED
    BY <2>1, <1>3
<1>5. /\ \A i \in 1 .. Len(d) : e[i] = d[i]
      /\ e[Len(d) + 1] = CONTINUE
      /\ e[Len(d) + 2] = NEWLINE
  BY <1>1, <1>2, <1>4
<1> QED
  BY <1>2, <1>4, <1>5 DEF d, e

\* A line that ends where two sequences still agree lies in both.
LEMMA LineAtSame ==
  ASSUME NEW d, NEW e, NEW line \in Seq(Symbol), NEW s \in Nat, NEW end \in Nat,
         LineAt(d, line, s, end),
         \A p \in 1 .. end : e[p] = d[p]
  PROVE  LineAt(e, line, s, end)
<1>1. Len(line) \in Nat /\ s + Len(line) < end /\ end \in 1 .. end
  BY DEF LineAt
<1>2. \A j \in 1 .. Len(line) : s + j \in 1 .. end
  BY <1>1
<1>3. end = s + Len(line) + 2 => end - 1 \in 1 .. end
  BY <1>1
<1> QED
  BY <1>1, <1>2, <1>3 DEF LineAt

\* Composing a line behind others lays it out behind them.
LEMMA AppendLineLaysOut ==
  ASSUME NEW b \in Buffer, NEW ls \in Seq(Seq(Word)), NEW line \in Seq(Word),
         b.data # <<>>, Composed(b.data),
         LaidOut(Append(b.data, NEWLINE), ls)
  PROVE  LaidOut(Append(AppendLine(b, line).data, NEWLINE), Append(ls, line))
<1> DEFINE d  == b.data
           d1 == Append(d, NEWLINE)
           e  == AppendLine(b, line).data
           e1 == Append(e, NEWLINE)
           n  == Len(ls)
           m  == Len(d)
           k  == Len(line)
           l1 == Append(ls, line)
<1>1. PICK at \in [1 .. n + 1 -> 0 .. Len(d1)] : Layout(d1, ls, at)
  BY DEF LaidOut
<1> DEFINE at1 == [i \in 1 .. n + 2 |-> IF i <= n THEN at[i]
                                      ELSE IF i = n + 1 THEN m + 2
                                      ELSE m + 3 + k]
<1>2. /\ d \in Seq(Symbol) /\ n \in Nat /\ m \in Nat /\ k \in Nat
      /\ Len(d1) = m + 1
      /\ \A i \in 1 .. m : d1[i] = d[i]
  BY DEF Buffer
<1>3. /\ e \in Seq(Symbol)
      /\ Len(e) = m + 2 + k
      /\ \A i \in 1 .. m : e[i] = d[i]
      /\ e[m + 1] = CONTINUE
      /\ e[m + 2] = NEWLINE
      /\ \A j \in 1 .. k : e[m + 2 + j] = line[j]
  BY AppendLineSymbols
<1>4. /\ l1 \in Seq(Seq(Word)) /\ Len(l1) = n + 1
      /\ \A i \in 1 .. n : l1[i] = ls[i]
      /\ l1[n + 1] = line
  OBVIOUS
<1> HIDE DEF d, d1, e, m
<1>5. /\ Len(e1) = m + 3 + k
      /\ \A i \in 1 .. m : e1[i] = d1[i]
      /\ e1[m + 1] = CONTINUE
      /\ e1[m + 2] = NEWLINE
      /\ \A j \in 1 .. k : e1[m + 2 + j] = line[j]
      /\ e1[m + 3 + k] = NEWLINE
  <2>1. /\ Len(e1) = Len(e) + 1
        /\ e1[Len(e) + 1] = NEWLINE
        /\ \A i \in 1 .. Len(e) : e1[i] = e[i]
    BY <1>3
  <2> HIDE DEF e1
  <2> QED
    BY <2>1, <1>2, <1>3
<1> HIDE DEF e1, l1, k, n
<1>6. /\ at[1] = 0 /\ at[n + 1] = m + 1
      /\ \A i, j \in 1 .. n + 1 : i < j => at[i] < at[j]
      /\ \A i \in 1 .. n + 1 : at[i] \in Nat
      /\ \A i \in 1 .. n : LineAt(d1, ls[i], at[i], at[i + 1])
  <2>1. \A i \in 1 .. n + 1 : at[i] \in 0 .. m + 1
    BY <1>1, <1>2
  <2> QED
    BY <2>1, <1>1, <1>2 DEF Layout, n
<1>7. \A i \in 1 .. n : at[i] < m + 1
  BY <1>2, <1>6
<1>8. at1 \in [1 .. n + 2 -> 0 .. m + 3 + k]
  BY <1>2, <1>6, <1>7
<1>9. n > 0
  BY <1>2, <1>6
<1>10. /\ at1[1] = 0 /\ at1[n + 1] = m + 2 /\ at1[n + 2] = m + 3 + k
       /\ \A i \in 1 .. n : at1[i] = at[i]
  BY <1>2, <1>6, <1>9
<1> HIDE DEF at1
<1>11. \A i, j \in 1 .. n + 2 : i < j => at1[i] < at1[j]
  <2> SUFFICES ASSUME NEW i \in 1 .. n + 2, NEW j \in 1 .. n + 2, i < j PROVE at1[i] < at1[j]
    OBVIOUS
  <2>1. CASE j <= n
    <3>1. i \in 1 .. n /\ j \in 1 .. n /\ i \in 1 .. n + 1 /\ j \in 1 .. n + 1
      BY <2>1, <1>2
    <3> QED
      BY <3>1, <1>6, <1>10
  <2>2. CASE i <= n /\ j > n
    <3>1. at1[i] < m + 1
      BY <2>2, <1>2, <1>7, <1>10
    <3>2. at1[j] >= m + 2
      <4>1. j = n + 1 \/ j = n + 2
        BY <2>2, <1>2
      <4> QED
        BY <4>1, <1>2, <1>8, <1>10
    <3>3. at1[i] \in Nat /\ at1[j] \in Nat
      BY <1>8, <1>2
    <3> QED
      BY <3>1, <3>2, <3>3, <1>2
  <2>3. CASE i = n + 1 /\ j = n + 2
    BY <2>3, <1>2, <1>10
  <2> QED
    BY <2>1, <2>2, <2>3, <1>2
<1>12. ASSUME NEW i \in 1 .. n + 1 PROVE LineAt(e1, l1[i], at1[i], at1[i + 1])
  <2>1. CASE i < n
    <3>1. i \in 1 .. n /\ i + 1 \in 1 .. n
      BY <2>1, <1>2
    <3>2. LineAt(d1, ls[i], at[i], at[i + 1]) /\ at[i + 1] < m + 1
      BY <3>1, <1>6, <1>7
    <3>3. /\ at[i] \in Nat /\ at[i + 1] \in Nat /\ at[i] < at[i + 1]
          /\ at1[i] = at[i] /\ at1[i + 1] = at[i + 1]
      <4>1. i \in 1 .. n + 1 /\ i + 1 \in 1 .. n + 1 /\ i < i + 1
        BY <3>1, <1>2
      <4>2. at[i] \in Nat /\ at[i + 1] \in Nat /\ at[i] < at[i + 1]
        BY <4>1, <1>6
      <4>3. at1[i] = at[i] /\ at1[i + 1] = at[i + 1]
        BY <3>1, <1>10
      <4> QED
        BY <4>2, <4>3
    <3>4. ls[i] \in Seq(Symbol)
      <4>1. Seq(Word) \subseteq Seq(Symbol)
        BY DEF Symbol
      <4> QED
        BY <3>1, <4>1 DEF n
    <3>5. \A p \in 1 .. at[i + 1] : p \in 1 .. m /\ e1[p] = d1[p]
      BY <3>2, <3>3, <1>2, <1>5
    <3>6. LineAt(e1, ls[i], at[i], at[i + 1])
      BY <3>2, <3>3, <3>4, <3>5, LineAtSame
    <3>7. l1[i] = ls[i]
      BY <3>1, <1>4
    <3> QED
      BY <3>3, <3>6, <3>7
  <2>2. CASE i = n
    <3> DEFINE s == at[n]
               w == ls[n]
    <3>1. n \in 1 .. n /\ n \in 1 .. n + 1
      BY <1>2, <1>9
    <3>2. LineAt(d1, w, s, m + 1)
      BY <3>1, <1>6
    <3>3. s < m + 1 /\ s \in Nat
      BY <3>1, <1>6, <1>7
    <3>9. at1[n] = s /\ at1[n + 1] = m + 2 /\ l1[n] = w
      BY <3>1, <1>4, <1>10
    <3>4. w \in Seq(Word) /\ Len(w) \in Nat
      BY <3>1 DEF n
    <3> HIDE DEF s, w
    <3>5. m + 1 = s + Len(w) + 1
      <4> SUFFICES ASSUME m + 1 = s + Len(w) + 2, d1[(m + 1) - 1] = CONTINUE PROVE FALSE
        BY <3>2 DEF LineAt
      <4>1. (m + 1) - 1 = m /\ m \in 1 .. m
        BY <3>3, <3>4, <1>2
      <4>2. d[m] = CONTINUE /\ d[m] \in Word
        BY <4>1, <1>2 DEF d, m, Composed
      <4> QED
        BY <4>2, AlphabetAssumption
    <3>6. m + 2 = s + Len(w) + 2 /\ (m + 2) - 1 = m + 1
      <4>1. m \in Nat
        BY <1>2
      <4> QED
        BY <3>3, <3>4, <3>5, <4>1
    <3>7. ASSUME NEW j \in 1 .. Len(w) PROVE e1[s + j] = w[j]
      <4>1. s + j \in 1 .. m
        BY <3>3, <3>4, <3>5, <1>2
      <4>2. d1[s + j] = w[j]
        BY <3>2 DEF LineAt
      <4> QED
        BY <4>1, <4>2, <1>5
    <3>8. LineAt(e1, w, s, m + 2)
      BY <3>6, <3>7, <1>5 DEF LineAt
    <3> QED
      BY <3>8, <3>9, <2>2
  <2>3. CASE i = n + 1
    <3>1. at1[i] = m + 2 /\ at1[i + 1] = m + 3 + k /\ l1[i] = line
      BY <2>3, <1>2, <1>4, <1>10
    <3> QED
      BY <3>1, <1>2, <1>5 DEF LineAt, k
  <2> QED
    BY <2>1, <2>2, <2>3, <1>2
<1>13. Layout(e1, l1, at1)
  BY <1>2, <1>4, <1>5, <1>10, <1>11, <1>12 DEF Layout
<1>14. Len(l1) + 1 = n + 2 /\ Len(e1) = m + 3 + k
  BY <1>2, <1>4, <1>5
<1> QED
  BY <1>8, <1>13, <1>14 DEF LaidOut, e1, l1, e

\* The first line of a block is all there is.
LEMMA FirstLineLaysOut ==
  ASSUME NEW b \in Buffer, NEW line \in Seq(Word), b.data = <<>>
  PROVE  LaidOut(Append(AppendLine(b, line).data, NEWLINE), <<line>>)
<1> DEFINE k  == Len(line)
           e1 == Append(line, NEWLINE)
           at == [i \in 1 .. 2 |-> IF i = 1 THEN 0 ELSE k + 1]
<1>1. AppendLine(b, line).data = line
  <2>1. AppendLine(b, line).data = <<>> \o line
    BY DEF AppendLine, AppendWords, BeginLine
  <2> QED
    BY <2>1, ConcatEmptySeq
<1>2. /\ k \in Nat /\ Len(e1) = k + 1 /\ e1[k + 1] = NEWLINE
      /\ \A j \in 1 .. k : e1[j] = line[j]
  <2>1. line \in Seq(Word \cup {NEWLINE})
    OBVIOUS
  <2> QED
    BY <2>1, AppendProperties
<1> HIDE DEF e1
<1>3. at \in [1 .. 2 -> 0 .. k + 1] /\ at[1] = 0 /\ at[2] = k + 1
  BY <1>2
<1> HIDE DEF at
<1>4. LineAt(e1, line, 0, k + 1)
  <2>1. \A j \in 1 .. k : e1[0 + j] = line[j]
    BY <1>2
  <2> QED
    BY <1>2, <2>1 DEF LineAt
<1>5. \A i, j \in 1 .. 2 : i < j => at[i] < at[j]
  <2> SUFFICES ASSUME NEW i \in 1 .. 2, NEW j \in 1 .. 2, i < j PROVE at[i] < at[j]
    OBVIOUS
  <2>1. i = 1 /\ j = 2
    OBVIOUS
  <2> QED
    BY <2>1, <1>2, <1>3
<1>6. Len(<<line>>) = 1 /\ <<line>>[1] = line
  OBVIOUS
<1>7. Layout(e1, <<line>>, at)
  <2>1. \A i \in 1 .. 1 : LineAt(e1, <<line>>[i], at[i], at[i + 1])
    <3> TAKE i \in 1 .. 1
    <3>1. i = 1 /\ i + 1 = 2
      OBVIOUS
    <3> QED
      BY <3>1, <1>3, <1>4, <1>6
  <2> QED
    BY <2>1, <1>2, <1>3, <1>5, <1>6 DEF Layout
<1>8. at \in [1 .. Len(<<line>>) + 1 -> 0 .. Len(e1)]
  BY <1>2, <1>3, <1>6
<1> QED
  BY <1>1, <1>7, <1>8 DEF LaidOut, e1

\* Finalizing a composed block frames it.
LEMMA PrepareToWriteFrames ==
  ASSUME NEW b \in Buffer, Composed(b.data)
  PROVE  /\ PrepareToWrite(b) \in Buffer
         /\ PrepareToWrite(b).bol = 0
         /\ Framed(PrepareToWrite(b).data)
<1> DEFINE d == Append(b.data, NEWLINE)
<1>1. b.data \in Seq(Symbol) /\ Len(b.data) \in Nat /\ (b.data # <<>> => Len(b.data) > 0)
  BY DEF Buffer
<1>2. /\ d \in Seq(Symbol)
      /\ Len(d) = Len(b.data) + 1
      /\ d[Len(d)] = NEWLINE
      /\ \A i \in 1 .. Len(b.data) : d[i] = b.data[i]
  BY <1>1 DEF Symbol
<1>3. CONTINUE \notin Word /\ Word \cap Glued = {}
  BY AlphabetAssumption
<1>4. EndsBlock(d, Len(d))
  <2>1. CASE b.data = <<>>
    <3>1. Len(b.data) = 0
      BY <2>1
    <3> QED
      BY <3>1, <1>2 DEF EndsBlock
  <2>2. CASE b.data # <<>>
    BY <2>2, <1>1, <1>2, <1>3 DEF EndsBlock, Composed
  <2> QED
    BY <2>1, <2>2
<1>5. \A i \in 1 .. Len(b.data) : ~EndsBlock(d, i)
  <2> SUFFICES ASSUME NEW i \in 1 .. Len(b.data), EndsBlock(d, i) PROVE FALSE
    OBVIOUS
  <2>1. i > 1 /\ b.data[i - 1] = CONTINUE
    BY <1>2 DEF EndsBlock, Composed
  <2> QED
    BY <2>1, <1>1, <1>2 DEF EndsBlock
<1> QED
  BY <1>1, <1>2, <1>4, <1>5 DEF PrepareToWrite, Buffer, Framed

\* Every set of natural numbers that is not empty has a least element.
LEMMA LeastElement ==
  ASSUME NEW T \in SUBSET Nat, T # {}
  PROVE  \E x \in T : \A y \in T : x <= y
<1> DEFINE R == OpToRel(<, Nat)
<1>1. IsWellFoundedOn(R, Nat)
  BY NatLessThanWellFounded
<1>2. \A x, y \in Nat : y < x => <<y, x>> \in R
  BY DEF OpToRel
<1> HIDE DEF R
<1>3. PICK x \in T : \A y \in T : ~(<<y, x>> \in R)
  BY <1>1, WFMin
<1>4. \A y \in T : x <= y
  <2> TAKE y \in T
  <2>1. x \in Nat /\ y \in Nat
    OBVIOUS
  <2>2. ~(y < x)
    BY <2>1, <1>2, <1>3
  <2> QED
    BY <2>1, <2>2
<1> QED
  BY <1>3, <1>4

\* A piece of a channel, and what is left of it.
LEMMA ChannelPieces ==
  ASSUME NEW t \in Seq(Symbol), NEW n \in 0 .. Len(t)
  PROVE  /\ SubSeq(t, 1, n) \in Seq(Symbol) /\ Len(SubSeq(t, 1, n)) = n
         /\ SubSeq(t, n + 1, Len(t)) \in Seq(Symbol)
         /\ Len(SubSeq(t, n + 1, Len(t))) = Len(t) - n
<1>1. n \in Nat /\ Len(t) \in Nat /\ n <= Len(t)
  OBVIOUS
<1>2. \A i \in 1 .. n : t[i] \in Symbol
  BY <1>1
<1>3. \A i \in n + 1 .. Len(t) : t[i] \in Symbol
  BY <1>1
<1>4. SubSeq(t, 1, n) \in Seq(Symbol) /\ Len(SubSeq(t, 1, n)) = n
  <2>1. /\ SubSeq(t, 1, n) \in Seq(Symbol)
        /\ Len(SubSeq(t, 1, n)) = IF 1 <= n THEN n - 1 + 1 ELSE 0
    BY <1>1, <1>2, SubSeqProperties
  <2> QED
    BY <2>1, <1>1
<1>5. /\ SubSeq(t, n + 1, Len(t)) \in Seq(Symbol)
      /\ Len(SubSeq(t, n + 1, Len(t))) = Len(t) - n
  <2>1. /\ SubSeq(t, n + 1, Len(t)) \in Seq(Symbol)
        /\ Len(SubSeq(t, n + 1, Len(t))) = IF n + 1 <= Len(t) THEN Len(t) - (n + 1) + 1 ELSE 0
    BY <1>1, <1>3, SubSeqProperties
  <2>2. (IF n + 1 <= Len(t) THEN Len(t) - (n + 1) + 1 ELSE 0) = Len(t) - n
    BY <1>1
  <2> QED
    BY <2>1, <2>2
<1> QED
  BY <1>4, <1>5

\* What lies in a channel stays where it is when more is written behind it.
LEMMA WriteMore ==
  ASSUME NEW t \in Seq(Symbol), NEW d \in Seq(Symbol), NEW s \in Nat, NEW n \in Nat,
         n > 0, s + n <= Len(d)
  PROVE  LET more == t \o SubSeq(d, s + 1, s + n)
         IN  /\ Len(more) = Len(t) + n
             /\ \A j \in 1 .. Len(t) : more[j] = t[j]
             /\ \A j \in 1 .. Len(more) : j > Len(t) => more[j] = d[s + (j - Len(t))]
<1> DEFINE piece == SubSeq(d, s + 1, s + n)
           more == t \o piece
<1>1. \A i \in s + 1 .. s + n : d[i] \in Symbol
  BY DEF Seq
<1>2. /\ piece \in Seq(Symbol)
      /\ Len(piece) = IF s + 1 <= s + n THEN (s + n) - (s + 1) + 1 ELSE 0
      /\ \A i \in 1 .. (s + n) - (s + 1) + 1 : piece[i] = d[(s + 1) + i - 1]
  BY <1>1, SubSeqProperties
<1>3. Len(piece) = n
  <2> DEFINE l == Len(piece)
  <2>1. l = IF s + 1 <= s + n THEN (s + n) - (s + 1) + 1 ELSE 0
    BY <1>2
  <2> HIDE DEF l
  <2> QED
    BY <2>1 DEF l
<1>4. \A i \in 1 .. n : piece[i] = d[s + i]
  <2> HIDE DEF piece
  <2>1. \A i \in 1 .. n : i \in 1 .. (s + n) - (s + 1) + 1 /\ (s + 1) + i - 1 = s + i
    OBVIOUS
  <2> QED
    BY <2>1, <1>2
<1> HIDE DEF piece
<1>5. /\ Len(more) = Len(t) + n
      /\ \A j \in 1 .. Len(t) : more[j] = t[j]
      /\ \A i \in 1 .. n : more[Len(t) + i] = piece[i]
  <2> DEFINE l == Len(t)
  <2>1. /\ Len(more) = l + n
        /\ \A i \in 1 .. l + n : more[i] = IF i <= l THEN t[i] ELSE piece[i - l]
    BY <1>2, <1>3, ConcatProperties
  <2>2. l \in Nat
    OBVIOUS
  <2> HIDE DEF l, more
  <2>3. \A i \in 1 .. l : i \in 1 .. l + n /\ i <= l
    BY <2>2
  <2>4. \A i \in 1 .. n : l + i \in 1 .. l + n /\ ~(l + i <= l) /\ (l + i) - l = i
    BY <2>2
  <2>5. \A i \in 1 .. l : more[i] = t[i]
    BY <2>1, <2>3
  <2>6. \A i \in 1 .. n : more[l + i] = piece[i]
    BY <2>1, <2>4
  <2> QED
    BY <2>1, <2>5, <2>6 DEF l
<1> HIDE DEF more
<1>6. ASSUME NEW j \in 1 .. Len(more), j > Len(t)
      PROVE  more[j] = d[s + (j - Len(t))]
  <2> DEFINE i == j - Len(t)
  <2>1. Len(t) \in Nat
    OBVIOUS
  <2>2. i \in 1 .. n /\ Len(t) + i = j
    BY <2>1, <1>5, <1>6
  <2> HIDE DEF i
  <2>3. more[Len(t) + i] = d[s + i]
    BY <2>2, <1>4, <1>5
  <2> QED
    BY <2>2, <2>3 DEF i
<1> QED
  BY <1>5, <1>6 DEF more, piece

\* And if it was the next piece of a block, it still is, with more of it.
LEMMA WriteStarts ==
  ASSUME NEW d \in Seq(Symbol), NEW s \in Seq(Symbol), NEW t \in Seq(Symbol),
         Starts(d, s, t),
         NEW b \in Nat, b = Len(s) + Len(t), NEW n \in Nat, n > 0, b + n <= Len(d)
  PROVE  LET more == t \o SubSeq(d, b + 1, b + n)
         IN  /\ more \in Seq(Symbol)
             /\ Len(more) = Len(t) + n
             /\ Starts(d, s, more)
<1> DEFINE more == t \o SubSeq(d, b + 1, b + n)
           g == Len(s)
           l == Len(t)
<1>1. g \in Nat /\ l \in Nat /\ Len(d) \in Nat /\ b = g + l
  OBVIOUS
<1>2. /\ Len(more) = l + n
      /\ \A j \in 1 .. l : more[j] = t[j]
      /\ \A j \in 1 .. Len(more) : j > l => more[j] = d[b + (j - l)]
  BY WriteMore
<1>3. more \in Seq(Symbol)
  <2>1. \A i \in b + 1 .. b + n : d[i] \in Symbol
    BY <1>1
  <2>2. SubSeq(d, b + 1, b + n) \in Seq(Symbol)
    BY <2>1, SubSeqProperties
  <2> QED
    BY <2>2, ConcatProperties
<1>4. /\ g < Len(d)
      /\ \A i \in 1 .. g : s[i] = d[i]
      /\ \A j \in 1 .. l : g + j <= Len(d) => t[j] = d[g + j]
  BY DEF Starts
<1> HIDE DEF more, g, l
<1>5. ASSUME NEW j \in 1 .. Len(more), g + j <= Len(d)
      PROVE  more[j] = d[g + j]
  <2>1. CASE j <= l
    <3>1. j \in 1 .. l
      BY <2>1, <1>1
    <3> QED
      BY <3>1, <1>2, <1>4, <1>5
  <2>2. CASE ~(j <= l)
    <3>1. j \in Nat /\ j > l
      BY <2>2, <1>1, <1>2
    <3>2. b + (j - l) = g + j
      BY <3>1, <1>1, SMTT(40)
    <3> QED
      BY <3>1, <3>2, <1>2
  <2> QED
    BY <2>1, <2>2
<1>6. Starts(d, s, more)
  BY <1>4, <1>5 DEF Starts, g
<1> QED
  BY <1>2, <1>3, <1>6 DEF more, l

\* What Write has made of a piece of its block, when the other end has read h of
\* the block and more lies in the channel: all went out, or some waits.
SentMore(b, h, more, w) ==
  /\ w.buffer \in Buffer /\ more \in Seq(Symbol)
  /\ Starts(b.data, h, more)
  /\ \/ /\ w.err = "0"
        /\ w.buffer = EmptyBuffer
        /\ Len(h) + Len(more) = Len(b.data)
     \/ /\ w.err = "EAGAIN"
        /\ w.buffer.data = b.data
        /\ w.buffer.bol = Len(h) + Len(more)
        /\ w.buffer.bol < Len(b.data)

\* What write(2) takes of a block goes behind what lies in the channel.
LEMMA SendPiece ==
  ASSUME NEW b \in Buffer, NEW s \in Seq(Symbol), NEW t \in Seq(Symbol),
         Starts(b.data, s, t), b.bol = Len(s) + Len(t),
         NEW n \in Nat, n > 0, n <= Len(Unwritten(b)), b.bol < Len(b.data)
  PROVE  SentMore(b, s, t \o SubSeq(b.data, b.bol + 1, b.bol + n), WriteSome(b, n))
<1> DEFINE w    == WriteSome(b, n)
           more == t \o SubSeq(b.data, b.bol + 1, b.bol + n)
<1> SUFFICES SentMore(b, s, more, w)
  OBVIOUS
<1>1. /\ b.data \in Seq(Symbol) /\ b.bol \in Nat /\ Len(b.data) \in Nat
      /\ Len(s) \in Nat /\ Len(t) \in Nat
      /\ b = [data |-> b.data, bol |-> b.bol]
  BY DEF Buffer
<1>2. Len(Unwritten(b)) = Len(b.data) - b.bol
  BY <1>1, UnwrittenLength
<1>3. b.bol + n <= Len(b.data)
  BY <1>1, <1>2
<1>4. more \in Seq(Symbol) /\ Len(more) = Len(t) + n /\ Starts(b.data, s, more)
  <2>1. PICK d \in Seq(Symbol) : d = b.data
    BY <1>1
  <2>2. PICK k \in Nat : k = b.bol
    BY <1>1
  <2>3. Starts(d, s, t) /\ k = Len(s) + Len(t) /\ k + n <= Len(d)
    BY <2>1, <2>2, <1>3
  <2>4. more = t \o SubSeq(d, k + 1, k + n)
    BY <2>1, <2>2
  <2> DEFINE m == t \o SubSeq(d, k + 1, k + n)
  <2>5. m \in Seq(Symbol)
    BY <2>3, WriteStarts
  <2>6. Len(m) = Len(t) + n
    BY <2>3, WriteStarts
  <2>7. Starts(d, s, m)
    BY <2>3, WriteStarts
  <2> HIDE DEF more, m
  <2>8. more = m
    BY <2>4 DEF m
  <2> QED
    BY <2>1, <2>5, <2>6, <2>7, <2>8
<1>5. w = IF b.bol + n = Len(b.data)
          THEN [err |-> "0",      buffer |-> EmptyBuffer]
          ELSE [err |-> "EAGAIN", buffer |-> [data |-> b.data, bol |-> b.bol + n]]
  BY <1>1, SMTT(40) DEF WriteSome
<1> HIDE DEF w, more
<1>6. Len(s) + Len(more) = b.bol + n
  <2>1. \A i, j, k \in Nat : i + (j + k) = (i + j) + k
    OBVIOUS
  <2> QED
    BY <2>1, <1>1, <1>4
<1>7. CASE b.bol + n = Len(b.data)
  BY <1>4, <1>5, <1>6, <1>7, EmptyBufferType DEF SentMore
<1>8. CASE b.bol + n # Len(b.data)
  <2>1. b.bol + n \in Nat /\ b.bol + n < Len(b.data)
    BY <1>1, <1>3, <1>8
  <2>2. w.err = "EAGAIN" /\ w.buffer = [data |-> b.data, bol |-> b.bol + n]
    BY <1>5, <1>8
  <2>3. w.buffer \in Buffer
    BY <2>1, <2>2, <1>1 DEF Buffer
  <2> QED
    BY <2>1, <2>2, <2>3, <1>4, <1>6 DEF SentMore
<1> QED
  BY <1>7, <1>8

\* Read on anything: it leaves the start of the line alone, and when it asks
\* for no more what it leaves ends with the end of a block.
LEMMA ReadSomeResult ==
  ASSUME NEW b \in Buffer, NEW chunk \in Seq(Symbol)
  PROVE  LET r == ReadSome(b, chunk)
             d == r.buffer.data
         IN  /\ r.buffer \in Buffer /\ r.buffer.bol = b.bol
             /\ r.err \in {"0", "EAGAIN", "EINVAL"}
             /\ r.err = "EAGAIN" => d = b.data \o chunk
             /\ r.err # "EAGAIN" => Len(d) > Len(b.data) /\ EndsBlock(d, Len(d))
<1> DEFINE e    == b.data \o chunk
           low  == Len(b.data)
           Ends == {i \in low + 1 .. Len(e) : EndsBlock(e, i)}
           end  == CHOOSE i \in Ends : \A j \in Ends : i <= j
           r    == ReadSome(b, chunk)
<1>1. /\ b.data \in Seq(Symbol) /\ b.bol \in Nat /\ low \in Nat
      /\ b = [data |-> b.data, bol |-> b.bol]
      /\ e \in Seq(Symbol) /\ Len(e) \in Nat
  BY ConcatProperties DEF Buffer
<1>2. CASE Ends = {}
  <2>1. r = [err |-> "EAGAIN", buffer |-> [b EXCEPT !.data = e]]
    BY <1>2 DEF ReadSome
  <2>2. [b EXCEPT !.data = e] = [data |-> e, bol |-> b.bol]
    <3> HIDE DEF e
    <3> QED
      BY <1>1
  <2>3. [data |-> e, bol |-> b.bol] \in Buffer
    BY <1>1 DEF Buffer
  <2> HIDE DEF e, r
  <2> QED
    BY <2>1, <2>2, <2>3 DEF r, e
<1>3. CASE Ends # {}
  <2>1. PICK x \in Ends : \A y \in Ends : x <= y
    <3>1. Ends \in SUBSET Nat
      BY <1>1
    <3> HIDE DEF Ends
    <3> QED
      BY <3>1, <1>3, LeastElement
  <2>2. end \in Ends
    BY <2>1
  <2> HIDE DEF end
  <2>3. end \in low + 1 .. Len(e) /\ EndsBlock(e, end)
    BY <2>2
  <2>4. end \in Nat /\ end > low /\ end <= Len(e)
    BY <2>3, <1>1
  <2>5. r = [err    |-> IF end = Len(e) THEN "0" ELSE "EINVAL",
             buffer |-> [b EXCEPT !.data = SubSeq(e, 1, end)]]
    BY <1>3 DEF ReadSome, end
  <2> DEFINE d == SubSeq(e, 1, end)
  <2>6. /\ d \in Seq(Symbol) /\ Len(d) = end
        /\ \A i \in 1 .. end : d[i] = e[i]
    <3>1. \A i \in 1 .. end : e[i] \in Symbol
      BY <2>4, <1>1
    <3> HIDE DEF e, d
    <3> QED
      BY <3>1, <2>4, SubSeqProperties DEF d
  <2> HIDE DEF d, e, r, Ends, low
  <2>7. EndsBlock(d, end)
    <3>1. end \in 1 .. end
      BY <2>4, <1>1
    <3>2. end # 1 => end - 1 \in 1 .. end
      BY <3>1
    <3> QED
      BY <3>1, <3>2, <2>3, <2>6 DEF EndsBlock
  <2>8. [b EXCEPT !.data = d] = [data |-> d, bol |-> b.bol]
    BY <1>1
  <2>9. [data |-> d, bol |-> b.bol] \in Buffer
    BY <1>1, <2>6 DEF Buffer
  <2>10. /\ r.buffer = [data |-> d, bol |-> b.bol]
         /\ r.err \in {"0", "EINVAL"}
    BY <2>5, <2>8 DEF d
  <2> QED
    BY <2>4, <2>6, <2>7, <2>9, <2>10 DEF r, low
<1> QED
  BY <1>2, <1>3

\* Where no block has ended, and in a buffer with a whole one.
Unended(d) == \A i \in 1 .. Len(d) : ~EndsBlock(d, i)
Ended(d)   == d # <<>> /\ EndsBlock(d, Len(d))

\* Read asks for more only while no block has ended.
LEMMA ReadSomeUnended ==
  ASSUME NEW b \in Buffer, NEW chunk \in Seq(Symbol), Unended(b.data),
         ReadSome(b, chunk).err = "EAGAIN"
  PROVE  Unended(ReadSome(b, chunk).buffer.data)
<1> DEFINE d == b.data \o chunk
           low == Len(b.data)
           Ends == {i \in low + 1 .. Len(d) : EndsBlock(d, i)}
<1>1. /\ b.data \in Seq(Symbol) /\ low \in Nat
      /\ d \in Seq(Symbol) /\ Len(d) \in Nat /\ Len(d) = low + Len(chunk) /\ Len(chunk) \in Nat
      /\ \A i \in 1 .. low : d[i] = b.data[i]
  BY ConcatProperties DEF Buffer
<1>2. Ends = {}
  BY DEF ReadSome
<1>3. ReadSome(b, chunk).buffer.data = d
  BY ReadSomeResult
<1> HIDE DEF d, low
<1>4. ASSUME NEW i \in 1 .. low, EndsBlock(d, i) PROVE FALSE
  <2>1. i = 1 \/ i - 1 \in 1 .. low
    BY <1>1
  <2>2. EndsBlock(b.data, i)
    BY <2>1, <1>1, <1>4 DEF EndsBlock
  <2> QED
    BY <2>2 DEF Unended, low
<1>5. \A i \in 1 .. Len(d) : i \in 1 .. low \/ i \in low + 1 .. Len(d)
  BY <1>1
<1>6. Unended(d)
  BY <1>2, <1>4, <1>5 DEF Unended
<1> QED
  BY <1>3, <1>6

\* Read on a piece of a framed block: it asks for more until the block is
\* whole, and never finds it malformed.
LEMMA ReadSomeOfBlock ==
  ASSUME NEW b \in Buffer, NEW chunk \in Seq(Symbol), NEW d \in Seq(Symbol),
         Framed(d), Len(chunk) > 0,
         Len(b.data) + Len(chunk) <= Len(d),
         \A i \in 1 .. Len(b.data) : b.data[i] = d[i],
         \A j \in 1 .. Len(chunk) : chunk[j] = d[Len(b.data) + j]
  PROVE  /\ ReadSome(b, chunk).buffer = [data |-> b.data \o chunk, bol |-> b.bol]
         /\ ReadSome(b, chunk).err =
              IF Len(b.data) + Len(chunk) = Len(d) THEN "0" ELSE "EAGAIN"
<1> DEFINE e    == b.data \o chunk
           low  == Len(b.data)
           Ends == {i \in low + 1 .. Len(e) : EndsBlock(e, i)}
           end  == CHOOSE i \in Ends : \A j \in Ends : i <= j
<1>1. b.data \in Seq(Symbol) /\ b = [data |-> b.data, bol |-> b.bol]
  BY DEF Buffer
<1>2. /\ e \in Seq(Symbol)
      /\ Len(e) = low + Len(chunk)
      /\ \A i \in 1 .. Len(e) : e[i] = d[i]
  <2>1. e \in Seq(Symbol) /\ Len(e) = low + Len(chunk)
    BY <1>1
  <2>2. ASSUME NEW i \in 1 .. Len(e) PROVE e[i] = d[i]
    <3>1. CASE i <= low
      BY <3>1, <1>1
    <3>2. CASE i > low
      <4>1. i - low \in 1 .. Len(chunk) /\ e[i] = chunk[i - low]
        BY <3>2, <2>1, <1>1
      <4> QED
        BY <4>1, <1>1
    <3> QED
      BY <3>1, <3>2, <1>1, <2>1
  <2> QED
    BY <2>1, <2>2
<1>3. \A i \in 1 .. Len(e) : EndsBlock(e, i) <=> i = Len(d)
  <2> SUFFICES ASSUME NEW i \in 1 .. Len(e) PROVE EndsBlock(e, i) <=> i = Len(d)
    OBVIOUS
  <2>1. i \in 1 .. Len(d) /\ e[i] = d[i]
    BY <1>1, <1>2
  <2>2. i # 1 => e[i - 1] = d[i - 1]
    <3>1. i # 1 => i - 1 \in 1 .. Len(e)
      BY <1>2
    <3> QED
      BY <1>2, <3>1
  <2>3. EndsBlock(e, i) <=> EndsBlock(d, i)
    BY <2>1, <2>2 DEF EndsBlock
  <2> QED
    BY <2>1, <2>3 DEF Framed
<1>4. CASE Len(e) = Len(d)
  <2>1. Ends = {Len(e)}
    BY <1>1, <1>2, <1>3, <1>4
  <2>2. end = Len(e)
    BY <2>1, <1>2
  <2>3. SubSeq(e, 1, Len(e)) = e
    BY <1>2, SubSeqFull
  <2> QED
    BY <1>1, <1>2, <1>4, <2>1, <2>2, <2>3 DEF ReadSome
<1>5. CASE Len(e) # Len(d)
  <2>1. Ends = {}
    BY <1>1, <1>2, <1>3, <1>5
  <2> QED
    BY <1>1, <1>2, <1>5, <2>1 DEF ReadSome
<1> QED
  BY <1>4, <1>5

\* Read on a buffer, with a channel behind it, that hold the start of a framed
\* block: it takes the block and nothing behind it, or asks for more.
LEMMA ReadSomeStarts ==
  ASSUME NEW b \in Buffer, NEW t \in Seq(Symbol), NEW n \in 1 .. Len(t),
         NEW d \in Seq(Symbol), Framed(d), Starts(d, b.data, t)
  PROVE  LET chunk == SubSeq(t, 1, n)
             r     == ReadSome(b, chunk)
         IN  IF Len(b.data) + n < Len(d)
             THEN /\ r.err = "EAGAIN"
                  /\ r.buffer = [data |-> b.data \o chunk, bol |-> b.bol]
                  /\ Len(b.data \o chunk) = Len(b.data) + n
                  /\ Starts(d, b.data \o chunk, SubSeq(t, n + 1, Len(t)))
             ELSE /\ r.err # "EAGAIN"
                  /\ Len(b.data) + n = Len(d) => r.err = "0"
                  /\ r.buffer = [data |-> d, bol |-> b.bol]
<1> DEFINE chunk == SubSeq(t, 1, n)
           rest  == SubSeq(t, n + 1, Len(t))
           e     == b.data \o chunk
           low   == Len(b.data)
           k     == Len(d)
           Ends  == {i \in low + 1 .. Len(e) : EndsBlock(e, i)}
           end   == CHOOSE i \in Ends : \A j \in Ends : i <= j
           r     == ReadSome(b, chunk)
<1>1. /\ b.data \in Seq(Symbol) /\ low \in Nat /\ k \in Nat /\ low < k
      /\ b = [data |-> b.data, bol |-> b.bol]
      /\ n \in Nat /\ n > 0 /\ n <= Len(t) /\ Len(t) \in Nat
  BY DEF Buffer, Starts
<1>2. /\ chunk \in Seq(Symbol) /\ Len(chunk) = n
      /\ \A j \in 1 .. n : chunk[j] = t[j]
  <2>1. \A i \in 1 .. n : t[i] \in Symbol
    BY <1>1
  <2> HIDE DEF chunk
  <2> QED
    BY <2>1, <1>1, SubSeqProperties DEF chunk
<1>3. /\ rest \in Seq(Symbol) /\ Len(rest) = Len(t) - n
      /\ \A j \in 1 .. Len(t) - n : rest[j] = t[n + j]
  <2>1. \A i \in n + 1 .. Len(t) : t[i] \in Symbol
    BY <1>1
  <2> HIDE DEF rest
  <2>2. /\ rest \in Seq(Symbol)
        /\ Len(rest) = IF n + 1 <= Len(t) THEN Len(t) - (n + 1) + 1 ELSE 0
        /\ \A j \in 1 .. Len(t) - (n + 1) + 1 : rest[j] = t[(n + 1) + j - 1]
    BY <2>1, <1>1, SubSeqProperties DEF rest
  <2>3. Len(t) - (n + 1) + 1 = Len(t) - n
    BY <1>1
  <2>4. Len(rest) = Len(t) - n
    BY <2>2, <2>3, <1>1
  <2>5. \A j \in 1 .. Len(t) - n : (n + 1) + j - 1 = n + j
    BY <1>1
  <2> QED
    BY <2>2, <2>3, <2>4, <2>5
<1> HIDE DEF chunk, rest
<1>4. /\ e \in Seq(Symbol) /\ Len(e) = low + n
      /\ \A i \in 1 .. low : e[i] = b.data[i]
      /\ \A j \in 1 .. n : e[low + j] = chunk[j]
  BY <1>1, <1>2
<1>5. ASSUME NEW i \in 1 .. Len(e), i <= k PROVE e[i] = d[i]
  <2>1. CASE i <= low
    BY <2>1, <1>1, <1>4 DEF Starts
  <2>2. CASE i > low
    <3>1. i - low \in 1 .. n /\ i - low \in 1 .. Len(t) /\ low + (i - low) = i
      BY <2>2, <1>1, <1>4
    <3>2. t[i - low] = d[i]
      BY <3>1, <1>5 DEF Starts
    <3> QED
      BY <3>1, <3>2, <1>2, <1>4
  <2> QED
    BY <2>1, <2>2, <1>1
<1>6. ASSUME NEW i \in 1 .. Len(e), i <= k PROVE EndsBlock(e, i) <=> i = k
  <2>1. e[i] = d[i] /\ i \in 1 .. k
    BY <1>1, <1>5, <1>6
  <2>2. i # 1 => e[i - 1] = d[i - 1]
    <3>1. i # 1 => i - 1 \in 1 .. Len(e) /\ i - 1 <= k
      BY <1>1, <1>4, <1>6
    <3> QED
      BY <3>1, <1>5
  <2>3. EndsBlock(e, i) <=> EndsBlock(d, i)
    BY <2>1, <2>2 DEF EndsBlock
  <2> QED
    BY <2>1, <2>3 DEF Framed
<1>7. r = IF Ends = {} THEN [err |-> "EAGAIN", buffer |-> [b EXCEPT !.data = e]]
          ELSE [err    |-> IF end = Len(e) THEN "0" ELSE "EINVAL",
                buffer |-> [b EXCEPT !.data = SubSeq(e, 1, end)]]
  BY DEF ReadSome
<1>8. \A x : [b EXCEPT !.data = x] = [data |-> x, bol |-> b.bol]
  BY <1>1
<1> HIDE DEF e, r, low, k
<1>9. CASE low + n < k
  <2>1. Ends = {}
    BY <1>1, <1>4, <1>6, <1>9, SMTT(40)
  <2> HIDE DEF Ends, end
  <2>2. r.err = "EAGAIN" /\ r.buffer = [data |-> e, bol |-> b.bol]
    BY <2>1, <1>7, <1>8
  <2>3. Starts(d, e, rest)
    <3>1. Len(e) < Len(d)
      BY <1>4, <1>9 DEF k
    <3>2. \A i \in 1 .. Len(e) : e[i] = d[i]
      BY <1>1, <1>4, <1>5, <1>9
    <3>3. ASSUME NEW j \in 1 .. Len(rest), Len(e) + j <= k PROVE rest[j] = d[Len(e) + j]
      <4>1. n + j \in 1 .. Len(t) /\ low + (n + j) = Len(e) + j
        BY <1>1, <1>3, <1>4
      <4>2. t[n + j] = d[Len(e) + j]
        BY <4>1, <3>3 DEF Starts, k, low
      <4> QED
        BY <4>2, <1>1, <1>3
    <3> QED
      BY <3>1, <3>2, <3>3 DEF Starts, k
  <2> QED
    BY <2>2, <2>3, <1>4, <1>9 DEF e, r, low, k, chunk, rest
<1>10. CASE ~(low + n < k)
  <2>1. k \in Ends /\ \A j \in Ends : k <= j
    <3>1. k \in low + 1 .. Len(e) /\ k \in 1 .. Len(e)
      BY <1>1, <1>4, <1>10
    <3>2. EndsBlock(e, k)
      BY <3>1, <1>1, <1>6
    <3>3. ASSUME NEW j \in low + 1 .. Len(e), EndsBlock(e, j), j < k PROVE FALSE
      <4>1. j \in 1 .. Len(e) /\ j <= k /\ j # k
        BY <3>3, <1>1, <1>4
      <4> QED
        BY <4>1, <3>3, <1>6
    <3> QED
      BY <3>1, <3>2, <3>3, <1>1, <1>4
  <2>2. end = k
    <3>1. \A i \in Ends : i \in Nat
      BY <1>1, <1>4
    <3> HIDE DEF Ends
    <3> QED
      BY <2>1, <3>1, <1>1
  <2>3. SubSeq(e, 1, k) = d
    <3>1. \A i \in 1 .. k : e[i] \in Symbol /\ e[i] = d[i]
      BY <1>1, <1>4, <1>5, <1>10
    <3>2. /\ SubSeq(e, 1, k) \in Seq(Symbol) /\ Len(SubSeq(e, 1, k)) = k
          /\ \A i \in 1 .. k : SubSeq(e, 1, k)[i] = e[i]
      BY <3>1, <1>1, SubSeqProperties, SMTT(40)
    <3> QED
      BY <3>1, <3>2, SeqEqual DEF k
  <2> HIDE DEF Ends, end
  <2>4. r.err # "EAGAIN" /\ r.buffer = [data |-> d, bol |-> b.bol]
    BY <2>1, <2>2, <2>3, <1>7, <1>8
  <2>5. low + n = k => r.err = "0"
    BY <2>1, <2>2, <1>4, <1>7
  <2> QED
    BY <2>4, <2>5, <1>10 DEF r, low, k, chunk
<1> QED
  BY <1>9, <1>10

\* What has been read of a block, and what lies ready, with more of it read.
LEMMA ReadStarts ==
  ASSUME NEW b \in Buffer, NEW t \in Seq(Symbol), NEW n \in 1 .. Len(t),
         NEW d \in Seq(Symbol), Framed(d), Starts(d, b.data, t)
  PROVE  LET r    == ReadSome(b, SubSeq(t, 1, n))
             rest == SubSeq(t, n + 1, Len(t))
         IN  IF Len(b.data) + n < Len(d)
             THEN /\ r.err = "EAGAIN"
                  /\ r.buffer.bol = b.bol
                  /\ Len(r.buffer.data) = Len(b.data) + n
                  /\ Starts(d, r.buffer.data, rest)
             ELSE /\ r.err # "EAGAIN"
                  /\ Len(b.data) + n = Len(d) => r.err = "0"
                  /\ r.buffer = [data |-> d, bol |-> b.bol]
<1> DEFINE chunk == SubSeq(t, 1, n)
           r     == ReadSome(b, chunk)
           rest  == SubSeq(t, n + 1, Len(t))
<1>1. IF Len(b.data) + n < Len(d)
      THEN /\ r.err = "EAGAIN"
           /\ r.buffer = [data |-> b.data \o chunk, bol |-> b.bol]
           /\ Len(b.data \o chunk) = Len(b.data) + n
           /\ Starts(d, b.data \o chunk, rest)
      ELSE /\ r.err # "EAGAIN"
           /\ Len(b.data) + n = Len(d) => r.err = "0"
           /\ r.buffer = [data |-> d, bol |-> b.bol]
  BY ReadSomeStarts, Zenon
<1> HIDE DEF chunk, r, rest
<1>2. CASE Len(b.data) + n < Len(d)
  <2>1. r.buffer.data = b.data \o chunk /\ r.buffer.bol = b.bol
    BY <1>1, <1>2
  <2> QED
    BY <1>1, <1>2, <2>1 DEF chunk, r, rest
<1>3. CASE ~(Len(b.data) + n < Len(d))
  BY <1>1, <1>3 DEF chunk, r, rest
<1> QED
  BY <1>2, <1>3

\* What Read has made of a piece of the block d, when t was in the channel and
\* rest still is: a longer part of the block, or all of it.
ReceivedMore(b, t, d, r, rest) ==
  /\ r.buffer \in Buffer /\ rest \in Seq(Symbol)
  /\ r.buffer.bol = b.bol
  /\ \/ /\ r.err = "EAGAIN"
        /\ Starts(d, r.buffer.data, rest)
        /\ Len(r.buffer.data) + Len(rest) = Len(b.data) + Len(t)
     \/ /\ r.err = "0"
        /\ r.buffer.data = d
        /\ rest = <<>>
        /\ Len(b.data) + Len(t) = Len(d)

\* The same, when nothing lies behind the block.
LEMMA ReceivePiece ==
  ASSUME NEW b \in Buffer, NEW t \in Seq(Symbol), NEW n \in 1 .. Len(t),
         NEW d \in Seq(Symbol), Framed(d), Starts(d, b.data, t),
         Len(b.data) + Len(t) <= Len(d)
  PROVE  ReceivedMore(b, t, d, ReadSome(b, SubSeq(t, 1, n)), SubSeq(t, n + 1, Len(t)))
<1> DEFINE r    == ReadSome(b, SubSeq(t, 1, n))
           rest == SubSeq(t, n + 1, Len(t))
<1> SUFFICES ReceivedMore(b, t, d, r, rest)
  OBVIOUS
<1>1. /\ Len(b.data) \in Nat /\ Len(d) \in Nat /\ Len(t) \in Nat
      /\ n \in Nat /\ n > 0 /\ n <= Len(t) /\ n \in 0 .. Len(t)
  BY DEF Buffer
<1>2. rest \in Seq(Symbol) /\ Len(rest) = Len(t) - n
  BY <1>1, ChannelPieces
<1>3. r.buffer \in Buffer
  <2>1. SubSeq(t, 1, n) \in Seq(Symbol)
    BY <1>1, ChannelPieces
  <2> HIDE DEF rest
  <2> QED
    BY <2>1, ReadSomeResult
<1>4. IF Len(b.data) + n < Len(d)
      THEN /\ r.err = "EAGAIN"
           /\ r.buffer.bol = b.bol
           /\ Len(r.buffer.data) = Len(b.data) + n
           /\ Starts(d, r.buffer.data, rest)
      ELSE /\ r.err # "EAGAIN"
           /\ Len(b.data) + n = Len(d) => r.err = "0"
           /\ r.buffer = [data |-> d, bol |-> b.bol]
  BY ReadStarts, ZenonT(60)
<1> HIDE DEF r, rest
<1>5. CASE Len(b.data) + n < Len(d)
  <2>1. Len(r.buffer.data) + Len(rest) = Len(b.data) + Len(t)
    <3>1. (Len(b.data) + n) + (Len(t) - n) = Len(b.data) + Len(t)
      BY <1>1
    <3> QED
      BY <3>1, <1>2, <1>4, <1>5
  <2> QED
    BY <2>1, <1>2, <1>3, <1>4, <1>5 DEF ReceivedMore
<1>6. CASE ~(Len(b.data) + n < Len(d))
  <2>1. n = Len(t) /\ Len(b.data) + n = Len(d) /\ Len(t) - n = 0
    BY <1>1, <1>6
  <2>2. rest = <<>>
    BY <2>1, <1>2, EmptySeq
  <2> QED
    BY <2>1, <2>2, <1>2, <1>3, <1>4, <1>6 DEF ReceivedMore
<1> QED
  BY <1>5, <1>6

\* In a buffer that ends with a newline, Lex finds the end of the line, and
\* leaves the buffer behind it.
LEMMA LexOfBuffer ==
  ASSUME NEW b \in Buffer, b.bol < Len(b.data), b.data[Len(b.data)] = NEWLINE
  PROVE  /\ LineEnd(b) \in b.bol + 1 .. Len(b.data)
         /\ Lex(b).text \in Seq(Symbol)
         /\ Lex(b).buffer = [data |-> b.data, bol |-> LineEnd(b)]
<1> DEFINE T == {i \in b.bol + 1 .. Len(b.data) : b.data[i] = NEWLINE}
<1>1. /\ b.data \in Seq(Symbol) /\ b.bol \in Nat
      /\ b = [data |-> b.data, bol |-> b.bol]
  BY DEF Buffer
<1>2. T \in SUBSET Nat /\ Len(b.data) \in T
  BY <1>1
<1>3. PICK x \in T : \A y \in T : x <= y
  BY <1>2, LeastElement
<1>4. \A j \in b.bol + 1 .. x - 1 : b.data[j] # NEWLINE
  BY <1>1, <1>3
<1>5. LineEnd(b) \in b.bol + 1 .. Len(b.data)
  BY <1>3, <1>4 DEF LineEnd
<1> DEFINE line == SubSeq(b.data, b.bol + 1, LineEnd(b) - 1)
<1>6. line \in Seq(Symbol)
  <2>1. \A i \in b.bol + 1 .. LineEnd(b) - 1 : b.data[i] \in Symbol
    BY <1>1, <1>5
  <2>2. b.bol + 1 \in Int /\ LineEnd(b) - 1 \in Int
    BY <1>1, <1>5
  <2> HIDE DEF line
  <2> QED
    BY <2>1, <2>2, SubSeqProperties DEF line
<1>7. WithoutContinuation(line) \in Seq(Symbol)
  <2> HIDE DEF line
  <2>1. \A i \in 1 .. Len(line) - 1 : line[i] \in Symbol
    BY <1>6
  <2>2. SubSeq(line, 1, Len(line) - 1) \in Seq(Symbol)
    BY <1>6, <2>1, SubSeqProperties
  <2> QED
    BY <1>6, <2>2 DEF WithoutContinuation
<1>8. Lex(b).buffer = [data |-> b.data, bol |-> LineEnd(b)]
  BY <1>1 DEF Lex
<1>9. Lex(b).text = WithoutContinuation(line)
  BY DEF Lex
<1> QED
  BY <1>5, <1>7, <1>8, <1>9

\* A line that lies where the buffer has come to is what Lex gives, without
\* its continuation mark, and Lex ends behind it.
LEMMA LexOfAnyLine ==
  ASSUME NEW b \in Buffer, NEW line \in Seq(Text), NEW end \in Nat,
         end <= Len(b.data), LineAt(b.data, line, b.bol, end)
  PROVE  /\ Lex(b).text = line
         /\ Lex(b).buffer = [data |-> b.data, bol |-> end]
         /\ Lex(b).err = IF \E i \in 1 .. Len(line) : line[i] \notin Word THEN "EINVAL"
                         ELSE IF line = <<>> THEN "ENOENT" ELSE "0"
<1> DEFINE d == b.data
           s == b.bol
           k == Len(line)
           inner == SubSeq(d, s + 1, end - 1)
<1>1. /\ d \in Seq(Symbol) /\ s \in Nat
      /\ b = [data |-> d, bol |-> s]
  BY DEF Buffer
<1>2. /\ k \in Nat /\ Len(d) \in Nat
      /\ \A j \in 1 .. k : line[j] \in Text
  BY <1>1
<1>3. CONTINUE # NEWLINE /\ NEWLINE \notin Text /\ CONTINUE \notin Text
  BY AlphabetAssumption DEF CONTINUE, NEWLINE, Text
<1>4. /\ \/ end = s + k + 1
         \/ end = s + k + 2 /\ d[end - 1] = CONTINUE
      /\ d[end] = NEWLINE
      /\ \A j \in 1 .. k : d[s + j] = line[j]
  BY DEF LineAt
<1> HIDE DEF d, s, k
<1>5. \A p \in s + 1 .. end - 1 : d[p] # NEWLINE
  <2> TAKE p \in s + 1 .. end - 1
  <2>1. CASE p <= s + k
    <3>1. p - s \in 1 .. k /\ s + (p - s) = p
      BY <2>1, <1>1, <1>2
    <3> QED
      BY <3>1, <1>2, <1>3, <1>4
  <2>2. CASE p > s + k
    <3>1. end = s + k + 2 /\ p = end - 1
      BY <2>2, <1>1, <1>2, <1>4
    <3>2. end # s + k + 1
      BY <3>1, <1>1, <1>2
    <3> QED
      BY <3>1, <3>2, <1>3, <1>4
  <2> QED
    BY <2>1, <2>2, <1>1, <1>2
<1>6. LineEnd(b) = end
  <2>1. end \in s + 1 .. Len(d)
    BY <1>1, <1>2, <1>4 DEF d
  <2>2. ASSUME NEW x \in s + 1 .. Len(d), d[x] = NEWLINE,
               \A j \in s + 1 .. x - 1 : d[j] # NEWLINE
        PROVE  x = end
    <3>1. ~(x < end)
      <4>1. x < end => x \in s + 1 .. end - 1
        BY <1>1, <1>2
      <4> QED
        BY <4>1, <2>2, <1>5
    <3>2. ~(end < x)
      <4>1. end < x => end \in s + 1 .. x - 1
        BY <2>1, <1>1, <1>2
      <4> QED
        BY <4>1, <2>2, <1>4
    <3> QED
      BY <3>1, <3>2, <1>1, <1>2
  <2>3. LineEnd(b) = CHOOSE i \in s + 1 .. Len(d) :
                       d[i] = NEWLINE /\ \A j \in s + 1 .. i - 1 : d[j] # NEWLINE
    BY DEF LineEnd, d, s
  <2> QED
    BY <2>1, <2>2, <2>3, <1>4, <1>5
<1>7. /\ inner \in Seq(Symbol) /\ Len(inner) = end - 1 - s
      /\ \A i \in 1 .. end - 1 - s : inner[i] = d[s + i]
  <2>1. \A i \in s + 1 .. end - 1 : d[i] \in Symbol
    BY <1>1, <1>2 DEF d
  <2>2. s + 1 \in Int /\ end - 1 \in Int /\ s + 1 <= end
    BY <1>1, <1>2, <1>4
  <2> HIDE DEF inner
  <2>3. /\ inner \in Seq(Symbol)
        /\ Len(inner) = IF s + 1 <= end - 1 THEN (end - 1) - (s + 1) + 1 ELSE 0
        /\ \A i \in 1 .. (end - 1) - (s + 1) + 1 : inner[i] = d[(s + 1) + i - 1]
    BY <2>1, <2>2, SubSeqProperties DEF inner
  <2>4. (end - 1) - (s + 1) + 1 = end - 1 - s
    BY <1>1
  <2>5. Len(inner) = end - 1 - s
    BY <2>2, <2>3, <2>4, <1>1
  <2>6. \A i \in 1 .. end - 1 - s : (s + 1) + i - 1 = s + i
    BY <1>1
  <2> QED
    BY <2>3, <2>4, <2>5, <2>6
<1> HIDE DEF inner
<1>8. WithoutContinuation(inner) = line
  <2>1. CASE end = s + k + 1
    <3>1. Len(inner) = k /\ \A i \in 1 .. k : inner[i] = line[i]
      <4>1. end - 1 - s = k
        BY <2>1, <1>1, <1>2
      <4> QED
        BY <4>1, <1>4, <1>7
    <3>2. inner = line
      <4>1. line \in Seq(Symbol)
        BY DEF Symbol, Text
      <4> QED
        BY <3>1, <4>1, <1>7, SeqEqual DEF k
    <3>3. line # <<>> => line[Len(line)] # CONTINUE
      BY <1>2, <1>3 DEF k
    <3> QED
      BY <3>2, <3>3 DEF WithoutContinuation
  <2>2. CASE end = s + k + 2
    <3>1. Len(inner) = k + 1 /\ \A i \in 1 .. k + 1 : inner[i] = d[s + i]
      BY <2>2, <1>1, <1>2, <1>7
    <3>2. inner[k + 1] = CONTINUE
      <4>1. end # s + k + 1 /\ end - 1 = s + (k + 1) /\ k + 1 \in 1 .. k + 1
        BY <2>2, <1>1, <1>2
      <4> QED
        BY <4>1, <3>1, <1>4
    <3>3. SubSeq(inner, 1, k) = line
      <4>1. \A i \in 1 .. k : inner[i] \in Symbol /\ inner[i] = line[i]
        BY <3>1, <1>2, <1>4, <1>7
      <4>2. /\ SubSeq(inner, 1, k) \in Seq(Symbol) /\ Len(SubSeq(inner, 1, k)) = k
            /\ \A i \in 1 .. k : SubSeq(inner, 1, k)[i] = inner[i]
        BY <4>1, <1>2, SubSeqProperties
      <4> HIDE DEF inner
      <4> QED
        BY <4>1, <4>2, SeqEqual DEF k
    <3> QED
      BY <3>1, <3>2, <3>3, <1>2, <1>7 DEF WithoutContinuation
  <2> QED
    BY <2>1, <2>2, <1>4
<1> QED
  BY <1>1, <1>6, <1>8 DEF Lex, d, s, inner

\* A line of words lexes.
LEMMA LexOfLine ==
  ASSUME NEW b \in Buffer, NEW line \in Seq(Word) \ {<<>>}, NEW end \in Nat,
         end <= Len(b.data), LineAt(b.data, line, b.bol, end)
  PROVE  Lex(b) = [err |-> "0", text |-> line, buffer |-> [data |-> b.data, bol |-> end]]
<1>1. line \in Seq(Text)
  BY DEF Text
<1>2. \A i \in 1 .. Len(line) : line[i] \in Word
  OBVIOUS
<1>3. Lex(b).text = line /\ Lex(b).buffer = [data |-> b.data, bol |-> end] /\ Lex(b).err = "0"
  BY <1>1, <1>2, LexOfAnyLine
<1>4. Lex(b) = [err |-> Lex(b).err, text |-> Lex(b).text, buffer |-> Lex(b).buffer]
  BY DEF Lex
<1> QED
  BY <1>3, <1>4

-----------------------------------------------------------------------------
(* The lines of what is laid out.                                          *)

\* The newlines are the ends of the lines.
LEMMA LayoutNewlines ==
  ASSUME NEW d \in Seq(Symbol), NEW ls \in Seq(Seq(Text)),
         NEW at \in [1 .. Len(ls) + 1 -> 0 .. Len(d)], Layout(d, ls, at),
         NEW p \in 1 .. Len(d)
  PROVE  d[p] = NEWLINE <=> \E m \in 1 .. Len(ls) : p = at[m + 1]
<1> DEFINE n == Len(ls)
<1>1. /\ n \in Nat /\ p \in Nat /\ p > 0 /\ p <= Len(d) /\ Len(d) \in Nat
      /\ \A i \in 1 .. n + 1 : at[i] \in Nat
  OBVIOUS
<1>2. /\ at[1] = 0 /\ at[n + 1] = Len(d)
      /\ \A i, j \in 1 .. n + 1 : i < j => at[i] < at[j]
      /\ \A i \in 1 .. n : LineAt(d, ls[i], at[i], at[i + 1])
  BY DEF Layout
<1>3. \A i \in 1 .. n : ls[i] \in Seq(Text)
  OBVIOUS
<1> HIDE DEF n
<1>4. CASE \E m \in 1 .. n : p = at[m + 1]
  BY <1>2, <1>4 DEF LineAt, n
<1>5. ASSUME d[p] = NEWLINE PROVE \E m \in 1 .. n : p = at[m + 1]
  <2> DEFINE T == {i \in 1 .. n + 1 : p <= at[i]}
  <2>1. T \in SUBSET Nat /\ n + 1 \in T
    BY <1>1, <1>2
  <2>2. PICK x \in T : \A y \in T : x <= y
    <3> HIDE DEF T
    <3> QED
      BY <2>1, LeastElement
  <2>3. x \in 1 .. n + 1 /\ p <= at[x] /\ x # 1
    BY <2>2, <1>1, <1>2
  <2> DEFINE m == x - 1
  <2>4. m \in 1 .. n /\ m + 1 = x /\ m \in 1 .. n + 1
    BY <2>3, <1>1
  <2>5. at[m] < p
    <3>1. m \notin T
      BY <2>2, <2>3, <1>1
    <3>2. ~(p <= at[m])
      BY <3>1, <2>4
    <3> QED
      BY <3>2, <2>4, <1>1
  <2> DEFINE s == at[m]
             e == at[m + 1]
             k == Len(ls[m])
  <2>6. s \in Nat /\ e \in Nat /\ k \in Nat /\ s < p /\ p <= e
    BY <2>3, <2>4, <2>5, <1>1, <1>3
  <2>7. /\ \/ e = s + k + 1
           \/ e = s + k + 2 /\ d[e - 1] = CONTINUE
        /\ \A j \in 1 .. k : d[s + j] = ls[m][j]
    BY <2>4, <1>2 DEF LineAt
  <2>8. \A j \in 1 .. k : ls[m][j] # NEWLINE
    <3>1. NEWLINE \notin Text
      BY AlphabetAssumption DEF Text
    <3>2. \A j \in 1 .. k : ls[m][j] \in Text
      BY <2>4, <1>3
    <3> QED
      BY <3>1, <3>2
  <2>9. CONTINUE # NEWLINE
    BY DEF CONTINUE, NEWLINE
  <2> HIDE DEF s, e, k, m
  <2>10. ~(p <= s + k)
    <3> SUFFICES ASSUME p <= s + k PROVE FALSE
      OBVIOUS
    <3>1. p - s \in 1 .. k /\ s + (p - s) = p
      BY <2>6, <1>1
    <3> QED
      BY <3>1, <2>7, <2>8, <1>5
  <2>11. p = e
    <3> SUFFICES ASSUME p # e PROVE FALSE
      OBVIOUS
    <3>1. e # s + k + 1 /\ p = e - 1
      BY <2>6, <2>7, <2>10, <1>1
    <3> QED
      BY <3>1, <2>7, <2>9, <1>5
  <2> QED
    BY <2>4, <2>11 DEF e
<1> QED
  BY <1>4, <1>5 DEF n

\* Where lines end: in their order, inside of what is laid out.
LEMMA LayoutOrder ==
  ASSUME NEW d \in Seq(Symbol), NEW ls \in Seq(Seq(Text)),
         NEW at \in [1 .. Len(ls) + 1 -> 0 .. Len(d)], Layout(d, ls, at)
  PROVE  /\ \A i \in 0 .. Len(ls) : at[i + 1] \in Nat /\ at[i + 1] <= Len(d)
         /\ \A i, j \in 0 .. Len(ls) : i < j => at[i + 1] < at[j + 1]
<1> DEFINE n == Len(ls)
<1>1. n \in Nat
  OBVIOUS
<1>2. \A x, y \in 1 .. n + 1 : x < y => at[x] < at[y]
  BY DEF Layout
<1>3. \A x \in 1 .. n + 1 : at[x] \in Nat /\ at[x] <= Len(d)
  OBVIOUS
<1> HIDE DEF n
<1>4. ASSUME NEW i \in 0 .. n PROVE at[i + 1] \in Nat /\ at[i + 1] <= Len(d)
  <2>1. i + 1 \in 1 .. n + 1
    BY <1>1
  <2> QED
    BY <2>1, <1>3
<1>5. ASSUME NEW i \in 0 .. n, NEW j \in 0 .. n, i < j PROVE at[i + 1] < at[j + 1]
  <2>1. i + 1 \in 1 .. n + 1 /\ j + 1 \in 1 .. n + 1 /\ i + 1 < j + 1
    BY <1>1, <1>5
  <2> QED
    BY <2>1, <1>2
<1> QED
  BY <1>4, <1>5 DEF n

\* There are i newlines up to the end of the i-th line.
LEMMA LayoutCount ==
  ASSUME NEW d \in Seq(Symbol), NEW ls \in Seq(Seq(Text)),
         NEW at \in [1 .. Len(ls) + 1 -> 0 .. Len(d)], Layout(d, ls, at),
         NEW i \in 0 .. Len(ls)
  PROVE  Cardinality(NewlinesUpTo(d, at[i + 1])) = i
<1> DEFINE n == Len(ls)
           T == NewlinesUpTo(d, at[i + 1])
           g == [m \in 1 .. i |-> at[m + 1]]
<1>1. n \in Nat /\ i \in Nat /\ i <= n /\ Len(d) \in Nat
  OBVIOUS
<1>2. /\ \A m \in 0 .. n : at[m + 1] \in Nat /\ at[m + 1] <= Len(d)
      /\ \A m, j \in 0 .. n : m < j => at[m + 1] < at[j + 1]
  BY LayoutOrder
<1>3. ASSUME NEW m \in 1 .. i PROVE 0 < at[m + 1] /\ at[m + 1] <= at[i + 1]
  <2>1. m \in 0 .. n /\ i \in 0 .. n /\ 0 \in 0 .. n /\ 0 < m
    BY <1>1
  <2>2. at[0 + 1] < at[m + 1] /\ at[0 + 1] \in Nat /\ at[m + 1] \in Nat
    BY <2>1, <1>2
  <2>3. m # i => at[m + 1] < at[i + 1] /\ at[i + 1] \in Nat
    BY <2>1, <1>1, <1>2
  <2> DEFINE x == at[m + 1]
             y == at[i + 1]
             z == at[0 + 1]
  <2> HIDE DEF x, y, z
  <2>4. z < x /\ z \in Nat /\ x \in Nat
    BY <2>2 DEF x, z
  <2>5. m # i => x < y /\ y \in Nat
    BY <2>3 DEF x, y
  <2>6. m = i => x = y
    BY DEF x, y
  <2>7. 0 < x /\ x <= y
    BY <2>4, <2>5, <2>6
  <2> QED
    BY <2>7 DEF x, y
<1>4. ASSUME NEW m \in 1 .. i PROVE at[m + 1] \in T
  <2>1. m \in 1 .. n /\ m \in 0 .. n /\ i \in 0 .. n
    BY <1>1
  <2>2. /\ 0 < at[m + 1] /\ at[m + 1] <= at[i + 1]
        /\ at[m + 1] \in Nat /\ at[m + 1] <= Len(d) /\ at[i + 1] \in Nat
    BY <2>1, <1>2, <1>3
  <2>3. at[m + 1] \in 1 .. Len(d) /\ at[m + 1] \in 1 .. at[i + 1]
    <3> DEFINE x == at[m + 1]
               y == at[i + 1]
    <3>1. x \in Nat /\ y \in Nat /\ 0 < x /\ x <= y /\ x <= Len(d)
      BY <2>2
    <3> HIDE DEF x, y
    <3>2. x \in 1 .. Len(d) /\ x \in 1 .. y
      BY <3>1, <1>1
    <3> QED
      BY <3>2 DEF x, y
  <2>4. d[at[m + 1]] = NEWLINE
    BY <2>1, <2>3, LayoutNewlines
  <2> QED
    BY <2>3, <2>4 DEF NewlinesUpTo
<1>5. ASSUME NEW p \in T PROVE \E m \in 1 .. i : at[m + 1] = p
  <2>1. i \in 0 .. n /\ at[i + 1] \in Nat /\ at[i + 1] <= Len(d)
    BY <1>1, <1>2
  <2>2. p \in 1 .. at[i + 1] /\ d[p] = NEWLINE
    BY DEF NewlinesUpTo
  <2>3. p \in 1 .. Len(d)
    <3> DEFINE y == at[i + 1]
    <3>1. y \in Nat /\ y <= Len(d) /\ p \in 1 .. y
      BY <2>1, <2>2
    <3> HIDE DEF y
    <3> QED
      BY <3>1, <1>1
  <2>4. PICK m \in 1 .. n : p = at[m + 1]
    BY <2>2, <2>3, LayoutNewlines
  <2>5. m \in 0 .. n /\ m \in Nat
    BY <1>1
  <2>6. ~(i < m)
    <3> SUFFICES ASSUME i < m PROVE FALSE
      OBVIOUS
    <3>1. at[i + 1] < at[m + 1]
      BY <2>1, <2>5, <1>2
    <3> DEFINE y == at[i + 1]
    <3>2. y < p /\ p \in 1 .. y /\ y \in Nat
      BY <3>1, <2>1, <2>2, <2>4
    <3> HIDE DEF y
    <3> QED
      BY <3>2
  <2>7. m \in 1 .. i
    BY <2>6, <1>1
  <2> QED
    BY <2>4, <2>7
<1>6. \A m, j \in 1 .. i : at[m + 1] = at[j + 1] => m = j
  <2> SUFFICES ASSUME NEW m \in 1 .. i, NEW j \in 1 .. i, m # j PROVE at[m + 1] # at[j + 1]
    OBVIOUS
  <2>1. m \in 0 .. n /\ j \in 0 .. n /\ (m < j \/ j < m)
    BY <1>1
  <2>2. at[m + 1] < at[j + 1] \/ at[j + 1] < at[m + 1]
    BY <2>1, <1>2
  <2>3. at[m + 1] \in Nat /\ at[j + 1] \in Nat
    BY <2>1, <1>2
  <2> QED
    BY <2>2, <2>3
<1> HIDE DEF T
<1>7. g \in Bijection(1 .. i, T)
  <2>1. g \in [1 .. i -> T]
    BY <1>4
  <2>2. \A m, j \in 1 .. i : g[m] = g[j] => m = j
    BY <1>6
  <2>3. \A p \in T : \E m \in 1 .. i : g[m] = p
    BY <1>5
  <2> HIDE DEF g
  <2> QED
    BY <2>1, <2>2, <2>3 DEF Bijection, Injection, Surjection, IsInjective
<1> QED
  BY <1>1, <1>7, FS_CountingElements DEF ExistsBijection, T

\* Taken apart, it gives the lines.
LEMMA LinesOfLayout ==
  ASSUME NEW d \in Seq(Symbol), NEW ls \in Seq(Seq(Text)), LaidOut(d, ls)
  PROVE  LinesOf(d) = ls
<1> DEFINE n == Len(ls)
<1>1. PICK at \in [1 .. n + 1 -> 0 .. Len(d)] : Layout(d, ls, at)
  BY DEF LaidOut
<1>2. n \in Nat /\ Len(d) \in Nat /\ at[n + 1] = Len(d) /\ at[1] = 0
  BY <1>1 DEF Layout
<1>3. \A i \in 0 .. n : Cardinality(NewlinesUpTo(d, at[i + 1])) = i
  BY <1>1, LayoutCount
<1>4. Cardinality(NewlinesUpTo(d, Len(d))) = n
  BY <1>2, <1>3
<1>5. ASSUME NEW i \in 0 .. n PROVE LineBreak(d, i) = at[i + 1]
  <2>1. CASE i = 0
    BY <2>1, <1>2 DEF LineBreak
  <2>2. CASE i # 0
    <3> DEFINE All  == NewlinesUpTo(d, Len(d))
               P(p) == Cardinality(NewlinesUpTo(d, p)) = i
    <3>1. i \in 1 .. n /\ i + 1 \in 1 .. n + 1 /\ 1 \in 1 .. n + 1
      BY <2>2, <1>2
    <3>2. at[i + 1] \in 1 .. Len(d)
      <4>1. 0 \in 0 .. n /\ 0 < i
        BY <2>2, <1>2
      <4>2. at[0 + 1] < at[i + 1] /\ at[i + 1] <= Len(d) /\ at[i + 1] \in Nat /\ at[0 + 1] \in Nat
        BY <4>1, <1>1, LayoutOrder
      <4> DEFINE x == at[i + 1]
                 z == at[0 + 1]
      <4> HIDE DEF x, z
      <4>3. z < x /\ x <= Len(d) /\ x \in Nat /\ z \in Nat
        BY <4>2 DEF x, z
      <4>4. x \in 1 .. Len(d)
        BY <4>3, <1>2
      <4> QED
        BY <4>4 DEF x
    <3>3. at[i + 1] \in All /\ P(at[i + 1])
      BY <3>1, <3>2, <1>1, <1>3, LayoutNewlines DEF NewlinesUpTo
    <3>4. ASSUME NEW p \in All, P(p) PROVE p = at[i + 1]
      <4>1. PICK m \in 1 .. n : p = at[m + 1]
        BY <1>1, LayoutNewlines DEF NewlinesUpTo
      <4>2. m \in 0 .. n
        BY <1>2
      <4>3. m = i
        BY <4>1, <4>2, <3>4, <1>3
      <4> QED
        BY <4>1, <4>3
    <3>5. LineBreak(d, i) = CHOOSE p \in All : P(p)
      BY <2>2 DEF LineBreak
    <3> HIDE DEF All, P
    <3> QED
      BY <3>3, <3>4, <3>5
  <2> QED
    BY <2>1, <2>2
<1>6. ASSUME NEW i \in 1 .. n
      PROVE  WithoutContinuation(SubSeq(d, LineBreak(d, i - 1) + 1, LineBreak(d, i) - 1)) = ls[i]
  <2> DEFINE s == at[i]
             e == at[i + 1]
             b == [data |-> d, bol |-> s]
  <2>1. i - 1 \in 0 .. n /\ i \in 0 .. n /\ (i - 1) + 1 = i /\ i \in 1 .. n + 1 /\ i + 1 \in 1 .. n + 1
    BY <1>2
  <2>2. LineBreak(d, i - 1) = s /\ LineBreak(d, i) = e
    BY <2>1, <1>5
  <2>3. LineAt(d, ls[i], s, e) /\ ls[i] \in Seq(Text)
    BY <1>1 DEF Layout
  <2>4. s \in Nat /\ e \in Nat /\ e <= Len(d)
    <3>1. at[i] \in 0 .. Len(d) /\ at[i + 1] \in 0 .. Len(d)
      BY <2>1
    <3> HIDE DEF s, e
    <3>2. s \in 0 .. Len(d) /\ e \in 0 .. Len(d)
      BY <3>1 DEF s, e
    <3> QED
      BY <3>2, <1>2
  <2> HIDE DEF s, e
  <2>5. b \in Buffer /\ b.data = d /\ b.bol = s
    BY <2>4 DEF Buffer
  <2> HIDE DEF b
  <2>6. Lex(b).text = ls[i] /\ Lex(b).buffer = [data |-> d, bol |-> e]
    BY <2>3, <2>4, <2>5, LexOfAnyLine
  <2>7. /\ Lex(b).text = WithoutContinuation(SubSeq(d, s + 1, LineEnd(b) - 1))
        /\ Lex(b).buffer = [data |-> d, bol |-> LineEnd(b)]
    <3>1. b = [data |-> d, bol |-> s]
      BY DEF b
    <3>2. [b EXCEPT !.bol = LineEnd(b)] = [data |-> d, bol |-> LineEnd(b)]
      BY <3>1
    <3> QED
      BY <3>2, <2>5 DEF Lex
  <2>8. LineEnd(b) = e
    BY <2>6, <2>7
  <2> QED
    BY <2>2, <2>6, <2>7, <2>8
<1> HIDE DEF n
<1>7. ls = [i \in 1 .. n |-> ls[i]]
  BY DEF n
<1>8. LinesOf(d) =
        [i \in 1 .. n |->
           WithoutContinuation(SubSeq(d, LineBreak(d, i - 1) + 1, LineBreak(d, i) - 1))]
  BY <1>4 DEF LinesOf
<1> QED
  BY <1>6, <1>7, <1>8

-----------------------------------------------------------------------------
(* Counting lines.                                                         *)

\* The newlines of a sequence can be counted.
LEMMA NewlinesFinite ==
  ASSUME NEW d, NEW n \in Nat
  PROVE  IsFiniteSet(NewlinesUpTo(d, n)) /\ Cardinality(NewlinesUpTo(d, n)) \in Nat
<1>1. IsFiniteSet(1 .. n)
  BY FS_Interval
<1>2. NewlinesUpTo(d, n) \in SUBSET (1 .. n)
  BY DEF NewlinesUpTo
<1>3. IsFiniteSet(NewlinesUpTo(d, n))
  BY <1>1, <1>2, FS_Subset
<1> QED
  BY <1>3, FS_CardinalityType

\* A longer sequence, or more of one, with one newline in what is added.
LEMMA OneMoreNewline ==
  ASSUME NEW d, NEW e, NEW m \in Nat, NEW n \in Nat, NEW x \in m + 1 .. n,
         \A i \in 1 .. m : e[i] = d[i],
         e[x] = NEWLINE,
         \A i \in m + 1 .. n : i # x => e[i] # NEWLINE
  PROVE  Cardinality(NewlinesUpTo(e, n)) = Cardinality(NewlinesUpTo(d, m)) + 1
<1>1. NewlinesUpTo(e, n) = NewlinesUpTo(d, m) \cup {x}
  <2>1. ASSUME NEW i \in NewlinesUpTo(e, n) PROVE i \in NewlinesUpTo(d, m) \cup {x}
    <3>1. i \in 1 .. n /\ e[i] = NEWLINE
      BY DEF NewlinesUpTo
    <3>2. i \in 1 .. m \/ i \in m + 1 .. n
      BY <3>1
    <3> QED
      BY <3>1, <3>2 DEF NewlinesUpTo
  <2>2. ASSUME NEW i \in NewlinesUpTo(d, m) \cup {x} PROVE i \in NewlinesUpTo(e, n)
    <3>1. CASE i = x
      <4>1. x \in 1 .. n
        OBVIOUS
      <4> QED
        BY <3>1, <4>1 DEF NewlinesUpTo
    <3>2. CASE i \in NewlinesUpTo(d, m)
      <4>1. i \in 1 .. m /\ d[i] = NEWLINE
        BY <3>2 DEF NewlinesUpTo
      <4>2. i \in 1 .. n
        BY <4>1
      <4> QED
        BY <4>1, <4>2 DEF NewlinesUpTo
    <3> QED
      BY <3>1, <3>2
  <2> QED
    BY <2>1, <2>2
<1>2. x \notin NewlinesUpTo(d, m)
  BY DEF NewlinesUpTo
<1>3. IsFiniteSet(NewlinesUpTo(d, m))
  BY NewlinesFinite
<1> QED
  BY <1>1, <1>2, <1>3, FS_AddElement

\* The first line that is composed adds no newline, every other adds one.
LEMMA NewlinesOfAppendLine ==
  ASSUME NEW b \in Buffer, NEW words \in Seq(Word)
  PROVE  LET d == b.data
             e == AppendLine(b, words).data
         IN  Cardinality(NewlinesUpTo(e, Len(e))) =
               IF d = <<>> THEN 0 ELSE Cardinality(NewlinesUpTo(d, Len(d))) + 1
<1> DEFINE d == b.data
           e == AppendLine(b, words).data
           m == Len(d)
           k == Len(words)
<1>1. m \in Nat /\ k \in Nat /\ words \in Seq(Word)
  BY DEF Buffer
<1>2. NEWLINE \notin Word /\ CONTINUE # NEWLINE
  BY AlphabetAssumption DEF NEWLINE, CONTINUE
<1>3. CASE d = <<>>
  <2>1. e = words
    <3>1. e = <<>> \o words
      BY <1>3 DEF AppendLine, AppendWords, BeginLine
    <3> QED
      BY <3>1, ConcatEmptySeq
  <2>2. NewlinesUpTo(words, k) = {}
    BY <1>1, <1>2 DEF NewlinesUpTo
  <2> QED
    BY <2>1, <2>2, <1>3, FS_EmptySet
<1>4. CASE d # <<>>
  <2>1. /\ Len(e) = m + 2 + k
        /\ \A i \in 1 .. m : e[i] = d[i]
        /\ e[m + 1] = CONTINUE
        /\ e[m + 2] = NEWLINE
        /\ \A j \in 1 .. k : e[m + 2 + j] = words[j]
    BY <1>4, AppendLineSymbols
  <2> HIDE DEF d, e, m, k
  <2>2. Len(e) \in Nat /\ m + 2 \in m + 1 .. Len(e)
    BY <1>1, <2>1
  <2>3. ASSUME NEW i \in m + 1 .. Len(e), i # m + 2 PROVE e[i] # NEWLINE
    <3>1. CASE i = m + 1
      BY <3>1, <2>1, <1>2
    <3>2. CASE i > m + 2
      <4>1. i - (m + 2) \in 1 .. k /\ m + 2 + (i - (m + 2)) = i
        BY <3>2, <1>1, <2>1
      <4>2. e[i] = words[i - (m + 2)] /\ words[i - (m + 2)] \in Word
        BY <4>1, <2>1, <1>1 DEF k
      <4> QED
        BY <4>2, <1>2
    <3> QED
      BY <3>1, <3>2, <2>3, <1>1
  <2>4. Cardinality(NewlinesUpTo(e, Len(e))) = Cardinality(NewlinesUpTo(d, m)) + 1
    BY <2>1, <2>2, <2>3, <1>1, OneMoreNewline, SMTT(40)
  <2> QED
    BY <2>4, <1>4 DEF d, e, m
<1> QED
  BY <1>3, <1>4

\* A finalized block has one line more than it has newlines inside.
LEMMA LinesOfFinalized ==
  ASSUME NEW d \in Seq(Symbol)
  PROVE  Len(LinesOf(Append(d, NEWLINE))) = Cardinality(NewlinesUpTo(d, Len(d))) + 1
<1> DEFINE e == Append(d, NEWLINE)
           m == Len(d)
           c == Cardinality(NewlinesUpTo(e, Len(e)))
<1>1. /\ m \in Nat /\ Len(e) = m + 1 /\ e[m + 1] = NEWLINE
      /\ \A i \in 1 .. m : e[i] = d[i]
  BY DEF Symbol
<1> HIDE DEF e
<1>2. m + 1 \in m + 1 .. m + 1 /\ \A i \in m + 1 .. m + 1 : i = m + 1
  BY <1>1
<1> HIDE DEF m
<1>3. c = Cardinality(NewlinesUpTo(d, m)) + 1
  BY <1>1, <1>2, OneMoreNewline
<1>4. Cardinality(NewlinesUpTo(d, m)) \in Nat
  BY <1>1, NewlinesFinite
<1> HIDE DEF c
<1>5. c \in Nat
  BY <1>3, <1>4
<1>6. LinesOf(e) = [i \in 1 .. c |->
        WithoutContinuation(SubSeq(e, LineBreak(e, i - 1) + 1, LineBreak(e, i) - 1))]
  BY DEF LinesOf, c
<1>7. Len(LinesOf(e)) = c
  <2> HIDE DEF e
  <2> QED
    BY <1>5, <1>6
<1> QED
  BY <1>3, <1>7 DEF e, m

\* Lex goes past one newline.
LEMMA NewlinesOfLex ==
  ASSUME NEW b \in Buffer, b.bol < Len(b.data), b.data[Len(b.data)] = NEWLINE
  PROVE  Cardinality(NewlinesUpTo(b.data, Lex(b).buffer.bol)) =
           Cardinality(NewlinesUpTo(b.data, b.bol)) + 1
<1> DEFINE d == b.data
           s == b.bol
           e == LineEnd(b)
           T == {i \in s + 1 .. Len(d) : d[i] = NEWLINE}
<1>1. s \in Nat /\ Len(d) \in Nat /\ Lex(b).buffer.bol = e /\ e \in s + 1 .. Len(d)
  <2>1. s \in Nat /\ Len(d) \in Nat
    BY DEF Buffer
  <2>2. e \in s + 1 .. Len(d) /\ Lex(b).buffer = [data |-> d, bol |-> e]
    BY LexOfBuffer
  <2>3. Lex(b).buffer.bol = e
    BY <2>2
  <2> QED
    BY <2>1, <2>2, <2>3
<1>2. d[e] = NEWLINE /\ \A j \in s + 1 .. e - 1 : d[j] # NEWLINE
  <2>1. T \in SUBSET Nat /\ Len(d) \in T
    BY <1>1
  <2>2. PICK x \in T : \A y \in T : x <= y
    <3> HIDE DEF T
    <3> QED
      BY <2>1, LeastElement
  <2>3. \A j \in s + 1 .. x - 1 : d[j] # NEWLINE
    <3> TAKE j \in s + 1 .. x - 1
    <3>1. j \in s + 1 .. Len(d) /\ ~(x <= j)
      BY <1>1
    <3> QED
      BY <3>1, <2>2
  <2>4. x \in s + 1 .. Len(d) /\ d[x] = NEWLINE
    OBVIOUS
  <2>5. e = CHOOSE i \in s + 1 .. Len(d) :
              d[i] = NEWLINE /\ \A j \in s + 1 .. i - 1 : d[j] # NEWLINE
    BY DEF LineEnd
  <2> HIDE DEF d, s, e, T
  <2> QED
    BY <2>3, <2>4, <2>5
<1> HIDE DEF d, s, e, T
<1>3. e \in Nat /\ e \in s + 1 .. e
  BY <1>1
<1>4. ASSUME NEW i \in s + 1 .. e, i # e PROVE d[i] # NEWLINE
  <2>1. i \in s + 1 .. e - 1
    BY <1>1, <1>4
  <2> QED
    BY <2>1, <1>2
<1>5. Cardinality(NewlinesUpTo(d, e)) = Cardinality(NewlinesUpTo(d, s)) + 1
  BY <1>1, <1>2, <1>3, <1>4, OneMoreNewline
<1> QED
  BY <1>1, <1>5 DEF d, s

\* Two consecutive pieces from the start of a sequence, and the rest of it.
LEMMA PiecesJoin ==
  ASSUME NEW S, NEW s \in Seq(S), NEW t \in Seq(S), NEW d \in Seq(S),
         Len(s) + Len(t) <= Len(d),
         \A i \in 1 .. Len(s) : s[i] = d[i],
         \A j \in 1 .. Len(t) : t[j] = d[Len(s) + j]
  PROVE  d = s \o t \o SubSeq(d, Len(s) + Len(t) + 1, Len(d))
<1> DEFINE m    == Len(s) + Len(t)
           rest == SubSeq(d, m + 1, Len(d))
           all  == (s \o t) \o rest
<1>1. m \in Nat /\ Len(d) \in Nat /\ Len(s) \in Nat /\ Len(t) \in Nat /\ m <= Len(d)
  OBVIOUS
<1>2. /\ rest \in Seq(S) /\ Len(rest) = Len(d) - m
      /\ \A i \in 1 .. Len(d) - m : rest[i] = d[m + i]
  <2>1. \A i \in m + 1 .. Len(d) : d[i] \in S
    BY <1>1
  <2> HIDE DEF m
  <2> QED
    BY <1>1, <2>1, SubSeqProperties
<1>3. /\ s \o t \in Seq(S) /\ Len(s \o t) = m
      /\ \A i \in 1 .. m : (s \o t)[i] = d[i]
  <2>1. ASSUME NEW i \in 1 .. m PROVE (s \o t)[i] = d[i]
    <3>1. CASE i <= Len(s)
      BY <1>1, <3>1
    <3>2. CASE i > Len(s)
      <4>1. i - Len(s) \in 1 .. Len(t) /\ (s \o t)[i] = t[i - Len(s)]
        BY <1>1, <3>2
      <4> QED
        BY <1>1, <4>1
    <3> QED
      BY <1>1, <3>1, <3>2
  <2> QED
    BY <2>1
<1> HIDE DEF m, rest
<1>4. /\ all \in Seq(S) /\ Len(all) = Len(d)
      /\ \A i \in 1 .. Len(d) : all[i] = IF i <= m THEN (s \o t)[i] ELSE rest[i - m]
  <2>1. m + Len(rest) = Len(d)
    BY <1>1, <1>2
  <2> QED
    BY <1>1, <1>2, <1>3, <2>1, ConcatProperties
<1> HIDE DEF all
<1>5. ASSUME NEW i \in 1 .. Len(all) PROVE all[i] = d[i]
  <2>1. CASE i <= m
    BY <1>1, <1>3, <1>4, <2>1
  <2>2. CASE i > m
    <3>1. i - m \in 1 .. Len(d) - m /\ m + (i - m) = i
      BY <1>1, <1>4, <2>2
    <3> QED
      BY <1>1, <1>2, <1>4, <2>2, <3>1
  <2> QED
    BY <1>1, <1>4, <2>1, <2>2
<1>6. all = d
  BY <1>4, <1>5, SeqEqual
<1> QED
  BY <1>6 DEF all, rest, m

=============================================================================
