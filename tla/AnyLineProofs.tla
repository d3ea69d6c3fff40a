--------------------------- MODULE AnyLineProofs ---------------------------
(***************************************************************************)
(* Proofs about the quoting codec and the names of CMIs, for lines of any  *)
(* length, words of any length and every choice of octets.                 *)
(*                                                                         *)
(* The codec is made of loops, so the proofs go by induction over the      *)
(* octets of a line, of a word, and the words of a line.  Induction is     *)
(* here in the form of the least number of a set: were there a number a    *)
(* claim is false for there would be a least one.                          *)
(***************************************************************************)
EXTENDS AnyLine, SequenceTheorems, WellFoundedInduction, TLAPS

-----------------------------------------------------------------------------
(* Induction.                                                              *)

LEMMA LeastNumber ==
  ASSUME NEW T, T \subseteq Nat, T # {}
  PROVE  \E x \in T : \A y \in T : x <= y
<1> DEFINE Less == {ss \in Nat \X Nat : ss[1] < ss[2]}
<1>1. OpToRel(<, Nat) = Less
  BY Zenon DEF OpToRel
<1>2. IsWellFoundedOn(Less, Nat)
  BY <1>1, NatLessThanWellFounded, Zenon
<1> HIDE DEF Less
<1>3. PICK x \in T : \A y \in T : <<y, x>> \notin Less
  BY <1>2, WFMin, Zenon
<1>4. \A y \in T : ~(y < x)
  BY <1>3 DEF Less
<1> QED
  BY <1>4

\* A set that has 0 and, with each number below n, the next one.
LEMMA UpTo ==
  ASSUME NEW n \in Nat, NEW T,
         0 \in T, \A i \in 0 .. n - 1 : i \in T => i + 1 \in T
  PROVE  0 .. n \subseteq T
<1> DEFINE U == {i \in 0 .. n : i \notin T}
<1>1. CASE U = {}
  BY <1>1
<1>2. CASE U # {}
  <2>1. PICK i \in U : \A j \in U : i <= j
    <3>1. U \subseteq Nat
      OBVIOUS
    <3> HIDE DEF U
    <3> QED
      BY <3>1, <1>2, LeastNumber
  <2>2. i \in 0 .. n /\ i \notin T /\ i # 0
    BY <2>1
  <2>3. i - 1 \in 0 .. n - 1 /\ i - 1 \notin U
    BY <2>1, <2>2
  <2>4. (i - 1) + 1 \in T
    BY <2>2, <2>3
  <2> QED
    BY <2>2, <2>4
<1> QED
  BY <1>1, <1>2

\* A loop that is run n times goes through these states.
Loop(n, X) == [1 .. n -> [X -> X]]

Runs(n, X, base, step, f) ==
  /\ f \in [0 .. n -> X]
  /\ f[0] = base
  /\ \A i \in 1 .. n : f[i] = step[i][f[i - 1]]

LEMMA Iteration ==
  ASSUME NEW n \in Nat, NEW X, NEW base \in X, NEW step \in Loop(n, X)
  PROVE  \E f : Runs(n, X, base, step, f)
<1> USE DEF Loop
<1> DEFINE Run(k, f) == f[0] = base /\ \A i \in 1 .. k : f[i] = step[i][f[i - 1]]
           T == {k \in 0 .. n : \E f \in [0 .. k -> X] : Run(k, f)}
<1>1. 0 \in T
  <2> DEFINE f == [i \in 0 .. 0 |-> base]
  <2>1. f \in [0 .. 0 -> X] /\ Run(0, f)
    OBVIOUS
  <2> HIDE DEF f, Run
  <2> QED
    BY <2>1
<1>2. \A k \in 0 .. n - 1 : k \in T => k + 1 \in T
  <2> SUFFICES ASSUME NEW k \in 0 .. n - 1, k \in T PROVE k + 1 \in T
    OBVIOUS
  <2>1. PICK f \in [0 .. k -> X] : Run(k, f)
    OBVIOUS
  <2> DEFINE g == [i \in 0 .. k + 1 |-> IF i = k + 1 THEN step[k + 1][f[k]] ELSE f[i]]
  <2>2. g \in [0 .. k + 1 -> X]
    <3>1. step[k + 1] \in [X -> X] /\ f[k] \in X
      OBVIOUS
    <3>2. step[k + 1][f[k]] \in X
      BY <3>1
    <3> QED
      BY <3>2
  <2>3. Run(k + 1, g)
    <3>1. g[0] = base
      BY <2>1
    <3>2. ASSUME NEW i \in 1 .. k + 1 PROVE g[i] = step[i][g[i - 1]]
      <4>1. CASE i = k + 1
        BY <4>1
      <4>2. CASE i # k + 1
        BY <4>2, <2>1
      <4> QED
        BY <4>1, <4>2
    <3> QED
      BY <3>1, <3>2
  <2> HIDE DEF g, Run
  <2>4. k + 1 \in 0 .. n
    OBVIOUS
  <2> QED
    BY <2>2, <2>3, <2>4
<1>3. n \in T
  <2> HIDE DEF T
  <2>1. 0 .. n \subseteq T
    BY <1>1, <1>2, UpTo
  <2> QED
    BY <2>1
<1>4. PICK f \in [0 .. n -> X] : Run(n, f)
  BY <1>3
<1> QED
  BY <1>4 DEF Runs

-----------------------------------------------------------------------------
(* One octet of a line.                                                    *)

Octets == Seq(Octet)
Words == Seq(Octets)

LexMode ==
  {"between", "word", "quoted", "escape", "digits", "continue", "skipping", "lexed", "malformed"}

LexState == [mode : LexMode, words : Words, digit : 0 .. 15, used : Nat]

\* The words with c behind the last of them.
Extend(words, c) == [words EXCEPT ![Len(words)] = Append(@, c)]

LEMMA ExtendWords ==
  ASSUME NEW words \in Words, NEW c \in Octet
  PROVE  /\ Extend(words, c) \in Words
         /\ Len(Extend(words, c)) = Len(words)
<1>1. CASE words = <<>>
  <2>1. Extend(words, c) = words
    BY <1>1 DEF Extend
  <2> QED
    BY <2>1
<1>2. CASE words # <<>>
  <2>1. Len(words) \in 1 .. Len(words) /\ words[Len(words)] \in Octets
    BY <1>2 DEF Words
  <2>2. Append(words[Len(words)], c) \in Octets
    BY <2>1 DEF Octets
  <2> QED
    BY <2>1, <2>2 DEF Words, Extend
<1> QED
  BY <1>1, <1>2

LEMMA ExtendAppended ==
  ASSUME NEW words \in Words, NEW word \in Octets, NEW c \in Octet
  PROVE  Extend(Append(words, word), c) = Append(words, Append(word, c))
<1> DEFINE begun == Append(words, word)
           l == Extend(begun, c)
           r == Append(words, Append(word, c))
<1>1. /\ begun \in Words /\ Len(begun) = Len(words) + 1
      /\ begun[Len(words) + 1] = word
      /\ \A i \in 1 .. Len(words) : begun[i] = words[i]
  BY DEF Words
<1>2. Append(word, c) \in Octets
  BY DEF Octets
<1>3. /\ r \in Words /\ Len(r) = Len(words) + 1
      /\ r[Len(words) + 1] = Append(word, c)
      /\ \A i \in 1 .. Len(words) : r[i] = words[i]
  BY <1>2 DEF Words
<1> HIDE DEF begun, r
<1>4. l \in Words /\ Len(l) = Len(words) + 1
  BY <1>1, ExtendWords
<1>5. \A i \in 1 .. Len(words) + 1 :
        l[i] = IF i = Len(words) + 1 THEN Append(word, c) ELSE words[i]
  BY <1>1 DEF Extend, Words
<1> HIDE DEF l
<1>6. \A i \in 1 .. Len(l) : l[i] = r[i]
  BY <1>3, <1>4, <1>5
<1>7. Len(l) = Len(r) /\ l \in Seq(Octets) /\ r \in Seq(Octets)
  BY <1>3, <1>4 DEF Words
<1>8. l = r
  BY <1>6, <1>7, SeqEqual
<1> QED
  BY <1>8 DEF l, r, begun

LEMMA PushExtends ==
  ASSUME NEW s \in LexState, NEW c \in Octet
  PROVE  /\ Push(s, c) \in LexState
         /\ Push(s, c) = [s EXCEPT !.words = Extend(s.words, c)]
<1>1. Push(s, c) = [s EXCEPT !.words = Extend(s.words, c)]
  BY DEF Push, Extend, LexState
<1>2. Extend(s.words, c) \in Words
  BY ExtendWords DEF LexState
<1> QED
  BY <1>1, <1>2 DEF LexState

LEMMA HexValues == \A c \in LowerHex : HexValue(c) \in 0 .. 15
  BY DEF LowerHex, Digits, HexValue

\* What Lex makes of an octet.
Step(s, r, mode, words) == r.mode = mode /\ r.words = words

Refused(r, c) == r.mode = IF c = NEWLINE THEN "malformed" ELSE "skipping"

UnquotedStep(s, r, c) ==
  LET words == IF s.mode = "word" THEN s.words ELSE Append(s.words, <<>>) IN
  /\ c \in {SPACE, TAB} => r.mode = "between" /\ r.words = s.words
  /\ c = NEWLINE => r.mode = "lexed" /\ r.words = s.words
  /\ c = CONTINUE => IF s.mode = "word" THEN Refused(r, c)
                     ELSE r.mode = "continue" /\ r.words = s.words
  /\ c \notin SPACE .. DEL - 1 /\ c \notin {TAB, NEWLINE} => Refused(r, c)
  /\ c = QUOTE => r.mode = "quoted" /\ r.words = words
  /\ c \in (SPACE + 1 .. DEL - 1) \ {QUOTE, CONTINUE} =>
       r.mode = "word" /\ r.words = Extend(words, c)

QuotedStep(words, r, c) ==
  /\ c \notin SPACE .. DEL - 1 => Refused(r, c)
  /\ c = QUOTE => r.mode = "word" /\ r.words = words
  /\ c = ESCAPE => r.mode = "escape" /\ r.words = words
  /\ c \in (SPACE .. DEL - 1) \ {QUOTE, ESCAPE} =>
       r.mode = "quoted" /\ r.words = Extend(words, c)

EscapeStep(s, r, c) ==
  /\ c \in {QUOTE, ESCAPE} => r.mode = "quoted" /\ r.words = Extend(s.words, c)
  /\ c = LowerN => r.mode = "quoted" /\ r.words = Extend(s.words, NEWLINE)
  /\ c = LowerT => r.mode = "quoted" /\ r.words = Extend(s.words, TAB)
  /\ c = Underscore => r.mode = "quoted" /\ r.words = Extend(s.words, SPACE)
  /\ c \in LowerHex => r.mode = "digits" /\ r.words = s.words /\ r.digit = HexValue(c)
  /\ c \notin LowerHex \cup {QUOTE, ESCAPE, LowerN, LowerT, Underscore} => Refused(r, c)

DigitsStep(s, r, c) ==
  IF c \in LowerHex
  THEN r.mode = "quoted" /\ r.words = Extend(s.words, 16 * s.digit + HexValue(c))
  ELSE QuotedStep(Extend(s.words, s.digit), r, c)

ContinueStep(s, r, c) ==
  IF c = NEWLINE THEN r.mode = "lexed" /\ r.words = s.words ELSE Refused(r, c)

LEMMA RefusedOctet ==
  ASSUME NEW s \in LexState, NEW c \in Octet
  PROVE  /\ Malformed(s, c) \in LexState
         /\ Malformed(s, c).used = s.used
         /\ Refused(Malformed(s, c), c)
BY DEF Malformed, Into, Refused, LexState, LexMode

LEMMA UnquotedOctet ==
  ASSUME NEW s \in LexState, NEW c \in Octet
  PROVE  /\ LexUnquoted(s, c) \in LexState
         /\ LexUnquoted(s, c).used = s.used
         /\ UnquotedStep(s, LexUnquoted(s, c), c)
<1> DEFINE w == IF s.mode = "word" THEN s ELSE NewWord(s)
           words == IF s.mode = "word" THEN s.words ELSE Append(s.words, <<>>)
<1>1. /\ w \in LexState /\ w.used = s.used
      /\ w.words = IF s.mode = "word" THEN s.words ELSE Append(s.words, <<>>)
  <2>1. Append(s.words, <<>>) \in Words
    BY DEF LexState, Words, Octets
  <2> QED
    BY <2>1 DEF NewWord, LexState
<1>2. CASE c \in {SPACE, TAB, NEWLINE}
  <2>1. LexUnquoted(s, c) = Into(s, IF c = NEWLINE THEN "lexed" ELSE "between")
    BY <1>2 DEF LexUnquoted, SPACE, TAB, NEWLINE, CONTINUE, DEL
  <2>2. /\ LexUnquoted(s, c) \in LexState
        /\ LexUnquoted(s, c).used = s.used
        /\ LexUnquoted(s, c).words = s.words
        /\ LexUnquoted(s, c).mode = IF c = NEWLINE THEN "lexed" ELSE "between"
    BY <2>1 DEF Into, LexState, LexMode
  <2> QED
    BY <1>2, <2>2 DEF UnquotedStep, SPACE, TAB, NEWLINE, CONTINUE, DEL, QUOTE
<1>3. CASE c = CONTINUE
  BY <1>3, RefusedOctet
  DEF LexUnquoted, Into, LexState, LexMode, UnquotedStep, SPACE, TAB, NEWLINE, CONTINUE, DEL, QUOTE
<1>4. CASE c \notin SPACE .. DEL - 1 /\ c \notin {TAB, NEWLINE}
  <2>1. LexUnquoted(s, c) = Malformed(s, c)
    BY <1>4 DEF LexUnquoted, SPACE, TAB, NEWLINE, CONTINUE, DEL, Octet
  <2>2. c \notin {SPACE, TAB, NEWLINE, CONTINUE, QUOTE} /\ c \notin SPACE + 1 .. DEL - 1
    BY <1>4 DEF SPACE, TAB, NEWLINE, CONTINUE, DEL, QUOTE, Octet
  <2> QED
    BY <2>1, <2>2, RefusedOctet DEF UnquotedStep
<1>5. CASE c = QUOTE
  <2>1. LexUnquoted(s, c) = Into(w, "quoted")
    BY <1>5 DEF LexUnquoted, SPACE, TAB, NEWLINE, CONTINUE, DEL, QUOTE
  <2> HIDE DEF w
  <2>2. /\ Into(w, "quoted") \in LexState
        /\ Into(w, "quoted").used = s.used
        /\ Into(w, "quoted").words = w.words
        /\ Into(w, "quoted").mode = "quoted"
    BY <1>1 DEF Into, LexState, LexMode
  <2> QED
    BY <1>1, <1>5, <2>1, <2>2 DEF UnquotedStep, SPACE, TAB, NEWLINE, CONTINUE, DEL, QUOTE
<1>6. CASE c \in (SPACE + 1 .. DEL - 1) \ {QUOTE, CONTINUE}
  <2>1. LexUnquoted(s, c) = Into(Push(w, c), "word")
    BY <1>6 DEF LexUnquoted, SPACE, TAB, NEWLINE, CONTINUE, DEL, QUOTE
  <2>2. Push(w, c) \in LexState /\ Push(w, c) = [w EXCEPT !.words = Extend(w.words, c)]
    BY <1>1, PushExtends
  <2> HIDE DEF w
  <2>3. /\ Into(Push(w, c), "word") \in LexState
        /\ Into(Push(w, c), "word").mode = "word"
        /\ Into(Push(w, c), "word").used = w.used
        /\ Into(Push(w, c), "word").words = Extend(w.words, c)
    BY <1>1, <2>2 DEF Into, LexState, LexMode
  <2> QED
    BY <1>1, <1>6, <2>1, <2>3 DEF UnquotedStep, SPACE, TAB, NEWLINE, CONTINUE, DEL, QUOTE
<1> QED
  BY <1>2, <1>3, <1>4, <1>5, <1>6 DEF SPACE, TAB, NEWLINE, CONTINUE, DEL, QUOTE, Octet

LEMMA QuotedOctetOf ==
  ASSUME NEW s \in LexState, NEW c \in Octet
  PROVE  /\ LexQuoted(s, c) \in LexState
         /\ LexQuoted(s, c).used = s.used
         /\ QuotedStep(s.words, LexQuoted(s, c), c)
<1>1. CASE c \notin SPACE .. DEL - 1
  <2>1. LexQuoted(s, c) = Malformed(s, c)
    BY <1>1 DEF LexQuoted, SPACE, DEL, QUOTE, ESCAPE, Octet
  <2>2. c \notin {QUOTE, ESCAPE} /\ c \notin SPACE .. DEL - 1
    BY <1>1 DEF SPACE, DEL, QUOTE, ESCAPE
  <2> QED
    BY <2>1, <2>2, RefusedOctet DEF QuotedStep
<1>2. CASE c \in {QUOTE, ESCAPE}
  BY <1>2 DEF LexQuoted, Into, LexState, LexMode, QuotedStep, SPACE, DEL, QUOTE, ESCAPE
<1>3. CASE c \in (SPACE .. DEL - 1) \ {QUOTE, ESCAPE}
  <2>1. LexQuoted(s, c) = Into(Push(s, c), "quoted")
    BY <1>3 DEF LexQuoted, SPACE, DEL, QUOTE, ESCAPE
  <2>2. Push(s, c) \in LexState /\ Push(s, c) = [s EXCEPT !.words = Extend(s.words, c)]
    BY PushExtends
  <2> QED
    BY <1>3, <2>1, <2>2 DEF Into, LexState, LexMode, QuotedStep, SPACE, DEL, QUOTE, ESCAPE
<1> QED
  BY <1>1, <1>2, <1>3

LEMMA EscapedOctet ==
  ASSUME NEW s \in LexState, NEW c \in Octet
  PROVE  /\ LexEscape(s, c) \in LexState
         /\ LexEscape(s, c).used = s.used
         /\ EscapeStep(s, LexEscape(s, c), c)
<1> DEFINE r == LexEscape(s, c)
<1>1. ASSUME NEW d \in Octet, r = Into(Push(s, d), "quoted")
      PROVE  /\ r \in LexState /\ r.used = s.used
             /\ r.mode = "quoted" /\ r.words = Extend(s.words, d)
  <2>1. Push(s, d) \in LexState /\ Push(s, d) = [s EXCEPT !.words = Extend(s.words, d)]
    BY PushExtends
  <2> HIDE DEF r
  <2> QED
    BY <1>1, <2>1 DEF Into, LexState, LexMode
<1>2. CASE c \in {QUOTE, ESCAPE}
  <2>1. r = Into(Push(s, c), "quoted")
    BY <1>2 DEF LexEscape, QUOTE, ESCAPE, LowerN, LowerT, Underscore, LowerHex, Digits
  <2>2. c \notin {LowerN, LowerT, Underscore} \cup LowerHex
    BY <1>2 DEF QUOTE, ESCAPE, LowerN, LowerT, Underscore, LowerHex, Digits
  <2> HIDE DEF r
  <2> QED
    BY <1>1, <1>2, <2>1, <2>2 DEF EscapeStep, r
<1>3. CASE c \in {LowerN, LowerT, Underscore}
  <2> DEFINE d == CASE c = LowerN -> NEWLINE [] c = LowerT -> TAB [] c = Underscore -> SPACE
  <2>1. d \in Octet /\ r = Into(Push(s, d), "quoted")
    BY <1>3 DEF LexEscape, QUOTE, ESCAPE, LowerN, LowerT, Underscore, LowerHex, Digits,
                NEWLINE, TAB, SPACE, Octet
  <2>2. c \notin {QUOTE, ESCAPE} \cup LowerHex
    BY <1>3 DEF QUOTE, ESCAPE, LowerN, LowerT, Underscore, LowerHex, Digits
  <2>3. /\ c = LowerN => d = NEWLINE
        /\ c = LowerT => d = TAB
        /\ c = Underscore => d = SPACE
    BY DEF LowerN, LowerT, Underscore
  <2> HIDE DEF r, d
  <2>4. /\ r \in LexState /\ r.used = s.used
        /\ r.mode = "quoted" /\ r.words = Extend(s.words, d)
    BY <1>1, <2>1
  <2> QED
    BY <1>3, <2>2, <2>3, <2>4 DEF EscapeStep, r
<1>4. CASE c \in LowerHex
  <2>1. r = [Into(s, "digits") EXCEPT !.digit = HexValue(c)]
    BY <1>4 DEF LexEscape, QUOTE, ESCAPE, LowerN, LowerT, Underscore, LowerHex, Digits
  <2>2. c \notin {QUOTE, ESCAPE, LowerN, LowerT, Underscore}
    BY <1>4 DEF QUOTE, ESCAPE, LowerN, LowerT, Underscore, LowerHex, Digits
  <2>3. HexValue(c) \in 0 .. 15
    BY <1>4, HexValues
  <2> HIDE DEF r
  <2>4. /\ r \in LexState /\ r.used = s.used
        /\ r.mode = "digits" /\ r.words = s.words /\ r.digit = HexValue(c)
    BY <2>1, <2>3 DEF Into, LexState, LexMode
  <2> QED
    BY <1>4, <2>2, <2>4 DEF EscapeStep, r
<1>5. CASE c \notin LowerHex \cup {QUOTE, ESCAPE, LowerN, LowerT, Underscore}
  <2>1. r = Malformed(s, c)
    BY <1>5 DEF LexEscape
  <2> QED
    BY <1>5, <2>1, RefusedOctet DEF EscapeStep
<1> QED
  BY <1>2, <1>3, <1>4, <1>5

LEMMA DigitsOctet ==
  ASSUME NEW s \in LexState, NEW c \in Octet
  PROVE  /\ LexDigits(s, c) \in LexState
         /\ LexDigits(s, c).used = s.used
         /\ DigitsStep(s, LexDigits(s, c), c)
<1>1. s.digit \in 0 .. 15 /\ s.digit \in Octet
  BY DEF LexState, Octet
<1>2. CASE c \in LowerHex
  <2> DEFINE d == 16 * s.digit + HexValue(c)
  <2>1. HexValue(c) \in 0 .. 15
    BY <1>2, HexValues
  <2>2. d \in Octet
    BY <1>1, <2>1 DEF Octet
  <2>3. LexDigits(s, c) = Into(Push(s, d), "quoted")
    BY <1>2 DEF LexDigits
  <2> HIDE DEF d
  <2>4. Push(s, d) \in LexState /\ Push(s, d) = [s EXCEPT !.words = Extend(s.words, d)]
    BY <2>2, PushExtends
  <2>5. /\ LexDigits(s, c) \in LexState /\ LexDigits(s, c).used = s.used
        /\ LexDigits(s, c).mode = "quoted" /\ LexDigits(s, c).words = Extend(s.words, d)
    BY <2>3, <2>4 DEF Into, LexState, LexMode
  <2> QED
    BY <1>2, <2>5 DEF DigitsStep, d
<1>3. CASE c \notin LowerHex
  <2>1. LexDigits(s, c) = LexQuoted(Push(s, s.digit), c)
    BY <1>3 DEF LexDigits
  <2>2. /\ Push(s, s.digit) \in LexState
        /\ Push(s, s.digit) = [s EXCEPT !.words = Extend(s.words, s.digit)]
    BY <1>1, PushExtends
  <2>3. Push(s, s.digit).used = s.used /\ Push(s, s.digit).words = Extend(s.words, s.digit)
    BY <2>2 DEF LexState
  <2> QED
    BY <1>3, <2>1, <2>2, <2>3, QuotedOctetOf DEF DigitsStep
<1> QED
  BY <1>2, <1>3

LEMMA ContinuedOctet ==
  ASSUME NEW s \in LexState, NEW c \in Octet
  PROVE  /\ LexContinue(s, c) \in LexState
         /\ LexContinue(s, c).used = s.used
         /\ ContinueStep(s, LexContinue(s, c), c)
<1>1. CASE c = NEWLINE
  BY <1>1 DEF LexContinue, ContinueStep, Into, LexState, LexMode
<1>2. CASE c # NEWLINE
  BY <1>2, RefusedOctet DEF LexContinue, ContinueStep
<1> QED
  BY <1>1, <1>2

\* What Lex makes of an octet, wherever it is.
LexStep(s, r, c) ==
  IF s.mode \in {"lexed", "malformed"} THEN r = s
  ELSE /\ r.used = s.used + 1
       /\ s.mode \in {"between", "word"} => UnquotedStep(s, r, c)
       /\ s.mode = "quoted" => QuotedStep(s.words, r, c)
       /\ s.mode = "escape" => EscapeStep(s, r, c)
       /\ s.mode = "digits" => DigitsStep(s, r, c)
       /\ s.mode = "continue" => ContinueStep(s, r, c)
       /\ s.mode = "skipping" => Refused(r, c)

LEMMA LexOneOctet ==
  ASSUME NEW s \in LexState, NEW c \in Octet
  PROVE  LexOctet(s, c) \in LexState /\ LexStep(s, LexOctet(s, c), c)
<1> DEFINE u == [s EXCEPT !.used = @ + 1]
           r == LexOctet(s, c)
<1>1. CASE s.mode \in {"lexed", "malformed"}
  BY <1>1 DEF LexOctet, Ended, LexStep
<1>2. CASE s.mode \notin {"lexed", "malformed"}
  <2>1. /\ u \in LexState /\ u.used = s.used + 1
        /\ u.mode = s.mode /\ u.words = s.words /\ u.digit = s.digit
    BY DEF LexState
  <2>2. r = CASE s.mode \in {"between", "word"} -> LexUnquoted(u, c)
              [] s.mode = "quoted"              -> LexQuoted(u, c)
              [] s.mode = "escape"              -> LexEscape(u, c)
              [] s.mode = "digits"              -> LexDigits(u, c)
              [] s.mode = "continue"            -> LexContinue(u, c)
              [] s.mode = "skipping"            -> Malformed(u, c)
    BY <1>2 DEF LexOctet, Ended
  <2> HIDE DEF u, r
  <2>3. CASE s.mode \in {"between", "word"}
    <3>1. r = LexUnquoted(u, c)
      BY <2>2, <2>3
    <3>2. r \in LexState /\ r.used = s.used + 1 /\ UnquotedStep(s, r, c)
      BY <2>1, <3>1, UnquotedOctet DEF UnquotedStep
    <3> QED
      BY <2>3, <3>2 DEF LexStep, r
  <2>4. CASE s.mode = "quoted"
    <3>1. r = LexQuoted(u, c)
      BY <2>2, <2>4
    <3>2. r \in LexState /\ r.used = s.used + 1 /\ QuotedStep(s.words, r, c)
      BY <2>1, <3>1, QuotedOctetOf
    <3> QED
      BY <2>4, <3>2 DEF LexStep, r
  <2>5. CASE s.mode = "escape"
    <3>1. r = LexEscape(u, c)
      BY <2>2, <2>5
    <3>2. r \in LexState /\ r.used = s.used + 1 /\ EscapeStep(s, r, c)
      BY <2>1, <3>1, EscapedOctet DEF EscapeStep
    <3> QED
      BY <2>5, <3>2 DEF LexStep, r
  <2>6. CASE s.mode = "digits"
    <3>1. r = LexDigits(u, c)
      BY <2>2, <2>6
    <3>2. r \in LexState /\ r.used = s.used + 1 /\ DigitsStep(s, r, c)
      BY <2>1, <3>1, DigitsOctet DEF DigitsStep
    <3> QED
      BY <2>6, <3>2 DEF LexStep, r
  <2>7. CASE s.mode = "continue"
    <3>1. r = LexContinue(u, c)
      BY <2>2, <2>7
    <3>2. r \in LexState /\ r.used = s.used + 1 /\ ContinueStep(s, r, c)
      BY <2>1, <3>1, ContinuedOctet DEF ContinueStep
    <3> QED
      BY <2>7, <3>2 DEF LexStep, r
  <2>8. CASE s.mode = "skipping"
    <3>1. r = Malformed(u, c)
      BY <2>2, <2>8
    <3>2. r \in LexState /\ r.used = s.used + 1 /\ Refused(r, c)
      BY <2>1, <3>1, RefusedOctet
    <3> QED
      BY <2>8, <3>2 DEF LexStep, r
  <2> QED
    BY <1>2, <2>3, <2>4, <2>5, <2>6, <2>7, <2>8 DEF LexState, LexMode
<1> QED
  BY <1>1, <1>2

-----------------------------------------------------------------------------
(* The octets of a line, one by one.                                       *)

LEMMA LexRun ==
  ASSUME NEW octets \in Octets
  PROVE  LET f == LexStates(octets) IN
         /\ f \in [0 .. Len(octets) -> LexState]
         /\ f[0] = Lexing
         /\ \A i \in 1 .. Len(octets) : f[i] = LexOctet(f[i - 1], octets[i])
<1> DEFINE n == Len(octets)
           step == [i \in 1 .. n |-> [s \in LexState |-> LexOctet(s, octets[i])]]
           Follows(f) == f = [i \in 0 .. n |-> IF i = 0 THEN Lexing
                                              ELSE LexOctet(f[i - 1], octets[i])]
<1>1. n \in Nat /\ \A i \in 1 .. n : octets[i] \in Octet
  BY DEF Octets
<1>2. Lexing \in LexState
  BY DEF Lexing, LexState, LexMode, Words, Octets
<1>3. step \in Loop(n, LexState)
  BY <1>1, LexOneOctet DEF Loop
<1>4. \E f : Follows(f)
  <2> HIDE DEF n, step
  <2>1. PICK f : Runs(n, LexState, Lexing, step, f)
    BY <1>1, <1>2, <1>3, Iteration, Zenon
  <2>2. \A i \in 1 .. n : f[i] = LexOctet(f[i - 1], octets[i])
    <3> SUFFICES ASSUME NEW i \in 1 .. n PROVE f[i] = LexOctet(f[i - 1], octets[i])
      OBVIOUS
    <3>1. f[i - 1] \in LexState
      BY <1>1, <2>1 DEF Runs
    <3>2. step[i] = [s \in LexState |-> LexOctet(s, octets[i])]
      BY DEF step
    <3> QED
      BY <2>1, <3>1, <3>2 DEF Runs
  <2>3. f = [i \in 0 .. n |-> IF i = 0 THEN Lexing ELSE LexOctet(f[i - 1], octets[i])]
    BY <1>1, <2>1, <2>2 DEF Runs
  <2> QED
    BY <2>3
<1>5. Follows(LexStates(octets))
  BY <1>4 DEF LexStates
<1> DEFINE g == LexStates(octets)
<1>6. g = [i \in 0 .. n |-> IF i = 0 THEN Lexing ELSE LexOctet(g[i - 1], octets[i])]
  BY <1>5
<1> HIDE DEF g, n
<1>7. g[0] = Lexing /\ \A i \in 1 .. n : g[i] = LexOctet(g[i - 1], octets[i])
  BY <1>1, <1>6
<1>8. 0 .. n \subseteq {i \in 0 .. n : g[i] \in LexState}
  <2> DEFINE T == {i \in 0 .. n : g[i] \in LexState}
  <2>1. 0 \in T
    BY <1>1, <1>2, <1>7
  <2>2. \A i \in 0 .. n - 1 : i \in T => i + 1 \in T
    <3> SUFFICES ASSUME NEW i \in 0 .. n - 1, g[i] \in LexState PROVE i + 1 \in T
      OBVIOUS
    <3>1. i + 1 \in 1 .. n /\ (i + 1) - 1 = i
      BY <1>1
    <3>2. g[i + 1] = LexOctet(g[i], octets[i + 1]) /\ octets[i + 1] \in Octet
      BY <1>1, <1>7, <3>1
    <3>3. g[i + 1] \in LexState
      BY <3>2, LexOneOctet
    <3> QED
      BY <3>1, <3>3, <1>1
  <2> HIDE DEF T
  <2>3. 0 .. n \subseteq T
    BY <1>1, <2>1, <2>2, UpTo
  <2> QED
    BY <2>3 DEF T
<1>9. g \in [0 .. n -> LexState]
  BY <1>6, <1>8
<1> QED
  BY <1>7, <1>9 DEF g, n

LEMMA LexedNothing == Lexed(<<>>) = Lexing
<1>1. <<>> \in Octets /\ Len(<<>>) = 0
  BY DEF Octets
<1>2. LexStates(<<>>)[0] = Lexing
  BY <1>1, LexRun
<1> QED
  BY <1>1, <1>2 DEF Lexed

\* What comes behind some octets does not change what Lex makes of them.
LEMMA LexedMore ==
  ASSUME NEW octets \in Octets, NEW c \in Octet
  PROVE  /\ octets \o <<c>> \in Octets
         /\ Lexed(octets \o <<c>>) = LexOctet(Lexed(octets), c)
<1> DEFINE n == Len(octets)
           more == octets \o <<c>>
           f == LexStates(octets)
           g == LexStates(more)
           T == {i \in 0 .. n : g[i] = f[i]}
<1>1. /\ n \in Nat /\ more \in Octets /\ Len(more) = n + 1
      /\ more[n + 1] = c /\ \A i \in 1 .. n : more[i] = octets[i]
  BY DEF Octets
<1>2. f[0] = Lexing /\ \A i \in 1 .. n : f[i] = LexOctet(f[i - 1], octets[i])
  BY LexRun
<1> HIDE DEF more
<1>3. g[0] = Lexing /\ \A i \in 1 .. n + 1 : g[i] = LexOctet(g[i - 1], more[i])
  BY <1>1, LexRun
<1> HIDE DEF n, f, g
<1>4. 0 \in T
  BY <1>1, <1>2, <1>3
<1>5. \A i \in 0 .. n - 1 : i \in T => i + 1 \in T
  <2> SUFFICES ASSUME NEW i \in 0 .. n - 1, g[i] = f[i] PROVE g[i + 1] = f[i + 1]
    BY <1>1
  <2>1. i + 1 \in 1 .. n /\ i + 1 \in 1 .. n + 1 /\ (i + 1) - 1 = i
    BY <1>1
  <2> QED
    BY <2>1, <1>1, <1>2, <1>3
<1> HIDE DEF T
<1>6. 0 .. n \subseteq T
  BY <1>1, <1>4, <1>5, UpTo
<1>7. n \in 0 .. n /\ n + 1 \in 1 .. n + 1 /\ (n + 1) - 1 = n
  BY <1>1
<1>8. g[n] = f[n]
  BY <1>6, <1>7 DEF T
<1>9. g[n + 1] = LexOctet(f[n], c)
  BY <1>1, <1>3, <1>7, <1>8
<1> QED
  BY <1>1, <1>9 DEF Lexed, n, f, g, more

LEMMA PairOfOctets ==
  ASSUME NEW S, NEW c \in S, NEW d \in S
  PROVE  <<c>> \o <<d>> = <<c, d>>
<1> DEFINE l == <<c>> \o <<d>>
           r == <<c, d>>
<1>1. l \in Seq(S) /\ r \in Seq(S) /\ Len(l) = 2 /\ Len(r) = 2
  OBVIOUS
<1>2. l[1] = r[1] /\ l[2] = r[2]
  OBVIOUS
<1> HIDE DEF l, r
<1>3. l = r
  BY <1>1, <1>2, SeqEqual
<1> QED
  BY <1>3 DEF l, r

LEMMA TwoOctets ==
  ASSUME NEW S, NEW seq \in Seq(S), NEW c \in S, NEW d \in S
  PROVE  seq \o <<c, d>> = (seq \o <<c>>) \o <<d>>
<1> DEFINE l == seq \o <<c, d>>
           r == (seq \o <<c>>) \o <<d>>
<1>1. l \in Seq(S) /\ r \in Seq(S) /\ Len(l) = Len(r)
  OBVIOUS
<1>2. \A i \in 1 .. Len(l) : l[i] = r[i]
  OBVIOUS
<1> HIDE DEF l, r
<1>3. l = r
  BY <1>1, <1>2, SeqEqual
<1> QED
  BY <1>3 DEF l, r

LEMMA ThreeOctets ==
  ASSUME NEW S, NEW seq \in Seq(S), NEW c \in S, NEW d \in S, NEW e \in S
  PROVE  seq \o <<c, d, e>> = (seq \o <<c, d>>) \o <<e>>
<1> DEFINE l == seq \o <<c, d, e>>
           r == (seq \o <<c, d>>) \o <<e>>
<1>1. l \in Seq(S) /\ r \in Seq(S) /\ Len(l) = Len(r)
  OBVIOUS
<1>2. \A i \in 1 .. Len(l) : l[i] = r[i]
  OBVIOUS
<1> HIDE DEF l, r
<1>3. l = r
  BY <1>1, <1>2, SeqEqual
<1> QED
  BY <1>3 DEF l, r

LEMMA LexedTwo ==
  ASSUME NEW octets \in Octets, NEW c \in Octet, NEW d \in Octet
  PROVE  /\ octets \o <<c, d>> \in Octets
         /\ Lexed(octets \o <<c, d>>) = LexOctet(LexOctet(Lexed(octets), c), d)
<1>1. octets \o <<c>> \in Octets /\ Lexed(octets \o <<c>>) = LexOctet(Lexed(octets), c)
  BY LexedMore
<1>2. octets \o <<c, d>> = (octets \o <<c>>) \o <<d>>
  BY TwoOctets DEF Octets
<1> QED
  BY <1>1, <1>2, LexedMore

LEMMA LexedThree ==
  ASSUME NEW octets \in Octets, NEW c \in Octet, NEW d \in Octet, NEW e \in Octet
  PROVE  /\ octets \o <<c, d, e>> \in Octets
         /\ Lexed(octets \o <<c, d, e>>) =
              LexOctet(LexOctet(LexOctet(Lexed(octets), c), d), e)
<1>1. /\ octets \o <<c, d>> \in Octets
      /\ Lexed(octets \o <<c, d>>) = LexOctet(LexOctet(Lexed(octets), c), d)
  BY LexedTwo
<1>2. octets \o <<c, d, e>> = (octets \o <<c, d>>) \o <<e>>
  BY ThreeOctets DEF Octets
<1> QED
  BY <1>1, <1>2, LexedMore

-----------------------------------------------------------------------------
(* The inductive invariant: Lex is where the peer is.                      *)

Follows(s, n, words, at) ==
  /\ s \in LexState
  /\ s.used = n
  /\ at \in {"between", "word", "quoted"} => s.mode = at /\ s.words = words
  /\ at = "digits" => s.mode = "digits" /\ Extend(s.words, s.digit) = words
  /\ at \in {"wrong", "disputed"} => s.mode = "skipping"

\* A line that could end here does not end in a ';'.
EndsWell ==
  /\ place = "between" => line = <<>> \/ line[Len(line)] \in {SPACE, TAB}
  /\ place = "word" => line # <<>> /\ line[Len(line)] # CONTINUE

IInv ==
  /\ line \in Octets
  /\ meant \in Words
  /\ place \in Place
  /\ Follows(Lexed(line), Len(line), meant, place)
  /\ EndsWell

LEMMA InitIInv == Init => IInv
<1> SUFFICES ASSUME Init PROVE IInv
  OBVIOUS
<1>1. line = <<>> /\ meant = <<>> /\ place = "between"
  BY DEF Init
<1>2. Follows(Lexing, 0, <<>>, "between")
  BY DEF Follows, Lexing, LexState, LexMode, Words, Octets
<1>3. Lexed(line) = Lexing /\ Len(line) = 0
  BY <1>1, LexedNothing
<1> QED
  BY <1>1, <1>2, <1>3 DEF IInv, Octets, Words, Place, EndsWell

\* An octet outside quotes.
LEMMA AfterUnquoted ==
  ASSUME NEW s, NEW n \in Nat, NEW words \in Words, NEW at \in {"between", "word"},
         Follows(s, n, words, at), NEW c \in Octet
  PROVE  LET begun == IF at = "word" THEN words ELSE Append(words, <<>>) IN
         /\ c \in {SPACE, TAB} => Follows(LexOctet(s, c), n + 1, words, "between")
         /\ c = QUOTE => Follows(LexOctet(s, c), n + 1, begun, "quoted")
         /\ c \in (SPACE + 1 .. DEL - 1) \ {QUOTE, CONTINUE} =>
              Follows(LexOctet(s, c), n + 1, Extend(begun, c), "word")
         /\ (c \notin SPACE .. DEL - 1 /\ c \notin {TAB, NEWLINE}) \/ (c = CONTINUE /\ at = "word") =>
              Follows(LexOctet(s, c), n + 1, words, "wrong")
<1> DEFINE r == LexOctet(s, c)
<1>1. s \in LexState /\ s.used = n /\ s.mode = at /\ s.words = words
  BY DEF Follows
<1>2. r \in LexState /\ r.used = n + 1 /\ UnquotedStep(s, r, c)
  BY <1>1, LexOneOctet DEF LexStep
<1> HIDE DEF r
<1>3. CONTINUE # NEWLINE
  BY DEF CONTINUE, NEWLINE
<1> QED
  BY <1>1, <1>2, <1>3 DEF UnquotedStep, Refused, Follows, r

\* An octet in quotes, that is not a digit for an escape that stands before it.
LEMMA AfterQuoted ==
  ASSUME NEW s, NEW n \in Nat, NEW words \in Words, NEW at \in {"quoted", "digits"},
         Follows(s, n, words, at), NEW c \in Octet, at = "digits" => c \notin LowerHex
  PROVE  LET r == LexOctet(s, c) IN
         /\ r \in LexState /\ r.used = n + 1
         /\ c = QUOTE => Follows(r, n + 1, words, "word")
         /\ c = ESCAPE => r.mode = "escape" /\ r.words = words
         /\ c \in (SPACE .. DEL - 1) \ {QUOTE, ESCAPE} =>
              Follows(r, n + 1, Extend(words, c), "quoted")
         /\ c \notin SPACE .. DEL - 1 /\ c # NEWLINE => Follows(r, n + 1, words, "wrong")
         /\ c = NEWLINE => r.mode = "malformed"
<1> DEFINE r == LexOctet(s, c)
<1>1. s \in LexState /\ s.used = n
  BY DEF Follows
<1>2. r \in LexState /\ r.used = n + 1 /\ QuotedStep(words, r, c)
  <2>1. CASE at = "quoted"
    <3>1. s.mode = "quoted" /\ s.words = words
      BY <2>1 DEF Follows
    <3> QED
      BY <1>1, <3>1, LexOneOctet DEF LexStep
  <2>2. CASE at = "digits"
    <3>1. s.mode = "digits" /\ Extend(s.words, s.digit) = words /\ c \notin LowerHex
      BY <2>2 DEF Follows
    <3> QED
      BY <1>1, <3>1, LexOneOctet DEF LexStep, DigitsStep
  <2> QED
    BY <2>1, <2>2
<1> HIDE DEF r
<1>3. NEWLINE \notin SPACE .. DEL - 1
  BY DEF NEWLINE, SPACE, DEL
<1> QED
  BY <1>2, <1>3 DEF QuotedStep, Refused, Follows, r

\* A backslash and what it stands before.
LEMMA AfterEscape ==
  ASSUME NEW s, NEW n \in Nat, NEW words \in Words, NEW at \in {"quoted", "digits"},
         Follows(s, n, words, at), NEW c \in Octet
  PROVE  LET r == LexOctet(LexOctet(s, ESCAPE), c) IN
         /\ r \in LexState /\ r.used = n + 2
         /\ EscapeStep([words |-> words], r, c)
<1> DEFINE q == LexOctet(s, ESCAPE)
           r == LexOctet(q, c)
<1>1. ESCAPE \in Octet /\ ESCAPE \notin LowerHex
  BY DEF ESCAPE, Octet, LowerHex, Digits
<1>2. q \in LexState /\ q.used = n + 1 /\ q.mode = "escape" /\ q.words = words
  BY <1>1, AfterQuoted
<1> HIDE DEF q
<1>3. r \in LexState /\ r.used = n + 2 /\ EscapeStep(q, r, c)
  BY <1>2, LexOneOctet DEF LexStep
<1> HIDE DEF r
<1>4. EscapeStep([words |-> words], r, c)
  BY <1>2, <1>3 DEF EscapeStep
<1> QED
  BY <1>3, <1>4 DEF q, r

\* What is written is lexed from where Lex was.
LEMMA OneWritten ==
  ASSUME line \in Octets, NEW c \in Octet, NEW next, Write(<<c>>, next)
  PROVE  /\ place' = next
         /\ line' \in Octets /\ Len(line') = Len(line) + 1
         /\ line' # <<>> /\ line'[Len(line')] = c
         /\ Lexed(line') = LexOctet(Lexed(line), c)
<1>1. line' = line \o <<c>> /\ place' = next
  BY DEF Write
<1>2. line \o <<c>> \in Octets /\ Lexed(line \o <<c>>) = LexOctet(Lexed(line), c)
  BY LexedMore
<1>3. Len(line \o <<c>>) = Len(line) + 1 /\ (line \o <<c>>)[Len(line) + 1] = c
  BY DEF Octets
<1> QED
  BY <1>1, <1>2, <1>3

LEMMA TwoWritten ==
  ASSUME line \in Octets, NEW c \in Octet, NEW d \in Octet, NEW next, Write(<<c, d>>, next)
  PROVE  /\ place' = next
         /\ line' \in Octets /\ Len(line') = Len(line) + 2
         /\ Lexed(line') = LexOctet(LexOctet(Lexed(line), c), d)
<1>1. line' = line \o <<c, d>> /\ place' = next
  BY DEF Write
<1>2. /\ line \o <<c, d>> \in Octets
      /\ Lexed(line \o <<c, d>>) = LexOctet(LexOctet(Lexed(line), c), d)
  BY LexedTwo
<1>3. Len(line \o <<c, d>>) = Len(line) + 2
  BY DEF Octets
<1> QED
  BY <1>1, <1>2, <1>3

LEMMA ThreeWritten ==
  ASSUME line \in Octets, NEW c \in Octet, NEW d \in Octet, NEW e \in Octet, NEW next,
         Write(<<c, d, e>>, next)
  PROVE  /\ place' = next
         /\ line' \in Octets /\ Len(line') = Len(line) + 3
         /\ Lexed(line') = LexOctet(LexOctet(LexOctet(Lexed(line), c), d), e)
<1>1. line' = line \o <<c, d, e>> /\ place' = next
  BY DEF Write
<1>2. /\ line \o <<c, d, e>> \in Octets
      /\ Lexed(line \o <<c, d, e>>) = LexOctet(LexOctet(LexOctet(Lexed(line), c), d), e)
  BY LexedThree
<1>3. Len(line \o <<c, d, e>>) = Len(line) + 3
  BY DEF Octets
<1> QED
  BY <1>1, <1>2, <1>3

LEMMA BegunWords ==
  ASSUME NEW words \in Words
  PROVE  Append(words, <<>>) \in Words
BY DEF Words, Octets

LEMMA Meaning ==
  ASSUME meant \in Words, NEW c \in Octet, Means(c)
  PROVE  /\ meant' \in Words
         /\ meant' = Extend(IF place = "between" THEN Append(meant, <<>>) ELSE meant, c)
<1>1. CASE place = "between"
  <2>1. meant' = Append(meant, <<c>>)
    BY <1>1 DEF Means
  <2>2. Extend(Append(meant, <<>>), c) = Append(meant, <<c>>)
    <3>1. <<>> \in Octets /\ Append(<<>>, c) = <<c>>
      BY DEF Octets
    <3> QED
      BY <3>1, ExtendAppended
  <2>3. Append(meant, <<c>>) \in Words
    BY DEF Words, Octets
  <2> QED
    BY <1>1, <2>1, <2>2, <2>3
<1>2. CASE place # "between"
  <2>1. meant' = Extend(meant, c)
    BY <1>2 DEF Means, Extend
  <2> QED
    BY <1>2, <2>1, ExtendWords
<1> QED
  BY <1>1, <1>2

LEMMA BlankIInv ==
  ASSUME IInv, NEW c \in {SPACE, TAB}, Blank(c)
  PROVE  IInv'
<1> USE DEF IInv
<1>1. c \in Octet
  BY DEF SPACE, TAB, Octet
<1>2. place \in {"between", "word"} /\ Write(<<c>>, "between") /\ meant' = meant
  BY DEF Blank, InQuotes, Place
<1>3. /\ place' = "between" /\ line' \in Octets /\ Len(line') = Len(line) + 1
      /\ line'[Len(line')] = c /\ Lexed(line') = LexOctet(Lexed(line), c)
  BY <1>1, <1>2, OneWritten
<1>4. Len(line) \in Nat
  BY DEF Octets
<1>5. Follows(LexOctet(Lexed(line), c), Len(line) + 1, meant, "between")
  BY <1>1, <1>2, <1>4, AfterUnquoted
<1> QED
  BY <1>2, <1>3, <1>5 DEF EndsWell, Place

LEMMA PlainOctetIInv ==
  ASSUME IInv, NEW c \in Plain, PlainOctet(c)
  PROVE  IInv'
<1> USE DEF IInv
<1>1. c \in Octet /\ c \in (SPACE + 1 .. DEL - 1) \ {QUOTE, CONTINUE}
  BY AnyLineAssumption DEF AnyLineAssumption, SPACE, DEL, Octet
<1>2. place \in {"between", "word"} /\ Write(<<c>>, "word") /\ Means(c)
  BY DEF PlainOctet
<1>3. /\ place' = "word" /\ line' \in Octets /\ Len(line') = Len(line) + 1
      /\ line' # <<>> /\ line'[Len(line')] = c /\ Lexed(line') = LexOctet(Lexed(line), c)
  BY <1>1, <1>2, OneWritten
<1>4. Len(line) \in Nat
  BY DEF Octets
<1> DEFINE begun == IF place = "word" THEN meant ELSE Append(meant, <<>>)
<1>5. Follows(LexOctet(Lexed(line), c), Len(line) + 1, Extend(begun, c), "word")
  BY <1>1, <1>2, <1>4, AfterUnquoted
<1>6. meant' \in Words /\ meant' = Extend(begun, c)
  BY <1>1, <1>2, Meaning
<1> HIDE DEF begun
<1> QED
  BY <1>1, <1>2, <1>3, <1>5, <1>6 DEF EndsWell, Place

LEMMA OpenQuoteIInv ==
  ASSUME IInv, OpenQuote
  PROVE  IInv'
<1> USE DEF IInv
<1>1. QUOTE \in Octet
  BY DEF QUOTE, Octet
<1> DEFINE begun == IF place = "word" THEN meant ELSE Append(meant, <<>>)
<1>2. place \in {"between", "word"} /\ Write(<<QUOTE>>, "quoted") /\ meant' = begun
  BY DEF OpenQuote
<1>3. /\ place' = "quoted" /\ line' \in Octets /\ Len(line') = Len(line) + 1
      /\ Lexed(line') = LexOctet(Lexed(line), QUOTE)
  BY <1>1, <1>2, OneWritten
<1>4. Len(line) \in Nat
  BY DEF Octets
<1>5. Follows(LexOctet(Lexed(line), QUOTE), Len(line) + 1, begun, "quoted")
  BY <1>1, <1>2, <1>4, AfterUnquoted
<1>6. meant' \in Words
  BY <1>2, BegunWords
<1> HIDE DEF begun
<1> QED
  BY <1>2, <1>3, <1>5, <1>6 DEF EndsWell, Place

LEMMA CloseQuoteIInv ==
  ASSUME IInv, CloseQuote
  PROVE  IInv'
<1> USE DEF IInv
<1>1. QUOTE \in Octet /\ QUOTE \notin LowerHex /\ QUOTE # CONTINUE
  BY DEF QUOTE, Octet, LowerHex, Digits, CONTINUE
<1>2. place \in {"quoted", "digits"} /\ Write(<<QUOTE>>, "word") /\ meant' = meant
  BY DEF CloseQuote, InQuotes
<1>3. /\ place' = "word" /\ line' \in Octets /\ Len(line') = Len(line) + 1
      /\ line' # <<>> /\ line'[Len(line')] = QUOTE
      /\ Lexed(line') = LexOctet(Lexed(line), QUOTE)
  BY <1>1, <1>2, OneWritten
<1>4. Len(line) \in Nat
  BY DEF Octets
<1>5. Follows(LexOctet(Lexed(line), QUOTE), Len(line) + 1, meant, "word")
  BY <1>1, <1>2, <1>4, AfterQuoted
<1> QED
  BY <1>1, <1>2, <1>3, <1>5 DEF EndsWell, Place

LEMMA QuotedOctetIInv ==
  ASSUME IInv, NEW c \in Spaced, QuotedOctet(c)
  PROVE  IInv'
<1> USE DEF IInv
<1>1. c \in Octet /\ c \in (SPACE .. DEL - 1) \ {QUOTE, ESCAPE}
  BY AnyLineAssumption DEF AnyLineAssumption, SPACE, DEL, Octet
<1>2. /\ place \in {"quoted", "digits"} /\ (place = "digits" => c \notin LowerHex)
      /\ Write(<<c>>, "quoted") /\ Means(c)
  BY DEF QuotedOctet, InQuotes
<1>3. /\ place' = "quoted" /\ line' \in Octets /\ Len(line') = Len(line) + 1
      /\ Lexed(line') = LexOctet(Lexed(line), c)
  BY <1>1, <1>2, OneWritten
<1>4. Len(line) \in Nat
  BY DEF Octets
<1>5. Follows(LexOctet(Lexed(line), c), Len(line) + 1, Extend(meant, c), "quoted")
  <2>1. meant \in Words /\ Follows(Lexed(line), Len(line), meant, place)
    OBVIOUS
  <2>2. PICK at \in {"quoted", "digits"} : at = place
    BY <1>2
  <2> HIDE DEF IInv
  <2> QED
    BY <1>1, <1>2, <1>4, <2>1, <2>2, AfterQuoted
<1>6. meant' \in Words /\ meant' = Extend(meant, c)
  BY <1>1, <1>2, Meaning
<1> QED
  BY <1>2, <1>3, <1>5, <1>6 DEF EndsWell, Place

LEMMA HexDigits ==
  \A c \in 0 .. 15 : Hex(c) \in LowerHex /\ HexValue(Hex(c)) = c /\ Hex(c) \in Octet
BY DEF Hex, HexValue, LowerHex, Digits, Octet

LEMMA TwoHexDigits ==
  \A c \in Octet : /\ c \div 16 \in 0 .. 15 /\ c % 16 \in 0 .. 15
                   /\ 16 * (c \div 16) + (c % 16) = c
BY DEF Octet

LEMMA NamedEscapeIInv ==
  ASSUME IInv, NEW e \in Named, NamedEscape(e[1], e[2])
  PROVE  IInv'
<1> DEFINE letter == e[1]
           c == e[2]
           r == LexOctet(LexOctet(Lexed(line), ESCAPE), letter)
<1>1. ESCAPE \in Octet /\ letter \in Octet /\ c \in Octet
  BY DEF ESCAPE, Octet, Named, LowerN, NEWLINE, LowerT, TAB, Underscore, SPACE, QUOTE
<1>2. \/ letter \in {QUOTE, ESCAPE} /\ c = letter
      \/ letter = LowerN /\ c = NEWLINE
      \/ letter = LowerT /\ c = TAB
      \/ letter = Underscore /\ c = SPACE
  <2>1. \/ e = <<LowerN, NEWLINE>> \/ e = <<LowerT, TAB>> \/ e = <<Underscore, SPACE>>
        \/ e = <<QUOTE, QUOTE>> \/ e = <<ESCAPE, ESCAPE>>
    BY DEF Named
  <2> QED
    BY <2>1
<1>3. /\ place \in {"quoted", "digits"} /\ Write(<<ESCAPE, letter>>, "quoted") /\ Means(c)
  BY DEF NamedEscape, InQuotes
<1> HIDE DEF letter, c
<1>4. /\ line \in Octets /\ Len(line) \in Nat /\ meant \in Words
      /\ Follows(Lexed(line), Len(line), meant, place)
  BY DEF IInv, Octets
<1>5. /\ place' = "quoted" /\ line' \in Octets /\ Len(line') = Len(line) + 2
      /\ Lexed(line') = r
  BY <1>1, <1>3, <1>4, TwoWritten
<1>6. r \in LexState /\ r.used = Len(line) + 2 /\ EscapeStep([words |-> meant], r, letter)
  <2>1. PICK at \in {"quoted", "digits"} : at = place
    BY <1>3
  <2> QED
    BY <1>1, <1>4, <2>1, AfterEscape
<1> HIDE DEF r
<1>7. r.mode = "quoted" /\ r.words = Extend(meant, c)
  BY <1>2, <1>6 DEF EscapeStep
<1>8. meant' \in Words /\ meant' = Extend(meant, c)
  BY <1>1, <1>3, <1>4, Meaning
<1>9. Follows(Lexed(line'), Len(line'), meant', place')
  BY <1>5, <1>6, <1>7, <1>8 DEF Follows
<1> QED
  BY <1>5, <1>8, <1>9 DEF IInv, EndsWell, Place

LEMMA OneDigitIInv ==
  ASSUME IInv, NEW c \in Coded, OneDigit(c)
  PROVE  IInv'
<1> DEFINE digit == Hex(c)
           r == LexOctet(LexOctet(Lexed(line), ESCAPE), digit)
<1>1. c \in Octet /\ c \in 0 .. 15
  BY AnyLineAssumption DEF AnyLineAssumption, OneDigit, Octet
<1>2. ESCAPE \in Octet /\ digit \in Octet /\ digit \in LowerHex /\ HexValue(digit) = c
  BY <1>1, HexDigits DEF ESCAPE, Octet
<1>3. /\ place \in {"quoted", "digits"} /\ Write(<<ESCAPE, digit>>, "digits") /\ Means(c)
  BY DEF OneDigit, InQuotes
<1> HIDE DEF digit
<1>4. /\ line \in Octets /\ Len(line) \in Nat /\ meant \in Words
      /\ Follows(Lexed(line), Len(line), meant, place)
  BY DEF IInv, Octets
<1>5. /\ place' = "digits" /\ line' \in Octets /\ Len(line') = Len(line) + 2
      /\ Lexed(line') = r
  BY <1>2, <1>3, <1>4, TwoWritten
<1>6. r \in LexState /\ r.used = Len(line) + 2 /\ EscapeStep([words |-> meant], r, digit)
  <2>1. PICK at \in {"quoted", "digits"} : at = place
    BY <1>3
  <2> QED
    BY <1>2, <1>4, <2>1, AfterEscape
<1> HIDE DEF r
<1>7. r.mode = "digits" /\ r.words = meant /\ r.digit = c
  BY <1>2, <1>6 DEF EscapeStep
<1>8. meant' \in Words /\ meant' = Extend(meant, c)
  BY <1>1, <1>3, <1>4, Meaning
<1>9. Follows(Lexed(line'), Len(line'), meant', place')
  BY <1>5, <1>6, <1>7, <1>8 DEF Follows
<1> QED
  BY <1>5, <1>8, <1>9 DEF IInv, EndsWell, Place

LEMMA TwoDigitsIInv ==
  ASSUME IInv, NEW c \in Coded, TwoDigits(c)
  PROVE  IInv'
<1> DEFINE high == Hex(c \div 16)
           low == Hex(c % 16)
           q == LexOctet(LexOctet(Lexed(line), ESCAPE), high)
           r == LexOctet(q, low)
<1>1. c \in Octet
  BY AnyLineAssumption DEF AnyLineAssumption
<1>2. /\ ESCAPE \in Octet /\ high \in Octet /\ low \in Octet
      /\ high \in LowerHex /\ low \in LowerHex
      /\ 16 * HexValue(high) + HexValue(low) = c
  BY <1>1, HexDigits, TwoHexDigits DEF ESCAPE, Octet
<1>3. /\ place \in {"quoted", "digits"} /\ Write(<<ESCAPE, high, low>>, "quoted") /\ Means(c)
  BY DEF TwoDigits, InQuotes
<1> HIDE DEF high, low
<1>4. /\ line \in Octets /\ Len(line) \in Nat /\ meant \in Words
      /\ Follows(Lexed(line), Len(line), meant, place)
  BY DEF IInv, Octets
<1>5. /\ place' = "quoted" /\ line' \in Octets /\ Len(line') = Len(line) + 3
      /\ Lexed(line') = r
  BY <1>2, <1>3, <1>4, ThreeWritten
<1>6. q \in LexState /\ q.used = Len(line) + 2 /\ EscapeStep([words |-> meant], q, high)
  <2>1. PICK at \in {"quoted", "digits"} : at = place
    BY <1>3
  <2> QED
    BY <1>2, <1>4, <2>1, AfterEscape
<1> HIDE DEF q
<1>7. q.mode = "digits" /\ q.words = meant /\ q.digit = HexValue(high)
  BY <1>2, <1>6 DEF EscapeStep
<1>8. /\ r \in LexState /\ r.used = Len(line) + 3
      /\ r.mode = "quoted" /\ r.words = Extend(meant, c)
  <2>1. r \in LexState /\ LexStep(q, r, low)
    BY <1>2, <1>6, LexOneOctet
  <2> HIDE DEF r
  <2>2. r.used = q.used + 1 /\ DigitsStep(q, r, low)
    BY <1>7, <2>1 DEF LexStep
  <2> QED
    BY <1>2, <1>4, <1>6, <1>7, <2>1, <2>2 DEF DigitsStep
<1> HIDE DEF r
<1>9. meant' \in Words /\ meant' = Extend(meant, c)
  BY <1>1, <1>3, <1>4, Meaning
<1>10. Follows(Lexed(line'), Len(line'), meant', place')
  BY <1>5, <1>8, <1>9 DEF Follows
<1> QED
  BY <1>5, <1>9, <1>10 DEF IInv, EndsWell, Place

LEMMA NotHere == CONTINUE \in Octet /\ SPACE \in Octet /\ QUOTE \in Octet /\ ESCAPE \in Octet
BY DEF CONTINUE, SPACE, QUOTE, ESCAPE, Octet

\* One octet that Lex does not take there.
LEMMA WrongOctetIInv ==
  ASSUME IInv, NEW bad \in {"wrong", "disputed"}, NEW c \in Octet,
         Write(<<c>>, bad), meant' = meant,
         Follows(LexOctet(Lexed(line), c), Len(line) + 1, meant, "wrong")
  PROVE  IInv'
<1>1. line \in Octets /\ meant \in Words
  BY DEF IInv
<1>2. /\ place' = bad /\ line' \in Octets /\ Len(line') = Len(line) + 1
      /\ Lexed(line') = LexOctet(Lexed(line), c)
  BY <1>1, OneWritten
<1>3. Follows(LexOctet(Lexed(line), c), Len(line) + 1, meant, bad)
  BY DEF Follows
<1> QED
  BY <1>1, <1>2, <1>3 DEF IInv, EndsWell, Place

\* Two octets, the second of which must not stand behind the first.
LEMMA WrongPairIInv ==
  ASSUME IInv, NEW c \in Octet, NEW d \in Octet, Write(<<c, d>>, "wrong"), meant' = meant,
         NEW r, r = LexOctet(LexOctet(Lexed(line), c), d),
         r \in LexState, r.used = Len(line) + 2, r.mode = "skipping"
  PROVE  IInv'
<1>1. line \in Octets /\ meant \in Words
  BY DEF IInv
<1>2. /\ place' = "wrong" /\ line' \in Octets /\ Len(line') = Len(line) + 2
      /\ Lexed(line') = r
  BY <1>1, TwoWritten
<1>3. Follows(r, Len(line) + 2, meant, "wrong")
  BY DEF Follows
<1> QED
  BY <1>1, <1>2, <1>3 DEF IInv, EndsWell, Place

\* Octets that Lex takes nowhere, or not in quotes, or not outside.
LEMMA OctetRefused ==
  ASSUME IInv, NEW bad \in {"wrong", "disputed"}, NEW c \in Octet, c # NEWLINE,
         place \in {"between", "word", "quoted", "digits"},
         \/ c \notin SPACE .. DEL - 1 /\ c # TAB
         \/ c = TAB /\ InQuotes
         \/ c = CONTINUE /\ place = "word",
         Write(<<c>>, bad), meant' = meant
  PROVE  IInv'
<1>1. /\ line \in Octets /\ Len(line) \in Nat /\ meant \in Words
      /\ Follows(Lexed(line), Len(line), meant, place)
  BY DEF IInv, Octets
<1>2. PICK at : at = place
  OBVIOUS
<1>3. CASE at \in {"between", "word"}
  <2>1. ~InQuotes
    BY <1>2, <1>3 DEF InQuotes
  <2>2. (c \notin SPACE .. DEL - 1 /\ c \notin {TAB, NEWLINE}) \/ (c = CONTINUE /\ at = "word")
    BY <1>2, <2>1
  <2>3. Follows(LexOctet(Lexed(line), c), Len(line) + 1, meant, "wrong")
    BY <1>1, <1>2, <1>3, <2>2, AfterUnquoted
  <2> QED
    BY <2>3, WrongOctetIInv
<1>4. CASE at \in {"quoted", "digits"}
  <2>1. c \notin SPACE .. DEL - 1
    BY <1>2, <1>4 DEF TAB, SPACE, DEL
  <2>2. c \notin LowerHex
    BY <2>1 DEF LowerHex, Digits, SPACE, DEL
  <2>3. Follows(LexOctet(Lexed(line), c), Len(line) + 1, meant, "wrong")
    BY <1>1, <1>2, <1>4, <2>1, <2>2, AfterQuoted
  <2> QED
    BY <2>3, WrongOctetIInv
<1> QED
  BY <1>2, <1>3, <1>4

LEMMA DisputedIInv ==
  ASSUME IInv, NEW c \in Broken, Disputed(c)
  PROVE  IInv'
<1>1. /\ c \in Octet /\ c # NEWLINE /\ meant' = meant /\ Write(<<c>>, "disputed")
      /\ place \in {"between", "word", "quoted", "digits"}
  BY AnyLineAssumption DEF AnyLineAssumption, Disputed, IInv, Place
<1>2. \/ c \notin SPACE .. DEL - 1 /\ c # TAB
      \/ c = CONTINUE /\ place = "word"
  BY DEF Disputed, SPACE, DEL, TAB
<1> QED
  BY <1>1, <1>2, OctetRefused

LEMMA WrongIInv ==
  ASSUME IInv, NEW c \in Broken, Wrong(c)
  PROVE  IInv'
<1>1. /\ c \in Octet /\ c # NEWLINE /\ meant' = meant
      /\ place \in {"between", "word", "quoted", "digits"}
      /\ line \in Octets /\ Len(line) \in Nat /\ meant \in Words
      /\ Follows(Lexed(line), Len(line), meant, place)
  BY AnyLineAssumption DEF AnyLineAssumption, Wrong, IInv, Place, Octets
<1>2. CASE c < SPACE /\ c # TAB /\ Write(<<c>>, "wrong")
  <2>1. c \notin SPACE .. DEL - 1 /\ c # TAB
    BY <1>1, <1>2 DEF SPACE, DEL, Octet
  <2> QED
    BY <1>1, <1>2, <2>1, OctetRefused
<1>3. CASE c \in {TAB, DEL} /\ InQuotes /\ Write(<<c>>, "wrong")
  <2>1. (c \notin SPACE .. DEL - 1 /\ c # TAB) \/ (c = TAB /\ InQuotes)
    BY <1>3 DEF DEL, SPACE, TAB
  <2> QED
    BY <1>1, <1>3, <2>1, OctetRefused
<1>5. CASE c = CONTINUE /\ place = "between" /\ Write(<<c, SPACE>>, "wrong")
  <2> DEFINE s == Lexed(line)
             q == LexOctet(s, c)
             r == LexOctet(q, SPACE)
  <2>1. s \in LexState /\ s.used = Len(line) /\ s.mode = "between"
    BY <1>1, <1>5 DEF Follows
  <2> HIDE DEF s
  <2>2. q \in LexState /\ q.used = Len(line) + 1 /\ UnquotedStep(s, q, c)
    BY <1>1, <2>1, LexOneOctet DEF LexStep
  <2> HIDE DEF q
  <2>3. q.mode = "continue"
    BY <1>5, <2>1, <2>2 DEF UnquotedStep
  <2>4. r \in LexState /\ r.used = (Len(line) + 1) + 1 /\ ContinueStep(q, r, SPACE)
    BY <1>1, <2>2, <2>3, NotHere, LexOneOctet DEF LexStep
  <2> HIDE DEF r
  <2>5. r.mode = "skipping" /\ r.used = Len(line) + 2
    BY <1>1, <2>4 DEF ContinueStep, Refused, SPACE, NEWLINE
  <2>6. r = LexOctet(LexOctet(Lexed(line), c), SPACE)
    BY DEF r, q, s
  <2> QED
    BY <1>1, <1>5, <2>4, <2>5, <2>6, NotHere, WrongPairIInv
<1>6. CASE /\ InQuotes
           /\ c \notin LowerHex \cup {e[1] : e \in Named}
           /\ Write(<<ESCAPE, c>>, "wrong")
  <2> DEFINE r == LexOctet(LexOctet(Lexed(line), ESCAPE), c)
  <2>1. PICK at \in {"quoted", "digits"} : at = place
    BY <1>6 DEF InQuotes
  <2>2. /\ r \in LexState /\ r.used = Len(line) + 2
        /\ EscapeStep([words |-> meant], r, c)
    BY <1>1, <2>1, AfterEscape
  <2>3. c \notin LowerHex \cup {QUOTE, ESCAPE, LowerN, LowerT, Underscore}
    <3>1. \A letter \in {QUOTE, ESCAPE, LowerN, LowerT, Underscore} :
            \E e \in Named : e[1] = letter
      BY DEF Named
    <3> QED
      BY <1>6, <3>1
  <2> HIDE DEF r
  <2>4. r.mode = "skipping"
    BY <1>1, <2>2, <2>3 DEF EscapeStep, Refused
  <2>5. r = LexOctet(LexOctet(Lexed(line), ESCAPE), c)
    BY DEF r
  <2> QED
    BY <1>1, <1>6, <2>2, <2>4, <2>5, NotHere, WrongPairIInv
<1> QED
  BY <1>2, <1>3, <1>5, <1>6 DEF Wrong

LEMMA JunkIInv ==
  ASSUME IInv, NEW c \in Broken \cup {SPACE, QUOTE}, Junk(c)
  PROVE  IInv'
<1>1. PICK bad \in {"wrong", "disputed"} : bad = place
  BY DEF Junk
<1>2. /\ c \in Octet /\ c # NEWLINE /\ meant' = meant /\ Write(<<c>>, bad)
  BY <1>1, AnyLineAssumption, NotHere DEF AnyLineAssumption, Junk, SPACE, QUOTE, NEWLINE
<1>3. /\ Lexed(line) \in LexState /\ Lexed(line).used = Len(line)
      /\ Lexed(line).mode = "skipping"
  BY <1>1 DEF IInv, Follows
<1>4. /\ LexOctet(Lexed(line), c) \in LexState /\ LexOctet(Lexed(line), c).used = Len(line) + 1
      /\ Refused(LexOctet(Lexed(line), c), c)
  BY <1>2, <1>3, LexOneOctet DEF LexStep
<1>5. Follows(LexOctet(Lexed(line), c), Len(line) + 1, meant, "wrong")
  BY <1>2, <1>4 DEF Follows, Refused
<1> QED
  BY <1>2, <1>5, WrongOctetIInv

LEMMA NextIInv ==
  ASSUME IInv, [Next]_vars
  PROVE  IInv'
<1>1. CASE UNCHANGED vars
  BY <1>1 DEF vars, IInv, EndsWell
<1>2. CASE Next
  BY <1>2, BlankIInv, PlainOctetIInv, OpenQuoteIInv, CloseQuoteIInv, QuotedOctetIInv,
     NamedEscapeIInv, OneDigitIInv, TwoDigitsIInv, WrongIInv, DisputedIInv, JunkIInv DEF Next
<1> QED
  BY <1>1, <1>2

\* Wherever in its line the peer is, Lex is there too: in the same place of the
\* grammar, with the same words, having looked at every octet (buffer.cc:235-362).
THEOREM LexFollows == Spec => []IInv
<1>1. Init => IInv
  BY InitIInv
<1>2. IInv /\ [Next]_vars => IInv'
  BY NextIInv
<1> QED
  BY <1>1, <1>2, PTL DEF Spec

-----------------------------------------------------------------------------
(* The line in its block.                                                  *)

\* A newline ends the line, whatever came before it, and nothing comes after.
LEMMA NewlineEnds ==
  ASSUME NEW s \in LexState
  PROVE  Ended(LexOctet(s, NEWLINE))
<1> DEFINE r == LexOctet(s, NEWLINE)
<1>1. NEWLINE \in Octet /\ NEWLINE \notin SPACE .. DEL - 1 /\ NEWLINE \notin LowerHex
      /\ NEWLINE \notin {QUOTE, ESCAPE, LowerN, LowerT, Underscore}
  BY DEF NEWLINE, Octet, SPACE, DEL, LowerHex, Digits, QUOTE, ESCAPE, LowerN, LowerT, Underscore
<1>2. r \in LexState /\ LexStep(s, r, NEWLINE)
  BY <1>1, LexOneOctet
<1> HIDE DEF r
<1>3. r.mode \in {"lexed", "malformed"}
  <2>1. CASE s.mode \in {"lexed", "malformed"}
    BY <1>2, <2>1 DEF LexStep
  <2>2. CASE s.mode \in {"between", "word"}
    BY <1>2, <2>2 DEF LexStep, UnquotedStep
  <2>3. CASE s.mode = "quoted"
    BY <1>1, <1>2, <2>3 DEF LexStep, QuotedStep, Refused
  <2>4. CASE s.mode = "escape"
    BY <1>1, <1>2, <2>4 DEF LexStep, EscapeStep, Refused
  <2>5. CASE s.mode = "digits"
    BY <1>1, <1>2, <2>5 DEF LexStep, DigitsStep, QuotedStep, Refused
  <2>6. CASE s.mode = "continue"
    BY <1>2, <2>6 DEF LexStep, ContinueStep
  <2>7. CASE s.mode = "skipping"
    BY <1>2, <2>7 DEF LexStep, Refused
  <2> QED
    BY <2>1, <2>2, <2>3, <2>4, <2>5, <2>6, <2>7 DEF LexState, LexMode
<1> QED
  BY <1>3 DEF Ended, r

LEMMA EndedStays ==
  ASSUME NEW s, NEW c, Ended(s)
  PROVE  LexOctet(s, c) = s
BY DEF LexOctet

\* Lex does not look beyond a newline.
LEMMA NoNewlineYet ==
  ASSUME NEW octets \in Octets, ~Ended(Lexed(octets))
  PROVE  \A i \in 1 .. Len(octets) : octets[i] # NEWLINE
<1> SUFFICES ASSUME NEW i \in 1 .. Len(octets), octets[i] = NEWLINE PROVE FALSE
  OBVIOUS
<1> DEFINE n == Len(octets)
           f == LexStates(octets)
           T == {j \in 0 .. n - i : Ended(f[i + j])}
<1>1. n \in Nat /\ i \in 1 .. n
  BY DEF Octets
<1>2. /\ f \in [0 .. n -> LexState]
      /\ \A j \in 1 .. n : f[j] = LexOctet(f[j - 1], octets[j])
  BY LexRun
<1>3. ~Ended(f[n])
  BY DEF Lexed
<1> HIDE DEF n, f
<1>4. 0 \in T
  <2>1. f[i - 1] \in LexState /\ f[i] = LexOctet(f[i - 1], NEWLINE)
    BY <1>1, <1>2
  <2> QED
    BY <1>1, <2>1, NewlineEnds
<1>5. \A j \in 0 .. (n - i) - 1 : j \in T => j + 1 \in T
  <2> SUFFICES ASSUME NEW j \in 0 .. (n - i) - 1, Ended(f[i + j])
               PROVE  j + 1 \in 0 .. n - i /\ Ended(f[i + (j + 1)])
    OBVIOUS
  <2>1. i + (j + 1) \in 1 .. n /\ (i + (j + 1)) - 1 = i + j /\ j + 1 \in 0 .. n - i
    BY <1>1
  <2>2. f[i + (j + 1)] = f[i + j]
    BY <1>2, <2>1, EndedStays
  <2> QED
    BY <2>1, <2>2
<1>6. n - i \in Nat
  BY <1>1
<1> HIDE DEF T
<1>7. 0 .. n - i \subseteq T
  BY <1>4, <1>5, <1>6, UpTo
<1>8. n - i \in T /\ i + (n - i) = n
  BY <1>1, <1>6, <1>7
<1> QED
  BY <1>3, <1>8 DEF T

LEMMA WholeLine ==
  ASSUME line \in Octets, NEW more \in BOOLEAN
  PROVE  /\ Whole(more) \in Octets
         /\ more => Whole(more) = line \o <<SPACE, CONTINUE>>
         /\ ~more => Whole(more) = line
<1>1. CASE more
  <2>1. Whole(more) = line \o <<SPACE, CONTINUE>>
    BY <1>1 DEF Whole
  <2> QED
    BY <1>1, <2>1, NotHere, LexedTwo
<1>2. CASE ~more
  <2>1. Whole(more) = line
    BY <1>2 DEF Whole, Octets
  <2> QED
    BY <1>2, <2>1
<1> QED
  BY <1>1, <1>2

LEMMA BlockOctets ==
  ASSUME line \in Octets, NEW more \in BOOLEAN
  PROVE  LET whole == Whole(more)
             data  == BlockWith(more).data
         IN  /\ data \in Octets
             /\ more => data = (whole \o <<NEWLINE>>) \o <<98, NEWLINE>>
             /\ ~more => data = whole \o <<NEWLINE>>
             /\ Len(whole) \in Nat
             /\ Len(data) = IF more THEN Len(whole) + 3 ELSE Len(whole) + 1
             /\ \A i \in 1 .. Len(whole) : data[i] = whole[i]
             /\ data[Len(whole) + 1] = NEWLINE
             /\ more => data[Len(whole) + 2] = 98 /\ data[Len(whole) + 3] = NEWLINE
<1>1. PICK whole \in Octets : whole = Whole(more)
  BY WholeLine
<1>2. PICK data : data = BlockWith(more).data
  OBVIOUS
<1>3. NEWLINE \in Octet /\ 98 \in Octet
  BY DEF NEWLINE, Octet
<1>4. Len(whole) \in Nat
  BY DEF Octets
<1>5. PICK ended : ended = whole \o <<NEWLINE>>
  OBVIOUS
<1>6. /\ ended \in Octets /\ Len(ended) = Len(whole) + 1
      /\ \A i \in 1 .. Len(whole) : ended[i] = whole[i]
      /\ ended[Len(whole) + 1] = NEWLINE
  BY <1>3, <1>5 DEF Octets
<1>7. CASE ~more
  <2>1. data = ended \o <<>>
    BY <1>1, <1>2, <1>5, <1>7 DEF BlockWith
  <2>2. data = ended
    BY <1>6, <2>1 DEF Octets
  <2> QED
    BY <1>1, <1>2, <1>4, <1>5, <1>6, <1>7, <2>2
<1>8. CASE more
  <2>1. data = ended \o (<<98>> \o <<NEWLINE>>)
    BY <1>1, <1>2, <1>5, <1>8 DEF BlockWith, LineBehind
  <2>2. <<98>> \o <<NEWLINE>> = <<98, NEWLINE>>
    BY <1>3, PairOfOctets
  <2>3. data = ended \o <<98, NEWLINE>>
    BY <2>1, <2>2
  <2>4. /\ data \in Octets /\ Len(data) = Len(ended) + 2
        /\ \A i \in 1 .. Len(ended) : data[i] = ended[i]
        /\ data[Len(ended) + 1] = 98 /\ data[Len(ended) + 2] = NEWLINE
    BY <1>3, <1>6, <2>3 DEF Octets
  <2>5. /\ \A i \in 1 .. Len(whole) : data[i] = whole[i]
        /\ data[Len(whole) + 1] = NEWLINE
        /\ data[Len(whole) + 2] = 98 /\ data[Len(whole) + 3] = NEWLINE
        /\ Len(data) = Len(whole) + 3
    BY <1>4, <1>6, <2>4
  <2> QED
    BY <1>1, <1>2, <1>4, <1>5, <1>8, <2>3, <2>4, <2>5, ZenonT(60)
<1> QED
  BY <1>7, <1>8

LEMMA ReadIInv == IInv => ReadAndLexAgree
<1> SUFFICES ASSUME IInv, WellFormed, NEW more \in BOOLEAN
             PROVE  EndsBlock(BlockWith(more).data, Len(Whole(more)) + 1) <=> ~more
  BY DEF ReadAndLexAgree
<1>1. line \in Octets
  BY DEF IInv
<1>2. PICK whole \in Octets : whole = Whole(more)
  BY <1>1, WholeLine
<1>3. PICK data \in Octets : data = BlockWith(more).data
  BY <1>1, BlockOctets
<1>4. /\ Len(whole) \in Nat /\ data[Len(whole) + 1] = NEWLINE
      /\ \A i \in 1 .. Len(whole) : data[i] = whole[i]
  BY <1>1, <1>2, <1>3, BlockOctets
<1>5. CASE more
  <2>1. whole = line \o <<SPACE, CONTINUE>>
    BY <1>1, <1>2, <1>5, WholeLine
  <2>2. Len(whole) > 0 /\ whole[Len(whole)] = CONTINUE
    BY <1>1, <2>1 DEF Octets
  <2>3. data[Len(whole)] = CONTINUE /\ (Len(whole) + 1) - 1 = Len(whole) /\ Len(whole) + 1 # 1
    BY <1>4, <2>2
  <2> QED
    BY <1>2, <1>3, <1>5, <2>3 DEF EndsBlock
<1>6. CASE ~more
  <2>1. whole = line
    BY <1>1, <1>2, <1>6, WholeLine
  <2>2. line = <<>> \/ line[Len(line)] # CONTINUE
    BY DEF IInv, EndsWell, WellFormed, SPACE, TAB, CONTINUE
  <2>3. Len(line) = 0 \/ (Len(line) \in 1 .. Len(line) /\ line[Len(line)] # CONTINUE)
    BY <1>1, <2>2 DEF Octets
  <2> QED
    BY <1>2, <1>3, <1>4, <1>6, <2>1, <2>3 DEF EndsBlock
<1> QED
  BY <1>5, <1>6

\* Read, which looks at the one octet before a newline, and Lex agree about
\* which newlines end a block (README.md:74-77, buffer.cc:82-106).
THEOREM ReadAgrees == Spec => []ReadAndLexAgree
BY LexFollows, ReadIInv, PTL

-----------------------------------------------------------------------------
(* What Lex makes of the line.                                             *)

LEMMA QuotedMore ==
  ASSUME NEW s, NEW n \in Nat, NEW words \in Words, Follows(s, n, words, "quoted"),
         NEW c \in {SPACE, CONTINUE}
  PROVE  Extend(words, c) \in Words /\ Follows(LexOctet(s, c), n + 1, Extend(words, c), "quoted")
<1>1. c \in Octet /\ c \in (SPACE .. DEL - 1) \ {QUOTE, ESCAPE}
  BY DEF SPACE, CONTINUE, DEL, QUOTE, ESCAPE, Octet
<1>2. Follows(LexOctet(s, c), n + 1, Extend(words, c), "quoted")
  BY <1>1, AfterQuoted
<1> QED
  BY <1>1, <1>2, ExtendWords

\* After the line and the continuation, where Lex is; n octets have been used.
AtEnd(s, n) ==
  /\ s \in LexState /\ s.used = n
  /\ WellFormed => s.mode \in {"between", "word", "continue"} /\ s.words = meant
  /\ ~WellFormed => s.mode \in {"quoted", "digits", "skipping"}

LEMMA LexWhole ==
  ASSUME IInv, NEW more \in BOOLEAN
  PROVE  AtEnd(Lexed(Whole(more)), Len(Whole(more)))
<1>1. /\ line \in Octets /\ Len(line) \in Nat /\ meant \in Words /\ place \in Place
      /\ Follows(Lexed(line), Len(line), meant, place)
  BY DEF IInv, Octets
<1>2. CASE ~more
  <2>1. Whole(more) = line
    BY <1>1, <1>2, WholeLine
  <2>2. AtEnd(Lexed(line), Len(line))
    BY <1>1 DEF AtEnd, Follows, Place, WellFormed
  <2> QED
    BY <2>1, <2>2
<1>3. CASE more
  <2> DEFINE s == Lexed(line)
             q == LexOctet(s, SPACE)
             r == LexOctet(q, CONTINUE)
             n == Len(line)
  <2>1. Whole(more) = line \o <<SPACE, CONTINUE>>
    BY <1>1, <1>3, WholeLine
  <2>2. Lexed(line \o <<SPACE, CONTINUE>>) = r
    BY <1>1, NotHere, LexedTwo
  <2>3. Len(line \o <<SPACE, CONTINUE>>) = n + 2
    BY <1>1 DEF Octets
  <2>4. n \in Nat /\ s \in LexState /\ s.used = n /\ Follows(s, n, meant, place)
    BY <1>1 DEF Follows
  <2> HIDE DEF s, n
  <2>5. CASE place \in {"between", "word"}
    <3>1. PICK at \in {"between", "word"} : at = place
      BY <2>5
    <3>2. Follows(q, n + 1, meant, "between")
      BY <1>1, <2>4, <3>1, NotHere, AfterUnquoted
    <3> HIDE DEF q
    <3>3. q \in LexState /\ q.used = n + 1 /\ q.mode = "between" /\ q.words = meant
      BY <3>2 DEF Follows
    <3>4. r \in LexState /\ r.used = (n + 1) + 1 /\ UnquotedStep(q, r, CONTINUE)
      BY <3>3, NotHere, LexOneOctet DEF LexStep
    <3> HIDE DEF r
    <3>5. r.mode = "continue" /\ r.words = meant
      BY <3>3, <3>4 DEF UnquotedStep
    <3>6. AtEnd(r, n + 2)
      BY <2>4, <2>5, <3>4, <3>5 DEF AtEnd, WellFormed
    <3> QED
      BY <2>1, <2>2, <2>3, <3>6
  <2>6. CASE place \in {"quoted", "digits"}
    <3>1. PICK at \in {"quoted", "digits"} : at = place
      BY <2>6
    <3>2. SPACE \in (SPACE .. DEL - 1) \ {QUOTE, ESCAPE} /\ SPACE \notin LowerHex
      BY DEF SPACE, DEL, QUOTE, ESCAPE, LowerHex, Digits
    <3>3. Follows(q, n + 1, Extend(meant, SPACE), "quoted")
      <4>1. meant \in Words /\ Follows(s, n, meant, at) /\ SPACE \in Octet
        BY <1>1, <2>4, <3>1, NotHere
      <4> QED
        BY <2>4, <3>2, <4>1, AfterQuoted
    <3>4. Extend(meant, SPACE) \in Words
      BY <1>1, NotHere, ExtendWords
    <3> HIDE DEF q
    <3>5. Follows(r, (n + 1) + 1, Extend(Extend(meant, SPACE), CONTINUE), "quoted")
      BY <2>4, <3>3, <3>4, QuotedMore
    <3> HIDE DEF r
    <3>6. AtEnd(r, n + 2)
      BY <2>4, <2>6, <3>5 DEF AtEnd, WellFormed, Follows
    <3> QED
      BY <2>1, <2>2, <2>3, <3>6
  <2>7. CASE place \in {"wrong", "disputed"}
    <3>1. s.mode = "skipping"
      BY <2>4, <2>7 DEF Follows
    <3>2. q \in LexState /\ q.used = n + 1 /\ Refused(q, SPACE)
      BY <2>4, <3>1, NotHere, LexOneOctet DEF LexStep
    <3>3. q.mode = "skipping"
      BY <3>2 DEF Refused, SPACE, NEWLINE
    <3> HIDE DEF q
    <3>4. r \in LexState /\ r.used = (n + 1) + 1 /\ Refused(r, CONTINUE)
      BY <3>2, <3>3, NotHere, LexOneOctet DEF LexStep
    <3> HIDE DEF r
    <3>5. r.mode = "skipping"
      BY <3>4 DEF Refused, CONTINUE, NEWLINE
    <3>6. AtEnd(r, n + 2)
      BY <2>4, <2>7, <3>4, <3>5 DEF AtEnd, WellFormed
    <3> QED
      BY <2>1, <2>2, <2>3, <3>6
  <2> QED
    BY <1>1, <2>5, <2>6, <2>7 DEF Place
<1> QED
  BY <1>2, <1>3

\* The newline ends the line, and what comes behind it is left alone.
LEMMA LexBlock ==
  ASSUME IInv, NEW more \in BOOLEAN
  PROVE  LET s == Lexed(BlockWith(more).data) IN
         /\ s \in LexState
         /\ s.used = Len(Whole(more)) + 1
         /\ WellFormed => s.mode = "lexed" /\ s.words = meant
         /\ ~WellFormed => s.mode = "malformed"
<1>1. NEWLINE \in Octet /\ 98 \in Octet /\ line \in Octets
  BY DEF IInv, NEWLINE, Octet
<1>2. PICK whole \in Octets : whole = Whole(more)
  BY <1>1, WholeLine
<1>3. PICK s : s = Lexed(whole)
  OBVIOUS
<1>4. AtEnd(s, Len(whole)) /\ Len(whole) \in Nat
  BY <1>2, <1>3, LexWhole DEF Octets
<1>5. PICK r : r = LexOctet(s, NEWLINE)
  OBVIOUS
<1>6. r \in LexState /\ LexStep(s, r, NEWLINE)
  BY <1>1, <1>4, <1>5, LexOneOctet DEF AtEnd
<1>7. /\ r.used = Len(whole) + 1
      /\ WellFormed => r.mode = "lexed" /\ r.words = meant
      /\ ~WellFormed => r.mode = "malformed"
  <2>1. CASE WellFormed
    BY <1>4, <1>6, <2>1 DEF AtEnd, LexStep, UnquotedStep, ContinueStep
  <2>2. CASE ~WellFormed
    <3>1. NEWLINE \notin SPACE .. DEL - 1 /\ NEWLINE \notin LowerHex
      BY DEF NEWLINE, SPACE, DEL, LowerHex, Digits
    <3> QED
      BY <1>4, <1>6, <2>2, <3>1 DEF AtEnd, LexStep, QuotedStep, DigitsStep, Refused
  <2> QED
    BY <2>1, <2>2
<1>8. Ended(r)
  BY <1>7 DEF Ended
<1>9. whole \o <<NEWLINE>> \in Octets /\ Lexed(whole \o <<NEWLINE>>) = r
  BY <1>1, <1>3, <1>5, LexedMore
<1>10. Lexed(BlockWith(more).data) = r
  <2>1. CASE more
    <3>1. BlockWith(more).data = (whole \o <<NEWLINE>>) \o <<98, NEWLINE>>
      BY <1>1, <1>2, <2>1, BlockOctets
    <3>2. Lexed((whole \o <<NEWLINE>>) \o <<98, NEWLINE>>) = LexOctet(LexOctet(r, 98), NEWLINE)
      BY <1>1, <1>9, LexedTwo
    <3>3. LexOctet(r, 98) = r /\ LexOctet(r, NEWLINE) = r
      BY <1>8, EndedStays
    <3> QED
      BY <3>1, <3>2, <3>3
  <2>2. CASE ~more
    <3>1. BlockWith(more).data = whole \o <<NEWLINE>>
      BY <1>1, <1>2, <2>2, BlockOctets
    <3> QED
      BY <1>9, <3>1
  <2> QED
    BY <2>1, <2>2
<1> QED
  BY <1>2, <1>6, <1>7, <1>10

\* The line that the test of the block has behind it.
LEMMA LexLineBehind ==
  LET s == Lexed(<<98, NEWLINE>>) IN
  s \in LexState /\ s.mode = "lexed" /\ s.words = <<LineBehind>> /\ s.used = 2
<1> DEFINE q == LexOctet(Lexing, 98)
           r == LexOctet(q, NEWLINE)
<1>1. 98 \in Octet /\ NEWLINE \in Octet /\ 98 \in (SPACE + 1 .. DEL - 1) \ {QUOTE, CONTINUE}
  BY DEF NEWLINE, Octet, SPACE, DEL, QUOTE, CONTINUE
<1>2. Lexed(<<98, NEWLINE>>) = r
  <2>1. <<>> \in Octets /\ <<>> \o <<98, NEWLINE>> = <<98, NEWLINE>>
    BY <1>1 DEF Octets
  <2>2. Lexed(<<>> \o <<98, NEWLINE>>) = LexOctet(LexOctet(Lexed(<<>>), 98), NEWLINE)
    BY <1>1, <2>1, LexedTwo, ZenonT(60)
  <2> QED
    BY <2>1, <2>2, LexedNothing
<1>3. Lexing \in LexState
  BY DEF Lexing, LexState, LexMode, Words, Octets
<1>4. q \in LexState /\ LexStep(Lexing, q, 98)
  BY <1>1, <1>3, LexOneOctet
<1> HIDE DEF q
<1>5. q.used = 1 /\ q.mode = "word" /\ q.words = Extend(Append(<<>>, <<>>), 98)
  BY <1>1, <1>4 DEF LexStep, UnquotedStep, Lexing
<1>6. r \in LexState /\ LexStep(q, r, NEWLINE)
  BY <1>1, <1>4, LexOneOctet
<1> HIDE DEF r
<1>7. r.used = 2 /\ r.mode = "lexed" /\ r.words = q.words
  BY <1>5, <1>6 DEF LexStep, UnquotedStep
<1>8. Extend(Append(<<>>, <<>>), 98) = <<LineBehind>>
  <2> DEFINE begun == Append(<<>>, <<>>)
             l == Extend(begun, 98)
  <2>1. begun \in Words /\ Len(begun) = 1 /\ begun[1] = <<>>
    BY DEF Words, Octets
  <2> HIDE DEF begun
  <2>2. Append(<<>>, 98) = <<98>>
    OBVIOUS
  <2>3. l \in Words /\ Len(l) = 1 /\ l[1] = <<98>>
    <3>1. l = [begun EXCEPT ![1] = <<98>>]
      BY <2>1, <2>2 DEF Extend
    <3>2. l \in Words /\ Len(l) = 1
      BY <1>1, <2>1, ExtendWords
    <3>3. DOMAIN begun = 1 .. 1
      BY <2>1 DEF Words
    <3> QED
      BY <3>1, <3>2, <3>3
  <2> HIDE DEF l
  <2>4. <<LineBehind>> \in Words /\ Len(<<LineBehind>>) = 1 /\ <<LineBehind>>[1] = <<98>>
    BY <1>1 DEF LineBehind, Words, Octets
  <2>5. l = <<LineBehind>>
    BY <2>3, <2>4, SeqEqual DEF Words
  <2> QED
    BY <2>5 DEF l, begun
<1> QED
  BY <1>2, <1>5, <1>6, <1>7, <1>8

\* What Lex returns, and where it leaves the buffer.
Returns(l, data, bol, s) ==
  /\ l.err = IF s.mode = "malformed" THEN "EINVAL"
             ELSE IF s.words = <<>> THEN "ENOENT" ELSE "0"
  /\ l.words = IF s.mode = "malformed"
               THEN <<StripContinuation(SubSeq(data, bol + 1, bol + s.used - 1))>>
               ELSE s.words
  /\ l.buffer = [data |-> data, bol |-> bol + s.used]

LEMMA LexReturns ==
  ASSUME NEW data, NEW bol \in Nat, NEW s, s = Lexed(SubSeq(data, bol + 1, Len(data))),
         NEW l, l = Lex([data |-> data, bol |-> bol])
  PROVE  Returns(l, data, bol, s)
BY DEF Lex, Returns

\* The two lines of a block, and what Lex leaves of it after each.
LEMMA LexBoth ==
  ASSUME IInv, NEW more \in BOOLEAN
  PROVE  LET whole  == Whole(more)
             data   == BlockWith(more).data
             first  == Lex(BlockWith(more))
             second == Lex(first.buffer)
         IN  /\ first.buffer = [data |-> data, bol |-> Len(whole) + 1]
             /\ IF WellFormed
                THEN first.err = (IF meant = <<>> THEN "ENOENT" ELSE "0") /\ first.words = meant
                ELSE first.err = "EINVAL" /\ first.words = <<StripContinuation(whole)>>
             /\ more => /\ second.words = <<LineBehind>>
                        /\ second.buffer = [data |-> data, bol |-> Len(whole) + 3]
<1>1. line \in Octets
  BY DEF IInv
<1>2. PICK whole \in Octets : whole = Whole(more)
  BY <1>1, WholeLine
<1>3. PICK data : data = BlockWith(more).data
  OBVIOUS
<1>4. /\ data \in Octets /\ Len(whole) \in Nat
      /\ Len(data) = IF more THEN Len(whole) + 3 ELSE Len(whole) + 1
      /\ \A i \in 1 .. Len(whole) : data[i] = whole[i]
      /\ more => data[Len(whole) + 2] = 98 /\ data[Len(whole) + 3] = NEWLINE
  BY <1>1, <1>2, <1>3, BlockOctets
<1>5. BlockWith(more) = [data |-> data, bol |-> 0]
  BY <1>3 DEF BlockWith
<1>6. PICK s : s = Lexed(data)
  OBVIOUS
<1>7. /\ s.used = Len(whole) + 1
      /\ WellFormed => s.mode = "lexed" /\ s.words = meant
      /\ ~WellFormed => s.mode = "malformed"
  BY <1>2, <1>3, <1>6, LexBlock
<1>8. data = SubSeq(data, 0 + 1, Len(data))
  BY <1>4, SubSeqFull DEF Octets
<1>9. SubSeq(data, 0 + 1, 0 + s.used - 1) = whole
  <2>1. SubSeq(data, 1, Len(whole)) = whole
    <3> DEFINE l == SubSeq(data, 1, Len(whole))
    <3>1. l \in Octets /\ Len(l) = Len(whole) /\ \A i \in 1 .. Len(whole) : l[i] = data[i]
      BY <1>4, SubSeqProperties DEF Octets
    <3> HIDE DEF l
    <3>2. l = whole
      BY <1>4, <3>1, SeqEqual DEF Octets
    <3> QED
      BY <3>2 DEF l
  <2>2. 0 + s.used - 1 = Len(whole)
    BY <1>4, <1>7
  <2> QED
    BY <2>1, <2>2
<1>10. PICK first : first = Lex([data |-> data, bol |-> 0])
  OBVIOUS
<1>11. /\ first.err = IF s.mode = "malformed" THEN "EINVAL"
                      ELSE IF s.words = <<>> THEN "ENOENT" ELSE "0"
       /\ first.words = IF s.mode = "malformed" THEN <<StripContinuation(whole)>> ELSE s.words
       /\ first.buffer = [data |-> data, bol |-> 0 + s.used]
  <2>1. s = Lexed(SubSeq(data, 0 + 1, Len(data)))
    BY <1>6, <1>8
  <2>2. Returns(first, data, 0, s)
    BY <1>10, <2>1, LexReturns
  <2> QED
    BY <1>9, <2>2, Zenon DEF Returns
<1>12. first.buffer = [data |-> data, bol |-> Len(whole) + 1]
  BY <1>4, <1>7, <1>11
<1>13. IF WellFormed
       THEN first.err = (IF meant = <<>> THEN "ENOENT" ELSE "0") /\ first.words = meant
       ELSE first.err = "EINVAL" /\ first.words = <<StripContinuation(whole)>>
  BY <1>7, <1>11
<1>14. ASSUME more
       PROVE  /\ Lex(first.buffer).words = <<LineBehind>>
              /\ Lex(first.buffer).buffer = [data |-> data, bol |-> Len(whole) + 3]
  <2> DEFINE bol == Len(whole) + 1
             text == SubSeq(data, bol + 1, Len(data))
  <2>1. text = <<98, NEWLINE>>
    <3>1. Len(data) = bol + 2 /\ bol \in Nat /\ data[bol + 1] = 98 /\ data[bol + 2] = NEWLINE
      BY <1>4, <1>14
    <3> HIDE DEF bol
    <3>2. /\ text \in Octets /\ Len(text) = 2 /\ text[1] = 98 /\ text[2] = NEWLINE
      BY <1>4, <3>1, SubSeqProperties DEF Octets
    <3> HIDE DEF text
    <3>3. <<98, NEWLINE>> \in Octets
      BY DEF Octets, Octet, NEWLINE
    <3> QED
      BY <3>2, <3>3, SeqEqual DEF Octets
  <2>2. PICK t : t = Lexed(text)
    OBVIOUS
  <2>3. t.mode = "lexed" /\ t.words = <<LineBehind>> /\ t.used = 2
    BY <2>1, <2>2, LexLineBehind
  <2> HIDE DEF text
  <2>4. bol \in Nat /\ bol + 2 = Len(whole) + 3 /\ first.buffer = [data |-> data, bol |-> bol]
    BY <1>4, <1>12
  <2> HIDE DEF bol
  <2>5. PICK second : second = Lex([data |-> data, bol |-> bol])
    OBVIOUS
  <2>6. /\ second.words = IF t.mode = "malformed"
                          THEN <<StripContinuation(SubSeq(data, bol + 1, bol + t.used - 1))>>
                          ELSE t.words
        /\ second.buffer = [data |-> data, bol |-> bol + t.used]
    <3>1. text = SubSeq(data, bol + 1, Len(data))
      BY DEF text
    <3>2. t = Lexed(SubSeq(data, bol + 1, Len(data)))
      BY <2>2, <3>1
    <3> QED
      BY <2>2, <2>4, <2>5, <3>1, <3>2, LexReturns DEF Returns
  <2> QED
    BY <2>3, <2>4, <2>5, <2>6
<1> QED
  BY <1>2, <1>3, <1>5, <1>10, <1>12, <1>13, <1>14, Zenon

LEMMA DecodesIInv == IInv => LexDecodes
<1> SUFFICES ASSUME IInv, NEW more \in BOOLEAN, NEW l, l = Lex(BlockWith(more))
    PROVE /\ l.buffer.bol = Len(Whole(more)) + 1
          /\ WellFormed => l.err = (IF meant = <<>> THEN "ENOENT" ELSE "0") /\ l.words = meant
          /\ place \in {"wrong", "quoted", "digits"} => l.err = "EINVAL"
          /\ l.err = "EINVAL" => l.words = <<StripContinuation(Whole(more))>>
          /\ more => Lex(l.buffer).words = <<LineBehind>>
  BY Zenon DEF LexDecodes
<1>1. /\ l.buffer = [data |-> BlockWith(more).data, bol |-> Len(Whole(more)) + 1]
      /\ IF WellFormed
         THEN l.err = (IF meant = <<>> THEN "ENOENT" ELSE "0") /\ l.words = meant
         ELSE l.err = "EINVAL" /\ l.words = <<StripContinuation(Whole(more))>>
      /\ more => Lex(l.buffer).words = <<LineBehind>>
  BY LexBoth, Zenon
<1>2. l.buffer.bol = Len(Whole(more)) + 1
  BY <1>1
<1>3. place \in {"wrong", "quoted", "digits"} => ~WellFormed
  BY DEF WellFormed
<1>4. WellFormed => l.err # "EINVAL"
  <2>1. WellFormed => l.err \in {"ENOENT", "0"}
    BY <1>1, Zenon
  <2> QED
    BY <2>1
<1> QED
  BY <1>1, <1>2, <1>3, <1>4, Zenon

\* A line yields the words it means, however they are encoded, or EINVAL and
\* itself, and the next line is lexed as ever (README.md:79-102, buffer.cc:235-362).
THEOREM LexDecodesLines == Spec => []LexDecodes
BY LexFollows, DecodesIInv, PTL

-----------------------------------------------------------------------------
(* The line that was lexed.                                                *)

LEMMA LineStartIs ==
  ASSUME NEW d, NEW bol \in Nat, NEW start \in 0 .. bol - 1,
         start = 0 \/ d[start] = NEWLINE,
         \A j \in start + 1 .. bol - 1 : d[j] # NEWLINE
  PROVE  LineStart(d, bol) = start
<1> DEFINE Starts(i) == /\ i = 0 \/ d[i] = NEWLINE
                        /\ \A j \in i + 1 .. bol - 1 : d[j] # NEWLINE
<1>1. Starts(start)
  OBVIOUS
<1>2. ASSUME NEW i \in 0 .. bol - 1, Starts(i)
      PROVE  i = start
  <2>1. CASE i < start
    <3>1. start \in i + 1 .. bol - 1 /\ start # 0
      BY <2>1
    <3> QED
      BY <1>2, <3>1
  <2>2. CASE start < i
    <3>1. i \in start + 1 .. bol - 1 /\ i # 0
      BY <2>2
    <3> QED
      BY <1>2, <3>1
  <2> QED
    BY <2>1, <2>2
<1>3. LineStart(d, bol) = CHOOSE i \in 0 .. bol - 1 : Starts(i)
  BY DEF LineStart
<1> HIDE DEF Starts
<1> QED
  BY <1>1, <1>2, <1>3

LEMMA Continued ==
  ASSUME NEW text \in Octets
  PROVE  IsSuffix(<<SPACE, CONTINUE>>, text)
           <=> /\ Len(text) >= 2
               /\ text[Len(text) - 1] = SPACE /\ text[Len(text)] = CONTINUE
<1> DEFINE s == Reverse(<<SPACE, CONTINUE>>)
           t == Reverse(text)
           l == SubSeq(s, 1, 2)
           r == SubSeq(t, 1, 2)
<1>1. Len(text) \in Nat /\ \A i \in 1 .. Len(text) : text[i] \in Octet
  BY DEF Octets
<1>2. s \in Octets /\ Len(s) = 2 /\ s[1] = CONTINUE /\ s[2] = SPACE
  <2>1. s = [i \in 1 .. 2 |-> IF i = 1 THEN CONTINUE ELSE SPACE]
    BY DEF Reverse
  <2> HIDE DEF s
  <2> QED
    BY <2>1, NotHere DEF Octets
<1>3. t \in Octets /\ Len(t) = Len(text) /\ \A i \in 1 .. Len(t) : t[i] = text[(Len(text) - i) + 1]
  BY <1>1 DEF Reverse, Octets
<1> HIDE DEF s, t
<1>4. IsSuffix(<<SPACE, CONTINUE>>, text) <=> 2 <= Len(t) /\ l = r
  BY <1>2 DEF IsSuffix, IsPrefix, s, t
<1>5. CASE Len(text) >= 2
  <2>1. l \in Octets /\ Len(l) = 2 /\ l[1] = CONTINUE /\ l[2] = SPACE
    <3>1. SubSeq(s, 1, Len(s)) = s
      BY <1>2, SubSeqFull DEF Octets
    <3> QED
      BY <1>2, <3>1
  <2>2. r \in Octets /\ Len(r) = 2 /\ r[1] = t[1] /\ r[2] = t[2]
    BY <1>3, <1>5, SubSeqProperties DEF Octets
  <2>3. t[1] = text[Len(text)] /\ t[2] = text[Len(text) - 1]
    BY <1>1, <1>3, <1>5
  <2> HIDE DEF l, r
  <2>4. l = r <=> r[1] = CONTINUE /\ r[2] = SPACE
    <3>1. ASSUME r[1] = CONTINUE, r[2] = SPACE PROVE l = r
      <4>1. \A i \in 1 .. Len(l) : l[i] = r[i]
        BY <2>1, <2>2, <3>1
      <4> QED
        BY <2>1, <2>2, <4>1, SeqEqual DEF Octets
    <3> QED
      BY <2>1, <3>1
  <2> QED
    BY <1>3, <1>4, <1>5, <2>2, <2>3, <2>4
<1>6. CASE ~(Len(text) >= 2)
  BY <1>1, <1>3, <1>4, <1>6
<1> QED
  BY <1>5, <1>6

\* The line of n octets that starts behind "start" is text.
LineIs(data, start, n, text) ==
  /\ start + n + 1 <= Len(data)
  /\ start = 0 \/ (start > 0 /\ data[start] = NEWLINE)
  /\ start = LineStart(data, start + n + 1)
  /\ Len(text) = n
  /\ \A i \in 1 .. n : text[i] = data[start + i]

\* LexedLine looks at octets before the buffer only if the line is blank, and
\* there is no " ;" there.
Harmless(start, n, a, b) ==
  /\ a \in {0, SPACE} /\ b \in {0, CONTINUE}
  /\ n > 0 \/ (start = 0 /\ (a = 0 \/ b = 0))

Gives(data, start, n, a, b, text) ==
  LexedLine([data |-> data, bol |-> start + n + 1], <<a, b>>) = StripContinuation(text)

LEMMA LexedLineIs ==
  ASSUME NEW data \in Octets, NEW start \in Nat, NEW n \in Nat, NEW text \in Octets,
         LineIs(data, start, n, text), NEW a, NEW b, Harmless(start, n, a, b)
  PROVE  Gives(data, start, n, a, b, text)
<1> USE DEF LineIs
<1> DEFINE bol == start + n + 1
           d == <<a, b>> \o data
           strip == IF d[bol + 1] = CONTINUE /\ d[bol] = SPACE THEN 2 ELSE 0
<1>1. a \in Octet /\ b \in Octet /\ b \in {0, CONTINUE}
  BY NotHere DEF Octet, Harmless
<1>2. d[1] = a /\ d[2] = b /\ \A i \in 1 .. Len(data) : d[i + 2] = data[i]
  BY <1>1 DEF Octets
<1> HIDE DEF d
<1>3. n > 0 => d[bol + 1] = text[n]
  <2> SUFFICES ASSUME n > 0 PROVE d[bol + 1] = text[n]
    OBVIOUS
  <2>1. start + n \in 1 .. Len(data) /\ (start + n) + 2 = bol + 1
    OBVIOUS
  <2>2. n \in 1 .. n
    OBVIOUS
  <2> QED
    BY <1>2, <2>1, <2>2
<1>4. n > 0 => IF n >= 2 THEN d[bol] = text[n - 1] ELSE d[bol] # SPACE
  <2> SUFFICES ASSUME n > 0 PROVE IF n >= 2 THEN d[bol] = text[n - 1] ELSE d[bol] # SPACE
    OBVIOUS
  <2>1. CASE n >= 2
    <3>1. start + (n - 1) \in 1 .. Len(data) /\ (start + (n - 1)) + 2 = bol /\ n - 1 \in 1 .. n
      BY <2>1
    <3> QED
      BY <1>2, <2>1, <3>1
  <2>2. CASE n < 2 /\ start > 0
    <3>1. start \in 1 .. Len(data) /\ start + 2 = bol /\ data[start] = NEWLINE
      BY <2>2
    <3> QED
      BY <1>2, <2>2, <3>1 DEF NEWLINE, SPACE
  <2>3. CASE n < 2 /\ start = 0
    <3>1. bol = 2
      BY <2>3
    <3> QED
      BY <1>1, <1>2, <2>3, <3>1 DEF CONTINUE, SPACE
  <2> QED
    BY <2>1, <2>2, <2>3
<1>5. strip = 2 <=> IsSuffix(<<SPACE, CONTINUE>>, text)
  <2>1. IsSuffix(<<SPACE, CONTINUE>>, text)
          <=> n >= 2 /\ text[n - 1] = SPACE /\ text[n] = CONTINUE
    BY Continued
  <2>2. CASE n > 0
    BY <1>3, <1>4, <2>1, <2>2
  <2>3. CASE n = 0
    <3>1. bol = 1 /\ (a = 0 \/ b = 0)
      BY <2>3 DEF Harmless
    <3>2. d[2] # CONTINUE \/ d[1] # SPACE
      BY <1>2, <3>1 DEF CONTINUE, SPACE
    <3>3. ~(d[bol + 1] = CONTINUE /\ d[bol] = SPACE)
      BY <3>1, <3>2
    <3> QED
      BY <2>1, <2>3, <3>3
  <2> QED
    BY <2>2, <2>3
<1>6. LexedLine([data |-> data, bol |-> bol], <<a, b>>) =
        IF bol - 1 - strip < start THEN LengthError
        ELSE SubSeq(data, start + 1, bol - 1 - strip)
  <2>1. (bol + 1) - 1 = bol
    OBVIOUS
  <2> QED
    BY <2>1 DEF LexedLine, d
<1>7. strip = 2 => n >= 2
  BY <1>5, Continued
<1>8. strip \in {0, 2}
  OBVIOUS
<1> HIDE DEF strip
<1>9. ASSUME NEW k \in {0, 2}, k <= n
      PROVE  /\ ~(bol - 1 - k < start)
             /\ SubSeq(data, start + 1, bol - 1 - k) = SubSeq(text, 1, n - k)
  <2> DEFINE l == SubSeq(data, start + 1, bol - 1 - k)
             r == SubSeq(text, 1, n - k)
  <2>1. PICK m \in Nat : m = n - k
    BY <1>9
  <2>2. bol - 1 - k = start + m /\ start + m <= Len(data) /\ m <= n
    BY <1>9, <2>1
  <2>3. /\ l \in Octets /\ Len(l) = m
        /\ \A i \in 1 .. m : l[i] = data[(start + 1) + i - 1]
    <3>1. \A i \in start + 1 .. start + m : data[i] \in Octet
      BY <2>2 DEF Octets
    <3>2. start + 1 \in Int /\ start + m \in Int
      OBVIOUS
    <3> QED
      BY <2>2, <3>1, <3>2, SubSeqProperties DEF Octets
  <2>4. r \in Octets /\ Len(r) = m /\ \A i \in 1 .. m : r[i] = text[i]
    <3>1. \A i \in 1 .. m : text[i] \in Octet
      BY <2>2 DEF Octets
    <3> QED
      BY <2>1, <3>1, SubSeqProperties DEF Octets
  <2> HIDE DEF l, r
  <2>5. \A i \in 1 .. m : l[i] = r[i]
    <3>1. \A i \in 1 .. m : (start + 1) + i - 1 = start + i /\ i \in 1 .. n
      BY <2>2
    <3>2. \A i \in 1 .. n : text[i] = data[start + i]
      OBVIOUS
    <3> QED
      BY <2>3, <2>4, <3>1, <3>2
  <2>6. l = r
    BY <2>3, <2>4, <2>5, SeqEqual DEF Octets
  <2>7. ~(bol - 1 - k < start)
    BY <2>2
  <2> QED
    BY <2>6, <2>7 DEF l, r
<1>10. strip <= n
  BY <1>7, <1>8
<1>11. LexedLine([data |-> data, bol |-> bol], <<a, b>>) = SubSeq(text, 1, n - strip)
  BY <1>6, <1>8, <1>9, <1>10
<1>12. CASE strip = 2
  BY <1>5, <1>11, <1>12 DEF StripContinuation, Gives
<1>13. CASE strip = 0
  <2>1. StripContinuation(text) = text
    BY <1>5, <1>13 DEF StripContinuation
  <2>2. n - strip = Len(text)
    BY <1>13
  <2>3. SubSeq(text, 1, Len(text)) = text
    BY SubSeqFull DEF Octets
  <2> QED
    BY <1>11, <2>1, <2>2, <2>3 DEF Gives
<1> QED
  BY <1>8, <1>12, <1>13

LEMMA LexedLineIInv == IInv => LexedLineIsTheLine
<1> SUFFICES ASSUME IInv, NEW more \in BOOLEAN, NEW outside \in {0, SPACE} \X {0, CONTINUE}
    PROVE LET l == Lex(BlockWith(more)) IN
          /\ LexedLine(l.buffer, outside) =
               IF Whole(more) = <<>> /\ outside = <<SPACE, CONTINUE>> THEN LengthError
               ELSE StripContinuation(Whole(more))
          /\ more => LexedLine(Lex(l.buffer).buffer, outside) = LineBehind
  BY Zenon DEF LexedLineIsTheLine
<1>1. PICK whole \in Octets : whole = Whole(more)
  BY WholeLine DEF IInv
<1>2. PICK data : data = BlockWith(more).data
  OBVIOUS
<1>3. PICK n \in Nat : n = Len(whole)
  BY DEF Octets
<1>4. /\ data \in Octets
      /\ Len(data) = IF more THEN n + 3 ELSE n + 1
      /\ \A i \in 1 .. n : data[i] = whole[i]
      /\ data[n + 1] = NEWLINE
      /\ more => data[n + 2] = 98 /\ data[n + 3] = NEWLINE
  BY <1>1, <1>2, <1>3, BlockOctets DEF IInv
<1>5. whole = <<>> <=> n = 0
  BY <1>1, <1>3 DEF Octets
<1>6. PICK a, b : outside = <<a, b>> /\ a \in {0, SPACE} /\ b \in {0, CONTINUE}
  OBVIOUS
<1>7. PICK first : first = Lex(BlockWith(more))
  OBVIOUS
<1>8. /\ first.buffer = [data |-> data, bol |-> n + 1]
      /\ more => Lex(first.buffer).buffer = [data |-> data, bol |-> n + 3]
  BY <1>1, <1>2, <1>3, <1>7, LexBoth
<1>9. ASSUME whole # <<>> \/ outside # <<SPACE, CONTINUE>>
      PROVE  LexedLine(first.buffer, outside) = StripContinuation(whole)
  <2>1. \A i \in 1 .. n : whole[i] # NEWLINE
    <3>1. ~Ended(Lexed(whole))
      BY <1>1, LexWhole DEF AtEnd, Ended
    <3> QED
      BY <1>3, <3>1, NoNewlineYet
  <2>2. LineStart(data, n + 1) = 0
    <3>1. \A j \in 0 + 1 .. (n + 1) - 1 : data[j] # NEWLINE
      BY <1>4, <2>1
    <3>2. 0 \in 0 .. (n + 1) - 1 /\ n + 1 \in Nat
      OBVIOUS
    <3> QED
      BY <3>1, <3>2, LineStartIs
  <2>3. 0 + n + 1 = n + 1 /\ 0 \in Nat
    OBVIOUS
  <2>4. LineIs(data, 0, n, whole)
    BY <1>3, <1>4, <2>2 DEF LineIs
  <2>5. Harmless(0, n, a, b)
    BY <1>5, <1>6, <1>9 DEF Harmless
  <2>6. LexedLine([data |-> data, bol |-> 0 + n + 1], <<a, b>>) = StripContinuation(whole)
    <3>1. data \in Octets /\ 0 \in Nat
      BY <1>4
    <3>2. Gives(data, 0, n, a, b, whole)
      BY <2>4, <2>5, <3>1, LexedLineIs
    <3> QED
      BY <3>2, Zenon DEF Gives
  <2> QED
    BY <1>6, <1>8, <2>3, <2>6
<1>10. ASSUME more
       PROVE  LexedLine(Lex(first.buffer).buffer, outside) = LineBehind
  <2> DEFINE start == n + 1
             bol == start + 1 + 1
  <2>1. bol = n + 3 /\ start \in Nat /\ bol \in Nat /\ bol <= Len(data) /\ start > 0
    BY <1>4, <1>10
  <2>2. LineStart(data, bol) = start
    <3>1. \A j \in start + 1 .. bol - 1 : data[j] # NEWLINE
      BY <1>4, <1>10 DEF NEWLINE
    <3>2. start \in 0 .. bol - 1 /\ data[start] = NEWLINE
      BY <1>4
    <3> QED
      BY <2>1, <3>1, <3>2, LineStartIs
  <2>3. LineBehind \in Octets /\ Len(LineBehind) = 1 /\ LineBehind[1] = 98
    BY DEF LineBehind, Octets, Octet
  <2>4. \A i \in 1 .. 1 : LineBehind[i] = data[start + i]
    BY <1>4, <1>10, <2>3
  <2>5. StripContinuation(LineBehind) = LineBehind
    <3>1. ~(Len(LineBehind) >= 2)
      BY <2>3
    <3>2. ~IsSuffix(<<SPACE, CONTINUE>>, LineBehind)
      BY <2>3, <3>1, Continued, Zenon
    <3> QED
      BY <3>2 DEF StripContinuation
  <2>6. data[start] = NEWLINE
    BY <1>4
  <2>7. 1 \in Nat /\ LineIs(data, start, 1, LineBehind) /\ Harmless(start, 1, a, b)
    BY <1>6, <2>1, <2>2, <2>3, <2>4, <2>6 DEF LineIs, Harmless
  <2> HIDE DEF start
  <2>8. LexedLine([data |-> data, bol |-> bol], <<a, b>>) = StripContinuation(LineBehind)
    <3>1. data \in Octets /\ start \in Nat /\ LineBehind \in Octets
      BY <1>4, <2>1, <2>3
    <3>2. Gives(data, start, 1, a, b, LineBehind)
      BY <2>7, <3>1, LexedLineIs
    <3> QED
      BY <3>2, Zenon DEF Gives
  <2> QED
    BY <1>6, <1>8, <1>10, <2>1, <2>5, <2>8
<1>11. ASSUME whole = <<>>, outside = <<SPACE, CONTINUE>>
       PROVE  LexedLine(first.buffer, outside) = LengthError
  <2>1. n = 0 /\ first.buffer = [data |-> data, bol |-> 1]
    BY <1>5, <1>8, <1>11
  <2>2. LineStart(data, 1) = 0
    BY LineStartIs
  <2>3. (outside \o data)[2] = CONTINUE /\ (outside \o data)[1] = SPACE
    BY <1>4, <1>11 DEF Octets
  <2>4. LexedLine([data |-> data, bol |-> 1], outside) =
          IF 1 - 1 - 2 < 0 THEN LengthError ELSE SubSeq(data, 0 + 1, 1 - 1 - 2)
    <3> DEFINE d == outside \o data
               strip == IF d[1 + 1] = CONTINUE /\ d[(1 + 1) - 1] = SPACE THEN 2 ELSE 0
    <3>1. LexedLine([data |-> data, bol |-> 1], outside) =
            IF 1 - 1 - strip < 0 THEN LengthError ELSE SubSeq(data, 0 + 1, 1 - 1 - strip)
      BY <2>2, Zenon DEF LexedLine
    <3>2. strip = 2
      BY <2>3
    <3> HIDE DEF strip
    <3> QED
      BY <3>1, <3>2
  <2>5. 1 - 1 - 2 < 0
    OBVIOUS
  <2> QED
    BY <2>1, <2>4, <2>5
<1>12. CASE whole = <<>> /\ outside = <<SPACE, CONTINUE>>
  BY <1>1, <1>7, <1>10, <1>11, <1>12, Zenon
<1>13. CASE ~(whole = <<>> /\ outside = <<SPACE, CONTINUE>>)
  BY <1>1, <1>7, <1>9, <1>10, <1>13, Zenon
<1> QED
  BY <1>12, <1>13

\* LexedLine is the line as it was written, without its continuation, whatever
\* lies before the line; but if a " ;" lies before the buffer, a first line that
\* is empty has a negative length for it (cody.hh:142-145, buffer.cc:365-389).
THEOREM LexedLineReturns == Spec => []LexedLineIsTheLine
BY LexFollows, LexedLineIInv, PTL

-----------------------------------------------------------------------------
(* The names of CMIs.                                                      *)

LEMMA NameOctets ==
  ASSUME meant \in Words
  PROVE  Name \in Octets
BY DEF Name, Last, Words, Octets

LEMMA SuffixOctets ==
  ASSUME NEW stem \in Octets
  PROVE  LET path == stem \o CMISuffix IN
         /\ path \in Octets /\ Len(path) = Len(stem) + 4
         /\ \A i \in 1 .. Len(stem) : path[i] = stem[i]
         /\ \A i \in Len(stem) + 1 .. Len(path) : path[i] # DIR_SEPARATOR
         /\ path[Len(path)] # DOT
<1> DEFINE path == stem \o CMISuffix
<1>1. path \in Octets
  <2>1. CMISuffix \in Octets
    BY DEF CMISuffix, DOT, Octets, Octet
  <2> QED
    BY <2>1, ConcatProperties DEF Octets
<1>2. /\ Len(path) = Len(stem) + 4
      /\ \A i \in 1 .. Len(stem) : path[i] = stem[i]
      /\ path[Len(stem) + 1] = DOT /\ path[Len(stem) + 2] = 99
      /\ path[Len(stem) + 3] = 109 /\ path[Len(stem) + 4] = 105
  BY DEF CMISuffix, Octets
<1> HIDE DEF path
<1>3. PICK n \in Nat : n = Len(stem)
  BY DEF Octets
<1>4. \A i \in n + 1 .. n + 4 : i = n + 1 \/ i = n + 2 \/ i = n + 3 \/ i = n + 4
  OBVIOUS
<1>5. \A i \in n + 1 .. n + 4 : path[i] # DIR_SEPARATOR
  BY <1>2, <1>3, <1>4 DEF DOT, DIR_SEPARATOR
<1>6. path[n + 4] # DOT
  BY <1>2, <1>3 DEF DOT
<1> QED
  BY <1>1, <1>2, <1>3, <1>5, <1>6 DEF path

\* The path of a header before its ".." are replaced.
Below(name) ==
  IF IsAbsPath(name) THEN <<DOT>> \o name ELSE <<DOT_REPLACE>> \o Tail(name)

Dots(path) == UNION {{i, i + 1} : i \in DotDots(path)}

LEMMA Relative ==
  ASSUME NEW name \in Octets, IsPrefix(<<DOT, DIR_SEPARATOR>>, name)
  PROVE  Len(name) >= 2 /\ name[1] = DOT /\ name[2] = DIR_SEPARATOR
<1> DEFINE p == <<DOT, DIR_SEPARATOR>>
           l == SubSeq(p, 1, 2)
           r == SubSeq(name, 1, 2)
<1>1. p \in Octets /\ Len(p) = 2 /\ p[1] = DOT /\ p[2] = DIR_SEPARATOR
  BY DEF DOT, DIR_SEPARATOR, Octets, Octet
<1> HIDE DEF p
<1>2. Len(name) >= 2 /\ l = r
  BY <1>1 DEF IsPrefix, p, Octets
<1>3. l = p
  BY <1>1, SubSeqFull DEF Octets
<1>4. r[1] = name[1] /\ r[2] = name[2]
  BY <1>2, SubSeqProperties DEF Octets
<1> QED
  BY <1>1, <1>2, <1>3, <1>4

LEMMA BelowOctets ==
  ASSUME NEW name \in Octets, name # <<>>, IsHeader(name)
  PROVE  LET path == Below(name) IN
         /\ path \in Octets
         /\ Len(path) = IF IsAbsPath(name) THEN Len(name) + 1 ELSE Len(name)
         /\ Len(path) >= 2
         /\ path[1] = IF IsAbsPath(name) THEN DOT ELSE DOT_REPLACE
         /\ path[2] = DIR_SEPARATOR
         /\ IF IsAbsPath(name) THEN \A i \in 1 .. Len(name) : path[i + 1] = name[i]
            ELSE name[1] = DOT /\ \A i \in 2 .. Len(name) : path[i] = name[i]
<1> DEFINE path == Below(name)
<1>1. DOT \in Octet /\ DOT_REPLACE \in Octet /\ Len(name) \in Nat /\ Len(name) >= 1
  BY DEF DOT, DOT_REPLACE, Octet, Octets
<1>2. CASE IsAbsPath(name)
  <2>1. path = <<DOT>> \o name
    BY <1>2 DEF Below
  <2>2. /\ path \in Octets /\ Len(path) = Len(name) + 1 /\ path[1] = DOT
        /\ \A i \in 1 .. Len(name) : path[i + 1] = name[i]
    BY <1>1, <2>1 DEF Octets
  <2> HIDE DEF path
  <2>3. path[1 + 1] = DIR_SEPARATOR
    BY <1>1, <1>2, <2>2 DEF IsAbsPath
  <2> QED
    BY <1>1, <1>2, <2>2, <2>3 DEF path
<1>3. CASE ~IsAbsPath(name)
  <2>1. Len(name) >= 2 /\ name[1] = DOT /\ name[2] = DIR_SEPARATOR
    BY <1>3, Relative DEF IsHeader
  <2>2. PICK t : t = Tail(name)
    OBVIOUS
  <2>3. t \in Octets /\ Len(t) = Len(name) - 1 /\ \A i \in 1 .. Len(name) - 1 : t[i] = name[i + 1]
    BY <2>2, HeadTailProperties DEF Octets
  <2>4. path = <<DOT_REPLACE>> \o t
    BY <1>3, <2>2 DEF Below
  <2>5. /\ path \in Octets /\ Len(path) = Len(t) + 1 /\ path[1] = DOT_REPLACE
        /\ \A i \in 1 .. Len(t) : path[i + 1] = t[i]
    BY <1>1, <2>3, <2>4 DEF Octets
  <2> HIDE DEF path
  <2>6. \A i \in 2 .. Len(name) : path[i] = name[i]
    <3> SUFFICES ASSUME NEW i \in 2 .. Len(name) PROVE path[i] = name[i]
      OBVIOUS
    <3>1. i - 1 \in 1 .. Len(name) - 1 /\ (i - 1) + 1 = i
      BY <1>1
    <3> QED
      BY <2>3, <2>5, <3>1
  <2> QED
    BY <1>1, <1>3, <2>1, <2>3, <2>5, <2>6 DEF path
<1> QED
  BY <1>2, <1>3

LEMMA HeaderPathIs ==
  ASSUME NEW name \in Octets, name # <<>>, IsHeader(name)
  PROVE  LET path == Below(name)
             stem == HeaderPath(name)
         IN  /\ stem \in Octets /\ Len(stem) = Len(path)
             /\ \A i \in 1 .. Len(path) :
                  stem[i] = IF i \in Dots(path) THEN DOT_REPLACE ELSE path[i]
<1>1. PICK path \in Octets : path = Below(name)
  BY BelowOctets
<1>2. HeaderPath(name) =
        [i \in DOMAIN path |-> IF i \in Dots(path) THEN DOT_REPLACE ELSE path[i]]
  BY <1>1 DEF HeaderPath, Below, Dots
<1>3. DOT_REPLACE \in Octet
  BY DEF DOT_REPLACE, Octet
<1> QED
  BY <1>1, <1>2, <1>3 DEF Octets

\* A directory ",," at i, and ".." likewise.
Twice(path, c, i) ==
  /\ 1 < i /\ i + 2 <= Len(path)
  /\ path[i] = c /\ path[i + 1] = c
  /\ path[i - 1] = DIR_SEPARATOR /\ path[i + 2] = DIR_SEPARATOR

LEMMA DirThere ==
  ASSUME NEW path \in Octets, NEW j \in DotDots(path)
  PROVE  j \in 2 .. Len(path) - 2 /\ Twice(path, DOT, j)
<1>1. Len(path) \in Nat
  BY DEF Octets
<1> DEFINE l == SubSeq(path, j - 1, j + 2)
           r == <<DIR_SEPARATOR, DOT, DOT, DIR_SEPARATOR>>
<1>2. j \in 2 .. Len(path) - 2 /\ l = r
  BY DEF DotDots
<1>3. /\ l[1] = path[j - 1] /\ l[2] = path[j]
      /\ l[3] = path[j + 1] /\ l[4] = path[j + 2]
  <2>1. \A k \in j - 1 .. j + 2 : path[k] \in Octet
    BY <1>1, <1>2 DEF Octets
  <2>2. \A k \in 1 .. (j + 2) - (j - 1) + 1 : l[k] = path[(j - 1) + k - 1]
    BY <1>1, <1>2, <2>1, SubSeqProperties
  <2>3. \A k \in 1 .. 4 : k \in 1 .. (j + 2) - (j - 1) + 1
    BY <1>2
  <2>4. /\ (j - 1) + 1 - 1 = j - 1 /\ (j - 1) + 2 - 1 = j
        /\ (j - 1) + 3 - 1 = j + 1 /\ (j - 1) + 4 - 1 = j + 2
    BY <1>2
  <2> HIDE DEF l
  <2> QED
    BY <2>2, <2>3, <2>4
<1>4. r[1] = DIR_SEPARATOR /\ r[2] = DOT /\ r[3] = DOT /\ r[4] = DIR_SEPARATOR
  OBVIOUS
<1> HIDE DEF l, r
<1> QED
  BY <1>1, <1>2, <1>3, <1>4 DEF Twice

LEMMA DirFound ==
  ASSUME NEW path \in Octets, NEW i \in Nat, Twice(path, DOT, i)
  PROVE  i \in DotDots(path)
<1> DEFINE l == SubSeq(path, i - 1, i + 2)
           r == <<DIR_SEPARATOR, DOT, DOT, DIR_SEPARATOR>>
<1>1. Len(path) \in Nat /\ i \in 2 .. Len(path) - 2
  BY DEF Octets, Twice
<1>2. \A k \in i - 1 .. i + 2 : path[k] \in Octet
  BY <1>1 DEF Octets
<1>3. l \in Octets /\ Len(l) = 4 /\ \A k \in 1 .. 4 : l[k] = path[(i - 1) + k - 1]
  <2>1. (i + 2) - (i - 1) + 1 = 4 /\ i - 1 <= i + 2 /\ i - 1 \in Int /\ i + 2 \in Int
    BY <1>1
  <2> QED
    BY <1>2, <2>1, SubSeqProperties DEF Octets
<1>4. /\ r \in Octets /\ Len(r) = 4
      /\ r[1] = DIR_SEPARATOR /\ r[2] = DOT /\ r[3] = DOT /\ r[4] = DIR_SEPARATOR
  BY DEF DIR_SEPARATOR, DOT, Octets, Octet
<1> HIDE DEF l, r
<1>5. \A k \in 1 .. 4 : l[k] = r[k]
  <2>1. /\ (i - 1) + 1 - 1 = i - 1 /\ (i - 1) + 2 - 1 = i
        /\ (i - 1) + 3 - 1 = i + 1 /\ (i - 1) + 4 - 1 = i + 2
    BY <1>1
  <2>2. l[1] = path[i - 1] /\ l[2] = path[i] /\ l[3] = path[i + 1] /\ l[4] = path[i + 2]
    BY <1>3, <2>1
  <2>3. \A k \in 1 .. 4 : k = 1 \/ k = 2 \/ k = 3 \/ k = 4
    OBVIOUS
  <2> QED
    BY <1>4, <2>2, <2>3 DEF Twice
<1>6. l = r
  BY <1>3, <1>4, <1>5, SeqEqual DEF Octets
<1> QED
  BY <1>1, <1>6, ZenonT(60) DEF l, r, DotDots

\* The dots that are replaced.
LEMMA DotsAre ==
  ASSUME NEW path \in Octets, NEW i \in 1 .. Len(path)
  PROVE  i \in Dots(path) <=> Twice(path, DOT, i) \/ Twice(path, DOT, i - 1)
<1>1. Len(path) \in Nat
  BY DEF Octets
<1>2. ASSUME NEW j \in Nat, Twice(path, DOT, j), i \in {j, j + 1}
      PROVE  i \in Dots(path)
  <2>1. j \in DotDots(path)
    BY <1>1, <1>2, DirFound DEF Twice
  <2> QED
    BY <1>2, <2>1 DEF Dots
<1>3. ASSUME NEW j \in DotDots(path)
      PROVE  j \in Nat /\ Twice(path, DOT, j)
  BY <1>1, DirThere DEF Twice, DotDots
<1>4. ASSUME i \in Dots(path)
      PROVE  Twice(path, DOT, i) \/ Twice(path, DOT, i - 1)
  <2>1. PICK j \in DotDots(path) : i \in {j, j + 1}
    BY <1>4 DEF Dots
  <2>2. j \in Nat /\ Twice(path, DOT, j)
    BY <1>3
  <2>3. CASE i = j
    BY <2>2, <2>3
  <2>4. CASE i = j + 1
    <3>1. i - 1 = j
      BY <2>2, <2>4
    <3> QED
      BY <2>2, <3>1
  <2> QED
    BY <2>1, <2>3, <2>4
<1>5. ASSUME Twice(path, DOT, i) PROVE i \in Dots(path)
  <2>1. i \in Nat
    OBVIOUS
  <2> QED
    BY <1>2, <1>5, <2>1
<1>6. ASSUME Twice(path, DOT, i - 1) PROVE i \in Dots(path)
  <2>1. i - 1 \in Nat /\ (i - 1) + 1 = i
    OBVIOUS
  <2> QED
    BY <1>2, <1>6, <2>1
<1> QED
  BY <1>4, <1>5, <1>6

\* Only dots are replaced, the separators around them stay.
LEMMA OnlyDots ==
  ASSUME NEW path \in Octets, NEW i \in Dots(path)
  PROVE  i \in 2 .. Len(path) - 1 /\ path[i] = DOT
<1>1. Len(path) \in Nat
  BY DEF Octets
<1>2. PICK j \in DotDots(path) : i \in {j, j + 1}
  BY DEF Dots
<1>3. j \in 2 .. Len(path) - 2 /\ path[j] = DOT /\ path[j + 1] = DOT
  BY DirThere DEF Twice
<1> QED
  BY <1>1, <1>2, <1>3

LEMMA DotsFound ==
  ASSUME NEW path \in Octets, NEW i \in 2 .. Len(path) - 2,
         path[i - 1] = DIR_SEPARATOR, path[i] = DOT, path[i + 1] = DOT,
         path[i + 2] = DIR_SEPARATOR
  PROVE  i \in Dots(path)
<1>1. Len(path) \in Nat /\ i \in Nat
  BY DEF Octets
<1>2. Twice(path, DOT, i)
  BY <1>1 DEF Twice
<1> QED
  BY <1>1, <1>2, DirFound DEF Dots

LEMMA NoDotDot ==
  ASSUME NEW name \in Octets, name # <<>>, IsHeader(name),
         NEW path, path = GetCMIName(name)
  PROVE  ~IsAbsPath(path) /\ <<DOT, DOT>> \notin Components(path)
<1>1. PICK below \in Octets : below = Below(name)
  BY BelowOctets
<1>2. PICK stem \in Octets : stem = HeaderPath(name)
  BY HeaderPathIs
<1>3. PICK n \in Nat : n = Len(stem)
  BY DEF Octets
<1>4. /\ n = Len(below) /\ n >= 2
      /\ below[1] \in {DOT, DOT_REPLACE} /\ below[2] = DIR_SEPARATOR
      /\ \A i \in 1 .. n : stem[i] = IF i \in Dots(below) THEN DOT_REPLACE ELSE below[i]
  BY <1>1, <1>2, <1>3, BelowOctets, HeaderPathIs
<1>5. path = stem \o CMISuffix
  BY <1>2 DEF GetCMIName
<1>6. /\ path \in Octets /\ Len(path) = n + 4
      /\ \A i \in 1 .. n : path[i] = stem[i]
      /\ \A i \in n + 1 .. Len(path) : path[i] # DIR_SEPARATOR
      /\ path[Len(path)] # DOT
  BY <1>3, <1>5, SuffixOctets
<1>7. ~IsAbsPath(path)
  <2>1. path[1] \in {DOT, DOT_REPLACE}
    BY <1>4, <1>6
  <2> QED
    BY <2>1 DEF IsAbsPath, DOT, DOT_REPLACE, DIR_SEPARATOR
<1>8. ASSUME NEW i \in 1 .. Len(path) + 1, NEW j \in 0 .. Len(path), i <= j + 1,
             i = 1 \/ path[i - 1] = DIR_SEPARATOR,
             j = Len(path) \/ path[j + 1] = DIR_SEPARATOR,
             SubSeq(path, i, j) = <<DOT, DOT>>
      PROVE  FALSE
  <2> DEFINE l == SubSeq(path, i, j)
  <2>1. /\ Len(l) = IF i <= j THEN j - i + 1 ELSE 0
        /\ \A k \in 1 .. j - i + 1 : l[k] = path[i + k - 1]
    <3>1. \A k \in i .. j : path[k] \in Octet
      BY <1>6 DEF Octets
    <3>2. i \in Int /\ j \in Int
      OBVIOUS
    <3> QED
      BY <3>1, <3>2, SubSeqProperties
  <2>2. Len(l) = 2 /\ l[1] = DOT /\ l[2] = DOT
    BY <1>8
  <2> HIDE DEF l
  <2>3. j = i + 1
    <3>1. (IF i <= j THEN j - i + 1 ELSE 0) = 2
      BY <2>1, <2>2, Zenon
    <3>2. i \in Nat /\ j \in Nat
      BY <1>6
    <3> QED
      BY ONLY <3>1, <3>2
  <2>4. path[i] = DOT /\ path[i + 1] = DOT
    BY <2>1, <2>2, <2>3
  <2>5. j # Len(path) /\ path[i + 2] = DIR_SEPARATOR
    BY <1>6, <1>8, <2>3, <2>4
  <2>6. i + 2 <= n
    BY <1>6, <2>3, <2>5
  <2>7. i # 1
    <3>1. stem[2] \in {DIR_SEPARATOR, DOT_REPLACE}
      BY <1>4
    <3>2. path[2] # DOT
      BY <1>4, <1>6, <3>1 DEF DOT, DOT_REPLACE, DIR_SEPARATOR
    <3> QED
      BY <2>4, <3>2
  <2>8. path[i - 1] = DIR_SEPARATOR
    BY <1>8, <2>7
  <2>9. \A k \in 1 .. n : path[k] \in {DOT, DIR_SEPARATOR} => k \notin Dots(below) /\ below[k] = path[k]
    BY <1>4, <1>6 DEF DOT, DOT_REPLACE, DIR_SEPARATOR
  <2>10. /\ i \in 2 .. Len(below) - 2
         /\ i - 1 \in 1 .. n /\ i \in 1 .. n /\ i + 1 \in 1 .. n /\ i + 2 \in 1 .. n
    BY <1>4, <2>6, <2>7
  <2>11. /\ below[i - 1] = DIR_SEPARATOR /\ below[i] = DOT /\ below[i + 1] = DOT
         /\ below[i + 2] = DIR_SEPARATOR /\ i \notin Dots(below)
    BY <2>4, <2>5, <2>8, <2>9, <2>10
  <2> QED
    BY <2>10, <2>11, DotsFound
<1>9. <<DOT, DOT>> \notin Components(path)
  <2> SUFFICES ASSUME <<DOT, DOT>> \in Components(path) PROVE FALSE
    OBVIOUS
  <2>1. PICK p \in (1 .. Len(path) + 1) \X (0 .. Len(path)) :
          /\ p[1] <= p[2] + 1
          /\ p[1] = 1 \/ path[p[1] - 1] = DIR_SEPARATOR
          /\ p[2] = Len(path) \/ path[p[2] + 1] = DIR_SEPARATOR
          /\ SubSeq(path, p[1], p[2]) = <<DOT, DOT>>
    BY DEF Components
  <2>2. PICK i \in 1 .. Len(path) + 1, j \in 0 .. Len(path) : i = p[1] /\ j = p[2]
    OBVIOUS
  <2> QED
    BY <1>8, <2>1, <2>2
<1> QED
  BY <1>7, <1>9

LEMMA InsideIInv == IInv => CMIInsideRepository
<1> SUFFICES ASSUME IInv, Name # <<>>, IsHeader(Name)
             PROVE  ~IsAbsPath(CMIPath) /\ <<DOT, DOT>> \notin Components(CMIPath)
  BY DEF CMIInsideRepository
<1>1. Name \in Octets
  BY NameOctets DEF IInv
<1> QED
  BY <1>1, NoDotDot DEF CMIPath

\* The CMI of a header unit is below the directory it is relative to, whatever
\* dots its name holds (README.md:232-240, resolver.cc:63-107).
THEOREM CMIsInside == Spec => []CMIInsideRepository
BY LexFollows, InsideIInv, PTL

LEMMA NameOfIs ==
  ASSUME NEW stem \in Octets, NEW path, path = stem \o CMISuffix
  PROVE  NameOf(path) =
           IF DIR_SEPARATOR \notin ToSet(stem) THEN Replaced(stem, COLON_REPLACE, COLON)
           ELSE (IF stem[1] = DOT THEN <<>> ELSE <<DOT>>) \o Tail(WithDotDots(stem))
<1>1. /\ path \in Octets /\ Len(path) = Len(stem) + 4
      /\ \A i \in 1 .. Len(stem) : path[i] = stem[i]
  BY SuffixOctets
<1>2. Len(CMISuffix) = 4
  BY DEF CMISuffix
<1>3. PICK n \in Nat : n = Len(stem)
  BY DEF Octets
<1>4. SubSeq(path, 1, n) = stem
  <2> DEFINE l == SubSeq(path, 1, n)
  <2>1. \A i \in 1 .. n : path[i] \in Octet
    BY <1>1, <1>3 DEF Octets
  <2>2. l \in Octets /\ Len(l) = n /\ \A i \in 1 .. n : l[i] = path[i]
    BY <1>3, <2>1, SubSeqProperties DEF Octets
  <2> HIDE DEF l
  <2>3. l = stem
    BY <1>1, <1>3, <2>2, SeqEqual DEF Octets
  <2> QED
    BY <2>3 DEF l
<1>5. Len(path) - Len(CMISuffix) = n
  <2>1. Len(path) = n + 4
    BY <1>1, <1>3
  <2> QED
    BY <1>2, <2>1
<1> QED
  BY <1>4, <1>5, Zenon DEF NameOf

LEMMA ReplacedOctets ==
  ASSUME NEW stem \in Octets, NEW from, NEW to \in Octet
  PROVE  /\ Replaced(stem, from, to) \in Octets
         /\ Len(Replaced(stem, from, to)) = Len(stem)
         /\ \A i \in 1 .. Len(stem) :
              Replaced(stem, from, to)[i] = IF stem[i] = from THEN to ELSE stem[i]
BY DEF Replaced, Octets

LEMMA WithDotDotsOctets ==
  ASSUME NEW path \in Octets
  PROVE  /\ WithDotDots(path) \in Octets
         /\ Len(WithDotDots(path)) = Len(path)
         /\ \A i \in 1 .. Len(path) :
              WithDotDots(path)[i] =
                IF Twice(path, DOT_REPLACE, i) \/ Twice(path, DOT_REPLACE, i - 1)
                THEN DOT ELSE path[i]
<1> DEFINE At(i) == Twice(path, DOT_REPLACE, i) \/ Twice(path, DOT_REPLACE, i - 1)
<1>1. WithDotDots(path) = [i \in DOMAIN path |-> IF At(i) THEN DOT ELSE path[i]]
  BY DEF WithDotDots, Twice
<1>2. DOT \in Octet
  BY DEF DOT, Octet
<1> HIDE DEF At
<1>3. /\ WithDotDots(path) \in Octets
      /\ Len(WithDotDots(path)) = Len(path)
      /\ \A i \in 1 .. Len(path) : WithDotDots(path)[i] = IF At(i) THEN DOT ELSE path[i]
  BY <1>1, <1>2 DEF Octets
<1> QED
  BY <1>3 DEF At

\* Putting ",," for ".." does not matter where both are taken for "..".
LEMMA Redotted ==
  ASSUME NEW path \in Octets, NEW stem \in Octets, Len(stem) = Len(path),
         \A i \in 1 .. Len(path) :
           stem[i] = IF i \in Dots(path) THEN DOT_REPLACE ELSE path[i]
  PROVE  WithDotDots(stem) = WithDotDots(path)
<1>1. PICK n \in Nat : n = Len(path)
  BY DEF Octets
<1>2. \A i \in 1 .. n : stem[i] = IF i \in Dots(path) THEN DOT_REPLACE ELSE path[i]
  BY <1>1
<1>3. \A i \in 1 .. n : i \in Dots(path) <=> Twice(path, DOT, i) \/ Twice(path, DOT, i - 1)
  BY <1>1, DotsAre
<1>4. \A i \in Dots(path) : path[i] = DOT
  BY OnlyDots
<1>5. DOT # DOT_REPLACE /\ DOT # DIR_SEPARATOR /\ DOT_REPLACE # DIR_SEPARATOR
  BY DEF DOT, DOT_REPLACE, DIR_SEPARATOR
<1>6. ASSUME NEW j \in 0 .. n, Twice(stem, DOT_REPLACE, j)
      PROVE  Twice(path, DOT_REPLACE, j) \/ Twice(path, DOT, j)
  <2>1. /\ j > 1 /\ j + 2 <= n
        /\ j \in 1 .. n /\ j + 1 \in 1 .. n /\ j - 1 \in 1 .. n /\ j + 2 \in 1 .. n
        /\ stem[j] = DOT_REPLACE /\ stem[j + 1] = DOT_REPLACE
        /\ stem[j - 1] = DIR_SEPARATOR /\ stem[j + 2] = DIR_SEPARATOR
    BY <1>1, <1>6 DEF Twice
  <2>2. path[j - 1] = DIR_SEPARATOR /\ path[j + 2] = DIR_SEPARATOR
    BY <1>2, <1>5, <2>1
  <2>3. CASE j \in Dots(path)
    <3>1. ~Twice(path, DOT, j - 1)
      BY <1>5, <2>2 DEF Twice
    <3> QED
      BY <1>3, <2>1, <2>3, <3>1
  <2>4. CASE j \notin Dots(path)
    <3>1. path[j] = DOT_REPLACE
      BY <1>2, <2>1, <2>4
    <3>2. j + 1 \notin Dots(path)
      <4>1. (j + 1) - 1 = j
        OBVIOUS
      <4>2. ~Twice(path, DOT, j + 1) /\ ~Twice(path, DOT, j)
        BY <1>5, <3>1, <4>1 DEF Twice
      <4> QED
        BY <1>3, <2>1, <4>1, <4>2
    <3>3. path[j + 1] = DOT_REPLACE
      BY <1>2, <2>1, <3>2
    <3> QED
      BY <1>1, <2>1, <2>2, <3>1, <3>3 DEF Twice
  <2> QED
    BY <2>3, <2>4
<1>7. ASSUME NEW j \in 0 .. n, NEW c \in {DOT, DOT_REPLACE}, Twice(path, c, j)
      PROVE  Twice(stem, DOT_REPLACE, j)
  <2>1. /\ j > 1 /\ j + 2 <= n
        /\ j \in 1 .. n /\ j + 1 \in 1 .. n /\ j - 1 \in 1 .. n /\ j + 2 \in 1 .. n
        /\ path[j] = c /\ path[j + 1] = c
        /\ path[j - 1] = DIR_SEPARATOR /\ path[j + 2] = DIR_SEPARATOR
    BY <1>1, <1>7 DEF Twice
  <2>2. stem[j - 1] = DIR_SEPARATOR /\ stem[j + 2] = DIR_SEPARATOR
    <3>1. j - 1 \notin Dots(path) /\ j + 2 \notin Dots(path)
      BY <1>4, <1>5, <2>1
    <3> QED
      BY <1>2, <2>1, <3>1
  <2>3. stem[j] = DOT_REPLACE /\ stem[j + 1] = DOT_REPLACE
    <3>1. CASE c = DOT
      <4>1. (j + 1) - 1 = j
        OBVIOUS
      <4>2. j \in Dots(path) /\ j + 1 \in Dots(path)
        BY <1>3, <1>7, <2>1, <3>1, <4>1
      <4> QED
        BY <1>2, <2>1, <4>2
    <3>2. CASE c = DOT_REPLACE
      <4>1. j \notin Dots(path) /\ j + 1 \notin Dots(path)
        BY <1>4, <1>5, <2>1, <3>2
      <4> QED
        BY <1>2, <2>1, <3>2, <4>1
    <3> QED
      BY <3>1, <3>2
  <2> QED
    BY <1>1, <2>1, <2>2, <2>3 DEF Twice
<1>8. PICK v : v = WithDotDots(stem)
  OBVIOUS
<1>9. /\ v \in Octets /\ Len(v) = n
      /\ \A i \in 1 .. n : v[i] = IF Twice(stem, DOT_REPLACE, i) \/ Twice(stem, DOT_REPLACE, i - 1)
                                THEN DOT ELSE stem[i]
  BY <1>1, <1>8, WithDotDotsOctets
<1>10. PICK w : w = WithDotDots(path)
  OBVIOUS
<1>11. /\ w \in Octets /\ Len(w) = n
       /\ \A i \in 1 .. n : w[i] = IF Twice(path, DOT_REPLACE, i) \/ Twice(path, DOT_REPLACE, i - 1)
                                 THEN DOT ELSE path[i]
  BY <1>1, <1>10, WithDotDotsOctets
<1>12. ASSUME NEW i \in 1 .. n
       PROVE  v[i] = w[i]
  <2>1. i \in 0 .. n /\ i - 1 \in 0 .. n
    OBVIOUS
  <2>2. CASE Twice(stem, DOT_REPLACE, i) \/ Twice(stem, DOT_REPLACE, i - 1)
    <3>1. v[i] = DOT
      BY <1>9, <2>2
    <3>2. \/ Twice(path, DOT_REPLACE, i) \/ Twice(path, DOT_REPLACE, i - 1)
          \/ Twice(path, DOT, i) \/ Twice(path, DOT, i - 1)
      BY <1>6, <2>1, <2>2
    <3>3. CASE Twice(path, DOT_REPLACE, i) \/ Twice(path, DOT_REPLACE, i - 1)
      BY <1>11, <3>1, <3>3
    <3>4. CASE Twice(path, DOT, i) \/ Twice(path, DOT, i - 1)
      <4>1. path[i] = DOT
        BY <1>3, <1>4, <3>4
      <4> QED
        BY <1>11, <3>1, <4>1
    <3> QED
      BY <3>2, <3>3, <3>4
  <2>3. CASE ~(Twice(stem, DOT_REPLACE, i) \/ Twice(stem, DOT_REPLACE, i - 1))
    <3>1. \A c \in {DOT, DOT_REPLACE} : ~Twice(path, c, i) /\ ~Twice(path, c, i - 1)
      BY <1>7, <2>1, <2>3
    <3>2. i \notin Dots(path)
      BY <1>3, <3>1
    <3>3. v[i] = path[i]
      BY <1>2, <1>9, <2>3, <3>2
    <3> QED
      BY <1>11, <3>1, <3>3
  <2> QED
    BY <2>2, <2>3
<1>13. v = w
  BY <1>9, <1>11, <1>12, SeqEqual DEF Octets
<1> QED
  BY <1>8, <1>10, <1>13

LEMMA HeaderNamed ==
  ASSUME NEW name \in Octets, name # <<>>, IsHeader(name)
  PROVE  NameOf(GetCMIName(name)) = WithDotDots(name)
<1>1. PICK below \in Octets : below = Below(name)
  BY BelowOctets
<1>2. PICK stem \in Octets : stem = HeaderPath(name)
  BY HeaderPathIs
<1>3. PICK n \in Nat : n = Len(stem)
  BY DEF Octets
<1>4. /\ n = Len(below) /\ n >= 2
      /\ below[1] = (IF IsAbsPath(name) THEN DOT ELSE DOT_REPLACE)
      /\ below[2] = DIR_SEPARATOR
      /\ \A i \in 1 .. n : stem[i] = IF i \in Dots(below) THEN DOT_REPLACE ELSE below[i]
      /\ n = IF IsAbsPath(name) THEN Len(name) + 1 ELSE Len(name)
      /\ IF IsAbsPath(name) THEN \A i \in 1 .. Len(name) : below[i + 1] = name[i]
         ELSE name[1] = DOT /\ \A i \in 2 .. Len(name) : below[i] = name[i]
  BY <1>1, <1>2, <1>3, BelowOctets, HeaderPathIs
<1>5. \A i \in Dots(below) : i \in 2 .. n - 1 /\ below[i] = DOT
  BY <1>4, OnlyDots
<1>6. DIR_SEPARATOR \in ToSet(stem)
  <2>1. 2 \in 1 .. n /\ 2 \notin Dots(below)
    BY <1>4, <1>5 DEF DOT, DIR_SEPARATOR
  <2>2. stem[2] = DIR_SEPARATOR /\ 2 \in DOMAIN stem
    <3>1. stem[2] = DIR_SEPARATOR
      BY <1>4, <2>1
    <3>2. DOMAIN stem = 1 .. n
      BY <1>3 DEF Octets
    <3> QED
      BY <2>1, <3>1, <3>2
  <2> QED
    BY <2>2 DEF ToSet
<1>7. stem[1] = IF IsAbsPath(name) THEN DOT ELSE DOT_REPLACE
  BY <1>4, <1>5
<1>8. PICK redotted : redotted = WithDotDots(below)
  OBVIOUS
<1>9. /\ redotted \in Octets /\ Len(redotted) = n
      /\ \A i \in 1 .. n :
           redotted[i] = IF Twice(below, DOT_REPLACE, i) \/ Twice(below, DOT_REPLACE, i - 1)
                         THEN DOT ELSE below[i]
  BY <1>1, <1>4, <1>8, WithDotDotsOctets
<1>10. NameOf(GetCMIName(name)) = (IF stem[1] = DOT THEN <<>> ELSE <<DOT>>) \o Tail(redotted)
  <2>1. GetCMIName(name) = stem \o CMISuffix
    BY <1>2 DEF GetCMIName
  <2>2. WithDotDots(stem) = redotted
    BY <1>1, <1>2, <1>3, <1>4, <1>8, Redotted
  <2> QED
    BY <1>2, <1>6, <2>1, <2>2, NameOfIs
<1>11. PICK m \in Nat : m = Len(name)
  BY DEF Octets
<1>12. PICK meantBy : meantBy = WithDotDots(name)
  OBVIOUS
<1>13. /\ meantBy \in Octets /\ Len(meantBy) = m
       /\ \A i \in 1 .. m :
            meantBy[i] = IF Twice(name, DOT_REPLACE, i) \/ Twice(name, DOT_REPLACE, i - 1)
                         THEN DOT ELSE name[i]
  BY <1>11, <1>12, WithDotDotsOctets
<1>14. PICK t : t = Tail(redotted)
  OBVIOUS
<1>15. t \in Octets /\ Len(t) = n - 1 /\ \A i \in 1 .. n - 1 : t[i] = redotted[i + 1]
  <2>1. redotted # <<>>
    BY <1>4, <1>9
  <2> QED
    BY <1>9, <1>14, <2>1, HeadTailProperties DEF Octets
<1>16. DOT # DIR_SEPARATOR /\ DOT_REPLACE # DIR_SEPARATOR /\ DOT # DOT_REPLACE
  BY DEF DOT, DOT_REPLACE, DIR_SEPARATOR
<1>17. CASE IsAbsPath(name)
  <2>1. n = m + 1 /\ below[1] = DOT /\ \A i \in 1 .. m : below[i + 1] = name[i]
    BY <1>4, <1>11, <1>17
  <2>2. ASSUME NEW k \in 0 .. m
        PROVE  Twice(below, DOT_REPLACE, k + 1) <=> Twice(name, DOT_REPLACE, k)
    <3>1. CASE k < 2
      <4>1. ~Twice(name, DOT_REPLACE, k)
        BY <3>1 DEF Twice
      <4>2. k = 0 \/ k = 1
        BY <3>1
      <4>3. ~Twice(below, DOT_REPLACE, 1)
        BY DEF Twice
      <4>4. ~Twice(below, DOT_REPLACE, 2)
        BY <1>16, <2>1 DEF Twice
      <4> QED
        BY <4>1, <4>2, <4>3, <4>4
    <3>2. CASE k >= 2 /\ k + 2 <= m
      <4>1. /\ below[k + 1] = name[k] /\ below[(k + 1) + 1] = name[k + 1]
            /\ below[(k - 1) + 1] = name[k - 1] /\ below[(k + 2) + 1] = name[k + 2]
        BY <2>1, <3>2
      <4>2. (k - 1) + 1 = (k + 1) - 1 /\ (k + 2) + 1 = (k + 1) + 2 /\ (k + 1) + 2 <= n /\ 1 < k + 1 /\ 1 < k
        BY <2>1, <3>2
      <4> QED
        BY <1>4, <1>3, <1>1, <1>11, <3>2, <4>1, <4>2 DEF Twice
    <3>3. CASE ~(k + 2 <= m)
      <4>1. ~((k + 1) + 2 <= n)
        BY <2>1, <3>3
      <4> QED
        BY <1>4, <1>11, <3>3, <4>1 DEF Twice
    <3> QED
      BY <3>1, <3>2, <3>3
  <2>3. ASSUME NEW i \in 1 .. m
        PROVE  t[i] = meantBy[i]
    <3>1. t[i] = redotted[i + 1] /\ i + 1 \in 1 .. n /\ (i + 1) - 1 = (i - 1) + 1
      BY <1>15, <2>1
    <3>2. i \in 0 .. m /\ i - 1 \in 0 .. m
      OBVIOUS
    <3>3. /\ Twice(below, DOT_REPLACE, i + 1) <=> Twice(name, DOT_REPLACE, i)
          /\ Twice(below, DOT_REPLACE, (i + 1) - 1) <=> Twice(name, DOT_REPLACE, i - 1)
      BY <2>2, <3>1, <3>2
    <3>4. below[i + 1] = name[i]
      BY <2>1
    <3> QED
      BY <1>9, <1>13, <3>1, <3>3, <3>4
  <2>4. t = meantBy
    BY <1>13, <1>15, <2>1, <2>3, SeqEqual DEF Octets
  <2>5. NameOf(GetCMIName(name)) = <<>> \o t
    BY <1>7, <1>10, <1>14, <1>17
  <2>6. <<>> \o t = t
    BY <1>15 DEF Octets
  <2> QED
    BY <1>12, <2>4, <2>5, <2>6
<1>18. CASE ~IsAbsPath(name)
  <2>1. /\ n = m /\ below[1] = DOT_REPLACE /\ name[1] = DOT
        /\ \A i \in 2 .. m : below[i] = name[i]
    BY <1>4, <1>11, <1>18
  <2>2. ASSUME NEW k \in 0 .. m
        PROVE  Twice(below, DOT_REPLACE, k) <=> Twice(name, DOT_REPLACE, k)
    <3>1. CASE k < 2
      BY <3>1 DEF Twice
    <3>2. CASE k = 2
      <4>1. below[k - 1] # DIR_SEPARATOR /\ name[k - 1] # DIR_SEPARATOR
        BY <1>16, <2>1, <3>2
      <4> QED
        BY <4>1 DEF Twice
    <3>3. CASE k > 2 /\ k + 2 <= m
      <4>1. /\ below[k] = name[k] /\ below[k + 1] = name[k + 1]
            /\ below[k - 1] = name[k - 1] /\ below[k + 2] = name[k + 2]
        BY <2>1, <3>3
      <4> QED
        BY <1>4, <1>11, <2>1, <4>1 DEF Twice
    <3>4. CASE ~(k + 2 <= m)
      BY <1>4, <1>11, <2>1, <3>4 DEF Twice
    <3> QED
      BY <3>1, <3>2, <3>3, <3>4
  <2>3. PICK whole : whole = <<DOT>> \o t
    OBVIOUS
  <2>4. whole \in Octets /\ Len(whole) = n /\ whole[1] = DOT /\ \A i \in 1 .. n - 1 : whole[i + 1] = t[i]
    <3>1. DOT \in Octet
      BY DEF DOT, Octet
    <3> QED
      BY <1>4, <1>15, <2>3, <3>1 DEF Octets
  <2>5. ASSUME NEW i \in 1 .. m
        PROVE  whole[i] = meantBy[i]
    <3>1. CASE i = 1
      <4>1. ~Twice(name, DOT_REPLACE, 1) /\ ~Twice(name, DOT_REPLACE, 1 - 1)
        BY DEF Twice
      <4> QED
        BY <1>13, <2>1, <2>4, <3>1, <4>1
    <3>2. CASE i # 1
      <4>1. i - 1 \in 1 .. n - 1 /\ (i - 1) + 1 = i /\ i \in 2 .. m /\ i \in 0 .. m /\ i - 1 \in 0 .. m
        BY <2>1, <3>2
      <4>2. whole[i] = redotted[i]
        BY <1>15, <2>4, <4>1
      <4>3. below[i] = name[i]
        BY <2>1, <4>1
      <4>4. /\ Twice(below, DOT_REPLACE, i) <=> Twice(name, DOT_REPLACE, i)
            /\ Twice(below, DOT_REPLACE, i - 1) <=> Twice(name, DOT_REPLACE, i - 1)
        BY <2>2, <4>1
      <4> QED
        BY <1>9, <1>13, <2>1, <4>2, <4>3, <4>4
    <3> QED
      BY <3>1, <3>2
  <2>6. whole = meantBy
    BY <1>13, <2>1, <2>4, <2>5, SeqEqual DEF Octets
  <2>7. stem[1] # DOT
    BY <1>7, <1>16, <1>18
  <2> QED
    BY <1>10, <1>12, <1>14, <2>3, <2>6, <2>7
<1> QED
  BY <1>17, <1>18

\* The first colon of a name.
LEMMA FirstColon ==
  ASSUME NEW name \in Octets
  PROVE  LET colon == SelectInSeq(name, LAMBDA c : c = COLON) IN
         colon # 0 => colon \in 1 .. Len(name) /\ name[colon] = COLON
<1> DEFINE I == {i \in 1 .. Len(name) : name[i] = COLON}
<1>1. PICK colon : colon = SelectInSeq(name, LAMBDA c : c = COLON)
  OBVIOUS
<1>2. colon = IF I # {} THEN Min(I) ELSE 0
  BY <1>1 DEF SelectInSeq
<1>3. CASE I # {}
  <2>1. I \subseteq Nat
    OBVIOUS
  <2> HIDE DEF I
  <2>2. PICK x \in I : \A y \in I : x <= y
    BY <1>3, <2>1, LeastNumber
  <2>3. colon = CHOOSE z \in I : \A y \in I : z <= y
    BY <1>2, <1>3 DEF Min
  <2>4. colon \in I
    BY <2>2, <2>3, Zenon
  <2> QED
    BY <1>1, <2>4 DEF I
<1> QED
  BY <1>1, <1>2, <1>3

LEMMA ModuleNamed ==
  ASSUME NEW name \in Octets, name # <<>>, DIR_SEPARATOR \notin ToSet(name)
  PROVE  NameOf(GetCMIName(name)) = Replaced(name, COLON_REPLACE, COLON)
<1>1. PICK colon : colon = SelectInSeq(name, LAMBDA c : c = COLON)
  OBVIOUS
<1>2. colon # 0 => colon \in 1 .. Len(name) /\ name[colon] = COLON
  BY <1>1, FirstColon
<1>3. PICK n \in Nat : n = Len(name)
  BY DEF Octets
<1>4. \A i \in 1 .. n : name[i] # DIR_SEPARATOR
  BY <1>3 DEF ToSet, Octets
<1>5. ~IsHeader(name)
  <2>1. ~IsAbsPath(name)
    <3>1. 1 \in 1 .. n
      BY <1>3 DEF Octets
    <3> QED
      BY <1>4, <3>1 DEF IsAbsPath
  <2>2. ASSUME IsPrefix(<<DOT, DIR_SEPARATOR>>, name) PROVE FALSE
    <3>1. Len(name) >= 2 /\ name[2] = DIR_SEPARATOR
      BY <2>2, Relative
    <3> QED
      BY <1>3, <1>4, <3>1
  <2> QED
    BY <2>1, <2>2 DEF IsHeader
<1>6. PICK stem : stem = ModulePath(name)
  OBVIOUS
<1>7. COLON_REPLACE \in Octet /\ COLON \in Octet
  BY DEF COLON_REPLACE, COLON, Octet
<1>8. stem = IF colon = 0 THEN name ELSE [name EXCEPT ![colon] = COLON_REPLACE]
  BY <1>1, <1>6 DEF ModulePath
<1>9. /\ stem \in Octets /\ Len(stem) = n
      /\ \A i \in 1 .. n : stem[i] = name[i] \/ (name[i] = COLON /\ stem[i] = COLON_REPLACE)
  <2>1. CASE colon = 0
    BY <1>3, <1>8, <2>1
  <2>2. CASE colon # 0
    BY <1>2, <1>3, <1>7, <1>8, <2>2, ExceptSeq DEF Octets
  <2> QED
    BY <2>1, <2>2
<1>10. DIR_SEPARATOR \notin ToSet(stem)
  <2>1. \A i \in 1 .. n : stem[i] # DIR_SEPARATOR
    BY <1>4, <1>9 DEF COLON_REPLACE, DIR_SEPARATOR
  <2>2. DOMAIN stem = 1 .. n
    BY <1>9 DEF Octets
  <2> QED
    BY <2>1, <2>2 DEF ToSet
<1>11. PICK v : v = Replaced(stem, COLON_REPLACE, COLON)
  OBVIOUS
<1>12. PICK w : w = Replaced(name, COLON_REPLACE, COLON)
  OBVIOUS
<1>13. /\ v \in Octets /\ Len(v) = n
       /\ \A i \in 1 .. n : v[i] = IF stem[i] = COLON_REPLACE THEN COLON ELSE stem[i]
  BY <1>7, <1>9, <1>11, ReplacedOctets
<1>14. /\ w \in Octets /\ Len(w) = n
       /\ \A i \in 1 .. n : w[i] = IF name[i] = COLON_REPLACE THEN COLON ELSE name[i]
  BY <1>3, <1>7, <1>12, ReplacedOctets
<1>15. COLON # COLON_REPLACE
  BY DEF COLON, COLON_REPLACE
<1>16. \A i \in 1 .. n : v[i] = w[i]
  BY <1>9, <1>13, <1>14, <1>15
<1>17. v = w
  BY <1>13, <1>14, <1>16, SeqEqual DEF Octets
<1>18. GetCMIName(name) = stem \o CMISuffix
  BY <1>5, <1>6 DEF GetCMIName
<1> QED
  BY <1>9, <1>10, <1>11, <1>12, <1>17, <1>18, NameOfIs

LEMMA DistinctIInv == IInv => CMIsDistinct
<1> SUFFICES ASSUME IInv
             PROVE  /\ Name # <<>> /\ IsHeader(Name) => NameOf(CMIPath) = WithDotDots(Name)
                    /\ Name # <<>> /\ DIR_SEPARATOR \notin ToSet(Name) =>
                         NameOf(CMIPath) = Replaced(Name, COLON_REPLACE, COLON)
  BY Zenon DEF CMIsDistinct
<1>1. Name \in Octets
  BY NameOctets DEF IInv
<1>2. CMIPath = GetCMIName(Name)
  BY DEF CMIPath
<1> QED
  BY <1>1, <1>2, HeaderNamed, ModuleNamed, Zenon

\* The path of its CMI tells the name of a module or header unit, but for ',,'
\* or '..' as a directory of a header's name, and '-' or ':' in a module's: none
\* share a CMI that do not differ only there (README.md:234, resolver.cc:65-119).
THEOREM CMIsTellNames == Spec => []CMIsDistinct
BY LexFollows, DistinctIInv, PTL

-----------------------------------------------------------------------------
(* Words that are quoted and lexed again.                                  *)

LEMMA EscapedOctets ==
  ASSUME NEW c \in Octet
  PROVE  Escaped(c) \in Octets
<1>1. /\ Hex(c \div 16) \in Octet /\ Hex(c % 16) \in Octet
      /\ ESCAPE \in Octet /\ LowerT \in Octet /\ LowerN \in Octet
  <2>1. PICK high \in 0 .. 15, low \in 0 .. 15 : high = c \div 16 /\ low = c % 16
    BY TwoHexDigits
  <2>2. Hex(high) \in Octet /\ Hex(low) \in Octet
    BY HexDigits
  <2>3. ESCAPE \in Octet /\ LowerT \in Octet /\ LowerN \in Octet
    BY DEF ESCAPE, LowerT, LowerN, Octet
  <2> QED
    BY <2>1, <2>2, <2>3
<1>2. /\ <<ESCAPE, LowerT>> \in Octets /\ <<ESCAPE, LowerN>> \in Octets
      /\ <<ESCAPE, c>> \in Octets /\ <<c>> \in Octets
      /\ <<ESCAPE, Hex(c \div 16), Hex(c % 16)>> \in Octets
  BY <1>1 DEF Octets
<1> QED
  BY <1>2 DEF Escaped, TAB, NEWLINE, QUOTE, ESCAPE, SPACE, DEL

\* What Append puts between the quotes, for each octet.
TextOf(str) ==
  LET text[n \in 0 .. Len(str)] ==
        IF n = 0 THEN <<>> ELSE text[n - 1] \o Escaped(str[n])
  IN  text

LEMMA TextRun ==
  ASSUME NEW str \in Octets
  PROVE  LET f == TextOf(str) IN
         /\ f \in [0 .. Len(str) -> Octets]
         /\ f[0] = <<>>
         /\ \A i \in 1 .. Len(str) : f[i] = f[i - 1] \o Escaped(str[i])
<1> DEFINE n == Len(str)
           step == [i \in 1 .. n |-> [u \in Octets |-> u \o Escaped(str[i])]]
           IsText(f) == f = [i \in 0 .. n |-> IF i = 0 THEN <<>> ELSE f[i - 1] \o Escaped(str[i])]
<1>1. n \in Nat /\ \A i \in 1 .. n : str[i] \in Octet
  BY DEF Octets
<1>2. <<>> \in Octets
  BY DEF Octets
<1>3. \A i \in 1 .. n, u \in Octets : u \o Escaped(str[i]) \in Octets
  BY <1>1, EscapedOctets, ConcatProperties DEF Octets
<1>4. step \in Loop(n, Octets)
  BY <1>3 DEF Loop
<1> HIDE DEF n, step
<1>5. PICK f : Runs(n, Octets, <<>>, step, f)
  BY <1>1, <1>2, <1>4, Iteration, Zenon
<1>6. \A i \in 1 .. n : f[i] = f[i - 1] \o Escaped(str[i])
  <2> SUFFICES ASSUME NEW i \in 1 .. n PROVE f[i] = f[i - 1] \o Escaped(str[i])
    OBVIOUS
  <2>1. f[i - 1] \in Octets
    BY <1>1, <1>5 DEF Runs
  <2>2. step[i] = [u \in Octets |-> u \o Escaped(str[i])]
    BY DEF step
  <2> QED
    BY <1>5, <2>1, <2>2 DEF Runs
<1>7. IsText(f)
  <2>1. f \in [0 .. n -> Octets] /\ f[0] = <<>>
    BY <1>5 DEF Runs
  <2>2. \A i \in 0 .. n : f[i] = IF i = 0 THEN <<>> ELSE f[i - 1] \o Escaped(str[i])
    BY <1>1, <1>6, <2>1
  <2> HIDE DEF Octets
  <2> QED
    BY <2>1, <2>2
<1>8. IsText(TextOf(str))
  BY <1>7 DEF TextOf, n
<1>9. PICK g : g = TextOf(str)
  OBVIOUS
<1>10. g[0] = <<>> /\ \A i \in 1 .. n : g[i] = g[i - 1] \o Escaped(str[i])
  BY <1>1, <1>8, <1>9
<1> DEFINE T == {i \in 0 .. n : g[i] \in Octets}
<1>11. 0 \in T
  BY <1>1, <1>2, <1>10
<1>12. \A i \in 0 .. n - 1 : i \in T => i + 1 \in T
  <2> SUFFICES ASSUME NEW i \in 0 .. n - 1, g[i] \in Octets PROVE i + 1 \in T
    OBVIOUS
  <2>1. i + 1 \in 1 .. n /\ i + 1 \in 0 .. n /\ (i + 1) - 1 = i
    BY <1>1
  <2> QED
    BY <1>3, <1>10, <2>1
<1> HIDE DEF T
<1>13. 0 .. n \subseteq T
  BY <1>1, <1>11, <1>12, UpTo
<1>14. g \in [0 .. n -> Octets]
  BY <1>8, <1>9, <1>13 DEF T
<1> QED
  BY <1>9, <1>10, <1>14 DEF n

LEMMA QuotedIs ==
  ASSUME NEW str
  PROVE  Quoted(str) = IF str # <<>> /\ ToSet(str) \subseteq Bare THEN str
                       ELSE <<QUOTE>> \o TextOf(str)[Len(str)] \o <<QUOTE>>
BY DEF Quoted, TextOf

LEMMA QuotedOctets ==
  ASSUME NEW str \in Octets
  PROVE  Quoted(str) \in Octets
<1>1. TextOf(str)[Len(str)] \in Octets
  <2>1. Len(str) \in 0 .. Len(str)
    BY DEF Octets
  <2> QED
    BY <2>1, TextRun
<1>2. <<QUOTE>> \o TextOf(str)[Len(str)] \o <<QUOTE>> \in Octets
  BY <1>1, NotHere, ConcatProperties DEF Octets
<1> QED
  BY <1>2, QuotedIs

\* Lex, at the end of text.
LexedTo(text, at, words) ==
  /\ text \in Octets
  /\ words \in Words
  /\ Follows(Lexed(text), Len(text), words, at)

LEMMA OneTo ==
  ASSUME NEW text \in Octets, NEW c \in Octet, NEW at, NEW words \in Words,
         Follows(LexOctet(Lexed(text), c), Len(text) + 1, words, at)
  PROVE  LexedTo(text \o <<c>>, at, words)
<1>1. text \o <<c>> \in Octets /\ Lexed(text \o <<c>>) = LexOctet(Lexed(text), c)
  BY LexedMore
<1>2. Len(text \o <<c>>) = Len(text) + 1
  BY DEF Octets
<1> QED
  BY <1>1, <1>2 DEF LexedTo

\* An octet within quotes is lexed as what it was.
LEMMA EscapedReturns ==
  ASSUME NEW text, NEW words, LexedTo(text, "quoted", words), NEW c \in 0 .. DEL
  PROVE  LexedTo(text \o Escaped(c), "quoted", Extend(words, c))
<1>1. /\ text \in Octets /\ Len(text) \in Nat /\ words \in Words
      /\ Follows(Lexed(text), Len(text), words, "quoted")
  BY DEF LexedTo, Octets
<1>2. c \in Octet /\ Extend(words, c) \in Words
  <2>1. c \in Octet
    BY DEF DEL, Octet
  <2> QED
    BY <1>1, <2>1, ExtendWords
<1>3. PICK at \in {"quoted", "digits"} : at = "quoted"
  OBVIOUS
<1>4. ASSUME NEW d \in Octet, Escaped(c) = <<ESCAPE, d>>,
             \/ d \in {QUOTE, ESCAPE} /\ c = d
             \/ d = LowerT /\ c = TAB
             \/ d = LowerN /\ c = NEWLINE
      PROVE  LexedTo(text \o Escaped(c), "quoted", Extend(words, c))
  <2> DEFINE r == LexOctet(LexOctet(Lexed(text), ESCAPE), d)
  <2>1. text \o <<ESCAPE, d>> \in Octets /\ Lexed(text \o <<ESCAPE, d>>) = r
    BY <1>1, <1>4, NotHere, LexedTwo
  <2>2. r \in LexState /\ r.used = Len(text) + 2 /\ EscapeStep([words |-> words], r, d)
    BY <1>1, <1>3, <1>4, AfterEscape
  <2> HIDE DEF r
  <2>3. r.mode = "quoted" /\ r.words = Extend(words, c)
    BY <1>4, <2>2 DEF EscapeStep
  <2>4. Len(text \o <<ESCAPE, d>>) = Len(text) + 2
    BY <1>1 DEF Octets
  <2>5. Follows(r, Len(text) + 2, Extend(words, c), "quoted")
    BY <2>2, <2>3 DEF Follows
  <2> QED
    BY <1>2, <1>4, <2>1, <2>4, <2>5 DEF LexedTo
<1>5. CASE c \in {QUOTE, ESCAPE}
  <2>1. Escaped(c) = <<ESCAPE, c>>
    BY <1>5 DEF Escaped, TAB, NEWLINE, QUOTE, ESCAPE, SPACE, DEL
  <2> QED
    BY <1>2, <1>4, <1>5, <2>1
<1>6. CASE c = TAB
  <2>1. Escaped(c) = <<ESCAPE, LowerT>> /\ LowerT \in Octet
    BY <1>6 DEF Escaped, TAB, NEWLINE, QUOTE, ESCAPE, SPACE, DEL, LowerT, Octet
  <2> QED
    BY <1>4, <1>6, <2>1
<1>7. CASE c = NEWLINE
  <2>1. Escaped(c) = <<ESCAPE, LowerN>> /\ LowerN \in Octet
    BY <1>7 DEF Escaped, TAB, NEWLINE, QUOTE, ESCAPE, SPACE, DEL, LowerN, Octet
  <2> QED
    BY <1>4, <1>7, <2>1
<1>8. CASE c \notin {TAB, NEWLINE} /\ (c < SPACE \/ c = DEL)
  <2> DEFINE high == Hex(c \div 16)
             low == Hex(c % 16)
             q == LexOctet(LexOctet(Lexed(text), ESCAPE), high)
             r == LexOctet(q, low)
  <2>1. Escaped(c) = <<ESCAPE, high, low>>
    BY <1>8 DEF Escaped, TAB, NEWLINE, QUOTE, ESCAPE, SPACE, DEL
  <2>2. /\ high \in Octet /\ low \in Octet /\ high \in LowerHex /\ low \in LowerHex
        /\ 16 * HexValue(high) + HexValue(low) = c
    BY <1>2, HexDigits, TwoHexDigits
  <2> HIDE DEF high, low
  <2>3. text \o <<ESCAPE, high, low>> \in Octets /\ Lexed(text \o <<ESCAPE, high, low>>) = r
    BY <1>1, <2>2, NotHere, LexedThree
  <2>4. q \in LexState /\ q.used = Len(text) + 2 /\ EscapeStep([words |-> words], q, high)
    BY <1>1, <1>3, <2>2, AfterEscape
  <2> HIDE DEF q
  <2>5. q.mode = "digits" /\ q.words = words /\ q.digit = HexValue(high)
    BY <2>2, <2>4 DEF EscapeStep
  <2>6. r \in LexState /\ LexStep(q, r, low)
    BY <2>2, <2>4, LexOneOctet
  <2> HIDE DEF r
  <2>7. r.used = (Len(text) + 2) + 1 /\ r.mode = "quoted" /\ r.words = Extend(words, c)
    BY <2>2, <2>4, <2>5, <2>6 DEF LexStep, DigitsStep
  <2>8. Len(text \o <<ESCAPE, high, low>>) = (Len(text) + 2) + 1
    BY <1>1 DEF Octets
  <2>9. Follows(r, (Len(text) + 2) + 1, Extend(words, c), "quoted")
    BY <2>6, <2>7 DEF Follows
  <2> QED
    BY <1>2, <2>1, <2>3, <2>8, <2>9 DEF LexedTo
<1>9. CASE c \in (SPACE .. DEL - 1) \ {QUOTE, ESCAPE}
  <2>1. Escaped(c) = <<c>>
    BY <1>9 DEF Escaped, TAB, NEWLINE, QUOTE, ESCAPE, SPACE, DEL
  <2>2. Follows(LexOctet(Lexed(text), c), Len(text) + 1, Extend(words, c), "quoted")
    BY <1>1, <1>2, <1>3, <1>9, AfterQuoted
  <2> QED
    BY <1>1, <1>2, <2>1, <2>2, OneTo
<1> QED
  BY <1>5, <1>6, <1>7, <1>8, <1>9 DEF SPACE, DEL

LEMMA PrefixGrows ==
  ASSUME NEW S, NEW seq \in Seq(S), NEW i \in 0 .. Len(seq) - 1
  PROVE  SubSeq(seq, 1, i + 1) = Append(SubSeq(seq, 1, i), seq[i + 1])
<1> DEFINE l == SubSeq(seq, 1, i + 1)
           u == SubSeq(seq, 1, i)
           r == Append(u, seq[i + 1])
<1>1. Len(seq) \in Nat /\ \A k \in 1 .. Len(seq) : seq[k] \in S
  OBVIOUS
<1>2. l \in Seq(S) /\ Len(l) = i + 1 /\ \A k \in 1 .. i + 1 : l[k] = seq[k]
  <2>1. \A k \in 1 .. i + 1 : seq[k] \in S
    BY <1>1
  <2> QED
    BY <2>1, SubSeqProperties
<1>3. u \in Seq(S) /\ Len(u) = i /\ \A k \in 1 .. i : u[k] = seq[k]
  <2>1. \A k \in 1 .. i : seq[k] \in S
    BY <1>1
  <2> QED
    BY <2>1, SubSeqProperties
<1> HIDE DEF l, u
<1>4. /\ r \in Seq(S) /\ Len(r) = i + 1 /\ r[i + 1] = seq[i + 1]
      /\ \A k \in 1 .. i : r[k] = u[k]
  BY <1>1, <1>3
<1> HIDE DEF r
<1>5. \A k \in 1 .. i + 1 : l[k] = r[k]
  BY <1>2, <1>3, <1>4
<1>6. l = r
  BY <1>2, <1>4, <1>5, SeqEqual
<1> QED
  BY <1>6 DEF l, r, u

LEMMA ConcatAppend ==
  ASSUME NEW S, NEW s \in Seq(S), NEW t \in Seq(S), NEW c \in S
  PROVE  s \o Append(t, c) = (s \o t) \o <<c>>
<1>1. <<c>> \in Seq(S)
  OBVIOUS
<1>2. Append(t, c) = t \o <<c>>
  BY AppendIsConcat
<1>3. (s \o t) \o <<c>> = s \o (t \o <<c>>)
  BY <1>1, ConcatAssociative
<1> QED
  BY <1>2, <1>3

\* A word that needs no quotes.
LEMMA BareReturns ==
  ASSUME NEW text, NEW words, LexedTo(text, "between", words),
         NEW str \in Octets, str # <<>>, ToSet(str) \subseteq Bare
  PROVE  LexedTo(text \o str, "word", Append(words, str))
<1> DEFINE Part(i) == SubSeq(str, 1, i)
           Done(i) == LexedTo(text \o Part(i), "word", Append(words, Part(i)))
           T == {i \in 0 .. Len(str) - 1 : Done(i + 1)}
<1>1. Len(str) \in Nat /\ Len(str) >= 1
  BY DEF Octets
<1>2. \A i \in 1 .. Len(str) : /\ str[i] \in Octet
                               /\ str[i] \in (SPACE + 1 .. DEL - 1) \ {QUOTE, CONTINUE}
  <2>1. \A i \in 1 .. Len(str) : str[i] \in Bare
    BY DEF ToSet, Octets
  <2>2. Bare \subseteq (SPACE + 1 .. DEL - 1) \ {QUOTE, CONTINUE}
    BY DEF Bare, Underscore, Digits, SPACE, DEL, QUOTE, CONTINUE
  <2>3. \A i \in 1 .. Len(str) : str[i] \in Octet
    BY DEF Octets
  <2> QED
    BY <2>1, <2>2, <2>3, Zenon
<1>3. /\ text \in Octets /\ words \in Words /\ Len(text) \in Nat
      /\ Follows(Lexed(text), Len(text), words, "between")
  BY DEF LexedTo, Octets
<1>4. ASSUME NEW i \in 0 .. Len(str) - 1
      PROVE  Part(i) \in Octets /\ Part(i + 1) = Append(Part(i), str[i + 1])
  <2>1. \A k \in 1 .. i : str[k] \in Octet
    BY <1>1, <1>2
  <2>2. Part(i) \in Octets
    BY <2>1, SubSeqProperties DEF Octets
  <2>3. str \in Seq(Octet)
    BY DEF Octets
  <2>4. Part(i + 1) = Append(Part(i), str[i + 1])
    BY <2>3, PrefixGrows
  <2> QED
    BY <2>2, <2>4
<1>5. Part(0) = <<>>
  BY SubSeqEmpty
<1> HIDE DEF Part
<1>6. 0 \in T
  <2>1. 0 \in 0 .. Len(str) - 1 /\ 1 \in 1 .. Len(str)
    BY <1>1
  <2>2. PICK c \in Octet : c = str[0 + 1] /\ c = str[1]
    BY <1>2, <2>1
  <2>3. <<>> \in Octets /\ Append(<<>>, c) = <<c>>
    BY DEF Octets
  <2>4. Part(0 + 1) = <<c>>
    BY <1>4, <1>5, <2>1, <2>2, <2>3, Zenon
  <2>5. Extend(Append(words, <<>>), c) = Append(words, <<c>>)
    BY <1>3, <2>3, ExtendAppended, SMT
  <2>6. PICK at \in {"between", "word"} : at = "between"
    OBVIOUS
  <2>7. /\ Follows(LexOctet(Lexed(text), c), Len(text) + 1, Append(words, <<c>>), "word")
        /\ Append(words, <<c>>) \in Words
    <3>1. Append(words, <<>>) \in Words
      BY <1>3, BegunWords
    <3>2. Extend(Append(words, <<>>), c) \in Words
      BY <3>1, ExtendWords
    <3>3. Follows(LexOctet(Lexed(text), c), Len(text) + 1, Extend(Append(words, <<>>), c), "word")
      BY <1>2, <1>3, <2>1, <2>2, <2>6, AfterUnquoted
    <3> QED
      BY <2>5, <3>2, <3>3
  <2>8. LexedTo(text \o <<c>>, "word", Append(words, <<c>>))
    BY <1>3, <2>7, OneTo
  <2>9. Done(0 + 1)
    BY <2>4, <2>8, Zenon
  <2> QED
    BY <2>1, <2>9
<1>7. \A i \in 0 .. (Len(str) - 1) - 1 : i \in T => i + 1 \in T
  <2> SUFFICES ASSUME NEW i \in 0 .. (Len(str) - 1) - 1, Done(i + 1)
               PROVE  i + 1 \in 0 .. Len(str) - 1 /\ Done((i + 1) + 1)
    OBVIOUS
  <2> DEFINE k == i + 1
  <2>1. k \in 0 .. Len(str) - 1 /\ k + 1 \in 1 .. Len(str)
    BY <1>1
  <2> HIDE DEF k
  <2>2. PICK c \in Octet : c = str[k + 1]
    BY <1>2, <2>1
  <2>3. Part(k) \in Octets /\ Part(k + 1) = Append(Part(k), c)
    BY <1>4, <2>1, <2>2
  <2>4. LexedTo(text \o Part(k), "word", Append(words, Part(k)))
    BY DEF k
  <2>5. PICK before \in Octets : before = text \o Part(k)
    BY <2>4 DEF LexedTo
  <2>6. /\ Append(words, Part(k)) \in Words /\ Len(before) \in Nat
        /\ Follows(Lexed(before), Len(before), Append(words, Part(k)), "word")
    BY <2>4, <2>5 DEF LexedTo, Octets
  <2>7. PICK at \in {"between", "word"} : at = "word"
    OBVIOUS
  <2>8. Follows(LexOctet(Lexed(before), c), Len(before) + 1, Extend(Append(words, Part(k)), c), "word")
    BY <1>2, <2>1, <2>2, <2>6, <2>7, AfterUnquoted
  <2>9. /\ Extend(Append(words, Part(k)), c) = Append(words, Part(k + 1))
        /\ Extend(Append(words, Part(k)), c) \in Words
    <3>1. Extend(Append(words, Part(k)), c) \in Words
      BY <2>6, ExtendWords
    <3>2. Extend(Append(words, Part(k)), c) = Append(words, Append(Part(k), c))
      BY <1>3, <2>3, ExtendAppended, Zenon
    <3> QED
      BY <2>3, <3>1, <3>2, Zenon
  <2>10. LexedTo(before \o <<c>>, "word", Append(words, Part(k + 1)))
    BY <2>8, <2>9, OneTo
  <2>11. text \o Part(k + 1) = before \o <<c>>
    <3>1. text \in Seq(Octet) /\ Part(k) \in Seq(Octet)
      BY <1>3, <2>3 DEF Octets
    <3>2. text \o Append(Part(k), c) = (text \o Part(k)) \o <<c>>
      BY <3>1, ConcatAppend
    <3> QED
      BY <2>3, <2>5, <3>2, Zenon
  <2> QED
    BY <2>1, <2>10, <2>11 DEF k
<1> HIDE DEF T
<1>8. 0 .. Len(str) - 1 \subseteq T
  <2>1. Len(str) - 1 \in Nat
    BY <1>1
  <2> QED
    BY <1>6, <1>7, <2>1, UpTo
<1>9. Done(Len(str))
  <2>1. Len(str) - 1 \in T /\ (Len(str) - 1) + 1 = Len(str)
    BY <1>1, <1>8
  <2> QED
    BY <2>1 DEF T
<1>10. Part(Len(str)) = str
  BY SubSeqFull DEF Part, Octets
<1> QED
  BY <1>9, <1>10

LEMMA Regroup ==
  ASSUME NEW a \in Octets, NEW b \in Octets, NEW c \in Octets
  PROVE  a \o b \in Octets /\ (a \o b) \o c = a \o (b \o c)
<1>1. a \in Seq(Octet) /\ b \in Seq(Octet) /\ c \in Seq(Octet)
  BY DEF Octets
<1>2. a \o b \in Seq(Octet)
  BY <1>1, ConcatProperties
<1>3. (a \o b) \o c = a \o (b \o c)
  BY <1>1, ConcatAssociative
<1> QED
  BY <1>2, <1>3 DEF Octets

Associate(a, b, c) == (a \o b) \o c = a \o (b \o c)

LEMMA OctetsAssociate == \A a, b, c \in Octets : Associate(a, b, c)
BY Regroup DEF Associate

Grouped(a, b, c, d) == ((a \o b) \o c) \o d = a \o ((b \o c) \o d)

LEMMA RegroupFour ==
  ASSUME NEW a \in Octets, NEW b \in Octets, NEW c \in Octets, NEW d \in Octets
  PROVE  Grouped(a, b, c, d)
<1>1. b \o c \in Octets
  BY Regroup
<1>2. Associate(a, b, c) /\ Associate(a, b \o c, d)
  BY <1>1, OctetsAssociate
<1> QED
  BY <1>2 DEF Associate, Grouped

LEMMA OneOctet ==
  ASSUME NEW c \in Octet
  PROVE  <<c>> \in Octets /\ <<>> \in Octets
BY DEF Octets

\* A word in quotes.
LEMMA QuotesReturn ==
  ASSUME NEW text, NEW words, LexedTo(text, "between", words),
         NEW str \in Octets, ToSet(str) \subseteq 0 .. DEL
  PROVE  LexedTo(text \o (<<QUOTE>> \o TextOf(str)[Len(str)] \o <<QUOTE>>), "word",
                 Append(words, str))
<1> DEFINE n == Len(str)
           f == TextOf(str)
           Part(i) == SubSeq(str, 1, i)
           open == text \o <<QUOTE>>
           Done(i) == LexedTo(open \o f[i], "quoted", Append(words, Part(i)))
           T == {i \in 0 .. n : Done(i)}
<1>1. n \in Nat /\ \A i \in 1 .. n : str[i] \in Octet
  BY DEF Octets
<1>2. \A i \in 1 .. n : str[i] \in 0 .. DEL
  BY DEF ToSet, Octets
<1>3. /\ text \in Octets /\ words \in Words /\ Len(text) \in Nat
      /\ Follows(Lexed(text), Len(text), words, "between")
  BY DEF LexedTo, Octets
<1>4. /\ f \in [0 .. n -> Octets] /\ f[0] = <<>>
      /\ \A i \in 1 .. n : f[i] = f[i - 1] \o Escaped(str[i])
  BY TextRun
<1>5. ASSUME NEW i \in 0 .. n - 1
      PROVE  Part(i) \in Octets /\ Part(i + 1) = Append(Part(i), str[i + 1])
  <2>1. \A k \in 1 .. i : str[k] \in Octet
    BY <1>1
  <2>2. Part(i) \in Octets
    BY <2>1, SubSeqProperties DEF Octets
  <2>3. str \in Seq(Octet)
    BY DEF Octets
  <2>4. Part(i + 1) = Append(Part(i), str[i + 1])
    BY <2>3, PrefixGrows
  <2> QED
    BY <2>2, <2>4
<1>6. Part(0) = <<>> /\ Part(n) = str
  BY SubSeqEmpty, SubSeqFull DEF Octets
<1> HIDE DEF Part, n, f
<1>7. LexedTo(open, "quoted", Append(words, <<>>))
  <2>1. PICK at \in {"between", "word"} : at = "between"
    OBVIOUS
  <2>2. Follows(LexOctet(Lexed(text), QUOTE), Len(text) + 1, Append(words, <<>>), "quoted")
    BY <1>3, <2>1, NotHere, AfterUnquoted
  <2>3. Append(words, <<>>) \in Words
    BY <1>3, BegunWords
  <2> QED
    BY <1>3, <2>2, <2>3, NotHere, OneTo
<1>8. open \in Octets
  BY <1>7 DEF LexedTo
<1> HIDE DEF open
<1>9. 0 \in T
  <2>1. open \o <<>> = open
    BY <1>8, ConcatEmptySeq DEF Octets
  <2> QED
    BY <1>1, <1>4, <1>6, <1>7, <2>1
<1>10. \A i \in 0 .. n - 1 : i \in T => i + 1 \in T
  <2> SUFFICES ASSUME NEW i \in 0 .. n - 1, Done(i)
               PROVE  i + 1 \in 0 .. n /\ Done(i + 1)
    OBVIOUS
  <2>1. /\ i + 1 \in 0 .. n /\ i + 1 \in 1 .. n /\ (i + 1) - 1 = i
        /\ i \in 0 .. n
    BY <1>1
  <2>2. PICK c \in 0 .. DEL : c = str[i + 1]
    BY <1>2, <2>1
  <2>3. c \in Octet
    BY <1>1, <2>1, <2>2
  <2>4. Part(i) \in Octets /\ Part(i + 1) = Append(Part(i), c)
    BY <1>5, <2>2
  <2>5. f[i] \in Octets /\ f[i + 1] = f[i] \o Escaped(c)
    BY <1>4, <2>1, <2>2
  <2>6. LexedTo((open \o f[i]) \o Escaped(c), "quoted", Extend(Append(words, Part(i)), c))
    BY EscapedReturns
  <2>7. Extend(Append(words, Part(i)), c) = Append(words, Part(i + 1))
    BY <1>3, <2>3, <2>4, ExtendAppended, ZenonT(60)
  <2>8. (open \o f[i]) \o Escaped(c) = open \o f[i + 1]
    <3>1. PICK e \in Octets : e = Escaped(c)
      BY <2>3, EscapedOctets
    <3>2. PICK g \in Octets : g = f[i]
      BY <2>5
    <3>3. (open \o g) \o e = open \o (g \o e)
      BY <1>8, Regroup
    <3> QED
      BY <2>5, <3>1, <3>2, <3>3
  <2> QED
    BY <2>1, <2>6, <2>7, <2>8
<1> HIDE DEF T
<1>11. 0 .. n \subseteq T
  BY <1>1, <1>9, <1>10, UpTo
<1>12. LexedTo(open \o f[n], "quoted", Append(words, str))
  <2>1. n \in T
    BY <1>1, <1>11
  <2> QED
    BY <1>6, <2>1 DEF T
<1>13. PICK all \in Octets : all = open \o f[n]
  BY <1>12 DEF LexedTo
<1>14. LexedTo(all \o <<QUOTE>>, "word", Append(words, str))
  <2>1. /\ Append(words, str) \in Words /\ Len(all) \in Nat
        /\ Follows(Lexed(all), Len(all), Append(words, str), "quoted")
    BY <1>12, <1>13 DEF LexedTo, Octets
  <2>2. PICK at \in {"quoted", "digits"} : at = "quoted"
    OBVIOUS
  <2>3. Follows(LexOctet(Lexed(all), QUOTE), Len(all) + 1, Append(words, str), "word")
    BY <2>1, <2>2, NotHere, AfterQuoted
  <2> QED
    BY <2>1, <2>3, NotHere, OneTo
<1>15. text \o (<<QUOTE>> \o f[n] \o <<QUOTE>>) = all \o <<QUOTE>>
  <2>1. PICK g \in Octets : g = f[n]
    BY <1>1, <1>4
  <2>2. PICK q \in Octets : q = <<QUOTE>>
    BY NotHere, OneOctet
  <2>3. PICK qg \in Octets : qg = q \o g
    BY Regroup
  <2>4. text \in Octets
    BY <1>3
  <2>5. text \o (qg \o q) = (text \o qg) \o q
    BY <2>4, Regroup, ZenonT(60)
  <2>6. text \o (q \o g) = (text \o q) \o g
    BY <2>4, Regroup, ZenonT(60)
  <2> QED
    BY <1>13, <2>1, <2>2, <2>3, <2>5, <2>6 DEF open
<1> QED
  BY <1>14, <1>15 DEF n, f

LEMMA WordReturns ==
  ASSUME NEW text, NEW words, LexedTo(text, "between", words),
         NEW str \in Octets, ToSet(str) \subseteq 0 .. DEL
  PROVE  LexedTo(text \o Quoted(str), "word", Append(words, str))
<1>1. CASE str # <<>> /\ ToSet(str) \subseteq Bare
  <2>1. Quoted(str) = str
    BY <1>1, QuotedIs
  <2> QED
    BY <1>1, <2>1, BareReturns
<1>2. CASE ~(str # <<>> /\ ToSet(str) \subseteq Bare)
  <2>1. Quoted(str) = <<QUOTE>> \o TextOf(str)[Len(str)] \o <<QUOTE>>
    BY <1>2, QuotedIs
  <2> QED
    BY <2>1, QuotesReturn
<1> QED
  BY <1>1, <1>2

\* What Append writes for a word is not empty, and does not end in a ';'.
LEMMA QuotedEnd ==
  ASSUME NEW str \in Octets
  PROVE  LET q == Quoted(str) IN Len(q) > 0 /\ q[Len(q)] # CONTINUE
<1>1. CASE str # <<>> /\ ToSet(str) \subseteq Bare
  <2>1. Quoted(str) = str
    BY <1>1, QuotedIs
  <2>2. Len(str) > 0 /\ str[Len(str)] \in Bare
    BY <1>1 DEF ToSet, Octets
  <2>3. CONTINUE \notin Bare
    BY DEF CONTINUE, Bare, Underscore, Digits
  <2> QED
    BY <2>1, <2>2, <2>3
<1>2. CASE ~(str # <<>> /\ ToSet(str) \subseteq Bare)
  <2>1. PICK t \in Octets : t = <<QUOTE>> \o TextOf(str)[Len(str)]
    <3>1. Len(str) \in 0 .. Len(str)
      BY DEF Octets
    <3>2. PICK g \in Octets : g = TextOf(str)[Len(str)]
      BY <3>1, TextRun
    <3>3. PICK q \in Octets : q = <<QUOTE>>
      BY NotHere, OneOctet
    <3>4. q \o g \in Octets
      BY Regroup
    <3> QED
      BY <3>2, <3>3, <3>4
  <2>2. Quoted(str) = t \o <<QUOTE>>
    BY <1>2, <2>1, QuotedIs
  <2>3. Len(t \o <<QUOTE>>) = Len(t) + 1 /\ (t \o <<QUOTE>>)[Len(t) + 1] = QUOTE /\ Len(t) \in Nat
    BY NotHere DEF Octets
  <2> QED
    BY <2>2, <2>3 DEF QUOTE, CONTINUE
<1> QED
  BY <1>1, <1>2

\* What a line of words looks like, and how it is lexed.
LineText(text, words) ==
  /\ text \in Octets
  /\ words \in Words
  /\ words = <<>> => text = <<>>
  /\ words # <<>> => /\ Len(text) > 0 /\ text[Len(text)] # CONTINUE
                     /\ LexedTo(text, "word", words)

Buffer == [data : Octets, bol : Nat]

\* One more word on a line that begins behind "base".
LEMMA NextWord ==
  ASSUME NEW base \in Octets, NEW text, NEW words, LineText(text, words),
         NEW str \in Octets, ToSet(str) \subseteq 0 .. DEL,
         NEW b, b = [data |-> base \o text, bol |-> Len(base)]
  PROVE  \E u \in Octets : /\ AppendWord(b, str) = [data |-> base \o u, bol |-> Len(base)]
                           /\ LineText(u, Append(words, str))
<1>1. text \in Octets /\ words \in Words /\ Len(text) \in Nat /\ Len(base) \in Nat
  BY DEF LineText, Octets
<1>2. PICK space \in Octets : space = IF text = <<>> THEN <<>> ELSE <<SPACE>>
  BY NotHere, OneOctet
<1>3. AppendWord(b, str).data = ((base \o text) \o space) \o Quoted(str)
  <2>1. Len(base \o text) = Len(base) + Len(text)
    BY <1>1 DEF Octets
  <2>2. Len(base \o text) = Len(base) <=> text = <<>>
    BY <1>1, <2>1 DEF Octets
  <2> QED
    BY <1>2, <2>2 DEF AppendWord
<1>4. PICK before \in Octets : before = text \o space
  BY <1>1, Regroup
<1>5. LexedTo(before, "between", words)
  <2>1. CASE text = <<>>
    <3>1. words = <<>>
      BY <2>1 DEF LineText
    <3>2. before = <<>>
      BY <1>2, <1>4, <2>1
    <3>3. Follows(Lexing, 0, <<>>, "between")
      BY DEF Follows, Lexing, LexState, LexMode, Words, Octets
    <3> QED
      BY <1>1, <1>4, <3>1, <3>2, <3>3, LexedNothing DEF LexedTo
  <2>2. CASE text # <<>>
    <3>1. LexedTo(text, "word", words) /\ before = text \o <<SPACE>>
      BY <1>2, <1>4, <2>2 DEF LineText
    <3>2. Follows(Lexed(text), Len(text), words, "word")
      BY <3>1 DEF LexedTo
    <3>3. PICK at \in {"between", "word"} : at = "word"
      OBVIOUS
    <3>4. Follows(LexOctet(Lexed(text), SPACE), Len(text) + 1, words, "between")
      BY <1>1, <3>2, <3>3, NotHere, AfterUnquoted
    <3> QED
      BY <1>1, <3>1, <3>4, NotHere, OneTo
  <2> QED
    BY <2>1, <2>2
<1>6. PICK q \in Octets : q = Quoted(str)
  BY QuotedOctets
<1>7. Len(q) > 0 /\ q[Len(q)] # CONTINUE /\ Len(q) \in Nat
  BY <1>6, QuotedEnd DEF Octets
<1>8. PICK u \in Octets : u = before \o q
  BY Regroup
<1>9. ((base \o text) \o space) \o q = base \o u
  <2>1. text \in Octets /\ base \in Octets /\ space \in Octets /\ q \in Octets
    BY <1>1
  <2>2. Grouped(base, text, space, q)
    BY <2>1, RegroupFour, Zenon
  <2> QED
    BY <1>4, <1>8, <2>2, Zenon DEF Grouped
<1>10. LexedTo(u, "word", Append(words, str))
  BY <1>5, <1>6, <1>8, WordReturns
<1>11. Len(u) > 0 /\ u[Len(u)] # CONTINUE
  <2>1. Len(u) = Len(before) + Len(q) /\ Len(before) \in Nat
    BY <1>8 DEF Octets
  <2>2. u[Len(u)] = q[Len(q)]
    BY <1>7, <1>8, <2>1 DEF Octets
  <2> QED
    BY <1>7, <2>1, <2>2
<1>12. Append(words, str) \in Words /\ Append(words, str) # <<>>
  BY <1>1 DEF Words
<1>13. LineText(u, Append(words, str))
  BY <1>10, <1>11, <1>12 DEF LineText
<1>14. AppendWord(b, str) = [data |-> base \o u, bol |-> Len(base)]
  <2>1. PICK d : d = base \o text
    OBVIOUS
  <2>2. PICK x : AppendWord(b, str) = [b EXCEPT !.data = x]
    BY DEF AppendWord
  <2>3. [b EXCEPT !.data = x] = [data |-> x, bol |-> Len(base)]
    BY <2>1
  <2>4. x = base \o u
    BY <1>3, <1>6, <1>9, <2>2, <2>3
  <2> QED
    BY <2>2, <2>3, <2>4
<1> QED
  BY <1>13, <1>14

\* The buffer after each word of a line.
BufferAfter(b, words) ==
  LET buffer[n \in 0 .. Len(words)] ==
        IF n = 0 THEN BeginLine(b) ELSE AppendWord(buffer[n - 1], words[n])
  IN  buffer

LEMMA AppendWordBuffer ==
  ASSUME NEW b \in Buffer, NEW str \in Octets
  PROVE  AppendWord(b, str) \in Buffer
<1>1. PICK space \in Octets : space = IF Len(b.data) = b.bol THEN <<>> ELSE <<SPACE>>
  BY NotHere, OneOctet
<1>2. PICK q \in Octets : q = Quoted(str)
  BY QuotedOctets
<1>3. PICK d \in Octets : d = b.data
  BY DEF Buffer
<1>4. AppendWord(b, str) = [b EXCEPT !.data = (d \o space) \o q]
  BY <1>1, <1>2, <1>3 DEF AppendWord
<1>5. PICK e \in Octets : e = d \o space
  BY Regroup
<1>6. e \o q \in Octets
  BY Regroup
<1> QED
  BY <1>4, <1>5, <1>6 DEF Buffer

LEMMA LineRun ==
  ASSUME NEW b, BeginLine(b) \in Buffer, NEW words \in Words
  PROVE  LET f == BufferAfter(b, words) IN
         /\ f[0] = BeginLine(b)
         /\ \A i \in 1 .. Len(words) : f[i] = AppendWord(f[i - 1], words[i])
<1> DEFINE n == Len(words)
           base == BeginLine(b)
           step == [i \in 1 .. n |-> [u \in Buffer |-> AppendWord(u, words[i])]]
           IsRun(f) == f = [i \in 0 .. n |-> IF i = 0 THEN base ELSE AppendWord(f[i - 1], words[i])]
<1>1. n \in Nat /\ \A i \in 1 .. n : words[i] \in Octets
  BY DEF Words
<1>2. base \in Buffer
  OBVIOUS
<1>3. \A i \in 1 .. n, u \in Buffer : AppendWord(u, words[i]) \in Buffer
  BY <1>1, AppendWordBuffer
<1>4. step \in Loop(n, Buffer)
  BY <1>3 DEF Loop
<1> HIDE DEF n, step, base
<1>5. PICK f : Runs(n, Buffer, base, step, f)
  BY <1>1, <1>2, <1>4, Iteration, Zenon
<1>6. \A i \in 1 .. n : f[i] = AppendWord(f[i - 1], words[i])
  <2> SUFFICES ASSUME NEW i \in 1 .. n PROVE f[i] = AppendWord(f[i - 1], words[i])
    OBVIOUS
  <2>1. f[i - 1] \in Buffer
    BY <1>1, <1>5 DEF Runs
  <2>2. step[i] = [u \in Buffer |-> AppendWord(u, words[i])]
    BY DEF step
  <2> QED
    BY <1>5, <2>1, <2>2 DEF Runs
<1>7. IsRun(f)
  <2>1. f \in [0 .. n -> Buffer] /\ f[0] = base
    BY <1>5 DEF Runs
  <2>2. \A i \in 0 .. n : f[i] = IF i = 0 THEN base ELSE AppendWord(f[i - 1], words[i])
    BY <1>1, <1>6, <2>1
  <2> HIDE DEF Buffer
  <2> QED
    BY <2>1, <2>2
<1>8. IsRun(BufferAfter(b, words))
  BY <1>7 DEF BufferAfter, n, base
<1>9. PICK g : g = BufferAfter(b, words)
  OBVIOUS
<1>10. g[0] = base /\ \A i \in 1 .. n : g[i] = AppendWord(g[i - 1], words[i])
  BY <1>1, <1>8, <1>9
<1> QED
  BY <1>9, <1>10 DEF n, base

\* A line of words, quoted where they need it, behind what the buffer has.
LEMMA LineReturns ==
  ASSUME NEW b, NEW base \in Octets, BeginLine(b) = [data |-> base, bol |-> Len(base)],
         NEW words \in Words, \A i \in DOMAIN words : ToSet(words[i]) \subseteq 0 .. DEL
  PROVE  \E t \in Octets : /\ AppendLine(b, words) = [data |-> base \o t, bol |-> Len(base)]
                           /\ LineText(t, words)
<1> DEFINE n == Len(words)
           f == BufferAfter(b, words)
           Part(i) == SubSeq(words, 1, i)
           Done(i) == \E t \in Octets : /\ f[i] = [data |-> base \o t, bol |-> Len(base)]
                                        /\ LineText(t, Part(i))
           T == {i \in 0 .. n : Done(i)}
<1>1. n \in Nat /\ \A i \in 1 .. n : words[i] \in Octets /\ ToSet(words[i]) \subseteq 0 .. DEL
  BY DEF Words
<1>2. f[0] = BeginLine(b) /\ \A i \in 1 .. n : f[i] = AppendWord(f[i - 1], words[i])
  <2>1. Len(base) \in Nat
    BY DEF Octets
  <2>2. BeginLine(b) \in Buffer
    BY <2>1 DEF Buffer
  <2> QED
    BY <2>2, LineRun
<1>3. AppendLine(b, words) = f[n]
  BY DEF AppendLine, BufferAfter
<1>4. \A i \in 0 .. n - 1 : Part(i + 1) = Append(Part(i), words[i + 1])
  BY PrefixGrows DEF Words
<1>5. Part(0) = <<>> /\ Part(n) = words
  BY SubSeqEmpty, SubSeqFull DEF Words
<1> HIDE DEF Part, n, f
<1>6. 0 \in T
  <2>1. base \o <<>> = base /\ <<>> \in Octets /\ <<>> \in Words
    BY ConcatEmptySeq DEF Octets, Words
  <2>2. LineText(<<>>, <<>>)
    BY <2>1 DEF LineText
  <2>3. f[0] = [data |-> base \o <<>>, bol |-> Len(base)]
    BY <1>2, <2>1
  <2>4. Done(0)
    BY <1>5, <2>1, <2>2, <2>3, Zenon
  <2> HIDE DEF Done
  <2> QED
    BY <1>1, <2>4
<1>7. \A i \in 0 .. n - 1 : i \in T => i + 1 \in T
  <2> SUFFICES ASSUME NEW i \in 0 .. n - 1, Done(i)
               PROVE  i + 1 \in 0 .. n /\ Done(i + 1)
    OBVIOUS
  <2>1. i + 1 \in 0 .. n /\ i + 1 \in 1 .. n /\ (i + 1) - 1 = i
    BY <1>1
  <2>2. PICK t \in Octets : /\ f[i] = [data |-> base \o t, bol |-> Len(base)]
                            /\ LineText(t, Part(i))
    OBVIOUS
  <2>3. PICK str \in Octets : str = words[i + 1] /\ ToSet(str) \subseteq 0 .. DEL
    BY <1>1, <2>1
  <2>4. PICK c : c = f[i]
    OBVIOUS
  <2>5. PICK u \in Octets : /\ AppendWord(c, str) = [data |-> base \o u, bol |-> Len(base)]
                            /\ LineText(u, Append(Part(i), str))
    <3>1. ToSet(str) \subseteq 0 .. DEL
      BY <2>3
    <3>2. c = [data |-> base \o t, bol |-> Len(base)] /\ LineText(t, Part(i))
      BY <2>2, <2>4
    <3> QED
      BY <3>1, <3>2, NextWord, Zenon
  <2>6. f[i + 1] = AppendWord(c, str) /\ Part(i + 1) = Append(Part(i), str)
    BY <1>2, <1>4, <2>1, <2>3, <2>4
  <2> QED
    BY <2>1, <2>5, <2>6
<1> HIDE DEF T
<1>8. 0 .. n \subseteq T
  BY <1>1, <1>6, <1>7, UpTo
<1>9. n \in T
  BY <1>1, <1>8
<1> QED
  BY <1>3, <1>5, <1>9 DEF T

\* Behind the newline of a line nothing changes what Lex made of it.
LEMMA EndedAbsorbs ==
  ASSUME NEW a \in Octets, Ended(Lexed(a)), NEW z \in Octets
  PROVE  Lexed(a \o z) = Lexed(a)
<1> DEFINE n == Len(z)
           Part(i) == SubSeq(z, 1, i)
           T == {i \in 0 .. n : Lexed(a \o Part(i)) = Lexed(a)}
<1>1. n \in Nat /\ \A i \in 1 .. n : z[i] \in Octet
  BY DEF Octets
<1>2. Part(0) = <<>> /\ Part(n) = z
  BY SubSeqEmpty, SubSeqFull DEF Octets
<1>3. ASSUME NEW i \in 0 .. n - 1
      PROVE  Part(i) \in Octets /\ Part(i + 1) = Append(Part(i), z[i + 1])
  <2>1. \A k \in 1 .. i : z[k] \in Octet
    BY <1>1
  <2>2. Part(i) \in Octets
    BY <2>1, SubSeqProperties DEF Octets
  <2>3. Part(i + 1) = Append(Part(i), z[i + 1])
    BY PrefixGrows DEF Octets
  <2> QED
    BY <2>2, <2>3
<1> HIDE DEF Part, n
<1>4. 0 \in T
  <2>1. a \o <<>> = a
    BY ConcatEmptySeq DEF Octets
  <2>2. a \o Part(0) = a
    BY <1>2, <2>1, Zenon
  <2>3. 0 \in 0 .. n
    BY <1>1
  <2> QED
    BY <2>2, <2>3, Zenon
<1>5. \A i \in 0 .. n - 1 : i \in T => i + 1 \in T
  <2> SUFFICES ASSUME NEW i \in 0 .. n - 1, Lexed(a \o Part(i)) = Lexed(a)
               PROVE  i + 1 \in 0 .. n /\ Lexed(a \o Part(i + 1)) = Lexed(a)
    OBVIOUS
  <2>1. i + 1 \in 0 .. n /\ i + 1 \in 1 .. n
    BY <1>1
  <2>2. PICK c \in Octet : c = z[i + 1]
    BY <1>1, <2>1
  <2>3. PICK p \in Octets : p = Part(i) /\ Part(i + 1) = Append(p, c)
    BY <1>3, <2>2
  <2>4. a \o p \in Octets
    BY Regroup
  <2>5. a \o Append(p, c) = (a \o p) \o <<c>>
    BY ConcatAppend DEF Octets
  <2>6. Lexed((a \o p) \o <<c>>) = LexOctet(Lexed(a \o p), c)
    BY <2>4, LexedMore
  <2>7. LexOctet(Lexed(a), c) = Lexed(a)
    BY EndedStays
  <2> QED
    BY <2>1, <2>3, <2>5, <2>6, <2>7
<1> HIDE DEF T
<1>6. 0 .. n \subseteq T
  BY <1>1, <1>4, <1>5, UpTo
<1>7. n \in T
  BY <1>1, <1>6
<1> QED
  BY <1>2, <1>7 DEF T

\* A line that another one follows, to the end of its newline.
LEMMA ContinuedLine ==
  ASSUME NEW t, NEW words, words # <<>>, LineText(t, words)
  PROVE  LET a == t \o <<SPACE, CONTINUE, NEWLINE>> IN
         /\ a \in Octets
         /\ Lexed(a).mode = "lexed" /\ Lexed(a).words = words /\ Lexed(a).used = Len(a)
<1> DEFINE s == Lexed(t)
           p == LexOctet(s, SPACE)
           q == LexOctet(p, CONTINUE)
           r == LexOctet(q, NEWLINE)
<1>1. /\ t \in Octets /\ words \in Words /\ Len(t) \in Nat
      /\ Follows(s, Len(t), words, "word")
  BY DEF LineText, LexedTo, Octets
<1>2. NEWLINE \in Octet
  BY DEF NEWLINE, Octet
<1>3. /\ t \o <<SPACE, CONTINUE, NEWLINE>> \in Octets
      /\ Lexed(t \o <<SPACE, CONTINUE, NEWLINE>>) = r
  BY <1>1, <1>2, NotHere, LexedThree
<1>4. Len(t \o <<SPACE, CONTINUE, NEWLINE>>) = Len(t) + 3
  BY <1>1 DEF Octets
<1>5. s \in LexState /\ s.used = Len(t) /\ s.mode = "word" /\ s.words = words
  BY <1>1 DEF Follows
<1> HIDE DEF s
<1>6. p \in LexState /\ p.used = Len(t) + 1 /\ UnquotedStep(s, p, SPACE)
  BY <1>5, NotHere, LexOneOctet DEF LexStep
<1> HIDE DEF p
<1>7. p.mode = "between" /\ p.words = words
  BY <1>5, <1>6 DEF UnquotedStep
<1>8. q \in LexState /\ q.used = (Len(t) + 1) + 1 /\ UnquotedStep(p, q, CONTINUE)
  BY <1>6, <1>7, NotHere, LexOneOctet DEF LexStep
<1> HIDE DEF q
<1>9. q.mode = "continue" /\ q.words = words
  BY <1>7, <1>8 DEF UnquotedStep
<1>10. r \in LexState /\ r.used = ((Len(t) + 1) + 1) + 1 /\ ContinueStep(q, r, NEWLINE)
  BY <1>2, <1>8, <1>9, LexOneOctet DEF LexStep
<1> HIDE DEF r
<1>11. r.mode = "lexed" /\ r.words = words
  BY <1>9, <1>10 DEF ContinueStep
<1>12. r.used = Len(t) + 3
  BY <1>1, <1>10
<1> QED
  BY <1>3, <1>4, <1>11, <1>12

\* The last line.
LEMMA LastLine ==
  ASSUME NEW t, NEW words, words # <<>>, LineText(t, words)
  PROVE  LET z == t \o <<NEWLINE>> IN
         /\ z \in Octets
         /\ Lexed(z).mode = "lexed" /\ Lexed(z).words = words
<1> DEFINE s == Lexed(t)
           r == LexOctet(s, NEWLINE)
<1>1. /\ t \in Octets /\ words \in Words /\ Len(t) \in Nat
      /\ Follows(s, Len(t), words, "word")
  BY DEF LineText, LexedTo, Octets
<1>2. NEWLINE \in Octet
  BY DEF NEWLINE, Octet
<1>3. t \o <<NEWLINE>> \in Octets /\ Lexed(t \o <<NEWLINE>>) = r
  BY <1>1, <1>2, LexedMore
<1>4. s \in LexState /\ s.mode = "word" /\ s.words = words
  BY <1>1 DEF Follows
<1> HIDE DEF s
<1>5. UnquotedStep(s, r, NEWLINE)
  BY <1>2, <1>4, LexOneOctet DEF LexStep
<1> HIDE DEF r
<1>6. r.mode = "lexed" /\ r.words = words
  BY <1>4, <1>5 DEF UnquotedStep
<1> QED
  BY <1>3, <1>6

\* There are no newlines in it but the one at its end.
LEMMA LineHasNoNewline ==
  ASSUME NEW t, NEW words, words # <<>>, LineText(t, words)
  PROVE  \A i \in 1 .. Len(t) : t[i] # NEWLINE
<1>1. t \in Octets /\ Lexed(t).mode = "word"
  BY DEF LineText, LexedTo, Follows
<1>2. ~Ended(Lexed(t))
  BY <1>1 DEF Ended
<1> QED
  BY <1>1, <1>2, NoNewlineYet

\* Between the lines of a block, and behind the last one.
Separator == <<SPACE, CONTINUE, NEWLINE>>
TwoLines(t, u) == (t \o Separator) \o (u \o <<NEWLINE>>)

\* The block of two lines of these words.
LEMMA BlockText ==
  ASSUME NEW words \in Words, words # <<>>,
         \A i \in DOMAIN words : ToSet(words[i]) \subseteq 0 .. DEL
  PROVE  \E t \in Octets, u \in Octets :
           /\ LineText(t, words) /\ LineText(u, words)
           /\ PrepareToWrite(AppendLine(AppendLine(EmptyBuffer, words), words)) =
                [data |-> TwoLines(t, u), bol |-> 0]
<1>1. <<>> \in Octets /\ Len(<<>>) = 0
  BY DEF Octets
<1>2. BeginLine(EmptyBuffer) = [data |-> <<>>, bol |-> Len(<<>>)]
  BY <1>1 DEF BeginLine, EmptyBuffer
<1>3. PICK t \in Octets : /\ AppendLine(EmptyBuffer, words) = [data |-> <<>> \o t, bol |-> Len(<<>>)]
                          /\ LineText(t, words)
  BY <1>1, <1>2, LineReturns, Zenon
<1>4. <<>> \o t = t
  BY ConcatEmptySeq DEF Octets
<1>5. PICK b : b = AppendLine(EmptyBuffer, words)
  OBVIOUS
<1>6. b.data = t /\ t # <<>>
  <2>1. Len(t) > 0
    BY <1>3 DEF LineText
  <2> QED
    BY <1>3, <1>4, <1>5, <2>1
<1>7. PICK a \in Octets : a = t \o Separator
  BY <1>3, ContinuedLine DEF Separator
<1>8. BeginLine(b) = [data |-> a, bol |-> Len(a)]
  BY <1>6, <1>7 DEF BeginLine, Separator
<1>9. PICK u \in Octets : /\ AppendLine(b, words) = [data |-> a \o u, bol |-> Len(a)]
                          /\ LineText(u, words)
  BY <1>8, LineReturns, Zenon
<1>10. PrepareToWrite(AppendLine(b, words)) = [data |-> Append(a \o u, NEWLINE), bol |-> 0]
  BY <1>9 DEF PrepareToWrite
<1>11. Append(a \o u, NEWLINE) = a \o (u \o <<NEWLINE>>)
  <2>1. NEWLINE \in Octet /\ a \in Seq(Octet) /\ u \in Seq(Octet)
    BY DEF NEWLINE, Octet, Octets
  <2>2. a \o Append(u, NEWLINE) = (a \o u) \o <<NEWLINE>>
    BY <2>1, ConcatAppend
  <2>3. Append(u, NEWLINE) = u \o <<NEWLINE>>
    BY <2>1, AppendIsConcat
  <2>4. PICK au \in Seq(Octet) : au = a \o u
    BY <2>1, ConcatProperties
  <2>5. Append(au, NEWLINE) = au \o <<NEWLINE>>
    BY <2>1, AppendIsConcat
  <2> QED
    BY <2>2, <2>3, <2>4, <2>5
<1>12. PrepareToWrite(AppendLine(b, words)) = [data |-> TwoLines(t, u), bol |-> 0]
  BY <1>7, <1>10, <1>11 DEF TwoLines
<1> QED
  BY <1>3, <1>5, <1>9, <1>12

\* Where the octets of the block are.
Layout(d, t, m, u, n) ==
  /\ d \in Octets /\ Len(d) = m + n + 4
  /\ \A i \in 1 .. m : d[i] = t[i]
  /\ d[m + 1] = SPACE /\ d[m + 2] = CONTINUE /\ d[m + 3] = NEWLINE
  /\ \A i \in 1 .. n : d[m + 3 + i] = u[i]
  /\ d[m + n + 4] = NEWLINE

LEMMA BlockPlaces ==
  ASSUME NEW t \in Octets, NEW u \in Octets
  PROVE  Len(t) \in Nat /\ Len(u) \in Nat /\ Layout(TwoLines(t, u), t, Len(t), u, Len(u))
<1>1. NEWLINE \in Octet /\ CONTINUE \in Octet /\ SPACE \in Octet
  BY NotHere DEF NEWLINE, Octet
<1>2. PICK m \in Nat : m = Len(t)
  BY DEF Octets
<1>3. PICK n \in Nat : n = Len(u)
  BY DEF Octets
<1>4. PICK a : a = t \o Separator
  OBVIOUS
<1>5. /\ a \in Octets /\ Len(a) = m + 3
      /\ \A i \in 1 .. m : a[i] = t[i]
      /\ a[m + 1] = SPACE /\ a[m + 2] = CONTINUE /\ a[m + 3] = NEWLINE
  BY <1>1, <1>2, <1>4 DEF Separator, Octets
<1>6. PICK z : z = u \o <<NEWLINE>>
  OBVIOUS
<1>7. /\ z \in Octets /\ Len(z) = n + 1
      /\ \A i \in 1 .. n : z[i] = u[i]
      /\ z[n + 1] = NEWLINE
  BY <1>1, <1>3, <1>6 DEF Octets
<1>8. PICK d : d = a \o z
  OBVIOUS
<1>9. /\ d \in Octets /\ Len(d) = Len(a) + Len(z)
      /\ \A i \in 1 .. Len(a) : d[i] = a[i]
      /\ \A i \in 1 .. Len(z) : d[Len(a) + i] = z[i]
  <2>1. PICK k \in Nat : k = Len(a)
    BY <1>5 DEF Octets
  <2>2. PICK l \in Nat : l = Len(z)
    BY <1>7 DEF Octets
  <2>3. a \in Octets /\ z \in Octets
    BY <1>5, <1>7
  <2>4. /\ d \in Octets /\ Len(d) = k + l
        /\ \A i \in 1 .. k : d[i] = a[i]
        /\ \A i \in 1 .. l : d[k + i] = z[i]
    BY <1>8, <2>1, <2>2, <2>3, ConcatProperties DEF Octets
  <2> QED
    BY <2>1, <2>2, <2>4
<1>10. /\ d \in Octets /\ Len(d) = m + n + 4
       /\ \A i \in 1 .. m : d[i] = t[i]
       /\ d[m + 1] = SPACE /\ d[m + 2] = CONTINUE /\ d[m + 3] = NEWLINE
  BY <1>5, <1>7, <1>9
<1>11. \A i \in 1 .. n : d[m + 3 + i] = u[i]
  BY <1>5, <1>7, <1>9
<1>12. d[m + n + 4] = NEWLINE
  <2>1. (m + 3) + (n + 1) = m + n + 4 /\ n + 1 \in 1 .. Len(z)
    BY <1>7
  <2> QED
    BY <1>5, <1>7, <1>9, <2>1
<1>13. d = TwoLines(t, u)
  BY <1>4, <1>6, <1>8 DEF TwoLines
<1>14. Layout(d, t, m, u, n)
  BY <1>10, <1>11, <1>12 DEF Layout
<1> QED
  BY <1>2, <1>3, <1>13, <1>14

\* Read finds one end in it.
LEMMA OneEnd ==
  ASSUME NEW words, words # <<>>, NEW t, LineText(t, words), NEW u, LineText(u, words)
  PROVE  LET d == TwoLines(t, u) IN \A i \in DOMAIN d : EndsBlock(d, i) <=> i = Len(d)
<1>1. t \in Octets /\ u \in Octets
  BY DEF LineText
<1>2. PICK d : d = TwoLines(t, u)
  OBVIOUS
<1>3. PICK m \in Nat : m = Len(t)
  BY <1>1 DEF Octets
<1>4. PICK n \in Nat : n = Len(u)
  BY <1>1 DEF Octets
<1>5. d \in Octets /\ Layout(d, t, m, u, n)
  <2>1. Layout(d, t, m, u, n)
    BY <1>1, <1>2, <1>3, <1>4, BlockPlaces
  <2> QED
    BY <2>1 DEF Layout
<1>6. /\ Len(d) = m + n + 4
      /\ \A i \in 1 .. m : d[i] = t[i]
      /\ d[m + 1] = SPACE /\ d[m + 2] = CONTINUE /\ d[m + 3] = NEWLINE
      /\ \A i \in 1 .. n : d[m + 3 + i] = u[i]
      /\ d[m + n + 4] = NEWLINE
  BY <1>5 DEF Layout
<1>7. n > 0 /\ u[n] # CONTINUE
  BY <1>4 DEF LineText
<1>8. \A i \in 1 .. m : t[i] # NEWLINE
  BY <1>3, LineHasNoNewline
<1>9. \A i \in 1 .. n : u[i] # NEWLINE
  BY <1>4, LineHasNoNewline
<1>10. DOMAIN d = 1 .. Len(d)
  BY <1>5 DEF Octets
<1>11. SPACE # NEWLINE /\ CONTINUE # NEWLINE
  BY DEF SPACE, CONTINUE, NEWLINE
<1>12. ASSUME NEW i \in DOMAIN d PROVE EndsBlock(d, i) <=> i = Len(d)
  <2>1. CASE i \in 1 .. m
    <3>1. d[i] # NEWLINE /\ i # Len(d)
      BY <1>6, <1>8, <2>1
    <3> QED
      BY <3>1 DEF EndsBlock
  <2>2. CASE i \in {m + 1, m + 2}
    <3>1. d[i] # NEWLINE /\ i # Len(d)
      BY <1>6, <1>11, <2>2
    <3> QED
      BY <3>1 DEF EndsBlock
  <2>3. CASE i = m + 3
    <3>1. i # 1 /\ i - 1 = m + 2 /\ i # Len(d)
      BY <1>6, <2>3
    <3> QED
      BY <1>6, <3>1 DEF EndsBlock
  <2>4. CASE i \in m + 4 .. m + n + 3
    <3>1. PICK j \in 1 .. n : i = m + 3 + j
      <4>1. i - (m + 3) \in 1 .. n /\ i = m + 3 + (i - (m + 3))
        BY <2>4
      <4> QED
        BY <4>1
    <3>2. d[m + 3 + j] = u[j]
      BY <1>6
    <3>3. d[i] # NEWLINE
      BY <1>9, <3>1, <3>2
    <3>4. i # Len(d)
      BY <1>6, <2>4
    <3> QED
      BY <3>3, <3>4 DEF EndsBlock
  <2>5. CASE i = m + n + 4
    <3>1. i - 1 = m + 3 + n /\ n \in 1 .. n /\ i # 1 /\ i = Len(d)
      BY <1>6, <1>7, <2>5
    <3>2. d[i - 1] # CONTINUE /\ d[i] = NEWLINE
      BY <1>6, <1>7, <2>5, <3>1
    <3> QED
      BY <3>1, <3>2 DEF EndsBlock
  <2> QED
    BY <1>6, <1>10, <2>1, <2>2, <2>3, <2>4, <2>5
<1> QED
  BY <1>2, <1>12

\* Both lines come back.
LEMMA BothLinesReturn ==
  ASSUME NEW words, words # <<>>, NEW t, LineText(t, words), NEW u, LineText(u, words)
  PROVE  LET first  == Lex([data |-> TwoLines(t, u), bol |-> 0])
             second == Lex(first.buffer)
         IN  /\ first.err = "0" /\ first.words = words
             /\ second.err = "0" /\ second.words = words
<1>1. PICK a : a = t \o Separator
  OBVIOUS
<1>2. /\ a \in Octets
      /\ Lexed(a).mode = "lexed" /\ Lexed(a).words = words /\ Lexed(a).used = Len(a)
  BY <1>1, ContinuedLine DEF Separator
<1>3. PICK z : z = u \o <<NEWLINE>>
  OBVIOUS
<1>4. z \in Octets /\ Lexed(z).mode = "lexed" /\ Lexed(z).words = words
  BY <1>3, LastLine
<1>5. PICK d : d = a \o z
  OBVIOUS
<1>6. TwoLines(t, u) = d
  BY <1>1, <1>3, <1>5 DEF TwoLines
<1>7. PICK k \in Nat : k = Len(a)
  BY <1>2 DEF Octets
<1>8. /\ d \in Octets /\ Len(d) = k + Len(z) /\ Len(z) \in Nat
      /\ \A i \in 1 .. Len(z) : d[k + i] = z[i]
  BY <1>2, <1>4, <1>5, <1>7, ConcatProperties DEF Octets
<1>9. PICK s : s = Lexed(a)
  OBVIOUS
<1>10. s.mode = "lexed" /\ s.words = words /\ s.used = k
  BY <1>2, <1>7, <1>9
<1>11. Lexed(d) = s
  <2>1. Ended(Lexed(a))
    BY <1>2 DEF Ended
  <2> QED
    BY <1>2, <1>4, <1>5, <1>9, <2>1, EndedAbsorbs
<1>12. s = Lexed(SubSeq(d, 0 + 1, Len(d)))
  <2>1. SubSeq(d, 0 + 1, Len(d)) = d
    BY <1>8, SubSeqFull DEF Octets
  <2> QED
    BY <1>11, <2>1, Zenon
<1>13. PICK first : first = Lex([data |-> d, bol |-> 0])
  OBVIOUS
<1>14. first.err = "0" /\ first.words = words /\ first.buffer = [data |-> d, bol |-> k]
  <2>1. Returns(first, d, 0, s)
    BY <1>12, <1>13, LexReturns
  <2> QED
    BY <1>7, <1>10, <2>1 DEF Returns
<1>15. SubSeq(d, k + 1, Len(d)) = z
  <2> DEFINE l == SubSeq(d, k + 1, Len(d))
  <2>1. l \in Octets /\ Len(l) = Len(z) /\ \A i \in 1 .. Len(z) : l[i] = d[k + i]
    BY <1>7, <1>8 DEF Octets
  <2> HIDE DEF l
  <2>2. \A i \in 1 .. Len(z) : l[i] = z[i]
    BY <1>8, <2>1
  <2>3. l = z
    BY <1>4, <2>1, <2>2, SeqEqual DEF Octets
  <2> QED
    BY <2>3 DEF l
<1>16. PICK second : second = Lex([data |-> d, bol |-> k])
  OBVIOUS
<1>17. PICK r : r = Lexed(z)
  OBVIOUS
<1>18. Returns(second, d, k, r)
  <2>1. r = Lexed(SubSeq(d, k + 1, Len(d)))
    BY <1>15, <1>17, Zenon
  <2> QED
    BY <1>16, <2>1, LexReturns
<1>19. second.err = "0" /\ second.words = words
  BY <1>4, <1>17, <1>18 DEF Returns
<1> QED
  BY <1>6, <1>13, <1>14, <1>16, <1>19, Zenon

LEMMA ReturnIInv == IInv => QuotedWordsReturn
<1> SUFFICES ASSUME IInv, meant # <<>>, \A i \in DOMAIN meant : ToSet(meant[i]) \subseteq 0 .. DEL
             PROVE  ComesBack(meant)
  BY DEF QuotedWordsReturn
<1>1. PICK words \in Words : words = meant
  BY DEF IInv
<1>2. words # <<>> /\ \A i \in DOMAIN words : ToSet(words[i]) \subseteq 0 .. DEL
  BY <1>1
<1>3. PICK t \in Octets, u \in Octets :
        /\ LineText(t, words) /\ LineText(u, words)
        /\ PrepareToWrite(AppendLine(AppendLine(EmptyBuffer, words), words)) =
             [data |-> TwoLines(t, u), bol |-> 0]
  BY <1>2, BlockText, Zenon
<1>4. PICK d : d = TwoLines(t, u)
  OBVIOUS
<1>5. \A i \in DOMAIN d : EndsBlock(d, i) <=> i = Len(d)
  BY <1>2, <1>3, <1>4, OneEnd
<1>6. PICK b : b = [data |-> d, bol |-> 0]
  OBVIOUS
<1>7. b.data = d
  BY <1>6
<1>8. /\ Lex(b).err = "0" /\ Lex(b).words = words
      /\ Lex(Lex(b).buffer).err = "0" /\ Lex(Lex(b).buffer).words = words
  <2>1. b = [data |-> TwoLines(t, u), bol |-> 0]
    BY <1>4, <1>6
  <2>2. words # <<>> /\ LineText(t, words) /\ LineText(u, words)
    BY <1>2, <1>3
  <2> QED
    BY <2>1, <2>2, BothLinesReturn
<1>9. b = PrepareToWrite(AppendLine(AppendLine(EmptyBuffer, words), words))
  BY <1>3, <1>4, <1>6
<1> QED
  BY <1>1, <1>5, <1>7, <1>8, <1>9, Zenon DEF ComesBack

\* Words of octets below 0x80, the empty one too, that the library quotes come
\* back from the lines they are written on, and the block of the two lines has
\* one end (buffer.cc:135-218 and 235-362).
THEOREM QuotedReturn == Spec => []QuotedWordsReturn
BY LexFollows, ReturnIInv, PTL
=============================================================================
