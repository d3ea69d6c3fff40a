------------------------------- MODULE Octets -------------------------------
(***************************************************************************)
(* What MessageBuffer takes for a word of one symbol: how words are quoted *)
(* (Append of buffer.cc) and how a line of octets is taken apart again     *)
(* (Lex), octet by octet.  An octet is its number.                         *)
(***************************************************************************)
EXTENDS Naturals, Sequences, SequencesExt

Octet == 0 .. 255

TAB      == 9
NEWLINE  == 10
SPACE    == 32
QUOTE    == 39
CONTINUE == 59
ESCAPE   == 92
DEL      == 127

LowerN == 110
LowerT == 116
Underscore == 95

Digits == 48 .. 57
LowerHex == Digits \cup 97 .. 102

\* [-+_/%.A-Za-z0-9], which need no quoting.
Bare ==
  {43, 45, 46, 47, 37, Underscore} \cup Digits \cup 65 .. 90 \cup 97 .. 122

Hex(n) == IF n < 10 THEN 48 + n ELSE 87 + n
HexValue(c) == IF c \in Digits THEN c - 48 ELSE c - 87

EmptyBuffer == [data |-> <<>>, bol |-> 0]

-----------------------------------------------------------------------------
(* Composing.                                                              *)

BeginLine(b) ==
  LET d == IF b.data = <<>> THEN <<>> ELSE b.data \o <<SPACE, CONTINUE, NEWLINE>>
  IN  [data |-> d, bol |-> Len(d)]

\* Mutation: quotes and backslashes are not escaped.
EscapedBare(c) ==
  CASE c = TAB            -> <<ESCAPE, LowerT>>
    [] c = NEWLINE        -> <<ESCAPE, LowerN>>
    [] c < SPACE \/ c = DEL -> <<ESCAPE, Hex(c \div 16), Hex(c % 16)>>
    [] OTHER              -> <<c>>

\* An octet within quotes; from 0x80 up as it is.
Escaped(c) ==
  CASE c = TAB               -> <<ESCAPE, LowerT>>
    [] c = NEWLINE           -> <<ESCAPE, LowerN>>
    [] c \in {QUOTE, ESCAPE} -> <<ESCAPE, c>>
    [] c \notin {TAB, NEWLINE} /\ (c < SPACE \/ c = DEL)
                             -> <<ESCAPE, Hex(c \div 16), Hex(c % 16)>>
    [] OTHER                 -> <<c>>

\* What Append puts into the buffer when asked to quote if need be.
Quoted(str) ==
  LET text[n \in 0 .. Len(str)] ==
        IF n = 0 THEN <<>> ELSE text[n - 1] \o Escaped(str[n])
  IN  IF str # <<>> /\ ToSet(str) \subseteq Bare THEN str
      ELSE <<QUOTE>> \o text[Len(str)] \o <<QUOTE>>

AppendWord(b, str) ==
  LET space == IF Len(b.data) = b.bol THEN <<>> ELSE <<SPACE>>
  IN  [b EXCEPT !.data = @ \o space \o Quoted(str)]

AppendLine(b, words) ==
  LET buffer[n \in 0 .. Len(words)] ==
        IF n = 0 THEN BeginLine(b) ELSE AppendWord(buffer[n - 1], words[n])
  IN  buffer[Len(words)]

PrepareToWrite(b) == [data |-> Append(b.data, NEWLINE), bol |-> 0]

-----------------------------------------------------------------------------
(* Lex, as an automaton over the octets of a line.                         *)
(*                                                                         *)
(* mode: "between" words; in a "word"; in "quoted" text of one, behind the *)
(* backslash of an "escape", behind the first of its hex "digits"; behind  *)
(* a ';' that must "continue" the line; "skipping" to the newline of a     *)
(* malformed line; "lexed", or "malformed", at its end.                    *)

Lexing == [mode |-> "between", words |-> <<>>, digit |-> 0, used |-> 0]

Ended(s) == s.mode \in {"lexed", "malformed"}

Into(s, mode) == [s EXCEPT !.mode = mode]
Push(s, c)    == [s EXCEPT !.words[Len(s.words)] = Append(@, c)]
NewWord(s)    == [s EXCEPT !.words = Append(@, <<>>)]

\* The jump to malformed: with c a newline the line has ended.
Malformed(s, c) == Into(s, IF c = NEWLINE THEN "malformed" ELSE "skipping")

LexUnquoted(s, c) ==
  CASE c \in {SPACE, TAB} -> Into(s, "between")
    [] c = NEWLINE        -> Into(s, "lexed")
    [] c = CONTINUE       -> IF s.mode = "word" THEN Malformed(s, c) ELSE Into(s, "continue")
    [] c < SPACE /\ c \notin {TAB, NEWLINE} -> Malformed(s, c)
    [] c >= DEL           -> Malformed(s, c)
    [] OTHER ->
         LET w == IF s.mode = "word" THEN s ELSE NewWord(s)
         IN  IF c = QUOTE THEN Into(w, "quoted") ELSE Into(Push(w, c), "word")

LexQuoted(s, c) ==
  CASE c < SPACE \/ c >= DEL -> Malformed(s, c)
    [] c = QUOTE             -> Into(s, "word")
    [] c = ESCAPE            -> Into(s, "escape")
    [] OTHER                 -> Into(Push(s, c), "quoted")

\* Mutation: what stands behind a backslash stands for itself, unless it is
\* one of the letters or digits.
LexEscapeAny(s, c) ==
  CASE c = LowerN              -> Into(Push(s, NEWLINE), "quoted")
    [] c = LowerT              -> Into(Push(s, TAB), "quoted")
    [] c = Underscore          -> Into(Push(s, SPACE), "quoted")
    [] c \in LowerHex          -> [Into(s, "digits") EXCEPT !.digit = HexValue(c)]
    [] OTHER                   -> Into(Push(s, c), "quoted")

LexEscape(s, c) ==
  CASE c \in {ESCAPE, QUOTE}   -> Into(Push(s, c), "quoted")
    [] c = LowerN              -> Into(Push(s, NEWLINE), "quoted")
    [] c = LowerT              -> Into(Push(s, TAB), "quoted")
    [] c = Underscore          -> Into(Push(s, SPACE), "quoted")
    [] c \in LowerHex          -> [Into(s, "digits") EXCEPT !.digit = HexValue(c)]
    [] OTHER                   -> Malformed(s, c)

\* Behind one hex digit: another one, or the escape has ended before c.
LexDigits(s, c) ==
  IF c \in LowerHex
  THEN Into(Push(s, 16 * s.digit + HexValue(c)), "quoted")
  ELSE LexQuoted(Push(s, s.digit), c)

LexContinue(s, c) == IF c = NEWLINE THEN Into(s, "lexed") ELSE Malformed(s, c)

LexOctet(s, c) ==
  IF Ended(s) THEN s
  ELSE LET u == [s EXCEPT !.used = @ + 1] IN
       CASE s.mode \in {"between", "word"} -> LexUnquoted(u, c)
         [] s.mode = "quoted"              -> LexQuoted(u, c)
         [] s.mode = "escape"              -> LexEscape(u, c)
         [] s.mode = "digits"              -> LexDigits(u, c)
         [] s.mode = "continue"            -> LexContinue(u, c)
         [] s.mode = "skipping"            -> Malformed(u, c)

\* After the first n octets of a line, for each n.
LexStates(octets) ==
  LET state[n \in 0 .. Len(octets)] ==
        IF n = 0 THEN Lexing ELSE LexOctet(state[n - 1], octets[n])
  IN  state

Lexed(octets) == LexStates(octets)[Len(octets)]

\* Without " ;" at its end.
StripContinuation(line) ==
  IF IsSuffix(<<SPACE, CONTINUE>>, line) THEN SubSeq(line, 1, Len(line) - 2) ELSE line

\* A malformed line is returned instead of its words.
Lex(b) ==
  LET s    == Lexed(SubSeq(b.data, b.bol + 1, Len(b.data)))
      line == SubSeq(b.data, b.bol + 1, b.bol + s.used - 1)
  IN  [err    |-> IF s.mode = "malformed" THEN "EINVAL"
                  ELSE IF s.words = <<>> THEN "ENOENT" ELSE "0",
       words  |-> IF s.mode = "malformed" THEN <<StripContinuation(line)>> ELSE s.words,
       buffer |-> [b EXCEPT !.bol = @ + s.used]]

\* The start of the line that ends before bol.
LineStart(d, bol) ==
  CHOOSE i \in 0 .. bol - 1 :
    /\ i = 0 \/ d[i] = NEWLINE
    /\ \A j \in i + 1 .. bol - 1 : d[j] # NEWLINE

\* Mutation: the continuation is not stripped.
LexedLineWhole(b, outside) ==
  SubSeq(b.data, LineStart(b.data, b.bol) + 1, b.bol - 1)

\* What appending a line of a negative length throws; no line holds a newline.
LengthError == <<NEWLINE>>

\* LexedLine looks two octets back from the newline, past the line's start
\* too: "outside" are the two octets that lie before the buffer.
LexedLine(b, outside) ==
  LET d     == outside \o b.data
      end   == b.bol + 1
      start == LineStart(b.data, b.bol)
      strip == IF d[end] = CONTINUE /\ d[end - 1] = SPACE THEN 2 ELSE 0
  IN  IF b.bol - 1 - strip < start THEN LengthError
      ELSE SubSeq(b.data, start + 1, b.bol - 1 - strip)

-----------------------------------------------------------------------------

\* Mutation: every newline ends a block.
EndsBlockAlways(d, i) == d[i] = NEWLINE

\* Read's test on a newline, here without the look at what came with it.
EndsBlock(d, i) == d[i] = NEWLINE /\ (i = 1 \/ d[i - 1] # CONTINUE)
=============================================================================
