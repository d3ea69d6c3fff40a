--------------------------- MODULE MessageBuffer ---------------------------
(***************************************************************************)
(* The message buffer of libcody (class MessageBuffer of cody.hh and       *)
(* buffer.cc), as operators on a record [data, bol].                       *)
(*                                                                         *)
(* Octets are abstracted to symbols.  A maximal run of octets other than   *)
(* white space is one symbol, a NEWLINE is one, and white space is left    *)
(* out.  What the code distinguishes about a word is                       *)
(*   - Word:     it lexes; the symbol stands for the decoded word,         *)
(*   - CONTINUE: it is the single octet ';',                               *)
(*   - Glued:    it does not lex and its last octet is ';', so that Read   *)
(*               takes it for a continuation and Lex does not,             *)
(*   - Garbled:  any other word that does not lex (broken quoting).        *)
(* A read or a write may stop between any two symbols.  Stopping inside a  *)
(* word only postpones the symbol to the next call.                        *)
(*                                                                         *)
(* An operator whose name is that of another and what is wrong with it is  *)
(* a mutation, here and in the other modules: no behaviour uses it, and a  *)
(* property that holds must fail when it takes the other's place.          *)
(***************************************************************************)
EXTENDS Naturals, Sequences, SequencesExt

CONSTANTS Word, Glued, Garbled

CONTINUE == ";"
NEWLINE  == "NEWLINE"

ASSUME AlphabetAssumption ==
  /\ {CONTINUE, NEWLINE} \cap (Word \cup Glued \cup Garbled) = {}
  /\ Word \cap (Glued \cup Garbled) = {}
  /\ Glued \cap Garbled = {}

Symbol == Word \cup Glued \cup Garbled \cup {CONTINUE, NEWLINE}
Buffer == [data : Seq(Symbol), bol : Nat]

\* A fresh buffer, which is also what PrepareToRead leaves behind.
EmptyBuffer == [data |-> <<>>, bol |-> 0]

-----------------------------------------------------------------------------
(* Composing a block.                                                      *)

\* Mutation: the lines of a block are not joined.
BeginLineEndsBlock(b) ==
  LET d == IF b.data = <<>> THEN <<>> ELSE b.data \o <<NEWLINE>>
  IN  [data |-> d, bol |-> Len(d)]

BeginLine(b) ==
  LET d == IF b.data = <<>> THEN <<>> ELSE b.data \o <<CONTINUE, NEWLINE>>
  IN  [data |-> d, bol |-> Len(d)]

AppendWords(b, words) == [b EXCEPT !.data = @ \o words]

\* BeginLine, one AppendWord for each word, EndLine.
AppendLine(b, words) == AppendWords(BeginLine(b), words)

\* Mutation: writing starts where the last line was begun.
PrepareToWriteAtLastLine(b) == [b EXCEPT !.data = Append(@, NEWLINE)]

PrepareToWrite(b) == [data |-> Append(b.data, NEWLINE), bol |-> 0]

-----------------------------------------------------------------------------
(* Moving a block.                                                         *)

Unwritten(b) == SubSeq(b.data, b.bol + 1, Len(b.data))

\* Mutation: the -1 of a failing write(2) is added like a count.
WriteSomeCountsFailure(b, n) ==
  IF b.bol + n = Len(b.data)
  THEN [err |-> "0",      buffer |-> EmptyBuffer]
  ELSE [err |-> "EAGAIN", buffer |-> [b EXCEPT !.bol = @ - 1]]

\* Mutation: what write(2) took is written again.
WriteSomeKeepsPlace(b, n) ==
  IF b.bol + n = Len(b.data)
  THEN [err |-> "0",      buffer |-> EmptyBuffer]
  ELSE [err |-> "EAGAIN", buffer |-> b]

\* write(2) took the first n unwritten symbols.
WriteSome(b, n) ==
  IF b.bol + n = Len(b.data)
  THEN [err |-> "0",      buffer |-> EmptyBuffer]
  ELSE [err |-> "EAGAIN", buffer |-> [b EXCEPT !.bol = @ + n]]

\* The newline at i is not a continuation.  Read looks no further back than
\* one octet, and takes a newline that starts the buffer for an end.
EndsBlock(d, i) ==
  /\ d[i] = NEWLINE
  /\ i = 1 \/ d[i - 1] \notin Glued \cup {CONTINUE}

\* Mutation: the continuation is looked for only in what was just read.
ReadSomeForgets(b, chunk) ==
  LET low  == Len(b.data)
      d    == b.data \o chunk
      Ends == {i \in low + 1 .. Len(d) : d[i] = NEWLINE /\ (i = low + 1 \/ EndsBlock(d, i))}
      end  == CHOOSE i \in Ends : \A j \in Ends : i <= j
  IN  IF Ends = {} THEN [err |-> "EAGAIN", buffer |-> [b EXCEPT !.data = d]]
      ELSE [err    |-> IF end = Len(d) THEN "0" ELSE "EINVAL",
            buffer |-> [b EXCEPT !.data = SubSeq(d, 1, end)]]

\* Mutation: the first octet of what was just read is not looked at.
ReadSomeSkipsFirst(b, chunk) ==
  LET d == b.data \o chunk
  IN  [err    |-> IF Len(chunk) > 1 /\ EndsBlock(d, Len(d)) THEN "0" ELSE "EAGAIN",
       buffer |-> [b EXCEPT !.data = d]]

\* Mutation: two blocks that came together are taken for one.
ReadSomeTakesLast(b, chunk) ==
  LET low  == Len(b.data)
      d    == b.data \o chunk
      Ends == {i \in low + 1 .. Len(d) : EndsBlock(d, i)}
      end  == CHOOSE i \in Ends : \A j \in Ends : i >= j
  IN  IF Ends = {} THEN [err |-> "EAGAIN", buffer |-> [b EXCEPT !.data = d]]
      ELSE [err    |-> IF end = Len(d) THEN "0" ELSE "EINVAL",
            buffer |-> [b EXCEPT !.data = SubSeq(d, 1, end)]]

\* Mutation: without a newline in the chunk nothing more is asked for.
ReadSomeAsksNoMore(b, chunk) ==
  LET low  == Len(b.data)
      d    == b.data \o chunk
      Ends == {i \in low + 1 .. Len(d) : EndsBlock(d, i)}
      end  == CHOOSE i \in Ends : \A j \in Ends : i <= j
  IN  IF Ends = {} THEN [err    |-> IF \E i \in low + 1 .. Len(d) : d[i] = NEWLINE THEN "EAGAIN" ELSE "0",
                         buffer |-> [b EXCEPT !.data = d]]
      ELSE [err    |-> IF end = Len(d) THEN "0" ELSE "EINVAL",
            buffer |-> [b EXCEPT !.data = SubSeq(d, 1, end)]]

\* read(2) gave chunk: only the newlines in the chunk are looked at.
ReadSome(b, chunk) ==
  LET low  == Len(b.data)
      d    == b.data \o chunk
      Ends == {i \in low + 1 .. Len(d) : EndsBlock(d, i)}
      end  == CHOOSE i \in Ends : \A j \in Ends : i <= j
  IN  IF Ends = {} THEN [err |-> "EAGAIN", buffer |-> [b EXCEPT !.data = d]]
      ELSE [err    |-> IF end = Len(d) THEN "0" ELSE "EINVAL",
            buffer |-> [b EXCEPT !.data = SubSeq(d, 1, end)]]

-----------------------------------------------------------------------------
(* Taking a block apart.                                                   *)

IsAtEnd(b) == b.bol = Len(b.data)

\* The newline that ends the line starting at bol.
LineEnd(b) ==
  CHOOSE i \in b.bol + 1 .. Len(b.data) :
    /\ b.data[i] = NEWLINE
    /\ \A j \in b.bol + 1 .. i - 1 : b.data[j] # NEWLINE

\* Mutation: the continuation is a word.
WithoutContinuationIsIdentity(line) == line

WithoutContinuation(line) ==
  IF line # <<>> /\ line[Len(line)] = CONTINUE
  THEN SubSeq(line, 1, Len(line) - 1) ELSE line

\* Mutation: a line that does not lex is not skipped.
LexStaysAtError(b) ==
  LET end  == LineEnd(b)
      text == WithoutContinuation(SubSeq(b.data, b.bol + 1, end - 1))
      good == \A i \in 1 .. Len(text) : text[i] \in Word
  IN  [err    |-> IF ~good THEN "EINVAL" ELSE IF text = <<>> THEN "ENOENT" ELSE "0",
       text   |-> text,
       buffer |-> IF good THEN [b EXCEPT !.bol = end] ELSE b]

\* The words are meaningful when err is "0".  "text" is what LexedLine
\* appends afterwards, and what an EINVAL leaves in result[0].
Lex(b) ==
  LET end  == LineEnd(b)
      text == WithoutContinuation(SubSeq(b.data, b.bol + 1, end - 1))
  IN  [err    |-> IF \E i \in 1 .. Len(text) : text[i] \notin Word THEN "EINVAL"
                  ELSE IF text = <<>> THEN "ENOENT" ELSE "0",
       text   |-> text,
       buffer |-> [b EXCEPT !.bol = end]]

-----------------------------------------------------------------------------
(* The lines of a block, for the properties of the modules that use one.   *)

NewlinesUpTo(d, n) == {i \in 1 .. n : d[i] = NEWLINE}

\* The place of the i-th newline of d, which ends its i-th line.
LineBreak(d, i) ==
  IF i = 0 THEN 0
  ELSE CHOOSE p \in NewlinesUpTo(d, Len(d)) : Cardinality(NewlinesUpTo(d, p)) = i

LinesOf(d) ==
  [i \in 1 .. Cardinality(NewlinesUpTo(d, Len(d))) |->
     WithoutContinuation(SubSeq(d, LineBreak(d, i - 1) + 1, LineBreak(d, i) - 1))]
=============================================================================
