------------------------------ MODULE AnyLine ------------------------------
(***************************************************************************)
(* A line written by some peer, octet by octet, as README.md says lines    *)
(* may be written ("Packet Encoding"): words of abutted quoted and         *)
(* unquoted pieces, every octet in any of its encodings.  At any place the *)
(* peer may get it wrong.  What the library makes of the line is in the    *)
(* properties: it is lexed, the words are quoted and lexed again, and the  *)
(* last word is the name of a module or header unit, whose CMI is named.   *)
(***************************************************************************)
EXTENDS Octets, CMINames

CONSTANTS Plain,    \* octets it writes unquoted
          Spaced,   \* octets it writes between quotes as they are
          Coded,    \* octets it writes as hex escapes
          Broken,   \* octets it writes where they must not stand
          MaxSteps, \* bound on the pieces of a line
          MaxPlain  \* bound on the octets of a line that is plain throughout

ASSUME AnyLineAssumption ==
  /\ Plain  \subseteq (SPACE + 1 .. DEL - 1) \ {QUOTE, CONTINUE}
  /\ Spaced \subseteq (SPACE .. DEL - 1) \ {QUOTE, ESCAPE}
  /\ Coded  \subseteq Octet
  /\ Broken \subseteq Octet \ {NEWLINE}
  /\ MaxSteps \in Nat /\ MaxPlain \in Nat

VARIABLES
  line,   \* the octets so far
  meant,  \* the words they stand for
  place,  \* where in the grammar the peer is
  steps

vars == <<line, meant, place, steps>>

\* In "digits" an escape of one hex digit was written, which a digit must not
\* follow.  "wrong" is a line that is not well-formed, whatever follows, and
\* "disputed" one that README.md and Lex do not agree about.
Place == {"between", "word", "quoted", "digits", "wrong", "disputed"}

Init == line = <<>> /\ meant = <<>> /\ place = "between" /\ steps = 0

InQuotes == place \in {"quoted", "digits"}

Write(octets, next) ==
  /\ \/ steps < MaxSteps
     \/ ToSet(line \o octets) \subseteq Plain /\ steps < MaxPlain
  /\ line' = line \o octets
  /\ steps' = steps + 1
  /\ place' = next

\* The octets stand for c, in the current word or in a new one.
Means(c) ==
  meant' = IF place = "between" THEN Append(meant, <<c>>)
           ELSE [meant EXCEPT ![Len(meant)] = Append(@, c)]

Blank(c) ==
  /\ place \in {"between", "word"}
  /\ Write(<<c>>, "between")
  /\ UNCHANGED meant

PlainOctet(c) ==
  /\ place \in {"between", "word"}
  /\ Write(<<c>>, "word")
  /\ Means(c)

OpenQuote ==
  /\ place \in {"between", "word"}
  /\ Write(<<QUOTE>>, "quoted")
  /\ meant' = IF place = "between" THEN Append(meant, <<>>) ELSE meant

CloseQuote ==
  /\ InQuotes
  /\ Write(<<QUOTE>>, "word")
  /\ UNCHANGED meant

QuotedOctet(c) ==
  /\ InQuotes
  /\ place = "digits" => c \notin LowerHex
  /\ Write(<<c>>, "quoted")
  /\ Means(c)

\* \n, \t, \_, \' and \\.
NamedEscape(letter, c) ==
  /\ InQuotes
  /\ Write(<<ESCAPE, letter>>, "quoted")
  /\ Means(c)

Named == {<<LowerN, NEWLINE>>, <<LowerT, TAB>>, <<Underscore, SPACE>>,
          <<QUOTE, QUOTE>>, <<ESCAPE, ESCAPE>>}

OneDigit(c) ==
  /\ InQuotes
  /\ c < 16
  /\ Write(<<ESCAPE, Hex(c)>>, "digits")
  /\ Means(c)

TwoDigits(c) ==
  /\ InQuotes
  /\ Write(<<ESCAPE, Hex(c \div 16), Hex(c % 16)>>, "quoted")
  /\ Means(c)

\* What no reading of README.md allows: control characters, a ';' that is a
\* word but not the last, a backslash in quotes before something that needs none.
Wrong(c) ==
  /\ place \notin {"wrong", "disputed"}
  /\ \/ c < SPACE /\ c # TAB /\ Write(<<c>>, "wrong")
     \/ c \in {TAB, DEL} /\ InQuotes /\ Write(<<c>>, "wrong")
     \/ c = CONTINUE /\ place = "between" /\ Write(<<c, SPACE>>, "wrong")
     \/ /\ InQuotes
        /\ c \notin LowerHex \cup {e[1] : e \in Named}
        /\ Write(<<ESCAPE, c>>, "wrong")
  /\ UNCHANGED meant

\* What README.md:94-99 lets a peer write and Lex refuses: octets from 0x80 up,
\* and outside quotes DEL, and a ';' in a word.
Disputed(c) ==
  /\ place \notin {"wrong", "disputed"}
  /\ \/ c >= 128
     \/ c = DEL /\ ~InQuotes
     \/ c = CONTINUE /\ place = "word"
  /\ Write(<<c>>, "disputed")
  /\ UNCHANGED meant

\* Whatever comes behind either.
Junk(c) ==
  /\ place \in {"wrong", "disputed"}
  /\ Write(<<c>>, place)
  /\ UNCHANGED meant

Next ==
  \/ \E c \in {SPACE, TAB} : Blank(c)
  \/ \E c \in Plain : PlainOctet(c)
  \/ OpenQuote
  \/ CloseQuote
  \/ \E c \in Spaced : QuotedOctet(c)
  \/ \E e \in Named : NamedEscape(e[1], e[2])
  \/ \E c \in Coded : OneDigit(c)
  \/ \E c \in Coded : TwoDigits(c)
  \/ \E c \in Broken : Wrong(c)
  \/ \E c \in Broken : Disputed(c)
  \/ \E c \in Broken \cup {SPACE, QUOTE} : Junk(c)

Spec == Init /\ [][Next]_vars

-----------------------------------------------------------------------------
(* Properties.                                                             *)

WellFormed == place \in {"between", "word"}

\* The line, in a block with the line "b" behind it, and alone.
Whole(more) == line \o (IF more THEN <<SPACE, CONTINUE>> ELSE <<>>)
LineBehind == <<98>>
BlockWith(more) ==
  [data |-> Whole(more) \o <<NEWLINE>> \o (IF more THEN LineBehind \o <<NEWLINE>> ELSE <<>>),
   bol  |-> 0]

\* A line yields the words it means, however they are encoded; one that is not
\* well-formed, or ends inside quotes, yields EINVAL and itself; one that
\* README.md would have accepted may be refused only in the same way.  And
\* whatever is wrong with it, Lex ends right behind it, so that the next line is
\* lexed as ever (README.md:79-102, buffer.cc:275-287).
LexDecodes ==
  \A more \in BOOLEAN :
    LET l       == Lex(BlockWith(more))
        refused == l.err = "EINVAL"
        itself  == l.words = <<StripContinuation(Whole(more))>>
    IN
    /\ l.buffer.bol = Len(Whole(more)) + 1
    /\ WellFormed => l.err = (IF meant = <<>> THEN "ENOENT" ELSE "0") /\ l.words = meant
    /\ place \in {"wrong", "quoted", "digits"} => refused
    /\ refused => itself
    /\ more => Lex(l.buffer).words = <<LineBehind>>

\* "A serial connection can determine whether a block is complete without
\* decoding the messages" (README.md:74-77): Read, which looks at one octet
\* before a newline, and Lex agree about which newlines of well-formed lines
\* end a block, whatever octets the words hold.
ReadAndLexAgree ==
  WellFormed => \A more \in BOOLEAN :
    EndsBlock(BlockWith(more).data, Len(Whole(more)) + 1) <=> ~more

\* LexedLine is the line as it was written, without its continuation, which is
\* written " ;" here (cody.hh:142-145), also for a line that did not lex, and for
\* one shorter than the two octets LexedLine looks at: what lies before the line
\* does not matter.  It does if the line is the first of the buffer, and empty,
\* and a " ;" lies before the buffer: then two octets fewer than none are
\* appended, and the string throws.
LexedLineIsTheLine ==
  \A more \in BOOLEAN :
    LET l == Lex(BlockWith(more)) IN
    \A outside \in {0, SPACE} \X {0, CONTINUE} :
      /\ LexedLine(l.buffer, outside) =
           IF Whole(more) = <<>> /\ outside = <<SPACE, CONTINUE>> THEN LengthError
           ELSE StripContinuation(Whole(more))
      /\ more => LexedLine(Lex(l.buffer).buffer, outside) = LineBehind

\* Words that the library quotes come back as they were, on each of two lines,
\* and the block they make has one end.
ComesBack(words) ==
  LET b      == PrepareToWrite(AppendLine(AppendLine(EmptyBuffer, words), words))
      first  == Lex(b)
      second == Lex(first.buffer)
  IN  /\ first.err = "0" /\ first.words = words
      /\ second.err = "0" /\ second.words = words
      /\ \A i \in DOMAIN b.data : EndsBlock(b.data, i) <=> i = Len(b.data)

\* Whatever octets below 0x80 the words hold, and the empty word.
QuotedWordsReturn ==
  meant # <<>> /\ (\A i \in DOMAIN meant : ToSet(meant[i]) \subseteq 0 .. DEL)
    => ComesBack(meant)

Name == IF meant = <<>> THEN <<>> ELSE Last(meant)
CMIPath == GetCMIName(Name)

\* The components of a path: what lies between one separator and the next.
Components(path) ==
  {SubSeq(path, bounds[1], bounds[2]) :
     bounds \in {p \in (1 .. Len(path) + 1) \X (0 .. Len(path)) :
       /\ p[1] <= p[2] + 1
       /\ p[1] = 1 \/ path[p[1] - 1] = DIR_SEPARATOR
       /\ p[2] = Len(path) \/ path[p[2] + 1] = DIR_SEPARATOR
       /\ \A i \in p[1] .. p[2] : path[i] # DIR_SEPARATOR}}

\* "To keep all CMIs within the CMI repository" (README.md:232-240): the CMI
\* of a header unit, absolute or relative, is below the directory it is
\* relative to, whatever dots the name holds.
CMIInsideRepository ==
  Name # <<>> /\ IsHeader(Name) =>
    /\ ~IsAbsPath(CMIPath)
    /\ <<DOT, DOT>> \notin Components(CMIPath)

Replaced(path, from, to) ==
  [i \in DOMAIN path |-> IF path[i] = from THEN to ELSE path[i]]

\* With ".." in place of each directory ",,".
WithDotDots(path) ==
  LET Commas(i) == /\ 1 < i /\ i + 2 <= Len(path)
                   /\ path[i] = DOT_REPLACE /\ path[i + 1] = DOT_REPLACE
                   /\ path[i - 1] = DIR_SEPARATOR /\ path[i + 2] = DIR_SEPARATOR
  IN  [i \in DOMAIN path |-> IF Commas(i) \/ Commas(i - 1) THEN DOT ELSE path[i]]

\* What a path tells of the name of its CMI.  Only paths of header units have
\* separators; those of absolute ones begin with a dot.
NameOf(path) ==
  LET stem == SubSeq(path, 1, Len(path) - Len(CMISuffix)) IN
  IF DIR_SEPARATOR \notin ToSet(stem) THEN Replaced(stem, COLON_REPLACE, COLON)
  ELSE (IF stem[1] = DOT THEN <<>> ELSE <<DOT>>) \o Tail(WithDotDots(stem))

\* "Steps must be taken to distinguish the CMIs for /here from ./here"
\* (README.md:234): a module and a header unit never share a CMI; two header
\* units do only if one has a directory ",," where the other has "..", and two
\* modules only if one has a '-' where the other has a ':'.  The path tells all
\* but that, whatever else the names hold.
CMIsDistinct ==
  /\ Name # <<>> /\ IsHeader(Name) => NameOf(CMIPath) = WithDotDots(Name)
  /\ Name # <<>> /\ DIR_SEPARATOR \notin ToSet(Name) =>
       NameOf(CMIPath) = Replaced(Name, COLON_REPLACE, COLON)

-----------------------------------------------------------------------------
(* What the documentation says, and the code does not do.                  *)

\* "Octets in the range [0x80,0xff) are UTF8 encodings of unicode characters
\* outside the traditional ASCII set and passed as such" (README.md:94-96).
\* Here: words of ASCII and of letters of two octets.
IsUtf8(word) ==
  \A i \in DOMAIN word :
    \/ word[i] < 128
    \/ word[i] \in 194 .. 223 /\ i < Len(word) /\ word[i + 1] \in 128 .. 191
    \/ word[i] \in 128 .. 191 /\ i > 1 /\ word[i - 1] \in 194 .. 223

Utf8PassedAsSuch ==
  meant # <<>> /\ (\A i \in DOMAIN meant : IsUtf8(meant[i])) => ComesBack(meant)

\* "Unquoted words containing characters in the range [0x20,0xff] other than
\* BACKSLASH or APOSTROPHE should be accepted" (README.md:97-99).  A ';' is here
\* inside a word, where it is no continuation.
UnquotedAccepted ==
  /\ ToSet(line) \subseteq (SPACE .. 255) \ {QUOTE, ESCAPE}
  /\ \A i \in DOMAIN line :
       line[i] = CONTINUE => 1 < i /\ i < Len(line) /\ SPACE \notin {line[i - 1], line[i + 1]}
  => Lex(BlockWith(FALSE)).err # "EINVAL"
=============================================================================
