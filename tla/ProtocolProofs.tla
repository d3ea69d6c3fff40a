--------------------------- MODULE ProtocolProofs ---------------------------
(***************************************************************************)
(* Lemmas about the verbs of requests and responses, and about the blocks  *)
(* of lines that the environments of this project send, which do not use   *)
(* class MessageBuffer: for every alphabet and every sequence of lines.    *)
(***************************************************************************)
EXTENDS Protocol, MessageBufferProofs

-----------------------------------------------------------------------------
(* Verbs.                                                                  *)

\* Every request has a response verb of its own, and HELLO is that of one.
LEMMA Verbs ==
  /\ ResponseVerbs(RC_CONNECT) = {"HELLO"}
  /\ ResponseVerbs(RC_MODULE_REPO) = {"PATHNAME"}
  /\ ResponseVerbs(RC_MODULE_EXPORT) = {"PATHNAME"}
  /\ ResponseVerbs(RC_MODULE_IMPORT) = {"PATHNAME"}
  /\ ResponseVerbs(RC_MODULE_COMPILED) = {"OK"}
  /\ ResponseVerbs(RC_INVOKE) = {"OK"}
  /\ ResponseVerbs(RC_INCLUDE_TRANSLATE) = {"BOOL", "PATHNAME"}
BY DEF ResponseVerbs, RC_CONNECT, RC_MODULE_REPO, RC_MODULE_EXPORT, RC_MODULE_IMPORT,
       RC_MODULE_COMPILED, RC_INVOKE, RC_INCLUDE_TRANSLATE

\* The codes of the requests a resolver gets.
LEMMA Codes ==
  \A code \in RequestCode \ {RC_CONNECT} :
    code \in {RC_MODULE_REPO, RC_MODULE_EXPORT, RC_MODULE_IMPORT, RC_MODULE_COMPILED,
              RC_INCLUDE_TRANSLATE, RC_INVOKE}
BY DEF RequestCode, RC_CONNECT, RC_MODULE_REPO, RC_MODULE_EXPORT, RC_MODULE_IMPORT,
       RC_MODULE_COMPILED, RC_INVOKE, RC_INCLUDE_TRANSLATE, RC_HWM

\* The code of a verb is the one that selects it.
LEMMA CodeOfVerb ==
  ASSUME NEW code \in RequestCode
  PROVE  CodeOf(requestTable[code]) = code
<1>1. \A x, y \in RequestCode : requestTable[x] = requestTable[y] => x = y
  BY DEF requestTable, RequestCode, RC_HWM
<1>2. \E x \in RequestCode : requestTable[x] = requestTable[code]
  OBVIOUS
<1>3. CodeOf(requestTable[code]) =
        CHOOSE x \in RequestCode : requestTable[x] = requestTable[code]
  BY <1>2, Zenon DEF CodeOf
<1> DEFINE c == CHOOSE x \in RequestCode : requestTable[x] = requestTable[code]
<1>4. c \in RequestCode /\ requestTable[c] = requestTable[code]
  BY <1>2, Zenon
<1> QED
  BY <1>1, <1>3, <1>4, Zenon

\* The verbs of the requests, and that they are words.
LEMMA RequestVerbs ==
  /\ \A code \in RequestCode : requestTable[code] \in Word /\ CodeOf(requestTable[code]) = code
  /\ RC_CONNECT \in RequestCode /\ requestTable[RC_CONNECT] = "HELLO"
  /\ RC_MODULE_REPO \in RequestCode /\ requestTable[RC_MODULE_REPO] = "MODULE-REPO"
  /\ RC_INVOKE \in RequestCode /\ requestTable[RC_INVOKE] = "INVOKE"
  /\ ModuleRequestCode \subseteq RequestCode
<1>1. \A code \in RequestCode : requestTable[code] \in Word
  BY WordAssumption, Zenon
<1>2. \A code \in RequestCode : CodeOf(requestTable[code]) = code
  BY CodeOfVerb
<1>3. /\ RC_CONNECT \in RequestCode /\ requestTable[RC_CONNECT] = "HELLO"
      /\ RC_MODULE_REPO \in RequestCode /\ requestTable[RC_MODULE_REPO] = "MODULE-REPO"
      /\ RC_INVOKE \in RequestCode /\ requestTable[RC_INVOKE] = "INVOKE"
  BY DEF RC_CONNECT, RC_MODULE_REPO, RC_INVOKE, RequestCode, RC_HWM, requestTable
<1>4. ModuleRequestCode \subseteq RequestCode
  BY DEF ModuleRequestCode, RC_MODULE_EXPORT, RC_MODULE_IMPORT, RC_MODULE_COMPILED,
         RC_INCLUDE_TRANSLATE, RequestCode, RC_HWM
<1> QED
  BY <1>1, <1>2, <1>3, <1>4

\* What a version or flags field may be.
LEMMA Numbers ==
  /\ \A w : ParseUnsigned(w) \in Int
  /\ \A w : w \notin DOMAIN Number => ParseUnsigned(w) < Version
<1>1. DOMAIN Number = {"", "0", "1", "2"}
  BY DEF Number
<1>2. \A w \in DOMAIN Number : Number[w] \in {0, 1, 2}
  BY DEF Number
<1>3. \A w : w \notin DOMAIN Number => ParseUnsigned(w) = -1
  BY Zenon DEF ParseUnsigned, Unparsable
<1>4. \A w : w \in DOMAIN Number => ParseUnsigned(w) = Number[w]
  BY Zenon DEF ParseUnsigned
<1> QED
  BY <1>2, <1>3, <1>4 DEF Version

\* The lines of the responses.
LEMMA ResponseLines ==
  /\ \A error \in ErrorText :
       /\ ErrorResponse(error) \in Seq(Word) /\ ErrorResponse(error) # <<>>
       /\ ErrorResponse(error)[1] = "ERROR"
  /\ \A cmi \in Word :
       /\ PathnameResponse(cmi) \in Seq(Word) /\ PathnameResponse(cmi) # <<>>
       /\ PathnameResponse(cmi)[1] = "PATHNAME"
  /\ \A truth \in BOOLEAN :
       /\ BoolResponse(truth) \in Seq(Word) /\ BoolResponse(truth) # <<>>
       /\ BoolResponse(truth)[1] = "BOOL"
  /\ OKResponse \in Seq(Word) /\ OKResponse # <<>> /\ OKResponse[1] = "OK"
  /\ /\ ConnectResponse("default") \in Seq(Word) /\ ConnectResponse("default") # <<>>
     /\ ConnectResponse("default")[1] = "HELLO"
<1>1. /\ "PATHNAME" \in Word /\ "OK" \in Word /\ "BOOL" \in Word /\ "ERROR" \in Word
      /\ "TRUE" \in Word /\ "FALSE" \in Word /\ "1" \in Word /\ "default" \in Word
  BY Zenon, WordAssumption
<1>2. \A error \in ErrorText : error \in Word
  BY Zenon, WordAssumption
<1>3. "HELLO" \in Word
  <2>1. RC_CONNECT \in RequestCode /\ requestTable[RC_CONNECT] = "HELLO"
    BY DEF RC_CONNECT, RequestCode, RC_HWM, requestTable
  <2> QED
    BY <2>1, Zenon, WordAssumption
<1> QED
  BY <1>1, <1>2, <1>3 DEF ErrorResponse, PathnameResponse, BoolResponse, OKResponse, ConnectResponse

\* The wordings of the errors.
LEMMA Errors ==
  /\ "unrecognized" \in ErrorText /\ "malformed" \in ErrorText
  /\ "already connected" \in ErrorText /\ "not connected" \in ErrorText
  /\ "error processing" \in ErrorText /\ "version mismatch" \in ErrorText
  /\ "refused" \in ErrorText /\ "unexpected connect call" \in ErrorText
  /\ "unimplemented" \in ErrorText /\ "failed" \in ErrorText
BY Zenon DEF ErrorText

-----------------------------------------------------------------------------
(* Lines in a buffer.                                                      *)

\* Lines that ask for what the codes say.
Requests(lines, codes) ==
  /\ lines \in Seq(Seq(Word) \ {<<>>})
  /\ Len(lines) = Len(codes)
  /\ \A i \in 1 .. Len(lines) : CodeOf(lines[i][1]) = codes[i]

\* The buffer holds the lines, composed and not finalized.
Told(b, lines) ==
  IF lines = <<>> THEN b = EmptyBuffer
  ELSE /\ b.data # <<>>
       /\ Composed(b.data)
       /\ LaidOut(Append(b.data, NEWLINE), lines)

\* Another line is told.
LEMMA TellOneMore ==
  ASSUME NEW b \in Buffer, NEW lines \in Seq(Seq(Word)), Told(b, lines),
         NEW words \in Seq(Word) \ {<<>>}
  PROVE  /\ AppendLine(b, words) \in Buffer
         /\ Append(lines, words) \in Seq(Seq(Word))
         /\ Told(AppendLine(b, words), Append(lines, words))
<1>1. Composed(b.data)
  BY DEF Told, Composed, EmptyBuffer
<1>2. /\ AppendLine(b, words) \in Buffer
      /\ Composed(AppendLine(b, words).data)
      /\ AppendLine(b, words).data # <<>>
  BY <1>1, AppendLineComposes
<1>3. Append(lines, words) \in Seq(Seq(Word)) /\ Append(lines, words) # <<>>
  OBVIOUS
<1>4. LaidOut(Append(AppendLine(b, words).data, NEWLINE), Append(lines, words))
  <2>1. CASE lines = <<>>
    <3>1. b.data = <<>>
      BY <2>1 DEF Told, EmptyBuffer
    <3>2. LaidOut(Append(AppendLine(b, words).data, NEWLINE), <<words>>)
      BY <3>1, FirstLineLaysOut
    <3>3. Append(lines, words) = <<words>>
      BY <2>1
    <3> QED
      BY <3>2, <3>3, Zenon
  <2>2. CASE lines # <<>>
    BY <2>2, <1>1, AppendLineLaysOut DEF Told
  <2> QED
    BY <2>1, <2>2
<1> QED
  BY <1>2, <1>3, <1>4, Zenon DEF Told

\* Finalizing what was told makes a block of it.
LEMMA ToldIsBlock ==
  ASSUME NEW b \in Buffer, NEW lines \in Seq(Seq(Word)), Told(b, lines), lines # <<>>
  PROVE  /\ PrepareToWrite(b) \in Buffer
         /\ PrepareToWrite(b).bol = 0
         /\ Framed(PrepareToWrite(b).data)
         /\ LaidOut(PrepareToWrite(b).data, lines)
<1>1. /\ b.data # <<>> /\ Composed(b.data)
      /\ LaidOut(Append(b.data, NEWLINE), lines)
  BY Zenon DEF Told
<1>2. /\ PrepareToWrite(b) \in Buffer
      /\ PrepareToWrite(b).bol = 0
      /\ Framed(PrepareToWrite(b).data)
  BY <1>1, PrepareToWriteFrames
<1>3. PrepareToWrite(b).data = Append(b.data, NEWLINE)
  BY DEF PrepareToWrite
<1> QED
  BY <1>1, <1>2, <1>3, Zenon

\* A line behind those of a queue makes the requests of a longer queue.
LEMMA OneMoreCode ==
  ASSUME NEW lines \in Seq(Seq(Word)), NEW codes \in Seq(RequestCode), Requests(lines, codes),
         NEW code \in RequestCode,
         NEW words \in Seq(Word) \ {<<>>}, CodeOf(words[1]) = code
  PROVE  Requests(Append(lines, words), Append(codes, code))
<1> DEFINE n == Len(lines)
           Good == Seq(Word) \ {<<>>}
<1>1. /\ lines \in Seq(Good) /\ n \in Nat /\ n = Len(codes)
      /\ \A i \in 1 .. n : CodeOf(lines[i][1]) = codes[i]
  BY DEF Requests
<1>2. /\ Append(lines, words) \in Seq(Good)
      /\ Len(Append(lines, words)) = n + 1
      /\ Append(lines, words)[n + 1] = words
      /\ \A i \in 1 .. n : Append(lines, words)[i] = lines[i]
  BY <1>1
<1>3. /\ Len(Append(codes, code)) = n + 1
      /\ Append(codes, code)[n + 1] = code
      /\ \A i \in 1 .. n : Append(codes, code)[i] = codes[i]
  BY <1>1
<1> HIDE DEF n
<1>4. \A i \in 1 .. n + 1 : i \in 1 .. n \/ i = n + 1
  BY <1>1
<1>5. \A i \in 1 .. n + 1 : CodeOf(Append(lines, words)[i][1]) = Append(codes, code)[i]
  BY <1>1, <1>2, <1>3, <1>4
<1> QED
  BY <1>2, <1>3, <1>5 DEF Requests

\* A layout tells what Lex does behind the first k of the lines.
LEMMA LexInLayout ==
  ASSUME NEW b \in Buffer, NEW lines \in Seq(Seq(Text)), NEW k \in 0 .. Len(lines),
         NEW at \in [1 .. Len(lines) + 1 -> 0 .. Len(b.data)],
         Layout(b.data, lines, at), b.bol = at[k + 1]
  PROVE  /\ IsAtEnd(b) <=> k = Len(lines)
         /\ k < Len(lines) =>
              /\ Lex(b).text = lines[k + 1]
              /\ Lex(b).buffer = [data |-> b.data, bol |-> at[k + 2]]
              /\ Lex(b).err = IF \E i \in 1 .. Len(lines[k + 1]) : lines[k + 1][i] \notin Word
                                THEN "EINVAL"
                                ELSE IF lines[k + 1] = <<>> THEN "ENOENT" ELSE "0"
              /\ IsAtEnd(Lex(b).buffer) <=> k + 1 = Len(lines)
<1> DEFINE n == Len(lines)
           d == b.data
<1>1. n \in Nat /\ k \in Nat /\ k <= n /\ d \in Seq(Symbol) /\ Len(d) \in Nat
  BY DEF Buffer
<1>2. /\ \A i \in 0 .. n : at[i + 1] \in Nat /\ at[i + 1] <= Len(d)
      /\ \A i, j \in 0 .. n : i < j => at[i + 1] < at[j + 1]
  BY <1>1, LayoutOrder
<1>3. at[n + 1] = Len(d) /\ \A i \in 1 .. n : LineAt(d, lines[i], at[i], at[i + 1])
  BY DEF Layout
<1> HIDE DEF n, d
<1>4. \A i \in 0 .. n : at[i + 1] = Len(d) <=> i = n
  <2> SUFFICES ASSUME NEW i \in 0 .. n
               PROVE  at[i + 1] = Len(d) <=> i = n
    OBVIOUS
  <2>1. n \in 0 .. n /\ (i # n => i < n)
    BY <1>1
  <2>2. i < n => at[i + 1] < at[n + 1]
    BY <1>2, <2>1
  <2>3. at[i + 1] \in Nat /\ Len(d) \in Nat
    BY <1>1, <1>2
  <2>4. i = n => at[i + 1] = Len(d)
    BY <1>3
  <2>5. i # n => at[i + 1] # Len(d)
    BY <1>3, <2>1, <2>2, <2>3
  <2> QED
    BY <2>4, <2>5
<1>5. IsAtEnd(b) <=> k = n
  <2>1. k \in 0 .. n
    BY <1>1
  <2> QED
    BY <1>4, <2>1 DEF IsAtEnd, d
<1>6. ASSUME k < n
      PROVE  /\ Lex(b).text = lines[k + 1]
             /\ Lex(b).buffer = [data |-> d, bol |-> at[k + 2]]
             /\ Lex(b).err = IF \E i \in 1 .. Len(lines[k + 1]) : lines[k + 1][i] \notin Word
                               THEN "EINVAL"
                               ELSE IF lines[k + 1] = <<>> THEN "ENOENT" ELSE "0"
             /\ IsAtEnd(Lex(b).buffer) <=> k + 1 = n
  <2>1. k + 1 \in 0 .. n /\ k + 1 \in 1 .. n /\ k + 1 + 1 = k + 2
    BY <1>1, <1>6
  <2>2. at[k + 2] \in Nat /\ at[k + 2] <= Len(d)
    <3>1. at[k + 1 + 1] \in Nat /\ at[k + 1 + 1] <= Len(d)
      BY <1>2, <2>1
    <3> QED
      BY <2>1, <3>1
  <2>3. LineAt(d, lines[k + 1], at[k + 1], at[k + 2])
    <3>1. LineAt(d, lines[k + 1], at[k + 1], at[k + 1 + 1])
      BY <1>3, <2>1
    <3> QED
      BY <2>1, <3>1
  <2>4. lines[k + 1] \in Seq(Text)
    BY <2>1 DEF n
  <2>5. /\ Lex(b).text = lines[k + 1]
        /\ Lex(b).buffer = [data |-> d, bol |-> at[k + 2]]
        /\ Lex(b).err = IF \E i \in 1 .. Len(lines[k + 1]) : lines[k + 1][i] \notin Word
                          THEN "EINVAL"
                          ELSE IF lines[k + 1] = <<>> THEN "ENOENT" ELSE "0"
    BY <2>2, <2>3, <2>4, LexOfAnyLine DEF d
  <2>6. IsAtEnd(Lex(b).buffer) <=> k + 1 = n
    <3>1. Lex(b).buffer.bol = at[k + 1 + 1] /\ Lex(b).buffer.data = d
      BY <2>1, <2>5
    <3>2. at[k + 1 + 1] = Len(d) <=> k + 1 = n
      BY <1>4, <2>1
    <3> QED
      BY <3>1, <3>2 DEF IsAtEnd
  <2> QED
    BY <2>5, <2>6
<1> QED
  BY <1>5, <1>6 DEF n, d

\* A queue of which the first k were taken, and one more.
LEMMA PendingShrinks ==
  ASSUME NEW S, NEW s \in Seq(S), NEW k \in Nat, k < Len(s)
  PROVE  LET p == SubSeq(s, k + 1, Len(s)) IN
         /\ Head(p) = s[k + 1]
         /\ Len(p) = 1 <=> k + 1 = Len(s)
         /\ Tail(p) \in Seq(S)
         /\ Tail(p) = SubSeq(s, (k + 1) + 1, Len(s))
         /\ k + 1 = Len(s) => Tail(p) = <<>>
<1> DEFINE n == Len(s)
           p == SubSeq(s, k + 1, n)
           q == SubSeq(s, (k + 1) + 1, n)
<1> SUFFICES /\ Head(p) = s[k + 1]
             /\ Len(p) = 1 <=> k + 1 = n
             /\ Tail(p) \in Seq(S)
             /\ Tail(p) = q
             /\ k + 1 = n => Tail(p) = <<>>
  OBVIOUS
<1>1. n \in Nat /\ k < n /\ n - (k + 1) + 1 = n - k /\ \A i \in 1 .. n : s[i] \in S
  OBVIOUS
<1>2. /\ p \in Seq(S) /\ Len(p) = n - k
      /\ \A i \in 1 .. n - k : p[i] = s[k + i]
  <2>1. \A i \in k + 1 .. n : s[i] \in S
    BY <1>1
  <2>2. /\ p \in Seq(S)
        /\ Len(p) = IF k + 1 <= n THEN n - (k + 1) + 1 ELSE 0
        /\ \A i \in 1 .. n - (k + 1) + 1 : p[i] = s[(k + 1) + i - 1]
    <3> HIDE DEF n
    <3> QED
      BY <1>1, <2>1, SubSeqProperties
  <2> HIDE DEF p, n
  <2>3. \A i \in 1 .. n - k : (k + 1) + i - 1 = k + i
    BY <1>1
  <2> QED
    BY <1>1, <2>2, <2>3
<1>3. /\ q \in Seq(S) /\ Len(q) = n - (k + 1)
      /\ \A i \in 1 .. n - (k + 1) : q[i] = s[(k + 1) + i]
  <2>1. \A i \in (k + 1) + 1 .. n : s[i] \in S
    BY <1>1
  <2>2. /\ q \in Seq(S)
        /\ Len(q) = IF (k + 1) + 1 <= n THEN n - ((k + 1) + 1) + 1 ELSE 0
        /\ \A i \in 1 .. n - ((k + 1) + 1) + 1 : q[i] = s[((k + 1) + 1) + i - 1]
    <3> HIDE DEF n
    <3> QED
      BY <1>1, <2>1, SubSeqProperties
  <2> HIDE DEF q, n
  <2>3. /\ n - ((k + 1) + 1) + 1 = n - (k + 1)
        /\ ~((k + 1) + 1 <= n) => n - (k + 1) = 0
        /\ \A i \in 1 .. n - (k + 1) : ((k + 1) + 1) + i - 1 = (k + 1) + i
    BY <1>1
  <2> QED
    BY <1>1, <2>2, <2>3
<1> HIDE DEF p, q, n
<1>4. p # <<>>
  BY <1>1, <1>2
<1>5. Head(p) = p[1]
  <2>1. \A T, t : t \in Seq(T) /\ t # <<>> => Head(t) = t[1]
    OBVIOUS
  <2> QED
    BY <2>1, <1>2, <1>4, Zenon
<1>6. /\ Tail(p) \in Seq(S) /\ Len(Tail(p)) = Len(p) - 1
      /\ \A i \in 1 .. Len(Tail(p)) : Tail(p)[i] = p[i + 1]
  BY <1>2, <1>4, HeadTailProperties
<1>7. Head(p) = s[k + 1]
  BY <1>1, <1>2, <1>5
<1>8. Tail(p) = q
  <2>1. Len(Tail(p)) = n - (k + 1) /\ n - (k + 1) \in Nat
    BY <1>1, <1>2, <1>6
  <2>2. ASSUME NEW i \in 1 .. n - (k + 1)
        PROVE  Tail(p)[i] = q[i]
    <3>1. i + 1 \in 1 .. n - k /\ k + (i + 1) = (k + 1) + i
      BY <1>1
    <3> QED
      BY <3>1, <2>1, <1>2, <1>3, <1>6
  <2> QED
    BY <2>1, <2>2, <1>3, <1>6, SeqEqual
<1>9. k + 1 = n => q = <<>>
  BY <1>1, <1>3, EmptySeq
<1> QED
  BY <1>1, <1>2, <1>6, <1>7, <1>8, <1>9

-----------------------------------------------------------------------------
(* Blocks.                                                                 *)

\* Joining sequences one behind the other goes through partial results, from
\* the empty sequence to the whole.
LEMMA FlattenSteps ==
  ASSUME NEW S, NEW s \in Seq(Seq(S)), s # <<>>
  PROVE  \E h \in [0 .. Len(s) -> Seq(S)] :
           /\ h[0] = <<>>
           /\ \A i \in 1 .. Len(s) : h[i] = h[i - 1] \o s[i]
           /\ FlattenSeq(s) = h[Len(s)]
<1> DEFINE n == Len(s)
           Steps(f, k) == \A i \in 1 .. k : f[i] = IF i = 1 THEN s[i] ELSE f[i - 1] \o s[i]
           Joined(k) == \E f \in [1 .. k -> Seq(S)] : Steps(f, k)
           Bad == {k \in 1 .. n : ~Joined(k)}
<1>1. n \in Nat /\ n > 0 /\ \A i \in 1 .. n : s[i] \in Seq(S)
  OBVIOUS
<1> HIDE DEF n
<1>2. Joined(1)
  <2> DEFINE f == [i \in 1 .. 1 |-> s[1]]
  <2>1. f \in [1 .. 1 -> Seq(S)]
    BY <1>1
  <2>2. Steps(f, 1)
    OBVIOUS
  <2> QED
    BY <2>1, <2>2
<1>3. ASSUME NEW k \in 1 .. n, k + 1 \in 1 .. n, Joined(k) PROVE Joined(k + 1)
  <2>1. PICK f \in [1 .. k -> Seq(S)] : Steps(f, k)
    BY <1>3
  <2> DEFINE g == [i \in 1 .. k + 1 |-> IF i \in 1 .. k THEN f[i] ELSE f[k] \o s[k + 1]]
  <2>2. k \in Nat /\ k \in 1 .. k /\ k + 1 \notin 1 .. k /\ k + 1 # 1 /\ (k + 1) - 1 = k
    BY <1>1
  <2>3. f[k] \o s[k + 1] \in Seq(S)
    BY <2>2, <1>1, <1>3, ConcatProperties
  <2>4. g \in [1 .. k + 1 -> Seq(S)]
    BY <2>3
  <2>5. /\ \A i \in 1 .. k : g[i] = f[i]
        /\ g[k + 1] = f[k] \o s[k + 1]
    BY <2>2
  <2> HIDE DEF g
  <2>6. ASSUME NEW i \in 1 .. k + 1 PROVE g[i] = IF i = 1 THEN s[i] ELSE g[i - 1] \o s[i]
    <3>1. CASE i \in 1 .. k
      <4>1. i # 1 => i - 1 \in 1 .. k
        BY <3>1, <2>2
      <4> QED
        BY <3>1, <4>1, <2>1, <2>5
    <3>2. CASE i = k + 1
      BY <3>2, <2>2, <2>5
    <3> QED
      BY <3>1, <3>2, <2>2
  <2> QED
    BY <2>4, <2>6
<1>4. Joined(n)
  <2> SUFFICES ASSUME ~Joined(n) PROVE FALSE
    OBVIOUS
  <2> HIDE DEF Joined
  <2>1. Bad \in SUBSET Nat /\ n \in Bad
    BY <1>1
  <2>2. PICK k \in Bad : \A j \in Bad : k <= j
    <3> HIDE DEF Bad
    <3> QED
      BY <2>1, LeastElement
  <2>3. k \in 1 .. n /\ k # 1 /\ k \in Nat /\ ~Joined(k)
    BY <1>2
  <2>4. k - 1 \in 1 .. n /\ (k - 1) + 1 = k /\ ~(k <= k - 1)
    BY <2>3, <1>1
  <2>5. Joined(k - 1)
    BY <2>2, <2>4
  <2> QED
    BY <2>2, <2>3, <2>4, <2>5, <1>3
<1>5. PICK g \in [1 .. n -> Seq(S)] : Steps(g, n)
  BY <1>4
<1> DEFINE R(f) == f = [i \in 1 .. n |-> IF i = 1 THEN s[i] ELSE f[i - 1] \o s[i]]
           flatten == CHOOSE f : R(f)
<1>6. R(g)
  BY <1>5
<1>7. R(flatten)
  <2> HIDE DEF R
  <2> QED
    BY <1>6
<1>8. FlattenSeq(s) = flatten[n]
  <2>1. n # 0
    BY <1>1
  <2> QED
    BY <2>1 DEF FlattenSeq, n
<1> HIDE DEF flatten
<1>9. \A i \in 1 .. n : flatten[i] = IF i = 1 THEN s[i] ELSE flatten[i - 1] \o s[i]
  BY <1>7
<1>10. flatten[n] = g[n]
  <2> DEFINE Differ == {i \in 1 .. n : flatten[i] # g[i]}
  <2> SUFFICES ASSUME flatten[n] # g[n] PROVE FALSE
    OBVIOUS
  <2>1. Differ \in SUBSET Nat /\ n \in Differ
    BY <1>1
  <2>2. PICK i \in Differ : \A j \in Differ : i <= j
    <3> HIDE DEF Differ
    <3> QED
      BY <2>1, LeastElement
  <2>3. i \in 1 .. n /\ flatten[i] # g[i]
    OBVIOUS
  <2>4. CASE i = 1
    BY <2>3, <2>4, <1>5, <1>9
  <2>5. CASE i # 1
    <3>1. i - 1 \in 1 .. n /\ ~(i <= i - 1)
      BY <2>3, <2>5, <1>1
    <3>2. flatten[i - 1] = g[i - 1]
      BY <2>2, <3>1
    <3> QED
      BY <3>2, <2>3, <2>5, <1>5, <1>9, ZenonT(60)
  <2> QED
    BY <2>4, <2>5
<1> DEFINE h == [i \in 0 .. n |-> IF i = 0 THEN <<>> ELSE g[i]]
<1>11. h \in [0 .. n -> Seq(S)]
  <2>1. \A i \in 0 .. n : i # 0 => i \in 1 .. n
    BY <1>1
  <2> QED
    BY <2>1, EmptySeq
<1>12. h[0] = <<>> /\ h[n] = g[n] /\ \A i \in 1 .. n : h[i] = g[i]
  BY <1>1
<1> HIDE DEF h
<1>13. ASSUME NEW i \in 1 .. n PROVE h[i] = h[i - 1] \o s[i]
  <2>1. CASE i = 1
    <3>1. i - 1 = 0 /\ s[i] \in Seq(S)
      BY <2>1, <1>1
    <3>2. g[i] = s[i]
      BY <2>1, <1>5
    <3>3. <<>> \o s[i] = s[i]
      BY <3>1, ConcatEmptySeq
    <3> QED
      BY <3>1, <3>2, <3>3, <1>12
  <2>2. CASE i # 1
    <3>1. i - 1 \in 1 .. n
      BY <2>2, <1>1
    <3> QED
      BY <3>1, <2>2, <1>5, <1>12
  <2> QED
    BY <2>1, <2>2
<1> QED
  BY <1>8, <1>10, <1>11, <1>12, <1>13 DEF n

\* A block holds its lines, and nothing else; and it ends nowhere before its
\* end when its last line does not look like one that is continued.
LEMMA BlockOfLines ==
  ASSUME NEW lines \in Seq(Seq(Text)), lines # <<>>
  PROVE  LET d == Block(lines)
             w == lines[Len(lines)]
         IN  /\ d \in Seq(Symbol)
             /\ LaidOut(d, lines)
             /\ (w # <<>> => w[Len(w)] \notin Glued) => Framed(d)
<1> DEFINE n == Len(lines)
           d == Block(lines)
           tail(i) == IF i = n THEN <<NEWLINE>> ELSE <<CONTINUE, NEWLINE>>
           s == [i \in 1 .. n |-> lines[i] \o tail(i)]
<1>1. n \in Nat /\ n > 0 /\ \A i \in 1 .. n : lines[i] \in Seq(Text) /\ lines[i] \in Seq(Symbol)
  <2>1. Seq(Text) \subseteq Seq(Symbol)
    BY DEF Text, Symbol
  <2> QED
    BY <2>1
<1>2. /\ \A i \in 1 .. n : tail(i) \in Seq(Symbol)
      /\ \A i \in 1 .. n : i = n => Len(tail(i)) = 1 /\ tail(i)[1] = NEWLINE
      /\ \A i \in 1 .. n : i # n => Len(tail(i)) = 2 /\ tail(i)[1] = CONTINUE /\ tail(i)[2] = NEWLINE
  <2>1. <<NEWLINE>> \in Seq(Symbol) /\ <<CONTINUE, NEWLINE>> \in Seq(Symbol)
    BY DEF Symbol
  <2> QED
    BY <2>1
<1> HIDE DEF n, tail
<1>3. ASSUME NEW i \in 1 .. n
      PROVE  /\ s[i] \in Seq(Symbol)
             /\ Len(s[i]) = Len(lines[i]) + (IF i = n THEN 1 ELSE 2)
             /\ \A j \in 1 .. Len(lines[i]) : s[i][j] = lines[i][j]
             /\ i # n => s[i][Len(lines[i]) + 1] = CONTINUE
             /\ s[i][Len(s[i])] = NEWLINE
  <2> DEFINE x == lines[i]
             y == tail(i)
  <2>1. x \in Seq(Symbol) /\ y \in Seq(Symbol) /\ s[i] = x \o y
    BY <1>1, <1>2
  <2>2. /\ i = n => Len(y) = 1 /\ y[1] = NEWLINE
        /\ i # n => Len(y) = 2 /\ y[1] = CONTINUE /\ y[2] = NEWLINE
    BY <1>2
  <2> HIDE DEF x, y
  <2>3. /\ x \o y \in Seq(Symbol) /\ Len(x \o y) = Len(x) + Len(y)
        /\ \A j \in 1 .. Len(x) : (x \o y)[j] = x[j]
        /\ \A j \in 1 .. Len(y) : (x \o y)[Len(x) + j] = y[j]
    BY <2>1
  <2>4. Len(x) \in Nat
    BY <2>1
  <2> DEFINE z == x \o y
  <2> HIDE DEF z
  <2>5. Len(z) = Len(x) + Len(y)
    BY <2>3 DEF z
  <2>6. \A j \in 1 .. Len(y) : z[Len(x) + j] = y[j]
    BY <2>3 DEF z
  <2>7. CASE i = n
    <3>1. Len(y) = 1
      BY <2>2, <2>7
    <3>2. Len(z) = Len(x) + 1 /\ 1 \in 1 .. Len(y)
      BY <3>1, <2>5
    <3>3. z[Len(x) + 1] = NEWLINE
      BY <3>2, <2>2, <2>6, <2>7
    <3> QED
      BY <3>2, <3>3, <2>1, <2>3, <2>7 DEF x, z
  <2>8. CASE i # n
    <3>1. Len(y) = 2
      BY <2>2, <2>8
    <3>2. Len(z) = Len(x) + 2 /\ 1 \in 1 .. Len(y) /\ 2 \in 1 .. Len(y)
      BY <3>1, <2>5
    <3>3. z[Len(x) + 1] = CONTINUE /\ z[Len(x) + 2] = NEWLINE
      BY <3>2, <2>2, <2>6, <2>8
    <3> QED
      BY <3>2, <3>3, <2>1, <2>3, <2>8 DEF x, z
  <2> QED
    BY <2>7, <2>8
<1>4. s \in Seq(Seq(Symbol)) /\ Len(s) = n /\ s # <<>>
  <2>1. s \in [1 .. n -> Seq(Symbol)]
    BY <1>3
  <2> HIDE DEF s
  <2> QED
    BY <2>1, <1>1
<1>5. d = FlattenSeq(s)
  BY DEF Block, s, n, tail
<1> HIDE DEF s, d
<1>6. PICK h \in [0 .. n -> Seq(Symbol)] :
        /\ h[0] = <<>>
        /\ \A i \in 1 .. n : h[i] = h[i - 1] \o s[i]
        /\ d = h[n]
  BY <1>4, <1>5, FlattenSteps
<1>7. ASSUME NEW i \in 1 .. n
      PROVE  /\ i - 1 \in 0 .. n
             /\ Len(h[i - 1]) \in Nat /\ Len(h[i]) = Len(h[i - 1]) + Len(s[i])
             /\ \A p \in 1 .. Len(h[i - 1]) : h[i][p] = h[i - 1][p]
             /\ \A j \in 1 .. Len(s[i]) : h[i][Len(h[i - 1]) + j] = s[i][j]
  <2>1. i - 1 \in 0 .. n /\ i \in 0 .. n
    BY <1>1
  <2>2. h[i - 1] \in Seq(Symbol) /\ s[i] \in Seq(Symbol) /\ h[i] = h[i - 1] \o s[i]
    BY <2>1, <1>3, <1>6
  <2> QED
    BY <2>1, <2>2
<1>8. \A i \in 0 .. n : h[i] \in Seq(Symbol) /\ Len(h[i]) \in Nat
  BY <1>6
\* What is joined stays as it is.
<1>9. ASSUME NEW i \in 0 .. n, NEW j \in i .. n
      PROVE  /\ Len(h[i]) <= Len(h[j])
             /\ \A p \in 1 .. Len(h[i]) : h[j][p] = h[i][p]
  <2> DEFINE Kept(k) == /\ Len(h[i]) <= Len(h[k])
                        /\ \A p \in 1 .. Len(h[i]) : h[k][p] = h[i][p]
             Bad == {k \in i .. n : ~Kept(k)}
  <2> SUFFICES ASSUME ~Kept(j) PROVE FALSE
    OBVIOUS
  <2>1. Bad \in SUBSET Nat /\ j \in Bad
    BY <1>1
  <2>2. Kept(i)
    BY <1>8
  <2> HIDE DEF Kept
  <2>3. PICK k \in Bad : \A x \in Bad : k <= x
    <3> HIDE DEF Bad
    <3> QED
      BY <2>1, LeastElement
  <2>4. k \in i .. n /\ ~Kept(k) /\ k # i
    BY <2>2
  <2>5. k \in 1 .. n /\ k - 1 \in i .. n /\ ~(k <= k - 1) /\ k - 1 \in 0 .. n
    BY <2>4, <1>1
  <2>6. Kept(k - 1)
    BY <2>3, <2>5
  <2>7. /\ Len(h[k]) = Len(h[k - 1]) + Len(s[k]) /\ Len(s[k]) \in Nat /\ Len(h[k - 1]) \in Nat
        /\ \A p \in 1 .. Len(h[k - 1]) : h[k][p] = h[k - 1][p]
    <3>1. s[k] \in Seq(Symbol)
      BY <2>5, <1>3
    <3>2. Len(s[k]) \in Nat
      BY <3>1
    <3> QED
      BY <3>2, <2>5, <1>7
  <2>8. Len(h[i]) <= Len(h[k - 1]) /\ \A p \in 1 .. Len(h[i]) : h[k - 1][p] = h[i][p]
    BY <2>6 DEF Kept
  <2>9. Len(h[i]) \in Nat
    BY <1>8
  <2> DEFINE x == Len(h[i])
             y == Len(h[k - 1])
             z == Len(s[k])
  <2>11. x \in Nat /\ y \in Nat /\ z \in Nat /\ x <= y /\ Len(h[k]) = y + z
    BY <2>7, <2>8, <2>9
  <2> HIDE DEF x, y, z
  <2>12. x <= y + z /\ \A p \in 1 .. x : p \in 1 .. y
    BY <2>11
  <2>13. \A p \in 1 .. x : h[k][p] = h[i][p]
    BY <2>7, <2>8, <2>12 DEF x, y
  <2>10. Kept(k)
    BY <2>11, <2>12, <2>13 DEF Kept, x
  <2> QED
    BY <2>4, <2>10
<1> DEFINE at == [i \in 1 .. n + 1 |-> Len(h[i - 1])]
<1>10. ASSUME NEW i \in 0 .. n PROVE at[i + 1] = Len(h[i]) /\ at[i + 1] \in 0 .. Len(d)
  <2>1. i + 1 \in 1 .. n + 1 /\ (i + 1) - 1 = i /\ n \in i .. n
    BY <1>1
  <2>2. Len(h[i]) <= Len(d) /\ Len(h[i]) \in Nat
    BY <2>1, <1>6, <1>8, <1>9
  <2>3. Len(d) \in Nat
    BY <1>1, <1>6, <1>8
  <2>4. at[i + 1] = Len(h[i])
    BY <2>1
  <2> QED
    BY <2>2, <2>3, <2>4
<1>11. ASSUME NEW i \in 1 .. n PROVE at[i] = Len(h[i - 1])
  BY <1>1
<1>12. at \in [1 .. n + 1 -> 0 .. Len(d)]
  <2>1. ASSUME NEW i \in 1 .. n + 1 PROVE at[i] \in 0 .. Len(d)
    <3>1. i - 1 \in 0 .. n /\ (i - 1) + 1 = i
      BY <1>1
    <3> HIDE DEF at
    <3>2. at[(i - 1) + 1] \in 0 .. Len(d)
      BY <3>1, <1>10
    <3> QED
      BY <3>1, <3>2
  <2> QED
    BY <2>1
<1> HIDE DEF at
\* The i-th line, and what ends it.
<1>13. ASSUME NEW i \in 1 .. n
       PROVE  /\ at[i + 1] = at[i] + Len(lines[i]) + (IF i = n THEN 1 ELSE 2)
              /\ \A j \in 1 .. Len(lines[i]) : d[at[i] + j] = lines[i][j]
              /\ d[at[i + 1]] = NEWLINE
              /\ i # n => d[at[i + 1] - 1] = CONTINUE
              /\ at[i] \in Nat /\ Len(lines[i]) \in Nat
  <2> DEFINE b == Len(h[i - 1])
             k == Len(lines[i])
             t == Len(s[i])
  <2>1. i - 1 \in 0 .. n /\ i \in 0 .. n /\ n \in i .. n
    BY <1>1
  <2>2. at[i] = b /\ at[i + 1] = Len(h[i]) /\ b \in Nat /\ k \in Nat
    <3>1. lines[i] \in Seq(Text)
      BY <1>1
    <3>2. k \in Nat
      BY <3>1
    <3> QED
      BY <3>2, <2>1, <1>8, <1>10, <1>11
  <2>3. /\ Len(h[i]) = b + t
        /\ \A j \in 1 .. t : h[i][b + j] = s[i][j]
    BY <1>7
  <2>4. \A p \in 1 .. b + t : d[p] = h[i][p]
    BY <2>1, <2>3, <1>6, <1>9
  <2>5. /\ t = k + (IF i = n THEN 1 ELSE 2)
        /\ \A j \in 1 .. k : s[i][j] = lines[i][j]
        /\ i # n => s[i][k + 1] = CONTINUE
        /\ s[i][t] = NEWLINE
    BY <1>3
  <2> HIDE DEF b, k, t
  <2>6. \A j \in 1 .. t : b + j \in 1 .. b + t /\ d[b + j] = s[i][j]
    <3>1. t \in Nat
      BY <2>2, <2>5
    <3>2. \A j \in 1 .. t : b + j \in 1 .. b + t
      BY <3>1, <2>2
    <3> QED
      BY <3>2, <2>3, <2>4
  <2>7. \A j \in 1 .. k : d[b + j] = lines[i][j]
    <3>1. \A j \in 1 .. k : j \in 1 .. t
      BY <2>2, <2>5
    <3> QED
      BY <3>1, <2>5, <2>6
  <2>8. d[b + t] = NEWLINE
    <3>1. t \in 1 .. t
      <4>1. t = k + 1 \/ t = k + 2
        BY <2>5
      <4>2. t \in Nat /\ t > 0
        BY <4>1, <2>2
      <4> QED
        BY <4>2
    <3> QED
      BY <3>1, <2>5, <2>6
  <2>9. i # n => d[(b + t) - 1] = CONTINUE
    <3>1. i # n => k + 1 \in 1 .. t /\ (b + t) - 1 = b + (k + 1)
      <4>1. i # n => t = k + 2
        BY <2>5
      <4>2. b \in Nat /\ k \in Nat
        BY <2>2
      <4> QED
        BY <4>1, <4>2
    <3> QED
      BY <3>1, <2>5, <2>6
  <2>10. b + t = b + k + (IF i = n THEN 1 ELSE 2)
    BY <2>2, <2>5
  <2>11. at[i + 1] = b + t
    BY <2>2, <2>3
  <2>12. /\ at[i + 1] = at[i] + k + (IF i = n THEN 1 ELSE 2)
         /\ d[at[i + 1]] = NEWLINE
         /\ i # n => d[at[i + 1] - 1] = CONTINUE
         /\ at[i] = b
    BY <2>2, <2>8, <2>9, <2>10, <2>11
  <2> QED
    BY <2>2, <2>7, <2>12 DEF k
<1>14. Layout(d, lines, at)
  <2>1. at[1] = 0 /\ at[n + 1] = Len(d)
    <3>1. 0 \in 0 .. n /\ n \in 0 .. n /\ 0 + 1 = 1
      BY <1>1
    <3>2. at[0 + 1] = Len(h[0]) /\ Len(h[0]) = 0
      BY <3>1, <1>6, <1>10
    <3> QED
      BY <3>1, <3>2, <1>6, <1>10
  <2>2. ASSUME NEW i \in 1 .. n PROVE LineAt(d, lines[i], at[i], at[i + 1])
    BY <1>13 DEF LineAt
  <2>3. ASSUME NEW i \in 1 .. n + 1, NEW j \in 1 .. n + 1, i < j PROVE at[i] < at[j]
    <3>1. i \in 1 .. n /\ i \in 0 .. n /\ j - 1 \in i .. n /\ j - 1 \in 0 .. n /\ (j - 1) + 1 = j
      BY <1>1, <2>3
    <3>2. at[i] < at[i + 1]
      BY <3>1, <1>13, SMTT(40)
    <3>3. Len(h[i]) <= Len(h[j - 1])
      BY <3>1, <1>9
    <3>4. at[i + 1] = Len(h[i]) /\ at[(j - 1) + 1] = Len(h[j - 1])
      BY <3>1, <1>10
    <3>5. at[j] = Len(h[j - 1]) /\ at[i] \in Nat /\ Len(h[i]) \in Nat /\ Len(h[j - 1]) \in Nat
      BY <3>1, <3>4, <1>8, <1>13
    <3> QED
      BY <3>2, <3>3, <3>4, <3>5
  <2> QED
    BY <2>1, <2>2, <2>3 DEF Layout, n
<1>15. d \in Seq(Symbol)
  BY <1>1, <1>6, <1>8
<1>16. ASSUME lines[n] # <<>> => lines[n][Len(lines[n])] \notin Glued
       PROVE  Framed(d)
  <2> DEFINE w == lines[n]
  <2>1. n \in 1 .. n /\ n \in 0 .. n
    BY <1>1
  <2>2. at[n + 1] = Len(d)
    BY <2>1, <1>6, <1>10
  <2>3. Len(d) > 0 /\ d[Len(d)] = NEWLINE
    <3>1. /\ at[n + 1] = at[n] + Len(lines[n]) + 1
          /\ d[at[n + 1]] = NEWLINE
          /\ at[n] \in Nat /\ Len(lines[n]) \in Nat
      BY <2>1, <1>13
    <3>2. at[n + 1] > 0
      BY <3>1
    <3> QED
      BY <3>1, <3>2, <2>2
  <2>4. EndsBlock(d, Len(d))
    <3> DEFINE e == Len(d)
    <3>1. CASE w # <<>>
      <4>1. /\ at[n] \in Nat /\ Len(w) \in Nat /\ Len(w) > 0
            /\ e = at[n] + Len(w) + 1
            /\ \A j \in 1 .. Len(w) : d[at[n] + j] = w[j]
            /\ w[Len(w)] \in Text
        <5>1. w \in Seq(Text)
          BY <2>1, <1>1
        <5> HIDE DEF w
        <5>2. w[Len(w)] \in Text /\ Len(w) > 0
          BY <3>1, <5>1
        <5> QED
          BY <2>1, <2>2, <5>2, <1>13 DEF w
      <4> DEFINE x == at[n]
                 y == Len(w)
      <4> HIDE DEF e, w
      <4>2. e - 1 = x + y /\ y \in 1 .. y
        <5> HIDE DEF x, y
        <5>1. x \in Nat /\ y \in Nat /\ y > 0 /\ e = x + y + 1
          BY <4>1 DEF x, y
        <5> QED
          BY <5>1
      <4>3. d[e - 1] = w[y]
        BY <4>1, <4>2
      <4>4. w[y] \notin Glued \cup {CONTINUE}
        <5>1. CONTINUE \notin Text
          BY AlphabetAssumption DEF Text
        <5> QED
          BY <5>1, <4>1, <3>1, <1>16 DEF w
      <4> QED
        BY <4>3, <4>4, <2>3 DEF EndsBlock, e
    <3>2. CASE w = <<>> /\ n = 1
      <4>1. Len(w) = 0
        BY <3>2
      <4>2. at[0 + 1] = Len(h[0])
        BY <1>1, <1>10
      <4>3. at[1] = 0
        BY <4>2, <1>6
      <4>4. e = 1
        <5>1. at[n + 1] = at[n] + Len(w) + 1
          BY <2>1, <1>13
        <5>2. at[n] = 0
          BY <4>3, <3>2
        <5>3. at[n] + Len(w) + 1 = 1
          BY <5>2, <4>1
        <5> QED
          BY <5>1, <5>3, <2>2
      <4> QED
        BY <4>4, <2>3 DEF EndsBlock
    <3>3. CASE w = <<>> /\ n # 1
      <4>1. n - 1 \in 1 .. n /\ (n - 1) + 1 = n
        BY <3>3, <1>1
      <4>2. d[at[(n - 1) + 1]] = NEWLINE
        BY <4>1, <1>13
      <4>3. Len(w) = 0
        BY <3>3
      <4>4. at[n] \in Nat /\ e = at[n] + 0 + 1
        BY <4>3, <2>1, <2>2, <1>13
      <4>5. e - 1 = at[n]
        BY <4>4
      <4>6. NEWLINE \notin Glued \cup {CONTINUE}
        BY AlphabetAssumption DEF NEWLINE, CONTINUE
      <4> QED
        BY <4>1, <4>2, <4>5, <4>6, <2>3 DEF EndsBlock
    <3> QED
      BY <3>1, <3>2, <3>3
  <2>5. ASSUME NEW p \in 1 .. Len(d), EndsBlock(d, p), p # Len(d) PROVE FALSE
    <3>1. d[p] = NEWLINE
      BY <2>5 DEF EndsBlock
    <3>2. PICK m \in 1 .. n : p = at[m + 1]
      BY <3>1, <1>12, <1>14, <1>15, LayoutNewlines DEF n
    <3>3. m # n
      BY <2>2, <2>5, <3>2
    <3>4. d[p - 1] = CONTINUE /\ p # 1
      <4>1. p = at[m] + Len(lines[m]) + 2 /\ at[m] \in Nat /\ Len(lines[m]) \in Nat
        BY <3>2, <3>3, <1>13
      <4> QED
        BY <4>1, <3>2, <3>3, <1>13, SMTT(40)
    <3> QED
      BY <3>4, <2>5 DEF EndsBlock
  <2> QED
    BY <2>3, <2>4, <2>5 DEF Framed
<1>17. LaidOut(d, lines)
  BY <1>12, <1>14 DEF LaidOut, n
<1> QED
  BY <1>15, <1>16, <1>17 DEF d, n


=============================================================================
