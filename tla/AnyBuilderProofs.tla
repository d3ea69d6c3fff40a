-------------------------- MODULE AnyBuilderProofs --------------------------
(***************************************************************************)
(* Proofs about a client and any builder, for every alphabet, every set of *)
(* lines the builder may send, every length of a batch and every capacity  *)
(* of the pipe: a batch arrives as it was made, and its packets tell what  *)
(* the lines of the builder say, each as the answer to its own request.    *)
(*                                                                         *)
(* The argument goes around with one batch.  Where the call is tells where *)
(* the requests are, then where the responses are, and how many of them    *)
(* have become packets.                                                    *)
(***************************************************************************)
EXTENDS AnyBuilder, ProtocolProofs

-----------------------------------------------------------------------------
(* The inductive invariant.                                                *)

EnvironmentTypeOK ==
  /\ heard \in Buffer
  /\ working \in BOOLEAN
  /\ sent \in Seq(Seq(Text))
  /\ greeted \in BOOLEAN
  /\ chatty \in BOOLEAN

\* The codes of the requests that a corked client has queued.
Queue == IF corked = <<>> THEN <<>> ELSE Tail(corked)

\* The i-th response is well-formed, and none is missing or superfluous.
PlainAnswer(i) ==
  /\ Len(sent) = Len(asked)
  /\ sent[i] \in Seq(Word)
  /\ Verb(sent[i]) \in {"OK", "PATHNAME"} \cap ResponseVerbs(asked[i])
  /\ Len(sent[i]) = (IF sent[i][1] = "OK" THEN 1 ELSE 2)

\* What a packet tells of the i-th response.
Tells(packet, i) ==
  /\ packet.code # "PC_ERROR" =>
       /\ i <= Len(sent)
       /\ Verb(sent[i]) \in ResponseVerbs(asked[i])
       /\ packet.request = asked[i]
       /\ packet.code \in {"PC_PATHNAME", "PC_BOOL"} => packet.value = sent[i][2]
       /\ packet.code = "PC_CONNECT" => packet.value = FlagsOf(sent[i])
  /\ packet.code = "PC_CONNECT" <=> GreetedBy(i)
  /\ PlainAnswer(i) =>
       packet.code = (IF sent[i][1] = "OK" THEN "PC_OK" ELSE "PC_PATHNAME")
  /\ i = Len(asked) /\ Len(sent) # Len(asked) => packet.code = "PC_ERROR"

\* The builder has no requests, and none are on their way to it.
BuilderAtRest ==
  peer_open => to = <<>> /\ heard = EmptyBuffer /\ ~working

\* The builder replied, with a block whose end is where it meant it to be.
Replied ==
  /\ sent # <<>>
  /\ LET last == sent[Len(sent)]
     IN  last # <<>> => last[Len(last)] \notin Glued
  /\ BuilderAtRest

\* The requests lie in what is to be written, finalized.
Queued ==
  IF Queue = <<>> THEN write.data = <<>>
  ELSE /\ write.data # <<>>
       /\ Composed(write.data)
       /\ \E lines \in Seq(Seq(Word)) :
            Requests(lines, Queue) /\ LaidOut(Append(write.data, NEWLINE), lines)

\* No call communicates.  A call that has, and was not followed by another
\* one, left its packets.
Idle ==
  /\ pending = <<>>
  /\ ~chatty => from = <<>>
  /\ BuilderAtRest
  /\ Queue \in Seq(RequestCode)
  /\ Queued
  /\ sent # <<>> =>
       \/ packets = <<CommunicationError>>
       \/ /\ asked # <<>>
          /\ Len(packets) = Len(asked)
          /\ \A i \in 1 .. Len(asked) : Tells(packets[i], i)
  /\ is_connected <=> greeted \/ Greeted

\* The requests are on their way to the builder, which has read some.
Asking(block) ==
  /\ pending = asked /\ asked # <<>> /\ packets = <<>>
  /\ read = EmptyBuffer /\ from = <<>> /\ sent = <<>>
  /\ ~chatty
  /\ is_connected <=> greeted
  /\ Framed(block)
  /\ \E lines \in Seq(Seq(Word)) : Requests(lines, asked) /\ LaidOut(block, lines)

\* They are not all written yet.
Writing ==
  /\ Asking(write.data)
  /\ write.bol < Len(write.data)
  /\ peer_open =>
       /\ ~working
       /\ write.bol = Len(heard.data) + Len(to)
       /\ Starts(write.data, heard.data, to)

\* They are, and there is no reply.
Waiting(block) ==
  /\ write = EmptyBuffer
  /\ Asking(block)
  /\ peer_open =>
       IF working THEN heard.data = block /\ to = <<>>
       ELSE Len(block) = Len(heard.data) + Len(to) /\ Starts(block, heard.data, to)

\* The responses are on their way to the client, which has read some.
Answered ==
  /\ write = EmptyBuffer
  /\ pending = asked /\ asked # <<>> /\ packets = <<>>
  /\ Replied
  /\ read.bol = 0
  /\ Starts(Block(sent), read.data, from)
  /\ ~chatty => Len(read.data) + Len(from) <= Len(Block(sent))
  /\ peer_open => Len(read.data) + Len(from) >= Len(Block(sent))
  /\ is_connected <=> greeted

\* The client makes packets of them.
Parsing ==
  LET k == Len(packets)
      m == IF k < Len(sent) THEN k ELSE Len(sent)
  IN  /\ write = EmptyBuffer
      /\ k < Len(asked)
      /\ pending = SubSeq(asked, k + 1, Len(asked))
      /\ ~chatty => from = <<>>
      /\ Replied
      /\ read.data = Block(sent)
      /\ \E at \in [1 .. Len(sent) + 1 -> 0 .. Len(read.data)] :
           Layout(read.data, sent, at) /\ read.bol = at[m + 1]
      /\ \A i \in 1 .. k : Tells(packets[i], i)
      /\ is_connected <=> greeted \/ \E i \in 1 .. k : packets[i].code = "PC_CONNECT"

TypeInv == ClientTypeOK /\ EnvironmentTypeOK

CallInv ==
  /\ call = "idle" => Idle
  /\ call = "writing" => Writing
  /\ call = "reading" => (\E block \in Seq(Symbol) : Waiting(block)) \/ Answered
  /\ call = "parsing" => Parsing

IInv == TypeInv /\ CallInv

-----------------------------------------------------------------------------
(* Packets.                                                                *)

\* What the functions of responseTable make of a line.
LEMMA ResponseTells ==
  ASSUME NEW code \in RequestCode, NEW words \in Seq(Word) \ {<<>>}
  PROVE  LET p == ResponsePacket(code, words) IN
         /\ p \in [code : PacketCode, request : {RC_CONNECT}, value : PacketValue]
         /\ p.code # "PC_ERROR" =>
              /\ words[1] \in ResponseVerbs(code)
              /\ p.code \in {"PC_PATHNAME", "PC_BOOL"} => p.value = words[2]
         /\ p.code = "PC_CONNECT" <=>
              /\ code = RC_CONNECT
              /\ words[1] = "HELLO"
              /\ Len(words) \in {3, 4}
              /\ ParseUnsigned(words[2]) >= Version
         /\ /\ words[1] \in {"OK", "PATHNAME"} \cap ResponseVerbs(code)
            /\ Len(words) = (IF words[1] = "OK" THEN 1 ELSE 2)
            => p.code = (IF words[1] = "OK" THEN "PC_OK" ELSE "PC_PATHNAME")
<1> DEFINE p == ResponsePacket(code, words)
           Connects == /\ code = RC_CONNECT
                       /\ words[1] = "HELLO"
                       /\ Len(words) \in {3, 4}
                       /\ ParseUnsigned(words[2]) >= Version
           Plain == /\ words[1] \in {"OK", "PATHNAME"} \cap ResponseVerbs(code)
                    /\ Len(words) = (IF words[1] = "OK" THEN 1 ELSE 2)
           Plainly == [code : PacketCode, request : {RC_CONNECT}, value : PacketValue]
           Good == {q \in Plainly :
             /\ q.code # "PC_ERROR" =>
                  /\ words[1] \in ResponseVerbs(code)
                  /\ q.code \in {"PC_PATHNAME", "PC_BOOL"} => q.value = words[2]
             /\ q.code = "PC_CONNECT" <=> Connects
             /\ Plain => q.code = (IF words[1] = "OK" THEN "PC_OK" ELSE "PC_PATHNAME")}
           error(value) == PlainPacket("PC_ERROR", value)
           pathname == IF words[1] = "PATHNAME" /\ Len(words) = 2
                       THEN PlainPacket("PC_PATHNAME", words[2]) ELSE error("")
<1> SUFFICES p \in Good
  OBVIOUS
<1>1. /\ Len(words) \in Nat
      /\ Len(words) = 2 => words[2] \in PacketValue
      /\ Len(words) = 4 => words[4] \in PacketValue
      /\ "" \in PacketValue /\ "0" \in PacketValue
      /\ IncompatibleVersion \in PacketValue
  <2>1. "" \in Word
    BY ClientAssumption, Zenon
  <2>2. IncompatibleVersion \in ProtocolError
    BY Zenon DEF ProtocolError
  <2>3. /\ Word \subseteq PacketValue /\ ProtocolError \subseteq PacketValue
        /\ "0" \in PacketValue
    BY DEF PacketValue
  <2>4. /\ Len(words) \in Nat
        /\ Len(words) = 2 => words[2] \in Word
        /\ Len(words) = 4 => words[4] \in Word
    OBVIOUS
  <2> QED
    BY <2>1, <2>2, <2>3, <2>4
<1>2. \A c, v : PlainPacket(c, v) = Packet(c, RC_CONNECT, v)
                /\ PlainPacket(c, v).code = c /\ PlainPacket(c, v).value = v
  BY DEF PlainPacket, Packet
<1>3. \A c \in PacketCode, v \in PacketValue : PlainPacket(c, v) \in Plainly
  BY DEF PlainPacket, Packet
<1> HIDE DEF Connects, Plain, p
<1>4. ASSUME NEW c \in PacketCode, NEW v \in PacketValue,
             c # "PC_ERROR" =>
               /\ words[1] \in ResponseVerbs(code)
               /\ c \in {"PC_PATHNAME", "PC_BOOL"} => v = words[2],
             c = "PC_CONNECT" <=> Connects,
             Plain => c = (IF words[1] = "OK" THEN "PC_OK" ELSE "PC_PATHNAME")
      PROVE  PlainPacket(c, v) \in Good
  BY <1>2, <1>3, <1>4
<1> HIDE DEF Good
<1>5. ASSUME ~Connects, ~Plain
      PROVE  /\ error("") \in Good
             /\ error(IncompatibleVersion) \in Good
  <2>1. "PC_ERROR" \in PacketCode
    BY DEF PacketCode
  <2>2. \A v \in PacketValue : PlainPacket("PC_ERROR", v) \in Good
    BY <1>4, <1>5, <2>1
  <2> QED
    BY <1>1, <2>2
<1>6. code # RC_CONNECT => ~Connects
  BY DEF Connects
<1>7. /\ {"PC_CONNECT", "PC_OK", "PC_BOOL", "PC_PATHNAME"} \subseteq PacketCode
  BY DEF PacketCode
<1>8. CASE code = RC_CONNECT
  <2>1. p = IF words[1] = "HELLO" /\ Len(words) \in {3, 4}
            THEN IF words[2] \notin DOMAIN Number \/ ParseUnsigned(words[2]) < Version
                 THEN error(IncompatibleVersion)
                 ELSE PlainPacket("PC_CONNECT",
                                  IF Len(words) = 4 /\ words[4] \in {"1", "2"} THEN words[4] ELSE "0")
            ELSE error("")
    BY <1>8 DEF p, ResponsePacket, RC_CONNECT, RC_MODULE_REPO, RC_MODULE_EXPORT,
                RC_MODULE_IMPORT, RC_MODULE_COMPILED, RC_INVOKE, RC_INCLUDE_TRANSLATE
  <2>2. ResponseVerbs(code) = {"HELLO"}
    BY <1>8, Verbs
  <2>3. /\ ParseUnsigned(words[2]) \in Int /\ Version \in Int
        /\ words[2] \notin DOMAIN Number => ParseUnsigned(words[2]) < Version
    BY Numbers DEF Version
  <2>4. ~Plain
    BY <2>2 DEF Plain
  <2>5. CASE Connects
    <3>1. /\ words[1] = "HELLO" /\ Len(words) \in {3, 4}
          /\ ParseUnsigned(words[2]) >= Version
      BY <2>5 DEF Connects
    <3>2. ~(words[2] \notin DOMAIN Number \/ ParseUnsigned(words[2]) < Version)
      BY <2>3, <3>1
    <3> DEFINE v == IF Len(words) = 4 /\ words[4] \in {"1", "2"} THEN words[4] ELSE "0"
    <3>3. p = PlainPacket("PC_CONNECT", v)
      BY <2>1, <3>1, <3>2, Zenon
    <3>4. v \in PacketValue
      <4>1. CASE Len(words) = 4 /\ words[4] \in {"1", "2"}
        BY <1>1, <4>1
      <4>2. CASE ~(Len(words) = 4 /\ words[4] \in {"1", "2"})
        BY <1>1, <4>2
      <4> QED
        BY <4>1, <4>2
    <3> HIDE DEF v
    <3>5. PlainPacket("PC_CONNECT", v) \in Good
      BY <1>4, <1>7, <2>2, <2>4, <2>5, <3>1, <3>4
    <3> QED
      BY <3>3, <3>5
  <2>6. CASE ~Connects
    <3>1. ~(words[1] = "HELLO" /\ Len(words) \in {3, 4} /\ ParseUnsigned(words[2]) >= Version)
      BY <1>8, <2>6 DEF Connects
    <3>2. p = error("") \/ p = error(IncompatibleVersion)
      <4>1. CASE words[1] = "HELLO" /\ Len(words) \in {3, 4}
        <5>1. words[2] \notin DOMAIN Number \/ ParseUnsigned(words[2]) < Version
          BY <2>3, <3>1, <4>1
        <5> QED
          BY <2>1, <4>1, <5>1, Zenon
      <4>2. CASE ~(words[1] = "HELLO" /\ Len(words) \in {3, 4})
        BY <2>1, <4>2, Zenon
      <4> QED
        BY <4>1, <4>2, Zenon
    <3> QED
      BY <1>5, <2>4, <2>6, <3>2, Zenon
  <2> QED
    BY <2>5, <2>6
<1>9. ASSUME code # RC_CONNECT, p = pathname, "PATHNAME" \in ResponseVerbs(code),
             "OK" \notin ResponseVerbs(code)
      PROVE  p \in Good
  <2>1. CASE words[1] = "PATHNAME" /\ Len(words) = 2
    <3>1. p = PlainPacket("PC_PATHNAME", words[2])
      BY <1>9, <2>1
    <3>2. words[2] \in PacketValue
      BY <1>1, <2>1
    <3>3. PlainPacket("PC_PATHNAME", words[2]) \in Good
      BY <1>4, <1>6, <1>7, <1>9, <2>1, <3>2
    <3> QED
      BY <3>1, <3>3
  <2>2. CASE ~(words[1] = "PATHNAME" /\ Len(words) = 2)
    <3>1. p = error("")
      BY <1>9, <2>2
    <3>2. ~Plain
      BY <1>9, <2>2 DEF Plain
    <3> QED
      BY <1>5, <1>6, <1>9, <3>1, <3>2
  <2> QED
    BY <2>1, <2>2
<1>10. CASE code \in {RC_MODULE_REPO, RC_MODULE_EXPORT, RC_MODULE_IMPORT}
  <2>0. /\ code \notin {RC_MODULE_COMPILED, RC_INVOKE}
        /\ code # RC_CONNECT /\ code # RC_INCLUDE_TRANSLATE
    BY <1>10 DEF RC_CONNECT, RC_MODULE_REPO, RC_MODULE_EXPORT,
                RC_MODULE_IMPORT, RC_MODULE_COMPILED, RC_INVOKE, RC_INCLUDE_TRANSLATE
  <2>1. p = pathname
    BY <1>10, <2>0 DEF p, ResponsePacket
  <2>2. ResponseVerbs(code) = {"PATHNAME"} /\ code # RC_CONNECT
    BY <1>10, Verbs DEF RC_CONNECT, RC_MODULE_REPO, RC_MODULE_EXPORT, RC_MODULE_IMPORT
  <2> QED
    BY <1>9, <2>1, <2>2
<1>11. CASE code \in {RC_MODULE_COMPILED, RC_INVOKE}
  <2>0. /\ code \notin {RC_MODULE_REPO, RC_MODULE_EXPORT, RC_MODULE_IMPORT}
        /\ code # RC_CONNECT /\ code # RC_INCLUDE_TRANSLATE
    BY <1>11 DEF RC_CONNECT, RC_MODULE_REPO, RC_MODULE_EXPORT,
                RC_MODULE_IMPORT, RC_MODULE_COMPILED, RC_INVOKE, RC_INCLUDE_TRANSLATE
  <2>1. p = IF words[1] = "OK" THEN PlainPacket("PC_OK", "")
            ELSE error(IF Len(words) = 2 THEN words[2] ELSE "")
    BY <1>11, <2>0 DEF p, ResponsePacket
  <2>2. ResponseVerbs(code) = {"OK"} /\ code # RC_CONNECT
    BY <1>11, Verbs DEF RC_CONNECT, RC_MODULE_COMPILED, RC_INVOKE
  <2>3. CASE words[1] = "OK"
    <3>1. PlainPacket("PC_OK", "") \in Good
      BY <1>1, <1>4, <1>6, <1>7, <2>2, <2>3
    <3> QED
      BY <2>1, <2>3, <3>1
  <2>4. CASE words[1] # "OK"
    <3> DEFINE v == IF Len(words) = 2 THEN words[2] ELSE ""
    <3>1. v \in PacketValue
      BY <1>1
    <3>2. p = error(v)
      BY <2>1, <2>4
    <3>3. ~Plain
      BY <2>2, <2>4 DEF Plain
    <3> HIDE DEF v
    <3>4. "PC_ERROR" \in PacketCode
      BY DEF PacketCode
    <3>5. error(v) \in Good
      BY <1>4, <1>6, <2>2, <3>1, <3>3, <3>4
    <3> QED
      BY <3>2, <3>5
  <2> QED
    BY <2>3, <2>4
<1>12. CASE code = RC_INCLUDE_TRANSLATE
  <2>1. p = IF words[1] = "BOOL" /\ Len(words) = 2
            THEN IF words[2] \in {"TRUE", "FALSE"}
                 THEN PlainPacket("PC_BOOL", words[2]) ELSE error("")
            ELSE pathname
    BY <1>12 DEF p, ResponsePacket, RC_CONNECT, RC_MODULE_REPO, RC_MODULE_EXPORT,
                RC_MODULE_IMPORT, RC_MODULE_COMPILED, RC_INVOKE, RC_INCLUDE_TRANSLATE
  <2>2. ResponseVerbs(code) = {"BOOL", "PATHNAME"} /\ code # RC_CONNECT
    BY <1>12, Verbs DEF RC_CONNECT, RC_INCLUDE_TRANSLATE
  <2>3. CASE words[1] = "BOOL" /\ Len(words) = 2
    <3>1. ~Plain
      BY <2>3 DEF Plain
    <3>2. words[2] \in PacketValue
      BY <1>1, <2>3
    <3>3. PlainPacket("PC_BOOL", words[2]) \in Good
      BY <1>4, <1>6, <1>7, <2>2, <2>3, <3>1, <3>2
    <3>4. error("") \in Good
      BY <1>5, <1>6, <2>2, <3>1
    <3>5. p = PlainPacket("PC_BOOL", words[2]) \/ p = error("")
      BY <2>1, <2>3
    <3> QED
      BY <3>3, <3>4, <3>5
  <2>4. CASE ~(words[1] = "BOOL" /\ Len(words) = 2)
    <3>1. p = pathname
      BY <2>1, <2>4
    <3> QED
      BY <1>9, <2>2, <3>1
  <2> QED
    BY <2>3, <2>4
<1> QED
  <2>1. code \in {RC_MODULE_REPO, RC_MODULE_EXPORT, RC_MODULE_IMPORT, RC_MODULE_COMPILED,
                  RC_INCLUDE_TRANSLATE, RC_INVOKE, RC_CONNECT}
    BY Codes
  <2> QED
    BY <1>8, <1>10, <1>11, <1>12, <2>1

\* The packet of a handshake has the flags of its line.
LEMMA HandshakeFlags ==
  ASSUME NEW words
  PROVE  LET p == ResponsePacket(RC_CONNECT, words) IN
         p.code = "PC_CONNECT" => p.value = FlagsOf(words)
<1> DEFINE p == ResponsePacket(RC_CONNECT, words)
<1>1. p = IF words[1] = "HELLO" /\ Len(words) \in {3, 4}
          THEN IF words[2] \notin DOMAIN Number \/ ParseUnsigned(words[2]) < Version
               THEN PlainPacket("PC_ERROR", IncompatibleVersion)
               ELSE PlainPacket("PC_CONNECT", FlagsOf(words))
          ELSE PlainPacket("PC_ERROR", "")
  BY DEF ResponsePacket, FlagsOf, RC_CONNECT, RC_MODULE_REPO, RC_MODULE_EXPORT,
         RC_MODULE_IMPORT, RC_MODULE_COMPILED, RC_INVOKE, RC_INCLUDE_TRANSLATE
<1>2. \A c, v : PlainPacket(c, v).code = c /\ PlainPacket(c, v).value = v
  BY DEF PlainPacket, Packet
<1> HIDE DEF p
<1>3. p.code = "PC_CONNECT" => p = PlainPacket("PC_CONNECT", FlagsOf(words))
  <2> DEFINE error(value) == PlainPacket("PC_ERROR", value)
  <2>1. error(IncompatibleVersion).code = "PC_ERROR" /\ error("").code = "PC_ERROR"
    BY <1>2
  <2> HIDE DEF error
  <2> QED
    BY <1>1, <2>1 DEF error
<1> QED
  BY <1>2, <1>3 DEF p

\* Each packet tells of its own response, whatever that is.
LEMMA NextPacketTells ==
  ASSUME sent \in Seq(Seq(Text)), asked \in Seq(RequestCode),
         NEW k \in Nat, k < Len(asked),
         NEW isLast, isLast <=> k + 1 = Len(asked),
         IsAtEnd(read) <=> k >= Len(sent),
         k < Len(sent) =>
           /\ Lex(read).text = sent[k + 1]
           /\ Lex(read).err = IF \E i \in 1 .. Len(sent[k + 1]) : sent[k + 1][i] \notin Word
                             THEN "EINVAL"
                             ELSE IF sent[k + 1] = <<>> THEN "ENOENT" ELSE "0"
           /\ IsAtEnd(Lex(read).buffer) <=> k + 1 = Len(sent)
  PROVE  LET p == NextPacket(asked[k + 1], isLast) IN
         /\ p \in [code : PacketCode, request : RequestCode, value : PacketValue]
         /\ Tells(p, k + 1)
<1> DEFINE i    == k + 1
           code == asked[i]
           line == sent[i]
           Packets == [code : PacketCode, request : RequestCode, value : PacketValue]
           p == NextPacket(code, isLast)
           q == ResponsePacket(code, line)
           r == IF line[1] = "ERROR"
                THEN PlainPacket("PC_ERROR", IF Len(line) = 2 THEN line[2] ELSE MalformedError)
                ELSE IF isLast /\ ~IsAtEnd(Lex(read).buffer)
                THEN PlainPacket("PC_ERROR", ExtraResponse)
                ELSE IF q.code = "PC_ERROR" /\ q.value = ""
                THEN Packet("PC_ERROR", code, MalformedResponse)
                ELSE Packet(q.code, code, q.value)
<1> SUFFICES p \in Packets /\ Tells(p, i)
  OBVIOUS
<1>1. /\ code \in RequestCode
      /\ RC_CONNECT \in RequestCode
      /\ k < Len(sent) => line \in Seq(Text)
      /\ Len(sent) \in Nat /\ Len(asked) \in Nat /\ i \in Nat
  BY DEF RC_CONNECT, RequestCode, RC_HWM
<1>2. /\ MissingResponse \in PacketValue /\ MalformedString \in PacketValue
      /\ ExtraResponse \in PacketValue /\ MalformedError \in PacketValue
      /\ MalformedResponse \in PacketValue
      /\ Word \subseteq PacketValue
  <2>1. /\ MissingResponse \in ProtocolError /\ MalformedString \in ProtocolError
        /\ ExtraResponse \in ProtocolError /\ MalformedError \in ProtocolError
        /\ MalformedResponse \in ProtocolError
    BY Zenon DEF ProtocolError
  <2> QED
    BY <2>1 DEF PacketValue
<1>3. ASSUME NEW v \in PacketValue, NEW c \in RequestCode,
             ~GreetedBy(i), ~PlainAnswer(i)
      PROVE  /\ Packet("PC_ERROR", c, v) \in Packets /\ Tells(Packet("PC_ERROR", c, v), i)
             /\ PlainPacket("PC_ERROR", v) \in Packets /\ Tells(PlainPacket("PC_ERROR", v), i)
  <2>1. /\ Packet("PC_ERROR", c, v) \in Packets /\ Packet("PC_ERROR", c, v).code = "PC_ERROR"
        /\ PlainPacket("PC_ERROR", v) \in Packets /\ PlainPacket("PC_ERROR", v).code = "PC_ERROR"
    BY <1>1 DEF Packet, PlainPacket, PacketCode
  <2>2. \A x : x.code = "PC_ERROR" => Tells(x, i)
    BY <1>3 DEF Tells
  <2> QED
    BY <2>1, <2>2
<1> HIDE DEF p, q, code, line, Packets
<1>4. CASE k >= Len(sent)
  <2>1. p = PlainPacket("PC_ERROR", MissingResponse)
    BY <1>4 DEF p, NextPacket
  <2>2. ~GreetedBy(i) /\ ~PlainAnswer(i)
    BY <1>1, <1>4 DEF GreetedBy, PlainAnswer
  <2> QED
    BY <1>1, <1>2, <1>3, <2>1, <2>2
<1>5. ASSUME k < Len(sent), \E j \in 1 .. Len(line) : line[j] \notin Word
      PROVE  p \in Packets /\ Tells(p, i)
  <2>1. Lex(read).err = "EINVAL" /\ ~IsAtEnd(read)
    BY <1>1, <1>5 DEF line
  <2>2. p = PlainPacket("PC_ERROR", MalformedString)
    BY <2>1 DEF p, NextPacket
  <2>3. line \notin Seq(Word)
    BY <1>5
  <2>4. ~GreetedBy(i) /\ ~PlainAnswer(i)
    BY <2>3 DEF GreetedBy, PlainAnswer, line
  <2> QED
    BY <1>1, <1>2, <1>3, <2>2, <2>4
<1>6. ASSUME k < Len(sent), line = <<>>
      PROVE  p \in Packets /\ Tells(p, i)
  <2>1. Lex(read).err = "ENOENT" /\ ~IsAtEnd(read)
    BY <1>1, <1>6 DEF line
  <2>2. p = PlainPacket("PC_ERROR", MissingResponse)
    BY <2>1 DEF p, NextPacket
  <2>3. ~GreetedBy(i) /\ ~PlainAnswer(i)
    BY <1>6 DEF GreetedBy, PlainAnswer, line, Verb
  <2> QED
    BY <1>1, <1>2, <1>3, <2>2, <2>3
<1>7. ASSUME k < Len(sent), line \in Seq(Word), line # <<>>
      PROVE  p \in Packets /\ Tells(p, i)
  <2>1. Lex(read).err = "0" /\ ~IsAtEnd(read) /\ Lex(read).text = line
    BY <1>1, <1>7 DEF line
  <2>2. p = r
    BY <2>1 DEF p, q, NextPacket
  <2>3. Verb(line) = line[1] /\ Verb(sent[i]) = line[1] /\ sent[i] = line
    BY <1>7 DEF Verb, line
  <2>4. CASE line[1] = "ERROR"
    <3>1. ~GreetedBy(i) /\ ~PlainAnswer(i)
      BY <2>3, <2>4 DEF GreetedBy, PlainAnswer
    <3> DEFINE v == IF Len(line) = 2 THEN line[2] ELSE MalformedError
    <3>2. v \in PacketValue
      BY <1>2, <1>7
    <3>3. p = PlainPacket("PC_ERROR", v)
      BY <2>2, <2>4
    <3> HIDE DEF v
    <3> QED
      BY <1>1, <1>3, <3>1, <3>2, <3>3
  <2>5. CASE line[1] # "ERROR" /\ isLast /\ ~IsAtEnd(Lex(read).buffer)
    <3>1. p = PlainPacket("PC_ERROR", ExtraResponse)
      BY <2>2, <2>5
    <3>2. i = Len(asked) /\ Len(sent) # i
      BY <1>7, <2>5
    <3>3. ~GreetedBy(i) /\ ~PlainAnswer(i)
      BY <3>2 DEF GreetedBy, PlainAnswer
    <3> QED
      BY <1>1, <1>2, <1>3, <3>1, <3>3
  <2>6. CASE line[1] # "ERROR" /\ ~(isLast /\ ~IsAtEnd(Lex(read).buffer))
    <3>1. p = IF q.code = "PC_ERROR" /\ q.value = ""
              THEN Packet("PC_ERROR", code, MalformedResponse)
              ELSE Packet(q.code, code, q.value)
      BY <2>2, <2>6
    <3>2. i = Len(asked) => Len(sent) = i
      BY <1>1, <1>7, <2>6
    <3>3. /\ q \in [code : PacketCode, request : {RC_CONNECT}, value : PacketValue]
          /\ q.code # "PC_ERROR" =>
               /\ line[1] \in ResponseVerbs(code)
               /\ q.code \in {"PC_PATHNAME", "PC_BOOL"} => q.value = line[2]
          /\ q.code = "PC_CONNECT" <=>
               /\ code = RC_CONNECT
               /\ line[1] = "HELLO"
               /\ Len(line) \in {3, 4}
               /\ ParseUnsigned(line[2]) >= Version
          /\ /\ line[1] \in {"OK", "PATHNAME"} \cap ResponseVerbs(code)
             /\ Len(line) = (IF line[1] = "OK" THEN 1 ELSE 2)
             => q.code = (IF line[1] = "OK" THEN "PC_OK" ELSE "PC_PATHNAME")
      <4>1. line \in Seq(Word) \ {<<>>}
        BY <1>7
      <4> QED
        BY <1>1, <4>1, ResponseTells, Zenon DEF q
    <3>4. GreetedBy(i) <=> q.code = "PC_CONNECT"
      <4>1. i \in DOMAIN asked /\ i \in DOMAIN sent
        BY <1>1, <1>7
      <4> QED
        BY <1>7, <2>3, <3>2, <3>3, <4>1 DEF GreetedBy, code
    <3>5. PlainAnswer(i) => q.code = (IF line[1] = "OK" THEN "PC_OK" ELSE "PC_PATHNAME")
      BY <2>3, <3>3 DEF PlainAnswer, code
    <3>6. CASE q.code = "PC_ERROR" /\ q.value = ""
      BY <1>1, <1>2, <1>3, <3>1, <3>4, <3>5, <3>6
    <3>7. CASE ~(q.code = "PC_ERROR" /\ q.value = "")
      <4>1. /\ p \in Packets
            /\ p.code = q.code /\ p.value = q.value /\ p.request = code
        BY <1>1, <3>1, <3>3, <3>7 DEF Packet, Packets
      <4>2. i <= Len(sent)
        BY <1>1, <1>7
      <4>3. q.code = "PC_CONNECT" => q.value = FlagsOf(line)
        BY <3>3, HandshakeFlags DEF q
      <4> QED
        BY <2>3, <3>2, <3>3, <3>4, <3>5, <4>1, <4>2, <4>3 DEF Tells, code
    <3> QED
      BY <3>6, <3>7
  <2> QED
    BY <2>4, <2>5, <2>6
<1>8. k < Len(sent) =>
        \/ \E j \in 1 .. Len(line) : line[j] \notin Word
        \/ line = <<>>
        \/ line \in Seq(Word) /\ line # <<>>
  <2> SUFFICES ASSUME k < Len(sent), \A j \in 1 .. Len(line) : line[j] \in Word
               PROVE  line \in Seq(Word)
    OBVIOUS
  <2>1. line \in Seq(Text)
    BY <1>1
  <2>2. Len(line) \in Nat /\ line = [j \in 1 .. Len(line) |-> line[j]]
    BY <2>1
  <2> DEFINE n == Len(line)
  <2>3. n \in Nat /\ line \in [1 .. n -> Word]
    BY <2>2
  <2> HIDE DEF n
  <2>4. PICK m, words : m \in Nat /\ words = line /\ words \in [1 .. m -> Word]
    BY <2>3, Zenon
  <2>5. words \in Seq(Word)
    BY <2>4
  <2> QED
    BY <2>4, <2>5, Zenon
<1> QED
  BY <1>1, <1>4, <1>5, <1>6, <1>7, <1>8

-----------------------------------------------------------------------------
(* Calls.                                                                  *)

\* What a call changes besides what the client does.
Called ==
  /\ ~chatty
  /\ sent' = <<>>
  /\ greeted' = (greeted \/ Greeted)
  /\ UNCHANGED <<heard, working, chatty>>

\* A line behind those of the queue makes the requests of a longer queue.
LEMMA OneMoreRequest ==
  ASSUME TypeInv, Idle, NEW code \in RequestCode,
         NEW words \in Seq(Word) \ {<<>>}, CodeOf(words[1]) = code
  PROVE  LET b == AppendLine(write, words) IN
         /\ b \in Buffer /\ Composed(b.data) /\ b.data # <<>>
         /\ Append(Queue, code) \in Seq(RequestCode)
         /\ \E lines \in Seq(Seq(Word)) :
              /\ Requests(lines, Append(Queue, code))
              /\ LaidOut(Append(b.data, NEWLINE), lines)
<1> DEFINE b == AppendLine(write, words)
<1>1. write \in Buffer /\ Queue \in Seq(RequestCode) /\ Queued
  BY DEF TypeInv, ClientTypeOK, Idle
<1>2. Composed(write.data)
  BY <1>1 DEF Queued, Composed
<1>3. b \in Buffer /\ Composed(b.data) /\ b.data # <<>>
  BY <1>1, <1>2, AppendLineComposes
<1>4. Append(Queue, code) \in Seq(RequestCode)
  BY <1>1
<1>5. \E lines \in Seq(Seq(Word)) :
        /\ Requests(lines, Append(Queue, code))
        /\ LaidOut(Append(b.data, NEWLINE), lines)
  <2>1. CASE Queue = <<>>
    <3>1. write.data = <<>>
      BY <1>1, <2>1 DEF Queued
    <3>2. LaidOut(Append(b.data, NEWLINE), <<words>>)
      BY <1>1, <3>1, FirstLineLaysOut
    <3>3. Requests(<<words>>, Append(Queue, code))
      BY <2>1 DEF Requests
    <3>4. <<words>> \in Seq(Seq(Word))
      OBVIOUS
    <3> HIDE DEF b
    <3> QED
      BY <3>2, <3>3, <3>4
  <2>2. CASE Queue # <<>>
    <3>1. PICK lines \in Seq(Seq(Word)) :
            Requests(lines, Queue) /\ LaidOut(Append(write.data, NEWLINE), lines)
      BY <1>1, <2>2 DEF Queued
    <3>2. write.data # <<>>
      BY <1>1, <2>2 DEF Queued
    <3>3. LaidOut(Append(b.data, NEWLINE), Append(lines, words))
      BY <1>1, <1>2, <3>1, <3>2, AppendLineLaysOut
    <3>4. Requests(Append(lines, words), Append(Queue, code))
      BY <1>1, <3>1, OneMoreCode
    <3>5. Append(lines, words) \in Seq(Seq(Word))
      BY <3>1
    <3> HIDE DEF b
    <3> QED
      BY <3>3, <3>4, <3>5
  <2> QED
    BY <2>1, <2>2
<1> QED
  BY <1>3, <1>4, <1>5

\* A batch that goes out is one block.
LEMMA CommunicateIInv ==
  ASSUME IInv, call = "idle", Called, UNCHANGED <<to, from, is_connected, peer_open>>,
         corked' = corked,
         NEW b \in Buffer, Composed(b.data), b.data # <<>>,
         NEW codes \in Seq(RequestCode), codes # <<>>,
         NEW lines \in Seq(Seq(Word)), Requests(lines, codes),
         LaidOut(Append(b.data, NEWLINE), lines),
         Communicate(b, codes)
  PROVE  IInv'
<1>1. Idle /\ TypeInv
  BY DEF IInv, CallInv
<1>2. /\ PrepareToWrite(b) \in Buffer
      /\ PrepareToWrite(b).bol = 0
      /\ Framed(PrepareToWrite(b).data)
  BY PrepareToWriteFrames
<1>3. PrepareToWrite(b).data = Append(b.data, NEWLINE)
  BY DEF PrepareToWrite
<1>4. /\ write' = PrepareToWrite(b) /\ read' = EmptyBuffer /\ call' = "writing"
      /\ pending' = codes /\ packets' = <<>> /\ asked' = codes
  BY DEF Communicate
<1>5. from' = <<>> /\ sent' = <<>> /\ ~chatty'
  BY <1>1 DEF Called, Idle
<1>6. is_connected' <=> greeted'
  BY <1>1, Zenon DEF Called, Idle
<1>7. TypeInv'
  BY <1>1, <1>2, <1>4, EmptyBufferType
     DEF TypeInv, ClientTypeOK, EnvironmentTypeOK, Called, Call
<1>8. Asking(write.data)'
  BY <1>2, <1>3, <1>4, <1>5, <1>6 DEF Asking
<1>9. Len(write'.data) > 0
  BY <1>2, <1>4 DEF Framed
<1>10. peer_open' => heard' = EmptyBuffer /\ to' = <<>> /\ ~working'
  BY <1>1 DEF Idle, BuilderAtRest, Called
<1>11. Writing'
  <2>1. write'.bol = 0
    BY <1>2, <1>4
  <2>2. ASSUME peer_open'
        PROVE  /\ ~working'
               /\ write'.bol = Len(heard'.data) + Len(to')
               /\ Starts(write'.data, heard'.data, to')
    <3>1. heard'.data = <<>> /\ to' = <<>> /\ ~working'
      BY <1>10, <2>2 DEF EmptyBuffer
    <3>2. Starts(write'.data, <<>>, <<>>)
      BY <1>9 DEF Starts
    <3> QED
      BY <2>1, <3>1, <3>2
  <2> QED
    BY <1>8, <1>9, <2>1, <2>2 DEF Writing
<1> QED
  BY <1>4, <1>7, <1>11 DEF IInv, CallInv

\* A request is queued, or goes out alone.
LEMMA RequestIInv ==
  ASSUME IInv, Called, NEW code \in RequestCode,
         NEW words \in Seq(Word) \ {<<>>}, CodeOf(words[1]) = code,
         Request(code, words)
  PROVE  IInv'
<1> DEFINE b == AppendLine(write, words)
<1>1. Idle /\ TypeInv /\ call = "idle"
  BY DEF IInv, CallInv, Request
<1>2. /\ b \in Buffer /\ Composed(b.data) /\ b.data # <<>>
      /\ Append(Queue, code) \in Seq(RequestCode)
      /\ \E lines \in Seq(Seq(Word)) :
           /\ Requests(lines, Append(Queue, code))
           /\ LaidOut(Append(b.data, NEWLINE), lines)
  BY <1>1, OneMoreRequest
<1>3. PICK lines \in Seq(Seq(Word)) :
        /\ Requests(lines, Append(Queue, code))
        /\ LaidOut(Append(b.data, NEWLINE), lines)
  BY <1>2
<1>4. UNCHANGED <<to, from, is_connected, peer_open>>
  BY DEF Request
<1>5. CASE ~IsCorked
  <2>1. Communicate(b, <<code>>) /\ corked' = corked /\ Queue = <<>>
    BY <1>5 DEF Request, IsCorked, Queue
  <2>2. Append(Queue, code) = <<code>>
    BY <2>1
  <2>3. <<code>> \in Seq(RequestCode) /\ <<code>> # <<>>
    OBVIOUS
  <2> HIDE DEF b
  <2> QED
    BY <1>1, <1>2, <1>3, <1>4, <2>1, <2>2, <2>3, CommunicateIInv
<1>6. CASE IsCorked
  <2>1. /\ corked # <<>>
        /\ corked' = Append(corked, code)
        /\ write' = b
        /\ packets' = <<PlainPacket("PC_CORKED", "")>>
        /\ asked' = Append(asked, code)
        /\ UNCHANGED <<read, call, pending>>
    BY <1>6 DEF Request, IsCorked
  <2>2. Queue' = Append(Queue, code)
    <3> DEFINE S == RequestCode \cup {CorkMark}
    <3>1. corked \in Seq(S) /\ code \in S
      BY <1>1 DEF TypeInv, ClientTypeOK
    <3> HIDE DEF S
    <3>2. Tail(Append(corked, code)) = Append(Tail(corked), code)
      BY <2>1, <3>1, HeadTailAppend
    <3>3. Append(corked, code) # <<>>
      BY <3>1
    <3> QED
      BY <2>1, <3>2, <3>3 DEF Queue
  <2>3. "" \in PacketValue
    <3>1. "" \in Word
      BY ClientAssumption, Zenon
    <3> QED
      BY <3>1 DEF PacketValue
  <2>4. PlainPacket("PC_CORKED", "") \in [code : PacketCode, request : RequestCode, value : PacketValue]
    <3>1. "PC_CORKED" \in PacketCode /\ RC_CONNECT \in RequestCode
      BY DEF PacketCode, RC_CONNECT, RequestCode, RC_HWM
    <3> QED
      BY <2>3, <3>1 DEF PlainPacket, Packet
  <2>5. TypeInv'
    <3> HIDE DEF b
    <3> DEFINE S == RequestCode \cup {CorkMark}
               P == [code : PacketCode, request : RequestCode, value : PacketValue]
               p == PlainPacket("PC_CORKED", "")
    <3>1. corked' \in Seq(S) /\ asked' \in Seq(RequestCode)
      <4>1. corked \in Seq(S) /\ asked \in Seq(RequestCode) /\ code \in S
        BY <1>1 DEF TypeInv, ClientTypeOK
      <4> HIDE DEF S
      <4>2. Append(corked, code) \in Seq(S) /\ Append(asked, code) \in Seq(RequestCode)
        BY <4>1
      <4>3. corked' = Append(corked, code) /\ asked' = Append(asked, code)
        BY <2>1
      <4> QED
        BY <4>2, <4>3, Zenon
    <3>2. packets' \in Seq(P)
      <4>1. p \in P /\ packets' = <<p>>
        BY <2>1, <2>4
      <4>2. \A T, x : x \in T => <<x>> \in Seq(T)
        OBVIOUS
      <4> QED
        BY <4>1, <4>2, Zenon
    <3>3. /\ write' \in Buffer
          /\ UNCHANGED <<to, from, is_connected, peer_open, read, call, pending>>
      BY <1>2, <1>4, <2>1
    <3> HIDE DEF S, P
    <3>4. ClientTypeOK'
      BY <1>1, <3>1, <3>2, <3>3 DEF TypeInv, ClientTypeOK, S, P
    <3>5. EnvironmentTypeOK'
      BY <1>1 DEF TypeInv, EnvironmentTypeOK, Called
    <3> QED
      BY <3>4, <3>5 DEF TypeInv
  <2>6. Queued'
    <3>1. Queue' # <<>>
      <4>1. Queue \in Seq(RequestCode)
        BY <1>1 DEF Idle
      <4> HIDE DEF b
      <4> QED
        BY <2>2, <4>1
    <3> HIDE DEF b
    <3> QED
      BY <1>2, <1>3, <2>1, <2>2, <3>1 DEF Queued
  <2>7. sent' = <<>> /\ ~Greeted'
    BY DEF Called, Greeted, Succeeded
  <2>8. is_connected' <=> greeted' \/ Greeted'
    BY <1>1, <1>4, <2>7, Zenon DEF Idle, Called
  <2>9. Idle'
    BY <1>1, <1>2, <1>4, <2>1, <2>2, <2>6, <2>7, <2>8 DEF Idle, BuilderAtRest, Called
  <2> QED
    BY <1>1, <2>1, <2>5, <2>9 DEF IInv, CallInv
<1> QED
  BY <1>5, <1>6

\* Corking, and uncorking when nothing was queued.
LEMMA CorkIInv ==
  ASSUME IInv, Called, Cork \/ UncorkNothing
  PROVE  IInv'
<1>1. Idle /\ TypeInv /\ call = "idle"
  BY DEF IInv, CallInv, Cork, UncorkNothing
<1>2. /\ UNCHANGED <<to, from, write, read, is_connected, call, pending, peer_open>>
      /\ asked' = <<>>
  BY DEF Cork, UncorkNothing
<1>3. packets' = packets \/ packets' = <<>>
  BY DEF Cork, UncorkNothing
<1>4. /\ corked' \in Seq(RequestCode \cup {CorkMark})
      /\ Queue = <<>> /\ Queue' = <<>>
  <2>1. CASE Cork
    BY <2>1 DEF Cork, IsCorked, Queue
  <2>2. CASE UncorkNothing
    <3>1. corked \in Seq(RequestCode \cup {CorkMark}) /\ Len(corked) = 1 /\ corked' = <<>>
      BY <1>1, <2>2 DEF UncorkNothing, TypeInv, ClientTypeOK
    <3> DEFINE S == RequestCode \cup {CorkMark}
    <3>2. \A s \in Seq(S) : Len(s) = 1 => Tail(s) = <<>>
      <4> HIDE DEF S
      <4> SUFFICES ASSUME NEW s \in Seq(S), Len(s) = 1
                   PROVE  Tail(s) = <<>>
        OBVIOUS
      <4>1. s # <<>>
        OBVIOUS
      <4>2. Tail(s) \in Seq(S) /\ Len(Tail(s)) = 0
        BY <4>1, HeadTailProperties
      <4> QED
        BY <4>2, EmptySeq
    <3>3. <<>> \in Seq(S)
      OBVIOUS
    <3> QED
      BY <3>1, <3>2, <3>3 DEF Queue
  <2> QED
    BY <2>1, <2>2
<1>5. TypeInv'
  <2> DEFINE S == RequestCode \cup {CorkMark}
             P == [code : PacketCode, request : RequestCode, value : PacketValue]
  <2>1. packets' \in Seq(P) /\ asked' \in Seq(RequestCode) /\ corked' \in Seq(S)
    <3>1. packets \in Seq(P)
      BY <1>1 DEF TypeInv, ClientTypeOK
    <3> HIDE DEF P
    <3>2. packets' \in Seq(P)
      <4>1. <<>> \in Seq(P)
        OBVIOUS
      <4> QED
        BY <1>3, <3>1, <4>1, Zenon
    <3>3. asked' \in Seq(RequestCode)
      BY <1>2
    <3> QED
      BY <1>4, <3>2, <3>3
  <2> HIDE DEF S, P
  <2>2. ClientTypeOK'
    BY <1>1, <1>2, <2>1 DEF TypeInv, ClientTypeOK, S, P
  <2>3. EnvironmentTypeOK'
    BY <1>1 DEF TypeInv, EnvironmentTypeOK, Called
  <2> QED
    BY <2>2, <2>3 DEF TypeInv
<1>6. sent' = <<>> /\ ~Greeted'
  BY DEF Called, Greeted, Succeeded
<1>7. is_connected' <=> greeted' \/ Greeted'
  BY <1>1, <1>2, <1>6, Zenon DEF Idle, Called
<1>8. Queued'
  BY <1>1, <1>2, <1>4 DEF Idle, Queued
<1>9. Idle'
  BY <1>1, <1>2, <1>4, <1>6, <1>7, <1>8 DEF Idle, BuilderAtRest, Called
<1> QED
  BY <1>1, <1>2, <1>5, <1>9 DEF IInv, CallInv

LEMMA UncorkIInv ==
  ASSUME IInv, Called, Uncork
  PROVE  IInv'
<1>1. Idle /\ TypeInv /\ call = "idle" /\ Len(corked) > 1
  BY DEF IInv, CallInv, Uncork
<1>2. corked \in Seq(RequestCode \cup {CorkMark}) /\ write \in Buffer
  BY <1>1 DEF TypeInv, ClientTypeOK
<1>3. Queue = Tail(corked) /\ Queue # <<>> /\ Queue \in Seq(RequestCode)
  <2> DEFINE S == RequestCode \cup {CorkMark}
  <2>1. corked # <<>> /\ Tail(corked) # <<>>
    <3>1. corked \in Seq(S)
      BY <1>2
    <3> HIDE DEF S
    <3>2. corked # <<>>
      BY <1>1, <3>1
    <3>3. Tail(corked) \in Seq(S) /\ Len(Tail(corked)) = Len(corked) - 1 /\ Len(corked) \in Nat
      BY <3>1, <3>2, HeadTailProperties
    <3> QED
      BY <1>1, <3>2, <3>3
  <2> QED
    BY <1>1, <2>1 DEF Queue, Idle
<1>4. write.data # <<>> /\ Composed(write.data)
  BY <1>1, <1>3 DEF Idle, Queued
<1>5. PICK lines \in Seq(Seq(Word)) :
        Requests(lines, Queue) /\ LaidOut(Append(write.data, NEWLINE), lines)
  BY <1>1, <1>3 DEF Idle, Queued
<1>6. /\ Communicate(write, Queue)
      /\ UNCHANGED <<to, from, corked, is_connected, peer_open>>
  BY <1>3 DEF Uncork
<1> QED
  BY <1>1, <1>2, <1>3, <1>4, <1>5, <1>6, CommunicateIInv

\* Whatever the compiler calls, as long as its arguments are words.
LEMMA CallIInv ==
  ASSUME IInv, Calls, Arguments \subseteq Seq(Word)
  PROVE  IInv'
<1>1. Called
  BY DEF Calls, Called
<1>2. CASE Connect
  <2> DEFINE words == <<"HELLO", "1", "cc", "">>
  <2>1. "HELLO" \in Word /\ "1" \in Word /\ "cc" \in Word /\ "" \in Word
    <3>1. "1" \in Word
      BY WordAssumption, Zenon
    <3>2. "cc" \in Word /\ "" \in Word
      BY ClientAssumption, Zenon
    <3>3. "HELLO" \in Word
      BY RequestVerbs
    <3> QED
      BY <3>1, <3>2, <3>3
  <2>2. words \in Seq(Word) \ {<<>>} /\ words[1] = "HELLO"
    <3>1. \A a, b, c, d \in Word :
            <<a, b, c, d>> \in Seq(Word) \ {<<>>} /\ <<a, b, c, d>>[1] = a
      OBVIOUS
    <3> QED
      BY <2>1, <3>1, Zenon
  <2>3. RC_CONNECT \in RequestCode /\ CodeOf(words[1]) = RC_CONNECT
    BY <2>2, RequestVerbs
  <2>4. Request(RC_CONNECT, words)
    BY <1>2 DEF Connect
  <2> HIDE DEF words
  <2> QED
    BY <1>1, <2>2, <2>3, <2>4, RequestIInv
<1>3. CASE ModuleRepo
  <2> DEFINE words == <<"MODULE-REPO">>
  <2>1. words \in Seq(Word) \ {<<>>} /\ words[1] = "MODULE-REPO"
    BY RequestVerbs
  <2>2. RC_MODULE_REPO \in RequestCode /\ CodeOf(words[1]) = RC_MODULE_REPO
    BY <2>1, RequestVerbs
  <2>3. Request(RC_MODULE_REPO, words)
    BY <1>3 DEF ModuleRepo
  <2> HIDE DEF words
  <2> QED
    BY <1>1, <2>1, <2>2, <2>3, RequestIInv
<1>4. CASE \E code \in ModuleCalls : ModuleRequest(code)
  <2>1. PICK code \in ModuleCalls, name \in Module, flags \in Flags :
          Request(code, <<requestTable[code], name>> \o flags)
    BY <1>4 DEF ModuleRequest
  <2>2. code \in RequestCode
    <3>1. ModuleCalls \subseteq ModuleRequestCode
      BY ClientAssumption, Zenon
    <3> QED
      BY <3>1, RequestVerbs
  <2>3. name \in Word
    <3>1. Module \subseteq Word
      BY WordAssumption, Zenon
    <3> QED
      BY <3>1
  <2>4. flags \in Seq(Word)
    <3>1. Flags \subseteq {<<>>} \cup {<<w>> : w \in Word}
      BY ClientAssumption, Zenon
    <3>2. flags = <<>> \/ \E w \in Word : flags = <<w>>
      BY <3>1, Zenon
    <3>3. CASE flags = <<>>
      BY <3>3
    <3>4. ASSUME NEW w \in Word, flags = <<w>>
          PROVE  flags \in Seq(Word)
      BY <3>4
    <3> QED
      BY <3>2, <3>3, <3>4
  <2> DEFINE verb  == requestTable[code]
             words == <<verb, name>> \o flags
  <2>5. verb \in Word /\ CodeOf(verb) = code
    BY <2>2, RequestVerbs
  <2> HIDE DEF verb
  <2>6. words \in Seq(Word) \ {<<>>} /\ words[1] = verb
    BY <2>3, <2>4, <2>5
  <2>7. Request(code, words)
    BY <2>1 DEF verb
  <2> HIDE DEF words
  <2> QED
    BY <1>1, <2>2, <2>5, <2>6, <2>7, RequestIInv
<1>5. CASE InvokeSubProcess
  <2>1. PICK argv \in Arguments : Request(RC_INVOKE, <<"INVOKE">> \o argv)
    BY <1>5 DEF InvokeSubProcess
  <2> DEFINE words == <<"INVOKE">> \o argv
  <2>2. words \in Seq(Word) \ {<<>>} /\ words[1] = "INVOKE"
    <3>1. "INVOKE" \in Word /\ argv \in Seq(Word)
      BY RequestVerbs
    <3>2. ASSUME NEW w \in Word, NEW s \in Seq(Word)
          PROVE  <<w>> \o s \in Seq(Word) \ {<<>>} /\ (<<w>> \o s)[1] = w
      <4> DEFINE u == <<w>>
      <4>1. u \in Seq(Word) /\ Len(u) = 1 /\ u[1] = w /\ Len(s) \in Nat
        OBVIOUS
      <4> HIDE DEF u
      <4>2. /\ u \o s \in Seq(Word)
            /\ Len(u \o s) = Len(u) + Len(s)
            /\ \A i \in 1 .. Len(u) + Len(s) :
                 (u \o s)[i] = IF i <= Len(u) THEN u[i] ELSE s[i - Len(u)]
        BY <4>1, ConcatProperties
      <4>3. 1 \in 1 .. Len(u) + Len(s) /\ Len(u \o s) # 0
        BY <4>1, <4>2
      <4>4. (u \o s)[1] = w /\ u \o s # <<>>
        BY <4>1, <4>2, <4>3
      <4> QED
        BY <4>2, <4>4 DEF u
    <3> QED
      BY <3>1, <3>2, Zenon
  <2>3. RC_INVOKE \in RequestCode /\ CodeOf(words[1]) = RC_INVOKE
    BY <2>2, RequestVerbs
  <2>4. Request(RC_INVOKE, words)
    BY <2>1
  <2> HIDE DEF words
  <2> QED
    BY <1>1, <2>2, <2>3, <2>4, RequestIInv
<1>6. CASE Cork \/ UncorkNothing
  BY <1>1, <1>6, CorkIInv
<1>7. CASE Uncork
  BY <1>1, <1>7, UncorkIInv
<1> QED
  BY <1>2, <1>3, <1>4, <1>5, <1>6, <1>7 DEF Calls, CompilerCall

-----------------------------------------------------------------------------
(* The requests go out.                                                    *)

\* More of the requests is on the way, or all of them.
LEMMA WriteIInv ==
  ASSUME IInv, NEW n \in 1 .. PipeCapacity, WriteStep(n, PipeCapacity), UNCHANGED env_vars
  PROVE  IInv'
<1>1. TypeInv /\ Writing /\ call = "writing" /\ peer_open
  BY DEF IInv, CallInv, WriteStep
<1>2. PICK d \in Seq(Symbol) : d = write.data
  BY <1>1 DEF TypeInv, ClientTypeOK, Buffer
<1>3. PICK s \in Nat : s = write.bol
  BY <1>1 DEF TypeInv, ClientTypeOK, Buffer
<1>4. /\ write = [data |-> d, bol |-> s]
      /\ to \in Seq(Symbol) /\ heard \in Buffer /\ heard.data \in Seq(Symbol)
      /\ n \in Nat /\ n > 0
  BY <1>1, <1>2, <1>3 DEF TypeInv, ClientTypeOK, EnvironmentTypeOK, Buffer
<1>5. /\ s < Len(d) /\ ~working /\ s = Len(heard.data) + Len(to)
      /\ Starts(d, heard.data, to) /\ Asking(d)
      /\ Len(d) \in Nat /\ Len(heard.data) \in Nat /\ Len(to) \in Nat
  BY <1>1, <1>2, <1>3, <1>4 DEF Writing
<1>6. s + n <= Len(d)
  <2>1. n <= Len(SubSeq(d, s + 1, Len(d)))
    BY <1>2, <1>3 DEF WriteStep, Unwritten
  <2>2. s \in 0 .. Len(d) /\ Len(d) \in Nat
    BY <1>5
  <2>3. Len(SubSeq(d, s + 1, Len(d))) = Len(d) - s
    BY <2>2, ChannelPieces
  <2> QED
    BY <2>1, <2>2, <2>3, <1>4
<1>7. /\ to' = to \o SubSeq(d, s + 1, s + n)
      /\ write' = IF s + n = Len(d) THEN EmptyBuffer ELSE [data |-> d, bol |-> s + n]
      /\ call' = IF s + n = Len(d) THEN "reading" ELSE "writing"
      /\ UNCHANGED <<from, read, corked, is_connected, pending, packets, asked, peer_open>>
      /\ UNCHANGED <<heard, working, sent, greeted, chatty>>
  BY <1>2, <1>3, <1>4 DEF WriteStep, WriteSome, env_vars
<1>8. to' \in Seq(Symbol) /\ Len(to') = Len(to) + n /\ Starts(d, heard.data, to')
  <2> DEFINE more(t) == t \o SubSeq(d, s + 1, s + n)
  <2>1. n \in Nat /\ n > 0 /\ s + n <= Len(d)
    BY <1>4, <1>6
  <2>2. ASSUME NEW h \in Seq(Symbol), NEW t \in Seq(Symbol), Starts(d, h, t), s = Len(h) + Len(t)
        PROVE  more(t) \in Seq(Symbol)
    BY <2>1, <2>2, WriteStarts
  <2>3. ASSUME NEW h \in Seq(Symbol), NEW t \in Seq(Symbol), Starts(d, h, t), s = Len(h) + Len(t)
        PROVE  Len(more(t)) = Len(t) + n
    BY <2>1, <2>3, WriteStarts
  <2>4. ASSUME NEW h \in Seq(Symbol), NEW t \in Seq(Symbol), Starts(d, h, t), s = Len(h) + Len(t)
        PROVE  Starts(d, h, more(t))
    BY <2>1, <2>4, WriteStarts
  <2> QED
    BY <2>2, <2>3, <2>4, <1>4, <1>5, <1>7
<1>9. TypeInv'
  <2>1. write' \in Buffer
    BY <1>4, <1>7, EmptyBufferType DEF Buffer
  <2>2. call' \in Call
    BY <1>7 DEF Call
  <2> QED
    BY <2>1, <2>2, <1>1, <1>7, <1>8 DEF TypeInv, ClientTypeOK, EnvironmentTypeOK
<1>10. s + n = Len(heard.data) + (Len(to) + n)
  <2>1. \A a, b \in Nat : s = a + b => s + n = a + (b + n)
    BY <1>4
  <2> QED
    BY <2>1, <1>5
<1>11. Asking(d)'
  BY <1>5, <1>7 DEF Asking
<1>12. CASE s + n = Len(d)
  <2>1. Len(d) = Len(heard.data) + Len(to')
    <3>1. s + n = Len(heard.data) + (Len(to) + n)
      BY <1>10
    <3> QED
      BY <3>1, <1>8, <1>12
  <2>2. Waiting(d)'
    BY <2>1, <1>5, <1>7, <1>8, <1>11, <1>12 DEF Waiting
  <2> QED
    BY <2>2, <1>7, <1>9, <1>12 DEF IInv, CallInv
<1>13. CASE s + n # Len(d)
  <2>1. write'.data = d /\ write'.bol = s + n /\ call' = "writing"
    BY <1>7, <1>13
  <2>2. s + n < Len(d) /\ s + n = Len(heard.data) + Len(to')
    <3>1. s + n = Len(heard.data) + (Len(to) + n)
      BY <1>10
    <3>2. s + n < Len(d)
      BY <1>4, <1>5, <1>6, <1>13
    <3> QED
      BY <3>1, <3>2, <1>8
  <2>3. Writing'
    BY <2>1, <2>2, <1>5, <1>7, <1>8, <1>11 DEF Writing
  <2> QED
    BY <2>1, <2>3, <1>9 DEF IInv, CallInv
<1> QED
  BY <1>12, <1>13

\* A call that fails leaves nothing behind, and nobody to respond.
LEMMA FailIInv ==
  ASSUME TypeInv, Fail, ~peer_open \/ BuilderAtRest, ~chatty => from' = <<>>,
         write' = EmptyBuffer, is_connected <=> greeted,
         to' \in Seq(Symbol), from' \in Seq(Symbol), read' \in Buffer,
         UNCHANGED to, UNCHANGED env_vars
  PROVE  IInv'
<1>1. /\ packets' = <<CommunicationError>>
      /\ pending' = <<>> /\ corked' = <<>> /\ call' = "idle"
      /\ UNCHANGED <<is_connected, asked, peer_open>>
      /\ UNCHANGED <<heard, working, sent, greeted, chatty>>
  BY DEF Fail, env_vars
<1> DEFINE P == [code : PacketCode, request : RequestCode, value : PacketValue]
           p == CommunicationError
<1>2. packets' \in Seq(P)
  <2>1. "PC_ERROR" \in PacketCode /\ RC_CONNECT \in RequestCode
    BY DEF PacketCode, RC_CONNECT, RequestCode, RC_HWM
  <2>2. NoCommunication \in PacketValue
    BY DEF PacketValue
  <2>3. p \in P
    BY <2>1, <2>2 DEF CommunicationError, PlainPacket, Packet
  <2>4. \A T, x : x \in T => <<x>> \in Seq(T)
    OBVIOUS
  <2> HIDE DEF P
  <2> QED
    BY <2>3, <2>4, <1>1, Zenon
<1> HIDE DEF P
<1>3. TypeInv'
  <2>1. /\ write' \in Buffer /\ call' \in Call /\ pending' \in Seq(RequestCode)
        /\ corked' \in Seq(RequestCode \cup {CorkMark})
    BY <1>1, EmptyBufferType DEF Call
  <2> QED
    BY <2>1, <1>1, <1>2 DEF TypeInv, ClientTypeOK, EnvironmentTypeOK, P
<1>4. ~Greeted'
  BY <1>1 DEF Greeted, Succeeded
<1>5. is_connected' <=> greeted' \/ Greeted'
  BY <1>1, <1>4, Zenon
<1>6. Queue' = <<>> /\ Queue' \in Seq(RequestCode)
  BY <1>1 DEF Queue
<1>7. Queued'
  BY <1>6 DEF Queued, EmptyBuffer
<1>8. BuilderAtRest'
  BY <1>1 DEF BuilderAtRest
<1>9. Idle'
  BY <1>1, <1>5, <1>6, <1>7, <1>8 DEF Idle
<1> QED
  BY <1>1, <1>3, <1>9 DEF IInv, CallInv

\* The builder has gone before it had all of them.
LEMMA WriteErrorIInv ==
  ASSUME IInv, WriteError, UNCHANGED env_vars
  PROVE  IInv'
<1>1. TypeInv /\ Writing
  BY DEF IInv, CallInv, WriteError
<1>2. /\ write' = EmptyBuffer /\ Fail /\ ~peer_open
      /\ UNCHANGED <<to, from, read>>
  BY DEF WriteError
<1>3. from = <<>> /\ (is_connected <=> greeted)
  BY <1>1 DEF Writing, Asking
<1>4. to' \in Seq(Symbol) /\ from' \in Seq(Symbol) /\ read' \in Buffer
  BY <1>1, <1>2 DEF TypeInv, ClientTypeOK
<1> QED
  BY <1>1, <1>2, <1>3, <1>4, FailIInv

-----------------------------------------------------------------------------
(* The responses come in.                                                  *)

\* What the client is sent is a block that ends where the builder meant it to.
LEMMA SentBlock ==
  ASSUME TypeInv, Replied
  PROVE  /\ Block(sent) \in Seq(Symbol)
         /\ LaidOut(Block(sent), sent)
         /\ Framed(Block(sent))
<1>1. sent \in Seq(Seq(Text)) /\ sent # <<>>
  BY DEF TypeInv, EnvironmentTypeOK, Replied
<1>2. LET w == sent[Len(sent)] IN w # <<>> => w[Len(w)] \notin Glued
  BY DEF Replied
<1> QED
  BY <1>1, <1>2, BlockOfLines

\* The last of the responses are here, and none has been looked at.
LEMMA AllAreRead ==
  ASSUME TypeInv, Answered, TypeInv', call' = "parsing",
         read' = [data |-> Block(sent), bol |-> 0], ~chatty => from' = <<>>,
         UNCHANGED <<write, is_connected, to, pending, packets, asked, peer_open>>,
         UNCHANGED env_vars
  PROVE  IInv'
<1>1. UNCHANGED <<heard, working, sent, greeted, chatty>>
  BY DEF env_vars
<1>2. PICK d \in Seq(Symbol) : d = Block(sent) /\ LaidOut(d, sent)
  BY SentBlock DEF Answered
<1>3. /\ packets = <<>> /\ Len(packets) = 0
      /\ asked \in Seq(RequestCode) /\ asked # <<>> /\ pending = asked
      /\ sent \in Seq(Seq(Text)) /\ sent # <<>> /\ Replied
      /\ write = EmptyBuffer
      /\ is_connected <=> greeted
  BY DEF Answered, TypeInv, ClientTypeOK, EnvironmentTypeOK, Replied
<1>4. Len(asked) \in Nat /\ 0 < Len(asked) /\ Len(sent) \in Nat /\ 0 < Len(sent)
  BY <1>3
<1>5. pending = SubSeq(asked, 0 + 1, Len(asked))
  <2>1. \A S, s : s \in Seq(S) => s = SubSeq(s, 0 + 1, Len(s))
    OBVIOUS
  <2> QED
    BY <2>1, <1>3, Zenon
<1>6. PICK at \in [1 .. Len(sent) + 1 -> 0 .. Len(d)] : Layout(d, sent, at)
  BY <1>2 DEF LaidOut
<1>7. at[0 + 1] = 0
  BY <1>6 DEF Layout
<1>8. Replied'
  BY <1>1, <1>3 DEF Replied, BuilderAtRest
<1>9. read'.data = d /\ read'.bol = 0 /\ Block(sent)' = d /\ sent' = sent
  BY <1>1, <1>2
<1>10. \A i \in 1 .. 0 : FALSE
  OBVIOUS
<1>11. Parsing'
  <2>1. Len(packets') = 0
    BY <1>3
  <2>2. (IF Len(packets') < Len(sent') THEN Len(packets') ELSE Len(sent')) = 0
    BY <2>1, <1>4, <1>9
  <2>3. \E a \in [1 .. Len(sent') + 1 -> 0 .. Len(read'.data)] :
          Layout(read'.data, sent', a) /\ read'.bol = a[0 + 1]
    BY <1>6, <1>7, <1>9
  <2>4. is_connected' <=> greeted' \/ \E i \in 1 .. 0 : packets'[i].code = "PC_CONNECT"
    BY <1>1, <1>3, <1>10, Zenon
  <2>5. \A i \in 1 .. 0 : Tells(packets[i], i)'
    BY <1>10, Zenon
  <2> QED
    BY <2>1, <2>2, <2>3, <2>4, <2>5, <1>1, <1>3, <1>4, <1>5, <1>8, <1>9 DEF Parsing
<1> QED
  BY <1>11 DEF IInv, CallInv

\* Some of the responses arrive; those of a builder that runs two blocks
\* together end the call.
LEMMA ReadIInv ==
  ASSUME IInv, NEW n \in 1 .. Len(from), ReadStep(n), UNCHANGED env_vars
  PROVE  IInv'
<1>1. TypeInv /\ call = "reading" /\ ((\E block \in Seq(Symbol) : Waiting(block)) \/ Answered)
  BY DEF IInv, CallInv, ReadStep
<1>2. read \in Buffer /\ from \in Seq(Symbol) /\ to \in Seq(Symbol) /\ Len(from) \in Nat
  BY <1>1 DEF TypeInv, ClientTypeOK
<1>3. n \in Nat /\ n > 0 /\ n <= Len(from) /\ n \in 0 .. Len(from)
  BY <1>2
<1>4. Answered
  <2>1. from # <<>>
    BY <1>2, <1>3
  <2> QED
    BY <2>1, <1>1 DEF Waiting, Asking
<1>5. PICK d \in Seq(Symbol) : d = Block(sent) /\ Framed(d)
  BY <1>1, <1>4, SentBlock DEF Answered
<1>6. /\ read.bol = 0 /\ Starts(d, read.data, from)
      /\ ~chatty => Len(read.data) + Len(from) <= Len(d)
      /\ peer_open => Len(read.data) + Len(from) >= Len(d)
      /\ Replied /\ write = EmptyBuffer /\ (is_connected <=> greeted)
      /\ pending = asked /\ asked # <<>> /\ packets = <<>>
  BY <1>4, <1>5 DEF Answered
<1> DEFINE r == ReadSome(read, SubSeq(from, 1, n))
           rest == SubSeq(from, n + 1, Len(from))
<1>7. /\ from' = rest /\ read' = r.buffer
      /\ \/ /\ r.err = "EINVAL"
            /\ Fail
         \/ /\ r.err # "EINVAL"
            /\ call' = IF r.err = "0" THEN "parsing" ELSE "reading"
            /\ UNCHANGED <<corked, is_connected, pending, packets, asked, peer_open>>
      /\ UNCHANGED <<to, write>>
  BY <1>1 DEF ReadStep
<1>8. rest \in Seq(Symbol) /\ Len(rest) = Len(from) - n
  BY <1>2, <1>3, ChannelPieces
<1>9. r.buffer \in Buffer /\ r.err \in {"0", "EAGAIN", "EINVAL"}
  <2>1. SubSeq(from, 1, n) \in Seq(Symbol)
    BY <1>2, <1>3, ChannelPieces
  <2> HIDE DEF rest
  <2> QED
    BY <2>1, <1>2, ReadSomeResult
<1>10. IF Len(read.data) + n < Len(d)
       THEN /\ r.err = "EAGAIN"
            /\ r.buffer.bol = read.bol
            /\ Len(r.buffer.data) = Len(read.data) + n
            /\ Starts(d, r.buffer.data, rest)
       ELSE /\ r.err # "EAGAIN"
            /\ r.buffer = [data |-> d, bol |-> read.bol]
  BY <1>2, <1>5, <1>6, ReadStarts
<1> HIDE DEF r, rest
<1>11. UNCHANGED <<heard, working, sent, greeted, chatty>>
  BY DEF env_vars
<1>12. Len(read.data) \in Nat /\ Len(d) \in Nat
  BY <1>2, <1>5 DEF Buffer
<1>13. CASE r.err = "EINVAL"
  <2>1. Fail /\ ~(Len(read.data) + n < Len(d))
    BY <1>7, <1>10, <1>13
  <2>2. ~chatty => from' = <<>>
    <3> SUFFICES ASSUME ~chatty PROVE from' = <<>>
      OBVIOUS
    <3>1. Len(from) - n = 0
      BY <2>1, <1>2, <1>3, <1>6, <1>12
    <3> QED
      BY <3>1, <1>7, <1>8, EmptySeq
  <2> QED
    BY <2>1, <2>2, <1>1, <1>2, <1>6, <1>7, <1>8, <1>9, FailIInv DEF Replied
<1>14. CASE r.err # "EINVAL"
  <2>1. TypeInv'
    <3>1. call' \in Call
      BY <1>7, <1>14 DEF Call
    <3> QED
      BY <3>1, <1>1, <1>7, <1>8, <1>9, <1>11, <1>14 DEF TypeInv, ClientTypeOK, EnvironmentTypeOK
  <2>2. CASE r.err = "0"
    <3>1. ~(Len(read.data) + n < Len(d))
      BY <2>2, <1>10
    <3>2. read' = [data |-> Block(sent), bol |-> 0]
      BY <3>1, <1>5, <1>6, <1>7, <1>10
    <3>3. ~chatty => from' = <<>>
      <4> SUFFICES ASSUME ~chatty PROVE from' = <<>>
        OBVIOUS
      <4>1. Len(from) - n = 0
        BY <3>1, <1>2, <1>3, <1>6, <1>12
      <4> QED
        BY <4>1, <1>7, <1>8, EmptySeq
    <3>4. /\ call' = "parsing"
          /\ UNCHANGED <<write, is_connected, to, pending, packets, asked, peer_open>>
      BY <2>2, <1>7, <1>14
    <3> QED
      BY <2>1, <3>2, <3>3, <3>4, <1>1, <1>4, AllAreRead
  <2>3. CASE r.err = "EAGAIN"
    <3>1. /\ Len(read.data) + n < Len(d)
          /\ r.buffer.bol = 0
          /\ Len(r.buffer.data) = Len(read.data) + n
          /\ Starts(d, r.buffer.data, rest)
      BY <2>3, <1>6, <1>10
    <3>2. call' = "reading"
      BY <2>3, <1>7, <1>14
    <3>3. ~chatty' => Len(read'.data) + Len(from') <= Len(d)
      <4> SUFFICES ASSUME ~chatty PROVE Len(read'.data) + Len(from') <= Len(d)
        BY <1>11
      <4>1. (Len(read.data) + n) + (Len(from) - n) <= Len(d)
        BY <1>2, <1>3, <1>6, <1>12
      <4> QED
        BY <4>1, <3>1, <1>7, <1>8
    <3>4. Replied'
      BY <1>6, <1>7, <1>11, <1>14 DEF Replied, BuilderAtRest
    <3>5. Block(sent)' = d
      BY <1>5, <1>11
    <3>6. peer_open' => Len(read'.data) + Len(from') >= Len(d)
      <4> SUFFICES ASSUME peer_open PROVE Len(read'.data) + Len(from') >= Len(d)
        BY <1>7, <1>14
      <4>1. (Len(read.data) + n) + (Len(from) - n) >= Len(d)
        BY <1>2, <1>3, <1>6, <1>12
      <4> QED
        BY <4>1, <3>1, <1>7, <1>8
    <3>7. Answered'
      BY <3>1, <3>3, <3>4, <3>5, <3>6, <1>6, <1>7, <1>11, <1>14 DEF Answered
    <3> QED
      BY <2>1, <3>2, <3>7 DEF IInv, CallInv
  <2> QED
    BY <2>2, <2>3, <1>9, <1>14
<1> QED
  BY <1>13, <1>14

\* The builder has gone, and with it the rest of its responses.
LEMMA ReadEOFIInv ==
  ASSUME IInv, ReadEOF, UNCHANGED env_vars
  PROVE  IInv'
<1>1. TypeInv /\ call = "reading" /\ ((\E block \in Seq(Symbol) : Waiting(block)) \/ Answered)
  BY DEF IInv, CallInv, ReadEOF
<1>2. /\ Fail /\ ~peer_open /\ from = <<>>
      /\ UNCHANGED <<to, from, write, read>>
  BY DEF ReadEOF
<1>3. write = EmptyBuffer /\ (is_connected <=> greeted)
  BY <1>1 DEF Waiting, Asking, Answered
<1>4. to' \in Seq(Symbol) /\ from' \in Seq(Symbol) /\ read' \in Buffer
  BY <1>1, <1>2 DEF TypeInv, ClientTypeOK
<1> QED
  BY <1>1, <1>2, <1>3, <1>4, FailIInv

-----------------------------------------------------------------------------
(* The responses become packets.                                           *)

\* What a packet tells does not depend on where the call is.
LEMMA TellsStays ==
  ASSUME UNCHANGED <<sent, asked>>, NEW packet, NEW i, Tells(packet, i)
  PROVE  Tells(packet, i)'
<1>1. sent' = sent /\ asked' = asked
  OBVIOUS
<1>2. GreetedBy(i)' <=> GreetedBy(i)
  BY <1>1 DEF GreetedBy, Verb
<1>3. PlainAnswer(i)' <=> PlainAnswer(i)
  BY <1>1 DEF PlainAnswer, Verb
<1> QED
  BY <1>1, <1>2, <1>3 DEF Tells, Verb

\* What ProcessResponse does for one more of the requests.
LEMMA OnePacket ==
  ASSUME TypeInv, Parsing, ParseResponse
  PROVE  LET k == Len(packets)
             P == [code : PacketCode, request : RequestCode, value : PacketValue]
         IN  /\ packets' \in Seq(P) /\ Len(packets') = k + 1
             /\ \A i \in 1 .. k + 1 : Tells(packets'[i], i)
             /\ is_connected' <=> greeted \/ \E i \in 1 .. k + 1 : packets'[i].code = "PC_CONNECT"
             /\ read' \in Buffer /\ read'.data = Block(sent)
             /\ \E at \in [1 .. Len(sent) + 1 -> 0 .. Len(read'.data)] :
                  /\ Layout(read'.data, sent, at)
                  /\ read'.bol = at[(IF k + 1 < Len(sent) THEN k + 1 ELSE Len(sent)) + 1]
<1> DEFINE k == Len(packets)
           P == [code : PacketCode, request : RequestCode, value : PacketValue]
           l == Len(sent)
           m == IF k < l THEN k ELSE l
           m1 == IF k + 1 < l THEN k + 1 ELSE l
           p == NextPacket(Head(pending), Len(pending) = 1)
<1> SUFFICES /\ packets' \in Seq(P) /\ Len(packets') = k + 1
             /\ \A i \in 1 .. k + 1 : Tells(packets'[i], i)
             /\ is_connected' <=> greeted \/ \E i \in 1 .. k + 1 : packets'[i].code = "PC_CONNECT"
             /\ read' \in Buffer /\ read'.data = Block(sent)
             /\ \E at \in [1 .. l + 1 -> 0 .. Len(read'.data)] :
                  Layout(read'.data, sent, at) /\ read'.bol = at[m1 + 1]
  OBVIOUS
<1>1. /\ packets \in Seq(P) /\ k \in Nat
      /\ asked \in Seq(RequestCode) /\ Len(asked) \in Nat /\ k < Len(asked)
      /\ sent \in Seq(Seq(Text)) /\ l \in Nat
      /\ read \in Buffer
  BY DEF TypeInv, ClientTypeOK, EnvironmentTypeOK, Parsing
<1>2. /\ pending = SubSeq(asked, k + 1, Len(asked))
      /\ read.data = Block(sent)
      /\ \A i \in 1 .. k : Tells(packets[i], i)
      /\ is_connected <=> greeted \/ \E i \in 1 .. k : packets[i].code = "PC_CONNECT"
  BY DEF Parsing
<1>3. PICK at \in [1 .. l + 1 -> 0 .. Len(read.data)] :
        Layout(read.data, sent, at) /\ read.bol = at[m + 1]
  BY DEF Parsing
<1>4. /\ packets' = Append(packets, p)
      /\ read' = IF IsAtEnd(read) THEN read ELSE Lex(read).buffer
      /\ is_connected' = (is_connected \/ p.code = "PC_CONNECT")
  BY DEF ParseResponse
<1>5. Head(pending) = asked[k + 1] /\ (Len(pending) = 1 <=> k + 1 = Len(asked))
  <2> HIDE DEF k
  <2> QED
    BY <1>1, <1>2, PendingShrinks, SMTT(40)
<1>6. m \in 0 .. l /\ (k < l => m = k) /\ (m < l <=> k < l) /\ (m = l <=> k >= l)
  <2> HIDE DEF k, l
  <2> QED
    BY <1>1
<1> HIDE DEF k, l, m, P
<1>7. /\ IsAtEnd(read) <=> m = l
      /\ m < l =>
           /\ Lex(read).text = sent[m + 1]
           /\ Lex(read).buffer = [data |-> read.data, bol |-> at[m + 2]]
           /\ Lex(read).err = IF \E i \in 1 .. Len(sent[m + 1]) : sent[m + 1][i] \notin Word
                             THEN "EINVAL"
                             ELSE IF sent[m + 1] = <<>> THEN "ENOENT" ELSE "0"
           /\ IsAtEnd(Lex(read).buffer) <=> m + 1 = l
  BY <1>1, <1>3, <1>6, LexInLayout DEF l
<1>8. p \in P /\ Tells(p, k + 1)
  <2>1. /\ IsAtEnd(read) <=> k >= l
        /\ k < l =>
             /\ Lex(read).text = sent[k + 1]
             /\ Lex(read).err = IF \E i \in 1 .. Len(sent[k + 1]) : sent[k + 1][i] \notin Word
                               THEN "EINVAL"
                               ELSE IF sent[k + 1] = <<>> THEN "ENOENT" ELSE "0"
             /\ IsAtEnd(Lex(read).buffer) <=> k + 1 = l
    BY <1>6, <1>7
  <2> DEFINE isLast == Len(pending) = 1
  <2>2. isLast <=> k + 1 = Len(asked)
    BY <1>5
  <2>3. p = NextPacket(asked[k + 1], isLast)
    BY <1>5
  <2> HIDE DEF isLast, p
  <2>4. NextPacket(asked[k + 1], isLast) \in P /\ Tells(NextPacket(asked[k + 1], isLast), k + 1)
    BY <1>1, <2>1, <2>2, NextPacketTells, Zenon DEF l, P
  <2> QED
    BY <2>3, <2>4
<1> HIDE DEF p
<1>9. /\ packets' \in Seq(P) /\ Len(packets') = k + 1
      /\ \A i \in 1 .. k : packets'[i] = packets[i]
      /\ packets'[k + 1] = p
  BY <1>1, <1>4, <1>8, AppendProperties DEF k
<1>10. \A i \in 1 .. k + 1 : i \in 1 .. k \/ i = k + 1
  BY <1>1
<1>11. k + 1 \in 1 .. k + 1 /\ \A i \in 1 .. k : i \in 1 .. k + 1
  BY <1>1
<1>12. \A i \in 1 .. k + 1 : Tells(packets'[i], i)
  BY <1>2, <1>8, <1>9, <1>10
<1>13. is_connected' <=> greeted \/ \E i \in 1 .. k + 1 : packets'[i].code = "PC_CONNECT"
  <2>1. (\E i \in 1 .. k + 1 : packets'[i].code = "PC_CONNECT")
          <=> (\E i \in 1 .. k : packets[i].code = "PC_CONNECT") \/ p.code = "PC_CONNECT"
    BY <1>9, <1>10, <1>11
  <2> QED
    BY <2>1, <1>2, <1>4, Zenon
<1>14. /\ read' \in Buffer /\ read'.data = read.data /\ read'.bol = at[m1 + 1]
  <2>1. CASE k < l
    <3>1. read' = [data |-> read.data, bol |-> at[k + 2]]
      BY <2>1, <1>1, <1>4, <1>6, <1>7
    <3>2. m1 = k + 1 /\ k + 2 = m1 + 1 /\ k + 2 \in 1 .. l + 1
      BY <2>1, <1>1
    <3>3. at[k + 2] \in Nat
      <4>1. Len(read.data) \in Nat
        BY <1>1 DEF Buffer
      <4> QED
        BY <4>1, <3>2, <1>3
    <3> QED
      BY <3>1, <3>2, <3>3, <1>1 DEF Buffer
  <2>2. CASE ~(k < l)
    <3>1. read' = read /\ m = l /\ m1 = l
      BY <2>2, <1>1, <1>4, <1>6, <1>7
    <3> QED
      BY <3>1, <1>1, <1>3
  <2> QED
    BY <2>1, <2>2
<1> HIDE DEF m1
<1>15. /\ read'.data = Block(sent)
       /\ \E a \in [1 .. l + 1 -> 0 .. Len(read'.data)] :
            Layout(read'.data, sent, a) /\ read'.bol = a[m1 + 1]
  BY <1>2, <1>3, <1>14
<1> QED
  BY <1>9, <1>12, <1>13, <1>14, <1>15

\* A packet more, and with the last of them the call ends.
LEMMA ParseIInv ==
  ASSUME IInv, ParseResponse, UNCHANGED env_vars
  PROVE  IInv'
<1>1. TypeInv /\ Parsing /\ call = "parsing"
  BY DEF IInv, CallInv, ParseResponse
<1>2. /\ UNCHANGED <<to, from, write, asked, peer_open>>
      /\ UNCHANGED <<heard, working, sent, greeted, chatty>>
  BY DEF ParseResponse, env_vars
<1> DEFINE P == [code : PacketCode, request : RequestCode, value : PacketValue]
<1>3. PICK k \in Nat : k = Len(packets)
  BY <1>1 DEF TypeInv, ClientTypeOK
<1>4. /\ packets' \in Seq(P) /\ Len(packets') = k + 1
      /\ \A i \in 1 .. k + 1 : Tells(packets'[i], i)
      /\ is_connected' <=> greeted \/ \E i \in 1 .. k + 1 : packets'[i].code = "PC_CONNECT"
      /\ read' \in Buffer /\ read'.data = Block(sent)
      /\ \E at \in [1 .. Len(sent) + 1 -> 0 .. Len(read'.data)] :
           /\ Layout(read'.data, sent, at)
           /\ read'.bol = at[(IF k + 1 < Len(sent) THEN k + 1 ELSE Len(sent)) + 1]
  BY <1>1, <1>3, OnePacket
<1>5. /\ asked \in Seq(RequestCode) /\ Len(asked) \in Nat /\ k < Len(asked)
      /\ pending = SubSeq(asked, k + 1, Len(asked))
      /\ Replied /\ write = EmptyBuffer
      /\ ~chatty => from = <<>>
  BY <1>1, <1>3 DEF TypeInv, ClientTypeOK, Parsing
<1>6. /\ Len(pending) = 1 <=> k + 1 = Len(asked)
      /\ Tail(pending) \in Seq(RequestCode)
      /\ Tail(pending) = SubSeq(asked, (k + 1) + 1, Len(asked))
      /\ k + 1 = Len(asked) => Tail(pending) = <<>>
  BY <1>5, PendingShrinks
<1>7. /\ pending' = Tail(pending)
      /\ call' = IF Len(pending) = 1 THEN "idle" ELSE "parsing"
      /\ corked' = IF Len(pending) = 1 THEN <<>> ELSE corked
  BY <1>1 DEF ParseResponse
<1>8. PICK ps \in Seq(P) : ps = packets'
  BY <1>4
<1> HIDE DEF P
<1>9. \A i \in 1 .. k + 1 : Tells(ps[i], i)'
  <2>1. ASSUME NEW x, NEW i, Tells(x, i) PROVE Tells(x, i)'
    BY <2>1, <1>2, TellsStays
  <2> QED
    BY <2>1, <1>4, <1>8
<1>10. \A i \in 1 .. k + 1 : Tells(packets[i], i)'
  BY <1>8, <1>9
<1>11. TypeInv'
  <2>1. /\ call' \in Call /\ is_connected' \in BOOLEAN
        /\ pending' \in Seq(RequestCode)
        /\ corked' \in Seq(RequestCode \cup {CorkMark})
    <3>1. pending' \in Seq(RequestCode)
      BY <1>6, <1>7
    <3>2. is_connected' \in BOOLEAN
      <4>1. is_connected' = (is_connected \/ NextPacket(Head(pending), Len(pending) = 1).code = "PC_CONNECT")
        BY DEF ParseResponse
      <4> QED
        BY <4>1
    <3>3. <<>> \in Seq(RequestCode \cup {CorkMark})
      OBVIOUS
    <3>4. corked \in Seq(RequestCode \cup {CorkMark})
      BY <1>1 DEF TypeInv, ClientTypeOK
    <3> QED
      BY <3>1, <3>2, <3>3, <3>4, <1>7 DEF Call
  <2> QED
    BY <2>1, <1>1, <1>2, <1>4 DEF TypeInv, ClientTypeOK, EnvironmentTypeOK, P
<1>12. Replied'
  BY <1>2, <1>5 DEF Replied, BuilderAtRest
<1>13. CASE k + 1 < Len(asked)
  <2>1. call' = "parsing" /\ pending' = SubSeq(asked, (k + 1) + 1, Len(asked))
    BY <1>5, <1>6, <1>7, <1>13
  <2>2. Block(sent)' = Block(sent)
    BY <1>2
  <2>3. Parsing'
    BY <2>1, <2>2, <1>2, <1>4, <1>5, <1>10, <1>12, <1>13 DEF Parsing
  <2> QED
    BY <2>1, <2>3, <1>11 DEF IInv, CallInv
<1>14. CASE k + 1 = Len(asked)
  <2>1. /\ call' = "idle" /\ pending' = <<>> /\ corked' = <<>>
    BY <1>6, <1>7, <1>14
  <2>2. is_connected' <=> greeted' \/ Greeted'
    <3>1. packets' = <<CommunicationError>> => packets'[1].code = "PC_ERROR" /\ Len(packets') = 1
      BY DEF CommunicationError, PlainPacket, Packet
    <3>2. \A i \in 1 .. k + 1 : packets'[i].code = "PC_CONNECT" <=> GreetedBy(i)'
      BY <1>10 DEF Tells
    <3>3. CASE packets' = <<CommunicationError>>
      <4>1. ~Greeted'
        BY <3>3 DEF Greeted, Succeeded
      <4>2. ~\E i \in 1 .. k + 1 : packets'[i].code = "PC_CONNECT"
        <5>1. k + 1 = 1 /\ \A i \in 1 .. 1 : i = 1
          BY <3>1, <3>3, <1>4
        <5> QED
          BY <5>1, <3>1, <3>3
      <4> QED
        BY <4>1, <4>2, <1>2, <1>4, Zenon
    <3>4. CASE packets' # <<CommunicationError>>
      <4>1. Succeeded'
        BY <2>1, <3>4, <1>2, <1>5 DEF Succeeded, Replied
      <4>2. DOMAIN asked' = 1 .. k + 1
        BY <1>2, <1>5, <1>14
      <4>3. Greeted' <=> \E i \in 1 .. k + 1 : GreetedBy(i)'
        BY <4>1, <4>2 DEF Greeted
      <4> QED
        BY <4>3, <3>2, <1>2, <1>4, Zenon
    <3> QED
      BY <3>3, <3>4
  <2>3. Queue' = <<>> /\ Queue' \in Seq(RequestCode)
    BY <2>1 DEF Queue
  <2>4. Queued'
    BY <2>3, <1>2, <1>5 DEF Queued, EmptyBuffer
  <2>5. /\ asked' # <<>> /\ Len(packets') = Len(asked')
        /\ \A i \in 1 .. Len(asked') : Tells(packets[i], i)'
    BY <1>2, <1>4, <1>5, <1>10, <1>14
  <2>6. Idle'
    BY <2>1, <2>2, <2>3, <2>4, <2>5, <1>2, <1>5, <1>12 DEF Idle, Replied
  <2> QED
    BY <2>1, <2>6, <1>11 DEF IInv, CallInv
<1> QED
  BY <1>5, <1>13, <1>14

-----------------------------------------------------------------------------
(* The builder.                                                            *)

\* The builder reads some of the requests.
LEMMA HearIInv ==
  ASSUME IInv, NEW n \in 1 .. PipeCapacity, Hear(n)
  PROVE  IInv'
<1> DEFINE r == ReadSome(heard, SubSeq(to, 1, n))
           rest == SubSeq(to, n + 1, Len(to))
<1>1. TypeInv /\ CallInv
  BY DEF IInv
<1>2. /\ heard \in Buffer /\ heard.data \in Seq(Symbol) /\ to \in Seq(Symbol)
      /\ Len(to) \in Nat /\ Len(heard.data) \in Nat
  BY <1>1 DEF TypeInv, ClientTypeOK, EnvironmentTypeOK, Buffer
<1>3. /\ ~working /\ peer_open /\ n <= Len(to)
      /\ to' = rest /\ heard' = r.buffer
      /\ working' = (r.err # "EAGAIN")
      /\ UNCHANGED <<from, peer_open, sent, greeted, chatty>>
      /\ UNCHANGED <<write, read, corked, is_connected, call, pending, packets, asked>>
  BY DEF Hear, client_vars
<1>4. n \in Nat /\ n > 0 /\ n \in 0 .. Len(to) /\ n \in 1 .. Len(to)
  BY <1>2, <1>3
<1>5. rest \in Seq(Symbol) /\ Len(rest) = Len(to) - n
  BY <1>2, <1>4, ChannelPieces
<1>6. r.buffer \in Buffer
  <2>1. SubSeq(to, 1, n) \in Seq(Symbol)
    BY <1>2, <1>4, ChannelPieces
  <2> HIDE DEF rest
  <2> QED
    BY <2>1, <1>2, ReadSomeResult
<1>7. ASSUME NEW d \in Seq(Symbol), Framed(d), Starts(d, heard.data, to)
      PROVE  IF Len(heard.data) + n < Len(d)
             THEN /\ r.err = "EAGAIN"
                  /\ Len(r.buffer.data) = Len(heard.data) + n
                  /\ Starts(d, r.buffer.data, rest)
             ELSE r.err # "EAGAIN" /\ r.buffer.data = d
  <2>1. IF Len(heard.data) + n < Len(d)
        THEN /\ r.err = "EAGAIN"
             /\ r.buffer.bol = heard.bol
             /\ Len(r.buffer.data) = Len(heard.data) + n
             /\ Starts(d, r.buffer.data, rest)
        ELSE /\ r.err # "EAGAIN"
             /\ r.buffer = [data |-> d, bol |-> heard.bol]
    BY <1>2, <1>4, <1>7, ReadStarts
  <2> HIDE DEF r, rest
  <2> QED
    BY <2>1
<1> HIDE DEF r, rest
<1>8. TypeInv'
  BY <1>1, <1>3, <1>5, <1>6 DEF TypeInv, ClientTypeOK, EnvironmentTypeOK
<1>9. to # <<>>
  BY <1>2, <1>4
<1>10. ~BuilderAtRest
  BY <1>3, <1>9 DEF BuilderAtRest
<1>11. ~Idle /\ ~Answered /\ ~Parsing
  BY <1>10 DEF Idle, Answered, Parsing, Replied
<1>12. ASSUME NEW d, Asking(d) PROVE Asking(d)'
  BY <1>3, <1>12 DEF Asking
<1>13. CASE call = "writing"
  <2>1. PICK d \in Seq(Symbol) : d = write.data
    BY <1>1 DEF TypeInv, ClientTypeOK, Buffer
  <2>2. /\ Asking(d) /\ write.bol < Len(d)
        /\ write.bol = Len(heard.data) + Len(to)
        /\ Starts(d, heard.data, to)
    BY <1>1, <1>3, <1>13, <2>1 DEF CallInv, Writing
  <2>3. Len(heard.data) + n < Len(d)
    <3>1. Len(d) \in Nat
      BY <2>1
    <3> QED
      BY <3>1, <2>2, <1>2, <1>3, <1>4
  <2>4. Framed(d)
    BY <2>2 DEF Asking
  <2>5. /\ r.err = "EAGAIN"
        /\ Len(r.buffer.data) = Len(heard.data) + n
        /\ Starts(d, r.buffer.data, rest)
    BY <2>2, <2>3, <2>4, <1>7
  <2>6. write.bol = Len(r.buffer.data) + Len(rest)
    <3>1. Len(heard.data) + Len(to) = (Len(heard.data) + n) + (Len(to) - n)
      BY <1>2, <1>4
    <3> QED
      BY <3>1, <2>2, <2>5, <1>5
  <2>7. Asking(d)'
    BY <2>2, <1>12
  <2>8. Writing'
    BY <2>1, <2>2, <2>5, <2>6, <2>7, <1>3 DEF Writing
  <2> QED
    BY <2>8, <1>3, <1>8, <1>13 DEF IInv, CallInv
<1>14. CASE call = "reading"
  <2>1. PICK d \in Seq(Symbol) : Waiting(d)
    BY <1>1, <1>11, <1>14 DEF CallInv
  <2>2. /\ write = EmptyBuffer /\ Asking(d) /\ Framed(d)
        /\ Len(d) = Len(heard.data) + Len(to)
        /\ Starts(d, heard.data, to)
    BY <2>1, <1>3 DEF Waiting, Asking
  <2>3. Asking(d)'
    BY <2>2, <1>12
  <2>4. CASE Len(heard.data) + n < Len(d)
    <3>1. /\ r.err = "EAGAIN"
          /\ Len(r.buffer.data) = Len(heard.data) + n
          /\ Starts(d, r.buffer.data, rest)
      BY <2>2, <2>4, <1>7
    <3>2. Len(d) = Len(r.buffer.data) + Len(rest)
      <4>1. Len(heard.data) + Len(to) = (Len(heard.data) + n) + (Len(to) - n)
        BY <1>2, <1>4
      <4> QED
        BY <4>1, <3>1, <2>2, <1>5
    <3>3. Waiting(d)'
      BY <3>1, <3>2, <2>2, <2>3, <1>3 DEF Waiting
    <3> QED
      BY <3>3, <1>3, <1>8, <1>14 DEF IInv, CallInv
  <2>5. CASE ~(Len(heard.data) + n < Len(d))
    <3>1. r.err # "EAGAIN" /\ r.buffer.data = d
      BY <2>2, <2>5, <1>7
    <3>2. rest = <<>>
      <4>1. Len(to) - n = 0
        BY <2>2, <2>5, <1>2, <1>3, <1>4
      <4> QED
        BY <4>1, <1>5, EmptySeq
    <3>3. Waiting(d)'
      BY <3>1, <3>2, <2>2, <2>3, <1>3 DEF Waiting
    <3> QED
      BY <3>3, <1>3, <1>8, <1>14 DEF IInv, CallInv
  <2> QED
    BY <2>4, <2>5
<1> QED
  <2>1. call \in Call
    BY <1>1 DEF TypeInv, ClientTypeOK
  <2> QED
    BY <2>1, <1>1, <1>11, <1>13, <1>14 DEF Call, CallInv

\* It replies to them, and perhaps says more than it was asked.
LEMMA ReplyIInv ==
  ASSUME IInv,
         NEW lines \in Seq(Seq(Text)), lines # <<>>,
         LET w == lines[Len(lines)] IN w # <<>> => w[Len(w)] \notin Glued,
         NEW extra \in Seq(Seq(Text)),
         extra # <<>> => LET w == extra[Len(extra)] IN w # <<>> => w[Len(w)] \notin Glued,
         NEW after \in BOOLEAN, after => extra # <<>>,
         Reply(lines, extra, after)
  PROVE  IInv'
<1>1. TypeInv /\ CallInv
  BY DEF IInv
<1> DEFINE more == IF after THEN <<>> ELSE extra
           said == lines \o more
           tail == IF after THEN Block(extra) ELSE <<>>
<1>2. /\ working /\ peer_open /\ ~chatty
      /\ sent' = said
      /\ from' = from \o Block(sent') \o tail
      /\ chatty' = after
      /\ heard' = EmptyBuffer /\ working' = FALSE
      /\ UNCHANGED <<to, peer_open, greeted>>
      /\ UNCHANGED <<write, read, corked, is_connected, call, pending, packets, asked>>
  BY DEF Reply, client_vars
<1>3. ~BuilderAtRest
  BY <1>2 DEF BuilderAtRest
<1>4. ~Idle /\ ~Answered /\ ~Parsing /\ ~Writing
  BY <1>2, <1>3 DEF Idle, Answered, Parsing, Replied, Writing
<1>5. call = "reading" /\ \E block \in Seq(Symbol) : Waiting(block)
  <2>1. call \in Call
    BY <1>1 DEF TypeInv, ClientTypeOK
  <2> QED
    BY <2>1, <1>1, <1>4 DEF Call, CallInv
<1>6. /\ write = EmptyBuffer /\ to = <<>>
      /\ pending = asked /\ asked # <<>> /\ packets = <<>>
      /\ read = EmptyBuffer /\ from = <<>>
      /\ is_connected <=> greeted
  BY <1>2, <1>5 DEF Waiting, Asking
<1>7. /\ said \in Seq(Seq(Text)) /\ said # <<>>
      /\ LET w == said[Len(said)] IN w # <<>> => w[Len(w)] \notin Glued
  <2> DEFINE S == Seq(Text)
             End(w) == w # <<>> => w[Len(w)] \notin Glued
  <2>1. lines \in Seq(S) /\ more \in Seq(S)
    OBVIOUS
  <2>2. End(lines[Len(lines)]) /\ (more # <<>> => End(more[Len(more)]))
    OBVIOUS
  <2> HIDE DEF more, S, End
  <2>3. /\ said \in Seq(S) /\ Len(said) = Len(lines) + Len(more)
        /\ \A i \in 1 .. Len(lines) + Len(more) :
             said[i] = IF i <= Len(lines) THEN lines[i] ELSE more[i - Len(lines)]
    BY <2>1, ConcatProperties
  <2>4. Len(lines) \in Nat /\ Len(lines) > 0 /\ Len(more) \in Nat
    BY <2>1, EmptySeq
  <2> HIDE DEF said
  <2>5. said # <<>>
    BY <2>3, <2>4
  <2>6. End(said[Len(said)])
    <3>1. CASE more = <<>>
      <4>1. Len(said) = Len(lines) /\ Len(said) \in 1 .. Len(lines) + Len(more)
        BY <3>1, <2>1, <2>3, <2>4
      <4> QED
        BY <4>1, <2>2, <2>3
    <3>2. CASE more # <<>>
      <4>1. Len(more) > 0
        BY <3>2, <2>1, EmptySeq
      <4>2. /\ Len(said) \in 1 .. Len(lines) + Len(more)
            /\ ~(Len(said) <= Len(lines)) /\ Len(said) - Len(lines) = Len(more)
        BY <4>1, <2>3, <2>4
      <4> QED
        BY <4>2, <3>2, <2>2, <2>3
    <3> QED
      BY <3>1, <3>2
  <2> QED
    BY <2>3, <2>5, <2>6 DEF S, End
<1>8. Block(said) \in Seq(Symbol) /\ Framed(Block(said))
  BY <1>7, BlockOfLines
<1>9. tail \in Seq(Symbol) /\ (~after => tail = <<>>)
  <2>1. CASE after
    <3>1. Block(extra) \in Seq(Symbol)
      BY <2>1, BlockOfLines
    <3> QED
      BY <3>1, <2>1
  <2>2. CASE ~after
    BY <2>2, EmptySeq
  <2> QED
    BY <2>1, <2>2
<1> HIDE DEF said, more, tail
<1>10. PICK d \in Seq(Symbol) : d = Block(said) /\ Framed(d)
  BY <1>8
<1>11. /\ from' \in Seq(Symbol)
       /\ Len(from') = Len(d) + Len(tail)
       /\ \A i \in 1 .. Len(d) : from'[i] = d[i]
       /\ Len(d) \in Nat /\ Len(tail) \in Nat
  <2>1. from' = <<>> \o d \o tail
    BY <1>2, <1>6, <1>10
  <2>2. <<>> \o d = d
    BY <1>10, ConcatEmptySeq
  <2>3. from' = d \o tail
    BY <2>1, <2>2
  <2>4. /\ d \o tail \in Seq(Symbol) /\ Len(d \o tail) = Len(d) + Len(tail)
        /\ \A i \in 1 .. Len(d) + Len(tail) :
             (d \o tail)[i] = IF i <= Len(d) THEN d[i] ELSE tail[i - Len(d)]
    BY <1>9, ConcatProperties
  <2>5. Len(d) \in Nat /\ Len(tail) \in Nat
    BY <1>9, SMTT(40)
  <2>6. \A i \in 1 .. Len(d) : i \in 1 .. Len(d) + Len(tail) /\ i <= Len(d)
    BY <2>5
  <2> QED
    BY <2>3, <2>4, <2>5, <2>6
<1>12. TypeInv'
  <2>1. chatty' \in BOOLEAN /\ working' \in BOOLEAN /\ sent' \in Seq(Seq(Text)) /\ heard' \in Buffer
    BY <1>2, <1>7, EmptyBufferType
  <2> QED
    BY <2>1, <1>1, <1>2, <1>11 DEF TypeInv, ClientTypeOK, EnvironmentTypeOK
<1>13. Replied'
  BY <1>2, <1>6, <1>7 DEF Replied, BuilderAtRest
<1>14. Starts(d, <<>>, from')
  <2>1. 0 < Len(d)
    BY <1>10 DEF Framed
  <2>2. \A j \in 1 .. Len(from') : j <= Len(d) => from'[j] = d[j]
    <3>1. \A j \in 1 .. Len(from') : j <= Len(d) => j \in 1 .. Len(d)
      <4>1. Len(d) \in Nat /\ Len(from') \in Nat
        BY <1>11, LenProperties
      <4> QED
        BY <4>1
    <3>2. \A i \in 1 .. Len(d) : from'[i] = d[i]
      BY <1>11
    <3> QED
      BY <3>1, <3>2, Zenon
  <2> QED
    BY <2>1, <2>2 DEF Starts
<1>15. /\ ~after => Len(<<>>) + Len(from') <= Len(d)
       /\ Len(<<>>) + Len(from') >= Len(d)
  BY <1>9, <1>11
<1>16. Answered'
  <2>1. read'.bol = 0 /\ read'.data = <<>>
    BY <1>2, <1>6 DEF EmptyBuffer
  <2>2. Block(sent)' = d
    BY <1>2, <1>10
  <2> QED
    BY <2>1, <2>2, <1>2, <1>6, <1>13, <1>14, <1>15 DEF Answered
<1> QED
  BY <1>2, <1>5, <1>12, <1>16 DEF IInv, CallInv

\* It goes away.
LEMMA LeaveIInv ==
  ASSUME IInv, Leave
  PROVE  IInv'
<1>1. TypeInv /\ CallInv
  BY DEF IInv
<1>2. PICK n \in 0 .. Len(from) : from' = SubSeq(from, 1, n)
  BY DEF Leave
<1>3. /\ peer_open' = FALSE
      /\ UNCHANGED <<to, heard, working, sent, greeted, chatty>>
      /\ UNCHANGED <<write, read, corked, is_connected, call, pending, packets, asked>>
  BY DEF Leave, client_vars, env_vars
<1>4. from \in Seq(Symbol) /\ Len(from) \in Nat
  BY <1>1 DEF TypeInv, ClientTypeOK
<1>5. from' \in Seq(Symbol) /\ Len(from') = n /\ n \in Nat /\ n <= Len(from)
  BY <1>2, <1>4, ChannelPieces
<1>6. from = <<>> => from' = <<>>
  <2> SUFFICES ASSUME from = <<>> PROVE from' = <<>>
    OBVIOUS
  <2>1. Len(from) = 0
    OBVIOUS
  <2>2. Len(from') = 0
    BY <2>1, <1>5
  <2> QED
    BY <2>2, <1>5, EmptySeq
<1>7. \A j \in 1 .. Len(from') : j \in 1 .. Len(from) /\ from'[j] = from[j]
  <2>1. \A j \in 1 .. n : j \in 1 .. Len(from)
    BY <1>4, <1>5
  <2>2. \A S, s, k : s \in Seq(S) /\ k \in Nat /\ k <= Len(s) => \A j \in 1 .. k : SubSeq(s, 1, k)[j] = s[j]
    OBVIOUS
  <2> QED
    BY <2>1, <2>2, <1>2, <1>4, <1>5
<1>8. TypeInv'
  BY <1>1, <1>3, <1>5 DEF TypeInv, ClientTypeOK, EnvironmentTypeOK
<1>9. BuilderAtRest' /\ (Replied => Replied')
  BY <1>3 DEF BuilderAtRest, Replied
<1>10. ASSUME NEW x, NEW i, Tells(x, i) PROVE Tells(x, i)'
  BY <1>3, <1>10, TellsStays
<1>11. CASE call = "idle"
  <2>1. Idle
    BY <1>1, <1>11 DEF CallInv
  <2>2. Queue' = Queue /\ (Queued => Queued')
    BY <1>3 DEF Queue, Queued
  <2>3. Greeted' <=> Greeted
    BY <1>3 DEF Greeted, Succeeded, GreetedBy, Verb
  <2>4. is_connected' <=> greeted' \/ Greeted'
    BY <2>1, <2>3, <1>3, Zenon DEF Idle
  <2>5. ASSUME \A i \in 1 .. Len(asked) : Tells(packets[i], i)
        PROVE  \A i \in 1 .. Len(asked') : Tells(packets[i], i)'
    <3>1. \A i \in 1 .. Len(asked) : Tells(packets[i], i)'
      BY <2>5, <1>3 DEF Tells, GreetedBy, PlainAnswer, Verb
    <3> QED
      BY <3>1, <1>3
  <2>6. Idle'
    BY <2>1, <2>2, <2>4, <2>5, <1>3, <1>6, <1>9 DEF Idle
  <2> QED
    BY <2>6, <1>3, <1>8, <1>11 DEF IInv, CallInv
<1>12. ASSUME NEW d, Asking(d) PROVE Asking(d)'
  BY <1>3, <1>6, <1>12 DEF Asking
<1>13. CASE call = "writing"
  <2>1. Writing
    BY <1>1, <1>13 DEF CallInv
  <2>2. PICK d : d = write.data /\ Asking(d)
    BY <2>1 DEF Writing
  <2>3. Asking(d)'
    BY <2>2, <1>12
  <2>4. Writing'
    BY <2>1, <2>2, <2>3, <1>3 DEF Writing
  <2> QED
    BY <2>4, <1>3, <1>8, <1>13 DEF IInv, CallInv
<1>14. CASE call = "reading"
  <2>1. ASSUME NEW d \in Seq(Symbol), Waiting(d) PROVE Waiting(d)'
    <3>1. Asking(d)'
      BY <2>1, <1>12 DEF Waiting
    <3> QED
      BY <3>1, <2>1, <1>3 DEF Waiting
  <2>2. ASSUME Answered PROVE Answered'
    <3>1. PICK d \in Seq(Symbol) : d = Block(sent)
      BY <2>2, <1>1, SentBlock DEF Answered
    <3>2. Block(sent)' = d
      BY <3>1, <1>3
    <3>3. Starts(d, read.data, from) /\ (~chatty => Len(read.data) + Len(from) <= Len(d))
      BY <2>2, <3>1 DEF Answered
    <3>4. Starts(d, read.data, from')
      BY <3>3, <1>7 DEF Starts
    <3>5. ~chatty => Len(read.data) + Len(from') <= Len(d)
      <4>1. Len(read.data) \in Nat /\ Len(d) \in Nat
        BY <1>1, <3>1 DEF TypeInv, ClientTypeOK, Buffer
      <4> QED
        BY <4>1, <3>3, <1>4, <1>5
    <3> QED
      BY <2>2, <3>2, <3>4, <3>5, <1>3, <1>9 DEF Answered
  <2>3. (\E d \in Seq(Symbol) : Waiting(d)) \/ Answered
    BY <1>1, <1>14 DEF CallInv
  <2>4. (\E d \in Seq(Symbol) : Waiting(d)') \/ Answered'
    BY <2>1, <2>2, <2>3
  <2> QED
    BY <2>4, <1>3, <1>8, <1>14 DEF IInv, CallInv
<1>15. CASE call = "parsing"
  <2>1. Parsing
    BY <1>1, <1>15 DEF CallInv
  <2>2. Block(sent)' = Block(sent)
    BY <1>3
  <2>3. \A i \in 1 .. Len(packets) : Tells(packets[i], i)'
    BY <2>1, <1>3 DEF Parsing, Tells, GreetedBy, PlainAnswer, Verb
  <2>4. Parsing'
    BY <2>1, <2>2, <2>3, <1>3, <1>6, <1>9 DEF Parsing
  <2> QED
    BY <2>4, <1>3, <1>8, <1>15 DEF IInv, CallInv
<1> QED
  <2>1. call \in Call
    BY <1>1 DEF TypeInv, ClientTypeOK
  <2> QED
    BY <2>1, <1>11, <1>13, <1>14, <1>15 DEF Call

-----------------------------------------------------------------------------
(* The invariant is inductive.                                             *)

LEMMA InitIInv ==
  ASSUME Init
  PROVE  IInv
<1>1. /\ to = <<>> /\ from = <<>> /\ peer_open = TRUE
      /\ write = EmptyBuffer /\ read = EmptyBuffer
      /\ corked = <<>> /\ is_connected = FALSE /\ call = "idle"
      /\ pending = <<>> /\ packets = <<>> /\ asked = <<>>
      /\ heard = EmptyBuffer /\ working = FALSE /\ sent = <<>>
      /\ greeted = FALSE /\ chatty = FALSE
  BY DEF Init, ClientInit
<1>2. TypeInv
  <2>1. call \in Call
    BY <1>1 DEF Call
  <2>2. \A S : <<>> \in Seq(S)
    OBVIOUS
  <2> QED
    BY <2>1, <2>2, <1>1, EmptyBufferType, Zenon DEF TypeInv, ClientTypeOK, EnvironmentTypeOK
<1>3. ~Greeted
  BY <1>1 DEF Greeted, Succeeded
<1>4. Queue = <<>> /\ Queue \in Seq(RequestCode)
  BY <1>1 DEF Queue
<1>5. Queued
  BY <1>1, <1>4 DEF Queued, EmptyBuffer
<1>6. Idle
  BY <1>1, <1>3, <1>4, <1>5 DEF Idle, BuilderAtRest
<1> QED
  BY <1>1, <1>2, <1>6 DEF IInv, CallInv

\* The lines of the builder, one by one and together.
LEMMA BuilderSays ==
  /\ \A lines \in UNION {[1 .. n -> BuilderLines] : n \in 1 .. MaxCorked} :
       /\ lines \in Seq(Seq(Text)) /\ lines # <<>>
       /\ LET w == lines[Len(lines)] IN w # <<>> => w[Len(w)] \notin Glued
  /\ \A line \in ExtraLines :
       /\ <<line>> \in Seq(Seq(Text)) /\ <<line>> # <<>>
       /\ line # <<>> => line[Len(line)] \notin Glued
<1>1. /\ BuilderLines \subseteq Seq(Text) /\ ExtraLines \subseteq Seq(Text)
      /\ \A line \in BuilderLines \cup ExtraLines : line # <<>> => line[Len(line)] \notin Glued
  <2>1. /\ BuilderLines \cup ExtraLines \subseteq Seq(Text)
        /\ \A line \in BuilderLines \cup ExtraLines : line # <<>> => line[Len(line)] \notin Glued
    BY BuilderAssumption, Zenon DEF Text
  <2> QED
    BY <2>1
<1>2. ASSUME NEW n \in 1 .. MaxCorked, NEW lines \in [1 .. n -> BuilderLines]
      PROVE  /\ lines \in Seq(Seq(Text)) /\ lines # <<>>
             /\ LET w == lines[Len(lines)] IN w # <<>> => w[Len(w)] \notin Glued
  <2> DEFINE S == Seq(Text)
  <2>1. n \in Nat /\ n > 0 /\ n \in 1 .. n
    OBVIOUS
  <2>2. lines \in [1 .. n -> S]
    BY <1>1
  <2>3. lines \in Seq(S) /\ Len(lines) = n
    <3> HIDE DEF S
    <3> QED
      BY <2>1, <2>2
  <2>4. lines[n] \in BuilderLines
    BY <2>1
  <2> QED
    BY <2>1, <2>3, <2>4, <1>1
<1>3. ASSUME NEW line \in ExtraLines
      PROVE  /\ <<line>> \in Seq(Seq(Text)) /\ <<line>> # <<>>
             /\ line # <<>> => line[Len(line)] \notin Glued
  <2>1. \A T, x : x \in T => <<x>> \in Seq(T) /\ <<x>> # <<>>
    OBVIOUS
  <2>2. line \in Seq(Text)
    BY <1>1
  <2>3. <<line>> \in Seq(Seq(Text)) /\ <<line>> # <<>>
    BY <2>1, <2>2, Zenon
  <2> QED
    BY <2>3, <1>1
<1> QED
  BY <1>2, <1>3

LEMMA NextIInv ==
  ASSUME Arguments \subseteq Seq(Word), IInv, [Next]_vars
  PROVE  IInv'
<1>1. CASE Calls
  BY <1>1, CallIInv
<1>2. CASE Communicates
  <2>1. UNCHANGED env_vars
    BY <1>2 DEF Communicates
  <2>2. CASE SomeWrite
    BY <2>1, <2>2, WriteIInv DEF SomeWrite
  <2>3. CASE WriteError
    BY <2>1, <2>3, WriteErrorIInv
  <2>4. CASE SomeRead
    BY <2>1, <2>4, ReadIInv DEF SomeRead
  <2>5. CASE ReadEOF
    BY <2>1, <2>5, ReadEOFIInv
  <2>6. CASE ParseResponse
    BY <2>1, <2>6, ParseIInv
  <2> QED
    BY <1>2, <2>2, <2>3, <2>4, <2>5, <2>6 DEF Communicates
<1>3. CASE SomeHear
  BY <1>3, HearIInv DEF SomeHear
<1>4. CASE SomeReply
  <2>1. PICK lines \in UNION {[1 .. n -> BuilderLines] : n \in 1 .. MaxCorked} :
          \/ Reply(lines, <<>>, FALSE)
          \/ \E line \in ExtraLines, after \in BOOLEAN : Reply(lines, <<line>>, after)
    BY <1>4 DEF SomeReply
  <2>2. /\ lines \in Seq(Seq(Text)) /\ lines # <<>>
        /\ LET w == lines[Len(lines)] IN w # <<>> => w[Len(w)] \notin Glued
    BY BuilderSays
  <2>3. CASE Reply(lines, <<>>, FALSE)
    <3>1. <<>> \in Seq(Seq(Text)) /\ FALSE \in BOOLEAN
      OBVIOUS
    <3> QED
      BY <2>2, <2>3, <3>1, ReplyIInv
  <2>4. ASSUME NEW line \in ExtraLines, NEW after \in BOOLEAN, Reply(lines, <<line>>, after)
        PROVE  IInv'
    <3> DEFINE extra == <<line>>
    <3>1. extra \in Seq(Seq(Text)) /\ extra # <<>>
      BY BuilderSays
    <3>2. LET w == extra[Len(extra)] IN w # <<>> => w[Len(w)] \notin Glued
      <4>1. extra[Len(extra)] = line
        OBVIOUS
      <4> QED
        BY <4>1, BuilderSays
    <3>3. Reply(lines, extra, after)
      BY <2>4
    <3> HIDE DEF extra
    <3> QED
      BY <2>2, <3>1, <3>2, <3>3, ReplyIInv
  <2> QED
    BY <2>1, <2>3, <2>4
<1>5. CASE Leave
  BY <1>5, LeaveIInv
<1>6. CASE UNCHANGED vars
  <2>1. /\ UNCHANGED <<to, from, peer_open, heard, working, sent, greeted, chatty>>
        /\ UNCHANGED <<write, read, corked, is_connected, call, pending, packets, asked>>
    BY <1>6 DEF vars, client_vars, env_vars
  <2>2. TypeInv'
    BY <2>1 DEF IInv, TypeInv, ClientTypeOK, EnvironmentTypeOK
  <2>3. call' = call /\ CallInv
    BY <2>1 DEF IInv
  <2>4. Idle => Idle'
    BY <2>1 DEF Idle, BuilderAtRest, Queued, Queue, Tells, GreetedBy, PlainAnswer, Verb,
                Greeted, Succeeded
  <2>5. Writing => Writing'
    BY <2>1 DEF Writing, Asking
  <2>6. ASSUME NEW block \in Seq(Symbol), Waiting(block) PROVE Waiting(block)'
    BY <2>1, <2>6 DEF Waiting, Asking
  <2>7. Answered => Answered'
    BY <2>1 DEF Answered, Replied, BuilderAtRest
  <2>8. Parsing => Parsing'
    <3>1. Replied => Replied'
      BY <2>1 DEF Replied, BuilderAtRest
    <3>2. ASSUME NEW i, Tells(packets[i], i) PROVE Tells(packets[i], i)'
      BY <2>1, <3>2 DEF Tells, GreetedBy, PlainAnswer, Verb
    <3> QED
      BY <2>1, <3>1, <3>2 DEF Parsing
  <2>9. CallInv'
    BY <2>3, <2>4, <2>5, <2>6, <2>7, <2>8 DEF CallInv
  <2> QED
    BY <2>2, <2>9 DEF IInv
<1> QED
  BY <1>1, <1>2, <1>3, <1>4, <1>5, <1>6 DEF Next, BuilderStep

\* Where a batch and its responses are, always.
THEOREM BatchInvariantHolds ==
  ASSUME Arguments \subseteq Seq(Word)
  PROVE  Spec => []IInv
<1>1. Init => IInv
  BY InitIInv
<1>2. IInv /\ [Next]_vars => IInv'
  BY NextIInv
<1> QED
  BY <1>1, <1>2, PTL DEF Spec

-----------------------------------------------------------------------------
(* What the invariant says about a batch.                                  *)

\* Lines that are laid out as requests for codes are read as that.
LEMMA RequestsAreRead ==
  ASSUME NEW d \in Seq(Symbol), NEW codes \in Seq(RequestCode),
         NEW lines \in Seq(Seq(Word)), Requests(lines, codes), LaidOut(d, lines)
  PROVE  [i \in DOMAIN LinesOf(d) |-> CodeOf(Verb(LinesOf(d)[i]))] = codes
<1>1. LinesOf(d) = lines
  <2>1. lines \in Seq(Seq(Text))
    BY DEF Text
  <2> QED
    BY <2>1, LinesOfLayout
<1>2. /\ DOMAIN lines = 1 .. Len(codes)
      /\ \A i \in 1 .. Len(codes) : CodeOf(Verb(lines[i])) = codes[i]
  <2>1. /\ Len(lines) = Len(codes) /\ lines \in Seq(Seq(Word) \ {<<>>})
        /\ \A i \in 1 .. Len(lines) : CodeOf(lines[i][1]) = codes[i]
    BY DEF Requests
  <2>2. \A i \in 1 .. Len(lines) : lines[i] # <<>>
    BY <2>1
  <2>3. DOMAIN lines = 1 .. Len(lines)
    OBVIOUS
  <2> QED
    BY <2>1, <2>2, <2>3, Zenon DEF Verb
<1>3. codes = [i \in 1 .. Len(codes) |-> codes[i]]
  OBVIOUS
<1>4. [i \in 1 .. Len(codes) |-> CodeOf(Verb(lines[i]))] = [i \in 1 .. Len(codes) |-> codes[i]]
  BY <1>2
<1> QED
  BY <1>1, <1>2, <1>3, <1>4

\* "Corked" requests wait in the buffer, the codes of their responses in the
\* queue: between calls the two say the same (client.cc:148-193).
THEOREM QueueAlwaysMatchesBuffer ==
  ASSUME Arguments \subseteq Seq(Word)
  PROVE  Spec => []QueueMatchesBuffer
<1>1. IInv => QueueMatchesBuffer
  <2> SUFFICES ASSUME IInv, call = "idle"
               PROVE  LET lines == IF write.data = <<>> THEN <<>>
                                   ELSE LinesOf(Append(write.data, NEWLINE))
                          codes == IF IsCorked THEN Tail(corked) ELSE <<>>
                      IN  [i \in DOMAIN lines |-> CodeOf(Verb(lines[i]))] = codes
    BY DEF QueueMatchesBuffer
  <2>1. Idle /\ write.data \in Seq(Symbol)
    BY DEF IInv, CallInv, TypeInv, ClientTypeOK, Buffer
  <2>2. Queue = IF IsCorked THEN Tail(corked) ELSE <<>>
    BY DEF Queue, IsCorked
  <2>3. CASE Queue = <<>>
    <3>1. write.data = <<>>
      BY <2>1, <2>3 DEF Idle, Queued
    <3>2. [i \in DOMAIN <<>> |-> CodeOf(Verb(<<>>[i]))] = <<>>
      OBVIOUS
    <3> QED
      BY <2>2, <2>3, <3>1, <3>2
  <2>4. CASE Queue # <<>>
    <3> DEFINE d == Append(write.data, NEWLINE)
    <3>1. PICK lines \in Seq(Seq(Word)) : Requests(lines, Queue) /\ LaidOut(d, lines)
      BY <2>1, <2>4 DEF Idle, Queued
    <3>2. write.data # <<>> /\ Queue \in Seq(RequestCode)
      BY <2>1, <2>4 DEF Idle, Queued
    <3>3. d \in Seq(Symbol)
      BY <2>1 DEF Symbol
    <3> HIDE DEF d
    <3>4. [i \in DOMAIN LinesOf(d) |-> CodeOf(Verb(LinesOf(d)[i]))] = Queue
      BY <3>1, <3>2, <3>3, RequestsAreRead
    <3> QED
      BY <2>2, <3>2, <3>4 DEF d
  <2> QED
    BY <2>3, <2>4
<1> QED
  BY <1>1, BatchInvariantHolds, PTL

\* What the builder has read, when it has a block, is the batch of requests
\* that the compiler made.
THEOREM RequestsDoArrive ==
  ASSUME Arguments \subseteq Seq(Word)
  PROVE  Spec => []RequestsArrive
<1>1. IInv => RequestsArrive
  <2> SUFFICES ASSUME IInv, working, peer_open
               PROVE  LET lines == LinesOf(heard.data)
                      IN  [i \in DOMAIN lines |-> CodeOf(Verb(lines[i]))] = asked
    BY DEF RequestsArrive
  <2>1. ~BuilderAtRest
    BY DEF BuilderAtRest
  <2>2. ~Idle /\ ~Answered /\ ~Parsing /\ ~Writing
    BY <2>1 DEF Idle, Answered, Parsing, Replied, Writing
  <2>3. call \in Call
    BY DEF IInv, TypeInv, ClientTypeOK
  <2>4. PICK d \in Seq(Symbol) : Waiting(d)
    BY <2>2, <2>3 DEF IInv, CallInv, Call
  <2>5. heard.data = d /\ Asking(d)
    BY <2>4 DEF Waiting
  <2>6. PICK lines \in Seq(Seq(Word)) : Requests(lines, asked) /\ LaidOut(d, lines)
    BY <2>5 DEF Asking
  <2>7. asked \in Seq(RequestCode)
    BY DEF IInv, TypeInv, ClientTypeOK
  <2>8. [i \in DOMAIN LinesOf(d) |-> CodeOf(Verb(LinesOf(d)[i]))] = asked
    BY <2>6, <2>7, RequestsAreRead
  <2> QED
    BY <2>5, <2>8
<1> QED
  BY <1>1, BatchInvariantHolds, PTL

\* A call that has communicated left what the invariant says.
LEMMA SucceededTells ==
  ASSUME IInv, Succeeded
  PROVE  /\ asked # <<>> /\ Len(asked) \in Nat /\ DOMAIN asked = 1 .. Len(asked)
         /\ Len(sent) \in Nat /\ DOMAIN sent = 1 .. Len(sent)
         /\ Len(packets) = Len(asked)
         /\ \A i \in 1 .. Len(asked) : Tells(packets[i], i)
         /\ is_connected <=> greeted \/ Greeted
<1>1. call = "idle" /\ sent # <<>> /\ packets # <<CommunicationError>>
  BY DEF Succeeded
<1>2. Idle
  BY <1>1 DEF IInv, CallInv
<1>3. asked \in Seq(RequestCode) /\ sent \in Seq(Seq(Text))
  BY DEF IInv, TypeInv, ClientTypeOK, EnvironmentTypeOK
<1> QED
  BY <1>1, <1>2, <1>3 DEF Idle

\* "The in-order responses to the queued requests" (cody.hh:554-555).
THEOREM PacketsDoCorrespond ==
  ASSUME Arguments \subseteq Seq(Word)
  PROVE  Spec => []PacketsCorrespond
<1>1. IInv => PacketsCorrespond
  <2> SUFFICES ASSUME IInv, Succeeded
               PROVE  /\ Len(packets) = Len(asked)
                      /\ \A i \in DOMAIN asked :
                           packets[i].code # "PC_ERROR" =>
                             /\ i \in DOMAIN sent
                             /\ Verb(sent[i]) \in ResponseVerbs(asked[i])
                             /\ packets[i].request = asked[i]
                             /\ packets[i].code \in {"PC_PATHNAME", "PC_BOOL"} =>
                                  packets[i].value = sent[i][2]
                             /\ packets[i].code = "PC_CONNECT" =>
                                  packets[i].value = FlagsOf(sent[i])
    BY DEF PacketsCorrespond
  <2>1. /\ DOMAIN asked = 1 .. Len(asked) /\ Len(packets) = Len(asked)
        /\ Len(asked) \in Nat /\ Len(sent) \in Nat /\ DOMAIN sent = 1 .. Len(sent)
        /\ \A i \in 1 .. Len(asked) : Tells(packets[i], i)
    BY SucceededTells
  <2>2. \A i \in 1 .. Len(asked) : i <= Len(sent) => i \in DOMAIN sent
    BY <2>1
  <2>3. ASSUME NEW i \in 1 .. Len(asked), packets[i].code # "PC_ERROR"
        PROVE  /\ i \in DOMAIN sent
               /\ Verb(sent[i]) \in ResponseVerbs(asked[i])
               /\ packets[i].request = asked[i]
               /\ packets[i].code \in {"PC_PATHNAME", "PC_BOOL"} =>
                    packets[i].value = sent[i][2]
               /\ packets[i].code = "PC_CONNECT" => packets[i].value = FlagsOf(sent[i])
    <3>1. Tells(packets[i], i)
      BY <2>1
    <3> QED
      BY <3>1, <2>2, <2>3 DEF Tells
  <2> QED
    BY <2>1, <2>3
<1> QED
  BY <1>1, BatchInvariantHolds, PTL

\* An error in one response does not cost another.
THEOREM GoodResponsesDoSurvive ==
  ASSUME Arguments \subseteq Seq(Word)
  PROVE  Spec => []GoodResponsesSurvive
<1>1. IInv => GoodResponsesSurvive
  <2> SUFFICES ASSUME IInv, Succeeded, Len(sent) = Len(asked), NEW i \in DOMAIN asked,
                      sent[i] \in Seq(Word),
                      Verb(sent[i]) \in {"OK", "PATHNAME"} \cap ResponseVerbs(asked[i]),
                      Len(sent[i]) = (IF sent[i][1] = "OK" THEN 1 ELSE 2)
               PROVE  packets[i].code = (IF sent[i][1] = "OK" THEN "PC_OK" ELSE "PC_PATHNAME")
    BY DEF GoodResponsesSurvive
  <2>1. Tells(packets[i], i)
    BY SucceededTells
  <2>2. PlainAnswer(i)
    BY DEF PlainAnswer
  <2> QED
    BY <2>1, <2>2 DEF Tells
<1> QED
  BY <1>1, BatchInvariantHolds, PTL

\* Too few responses, or too many, are told as an error.
THEOREM MiscountIsNoticed ==
  ASSUME Arguments \subseteq Seq(Word)
  PROVE  Spec => []MiscountNoticed
<1>1. IInv => MiscountNoticed
  <2> SUFFICES ASSUME IInv, Succeeded, Len(sent) # Len(asked)
               PROVE  Last(packets).code = "PC_ERROR"
    BY DEF MiscountNoticed
  <2>1. /\ asked # <<>> /\ Len(asked) \in Nat /\ Len(packets) = Len(asked)
        /\ \A i \in 1 .. Len(asked) : Tells(packets[i], i)
    BY SucceededTells
  <2>2. Len(asked) \in 1 .. Len(asked)
    <3>1. asked \in Seq(RequestCode)
      BY DEF IInv, TypeInv, ClientTypeOK
    <3> QED
      BY <2>1, <3>1
  <2>3. Tells(packets[Len(asked)], Len(asked))
    BY <2>1, <2>2
  <2>4. packets[Len(packets)].code = "PC_ERROR"
    BY <2>1, <2>3 DEF Tells
  <2> QED
    BY <2>4 DEF Last
<1> QED
  BY <1>1, BatchInvariantHolds, PTL

\* Faults in a block of responses are told, where they are and nowhere else.
THEOREM FaultsStayContained ==
  ASSUME Arguments \subseteq Seq(Word)
  PROVE  Spec => []FaultsAreContained
BY GoodResponsesDoSurvive, MiscountIsNoticed, PTL DEF FaultsAreContained

\* The client is connected when, and only when, the builder shook hands.
THEOREM ConnectedOnlyByHandshake ==
  ASSUME Arguments \subseteq Seq(Word)
  PROVE  Spec => []ConnectedByHandshake
<1>1. IInv => ConnectedByHandshake
  BY SucceededTells, Zenon DEF ConnectedByHandshake
<1> QED
  BY <1>1, BatchInvariantHolds, PTL

\* A client with nothing to read waits for a builder that has its requests, or
\* the rest of them, and no reply.
THEOREM ClientNeverWaitsInVain ==
  ASSUME Arguments \subseteq Seq(Word)
  PROVE  Spec => []NeverWaitsInVain
<1>1. IInv => NeverWaitsInVain
  <2> SUFFICES ASSUME IInv, call = "reading", peer_open, from = <<>>
               PROVE  ~chatty /\ (working \/ to # <<>>)
    BY DEF NeverWaitsInVain
  <2>1. /\ (\E block \in Seq(Symbol) : Waiting(block)) \/ Answered
        /\ read.data \in Seq(Symbol) /\ heard.data \in Seq(Symbol)
    BY DEF IInv, CallInv, TypeInv, ClientTypeOK, EnvironmentTypeOK, Buffer
  <2>2. Len(<<>>) = 0
    OBVIOUS
  <2>3. ~Answered
    <3> SUFFICES ASSUME Answered PROVE FALSE
      OBVIOUS
    <3>1. /\ Len(read.data) + Len(from) >= Len(Block(sent))
          /\ Len(read.data) < Len(Block(sent))
      BY DEF Answered, Starts
    <3>2. Len(Block(sent)) \in Nat /\ Len(read.data) \in Nat
      <4>1. Replied /\ TypeInv
        BY DEF Answered, IInv
      <4>2. Block(sent) \in Seq(Symbol)
        BY <4>1, SentBlock
      <4> QED
        BY <2>1, <4>2
    <3> QED
      BY <2>2, <3>1, <3>2
  <2>4. PICK block \in Seq(Symbol) : Waiting(block)
    BY <2>1, <2>3
  <2>5. ~chatty
    BY <2>4 DEF Waiting, Asking
  <2>6. ~working => to # <<>>
    <3>1. ~working => Len(block) = Len(heard.data) + Len(to) /\ Len(heard.data) < Len(block)
      BY <2>4 DEF Waiting, Starts
    <3> QED
      BY <2>1, <2>2, <3>1
  <2> QED
    BY <2>5, <2>6
<1> QED
  BY <1>1, BatchInvariantHolds, PTL

\* The client's buffers hold symbols, its queue codes, and its packets are
\* those of enum PacketCode (cody.hh:227-313), whatever the builder sends.
THEOREM ClientStaysTyped ==
  ASSUME Arguments \subseteq Seq(Word)
  PROVE  Spec => []ClientTypeOK
<1>1. IInv => ClientTypeOK
  BY DEF IInv, TypeInv
<1> QED
  BY <1>1, BatchInvariantHolds, PTL
=============================================================================
