------------------------- MODULE AnyCompilerProofs -------------------------
(***************************************************************************)
(* Proofs about a server and any compiler, for every alphabet, every set   *)
(* of lines, every length of a block and every capacity of the channel.    *)
(***************************************************************************)
EXTENDS AnyCompiler, ProtocolProofs

\* The resolvers that keep to the interface.
Contract == {"default", "derived"}

-----------------------------------------------------------------------------
(* The inductive invariants.                                               *)

EnvironmentTypeOK ==
  /\ asked \in Seq(Seq(Text))
  /\ got \in Buffer
  /\ turn \in Turn
  /\ greeted \in BOOLEAN
  /\ impatient \in BOOLEAN

\* All that a compiler sent before it went away, which has no end.
Cut == ~peer_open /\ from = <<>> /\ Unended(read.data)

\* Where the builder is in its loop tells what its buffers hold.
LoopInv ==
  /\ direction = "READING" => write = EmptyBuffer /\ read.bol = 0 /\ Unended(read.data)
  /\ direction # "READING" => Ended(read.data) \/ Cut
  /\ direction = "PROCESSING" =>
       /\ read.bol <= Len(read.data)
       /\ Composed(write.data)
       /\ write.data = <<>> => read.bol = 0
       /\ read.bol = 0 => write = EmptyBuffer
       /\ read.bol > 0 => Lexable(read)
  /\ direction = "WRITING" =>
       /\ IsAtEnd(read)
       /\ write # EmptyBuffer => Framed(write.data) /\ write.bol < Len(write.data)

SafetyInv == ServerTypeOK /\ EnvironmentTypeOK /\ LoopInv

\* One line of response for every line that Lex has passed.
CountInv ==
  /\ resolver \in Contract
  /\ direction = "PROCESSING" =>
       Cardinality(NewlinesUpTo(read.data, read.bol)) =
         IF write.data = <<>> THEN 0
         ELSE Cardinality(NewlinesUpTo(write.data, Len(write.data))) + 1

\* The connection, after the first k responses of a block.
ConnectedAfter(responses, k) == greeted \/ \E i \in 1 .. k : IsHello(responses[i])

\* What answers a line, and what becomes of the connection.
Answer(line, response, before, after) ==
  \/ IsError(response) /\ (after <=> before)
  \/ /\ line # <<>>
     /\ response # <<>>
     /\ response[1] \in ResponseVerbs(CodeOf(line[1]))
     /\ ~IsError(response)
     /\ after
     /\ ~before <=> IsHello(response)

-----------------------------------------------------------------------------
(* What is told is made of words.                                          *)

\* What a resolver says to a request is one of its responses or an error.
LEMMA OutcomeLines ==
  ASSUME NEW code \in RequestCode \ {RC_CONNECT}, NEW words \in Seq(Word),
         WellFormed(code, words), NEW o \in Outcomes(code, words)
  PROVE  \/ /\ o.result = "0"
            /\ o.said \in Seq(Word) \ {<<>>}
            /\ o.said[1] \in ResponseVerbs(code) \cup {"ERROR"}
            /\ o.said[1] # "HELLO"
         \/ o.result \in {"errno", "-1"} /\ o.said = <<>>
<1> DEFINE Good(line) == /\ line \in Seq(Word) \ {<<>>}
                         /\ line[1] \in ResponseVerbs(code) \cup {"ERROR"}
                         /\ line[1] # "HELLO"
           Good2(x) == \/ x.result = "0" /\ Good(x.said)
                       \/ x.result \in {"errno", "-1"} /\ x.said = <<>>
<1>1. \A line : Good(line) => Good2(Said(line))
  BY DEF Said
<1>2. Good2(Returned("-1")) /\ Good2(Returned("errno"))
  BY DEF Returned
<1>3. Good(ErrorResponse("unimplemented")) /\ Good(ErrorResponse("failed"))
  BY Errors, ResponseLines
<1>4. code \in {RC_MODULE_EXPORT, RC_MODULE_IMPORT, RC_INCLUDE_TRANSLATE} => CMIName[words[2]] \in Word
  <2> SUFFICES ASSUME code \in {RC_MODULE_EXPORT, RC_MODULE_IMPORT, RC_INCLUDE_TRANSLATE}
               PROVE  CMIName[words[2]] \in Word
    OBVIOUS
  <2>1. code \in ModuleRequestCode
    BY DEF ModuleRequestCode
  <2>2. code \notin {RC_CONNECT, RC_MODULE_REPO, RC_INVOKE}
    BY DEF RC_CONNECT, RC_MODULE_REPO, RC_MODULE_EXPORT, RC_MODULE_IMPORT,
           RC_INVOKE, RC_INCLUDE_TRANSLATE
  <2>3. Len(words) \in {2, 3}
    BY <2>1, <2>2 DEF WellFormed
  <2>4. words[2] \in Word
    BY <2>3
  <2>5. CMIName \in [Word -> Word]
    BY WordAssumption
  <2> QED
    BY <2>4, <2>5
<1>5. code \in {RC_MODULE_EXPORT, RC_MODULE_IMPORT, RC_INCLUDE_TRANSLATE}
        => Good(PathnameResponse(CMIName[words[2]]))
  BY <1>4, ResponseLines, Verbs
<1>6. code = RC_MODULE_REPO => Good(PathnameResponse(REPO_DIR))
  <2>1. REPO_DIR \in Word
    BY Zenon, WordAssumption
  <2> QED
    BY <2>1, ResponseLines, Verbs
<1>7. code \in {RC_MODULE_COMPILED, RC_INVOKE} => Good(OKResponse)
  BY ResponseLines, Verbs
<1>8. code = RC_INCLUDE_TRANSLATE => \A truth \in BOOLEAN : Good(BoolResponse(truth))
  BY ResponseLines, Verbs
<1> HIDE DEF Good, Good2
<1>9. \A x \in DefaultOutcomes(code, words) : Good2(x)
  <2>1. code \in {RC_MODULE_REPO, RC_MODULE_EXPORT, RC_MODULE_IMPORT, RC_MODULE_COMPILED,
                  RC_INCLUDE_TRANSLATE, RC_INVOKE}
    BY Codes
  <2> QED
    BY <2>1, <1>1, <1>3, <1>5, <1>6, <1>7, <1>8
       DEF DefaultOutcomes, RC_MODULE_REPO, RC_MODULE_EXPORT, RC_MODULE_IMPORT,
           RC_MODULE_COMPILED, RC_INCLUDE_TRANSLATE, RC_INVOKE
<1>10. Good2(o)
  BY <1>1, <1>2, <1>3, <1>7, <1>8, <1>9 DEF Outcomes, DerivedOutcomes
<1> QED
  BY <1>10 DEF Good, Good2

\* What a resolver says to a handshake, and whom it hands the connection to.
LEMMA ConnectLines ==
  ASSUME NEW version, resolver \in Resolver, NEW o \in ConnectOutcomes(version)
  PROVE  /\ o.accepts \in BOOLEAN
         /\ o.result \in Resolver \cup {"nullptr"}
         /\ \/ /\ o.accepts
               /\ o.said \in Seq(Word) \ {<<>>} /\ o.said[1] = "HELLO"
               /\ o.result # "nullptr"
            \/ /\ ~o.accepts
               /\ o.said \in Seq(Word) \ {<<>>} /\ o.said[1] = "ERROR"
            \/ /\ ~o.accepts
               /\ o.said = <<>> /\ o.result = "nullptr"
         /\ resolver \in Contract =>
              /\ o.result \in Contract \cup {"nullptr"}
              /\ o.said # <<>> => o.result # "nullptr"
<1> DEFINE Good(x) ==
             /\ x.accepts \in BOOLEAN
             /\ \/ /\ x.accepts
                   /\ x.said \in Seq(Word) \ {<<>>} /\ x.said[1] = "HELLO"
                \/ /\ ~x.accepts
                   /\ x.said \in Seq(Word) \ {<<>>} /\ x.said[1] = "ERROR"
<1>1. \A r : Good(Accepts(r)) /\ Accepts(r).result = r
  BY ResponseLines DEF Accepts
<1>2. \A error \in ErrorText : \A r : Good(Answers(error, r)) /\ ~Answers(error, r).accepts /\ Answers(error, r).result = r
  BY ResponseLines DEF Answers
<1> HIDE DEF Good
<1>3. \A r : Good(DefaultConnect(version, r)) /\ DefaultConnect(version, r).result = r
  BY <1>1, <1>2, Errors DEF DefaultConnect
<1>4. ReturnsNullptr.said = <<>> /\ ReturnsNullptr.accepts = FALSE /\ ReturnsNullptr.result = "nullptr"
  BY DEF ReturnsNullptr
<1>5. \/ resolver = "default" /\ o = DefaultConnect(version, "default")
      \/ resolver = "derived" /\ o = DefaultConnect(version, "derived")
      \/ resolver = "derived" /\ o = DefaultConnect(version, "default")
      \/ resolver = "derived" /\ o = Answers("refused", "derived")
      \/ resolver = "derived" /\ o = ReturnsNullptr
      \/ resolver = "initial" /\ o = DefaultConnect(version, "handler")
      \/ resolver = "handler" /\ o = Answers("unexpected connect call", "nullptr")
  BY Zenon DEF ConnectOutcomes, Resolver
<1>6. Good(Answers("refused", "derived")) /\ Answers("refused", "derived").result = "derived"
  BY <1>2, Errors, Zenon
<1>7. /\ Good(Answers("unexpected connect call", "nullptr"))
      /\ ~Answers("unexpected connect call", "nullptr").accepts
      /\ Answers("unexpected connect call", "nullptr").result = "nullptr"
  BY <1>2, Errors, Zenon
<1> DEFINE A == Answers("unexpected connect call", "nullptr")
<1> HIDE DEF A
<1>8. CASE resolver = "handler" /\ o = A
  BY <1>7, <1>8 DEF Good, Contract, Resolver, A
<1> DEFINE Lines ==
             /\ o.accepts \in BOOLEAN
             /\ o.result \in Resolver \cup {"nullptr"}
             /\ \/ /\ o.accepts
                   /\ o.said \in Seq(Word) \ {<<>>} /\ o.said[1] = "HELLO"
                   /\ o.result # "nullptr"
                \/ /\ ~o.accepts
                   /\ o.said \in Seq(Word) \ {<<>>} /\ o.said[1] = "ERROR"
                \/ /\ ~o.accepts
                   /\ o.said = <<>> /\ o.result = "nullptr"
           Contracted == /\ o.result \in Contract \cup {"nullptr"}
                         /\ o.said # <<>> => o.result # "nullptr"
<1>9. ASSUME NEW r \in Resolver, Good(o), o.result = r PROVE Lines
  <2>1. r # "nullptr"
    BY DEF Resolver
  <2> QED
    BY <1>9, <2>1 DEF Good
<1>10. ASSUME NEW r \in Contract, Good(o), o.result = r PROVE Contracted
  BY <1>10 DEF Contract
<1>11. /\ {"default", "derived", "handler", "initial"} \subseteq Resolver
       /\ {"default", "derived"} \subseteq Contract
       /\ "initial" \notin Contract
  BY DEF Resolver, Contract
<1>12. o = ReturnsNullptr => Lines /\ Contracted
  BY <1>4
<1> HIDE DEF Lines, Contracted
<1>13. resolver = "default" /\ o = DefaultConnect(version, "default") => Lines /\ Contracted
  BY <1>3, <1>9, <1>10, <1>11
<1>14. resolver = "derived" => Lines /\ Contracted
  BY <1>3, <1>5, <1>6, <1>9, <1>10, <1>11, <1>12
<1>15. resolver = "initial" /\ o = DefaultConnect(version, "handler") => Lines
  BY <1>3, <1>9, <1>11
<1>16. Lines /\ (resolver \in Contract => Contracted)
  BY <1>5, <1>8, <1>11, <1>13, <1>14, <1>15 DEF Lines, Contracted, A
<1> QED
  BY <1>16 DEF Lines, Contracted

-----------------------------------------------------------------------------
(* ProcessRequests, line by line.                                          *)

\* What a line is taken for.
LEMMA Selected ==
  ASSUME SafetyInv, NEW code, Selects(code)
  PROVE  /\ direction = "PROCESSING" /\ open
         /\ read.bol < Len(read.data) /\ read.data[Len(read.data)] = NEWLINE
         /\ code \in RequestCode =>
              /\ Lex(read).text \in Seq(Word) \ {<<>>}
              /\ CodeOf(Lex(read).text[1]) = code
<1>1. direction = "PROCESSING" /\ open /\ ~IsAtEnd(read)
  BY DEF Selects
<1>2. read \in Buffer /\ read.bol <= Len(read.data) /\ read.data[Len(read.data)] = NEWLINE
  BY <1>1 DEF SafetyInv, ServerTypeOK, LoopInv, Selects, Lexable, Last
<1>3. read.bol < Len(read.data)
  BY <1>1, <1>2 DEF IsAtEnd, Buffer
<1>4. Lex(read).text \in Seq(Symbol)
  BY <1>2, <1>3, LexOfBuffer
<1>5. ASSUME code \in RequestCode
      PROVE  /\ Lex(read).text \in Seq(Word) \ {<<>>}
             /\ CodeOf(Lex(read).text[1]) = code
  <2> DEFINE text == Lex(read).text
  <2>1. code # RC_HWM
    BY <1>5 DEF RequestCode, RC_HWM
  <2>2. Lex(read).err = "0" /\ code = CodeOf(text[1])
    BY <2>1 DEF Selects
  <2>3. text # <<>> /\ \A i \in 1 .. Len(text) : text[i] \in Word
    <3>1. Lex(read).err = IF \E i \in 1 .. Len(text) : text[i] \notin Word THEN "EINVAL"
                          ELSE IF text = <<>> THEN "ENOENT" ELSE "0"
      BY DEF Lex
    <3> HIDE DEF text
    <3> QED
      BY <2>2, <3>1
  <2> HIDE DEF text
  <2>4. text \in Seq(Symbol)
    BY <1>4 DEF text
  <2>5. text \in Seq(Word)
    BY <2>3, <2>4
  <2> QED
    BY <2>2, <2>3, <2>5 DEF text
<1> QED
  BY <1>1, <1>2, <1>3, <1>5

\* Every line is answered by the resolver or by the server, and by both only
\* when the resolver does not keep to the interface.
LEMMA LineAnswered ==
  ASSUME SafetyInv, ProcessLine
  PROVE  /\ direction = "PROCESSING"
         /\ read.bol < Len(read.data) /\ read.data[Len(read.data)] = NEWLINE
         /\ UNCHANGED <<from, to, direction, open, peer_open>>
         /\ read' = Lex(read).buffer
         /\ resolver' \in Resolver /\ is_connected' \in BOOLEAN
         /\ \E said, own \in Seq(Word) :
              /\ write' = Tell(Tell(write, said), own)
              /\ said # <<>> \/ own # <<>>
              /\ resolver \in Contract =>
                   /\ resolver' \in Contract
                   /\ said = <<>> \/ own = <<>>
                   /\ Answer(Lex(read).text, IF said = <<>> THEN own ELSE said,
                             is_connected, is_connected')
<1> DEFINE text == Lex(read).text
           Spoken(said, own) ==
             /\ write' = Tell(Tell(write, said), own)
             /\ said # <<>> \/ own # <<>>
             /\ resolver \in Contract =>
                  /\ resolver' \in Contract
                  /\ said = <<>> \/ own = <<>>
                  /\ Answer(text, IF said = <<>> THEN own ELSE said, is_connected, is_connected')
           Stays == UNCHANGED <<from, to, direction, open, peer_open>> /\ read' = Lex(read).buffer
           Goal == /\ direction = "PROCESSING"
                   /\ read.bol < Len(read.data) /\ read.data[Len(read.data)] = NEWLINE
                   /\ Stays
                   /\ resolver' \in Resolver /\ is_connected' \in BOOLEAN
                   /\ \E said, own \in Seq(Word) : Spoken(said, own)
<1> SUFFICES Goal
  OBVIOUS
<1>1. resolver \in Resolver /\ is_connected \in BOOLEAN
  BY DEF SafetyInv, ServerTypeOK
<1>2. \A said, own : Respond(said, own) => Stays /\ write' = Tell(Tell(write, said), own)
  BY DEF Respond
<1>3. <<>> \in Seq(Word)
  OBVIOUS
<1>4. \A error \in ErrorText :
        /\ ErrorResponse(error) \in Seq(Word) \ {<<>>}
        /\ IsError(ErrorResponse(error))
  BY ResponseLines, Zenon DEF IsError
\* The server has an error to tell, the resolver was not asked.
<1>5. ASSUME NEW code, NEW error \in ErrorText, Selects(code),
             Respond(<<>>, ErrorResponse(error)), UNCHANGED <<resolver, is_connected>>
      PROVE  Goal
  <2>1. Spoken(<<>>, ErrorResponse(error))
    BY <1>2, <1>4, <1>5 DEF Answer
  <2> QED
    BY <2>1, <1>1, <1>2, <1>3, <1>4, <1>5, Selected
<1>6. CASE ProcessUnrecognized
  <2>1. /\ Selects(RC_HWM) /\ Respond(<<>>, ErrorResponse("unrecognized"))
        /\ UNCHANGED <<resolver, is_connected>>
    BY <1>6, Zenon DEF ProcessUnrecognized
  <2> QED
    BY <2>1, <1>5, Errors, Zenon
<1>7. CASE RejectConnect
  <2>1. PICK error \in ErrorText : /\ Selects(RC_CONNECT) /\ Respond(<<>>, ErrorResponse(error))
                                   /\ UNCHANGED <<resolver, is_connected>>
    BY <1>7, Errors, Zenon DEF RejectConnect
  <2> QED
    BY <2>1, <1>5, Zenon
<1>8. CASE \E code \in RequestCode \ {RC_CONNECT} : RejectRequest(code)
  <2>1. PICK code \in RequestCode \ {RC_CONNECT} : RejectRequest(code)
    BY <1>8
  <2>2. PICK error \in ErrorText : /\ Selects(code) /\ Respond(<<>>, ErrorResponse(error))
                                   /\ UNCHANGED <<resolver, is_connected>>
    BY <2>1, Errors, Zenon DEF RejectRequest
  <2> QED
    BY <2>2, <1>5, Zenon
<1>9. CASE \E code \in RequestCode \ {RC_CONNECT} : ProcessRequest(code)
  <2>1. PICK code \in RequestCode \ {RC_CONNECT} : ProcessRequest(code)
    BY <1>9
  <2>2. /\ Selects(code) /\ is_connected /\ WellFormed(code, text)
        /\ UNCHANGED <<resolver, is_connected>>
    BY <2>1, Zenon DEF ProcessRequest
  <2>3. PICK o \in Outcomes(code, text) :
          Respond(o.said, CASE o.result = "0"     -> <<>>
                            [] o.result = "errno" -> ErrorResponse("error processing")
                            [] OTHER              -> ErrorResponse("malformed"))
    BY <2>1, Zenon DEF ProcessRequest
  <2> HIDE DEF text
  <2>4. text \in Seq(Word) \ {<<>>} /\ CodeOf(text[1]) = code
    BY <2>2, Selected DEF text
  <2>5. \/ /\ o.result = "0"
           /\ o.said \in Seq(Word) \ {<<>>}
           /\ o.said[1] \in ResponseVerbs(code) \cup {"ERROR"}
           /\ o.said[1] # "HELLO"
        \/ o.result \in {"errno", "-1"} /\ o.said = <<>>
    BY <2>2, <2>4, OutcomeLines
  <2>6. CASE o.result = "0"
    <3>1. Respond(o.said, <<>>)
      BY <2>3, <2>6, Zenon
    <3>2. o.said \in Seq(Word) \ {<<>>}
      BY <2>5, <2>6
    <3>3. Answer(text, o.said, is_connected, is_connected')
      BY <2>2, <2>4, <2>5, <2>6 DEF Answer, IsError, IsHello
    <3>4. Spoken(o.said, <<>>)
      BY <2>2, <3>1, <3>2, <3>3, <1>2 DEF text
    <3>5. Stays
      BY <3>1, <1>2
    <3> HIDE DEF Spoken, Stays
    <3>6. \E said, own \in Seq(Word) : Spoken(said, own)
      BY <3>2, <3>4, <1>3
    <3>7. resolver' \in Resolver /\ is_connected' \in BOOLEAN
      BY <2>2, <1>1
    <3> QED
      BY <2>2, <3>5, <3>6, <3>7, Selected
  <2>7. CASE o.result # "0"
    <3>1. o.said = <<>>
      BY <2>5, <2>7
    <3>2. PICK error \in ErrorText : Respond(<<>>, ErrorResponse(error))
      BY <2>3, <2>7, <3>1, Errors, Zenon
    <3> HIDE DEF Goal
    <3> QED
      BY <2>2, <3>2, <1>5
  <2> QED
    BY <2>6, <2>7
<1>10. CASE ProcessConnect
  <2> DEFINE version == ParseUnsigned(text[2])
  <2>1. Selects(RC_CONNECT) /\ ~is_connected
    BY <1>10, Zenon DEF ProcessConnect
  <2>2. PICK o \in ConnectOutcomes(version) :
          /\ is_connected' = o.accepts
          /\ resolver' = IF o.result = "nullptr" THEN resolver ELSE o.result
          /\ Respond(o.said, IF o.result = "nullptr" THEN ErrorResponse("malformed") ELSE <<>>)
    BY <1>10, Zenon DEF ProcessConnect
  <2> HIDE DEF text, version
  <2> DEFINE malformed == ErrorResponse("malformed")
             own == IF o.result = "nullptr" THEN malformed ELSE <<>>
  <2>3. malformed \in Seq(Word) \ {<<>>} /\ IsError(malformed)
    BY <1>4, Errors, Zenon
  <2>4. Respond(o.said, own)
    BY <2>2, Zenon
  <2> HIDE DEF malformed
  <2>5. text \in Seq(Word) \ {<<>>} /\ CodeOf(text[1]) = RC_CONNECT
    <3>1. RC_CONNECT \in RequestCode
      BY DEF RequestCode, RC_CONNECT, RC_HWM
    <3> QED
      BY <2>1, <3>1, Selected DEF text
  <2>6. /\ o.accepts \in BOOLEAN
        /\ o.result \in Resolver \cup {"nullptr"}
        /\ \/ /\ o.accepts
              /\ o.said \in Seq(Word) \ {<<>>} /\ o.said[1] = "HELLO"
              /\ o.result # "nullptr"
           \/ /\ ~o.accepts
              /\ o.said \in Seq(Word) \ {<<>>} /\ o.said[1] = "ERROR"
           \/ /\ ~o.accepts
              /\ o.said = <<>> /\ o.result = "nullptr"
        /\ resolver \in Contract =>
             /\ o.result \in Contract \cup {"nullptr"}
             /\ o.said # <<>> => o.result # "nullptr"
    BY <1>1, ConnectLines
  <2>7. o.said \in Seq(Word) /\ own \in Seq(Word) /\ (o.said # <<>> \/ own # <<>>)
    BY <2>3, <2>6, <1>3
  <2>8. ASSUME resolver \in Contract
        PROVE  /\ resolver' \in Contract
               /\ o.said = <<>> \/ own = <<>>
               /\ Answer(text, IF o.said = <<>> THEN own ELSE o.said, is_connected, is_connected')
    <3>1. resolver' \in Contract /\ (o.said = <<>> \/ own = <<>>)
      BY <2>2, <2>6, <2>8
    <3> DEFINE response == IF o.said = <<>> THEN own ELSE o.said
    <3>2. CASE o.accepts
      <4>1. text # <<>> /\ response # <<>> /\ response[1] = "HELLO"
        BY <3>2, <2>5, <2>6
      <4>2. "HELLO" \in ResponseVerbs(CodeOf(text[1]))
        BY <2>5, Verbs
      <4>3. is_connected'
        BY <3>2, <2>2, Zenon
      <4> HIDE DEF response
      <4>4. IsHello(response) /\ ~IsError(response)
        BY <4>1 DEF IsHello, IsError
      <4>5. response[1] \in ResponseVerbs(CodeOf(text[1]))
        BY <4>1, <4>2
      <4>6. Answer(text, response, is_connected, is_connected')
        BY <4>1, <4>3, <4>4, <4>5, <2>1, Zenon DEF Answer
      <4> QED
        BY <4>6, <3>1 DEF response
    <3>3. CASE ~o.accepts
      <4>1. ~is_connected'
        BY <3>3, <2>2, Zenon
      <4>2. IsError(response)
        BY <3>3, <2>3, <2>6 DEF IsError
      <4> HIDE DEF response
      <4>3. Answer(text, response, is_connected, is_connected')
        BY <4>1, <4>2, <2>1, Zenon DEF Answer
      <4> QED
        BY <4>3, <3>1 DEF response
    <3> QED
      BY <3>2, <3>3, <2>6
  <2>9. Spoken(o.said, own)
    BY <2>4, <2>7, <2>8, <1>2 DEF text
  <2>10. resolver' \in Resolver /\ is_connected' \in BOOLEAN
    BY <2>2, <2>6, <1>1
  <2>11. Stays
    BY <2>4, <1>2
  <2> HIDE DEF Spoken, Stays, own
  <2>12. \E said, own0 \in Seq(Word) : Spoken(said, own0)
    BY <2>7, <2>9
  <2> QED
    BY <2>1, <2>10, <2>11, <2>12, Selected
<1> HIDE DEF Goal
<1> QED
  BY <1>6, <1>7, <1>8, <1>9, <1>10, Zenon DEF ProcessLine

-----------------------------------------------------------------------------
(* Every step preserves SafetyInv.                                         *)

\* What is told keeps a buffer composed.
LEMMA TellComposes ==
  ASSUME NEW b \in Buffer, Composed(b.data), NEW said \in Seq(Word), NEW own \in Seq(Word)
  PROVE  LET t == Tell(Tell(b, said), own)
         IN  /\ t \in Buffer /\ Composed(t.data)
             /\ said # <<>> \/ own # <<>> => t.data # <<>>
<1>1. Tell(b, said) \in Buffer /\ Composed(Tell(b, said).data)
      /\ (said # <<>> => Tell(b, said).data # <<>>)
  BY AppendLineComposes DEF Tell
<1> HIDE DEF Tell
<1>2. CASE own = <<>>
  BY <1>1, <1>2 DEF Tell
<1>3. CASE own # <<>>
  <2> DEFINE c == Tell(b, said)
  <2>1. c \in Buffer /\ Composed(c.data)
    BY <1>1
  <2> HIDE DEF c
  <2>2. Tell(c, own) \in Buffer /\ Composed(Tell(c, own).data) /\ Tell(c, own).data # <<>>
    BY <2>1, <1>3, AppendLineComposes DEF Tell
  <2> QED
    BY <2>2 DEF c
<1> QED
  BY <1>2, <1>3

\* The lines the compiler may send, and blocks of them.
LEMMA CompilerBlocks ==
  /\ \A lines \in Blocks : lines \in Seq(Seq(Text)) /\ lines # <<>>
  /\ \A line \in CompilerLines \cup ExtraLines : <<line>> \in Seq(Seq(Text)) /\ <<line>> # <<>>
  /\ \A lines \in Blocks : \A i \in 1 .. Len(lines) : lines[i] \in CompilerLines
<1>1. CompilerLines \cup ExtraLines \subseteq Seq(Text)
  BY LinesAssumption DEF Text
<1>2. ASSUME NEW lines \in Blocks
      PROVE  /\ lines \in Seq(Seq(Text)) /\ lines # <<>>
             /\ \A i \in 1 .. Len(lines) : lines[i] \in CompilerLines
  <2>1. PICK n \in 1 .. MaxLines : lines \in [1 .. n -> CompilerLines]
    BY DEF Blocks
  <2>2. n \in Nat /\ n > 0
    BY <2>1
  <2>3. lines \in Seq(CompilerLines) /\ Len(lines) = n
    BY <2>1, <2>2
  <2> QED
    BY <2>2, <2>3, <1>1
<1> QED
  BY <1>1, <1>2

LEMMA InitSafety ==
  ASSUME Init
  PROVE  SafetyInv
<1>1. /\ from = <<>> /\ to = <<>> /\ read = EmptyBuffer /\ write = EmptyBuffer
      /\ is_connected = FALSE /\ direction = "READING" /\ open = TRUE /\ peer_open = TRUE
      /\ asked = <<>> /\ got = EmptyBuffer /\ turn = "compiler"
      /\ greeted = FALSE /\ impatient = FALSE
  BY DEF Init, ServerInit
<1>2. resolver \in Resolver
  BY ResolverAssumption DEF Init, ServerInit
<1>3. \A S : <<>> \in Seq(S)
  OBVIOUS
<1>4. ServerTypeOK
  BY <1>1, <1>2, <1>3, EmptyBufferType DEF ServerTypeOK, Direction
<1>5. EnvironmentTypeOK
  BY <1>1, <1>3, EmptyBufferType DEF EnvironmentTypeOK, Turn
<1>6. LoopInv
  BY <1>1 DEF LoopInv, EmptyBuffer, Unended
<1> QED
  BY <1>4, <1>5, <1>6 DEF SafetyInv

LEMMA LineSafety ==
  ASSUME SafetyInv, ProcessLine, UNCHANGED env_vars
  PROVE  SafetyInv'
<1>1. /\ read \in Buffer /\ write \in Buffer
      /\ direction = "PROCESSING" => Composed(write.data)
      /\ direction # "READING" => Ended(read.data) \/ Cut
  BY DEF SafetyInv, ServerTypeOK, LoopInv
<1>2. /\ direction = "PROCESSING" /\ direction' = direction
      /\ read.bol < Len(read.data) /\ read.data[Len(read.data)] = NEWLINE
      /\ read' = Lex(read).buffer
      /\ resolver' \in Resolver /\ is_connected' \in BOOLEAN
  BY LineAnswered
<1>3. UNCHANGED <<from, to, open, peer_open>>
  BY LineAnswered
<1>4. PICK said \in Seq(Word), own \in Seq(Word) :
        write' = Tell(Tell(write, said), own) /\ (said # <<>> \/ own # <<>>)
  BY LineAnswered
<1>5. write' \in Buffer /\ Composed(write'.data) /\ write'.data # <<>>
  BY <1>1, <1>2, <1>4, TellComposes
<1>6. /\ read' = [data |-> read.data, bol |-> LineEnd(read)]
      /\ LineEnd(read) \in read.bol + 1 .. Len(read.data)
  BY <1>1, <1>2, LexOfBuffer
<1>7. read.data \in Seq(Symbol) /\ read.bol \in Nat /\ Len(read.data) \in Nat
  BY <1>1 DEF Buffer
<1>8. /\ read'.data = read.data /\ read'.bol \in Nat /\ read'.bol > 0
      /\ read'.bol <= Len(read.data)
  BY <1>6, <1>7
<1>9. read' \in Buffer
  BY <1>6, <1>7 DEF Buffer
<1>10. ServerTypeOK'
  BY <1>2, <1>3, <1>5, <1>9 DEF SafetyInv, ServerTypeOK
<1>11. EnvironmentTypeOK'
  BY DEF SafetyInv, EnvironmentTypeOK, env_vars
<1>12. LoopInv'
  <2>1. Lexable(read)'
    <3>1. read.data # <<>>
      BY <1>2, <1>7
    <3> QED
      BY <3>1, <1>2, <1>8 DEF Lexable, Last
  <2>2. Ended(read'.data) \/ Cut'
    BY <1>1, <1>2, <1>3, <1>8 DEF Cut
  <2> QED
    BY <2>1, <2>2, <1>2, <1>5, <1>8 DEF LoopInv
<1> QED
  BY <1>10, <1>11, <1>12 DEF SafetyInv

LEMMA ReadSafety ==
  ASSUME SafetyInv, NEW n \in 1 .. Len(from), ReadStep(n), UNCHANGED env_vars
  PROVE  SafetyInv'
<1> DEFINE chunk == SubSeq(from, 1, n)
           r     == ReadSome(read, chunk)
<1>1. /\ direction = "READING" /\ from \in Seq(Symbol) /\ read \in Buffer /\ read.bol = 0
      /\ write = EmptyBuffer /\ Unended(read.data)
  BY DEF SafetyInv, ServerTypeOK, LoopInv, ReadStep
<1>2. /\ from' = SubSeq(from, n + 1, Len(from))
      /\ read' = r.buffer
      /\ direction' = IF r.err = "EAGAIN" THEN "READING" ELSE "PROCESSING"
      /\ UNCHANGED <<to, write, resolver, is_connected, open, peer_open>>
  BY DEF ReadStep
<1>3. n \in 0 .. Len(from)
  BY <1>1
<1>4. chunk \in Seq(Symbol) /\ from' \in Seq(Symbol)
  BY <1>1, <1>2, <1>3, ChannelPieces
<1> HIDE DEF chunk
<1>5. /\ r.buffer \in Buffer /\ r.buffer.bol = 0
      /\ r.err \in {"0", "EAGAIN", "EINVAL"}
      /\ r.err # "EAGAIN" => /\ Len(r.buffer.data) > Len(read.data)
                             /\ EndsBlock(r.buffer.data, Len(r.buffer.data))
      /\ r.err = "EAGAIN" => Unended(r.buffer.data)
  BY <1>1, <1>4, ReadSomeResult, ReadSomeUnended
<1> HIDE DEF r
<1>6. ServerTypeOK'
  BY <1>2, <1>4, <1>5 DEF SafetyInv, ServerTypeOK, Direction
<1>7. EnvironmentTypeOK'
  BY DEF SafetyInv, EnvironmentTypeOK, env_vars
<1>8. LoopInv'
  <2>1. CASE r.err = "EAGAIN"
    BY <2>1, <1>1, <1>2, <1>5 DEF LoopInv
  <2>2. CASE r.err # "EAGAIN"
    <3>1. direction' = "PROCESSING" /\ write' = EmptyBuffer
      BY <2>2, <1>1, <1>2
    <3>2. write'.data = <<>> /\ Composed(write'.data)
      BY <3>1 DEF EmptyBuffer, Composed
    <3>3. /\ read' \in Buffer /\ read'.bol = 0
          /\ Len(read'.data) > Len(read.data) /\ EndsBlock(read'.data, Len(read'.data))
      BY <2>2, <1>2, <1>5
    <3>4. Len(read.data) \in Nat /\ Len(read'.data) \in Nat
      BY <3>3, <1>1 DEF Buffer
    <3>5. read'.data # <<>> /\ read'.bol <= Len(read'.data)
      BY <3>3, <3>4
    <3>6. Ended(read'.data) /\ ~(read'.bol > 0)
      BY <3>3, <3>5 DEF Ended
    <3> QED
      BY <3>1, <3>2, <3>3, <3>5, <3>6 DEF LoopInv
  <2> QED
    BY <2>1, <2>2
<1> QED
  BY <1>6, <1>7, <1>8 DEF SafetyInv

LEMMA WriteSafety ==
  ASSUME SafetyInv, NEW n \in 1 .. PipeCapacity, WriteStep(n, PipeCapacity), UNCHANGED env_vars
  PROVE  /\ SafetyInv'
         /\ direction = "WRITING" /\ write # EmptyBuffer
         /\ write.bol + n <= Len(write.data)
         /\ to' = to \o SubSeq(write.data, write.bol + 1, write.bol + n)
         /\ write' = IF write.bol + n = Len(write.data) THEN EmptyBuffer
                     ELSE [data |-> write.data, bol |-> write.bol + n]
<1> DEFINE d == write.data
           s == write.bol
           piece == SubSeq(d, s + 1, s + n)
<1>1. /\ write \in Buffer /\ d \in Seq(Symbol) /\ s \in Nat /\ Len(d) \in Nat
      /\ to \in Seq(Symbol)
      /\ write = [data |-> d, bol |-> s]
  BY DEF SafetyInv, ServerTypeOK, Buffer
<1>2. n \in Nat /\ n > 0
  OBVIOUS
<1>3. /\ direction = "WRITING"
      /\ n <= Len(Unwritten(write))
      /\ to' = to \o piece
      /\ write' = WriteSome(write, n).buffer
      /\ UNCHANGED <<from, read, resolver, is_connected, direction, open, peer_open>>
  BY DEF WriteStep
<1>4. s + n <= Len(d)
  <2>1. \A i \in s + 1 .. Len(d) : d[i] \in Symbol
    BY <1>1
  <2>2. Len(Unwritten(write)) = IF s + 1 <= Len(d) THEN Len(d) - (s + 1) + 1 ELSE 0
    <3> HIDE DEF d, s
    <3> QED
      BY <2>1, <1>1, SubSeqProperties DEF Unwritten, d, s
  <2>3. Len(d) \in Nat /\ s \in Nat /\ n <= Len(Unwritten(write))
    BY <1>1, <1>3
  <2> DEFINE l == Len(d)
             u == Len(Unwritten(write))
  <2> HIDE DEF d, s, l, u
  <2>4. /\ l \in Nat /\ s \in Nat /\ n <= u
        /\ u = IF s + 1 <= l THEN l - (s + 1) + 1 ELSE 0
    BY <2>2, <2>3 DEF l, u
  <2>5. CASE s + 1 <= l
    BY <2>4, <2>5, <1>2 DEF l
  <2>6. CASE ~(s + 1 <= l)
    BY <2>4, <2>6, <1>2
  <2> QED
    BY <2>5, <2>6
<1>5. write # EmptyBuffer
  BY <1>1, <1>2, <1>4 DEF EmptyBuffer
<1>6. Framed(d) /\ s < Len(d)
  BY <1>3, <1>5 DEF SafetyInv, LoopInv
<1>7. write' = IF s + n = Len(d) THEN EmptyBuffer ELSE [data |-> d, bol |-> s + n]
  <2>1. [write EXCEPT !.bol = write.bol + n] = [data |-> d, bol |-> s + n]
    BY <1>1
  <2> QED
    BY <2>1, <1>3 DEF WriteSome
<1>8. piece \in Seq(Symbol)
  <2>1. \A i \in s + 1 .. s + n : d[i] \in Symbol
    BY <1>1, <1>2, <1>4
  <2> HIDE DEF d, s, piece
  <2> QED
    BY <2>1, <1>1, <1>2, SubSeqProperties DEF piece
<1> HIDE DEF d, s, piece
<1>9. to' \in Seq(Symbol)
  BY <1>1, <1>3, <1>8, ConcatProperties
<1>10. write' \in Buffer
  <2>1. s + n \in Nat
    BY <1>1, <1>2
  <2>2. [data |-> d, bol |-> s + n] \in Buffer
    BY <2>1, <1>1 DEF Buffer
  <2> QED
    BY <2>2, <1>7, EmptyBufferType
<1>11. ServerTypeOK'
  BY <1>3, <1>9, <1>10 DEF SafetyInv, ServerTypeOK
<1>12. EnvironmentTypeOK'
  BY DEF SafetyInv, EnvironmentTypeOK, env_vars
<1>13. write' # EmptyBuffer => Framed(write'.data) /\ write'.bol < Len(write'.data)
  <2> SUFFICES ASSUME write' # EmptyBuffer PROVE Framed(write'.data) /\ write'.bol < Len(write'.data)
    OBVIOUS
  <2>1. write' = [data |-> d, bol |-> s + n] /\ s + n # Len(d)
    BY <1>7
  <2>2. s + n < Len(d)
    BY <2>1, <1>1, <1>2, <1>4
  <2> QED
    BY <2>1, <2>2, <1>6
<1>14. LoopInv'
  BY <1>3, <1>13 DEF SafetyInv, LoopInv, IsAtEnd, Cut
<1> QED
  BY <1>3, <1>4, <1>5, <1>7, <1>11, <1>12, <1>14 DEF SafetyInv, d, s, piece

LEMMA PrepareSafety ==
  ASSUME SafetyInv, PrepareResponses, UNCHANGED env_vars
  PROVE  /\ SafetyInv'
         /\ direction = "PROCESSING" /\ direction' = "WRITING"
         /\ IsAtEnd(read) /\ (peer_open => write.data # <<>>)
         /\ write' = PrepareToWrite(write) /\ write'.bol = 0 /\ Framed(write'.data)
         /\ UNCHANGED <<from, to, read, resolver, is_connected, open, peer_open>>
<1>1. /\ direction = "PROCESSING" /\ direction' = "WRITING"
      /\ IsAtEnd(read) /\ write' = PrepareToWrite(write)
      /\ UNCHANGED <<from, to, read, resolver, is_connected, open, peer_open>>
  BY DEF PrepareResponses
<1>2. /\ read \in Buffer /\ write \in Buffer
      /\ Ended(read.data) \/ Cut
      /\ Composed(write.data) /\ (write.data = <<>> => read.bol = 0)
  BY <1>1 DEF SafetyInv, ServerTypeOK, LoopInv
<1>3. peer_open => write.data # <<>>
  <2> SUFFICES ASSUME peer_open PROVE write.data # <<>>
    OBVIOUS
  <2>3. read.data # <<>>
    BY <1>2 DEF Ended, Cut
  <2>1. read.data \in Seq(Symbol) /\ read.bol = Len(read.data)
    BY <1>1, <1>2 DEF Buffer, IsAtEnd
  <2>2. Len(read.data) # 0
    BY <2>1, <2>3
  <2> QED
    BY <2>1, <2>2, <1>2
<1>4. write' \in Buffer /\ write'.bol = 0 /\ Framed(write'.data)
  BY <1>1, <1>2, PrepareToWriteFrames
<1>5. ServerTypeOK'
  BY <1>1, <1>4 DEF SafetyInv, ServerTypeOK, Direction
<1>6. EnvironmentTypeOK'
  BY DEF SafetyInv, EnvironmentTypeOK, env_vars
<1>7. LoopInv'
  <2>1. write'.bol < Len(write'.data)
    BY <1>4 DEF Framed
  <2>2. (Ended(read'.data) \/ Cut') /\ IsAtEnd(read)'
    BY <1>1, <1>2 DEF IsAtEnd, Cut
  <2> QED
    BY <2>1, <2>2, <1>1, <1>4 DEF LoopInv
<1> QED
  BY <1>1, <1>3, <1>4, <1>5, <1>6, <1>7 DEF SafetyInv

\* The steps that find the compiler gone, or wait for the next block.
LEMMA QuietSafety ==
  ASSUME SafetyInv, ReadFails \/ Abort \/ WriteError \/ PrepareForRequests, UNCHANGED env_vars
  PROVE  SafetyInv'
<1>1. EnvironmentTypeOK'
  BY DEF SafetyInv, EnvironmentTypeOK, env_vars
<1>2. CASE ReadFails
  <2>1. /\ direction = "READING" /\ direction' = "PROCESSING" /\ ~peer_open /\ from' = <<>>
        /\ UNCHANGED <<to, read, write, resolver, is_connected, open, peer_open>>
    BY <1>2 DEF ReadFails
  <2>2. /\ read \in Buffer /\ read.bol = 0 /\ write = EmptyBuffer /\ Unended(read.data)
        /\ Len(read.data) \in Nat
    BY <2>1 DEF SafetyInv, ServerTypeOK, LoopInv, Buffer
  <2>3. ServerTypeOK'
    BY <2>1, EmptySeq DEF SafetyInv, ServerTypeOK, Direction
  <2>4. write'.data = <<>> /\ Composed(write'.data)
    BY <2>1, <2>2 DEF EmptyBuffer, Composed
  <2>5. LoopInv'
    BY <2>1, <2>2, <2>4 DEF LoopInv, Cut
  <2> QED
    BY <1>1, <2>3, <2>5 DEF SafetyInv
<1>3. CASE WriteError
  BY <1>1, <1>3, EmptyBufferType DEF SafetyInv, ServerTypeOK, LoopInv, IsAtEnd, Cut, WriteError
<1>5. CASE Abort
  BY <1>1, <1>5 DEF SafetyInv, ServerTypeOK, LoopInv, IsAtEnd, Cut, Lexable, Abort
<1>4. CASE PrepareForRequests
  <2>1. ServerTypeOK'
    BY <1>4, EmptyBufferType DEF SafetyInv, ServerTypeOK, Direction, PrepareForRequests
  <2>2. direction' = "READING" /\ write' = EmptyBuffer /\ read'.bol = 0 /\ Unended(read'.data)
    BY <1>4 DEF PrepareForRequests, EmptyBuffer, Unended
  <2>3. LoopInv'
    BY <2>2 DEF LoopInv
  <2> QED
    BY <1>1, <2>1, <2>3 DEF SafetyInv
<1> QED
  BY <1>2, <1>3, <1>4, <1>5

LEMMA SendSafety ==
  ASSUME SafetyInv, NEW lines \in Seq(Seq(Text)), lines # <<>>,
         NEW extra \in Seq(Seq(Text)), Send(lines, extra)
  PROVE  SafetyInv'
<1>1. Block(lines) \in Seq(Symbol)
  BY BlockOfLines
<1>2. extra # <<>> => Block(extra) \in Seq(Symbol)
  BY BlockOfLines
<1>3. from' \in Seq(Symbol)
  <2> DEFINE b == Block(lines)
             c == IF extra = <<>> THEN <<>> ELSE Block(extra)
  <2>1. from' = b \o c
    BY DEF Send
  <2>2. b \in Seq(Symbol) /\ c \in Seq(Symbol)
    BY <1>1, <1>2, EmptySeq
  <2> HIDE DEF b, c
  <2> QED
    BY <2>1, <2>2, ConcatProperties
<1>4. /\ asked' = lines /\ got' = EmptyBuffer /\ turn' = "builder" /\ peer_open
      /\ UNCHANGED <<to, peer_open, server_vars>>
  BY DEF Send
<1>5. greeted' \in BOOLEAN /\ impatient' \in BOOLEAN
  BY Zenon DEF Send
<1>6. ServerTypeOK'
  BY <1>3, <1>4 DEF SafetyInv, ServerTypeOK, server_vars
<1>7. EnvironmentTypeOK'
  BY <1>4, <1>5, EmptyBufferType DEF EnvironmentTypeOK, Turn
<1>8. LoopInv'
  BY <1>4 DEF SafetyInv, LoopInv, server_vars, IsAtEnd, Cut, Lexable
<1> QED
  BY <1>6, <1>7, <1>8 DEF SafetyInv

LEMMA ReceiveSafety ==
  ASSUME SafetyInv, NEW n \in 1 .. PipeCapacity, Receive(n)
  PROVE  SafetyInv'
<1> DEFINE chunk == SubSeq(to, 1, n)
           r     == ReadSome(got, chunk)
<1>1. to \in Seq(Symbol) /\ got \in Buffer
  BY DEF SafetyInv, ServerTypeOK, EnvironmentTypeOK
<1>2. /\ n <= Len(to)
      /\ to' = SubSeq(to, n + 1, Len(to))
      /\ got' = r.buffer
      /\ turn' = IF r.err = "EAGAIN" THEN "builder" ELSE "compiler"
      /\ UNCHANGED <<from, peer_open, server_vars, asked, greeted, impatient>>
  BY DEF Receive
<1>3. n \in 0 .. Len(to)
  BY <1>1, <1>2
<1>4. chunk \in Seq(Symbol) /\ to' \in Seq(Symbol)
  BY <1>1, <1>2, <1>3, ChannelPieces
<1> HIDE DEF chunk
<1>5. r.buffer \in Buffer
  BY <1>1, <1>4, ReadSomeResult
<1> HIDE DEF r
<1>6. ServerTypeOK'
  BY <1>2, <1>4 DEF SafetyInv, ServerTypeOK, server_vars
<1>7. EnvironmentTypeOK'
  BY <1>2, <1>5 DEF SafetyInv, EnvironmentTypeOK, Turn
<1>8. LoopInv'
  BY <1>2 DEF SafetyInv, LoopInv, server_vars, IsAtEnd, Cut, Lexable
<1> QED
  BY <1>6, <1>7, <1>8 DEF SafetyInv

LEMMA LeaveSafety ==
  ASSUME SafetyInv, Leave
  PROVE  SafetyInv'
<1>1. PICK n \in 0 .. Len(from) : from' = SubSeq(from, 1, n)
  BY DEF Leave
<1>2. from \in Seq(Symbol)
  BY DEF SafetyInv, ServerTypeOK
<1>3. from' \in Seq(Symbol)
  BY <1>1, <1>2, ChannelPieces
<1>4. peer_open' = FALSE /\ UNCHANGED <<to, server_vars, env_vars>>
  BY DEF Leave
<1>5. ServerTypeOK'
  BY <1>3, <1>4 DEF SafetyInv, ServerTypeOK, server_vars
<1>6. EnvironmentTypeOK'
  BY <1>4 DEF SafetyInv, EnvironmentTypeOK, env_vars
<1>7. LoopInv'
  <2>1. from = <<>> => from' = <<>>
    <3> SUFFICES ASSUME from = <<>> PROVE from' = <<>>
      OBVIOUS
    <3>1. Len(from') = n /\ Len(from) = 0
      BY <1>1, <1>2, ChannelPieces
    <3>2. Len(from') = 0
      BY <3>1
    <3> QED
      BY <3>2, <1>3
  <2> QED
    BY <2>1, <1>4 DEF SafetyInv, LoopInv, server_vars, IsAtEnd, Cut, Lexable
<1> QED
  BY <1>5, <1>6, <1>7 DEF SafetyInv

LEMMA NextSafety ==
  ASSUME SafetyInv, [Next]_vars
  PROVE  SafetyInv'
<1>1. CASE ServerStep
  <2>1. UNCHANGED env_vars
    BY <1>1 DEF ServerStep
  <2>2. CASE SomeRead
    BY <2>1, <2>2, ReadSafety DEF SomeRead
  <2>3. CASE ReadFails \/ Abort
    BY <2>1, <2>3, QuietSafety
  <2>4. CASE ProcessLine
    BY <2>1, <2>4, LineSafety
  <2>5. CASE PrepareResponses
    BY <2>1, <2>5, PrepareSafety
  <2>6. CASE SomeWrite
    BY <2>1, <2>6, WriteSafety DEF SomeWrite
  <2>7. CASE WriteError
    BY <2>1, <2>7, QuietSafety
  <2>8. CASE PrepareForRequests
    BY <2>1, <2>8, QuietSafety
  <2> QED
    BY <1>1, <2>2, <2>3, <2>4, <2>5, <2>6, <2>7, <2>8 DEF ServerStep
<1>2. ASSUME NEW lines \in Blocks, Send(lines, <<>>)
      PROVE  SafetyInv'
  BY <1>2, CompilerBlocks, SendSafety, EmptySeq
<1>3. ASSUME NEW line \in CompilerLines, NEW extra \in ExtraLines, Send(<<line>>, <<extra>>)
      PROVE  SafetyInv'
  BY <1>3, CompilerBlocks, SendSafety
<1>4. CASE SomeReceive
  BY <1>4, ReceiveSafety DEF SomeReceive
<1>5. CASE Leave
  BY <1>5, LeaveSafety
<1>6. CASE UNCHANGED vars
  BY <1>6 DEF SafetyInv, ServerTypeOK, EnvironmentTypeOK, LoopInv, IsAtEnd, Cut, Lexable,
              vars, server_vars, env_vars
<1> QED
  BY <1>1, <1>2, <1>3, <1>4, <1>5, <1>6 DEF Next, CompilerStep

\* Wherever the builder is in its loop, its buffers hold what they should:
\* nothing between blocks, a block that has ended when its lines are
\* processed, the composed responses meanwhile, and a finalized block when
\* they are written.
THEOREM SafetyInvariantHolds == Spec => []SafetyInv
<1>1. Init => SafetyInv
  BY InitSafety
<1>2. SafetyInv /\ [Next]_vars => SafetyInv'
  BY NextSafety
<1> QED
  BY <1>1, <1>2, PTL DEF Spec

\* No compiler can make the builder trip over the Assert of Lex and stay,
\* whatever it sends: there is an end to what is processed, or the compiler
\* has gone and all that it sent had none, and no line was dealt with.
THEOREM AbortsOnlyOnCutBlocks == Spec => []AbortsOnlyWhenCut
<1>1. SafetyInv => AbortsOnlyWhenCut
  <2> SUFFICES ASSUME SafetyInv, direction = "PROCESSING", ~IsAtEnd(read), ~Lexable(read)
               PROVE  /\ ~peer_open /\ from = <<>>
                      /\ \A i \in 1 .. Len(read.data) : ~EndsBlock(read.data, i)
                      /\ read.bol = 0 /\ write = EmptyBuffer
    BY DEF AbortsOnlyWhenCut
  <2>1. ~Ended(read.data)
    BY DEF Lexable, Ended, EndsBlock, Last
  <2>2. Cut
    BY <2>1 DEF SafetyInv, LoopInv
  <2>3. read.bol \in Nat /\ ~(read.bol > 0)
    BY DEF SafetyInv, ServerTypeOK, LoopInv, Buffer
  <2>4. read.bol = 0 /\ write = EmptyBuffer
    BY <2>3 DEF SafetyInv, LoopInv
  <2> QED
    BY <2>2, <2>4 DEF Cut, Unended
<1> QED
  BY <1>1, SafetyInvariantHolds, PTL

\* The builder has nothing to say until the request block has ended and its
\* last line has been dealt with, whatever the lines are.
THEOREM ResponsesAreNotEager == Spec => NotEager
<1> DEFINE Quiet == Len(to') > Len(to) =>
                      /\ read.data # <<>>
                      /\ EndsBlock(read.data, Len(read.data))
                      /\ IsAtEnd(read)
<1>1. SafetyInv /\ [Next]_vars => [Quiet]_vars
  <2> SUFFICES ASSUME SafetyInv, [Next]_vars, Len(to') > Len(to)
               PROVE  /\ read.data # <<>>
                      /\ EndsBlock(read.data, Len(read.data))
                      /\ IsAtEnd(read)
    OBVIOUS
  <2>1. to \in Seq(Symbol) /\ Len(to) \in Nat
    BY DEF SafetyInv, ServerTypeOK
  <2>2. to' # to
    BY <2>1
  <2>3. SomeWrite \/ SomeReceive
    BY <2>2, LineAnswered
       DEF Next, ServerStep, CompilerStep, SomeRead, ReadStep, ReadFails, Abort, PrepareResponses,
           WriteError, PrepareForRequests, Send, Leave, vars
  <2>4. ~SomeReceive
    <3> SUFFICES ASSUME NEW n \in 1 .. PipeCapacity, Receive(n) PROVE FALSE
      BY DEF SomeReceive
    <3>1. n <= Len(to) /\ to' = SubSeq(to, n + 1, Len(to))
      BY DEF Receive
    <3>2. n \in 0 .. Len(to)
      BY <3>1, <2>1
    <3>3. Len(to') = Len(to) - n
      BY <3>1, <3>2, <2>1, ChannelPieces
    <3> QED
      BY <3>2, <3>3, <2>1
  <2>5. direction = "WRITING" /\ peer_open
    BY <2>3, <2>4 DEF SomeWrite, WriteStep
  <2> QED
    BY <2>5 DEF SafetyInv, LoopInv, Ended, Cut
<1> QED
  BY <1>1, SafetyInvariantHolds, PTL DEF Spec, NotEager

-----------------------------------------------------------------------------
(* Every line is answered once.                                            *)

\* The one answer that is told.
LEMMA OneAnswer ==
  ASSUME SafetyInv, resolver \in Contract, ProcessLine
  PROVE  /\ resolver' \in Contract
         /\ \E response \in Seq(Word) \ {<<>>} :
              /\ write' = AppendLine(write, response)
              /\ Answer(Lex(read).text, response, is_connected, is_connected')
<1>1. PICK said \in Seq(Word), own \in Seq(Word) :
        /\ write' = Tell(Tell(write, said), own)
        /\ said # <<>> \/ own # <<>>
        /\ resolver \in Contract =>
             /\ resolver' \in Contract
             /\ said = <<>> \/ own = <<>>
             /\ Answer(Lex(read).text, IF said = <<>> THEN own ELSE said,
                       is_connected, is_connected')
  BY LineAnswered, Zenon
<1>2. \A line : Tell(write, <<>>) = write /\ (line # <<>> => Tell(write, line) = AppendLine(write, line))
  BY DEF Tell
<1>3. CASE said = <<>>
  <2>1. write' = AppendLine(write, own) /\ own \in Seq(Word) \ {<<>>}
    BY <1>1, <1>2, <1>3
  <2>2. Answer(Lex(read).text, own, is_connected, is_connected')
    BY <1>1, <1>3, Zenon
  <2> QED
    BY <1>1, <2>1, <2>2, Zenon
<1>4. CASE said # <<>>
  <2>1. own = <<>> /\ said \in Seq(Word) \ {<<>>}
    BY <1>1, <1>4
  <2>2. write' = AppendLine(write, said)
    BY <2>1, <1>1, <1>2, <1>4 DEF Tell
  <2>3. Answer(Lex(read).text, said, is_connected, is_connected')
    BY <1>1, <1>4, Zenon
  <2> QED
    BY <1>1, <2>1, <2>2, <2>3, Zenon
<1> QED
  BY <1>3, <1>4

LEMMA LineCounted ==
  ASSUME SafetyInv, CountInv, ProcessLine
  PROVE  CountInv'
<1> DEFINE d == read.data
           b == read.bol
           w == write.data
<1>1. /\ direction = "PROCESSING"
      /\ b < Len(d) /\ d[Len(d)] = NEWLINE
      /\ direction' = direction
      /\ read' = Lex(read).buffer
  BY LineAnswered
<1>2. read \in Buffer /\ write \in Buffer /\ resolver \in Contract
  BY DEF SafetyInv, ServerTypeOK, CountInv
<1>3. resolver' \in Contract
  BY <1>2, OneAnswer
<1>4. PICK response \in Seq(Word) \ {<<>>} : write' = AppendLine(write, response)
  BY <1>2, OneAnswer
<1>5. read'.data = d
  <2>1. read' = [data |-> read.data, bol |-> LineEnd(read)]
    BY <1>1, <1>2, LexOfBuffer
  <2> QED
    BY <2>1
<1>6. Cardinality(NewlinesUpTo(read'.data, read'.bol)) = Cardinality(NewlinesUpTo(d, b)) + 1
  BY <1>1, <1>2, <1>5, NewlinesOfLex
<1>7. Cardinality(NewlinesUpTo(write'.data, Len(write'.data))) =
        IF w = <<>> THEN 0 ELSE Cardinality(NewlinesUpTo(w, Len(w))) + 1
  BY <1>2, <1>4, NewlinesOfAppendLine
<1>8. write'.data # <<>>
  <2>1. Composed(w)
    BY <1>1 DEF SafetyInv, LoopInv
  <2> QED
    BY <2>1, <1>2, <1>4, AppendLineComposes
<1>9. Cardinality(NewlinesUpTo(d, b)) =
        IF w = <<>> THEN 0 ELSE Cardinality(NewlinesUpTo(w, Len(w))) + 1
  BY <1>1 DEF CountInv
<1>10. Cardinality(NewlinesUpTo(read'.data, read'.bol)) =
         Cardinality(NewlinesUpTo(write'.data, Len(write'.data))) + 1
  BY <1>6, <1>7, <1>9
<1> HIDE DEF d, b, w
<1> QED
  BY <1>3, <1>8, <1>10 DEF CountInv

LEMMA NextCount ==
  ASSUME SafetyInv, CountInv, [Next]_vars
  PROVE  CountInv'
<1>1. resolver \in Contract
  BY DEF CountInv
<1>2. CASE ProcessLine
  BY <1>2, LineCounted
<1>3. CASE SomeRead
  <2>1. PICK n \in 1 .. Len(from) : ReadStep(n)
    BY <1>3 DEF SomeRead
  <2>2. /\ read' = ReadSome(read, SubSeq(from, 1, n)).buffer
        /\ write' = write /\ resolver' = resolver /\ direction = "READING"
    BY <2>1 DEF ReadStep
  <2>3. write'.data = <<>> /\ read.bol = 0
    BY <2>2 DEF SafetyInv, LoopInv, EmptyBuffer
  <2>4. read'.bol = 0
    BY <2>2, <2>3 DEF ReadSome
  <2>5. NewlinesUpTo(read'.data, read'.bol) = {}
    BY <2>4 DEF NewlinesUpTo
  <2>6. Cardinality({}) = 0
    BY FS_EmptySet
  <2> QED
    BY <1>1, <2>2, <2>3, <2>5, <2>6 DEF CountInv
<1>4. CASE \/ PrepareResponses \/ PrepareForRequests
  <2>1. direction' # "PROCESSING" /\ resolver' = resolver
    BY <1>4 DEF PrepareResponses, PrepareForRequests
  <2> QED
    BY <1>1, <2>1 DEF CountInv
<1>5. CASE WriteError \/ SomeWrite
  <2>1. direction' # "PROCESSING" /\ resolver' = resolver
    BY <1>5 DEF WriteError, SomeWrite, WriteStep
  <2> QED
    BY <1>1, <2>1 DEF CountInv
<1>6. CASE UNCHANGED <<read, write, resolver, direction>>
  BY <1>6 DEF CountInv
<1>7. Abort \/ CompilerStep \/ UNCHANGED vars => UNCHANGED <<read, write, resolver, direction>>
  BY DEF Abort, CompilerStep, Send, SomeReceive, Receive, Leave, vars, server_vars
<1>8. CASE ReadFails
  <2>1. read' = read /\ write' = write /\ resolver' = resolver /\ direction = "READING"
    BY <1>8 DEF ReadFails
  <2>2. write'.data = <<>> /\ read'.bol = 0
    BY <2>1 DEF SafetyInv, LoopInv, EmptyBuffer
  <2>3. NewlinesUpTo(read'.data, read'.bol) = {}
    BY <2>2 DEF NewlinesUpTo
  <2> QED
    BY <1>1, <2>1, <2>2, <2>3, FS_EmptySet DEF CountInv
<1> QED
  BY <1>2, <1>3, <1>4, <1>5, <1>6, <1>7, <1>8 DEF Next, ServerStep

\* "Every request has a response", and only one: with resolvers that keep to
\* the interface, while the lines of a block are processed as many responses
\* are composed as lines consumed.
THEOREM EveryLineHasOneResponse ==
  ASSUME InitialResolver \subseteq Contract
  PROVE  Spec => []OneResponsePerLine
<1>1. Init => CountInv
  BY DEF Init, ServerInit, CountInv
<1>2. SafetyInv /\ CountInv /\ [Next]_vars => CountInv'
  BY NextCount
<1>3. SafetyInv /\ CountInv => OneResponsePerLine
  <2> SUFFICES ASSUME SafetyInv, CountInv, direction = "PROCESSING"
               PROVE  Len(LinesOf(Append(write.data, NEWLINE))) =
                        (IF write.data = <<>> THEN 1 ELSE 0)
                          + Cardinality(NewlinesUpTo(read.data, read.bol))
    BY DEF OneResponsePerLine
  <2> DEFINE w == write.data
             c == Cardinality(NewlinesUpTo(w, Len(w)))
             k == Cardinality(NewlinesUpTo(read.data, read.bol))
  <2>1. w \in Seq(Symbol)
    BY DEF SafetyInv, ServerTypeOK, Buffer
  <2>2. Len(LinesOf(Append(w, NEWLINE))) = c + 1
    BY <2>1, LinesOfFinalized
  <2>3. k = IF w = <<>> THEN 0 ELSE c + 1
    BY DEF CountInv
  <2>4. c \in Nat /\ (w = <<>> => c = 0)
    <3>1. Len(w) \in Nat
      BY <2>1
    <3>2. w = <<>> => NewlinesUpTo(w, Len(w)) = {}
      BY DEF NewlinesUpTo
    <3> QED
      BY <3>1, <3>2, NewlinesFinite, FS_EmptySet
  <2> HIDE DEF w, c, k
  <2>5. Len(LinesOf(Append(w, NEWLINE))) = (IF w = <<>> THEN 1 ELSE 0) + k
    <3>1. CASE w = <<>>
      BY <3>1, <2>2, <2>3, <2>4
    <3>2. CASE w # <<>>
      BY <3>2, <2>2, <2>3, <2>4
    <3> QED
      BY <3>1, <3>2
  <2> QED
    BY <2>5 DEF w, k
<1> QED
  BY <1>1, <1>2, <1>3, SafetyInvariantHolds, PTL DEF Spec

-----------------------------------------------------------------------------
(***************************************************************************)
(* A whole turn: what a compiler gets back answers what it sent, line by   *)
(* line, whatever it sent and however the pipes cut it up, when the        *)
(* resolvers keep to the interface.                                        *)
(***************************************************************************)

-----------------------------------------------------------------------------
(* The inductive invariant: where the request block and its responses are. *)

\* The responses to the first lines of a block.
Answered(responses) ==
  /\ responses \in Seq(Seq(Word) \ {<<>>})
  /\ Len(responses) <= Len(asked)
  /\ \A i \in 1 .. Len(responses) :
       Answer(asked[i], responses[i],
              ConnectedAfter(responses, i - 1), ConnectedAfter(responses, i))

AllAnswered(responses) == Answered(responses) /\ Len(responses) = Len(asked)

\* The compiler has the answers, or asked nothing yet: all is quiet.
Idle ==
  /\ from = <<>> /\ to = <<>>
  /\ direction # "WRITING" => read = EmptyBuffer
  /\ peer_open => write = EmptyBuffer /\ direction # "PROCESSING"
  /\ is_connected <=> ConnectedAfter(Replies, Len(Replies))

\* The block is on its way to the builder.
Asking ==
  LET arrived == IF direction = "READING" THEN read.data ELSE <<>>
      block   == Block(asked)
  IN  /\ direction # "PROCESSING"
      /\ write = EmptyBuffer
      /\ to = <<>> /\ got = EmptyBuffer
      /\ is_connected <=> greeted
      /\ Starts(block, arrived, from)
      /\ Len(arrived) + Len(from) >= Len(block)
      /\ ~impatient => Len(arrived) + Len(from) = Len(block)

\* The builder goes through its lines.
Processing(responses) ==
  /\ direction = "PROCESSING"
  /\ to = <<>> /\ got = EmptyBuffer
  /\ ~impatient => from = <<>>
  /\ read.data = Block(asked)
  /\ Answered(responses)
  /\ is_connected <=> ConnectedAfter(responses, Len(responses))
  /\ IF responses = <<>> THEN write.data = <<>>
     ELSE LaidOut(Append(write.data, NEWLINE), responses)
  /\ \E at \in [1 .. Len(asked) + 1 -> 0 .. Len(read.data)] :
       Layout(read.data, asked, at) /\ read.bol = at[Len(responses) + 1]

\* The responses are on their way back, some not written yet.
Responding(responses) ==
  /\ direction = "WRITING"
  /\ ~impatient => from = <<>>
  /\ write # EmptyBuffer
  /\ write.bol = Len(got.data) + Len(to)
  /\ Starts(write.data, got.data, to)
  /\ LaidOut(write.data, responses)
  /\ AllAnswered(responses)
  /\ is_connected <=> ConnectedAfter(responses, Len(responses))

\* All of them are written.  A builder that was sent two blocks together has
\* gone on, and may have written more.
Responded(block, responses) ==
  /\ Framed(block)
  /\ Starts(block, got.data, to)
  /\ Len(got.data) + Len(to) >= Len(block)
  /\ LaidOut(block, responses)
  /\ AllAnswered(responses)
  /\ ~impatient =>
       /\ Len(got.data) + Len(to) = Len(block)
       /\ from = <<>>
       /\ write = EmptyBuffer
       /\ direction # "PROCESSING"
       /\ direction = "READING" => read = EmptyBuffer
       /\ is_connected <=> ConnectedAfter(responses, Len(responses))

Busy ==
  /\ asked # <<>>
  /\ LET last == asked[Len(asked)]
     IN  last # <<>> => last[Len(last)] \notin Glued
  /\ got.bol = 0
  /\ \/ Asking
     \/ \E responses \in Seq(Seq(Word)) : Processing(responses) \/ Responding(responses)
     \/ \E block \in Seq(Symbol), responses \in Seq(Seq(Word)) : Responded(block, responses)

TurnInv ==
  /\ turn = "compiler" /\ ~impatient => Idle
  /\ turn = "builder" /\ peer_open => Busy
  /\ ResponsesCorrespond
  /\ HandshakeFirstAndOnce

-----------------------------------------------------------------------------
(* Facts about the parts of the invariant.                                 *)

\* The block that was asked is one.
LEMMA BlockAsked ==
  ASSUME SafetyInv, Busy
  PROVE  /\ Block(asked) \in Seq(Symbol)
         /\ LaidOut(Block(asked), asked)
         /\ Framed(Block(asked))
<1>1. asked \in Seq(Seq(Text)) /\ asked # <<>>
  BY DEF SafetyInv, EnvironmentTypeOK, Busy
<1>2. LET last == asked[Len(asked)] IN last # <<>> => last[Len(last)] \notin Glued
  BY DEF Busy
<1> QED
  BY <1>1, <1>2, BlockOfLines

\* The response lines the compiler has.
LEMMA RepliesAreSequence ==
  ASSUME SafetyInv
  PROVE  DOMAIN Replies = 1 .. Len(Replies)
<1> DEFINE m == Cardinality(NewlinesUpTo(got.data, Len(got.data)))
           f(i) == WithoutContinuation(SubSeq(got.data, LineBreak(got.data, i - 1) + 1,
                                              LineBreak(got.data, i) - 1))
<1>1. m \in Nat
  <2>1. Len(got.data) \in Nat
    BY DEF SafetyInv, EnvironmentTypeOK, Buffer
  <2> QED
    BY <2>1, NewlinesFinite
<1>2. Replies = [i \in 1 .. m |-> f(i)]
  BY DEF Replies, LinesOf
<1> HIDE DEF m, f
<1> QED
  BY <1>1, <1>2

\* The answers depend on nothing but what was asked, and on the past.
LEMMA AnsweredStays ==
  ASSUME UNCHANGED env_vars, NEW responses
  PROVE  /\ Answered(responses)' <=> Answered(responses)
         /\ AllAnswered(responses)' <=> AllAnswered(responses)
         /\ \A k : ConnectedAfter(responses, k)' <=> ConnectedAfter(responses, k)
BY DEF env_vars, Answered, AllAnswered, ConnectedAfter

\* A builder that goes on with a second block does not disturb the responses
\* to the first.
LEMMA RespondedStays ==
  ASSUME NEW block \in Seq(Symbol), NEW responses \in Seq(Seq(Word)),
         Responded(block, responses), impatient,
         UNCHANGED env_vars, UNCHANGED to
  PROVE  Responded(block, responses)'
<1>1. AllAnswered(responses)'
  BY AnsweredStays DEF Responded
<1>2. impatient' /\ got' = got /\ to' = to
  BY DEF env_vars
<1> QED
  BY <1>1, <1>2 DEF Responded

-----------------------------------------------------------------------------
(* The builder's steps.                                                    *)

\* The block arrives, in pieces.
LEMMA TurnRead ==
  ASSUME SafetyInv, Busy, NEW n \in 1 .. Len(from), ReadStep(n), UNCHANGED env_vars
  PROVE  Busy'
<1> DEFINE block == Block(asked)
           chunk == SubSeq(from, 1, n)
           r     == ReadSome(read, chunk)
<1>1. /\ direction = "READING" /\ from \in Seq(Symbol) /\ read \in Buffer /\ read.bol = 0
      /\ write = EmptyBuffer /\ asked \in Seq(Seq(Text)) /\ asked # <<>>
  BY DEF SafetyInv, ServerTypeOK, EnvironmentTypeOK, LoopInv, ReadStep, Busy
<1>2. /\ from' = SubSeq(from, n + 1, Len(from))
      /\ read' = r.buffer
      /\ direction' = IF r.err = "EAGAIN" THEN "READING" ELSE "PROCESSING"
      /\ UNCHANGED <<to, write, is_connected>>
  BY DEF ReadStep
<1>3. UNCHANGED <<asked, got, turn, greeted, impatient>>
  BY DEF env_vars
<1>4. block \in Seq(Symbol) /\ LaidOut(block, asked) /\ Framed(block)
  BY BlockAsked
<1>5. n \in 0 .. Len(from) /\ n \in Nat /\ n > 0
  BY <1>1
<1>6. /\ chunk \in Seq(Symbol) /\ Len(chunk) = n
      /\ from' \in Seq(Symbol) /\ Len(from') = Len(from) - n
  BY <1>1, <1>2, <1>5, ChannelPieces
<1> HIDE DEF block, chunk, r
<1>7. CASE Asking
  <2>1. /\ Starts(block, read.data, from)
        /\ Len(read.data) + Len(from) >= Len(block)
        /\ ~impatient => Len(read.data) + Len(from) = Len(block)
        /\ to = <<>> /\ got = EmptyBuffer
        /\ is_connected <=> greeted
    BY <1>1, <1>7 DEF Asking, block
  <2>2. LET c == SubSeq(from, 1, n)
            s == ReadSome(read, c)
        IN  IF Len(read.data) + n < Len(block)
            THEN /\ s.err = "EAGAIN"
                 /\ s.buffer = [data |-> read.data \o c, bol |-> read.bol]
                 /\ Len(read.data \o c) = Len(read.data) + n
                 /\ Starts(block, read.data \o c, SubSeq(from, n + 1, Len(from)))
            ELSE /\ s.err # "EAGAIN"
                 /\ s.buffer = [data |-> block, bol |-> read.bol]
    <3>1. /\ read \in Buffer /\ from \in Seq(Symbol) /\ n \in 1 .. Len(from)
          /\ block \in Seq(Symbol) /\ Framed(block) /\ Starts(block, read.data, from)
      BY <2>1, <1>1, <1>4
    <3> QED
      BY <3>1, ReadSomeStarts, ZenonT(60)
  <2>3. Len(read.data) \in Nat /\ Len(block) \in Nat /\ Len(from) \in Nat
    BY <1>1, <1>4 DEF Buffer
  <2>4. CASE Len(read.data) + n < Len(block)
    <3>1. /\ direction' = "READING"
          /\ read'.data = read.data \o chunk
          /\ Len(read'.data) = Len(read.data) + n
          /\ Starts(block, read'.data, from')
      <4>1. /\ r.err = "EAGAIN"
            /\ r.buffer = [data |-> read.data \o chunk, bol |-> read.bol]
            /\ Len(read.data \o chunk) = Len(read.data) + n
            /\ Starts(block, read.data \o chunk, from')
        BY <2>2, <2>4, <1>2 DEF r, chunk
      <4>2. read'.data = read.data \o chunk
        BY <4>1, <1>2
      <4> QED
        BY <4>1, <4>2, <1>2
    <3> DEFINE a == Len(read.data)
               f == Len(from)
               l == Len(block)
    <3>2. a \in Nat /\ f \in Nat /\ l \in Nat /\ a + f >= l /\ (~impatient => a + f = l)
      BY <2>1, <2>3
    <3> HIDE DEF a, f, l
    <3>3. (a + n) + (f - n) >= l /\ (~impatient => (a + n) + (f - n) = l)
      BY <3>2, <1>5
    <3>4. /\ Len(read'.data) + Len(from') >= Len(block)
          /\ ~impatient => Len(read'.data) + Len(from') = Len(block)
      BY <3>1, <3>3, <1>6 DEF a, f, l
    <3>5. Asking'
      BY <3>1, <3>4, <2>1, <1>1, <1>2, <1>3 DEF Asking, block
    <3> QED
      BY <3>5, <1>3, <1>7 DEF Busy
  <2>5. CASE ~(Len(read.data) + n < Len(block))
    <3>1. /\ direction' = "PROCESSING"
          /\ read' = [data |-> block, bol |-> 0]
      <4>1. r.err # "EAGAIN" /\ r.buffer = [data |-> block, bol |-> read.bol]
        BY <2>2, <2>5 DEF r, chunk
      <4> QED
        BY <4>1, <1>1, <1>2
    <3>2. ~impatient => from' = <<>>
      <4> SUFFICES ASSUME ~impatient PROVE from' = <<>>
        OBVIOUS
      <4>1. Len(read.data) + Len(from) = Len(block)
        BY <2>1
      <4>2. n = Len(from)
        BY <4>1, <2>3, <2>5, <1>5
      <4>3. Len(from') = 0
        BY <4>2, <1>6
      <4> QED
        BY <4>3, <1>6
    <3>3. Answered(<<>>)' /\ (is_connected' <=> ConnectedAfter(<<>>, Len(<<>>))')
      BY <2>1, <1>1, <1>2, <1>3 DEF Answered, ConnectedAfter
    <3>4. PICK at \in [1 .. Len(asked) + 1 -> 0 .. Len(block)] : Layout(block, asked, at)
      BY <1>4 DEF LaidOut
    <3>5. read'.data = block /\ read'.bol = 0 /\ 0 = at[Len(<<>>) + 1]
      BY <3>1, <3>4 DEF Layout
    <3>6. write'.data = <<>>
      BY <1>1, <1>2 DEF EmptyBuffer
    <3>7. Processing(<<>>)'
      BY <3>1, <3>2, <3>3, <3>4, <3>5, <3>6, <2>1, <1>2, <1>3 DEF Processing, block
    <3>8. <<>> \in Seq(Seq(Word))
      OBVIOUS
    <3> QED
      BY <3>7, <3>8, <1>3 DEF Busy
  <2> QED
    BY <2>4, <2>5
<1>8. ASSUME NEW responses \in Seq(Seq(Word)), Processing(responses) \/ Responding(responses)
      PROVE  Busy'
  BY <1>1, <1>8 DEF Processing, Responding
<1>9. ASSUME NEW b \in Seq(Symbol), NEW responses \in Seq(Seq(Word)), Responded(b, responses)
      PROVE  Busy'
  <2>1. impatient
    BY <1>1, <1>5, <1>9 DEF Responded
  <2>2. Responded(b, responses)'
    BY <2>1, <1>2, <1>9, RespondedStays
  <2> QED
    BY <2>2, <1>3 DEF Busy
<1> QED
  BY <1>7, <1>8, <1>9 DEF Busy

\* One more line is answered.
LEMMA TurnLine ==
  ASSUME SafetyInv, Busy, resolver \in Contract, ProcessLine, UNCHANGED env_vars
  PROVE  Busy'
<1>1. /\ direction = "PROCESSING"
      /\ read.bol < Len(read.data) /\ read.data[Len(read.data)] = NEWLINE
      /\ UNCHANGED <<from, to, direction, open, peer_open>>
      /\ read' = Lex(read).buffer
  BY LineAnswered
<1>2. PICK response \in Seq(Word) \ {<<>>} :
        /\ write' = AppendLine(write, response)
        /\ Answer(Lex(read).text, response, is_connected, is_connected')
  BY OneAnswer, Zenon
<1>3. UNCHANGED <<asked, got, turn, greeted, impatient>>
  BY DEF env_vars
<1>4. /\ read \in Buffer /\ read.data \in Seq(Symbol) /\ Len(read.data) \in Nat
      /\ write \in Buffer /\ Composed(write.data)
      /\ write.data = <<>> => read.bol = 0
      /\ asked \in Seq(Seq(Text)) /\ Len(asked) \in Nat
  BY <1>1 DEF SafetyInv, ServerTypeOK, EnvironmentTypeOK, LoopInv, Buffer
<1>5. ASSUME NEW responses \in Seq(Seq(Word)), Processing(responses)
      PROVE  Busy'
  <2> DEFINE k == Len(responses)
             more == Append(responses, response)
             block == Block(asked)
             line == asked[k + 1]
  <2>1. /\ k \in Nat /\ k <= Len(asked)
        /\ responses \in Seq(Seq(Word) \ {<<>>})
        /\ \A i \in 1 .. k : Answer(asked[i], responses[i], ConnectedAfter(responses, i - 1),
                                    ConnectedAfter(responses, i))
        /\ is_connected <=> ConnectedAfter(responses, k)
        /\ read.data = block
    BY <1>5 DEF Processing, Answered
  <2>2. PICK at \in [1 .. Len(asked) + 1 -> 0 .. Len(read.data)] :
          Layout(read.data, asked, at) /\ read.bol = at[k + 1]
    BY <1>5 DEF Processing
  <2>3. /\ more \in Seq(Seq(Word) \ {<<>>}) /\ more \in Seq(Seq(Word)) /\ Len(more) = k + 1
        /\ \A i \in 1 .. k : more[i] = responses[i]
        /\ more[k + 1] = response
        /\ more # <<>>
    <3> DEFINE S == Seq(Word) \ {<<>>}
    <3>1. responses \in Seq(S) /\ response \in S /\ S \subseteq Seq(Word)
      BY <1>2, <2>1
    <3> HIDE DEF S
    <3>2. /\ more \in Seq(S) /\ Len(more) = k + 1
          /\ \A i \in 1 .. k : more[i] = responses[i]
          /\ more[k + 1] = response
      BY <3>1
    <3>3. more \in Seq(Seq(Word))
      BY <3>1, <3>2
    <3>4. more # <<>>
      <4>1. Len(more) # 0
        <5> HIDE DEF more, k
        <5> QED
          BY <3>2, <2>1
      <4> HIDE DEF more
      <4> QED
        BY <4>1
    <3> QED
      BY <3>2, <3>3, <3>4 DEF S
  <2> HIDE DEF k, more, block
  <2>4. k < Len(asked) /\ k + 1 \in 1 .. Len(asked)
    <3>1. at[Len(asked) + 1] = Len(read.data)
      BY <2>2 DEF Layout
    <3>2. k # Len(asked)
      BY <3>1, <2>2, <1>1
    <3> QED
      BY <3>2, <2>1, <1>4
  <2>5. LineAt(read.data, line, read.bol, at[(k + 1) + 1]) /\ line \in Seq(Text)
    BY <2>2, <2>4, <1>4 DEF Layout
  <2>6. at[(k + 1) + 1] \in Nat /\ at[(k + 1) + 1] <= Len(read.data)
    <3>1. k + 1 \in 0 .. Len(asked)
      BY <2>4
    <3> QED
      BY <3>1, <2>2, <1>4, LayoutOrder
  <2> DEFINE end == at[(k + 1) + 1]
  <2> HIDE DEF line, end
  <2>7. Lex(read).text = line /\ Lex(read).buffer = [data |-> read.data, bol |-> end]
    BY <2>5, <2>6, <1>4, LexOfAnyLine DEF end
  <2>8. read'.data = block /\ read'.bol = end
    BY <2>1, <2>7, <1>1
  <2>9. Answer(line, response, is_connected, is_connected')
    BY <2>7, <1>2, Zenon
  \* The connection, by the responses.
  <2>10. \A i \in 0 .. k : ConnectedAfter(more, i) <=> ConnectedAfter(responses, i)
    <3>1. \A i \in 0 .. k : \A j \in 1 .. i : j \in 1 .. k
      BY <2>1
    <3> QED
      BY <3>1, <2>3 DEF ConnectedAfter
  <2>11. ConnectedAfter(more, k + 1) <=> (is_connected \/ IsHello(response))
    <3>1. \A j : j \in 1 .. k + 1 <=> (j \in 1 .. k \/ j = k + 1)
      BY <2>1
    <3>2. ConnectedAfter(more, k + 1) <=> (ConnectedAfter(more, k) \/ IsHello(more[k + 1]))
      BY <3>1, Zenon DEF ConnectedAfter
    <3>3. k \in 0 .. k
      BY <2>1
    <3>4. ConnectedAfter(more, k) <=> is_connected
      BY <3>3, <2>1, <2>10, Zenon
    <3> QED
      BY <3>2, <3>4, <2>3, Zenon
  <2>12. ConnectedAfter(more, k + 1) <=> is_connected'
    <3>1. IsError(response) => ~IsHello(response)
      BY DEF IsError, IsHello
    <3> QED
      BY <3>1, <2>9, <2>11, Zenon DEF Answer
  <2>13. ASSUME NEW i \in 1 .. k + 1
         PROVE  Answer(asked[i], more[i], ConnectedAfter(more, i - 1), ConnectedAfter(more, i))
    <3>1. CASE i \in 1 .. k
      <4>1. i - 1 \in 0 .. k /\ i \in 0 .. k
        BY <3>1, <2>1
      <4>2. more[i] = responses[i]
        BY <3>1, <2>3
      <4>3. Answer(asked[i], responses[i], ConnectedAfter(responses, i - 1),
                   ConnectedAfter(responses, i))
        BY <3>1, <2>1
      <4>4. /\ ConnectedAfter(more, i - 1) <=> ConnectedAfter(responses, i - 1)
            /\ ConnectedAfter(more, i) <=> ConnectedAfter(responses, i)
        BY <4>1, <2>10
      <4> QED
        BY <4>2, <4>3, <4>4, Zenon DEF Answer
    <3>2. CASE i = k + 1
      <4>1. i - 1 = k /\ k \in 0 .. k
        BY <3>2, <2>1
      <4>2. ConnectedAfter(more, i - 1) <=> is_connected
        BY <4>1, <2>1, <2>10, Zenon
      <4>3. ConnectedAfter(more, i) <=> is_connected'
        BY <3>2, <2>12, Zenon
      <4>4. more[i] = response /\ asked[i] = line
        BY <3>2, <2>3 DEF line
      <4> QED
        BY <4>2, <4>3, <4>4, <2>9, Zenon DEF Answer
    <3> QED
      BY <3>1, <3>2, <2>1
  <2>14. Answered(more)
    <3>1. k + 1 <= Len(asked)
      BY <2>4, <2>1, <1>4
    <3> QED
      BY <3>1, <2>3, <2>13 DEF Answered
  <2>15. Answered(more)' /\ (is_connected' <=> ConnectedAfter(more, Len(more))')
    <3>1. ConnectedAfter(more, k + 1)' <=> ConnectedAfter(more, k + 1)
      BY <1>3 DEF ConnectedAfter
    <3> QED
      BY <3>1, <2>3, <2>12, <2>14, AnsweredStays, Zenon
  <2>16. LaidOut(Append(write'.data, NEWLINE), more)
    <3>1. CASE responses = <<>>
      <4>1. write.data = <<>>
        BY <3>1, <1>5 DEF Processing
      <4>2. more = <<response>>
        BY <3>1 DEF more
      <4> QED
        BY <4>1, <4>2, <1>2, <1>4, FirstLineLaysOut
    <3>2. CASE responses # <<>>
      <4>1. LaidOut(Append(write.data, NEWLINE), responses)
        BY <3>2, <1>5 DEF Processing
      <4>2. write.data # <<>>
        <5>1. k > 0
          BY <3>2, <2>1 DEF k
        <5>2. 0 \in 0 .. Len(asked) /\ k \in 0 .. Len(asked)
          BY <2>1, <1>4
        <5>3. at[0 + 1] < at[k + 1]
          BY <5>1, <5>2, <2>2, <1>4, LayoutOrder
        <5>4. at[1] = 0
          BY <2>2 DEF Layout
        <5> QED
          BY <5>3, <5>4, <2>2, <1>4
      <4> QED
        BY <4>1, <4>2, <1>2, <1>4, AppendLineLaysOut DEF more
    <3> QED
      BY <3>1, <3>2
  <2>17. Processing(more)'
    <3>1. /\ to = <<>> /\ got = EmptyBuffer
          /\ ~impatient => from = <<>>
      BY <1>5 DEF Processing
    <3>2. read'.data = Block(asked)' /\ read'.bol = at[Len(more) + 1]
      BY <2>3, <2>8, <1>3 DEF block, end
    <3>3. at \in [1 .. Len(asked) + 1 -> 0 .. Len(read'.data)] /\ Layout(read'.data, asked, at)
      BY <2>1, <2>2, <2>8
    <3>4. \E at0 \in [1 .. Len(asked') + 1 -> 0 .. Len(read'.data)] :
            Layout(read'.data, asked', at0) /\ read'.bol = at0[Len(more) + 1]
      BY <3>2, <3>3, <1>3
    <3> QED
      BY <3>1, <3>2, <3>4, <2>3, <2>15, <2>16, <1>1, <1>3 DEF Processing
  <2> QED
    BY <2>3, <2>17, <1>3, <1>5 DEF Busy
<1>6. ASSUME NEW b \in Seq(Symbol), NEW responses \in Seq(Seq(Word)), Responded(b, responses)
      PROVE  Busy'
  <2>1. impatient
    BY <1>1, <1>6 DEF Responded
  <2>2. Responded(b, responses)'
    BY <2>1, <1>1, <1>6, RespondedStays
  <2> QED
    BY <2>2, <1>3 DEF Busy
<1>7. ~Asking /\ \A responses : ~Responding(responses)
  BY <1>1 DEF Asking, Responding
<1> QED
  BY <1>5, <1>6, <1>7 DEF Busy

\* The responses are finalized when the last line is answered.
LEMMA TurnPrepare ==
  ASSUME SafetyInv, Busy, peer_open, PrepareResponses, UNCHANGED env_vars
  PROVE  Busy'
<1>1. /\ direction = "PROCESSING" /\ direction' = "WRITING"
      /\ IsAtEnd(read) /\ write.data # <<>>
      /\ write' = PrepareToWrite(write) /\ write'.bol = 0 /\ Framed(write'.data)
      /\ UNCHANGED <<from, to, read, resolver, is_connected, open, peer_open>>
  BY PrepareSafety
<1>2. UNCHANGED <<asked, got, turn, greeted, impatient>>
  BY DEF env_vars
<1>3. /\ read.data \in Seq(Symbol) /\ Len(read.data) \in Nat
      /\ asked \in Seq(Seq(Text)) /\ asked # <<>> /\ Len(asked) \in Nat /\ Len(asked) # 0
  BY DEF SafetyInv, ServerTypeOK, EnvironmentTypeOK, Buffer, Busy
<1>4. ASSUME NEW responses \in Seq(Seq(Word)), Processing(responses)
      PROVE  Busy'
  <2> DEFINE k == Len(responses)
  <2>1. /\ to = <<>> /\ got = EmptyBuffer
        /\ ~impatient => from = <<>>
        /\ Answered(responses) /\ k \in Nat /\ k <= Len(asked)
        /\ is_connected <=> ConnectedAfter(responses, k)
    BY <1>4 DEF Processing, Answered
  <2>2. PICK at \in [1 .. Len(asked) + 1 -> 0 .. Len(read.data)] :
          Layout(read.data, asked, at) /\ read.bol = at[k + 1]
    BY <1>4 DEF Processing
  <2> HIDE DEF k
  <2>3. k = Len(asked)
    <3> SUFFICES ASSUME k # Len(asked) PROVE FALSE
      OBVIOUS
    <3>1. k \in 0 .. Len(asked) /\ Len(asked) \in 0 .. Len(asked) /\ k < Len(asked)
      BY <2>1, <1>3
    <3>2. at[k + 1] < at[Len(asked) + 1]
      BY <3>1, <2>2, <1>3, LayoutOrder
    <3>3. at[k + 1] = at[Len(asked) + 1]
      BY <2>2, <1>1 DEF Layout, IsAtEnd
    <3>4. at[k + 1] \in Nat
      BY <3>1, <2>2, <1>3, LayoutOrder
    <3> QED
      BY <3>2, <3>3, <3>4
  <2>4. responses # <<>>
    <3> SUFFICES ASSUME responses = <<>> PROVE FALSE
      OBVIOUS
    <3>1. k = 0
      BY DEF k
    <3> QED
      BY <3>1, <2>3, <1>3
  <2>5. LaidOut(write'.data, responses)
    <3>1. write'.data = Append(write.data, NEWLINE)
      BY <1>1 DEF PrepareToWrite
    <3> QED
      BY <3>1, <2>4, <1>4 DEF Processing
  <2>6. write'.bol = Len(got'.data) + Len(to') /\ Starts(write'.data, got'.data, to')
    <3>1. got'.data = <<>> /\ to' = <<>>
      BY <2>1, <1>1, <1>2 DEF EmptyBuffer
    <3>2. Len(write'.data) > 0
      BY <1>1 DEF Framed
    <3> QED
      BY <3>1, <3>2, <1>1 DEF Starts
  <2>7. write' # EmptyBuffer
    BY <1>1 DEF Framed, EmptyBuffer
  <2>8. AllAnswered(responses)'
    BY <2>1, <2>3, AnsweredStays DEF AllAnswered, k
  <2>9. is_connected' <=> ConnectedAfter(responses, Len(responses))'
    BY <2>1, <1>1, <1>2 DEF k, ConnectedAfter
  <2>10. Responding(responses)'
    BY <2>1, <2>5, <2>6, <2>7, <2>8, <2>9, <1>1, <1>2 DEF Responding
  <2>11. got'.bol = 0
    BY <2>1, <1>2 DEF EmptyBuffer
  <2> QED
    BY <2>10, <2>11, <1>2, <1>4 DEF Busy
<1>5. ASSUME NEW b \in Seq(Symbol), NEW responses \in Seq(Seq(Word)), Responded(b, responses)
      PROVE  Busy'
  <2>1. impatient
    BY <1>1, <1>5 DEF Responded
  <2>2. Responded(b, responses)'
    BY <2>1, <1>1, <1>5, RespondedStays
  <2> QED
    BY <2>2, <1>2 DEF Busy
<1>6. ~Asking /\ \A responses : ~Responding(responses)
  BY <1>1 DEF Asking, Responding
<1> QED
  BY <1>4, <1>5, <1>6 DEF Busy

\* The responses go out, in pieces.
LEMMA TurnWrite ==
  ASSUME SafetyInv, Busy, NEW n \in 1 .. PipeCapacity, WriteStep(n, PipeCapacity),
         UNCHANGED env_vars
  PROVE  Busy'
<1> DEFINE d == write.data
           s == write.bol
<1>1. /\ direction = "WRITING" /\ write # EmptyBuffer
      /\ s + n <= Len(d)
      /\ to' = to \o SubSeq(d, s + 1, s + n)
      /\ write' = IF s + n = Len(d) THEN EmptyBuffer ELSE [data |-> d, bol |-> s + n]
  BY WriteSafety
<1>2. UNCHANGED <<from, read, is_connected, direction>>
  BY DEF WriteStep
<1>3. UNCHANGED <<asked, got, turn, greeted, impatient>>
  BY DEF env_vars
<1>4. /\ to \in Seq(Symbol) /\ d \in Seq(Symbol) /\ s \in Nat /\ n \in Nat /\ n > 0
      /\ got.data \in Seq(Symbol) /\ Framed(d)
  BY <1>1 DEF SafetyInv, ServerTypeOK, EnvironmentTypeOK, LoopInv, Buffer
<1> DEFINE g == Len(got.data)
           l == Len(to)
<1>5. /\ Len(to') = l + n
      /\ \A j \in 1 .. l : to'[j] = to[j]
      /\ \A j \in 1 .. Len(to') : j > l => to'[j] = d[s + (j - l)]
  <2>1. /\ Len(to \o SubSeq(d, s + 1, s + n)) = l + n
        /\ \A j \in 1 .. l : (to \o SubSeq(d, s + 1, s + n))[j] = to[j]
        /\ \A j \in 1 .. Len(to \o SubSeq(d, s + 1, s + n)) :
             j > l => (to \o SubSeq(d, s + 1, s + n))[j] = d[s + (j - l)]
    <3> HIDE DEF d, s
    <3> QED
      BY <1>1, <1>4, WriteMore, SMT
  <2> QED
    BY <2>1, <1>1
<1>6. g \in Nat /\ l \in Nat /\ Len(d) \in Nat
  BY <1>4
<1> HIDE DEF d, s, g, l
<1>7. ASSUME NEW responses \in Seq(Seq(Word)), Responding(responses)
      PROVE  Busy'
  <2>1. /\ ~impatient => from = <<>>
        /\ s = g + l
        /\ Starts(d, got.data, to)
        /\ LaidOut(d, responses)
        /\ AllAnswered(responses)
        /\ is_connected <=> ConnectedAfter(responses, Len(responses))
    BY <1>7 DEF Responding, d, s, g, l
  <2>2. AllAnswered(responses)' /\ (is_connected' <=> ConnectedAfter(responses, Len(responses))')
    BY <2>1, <1>2, <1>3, AnsweredStays DEF ConnectedAfter
  <2>3. Starts(d, got.data, to')
    <3>1. ASSUME NEW j \in 1 .. Len(to'), g + j <= Len(d)
          PROVE  to'[j] = d[g + j]
      <4>1. CASE j <= l
        <5>1. j \in 1 .. l
          BY <4>1, <1>6
        <5>2. to[j] = d[g + j]
          BY <5>1, <3>1, <2>1 DEF Starts, g, l
        <5> QED
          BY <5>1, <5>2, <1>5
      <4>2. CASE ~(j <= l)
        <5>1. j \in Nat /\ j > l
          BY <4>2, <1>5, <1>6
        <5>2. s + (j - l) = g + j
          BY <5>1, <2>1, <1>6
        <5> QED
          BY <5>1, <5>2, <1>5
      <4> QED
        BY <4>1, <4>2
    <3> QED
      BY <3>1, <2>1 DEF Starts, g
  <2>4. CASE s + n = Len(d)
    <3>1. write' = EmptyBuffer
      BY <2>4, <1>1
    <3>2. g + Len(to') = Len(d) /\ g + Len(to') >= Len(d)
      <4>1. g + (l + n) = Len(d)
        BY <2>1, <2>4, <1>4, <1>6
      <4> QED
        BY <4>1, <1>5, <1>6
    <3>3. PICK b \in Seq(Symbol) : b = d
      BY <1>4
    <3>4. Responded(b, responses)'
      BY <3>1, <3>2, <3>3, <2>1, <2>2, <2>3, <1>1, <1>2, <1>3, <1>4 DEF Responded, g
    <3> QED
      BY <3>4, <1>3, <1>7 DEF Busy
  <2>5. CASE s + n # Len(d)
    <3>1. write' = [data |-> d, bol |-> s + n]
      BY <2>5, <1>1
    <3>2. s + n = g + Len(to')
      BY <2>1, <1>4, <1>5, <1>6
    <3>3. write' # EmptyBuffer
      BY <3>1, <1>4 DEF EmptyBuffer
    <3>4. write'.data = d /\ write'.bol = s + n
      BY <3>1
    <3>5. Responding(responses)'
      BY <3>2, <3>3, <3>4, <2>1, <2>2, <2>3, <1>1, <1>2, <1>3 DEF Responding, g
    <3> QED
      BY <3>5, <1>3, <1>7 DEF Busy
  <2> QED
    BY <2>4, <2>5
<1>8. ASSUME NEW b \in Seq(Symbol), NEW responses \in Seq(Seq(Word)), Responded(b, responses)
      PROVE  Busy'
  <2>1. /\ impatient
        /\ Framed(b) /\ Starts(b, got.data, to) /\ g + l >= Len(b) /\ LaidOut(b, responses)
        /\ AllAnswered(responses)
    BY <1>1, <1>8 DEF Responded, g, l
  <2>2. Len(b) \in Nat
    OBVIOUS
  <2>3. ASSUME NEW j \in 1 .. Len(to'), g + j <= Len(b)
        PROVE  to'[j] = b[g + j]
    <3>1. j \in 1 .. l
      BY <2>1, <2>2, <2>3, <1>5, <1>6
    <3> QED
      BY <3>1, <2>1, <2>3, <1>5 DEF Starts, g, l
  <2>4. Starts(b, got.data, to') /\ g + Len(to') >= Len(b)
    <3>1. g + (l + n) >= Len(b)
      BY <2>1, <2>2, <1>4, <1>6
    <3> QED
      BY <3>1, <2>1, <2>3, <1>5 DEF Starts, g
  <2>5. Responded(b, responses)'
    BY <2>1, <2>4, <1>3, AnsweredStays DEF Responded, g
  <2> QED
    BY <2>5, <1>3, <1>8 DEF Busy
<1>9. ~Asking /\ \A responses : ~Processing(responses)
  BY <1>1 DEF Asking, Processing
<1> QED
  BY <1>7, <1>8, <1>9 DEF Busy

\* The builder turns to the next block.
LEMMA TurnNextBlock ==
  ASSUME SafetyInv, Busy, PrepareForRequests, UNCHANGED env_vars
  PROVE  Busy'
<1>1. /\ direction = "WRITING" /\ write = EmptyBuffer
      /\ read' = EmptyBuffer /\ direction' = "READING"
      /\ UNCHANGED <<from, to, write, is_connected>>
  BY DEF PrepareForRequests
<1>2. UNCHANGED <<asked, got, turn, greeted, impatient>>
  BY DEF env_vars
<1>3. CASE Asking
  <2>1. read'.data = <<>>
    BY <1>1 DEF EmptyBuffer
  <2>2. /\ to = <<>> /\ got = EmptyBuffer /\ (is_connected <=> greeted)
        /\ Starts(Block(asked), <<>>, from)
        /\ Len(<<>>) + Len(from) >= Len(Block(asked))
        /\ ~impatient => Len(<<>>) + Len(from) = Len(Block(asked))
    BY <1>1, <1>3 DEF Asking
  <2>3. Asking'
    BY <2>1, <2>2, <1>1, <1>2 DEF Asking
  <2> QED
    BY <2>3, <1>2, <1>3 DEF Busy
<1>4. ASSUME NEW b \in Seq(Symbol), NEW responses \in Seq(Seq(Word)), Responded(b, responses)
      PROVE  Busy'
  <2>1. AllAnswered(responses)'
    BY <1>4, AnsweredStays DEF Responded
  <2>2. ConnectedAfter(responses, Len(responses))' <=> ConnectedAfter(responses, Len(responses))
    BY <1>2 DEF ConnectedAfter
  <2>3. Responded(b, responses)'
    BY <2>1, <2>2, <1>1, <1>2, <1>4 DEF Responded
  <2> QED
    BY <2>3, <1>2, <1>4 DEF Busy
<1>5. \A responses : ~Processing(responses) /\ ~Responding(responses)
  BY <1>1 DEF Processing, Responding
<1> QED
  BY <1>3, <1>4, <1>5 DEF Busy

-----------------------------------------------------------------------------
(* The compiler's steps.                                                   *)

\* A block is sent, into empty channels.
LEMMA TurnSend ==
  ASSUME SafetyInv, Idle, NEW lines \in Seq(Seq(Text)), lines # <<>>,
         LET last == lines[Len(lines)] IN last # <<>> => last[Len(last)] \notin Glued,
         NEW extra \in Seq(Seq(Text)), Send(lines, extra)
  PROVE  Busy' /\ turn' = "builder"
<1> DEFINE b == Block(lines)
           c == IF extra = <<>> THEN <<>> ELSE Block(extra)
<1>1. /\ asked' = lines /\ impatient' = (extra # <<>>)
      /\ got' = EmptyBuffer /\ turn' = "builder"
      /\ from' = b \o c
      /\ UNCHANGED <<to, read, write, direction, is_connected>>
  BY DEF Send, server_vars
<1>2. greeted' = (greeted \/ \E i \in DOMAIN Replies : IsHello(Replies[i]))
  BY DEF Send
<1>3. b \in Seq(Symbol) /\ Framed(b)
  BY BlockOfLines
<1>4. c \in Seq(Symbol)
  BY BlockOfLines, EmptySeq
<1>5. /\ to = <<>> /\ write = EmptyBuffer /\ direction # "PROCESSING"
      /\ direction = "READING" => read.data = <<>>
      /\ is_connected <=> ConnectedAfter(Replies, Len(Replies))
  BY DEF Send, Idle, EmptyBuffer
<1>6. is_connected' <=> greeted'
  <2>1. DOMAIN Replies = 1 .. Len(Replies)
    BY RepliesAreSequence
  <2> QED
    BY <2>1, <1>1, <1>2, <1>5, Zenon DEF ConnectedAfter
<1> HIDE DEF b, c
<1>7. /\ Len(from') = Len(b) + Len(c)
      /\ \A j \in 1 .. Len(b) : from'[j] = b[j]
  BY <1>1, <1>3, <1>4
<1>8. Starts(b, <<>>, from')
  <2>1. Len(b) \in Nat /\ Len(b) > 0
    BY <1>3 DEF Framed
  <2>2. \A j \in 1 .. Len(from') : Len(<<>>) + j <= Len(b) => from'[j] = b[Len(<<>>) + j]
    BY <2>1, <1>7
  <2> QED
    BY <2>1, <2>2 DEF Starts
<1>9. /\ Len(<<>>) + Len(from') >= Len(b)
      /\ ~impatient' => Len(<<>>) + Len(from') = Len(b)
  <2>1. Len(<<>>) = 0 /\ Len(b) \in Nat /\ Len(c) \in Nat
    BY <1>3, <1>4
  <2>2. ~impatient' => Len(c) = 0
    BY <2>1, <1>1 DEF c
  <2> QED
    BY <2>1, <2>2, <1>7
<1>10. Asking'
  <2>1. (IF direction' = "READING" THEN read'.data ELSE <<>>) = <<>>
    BY <1>1, <1>5
  <2>2. Block(asked)' = b
    BY <1>1 DEF b
  <2> QED
    BY <2>1, <2>2, <1>1, <1>5, <1>6, <1>8, <1>9 DEF Asking
<1>11. got'.bol = 0
  BY <1>1 DEF EmptyBuffer
<1>12. asked' # <<>> /\ LET last == asked'[Len(asked')] IN last # <<>> => last[Len(last)] \notin Glued
  BY <1>1
<1> QED
  BY <1>1, <1>10, <1>11, <1>12 DEF Busy

\* The answers are what the properties ask for.  They are looked at when they
\* have been received, so this is stated of the state after a step.
LEMMA AnswersAreRight ==
  ASSUME EnvironmentTypeOK', NEW responses \in Seq(Seq(Word)), AllAnswered(responses)',
         Replies' = responses
  PROVE  ResponsesCorrespond' /\ HandshakeFirstAndOnce'
<1>1. /\ Len(responses) = Len(asked')
      /\ \A i \in 1 .. Len(responses) :
           Answer(asked'[i], responses[i],
                  ConnectedAfter(responses, i - 1)', ConnectedAfter(responses, i)')
  BY DEF AllAnswered, Answered
<1>2. DOMAIN responses = 1 .. Len(responses)
  OBVIOUS
<1>3. ASSUME NEW i \in 1 .. Len(responses)
      PROVE  LET before == greeted' \/ \E j \in 1 .. i - 1 : IsHello(responses[j])
             IN  ~IsError(responses[i]) => (before # IsHello(responses[i]))
  <2>1. Answer(asked'[i], responses[i], ConnectedAfter(responses, i - 1)',
               ConnectedAfter(responses, i)')
    BY <1>1
  <2>2. ~IsError(responses[i]) => (~(ConnectedAfter(responses, i - 1)') <=> IsHello(responses[i]))
    BY <2>1, Zenon DEF Answer
  <2> QED
    BY <2>2, Zenon DEF ConnectedAfter
<1>4. ASSUME NEW i \in 1 .. Len(responses)
      PROVE  \/ IsError(responses[i])
             \/ /\ responses[i] # <<>>
                /\ asked'[i] # <<>>
                /\ responses[i][1] \in ResponseVerbs(CodeOf(asked'[i][1]))
  <2>1. Answer(asked'[i], responses[i], ConnectedAfter(responses, i - 1)',
               ConnectedAfter(responses, i)')
    BY <1>1
  <2> QED
    BY <2>1, Zenon DEF Answer
<1>5. HandshakeFirstAndOnce'
  BY <1>2, <1>3, Zenon DEF HandshakeFirstAndOnce
<1>6. ResponsesCorrespond'
  <2>1. DOMAIN asked' = 1 .. Len(responses)
    BY <1>1 DEF EnvironmentTypeOK
  <2> QED
    BY <2>1, <1>1, <1>4, Zenon DEF ResponsesCorrespond
<1> QED
  BY <1>5, <1>6

\* The responses arrive, in pieces, and with the last of them the turn ends.
LEMMA TurnReceive ==
  ASSUME SafetyInv, SafetyInv', Busy, NEW n \in 1 .. PipeCapacity, Receive(n)
  PROVE  /\ turn' \in Turn /\ impatient' = impatient
         /\ turn' = "builder" => Busy'
         /\ turn' = "compiler" =>
              /\ ~impatient => Idle'
              /\ ResponsesCorrespond' /\ HandshakeFirstAndOnce'
<1> DEFINE chunk == SubSeq(to, 1, n)
           r     == ReadSome(got, chunk)
           g     == Len(got.data)
           l     == Len(to)
<1>1. /\ n <= l
      /\ to' = SubSeq(to, n + 1, Len(to))
      /\ got' = r.buffer
      /\ turn' = IF r.err = "EAGAIN" THEN "builder" ELSE "compiler"
      /\ UNCHANGED <<from, peer_open, read, write, direction, is_connected, asked, greeted, impatient>>
  BY DEF Receive, server_vars
<1>2. to \in Seq(Symbol) /\ got \in Buffer /\ got.bol = 0
  BY DEF SafetyInv, ServerTypeOK, EnvironmentTypeOK, Busy
<1>3. g \in Nat /\ l \in Nat /\ n \in Nat /\ n > 0 /\ n \in 1 .. l /\ n \in 0 .. l
  BY <1>1, <1>2 DEF Buffer
<1>4. Len(to') = l - n /\ to' \in Seq(Symbol)
  BY <1>1, <1>2, <1>3, ChannelPieces
<1>5. turn' \in Turn
  BY <1>1 DEF Turn
<1>6. EnvironmentTypeOK'
  BY DEF SafetyInv
\* What a piece of a block is read as.
<1>7. ASSUME NEW d \in Seq(Symbol), Framed(d), Starts(d, got.data, to)
      PROVE  IF g + n < Len(d)
             THEN /\ turn' = "builder"
                  /\ got'.bol = 0 /\ Len(got'.data) = g + n
                  /\ Starts(d, got'.data, to')
             ELSE /\ turn' = "compiler"
                  /\ got'.data = d
  <2>1. LET c == SubSeq(to, 1, n)
            s == ReadSome(got, c)
        IN  IF Len(got.data) + n < Len(d)
            THEN /\ s.err = "EAGAIN"
                 /\ s.buffer = [data |-> got.data \o c, bol |-> got.bol]
                 /\ Len(got.data \o c) = Len(got.data) + n
                 /\ Starts(d, got.data \o c, SubSeq(to, n + 1, Len(to)))
            ELSE /\ s.err # "EAGAIN"
                 /\ s.buffer = [data |-> d, bol |-> got.bol]
    <3>1. got \in Buffer /\ to \in Seq(Symbol) /\ n \in 1 .. Len(to)
      BY <1>2, <1>3
    <3> QED
      BY <3>1, <1>7, ReadSomeStarts, Zenon
  <2> HIDE DEF chunk, r
  <2>2. CASE g + n < Len(d)
    <3>1. /\ r.err = "EAGAIN"
          /\ r.buffer = [data |-> got.data \o chunk, bol |-> got.bol]
          /\ Len(got.data \o chunk) = g + n
          /\ Starts(d, got.data \o chunk, to')
      BY <2>1, <2>2, <1>1 DEF r, chunk
    <3>2. got'.data = got.data \o chunk /\ got'.bol = 0
      BY <3>1, <1>1, <1>2
    <3> QED
      BY <2>2, <3>1, <3>2, <1>1
  <2>3. CASE ~(g + n < Len(d))
    <3>1. r.err # "EAGAIN" /\ r.buffer = [data |-> d, bol |-> got.bol]
      BY <2>1, <2>3 DEF r, chunk
    <3> QED
      BY <2>3, <3>1, <1>1
  <2> QED
    BY <2>2, <2>3
<1> HIDE DEF chunk, r, g, l
<1>8. ASSUME NEW responses \in Seq(Seq(Word)), Responding(responses)
      PROVE  turn' = "builder" /\ Busy'
  <2> DEFINE d == write.data
  <2>1. /\ direction = "WRITING" /\ write # EmptyBuffer
        /\ ~impatient => from = <<>>
        /\ write.bol = g + l
        /\ Starts(d, got.data, to)
        /\ LaidOut(d, responses) /\ AllAnswered(responses)
        /\ is_connected <=> ConnectedAfter(responses, Len(responses))
    BY <1>8 DEF Responding, g, l
  <2>2. Framed(d) /\ write.bol < Len(d) /\ d \in Seq(Symbol)
    BY <2>1 DEF SafetyInv, ServerTypeOK, LoopInv, Buffer
  <2>3. g + n < Len(d)
    BY <2>1, <2>2, <1>1, <1>3
  <2>4. turn' = "builder" /\ got'.bol = 0 /\ Len(got'.data) = g + n /\ Starts(d, got'.data, to')
    BY <2>1, <2>2, <2>3, <1>7
  <2>5. write'.bol = Len(got'.data) + Len(to')
    <3>1. g + l = (g + n) + (l - n)
      BY <1>3
    <3> QED
      BY <3>1, <2>1, <2>4, <1>1, <1>4
  <2>6. AllAnswered(responses)' /\ (is_connected' <=> ConnectedAfter(responses, Len(responses))')
    BY <2>1, <1>1 DEF AllAnswered, Answered, ConnectedAfter
  <2>7. Responding(responses)'
    BY <2>1, <2>4, <2>5, <2>6, <1>1 DEF Responding
  <2> QED
    BY <2>4, <2>7, <1>1, <1>8 DEF Busy
<1>9. ASSUME NEW b \in Seq(Symbol), NEW responses \in Seq(Seq(Word)), Responded(b, responses)
      PROVE  /\ turn' = "builder" => Busy'
             /\ turn' = "compiler" =>
                  /\ ~impatient => Idle'
                  /\ ResponsesCorrespond' /\ HandshakeFirstAndOnce'
  <2>1. /\ Framed(b) /\ Starts(b, got.data, to) /\ LaidOut(b, responses)
        /\ g + l >= Len(b) /\ AllAnswered(responses)
        /\ ~impatient =>
             /\ g + l = Len(b)
             /\ from = <<>> /\ write = EmptyBuffer
             /\ direction # "PROCESSING"
             /\ direction = "READING" => read = EmptyBuffer
             /\ is_connected <=> ConnectedAfter(responses, Len(responses))
    BY <1>9 DEF Responded, g, l
  <2>2. /\ AllAnswered(responses)'
        /\ ConnectedAfter(responses, Len(responses))' <=> ConnectedAfter(responses, Len(responses))
    BY <2>1, <1>1 DEF AllAnswered, Answered, ConnectedAfter
  <2>3. Len(b) \in Nat
    OBVIOUS
  <2>4. CASE g + n < Len(b)
    <3>1. turn' = "builder" /\ got'.bol = 0 /\ Len(got'.data) = g + n /\ Starts(b, got'.data, to')
      BY <2>1, <2>4, <1>7
    <3>2. Len(got'.data) + Len(to') = g + l
      BY <3>1, <1>3, <1>4
    <3>3. Responded(b, responses)'
      BY <3>1, <3>2, <2>1, <2>2, <1>1 DEF Responded
    <3> QED
      BY <3>1, <3>3, <1>1, <1>9 DEF Busy
  <2>5. CASE ~(g + n < Len(b))
    <3>1. turn' = "compiler" /\ got'.data = b
      BY <2>1, <2>5, <1>7
    <3>2. Replies' = responses
      <4>1. responses \in Seq(Seq(Text))
        BY DEF Text
      <4>2. LinesOf(b) = responses
        BY <4>1, <2>1, LinesOfLayout
      <4> QED
        BY <4>2, <3>1 DEF Replies
    <3>3. ResponsesCorrespond' /\ HandshakeFirstAndOnce'
      BY <3>2, <2>2, <1>6, AnswersAreRight
    <3>4. ASSUME ~impatient PROVE Idle'
      <4>1. l - n = 0
        BY <3>4, <2>1, <2>3, <2>5, <1>3
      <4>2. to' = <<>>
        BY <4>1, <1>4
      <4>3. is_connected' <=> ConnectedAfter(Replies, Len(Replies))'
        BY <3>2, <3>4, <2>1, <1>1 DEF ConnectedAfter
      <4>4. direction # "WRITING" => read = EmptyBuffer
        BY <3>4, <2>1 DEF SafetyInv, ServerTypeOK, Direction
      <4> QED
        BY <4>2, <4>3, <4>4, <3>4, <2>1, <1>1 DEF Idle
    <3> QED
      BY <3>1, <3>3, <3>4
  <2> QED
    BY <2>4, <2>5
<1>10. to # <<>>
  BY <1>3 DEF l
<1>11. ~Asking /\ \A responses : ~Processing(responses)
  BY <1>10 DEF Asking, Processing
<1> QED
  BY <1>1, <1>5, <1>8, <1>9, <1>11 DEF Busy


-----------------------------------------------------------------------------
(* The invariant is inductive.                                             *)

LEMMA InitTurn ==
  ASSUME Init
  PROVE  TurnInv
<1>1. /\ from = <<>> /\ to = <<>> /\ read = EmptyBuffer /\ write = EmptyBuffer
      /\ is_connected = FALSE /\ direction = "READING"
      /\ asked = <<>> /\ got = EmptyBuffer /\ turn = "compiler" /\ greeted = FALSE
  BY DEF Init, ServerInit
<1>2. Replies = <<>>
  <2> DEFINE d == <<>>
             at == [i \in 1 .. 1 |-> 0]
  <2>1. got.data = d /\ d \in Seq(Symbol) /\ d \in Seq(Seq(Text)) /\ Len(d) = 0
    BY <1>1 DEF EmptyBuffer
  <2>2. at \in [1 .. Len(d) + 1 -> 0 .. Len(d)]
    BY <2>1
  <2>3. Layout(d, d, at)
    BY <2>1 DEF Layout
  <2>4. LaidOut(d, d)
    BY <2>2, <2>3 DEF LaidOut
  <2> HIDE DEF d
  <2>5. LinesOf(d) = d
    BY <2>1, <2>4, LinesOfLayout
  <2> QED
    BY <2>1, <2>5 DEF Replies, d
<1>3. Idle
  <2>1. Len(Replies) = 0
    BY <1>2
  <2>2. ~ConnectedAfter(Replies, Len(Replies))
    BY <1>1, <2>1 DEF ConnectedAfter
  <2> QED
    BY <2>2, <1>1 DEF Idle
<1>4. ResponsesCorrespond /\ HandshakeFirstAndOnce
  BY <1>1 DEF ResponsesCorrespond, HandshakeFirstAndOnce, Received
<1>5. turn # "builder"
  BY <1>1
<1> QED
  BY <1>3, <1>4, <1>5 DEF TurnInv

\* Between blocks the builder waits for the next.  When the compiler goes
\* instead, it finds no line to process, and nobody to write to.
LEMMA IdleStays ==
  ASSUME SafetyInv, Idle, ServerStep
  PROVE  Idle'
<1>1. UNCHANGED env_vars /\ UNCHANGED <<got, greeted>>
  BY DEF ServerStep, env_vars
<1>2. /\ from = <<>> /\ to = <<>>
      /\ direction # "WRITING" => read = EmptyBuffer
      /\ peer_open => write = EmptyBuffer /\ direction # "PROCESSING"
  BY DEF Idle
<1>3. direction = "PROCESSING" => IsAtEnd(read)
  <2>1. Len(EmptyBuffer.data) = EmptyBuffer.bol
    BY DEF EmptyBuffer
  <2> QED
    BY <2>1, <1>2 DEF IsAtEnd
<1>4. ~SomeRead
  BY <1>2 DEF SomeRead
<1>5. ~ProcessLine /\ ~Abort
  <2>1. ProcessLine => ~IsAtEnd(read)
    BY Zenon DEF ProcessLine, ProcessUnrecognized, ProcessConnect, RejectConnect, ProcessRequest,
                 RejectRequest, Selects
  <2> QED
    BY <2>1, <1>3, LineAnswered DEF Abort
<1>6. ~SomeWrite
  <2> SUFFICES ASSUME NEW n \in 1 .. PipeCapacity, WriteStep(n, PipeCapacity) PROVE FALSE
    BY DEF SomeWrite
  <2>1. write # EmptyBuffer
    BY <1>1, WriteSafety
  <2> QED
    BY <2>1, <1>2 DEF WriteStep
<1>7. ReadFails \/ PrepareResponses \/ WriteError \/ PrepareForRequests
  BY <1>4, <1>5, <1>6 DEF ServerStep
<1>8. /\ from' = <<>> /\ to' = <<>> /\ UNCHANGED <<peer_open, is_connected>>
      /\ direction' # "WRITING" => read' = EmptyBuffer
      /\ peer_open' => write' = EmptyBuffer /\ direction' # "PROCESSING"
  BY <1>2, <1>7 DEF ReadFails, PrepareResponses, WriteError, PrepareForRequests
<1>9. (is_connected <=> ConnectedAfter(Replies, Len(Replies)))' <=>
        (is_connected <=> ConnectedAfter(Replies, Len(Replies)))
  BY <1>1, <1>8 DEF ConnectedAfter, Replies
<1> QED
  BY <1>8, <1>9 DEF Idle

\* The builder goes on with a turn.
LEMMA BusyStays ==
  ASSUME SafetyInv, resolver \in Contract, Busy, peer_open, ServerStep
  PROVE  Busy'
<1>1. UNCHANGED env_vars
  BY DEF ServerStep
<1>2. ~ReadFails /\ ~WriteError /\ ~Abort
  <2>1. direction = "PROCESSING" => Lexable(read)
    BY DEF SafetyInv, LoopInv, Ended, EndsBlock, Cut, Lexable, Last
  <2> QED
    BY <2>1 DEF ReadFails, WriteError, Abort
<1>3. CASE SomeRead
  BY <1>1, <1>3, TurnRead DEF SomeRead
<1>4. CASE ProcessLine
  BY <1>1, <1>4, TurnLine
<1>5. CASE PrepareResponses
  BY <1>1, <1>5, TurnPrepare
<1>6. CASE SomeWrite
  BY <1>1, <1>6, TurnWrite DEF SomeWrite
<1>7. CASE PrepareForRequests
  BY <1>1, <1>7, TurnNextBlock
<1> QED
  BY <1>2, <1>3, <1>4, <1>5, <1>6, <1>7 DEF ServerStep

LEMMA NextTurn ==
  ASSUME SafetyInv, SafetyInv', CountInv, TurnInv, [Next]_vars
  PROVE  TurnInv'
<1>1. /\ turn = "compiler" /\ ~impatient => Idle
      /\ turn = "builder" /\ peer_open => Busy
      /\ ResponsesCorrespond /\ HandshakeFirstAndOnce
  BY DEF TurnInv
<1>2. resolver \in Contract
  BY DEF CountInv
\* What has been received does not change.
<1>3. UNCHANGED <<asked, got, turn, greeted>> => ResponsesCorrespond' /\ HandshakeFirstAndOnce'
  BY <1>1 DEF ResponsesCorrespond, HandshakeFirstAndOnce, Received, Replies
<1>4. CASE ServerStep
  <2>1. UNCHANGED <<asked, got, turn, greeted, impatient>>
    BY <1>4 DEF ServerStep, env_vars
  <2>2. UNCHANGED peer_open
    BY <1>4, LineAnswered
       DEF ServerStep, SomeRead, ReadStep, ReadFails, Abort, PrepareResponses, SomeWrite, WriteStep,
           WriteError, PrepareForRequests
  <2>3. turn' = "compiler" /\ ~impatient' => Idle'
    BY <2>1, <1>1, <1>4, IdleStays
  <2>4. turn' = "builder" /\ peer_open' => Busy'
    BY <2>1, <2>2, <1>1, <1>2, <1>4, BusyStays
  <2> QED
    BY <2>1, <2>3, <2>4, <1>3 DEF TurnInv
<1>5. ASSUME NEW lines \in Seq(Seq(Text)), lines # <<>>,
             LET last == lines[Len(lines)] IN last # <<>> => last[Len(last)] \notin Glued,
             NEW extra \in Seq(Seq(Text)), Send(lines, extra)
      PROVE  TurnInv'
  <2>1. turn = "compiler" /\ ~impatient
    BY <1>5 DEF Send
  <2>2. Idle
    BY <2>1, <1>1
  <2>3. Busy' /\ turn' = "builder"
    BY <2>2, <1>5, TurnSend
  <2>4. ResponsesCorrespond' /\ HandshakeFirstAndOnce'
    BY <2>3 DEF ResponsesCorrespond, HandshakeFirstAndOnce, Received
  <2> QED
    BY <2>3, <2>4 DEF TurnInv
<1>6. ASSUME NEW lines \in Blocks, Send(lines, <<>>) PROVE TurnInv'
  <2>1. lines \in Seq(Seq(Text)) /\ lines # <<>> /\ \A i \in 1 .. Len(lines) : lines[i] \in CompilerLines
    BY CompilerBlocks
  <2>2. lines[Len(lines)] \in CompilerLines
    BY <2>1
  <2>3. LET last == lines[Len(lines)] IN last # <<>> => last[Len(last)] \notin Glued
    BY <2>2, LinesAssumption
  <2>4. <<>> \in Seq(Seq(Text))
    BY EmptySeq
  <2> QED
    BY <2>1, <2>3, <2>4, <1>5, <1>6
<1>7. ASSUME NEW line \in CompilerLines, NEW extra \in ExtraLines, Send(<<line>>, <<extra>>)
      PROVE  TurnInv'
  <2> DEFINE lines == <<line>>
  <2>1. lines \in Seq(Seq(Text)) /\ lines # <<>> /\ <<extra>> \in Seq(Seq(Text))
    BY CompilerBlocks
  <2>2. lines[Len(lines)] = line
    OBVIOUS
  <2>3. LET last == lines[Len(lines)] IN last # <<>> => last[Len(last)] \notin Glued
    BY <2>2, LinesAssumption
  <2> HIDE DEF lines
  <2>4. Send(lines, <<extra>>)
    BY <1>7 DEF lines
  <2> QED
    BY <2>1, <2>3, <2>4, <1>5
<1>8. ASSUME NEW n \in 1 .. PipeCapacity, Receive(n) PROVE TurnInv'
  <2>1. Busy
    BY <1>1, <1>8 DEF Receive
  <2>2. /\ turn' \in Turn /\ impatient' = impatient
        /\ turn' = "builder" => Busy'
        /\ turn' = "compiler" =>
             /\ ~impatient => Idle'
             /\ ResponsesCorrespond' /\ HandshakeFirstAndOnce'
    BY <2>1, <1>8, TurnReceive
  <2>3. turn' = "builder" => ResponsesCorrespond' /\ HandshakeFirstAndOnce'
    BY DEF ResponsesCorrespond, HandshakeFirstAndOnce, Received
  <2> QED
    BY <2>2, <2>3 DEF TurnInv, Turn
<1>9. CASE Leave
  <2>1. /\ peer_open' = FALSE
        /\ UNCHANGED <<to, read, write, direction, is_connected>>
        /\ UNCHANGED <<asked, got, turn, greeted, impatient>>
    BY <1>9 DEF Leave, server_vars, env_vars
  <2>2. ASSUME turn' = "compiler", ~impatient' PROVE Idle'
    <3>1. Idle
      BY <2>1, <2>2, <1>1
    <3>2. from' = <<>>
      <4>1. PICK n \in 0 .. Len(from) : from' = SubSeq(from, 1, n)
        BY <1>9 DEF Leave
      <4>2. from = <<>> /\ from \in Seq(Symbol)
        BY <3>1 DEF Idle, SafetyInv, ServerTypeOK
      <4>3. Len(from') = n /\ from' \in Seq(Symbol)
        BY <4>1, <4>2, ChannelPieces
      <4>4. n = 0
        BY <4>2
      <4> QED
        BY <4>3, <4>4
    <3> QED
      BY <3>1, <3>2, <2>1 DEF Idle, ConnectedAfter, Replies
  <2> QED
    BY <2>1, <2>2, <1>3 DEF TurnInv
<1>10. CASE UNCHANGED vars
  <2>1. /\ UNCHANGED <<asked, got, turn, greeted, impatient>>
        /\ UNCHANGED <<from, to, peer_open, read, write, resolver, is_connected, direction>>
    BY <1>10 DEF vars, server_vars, env_vars
  <2>2. Idle => Idle'
    BY <2>1 DEF Idle, ConnectedAfter, Replies
  <2>3. Asking => Asking'
    BY <2>1 DEF Asking
  <2>4. ASSUME NEW responses \in Seq(Seq(Word))
        PROVE  /\ Processing(responses) => Processing(responses)'
               /\ Responding(responses) => Responding(responses)'
               /\ \A block \in Seq(Symbol) :
                    Responded(block, responses) => Responded(block, responses)'
    <3>1. Answered(responses) => Answered(responses)'
      BY <2>1 DEF Answered, ConnectedAfter
    <3>2. AllAnswered(responses) => AllAnswered(responses)'
      BY <2>1, <3>1 DEF AllAnswered
    <3>3. Processing(responses) => Processing(responses)'
      BY <2>1, <3>1 DEF Processing, ConnectedAfter
    <3>4. Responding(responses) => Responding(responses)'
      BY <2>1, <3>2 DEF Responding, ConnectedAfter
    <3>5. ASSUME NEW block \in Seq(Symbol), Responded(block, responses)
          PROVE  Responded(block, responses)'
      BY <2>1, <3>2, <3>5 DEF Responded, ConnectedAfter
    <3> QED
      BY <3>3, <3>4, <3>5
  <2>5. Busy => Busy'
    BY <2>1, <2>3, <2>4 DEF Busy
  <2> QED
    BY <1>1, <1>3, <2>1, <2>2, <2>5 DEF TurnInv
<1> QED
  BY <1>4, <1>6, <1>7, <1>8, <1>9, <1>10 DEF Next, CompilerStep, SomeReceive

\* Where the request block and its responses are, always.
LEMMA TurnInvariantHolds ==
  ASSUME InitialResolver \subseteq Contract
  PROVE  Spec => [](SafetyInv /\ CountInv /\ TurnInv)
<1>1. Init => SafetyInv /\ CountInv /\ TurnInv
  BY InitSafety, InitTurn DEF CountInv, Init, ServerInit
<1>2. SafetyInv /\ CountInv /\ TurnInv /\ [Next]_vars => (SafetyInv /\ CountInv /\ TurnInv)'
  BY NextSafety, NextCount, NextTurn
<1> QED
  BY <1>1, <1>2, PTL DEF Spec

\* "In corresponding order": when the compiler has the response block, its
\* i-th line answers the i-th line of the request block.
THEOREM ResponsesDoCorrespond ==
  ASSUME InitialResolver \subseteq Contract
  PROVE  Spec => []ResponsesCorrespond
<1>1. TurnInv => ResponsesCorrespond
  BY DEF TurnInv
<1> QED
  BY <1>1, TurnInvariantHolds, PTL

\* Nothing is granted before the handshake, and there is only one.
THEOREM HandshakeIsFirstAndOnce ==
  ASSUME InitialResolver \subseteq Contract
  PROVE  Spec => []HandshakeFirstAndOnce
<1>1. TurnInv => HandshakeFirstAndOnce
  BY DEF TurnInv
<1> QED
  BY <1>1, TurnInvariantHolds, PTL

\* At the end of a turn the two ends agree on whether they are connected.
THEOREM BothAgreeOnConnection ==
  ASSUME InitialResolver \subseteq Contract
  PROVE  Spec => []AgreeOnConnection
<1>1. SafetyInv /\ TurnInv => AgreeOnConnection
  <2> SUFFICES ASSUME SafetyInv, TurnInv, Received, ~impatient
               PROVE  is_connected <=> greeted \/ \E i \in DOMAIN Replies : IsHello(Replies[i])
    BY DEF AgreeOnConnection
  <2>1. is_connected <=> ConnectedAfter(Replies, Len(Replies))
    BY DEF TurnInv, Received, Idle
  <2>2. DOMAIN Replies = 1 .. Len(Replies)
    BY RepliesAreSequence
  <2> QED
    BY <2>1, <2>2, Zenon DEF ConnectedAfter
<1> QED
  BY <1>1, TurnInvariantHolds, PTL

\* The builder does not go while its compiler is there: only a failing write
\* makes it go, and half a line.
LEMMA BuilderStays == Spec => [](peer_open => open)
<1> DEFINE Stays == peer_open => open
<1>1. Init => Stays
  BY DEF Init, ServerInit
<1>2. SafetyInv /\ Stays /\ [Next]_vars => Stays'
  <2> SUFFICES ASSUME SafetyInv, Stays, [Next]_vars PROVE Stays'
    OBVIOUS
  <2>1. CASE ServerStep
    <3>2. direction = "PROCESSING" /\ peer_open => Lexable(read)
      BY DEF SafetyInv, LoopInv, Ended, EndsBlock, Cut, Lexable, Last
    <3>1. UNCHANGED peer_open /\ (peer_open => UNCHANGED open)
      BY <2>1, <3>2, LineAnswered
         DEF ServerStep, SomeRead, ReadStep, ReadFails, Abort, PrepareResponses, SomeWrite, WriteStep,
             WriteError, PrepareForRequests
    <3> QED
      BY <3>1
  <2>2. CASE CompilerStep
    BY <2>2 DEF CompilerStep, Send, SomeReceive, Receive, Leave, server_vars
  <2>3. CASE UNCHANGED vars
    BY <2>3 DEF vars, server_vars
  <2> QED
    BY <2>1, <2>2, <2>3 DEF Next
<1> QED
  BY <1>1, <1>2, SafetyInvariantHolds, PTL DEF Spec

\* A compiler with nothing to read waits for a builder that can go on, with
\* what it was sent or what it has to say.
THEOREM CompilerNeverWaitsInVain ==
  ASSUME InitialResolver \subseteq Contract
  PROVE  Spec => []NeverWaitsInVain
<1>1. SafetyInv /\ TurnInv /\ (peer_open => open) => NeverWaitsInVain
  <2> SUFFICES ASSUME SafetyInv, TurnInv, open, turn = "builder", peer_open, to = <<>>
               PROVE  \/ direction = "PROCESSING"
                      \/ direction = "WRITING" /\ Unwritten(write) # <<>>
                      \/ write = EmptyBuffer /\ from # <<>>
    BY DEF NeverWaitsInVain
  <2>1. /\ Busy /\ LoopInv
        /\ write \in Buffer
        /\ read.data \in Seq(Symbol) /\ got.data \in Seq(Symbol)
    BY DEF TurnInv, SafetyInv, ServerTypeOK, EnvironmentTypeOK, Buffer
  <2>2. Len(<<>>) = 0
    OBVIOUS
  <2>3. CASE Asking
    <3> DEFINE arrived == IF direction = "READING" THEN read.data ELSE <<>>
               block   == Block(asked)
    <3>1. Len(arrived) < Len(block) /\ Len(arrived) + Len(from) >= Len(block) /\ write = EmptyBuffer
      BY <2>3 DEF Asking, Starts
    <3>2. Len(arrived) \in Nat /\ Len(block) \in Nat
      BY <2>1, BlockAsked
    <3> HIDE DEF arrived, block
    <3>3. from # <<>>
      BY <2>2, <3>1, <3>2
    <3> QED
      BY <3>1, <3>3
  <2>4. ASSUME NEW responses \in Seq(Seq(Word)), Processing(responses)
        PROVE  direction = "PROCESSING"
    BY <2>4 DEF Processing
  <2>5. ASSUME NEW responses \in Seq(Seq(Word)), Responding(responses)
        PROVE  direction = "WRITING" /\ Unwritten(write) # <<>>
    <3>1. direction = "WRITING" /\ write.bol < Len(write.data)
      BY <2>1, <2>5 DEF Responding, LoopInv
    <3> QED
      BY <2>1, <3>1, SomeUnwritten
  <2>6. ASSUME NEW block \in Seq(Symbol), NEW responses \in Seq(Seq(Word)),
               Responded(block, responses)
        PROVE  FALSE
    <3>1. Len(got.data) < Len(block) /\ Len(got.data) + Len(to) >= Len(block)
      BY <2>6 DEF Responded, Starts
    <3> QED
      BY <2>1, <2>2, <3>1
  <2> QED
    BY <2>1, <2>3, <2>4, <2>5, <2>6 DEF Busy
<1> QED
  BY <1>1, TurnInvariantHolds, BuilderStays, PTL
================================================================================
