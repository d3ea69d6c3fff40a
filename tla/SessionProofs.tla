--------------------------- MODULE SessionProofs ---------------------------
(***************************************************************************)
(* Proofs about a session, for every alphabet, every length of a batch and *)
(* every capacity of the channels, over channels and directly: the ends    *)
(* take turns, nothing is left between calls, and a compiler gets what the *)
(* abstract protocol promises.                                             *)
(*                                                                         *)
(* The argument goes around with one batch, as the ones about each end do: *)
(* where the call is tells which end has the turn, where the block is that *)
(* it sends or reads, and which lines lie in it.  That lasts as long as    *)
(* the compiler is there.  What it leaves may end anywhere, and then the   *)
(* builder lexes half a batch, so that less is known of its buffers.       *)
(***************************************************************************)
EXTENDS Session, ProtocolProofs

-----------------------------------------------------------------------------
(* The inductive invariant.                                                *)

\* The resolvers that keep to the interface.
Contract == {"default", "derived"}

\* The codes of the requests that a corked client has queued.
Queue == IF corked = <<>> THEN <<>> ELSE Tail(corked)

Hello(line) == line[1] = "HELLO"

\* The connection, after the first k responses of a block.
ConnectedAfter(before, responses, k) == before \/ \E j \in 1 .. k : Hello(responses[j])

\* What a request is answered when all is well.
Successes(code) ==
  CASE code = RC_CONNECT -> {ConnectResponse("default")}
    [] code \in {RC_MODULE_REPO, RC_MODULE_EXPORT, RC_MODULE_IMPORT} ->
         {PathnameResponse(cmi) : cmi \in Word}
    [] code \in {RC_MODULE_COMPILED, RC_INVOKE} -> {OKResponse}
    [] code = RC_INCLUDE_TRANSLATE ->
         {PathnameResponse(cmi) : cmi \in Word} \cup {BoolResponse(truth) : truth \in BOOLEAN}

\* What it may be answered, before or after the handshake.
Answer(code, line, before) ==
  \/ \E error \in ErrorText : line = ErrorResponse(error)
  \/ /\ before # (code = RC_CONNECT)
     /\ line \in Successes(code)

\* The responses to the first requests of the batch.
Answered(responses, before) ==
  /\ responses \in Seq(Seq(Word) \ {<<>>})
  /\ Len(responses) <= Len(asked)
  /\ \A i \in 1 .. Len(responses) :
       Answer(asked[i], responses[i], ConnectedAfter(before, responses, i - 1))

AllAnswered(responses, before) ==
  Answered(responses, before) /\ Len(responses) = Len(asked)

\* What a packet tells of a response.
Tells(packet, code, line) ==
  /\ IF line[1] = "ERROR" THEN packet.code = "PC_ERROR" /\ packet.value \in ErrorText
     ELSE packet.code \in PacketFor(code)
  /\ packet.code = "PC_CONNECT" <=> Hello(line)

\* The server has nothing to do.
ServerRests ==
  /\ swrite = EmptyBuffer
  /\ direction = "READING" => sread = EmptyBuffer
  /\ ~is_direct => direction # "PROCESSING"

\* What the server has read of the requests.
Heard == IF direction = "READING" THEN sread.data ELSE <<>>

\* The server has not all of them.
Hearing ==
  /\ direction # "PROCESSING"
  /\ direction = "READING" => sread.bol = 0

\* A block of the requests of this batch.
Asks(block) ==
  /\ Framed(block)
  /\ \E lines \in Seq(Seq(Word)) : Requests(lines, asked) /\ LaidOut(block, lines)

\* No call communicates.
Idle ==
  /\ pending = <<>>
  /\ s2c = <<>>
  /\ Queue \in Seq(RequestCode)
  /\ \E lines \in Seq(Seq(Word)) : Requests(lines, Queue) /\ Told(cwrite, lines)
  /\ c_connected => s_connected
  /\ builder_open => /\ c2s = <<>>
                     /\ ServerRests
                     /\ IsAtEnd(cread)
                     /\ s_connected => c_connected

\* A call waits for its responses.
Asked == pending = asked /\ asked # <<>> /\ packets = <<>>

\* The requests are on their way to the server, which has read some.
Asking == Asked /\ cread = EmptyBuffer /\ s2c = <<>>

\* They are not all written yet.
Writing ==
  /\ Asking
  /\ Asks(cwrite.data)
  /\ cwrite.bol < Len(cwrite.data)
  /\ is_direct => cwrite.bol = 0
  /\ c_connected => s_connected
  /\ builder_open =>
       /\ swrite = EmptyBuffer
       /\ s_connected => c_connected
       /\ ~is_direct =>
            /\ Hearing
            /\ cwrite.bol = Len(Heard) + Len(c2s)
            /\ Starts(cwrite.data, Heard, c2s)

\* They are, and the server has not read all of them.
Waiting(block) ==
  /\ ~is_direct
  /\ Asking
  /\ Asks(block)
  /\ cwrite = EmptyBuffer
  /\ swrite = EmptyBuffer
  /\ Hearing
  /\ Len(block) = Len(Heard) + Len(c2s)
  /\ Starts(block, Heard, c2s)
  /\ s_connected <=> c_connected

\* The server goes through them.
Processing(responses) ==
  /\ Asking
  /\ cwrite = EmptyBuffer
  /\ c2s = <<>>
  /\ direction = "PROCESSING"
  /\ \E lines \in Seq(Seq(Word)) :
       /\ Requests(lines, asked)
       /\ \E at \in [1 .. Len(lines) + 1 -> 0 .. Len(sread.data)] :
            Layout(sread.data, lines, at) /\ sread.bol = at[Len(responses) + 1]
  /\ Answered(responses, c_connected)
  /\ Told(swrite, responses)
  /\ s_connected <=> ConnectedAfter(c_connected, responses, Len(responses))

\* The responses are on their way to the client, which has read some.
Responded(block, responses) ==
  /\ ~is_direct
  /\ Asked
  /\ cwrite = EmptyBuffer
  /\ c2s = <<>>
  /\ cread.bol = 0
  /\ Framed(block)
  /\ LaidOut(block, responses)
  /\ AllAnswered(responses, c_connected)
  /\ Starts(block, cread.data, s2c)
  /\ Len(cread.data) + Len(s2c) <= Len(block)
  /\ s_connected <=> ConnectedAfter(c_connected, responses, Len(responses))
  /\ builder_open =>
       \/ /\ ServerRests
          /\ Len(cread.data) + Len(s2c) = Len(block)
       \/ /\ direction = "WRITING"
          /\ swrite.data = block
          /\ swrite.bol = Len(cread.data) + Len(s2c)
          /\ swrite.bol < Len(block)

\* The client makes packets of them.
Parsing(responses, before) ==
  LET k == Len(packets) IN
  /\ k < Len(asked)
  /\ pending = SubSeq(asked, k + 1, Len(asked))
  /\ cwrite = EmptyBuffer
  /\ s2c = <<>>
  /\ AllAnswered(responses, before)
  /\ \E at \in [1 .. Len(responses) + 1 -> 0 .. Len(cread.data)] :
       Layout(cread.data, responses, at) /\ cread.bol = at[k + 1]
  /\ \A i \in 1 .. k : Tells(packets[i], asked[i], responses[i])
  /\ c_connected <=> ConnectedAfter(before, responses, k)
  /\ s_connected <=> ConnectedAfter(before, responses, Len(responses))
  /\ builder_open => c2s = <<>> /\ ServerRests

\* Errors are those of the server and its resolver, or that it has gone.
ErrorsInv ==
  \A i \in 1 .. Len(packets) :
    packets[i].code = "PC_ERROR" =>
      \/ packets[i].value \in ErrorText
      \/ packets[i] = C!CommunicationError /\ ~builder_open

\* Without channels nothing moves between the ends but buffers.
DirectInv ==
  is_direct =>
    /\ builder_open
    /\ c2s = <<>> /\ s2c = <<>>
    /\ direction # "WRITING"
    /\ direction = "READING" => sread = EmptyBuffer

CallInv ==
  /\ call = "idle" => Idle
  /\ call = "writing" => Writing
  /\ call = "reading" =>
       \/ \E block \in Seq(Symbol) : Waiting(block)
       \/ \E responses \in Seq(Seq(Word)) : Processing(responses)
       \/ \E block \in Seq(Symbol), responses \in Seq(Seq(Word)) : Responded(block, responses)
  /\ call = "parsing" =>
       \E responses \in Seq(Seq(Word)), before \in BOOLEAN : Parsing(responses, before)

\* TypeOK, with the types the two ends share.
TypeInv ==
  /\ is_direct \in BOOLEAN
  /\ c2s \in Seq(Symbol) /\ s2c \in Seq(Symbol)
  /\ cwrite \in Buffer /\ cread \in Buffer
  /\ sread \in Buffer /\ swrite \in Buffer
  /\ corked \in Seq(RequestCode \cup {C!CorkMark})
  /\ c_connected \in BOOLEAN /\ s_connected \in BOOLEAN
  /\ call \in C!Call
  /\ pending \in Seq(RequestCode) /\ asked \in Seq(RequestCode)
  /\ packets \in Seq([code : C!PacketCode, request : RequestCode, value : C!PacketValue])
  /\ resolver \in Contract
  /\ direction \in S!Direction
  /\ compiler_open \in BOOLEAN /\ builder_open \in BOOLEAN

IInv == TypeInv /\ DirectInv /\ ErrorsInv /\ CallInv

\* The compiler has gone.  What there was of its requests may be anything, but
\* between calls there were none.
GoneInv ==
  /\ TypeInv /\ ErrorsInv
  /\ ~is_direct
  /\ c_connected => s_connected
  /\ builder_open =>
       /\ direction = "READING" => sread.bol = 0
       /\ direction = "PROCESSING" => sread.bol <= Len(sread.data)
  /\ call = "idle" /\ builder_open =>
       /\ c2s = <<>>
       /\ direction # "WRITING" => sread = EmptyBuffer
       /\ s_connected <=> c_connected

SessionInv == (compiler_open => IInv) /\ (~compiler_open => GoneInv)

-----------------------------------------------------------------------------
(* Both ends use the buffers and the lines of Protocol.                    *)

LEMMA ClientBuffers ==
  /\ C!Symbol = Symbol
  /\ C!Buffer = Buffer
  /\ C!EmptyBuffer = EmptyBuffer
  /\ \A b, line : C!AppendLine(b, line) = AppendLine(b, line)
  /\ \A b : C!PrepareToWrite(b) = PrepareToWrite(b)
  /\ \A b : C!Unwritten(b) = Unwritten(b)
  /\ \A b, n : C!WriteSome(b, n) = WriteSome(b, n)
  /\ \A b, chunk : C!ReadSome(b, chunk) = ReadSome(b, chunk)
  /\ \A b : C!Lex(b) = Lex(b)
  /\ \A b : C!IsAtEnd(b) <=> IsAtEnd(b)
<1>1. C!Symbol = Symbol
  BY DEF C!Symbol, Symbol, C!CONTINUE, CONTINUE, C!NEWLINE, NEWLINE
<1>2. C!Buffer = Buffer
  BY <1>1 DEF C!Buffer, Buffer
<1>3. C!EmptyBuffer = EmptyBuffer
  BY DEF C!EmptyBuffer, EmptyBuffer
<1>4. \A b, line : C!AppendLine(b, line) = AppendLine(b, line)
  BY Zenon DEF C!AppendLine, AppendLine, C!AppendWords, AppendWords, C!BeginLine, BeginLine,
               C!CONTINUE, CONTINUE, C!NEWLINE, NEWLINE
<1>5. \A b : C!PrepareToWrite(b) = PrepareToWrite(b)
  BY Zenon DEF C!PrepareToWrite, PrepareToWrite, C!NEWLINE, NEWLINE
<1>6. \A b : C!Unwritten(b) = Unwritten(b)
  BY Zenon DEF C!Unwritten, Unwritten
<1>7. \A b, n : C!WriteSome(b, n) = WriteSome(b, n)
  BY <1>3, Zenon DEF C!WriteSome, WriteSome
<1>8. \A b, chunk : C!ReadSome(b, chunk) = ReadSome(b, chunk)
  BY Zenon DEF C!ReadSome, ReadSome, C!EndsBlock, EndsBlock, C!CONTINUE, CONTINUE,
               C!NEWLINE, NEWLINE
<1>9. \A b : C!Lex(b) = Lex(b)
  BY Zenon DEF C!Lex, Lex, C!LineEnd, LineEnd, C!WithoutContinuation, WithoutContinuation,
               C!CONTINUE, CONTINUE, C!NEWLINE, NEWLINE
<1>10. \A b : C!IsAtEnd(b) <=> IsAtEnd(b)
  BY Zenon DEF C!IsAtEnd, IsAtEnd
<1> QED
  BY <1>1, <1>2, <1>3, <1>4, <1>5, <1>6, <1>7, <1>8, <1>9, <1>10, Zenon

LEMMA ClientCodes ==
  /\ C!RequestCode = RequestCode
  /\ C!requestTable = requestTable
  /\ /\ C!RC_CONNECT = RC_CONNECT
     /\ C!RC_MODULE_REPO = RC_MODULE_REPO
     /\ C!RC_MODULE_EXPORT = RC_MODULE_EXPORT
     /\ C!RC_MODULE_IMPORT = RC_MODULE_IMPORT
     /\ C!RC_MODULE_COMPILED = RC_MODULE_COMPILED
     /\ C!RC_INCLUDE_TRANSLATE = RC_INCLUDE_TRANSLATE
     /\ C!RC_INVOKE = RC_INVOKE
  /\ C!Number = Number /\ C!Version = Version
  /\ \A w : C!ParseUnsigned(w) = ParseUnsigned(w)
<1>1. /\ C!RequestCode = RequestCode
      /\ /\ C!RC_CONNECT = RC_CONNECT
         /\ C!RC_MODULE_REPO = RC_MODULE_REPO
         /\ C!RC_MODULE_EXPORT = RC_MODULE_EXPORT
         /\ C!RC_MODULE_IMPORT = RC_MODULE_IMPORT
         /\ C!RC_MODULE_COMPILED = RC_MODULE_COMPILED
         /\ C!RC_INCLUDE_TRANSLATE = RC_INCLUDE_TRANSLATE
         /\ C!RC_INVOKE = RC_INVOKE
  BY DEF C!RequestCode, RequestCode, C!RC_HWM, RC_HWM, C!RC_CONNECT, RC_CONNECT,
         C!RC_MODULE_REPO, RC_MODULE_REPO, C!RC_MODULE_EXPORT, RC_MODULE_EXPORT,
         C!RC_MODULE_IMPORT, RC_MODULE_IMPORT, C!RC_MODULE_COMPILED, RC_MODULE_COMPILED,
         C!RC_INCLUDE_TRANSLATE, RC_INCLUDE_TRANSLATE, C!RC_INVOKE, RC_INVOKE
<1>2. C!requestTable = requestTable
  BY <1>1, Zenon DEF C!requestTable, requestTable
<1>3. C!Number = Number /\ C!Version = Version
  BY Zenon DEF C!Number, Number, C!Version, Version
<1>4. \A w : C!ParseUnsigned(w) = ParseUnsigned(w)
  BY <1>3, Zenon DEF C!ParseUnsigned, ParseUnsigned, C!Unparsable, Unparsable
<1> QED
  BY <1>1, <1>2, <1>3, <1>4, Zenon

LEMMA ServerBuffers ==
  /\ S!Symbol = Symbol
  /\ S!Buffer = Buffer
  /\ S!EmptyBuffer = EmptyBuffer
  /\ \A b, line : S!AppendLine(b, line) = AppendLine(b, line)
  /\ \A b : S!PrepareToWrite(b) = PrepareToWrite(b)
  /\ \A b : S!Unwritten(b) = Unwritten(b)
  /\ \A b, n : S!WriteSome(b, n) = WriteSome(b, n)
  /\ \A b, chunk : S!ReadSome(b, chunk) = ReadSome(b, chunk)
  /\ \A b : S!Lex(b) = Lex(b)
  /\ \A b : S!IsAtEnd(b) <=> IsAtEnd(b)
<1>1. S!Symbol = Symbol
  BY DEF S!Symbol, Symbol, S!CONTINUE, CONTINUE, S!NEWLINE, NEWLINE
<1>2. S!Buffer = Buffer
  BY <1>1 DEF S!Buffer, Buffer
<1>3. S!EmptyBuffer = EmptyBuffer
  BY DEF S!EmptyBuffer, EmptyBuffer
<1>4. \A b, line : S!AppendLine(b, line) = AppendLine(b, line)
  BY Zenon DEF S!AppendLine, AppendLine, S!AppendWords, AppendWords, S!BeginLine, BeginLine,
               S!CONTINUE, CONTINUE, S!NEWLINE, NEWLINE
<1>5. \A b : S!PrepareToWrite(b) = PrepareToWrite(b)
  BY Zenon DEF S!PrepareToWrite, PrepareToWrite, S!NEWLINE, NEWLINE
<1>6. \A b : S!Unwritten(b) = Unwritten(b)
  BY Zenon DEF S!Unwritten, Unwritten
<1>7. \A b, n : S!WriteSome(b, n) = WriteSome(b, n)
  BY <1>3, Zenon DEF S!WriteSome, WriteSome
<1>8. \A b, chunk : S!ReadSome(b, chunk) = ReadSome(b, chunk)
  BY Zenon DEF S!ReadSome, ReadSome, S!EndsBlock, EndsBlock, S!CONTINUE, CONTINUE,
               S!NEWLINE, NEWLINE
<1>9. \A b : S!Lex(b) = Lex(b)
  BY Zenon DEF S!Lex, Lex, S!LineEnd, LineEnd, S!WithoutContinuation, WithoutContinuation,
               S!CONTINUE, CONTINUE, S!NEWLINE, NEWLINE
<1>10. \A b : S!IsAtEnd(b) <=> IsAtEnd(b)
  BY Zenon DEF S!IsAtEnd, IsAtEnd
<1> QED
  BY <1>1, <1>2, <1>3, <1>4, <1>5, <1>6, <1>7, <1>8, <1>9, <1>10, Zenon

LEMMA ServerCodes ==
  /\ S!RequestCode = RequestCode
  /\ S!ModuleRequestCode = ModuleRequestCode
  /\ /\ S!RC_CONNECT = RC_CONNECT
     /\ S!RC_MODULE_REPO = RC_MODULE_REPO
     /\ S!RC_MODULE_EXPORT = RC_MODULE_EXPORT
     /\ S!RC_MODULE_IMPORT = RC_MODULE_IMPORT
     /\ S!RC_MODULE_COMPILED = RC_MODULE_COMPILED
     /\ S!RC_INCLUDE_TRANSLATE = RC_INCLUDE_TRANSLATE
     /\ S!RC_INVOKE = RC_INVOKE
     /\ S!RC_HWM = RC_HWM
  /\ \A verb : S!CodeOf(verb) = CodeOf(verb)
  /\ \A w : S!ParseUnsigned(w) = ParseUnsigned(w)
<1>1. /\ S!RequestCode = RequestCode
      /\ /\ S!RC_CONNECT = RC_CONNECT
         /\ S!RC_MODULE_REPO = RC_MODULE_REPO
         /\ S!RC_MODULE_EXPORT = RC_MODULE_EXPORT
         /\ S!RC_MODULE_IMPORT = RC_MODULE_IMPORT
         /\ S!RC_MODULE_COMPILED = RC_MODULE_COMPILED
         /\ S!RC_INCLUDE_TRANSLATE = RC_INCLUDE_TRANSLATE
         /\ S!RC_INVOKE = RC_INVOKE
         /\ S!RC_HWM = RC_HWM
  BY DEF S!RequestCode, RequestCode, S!RC_HWM, RC_HWM, S!RC_CONNECT, RC_CONNECT,
         S!RC_MODULE_REPO, RC_MODULE_REPO, S!RC_MODULE_EXPORT, RC_MODULE_EXPORT,
         S!RC_MODULE_IMPORT, RC_MODULE_IMPORT, S!RC_MODULE_COMPILED, RC_MODULE_COMPILED,
         S!RC_INCLUDE_TRANSLATE, RC_INCLUDE_TRANSLATE, S!RC_INVOKE, RC_INVOKE
<1>2. S!requestTable = requestTable
  BY <1>1, Zenon DEF S!requestTable, requestTable
<1>3. S!ModuleRequestCode = ModuleRequestCode
  BY <1>1, Zenon DEF S!ModuleRequestCode, ModuleRequestCode
<1>4. \A verb : S!CodeOf(verb) = CodeOf(verb)
  BY <1>1, <1>2, Zenon DEF S!CodeOf, CodeOf
<1>5. S!Number = Number
  BY Zenon DEF S!Number, Number
<1>6. \A w : S!ParseUnsigned(w) = ParseUnsigned(w)
  BY <1>5, Zenon DEF S!ParseUnsigned, ParseUnsigned, S!Unparsable, Unparsable
<1> QED
  BY <1>1, <1>3, <1>4, <1>6, Zenon

LEMMA ServerLines ==
  /\ \A agent : S!ConnectResponse(agent) = ConnectResponse(agent)
  /\ \A cmi : S!PathnameResponse(cmi) = PathnameResponse(cmi)
  /\ S!OKResponse = OKResponse
  /\ \A truth : S!BoolResponse(truth) = BoolResponse(truth)
  /\ \A error : S!ErrorResponse(error) = ErrorResponse(error)
  /\ S!REPO_DIR = REPO_DIR
BY Zenon DEF S!ConnectResponse, ConnectResponse, S!PathnameResponse, PathnameResponse,
             S!OKResponse, OKResponse, S!BoolResponse, BoolResponse,
             S!ErrorResponse, ErrorResponse, S!REPO_DIR, REPO_DIR

-----------------------------------------------------------------------------
(* Calls.                                                                  *)

\* What a call of the compiler leaves alone.
CallsLeave ==
  UNCHANGED <<is_direct, c2s, s2c, sread, swrite, resolver, s_connected, direction,
              c_connected, compiler_open, builder_open>>

\* A batch goes out as one block.
LEMMA CommunicateIInv ==
  ASSUME IInv, call = "idle", CallsLeave, corked' = corked,
         NEW b \in Buffer, NEW codes \in Seq(RequestCode), codes # <<>>,
         NEW lines \in Seq(Seq(Word)), Requests(lines, codes), Told(b, lines),
         C!Communicate(b, codes)
  PROVE  IInv'
<1>1. Idle /\ TypeInv /\ DirectInv
  BY DEF IInv, CallInv
<1>2. /\ cwrite' = PrepareToWrite(b) /\ cread' = EmptyBuffer /\ call' = "writing"
      /\ pending' = codes /\ packets' = <<>> /\ asked' = codes
  BY ClientBuffers DEF C!Communicate
<1>3. UNCHANGED <<is_direct, c2s, s2c, sread, swrite, resolver, s_connected, direction,
                  c_connected, compiler_open, builder_open>>
  BY DEF CallsLeave
<1>4. lines # <<>>
  <2>1. Len(lines) = Len(codes) /\ Len(codes) # 0
    BY DEF Requests
  <2> QED
    BY <2>1
<1>5. /\ PrepareToWrite(b) \in Buffer
      /\ PrepareToWrite(b).bol = 0
      /\ Framed(PrepareToWrite(b).data)
      /\ LaidOut(PrepareToWrite(b).data, lines)
  BY <1>4, ToldIsBlock
<1>6. TypeInv'
  <2>1. call' \in C!Call /\ packets' \in Seq([code : C!PacketCode, request : RequestCode, value : C!PacketValue])
    BY <1>2 DEF C!Call
  <2> QED
    BY <2>1, <1>1, <1>2, <1>3, <1>5, EmptyBufferType DEF TypeInv
<1>7. PICK d \in Seq(Symbol) : d = PrepareToWrite(b).data
  BY <1>5 DEF Buffer
<1>8. cwrite'.data = d /\ cwrite'.bol = 0 /\ Len(d) > 0
  BY <1>2, <1>5, <1>7 DEF Framed
<1>9. Asks(cwrite.data)'
  BY <1>2, <1>5, <1>7, <1>8 DEF Asks
<1>10. builder_open => /\ swrite = EmptyBuffer
                       /\ s_connected => c_connected
                       /\ c2s = <<>> /\ Heard = <<>>
                       /\ ~is_direct => Hearing
  BY <1>1 DEF Idle, ServerRests, Hearing, Heard, EmptyBuffer
<1>11. /\ (c_connected => s_connected) /\ s2c = <<>>
  BY <1>1 DEF Idle
<1>12. Heard' = Heard /\ (Hearing => Hearing')
  BY <1>3 DEF Heard, Hearing
<1>13. Starts(d, <<>>, <<>>) /\ 0 = Len(<<>>) + Len(<<>>)
  BY <1>8 DEF Starts
<1>14. Writing'
  BY <1>2, <1>3, <1>8, <1>9, <1>10, <1>11, <1>12, <1>13 DEF Writing, Asking, Asked
<1>15. ErrorsInv' /\ DirectInv'
  BY <1>1, <1>2, <1>3 DEF ErrorsInv, DirectInv
<1> QED
  BY <1>2, <1>6, <1>14, <1>15 DEF IInv, CallInv

\* Where nothing communicates the compiler's queue may change.
LEMMA QueueIInv ==
  ASSUME IInv, call = "idle", CallsLeave, UNCHANGED <<cread, call, pending>>,
         TypeInv', ErrorsInv', Queue' \in Seq(RequestCode),
         NEW lines \in Seq(Seq(Word)), Requests(lines, Queue'), Told(cwrite', lines)
  PROVE  IInv'
<1>1. Idle /\ TypeInv /\ DirectInv
  BY DEF IInv, CallInv
<1>2. UNCHANGED <<is_direct, c2s, s2c, sread, swrite, resolver, s_connected, direction,
                  c_connected, compiler_open, builder_open>>
  BY DEF CallsLeave
<1>3. Idle'
  BY <1>1, <1>2 DEF Idle, ServerRests, IsAtEnd
<1>4. DirectInv'
  BY <1>1, <1>2 DEF DirectInv
<1> QED
  BY <1>3, <1>4 DEF IInv, CallInv

\* A request is queued, or goes out alone.
LEMMA RequestIInv ==
  ASSUME IInv, NEW code \in RequestCode,
         NEW words \in Seq(Word) \ {<<>>}, CodeOf(words[1]) = code,
         C!Request(code, words), UNCHANGED <<is_direct, server_vars, compiler_open>>
  PROVE  IInv'
<1> DEFINE b == AppendLine(cwrite, words)
<1>1. Idle /\ TypeInv /\ call = "idle"
  BY DEF IInv, CallInv, C!Request
<1>2. PICK lines \in Seq(Seq(Word)) : Requests(lines, Queue) /\ Told(cwrite, lines)
  BY <1>1 DEF Idle
<1>3. cwrite \in Buffer /\ Queue \in Seq(RequestCode) /\ asked \in Seq(RequestCode)
  BY <1>1 DEF TypeInv, Idle
<1> DEFINE more == Append(lines, words)
           codes == Append(Queue, code)
<1>4. b \in Buffer /\ more \in Seq(Seq(Word)) /\ Told(b, more)
  BY <1>2, <1>3, TellOneMore
<1>5. Requests(more, codes)
  BY <1>2, <1>3, OneMoreCode
<1>6. CallsLeave
  BY DEF C!Request, CallsLeave, server_vars
<1>7. C!AppendLine(cwrite, words) = b
  BY ClientBuffers
<1>8. codes \in Seq(RequestCode) /\ codes # <<>>
  <2>1. codes \in Seq(RequestCode) /\ Len(codes) = Len(Queue) + 1 /\ Len(Queue) \in Nat
    BY <1>3
  <2> HIDE DEF codes
  <2>2. Len(codes) # 0
    BY <2>1
  <2> QED
    BY <2>1, <2>2
<1> HIDE DEF b, more
<1>9. CASE ~C!IsCorked
  <2>1. C!Communicate(b, <<code>>) /\ corked' = corked /\ Queue = <<>>
    BY <1>9, <1>7 DEF C!Request, C!IsCorked, Queue
  <2>2. codes = <<code>>
    BY <2>1
  <2> HIDE DEF codes
  <2> QED
    BY <1>1, <1>4, <1>5, <1>6, <1>8, <2>1, <2>2, CommunicateIInv
<1>10. CASE C!IsCorked
  <2>1. /\ corked # <<>>
        /\ corked' = Append(corked, code)
        /\ cwrite' = b
        /\ packets' = <<C!PlainPacket("PC_CORKED", "")>>
        /\ asked' = Append(asked, code)
        /\ UNCHANGED <<cread, call, pending>>
    BY <1>7, <1>10 DEF C!Request, C!IsCorked
  <2> DEFINE T == RequestCode \cup {C!CorkMark}
             P == [code : C!PacketCode, request : RequestCode, value : C!PacketValue]
             p == C!PlainPacket("PC_CORKED", "")
  <2>2. corked \in Seq(T) /\ code \in T
    BY <1>1 DEF TypeInv
  <2> HIDE DEF T, codes
  <2>3. Append(corked, code) \in Seq(T) /\ Append(corked, code) # <<>>
    BY <2>2
  <2>4. Queue' = codes
    <3>1. Tail(Append(corked, code)) = Append(Tail(corked), code)
      BY <2>1, <2>2, HeadTailAppend
    <3> QED
      BY <2>1, <2>3, <3>1 DEF Queue, codes
  <2>5. p \in P /\ p.code = "PC_CORKED"
    <3>1. "" \in C!PacketValue
      <4>1. "" \in Word
        BY SessionAssumption, Zenon
      <4> QED
        BY <4>1 DEF C!PacketValue
    <3>2. "PC_CORKED" \in C!PacketCode /\ C!RC_CONNECT \in RequestCode
      BY ClientCodes, RequestVerbs DEF C!PacketCode
    <3> QED
      BY <3>1, <3>2 DEF C!PlainPacket, C!Packet
  <2>6. packets' \in Seq(P)
    <3>1. \A X, x : x \in X => <<x>> \in Seq(X)
      OBVIOUS
    <3> QED
      BY <2>1, <2>5, <3>1, Zenon
  <2>7. asked' \in Seq(RequestCode) /\ corked' \in Seq(T)
    <3>1. \A X, s, x : s \in Seq(X) /\ x \in X => Append(s, x) \in Seq(X)
      OBVIOUS
    <3> QED
      BY <1>3, <2>1, <2>3, <3>1, Zenon
  <2> HIDE DEF P, p
  <2>8. TypeInv'
    BY <1>1, <1>4, <1>6, <2>1, <2>6, <2>7 DEF TypeInv, CallsLeave, T, P
  <2>9. ErrorsInv'
    <3>1. packets' = <<p>> /\ p.code # "PC_ERROR"
      BY <2>1, <2>5 DEF p
    <3>2. \A x : Len(<<x>>) = 1 /\ \A i \in 1 .. 1 : <<x>>[i] = x
      OBVIOUS
    <3>3. Len(packets') = 1 /\ \A i \in 1 .. 1 : packets'[i] = p
      BY <3>1, <3>2, Zenon
    <3> QED
      BY <3>1, <3>3 DEF ErrorsInv
  <2> QED
    BY <1>1, <1>4, <1>5, <1>6, <1>8, <2>1, <2>4, <2>8, <2>9, QueueIInv
<1> QED
  BY <1>9, <1>10

\* Corking, and uncorking when nothing was queued.
LEMMA CorkIInv ==
  ASSUME IInv, C!Cork \/ C!UncorkNothing, UNCHANGED <<is_direct, server_vars, compiler_open>>
  PROVE  IInv'
<1>1. Idle /\ TypeInv /\ ErrorsInv /\ call = "idle"
  BY DEF IInv, CallInv, C!Cork, C!UncorkNothing
<1>2. /\ CallsLeave /\ UNCHANGED <<cwrite, cread, call, pending>> /\ asked' = <<>>
      /\ packets' = packets \/ packets' = <<>>
  BY DEF C!Cork, C!UncorkNothing, CallsLeave, server_vars
<1> DEFINE T == RequestCode \cup {C!CorkMark}
           P == [code : C!PacketCode, request : RequestCode, value : C!PacketValue]
<1>3. corked' \in Seq(T) /\ Queue = <<>> /\ Queue' = <<>>
  <2>1. CASE C!Cork
    BY <2>1 DEF C!Cork, C!IsCorked, Queue
  <2>2. CASE C!UncorkNothing
    <3>1. corked \in Seq(T) /\ Len(corked) = 1 /\ corked' = <<>>
      BY <1>1, <2>2 DEF C!UncorkNothing, TypeInv
    <3>2. \A s \in Seq(T) : Len(s) = 1 => Tail(s) = <<>>
      <4> HIDE DEF T
      <4> SUFFICES ASSUME NEW s \in Seq(T), Len(s) = 1
                   PROVE  Tail(s) = <<>>
        OBVIOUS
      <4>1. s # <<>>
        OBVIOUS
      <4>2. Tail(s) \in Seq(T) /\ Len(Tail(s)) = 0
        BY <4>1, HeadTailProperties
      <4> QED
        BY <4>2, EmptySeq
    <3>3. <<>> \in Seq(T)
      OBVIOUS
    <3> QED
      BY <3>1, <3>2, <3>3 DEF Queue
  <2> QED
    BY <2>1, <2>2
<1>4. packets' \in Seq(P) /\ asked' \in Seq(RequestCode)
  <2>1. packets \in Seq(P)
    BY <1>1 DEF TypeInv
  <2>2. <<>> \in Seq(P) /\ <<>> \in Seq(RequestCode)
    OBVIOUS
  <2> QED
    BY <1>2, <2>1, <2>2, Zenon
<1> HIDE DEF T, P
<1>5. TypeInv'
  BY <1>1, <1>2, <1>3, <1>4 DEF TypeInv, CallsLeave, T, P
<1>6. ErrorsInv'
  <2>1. builder_open' = builder_open
    BY <1>2 DEF CallsLeave
  <2>2. CASE packets' = packets
    BY <1>1, <2>1, <2>2 DEF ErrorsInv
  <2>3. CASE packets' = <<>>
    BY <2>3 DEF ErrorsInv
  <2> QED
    BY <1>2, <2>2, <2>3
<1>7. PICK lines \in Seq(Seq(Word)) : Requests(lines, Queue) /\ Told(cwrite, lines)
  BY <1>1 DEF Idle
<1>8. /\ Queue' \in Seq(RequestCode) /\ Requests(lines, Queue') /\ Told(cwrite', lines)
  BY <1>2, <1>3, <1>7
<1> QED
  BY <1>1, <1>2, <1>5, <1>6, <1>8, QueueIInv

LEMMA UncorkIInv ==
  ASSUME IInv, C!Uncork, UNCHANGED <<is_direct, server_vars, compiler_open>>
  PROVE  IInv'
<1>1. Idle /\ TypeInv /\ call = "idle" /\ Len(corked) > 1
  BY DEF IInv, CallInv, C!Uncork
<1> DEFINE T == RequestCode \cup {C!CorkMark}
<1>2. corked \in Seq(T) /\ cwrite \in Buffer
  BY <1>1 DEF TypeInv
<1>3. Queue = Tail(corked) /\ Queue # <<>> /\ Queue \in Seq(RequestCode)
  <2>1. corked # <<>> /\ Tail(corked) # <<>>
    <3> HIDE DEF T
    <3>1. corked # <<>>
      BY <1>1, <1>2
    <3>2. Tail(corked) \in Seq(T) /\ Len(Tail(corked)) = Len(corked) - 1 /\ Len(corked) \in Nat
      BY <1>2, <3>1, HeadTailProperties
    <3>3. Len(Tail(corked)) # 0
      BY <1>1, <3>2
    <3>4. Tail(corked) # <<>>
      <4>1. \A s : Len(s) # 0 => s # <<>>
        OBVIOUS
      <4> QED
        BY <3>3, <4>1, Zenon
    <3> QED
      BY <3>1, <3>4
  <2> QED
    BY <1>1, <2>1 DEF Queue, Idle
<1>4. PICK lines \in Seq(Seq(Word)) : Requests(lines, Queue) /\ Told(cwrite, lines)
  BY <1>1 DEF Idle
<1>5. C!Communicate(cwrite, Queue) /\ CallsLeave /\ corked' = corked
  BY <1>3 DEF C!Uncork, CallsLeave, server_vars
<1> QED
  BY <1>1, <1>2, <1>3, <1>4, <1>5, CommunicateIInv

\* Whatever the compiler calls, as long as its arguments are words.
LEMMA CallIInv ==
  ASSUME IInv, Calls, Arguments \subseteq Seq(Word)
  PROVE  IInv'
<1>1. C!CompilerCall /\ UNCHANGED <<is_direct, server_vars, compiler_open>>
  BY DEF Calls
<1>2. CASE C!Connect
  <2> DEFINE words == <<"HELLO", "1", "cc", "">>
  <2>1. "HELLO" \in Word /\ "1" \in Word /\ "cc" \in Word /\ "" \in Word
    <3>1. "1" \in Word
      BY WordAssumption, Zenon
    <3>2. "cc" \in Word /\ "" \in Word
      BY SessionAssumption, Zenon
    <3>3. "HELLO" \in Word
      BY RequestVerbs
    <3> QED
      BY <3>1, <3>2, <3>3
  <2>2. words \in Seq(Word) \ {<<>>} /\ words[1] = "HELLO"
    <3>1. \A a, b, c, d \in Word :
            <<a, b, c, d>> \in Seq(Word) \ {<<>>} /\ <<a, b, c, d>>[1] = a
      OBVIOUS
    <3> QED
      BY <2>1, <3>1, Zenon
  <2>3. RC_CONNECT \in RequestCode /\ CodeOf(words[1]) = RC_CONNECT
    BY <2>2, RequestVerbs
  <2>4. C!Request(RC_CONNECT, words)
    BY <1>2, ClientCodes DEF C!Connect
  <2> HIDE DEF words
  <2> QED
    BY <1>1, <2>2, <2>3, <2>4, RequestIInv
<1>3. CASE C!ModuleRepo
  <2> DEFINE words == <<"MODULE-REPO">>
  <2>1. words \in Seq(Word) \ {<<>>} /\ words[1] = "MODULE-REPO"
    BY RequestVerbs
  <2>2. RC_MODULE_REPO \in RequestCode /\ CodeOf(words[1]) = RC_MODULE_REPO
    BY <2>1, RequestVerbs
  <2>3. C!Request(RC_MODULE_REPO, words)
    BY <1>3, ClientCodes DEF C!ModuleRepo
  <2> HIDE DEF words
  <2> QED
    BY <1>1, <2>1, <2>2, <2>3, RequestIInv
<1>4. CASE \E code \in ModuleCalls : C!ModuleRequest(code)
  <2>1. PICK code \in ModuleCalls, name \in Module, flags \in Flags :
          C!Request(code, <<requestTable[code], name>> \o flags)
    BY <1>4, ClientCodes DEF C!ModuleRequest
  <2>2. code \in RequestCode
    <3>1. ModuleCalls \subseteq ModuleRequestCode
      BY SessionAssumption, Zenon
    <3> QED
      BY <3>1, RequestVerbs
  <2>3. name \in Word
    <3>1. Module \subseteq Word
      BY WordAssumption, Zenon
    <3> QED
      BY <3>1
  <2>4. flags \in Seq(Word)
    <3>1. Flags \subseteq {<<>>} \cup {<<w>> : w \in Word}
      BY SessionAssumption, Zenon
    <3>2. flags = <<>> \/ \E w \in Word : flags = <<w>>
      BY <3>1, Zenon
    <3>3. CASE flags = <<>>
      BY <3>3
    <3>4. ASSUME NEW w \in Word, flags = <<w>>
          PROVE  flags \in Seq(Word)
      BY <3>4
    <3> QED
      BY <3>2, <3>3, <3>4
  <2> DEFINE verb  == requestTable[code]
             words == <<verb, name>> \o flags
  <2>5. verb \in Word /\ CodeOf(verb) = code
    BY <2>2, RequestVerbs
  <2> HIDE DEF verb
  <2>6. words \in Seq(Word) \ {<<>>} /\ words[1] = verb
    BY <2>3, <2>4, <2>5
  <2>7. C!Request(code, words)
    BY <2>1 DEF verb
  <2> HIDE DEF words
  <2> QED
    BY <1>1, <2>2, <2>5, <2>6, <2>7, RequestIInv
<1>5. CASE C!InvokeSubProcess
  <2>1. PICK argv \in Arguments : C!Request(RC_INVOKE, <<"INVOKE">> \o argv)
    BY <1>5, ClientCodes DEF C!InvokeSubProcess
  <2> DEFINE words == <<"INVOKE">> \o argv
  <2>2. words \in Seq(Word) \ {<<>>} /\ words[1] = "INVOKE"
    <3>1. "INVOKE" \in Word /\ argv \in Seq(Word)
      BY RequestVerbs
    <3>2. ASSUME NEW w \in Word, NEW s \in Seq(Word)
          PROVE  <<w>> \o s \in Seq(Word) \ {<<>>} /\ (<<w>> \o s)[1] = w
      <4> DEFINE u == <<w>>
      <4>1. u \in Seq(Word) /\ Len(u) = 1 /\ u[1] = w /\ Len(s) \in Nat
        OBVIOUS
      <4> HIDE DEF u
      <4>2. /\ u \o s \in Seq(Word)
            /\ Len(u \o s) = Len(u) + Len(s)
            /\ \A i \in 1 .. Len(u) + Len(s) :
                 (u \o s)[i] = IF i <= Len(u) THEN u[i] ELSE s[i - Len(u)]
        BY <4>1, ConcatProperties
      <4>3. 1 \in 1 .. Len(u) + Len(s) /\ Len(u \o s) # 0
        BY <4>1, <4>2
      <4>4. (u \o s)[1] = w /\ u \o s # <<>>
        BY <4>1, <4>2, <4>3
      <4> QED
        BY <4>2, <4>4 DEF u
    <3> QED
      BY <3>1, <3>2, Zenon
  <2>3. RC_INVOKE \in RequestCode /\ CodeOf(words[1]) = RC_INVOKE
    BY <2>2, RequestVerbs
  <2>4. C!Request(RC_INVOKE, words)
    BY <2>1
  <2> HIDE DEF words
  <2> QED
    BY <1>1, <2>2, <2>3, <2>4, RequestIInv
<1>6. CASE C!Cork \/ C!UncorkNothing
  BY <1>1, <1>6, CorkIInv
<1>7. CASE C!Uncork
  BY <1>1, <1>7, UncorkIInv
<1> QED
  BY <1>1, <1>2, <1>3, <1>4, <1>5, <1>6, <1>7 DEF C!CompilerCall

-----------------------------------------------------------------------------
(* The requests go out.                                                    *)

\* More of the requests is on the way, or all of them.
LEMMA WriteIInv ==
  ASSUME IInv, ~is_direct, NEW n \in 1 .. PipeCapacity, C!WriteStep(n, PipeCapacity),
         UNCHANGED <<is_direct, server_vars, compiler_open>>
  PROVE  IInv'
<1>1. TypeInv /\ ErrorsInv /\ Writing /\ call = "writing" /\ builder_open
  BY DEF IInv, CallInv, C!WriteStep
<1>2. PICK d \in Seq(Symbol) : d = cwrite.data
  BY <1>1 DEF TypeInv, Buffer
<1>3. PICK h \in Seq(Symbol) : h = Heard
  <2>1. sread.data \in Seq(Symbol) /\ <<>> \in Seq(Symbol)
    BY <1>1 DEF TypeInv, Buffer
  <2>2. Heard \in Seq(Symbol)
    BY <2>1, Zenon DEF Heard
  <2> QED
    BY <2>2
<1>4. PICK t \in Seq(Symbol) : t = c2s
  BY <1>1 DEF TypeInv
<1>5. PICK b \in Buffer : b = cwrite
  BY <1>1 DEF TypeInv
<1>6. /\ b.data = d /\ Starts(d, h, t) /\ b.bol = Len(h) + Len(t) /\ b.bol < Len(d)
      /\ Asking /\ Asks(d)
      /\ swrite = EmptyBuffer /\ Hearing
      /\ s_connected <=> c_connected
  BY <1>1, <1>2, <1>3, <1>4, <1>5 DEF Writing
<1> DEFINE w == WriteSome(b, n)
           more == t \o SubSeq(d, b.bol + 1, b.bol + n)
<1>7. /\ n <= Len(Unwritten(b))
      /\ c2s' = more /\ cwrite' = w.buffer
      /\ call' = IF w.err = "0" THEN "reading" ELSE call
      /\ UNCHANGED <<s2c, cread, corked, c_connected, pending, packets, asked, builder_open>>
  BY <1>2, <1>4, <1>5, <1>6, ClientBuffers DEF C!WriteStep
<1>8. UNCHANGED <<is_direct, compiler_open, sread, swrite, resolver, s_connected, direction>>
  BY DEF server_vars
<1>9. n \in Nat /\ n > 0
  <2>1. PipeCapacity \in Nat
    BY SessionAssumption, Zenon
  <2> QED
    BY <2>1
<1>10. SentMore(b, h, more, w)
  <2>1. Starts(b.data, h, t) /\ b.bol < Len(b.data)
    BY <1>6
  <2>2. SentMore(b, h, t \o SubSeq(b.data, b.bol + 1, b.bol + n), WriteSome(b, n))
    BY <1>6, <1>7, <1>9, <2>1, SendPiece, Zenon
  <2>3. b.data = d
    BY <1>6
  <2> QED
    BY <2>2, <2>3, Zenon
<1> HIDE DEF w, more
<1>11. TypeInv'
  <2>1. call' \in C!Call
    BY <1>1, <1>7 DEF TypeInv, C!Call
  <2> QED
    BY <2>1, <1>1, <1>7, <1>8, <1>10 DEF TypeInv, SentMore
<1>12. ErrorsInv' /\ DirectInv'
  BY <1>1, <1>7, <1>8 DEF ErrorsInv, DirectInv
<1>13. Heard' = h /\ Hearing'
  BY <1>3, <1>6, <1>8 DEF Heard, Hearing
<1>14. Asking' /\ Asks(d)'
  BY <1>6, <1>7 DEF Asking, Asked, Asks
<1>15. CASE w.err = "0"
  <2>1. w.buffer = EmptyBuffer /\ Len(h) + Len(more) = Len(d) /\ Starts(d, h, more)
    BY <1>6, <1>10, <1>15 DEF SentMore
  <2>2. Waiting(d)'
    BY <2>1, <1>6, <1>7, <1>8, <1>10, <1>13, <1>14 DEF Waiting
  <2>3. call' = "reading"
    BY <1>7, <1>15
  <2> QED
    BY <2>2, <2>3, <1>11, <1>12 DEF IInv, CallInv
<1>16. CASE w.err # "0"
  <2>1. /\ w.buffer.data = d
        /\ w.buffer.bol = Len(h) + Len(more)
        /\ w.buffer.bol < Len(d)
        /\ Starts(d, h, more)
    BY <1>6, <1>10, <1>16 DEF SentMore
  <2>2. Writing'
    BY <2>1, <1>6, <1>7, <1>8, <1>10, <1>13, <1>14 DEF Writing
  <2>3. call' = "writing"
    BY <1>1, <1>7, <1>16
  <2> QED
    BY <2>2, <2>3, <1>11, <1>12 DEF IInv, CallInv
<1> QED
  BY <1>15, <1>16

\* A call that fails leaves nothing behind, and there is nobody to respond.
LEMMA FailIInv ==
  ASSUME TypeInv, ~is_direct, ~builder_open, C!Fail, cwrite' = EmptyBuffer,
         s2c' = <<>>, cread' \in Buffer, c_connected => s_connected, UNCHANGED c2s,
         UNCHANGED <<is_direct, server_vars, compiler_open>>
  PROVE  IInv'
<1>1. /\ packets' = <<C!CommunicationError>>
      /\ pending' = <<>> /\ corked' = <<>> /\ call' = "idle"
      /\ UNCHANGED <<c_connected, asked, builder_open>>
      /\ UNCHANGED <<is_direct, compiler_open, sread, swrite, resolver, s_connected, direction>>
  BY DEF C!Fail, server_vars
<1> DEFINE P == [code : C!PacketCode, request : RequestCode, value : C!PacketValue]
           p == C!CommunicationError
<1>2. p \in P
  <2>1. "PC_ERROR" \in C!PacketCode /\ C!RC_CONNECT \in RequestCode
    BY ClientCodes, RequestVerbs DEF C!PacketCode
  <2>2. C!NoCommunication \in C!PacketValue
    BY DEF C!PacketValue
  <2> QED
    BY <2>1, <2>2 DEF C!CommunicationError, C!PlainPacket, C!Packet
<1>3. packets' \in Seq(P) /\ \A i \in 1 .. Len(packets') : packets'[i] = p
  <2>1. \A X, x : x \in X => <<x>> \in Seq(X)
    OBVIOUS
  <2>2. \A x : \A i \in 1 .. Len(<<x>>) : <<x>>[i] = x
    OBVIOUS
  <2> HIDE DEF P, p
  <2>3. packets' = <<p>>
    BY <1>1 DEF p
  <2> QED
    BY <2>1, <2>2, <2>3, <1>2, Zenon
<1> HIDE DEF P, p
<1>4. TypeInv'
  <2>1. /\ cwrite' \in Buffer /\ call' \in C!Call /\ pending' \in Seq(RequestCode)
        /\ corked' \in Seq(RequestCode \cup {C!CorkMark}) /\ s2c' \in Seq(Symbol)
    BY <1>1, EmptyBufferType DEF C!Call
  <2> QED
    BY <2>1, <1>1, <1>3 DEF TypeInv, P
<1>5. ErrorsInv' /\ DirectInv'
  BY <1>1, <1>3 DEF ErrorsInv, DirectInv, p
<1>6. Queue' = <<>>
  BY <1>1 DEF Queue
<1>7. <<>> \in Seq(Seq(Word)) /\ Requests(<<>>, <<>>) /\ Told(EmptyBuffer, <<>>)
  BY DEF Requests, Told
<1>8. Idle'
  <2>1. Requests(<<>>, Queue') /\ Told(cwrite', <<>>) /\ Queue' \in Seq(RequestCode)
    BY <1>6, <1>7
  <2>2. \E lines \in Seq(Seq(Word)) : Requests(lines, Queue') /\ Told(cwrite', lines)
    BY <1>7, <2>1
  <2> QED
    BY <1>1, <2>1, <2>2 DEF Idle
<1> QED
  BY <1>1, <1>4, <1>5, <1>8 DEF IInv, CallInv

\* What the client and the server know of the connection while a call waits.
LEMMA ReadingConnection ==
  ASSUME IInv, call = "reading"
  PROVE  cwrite = EmptyBuffer /\ (c_connected => s_connected)
BY Zenon DEF IInv, CallInv, Waiting, Processing, Responded, ConnectedAfter

\* The builder has gone before it had all of the requests.
LEMMA WriteErrorIInv ==
  ASSUME IInv, ~is_direct, C!WriteError, UNCHANGED <<is_direct, server_vars, compiler_open>>
  PROVE  IInv'
<1>1. TypeInv /\ Writing
  BY DEF IInv, CallInv, C!WriteError
<1>2. /\ cwrite' = EmptyBuffer /\ C!Fail /\ ~builder_open
      /\ UNCHANGED <<c2s, s2c, cread>>
  BY ClientBuffers DEF C!WriteError
<1>3. s2c' = <<>> /\ (c_connected => s_connected) /\ cread' \in Buffer
  BY <1>1, <1>2 DEF Writing, Asking, TypeInv
<1> QED
  BY <1>1, <1>2, <1>3, FailIInv

-----------------------------------------------------------------------------
(* The responses come in.                                                  *)

\* The builder has gone, and with it the rest of its responses.
LEMMA ReadEOFIInv ==
  ASSUME IInv, ~is_direct, C!ReadEOF, UNCHANGED <<is_direct, server_vars, compiler_open>>
  PROVE  IInv'
<1>1. TypeInv /\ call = "reading"
  BY DEF IInv, C!ReadEOF
<1>2. /\ C!Fail /\ ~builder_open /\ s2c = <<>>
      /\ UNCHANGED <<c2s, s2c, cwrite, cread>>
  BY DEF C!ReadEOF
<1>3. cwrite' = EmptyBuffer /\ (c_connected => s_connected) /\ cread' \in Buffer
  BY <1>1, <1>2, ReadingConnection DEF TypeInv
<1> QED
  BY <1>1, <1>2, <1>3, FailIInv

\* Some of the responses arrive.
LEMMA ReadIInv ==
  ASSUME IInv, ~is_direct, NEW n \in 1 .. PipeCapacity, C!ReadStep(n),
         UNCHANGED <<is_direct, server_vars, compiler_open>>
  PROVE  IInv'
<1>1. TypeInv /\ ErrorsInv /\ call = "reading" /\ s2c \in Seq(Symbol)
  BY DEF IInv, TypeInv, C!ReadStep
<1>2. n \in 1 .. Len(s2c) /\ s2c # <<>>
  <2>1. n <= Len(s2c) /\ Len(s2c) \in Nat
    BY <1>1 DEF C!ReadStep
  <2> QED
    BY <2>1
<1>3. PICK d \in Seq(Symbol), responses \in Seq(Seq(Word)) : Responded(d, responses)
  BY <1>1, <1>2 DEF IInv, CallInv, Waiting, Processing, Asking
<1>4. PICK b \in Buffer : b = cread
  BY <1>1 DEF TypeInv
<1>5. PICK t \in Seq(Symbol) : t = s2c
  BY <1>1
<1>6. /\ Framed(d) /\ Starts(d, b.data, t) /\ Len(b.data) + Len(t) <= Len(d)
      /\ b.bol = 0 /\ n \in 1 .. Len(t)
  BY <1>2, <1>3, <1>4, <1>5 DEF Responded
<1> DEFINE r == ReadSome(b, SubSeq(t, 1, n))
           rest == SubSeq(t, n + 1, Len(t))
<1>7. ReceivedMore(b, t, d, r, rest)
  <2>1. Framed(d) /\ Starts(d, b.data, t) /\ Len(b.data) + Len(t) <= Len(d) /\ n \in 1 .. Len(t)
    BY <1>6
  <2> QED
    BY <2>1, ReceivePiece, Zenon
<1>8. /\ s2c' = rest /\ cread' = r.buffer
      /\ \/ r.err = "EINVAL"
         \/ /\ call' = IF r.err = "0" THEN "parsing" ELSE call
            /\ UNCHANGED <<corked, c_connected, pending, packets, asked, builder_open>>
      /\ UNCHANGED <<c2s, cwrite>>
  BY <1>4, <1>5, ClientBuffers DEF C!ReadStep
<1> HIDE DEF r, rest
<1>9. UNCHANGED <<corked, c_connected, pending, packets, asked, builder_open, c2s, cwrite>>
      /\ call' = IF r.err = "0" THEN "parsing" ELSE call
  BY <1>7, <1>8 DEF ReceivedMore
<1>10. UNCHANGED <<is_direct, compiler_open, sread, swrite, resolver, s_connected, direction>>
  BY DEF server_vars
<1>11. TypeInv'
  <2>1. call' \in C!Call
    BY <1>1, <1>9 DEF TypeInv, C!Call
  <2> QED
    BY <2>1, <1>1, <1>7, <1>8, <1>9, <1>10 DEF TypeInv, ReceivedMore
<1>12. ErrorsInv' /\ DirectInv'
  BY <1>1, <1>9, <1>10 DEF ErrorsInv, DirectInv
<1>13. /\ Asked /\ cwrite = EmptyBuffer /\ c2s = <<>>
       /\ LaidOut(d, responses) /\ AllAnswered(responses, c_connected)
       /\ s_connected <=> ConnectedAfter(c_connected, responses, Len(responses))
       /\ builder_open =>
            \/ /\ ServerRests
               /\ Len(b.data) + Len(t) = Len(d)
            \/ /\ direction = "WRITING"
               /\ swrite.data = d
               /\ swrite.bol = Len(b.data) + Len(t)
               /\ swrite.bol < Len(d)
  BY <1>3, <1>4, <1>5, Zenon DEF Responded
<1>14. /\ Asked' /\ (ServerRests => ServerRests')
       /\ AllAnswered(responses, c_connected)'
  BY <1>9, <1>10, <1>13 DEF Asked, ServerRests, AllAnswered, Answered
<1>15. s_connected' <=> ConnectedAfter(c_connected', responses, Len(responses))
  BY <1>9, <1>10, <1>13, Zenon
<1>16. CASE r.err = "EAGAIN"
  <2>1. /\ Starts(d, r.buffer.data, rest)
        /\ Len(r.buffer.data) + Len(rest) = Len(b.data) + Len(t)
        /\ r.buffer.bol = 0
    BY <1>6, <1>7, <1>16 DEF ReceivedMore
  <2>2. builder_open' =>
          \/ /\ ServerRests'
             /\ Len(cread'.data) + Len(s2c') = Len(d)
          \/ /\ direction' = "WRITING"
             /\ swrite'.data = d
             /\ swrite'.bol = Len(cread'.data) + Len(s2c')
             /\ swrite'.bol < Len(d)
    BY <2>1, <1>8, <1>9, <1>10, <1>13, <1>14
  <2>3. Len(cread'.data) + Len(s2c') <= Len(d)
    BY <2>1, <1>6, <1>8
  <2>4. Responded(d, responses)'
    BY <2>1, <2>2, <2>3, <1>6, <1>8, <1>9, <1>10, <1>13, <1>14, <1>15, <1>3 DEF Responded
  <2>5. call' = "reading"
    BY <1>1, <1>9, <1>16
  <2> QED
    BY <2>4, <2>5, <1>11, <1>12 DEF IInv, CallInv
<1>17. CASE r.err = "0"
  <2>1. /\ r.buffer.data = d /\ rest = <<>> /\ r.buffer.bol = 0
        /\ Len(b.data) + Len(t) = Len(d)
    BY <1>6, <1>7, <1>17 DEF ReceivedMore
  <2>2. PICK before \in BOOLEAN : before <=> c_connected
    <3>1. c_connected \in BOOLEAN
      BY <1>1 DEF TypeInv
    <3> QED
      BY <3>1
  <2>3. AllAnswered(responses, before)'
    <3>1. \A i \in Nat : ConnectedAfter(before, responses, i) <=> ConnectedAfter(c_connected, responses, i)
      BY <2>2, Zenon DEF ConnectedAfter
    <3>2. before = c_connected
      BY <1>1, <2>2 DEF TypeInv
    <3>3. AllAnswered(responses, before)
      BY <3>2, <1>13
    <3> QED
      BY <3>3, <1>9 DEF AllAnswered, Answered
  <2>4. PICK at \in [1 .. Len(responses) + 1 -> 0 .. Len(d)] : Layout(d, responses, at)
    BY <1>13 DEF LaidOut
  <2>5. Len(packets') = 0 /\ 0 < Len(asked') /\ pending' = SubSeq(asked', 0 + 1, Len(asked'))
    <3>1. asked \in Seq(RequestCode) /\ asked # <<>> /\ pending = asked /\ packets = <<>>
      BY <1>1, <1>13 DEF TypeInv, Asked
    <3>2. \A X, s : s \in Seq(X) => s = SubSeq(s, 0 + 1, Len(s))
      OBVIOUS
    <3>3. pending = SubSeq(asked, 0 + 1, Len(asked))
      BY <3>1, <3>2, Zenon
    <3> QED
      BY <3>1, <3>3, <1>9
  <2>6. \E a \in [1 .. Len(responses) + 1 -> 0 .. Len(cread'.data)] :
          Layout(cread'.data, responses, a) /\ cread'.bol = a[0 + 1]
    <3>1. at[0 + 1] = 0
      BY <2>4 DEF Layout
    <3> QED
      BY <2>1, <2>4, <3>1, <1>8
  <2>7. \A i \in 1 .. 0 : FALSE
    OBVIOUS
  <2>8. c_connected' <=> ConnectedAfter(before, responses, 0)
    BY <2>2, <2>7, <1>9, Zenon DEF ConnectedAfter
  <2>9. s_connected' <=> ConnectedAfter(before, responses, Len(responses))
    BY <2>2, <1>10, <1>13, Zenon DEF ConnectedAfter
  <2>10. builder_open' => c2s' = <<>> /\ ServerRests'
    <3> SUFFICES ASSUME builder_open PROVE c2s' = <<>> /\ ServerRests'
      BY <1>9
    <3>1. ServerRests
      BY <2>1, <1>13
    <3> QED
      BY <3>1, <1>9, <1>13, <1>14
  <2>11. Parsing(responses, before)'
    <3>1. cwrite' = EmptyBuffer /\ s2c' = <<>>
      BY <2>1, <1>8, <1>9, <1>13
    <3>2. \A i \in 1 .. 0 : Tells(packets'[i], asked'[i], responses[i])
      BY <2>7
    <3> QED
      BY <3>1, <3>2, <2>3, <2>5, <2>6, <2>8, <2>9, <2>10 DEF Parsing
  <2>12. call' = "parsing"
    BY <1>9, <1>17
  <2> QED
    BY <2>11, <2>12, <1>11, <1>12 DEF IInv, CallInv
<1> QED
  BY <1>7, <1>16, <1>17 DEF ReceivedMore

-----------------------------------------------------------------------------
(* The responses become packets.                                           *)

\* What the requests may be answered, and the packets of the answers.
LEMMA SuccessLines ==
  /\ Successes(RC_CONNECT) = {ConnectResponse("default")}
  /\ \A code \in {RC_MODULE_REPO, RC_MODULE_EXPORT, RC_MODULE_IMPORT} :
       Successes(code) = {PathnameResponse(cmi) : cmi \in Word}
  /\ \A code \in {RC_MODULE_COMPILED, RC_INVOKE} : Successes(code) = {OKResponse}
  /\ Successes(RC_INCLUDE_TRANSLATE) =
       {PathnameResponse(cmi) : cmi \in Word} \cup {BoolResponse(truth) : truth \in BOOLEAN}
<1> USE DEF RC_CONNECT, RC_MODULE_REPO, RC_MODULE_EXPORT, RC_MODULE_IMPORT,
            RC_MODULE_COMPILED, RC_INVOKE, RC_INCLUDE_TRANSLATE
<1> DEFINE A == {ConnectResponse("default")}
           B == {PathnameResponse(cmi) : cmi \in Word}
           O == {OKResponse}
           T == B \cup {BoolResponse(truth) : truth \in BOOLEAN}
<1>1. \A code : Successes(code) =
        CASE code = 0 -> A [] code \in {1, 2, 3} -> B [] code \in {4, 6} -> O [] code = 5 -> T
  BY Zenon DEF Successes
<1> HIDE DEF A, B, O, T
<1>2. /\ Successes(0) = A
      /\ \A code \in {1, 2, 3} : Successes(code) = B
      /\ \A code \in {4, 6} : Successes(code) = O
      /\ Successes(5) = T
  BY <1>1
<1> QED
  BY <1>2 DEF A, B, O, T

LEMMA SuccessPackets ==
  /\ PacketFor(RC_CONNECT) = {"PC_CONNECT"}
  /\ \A code \in {RC_MODULE_REPO, RC_MODULE_EXPORT, RC_MODULE_IMPORT} :
       PacketFor(code) = {"PC_PATHNAME"}
  /\ \A code \in {RC_MODULE_COMPILED, RC_INVOKE} : PacketFor(code) = {"PC_OK"}
  /\ PacketFor(RC_INCLUDE_TRANSLATE) = {"PC_BOOL", "PC_PATHNAME"}
BY DEF PacketFor, RC_CONNECT, RC_MODULE_REPO, RC_MODULE_EXPORT, RC_MODULE_IMPORT,
       RC_MODULE_COMPILED, RC_INVOKE, RC_INCLUDE_TRANSLATE

LEMMA NoErrorSucceeds ==
  \A code \in RequestCode : "PC_ERROR" \notin PacketFor(code)
<1> SUFFICES ASSUME NEW code \in RequestCode PROVE "PC_ERROR" \notin PacketFor(code)
  OBVIOUS
<1>1. code \in {RC_MODULE_REPO, RC_MODULE_EXPORT, RC_MODULE_IMPORT, RC_MODULE_COMPILED,
                RC_INCLUDE_TRANSLATE, RC_INVOKE, RC_CONNECT}
  BY Codes
<1>2. \/ PacketFor(code) = {"PC_CONNECT"} \/ PacketFor(code) = {"PC_PATHNAME"}
      \/ PacketFor(code) = {"PC_OK"} \/ PacketFor(code) = {"PC_BOOL", "PC_PATHNAME"}
  BY <1>1, SuccessPackets
<1> QED
  BY <1>2

\* What the functions of responseTable make of a successful response.
LEMMA SuccessTells ==
  ASSUME NEW code \in RequestCode, NEW words \in Successes(code)
  PROVE  LET p == C!ResponsePacket(code, words) IN
         /\ words[1] # "ERROR"
         /\ p.code \in C!PacketCode /\ p.value \in C!PacketValue
         /\ p.code \in PacketFor(code) /\ p.code # "PC_ERROR"
         /\ p.code = "PC_CONNECT" <=> Hello(words)
<1> DEFINE p == C!ResponsePacket(code, words)
<1> SUFFICES /\ words[1] # "ERROR"
             /\ p.code \in C!PacketCode /\ p.value \in C!PacketValue
             /\ p.code \in PacketFor(code) /\ p.code # "PC_ERROR"
             /\ p.code = "PC_CONNECT" <=> Hello(words)
  OBVIOUS
<1>1. \A c, v : C!PlainPacket(c, v).code = c /\ C!PlainPacket(c, v).value = v
  BY DEF C!PlainPacket, C!Packet
<1>2. /\ Word \subseteq C!PacketValue /\ "" \in C!PacketValue /\ "0" \in C!PacketValue
      /\ "TRUE" \in C!PacketValue /\ "FALSE" \in C!PacketValue
  <2>1. Word \subseteq C!PacketValue /\ "0" \in C!PacketValue
    BY DEF C!PacketValue
  <2>2. "" \in Word
    BY SessionAssumption, Zenon
  <2>3. "TRUE" \in Word /\ "FALSE" \in Word
    BY WordAssumption, Zenon
  <2> QED
    BY <2>1, <2>2, <2>3
<1>3. {"PC_CONNECT", "PC_OK", "PC_BOOL", "PC_PATHNAME"} \subseteq C!PacketCode
  BY DEF C!PacketCode
<1> HIDE DEF p
<1>0. /\ C!RC_CONNECT = RC_CONNECT /\ C!RC_MODULE_REPO = RC_MODULE_REPO
      /\ C!RC_MODULE_EXPORT = RC_MODULE_EXPORT /\ C!RC_MODULE_IMPORT = RC_MODULE_IMPORT
      /\ C!RC_MODULE_COMPILED = RC_MODULE_COMPILED /\ C!RC_INVOKE = RC_INVOKE
      /\ C!RC_INCLUDE_TRANSLATE = RC_INCLUDE_TRANSLATE
  BY ClientCodes, Zenon
<1>4. CASE code = RC_CONNECT
  <2>1. words = <<"HELLO", "1", "default">> /\ PacketFor(code) = {"PC_CONNECT"}
    BY <1>4, SuccessLines, SuccessPackets DEF ConnectResponse
  <2>2. words[1] = "HELLO" /\ words[2] = "1" /\ Len(words) = 3
    BY <2>1
  <2>3. "1" \in DOMAIN C!Number /\ ~(C!ParseUnsigned("1") < C!Version)
    <3>1. "1" \in DOMAIN Number /\ Number["1"] = 1
      BY DEF Number
    <3>2. ParseUnsigned("1") = 1 /\ Version = 1
      BY <3>1, Zenon DEF ParseUnsigned, Version
    <3>3. ~(ParseUnsigned("1") < Version)
      BY <3>2
    <3>4. /\ DOMAIN C!Number = DOMAIN Number /\ C!ParseUnsigned("1") = ParseUnsigned("1")
          /\ C!Version = Version
      BY ClientCodes, Zenon
    <3> QED
      BY <3>1, <3>3, <3>4
  <2>0. /\ code \notin {RC_MODULE_REPO, RC_MODULE_EXPORT, RC_MODULE_IMPORT}
        /\ code \notin {RC_MODULE_COMPILED, RC_INVOKE} /\ code # RC_INCLUDE_TRANSLATE
    BY <1>4 DEF RC_CONNECT, RC_MODULE_REPO, RC_MODULE_EXPORT, RC_MODULE_IMPORT,
                RC_MODULE_COMPILED, RC_INVOKE, RC_INCLUDE_TRANSLATE
  <2>4. p = IF words[1] = "HELLO" /\ Len(words) \in {3, 4}
            THEN IF words[2] \notin DOMAIN C!Number \/ C!ParseUnsigned(words[2]) < C!Version
                 THEN C!PlainPacket("PC_ERROR", C!IncompatibleVersion)
                 ELSE C!PlainPacket("PC_CONNECT",
                        IF Len(words) = 4 /\ words[4] \in {"1", "2"} THEN words[4] ELSE "0")
            ELSE C!PlainPacket("PC_ERROR", "")
    BY <1>4, <2>0, <1>0 DEF p, C!ResponsePacket
  <2>5. p = C!PlainPacket("PC_CONNECT", "0")
    BY <2>2, <2>3, <2>4
  <2>6. p.code = "PC_CONNECT" /\ p.value = "0"
    BY <2>5, <1>1
  <2>7. Hello(words) /\ words[1] # "ERROR"
    BY <2>2 DEF Hello
  <2> QED
    BY <2>1, <2>6, <2>7, <1>2, <1>3
<1>5. ASSUME code # RC_CONNECT, NEW cmi \in Word, words = PathnameResponse(cmi),
             "PC_PATHNAME" \in PacketFor(code),
             p = IF words[1] = "PATHNAME" /\ Len(words) = 2
                 THEN C!PlainPacket("PC_PATHNAME", words[2]) ELSE C!PlainPacket("PC_ERROR", "")
      PROVE  /\ words[1] # "ERROR"
             /\ p.code \in C!PacketCode /\ p.value \in C!PacketValue
             /\ p.code \in PacketFor(code) /\ p.code # "PC_ERROR"
             /\ p.code = "PC_CONNECT" <=> Hello(words)
  <2>1. words[1] = "PATHNAME" /\ words[2] = cmi /\ Len(words) = 2
    BY <1>5 DEF PathnameResponse
  <2>2. p = C!PlainPacket("PC_PATHNAME", cmi)
    BY <1>5, <2>1
  <2>3. p.code = "PC_PATHNAME" /\ p.value = cmi
    BY <2>2, <1>1
  <2>4. ~Hello(words) /\ words[1] # "ERROR"
    BY <2>1 DEF Hello
  <2> QED
    BY <2>3, <2>4, <1>2, <1>3, <1>5
<1>6. CASE code \in {RC_MODULE_REPO, RC_MODULE_EXPORT, RC_MODULE_IMPORT}
  <2>1. /\ code # RC_CONNECT /\ code \notin {RC_MODULE_COMPILED, RC_INVOKE}
        /\ code # RC_INCLUDE_TRANSLATE
    BY <1>6 DEF RC_CONNECT, RC_MODULE_REPO, RC_MODULE_EXPORT, RC_MODULE_IMPORT,
                RC_MODULE_COMPILED, RC_INVOKE, RC_INCLUDE_TRANSLATE
  <2>2. PICK cmi \in Word : words = PathnameResponse(cmi)
    BY <1>6, SuccessLines
  <2>3. "PC_PATHNAME" \in PacketFor(code)
    BY <1>6, SuccessPackets
  <2>4. p = IF words[1] = "PATHNAME" /\ Len(words) = 2
            THEN C!PlainPacket("PC_PATHNAME", words[2]) ELSE C!PlainPacket("PC_ERROR", "")
    BY <1>6, <2>1, <1>0 DEF p, C!ResponsePacket
  <2> QED
    BY <1>5, <2>1, <2>2, <2>3, <2>4
<1>7. CASE code \in {RC_MODULE_COMPILED, RC_INVOKE}
  <2>1. /\ code # RC_CONNECT /\ code \notin {RC_MODULE_REPO, RC_MODULE_EXPORT, RC_MODULE_IMPORT}
        /\ code # RC_INCLUDE_TRANSLATE
    BY <1>7 DEF RC_CONNECT, RC_MODULE_REPO, RC_MODULE_EXPORT, RC_MODULE_IMPORT,
                RC_MODULE_COMPILED, RC_INVOKE, RC_INCLUDE_TRANSLATE
  <2>2. words = <<"OK">> /\ PacketFor(code) = {"PC_OK"}
    BY <1>7, SuccessLines, SuccessPackets DEF OKResponse
  <2>3. words[1] = "OK"
    BY <2>2
  <2>4. p = C!PlainPacket("PC_OK", "")
    BY <1>7, <2>1, <2>3, <1>0 DEF p, C!ResponsePacket
  <2> QED
    BY <2>2, <2>3, <2>4, <1>1, <1>2, <1>3, ZenonT(60) DEF Hello
<1>8. CASE code = RC_INCLUDE_TRANSLATE
  <2>1. /\ code # RC_CONNECT /\ code \notin {RC_MODULE_REPO, RC_MODULE_EXPORT, RC_MODULE_IMPORT}
        /\ code \notin {RC_MODULE_COMPILED, RC_INVOKE}
    BY <1>8 DEF RC_CONNECT, RC_MODULE_REPO, RC_MODULE_EXPORT, RC_MODULE_IMPORT,
                RC_MODULE_COMPILED, RC_INVOKE, RC_INCLUDE_TRANSLATE
  <2>2. PacketFor(code) = {"PC_BOOL", "PC_PATHNAME"}
    BY <1>8, SuccessPackets
  <2>3. p = IF words[1] = "BOOL" /\ Len(words) = 2
            THEN IF words[2] \in {"TRUE", "FALSE"}
                 THEN C!PlainPacket("PC_BOOL", words[2]) ELSE C!PlainPacket("PC_ERROR", "")
            ELSE IF words[1] = "PATHNAME" /\ Len(words) = 2
            THEN C!PlainPacket("PC_PATHNAME", words[2]) ELSE C!PlainPacket("PC_ERROR", "")
    BY <1>8, <2>1, <1>0 DEF p, C!ResponsePacket
  <2>4. \/ \E cmi \in Word : words = PathnameResponse(cmi)
        \/ \E truth \in BOOLEAN : words = BoolResponse(truth)
    BY <1>8, SuccessLines
  <2>5. ASSUME NEW cmi \in Word, words = PathnameResponse(cmi)
        PROVE  p = IF words[1] = "PATHNAME" /\ Len(words) = 2
                   THEN C!PlainPacket("PC_PATHNAME", words[2]) ELSE C!PlainPacket("PC_ERROR", "")
    <3>1. words[1] = "PATHNAME"
      BY <2>5 DEF PathnameResponse
    <3> QED
      BY <2>3, <3>1
  <2>6. ASSUME NEW truth \in BOOLEAN, words = BoolResponse(truth)
        PROVE  /\ words[1] # "ERROR"
               /\ p.code \in C!PacketCode /\ p.value \in C!PacketValue
               /\ p.code \in PacketFor(code) /\ p.code # "PC_ERROR"
               /\ p.code = "PC_CONNECT" <=> Hello(words)
    <3>1. words[1] = "BOOL" /\ Len(words) = 2 /\ words[2] \in {"TRUE", "FALSE"}
      BY <2>6 DEF BoolResponse
    <3>2. p = C!PlainPacket("PC_BOOL", words[2])
      BY <2>3, <3>1
    <3>3. words[2] \in C!PacketValue
      BY <3>1, <1>2
    <3> QED
      BY <2>2, <3>1, <3>2, <3>3, <1>1, <1>3 DEF Hello
  <2> QED
    BY <1>5, <2>1, <2>2, <2>4, <2>5, <2>6
<1> QED
  <2>1. code \in {RC_MODULE_REPO, RC_MODULE_EXPORT, RC_MODULE_IMPORT, RC_MODULE_COMPILED,
                  RC_INCLUDE_TRANSLATE, RC_INVOKE, RC_CONNECT}
    BY Codes
  <2> QED
    BY <1>4, <1>6, <1>7, <1>8, <2>1

\* Each packet tells of its response.
LEMMA NextPacketTells ==
  ASSUME NEW code \in RequestCode, NEW line \in Seq(Word), NEW before, Answer(code, line, before),
         NEW isLast,
         ~IsAtEnd(cread), Lex(cread).text = line, Lex(cread).err = "0",
         isLast => IsAtEnd(Lex(cread).buffer)
  PROVE  LET p == C!NextPacket(code, isLast) IN
         /\ p \in [code : C!PacketCode, request : RequestCode, value : C!PacketValue]
         /\ Tells(p, code, line)
<1> DEFINE p == C!NextPacket(code, isLast)
           q == C!ResponsePacket(code, line)
           P == [code : C!PacketCode, request : RequestCode, value : C!PacketValue]
<1> SUFFICES p \in P /\ Tells(p, code, line)
  OBVIOUS
<1>1. p = IF line[1] = "ERROR"
          THEN C!PlainPacket("PC_ERROR", IF Len(line) = 2 THEN line[2] ELSE C!MalformedError)
          ELSE IF q.code = "PC_ERROR" /\ q.value = ""
          THEN C!Packet("PC_ERROR", code, C!MalformedResponse)
          ELSE C!Packet(q.code, code, q.value)
  BY ClientBuffers, Zenon DEF C!NextPacket
<1>2. \A c, r, v : /\ C!Packet(c, r, v).code = c /\ C!Packet(c, r, v).value = v
                   /\ c \in C!PacketCode /\ r \in RequestCode /\ v \in C!PacketValue
                        => C!Packet(c, r, v) \in P
  BY DEF C!Packet
<1> HIDE DEF p, q, P
<1>3. CASE \E error \in ErrorText : line = ErrorResponse(error)
  <2>1. PICK error \in ErrorText : line = ErrorResponse(error)
    BY <1>3
  <2>2. line[1] = "ERROR" /\ Len(line) = 2 /\ line[2] = error
    BY <2>1 DEF ErrorResponse
  <2>3. p = C!Packet("PC_ERROR", C!RC_CONNECT, error)
    BY <1>1, <2>2 DEF C!PlainPacket
  <2>4. error \in C!PacketValue
    <3>1. ErrorText \subseteq Word
      BY WordAssumption, Zenon
    <3> QED
      BY <3>1 DEF C!PacketValue
  <2>5. "PC_ERROR" \in C!PacketCode /\ C!RC_CONNECT \in RequestCode
    BY ClientCodes, RequestVerbs DEF C!PacketCode
  <2> QED
    BY <1>2, <2>2, <2>3, <2>4, <2>5 DEF Tells, Hello
<1>4. CASE line \in Successes(code)
  <2>1. line[1] # "ERROR"
    BY <1>4, SuccessTells, Zenon
  <2>2. q.code \in C!PacketCode /\ q.value \in C!PacketValue
    BY <1>4, SuccessTells, Zenon DEF q
  <2>3. q.code \in PacketFor(code) /\ q.code # "PC_ERROR"
    BY <1>4, SuccessTells, Zenon DEF q
  <2>4. q.code = "PC_CONNECT" <=> Hello(line)
    BY <1>4, SuccessTells, Zenon DEF q
  <2>5. p = C!Packet(q.code, code, q.value)
    BY <1>1, <2>1, <2>3
  <2> QED
    BY <1>2, <2>1, <2>2, <2>3, <2>4, <2>5 DEF Tells
<1> QED
  BY <1>3, <1>4 DEF Answer

\* A packet more, and with the last of them the call ends.
Parsed(responses, before) ==
  LET k == Len(packets') IN
  /\ k = Len(packets) + 1
  /\ call' = IF k = Len(asked) THEN "idle" ELSE "parsing"
  /\ \A i \in 1 .. k : Tells(packets'[i], asked[i], responses[i])
  /\ c_connected' <=> ConnectedAfter(before, responses, k)
  /\ UNCHANGED <<asked, builder_open>>

LEMMA ParseStep ==
  ASSUME IInv, NEW responses \in Seq(Seq(Word)), NEW before \in BOOLEAN,
         Parsing(responses, before),
         C!ParseResponse, UNCHANGED <<is_direct, server_vars, compiler_open>>
  PROVE  IInv' /\ Parsed(responses, before)
<1> DEFINE P == [code : C!PacketCode, request : RequestCode, value : C!PacketValue]
           Good == Seq(Word) \ {<<>>}
<1>1. TypeInv /\ ErrorsInv /\ DirectInv /\ call = "parsing"
  BY DEF IInv, C!ParseResponse
<1>2. Parsing(responses, before) /\ responses \in Seq(Seq(Word)) /\ before \in BOOLEAN
  OBVIOUS
<1>3. PICK k \in Nat : k = Len(packets)
  BY <1>1 DEF TypeInv
<1>4. PICK b \in Buffer : b = cread
  BY <1>1 DEF TypeInv
<1>5. PICK codes \in Seq(RequestCode) : codes = asked
  BY <1>1 DEF TypeInv
<1>6. /\ k < Len(codes) /\ pending = SubSeq(codes, k + 1, Len(codes))
      /\ cwrite = EmptyBuffer /\ s2c = <<>>
      /\ AllAnswered(responses, before)
      /\ \A i \in 1 .. k : Tells(packets[i], codes[i], responses[i])
      /\ c_connected <=> ConnectedAfter(before, responses, k)
      /\ s_connected <=> ConnectedAfter(before, responses, Len(responses))
      /\ builder_open => c2s = <<>> /\ ServerRests
  BY <1>2, <1>3, <1>5, Zenon DEF Parsing
<1>7. PICK at \in [1 .. Len(responses) + 1 -> 0 .. Len(b.data)] :
        Layout(b.data, responses, at) /\ b.bol = at[k + 1]
  BY <1>2, <1>3, <1>4, Zenon DEF Parsing
<1>8. /\ responses \in Seq(Good) /\ Len(responses) = Len(codes)
      /\ \A i \in 1 .. Len(responses) :
           Answer(codes[i], responses[i], ConnectedAfter(before, responses, i - 1))
  BY <1>5, <1>6 DEF AllAnswered, Answered
<1>9. /\ Len(codes) \in Nat /\ k \in 0 .. Len(responses) /\ k < Len(responses)
      /\ k + 1 \in 1 .. Len(responses) /\ (k + 1) - 1 = k /\ codes[k + 1] \in RequestCode
      /\ \A i \in 1 .. k + 1 : i \in 1 .. k \/ i = k + 1
      /\ \A i \in 1 .. k : i \in 1 .. k + 1
  BY <1>6, <1>8
<1> DEFINE line == responses[k + 1]
           code == codes[k + 1]
           isLast == Len(pending) = 1
           p == C!NextPacket(code, isLast)
<1>10. line \in Seq(Word) /\ line # <<>> /\ \A i \in 1 .. Len(line) : line[i] \in Word
  <2>1. line \in Good
    BY <1>8, <1>9
  <2> HIDE DEF line
  <2> QED
    BY <2>1
<1>11. Answer(code, line, ConnectedAfter(before, responses, k))
  <2>1. Answer(codes[k + 1], responses[k + 1], ConnectedAfter(before, responses, (k + 1) - 1))
    BY <1>8, <1>9
  <2> QED
    BY <2>1, <1>9
<1>12. /\ ~IsAtEnd(b)
       /\ Lex(b).text = line
       /\ Lex(b).buffer = [data |-> b.data, bol |-> at[k + 2]]
       /\ Lex(b).err = "0"
       /\ IsAtEnd(Lex(b).buffer) <=> k + 1 = Len(responses)
  <2>1. responses \in Seq(Seq(Text))
    BY <1>2 DEF Text
  <2>2. /\ IsAtEnd(b) <=> k = Len(responses)
        /\ k < Len(responses) =>
              /\ Lex(b).text = responses[k + 1]
              /\ Lex(b).buffer = [data |-> b.data, bol |-> at[k + 2]]
              /\ Lex(b).err = IF \E i \in 1 .. Len(responses[k + 1]) : responses[k + 1][i] \notin Word
                                THEN "EINVAL"
                                ELSE IF responses[k + 1] = <<>> THEN "ENOENT" ELSE "0"
              /\ IsAtEnd(Lex(b).buffer) <=> k + 1 = Len(responses)
    BY <2>1, <1>7, <1>9, LexInLayout
  <2>3. k # Len(responses)
    BY <1>9
  <2>4. Lex(b).err = "0"
    BY <2>2, <1>9, <1>10
  <2> QED
    BY <2>2, <2>3, <2>4, <1>9
<1>13. /\ Head(pending) = code
       /\ isLast <=> k + 1 = Len(codes)
       /\ Tail(pending) \in Seq(RequestCode)
       /\ Tail(pending) = SubSeq(codes, (k + 1) + 1, Len(codes))
       /\ k + 1 = Len(codes) => Tail(pending) = <<>>
  BY <1>6, PendingShrinks
<1>14. /\ packets' = Append(packets, p)
       /\ pending' = Tail(pending)
       /\ cread' = Lex(b).buffer
       /\ c_connected' = (c_connected \/ p.code = "PC_CONNECT")
       /\ call' = IF isLast THEN "idle" ELSE "parsing"
       /\ corked' = IF isLast THEN <<>> ELSE corked
       /\ UNCHANGED <<c2s, s2c, cwrite, asked, builder_open>>
  BY <1>1, <1>4, <1>12, <1>13, ClientBuffers DEF C!ParseResponse
<1>15. UNCHANGED <<is_direct, compiler_open, sread, swrite, resolver, s_connected, direction>>
  BY DEF server_vars
<1> HIDE DEF line, code, isLast, p, P
<1>16. p \in P /\ Tells(p, code, line)
  <2>1. code \in RequestCode
    BY <1>9 DEF code
  <2>2. isLast => IsAtEnd(Lex(cread).buffer)
    BY <1>4, <1>8, <1>12, <1>13
  <2>3. ~IsAtEnd(cread) /\ Lex(cread).text = line /\ Lex(cread).err = "0"
    BY <1>4, <1>12
  <2>4. /\ C!NextPacket(code, isLast) \in P
        /\ Tells(C!NextPacket(code, isLast), code, line)
    BY <1>10, <1>11, <2>1, <2>2, <2>3, NextPacketTells, Zenon DEF P
  <2> QED
    BY <2>4 DEF p
<1>17. /\ packets' \in Seq(P) /\ Len(packets') = k + 1
       /\ \A i \in 1 .. k : packets'[i] = packets[i]
       /\ packets'[k + 1] = p
  <2>1. packets \in Seq(P)
    BY <1>1 DEF TypeInv, P
  <2> QED
    BY <2>1, <1>3, <1>14, <1>16, AppendProperties
<1>18. \A i \in 1 .. k + 1 : Tells(packets'[i], codes[i], responses[i])
  <2>1. \A i \in 1 .. k : Tells(packets'[i], codes[i], responses[i])
    BY <1>6, <1>17
  <2>2. Tells(packets'[k + 1], codes[k + 1], responses[k + 1])
    BY <1>16, <1>17 DEF code, line
  <2> QED
    BY <2>1, <2>2, <1>9
<1>19. c_connected' <=> ConnectedAfter(before, responses, k + 1)
  <2>1. p.code = "PC_CONNECT" <=> Hello(line)
    BY <1>16 DEF Tells
  <2>2. (\E j \in 1 .. k + 1 : Hello(responses[j]))
          <=> (\E j \in 1 .. k : Hello(responses[j])) \/ Hello(line)
    <3>1. k + 1 \in 1 .. k + 1
      BY <1>9
    <3> QED
      BY <3>1, <1>9 DEF line
  <2> QED
    BY <2>1, <2>2, <1>6, <1>14, Zenon DEF ConnectedAfter
<1>20. TypeInv'
  <2>1. cread' \in Buffer
    <3>1. cread' = [data |-> b.data, bol |-> at[k + 2]]
      BY <1>12, <1>14
    <3>2. k + 2 \in 1 .. Len(responses) + 1
      BY <1>9
    <3>3. b.data \in Seq(Symbol) /\ at[k + 2] \in 0 .. Len(b.data)
      BY <1>4, <3>2 DEF Buffer
    <3> QED
      BY <3>1, <3>3 DEF Buffer
  <2>2. call' \in C!Call /\ pending' \in Seq(RequestCode)
    BY <1>13, <1>14 DEF C!Call
  <2>3. c_connected' \in BOOLEAN
    BY <1>14
  <2>4. corked' \in Seq(RequestCode \cup {C!CorkMark})
    <3>1. corked \in Seq(RequestCode \cup {C!CorkMark})
      BY <1>1 DEF TypeInv
    <3>2. <<>> \in Seq(RequestCode \cup {C!CorkMark})
      OBVIOUS
    <3> QED
      BY <3>1, <3>2, <1>14, Zenon
  <2> QED
    BY <2>1, <2>2, <2>3, <2>4, <1>1, <1>14, <1>15, <1>17 DEF TypeInv, P
<1>21. DirectInv'
  BY <1>1, <1>14, <1>15 DEF DirectInv
<1>22. ErrorsInv'
  <2>1. p.code = "PC_ERROR" => p.value \in ErrorText
    <3>1. "PC_ERROR" \notin PacketFor(code)
      BY <1>9, NoErrorSucceeds DEF code
    <3> QED
      BY <3>1, <1>16 DEF Tells
  <2>2. \A i \in 1 .. k : packets'[i].code = "PC_ERROR" =>
          \/ packets'[i].value \in ErrorText
          \/ packets'[i] = C!CommunicationError /\ ~builder_open
    BY <1>1, <1>3, <1>17 DEF ErrorsInv
  <2>3. \A i \in 1 .. k + 1 : packets'[i].code = "PC_ERROR" =>
          \/ packets'[i].value \in ErrorText
          \/ packets'[i] = C!CommunicationError /\ ~builder_open
    BY <2>1, <2>2, <1>9, <1>17
  <2> QED
    BY <2>3, <1>14, <1>17 DEF ErrorsInv
<1>23. ServerRests => ServerRests'
  BY <1>15 DEF ServerRests
<1>24. ASSUME isLast PROVE IInv'
  <2>1. k + 1 = Len(responses) /\ pending' = <<>> /\ corked' = <<>> /\ call' = "idle"
    BY <1>8, <1>13, <1>14, <1>24
  <2>2. Queue' = <<>>
    BY <2>1 DEF Queue
  <2>3. c_connected' <=> s_connected'
    <3>1. s_connected' <=> ConnectedAfter(before, responses, k + 1)
      BY <2>1, <1>6, <1>15
    <3> QED
      BY <3>1, <1>19
  <2>4. <<>> \in Seq(Seq(Word)) /\ Requests(<<>>, <<>>) /\ Told(EmptyBuffer, <<>>)
    BY DEF Requests, Told
  <2>5. Requests(<<>>, Queue') /\ Told(cwrite', <<>>) /\ Queue' \in Seq(RequestCode)
    BY <2>2, <2>4, <1>6, <1>14
  <2>6. \E lines \in Seq(Seq(Word)) : Requests(lines, Queue') /\ Told(cwrite', lines)
    BY <2>4, <2>5
  <2>7. builder_open' => c2s' = <<>> /\ ServerRests' /\ IsAtEnd(cread')
    BY <2>1, <1>6, <1>12, <1>14, <1>23
  <2>8. Idle'
    BY <2>1, <2>3, <2>5, <2>6, <2>7, <1>6, <1>14 DEF Idle
  <2> QED
    BY <2>1, <2>8, <1>20, <1>21, <1>22 DEF IInv, CallInv
<1>25. ASSUME ~isLast PROVE IInv'
  <2>1. /\ call' = "parsing" /\ k + 1 < Len(codes) /\ pending' = SubSeq(codes, (k + 1) + 1, Len(codes))
    BY <1>6, <1>9, <1>13, <1>14, <1>25, SMTT(40)
  <2>2. AllAnswered(responses, before)'
    BY <1>6, <1>14 DEF AllAnswered, Answered
  <2>3. \E a \in [1 .. Len(responses) + 1 -> 0 .. Len(cread'.data)] :
          Layout(cread'.data, responses, a) /\ cread'.bol = a[(k + 1) + 1]
    <3>1. cread'.data = b.data /\ cread'.bol = at[(k + 1) + 1]
      <4>1. (k + 1) + 1 = k + 2
        BY <1>9
      <4> QED
        BY <4>1, <1>12, <1>14
    <3>2. at \in [1 .. Len(responses) + 1 -> 0 .. Len(cread'.data)]
      BY <3>1
    <3>3. Layout(cread'.data, responses, at)
      BY <3>1, <1>7
    <3> QED
      BY <3>1, <3>2, <3>3
  <2>4. /\ asked' = codes /\ cwrite' = EmptyBuffer /\ s2c' = <<>>
        /\ builder_open' => c2s' = <<>> /\ ServerRests'
        /\ s_connected' <=> ConnectedAfter(before, responses, Len(responses))
    BY <1>5, <1>6, <1>14, <1>15, <1>23
  <2>5. Parsing(responses, before)'
    BY <2>1, <2>2, <2>3, <2>4, <1>17, <1>18, <1>19 DEF Parsing
  <2> QED
    BY <2>1, <2>5, <1>20, <1>21, <1>22 DEF IInv, CallInv
<1>26. Parsed(responses, before)
  <2>1. call' = IF Len(packets') = Len(asked) THEN "idle" ELSE "parsing"
    BY <1>5, <1>13, <1>14, <1>17
  <2>2. \A i \in 1 .. Len(packets') : Tells(packets'[i], asked[i], responses[i])
    BY <1>5, <1>17, <1>18
  <2> QED
    BY <2>1, <2>2, <1>3, <1>14, <1>17, <1>19 DEF Parsed
<1> QED
  BY <1>24, <1>25, <1>26

LEMMA ParseIInv ==
  ASSUME IInv, C!ParseResponse, UNCHANGED <<is_direct, server_vars, compiler_open>>
  PROVE  IInv'
<1>1. PICK responses \in Seq(Seq(Word)), before \in BOOLEAN : Parsing(responses, before)
  BY DEF IInv, CallInv, C!ParseResponse
<1> QED
  BY <1>1, ParseStep

-----------------------------------------------------------------------------
(* The server reads.                                                       *)

\* More of the requests, or the rest of them, reach the server.
LEMMA HearIInv ==
  ASSUME IInv, ~is_direct, NEW n \in 1 .. PipeCapacity, S!ReadStep(n),
         UNCHANGED <<is_direct, client_vars, compiler_open>>
  PROVE  IInv'
<1>1. TypeInv /\ ErrorsInv /\ DirectInv /\ CallInv /\ direction = "READING" /\ builder_open
  BY DEF IInv, S!ReadStep
<1>2. PICK t \in Seq(Symbol) : t = c2s
  BY <1>1 DEF TypeInv
<1>3. PICK b \in Buffer : b = sread
  BY <1>1 DEF TypeInv
<1>4. n \in 1 .. Len(t) /\ t # <<>> /\ Heard = b.data
  <2>1. n <= Len(t) /\ Len(t) \in Nat
    BY <1>2 DEF S!ReadStep
  <2>2. Heard = b.data
    BY <1>1, <1>3 DEF Heard
  <2> QED
    BY <2>1, <2>2
<1> DEFINE r == ReadSome(b, SubSeq(t, 1, n))
           rest == SubSeq(t, n + 1, Len(t))
<1>5. /\ c2s' = rest /\ sread' = r.buffer
      /\ direction' = IF r.err = "EAGAIN" THEN "READING" ELSE "PROCESSING"
      /\ UNCHANGED <<s2c, swrite, resolver, s_connected, builder_open>>
  BY <1>2, <1>3, ServerBuffers DEF S!ReadStep
<1>6. UNCHANGED <<is_direct, compiler_open, cwrite, cread, corked, c_connected, call, pending,
                  packets, asked>>
  BY DEF client_vars
<1> HIDE DEF r, rest
<1>7. ASSUME ReceivedMore(b, t, b.data, r, rest) \/ \E d \in Seq(Symbol) : ReceivedMore(b, t, d, r, rest)
      PROVE  TypeInv'
  <2>1. r.buffer \in Buffer /\ rest \in Seq(Symbol)
    BY <1>7 DEF ReceivedMore
  <2>2. direction' \in S!Direction
    BY <1>5 DEF S!Direction
  <2> QED
    BY <2>1, <2>2, <1>1, <1>5, <1>6 DEF TypeInv
<1>8. ErrorsInv' /\ DirectInv'
  BY <1>1, <1>5, <1>6 DEF ErrorsInv, DirectInv
<1>9. call \in {"writing", "reading"}
  <2>1. call # "idle"
    BY <1>1, <1>2, <1>4 DEF CallInv, Idle
  <2>2. call # "parsing"
    BY <1>1, <1>2, <1>4, Zenon DEF CallInv, Parsing
  <2> QED
    BY <2>1, <2>2, <1>1 DEF TypeInv, C!Call
<1>10. ASSUME NEW d \in Seq(Symbol), Asks(d), Starts(d, Heard, c2s), Len(Heard) + Len(c2s) <= Len(d)
       PROVE  ReceivedMore(b, t, d, r, rest)
  <2>1. Framed(d) /\ Starts(d, b.data, t) /\ Len(b.data) + Len(t) <= Len(d) /\ n \in 1 .. Len(t)
    BY <1>2, <1>4, <1>10 DEF Asks
  <2> QED
    BY <2>1, ReceivePiece, Zenon DEF r, rest
<1>11. /\ Asking => Asking'
       /\ \A d : Asks(d) => Asks(d)'
  BY <1>5, <1>6 DEF Asking, Asked, Asks
<1>12. CASE call = "writing"
  <2>1. Writing
    BY <1>1, <1>12 DEF CallInv
  <2>2. PICK d \in Seq(Symbol) : d = cwrite.data
    BY <1>1 DEF TypeInv, Buffer
  <2>3. PICK m \in Nat : m = cwrite.bol
    BY <1>1 DEF TypeInv, Buffer
  <2>4. /\ Asking /\ Asks(d) /\ m < Len(d)
        /\ swrite = EmptyBuffer /\ (s_connected <=> c_connected)
        /\ Hearing
        /\ m = Len(b.data) + Len(t)
        /\ Starts(d, Heard, c2s)
    BY <2>1, <2>2, <2>3, <1>1, <1>2, <1>4 DEF Writing
  <2>5. ReceivedMore(b, t, d, r, rest)
    <3>1. Len(Heard) + Len(c2s) <= Len(d)
      BY <2>4, <1>2, <1>4
    <3> QED
      BY <3>1, <2>4, <1>10
  <2>6. r.err = "EAGAIN"
    BY <2>4, <2>5 DEF ReceivedMore
  <2>7. /\ Starts(d, r.buffer.data, rest)
        /\ Len(r.buffer.data) + Len(rest) = m
        /\ r.buffer.bol = 0
    BY <2>4, <2>5, <2>6, <1>1, <1>3 DEF ReceivedMore, Hearing
  <2>8. Heard' = r.buffer.data /\ Hearing'
    BY <2>6, <2>7, <1>5 DEF Heard, Hearing
  <2>9. Writing'
    <3>1. Asking' /\ Asks(d)'
      BY <2>4, <1>11
    <3>2. cwrite'.data = d /\ cwrite'.bol = m /\ swrite' = EmptyBuffer
      BY <2>2, <2>3, <2>4, <1>5, <1>6
    <3>3. m = Len(Heard') + Len(c2s') /\ Starts(d, Heard', c2s')
      BY <2>7, <2>8, <1>5
    <3>4. ~is_direct' /\ (s_connected' <=> c_connected')
      BY <2>4, <1>5, <1>6
    <3> QED
      BY <3>1, <3>2, <3>3, <3>4, <2>4, <2>8 DEF Writing
  <2>10. TypeInv'
    BY <2>5, <1>7
  <2> QED
    BY <2>9, <2>10, <1>6, <1>8, <1>12 DEF IInv, CallInv
<1>13. CASE call = "reading"
  <2>1. PICK d \in Seq(Symbol) : Waiting(d)
    <3>1. ~\E responses \in Seq(Seq(Word)) : Processing(responses)
      BY <1>1 DEF Processing
    <3>2. ~\E block \in Seq(Symbol), responses \in Seq(Seq(Word)) : Responded(block, responses)
      BY <1>2, <1>4 DEF Responded
    <3> QED
      BY <3>1, <3>2, <1>1, <1>13 DEF CallInv
  <2>2. /\ Asking /\ Asks(d) /\ cwrite = EmptyBuffer /\ swrite = EmptyBuffer
        /\ Hearing
        /\ Len(d) = Len(b.data) + Len(t)
        /\ Starts(d, Heard, c2s)
        /\ s_connected <=> c_connected
    BY <2>1, <1>2, <1>4 DEF Waiting
  <2>3. ReceivedMore(b, t, d, r, rest)
    <3>1. Len(Heard) + Len(c2s) <= Len(d)
      BY <2>2, <1>2, <1>4
    <3> QED
      BY <3>1, <2>2, <1>10
  <2>4. TypeInv'
    BY <2>3, <1>7
  <2>5. r.buffer.bol = 0
    BY <2>2, <2>3, <1>1, <1>3 DEF ReceivedMore, Hearing
  <2>6. CASE r.err = "EAGAIN"
    <3>1. Starts(d, r.buffer.data, rest) /\ Len(r.buffer.data) + Len(rest) = Len(d)
      BY <2>2, <2>3, <2>6 DEF ReceivedMore
    <3>2. Heard' = r.buffer.data /\ Hearing'
      BY <2>5, <2>6, <1>5 DEF Heard, Hearing
    <3>3. Waiting(d)'
      BY <3>1, <3>2, <2>2, <1>5, <1>6, <1>11 DEF Waiting
    <3> QED
      BY <3>3, <2>4, <1>6, <1>8, <1>13 DEF IInv, CallInv
  <2>7. CASE r.err # "EAGAIN"
    <3>1. r.buffer.data = d /\ rest = <<>> /\ direction' = "PROCESSING"
      BY <2>3, <2>7, <1>5 DEF ReceivedMore
    <3>2. PICK lines \in Seq(Seq(Word)) : Requests(lines, asked) /\ LaidOut(d, lines)
      BY <2>2 DEF Asks
    <3>3. PICK at \in [1 .. Len(lines) + 1 -> 0 .. Len(d)] : Layout(d, lines, at)
      BY <3>2 DEF LaidOut
    <3>4. at[1] = 0 /\ Len(<<>>) + 1 = 1 /\ \A i \in 1 .. Len(<<>>) : FALSE
      BY <3>3 DEF Layout
    <3>5. Requests(lines, asked')
      BY <3>2, <1>6
    <3>6. \E a \in [1 .. Len(lines) + 1 -> 0 .. Len(sread'.data)] :
            Layout(sread'.data, lines, a) /\ sread'.bol = a[Len(<<>>) + 1]
      <4>1. sread'.data = d /\ sread'.bol = at[Len(<<>>) + 1]
        BY <3>1, <3>4, <2>5, <1>5
      <4> QED
        BY <4>1, <3>3
    <3>7. Answered(<<>>, c_connected)'
      <4>1. <<>> \in Seq(Seq(Word) \ {<<>>}) /\ Len(<<>>) <= Len(asked')
        BY <1>1, <1>6 DEF TypeInv
      <4> QED
        BY <4>1, <3>4 DEF Answered
    <3>8. Told(swrite', <<>>)
      BY <2>2, <1>5 DEF Told
    <3>9. s_connected' <=> ConnectedAfter(c_connected', <<>>, Len(<<>>))
      BY <2>2, <3>4, <1>5, <1>6, Zenon DEF ConnectedAfter
    <3>10. \E ls \in Seq(Seq(Word)) :
             /\ Requests(ls, asked')
             /\ \E a \in [1 .. Len(ls) + 1 -> 0 .. Len(sread'.data)] :
                  Layout(sread'.data, ls, a) /\ sread'.bol = a[Len(<<>>) + 1]
      BY <3>5, <3>6
    <3>11. Processing(<<>>)'
      BY <3>1, <3>7, <3>8, <3>9, <3>10, <2>2, <1>5, <1>6, <1>11, Zenon DEF Processing
    <3>12. <<>> \in Seq(Seq(Word))
      OBVIOUS
    <3>13. CallInv'
      BY <3>11, <3>12, <1>6, <1>13 DEF CallInv
    <3> QED
      BY <3>13, <2>4, <1>8 DEF IInv
  <2> QED
    BY <2>6, <2>7
<1> QED
  BY <1>9, <1>12, <1>13

\* A builder that goes leaves the client to find out.
LEMMA GoIInv ==
  ASSUME IInv, ~is_direct, builder_open' = FALSE,
         swrite' = swrite \/ (direction = "WRITING" /\ swrite' = EmptyBuffer),
         UNCHANGED <<c2s, s2c, sread, resolver, s_connected, direction>>,
         UNCHANGED <<is_direct, client_vars, compiler_open>>
  PROVE  IInv'
<1>1. TypeInv /\ ErrorsInv /\ DirectInv /\ CallInv
  BY DEF IInv
<1>2. UNCHANGED <<is_direct, compiler_open, cwrite, cread, corked, c_connected, call, pending,
                  packets, asked, c2s, s2c, sread, resolver, s_connected, direction>>
  BY DEF client_vars
<1>3. TypeInv'
  <2>1. swrite' \in Buffer
    BY <1>1, EmptyBufferType DEF TypeInv
  <2> QED
    BY <2>1, <1>1, <1>2 DEF TypeInv
<1>4. ErrorsInv' /\ DirectInv'
  BY <1>1, <1>2 DEF ErrorsInv, DirectInv
<1>5. /\ Asked => Asked'
      /\ Asking => Asking'
      /\ Heard' = Heard /\ (Hearing => Hearing') /\ Queue' = Queue
      /\ \A d : Asks(d) => Asks(d)'
      /\ \A responses, before : Answered(responses, before) => Answered(responses, before)'
  BY <1>2 DEF Asked, Asking, Heard, Hearing, Queue, Asks, Answered
<1>6. call = "idle" => Idle'
  <2> SUFFICES ASSUME Idle PROVE Idle'
    BY <1>1 DEF CallInv
  <2>1. \E lines \in Seq(Seq(Word)) : Requests(lines, Queue') /\ Told(cwrite', lines)
    BY <1>2, <1>5 DEF Idle
  <2> QED
    BY <2>1, <1>2, <1>5 DEF Idle
<1>7. call = "writing" => Writing'
  <2> SUFFICES ASSUME Writing PROVE Writing'
    BY <1>1 DEF CallInv
  <2>1. PICK d \in Seq(Symbol) : d = cwrite.data
    BY <1>1 DEF TypeInv, Buffer
  <2>2. Asking' /\ Asks(d)'
    BY <2>1, <1>5 DEF Writing
  <2>3. cwrite'.data = d /\ cwrite'.bol < Len(d) /\ ~is_direct' /\ (c_connected' => s_connected')
    BY <2>1, <1>2 DEF Writing
  <2> QED
    BY <2>2, <2>3 DEF Writing
<1>8. \A d \in Seq(Symbol) : Waiting(d) => Waiting(d)'
  <2> SUFFICES ASSUME NEW d \in Seq(Symbol), Waiting(d) PROVE Waiting(d)'
    OBVIOUS
  <2>1. Asking' /\ Asks(d)' /\ Hearing' /\ Heard' = Heard
    BY <1>5 DEF Waiting
  <2>2. swrite' = EmptyBuffer
    BY DEF Waiting
  <2> QED
    BY <2>1, <2>2, <1>2 DEF Waiting
<1>9. \A responses \in Seq(Seq(Word)) : Processing(responses) => Processing(responses)'
  <2> SUFFICES ASSUME NEW responses \in Seq(Seq(Word)), Processing(responses)
               PROVE  Processing(responses)'
    OBVIOUS
  <2>1. swrite' = swrite
    BY DEF Processing
  <2>2. Answered(responses, c_connected)'
    BY <1>2, <1>5 DEF Processing, Answered
  <2>3. Told(swrite', responses)
    BY <2>1 DEF Processing
  <2>4. \E lines \in Seq(Seq(Word)) :
          /\ Requests(lines, asked')
          /\ \E at \in [1 .. Len(lines) + 1 -> 0 .. Len(sread'.data)] :
               Layout(sread'.data, lines, at) /\ sread'.bol = at[Len(responses) + 1]
    BY <1>2, Zenon DEF Processing
  <2>5. s_connected' <=> ConnectedAfter(c_connected', responses, Len(responses))
    <3>1. (s_connected' <=> s_connected) /\ (c_connected' <=> c_connected)
      BY <1>2
    <3>2. s_connected <=> ConnectedAfter(c_connected, responses, Len(responses))
      BY DEF Processing
    <3> QED
      BY <3>1, <3>2, Zenon DEF ConnectedAfter
  <2>6. Asking' /\ cwrite' = EmptyBuffer /\ c2s' = <<>> /\ direction' = "PROCESSING"
    BY <1>2, <1>5 DEF Processing
  <2> QED
    BY <2>2, <2>3, <2>4, <2>5, <2>6, Zenon DEF Processing
<1>10. \A d \in Seq(Symbol), responses \in Seq(Seq(Word)) :
         Responded(d, responses) => Responded(d, responses)'
  <2> SUFFICES ASSUME NEW d \in Seq(Symbol), NEW responses \in Seq(Seq(Word)),
                      Responded(d, responses)
               PROVE  Responded(d, responses)'
    OBVIOUS
  <2>1. AllAnswered(responses, c_connected)'
    BY <1>2, <1>5 DEF Responded, AllAnswered, Answered
  <2>2. s_connected' <=> ConnectedAfter(c_connected', responses, Len(responses))
    <3>1. (s_connected' <=> s_connected) /\ (c_connected' <=> c_connected)
      BY <1>2
    <3>2. s_connected <=> ConnectedAfter(c_connected, responses, Len(responses))
      BY DEF Responded
    <3> QED
      BY <3>1, <3>2, Zenon DEF ConnectedAfter
  <2>3. Asked' /\ Framed(d) /\ LaidOut(d, responses)
    BY <1>5 DEF Responded
  <2> QED
    BY <2>1, <2>2, <2>3, <1>2 DEF Responded
<1>11. \A responses \in Seq(Seq(Word)), before \in BOOLEAN :
         Parsing(responses, before) => Parsing(responses, before)'
  <2> SUFFICES ASSUME NEW responses \in Seq(Seq(Word)), NEW before \in BOOLEAN,
                      Parsing(responses, before)
               PROVE  Parsing(responses, before)'
    OBVIOUS
  <2>1. AllAnswered(responses, before)'
    BY <1>2, <1>5 DEF Parsing, AllAnswered, Answered
  <2> QED
    BY <2>1, <1>2 DEF Parsing
<1>12. CallInv'
  BY <1>1, <1>2, <1>6, <1>7, <1>8, <1>9, <1>10, <1>11, Zenon DEF CallInv
<1> QED
  BY <1>3, <1>4, <1>12 DEF IInv

-----------------------------------------------------------------------------
(* The server answers.                                                     *)

\* Either a success, or one of the errors.
Says(code, line) ==
  line \in Successes(code) \/ \E error \in ErrorText : line = ErrorResponse(error)

\* What a resolver that keeps to the interface says to a request.
LEMMA OutcomeLines ==
  ASSUME NEW code \in RequestCode \ {RC_CONNECT}, NEW words \in Seq(Word),
         S!WellFormed(code, words), NEW o \in S!Outcomes(code, words)
  PROVE  \/ o.result = "0" /\ Says(code, o.said)
         \/ o.result \in {"errno", "-1"} /\ o.said = <<>>
<1> DEFINE Good(line) == Says(code, line)
           Good2(x) == \/ x.result = "0" /\ Good(x.said)
                       \/ x.result \in {"errno", "-1"} /\ x.said = <<>>
<1>0. /\ S!RC_CONNECT = RC_CONNECT /\ S!RC_MODULE_REPO = RC_MODULE_REPO
      /\ S!RC_MODULE_EXPORT = RC_MODULE_EXPORT /\ S!RC_MODULE_IMPORT = RC_MODULE_IMPORT
      /\ S!RC_MODULE_COMPILED = RC_MODULE_COMPILED /\ S!RC_INVOKE = RC_INVOKE
      /\ S!RC_INCLUDE_TRANSLATE = RC_INCLUDE_TRANSLATE
      /\ S!ModuleRequestCode = ModuleRequestCode
  BY ServerCodes, Zenon
<1>1. \A line : Good(line) => Good2(S!Said(line))
  BY DEF S!Said
<1>2. Good2(S!Returned("-1")) /\ Good2(S!Returned("errno"))
  BY DEF S!Returned
<1>3. Good(S!ErrorResponse("unimplemented")) /\ Good(S!ErrorResponse("failed"))
  BY Errors, ServerLines, Zenon DEF Says
<1>4. code \in {RC_MODULE_EXPORT, RC_MODULE_IMPORT, RC_INCLUDE_TRANSLATE} => CMIName[words[2]] \in Word
  <2> SUFFICES ASSUME code \in {RC_MODULE_EXPORT, RC_MODULE_IMPORT, RC_INCLUDE_TRANSLATE}
               PROVE  CMIName[words[2]] \in Word
    OBVIOUS
  <2>1. code \in ModuleRequestCode
    BY DEF ModuleRequestCode
  <2>2. code \notin {RC_CONNECT, RC_MODULE_REPO, RC_INVOKE}
    BY DEF RC_CONNECT, RC_MODULE_REPO, RC_MODULE_EXPORT, RC_MODULE_IMPORT,
           RC_INVOKE, RC_INCLUDE_TRANSLATE
  <2>3. Len(words) \in {2, 3}
    BY <2>1, <2>2, <1>0 DEF S!WellFormed
  <2>4. words[2] \in Word
    BY <2>3
  <2>5. CMIName \in [Word -> Word]
    BY WordAssumption
  <2> QED
    BY <2>4, <2>5
<1>5. code \in {RC_MODULE_EXPORT, RC_MODULE_IMPORT, RC_INCLUDE_TRANSLATE}
        => Good(S!PathnameResponse(CMIName[words[2]]))
  <2> SUFFICES ASSUME code \in {RC_MODULE_EXPORT, RC_MODULE_IMPORT, RC_INCLUDE_TRANSLATE}
               PROVE  Good(S!PathnameResponse(CMIName[words[2]]))
    OBVIOUS
  <2> DEFINE cmi == CMIName[words[2]]
  <2>1. cmi \in Word /\ S!PathnameResponse(cmi) = PathnameResponse(cmi)
    BY <1>4, ServerLines
  <2> HIDE DEF cmi
  <2>2. PathnameResponse(cmi) \in Successes(code)
    BY <2>1, SuccessLines
  <2> QED
    BY <2>1, <2>2 DEF Says, cmi
<1>6. code = RC_MODULE_REPO => Good(S!PathnameResponse(S!REPO_DIR))
  <2>1. REPO_DIR \in Word
    BY Zenon, WordAssumption
  <2>2. S!PathnameResponse(S!REPO_DIR) = PathnameResponse(REPO_DIR)
    BY ServerLines, Zenon
  <2>3. code = RC_MODULE_REPO => PathnameResponse(REPO_DIR) \in Successes(code)
    BY <2>1, SuccessLines
  <2> QED
    BY <2>2, <2>3, Zenon DEF Says
<1>7. code \in {RC_MODULE_COMPILED, RC_INVOKE} => Good(S!OKResponse)
  <2>1. S!OKResponse = OKResponse
    BY ServerLines, Zenon
  <2>2. code \in {RC_MODULE_COMPILED, RC_INVOKE} => OKResponse \in Successes(code)
    BY SuccessLines
  <2> QED
    BY <2>1, <2>2, Zenon DEF Says
<1>8. code = RC_INCLUDE_TRANSLATE => Good(S!BoolResponse(TRUE)) /\ Good(S!BoolResponse(FALSE))
  <2>1. /\ S!BoolResponse(TRUE) = BoolResponse(TRUE)
        /\ S!BoolResponse(FALSE) = BoolResponse(FALSE)
    BY ServerLines, Zenon
  <2>2. code = RC_INCLUDE_TRANSLATE =>
          BoolResponse(TRUE) \in Successes(code) /\ BoolResponse(FALSE) \in Successes(code)
    BY SuccessLines
  <2> QED
    BY <2>1, <2>2, Zenon DEF Says
<1> HIDE DEF Good, Good2
<1>9. \A x \in S!DefaultOutcomes(code, words) : Good2(x)
  <2>1. code \in {RC_MODULE_REPO, RC_MODULE_EXPORT, RC_MODULE_IMPORT, RC_MODULE_COMPILED,
                  RC_INCLUDE_TRANSLATE, RC_INVOKE}
    BY Codes
  <2> QED
    BY <2>1, <1>0, <1>1, <1>3, <1>5, <1>6, <1>7, <1>8
       DEF S!DefaultOutcomes, RC_MODULE_REPO, RC_MODULE_EXPORT, RC_MODULE_IMPORT,
           RC_MODULE_COMPILED, RC_INCLUDE_TRANSLATE, RC_INVOKE
<1>10. Good2(o)
  BY <1>0, <1>1, <1>2, <1>3, <1>7, <1>8, <1>9 DEF S!Outcomes, S!DerivedOutcomes
<1> QED
  BY <1>10 DEF Good, Good2

\* What such a resolver says to a handshake, and whom it hands the connection to.
LEMMA ConnectLines ==
  ASSUME NEW version, resolver \in Contract, NEW o \in S!ConnectOutcomes(version)
  PROVE  \/ /\ o.accepts = TRUE
            /\ o.said = ConnectResponse("default") /\ o.result \in Contract
         \/ /\ o.accepts = FALSE
            /\ \E error \in ErrorText : o.said = ErrorResponse(error)
            /\ o.result \in Contract
         \/ /\ o.accepts = FALSE
            /\ o.said = <<>> /\ o.result = "nullptr"
<1> DEFINE Good(x) ==
             \/ /\ x.accepts = TRUE
                /\ x.said = ConnectResponse("default") /\ x.result \in Contract
             \/ /\ x.accepts = FALSE
                /\ \E error \in ErrorText : x.said = ErrorResponse(error)
                /\ x.result \in Contract
             \/ /\ x.accepts = FALSE
                /\ x.said = <<>> /\ x.result = "nullptr"
<1>1. \A r \in Contract : Good(S!Accepts(r))
  <2>1. S!ConnectResponse("default") = ConnectResponse("default")
    BY ServerLines, Zenon
  <2> QED
    BY <2>1 DEF S!Accepts
<1>2. \A error \in ErrorText : \A r \in Contract : Good(S!Answers(error, r))
  <2> SUFFICES ASSUME NEW error \in ErrorText, NEW r \in Contract
               PROVE  Good(S!Answers(error, r))
    OBVIOUS
  <2>1. S!ErrorResponse(error) = ErrorResponse(error)
    BY ServerLines, Zenon
  <2>2. /\ S!Answers(error, r).said = ErrorResponse(error)
        /\ S!Answers(error, r).accepts = FALSE /\ S!Answers(error, r).result = r
    BY <2>1 DEF S!Answers
  <2> QED
    BY <2>2
<1>3. Good(S!ReturnsNullptr)
  BY DEF S!ReturnsNullptr
<1> HIDE DEF Good
<1>4. \A r \in Contract : Good(S!DefaultConnect(version, r))
  BY <1>1, <1>2, Errors, Zenon DEF S!DefaultConnect
<1>5. "derived" \in Contract /\ "default" \in Contract
  BY DEF Contract
<1>6. \/ o = S!DefaultConnect(version, "default")
      \/ o = S!DefaultConnect(version, "derived")
      \/ o = S!Answers("refused", "derived")
      \/ o = S!ReturnsNullptr
  BY Zenon DEF S!ConnectOutcomes, Contract
<1>7. Good(o)
  BY <1>2, <1>3, <1>4, <1>5, <1>6, Errors, Zenon
<1> QED
  BY <1>7 DEF Good

\* All of these are lines of words, and only the handshake is said hello.
LEMMA SaysWords ==
  ASSUME NEW code \in RequestCode, NEW line, Says(code, line)
  PROVE  /\ line \in Seq(Word) \ {<<>>}
         /\ Hello(line) => line \in Successes(code)
         /\ line \in Successes(code) => (Hello(line) <=> code = RC_CONNECT)
<1>1. code \in {RC_MODULE_REPO, RC_MODULE_EXPORT, RC_MODULE_IMPORT, RC_MODULE_COMPILED,
                RC_INCLUDE_TRANSLATE, RC_INVOKE, RC_CONNECT}
  BY Codes
<1>2. CASE \E error \in ErrorText : line = ErrorResponse(error)
  <2>1. PICK error \in ErrorText : line = ErrorResponse(error)
    BY <1>2
  <2>2. line \in Seq(Word) /\ line # <<>> /\ line[1] = "ERROR"
    BY <2>1, ResponseLines, Zenon
  <2>3. ~Hello(line)
    BY <2>2 DEF Hello
  <2>4. line \notin Successes(code)
    BY <2>2, SuccessTells
  <2> QED
    BY <2>2, <2>3, <2>4
<1>3. CASE line \in Successes(code)
  <2>1. CASE code = RC_CONNECT
    <3>1. line = ConnectResponse("default")
      BY <2>1, <1>3, SuccessLines
    <3>2. line \in Seq(Word) /\ line # <<>> /\ line[1] = "HELLO"
      BY <3>1, ResponseLines, Zenon
    <3> QED
      BY <3>2, <2>1, <1>3 DEF Hello
  <2>2. CASE code # RC_CONNECT
    <3>1. \/ \E cmi \in Word : line = PathnameResponse(cmi)
          \/ line = OKResponse
          \/ \E truth \in BOOLEAN : line = BoolResponse(truth)
      BY <2>2, <1>1, <1>3, SuccessLines
    <3>2. line \in Seq(Word) /\ line # <<>> /\ line[1] \in {"PATHNAME", "OK", "BOOL"}
      <4>1. CASE \E cmi \in Word : line = PathnameResponse(cmi)
        <5>1. line \in Seq(Word) /\ line # <<>> /\ line[1] = "PATHNAME"
          BY <4>1, ResponseLines, Zenon
        <5> QED
          BY <5>1
      <4>2. CASE line = OKResponse
        <5>1. line \in Seq(Word) /\ line # <<>> /\ line[1] = "OK"
          BY <4>2, ResponseLines, Zenon
        <5> QED
          BY <5>1
      <4>3. CASE \E truth \in BOOLEAN : line = BoolResponse(truth)
        <5>1. line \in Seq(Word) /\ line # <<>> /\ line[1] = "BOOL"
          BY <4>3, ResponseLines, Zenon
        <5> QED
          BY <5>1
      <4> QED
        BY <3>1, <4>1, <4>2, <4>3
    <3>3. ~Hello(line)
      BY <3>2 DEF Hello
    <3> QED
      BY <3>2, <3>3, <2>2, <1>3
  <2> QED
    BY <2>1, <2>2
<1> QED
  BY <1>2, <1>3 DEF Says

\* Every request is answered, by the resolver or by the server, and never by both.
LEMMA LineAnswered ==
  ASSUME resolver \in Contract, s_connected \in BOOLEAN, S!ProcessLine,
         NEW code \in RequestCode, NEW line \in Seq(Word), CodeOf(line[1]) = code,
         Lex(sread).text = line, Lex(sread).err = "0"
  PROVE  /\ UNCHANGED <<c2s, s2c, direction, builder_open, compiler_open>>
         /\ sread' = Lex(sread).buffer
         /\ resolver' \in Contract /\ s_connected' \in BOOLEAN
         /\ \E reply \in Seq(Word) \ {<<>>} :
              /\ swrite' = AppendLine(swrite, reply)
              /\ Answer(code, reply, s_connected)
              /\ s_connected' <=> s_connected \/ Hello(reply)
<1> DEFINE Stays == /\ UNCHANGED <<c2s, s2c, direction, builder_open, compiler_open>>
                    /\ sread' = Lex(sread).buffer
           Good(reply) == /\ swrite' = AppendLine(swrite, reply)
                          /\ Answer(code, reply, s_connected)
                          /\ s_connected' <=> s_connected \/ Hello(reply)
           Goal == /\ Stays
                   /\ resolver' \in Contract /\ s_connected' \in BOOLEAN
                   /\ \E reply \in Seq(Word) \ {<<>>} : Good(reply)
<1> SUFFICES Goal
  OBVIOUS
<1>1. /\ \A c : S!Selects(c) => c = code
      /\ S!RC_HWM # code /\ S!RC_CONNECT = RC_CONNECT
  <2>1. S!RC_HWM = RC_HWM /\ S!RC_CONNECT = RC_CONNECT
    BY ServerCodes, Zenon
  <2>2. RC_HWM # code
    BY DEF RequestCode, RC_HWM
  <2>3. \A c : S!Selects(c) => c = code
    BY ServerCodes, ServerBuffers, Zenon DEF S!Selects
  <2> QED
    BY <2>1, <2>2, <2>3
<1>2. \A said, own : S!Respond(said, own) => Stays /\ swrite' = S!Tell(S!Tell(swrite, said), own)
  BY ServerBuffers DEF S!Respond
<1>3. /\ \A b : S!Tell(b, <<>>) = b
      /\ \A b, x : x # <<>> => S!Tell(b, x) = AppendLine(b, x)
  BY ServerBuffers, Zenon DEF S!Tell
<1>4. /\ \A x : x # <<>> /\ S!Respond(<<>>, x) => Stays /\ swrite' = AppendLine(swrite, x)
      /\ \A x : x # <<>> /\ S!Respond(x, <<>>) => Stays /\ swrite' = AppendLine(swrite, x)
  <2>1. \A b, x : x # <<>> => /\ S!Tell(S!Tell(b, <<>>), x) = AppendLine(b, x)
                              /\ S!Tell(S!Tell(b, x), <<>>) = AppendLine(b, x)
    BY <1>3
  <2> HIDE DEF Stays
  <2> QED
    BY <2>1, <1>2, Zenon
<1>5. \A x : x \in Seq(Word) \ {<<>>} /\ Good(x) => \E reply \in Seq(Word) \ {<<>>} : Good(reply)
  OBVIOUS
<1> HIDE DEF Stays
\* The server has an error to tell, or the resolver told one.
<1>6. ASSUME NEW x, NEW error \in ErrorText, x = ErrorResponse(error),
             S!Respond(<<>>, x) \/ S!Respond(x, <<>>),
             resolver' \in Contract, s_connected' <=> s_connected, s_connected' \in BOOLEAN
      PROVE  Goal
  <2>1. Says(code, x)
    BY <1>6, Zenon DEF Says
  <2>2. x \in Seq(Word) \ {<<>>} /\ x # <<>>
    BY <2>1, SaysWords
  <2>3. ~Hello(x)
    <3>1. x[1] = "ERROR"
      BY <1>6, ResponseLines, Zenon
    <3> QED
      BY <3>1 DEF Hello
  <2>4. Stays /\ swrite' = AppendLine(swrite, x)
    BY <2>2, <1>4, <1>6, Zenon
  <2>5. Answer(code, x, s_connected)
    BY <1>6, Zenon DEF Answer
  <2>6. Good(x)
    BY <2>3, <2>4, <2>5, <1>6, Zenon
  <2> HIDE DEF Good
  <2> QED
    BY <2>2, <2>4, <2>6, <1>5, <1>6
<1>7. ASSUME NEW error \in ErrorText, S!Respond(<<>>, S!ErrorResponse(error)),
             UNCHANGED <<resolver, s_connected>>
      PROVE  Goal
  <2>1. S!ErrorResponse(error) = ErrorResponse(error)
    BY ServerLines, Zenon
  <2>2. resolver' \in Contract /\ (s_connected' <=> s_connected) /\ s_connected' \in BOOLEAN
    BY <1>7
  <2> HIDE DEF Goal
  <2> QED
    BY <2>1, <2>2, <1>6, <1>7, Zenon
<1>8. CASE S!ProcessUnrecognized
  BY <1>1, <1>8 DEF S!ProcessUnrecognized
<1>9. CASE S!RejectConnect
  <2>1. PICK error \in ErrorText : /\ S!Respond(<<>>, S!ErrorResponse(error))
                                   /\ UNCHANGED <<resolver, s_connected>>
    BY <1>9, Errors, Zenon DEF S!RejectConnect
  <2> HIDE DEF Goal
  <2> QED
    BY <2>1, <1>7, Zenon
<1>10. CASE \E c \in S!RequestCode \ {S!RC_CONNECT} : S!RejectRequest(c)
  <2>1. PICK c \in S!RequestCode \ {S!RC_CONNECT} : S!RejectRequest(c)
    BY <1>10
  <2>2. PICK error \in ErrorText : /\ S!Respond(<<>>, S!ErrorResponse(error))
                                   /\ UNCHANGED <<resolver, s_connected>>
    BY <2>1, Errors, Zenon DEF S!RejectRequest
  <2> HIDE DEF Goal
  <2> QED
    BY <2>2, <1>7, Zenon
<1>11. CASE \E c \in S!RequestCode \ {S!RC_CONNECT} : S!ProcessRequest(c)
  <2>1. code # RC_CONNECT /\ S!ProcessRequest(code)
    BY <1>1, <1>11, Zenon DEF S!ProcessRequest
  <2>2. /\ s_connected /\ S!WellFormed(code, line)
        /\ UNCHANGED <<resolver, s_connected>>
    BY <2>1, ServerBuffers, Zenon DEF S!ProcessRequest
  <2>3. PICK o \in S!Outcomes(code, line) :
          S!Respond(o.said, CASE o.result = "0"     -> <<>>
                              [] o.result = "errno" -> S!ErrorResponse("error processing")
                              [] OTHER              -> S!ErrorResponse("malformed"))
    BY <2>1, ServerBuffers, Zenon DEF S!ProcessRequest
  <2>4. \/ o.result = "0" /\ Says(code, o.said)
        \/ o.result \in {"errno", "-1"} /\ o.said = <<>>
    BY <2>1, <2>2, OutcomeLines
  <2>5. CASE o.result = "0"
    <3>1. S!Respond(o.said, <<>>) /\ Says(code, o.said)
      BY <2>3, <2>4, <2>5, Zenon
    <3> DEFINE x == o.said
    <3> HIDE DEF x
    <3>2. S!Respond(x, <<>>) /\ Says(code, x)
      BY <3>1 DEF x
    <3>3. x \in Seq(Word) \ {<<>>} /\ x # <<>>
      BY <3>2, SaysWords
    <3>4. ~Hello(x)
      BY <2>1, <3>2, SaysWords
    <3>5. Stays /\ swrite' = AppendLine(swrite, x)
      BY <3>2, <3>3, <1>4, Zenon
    <3>6. Answer(code, x, s_connected)
      BY <2>1, <2>2, <3>2, Zenon DEF Answer, Says
    <3>7. resolver' \in Contract /\ (s_connected' <=> s_connected) /\ s_connected' \in BOOLEAN
      BY <2>2
    <3>8. Good(x)
      BY <3>4, <3>5, <3>6, <3>7, Zenon
    <3> HIDE DEF Good
    <3> QED
      BY <3>3, <3>5, <3>7, <3>8, <1>5
  <2>6. CASE o.result # "0"
    <3>1. o.said = <<>>
      BY <2>4, <2>6
    <3>2. PICK error \in ErrorText : S!Respond(<<>>, S!ErrorResponse(error))
      BY <2>3, <2>6, <3>1, Errors, Zenon
    <3> HIDE DEF Goal
    <3> QED
      BY <2>2, <3>2, <1>7
  <2> QED
    BY <2>5, <2>6
<1>12. CASE S!ProcessConnect
  <2>1. code = RC_CONNECT /\ ~s_connected
    BY <1>1, <1>12, Zenon DEF S!ProcessConnect
  <2> DEFINE version == S!ParseUnsigned(S!Lex(sread).text[2])
  <2>2. PICK o \in S!ConnectOutcomes(version) :
          /\ s_connected' = o.accepts
          /\ resolver' = IF o.result = "nullptr" THEN resolver ELSE o.result
          /\ S!Respond(o.said, IF o.result = "nullptr" THEN S!ErrorResponse("malformed") ELSE <<>>)
    BY <1>12, Zenon DEF S!ProcessConnect
  <2> HIDE DEF version
  <2>3. \/ /\ o.accepts = TRUE
           /\ o.said = ConnectResponse("default") /\ o.result \in Contract
        \/ /\ o.accepts = FALSE
           /\ \E error \in ErrorText : o.said = ErrorResponse(error)
           /\ o.result \in Contract
        \/ /\ o.accepts = FALSE
           /\ o.said = <<>> /\ o.result = "nullptr"
    BY ConnectLines
  <2>4. "nullptr" \notin Contract
    BY DEF Contract
  <2>5. CASE o.accepts = TRUE
    <3>1. /\ o.said = ConnectResponse("default") /\ o.result \in Contract /\ o.result # "nullptr"
      BY <2>3, <2>4, <2>5
    <3> DEFINE x == ConnectResponse("default")
    <3>2. S!Respond(x, <<>>) /\ resolver' \in Contract
      BY <2>2, <3>1, Zenon
    <3>3. x \in Successes(code)
      BY <2>1, SuccessLines
    <3> HIDE DEF x
    <3>4. Says(code, x)
      BY <3>3, Zenon DEF Says
    <3>5. x \in Seq(Word) \ {<<>>} /\ x # <<>>
      BY <3>4, SaysWords
    <3>6. Hello(x)
      BY <2>1, <3>3, <3>4, SaysWords
    <3>7. Stays /\ swrite' = AppendLine(swrite, x)
      BY <3>2, <3>5, <1>4, Zenon
    <3>8. Answer(code, x, s_connected)
      BY <2>1, <3>3, Zenon DEF Answer
    <3>9. s_connected' = TRUE
      BY <2>2, <2>5
    <3>10. Good(x)
      BY <3>6, <3>7, <3>8, <3>9, Zenon
    <3> HIDE DEF Good
    <3> QED
      BY <3>2, <3>5, <3>7, <3>9, <3>10, <1>5
  <2>6. CASE \E error \in ErrorText : o.said = ErrorResponse(error) /\ o.result \in Contract /\ o.accepts = FALSE
    <3>1. PICK error \in ErrorText : o.said = ErrorResponse(error) /\ o.result \in Contract /\ o.accepts = FALSE
      BY <2>6
    <3>2. o.result # "nullptr"
      BY <2>4, <3>1
    <3>3. S!Respond(o.said, <<>>) /\ resolver' \in Contract
      BY <2>2, <3>1, <3>2, Zenon
    <3>4. s_connected' = FALSE
      BY <2>2, <3>1
    <3> HIDE DEF Goal
    <3>5. (s_connected' <=> s_connected) /\ s_connected' \in BOOLEAN
      BY <2>1, <3>4
    <3> QED
      BY <3>1, <3>3, <3>5, <1>6, Zenon
  <2>7. CASE o.accepts = FALSE /\ o.said = <<>> /\ o.result = "nullptr"
    <3>1. S!Respond(<<>>, S!ErrorResponse("malformed")) /\ resolver' = resolver
      BY <2>2, <2>7, Zenon
    <3>2. s_connected' = FALSE
      BY <2>2, <2>7
    <3>3. s_connected' = s_connected
      BY <2>1, <3>2
    <3> HIDE DEF Goal
    <3> QED
      BY <3>1, <3>3, <1>7, Errors, Zenon
  <2> QED
    BY <2>3, <2>5, <2>6, <2>7, Zenon
<1> HIDE DEF Goal
<1> QED
  BY <1>8, <1>9, <1>10, <1>11, <1>12, Zenon DEF S!ProcessLine

\* Whoever processes has the requests of a call that waits.
LEMMA TurnToProcess ==
  ASSUME IInv, direction = "PROCESSING", builder_open, call = "reading" \/ ~is_direct
  PROVE  call = "reading" /\ \E responses \in Seq(Seq(Word)) : Processing(responses)
<1>1. call \in {"idle", "writing", "reading", "parsing"}
  BY DEF IInv, TypeInv, C!Call
<1>2. CallInv
  BY DEF IInv
<1>3. call # "idle"
  BY <1>2 DEF CallInv, Idle, ServerRests
<1>4. call # "writing"
  BY <1>2 DEF CallInv, Writing, Hearing
<1>5. call # "parsing"
  BY <1>2 DEF CallInv, Parsing, ServerRests
<1>6. \A block \in Seq(Symbol) : ~Waiting(block)
  BY DEF Waiting, Hearing
<1>7. \A block \in Seq(Symbol), responses \in Seq(Seq(Word)) : ~Responded(block, responses)
  BY DEF Responded, ServerRests
<1> QED
  BY <1>1, <1>2, <1>3, <1>4, <1>5, <1>6, <1>7 DEF CallInv

\* A response more.
LEMMA ProcessLineIInv ==
  ASSUME IInv, S!ProcessLine, call = "reading" \/ ~is_direct, UNCHANGED <<is_direct, client_vars>>
  PROVE  IInv'
<1> DEFINE Good == Seq(Word) \ {<<>>}
<1>1. TypeInv /\ ErrorsInv /\ DirectInv
  BY DEF IInv
<1>2. direction = "PROCESSING" /\ builder_open /\ ~IsAtEnd(sread)
  <2>1. direction = "PROCESSING" /\ builder_open /\ ~S!IsAtEnd(sread)
    BY Zenon DEF S!ProcessLine, S!ProcessUnrecognized, S!ProcessConnect, S!RejectConnect,
                 S!ProcessRequest, S!RejectRequest, S!Selects
  <2> QED
    BY <2>1, ServerBuffers, Zenon
<1>3. call = "reading"
  BY <1>2, TurnToProcess
<1>4. PICK responses \in Seq(Seq(Word)) : Processing(responses)
  BY <1>2, TurnToProcess
<1>5. PICK k \in Nat : k = Len(responses)
  BY <1>4
<1>6. PICK b \in Buffer : b = sread
  BY <1>1 DEF TypeInv
<1>7. PICK codes \in Seq(RequestCode) : codes = asked
  BY <1>1 DEF TypeInv
<1>8. PICK w \in Buffer : w = swrite
  BY <1>1 DEF TypeInv
<1>9. /\ Asking /\ cwrite = EmptyBuffer /\ c2s = <<>>
      /\ Answered(responses, c_connected)
      /\ Told(w, responses)
      /\ s_connected <=> ConnectedAfter(c_connected, responses, k)
  BY <1>4, <1>5, <1>8, Zenon DEF Processing
<1>10. PICK lines \in Seq(Seq(Word)) :
         /\ Requests(lines, codes)
         /\ \E at \in [1 .. Len(lines) + 1 -> 0 .. Len(b.data)] :
              Layout(b.data, lines, at) /\ b.bol = at[k + 1]
  BY <1>4, <1>5, <1>6, <1>7, Zenon DEF Processing
<1>11. PICK at \in [1 .. Len(lines) + 1 -> 0 .. Len(b.data)] :
         Layout(b.data, lines, at) /\ b.bol = at[k + 1]
  BY <1>10
<1>12. /\ responses \in Seq(Good) /\ k <= Len(codes)
       /\ \A i \in 1 .. k : Answer(codes[i], responses[i], ConnectedAfter(c_connected, responses, i - 1))
  BY <1>5, <1>7, <1>9 DEF Answered
<1>13. /\ lines \in Seq(Good) /\ Len(lines) = Len(codes) /\ Len(codes) \in Nat
       /\ \A i \in 1 .. Len(lines) : CodeOf(lines[i][1]) = codes[i]
       /\ k \in 0 .. Len(lines)
  BY <1>10, <1>12 DEF Requests
<1> DEFINE line == lines[k + 1]
           code == codes[k + 1]
<1>14. /\ k < Len(lines)
       /\ Lex(b).text = line
       /\ Lex(b).buffer = [data |-> b.data, bol |-> at[k + 2]]
       /\ Lex(b).err = IF \E i \in 1 .. Len(line) : line[i] \notin Word THEN "EINVAL"
                       ELSE IF line = <<>> THEN "ENOENT" ELSE "0"
  <2>1. lines \in Seq(Seq(Text))
    BY <1>10 DEF Text
  <2>2. /\ IsAtEnd(b) <=> k = Len(lines)
        /\ k < Len(lines) =>
              /\ Lex(b).text = lines[k + 1]
              /\ Lex(b).buffer = [data |-> b.data, bol |-> at[k + 2]]
              /\ Lex(b).err = IF \E i \in 1 .. Len(lines[k + 1]) : lines[k + 1][i] \notin Word
                                THEN "EINVAL"
                                ELSE IF lines[k + 1] = <<>> THEN "ENOENT" ELSE "0"
              /\ IsAtEnd(Lex(b).buffer) <=> k + 1 = Len(lines)
    BY <2>1, <1>11, <1>13, LexInLayout
  <2>3. k # Len(lines)
    BY <2>2, <1>2, <1>6
  <2>4. k < Len(lines)
    BY <2>3, <1>13
  <2> QED
    BY <2>2, <2>4
<1>15. /\ k + 1 \in 1 .. Len(lines) /\ (k + 1) - 1 = k /\ k + 1 <= Len(codes)
       /\ \A i \in 1 .. k + 1 : i \in 1 .. k \/ i = k + 1
       /\ \A i \in 1 .. k : i \in 1 .. k + 1 /\ i - 1 <= k
       /\ (k + 1) + 1 = k + 2 /\ k + 2 \in 1 .. Len(lines) + 1
  BY <1>13, <1>14
<1>16. line \in Seq(Word) /\ code \in RequestCode /\ CodeOf(line[1]) = code /\ Lex(b).err = "0"
  <2>1. line \in Good /\ code \in RequestCode /\ CodeOf(line[1]) = code
    BY <1>13, <1>15
  <2> HIDE DEF line, code
  <2>2. line \in Seq(Word) /\ line # <<>> /\ \A i \in 1 .. Len(line) : line[i] \in Word
    BY <2>1
  <2> QED
    BY <2>1, <2>2, <1>14
<1> HIDE DEF line, code
<1>17. /\ UNCHANGED <<c2s, s2c, direction, builder_open, compiler_open>>
       /\ sread' = Lex(sread).buffer
       /\ resolver' \in Contract /\ s_connected' \in BOOLEAN
       /\ \E reply \in Seq(Word) \ {<<>>} :
            /\ swrite' = AppendLine(swrite, reply)
            /\ Answer(code, reply, s_connected)
            /\ s_connected' <=> s_connected \/ Hello(reply)
  <2>1. resolver \in Contract /\ s_connected \in BOOLEAN
    BY <1>1 DEF TypeInv
  <2>2. Lex(sread).text = line /\ Lex(sread).err = "0"
    BY <1>6, <1>14, <1>16
  <2> QED
    BY <2>1, <2>2, <1>16, LineAnswered, Zenon
<1>18. PICK reply \in Good : /\ swrite' = AppendLine(w, reply)
                             /\ Answer(code, reply, s_connected)
                             /\ s_connected' <=> s_connected \/ Hello(reply)
  BY <1>8, <1>17
<1>19. UNCHANGED <<is_direct, cwrite, cread, corked, c_connected, call, pending, packets, asked>>
  BY DEF client_vars
<1> DEFINE more == Append(responses, reply)
<1>20. /\ swrite' \in Buffer /\ more \in Seq(Seq(Word)) /\ Told(swrite', more)
  BY <1>9, <1>18, TellOneMore
<1>21. /\ more \in Seq(Good) /\ Len(more) = k + 1 /\ more[k + 1] = reply
       /\ \A i \in 1 .. k : more[i] = responses[i]
  <2> HIDE DEF Good
  <2> QED
    BY <1>5, <1>12, <1>18, AppendProperties
<1> HIDE DEF more
<1>22. \A i \in 0 .. k : ConnectedAfter(c_connected, more, i) <=> ConnectedAfter(c_connected, responses, i)
  <2>1. \A i \in 0 .. k : \A j \in 1 .. i : more[j] = responses[j]
    BY <1>21
  <2> QED
    BY <2>1, Zenon DEF ConnectedAfter, Hello
<1>23. Answer(codes[k + 1], more[k + 1], ConnectedAfter(c_connected, more, k))
  <2>1. k \in 0 .. k
    OBVIOUS
  <2>2. s_connected <=> ConnectedAfter(c_connected, more, k)
    BY <2>1, <1>9, <1>22
  <2>3. Answer(code, reply, s_connected)
    BY <1>18
  <2>4. s_connected \in BOOLEAN
    BY <1>1 DEF TypeInv
  <2>5. Answer(code, reply, ConnectedAfter(c_connected, more, k))
    BY <2>2, <2>3, <2>4, Zenon DEF Answer
  <2> QED
    BY <2>5, <1>21 DEF code
<1>24. \A i \in 1 .. k : Answer(codes[i], more[i], ConnectedAfter(c_connected, more, i - 1))
  <2> SUFFICES ASSUME NEW i \in 1 .. k
               PROVE  Answer(codes[i], more[i], ConnectedAfter(c_connected, more, i - 1))
    OBVIOUS
  <2>1. Answer(codes[i], responses[i], ConnectedAfter(c_connected, responses, i - 1))
    BY <1>12
  <2>2. i - 1 \in 0 .. k
    OBVIOUS
  <2>3. ConnectedAfter(c_connected, more, i - 1) <=> ConnectedAfter(c_connected, responses, i - 1)
    BY <2>2, <1>22
  <2>4. more[i] = responses[i]
    BY <1>21
  <2>5. \A c, l, x, y : x \in BOOLEAN /\ y \in BOOLEAN /\ (x <=> y) /\ Answer(c, l, y) => Answer(c, l, x)
    OBVIOUS
  <2>6. /\ ConnectedAfter(c_connected, more, i - 1) \in BOOLEAN
        /\ ConnectedAfter(c_connected, responses, i - 1) \in BOOLEAN
    BY DEF ConnectedAfter
  <2>7. Answer(codes[i], responses[i], ConnectedAfter(c_connected, more, i - 1))
    BY <2>1, <2>3, <2>5, <2>6, Zenon
  <2> QED
    BY <2>4, <2>7
<1>25. Answered(more, c_connected)'
  <2>1. \A i \in 1 .. k + 1 : Answer(codes[i], more[i], ConnectedAfter(c_connected, more, i - 1))
    BY <1>15, <1>23, <1>24
  <2>2. asked' = codes /\ c_connected' = c_connected
    BY <1>7, <1>19
  <2> QED
    BY <2>1, <2>2, <1>15, <1>21 DEF Answered
<1>26. s_connected' <=> ConnectedAfter(c_connected', more, k + 1)
  <2>1. (\E j \in 1 .. k + 1 : Hello(more[j])) <=> (\E j \in 1 .. k : Hello(more[j])) \/ Hello(reply)
    <3>1. k + 1 \in 1 .. k + 1
      BY <1>15
    <3> QED
      BY <3>1, <1>15, <1>21
  <2>2. s_connected <=> ConnectedAfter(c_connected, more, k)
    <3>1. k \in 0 .. k
      OBVIOUS
    <3> QED
      BY <3>1, <1>9, <1>22
  <2> QED
    BY <2>1, <2>2, <1>18, <1>19, Zenon DEF ConnectedAfter
<1>27. \E ls \in Seq(Seq(Word)) :
         /\ Requests(ls, asked')
         /\ \E a \in [1 .. Len(ls) + 1 -> 0 .. Len(sread'.data)] :
              Layout(sread'.data, ls, a) /\ sread'.bol = a[Len(more) + 1]
  <2>1. sread' = [data |-> b.data, bol |-> at[(k + 1) + 1]]
    BY <1>6, <1>14, <1>15, <1>17
  <2>2. sread'.data = b.data /\ sread'.bol = at[Len(more) + 1]
    BY <2>1, <1>21
  <2>3. at \in [1 .. Len(lines) + 1 -> 0 .. Len(sread'.data)] /\ Layout(sread'.data, lines, at)
    BY <2>2, <1>11
  <2>4. \E a \in [1 .. Len(lines) + 1 -> 0 .. Len(sread'.data)] :
          Layout(sread'.data, lines, a) /\ sread'.bol = a[Len(more) + 1]
    BY <2>2, <2>3
  <2>5. Requests(lines, asked')
    BY <1>7, <1>10, <1>19
  <2> QED
    BY <2>4, <2>5
<1>28. Asking' /\ cwrite' = EmptyBuffer /\ c2s' = <<>> /\ direction' = "PROCESSING"
  BY <1>2, <1>9, <1>17, <1>19 DEF Asking, Asked
<1>29. Processing(more)'
  <2>1. s_connected' <=> ConnectedAfter(c_connected', more, Len(more))
    BY <1>21, <1>26
  <2> QED
    BY <2>1, <1>20, <1>25, <1>27, <1>28, Zenon DEF Processing
<1>30. TypeInv'
  <2>1. at[k + 2] \in 0 .. Len(b.data) /\ b.data \in Seq(Symbol)
    BY <1>11, <1>15 DEF Buffer
  <2>2. at[k + 2] \in Nat /\ at[k + 2] <= Len(b.data)
    BY <2>1
  <2>3. sread' = [data |-> b.data, bol |-> at[k + 2]]
    BY <1>6, <1>14, <1>17
  <2>4. sread' \in Buffer
    BY <2>1, <2>2, <2>3 DEF Buffer
  <2> QED
    BY <2>4, <1>1, <1>17, <1>19, <1>20 DEF TypeInv
<1>31. ErrorsInv' /\ DirectInv'
  BY <1>1, <1>2, <1>17, <1>19 DEF ErrorsInv, DirectInv
<1>32. CallInv'
  BY <1>3, <1>19, <1>20, <1>29 DEF CallInv
<1> QED
  BY <1>30, <1>31, <1>32 DEF IInv

\* With the last line dealt with, the responses are told and make a block.
LEMMA AllTold ==
  ASSUME TypeInv, IsAtEnd(sread), NEW responses \in Seq(Seq(Word)), Processing(responses)
  PROVE  /\ AllAnswered(responses, c_connected)
         /\ PrepareToWrite(swrite) \in Buffer
         /\ PrepareToWrite(swrite).bol = 0
         /\ Framed(PrepareToWrite(swrite).data)
         /\ LaidOut(PrepareToWrite(swrite).data, responses)
<1>1. PICK k \in Nat : k = Len(responses)
  OBVIOUS
<1>2. PICK b \in Buffer : b = sread
  BY DEF TypeInv
<1>3. asked \in Seq(RequestCode) /\ asked # <<>> /\ swrite \in Buffer
  BY DEF TypeInv, Processing, Asking, Asked
<1>4. PICK lines \in Seq(Seq(Word)) :
        /\ Requests(lines, asked)
        /\ \E at \in [1 .. Len(lines) + 1 -> 0 .. Len(b.data)] :
             Layout(b.data, lines, at) /\ b.bol = at[k + 1]
  BY <1>1, <1>2, Zenon DEF Processing
<1>5. PICK at \in [1 .. Len(lines) + 1 -> 0 .. Len(b.data)] :
        Layout(b.data, lines, at) /\ b.bol = at[k + 1]
  BY <1>4
<1>6. Answered(responses, c_connected) /\ Told(swrite, responses)
  BY DEF Processing
<1>7. k \in 0 .. Len(lines) /\ Len(lines) = Len(asked)
  BY <1>1, <1>3, <1>4, <1>6 DEF Requests, Answered
<1>8. lines \in Seq(Seq(Text))
  BY <1>4 DEF Text
<1>9. IsAtEnd(b) <=> k = Len(lines)
  BY <1>5, <1>7, <1>8, LexInLayout
<1>10. k = Len(asked)
  BY <1>2, <1>7, <1>9
<1>11. responses # <<>>
  <2>1. Len(asked) # 0
    BY <1>3
  <2> QED
    BY <2>1, <1>1, <1>10
<1> QED
  BY <1>1, <1>3, <1>6, <1>10, <1>11, ToldIsBlock DEF AllAnswered

-----------------------------------------------------------------------------
(* The server writes.                                                      *)

\* The responses make a block.
LEMMA PrepareResponsesIInv ==
  ASSUME IInv, ~is_direct, S!PrepareResponses, UNCHANGED <<is_direct, client_vars, compiler_open>>
  PROVE  IInv'
<1>1. TypeInv /\ ErrorsInv /\ direction = "PROCESSING" /\ builder_open /\ IsAtEnd(sread)
  BY ServerBuffers, Zenon DEF IInv, S!PrepareResponses
<1>2. call = "reading"
  BY <1>1, TurnToProcess
<1>3. PICK responses \in Seq(Seq(Word)) : Processing(responses)
  BY <1>1, TurnToProcess
<1>4. /\ AllAnswered(responses, c_connected)
      /\ PrepareToWrite(swrite) \in Buffer
      /\ PrepareToWrite(swrite).bol = 0
      /\ Framed(PrepareToWrite(swrite).data)
      /\ LaidOut(PrepareToWrite(swrite).data, responses)
  BY <1>1, <1>3, AllTold
<1>5. PICK block \in Seq(Symbol) : block = PrepareToWrite(swrite).data
  BY <1>4 DEF Buffer
<1>6. Framed(block) /\ LaidOut(block, responses)
  BY <1>4, <1>5
<1>7. /\ swrite' = PrepareToWrite(swrite) /\ direction' = "WRITING"
      /\ UNCHANGED <<c2s, s2c, sread, resolver, s_connected, builder_open>>
  BY ServerBuffers DEF S!PrepareResponses
<1>8. UNCHANGED <<is_direct, compiler_open, cwrite, cread, corked, c_connected, call, pending,
                  packets, asked>>
  BY DEF client_vars
<1>9. swrite'.data = block /\ swrite'.bol = 0
  BY <1>4, <1>7, <1>5
<1>10. /\ Asked /\ cread = EmptyBuffer /\ s2c = <<>> /\ cwrite = EmptyBuffer /\ c2s = <<>>
       /\ s_connected <=> ConnectedAfter(c_connected, responses, Len(responses))
  BY <1>3 DEF Processing, Asking
<1>11. /\ cread'.bol = 0 /\ Len(cread'.data) = 0 /\ Len(s2c') = 0 /\ Len(block) > 0
       /\ Starts(block, cread'.data, s2c')
  <2>1. cread'.bol = 0 /\ cread'.data = <<>> /\ s2c' = <<>>
    BY <1>7, <1>8, <1>10 DEF EmptyBuffer
  <2>2. Len(block) > 0
    BY <1>6 DEF Framed
  <2>3. Starts(block, <<>>, <<>>)
    BY <2>2 DEF Starts
  <2> QED
    BY <2>1, <2>2, <2>3
<1>12. Responded(block, responses)'
  <2>1. AllAnswered(responses, c_connected)'
    BY <1>4, <1>8 DEF AllAnswered, Answered
  <2>2. s_connected' <=> ConnectedAfter(c_connected', responses, Len(responses))
    BY <1>7, <1>8, <1>10
  <2>3. Asked' /\ cwrite' = EmptyBuffer /\ c2s' = <<>> /\ ~is_direct'
    BY <1>7, <1>8, <1>10 DEF Asked
  <2>4. /\ Len(cread'.data) + Len(s2c') <= Len(block)
        /\ swrite'.bol = Len(cread'.data) + Len(s2c') /\ swrite'.bol < Len(block)
    BY <1>9, <1>11
  <2> QED
    BY <2>1, <2>2, <2>3, <2>4, <1>6, <1>7, <1>9, <1>11 DEF Responded
<1>13. TypeInv'
  <2>1. direction' \in S!Direction
    BY <1>7 DEF S!Direction
  <2> QED
    BY <2>1, <1>1, <1>4, <1>7, <1>8 DEF TypeInv
<1>14. ErrorsInv' /\ DirectInv'
  BY <1>1, <1>7, <1>8 DEF ErrorsInv, DirectInv
<1> QED
  BY <1>2, <1>8, <1>9, <1>12, <1>13, <1>14 DEF IInv, CallInv

\* What write(2) takes of the responses goes into the channel.
LEMMA TellIInv ==
  ASSUME IInv, ~is_direct, NEW n \in 1 .. PipeCapacity, S!WriteStep(n, PipeCapacity),
         UNCHANGED <<is_direct, client_vars, compiler_open>>
  PROVE  IInv'
<1>1. TypeInv /\ ErrorsInv /\ CallInv /\ direction = "WRITING" /\ builder_open
  BY DEF IInv, S!WriteStep
<1>2. PICK b \in Buffer : b = swrite
  BY <1>1 DEF TypeInv
<1>3. PICK t \in Seq(Symbol) : t = s2c
  BY <1>1 DEF TypeInv
<1>4. PICK h \in Seq(Symbol) : h = cread.data
  BY <1>1 DEF TypeInv, Buffer
<1> DEFINE w == WriteSome(b, n)
           more == t \o SubSeq(b.data, b.bol + 1, b.bol + n)
<1>5. /\ n <= Len(Unwritten(b)) /\ n \in Nat /\ n > 0
      /\ s2c' = more /\ swrite' = w.buffer
      /\ UNCHANGED <<c2s, sread, resolver, s_connected, direction, builder_open>>
  BY <1>2, <1>3, ServerBuffers DEF S!WriteStep
<1> HIDE DEF w, more
<1>6. UNCHANGED <<is_direct, compiler_open, cwrite, cread, corked, c_connected, call, pending,
                  packets, asked>>
  BY DEF client_vars
<1>7. swrite # EmptyBuffer
  <2>1. Unwritten(EmptyBuffer) = <<>>
    BY DEF Unwritten, EmptyBuffer
  <2>2. Len(Unwritten(b)) # 0
    BY <1>5
  <2> QED
    BY <2>1, <2>2, <1>2
<1>8. call = "reading"
  <2>1. call \in {"idle", "writing", "reading", "parsing"}
    BY <1>1 DEF TypeInv, C!Call
  <2>2. call # "idle"
    BY <1>1, <1>7 DEF CallInv, Idle, ServerRests
  <2>3. call # "writing"
    BY <1>1, <1>7 DEF CallInv, Writing
  <2>4. call # "parsing"
    BY <1>1, <1>7 DEF CallInv, Parsing, ServerRests
  <2> QED
    BY <2>1, <2>2, <2>3, <2>4
<1>9. PICK d \in Seq(Symbol), responses \in Seq(Seq(Word)) : Responded(d, responses)
  <2>1. ~\E responses \in Seq(Seq(Word)) : Processing(responses)
    BY <1>1 DEF Processing
  <2>2. ~\E block \in Seq(Symbol) : Waiting(block)
    BY <1>7 DEF Waiting
  <2> QED
    BY <2>1, <2>2, <1>1, <1>8 DEF CallInv
<1>10. /\ b.data = d /\ b.bol = Len(h) + Len(t) /\ b.bol < Len(d)
       /\ Starts(d, h, t) /\ cread.bol = 0
       /\ Asked /\ cwrite = EmptyBuffer /\ c2s = <<>>
       /\ Framed(d) /\ LaidOut(d, responses)
       /\ AllAnswered(responses, c_connected)
  BY <1>1, <1>2, <1>3, <1>4, <1>7, <1>9 DEF Responded, ServerRests
<1>11. SentMore(b, h, more, w)
  <2>1. Starts(b.data, h, t) /\ b.bol = Len(h) + Len(t) /\ b.bol < Len(b.data)
    BY <1>10
  <2>2. n \in Nat /\ n > 0 /\ n <= Len(Unwritten(b))
    BY <1>5
  <2>3. SentMore(b, h, t \o SubSeq(b.data, b.bol + 1, b.bol + n), WriteSome(b, n))
    BY <2>1, <2>2, SendPiece, Zenon
  <2> QED
    BY <2>3 DEF w, more
<1>12. /\ w.buffer \in Buffer /\ more \in Seq(Symbol)
       /\ Starts(d, h, more)
       /\ \/ w.buffer = EmptyBuffer /\ Len(h) + Len(more) = Len(d)
          \/ /\ w.buffer.data = d
             /\ w.buffer.bol = Len(h) + Len(more)
             /\ w.buffer.bol < Len(d)
  BY <1>10, <1>11 DEF SentMore
<1>13. Responded(d, responses)'
  <2>1. AllAnswered(responses, c_connected)'
    BY <1>6, <1>10 DEF AllAnswered, Answered
  <2>2. s_connected' <=> ConnectedAfter(c_connected', responses, Len(responses))
    <3>1. s_connected <=> ConnectedAfter(c_connected, responses, Len(responses))
      BY <1>9 DEF Responded
    <3> QED
      BY <3>1, <1>5, <1>6
  <2>3. Asked' /\ cwrite' = EmptyBuffer /\ c2s' = <<>> /\ ~is_direct' /\ cread'.bol = 0
    BY <1>5, <1>6, <1>10 DEF Asked
  <2>4. cread'.data = h /\ s2c' = more /\ swrite' = w.buffer /\ direction' = "WRITING"
    BY <1>1, <1>4, <1>5, <1>6
  <2>5. Len(cread'.data) + Len(s2c') <= Len(d)
    BY <2>4, <1>12
  <2>6. Starts(d, cread'.data, s2c')
    BY <2>4, <1>12
  <2>7. \/ /\ ServerRests'
           /\ Len(cread'.data) + Len(s2c') = Len(d)
        \/ /\ direction' = "WRITING"
           /\ swrite'.data = d
           /\ swrite'.bol = Len(cread'.data) + Len(s2c')
           /\ swrite'.bol < Len(d)
    <3>1. CASE w.buffer = EmptyBuffer /\ Len(h) + Len(more) = Len(d)
      <4>1. ServerRests'
        BY <3>1, <2>4 DEF ServerRests
      <4> QED
        BY <4>1, <3>1, <2>4
    <3>2. CASE w.buffer.data = d /\ w.buffer.bol = Len(h) + Len(more) /\ w.buffer.bol < Len(d)
      BY <3>2, <2>4
    <3> QED
      BY <3>1, <3>2, <1>12
  <2> QED
    BY <2>1, <2>2, <2>3, <2>5, <2>6, <2>7, <1>10 DEF Responded
<1>14. TypeInv'
  BY <1>1, <1>5, <1>6, <1>12 DEF TypeInv
<1>15. ErrorsInv' /\ DirectInv'
  BY <1>1, <1>5, <1>6 DEF ErrorsInv, DirectInv
<1> QED
  BY <1>6, <1>8, <1>13, <1>14, <1>15 DEF IInv, CallInv

\* The direction is turned around, and the buffer that held the requests emptied.
LEMMA PrepareForRequestsIInv ==
  ASSUME IInv, ~is_direct, S!PrepareForRequests, UNCHANGED <<is_direct, client_vars, compiler_open>>
  PROVE  IInv'
<1>1. TypeInv /\ ErrorsInv /\ CallInv /\ direction = "WRITING" /\ builder_open /\ swrite = EmptyBuffer
  BY ServerBuffers, Zenon DEF IInv, S!PrepareForRequests
<1>2. /\ sread' = EmptyBuffer /\ direction' = "READING"
      /\ UNCHANGED <<c2s, s2c, swrite, resolver, s_connected, builder_open>>
  BY ServerBuffers DEF S!PrepareForRequests
<1>3. UNCHANGED <<is_direct, compiler_open, cwrite, cread, corked, c_connected, call, pending,
                  packets, asked>>
  BY DEF client_vars
<1>4. TypeInv'
  <2>1. direction' \in S!Direction /\ sread' \in Buffer
    BY <1>2, EmptyBufferType DEF S!Direction
  <2> QED
    BY <2>1, <1>1, <1>2, <1>3 DEF TypeInv
<1>5. ErrorsInv' /\ DirectInv'
  BY <1>1, <1>2, <1>3 DEF ErrorsInv, DirectInv
<1>6. /\ Asked => Asked'
      /\ Asking => Asking'
      /\ Heard = <<>> /\ Heard' = <<>> /\ Hearing' /\ ServerRests' /\ Queue' = Queue
      /\ \A d : Asks(d) => Asks(d)'
      /\ \A responses, before : AllAnswered(responses, before) => AllAnswered(responses, before)'
  <2>1. Heard = <<>>
    BY <1>1 DEF Heard
  <2>2. Heard' = <<>> /\ Hearing'
    BY <1>2 DEF Heard, Hearing, EmptyBuffer
  <2>3. ServerRests'
    BY <1>1, <1>2 DEF ServerRests
  <2>4. (Asked => Asked') /\ (Asking => Asking') /\ Queue' = Queue
    BY <1>2, <1>3 DEF Asked, Asking, Queue
  <2>5. \A d : Asks(d) => Asks(d)'
    BY <1>2, <1>3 DEF Asks
  <2>6. \A responses, before : AllAnswered(responses, before) => AllAnswered(responses, before)'
    BY <1>2, <1>3 DEF AllAnswered, Answered
  <2> QED
    BY <2>1, <2>2, <2>3, <2>4, <2>5, <2>6
<1>7. call = "idle" => Idle'
  <2> SUFFICES ASSUME Idle PROVE Idle'
    BY <1>1 DEF CallInv
  <2>1. \E lines \in Seq(Seq(Word)) : Requests(lines, Queue') /\ Told(cwrite', lines)
    BY <1>3, <1>6 DEF Idle
  <2> QED
    BY <2>1, <1>2, <1>3, <1>6 DEF Idle
<1>8. call = "writing" => Writing'
  <2> SUFFICES ASSUME Writing PROVE Writing'
    BY <1>1 DEF CallInv
  <2>1. PICK d \in Seq(Symbol) : d = cwrite.data
    BY <1>1 DEF TypeInv, Buffer
  <2>2. Asking' /\ Asks(d)'
    BY <2>1, <1>6 DEF Writing
  <2>3. cwrite' = cwrite /\ c2s' = c2s /\ swrite' = EmptyBuffer /\ Heard' = Heard
    BY <1>1, <1>2, <1>3, <1>6
  <2> QED
    BY <2>1, <2>2, <2>3, <1>2, <1>3, <1>6 DEF Writing
<1>9. \A d \in Seq(Symbol) : Waiting(d) => Waiting(d)'
  <2> SUFFICES ASSUME NEW d \in Seq(Symbol), Waiting(d) PROVE Waiting(d)'
    OBVIOUS
  <2>1. Asking' /\ Asks(d)' /\ Heard' = Heard
    BY <1>6 DEF Waiting
  <2> QED
    BY <2>1, <1>1, <1>2, <1>3, <1>6 DEF Waiting
<1>10. \A responses \in Seq(Seq(Word)) : ~Processing(responses)
  BY <1>1 DEF Processing
<1>11. \A d \in Seq(Symbol), responses \in Seq(Seq(Word)) :
         Responded(d, responses) => Responded(d, responses)'
  <2> SUFFICES ASSUME NEW d \in Seq(Symbol), NEW responses \in Seq(Seq(Word)),
                      Responded(d, responses)
               PROVE  Responded(d, responses)'
    OBVIOUS
  <2>1. Len(cread.data) + Len(s2c) = Len(d)
    <3>1. swrite.data # d
      BY <1>1 DEF Responded, Framed, EmptyBuffer
    <3> QED
      BY <3>1, <1>1 DEF Responded
  <2>2. AllAnswered(responses, c_connected)'
    <3>1. AllAnswered(responses, c_connected)
      BY DEF Responded
    <3> QED
      BY <3>1, <1>2, <1>3 DEF AllAnswered, Answered
  <2>3. s_connected' <=> ConnectedAfter(c_connected', responses, Len(responses))
    <3>1. s_connected <=> ConnectedAfter(c_connected, responses, Len(responses))
      BY DEF Responded
    <3> QED
      BY <3>1, <1>2, <1>3
  <2>4. Asked'
    BY <1>6 DEF Responded
  <2> QED
    BY <2>1, <2>2, <2>3, <2>4, <1>2, <1>3, <1>6 DEF Responded
<1>12. \A responses \in Seq(Seq(Word)), before \in BOOLEAN :
         Parsing(responses, before) => Parsing(responses, before)'
  <2> SUFFICES ASSUME NEW responses \in Seq(Seq(Word)), NEW before \in BOOLEAN,
                      Parsing(responses, before)
               PROVE  Parsing(responses, before)'
    OBVIOUS
  <2>1. AllAnswered(responses, before)'
    BY <1>2, <1>3 DEF Parsing, AllAnswered, Answered
  <2> QED
    BY <2>1, <1>2, <1>3, <1>6 DEF Parsing
<1>13. CallInv'
  BY <1>1, <1>3, <1>7, <1>8, <1>9, <1>10, <1>11, <1>12, Zenon DEF CallInv
<1> QED
  BY <1>4, <1>5, <1>13 DEF IInv

\* The server lexes whole blocks, as long as the compiler is there.
LEMMA RequestsAreLexable ==
  ASSUME IInv, direction = "PROCESSING", builder_open, ~is_direct
  PROVE  S!Lexable(sread)
<1>1. PICK responses \in Seq(Seq(Word)) : Processing(responses)
  BY TurnToProcess
<1>2. PICK b \in Buffer : b = sread
  BY DEF IInv, TypeInv
<1>3. PICK codes \in Seq(RequestCode) : codes = asked
  BY DEF IInv, TypeInv
<1>4. PICK lines \in Seq(Seq(Word)) :
        /\ Requests(lines, codes)
        /\ \E at \in [1 .. Len(lines) + 1 -> 0 .. Len(b.data)] : Layout(b.data, lines, at)
  BY <1>1, <1>2, <1>3, Zenon DEF Processing
<1>5. PICK at \in [1 .. Len(lines) + 1 -> 0 .. Len(b.data)] : Layout(b.data, lines, at)
  BY <1>4
<1>6. PICK n \in Nat : n = Len(lines)
  OBVIOUS
<1>7. n > 0
  <2>1. codes # <<>>
    BY <1>1, <1>3 DEF Processing, Asking, Asked
  <2>2. n = Len(codes)
    BY <1>4, <1>6 DEF Requests
  <2> QED
    BY <2>1, <2>2
<1>8. LineAt(b.data, lines[n], at[n], at[n + 1]) /\ at[n + 1] = Len(b.data)
  <2>1. n \in 1 .. Len(lines)
    BY <1>6, <1>7
  <2> QED
    BY <2>1, <1>5, <1>6 DEF Layout
<1>9. b.data[Len(b.data)] = NEWLINE
  BY <1>8 DEF LineAt
<1>10. Len(b.data) > 0
  <2>1. at[n + 1] > at[n] /\ at[n] \in Nat
    <3>1. n \in 1 .. Len(lines) + 1 /\ n + 1 \in 1 .. Len(lines) + 1 /\ n < n + 1
      BY <1>6, <1>7
    <3>2. at[n] < at[n + 1]
      BY <3>1, <1>5 DEF Layout
    <3>3. at[n] \in 0 .. Len(b.data) /\ at[n + 1] \in 0 .. Len(b.data)
      BY <3>1, <1>5
    <3> QED
      BY <3>2, <3>3
  <2>2. Len(b.data) \in Nat
    BY DEF Buffer
  <2> QED
    BY <2>1, <2>2, <1>8
<1>11. b.data # <<>>
  BY <1>10 DEF Buffer
<1>12. S!NEWLINE = NEWLINE
  BY DEF S!NEWLINE, NEWLINE
<1> QED
  BY <1>2, <1>9, <1>11, <1>12 DEF S!Lexable, S!Last

LEMMA ServesIInv ==
  ASSUME IInv, Serves, compiler_open
  PROVE  IInv'
<1>1. ~is_direct /\ UNCHANGED <<is_direct, client_vars, compiler_open>>
  BY DEF Serves
<1>2. ~S!ReadFails /\ ~S!Abort
  BY <1>1, RequestsAreLexable DEF S!ReadFails, S!Abort
<1>3. CASE S!WriteError
  <2>1. direction = "WRITING" /\ swrite' = EmptyBuffer
    BY <1>3, ServerBuffers, Zenon DEF S!WriteError
  <2> QED
    BY <2>1, <1>1, <1>3, GoIInv DEF S!WriteError
<1> QED
  BY <1>1, <1>2, <1>3, HearIInv, ProcessLineIInv, PrepareResponsesIInv, TellIInv,
     PrepareForRequestsIInv, Zenon DEF Serves

-----------------------------------------------------------------------------
(* Without channels.                                                       *)

\* The server has the requests at once.
LEMMA DirectRequestsIInv ==
  ASSUME IInv, DirectRequests
  PROVE  IInv'
<1>1. TypeInv /\ ErrorsInv /\ DirectInv /\ CallInv /\ is_direct /\ call = "writing"
  BY DEF IInv, DirectRequests
<1>2. /\ sread' = cwrite /\ cwrite' = EmptyBuffer
      /\ direction' = "PROCESSING" /\ call' = "reading"
      /\ UNCHANGED <<is_direct, c2s, s2c, cread, corked, c_connected, pending, packets, asked,
                     swrite, resolver, s_connected, compiler_open, builder_open>>
  BY DEF DirectRequests
<1>3. PICK d \in Seq(Symbol) : d = cwrite.data
  BY <1>1 DEF TypeInv, Buffer
<1>4. /\ Asking /\ Asks(d) /\ cwrite.bol = 0
      /\ c2s = <<>> /\ swrite = EmptyBuffer /\ (s_connected <=> c_connected)
  BY <1>1, <1>3 DEF CallInv, Writing, DirectInv
<1>5. PICK lines \in Seq(Seq(Word)) : Requests(lines, asked) /\ LaidOut(d, lines)
  BY <1>4 DEF Asks
<1>6. PICK at \in [1 .. Len(lines) + 1 -> 0 .. Len(d)] : Layout(d, lines, at)
  BY <1>5 DEF LaidOut
<1>7. at[1] = 0 /\ Len(<<>>) + 1 = 1 /\ \A i \in 1 .. Len(<<>>) : FALSE
  BY <1>6 DEF Layout
<1>8. \E ls \in Seq(Seq(Word)) :
         /\ Requests(ls, asked')
         /\ \E a \in [1 .. Len(ls) + 1 -> 0 .. Len(sread'.data)] :
              Layout(sread'.data, ls, a) /\ sread'.bol = a[Len(<<>>) + 1]
  <2>1. sread'.data = d /\ sread'.bol = at[Len(<<>>) + 1]
    BY <1>2, <1>3, <1>4, <1>7
  <2>2. \E a \in [1 .. Len(lines) + 1 -> 0 .. Len(sread'.data)] :
          Layout(sread'.data, lines, a) /\ sread'.bol = a[Len(<<>>) + 1]
    BY <2>1, <1>6
  <2>3. Requests(lines, asked')
    BY <1>2, <1>5
  <2> QED
    BY <2>2, <2>3
<1>9. Answered(<<>>, c_connected)'
  <2>1. <<>> \in Seq(Seq(Word) \ {<<>>}) /\ Len(<<>>) <= Len(asked')
    BY <1>1, <1>2 DEF TypeInv
  <2> QED
    BY <2>1, <1>7 DEF Answered
<1>10. Told(swrite', <<>>)
  BY <1>2, <1>4 DEF Told
<1>11. s_connected' <=> ConnectedAfter(c_connected', <<>>, Len(<<>>))
  BY <1>2, <1>4, <1>7, Zenon DEF ConnectedAfter
<1>12. Asking' /\ cwrite' = EmptyBuffer /\ c2s' = <<>>
  BY <1>2, <1>4 DEF Asking, Asked
<1>13. Processing(<<>>)'
  BY <1>2, <1>8, <1>9, <1>10, <1>11, <1>12, Zenon DEF Processing
<1>14. CallInv'
  <2>1. <<>> \in Seq(Seq(Word))
    OBVIOUS
  <2> QED
    BY <2>1, <1>2, <1>13 DEF CallInv
<1>15. TypeInv'
  <2>1. direction' \in S!Direction /\ call' \in C!Call /\ cwrite' \in Buffer
    BY <1>2, EmptyBufferType DEF S!Direction, C!Call
  <2> QED
    BY <2>1, <1>1, <1>2 DEF TypeInv
<1>16. ErrorsInv' /\ DirectInv'
  BY <1>1, <1>2 DEF ErrorsInv, DirectInv
<1> QED
  BY <1>14, <1>15, <1>16 DEF IInv

\* And the client the responses, for a buffer that the call had emptied.
LEMMA DirectResponsesIInv ==
  ASSUME IInv, DirectResponses
  PROVE  IInv'
<1>1. /\ TypeInv /\ ErrorsInv /\ DirectInv /\ CallInv
      /\ is_direct /\ call = "reading" /\ IsAtEnd(sread)
  BY DEF IInv, DirectResponses
<1>2. PICK responses \in Seq(Seq(Word)) : Processing(responses)
  BY <1>1 DEF CallInv, Waiting, Responded
<1>3. /\ AllAnswered(responses, c_connected)
      /\ PrepareToWrite(swrite) \in Buffer
      /\ PrepareToWrite(swrite).bol = 0
      /\ LaidOut(PrepareToWrite(swrite).data, responses)
  BY <1>1, <1>2, AllTold
<1>4. PICK b \in Buffer : b = PrepareToWrite(swrite)
  BY <1>3
<1>5. /\ cread' = b /\ swrite' = cread /\ call' = "parsing"
      /\ UNCHANGED <<is_direct, c2s, s2c, cwrite, corked, c_connected, pending, packets, asked,
                     sread, resolver, s_connected, direction, compiler_open, builder_open>>
  BY <1>4 DEF DirectResponses
<1>6. /\ Asked /\ cread = EmptyBuffer /\ s2c = <<>> /\ cwrite = EmptyBuffer /\ c2s = <<>>
      /\ direction = "PROCESSING"
      /\ s_connected <=> ConnectedAfter(c_connected, responses, Len(responses))
  BY <1>2 DEF Processing, Asking
<1>7. PICK at \in [1 .. Len(responses) + 1 -> 0 .. Len(b.data)] : Layout(b.data, responses, at)
  BY <1>3, <1>4 DEF LaidOut
<1>8. PICK before \in BOOLEAN : before = c_connected
  BY <1>1 DEF TypeInv
<1>9. Parsing(responses, before)'
  <2>1. AllAnswered(responses, before)'
    BY <1>3, <1>5, <1>8 DEF AllAnswered, Answered
  <2>2. Len(packets') = 0 /\ 0 < Len(asked') /\ pending' = SubSeq(asked', 0 + 1, Len(asked'))
    <3>1. asked \in Seq(RequestCode) /\ asked # <<>> /\ pending = asked /\ packets = <<>>
      BY <1>1, <1>6 DEF TypeInv, Asked
    <3>2. \A X, s : s \in Seq(X) => s = SubSeq(s, 0 + 1, Len(s))
      OBVIOUS
    <3>3. pending = SubSeq(asked, 0 + 1, Len(asked))
      BY <3>1, <3>2, Zenon
    <3> QED
      BY <3>1, <3>3, <1>5
  <2>3. \E a \in [1 .. Len(responses) + 1 -> 0 .. Len(cread'.data)] :
          Layout(cread'.data, responses, a) /\ cread'.bol = a[0 + 1]
    <3>1. at[0 + 1] = 0 /\ b.bol = 0
      BY <1>3, <1>4, <1>7 DEF Layout
    <3> QED
      BY <3>1, <1>5, <1>7
  <2>4. \A i \in 1 .. 0 : FALSE
    OBVIOUS
  <2>5. c_connected' <=> ConnectedAfter(before, responses, 0)
    BY <2>4, <1>5, <1>8, Zenon DEF ConnectedAfter
  <2>6. s_connected' <=> ConnectedAfter(before, responses, Len(responses))
    BY <1>5, <1>6, <1>8
  <2>7. ServerRests' /\ c2s' = <<>> /\ s2c' = <<>> /\ cwrite' = EmptyBuffer
    BY <1>1, <1>5, <1>6 DEF ServerRests
  <2>8. \A i \in 1 .. 0 : Tells(packets'[i], asked'[i], responses[i])
    BY <2>4
  <2> QED
    BY <2>1, <2>2, <2>3, <2>5, <2>6, <2>7, <2>8 DEF Parsing
<1>10. CallInv'
  BY <1>5, <1>9 DEF CallInv
<1>11. TypeInv'
  <2>1. call' \in C!Call
    BY <1>5 DEF C!Call
  <2> QED
    BY <2>1, <1>1, <1>4, <1>5 DEF TypeInv
<1>12. ErrorsInv' /\ DirectInv'
  BY <1>1, <1>5 DEF ErrorsInv, DirectInv
<1> QED
  BY <1>10, <1>11, <1>12 DEF IInv

LEMMA DirectsIInv ==
  ASSUME IInv, Directs
  PROVE  IInv'
<1>1. CASE DirectLine
  BY <1>1, ProcessLineIInv DEF DirectLine
<1> QED
  BY <1>1, DirectRequestsIInv, DirectResponsesIInv DEF Directs

-----------------------------------------------------------------------------
(* The invariant holds.                                                    *)

\* A session that its resolvers and its arguments keep to the interface.
LEMMA InitIInv ==
  ASSUME Init, InitialResolver \subseteq Contract
  PROVE  IInv
<1>1. /\ is_direct \in BOOLEAN /\ c2s = <<>> /\ s2c = <<>> /\ compiler_open = TRUE
      /\ cwrite = EmptyBuffer /\ cread = EmptyBuffer /\ corked = <<>> /\ c_connected = FALSE
      /\ call = "idle" /\ pending = <<>> /\ packets = <<>> /\ asked = <<>>
  BY ClientBuffers DEF Init, C!ClientInit
<1>2. /\ sread = EmptyBuffer /\ swrite = EmptyBuffer /\ resolver \in Contract
      /\ s_connected = FALSE /\ direction = "READING" /\ builder_open = TRUE
  BY ServerBuffers DEF Init, S!ServerInit
<1>3. TypeInv
  <2>1. /\ <<>> \in Seq(Symbol) /\ <<>> \in Seq(RequestCode)
        /\ <<>> \in Seq(RequestCode \cup {C!CorkMark})
        /\ <<>> \in Seq([code : C!PacketCode, request : RequestCode, value : C!PacketValue])
    OBVIOUS
  <2>2. call \in C!Call /\ direction \in S!Direction
    BY <1>1, <1>2 DEF C!Call, S!Direction
  <2>3. c_connected \in BOOLEAN /\ s_connected \in BOOLEAN /\ compiler_open \in BOOLEAN
        /\ builder_open \in BOOLEAN
    BY <1>1, <1>2
  <2> QED
    BY <2>1, <2>2, <2>3, <1>1, <1>2, EmptyBufferType, Zenon DEF TypeInv
<1>4. DirectInv /\ ErrorsInv
  BY <1>1, <1>2 DEF DirectInv, ErrorsInv
<1>5. Idle
  <2>1. Queue = <<>> /\ <<>> \in Seq(Seq(Word)) /\ <<>> \in Seq(RequestCode)
    BY <1>1 DEF Queue
  <2>2. Requests(<<>>, Queue) /\ Told(cwrite, <<>>)
    BY <2>1, <1>1 DEF Requests, Told
  <2>3. \E lines \in Seq(Seq(Word)) : Requests(lines, Queue) /\ Told(cwrite, lines)
    BY <2>1, <2>2
  <2>4. IsAtEnd(cread)
    BY <1>1 DEF IsAtEnd, EmptyBuffer
  <2>5. ServerRests
    BY <1>2 DEF ServerRests
  <2> QED
    BY <2>1, <2>3, <2>4, <2>5, <1>1, <1>2 DEF Idle
<1>6. CallInv
  BY <1>1, <1>5 DEF CallInv
<1> QED
  BY <1>3, <1>4, <1>6 DEF IInv

\* Whether the compiler is there concerns no one who does not ask.
LEMMA UntouchedIInv ==
  ASSUME IInv, compiler_open' \in BOOLEAN,
         UNCHANGED <<is_direct, c2s, s2c, client_vars, server_vars, builder_open>>
  PROVE  IInv'
<1>1. UNCHANGED <<is_direct, c2s, s2c, cwrite, cread, corked, c_connected, call, pending,
                  packets, asked, sread, swrite, resolver, s_connected, direction,
                  builder_open>>
  BY DEF client_vars, server_vars
<1>2. TypeInv' /\ DirectInv' /\ ErrorsInv'
  BY <1>1 DEF IInv, TypeInv, DirectInv, ErrorsInv
<1>3. /\ Asked <=> Asked'
      /\ Asking <=> Asking'
      /\ Heard' = Heard /\ (Hearing => Hearing') /\ Queue' = Queue
      /\ ServerRests => ServerRests'
      /\ \A d : Asks(d) => Asks(d)'
      /\ \A responses, before : Answered(responses, before) => Answered(responses, before)'
  BY <1>1 DEF Asked, Asking, Heard, Hearing, Queue, ServerRests, Asks, Answered
<1>4. Idle => Idle'
  <2> SUFFICES ASSUME Idle PROVE Idle'
    OBVIOUS
  <2>1. \E lines \in Seq(Seq(Word)) : Requests(lines, Queue') /\ Told(cwrite', lines)
    BY <1>1, <1>3 DEF Idle
  <2> QED
    BY <2>1, <1>1, <1>3 DEF Idle
<1>5. Writing => Writing'
  <2> SUFFICES ASSUME Writing PROVE Writing'
    OBVIOUS
  <2>1. PICK d \in Seq(Symbol) : d = cwrite.data
    BY DEF IInv, TypeInv, Buffer
  <2>2. Asking' /\ Asks(d)' /\ cwrite' = cwrite
    BY <2>1, <1>1, <1>3 DEF Writing
  <2> QED
    BY <2>1, <2>2, <1>1, <1>3 DEF Writing
<1>6. \A d \in Seq(Symbol) : Waiting(d) => Waiting(d)'
  <2> SUFFICES ASSUME NEW d \in Seq(Symbol), Waiting(d) PROVE Waiting(d)'
    OBVIOUS
  <2>1. Asking' /\ Asks(d)' /\ Heard' = Heard /\ Hearing'
    BY <1>3 DEF Waiting
  <2> QED
    BY <2>1, <1>1 DEF Waiting
<1>7. \A responses \in Seq(Seq(Word)) : Processing(responses) => Processing(responses)'
  <2> SUFFICES ASSUME NEW responses \in Seq(Seq(Word)), Processing(responses)
               PROVE  Processing(responses)'
    OBVIOUS
  <2>1. Answered(responses, c_connected)'
    BY <1>1, <1>3 DEF Processing, Answered
  <2>2. s_connected' <=> ConnectedAfter(c_connected', responses, Len(responses))
    <3>1. s_connected <=> ConnectedAfter(c_connected, responses, Len(responses))
      BY DEF Processing
    <3> QED
      BY <3>1, <1>1
  <2>3. \E lines \in Seq(Seq(Word)) :
          /\ Requests(lines, asked')
          /\ \E at \in [1 .. Len(lines) + 1 -> 0 .. Len(sread'.data)] :
               Layout(sread'.data, lines, at) /\ sread'.bol = at[Len(responses) + 1]
    BY <1>1, Zenon DEF Processing
  <2>4. Asking' /\ cwrite' = EmptyBuffer /\ c2s' = <<>> /\ direction' = "PROCESSING"
    BY <1>1, <1>3 DEF Processing
  <2>5. Told(swrite', responses)
    BY <1>1, Zenon DEF Processing
  <2> QED
    BY <2>1, <2>2, <2>3, <2>4, <2>5, Zenon DEF Processing
<1>8. \A d \in Seq(Symbol), responses \in Seq(Seq(Word)) :
        Responded(d, responses) => Responded(d, responses)'
  <2> SUFFICES ASSUME NEW d \in Seq(Symbol), NEW responses \in Seq(Seq(Word)),
                      Responded(d, responses)
               PROVE  Responded(d, responses)'
    OBVIOUS
  <2>1. AllAnswered(responses, c_connected)'
    BY <1>1 DEF Responded, AllAnswered, Answered
  <2>2. s_connected' <=> ConnectedAfter(c_connected', responses, Len(responses))
    <3>1. s_connected <=> ConnectedAfter(c_connected, responses, Len(responses))
      BY DEF Responded
    <3> QED
      BY <3>1, <1>1
  <2>3. Asked' /\ (ServerRests => ServerRests')
    BY <1>3 DEF Responded
  <2> QED
    BY <2>1, <2>2, <2>3, <1>1 DEF Responded
<1>9. \A responses \in Seq(Seq(Word)), before \in BOOLEAN :
        Parsing(responses, before) => Parsing(responses, before)'
  <2> SUFFICES ASSUME NEW responses \in Seq(Seq(Word)), NEW before \in BOOLEAN,
                      Parsing(responses, before)
               PROVE  Parsing(responses, before)'
    OBVIOUS
  <2>1. AllAnswered(responses, before)'
    BY <1>1 DEF Parsing, AllAnswered, Answered
  <2>2. builder_open' => c2s' = <<>> /\ ServerRests'
    BY <1>1, <1>3 DEF Parsing
  <2>3. /\ c_connected' <=> ConnectedAfter(before, responses, Len(packets'))
        /\ s_connected' <=> ConnectedAfter(before, responses, Len(responses))
    BY <1>1, Zenon DEF Parsing
  <2> QED
    BY <2>1, <2>2, <2>3, <1>1 DEF Parsing
<1>10. CallInv'
  BY <1>1, <1>4, <1>5, <1>6, <1>7, <1>8, <1>9, Zenon DEF IInv, CallInv
<1> QED
  BY <1>2, <1>10 DEF IInv

LEMMA NextIInv ==
  ASSUME IInv, compiler_open, [Next]_vars, Arguments \subseteq Seq(Word)
  PROVE  IInv'
<1>1. compiler_open \in BOOLEAN
  BY DEF IInv, TypeInv
<1>2. CASE UNCHANGED vars
  BY <1>1, <1>2, UntouchedIInv DEF vars
<1>3. CASE CompilerGoes
  BY <1>3, UntouchedIInv DEF CompilerGoes
<1>4. CASE BuilderGoes
  <2>1. ~is_direct /\ builder_open' = FALSE
    BY <1>4 DEF BuilderGoes
  <2>2. /\ UNCHANGED <<c2s, s2c, sread, swrite, resolver, s_connected, direction>>
        /\ UNCHANGED <<is_direct, client_vars, compiler_open>>
    BY <1>4 DEF BuilderGoes, server_vars
  <2> QED
    BY <2>1, <2>2, GoIInv
<1>5. CASE Communicates
  BY <1>5, WriteIInv, WriteErrorIInv, ReadIInv, ReadEOFIInv, Zenon DEF Communicates
<1>6. CASE ParsesResponse
  BY <1>6, ParseIInv DEF ParsesResponse
<1> QED
  BY <1>2, <1>3, <1>4, <1>5, <1>6, CallIInv, DirectsIInv, ServesIInv DEF Next

-----------------------------------------------------------------------------
(* The compiler has gone.                                                  *)

\* The server knows of a connection that its client knows of.
LEMMA ConnectionKnown ==
  ASSUME IInv
  PROVE  c_connected => s_connected
<1>1. call \in {"idle", "writing", "reading", "parsing"} /\ CallInv
  BY DEF IInv, TypeInv, C!Call
<1>2. CASE call = "parsing"
  <2>1. PICK responses \in Seq(Seq(Word)), before \in BOOLEAN : Parsing(responses, before)
    BY <1>1, <1>2 DEF CallInv
  <2>2. Len(responses) = Len(asked) /\ Len(packets) < Len(asked)
    BY <2>1 DEF Parsing, AllAnswered
  <2>3. \A j \in 1 .. Len(packets) : j \in 1 .. Len(responses)
    BY <2>2 DEF IInv, TypeInv
  <2>4. /\ c_connected <=> ConnectedAfter(before, responses, Len(packets))
        /\ s_connected <=> ConnectedAfter(before, responses, Len(responses))
    BY <2>1, Zenon DEF Parsing
  <2> QED
    BY <2>3, <2>4, Zenon DEF ConnectedAfter
<1>3. CASE call = "reading"
  BY <1>3, ReadingConnection
<1>4. CASE call \in {"idle", "writing"}
  BY <1>1, <1>4 DEF CallInv, Idle, Writing
<1> QED
  BY <1>1, <1>2, <1>3, <1>4

\* Where the builder's buffer of requests has come to, while the builder is there.
LEMMA RequestsReached ==
  ASSUME IInv, ~is_direct, builder_open
  PROVE  /\ direction = "READING" => sread.bol = 0
         /\ direction = "PROCESSING" => sread.bol <= Len(sread.data)
<1>1. call \in {"idle", "writing", "reading", "parsing"} /\ CallInv
  BY DEF IInv, TypeInv, C!Call
<1>2. ServerRests /\ direction = "READING" => sread.bol = 0
  BY DEF ServerRests, EmptyBuffer
<1>3. ASSUME direction = "READING" PROVE sread.bol = 0
  <2>1. CASE call = "idle"
    BY <1>1, <1>2, <1>3, <2>1 DEF CallInv, Idle
  <2>2. CASE call = "writing"
    BY <1>1, <1>3, <2>2 DEF CallInv, Writing, Hearing
  <2>3. CASE call = "parsing"
    BY <1>1, <1>2, <1>3, <2>3 DEF CallInv, Parsing
  <2>4. CASE call = "reading"
    <3>1. CASE \E block \in Seq(Symbol) : Waiting(block)
      BY <1>3, <3>1 DEF Waiting, Hearing
    <3>2. CASE \E responses \in Seq(Seq(Word)) : Processing(responses)
      BY <1>3, <3>2 DEF Processing
    <3>3. CASE \E block \in Seq(Symbol), responses \in Seq(Seq(Word)) : Responded(block, responses)
      BY <1>2, <1>3, <3>3 DEF Responded
    <3> QED
      BY <1>1, <2>4, <3>1, <3>2, <3>3 DEF CallInv
  <2> QED
    BY <1>1, <2>1, <2>2, <2>3, <2>4
<1>4. ASSUME direction = "PROCESSING" PROVE sread.bol <= Len(sread.data)
  <2>1. PICK responses \in Seq(Seq(Word)) : Processing(responses)
    BY <1>4, TurnToProcess
  <2>2. PICK b \in Buffer : b = sread
    BY DEF IInv, TypeInv
  <2>3. PICK codes \in Seq(RequestCode) : codes = asked
    BY DEF IInv, TypeInv
  <2>4. PICK k \in Nat : k = Len(responses)
    OBVIOUS
  <2>5. PICK lines \in Seq(Seq(Word)) :
          /\ Requests(lines, codes)
          /\ \E at \in [1 .. Len(lines) + 1 -> 0 .. Len(b.data)] :
               Layout(b.data, lines, at) /\ b.bol = at[k + 1]
    BY <2>1, <2>2, <2>3, <2>4, Zenon DEF Processing
  <2>6. PICK at \in [1 .. Len(lines) + 1 -> 0 .. Len(b.data)] : b.bol = at[k + 1]
    BY <2>5
  <2>7. k <= Len(codes) /\ Len(lines) = Len(codes)
    BY <2>1, <2>3, <2>4, <2>5 DEF Processing, Answered, Requests
  <2>8. k + 1 \in 1 .. Len(lines) + 1
    BY <2>7
  <2>9. b.bol \in 0 .. Len(b.data)
    BY <2>6, <2>8
  <2> QED
    BY <2>2, <2>9
<1> QED
  BY <1>3, <1>4

\* The compiler may go at any time, and leaves the builder where it is.
LEMMA CompilerGoesGone ==
  ASSUME IInv, CompilerGoes
  PROVE  GoneInv'
<1>1. /\ ~is_direct /\ compiler_open' = FALSE
      /\ UNCHANGED <<is_direct, c2s, s2c, cwrite, cread, corked, c_connected, call, pending,
                     packets, asked, sread, swrite, resolver, s_connected, direction,
                     builder_open>>
  BY DEF CompilerGoes, client_vars, server_vars
<1>2. TypeInv' /\ ErrorsInv'
  BY <1>1 DEF IInv, TypeInv, ErrorsInv
<1>3. c_connected' => s_connected'
  BY <1>1, ConnectionKnown
<1>4. direction = "READING" => sread.bol = 0 \/ ~builder_open
  BY <1>1, RequestsReached
<1>5. direction = "PROCESSING" => sread.bol <= Len(sread.data) \/ ~builder_open
  BY <1>1, RequestsReached
<1>6. ASSUME call = "idle", builder_open
      PROVE  /\ c2s = <<>>
             /\ direction # "WRITING" => sread = EmptyBuffer
             /\ s_connected <=> c_connected
  <2>1. Idle /\ direction \in S!Direction
    BY <1>6 DEF IInv, CallInv, TypeInv
  <2> QED
    BY <2>1, <1>1, <1>6 DEF Idle, ServerRests, S!Direction
<1> QED
  BY <1>1, <1>2, <1>3, <1>4, <1>5, <1>6 DEF GoneInv

\* A line of what it left, which may be any, is answered as well.
LEMMA GoneLine ==
  ASSUME GoneInv, S!ProcessLine, UNCHANGED <<is_direct, client_vars, compiler_open>>
  PROVE  GoneInv'
<1>1. TypeInv /\ ErrorsInv /\ ~is_direct /\ (c_connected => s_connected)
  BY DEF GoneInv
<1>2. /\ direction = "PROCESSING" /\ builder_open /\ ~S!IsAtEnd(sread) /\ S!Lexable(sread)
  BY Zenon DEF S!ProcessLine, S!ProcessUnrecognized, S!ProcessConnect, S!RejectConnect,
               S!ProcessRequest, S!RejectRequest, S!Selects
<1>3. PICK b \in Buffer : b = sread
  BY <1>1 DEF TypeInv
<1>4. PICK w \in Buffer : w = swrite
  BY <1>1 DEF TypeInv
<1>5. b.bol < Len(b.data) /\ b.data[Len(b.data)] = NEWLINE
  <2>1. b.bol <= Len(b.data)
    BY <1>2, <1>3 DEF GoneInv
  <2>2. b.bol # Len(b.data)
    BY <1>2, <1>3 DEF S!IsAtEnd
  <2>3. b.bol \in Nat /\ Len(b.data) \in Nat
    BY DEF Buffer
  <2>4. S!NEWLINE = NEWLINE
    BY DEF S!NEWLINE, NEWLINE
  <2>5. b.data[Len(b.data)] = NEWLINE
    BY <1>2, <1>3, <2>4 DEF S!Lexable, S!Last
  <2> QED
    BY <2>1, <2>2, <2>3, <2>5
<1>6. /\ LineEnd(b) \in b.bol + 1 .. Len(b.data)
      /\ Lex(b).text \in Seq(Symbol)
      /\ Lex(b).buffer = [data |-> b.data, bol |-> LineEnd(b)]
  BY <1>5, LexOfBuffer
<1> DEFINE Goal == /\ UNCHANGED <<c2s, s2c, direction, builder_open>>
                   /\ sread' = Lex(b).buffer
                   /\ resolver' \in Contract /\ s_connected' \in BOOLEAN
                   /\ swrite' \in Buffer
                   /\ s_connected => s_connected'
<1>7. ASSUME S!ProcessUnrecognized PROVE Goal
  <2>1. /\ S!Respond(<<>>, S!ErrorResponse("unrecognized"))
        /\ UNCHANGED <<resolver, s_connected>>
    BY <1>7 DEF S!ProcessUnrecognized
  <2>2. S!ErrorResponse("unrecognized") = ErrorResponse("unrecognized")
    BY ServerLines, Zenon
  <2> DEFINE line == ErrorResponse("unrecognized")
  <2>3. line \in Seq(Word) /\ line # <<>>
    BY Errors, ResponseLines, Zenon
  <2>4. S!Respond(<<>>, line)
    BY <2>1, <2>2
  <2> HIDE DEF line
  <2>5. /\ UNCHANGED <<c2s, s2c, direction, builder_open>>
        /\ sread' = Lex(sread).buffer
        /\ swrite' = S!Tell(S!Tell(swrite, <<>>), line)
    BY <2>4, ServerBuffers DEF S!Respond
  <2>6. swrite' = AppendLine(w, line)
    BY <2>3, <2>5, <1>4, ServerBuffers, Zenon DEF S!Tell
  <2>7. AppendLine(w, line) \in Buffer
    BY <2>3, ComposingKeepsBuffer
  <2>8. swrite' \in Buffer /\ sread' = Lex(b).buffer
    BY <2>5, <2>6, <2>7, <1>3
  <2>9. resolver' \in Contract /\ s_connected' \in BOOLEAN /\ (s_connected => s_connected')
    BY <2>1, <1>1 DEF TypeInv
  <2> QED
    BY <2>5, <2>8, <2>9
<1>8. ASSUME ~S!ProcessUnrecognized PROVE Goal
  <2>1. PICK code \in RequestCode : S!Selects(code)
    <3>1. S!RequestCode = RequestCode /\ S!RC_CONNECT = RC_CONNECT
      BY ServerCodes, Zenon
    <3>2. RC_CONNECT \in RequestCode
      BY RequestVerbs
    <3> QED
      BY <1>8, <3>1, <3>2, Zenon
      DEF S!ProcessLine, S!ProcessConnect, S!RejectConnect, S!ProcessRequest, S!RejectRequest
  <2>2. code # S!RC_HWM
    <3>1. S!RC_HWM = RC_HWM
      BY ServerCodes, Zenon
    <3> QED
      BY <3>1 DEF RequestCode, RC_HWM
  <2>3. Lex(b).err = "0" /\ code = CodeOf(Lex(b).text[1])
    <3>1. code = IF S!Lex(sread).err = "0" THEN S!CodeOf(S!Lex(sread).text[1]) ELSE S!RC_HWM
      BY <2>1, Zenon DEF S!Selects
    <3>2. S!Lex(sread).err = "0" /\ code = S!CodeOf(S!Lex(sread).text[1])
      BY <3>1, <2>2
    <3> QED
      BY <3>2, <1>3, ServerBuffers, ServerCodes, Zenon
  <2> DEFINE text == Lex(b).text
  <2>4. \A i \in 1 .. Len(text) : text[i] \in Word
    <3>1. Lex(b).err = IF \E i \in 1 .. Len(text) : text[i] \notin Word THEN "EINVAL"
                       ELSE IF text = <<>> THEN "ENOENT" ELSE "0"
      BY DEF Lex
    <3> HIDE DEF text
    <3> QED
      BY <2>3, <3>1
  <2>5. text \in Seq(Symbol)
    BY <1>6
  <2> HIDE DEF text
  <2>6. text \in Seq(Word)
    BY <2>4, <2>5
  <2>7. resolver \in Contract /\ s_connected \in BOOLEAN
    BY <1>1 DEF TypeInv
  <2>8. Lex(sread).text = text /\ Lex(sread).err = "0" /\ CodeOf(text[1]) = code
    BY <1>3, <2>3 DEF text
  <2>9. /\ UNCHANGED <<c2s, s2c, direction, builder_open, compiler_open>>
        /\ sread' = Lex(sread).buffer
        /\ resolver' \in Contract /\ s_connected' \in BOOLEAN
        /\ \E reply \in Seq(Word) \ {<<>>} :
             /\ swrite' = AppendLine(swrite, reply)
             /\ Answer(code, reply, s_connected)
             /\ s_connected' <=> s_connected \/ Hello(reply)
    BY <2>6, <2>7, <2>8, LineAnswered, Zenon
  <2>10. PICK reply \in Seq(Word) : /\ swrite' = AppendLine(w, reply)
                                    /\ s_connected => s_connected'
    BY <2>9, <1>4
  <2>11. AppendLine(w, reply) \in Buffer
    BY ComposingKeepsBuffer
  <2>12. swrite' \in Buffer /\ sread' = Lex(b).buffer
    BY <2>9, <2>10, <2>11, <1>3
  <2> QED
    BY <2>9, <2>10, <2>12
<1> HIDE DEF Goal
<1>9. Goal
  BY <1>7, <1>8
<1>10. /\ UNCHANGED <<c2s, s2c, direction, builder_open>>
       /\ sread' = [data |-> b.data, bol |-> LineEnd(b)]
       /\ resolver' \in Contract /\ s_connected' \in BOOLEAN
       /\ swrite' \in Buffer
       /\ s_connected => s_connected'
  BY <1>6, <1>9 DEF Goal
<1>11. sread' \in Buffer /\ sread'.bol <= Len(sread'.data)
  <2>1. b.data \in Seq(Symbol) /\ b.bol \in Nat /\ Len(b.data) \in Nat
    BY DEF Buffer
  <2>2. LineEnd(b) \in Nat /\ LineEnd(b) <= Len(b.data)
    BY <2>1, <1>6
  <2> QED
    BY <2>1, <2>2, <1>10 DEF Buffer
<1>12. UNCHANGED <<is_direct, cwrite, cread, corked, c_connected, call, pending, packets, asked,
                   compiler_open>>
  BY DEF client_vars
<1>13. TypeInv' /\ ErrorsInv'
  BY <1>1, <1>10, <1>11, <1>12 DEF TypeInv, ErrorsInv
<1>14. call # "idle"
  <2>1. call = "idle" => sread = EmptyBuffer
    BY <1>2 DEF GoneInv
  <2>2. S!IsAtEnd(EmptyBuffer)
    BY DEF S!IsAtEnd, EmptyBuffer
  <2> QED
    BY <2>1, <2>2, <1>2
<1> QED
  BY <1>1, <1>2, <1>10, <1>11, <1>12, <1>13, <1>14 DEF GoneInv

\* The rest of the builder's loop.
LEMMA GoneServes ==
  ASSUME GoneInv, ~compiler_open, Serves
  PROVE  GoneInv'
<1>1. /\ TypeInv /\ ErrorsInv /\ ~is_direct /\ (c_connected => s_connected)
      /\ UNCHANGED <<is_direct, client_vars, compiler_open>>
  BY DEF GoneInv, Serves
<1>2. UNCHANGED <<is_direct, cwrite, cread, corked, c_connected, call, pending, packets, asked,
                  compiler_open>>
  BY <1>1 DEF client_vars
<1>3. ASSUME NEW n \in 1 .. PipeCapacity, S!ReadStep(n) PROVE GoneInv'
  <2> DEFINE chunk == SubSeq(c2s, 1, n)
             r     == ReadSome(sread, chunk)
  <2>1. /\ direction = "READING" /\ builder_open /\ n <= Len(c2s)
        /\ c2s' = SubSeq(c2s, n + 1, Len(c2s))
        /\ sread' = r.buffer
        /\ direction' = IF r.err = "EAGAIN" THEN "READING" ELSE "PROCESSING"
        /\ UNCHANGED <<s2c, swrite, resolver, s_connected, builder_open>>
    BY <1>3, ServerBuffers DEF S!ReadStep
  <2>2. c2s \in Seq(Symbol) /\ sread \in Buffer
    BY <1>1 DEF TypeInv
  <2>3. n \in 0 .. Len(c2s) /\ n > 0
    BY <2>1
  <2>4. chunk \in Seq(Symbol) /\ c2s' \in Seq(Symbol)
    BY <2>1, <2>2, <2>3, ChannelPieces
  <2> HIDE DEF chunk
  <2>5. r.buffer \in Buffer /\ r.buffer.bol = sread.bol
    BY <2>2, <2>4, ReadSomeResult
  <2>6. sread.bol = 0
    BY <2>1 DEF GoneInv
  <2> HIDE DEF r
  <2>7. sread' \in Buffer /\ sread'.bol = 0 /\ sread'.bol <= Len(sread'.data)
    BY <2>1, <2>5, <2>6 DEF Buffer
  <2>8. direction' \in S!Direction
    BY <2>1 DEF S!Direction
  <2>9. call # "idle"
    <3>1. c2s # <<>>
      BY <2>2, <2>3
    <3> QED
      BY <3>1, <2>1 DEF GoneInv
  <2>10. TypeInv' /\ ErrorsInv'
    BY <1>1, <1>2, <2>1, <2>4, <2>7, <2>8 DEF TypeInv, ErrorsInv
  <2> QED
    BY <1>1, <1>2, <2>1, <2>7, <2>9, <2>10 DEF GoneInv
<1>4. CASE S!ReadFails
  <2>1. /\ direction = "READING" /\ builder_open /\ c2s' = <<>> /\ direction' = "PROCESSING"
        /\ UNCHANGED <<s2c, sread, swrite, resolver, s_connected, builder_open>>
    BY <1>4, Zenon DEF S!ReadFails
  <2>2. sread \in Buffer /\ sread.bol = 0
    BY <2>1, <1>1 DEF GoneInv, TypeInv
  <2>3. sread.bol <= Len(sread.data)
    BY <2>2 DEF Buffer
  <2>4. direction' \in S!Direction /\ c2s' \in Seq(Symbol)
    BY <2>1 DEF S!Direction
  <2>5. TypeInv' /\ ErrorsInv'
    BY <1>1, <1>2, <2>1, <2>4 DEF TypeInv, ErrorsInv
  <2>6. call = "idle" => sread = EmptyBuffer /\ (s_connected <=> c_connected)
    BY <2>1 DEF GoneInv
  <2> QED
    BY <1>1, <1>2, <2>1, <2>3, <2>5, <2>6 DEF GoneInv
<1>5. CASE S!PrepareResponses
  <2>1. /\ direction = "PROCESSING" /\ builder_open /\ direction' = "WRITING"
        /\ swrite' = PrepareToWrite(swrite)
        /\ UNCHANGED <<c2s, s2c, sread, resolver, s_connected, builder_open>>
    BY <1>5, ServerBuffers DEF S!PrepareResponses
  <2>2. PICK w \in Buffer : w = swrite
    BY <1>1 DEF TypeInv
  <2>3. <<>> \in Seq(Word)
    OBVIOUS
  <2>4. PrepareToWrite(w) \in Buffer
    BY <2>3, ComposingKeepsBuffer
  <2>5. swrite' \in Buffer /\ direction' \in S!Direction
    BY <2>1, <2>2, <2>4 DEF S!Direction
  <2>6. TypeInv' /\ ErrorsInv'
    BY <1>1, <1>2, <2>1, <2>5 DEF TypeInv, ErrorsInv
  <2>7. call = "idle" => c2s = <<>> /\ (s_connected <=> c_connected)
    BY <2>1 DEF GoneInv
  <2> QED
    BY <1>1, <1>2, <2>1, <2>6, <2>7 DEF GoneInv
<1>6. CASE S!PrepareForRequests
  <2>1. /\ builder_open /\ direction' = "READING" /\ sread' = EmptyBuffer
        /\ UNCHANGED <<c2s, s2c, swrite, resolver, s_connected, builder_open>>
    BY <1>6, ServerBuffers DEF S!PrepareForRequests
  <2>2. sread' \in Buffer /\ sread'.bol = 0 /\ direction' \in S!Direction
    BY <2>1, EmptyBufferType DEF EmptyBuffer, S!Direction
  <2>3. TypeInv' /\ ErrorsInv'
    BY <1>1, <1>2, <2>1, <2>2 DEF TypeInv, ErrorsInv
  <2>4. call = "idle" => c2s = <<>> /\ (s_connected <=> c_connected)
    BY <2>1 DEF GoneInv
  <2> QED
    BY <1>1, <1>2, <2>1, <2>2, <2>3, <2>4 DEF GoneInv
<1>7. CASE S!Abort \/ S!WriteError
  <2>1. /\ builder_open' = FALSE /\ (swrite' = swrite \/ swrite' = EmptyBuffer)
        /\ UNCHANGED <<c2s, s2c, sread, resolver, s_connected, direction>>
    BY <1>7, ServerBuffers, Zenon DEF S!Abort, S!WriteError
  <2>2. swrite' \in Buffer
    BY <2>1, <1>1, EmptyBufferType DEF TypeInv
  <2>3. TypeInv' /\ ErrorsInv'
    BY <1>1, <1>2, <2>1, <2>2 DEF TypeInv, ErrorsInv
  <2> QED
    BY <1>1, <1>2, <2>1, <2>3 DEF GoneInv
<1>8. \A n : ~S!WriteStep(n, PipeCapacity)
  BY DEF S!WriteStep
<1>9. CASE S!ProcessLine
  BY <1>1, <1>9, GoneLine
<1> QED
  BY <1>3, <1>4, <1>5, <1>6, <1>7, <1>8, <1>9, Zenon DEF Serves

\* Nobody else does anything, but the builder may go.
LEMMA NextGone ==
  ASSUME GoneInv, ~compiler_open, [Next]_vars
  PROVE  GoneInv'
<1>1. ~is_direct
  BY DEF GoneInv
<1>2. CASE UNCHANGED vars \/ BuilderGoes
  <2>1. /\ builder_open' = builder_open \/ builder_open' = FALSE
        /\ UNCHANGED <<is_direct, c2s, s2c, cwrite, cread, corked, c_connected, call, pending,
                       packets, asked, sread, swrite, resolver, s_connected, direction,
                       compiler_open>>
    BY <1>2 DEF BuilderGoes, vars, client_vars, server_vars
  <2>2. builder_open' \in BOOLEAN /\ (builder_open' => builder_open)
    <3>1. builder_open \in BOOLEAN
      BY DEF GoneInv, TypeInv
    <3>2. CASE builder_open' = builder_open
      BY <3>1, <3>2
    <3>3. CASE builder_open' = FALSE
      BY <3>3
    <3> QED
      BY <2>1, <3>2, <3>3
  <2>3. TypeInv' /\ ErrorsInv'
    BY <2>1, <2>2 DEF GoneInv, TypeInv, ErrorsInv
  <2> QED
    BY <2>1, <2>2, <2>3 DEF GoneInv
<1>3. ~Calls /\ ~Communicates /\ ~ParsesResponse /\ ~CompilerGoes
  BY DEF Calls, Communicates, ParsesResponse, CompilerGoes
<1>4. ~Directs
  BY <1>1 DEF Directs, DirectRequests, DirectLine, DirectResponses
<1> QED
  BY <1>2, <1>3, <1>4, GoneServes DEF Next

-----------------------------------------------------------------------------
(* The invariant of the session.                                           *)

\* Only a step of the compiler's own takes it away, and nothing brings it back.
LEMMA CompilerStays ==
  ASSUME [Next]_vars, compiler_open' # compiler_open
  PROVE  CompilerGoes
<1>1. ~UNCHANGED vars
  BY DEF vars
<1>2. ~Calls /\ ~Communicates /\ ~ParsesResponse /\ ~Serves /\ ~BuilderGoes
  BY Zenon DEF Calls, Communicates, ParsesResponse, Serves, BuilderGoes
<1>3. ~Directs
  BY Zenon DEF Directs, DirectRequests, DirectResponses, DirectLine, S!ProcessLine,
               S!ProcessUnrecognized, S!ProcessConnect, S!RejectConnect, S!ProcessRequest,
               S!RejectRequest, S!Respond
<1> QED
  BY <1>1, <1>2, <1>3 DEF Next

LEMMA NextSessionInv ==
  ASSUME SessionInv, [Next]_vars, Arguments \subseteq Seq(Word)
  PROVE  SessionInv'
<1>1. compiler_open \in BOOLEAN
  BY DEF SessionInv, IInv, GoneInv, TypeInv
<1>2. CASE ~compiler_open
  <2>1. compiler_open' = compiler_open
    BY <1>2, CompilerStays DEF CompilerGoes
  <2> QED
    BY <1>2, <2>1, NextGone DEF SessionInv
<1>3. CASE compiler_open
  <2>1. CASE CompilerGoes
    <3>1. compiler_open' = FALSE
      BY <2>1 DEF CompilerGoes
    <3> QED
      BY <1>3, <2>1, <3>1, CompilerGoesGone DEF SessionInv
  <2>2. CASE ~CompilerGoes
    <3>1. compiler_open' = compiler_open
      BY <2>2, CompilerStays
    <3> QED
      BY <1>3, <3>1, NextIInv DEF SessionInv
  <2> QED
    BY <2>1, <2>2
<1> QED
  BY <1>1, <1>2, <1>3

\* The session keeps its inductive invariant, with any resolvers that keep to the
\* interface and any arguments of commands that are words, over channels of any
\* capacity and without channels, and with whatever a compiler leaves that goes.
THEOREM SessionInvariantHolds ==
  ASSUME Arguments \subseteq Seq(Word), InitialResolver \subseteq Contract
  PROVE  Spec => []SessionInv
<1>1. Init => SessionInv
  <2>1. Init => compiler_open = TRUE
    BY DEF Init
  <2> QED
    BY <2>1, InitIInv DEF SessionInv
<1>2. SessionInv /\ [Next]_vars => SessionInv'
  BY NextSessionInv
<1> QED
  BY <1>1, <1>2, PTL DEF Spec

\* Either part of it has the types and the errors.
LEMMA SessionTypes ==
  ASSUME SessionInv
  PROVE  TypeInv /\ ErrorsInv /\ (c_connected => s_connected)
<1>1. CASE compiler_open
  BY <1>1, ConnectionKnown DEF SessionInv, IInv
<1>2. CASE ~compiler_open
  BY <1>2 DEF SessionInv, GoneInv
<1> QED
  BY <1>1, <1>2

-----------------------------------------------------------------------------
(* What the invariant says.                                                *)

\* Every variable has its type, at both ends.
THEOREM SessionTypeOK ==
  ASSUME Arguments \subseteq Seq(Word), InitialResolver \subseteq Contract
  PROVE  Spec => []TypeOK
<1>1. SessionInv => TypeOK
  <2> SUFFICES ASSUME SessionInv PROVE TypeOK
    OBVIOUS
  <2>1. TypeInv
    BY SessionTypes
  <2>2. C!ClientTypeOK
    BY <2>1, ClientBuffers, ClientCodes, Zenon DEF TypeInv, C!ClientTypeOK
  <2>3. S!ServerTypeOK
    <3>1. resolver \in S!Resolver
      BY <2>1 DEF TypeInv, Contract, S!Resolver
    <3> QED
      BY <3>1, <2>1, ServerBuffers, Zenon DEF TypeInv, S!ServerTypeOK
  <2> QED
    BY <2>1, <2>2, <2>3 DEF TypeInv, TypeOK
<1> QED
  BY <1>1, SessionInvariantHolds, PTL

\* Neither end writes while the other has something to write or to be read.
THEOREM TurnsAreTaken ==
  ASSUME Arguments \subseteq Seq(Word), InitialResolver \subseteq Contract
  PROVE  Spec => []TurnsDoNotCross
<1>1. SessionInv => TurnsDoNotCross
  <2> SUFFICES ASSUME IInv, compiler_open, builder_open
               PROVE  /\ call = "writing" => s2c = <<>> /\ swrite.data = <<>>
                      /\ direction = "WRITING" /\ swrite.data # <<>> => call = "reading" /\ c2s = <<>>
                      /\ c2s = <<>> \/ s2c = <<>>
    BY DEF SessionInv, TurnsDoNotCross
  <2>1. call \in {"idle", "writing", "reading", "parsing"} /\ CallInv
    BY DEF IInv, TypeInv, C!Call
  <2>2. EmptyBuffer.data = <<>>
    BY DEF EmptyBuffer
  <2>3. CASE call = "idle"
    BY <2>1, <2>2, <2>3 DEF CallInv, Idle, ServerRests
  <2>4. CASE call = "writing"
    BY <2>1, <2>2, <2>4 DEF CallInv, Writing, Asking
  <2>5. CASE call = "parsing"
    BY <2>1, <2>2, <2>5 DEF CallInv, Parsing, ServerRests
  <2>6. CASE call = "reading"
    <3>1. CASE \E block \in Seq(Symbol) : Waiting(block)
      BY <2>2, <2>6, <3>1 DEF Waiting, Asking
    <3>2. CASE \E responses \in Seq(Seq(Word)) : Processing(responses)
      BY <2>6, <3>2 DEF Processing, Asking
    <3>3. CASE \E block \in Seq(Symbol), responses \in Seq(Seq(Word)) : Responded(block, responses)
      BY <2>6, <3>3 DEF Responded
    <3> QED
      BY <2>1, <2>6, <3>1, <3>2, <3>3 DEF CallInv
  <2> QED
    BY <2>1, <2>3, <2>4, <2>5, <2>6
<1> QED
  BY <1>1, SessionInvariantHolds, PTL

\* The two processes never wait for each other, in channels of any capacity.
THEOREM SessionNeverDeadlocks ==
  ASSUME Arguments \subseteq Seq(Word), InitialResolver \subseteq Contract
  PROVE  Spec => []NoDeadlock
<1>1. SessionInv => NoDeadlock
  <2> SUFFICES ASSUME IInv, ~is_direct, call # "idle", compiler_open, builder_open,
                      PipeCapacity > 0, ~ClientGoesOn, ~ServerGoesOn
               PROVE  FALSE
    BY DEF SessionInv, NoDeadlock
  <2>1. /\ CallInv
        /\ call \in {"writing", "reading", "parsing"}
        /\ direction \in {"READING", "PROCESSING", "WRITING"}
        /\ c2s \in Seq(Symbol) /\ s2c \in Seq(Symbol)
        /\ cwrite \in Buffer /\ swrite \in Buffer
        /\ sread.data \in Seq(Symbol) /\ cread.data \in Seq(Symbol)
        /\ PipeCapacity \in Nat
    BY SessionAssumption DEF IInv, TypeInv, C!Call, S!Direction, Buffer
  <2>2. Len(<<>>) = 0
    OBVIOUS
  <2>3. \/ direction = "WRITING" /\ swrite # EmptyBuffer
        \/ direction = "READING" /\ c2s = <<>>
    BY <2>1 DEF ServerGoesOn
  <2>4. CASE call = "writing"
    <3>1. Writing
      BY <2>1, <2>4 DEF CallInv
    <3>2. swrite = EmptyBuffer /\ cwrite.bol < Len(cwrite.data)
      BY <3>1 DEF Writing
    <3>3. Unwritten(cwrite) # <<>>
      BY <2>1, <3>2, SomeUnwritten
    <3>4. c2s = <<>>
      BY <2>3, <3>2
    <3> QED
      BY <2>2, <2>4, <3>3, <3>4 DEF ClientGoesOn
  <2>5. CASE call = "reading"
    <3>1. s2c = <<>>
      BY <2>5 DEF ClientGoesOn
    <3>2. ASSUME NEW block \in Seq(Symbol), Waiting(block) PROVE FALSE
      <4>1. /\ swrite = EmptyBuffer
            /\ Len(block) = Len(Heard) + Len(c2s)
            /\ Len(Heard) < Len(block)
        BY <3>2 DEF Waiting, Starts
      <4>2. c2s = <<>>
        BY <2>3, <4>1
      <4>3. Len(Heard) \in Nat
        <5>1. Heard = sread.data \/ Heard = <<>>
          BY DEF Heard
        <5> QED
          BY <2>1, <5>1
      <4> QED
        BY <2>2, <4>1, <4>2, <4>3
    <3>3. ASSUME NEW responses \in Seq(Seq(Word)), Processing(responses) PROVE FALSE
      BY <2>3, <3>3 DEF Processing
    <3>4. ASSUME NEW block \in Seq(Symbol), NEW responses \in Seq(Seq(Word)),
                 Responded(block, responses)
          PROVE  FALSE
      <4>1. /\ Len(cread.data) < Len(block)
            /\ \/ ServerRests /\ Len(cread.data) + Len(s2c) = Len(block)
               \/ direction = "WRITING" /\ swrite.data = block /\ swrite.bol < Len(block)
        BY <3>4 DEF Responded, Starts
      <4>2. swrite.data = block /\ swrite.bol < Len(block) /\ direction = "WRITING"
        <5>1. Len(cread.data) + Len(s2c) # Len(block)
          BY <2>1, <2>2, <3>1, <4>1
        <5> QED
          BY <4>1, <5>1
      <4>3. Unwritten(swrite) # <<>>
        BY <2>1, <4>2, SomeUnwritten
      <4> QED
        BY <2>2, <3>1, <4>2, <4>3 DEF ServerGoesOn
    <3> QED
      BY <2>1, <2>5, <3>2, <3>3, <3>4 DEF CallInv
  <2>6. CASE call = "parsing"
    BY <2>6 DEF ClientGoesOn
  <2> QED
    BY <2>1, <2>4, <2>5, <2>6
<1> QED
  BY <1>1, SessionInvariantHolds, PTL

\* Between calls no request and no response is left anywhere.
THEOREM CallsLeaveNothing ==
  ASSUME Arguments \subseteq Seq(Word), InitialResolver \subseteq Contract
  PROVE  Spec => []NothingLeftBehind
<1>1. SessionInv => NothingLeftBehind
  <2> SUFFICES ASSUME IInv, call = "idle", builder_open
               PROVE  /\ swrite = EmptyBuffer
                      /\ c2s = <<>> /\ s2c = <<>>
                      /\ IsAtEnd(cread)
                      /\ corked = <<>> => cwrite = EmptyBuffer
    BY DEF SessionInv, NothingLeftBehind
  <2>1. Idle
    BY DEF IInv, CallInv
  <2>2. ASSUME corked = <<>> PROVE cwrite = EmptyBuffer
    <3>1. Queue = <<>>
      BY <2>2 DEF Queue
    <3>2. PICK lines \in Seq(Seq(Word)) : Requests(lines, Queue) /\ Told(cwrite, lines)
      BY <2>1 DEF Idle
    <3>3. Len(lines) = 0
      BY <3>1, <3>2 DEF Requests
    <3>4. lines = <<>>
      BY <3>3
    <3> QED
      BY <3>2, <3>4 DEF Told
  <2> QED
    BY <2>1, <2>2 DEF Idle, ServerRests
<1> QED
  BY <1>1, SessionInvariantHolds, PTL

\* The errors that the client finds in responses are none of those that a server
\* tells, nor is the one that it reports when the server has gone.
LEMMA ErrorsDiffer ==
  /\ \A error \in ErrorText : error \notin C!ProtocolError /\ error # C!NoCommunication
  /\ C!NoCommunication \notin C!ProtocolError
BY Zenon DEF ErrorText, C!ProtocolError, C!NoCommunication, C!MissingResponse, C!ExtraResponse,
             C!MalformedString, C!MalformedResponse, C!MalformedError, C!IncompatibleVersion

LEMMA CommunicationErrorPacket ==
  C!CommunicationError.code = "PC_ERROR" /\ C!CommunicationError.value = C!NoCommunication
BY DEF C!CommunicationError, C!PlainPacket, C!Packet

\* The client finds no fault with any response.
THEOREM ResponsesAreWellFormed ==
  ASSUME Arguments \subseteq Seq(Word), InitialResolver \subseteq Contract
  PROVE  Spec => []NoProtocolErrors
<1>1. SessionInv => NoProtocolErrors
  <2> SUFFICES ASSUME TypeInv, ErrorsInv, NEW i \in DOMAIN packets, packets[i].code = "PC_ERROR"
               PROVE  packets[i].value \notin C!ProtocolError
    BY SessionTypes DEF NoProtocolErrors
  <2>1. i \in 1 .. Len(packets)
    BY DEF TypeInv
  <2>2. \/ packets[i].value \in ErrorText
        \/ packets[i] = C!CommunicationError
    BY <2>1 DEF ErrorsInv
  <2> QED
    BY <2>2, ErrorsDiffer, CommunicationErrorPacket, Zenon
<1> QED
  BY <1>1, SessionInvariantHolds, PTL

\* A communication error is reported for a builder that has gone, and only for it.
THEOREM CommunicationErrorMeansGone ==
  ASSUME Arguments \subseteq Seq(Word), InitialResolver \subseteq Contract
  PROVE  Spec => []ErrorMeansGone
<1>1. SessionInv => ErrorMeansGone
  <2> SUFFICES ASSUME TypeInv, ErrorsInv, NEW i \in DOMAIN packets, packets[i] = C!CommunicationError
               PROVE  ~builder_open
    BY SessionTypes DEF ErrorMeansGone
  <2>1. i \in 1 .. Len(packets)
    BY DEF TypeInv
  <2>2. packets[i].code = "PC_ERROR" /\ packets[i].value = C!NoCommunication
    BY CommunicationErrorPacket, Zenon
  <2>3. packets[i].value \in ErrorText \/ ~builder_open
    BY <2>1, <2>2 DEF ErrorsInv
  <2> QED
    BY <2>2, <2>3, ErrorsDiffer, Zenon
<1> QED
  BY <1>1, SessionInvariantHolds, PTL

\* No error that a compiler is given comes of the transport or of the protocol,
\* as long as the builder is there.
THEOREM SessionErrorsAreGenuine ==
  ASSUME Arguments \subseteq Seq(Word), InitialResolver \subseteq Contract
  PROVE  Spec => []ErrorsAreGenuine
BY ResponsesAreWellFormed, CommunicationErrorMeansGone, PTL DEF ErrorsAreGenuine

\* The ends agree on whether they are connected, whenever no call is under way.
THEOREM ConnectionAgreed ==
  ASSUME Arguments \subseteq Seq(Word), InitialResolver \subseteq Contract
  PROVE  Spec => []ConnectionAgreement
<1>1. SessionInv => ConnectionAgreement
  <2> SUFFICES ASSUME SessionInv, call = "idle", builder_open PROVE s_connected <=> c_connected
    BY SessionTypes DEF ConnectionAgreement
  <2>1. CASE compiler_open
    BY <2>1 DEF SessionInv, IInv, CallInv, Idle
  <2>2. CASE ~compiler_open
    BY <2>2 DEF SessionInv, GoneInv
  <2> QED
    BY <2>1, <2>2
<1> QED
  BY <1>1, SessionInvariantHolds, PTL

-----------------------------------------------------------------------------
(* A call comes to an end: each step leaves less to do.                     *)

\* What lies behind the place reached in a buffer is some number of symbols.
LEMMA AheadType ==
  ASSUME NEW b \in Buffer
  PROVE  Ahead(b) \in Nat
<1>1. b.data \in Seq(Symbol) /\ b.bol \in Nat /\ Len(b.data) \in Nat
  BY DEF Buffer
<1>2. \A i \in b.bol + 1 .. Len(b.data) : b.data[i] \in Symbol
  BY <1>1
<1>3. Unwritten(b) \in Seq(Symbol)
  BY <1>1, <1>2, SubSeqProperties DEF Unwritten
<1> QED
  BY <1>3 DEF Ahead

\* All of them, but those before the place reached.
LEMMA AheadOf ==
  ASSUME NEW b \in Buffer, b.bol <= Len(b.data)
  PROVE  Ahead(b) = Len(b.data) - b.bol
  BY UnwrittenLength DEF Ahead

\* In a fresh buffer there are none.
LEMMA NothingAhead == Ahead(EmptyBuffer) = 0
  BY NothingUnwritten DEF Ahead

\* A write moves as much as it counts.
LEMMA WriteTakes ==
  ASSUME NEW b \in Buffer, b.bol < Len(b.data), NEW t \in Seq(Symbol),
         NEW n \in Nat, n > 0, n <= Len(Unwritten(b))
  PROVE  /\ Ahead(WriteSome(b, n).buffer) = Ahead(b) - n
         /\ Len(t \o SubSeq(b.data, b.bol + 1, b.bol + n)) = Len(t) + n
<1>1. b.data \in Seq(Symbol) /\ b.bol \in Nat /\ Len(b.data) \in Nat
      /\ b = [data |-> b.data, bol |-> b.bol]
  BY DEF Buffer
<1>2. Len(Unwritten(b)) = Len(b.data) - b.bol /\ Ahead(b) = Len(b.data) - b.bol
  BY <1>1, UnwrittenLength DEF Ahead
<1>3. Len(t \o SubSeq(b.data, b.bol + 1, b.bol + n)) = Len(t) + n
  BY UnwrittenPiece, ConcatProperties
<1>4. CASE b.bol + n = Len(b.data)
  <2>1. WriteSome(b, n).buffer = EmptyBuffer
    BY <1>4 DEF WriteSome
  <2> QED
    BY <2>1, <1>1, <1>2, <1>3, <1>4, NothingAhead
<1>5. CASE b.bol + n # Len(b.data)
  <2> DEFINE c == [data |-> b.data, bol |-> b.bol + n]
  <2>1. WriteSome(b, n).buffer = c
    BY <1>1, <1>5 DEF WriteSome
  <2>2. c \in Buffer /\ c.bol <= Len(c.data) /\ c.data = b.data /\ c.bol = b.bol + n
    BY <1>1, <1>2 DEF Buffer
  <2>3. Ahead(c) = Len(b.data) - (b.bol + n)
    <3> HIDE DEF c
    <3> QED
      BY <2>2, AheadOf
  <2> QED
    BY <2>1, <2>3, <1>1, <1>2, <1>3
<1> QED
  BY <1>4, <1>5

\* A read moves as much as it takes.
LEMMA ReadGives ==
  ASSUME NEW b \in Buffer, b.bol = 0, NEW t \in Seq(Symbol), NEW n \in 1 .. Len(t),
         NEW d \in Seq(Symbol), NEW r, r.buffer \in Buffer,
         ReceivedMore(b, t, d, r, SubSeq(t, n + 1, Len(t)))
  PROVE  /\ Ahead(r.buffer) = Ahead(b) + n
         /\ Len(SubSeq(t, n + 1, Len(t))) = Len(t) - n
<1> DEFINE rest == SubSeq(t, n + 1, Len(t))
<1>1. /\ Len(b.data) \in Nat /\ Len(t) \in Nat /\ n \in Nat /\ n \in 0 .. Len(t)
      /\ Len(r.buffer.data) \in Nat
  BY DEF Buffer
<1>2. Len(rest) = Len(t) - n
  BY <1>1, ChannelPieces
<1>3. Ahead(b) = Len(b.data)
  BY <1>1, AheadOf
<1> HIDE DEF rest
<1>4. /\ r.buffer.bol = 0
      /\ \/ Len(r.buffer.data) + Len(rest) = Len(b.data) + Len(t)
         \/ r.buffer.data = d /\ rest = <<>> /\ Len(b.data) + Len(t) = Len(d)
  BY DEF ReceivedMore, rest
<1>5. Len(r.buffer.data) + Len(rest) = Len(b.data) + Len(t)
  <2>1. Len(<<>>) = 0 /\ Len(d) \in Nat /\ Len(d) + 0 = Len(d)
    OBVIOUS
  <2>2. ASSUME r.buffer.data = d, rest = <<>>, Len(b.data) + Len(t) = Len(d)
        PROVE  Len(r.buffer.data) + Len(rest) = Len(b.data) + Len(t)
    <3>1. Len(r.buffer.data) + Len(rest) = Len(d) + 0
      BY <2>1, <2>2, Zenon
    <3> QED
      BY <3>1, <2>1, <2>2, Zenon
  <2> QED
    BY <1>4, <2>2
<1>6. Ahead(r.buffer) = Len(r.buffer.data)
  BY <1>1, <1>4, AheadOf
<1>7. \A x, y, z, w, v \in Nat : x + w = y + z /\ w = z - v => x = y + v
  OBVIOUS
<1>8. Len(rest) \in Nat
  BY <1>1, <1>2
<1>9. Len(r.buffer.data) = Len(b.data) + n
  <2>1. PICK x \in Nat : x = Len(r.buffer.data)
    BY <1>1
  <2>2. PICK y \in Nat : y = Len(b.data)
    BY <1>1
  <2>3. PICK z \in Nat : z = Len(t)
    BY <1>1
  <2>4. PICK w \in Nat : w = Len(rest)
    BY <1>8
  <2>5. x + w = y + z /\ w = z - n
    BY <1>2, <1>5, <2>1, <2>2, <2>3, <2>4
  <2>6. x = y + n
    BY <2>5, <1>1, <1>7
  <2> QED
    BY <2>1, <2>2, <2>6
<1>10. Ahead(r.buffer) = Ahead(b) + n
  BY <1>3, <1>6, <1>9
<1> QED
  BY <1>2, <1>10 DEF rest

\* Lex takes a line, never none.
LEMMA LexTakes ==
  ASSUME NEW b \in Buffer, NEW lines \in Seq(Seq(Text)), NEW k \in Nat, k < Len(lines),
         NEW at \in [1 .. Len(lines) + 1 -> 0 .. Len(b.data)],
         Layout(b.data, lines, at), b.bol = at[k + 1]
  PROVE  ~IsAtEnd(b) /\ Lex(b).buffer \in Buffer /\ Ahead(Lex(b).buffer) < Ahead(b)
<1>1. /\ b.data \in Seq(Symbol) /\ Len(b.data) \in Nat
      /\ Len(lines) \in Nat /\ k \in 0 .. Len(lines) /\ k + 1 \in 0 .. Len(lines)
      /\ k + 1 + 1 = k + 2 /\ k # Len(lines)
  BY DEF Buffer
<1>2. /\ ~IsAtEnd(b)
      /\ Lex(b).buffer = [data |-> b.data, bol |-> at[k + 2]]
  BY <1>1, LexInLayout
<1>3. /\ at[k + 1] \in Nat /\ at[k + 2] \in Nat /\ at[k + 2] <= Len(b.data)
      /\ at[k + 1] < at[k + 2]
  <2>1. /\ \A i \in 0 .. Len(lines) : at[i + 1] \in Nat /\ at[i + 1] <= Len(b.data)
        /\ \A i, j \in 0 .. Len(lines) : i < j => at[i + 1] < at[j + 1]
    BY <1>1, LayoutOrder
  <2>2. k < k + 1
    BY <1>1
  <2>3. /\ at[k + 1] \in Nat /\ at[k + 1 + 1] \in Nat /\ at[k + 1 + 1] <= Len(b.data)
        /\ at[k + 1] < at[k + 1 + 1]
    BY <2>1, <2>2, <1>1
  <2> QED
    BY <2>3, <1>1
<1> DEFINE c == [data |-> b.data, bol |-> at[k + 2]]
<1>4. c \in Buffer /\ c.data = b.data /\ c.bol = at[k + 2]
  BY <1>1, <1>3 DEF Buffer
<1> HIDE DEF c
<1>5. Ahead(c) = Len(b.data) - at[k + 2]
  BY <1>3, <1>4, AheadOf
<1>6. Ahead(b) = Len(b.data) - at[k + 1]
  BY <1>1, <1>3, AheadOf
<1> QED
  BY <1>1, <1>2, <1>3, <1>4, <1>5, <1>6 DEF c

\* The client writes.
LEMMA WriteAdvances ==
  ASSUME IInv, ~is_direct, NEW n \in 1 .. PipeCapacity, C!WriteStep(n, PipeCapacity),
         UNCHANGED <<is_direct, server_vars, compiler_open>>
  PROVE  RequestsAhead' < RequestsAhead
<1>1. TypeInv /\ Writing /\ call = "writing"
  BY DEF IInv, CallInv, C!WriteStep
<1>2. PICK b \in Buffer : b = cwrite
  BY <1>1 DEF TypeInv
<1>3. PICK t \in Seq(Symbol) : t = c2s
  BY <1>1 DEF TypeInv
<1>4. b.bol < Len(b.data)
  BY <1>1, <1>2 DEF Writing
<1> DEFINE w == WriteSome(b, n)
           more == t \o SubSeq(b.data, b.bol + 1, b.bol + n)
<1>5. /\ n <= Len(Unwritten(b)) /\ n \in Nat /\ n > 0
      /\ c2s' = more /\ cwrite' = w.buffer
      /\ call' \in {"writing", "reading"}
  BY <1>1, <1>2, <1>3, ClientBuffers DEF C!WriteStep
<1>6. sread' = sread /\ direction' = direction
  BY DEF server_vars
<1>7. Ahead(w.buffer) = Ahead(b) - n /\ Len(more) = Len(t) + n
  BY <1>4, <1>5, WriteTakes
<1> HIDE DEF w, more
<1>8. Ahead(b) \in Nat /\ Ahead(sread) \in Nat /\ Len(t) \in Nat
  BY <1>1, AheadType DEF TypeInv
<1>9. PICK x \in Nat, y \in Nat, z \in Nat : x = Ahead(b) /\ y = Ahead(sread) /\ z = Len(t)
  BY <1>8
<1> DEFINE e == IF direction = "PROCESSING" THEN 1 ELSE 0
<1>10. e \in {0, 1} /\ e' = e
  BY <1>6
<1>11. RequestsAhead = 4 * x + 3 * z + y + e + 1
  BY <1>1, <1>2, <1>3, <1>9 DEF RequestsAhead
<1>12. RequestsAhead' = 4 * (x - n) + 3 * (z + n) + y + e + 1
  <2>1. Ahead(cwrite') = x - n /\ Len(c2s') = z + n /\ Ahead(sread') = y
    BY <1>5, <1>6, <1>7, <1>9
  <2>2. RequestsAhead' = 4 * Ahead(cwrite') + 3 * Len(c2s') + Ahead(sread') + e' + 1
    BY <1>5 DEF RequestsAhead, Ahead
  <2> HIDE DEF e
  <2> QED
    BY <1>10, <2>1, <2>2
<1> HIDE DEF e
<1> QED
  <2>1. n \in Nat /\ n > 0
    BY <1>5
  <2>2. 4 * (x - n) + 3 * (z + n) + y + e + 1 < 4 * x + 3 * z + y + e + 1
    BY <1>10, <2>1
  <2> QED
    BY <1>11, <1>12, <2>2

\* The client reads: with the last of the responses it has nothing more to read.
LEMMA ReadAdvances ==
  ASSUME IInv, ~is_direct, NEW n \in 1 .. PipeCapacity, C!ReadStep(n),
         UNCHANGED <<is_direct, server_vars, compiler_open>>
  PROVE  Advances
<1>1. TypeInv /\ call = "reading" /\ s2c \in Seq(Symbol)
  BY DEF IInv, TypeInv, C!ReadStep
<1>2. n \in 1 .. Len(s2c) /\ s2c # <<>>
  <2>1. n <= Len(s2c) /\ Len(s2c) \in Nat
    BY <1>1 DEF C!ReadStep
  <2> QED
    BY <2>1
<1>3. PICK d \in Seq(Symbol), responses \in Seq(Seq(Word)) : Responded(d, responses)
  BY <1>1, <1>2 DEF IInv, CallInv, Waiting, Processing, Asking
<1>4. PICK b \in Buffer : b = cread
  BY <1>1 DEF TypeInv
<1>5. PICK t \in Seq(Symbol) : t = s2c
  BY <1>1
<1>6. /\ Framed(d) /\ Starts(d, b.data, t) /\ Len(b.data) + Len(t) <= Len(d)
      /\ b.bol = 0 /\ n \in 1 .. Len(t)
  BY <1>2, <1>3, <1>4, <1>5 DEF Responded
<1> DEFINE r == ReadSome(b, SubSeq(t, 1, n))
           rest == SubSeq(t, n + 1, Len(t))
<1>7. ReceivedMore(b, t, d, r, rest)
  <2>1. Framed(d) /\ Starts(d, b.data, t) /\ Len(b.data) + Len(t) <= Len(d) /\ n \in 1 .. Len(t)
    BY <1>6
  <2> QED
    BY <2>1, ReceivePiece, Zenon
<1>8. /\ s2c' = rest /\ cread' = r.buffer
      /\ \/ r.err = "EINVAL"
         \/ call' = IF r.err = "0" THEN "parsing" ELSE call
      /\ UNCHANGED <<c2s, cwrite>>
  BY <1>4, <1>5, ClientBuffers DEF C!ReadStep
<1> HIDE DEF r
<1>9. r.buffer \in Buffer /\ r.err # "EINVAL"
  BY <1>7 DEF ReceivedMore
<1>10. Ahead(r.buffer) = Ahead(b) + n /\ Len(rest) = Len(t) - n
  BY <1>6, <1>7, <1>9, ReadGives
<1> HIDE DEF rest
<1>11. sread' = sread /\ swrite' = swrite /\ direction' = direction
  BY DEF server_vars
<1>12. /\ Ahead(b) \in Nat /\ Ahead(cwrite) \in Nat /\ Ahead(sread) \in Nat /\ Ahead(swrite) \in Nat
       /\ Len(c2s) \in Nat /\ Len(t) \in Nat /\ n \in Nat /\ n > 0
  BY <1>1, <1>2, AheadType DEF TypeInv
<1>13. ResponsesAhead' < ResponsesAhead
  <2>1. PICK x \in Nat, y \in Nat, z \in Nat : x = Ahead(b) /\ y = Ahead(swrite) /\ z = Len(t)
    BY <1>12
  <2> DEFINE e == IF direction = "WRITING" THEN 1 ELSE 0
  <2>2. e \in {0, 1} /\ e' = e
    BY <1>11
  <2>3. ResponsesAhead = 3 * y + 2 * z + x + e
    BY <1>4, <1>5, <2>1 DEF ResponsesAhead
  <2>4. Ahead(cread') = x + n /\ Len(s2c') = z - n /\ Ahead(swrite') = y
    BY <1>8, <1>10, <1>11, <2>1
  <2>5. ResponsesAhead' = 3 * Ahead(swrite') + 2 * Len(s2c') + Ahead(cread') + e'
    BY DEF ResponsesAhead, Ahead
  <2> HIDE DEF e
  <2> QED
    <3>1. n \in Nat /\ n > 0
      BY <1>12
    <3>2. 3 * y + 2 * (z - n) + (x + n) + e < 3 * y + 2 * z + x + e
      BY <2>2, <3>1
    <3>3. ResponsesAhead' = 3 * y + 2 * (z - n) + (x + n) + e
      BY <2>2, <2>4, <2>5
    <3> QED
      BY <2>3, <3>2, <3>3
<1>14. CASE call' = "reading"
  BY <1>1, <1>8, <1>11, <1>13, <1>14 DEF RequestsAhead, Advances
<1>15. CASE call' = "parsing"
  <2>1. RequestsAhead' < RequestsAhead
    <3>1. PICK x \in Nat, y \in Nat, z \in Nat :
             x = Ahead(cwrite) /\ y = Len(c2s) /\ z = Ahead(sread)
      BY <1>12
    <3> DEFINE e == IF direction = "PROCESSING" THEN 1 ELSE 0
    <3>2. e \in {0, 1} /\ e' = e
      BY <1>11
    <3>3. RequestsAhead = 4 * x + 3 * y + z + e + 1
      BY <1>1, <3>1 DEF RequestsAhead
    <3>4. Ahead(cwrite') = x /\ Len(c2s') = y /\ Ahead(sread') = z
      BY <1>8, <1>11, <3>1
    <3>5. RequestsAhead' = 4 * Ahead(cwrite') + 3 * Len(c2s') + Ahead(sread') + e' + 0
      BY <1>15 DEF RequestsAhead, Ahead
    <3> HIDE DEF e
    <3>6. 4 * x + 3 * y + z + e + 0 < 4 * x + 3 * y + z + e + 1
      BY <3>2
    <3>7. RequestsAhead' = 4 * x + 3 * y + z + e + 0
      BY <3>2, <3>4, <3>5
    <3> QED
      BY <3>3, <3>6, <3>7
  <2> QED
    BY <2>1 DEF Advances
<1> QED
  BY <1>1, <1>8, <1>9, <1>14, <1>15

\* The client parses a response, and there is another one.
LEMMA ParseAdvances ==
  ASSUME IInv, C!ParseResponse, call' # "idle", UNCHANGED <<is_direct, server_vars, compiler_open>>
  PROVE  Advances
<1>1. TypeInv /\ call = "parsing" /\ call' = "parsing" /\ UNCHANGED <<c2s, s2c, cwrite>>
  BY DEF IInv, C!ParseResponse
<1>2. PICK responses \in Seq(Seq(Word)), before \in BOOLEAN : Parsing(responses, before)
  BY <1>1 DEF IInv, CallInv
<1>3. PICK k \in Nat : k = Len(packets)
  BY <1>1 DEF TypeInv
<1>4. PICK b \in Buffer : b = cread
  BY <1>1 DEF TypeInv
<1>5. k < Len(responses)
  BY <1>2, <1>3 DEF Parsing, AllAnswered
<1>6. PICK at \in [1 .. Len(responses) + 1 -> 0 .. Len(b.data)] :
        Layout(b.data, responses, at) /\ b.bol = at[k + 1]
  BY <1>2, <1>3, <1>4, Zenon DEF Parsing
<1>7. responses \in Seq(Seq(Text))
  BY <1>2 DEF Text
<1>8. ~IsAtEnd(b) /\ Lex(b).buffer \in Buffer /\ Ahead(Lex(b).buffer) < Ahead(b)
  BY <1>5, <1>6, <1>7, LexTakes
<1>9. cread' = Lex(b).buffer
  BY <1>4, <1>8, ClientBuffers, Zenon DEF C!ParseResponse
<1>10. sread' = sread /\ swrite' = swrite /\ direction' = direction
  BY DEF server_vars
<1>11. /\ Ahead(b) \in Nat /\ Ahead(swrite) \in Nat /\ Len(s2c) \in Nat
       /\ Ahead(cread') \in Nat
  BY <1>1, <1>4, <1>8, <1>9, AheadType DEF TypeInv
<1>12. ResponsesAhead' < ResponsesAhead
  BY <1>1, <1>4, <1>8, <1>9, <1>10, <1>11 DEF ResponsesAhead
<1> QED
  BY <1>1, <1>10, <1>12 DEF RequestsAhead, Advances

\* The server reads.
LEMMA HearAdvances ==
  ASSUME IInv, ~is_direct, call # "idle", NEW n \in 1 .. PipeCapacity, S!ReadStep(n),
         UNCHANGED <<is_direct, client_vars, compiler_open>>
  PROVE  RequestsAhead' < RequestsAhead
<1>1. TypeInv /\ CallInv /\ direction = "READING" /\ builder_open
  BY DEF IInv, S!ReadStep
<1>2. PICK t \in Seq(Symbol) : t = c2s
  BY <1>1 DEF TypeInv
<1>3. PICK b \in Buffer : b = sread
  BY <1>1 DEF TypeInv
<1>4. n \in 1 .. Len(t) /\ t # <<>> /\ Heard = b.data
  <2>1. n <= Len(t) /\ Len(t) \in Nat
    BY <1>2 DEF S!ReadStep
  <2>2. Heard = b.data
    BY <1>1, <1>3 DEF Heard
  <2> QED
    BY <2>1, <2>2
<1> DEFINE r == ReadSome(b, SubSeq(t, 1, n))
           rest == SubSeq(t, n + 1, Len(t))
<1>5. /\ c2s' = rest /\ sread' = r.buffer
      /\ direction' \in {"READING", "PROCESSING"}
  BY <1>2, <1>3, ServerBuffers DEF S!ReadStep
<1>6. cwrite' = cwrite /\ call' = call
  BY DEF client_vars
<1> HIDE DEF r
<1>7. PICK d \in Seq(Symbol) :
        Asks(d) /\ Starts(d, Heard, c2s) /\ Len(Heard) + Len(c2s) <= Len(d) /\ Hearing
  <2>1. call # "parsing"
    BY <1>1, <1>2, <1>4, Zenon DEF CallInv, Parsing
  <2>2. call \in {"writing", "reading"}
    BY <2>1, <1>1 DEF TypeInv, C!Call
  <2>3. /\ \A responses : ~Processing(responses)
        /\ \A block, responses : ~Responded(block, responses)
    BY <1>1, <1>2, <1>4, Zenon DEF Processing, Responded
  <2>4. Len(b.data) \in Nat /\ Len(t) \in Nat
    BY DEF Buffer
  <2>5. CASE call = "writing"
    <3>1. Writing /\ cwrite.data \in Seq(Symbol) /\ Len(cwrite.data) \in Nat
      BY <1>1, <2>5 DEF CallInv, TypeInv, Buffer
    <3>2. /\ Asks(cwrite.data) /\ Starts(cwrite.data, Heard, c2s) /\ Hearing
          /\ cwrite.bol < Len(cwrite.data) /\ cwrite.bol = Len(Heard) + Len(c2s)
      BY <1>1, <3>1 DEF Writing
    <3>3. Len(Heard) + Len(c2s) <= Len(cwrite.data)
      BY <1>2, <1>4, <2>4, <3>1, <3>2
    <3> QED
      BY <3>1, <3>2, <3>3
  <2>6. CASE call = "reading"
    <3>1. PICK d \in Seq(Symbol) : Waiting(d)
      BY <1>1, <2>3, <2>6 DEF CallInv
    <3>2. /\ Asks(d) /\ Starts(d, Heard, c2s) /\ Hearing
          /\ Len(d) = Len(Heard) + Len(c2s)
      BY <3>1 DEF Waiting
    <3>3. Len(Heard) + Len(c2s) <= Len(d)
      BY <1>2, <1>4, <2>4, <3>2
    <3> QED
      BY <3>2, <3>3
  <2> QED
    BY <2>2, <2>5, <2>6
<1>8. ReceivedMore(b, t, d, r, rest)
  <2>1. Framed(d) /\ Starts(d, b.data, t) /\ Len(b.data) + Len(t) <= Len(d) /\ n \in 1 .. Len(t)
    BY <1>2, <1>4, <1>7 DEF Asks
  <2> QED
    BY <2>1, ReceivePiece, Zenon DEF r
<1>9. r.buffer \in Buffer /\ b.bol = 0
  BY <1>1, <1>3, <1>7, <1>8 DEF ReceivedMore, Hearing
<1>10. Ahead(r.buffer) = Ahead(b) + n /\ Len(rest) = Len(t) - n
  BY <1>4, <1>8, <1>9, ReadGives
<1> HIDE DEF rest
<1>11. /\ Ahead(b) \in Nat /\ Ahead(cwrite) \in Nat
       /\ Len(t) \in Nat /\ n \in Nat /\ n > 0
  BY <1>1, <1>4, AheadType DEF TypeInv
<1> QED
  BY <1>1, <1>2, <1>3, <1>5, <1>6, <1>10, <1>11 DEF RequestsAhead

\* The server deals with a line, in the builder's loop or in a direct call.
LEMMA ProcessLineAdvances ==
  ASSUME IInv, S!ProcessLine, call = "reading" \/ ~is_direct, UNCHANGED <<is_direct, client_vars>>
  PROVE  RequestsAhead' < RequestsAhead
<1>1. TypeInv
  BY DEF IInv
<1>2. /\ direction = "PROCESSING" /\ builder_open
      /\ sread' = S!Lex(sread).buffer /\ direction' = direction /\ c2s' = c2s
  BY Zenon DEF S!ProcessLine, S!ProcessUnrecognized, S!ProcessConnect, S!RejectConnect,
               S!ProcessRequest, S!RejectRequest, S!Selects, S!Respond
<1>3. ~IsAtEnd(sread)
  <2>1. ~S!IsAtEnd(sread)
    BY Zenon DEF S!ProcessLine, S!ProcessUnrecognized, S!ProcessConnect, S!RejectConnect,
                 S!ProcessRequest, S!RejectRequest, S!Selects
  <2> QED
    BY <2>1, ServerBuffers, Zenon
<1>4. PICK responses \in Seq(Seq(Word)) : Processing(responses)
  BY <1>2, TurnToProcess
<1>5. PICK k \in Nat : k = Len(responses)
  BY <1>4
<1>6. PICK b \in Buffer : b = sread
  BY <1>1 DEF TypeInv
<1>7. PICK lines \in Seq(Seq(Word)) :
         /\ Len(lines) = Len(asked)
         /\ \E at \in [1 .. Len(lines) + 1 -> 0 .. Len(b.data)] :
              Layout(b.data, lines, at) /\ b.bol = at[k + 1]
  BY <1>4, <1>5, <1>6, Zenon DEF Processing, Requests
<1>8. PICK at \in [1 .. Len(lines) + 1 -> 0 .. Len(b.data)] :
         Layout(b.data, lines, at) /\ b.bol = at[k + 1]
  BY <1>7
<1>9. k < Len(lines) /\ lines \in Seq(Seq(Text))
  <2>1. k \in 0 .. Len(lines) /\ Len(lines) \in Nat
    BY <1>4, <1>5, <1>7 DEF Processing, Answered
  <2>2. lines \in Seq(Seq(Text))
    BY <1>7 DEF Text
  <2>3. k # Len(lines)
    BY <2>1, <2>2, <1>3, <1>6, <1>8, LexInLayout
  <2> QED
    BY <2>1, <2>2, <2>3
<1>10. Lex(b).buffer \in Buffer /\ Ahead(Lex(b).buffer) < Ahead(b)
  BY <1>8, <1>9, LexTakes
<1>11. sread' = Lex(b).buffer
  BY <1>2, <1>6, ServerBuffers
<1>12. cwrite' = cwrite /\ call' = call
  BY DEF client_vars
<1>13. /\ Ahead(b) \in Nat /\ Ahead(sread') \in Nat /\ Ahead(cwrite) \in Nat /\ Len(c2s) \in Nat
  BY <1>1, <1>10, <1>11, AheadType DEF TypeInv
<1> QED
  BY <1>2, <1>6, <1>10, <1>11, <1>12, <1>13 DEF RequestsAhead

\* The server turns around, with a block of responses in hand.
LEMMA PrepareResponsesAdvances ==
  ASSUME IInv, S!PrepareResponses, UNCHANGED client_vars
  PROVE  RequestsAhead' < RequestsAhead
<1>1. TypeInv
  BY DEF IInv
<1>2. /\ direction = "PROCESSING" /\ direction' = "WRITING"
      /\ UNCHANGED <<c2s, sread, cwrite, call>>
  BY DEF S!PrepareResponses, client_vars
<1>3. Ahead(cwrite) \in Nat /\ Ahead(sread) \in Nat /\ Len(c2s) \in Nat
  BY <1>1, AheadType DEF TypeInv
<1> QED
  BY <1>2, <1>3 DEF RequestsAhead

\* The server writes.
LEMMA TellAdvances ==
  ASSUME IInv, ~is_direct, call # "idle", NEW n \in 1 .. PipeCapacity,
         S!WriteStep(n, PipeCapacity), UNCHANGED <<is_direct, client_vars, compiler_open>>
  PROVE  Advances
<1>1. TypeInv /\ CallInv /\ direction = "WRITING" /\ builder_open
  BY DEF IInv, S!WriteStep
<1>2. PICK b \in Buffer : b = swrite
  BY <1>1 DEF TypeInv
<1>3. PICK t \in Seq(Symbol) : t = s2c
  BY <1>1 DEF TypeInv
<1> DEFINE w == WriteSome(b, n)
           more == t \o SubSeq(b.data, b.bol + 1, b.bol + n)
<1>4. /\ n <= Len(Unwritten(b)) /\ n \in Nat /\ n > 0
      /\ s2c' = more /\ swrite' = w.buffer
      /\ UNCHANGED <<c2s, sread, direction>>
  BY <1>2, <1>3, ServerBuffers DEF S!WriteStep
<1>5. UNCHANGED <<cwrite, cread, call>>
  BY DEF client_vars
<1>6. b # EmptyBuffer
  BY <1>4, NothingUnwritten
<1>7. b.bol < Len(b.data)
  <2>1. call \in {"writing", "reading", "parsing"}
    BY <1>1 DEF TypeInv, C!Call
  <2>2. call # "writing"
    BY <1>1, <1>2, <1>6 DEF CallInv, Writing
  <2>3. call # "parsing"
    BY <1>1, <1>2, <1>6 DEF CallInv, Parsing, ServerRests
  <2>4. \A block : ~Waiting(block)
    BY <1>2, <1>6 DEF Waiting
  <2>5. \A responses : ~Processing(responses)
    BY <1>1 DEF Processing
  <2>6. PICK block \in Seq(Symbol), responses \in Seq(Seq(Word)) : Responded(block, responses)
    BY <1>1, <2>1, <2>2, <2>3, <2>4, <2>5 DEF CallInv
  <2> QED
    BY <1>1, <1>2, <1>6, <2>6 DEF Responded, ServerRests
<1>8. Ahead(w.buffer) = Ahead(b) - n /\ Len(more) = Len(t) + n
  BY <1>4, <1>7, WriteTakes
<1> HIDE DEF w, more
<1>9. Ahead(b) \in Nat /\ Ahead(cread) \in Nat /\ Len(t) \in Nat
  BY <1>1, AheadType DEF TypeInv
<1>10. ResponsesAhead' < ResponsesAhead
  BY <1>1, <1>2, <1>3, <1>4, <1>5, <1>8, <1>9 DEF ResponsesAhead
<1> QED
  BY <1>4, <1>5, <1>10 DEF RequestsAhead, Advances

\* The server turns around, and forgets what it has lexed.
LEMMA PrepareForRequestsAdvances ==
  ASSUME IInv, S!PrepareForRequests, UNCHANGED client_vars
  PROVE  Advances
<1>1. TypeInv
  BY DEF IInv
<1>2. /\ direction = "WRITING" /\ direction' = "READING" /\ sread' = EmptyBuffer
      /\ UNCHANGED <<c2s, s2c, swrite, cwrite, cread, call>>
  BY ServerBuffers DEF S!PrepareForRequests, client_vars
<1>3. /\ Ahead(cwrite) \in Nat /\ Ahead(sread) \in Nat /\ Len(c2s) \in Nat
      /\ Ahead(swrite) \in Nat /\ Ahead(cread) \in Nat /\ Len(s2c) \in Nat
  BY <1>1, AheadType DEF TypeInv
<1>4. Ahead(sread') = 0
  BY <1>2, NothingAhead
<1>5. RequestsAhead' <= RequestsAhead
  BY <1>2, <1>3, <1>4 DEF RequestsAhead
<1>6. ResponsesAhead' < ResponsesAhead
  BY <1>2, <1>3 DEF ResponsesAhead
<1>7. RequestsAhead \in Nat /\ RequestsAhead' \in Nat
  BY <1>2, <1>3, <1>4 DEF RequestsAhead
<1> QED
  BY <1>5, <1>6, <1>7 DEF Advances

\* The steps of the builder.
LEMMA ServesAdvances ==
  ASSUME IInv, Serves, call # "idle", compiler_open, builder_open'
  PROVE  Advances
<1>1. ~is_direct /\ UNCHANGED <<is_direct, client_vars, compiler_open>> /\ UNCHANGED client_vars
  BY DEF Serves
<1>2. ASSUME NEW n \in 1 .. PipeCapacity, S!ReadStep(n) PROVE Advances
  BY <1>1, <1>2, HearAdvances DEF Advances
<1>3. ~S!ReadFails /\ ~S!Abort
  BY DEF S!ReadFails, S!Abort
<1>4. CASE S!ProcessLine
  BY <1>1, <1>4, ProcessLineAdvances DEF Advances
<1>5. CASE S!PrepareResponses
  BY <1>1, <1>5, PrepareResponsesAdvances DEF Advances
<1>6. ASSUME NEW n \in 1 .. PipeCapacity, S!WriteStep(n, PipeCapacity) PROVE Advances
  BY <1>1, <1>6, TellAdvances
<1>7. ~S!WriteError
  BY <1>1 DEF S!WriteError
<1>8. CASE S!PrepareForRequests
  BY <1>1, <1>8, PrepareForRequestsAdvances
<1> QED
  BY <1>2, <1>3, <1>4, <1>5, <1>6, <1>7, <1>8 DEF Serves

\* The steps of a direct call.
LEMMA DirectsAdvances ==
  ASSUME IInv, Directs
  PROVE  Advances
<1>1. TypeInv /\ CallInv
  BY DEF IInv
<1>2. /\ Ahead(cwrite) \in Nat /\ Ahead(sread) \in Nat /\ Len(c2s) \in Nat
  BY <1>1, AheadType DEF TypeInv
<1>3. CASE DirectRequests
  <2>1. /\ is_direct /\ call = "writing" /\ call' = "reading" /\ direction' = "PROCESSING"
        /\ sread' = cwrite /\ cwrite' = EmptyBuffer /\ c2s' = c2s
    BY <1>3 DEF DirectRequests
  <2>2. PICK b \in Buffer : b = cwrite
    BY <1>1 DEF TypeInv
  <2>3. b.bol \in Nat /\ Len(b.data) \in Nat /\ b.bol < Len(b.data)
    BY <1>1, <2>1, <2>2 DEF CallInv, Writing, Buffer
  <2>4. Ahead(b) = Len(b.data) - b.bol
    BY <2>3, AheadOf
  <2>5. Ahead(b) > 0
    BY <2>3, <2>4
  <2>6. Ahead(cwrite') = 0
    BY <2>1, NothingAhead
  <2>7. RequestsAhead' < RequestsAhead
    BY <1>2, <2>1, <2>2, <2>5, <2>6 DEF RequestsAhead
  <2> QED
    BY <2>7 DEF Advances
<1>4. CASE DirectLine
  <2>1. S!ProcessLine /\ call = "reading" /\ UNCHANGED <<is_direct, client_vars>>
    BY <1>4 DEF DirectLine
  <2> QED
    BY <2>1, ProcessLineAdvances DEF Advances
<1>5. CASE DirectResponses
  <2>1. /\ call = "reading" /\ call' = "parsing"
        /\ UNCHANGED <<cwrite, c2s, sread, direction>>
    BY <1>5 DEF DirectResponses
  <2>2. RequestsAhead' < RequestsAhead
    BY <1>2, <2>1 DEF RequestsAhead
  <2> QED
    BY <2>2 DEF Advances
<1> QED
  BY <1>3, <1>4, <1>5 DEF Directs

\* The steps of a client over channels: the others fail.
LEMMA CommunicatesAdvances ==
  ASSUME IInv, Communicates, call' # "idle"
  PROVE  Advances
<1>1. ~is_direct /\ UNCHANGED <<is_direct, server_vars, compiler_open>>
  BY DEF Communicates
<1>2. ASSUME NEW n \in 1 .. PipeCapacity, C!WriteStep(n, PipeCapacity) PROVE Advances
  BY <1>1, <1>2, WriteAdvances DEF Advances
<1>3. ASSUME NEW n \in 1 .. PipeCapacity, C!ReadStep(n) PROVE Advances
  BY <1>1, <1>3, ReadAdvances
<1>4. ~C!WriteError /\ ~C!ReadEOF
  BY DEF C!WriteError, C!ReadEOF, C!Fail
<1> QED
  BY <1>2, <1>3, <1>4 DEF Communicates

\* A call begins between calls.
LEMMA CallsBegin == C!CompilerCall => call = "idle"
  BY Zenon DEF C!CompilerCall, C!Connect, C!ModuleRepo, C!ModuleRequest, C!InvokeSubProcess,
               C!Request, C!Cork, C!Uncork, C!UncorkNothing

\* Every step of a call over which both processes stay gets it nearer to its end.
THEOREM CallsAdvance ==
  ASSUME Arguments \subseteq Seq(Word), InitialResolver \subseteq Contract
  PROVE  Spec => CallAdvances
<1>1. ASSUME SessionInv, Next, call # "idle", call' # "idle", compiler_open', builder_open'
      PROVE  Advances
  <2>0. compiler_open /\ IInv
    BY <1>1, CompilerStays DEF CompilerGoes, SessionInv
  <2>1. ~Calls
    BY <1>1, CallsBegin DEF Calls
  <2>2. CASE Communicates
    BY <1>1, <2>0, <2>2, CommunicatesAdvances
  <2>3. CASE Directs
    BY <2>0, <2>3, DirectsAdvances
  <2>4. CASE ParsesResponse
    BY <1>1, <2>0, <2>4, ParseAdvances DEF ParsesResponse
  <2>5. CASE Serves
    BY <1>1, <2>0, <2>5, ServesAdvances
  <2>6. ~CompilerGoes /\ ~BuilderGoes
    BY <1>1 DEF CompilerGoes, BuilderGoes
  <2> QED
    BY <1>1, <2>1, <2>2, <2>3, <2>4, <2>5, <2>6 DEF Next
<1>2. SessionInv /\ [Next]_vars =>
        [call # "idle" /\ call' # "idle" /\ compiler_open' /\ builder_open' => Advances]_vars
  BY <1>1
<1> QED
  BY <1>2, SessionInvariantHolds, PTL DEF Spec, CallAdvances

-----------------------------------------------------------------------------
(* The session implements the abstract protocol.                           *)

\* What stands for the variables of the abstract protocol.
Batch == IF call = "idle" THEN <<>> ELSE asked
Replies == IF Returned THEN [i \in DOMAIN packets |-> packets[i].code] ELSE <<>>
Connected ==
  /\ c_connected
  /\ call = "parsing" => \A i \in DOMAIN packets : packets[i].code # "PC_CONNECT"

LEMMA AbstractSteps ==
  /\ Batch = <<>> /\ Replies = <<>> /\ ~Connected /\ builder_open = TRUE => Abstract!Init
  /\ UNCHANGED <<Batch, Replies, Connected, builder_open>> => UNCHANGED Abstract!vars
  /\ /\ Batch = <<>> /\ Batch' \in Seq(RequestCode) \ {<<>>} /\ Replies' = <<>>
     /\ UNCHANGED <<Connected, builder_open>>
     => Abstract!Next
  /\ /\ Batch # <<>> /\ ~builder_open /\ Replies' = <<"PC_ERROR">> /\ Batch' = <<>>
     /\ UNCHANGED <<Connected, builder_open>>
     => Abstract!Next
  /\ Batch = <<>> /\ Replies' = <<>> /\ UNCHANGED <<Batch, Connected, builder_open>> => Abstract!Next
  /\ builder_open' = FALSE /\ UNCHANGED <<Batch, Replies, Connected>> => Abstract!Next
<1>1. Batch = <<>> /\ Replies = <<>> /\ ~Connected /\ builder_open = TRUE => Abstract!Init
  BY DEF Abstract!Init, Batch, Replies, Connected
<1>2. UNCHANGED <<Batch, Replies, Connected, builder_open>> => UNCHANGED Abstract!vars
  BY DEF Abstract!vars, Batch, Replies, Connected
<1>3. /\ Batch = <<>> /\ Batch' \in Seq(RequestCode) \ {<<>>} /\ Replies' = <<>>
      /\ UNCHANGED <<Connected, builder_open>>
      => Abstract!Next
  BY DEF Abstract!Next, Abstract!Ask, Batch, Replies, Connected
<1>4. /\ Batch # <<>> /\ ~builder_open /\ Replies' = <<"PC_ERROR">> /\ Batch' = <<>>
      /\ UNCHANGED <<Connected, builder_open>>
      => Abstract!Next
  BY DEF Abstract!Next, Abstract!Break, Batch, Replies, Connected
<1>5. Batch = <<>> /\ Replies' = <<>> /\ UNCHANGED <<Batch, Connected, builder_open>> => Abstract!Next
  BY DEF Abstract!Next, Abstract!Forget, Batch, Replies, Connected
<1>6. builder_open' = FALSE /\ UNCHANGED <<Batch, Replies, Connected>> => Abstract!Next
  BY DEF Abstract!Next, Abstract!BuilderGoes, Batch, Replies, Connected
<1> QED
  BY <1>1, <1>2, <1>3, <1>4, <1>5, <1>6, Zenon

\* What a packet says of its request, when it tells of an answer.
Fitting(packet, code, line, before) ==
  /\ \/ packet.code = "PC_ERROR"
     \/ packet.code \in PacketFor(code) /\ before # (code = RC_CONNECT)
  /\ (code = RC_CONNECT /\ packet.code # "PC_ERROR") <=> Hello(line)
  /\ packet.code # "PC_CORKED"
  /\ Hello(line) => before # TRUE

LEMMA TellsAnswer ==
  ASSUME NEW code \in RequestCode, NEW line, NEW before, NEW packet,
         Answer(code, line, before), Tells(packet, code, line)
  PROVE  Fitting(packet, code, line, before)
<1>1. CASE \E error \in ErrorText : line = ErrorResponse(error)
  <2>1. line[1] = "ERROR"
    BY <1>1, ResponseLines, Zenon
  <2>2. packet.code = "PC_ERROR" /\ ~Hello(line)
    BY <2>1 DEF Tells, Hello
  <2> QED
    BY <2>2 DEF Fitting
<1>2. CASE before # (code = RC_CONNECT) /\ line \in Successes(code)
  <2>1. line[1] # "ERROR"
    BY <1>2, SuccessTells, Zenon
  <2>2. packet.code \in PacketFor(code)
    BY <2>1 DEF Tells
  <2>3. packet.code # "PC_ERROR"
    BY <2>2, NoErrorSucceeds
  <2>4. Hello(line) <=> code = RC_CONNECT
    <3>1. Says(code, line)
      BY <1>2 DEF Says
    <3> QED
      BY <3>1, <1>2, SaysWords
  <2>5. packet.code # "PC_CORKED"
    <3>1. code \in {RC_MODULE_REPO, RC_MODULE_EXPORT, RC_MODULE_IMPORT, RC_MODULE_COMPILED,
                    RC_INCLUDE_TRANSLATE, RC_INVOKE, RC_CONNECT}
      BY Codes
    <3>2. \/ PacketFor(code) = {"PC_CONNECT"} \/ PacketFor(code) = {"PC_PATHNAME"}
          \/ PacketFor(code) = {"PC_OK"} \/ PacketFor(code) = {"PC_BOOL", "PC_PATHNAME"}
      BY <3>1, SuccessPackets
    <3> QED
      BY <3>2, <2>2
  <2> QED
    BY <2>2, <2>3, <2>4, <2>5, <1>2 DEF Fitting
<1> QED
  BY <1>1, <1>2 DEF Answer

\* Between two steps of the abstract protocol the client goes through its call.
LEMMA CallStutters ==
  ASSUME call \in {"writing", "reading"}, call' # "idle", call' = "parsing" => packets' = <<>>,
         UNCHANGED <<asked, c_connected, builder_open>>
  PROVE  UNCHANGED Abstract!vars
<1>1. Batch' = Batch /\ Replies' = Replies
  BY DEF Batch, Replies, Returned
<1>2. CASE call' # "parsing"
  BY <1>1, <1>2, AbstractSteps DEF Connected
<1>3. CASE call' = "parsing"
  <2>1. Connected' <=> Connected
    BY <1>3 DEF Connected
  <2> QED
    BY <2>1, <1>1, AbstractSteps DEF Connected
<1> QED
  BY <1>2, <1>3

\* The client has asked, or has looked at its packets.
LEMMA CallsImplement ==
  ASSUME IInv, IInv', Calls
  PROVE  [Abstract!Next]_(Abstract!vars)
<1>1. \A code, words : C!Request(code, words) => call = "idle" /\ UNCHANGED <<c_connected, builder_open>>
  <2>1. \A code, words : C!Request(code, words) =>
          call = "idle" /\ UNCHANGED <<c2s, s2c, c_connected, builder_open>>
    BY Zenon DEF C!Request
  <2> QED
    BY <2>1
<1>2. call = "idle" /\ C!CompilerCall /\ UNCHANGED <<c_connected, builder_open>>
  <2>1. C!CompilerCall
    BY DEF Calls
  <2>2. CASE C!Cork \/ C!Uncork \/ C!UncorkNothing
    BY <2>1, <2>2 DEF C!Cork, C!Uncork, C!UncorkNothing
  <2> QED
    BY <2>1, <2>2, <1>1, Zenon
    DEF C!CompilerCall, C!Connect, C!ModuleRepo, C!ModuleRequest, C!InvokeSubProcess
<1>3. Batch = <<>> /\ (Connected <=> c_connected)
  BY <1>2 DEF Batch, Connected
<1>4. ASSUME NEW b, NEW codes, C!Communicate(b, codes)
      PROVE  [Abstract!Next]_(Abstract!vars)
  <2>1. call' = "writing"
    BY <1>4 DEF C!Communicate
  <2>2. Writing' /\ TypeInv'
    BY <2>1 DEF IInv, CallInv
  <2>3. asked' \in Seq(RequestCode) \ {<<>>}
    BY <2>2 DEF Writing, Asking, Asked, TypeInv
  <2>4. Batch' \in Seq(RequestCode) \ {<<>>} /\ Replies' = <<>>
    BY <2>1, <2>3 DEF Batch, Replies, Returned
  <2>5. UNCHANGED <<Connected, builder_open>>
    BY <2>1, <1>2 DEF Connected
  <2> QED
    BY <2>4, <2>5, <1>3, AbstractSteps
<1>5. ASSUME call' = "idle", packets' = <<>> \/ \E p : packets' = <<p>> /\ p.code = "PC_CORKED"
      PROVE  [Abstract!Next]_(Abstract!vars)
  <2>1. Batch' = <<>> /\ (Connected' <=> c_connected')
    BY <1>5 DEF Batch, Connected
  <2>2. Replies' = <<>>
    <3>1. CASE packets' = <<>>
      <4>1. [i \in DOMAIN <<>> |-> <<>>[i].code] = <<>>
        OBVIOUS
      <4> QED
        BY <3>1, <4>1 DEF Replies
    <3>2. CASE \E p : packets' = <<p>> /\ p.code = "PC_CORKED"
      <4>1. 1 \in DOMAIN packets' /\ packets'[1].code = "PC_CORKED"
        BY <3>2
      <4> QED
        BY <4>1 DEF Replies, Returned
    <3> QED
      BY <3>1, <3>2, <1>5
  <2>3. UNCHANGED <<Batch, Connected, builder_open>>
    BY <2>1, <1>2, <1>3 DEF Connected
  <2> QED
    BY <2>2, <2>3, <1>3, AbstractSteps
<1>6. ASSUME NEW code, NEW words, C!Request(code, words)
      PROVE  [Abstract!Next]_(Abstract!vars)
  <2>1. CASE C!Communicate(C!AppendLine(cwrite, words), <<code>>)
    BY <2>1, <1>4
  <2>2. CASE packets' = <<C!PlainPacket("PC_CORKED", "")>> /\ UNCHANGED call
    <3>1. C!PlainPacket("PC_CORKED", "").code = "PC_CORKED"
      BY DEF C!PlainPacket, C!Packet
    <3>2. \E p : packets' = <<p>> /\ p.code = "PC_CORKED"
      BY <2>2, <3>1, Zenon
    <3>3. call' = "idle"
      BY <2>2, <1>2, Zenon
    <3> QED
      BY <3>2, <3>3, <1>5
  <2> QED
    BY <2>1, <2>2, <1>6, Zenon DEF C!Request
<1>7. CASE C!Cork
  <2>1. UNCHANGED <<call, packets>>
    BY <1>7 DEF C!Cork
  <2>2. UNCHANGED <<Batch, Replies, Connected, builder_open>>
    BY <2>1, <1>2 DEF Batch, Replies, Returned, Connected
  <2> QED
    BY <2>2, AbstractSteps
<1>8. CASE C!Uncork
  BY <1>8, <1>4 DEF C!Uncork
<1>9. CASE C!UncorkNothing
  <2>1. call' = "idle" /\ packets' = <<>>
    BY <1>2, <1>9 DEF C!UncorkNothing
  <2> QED
    BY <2>1, <1>5
<1> QED
  BY <1>2, <1>6, <1>7, <1>8, <1>9, Zenon
  DEF C!CompilerCall, C!Connect, C!ModuleRepo, C!ModuleRequest, C!InvokeSubProcess

\* The client writes and reads, or finds that the builder has gone.
LEMMA CommunicatesImplement ==
  ASSUME IInv, IInv', Communicates
  PROVE  [Abstract!Next]_(Abstract!vars)
<1>1. ASSUME C!Fail, call \in {"writing", "reading"}, ~builder_open
      PROVE  [Abstract!Next]_(Abstract!vars)
  <2>1. /\ packets' = <<C!CommunicationError>> /\ call' = "idle"
        /\ UNCHANGED <<c_connected, asked, builder_open>>
    BY <1>1 DEF C!Fail
  <2>2. asked # <<>>
    BY <1>1 DEF IInv, CallInv, Writing, Waiting, Processing, Responded, Asking, Asked
  <2>3. Batch # <<>> /\ Batch' = <<>>
    BY <2>1, <2>2, <1>1 DEF Batch
  <2>4. UNCHANGED <<Connected, builder_open>>
    BY <2>1, <1>1 DEF Connected
  <2>5. Replies' = <<"PC_ERROR">>
    <3>1. C!CommunicationError.code = "PC_ERROR"
      BY CommunicationErrorPacket, Zenon
    <3>2. \A p : [i \in DOMAIN <<p>> |-> <<p>>[i].code] = <<p.code>>
      OBVIOUS
    <3>3. Returned'
      BY <2>1, <3>1 DEF Returned
    <3> QED
      BY <2>1, <3>1, <3>2, <3>3 DEF Replies
  <2> QED
    BY <2>3, <2>4, <2>5, <1>1, AbstractSteps
<1>2. CASE \E n \in 1 .. PipeCapacity : C!WriteStep(n, PipeCapacity)
  <2>1. /\ call = "writing" /\ call' \in {"reading", "writing"}
        /\ UNCHANGED <<asked, c_connected, builder_open>>
    BY <1>2 DEF C!WriteStep
  <2> QED
    BY <2>1, CallStutters
<1>3. CASE C!WriteError
  BY <1>1, <1>3 DEF C!WriteError
<1>4. CASE C!ReadEOF
  BY <1>1, <1>4 DEF C!ReadEOF
<1>5. CASE \E n \in 1 .. PipeCapacity : C!ReadStep(n)
  <2>1. /\ call = "reading"
        /\ \/ C!Fail
           \/ /\ call' \in {"parsing", call}
              /\ UNCHANGED <<asked, c_connected, builder_open, packets>>
    BY <1>5 DEF C!ReadStep
  <2>2. CASE C!Fail
    <3>1. packets' = <<C!CommunicationError>> /\ UNCHANGED builder_open
      BY <2>2 DEF C!Fail
    <3>2. 1 \in 1 .. Len(packets') /\ packets'[1] = C!CommunicationError
      BY <3>1
    <3>3. packets'[1].code = "PC_ERROR" /\ packets'[1].value = C!NoCommunication
      BY <3>2, CommunicationErrorPacket, Zenon
    <3>4. packets'[1].value \in ErrorText \/ ~builder_open'
      BY <3>2, <3>3 DEF IInv, ErrorsInv
    <3>5. ~builder_open
      BY <3>1, <3>3, <3>4, ErrorsDiffer, Zenon
    <3> QED
      BY <2>1, <2>2, <3>5, <1>1
  <2>3. CASE ~C!Fail
    <3>1. packets = <<>>
      BY <2>1 DEF IInv, CallInv, Waiting, Processing, Responded, Asking, Asked
    <3> QED
      BY <2>1, <2>3, <3>1, CallStutters
  <2> QED
    BY <2>2, <2>3
<1> QED
  BY <1>2, <1>3, <1>4, <1>5 DEF Communicates

\* Without channels nothing of it shows either.
LEMMA DirectsImplement ==
  ASSUME IInv, Directs
  PROVE  [Abstract!Next]_(Abstract!vars)
<1>1. call \in {"writing", "reading"} /\ call' # "idle" /\ UNCHANGED <<asked, packets, c_connected>>
  BY DEF Directs, DirectRequests, DirectLine, DirectResponses, client_vars
<1>2. packets = <<>>
  BY <1>1 DEF IInv, CallInv, Writing, Waiting, Processing, Responded, Asking, Asked
<1>3. UNCHANGED builder_open
  BY Zenon DEF Directs, DirectRequests, DirectLine, DirectResponses, S!ProcessLine,
               S!ProcessUnrecognized, S!ProcessConnect, S!RejectConnect,
               S!ProcessRequest, S!RejectRequest, S!Respond
<1> QED
  BY <1>1, <1>2, <1>3, CallStutters

\* Nor does anything that the server does, but that it goes.
LEMMA ServesImplement ==
  ASSUME Serves
  PROVE  [Abstract!Next]_(Abstract!vars)
<1>1. UNCHANGED client_vars
  BY DEF Serves
<1>2. UNCHANGED <<Batch, Replies, Connected>>
  BY <1>1 DEF client_vars, Batch, Replies, Returned, Connected
<1>3. builder_open' = builder_open \/ builder_open' = FALSE
  <2>1. CASE S!ProcessLine
    BY <2>1, Zenon DEF S!ProcessLine, S!ProcessUnrecognized, S!ProcessConnect, S!RejectConnect,
                       S!ProcessRequest, S!RejectRequest, S!Respond
  <2> QED
    BY <2>1 DEF Serves, S!ReadStep, S!ReadFails, S!Abort, S!PrepareResponses, S!WriteStep,
                S!WriteError, S!PrepareForRequests
<1> QED
  BY <1>2, <1>3, AbstractSteps

\* The responses answer the requests, and the first packets tell of the responses.
Replied(codes, responses, before) ==
  \A i \in 1 .. Len(codes) :
    Answer(codes[i], responses[i], ConnectedAfter(before, responses, i - 1))
TellsAll(ps, n, codes, responses) == \A i \in 1 .. n : Tells(ps[i], codes[i], responses[i])

\* While packets are made, the abstract protocol is connected as it was before.
ConnectedStill(ps, n, responses, before) ==
  ConnectedAfter(before, responses, n) /\ (\A i \in 1 .. n : ps[i].code # "PC_CONNECT") <=> before

LEMMA ConnectedBefore ==
  ASSUME NEW codes \in Seq(RequestCode), NEW responses, NEW before \in BOOLEAN, NEW ps,
         NEW n \in 0 .. Len(codes),
         Replied(codes, responses, before), TellsAll(ps, n, codes, responses)
  PROVE  ConnectedStill(ps, n, responses, before)
<1>1. \A i \in 1 .. n : ps[i].code = "PC_CONNECT" <=> Hello(responses[i])
  BY DEF TellsAll, Tells
<1>2. ASSUME before, NEW i \in 1 .. n PROVE ~Hello(responses[i])
  <2>1. i \in 1 .. Len(codes) /\ codes[i] \in RequestCode
    OBVIOUS
  <2>2. ConnectedAfter(before, responses, i - 1) = TRUE
    BY <1>2 DEF ConnectedAfter
  <2>3. /\ Answer(codes[i], responses[i], ConnectedAfter(before, responses, i - 1))
        /\ Tells(ps[i], codes[i], responses[i])
    BY <2>1 DEF Replied, TellsAll
  <2> QED
    BY <2>1, <2>2, <2>3, TellsAnswer DEF Fitting
<1> QED
  BY <1>1, <1>2, Zenon DEF ConnectedStill, ConnectedAfter

\* The packets of a call that ends are a fitting answer to its batch.
LEMMA ParsesImplement ==
  ASSUME IInv, ParsesResponse
  PROVE  [Abstract!Next]_(Abstract!vars)
<1>1. TypeInv /\ call = "parsing"
  BY DEF IInv, ParsesResponse, C!ParseResponse
<1>2. PICK responses \in Seq(Seq(Word)), before \in BOOLEAN : Parsing(responses, before)
  BY <1>1 DEF IInv, CallInv
<1>3. IInv' /\ Parsed(responses, before)
  BY <1>2, ParseStep DEF ParsesResponse
<1>4. PICK codes \in Seq(RequestCode) : codes = asked
  BY <1>1 DEF TypeInv
<1>5. PICK m \in Nat : m = Len(codes)
  OBVIOUS
<1>6. /\ Len(responses) = m /\ Len(packets) < m /\ Len(packets) \in Nat
      /\ \A i \in 1 .. m : Answer(codes[i], responses[i], ConnectedAfter(before, responses, i - 1))
      /\ \A i \in 1 .. Len(packets) : Tells(packets[i], codes[i], responses[i])
      /\ c_connected <=> ConnectedAfter(before, responses, Len(packets))
  BY <1>1, <1>2, <1>4, <1>5 DEF TypeInv, Parsing, AllAnswered, Answered
<1>7. /\ Len(packets') = Len(packets) + 1 /\ Len(packets') \in 0 .. m
      /\ call' = IF Len(packets') = m THEN "idle" ELSE "parsing"
      /\ \A i \in 1 .. Len(packets') : Tells(packets'[i], codes[i], responses[i])
      /\ c_connected' <=> ConnectedAfter(before, responses, Len(packets'))
      /\ UNCHANGED <<asked, builder_open>>
  BY <1>3, <1>4, <1>5, <1>6 DEF Parsed
<1>8. DOMAIN packets = 1 .. Len(packets) /\ DOMAIN packets' = 1 .. Len(packets')
  BY <1>1, <1>3 DEF IInv, TypeInv
<1>9. Connected <=> before
  <2>1. ConnectedStill(packets, Len(packets), responses, before)
    <3>1. Len(packets) \in 0 .. Len(codes)
      BY <1>5, <1>6
    <3>2. Replied(codes, responses, before) /\ TellsAll(packets, Len(packets), codes, responses)
      BY <1>5, <1>6 DEF Replied, TellsAll
    <3> QED
      BY <3>1, <3>2, ConnectedBefore, Zenon
  <2> QED
    BY <2>1, <1>1, <1>6, <1>8 DEF Connected, ConnectedStill
<1>10. Batch = codes /\ codes # <<>> /\ Replies = <<>>
  BY <1>1, <1>4, <1>5, <1>6 DEF Batch, Replies, Returned
<1>11. CASE Len(packets') # m
  <2>1. call' = "parsing"
    BY <1>7, <1>11
  <2>2. ConnectedStill(packets', Len(packets'), responses, before)
    <3>1. Len(packets') \in 0 .. Len(codes)
      BY <1>5, <1>7
    <3>2. Replied(codes, responses, before) /\ TellsAll(packets', Len(packets'), codes, responses)
      BY <1>5, <1>6, <1>7 DEF Replied, TellsAll
    <3> QED
      BY <3>1, <3>2, ConnectedBefore, Zenon
  <2>3. Connected' <=> before
    BY <2>1, <2>2, <1>7, <1>8 DEF Connected, ConnectedStill
  <2>4. Batch' = codes /\ Replies' = <<>>
    BY <2>1, <1>4, <1>7 DEF Batch, Replies, Returned
  <2>5. Connected' = Connected
    BY <2>3, <1>9 DEF Connected
  <2> QED
    BY <2>4, <2>5, <1>7, <1>10, AbstractSteps
<1>12. CASE Len(packets') = m
  <2>1. call' = "idle" /\ Batch' = <<>>
    BY <1>7, <1>12 DEF Batch
  <2>2. \A i \in 1 .. m :
          /\ \/ packets'[i].code = "PC_ERROR"
             \/ /\ packets'[i].code \in PacketFor(codes[i])
                /\ ConnectedAfter(before, responses, i - 1) # (codes[i] = RC_CONNECT)
          /\ (codes[i] = RC_CONNECT /\ packets'[i].code # "PC_ERROR") <=> Hello(responses[i])
          /\ packets'[i].code # "PC_CORKED"
    <3> SUFFICES ASSUME NEW i \in 1 .. m
                 PROVE  /\ \/ packets'[i].code = "PC_ERROR"
                           \/ /\ packets'[i].code \in PacketFor(codes[i])
                              /\ ConnectedAfter(before, responses, i - 1) # (codes[i] = RC_CONNECT)
                        /\ (codes[i] = RC_CONNECT /\ packets'[i].code # "PC_ERROR")
                             <=> Hello(responses[i])
                        /\ packets'[i].code # "PC_CORKED"
      OBVIOUS
    <3>1. PICK connected : connected = ConnectedAfter(before, responses, i - 1)
      OBVIOUS
    <3>2. /\ codes[i] \in RequestCode
          /\ Answer(codes[i], responses[i], connected)
          /\ Tells(packets'[i], codes[i], responses[i])
      BY <3>1, <1>5, <1>6, <1>7, <1>12
    <3>3. Fitting(packets'[i], codes[i], responses[i], connected)
      BY <3>2, TellsAnswer, Zenon
    <3> QED
      BY <3>1, <3>3 DEF Fitting
  <2>3. Replies' = [i \in 1 .. m |-> packets'[i].code]
    BY <2>1, <2>2, <1>8, <1>12 DEF Replies, Returned
  <2> DEFINE as == [i \in 1 .. m |-> packets'[i].code]
  <2>4. Len(as) = m /\ \A i \in 1 .. m : as[i] = packets'[i].code
    OBVIOUS
  <2> HIDE DEF as
  <2>5. \A i \in 1 .. m : as[i] # "PC_ERROR" /\ codes[i] = RC_CONNECT <=> Hello(responses[i])
    BY <2>2, <2>4
  <2>6. \A i \in 1 .. m :
          (Connected \/ \E j \in 1 .. i - 1 : codes[j] = RC_CONNECT /\ as[j] # "PC_ERROR")
            <=> ConnectedAfter(before, responses, i - 1)
    <3>1. \A i \in 1 .. m : \A j \in 1 .. i - 1 : j \in 1 .. m
      OBVIOUS
    <3> QED
      BY <3>1, <2>5, <1>9, Zenon DEF ConnectedAfter
  <2>7. Connected' <=> Connected \/ \E i \in 1 .. m : codes[i] = RC_CONNECT /\ as[i] # "PC_ERROR"
    <3>1. Connected' <=> ConnectedAfter(before, responses, m)
      BY <2>1, <1>7, <1>12 DEF Connected
    <3> QED
      BY <3>1, <2>5, <1>9, Zenon DEF ConnectedAfter
  <2>8. Abstract!Fits(as)
    <3>1. \A i \in 1 .. m :
            \/ as[i] = "PC_ERROR"
            \/ /\ as[i] \in PacketFor(codes[i])
               /\ (Connected \/ \E j \in 1 .. i - 1 : codes[j] = RC_CONNECT /\ as[j] # "PC_ERROR")
                    # (codes[i] = RC_CONNECT)
      BY <2>2, <2>4, <2>6 DEF ConnectedAfter
    <3> QED
      BY <3>1, <2>4, <1>5, <1>10 DEF Abstract!Fits, Batch, Connected
  <2>9. Abstract!Answer
    <3>1. Replies' = as
      BY <2>3 DEF as
    <3> QED
      BY <3>1, <2>1, <2>7, <2>8, <1>5, <1>7, <1>10 DEF Abstract!Answer, Batch, Replies, Connected
  <2> QED
    BY <2>9 DEF Abstract!Next
<1> QED
  BY <1>11, <1>12

\* What a session does is what the abstract protocol promises.
THEOREM SessionImplementsTurnBased ==
  ASSUME Arguments \subseteq Seq(Word), InitialResolver \subseteq Contract
  PROVE  Spec => ImplementsTurnBased
<1>1. Init => Abstract!Init
  <2> SUFFICES ASSUME Init PROVE Abstract!Init
    OBVIOUS
  <2>1. call = "idle" /\ packets = <<>> /\ c_connected = FALSE /\ builder_open = TRUE
    BY DEF Init, C!ClientInit, S!ServerInit
  <2>2. [i \in DOMAIN <<>> |-> <<>>[i].code] = <<>>
    OBVIOUS
  <2>3. Batch = <<>> /\ Replies = <<>> /\ ~Connected
    BY <2>1, <2>2 DEF Batch, Replies, Returned, Connected
  <2> QED
    BY <2>1, <2>3, AbstractSteps
<1>2. SessionInv /\ SessionInv' /\ [Next]_vars => [Abstract!Next]_(Abstract!vars)
  <2> SUFFICES ASSUME SessionInv, SessionInv', [Next]_vars PROVE [Abstract!Next]_(Abstract!vars)
    OBVIOUS
  <2>1. CASE UNCHANGED vars \/ CompilerGoes
    <3>1. UNCHANGED <<client_vars, builder_open>>
      BY <2>1 DEF vars, CompilerGoes
    <3>2. UNCHANGED <<Batch, Replies, Connected, builder_open>>
      BY <3>1 DEF client_vars, Batch, Replies, Returned, Connected
    <3> QED
      BY <3>2, AbstractSteps
  <2>2. CASE BuilderGoes
    <3>1. UNCHANGED client_vars /\ builder_open' = FALSE
      BY <2>2 DEF BuilderGoes
    <3>2. UNCHANGED <<Batch, Replies, Connected>>
      BY <3>1 DEF client_vars, Batch, Replies, Returned, Connected
    <3> QED
      BY <3>1, <3>2, AbstractSteps
  <2>3. CASE compiler_open /\ ~CompilerGoes
    <3>1. IInv /\ IInv'
      BY <2>3, CompilerStays DEF SessionInv
    <3> QED
      BY <2>1, <2>2, <2>3, <3>1, CallsImplement, CommunicatesImplement, DirectsImplement,
         ServesImplement, ParsesImplement DEF Next
  <2>4. CASE ~compiler_open
    <3>1. ~Calls /\ ~Communicates /\ ~ParsesResponse
      BY <2>4 DEF Calls, Communicates, ParsesResponse
    <3>2. ~Directs
      BY <2>4 DEF SessionInv, GoneInv, Directs, DirectRequests, DirectLine, DirectResponses
    <3> QED
      BY <2>1, <2>2, <3>1, <3>2, ServesImplement DEF Next
  <2> QED
    BY <2>1, <2>3, <2>4
<1>3. Spec => []SessionInv
  BY SessionInvariantHolds
<1> QED
  BY <1>1, <1>2, <1>3, PTL DEF Spec, ImplementsTurnBased, Abstract!Spec
=============================================================================
