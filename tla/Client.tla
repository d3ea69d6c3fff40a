------------------------------- MODULE Client -------------------------------
(***************************************************************************)
(* The compiler's end of a connection (class Client of cody.hh, client.cc) *)
(* over a pair of file descriptors.  A call of the compiler starts and     *)
(* ends when call is "idle"; a call that communicates goes through         *)
(* "writing", "reading" and "parsing" in between, the loops of             *)
(* CommunicateWithServer and the one of Uncork.                            *)
(***************************************************************************)
EXTENDS Protocol

CONSTANTS ModuleCalls,  \* the module requests the compiler makes
          Flags,        \* their flags: sequences of 0 or 1 word
          Arguments,    \* the argument vectors of InvokeSubProcess
          MaxCorked     \* bound on the requests queued while corked

ASSUME ClientAssumption ==
  /\ ModuleCalls \subseteq ModuleRequestCode
  /\ Flags \subseteq {<<>>} \cup {<<w>> : w \in Word}
  /\ Arguments \subseteq Seq(Symbol) \ {<<>>}
  /\ MaxCorked \in Nat
  /\ {"cc", ""} \subseteq Word

VARIABLES
  to, from,       \* the channels to and from the server
  write, read,    \* the message buffers
  corked,         \* a mark, then the codes of the queued requests
  is_connected,
  call,           \* where in a call the client is
  pending,        \* the codes whose responses are not parsed yet
  packets,        \* the packets of the call
  asked,          \* history: the codes of the requests queued or sent
  peer_open       \* the builder has not gone

client_vars == <<write, read, corked, is_connected, call, pending, packets, asked>>

PacketCode ==
  {"PC_CORKED", "PC_CONNECT", "PC_ERROR", "PC_OK", "PC_BOOL", "PC_PATHNAME"}
Call == {"idle", "writing", "reading", "parsing"}

\* What Cork puts at the front of the queue.
CorkMark == -1

\* A packet: its code, the request it answers, and its string or integer.
Packet(code, request, value) == [code |-> code, request |-> request, value |-> value]

\* A packet made without SetRequest carries the first request code.
PlainPacket(code, value) == Packet(code, RC_CONNECT, value)

\* What ProcessResponse says of responses it cannot use.
MissingResponse     == "missing response"
ExtraResponse       == "unexpected extra response"
MalformedString     == "malformed string"
MalformedResponse   == "malformed response"
MalformedError      == "malformed error response"
IncompatibleVersion == "incompatible version"

ProtocolError ==
  {MissingResponse, ExtraResponse, MalformedString, MalformedResponse,
   MalformedError, IncompatibleVersion}

NoCommunication == "communication error"

CommunicationError == PlainPacket("PC_ERROR", NoCommunication)

\* The strings and integers of packets.
PacketValue == Word \cup ProtocolError \cup {NoCommunication, "0"}

ClientTypeOK ==
  /\ to \in Seq(Symbol) /\ from \in Seq(Symbol)
  /\ write \in Buffer /\ read \in Buffer
  /\ corked \in Seq(RequestCode \cup {CorkMark})
  /\ is_connected \in BOOLEAN
  /\ call \in Call
  /\ pending \in Seq(RequestCode)
  /\ packets \in Seq([code : PacketCode, request : RequestCode, value : PacketValue])
  /\ asked \in Seq(RequestCode)
  /\ peer_open \in BOOLEAN

ClientInit ==
  /\ write = EmptyBuffer /\ read = EmptyBuffer
  /\ corked = <<>>
  /\ is_connected = FALSE
  /\ call = "idle"
  /\ pending = <<>> /\ packets = <<>> /\ asked = <<>>

IsCorked == corked # <<>>

-----------------------------------------------------------------------------
(* Calls.                                                                  *)

\* CommunicateWithServer, up to its first Write.
Communicate(buffer, codes) ==
  /\ write' = PrepareToWrite(buffer)
  /\ read' = EmptyBuffer
  /\ call' = "writing"
  /\ pending' = codes
  /\ packets' = <<>>
  /\ asked' = codes

\* A request call, up to MaybeRequest's decision to queue or to communicate.
Request(code, words) ==
  LET buffer == AppendLine(write, words) IN
  /\ call = "idle"
  /\ \/ /\ IsCorked
        /\ Len(corked) <= MaxCorked
        /\ corked' = Append(corked, code)
        /\ write' = buffer
        /\ packets' = <<PlainPacket("PC_CORKED", "")>>
        /\ asked' = Append(asked, code)
        /\ UNCHANGED <<read, call, pending>>
     \/ /\ ~IsCorked
        /\ Communicate(buffer, <<code>>)
        /\ UNCHANGED corked
  /\ UNCHANGED <<to, from, is_connected, peer_open>>

Connect == Request(RC_CONNECT, <<"HELLO", "1", "cc", "">>)

ModuleRepo == Request(RC_MODULE_REPO, <<"MODULE-REPO">>)

\* ModuleExport, ModuleImport, ModuleCompiled and IncludeTranslate.
ModuleRequest(code) ==
  \E name \in Module, flags \in Flags :
    Request(code, <<requestTable[code], name>> \o flags)

\* The arguments are appended as they are, without quoting.
InvokeSubProcess ==
  \E argv \in Arguments : Request(RC_INVOKE, <<"INVOKE">> \o argv)

Cork ==
  /\ call = "idle"
  /\ ~IsCorked
  /\ corked' = <<CorkMark>>
  /\ asked' = <<>>
  /\ UNCHANGED <<to, from, write, read, is_connected, call, pending, packets, peer_open>>

Uncork ==
  /\ call = "idle"
  /\ Len(corked) > 1
  /\ Communicate(write, Tail(corked))
  /\ UNCHANGED <<to, from, corked, is_connected, peer_open>>

\* Nothing was queued: no communication, no packets.
UncorkNothing ==
  /\ call = "idle"
  /\ Len(corked) = 1
  /\ corked' = <<>>
  /\ packets' = <<>>
  /\ asked' = <<>>
  /\ UNCHANGED <<to, from, write, read, is_connected, call, pending, peer_open>>

-----------------------------------------------------------------------------
(* CommunicateWithServer.                                                  *)

WriteStep(n, capacity) ==
  LET w == WriteSome(write, n) IN
  /\ call = "writing"
  /\ peer_open
  /\ n <= Len(Unwritten(write))
  /\ Len(to) + n <= capacity
  /\ to' = to \o SubSeq(write.data, write.bol + 1, write.bol + n)
  /\ write' = w.buffer
  /\ call' = IF w.err = "0" THEN "reading" ELSE call
  /\ UNCHANGED <<from, read, corked, is_connected, pending, packets, asked, peer_open>>

\* Mutation: a failing call leaves the queue alone.
FailKeepsQueue ==
  /\ packets' = <<CommunicationError>>
  /\ pending' = <<>>
  /\ call' = "idle"
  /\ UNCHANGED <<corked, is_connected, asked, peer_open>>

\* The call ends with one packet, however many requests it was for.
Fail ==
  /\ packets' = <<CommunicationError>>
  /\ pending' = <<>>
  /\ corked' = <<>>
  /\ call' = "idle"
  /\ UNCHANGED <<is_connected, asked, peer_open>>

WriteError ==
  /\ call = "writing"
  /\ ~peer_open
  /\ write' = EmptyBuffer
  /\ Fail
  /\ UNCHANGED <<to, from, read>>

ReadStep(n) ==
  LET r == ReadSome(read, SubSeq(from, 1, n)) IN
  /\ call = "reading"
  /\ n <= Len(from)
  /\ from' = SubSeq(from, n + 1, Len(from))
  /\ read' = r.buffer
  /\ \/ /\ r.err = "EINVAL"
        /\ Fail
     \/ /\ r.err # "EINVAL"
        /\ call' = IF r.err = "0" THEN "parsing" ELSE call
        /\ UNCHANGED <<corked, is_connected, pending, packets, asked, peer_open>>
  /\ UNCHANGED <<to, write>>

\* Mutation: end of file inside a block is tried again.
ReadEOFBetweenBlocks ==
  /\ call = "reading"
  /\ from = <<>> /\ read = EmptyBuffer
  /\ ~peer_open
  /\ Fail
  /\ UNCHANGED <<to, from, write, read>>

\* End of file, -1, is a communication error too.
ReadEOF ==
  /\ call = "reading"
  /\ from = <<>>
  /\ ~peer_open
  /\ Fail
  /\ UNCHANGED <<to, from, write, read>>

-----------------------------------------------------------------------------
(* ProcessResponse.                                                        *)

\* The functions of responseTable.  An error packet with an empty string is
\* one ProcessResponse completes.
ResponsePacket(code, words) ==
  LET error(value) == PlainPacket("PC_ERROR", value)
      size == Len(words)
      pathname ==
        IF words[1] = "PATHNAME" /\ size = 2
        THEN PlainPacket("PC_PATHNAME", words[2]) ELSE error("")
  IN
  CASE code = RC_CONNECT ->
         IF words[1] = "HELLO" /\ size \in {3, 4}
         THEN IF words[2] \notin DOMAIN Number \/ ParseUnsigned(words[2]) < Version
              THEN error(IncompatibleVersion)
              ELSE PlainPacket("PC_CONNECT",
                               IF size = 4 /\ words[4] \in {"1", "2"} THEN words[4] ELSE "0")
         ELSE error("")
    [] code \in {RC_MODULE_REPO, RC_MODULE_EXPORT, RC_MODULE_IMPORT} -> pathname
    [] code \in {RC_MODULE_COMPILED, RC_INVOKE} ->
         IF words[1] = "OK" THEN PlainPacket("PC_OK", "")
         ELSE error(IF size = 2 THEN words[2] ELSE "")
    [] code = RC_INCLUDE_TRANSLATE ->
         IF words[1] = "BOOL" /\ size = 2
         THEN IF words[2] \in {"TRUE", "FALSE"}
              THEN PlainPacket("PC_BOOL", words[2]) ELSE error("")
         ELSE pathname

\* The packet for the next response line.
NextPacket(code, isLast) ==
  LET l == Lex(read)
      words == l.text
      packet == ResponsePacket(code, words)
  IN
  IF IsAtEnd(read) THEN PlainPacket("PC_ERROR", MissingResponse)
  ELSE CASE l.err = "ENOENT" -> PlainPacket("PC_ERROR", MissingResponse)
         [] l.err = "EINVAL" -> PlainPacket("PC_ERROR", MalformedString)
         [] OTHER ->
              IF words[1] = "ERROR"
              THEN PlainPacket("PC_ERROR", IF Len(words) = 2 THEN words[2]
                                           ELSE MalformedError)
              ELSE IF isLast /\ ~IsAtEnd(l.buffer)
              THEN PlainPacket("PC_ERROR", ExtraResponse)
              ELSE IF packet.code = "PC_ERROR" /\ packet.value = ""
              THEN Packet("PC_ERROR", code, MalformedResponse)
              ELSE Packet(packet.code, code, packet.value)

\* Mutation: the queue is emptied from its end.
ParseResponseFromEnd ==
  LET packet == NextPacket(Last(pending), Len(pending) = 1) IN
  /\ call = "parsing"
  /\ packets' = Append(packets, packet)
  /\ pending' = Front(pending)
  /\ read' = IF IsAtEnd(read) THEN read ELSE Lex(read).buffer
  /\ is_connected' = (is_connected \/ packet.code = "PC_CONNECT")
  /\ call' = IF Len(pending) = 1 THEN "idle" ELSE call
  /\ corked' = IF Len(pending) = 1 THEN <<>> ELSE corked
  /\ UNCHANGED <<to, from, write, asked, peer_open>>

\* Mutation: any response to a handshake connects the client.
ParseResponseConnects ==
  LET packet == NextPacket(Head(pending), Len(pending) = 1) IN
  /\ call = "parsing"
  /\ packets' = Append(packets, packet)
  /\ pending' = Tail(pending)
  /\ read' = IF IsAtEnd(read) THEN read ELSE Lex(read).buffer
  /\ is_connected' = (is_connected \/ Head(pending) = RC_CONNECT)
  /\ call' = IF Len(pending) = 1 THEN "idle" ELSE call
  /\ corked' = IF Len(pending) = 1 THEN <<>> ELSE corked
  /\ UNCHANGED <<to, from, write, asked, peer_open>>

ParseResponse ==
  LET packet == NextPacket(Head(pending), Len(pending) = 1) IN
  /\ call = "parsing"
  /\ packets' = Append(packets, packet)
  /\ pending' = Tail(pending)
  /\ read' = IF IsAtEnd(read) THEN read ELSE Lex(read).buffer
  /\ is_connected' = (is_connected \/ packet.code = "PC_CONNECT")
  /\ call' = IF Len(pending) = 1 THEN "idle" ELSE call
  /\ corked' = IF Len(pending) = 1 THEN <<>> ELSE corked
  /\ UNCHANGED <<to, from, write, asked, peer_open>>

CompilerCall ==
  \/ Connect
  \/ ModuleRepo
  \/ \E code \in ModuleCalls : ModuleRequest(code)
  \/ InvokeSubProcess
  \/ Cork
  \/ Uncork
  \/ UncorkNothing
=============================================================================
