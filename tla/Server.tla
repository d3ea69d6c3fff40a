------------------------------- MODULE Server -------------------------------
(***************************************************************************)
(* The builder's end of a connection (class Server of cody.hh, server.cc), *)
(* driven as cody.hh:639-655 says and the loops of tests/02-comms do: Read *)
(* until it stops asking for more, ProcessRequests, PrepareToWrite, Write  *)
(* until it stops asking for more, PrepareToRead.  The loops of the tests  *)
(* do not ask why Read stopped: what it left is processed.                 *)
(*                                                                         *)
(* ProcessRequests is one call; here each line is a step, because it makes *)
(* virtual calls that may take their time.                                 *)
(***************************************************************************)
EXTENDS Protocol

CONSTANTS InitialResolver   \* the resolvers a server may be created with

VARIABLES
  from, to,       \* the channels from and to the client
  read, write,    \* the message buffers
  resolver,       \* what kind of resolver serves
  is_connected,
  direction,
  open,           \* the builder has not given up on the connection
  peer_open       \* neither has the client

server_vars == <<read, write, resolver, is_connected, direction, open>>

Direction == {"READING", "WRITING", "PROCESSING"}

(***************************************************************************)
(* The resolvers.  "default" is class Resolver.  "derived" is any class    *)
(* that overrides it and keeps to the interface: a request is answered and *)
(* 0 returned, or it is left unanswered and an errno or -1 is returned; a  *)
(* connection is accepted, perhaps handing it to another resolver, or      *)
(* nullptr is returned.  "initial" and "handler" are the classes of        *)
(* tests/02-comms/pivot-1.cc.                                              *)
(***************************************************************************)
Resolver == {"default", "derived", "initial", "handler"}

ASSUME ResolverAssumption == InitialResolver \subseteq Resolver

ServerTypeOK ==
  /\ from \in Seq(Symbol) /\ to \in Seq(Symbol)
  /\ read \in Buffer /\ write \in Buffer
  /\ resolver \in Resolver
  /\ is_connected \in BOOLEAN
  /\ direction \in Direction
  /\ open \in BOOLEAN /\ peer_open \in BOOLEAN

ServerInit ==
  /\ read = EmptyBuffer /\ write = EmptyBuffer
  /\ resolver \in InitialResolver
  /\ is_connected = FALSE
  /\ direction = "READING"
  /\ open = TRUE

-----------------------------------------------------------------------------
(* What resolvers do.  An outcome tells the line the resolver accumulated  *)
(* in the server, <<>> for none, and either the value it returned (0, an   *)
(* errno, which "errno" stands for, or -1) or, for a connection, the       *)
(* resolver.                                                               *)

Said(line)     == [said |-> line, result |-> "0"]
Returned(code) == [said |-> <<>>, result |-> code]

DefaultOutcomes(code, words) ==
  CASE code = RC_MODULE_REPO -> {Said(PathnameResponse(REPO_DIR))}
    [] code \in {RC_MODULE_EXPORT, RC_MODULE_IMPORT} ->
         {Said(PathnameResponse(CMIName[words[2]]))}
    [] code = RC_MODULE_COMPILED -> {Said(OKResponse)}
    [] code = RC_INCLUDE_TRANSLATE ->
         {Said(PathnameResponse(CMIName[words[2]])), Said(BoolResponse(FALSE))}
    [] code = RC_INVOKE -> {Said(ErrorResponse("unimplemented"))}

DerivedOutcomes(code, words) ==
  DefaultOutcomes(code, words)
    \cup {Returned("-1"), Returned("errno"), Said(ErrorResponse("failed"))}
    \cup (IF code = RC_INVOKE THEN {Said(OKResponse)} ELSE {})
    \cup (IF code = RC_INCLUDE_TRANSLATE THEN {Said(BoolResponse(TRUE))} ELSE {})

Outcomes(code, words) ==
  IF resolver = "derived" THEN DerivedOutcomes(code, words)
  ELSE DefaultOutcomes(code, words)

Accepts(r)      == [said |-> ConnectResponse("default"), accepts |-> TRUE, result |-> r]
Answers(e, r)   == [said |-> ErrorResponse(e), accepts |-> FALSE, result |-> r]
ReturnsNullptr  == [said |-> <<>>, accepts |-> FALSE, result |-> "nullptr"]

\* Resolver::ConnectRequest, for a call that returns r.
DefaultConnect(version, r) ==
  IF version > Version THEN Answers("version mismatch", r) ELSE Accepts(r)

ConnectOutcomes(version) ==
  CASE resolver = "default" -> {DefaultConnect(version, "default")}
    [] resolver = "derived" ->
         {DefaultConnect(version, "derived"), DefaultConnect(version, "default"),
          Answers("refused", "derived"), ReturnsNullptr}
    [] resolver = "initial" -> {DefaultConnect(version, "handler")}
    [] resolver = "handler" -> {Answers("unexpected connect call", "nullptr")}

-----------------------------------------------------------------------------
(* ProcessRequests.                                                        *)

\* The checks of the ...Request functions, before they call the resolver.
WellFormed(code, words) ==
  CASE code = RC_CONNECT ->
         /\ Len(words) \in {3, 4}
         /\ ParseUnsigned(words[2]) # Unparsable
    [] code = RC_MODULE_REPO -> Len(words) = 1
    [] code = RC_INVOKE -> Len(words) >= 2 /\ words[2] # ""
    [] code \in ModuleRequestCode ->
         /\ Len(words) \in {2, 3}
         /\ words[2] # ""
         /\ Len(words) = 3 => ParseUnsigned(words[3]) # Unparsable

\* Whether Lex gets past its Assert: the buffer ends with a newline, also when
\* there are lines before its last one.
Lexable(b) == b.data # <<>> /\ Last(b.data) = NEWLINE

\* The next line selects this code.  A line that does not lex, or has no
\* words, selects none.
Selects(code) ==
  LET l == Lex(read) IN
  /\ direction = "PROCESSING"
  /\ open
  /\ ~IsAtEnd(read)
  /\ Lexable(read)
  /\ code = IF l.err = "0" THEN CodeOf(l.text[1]) ELSE RC_HWM

Tell(b, line) == IF line = <<>> THEN b ELSE AppendLine(b, line)

\* The line is dealt with: what the resolver said goes out, and, if the
\* server has an error of its own to tell, that error after it.
Respond(said, own) ==
  /\ read' = Lex(read).buffer
  /\ write' = Tell(Tell(write, said), own)
  /\ UNCHANGED <<from, to, direction, open, peer_open>>

\* Mutation: what is not recognized is not answered.
ProcessUnrecognizedSilently ==
  /\ Selects(RC_HWM)
  /\ Respond(<<>>, <<>>)
  /\ UNCHANGED <<resolver, is_connected>>

ProcessUnrecognized ==
  /\ Selects(RC_HWM)
  /\ Respond(<<>>, ErrorResponse("unrecognized"))
  /\ UNCHANGED <<resolver, is_connected>>

\* Mutation: the connection is marked, whatever the resolver said.
ProcessConnectAlways ==
  LET words == Lex(read).text IN
  /\ Selects(RC_CONNECT)
  /\ ~is_connected
  /\ WellFormed(RC_CONNECT, words)
  /\ is_connected' = TRUE
  /\ \E o \in ConnectOutcomes(ParseUnsigned(words[2])) :
       /\ resolver' = IF o.result = "nullptr" THEN resolver ELSE o.result
       /\ Respond(o.said, IF o.result = "nullptr" THEN ErrorResponse("malformed") ELSE <<>>)

\* Mutation: a second handshake is not refused.
ProcessConnectAgain ==
  LET words == Lex(read).text IN
  /\ Selects(RC_CONNECT)
  /\ WellFormed(RC_CONNECT, words)
  /\ \E o \in ConnectOutcomes(ParseUnsigned(words[2])) :
       /\ is_connected' = o.accepts
       /\ resolver' = IF o.result = "nullptr" THEN resolver ELSE o.result
       /\ Respond(o.said, IF o.result = "nullptr" THEN ErrorResponse("malformed") ELSE <<>>)

ProcessConnect ==
  LET words == Lex(read).text IN
  /\ Selects(RC_CONNECT)
  /\ ~is_connected
  /\ WellFormed(RC_CONNECT, words)
  /\ \E o \in ConnectOutcomes(ParseUnsigned(words[2])) :
       /\ is_connected' = o.accepts
       /\ resolver' = IF o.result = "nullptr" THEN resolver ELSE o.result
       /\ Respond(o.said, IF o.result = "nullptr" THEN ErrorResponse("malformed") ELSE <<>>)

\* A second handshake, or one the server does not understand.
RejectConnect ==
  /\ Selects(RC_CONNECT)
  /\ is_connected \/ ~WellFormed(RC_CONNECT, Lex(read).text)
  /\ Respond(<<>>, ErrorResponse(IF is_connected THEN "already connected" ELSE "malformed"))
  /\ UNCHANGED <<resolver, is_connected>>

ProcessRequest(code) ==
  LET words == Lex(read).text IN
  /\ Selects(code)
  /\ is_connected
  /\ WellFormed(code, words)
  /\ \E o \in Outcomes(code, words) :
       Respond(o.said, CASE o.result = "0"     -> <<>>
                         [] o.result = "errno" -> ErrorResponse("error processing")
                         [] OTHER              -> ErrorResponse("malformed"))
  /\ UNCHANGED <<resolver, is_connected>>

RejectRequest(code) ==
  /\ Selects(code)
  /\ ~is_connected \/ ~WellFormed(code, Lex(read).text)
  /\ Respond(<<>>, ErrorResponse(IF is_connected THEN "malformed" ELSE "not connected"))
  /\ UNCHANGED <<resolver, is_connected>>

\* The Assert of Lex fails, and the builder aborts.
Abort ==
  /\ direction = "PROCESSING"
  /\ open
  /\ ~IsAtEnd(read)
  /\ ~Lexable(read)
  /\ open' = FALSE
  /\ UNCHANGED <<from, to, read, write, resolver, is_connected, direction, peer_open>>

ProcessLine ==
  \/ ProcessUnrecognized
  \/ ProcessConnect
  \/ RejectConnect
  \/ \E code \in RequestCode \ {RC_CONNECT} : ProcessRequest(code)
  \/ \E code \in RequestCode \ {RC_CONNECT} : RejectRequest(code)

-----------------------------------------------------------------------------
(* The rest of the builder's loop.                                         *)

\* Read's loop ends with 0 or with EINVAL; what was read is processed.
ReadStep(n) ==
  LET r == ReadSome(read, SubSeq(from, 1, n)) IN
  /\ direction = "READING"
  /\ open
  /\ n <= Len(from)
  /\ from' = SubSeq(from, n + 1, Len(from))
  /\ read' = r.buffer
  /\ direction' = IF r.err = "EAGAIN" THEN "READING" ELSE "PROCESSING"
  /\ UNCHANGED <<to, write, resolver, is_connected, open, peer_open>>

\* Read's loop ends with -1, at end of file, or with an errno such as
\* ECONNRESET, which loses what was not read.  Either comes when the client has
\* gone.  The loop ends as it does with 0: what was read is processed.
ReadFails ==
  /\ direction = "READING"
  /\ open
  /\ ~peer_open
  /\ from' = <<>>
  /\ direction' = "PROCESSING"
  /\ UNCHANGED <<to, read, write, resolver, is_connected, open, peer_open>>

\* Mutation: the response to the first line is sent before the others are
\* dealt with.
PrepareResponsesEagerly ==
  /\ direction = "PROCESSING"
  /\ open
  /\ write # EmptyBuffer
  /\ write' = PrepareToWrite(write)
  /\ direction' = "WRITING"
  /\ UNCHANGED <<from, to, read, resolver, is_connected, open, peer_open>>

PrepareResponses ==
  /\ direction = "PROCESSING"
  /\ open
  /\ IsAtEnd(read)
  /\ write' = PrepareToWrite(write)
  /\ direction' = "WRITING"
  /\ UNCHANGED <<from, to, read, resolver, is_connected, open, peer_open>>

WriteStep(n, capacity) ==
  LET w == WriteSome(write, n) IN
  /\ direction = "WRITING"
  /\ open
  /\ peer_open
  /\ n <= Len(Unwritten(write))
  /\ Len(to) + n <= capacity
  /\ to' = to \o SubSeq(write.data, write.bol + 1, write.bol + n)
  /\ write' = w.buffer
  /\ UNCHANGED <<from, read, resolver, is_connected, direction, open, peer_open>>

\* Write fails because the client has gone: the buffer is reset, and the
\* builder drops the connection.
WriteError ==
  /\ direction = "WRITING"
  /\ open
  /\ write # EmptyBuffer
  /\ ~peer_open
  /\ write' = EmptyBuffer
  /\ open' = FALSE
  /\ UNCHANGED <<from, to, read, resolver, is_connected, direction, peer_open>>

\* Mutation: the direction is not turned around.
PrepareForRequestsStaysWriting ==
  /\ direction = "WRITING"
  /\ open
  /\ write = EmptyBuffer
  /\ read' = EmptyBuffer
  /\ UNCHANGED <<from, to, write, resolver, is_connected, direction, open, peer_open>>

PrepareForRequests ==
  /\ direction = "WRITING"
  /\ open
  /\ write = EmptyBuffer
  /\ read' = EmptyBuffer
  /\ direction' = "READING"
  /\ UNCHANGED <<from, to, write, resolver, is_connected, open, peer_open>>
=============================================================================
