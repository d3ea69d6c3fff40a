------------------------------ MODULE Session ------------------------------
(***************************************************************************)
(* A client and a server of the library, each with its own loop, over two  *)
(* channels of bounded capacity: pipes, or the two directions of a socket. *)
(* Either process may go away at any time.  What it wrote before stays     *)
(* readable, unless the other one is told of a connection reset.           *)
(*                                                                         *)
(* Or else a client that was made with a pointer to the server, in one     *)
(* process: the two hand their buffers over, by DirectProcess.             *)
(***************************************************************************)
EXTENDS Protocol

CONSTANTS ModuleCalls, Flags, Arguments, MaxCorked,  \* as in Client
          InitialResolver,  \* as in Server
          PipeCapacity      \* symbols a channel holds

\* The assumptions of Client and Server about the constants they share.
ASSUME SessionAssumption ==
  /\ ModuleCalls \subseteq ModuleRequestCode
  /\ Flags \subseteq {<<>>} \cup {<<w>> : w \in Word}
  /\ Arguments \subseteq Seq(Symbol) \ {<<>>}
  /\ {MaxCorked, PipeCapacity} \subseteq Nat
  /\ {"cc", ""} \subseteq Word
  /\ InitialResolver \subseteq {"default", "derived", "initial", "handler"}

VARIABLES
  is_direct,     \* the client calls the server, there are no channels
  c2s, s2c,      \* the channels
  \* the client
  cwrite, cread, corked, c_connected, call, pending, packets, asked,
  \* the server
  sread, swrite, resolver, s_connected, direction,
  \* the processes that have not gone
  compiler_open, builder_open

C == INSTANCE Client WITH
       to <- c2s, from <- s2c, write <- cwrite, read <- cread,
       is_connected <- c_connected, peer_open <- builder_open

S == INSTANCE Server WITH
       from <- c2s, to <- s2c, write <- swrite, read <- sread,
       is_connected <- s_connected, open <- builder_open,
       peer_open <- compiler_open

client_vars == <<cwrite, cread, corked, c_connected, call, pending, packets, asked>>
server_vars == <<sread, swrite, resolver, s_connected, direction>>
vars == <<is_direct, c2s, s2c, client_vars, server_vars, compiler_open, builder_open>>

TypeOK == is_direct \in BOOLEAN /\ C!ClientTypeOK /\ S!ServerTypeOK

Init ==
  /\ is_direct \in BOOLEAN
  /\ C!ClientInit
  /\ S!ServerInit
  /\ c2s = <<>> /\ s2c = <<>>
  /\ compiler_open = TRUE

-----------------------------------------------------------------------------

Calls ==
  /\ compiler_open
  /\ C!CompilerCall
  /\ UNCHANGED <<is_direct, server_vars, compiler_open>>

ParsesResponse ==
  /\ compiler_open
  /\ C!ParseResponse
  /\ UNCHANGED <<is_direct, server_vars, compiler_open>>

Communicates ==
  /\ ~is_direct
  /\ compiler_open
  /\ \/ \E n \in 1 .. PipeCapacity : C!WriteStep(n, PipeCapacity)
     \/ C!WriteError
     \/ \E n \in 1 .. PipeCapacity : C!ReadStep(n)
     \/ C!ReadEOF
  /\ UNCHANGED <<is_direct, server_vars, compiler_open>>

Serves ==
  /\ ~is_direct
  /\ \/ \E n \in 1 .. PipeCapacity : S!ReadStep(n)
     \/ S!ReadFails
     \/ S!ProcessLine
     \/ S!Abort
     \/ S!PrepareResponses
     \/ \E n \in 1 .. PipeCapacity : S!WriteStep(n, PipeCapacity)
     \/ S!WriteError
     \/ S!PrepareForRequests
  /\ UNCHANGED <<is_direct, client_vars, compiler_open>>

CompilerGoes ==
  /\ ~is_direct
  /\ compiler_open
  /\ compiler_open' = FALSE
  /\ UNCHANGED <<is_direct, c2s, s2c, client_vars, server_vars, builder_open>>

BuilderGoes ==
  /\ ~is_direct
  /\ builder_open
  /\ builder_open' = FALSE
  /\ UNCHANGED <<is_direct, c2s, s2c, client_vars, server_vars, compiler_open>>

-----------------------------------------------------------------------------
(* DirectProcess, which is one call of the client's: the swap at its       *)
(* start, the lines, the swap at its end.  Each PrepareToRead has emptied  *)
(* the buffer that its swap gives away.                                    *)

DirectRequests ==
  /\ is_direct
  /\ call = "writing"
  /\ sread' = cwrite
  /\ cwrite' = EmptyBuffer
  /\ direction' = "PROCESSING"
  /\ call' = "reading"
  /\ UNCHANGED <<is_direct, c2s, s2c, cread, corked, c_connected, pending, packets,
                 asked, swrite, resolver, s_connected, compiler_open, builder_open>>

DirectLine ==
  /\ is_direct
  /\ call = "reading"
  /\ S!ProcessLine
  /\ UNCHANGED <<is_direct, client_vars>>

\* Mutation: the responses are copied, and stay in the server's buffer.
DirectResponsesCopied ==
  /\ is_direct
  /\ call = "reading"
  /\ IsAtEnd(sread)
  /\ cread' = PrepareToWrite(swrite)
  /\ swrite' = PrepareToWrite(swrite)
  /\ call' = "parsing"
  /\ UNCHANGED <<is_direct, c2s, s2c, cwrite, corked, c_connected, pending, packets, asked,
                 sread, resolver, s_connected, direction, compiler_open, builder_open>>

\* A derived resolver's WaitUntilReady may take its time; Resolver's returns.
DirectResponses ==
  /\ is_direct
  /\ call = "reading"
  /\ IsAtEnd(sread)
  /\ cread' = PrepareToWrite(swrite)
  /\ swrite' = cread
  /\ call' = "parsing"
  /\ UNCHANGED <<is_direct, c2s, s2c, cwrite, corked, c_connected, pending, packets, asked,
                 sread, resolver, s_connected, direction, compiler_open, builder_open>>

Directs == DirectRequests \/ DirectLine \/ DirectResponses

-----------------------------------------------------------------------------

Next ==
  Calls \/ Communicates \/ Directs \/ ParsesResponse \/ Serves \/ CompilerGoes \/ BuilderGoes

Spec == Init /\ [][Next]_vars

\* Each process, one thread, runs its loop.  Nothing makes the compiler make
\* a call.
ClientThread == Communicates \/ Directs \/ ParsesResponse

FairSpec == Spec /\ WF_vars(ClientThread) /\ WF_vars(Serves)

-----------------------------------------------------------------------------
(* Properties.                                                             *)

\* The ends never write at the same time (README.md:46-48 and 52-58): while
\* the client has requests to write no response is in flight or about to be,
\* and while the server writes the client has nothing left to write.
TurnsDoNotCross ==
  compiler_open /\ builder_open =>
    /\ call = "writing" => s2c = <<>> /\ swrite.data = <<>>
    /\ direction = "WRITING" /\ swrite.data # <<>> => call = "reading" /\ c2s = <<>>
    /\ c2s = <<>> \/ s2c = <<>>

\* Where the loop of each end can take another step.
ClientGoesOn ==
  \/ call = "writing" /\ Unwritten(cwrite) # <<>> /\ Len(c2s) < PipeCapacity
  \/ call = "reading" /\ s2c # <<>>
  \/ call = "parsing"

ServerGoesOn ==
  \/ direction = "READING" /\ c2s # <<>>
  \/ direction = "PROCESSING"
  \/ direction = "WRITING" /\ swrite = EmptyBuffer
  \/ direction = "WRITING" /\ Unwritten(swrite) # <<>> /\ Len(s2c) < PipeCapacity

\* The loops of the client (client.cc:86-92) and that of the builder around its
\* server never wait for each other: while a call is under way and neither
\* process has gone, one of them can go on, however few symbols a channel holds.
NoDeadlock ==
  ~is_direct /\ call # "idle" /\ compiler_open /\ builder_open /\ PipeCapacity > 0 =>
    ClientGoesOn \/ ServerGoesOn

\* What lies behind the place reached in a buffer: to be written, or to be lexed.
Ahead(b) == Len(Unwritten(b))

\* What is left to do with the requests of a call, and what with the responses
\* there are so far: each symbol is written, read and lexed.
RequestsAhead ==
  4 * Ahead(cwrite) + 3 * Len(c2s) + Ahead(sread)
    + (IF direction = "PROCESSING" THEN 1 ELSE 0)
    + (IF call \in {"writing", "reading"} THEN 1 ELSE 0)

ResponsesAhead ==
  3 * Ahead(swrite) + 2 * Len(s2c) + Ahead(cread)
    + (IF direction = "WRITING" THEN 1 ELSE 0)

\* Responses come of requests only, so less of those is always an advance.
Advances ==
  \/ RequestsAhead' < RequestsAhead
  \/ RequestsAhead' = RequestsAhead /\ ResponsesAhead' < ResponsesAhead

\* The loops of a call (client.cc:78-104) and of the builder come to an end, over
\* channels or directly: while the call lasts and both processes are there, no
\* step of either leaves as much to do as there was before it.
CallAdvances ==
  [][call # "idle" /\ call' # "idle" /\ compiler_open' /\ builder_open' => Advances]_vars

\* A call leaves nothing for the next one to trip over, over channels or
\* directly (server.cc:84-93, where buffers change hands and the direction is
\* never turned around): between calls no response waits in the server or in
\* a channel, every response was read, and only a queue holds requests.
NothingLeftBehind ==
  call = "idle" /\ compiler_open /\ builder_open =>
    /\ swrite = EmptyBuffer
    /\ c2s = <<>> /\ s2c = <<>>
    /\ IsAtEnd(cread)
    /\ corked = <<>> => cwrite = EmptyBuffer

\* A builder of the library with resolvers that keep to the interface gives
\* the client nothing to complain about (client.cc:106-146): no response of
\* its is missing, superfluous, misplaced or misspelt.
NoProtocolErrors ==
  \A i \in DOMAIN packets :
    packets[i].code = "PC_ERROR" => packets[i].value \notin C!ProtocolError

\* A communication error means that the builder has gone: no cut of the
\* channel, and no block of the other end, makes Read or Write report one.
ErrorMeansGone ==
  C!CommunicationError \in {packets[i] : i \in DOMAIN packets} => ~builder_open

\* The errors that a compiler is given are those that its builder means it to have,
\* or that the builder has gone.
ErrorsAreGenuine == NoProtocolErrors /\ ErrorMeansGone

\* A connected client has a connected server; and the server is not connected
\* behind the back of a client that is between calls, unless it went away.
ConnectionAgreement ==
  /\ c_connected => s_connected
  /\ call = "idle" /\ builder_open => (s_connected <=> c_connected)

\* Every call returns, also when the builder goes, as long as the compiler
\* itself stays: no pair of loops waits for each other.
CallsReturn == (call # "idle") ~> (call = "idle" \/ ~compiler_open)

\* A builder whose compiler has gone stops serving it, whatever it was doing: by
\* the error of a Write or, where the compiler left half a line, by the Assert
\* of Lex.
BuilderStops == ~compiler_open ~> ~builder_open

-----------------------------------------------------------------------------
(* The session implements the abstract protocol.                           *)

PacketFor(code) ==
  CASE code = RC_CONNECT -> {"PC_CONNECT"}
    [] code \in {RC_MODULE_REPO, RC_MODULE_EXPORT, RC_MODULE_IMPORT} -> {"PC_PATHNAME"}
    [] code \in {RC_MODULE_COMPILED, RC_INVOKE} -> {"PC_OK"}
    [] code = RC_INCLUDE_TRANSLATE -> {"PC_BOOL", "PC_PATHNAME"}

Returned == call = "idle" /\ \A i \in DOMAIN packets : packets[i].code # "PC_CORKED"

Abstract == INSTANCE TurnBased WITH
  Request   <- RequestCode,
  Handshake <- RC_CONNECT,
  Answers   <- PacketFor,
  Failure   <- "PC_ERROR",
  batch     <- IF call = "idle" THEN <<>> ELSE asked,
  answers   <- IF Returned THEN [i \in DOMAIN packets |-> packets[i].code] ELSE <<>>,
  connected <- /\ c_connected
               /\ call = "parsing" =>
                    \A i \in DOMAIN packets : packets[i].code # "PC_CONNECT",
  gone      <- ~builder_open

ImplementsTurnBased == Abstract!Spec
=============================================================================
