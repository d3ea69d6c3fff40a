----------------------------- MODULE AnyBuilder -----------------------------
(***************************************************************************)
(* A client and some builder, which is not written with class Server: to a *)
(* block of requests it sends a block of any of the given lines, in any    *)
(* order, perhaps one too few or one too many, and may run a second block  *)
(* into the first.  It may go away at any time, in the middle of a block   *)
(* too.                                                                    *)
(***************************************************************************)
EXTENDS Client, FiniteSets

CONSTANTS BuilderLines,  \* the lines it may send
          ExtraLines,    \* the lines it may send on top of them
          PipeCapacity   \* symbols the channel to the builder holds

\* A block ends where the builder meant it to: a last word that would be taken
\* for a continuation mark is quoted, which makes it a word.
ASSUME BuilderAssumption ==
  /\ BuilderLines \cup ExtraLines \subseteq Seq(Word \cup Glued \cup Garbled)
  /\ \A line \in BuilderLines \cup ExtraLines :
       line # <<>> => line[Len(line)] \notin Glued

VARIABLES
  heard,    \* the MessageBuffer it reads the requests into
  working,  \* it has a block of requests to respond to
  sent,     \* the lines of its last block, empty while a call has none yet
  greeted,  \* it completed a handshake in an earlier call
  chatty    \* it ran two blocks together, and sends nothing after that

env_vars == <<heard, working, sent, greeted, chatty>>
vars == <<to, from, peer_open, client_vars, env_vars>>

Init ==
  /\ ClientInit
  /\ to = <<>> /\ from = <<>>
  /\ peer_open = TRUE
  /\ heard = EmptyBuffer
  /\ working = FALSE
  /\ sent = <<>>
  /\ greeted = FALSE
  /\ chatty = FALSE

Verb(line) == IF line = <<>> THEN "" ELSE line[1]

\* A call has communicated and returned, and no call was made since.
Succeeded == call = "idle" /\ sent # <<>> /\ packets # <<CommunicationError>>

\* The builder accepted the i-th request of this call, a handshake, in a line
\* that the client does not have to reject because of the lines behind it.
GreetedBy(i) ==
  /\ i \in DOMAIN asked \cap DOMAIN sent
  /\ asked[i] = RC_CONNECT
  /\ sent[i] \in Seq(Word)
  /\ Verb(sent[i]) = "HELLO"
  /\ Len(sent[i]) \in {3, 4}
  /\ ParseUnsigned(sent[i][2]) >= Version
  /\ i = Len(asked) => Len(sent) = i

Greeted == Succeeded /\ \E i \in DOMAIN asked : GreetedBy(i)

-----------------------------------------------------------------------------
(* The builder.                                                            *)

Hear(n) ==
  LET r == ReadSome(heard, SubSeq(to, 1, n)) IN
  /\ ~working
  /\ peer_open
  /\ n <= Len(to)
  /\ to' = SubSeq(to, n + 1, Len(to))
  /\ heard' = r.buffer
  /\ working' = (r.err # "EAGAIN")
  /\ UNCHANGED <<from, peer_open, client_vars, sent, greeted, chatty>>

\* One line for each request, or one line less, then perhaps one more line,
\* in the block or after it.
Reply(lines, extra, after) ==
  /\ working
  /\ peer_open
  /\ ~chatty
  /\ Len(lines) \in {Len(asked), Len(asked) - 1} \ {0}
  /\ sent' = lines \o (IF after THEN <<>> ELSE extra)
  /\ from' = from \o Block(sent') \o (IF after THEN Block(extra) ELSE <<>>)
  /\ chatty' = after
  /\ heard' = EmptyBuffer
  /\ working' = FALSE
  /\ UNCHANGED <<to, peer_open, client_vars, greeted>>

\* It goes away; the last symbols it sent may not have been sent at all.
Leave ==
  /\ peer_open
  /\ peer_open' = FALSE
  /\ \E n \in 0 .. Len(from) : from' = SubSeq(from, 1, n)
  /\ UNCHANGED <<to, client_vars, env_vars>>

-----------------------------------------------------------------------------

SomeWrite == \E n \in 1 .. PipeCapacity : WriteStep(n, PipeCapacity)
SomeRead  == \E n \in 1 .. Len(from) : ReadStep(n)
SomeHear  == \E n \in 1 .. PipeCapacity : Hear(n)
SomeReply == \E lines \in UNION {[1 .. n -> BuilderLines] : n \in 1 .. MaxCorked} :
               \/ Reply(lines, <<>>, FALSE)
               \/ \E line \in ExtraLines, after \in BOOLEAN : Reply(lines, <<line>>, after)

\* The compiler makes calls as long as the builder keeps to the turns.
Calls ==
  /\ CompilerCall
  /\ ~chatty
  /\ sent' = <<>>
  /\ greeted' = (greeted \/ Greeted)
  /\ UNCHANGED <<heard, working, chatty>>

Communicates ==
  /\ \/ SomeWrite
     \/ WriteError
     \/ SomeRead
     \/ ReadEOF
     \/ ParseResponse
  /\ UNCHANGED env_vars

BuilderStep == SomeHear \/ SomeReply

Next == Calls \/ Communicates \/ BuilderStep \/ Leave

Spec == Init /\ [][Next]_vars

\* The client's loops keep calling, and the builder responds to a block it
\* has, or goes away.  Nothing makes the compiler make a call.
FairSpec ==
  Spec /\ WF_vars(Communicates) /\ WF_vars(SomeHear) /\ WF_vars(SomeReply)

-----------------------------------------------------------------------------
(* Properties.                                                             *)

\* Between calls the queue of a corked client and its write buffer tell the
\* same requests (client.cc:148-193), and an uncorked client holds nothing
\* back: neither an error nor an earlier batch leaves lines or codes behind
\* that would shift the responses of the next batch.
QueueMatchesBuffer ==
  call = "idle" =>
    LET lines == IF write.data = <<>> THEN <<>>
                 ELSE LinesOf(Append(write.data, NEWLINE))
        codes == IF IsCorked THEN Tail(corked) ELSE <<>>
    IN  [i \in DOMAIN lines |-> CodeOf(Verb(lines[i]))] = codes

\* What reaches the builder in a block is exactly the batch of requests the
\* compiler made, in the order it made them, however the channel cut it.
RequestsArrive ==
  working /\ peer_open =>
    LET lines == LinesOf(heard.data)
    IN  [i \in DOMAIN lines |-> CodeOf(Verb(lines[i]))] = asked

\* The "optional flags" of a HELLO (cody.hh:452), 0 if there are none.
FlagsOf(hello) == IF Len(hello) = 4 /\ hello[4] \in {"1", "2"} THEN hello[4] ELSE "0"

\* "A vector of packets, containing the in-order responses to the queued
\* requests" (cody.hh:554-555).  There is a packet for each request, and the
\* i-th tells what the i-th line of the builder says, as an answer to the
\* i-th request, whatever was wrong with the lines before it.  A handshake
\* tells its flags, where cody.hh:362 and the tests expect the version.
PacketsCorrespond ==
  Succeeded =>
    /\ Len(packets) = Len(asked)
    /\ \A i \in DOMAIN asked :
         packets[i].code # "PC_ERROR" =>
           /\ i \in DOMAIN sent
           /\ Verb(sent[i]) \in ResponseVerbs(asked[i])
           /\ packets[i].request = asked[i]
           /\ packets[i].code \in {"PC_PATHNAME", "PC_BOOL"} =>
                packets[i].value = sent[i][2]
           /\ packets[i].code = "PC_CONNECT" => packets[i].value = FlagsOf(sent[i])

\* A response the protocol allows is not lost to an error next to it: with
\* one line for each request, a well-formed line yields its packet.
GoodResponsesSurvive ==
  Succeeded /\ Len(sent) = Len(asked) =>
    \A i \in DOMAIN asked :
      /\ sent[i] \in Seq(Word)
      /\ Verb(sent[i]) \in {"OK", "PATHNAME"} \cap ResponseVerbs(asked[i])
      /\ Len(sent[i]) = (IF sent[i][1] = "OK" THEN 1 ELSE 2)
      => packets[i].code = (IF sent[i][1] = "OK" THEN "PC_OK" ELSE "PC_PATHNAME")

\* A block with a line too few or too many is not taken for a good one: the
\* last packet is an error (client.cc:118-130).
MiscountNoticed ==
  Succeeded /\ Len(sent) # Len(asked) => Last(packets).code = "PC_ERROR"

\* What is wrong with a block of responses is told, and costs no other response.
FaultsAreContained == GoodResponsesSurvive /\ MiscountNoticed

\* The client believes in a connection exactly when the builder answered a
\* handshake request with a version it can use (client.cc:143-144): never
\* because of a HELLO that answers something else, or that is too old.
ConnectedByHandshake ==
  Succeeded => (is_connected <=> greeted \/ Greeted)

\* Only the builder keeps the client waiting (client.cc:90-92): a client with
\* nothing to read has sent a block that the builder has yet to read the rest
\* of or to respond to, and never one that it has responded to.
NeverWaitsInVain ==
  call = "reading" /\ peer_open /\ from = <<>> =>
    /\ ~chatty
    /\ working \/ to # <<>>

\* A call returns, unless the builder does not answer and does not leave.
CallReturns == (call = "writing") ~> (call = "idle")

-----------------------------------------------------------------------------
(* What the documentation says, and the code does not do.                  *)

\* "The Packet::GetRequest() method records in response packets what the
\* request being responded to was" (README.md:116).
RequestRecorded ==
  Succeeded => \A i \in DOMAIN asked : packets[i].request = asked[i]
=============================================================================
