---------------------------- MODULE AnyCompiler ----------------------------
(***************************************************************************)
(* A server and some compiler, which is not written with class Client: it  *)
(* sends blocks of any of the given lines, in any order, among them lines  *)
(* the protocol does not know.  It may run two blocks together in one      *)
(* turn, and it may go away at any time, in the middle of a block too.     *)
(***************************************************************************)
EXTENDS Server, FiniteSets

CONSTANTS CompilerLines,  \* the lines it may send
          ExtraLines,     \* those of a block that runs into another
          MaxLines,       \* lines of a block
          PipeCapacity    \* symbols the channel to the compiler holds

\* A block ends where the compiler meant it to: a last word that would be taken
\* for a continuation mark is quoted, which makes it a word.
ASSUME LinesAssumption ==
  /\ CompilerLines \cup ExtraLines \subseteq Seq(Word \cup Glued \cup Garbled)
  /\ \A line \in CompilerLines : line # <<>> => line[Len(line)] \notin Glued

VARIABLES
  asked,    \* the lines of the last block sent
  got,      \* the MessageBuffer it reads the responses into
  turn,     \* "compiler" when it may send, "builder" when it waits
  greeted,  \* a HELLO came back in an earlier block
  impatient \* it ran two blocks together, and sends nothing after that

env_vars == <<asked, got, turn, greeted, impatient>>
vars == <<from, to, peer_open, server_vars, env_vars>>

Turn == {"compiler", "builder"}

Init ==
  /\ ServerInit
  /\ from = <<>> /\ to = <<>>
  /\ peer_open = TRUE
  /\ asked = <<>>
  /\ got = EmptyBuffer
  /\ turn = "compiler"
  /\ greeted = FALSE
  /\ impatient = FALSE

Replies == LinesOf(got.data)
IsHello(line) == line # <<>> /\ line[1] = "HELLO"
IsError(line) == line # <<>> /\ line[1] = "ERROR"

-----------------------------------------------------------------------------
(* The compiler.                                                           *)

Blocks == UNION {[1 .. n -> CompilerLines] : n \in 1 .. MaxLines}

\* It starts a turn with a block, cut short if it goes away while sending.
\* The lines of extra are a second block in the same turn.
Send(lines, extra) ==
  /\ turn = "compiler"
  /\ peer_open
  /\ ~impatient
  /\ asked' = lines
  /\ impatient' = (extra # <<>>)
  /\ greeted' = (greeted \/ \E i \in DOMAIN Replies : IsHello(Replies[i]))
  /\ got' = EmptyBuffer
  /\ turn' = "builder"
  /\ from' = Block(lines) \o (IF extra = <<>> THEN <<>> ELSE Block(extra))
  /\ UNCHANGED <<to, peer_open, server_vars>>

Receive(n) ==
  LET r == ReadSome(got, SubSeq(to, 1, n)) IN
  /\ turn = "builder"
  /\ peer_open
  /\ n <= Len(to)
  /\ to' = SubSeq(to, n + 1, Len(to))
  /\ got' = r.buffer
  /\ turn' = IF r.err = "EAGAIN" THEN "builder" ELSE "compiler"
  /\ UNCHANGED <<from, peer_open, server_vars, asked, greeted, impatient>>

\* It goes away; the last symbols it sent may not have been sent at all.
Leave ==
  /\ peer_open
  /\ peer_open' = FALSE
  /\ \E n \in 0 .. Len(from) : from' = SubSeq(from, 1, n)
  /\ UNCHANGED <<to, server_vars, env_vars>>

-----------------------------------------------------------------------------

SomeRead    == \E n \in 1 .. Len(from) : ReadStep(n)
SomeWrite   == \E n \in 1 .. PipeCapacity : WriteStep(n, PipeCapacity)
SomeReceive == \E n \in 1 .. PipeCapacity : Receive(n)

ServerStep ==
  /\ \/ SomeRead
     \/ ReadFails
     \/ ProcessLine
     \/ Abort
     \/ PrepareResponses
     \/ SomeWrite
     \/ WriteError
     \/ PrepareForRequests
  /\ UNCHANGED env_vars

CompilerStep ==
  \/ \E lines \in Blocks : Send(lines, <<>>)
  \/ \E line \in CompilerLines, extra \in ExtraLines : Send(<<line>>, <<extra>>)
  \/ SomeReceive
  \/ Leave

Next == ServerStep \/ CompilerStep

Spec == Init /\ [][Next]_vars

\* The builder's loop keeps calling, and a compiler that waits for responses
\* reads them.  Nothing makes it send, or leave.
FairSpec == Spec /\ WF_vars(ServerStep) /\ WF_vars(SomeReceive)

-----------------------------------------------------------------------------
(* Properties.                                                             *)

Received == turn = "compiler" /\ asked # <<>>

\* "Every request has a response" (README.md:60), and only one: while the
\* block is processed, there are as many response lines as lines consumed,
\* whatever the lines are and whoever answers, library or resolver.
OneResponsePerLine ==
  direction = "PROCESSING" =>
    Len(LinesOf(Append(write.data, NEWLINE))) =
      (IF write.data = <<>> THEN 1 ELSE 0)
        + Cardinality(NewlinesUpTo(read.data, read.bol))

\* "In corresponding order" (README.md:52-53): the i-th line of the response
\* block answers the i-th line of the request block, with a verb that the
\* request allows or with an error, also when the compiler ran two blocks
\* together and Read cut the second off with EINVAL (buffer.cc:208-215).  Blank
\* lines have their responses too, errors, where README.md:71-72 has them ignored.
ResponsesCorrespond ==
  Received =>
    /\ Len(Replies) = Len(asked)
    /\ \A i \in DOMAIN asked :
         \/ IsError(Replies[i])
         \/ /\ Replies[i] # <<>>
            /\ asked[i] # <<>>
            /\ Replies[i][1] \in ResponseVerbs(CodeOf(asked[i][1]))

\* The handshake comes first and once (cody.hh:445, "All othe requests will
\* result in errors, until handshake is succesful"): a response other than
\* ERROR comes only after a HELLO came back, in this block or before, and
\* HELLO never comes back twice on a connection.
HandshakeFirstAndOnce ==
  Received =>
    \A i \in DOMAIN Replies :
      LET before == greeted \/ \E j \in 1 .. i - 1 : IsHello(Replies[j])
      IN  ~IsError(Replies[i]) => (before # IsHello(Replies[i]))

\* The builder believes in a connection exactly when it told the compiler
\* (server.cc:291-300): at the end of a turn the two agree, so a refused or
\* misunderstood handshake leaves nothing behind.
AgreeOnConnection ==
  Received /\ ~impatient =>
    (is_connected <=> greeted \/ \E i \in DOMAIN Replies : IsHello(Replies[i]))

\* Responses are not commenced eagerly (README.md:53-55): what the server
\* has to say stays in its buffer until the request block has ended and the
\* last of its lines has been consumed.
NotEager ==
  [][Len(to') > Len(to) =>
       /\ read.data # <<>>
       /\ EndsBlock(read.data, Len(read.data))
       /\ IsAtEnd(read)]_vars

\* A compiler that stays cannot make the builder trip, whatever it sends: the
\* Assert of Lex (buffer.cc:231) fails only when the compiler left in the
\* middle of a line, with the front of a block behind it and nothing else, and
\* then none of the lines before it has been dealt with.
AbortsOnlyWhenCut ==
  direction = "PROCESSING" /\ open /\ ~IsAtEnd(read) /\ ~Lexable(read) =>
    /\ ~peer_open /\ from = <<>>
    /\ \A i \in 1 .. Len(read.data) : ~EndsBlock(read.data, i)
    /\ read.bol = 0 /\ write = EmptyBuffer

\* A builder never waits while its compiler does (README.md:52-58): if the
\* compiler has nothing to read, the builder has something to read, to process
\* or to write, also when it was sent two blocks together.
NeverWaitsInVain ==
  turn = "builder" /\ peer_open /\ to = <<>> =>
    /\ open
    /\ \/ direction = "PROCESSING"
       \/ direction = "WRITING" /\ Unwritten(write) # <<>>
       \/ write = EmptyBuffer /\ from # <<>>

\* A compiler that waits gets its responses, or goes away.
TurnEnds == (turn = "builder") ~> (turn = "compiler" \/ ~peer_open)

-----------------------------------------------------------------------------
(* What the documentation says, and the code does not do.                  *)

\* "Assert (buffer.back () == S2C(u8"\n"))" (buffer.cc:231): the buffer ends
\* with a newline whenever there is a line to lex.
LexMayLookAhead ==
  direction = "PROCESSING" /\ open /\ ~IsAtEnd(read) => Lexable(read)
=============================================================================
