# Verification of libcody

libcody lets a compiler ask a builder about C++ modules while it compiles. The
compiler is the client: it sends a *block* of request lines over a pair of
descriptors and waits for a block of response lines. The protocol is
turn-based, and README.md of the library states what it promises. This project
models that protocol as the library's code implements it, from the octets of a
word to a session of two processes, checks the models with TLC on small
instances, and proves for every instance, with TLAPS, the safety of all of it:
the transfer of a block, a server against any compiler, a client against any
builder, a session of the two, the octets of a line and the names of CMIs, and who
owns what in the network helpers. The
transfer and the session are also proved to implement what they promise, stated
as specifications of their own.

Paths and line numbers are those of the library's sources. `PROJECT.json` has
the lines of code each definition stands for.

## Inventory

| component | state | operations | talks to |
|---|---|---|---|
| message buffer (`buffer.cc`, `cody.hh`) | `buffer`, `lastBol` | `BeginLine`, `AppendWord`, `PrepareToWrite`, `Write`; `PrepareToRead`, `Read`, `Lex`, `IsAtEnd`, `LexedLine` | file descriptors |
| quoting codec (`Append`, `Lex`, `LexedLine`) | none | quote a word, lex a line, return it as it was | message buffer |
| protocol tables | none | verbs, codes, response lines | client, server |
| client (`client.cc`) | two buffers, `corked`, `is_connected` | one call for each request, `Cork`, `Uncork` | server, by channel or direct |
| server (`server.cc`) | two buffers, `resolver`, `is_connected`, `direction` | `Read`, `ProcessRequests`, response functions, `PrepareToWrite`, `Write`, `PrepareToRead`, `DirectProcess` | client, resolver (callbacks) |
| resolver (`resolver.cc`) | none of its own | virtual functions, one for each request; `GetCMIName` | server (calls it back), file system |
| packet (`packet.cc`) | a variant: code, request, value | create, move, destroy | compiler |
| network helpers (`netclient.cc`, `netserver.cc`) | a descriptor, an address list, an error string, `errno` | open or listen | system calls |
| failure reporting (`fatal.cc`) | none | print and abort | everything |

A client may also be made with a pointer to a server. It is *direct* then: its
calls run the server in the same thread, and the two swap their buffers.

The library has no threads. What is concurrent are the two processes, and what
is asynchronous is the channel: it holds a bounded number of octets, `write(2)`
may take part of a block, `read(2)` may give part of one, and either process
may go away in the middle. The behaviours that are hard to test follow:

* **where a block ends.** A block ends at a newline that no `;` stands before.
  `Read` decides this on what has arrived so far, which may end between the two.
* **one field, two meanings.** `lastBol` is the start of the line being composed
  or lexed, and the position reached while writing.
* **correspondence.** Nothing in a response names its request. The i-th line
  answers the i-th request, so one line too many or too few, or a queue of
  codes that does not match the lines in the buffer, shifts everything after it.
* **turns.** Neither end reads while it writes. A response begun too early
  can leave both ends writing into full channels.
* **the handshake**, kept in a flag at each end, set as a side effect.
* **callbacks.** A resolver may answer, fail, or do both.
* **buffers that change hands.** A direct call gives each end a buffer that the
  other used before, and never turns the server's direction around.
* **octets.** Quoting, lexing and `Read` each look at octets, with different
  rules for the same ones; `char` may be signed.
* **fail paths** that are entered from several places with different things in hand.
* **going away** at any point of a block, and calls that still have to return.

`PROJECT.json` lists each of these, and the smaller ones, as hazards, at the
line where it bites, with the properties that cover it.

What makes each component correct:

* *message buffer:* what goes in comes out, whole or not at all, however the
  channel cuts it; nothing is taken for the end of a block but its end.
* *server:* one response for each request, in order, of a fitting kind, after
  the block has ended; nothing but errors before a handshake, one handshake; a
  compiler that stays cannot make the builder abort.
* *client:* a packet for each request, made from its own response; bad
  responses do not spoil good ones; a batch leaves nothing behind; calls return.
* *codec:* a line means what the encoding rules say, a word that was quoted comes
  back, and recovery from a bad line ends at its newline.
* *CMI names:* inside the repository, and telling modules and header units apart as
  far as the replaced characters let them.
* *network helpers:* nothing leaks, nothing is freed twice, failures are told.
* *session:* the ends never write at once, agree about the connection, never
  complain about each other, leave nothing behind between calls, and notice when
  the other has gone.

## Modules

| module | models | how it corresponds to the code |
|---|---|---|
| `MessageBuffer` | class `MessageBuffer` | operators on `[data, bol]`, the fields `buffer` and `lastBol` |
| `BlockTransfer` | one block from a sender to a receiver | one action for each call: a composed line, `PrepareToWrite`, one `write(2)`, one `read(2)`, one `Lex` |
| `BlockChannel` | what that promises | abstract: a block is sent, then delivered whole, or the channel breaks |
| `MessageBufferProofs`, `ProtocolProofs` | - | lemmas about the operators on buffers and blocks, and on what the two ends share |
| `BlockTransferProofs` | - | the proofs about `BlockTransfer` |
| `Protocol` | what client and server share | `requestTable`, response lines, `ParseUnsigned` |
| `Server` | class `Server`, class `Resolver` | one action for each outcome of a line in `ProcessRequests`, one for each other call of the builder's loop |
| `AnyCompiler` | a server against any compiler | composes `Server` with an environment |
| `AnyCompilerProofs` | - | the proofs about it, of one line and of a turn |
| `Client` | class `Client` | one action for each call of the compiler; in it, one for each `write(2)`, `read(2)` and parsed response |
| `AnyBuilder` | a client against any builder | composes `Client` with an environment |
| `AnyBuilderProofs` | - | the proofs about it |
| `Session` | client and server | instances of both over two channels, or direct: `is_direct` says which |
| `TurnBased` | what a session promises | abstract: batches of requests, batches of answers |
| `SessionProofs` | - | the proofs about `Session` |
| `Octets` | the quoting codec | operators on octets; `Lex` as an automaton with one operator for each place in the code that looks at an octet |
| `CMINames` | `GetCMIName` | operators on octets |
| `AnyLine` | a peer that writes a line | environment: one action for each way to encode an octet, and for each way to get it wrong; the properties apply `Octets` and `CMINames` to what it wrote |
| `AnyLineProofs` | - | the proofs about the codec and the names of CMIs |
| `Sockets` | the network helpers | one action for each system call and each way it turns out, `pc` says where in the helper |
| `SocketsProofs` | - | the proofs about `Sockets` |
| `MC...` | - | values of the constants for TLC |

### The abstraction of octets

A maximal run of octets without white space is one symbol, a newline is one,
white space is left out. The alphabet keeps what `Read` and `Lex` tell apart
and disagree about: words that lex; the word `;`; words that do not lex and end
in `;`, which `Read` takes for a continuation and `Lex` does not; other words
that do not lex. Reads and writes stop between any two symbols. Stopping inside
a word gives the same states as stopping before it, one call later, because
`Read` looks only at newlines and at the octet before each.

What quoting does inside a word is in `Octets`, and the run `Lines` is what
justifies the symbols: `QuotedWordsReturn` says that a word below 0x80 that is
quoted lexes as itself and never ends a block, so it may be one symbol;
`LexDecodes` says that a line that does not lex costs that line and nothing else;
`ReadAndLexAgree` says that a well-formed line cannot make `Read` and `Lex`
disagree. That leaves the words the library sends without quoting, and lines
that do not lex, and those have symbols of their own.

Error messages keep the wording that tells errors apart and lose the quoted
request behind it. Numbers are the words `""`, `"0"`, `"1"`, `"2"`.

### The environments

The library is used by code that is not part of it, and the properties of one
end should not need the other to be the library. `AnyCompiler` sends any block
of the given lines, among them unknown verbs, wrong numbers of words, broken
quoting and blank lines, and may run two blocks together, after which it waits.
`AnyBuilder` replies to a block with any of the given lines, perhaps one too few
or one too many, or with two blocks. Both may go away at any time, and then a
part of what they were sending is lost.

The builder's loop is that of the tests (`tests/02-comms/server-1.cc:56-67`),
repeated: `Read` until it returns something other than `EAGAIN` and `EINTR`,
`ProcessRequests`, `PrepareToWrite`, `Write` likewise, `PrepareToRead`. The first
loop does not ask what `Read` returned: at end of file, and on an error such as
`ECONNRESET`, it leaves as it does with a whole block and has processed what earlier
reads brought (`ReadFails`). That may be nothing, or lines of a block whose end has
not come, or half a line, and at half a line the Assert of `Lex` ends the builder
(`Abort`). One thing is decided here because the tests stop after one block: a
builder that gets an error from `Write` drops the connection. A write to a peer that
has gone is an error (`EPIPE`, with `SIGPIPE` ignored), and a read fails only when the
peer has gone.

The peer of `AnyLine` knows the encoding rules of README.md:64-107 and nothing of
the code: it keeps the words it means beside the octets it writes. It makes two kinds
of mistakes. `Wrong` writes what no reading of the rules allows, and `Lex` has to
refuse the line. `Disputed` writes what the rules accept and `Lex` refuses: octets
from 0x80 up, and outside quotes DEL and a `;` inside a word. There the properties say
what becomes of a line that is refused, and the runs `UnquotedOctets` and `Utf8`
that it should not have been. Where the rules forbid what `Lex` accepts, a backslash
outside quotes for one, they speak of what a peer should write, and the peer does not
write it.

A program that uses the network helpers calls any of them at any time, keeps
what it gets and closes it when it likes. Every system call may fail. A
descriptor that `socket(2)` gives is any that is not open. `getaddrinfo` gives
addresses of the family and type it was asked for. Once a list has been freed
twice the model stops, as nothing can be said of the program after that.

A resolver is a set of outcomes for each request: the default class, with the
file system's answer a choice; *derived*, everything a class may do that keeps to
the interface (answers and returns 0, or does not answer and returns an errno
or -1; accepts a handshake, perhaps for another resolver, or refuses it, or
returns `nullptr`); and the two classes of `pivot-1.cc`.

## Runs

| run | instance | states | what it shows |
|---|---|---|---|
| `BlockTransfer` | 3 lines of up to 3 words, channel of 3 symbols | 6 thousand | a block arrives whole and once or the receiver knows; neither end is ever stuck; implements `BlockChannel`; `BlockArrives` |
| `Server` | blocks of up to 2 of 13 lines, channel of 4 | 1.4 million | one response per line, in order, never eager; the handshake; the builder aborts only where the compiler left in the middle of a line; a compiler that waits is answered |
| `Client` | HELLO, MODULE-REPO, INVOKE and a module call, up to 2 corked, channel of 4 | 0.5 million | queue, packets and connection flag; calls return |
| `Session` | HELLO, MODULE-REPO, INVOKE and INCLUDE-TRANSLATE, up to 2 corked, channels of 2, or direct | 0.8 million | turns, agreement, nothing left behind, no protocol errors, no deadlock; each step of a call gets nearer to its end; implements `TurnBased`; calls return, the builder stops |
| `Lines` | lines of up to 5 pieces, plain ones up to 7 octets | 0.2 million | lexing, quoting, `LexedLine`, CMI names |
| `Sockets` | 2 descriptors, names with up to 2 addresses | 4 thousand | ownership and explanations on every path |

Each property has a mutation in the modules (an operator marked *Mutation*) that
changes one definition the way a plausible bug would and makes the property fail.

### Why the bounds are enough

Two lines in a block are the least that has a first, a last, a continuation
between them and an order to get wrong; three, in `BlockTransfer`, have a line
that is neither. A channel of two symbols is smaller than every block of two
lines, so every block is cut in every run; one of three or four lets a read end
on either side of the `;`, and hold the end of one block and the start of the
next. The lines given to `AnyCompiler` have each verb in a form the
server accepts and, for the forms it rejects, one for each way of rejecting it.
Two corked requests are the least in which a code and a line can be paired
wrongly. A connection once made stays, so two handshakes are the least that
matter; the runs are not bounded in the number of turns.

Five pieces are the least that open a quote, write an escape of one digit and what
follows it, close the quote and abut a plain octet; seven plain octets are the
least that hold `/../..` and one more. The letter `a` is plain and a hex digit, so
it can end an escape or be taken into it; the octets are one of each class that
`Append`, `Lex` or `Read` tells apart, with those on either side of 0x7f. Two
addresses are the least in which one fails and another one follows; two
descriptors the least in which the program holds one while it asks for the next.

### Deadlock

`BlockTransfer` is checked for deadlock: it stutters only when the block has been
dealt with. The others turn the check off because the systems may really stop:
both processes gone, or an environment that chooses to say nothing more, a line
at its bound, or a program that freed a list twice.

What those runs cannot see in a deadlock of TLC's is stated as invariants, for the
states where nothing may stop: `NeverStuck`, of a transfer; `NeverWaitsInVain`, of a
server and of a client whose peer owes them nothing; `NoDeadlock`, of a session that has
a call under way and both processes, where `ClientGoesOn` and `ServerGoesOn` are the
guards of the steps that each loop would take next.

### Fairness

Each process is one thread that runs a loop. Weak fairness of one of its steps as
a whole (`ServerStep`, `Communicates`, `ClientThread`, `Serves`) says that a
process which can go on does so; descriptors are blocking, or are polled. `AnyCompiler` reads the
responses it waits for, since the protocol asks that of it; `AnyBuilder` responds
to a block it has. Nothing is assumed of when a compiler makes a call, starts a
block, or finishes composing one, nor that a process ever goes away. A resolver is
assumed to return.

## What the documentation says and the code does not do

Six runs expect a violation. Each is an ordinary behaviour of the code.

* `PivotHandler`: README.md:60 says that every request has a response. The
  resolver of `tests/02-comms/pivot-1.cc:37-38` answers and returns `nullptr`, and
  `server.cc:117-120` answers again.
* `UnquotedArguments`: `client.cc:263` does not quote the arguments of `INVOKE`. A
  last argument `;` makes the block endless and the call does not return.
* `ErrorRequestCode`: README.md:116 says that packets record their request.
  Packets for errors do not (`client.cc:123-133`).
* `Utf8`: README.md:94-96 says that octets from 0x80 up are UTF8 and passed as such.
  `Append` passes them (`buffer.cc:93-104`), `Lex` takes them for malformed, quoted
  or not (`buffer.cc:258`, `290`). A file name with an accent is sent, and rejected.
* `UnquotedOctets`: README.md:97-99 says that unquoted words of octets in [0x20,0xff]
  other than the backslash and the apostrophe should be accepted. `Lex` refuses
  those from 0x7f up (`buffer.cc:258`) and a `;` inside a word (`buffer.cc:249-253`).
  The property leaves out what the rules make something else of: spaces
  separate words, and a `;` on its own is a continuation.
* `PartialBlock`: `buffer.cc:231` asserts that a buffer that is lexed ends with a
  newline. `Read` does not see to it (`buffer.cc:192-197`), and neither do the
  loops around it (`tests/02-comms/server-1.cc:56-60`, `pivot-1.cc:60-64`): a compiler
  that goes away in the middle of a line makes the builder abort. That this is the
  only way is the passing property `AbortsOnlyWhenCut`.

Four passing runs pin down what the code does where it does something else.

* `Server`: README.md:71-72 says that blank lines are ignored. The server answers them
  with an error (`server.cc:134`), so that a compiler that expects nothing for them is
  out of step. `ResponsesCorrespond` counts them among the lines.
* `Client`: `cody.hh:362` and the tests `connect.cc` and `client-1.cc` say that the packet
  of a handshake holds the version. It holds the flags (`client.cc:224-230`), as
  `cody.hh:452` says, and `PacketsCorrespond` says which.
* `Lines`: `cody.hh:142-145` says that `LexedLine` appends the line. When that is the
  first of the buffer, and empty, it looks at the two octets before the buffer's
  storage (`buffer.cc:380`). If a ` ;` is there, the length it appends is -2, and the
  string throws. (Behind a bare `;` it looks at one of them.) `LexedLineIsTheLine` says
  that, and that no other line with its continuation written ` ;` depends on what lies there.
* `Sockets`: in `ListenInet6` a `listen` that fails frees the list of addresses a
  second time, because `netserver.cc:141` frees it without resetting `addrs` and the
  fail path looks at `addrs` (`netserver.cc:95-96`). `FreedOnceUnlessListenFails` is as
  strong as it can be; setting `addrs` to null there would make "never freed twice" an
  invariant.

## Proofs

### The buffer

`MessageBufferProofs` and `ProtocolProofs` hold what the other proofs need to know of
the operators, for every alphabet that keeps the classes of symbols apart
(`AlphabetAssumption`). A block is described by a `Layout`: where each of its lines
starts, and that between two starts there is the line and then either a newline or,
for all but the last, a continuation and a newline. The lemmas say that composing
lays out what was appended (`AppendLineLaysOut`), that a finalized block is `Framed`,
that is, its end is at its last symbol and nowhere else (`PrepareToWriteFrames`,
`BlockOfLines`), that a write sends the next piece of it (`WriteStarts`), that `Read` on such pieces
stops exactly at its end (`ReadSomeStarts`, `ReadStarts`), that `Lex` at a line of a layout gives that line and moves to
the next (`LexOfAnyLine`), and that a layout has one sequence of lines, those of
`LinesOf` (`LinesOfLayout`). What two ends have of a block between them is two
consecutive pieces of it, and stays so when one sends or receives (`SendPiece`,
`ReceivePiece`). `Told` is a buffer that is composed of given lines, the way a queue or
a block of responses grows: by one line at a time (`TellOneMore`) until it is a block
(`ToldIsBlock`).

### The transfer of a block

`BlockTransferProofs` proves, for every alphabet, every set of lines, every length
of a block and every capacity of the channel:

| theorem | property |
|---|---|
| `TypeCorrect` | `TypeOK` |
| `ReadIsTruthful` | `ReadTellsTheTruth`: `NeverMalformed`, `CompleteMeansWhole`, `EofMeansCutShort` |
| `ContentsArePreserved` | `ContentsPreserved`: `NothingLostInFlight`, `LinesPreserved` |
| `ReceiverNeverStuck` | `NeverStuck` |
| `TransferAdvances` | `EachStepAdvances` |
| `TransferImplementsChannel` | `ImplementsBlockChannel` |

The assumptions are those of the modules: the classes of symbols are disjoint
(`AlphabetAssumption`), lines are not empty and are made of words
(`LineAssumption`), the bounds are positive (`SizeAssumption`).

The argument. None of the properties is inductive: that the receiver never sees a
malformed block depends on what the sender put into it, long before. `IInv` adds
what connects them:

* `SenderInv`: while a block is composed, every newline in it stands behind a `;`
  and its last symbol is a word; so once finalized it is `Framed`. While it is
  written, `bol` counts what has been sent.
* `Pieces`: what has been read, then what is in the channel, are two consecutive
  pieces of the block, from its start.
* `ReceiverInv`: how much of the block each state of the receiver holds.

From the first two, `Read` on any piece asks for more or is at the very end. There
is a lemma for each action, and `NextIInv` puts them together. `LinesInv` says on top
of it where the lines are in the block and how far the receiver is in them; with it
the lines that come out are those that went in, and each step of the transfer is a
step of `BlockChannel` or a stutter (`StepIsAbstract`).

That a receiver with an empty channel has not got the last symbol of the block comes
from the same invariant: what it has read is a proper piece of the block, as `Read` would
have noticed the whole (`ReadStarts`), so there is a rest, and the rest is in the
channel or behind `bol`. `Remaining` counts what is left to do. That it shrinks with each
step is where the place each loop has reached matters: a write moves as many
symbols as it counts (`UnwrittenPiece`), and `Lex` takes one line, never none.

### A server and any compiler

`AnyCompilerProofs` proves, for every alphabet, every set of lines a compiler may send,
well-formed or not, every length of a block and every capacity of the pipes:

| theorem | property |
|---|---|
| `AbortsOnlyOnCutBlocks` | `AbortsOnlyWhenCut` |
| `ResponsesAreNotEager` | `NotEager` |
| `EveryLineHasOneResponse` | `OneResponsePerLine` |
| `ResponsesDoCorrespond` | `ResponsesCorrespond` |
| `HandshakeIsFirstAndOnce` | `HandshakeFirstAndOnce` |
| `BothAgreeOnConnection` | `AgreeOnConnection` |
| `CompilerNeverWaitsInVain` | `NeverWaitsInVain` |

The assumptions: the words the library itself sends lex (`WordAssumption`), and a block
ends where its compiler meant it to, so its last word is not `Glued`
(`LinesAssumption`); a compiler that ends a block in such a word waits for ever.
The last five have one hypothesis more, `InitialResolver \subseteq Contract`: the
resolver is the default one or a derived one that keeps to the interface. Without it
they are false, which is what the run `PivotHandler` shows.

The argument. `SafetyInv` says what the buffers hold in each direction of the
server: nothing to write while it reads, a block with its end in `read` and a composed
prefix in `write` while it processes, a framed block while it writes. Or `read` is `Cut`:
the compiler has gone, nothing of what it sent is left in the pipe, and the end of the
block never came. A cut block that ends with a newline is processed like any other;
one that does not aborts at its first line, when nothing of it has been passed.
That is all the first two need. `CountInv` adds that `write` has one line for each newline `Lex` has
passed; `LineAnswered` goes through every outcome of a line, and every resolver in
the contract, to show that each makes exactly one response, of a fitting kind.
`TurnInv` follows one block around. It is `Asking` while it is on its way to the server,
`Processing` with a response for each of its first lines, `Responding` while these are
written, `Responded` when the compiler has yet to read some of them, and `Idle` when
all is quiet; each says where the block and its responses are, in which buffers and
pipes, and that the flag of the server agrees with the handshakes among the
responses. A compiler that does not wait for its responses (`impatient`) weakens
what can be said of the pipes and nothing else. For `NeverWaitsInVain`, `Asking` also says
that the server and the pipe to it hold no less than the block; what the server
has read so far is not a block, so the rest is in the pipe, and with an impatient
compiler the second block is behind it. `SafetyInv`, `CountInv` and `TurnInv`
were checked with TLC on the instance of `MCAnyCompiler` before they were proved.

### A client and any builder

`AnyBuilderProofs` proves, for every alphabet, every set of lines a builder may send
in any number, every length of a batch and every capacity of the pipes:

| theorem | property |
|---|---|
| `QueueAlwaysMatchesBuffer` | `QueueMatchesBuffer` |
| `RequestsDoArrive` | `RequestsArrive` |
| `PacketsDoCorrespond` | `PacketsCorrespond` |
| `FaultsStayContained` | `FaultsAreContained`: `GoodResponsesSurvive`, `MiscountNoticed` |
| `ConnectedOnlyByHandshake` | `ConnectedByHandshake` |
| `ClientNeverWaitsInVain` | `NeverWaitsInVain` |
| `ClientStaysTyped` | `ClientTypeOK`, which types the client's state |

The assumptions: the words the library itself sends lex (`WordAssumption`,
`ClientAssumption`), and a block ends where its builder meant it to
(`BuilderAssumption`). All have the hypothesis `Arguments \subseteq Seq(Word)`, that
the arguments of `InvokeSubProcess` need no quoting: it does not quote them
(`client.cc:263`), and the run `UnquotedArguments` shows what becomes of the requests
when they do.

The argument. `IInv` is the types and `CallInv`, which follows one batch around.
`Idle`: what the client has queued and what its buffer holds are the same requests,
and the packets of the last batch tell what their responses said. `Writing`: a framed
block of the requests is partly behind `bol`, in the pipe or heard. `Waiting`: the
builder has it, or the rest of it is in the pipe. `Answered`: the builder's lines, a
framed block too, are in the pipe and in `read`. `Parsing`: `read` stands at one of
those lines, and each packet made so far `Tells` of the line at its own place, with the
request at that place. The flag `is_connected` is set when the builder has greeted or
when a packet of this batch did. `ResponseTells` goes through every verb a response may
have against every request it may answer; `NextPacketTells` adds the lines that are
missing, superfluous or do not lex; `OnePacket` that a step of `ParseResponse` makes
one packet, the next one. A builder that speaks out of turn (`chatty`) weakens what is
known of the pipe once the call is over, and nothing else. For `NeverWaitsInVain`,
`Answered` also says that the client and the pipe hold no less than the block of the
builder's lines, of which the client has read a proper piece. `IInv` was checked with TLC
on the instance of `MCAnyBuilder` before it was proved.

### A session

`SessionProofs` proves, for every alphabet, every length of a batch and every capacity
of the channels, for a session over channels and for a direct one:

| theorem | property |
|---|---|
| `SessionTypeOK` | `TypeOK` |
| `TurnsAreTaken` | `TurnsDoNotCross` |
| `CallsLeaveNothing` | `NothingLeftBehind` |
| `SessionErrorsAreGenuine` | `ErrorsAreGenuine`: `NoProtocolErrors`, `ErrorMeansGone` |
| `ConnectionAgreed` | `ConnectionAgreement` |
| `SessionNeverDeadlocks` | `NoDeadlock` |
| `CallsAdvance` | `CallAdvances` |
| `SessionImplementsTurnBased` | `ImplementsTurnBased` |

The assumptions are those of both ends: the classes of symbols are disjoint
(`AlphabetAssumption`), the words the library sends lex (`WordAssumption`, and
`SessionAssumption` for the words its calls are given). All have the two hypotheses
that the proofs of the ends have one each of, and for the same reasons:
`Arguments \subseteq Seq(Word)` (the run `UnquotedArguments`) and
`InitialResolver \subseteq Contract` (the run `PivotHandler`).

What is new here is that neither end is an environment any more. The proofs of one
end let the other send anything, and promise less for it; here each end gets
only what the other one makes, and the invariant has to say what that is. `IInv`, which holds while the compiler is there, is
the types, `DirectInv` (without channels nothing is in them, and the server never
writes), `ErrorsInv` (which errors there can be) and `CallInv`, which follows
one batch around. `Idle`: the queue and its buffer agree, and the server rests.
`Writing` and `Waiting`: a framed block of the requests lies partly behind `bol`, in
`c2s` and in what the server has `Heard`. `Processing`: `sread` stands at one of the
requests, and `swrite` holds a response for each one before it. `Responded`: a framed
block with a response for each request is partly behind `bol`, in `s2c` and in `cread`.
`Parsing`: `cread` stands at one of the responses, and the packets so far `Tell` of
those before it. Through all of it the server is connected exactly as the client was
when the batch began or a HELLO among the responses so far says; the client
follows, one packet at a time.

When the compiler has gone, the builder may process the front of a block, or have
lost the rest of it to an error, so that little of `CallInv` is left. `GoneInv` keeps what
the properties still need: the types and the errors, that a connected client has a
connected server, and that between calls nothing was under way. `SessionInv` says
that one or the other holds, and `CompilerGoesGone` is the step between them. That a
builder whose compiler stays does not abort is `RequestsAreLexable`.

Most steps of one end keep what is said of the other. The ones that do not have a
lemma each; `ProcessLineIInv` serves the builder's loop and the direct call alike, as
`ProcessRequests` does. `LineAnswered` goes through every outcome of a request with
every resolver in the contract: one response, either an error or a success that fits
the request, and never a success on the wrong side of the handshake. `SuccessTells` and
`ParseStep` go the other way, from such a response to a packet the client does not
complain about.

`NoDeadlock` takes the parts of `CallInv` one by one. While the client writes, it has
something to write and the channel has room for it, or the server has something to
read; while it waits, either end of the block of requests has the rest of it, or the
server has lines to process, or the same holds for the block of responses. The channel's
room is the only hypothesis, `PipeCapacity > 0`.

`CallAdvances` says that this leads somewhere. Each symbol of a request is written, read
and lexed, and each time it weighs less: 4 behind `bol` in `cwrite`, 3 in `c2s`, 1 in
`sread`. The same goes for the responses with 3, 2 and 1. The place each loop has
reached weighs 1, for the steps that move no symbol. `ProcessLine` adds responses, but
takes a request away, so the two sums are compared one after the other. `WriteTakes`,
`ReadGives` and `LexTakes` say what a call of the buffer moves, and there is a lemma for
each action that uses one. `IInv` is needed to know that a buffer that is read into is
read from its start, that the one lexed has a line left, and that what is written is what
was counted. With `NoDeadlock`, a call over channels returns after finitely many
steps of the two loops; what remains for fairness is that the loops do take them.

For the refinement, the abstract connection is the one before the batch: the client's
flag, without the packets of a batch that is not over. `Communicate` is the abstract
`Ask`, the last `ParseResponse` is `Answer`, a failure is `Break`, and a corked request
or an `Uncork` of nothing is `Forget`, which drops what the last batch gave; everything
else, but for the end of the builder, is a stutter, as a step of the server or of the
channels must be. There is a lemma for each part of `Next` (`CallsImplement`, `CommunicatesImplement`, `ParsesImplement`, and so on).
An executable form of `IInv` was checked with TLC on the instance of `MCSession` before
it was proved.

### The octets of a line, and the names of CMIs

`AnyLineProofs` proves, for lines of any length, words of any length and every choice
of octets a peer may write in each place (`AnyLineAssumption`: plain octets are
printable and are neither a quote, a `;` nor a space, and so on):

| theorem | property |
|---|---|
| `LexDecodesLines` | `LexDecodes` |
| `ReadAgrees` | `ReadAndLexAgree` |
| `LexedLineReturns` | `LexedLineIsTheLine` |
| `QuotedReturn` | `QuotedWordsReturn` |
| `CMIsInside` | `CMIInsideRepository` |
| `CMIsTellNames` | `CMIsDistinct` |

The argument. `IInv` says that `Lex`, given the octets written so far, is where the
peer is in the grammar and has the words the peer means, and, as `Read` relies on it,
that a line that could end here does not end in a `;` (`EndsWell`). The peer's places
and the modes of the automaton are not the same. Behind an escape of one digit the
peer means an octet that `Lex` has not yet stored. In a line that is `Wrong` or
`Disputed`, `Lex` has found the error and the words are left open; the invariant may say
so of both, where the property asks it only of the first. There is a lemma for each action, and one for each mode of
`Lex` (`UnquotedOctet`, `QuotedOctetOf`, `EscapedOctet`, `DigitsOctet`,
`ContinuedOctet`, put together in `LexOneOctet`). With the invariant, `LexWhole` and
`LexBlock` follow `Lex` over the continuation and the newline of a line, whatever its
state is there, and `LexBoth` over the line behind. `LexedLineIs` looks for the start of
the line that was lexed and at the two octets before its end, and needs of those that
lie outside the line only what `Harmless` says. For a line behind another one, the octet
before it is a newline, which no continuation holds; for the first one, an octet of its
own is between the newline and what lies before the buffer, unless it is empty. `IInv` was checked with TLC on the
instance of `MCAnyLine` before it was proved.

`Quoted`, `AppendLine` and `Lexed` are loops over data of any length. They are written
as recursive functions, and `Iteration` shows that a loop over the numbers up to n has
the function that recursion describes; then claims about it are proved with `UpTo`:
a set that has 0, and with each number below n the next one, has them all. Both come
from `LeastNumber`, that a set of numbers has a least element. For what the library
quotes, `EscapedReturns` follows `Lex` over one octet within quotes, `BareReturns` and
`QuotesReturn` over a word, `LineReturns` over a line (`LineText` also says that it
does not end in a `;`), and `BothLinesReturn` and `OneEnd` look at the block
of two such lines.

The CMI properties need no more of the invariant than that the name is a sequence of
octets. `NoDotDot` says why the repository is not left: a component of the path that
is two dots is not the first one, which is a `.` or a `,`, nor the last one, which ends
in the suffix, so it has a separator on either side, and the dots of every such one are
replaced (`DotsFound`). `HeaderNamed` and `ModuleNamed` undo the
replacements, for the two kinds of names. Two of them cannot be undone: a directory
`,,` of the path may have been one in the name, or `..`, so `/../x` and `/,,/x` share a
CMI, and a `-` may have been a `:`. `CMIsDistinct` says that nothing else is lost: what the
path tells is the name with `..` for every such `,,` (`WithDotDots`), or with `:` for every
`-`, so that names which differ otherwise never meet. `Redotted` is the step that counts:
putting the dots back into the path gives the same as putting them into the name.

### The network helpers

`SocketsProofs` proves, for every set of descriptors and every number of addresses
(`SocketsAssumption`: descriptors are natural numbers):

| theorem | property |
|---|---|
| `NothingLeaks` | `OwnsOnlyResults` |
| `FailuresAreExplained` | `FailureExplained` |
| `FreedTwiceOnOnePath` | `FreedOnceUnlessListenFails` |

The argument. Each property speaks of the moment a helper returns, so `IInv` says
what holds on the way there. `DescriptorInv`: every open descriptor is either the
caller's or the one in hand, never both. `ListInv`: a list that is allocated is
the one `addrs` points at, and only between `getaddrinfo` and an exit; on the fail
path, a list that `addrs` points at and that is not allocated can have come from
one place only. `ReasonInv`: what the fail path will tell has been set, and before
that nothing has. `NextIInv` has a step for each action and under it one for each
of these. This `IInv` too was checked with TLC before it was proved.

### Model-checked only

The liveness properties, `BlockArrives`, `TurnEnds`, `CallReturns`, `CallsReturn`
and `BuilderStops`: TLAPS does not reason about fairness and ENABLED here. What they rest
on is proved where it is a matter of safety: that somebody can go on (`NeverStuck`,
`NoDeadlock`, `NeverWaitsInVain`), and that going on gets nearer to the end
(`EachStepAdvances`, `CallAdvances`). Every
safety property of a passing run is a theorem, under the hypotheses named above. The
runs that expect a violation are TLC's alone.

## Not modelled

* what `fstatat` finds (a choice), and builds for Windows or without `fstatat`;
* moving clients and servers: the moved-to object is the same state under another
  name;
* a peer that closes only the direction it writes to, and errors of `read(2)` while
  the peer is there: an end of file means here that the peer has gone;
* builds without `NMS_CHECKING`, where there is no Assert and `Lex` runs on behind the
  buffer;
* the storage of `Packet`, memory management inside one object;
* failure reporting, which prints and aborts, but for the abort itself (`Abort`);
* C++ string ends: names with an octet 0 are words like others here, where `strlen`
  callers would cut them;
* a builder that serves several compilers at a time: each connection is a `Server`
  of its own, and they share only what a derived resolver makes them share;
* a builder that answers later: it may take any number of steps between two lines
  of a block, but `WaitUntilReady` returns at once and response queues of derived
  servers are not in the library;
* what a client that got an error from `Read` should make of a late answer to the
  failed call (`client.cc:91`): nothing says whether it may be used again.

## Plan

What is left:

1. `PacketStorage`: create, move and destroy of the variant, with moved clients and
   servers, if the library comes to promise something about moved-from objects.
