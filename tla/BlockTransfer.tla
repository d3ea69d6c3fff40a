--------------------------- MODULE BlockTransfer ---------------------------
(***************************************************************************)
(* One block of messages going one way: a sender composes lines in its     *)
(* write buffer, finalizes it and calls Write until it stops asking for    *)
(* more; a receiver calls Read until it stops asking for more, and lexes   *)
(* the block line by line.  Both directions of a session, and both ends of *)
(* it, are made of this (Client::CommunicateWithServer, and the loops of   *)
(* the builder around Server::Read and Server::Write).                     *)
(*                                                                         *)
(* The channel is a byte stream of bounded capacity, so write(2) may take  *)
(* part of what it is given and read(2) may give part of what is there.    *)
(* A call that transfers nothing and fails with EAGAIN or EINTR changes    *)
(* nothing, and is a stuttering step.                                      *)
(***************************************************************************)
EXTENDS MessageBuffer, FiniteSets

CONSTANTS LineChoices,   \* the lines a sender may compose
          MaxLines,      \* bound on the lines of the block
          PipeCapacity   \* symbols the channel holds

ASSUME LineAssumption == LineChoices \subseteq Seq(Word) \ {<<>>}
ASSUME SizeAssumption == /\ MaxLines \in Nat \ {0}
                         /\ PipeCapacity \in Nat \ {0}

VARIABLES
  write,     \* the sender's MessageBuffer
  pipe,      \* symbols in flight
  read,      \* the receiver's MessageBuffer
  sender,    \* where the sender is
  receiver,  \* where the receiver is
  lexed,     \* the lines the receiver has lexed
  lines,     \* history: the lines the sender has composed
  block      \* history: the finalized block

vars == <<write, pipe, read, sender, receiver, lexed, lines, block>>

SenderState   == {"composing", "writing", "done", "failed"}
ReceiverState == {"reading", "complete", "malformed", "eof", "failed", "lexed"}

TypeOK ==
  /\ write \in Buffer
  /\ pipe \in Seq(Symbol)
  /\ read \in Buffer
  /\ sender \in SenderState
  /\ receiver \in ReceiverState
  /\ lexed \in Seq(Seq(Symbol))
  /\ lines \in Seq(Seq(Word))
  /\ block \in Seq(Symbol)

Init ==
  /\ write = EmptyBuffer
  /\ pipe = <<>>
  /\ read = EmptyBuffer
  /\ sender = "composing"
  /\ receiver = "reading"
  /\ lexed = <<>>
  /\ lines = <<>>
  /\ block = <<>>

-----------------------------------------------------------------------------
(* The sender.                                                             *)

Compose(line) ==
  /\ sender = "composing"
  /\ Len(lines) < MaxLines
  /\ write' = AppendLine(write, line)
  /\ lines' = Append(lines, line)
  /\ UNCHANGED <<pipe, read, sender, receiver, lexed, block>>

\* Nothing is sent for an empty buffer: MaybeRequest and Uncork communicate
\* only when a request was composed, and a builder that read a line answers.
FinishBlock ==
  /\ sender = "composing"
  /\ lines # <<>>
  /\ write' = PrepareToWrite(write)
  /\ block' = PrepareToWrite(write).data
  /\ sender' = "writing"
  /\ UNCHANGED <<pipe, read, receiver, lexed, lines>>

WriteStep(n) ==
  LET w == WriteSome(write, n) IN
  /\ sender = "writing"
  /\ n <= Len(Unwritten(write))
  /\ Len(pipe) + n <= PipeCapacity
  /\ pipe' = pipe \o SubSeq(write.data, write.bol + 1, write.bol + n)
  /\ write' = w.buffer
  /\ sender' = IF w.err = "0" THEN "done" ELSE sender
  /\ UNCHANGED <<read, receiver, lexed, lines, block>>

\* write(2) fails with another error: the buffer is reset, the rest is lost.
WriteError ==
  /\ sender = "writing"
  /\ write' = EmptyBuffer
  /\ sender' = "failed"
  /\ UNCHANGED <<pipe, read, receiver, lexed, lines, block>>

-----------------------------------------------------------------------------
(* The receiver.                                                           *)

ReadStep(n) ==
  LET r == ReadSome(read, SubSeq(pipe, 1, n)) IN
  /\ receiver = "reading"
  /\ n <= Len(pipe)
  /\ pipe' = SubSeq(pipe, n + 1, Len(pipe))
  /\ read' = r.buffer
  /\ receiver' = CASE r.err = "0"      -> "complete"
                   [] r.err = "EINVAL" -> "malformed"
                   [] OTHER            -> "reading"
  /\ UNCHANGED <<write, sender, lexed, lines, block>>

\* Mutation: a read(2) that gives nothing is taken for the end of file.
ReadEOFWheneverEmpty ==
  /\ receiver = "reading"
  /\ pipe = <<>>
  /\ receiver' = "eof"
  /\ UNCHANGED <<write, pipe, read, sender, lexed, lines, block>>

\* read(2) returns 0: the sender has gone and nothing is left.
ReadEOF ==
  /\ receiver = "reading"
  /\ sender = "failed"
  /\ pipe = <<>>
  /\ receiver' = "eof"
  /\ UNCHANGED <<write, pipe, read, sender, lexed, lines, block>>

ReadError ==
  /\ receiver = "reading"
  /\ receiver' = "failed"
  /\ UNCHANGED <<write, pipe, read, sender, lexed, lines, block>>

LexStep ==
  LET l == Lex(read) IN
  /\ receiver = "complete"
  /\ lexed' = Append(lexed, IF l.err = "0" THEN l.text ELSE <<>>)
  /\ read' = l.buffer
  /\ receiver' = IF IsAtEnd(l.buffer) THEN "lexed" ELSE receiver
  /\ UNCHANGED <<write, pipe, sender, lines, block>>

-----------------------------------------------------------------------------

Write == \E n \in 1 .. PipeCapacity : WriteStep(n)
Read  == \E n \in 1 .. PipeCapacity : ReadStep(n)

\* The block has been dealt with, one way or the other.
Finished == receiver # "reading" /\ receiver # "complete"

Next ==
  \/ \E line \in LineChoices : Compose(line)
  \/ FinishBlock
  \/ Write
  \/ WriteError
  \/ Read
  \/ ReadEOF
  \/ ReadError
  \/ LexStep
  \/ Finished /\ UNCHANGED vars

Spec == Init /\ [][Next]_vars

\* Both loops call again as long as the call asks for more, and the receiver
\* lexes what it read.  Nothing makes the sender finish composing.
FairSpec == Spec /\ WF_vars(Write) /\ WF_vars(Read) /\ WF_vars(ReadEOF) /\ WF_vars(LexStep)

-----------------------------------------------------------------------------
(* Properties.                                                             *)

\* Wherever the channel cuts the block, the receiver's Read (buffer.cc:178)
\* never finds the end of a block inside it, so it never reports EINVAL.
NeverMalformed == receiver # "malformed"

\* Read reports the end of a block only when the receiver holds exactly the
\* block that was finalized: nothing missing, nothing of what follows.
CompleteMeansWhole ==
  receiver \in {"complete", "lexed"} => read.data = block /\ pipe = <<>>

\* End of file is reported only for a block cut short: a sender whose Write
\* returned 0 always gets its block through, or the receiver fails.
EofMeansCutShort == receiver = "eof" => Len(read.data) < Len(block)

\* What Read tells its caller is so (buffer.cc:178-221), wherever the channel
\* cuts the block and whenever the sender fails.
ReadTellsTheTruth == NeverMalformed /\ CompleteMeansWhole /\ EofMeansCutShort

\* What is neither read nor in the channel is still in the write buffer, in
\* order, until Write has succeeded or failed (buffer.cc:153-176).
NothingLostInFlight ==
  sender \in {"writing", "done"} /\ receiver \in {"reading", "complete"} =>
    block = read.data \o pipe \o Unwritten(write)

\* Lexing gives the composed lines, in order, each without the continuation
\* that BeginLine put behind it (buffer.cc:35-46 against 252-261).
LinesPreserved ==
  /\ receiver \in {"complete", "lexed"} =>
       /\ Len(lexed) <= Len(lines)
       /\ lexed = SubSeq(lines, 1, Len(lexed))
  /\ receiver = "lexed" => lexed = lines

\* What is in a block stays in it on the way, symbol by symbol, and comes out of
\* it again, line by line.
ContentsPreserved == NothingLostInFlight /\ LinesPreserved

\* The receiver never waits for symbols that will not come (buffer.cc:186-220):
\* unless the sender failed, something is left to read or to write, because
\* Read notices the end of the block in the piece that brings it.
NeverStuck ==
  receiver = "reading" /\ sender # "composing" =>
    \/ sender = "failed"
    \/ pipe # <<>>
    \/ sender = "writing" /\ Unwritten(write) # <<>>

\* What is left to do for a block: a symbol to write has yet to be read too.
Remaining ==
  2 * Len(Unwritten(write)) + Len(pipe) + (Len(lines) - Len(lexed))
    + (IF receiver = "reading" THEN 1 ELSE 0)

\* The loops around Write, Read and Lex come to an end, however the channel
\* cuts the block: every round of theirs leaves less to do, and none leaves a
\* negative amount, as a place or a line counted twice would.
EachStepAdvances ==
  [][sender # "composing" => 0 <= Remaining' /\ Remaining' < Remaining]_vars

\* A finalized block, however small the channel, is delivered, or one of the
\* two ends reports a failure.
BlockArrives == (sender = "writing") ~> (receiver \in {"lexed", "eof", "failed"})

\* The blocks and lines of an abstract channel (BlockChannel): delivery is
\* all or nothing.
Abstract == INSTANCE BlockChannel WITH
  sent      <- IF sender = "composing" THEN <<>> ELSE lines,
  delivered <- IF receiver = "lexed" THEN lexed ELSE <<>>,
  broken    <- receiver \in {"eof", "failed", "malformed"}

ImplementsBlockChannel == Abstract!Spec
=============================================================================
