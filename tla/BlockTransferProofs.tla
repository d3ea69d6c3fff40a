------------------------ MODULE BlockTransferProofs ------------------------
(***************************************************************************)
(* Proofs about BlockTransfer, for every alphabet, every set of lines,     *)
(* every length of a block and every capacity of the channel.              *)
(*                                                                         *)
(* The argument: what has been read, and then what is in the channel, are  *)
(* two consecutive pieces of the finalized block.  In that block every     *)
(* newline but the last stands behind a continuation mark, so the end of   *)
(* the block is the only place where Read can stop, wherever the pieces    *)
(* are cut.  Where its lines are in the block is kept beside it, so that   *)
(* what Lex gives is what was composed, and each step is one of the        *)
(* abstract channel or a stutter.                                          *)
(***************************************************************************)
EXTENDS BlockTransfer, MessageBufferProofs, TLAPS

\* Symbols that have left the write buffer.
Sent == Len(read.data) + Len(pipe)

SenderInv ==
  /\ sender = "composing" =>
       /\ Composed(write.data)
       /\ lines # <<>> => write.data # <<>>
       /\ block = <<>> /\ pipe = <<>> /\ read.data = <<>>
  /\ sender # "composing" => Framed(block)
  /\ sender = "writing" => /\ write.data = block
                           /\ write.bol = Sent
                           /\ Sent < Len(block)
  /\ sender = "done" => Sent = Len(block) /\ write = EmptyBuffer
  /\ sender = "failed" => Sent < Len(block) /\ write = EmptyBuffer

Pieces ==
  /\ \A i \in 1 .. Len(read.data) : read.data[i] = block[i]
  /\ \A j \in 1 .. Len(pipe) : pipe[j] = block[Len(read.data) + j]

ReceiverInv ==
  /\ receiver # "malformed"
  /\ receiver = "reading" =>
       /\ read.bol = 0
       /\ sender # "composing" => Len(read.data) < Len(block)
  /\ receiver \in {"complete", "lexed"} =>
       /\ sender # "composing"
       /\ Len(read.data) = Len(block)
  /\ receiver = "complete" => read.bol < Len(read.data)
  /\ receiver = "eof" => sender = "failed" /\ pipe = <<>>

\* What is composed holds the lines, once it is finalized, and the receiver
\* has come as far in it as the lines it lexed reach.
LinesInv ==
  /\ lines \in Seq(LineChoices)
  /\ sender = "composing" =>
       IF lines = <<>> THEN write.data = <<>>
       ELSE LaidOut(Append(write.data, NEWLINE), lines)
  /\ sender # "composing" =>
       /\ lines # <<>>
       /\ \E at \in [1 .. Len(lines) + 1 -> 0 .. Len(block)] :
            Layout(block, lines, at) /\ read.bol = at[Len(lexed) + 1]
  /\ Len(lexed) <= Len(lines)
  /\ \A i \in 1 .. Len(lexed) : lexed[i] = lines[i]
  /\ receiver \notin {"complete", "lexed"} => lexed = <<>> /\ read.bol = 0
  /\ receiver = "lexed" => read.bol = Len(read.data)

IInv == TypeOK /\ SenderInv /\ Pieces /\ ReceiverInv

-----------------------------------------------------------------------------
(* The invariant, action by action.                                        *)

\* The invariant holds at first.
LEMMA InitIInv == Init => IInv
<1> SUFFICES ASSUME Init PROVE IInv
  OBVIOUS
<1> USE DEF Init
<1>1. TypeOK
  BY EmptyBufferType, EmptySeq DEF TypeOK, SenderState, ReceiverState
<1>2. SenderInv
  BY DEF SenderInv, Composed, EmptyBuffer
<1>3. Pieces
  BY DEF Pieces, EmptyBuffer
<1>4. ReceiverInv
  BY DEF ReceiverInv, EmptyBuffer
<1> QED
  BY <1>1, <1>2, <1>3, <1>4 DEF IInv

\* A request call, or a response, adds a line to a composed buffer.
LEMMA ComposeIInv ==
  ASSUME IInv, NEW line \in LineChoices, Compose(line)
  PROVE  IInv'
<1> USE DEF IInv
<1>1. line \in Seq(Word) \ {<<>>} /\ write \in Buffer /\ Composed(write.data)
  BY LineAssumption DEF Compose, TypeOK, SenderInv
<1>2. /\ write' \in Buffer
      /\ Composed(write'.data)
      /\ write'.data # <<>>
  BY <1>1, AppendLineComposes DEF Compose
<1>3. TypeOK'
  <2>1. lines' \in Seq(Seq(Word))
    BY <1>1, AppendProperties DEF Compose, TypeOK
  <2> QED
    BY <1>2, <2>1 DEF Compose, TypeOK
<1>4. SenderInv'
  BY <1>2 DEF Compose, SenderInv
<1>5. Pieces' /\ ReceiverInv'
  BY DEF Compose, Pieces, ReceiverInv
<1> QED
  BY <1>3, <1>4, <1>5

\* PrepareToWrite frames the block and goes back to its start.
LEMMA FinishBlockIInv ==
  ASSUME IInv, FinishBlock
  PROVE  IInv'
<1> USE DEF IInv
<1>1. write \in Buffer /\ Composed(write.data) /\ write.data # <<>>
  BY DEF FinishBlock, TypeOK, SenderInv
<1>2. /\ write' \in Buffer /\ write'.bol = 0
      /\ block' = write'.data /\ Framed(block')
  BY <1>1, PrepareToWriteFrames DEF FinishBlock
<1>3. block' \in Seq(Symbol) /\ Len(block') > 0
  BY <1>2 DEF Buffer, Framed
<1>4. pipe' = <<>> /\ read'.data = <<>> /\ sender' = "writing"
  BY DEF FinishBlock, SenderInv
<1>5. TypeOK'
  BY <1>2, <1>3 DEF FinishBlock, TypeOK, SenderState
<1>6. SenderInv'
  BY <1>2, <1>3, <1>4 DEF SenderInv, Sent
<1>7. Pieces'
  BY <1>4 DEF Pieces
<1>8. ReceiverInv'
  BY <1>3, <1>4 DEF FinishBlock, ReceiverInv
<1> QED
  BY <1>5, <1>6, <1>7, <1>8

\* What write(2) takes goes from the write buffer to the end of the channel.
LEMMA WriteStepIInv ==
  ASSUME IInv, NEW n \in 1 .. PipeCapacity, WriteStep(n)
  PROVE  IInv'
<1> USE DEF IInv
<1> DEFINE chunk == SubSeq(write.data, write.bol + 1, write.bol + n)
<1>1. /\ sender = "writing" /\ write.data = block /\ write.bol = Sent
      /\ Sent < Len(block) /\ Framed(block)
      /\ block \in Seq(Symbol) /\ pipe \in Seq(Symbol) /\ read.data \in Seq(Symbol)
      /\ write \in Buffer /\ n \in Nat \ {0}
  BY SizeAssumption DEF WriteStep, SenderInv, TypeOK, Buffer
<1>2. Sent \in Nat /\ Sent = Len(read.data) + Len(pipe)
  BY <1>1 DEF Sent
<1>3. Sent + n <= Len(block)
  <2>1. \A i \in Sent + 1 .. Len(block) : block[i] \in Symbol
    BY <1>1, <1>2
  <2>2. Len(SubSeq(block, Sent + 1, Len(block))) = Len(block) - (Sent + 1) + 1
    <3>1. Sent + 1 \in Int /\ Len(block) \in Int /\ Sent + 1 <= Len(block)
      BY <1>1, <1>2
    <3>2. Len(SubSeq(block, Sent + 1, Len(block))) =
            IF Sent + 1 <= Len(block) THEN Len(block) - (Sent + 1) + 1 ELSE 0
      BY <2>1, <3>1, SubSeqProperties
    <3> QED
      BY <3>1, <3>2
  <2>3. n <= Len(Unwritten(write)) /\ Unwritten(write) = SubSeq(block, Sent + 1, Len(block))
    BY <1>1 DEF WriteStep, Unwritten
  <2> QED
    BY <1>1, <1>2, <2>2, <2>3
<1>4. /\ chunk \in Seq(Symbol) /\ Len(chunk) = n
      /\ \A i \in 1 .. n : chunk[i] = block[Sent + i]
  <2>1. /\ SubSeq(block, Sent + 1, Sent + n) \in Seq(Symbol)
        /\ Len(SubSeq(block, Sent + 1, Sent + n)) = n
        /\ \A i \in 1 .. n : SubSeq(block, Sent + 1, Sent + n)[i] = block[Sent + i]
    <3>1. Sent + n <= Len(block) /\ n \in Nat /\ n > 0
      BY <1>1, <1>3
    <3> QED
      BY <1>1, <1>2, <3>1, PieceOf, ZenonT(60)
  <2> QED
    BY <1>1, <2>1
<1>5. /\ pipe' = pipe \o chunk /\ read' = read /\ block' = block
      /\ lines' = lines /\ receiver' = receiver /\ lexed' = lexed
  BY DEF WriteStep
<1> HIDE DEF chunk
<1>6. pipe' \in Seq(Symbol) /\ Len(pipe') = Len(pipe) + n
  BY <1>1, <1>4, <1>5, ConcatProperties
<1>7. Sent' = Sent + n
  <2>1. Sent' = Len(read.data) + Len(pipe')
    BY <1>5 DEF Sent
  <2>2. Len(read.data) \in Nat /\ Len(pipe) \in Nat /\ n \in Nat
    BY <1>1
  <2>3. Len(read.data) + (Len(pipe) + n) = (Len(read.data) + Len(pipe)) + n
    BY <2>2, Arithmetic, ZenonT(60)
  <2>4. Sent' = Len(read.data) + (Len(pipe) + n)
    BY <1>6, <2>1
  <2> QED
    BY <1>2, <2>3, <2>4
<1>8. \/ sender' = "done" /\ write' = EmptyBuffer /\ Sent + n = Len(block)
      \/ /\ sender' = "writing" /\ Sent + n # Len(block)
         /\ write' = [data |-> block, bol |-> Sent + n]
  <2>1. CASE write.bol + n = Len(write.data)
    BY <2>1, <1>1 DEF WriteStep, WriteSome
  <2>2. CASE write.bol + n # Len(write.data)
    BY <2>2, <1>1 DEF WriteStep, WriteSome, Buffer
  <2> QED
    BY <2>1, <2>2
<1>9. TypeOK'
  <2>1. write' \in Buffer
    BY <1>1, <1>2, <1>8, EmptyBufferType DEF Buffer
  <2> QED
    BY <1>5, <1>6, <1>8, <2>1 DEF TypeOK, SenderState
<1>10. SenderInv'
  BY <1>1, <1>2, <1>3, <1>5, <1>7, <1>8 DEF SenderInv
<1>11. Pieces'
  <2>1. ASSUME NEW j \in 1 .. Len(pipe') PROVE pipe'[j] = block[Len(read.data) + j]
    <3>1. CASE j <= Len(pipe)
      BY <3>1, <1>1, <1>4, <1>5, <1>6 DEF Pieces
    <3>2. CASE j > Len(pipe)
      <4>1. /\ j - Len(pipe) \in 1 .. n
            /\ pipe'[j] = chunk[j - Len(pipe)]
            /\ Sent + (j - Len(pipe)) = Len(read.data) + j
        BY <3>2, <1>1, <1>2, <1>4, <1>5, <1>6
      <4> QED
        BY <4>1, <1>4
    <3> QED
      BY <3>1, <3>2, <1>1, <1>6
  <2> QED
    BY <2>1, <1>5 DEF Pieces
<1>12. ReceiverInv'
  BY <1>1, <1>5, <1>8 DEF ReceiverInv
<1> QED
  BY <1>9, <1>10, <1>11, <1>12

\* A failing write(2) cuts the block short.
LEMMA WriteErrorIInv ==
  ASSUME IInv, WriteError
  PROVE  IInv'
<1> USE DEF IInv, WriteError
<1>1. TypeOK'
  BY EmptyBufferType DEF TypeOK, SenderState
<1>2. SenderInv' /\ Pieces'
  BY DEF SenderInv, Sent, Pieces
<1>3. ReceiverInv'
  BY DEF ReceiverInv
<1> QED
  BY <1>1, <1>2, <1>3

\* What read(2) gives goes from the channel to the end of the read buffer,
\* and Read sees whether it ends the block.
LEMMA ReadStepIInv ==
  ASSUME IInv, NEW n \in 1 .. PipeCapacity, ReadStep(n)
  PROVE  IInv'
<1> USE DEF IInv
<1> DEFINE chunk == SubSeq(pipe, 1, n)
           r     == ReadSome(read, chunk)
<1>1. /\ block \in Seq(Symbol) /\ pipe \in Seq(Symbol) /\ read \in Buffer
      /\ read.data \in Seq(Symbol) /\ read.bol = 0
      /\ n \in Nat \ {0} /\ n <= Len(pipe) /\ receiver = "reading"
  BY SizeAssumption DEF ReadStep, TypeOK, Buffer, ReceiverInv
<1>2. sender # "composing" /\ Framed(block) /\ Sent <= Len(block)
  <2>1. sender # "composing"
    BY <1>1 DEF SenderInv
  <2> QED
    BY <1>1, <2>1 DEF SenderInv, TypeOK, SenderState, Sent
<1>3. /\ chunk \in Seq(Symbol) /\ Len(chunk) = n
      /\ \A j \in 1 .. n : chunk[j] = pipe[j]
  <2>1. \A i \in 1 .. n : pipe[i] \in Symbol
    BY <1>1
  <2>2. Len(chunk) = n - 1 + 1 /\ \A j \in 1 .. n - 1 + 1 : chunk[j] = pipe[1 + j - 1]
    BY <1>1, <2>1, SubSeqProperties
  <2>3. chunk \in Seq(Symbol)
    BY <1>1, <2>1, SubSeqProperties
  <2> QED
    BY <1>1, <2>2, <2>3
<1>4. /\ pipe' = SubSeq(pipe, n + 1, Len(pipe))
      /\ pipe' \in Seq(Symbol) /\ Len(pipe') = Len(pipe) - n
      /\ \A j \in 1 .. Len(pipe) - n : pipe'[j] = pipe[n + j]
  <2>1. \A i \in n + 1 .. Len(pipe) : pipe[i] \in Symbol
    BY <1>1
  <2>2. pipe' = SubSeq(pipe, n + 1, Len(pipe))
    BY DEF ReadStep
  <2>3. /\ SubSeq(pipe, n + 1, Len(pipe)) \in Seq(Symbol)
        /\ Len(SubSeq(pipe, n + 1, Len(pipe))) = Len(pipe) - n
        /\ \A j \in 1 .. Len(pipe) - n : SubSeq(pipe, n + 1, Len(pipe))[j] = pipe[n + j]
    BY <1>1, <2>1, SubSeqProperties
  <2> QED
    BY <2>2, <2>3
<1>5. /\ sender' = sender /\ block' = block /\ write' = write
      /\ lines' = lines /\ lexed' = lexed /\ read' = r.buffer
      /\ receiver' = CASE r.err = "0"      -> "complete"
                       [] r.err = "EINVAL" -> "malformed"
                       [] OTHER            -> "reading"
  BY DEF ReadStep
<1> HIDE DEF chunk
<1>6. /\ Len(read.data) + n <= Len(block)
      /\ \A j \in 1 .. n : chunk[j] = block[Len(read.data) + j]
  <2>1. Len(read.data) \in Nat /\ Len(pipe) \in Nat
    BY <1>1
  <2>2. Len(read.data) + n <= Len(block)
    BY <1>1, <1>2, <2>1 DEF Sent
  <2>3. ASSUME NEW j \in 1 .. n PROVE chunk[j] = block[Len(read.data) + j]
    <3>1. j \in 1 .. Len(pipe)
      BY <1>1, <2>1
    <3> QED
      BY <1>3, <3>1 DEF Pieces
  <2> QED
    BY <2>2, <2>3
<1>7. /\ r.buffer = [data |-> read.data \o chunk, bol |-> 0]
      /\ r.err = IF Len(read.data) + n = Len(block) THEN "0" ELSE "EAGAIN"
  <2>1. Len(chunk) > 0 /\ Len(read.data) + Len(chunk) <= Len(block)
    BY <1>1, <1>3, <1>6
  <2>2. \A i \in 1 .. Len(read.data) : read.data[i] = block[i]
    BY DEF Pieces
  <2>3. \A j \in 1 .. Len(chunk) : chunk[j] = block[Len(read.data) + j]
    BY <1>3, <1>6
  <2>4. /\ r.buffer = [data |-> read.data \o chunk, bol |-> read.bol]
        /\ r.err = IF Len(read.data) + Len(chunk) = Len(block) THEN "0" ELSE "EAGAIN"
    BY <1>1, <1>2, <1>3, <2>1, <2>2, <2>3, ReadSomeOfBlock, ZenonT(60)
  <2> QED
    BY <1>1, <1>3, <2>4
<1>8. /\ read' \in Buffer /\ read'.bol = 0 /\ read'.data = read.data \o chunk
      /\ Len(read'.data) = Len(read.data) + n
  BY <1>1, <1>3, <1>5, <1>7 DEF Buffer
<1>9. receiver' = IF Len(read.data) + n = Len(block) THEN "complete" ELSE "reading"
  <2> HIDE DEF r
  <2> QED
    BY <1>5, <1>7
<1>10. Sent' = Sent
  <2>1. Sent' = Len(read'.data) + Len(pipe')
    BY DEF Sent
  <2>2. Len(read.data) \in Nat /\ Len(pipe) \in Nat /\ n \in Nat
    BY <1>1
  <2>3. (Len(read.data) + n) + (Len(pipe) - n) = Len(read.data) + Len(pipe)
    BY <2>2, Arithmetic, Zenon
  <2>4. Len(read'.data) = Len(read.data) + n /\ Len(pipe') = Len(pipe) - n
    BY <1>4, <1>8
  <2> HIDE DEF r
  <2> QED
    BY <2>1, <2>3, <2>4, Zenon DEF Sent
<1>11. TypeOK'
  BY <1>4, <1>5, <1>8, <1>9 DEF TypeOK, ReceiverState
<1>12. SenderInv'
  <2> HIDE DEF r
  <2> QED
    BY <1>2, <1>5, <1>10 DEF SenderInv
<1>13. Pieces'
  <2>1. ASSUME NEW i \in 1 .. Len(read'.data) PROVE read'.data[i] = block[i]
    <3>1. CASE i <= Len(read.data)
      BY <3>1, <1>1, <1>3, <1>8 DEF Pieces
    <3>2. CASE i > Len(read.data)
      <4>1. i - Len(read.data) \in 1 .. n /\ read'.data[i] = chunk[i - Len(read.data)]
        BY <3>2, <1>1, <1>3, <1>8
      <4> QED
        BY <4>1, <1>1, <1>6
    <3> QED
      BY <3>1, <3>2, <1>1, <1>8
  <2>2. ASSUME NEW j \in 1 .. Len(pipe') PROVE pipe'[j] = block[Len(read'.data) + j]
    <3>1. n + j \in 1 .. Len(pipe) /\ pipe'[j] = pipe[n + j]
      BY <1>1, <1>4
    <3>2. pipe[n + j] = block[Len(read.data) + (n + j)]
      BY <3>1 DEF Pieces
    <3>3. Len(read.data) + (n + j) = Len(read'.data) + j
      <4>1. Len(read.data) \in Nat /\ n \in Nat /\ j \in Nat
        BY <1>1
      <4>2. Len(read.data) + (n + j) = (Len(read.data) + n) + j
        BY <4>1, Arithmetic, ZenonT(60)
      <4> QED
        BY <4>2, <1>8, Zenon
    <3> QED
      BY <3>1, <3>2, <3>3
  <2> HIDE DEF r
  <2> QED
    BY <2>1, <2>2, <1>5 DEF Pieces
<1>14. ReceiverInv'
  <2>1. sender' # "composing" /\ block' = block
    BY <1>2, <1>5
  <2>2. Len(block) > 0
    BY <1>2 DEF Framed
  <2> HIDE DEF r
  <2> QED
    BY <1>1, <1>6, <1>8, <1>9, <2>1, <2>2 DEF ReceiverInv
<1> QED
  BY <1>11, <1>12, <1>13, <1>14

\* End of file and a failing read(2) end the reading.
LEMMA ReadEndsIInv ==
  ASSUME IInv, ReadEOF \/ ReadError
  PROVE  IInv'
<1> USE DEF IInv, ReadEOF, ReadError
<1>1. TypeOK'
  BY DEF TypeOK, ReceiverState
<1>2. SenderInv' /\ Pieces'
  BY DEF SenderInv, Sent, Pieces
<1>3. ReceiverInv'
  BY DEF ReceiverInv
<1> QED
  BY <1>1, <1>2, <1>3

\* Lexing moves on in a complete block.
LEMMA LexStepIInv ==
  ASSUME IInv, LexStep
  PROVE  IInv'
<1> USE DEF IInv
<1>1. /\ receiver = "complete" /\ sender # "composing" /\ Framed(block)
      /\ Len(read.data) = Len(block) /\ read.bol < Len(read.data)
      /\ read \in Buffer /\ block \in Seq(Symbol)
  BY DEF LexStep, ReceiverInv, SenderInv, TypeOK
<1>2. read.data[Len(read.data)] = NEWLINE
  <2>1. Len(block) \in 1 .. Len(block) /\ block[Len(block)] = NEWLINE
    BY <1>1 DEF Framed, EndsBlock
  <2> QED
    BY <1>1, <2>1 DEF Pieces
<1>3. /\ LineEnd(read) \in read.bol + 1 .. Len(read.data)
      /\ Lex(read).text \in Seq(Symbol)
      /\ Lex(read).buffer = [data |-> read.data, bol |-> LineEnd(read)]
  BY <1>1, <1>2, LexOfBuffer
<1>4. /\ read' = [data |-> read.data, bol |-> LineEnd(read)]
      /\ receiver' = IF LineEnd(read) = Len(read.data) THEN "lexed" ELSE "complete"
      /\ pipe' = pipe /\ write' = write /\ sender' = sender
      /\ lines' = lines /\ block' = block
  BY <1>1, <1>3 DEF LexStep, IsAtEnd
<1>5. lexed' \in Seq(Seq(Symbol))
  <2>1. (IF Lex(read).err = "0" THEN Lex(read).text ELSE <<>>) \in Seq(Symbol)
    BY <1>3, EmptySeq
  <2> QED
    BY <2>1, AppendProperties DEF LexStep, TypeOK
<1>6. TypeOK'
  <2>1. read' \in Buffer
    BY <1>1, <1>3, <1>4 DEF Buffer
  <2> QED
    BY <1>4, <1>5, <2>1 DEF TypeOK, ReceiverState
<1>7. SenderInv' /\ Pieces'
  <2>1. read'.data = read.data
    BY <1>4
  <2> QED
    BY <1>4, <2>1 DEF SenderInv, Sent, Pieces
<1>8. ReceiverInv'
  <2>1. read'.data = read.data /\ read'.bol = LineEnd(read)
    BY <1>4
  <2>2. LineEnd(read) <= Len(read.data) /\ LineEnd(read) \in Nat /\ Len(read.data) \in Nat
    BY <1>1, <1>3 DEF Buffer
  <2> QED
    BY <1>1, <1>4, <2>1, <2>2 DEF ReceiverInv
<1> QED
  BY <1>6, <1>7, <1>8

\* A step that changes nothing keeps the invariant.
LEMMA StutterIInv == IInv /\ UNCHANGED vars => IInv'
  BY DEF IInv, TypeOK, SenderInv, Sent, Pieces, ReceiverInv, vars

\* Every step keeps the invariant.
LEMMA NextIInv == IInv /\ [Next]_vars => IInv'
<1> SUFFICES ASSUME IInv, [Next]_vars PROVE IInv'
  OBVIOUS
<1>1. ASSUME NEW line \in LineChoices, Compose(line) PROVE IInv'
  BY <1>1, ComposeIInv
<1>2. CASE FinishBlock
  BY <1>2, FinishBlockIInv
<1>3. CASE Write
  BY <1>3, WriteStepIInv DEF Write
<1>4. CASE WriteError
  BY <1>4, WriteErrorIInv
<1>5. CASE Read
  BY <1>5, ReadStepIInv DEF Read
<1>6. CASE ReadEOF \/ ReadError
  BY <1>6, ReadEndsIInv
<1>7. CASE LexStep
  BY <1>7, LexStepIInv
<1>8. CASE UNCHANGED vars
  BY <1>8, StutterIInv
<1> QED
  BY <1>1, <1>2, <1>3, <1>4, <1>5, <1>6, <1>7, <1>8 DEF Next

-----------------------------------------------------------------------------
(* The lines, action by action.                                            *)

\* No lines are composed, or lexed, at first.
LEMMA InitLinesInv == Init => LinesInv
  BY EmptySeq DEF Init, LinesInv, EmptyBuffer

\* A composed line is laid out behind the others.
LEMMA ComposeLinesInv ==
  ASSUME IInv, LinesInv, NEW line \in LineChoices, Compose(line)
  PROVE  LinesInv'
<1> USE DEF LinesInv
<1>1. /\ line \in Seq(Word) \ {<<>>} /\ write \in Buffer /\ Composed(write.data)
      /\ lines \in Seq(LineChoices) /\ lines \in Seq(Seq(Word))
      /\ sender = "composing"
      /\ lines # <<>> => write.data # <<>>
  BY LineAssumption DEF Compose, IInv, TypeOK, SenderInv
<1>2. /\ write' = AppendLine(write, line) /\ lines' = Append(lines, line)
      /\ sender' = sender /\ receiver' = receiver /\ read' = read /\ lexed' = lexed
  BY DEF Compose
<1>3. /\ Append(lines, line) \in Seq(LineChoices)
      /\ Len(Append(lines, line)) = Len(lines) + 1
      /\ Append(lines, line) # <<>>
      /\ \A i \in 1 .. Len(lines) : Append(lines, line)[i] = lines[i]
  BY <1>1, AppendProperties
<1>4. LaidOut(Append(AppendLine(write, line).data, NEWLINE), Append(lines, line))
  <2>1. CASE lines = <<>>
    <3>1. Append(lines, line) = <<line>>
      BY <2>1
    <3> QED
      BY <1>1, <2>1, <3>1, FirstLineLaysOut
  <2>2. CASE lines # <<>>
    BY <1>1, <2>2, AppendLineLaysOut
  <2> QED
    BY <2>1, <2>2
<1>5. Len(lexed) <= Len(lines) /\ lexed \in Seq(Seq(Symbol))
  BY DEF IInv, TypeOK
<1>6. /\ Len(lexed) <= Len(lines) + 1
      /\ \A i \in 1 .. Len(lexed) : lexed[i] = Append(lines, line)[i]
  BY <1>1, <1>3, <1>5
<1>7. receiver # "complete" /\ receiver # "lexed"
  BY <1>1 DEF IInv, ReceiverInv
<1> QED
  BY <1>1, <1>2, <1>3, <1>4, <1>6, <1>7

\* Finalizing leaves the lines where they are.
LEMMA FinishBlockLinesInv ==
  ASSUME IInv, LinesInv, FinishBlock
  PROVE  LinesInv'
<1> USE DEF LinesInv
<1>1. /\ sender = "composing" /\ sender' = "writing" /\ lines # <<>> /\ lines' = lines
      /\ block' = PrepareToWrite(write).data
      /\ read' = read /\ lexed' = lexed /\ receiver' = receiver
  BY DEF FinishBlock
<1>2. block' = Append(write.data, NEWLINE)
  BY <1>1 DEF PrepareToWrite
<1>3. PICK at \in [1 .. Len(lines) + 1 -> 0 .. Len(Append(write.data, NEWLINE))] :
        Layout(Append(write.data, NEWLINE), lines, at)
  BY <1>1 DEF LaidOut
<1>4. receiver # "complete" /\ receiver # "lexed"
  BY <1>1 DEF IInv, ReceiverInv
<1>5. Len(lexed) = 0 /\ read.bol = 0
  BY <1>4
<1>6. at[Len(lexed) + 1] = read.bol
  BY <1>3, <1>5 DEF Layout
<1>7. Layout(block', lines', at) /\ read'.bol = at[Len(lexed') + 1]
  BY <1>1, <1>2, <1>3, <1>6
<1>8. at \in [1 .. Len(lines') + 1 -> 0 .. Len(block')]
  BY <1>1, <1>2, <1>3
<1> QED
  BY <1>1, <1>4, <1>7, <1>8

\* What is lexed next is the next line.
LEMMA LexStepLinesInv ==
  ASSUME IInv, LinesInv, LexStep
  PROVE  LinesInv'
<1> DEFINE k == Len(lexed)
           n == Len(lines)
<1>1. /\ receiver = "complete" /\ sender # "composing"
      /\ read \in Buffer /\ read.data = block /\ block \in Seq(Symbol)
      /\ read.bol < Len(block)
      /\ lexed \in Seq(Seq(Symbol)) /\ lines \in Seq(LineChoices)
  <2>1. /\ receiver = "complete" /\ sender # "composing"
        /\ read \in Buffer /\ read.data \in Seq(Symbol) /\ block \in Seq(Symbol)
        /\ Len(read.data) = Len(block) /\ read.bol < Len(read.data)
        /\ lexed \in Seq(Seq(Symbol)) /\ lines \in Seq(LineChoices)
    BY DEF LexStep, IInv, ReceiverInv, TypeOK, Buffer, LinesInv
  <2>2. read.data = block
    BY <2>1, SeqEqual DEF IInv, Pieces
  <2> QED
    BY <2>1, <2>2
<1>2. PICK at \in [1 .. n + 1 -> 0 .. Len(block)] :
        Layout(block, lines, at) /\ read.bol = at[k + 1]
  BY <1>1 DEF LinesInv
<1>3. /\ k \in Nat /\ n \in Nat /\ k <= n /\ Len(block) \in Nat
      /\ \A i \in 1 .. k : lexed[i] = lines[i]
  BY <1>1 DEF LinesInv
<1> HIDE DEF k, n
<1>4. at[n + 1] = Len(block) /\ \A i \in 1 .. n : LineAt(block, lines[i], at[i], at[i + 1])
  BY <1>2 DEF Layout, n
<1>5. k # n
  BY <1>1, <1>2, <1>4
<1>6. k + 1 \in 1 .. n /\ k + 2 \in 1 .. n + 1
  BY <1>3, <1>5
<1> DEFINE line == lines[k + 1]
           end  == at[k + 2]
<1>7. line \in Seq(Word) \ {<<>>}
  BY <1>1, <1>6, LineAssumption DEF n
<1>8. end \in 0 .. Len(block)
  BY <1>2, <1>6
<1>9. LineAt(block, line, read.bol, end)
  <2>1. (k + 1) + 1 = k + 2
    BY <1>3
  <2>2. LineAt(block, lines[k + 1], at[k + 1], at[(k + 1) + 1])
    BY <1>4, <1>6
  <2> QED
    BY <2>1, <2>2, <1>2
<1> HIDE DEF line, end
<1>10. Lex(read) = [err |-> "0", text |-> line, buffer |-> [data |-> block, bol |-> end]]
  <2>1. end \in Nat /\ end <= Len(read.data)
    BY <1>1, <1>3, <1>8
  <2> QED
    BY <2>1, <1>1, <1>7, <1>9, LexOfLine
<1>11. /\ lexed' = Append(lexed, line)
       /\ read' = [data |-> block, bol |-> end]
       /\ receiver' = IF end = Len(block) THEN "lexed" ELSE "complete"
       /\ sender' = sender /\ lines' = lines /\ block' = block
  <2>1. /\ Lex(read).err = "0" /\ Lex(read).text = line
        /\ Lex(read).buffer = [data |-> block, bol |-> end]
    BY <1>10
  <2> QED
    BY <1>1, <2>1 DEF LexStep, IsAtEnd
<1>12. /\ Len(lexed') = k + 1
       /\ \A i \in 1 .. k + 1 : lexed'[i] = lines[i]
  <2>1. line \in Seq(Symbol)
    BY <1>7 DEF Symbol
  <2>2. /\ Len(lexed') = k + 1 /\ lexed'[k + 1] = line
        /\ \A i \in 1 .. k : lexed'[i] = lexed[i]
    BY <1>1, <1>11, <2>1, AppendProperties DEF k
  <2>3. ASSUME NEW i \in 1 .. k + 1 PROVE lexed'[i] = lines[i]
    <3>1. CASE i \in 1 .. k
      BY <3>1, <2>2, <1>3
    <3>2. CASE i = k + 1
      BY <3>2, <2>2 DEF line
    <3> QED
      BY <3>1, <3>2, <1>3
  <2> QED
    BY <2>2, <2>3
<1>13. \E a \in [1 .. Len(lines') + 1 -> 0 .. Len(block')] :
         Layout(block', lines', a) /\ read'.bol = a[Len(lexed') + 1]
  <2>1. at[Len(lexed') + 1] = end
    <3>1. Len(lexed') + 1 = k + 2
      BY <1>3, <1>12
    <3> QED
      BY <3>1 DEF end
  <2>2. read'.bol = at[Len(lexed') + 1]
    BY <1>11, <2>1
  <2> QED
    BY <1>2, <1>11, <2>2 DEF n
<1>14. lines # <<>>
  BY <1>1 DEF LinesInv
<1>15. receiver' = "lexed" => read'.bol = Len(read'.data)
  <2>1. receiver' = "lexed" => end = Len(block)
    BY <1>11
  <2> QED
    BY <2>1, <1>11
<1>16. receiver' \in {"complete", "lexed"} /\ sender' # "composing"
  BY <1>1, <1>11
<1>17. /\ Len(lexed') <= Len(lines')
       /\ \A i \in 1 .. Len(lexed') : lexed'[i] = lines'[i]
  <2>1. k + 1 <= n
    BY <1>3, <1>6
  <2> QED
    BY <2>1, <1>11, <1>12 DEF n
<1>18. lines' \in Seq(LineChoices) /\ lines' # <<>>
  BY <1>1, <1>11, <1>14
<1> QED
  BY <1>13, <1>15, <1>16, <1>17, <1>18 DEF LinesInv

\* The other steps leave the lines alone, and do not lex.
LEMMA TransferLinesInv ==
  ASSUME IInv, LinesInv,
         UNCHANGED <<lines, block, lexed>>,
         sender' = "composing" <=> sender = "composing",
         sender = "composing" => write' = write,
         read'.bol = read.bol,
         receiver' = "lexed" => receiver = "lexed" /\ read' = read,
         receiver \in {"complete", "lexed"} => receiver' = receiver
  PROVE  LinesInv'
<1>1. receiver' \notin {"complete", "lexed"} => receiver \notin {"complete", "lexed"}
  OBVIOUS
<1> QED
  BY <1>1 DEF LinesInv

\* Every step keeps the lines.
LEMMA NextLinesInv == IInv /\ LinesInv /\ [Next]_vars => LinesInv'
<1> SUFFICES ASSUME IInv, LinesInv, [Next]_vars PROVE LinesInv'
  OBVIOUS
<1>1. ASSUME NEW line \in LineChoices, Compose(line) PROVE LinesInv'
  BY <1>1, ComposeLinesInv
<1>2. CASE FinishBlock
  BY <1>2, FinishBlockLinesInv
<1>3. ASSUME NEW n \in 1 .. PipeCapacity, WriteStep(n) PROVE LinesInv'
  <2>1. sender' # "composing" /\ sender # "composing"
    BY <1>3 DEF WriteStep
  <2> QED
    BY <1>3, <2>1, TransferLinesInv DEF WriteStep
<1>4. CASE WriteError
  BY <1>4, TransferLinesInv DEF WriteError
<1>5. ASSUME NEW n \in 1 .. PipeCapacity, ReadStep(n) PROVE LinesInv'
  <2>2. receiver = "reading" /\ receiver' # "lexed"
    BY <1>5 DEF ReadStep
  <2>3. read'.bol = read.bol
    <3>1. n \in Nat /\ n <= Len(pipe) /\ pipe \in Seq(Symbol) /\ read \in Buffer
      BY <1>5 DEF ReadStep, IInv, TypeOK
    <3>2. \A i \in 1 .. n : pipe[i] \in Symbol
      BY <3>1
    <3>3. SubSeq(pipe, 1, n) \in Seq(Symbol)
      BY <3>1, <3>2, SubSeqProperties
    <3> QED
      BY <1>5, <3>1, <3>3, ReadSomeResult DEF ReadStep
  <2> QED
    BY <1>5, <2>2, <2>3, TransferLinesInv DEF ReadStep
<1>6. CASE ReadEOF \/ ReadError
  BY <1>6, TransferLinesInv DEF ReadEOF, ReadError
<1>7. CASE LexStep
  BY <1>7, LexStepLinesInv
<1>8. CASE UNCHANGED vars
  BY <1>8, TransferLinesInv DEF vars
<1> QED
  BY <1>1, <1>2, <1>3, <1>4, <1>5, <1>6, <1>7, <1>8 DEF Next, Write, Read

-----------------------------------------------------------------------------
(* The results.                                                            *)

\* The inductive invariant holds for every behaviour.
THEOREM InvariantHolds == Spec => []IInv
  BY InitIInv, NextIInv, PTL DEF Spec

\* The variables keep their types (cody.hh:57-60: a sequence of octets and a
\* place in it).
THEOREM TypeCorrect == Spec => []TypeOK
<1>1. IInv => TypeOK
  BY DEF IInv
<1> QED
  BY <1>1, InvariantHolds, PTL

\* However the channel cuts a block, Read never reports EINVAL for it
\* (buffer.cc:208-215).
THEOREM BlocksAreNeverMalformed == Spec => []NeverMalformed
<1>1. IInv => NeverMalformed
  BY DEF IInv, ReceiverInv, NeverMalformed
<1> QED
  BY <1>1, InvariantHolds, PTL

\* Read returns 0 only when it holds the whole block (buffer.cc:218-220).
THEOREM CompleteBlocksAreWhole == Spec => []CompleteMeansWhole
<1>1. IInv => CompleteMeansWhole
  <2> SUFFICES ASSUME IInv, receiver \in {"complete", "lexed"}
               PROVE  read.data = block /\ pipe = <<>>
    BY DEF CompleteMeansWhole
  <2>1. /\ sender # "composing" /\ Len(read.data) = Len(block)
        /\ read.data \in Seq(Symbol) /\ block \in Seq(Symbol) /\ pipe \in Seq(Symbol)
    BY DEF IInv, ReceiverInv, TypeOK, Buffer
  <2>2. read.data = block
    BY <2>1, SeqEqual DEF IInv, Pieces
  <2>3. Len(read.data) + Len(pipe) <= Len(block)
    BY <2>1 DEF IInv, SenderInv, Sent, TypeOK, SenderState
  <2>4. pipe = <<>>
    BY <2>1, <2>3, EmptySeq
  <2> QED
    BY <2>2, <2>4
<1> QED
  BY <1>1, InvariantHolds, PTL

\* As long as Write has not failed, what was read, what is in the channel and
\* what is still to be written make up the block (buffer.cc:153-176).
THEOREM NothingIsLost == Spec => []NothingLostInFlight
<1>1. IInv => NothingLostInFlight
  <2> SUFFICES ASSUME IInv, sender \in {"writing", "done"}
               PROVE  block = read.data \o pipe \o Unwritten(write)
    BY DEF NothingLostInFlight
  <2>1. /\ block \in Seq(Symbol) /\ pipe \in Seq(Symbol) /\ read.data \in Seq(Symbol)
        /\ Len(read.data) + Len(pipe) <= Len(block)
    BY DEF IInv, TypeOK, Buffer, SenderInv, Sent
  <2>2. Unwritten(write) = SubSeq(block, Len(read.data) + Len(pipe) + 1, Len(block))
    <3>1. CASE sender = "writing"
      BY <3>1 DEF IInv, SenderInv, Sent, Unwritten
    <3>2. CASE sender = "done"
      <4>1. write = EmptyBuffer /\ Len(read.data) + Len(pipe) = Len(block)
        BY <3>2 DEF IInv, SenderInv, Sent
      <4>2. Unwritten(write) = <<>>
        BY <4>1, SubSeqEmpty DEF Unwritten, EmptyBuffer
      <4>3. SubSeq(block, Len(block) + 1, Len(block)) = <<>>
        BY <2>1, SubSeqEmpty
      <4> QED
        BY <4>1, <4>2, <4>3
    <3> QED
      BY <3>1, <3>2
  <2> QED
    BY <2>1, <2>2, PiecesJoin DEF IInv, Pieces
<1> QED
  BY <1>1, InvariantHolds, PTL

\* End of file, -1, is reported only to a receiver that lacks something.
THEOREM EofOnlyWhenCutShort == Spec => []EofMeansCutShort
<1>1. IInv => EofMeansCutShort
  <2> SUFFICES ASSUME IInv, receiver = "eof" PROVE Len(read.data) < Len(block)
    BY DEF EofMeansCutShort
  <2>1. sender = "failed" /\ pipe = <<>>
    BY DEF IInv, ReceiverInv
  <2>2. Len(read.data) + Len(pipe) < Len(block) /\ Len(read.data) \in Nat
    BY <2>1 DEF IInv, SenderInv, Sent, TypeOK, Buffer
  <2> QED
    BY <2>1, <2>2
<1> QED
  BY <1>1, InvariantHolds, PTL

\* Read is right about a block in whatever it returns.
THEOREM ReadIsTruthful == Spec => []ReadTellsTheTruth
  BY BlocksAreNeverMalformed, CompleteBlocksAreWhole, EofOnlyWhenCutShort, PTL DEF ReadTellsTheTruth

\* What is composed keeps holding the lines.
THEOREM LinesInvariantHolds == Spec => [](IInv /\ LinesInv)
<1>1. Init => IInv /\ LinesInv
  BY InitIInv, InitLinesInv
<1>2. (IInv /\ LinesInv) /\ [Next]_vars => (IInv /\ LinesInv)'
  BY NextIInv, NextLinesInv
<1> QED
  BY <1>1, <1>2, PTL DEF Spec

\* A receiver that has lexed the block has lexed all the lines of it.
LEMMA LexedIsAll ==
  ASSUME IInv, LinesInv, receiver = "lexed"
  PROVE  lexed = lines
<1>1. /\ sender # "composing" /\ Len(read.data) = Len(block) /\ read.bol = Len(block)
      /\ lexed \in Seq(Seq(Symbol)) /\ lines \in Seq(Seq(Word))
  BY DEF IInv, ReceiverInv, TypeOK, LinesInv
<1>2. PICK at \in [1 .. Len(lines) + 1 -> 0 .. Len(block)] :
        Layout(block, lines, at) /\ read.bol = at[Len(lexed) + 1]
  BY <1>1 DEF LinesInv
<1>3. /\ at[Len(lines) + 1] = Len(block)
      /\ \A i, j \in 1 .. Len(lines) + 1 : i < j => at[i] < at[j]
  BY <1>2 DEF Layout
<1>4. Len(lexed) <= Len(lines) /\ \A i \in 1 .. Len(lexed) : lexed[i] = lines[i]
  BY DEF LinesInv
<1>5. Len(lexed) = Len(lines)
  <2>1. /\ Len(lexed) + 1 \in 1 .. Len(lines) + 1 /\ Len(lines) + 1 \in 1 .. Len(lines) + 1
        /\ Len(lexed) < Len(lines) => Len(lexed) + 1 < Len(lines) + 1
    BY <1>1, <1>4
  <2>2. Len(lexed) < Len(lines) => at[Len(lexed) + 1] < at[Len(lines) + 1]
    BY <2>1, <1>3
  <2>3. at[Len(lexed) + 1] = at[Len(lines) + 1] /\ at[Len(lines) + 1] \in Int
    <3>1. at[Len(lexed) + 1] = Len(block) /\ at[Len(lines) + 1] = Len(block)
      BY <1>1, <1>2, <1>3
    <3>2. block \in Seq(Symbol)
      BY DEF IInv, TypeOK
    <3> QED
      BY <3>1, <3>2
  <2>4. ~(Len(lexed) < Len(lines))
    BY <2>2, <2>3
  <2> QED
    BY <2>4, <1>1, <1>4
<1>6. lines \in Seq(Seq(Symbol))
  <2>1. Seq(Word) \subseteq Seq(Symbol)
    BY DEF Symbol
  <2> QED
    BY <1>1, <2>1
<1> QED
  BY <1>1, <1>4, <1>5, <1>6, SeqEqual

\* Lexing the block gives the lines that were composed, each without the
\* continuation behind it (buffer.cc:35-46 against 252-261).
THEOREM LinesArePreserved == Spec => []LinesPreserved
<1>1. IInv /\ LinesInv => LinesPreserved
  <2> SUFFICES ASSUME IInv, LinesInv PROVE LinesPreserved
    OBVIOUS
  <2>1. /\ lexed \in Seq(Seq(Symbol)) /\ lines \in Seq(Seq(Symbol))
        /\ Len(lexed) <= Len(lines)
        /\ \A i \in 1 .. Len(lexed) : lexed[i] = lines[i]
    <3>1. Seq(Word) \subseteq Seq(Symbol)
      BY DEF Symbol
    <3> QED
      BY <3>1 DEF IInv, TypeOK, LinesInv
  <2>2. lexed = SubSeq(lines, 1, Len(lexed))
    <3>1. \A i \in 1 .. Len(lexed) : lines[i] \in Seq(Symbol)
      BY <2>1
    <3>2. /\ SubSeq(lines, 1, Len(lexed)) \in Seq(Seq(Symbol))
          /\ Len(SubSeq(lines, 1, Len(lexed))) = Len(lexed)
          /\ \A i \in 1 .. Len(lexed) : SubSeq(lines, 1, Len(lexed))[i] = lines[i]
      BY <2>1, <3>1, SubSeqProperties
    <3> QED
      BY <2>1, <3>2, SeqEqual
  <2> QED
    BY <2>1, <2>2, LexedIsAll DEF LinesPreserved
<1> QED
  BY <1>1, LinesInvariantHolds, PTL

\* A block arrives with what was put into it, symbol by symbol and line by line.
THEOREM ContentsArePreserved == Spec => []ContentsPreserved
  BY NothingIsLost, LinesArePreserved, PTL DEF ContentsPreserved

\* A receiver that reads has something to wait for (buffer.cc:186-220): the end
\* of the block cannot have reached it unnoticed.
THEOREM ReceiverNeverStuck == Spec => []NeverStuck
<1>1. IInv => NeverStuck
  <2> SUFFICES ASSUME IInv, receiver = "reading", sender # "composing",
                      sender # "failed", pipe = <<>>
               PROVE  sender = "writing" /\ Unwritten(write) # <<>>
    BY DEF NeverStuck
  <2>1. /\ block \in Seq(Symbol) /\ read.data \in Seq(Symbol) /\ write \in Buffer
        /\ sender \in {"writing", "done"} /\ Len(read.data) < Len(block)
    BY DEF IInv, TypeOK, SenderState, Buffer, ReceiverInv
  <2>2. Sent = Len(read.data)
    BY <2>1 DEF Sent
  <2>3. sender = "writing" /\ write.data = block /\ write.bol < Len(write.data)
    BY <2>1, <2>2 DEF IInv, SenderInv
  <2>4. Unwritten(write) # <<>>
    BY <2>1, <2>3, SomeUnwritten
  <2> QED
    BY <2>3, <2>4
<1> QED
  BY <1>1, InvariantHolds, PTL

\* How much a sender that finished composing has left to write.
LEMMA UnwrittenLeft ==
  IInv /\ sender # "composing" =>
    /\ Len(Unwritten(write)) \in Nat
    /\ Sent \in Nat /\ Len(block) \in Nat
    /\ sender # "failed" => Len(Unwritten(write)) = Len(block) - Sent
    /\ sender = "failed" => Len(Unwritten(write)) = 0
<1> SUFFICES ASSUME IInv, sender # "composing"
             PROVE  /\ Len(Unwritten(write)) \in Nat
                    /\ Sent \in Nat /\ Len(block) \in Nat
                    /\ sender # "failed" => Len(Unwritten(write)) = Len(block) - Sent
                    /\ sender = "failed" => Len(Unwritten(write)) = 0
  OBVIOUS
<1>1. /\ block \in Seq(Symbol) /\ read.data \in Seq(Symbol) /\ pipe \in Seq(Symbol)
      /\ write \in Buffer /\ sender \in {"writing", "done", "failed"}
  BY DEF IInv, TypeOK, SenderState, Buffer
<1>2. Sent \in Nat /\ Len(block) \in Nat
  BY <1>1 DEF Sent
<1>3. CASE sender = "writing"
  <2>1. write.data = block /\ write.bol = Sent /\ Sent < Len(block)
    BY <1>3 DEF IInv, SenderInv
  <2>2. Len(Unwritten(write)) = Len(write.data) - write.bol
    BY <1>1, <1>2, <2>1, UnwrittenLength
  <2> QED
    BY <1>2, <1>3, <2>1, <2>2
<1>4. CASE sender \in {"done", "failed"}
  <2>1. write = EmptyBuffer /\ (sender = "done" => Sent = Len(block))
    BY <1>4 DEF IInv, SenderInv
  <2>2. Len(Unwritten(write)) = 0
    BY <2>1, NothingUnwritten
  <2> QED
    BY <1>2, <1>4, <2>1, <2>2
<1> QED
  BY <1>1, <1>3, <1>4

\* Every step after composing leaves less to do, and never a negative amount.
LEMMA StepAdvances ==
  ASSUME IInv, LinesInv, IInv', LinesInv', Next, sender # "composing"
  PROVE  (0 <= Remaining' /\ Remaining' < Remaining) \/ UNCHANGED vars
<1> DEFINE u  == Len(Unwritten(write))
           p  == Len(pipe)
           m  == Len(read.data)
           l  == Len(lines) - Len(lexed)
           w  == IF receiver = "reading" THEN 1 ELSE 0
<1>1. /\ u \in Nat /\ p \in Nat /\ m \in Nat /\ l \in Nat /\ w \in {0, 1}
      /\ Remaining = 2 * u + p + l + w
      /\ Len(block) \in Nat
      /\ sender # "failed" => u = Len(block) - (m + p)
      /\ sender = "failed" => u = 0
  <2>1. /\ pipe \in Seq(Symbol) /\ read.data \in Seq(Symbol)
        /\ lines \in Seq(Seq(Word)) /\ lexed \in Seq(Seq(Symbol))
        /\ Len(lexed) <= Len(lines)
    BY DEF IInv, TypeOK, Buffer, LinesInv
  <2>2. p \in Nat /\ m \in Nat /\ l \in Nat /\ w \in {0, 1}
    BY <2>1
  <2> QED
    BY <2>2, UnwrittenLeft DEF Remaining, Sent
<1>2. sender' # "composing"
  BY DEF Next, Compose, FinishBlock, Write, WriteStep, WriteError, Read, ReadStep,
         ReadEOF, ReadError, LexStep, vars
<1>3. /\ u' \in Nat /\ p' \in Nat /\ m' \in Nat /\ l' \in Nat /\ w' \in {0, 1}
      /\ Remaining' = 2 * u' + p' + l' + w'
      /\ Len(block') \in Nat
      /\ sender' # "failed" => u' = Len(block') - (m' + p')
      /\ sender' = "failed" => u' = 0
  <2>1. /\ pipe' \in Seq(Symbol) /\ read'.data \in Seq(Symbol)
        /\ lines' \in Seq(Seq(Word)) /\ lexed' \in Seq(Seq(Symbol))
        /\ Len(lexed') <= Len(lines')
    BY DEF IInv, TypeOK, Buffer, LinesInv
  <2>2. p' \in Nat /\ m' \in Nat /\ l' \in Nat /\ w' \in {0, 1}
    BY <2>1
  <2>3. (IInv /\ sender # "composing" =>
           /\ Len(Unwritten(write)) \in Nat
           /\ Sent \in Nat /\ Len(block) \in Nat
           /\ sender # "failed" => Len(Unwritten(write)) = Len(block) - Sent
           /\ sender = "failed" => Len(Unwritten(write)) = 0)'
    BY UnwrittenLeft, PTL
  <2> QED
    BY <1>2, <2>2, <2>3 DEF Remaining, Sent
<1> HIDE DEF u, p, m, l, w
<1>4. CASE Write
  <2>1. PICK n \in 1 .. PipeCapacity : WriteStep(n)
    BY <1>4 DEF Write
  <2>2. n \in Nat /\ n > 0 /\ block' = block /\ m' = m /\ l' = l /\ w' = w
    BY <2>1, SizeAssumption DEF WriteStep, m, l, w
  <2>3. p' = p + n
    <3>1. n <= Len(Unwritten(write)) /\ write \in Buffer /\ pipe \in Seq(Symbol)
      BY <2>1 DEF WriteStep, IInv, TypeOK
    <3>2. write.bol < Len(write.data)
      BY <2>1 DEF WriteStep, IInv, SenderInv
    <3>3. /\ SubSeq(write.data, write.bol + 1, write.bol + n) \in Seq(Symbol)
          /\ Len(SubSeq(write.data, write.bol + 1, write.bol + n)) = n
      BY <2>2, <3>1, <3>2, UnwrittenPiece
    <3>4. pipe' = pipe \o SubSeq(write.data, write.bol + 1, write.bol + n)
      BY <2>1 DEF WriteStep
    <3>5. Len(pipe') = Len(pipe) + n
      BY <3>1, <3>3, <3>4, ConcatProperties
    <3> QED
      BY <3>5 DEF p
  <2>4. sender # "failed" /\ sender' # "failed"
    BY <2>1 DEF WriteStep
  <2> QED
    BY <1>1, <1>3, <2>2, <2>3, <2>4
<1>5. CASE WriteError
  <2>1. /\ p' = p /\ l' = l /\ w' = w /\ u' = 0
        /\ block' = block
    BY <1>3, <1>5 DEF WriteError, p, l, w
  <2>2. u > 0
    <3>1. sender = "writing" /\ Sent < Len(block)
      BY <1>5 DEF WriteError, IInv, SenderInv
    <3>2. m + p < Len(block) /\ sender # "failed"
      BY <3>1 DEF Sent, m, p
    <3> QED
      BY <1>1, <3>2
  <2> QED
    BY <1>1, <1>3, <2>1, <2>2
<1>6. CASE Read
  <2>1. PICK n \in 1 .. PipeCapacity : ReadStep(n)
    BY <1>6 DEF Read
  <2>2. /\ n \in Nat /\ n > 0 /\ n <= p /\ u' = u /\ l' = l
        /\ pipe' = SubSeq(pipe, n + 1, Len(pipe))
        /\ w = 1
    BY <2>1, SizeAssumption DEF ReadStep, u, l, w, p
  <2>3. p' = p - n
    <3>1. pipe \in Seq(Symbol)
      BY DEF IInv, TypeOK
    <3>2. Len(SubSeq(pipe, n + 1, Len(pipe))) = Len(pipe) - n
      <4>1. \A i \in n + 1 .. Len(pipe) : pipe[i] \in Symbol
        BY <2>2, <3>1
      <4>2. Len(SubSeq(pipe, n + 1, Len(pipe))) =
              IF n + 1 <= Len(pipe) THEN Len(pipe) - (n + 1) + 1 ELSE 0
        BY <2>2, <3>1, <4>1, SubSeqProperties
      <4> QED
        BY <4>2, <2>2, <3>1 DEF p
    <3> QED
      BY <2>2, <3>2 DEF p
  <2>4. \A i, j, k, v \in Nat :
          n <= j /\ v <= 1 =>
            /\ 0 <= 2 * i + (j - n) + k + v
            /\ 2 * i + (j - n) + k + v < 2 * i + j + k + 1
    BY <2>2
  <2>5. w' \in Nat /\ w' <= 1
    BY <1>3
  <2> QED
    BY <1>1, <1>3, <2>2, <2>3, <2>4, <2>5
<1>7. CASE ReadEOF \/ ReadError
  <2>1. u' = u /\ p' = p /\ l' = l /\ w = 1 /\ w' = 0
    BY <1>7 DEF ReadEOF, ReadError, u, p, l, w
  <2> QED
    BY <1>1, <1>3, <2>1
<1>8. CASE LexStep
  <2>1. u' = u /\ p' = p /\ w = 0 /\ w' = 0
    BY <1>8 DEF LexStep, u, p, w
  <2>2. l' = l - 1
    <3>1. lexed \in Seq(Seq(Symbol)) /\ lines \in Seq(Seq(Word)) /\ lines' = lines
      BY <1>8 DEF LexStep, IInv, TypeOK
    <3>2. \E e : lexed' = Append(lexed, e)
      BY <1>8 DEF LexStep
    <3>3. Len(lexed') = Len(lexed) + 1
      BY <3>1, <3>2, AppendProperties
    <3> QED
      BY <3>1, <3>3 DEF l
  <2> QED
    BY <1>1, <1>3, <2>1, <2>2
<1>9. CASE UNCHANGED vars
  BY <1>9
<1>10. ~FinishBlock /\ \A line \in LineChoices : ~Compose(line)
  BY DEF FinishBlock, Compose
<1> QED
  BY <1>4, <1>5, <1>6, <1>7, <1>8, <1>9, <1>10 DEF Next

\* The loops around Write, Read and Lex end: each round leaves less of a
\* natural number to do (buffer.cc:153-272).
THEOREM TransferAdvances == Spec => EachStepAdvances
<1>1. (IInv /\ LinesInv) /\ (IInv /\ LinesInv)' /\ [Next]_vars =>
        [sender # "composing" => 0 <= Remaining' /\ Remaining' < Remaining]_vars
  BY StepAdvances
<1> QED
  BY <1>1, LinesInvariantHolds, PTL DEF Spec, EachStepAdvances

-----------------------------------------------------------------------------
(* The implementation of BlockChannel.                                     *)

\* Nothing is sent, delivered or broken at first.
LEMMA InitIsAbstract == Init => Abstract!Init
  BY DEF Init, Abstract!Init

\* Every step is one of the abstract channel's, or leaves it alone.
LEMMA StepIsAbstract ==
  ASSUME IInv, LinesInv, IInv', LinesPreserved', [Next]_vars
  PROVE  [Abstract!Next]_(Abstract!vars)
<1> DEFINE sent      == IF sender = "composing" THEN <<>> ELSE lines
           delivered == IF receiver = "lexed" THEN lexed ELSE <<>>
           broken    == receiver \in {"eof", "failed", "malformed"}
<1>1. ASSUME NEW line \in LineChoices, Compose(line) PROVE UNCHANGED Abstract!vars
  BY <1>1 DEF Compose, Abstract!vars
<1>2. CASE FinishBlock
  <2>1. /\ sent = <<>> /\ sent' = lines
        /\ UNCHANGED <<delivered, broken>>
    BY <1>2 DEF FinishBlock
  <2>2. lines \in Seq(LineChoices) \ {<<>>}
    BY <1>2 DEF FinishBlock, LinesInv
  <2> QED
    BY <2>1, <2>2 DEF Abstract!Send, Abstract!Next
<1>3. ASSUME NEW n \in 1 .. PipeCapacity, WriteStep(n) PROVE UNCHANGED Abstract!vars
  BY <1>3 DEF WriteStep, Abstract!vars
<1>4. CASE WriteError
  BY <1>4 DEF WriteError, Abstract!vars
<1>5. ASSUME NEW n \in 1 .. PipeCapacity, ReadStep(n) PROVE UNCHANGED Abstract!vars
  <2>1. /\ receiver = "reading" /\ receiver' \in {"complete", "malformed", "reading"}
        /\ UNCHANGED <<sender, lines, lexed>>
    BY <1>5 DEF ReadStep
  <2>2. receiver' # "malformed"
    BY DEF IInv, ReceiverInv
  <2> QED
    BY <2>1, <2>2 DEF Abstract!vars
<1>6. CASE ReadEOF \/ ReadError
  <2>1. /\ delivered = <<>> /\ broken' = TRUE
        /\ UNCHANGED <<sent, delivered>>
    BY <1>6 DEF ReadEOF, ReadError
  <2> QED
    BY <2>1 DEF Abstract!Break, Abstract!Next
<1>7. CASE LexStep
  <2>1. /\ receiver = "complete" /\ receiver' \in {"complete", "lexed"}
        /\ UNCHANGED <<sender, lines>>
    BY <1>7 DEF LexStep
  <2>2. CASE receiver' = "complete"
    BY <2>1, <2>2 DEF Abstract!vars
  <2>3. CASE receiver' = "lexed"
    <3>1. lexed' = lines'
      BY <2>3 DEF LinesPreserved
    <3>2. sender # "composing" /\ lines # <<>>
      BY <2>1 DEF IInv, ReceiverInv, LinesInv
    <3>3. /\ sent # <<>> /\ delivered = <<>> /\ ~broken /\ delivered' = sent
          /\ UNCHANGED <<sent, broken>>
      BY <2>1, <2>3, <3>1, <3>2
    <3> QED
      BY <3>3 DEF Abstract!Deliver, Abstract!Next
  <2> QED
    BY <2>1, <2>2, <2>3
<1>8. CASE UNCHANGED vars
  BY <1>8 DEF vars, Abstract!vars
<1> QED
  BY <1>1, <1>2, <1>3, <1>4, <1>5, <1>6, <1>7, <1>8 DEF Next, Write, Read

\* The transfer implements the channel that README.md speaks of: the receiver
\* gets all the lines of a block, in order and at once, or learns that it
\* will get none.
THEOREM TransferImplementsChannel == Spec => ImplementsBlockChannel
<1>1. IInv /\ LinesInv /\ IInv' /\ LinesPreserved' /\ [Next]_vars
        => [Abstract!Next]_(Abstract!vars)
  BY StepIsAbstract
<1> QED
  BY <1>1, InitIsAbstract, LinesInvariantHolds, LinesArePreserved, PTL
     DEF Spec, ImplementsBlockChannel, Abstract!Spec
=============================================================================
