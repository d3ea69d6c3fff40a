----------------------------- MODULE TurnBased -----------------------------
(***************************************************************************)
(* What a session promises its compiler, without buffers, lines or         *)
(* channels ("Packet Encoding" and "Handshake Request" of README.md): the  *)
(* compiler asks a batch of requests, then waits for the answers to all of *)
(* them, which come together and in order.  Until a handshake has          *)
(* succeeded everything else fails, and it succeeds once.  Answers are     *)
(* missing only when the builder has gone.                                 *)
(***************************************************************************)
EXTENDS Naturals, Sequences

CONSTANTS Request,     \* kinds of requests
          Handshake,   \* the one that connects
          Answers(_),  \* the successful answers to a request
          Failure      \* the answer that says that a request failed

VARIABLES
  batch,      \* the requests asked and not answered yet
  answers,    \* what the last batch was answered
  connected,  \* a handshake has succeeded
  gone        \* the builder has gone

vars == <<batch, answers, connected, gone>>

Init ==
  /\ batch = <<>> /\ answers = <<>>
  /\ connected = FALSE /\ gone = FALSE

Ask ==
  /\ batch = <<>>
  /\ batch' \in Seq(Request) \ {<<>>}
  /\ answers' = <<>>
  /\ UNCHANGED <<connected, gone>>

\* as is a fitting sequence of answers to the batch.
Fits(as) ==
  /\ Len(as) = Len(batch)
  /\ \A i \in 1 .. Len(as) :
       LET before == connected \/ \E j \in 1 .. i - 1 :
                                    batch[j] = Handshake /\ as[j] # Failure
       IN  \/ as[i] = Failure
           \/ /\ as[i] \in Answers(batch[i])
              /\ before # (batch[i] = Handshake)

Answer ==
  /\ batch # <<>>
  /\ Fits(answers')
  /\ connected' = (connected \/ \E i \in 1 .. Len(batch) :
                                  batch[i] = Handshake /\ answers'[i] # Failure)
  /\ batch' = <<>>
  /\ UNCHANGED gone

\* One failure for the whole batch.
Break ==
  /\ batch # <<>>
  /\ gone
  /\ answers' = <<Failure>>
  /\ batch' = <<>>
  /\ UNCHANGED <<connected, gone>>

\* The compiler looks at its answers no more.
Forget ==
  /\ batch = <<>>
  /\ answers' = <<>>
  /\ UNCHANGED <<batch, connected, gone>>

BuilderGoes ==
  /\ gone' = TRUE
  /\ UNCHANGED <<batch, answers, connected>>

Next == Ask \/ Answer \/ Break \/ Forget \/ BuilderGoes

Spec == Init /\ [][Next]_vars
=============================================================================
