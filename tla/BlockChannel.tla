---------------------------- MODULE BlockChannel ----------------------------
(***************************************************************************)
(* What a libcody channel promises for one block ("a block of one or more  *)
(* requests", README.md): the receiver gets all the lines of the block, in *)
(* order and at once, or it gets none and learns that the channel broke.   *)
(***************************************************************************)
EXTENDS Sequences

CONSTANTS LineChoices

VARIABLES
  sent,       \* the lines of the block, empty before it is sent
  delivered,  \* the lines the receiver was given
  broken      \* the receiver knows that no block will come

vars == <<sent, delivered, broken>>

Init ==
  /\ sent = <<>>
  /\ delivered = <<>>
  /\ broken = FALSE

Send ==
  /\ sent = <<>>
  /\ sent' \in Seq(LineChoices) \ {<<>>}
  /\ UNCHANGED <<delivered, broken>>

Deliver ==
  /\ sent # <<>>
  /\ delivered = <<>>
  /\ ~broken
  /\ delivered' = sent
  /\ UNCHANGED <<sent, broken>>

Break ==
  /\ delivered = <<>>
  /\ broken' = TRUE
  /\ UNCHANGED <<sent, delivered>>

Next == Send \/ Deliver \/ Break

Spec == Init /\ [][Next]_vars
=============================================================================
