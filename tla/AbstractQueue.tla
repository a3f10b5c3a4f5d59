--------------------------- MODULE AbstractQueue ---------------------------
(***************************************************************************)
(* What a message queue promises: every message that is put is taken once, *)
(* in the order in which the messages were put.                            *)
(***************************************************************************)
EXTENDS Sequences

CONSTANT Message

VARIABLES queue, taken

Init == queue = <<>> /\ taken = <<>>

Put(m) == queue' = Append(queue, m) /\ UNCHANGED taken

Take ==
  /\ queue # <<>>
  /\ queue' = Tail(queue)
  /\ taken' = Append(taken, Head(queue))

Next == Take \/ \E m \in Message : Put(m)

Spec == Init /\ [][Next]_<<queue, taken>>
=============================================================================
