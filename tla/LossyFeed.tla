----------------------------- MODULE LossyFeed -----------------------------
(***************************************************************************)
(* What a drop-oldest audio channel promises: the receiver sees frames     *)
(* that were sent, in order and none twice, and may miss any of them.      *)
(***************************************************************************)
EXTENDS Naturals

VARIABLES
  sent,     \* frames sent so far; they are numbered 1 .. sent
  received  \* the newest frame received

Init == sent = 0 /\ received = 0

Send == sent' = sent + 1 /\ UNCHANGED received

Receive == received' \in received + 1 .. sent /\ UNCHANGED sent

Next == Send \/ Receive

Spec == Init /\ [][Next]_<<sent, received>>
=============================================================================
