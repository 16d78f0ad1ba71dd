--------------------------- MODULE ControlMailbox ---------------------------
(***************************************************************************)
(* What the outbound control channel promises its callers: of each kind of *)
(* command at most one request is outstanding at the sidecar and at most   *)
(* one more waits; a newer request replaces the waiting one; every request *)
(* is settled exactly once; after the end of the session nothing is open.  *)
(***************************************************************************)
EXTENDS Naturals

CONSTANTS
  Kinds,    \* kinds of commands that are answered
  Requests  \* names of requests

VARIABLES
  open,         \* the unsettled requests of each kind
  outstanding,  \* those the sidecar has been sent
  settled,      \* requests that have been settled
  closed        \* the session is over

vars == <<open, outstanding, settled, closed>>

Init ==
  /\ open = [k \in Kinds |-> {}] /\ outstanding = [k \in Kinds |-> {}]
  /\ settled = {} /\ closed = FALSE

Fresh(r) == r \notin settled /\ \A k \in Kinds : r \notin open[k]

Ask(k, r) ==
  /\ Fresh(r) /\ ~closed
  /\ open' = [open EXCEPT ![k] = outstanding[k] \cup {r}]
  /\ settled' = settled \cup (open[k] \ outstanding[k])
  /\ UNCHANGED <<outstanding, closed>>

Refuse(r) ==
  /\ Fresh(r) /\ closed
  /\ settled' = settled \cup {r}
  /\ UNCHANGED <<open, outstanding, closed>>

Transmit(k) ==
  /\ outstanding[k] = {} /\ open[k] # {}
  /\ outstanding' = [outstanding EXCEPT ![k] = open[k]]
  /\ UNCHANGED <<open, settled, closed>>

Settle(k) ==
  /\ outstanding[k] # {}
  /\ open' = [open EXCEPT ![k] = @ \ outstanding[k]]
  /\ outstanding' = [outstanding EXCEPT ![k] = {}]
  /\ settled' = settled \cup outstanding[k]
  /\ UNCHANGED closed

Close ==
  /\ open' = [k \in Kinds |-> {}] /\ outstanding' = [k \in Kinds |-> {}]
  /\ settled' = settled \cup UNION {open[k] : k \in Kinds}
  /\ closed' = TRUE

Next ==
  \/ \E k \in Kinds : Transmit(k) \/ Settle(k) \/ \E r \in Requests : Ask(k, r)
  \/ \E r \in Requests : Refuse(r)
  \/ Close

Spec == Init /\ [][Next]_vars
=============================================================================
