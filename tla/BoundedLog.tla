----------------------------- MODULE BoundedLog -----------------------------
(***************************************************************************)
(* What the request statistics promise: a log of the last Size entries     *)
(* that were accepted, in the order of acceptance.  An entry that was      *)
(* submitted is accepted at most once or dropped; after Close nothing is   *)
(* accepted; a reader sees the whole log as it is at one moment.           *)
(***************************************************************************)
EXTENDS Naturals, Sequences

CONSTANTS Entry, Size

VARIABLES pending,  \* submitted, neither accepted nor dropped
          log,      \* the last accepted entries, oldest first
          settled,  \* accepted or dropped
          closed,
          view      \* what the last reader got

vars == <<pending, log, settled, closed, view>>

Init ==
  /\ pending = {} /\ settled = {}
  /\ log = <<>> /\ view = <<>>
  /\ closed = FALSE

lastOf(s) == SubSeq(s, IF Len(s) > Size THEN Len(s) - Size + 1 ELSE 1, Len(s))

Submit(e) ==
  /\ e \notin pending \cup settled
  /\ pending' = pending \cup {e}
  /\ UNCHANGED <<log, settled, closed, view>>

Settle(e) ==
  /\ e \in pending
  /\ pending' = pending \ {e}
  /\ settled' = settled \cup {e}

Accept(e) ==
  /\ ~closed
  /\ Settle(e)
  /\ log' = lastOf(Append(log, e))
  /\ UNCHANGED <<closed, view>>

Drop(e) == Settle(e) /\ UNCHANGED <<log, closed, view>>

Close == closed' = TRUE /\ UNCHANGED <<pending, log, settled, view>>

Read == view' = log /\ UNCHANGED <<pending, log, settled, closed>>

Next == \/ \E e \in Entry : Submit(e) \/ Accept(e) \/ Drop(e)
        \/ Close
        \/ Read

Spec == Init /\ [][Next]_vars
=============================================================================
