------------------------------ MODULE IPStats ------------------------------
(***************************************************************************)
(* Request statistics (ipStats.go): every request hands an entry to a      *)
(* goroutine of its own, which offers it to the recorder on the unbuffered *)
(* channel ipsEvents for two seconds; the recorder resolves the country of *)
(* the host and writes the entry into a ring.  The ring is container/ring: *)
(* Size cells and the cell ipsBuffer points to, the one written next.      *)
(*                                                                         *)
(* geoResolveAddr calls a service without a timeout, so the recorder may   *)
(* stay in it for as long as it likes.  _ipsShutdown (package shutdown) is *)
(* external: Start closes Signal, WaitForTimeout returns when Complete was *)
(* called or after a time.                                                 *)
(***************************************************************************)
EXTENDS Naturals, Sequences

CONSTANTS Entry,  \* entries, one for each request
          Size    \* cells of the ring, 1000 in the code

nil == "nil"

ASSUME IPStatsAssumption == Size \in Nat \ {0} /\ nil \notin Entry

VARIABLES
  sender,    \* the goroutine of an entry
  recorder,  \* "select", "resolving", "returned"
  data,      \* the entry the recorder has received
  cells,     \* the ring
  ipsBuffer, \* the cell written next
  signal,    \* Signal is closed
  stopper,   \* ipsShutdown: "none", "waiting", "done", "timeout"
  view       \* what the last ipsGetBuffer returned

statsVars == <<sender, recorder, data, cells, ipsBuffer, signal, stopper, view>>

StatsInit ==
  /\ sender = [e \in Entry |-> "none"]
  /\ recorder = "select"
  /\ data = nil
  /\ cells = [i \in 0..(Size - 1) |-> nil]
  /\ ipsBuffer = 0
  /\ signal = FALSE
  /\ stopper = "none"
  /\ view = <<>>

ipsLogStats(e) ==
  /\ sender[e] = "none"
  /\ sender' = [sender EXCEPT ![e] = "sending"]
  /\ UNCHANGED <<recorder, data, cells, ipsBuffer, signal, stopper, view>>

\* mutant: the sender waits for the recorder or the shutdown, without a timeout
GiveUpOnSignal(e) ==
  /\ sender[e] = "sending" /\ signal
  /\ sender' = [sender EXCEPT ![e] = "dropped"]
  /\ UNCHANGED <<recorder, data, cells, ipsBuffer, signal, stopper, view>>

\* the two other cases of the sender's select: two seconds or the shutdown
GiveUp(e) ==
  /\ sender[e] = "sending"
  /\ sender' = [sender EXCEPT ![e] = "dropped"]
  /\ UNCHANGED <<recorder, data, cells, ipsBuffer, signal, stopper, view>>

Receive(e) ==
  /\ sender[e] = "sending"
  /\ recorder = "select"
  /\ sender' = [sender EXCEPT ![e] = "received"]
  /\ data' = e
  /\ recorder' = "resolving"
  /\ UNCHANGED <<cells, ipsBuffer, signal, stopper, view>>

\* the walk from one cell to the next
nextCell(i) == (i + 1) % Size

\* mutant: the pointer moves before the cell is written
RecordAhead ==
  /\ recorder = "resolving"
  /\ cells' = [cells EXCEPT ![nextCell(ipsBuffer)] = data]
  /\ ipsBuffer' = nextCell(ipsBuffer)
  /\ data' = nil
  /\ recorder' = "select"
  /\ UNCHANGED <<sender, signal, stopper, view>>

\* geoResolveAddr has returned; the entry goes into the ring
Record ==
  /\ recorder = "resolving"
  /\ cells' = [cells EXCEPT ![ipsBuffer] = data]
  /\ ipsBuffer' = nextCell(ipsBuffer)
  /\ data' = nil
  /\ recorder' = "select"
  /\ UNCHANGED <<sender, signal, stopper, view>>

\* the recorder sees Signal and calls Complete on its way out
Return ==
  /\ recorder = "select"
  /\ signal
  /\ recorder' = "returned"
  /\ UNCHANGED <<sender, data, cells, ipsBuffer, signal, stopper, view>>

\* the cells in the order of Do, from ipsBuffer on
walk == [i \in 1..Size |-> cells[(ipsBuffer + i - 1) % Size]]

\* what Do's callback has appended when it has seen all cells of w: those never
\* written are left out
collected(w) ==
  LET tmp[i \in 0..Size] ==
        IF i = 0 THEN <<>>
        ELSE IF w[i] = nil THEN tmp[i - 1] ELSE Append(tmp[i - 1], w[i])
  IN tmp[Size]

ring == collected(walk)

ipsGetBuffer ==
  /\ view' = ring
  /\ UNCHANGED <<sender, recorder, data, cells, ipsBuffer, signal, stopper>>

ipsShutdown ==
  /\ stopper = "none"
  /\ signal' = TRUE
  /\ stopper' = "waiting"
  /\ UNCHANGED <<sender, recorder, data, cells, ipsBuffer, view>>

\* WaitForTimeout
ShutdownReturns ==
  /\ stopper = "waiting"
  /\ stopper' \in {"timeout"} \cup (IF recorder = "returned" THEN {"done"} ELSE {})
  /\ UNCHANGED <<sender, recorder, data, cells, ipsBuffer, signal, view>>

StatsNext ==
  \/ \E e \in Entry : ipsLogStats(e) \/ GiveUp(e) \/ Receive(e)
  \/ Record \/ Return \/ ipsGetBuffer \/ ipsShutdown \/ ShutdownReturns

StatsSpec == StatsInit /\ [][StatsNext]_statsVars

\* Timers fire and goroutines that can run do run.  Record needs an answer of
\* the geo-IP service and gets no fairness.
FairSpec ==
  /\ StatsSpec
  /\ \A e \in Entry : WF_statsVars(GiveUp(e))
  /\ WF_statsVars(Return)

-----------------------------------------------------------------------------
IPStatsTypeOK ==
  /\ sender \in [Entry -> {"none", "sending", "received", "dropped"}]
  /\ recorder \in {"select", "resolving", "returned"}
  /\ data \in Entry \cup {nil}
  /\ cells \in [0..(Size - 1) -> Entry \cup {nil}]
  /\ ipsBuffer \in 0..(Size - 1)
  /\ signal \in BOOLEAN
  /\ stopper \in {"none", "waiting", "done", "timeout"}

inHand == {e \in Entry : data = e}

Log == INSTANCE BoundedLog WITH
         pending <- {e \in Entry : sender[e] = "sending"} \cup inHand,
         settled <- {e \in Entry : sender[e] \in {"received", "dropped"}} \ inHand,
         log <- ring,
         closed <- (recorder = "returned")

\* The ring implements the bounded log: ipsGetBuffer returns the last Size
\* entries recorded, oldest first, each once, through any number of turns of
\* the ring; and nothing is recorded once the recorder has called Complete.
ImplementsBoundedLog == Log!Spec

\* A sender's goroutine never leaks: it ends even when the recorder hangs in
\* the geo-IP service, or is gone.
SendersEnd == \A e \in Entry : sender[e] = "sending" ~> sender[e] # "sending"
=============================================================================
