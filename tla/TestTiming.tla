----------------------------- MODULE TestTiming -----------------------------
(***************************************************************************)
(* One test at its two ends against the clock: when each end starts, the   *)
(* deadline run_protocol puts around it, and the client's wait for the     *)
(* server's report in execute_batch.  What the two ends do meanwhile is in *)
(* modules TcpExchange and UdpExchange.  Time is discrete: Second ticks to *)
(* the second, and everything that is due happens before the next tick;    *)
(* what is due in the same tick happens in any order.                      *)
(***************************************************************************)
EXTENDS Integers, Verdict

CONSTANTS
  Second,       \* ticks of a second, a multiple of ten
  Timeouts,     \* --timeout, in ticks
  Delays,       \* delays of the control connection, in ticks
  None,         \* no result, no verdict yet
  GaveUp        \* "timeout waiting for server reports"

ASSUME TimingAssumption ==
  /\ Second \in Nat \ {0} /\ Second % 10 = 0
  /\ Timeouts \subseteq Nat \ {0} /\ Delays \subseteq Nat
  /\ None # GaveUp /\ {None, GaveUp} \cap ProtocolResult = {}

VARIABLES
  client,     \* which end of the test the client runs
  timeout,    \* --timeout
  delay,      \* one way over the control connection
  phase,      \* of each end: "idle", "running", "over"
  left,       \* ticks until the end starts; then until its deadline; then
              \* until the client gives up, or until the report is there
  result,     \* what each end observed
  verdict     \* what the client makes of it

timingVars == <<client, timeout, delay, phase, left, result, verdict>>
setup == <<client, timeout, delay>>

Ends == {"initiator", "target"}
Other(e) == CHOOSE f \in Ends : f # e
Server == Other(client)

\* The client starts its end when it has sent BatchEnd, the server when it
\* has received it.
TimingInit ==
  /\ client \in Ends
  /\ timeout \in Timeouts
  /\ delay \in Delays
  /\ phase = [e \in Ends |-> "idle"]
  /\ left = [e \in Ends |-> IF e = client THEN 0 ELSE delay]
  /\ result = [e \in Ends |-> None]
  /\ verdict = None

Running(e) == phase[e] = "running"
Over(e) == phase[e] = "over"

\* run_protocol allows two seconds on top of the timeout; the dns test has an
\* earlier deadline of its own.
Deadline == timeout + 2 * Second
Allowed(test) == IF test = "dns" THEN timeout ELSE Deadline

Starts(e, allowed) ==
  /\ phase[e] = "idle" /\ left[e] = 0
  /\ phase' = [phase EXCEPT ![e] = "running"]
  /\ left' = [left EXCEPT ![e] = allowed]
  /\ UNCHANGED <<setup, result, verdict>>

\* receive_timeout allows a tenth of a second more.
ReportWait_NoMargin == Deadline
ReportWait == timeout + 2 * Second + Second \div 10

\* An end has its result; the server's report takes delay to the client.
Finishes(e, outcome) ==
  /\ Running(e)
  /\ phase' = [phase EXCEPT ![e] = "over"]
  /\ result' = [result EXCEPT ![e] = outcome]
  /\ left' = [left EXCEPT ![e] = IF e = client THEN ReportWait ELSE delay]
  /\ UNCHANGED <<setup, verdict>>

\* The deadline ends what an end is doing.
DeadlinePasses(e) == Running(e) /\ left[e] = 0 /\ Finishes(e, Fail("deadline"))

\* The client reads the report once its own end is over.
ReportThere == verdict = None /\ Over(client) /\ Over(Server) /\ left[Server] = 0

ReadReport ==
  /\ ReportThere
  /\ verdict' = Combine(result[client], result[Server])
  /\ UNCHANGED <<setup, phase, left, result>>

GiveUp ==
  /\ verdict = None /\ Over(client) /\ left[client] = 0
  /\ verdict' = GaveUp
  /\ UNCHANGED <<setup, phase, left, result>>

Decided == verdict # None

\* A tick, when nothing is due.
TimingTick ==
  /\ ~Decided /\ ~ReportThere
  /\ \A e \in Ends : left[e] > 0 \/ (e = Server /\ Over(e))
  /\ left' = [e \in Ends |-> IF left[e] > 0 THEN left[e] - 1 ELSE 0]
  /\ UNCHANGED <<setup, phase, result, verdict>>

-----------------------------------------------------------------------------
\* receive_timeout is long enough: over a control connection whose round trip
\* takes less than a tenth of a second, the client never gives up on a server
\* that runs its end to the very deadline, even if its own end failed at once.
ReportInTime == 2 * delay * 10 < Second => verdict # GaveUp

\* "Candidate allow rules (successful tests only)": a PASS is told only when
\* both ends observed one.
PassNeedsBoth ==
  Decided /\ verdict # GaveUp /\ verdict.status = "pass" =>
    \A e \in Ends : result[e] = Pass
=============================================================================
