------------------------------ MODULE UdpProofs ------------------------------
(***************************************************************************)
(* Theorems about module UdpExchange and the clock it shares with          *)
(* TcpExchange (module TestTiming), for every timeout, every delay of the  *)
(* control connection, every latency and any number of faults.  The        *)
(* inductive invariant has three parts:                                    *)
(*   ClockInv   what the ends hold and when the server's report is there   *)
(*              at the latest; every step of UdpExchange is a step of the  *)
(*              clock (ClockStep), so only those are looked at;            *)
(*   TripInv    what a datagram on its way, or buffered, says of the       *)
(*              network and of the target;                                 *)
(*   OnCourse   where a test is that nothing but losses and datagrams of   *)
(*              others disturb, with more attempts in time than it can     *)
(*              still lose.                                                *)
(***************************************************************************)
EXTENDS UdpExchange, FiniteSetTheorems, TLAPS

-----------------------------------------------------------------------------
(* The clock. *)

ClockType ==
  /\ client \in Ends /\ timeout \in Nat /\ delay \in Nat
  /\ phase \in [Ends -> {"idle", "running", "over"}]
  /\ left \in [Ends -> Nat]
  /\ result \in [Ends -> Observations \cup {None}]

\* A verdict is made of two results.
VerdictMade ==
  Decided /\ verdict # GaveUp =>
    /\ \A e \in Ends : Over(e) /\ result[e] \in Observations
    /\ verdict = Combine(result[client], result[Server])

\* An end that is over has a result, and no other one.
ResultsThere ==
  \A e \in Ends : IF Over(e) THEN result[e] \in Observations ELSE result[e] = None

\* Ticks until the server's report is at the client, at the latest.
ReportDue ==
  CASE Over(Server)    -> left[Server]
    [] Running(Server) -> left[Server] + delay
    [] OTHER           -> left[Server] + Deadline + delay

\* The report comes before the client's patience is over.
ReportFirst ==
  /\ ReportDue <= 2 * delay + Deadline
  /\ 2 * delay * 10 < Second =>
       /\ verdict # GaveUp
       /\ verdict = None /\ Over(client) => ReportDue < left[client]

ClockInv == ClockType /\ VerdictMade /\ ResultsThere /\ ReportFirst

\* A step as the clock sees it.
ClockStep ==
  \/ \E e \in Ends : Starts(e, Allowed(test))
  \/ \E e \in Ends, o \in Observations : Finishes(e, o)
  \/ ReadReport
  \/ GiveUp
  \/ TimingTick
  \/ UNCHANGED timingVars

LEMMA OtherEnd ==
  /\ Other("initiator") = "target"
  /\ Other("target") = "initiator"
<1>1. \A f \in Ends : f # "initiator" => f = "target"
  BY DEF Ends
<1>2. \A f \in Ends : f # "target" => f = "initiator"
  BY DEF Ends
<1> QED
  BY <1>1, <1>2 DEF Other, Ends

\* The two ends are the client's and the server's.
LEMMA TwoEnds ==
  ASSUME client \in Ends
  PROVE  Server \in Ends /\ Server # client /\ \A e \in Ends : e = client \/ e = Server
BY OtherEnd DEF Server, Ends

\* An observation that passed carries no reason, any other one does.
LEMMA ObservationFacts ==
  ASSUME NEW o \in Observations
  PROVE  /\ o \in ProtocolResult
         /\ o.status = "pass" => o = Pass
         /\ o.reason = NoReason => o = Pass
<1> DEFINE seen(status, reason) == [status |-> status, reason |-> reason, relayed |-> FALSE]
<1>1. CASE o = Pass
  BY <1>1 DEF Pass, Observed, ProtocolResult, Statuses
<1>2. CASE \E r \in Reasons : o = seen("fail", r) \/ o = seen("error", r)
  <2>1. PICK r \in Reasons : o = seen("fail", r) \/ o = seen("error", r)
    BY <1>2
  <2>2. o.reason = r /\ o.status # "pass"
    BY <2>1
  <2>3. seen("fail", r) \in ProtocolResult /\ seen("error", r) \in ProtocolResult
    BY DEF ProtocolResult, Statuses
  <2> QED
    BY <2>1, <2>2, <2>3, ReasonsAssumption
<1> QED
  BY <1>1, <1>2 DEF Observations, Fail, Error, Observed

\* Combine: a pass is one at both ends, and a verdict is neither None nor
\* GaveUp.
LEMMA CombineFacts ==
  ASSUME NEW a \in Observations, NEW b \in Observations
  PROVE  /\ Combine(a, b) # None /\ Combine(a, b) # GaveUp
         /\ Combine(a, b).status = "pass" => a = Pass /\ b = Pass
<1>1. a \in ProtocolResult /\ b \in ProtocolResult
  BY ObservationFacts
<1>2. Combine(a, b) \in ProtocolResult
  BY <1>1 DEF Combine, Reconcile, protocol_result_to_report, ProtocolResult, Statuses
<1>3. Combine(a, b).status = "pass" => a.status = "pass" /\ b.reason = NoReason
  BY DEF Combine, Reconcile, protocol_result_to_report
<1> QED
  BY <1>2, <1>3, ObservationFacts, TimingAssumption

\* No deadline of a test is later than run_protocol's.
LEMMA AllowedFacts ==
  ASSUME timeout \in Nat
  PROVE  Allowed(test) \in Nat /\ Deadline \in Nat /\ Allowed(test) <= Deadline
BY TimingAssumption DEF Allowed, Deadline

-----------------------------------------------------------------------------
(* What a step of the clock does to its invariant. *)

LEMMA ClockInvInit ==
  ASSUME TimingInit
  PROVE  ClockInv
<1>1. client \in Ends /\ timeout \in Nat /\ delay \in Nat
  BY TimingAssumption DEF TimingInit
<1>2. /\ ClockType /\ verdict = None
      /\ \A e \in Ends : phase[e] = "idle" /\ result[e] = None
  BY <1>1 DEF ClockType, TimingInit
<1>3. ReportDue = 2 * delay + Deadline
  BY <1>1, <1>2, TwoEnds, TimingAssumption
     DEF ReportDue, TimingInit, Running, Over, Deadline
<1> QED
  BY <1>1, <1>2, <1>3, TwoEnds, TimingAssumption, AllowedFacts
     DEF ClockInv, VerdictMade, ResultsThere, ReportFirst, Decided, Over

LEMMA ClockTypeKept ==
  ASSUME ClockType, ClockStep
  PROVE  ClockType'
<1> USE DEF ClockType
<1>1. ASSUME NEW e \in Ends, Starts(e, Allowed(test)) PROVE ClockType'
  <2>1. Allowed(test) \in Nat
    BY AllowedFacts
  <2> QED
    BY <1>1, <2>1 DEF Starts, setup
<1>2. ASSUME NEW e \in Ends, NEW o \in Observations, Finishes(e, o) PROVE ClockType'
  <2>1. ReportWait \in Nat
    BY TimingAssumption DEF ReportWait
  <2>2. left' \in [Ends -> Nat]
    BY <1>2, <2>1 DEF Finishes
  <2>3. phase' \in [Ends -> {"idle", "running", "over"}]
    BY <1>2 DEF Finishes
  <2>4. result' \in [Ends -> Observations \cup {None}]
    BY <1>2 DEF Finishes
  <2> QED
    BY <1>2, <2>2, <2>3, <2>4 DEF Finishes, setup
<1>3. ASSUME ReadReport \/ GiveUp \/ UNCHANGED timingVars PROVE ClockType'
  BY <1>3 DEF ReadReport, GiveUp, timingVars, setup
<1>4. ASSUME TimingTick PROVE ClockType'
  BY <1>4 DEF TimingTick, setup
<1> QED
  BY <1>1, <1>2, <1>3, <1>4 DEF ClockStep

LEMMA ResultsKept ==
  ASSUME ClockType, ResultsThere, VerdictMade, ClockStep, ~Decided
  PROVE  ResultsThere' /\ VerdictMade'
<1>1. ASSUME NEW e \in Ends, Starts(e, Allowed(test)) PROVE ResultsThere' /\ VerdictMade'
  BY <1>1 DEF Starts, setup, ResultsThere, VerdictMade, Over, Decided, ClockType
<1>2. ASSUME NEW e \in Ends, NEW o \in Observations, Finishes(e, o)
      PROVE ResultsThere' /\ VerdictMade'
  BY <1>2 DEF Finishes, setup, ResultsThere, VerdictMade, Over, Decided, ClockType
<1>3. ASSUME ReadReport PROVE ResultsThere' /\ VerdictMade'
  <2>1. \A e \in Ends : Over(e)
    BY <1>3, TwoEnds DEF ReadReport, ReportThere, ClockType
  <2>2. Server' = Server
    BY <1>3 DEF ReadReport, setup, Server
  <2> QED
    BY <1>3, <2>1, <2>2 DEF ReadReport, setup, ResultsThere, VerdictMade, Over
<1>4. ASSUME GiveUp \/ TimingTick \/ UNCHANGED timingVars PROVE ResultsThere' /\ VerdictMade'
  BY <1>4 DEF GiveUp, TimingTick, timingVars, setup, ResultsThere, VerdictMade, Over, Decided
<1> QED
  BY <1>1, <1>2, <1>3, <1>4 DEF ClockStep

\* ReportDue does not depend on what a client's step leaves alone.
LEMMA ReportFirstKept ==
  ASSUME ClockType, ClockType', ResultsThere, ReportFirst, ClockStep, ~Decided
  PROVE  ReportFirst'
<1> DEFINE margin == Second \div 10
<1>0. /\ client \in Ends /\ Server \in Ends /\ Server # client
      /\ \A e \in Ends : e = client \/ e = Server
  BY TwoEnds DEF ClockType
<1>1. /\ timeout \in Nat /\ delay \in Nat /\ Deadline \in Nat /\ Second \in Nat
      /\ margin \in Nat /\ ReportWait = Deadline + margin
  BY TimingAssumption, AllowedFacts DEF ClockType, Deadline, ReportWait
<1>2. 2 * delay * 10 < Second => 2 * delay < margin
  BY <1>1, TimingAssumption
<1>3. /\ left \in [Ends -> Nat] /\ left' \in [Ends -> Nat]
      /\ left[Server] \in Nat /\ left[client] \in Nat
      /\ left'[Server] \in Nat /\ left'[client] \in Nat
  BY <1>0 DEF ClockType
<1>4. UNCHANGED <<client, timeout, delay>> /\ Server' = Server /\ Deadline' = Deadline
  BY DEF ClockStep, Starts, Finishes, ReadReport, GiveUp, TimingTick, timingVars, setup,
         Server, Deadline
<1>5. ReportDue \in Nat
  BY <1>1, <1>3 DEF ReportDue
<1>6. verdict = None
  BY DEF Decided
<1>7. ASSUME NEW e \in Ends, Starts(e, Allowed(test)) PROVE ReportFirst'
  <2>1. Allowed(test) \in Nat /\ Allowed(test) <= Deadline
    BY <1>1, AllowedFacts
  <2>2. UNCHANGED verdict /\ (Over(client)' => Over(client))
    BY <1>4, <1>7 DEF Starts, Over, ClockType
  <2>3. CASE e = client
    <3>1. ReportDue' = ReportDue /\ ~Over(client)'
      BY <1>0, <1>4, <1>7, <2>3 DEF Starts, ReportDue, Over, Running, ClockType
    <3> QED
      BY <1>4, <1>6, <2>2, <3>1, <1>1 DEF ReportFirst, Starts
  <2>4. CASE e = Server
    <3>1. ReportDue' = Allowed(test) + delay /\ ReportDue = left[Server] + Deadline + delay
      BY <1>0, <1>4, <1>7, <2>4 DEF Starts, ReportDue, Over, Running, ClockType
    <3>2. left'[client] = left[client]
      BY <1>0, <1>7, <2>4 DEF Starts, ClockType
    <3>3. ReportDue' <= ReportDue
      BY <1>1, <1>3, <2>1, <3>1
    <3> QED
      BY <1>1, <1>3, <1>4, <1>5, <1>6, <2>1, <2>2, <3>1, <3>2, <3>3 DEF ReportFirst
  <2> QED
    BY <1>0, <2>3, <2>4
<1>8. ASSUME NEW e \in Ends, NEW o \in Observations, Finishes(e, o) PROVE ReportFirst'
  <2>1. UNCHANGED verdict
    BY <1>8 DEF Finishes
  <2>2. CASE e = client
    <3>1. ReportDue' = ReportDue /\ left'[client] = ReportWait
      BY <1>0, <1>4, <1>8, <2>2 DEF Finishes, ReportDue, Over, Running, ClockType
    <3> QED
      BY <1>1, <1>2, <1>3, <1>4, <1>5, <1>6, <2>1, <3>1 DEF ReportFirst
  <2>3. CASE e = Server
    <3>1. ReportDue' = delay /\ ReportDue = left[Server] + delay
      BY <1>0, <1>4, <1>8, <2>3 DEF Finishes, ReportDue, Over, Running, ClockType
    <3>2. left'[client] = left[client] /\ Over(client)' = Over(client)
      BY <1>0, <1>4, <1>8, <2>3 DEF Finishes, Over, ClockType
    <3> QED
      BY <1>1, <1>3, <1>4, <1>5, <1>6, <2>1, <3>1, <3>2 DEF ReportFirst
  <2> QED
    BY <1>0, <2>2, <2>3
<1>9. ASSUME ReadReport PROVE ReportFirst'
  <2>1. UNCHANGED <<phase, left>> /\ ReportDue' = ReportDue /\ Over(client)' = Over(client)
    BY <1>4, <1>9 DEF ReadReport, ReportDue, Over, Running
  <2>2. verdict' # None /\ verdict' # GaveUp
    BY <1>0, <1>9, CombineFacts DEF ReadReport, ReportThere, ResultsThere
  <2> QED
    BY <1>4, <2>1, <2>2 DEF ReportFirst
<1>10. ASSUME GiveUp PROVE ReportFirst'
  <2>1. UNCHANGED <<phase, left>> /\ ReportDue' = ReportDue
    BY <1>4, <1>10 DEF GiveUp, ReportDue, Over, Running
  <2>2. ~(2 * delay * 10 < Second)
    BY <1>3, <1>5, <1>10 DEF GiveUp, ReportFirst
  <2> QED
    BY <1>4, <2>1, <2>2 DEF ReportFirst
<1>11. ASSUME TimingTick PROVE ReportFirst'
  <2>1. UNCHANGED <<phase, verdict>> /\ Over(client)' = Over(client)
    BY <1>4, <1>11 DEF TimingTick, Over
  <2>2. left'[client] = left[client] - 1
    BY <1>0, <1>3, <1>11 DEF TimingTick
  <2>3. CASE left[Server] > 0
    <3>1. left'[Server] = left[Server] - 1
      BY <1>0, <1>11, <2>3 DEF TimingTick
    <3>2. ReportDue' = ReportDue - 1
      BY <1>1, <1>3, <1>4, <2>1, <3>1 DEF ReportDue, Over, Running
    <3> QED
      BY <1>1, <1>3, <1>4, <1>5, <2>1, <2>2, <3>2 DEF ReportFirst
  <2>4. CASE left[Server] = 0
    <3>1. Over(Server) /\ ~Over(client)
      BY <1>0, <1>6, <1>11, <2>4 DEF TimingTick, ReportThere
    <3>2. left'[Server] = 0
      BY <1>0, <1>11, <2>4 DEF TimingTick
    <3>3. ReportDue' = 0
      BY <1>4, <2>1, <3>1, <3>2 DEF ReportDue, Over, Running
    <3> QED
      BY <1>1, <1>4, <2>1, <3>1, <3>3 DEF ReportFirst
  <2> QED
    BY <1>3, <2>3, <2>4
<1>12. ASSUME UNCHANGED timingVars PROVE ReportFirst'
  BY <1>4, <1>12 DEF timingVars, ReportFirst, ReportDue, Over, Running
<1> QED
  BY <1>7, <1>8, <1>9, <1>10, <1>11, <1>12 DEF ClockStep

-----------------------------------------------------------------------------
(* Every step of UdpExchange is one of the clock. *)

\* An observation of a test over UDP.
LEMMA OutcomesObserved ==
  /\ Pass \in Observations /\ Error("bind") \in Observations
  /\ \A reason \in {"send", "unexpected", "timeout", "mismatch", "differs", "recv", "dns", "deadline"} :
       Fail(reason) \in Observations
BY UdpAssumption DEF Observations

\* What an attempt that fails does to the clock.
LEMMA AttemptFailsClock ==
  ASSUME NEW number, NEW reason, NEW unread, AttemptFails(number, reason, unread),
         reason \in {"send", "unexpected", "timeout"}
  PROVE  \/ UNCHANGED timingVars
         \/ \E e \in Ends, o \in Observations : Finishes(e, o)
BY OutcomesObserved DEF AttemptFails, Returns, Ends

LEMMA EveryStepIsClockStep ==
  ASSUME [Next]_vars
  PROVE  /\ ClockStep \/ UNCHANGED vars
         /\ UNCHANGED vars \/ ~Decided
<1>1. ASSUME InitiatorStarts \/ TargetStarts PROVE ClockStep
  BY <1>1 DEF InitiatorStarts, TargetStarts, ClockStep, Ends
<1>2. ASSUME SendsAgain PROVE ClockStep
  <2>1. CASE net.sendable
    BY <1>2, <2>1 DEF SendsAgain, ClockStep
  <2>2. CASE ~net.sendable
    BY <1>2, <2>2, AttemptFailsClock DEF SendsAgain, ClockStep
  <2> QED
    BY <2>1, <2>2
<1>3. ASSUME InitiatorReceives PROVE ClockStep
  <2>1. CASE FromTarget(Head(inbox["initiator"]))
    BY <1>3, <2>1, OutcomesObserved DEF InitiatorReceives, Returns, ClockStep, Ends
  <2>2. CASE ~FromTarget(Head(inbox["initiator"]))
    BY <1>3, <2>2, AttemptFailsClock DEF InitiatorReceives, ClockStep
  <2> QED
    BY <2>1, <2>2
<1>4. ASSUME InitiatorReceivesAnswer PROVE ClockStep
  <2>1. CASE ValidAnswer(Head(inbox["initiator"]))
    BY <1>4, <2>1, OutcomesObserved DEF InitiatorReceivesAnswer, Returns, ClockStep, Ends
  <2>2. CASE ~ValidAnswer(Head(inbox["initiator"]))
    BY <1>4, <2>2, AttemptFailsClock DEF InitiatorReceivesAnswer, ClockStep
  <2> QED
    BY <2>1, <2>2
<1>5. ASSUME NoReply PROVE ClockStep
  BY <1>5, AttemptFailsClock DEF NoReply, ClockStep
<1>6. ASSUME BindFails \/ TargetReceives \/ TargetReceivesQuery \/ WindowEnds PROVE ClockStep
  BY <1>6, OutcomesObserved
     DEF BindFails, TargetReceives, TargetReceivesQuery, WindowEnds, Returns, ClockStep, Ends
<1>7. ASSUME NEW e \in Ends, CutShort(e) \/ Arrives(e) \/ Loses(e) \/ Doubles(e) \/ Foreign(e)
      PROVE  ClockStep
  BY <1>7, OutcomesObserved
     DEF CutShort, DeadlinePasses, Arrives, Loses, Doubles, Foreign, ClockStep
<1>8. ASSUME Reports \/ Tick PROVE ClockStep
  BY <1>8 DEF Reports, Tick, ClockStep
<1> QED
  BY <1>1, <1>2, <1>3, <1>4, <1>5, <1>6, <1>7, <1>8 DEF Next, Steps, ClockStep, vars

LEMMA ClockInvariant == Spec => []ClockInv
<1>1. Init => ClockInv
  BY ClockInvInit DEF Init
<1>2. ClockInv /\ [Next]_vars => ClockInv'
  <2> SUFFICES ASSUME ClockInv, [Next]_vars PROVE ClockInv'
    OBVIOUS
  <2>1. CASE UNCHANGED vars
    BY <2>1 DEF vars, timingVars, ClockInv, ClockType, VerdictMade, ResultsThere, ReportFirst,
                ReportDue, Decided, Over, Running, Server, Deadline
  <2>2. CASE ClockStep /\ ~Decided
    BY <2>2, ClockTypeKept, ResultsKept, ReportFirstKept DEF ClockInv
  <2> QED
    BY <2>1, <2>2, EveryStepIsClockStep
<1> QED
  BY <1>1, <1>2, PTL DEF Spec

\* The client never gives up on a server whose report is to come (receive_timeout
\* and the deadline of run_protocol), over a control connection whose round trip
\* takes less than a tenth of a second: whatever the two ends do meanwhile.
THEOREM ReportsInTime == Spec => []ReportInTime
<1>1. ClockInv => ReportInTime
  BY DEF ClockInv, ReportFirst, ReportInTime
<1> QED
  BY <1>1, ClockInvariant, PTL

\* A test is told as passed only when both ends observed that it passed.
THEOREM PassNeedsBothEnds == Spec => []PassNeedsBoth
<1>1. ClockInv => PassNeedsBoth
  <2> SUFFICES ASSUME ClockInv, Decided, verdict # GaveUp, verdict.status = "pass",
                      NEW e \in Ends
               PROVE  result[e] = Pass
    BY DEF PassNeedsBoth
  <2>1. client \in Ends
    BY DEF ClockInv, ClockType
  <2> QED
    BY <2>1, TwoEnds, CombineFacts DEF ClockInv, VerdictMade
<1> QED
  BY <1>1, ClockInvariant, PTL

-----------------------------------------------------------------------------
(* The round trip. *)

Held(e, datagram) == \E i \in DOMAIN inbox[e] : inbox[e][i] = datagram

TripType ==
  /\ net.altered \subseteq {"request", "reply", "source"}
  /\ net.blocked \subseteq Ends
  /\ net.part \in Parts
  /\ flight \in [Ends -> Seq(Int)]
  /\ inbox \in [Ends -> Seq({"request", "reply", "foreign", "stale"})]

\* Nothing is on its way to an end that is blocked, and no request was heard.
NothingBlocked ==
  /\ \A e \in Ends : flight[e] # <<>> => e \notin net.blocked
  /\ Held("target", "request") => "target" \notin net.blocked

\* The target answered a request, so that both ends are reached and what it
\* looked at was not altered.
Answered ==
  /\ result["target"] = Pass
  /\ net.blocked = {}
  /\ IF test = "dns" THEN Parses(QueryRead(Query, net.altered, net.part))
     ELSE "request" \notin net.altered

\* A reply is one of a target that answered.
RepliesAnswered == flight["initiator"] # <<>> \/ Held("initiator", "reply") => Answered

TripInv == TripType /\ NothingBlocked /\ RepliesAnswered /\ PassMeansRoundTrip

\* validate_dns_response on an answer to a query that could be parsed: what the
\* network altered is nothing the test looks at.
LEMMA AnswerUnseen ==
  ASSUME NEW altered, NEW part \in Parts,
         Parses(QueryRead(Query, altered, part)),
         validate_dns_response(Query, ResponseRead(Query, altered, part))
  PROVE  Unseen(altered, part)
<1> DEFINE read == QueryRead(Query, altered, part)
           response == build_dns_response(read)
<1>1. Query = [id |-> 0, kind |-> "query", queries |-> <<"bimap.test">>, answers |-> <<>>]
  BY DEF Query, build_dns_query
<1>2. CASE part = "answer"
  BY <1>2 DEF Unseen
<1>3. CASE part = "form"
  <2>1. "request" \notin altered
    BY <1>1, <1>3 DEF QueryRead, Altered, Parses
  <2>2. "reply" \notin altered
    BY <1>1, <1>3 DEF ResponseRead, build_dns_response, QueryRead, Altered, Parses,
                      validate_dns_response
  <2> QED
    BY <2>1, <2>2 DEF Unseen
<1>4. CASE part = "id"
  <2>1. read.id = IF "request" \in altered THEN 1 ELSE 0
    BY <1>1, <1>4 DEF QueryRead, Altered
  <2>2. ResponseRead(Query, altered, part).id = IF "reply" \in altered THEN read.id + 1 ELSE read.id
    BY <1>4 DEF ResponseRead, build_dns_response, Altered
  <2>3. ResponseRead(Query, altered, part).id = 0
    BY <1>1 DEF validate_dns_response
  <2> QED
    BY <2>1, <2>2, <2>3 DEF Unseen
<1>5. CASE part = "kind"
  <2>1. "reply" \notin altered
    BY <1>5 DEF ResponseRead, build_dns_response, Altered, validate_dns_response
  <2> QED
    BY <1>5, <2>1 DEF Unseen
<1>6. CASE part = "question"
  <2>1. read.queries = IF "request" \in altered THEN <<"bimap.test", "other">> ELSE <<"bimap.test">>
    BY <1>1, <1>6 DEF QueryRead, Altered
  <2>2. ResponseRead(Query, altered, part).queries
          = IF "reply" \in altered THEN Append(read.queries, "other") ELSE read.queries
    BY <1>6 DEF ResponseRead, build_dns_response, Altered
  <2>3. ResponseRead(Query, altered, part).queries = <<"bimap.test">>
    BY <1>1 DEF validate_dns_response
  <2>4. PICK q, r : q = read.queries /\ r = ResponseRead(Query, altered, part).queries
    OBVIOUS
  <2>5. q \in Seq({"bimap.test", "other"}) /\ Len(q) \in {1, 2} /\ ("request" \in altered => Len(q) = 2)
    <3>1. \A S : \A x, y \in S : /\ <<x>> \in Seq(S) /\ Len(<<x>>) = 1
                                /\ <<x, y>> \in Seq(S) /\ Len(<<x, y>>) = 2
      OBVIOUS
    <3>2. q = IF "request" \in altered THEN <<"bimap.test", "other">> ELSE <<"bimap.test">>
      BY <2>1, <2>4
    <3> HIDE DEF read, response
    <3> QED
      BY <3>1, <3>2
  <2>6. Len(Append(q, "other")) = Len(q) + 1
    BY <2>5
  <2>7. r = IF "reply" \in altered THEN Append(q, "other") ELSE q
    BY <2>2, <2>4
  <2>8. Len(r) = 1
    <3>1. r = <<"bimap.test">>
      BY <2>3, <2>4
    <3> QED
      BY <3>1
  <2>9. "reply" \notin altered
    BY <2>5, <2>6, <2>7, <2>8
  <2>10. "request" \notin altered
    BY <2>5, <2>7, <2>8, <2>9
  <2> QED
    BY <2>9, <2>10 DEF Unseen
<1> QED
  BY <1>2, <1>3, <1>4, <1>5, <1>6 DEF Parts

\* An end's result stays as it is.
LEMMA ResultsStay ==
  ASSUME ClockInv, [Next]_vars, NEW e \in Ends, result[e] \in Observations
  PROVE  result'[e] = result[e]
<1>1. Over(e)
  BY TimingAssumption, ObservationFacts DEF ClockInv, ResultsThere
<1>2. CASE ClockStep
  BY <1>1, <1>2 DEF ClockStep, Starts, Finishes, ReadReport, GiveUp, TimingTick, timingVars,
                    Running, Over, ClockInv, ClockType
<1> QED
  BY <1>2, EveryStepIsClockStep DEF vars, timingVars

\* What is true of a step that brings no datagram to anyone, but perhaps a request
\* on its way, and lets the initiator not pass.
Quiet ==
  /\ UNCHANGED <<test, net>>
  /\ flight' \in [Ends -> Seq(Int)]
  /\ inbox' \in [Ends -> Seq({"request", "reply", "foreign", "stale"})]
  /\ \A e \in Ends : flight'[e] # <<>> =>
       flight[e] # <<>> \/ (e = "target" /\ e \notin net.blocked)
  /\ \A e \in Ends, datagram \in {"request", "reply"} :
       Held(e, datagram)' => Held(e, datagram)
  /\ result'["initiator"] = Pass => result["initiator"] = Pass

LEMMA QuietKeeps ==
  ASSUME ClockInv, TripInv, [Next]_vars, Quiet
  PROVE  TripInv'
<1>1. result["target"] = Pass => result'["target"] = Pass
  BY ResultsStay, OutcomesObserved DEF Ends
<1>2. "initiator" \in Ends /\ "target" \in Ends
  BY DEF Ends
<1>3. TripType' /\ UNCHANGED <<test, net>>
  BY DEF Quiet, TripInv, TripType
<1>4. NothingBlocked'
  BY <1>2, <1>3 DEF Quiet, TripInv, NothingBlocked
<1>5. Answered => Answered'
  BY <1>1, <1>3 DEF Answered, Query
<1>6. RepliesAnswered'
  BY <1>2, <1>5 DEF Quiet, TripInv, RepliesAnswered
<1>7. PassMeansRoundTrip'
  BY <1>1, <1>3 DEF Quiet, TripInv, PassMeansRoundTrip
<1> QED
  BY <1>3, <1>4, <1>6, <1>7 DEF TripInv

Datagrams == {"request", "reply", "foreign", "stale"}

\* What is left of a buffer was in it.
LEMMA TailHolds ==
  ASSUME NEW S, NEW box \in Seq(S), box # <<>>
  PROVE  /\ Tail(box) \in Seq(S)
         /\ \A i \in DOMAIN Tail(box) : i + 1 \in DOMAIN box /\ Tail(box)[i] = box[i + 1]
         /\ 1 \in DOMAIN box /\ Head(box) = box[1]
OBVIOUS

\* An end that empties its buffer, or takes the first datagram off it.
LEMMA TakesOff ==
  ASSUME TripInv, NEW e \in Ends, NEW box,
         \/ box \in {<<>>, inbox[e]}
         \/ inbox[e] # <<>> /\ box = Tail(inbox[e]),
         inbox' = [inbox EXCEPT ![e] = box]
  PROVE  /\ inbox' \in [Ends -> Seq(Datagrams)]
         /\ \A f \in Ends, datagram \in {"request", "reply"} :
              Held(f, datagram)' => Held(f, datagram)
<1>1. inbox \in [Ends -> Seq(Datagrams)]
  BY DEF TripInv, TripType, Datagrams
<1>2. inbox[e] \in Seq(Datagrams)
  BY <1>1
<1>3. box \in Seq(Datagrams) /\ \A i \in DOMAIN box : \E j \in DOMAIN inbox[e] : box[i] = inbox[e][j]
  <2>1. CASE box = <<>>
    BY <2>1
  <2>2. CASE box = inbox[e]
    BY <1>2, <2>2
  <2>3. CASE inbox[e] # <<>> /\ box = Tail(inbox[e])
    BY <1>2, <2>3, TailHolds
  <2> QED
    BY <2>1, <2>2, <2>3
<1>4. inbox' \in [Ends -> Seq(Datagrams)]
  BY <1>1, <1>3
<1>5. \A f \in Ends : inbox'[f] = IF f = e THEN box ELSE inbox[f]
  BY <1>1
<1> QED
  BY <1>3, <1>4, <1>5 DEF Held

\* What an attempt that fails does to what was heard and to the result.
LEMMA AttemptFailsQuietly ==
  ASSUME ClockInv, TripInv, NEW number, NEW reason, NEW unread,
         AttemptFails(number, reason, unread),
         \/ unread \in {<<>>, inbox["initiator"]}
         \/ inbox["initiator"] # <<>> /\ unread = Tail(inbox["initiator"])
  PROVE  /\ inbox' \in [Ends -> Seq(Datagrams)]
         /\ \A f \in Ends, datagram \in {"request", "reply"} :
              Held(f, datagram)' => Held(f, datagram)
         /\ result'["initiator"] = Pass => result["initiator"] = Pass
<1>1. \E box : /\ \/ box \in {<<>>, inbox["initiator"]}
                  \/ inbox["initiator"] # <<>> /\ box = Tail(inbox["initiator"])
               /\ inbox' = [inbox EXCEPT !["initiator"] = box]
  BY DEF AttemptFails, Returns, Closes
<1>2. /\ inbox' \in [Ends -> Seq(Datagrams)]
      /\ \A f \in Ends, datagram \in {"request", "reply"} :
           Held(f, datagram)' => Held(f, datagram)
  BY <1>1, TakesOff DEF Ends
<1>3. \A r : Fail(r) # Pass
  BY DEF Fail, Pass, Observed
<1>4. result'["initiator"] = Pass => result["initiator"] = Pass
  BY <1>3 DEF AttemptFails, Returns, Finishes, timingVars, ClockInv, ClockType, Ends
<1> QED
  BY <1>2, <1>4

\* The datagrams on their way, when only the target is sent one, or none is.
LEMMA SendsOnly ==
  ASSUME TripInv, flight' = [flight EXCEPT !["target"] = @ \o Datagram("target")]
  PROVE  /\ flight' \in [Ends -> Seq(Int)]
         /\ \A e \in Ends : flight'[e] # <<>> =>
              flight[e] # <<>> \/ (e = "target" /\ e \notin net.blocked)
<1>1. flight \in [Ends -> Seq(Int)] /\ "target" \in Ends
  BY DEF TripInv, TripType, Ends
<1>2. Datagram("target") \in Seq(Int)
  BY UdpAssumption DEF Datagram
<1>3. "target" \in net.blocked => flight["target"] \o Datagram("target") = flight["target"]
  BY <1>1 DEF Datagram
<1>4. flight["target"] \o Datagram("target") \in Seq(Int)
  BY <1>1, <1>2
<1> QED
  BY <1>1, <1>3, <1>4

LEMMA FlightStays ==
  ASSUME TripInv, UNCHANGED flight
  PROVE  /\ flight' \in [Ends -> Seq(Int)]
         /\ \A e \in Ends : flight'[e] # <<>> =>
              flight[e] # <<>> \/ (e = "target" /\ e \notin net.blocked)
BY DEF TripInv, TripType

LEMMA InboxStays ==
  ASSUME TripInv, UNCHANGED inbox
  PROVE  /\ inbox' \in [Ends -> Seq(Datagrams)]
         /\ \A f \in Ends, datagram \in {"request", "reply"} :
              Held(f, datagram)' => Held(f, datagram)
BY DEF TripInv, TripType, Held, Datagrams

\* The steps of the initiator and of the target that nobody hears of.
LEMMA QuietSteps ==
  ASSUME ClockInv, TripInv,
         \/ InitiatorStarts \/ SendsAgain \/ NoReply \/ TargetStarts \/ BindFails \/ WindowEnds
         \/ Reports
         \/ \E e \in Ends : CutShort(e)
  PROVE  Quiet
<1> USE DEF Datagrams
<1>0. result \in [Ends -> Observations \cup {None}] /\ "initiator" \in Ends /\ "target" \in Ends
  BY DEF ClockInv, ClockType, Ends
<1>1. \A r : Fail(r) # Pass /\ Error(r) # Pass
  BY DEF Fail, Error, Pass, Observed
<1>2. CASE InitiatorStarts
  <2>1. UNCHANGED <<test, net, inbox, result>>
    BY <1>2 DEF InitiatorStarts, SendsRequest, Starts, network
  <2>2. UNCHANGED flight \/ flight' = [flight EXCEPT !["target"] = @ \o Datagram("target")]
    BY <1>2 DEF InitiatorStarts, SendsRequest
  <2> QED
    BY <2>1, <2>2, SendsOnly, FlightStays, InboxStays DEF Quiet
<1>3. CASE SendsAgain
  <2>1. CASE net.sendable
    <3>1. UNCHANGED <<test, net, inbox, result>>
      BY <1>3, <2>1 DEF SendsAgain, SendsRequest, network, timingVars
    <3>2. flight' = [flight EXCEPT !["target"] = @ \o Datagram("target")]
      BY <1>3, <2>1 DEF SendsAgain, SendsRequest
    <3> QED
      BY <3>1, <3>2, SendsOnly, InboxStays DEF Quiet
  <2>2. CASE ~net.sendable
    <3>1. UNCHANGED <<test, net, flight>>
      BY <1>3, <2>2 DEF SendsAgain, network
    <3>2. AttemptFails(round["initiator"] + 1, "send", inbox["initiator"])
      BY <1>3, <2>2 DEF SendsAgain
    <3> QED
      BY <3>1, <3>2, AttemptFailsQuietly, FlightStays DEF Quiet
  <2> QED
    BY <2>1, <2>2
<1>4. CASE NoReply
  <2>1. UNCHANGED <<test, net, flight>>
    BY <1>4 DEF NoReply, network
  <2>2. AttemptFails(round["initiator"], "timeout", <<>>)
    BY <1>4 DEF NoReply
  <2> QED
    BY <2>1, <2>2, AttemptFailsQuietly, FlightStays DEF Quiet
<1>5. CASE TargetStarts \/ Reports
  <2>1. UNCHANGED <<test, net, inbox, result, flight>>
    BY <1>5 DEF TargetStarts, Starts, network, Reports, ReadReport, GiveUp, udpVars
  <2> QED
    BY <2>1, FlightStays, InboxStays DEF Quiet
<1>6. CASE BindFails \/ WindowEnds \/ \E e \in Ends : CutShort(e)
  <2>1. UNCHANGED <<test, net, flight>>
    BY <1>6 DEF BindFails, WindowEnds, CutShort, network
  <2>2. UNCHANGED inbox \/ \E e \in Ends : inbox' = [inbox EXCEPT ![e] = <<>>]
    BY <1>0, <1>6 DEF BindFails, WindowEnds, CutShort, Returns, Closes
  <2>3. /\ inbox' \in [Ends -> Seq(Datagrams)]
        /\ \A f \in Ends, datagram \in {"request", "reply"} :
             Held(f, datagram)' => Held(f, datagram)
    BY <2>2, TakesOff, InboxStays
  <2>4. result'["initiator"] = Pass => result["initiator"] = Pass
    BY <1>0, <1>1, <1>6
       DEF BindFails, WindowEnds, CutShort, DeadlinePasses, Returns, Finishes, timingVars
  <2> QED
    BY <2>1, <2>3, <2>4, FlightStays DEF Quiet
<1> QED
  BY <1>2, <1>3, <1>4, <1>5, <1>6

\* The steps of the network and of the clock that bring nobody anything.
LEMMA QuietNetwork ==
  ASSUME ClockInv, TripInv,
         Tick \/ \E e \in Ends : Loses(e) \/ Doubles(e) \/ Foreign(e)
  PROVE  Quiet
<1> USE DEF Datagrams
<1>0. flight \in [Ends -> Seq(Int)] /\ inbox \in [Ends -> Seq(Datagrams)]
  BY DEF TripInv, TripType
<1>1. CASE Tick
  <2>1. UNCHANGED <<test, net, inbox, result>>
    BY <1>1 DEF Tick, TimingTick, network
  <2>2. \A e \in Ends : flight'[e] \in Seq(Int) /\ (flight'[e] # <<>> => flight[e] # <<>>)
    <3> TAKE e \in Ends
    <3>1. flight[e] \in Seq(Int) /\ flight'[e] = [i \in DOMAIN flight[e] |-> flight[e][i] - 1]
      BY <1>0, <1>1 DEF Tick
    <3> QED
      BY <3>1
  <2>3. flight' \in [Ends -> Seq(Int)]
    BY <1>1, <2>2 DEF Tick
  <2> QED
    BY <2>1, <2>2, <2>3, InboxStays DEF Quiet
<1>2. ASSUME NEW e \in Ends, Loses(e) \/ Doubles(e) PROVE Quiet
  <2>1. UNCHANGED <<test, net, inbox, result>>
    BY <1>2 DEF Loses, Doubles, timingVars
  <2>2. /\ flight[e] # <<>> /\ flight[e] \in Seq(Int)
        /\ \/ flight' = [flight EXCEPT ![e] = Tail(flight[e])]
           \/ flight' = [flight EXCEPT ![e] = Append(flight[e], Latency)]
    BY <1>0, <1>2 DEF Loses, Doubles
  <2>3. Tail(flight[e]) \in Seq(Int) /\ Append(flight[e], Latency) \in Seq(Int)
    BY <2>2, UdpAssumption
  <2>4. flight' \in [Ends -> Seq(Int)]
    BY <1>0, <2>2, <2>3
  <2>5. \A f \in Ends : flight'[f] # <<>> => flight[f] # <<>>
    BY <1>0, <2>2
  <2> QED
    BY <2>1, <2>4, <2>5, InboxStays DEF Quiet
<1>3. ASSUME NEW e \in Ends, Foreign(e) PROVE Quiet
  <2>1. UNCHANGED <<test, net, flight, result>>
    BY <1>3 DEF Foreign, timingVars
  <2>2. PICK datagram \in {"foreign", "stale"} : Buffers(e, datagram)
    BY <1>3 DEF Foreign
  <2>3. inbox[e] \in Seq(Datagrams) /\ Append(inbox[e], datagram) \in Seq(Datagrams)
    BY <1>0
  <2>4. inbox' \in [Ends -> Seq(Datagrams)]
    BY <1>0, <2>2, <2>3 DEF Buffers
  <2>5. ASSUME NEW f \in Ends, NEW d \in {"request", "reply"}, Held(f, d)' PROVE Held(f, d)
    <3>1. CASE inbox'[f] = inbox[f]
      BY <2>5, <3>1 DEF Held
    <3>2. CASE f = e /\ inbox'[f] = Append(inbox[f], datagram)
      BY <2>3, <2>5, <3>2 DEF Held
    <3> QED
      BY <1>0, <2>2, <3>1, <3>2 DEF Buffers
  <2> QED
    BY <2>1, <2>4, <2>5, FlightStays DEF Quiet
<1> QED
  BY <1>1, <1>2, <1>3

\* A datagram that arrives is one that was on its way.
LEMMA ArrivesKeeps ==
  ASSUME ClockInv, TripInv, NEW e \in Ends, Arrives(e)
  PROVE  TripInv'
<1> USE DEF Datagrams
<1>0. flight \in [Ends -> Seq(Int)] /\ inbox \in [Ends -> Seq(Datagrams)]
  BY DEF TripInv, TripType
<1>1. PICK datagram : datagram = IF e = "target" THEN "request" ELSE "reply"
  OBVIOUS
<1>2. UNCHANGED <<test, net, result>> /\ flight[e] # <<>> /\ Buffers(e, datagram)
  BY <1>1 DEF Arrives, timingVars, network
<1>3. inbox[e] \in Seq(Datagrams) /\ Append(inbox[e], datagram) \in Seq(Datagrams)
  BY <1>0, <1>1
<1>4. inbox' \in [Ends -> Seq(Datagrams)]
  BY <1>0, <1>2, <1>3 DEF Buffers
<1>5. \A f \in Ends, d \in {"request", "reply"} :
        Held(f, d)' => Held(f, d) \/ (f = e /\ d = datagram)
  <2> SUFFICES ASSUME NEW f \in Ends, NEW d \in {"request", "reply"}, Held(f, d)',
                      ~(f = e /\ d = datagram)
               PROVE  Held(f, d)
    OBVIOUS
  <2>1. CASE inbox'[f] = inbox[f]
    BY <2>1 DEF Held
  <2>2. CASE f = e /\ inbox'[f] = Append(inbox[f], datagram)
    BY <1>3, <2>2 DEF Held
  <2> QED
    BY <1>0, <1>2, <2>1, <2>2 DEF Buffers
<1>6. flight' = [flight EXCEPT ![e] = Tail(flight[e])] /\ Tail(flight[e]) \in Seq(Int)
  BY <1>0, <1>2 DEF Arrives
<1>7. flight' \in [Ends -> Seq(Int)] /\ \A f \in Ends : flight'[f] # <<>> => flight[f] # <<>>
  BY <1>0, <1>2, <1>6
<1>8. TripType'
  BY <1>2, <1>4, <1>7 DEF TripInv, TripType
<1>9. NothingBlocked'
  BY <1>1, <1>2, <1>5, <1>7 DEF TripInv, NothingBlocked, Ends
<1>10. Answered' = Answered
  BY <1>2 DEF Answered, Query
<1>11. RepliesAnswered'
  BY <1>1, <1>2, <1>5, <1>7, <1>10 DEF TripInv, RepliesAnswered, Ends
<1>12. PassMeansRoundTrip'
  BY <1>2 DEF TripInv, PassMeansRoundTrip
<1> QED
  BY <1>8, <1>9, <1>11, <1>12 DEF TripInv

\* The initiator takes a reply, or fails.
LEMMA InitiatorKeeps ==
  ASSUME ClockInv, TripInv, [Next]_vars, InitiatorReceives \/ InitiatorReceivesAnswer
  PROVE  TripInv'
<1>0. "initiator" \in Ends /\ "target" \in Ends /\ inbox \in [Ends -> Seq(Datagrams)]
  BY DEF Ends, TripInv, TripType, Datagrams
<1> DEFINE first == Head(inbox["initiator"])
           passes == IF test = "dns" THEN ValidAnswer(first)
                     ELSE FromTarget(first) /\ "reply" \notin net.altered
<1>1. /\ UNCHANGED <<test, net, flight>> /\ inbox["initiator"] # <<>>
      /\ inbox["initiator"] \in Seq(Datagrams)
  BY <1>0 DEF InitiatorReceives, InitiatorReceivesAnswer, network
<1>2. \/ /\ passes
         /\ Returns("initiator", Pass)
      \/ \E r : Returns("initiator", Fail(r))
      \/ AttemptFails(round["initiator"], "unexpected", Tail(inbox["initiator"]))
  BY DEF InitiatorReceives, InitiatorReceivesAnswer
<1>3. CASE AttemptFails(round["initiator"], "unexpected", Tail(inbox["initiator"]))
  <2>1. Quiet
    BY <1>1, <1>3, AttemptFailsQuietly, FlightStays DEF Quiet, Datagrams
  <2> QED
    BY <2>1, QuietKeeps
<1>4. CASE \E r : Returns("initiator", Fail(r))
  <2>1. result'["initiator"] # Pass
    BY <1>0, <1>4 DEF Returns, Finishes, ClockInv, ClockType, Fail, Pass, Observed
  <2>2. inbox' = [inbox EXCEPT !["initiator"] = <<>>]
    BY <1>4 DEF Returns, Closes
  <2>3. Quiet
    BY <1>0, <1>1, <2>1, <2>2, TakesOff, FlightStays DEF Quiet, Datagrams
  <2> QED
    BY <2>3, QuietKeeps
<1>5. CASE passes /\ Returns("initiator", Pass)
  <2>1. Held("initiator", first)
    BY <1>1, TailHolds DEF Held
  <2>2. first = "reply"
    BY <1>5 DEF FromTarget, ValidAnswer
  <2>3. Answered
    BY <2>1, <2>2 DEF TripInv, RepliesAnswered
  <2>4. IF test = "dns" THEN Unseen(net.altered, net.part) ELSE net.altered = {}
    <3>1. CASE test = "dns"
      BY <1>5, <2>3, <3>1, AnswerUnseen DEF ValidAnswer, Answered, TripInv, TripType
    <3>2. CASE test # "dns"
      BY <1>5, <2>3, <3>2 DEF FromTarget, Answered, TripInv, TripType
    <3> QED
      BY <3>1, <3>2
  <2>5. result'["target"] = Pass
    BY <1>0, <2>3, ResultsStay, OutcomesObserved DEF Answered
  <2>6. PassMeansRoundTrip'
    BY <1>1, <2>3, <2>4, <2>5 DEF PassMeansRoundTrip, Answered
  <2>7. inbox' = [inbox EXCEPT !["initiator"] = <<>>]
    BY <1>5 DEF Returns, Closes
  <2>8. /\ inbox' \in [Ends -> Seq(Datagrams)]
        /\ \A f \in Ends, d \in {"request", "reply"} : Held(f, d)' => Held(f, d)
    BY <1>0, <2>7, TakesOff
  <2>9. TripType'
    BY <1>1, <2>8 DEF TripInv, TripType, Datagrams
  <2>10. NothingBlocked'
    BY <1>0, <1>1, <2>8 DEF TripInv, NothingBlocked
  <2>11. Answered'
    BY <1>1, <2>3, <2>5 DEF Answered, Query
  <2> QED
    BY <2>6, <2>9, <2>10, <2>11 DEF TripInv, RepliesAnswered
<1> QED
  BY <1>2, <1>3, <1>4, <1>5

\* The target takes a datagram; it replies to a request it accepts.
LEMMA TargetKeeps ==
  ASSUME ClockInv, TripInv, [Next]_vars, TargetReceives \/ TargetReceivesQuery
  PROVE  TripInv'
<1>0. /\ "initiator" \in Ends /\ "target" \in Ends
      /\ inbox \in [Ends -> Seq(Datagrams)] /\ flight \in [Ends -> Seq(Int)]
  BY DEF Ends, TripInv, TripType, Datagrams
<1> DEFINE first == Head(inbox["target"])
           asked == /\ first = "request"
                    /\ IF test = "dns" THEN Parses(QueryRead(Query, net.altered, net.part))
                       ELSE "request" \notin net.altered
<1>1. /\ UNCHANGED <<test, net>> /\ inbox["target"] # <<>>
      /\ inbox["target"] \in Seq(Datagrams)
      /\ inbox' = [inbox EXCEPT !["target"] = <<>>]
      /\ result'["initiator"] = result["initiator"]
  BY <1>0 DEF TargetReceives, TargetReceivesQuery, network, Returns, Closes, Finishes,
              ClockInv, ClockType
<1>2. /\ inbox' \in [Ends -> Seq(Datagrams)]
      /\ \A f \in Ends, d \in {"request", "reply"} : Held(f, d)' => Held(f, d)
  BY <1>0, <1>1, TakesOff
<1>3. CASE UNCHANGED flight
  <2>1. Quiet
    BY <1>1, <1>2, <1>3, FlightStays DEF Quiet, Datagrams
  <2> QED
    BY <2>1, QuietKeeps
<1>4. CASE flight' # flight
  <2>1. RepliesTo(first, result'["target"] = Pass) /\ result'["target"] = Pass
    BY <1>4 DEF TargetReceives, TargetReceivesQuery, RepliesTo
  <2>2. /\ first = "request"
        /\ flight' = [flight EXCEPT !["initiator"] = @ \o Datagram("initiator")]
    BY <1>4, <2>1 DEF RepliesTo
  <2>3. asked
    <3>1. \A r : Fail(r) # Pass
      BY DEF Fail, Pass, Observed
    <3>2. CASE TargetReceives
      <4>1. Finishes("target", IF first = "stale" \/ (first = "request" /\ "request" \notin net.altered)
                               THEN Pass ELSE Fail("differs")) /\ test # "dns"
        BY <3>2 DEF TargetReceives, Returns
      <4> QED
        BY <1>0, <2>1, <2>2, <3>1, <4>1 DEF Finishes, ClockInv, ClockType
    <3>3. CASE TargetReceivesQuery
      <4>1. Finishes("target", IF \/ first = "stale"
                                  \/ first = "request" /\ Parses(QueryRead(Query, net.altered, net.part))
                               THEN Pass ELSE Fail("dns")) /\ test = "dns"
        BY <3>3 DEF TargetReceivesQuery, Returns
      <4> QED
        BY <1>0, <2>1, <2>2, <3>1, <4>1 DEF Finishes, ClockInv, ClockType
    <3> QED
      BY <3>2, <3>3
  <2>4. Held("target", "request")
    BY <1>1, <2>2, TailHolds DEF Held
  <2>5. "target" \notin net.blocked
    BY <2>4 DEF TripInv, NothingBlocked
  <2>6. "initiator" \notin net.blocked
    <3>1. "initiator" \in net.blocked => flight' = flight
      BY <1>0, <2>2 DEF Datagram
    <3> QED
      BY <1>4, <3>1
  <2>7. net.blocked = {}
    BY <2>5, <2>6 DEF TripInv, TripType, Ends
  <2>8. Answered'
    BY <1>1, <2>1, <2>3, <2>7 DEF Answered, Query
  <2>9. flight' \in [Ends -> Seq(Int)]
    <3>1. flight["initiator"] \o Datagram("initiator") \in Seq(Int)
      BY <1>0, UdpAssumption DEF Datagram
    <3> QED
      BY <1>0, <2>2, <3>1
  <2>10. TripType'
    BY <1>1, <1>2, <2>9 DEF TripInv, TripType, Datagrams
  <2>11. NothingBlocked'
    BY <1>1, <2>7 DEF NothingBlocked
  <2>12. PassMeansRoundTrip'
    BY <1>1, <2>1 DEF TripInv, PassMeansRoundTrip
  <2> QED
    BY <2>8, <2>10, <2>11, <2>12 DEF TripInv, RepliesAnswered
<1> QED
  BY <1>3, <1>4

LEMMA TripInvInit ==
  ASSUME Init
  PROVE  TripInv
<1>1. result["initiator"] # Pass
  BY OutcomesObserved, ObservationFacts, TimingAssumption DEF Init, TimingInit, Ends
<1>2. TripType
  BY DEF Init, TripType
<1> QED
  BY <1>1, <1>2 DEF Init, TripInv, NothingBlocked, RepliesAnswered, PassMeansRoundTrip, Held, Ends

LEMMA TripInvNext ==
  ASSUME ClockInv, TripInv, [Next]_vars
  PROVE  TripInv'
<1>1. CASE UNCHANGED vars
  <2>1. Quiet
    BY <1>1, FlightStays, InboxStays
       DEF vars, udpVars, timingVars, Quiet, TripInv, TripType, Datagrams
  <2> QED
    BY <2>1, QuietKeeps
<1>2. CASE \/ InitiatorStarts \/ SendsAgain \/ NoReply \/ TargetStarts \/ BindFails \/ WindowEnds
           \/ Reports
           \/ \E e \in Ends : CutShort(e)
  BY <1>2, QuietSteps, QuietKeeps
<1>3. CASE Tick \/ \E e \in Ends : Loses(e) \/ Doubles(e) \/ Foreign(e)
  BY <1>3, QuietNetwork, QuietKeeps
<1>4. CASE \E e \in Ends : Arrives(e)
  BY <1>4, ArrivesKeeps
<1>5. CASE InitiatorReceives \/ InitiatorReceivesAnswer
  BY <1>5, InitiatorKeeps
<1>6. CASE TargetReceives \/ TargetReceivesQuery
  BY <1>6, TargetKeeps
<1> QED
  BY <1>1, <1>2, <1>3, <1>4, <1>5, <1>6 DEF Next, Steps

\* A PASS of the initiator (udp_initiator, the dns test's too) is a round trip:
\* the target passed before, no end is blocked, and nothing the test looks at was
\* altered, whatever was lost, doubled, delayed or sent by others.
THEOREM PassesAreRoundTrips == Spec => []PassMeansRoundTrip
<1>1. ClockInv /\ TripInv /\ [Next]_vars => TripInv'
  BY TripInvNext
<1>2. Init => TripInv
  BY TripInvInit
<1>3. TripInv => PassMeansRoundTrip
  BY DEF TripInv
<1> QED
  BY <1>1, <1>2, <1>3, ClockInvariant, PTL DEF Spec

-----------------------------------------------------------------------------
(* An exchange that passes.  The attempts in time are counted: those up to   *)
(* the current one are no more than were lost or spoiled, so that the next   *)
(* one is in time too, as long as the target has not heard of the initiator; *)
(* from then on each attempt has time for the reply.                         *)

\* The network of NoFalseFailure.
Undisturbed ==
  /\ net.altered = {} /\ net.blocked = {} /\ net.sendable /\ ~net.occupied
  /\ "target" \notin net.others /\ lost["initiator"] = 0 /\ 2 * Latency < Wait
  /\ Cardinality(InTime) > lost["target"] + Cardinality(net.others)

\* The time now, counted from the client's start, as each end's clock shows it.
StartOf(e) == IF e = client THEN 0 ELSE delay
Clock(now) ==
  \A e \in Ends :
    /\ phase[e] = "idle" => left[e] = StartOf(e) - now
    /\ phase[e] = "running" => now >= StartOf(e) /\ left[e] = StartOf(e) + Allowed(test) - now

\* When the initiator's deadline passes.
Finish == Sent(1) + Allowed(test)

Attempt == round["initiator"]
Until == timer["initiator"]

\* The attempts in time up to number, and from the next one on.
Upto(number) == Cardinality(InTime \cap (1 .. number))
Ahead(number) == Cardinality(InTime) - Upto(number)

\* Whether a datagram of others is still to spoil an attempt; what was lost, and
\* spoiled, so far.
Pending == "initiator" \in foreign \/ inbox["initiator"] = <<"foreign">>
Spoils == IF Pending THEN 1 ELSE 0
Costs == lost["target"] + Cardinality(net.others) - Spoils

\* The initiator awaits the reply of an attempt, or the next one.
Sending(now) ==
  /\ Awaiting("initiator", "recv") /\ Attempt \in 1 .. Rounds
  /\ Until \in 0 .. Wait
  /\ now + Until <= Sent(Attempt) + Wait
Resting(now) ==
  /\ Awaiting("initiator", "sleep") /\ Attempt \in 1 .. Rounds - 1
  /\ Until \in Nat
  /\ now + Until <= Sent(Attempt + 1)

\* When an attempt is sent at the earliest: nothing was spoiled yet if Pending.
Earliest(number) == IF Pending THEN Sent(number) ELSE SentEarliest(number)

\* The target is in one of its windows.
Listening(now) ==
  /\ Awaiting("target", "recv") /\ round["target"] \in 1 .. Rounds
  /\ timer["target"] = Listens + round["target"] * Second - now /\ timer["target"] \in Nat

\* The initiator has received at most what others sent.
Interrupted ==
  \/ inbox["initiator"] = <<>>
  \/ inbox["initiator"] = <<"foreign">> /\ "initiator" \in net.others \ foreign

\* The initiator before an answer: it has not started, or a request in time is
\* still on its way or to be sent, after those it could afford to lose.
Starting == phase["initiator"] = "idle" /\ flight["target"] = <<>> /\ inbox["initiator"] = <<>>
Underway(ticks) == \E i \in DOMAIN flight["target"] : flight["target"][i] <= ticks
Trying(now) ==
  /\ Sending(now) /\ now + Until - Wait >= Earliest(Attempt)
  /\ Upto(Attempt - 1) <= Costs
  /\ Upto(Attempt) <= Costs \/ Underway(Until - Wait + Latency)
Pausing(now) ==
  Resting(now) /\ now + Until >= Earliest(Attempt + 1) /\ Upto(Attempt) <= Costs
Waiting(now) == Starting \/ Trying(now) \/ Pausing(now)

Unheard(now) ==
  /\ phase["target"] = "idle" \/ Listening(now)
  /\ inbox["target"] = <<>> /\ flight["initiator"] = <<>> /\ Interrupted
  /\ Waiting(now)

\* A reply that comes in within ticks is in time for the initiator.
Hopes(now, ticks) ==
  \/ /\ Sending(now)
     /\ Ahead(Attempt) + (IF ticks <= Until - Wait + 2 * Latency THEN 1 ELSE 0) >= 1 + Spoils
  \/ Resting(now) /\ Ahead(Attempt) >= 1 + Spoils

\* The target has received a request, has answered, and the reply is there.
Heard(now) ==
  /\ Listening(now) /\ now < ListensUntil
  /\ inbox["target"] # <<>> /\ Head(inbox["target"]) = "request"
  /\ flight["initiator"] = <<>> /\ Interrupted
  /\ Hopes(now, Latency) /\ now + Latency < Finish

Answering(now) ==
  /\ phase["target"] = "over" /\ result["target"] = Pass /\ Interrupted
  /\ \E i \in DOMAIN flight["initiator"] :
       Hopes(now, flight["initiator"][i]) /\ now + flight["initiator"][i] < Finish

Delivered(now) ==
  /\ phase["target"] = "over" /\ result["target"] = Pass
  /\ inbox["initiator"] # <<>>
  /\ \/ /\ Head(inbox["initiator"]) = "reply"
        /\ \/ Sending(now) /\ now < Finish
           \/ Resting(now) /\ Ahead(Attempt) >= 1
     \/ /\ Head(inbox["initiator"]) = "foreign"
        /\ Tail(inbox["initiator"]) # <<>> /\ Head(Tail(inbox["initiator"])) = "reply"
        /\ \/ Sending(now) /\ now < Finish /\ Ahead(Attempt) >= 1
           \/ Resting(now) /\ Ahead(Attempt) >= 2
Through == \A e \in Ends : phase[e] = "over" /\ result[e] = Pass

Course(now) ==
  Unheard(now) \/ Heard(now) \/ Answering(now) \/ Delivered(now) \/ Through

OnCourse == Undisturbed => \E now \in Nat : Clock(now) /\ Course(now)

\* The types of what the ends await, and of the times.
Stages == {None, "recv", "sleep", "bind"}
TimesType ==
  /\ ClockType /\ TripType
  /\ test \in Tests
  /\ net.others \subseteq Ends /\ foreign \subseteq net.others
  /\ stage \in [Ends -> Stages]
  /\ timer \in [Ends -> Int]
  /\ round \in [Ends -> Nat]
  /\ lost \in [Ends -> Nat]
  /\ \A e \in Ends : \A i \in DOMAIN flight[e] : flight[e][i] \in 0 .. Latency

LEMMA TheEnds ==
  /\ "initiator" \in Ends /\ "target" \in Ends
  /\ \A e \in Ends : e = "initiator" \/ e = "target"
BY DEF Ends

LEMMA Amounts ==
  ASSUME TimesType
  PROVE  /\ Second \in Nat /\ Second > 0 /\ Latency \in Nat /\ Allowed(test) \in Nat
         /\ Wait \in Nat /\ Pause \in Nat /\ Deadline \in Nat /\ ReportWait \in Nat
         /\ timeout \in Nat /\ delay \in Nat
         /\ \A e \in Ends : StartOf(e) \in Nat
<1>1. Second \in Nat /\ Second > 0 /\ Latency \in Nat
  BY TimingAssumption, UdpAssumption
<1>2. timeout \in Nat /\ delay \in Nat
  BY DEF TimesType, ClockType
<1>3. Deadline \in Nat /\ Allowed(test) \in Nat /\ ReportWait \in Nat
  BY <1>1, <1>2 DEF Deadline, Allowed, ReportWait
<1>4. \A e \in Ends : StartOf(e) \in Nat
  BY <1>2 DEF StartOf
<1>5. Pause \in Nat
  BY <1>1 DEF Pause
<1>6. Wait \in Nat
  BY <1>1, <1>2 DEF Wait
<1> QED BY <1>1, <1>2, <1>3, <1>4, <1>5, <1>6

\* The schedule of the attempts.
LEMMA Schedule ==
  ASSUME TimesType
  PROVE  /\ \A p \in 1 .. Rounds : Sent(p) \in Nat
         /\ Sent(1) = StartOf("initiator")
         /\ \A p \in 1 .. 4 : Sent(p + 1) = Sent(p) + Wait + Pause
         /\ \A p, q \in 1 .. Rounds : p <= q => Sent(p) <= Sent(q)
         /\ \A p \in 1 .. Rounds : SentEarliest(p) \in Int /\ SentEarliest(p) <= Sent(p)
         /\ \A p, q \in 1 .. Rounds : p <= q => SentEarliest(p) <= SentEarliest(q)
         /\ "initiator" \in net.others => \A p \in 2 .. Rounds : SentEarliest(p) = Sent(p) - Wait
         /\ SentEarliest(1) = Sent(1)
<1>1. Wait \in Nat /\ Pause \in Nat /\ delay \in Nat
  BY Amounts
<1>2. PICK d \in Nat, a \in Nat : d = Wait + Pause /\ a = (IF client = "initiator" THEN 0 ELSE delay)
  BY <1>1
<1>3. /\ Sent(1) = a /\ Sent(2) = d + a /\ Sent(3) = 2 * d + a /\ Sent(4) = 3 * d + a
      /\ Sent(5) = 4 * d + a
  <2>1. \A p : Sent(p) = (p - 1) * d + a
    BY <1>2 DEF Sent
  <2>2. (1 - 1) * d = 0 /\ (2 - 1) * d = d /\ (3 - 1) * d = 2 * d /\ (4 - 1) * d = 3 * d
        /\ (5 - 1) * d = 4 * d
    BY <1>2
  <2> QED BY <1>2, <2>1, <2>2
<1>4. a = StartOf("initiator")
  BY <1>2, TwoEnds DEF StartOf, TimesType, ClockType
<1>5. \A p \in 1 .. Rounds : p = 1 \/ p = 2 \/ p = 3 \/ p = 4 \/ p = 5
  BY DEF Rounds
<1>6. /\ \A p \in 1 .. Rounds : Sent(p) \in Nat
      /\ \A p \in 1 .. 4 : Sent(p + 1) = Sent(p) + Wait + Pause
      /\ \A p, q \in 1 .. Rounds : p <= q => Sent(p) <= Sent(q)
  <2>1. \A p \in 1 .. Rounds : Sent(p) \in Nat
    BY <1>2, <1>3, <1>5
  <2>2. \A p \in 1 .. 4 : Sent(p + 1) = Sent(p) + d
    <3>1. \A p \in 1 .. 4 : p = 1 \/ p = 2 \/ p = 3 \/ p = 4
      OBVIOUS
    <3>2. Sent(1 + 1) = Sent(1) + d /\ Sent(2 + 1) = Sent(2) + d /\ Sent(3 + 1) = Sent(3) + d
          /\ Sent(4 + 1) = Sent(4) + d
      BY <1>2, <1>3
    <3> QED BY <3>1, <3>2
  <2>3. \A p \in 1 .. 4 : Sent(p) \in Nat
    BY <2>1 DEF Rounds
  <2>4. \A p \in 1 .. 4 : Sent(p + 1) = Sent(p) + Wait + Pause
    BY <1>1, <1>2, <2>2, <2>3
  <2>5. \A p, q \in 1 .. Rounds : p <= q => Sent(p) <= Sent(q)
    <3>1. \A k \in 1 .. Rounds : Sent(k) = CASE k = 1 -> a [] k = 2 -> d + a [] k = 3 -> 2 * d + a
            [] k = 4 -> 3 * d + a [] OTHER -> 4 * d + a
      BY <1>3, <1>5
    <3>2. ASSUME NEW p \in 1 .. Rounds, NEW q \in 1 .. Rounds, p <= q
          PROVE  Sent(p) <= Sent(q)
      <4>1. PICK r \in Int, s \in Int : r = Sent(p) /\ s = Sent(q)
        BY <2>1
      <4>2. p \in 1 .. 5 /\ q \in 1 .. 5
        BY DEF Rounds
      <4> QED BY <1>2, <3>1, <3>2, <4>1, <4>2
    <3> QED BY <3>2
  <2> QED BY <2>1, <2>4, <2>5
<1>7. PICK w \in Nat : w = (IF "initiator" \in net.others THEN Wait ELSE 0)
  BY <1>1
<1>8. /\ SentEarliest(1) = Sent(1) /\ w <= d
      /\ SentEarliest(2) = Sent(2) - w /\ SentEarliest(3) = Sent(3) - w
      /\ SentEarliest(4) = Sent(4) - w /\ SentEarliest(5) = Sent(5) - w
  <2>1. \A p \in {2, 3, 4, 5} : SentEarliest(p) = Sent(p) - w
    BY <1>7 DEF SentEarliest
  <2>2. SentEarliest(1) = Sent(1) - 0
    BY DEF SentEarliest
  <2>3. Sent(1) - 0 = Sent(1)
    BY <1>2, <1>3
  <2> QED BY <1>1, <1>2, <1>7, <2>1, <2>2, <2>3
<1>9. \A p \in 1 .. Rounds : SentEarliest(p) \in Int /\ SentEarliest(p) <= Sent(p)
  BY <1>2, <1>3, <1>5, <1>7, <1>8
<1>10. \A p, q \in 1 .. Rounds : p <= q => SentEarliest(p) <= SentEarliest(q)
  BY <1>2, <1>3, <1>5, <1>7, <1>8
<1>11. "initiator" \in net.others => \A p \in 2 .. Rounds : SentEarliest(p) = Sent(p) - Wait
  <2>1. \A p \in 2 .. Rounds : p \in {2, 3, 4, 5}
    BY DEF Rounds
  <2> QED BY <1>7, <1>8, <2>1
<1> QED BY <1>3, <1>4, <1>6, <1>8, <1>9, <1>10, <1>11

\* An attempt comes one wait and one pause after the one before, at the latest.
LEMMA SentEarliestSteps ==
  ASSUME TimesType, NEW p \in 1 .. 4
  PROVE  SentEarliest(p + 1) <= SentEarliest(p) + Wait + Pause
<1>1. p \in 1 .. Rounds /\ p + 1 \in 1 .. Rounds /\ p + 1 > 1
  BY DEF Rounds
<1>2. PICK s \in Nat, n \in Nat, w \in Nat, r \in Nat :
        s = Sent(p) /\ n = Sent(p + 1) /\ w = Wait /\ r = Pause
  BY <1>1, Schedule, Amounts
<1>3. n = s + w + r
  BY <1>2, Schedule
<1>4. PICK b \in {0, 1} : b = IF "initiator" \in net.others THEN 1 ELSE 0
  OBVIOUS
<1>5. /\ SentEarliest(p + 1) = n - (IF b = 1 THEN w ELSE 0)
      /\ SentEarliest(p) = s - (IF b = 1 /\ p > 1 THEN w ELSE 0)
  BY <1>1, <1>2, <1>4 DEF SentEarliest
<1> QED BY <1>2, <1>3, <1>4, <1>5

\* How long the target listens.
LEMMA Windows ==
  ASSUME TimesType
  PROVE  /\ Listens = StartOf("target") /\ Listens \in Nat
         /\ ListensUntil \in Nat
         /\ ListensUntil <= Listens + 5 * Second /\ ListensUntil <= Listens + Allowed(test)
<1>1. Listens = StartOf("target")
  BY TwoEnds DEF Listens, StartOf, TimesType, ClockType
<1> QED BY <1>1, Amounts, TheEnds DEF ListensUntil, Rounds

\* How many attempts are in time.
LEMMA Counts ==
  /\ Upto(0) = 0
  /\ Upto(Rounds) = Cardinality(InTime)
  /\ \A p \in 0 .. Rounds : Upto(p) \in Nat
  /\ \A p \in 1 .. Rounds : Upto(p) = Upto(p - 1) + (IF p \in InTime THEN 1 ELSE 0)
  /\ Cardinality(InTime) \in Nat
<1>1. InTime \subseteq 1 .. 5
  BY DEF InTime, Rounds
<1>2. IsFiniteSet(InTime)
  <2>1. \A S, x : IsFiniteSet(S) => IsFiniteSet(S \cup {x})
    BY FS_AddElement
  <2>2. IsFiniteSet({})
    BY FS_EmptySet
  <2>3. IsFiniteSet({} \cup {1} \cup {2} \cup {3} \cup {4} \cup {5})
    BY <2>1, <2>2
  <2>4. InTime \subseteq {} \cup {1} \cup {2} \cup {3} \cup {4} \cup {5}
    BY <1>1
  <2> QED BY <2>3, <2>4, FS_Subset
<1>3. \A p : IsFiniteSet(InTime \cap (1 .. p))
  BY <1>2, FS_Subset
<1>4. \A p : Upto(p) \in Nat
  BY <1>3, FS_CardinalityType DEF Upto
<1>5. Upto(0) = 0
  <2>1. InTime \cap (1 .. 0) = {}
    OBVIOUS
  <2> QED BY <2>1, FS_EmptySet DEF Upto
<1>6. Upto(Rounds) = Cardinality(InTime)
  <2>1. InTime \cap (1 .. 5) = InTime
    BY <1>1
  <2> QED BY <2>1 DEF Upto, Rounds
<1>7. ASSUME NEW p \in 1 .. Rounds
      PROVE  Upto(p) = Upto(p - 1) + (IF p \in InTime THEN 1 ELSE 0)
  <2>1. CASE p \in InTime
    <3>1. InTime \cap (1 .. p) = (InTime \cap (1 .. (p - 1))) \cup {p}
      BY <1>1, <2>1 DEF Rounds
    <3>2. p \notin InTime \cap (1 .. (p - 1))
      OBVIOUS
    <3>3. Cardinality((InTime \cap (1 .. (p - 1))) \cup {p}) =
            Cardinality(InTime \cap (1 .. (p - 1))) + 1
      BY <1>3, <3>2, FS_AddElement
    <3> QED BY <2>1, <3>1, <3>3 DEF Upto
  <2>2. CASE p \notin InTime
    <3>1. InTime \cap (1 .. p) = InTime \cap (1 .. (p - 1))
      BY <1>1, <2>2 DEF Rounds
    <3>2. Upto(p - 1) + 0 = Upto(p - 1)
      BY <1>4
    <3> QED BY <2>2, <3>1, <3>2 DEF Upto
  <2> QED BY <2>1, <2>2
<1> QED BY <1>2, <1>4, <1>5, <1>6, <1>7, FS_CardinalityType

\* An attempt in time that is not among the first ones.
LEMMA Later ==
  ASSUME NEW p \in 0 .. Rounds, NEW n \in 1 .. 2, Ahead(p) >= n
  PROVE  /\ p + n <= Rounds
         /\ \E k \in InTime : k \in p + n .. Rounds
<1>1. /\ Upto(5) = Cardinality(InTime)
      /\ Upto(1) = Upto(0) + (IF 1 \in InTime THEN 1 ELSE 0)
      /\ Upto(2) = Upto(1) + (IF 2 \in InTime THEN 1 ELSE 0)
      /\ Upto(3) = Upto(2) + (IF 3 \in InTime THEN 1 ELSE 0)
      /\ Upto(4) = Upto(3) + (IF 4 \in InTime THEN 1 ELSE 0)
      /\ Upto(5) = Upto(4) + (IF 5 \in InTime THEN 1 ELSE 0)
      /\ Upto(0) \in Nat /\ Upto(1) \in Nat /\ Upto(2) \in Nat /\ Upto(3) \in Nat /\ Upto(4) \in Nat
      /\ Upto(5) \in Nat
  <2>1. Rounds = 5
    BY DEF Rounds
  <2>2. 1 - 1 = 0 /\ 2 - 1 = 1 /\ 3 - 1 = 2 /\ 4 - 1 = 3 /\ 5 - 1 = 4
    OBVIOUS
  <2>3. 1 \in 1 .. 5 /\ 2 \in 1 .. 5 /\ 3 \in 1 .. 5 /\ 4 \in 1 .. 5 /\ 5 \in 1 .. 5
    OBVIOUS
  <2>4. 0 \in 0 .. 5 /\ 1 \in 0 .. 5 /\ 2 \in 0 .. 5 /\ 3 \in 0 .. 5 /\ 4 \in 0 .. 5 /\ 5 \in 0 .. 5
    OBVIOUS
  <2> QED BY <2>1, <2>2, <2>3, <2>4, Counts
<1>2. Upto(5) - Upto(p) >= n
  BY <1>1 DEF Ahead
<1>3. p \in {0, 1, 2, 3, 4, 5} /\ n \in {1, 2}
  BY DEF Rounds
<1>4. p + n <= 5 /\ \E k \in 1 .. 5 : k \in InTime /\ p + n <= k
  <2>1. CASE p = 0
    BY <1>1, <1>2, <1>3, <2>1
  <2>2. CASE p = 1
    BY <1>1, <1>2, <1>3, <2>2
  <2>3. CASE p = 2
    BY <1>1, <1>2, <1>3, <2>3
  <2>4. CASE p = 3
    BY <1>1, <1>2, <1>3, <2>4
  <2>5. CASE p = 4
    BY <1>1, <1>2, <1>3, <2>5
  <2>6. CASE p = 5
    BY <1>1, <1>2, <1>3, <2>6
  <2> QED BY <1>3, <2>1, <2>2, <2>3, <2>4, <2>5, <2>6
<1> QED BY <1>3, <1>4 DEF Rounds

\* What a step does not change.
Fixed == UNCHANGED <<net, test, client, timeout, delay>>

LEMMA FixedHere ==
  ASSUME Fixed
  PROVE  /\ Allowed(test)' = Allowed(test) /\ Wait' = Wait /\ Pause' = Pause
         /\ StartOf("initiator")' = StartOf("initiator") /\ StartOf("target")' = StartOf("target")
         /\ (\A p : Sent(p)' = Sent(p)) /\ (\A p : SentEarliest(p)' = SentEarliest(p))
         /\ Listens' = Listens /\ ListensUntil' = ListensUntil /\ InTime' = InTime
         /\ (\A p : Upto(p)' = Upto(p)) /\ (\A p : Ahead(p)' = Ahead(p)) /\ Finish' = Finish
<1>1. /\ Allowed(test)' = Allowed(test) /\ Wait' = Wait /\ Pause' = Pause
      /\ StartOf("initiator")' = StartOf("initiator") /\ StartOf("target")' = StartOf("target")
  BY DEF Fixed, Allowed, Deadline, Wait, Pause, StartOf
<1>2. \A p : Sent(p)' = Sent(p)
  BY <1>1 DEF Fixed, Sent
<1>3. \A p : SentEarliest(p)' = SentEarliest(p)
  BY <1>1, <1>2 DEF Fixed, SentEarliest
<1>4. Listens' = Listens /\ ListensUntil' = ListensUntil
  BY <1>1 DEF Fixed, Listens, ListensUntil
<1>5. InTime' = InTime
  BY <1>1, <1>2, <1>3, <1>4 DEF InTime
<1>6. (\A p : Upto(p)' = Upto(p)) /\ (\A p : Ahead(p)' = Ahead(p))
  BY <1>5 DEF Upto, Ahead
<1>7. Finish' = Finish
  BY <1>1, <1>2 DEF Finish
<1> QED BY <1>1, <1>2, <1>3, <1>4, <1>5, <1>6, <1>7

\* The network, the test and its settings stay.
LEMMA StepIsFixed == ASSUME [Next]_vars PROVE Fixed
<1>1. ASSUME UNCHANGED vars PROVE Fixed
  BY <1>1 DEF vars, timingVars, Fixed
<1>2. ASSUME NEW number, NEW reason, NEW unread, AttemptFails(number, reason, unread)
      PROVE  UNCHANGED <<client, timeout, delay>>
  BY <1>2 DEF AttemptFails, Returns, Finishes, setup, timingVars
<1>3. ASSUME NEW number, SendsRequest(number) PROVE UNCHANGED <<net, test>>
  BY <1>3 DEF SendsRequest, network
<1>4. ASSUME InitiatorStarts \/ SendsAgain PROVE Fixed
  BY <1>2, <1>3, <1>4 DEF InitiatorStarts, SendsAgain, Starts, setup, timingVars, network, Fixed
<1>5. ASSUME InitiatorReceives \/ InitiatorReceivesAnswer \/ NoReply PROVE Fixed
  BY <1>2, <1>5 DEF InitiatorReceives, InitiatorReceivesAnswer, NoReply, Returns, Finishes, setup,
     network, Fixed
<1>6. ASSUME TargetStarts \/ BindFails \/ TargetReceives \/ TargetReceivesQuery \/ WindowEnds
      PROVE  Fixed
  BY <1>6 DEF TargetStarts, BindFails, TargetReceives, TargetReceivesQuery, WindowEnds, Starts,
     Returns, Finishes, setup, timingVars, network, Fixed
<1>7. ASSUME NEW e \in Ends, CutShort(e) \/ Arrives(e) \/ Loses(e) \/ Doubles(e) \/ Foreign(e)
      PROVE  Fixed
  BY <1>7 DEF CutShort, DeadlinePasses, Finishes, Arrives, Loses, Doubles, Foreign, setup,
     timingVars, network, Fixed
<1>8. ASSUME Reports \/ Tick PROVE Fixed
  BY <1>8 DEF Reports, ReadReport, GiveUp, Tick, TimingTick, setup, network, Fixed
<1> QED BY <1>1, <1>4, <1>5, <1>6, <1>7, <1>8 DEF Next, Steps

\* What each step does with lost, and with the datagrams of others.
LEMMA NetworkSteps ==
  ASSUME [Next]_vars
  PROVE  /\ UNCHANGED lost \/ \E e \in Ends : Loses(e)
         /\ UNCHANGED foreign \/ \E e \in Ends : Foreign(e)
<1>1. ASSUME UNCHANGED vars PROVE UNCHANGED <<lost, foreign>>
  BY <1>1 DEF vars, udpVars
<1>2. ASSUME NEW number, SendsRequest(number) PROVE UNCHANGED <<lost, foreign>>
  BY <1>2 DEF SendsRequest, network
<1>3. ASSUME InitiatorStarts \/ SendsAgain PROVE UNCHANGED <<lost, foreign>>
  BY <1>2, <1>3 DEF InitiatorStarts, SendsAgain, network
<1>4. ASSUME InitiatorReceives \/ InitiatorReceivesAnswer \/ NoReply \/ TargetStarts \/ BindFails
               \/ TargetReceives \/ TargetReceivesQuery \/ WindowEnds
      PROVE  UNCHANGED <<lost, foreign>>
  BY <1>4 DEF InitiatorReceives, InitiatorReceivesAnswer, NoReply, TargetStarts, BindFails,
     TargetReceives, TargetReceivesQuery, WindowEnds, network
<1>5. ASSUME NEW e \in Ends, CutShort(e) \/ Arrives(e) \/ Doubles(e)
      PROVE  UNCHANGED <<lost, foreign>>
  BY <1>5 DEF CutShort, Arrives, Doubles, network
<1>6. ASSUME Reports \/ Tick PROVE UNCHANGED <<lost, foreign>>
  BY <1>6 DEF Reports, Tick, network, udpVars
<1>7. ASSUME NEW e \in Ends, Loses(e) PROVE UNCHANGED foreign
  BY <1>7 DEF Loses
<1>8. ASSUME NEW e \in Ends, Foreign(e) PROVE UNCHANGED lost
  BY <1>8 DEF Foreign
<1> QED BY <1>1, <1>3, <1>4, <1>5, <1>6, <1>7, <1>8 DEF Next, Steps

\* What was lost stays lost.
LEMMA LostGrows ==
  ASSUME TimesType, [Next]_vars
  PROVE  /\ lost' \in [Ends -> Nat]
         /\ \A e \in Ends : lost[e] <= lost'[e] /\ lost[e] \in Nat
<1>1. lost \in [Ends -> Nat]
  BY DEF TimesType
<1>2. ASSUME UNCHANGED lost PROVE lost' \in [Ends -> Nat] /\ \A e \in Ends : lost[e] <= lost'[e]
  BY <1>1, <1>2
<1>3. ASSUME NEW f \in Ends, Loses(f)
      PROVE  lost' \in [Ends -> Nat] /\ \A e \in Ends : lost[e] <= lost'[e]
  BY <1>1, <1>3 DEF Loses
<1> QED BY <1>1, <1>2, <1>3, NetworkSteps

\* What nothing has disturbed was not disturbed before.
LEMMA BeforeUndisturbed ==
  ASSUME TimesType, [Next]_vars, Undisturbed'
  PROVE  Undisturbed
<1>1. Fixed
  BY StepIsFixed
<1>2. /\ lost["initiator"] <= lost'["initiator"] /\ lost["target"] <= lost'["target"]
      /\ lost["initiator"] \in Nat /\ lost["target"] \in Nat
      /\ lost'["initiator"] \in Nat /\ lost'["target"] \in Nat
  BY LostGrows, TheEnds
<1>3. lost["initiator"] = 0
  BY <1>2 DEF Undisturbed
<1>4. Wait' = Wait /\ InTime' = InTime
  BY <1>1, FixedHere
<1>5. Cardinality(InTime) \in Nat /\ Cardinality(net.others) \in Nat
  <2>1. net.others \subseteq Ends /\ IsFiniteSet(Ends)
    <3>1. \A S, x : IsFiniteSet(S) => IsFiniteSet(S \cup {x})
      BY FS_AddElement
    <3>2. Ends = ({} \cup {"initiator"}) \cup {"target"}
      BY DEF Ends
    <3> QED BY <3>1, <3>2, FS_EmptySet DEF TimesType
  <2>2. IsFiniteSet(net.others)
    BY <2>1, FS_Subset
  <2> QED BY <2>2, Counts, FS_CardinalityType
<1>6. Cardinality(InTime) > lost["target"] + Cardinality(net.others)
  <2>1. Cardinality(InTime) > lost'["target"] + Cardinality(net.others)
    BY <1>1, <1>4 DEF Undisturbed, Fixed
  <2> QED BY <1>2, <1>5, <2>1
<1> QED BY <1>1, <1>3, <1>4, <1>6 DEF Undisturbed, Fixed

-----------------------------------------------------------------------------
(* The starts and deadlines of the ends go on telling the time. *)

\* When an end starts,
LEMMA ClockStarts ==
  ASSUME TimesType, Fixed, NEW now \in Nat, Clock(now),
         NEW e \in Ends, Starts(e, Allowed(test))
  PROVE  /\ Clock(now)' /\ now = StartOf(e) /\ phase[e] = "idle"
         /\ phase'[e] = "running" /\ UNCHANGED result
         /\ \A f \in Ends : f # e => phase'[f] = phase[f]
<1>1. /\ phase \in [Ends -> {"idle", "running", "over"}] /\ left \in [Ends -> Nat]
      /\ StartOf(e) \in Nat /\ Allowed(test) \in Nat
  BY Amounts DEF TimesType, ClockType
<1>2. /\ phase[e] = "idle" /\ left[e] = 0
      /\ phase' = [phase EXCEPT ![e] = "running"]
      /\ left' = [left EXCEPT ![e] = Allowed(test)] /\ UNCHANGED result
  BY DEF Starts
<1>3. now = StartOf(e)
  BY <1>1, <1>2 DEF Clock
<1>4. \A f \in Ends : StartOf(f)' = StartOf(f)
  BY FixedHere, TheEnds
<1>5. Allowed(test)' = Allowed(test)
  BY FixedHere
<1>6. ASSUME NEW f \in Ends
      PROVE  /\ phase'[f] = "idle" => left'[f] = StartOf(f) - now
             /\ phase'[f] = "running" => now >= StartOf(f) /\ left'[f] = StartOf(f) + Allowed(test) - now
  <2>1. CASE f = e
    BY <1>1, <1>2, <1>3, <2>1
  <2>2. CASE f # e
    BY <1>1, <1>2, <2>2 DEF Clock
  <2> QED BY <2>1, <2>2
<1>7. Clock(now)'
  BY <1>4, <1>5, <1>6 DEF Clock
<1> QED BY <1>1, <1>2, <1>3, <1>7

\* ... when it finishes,
LEMMA ClockFinishes ==
  ASSUME TimesType, Fixed, NEW now \in Nat, Clock(now),
         NEW e \in Ends, NEW o, Finishes(e, o)
  PROVE  /\ Clock(now)' /\ phase'[e] = "over" /\ result'[e] = o
         /\ \A f \in Ends : f # e => phase'[f] = phase[f] /\ result'[f] = result[f]
<1>1. /\ phase \in [Ends -> {"idle", "running", "over"}] /\ left \in [Ends -> Nat]
      /\ DOMAIN result = Ends /\ ReportWait \in Nat /\ delay \in Nat
  BY Amounts DEF TimesType, ClockType
<1>2. /\ phase' = [phase EXCEPT ![e] = "over"]
      /\ result' = [result EXCEPT ![e] = o]
      /\ left' = [left EXCEPT ![e] = IF e = client THEN ReportWait ELSE delay]
  BY DEF Finishes
<1>3. \A f \in Ends : StartOf(f)' = StartOf(f)
  BY FixedHere, TheEnds
<1>4. Allowed(test)' = Allowed(test)
  BY FixedHere
<1>5. ASSUME NEW f \in Ends
      PROVE  /\ phase'[f] = "idle" => left'[f] = StartOf(f) - now
             /\ phase'[f] = "running" => now >= StartOf(f) /\ left'[f] = StartOf(f) + Allowed(test) - now
  <2>1. CASE f = e
    BY <1>1, <1>2, <2>1
  <2>2. CASE f # e
    BY <1>1, <1>2, <2>2 DEF Clock
  <2> QED BY <2>1, <2>2
<1>6. Clock(now)'
  BY <1>3, <1>4, <1>5 DEF Clock
<1> QED BY <1>1, <1>2, <1>6

\* ... in a step of neither,
LEMMA ClockStands ==
  ASSUME Fixed, NEW now \in Nat, Clock(now), UNCHANGED <<phase, left>>
  PROVE  Clock(now)'
<1>1. \A f \in Ends : StartOf(f)' = StartOf(f)
  BY FixedHere, TheEnds
<1>2. Allowed(test)' = Allowed(test)
  BY FixedHere
<1> QED BY <1>1, <1>2 DEF Clock, Fixed

\* ... and with a tick.
LEMMA ClockTicks ==
  ASSUME TimesType, Fixed, NEW now \in Nat, Clock(now), Tick
  PROVE  /\ Clock(now + 1)'
         /\ UNCHANGED <<phase, result, lost, foreign, stage, round, inbox>>
         /\ \A e \in Ends : phase[e] = "running" =>
              /\ timer'[e] = timer[e] - 1 /\ timer[e] > 0
              /\ stage[e] = "recv" => inbox[e] = <<>>
<1>1. /\ phase \in [Ends -> {"idle", "running", "over"}] /\ left \in [Ends -> Nat]
      /\ \A e \in Ends : StartOf(e) \in Nat /\ Allowed(test) \in Nat
  BY Amounts DEF TimesType, ClockType
<1>2. /\ UNCHANGED <<phase, result, lost, foreign, stage, round, inbox>>
      /\ \A e \in Ends : left[e] > 0 \/ phase[e] = "over"
      /\ left' = [e \in Ends |-> IF left[e] > 0 THEN left[e] - 1 ELSE 0]
      /\ timer' = [e \in Ends |-> IF phase[e] = "running" THEN timer[e] - 1 ELSE 0]
      /\ \A e \in Ends : phase[e] = "running" =>
           timer[e] > 0 /\ (stage[e] = "recv" => inbox[e] = <<>>)
  BY DEF Tick, TimingTick, Over, Running, Awaiting, network
<1>3. \A f \in Ends : StartOf(f)' = StartOf(f)
  BY FixedHere, TheEnds
<1>4. Allowed(test)' = Allowed(test)
  BY FixedHere
<1>5. ASSUME NEW f \in Ends
      PROVE  /\ phase'[f] = "idle" => left'[f] = StartOf(f) - (now + 1)
             /\ phase'[f] = "running" =>
                  now + 1 >= StartOf(f) /\ left'[f] = StartOf(f) + Allowed(test) - (now + 1)
  BY <1>1, <1>2 DEF Clock
<1>6. Clock(now + 1)'
  BY <1>3, <1>4, <1>5 DEF Clock
<1> QED BY <1>1, <1>2, <1>6

\* What is on its way gets closer with each tick.
LEMMA FlightTicks ==
  ASSUME TimesType, Tick, NEW e \in Ends
  PROVE  /\ DOMAIN flight'[e] = DOMAIN flight[e]
         /\ \A i \in DOMAIN flight[e] : flight[e][i] > 0 /\ flight'[e][i] = flight[e][i] - 1
         /\ flight[e] = <<>> => flight'[e] = <<>>
<1>1. /\ flight'[e] = [i \in DOMAIN flight[e] |-> flight[e][i] - 1]
      /\ \A i \in DOMAIN flight[e] : flight[e][i] > 0
  BY DEF Tick
<1> QED BY <1>1

-----------------------------------------------------------------------------
(* The types of the times. *)

LEMMA TimesKept ==
  ASSUME TimesType, ClockType', TripType', [Next]_vars
  PROVE  TimesType'
<1>1. Fixed
  BY StepIsFixed
<1>2. /\ stage \in [Ends -> Stages] /\ timer \in [Ends -> Int] /\ round \in [Ends -> Nat]
      /\ Wait \in Nat /\ Pause \in Nat /\ Second \in Nat /\ Latency \in Nat
      /\ flight \in [Ends -> Seq(Int)]
      /\ \A e \in Ends : \A i \in DOMAIN flight[e] : flight[e][i] \in 0 .. Latency
  BY Amounts DEF TimesType, TripType
<1> DEFINE Places == /\ stage' \in [Ends -> Stages] /\ timer' \in [Ends -> Int]
                     /\ round' \in [Ends -> Nat]
           Flying == \A e \in Ends : \A i \in DOMAIN flight'[e] : flight'[e][i] \in 0 .. Latency
<1>3. ASSUME Places, Flying PROVE TimesType'
  <2>1. lost' \in [Ends -> Nat]
    BY LostGrows
  <2>2. foreign' \subseteq net'.others
    BY <1>1, NetworkSteps DEF Foreign, Fixed, TimesType
  <2>3. test' \in Tests /\ net'.others \subseteq Ends
    BY <1>1 DEF Fixed, TimesType
  <2> QED BY <1>3, <2>1, <2>2, <2>3 DEF TimesType
<1>4. UNCHANGED flight => Flying
  BY <1>2
<1>5. UNCHANGED ends => Places
  BY <1>2 DEF ends
<1>6. ASSUME NEW e \in Ends, flight' = [flight EXCEPT ![e] = @ \o Datagram(e)]
      PROVE  Flying
  <2>1. flight[e] \in Seq(Int) /\ Datagram(e) \in {<<>>, <<Latency>>}
    BY <1>2 DEF Datagram
  <2>2. \A i \in DOMAIN (flight[e] \o Datagram(e)) : (flight[e] \o Datagram(e))[i] \in 0 .. Latency
    <3>1. CASE Datagram(e) = <<>>
      <4>1. flight[e] \o <<>> = flight[e]
        BY <2>1
      <4> QED BY <1>2, <3>1, <4>1
    <3>2. CASE Datagram(e) = <<Latency>>
      <4>1. \A i \in DOMAIN (flight[e] \o <<Latency>>) :
              \/ i \in DOMAIN flight[e] /\ (flight[e] \o <<Latency>>)[i] = flight[e][i]
              \/ (flight[e] \o <<Latency>>)[i] = Latency
        BY <1>2, <2>1
      <4> QED BY <1>2, <3>2, <4>1
    <3> QED BY <2>1, <3>1, <3>2
  <2>3. \A f \in Ends : flight'[f] = IF f = e THEN flight[e] \o Datagram(e) ELSE flight[f]
    BY <1>2, <1>6
  <2> QED BY <1>2, <2>2, <2>3
<1>7. ASSUME NEW e \in Ends, flight[e] # <<>>, flight' = [flight EXCEPT ![e] = Tail(@)]
      PROVE  Flying
  <2>1. flight[e] \in Seq(Int)
    BY <1>2
  <2>2. \A i \in DOMAIN Tail(flight[e]) : Tail(flight[e])[i] \in 0 .. Latency
    BY <1>2, <1>7, <2>1, TailHolds
  <2> QED BY <1>2, <1>7, <2>2
<1>8. ASSUME NEW e \in Ends, flight' = [flight EXCEPT ![e] = Append(@, Latency)]
      PROVE  Flying
  <2>1. flight[e] \in Seq(Int)
    BY <1>2
  <2>2. \A i \in DOMAIN Append(flight[e], Latency) :
          \/ i \in DOMAIN flight[e] /\ Append(flight[e], Latency)[i] = flight[e][i]
          \/ Append(flight[e], Latency)[i] = Latency
    BY <1>2, <2>1
  <2> QED BY <1>2, <1>8, <2>2
<1>9. ASSUME NEW e \in Ends, NEW what \in Stages, NEW ticks \in Int, Awaits(e, what, ticks)
      PROVE  stage' \in [Ends -> Stages] /\ timer' \in [Ends -> Int]
  BY <1>2, <1>9 DEF Awaits
<1>10. None \in Stages /\ "recv" \in Stages /\ "sleep" \in Stages /\ "bind" \in Stages
       /\ "initiator" \in Ends /\ "target" \in Ends
  BY DEF Stages, Ends
<1>11. ASSUME NEW e \in Ends, Closes(e) PROVE Places
  <2>1. Awaits(e, None, 0) /\ round' = [round EXCEPT ![e] = 0]
    BY <1>11 DEF Closes
  <2> QED BY <1>2, <1>9, <1>10, <2>1
<1>12. ASSUME NEW number \in Nat, NEW reason, NEW unread, AttemptFails(number, reason, unread)
       PROVE  Places
  <2>1. CASE number < Rounds
    <3>1. Awaits("initiator", "sleep", Pause) /\ round' = [round EXCEPT !["initiator"] = number]
      BY <1>12, <2>1 DEF AttemptFails
    <3> QED BY <1>2, <1>9, <1>10, <3>1
  <2>2. CASE ~(number < Rounds)
    BY <1>10, <1>11, <1>12, <2>2 DEF AttemptFails, Returns
  <2> QED BY <2>1, <2>2
<1>13. ASSUME NEW number \in Nat, SendsRequest(number)
       PROVE  Places /\ Flying
  <2>1. /\ Awaits("initiator", "recv", Wait) /\ round' = [round EXCEPT !["initiator"] = number]
        /\ flight' = [flight EXCEPT !["target"] = @ \o Datagram("target")]
    BY <1>13 DEF SendsRequest
  <2>2. Flying
    BY <1>6, <1>10, <2>1
  <2>3. stage' \in [Ends -> Stages] /\ timer' \in [Ends -> Int]
    BY <1>2, <1>9, <1>10, <2>1
  <2>4. round' \in [Ends -> Nat]
    BY <1>2, <2>1
  <2> QED BY <2>2, <2>3, <2>4
<1>14. round["initiator"] \in Nat /\ round["initiator"] + 1 \in Nat
  BY <1>2, <1>10
<1>15. CASE InitiatorStarts
  <2>1. CASE net.sendable
    BY <1>3, <1>13, <1>15, <2>1 DEF InitiatorStarts
  <2>2. CASE ~net.sendable
    <3>1. /\ Awaits("initiator", "sleep", Pause) /\ round' = [round EXCEPT !["initiator"] = 1]
          /\ UNCHANGED flight
      BY <1>15, <2>2 DEF InitiatorStarts
    <3> QED BY <1>2, <1>3, <1>4, <1>9, <1>10, <3>1
  <2> QED BY <2>1, <2>2
<1>16. CASE SendsAgain
  <2>1. CASE net.sendable
    BY <1>3, <1>13, <1>14, <1>16, <2>1 DEF SendsAgain
  <2>2. CASE ~net.sendable
    BY <1>3, <1>4, <1>12, <1>14, <1>16, <2>2 DEF SendsAgain
  <2> QED BY <2>1, <2>2
<1>17. CASE InitiatorReceives \/ InitiatorReceivesAnswer \/ NoReply
  BY <1>3, <1>4, <1>10, <1>11, <1>12, <1>14, <1>17
     DEF InitiatorReceives, InitiatorReceivesAnswer, NoReply, Returns
<1>18. CASE TargetStarts
  <2>1. /\ Awaits("target", "bind", 0) \/ Awaits("target", "recv", Second)
        /\ round' = [round EXCEPT !["target"] = 1] /\ UNCHANGED flight
    BY <1>18 DEF TargetStarts
  <2> QED BY <1>2, <1>3, <1>4, <1>9, <1>10, <2>1
<1>19. CASE BindFails
  BY <1>3, <1>4, <1>10, <1>11, <1>19 DEF BindFails, Returns
<1>20. CASE TargetReceives \/ TargetReceivesQuery
  <2>1. /\ Closes("target")
        /\ UNCHANGED flight \/ flight' = [flight EXCEPT !["initiator"] = @ \o Datagram("initiator")]
    BY <1>20 DEF TargetReceives, TargetReceivesQuery, Returns, RepliesTo
  <2> QED BY <1>3, <1>4, <1>6, <1>10, <1>11, <2>1
<1>21. CASE WindowEnds
  <2>1. CASE round["target"] < Rounds
    <3>1. /\ Awaits("target", "recv", Second) /\ round' = [round EXCEPT !["target"] = @ + 1]
          /\ UNCHANGED flight
      BY <1>21, <2>1 DEF WindowEnds
    <3> QED BY <1>2, <1>3, <1>4, <1>9, <1>10, <3>1
  <2>2. CASE ~(round["target"] < Rounds)
    BY <1>3, <1>4, <1>10, <1>11, <1>21, <2>2 DEF WindowEnds, Returns
  <2> QED BY <2>1, <2>2
<1>22. ASSUME NEW e \in Ends, CutShort(e)
       PROVE  TimesType'
  BY <1>3, <1>4, <1>11, <1>22 DEF CutShort
<1>23. ASSUME NEW e \in Ends, Arrives(e) \/ Loses(e) \/ Doubles(e) \/ Foreign(e)
       PROVE  TimesType'
  <2>1. UNCHANGED ends
    BY <1>23 DEF Arrives, Loses, Doubles, Foreign
  <2>2. \/ flight[e] # <<>> /\ flight' = [flight EXCEPT ![e] = Tail(@)]
        \/ flight' = [flight EXCEPT ![e] = Append(@, Latency)]
        \/ UNCHANGED flight
    BY <1>23 DEF Arrives, Loses, Doubles, Foreign
  <2> QED BY <1>3, <1>4, <1>5, <1>7, <1>8, <2>1, <2>2
<1>24. CASE Reports \/ UNCHANGED vars
  BY <1>3, <1>4, <1>5, <1>24 DEF Reports, vars, udpVars
<1>25. CASE Tick
  <2>1. Flying
    <3> SUFFICES ASSUME NEW e \in Ends, NEW i \in DOMAIN flight'[e]
                 PROVE  flight'[e][i] \in 0 .. Latency
      OBVIOUS
    <3>1. i \in DOMAIN flight[e] /\ flight[e][i] > 0 /\ flight'[e][i] = flight[e][i] - 1
      BY <1>25, FlightTicks
    <3> QED BY <1>2, <3>1
  <2>2. timer' \in [Ends -> Int]
    BY <1>2, <1>25 DEF Tick
  <2> QED BY <1>2, <1>3, <1>25, <2>1, <2>2 DEF Tick
<1> QED BY <1>15, <1>16, <1>17, <1>18, <1>19, <1>20, <1>21, <1>22, <1>23, <1>24, <1>25
        DEF Next, Steps

LEMMA TimesInit ==
  ASSUME Init
  PROVE  TimesType
<1>1. ClockType /\ TripType
  BY ClockInvInit, TripInvInit DEF Init, ClockInv, TripInv
<1> QED BY <1>1 DEF Init, TimesType, Stages

-----------------------------------------------------------------------------
(* Attempts and amounts. *)

OnTime == \E now \in Nat : Clock(now) /\ Course(now)

LEMMA Numbers ==
  ASSUME TimesType
  PROVE  /\ Latency \in Nat /\ Wait \in Nat /\ Pause \in Nat /\ Second \in Nat /\ Second > 0
         /\ Until \in Int /\ Attempt \in Nat /\ Finish \in Nat
         /\ Listens \in Nat /\ ListensUntil \in Nat /\ Sent(1) \in Nat
         /\ timer["target"] \in Int /\ round["target"] \in Nat
         /\ lost["initiator"] \in Nat /\ lost["target"] \in Nat
         /\ Cardinality(InTime) \in Nat /\ Cardinality(net.others) \in Nat
         /\ "initiator" \in net.others => Cardinality(net.others) >= 1
<1>1. /\ Latency \in Nat /\ Wait \in Nat /\ Pause \in Nat /\ Second \in Nat /\ Second > 0
      /\ Allowed(test) \in Nat
  BY Amounts
<1>2. Sent(1) \in Nat
  BY Schedule DEF Rounds
<1>3. Finish \in Nat
  BY <1>1, <1>2 DEF Finish
<1>4. Listens \in Nat /\ ListensUntil \in Nat /\ Cardinality(InTime) \in Nat
  BY Windows, Counts
<1>5. /\ Until \in Int /\ Attempt \in Nat /\ timer["target"] \in Int /\ round["target"] \in Nat
      /\ lost["initiator"] \in Nat /\ lost["target"] \in Nat
  BY TheEnds DEF TimesType, Until, Attempt
<1>6. IsFiniteSet(net.others)
  <2>1. \A S, x : IsFiniteSet(S) => IsFiniteSet(S \cup {x})
    BY FS_AddElement
  <2>2. Ends = ({} \cup {"initiator"}) \cup {"target"}
    BY DEF Ends
  <2>3. net.others \subseteq Ends /\ IsFiniteSet(Ends)
    BY <2>1, <2>2, FS_EmptySet DEF TimesType
  <2> QED BY <2>3, FS_Subset
<1>7. Cardinality(net.others) \in Nat
  BY <1>6, FS_CardinalityType
<1>8. "initiator" \in net.others => Cardinality(net.others) >= 1
  <2>1. Cardinality(net.others) = 0 => net.others = {}
    BY <1>6, FS_EmptySet
  <2> QED BY <1>7, <2>1
<1> QED BY <1>1, <1>2, <1>3, <1>4, <1>5, <1>7, <1>8

\* What the initiator can afford to lose, and what is left to it then.
LEMMA Account ==
  ASSUME TimesType, Undisturbed
  PROVE  /\ Spoils \in 0 .. 1 /\ Costs \in Int /\ (Pending => Spoils = 1) /\ (~Pending => Spoils = 0)
         /\ Interrupted => Costs >= 0
         /\ \A p \in 0 .. Rounds : Ahead(p) \in Int /\ Upto(p) \in Nat
         /\ \A p \in 0 .. Rounds : Upto(p) <= Costs => Ahead(p) >= 1 + Spoils
         /\ \A p \in 1 .. Rounds :
              /\ p \in InTime => Ahead(p - 1) = Ahead(p) + 1 /\ Upto(p) = Upto(p - 1) + 1
              /\ p \notin InTime => Ahead(p - 1) = Ahead(p) /\ Upto(p) = Upto(p - 1)
<1>1. /\ Spoils \in 0 .. 1 /\ (Pending => Spoils = 1) /\ (~Pending => Spoils = 0)
  BY DEF Spoils
<1>2. PICK l \in Nat, o \in Nat, c \in Nat :
        l = lost["target"] /\ o = Cardinality(net.others) /\ c = Cardinality(InTime)
  BY Numbers
<1>3. c > l + o /\ Costs = l + o - Spoils
  BY <1>2 DEF Undisturbed, Costs
<1>4. Costs \in Int
  BY <1>1, <1>2, <1>3
<1>5. Interrupted => Costs >= 0
  <2>0. <<"foreign">> # <<>> /\ foreign \subseteq net.others
    BY DEF TimesType
  <2>1. Interrupted /\ Pending => "initiator" \in net.others
    BY <2>0 DEF Interrupted, Pending
  <2>2. Interrupted /\ Pending => o >= 1
    BY <1>2, <2>1, Numbers
  <2> QED BY <1>1, <1>2, <1>3, <2>2
<1>6. \A p \in 0 .. Rounds : Upto(p) \in Nat
  BY Counts
<1>7. \A p \in 0 .. Rounds : Ahead(p) \in Int /\ Ahead(p) = c - Upto(p)
  BY <1>2, <1>6 DEF Ahead
<1>8. \A p \in 0 .. Rounds : Upto(p) <= Costs => Ahead(p) >= 1 + Spoils
  BY <1>1, <1>2, <1>3, <1>6, <1>7
<1>9. ASSUME NEW p \in 1 .. Rounds
      PROVE  /\ p \in InTime => Ahead(p - 1) = Ahead(p) + 1 /\ Upto(p) = Upto(p - 1) + 1
             /\ p \notin InTime => Ahead(p - 1) = Ahead(p) /\ Upto(p) = Upto(p - 1)
  <2>1. p - 1 \in 0 .. Rounds /\ p \in 0 .. Rounds
    BY DEF Rounds
  <2>2. PICK u \in Nat, v \in Nat : u = Upto(p - 1) /\ v = Upto(p)
    BY <1>6, <2>1
  <2>3. v = u + (IF p \in InTime THEN 1 ELSE 0)
    BY <2>2, Counts
  <2>4. Ahead(p) = c - v /\ Ahead(p - 1) = c - u
    BY <1>7, <2>1, <2>2
  <2> QED BY <1>2, <2>2, <2>3, <2>4
<1> QED BY <1>1, <1>4, <1>5, <1>6, <1>7, <1>8, <1>9

\* With attempts in time ahead, the next one is not too late.
LEMMA Chance ==
  ASSUME TimesType, NEW p \in 0 .. Rounds, Ahead(p) >= 1
  PROVE  /\ p + 1 \in 1 .. Rounds
         /\ Sent(p + 1) \in Nat
         /\ Sent(p + 1) + Latency < ListensUntil /\ Sent(p + 1) + 2 * Latency < Finish
<1>1. p + 1 <= Rounds /\ \E k \in InTime : k \in p + 1 .. Rounds
  BY Later
<1>2. PICK k \in InTime : k \in p + 1 .. Rounds
  BY <1>1
<1>3. /\ p + 1 \in 1 .. Rounds /\ k \in 1 .. Rounds /\ p + 1 <= k
  BY <1>1, <1>2 DEF Rounds
<1>4. PICK m \in Nat, n \in Nat : m = Sent(p + 1) /\ n = Sent(k)
  BY <1>3, Schedule
<1>5. m <= n
  BY <1>3, <1>4, Schedule
<1>6. n + Latency < ListensUntil /\ n + 2 * Latency < Finish
  BY <1>2, <1>4 DEF InTime, Finish
<1>7. PICK l \in Nat, u \in Nat, f \in Nat : l = Latency /\ u = ListensUntil /\ f = Finish
  BY Numbers
<1>8. n + l < u /\ n + 2 * l < f
  BY <1>6, <1>7
<1>9. m + l < u /\ m + 2 * l < f
  BY <1>4, <1>5, <1>7, <1>8
<1> QED BY <1>3, <1>4, <1>7, <1>9

-----------------------------------------------------------------------------
(* What a step leaves alone. *)

\* The initiator's side, and the target's.
InitiatorStays ==
  /\ phase'["initiator"] = phase["initiator"] /\ stage'["initiator"] = stage["initiator"]
  /\ timer'["initiator"] = timer["initiator"] /\ round'["initiator"] = round["initiator"]
  /\ inbox'["initiator"] = inbox["initiator"] /\ UNCHANGED foreign
TargetStays ==
  /\ phase'["target"] = phase["target"] /\ stage'["target"] = stage["target"]
  /\ timer'["target"] = timer["target"] /\ round'["target"] = round["target"]
  /\ result'["target"] = result["target"]

LEMMA InitiatorAsBefore ==
  ASSUME Fixed, InitiatorStays
  PROVE  /\ Attempt' = Attempt /\ Until' = Until /\ Pending' = Pending /\ Spoils' = Spoils
         /\ Interrupted' = Interrupted
         /\ \A p : Earliest(p)' = Earliest(p)
         /\ \A now : Sending(now)' = Sending(now)
         /\ \A now : Resting(now)' = Resting(now)
         /\ \A now, ticks : Hopes(now, ticks)' = Hopes(now, ticks)
<1>1. Attempt' = Attempt /\ Until' = Until /\ Pending' = Pending
  BY DEF InitiatorStays, Attempt, Until, Pending
<1>2. Spoils' = Spoils /\ Interrupted' = Interrupted
  BY <1>1 DEF Spoils, Interrupted, InitiatorStays, Fixed
<1>3. \A p : Earliest(p)' = Earliest(p)
  BY <1>1, FixedHere DEF Earliest
<1>4. \A what : Awaiting("initiator", what)' = Awaiting("initiator", what)
  BY DEF InitiatorStays, Awaiting, Running
<1>5. ASSUME NEW now PROVE Sending(now)' = Sending(now) /\ Resting(now)' = Resting(now)
  <2>1. Sent(Attempt)' = Sent(Attempt) /\ Sent(Attempt + 1)' = Sent(Attempt + 1) /\ Wait' = Wait
    BY <1>1, FixedHere
  <2> QED BY <1>1, <1>4, <2>1 DEF Sending, Resting
<1>6. ASSUME NEW now, NEW ticks PROVE Hopes(now, ticks)' = Hopes(now, ticks)
  <2>1. Ahead(Attempt)' = Ahead(Attempt) /\ Wait' = Wait
    BY <1>1, FixedHere
  <2> QED BY <1>1, <1>2, <1>5, <2>1 DEF Hopes
<1> QED BY <1>1, <1>2, <1>3, <1>5, <1>6

LEMMA TargetAsBefore ==
  ASSUME Fixed, TargetStays
  PROVE  \A now : Listening(now)' = Listening(now)
<1>1. Listens' = Listens
  BY FixedHere
<1> QED BY <1>1 DEF TargetStays, Listening, Awaiting, Running

-----------------------------------------------------------------------------
(* Neither end gives up too early. *)

LEMMA UnheardInTime ==
  ASSUME TimesType, Undisturbed, NEW now \in Nat, Clock(now), Unheard(now)
  PROVE  now < ListensUntil /\ now < Finish
<1>1. PICK l \in Nat, w \in Nat, u \in Nat, f \in Nat, t \in Int :
        l = Latency /\ w = Wait /\ u = ListensUntil /\ f = Finish /\ t = Until
  BY Numbers
<1>2. Interrupted
  BY DEF Unheard
<1>3. \A p \in 0 .. Rounds : Upto(p) <= Costs =>
        /\ p + 1 \in 1 .. Rounds /\ Sent(p + 1) \in Nat
        /\ Sent(p + 1) + l < u /\ Sent(p + 1) + 2 * l < f
  <2> SUFFICES ASSUME NEW p \in 0 .. Rounds, Upto(p) <= Costs
               PROVE  /\ p + 1 \in 1 .. Rounds /\ Sent(p + 1) \in Nat
                      /\ Sent(p + 1) + l < u /\ Sent(p + 1) + 2 * l < f
    OBVIOUS
  <2>1. Ahead(p) >= 1 + Spoils /\ Spoils \in 0 .. 1 /\ Ahead(p) \in Int
    BY Account
  <2>2. Ahead(p) >= 1
    BY <2>1
  <2> QED BY <1>1, <2>2, Chance
<1>4. CASE phase["initiator"] = "idle"
  <2>1. now <= Sent(1)
    <3>1. left["initiator"] = StartOf("initiator") - now
      BY <1>4, TheEnds DEF Clock
    <3>2. left["initiator"] \in Nat
      BY TheEnds DEF TimesType, ClockType
    <3>3. StartOf("initiator") \in Nat /\ Sent(1) = StartOf("initiator")
      BY Amounts, Schedule, TheEnds
    <3> QED BY <3>1, <3>2, <3>3
  <2>2. Upto(0) = 0 /\ Costs >= 0 /\ 0 \in 0 .. Rounds
    BY <1>2, Counts, Account DEF Rounds
  <2>3. Sent(0 + 1) \in Nat /\ Sent(0 + 1) + l < u /\ Sent(0 + 1) + 2 * l < f
    BY <1>3, <2>2
  <2>4. PICK s \in Nat : s = Sent(1)
    BY Numbers
  <2>5. s + l < u /\ s + 2 * l < f /\ now <= s
    BY <2>1, <2>3, <2>4
  <2> QED BY <1>1, <2>5
<1>5. CASE Sending(now) /\ Upto(Attempt) <= Costs
  <2>1. Attempt \in 1 .. Rounds /\ Attempt \in 0 .. Rounds
    BY <1>5 DEF Sending, Rounds
  <2>2. /\ Attempt + 1 \in 1 .. Rounds
        /\ Sent(Attempt + 1) + l < u /\ Sent(Attempt + 1) + 2 * l < f
    BY <1>3, <1>5, <2>1
  <2>3. Attempt \in 1 .. 4
    BY <2>1, <2>2 DEF Rounds
  <2>4. PICK s \in Nat, n \in Nat, r \in Nat : s = Sent(Attempt) /\ n = Sent(Attempt + 1) /\ r = Pause
    BY <2>1, <2>2, Schedule, Numbers
  <2>5. n = s + w + r
    BY <1>1, <2>3, <2>4, Schedule
  <2>6. now + t <= s + w /\ t \in 0 .. w
    BY <1>1, <1>5, <2>4 DEF Sending
  <2>7. n + l < u /\ n + 2 * l < f
    BY <2>2, <2>4
  <2> QED BY <1>1, <2>4, <2>5, <2>6, <2>7
<1>6. CASE /\ Sending(now) /\ Upto(Attempt - 1) <= Costs
           /\ \E i \in DOMAIN flight["target"] : flight["target"][i] <= Until - Wait + Latency
  <2>1. Attempt \in 1 .. Rounds /\ Attempt - 1 \in 0 .. Rounds /\ Attempt - 1 + 1 = Attempt
    BY <1>6 DEF Sending, Rounds
  <2>2. Sent(Attempt - 1 + 1) + l < u /\ Sent(Attempt - 1 + 1) + 2 * l < f
    BY <1>3, <1>6, <2>1
  <2>3. PICK s \in Nat : s = Sent(Attempt)
    BY <2>1, Schedule
  <2>4. s + l < u /\ s + 2 * l < f
    BY <2>1, <2>2, <2>3
  <2>5. PICK i \in DOMAIN flight["target"] : flight["target"][i] <= Until - Wait + Latency
    BY <1>6
  <2>6. PICK x \in Nat : x = flight["target"][i]
    BY <2>5, TheEnds, Numbers DEF TimesType
  <2>7. x <= t - w + l
    BY <1>1, <2>5, <2>6
  <2>8. now + t <= s + w
    BY <1>1, <1>6, <2>3 DEF Sending
  <2> QED BY <1>1, <2>4, <2>7, <2>8
<1>7. CASE Resting(now) /\ Upto(Attempt) <= Costs
  <2>1. Attempt \in 0 .. Rounds
    BY <1>7 DEF Resting, Rounds
  <2>2. /\ Sent(Attempt + 1) \in Nat
        /\ Sent(Attempt + 1) + l < u /\ Sent(Attempt + 1) + 2 * l < f
    BY <1>3, <1>7, <2>1
  <2>3. PICK n \in Nat : n = Sent(Attempt + 1)
    BY <2>2
  <2>4. now + t <= n /\ t \in Nat
    BY <1>1, <1>7, <2>3 DEF Resting
  <2>5. n + l < u /\ n + 2 * l < f
    BY <2>2, <2>3
  <2> QED BY <1>1, <2>4, <2>5
<1> QED BY <1>4, <1>5, <1>6, <1>7 DEF Unheard, Waiting, Starting, Trying, Pausing, Underway

-----------------------------------------------------------------------------
(* What the steps do. *)

Here == TimesType /\ Undisturbed /\ Fixed

LEMMA Timely ==
  ASSUME NEW now \in Nat, Clock(now)',
         Unheard(now)' \/ Heard(now)' \/ Answering(now)' \/ Delivered(now)' \/ Through'
  PROVE  OnTime'
BY DEF OnTime, Course

LEMMA Functions ==
  ASSUME TimesType
  PROVE  /\ DOMAIN phase = Ends /\ DOMAIN result = Ends
         /\ stage \in [Ends -> Stages] /\ timer \in [Ends -> Int] /\ round \in [Ends -> Nat]
         /\ lost \in [Ends -> Nat]
         /\ flight \in [Ends -> Seq(Int)] /\ inbox \in [Ends -> Seq(Datagrams)]
         /\ flight["initiator"] \in Seq(Int) /\ flight["target"] \in Seq(Int)
         /\ inbox["initiator"] \in Seq(Datagrams) /\ inbox["target"] \in Seq(Datagrams)
<1>1. DOMAIN phase = Ends /\ DOMAIN result = Ends
  BY DEF TimesType, ClockType
<1>2. flight \in [Ends -> Seq(Int)] /\ inbox \in [Ends -> Seq(Datagrams)]
  BY DEF TimesType, TripType, Datagrams
<1> QED BY <1>1, <1>2, TheEnds DEF TimesType

\* An attempt.
LEMMA RequestSent ==
  ASSUME Here, NEW number \in Nat, SendsRequest(number)
  PROVE  /\ stage'["initiator"] = "recv" /\ Until' = Wait /\ Attempt' = number
         /\ stage'["target"] = stage["target"] /\ timer'["target"] = timer["target"]
         /\ round'["target"] = round["target"]
         /\ flight'["initiator"] = flight["initiator"]
         /\ flight'["target"] = flight["target"] \o <<Latency>>
         /\ UNCHANGED <<lost, foreign, inbox>>
         /\ Pending' = Pending /\ Spoils' = Spoils /\ Costs' = Costs /\ Interrupted' = Interrupted
         /\ \A p : Earliest(p)' = Earliest(p)
<1>1. /\ Awaits("initiator", "recv", Wait) /\ round' = [round EXCEPT !["initiator"] = number]
      /\ flight' = [flight EXCEPT !["target"] = @ \o Datagram("target")]
      /\ UNCHANGED <<lost, foreign, inbox>>
  BY DEF SendsRequest, network
<1>2. Datagram("target") = <<Latency>>
  BY DEF Here, Undisturbed, Datagram
<1>3. /\ stage'["initiator"] = "recv" /\ timer'["initiator"] = Wait
      /\ round'["initiator"] = number
      /\ stage'["target"] = stage["target"] /\ timer'["target"] = timer["target"]
      /\ round'["target"] = round["target"]
  BY <1>1, Functions, TheEnds DEF Awaits, Here
<1>4. /\ flight'["initiator"] = flight["initiator"]
      /\ flight'["target"] = flight["target"] \o <<Latency>>
  BY <1>1, <1>2, Functions, TheEnds DEF Here
<1>5. Pending' = Pending
  BY <1>1 DEF Pending
<1>6. Spoils' = Spoils /\ Costs' = Costs /\ Interrupted' = Interrupted
  BY <1>1, <1>5 DEF Spoils, Costs, Interrupted, Here, Fixed
<1>7. \A p : Earliest(p)' = Earliest(p)
  BY <1>5, FixedHere DEF Earliest, Here
<1> QED BY <1>1, <1>3, <1>4, <1>5, <1>6, <1>7 DEF Attempt, Until

\* The request just sent is on its way.
LEMMA SentUnderway ==
  ASSUME TimesType, flight'["target"] = flight["target"] \o <<Latency>>
  PROVE  Underway(Latency)'
<1>1. flight["target"] \in Seq(Int) /\ Latency \in Nat
  BY Functions, Numbers
<1>2. PICK box \in Seq(Int) : box = flight["target"]
  BY <1>1
<1>3. /\ Len(box) + 1 \in DOMAIN (box \o <<Latency>>)
      /\ (box \o <<Latency>>)[Len(box) + 1] = Latency
  BY <1>1
<1>4. \E i \in DOMAIN flight'["target"] : flight'["target"][i] <= Latency
  <2>1. PICK both, i : both = box \o <<Latency>> /\ i = Len(box) + 1
    OBVIOUS
  <2>2. i \in DOMAIN both /\ both[i] = Latency /\ Latency <= Latency
    BY <1>1, <1>3, <2>1
  <2> QED BY <1>2, <2>1, <2>2
<1> QED BY <1>4 DEF Underway

\* An attempt that fails and is not the last.
LEMMA AttemptOver ==
  ASSUME Here, NEW reason, NEW unread, AttemptFails(Attempt, reason, unread), Attempt < Rounds
  PROVE  /\ UNCHANGED <<phase, left, result>>
         /\ stage'["initiator"] = "sleep" /\ Until' = Pause /\ Attempt' = Attempt
         /\ TargetStays
         /\ inbox'["initiator"] = unread /\ inbox'["target"] = inbox["target"]
<1>1. /\ Awaits("initiator", "sleep", Pause) /\ round' = [round EXCEPT !["initiator"] = Attempt]
      /\ inbox' = [inbox EXCEPT !["initiator"] = unread]
      /\ UNCHANGED timingVars
  BY DEF AttemptFails
<1>2. /\ stage'["initiator"] = "sleep" /\ timer'["initiator"] = Pause
      /\ round'["initiator"] = Attempt
      /\ stage'["target"] = stage["target"] /\ timer'["target"] = timer["target"]
      /\ round'["target"] = round["target"]
      /\ inbox'["initiator"] = unread /\ inbox'["target"] = inbox["target"]
  BY <1>1, Functions, TheEnds DEF Awaits, Here
<1>3. UNCHANGED <<phase, left, result>>
  BY <1>1 DEF timingVars
<1> QED BY <1>2, <1>3 DEF Attempt, Until, TargetStays

\* An attempt follows the one before.
LEMMA Follows ==
  ASSUME Here, NEW now \in Nat, NEW number \in 1 .. Rounds, SendsRequest(number),
         phase'["initiator"] = "running", now <= Sent(number)
  PROVE  Sending(now)'
<1>1. /\ stage'["initiator"] = "recv" /\ Until' = Wait /\ Attempt' = number
  BY RequestSent DEF Rounds
<1>2. Awaiting("initiator", "recv")'
  BY <1>1 DEF Awaiting, Running
<1>3. Sent(Attempt)' = Sent(number) /\ Wait' = Wait
  BY <1>1, FixedHere DEF Here
<1>4. PICK w \in Nat, s \in Nat : w = Wait /\ s = Sent(number)
  BY Numbers, Schedule DEF Here
<1>5. now + w <= s + w /\ w \in 0 .. w
  BY <1>4
<1> QED BY <1>1, <1>2, <1>3, <1>4, <1>5 DEF Sending

\* A pause follows an attempt.
LEMMA Pauses ==
  ASSUME Here, NEW now \in Nat, Sending(now), Attempt < Rounds, Attempt' = Attempt, Until' = Pause,
         phase'["initiator"] = phase["initiator"], stage'["initiator"] = "sleep"
  PROVE  Resting(now)' /\ now + Pause <= Sent(Attempt + 1)
<1>1. Awaiting("initiator", "recv") /\ Attempt \in 1 .. Rounds /\ Until \in 0 .. Wait
      /\ now + Until <= Sent(Attempt) + Wait
  BY DEF Sending
<1>2. Awaiting("initiator", "sleep")'
  BY <1>1 DEF Awaiting, Running
<1>3. Attempt \in 1 .. Rounds - 1 /\ Attempt \in 1 .. 4 /\ Attempt + 1 \in 1 .. Rounds
  BY <1>1 DEF Rounds
<1>4. PICK w \in Nat, t \in Nat, r \in Nat, s \in Nat, n \in Nat :
        w = Wait /\ t = Until /\ r = Pause /\ s = Sent(Attempt) /\ n = Sent(Attempt + 1)
  <2>1. Sent(Attempt) \in Nat /\ Sent(Attempt + 1) \in Nat
    BY <1>3, <1>1, Schedule DEF Here
  <2>2. Wait \in Nat /\ Pause \in Nat
    BY Numbers DEF Here
  <2>3. Until \in Nat
    BY <1>1, <2>2
  <2> QED BY <2>1, <2>2, <2>3
<1>5. n = s + w + r
  BY <1>3, <1>4, Schedule DEF Here
<1>6. now + t <= s + w
  BY <1>1, <1>4
<1>7. now + r <= n
  BY <1>4, <1>5, <1>6
<1>8. Sent(Attempt + 1)' = Sent(Attempt + 1)
  BY FixedHere DEF Here
<1> QED BY <1>2, <1>3, <1>4, <1>7, <1>8 DEF Resting

-----------------------------------------------------------------------------
(* Before the target hears of the initiator. *)

LEMMA WaitingStays ==
  ASSUME Here, InitiatorStays, lost'["target"] = lost["target"],
         flight'["target"] = flight["target"]
  PROVE  \A now : Waiting(now)' = Waiting(now)
<1>1. /\ Attempt' = Attempt /\ Until' = Until /\ Spoils' = Spoils
      /\ (\A p : Earliest(p)' = Earliest(p))
      /\ (\A now : Sending(now)' = Sending(now)) /\ (\A now : Resting(now)' = Resting(now))
  BY InitiatorAsBefore DEF Here
<1>2. /\ Upto(Attempt)' = Upto(Attempt) /\ Upto(Attempt - 1)' = Upto(Attempt - 1) /\ Wait' = Wait
      /\ Earliest(Attempt)' = Earliest(Attempt) /\ Earliest(Attempt + 1)' = Earliest(Attempt + 1)
  BY <1>1, FixedHere DEF Here
<1>3. Costs' = Costs
  BY <1>1 DEF Costs, Here, Fixed
<1>4. Underway(Until - Wait + Latency)' = Underway(Until - Wait + Latency)
  BY <1>1, <1>2 DEF Underway
<1>5. Starting' = Starting
  BY DEF Starting, InitiatorStays
<1> QED BY <1>1, <1>2, <1>3, <1>4, <1>5 DEF Waiting, Trying, Pausing

\* The initiator sends its first request,
LEMMA UnheardStarts ==
  ASSUME Here, NEW now \in Nat, Clock(now), Unheard(now), InitiatorStarts
  PROVE  OnTime'
<1>1. Starts("initiator", Allowed(test)) /\ SendsRequest(1)
  BY DEF InitiatorStarts, Here, Undisturbed
<1>2. /\ Clock(now)' /\ now = StartOf("initiator") /\ phase'["initiator"] = "running"
      /\ phase'["target"] = phase["target"] /\ UNCHANGED result
  BY <1>1, ClockStarts, TheEnds DEF Here
<1>3. /\ stage'["initiator"] = "recv" /\ Until' = Wait /\ Attempt' = 1
      /\ TargetStays /\ flight'["initiator"] = flight["initiator"]
      /\ flight'["target"] = flight["target"] \o <<Latency>>
      /\ UNCHANGED inbox
      /\ Costs' = Costs /\ Interrupted' = Interrupted
      /\ (\A p : Earliest(p)' = Earliest(p))
  BY <1>1, <1>2, RequestSent DEF TargetStays
<1>4. Sent(1) = now /\ SentEarliest(1) = now
  BY <1>2, Schedule DEF Here
<1>5. 1 \in 1 .. Rounds /\ 0 \in 0 .. Rounds
  BY DEF Rounds
<1>6. Sending(now)'
  BY <1>1, <1>2, <1>4, <1>5, Follows
<1>7. (now + Until - Wait >= Earliest(Attempt))'
  <2>1. Earliest(1) = now
    BY <1>4 DEF Earliest
  <2>2. Earliest(Attempt)' = now /\ Wait' = Wait /\ Wait \in Nat
    BY <1>3, <2>1, FixedHere, Numbers DEF Here
  <2> QED BY <1>3, <2>2
<1>8. (Upto(Attempt - 1) <= Costs)'
  <2>1. Upto(0) = 0 /\ Costs >= 0
    BY Counts, Account DEF Here, Unheard
  <2>2. Upto(Attempt - 1)' = Upto(0)
    <3>1. Attempt' - 1 = 0
      BY <1>3
    <3> QED BY <3>1, FixedHere DEF Here
  <2> QED BY <1>3, <2>1, <2>2
<1>9. Underway(Until - Wait + Latency)'
  <2>1. Underway(Latency)'
    BY <1>3, SentUnderway DEF Here
  <2>2. Until' - Wait' + Latency = Latency
    BY <1>3, FixedHere, Numbers DEF Here
  <2> QED BY <2>1, <2>2
<1>10. Trying(now)'
  BY <1>6, <1>7, <1>8, <1>9 DEF Trying
<1>11. Listening(now)' = Listening(now)
  BY <1>3, TargetAsBefore DEF Here
<1>12. Unheard(now)'
  BY <1>2, <1>3, <1>10, <1>11 DEF Unheard, Waiting
<1> QED BY <1>2, <1>12, Timely

\* ... and the next ones.
LEMMA SendsAgainSends ==
  ASSUME Here, SendsAgain
  PROVE  /\ Awaiting("initiator", "sleep") /\ Until = 0
         /\ SendsRequest(Attempt + 1) /\ UNCHANGED <<phase, left, result>>
BY DEF Here, Undisturbed, SendsAgain, Expired, timingVars, Attempt, Until

LEMMA UnheardSends ==
  ASSUME Here, NEW now \in Nat, Clock(now), Unheard(now), SendsAgain
  PROVE  OnTime'
<1>1. /\ Awaiting("initiator", "sleep") /\ Until = 0
      /\ SendsRequest(Attempt + 1) /\ UNCHANGED <<phase, left, result>>
  BY SendsAgainSends
<1>2. Clock(now)'
  BY <1>1, ClockStands DEF Here
<1>3. Pausing(now)
  BY <1>1 DEF Unheard, Waiting, Starting, Trying, Sending, Awaiting, Running
<1>4. /\ Attempt \in 1 .. 4 /\ now <= Sent(Attempt + 1) /\ now >= Earliest(Attempt + 1)
      /\ Upto(Attempt) <= Costs
  BY <1>1, <1>3 DEF Pausing, Resting, Rounds
<1>5. Attempt + 1 \in 1 .. Rounds /\ Attempt + 1 \in Nat
  BY <1>4 DEF Rounds
<1>6. /\ stage'["initiator"] = "recv" /\ Until' = Wait /\ Attempt' = Attempt + 1
      /\ TargetStays /\ flight'["initiator"] = flight["initiator"]
      /\ flight'["target"] = flight["target"] \o <<Latency>>
      /\ UNCHANGED inbox
      /\ Costs' = Costs /\ Interrupted' = Interrupted
      /\ (\A p : Earliest(p)' = Earliest(p))
  BY <1>1, <1>5, RequestSent DEF TargetStays
<1>7. Sending(now)'
  BY <1>1, <1>4, <1>5, Follows DEF Awaiting, Running
<1>8. (now + Until - Wait >= Earliest(Attempt))'
  <2>1. Earliest(Attempt)' = Earliest(Attempt + 1) /\ Wait' = Wait /\ Wait \in Nat
    BY <1>6, FixedHere, Numbers DEF Here
  <2> QED BY <1>4, <1>6, <2>1
<1>9. (Upto(Attempt - 1) <= Costs)'
  <2>1. Attempt' - 1 = Attempt
    BY <1>4, <1>6
  <2>2. Upto(Attempt - 1)' = Upto(Attempt)
    BY <2>1, FixedHere DEF Here
  <2> QED BY <1>4, <1>6, <2>2
<1>10. Underway(Until - Wait + Latency)'
  <2>1. Underway(Latency)'
    BY <1>6, SentUnderway DEF Here
  <2>2. Until' - Wait' + Latency = Latency
    BY <1>6, FixedHere, Numbers DEF Here
  <2> QED BY <2>1, <2>2
<1>11. Trying(now)'
  BY <1>7, <1>8, <1>9, <1>10 DEF Trying
<1>12. Listening(now)' = Listening(now)
  BY <1>6, TargetAsBefore DEF Here
<1>13. Unheard(now)'
  BY <1>1, <1>6, <1>11, <1>12 DEF Unheard, Waiting
<1> QED BY <1>2, <1>13, Timely

\* No reply came to an attempt,
LEMMA UnheardNoReply ==
  ASSUME Here, NEW now \in Nat, Clock(now), Unheard(now), NoReply
  PROVE  OnTime'
<1>1. /\ Awaiting("initiator", "recv") /\ Until = 0 /\ inbox["initiator"] = <<>>
      /\ AttemptFails(Attempt, "timeout", <<>>) /\ UNCHANGED <<network, flight>>
  BY DEF NoReply, Expired, Attempt, Until
<1>2. Trying(now)
  BY <1>1 DEF Unheard, Waiting, Starting, Pausing, Resting, Awaiting, Running
<1>3. Sending(now) /\ Attempt \in 1 .. Rounds /\ now + 0 - Wait >= Earliest(Attempt)
  BY <1>1, <1>2 DEF Trying, Sending
<1>4. Upto(Attempt) <= Costs
  <2>1. ~Underway(Until - Wait + Latency)
    <3> SUFFICES ASSUME NEW i \in DOMAIN flight["target"],
                        flight["target"][i] <= Until - Wait + Latency
                 PROVE  FALSE
      BY DEF Underway
    <3>1. PICK x \in Nat : x = flight["target"][i]
      BY TheEnds, Numbers DEF Here, TimesType
    <3>2. Latency \in Nat /\ Wait \in Nat /\ 2 * Latency < Wait
      BY Numbers DEF Here, Undisturbed
    <3> QED BY <1>1, <3>1, <3>2
  <2> QED BY <1>2, <2>1 DEF Trying
<1>5. Attempt < Rounds
  <2>1. Attempt \in 0 .. Rounds
    BY <1>3 DEF Rounds
  <2>2. Ahead(Attempt) >= 1 + Spoils /\ Spoils \in 0 .. 1 /\ Ahead(Attempt) \in Int
    BY <1>4, <2>1, Account DEF Here
  <2>3. Ahead(Attempt) >= 1
    BY <2>2
  <2>4. Attempt + 1 \in 1 .. Rounds
    BY <2>1, <2>3, Chance DEF Here
  <2> QED BY <2>1, <2>4 DEF Rounds
<1>6. /\ UNCHANGED <<phase, left, result>>
      /\ stage'["initiator"] = "sleep" /\ Until' = Pause /\ Attempt' = Attempt
      /\ TargetStays
      /\ inbox'["initiator"] = <<>> /\ inbox'["target"] = inbox["target"]
  BY <1>1, <1>5, AttemptOver
<1>7. Clock(now)'
  BY <1>6, ClockStands DEF Here
<1>8. Resting(now)'
  BY <1>3, <1>5, <1>6, Pauses
<1>9. UNCHANGED <<foreign, lost>>
  BY <1>1 DEF network
<1>10. Pending' = Pending /\ Spoils' = Spoils /\ Costs' = Costs
  <2>1. Pending' = Pending
    BY <1>1, <1>6, <1>9 DEF Pending
  <2> QED BY <1>9, <2>1 DEF Spoils, Costs, Here, Fixed
<1>11. now + Pause >= Earliest(Attempt + 1)
  <2>1. Attempt \in 1 .. 4 /\ Attempt + 1 \in 1 .. Rounds /\ Attempt \in 1 .. Rounds
    BY <1>3, <1>5 DEF Rounds
  <2>2. PICK w \in Nat, r \in Nat : w = Wait /\ r = Pause
    BY Numbers DEF Here
  <2>3. PICK s \in Nat, n \in Nat, e \in Int, f \in Int :
          /\ s = Sent(Attempt) /\ n = Sent(Attempt + 1)
          /\ e = SentEarliest(Attempt) /\ f = SentEarliest(Attempt + 1)
    BY <2>1, Schedule DEF Here
  <2>4. n = s + w + r /\ e <= s /\ f <= n
    BY <2>1, <2>2, <2>3, Schedule DEF Here
  <2>5. CASE Pending
    <3>1. now - w >= s
      BY <1>3, <2>2, <2>3, <2>5 DEF Earliest
    <3>2. now + r >= n
      BY <2>2, <2>3, <2>4, <3>1
    <3> QED BY <2>2, <2>3, <2>5, <3>2 DEF Earliest
  <2>6. CASE ~Pending
    <3>1. now - w >= e
      BY <1>3, <2>2, <2>3, <2>6 DEF Earliest
    <3>2. f <= e + w + r
      BY <2>1, <2>2, <2>3, <2>4, SentEarliestSteps DEF Here
    <3>3. now + r >= f
      BY <2>2, <2>3, <3>1, <3>2
    <3> QED BY <2>2, <2>3, <2>6, <3>3 DEF Earliest
  <2> QED BY <2>5, <2>6
<1>12. Earliest(Attempt + 1)' = Earliest(Attempt + 1) /\ Upto(Attempt)' = Upto(Attempt)
  BY <1>6, <1>10, FixedHere DEF Earliest, Here
<1>13. Pausing(now)'
  BY <1>4, <1>6, <1>8, <1>10, <1>11, <1>12 DEF Pausing
<1>14. Interrupted'
  BY <1>6 DEF Interrupted
<1>15. Listening(now)' = Listening(now)
  BY <1>6, TargetAsBefore DEF Here
<1>16. Unheard(now)'
  BY <1>1, <1>6, <1>13, <1>14, <1>15 DEF Unheard, Waiting
<1> QED BY <1>7, <1>16, Timely

\* ... or a datagram of others came instead.
LEMMA TakesForeign ==
  ASSUME InitiatorReceives \/ InitiatorReceivesAnswer, Head(inbox["initiator"]) = "foreign"
  PROVE  /\ Awaiting("initiator", "recv") /\ inbox["initiator"] # <<>>
         /\ AttemptFails(Attempt, "unexpected", Tail(inbox["initiator"]))
         /\ UNCHANGED <<network, flight>>
BY DEF InitiatorReceives, InitiatorReceivesAnswer, FromTarget, ValidAnswer, Attempt

\* The one datagram of others is taken: nothing else is to spoil an attempt.
LEMMA Spoiled ==
  ASSUME Here, Interrupted, inbox["initiator"] # <<>>, inbox'["initiator"] = Tail(inbox["initiator"]),
         UNCHANGED <<foreign, lost>>
  PROVE  /\ Pending /\ Spoils = 1 /\ ~Pending' /\ Spoils' = 0 /\ Costs' = Costs + 1
         /\ "initiator" \in net.others
         /\ inbox["initiator"] = <<"foreign">> /\ Head(inbox["initiator"]) = "foreign"
         /\ Interrupted' /\ inbox'["initiator"] = <<>>
<1>1. inbox["initiator"] = <<"foreign">> /\ "initiator" \in net.others \ foreign
  BY DEF Interrupted
<1>2. /\ Head(<<"foreign">>) = "foreign" /\ Tail(<<"foreign">>) = <<>>
      /\ <<"foreign">> # <<>>
  OBVIOUS
<1>3. Pending /\ ~Pending'
  BY <1>1, <1>2 DEF Pending
<1>4. Spoils = 1 /\ Spoils' = 0
  BY <1>3 DEF Spoils
<1>5. PICK l \in Nat, o \in Nat : l = lost["target"] /\ o = Cardinality(net.others)
  BY Numbers DEF Here
<1>6. Costs = l + o - 1 /\ Costs' = l + o - 0
  BY <1>4, <1>5 DEF Costs, Here, Fixed
<1>7. Costs' = Costs + 1
  BY <1>5, <1>6
<1> QED BY <1>1, <1>2, <1>3, <1>4, <1>7 DEF Interrupted

LEMMA UnheardSpoiled ==
  ASSUME Here, NEW now \in Nat, Clock(now), Unheard(now),
         InitiatorReceives \/ InitiatorReceivesAnswer
  PROVE  OnTime'
<1>1. Interrupted /\ inbox["initiator"] # <<>>
  BY DEF Unheard, InitiatorReceives, InitiatorReceivesAnswer
<1>2. Head(inbox["initiator"]) = "foreign"
  <2>1. Head(<<"foreign">>) = "foreign"
    OBVIOUS
  <2> QED BY <1>1, <2>1 DEF Interrupted
<1>3. /\ Awaiting("initiator", "recv")
      /\ AttemptFails(Attempt, "unexpected", Tail(inbox["initiator"]))
      /\ UNCHANGED <<network, flight>>
  BY <1>2, TakesForeign
<1>4. UNCHANGED <<foreign, lost>>
  BY <1>3 DEF network
<1>5. Trying(now)
  BY <1>3 DEF Unheard, Waiting, Starting, Pausing, Resting, Awaiting, Running
<1>6. /\ Sending(now) /\ Attempt \in 1 .. Rounds /\ Until \in 0 .. Wait
      /\ now + Until - Wait >= Earliest(Attempt) /\ Upto(Attempt - 1) <= Costs
  BY <1>5 DEF Trying, Sending
<1>7. Pending /\ Spoils = 1
  <2>1. inbox["initiator"] = <<"foreign">>
    BY <1>1 DEF Interrupted
  <2> QED BY <2>1 DEF Pending, Spoils
<1>8. Attempt < Rounds
  <2>1. Attempt - 1 \in 0 .. Rounds /\ Attempt \in 1 .. 5
    BY <1>6 DEF Rounds
  <2>2. Ahead(Attempt - 1) >= 2
    BY <1>6, <1>7, <2>1, Account DEF Here
  <2>3. Attempt - 1 + 2 <= Rounds
    BY <2>1, <2>2, Later DEF Here
  <2> QED BY <2>1, <2>3 DEF Rounds
<1>9. /\ UNCHANGED <<phase, left, result>>
      /\ stage'["initiator"] = "sleep" /\ Until' = Pause /\ Attempt' = Attempt
      /\ TargetStays
      /\ inbox'["initiator"] = Tail(inbox["initiator"]) /\ inbox'["target"] = inbox["target"]
  BY <1>3, <1>8, AttemptOver
<1>10. /\ ~Pending' /\ Spoils' = 0 /\ Costs' = Costs + 1 /\ "initiator" \in net.others
       /\ Interrupted'
  BY <1>1, <1>4, <1>9, Spoiled
<1>11. Clock(now)'
  BY <1>9, ClockStands DEF Here
<1>12. Resting(now)'
  BY <1>6, <1>8, <1>9, Pauses
<1>13. now + Pause >= SentEarliest(Attempt + 1)
  <2>1. Attempt \in 1 .. 4 /\ Attempt + 1 \in 2 .. Rounds /\ Attempt \in 1 .. Rounds
        /\ Attempt + 1 \in 1 .. Rounds
    BY <1>6, <1>8 DEF Rounds
  <2>2. PICK w \in Nat, r \in Nat, t \in Nat : w = Wait /\ r = Pause /\ t = Until
    <3>1. Wait \in Nat /\ Pause \in Nat
      BY Numbers DEF Here
    <3>2. Until \in Nat
      BY <1>6, <3>1
    <3> QED BY <3>1, <3>2
  <2>3. PICK s \in Nat, n \in Nat : s = Sent(Attempt) /\ n = Sent(Attempt + 1)
    BY <2>1, Schedule DEF Here
  <2>4. n = s + w + r
    BY <2>1, <2>2, <2>3, Schedule DEF Here
  <2>5. SentEarliest(Attempt + 1) = n - w
    BY <1>10, <2>1, <2>2, <2>3, Schedule DEF Here
  <2>6. now + t - w >= s /\ t <= w
    BY <1>6, <1>7, <2>2, <2>3 DEF Earliest
  <2>7. now + r >= n - w
    BY <2>2, <2>3, <2>4, <2>6
  <2> QED BY <2>2, <2>5, <2>7
<1>14. /\ Earliest(Attempt + 1)' = SentEarliest(Attempt + 1) /\ Upto(Attempt)' = Upto(Attempt)
  BY <1>9, <1>10, FixedHere DEF Earliest, Here
<1>15. Upto(Attempt) <= Costs + 1
  <2>1. Attempt \in 0 .. Rounds /\ Attempt - 1 \in 0 .. Rounds
    BY <1>6 DEF Rounds
  <2>2. PICK u \in Nat, v \in Nat, c \in Int : u = Upto(Attempt - 1) /\ v = Upto(Attempt) /\ c = Costs
    BY <2>1, Account DEF Here
  <2>3. v = u + 1 \/ v = u
    BY <1>6, <2>2, Account DEF Here
  <2> QED BY <1>6, <2>2, <2>3
<1>16. Pausing(now)'
  BY <1>9, <1>10, <1>12, <1>13, <1>14, <1>15 DEF Pausing
<1>17. Listening(now)' = Listening(now)
  BY <1>9, TargetAsBefore DEF Here
<1>18. Unheard(now)'
  BY <1>3, <1>9, <1>10, <1>16, <1>17 DEF Unheard, Waiting
<1> QED BY <1>11, <1>18, Timely

\* The target starts to listen,
LEMMA UnheardListens ==
  ASSUME Here, NEW now \in Nat, Clock(now), Unheard(now), TargetStarts
  PROVE  OnTime'
<1>1. Starts("target", Allowed(test)) /\ Awaits("target", "recv", Second)
      /\ round' = [round EXCEPT !["target"] = 1] /\ UNCHANGED <<network, flight, inbox>>
  BY DEF TargetStarts, Here, Undisturbed
<1>2. /\ Clock(now)' /\ now = StartOf("target") /\ phase'["target"] = "running"
      /\ phase'["initiator"] = phase["initiator"]
  BY <1>1, ClockStarts, TheEnds DEF Here
<1>3. /\ stage'["target"] = "recv" /\ timer'["target"] = Second /\ round'["target"] = 1
      /\ InitiatorStays /\ lost'["target"] = lost["target"]
  BY <1>1, <1>2, Functions, TheEnds DEF Awaits, Here, InitiatorStays, network
<1>4. Waiting(now)' = Waiting(now) /\ Interrupted' = Interrupted
  BY <1>1, <1>3, WaitingStays, InitiatorAsBefore DEF Here
<1>5. Listening(now)'
  <2>1. Awaiting("target", "recv")'
    BY <1>2, <1>3 DEF Awaiting, Running
  <2>2. PICK s \in Nat, o \in Nat : s = Second /\ o = Listens
    BY Numbers DEF Here
  <2>3. now = o /\ Listens' = o /\ 1 * s = s
    BY <1>2, <2>2, Windows, FixedHere DEF Here
  <2>4. s = o + s - now
    BY <2>2, <2>3
  <2>5. timer'["target"] = Listens' + round'["target"] * Second - now
    BY <1>3, <2>2, <2>3, <2>4
  <2>6. round'["target"] \in 1 .. Rounds /\ timer'["target"] \in Nat
    BY <1>3, <2>2 DEF Rounds
  <2> QED BY <2>1, <2>5, <2>6 DEF Listening
<1>6. Unheard(now)'
  BY <1>1, <1>4, <1>5 DEF Unheard
<1> QED BY <1>2, <1>6, Timely

\* ... and goes on with the next window.
LEMMA UnheardWindow ==
  ASSUME Here, NEW now \in Nat, Clock(now), Unheard(now), WindowEnds
  PROVE  OnTime'
<1>1. Awaiting("target", "recv") /\ timer["target"] = 0
  BY DEF WindowEnds, Expired
<1>2. Listening(now)
  BY <1>1 DEF Unheard, Awaiting, Running
<1>3. PICK s \in Nat, o \in Nat, d \in Nat : s = Second /\ o = Listens /\ d = ListensUntil
  BY Numbers DEF Here
<1>4. PICK k \in 1 .. 5 : k = round["target"] /\ o + k * s - now = 0
  BY <1>1, <1>2, <1>3 DEF Listening, Rounds
<1>5. k < 5
  <2>1. now < d /\ d <= o + 5 * s
    BY <1>3, UnheardInTime, Windows DEF Here
  <2>2. k = 5 => now = o + 5 * s
    BY <1>3, <1>4
  <2> QED BY <1>3, <1>4, <2>1, <2>2
<1>6. /\ Awaits("target", "recv", Second) /\ round' = [round EXCEPT !["target"] = k + 1]
      /\ UNCHANGED <<timingVars, inbox, network, flight>>
  BY <1>4, <1>5, Functions, TheEnds DEF WindowEnds, Rounds, Here
<1>7. /\ stage'["target"] = "recv" /\ timer'["target"] = Second /\ round'["target"] = k + 1
      /\ InitiatorStays /\ lost'["target"] = lost["target"] /\ UNCHANGED <<phase, left>>
  BY <1>6, Functions, TheEnds DEF Awaits, Here, InitiatorStays, network, timingVars
<1>8. Clock(now)'
  BY <1>7, ClockStands DEF Here
<1>9. Waiting(now)' = Waiting(now) /\ Interrupted' = Interrupted
  BY <1>6, <1>7, WaitingStays, InitiatorAsBefore DEF Here
<1>10. Listening(now)'
  <2>1. Awaiting("target", "recv")'
    BY <1>1, <1>7 DEF Awaiting, Running
  <2>2. (k + 1) * s = k * s + s /\ k * s \in Nat
    BY <1>3
  <2>3. s = o + (k + 1) * s - now
    <3>1. PICK m \in Nat : m = k * s
      BY <2>2
    <3>2. o + m - now = 0 /\ (k + 1) * s = m + s
      BY <1>4, <2>2, <3>1
    <3> QED BY <1>3, <3>2
  <2>4. Listens' = Listens
    BY FixedHere DEF Here
  <2>5. timer'["target"] = Listens' + round'["target"] * Second - now
    BY <1>3, <1>7, <2>3, <2>4
  <2>6. round'["target"] \in 1 .. Rounds /\ timer'["target"] \in Nat
    BY <1>3, <1>5, <1>7 DEF Rounds
  <2> QED BY <2>1, <2>5, <2>6 DEF Listening
<1>11. Unheard(now)'
  BY <1>6, <1>9, <1>10 DEF Unheard
<1> QED BY <1>8, <1>11, Timely

\* What arrives goes to the socket of its end, if there is one.
LEMMA Arriving ==
  ASSUME TimesType, NEW e \in Ends, NEW f \in Ends, f # e, Arrives(e)
  PROVE  /\ UNCHANGED <<phase, left, result, stage, timer, round, lost, foreign>>
         /\ flight[e] # <<>> /\ flight'[e] = Tail(flight[e]) /\ flight'[f] = flight[f]
         /\ inbox'[f] = inbox[f]
         /\ ~Bound(e) => inbox'[e] = inbox[e]
         /\ Bound(e) => inbox'[e] = Append(inbox[e], IF e = "target" THEN "request" ELSE "reply")
<1>1. /\ UNCHANGED <<phase, left, result, stage, timer, round, lost, foreign>>
      /\ flight[e] # <<>> /\ flight' = [flight EXCEPT ![e] = Tail(@)]
      /\ Buffers(e, IF e = "target" THEN "request" ELSE "reply")
  BY DEF Arrives, timingVars, network, ends
<1> QED BY <1>1, Functions DEF Buffers

\* A request for a target that does not listen yet is none it could rely on.
LEMMA UnheardTooEarly ==
  ASSUME Here, NEW now \in Nat, Clock(now), Unheard(now), Arrives("target"), ~Bound("target")
  PROVE  OnTime'
<1>1. /\ UNCHANGED <<phase, left, result, stage, timer, round, lost, foreign>>
      /\ flight["target"] # <<>> /\ flight'["initiator"] = flight["initiator"]
      /\ inbox'["initiator"] = inbox["initiator"] /\ inbox'["target"] = inbox["target"]
  BY Arriving, TheEnds DEF Here
<1>2. Clock(now)'
  BY <1>1, ClockStands DEF Here
<1>3. InitiatorStays /\ TargetStays
  BY <1>1 DEF InitiatorStays, TargetStays
<1>4. /\ Attempt' = Attempt /\ Until' = Until /\ Spoils' = Spoils /\ Interrupted' = Interrupted
      /\ (\A p : Earliest(p)' = Earliest(p))
      /\ Sending(now)' = Sending(now) /\ Resting(now)' = Resting(now)
      /\ Listening(now)' = Listening(now)
  BY <1>3, InitiatorAsBefore, TargetAsBefore DEF Here
<1>5. /\ Upto(Attempt)' = Upto(Attempt) /\ Upto(Attempt - 1)' = Upto(Attempt - 1) /\ Wait' = Wait
      /\ Earliest(Attempt)' = Earliest(Attempt) /\ Earliest(Attempt + 1)' = Earliest(Attempt + 1)
  BY <1>4, FixedHere DEF Here
<1>6. Costs' = Costs
  BY <1>1, <1>4 DEF Costs, Here, Fixed
<1>7. phase["target"] = "idle"
  BY DEF Unheard, Listening, Awaiting, Bound
<1>8. now <= Listens
  <2>1. left["target"] = StartOf("target") - now /\ left["target"] \in Nat
    BY <1>7, TheEnds DEF Clock, Here, TimesType, ClockType
  <2>2. Listens = StartOf("target") /\ Listens \in Nat
    BY Windows DEF Here
  <2> QED BY <2>1, <2>2
<1>9. ASSUME Trying(now) PROVE Trying(now)'
  <2>1. Attempt \in 1 .. Rounds /\ Attempt \in 0 .. Rounds /\ Until \in 0 .. Wait
    BY <1>9 DEF Trying, Sending, Rounds
  <2>2. PICK w \in Nat, t \in Nat, o \in Nat, e \in Int, s \in Nat :
          /\ w = Wait /\ t = Until /\ o = Listens /\ e = SentEarliest(Attempt) /\ s = Sent(Attempt)
    <3>1. Wait \in Nat /\ Listens \in Nat
      BY Numbers DEF Here
    <3>2. Until \in Nat
      BY <2>1, <3>1
    <3>3. SentEarliest(Attempt) \in Int /\ Sent(Attempt) \in Nat
      BY <2>1, Schedule DEF Here
    <3> QED BY <3>1, <3>2, <3>3
  <2>3. now + t - w >= e
    <3>1. e <= s
      BY <2>1, <2>2, Schedule DEF Here
    <3>2. Earliest(Attempt) = e \/ Earliest(Attempt) = s
      BY <2>2 DEF Earliest
    <3>3. now + t - w >= Earliest(Attempt)
      BY <1>9, <2>2 DEF Trying
    <3> QED BY <2>2, <3>1, <3>2, <3>3
  <2>4. e <= o
    BY <1>8, <2>1, <2>2, <2>3
  <2>5. InTime \cap (1 .. Attempt) = {}
    <3> SUFFICES ASSUME NEW k \in InTime, k \in 1 .. Attempt PROVE FALSE
      OBVIOUS
    <3>1. k \in 1 .. Rounds /\ k <= Attempt
      BY <2>1 DEF Rounds
    <3>2. PICK f \in Int : f = SentEarliest(k)
      BY <3>1, Schedule DEF Here
    <3>3. f <= e
      BY <2>1, <2>2, <3>1, <3>2, Schedule DEF Here
    <3>4. f > o
      BY <2>2, <3>2 DEF InTime
    <3> QED BY <2>2, <2>4, <3>2, <3>3, <3>4
  <2>6. Upto(Attempt) = 0
    BY <2>5, FS_EmptySet DEF Upto
  <2>7. Upto(Attempt) <= Costs
    <3>1. Costs >= 0
      BY Account DEF Here, Unheard
    <3> QED BY <2>6, <3>1
  <2> QED BY <1>4, <1>5, <1>6, <1>9, <2>7 DEF Trying
<1>10. ASSUME Pausing(now) PROVE Pausing(now)'
  BY <1>4, <1>5, <1>6, <1>10 DEF Pausing
<1>11. Unheard(now)'
  BY <1>1, <1>4, <1>9, <1>10 DEF Unheard, Waiting, Starting
<1> QED BY <1>2, <1>11, Timely

\* The target receives a request. The answer to it, or to a later one, will be
\* in time.
LEMMA UnheardArrives ==
  ASSUME Here, NEW now \in Nat, Clock(now), Unheard(now), Arrives("target"), Bound("target")
  PROVE  OnTime'
<1>1. /\ UNCHANGED <<phase, left, result, stage, timer, round, lost, foreign>>
      /\ flight["target"] # <<>> /\ flight'["initiator"] = flight["initiator"]
      /\ inbox'["initiator"] = inbox["initiator"]
      /\ inbox'["target"] = Append(inbox["target"], "request")
  BY Arriving, TheEnds DEF Here
<1>2. Clock(now)'
  BY <1>1, ClockStands DEF Here
<1>3. InitiatorStays /\ TargetStays
  BY <1>1 DEF InitiatorStays, TargetStays
<1>4. /\ Interrupted' = Interrupted /\ Hopes(now, Latency)' = Hopes(now, Latency)
      /\ Listening(now)' = Listening(now)
      /\ ListensUntil' = ListensUntil /\ Finish' = Finish
  BY <1>3, InitiatorAsBefore, TargetAsBefore, FixedHere DEF Here
<1>5. Listening(now) /\ now < ListensUntil
  BY UnheardInTime DEF Unheard, Bound, Running, Here
<1>6. inbox'["target"] # <<>> /\ Head(inbox'["target"]) = "request"
  <2>1. Append(<<>>, "request") # <<>> /\ Head(Append(<<>>, "request")) = "request"
    OBVIOUS
  <2> QED BY <1>1, <2>1 DEF Unheard
<1>7. PICK l \in Nat, w \in Nat, f \in Nat, t \in Int, g \in 0 .. 1, r \in Nat :
        l = Latency /\ w = Wait /\ f = Finish /\ t = Until /\ g = Spoils /\ r = Pause
  BY Numbers, Account DEF Here
<1>8. ASSUME Trying(now) PROVE Hopes(now, Latency) /\ now + Latency < Finish
  <2>1. /\ Sending(now) /\ Attempt \in 1 .. Rounds /\ t \in 0 .. w
        /\ Attempt \in 0 .. Rounds /\ Attempt - 1 \in 0 .. Rounds /\ Attempt - 1 + 1 = Attempt
    BY <1>7, <1>8 DEF Trying, Sending, Rounds
  <2>2. PICK s \in Nat, a \in Int, b \in Int :
          s = Sent(Attempt) /\ a = Ahead(Attempt) /\ b = Ahead(Attempt - 1)
    BY <2>1, Schedule, Account DEF Here
  <2>3. now + t <= s + w
    BY <1>7, <1>8, <2>2 DEF Trying, Sending
  <2>4. b >= 1 + g
    BY <1>7, <1>8, <2>1, <2>2, Account DEF Trying, Here
  <2>5. s + 2 * l < f
    BY <1>7, <2>1, <2>2, <2>4, Chance DEF Here
  <2>6. b = a + 1 \/ b = a
    BY <2>1, <2>2, Account DEF Here
  <2>7. CASE a >= 1 + g
    <3>1. Attempt + 1 \in 1 .. Rounds /\ Sent(Attempt + 1) + 2 * l < f /\ Sent(Attempt + 1) \in Nat
      BY <1>7, <2>1, <2>2, <2>7, Chance DEF Here
    <3>2. PICK n \in Nat : n = Sent(Attempt + 1)
      BY <3>1
    <3>3. Attempt \in 1 .. 4
      BY <2>1, <3>1 DEF Rounds
    <3>4. n = s + w + r
      BY <1>7, <2>2, <3>2, <3>3, Schedule DEF Here
    <3>5. n + 2 * l < f
      BY <3>1, <3>2
    <3>6. now + l < f
      BY <1>7, <2>1, <2>3, <3>4, <3>5
    <3>7. Ahead(Attempt) + (IF Latency <= Until - Wait + 2 * Latency THEN 1 ELSE 0) >= 1 + Spoils
      BY <1>7, <2>2, <2>7
    <3>8. Hopes(now, Latency)
      BY <2>1, <3>7 DEF Hopes
    <3> QED BY <1>7, <3>6, <3>8
  <2>8. CASE ~(a >= 1 + g)
    <3>1. ~(Upto(Attempt) <= Costs)
      BY <1>7, <2>1, <2>2, <2>8, Account DEF Here
    <3>2. PICK i \in DOMAIN flight["target"] : flight["target"][i] <= Until - Wait + Latency
      BY <1>8, <3>1 DEF Trying, Underway
    <3>3. PICK x \in Nat : x = flight["target"][i]
      BY <3>2, TheEnds, Numbers DEF Here, TimesType
    <3>4. x <= t - w + l
      BY <1>7, <3>2, <3>3
    <3>5. now + l < f /\ l <= t - w + 2 * l
      BY <1>7, <2>3, <2>5, <3>4
    <3>6. a + 1 >= 1 + g
      BY <1>7, <2>2, <2>4, <2>6
    <3>7. Ahead(Attempt) + (IF Latency <= Until - Wait + 2 * Latency THEN 1 ELSE 0) >= 1 + Spoils
      BY <1>7, <2>2, <3>5, <3>6
    <3>8. Hopes(now, Latency)
      BY <2>1, <3>7 DEF Hopes
    <3> QED BY <1>7, <3>5, <3>8
  <2> QED BY <2>7, <2>8
<1>9. ASSUME Pausing(now) PROVE Hopes(now, Latency) /\ now + Latency < Finish
  <2>1. Resting(now) /\ Attempt \in 0 .. Rounds /\ Upto(Attempt) <= Costs
    BY <1>9 DEF Pausing, Resting, Rounds
  <2>2. Ahead(Attempt) >= 1 + Spoils /\ Ahead(Attempt) \in Int
    BY <2>1, Account DEF Here
  <2>3. Ahead(Attempt) >= 1
    BY <1>7, <2>2
  <2>4. PICK n \in Nat : n = Sent(Attempt + 1) /\ n + 2 * l < f
    BY <1>7, <2>1, <2>3, Chance DEF Here
  <2>5. now + t <= n /\ t \in Nat
    BY <1>7, <2>1, <2>4 DEF Resting
  <2>6. now + l < f
    BY <1>7, <2>4, <2>5
  <2>7. Hopes(now, Latency)
    BY <2>1, <2>2 DEF Hopes
  <2> QED BY <1>7, <2>6, <2>7
<1>10. Heard(now)'
  <2>1. ~Starting
    BY <1>1 DEF Starting
  <2>2. Hopes(now, Latency) /\ now + Latency < Finish => Heard(now)'
    BY <1>1, <1>4, <1>5, <1>6 DEF Heard, Unheard
  <2> QED BY <1>8, <1>9, <2>1, <2>2 DEF Unheard, Waiting
<1> QED BY <1>2, <1>10, Timely

\* What the network loses and doubles.
LEMMA Losing ==
  ASSUME TimesType, NEW e \in Ends, NEW f \in Ends, f # e, Loses(e)
  PROVE  /\ UNCHANGED <<phase, left, result, stage, timer, round, foreign, inbox>>
         /\ flight[e] # <<>> /\ flight'[e] = Tail(flight[e]) /\ flight'[f] = flight[f]
         /\ lost'[e] = lost[e] + 1 /\ lost'[f] = lost[f]
<1>1. /\ UNCHANGED <<phase, left, result, stage, timer, round, foreign, inbox>>
      /\ flight[e] # <<>> /\ flight' = [flight EXCEPT ![e] = Tail(@)]
      /\ lost' = [lost EXCEPT ![e] = @ + 1]
  BY DEF Loses, timingVars, ends
<1> QED BY <1>1, Functions

LEMMA Doubling ==
  ASSUME TimesType, NEW e \in Ends, NEW f \in Ends, f # e, Doubles(e)
  PROVE  /\ UNCHANGED <<phase, left, result, stage, timer, round, lost, foreign, inbox>>
         /\ flight[e] # <<>> /\ flight'[f] = flight[f]
         /\ flight'[e] = Append(flight[e], Latency)
         /\ \A i \in DOMAIN flight[e] : i \in DOMAIN flight'[e] /\ flight'[e][i] = flight[e][i]
<1>1. /\ UNCHANGED <<phase, left, result, stage, timer, round, lost, foreign, inbox>>
      /\ flight[e] # <<>> /\ flight' = [flight EXCEPT ![e] = Append(@, Latency)]
  BY DEF Doubles, timingVars, ends
<1>2. flight[e] \in Seq(Int) /\ Latency \in Int
  BY Functions, Numbers
<1>3. \A i \in DOMAIN flight[e] :
        i \in DOMAIN Append(flight[e], Latency) /\ Append(flight[e], Latency)[i] = flight[e][i]
  BY <1>2
<1> QED BY <1>1, <1>3, Functions

\* Others send to the initiator only.
LEMMA Interrupting ==
  ASSUME Here, NEW e \in Ends, Foreign(e)
  PROVE  /\ e = "initiator" /\ e \in foreign /\ Bound(e) /\ foreign' = foreign \ {e}
         /\ inbox'["initiator"] = Append(inbox["initiator"], "foreign")
         /\ inbox'["target"] = inbox["target"]
         /\ UNCHANGED <<phase, left, result, stage, timer, round, lost, flight>>
<1>1. e = "initiator"
  BY TheEnds DEF Here, Undisturbed, TimesType, Foreign
<1>2. /\ e \in foreign /\ Bound(e) /\ foreign' = foreign \ {e}
      /\ Buffers(e, "foreign")
      /\ UNCHANGED <<phase, left, result, stage, timer, round, lost, flight>>
  BY <1>1 DEF Foreign, timingVars, ends
<1> QED BY <1>1, <1>2, Functions, TheEnds DEF Buffers, Here

\* A request is lost: one fewer can still be afforded.
LEMMA UnheardLoses ==
  ASSUME Here, NEW now \in Nat, Clock(now), Unheard(now), Loses("target")
  PROVE  OnTime'
<1>1. /\ UNCHANGED <<phase, left, result, stage, timer, round, foreign, inbox>>
      /\ flight["target"] # <<>> /\ flight'["initiator"] = flight["initiator"]
      /\ lost'["target"] = lost["target"] + 1
  BY Losing, TheEnds DEF Here
<1>2. Clock(now)'
  BY <1>1, ClockStands DEF Here
<1>3. InitiatorStays /\ TargetStays
  BY <1>1 DEF InitiatorStays, TargetStays
<1>4. /\ Attempt' = Attempt /\ Until' = Until /\ Spoils' = Spoils /\ Interrupted' = Interrupted
      /\ (\A p : Earliest(p)' = Earliest(p))
      /\ Sending(now)' = Sending(now) /\ Resting(now)' = Resting(now)
      /\ Listening(now)' = Listening(now)
  BY <1>3, InitiatorAsBefore, TargetAsBefore DEF Here
<1>5. /\ Upto(Attempt)' = Upto(Attempt) /\ Upto(Attempt - 1)' = Upto(Attempt - 1) /\ Wait' = Wait
      /\ Earliest(Attempt)' = Earliest(Attempt) /\ Earliest(Attempt + 1)' = Earliest(Attempt + 1)
  BY <1>4, FixedHere DEF Here
<1>6. Costs' = Costs + 1 /\ Costs \in Int
  <2>1. PICK l \in Nat, o \in Nat, g \in 0 .. 1 :
          l = lost["target"] /\ o = Cardinality(net.others) /\ g = Spoils
    BY Numbers, Account DEF Here
  <2>2. Costs = l + o - g /\ Costs' = l + 1 + o - g
    BY <1>1, <1>4, <2>1 DEF Costs, Here, Fixed
  <2> QED BY <2>1, <2>2
<1>7. ASSUME Trying(now) PROVE Trying(now)'
  <2>1. Attempt \in 1 .. Rounds /\ Attempt \in 0 .. Rounds /\ Attempt - 1 \in 0 .. Rounds
    BY <1>7 DEF Trying, Sending, Rounds
  <2>2. PICK u \in Nat, v \in Nat, c \in Int : u = Upto(Attempt - 1) /\ v = Upto(Attempt) /\ c = Costs
    BY <1>6, <2>1, Account DEF Here
  <2>3. u <= c /\ (v = u + 1 \/ v = u)
    BY <1>7, <2>1, <2>2, Account DEF Here, Trying
  <2>4. u <= c + 1 /\ v <= c + 1
    BY <2>2, <2>3
  <2>5. (Upto(Attempt - 1) <= Costs)' /\ (Upto(Attempt) <= Costs)'
    BY <1>5, <1>6, <2>2, <2>4
  <2> QED BY <1>4, <1>5, <1>7, <2>5 DEF Trying
<1>8. ASSUME Pausing(now) PROVE Pausing(now)'
  <2>1. Attempt \in 0 .. Rounds
    BY <1>8 DEF Pausing, Resting, Rounds
  <2>2. PICK v \in Nat, c \in Int : v = Upto(Attempt) /\ c = Costs
    BY <1>6, <2>1, Account DEF Here
  <2>3. v <= c + 1
    BY <1>8, <2>2 DEF Pausing
  <2>4. (Upto(Attempt) <= Costs)'
    BY <1>5, <1>6, <2>2, <2>3
  <2> QED BY <1>4, <1>5, <1>8, <2>4 DEF Pausing
<1>9. Unheard(now)'
  BY <1>1, <1>4, <1>7, <1>8 DEF Unheard, Waiting, Starting
<1> QED BY <1>2, <1>9, Timely

\* A second one of a request is no harm,
LEMMA UnheardDoubles ==
  ASSUME Here, NEW now \in Nat, Clock(now), Unheard(now), Doubles("target")
  PROVE  OnTime'
<1>1. /\ UNCHANGED <<phase, left, result, stage, timer, round, lost, foreign, inbox>>
      /\ flight["target"] # <<>> /\ flight'["initiator"] = flight["initiator"]
      /\ \A i \in DOMAIN flight["target"] :
           i \in DOMAIN flight'["target"] /\ flight'["target"][i] = flight["target"][i]
  BY Doubling, TheEnds DEF Here
<1>2. Clock(now)'
  BY <1>1, ClockStands DEF Here
<1>3. InitiatorStays /\ TargetStays
  BY <1>1 DEF InitiatorStays, TargetStays
<1>4. /\ Attempt' = Attempt /\ Until' = Until /\ Spoils' = Spoils /\ Interrupted' = Interrupted
      /\ (\A p : Earliest(p)' = Earliest(p))
      /\ Sending(now)' = Sending(now) /\ Resting(now)' = Resting(now)
      /\ Listening(now)' = Listening(now)
  BY <1>3, InitiatorAsBefore, TargetAsBefore DEF Here
<1>5. /\ Upto(Attempt)' = Upto(Attempt) /\ Upto(Attempt - 1)' = Upto(Attempt - 1) /\ Wait' = Wait
      /\ Earliest(Attempt)' = Earliest(Attempt) /\ Earliest(Attempt + 1)' = Earliest(Attempt + 1)
  BY <1>4, FixedHere DEF Here
<1>6. Costs' = Costs
  BY <1>1, <1>4 DEF Costs, Here, Fixed
<1>7. Underway(Until - Wait + Latency) => Underway(Until - Wait + Latency)'
  BY <1>1, <1>4, <1>5 DEF Underway
<1>8. Trying(now) => Trying(now)'
  BY <1>4, <1>5, <1>6, <1>7 DEF Trying
<1>9. Pausing(now) => Pausing(now)'
  BY <1>4, <1>5, <1>6 DEF Pausing
<1>10. Unheard(now)'
  BY <1>1, <1>4, <1>8, <1>9 DEF Unheard, Waiting, Starting
<1> QED BY <1>2, <1>10, Timely

\* ... nor yet a datagram of others, which was counted.
LEMMA StillPending ==
  ASSUME Here, Interrupted, inbox'["initiator"] = Append(inbox["initiator"], "foreign"),
         "initiator" \in foreign, foreign' = foreign \ {"initiator"}
  PROVE  /\ inbox["initiator"] = <<>> /\ inbox'["initiator"] = <<"foreign">>
         /\ Interrupted' /\ Pending' = Pending /\ Spoils' = Spoils
         /\ \A p : Earliest(p)' = Earliest(p)
<1>1. inbox["initiator"] = <<>>
  BY DEF Interrupted
<1>2. Append(<<>>, "foreign") = <<"foreign">>
  OBVIOUS
<1>3. inbox'["initiator"] = <<"foreign">>
  BY <1>1, <1>2
<1>4. Interrupted'
  BY <1>3 DEF Interrupted, Here, TimesType, Fixed
<1>5. Pending' /\ Pending
  BY <1>3 DEF Pending
<1>6. \A p : Earliest(p)' = Earliest(p)
  BY <1>5, FixedHere DEF Earliest, Here
<1>7. Spoils' = Spoils
  BY <1>5 DEF Spoils
<1>8. Pending' = Pending
  BY <1>5 DEF Pending
<1> QED BY <1>1, <1>3, <1>4, <1>6, <1>7, <1>8

LEMMA UnheardForeign ==
  ASSUME Here, NEW now \in Nat, Clock(now), Unheard(now), NEW e \in Ends, Foreign(e)
  PROVE  OnTime'
<1>1. /\ "initiator" \in foreign /\ Bound("initiator") /\ foreign' = foreign \ {"initiator"}
      /\ inbox'["initiator"] = Append(inbox["initiator"], "foreign")
      /\ inbox'["target"] = inbox["target"]
      /\ UNCHANGED <<phase, left, result, stage, timer, round, lost, flight>>
  BY Interrupting
<1>2. Clock(now)'
  BY <1>1, ClockStands DEF Here
<1>3. TargetStays
  BY <1>1 DEF TargetStays
<1>4. Interrupted' /\ Spoils' = Spoils /\ \A p : Earliest(p)' = Earliest(p)
  BY <1>1, StillPending DEF Unheard
<1>5. Attempt' = Attempt /\ Until' = Until /\ Listening(now)' = Listening(now)
  BY <1>1, <1>3, TargetAsBefore DEF Attempt, Until, Here
<1>6. /\ Upto(Attempt)' = Upto(Attempt) /\ Upto(Attempt - 1)' = Upto(Attempt - 1) /\ Wait' = Wait
      /\ Earliest(Attempt)' = Earliest(Attempt) /\ Earliest(Attempt + 1)' = Earliest(Attempt + 1)
      /\ Sent(Attempt)' = Sent(Attempt) /\ Sent(Attempt + 1)' = Sent(Attempt + 1)
  BY <1>4, <1>5, FixedHere DEF Here
<1>7. Costs' = Costs
  BY <1>1, <1>4 DEF Costs, Here, Fixed
<1>8. Sending(now)' = Sending(now) /\ Resting(now)' = Resting(now)
  BY <1>1, <1>5, <1>6 DEF Sending, Resting, Awaiting, Running
<1>9. Underway(Until - Wait + Latency)' = Underway(Until - Wait + Latency)
  BY <1>1, <1>5, <1>6 DEF Underway
<1>10. ~Starting
  BY <1>1 DEF Starting, Bound, Running
<1>11. Waiting(now)'
  BY <1>5, <1>6, <1>7, <1>8, <1>9, <1>10 DEF Unheard, Waiting, Trying, Pausing
<1>12. Unheard(now)'
  BY <1>1, <1>4, <1>5, <1>11 DEF Unheard
<1> QED BY <1>2, <1>12, Timely

\* What a tick does to what the ends await.
LEMMA Ticking ==
  ASSUME Here, NEW now \in Nat, Clock(now), Tick
  PROVE  /\ Clock(now + 1)'
         /\ UNCHANGED <<phase, result, lost, foreign, stage, round, inbox>>
         /\ Attempt' = Attempt /\ Pending' = Pending /\ Spoils' = Spoils /\ Costs' = Costs
         /\ Interrupted' = Interrupted /\ (\A p : Earliest(p)' = Earliest(p))
         /\ (\A p \in 0 .. 5 : Upto(p)' = Upto(p) /\ Ahead(p)' = Ahead(p))
         /\ Wait' = Wait /\ Finish' = Finish
         /\ phase["initiator"] = "running" => Until' = Until - 1 /\ Until > 0
         /\ Sending(now) => Sending(now + 1)' /\ inbox["initiator"] = <<>>
         /\ Resting(now) => Resting(now + 1)'
         /\ Listening(now) => Listening(now + 1)' /\ inbox["target"] = <<>>
<1>1. /\ Clock(now + 1)'
      /\ UNCHANGED <<phase, result, lost, foreign, stage, round, inbox>>
      /\ \A e \in Ends : phase[e] = "running" =>
           timer'[e] = timer[e] - 1 /\ timer[e] > 0 /\ (stage[e] = "recv" => inbox[e] = <<>>)
  BY ClockTicks DEF Here
<1>2. Attempt' = Attempt /\ Pending' = Pending /\ Spoils' = Spoils
  BY <1>1 DEF Attempt, Pending, Spoils
<1>3. Costs' = Costs /\ Interrupted' = Interrupted /\ \A p : Earliest(p)' = Earliest(p)
  BY <1>1, <1>2, FixedHere DEF Costs, Interrupted, Earliest, Here, Fixed
<1>4. /\ (\A p \in 0 .. 5 : Upto(p)' = Upto(p) /\ Ahead(p)' = Ahead(p))
      /\ Wait' = Wait /\ Finish' = Finish /\ Listens' = Listens
      /\ Sent(Attempt)' = Sent(Attempt) /\ Sent(Attempt + 1)' = Sent(Attempt + 1)
  BY <1>2, FixedHere DEF Here
<1>5. phase["initiator"] = "running" => Until' = Until - 1 /\ Until > 0
  BY <1>1, TheEnds DEF Until
<1>6. Until \in Int /\ Wait \in Nat /\ timer["target"] \in Int
  BY Numbers DEF Here
<1>7. ASSUME Sending(now) PROVE Sending(now + 1)' /\ inbox["initiator"] = <<>>
  <2>1. phase["initiator"] = "running" /\ stage["initiator"] = "recv" /\ Attempt \in 1 .. Rounds
        /\ Until \in 0 .. Wait /\ now + Until <= Sent(Attempt) + Wait
    BY <1>7 DEF Sending, Awaiting, Running
  <2>2. Until' = Until - 1 /\ Until > 0 /\ inbox["initiator"] = <<>>
    BY <1>1, <1>5, <2>1, TheEnds
  <2>3. Until' \in 0 .. Wait /\ (now + 1) + Until' = now + Until
    BY <1>6, <2>1, <2>2
  <2>4. Awaiting("initiator", "recv")'
    BY <1>1, <2>1 DEF Awaiting, Running
  <2> QED BY <1>2, <1>4, <2>1, <2>2, <2>3, <2>4 DEF Sending
<1>8. ASSUME Resting(now) PROVE Resting(now + 1)'
  <2>1. phase["initiator"] = "running" /\ stage["initiator"] = "sleep" /\ Attempt \in 1 .. Rounds - 1
        /\ Until \in Nat /\ now + Until <= Sent(Attempt + 1)
    BY <1>8 DEF Resting, Awaiting, Running
  <2>2. Until' = Until - 1 /\ Until > 0
    BY <1>5, <2>1
  <2>3. Until' \in Nat /\ (now + 1) + Until' = now + Until
    BY <1>6, <2>1, <2>2
  <2>4. Awaiting("initiator", "sleep")'
    BY <1>1, <2>1 DEF Awaiting, Running
  <2> QED BY <1>2, <1>4, <2>1, <2>2, <2>3, <2>4 DEF Resting
<1>9. ASSUME Listening(now) PROVE Listening(now + 1)' /\ inbox["target"] = <<>>
  <2>1. phase["target"] = "running" /\ stage["target"] = "recv" /\ round["target"] \in 1 .. Rounds
        /\ timer["target"] = Listens + round["target"] * Second - now /\ timer["target"] \in Nat
    BY <1>9 DEF Listening, Awaiting, Running
  <2>2. timer'["target"] = timer["target"] - 1 /\ timer["target"] > 0 /\ inbox["target"] = <<>>
    BY <1>1, <2>1, TheEnds
  <2>3. PICK k \in 1 .. 5, s \in Nat, o \in Nat, t \in Nat :
          k = round["target"] /\ s = Second /\ o = Listens /\ t = timer["target"]
    BY <2>1, Numbers DEF Here, Rounds
  <2>4. t = o + k * s - now /\ t > 0 /\ timer'["target"] = t - 1
    BY <2>1, <2>2, <2>3
  <2>5. t - 1 = o + k * s - (now + 1) /\ t - 1 \in Nat
    BY <2>3, <2>4
  <2>7. Listens' = o /\ round'["target"] = k
    BY <1>1, <1>4, <2>3
  <2>8. timer'["target"] = Listens' + round'["target"] * Second - (now + 1)
        /\ timer'["target"] \in Nat
    BY <2>3, <2>4, <2>5, <2>7
  <2>6. Awaiting("target", "recv")'
    BY <1>1, <2>1 DEF Awaiting, Running
  <2> QED BY <1>1, <2>1, <2>2, <2>6, <2>8 DEF Listening
<1> QED BY <1>1, <1>2, <1>3, <1>4, <1>5, <1>7, <1>8, <1>9

LEMMA UnheardTicks ==
  ASSUME Here, NEW now \in Nat, Clock(now), Unheard(now), Tick
  PROVE  OnTime'
<1>1. /\ Clock(now + 1)'
      /\ UNCHANGED <<phase, result, lost, foreign, stage, round, inbox>>
      /\ Attempt' = Attempt /\ Pending' = Pending /\ Spoils' = Spoils /\ Costs' = Costs
      /\ Interrupted' = Interrupted /\ (\A p : Earliest(p)' = Earliest(p))
      /\ (\A p \in 0 .. 5 : Upto(p)' = Upto(p))
      /\ Wait' = Wait
      /\ phase["initiator"] = "running" => Until' = Until - 1 /\ Until > 0
      /\ Sending(now) => Sending(now + 1)'
      /\ Resting(now) => Resting(now + 1)'
      /\ Listening(now) => Listening(now + 1)'
  BY Ticking
<1>2. /\ \A e \in Ends : flight[e] = <<>> => flight'[e] = <<>>
      /\ \A i \in DOMAIN flight["target"] :
           i \in DOMAIN flight'["target"] /\ flight'["target"][i] = flight["target"][i] - 1
  BY FlightTicks, TheEnds DEF Here
<1>3. Until \in Int /\ Wait \in Nat /\ Latency \in Nat
  BY Numbers DEF Here
<1>4. ASSUME Trying(now) PROVE Trying(now + 1)'
  <2>1. Sending(now) /\ phase["initiator"] = "running" /\ Attempt \in 0 .. 5 /\ Attempt - 1 \in 0 .. 5
        /\ Attempt \in 1 .. Rounds
    BY <1>4 DEF Trying, Sending, Awaiting, Running, Rounds
  <2>2. Until' = Until - 1
    BY <1>1, <2>1
  <2>3. (now + 1) + Until' - Wait' >= Earliest(Attempt)'
    <3>1. now + Until - Wait >= Earliest(Attempt)
      BY <1>4 DEF Trying
    <3>2. (now + 1) + Until' - Wait' = now + Until - Wait
      BY <1>1, <1>3, <2>2
    <3>3. Earliest(Attempt)' = Earliest(Attempt)
      BY <1>1
    <3> QED BY <3>1, <3>2, <3>3
  <2>4. Upto(Attempt)' = Upto(Attempt) /\ Upto(Attempt - 1)' = Upto(Attempt - 1)
    BY <1>1, <2>1
  <2>5. Underway(Until - Wait + Latency) => Underway(Until - Wait + Latency)'
    <3> SUFFICES ASSUME NEW i \in DOMAIN flight["target"],
                        flight["target"][i] <= Until - Wait + Latency
                 PROVE  Underway(Until - Wait + Latency)'
      BY DEF Underway
    <3>1. PICK x \in Nat : x = flight["target"][i]
      BY TheEnds, Numbers DEF Here, TimesType
    <3>2. i \in DOMAIN flight'["target"] /\ flight'["target"][i] = x - 1
      BY <1>2, <3>1
    <3>3. x - 1 <= Until' - Wait' + Latency
      BY <1>1, <1>3, <2>2, <3>1
    <3> QED BY <3>2, <3>3 DEF Underway
  <2> QED BY <1>1, <1>4, <2>1, <2>3, <2>4, <2>5 DEF Trying
<1>5. ASSUME Pausing(now) PROVE Pausing(now + 1)'
  <2>1. Resting(now) /\ phase["initiator"] = "running" /\ Attempt \in 0 .. 5 /\ Attempt \in 1 .. 4
    BY <1>5 DEF Pausing, Resting, Awaiting, Running, Rounds
  <2>2. Until' = Until - 1
    BY <1>1, <2>1
  <2>3. (now + 1) + Until' >= Earliest(Attempt + 1)'
    <3>1. now + Until >= Earliest(Attempt + 1)
      BY <1>5 DEF Pausing
    <3>2. (now + 1) + Until' = now + Until
      BY <1>3, <2>2
    <3>3. Earliest(Attempt + 1)' = Earliest(Attempt + 1)
      BY <1>1
    <3> QED BY <3>1, <3>2, <3>3
  <2>4. Upto(Attempt)' = Upto(Attempt)
    BY <1>1, <2>1
  <2> QED BY <1>1, <1>5, <2>1, <2>3, <2>4 DEF Pausing
<1>6. Starting => Starting'
  BY <1>1, <1>2, TheEnds DEF Starting
<1>7. Unheard(now + 1)'
  BY <1>1, <1>2, <1>4, <1>5, <1>6, TheEnds DEF Unheard, Waiting
<1> QED BY <1>1, <1>7, Timely

-----------------------------------------------------------------------------
(* Once the target has heard of the initiator: the initiator goes on with its *)
(* attempts, and has time for the reply in each of them.                      *)

\* What is left of the initiator's steps to a state of the target's.
InitiatorsStep ==
  /\ UNCHANGED <<phase, left, result>> /\ TargetStays
  /\ flight'["initiator"] = flight["initiator"] /\ inbox'["target"] = inbox["target"]

LEMMA HopesSend ==
  ASSUME Here, NEW now \in Nat, NEW ticks \in 0 .. Latency, Hopes(now, ticks), SendsAgain
  PROVE  /\ Hopes(now, ticks)' /\ InitiatorsStep
         /\ inbox'["initiator"] = inbox["initiator"] /\ Interrupted' = Interrupted
         /\ Resting(now) /\ Sending(now)' /\ Attempt' = Attempt + 1 /\ Spoils' = Spoils
<1>1. /\ Awaiting("initiator", "sleep") /\ Until = 0
      /\ SendsRequest(Attempt + 1) /\ UNCHANGED <<phase, left, result>>
  BY SendsAgainSends
<1>2. Resting(now) /\ Ahead(Attempt) >= 1 + Spoils
  BY <1>1 DEF Hopes, Sending, Awaiting, Running
<1>3. /\ Attempt \in 1 .. 4 /\ now <= Sent(Attempt + 1) /\ Attempt + 1 \in 1 .. Rounds
      /\ Attempt \in 0 .. Rounds /\ Attempt + 1 \in 0 .. Rounds /\ Attempt + 1 - 1 = Attempt
  BY <1>1, <1>2 DEF Resting, Rounds
<1>4. /\ stage'["initiator"] = "recv" /\ Until' = Wait /\ Attempt' = Attempt + 1
      /\ TargetStays /\ flight'["initiator"] = flight["initiator"] /\ UNCHANGED inbox
      /\ Spoils' = Spoils /\ Interrupted' = Interrupted
  BY <1>1, <1>3, RequestSent DEF TargetStays
<1>5. Sending(now)'
  BY <1>1, <1>3, Follows DEF Awaiting, Running
<1>6. PICK a \in Int, b \in Int, g \in 0 .. 1 : a = Ahead(Attempt) /\ b = Ahead(Attempt + 1) /\ g = Spoils
  BY <1>3, Account DEF Here
<1>7. a >= 1 + g /\ (a = b + 1 \/ a = b)
  BY <1>2, <1>3, <1>6, Account DEF Here
<1>8. Ahead(Attempt)' = b
  BY <1>4, <1>6, FixedHere DEF Here
<1>9. ticks <= Until' - Wait' + 2 * Latency
  <2>1. Wait' = Wait /\ Wait \in Nat /\ Latency \in Nat
    BY FixedHere, Numbers DEF Here
  <2> QED BY <1>4, <2>1
<1>10. b + 1 >= 1 + g
  BY <1>6, <1>7
<1>11. (Ahead(Attempt) + (IF ticks <= Until - Wait + 2 * Latency THEN 1 ELSE 0) >= 1 + Spoils)'
  BY <1>4, <1>6, <1>8, <1>9, <1>10
<1> QED BY <1>1, <1>2, <1>4, <1>5, <1>11 DEF Hopes, InitiatorsStep

LEMMA HopesNoReply ==
  ASSUME Here, NEW now \in Nat, NEW ticks \in 0 .. Latency, Hopes(now, ticks), NoReply
  PROVE  Hopes(now, ticks)' /\ InitiatorsStep /\ inbox["initiator"] = <<>> /\ Interrupted'
<1>1. /\ Awaiting("initiator", "recv") /\ Until = 0 /\ inbox["initiator"] = <<>>
      /\ AttemptFails(Attempt, "timeout", <<>>) /\ UNCHANGED <<network, flight>>
  BY DEF NoReply, Expired, Attempt, Until
<1>2. /\ Sending(now)
      /\ Ahead(Attempt) + (IF ticks <= Until - Wait + 2 * Latency THEN 1 ELSE 0) >= 1 + Spoils
  BY <1>1 DEF Hopes, Resting, Awaiting, Running
<1>3. Attempt \in 1 .. Rounds /\ Attempt \in 0 .. Rounds
  BY <1>2 DEF Sending, Rounds
<1>4. PICK a \in Int, g \in 0 .. 1 : a = Ahead(Attempt) /\ g = Spoils
  BY <1>3, Account DEF Here
<1>5. ~(ticks <= Until - Wait + 2 * Latency)
  <2>1. Wait \in Nat /\ Latency \in Nat /\ 2 * Latency < Wait
    BY Numbers DEF Here, Undisturbed
  <2> QED BY <1>1, <2>1
<1>6. a >= 1 + g
  BY <1>2, <1>4, <1>5
<1>7. Attempt < Rounds
  <2>1. Ahead(Attempt) >= 1
    BY <1>4, <1>6
  <2>2. Attempt + 1 \in 1 .. Rounds
    BY <1>3, <2>1, Chance DEF Here
  <2> QED BY <1>3, <2>2 DEF Rounds
<1>8. /\ UNCHANGED <<phase, left, result>>
      /\ stage'["initiator"] = "sleep" /\ Until' = Pause /\ Attempt' = Attempt
      /\ TargetStays
      /\ inbox'["initiator"] = <<>> /\ inbox'["target"] = inbox["target"]
  BY <1>1, <1>7, AttemptOver
<1>9. Resting(now)'
  BY <1>2, <1>7, <1>8, Pauses
<1>10. Spoils' = Spoils
  BY <1>1, <1>8 DEF Spoils, Pending, network
<1>11. Ahead(Attempt)' = Ahead(Attempt)
  BY <1>8, FixedHere DEF Here
<1>12. (Ahead(Attempt) >= 1 + Spoils)'
  BY <1>4, <1>6, <1>10, <1>11
<1> QED BY <1>1, <1>8, <1>9, <1>12 DEF Hopes, InitiatorsStep, Interrupted

LEMMA HopesSpoiled ==
  ASSUME Here, NEW now \in Nat, NEW ticks \in 0 .. Latency, Hopes(now, ticks), Interrupted,
         InitiatorReceives \/ InitiatorReceivesAnswer
  PROVE  Hopes(now, ticks)' /\ InitiatorsStep /\ Interrupted'
<1>1. inbox["initiator"] # <<>>
  BY DEF InitiatorReceives, InitiatorReceivesAnswer
<1>2. Head(inbox["initiator"]) = "foreign"
  <2>1. Head(<<"foreign">>) = "foreign"
    OBVIOUS
  <2> QED BY <1>1, <2>1 DEF Interrupted
<1>3. /\ Awaiting("initiator", "recv")
      /\ AttemptFails(Attempt, "unexpected", Tail(inbox["initiator"]))
      /\ UNCHANGED <<network, flight>>
  BY <1>2, TakesForeign
<1>4. UNCHANGED <<foreign, lost>>
  BY <1>3 DEF network
<1>5. /\ Sending(now)
      /\ Ahead(Attempt) + (IF ticks <= Until - Wait + 2 * Latency THEN 1 ELSE 0) >= 1 + Spoils
  BY <1>3 DEF Hopes, Resting, Awaiting, Running
<1>6. Attempt \in 1 .. Rounds /\ Attempt \in 0 .. Rounds
  BY <1>5 DEF Sending, Rounds
<1>7. Spoils = 1
  <2>1. inbox["initiator"] = <<"foreign">>
    BY <1>1 DEF Interrupted
  <2> QED BY <2>1 DEF Pending, Spoils
<1>8. PICK a \in Int : a = Ahead(Attempt)
  BY <1>6, Account DEF Here
<1>9. a >= 1
  BY <1>5, <1>7, <1>8
<1>10. Attempt < Rounds
  <2>1. Attempt + 1 \in 1 .. Rounds
    BY <1>6, <1>8, <1>9, Chance DEF Here
  <2> QED BY <1>6, <2>1 DEF Rounds
<1>11. /\ UNCHANGED <<phase, left, result>>
       /\ stage'["initiator"] = "sleep" /\ Until' = Pause /\ Attempt' = Attempt
       /\ TargetStays
       /\ inbox'["initiator"] = Tail(inbox["initiator"]) /\ inbox'["target"] = inbox["target"]
  BY <1>3, <1>10, AttemptOver
<1>12. Spoils' = 0 /\ Interrupted'
  BY <1>1, <1>4, <1>11, Spoiled
<1>13. Resting(now)'
  BY <1>5, <1>10, <1>11, Pauses
<1>14. Ahead(Attempt)' = Ahead(Attempt)
  BY <1>11, FixedHere DEF Here
<1>15. (Ahead(Attempt) >= 1 + Spoils)'
  BY <1>8, <1>9, <1>12, <1>14
<1> QED BY <1>3, <1>11, <1>12, <1>13, <1>15 DEF Hopes, InitiatorsStep

LEMMA HopesGoOn ==
  ASSUME Here, NEW now \in Nat, NEW ticks \in 0 .. Latency, Hopes(now, ticks), Interrupted,
         SendsAgain \/ NoReply \/ InitiatorReceives \/ InitiatorReceivesAnswer
  PROVE  Hopes(now, ticks)' /\ InitiatorsStep /\ Interrupted'
BY HopesSend, HopesNoReply, HopesSpoiled

\* A datagram of others is taken care of.
LEMMA HopesInterrupted ==
  ASSUME Here, NEW now \in Nat, Interrupted, NEW e \in Ends, Foreign(e)
  PROVE  /\ UNCHANGED <<phase, left, result, flight>> /\ TargetStays
         /\ inbox'["target"] = inbox["target"] /\ Interrupted'
         /\ \A ticks : Hopes(now, ticks)' = Hopes(now, ticks)
<1>1. /\ "initiator" \in foreign /\ Bound("initiator") /\ foreign' = foreign \ {"initiator"}
      /\ inbox'["initiator"] = Append(inbox["initiator"], "foreign")
      /\ inbox'["target"] = inbox["target"]
      /\ UNCHANGED <<phase, left, result, stage, timer, round, lost, flight>>
  BY Interrupting
<1>2. TargetStays
  BY <1>1 DEF TargetStays
<1>3. Interrupted' /\ Spoils' = Spoils
  BY <1>1, StillPending
<1>4. Attempt' = Attempt /\ Until' = Until
  BY <1>1 DEF Attempt, Until
<1>5. /\ Ahead(Attempt)' = Ahead(Attempt) /\ Wait' = Wait
      /\ Sent(Attempt)' = Sent(Attempt) /\ Sent(Attempt + 1)' = Sent(Attempt + 1)
  BY <1>4, FixedHere DEF Here
<1>6. Sending(now)' = Sending(now) /\ Resting(now)' = Resting(now)
  BY <1>1, <1>4, <1>5 DEF Sending, Resting, Awaiting, Running
<1>7. \A ticks : Hopes(now, ticks)' = Hopes(now, ticks)
  BY <1>3, <1>4, <1>5, <1>6 DEF Hopes
<1> QED BY <1>1, <1>2, <1>3, <1>7

LEMMA HeardGoesOn ==
  ASSUME Here, NEW now \in Nat, Clock(now), Heard(now),
         SendsAgain \/ NoReply \/ InitiatorReceives \/ InitiatorReceivesAnswer
  PROVE  OnTime'
<1>1. Latency \in Nat /\ Latency \in 0 .. Latency
  BY Numbers DEF Here
<1>2. Hopes(now, Latency) /\ Interrupted
  BY DEF Heard
<1>3. Hopes(now, Latency)' /\ InitiatorsStep /\ Interrupted'
  BY <1>1, <1>2, HopesGoOn
<1>4. Clock(now)'
  BY <1>3, ClockStands DEF Here, InitiatorsStep
<1>5. Listening(now)' = Listening(now) /\ ListensUntil' = ListensUntil /\ Finish' = Finish
  BY <1>3, TargetAsBefore, FixedHere DEF Here, InitiatorsStep
<1>6. Heard(now)'
  BY <1>3, <1>5 DEF Heard, InitiatorsStep
<1> QED BY <1>4, <1>6, Timely

\* The target takes the first datagram only.
LEMMA HeardStands ==
  ASSUME Here, NEW now \in Nat, Clock(now), Heard(now),
         Arrives("target") \/ Loses("target") \/ Doubles("target")
  PROVE  OnTime'
<1>1. /\ UNCHANGED <<phase, left, result, stage, timer, round, foreign>>
      /\ flight'["initiator"] = flight["initiator"]
      /\ inbox'["initiator"] = inbox["initiator"]
  BY Arriving, Losing, Doubling, TheEnds DEF Here
<1>2. inbox'["target"] # <<>> /\ Head(inbox'["target"]) = "request"
  <2>1. inbox["target"] \in Seq(Datagrams) /\ inbox["target"] # <<>>
        /\ Head(inbox["target"]) = "request"
    BY Functions DEF Here, Heard
  <2>2. inbox'["target"] = inbox["target"] \/ inbox'["target"] = Append(inbox["target"], "request")
    BY Arriving, Losing, Doubling, TheEnds DEF Here
  <2>3. /\ Append(inbox["target"], "request") # <<>>
        /\ Head(Append(inbox["target"], "request")) = Head(inbox["target"])
    BY <2>1
  <2> QED BY <2>1, <2>2, <2>3
<1>3. Clock(now)'
  BY <1>1, ClockStands DEF Here
<1>4. InitiatorStays /\ TargetStays
  BY <1>1 DEF InitiatorStays, TargetStays
<1>5. Hopes(now, Latency)' = Hopes(now, Latency) /\ Interrupted' = Interrupted
  BY <1>4, InitiatorAsBefore DEF Here
<1>6. Listening(now)' = Listening(now) /\ ListensUntil' = ListensUntil /\ Finish' = Finish
  BY <1>4, TargetAsBefore, FixedHere DEF Here
<1>7. Heard(now)'
  BY <1>1, <1>2, <1>5, <1>6 DEF Heard
<1> QED BY <1>3, <1>7, Timely

LEMMA HeardForeign ==
  ASSUME Here, NEW now \in Nat, Clock(now), Heard(now), NEW e \in Ends, Foreign(e)
  PROVE  OnTime'
<1>1. /\ UNCHANGED <<phase, left, result, flight>> /\ TargetStays
      /\ inbox'["target"] = inbox["target"] /\ Interrupted'
      /\ \A ticks : Hopes(now, ticks)' = Hopes(now, ticks)
  BY HopesInterrupted DEF Heard
<1>2. Hopes(now, Latency)' = Hopes(now, Latency)
  BY <1>1
<1>3. Clock(now)'
  BY <1>1, ClockStands DEF Here
<1>4. Listening(now)' = Listening(now) /\ ListensUntil' = ListensUntil /\ Finish' = Finish
  BY <1>1, TargetAsBefore, FixedHere DEF Here
<1>5. Heard(now)'
  BY <1>1, <1>2, <1>4 DEF Heard
<1> QED BY <1>3, <1>5, Timely

\* A query and an answer that nothing altered are valid.
LEMMA AsSent ==
  ASSUME net.altered = {}
  PROVE  Parses(QueryRead(Query, net.altered, net.part)) /\ ValidAnswer("reply")
         /\ FromTarget("reply")
<1>1. /\ QueryRead(Query, net.altered, net.part) = Query
      /\ ResponseRead(Query, net.altered, net.part) = build_dns_response(Query)
  BY DEF QueryRead, ResponseRead
<1>2. PICK names : names = <<"bimap.test">>
  OBVIOUS
<1>3. names # <<>>
  BY <1>2
<1>4. Query = [id |-> 0, kind |-> "query", queries |-> names, answers |-> <<>>]
  BY <1>2 DEF Query, build_dns_query
<1>5. PICK answers : answers = <<"A">>
  OBVIOUS
<1>6. build_dns_response(Query) =
        [id |-> 0, kind |-> "response", queries |-> names, answers |-> answers]
  BY <1>4, <1>5 DEF build_dns_response
<1>7. validate_dns_response(Query, build_dns_response(Query))
  BY <1>3, <1>4, <1>6 DEF validate_dns_response, Parses
<1> QED BY <1>1, <1>4, <1>7 DEF ValidAnswer, FromTarget, Parses

\* The target answers.
LEMMA HeardAnswers ==
  ASSUME Here, NEW now \in Nat, Clock(now), Heard(now), TargetReceives \/ TargetReceivesQuery
  PROVE  OnTime'
<1>1. net.altered = {} /\ net.blocked = {} /\ Head(inbox["target"]) = "request"
  BY DEF Here, Undisturbed, Heard
<1>2. Returns("target", Pass) /\ UNCHANGED network /\ RepliesTo("request", result'["target"] = Pass)
  <2>1. CASE TargetReceives
    BY <1>1, <2>1 DEF TargetReceives
  <2>2. CASE TargetReceivesQuery
    BY <1>1, <2>2, AsSent DEF TargetReceivesQuery
  <2> QED BY <2>1, <2>2
<1>3. Finishes("target", Pass) /\ Closes("target")
  BY <1>2 DEF Returns
<1>4. /\ Clock(now)' /\ phase'["target"] = "over" /\ result'["target"] = Pass
      /\ phase'["initiator"] = phase["initiator"]
  BY <1>3, ClockFinishes, TheEnds DEF Here
<1>5. InitiatorStays
  BY <1>2, <1>3, <1>4, Functions, TheEnds DEF Closes, Awaits, network, InitiatorStays, Here
<1>6. flight'["initiator"] = <<Latency>>
  <2>1. Datagram("initiator") = <<Latency>>
    BY <1>1 DEF Datagram
  <2>2. flight' = [flight EXCEPT !["initiator"] = @ \o Datagram("initiator")]
    BY <1>2, <1>4 DEF RepliesTo
  <2>3. flight'["initiator"] = flight["initiator"] \o <<Latency>>
    BY <2>1, <2>2, Functions, TheEnds DEF Here
  <2>4. <<>> \o <<Latency>> = <<Latency>>
    OBVIOUS
  <2> QED BY <2>3, <2>4 DEF Heard
<1>7. /\ Hopes(now, Latency)' = Hopes(now, Latency) /\ Interrupted' = Interrupted /\ Finish' = Finish
  BY <1>5, InitiatorAsBefore, FixedHere DEF Here
<1>8. 1 \in DOMAIN flight'["initiator"] /\ flight'["initiator"][1] = Latency
  <2>1. 1 \in DOMAIN <<Latency>> /\ <<Latency>>[1] = Latency
    OBVIOUS
  <2> QED BY <1>6, <2>1
<1>9. Answering(now)'
  BY <1>4, <1>7, <1>8 DEF Answering, Heard
<1> QED BY <1>4, <1>9, Timely

-----------------------------------------------------------------------------
(* Once the target has answered. *)

LEMMA AnsweringGoesOn ==
  ASSUME Here, NEW now \in Nat, Clock(now), Answering(now),
         SendsAgain \/ NoReply \/ InitiatorReceives \/ InitiatorReceivesAnswer
  PROVE  OnTime'
<1>1. PICK i \in DOMAIN flight["initiator"] :
        Hopes(now, flight["initiator"][i]) /\ now + flight["initiator"][i] < Finish
  BY DEF Answering
<1>2. PICK x \in 0 .. Latency : x = flight["initiator"][i]
  BY <1>1, TheEnds DEF Here, TimesType
<1>3. Hopes(now, x)' /\ InitiatorsStep /\ Interrupted'
  BY <1>1, <1>2, HopesGoOn DEF Answering
<1>4. Clock(now)'
  BY <1>3, ClockStands DEF Here, InitiatorsStep
<1>5. Finish' = Finish
  BY FixedHere DEF Here
<1>6. i \in DOMAIN flight'["initiator"] /\ flight'["initiator"][i] = x
  BY <1>1, <1>2, <1>3 DEF InitiatorsStep
<1>7. phase'["target"] = "over" /\ result'["target"] = Pass
  BY <1>3 DEF Answering, InitiatorsStep, TargetStays
<1>8. now + x < Finish
  BY <1>1, <1>2
<1>9. Answering(now)'
  BY <1>3, <1>5, <1>6, <1>7, <1>8 DEF Answering
<1> QED BY <1>4, <1>9, Timely

\* What happens to requests, or adds to the replies, is no harm.
LEMMA AnsweringStands ==
  ASSUME Here, NEW now \in Nat, Clock(now), Answering(now),
         Arrives("target") \/ Loses("target") \/ (\E e \in Ends : Doubles(e))
  PROVE  OnTime'
<1>1. /\ UNCHANGED <<phase, left, result, stage, timer, round, foreign>>
      /\ inbox'["initiator"] = inbox["initiator"]
      /\ \A i \in DOMAIN flight["initiator"] :
           i \in DOMAIN flight'["initiator"] /\ flight'["initiator"][i] = flight["initiator"][i]
  <2>1. CASE Arrives("target") \/ Loses("target")
    BY <2>1, Arriving, Losing, TheEnds DEF Here
  <2>2. CASE Doubles("target")
    BY <2>2, Doubling, TheEnds DEF Here
  <2>3. CASE Doubles("initiator")
    BY <2>3, Doubling, TheEnds DEF Here
  <2> QED BY <2>1, <2>2, <2>3, TheEnds
<1>2. Clock(now)'
  BY <1>1, ClockStands DEF Here
<1>3. InitiatorStays
  BY <1>1 DEF InitiatorStays
<1>4. /\ Interrupted' = Interrupted /\ Finish' = Finish
      /\ \A ticks : Hopes(now, ticks)' = Hopes(now, ticks)
  BY <1>3, InitiatorAsBefore, FixedHere DEF Here
<1>5. PICK i \in DOMAIN flight["initiator"] :
        Hopes(now, flight["initiator"][i]) /\ now + flight["initiator"][i] < Finish
  BY DEF Answering
<1>6. PICK x : x = flight["initiator"][i]
  OBVIOUS
<1>7. /\ i \in DOMAIN flight'["initiator"] /\ flight'["initiator"][i] = x
      /\ Hopes(now, x)' /\ now + x < Finish
  BY <1>1, <1>4, <1>5, <1>6
<1>8. Answering(now)'
  BY <1>1, <1>4, <1>7 DEF Answering
<1> QED BY <1>2, <1>8, Timely

LEMMA AnsweringForeign ==
  ASSUME Here, NEW now \in Nat, Clock(now), Answering(now), NEW e \in Ends, Foreign(e)
  PROVE  OnTime'
<1>1. /\ UNCHANGED <<phase, left, result, flight>>
      /\ inbox'["target"] = inbox["target"] /\ Interrupted'
      /\ \A ticks : Hopes(now, ticks)' = Hopes(now, ticks)
  BY HopesInterrupted DEF Answering
<1>2. Clock(now)'
  BY <1>1, ClockStands DEF Here
<1>3. Finish' = Finish
  BY FixedHere DEF Here
<1>4. PICK i \in DOMAIN flight["initiator"] :
        Hopes(now, flight["initiator"][i]) /\ now + flight["initiator"][i] < Finish
  BY DEF Answering
<1>5. PICK x : x = flight["initiator"][i]
  OBVIOUS
<1>6. /\ i \in DOMAIN flight'["initiator"] /\ flight'["initiator"][i] = x
      /\ Hopes(now, x)' /\ now + x < Finish
  BY <1>1, <1>4, <1>5
<1>7. Answering(now)'
  BY <1>1, <1>3, <1>6 DEF Answering
<1> QED BY <1>2, <1>7, Timely

LEMMA AnsweringTicks ==
  ASSUME Here, NEW now \in Nat, Clock(now), Answering(now), Tick
  PROVE  OnTime'
<1>1. /\ Clock(now + 1)'
      /\ UNCHANGED <<phase, result>>
      /\ Attempt' = Attempt /\ Spoils' = Spoils /\ Interrupted' = Interrupted
      /\ (\A p \in 0 .. 5 : Ahead(p)' = Ahead(p))
      /\ Wait' = Wait /\ Finish' = Finish
      /\ phase["initiator"] = "running" => Until' = Until - 1
      /\ Sending(now) => Sending(now + 1)'
      /\ Resting(now) => Resting(now + 1)'
  BY Ticking
<1>2. PICK i \in DOMAIN flight["initiator"] :
        Hopes(now, flight["initiator"][i]) /\ now + flight["initiator"][i] < Finish
  BY DEF Answering
<1>3. PICK x \in Nat : x = flight["initiator"][i]
  BY <1>2, TheEnds, Numbers DEF Here, TimesType
<1>4. i \in DOMAIN flight'["initiator"] /\ flight'["initiator"][i] = x - 1 /\ x > 0
  BY <1>2, <1>3, FlightTicks, TheEnds DEF Here
<1>5. Hopes(now, x) /\ now + x < Finish
  BY <1>2, <1>3
<1>6. Hopes(now + 1, x - 1)'
  <2>1. Attempt \in 0 .. 5 /\ phase["initiator"] = "running"
    BY <1>5 DEF Hopes, Sending, Resting, Awaiting, Running, Rounds
  <2>2. Ahead(Attempt)' = Ahead(Attempt) /\ Until' = Until - 1
    BY <1>1, <2>1
  <2>3. CASE /\ Sending(now)
             /\ Ahead(Attempt) + (IF x <= Until - Wait + 2 * Latency THEN 1 ELSE 0) >= 1 + Spoils
    <3>1. Until \in Int /\ Wait \in Nat /\ Latency \in Nat
      BY Numbers DEF Here
    <3>2. (x - 1 <= Until' - Wait' + 2 * Latency) <=> (x <= Until - Wait + 2 * Latency)
      BY <1>1, <2>2, <3>1
    <3>3. Ahead(Attempt)' + (IF x - 1 <= Until' - Wait' + 2 * Latency THEN 1 ELSE 0) >= 1 + Spoils'
      BY <1>1, <2>2, <2>3, <3>2
    <3> QED BY <1>1, <2>3, <3>3 DEF Hopes
  <2>4. CASE Resting(now) /\ Ahead(Attempt) >= 1 + Spoils
    BY <1>1, <2>2, <2>4 DEF Hopes
  <2> QED BY <1>5, <2>3, <2>4 DEF Hopes
<1>7. (now + 1) + (x - 1) < Finish'
  <2>1. Finish \in Nat
    BY Numbers DEF Here
  <2> QED BY <1>1, <1>3, <1>5, <2>1
<1>8. Answering(now + 1)'
  BY <1>1, <1>4, <1>6, <1>7 DEF Answering
<1>9. now + 1 \in Nat
  OBVIOUS
<1> QED BY <1>1, <1>8, <1>9, Timely

\* A reply is there.
LEMMA AnsweringArrives ==
  ASSUME Here, NEW now \in Nat, Clock(now), Answering(now), Arrives("initiator")
  PROVE  OnTime'
<1>1. PICK i \in DOMAIN flight["initiator"] :
        Hopes(now, flight["initiator"][i]) /\ now + flight["initiator"][i] < Finish
  BY DEF Answering
<1>2. PICK x \in Nat : x = flight["initiator"][i]
  BY <1>1, TheEnds, Numbers DEF Here, TimesType
<1>3. Hopes(now, x) /\ now + x < Finish
  BY <1>1, <1>2
<1>4. Bound("initiator")
  BY <1>3 DEF Hopes, Sending, Resting, Awaiting, Bound
<1>5. /\ UNCHANGED <<phase, left, result, stage, timer, round, lost, foreign>>
      /\ inbox'["initiator"] = Append(inbox["initiator"], "reply")
  BY <1>4, Arriving, TheEnds DEF Here
<1>6. Clock(now)'
  BY <1>5, ClockStands DEF Here
<1>7. Attempt' = Attempt /\ Until' = Until
  BY <1>5 DEF Attempt, Until
<1>8. /\ Ahead(Attempt)' = Ahead(Attempt) /\ Wait' = Wait /\ Finish' = Finish
      /\ Sent(Attempt)' = Sent(Attempt) /\ Sent(Attempt + 1)' = Sent(Attempt + 1)
  BY <1>7, FixedHere DEF Here
<1>9. Sending(now)' = Sending(now) /\ Resting(now)' = Resting(now)
  BY <1>5, <1>7, <1>8 DEF Sending, Resting, Awaiting, Running
<1>10. PICK a \in Int, g \in 0 .. 1 : a = Ahead(Attempt) /\ g = Spoils
  <2>1. Attempt \in 0 .. Rounds
    BY <1>3 DEF Hopes, Sending, Resting, Rounds
  <2> QED BY <2>1, Account DEF Here
<1>11. now < Finish
  <2>1. Finish \in Nat
    BY Numbers DEF Here
  <2> QED BY <1>2, <1>3, <2>1
<1>12. CASE inbox["initiator"] = <<>>
  <2>1. Append(<<>>, "reply") # <<>> /\ Head(Append(<<>>, "reply")) = "reply"
    OBVIOUS
  <2>2. inbox'["initiator"] # <<>> /\ Head(inbox'["initiator"]) = "reply"
    BY <1>5, <1>12, <2>1
  <2>3. Sending(now) \/ (Resting(now) /\ a >= 1)
    BY <1>3, <1>10 DEF Hopes
  <2>4. Delivered(now)'
    BY <1>5, <1>8, <1>9, <1>10, <1>11, <2>2, <2>3 DEF Delivered, Answering
  <2> QED BY <1>6, <2>4, Timely
<1>13. CASE inbox["initiator"] = <<"foreign">>
  <2>1. /\ Append(<<"foreign">>, "reply") # <<>> /\ Head(Append(<<"foreign">>, "reply")) = "foreign"
        /\ Tail(Append(<<"foreign">>, "reply")) # <<>>
        /\ Head(Tail(Append(<<"foreign">>, "reply"))) = "reply"
    OBVIOUS
  <2>2. inbox'["initiator"] # <<>> /\ Head(inbox'["initiator"]) = "foreign"
        /\ Tail(inbox'["initiator"]) # <<>> /\ Head(Tail(inbox'["initiator"])) = "reply"
    BY <1>5, <1>13, <2>1
  <2>3. g = 1
    BY <1>10, <1>13 DEF Spoils, Pending
  <2>4. (Sending(now) /\ a >= 1) \/ (Resting(now) /\ a >= 2)
    BY <1>3, <1>10, <2>3 DEF Hopes
  <2>5. Delivered(now)'
    BY <1>5, <1>8, <1>9, <1>10, <1>11, <2>2, <2>4 DEF Delivered, Answering
  <2> QED BY <1>6, <2>5, Timely
<1> QED BY <1>12, <1>13 DEF Answering, Interrupted

-----------------------------------------------------------------------------
(* Once a reply is there. *)

\* The initiator's socket, and what may still come before the reply is taken.
ReplyNext == inbox["initiator"] # <<>> /\ Head(inbox["initiator"]) = "reply"
ReplySecond ==
  /\ inbox["initiator"] # <<>> /\ Head(inbox["initiator"]) = "foreign"
  /\ Tail(inbox["initiator"]) # <<>> /\ Head(Tail(inbox["initiator"])) = "reply"

\* More may come, behind it.
LEMMA DeliveredStays ==
  ASSUME Here, NEW now \in Nat, Delivered(now),
         UNCHANGED <<phase, result, stage, timer, round>>,
         \/ inbox'["initiator"] = inbox["initiator"]
         \/ \E datagram \in Datagrams : inbox'["initiator"] = Append(inbox["initiator"], datagram)
  PROVE  Delivered(now)'
<1>1. inbox["initiator"] \in Seq(Datagrams)
  BY Functions DEF Here
<1>2. /\ inbox'["initiator"] # <<>> /\ Head(inbox'["initiator"]) = Head(inbox["initiator"])
      /\ Tail(inbox["initiator"]) # <<>> =>
           /\ Tail(inbox'["initiator"]) # <<>>
           /\ Head(Tail(inbox'["initiator"])) = Head(Tail(inbox["initiator"]))
  <2>1. inbox["initiator"] # <<>>
    BY DEF Delivered
  <2>2. ASSUME NEW datagram \in Datagrams, inbox'["initiator"] = Append(inbox["initiator"], datagram)
        PROVE  /\ inbox'["initiator"] # <<>> /\ Head(inbox'["initiator"]) = Head(inbox["initiator"])
               /\ Tail(inbox["initiator"]) # <<>> =>
                    /\ Tail(inbox'["initiator"]) # <<>>
                    /\ Head(Tail(inbox'["initiator"])) = Head(Tail(inbox["initiator"]))
    BY <1>1, <2>1, <2>2
  <2> QED BY <2>1, <2>2
<1>3. Attempt' = Attempt /\ Until' = Until
  BY DEF Attempt, Until
<1>4. /\ Ahead(Attempt)' = Ahead(Attempt) /\ Wait' = Wait /\ Finish' = Finish
      /\ Sent(Attempt)' = Sent(Attempt) /\ Sent(Attempt + 1)' = Sent(Attempt + 1)
  BY <1>3, FixedHere DEF Here
<1>5. Sending(now)' = Sending(now) /\ Resting(now)' = Resting(now)
  BY <1>3, <1>4 DEF Sending, Resting, Awaiting, Running
<1> QED BY <1>2, <1>4, <1>5 DEF Delivered

LEMMA DeliveredStands ==
  ASSUME Here, NEW now \in Nat, Clock(now), Delivered(now), NEW e \in Ends,
         Arrives(e) \/ Loses(e) \/ Doubles(e) \/ Foreign(e)
  PROVE  OnTime'
<1>1. UNCHANGED <<phase, left, result, stage, timer, round>>
  BY DEF Arrives, Loses, Doubles, Foreign, timingVars, ends
<1>2. \/ inbox'["initiator"] = inbox["initiator"]
      \/ \E datagram \in Datagrams : inbox'["initiator"] = Append(inbox["initiator"], datagram)
  <2>1. CASE Arrives(e)
    BY <2>1, Arriving, TheEnds DEF Here, Datagrams
  <2>2. CASE Loses(e) \/ Doubles(e)
    BY <2>2, Losing, Doubling, TheEnds DEF Here
  <2>3. CASE Foreign(e)
    BY <2>3, Interrupting DEF Datagrams
  <2> QED BY <2>1, <2>2, <2>3
<1>3. Delivered(now)'
  BY <1>1, <1>2, DeliveredStays
<1>4. Clock(now)'
  BY <1>1, ClockStands DEF Here
<1> QED BY <1>3, <1>4, Timely

LEMMA DeliveredSends ==
  ASSUME Here, NEW now \in Nat, Clock(now), Delivered(now), SendsAgain
  PROVE  OnTime'
<1>1. /\ Awaiting("initiator", "sleep") /\ Until = 0
      /\ SendsRequest(Attempt + 1) /\ UNCHANGED <<phase, left, result>>
  BY SendsAgainSends
<1>2. ~Sending(now)
  BY <1>1 DEF Sending, Awaiting, Running
<1>3. \/ ReplyNext /\ Resting(now) /\ Ahead(Attempt) >= 1
      \/ ReplySecond /\ Resting(now) /\ Ahead(Attempt) >= 2
  BY <1>2 DEF Delivered, ReplyNext, ReplySecond
<1>4. /\ Attempt \in 1 .. 4 /\ now <= Sent(Attempt + 1) /\ Attempt + 1 \in 1 .. Rounds
      /\ Attempt \in 0 .. Rounds /\ Attempt + 1 \in 0 .. Rounds /\ Attempt + 1 - 1 = Attempt
  BY <1>1, <1>3 DEF Resting, Rounds
<1>5. /\ Attempt' = Attempt + 1 /\ TargetStays /\ UNCHANGED inbox
  BY <1>1, <1>4, RequestSent DEF TargetStays
<1>6. Sending(now)'
  BY <1>1, <1>4, Follows DEF Awaiting, Running
<1>7. PICK a \in Int, b \in Int : a = Ahead(Attempt) /\ b = Ahead(Attempt + 1)
  BY <1>4, Account DEF Here
<1>8. a = b + 1 \/ a = b
  BY <1>4, <1>7, Account DEF Here
<1>9. Ahead(Attempt)' = b /\ Finish' = Finish
  BY <1>5, <1>7, FixedHere DEF Here
<1>10. now < Finish
  <2>1. Ahead(Attempt) >= 1
    BY <1>3, <1>7
  <2>2. PICK n \in Nat : n = Sent(Attempt + 1) /\ n + 2 * Latency < Finish
    BY <1>4, <2>1, Chance DEF Here
  <2>3. Latency \in Nat /\ Finish \in Nat
    BY Numbers DEF Here
  <2> QED BY <1>4, <2>2, <2>3
<1>11. ReplyNext' = ReplyNext /\ ReplySecond' = ReplySecond
  BY <1>5 DEF ReplyNext, ReplySecond
<1>12. ReplyNext \/ (ReplySecond /\ b >= 1)
  BY <1>3, <1>7, <1>8
<1>13. phase'["target"] = "over" /\ result'["target"] = Pass
  BY <1>1 DEF Delivered
<1>14. Delivered(now)'
  BY <1>6, <1>9, <1>10, <1>11, <1>12, <1>13 DEF Delivered, ReplyNext, ReplySecond
<1>15. Clock(now)'
  BY <1>1, ClockStands DEF Here
<1> QED BY <1>14, <1>15, Timely

LEMMA DeliveredTicks ==
  ASSUME Here, NEW now \in Nat, Clock(now), Delivered(now), Tick
  PROVE  OnTime'
<1>1. /\ Clock(now + 1)'
      /\ UNCHANGED <<phase, result, inbox>>
      /\ Attempt' = Attempt
      /\ (\A p \in 0 .. 5 : Ahead(p)' = Ahead(p))
      /\ Sending(now) => inbox["initiator"] = <<>>
      /\ Resting(now) => Resting(now + 1)'
  BY Ticking
<1>2. \/ ReplyNext /\ Resting(now) /\ Ahead(Attempt) >= 1
      \/ ReplySecond /\ Resting(now) /\ Ahead(Attempt) >= 2
  BY <1>1 DEF Delivered, ReplyNext, ReplySecond
<1>3. Attempt \in 0 .. 5
  BY <1>2 DEF Resting, Rounds
<1>4. Ahead(Attempt)' = Ahead(Attempt)
  BY <1>1, <1>3
<1>5. phase'["target"] = "over" /\ result'["target"] = Pass
  BY <1>1 DEF Delivered
<1>6. Delivered(now + 1)'
  BY <1>1, <1>2, <1>4, <1>5 DEF Delivered, ReplyNext, ReplySecond
<1> QED BY <1>1, <1>6, Timely

\* The initiator takes the reply, or first what others sent.
LEMMA DeliveredTaken ==
  ASSUME Here, NEW now \in Nat, Clock(now), Delivered(now),
         InitiatorReceives \/ InitiatorReceivesAnswer
  PROVE  OnTime'
<1>1. Awaiting("initiator", "recv")
  BY DEF InitiatorReceives, InitiatorReceivesAnswer
<1>2. ~Resting(now)
  BY <1>1 DEF Resting, Awaiting, Running
<1>3. \/ ReplyNext /\ Sending(now)
      \/ ReplySecond /\ Sending(now) /\ Ahead(Attempt) >= 1
  BY <1>2 DEF Delivered, ReplyNext, ReplySecond
<1>4. CASE ReplyNext
  <2>1. net.altered = {} /\ Head(inbox["initiator"]) = "reply"
    BY <1>4 DEF Here, Undisturbed, ReplyNext
  <2>2. Returns("initiator", Pass)
    BY <2>1, AsSent DEF InitiatorReceives, InitiatorReceivesAnswer
  <2>3. /\ Clock(now)' /\ phase'["initiator"] = "over" /\ result'["initiator"] = Pass
        /\ phase'["target"] = phase["target"] /\ result'["target"] = result["target"]
    BY <2>2, ClockFinishes, TheEnds DEF Here, Returns
  <2>4. Through'
    BY <2>3, TheEnds DEF Through, Delivered
  <2> QED BY <2>3, <2>4, Timely
<1>5. CASE ReplySecond /\ Sending(now) /\ Ahead(Attempt) >= 1
  <2>1. Head(inbox["initiator"]) = "foreign"
    BY <1>5 DEF ReplySecond
  <2>2. AttemptFails(Attempt, "unexpected", Tail(inbox["initiator"]))
    BY <2>1, TakesForeign
  <2>3. Attempt \in 1 .. Rounds /\ Attempt \in 0 .. Rounds
    BY <1>5 DEF Sending, Rounds
  <2>4. Attempt < Rounds
    <3>1. Attempt + 1 \in 1 .. Rounds
      BY <1>5, <2>3, Chance DEF Here
    <3> QED BY <2>3, <3>1 DEF Rounds
  <2>5. /\ UNCHANGED <<phase, left, result>>
        /\ stage'["initiator"] = "sleep" /\ Until' = Pause /\ Attempt' = Attempt
        /\ inbox'["initiator"] = Tail(inbox["initiator"])
    BY <2>2, <2>4, AttemptOver
  <2>6. Resting(now)'
    BY <1>5, <2>4, <2>5, Pauses
  <2>7. Ahead(Attempt)' = Ahead(Attempt)
    BY <2>5, FixedHere DEF Here
  <2>8. ReplyNext'
    BY <1>5, <2>5 DEF ReplyNext, ReplySecond
  <2>9. phase'["target"] = "over" /\ result'["target"] = Pass
    BY <2>5 DEF Delivered
  <2>10. Delivered(now)'
    BY <1>5, <2>6, <2>7, <2>8, <2>9 DEF Delivered, ReplyNext
  <2>11. Clock(now)'
    BY <2>5, ClockStands DEF Here
  <2> QED BY <2>10, <2>11, Timely
<1> QED BY <1>3, <1>4, <1>5

-----------------------------------------------------------------------------
(* The course. *)

\* No deadline is over yet,
LEMMA NotCut ==
  ASSUME TimesType, NEW now \in Nat, Clock(now), NEW e \in Ends,
         phase["initiator"] = "running" => now < Finish,
         phase["target"] = "running" => now < ListensUntil
  PROVE  ~CutShort(e)
<1> SUFFICES ASSUME CutShort(e) PROVE FALSE
  OBVIOUS
<1>1. phase[e] = "running" /\ left[e] = 0
  BY DEF CutShort, DeadlinePasses, Running
<1>2. PICK a \in Nat, s \in Nat : a = Allowed(test) /\ s = StartOf(e)
  BY Amounts
<1>3. 0 = s + a - now
  BY <1>1, <1>2 DEF Clock
<1>4. CASE e = "initiator"
  <2>1. Finish = s + a
    BY <1>2, <1>4, Schedule DEF Finish
  <2> QED BY <1>1, <1>2, <1>3, <1>4, <2>1
<1>5. CASE e = "target"
  <2>1. PICK u \in Nat, o \in Nat : u = ListensUntil /\ o = Listens
    BY Windows
  <2>2. u <= o + a /\ o = s
    BY <1>2, <1>5, <2>1, Windows
  <2> QED BY <1>1, <1>2, <1>3, <1>5, <2>1, <2>2
<1> QED BY <1>4, <1>5, TheEnds

\* ... and the initiator, which hopes for a reply, has started.
LEMMA Hoping ==
  ASSUME NEW now, NEW ticks, Hopes(now, ticks)
  PROVE  phase["initiator"] = "running" /\ ~InitiatorStarts
BY DEF Hopes, Sending, Resting, Awaiting, Running, InitiatorStarts, Starts

\* The target when it is over does nothing.
LEMMA TargetOver ==
  ASSUME phase["target"] = "over"
  PROVE  ~(TargetStarts \/ BindFails \/ TargetReceives \/ TargetReceivesQuery \/ WindowEnds)
BY DEF TargetStarts, Starts, BindFails, TargetReceives, TargetReceivesQuery, WindowEnds, Expired,
   Awaiting, Running

\* No reply is lost.
LEMMA NoReplyLost ==
  ASSUME TimesType, lost["initiator"] = 0, lost'["initiator"] = 0
  PROVE  ~Loses("initiator")
<1>1. Loses("initiator") => lost'["initiator"] = lost["initiator"] + 1
  BY Losing, TheEnds
<1> QED BY <1>1

\* Nothing of the test happens when the client reads the report or gives up.
LEMMA CourseStands ==
  ASSUME Here, NEW now \in Nat, Clock(now), Course(now), Reports \/ UNCHANGED vars
  PROVE  OnTime'
<1>1. UNCHANGED <<phase, left, result, stage, timer, round, flight, inbox, lost, foreign>>
  BY DEF Reports, ReadReport, GiveUp, vars, timingVars, udpVars, ends
<1>2. Clock(now)'
  BY <1>1, ClockStands DEF Here
<1>3. InitiatorStays /\ TargetStays
  BY <1>1 DEF InitiatorStays, TargetStays
<1>4. /\ Interrupted' = Interrupted
      /\ \A ticks : Hopes(now, ticks)' = Hopes(now, ticks)
      /\ Listening(now)' = Listening(now) /\ Waiting(now)' = Waiting(now)
      /\ ListensUntil' = ListensUntil /\ Finish' = Finish
  BY <1>1, <1>3, InitiatorAsBefore, TargetAsBefore, WaitingStays, FixedHere DEF Here
<1>5. Unheard(now) => Unheard(now)'
  BY <1>1, <1>4 DEF Unheard
<1>6. Heard(now) => Heard(now)'
  <2>1. Hopes(now, Latency)' = Hopes(now, Latency)
    BY <1>4
  <2> QED BY <1>1, <1>4, <2>1 DEF Heard
<1>7. Answering(now) => Answering(now)'
  <2> SUFFICES ASSUME Answering(now) PROVE Answering(now)'
    OBVIOUS
  <2>1. PICK i \in DOMAIN flight["initiator"] :
          Hopes(now, flight["initiator"][i]) /\ now + flight["initiator"][i] < Finish
    BY DEF Answering
  <2>2. PICK x : x = flight["initiator"][i]
    OBVIOUS
  <2>3. /\ i \in DOMAIN flight'["initiator"] /\ flight'["initiator"][i] = x
        /\ Hopes(now, x)' /\ now + x < Finish
    BY <1>1, <1>4, <2>1, <2>2
  <2> QED BY <1>1, <1>4, <2>3 DEF Answering
<1>8. Delivered(now) => Delivered(now)'
  BY <1>1, DeliveredStays
<1>9. Through => Through'
  BY <1>1 DEF Through
<1> QED BY <1>2, <1>5, <1>6, <1>7, <1>8, <1>9, Timely DEF Course

LEMMA UnheardGoesOn ==
  ASSUME Here, NEW now \in Nat, Clock(now), Unheard(now), Steps \/ Tick, Undisturbed'
  PROVE  OnTime'
<1>1. \A e \in Ends : ~CutShort(e)
  BY UnheardInTime, NotCut DEF Here
<1>2. ~(BindFails \/ TargetReceives \/ TargetReceivesQuery)
  BY DEF Unheard, Listening, BindFails, TargetReceives, TargetReceivesQuery, Awaiting, Running
<1>3. ~(Arrives("initiator") \/ Loses("initiator") \/ Doubles("initiator"))
  BY DEF Unheard, Arrives, Loses, Doubles
<1>4. CASE InitiatorStarts \/ SendsAgain \/ NoReply \/ InitiatorReceives \/ InitiatorReceivesAnswer
  BY <1>4, UnheardStarts, UnheardSends, UnheardNoReply, UnheardSpoiled
<1>5. CASE TargetStarts \/ WindowEnds
  BY <1>5, UnheardListens, UnheardWindow
<1>6. CASE \E e \in Ends : Arrives(e) \/ Loses(e) \/ Doubles(e)
  BY <1>3, <1>6, TheEnds, UnheardTooEarly, UnheardArrives, UnheardLoses, UnheardDoubles
<1>7. CASE \E e \in Ends : Foreign(e)
  BY <1>7, UnheardForeign
<1>8. CASE Reports
  BY <1>8, CourseStands DEF Course
<1>9. CASE Tick
  BY <1>9, UnheardTicks
<1> QED BY <1>1, <1>2, <1>4, <1>5, <1>6, <1>7, <1>8, <1>9 DEF Steps

LEMMA HeardKept ==
  ASSUME Here, NEW now \in Nat, Clock(now), Heard(now), Steps \/ Tick, Undisturbed'
  PROVE  OnTime'
<1>1. Hopes(now, Latency) /\ now < ListensUntil /\ now < Finish
  <2>1. Latency \in Nat /\ Finish \in Nat
    BY Numbers DEF Here
  <2> QED BY <2>1 DEF Heard
<1>2. \A e \in Ends : ~CutShort(e)
  BY <1>1, NotCut DEF Here
<1>3. ~InitiatorStarts
  BY <1>1, Hoping
<1>4. ~(TargetStarts \/ BindFails \/ WindowEnds)
  BY DEF Heard, Listening, TargetStarts, Starts, BindFails, WindowEnds, Expired, Awaiting, Running
<1>5. ~(Arrives("initiator") \/ Loses("initiator") \/ Doubles("initiator"))
  BY DEF Heard, Arrives, Loses, Doubles
<1>6. ~Tick
  BY Ticking DEF Heard
<1>7. CASE SendsAgain \/ NoReply \/ InitiatorReceives \/ InitiatorReceivesAnswer
  BY <1>7, HeardGoesOn
<1>8. CASE TargetReceives \/ TargetReceivesQuery
  BY <1>8, HeardAnswers
<1>9. CASE \E e \in Ends : Arrives(e) \/ Loses(e) \/ Doubles(e)
  BY <1>5, <1>9, TheEnds, HeardStands
<1>10. CASE \E e \in Ends : Foreign(e)
  BY <1>10, HeardForeign
<1>11. CASE Reports
  BY <1>11, CourseStands DEF Course
<1> QED BY <1>2, <1>3, <1>4, <1>6, <1>7, <1>8, <1>9, <1>10, <1>11 DEF Steps

LEMMA AnsweringKept ==
  ASSUME Here, NEW now \in Nat, Clock(now), Answering(now), Steps \/ Tick, Undisturbed'
  PROVE  OnTime'
<1>1. PICK i \in DOMAIN flight["initiator"] :
        Hopes(now, flight["initiator"][i]) /\ now + flight["initiator"][i] < Finish
  BY DEF Answering
<1>2. now < Finish
  <2>1. PICK x \in Nat : x = flight["initiator"][i]
    BY <1>1, TheEnds, Numbers DEF Here, TimesType
  <2>2. Finish \in Nat
    BY Numbers DEF Here
  <2> QED BY <1>1, <2>1, <2>2
<1>3. phase["target"] = "over"
  BY DEF Answering
<1>4. \A e \in Ends : ~CutShort(e)
  BY <1>2, <1>3, NotCut DEF Here
<1>5. ~InitiatorStarts
  BY <1>1, Hoping
<1>6. ~(TargetStarts \/ BindFails \/ TargetReceives \/ TargetReceivesQuery \/ WindowEnds)
  BY <1>3, TargetOver
<1>7. ~Loses("initiator")
  BY NoReplyLost DEF Here, Undisturbed
<1>8. CASE SendsAgain \/ NoReply \/ InitiatorReceives \/ InitiatorReceivesAnswer
  BY <1>8, AnsweringGoesOn
<1>9. CASE \E e \in Ends : Arrives(e) \/ Loses(e) \/ Doubles(e)
  BY <1>7, <1>9, TheEnds, AnsweringStands, AnsweringArrives
<1>10. CASE \E e \in Ends : Foreign(e)
  BY <1>10, AnsweringForeign
<1>11. CASE Reports
  BY <1>11, CourseStands DEF Course
<1>12. CASE Tick
  BY <1>12, AnsweringTicks
<1> QED BY <1>4, <1>5, <1>6, <1>8, <1>9, <1>10, <1>11, <1>12 DEF Steps

LEMMA DeliveredKept ==
  ASSUME Here, NEW now \in Nat, Clock(now), Delivered(now), Steps \/ Tick, Undisturbed'
  PROVE  OnTime'
<1>1. now < Finish
  <2>1. CASE Sending(now) /\ now < Finish
    BY <2>1
  <2>2. CASE Resting(now) /\ Ahead(Attempt) >= 1
    <3>1. Attempt \in 0 .. Rounds /\ Until \in Nat /\ now + Until <= Sent(Attempt + 1)
      BY <2>2 DEF Resting, Rounds
    <3>2. PICK n \in Nat : n = Sent(Attempt + 1) /\ n + 2 * Latency < Finish
      BY <2>2, <3>1, Chance DEF Here
    <3>3. Latency \in Nat /\ Finish \in Nat
      BY Numbers DEF Here
    <3> QED BY <3>1, <3>2, <3>3
  <2>3. CASE Resting(now) /\ Ahead(Attempt) >= 2
    <3>1. Attempt \in 0 .. Rounds
      BY <2>3 DEF Resting, Rounds
    <3>2. Ahead(Attempt) >= 1
      BY <2>3, <3>1, Account DEF Here
    <3> QED BY <2>2, <2>3, <3>2
  <2> QED BY <2>1, <2>2, <2>3 DEF Delivered
<1>2. phase["target"] = "over" /\ inbox["initiator"] # <<>>
      /\ (Sending(now) \/ Resting(now))
  BY DEF Delivered
<1>3. \A e \in Ends : ~CutShort(e)
  BY <1>1, <1>2, NotCut DEF Here
<1>4. ~InitiatorStarts
  BY <1>2 DEF Sending, Resting, Awaiting, Running, InitiatorStarts, Starts
<1>5. ~(TargetStarts \/ BindFails \/ TargetReceives \/ TargetReceivesQuery \/ WindowEnds)
  BY <1>2, TargetOver
<1>6. ~NoReply
  BY <1>2 DEF NoReply
<1>7. CASE SendsAgain \/ InitiatorReceives \/ InitiatorReceivesAnswer
  BY <1>7, DeliveredSends, DeliveredTaken
<1>8. CASE \E e \in Ends : Arrives(e) \/ Loses(e) \/ Doubles(e) \/ Foreign(e)
  BY <1>8, DeliveredStands
<1>9. CASE Reports
  BY <1>9, CourseStands DEF Course
<1>10. CASE Tick
  BY <1>10, DeliveredTicks
<1> QED BY <1>3, <1>4, <1>5, <1>6, <1>7, <1>8, <1>9, <1>10 DEF Steps

LEMMA ThroughKept ==
  ASSUME Here, NEW now \in Nat, Clock(now), Through, [Next]_vars
  PROVE  OnTime'
<1>1. UNCHANGED <<phase, result>>
  <2>1. \A e \in Ends : ~Running(e) /\ phase[e] # "idle"
    BY DEF Through, Running
  <2>2. ClockStep \/ UNCHANGED vars
    BY EveryStepIsClockStep
  <2>3. ClockStep => UNCHANGED <<phase, result>>
    BY <2>1 DEF ClockStep, Starts, Finishes, ReadReport, GiveUp, TimingTick, timingVars
  <2> QED BY <2>2, <2>3 DEF vars, timingVars
<1>2. Through' /\ Clock(now)'
  BY <1>1 DEF Through, Clock
<1> QED BY <1>2, Timely

LEMMA CourseKept ==
  ASSUME TimesType, [Next]_vars, OnCourse
  PROVE  OnCourse'
<1> SUFFICES ASSUME Undisturbed' PROVE OnTime'
  BY DEF OnCourse, OnTime
<1>1. Undisturbed
  BY BeforeUndisturbed
<1>2. Here
  BY <1>1, StepIsFixed DEF Here
<1>3. PICK now \in Nat : Clock(now) /\ Course(now)
  BY <1>1 DEF OnCourse
<1>4. CASE UNCHANGED vars
  BY <1>2, <1>3, <1>4, CourseStands
<1>5. CASE Through
  BY <1>2, <1>3, <1>5, ThroughKept
<1>6. CASE Steps \/ Tick
  BY <1>2, <1>3, <1>5, <1>6, UnheardGoesOn, HeardKept, AnsweringKept, DeliveredKept DEF Course
<1> QED BY <1>4, <1>6 DEF Next

LEMMA CourseInit ==
  ASSUME Init
  PROVE  OnCourse
<1>1. /\ \A e \in Ends : phase[e] = "idle" /\ left[e] = StartOf(e)
      /\ inbox["target"] = <<>> /\ inbox["initiator"] = <<>>
      /\ flight["target"] = <<>> /\ flight["initiator"] = <<>>
  BY TheEnds DEF Init, TimingInit, StartOf
<1>2. \A e \in Ends : StartOf(e) \in Nat
  BY Amounts, TimesInit
<1>3. Clock(0)
  BY <1>1, <1>2 DEF Clock
<1>4. Unheard(0)
  BY <1>1, TheEnds DEF Unheard, Waiting, Starting, Interrupted
<1>5. Clock(0) /\ Course(0) /\ 0 \in Nat
  BY <1>3, <1>4 DEF Course
<1> QED BY <1>5 DEF OnCourse

LEMMA CoursePasses ==
  ASSUME OnCourse
  PROVE  NoFalseFailure
<1> SUFFICES ASSUME Undisturbed, NEW e \in Ends, Over(e)
             PROVE  result[e] = Pass
  BY DEF NoFalseFailure, Undisturbed
<1>1. PICK now \in Nat : Course(now)
  BY DEF OnCourse
<1>2. phase[e] = "over"
  BY DEF Over
<1>3. CASE Unheard(now) \/ Heard(now)
  BY <1>2, <1>3, TheEnds DEF Unheard, Heard, Waiting, Starting, Trying, Pausing, Hopes, Sending,
     Resting, Listening, Awaiting, Running
<1>4. CASE Answering(now)
  BY <1>2, <1>4, TheEnds, Hoping DEF Answering
<1>5. CASE Delivered(now)
  BY <1>2, <1>5, TheEnds DEF Delivered, Sending, Resting, Awaiting, Running
<1>6. CASE Through
  BY <1>6 DEF Through
<1> QED BY <1>1, <1>3, <1>4, <1>5, <1>6 DEF Course

\* Retransmission does its work (udp_initiator, the dns test's too): on a network
\* that alters and blocks nothing, with one attempt more in time than requests are
\* lost or spoiled, both ends pass, whatever the delays, the doubled datagrams and
\* those of others.
THEOREM NoFailureOfItsOwn == Spec => []NoFalseFailure
<1> DEFINE Inv == TripInv /\ TimesType /\ OnCourse
<1>1. Init => Inv
  BY TripInvInit, TimesInit, CourseInit
<1>2. ClockInv /\ ClockInv' /\ Inv /\ [Next]_vars => Inv'
  <2> SUFFICES ASSUME ClockInv, ClockInv', Inv, [Next]_vars PROVE Inv'
    OBVIOUS
  <2>1. TripInv'
    BY TripInvNext
  <2>2. ClockType' /\ TripType'
    BY <2>1 DEF ClockInv, TripInv
  <2> QED BY <2>1, <2>2, TimesKept, CourseKept
<1>3. Inv => NoFalseFailure
  BY CoursePasses
<1> QED
  BY <1>1, <1>2, <1>3, ClockInvariant, PTL DEF Spec
=============================================================================
