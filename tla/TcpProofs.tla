------------------------------ MODULE TcpProofs ------------------------------
(***************************************************************************)
(* Theorems about module TcpExchange, for every timeout, every delay of    *)
(* the control connection and every latency.  The inductive invariant has  *)
(* two parts:                                                              *)
(*   TripInv    what a segment on its way says of the network and of the   *)
(*              target;                                                    *)
(*   OnCourse   the situations of a test that nothing disturbs, from Idle  *)
(*              over Asking (and TurnedAway and Resting, once), Welcomed,  *)
(*              Acknowledged and the handshake to Requested, Replying and  *)
(*              Through, each with the time at which it is left at the     *)
(*              latest and what the ends' timers have left by then.        *)
(***************************************************************************)
EXTENDS TcpExchange, TLAPS

-----------------------------------------------------------------------------
(* Types. *)

Handshake == {"syn", "synack", "ack", "rst"}
Kinds == Handshake \cup {"icmp", "hello", "serverhello", "finished", "request", "reply", "eof"}
Segment == [kind : Kinds, left : Int]

NetType ==
  /\ net.path \in {"open", "drop", "reject", "unreachable", "stall"}
  /\ net.altered \subseteq {"request", "reply"}
  /\ net.part \in Parts

\* An end that is over has a result, and no other one.
EndType ==
  /\ phase \in [Ends -> {"idle", "running", "over"}]
  /\ result \in [Ends -> Observations \cup {None}]
  /\ \A e \in Ends : IF Over(e) THEN result[e] \in Observations ELSE result[e] = None

TypeInv ==
  /\ NetType
  /\ EndType
  /\ wire \in [Ends -> Seq(Segment)]

\* A segment of a kind is on its way to an end.
OnWire(e, kind) == \E i \in DOMAIN wire[e] : wire[e][i].kind = kind

\* A request is on its way on an open path only, a reply after the target has
\* passed.
WireInv ==
  /\ OnWire("target", "request") => net.path = "open"
  /\ OnWire("initiator", "reply") => net.path = "open" /\ result["target"] = Pass

TripInv == TypeInv /\ WireInv /\ PassMeansRoundTrip

LEMMA OtherEnd ==
  /\ Other("initiator") = "target"
  /\ Other("target") = "initiator"
<1>1. \A f \in Ends : f # "initiator" => f = "target"
  BY DEF Ends
<1>2. \A f \in Ends : f # "target" => f = "initiator"
  BY DEF Ends
<1> QED
  BY <1>1, <1>2 DEF Other, Ends

LEMMA OutcomesObserved ==
  /\ Pass \in Observations /\ Error("bind") \in Observations
  /\ \A reason \in {"refused", "connect", "timeout", "accept", "handshake", "read", "mismatch",
                    "differs", "deadline", "dns"} : Fail(reason) \in Observations
  /\ \A r : Fail(r) # Pass /\ Error(r) # Pass
  /\ None \notin Observations
<1>1. Observations \subseteq ProtocolResult
  <2>1. Pass \in ProtocolResult
    BY DEF Pass, Observed, ProtocolResult, Statuses
  <2>2. \A r \in Reasons : Fail(r) \in ProtocolResult /\ Error(r) \in ProtocolResult
    BY DEF Fail, Error, Observed, ProtocolResult, Statuses
  <2> QED
    BY <2>1, <2>2 DEF Observations
<1>2. \A r : Fail(r) # Pass /\ Error(r) # Pass
  BY DEF Fail, Error, Pass, Observed
<1> QED
  BY <1>1, <1>2, TcpAssumption, TimingAssumption DEF Observations

-----------------------------------------------------------------------------
(* The wire. *)

\* What of a list of kinds is carried.
LEMMA SegmentsFacts ==
  ASSUME NetType, NEW kinds \in Seq(Kinds)
  PROVE  /\ Segments(kinds) \in Seq(Segment)
         /\ \A i \in DOMAIN Segments(kinds) :
              /\ i \in DOMAIN kinds /\ Segments(kinds)[i].kind = kinds[i]
              /\ net.path = "open" \/ kinds[i] \in Handshake
<1>1. Carried(kinds) \in 0 .. Len(kinds)
  BY DEF Carried
<1>2. net.path # "open" /\ Carried(kinds) > 0 => Carried(kinds) = 1 /\ kinds[1] \in Handshake
  BY DEF Carried, Handshake
<1>3. \A i \in 1 .. Carried(kinds) : [kind |-> kinds[i], left |-> Latency] \in Segment
  BY <1>1, TcpAssumption DEF Segment
<1>4. Segments(kinds) \in Seq(Segment)
  BY <1>1, <1>3 DEF Segments
<1>5. DOMAIN Segments(kinds) = 1 .. Carried(kinds)
  BY DEF Segments
<1> QED
  BY <1>1, <1>2, <1>4, <1>5 DEF Segments

\* Kinds that say something of what the ends have done.
Telling == {"request", "reply"}

\* What is on the wire after an end has answered, or emitted.
LEMMA AnswersFacts ==
  ASSUME TypeInv, NEW e \in Ends, NEW kinds \in Seq(Kinds),
         (Answers(e, kinds) /\ wire[e] # <<>>) \/ Emits(e, kinds)
  PROVE  /\ wire' \in [Ends -> Seq(Segment)]
         /\ \A f \in Ends, k \in Telling :
              OnWire(f, k)' =>
                \/ OnWire(f, k)
                \/ f = Other(e) /\ net.path = "open" /\ \E i \in DOMAIN kinds : kinds[i] = k
<1> DEFINE o == Other(e)
<1>1. o \in Ends /\ o # e
  BY OtherEnd DEF Ends
<1>2. PICK sent : sent = Segments(kinds)
  OBVIOUS
<1>3. /\ sent \in Seq(Segment)
      /\ \A i \in DOMAIN sent : /\ i \in DOMAIN kinds /\ sent[i].kind = kinds[i]
                                /\ net.path = "open" \/ kinds[i] \in Handshake
  BY <1>2, SegmentsFacts DEF TypeInv
<1>4. /\ wire \in [Ends -> Seq(Segment)]
      /\ wire[e] \in Seq(Segment) /\ wire[o] \in Seq(Segment)
  BY <1>1 DEF TypeInv
<1>5. wire[o] \o sent \in Seq(Segment)
  BY <1>3, <1>4
<1>6. wire[e] # <<>> => Tail(wire[e]) \in Seq(Segment)
  BY <1>4
<1>7. /\ wire' \in [Ends -> Seq(Segment)]
      /\ wire'[e] = wire[e] \/ (wire[e] # <<>> /\ wire'[e] = Tail(wire[e]))
      /\ wire'[o] = wire[o] \o sent
  BY <1>1, <1>2, <1>4, <1>5, <1>6 DEF Answers, Emits
<1>8. ASSUME NEW k \in Telling, OnWire(e, k)' PROVE OnWire(e, k)
  <2>1. PICK i \in DOMAIN wire'[e] : wire'[e][i].kind = k
    BY <1>8 DEF OnWire
  <2>2. \E j \in DOMAIN wire[e] : wire'[e][i] = wire[e][j]
    <3>1. CASE wire'[e] = wire[e]
      BY <2>1, <3>1
    <3>2. CASE wire[e] # <<>> /\ wire'[e] = Tail(wire[e])
      <4>1. i + 1 \in DOMAIN wire[e] /\ Tail(wire[e])[i] = wire[e][i + 1]
        BY <1>4, <2>1, <3>2
      <4> QED
        BY <3>2, <4>1
    <3> QED
      BY <1>7, <3>1, <3>2
  <2> QED
    BY <2>1, <2>2 DEF OnWire
<1>9. ASSUME NEW k \in Telling, OnWire(o, k)', ~OnWire(o, k)
      PROVE  net.path = "open" /\ \E i \in DOMAIN kinds : kinds[i] = k
  <2>1. PICK i \in DOMAIN wire'[o] : wire'[o][i].kind = k
    BY <1>9 DEF OnWire
  <2>2. CASE i \in DOMAIN wire[o]
    BY <1>4, <1>3, <1>7, <1>9, <2>1, <2>2 DEF OnWire
  <2>3. CASE i \notin DOMAIN wire[o]
    <3>1. i - Len(wire[o]) \in DOMAIN sent /\ wire'[o][i] = sent[i - Len(wire[o])]
      BY <1>3, <1>4, <1>7, <2>1, <2>3
    <3> QED
      BY <1>3, <2>1, <3>1 DEF Telling, Handshake
  <2> QED
    BY <2>2, <2>3
<1>10. \A f \in Ends : f = e \/ f = o
  BY OtherEnd DEF Ends
<1> QED
  BY <1>7, <1>8, <1>9, <1>10

\* validate_dns_response on an answer to a query that could be parsed: what the
\* network altered is nothing the test looks at.
LEMMA AnswerUnseen ==
  ASSUME NEW altered, NEW part \in Parts,
         Parses(QueryRead(Query, altered, part)),
         validate_dns_response(Query, ResponseRead(Query, altered, part))
  PROVE  Unseen(altered, part)
<1> DEFINE read == QueryRead(Query, altered, part)
           response == build_dns_response(read)
<1>1. Query = [id |-> 0, kind |-> "query", queries |-> <<"bimap.test">>, answers |-> <<>>]
  BY DEF Query, build_dns_query
<1>2. CASE part = "answer"
  BY <1>2 DEF Unseen
<1>3. CASE part = "form"
  <2>1. "request" \notin altered
    BY <1>1, <1>3 DEF QueryRead, Altered, Parses
  <2>2. "reply" \notin altered
    BY <1>1, <1>3 DEF ResponseRead, build_dns_response, QueryRead, Altered, Parses,
                      validate_dns_response
  <2> QED
    BY <2>1, <2>2 DEF Unseen
<1>4. CASE part = "id"
  <2>1. read.id = IF "request" \in altered THEN 1 ELSE 0
    BY <1>1, <1>4 DEF QueryRead, Altered
  <2>2. ResponseRead(Query, altered, part).id = IF "reply" \in altered THEN read.id + 1 ELSE read.id
    BY <1>4 DEF ResponseRead, build_dns_response, Altered
  <2>3. ResponseRead(Query, altered, part).id = 0
    BY <1>1 DEF validate_dns_response
  <2> QED
    BY <2>1, <2>2, <2>3 DEF Unseen
<1>5. CASE part = "kind"
  <2>1. "reply" \notin altered
    BY <1>5 DEF ResponseRead, build_dns_response, Altered, validate_dns_response
  <2> QED
    BY <1>5, <2>1 DEF Unseen
<1>6. CASE part = "question"
  <2>1. read.queries = IF "request" \in altered THEN <<"bimap.test", "other">> ELSE <<"bimap.test">>
    BY <1>1, <1>6 DEF QueryRead, Altered
  <2>2. ResponseRead(Query, altered, part).queries
          = IF "reply" \in altered THEN Append(read.queries, "other") ELSE read.queries
    BY <1>6 DEF ResponseRead, build_dns_response, Altered
  <2>3. ResponseRead(Query, altered, part).queries = <<"bimap.test">>
    BY <1>1 DEF validate_dns_response
  <2>4. PICK q, r : q = read.queries /\ r = ResponseRead(Query, altered, part).queries
    OBVIOUS
  <2>5. q \in Seq({"bimap.test", "other"}) /\ Len(q) \in {1, 2} /\ ("request" \in altered => Len(q) = 2)
    <3>1. \A S : \A x, y \in S : /\ <<x>> \in Seq(S) /\ Len(<<x>>) = 1
                                /\ <<x, y>> \in Seq(S) /\ Len(<<x, y>>) = 2
      OBVIOUS
    <3>2. q = IF "request" \in altered THEN <<"bimap.test", "other">> ELSE <<"bimap.test">>
      BY <2>1, <2>4
    <3> HIDE DEF read, response
    <3> QED
      BY <3>1, <3>2
  <2>6. Len(Append(q, "other")) = Len(q) + 1
    BY <2>5
  <2>7. r = IF "reply" \in altered THEN Append(q, "other") ELSE q
    BY <2>2, <2>4
  <2>8. Len(r) = 1
    <3>1. r = <<"bimap.test">>
      BY <2>3, <2>4
    <3> QED
      BY <3>1
  <2>9. "reply" \notin altered
    BY <2>5, <2>6, <2>7, <2>8
  <2>10. "request" \notin altered
    BY <2>5, <2>7, <2>8, <2>9
  <2> QED
    BY <2>9, <2>10 DEF Unseen
<1> QED
  BY <1>2, <1>3, <1>4, <1>5, <1>6 DEF Parts

\* The steps of an attempt to connect put nothing on the wire that tells.
LEMMA ConnectsFacts ==
  ASSUME TypeInv, Connects
  PROVE  /\ wire' \in [Ends -> Seq(Segment)]
         /\ \A f \in Ends, k \in Telling : ~OnWire(f, k)'
<1> DEFINE kind == IF net.path = "reject" THEN "rst" ELSE "icmp"
           back == IF net.path \in {"reject", "unreachable"}
                   THEN <<[kind |-> kind, left |-> Latency]>> ELSE <<>>
<1>1. PICK one \in Seq(Kinds) : one = <<"syn">> /\ \A i \in DOMAIN one : one[i] = "syn"
  <2>1. \A x \in Kinds : <<x>> \in Seq(Kinds) /\ \A i \in DOMAIN <<x>> : <<x>>[i] = x
    OBVIOUS
  <2>2. "syn" \in Kinds
    BY DEF Kinds, Handshake
  <2> QED
    BY <2>1, <2>2
<1>2. PICK syn : syn = Segments(one)
  OBVIOUS
<1>3. /\ syn \in Seq(Segment)
      /\ \A i \in DOMAIN syn : syn[i].kind = "syn"
  <2>1. /\ Segments(one) \in Seq(Segment)
        /\ \A i \in DOMAIN Segments(one) : i \in DOMAIN one /\ Segments(one)[i].kind = one[i]
    BY SegmentsFacts DEF TypeInv
  <2> QED
    BY <1>1, <1>2, <2>1
<1>4. /\ back \in Seq(Segment)
      /\ \A i \in DOMAIN back : back[i].kind \notin Telling
  <2>1. \A k \in {"rst", "icmp"} : [kind |-> k, left |-> Latency] \in Segment /\ k \notin Telling
    <3>1. \A k \in {"rst", "icmp"} : k \in Kinds /\ k \notin Telling
      BY DEF Kinds, Handshake, Telling
    <3>2. Latency \in Int
      BY TcpAssumption
    <3> QED
      BY <3>1, <3>2 DEF Segment
  <2>2. PICK k \in {"rst", "icmp"} : k = kind
    OBVIOUS
  <2>3. [kind |-> k, left |-> Latency] \in Segment /\ k \notin Telling
    BY <2>1
  <2>4. back = <<>> \/ back = <<[kind |-> k, left |-> Latency]>>
    BY <2>2
  <2>5. PICK x : x = [kind |-> k, left |-> Latency]
    OBVIOUS
  <2>6. x \in Segment /\ x.kind \notin Telling /\ (back = <<>> \/ back = <<x>>)
    BY <2>3, <2>4, <2>5
  <2>7. <<x>> \in Seq(Segment) /\ \A i \in DOMAIN <<x>> : <<x>>[i] = x
    BY <2>6
  <2> HIDE DEF back
  <2>8. CASE back = <<>>
    BY <2>8
  <2>9. CASE back = <<x>>
    BY <2>6, <2>7, <2>9
  <2> QED
    BY <2>6, <2>8, <2>9
<1>5. PICK b : b = back
  OBVIOUS
<1>6. wire' = [initiator |-> b, target |-> syn]
  BY <1>1, <1>2, <1>5 DEF Connects
<1>7. wire'["initiator"] = b /\ wire'["target"] = syn /\ DOMAIN wire' = Ends
  BY <1>6 DEF Ends
<1>8. wire' = [e \in Ends |-> wire'[e]]
  BY <1>6 DEF Ends
<1>9. wire' \in [Ends -> Seq(Segment)]
  BY <1>3, <1>4, <1>5, <1>7, <1>8 DEF Ends
<1> QED
  BY <1>3, <1>4, <1>5, <1>7, <1>9 DEF OnWire, Ends, Telling

-----------------------------------------------------------------------------
(* The ends. *)

\* A step as the ends' phases and results see it.
EndStep ==
  \/ \E e \in Ends : Starts(e, Allowed(test))
  \/ \E e \in Ends, o \in Observations : Finishes(e, o)
  \/ UNCHANGED <<phase, result>>

LEMMA EndKept ==
  ASSUME EndType, EndStep
  PROVE  /\ EndType'
         /\ \A e \in Ends : result[e] = Pass => result'[e] = Pass
<1> USE DEF EndType
<1>1. ASSUME NEW e \in Ends, Starts(e, Allowed(test))
      PROVE  EndType' /\ \A f \in Ends : result'[f] = result[f]
  BY <1>1 DEF Starts, Over
<1>2. ASSUME NEW e \in Ends, NEW o \in Observations, Finishes(e, o)
      PROVE  EndType' /\ \A f \in Ends : result[f] = Pass => result'[f] = Pass
  <2>1. result[e] # Pass
    BY <1>2, OutcomesObserved DEF Finishes, Running, Over
  <2>2. phase' \in [Ends -> {"idle", "running", "over"}] /\ result' \in [Ends -> Observations \cup {None}]
    BY <1>2 DEF Finishes
  <2>3. \A f \in Ends : IF Over(f)' THEN result'[f] \in Observations ELSE result'[f] = None
    BY <1>2 DEF Finishes, Over
  <2> QED
    BY <1>2, <2>1, <2>2, <2>3 DEF Finishes
<1>3. CASE UNCHANGED <<phase, result>>
  BY <1>3 DEF Over
<1> QED
  BY <1>1, <1>2, <1>3 DEF EndStep

\* What is true of a step that lets no end pass and puts no reply on the wire.
Quiet ==
  /\ UNCHANGED <<net, test>>
  /\ EndStep
  /\ \A e \in Ends : result'[e] = Pass => result[e] = Pass
  /\ wire' \in [Ends -> Seq(Segment)]
  /\ OnWire("target", "request")' => OnWire("target", "request") \/ net.path = "open"
  /\ OnWire("initiator", "reply")' => OnWire("initiator", "reply")

LEMMA QuietKeeps ==
  ASSUME TripInv, Quiet
  PROVE  TripInv'
<1>1. EndType' /\ \A e \in Ends : result[e] = Pass => result'[e] = Pass
  BY EndKept DEF Quiet, TripInv, TypeInv
<1>2. TypeInv'
  BY <1>1 DEF Quiet, TripInv, TypeInv, NetType
<1>3. WireInv'
  BY <1>1 DEF Quiet, TripInv, WireInv, Ends
<1>4. PassMeansRoundTrip'
  BY <1>1 DEF Quiet, TripInv, PassMeansRoundTrip, Ends
<1> QED
  BY <1>2, <1>3, <1>4 DEF TripInv

\* An end's failure, and a step that ends neither.
LEMMA Failing ==
  ASSUME EndType
  PROVE  /\ \A e \in Ends : \A r : Fail(r) \in Observations /\ Finishes(e, Fail(r)) =>
              EndStep /\ \A f \in Ends : result'[f] = Pass => result[f] = Pass
         /\ UNCHANGED timingVars =>
              EndStep /\ \A f \in Ends : result'[f] = Pass => result[f] = Pass
<1>1. ASSUME NEW e \in Ends, NEW r, Fail(r) \in Observations, Finishes(e, Fail(r)), NEW f \in Ends,
             result'[f] = Pass
      PROVE  result[f] = Pass
  BY <1>1, OutcomesObserved DEF Finishes, EndType
<1>2. UNCHANGED timingVars => UNCHANGED <<phase, result>>
  BY DEF timingVars
<1> QED
  BY <1>1, <1>2 DEF EndStep

\* The wire of a quiet step.
WireQuiet ==
  /\ wire' \in [Ends -> Seq(Segment)]
  /\ OnWire("target", "request")' => OnWire("target", "request") \/ net.path = "open"
  /\ OnWire("initiator", "reply")' => OnWire("initiator", "reply")

LEMMA KindsAre ==
  {"syn", "synack", "ack", "rst", "icmp", "hello", "serverhello", "finished", "request",
   "reply", "eof"} = Kinds
BY DEF Kinds, Handshake

LEMMA KindLists ==
  ASSUME NEW x \in Kinds, NEW y \in Kinds
  PROVE  /\ <<>> \in Seq(Kinds) /\ DOMAIN <<>> = {}
         /\ <<x>> \in Seq(Kinds) /\ \A i \in DOMAIN <<x>> : <<x>>[i] = x
         /\ <<x, y>> \in Seq(Kinds) /\ \A i \in DOMAIN <<x, y>> : <<x, y>>[i] \in {x, y}
<1>1. <<>> \in Seq(Kinds) /\ DOMAIN <<>> = {}
  OBVIOUS
<1>2. <<x>> \in Seq(Kinds) /\ \A i \in DOMAIN <<x>> : <<x>>[i] = x
  OBVIOUS
<1>3. <<x, y>> \in Seq(Kinds) /\ \A i \in DOMAIN <<x, y>> : <<x, y>>[i] \in {x, y}
  OBVIOUS
<1> QED
  BY <1>1, <1>2, <1>3

\* Answering with nothing, with one kind or with two is quiet, unless it is the
\* target that replies.
LEMMA AnswersQuietly ==
  ASSUME TypeInv, NEW e \in Ends, NEW kinds \in Seq(Kinds),
         (Answers(e, kinds) /\ wire[e] # <<>>) \/ Emits(e, kinds),
         e = "initiator" \/ \A i \in DOMAIN kinds : kinds[i] # "reply"
  PROVE  WireQuiet
<1>1. /\ wire' \in [Ends -> Seq(Segment)]
      /\ \A f \in Ends, k \in Telling :
           OnWire(f, k)' =>
             \/ OnWire(f, k)
             \/ f = Other(e) /\ net.path = "open" /\ \E i \in DOMAIN kinds : kinds[i] = k
  BY AnswersFacts
<1> QED
  BY <1>1, OtherEnd DEF WireQuiet, Ends, Telling

LEMMA AnswersNothing ==
  ASSUME TypeInv, NEW e \in Ends, Answers(e, <<>>), wire[e] # <<>>
  PROVE  WireQuiet
<1>1. PICK kinds \in Seq(Kinds) : kinds = <<>> /\ DOMAIN kinds = {}
  <2>1. <<>> \in Seq(Kinds) /\ DOMAIN <<>> = {}
    OBVIOUS
  <2> QED
    BY <2>1
<1>2. Answers(e, kinds)
  BY <1>1
<1> QED
  BY <1>1, <1>2, AnswersQuietly

LEMMA AnswersOne ==
  ASSUME TypeInv, NEW e \in Ends, NEW x \in Kinds, x # "reply",
         (Answers(e, <<x>>) /\ wire[e] # <<>>) \/ Emits(e, <<x>>)
  PROVE  WireQuiet
<1>1. PICK kinds \in Seq(Kinds) : kinds = <<x>> /\ \A i \in DOMAIN kinds : kinds[i] # "reply"
  BY KindLists
<1>2. (Answers(e, kinds) /\ wire[e] # <<>>) \/ Emits(e, kinds)
  BY <1>1
<1> QED
  BY <1>1, <1>2, AnswersQuietly

LEMMA AnswersTwo ==
  ASSUME TypeInv, NEW x \in Kinds, NEW y \in Kinds,
         Answers("initiator", <<x, y>>), wire["initiator"] # <<>>
  PROVE  WireQuiet
<1>1. PICK kinds \in Seq(Kinds) : kinds = <<x, y>>
  BY KindLists
<1>2. Answers("initiator", kinds) /\ "initiator" \in Ends
  BY <1>1 DEF Ends
<1> QED
  BY <1>1, <1>2, AnswersQuietly

LEMMA NothingLeft ==
  ASSUME \/ wire' = [e \in Ends |-> <<>>]
         \/ TypeInv /\ UNCHANGED wire
  PROVE  WireQuiet
<1>1. CASE wire' = [e \in Ends |-> <<>>]
  BY <1>1 DEF WireQuiet, OnWire, Ends
<1>2. CASE TypeInv /\ UNCHANGED wire
  BY <1>2 DEF WireQuiet, OnWire, TypeInv
<1> QED
  BY <1>1, <1>2

\* A tick moves the segments on.
LEMMA TickMoves ==
  ASSUME TypeInv, Tick
  PROVE  WireQuiet
<1>1. wire \in [Ends -> Seq(Segment)] /\ "initiator" \in Ends /\ "target" \in Ends
  BY DEF TypeInv, Ends
<1>2. ASSUME NEW e \in Ends
      PROVE  /\ wire'[e] \in Seq(Segment) /\ DOMAIN wire'[e] = DOMAIN wire[e]
             /\ \A i \in DOMAIN wire[e] : wire'[e][i].kind = wire[e][i].kind
  <2>1. wire'[e] = [i \in DOMAIN wire[e] |-> [wire[e][i] EXCEPT !.left = @ - 1]]
    BY DEF Tick
  <2>2. \A s \in Segment : [s EXCEPT !.left = @ - 1] \in Segment /\ [s EXCEPT !.left = @ - 1].kind = s.kind
    BY DEF Segment
  <2>3. wire[e] \in Seq(Segment)
    BY <1>1
  <2>4. \A i \in DOMAIN wire[e] : wire[e][i] \in Segment
    BY <2>3
  <2>5. PICK n \in Nat : DOMAIN wire[e] = 1 .. n
    BY <2>3
  <2>6. PICK move : move = [s \in Segment |-> [s EXCEPT !.left = @ - 1]]
    OBVIOUS
  <2>7. \A s \in Segment : move[s] \in Segment /\ move[s].kind = s.kind
    BY <2>2, <2>6
  <2>8. wire'[e] = [i \in 1 .. n |-> move[wire[e][i]]]
    BY <2>1, <2>4, <2>5, <2>6
  <2> QED
    BY <2>4, <2>5, <2>7, <2>8
<1>3. DOMAIN wire' = Ends /\ wire' = [e \in Ends |-> wire'[e]]
  BY DEF Tick
<1> QED
  BY <1>1, <1>2, <1>3 DEF WireQuiet, OnWire

-----------------------------------------------------------------------------
(* The steps. *)

\* What a failed attempt does to the ends.
LEMMA AttemptFailing ==
  ASSUME EndType, NEW reason \in {"refused", "timeout"}, AttemptFails(reason)
  PROVE  EndStep /\ \A f \in Ends : result'[f] = Pass => result[f] = Pass
BY Failing, OutcomesObserved DEF AttemptFails, Returns, Ends

LEMMA QuietInitiator ==
  ASSUME TripInv, UNCHANGED <<net, test>>,
         \/ InitiatorStarts \/ Refused \/ Unreachable \/ ConnectTimeout \/ TriesAgain
         \/ Connected \/ InitiatorHandshake
  PROVE  Quiet
<1>0. TypeInv /\ EndType /\ "initiator" \in Ends
  BY DEF TripInv, TypeInv, Ends
<1>1. CASE InitiatorStarts \/ TriesAgain
  <2>1. EndStep /\ \A f \in Ends : result'[f] = Pass => result[f] = Pass
    BY <1>0, <1>1, Failing DEF InitiatorStarts, TriesAgain, EndStep, Starts
  <2>2. WireQuiet
    BY <1>0, <1>1, ConnectsFacts DEF InitiatorStarts, TriesAgain, WireQuiet, Ends, Telling
  <2> QED
    BY <2>1, <2>2 DEF Quiet, WireQuiet
<1>2. CASE Refused \/ Unreachable
  <2>1. EndStep /\ \A f \in Ends : result'[f] = Pass => result[f] = Pass
    BY <1>0, <1>2, AttemptFailing, Failing, OutcomesObserved DEF Refused, Unreachable, Returns
  <2>2. Answers("initiator", <<>>) /\ wire["initiator"] # <<>>
    BY <1>2 DEF Refused, Unreachable, Arrives
  <2>3. WireQuiet
    BY <1>0, <2>2, AnswersNothing
  <2> QED
    BY <2>1, <2>3 DEF Quiet, WireQuiet
<1>3. CASE ConnectTimeout
  <2>1. EndStep /\ \A f \in Ends : result'[f] = Pass => result[f] = Pass
    BY <1>0, <1>3, AttemptFailing DEF ConnectTimeout
  <2>2. WireQuiet
    BY <1>3, NothingLeft DEF ConnectTimeout
  <2> QED
    BY <2>1, <2>2 DEF Quiet, WireQuiet
<1>4. CASE Connected \/ InitiatorHandshake
  <2>1. EndStep /\ \A f \in Ends : result'[f] = Pass => result[f] = Pass
    BY <1>0, <1>4, Failing DEF Connected, InitiatorHandshake
  <2>2. PICK x \in {"ack", "finished"}, y \in {"hello", "request"} : Answers("initiator", <<x, y>>)
    BY <1>4 DEF Connected, InitiatorHandshake
  <2>3. x \in Kinds /\ y \in Kinds
    BY KindsAre
  <2>4. wire["initiator"] # <<>>
    BY <1>4 DEF Connected, InitiatorHandshake, Arrives
  <2>5. WireQuiet
    BY <1>0, <2>2, <2>3, <2>4, AnswersTwo
  <2> QED
    BY <2>1, <2>5 DEF Quiet, WireQuiet
<1> QED
  BY <1>1, <1>2, <1>3, <1>4

LEMMA QuietTarget ==
  ASSUME TripInv, UNCHANGED <<net, test>>,
         TargetStarts \/ BindFails \/ Syn \/ Accepts \/ TargetHandshake
  PROVE  Quiet
<1>0. TypeInv /\ EndType /\ "target" \in Ends
  BY DEF TripInv, TypeInv, Ends
<1>1. CASE TargetStarts \/ BindFails
  <2>1. EndStep /\ \A f \in Ends : result'[f] = Pass => result[f] = Pass
    <3>1. CASE TargetStarts
      BY <1>0, <3>1 DEF TargetStarts, EndStep, Starts
    <3>2. CASE BindFails
      BY <1>0, <3>2, OutcomesObserved DEF BindFails, Returns, EndStep, Finishes, EndType
    <3> QED
      BY <1>1, <3>1, <3>2
  <2>2. WireQuiet
    BY <1>0, <1>1, NothingLeft DEF TargetStarts, BindFails
  <2> QED
    BY <2>1, <2>2 DEF Quiet, WireQuiet
<1>2. CASE Syn \/ Accepts \/ TargetHandshake
  <2>1. EndStep /\ \A f \in Ends : result'[f] = Pass => result[f] = Pass
    BY <1>0, <1>2, Failing DEF Syn, Accepts, TargetHandshake
  <2>2. \/ Answers("target", <<>>)
        \/ \E x \in {"synack", "rst", "serverhello"} : Answers("target", <<x>>)
    BY <1>2 DEF Syn, Accepts, TargetHandshake
  <2>3. wire["target"] # <<>>
    BY <1>2 DEF Syn, Accepts, TargetHandshake, Arrives
  <2>4. WireQuiet
    <3>1. CASE Answers("target", <<>>)
      BY <1>0, <2>3, <3>1, AnswersNothing
    <3>2. ASSUME NEW x \in {"synack", "rst", "serverhello"}, Answers("target", <<x>>)
          PROVE  WireQuiet
      <4>1. x \in Kinds /\ x # "reply"
        BY KindsAre
      <4> QED
        BY <1>0, <2>3, <3>2, <4>1, AnswersOne
    <3> QED
      BY <2>2, <3>1, <3>2
  <2> QED
    BY <2>1, <2>4 DEF Quiet, WireQuiet
<1> QED
  BY <1>1, <1>2

LEMMA QuietBoth ==
  ASSUME TripInv, UNCHANGED <<net, test>>,
         \/ \E e \in Ends : PeerGone(e) \/ TimesOut(e) \/ CutShort(e) \/ Strays(e)
         \/ Reports
         \/ Tick
         \/ UNCHANGED <<timingVars, tcpVars>>
  PROVE  Quiet
<1>0. TypeInv /\ EndType
  BY DEF TripInv, TypeInv
<1>1. "eof" \in Kinds /\ "eof" # "reply"
  BY KindsAre
<1>2. ASSUME NEW e \in Ends, PeerGone(e) PROVE Quiet
  <2>1. EndStep /\ \A f \in Ends : result'[f] = Pass => result[f] = Pass
    BY <1>0, <1>2, Failing, OutcomesObserved DEF PeerGone, Returns
  <2>2. WireQuiet
    BY <1>0, <1>2, AnswersNothing DEF PeerGone, Arrives
  <2> QED
    BY <2>1, <2>2 DEF Quiet, WireQuiet
<1>3. ASSUME NEW e \in Ends, TimesOut(e) PROVE Quiet
  <2>1. EndStep /\ \A f \in Ends : result'[f] = Pass => result[f] = Pass
    BY <1>0, <1>3, Failing, OutcomesObserved DEF TimesOut, Returns
  <2>2. WireQuiet
    BY <1>0, <1>1, <1>3, AnswersOne, NothingLeft DEF TimesOut
  <2> QED
    BY <2>1, <2>2 DEF Quiet, WireQuiet
<1>4. ASSUME NEW e \in Ends, CutShort(e) PROVE Quiet
  <2>1. EndStep /\ \A f \in Ends : result'[f] = Pass => result[f] = Pass
    BY <1>0, <1>4, Failing, OutcomesObserved DEF CutShort, DeadlinePasses
  <2>2. WireQuiet
    BY <1>0, <1>1, <1>4, AnswersOne, NothingLeft DEF CutShort
  <2> QED
    BY <2>1, <2>2 DEF Quiet, WireQuiet
<1>5. ASSUME NEW e \in Ends, Strays(e) PROVE Quiet
  <2>1. EndStep /\ \A f \in Ends : result'[f] = Pass => result[f] = Pass
    BY <1>0, <1>5, Failing DEF Strays
  <2>2. wire[e] # <<>> /\ (Answers(e, <<>>) \/ Answers(e, <<"eof">>))
    BY <1>5 DEF Strays
  <2>3. WireQuiet
    BY <1>0, <1>1, <2>2, AnswersOne, AnswersNothing
  <2> QED
    BY <2>1, <2>3 DEF Quiet, WireQuiet
<1>6. CASE Reports \/ Tick \/ UNCHANGED <<timingVars, tcpVars>>
  <2>1. UNCHANGED <<phase, result>>
    BY <1>6 DEF Reports, ReadReport, GiveUp, Tick, TimingTick, timingVars
  <2>2. WireQuiet
    <3>1. Tick \/ UNCHANGED wire
      BY <1>6 DEF Reports, tcpVars
    <3> QED
      BY <1>0, <3>1, NothingLeft, TickMoves
  <2> QED
    BY <2>1, <2>2 DEF Quiet, WireQuiet, EndStep
<1> QED
  BY <1>2, <1>3, <1>4, <1>5, <1>6

\* The target echoes, or answers the query.
LEMMA TargetKeeps ==
  ASSUME TripInv, UNCHANGED <<net, test>>, Echoes \/ AnswersQuery
  PROVE  TripInv'
<1> DEFINE good == IF test = "dns" THEN Parses(QueryRead(Query, net.altered, net.part))
                   ELSE "request" \notin net.altered
<1>0. /\ TypeInv /\ EndType /\ NetType
      /\ "initiator" \in Ends /\ "target" \in Ends
  BY DEF TripInv, TypeInv, Ends
<1>1. wire["target"] # <<>> /\ OnWire("target", "request")
  <2>1. wire["target"] \in Seq(Segment) /\ wire["target"] # <<>> /\ Head(wire["target"]).kind = "request"
    BY <1>0 DEF Echoes, AnswersQuery, Arrives, TypeInv
  <2>2. 1 \in DOMAIN wire["target"] /\ Head(wire["target"]) = wire["target"][1]
    BY <2>1
  <2> QED
    BY <2>1, <2>2 DEF OnWire
<1>2. net.path = "open"
  BY <1>1 DEF TripInv, WireInv
<1>3. CASE ~good
  <2>1. \E r \in {"read", "differs", "dns"} : Finishes("target", Fail(r))
    BY <1>3 DEF Echoes, AnswersQuery, Returns
  <2>2. EndStep /\ \A f \in Ends : result'[f] = Pass => result[f] = Pass
    BY <1>0, <2>1, Failing, OutcomesObserved
  <2>3. Answers("target", <<"eof">>)
    BY <1>3 DEF Echoes, AnswersQuery
  <2>4. "eof" \in Kinds /\ "eof" # "reply"
    BY KindsAre
  <2>5. WireQuiet
    BY <1>0, <1>1, <2>3, <2>4, AnswersOne
  <2>6. Quiet
    BY <2>2, <2>5 DEF Quiet, WireQuiet
  <2> QED
    BY <2>6, QuietKeeps
<1>4. CASE good
  <2>1. Finishes("target", Pass) /\ Answers("target", <<"reply", "eof">>)
    BY <1>4 DEF Echoes, AnswersQuery, Returns
  <2>2. EndStep
    BY <1>0, <2>1, OutcomesObserved DEF EndStep
  <2>3. EndType' /\ \A f \in Ends : result[f] = Pass => result'[f] = Pass
    BY <1>0, <2>2, EndKept
  <2>4. result'["target"] = Pass /\ result'["initiator"] = result["initiator"]
    BY <1>0, <2>1 DEF Finishes, EndType
  <2>5. PICK kinds \in Seq(Kinds) : kinds = <<"reply", "eof">>
    <3>1. "reply" \in Kinds /\ "eof" \in Kinds
      BY KindsAre
    <3> QED
      BY <3>1, KindLists
  <2>6. Answers("target", kinds)
    BY <2>1, <2>5
  <2>7. wire' \in [Ends -> Seq(Segment)]
    BY <1>0, <1>1, <2>6, AnswersFacts
  <2>8. TypeInv'
    BY <1>0, <2>3, <2>7 DEF TypeInv, NetType
  <2>9. WireInv'
    BY <1>2, <2>4 DEF WireInv
  <2>10. "request" \in net.altered => test = "dns" /\ net.part # "form"
    <3>1. test = "dns" /\ "request" \in net.altered => net.part # "form"
      <4>1. \A m : Altered(m, "form") = [m EXCEPT !.kind = "garbage"]
        BY DEF Altered
      <4> QED
        BY <1>4, <4>1 DEF QueryRead, Parses, Query, build_dns_query
    <3> QED
      BY <1>4, <3>1
  <2>11. PassMeansRoundTrip'
    BY <1>2, <2>4, <2>10 DEF TripInv, PassMeansRoundTrip
  <2> QED
    BY <2>8, <2>9, <2>11 DEF TripInv
<1> QED
  BY <1>3, <1>4

\* What the target passed on could be parsed.
LEMMA QueryParsed ==
  ASSUME NEW altered, NEW part \in Parts, "request" \in altered => part # "form"
  PROVE  Parses(QueryRead(Query, altered, part))
<1>1. Query.kind = "query"
  BY DEF Query, build_dns_query
<1>2. CASE "request" \notin altered
  BY <1>1, <1>2 DEF QueryRead, Parses
<1>3. CASE "request" \in altered
  <2>1. \A p \in Parts : p # "form" => Altered(Query, p).kind # "garbage"
    BY DEF Altered, Query, build_dns_query, Parts
  <2> QED
    BY <1>3, <2>1 DEF QueryRead, Parses
<1> QED
  BY <1>2, <1>3

\* The initiator compares the reply, or validates the answer.
LEMMA InitiatorKeeps ==
  ASSUME TripInv, UNCHANGED <<net, test>>, Replied
  PROVE  TripInv'
<1> DEFINE outcome == IF test = "dns" THEN dns_tcp_initiator ELSE roundtrip
<1>0. /\ TypeInv /\ EndType /\ NetType
      /\ "initiator" \in Ends /\ "target" \in Ends
  BY DEF TripInv, TypeInv, Ends
<1>1. wire["initiator"] # <<>> /\ OnWire("initiator", "reply")
  <2>1. /\ wire["initiator"] \in Seq(Segment) /\ wire["initiator"] # <<>>
        /\ Head(wire["initiator"]).kind = "reply"
    BY <1>0 DEF Replied, Arrives, TypeInv
  <2>2. 1 \in DOMAIN wire["initiator"] /\ Head(wire["initiator"]) = wire["initiator"][1]
    BY <2>1
  <2> QED
    BY <2>1, <2>2 DEF OnWire
<1>2. net.path = "open" /\ result["target"] = Pass
  BY <1>1 DEF TripInv, WireInv
<1>3. Finishes("initiator", outcome) /\ Answers("initiator", <<"eof">>)
  BY DEF Replied, Returns
<1>4. WireQuiet
  <2>1. "eof" \in Kinds /\ "eof" # "reply"
    BY KindsAre
  <2> QED
    BY <1>0, <1>1, <1>3, <2>1, AnswersOne
<1>5. outcome = Pass \/ \E r \in {"dns", "read", "mismatch"} : outcome = Fail(r)
  BY DEF dns_tcp_initiator, roundtrip
<1>6. CASE \E r \in {"dns", "read", "mismatch"} : outcome = Fail(r)
  <2>1. EndStep /\ \A f \in Ends : result'[f] = Pass => result[f] = Pass
    BY <1>0, <1>3, <1>6, Failing, OutcomesObserved
  <2>2. Quiet
    BY <1>4, <2>1 DEF Quiet, WireQuiet
  <2> QED
    BY <2>2, QuietKeeps
<1>7. CASE outcome = Pass
  <2>1. EndStep
    BY <1>0, <1>3, <1>7, OutcomesObserved DEF EndStep
  <2>2. EndType' /\ \A f \in Ends : result[f] = Pass => result'[f] = Pass
    BY <1>0, <2>1, EndKept
  <2>3. TypeInv'
    BY <1>0, <1>4, <2>2 DEF TypeInv, NetType, WireQuiet
  <2>4. result'["target"] = Pass
    BY <1>0, <1>2, <2>2
  <2>5. IF test = "dns" THEN Unseen(net.altered, net.part) ELSE net.altered = {}
    <3>1. CASE test # "dns"
      BY <1>7, <3>1, OutcomesObserved DEF roundtrip
    <3>2. CASE test = "dns"
      <4>1. validate_dns_response(Query, ResponseRead(Query, net.altered, net.part))
        BY <1>7, <3>2, OutcomesObserved DEF dns_tcp_initiator
      <4>2. Parses(QueryRead(Query, net.altered, net.part))
        BY <1>0, <1>2, QueryParsed DEF TripInv, PassMeansRoundTrip, NetType
      <4> QED
        BY <1>0, <3>2, <4>1, <4>2, AnswerUnseen DEF NetType
    <3> QED
      BY <3>1, <3>2
  <2>6. WireInv'
    BY <1>2, <2>4 DEF WireInv
  <2>7. PassMeansRoundTrip'
    BY <1>2, <2>4, <2>5 DEF TripInv, PassMeansRoundTrip
  <2> QED
    BY <2>3, <2>6, <2>7 DEF TripInv
<1> QED
  BY <1>5, <1>6, <1>7

LEMMA TripInvInit ==
  ASSUME Init
  PROVE  TripInv
<1>1. EndType
  BY OutcomesObserved DEF Init, TimingInit, EndType, Over
<1>2. NetType
  BY DEF Init, NetType
<1>3. wire = [e \in Ends |-> <<>>]
  BY DEF Init
<1>4. TypeInv
  BY <1>1, <1>2, <1>3 DEF TypeInv
<1>5. \A e \in Ends : result[e] # Pass
  BY OutcomesObserved DEF Init, TimingInit
<1> QED
  BY <1>3, <1>4, <1>5 DEF TripInv, WireInv, PassMeansRoundTrip, OnWire, Ends

LEMMA TripInvKept ==
  ASSUME TripInv, [Next]_vars
  PROVE  TripInv'
<1>1. UNCHANGED <<net, test>>
  BY DEF Next, vars
<1>2. CASE \/ InitiatorStarts \/ Refused \/ Unreachable \/ ConnectTimeout \/ TriesAgain
           \/ Connected \/ InitiatorHandshake
  BY <1>1, <1>2, QuietInitiator, QuietKeeps
<1>3. CASE TargetStarts \/ BindFails \/ Syn \/ Accepts \/ TargetHandshake
  BY <1>1, <1>3, QuietTarget, QuietKeeps
<1>4. CASE \/ \E e \in Ends : PeerGone(e) \/ TimesOut(e) \/ CutShort(e) \/ Strays(e)
           \/ Reports
           \/ Tick
           \/ UNCHANGED <<timingVars, tcpVars>>
  BY <1>1, <1>4, QuietBoth, QuietKeeps
<1>5. CASE Echoes \/ AnswersQuery
  BY <1>1, <1>5, TargetKeeps
<1>6. CASE Replied
  BY <1>1, <1>6, InitiatorKeeps
<1> QED
  BY <1>2, <1>3, <1>4, <1>5, <1>6 DEF Next, Steps, vars

\* A PASS of an end (roundtrip, echo, the dns test's ends) is a round trip on an
\* open path: the initiator's comes after the target's, and nothing either looks
\* at was altered, whatever the delays, and whatever times out.
THEOREM PassesAreRoundTrips == Spec => []PassMeansRoundTrip
<1>1. TripInv /\ [Next]_vars => TripInv'
  BY TripInvKept
<1>2. Init => TripInv
  BY TripInvInit
<1>3. TripInv => PassMeansRoundTrip
  BY DEF TripInv
<1> QED
  BY <1>1, <1>2, <1>3, PTL DEF Spec

-----------------------------------------------------------------------------
(* The course of a test that nothing disturbs: where its two ends are and  *)
(* what is on the wire between them, by what time at the latest.  now is   *)
(* the time since the client's start, which the ends' deadlines tell.      *)

Undisturbed == net.path = "open" /\ net.altered = {} /\ ~net.occupied /\ InTime

StartOf(e) == IF e = client THEN 0 ELSE delay
Clock(now) ==
  \A e \in Ends :
    /\ phase[e] = "idle" => left[e] = StartOf(e) - now
    /\ phase[e] = "running" => now >= StartOf(e) /\ left[e] = StartOf(e) + Allowed(test) - now

\* When the last attempt to connect is made at the latest: after the pause that
\* follows the refusal that the target's start was too late for.
LastConnect == delay + Retry + Latency

Seg(kind, x) == [kind |-> kind, left |-> x]
Wires(toTarget, toInitiator) == wire["target"] = toTarget /\ wire["initiator"] = toInitiator
Waits(e, what, ticks) == Awaiting(e, what) /\ timer[e] >= ticks
Accepting(now) ==
  Awaiting("target", "accept") /\ timer["target"] = StartOf("target") + timeout - now
Listening(now) == phase["target"] = "idle" \/ Accepting(now)
Attempting(now) ==
  attempt \in 1 .. Attempts /\ now >= StartOf("initiator") + (attempt - 1) * Retry

\* The initiator has not started.
Idle(now) ==
  /\ phase["initiator"] = "idle" /\ attempt = 0
  /\ Listening(now) /\ Wires(<<>>, <<>>)
\* An attempt to connect is on its way to the target, for x more ticks at most.
Asking(now, x) ==
  /\ Waits("initiator", "connect", timeout - Latency + x) /\ Attempting(now)
  /\ Listening(now) /\ Wires(<<Seg("syn", x)>>, <<>>)
  /\ now + x <= LastConnect + Latency
\* It has been refused: by a target that has not bound its port yet.
TurnedAway(now, x) ==
  /\ Waits("initiator", "connect", timeout - 2 * Latency + x) /\ Attempting(now)
  /\ attempt < Attempts
  /\ Listening(now) /\ Wires(<<>>, <<Seg("rst", x)>>)
  /\ now + x <= StartOf("target") + Latency
\* The initiator pauses before the next attempt.
Resting(now) ==
  /\ Awaiting("initiator", "sleep") /\ attempt \in 1 .. Attempts - 1
  /\ timer["initiator"] \in Nat
  /\ now + timer["initiator"] >= StartOf("initiator") + attempt * Retry
  /\ now + timer["initiator"] <= LastConnect
  /\ Listening(now) /\ Wires(<<>>, <<>>)
\* The target's listener has answered.
Welcomed(now, x) ==
  /\ Waits("initiator", "connect", timeout - 2 * Latency + x)
  /\ Accepting(now) /\ Wires(<<>>, <<Seg("synack", x)>>)
  /\ now + x <= LastConnect + 2 * Latency
\* The initiator is connected, and has sent what comes first.
Acknowledged(now, x) ==
  /\ Waits("initiator", IF test = "tls" THEN "handshake" ELSE "read", timeout - Latency + x)
  /\ Accepting(now)
  /\ Wires(<<Seg("ack", x), Seg(IF test = "tls" THEN "hello" ELSE "request", x)>>, <<>>)
  /\ now + x <= LastConnect + 3 * Latency
\* The handshake: each end waits for the other's flight.
Greeting(now, x) ==
  /\ test = "tls"
  /\ Waits("initiator", "handshake", timeout - Latency + x)
  /\ Waits("target", "handshake", timeout - Latency + x)
  /\ Wires(<<Seg("hello", x)>>, <<>>)
  /\ now + x <= LastConnect + 3 * Latency
Greeted(now, x) ==
  /\ test = "tls"
  /\ Waits("initiator", "handshake", timeout - 2 * Latency + x)
  /\ Waits("target", "handshake", timeout - 2 * Latency + x)
  /\ Wires(<<>>, <<Seg("serverhello", x)>>)
  /\ now + x <= LastConnect + 4 * Latency
Secured(now, x) ==
  /\ test = "tls"
  /\ Waits("initiator", "read", timeout - Latency + x)
  /\ Waits("target", "handshake", timeout - 3 * Latency + x)
  /\ Wires(<<Seg("finished", x), Seg("request", x)>>, <<>>)
  /\ now + x <= LastConnect + 5 * Latency
\* The payload, or the query, is on its way to the target.
Requested(now, x) ==
  /\ Waits("initiator", "read", timeout - Latency + x)
  /\ Waits("target", "read", timeout - Latency + x)
  /\ Wires(<<Seg("request", x)>>, <<>>)
  /\ now + x <= LastConnect + (Flights - 2) * Latency
\* The target has passed, its reply is on its way.
Replying(now, x) ==
  /\ Waits("initiator", "read", timeout - 2 * Latency + x)
  /\ phase["target"] = "over" /\ result["target"] = Pass
  /\ Wires(<<>>, <<Seg("reply", x), Seg("eof", x)>>)
  /\ now + x <= LastConnect + (Flights - 1) * Latency
\* Both ends have passed.
Through == \A e \in Ends : phase[e] = "over" /\ result[e] = Pass

Course(now) ==
  \/ Idle(now) \/ Resting(now) \/ Through
  \/ \E x \in 0 .. Latency :
       \/ Asking(now, x) \/ TurnedAway(now, x) \/ Welcomed(now, x) \/ Acknowledged(now, x)
       \/ Greeting(now, x) \/ Greeted(now, x) \/ Secured(now, x)
       \/ Requested(now, x) \/ Replying(now, x)

\* The invariant: the test is in one of these situations.
OnCourse == Undisturbed => \E now \in Nat : Clock(now) /\ Course(now)

Awaited == {None, "connect", "sleep", "handshake", "read", "accept", "bind"}
\* The types of what the times depend on.
TimesType ==
  /\ client \in Ends /\ timeout \in Nat \ {0} /\ delay \in Nat
  /\ left \in [Ends -> Nat]
  /\ stage \in [Ends -> Awaited]
  /\ timer \in [Ends -> Int]
  /\ attempt \in Nat

LEMMA TheEnds ==
  /\ "initiator" \in Ends /\ "target" \in Ends
  /\ \A e \in Ends : e = "initiator" \/ e = "target"
  /\ \A e \in Ends : Other(e) \in Ends /\ Other(e) # e
BY OtherEnd DEF Ends

\* The amounts of time.
LEMMA Amounts ==
  ASSUME TimesType
  PROVE  /\ Second \in Nat /\ Retry \in Nat /\ Retry > 0 /\ Second = 10 * Retry
         /\ Latency \in Nat /\ Deadline \in Nat /\ Allowed(test) \in Nat /\ ReportWait \in Nat
         /\ LastConnect \in Nat
         /\ \A e \in Ends : StartOf(e) \in Nat /\ StartOf(e) <= delay
         /\ StartOf("initiator") + StartOf("target") = delay
<1>1. Second \in Nat \ {0} /\ Second % 10 = 0 /\ Latency \in Nat
  BY TimingAssumption, TcpAssumption
<1>2. Retry \in Nat /\ Retry > 0 /\ Second = 10 * Retry
  BY <1>1 DEF Retry
<1>3. Deadline \in Nat /\ Allowed(test) \in Nat /\ ReportWait \in Nat
  BY <1>1 DEF TimesType, Deadline, Allowed, ReportWait
<1>4. \A e \in Ends : StartOf(e) \in Nat /\ StartOf(e) <= delay
  BY DEF TimesType, StartOf
<1>5. StartOf("initiator") + StartOf("target") = delay
  BY DEF TimesType, StartOf, Ends
<1> QED BY <1>1, <1>2, <1>3, <1>4, <1>5 DEF LastConnect, TimesType

\* What InTime says of a test.
LEMMA Margins ==
  ASSUME TimesType, InTime
  PROVE  /\ Flights = (IF test = "tls" THEN 7 ELSE 5)
         /\ LastConnect + (Flights - 1) * Latency < Allowed(test)
         /\ StartOf("initiator") + Retry + 4 * Latency < timeout + StartOf("target")
         /\ LastConnect + 3 * Latency < timeout + StartOf("target")
         /\ Retry + 4 * Latency < timeout
         /\ StartOf("target") - StartOf("initiator") < 19 * Retry
<1>1. /\ Retry \in Nat /\ Second = 10 * Retry /\ Latency \in Nat /\ Allowed(test) \in Nat
      /\ Retry > 0 /\ delay \in Nat /\ timeout \in Nat
  BY Amounts DEF TimesType
<1>2. Flights = (IF test = "tls" THEN 7 ELSE 5)
  BY DEF Flights
<1>3. LastConnect + (Flights - 1) * Latency < Allowed(test)
  BY <1>1, <1>2 DEF InTime, LastConnect
<1>4. CASE client = "initiator"
  <2>1. StartOf("initiator") = 0 /\ StartOf("target") = delay
    BY <1>4 DEF StartOf
  <2> QED BY <1>1, <1>2, <1>3, <1>4, <2>1 DEF InTime, LastConnect
<1>5. CASE client = "target"
  <2>1. StartOf("initiator") = delay /\ StartOf("target") = 0
    BY <1>5 DEF StartOf
  <2> QED BY <1>1, <1>2, <1>3, <1>5, <2>1 DEF InTime, LastConnect
<1> QED BY <1>4, <1>5 DEF TimesType, Ends

\* What a step does not change.
Fixed == UNCHANGED <<net, test, client, timeout, delay>>

LEMMA FixedHere ==
  ASSUME Fixed
  PROVE  /\ Allowed(test)' = Allowed(test) /\ Flights' = Flights /\ LastConnect' = LastConnect
         /\ StartOf("initiator")' = StartOf("initiator") /\ StartOf("target")' = StartOf("target")
         /\ Undisturbed' = Undisturbed
BY DEF Fixed, Allowed, Deadline, Flights, LastConnect, StartOf, Undisturbed, InTime

-----------------------------------------------------------------------------
(* The wire. *)

LEMMA SegmentsSent ==
  ASSUME net.path = "open"
  PROVE  /\ Segments(<<>>) = <<>>
         /\ \A k : Segments(<<k>>) = <<Seg(k, Latency)>>
         /\ \A k, l : Segments(<<k, l>>) = <<Seg(k, Latency), Seg(l, Latency)>>
<1>1. \A kinds : Carried(kinds) = Len(kinds)
  BY DEF Carried
<1>2. Segments(<<>>) = <<>>
  <2>1. Carried(<<>>) = 0
    BY <1>1
  <2> QED BY <2>1 DEF Segments
<1>3. ASSUME NEW k PROVE Segments(<<k>>) = <<Seg(k, Latency)>>
  <2>1. PICK kinds : kinds = <<k>>
    OBVIOUS
  <2>2. Carried(kinds) = 1 /\ kinds[1] = k
    BY <1>1, <2>1
  <2>3. Segments(kinds) = [i \in 1 .. 1 |-> Seg(k, Latency)]
    BY <2>2 DEF Segments, Seg
  <2> QED BY <2>1, <2>3
<1>4. ASSUME NEW k, NEW l PROVE Segments(<<k, l>>) = <<Seg(k, Latency), Seg(l, Latency)>>
  <2>1. PICK kinds : kinds = <<k, l>>
    OBVIOUS
  <2>2. Carried(kinds) = 2 /\ kinds[1] = k /\ kinds[2] = l
    BY <1>1, <2>1
  <2>3. Segments(kinds) = [i \in 1 .. 2 |-> Seg(kinds[i], Latency)]
    BY <2>2 DEF Segments, Seg
  <2>4. PICK a, b : a = Seg(k, Latency) /\ b = Seg(l, Latency)
    OBVIOUS
  <2>5. Segments(kinds) = [i \in 1 .. 2 |-> IF i = 1 THEN a ELSE b]
    BY <2>2, <2>3, <2>4
  <2>6. [i \in 1 .. 2 |-> IF i = 1 THEN a ELSE b] = <<a, b>>
    OBVIOUS
  <2> QED BY <2>1, <2>4, <2>5, <2>6
<1> QED BY <1>2, <1>3, <1>4

\* An end takes the only segment on the wire, and answers with none, one or two.
LEMMA AnswersOnly ==
  ASSUME TypeInv, net.path = "open", NEW e \in Ends, NEW f \in Ends, f # e,
         NEW a, wire[e] = <<a>>, wire[f] = <<>>
  PROVE  /\ Answers(e, <<>>) => wire'[e] = <<>> /\ wire'[f] = <<>>
         /\ \A k : Answers(e, <<k>>) => wire'[e] = <<>> /\ wire'[f] = <<Seg(k, Latency)>>
         /\ \A k, l : Answers(e, <<k, l>>) =>
              wire'[e] = <<>> /\ wire'[f] = <<Seg(k, Latency), Seg(l, Latency)>>
<1>1. Other(e) = f
  BY TheEnds
<1>2. wire \in [Ends -> Seq(Segment)]
  BY DEF TypeInv
<1>3. ASSUME NEW kinds, Answers(e, kinds)
      PROVE  wire'[e] = Tail(<<a>>) /\ wire'[f] = <<>> \o Segments(kinds)
  BY <1>1, <1>2, <1>3 DEF Answers
<1>4. Tail(<<a>>) = <<>>
  OBVIOUS
<1>5. \A x : <<>> \o <<x>> = <<x>>
  OBVIOUS
<1>6. \A x, y : <<>> \o <<x, y>> = <<x, y>>
  OBVIOUS
<1>7. <<>> \o <<>> = <<>>
  OBVIOUS
<1> QED BY <1>3, <1>4, <1>5, <1>6, <1>7, SegmentsSent

\* An end takes the first of two segments and does not answer.
LEMMA TakesFirst ==
  ASSUME TypeInv, net.path = "open", NEW e \in Ends, NEW f \in Ends, f # e,
         NEW a, NEW b, wire[e] = <<a, b>>, wire[f] = <<>>, Answers(e, <<>>)
  PROVE  wire'[e] = <<b>> /\ wire'[f] = <<>>
<1>1. Other(e) = f
  BY TheEnds
<1>2. wire \in [Ends -> Seq(Segment)]
  BY DEF TypeInv
<1>3. wire'[e] = Tail(<<a, b>>) /\ wire'[f] = <<>> \o Segments(<<>>)
  BY <1>1, <1>2 DEF Answers
<1>4. Tail(<<a, b>>) = <<b>>
  OBVIOUS
<1>5. <<>> \o <<>> = <<>>
  OBVIOUS
<1> QED BY <1>3, <1>4, <1>5, SegmentsSent

\* What is next on the wire to an end.
LEMMA HeadIs ==
  ASSUME NEW k, NEW x, NEW y
  PROVE  /\ <<Seg(k, x)>> # <<>> /\ Head(<<Seg(k, x)>>).kind = k
         /\ <<Seg(k, x), y>> # <<>> /\ Head(<<Seg(k, x), y>>).kind = k
<1>1. PICK a : a = Seg(k, x)
  OBVIOUS
<1>2. a.kind = k
  BY <1>1 DEF Seg
<1>3. <<a>> # <<>> /\ Head(<<a>>) = a /\ <<a, y>> # <<>> /\ Head(<<a, y>>) = a
  OBVIOUS
<1> QED BY <1>1, <1>2, <1>3

\* What is on the wire gets closer with each tick.
LEMMA TickWire ==
  ASSUME TypeInv, Tick, NEW e \in Ends
  PROVE  /\ wire[e] = <<>> => wire'[e] = <<>>
         /\ \A k, x : x \in Int /\ wire[e] = <<Seg(k, x)>> => x > 0 /\ wire'[e] = <<Seg(k, x - 1)>>
         /\ \A k, l, x : x \in Int /\ wire[e] = <<Seg(k, x), Seg(l, x)>> =>
              x > 0 /\ wire'[e] = <<Seg(k, x - 1), Seg(l, x - 1)>>
<1>1. /\ wire'[e] = [i \in DOMAIN wire[e] |-> [wire[e][i] EXCEPT !.left = @ - 1]]
      /\ wire[e] # <<>> => Head(wire[e]).left > 0
  BY DEF Tick
<1>2. wire[e] = <<>> => wire'[e] = <<>>
  BY <1>1
<1>3. \A k, x : [Seg(k, x) EXCEPT !.left = @ - 1] = Seg(k, x - 1) /\ Seg(k, x).left = x
  BY DEF Seg
<1>4. ASSUME NEW k, NEW x \in Int, wire[e] = <<Seg(k, x)>>
      PROVE  x > 0 /\ wire'[e] = <<Seg(k, x - 1)>>
  <2>1. PICK a, b : a = Seg(k, x) /\ b = Seg(k, x - 1)
    OBVIOUS
  <2>2. <<a>> # <<>> /\ Head(<<a>>) = a /\ DOMAIN <<a>> = {1} /\ <<a>>[1] = a
    OBVIOUS
  <2>3. wire'[e] = [i \in {1} |-> b]
    BY <1>1, <1>3, <1>4, <2>1, <2>2
  <2>4. [i \in {1} |-> b] = <<b>>
    OBVIOUS
  <2> QED BY <1>1, <1>3, <1>4, <2>1, <2>2, <2>3, <2>4
<1>5. ASSUME NEW k, NEW l, NEW x \in Int, wire[e] = <<Seg(k, x), Seg(l, x)>>
      PROVE  x > 0 /\ wire'[e] = <<Seg(k, x - 1), Seg(l, x - 1)>>
  <2>1. PICK a, b, c, d : a = Seg(k, x) /\ b = Seg(k, x - 1) /\ c = Seg(l, x) /\ d = Seg(l, x - 1)
    OBVIOUS
  <2>2. /\ <<a, c>> # <<>> /\ Head(<<a, c>>) = a /\ DOMAIN <<a, c>> = 1 .. 2
        /\ <<a, c>>[1] = a /\ <<a, c>>[2] = c
    OBVIOUS
  <2>3. wire'[e] = [i \in 1 .. 2 |-> IF i = 1 THEN b ELSE d]
    BY <1>1, <1>3, <1>5, <2>1, <2>2
  <2>4. [i \in 1 .. 2 |-> IF i = 1 THEN b ELSE d] = <<b, d>>
    OBVIOUS
  <2> QED BY <1>1, <1>3, <1>5, <2>1, <2>2, <2>3, <2>4
<1> QED BY <1>2, <1>4, <1>5
-----------------------------------------------------------------------------
(* The clock. *)

\* The network, the test and its settings stay.
LEMMA StepIsFixed == ASSUME [Next]_vars PROVE Fixed
<1>1. CASE UNCHANGED vars
  BY <1>1 DEF vars, timingVars, Fixed
<1>2. CASE Next
  <2>1. UNCHANGED <<net, test>>
    BY <1>2 DEF Next
  <2>2. CASE Steps
    BY <2>1, <2>2 DEF Steps, Fixed, setup, timingVars,
       InitiatorStarts, Refused, Unreachable, ConnectTimeout, TriesAgain, AttemptFails,
       Connected, InitiatorHandshake, Replied, TargetStarts, BindFails, Syn, Accepts,
       TargetHandshake, Echoes, AnswersQuery, PeerGone, TimesOut, CutShort, Strays, Reports,
       Starts, Returns, Finishes, DeadlinePasses, ReadReport, GiveUp
  <2>3. CASE Tick
    BY <2>1, <2>3 DEF Tick, TimingTick, Fixed, setup
  <2>4. CASE UNCHANGED timingVars
    BY <2>1, <2>4 DEF Fixed, timingVars
  <2> QED BY <1>2, <2>2, <2>3, <2>4 DEF Next
<1> QED BY <1>1, <1>2

\* The starts and deadlines of the ends go on telling the time: when an end starts,
LEMMA ClockStarts ==
  ASSUME TypeInv, TimesType, Fixed, NEW now \in Nat, Clock(now),
         NEW e \in Ends, Starts(e, Allowed(test))
  PROVE  /\ Clock(now)' /\ now = StartOf(e) /\ phase[e] = "idle"
         /\ phase'[e] = "running" /\ left' \in [Ends -> Nat]
         /\ \A f \in Ends : f # e => phase'[f] = phase[f]
<1>1. /\ phase \in [Ends -> {"idle", "running", "over"}] /\ left \in [Ends -> Nat]
      /\ StartOf(e) \in Nat /\ Allowed(test) \in Nat
  BY Amounts DEF TypeInv, EndType, TimesType
<1>2. /\ phase[e] = "idle" /\ left[e] = 0
      /\ phase' = [phase EXCEPT ![e] = "running"]
      /\ left' = [left EXCEPT ![e] = Allowed(test)]
  BY DEF Starts
<1>3. now = StartOf(e)
  BY <1>1, <1>2 DEF Clock
<1>4. \A f \in Ends : StartOf(f)' = StartOf(f)
  BY FixedHere, TheEnds
<1>5. Allowed(test)' = Allowed(test)
  BY FixedHere
<1>6. ASSUME NEW f \in Ends
      PROVE  /\ phase'[f] = "idle" => left'[f] = StartOf(f) - now
             /\ phase'[f] = "running" => now >= StartOf(f) /\ left'[f] = StartOf(f) + Allowed(test) - now
  <2>1. CASE f = e
    BY <1>1, <1>2, <1>3, <2>1
  <2>2. CASE f # e
    BY <1>1, <1>2, <2>2 DEF Clock
  <2> QED BY <2>1, <2>2
<1>7. Clock(now)'
  BY <1>4, <1>5, <1>6 DEF Clock
<1> QED BY <1>1, <1>2, <1>3, <1>7

\* ... when it finishes,
LEMMA ClockFinishes ==
  ASSUME TypeInv, TimesType, Fixed, NEW now \in Nat, Clock(now),
         NEW e \in Ends, NEW o, Finishes(e, o)
  PROVE  /\ Clock(now)' /\ phase'[e] = "over" /\ result'[e] = o /\ left' \in [Ends -> Nat]
         /\ \A f \in Ends : f # e => phase'[f] = phase[f] /\ result'[f] = result[f]
<1>1. /\ phase \in [Ends -> {"idle", "running", "over"}] /\ left \in [Ends -> Nat]
      /\ DOMAIN result = Ends /\ ReportWait \in Nat /\ delay \in Nat
  BY Amounts DEF TypeInv, EndType, TimesType
<1>2. /\ phase' = [phase EXCEPT ![e] = "over"]
      /\ result' = [result EXCEPT ![e] = o]
      /\ left' = [left EXCEPT ![e] = IF e = client THEN ReportWait ELSE delay]
  BY DEF Finishes
<1>3. \A f \in Ends : StartOf(f)' = StartOf(f)
  BY FixedHere, TheEnds
<1>4. Allowed(test)' = Allowed(test)
  BY FixedHere
<1>5. ASSUME NEW f \in Ends
      PROVE  /\ phase'[f] = "idle" => left'[f] = StartOf(f) - now
             /\ phase'[f] = "running" => now >= StartOf(f) /\ left'[f] = StartOf(f) + Allowed(test) - now
  <2>1. CASE f = e
    BY <1>1, <1>2, <2>1
  <2>2. CASE f # e
    BY <1>1, <1>2, <2>2 DEF Clock
  <2> QED BY <2>1, <2>2
<1>6. Clock(now)'
  BY <1>3, <1>4, <1>5 DEF Clock
<1> QED BY <1>1, <1>2, <1>6

\* ... in a step of neither,
LEMMA ClockStands ==
  ASSUME Fixed, NEW now \in Nat, Clock(now), UNCHANGED <<phase, left>>
  PROVE  Clock(now)'
<1>1. \A f \in Ends : StartOf(f)' = StartOf(f)
  BY FixedHere, TheEnds
<1>2. Allowed(test)' = Allowed(test)
  BY FixedHere
<1> QED BY <1>1, <1>2 DEF Clock, Fixed

\* ... and with a tick.
LEMMA ClockTicks ==
  ASSUME TypeInv, TimesType, Fixed, NEW now \in Nat, Clock(now), Tick
  PROVE  /\ Clock(now + 1)' /\ left' \in [Ends -> Nat]
         /\ UNCHANGED <<phase, stage, result, attempt>>
         /\ \A e \in Ends : phase[e] # "over" => left[e] > 0
         /\ \A e \in Ends : phase[e] = "running" => timer'[e] = timer[e] - 1 /\ timer[e] > 0
<1>1. /\ phase \in [Ends -> {"idle", "running", "over"}] /\ left \in [Ends -> Nat]
      /\ \A e \in Ends : StartOf(e) \in Nat /\ Allowed(test) \in Nat
  BY Amounts DEF TypeInv, EndType, TimesType
<1>2. /\ UNCHANGED <<phase, stage, result, attempt>>
      /\ \A e \in Ends : left[e] > 0 \/ phase[e] = "over"
      /\ left' = [e \in Ends |-> IF left[e] > 0 THEN left[e] - 1 ELSE 0]
      /\ timer' = [e \in Ends |-> IF phase[e] = "running" THEN timer[e] - 1 ELSE 0]
      /\ \A e \in Ends : phase[e] = "running" => timer[e] > 0
  BY DEF Tick, TimingTick, Over, Running
<1>3. \A f \in Ends : StartOf(f)' = StartOf(f)
  BY FixedHere, TheEnds
<1>4. Allowed(test)' = Allowed(test)
  BY FixedHere
<1>5. ASSUME NEW f \in Ends
      PROVE  /\ phase'[f] = "idle" => left'[f] = StartOf(f) - (now + 1)
             /\ phase'[f] = "running" =>
                  now + 1 >= StartOf(f) /\ left'[f] = StartOf(f) + Allowed(test) - (now + 1)
  BY <1>1, <1>2 DEF Clock
<1>6. Clock(now + 1)'
  BY <1>3, <1>4, <1>5 DEF Clock
<1> QED BY <1>1, <1>2, <1>6

-----------------------------------------------------------------------------
(* The steps, by what they need. *)


\* The steps of a test nothing goes wrong with.
Moves ==
  \/ InitiatorStarts \/ TargetStarts \/ Syn \/ Refused \/ TriesAgain \/ Connected \/ Accepts
  \/ InitiatorHandshake \/ TargetHandshake \/ Echoes \/ AnswersQuery \/ Replied

\* Nothing goes wrong with an end now.
Calm(e) ==
  /\ Running(e) => /\ left[e] > 0 /\ stage[e] # "bind" /\ ~Arrives(e, "eof") /\ ~Arrives(e, "icmp")
                   /\ stage[e] # "sleep" => timer[e] > 0
  /\ wire[e] # <<>> => Arrives(e, "syn") \/ (Running(e) /\ stage[e] \notin {"sleep", "bind"})

LEMMA CalmMoves ==
  ASSUME Steps, \A e \in Ends : Calm(e)
  PROVE  Moves \/ Reports
<1>1. ~Unreachable /\ ~ConnectTimeout
  BY TheEnds DEF Unreachable, ConnectTimeout, Calm, Awaiting, Expired
<1>2. ~BindFails
  BY TheEnds DEF BindFails, Awaiting, Calm
<1>3. ASSUME NEW e \in Ends
      PROVE  ~PeerGone(e) /\ ~TimesOut(e) /\ ~CutShort(e) /\ ~Strays(e)
  <2>1. Calm(e)
    OBVIOUS
  <2>2. ~PeerGone(e)
    BY <2>1 DEF PeerGone, Awaiting, Calm
  <2>3. ~TimesOut(e)
    BY <2>1 DEF TimesOut, Expired, Awaiting, Calm
  <2>4. ~CutShort(e)
    BY <2>1 DEF CutShort, DeadlinePasses, Calm
  <2>5. ~Strays(e)
    BY <2>1 DEF Strays, Calm, Arrives
  <2> QED BY <2>2, <2>3, <2>4, <2>5
<1> QED BY <1>1, <1>2, <1>3 DEF Steps, Moves

\* What a move takes.
LEMMA MovesTake ==
  /\ InitiatorStarts => phase["initiator"] = "idle"
  /\ TargetStarts => phase["target"] = "idle"
  /\ Refused => Awaiting("initiator", "connect") /\ Arrives("initiator", "rst")
  /\ TriesAgain => Awaiting("initiator", "sleep")
  /\ Connected => Awaiting("initiator", "connect") /\ Arrives("initiator", "synack")
  /\ InitiatorHandshake => Awaiting("initiator", "handshake") /\ Arrives("initiator", "serverhello")
  /\ Replied => Awaiting("initiator", "read") /\ Arrives("initiator", "reply")
  /\ Syn => Arrives("target", "syn")
  /\ Accepts => Awaiting("target", "accept") /\ Arrives("target", "ack")
  /\ TargetHandshake => /\ Awaiting("target", "handshake")
                        /\ Arrives("target", "hello") \/ Arrives("target", "finished")
  /\ Echoes => Awaiting("target", "read") /\ Arrives("target", "request")
  /\ AnswersQuery => Awaiting("target", "read") /\ Arrives("target", "request")
<1>1. /\ InitiatorStarts => phase["initiator"] = "idle"
      /\ TargetStarts => phase["target"] = "idle"
  BY DEF InitiatorStarts, TargetStarts, Starts
<1>5. /\ Refused => Awaiting("initiator", "connect") /\ Arrives("initiator", "rst")
      /\ TriesAgain => Awaiting("initiator", "sleep")
      /\ Connected => Awaiting("initiator", "connect") /\ Arrives("initiator", "synack")
      /\ InitiatorHandshake => Awaiting("initiator", "handshake") /\ Arrives("initiator", "serverhello")
      /\ Replied => Awaiting("initiator", "read") /\ Arrives("initiator", "reply")
  BY DEF Refused, TriesAgain, Connected, InitiatorHandshake, Replied, Expired, Awaiting
<1>6. /\ Syn => Arrives("target", "syn")
      /\ Accepts => Awaiting("target", "accept") /\ Arrives("target", "ack")
      /\ TargetHandshake => /\ Awaiting("target", "handshake")
                            /\ Arrives("target", "hello") \/ Arrives("target", "finished")
      /\ Echoes => Awaiting("target", "read") /\ Arrives("target", "request")
      /\ AnswersQuery => Awaiting("target", "read") /\ Arrives("target", "request")
  BY DEF Syn, Accepts, TargetHandshake, Echoes, AnswersQuery
<1> QED BY <1>1, <1>5, <1>6

-----------------------------------------------------------------------------
(* The types of the times. *)

LEMMA TimesKept ==
  ASSUME TypeInv, TimesType, [Next]_vars
  PROVE  TimesType'
<1>1. Fixed
  BY StepIsFixed
<1>2. /\ client \in Ends /\ timeout \in Nat \ {0} /\ delay \in Nat /\ left \in [Ends -> Nat]
      /\ stage \in [Ends -> Awaited] /\ timer \in [Ends -> Int] /\ attempt \in Nat
      /\ Retry \in Nat /\ ReportWait \in Nat /\ Allowed(test) \in Nat
  BY Amounts DEF TimesType
<1>3. client' \in Ends /\ timeout' \in Nat \ {0} /\ delay' \in Nat
  BY <1>1, <1>2 DEF Fixed
<1>4. ASSUME left' \in [Ends -> Nat], stage' \in [Ends -> Awaited], timer' \in [Ends -> Int],
             attempt' \in Nat
      PROVE  TimesType'
  BY <1>3, <1>4 DEF TimesType, Awaited
<1>5. ASSUME NEW e \in Ends, NEW what \in Awaited, NEW ticks \in Int, Awaits(e, what, ticks)
      PROVE  stage' \in [Ends -> Awaited] /\ timer' \in [Ends -> Int]
  BY <1>2, <1>5 DEF Awaits
<1>6. \A e \in Ends : \A o : Finishes(e, o) => left' \in [Ends -> Nat]
  BY <1>2 DEF Finishes
<1>7. \A e \in Ends : \A o : Returns(e, o) =>
        left' \in [Ends -> Nat] /\ stage' \in [Ends -> Awaited] /\ timer' \in [Ends -> Int]
  <2>1. None \in Awaited /\ 0 \in Int
    BY DEF Awaited
  <2> QED BY <1>5, <1>6, <2>1 DEF Returns
<1>8. \A e \in Ends : Starts(e, Allowed(test)) => left' \in [Ends -> Nat]
  BY <1>2 DEF Starts
<1>9. UNCHANGED timingVars => left' \in [Ends -> Nat]
  BY <1>2 DEF timingVars
<1>10. UNCHANGED attempt => attempt' \in Nat
  BY <1>2
<1>11. Connects => /\ stage' \in [Ends -> Awaited] /\ timer' \in [Ends -> Int] /\ attempt' \in Nat
  <2>1. "connect" \in Awaited /\ "initiator" \in Ends
    BY DEF Awaited, Ends
  <2> QED BY <1>2, <1>5, <2>1 DEF Connects
<1>12. \A r : AttemptFails(r) =>
         left' \in [Ends -> Nat] /\ stage' \in [Ends -> Awaited] /\ timer' \in [Ends -> Int]
  <2>1. "sleep" \in Awaited /\ "initiator" \in Ends
    BY DEF Awaited, Ends
  <2> QED BY <1>2, <1>5, <1>7, <1>9, <2>1 DEF AttemptFails
<1>13. UNCHANGED <<stage, timer>> => stage' \in [Ends -> Awaited] /\ timer' \in [Ends -> Int]
  BY <1>2
<1>14. {"connect", "sleep", "handshake", "read", "accept", "bind", None} \subseteq Awaited
  BY DEF Awaited
<1>15. CASE InitiatorStarts
  BY <1>4, <1>8, <1>11, <1>15, TheEnds DEF InitiatorStarts
<1>16. CASE Refused \/ Unreachable \/ ConnectTimeout \/ Replied
  BY <1>4, <1>7, <1>10, <1>12, <1>16, TheEnds DEF Refused, Unreachable, ConnectTimeout, Replied
<1>17. CASE TriesAgain
  BY <1>4, <1>9, <1>11, <1>17 DEF TriesAgain
<1>18. CASE Connected \/ InitiatorHandshake
  <2>1. PICK what \in Awaited : Awaits("initiator", what, timeout)
    BY <1>14, <1>18 DEF Connected, InitiatorHandshake
  <2>2. stage' \in [Ends -> Awaited] /\ timer' \in [Ends -> Int]
    BY <1>2, <1>5, <2>1, TheEnds
  <2>3. left' \in [Ends -> Nat] /\ attempt' \in Nat
    BY <1>9, <1>10, <1>18 DEF Connected, InitiatorHandshake
  <2> QED BY <1>4, <2>2, <2>3
<1>19. CASE TargetStarts
  BY <1>2, <1>4, <1>5, <1>8, <1>10, <1>14, <1>19, TheEnds DEF TargetStarts
<1>20. CASE BindFails \/ Echoes \/ AnswersQuery
  BY <1>4, <1>7, <1>10, <1>20, TheEnds DEF BindFails, Echoes, AnswersQuery
<1>21. CASE Syn
  BY <1>4, <1>9, <1>10, <1>13, <1>21 DEF Syn
<1>22. CASE Accepts
  BY <1>2, <1>4, <1>5, <1>9, <1>10, <1>14, <1>22, TheEnds DEF Accepts
<1>23. CASE TargetHandshake
  <2>1. UNCHANGED <<stage, timer>> \/ Awaits("target", "read", timeout)
    BY <1>23 DEF TargetHandshake
  <2>2. stage' \in [Ends -> Awaited] /\ timer' \in [Ends -> Int]
    BY <1>2, <1>5, <1>13, <1>14, <2>1, TheEnds
  <2>3. left' \in [Ends -> Nat] /\ attempt' \in Nat
    BY <1>9, <1>10, <1>23 DEF TargetHandshake
  <2> QED BY <1>4, <2>2, <2>3
<1>24. ASSUME NEW e \in Ends, PeerGone(e) \/ TimesOut(e)
       PROVE  TimesType'
  BY <1>4, <1>7, <1>10, <1>24 DEF PeerGone, TimesOut
<1>25. ASSUME NEW e \in Ends, CutShort(e)
       PROVE  TimesType'
  BY <1>4, <1>5, <1>6, <1>10, <1>14, <1>25 DEF CutShort, DeadlinePasses
<1>26. ASSUME NEW e \in Ends, Strays(e)
       PROVE  TimesType'
  BY <1>4, <1>9, <1>10, <1>13, <1>26 DEF Strays
<1>27. CASE Reports
  BY <1>2, <1>4, <1>10, <1>13, <1>27 DEF Reports, ReadReport, GiveUp, tcpVars
<1>28. CASE Tick
  <2>1. left' \in [Ends -> Nat]
    BY <1>2, <1>28 DEF Tick, TimingTick
  <2>2. timer' \in [Ends -> Int]
    BY <1>2, <1>28 DEF Tick
  <2> QED BY <1>2, <1>4, <1>28, <2>1, <2>2 DEF Tick
<1>29. CASE UNCHANGED <<timingVars, tcpVars>>
  BY <1>4, <1>9, <1>10, <1>13, <1>29 DEF tcpVars
<1>30. CASE Steps
  BY <1>15, <1>16, <1>17, <1>18, <1>19, <1>20, <1>21, <1>22, <1>23, <1>24, <1>25, <1>26, <1>27,
     <1>30 DEF Steps
<1> QED BY <1>28, <1>29, <1>30 DEF Next, vars

LEMMA TimesInit == Init => TimesType
BY TimingAssumption DEF Init, TimingInit, TimesType, Awaited

-----------------------------------------------------------------------------
(* The situations. *)

OnTime == \E now \in Nat : Clock(now) /\ Course(now)

Here == TypeInv /\ TimesType /\ Undisturbed /\ Fixed

\* A step that changes nothing of this leaves the test on its course.
LEMMA Stands ==
  ASSUME Fixed, OnTime, UNCHANGED <<phase, left, result, tcpVars>>
  PROVE  OnTime'
<1>1. PICK now \in Nat : Clock(now) /\ Course(now)
  BY DEF OnTime
<1>2. Clock(now)'
  BY <1>1, ClockStands
<1>3. Course(now)'
  <2>1. UNCHANGED <<phase, result, stage, timer, attempt, wire, test, timeout>>
    BY DEF Fixed, tcpVars
  <2>2. /\ StartOf("initiator")' = StartOf("initiator") /\ StartOf("target")' = StartOf("target")
        /\ LastConnect' = LastConnect /\ Flights' = Flights
    BY FixedHere
  <2>3. CASE Through
    BY <2>1, <2>3 DEF Course, Through
  <2>4. CASE Idle(now) \/ Resting(now)
    BY <2>1, <2>2, <2>4 DEF Course, Idle, Resting, Listening, Accepting, Awaiting, Running, Wires
  <2>5. ASSUME NEW x \in 0 .. Latency, Asking(now, x) \/ TurnedAway(now, x)
        PROVE  Asking(now, x)' \/ TurnedAway(now, x)'
    BY <2>1, <2>2, <2>5 DEF Asking, TurnedAway, Listening, Accepting, Attempting, Waits, Awaiting,
       Running, Wires
  <2>6. ASSUME NEW x \in 0 .. Latency, Welcomed(now, x) \/ Acknowledged(now, x)
        PROVE  Welcomed(now, x)' \/ Acknowledged(now, x)'
    BY <2>1, <2>2, <2>6 DEF Welcomed, Acknowledged, Accepting, Waits, Awaiting, Running, Wires
  <2>7. ASSUME NEW x \in 0 .. Latency, Greeting(now, x) \/ Greeted(now, x) \/ Secured(now, x)
        PROVE  Greeting(now, x)' \/ Greeted(now, x)' \/ Secured(now, x)'
    BY <2>1, <2>2, <2>7 DEF Greeting, Greeted, Secured, Waits, Awaiting, Running, Wires
  <2>8. ASSUME NEW x \in 0 .. Latency, Requested(now, x) \/ Replying(now, x)
        PROVE  Requested(now, x)' \/ Replying(now, x)'
    BY <2>1, <2>2, <2>8 DEF Requested, Replying, Waits, Awaiting, Running, Wires
  <2> QED BY <1>1, <2>3, <2>4, <2>5, <2>6, <2>7, <2>8 DEF Course
<1> QED BY <1>2, <1>3 DEF OnTime

\* What is on the wire to an end is what arrives.
LEMMA WireIs ==
  ASSUME NEW e
  PROVE  /\ wire[e] = <<>> => \A j : ~Arrives(e, j)
         /\ \A k, x : wire[e] = <<Seg(k, x)>> => wire[e] # <<>> /\ \A j : Arrives(e, j) <=> j = k
         /\ \A k, x, y : wire[e] = <<Seg(k, x), y>> => wire[e] # <<>> /\ \A j : Arrives(e, j) <=> j = k
BY HeadIs DEF Arrives

\* No deadline passes before the test is through.
LEMMA InDeadline ==
  ASSUME TimesType, InTime, NEW now \in Nat, Clock(now),
         now <= LastConnect + (IF test = "tls" THEN 6 ELSE 4) * Latency
  PROVE  \A e \in Ends : Running(e) => left[e] > 0
<1>1. /\ Latency \in Nat /\ LastConnect \in Nat /\ Allowed(test) \in Nat
      /\ \A e \in Ends : StartOf(e) \in Nat
  BY Amounts
<1>2. LastConnect + (Flights - 1) * Latency < Allowed(test) /\ Flights = (IF test = "tls" THEN 7 ELSE 5)
  BY Margins
<1>3. now < Allowed(test)
  BY <1>1, <1>2
<1>4. ASSUME NEW e \in Ends, Running(e) PROVE left[e] = StartOf(e) + Allowed(test) - now
  BY <1>4 DEF Clock, Running
<1> QED BY <1>1, <1>3, <1>4

\* The target, before a connection: it has not started, or it accepts for long enough.
LEMMA ListeningCalm ==
  ASSUME TimesType, InTime, NEW now \in Nat, Listening(now), now <= LastConnect + 3 * Latency
  PROVE  /\ phase["target"] = "idle" \/ Awaiting("target", "accept")
         /\ Running("target") => stage["target"] = "accept" /\ timer["target"] > 0
<1>1. /\ timeout \in Nat /\ StartOf("target") \in Nat /\ LastConnect \in Nat /\ Latency \in Nat
  BY Amounts, TheEnds DEF TimesType
<1>2. LastConnect + 3 * Latency < timeout + StartOf("target")
  BY Margins
<1>3. CASE phase["target"] = "idle"
  BY <1>3 DEF Running
<1>4. CASE Accepting(now)
  <2>1. Awaiting("target", "accept") /\ timer["target"] = StartOf("target") + timeout - now
    BY <1>4 DEF Accepting
  <2> QED BY <1>1, <1>2, <2>1 DEF Awaiting
<1> QED BY <1>3, <1>4 DEF Listening

LEMMA IdleCalm ==
  ASSUME TypeInv, TimesType, Undisturbed, NEW now \in Nat, Clock(now), Idle(now)
  PROVE  /\ \A e \in Ends : Calm(e)
         /\ now <= StartOf("initiator")
<1>1. /\ Latency \in Nat /\ StartOf("initiator") \in Nat /\ StartOf("initiator") <= delay
      /\ Retry \in Nat /\ delay \in Nat /\ left["initiator"] \in Nat /\ LastConnect \in Nat
  BY Amounts, TheEnds DEF TimesType
<1>2. now <= StartOf("initiator")
  <2>1. left["initiator"] = StartOf("initiator") - now
    BY TheEnds DEF Idle, Clock
  <2> QED BY <1>1, <2>1
<1>3. now <= LastConnect
  BY <1>1, <1>2 DEF LastConnect
<1>4. \A e \in Ends : Running(e) => left[e] > 0
  <2>1. InTime
    BY DEF Undisturbed
  <2> QED BY <1>1, <1>3, <2>1, InDeadline
<1>5. Running("target") => stage["target"] = "accept" /\ timer["target"] > 0
  BY <1>1, <1>3, ListeningCalm DEF Idle, Undisturbed
<1>6. ~Running("initiator") /\ wire["initiator"] = <<>> /\ wire["target"] = <<>>
  BY DEF Idle, Running, Wires
<1>7. \A e \in Ends : \A j : ~Arrives(e, j)
  BY <1>6, TheEnds, WireIs
<1>8. Calm("initiator") /\ Calm("target")
  BY <1>4, <1>5, <1>6, <1>7, TheEnds DEF Calm
<1> QED BY <1>2, <1>8, TheEnds

LEMMA ListeningStands ==
  ASSUME Fixed, NEW now \in Nat, Listening(now),
         phase'["target"] = phase["target"], stage'["target"] = stage["target"],
         timer'["target"] = timer["target"]
  PROVE  Listening(now)' /\ (Accepting(now) => Accepting(now)')
<1>1. timeout' = timeout /\ StartOf("target")' = StartOf("target")
  BY FixedHere DEF Fixed
<1> QED BY <1>1 DEF Listening, Accepting, Awaiting, Running

LEMMA ListeningTicks ==
  ASSUME TypeInv, TimesType, Fixed, NEW now \in Nat, Clock(now), Listening(now), Tick
  PROVE  Listening(now + 1)' /\ (Accepting(now) => Accepting(now + 1)')
<1>1. timeout' = timeout /\ StartOf("target")' = StartOf("target")
  BY FixedHere DEF Fixed
<1>2. /\ UNCHANGED <<phase, stage>>
      /\ phase["target"] = "running" => timer'["target"] = timer["target"] - 1
  BY ClockTicks, TheEnds
<1>3. timeout \in Nat /\ StartOf("target") \in Nat
  BY Amounts, TheEnds DEF TimesType
<1>4. ASSUME Accepting(now) PROVE Accepting(now + 1)'
  <2>1. /\ phase["target"] = "running" /\ stage["target"] = "accept"
        /\ timer["target"] = StartOf("target") + timeout - now
    BY <1>4 DEF Accepting, Awaiting, Running
  <2>2. timer'["target"] = StartOf("target") + timeout - (now + 1)
    BY <1>2, <1>3, <2>1
  <2> QED BY <1>1, <1>2, <2>1, <2>2 DEF Accepting, Awaiting, Running
<1>5. ASSUME phase["target"] = "idle" PROVE phase'["target"] = "idle"
  BY <1>2, <1>5
<1> QED BY <1>4, <1>5 DEF Listening

\* The target starts: it accepts, and the initiator goes on.
LEMMA TargetListens ==
  ASSUME Here, NEW now \in Nat, Clock(now), TargetStarts
  PROVE  /\ Clock(now)' /\ Listening(now)'
         /\ phase'["initiator"] = phase["initiator"] /\ stage'["initiator"] = stage["initiator"]
         /\ timer'["initiator"] = timer["initiator"] /\ UNCHANGED <<attempt, wire>>
<1>1. Starts("target", Allowed(test))
  BY DEF TargetStarts
<1>2. /\ Clock(now)' /\ now = StartOf("target") /\ phase'["target"] = "running"
      /\ phase'["initiator"] = phase["initiator"]
  BY <1>1, ClockStarts, TheEnds DEF Here
<1>3. Awaits("target", "accept", timeout) /\ UNCHANGED <<attempt, wire>>
  BY DEF TargetStarts, Here, Undisturbed
<1>4. stage \in [Ends -> Awaited] /\ timer \in [Ends -> Int] /\ timeout \in Nat
  BY DEF Here, TimesType
<1>5. /\ stage'["target"] = "accept" /\ timer'["target"] = timeout
      /\ stage'["initiator"] = stage["initiator"] /\ timer'["initiator"] = timer["initiator"]
  BY <1>3, <1>4, TheEnds DEF Awaits
<1>6. Accepting(now)'
  <2>1. timeout' = timeout /\ StartOf("target")' = StartOf("target") /\ StartOf("target") \in Nat
    BY FixedHere, Amounts, TheEnds DEF Fixed, Here
  <2>2. timer'["target"] = StartOf("target") + timeout - now
    BY <1>2, <1>4, <1>5, <2>1
  <2> QED BY <1>2, <1>5, <2>1, <2>2 DEF Accepting, Awaiting, Running
<1> QED BY <1>2, <1>3, <1>5, <1>6 DEF Listening

\* Which situations are on time.
LEMMA Timely ==
  ASSUME NEW now \in Nat, Clock(now)'
  PROVE  /\ Idle(now)' \/ Resting(now)' \/ Through' => OnTime'
         /\ \A x \in 0 .. Latency :
              /\ Asking(now, x)' \/ TurnedAway(now, x)' \/ Welcomed(now, x)'
                   \/ Acknowledged(now, x)' => OnTime'
              /\ Greeting(now, x)' \/ Greeted(now, x)' \/ Secured(now, x)' => OnTime'
              /\ Requested(now, x)' \/ Replying(now, x)' => OnTime'
BY DEF OnTime, Course

\* A connection attempt.
LEMMA ConnectsAsks ==
  ASSUME Here, NEW now \in Nat, Connects
  PROVE  /\ stage'["initiator"] = "connect" /\ timer'["initiator"] = timeout
         /\ stage'["target"] = stage["target"] /\ timer'["target"] = timer["target"]
         /\ attempt' = attempt + 1
         /\ Wires(<<Seg("syn", Latency)>>, <<>>)'
<1>1. stage \in [Ends -> Awaited] /\ timer \in [Ends -> Int] /\ net.path = "open"
  BY DEF Here, TimesType, Undisturbed
<1>2. Awaits("initiator", "connect", timeout) /\ attempt' = attempt + 1
  BY DEF Connects
<1>3. wire' = [initiator |-> <<>>, target |-> Segments(<<"syn">>)]
  BY <1>1 DEF Connects
<1>4. Segments(<<"syn">>) = <<Seg("syn", Latency)>>
  BY <1>1, SegmentsSent
<1>5. wire'["initiator"] = <<>> /\ wire'["target"] = <<Seg("syn", Latency)>>
  BY <1>3, <1>4
<1>6. Wires(<<Seg("syn", Latency)>>, <<>>)'
  BY <1>5 DEF Wires, Seg
<1> QED BY <1>1, <1>2, <1>6, TheEnds DEF Awaits

LEMMA IdleMoves ==
  ASSUME Here, NEW now \in Nat, Clock(now), Idle(now), Moves
  PROVE  OnTime'
<1>1. phase["initiator"] = "idle" /\ attempt = 0 /\ Listening(now) /\ Wires(<<>>, <<>>)
  BY DEF Idle
<1>2. now <= StartOf("initiator")
  BY IdleCalm DEF Here
<1>3. InitiatorStarts \/ TargetStarts
  <2>1. \A j : ~Arrives("target", j)
    BY <1>1, WireIs DEF Wires
  <2>2. \A what : ~Awaiting("initiator", what)
    BY <1>1 DEF Awaiting, Running
  <2> QED BY <2>1, <2>2, MovesTake DEF Moves
<1>4. CASE InitiatorStarts
  <2>1. Starts("initiator", Allowed(test)) /\ Connects
    BY <1>4 DEF InitiatorStarts
  <2>2. /\ Clock(now)' /\ now = StartOf("initiator") /\ phase'["initiator"] = "running"
        /\ phase'["target"] = phase["target"]
    BY <2>1, ClockStarts, TheEnds DEF Here
  <2>3. /\ stage'["initiator"] = "connect" /\ timer'["initiator"] = timeout
        /\ stage'["target"] = stage["target"] /\ timer'["target"] = timer["target"]
        /\ attempt' = 1
        /\ Wires(<<Seg("syn", Latency)>>, <<>>)'
    BY <1>1, <2>1, ConnectsAsks
  <2>4. Listening(now)'
    BY <1>1, <2>2, <2>3, ListeningStands DEF Here
  <2>5. /\ Latency \in Nat /\ Retry \in Nat /\ timeout \in Nat /\ LastConnect \in Nat /\ delay \in Nat
        /\ StartOf("initiator") \in Nat /\ StartOf("initiator") <= delay
        /\ timeout' = timeout /\ LastConnect' = LastConnect
        /\ StartOf("initiator")' = StartOf("initiator")
    BY FixedHere, Amounts, TheEnds DEF Here, Fixed, TimesType
  <2>6. Attempting(now)'
    <3>1. (1 - 1) * Retry = 0
      BY <2>5
    <3> QED BY <2>2, <2>3, <2>5, <3>1 DEF Attempting, Attempts
  <2>7. Waits("initiator", "connect", timeout - Latency + Latency)'
    <3>1. timeout - Latency + Latency = timeout
      BY <2>5
    <3> QED BY <2>2, <2>3, <2>5, <3>1 DEF Waits, Awaiting, Running
  <2>8. now + Latency <= LastConnect + Latency
    BY <2>2, <2>5 DEF LastConnect
  <2>9. Asking(now, Latency)'
    BY <2>3, <2>4, <2>5, <2>6, <2>7, <2>8 DEF Asking
  <2> QED BY <2>2, <2>5, <2>9, Timely
<1>5. CASE TargetStarts
  <2>1. /\ Clock(now)' /\ Listening(now)' /\ phase'["initiator"] = phase["initiator"]
        /\ UNCHANGED <<attempt, wire>>
    BY <1>5, TargetListens
  <2>2. Idle(now)'
    BY <1>1, <2>1 DEF Idle, Wires
  <2> QED BY <2>1, <2>2, Timely
<1> QED BY <1>3, <1>4, <1>5

LEMMA IdleTicks ==
  ASSUME Here, NEW now \in Nat, Clock(now), Idle(now), Tick
  PROVE  OnTime'
<1>1. Clock(now + 1)' /\ UNCHANGED <<phase, stage, result, attempt>>
  BY ClockTicks DEF Here
<1>2. Listening(now + 1)'
  BY ListeningTicks DEF Here, Idle
<1>3. wire'["target"] = <<>> /\ wire'["initiator"] = <<>>
  BY TickWire, TheEnds DEF Here, Idle, Wires
<1>4. Idle(now + 1)'
  BY <1>1, <1>2, <1>3 DEF Idle, Wires
<1> QED BY <1>1, <1>4, Timely

-----------------------------------------------------------------------------
(* A connection attempt and what becomes of it. *)

LEMMA WiresTick ==
  ASSUME Here, Tick
  PROVE  /\ Wires(<<>>, <<>>) => Wires(<<>>, <<>>)'
         /\ \A k, x : x \in Int /\ Wires(<<Seg(k, x)>>, <<>>) =>
              x > 0 /\ Wires(<<Seg(k, x - 1)>>, <<>>)'
         /\ \A k, x : x \in Int /\ Wires(<<>>, <<Seg(k, x)>>) =>
              x > 0 /\ Wires(<<>>, <<Seg(k, x - 1)>>)'
         /\ \A k, l, x : x \in Int /\ Wires(<<Seg(k, x), Seg(l, x)>>, <<>>) =>
              x > 0 /\ Wires(<<Seg(k, x - 1), Seg(l, x - 1)>>, <<>>)'
         /\ \A k, l, x : x \in Int /\ Wires(<<>>, <<Seg(k, x), Seg(l, x)>>) =>
              x > 0 /\ Wires(<<>>, <<Seg(k, x - 1), Seg(l, x - 1)>>)'
BY TickWire, TheEnds DEF Here, Wires, Seg

LEMMA WaitsTick ==
  ASSUME Here, NEW now \in Nat, Clock(now), Tick, NEW e \in Ends, NEW what, NEW n \in Int,
         Waits(e, what, n)
  PROVE  Waits(e, what, n - 1)'
<1>1. /\ UNCHANGED <<phase, stage>>
      /\ phase[e] = "running" => timer'[e] = timer[e] - 1
  BY ClockTicks DEF Here
<1>2. phase[e] = "running" /\ stage[e] = what /\ timer[e] >= n /\ timer[e] \in Int
  BY DEF Waits, Awaiting, Running, Here, TimesType
<1>3. timer'[e] >= n - 1
  BY <1>1, <1>2
<1> QED BY <1>1, <1>2, <1>3 DEF Waits, Awaiting, Running

\* An end waits as it did.
LEMMA WaitsStands ==
  ASSUME NEW e \in Ends, NEW what, NEW n, Waits(e, what, n),
         phase'[e] = phase[e], stage'[e] = stage[e], timer'[e] = timer[e]
  PROVE  Waits(e, what, n)'
BY DEF Waits, Awaiting, Running

LEMMA AskingCalm ==
  ASSUME TypeInv, TimesType, Undisturbed, NEW now \in Nat, Clock(now), NEW x \in 0 .. Latency,
         Asking(now, x)
  PROVE  /\ \A e \in Ends : Calm(e)
         /\ now <= LastConnect + Latency
<1>1. /\ Latency \in Nat /\ LastConnect \in Nat /\ timeout \in Nat /\ Retry \in Nat /\ x \in Nat
      /\ timer["initiator"] \in Int
  BY Amounts, TheEnds DEF TimesType
<1>2. InTime /\ Retry + 4 * Latency < timeout
  BY Margins DEF Undisturbed
<1>3. now <= LastConnect + Latency
  BY <1>1 DEF Asking
<1>4. \A e \in Ends : Running(e) => left[e] > 0
  BY <1>1, <1>2, <1>3, InDeadline
<1>5. Running("target") => stage["target"] = "accept" /\ timer["target"] > 0
  BY <1>1, <1>2, <1>3, ListeningCalm DEF Asking
<1>6. Running("initiator") /\ stage["initiator"] = "connect" /\ timer["initiator"] > 0
  <2>1. Awaiting("initiator", "connect") /\ timer["initiator"] >= timeout - Latency + x
    BY DEF Asking, Waits
  <2> QED BY <1>1, <1>2, <2>1 DEF Awaiting
<1>7. /\ \A j : ~Arrives("initiator", j)
      /\ \A j : Arrives("target", j) <=> j = "syn"
      /\ wire["initiator"] = <<>>
  BY WireIs DEF Asking, Wires
<1>8. Calm("initiator") /\ Calm("target")
  BY <1>4, <1>5, <1>6, <1>7, TheEnds DEF Calm
<1> QED BY <1>3, <1>8, TheEnds

LEMMA AskingMoves ==
  ASSUME Here, NEW now \in Nat, Clock(now), NEW x \in 0 .. Latency, Asking(now, x), Moves
  PROVE  OnTime'
<1>1. /\ Waits("initiator", "connect", timeout - Latency + x) /\ Attempting(now)
      /\ Listening(now) /\ Wires(<<Seg("syn", x)>>, <<>>)
      /\ now + x <= LastConnect + Latency
  BY DEF Asking
<1>2. Awaiting("initiator", "connect") /\ timer["initiator"] >= timeout - Latency + x
  BY <1>1 DEF Waits
<1>3. /\ \A j : ~Arrives("initiator", j)
      /\ \A j : Arrives("target", j) <=> j = "syn"
  BY <1>1, WireIs DEF Wires
<1>4. TargetStarts \/ Syn
  <2>1. ~InitiatorStarts /\ ~TriesAgain
    BY <1>2, MovesTake DEF Awaiting, Running
  <2> QED BY <1>3, <2>1, MovesTake DEF Moves
<1>5. /\ Latency \in Nat /\ Retry \in Nat /\ Retry > 0 /\ timeout \in Nat /\ LastConnect \in Nat
      /\ delay \in Nat /\ x \in Nat /\ timer["initiator"] \in Int
      /\ StartOf("initiator") \in Nat /\ StartOf("target") \in Nat
      /\ timeout' = timeout /\ LastConnect' = LastConnect
      /\ StartOf("initiator")' = StartOf("initiator") /\ StartOf("target")' = StartOf("target")
  BY FixedHere, Amounts, TheEnds DEF Here, Fixed, TimesType
<1>6. CASE TargetStarts
  <2>1. /\ Clock(now)' /\ Listening(now)'
        /\ phase'["initiator"] = phase["initiator"] /\ stage'["initiator"] = stage["initiator"]
        /\ timer'["initiator"] = timer["initiator"] /\ UNCHANGED <<attempt, wire>>
    BY <1>6, TargetListens
  <2>2. Asking(now, x)'
    BY <1>1, <1>5, <2>1 DEF Asking, Wires, Waits, Awaiting, Running, Attempting
  <2> QED BY <2>1, <2>2, Timely
<1>7. CASE Syn
  <2>1. /\ UNCHANGED <<phase, left, result, stage, timer, attempt>>
        /\ Answers("target", IF Awaiting("target", "accept") THEN <<"synack">> ELSE <<"rst">>)
    BY <1>7 DEF Syn, timingVars
  <2>2. Clock(now)'
    BY <2>1, ClockStands DEF Here
  <2>3. \A k : Answers("target", <<k>>) => Wires(<<>>, <<Seg(k, Latency)>>)'
    BY <1>1, AnswersOnly, TheEnds DEF Wires, Here, Undisturbed, Seg
  <2>4. Waits("initiator", "connect", timeout - 2 * Latency + Latency)'
    <3>1. timer["initiator"] >= timeout - 2 * Latency + Latency
      BY <1>2, <1>5
    <3> QED BY <1>2, <1>5, <2>1, <3>1 DEF Waits, Awaiting, Running
  <2>5. CASE Accepting(now)
    <3>1. Accepting(now)'
      BY <1>1, <2>1, <2>5, ListeningStands DEF Here
    <3>2. Wires(<<>>, <<Seg("synack", Latency)>>)'
      BY <2>1, <2>3, <2>5 DEF Accepting
    <3>3. now + Latency <= LastConnect + 2 * Latency
      BY <1>1, <1>5
    <3>4. Welcomed(now, Latency)'
      BY <1>5, <2>4, <3>1, <3>2, <3>3 DEF Welcomed
    <3> QED BY <1>5, <2>2, <3>4, Timely
  <2>6. CASE phase["target"] = "idle"
    <3>1. Listening(now)'
      BY <1>1, <2>1, ListeningStands DEF Here
    <3>2. ~Awaiting("target", "accept")
      BY <2>6 DEF Awaiting, Running
    <3>3. Wires(<<>>, <<Seg("rst", Latency)>>)'
      BY <2>1, <2>3, <3>2
    <3>4. now <= StartOf("target")
      <4>1. left["target"] = StartOf("target") - now /\ left["target"] \in Nat
        BY <2>6, TheEnds DEF Clock, Here, TimesType
      <4> QED BY <1>5, <4>1
    <3>5. now + Latency <= StartOf("target") + Latency
      BY <1>5, <3>4
    <3>6. attempt < Attempts
      <4>1. StartOf("target") - StartOf("initiator") < 19 * Retry
        BY Margins DEF Here, Undisturbed
      <4>2. attempt \in 1 .. 20 /\ now >= StartOf("initiator") + (attempt - 1) * Retry
        BY <1>1 DEF Attempting, Attempts
      <4>3. ASSUME attempt = 20 PROVE FALSE
        <5>1. now >= StartOf("initiator") + 19 * Retry
          BY <4>2, <4>3
        <5> QED BY <1>5, <3>4, <4>1, <5>1
      <4> QED BY <4>2, <4>3 DEF Attempts
    <3>7. Attempting(now)'
      BY <1>1, <1>5, <2>1 DEF Attempting
    <3>8. TurnedAway(now, Latency)'
      BY <1>5, <2>1, <2>4, <3>1, <3>3, <3>5, <3>6, <3>7 DEF TurnedAway
    <3> QED BY <1>5, <2>2, <3>8, Timely
  <2> QED BY <1>1, <2>5, <2>6 DEF Listening
<1> QED BY <1>4, <1>6, <1>7

LEMMA AskingTicks ==
  ASSUME Here, NEW now \in Nat, Clock(now), NEW x \in 0 .. Latency, Asking(now, x), Tick
  PROVE  OnTime'
<1>1. /\ Waits("initiator", "connect", timeout - Latency + x) /\ Attempting(now)
      /\ Listening(now) /\ Wires(<<Seg("syn", x)>>, <<>>)
      /\ now + x <= LastConnect + Latency
  BY DEF Asking
<1>2. /\ Latency \in Nat /\ Retry \in Nat /\ timeout \in Nat /\ LastConnect \in Nat /\ x \in Int
      /\ StartOf("initiator") \in Nat
      /\ timeout' = timeout /\ LastConnect' = LastConnect
      /\ StartOf("initiator")' = StartOf("initiator")
  BY FixedHere, Amounts, TheEnds DEF Here, Fixed, TimesType
<1>3. x > 0 /\ Wires(<<Seg("syn", x - 1)>>, <<>>)'
  BY <1>1, <1>2, WiresTick
<1>4. Clock(now + 1)' /\ UNCHANGED attempt
  BY ClockTicks DEF Here
<1>5. Listening(now + 1)'
  BY <1>1, ListeningTicks DEF Here
<1>6. Waits("initiator", "connect", timeout - Latency + (x - 1))'
  <2>1. PICK n \in Int : n = timeout - Latency + x
    BY <1>2
  <2>2. Waits("initiator", "connect", n - 1)'
    BY <1>1, <2>1, WaitsTick, TheEnds
  <2>3. n - 1 = timeout' - Latency + (x - 1)
    BY <1>2, <2>1
  <2> QED BY <2>2, <2>3 DEF Waits
<1>7. Attempting(now + 1)'
  <2>1. attempt \in 1 .. 20 /\ now >= StartOf("initiator") + (attempt - 1) * Retry
    BY <1>1 DEF Attempting, Attempts
  <2>2. PICK m \in Int : m = (attempt - 1) * Retry
    BY <1>2, <2>1
  <2>3. now + 1 >= StartOf("initiator") + m
    BY <1>2, <2>1, <2>2
  <2> QED BY <1>2, <1>4, <2>1, <2>2, <2>3 DEF Attempting, Attempts
<1>8. (now + 1) + (x - 1) <= LastConnect + Latency
  BY <1>1, <1>2
<1>9. Asking(now + 1, x - 1)'
  BY <1>2, <1>3, <1>5, <1>6, <1>7, <1>8 DEF Asking
<1> QED BY <1>2, <1>3, <1>4, <1>9, Timely

\* The amounts of a test, which no step changes.
LEMMA Numbers ==
  ASSUME Here
  PROVE  /\ Latency \in Nat /\ Retry \in Nat /\ Retry > 0 /\ timeout \in Nat /\ LastConnect \in Nat
         /\ delay \in Nat /\ StartOf("initiator") \in Nat /\ StartOf("target") \in Nat
         /\ StartOf("initiator") <= delay /\ StartOf("target") <= delay
         /\ timer["initiator"] \in Int /\ timer["target"] \in Int
         /\ timeout' = timeout /\ LastConnect' = LastConnect /\ test' = test
         /\ StartOf("initiator")' = StartOf("initiator") /\ StartOf("target")' = StartOf("target")
BY FixedHere, Amounts, TheEnds DEF Here, Fixed, TimesType

LEMMA AttemptingTicks ==
  ASSUME Here, NEW now \in Nat, Attempting(now), attempt' = attempt
  PROVE  Attempting(now + 1)'
<1>1. attempt \in 1 .. 20 /\ now >= StartOf("initiator") + (attempt - 1) * Retry
  BY DEF Attempting, Attempts
<1>2. PICK m \in Int : m = (attempt - 1) * Retry
  BY <1>1, Numbers
<1>3. now + 1 >= StartOf("initiator") + m
  BY <1>1, <1>2, Numbers
<1> QED BY <1>1, <1>2, <1>3, Numbers DEF Attempting, Attempts

LEMMA TurnedAwayCalm ==
  ASSUME TypeInv, TimesType, Undisturbed, NEW now \in Nat, Clock(now), NEW x \in 0 .. Latency,
         TurnedAway(now, x)
  PROVE  \A e \in Ends : Calm(e)
<1>1. /\ Latency \in Nat /\ LastConnect \in Nat /\ timeout \in Nat /\ Retry \in Nat /\ x \in Nat
      /\ timer["initiator"] \in Int /\ StartOf("target") \in Nat /\ StartOf("target") <= delay
      /\ delay \in Nat
  BY Amounts, TheEnds DEF TimesType
<1>2. InTime /\ Retry + 4 * Latency < timeout
  BY Margins DEF Undisturbed
<1>3. now <= LastConnect + Latency
  BY <1>1 DEF TurnedAway, LastConnect
<1>4. \A e \in Ends : Running(e) => left[e] > 0
  BY <1>1, <1>2, <1>3, InDeadline
<1>5. Running("target") => stage["target"] = "accept" /\ timer["target"] > 0
  BY <1>1, <1>2, <1>3, ListeningCalm DEF TurnedAway
<1>6. Running("initiator") /\ stage["initiator"] = "connect" /\ timer["initiator"] > 0
  <2>1. Awaiting("initiator", "connect") /\ timer["initiator"] >= timeout - 2 * Latency + x
    BY DEF TurnedAway, Waits
  <2> QED BY <1>1, <1>2, <2>1 DEF Awaiting
<1>7. /\ \A j : ~Arrives("target", j)
      /\ \A j : Arrives("initiator", j) <=> j = "rst"
      /\ wire["target"] = <<>>
  BY WireIs DEF TurnedAway, Wires
<1>8. Calm("initiator") /\ Calm("target")
  BY <1>4, <1>5, <1>6, <1>7, TheEnds DEF Calm
<1> QED BY <1>8, TheEnds

LEMMA TurnedAwayMoves ==
  ASSUME Here, NEW now \in Nat, Clock(now), NEW x \in 0 .. Latency, TurnedAway(now, x), Moves
  PROVE  OnTime'
<1>1. /\ Waits("initiator", "connect", timeout - 2 * Latency + x) /\ Attempting(now)
      /\ attempt < Attempts /\ Listening(now) /\ Wires(<<>>, <<Seg("rst", x)>>)
      /\ now + x <= StartOf("target") + Latency
  BY DEF TurnedAway
<1>2. Awaiting("initiator", "connect")
  BY <1>1 DEF Waits
<1>3. /\ \A j : ~Arrives("target", j)
      /\ \A j : Arrives("initiator", j) <=> j = "rst"
  BY <1>1, WireIs DEF Wires
<1>4. TargetStarts \/ Refused
  <2>1. ~InitiatorStarts /\ ~TriesAgain
    BY <1>2, MovesTake DEF Awaiting, Running
  <2> QED BY <1>3, <2>1, MovesTake DEF Moves
<1>5. CASE TargetStarts
  <2>1. /\ Clock(now)' /\ Listening(now)'
        /\ phase'["initiator"] = phase["initiator"] /\ stage'["initiator"] = stage["initiator"]
        /\ timer'["initiator"] = timer["initiator"] /\ UNCHANGED <<attempt, wire>>
    BY <1>5, TargetListens
  <2>2. TurnedAway(now, x)'
    BY <1>1, <2>1, Numbers DEF TurnedAway, Wires, Waits, Awaiting, Running, Attempting
  <2> QED BY <2>1, <2>2, Timely
<1>6. CASE Refused
  <2>1. /\ UNCHANGED <<phase, left, result, attempt>>
        /\ Awaits("initiator", "sleep", Retry)
        /\ Answers("initiator", <<>>)
    BY <1>1, <1>6 DEF Refused, AttemptFails, timingVars
  <2>2. Clock(now)'
    BY <2>1, ClockStands DEF Here
  <2>3. /\ stage'["initiator"] = "sleep" /\ timer'["initiator"] = Retry
        /\ stage'["target"] = stage["target"] /\ timer'["target"] = timer["target"]
    BY <2>1, TheEnds DEF Awaits, Here, TimesType
  <2>4. Listening(now)'
    BY <1>1, <2>1, <2>3, ListeningStands DEF Here
  <2>5. Wires(<<>>, <<>>)'
    BY <1>1, <2>1, AnswersOnly, TheEnds DEF Wires, Here, Undisturbed
  <2>6. attempt \in 1 .. 19
    BY <1>1 DEF Attempting, Attempts
  <2>7. now + Retry >= StartOf("initiator") + attempt * Retry
    <3>1. now >= StartOf("initiator") + (attempt - 1) * Retry
      BY <1>1 DEF Attempting
    <3>2. (attempt - 1) * Retry + Retry = attempt * Retry
      BY <2>6, Numbers
    <3>3. PICK m \in Int, n \in Int : m = (attempt - 1) * Retry /\ n = attempt * Retry
      BY <2>6, Numbers
    <3> QED BY <3>1, <3>2, <3>3, Numbers
  <2>8. now + Retry <= LastConnect
    BY <1>1, Numbers DEF LastConnect
  <2>9. Awaiting("initiator", "sleep")'
    BY <1>2, <2>1, <2>3 DEF Awaiting, Running
  <2>10. Resting(now)'
    BY <2>1, <2>3, <2>4, <2>5, <2>6, <2>7, <2>8, <2>9, Numbers DEF Resting, Attempts
  <2> QED BY <2>2, <2>10, Timely
<1> QED BY <1>4, <1>5, <1>6

LEMMA TurnedAwayTicks ==
  ASSUME Here, NEW now \in Nat, Clock(now), NEW x \in 0 .. Latency, TurnedAway(now, x), Tick
  PROVE  OnTime'
<1>1. /\ Waits("initiator", "connect", timeout - 2 * Latency + x) /\ Attempting(now)
      /\ attempt < Attempts /\ Listening(now) /\ Wires(<<>>, <<Seg("rst", x)>>)
      /\ now + x <= StartOf("target") + Latency
  BY DEF TurnedAway
<1>2. x > 0 /\ Wires(<<>>, <<Seg("rst", x - 1)>>)'
  <2>1. x \in Int
    BY Numbers
  <2> QED BY <1>1, <2>1, WiresTick
<1>3. Clock(now + 1)' /\ UNCHANGED attempt
  BY ClockTicks DEF Here
<1>4. Listening(now + 1)' /\ Attempting(now + 1)'
  BY <1>1, <1>3, ListeningTicks, AttemptingTicks DEF Here
<1>5. Waits("initiator", "connect", timeout - 2 * Latency + (x - 1))'
  <2>1. PICK n \in Int : n = timeout - 2 * Latency + x
    BY Numbers
  <2>2. Waits("initiator", "connect", n - 1)'
    BY <1>1, <2>1, WaitsTick, TheEnds
  <2>3. n - 1 = timeout' - 2 * Latency + (x - 1)
    BY <2>1, Numbers
  <2> QED BY <2>2, <2>3 DEF Waits
<1>6. (now + 1) + (x - 1) <= StartOf("target") + Latency
  BY <1>1, Numbers
<1>7. TurnedAway(now + 1, x - 1)'
  BY <1>1, <1>2, <1>3, <1>4, <1>5, <1>6, Numbers DEF TurnedAway
<1> QED BY <1>2, <1>3, <1>7, Numbers, Timely

LEMMA RestingCalm ==
  ASSUME TypeInv, TimesType, Undisturbed, NEW now \in Nat, Clock(now), Resting(now)
  PROVE  \A e \in Ends : Calm(e)
<1>1. /\ Latency \in Nat /\ LastConnect \in Nat /\ timer["initiator"] \in Nat
  BY Amounts, TheEnds DEF TimesType, Resting
<1>2. now <= LastConnect
  BY <1>1 DEF Resting
<1>3. \A e \in Ends : Running(e) => left[e] > 0
  BY <1>1, <1>2, InDeadline DEF Undisturbed
<1>4. Running("target") => stage["target"] = "accept" /\ timer["target"] > 0
  BY <1>1, <1>2, ListeningCalm DEF Resting, Undisturbed
<1>5. stage["initiator"] = "sleep"
  BY DEF Resting, Awaiting
<1>6. /\ \A e \in Ends : wire[e] = <<>>
      /\ \A e \in Ends : \A j : ~Arrives(e, j)
  BY WireIs, TheEnds DEF Resting, Wires
<1>7. Calm("initiator") /\ Calm("target")
  BY <1>3, <1>4, <1>5, <1>6, TheEnds DEF Calm
<1> QED BY <1>7, TheEnds

LEMMA RestingMoves ==
  ASSUME Here, NEW now \in Nat, Clock(now), Resting(now), Moves
  PROVE  OnTime'
<1>1. /\ Awaiting("initiator", "sleep") /\ attempt \in 1 .. 19
      /\ timer["initiator"] \in Nat
      /\ now + timer["initiator"] >= StartOf("initiator") + attempt * Retry
      /\ now + timer["initiator"] <= LastConnect
      /\ Listening(now) /\ Wires(<<>>, <<>>)
  BY DEF Resting, Attempts
<1>2. \A e \in Ends : \A j : ~Arrives(e, j)
  BY <1>1, WireIs, TheEnds DEF Wires
<1>3. TargetStarts \/ TriesAgain
  <2>1. ~InitiatorStarts
    BY <1>1, MovesTake DEF Awaiting, Running
  <2> QED BY <1>2, <2>1, MovesTake, TheEnds DEF Moves
<1>4. CASE TargetStarts
  <2>1. /\ Clock(now)' /\ Listening(now)'
        /\ phase'["initiator"] = phase["initiator"] /\ stage'["initiator"] = stage["initiator"]
        /\ timer'["initiator"] = timer["initiator"] /\ UNCHANGED <<attempt, wire>>
    BY <1>4, TargetListens
  <2>2. Resting(now)'
    BY <1>1, <2>1, Numbers DEF Resting, Wires, Awaiting, Running, Attempts
  <2> QED BY <2>1, <2>2, Timely
<1>5. CASE TriesAgain
  <2>1. /\ timer["initiator"] = 0 /\ Connects /\ UNCHANGED <<phase, left, result>>
    BY <1>5 DEF TriesAgain, Expired, timingVars
  <2>2. Clock(now)'
    BY <2>1, ClockStands DEF Here
  <2>3. /\ stage'["initiator"] = "connect" /\ timer'["initiator"] = timeout
        /\ stage'["target"] = stage["target"] /\ timer'["target"] = timer["target"]
        /\ attempt' = attempt + 1
        /\ Wires(<<Seg("syn", Latency)>>, <<>>)'
    BY <2>1, ConnectsAsks
  <2>4. Listening(now)'
    BY <1>1, <2>1, <2>3, ListeningStands DEF Here
  <2>5. Attempting(now)'
    <3>1. PICK m \in Int : m = attempt * Retry
      BY <1>1, Numbers
    <3>2. now >= StartOf("initiator") + m
      BY <1>1, <2>1, <3>1, Numbers
    <3>3. attempt' - 1 = attempt /\ attempt' \in 1 .. 20
      BY <1>1, <2>3
    <3> QED BY <3>1, <3>2, <3>3, Numbers DEF Attempting, Attempts
  <2>6. Waits("initiator", "connect", timeout - Latency + Latency)'
    <3>1. timeout - Latency + Latency = timeout /\ timeout >= timeout
      BY Numbers
    <3> QED BY <1>1, <2>1, <2>3, <3>1, Numbers DEF Waits, Awaiting, Running
  <2>7. now + Latency <= LastConnect + Latency
    BY <1>1, <2>1, Numbers
  <2>8. Asking(now, Latency)'
    BY <2>3, <2>4, <2>5, <2>6, <2>7, Numbers DEF Asking
  <2> QED BY <2>2, <2>8, Timely, Numbers
<1> QED BY <1>3, <1>4, <1>5

LEMMA RestingTicks ==
  ASSUME Here, NEW now \in Nat, Clock(now), Resting(now), Tick
  PROVE  OnTime'
<1>1. /\ Awaiting("initiator", "sleep") /\ attempt \in 1 .. 19
      /\ timer["initiator"] \in Nat
      /\ now + timer["initiator"] >= StartOf("initiator") + attempt * Retry
      /\ now + timer["initiator"] <= LastConnect
      /\ Listening(now) /\ Wires(<<>>, <<>>)
  BY DEF Resting, Attempts
<1>2. /\ Clock(now + 1)' /\ UNCHANGED <<phase, stage, attempt>>
      /\ timer'["initiator"] = timer["initiator"] - 1 /\ timer["initiator"] > 0
  BY <1>1, ClockTicks, TheEnds DEF Here, Awaiting, Running
<1>3. Listening(now + 1)' /\ Wires(<<>>, <<>>)'
  BY <1>1, ListeningTicks, WiresTick DEF Here
<1>4. PICK m \in Int : m = attempt * Retry
  BY <1>1, Numbers
<1>5. /\ timer'["initiator"] \in Nat
      /\ (now + 1) + timer'["initiator"] >= StartOf("initiator") + m
      /\ (now + 1) + timer'["initiator"] <= LastConnect
  <2>1. PICK t \in Nat, s \in Nat, l \in Nat :
          t = timer["initiator"] /\ s = StartOf("initiator") /\ l = LastConnect
    BY <1>1, Numbers
  <2>2. timer'["initiator"] = t - 1 /\ t > 0 /\ now + t >= s + m /\ now + t <= l
    BY <1>1, <1>2, <1>4, <2>1
  <2>3. t - 1 \in Nat /\ (now + 1) + (t - 1) >= s + m /\ (now + 1) + (t - 1) <= l
    BY <2>2
  <2> QED BY <2>1, <2>2, <2>3
<1>6. Resting(now + 1)'
  BY <1>1, <1>2, <1>3, <1>4, <1>5, Numbers DEF Resting, Attempts, Awaiting, Running
<1> QED BY <1>2, <1>6, Timely

-----------------------------------------------------------------------------
(* A connection: both ends wait for each other. *)

\* Two ends that wait for long enough, with the one of them about to receive
\* what it waits for.
LEMMA ConnectedCalm ==
  ASSUME TypeInv, TimesType, Undisturbed, NEW now \in Nat, Clock(now), NEW x \in Nat,
         now + x <= LastConnect + (IF test = "tls" THEN 6 ELSE 4) * Latency,
         \A e \in Ends : Running(e) /\ stage[e] \notin {"sleep", "bind"} /\ timer[e] > 0,
         \A e \in Ends : ~Arrives(e, "eof") /\ ~Arrives(e, "icmp")
  PROVE  \A e \in Ends : Calm(e)
<1>1. LastConnect \in Nat /\ Latency \in Nat /\ InTime
  BY Amounts DEF Undisturbed
<1>2. now <= LastConnect + (IF test = "tls" THEN 6 ELSE 4) * Latency
  BY <1>1
<1>3. \A e \in Ends : Running(e) => left[e] > 0
  BY <1>1, <1>2, InDeadline
<1> QED BY <1>3 DEF Calm

LEMMA WelcomedCalm ==
  ASSUME TypeInv, TimesType, Undisturbed, NEW now \in Nat, Clock(now), NEW x \in 0 .. Latency,
         Welcomed(now, x)
  PROVE  \A e \in Ends : Calm(e)
<1>1. /\ Latency \in Nat /\ LastConnect \in Nat /\ timeout \in Nat /\ Retry \in Nat /\ x \in Nat
      /\ timer["initiator"] \in Int
  BY Amounts, TheEnds DEF TimesType
<1>2. InTime /\ Retry + 4 * Latency < timeout
  BY Margins DEF Undisturbed
<1>3. /\ now <= LastConnect + 3 * Latency
      /\ now + x <= LastConnect + (IF test = "tls" THEN 6 ELSE 4) * Latency
  BY <1>1 DEF Welcomed
<1>4. Running("target") /\ stage["target"] = "accept" /\ timer["target"] > 0
  <2>1. Listening(now) /\ Awaiting("target", "accept")
    BY DEF Welcomed, Accepting, Listening
  <2> QED BY <1>2, <1>3, <2>1, ListeningCalm DEF Awaiting
<1>5. Running("initiator") /\ stage["initiator"] = "connect" /\ timer["initiator"] > 0
  <2>1. Awaiting("initiator", "connect") /\ timer["initiator"] >= timeout - 2 * Latency + x
    BY DEF Welcomed, Waits
  <2> QED BY <1>1, <1>2, <2>1 DEF Awaiting
<1>6. /\ \A j : ~Arrives("target", j)
      /\ \A j : Arrives("initiator", j) <=> j = "synack"
  BY WireIs DEF Welcomed, Wires
<1> QED BY <1>1, <1>3, <1>4, <1>5, <1>6, ConnectedCalm, TheEnds

LEMMA WelcomedMoves ==
  ASSUME Here, NEW now \in Nat, Clock(now), NEW x \in 0 .. Latency, Welcomed(now, x), Moves
  PROVE  OnTime'
<1>1. /\ Waits("initiator", "connect", timeout - 2 * Latency + x)
      /\ Accepting(now) /\ Wires(<<>>, <<Seg("synack", x)>>)
      /\ now + x <= LastConnect + 2 * Latency
  BY DEF Welcomed
<1>2. Awaiting("initiator", "connect") /\ Awaiting("target", "accept")
  BY <1>1 DEF Waits, Accepting
<1>3. /\ \A j : ~Arrives("target", j)
      /\ \A j : Arrives("initiator", j) <=> j = "synack"
  BY <1>1, WireIs DEF Wires
<1>4. Connected
  <2>1. ~InitiatorStarts /\ ~TargetStarts /\ ~TriesAgain
    BY <1>2, MovesTake DEF Awaiting, Running
  <2> QED BY <1>3, <2>1, MovesTake DEF Moves
<1>5. PICK what, k : /\ what = (IF test = "tls" THEN "handshake" ELSE "read")
                     /\ k = (IF test = "tls" THEN "hello" ELSE "request")
  OBVIOUS
<1>6. /\ UNCHANGED <<phase, left, result, attempt>>
      /\ Awaits("initiator", what, timeout)
      /\ Answers("initiator", <<"ack", k>>)
  BY <1>4, <1>5 DEF Connected, timingVars
<1>7. Clock(now)'
  BY <1>6, ClockStands DEF Here
<1>8. /\ stage'["initiator"] = what /\ timer'["initiator"] = timeout
      /\ stage'["target"] = stage["target"] /\ timer'["target"] = timer["target"]
  BY <1>6, TheEnds DEF Awaits, Here, TimesType
<1>9. Accepting(now)'
  BY <1>1, <1>6, <1>8, ListeningStands DEF Here, Listening
<1>10. Wires(<<Seg("ack", Latency), Seg(k, Latency)>>, <<>>)'
  BY <1>1, <1>6, AnswersOnly, TheEnds DEF Wires, Here, Undisturbed, Seg
<1>11. Waits("initiator", what, timeout - Latency + Latency)'
  <2>1. timeout - Latency + Latency = timeout /\ timeout >= timeout
    BY Numbers
  <2> QED BY <1>2, <1>6, <1>8, <2>1, Numbers DEF Waits, Awaiting, Running
<1>12. now + Latency <= LastConnect + 3 * Latency
  BY <1>1, Numbers
<1>13. Acknowledged(now, Latency)'
  BY <1>5, <1>9, <1>10, <1>11, <1>12, Numbers DEF Acknowledged
<1> QED BY <1>7, <1>13, Timely, Numbers

LEMMA WelcomedTicks ==
  ASSUME Here, NEW now \in Nat, Clock(now), NEW x \in 0 .. Latency, Welcomed(now, x), Tick
  PROVE  OnTime'
<1>1. /\ Waits("initiator", "connect", timeout - 2 * Latency + x)
      /\ Accepting(now) /\ Wires(<<>>, <<Seg("synack", x)>>)
      /\ now + x <= LastConnect + 2 * Latency
  BY DEF Welcomed
<1>2. x > 0 /\ Wires(<<>>, <<Seg("synack", x - 1)>>)'
  <2>1. x \in Int
    BY Numbers
  <2> QED BY <1>1, <2>1, WiresTick
<1>3. Clock(now + 1)'
  BY ClockTicks DEF Here
<1>4. Accepting(now + 1)'
  BY <1>1, ListeningTicks DEF Here, Listening
<1>5. Waits("initiator", "connect", timeout - 2 * Latency + (x - 1))'
  <2>1. PICK n \in Int : n = timeout - 2 * Latency + x
    BY Numbers
  <2>2. Waits("initiator", "connect", n - 1)'
    BY <1>1, <2>1, WaitsTick, TheEnds
  <2>3. n - 1 = timeout' - 2 * Latency + (x - 1)
    BY <2>1, Numbers
  <2> QED BY <2>2, <2>3 DEF Waits
<1>6. (now + 1) + (x - 1) <= LastConnect + 2 * Latency
  BY <1>1, Numbers
<1>7. Welcomed(now + 1, x - 1)'
  BY <1>2, <1>4, <1>5, <1>6, Numbers DEF Welcomed
<1> QED BY <1>2, <1>3, <1>7, Numbers, Timely

LEMMA AcknowledgedCalm ==
  ASSUME TypeInv, TimesType, Undisturbed, NEW now \in Nat, Clock(now), NEW x \in 0 .. Latency,
         Acknowledged(now, x)
  PROVE  \A e \in Ends : Calm(e)
<1>1. /\ Latency \in Nat /\ LastConnect \in Nat /\ timeout \in Nat /\ Retry \in Nat /\ x \in Nat
      /\ timer["initiator"] \in Int
  BY Amounts, TheEnds DEF TimesType
<1>2. InTime /\ Retry + 4 * Latency < timeout
  BY Margins DEF Undisturbed
<1>3. /\ now <= LastConnect + 3 * Latency
      /\ now + x <= LastConnect + (IF test = "tls" THEN 6 ELSE 4) * Latency
  BY <1>1 DEF Acknowledged
<1>4. Running("target") /\ stage["target"] = "accept" /\ timer["target"] > 0
  <2>1. Listening(now) /\ Awaiting("target", "accept")
    BY DEF Acknowledged, Accepting, Listening
  <2> QED BY <1>2, <1>3, <2>1, ListeningCalm DEF Awaiting
<1>5. /\ Running("initiator") /\ stage["initiator"] \in {"handshake", "read"}
      /\ timer["initiator"] > 0
  <2>1. /\ Awaiting("initiator", IF test = "tls" THEN "handshake" ELSE "read")
        /\ timer["initiator"] >= timeout - Latency + x
    BY DEF Acknowledged, Waits
  <2>2. timer["initiator"] > 0
    BY <1>1, <1>2, <2>1
  <2> QED BY <2>1, <2>2 DEF Awaiting
<1>6. /\ \A j : ~Arrives("initiator", j)
      /\ \A j : Arrives("target", j) <=> j = "ack"
  BY WireIs DEF Acknowledged, Wires
<1> QED BY <1>1, <1>3, <1>4, <1>5, <1>6, ConnectedCalm, TheEnds

LEMMA AcknowledgedMoves ==
  ASSUME Here, NEW now \in Nat, Clock(now), NEW x \in 0 .. Latency, Acknowledged(now, x), Moves
  PROVE  OnTime'
<1>1. PICK what, k : /\ what = (IF test = "tls" THEN "handshake" ELSE "read")
                     /\ k = (IF test = "tls" THEN "hello" ELSE "request")
  OBVIOUS
<1>2. /\ Waits("initiator", what, timeout - Latency + x)
      /\ Accepting(now)
      /\ Wires(<<Seg("ack", x), Seg(k, x)>>, <<>>)
      /\ now + x <= LastConnect + 3 * Latency
  BY <1>1 DEF Acknowledged
<1>3. Awaiting("initiator", what) /\ Awaiting("target", "accept")
  BY <1>2 DEF Waits, Accepting
<1>4. /\ \A j : ~Arrives("initiator", j)
      /\ \A j : Arrives("target", j) <=> j = "ack"
  BY <1>2, WireIs DEF Wires
<1>5. Accepts
  <2>1. ~InitiatorStarts /\ ~TargetStarts /\ ~TriesAgain
    BY <1>1, <1>3, MovesTake DEF Awaiting, Running
  <2> QED BY <1>4, <2>1, MovesTake DEF Moves
<1>6. /\ UNCHANGED <<phase, left, result, attempt>>
      /\ Awaits("target", what, timeout)
      /\ Answers("target", <<>>)
  BY <1>1, <1>5 DEF Accepts, timingVars
<1>7. Clock(now)'
  BY <1>6, ClockStands DEF Here
<1>8. /\ stage'["target"] = what /\ timer'["target"] = timeout
      /\ stage'["initiator"] = stage["initiator"] /\ timer'["initiator"] = timer["initiator"]
  BY <1>6, TheEnds DEF Awaits, Here, TimesType
<1>9. Wires(<<Seg(k, x)>>, <<>>)'
  BY <1>2, <1>6, TakesFirst, TheEnds DEF Wires, Here, Undisturbed, Seg
<1>10. Waits("initiator", what, timeout - Latency + x)'
  <2>1. PICK n : n = timeout - Latency + x
    OBVIOUS
  <2>2. Waits("initiator", what, n)'
    BY <1>2, <1>6, <1>8, <2>1, WaitsStands, TheEnds
  <2>3. n = timeout' - Latency + x
    BY <2>1, Numbers
  <2> QED BY <2>2, <2>3 DEF Waits
<1>11. Waits("target", what, timeout - Latency + x)'
  <2>1. timeout >= timeout' - Latency + x
    BY Numbers
  <2> QED BY <1>3, <1>6, <1>8, <2>1 DEF Waits, Awaiting, Running
<1>12. CASE test = "tls"
  <2>1. Greeting(now, x)'
    BY <1>1, <1>2, <1>9, <1>10, <1>11, <1>12, Numbers DEF Greeting
  <2> QED BY <1>7, <2>1, Timely
<1>13. CASE test # "tls"
  <2>1. Flights' = 5
    BY <1>13, Numbers DEF Flights
  <2>2. now + x <= LastConnect' + (Flights' - 2) * Latency
    BY <1>2, <2>1, Numbers
  <2>3. Requested(now, x)'
    BY <1>1, <1>9, <1>10, <1>11, <1>13, <2>2 DEF Requested
  <2> QED BY <1>7, <2>3, Timely
<1> QED BY <1>12, <1>13

LEMMA AcknowledgedTicks ==
  ASSUME Here, NEW now \in Nat, Clock(now), NEW x \in 0 .. Latency, Acknowledged(now, x), Tick
  PROVE  OnTime'
<1>1. PICK what, k : /\ what = (IF test = "tls" THEN "handshake" ELSE "read")
                     /\ k = (IF test = "tls" THEN "hello" ELSE "request")
  OBVIOUS
<1>2. /\ Waits("initiator", what, timeout - Latency + x)
      /\ Accepting(now)
      /\ Wires(<<Seg("ack", x), Seg(k, x)>>, <<>>)
      /\ now + x <= LastConnect + 3 * Latency
  BY <1>1 DEF Acknowledged
<1>3. x > 0 /\ Wires(<<Seg("ack", x - 1), Seg(k, x - 1)>>, <<>>)'
  <2>1. x \in Int
    BY Numbers
  <2> QED BY <1>2, <2>1, WiresTick
<1>4. Clock(now + 1)'
  BY ClockTicks DEF Here
<1>5. Accepting(now + 1)'
  BY <1>2, ListeningTicks DEF Here, Listening
<1>6. Waits("initiator", what, timeout - Latency + (x - 1))'
  <2>1. PICK n \in Int : n = timeout - Latency + x
    BY Numbers
  <2>2. Waits("initiator", what, n - 1)'
    BY <1>2, <2>1, WaitsTick, TheEnds
  <2>3. n - 1 = timeout' - Latency + (x - 1)
    BY <2>1, Numbers
  <2> QED BY <2>2, <2>3 DEF Waits
<1>7. (now + 1) + (x - 1) <= LastConnect + 3 * Latency
  BY <1>2, Numbers
<1>8. Acknowledged(now + 1, x - 1)'
  BY <1>1, <1>3, <1>5, <1>6, <1>7, Numbers DEF Acknowledged
<1> QED BY <1>3, <1>4, <1>8, Numbers, Timely

\* What nothing has altered is what was sent: it parses, and it is a valid answer.
LEMMA AsSent ==
  ASSUME net.altered = {}
  PROVE  /\ Parses(QueryRead(Query, net.altered, net.part))
         /\ dns_tcp_initiator = Pass
         /\ roundtrip = Pass
<1>1. /\ QueryRead(Query, net.altered, net.part) = Query
      /\ ResponseRead(Query, net.altered, net.part) = build_dns_response(Query)
  BY DEF QueryRead, ResponseRead
<1>2. PICK names : names = <<"bimap.test">>
  OBVIOUS
<1>3. names # <<>>
  BY <1>2
<1>4. Query = [id |-> 0, kind |-> "query", queries |-> names, answers |-> <<>>]
  BY <1>2 DEF Query, build_dns_query
<1>5. PICK answers : answers = <<"A">>
  OBVIOUS
<1>6. build_dns_response(Query) =
        [id |-> 0, kind |-> "response", queries |-> names, answers |-> answers]
  BY <1>4, <1>5 DEF build_dns_response
<1>7. validate_dns_response(Query, build_dns_response(Query))
  BY <1>3, <1>4, <1>6 DEF validate_dns_response, Parses
<1> QED BY <1>1, <1>4, <1>7 DEF dns_tcp_initiator, roundtrip, Parses

LEMMA GreetingCalm ==
  ASSUME TypeInv, TimesType, Undisturbed, NEW now \in Nat, Clock(now), NEW x \in 0 .. Latency,
         Greeting(now, x)
  PROVE  \A e \in Ends : Calm(e)
<1>1. /\ Latency \in Nat /\ LastConnect \in Nat /\ timeout \in Nat /\ Retry \in Nat /\ x \in Nat
      /\ timer["initiator"] \in Int /\ timer["target"] \in Int
  BY Amounts, TheEnds DEF TimesType
<1>2. InTime /\ Retry + 4 * Latency < timeout
  BY Margins DEF Undisturbed
<1>3. now + x <= LastConnect + (IF test = "tls" THEN 6 ELSE 4) * Latency
  BY <1>1 DEF Greeting
<1>4. Running("initiator") /\ stage["initiator"] = "handshake" /\ timer["initiator"] > 0
  <2>1. Awaiting("initiator", "handshake") /\ timer["initiator"] >= timeout - Latency + x
    BY DEF Greeting, Waits
  <2> QED BY <1>1, <1>2, <2>1 DEF Awaiting
<1>5. Running("target") /\ stage["target"] = "handshake" /\ timer["target"] > 0
  <2>1. Awaiting("target", "handshake") /\ timer["target"] >= timeout - Latency + x
    BY DEF Greeting, Waits
  <2> QED BY <1>1, <1>2, <2>1 DEF Awaiting
<1>6. /\ \A j : ~Arrives("initiator", j)
      /\ \A j : Arrives("target", j) <=> j = "hello"
  BY WireIs DEF Greeting, Wires
<1> QED BY <1>1, <1>3, <1>4, <1>5, <1>6, ConnectedCalm, TheEnds

LEMMA GreetingMoves ==
  ASSUME Here, NEW now \in Nat, Clock(now), NEW x \in 0 .. Latency, Greeting(now, x), Moves
  PROVE  OnTime'
<1>1. /\ test = "tls" /\ Waits("initiator", "handshake", timeout - Latency + x)
      /\ Waits("target", "handshake", timeout - Latency + x)
      /\ Wires(<<Seg("hello", x)>>, <<>>)
      /\ now + x <= LastConnect + 3 * Latency
  BY DEF Greeting
<1>2. /\ Awaiting("initiator", "handshake") /\ timer["initiator"] >= timeout - Latency + x
      /\ Awaiting("target", "handshake") /\ timer["target"] >= timeout - Latency + x
  BY <1>1 DEF Waits
<1>3. /\ \A j : ~Arrives("initiator", j)
      /\ \A j : Arrives("target", j) <=> j = "hello"
  BY <1>1, WireIs DEF Wires
<1>4. TargetHandshake
  <2>1. ~InitiatorStarts /\ ~TargetStarts /\ ~TriesAgain
    BY <1>2, MovesTake DEF Awaiting, Running
  <2> QED BY <1>3, <2>1, MovesTake DEF Moves
<1>5. /\ UNCHANGED <<phase, left, result, stage, timer, attempt>>
      /\ Answers("target", <<"serverhello">>)
  <2>1. Arrives("target", "hello") /\ ~Arrives("target", "finished")
    BY <1>3
  <2> QED BY <1>4, <2>1 DEF TargetHandshake, timingVars
<1>6. Clock(now)'
  BY <1>5, ClockStands DEF Here
<1>7. Wires(<<>>, <<Seg("serverhello", Latency)>>)'
  BY <1>1, <1>5, AnswersOnly, TheEnds DEF Wires, Here, Undisturbed, Seg
<1>8. /\ timer["initiator"] >= timeout - 2 * Latency + Latency
      /\ timer["target"] >= timeout - 2 * Latency + Latency
      /\ now + Latency <= LastConnect + 4 * Latency
  <2>1. PICK l \in Nat, w \in Nat, c \in Nat, t \in Int, u \in Int :
          /\ l = Latency /\ w = timeout /\ c = LastConnect
          /\ t = timer["initiator"] /\ u = timer["target"]
    BY Numbers
  <2>2. x \in Nat /\ t >= w - l + x /\ u >= w - l + x /\ now + x <= c + 3 * l
    BY <1>1, <1>2, <2>1
  <2>3. t >= w - 2 * l + l /\ u >= w - 2 * l + l /\ now + l <= c + 4 * l
    BY <2>2
  <2> QED BY <2>1, <2>3
<1>9. Greeted(now, Latency)'
  BY <1>1, <1>2, <1>5, <1>7, <1>8, Numbers DEF Greeted, Waits, Awaiting, Running
<1> QED BY <1>6, <1>9, Timely, Numbers

LEMMA GreetingTicks ==
  ASSUME Here, NEW now \in Nat, Clock(now), NEW x \in 0 .. Latency, Greeting(now, x), Tick
  PROVE  OnTime'
<1>1. /\ Waits("initiator", "handshake", timeout - Latency + x)
      /\ Waits("target", "handshake", timeout - Latency + x)
      /\ Wires(<<Seg("hello", x)>>, <<>>)
      /\ now + x <= LastConnect + 3 * Latency
  BY DEF Greeting
<1>2. x > 0 /\ Wires(<<Seg("hello", x - 1)>>, <<>>)'
  <2>1. x \in Int
    BY Numbers
  <2> QED BY <1>1, <2>1, WiresTick
<1>3. Clock(now + 1)'
  BY ClockTicks DEF Here
<1>4. Waits("initiator", "handshake", timeout - Latency + (x - 1))'
  <2>1. PICK n \in Int : n = timeout - Latency + x
    BY Numbers
  <2>2. Waits("initiator", "handshake", n - 1)'
    BY <1>1, <2>1, WaitsTick, TheEnds
  <2>3. n - 1 = timeout' - Latency + (x - 1)
    BY <2>1, Numbers
  <2> QED BY <2>2, <2>3 DEF Waits
<1>5. Waits("target", "handshake", timeout - Latency + (x - 1))'
  <2>1. PICK n \in Int : n = timeout - Latency + x
    BY Numbers
  <2>2. Waits("target", "handshake", n - 1)'
    BY <1>1, <2>1, WaitsTick, TheEnds
  <2>3. n - 1 = timeout' - Latency + (x - 1)
    BY <2>1, Numbers
  <2> QED BY <2>2, <2>3 DEF Waits
<1>6. (now + 1) + (x - 1) <= LastConnect + 3 * Latency
  BY <1>1, Numbers
<1>7. Greeting(now + 1, x - 1)'
  BY <1>2, <1>4, <1>5, <1>6, Numbers DEF Greeting
<1> QED BY <1>2, <1>3, <1>7, Numbers, Timely

LEMMA GreetedCalm ==
  ASSUME TypeInv, TimesType, Undisturbed, NEW now \in Nat, Clock(now), NEW x \in 0 .. Latency,
         Greeted(now, x)
  PROVE  \A e \in Ends : Calm(e)
<1>1. /\ Latency \in Nat /\ LastConnect \in Nat /\ timeout \in Nat /\ Retry \in Nat /\ x \in Nat
      /\ timer["initiator"] \in Int /\ timer["target"] \in Int
  BY Amounts, TheEnds DEF TimesType
<1>2. InTime /\ Retry + 4 * Latency < timeout
  BY Margins DEF Undisturbed
<1>3. now + x <= LastConnect + (IF test = "tls" THEN 6 ELSE 4) * Latency
  BY <1>1 DEF Greeted
<1>4. Running("initiator") /\ stage["initiator"] = "handshake" /\ timer["initiator"] > 0
  <2>1. Awaiting("initiator", "handshake") /\ timer["initiator"] >= timeout - 2 * Latency + x
    BY DEF Greeted, Waits
  <2> QED BY <1>1, <1>2, <2>1 DEF Awaiting
<1>5. Running("target") /\ stage["target"] = "handshake" /\ timer["target"] > 0
  <2>1. Awaiting("target", "handshake") /\ timer["target"] >= timeout - 2 * Latency + x
    BY DEF Greeted, Waits
  <2> QED BY <1>1, <1>2, <2>1 DEF Awaiting
<1>6. /\ \A j : ~Arrives("target", j)
      /\ \A j : Arrives("initiator", j) <=> j = "serverhello"
  BY WireIs DEF Greeted, Wires
<1> QED BY <1>1, <1>3, <1>4, <1>5, <1>6, ConnectedCalm, TheEnds

LEMMA GreetedMoves ==
  ASSUME Here, NEW now \in Nat, Clock(now), NEW x \in 0 .. Latency, Greeted(now, x), Moves
  PROVE  OnTime'
<1>1. /\ test = "tls" /\ Waits("initiator", "handshake", timeout - 2 * Latency + x)
      /\ Waits("target", "handshake", timeout - 2 * Latency + x)
      /\ Wires(<<>>, <<Seg("serverhello", x)>>)
      /\ now + x <= LastConnect + 4 * Latency
  BY DEF Greeted
<1>2. /\ Awaiting("initiator", "handshake")
      /\ Awaiting("target", "handshake") /\ timer["target"] >= timeout - 2 * Latency + x
  BY <1>1 DEF Waits
<1>3. /\ \A j : ~Arrives("target", j)
      /\ \A j : Arrives("initiator", j) <=> j = "serverhello"
  BY <1>1, WireIs DEF Wires
<1>4. InitiatorHandshake
  <2>1. ~InitiatorStarts /\ ~TargetStarts /\ ~TriesAgain
    BY <1>2, MovesTake DEF Awaiting, Running
  <2> QED BY <1>3, <2>1, MovesTake DEF Moves
<1>5. /\ UNCHANGED <<phase, left, result, attempt>>
      /\ Awaits("initiator", "read", timeout)
      /\ Answers("initiator", <<"finished", "request">>)
  BY <1>4 DEF InitiatorHandshake, timingVars
<1>6. Clock(now)'
  BY <1>5, ClockStands DEF Here
<1>7. /\ stage'["initiator"] = "read" /\ timer'["initiator"] = timeout
      /\ stage'["target"] = stage["target"] /\ timer'["target"] = timer["target"]
  BY <1>5, TheEnds DEF Awaits, Here, TimesType
<1>8. Wires(<<Seg("finished", Latency), Seg("request", Latency)>>, <<>>)'
  BY <1>1, <1>5, AnswersOnly, TheEnds DEF Wires, Here, Undisturbed, Seg
<1>9. /\ timeout >= timeout - Latency + Latency
      /\ timer["target"] >= timeout - 3 * Latency + Latency
      /\ now + Latency <= LastConnect + 5 * Latency
  <2>1. PICK l \in Nat, w \in Nat, c \in Nat, u \in Int :
          l = Latency /\ w = timeout /\ c = LastConnect /\ u = timer["target"]
    BY Numbers
  <2>2. x \in Nat /\ u >= w - 2 * l + x /\ now + x <= c + 4 * l
    BY <1>1, <1>2, <2>1
  <2>3. w >= w - l + l /\ u >= w - 3 * l + l /\ now + l <= c + 5 * l
    BY <2>2
  <2> QED BY <2>1, <2>3
<1>10. Secured(now, Latency)'
  BY <1>1, <1>2, <1>5, <1>7, <1>8, <1>9, Numbers DEF Secured, Waits, Awaiting, Running
<1> QED BY <1>6, <1>10, Timely, Numbers

LEMMA GreetedTicks ==
  ASSUME Here, NEW now \in Nat, Clock(now), NEW x \in 0 .. Latency, Greeted(now, x), Tick
  PROVE  OnTime'
<1>1. /\ Waits("initiator", "handshake", timeout - 2 * Latency + x)
      /\ Waits("target", "handshake", timeout - 2 * Latency + x)
      /\ Wires(<<>>, <<Seg("serverhello", x)>>)
      /\ now + x <= LastConnect + 4 * Latency
  BY DEF Greeted
<1>2. x > 0 /\ Wires(<<>>, <<Seg("serverhello", x - 1)>>)'
  <2>1. x \in Int
    BY Numbers
  <2> QED BY <1>1, <2>1, WiresTick
<1>3. Clock(now + 1)'
  BY ClockTicks DEF Here
<1>4. Waits("initiator", "handshake", timeout - 2 * Latency + (x - 1))'
  <2>1. PICK n \in Int : n = timeout - 2 * Latency + x
    BY Numbers
  <2>2. Waits("initiator", "handshake", n - 1)'
    BY <1>1, <2>1, WaitsTick, TheEnds
  <2>3. n - 1 = timeout' - 2 * Latency + (x - 1)
    BY <2>1, Numbers
  <2> QED BY <2>2, <2>3 DEF Waits
<1>5. Waits("target", "handshake", timeout - 2 * Latency + (x - 1))'
  <2>1. PICK n \in Int : n = timeout - 2 * Latency + x
    BY Numbers
  <2>2. Waits("target", "handshake", n - 1)'
    BY <1>1, <2>1, WaitsTick, TheEnds
  <2>3. n - 1 = timeout' - 2 * Latency + (x - 1)
    BY <2>1, Numbers
  <2> QED BY <2>2, <2>3 DEF Waits
<1>6. (now + 1) + (x - 1) <= LastConnect + 4 * Latency
  BY <1>1, Numbers
<1>7. Greeted(now + 1, x - 1)'
  BY <1>2, <1>4, <1>5, <1>6, Numbers DEF Greeted
<1> QED BY <1>2, <1>3, <1>7, Numbers, Timely

LEMMA SecuredCalm ==
  ASSUME TypeInv, TimesType, Undisturbed, NEW now \in Nat, Clock(now), NEW x \in 0 .. Latency,
         Secured(now, x)
  PROVE  \A e \in Ends : Calm(e)
<1>1. /\ Latency \in Nat /\ LastConnect \in Nat /\ timeout \in Nat /\ Retry \in Nat /\ x \in Nat
      /\ timer["initiator"] \in Int /\ timer["target"] \in Int
  BY Amounts, TheEnds DEF TimesType
<1>2. InTime /\ Retry + 4 * Latency < timeout
  BY Margins DEF Undisturbed
<1>3. now + x <= LastConnect + (IF test = "tls" THEN 6 ELSE 4) * Latency
  BY <1>1 DEF Secured
<1>4. Running("initiator") /\ stage["initiator"] = "read" /\ timer["initiator"] > 0
  <2>1. Awaiting("initiator", "read") /\ timer["initiator"] >= timeout - Latency + x
    BY DEF Secured, Waits
  <2> QED BY <1>1, <1>2, <2>1 DEF Awaiting
<1>5. Running("target") /\ stage["target"] = "handshake" /\ timer["target"] > 0
  <2>1. Awaiting("target", "handshake") /\ timer["target"] >= timeout - 3 * Latency + x
    BY DEF Secured, Waits
  <2> QED BY <1>1, <1>2, <2>1 DEF Awaiting
<1>6. /\ \A j : ~Arrives("initiator", j)
      /\ \A j : Arrives("target", j) <=> j = "finished"
  BY WireIs DEF Secured, Wires
<1> QED BY <1>1, <1>3, <1>4, <1>5, <1>6, ConnectedCalm, TheEnds

LEMMA SecuredMoves ==
  ASSUME Here, NEW now \in Nat, Clock(now), NEW x \in 0 .. Latency, Secured(now, x), Moves
  PROVE  OnTime'
<1>1. /\ test = "tls" /\ Waits("initiator", "read", timeout - Latency + x)
      /\ Waits("target", "handshake", timeout - 3 * Latency + x)
      /\ Wires(<<Seg("finished", x), Seg("request", x)>>, <<>>)
      /\ now + x <= LastConnect + 5 * Latency
  BY DEF Secured
<1>2. /\ Awaiting("initiator", "read") /\ timer["initiator"] >= timeout - Latency + x
      /\ Awaiting("target", "handshake")
  BY <1>1 DEF Waits
<1>3. /\ \A j : ~Arrives("initiator", j)
      /\ \A j : Arrives("target", j) <=> j = "finished"
  BY <1>1, WireIs DEF Wires
<1>4. TargetHandshake
  <2>1. ~InitiatorStarts /\ ~TargetStarts /\ ~TriesAgain
    BY <1>2, MovesTake DEF Awaiting, Running
  <2> QED BY <1>2, <1>3, <2>1, MovesTake DEF Moves, Awaiting
<1>5. /\ UNCHANGED <<phase, left, result, attempt>>
      /\ Awaits("target", "read", timeout)
      /\ Answers("target", <<>>)
  <2>1. Arrives("target", "finished") /\ ~Arrives("target", "hello")
    BY <1>3
  <2> QED BY <1>4, <2>1 DEF TargetHandshake, timingVars
<1>6. Clock(now)'
  BY <1>5, ClockStands DEF Here
<1>7. /\ stage'["target"] = "read" /\ timer'["target"] = timeout
      /\ stage'["initiator"] = stage["initiator"] /\ timer'["initiator"] = timer["initiator"]
  BY <1>5, TheEnds DEF Awaits, Here, TimesType
<1>8. Wires(<<Seg("request", x)>>, <<>>)'
  BY <1>1, <1>5, TakesFirst, TheEnds DEF Wires, Here, Undisturbed, Seg
<1>9. timeout >= timeout - Latency + x
  BY Numbers
<1>10. Flights' = 7
  BY <1>1, Numbers DEF Flights
<1>11. now + x <= LastConnect + (Flights' - 2) * Latency
  BY <1>1, <1>10, Numbers
<1>12. Requested(now, x)'
  BY <1>2, <1>5, <1>7, <1>8, <1>9, <1>11, Numbers DEF Requested, Waits, Awaiting, Running
<1> QED BY <1>6, <1>12, Timely

LEMMA SecuredTicks ==
  ASSUME Here, NEW now \in Nat, Clock(now), NEW x \in 0 .. Latency, Secured(now, x), Tick
  PROVE  OnTime'
<1>1. /\ Waits("initiator", "read", timeout - Latency + x)
      /\ Waits("target", "handshake", timeout - 3 * Latency + x)
      /\ Wires(<<Seg("finished", x), Seg("request", x)>>, <<>>)
      /\ now + x <= LastConnect + 5 * Latency
  BY DEF Secured
<1>2. x > 0 /\ Wires(<<Seg("finished", x - 1), Seg("request", x - 1)>>, <<>>)'
  <2>1. x \in Int
    BY Numbers
  <2> QED BY <1>1, <2>1, WiresTick
<1>3. Clock(now + 1)'
  BY ClockTicks DEF Here
<1>4. Waits("initiator", "read", timeout - Latency + (x - 1))'
  <2>1. PICK n \in Int : n = timeout - Latency + x
    BY Numbers
  <2>2. Waits("initiator", "read", n - 1)'
    BY <1>1, <2>1, WaitsTick, TheEnds
  <2>3. n - 1 = timeout' - Latency + (x - 1)
    BY <2>1, Numbers
  <2> QED BY <2>2, <2>3 DEF Waits
<1>5. Waits("target", "handshake", timeout - 3 * Latency + (x - 1))'
  <2>1. PICK n \in Int : n = timeout - 3 * Latency + x
    BY Numbers
  <2>2. Waits("target", "handshake", n - 1)'
    BY <1>1, <2>1, WaitsTick, TheEnds
  <2>3. n - 1 = timeout' - 3 * Latency + (x - 1)
    BY <2>1, Numbers
  <2> QED BY <2>2, <2>3 DEF Waits
<1>6. (now + 1) + (x - 1) <= LastConnect + 5 * Latency
  BY <1>1, Numbers
<1>7. Secured(now + 1, x - 1)'
  BY <1>2, <1>4, <1>5, <1>6, Numbers DEF Secured
<1> QED BY <1>2, <1>3, <1>7, Numbers, Timely

LEMMA RequestedCalm ==
  ASSUME TypeInv, TimesType, Undisturbed, NEW now \in Nat, Clock(now), NEW x \in 0 .. Latency,
         Requested(now, x)
  PROVE  \A e \in Ends : Calm(e)
<1>1. /\ Latency \in Nat /\ LastConnect \in Nat /\ timeout \in Nat /\ Retry \in Nat /\ x \in Nat
      /\ timer["initiator"] \in Int /\ timer["target"] \in Int
  BY Amounts, TheEnds DEF TimesType
<1>2. InTime /\ Retry + 4 * Latency < timeout
  BY Margins DEF Undisturbed
<1>3. now + x <= LastConnect + (IF test = "tls" THEN 6 ELSE 4) * Latency
  BY <1>1 DEF Requested, Flights
<1>4. Running("initiator") /\ stage["initiator"] = "read" /\ timer["initiator"] > 0
  <2>1. Awaiting("initiator", "read") /\ timer["initiator"] >= timeout - Latency + x
    BY DEF Requested, Waits
  <2> QED BY <1>1, <1>2, <2>1 DEF Awaiting
<1>5. Running("target") /\ stage["target"] = "read" /\ timer["target"] > 0
  <2>1. Awaiting("target", "read") /\ timer["target"] >= timeout - Latency + x
    BY DEF Requested, Waits
  <2> QED BY <1>1, <1>2, <2>1 DEF Awaiting
<1>6. /\ \A j : ~Arrives("initiator", j)
      /\ \A j : Arrives("target", j) <=> j = "request"
  BY WireIs DEF Requested, Wires
<1> QED BY <1>1, <1>3, <1>4, <1>5, <1>6, ConnectedCalm, TheEnds

LEMMA RequestedMoves ==
  ASSUME Here, NEW now \in Nat, Clock(now), NEW x \in 0 .. Latency, Requested(now, x), Moves
  PROVE  OnTime'
<1>1. /\ Waits("initiator", "read", timeout - Latency + x)
      /\ Waits("target", "read", timeout - Latency + x)
      /\ Wires(<<Seg("request", x)>>, <<>>)
      /\ now + x <= LastConnect + (Flights - 2) * Latency
  BY DEF Requested
<1>2. /\ Awaiting("initiator", "read") /\ timer["initiator"] >= timeout - Latency + x
      /\ Awaiting("target", "read")
  BY <1>1 DEF Waits
<1>3. /\ \A j : ~Arrives("initiator", j)
      /\ \A j : Arrives("target", j) <=> j = "request"
  BY <1>1, WireIs DEF Wires
<1>4. Echoes \/ AnswersQuery
  <2>1. ~InitiatorStarts /\ ~TargetStarts /\ ~TriesAgain
    BY <1>2, MovesTake DEF Awaiting, Running
  <2> QED BY <1>3, <2>1, MovesTake DEF Moves
<1>5. /\ Returns("target", Pass) /\ Answers("target", <<"reply", "eof">>) /\ UNCHANGED attempt
  <2>1. net.altered = {}
    BY DEF Here, Undisturbed
  <2>2. CASE Echoes
    BY <2>1, <2>2 DEF Echoes
  <2>3. CASE AnswersQuery
    <3>1. Parses(QueryRead(Query, net.altered, net.part))
      BY <2>1, AsSent
    <3> QED BY <2>3, <3>1 DEF AnswersQuery
  <2> QED BY <1>4, <2>2, <2>3
<1>6. Finishes("target", Pass) /\ Awaits("target", None, 0)
  BY <1>5 DEF Returns
<1>7. /\ Clock(now)' /\ phase'["target"] = "over" /\ result'["target"] = Pass
      /\ phase'["initiator"] = phase["initiator"]
  BY <1>6, ClockFinishes, TheEnds DEF Here
<1>8. stage'["initiator"] = stage["initiator"] /\ timer'["initiator"] = timer["initiator"]
  BY <1>6, TheEnds DEF Awaits, Here, TimesType
<1>9. Wires(<<>>, <<Seg("reply", Latency), Seg("eof", Latency)>>)'
  BY <1>1, <1>5, AnswersOnly, TheEnds DEF Wires, Here, Undisturbed, Seg
<1>10. timer["initiator"] >= timeout - 2 * Latency + Latency
  BY <1>2, Numbers
<1>11. now + Latency <= LastConnect + (Flights - 1) * Latency
  <2>1. Flights \in {5, 7}
    BY DEF Flights
  <2> QED BY <1>1, <2>1, Numbers
<1>12. Flights' = Flights
  BY FixedHere DEF Here
<1>13. Replying(now, Latency)'
  BY <1>2, <1>7, <1>8, <1>9, <1>10, <1>11, <1>12, Numbers DEF Replying, Waits, Awaiting, Running
<1> QED BY <1>7, <1>13, Timely, Numbers

LEMMA RequestedTicks ==
  ASSUME Here, NEW now \in Nat, Clock(now), NEW x \in 0 .. Latency, Requested(now, x), Tick
  PROVE  OnTime'
<1>1. /\ Waits("initiator", "read", timeout - Latency + x)
      /\ Waits("target", "read", timeout - Latency + x)
      /\ Wires(<<Seg("request", x)>>, <<>>)
      /\ now + x <= LastConnect + (Flights - 2) * Latency
  BY DEF Requested
<1>2. x > 0 /\ Wires(<<Seg("request", x - 1)>>, <<>>)'
  <2>1. x \in Int
    BY Numbers
  <2> QED BY <1>1, <2>1, WiresTick
<1>3. Clock(now + 1)'
  BY ClockTicks DEF Here
<1>4. Waits("initiator", "read", timeout - Latency + (x - 1))'
  <2>1. PICK n \in Int : n = timeout - Latency + x
    BY Numbers
  <2>2. Waits("initiator", "read", n - 1)'
    BY <1>1, <2>1, WaitsTick, TheEnds
  <2>3. n - 1 = timeout' - Latency + (x - 1)
    BY <2>1, Numbers
  <2> QED BY <2>2, <2>3 DEF Waits
<1>5. Waits("target", "read", timeout - Latency + (x - 1))'
  <2>1. PICK n \in Int : n = timeout - Latency + x
    BY Numbers
  <2>2. Waits("target", "read", n - 1)'
    BY <1>1, <2>1, WaitsTick, TheEnds
  <2>3. n - 1 = timeout' - Latency + (x - 1)
    BY <2>1, Numbers
  <2> QED BY <2>2, <2>3 DEF Waits
<1>6. (now + 1) + (x - 1) <= LastConnect + (Flights - 2) * Latency
  <2>1. PICK m \in Int : m = (Flights - 2) * Latency
    BY Numbers DEF Flights
  <2> QED BY <1>1, <2>1, Numbers
<1>7. Requested(now + 1, x - 1)'
  BY <1>2, <1>4, <1>5, <1>6, Numbers, FixedHere DEF Requested, Here
<1> QED BY <1>2, <1>3, <1>7, Numbers, Timely

LEMMA ReplyingCalm ==
  ASSUME TypeInv, TimesType, Undisturbed, NEW now \in Nat, Clock(now), NEW x \in 0 .. Latency,
         Replying(now, x)
  PROVE  \A e \in Ends : Calm(e)
<1>1. /\ Latency \in Nat /\ LastConnect \in Nat /\ timeout \in Nat /\ Retry \in Nat /\ x \in Nat
      /\ timer["initiator"] \in Int
  BY Amounts, TheEnds DEF TimesType
<1>2. InTime /\ Retry + 4 * Latency < timeout
  BY Margins DEF Undisturbed
<1>3. now <= LastConnect + (IF test = "tls" THEN 6 ELSE 4) * Latency
  BY <1>1 DEF Replying, Flights
<1>4. \A e \in Ends : Running(e) => left[e] > 0
  BY <1>1, <1>2, <1>3, InDeadline
<1>5. Running("initiator") /\ stage["initiator"] = "read" /\ timer["initiator"] > 0
  <2>1. Awaiting("initiator", "read") /\ timer["initiator"] >= timeout - 2 * Latency + x
    BY DEF Replying, Waits
  <2> QED BY <1>1, <1>2, <2>1 DEF Awaiting
<1>6. ~Running("target") /\ wire["target"] = <<>>
  BY DEF Replying, Running, Wires
<1>7. \A j : Arrives("initiator", j) <=> j = "reply"
  BY WireIs DEF Replying, Wires
<1>8. Calm("initiator") /\ Calm("target")
  BY <1>4, <1>5, <1>6, <1>7, TheEnds DEF Calm
<1> QED BY <1>8, TheEnds

LEMMA ReplyingMoves ==
  ASSUME Here, NEW now \in Nat, Clock(now), NEW x \in 0 .. Latency, Replying(now, x), Moves
  PROVE  OnTime'
<1>1. /\ Waits("initiator", "read", timeout - 2 * Latency + x)
      /\ phase["target"] = "over" /\ result["target"] = Pass
      /\ Wires(<<>>, <<Seg("reply", x), Seg("eof", x)>>)
  BY DEF Replying
<1>2. Awaiting("initiator", "read")
  BY <1>1 DEF Waits
<1>3. /\ \A j : ~Arrives("target", j)
      /\ \A j : Arrives("initiator", j) <=> j = "reply"
  BY <1>1, WireIs DEF Wires
<1>4. Replied
  <2>1. ~InitiatorStarts /\ ~TargetStarts /\ ~TriesAgain
    BY <1>1, <1>2, MovesTake DEF Awaiting, Running
  <2> QED BY <1>3, <2>1, MovesTake DEF Moves
<1>5. Finishes("initiator", Pass)
  BY <1>4, AsSent DEF Replied, Returns, Here, Undisturbed
<1>6. /\ Clock(now)' /\ phase'["initiator"] = "over" /\ result'["initiator"] = Pass
      /\ phase'["target"] = phase["target"] /\ result'["target"] = result["target"]
  BY <1>5, ClockFinishes, TheEnds DEF Here
<1>7. Through'
  BY <1>1, <1>6, TheEnds DEF Through
<1> QED BY <1>6, <1>7, Timely

LEMMA ReplyingTicks ==
  ASSUME Here, NEW now \in Nat, Clock(now), NEW x \in 0 .. Latency, Replying(now, x), Tick
  PROVE  OnTime'
<1>1. /\ Waits("initiator", "read", timeout - 2 * Latency + x)
      /\ phase["target"] = "over" /\ result["target"] = Pass
      /\ Wires(<<>>, <<Seg("reply", x), Seg("eof", x)>>)
      /\ now + x <= LastConnect + (Flights - 1) * Latency
  BY DEF Replying
<1>2. x > 0 /\ Wires(<<>>, <<Seg("reply", x - 1), Seg("eof", x - 1)>>)'
  <2>1. x \in Int
    BY Numbers
  <2> QED BY <1>1, <2>1, WiresTick
<1>3. Clock(now + 1)' /\ UNCHANGED <<phase, result>>
  BY ClockTicks DEF Here
<1>4. Waits("initiator", "read", timeout - 2 * Latency + (x - 1))'
  <2>1. PICK n \in Int : n = timeout - 2 * Latency + x
    BY Numbers
  <2>2. Waits("initiator", "read", n - 1)'
    BY <1>1, <2>1, WaitsTick, TheEnds
  <2>3. n - 1 = timeout' - 2 * Latency + (x - 1)
    BY <2>1, Numbers
  <2> QED BY <2>2, <2>3 DEF Waits
<1>5. (now + 1) + (x - 1) <= LastConnect + (Flights - 1) * Latency
  <2>1. PICK m \in Int : m = (Flights - 1) * Latency
    BY Numbers DEF Flights
  <2> QED BY <1>1, <2>1, Numbers
<1>6. Replying(now + 1, x - 1)'
  BY <1>1, <1>2, <1>3, <1>4, <1>5, Numbers, FixedHere DEF Replying, Here
<1> QED BY <1>2, <1>3, <1>6, Numbers, Timely

-----------------------------------------------------------------------------
(* Both ends have passed, and stay so. *)

LEMMA ThroughStays ==
  ASSUME Through, Steps \/ Tick
  PROVE  OnTime'
<1>1. \A e \in Ends : phase[e] = "over"
  BY DEF Through
<1>2. UNCHANGED <<phase, result>>
  <2>1. \A e \in Ends, what \in Awaited : ~Awaiting(e, what)
    BY <1>1 DEF Awaiting, Running
  <2>2. \A e \in Ends : \A ticks : ~Starts(e, ticks)
    BY <1>1 DEF Starts
  <2>3. \A e \in Ends : \A o : ~Finishes(e, o) /\ ~Returns(e, o)
    BY <1>1 DEF Finishes, Returns, Running
  <2>4. ~InitiatorStarts /\ ~TargetStarts
    BY <2>2, TheEnds DEF InitiatorStarts, TargetStarts
  <2>5. /\ ~Refused /\ ~Unreachable /\ ~ConnectTimeout /\ ~TriesAgain /\ ~Connected
        /\ ~InitiatorHandshake /\ ~Replied
    BY <1>1, TheEnds DEF Refused, Unreachable, ConnectTimeout, TriesAgain, Connected,
       InitiatorHandshake, Replied, Expired, Awaiting, Running
  <2>6. ~BindFails /\ ~Accepts /\ ~TargetHandshake /\ ~Echoes /\ ~AnswersQuery
    BY <1>1, TheEnds DEF BindFails, Accepts, TargetHandshake, Echoes, AnswersQuery, Awaiting, Running
  <2>7. \A e \in Ends : ~PeerGone(e) /\ ~TimesOut(e) /\ ~CutShort(e)
    BY <1>1, <2>3 DEF PeerGone, TimesOut, CutShort, DeadlinePasses
  <2>8. Syn => UNCHANGED <<phase, result>>
    BY DEF Syn, timingVars
  <2>9. \A e \in Ends : Strays(e) => UNCHANGED <<phase, result>>
    BY DEF Strays, timingVars
  <2>10. Reports => UNCHANGED <<phase, result>>
    BY DEF Reports, ReadReport, GiveUp
  <2>11. Tick => UNCHANGED <<phase, result>>
    BY DEF Tick, TimingTick
  <2> QED BY <2>4, <2>5, <2>6, <2>7, <2>8, <2>9, <2>10, <2>11 DEF Steps
<1>3. Through'
  BY <1>2 DEF Through
<1>4. Clock(0)'
  BY <1>3 DEF Through, Clock
<1> QED BY <1>3, <1>4, Timely

-----------------------------------------------------------------------------
(* The course of the test. *)

\* In no situation does anything go wrong,
LEMMA CourseCalm ==
  ASSUME TypeInv, TimesType, Undisturbed, NEW now \in Nat, Clock(now), Course(now)
  PROVE  Through \/ \A e \in Ends : Calm(e)
BY IdleCalm, RestingCalm, AskingCalm, TurnedAwayCalm, WelcomedCalm, AcknowledgedCalm,
   GreetingCalm, GreetedCalm, SecuredCalm, RequestedCalm, ReplyingCalm DEF Course

\* ... each step leads to a situation,
LEMMA CourseMoves ==
  ASSUME Here, NEW now \in Nat, Clock(now), Course(now), ~Through, Moves
  PROVE  OnTime'
BY IdleMoves, RestingMoves, AskingMoves, TurnedAwayMoves, WelcomedMoves, AcknowledgedMoves,
   GreetingMoves, GreetedMoves, SecuredMoves, RequestedMoves, ReplyingMoves DEF Course

\* ... and so does each tick.
LEMMA CourseTicks ==
  ASSUME Here, NEW now \in Nat, Clock(now), Course(now), ~Through, Tick
  PROVE  OnTime'
BY IdleTicks, RestingTicks, AskingTicks, TurnedAwayTicks, WelcomedTicks, AcknowledgedTicks,
   GreetingTicks, GreetedTicks, SecuredTicks, RequestedTicks, ReplyingTicks DEF Course

LEMMA CourseKept ==
  ASSUME TypeInv, TimesType, OnCourse, [Next]_vars
  PROVE  OnCourse'
<1>1. Fixed
  BY StepIsFixed
<1>2. SUFFICES ASSUME Undisturbed PROVE OnTime'
  BY <1>1, FixedHere DEF OnCourse, OnTime
<1>3. OnTime
  BY <1>2 DEF OnCourse, OnTime
<1>4. PICK now \in Nat : Clock(now) /\ Course(now)
  BY <1>3 DEF OnTime
<1>5. Here
  BY <1>1, <1>2 DEF Here
<1>6. ASSUME Steps \/ Tick, Through PROVE OnTime'
  BY <1>6, ThroughStays
<1>7. ASSUME Steps, ~Through PROVE OnTime'
  <2>1. Moves \/ Reports
    BY <1>2, <1>4, <1>7, CourseCalm, CalmMoves
  <2>2. ASSUME Reports PROVE OnTime'
    BY <1>1, <1>3, <2>2, Stands DEF Reports, ReadReport, GiveUp
  <2> QED BY <1>4, <1>5, <1>7, <2>1, <2>2, CourseMoves
<1>8. ASSUME Tick, ~Through PROVE OnTime'
  BY <1>4, <1>5, <1>8, CourseTicks
<1>9. ASSUME UNCHANGED <<timingVars, tcpVars>> PROVE OnTime'
  BY <1>1, <1>3, <1>9, Stands DEF timingVars
<1> QED BY <1>6, <1>7, <1>8, <1>9 DEF Next, vars

LEMMA CourseInit == Init => OnCourse
<1>1. ASSUME Init PROVE Clock(0) /\ Idle(0)
  <2>1. /\ client \in Ends /\ delay \in Nat
        /\ phase = [e \in Ends |-> "idle"]
        /\ left = [e \in Ends |-> IF e = client THEN 0 ELSE delay]
        /\ attempt = 0 /\ wire = [e \in Ends |-> <<>>]
    BY <1>1, TimingAssumption DEF Init, TimingInit
  <2>2. Clock(0)
    BY <2>1 DEF Clock, StartOf
  <2>3. Idle(0)
    BY <2>1, TheEnds DEF Idle, Listening, Wires
  <2> QED BY <2>2, <2>3
<1> QED BY <1>1 DEF OnCourse, Course

LEMMA CoursePasses ==
  ASSUME TypeInv, TimesType, OnCourse
  PROVE  NoFalseFailure
<1>1. SUFFICES ASSUME Undisturbed, NEW e \in Ends, Over(e)
               PROVE  result[e] = Pass
  BY DEF NoFalseFailure, Undisturbed
<1>2. PICK now \in Nat : Clock(now) /\ Course(now)
  BY <1>1 DEF OnCourse
<1>3. phase[e] = "over"
  BY <1>1 DEF Over
<1>4. CASE Through
  BY <1>4 DEF Through
<1>5. CASE Idle(now) \/ Resting(now)
  BY <1>3, <1>5, TheEnds DEF Idle, Resting, Listening, Accepting, Awaiting, Running
<1>6. ASSUME NEW x \in 0 .. Latency, Asking(now, x) \/ TurnedAway(now, x)
      PROVE  FALSE
  BY <1>3, <1>6, TheEnds DEF Asking, TurnedAway, Listening, Accepting, Waits, Awaiting, Running
<1>7. ASSUME NEW x \in 0 .. Latency, Welcomed(now, x) \/ Acknowledged(now, x)
      PROVE  FALSE
  BY <1>3, <1>7, TheEnds DEF Welcomed, Acknowledged, Accepting, Waits, Awaiting, Running
<1>8. ASSUME NEW x \in 0 .. Latency,
             Greeting(now, x) \/ Greeted(now, x) \/ Secured(now, x) \/ Requested(now, x)
      PROVE  FALSE
  BY <1>3, <1>8, TheEnds DEF Greeting, Greeted, Secured, Requested, Waits, Awaiting, Running
<1>9. ASSUME NEW x \in 0 .. Latency, Replying(now, x)
      PROVE  result[e] = Pass
  BY <1>3, <1>9, TheEnds DEF Replying, Waits, Awaiting, Running
<1> QED BY <1>2, <1>4, <1>5, <1>6, <1>7, <1>8, <1>9 DEF Course

LEMMA CourseHolds == Spec => [](TripInv /\ TimesType /\ OnCourse)
<1>1. TripInv /\ TimesType /\ OnCourse /\ [Next]_vars => (TripInv /\ TimesType /\ OnCourse)'
  BY TripInvKept, TimesKept, CourseKept DEF TripInv
<1>2. Init => TripInv /\ TimesType /\ OnCourse
  BY TripInvInit, TimesInit, CourseInit
<1> QED
  BY <1>1, <1>2, PTL DEF Spec

\* On an open path to a free port, a test whose ends start in time for each other
\* (connect's attempts, the windows of accept and read, run_protocol's deadline)
\* passes at both of them, for every timeout, delay and latency.
THEOREM NoFailureOfItsOwn == Spec => []NoFalseFailure
<1>1. TripInv /\ TimesType /\ OnCourse => NoFalseFailure
  BY CoursePasses DEF TripInv
<1> QED
  BY <1>1, CourseHolds, PTL
=============================================================================
