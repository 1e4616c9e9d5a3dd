----------------------------- MODULE TcpExchange -----------------------------
(***************************************************************************)
(* A test over TCP (exchange.rs): the initiator connects, in up to twenty  *)
(* attempts, and makes a round trip; the target accepts one connection and *)
(* echoes what it expects.  The tls test has a handshake in between, the   *)
(* dns test (dns.rs) sends a query and an answer and has all of it within  *)
(* the timeout.  The network carries segments in order within Latency, or  *)
(* blocks them, or alters a payload, not its length.                       *)
(***************************************************************************)
EXTENDS TestTiming, Sequences, DnsMessages

CONSTANT Latency    \* ticks a segment takes at most

ASSUME TcpAssumption ==
  /\ Latency \in Nat
  /\ {"refused", "connect", "timeout", "accept", "handshake", "read", "mismatch", "differs",
      "deadline", "bind", "dns"} \subseteq Reasons

VARIABLES
  net,        \* what the network does: path, altered payloads (of the dns test
              \* a part), and whether the target's port is occupied
  test,       \* "port" (open and 1kb), "tls" or "dns"
  stage,      \* what a running end awaits
  timer,      \* ticks until it stops awaiting it
  attempt,    \* of the initiator to connect
  wire        \* the segments on their way to each end

tcpVars == <<stage, timer, attempt, wire>>
vars == <<timingVars, net, test, tcpVars>>

Attempts_OneSecond == 10
Attempts == 20
Retry == Second \div 10

Init ==
  /\ TimingInit
  /\ net \in [path     : {"open", "drop", "reject", "unreachable", "stall"},
              altered  : SUBSET {"request", "reply"},
              occupied : BOOLEAN,
              part     : Parts]
  /\ net.path # "open" => net.altered = {}
  /\ test \in {"port", "tls", "dns"}
  /\ test # "dns" \/ net.altered = {} => net.part = "form"
  /\ stage = [e \in Ends |-> None]
  /\ timer = [e \in Ends |-> 0]
  /\ attempt = 0
  /\ wire = [e \in Ends |-> <<>>]

\* A stalled path lets connections be made and nothing else: of the segments
\* an end sends together it carries the first, if that is for the connection.
Carried(kinds) ==
  CASE net.path = "open" -> Len(kinds)
    [] net.path = "stall" /\ kinds # <<>> /\ Head(kinds) \in {"syn", "synack", "ack", "rst"} -> 1
    [] OTHER -> 0

Segments(kinds) ==
  [i \in 1 .. Carried(kinds) |-> [kind |-> kinds[i], left |-> Latency]]

\* An end takes the oldest segment on its way to it and answers.
Arrives(e, kind) == wire[e] # <<>> /\ Head(wire[e]).kind = kind
Answers(e, kinds) ==
  wire' = [wire EXCEPT ![e] = Tail(@), ![Other(e)] = @ \o Segments(kinds)]
Emits(e, kinds) == wire' = [wire EXCEPT ![Other(e)] = @ \o Segments(kinds)]

Awaits(e, what, ticks) ==
  /\ stage' = [stage EXCEPT ![e] = what]
  /\ timer' = [timer EXCEPT ![e] = ticks]

\* An end returns.
Returns(e, outcome) == Finishes(e, outcome) /\ Awaits(e, None, 0)

Awaiting(e, what) == Running(e) /\ stage[e] = what
Expired(e, what) == Awaiting(e, what) /\ timer[e] = 0

-----------------------------------------------------------------------------
\* TcpStream::connect: what earlier attempts left on the wire means nothing.
Connects ==
  /\ attempt' = attempt + 1
  /\ Awaits("initiator", "connect", timeout)
  /\ wire' = [initiator |-> IF net.path \in {"reject", "unreachable"}
                            THEN <<[kind |-> IF net.path = "reject" THEN "rst" ELSE "icmp",
                                    left |-> Latency]>>
                            ELSE <<>>,
              target    |-> Segments(<<"syn">>)]

InitiatorStarts == Starts("initiator", Allowed(test)) /\ Connects

\* An attempt has failed: another one after a pause, up to the last.
AttemptFails(reason) ==
  IF attempt < Attempts
  THEN /\ Awaits("initiator", "sleep", Retry)
       /\ UNCHANGED timingVars
  ELSE Returns("initiator", Fail(reason))

Refused ==
  /\ Awaiting("initiator", "connect") /\ Arrives("initiator", "rst")
  /\ AttemptFails("refused")
  /\ Answers("initiator", <<>>)
  /\ UNCHANGED attempt

\* Any error but a refusal is final.
Unreachable ==
  /\ Awaiting("initiator", "connect") /\ Arrives("initiator", "icmp")
  /\ Returns("initiator", Fail("connect"))
  /\ Answers("initiator", <<>>)
  /\ UNCHANGED attempt

ConnectTimeout ==
  /\ Expired("initiator", "connect")
  /\ AttemptFails("timeout")
  /\ wire' = [e \in Ends |-> <<>>]
  /\ UNCHANGED attempt

TriesAgain == Expired("initiator", "sleep") /\ Connects /\ UNCHANGED timingVars

\* Connected: the payload, or first the handshake.
Connected ==
  /\ Awaiting("initiator", "connect") /\ Arrives("initiator", "synack")
  /\ Answers("initiator", <<"ack", IF test = "tls" THEN "hello" ELSE "request">>)
  /\ Awaits("initiator", IF test = "tls" THEN "handshake" ELSE "read", timeout)
  /\ UNCHANGED <<timingVars, attempt>>

InitiatorHandshake ==
  /\ Awaiting("initiator", "handshake") /\ Arrives("initiator", "serverhello")
  /\ Answers("initiator", <<"finished", "request">>)
  /\ Awaits("initiator", "read", timeout)
  /\ UNCHANGED <<timingVars, attempt>>

\* The reply is compared; an altered TLS record is not read at all.
roundtrip ==
  IF net.altered = {} THEN Pass ELSE Fail(IF test = "tls" THEN "read" ELSE "mismatch")

\* The answer is validated; one to an altered question does not match the query.
Query == build_dns_query(0)
dns_tcp_initiator ==
  IF validate_dns_response(Query, ResponseRead(Query, net.altered, net.part))
  THEN Pass ELSE Fail("dns")

Replied ==
  /\ Awaiting("initiator", "read") /\ Arrives("initiator", "reply")
  /\ Returns("initiator", IF test = "dns" THEN dns_tcp_initiator ELSE roundtrip)
  /\ Answers("initiator", <<"eof">>)
  /\ UNCHANGED attempt

-----------------------------------------------------------------------------
\* accept binds the port and waits for one connection.
TargetStarts ==
  /\ Starts("target", Allowed(test))
  /\ IF net.occupied THEN Awaits("target", "bind", 0)
                     ELSE Awaits("target", "accept", timeout)
  /\ UNCHANGED <<attempt, wire>>

BindFails ==
  /\ Awaiting("target", "bind")
  /\ Returns("target", Error("bind"))
  /\ UNCHANGED <<attempt, wire>>

\* The listening socket answers a connection; without one it is refused.
Syn ==
  /\ Arrives("target", "syn")
  /\ Answers("target", IF Awaiting("target", "accept") THEN <<"synack">> ELSE <<"rst">>)
  /\ UNCHANGED <<timingVars, stage, timer, attempt>>

Accepts ==
  /\ Awaiting("target", "accept") /\ Arrives("target", "ack")
  /\ Answers("target", <<>>)
  /\ Awaits("target", IF test = "tls" THEN "handshake" ELSE "read", timeout)
  /\ UNCHANGED <<timingVars, attempt>>

TargetHandshake ==
  /\ Awaiting("target", "handshake")
  /\ \/ /\ Arrives("target", "hello")
        /\ Answers("target", <<"serverhello">>)
        /\ UNCHANGED <<stage, timer>>
     \/ /\ Arrives("target", "finished")
        /\ Answers("target", <<>>)
        /\ Awaits("target", "read", timeout)
  /\ UNCHANGED <<timingVars, attempt>>

\* echo: only the expected payload is sent back.
Echoes_Blindly ==
  /\ test # "dns" /\ Awaiting("target", "read") /\ Arrives("target", "request")
  /\ Returns("target", Pass)
  /\ Answers("target", <<"reply", "eof">>)
  /\ UNCHANGED attempt
Echoes ==
  /\ test # "dns" /\ Awaiting("target", "read") /\ Arrives("target", "request")
  /\ IF "request" \notin net.altered
     THEN Returns("target", Pass) /\ Answers("target", <<"reply", "eof">>)
     ELSE /\ Returns("target", Fail(IF test = "tls" THEN "read" ELSE "differs"))
          /\ Answers("target", <<"eof">>)
  /\ UNCHANGED attempt

\* dns_tcp_target: any query that can be parsed is answered.
AnswersQuery ==
  /\ test = "dns" /\ Awaiting("target", "read") /\ Arrives("target", "request")
  /\ IF Parses(QueryRead(Query, net.altered, net.part))
     THEN Returns("target", Pass) /\ Answers("target", <<"reply", "eof">>)
     ELSE Returns("target", Fail("dns")) /\ Answers("target", <<"eof">>)
  /\ UNCHANGED attempt

-----------------------------------------------------------------------------
\* The connection ends before what an end awaits has come.
PeerGone(e) ==
  /\ \E what \in {"handshake", "read"} : Awaiting(e, what) /\ Returns(e, Fail(what))
  /\ Arrives(e, "eof")
  /\ Answers(e, <<>>)
  /\ UNCHANGED attempt

\* The time for what an end awaits is over.
TimesOut(e) ==
  /\ \E what \in {"accept", "handshake", "read"} : Expired(e, what) /\ Returns(e, Fail(what))
  /\ IF stage[e] = "accept" THEN UNCHANGED wire ELSE Emits(e, <<"eof">>)
  /\ UNCHANGED attempt

\* run_protocol's deadline drops the end with its sockets.
CutShort(e) ==
  /\ DeadlinePasses(e)
  /\ IF stage[e] \in {"handshake", "read"} THEN Emits(e, <<"eof">>)
     ELSE IF e = "initiator" THEN wire' = [f \in Ends |-> <<>>]
     ELSE UNCHANGED wire
  /\ Awaits(e, None, 0)
  /\ UNCHANGED attempt

\* A segment for a socket that is gone; a connection that has lost its
\* listener is reset.
Strays(e) ==
  /\ ~Running(e) \/ stage[e] \in {"sleep", "bind"}
  /\ wire[e] # <<>> /\ Head(wire[e]).kind # "syn"
  /\ Answers(e, IF Head(wire[e]).kind \in {"ack", "eof"} \/ e = "initiator"
                THEN <<>> ELSE <<"eof">>)
  /\ UNCHANGED <<timingVars, stage, timer, attempt>>

Reports == (ReadReport \/ GiveUp) /\ UNCHANGED tcpVars

Tick ==
  /\ TimingTick
  /\ \A e \in Ends :
       /\ Running(e) => timer[e] > 0
       /\ wire[e] # <<>> => Head(wire[e]).left > 0
  /\ timer' = [e \in Ends |-> IF Running(e) THEN timer[e] - 1 ELSE 0]
  /\ wire' = [e \in Ends |-> [i \in DOMAIN wire[e] |-> [wire[e][i] EXCEPT !.left = @ - 1]]]
  /\ UNCHANGED <<stage, attempt>>

\* The steps that take no time.
Steps ==
  \/ InitiatorStarts \/ Refused \/ Unreachable \/ ConnectTimeout \/ TriesAgain
  \/ Connected \/ InitiatorHandshake \/ Replied
  \/ TargetStarts \/ BindFails \/ Syn \/ Accepts \/ TargetHandshake \/ Echoes \/ AnswersQuery
  \/ \E e \in Ends : PeerGone(e) \/ TimesOut(e) \/ CutShort(e) \/ Strays(e)
  \/ Reports

Next ==
  /\ UNCHANGED <<net, test>>
  /\ \/ ~Decided /\ (Steps \/ Tick)
     \/ Decided /\ UNCHANGED <<timingVars, tcpVars>>

Spec == Init /\ [][Next]_vars

-----------------------------------------------------------------------------
\* A PASS of an end is a round trip on an open path: the initiator's (roundtrip)
\* comes after the target's (echo), and what either received was what the other
\* sent; the dns test does not look at all of a message, nor its target for
\* more than that it parses.
PassMeansRoundTrip ==
  /\ result["initiator"] = Pass =>
       /\ result["target"] = Pass /\ net.path = "open"
       /\ IF test = "dns" THEN Unseen(net.altered, net.part) ELSE net.altered = {}
  /\ result["target"] = Pass =>
       /\ net.path = "open"
       /\ "request" \in net.altered => test = "dns" /\ net.part # "form"

\* The segments waited for one after the other at most, from the last refusal
\* on: rst, syn, synack, ack and request, reply, and two of the handshake.
Flights == IF test = "tls" THEN 7 ELSE 5

\* The ends start in time for each other and for their deadlines: attempts, of
\* 1.9 s at least, last until the target has bound its port, the target's
\* accept until the attempt after that.
InTime ==
  /\ delay + Retry + Flights * Latency < Allowed(test)
  /\ IF client = "initiator"
     THEN 10 * delay < 19 * Second /\ Retry + 4 * Latency < timeout
     ELSE delay + Retry + 4 * Latency < timeout

\* On an open path that alters nothing, to a port that is free, the test passes
\* at both ends, however far their starts are apart within InTime: neither the
\* twenty attempts (connect), nor the windows of accept and read, nor
\* the deadlines produce a failure of their own.
NoFalseFailure ==
  net.path = "open" /\ net.altered = {} /\ ~net.occupied /\ InTime =>
    \A e \in Ends : Over(e) => result[e] = Pass

\* README: "Payload-integrity tests report observed payload differences
\* separately": run_client picks them out by the reason of the verdict, which
\* must contain the target's wording.
ShownAsDifference == verdict.status = "fail" /\ verdict.reason = "differs"
DifferenceReported ==
  Decided /\ verdict # GaveUp =>
    ((\E e \in Ends : result[e] \in {Fail("mismatch"), Fail("differs")}) => ShownAsDifference)
=============================================================================
