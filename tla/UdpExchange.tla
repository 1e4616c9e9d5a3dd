---------------------------- MODULE UdpExchange ----------------------------
(***************************************************************************)
(* A test over UDP (port.rs): the initiator sends its payload, up to five  *)
(* times with a pause between, until a reply from the target comes; the    *)
(* target listens in five windows of a second and answers one datagram.    *)
(* The dns test (dns.rs) does the same in shorter steps, validates the     *)
(* answer instead of comparing it, and has all of it within the timeout.   *)
(* The network loses, doubles and alters datagrams, and others send to the *)
(* same ports.  A socket buffers what arrives while its end does not       *)
(* receive.                                                                *)
(***************************************************************************)
EXTENDS TestTiming, Sequences, FiniteSets, DnsMessages

CONSTANTS
  Tests,        \* the tests looked at: "port" (open and 1kb), "dns"
  Latency,      \* ticks a datagram takes at most
  MaxFaults     \* datagrams lost, doubled or sent by others, at most

ASSUME UdpAssumption ==
  /\ Latency \in Nat
  /\ {"send", "unexpected", "timeout", "mismatch", "differs", "recv", "dns", "deadline", "bind"}
       \subseteq Reasons

VARIABLES
  test,       \* which of Tests it is
  net,        \* what the network does to the test, fixed for its length
  lost, doubled,    \* datagrams lost and doubled so far
  foreign,    \* the ends that are still to receive a datagram of others
  stage,      \* what a running end awaits: "recv", "sleep", "bind"
  timer,      \* ticks until it stops awaiting it
  round,      \* of the initiator: attempt; of the target: window
  flight,     \* datagrams on their way to each end
  inbox       \* what each end's socket has buffered

ends == <<stage, timer, round>>
network == <<test, net, lost, doubled, foreign>>
udpVars == <<lost, doubled, foreign, ends, flight, inbox>>
vars == <<timingVars, test, net, udpVars>>

Rounds == 5
Pause == IF test = "dns" THEN Second \div 50 ELSE Second \div 5

\* How long an attempt waits for the reply.
Wait ==
  LET fifth == timeout \div 5 IN
    IF test # "dns" THEN timeout
    ELSE IF fifth < Second \div 5 THEN fifth ELSE Second \div 5

\* A middlebox may alter the request, the reply (of a dns message one part), or
\* the reply's source, and drop what goes to one end; others send one datagram
\* to some ends.
Init ==
  /\ TimingInit
  /\ test \in Tests
  /\ net \in [altered  : SUBSET {"request", "reply", "source"},
              blocked  : SUBSET Ends,
              others   : SUBSET Ends,
              sendable : BOOLEAN,
              occupied : BOOLEAN,
              part     : Parts]
  /\ test # "dns" \/ net.altered \subseteq {"source"} \/ net.others # {}
       => net.part = "form"
  /\ net.blocked # {} \/ ~net.sendable \/ net.occupied =>
       net.altered = {} /\ net.others = {}
  /\ lost = [e \in Ends |-> 0]
  /\ doubled = 0
  /\ foreign = net.others
  /\ stage = [e \in Ends |-> None]
  /\ timer = [e \in Ends |-> 0]
  /\ round = [e \in Ends |-> 0]
  /\ flight = [e \in Ends |-> <<>>]
  /\ inbox = [e \in Ends |-> <<>>]

Datagram(e) == IF e \in net.blocked THEN <<>> ELSE <<Latency>>

Awaits(e, what, ticks) ==
  /\ stage' = [stage EXCEPT ![e] = what]
  /\ timer' = [timer EXCEPT ![e] = ticks]

Awaiting(e, what) == Running(e) /\ stage[e] = what
Expired(e, what) == Awaiting(e, what) /\ timer[e] = 0

\* An end returns and closes its socket.
Closes(e) ==
  /\ Awaits(e, None, 0)
  /\ round' = [round EXCEPT ![e] = 0]
  /\ inbox' = [inbox EXCEPT ![e] = <<>>]
Returns(e, outcome) == Finishes(e, outcome) /\ Closes(e)

-----------------------------------------------------------------------------
\* An attempt of the initiator fails: the next one after a pause, if any.
AttemptFails_Final(number, reason, unread) == Returns("initiator", Fail(reason))
AttemptFails(number, reason, unread) ==
  IF number < Rounds
  THEN /\ Awaits("initiator", "sleep", Pause)
       /\ round' = [round EXCEPT !["initiator"] = number]
       /\ inbox' = [inbox EXCEPT !["initiator"] = unread]
       /\ UNCHANGED timingVars
  ELSE Returns("initiator", Fail(reason))

\* Sends the request and awaits the reply.
SendsRequest(number) ==
  /\ Awaits("initiator", "recv", Wait)
  /\ round' = [round EXCEPT !["initiator"] = number]
  /\ flight' = [flight EXCEPT !["target"] = @ \o Datagram("target")]
  /\ UNCHANGED <<network, inbox>>

\* The first attempt; an error of send_to only costs the attempt.
InitiatorStarts ==
  /\ Starts("initiator", Allowed(test))
  /\ IF net.sendable THEN SendsRequest(1)
     ELSE /\ Awaits("initiator", "sleep", Pause)
          /\ round' = [round EXCEPT !["initiator"] = 1]
          /\ UNCHANGED <<network, flight, inbox>>

SendsAgain ==
  /\ Expired("initiator", "sleep")
  /\ LET number == round["initiator"] + 1 IN
       IF net.sendable THEN SendsRequest(number) /\ UNCHANGED timingVars
       ELSE /\ AttemptFails(number, "send", inbox["initiator"])
            /\ UNCHANGED <<network, flight>>

\* The port tests look at a datagram from the target only, and compare it.
FromTarget(datagram) == datagram = "reply" /\ "source" \notin net.altered

InitiatorReceives ==
  /\ test # "dns" /\ Awaiting("initiator", "recv") /\ inbox["initiator"] # <<>>
  /\ IF FromTarget(Head(inbox["initiator"]))
     THEN Returns("initiator", IF "reply" \in net.altered THEN Fail("mismatch") ELSE Pass)
     ELSE AttemptFails(round["initiator"], "unexpected", Tail(inbox["initiator"]))
  /\ UNCHANGED <<network, flight>>

\* The dns test takes a valid answer to its query, from anyone, and goes on to
\* the next attempt if it gets anything else.
Query == build_dns_query(0)
ValidAnswer(datagram) ==
  datagram = "reply"
    /\ validate_dns_response(Query, ResponseRead(Query, net.altered, net.part))

InitiatorReceivesAnswer ==
  /\ test = "dns" /\ Awaiting("initiator", "recv") /\ inbox["initiator"] # <<>>
  /\ IF ValidAnswer(Head(inbox["initiator"])) THEN Returns("initiator", Pass)
     ELSE AttemptFails(round["initiator"], "unexpected", Tail(inbox["initiator"]))
  /\ UNCHANGED <<network, flight>>

NoReply ==
  /\ Expired("initiator", "recv") /\ inbox["initiator"] = <<>>
  /\ AttemptFails(round["initiator"], "timeout", <<>>)
  /\ UNCHANGED <<network, flight>>

-----------------------------------------------------------------------------
TargetStarts ==
  /\ Starts("target", Allowed(test))
  /\ IF net.occupied THEN Awaits("target", "bind", 0)
                     ELSE Awaits("target", "recv", Second)
  /\ round' = [round EXCEPT !["target"] = 1]
  /\ UNCHANGED <<network, flight, inbox>>

\* A reply to the initiator; one to another sender is not followed.
RepliesTo(datagram, accepted) ==
  flight' = IF accepted /\ datagram = "request"
            THEN [flight EXCEPT !["initiator"] = @ \o Datagram("initiator")] ELSE flight

BindFails ==
  /\ Awaiting("target", "bind")
  /\ Returns("target", Error("bind"))
  /\ UNCHANGED <<network, flight>>

\* Any datagram ends the target's test, whoever sent it: the expected payload
\* is sent back there.
TargetReceives ==
  /\ test # "dns" /\ Awaiting("target", "recv") /\ inbox["target"] # <<>>
  /\ LET datagram == Head(inbox["target"])
         expected == datagram = "stale" \/ (datagram = "request" /\ "request" \notin net.altered)
     IN Returns("target", IF expected THEN Pass ELSE Fail("differs"))
  /\ RepliesTo(Head(inbox["target"]), result'["target"] = Pass)
  /\ UNCHANGED network

\* dns_udp_target answers any query that can be parsed.
TargetReceivesQuery ==
  /\ test = "dns" /\ Awaiting("target", "recv") /\ inbox["target"] # <<>>
  /\ LET datagram == Head(inbox["target"])
         parsed == \/ datagram = "stale"
                   \/ datagram = "request" /\ Parses(QueryRead(Query, net.altered, net.part))
     IN Returns("target", IF parsed THEN Pass ELSE Fail("dns"))
  /\ RepliesTo(Head(inbox["target"]), result'["target"] = Pass)
  /\ UNCHANGED network

WindowEnds ==
  /\ Expired("target", "recv") /\ inbox["target"] = <<>>
  /\ IF round["target"] < Rounds
     THEN /\ Awaits("target", "recv", Second)
          /\ round' = [round EXCEPT !["target"] = @ + 1]
          /\ UNCHANGED <<timingVars, inbox>>
     ELSE Returns("target", Fail("recv"))
  /\ UNCHANGED <<network, flight>>

CutShort(e) == DeadlinePasses(e) /\ Closes(e) /\ UNCHANGED <<network, flight>>

-----------------------------------------------------------------------------
Faults == lost["initiator"] + lost["target"] + doubled + Cardinality(net.others)

\* A socket takes what arrives; without one it is gone.
Bound(e) == Running(e) /\ stage[e] # "bind"
Buffers(e, datagram) ==
  inbox' = [inbox EXCEPT ![e] = IF Bound(e) THEN Append(@, datagram) ELSE @]

Arrives(e) ==
  /\ flight[e] # <<>>
  /\ flight' = [flight EXCEPT ![e] = Tail(@)]
  /\ Buffers(e, IF e = "target" THEN "request" ELSE "reply")
  /\ UNCHANGED <<timingVars, network, ends>>

Loses(e) ==
  /\ flight[e] # <<>> /\ Faults < MaxFaults
  /\ lost' = [lost EXCEPT ![e] = @ + 1]
  /\ flight' = [flight EXCEPT ![e] = Tail(@)]
  /\ UNCHANGED <<timingVars, test, net, doubled, foreign, ends, inbox>>

Doubles(e) ==
  /\ flight[e] # <<>> /\ Faults < MaxFaults
  /\ doubled' = doubled + 1
  /\ flight' = [flight EXCEPT ![e] = Append(@, Latency)]
  /\ UNCHANGED <<timingVars, test, net, lost, foreign, ends, inbox>>

\* A datagram of another program, or of an earlier test on the same port.
Foreign(e) ==
  /\ e \in foreign /\ Bound(e)
  /\ foreign' = foreign \ {e}
  /\ \E datagram \in {"foreign", "stale"} :
       (e = "initiator" => datagram = "foreign") /\ Buffers(e, datagram)
  /\ UNCHANGED <<timingVars, test, net, lost, doubled, ends, flight>>

Reports == (ReadReport \/ GiveUp) /\ UNCHANGED <<test, net, udpVars>>

Tick ==
  /\ TimingTick
  /\ \A e \in Ends :
       /\ Running(e) => timer[e] > 0
       /\ Awaiting(e, "recv") => inbox[e] = <<>>
       /\ \A i \in DOMAIN flight[e] : flight[e][i] > 0
  /\ timer' = [e \in Ends |-> IF Running(e) THEN timer[e] - 1 ELSE 0]
  /\ flight' = [e \in Ends |-> [i \in DOMAIN flight[e] |-> flight[e][i] - 1]]
  /\ UNCHANGED <<network, stage, round, inbox>>

\* The steps that take no time.
Steps ==
  \/ InitiatorStarts \/ SendsAgain \/ InitiatorReceives \/ InitiatorReceivesAnswer \/ NoReply
  \/ TargetStarts \/ BindFails \/ TargetReceives \/ TargetReceivesQuery \/ WindowEnds
  \/ \E e \in Ends : CutShort(e) \/ Arrives(e) \/ Loses(e) \/ Doubles(e) \/ Foreign(e)
  \/ Reports

Next ==
  \/ ~Decided /\ (Steps \/ Tick)
  \/ Decided /\ UNCHANGED vars

Spec == Init /\ [][Next]_vars

-----------------------------------------------------------------------------
\* A PASS of the initiator (udp_initiator) is a round trip: the target has
\* passed too, and neither payload nor the reply's source was altered, whatever
\* was lost, doubled or sent by others; but the dns test looks at neither the
\* source, nor the answer, nor, at the target, the kind of a message.
PassMeansRoundTrip ==
  result["initiator"] = Pass =>
    /\ result["target"] = Pass
    /\ IF test = "dns" THEN Unseen(net.altered, net.part) ELSE net.altered = {}
    /\ net.blocked = {}

\* When the attempts are sent, counted from the client's start: an attempt that
\* a foreign datagram ends makes the later ones come earlier by its wait.
Sent(number) == (number - 1) * (Wait + Pause) + (IF client = "initiator" THEN 0 ELSE delay)
SentEarliest(number) ==
  Sent(number) - (IF "initiator" \in net.others /\ number > 1 THEN Wait ELSE 0)
Listens == IF client = "target" THEN 0 ELSE delay
ListensUntil ==
  Listens + (IF Rounds * Second < Allowed(test) THEN Rounds * Second ELSE Allowed(test))

\* The attempts whose exchange lies within the time of both ends.
InTime ==
  {number \in 1 .. Rounds :
     /\ SentEarliest(number) > Listens
     /\ Sent(number) + Latency < ListensUntil
     /\ Sent(number) + 2 * Latency < Sent(1) + Allowed(test)}

\* On a network that alters nothing, the test passes at both ends although
\* requests are lost and another program sends to the initiator, as long as one
\* more attempt is in time than were lost or spoiled: retransmission does its
\* work, and no window or deadline produces a failure of its own.
NoFalseFailure ==
  /\ net.altered = {} /\ net.blocked = {} /\ net.sendable /\ ~net.occupied
  /\ "target" \notin net.others /\ lost["initiator"] = 0 /\ 2 * Latency < Wait
  /\ Cardinality(InTime) > lost["target"] + Cardinality(net.others)
  => \A e \in Ends : Over(e) => result[e] = Pass
=============================================================================
