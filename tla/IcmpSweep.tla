------------------------------ MODULE IcmpSweep ------------------------------
(***************************************************************************)
(* icmp-full: sweeps of one process running side by side against one       *)
(* destination.  A sweep sends one probe of each ICMP type after the other *)
(* and waits for the reply on a raw socket of its own, which is given      *)
(* every ICMP packet the host receives: replies to the other sweeps and to *)
(* other programs, late replies to earlier probes, and, when the host      *)
(* sweeps itself, the probes as well.  Time is counted in ticks; a sweep's *)
(* worker thread may be held up between two probes, not while its socket   *)
(* has something to read.                                                  *)
(***************************************************************************)
EXTENDS Integers, Sequences, FiniteSets

CONSTANTS
  Sweeps,       \* the sweeps of a batch, over IPv4, by the end that sends
  Types,        \* ALL_ICMP_TYPES
  Timeout,      \* --timeout
  Ids,          \* how many ids there are, 2^16 in the code
  FirstIds,     \* where NEXT_ICMP_ID may have come to before the sweeps
  Lateness,     \* probes sent before a packet under way is lost for good
  Local,        \* the destination is the host itself
  Others,       \* whoever else sends packets
  MaxForeign    \* packets of others, and replies that come twice

ASSUME SweepAssumption ==
  /\ Types \in Seq(0 .. 255) /\ Types # <<>>
  /\ Timeout \in Nat /\ Lateness \in Nat
  /\ Ids \in Nat /\ FirstIds \subseteq 0 .. Ids - 1
  /\ IsFiniteSet(Sweeps) /\ Others \notin Sweeps
  /\ Cardinality(Sweeps) * Len(Types) <= Ids

VARIABLES
  next_id,    \* NEXT_ICMP_ID
  at,         \* the type each sweep has come to, past the last one when done
  elapsed,    \* time since its start, up to Timeout
  probe,      \* its latest probe: open while it waits for the reply, left of
              \* the wait (which counts on when the socket is closed), heard
              \* when the reply has come in that time
  inbox,      \* packets its socket has buffered
  latest,     \* the result of its latest type, and the packet it rests on
  failures, errors,   \* whether it has any
  flight,     \* packets under way
  foreign     \* packets of others so far

sweepVars == <<at, probe, inbox, latest, failures, errors>>
vars == <<next_id, elapsed, sweepVars, flight, foreign>>

\* The reply type expected for a type; the others expect none.
NoType == -1
Expected(type) ==
  CASE type = 8 -> 0 [] type = 13 -> 14 [] type = 15 -> 16
    [] type = 17 -> 18 [] type = 42 -> 43 [] OTHER -> NoType

\* whole: the payload is the one sent with an echo request, or as long as the
\* type of the reply asks for.  of is the sweep whose probe a packet is, or
\* answers: no code reads that.
Packet(type, id, seq, answer, of) ==
  [type |-> type, id |-> id, seq |-> seq, fromDest |-> TRUE, whole |-> TRUE,
   answer |-> answer, of |-> of]
Nothing == Packet(NoType, 0, 0, FALSE, Others)

\* The destination's answer to the probe of a sweep.
ReplyTo(s) ==
  Packet(Expected(probe[s].type), probe[s].id, probe[s].seq, TRUE, s)

Open(s) == probe[s].open

Init ==
  /\ next_id \in FirstIds
  /\ at = [s \in Sweeps |-> 1]
  /\ elapsed = [s \in Sweeps |-> 0]
  /\ probe = [s \in Sweeps |-> [type |-> NoType, id |-> 0, seq |-> 0, left |-> 0,
                                open |-> FALSE, heard |-> FALSE]]
  /\ inbox = [s \in Sweeps |-> <<>>]
  /\ latest = [s \in Sweeps |-> [status |-> "none", by |-> Nothing]]
  /\ failures = {} /\ errors = {}
  /\ flight = {} /\ foreign = 0

-----------------------------------------------------------------------------
\* A type has its result: its socket is closed, the next type follows.
Concludes(s, status, by) ==
  /\ latest' = [latest EXCEPT ![s] = [status |-> status, by |-> by]]
  /\ failures' = failures \cup {x \in {s} : status = "fail"}
  /\ errors' = errors \cup {x \in {s} : status = "error"}
  /\ at' = [at EXCEPT ![s] = @ + 1]
  /\ inbox' = [inbox EXCEPT ![s] = <<>>]

next_icmp_id_Constant == next_id
next_icmp_id == (next_id + 1) % Ids

Remaining(s) == Timeout - elapsed[s]

\* per_type_timeout, and what of it is left.
PerType == IF Timeout \div Len(Types) > 1 THEN Timeout \div Len(Types) ELSE 1
Wait_PerType(s) == PerType
Wait(s) == IF PerType < Remaining(s) THEN PerType ELSE Remaining(s)

\* Without time left a type fails unsent.
Unsent(s) ==
  /\ at[s] <= Len(Types) /\ ~Open(s) /\ Remaining(s) = 0
  /\ Concludes(s, "fail", Nothing)
  /\ probe' = [probe EXCEPT ![s].heard = FALSE, ![s].left = 0]
  /\ UNCHANGED <<next_id, elapsed, flight, foreign>>

\* The raw socket cannot be opened or set up, or does not send.
CannotSend(s) ==
  /\ at[s] <= Len(Types) /\ ~Open(s) /\ Remaining(s) > 0
  /\ next_id' = next_icmp_id
  /\ Concludes(s, "error", Nothing)
  /\ probe' = [probe EXCEPT ![s].heard = FALSE, ![s].left = 0]
  /\ UNCHANGED <<elapsed, flight, foreign>>

\* The probe is sent from a new socket; its sequence number is its index.
Sends(s) ==
  /\ at[s] <= Len(Types) /\ ~Open(s) /\ Remaining(s) > 0
  /\ next_id' = next_icmp_id
  /\ LET type == Types[at[s]]
         seq == at[s] - 1
     IN /\ probe' = [probe EXCEPT ![s] =
                       [type |-> type, id |-> next_id, seq |-> seq, left |-> Wait(s),
                        open |-> TRUE, heard |-> FALSE]]
        /\ flight' = {p \in flight : p.of = s => p.seq + Lateness >= seq}
                       \cup {Packet(type, next_id, seq, FALSE, s)}
  /\ UNCHANGED <<at, elapsed, inbox, latest, failures, errors, foreign>>

\* reply_matches and source_matches.
Matches(p, s) ==
  /\ p.type = Expected(probe[s].type)
  /\ p.id = probe[s].id /\ p.seq = probe[s].seq
  /\ p.whole /\ p.fromDest

\* A packet that does not match is passed over.
PassesOver_Fails(s) ==
  Concludes(s, "fail", Nothing) /\ probe' = [probe EXCEPT ![s].open = FALSE]
PassesOver(s) ==
  /\ inbox' = [inbox EXCEPT ![s] = Tail(@)]
  /\ UNCHANGED <<at, probe, latest, failures, errors>>

Receives(s) ==
  /\ Open(s) /\ inbox[s] # <<>>
  /\ IF Matches(Head(inbox[s]), s)
     THEN /\ Concludes(s, "pass", Head(inbox[s]))
          /\ probe' = [probe EXCEPT ![s].open = FALSE]
     ELSE PassesOver(s)
  /\ UNCHANGED <<next_id, elapsed, flight, foreign>>

TimesOut(s) ==
  /\ Open(s) /\ probe[s].left = 0
  /\ Concludes(s, "fail", Nothing)
  /\ probe' = [probe EXCEPT ![s].open = FALSE]
  /\ UNCHANGED <<next_id, elapsed, flight, foreign>>

\* recvfrom, or setting its timeout, fails for another reason.
SocketFails(s) ==
  /\ Open(s)
  /\ \E status \in {"fail", "error"} : Concludes(s, status, Nothing)
  /\ probe' = [probe EXCEPT ![s].open = FALSE, ![s].heard = FALSE, ![s].left = 0]
  /\ UNCHANGED <<next_id, elapsed, flight, foreign>>

\* What icmp-full makes of its types.
Outcome(s) == IF s \in errors THEN "error" ELSE IF s \in failures THEN "fail" ELSE "pass"

-----------------------------------------------------------------------------
\* A packet comes to the host: every open socket gets a copy.  Packets come
\* one at a time, the workers being quick to read.
Delivered(p) ==
  /\ \A s \in Sweeps : inbox[s] = <<>>
  /\ inbox' = [s \in Sweeps |-> IF Open(s) THEN <<p>> ELSE <<>>]
  /\ probe' = [s \in Sweeps |->
                 [probe[s] EXCEPT !.heard = @ \/ (p = ReplyTo(s) /\ probe[s].left > 0)]]

\* A probe reaches the destination, whose kernel answers it or does not.
ProbeArrives(p) ==
  /\ \/ /\ Expected(p.type) # NoType
        /\ flight' = (flight \ {p}) \cup {Packet(Expected(p.type), p.id, p.seq, TRUE, p.of)}
     \/ flight' = flight \ {p}
  /\ IF Local THEN Delivered(p) ELSE UNCHANGED <<inbox, probe>>
  /\ UNCHANGED <<next_id, at, elapsed, latest, failures, errors, foreign>>

\* A reply reaches the host, and may come once more later.
ReplyArrives(p) ==
  /\ Delivered(p)
  /\ \/ flight' = flight \ {p} /\ UNCHANGED foreign
     \/ foreign < MaxForeign /\ foreign' = foreign + 1 /\ UNCHANGED flight
  /\ UNCHANGED <<next_id, at, elapsed, latest, failures, errors>>

Arrives ==
  \E p \in flight : IF p.answer THEN ReplyArrives(p) ELSE ProbeArrives(p)

\* A packet of others that differs from the reply a sweep waits for in one
\* respect at most: it comes from elsewhere, is cut short or altered, answers
\* another program's probe, or says the destination is unreachable; or it
\* answers a second bimap process, whose ids start at the same number.
Foreign ==
  /\ foreign < MaxForeign
  /\ foreign' = foreign + 1
  /\ \E s \in {t \in Sweeps : Open(t) /\ Expected(probe[t].type) # NoType} :
       LET twin == [ReplyTo(s) EXCEPT !.of = Others] IN
       \E p \in {twin, [twin EXCEPT !.fromDest = FALSE], [twin EXCEPT !.whole = FALSE],
                 [twin EXCEPT !.id = Ids], [twin EXCEPT !.seq = @ + 1],
                 [twin EXCEPT !.type = 3]} : Delivered(p)
  /\ UNCHANGED <<next_id, at, elapsed, latest, failures, errors, flight>>

Tick ==
  /\ \E s \in Sweeps : at[s] <= Len(Types)
  /\ \A s \in Sweeps : Open(s) => inbox[s] = <<>> /\ probe[s].left > 0
  /\ elapsed' = [s \in Sweeps |->
                   IF elapsed[s] < Timeout THEN elapsed[s] + 1 ELSE elapsed[s]]
  /\ probe' = [s \in Sweeps |->
                 [probe[s] EXCEPT !.left = IF @ > 0 THEN @ - 1 ELSE 0]]
  /\ UNCHANGED <<next_id, at, inbox, latest, failures, errors, flight, foreign>>

Worker(s) ==
  Unsent(s) \/ CannotSend(s) \/ Sends(s) \/ Receives(s) \/ TimesOut(s) \/ SocketFails(s)

Done == (\A s \in Sweeps : at[s] > Len(Types)) /\ UNCHANGED vars

Next == (\E s \in Sweeps : Worker(s)) \/ Arrives \/ Foreign \/ Tick \/ Done

Spec == Init /\ [][Next]_vars

-----------------------------------------------------------------------------
\* A type passes only on the destination's own, whole reply to the probe this
\* very sweep sent for it, or a second process sent under the same id and
\* number (send_icmp_echo_raw): never on a reply to a parallel sweep or to an
\* earlier probe, nor on a probe seen on its way.  And a sweep some type of
\* which is not answered does not pass ("unanswered types produce a failed
\* sweep", README).
PassMeansAnswered ==
  \A s \in Sweeps :
    /\ latest[s].status = "pass" =>
         LET p == latest[s].by
             i == at[s] - 1
         IN /\ p.answer /\ p.fromDest /\ p.whole
            /\ p.of \in {s, Others}
            /\ p.type = Expected(Types[i]) /\ p.seq = i - 1
    /\ at[s] > Len(Types) /\ Outcome(s) = "pass" =>
         \A i \in DOMAIN Types : Expected(Types[i]) # NoType

\* No packet of others, and no reply meant for another sweep, takes the place
\* of the reply that comes in time: a type that was sent and whose reply came
\* before its wait was over has passed, or is about to, as long as its socket
\* works.
NoFalseFailure ==
  \A s \in Sweeps : ~Open(s) /\ probe[s].heard => latest[s].status = "pass"

\* However long the worker is held up, a sweep waits for no reply beyond its
\* timeout, so run_protocol's deadline of timeout + 2 s never speaks for it
\* while it waits.
WaitsWithinTimeout ==
  \A s \in Sweeps : Open(s) => probe[s].left <= Timeout - elapsed[s]
=============================================================================
