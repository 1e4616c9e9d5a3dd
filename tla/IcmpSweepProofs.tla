--------------------------- MODULE IcmpSweepProofs ---------------------------
(***************************************************************************)
(* What an icmp-full sweep concludes from its packets, for any number of   *)
(* sweeps side by side, any types, and any packets of others (module       *)
(* IcmpSweep).  The invariant rests on the ids: NEXT_ICMP_ID gives each    *)
(* probe of the sweeps another one, so a packet with a probe's id is that  *)
(* probe, an answer to it, or someone else's.                              *)
(***************************************************************************)
EXTENDS IcmpSweep, FiniteSetTheorems, SequenceTheorems, TLAPS

Probes == [type : Int, id : 0 .. Ids, seq : Nat, left : Nat, open : BOOLEAN, heard : BOOLEAN]

TypeInv ==
  /\ next_id \in 0 .. Ids - 1
  /\ at \in [Sweeps -> 1 .. Len(Types) + 1]
  /\ elapsed \in [Sweeps -> 0 .. Timeout]
  /\ probe \in [Sweeps -> Probes]
  /\ DOMAIN inbox = Sweeps /\ DOMAIN latest = Sweeps

\* An open socket waits for the reply to the probe of the current type.
ProbeCurrent ==
  \A s \in Sweeps : Open(s) =>
    /\ at[s] \in DOMAIN Types
    /\ probe[s].type = Types[at[s]] /\ probe[s].seq = at[s] - 1
    /\ probe[s].left <= Timeout - elapsed[s]

-----------------------------------------------------------------------------
\* A packet of the sweeps: a probe, or the answer to one that has one.
OfSweeps(p) ==
  /\ p.of \in Sweeps /\ p.seq + 1 \in DOMAIN Types
  /\ IF p.answer THEN p.type = Expected(Types[p.seq + 1]) /\ p.type # NoType
                 ELSE p.type = Types[p.seq + 1]

\* Any other is an answer.
OfOthers(p) == p.of = Others /\ p.answer /\ p.type # NoType

FlightKnown == \A p \in flight : OfSweeps(p) /\ p.fromDest /\ p.whole

\* A socket has one packet at most, and none when it is closed.
InboxSmall ==
  \A s \in Sweeps : inbox[s] # <<>> =>
    LET p == Head(inbox[s])
    IN Open(s) /\ inbox[s] = <<p>> /\ (OfSweeps(p) \/ OfOthers(p))

-----------------------------------------------------------------------------
\* The types a sweep has begun.
Begun ==
  {b \in Sweeps \X DOMAIN Types :
     b[2] < at[b[1]] \/ (b[2] = at[b[1]] /\ Open(b[1]))}

\* How far an id is from another, counted upwards and round.
Dist(a, b) == IF b >= a THEN b - a ELSE b - a + Ids

\* The ids given out: each once, those that follow on the first.
GivenOut(idOf, first) ==
  /\ DOMAIN idOf \subseteq Begun /\ first \in 0 .. Ids - 1
  /\ \A b \in DOMAIN idOf :
       idOf[b] \in 0 .. Ids - 1 /\ Dist(first, idOf[b]) < Cardinality(DOMAIN idOf)
  /\ \A b, c \in DOMAIN idOf : idOf[b] = idOf[c] => b = c
  /\ Cardinality(DOMAIN idOf) < Ids => Dist(first, next_id) = Cardinality(DOMAIN idOf)

\* A packet of the sweeps has the id of the probe it is or answers.
Carries(idOf, p) ==
  p.of \in Sweeps => <<p.of, p.seq + 1>> \in DOMAIN idOf /\ p.id = idOf[<<p.of, p.seq + 1>>]

IdsCarried(idOf) ==
  /\ \A s \in Sweeps : Open(s) =>
       <<s, at[s]>> \in DOMAIN idOf /\ probe[s].id = idOf[<<s, at[s]>>]
  /\ \A p \in flight : Carries(idOf, p)
  /\ \A s \in Sweeps : inbox[s] # <<>> => Carries(idOf, Head(inbox[s]))

IdsApart == \E idOf, first : GivenOut(idOf, first) /\ IdsCarried(idOf)

-----------------------------------------------------------------------------
\* The result of the latest type, and of those that have no reply.
PassesTrue ==
  \A s \in Sweeps : latest[s].status = "pass" =>
    LET p == latest[s].by
        i == at[s] - 1
    IN /\ p.answer /\ p.fromDest /\ p.whole
       /\ p.of \in {s, Others}
       /\ p.type = Expected(Types[i]) /\ p.seq = i - 1

Unanswered ==
  \A s \in Sweeps : \A i \in DOMAIN Types :
    i < at[s] /\ Expected(Types[i]) = NoType => s \in failures \cup errors

\* A reply that has come in time is in the socket, or was taken for a pass.
HeardKept ==
  \A s \in Sweeps :
    /\ Open(s) /\ probe[s].heard => inbox[s] = <<ReplyTo(s)>> /\ probe[s].left > 0
    /\ ~Open(s) /\ (probe[s].heard \/ probe[s].left > 0) => latest[s].status = "pass"

SweepInv ==
  /\ TypeInv /\ ProbeCurrent /\ FlightKnown /\ InboxSmall /\ IdsApart
  /\ PassesTrue /\ Unanswered /\ HeardKept

-----------------------------------------------------------------------------
\* Ids follow one another and wrap (next_icmp_id).
LEMMA NextId ==
  ASSUME next_id \in 0 .. Ids - 1
  PROVE  next_icmp_id = IF next_id + 1 = Ids THEN 0 ELSE next_id + 1
<1>1. Ids \in Nat /\ Ids > 0 /\ next_id \in Nat /\ next_id < Ids
  BY SweepAssumption
<1>2. CASE next_id + 1 = Ids
  BY <1>1, <1>2 DEF next_icmp_id
<1>3. CASE next_id + 1 < Ids
  BY <1>1, <1>3 DEF next_icmp_id
<1> QED BY <1>1, <1>2, <1>3

\* No type is the reply to itself.
LEMMA ExpectedFacts ==
  \A t \in 0 .. 255 : Expected(t) \in Int /\ Expected(t) # t
BY DEF Expected, NoType

\* The type a sweep has come to is one of Types.
LEMMA TypeAt ==
  /\ Len(Types) \in Nat \ {0} /\ DOMAIN Types = 1 .. Len(Types)
  /\ \A i \in DOMAIN Types : Types[i] \in 0 .. 255 /\ Types[i] \in Int
<1>1. Types \in Seq(0 .. 255) /\ Types # <<>>
  BY SweepAssumption
<1>2. Len(Types) \in Nat /\ DOMAIN Types = 1 .. Len(Types)
  BY <1>1, LenProperties
<1>3. Len(Types) # 0
  BY <1>1, EmptySeq
<1>4. \A i \in DOMAIN Types : Types[i] \in 0 .. 255
  BY <1>1, <1>2, ElementOfSeq
<1>5. \A t \in 0 .. 255 : t \in Int
  OBVIOUS
<1> QED BY <1>2, <1>3, <1>4, <1>5

LEMMA SweepInvInit == Init => SweepInv
<1> SUFFICES ASSUME Init PROVE SweepInv
  OBVIOUS
<1> USE DEF Init
<1>1. \A s \in Sweeps : ~Open(s) /\ ~probe[s].heard /\ probe[s].left = 0
                        /\ inbox[s] = <<>> /\ latest[s].status = "none" /\ at[s] = 1
  BY DEF Open
<1>2. TypeInv
  BY SweepAssumption, TypeAt DEF TypeInv, Probes, NoType
<1>3. ProbeCurrent /\ FlightKnown /\ InboxSmall /\ PassesTrue /\ HeardKept
  BY <1>1 DEF ProbeCurrent, FlightKnown, InboxSmall, PassesTrue, HeardKept
<1>4. Unanswered
  BY <1>1, TypeAt DEF Unanswered
<1>5. IdsApart
  <2>1. PICK none : none = [b \in {} |-> 0]
    OBVIOUS
  <2>2. DOMAIN none = {} /\ Cardinality(DOMAIN none) = 0
    BY <2>1, FS_EmptySet
  <2>3. GivenOut(none, next_id)
    BY <1>2, <2>2 DEF GivenOut, Dist, TypeInv
  <2>4. IdsCarried(none)
    BY <1>1 DEF IdsCarried
  <2> QED BY <2>3, <2>4 DEF IdsApart
<1> QED BY <1>2, <1>3, <1>4, <1>5 DEF SweepInv

-----------------------------------------------------------------------------
\* A step that takes no id.
LEMMA IdsKept ==
  ASSUME IdsApart, next_id' = next_id, Begun \subseteq Begun',
         \A s \in Sweeps : Open(s)' =>
           Open(s) /\ at'[s] = at[s] /\ probe'[s].id = probe[s].id,
         \A p \in flight' : \E q \in flight : p.of = q.of /\ p.seq = q.seq /\ p.id = q.id,
         \A s \in Sweeps : inbox'[s] # <<>> =>
           \/ inbox'[s] = inbox[s]
           \/ Head(inbox'[s]) \in flight \/ Head(inbox'[s]).of \notin Sweeps
  PROVE  IdsApart'
<1>1. PICK idOf, first : GivenOut(idOf, first) /\ IdsCarried(idOf)
  BY DEF IdsApart
<1>2. GivenOut(idOf, first)'
  BY <1>1 DEF GivenOut
<1>3. IdsCarried(idOf)'
  <2>1. \A p, q : p.of = q.of /\ p.seq = q.seq /\ p.id = q.id /\ Carries(idOf, q)
                    => Carries(idOf, p)
    BY DEF Carries
  <2>2. \A p \in flight' : Carries(idOf, p)
    BY <1>1, <2>1 DEF IdsCarried
  <2>3. \A s \in Sweeps : inbox'[s] # <<>> => Carries(idOf, Head(inbox'[s]))
    BY <1>1 DEF IdsCarried, Carries
  <2>4. \A s \in Sweeps : Open(s)' =>
          <<s, at'[s]>> \in DOMAIN idOf /\ probe'[s].id = idOf[<<s, at'[s]>>]
    BY <1>1 DEF IdsCarried
  <2> QED BY <2>2, <2>3, <2>4 DEF IdsCarried
<1> QED BY <1>2, <1>3 DEF IdsApart

\* A sweep begins a type and takes the next id for it: there is one left.
LEMMA IdTaken ==
  ASSUME SweepInv, NEW s \in Sweeps, at[s] <= Len(Types), ~Open(s),
         next_id' = next_icmp_id, Begun' = Begun \cup {<<s, at[s]>>},
         \A u \in Sweeps : u # s => at'[u] = at[u] /\ probe'[u] = probe[u],
         Open(s)' => at'[s] = at[s] /\ probe'[s].id = next_id,
         \A p \in flight' : p \in flight \/ (p.of = s /\ p.seq + 1 = at[s] /\ p.id = next_id),
         \A u \in Sweeps : inbox'[u] = inbox[u]
  PROVE  IdsApart'
<1>1. PICK idOf, first : GivenOut(idOf, first) /\ IdsCarried(idOf)
  BY DEF SweepInv, IdsApart
<1>2. PICK new : new = <<s, at[s]>>
  OBVIOUS
<1>3. PICK c : c = Cardinality(DOMAIN idOf)
  OBVIOUS
<1>4. new \notin Begun /\ new \in Sweeps \X DOMAIN Types
  BY <1>2, TypeAt DEF SweepInv, TypeInv, Begun
<1>5. DOMAIN idOf \subseteq Begun /\ Begun \subseteq Sweeps \X DOMAIN Types
  BY <1>1 DEF GivenOut, Begun
<1>6. PICK D : D = DOMAIN idOf \cup {new}
  OBVIOUS
<1>7. Cardinality(D) = c + 1 /\ c \in Nat /\ c + 1 <= Ids
  <2>1. /\ IsFiniteSet(Sweeps \X DOMAIN Types)
        /\ Cardinality(Sweeps \X DOMAIN Types) <= Ids
    <3>1. IsFiniteSet(DOMAIN Types) /\ Cardinality(DOMAIN Types) = Len(Types)
      BY TypeAt, FS_Interval
    <3>2. IsFiniteSet(Sweeps)
      BY SweepAssumption
    <3>3. /\ IsFiniteSet(Sweeps \X DOMAIN Types)
          /\ Cardinality(Sweeps \X DOMAIN Types) = Cardinality(Sweeps) * Cardinality(DOMAIN Types)
      BY <3>1, <3>2, FS_Product, Zenon
    <3> QED BY <3>1, <3>3, SweepAssumption
  <2>2. DOMAIN idOf \in SUBSET (Sweeps \X DOMAIN Types) /\ D \in SUBSET (Sweeps \X DOMAIN Types)
    BY <1>4, <1>5, <1>6
  <2>3. /\ IsFiniteSet(DOMAIN idOf) /\ IsFiniteSet(D)
        /\ Cardinality(D) <= Cardinality(Sweeps \X DOMAIN Types)
    BY <2>1, <2>2, FS_Subset
  <2>4. Cardinality(D) = c + 1
    BY <1>3, <1>4, <1>5, <1>6, <2>3, FS_AddElement
  <2>5. /\ c \in Nat /\ Cardinality(D) \in Nat
        /\ Cardinality(Sweeps \X DOMAIN Types) \in Nat
    BY <1>3, <2>1, <2>3, FS_CardinalityType
  <2> QED BY <2>1, <2>3, <2>4, <2>5, SweepAssumption
<1>8. PICK ids : ids = [b \in D |-> IF b = new THEN next_id ELSE idOf[b]]
  OBVIOUS
<1>9. DOMAIN ids = D /\ ids[new] = next_id /\ \A b \in DOMAIN idOf : ids[b] = idOf[b]
  BY <1>4, <1>5, <1>6, <1>8
<1>10. /\ next_id \in 0 .. Ids - 1 /\ first \in 0 .. Ids - 1 /\ Ids \in Nat
       /\ Dist(first, next_id) = c
       /\ next_id' = IF next_id + 1 = Ids THEN 0 ELSE next_id + 1
  BY <1>1, <1>3, <1>7, NextId, SweepAssumption DEF GivenOut, SweepInv, TypeInv
<1>11. GivenOut(ids, first)'
  <2>1. \A b \in D : ids[b] \in 0 .. Ids - 1 /\ Dist(first, ids[b]) < c + 1
    <3>1. \A b \in DOMAIN idOf : idOf[b] \in 0 .. Ids - 1 /\ Dist(first, idOf[b]) < c
      BY <1>1, <1>3 DEF GivenOut
    <3>2. \A b \in DOMAIN idOf : Dist(first, idOf[b]) < c + 1
      BY <1>7, <1>10, <3>1 DEF Dist
    <3> QED BY <1>6, <1>7, <1>9, <1>10, <3>1, <3>2
  <2>2. \A b \in DOMAIN idOf : idOf[b] # next_id
    BY <1>1, <1>3, <1>7, <1>10 DEF GivenOut
  <2>3. \A b, d \in D : ids[b] = ids[d] => b = d
    BY <1>1, <1>6, <1>9, <2>2 DEF GivenOut
  <2>4. c + 1 < Ids => Dist(first, next_id') = c + 1
    BY <1>7, <1>10 DEF Dist
  <2>5. D \subseteq Begun'
    BY <1>2, <1>5, <1>6
  <2> QED BY <1>7, <1>9, <1>10, <2>1, <2>3, <2>4, <2>5 DEF GivenOut, Dist
<1>12. IdsCarried(ids)'
  <2>1. \A p : Carries(idOf, p) => Carries(ids, p)
    BY <1>6, <1>9 DEF Carries
  <2>2. \A p \in flight' : Carries(ids, p)
    BY <1>1, <1>2, <1>6, <1>9, <2>1 DEF IdsCarried, Carries
  <2>3. \A u \in Sweeps : inbox'[u] # <<>> => Carries(ids, Head(inbox'[u]))
    BY <1>1, <2>1 DEF IdsCarried
  <2>4. ASSUME NEW u \in Sweeps, Open(u)'
        PROVE  <<u, at'[u]>> \in DOMAIN ids /\ probe'[u].id = ids[<<u, at'[u]>>]
    <3>1. CASE u = s
      BY <1>2, <1>6, <1>9, <2>4, <3>1
    <3>2. CASE u # s
      <4>1. Open(u) /\ at'[u] = at[u] /\ probe'[u].id = probe[u].id
        BY <2>4, <3>2 DEF Open
      <4> QED BY <1>1, <1>6, <1>9, <4>1 DEF IdsCarried
    <3> QED BY <3>1, <3>2
  <2> QED BY <2>2, <2>3, <2>4 DEF IdsCarried
<1> QED BY <1>11, <1>12 DEF IdsApart

-----------------------------------------------------------------------------
\* A type has its result: what a pass rests on is left to the caller.
LEMMA ConcludeKeeps ==
  ASSUME SweepInv, NEW s \in Sweeps, at[s] <= Len(Types),
         NEW status \in {"pass", "fail", "error"}, NEW by, Concludes(s, status, by),
         probe' \in [Sweeps -> Probes], \A u \in Sweeps : u # s => probe'[u] = probe[u],
         ~probe'[s].open, probe'[s].heard \/ probe'[s].left > 0 => status = "pass",
         status = "pass" =>
           /\ by.answer /\ by.fromDest /\ by.whole /\ by.of \in {s, Others}
           /\ by.type = Expected(Types[at[s]]) /\ by.type # NoType /\ by.seq = at[s] - 1,
         next_id' \in 0 .. Ids - 1, elapsed' = elapsed, flight' = flight
  PROVE  /\ TypeInv' /\ ProbeCurrent' /\ FlightKnown' /\ InboxSmall'
         /\ PassesTrue' /\ Unanswered' /\ HeardKept'
<1> USE TypeAt DEF SweepInv
<1>1. /\ at \in [Sweeps -> 1 .. Len(Types) + 1] /\ probe \in [Sweeps -> Probes]
      /\ DOMAIN inbox = Sweeps /\ DOMAIN latest = Sweeps
      /\ elapsed \in [Sweeps -> 0 .. Timeout]
  BY DEF TypeInv
<1>2. /\ at'[s] = at[s] + 1 /\ at[s] \in DOMAIN Types /\ at[s] \in Nat /\ inbox'[s] = <<>>
      /\ latest'[s].status = status /\ latest'[s].by = by
      /\ ~Open(s)'
  BY <1>1 DEF Concludes, Open
<1>3. \A u \in Sweeps : u # s =>
        /\ at'[u] = at[u] /\ inbox'[u] = inbox[u] /\ latest'[u] = latest[u]
        /\ probe'[u] = probe[u] /\ Open(u)' = Open(u) /\ ReplyTo(u)' = ReplyTo(u)
  BY <1>1 DEF Concludes, Open, ReplyTo
<1>4. TypeInv'
  BY <1>1, <1>2 DEF TypeInv, Concludes
<1>5. ProbeCurrent'
  BY <1>2, <1>3 DEF ProbeCurrent
<1>6. FlightKnown' /\ InboxSmall'
  BY <1>2, <1>3 DEF FlightKnown, InboxSmall
<1>7. PassesTrue'
  <2>1. at'[s] - 1 = at[s]
    BY <1>2
  <2> QED BY <1>2, <1>3, <2>1 DEF PassesTrue
<1>8. Unanswered'
  <2>1. failures \subseteq failures' /\ errors \subseteq errors'
        /\ (status = "fail" => s \in failures') /\ (status = "error" => s \in errors')
    BY DEF Concludes
  <2>2. \A i \in DOMAIN Types : i < at'[s] => i < at[s] \/ i = at[s]
    BY <1>1, <1>2
  <2> QED BY <1>2, <1>3, <2>1, <2>2 DEF Unanswered
<1>9. HeardKept'
  BY <1>2, <1>3 DEF HeardKept
<1> QED BY <1>4, <1>5, <1>6, <1>7, <1>8, <1>9

\* The steps that send nothing and wait no longer keep the types begun.
LEMMA BegunKept ==
  ASSUME SweepInv, NEW s \in Sweeps, at' = [at EXCEPT ![s] = @ + 1],
         \A u \in Sweeps : u # s => probe'[u] = probe[u], ~Open(s)'
  PROVE  /\ Begun \subseteq Begun'
         /\ ~Open(s) => Begun' \subseteq Begun \cup {<<s, at[s]>>}
<1> USE TypeAt DEF SweepInv
<1>1. at \in [Sweeps -> 1 .. Len(Types) + 1]
  BY DEF TypeInv
<1>2. \A u \in Sweeps : u # s => at'[u] = at[u] /\ Open(u)' = Open(u)
  BY <1>1 DEF Open
<1>3. at'[s] = at[s] + 1 /\ at[s] \in Nat
  BY <1>1
<1>4. ASSUME NEW b \in Sweeps \X DOMAIN Types
      PROVE  /\ b \in Begun => b \in Begun'
             /\ ~Open(s) /\ b \in Begun' => b \in Begun \/ b = <<s, at[s]>>
  <2>1. CASE b[1] # s
    BY <1>2, <2>1 DEF Begun
  <2>2. CASE b[1] = s
    BY <1>3, <2>2 DEF Begun
  <2> QED BY <2>1, <2>2
<1> QED BY <1>4 DEF Begun

-----------------------------------------------------------------------------
\* A reply that matches answers this sweep's probe, or is another program's.
LEMMA MatchIsAnswer ==
  ASSUME SweepInv, NEW s \in Sweeps, Open(s), inbox[s] # <<>>, Matches(Head(inbox[s]), s)
  PROVE  LET p == Head(inbox[s])
         IN /\ p.answer /\ p.fromDest /\ p.whole /\ p.of \in {s, Others}
            /\ p.type = Expected(Types[at[s]]) /\ p.type # NoType /\ p.seq = at[s] - 1
<1> USE TypeAt DEF SweepInv
<1>1. PICK p : p = Head(inbox[s])
  OBVIOUS
<1>2. PICK idOf, first : GivenOut(idOf, first) /\ IdsCarried(idOf)
  BY DEF IdsApart
<1>3. /\ at[s] \in DOMAIN Types /\ at[s] \in Nat
      /\ probe[s].type = Types[at[s]] /\ probe[s].seq = at[s] - 1
  BY DEF ProbeCurrent, TypeInv
<1>4. /\ p.type = Expected(Types[at[s]]) /\ p.id = probe[s].id /\ p.seq = at[s] - 1
      /\ p.whole /\ p.fromDest
  BY <1>1, <1>3 DEF Matches
<1>5. p.seq + 1 = at[s]
  BY <1>3, <1>4
<1>6. CASE OfOthers(p)
  BY <1>1, <1>4, <1>6 DEF OfOthers
<1>7. CASE OfSweeps(p)
  <2>1. /\ <<s, at[s]>> \in DOMAIN idOf /\ probe[s].id = idOf[<<s, at[s]>>]
        /\ <<p.of, p.seq + 1>> \in DOMAIN idOf /\ p.id = idOf[<<p.of, p.seq + 1>>]
    BY <1>1, <1>2, <1>7 DEF IdsCarried, Carries, OfSweeps
  <2>2. <<p.of, p.seq + 1>> = <<s, at[s]>>
    BY <1>2, <1>4, <2>1 DEF GivenOut
  <2>3. p.of = s
    BY <2>2
  <2>4. p.answer
    BY <1>3, <1>4, <1>5, <1>7, ExpectedFacts DEF OfSweeps
  <2> QED BY <1>1, <1>4, <1>5, <1>7, <2>3, <2>4 DEF OfSweeps
<1> QED BY <1>1, <1>6, <1>7 DEF InboxSmall

\* What the changes to a sweep's probe leave of it.
LEMMA ProbeShut ==
  ASSUME probe \in [Sweeps -> Probes], NEW s \in Sweeps,
         probe' = [probe EXCEPT ![s].open = FALSE]
  PROVE  /\ probe' \in [Sweeps -> Probes] /\ \A u \in Sweeps : u # s => probe'[u] = probe[u]
         /\ ~probe'[s].open
         /\ probe'[s].heard = probe[s].heard /\ probe'[s].left = probe[s].left
BY DEF Probes

LEMMA ProbeSilenced ==
  ASSUME probe \in [Sweeps -> Probes], NEW s \in Sweeps,
         probe' = [probe EXCEPT ![s].heard = FALSE, ![s].left = 0]
  PROVE  /\ probe' \in [Sweeps -> Probes] /\ \A u \in Sweeps : u # s => probe'[u] = probe[u]
         /\ probe'[s].open = probe[s].open
         /\ ~probe'[s].heard /\ probe'[s].left = 0
BY DEF Probes

LEMMA ProbeGivenUp ==
  ASSUME probe \in [Sweeps -> Probes], NEW s \in Sweeps,
         probe' = [probe EXCEPT ![s].open = FALSE, ![s].heard = FALSE, ![s].left = 0]
  PROVE  /\ probe' \in [Sweeps -> Probes] /\ \A u \in Sweeps : u # s => probe'[u] = probe[u]
         /\ ~probe'[s].open /\ ~probe'[s].heard /\ probe'[s].left = 0
BY DEF Probes

\* The steps that give a type its result.
LEMMA ResultsKeep ==
  ASSUME SweepInv, NEW s \in Sweeps,
         \/ Unsent(s) \/ CannotSend(s) \/ TimesOut(s) \/ SocketFails(s)
         \/ Receives(s) /\ Matches(Head(inbox[s]), s)
  PROVE  SweepInv'
<1> USE TypeAt
<1>1. /\ at \in [Sweeps -> 1 .. Len(Types) + 1] /\ probe \in [Sweeps -> Probes]
      /\ next_id \in 0 .. Ids - 1 /\ DOMAIN inbox = Sweeps
      /\ (Open(s) => at[s] <= Len(Types))
  BY DEF SweepInv, TypeInv, ProbeCurrent
<1>2. next_icmp_id \in 0 .. Ids - 1
  BY <1>1, NextId, SweepAssumption
<1>3. DEFINE Parts == /\ TypeInv' /\ ProbeCurrent' /\ FlightKnown' /\ InboxSmall'
                      /\ PassesTrue' /\ Unanswered' /\ HeardKept'
<1>4. SUFFICES Parts /\ IdsApart'
  BY DEF SweepInv
<1>6. ASSUME next_id' = next_id, at' = [at EXCEPT ![s] = @ + 1],
             inbox' = [inbox EXCEPT ![s] = <<>>], flight' = flight,
             \A u \in Sweeps : u # s => probe'[u] = probe[u], ~Open(s)'
      PROVE  IdsApart'
  <2>1. Begun \subseteq Begun'
    BY <1>6, BegunKept
  <2>2. \A u \in Sweeps : Open(u)' => Open(u) /\ at'[u] = at[u] /\ probe'[u].id = probe[u].id
    BY <1>1, <1>6 DEF Open
  <2>3. \A u \in Sweeps : inbox'[u] # <<>> => inbox'[u] = inbox[u]
    BY <1>1, <1>6
  <2> QED BY <1>6, <2>1, <2>2, <2>3, IdsKept DEF SweepInv
<1> HIDE DEF Parts
<1>7. CASE Unsent(s)
  <2>1. /\ probe' \in [Sweeps -> Probes] /\ \A u \in Sweeps : u # s => probe'[u] = probe[u]
        /\ ~probe'[s].open /\ ~probe'[s].heard /\ probe'[s].left = 0
    BY <1>1, <1>7, ProbeSilenced DEF Unsent, Open
  <2>2. Parts
    <3>1. /\ at[s] <= Len(Types) /\ Concludes(s, "fail", Nothing)
          /\ next_id' \in 0 .. Ids - 1 /\ elapsed' = elapsed /\ flight' = flight
      BY <1>1, <1>7 DEF Unsent
    <3> QED BY <2>1, <3>1, ConcludeKeeps DEF Parts
  <2>3. IdsApart'
    BY <1>6, <1>7, <2>1 DEF Unsent, Concludes, Open
  <2> QED BY <2>2, <2>3
<1>8. CASE CannotSend(s)
  <2>1. /\ probe' \in [Sweeps -> Probes] /\ \A u \in Sweeps : u # s => probe'[u] = probe[u]
        /\ ~probe'[s].open /\ ~probe'[s].heard /\ probe'[s].left = 0
    BY <1>1, <1>8, ProbeSilenced DEF CannotSend, Open
  <2>2. Parts
    <3>1. /\ at[s] <= Len(Types) /\ Concludes(s, "error", Nothing)
          /\ next_id' \in 0 .. Ids - 1 /\ elapsed' = elapsed /\ flight' = flight
      BY <1>2, <1>8 DEF CannotSend
    <3> QED BY <2>1, <3>1, ConcludeKeeps DEF Parts
  <2>3. Begun' = Begun \cup {<<s, at[s]>>}
    <3>1. at' = [at EXCEPT ![s] = @ + 1] /\ ~Open(s) /\ ~Open(s)'
      BY <1>8, <2>1 DEF CannotSend, Concludes, Open
    <3>2. Begun \subseteq Begun' /\ Begun' \subseteq Begun \cup {<<s, at[s]>>}
      BY <2>1, <3>1, BegunKept
    <3>3. <<s, at[s]>> \in Begun'
      BY <1>1, <1>8, <3>1 DEF Begun, CannotSend
    <3> QED BY <3>2, <3>3
  <2>4. /\ at[s] <= Len(Types) /\ ~Open(s) /\ next_id' = next_icmp_id /\ ~Open(s)'
        /\ flight' = flight
        /\ \A u \in Sweeps : u # s => at'[u] = at[u] /\ probe'[u] = probe[u]
    BY <1>1, <1>8, <2>1 DEF CannotSend, Concludes, Open
  <2>5. \A u \in Sweeps : inbox'[u] = inbox[u]
    <3>1. inbox[s] = <<>>
      BY <2>4 DEF SweepInv, InboxSmall
    <3> QED BY <1>1, <1>8, <3>1 DEF CannotSend, Concludes
  <2>6. IdsApart'
    BY <2>3, <2>4, <2>5, IdTaken
  <2> QED BY <2>2, <2>6
<1>9. CASE TimesOut(s)
  <2>1. /\ probe' \in [Sweeps -> Probes] /\ \A u \in Sweeps : u # s => probe'[u] = probe[u]
        /\ ~probe'[s].open /\ ~probe'[s].heard /\ probe'[s].left = 0
    <3>1. probe[s].left = 0 /\ Open(s)
      BY <1>9 DEF TimesOut
    <3>2. ~probe[s].heard
      BY <1>1, <3>1 DEF SweepInv, HeardKept
    <3> QED BY <1>1, <1>9, <3>1, <3>2, ProbeShut DEF TimesOut
  <2>2. Parts
    <3>1. /\ at[s] <= Len(Types) /\ Concludes(s, "fail", Nothing)
          /\ next_id' \in 0 .. Ids - 1 /\ elapsed' = elapsed /\ flight' = flight
      BY <1>1, <1>9 DEF TimesOut
    <3> QED BY <2>1, <3>1, ConcludeKeeps DEF Parts
  <2>3. IdsApart'
    BY <1>6, <1>9, <2>1 DEF TimesOut, Concludes, Open
  <2> QED BY <2>2, <2>3
<1>10. CASE SocketFails(s)
  <2>1. /\ probe' \in [Sweeps -> Probes] /\ \A u \in Sweeps : u # s => probe'[u] = probe[u]
        /\ ~probe'[s].open /\ ~probe'[s].heard /\ probe'[s].left = 0
    BY <1>1, <1>10, ProbeGivenUp DEF SocketFails
  <2>2. PICK status \in {"fail", "error"} : Concludes(s, status, Nothing)
    BY <1>10 DEF SocketFails
  <2>3. Parts
    <3>1. /\ at[s] <= Len(Types)
          /\ next_id' \in 0 .. Ids - 1 /\ elapsed' = elapsed /\ flight' = flight
      BY <1>1, <1>10 DEF SocketFails
    <3> QED BY <2>1, <2>2, <3>1, ConcludeKeeps DEF Parts
  <2>4. IdsApart'
    BY <1>6, <1>10, <2>1, <2>2 DEF SocketFails, Concludes, Open
  <2> QED BY <2>3, <2>4
<1>11. CASE Receives(s) /\ Matches(Head(inbox[s]), s)
  <2>1. Open(s) /\ inbox[s] # <<>> /\ probe' = [probe EXCEPT ![s].open = FALSE]
        /\ Concludes(s, "pass", Head(inbox[s]))
        /\ UNCHANGED <<next_id, elapsed, flight, foreign>>
    BY <1>11 DEF Receives
  <2>2. /\ probe' \in [Sweeps -> Probes] /\ \A u \in Sweeps : u # s => probe'[u] = probe[u]
        /\ ~probe'[s].open
    BY <1>1, <2>1, ProbeShut
  <2>3. PICK by : by = Head(inbox[s])
    OBVIOUS
  <2>4. /\ by.answer /\ by.fromDest /\ by.whole /\ by.of \in {s, Others}
        /\ by.type = Expected(Types[at[s]]) /\ by.type # NoType /\ by.seq = at[s] - 1
    BY <1>11, <2>1, <2>3, MatchIsAnswer
  <2>5. Parts
    BY <1>1, <2>1, <2>2, <2>3, <2>4, ConcludeKeeps DEF Parts
  <2>6. IdsApart'
    BY <1>6, <2>1, <2>2 DEF Concludes, Open
  <2> QED BY <2>5, <2>6
<1> QED BY <1>7, <1>8, <1>9, <1>10, <1>11

LEMMA SendsKeeps ==
  ASSUME SweepInv, NEW s \in Sweeps, Sends(s)
  PROVE  SweepInv'
<1> USE TypeAt
<1>1. /\ at \in [Sweeps -> 1 .. Len(Types) + 1] /\ probe \in [Sweeps -> Probes]
      /\ next_id \in 0 .. Ids - 1 /\ elapsed \in [Sweeps -> 0 .. Timeout]
      /\ Timeout \in Nat /\ Ids \in Nat
  BY SweepAssumption DEF SweepInv, TypeInv
<1>2. /\ at[s] \in DOMAIN Types /\ at[s] \in Nat \ {0} /\ ~Open(s) /\ Remaining(s) > 0
      /\ next_id' = next_icmp_id /\ at' = at /\ elapsed' = elapsed /\ inbox' = inbox
      /\ latest' = latest /\ failures' = failures /\ errors' = errors
  BY <1>1 DEF Sends
<1>3. Wait(s) \in Nat /\ Wait(s) <= Timeout - elapsed[s] /\ Wait(s) > 0
  BY <1>1, <1>2 DEF Wait, PerType, Remaining
<1>4. PICK new : new = [type |-> Types[at[s]], id |-> next_id, seq |-> at[s] - 1,
                        left |-> Wait(s), open |-> TRUE, heard |-> FALSE]
  OBVIOUS
<1>5. /\ new \in Probes /\ new.type = Types[at[s]] /\ new.seq = at[s] - 1
      /\ new.id = next_id /\ new.left = Wait(s) /\ new.open /\ ~new.heard
  <2>1. next_id \in 0 .. Ids
    BY <1>1
  <2>2. Types[at[s]] \in Int /\ at[s] - 1 \in Nat
    BY <1>2
  <2> QED BY <1>3, <1>4, <2>1, <2>2 DEF Probes
<1>6. /\ probe' \in [Sweeps -> Probes] /\ probe'[s] = new
      /\ \A u \in Sweeps : u # s => probe'[u] = probe[u]
  <2>1. probe' = [probe EXCEPT ![s] = new]
    BY <1>4 DEF Sends
  <2> QED BY <1>1, <1>5, <2>1
<1>7. \A u \in Sweeps : u # s => Open(u)' = Open(u) /\ ReplyTo(u)' = ReplyTo(u)
  BY <1>6 DEF Open, ReplyTo
<1>8. Open(s)' /\ inbox[s] = <<>>
  BY <1>2, <1>5, <1>6 DEF Open, SweepInv, InboxSmall
<1>9. PICK p : p = Packet(Types[at[s]], next_id, at[s] - 1, FALSE, s)
  OBVIOUS
<1>10. /\ p.of = s /\ p.seq = at[s] - 1 /\ p.id = next_id /\ ~p.answer /\ p.fromDest /\ p.whole
       /\ p.type = Types[at[s]] /\ p.seq + 1 = at[s]
       /\ flight' \subseteq flight \cup {p}
  BY <1>2, <1>9 DEF Packet, Sends
<1>11. TypeInv'
  <2>1. next_id' \in 0 .. Ids - 1
    BY <1>1, <1>2, NextId
  <2> QED BY <1>2, <1>6, <2>1 DEF SweepInv, TypeInv
<1>12. ProbeCurrent'
  BY <1>2, <1>3, <1>5, <1>6, <1>7 DEF SweepInv, ProbeCurrent
<1>13. FlightKnown'
  <2>1. OfSweeps(p)
    BY <1>2, <1>10 DEF OfSweeps
  <2> QED BY <1>10, <2>1 DEF SweepInv, FlightKnown
<1>14. InboxSmall'
  BY <1>2, <1>7, <1>8 DEF SweepInv, InboxSmall
<1>15. PassesTrue' /\ Unanswered'
  BY <1>2 DEF SweepInv, PassesTrue, Unanswered
<1>16. HeardKept'
  BY <1>2, <1>5, <1>6, <1>7, <1>8 DEF SweepInv, HeardKept
<1>17. IdsApart'
  <2>1. Begun' = Begun \cup {<<s, at[s]>>}
    <3>1. ASSUME NEW b \in Sweeps \X DOMAIN Types
          PROVE  b \in Begun' <=> b \in Begun \/ b = <<s, at[s]>>
      <4>1. CASE b[1] # s
        BY <1>2, <1>7, <4>1 DEF Begun
      <4>2. CASE b[1] = s
        BY <1>2, <1>8, <4>2 DEF Begun
      <4> QED BY <4>1, <4>2
    <3> QED BY <1>2, <3>1 DEF Begun
  <2>2. \A q \in flight' : q \in flight \/ (q.of = s /\ q.seq + 1 = at[s] /\ q.id = next_id)
    BY <1>10
  <2>3. /\ at[s] <= Len(Types)
        /\ \A u \in Sweeps : u # s => at'[u] = at[u] /\ probe'[u] = probe[u]
        /\ at'[s] = at[s] /\ probe'[s].id = next_id
        /\ \A u \in Sweeps : inbox'[u] = inbox[u]
    BY <1>2, <1>5, <1>6
  <2> QED BY <1>2, <2>1, <2>2, <2>3, IdTaken
<1> QED BY <1>11, <1>12, <1>13, <1>14, <1>15, <1>16, <1>17 DEF SweepInv

\* A packet that does not match was not the reply the sweep waits for.
LEMMA PassesOverKeeps ==
  ASSUME SweepInv, NEW s \in Sweeps, Receives(s), ~Matches(Head(inbox[s]), s)
  PROVE  SweepInv'
<1>1. /\ Open(s) /\ inbox[s] # <<>> /\ inbox' = [inbox EXCEPT ![s] = Tail(@)]
      /\ next_id' = next_id /\ at' = at /\ elapsed' = elapsed /\ probe' = probe
      /\ latest' = latest /\ failures' = failures /\ errors' = errors /\ flight' = flight
  BY DEF Receives, PassesOver
<1>2. PICK p : inbox[s] = <<p>>
  BY <1>1 DEF SweepInv, InboxSmall
<1>3. /\ DOMAIN inbox' = Sweeps /\ inbox'[s] = <<>>
      /\ \A u \in Sweeps : u # s => inbox'[u] = inbox[u]
  BY <1>1, <1>2 DEF SweepInv, TypeInv
<1>4. ~probe[s].heard
  <2>1. SUFFICES ASSUME probe[s].heard PROVE FALSE
    OBVIOUS
  <2>2. inbox[s] = <<ReplyTo(s)>>
    BY <1>1, <2>1 DEF SweepInv, HeardKept
  <2>3. Head(inbox[s]) = ReplyTo(s)
    BY <2>2
  <2> QED BY <2>3 DEF Matches, ReplyTo, Packet
<1>5. TypeInv' /\ ProbeCurrent' /\ FlightKnown' /\ PassesTrue' /\ Unanswered'
  BY <1>1, <1>3
     DEF SweepInv, TypeInv, ProbeCurrent, FlightKnown, PassesTrue, Unanswered, Open
<1>6. InboxSmall'
  BY <1>1, <1>3 DEF SweepInv, InboxSmall, Open
<1>7. HeardKept'
  BY <1>1, <1>3, <1>4 DEF SweepInv, HeardKept, Open, ReplyTo
<1>8. IdsApart'
  <2>1. Begun \subseteq Begun'
    BY <1>1 DEF Begun, Open
  <2> QED BY <1>1, <1>3, <2>1, IdsKept DEF SweepInv, Open
<1> QED BY <1>5, <1>6, <1>7, <1>8 DEF SweepInv

-----------------------------------------------------------------------------
\* A packet comes to every open socket.
LEMMA DeliveredKeeps ==
  ASSUME SweepInv, NEW p, Delivered(p), OfSweeps(p) \/ OfOthers(p),
         p \in flight \/ p.of \notin Sweeps,
         UNCHANGED <<next_id, at, elapsed, latest, failures, errors>>, FlightKnown',
         \A r \in flight' : \E q \in flight : r.of = q.of /\ r.seq = q.seq /\ r.id = q.id
  PROVE  SweepInv'
<1>1. /\ \A s \in Sweeps : inbox[s] = <<>>
      /\ inbox' = [s \in Sweeps |-> IF Open(s) THEN <<p>> ELSE <<>>]
      /\ probe' = [s \in Sweeps |->
                     [probe[s] EXCEPT !.heard = @ \/ (p = ReplyTo(s) /\ probe[s].left > 0)]]
  BY DEF Delivered
<1>2. ASSUME NEW s \in Sweeps
      PROVE  /\ probe'[s] \in Probes /\ Open(s)' = Open(s)
             /\ probe'[s].type = probe[s].type /\ probe'[s].id = probe[s].id
             /\ probe'[s].seq = probe[s].seq /\ probe'[s].left = probe[s].left
             /\ probe'[s].heard <=> probe[s].heard \/ (p = ReplyTo(s) /\ probe[s].left > 0)
  <2>1. PICK e \in Probes : e = probe[s]
    BY DEF SweepInv, TypeInv
  <2>2. PICK now \in BOOLEAN : now <=> p = ReplyTo(s) /\ probe[s].left > 0
    OBVIOUS
  <2>3. probe'[s] = [e EXCEPT !.heard = @ \/ now]
    BY <1>1, <2>1, <2>2
  <2>4. probe'[s] = [type |-> e.type, id |-> e.id, seq |-> e.seq, left |-> e.left,
                     open |-> e.open, heard |-> e.heard \/ now]
    BY <2>1, <2>3 DEF Probes
  <2> QED BY <2>1, <2>2, <2>4 DEF Probes, Open
<1>3. \A s \in Sweeps : ReplyTo(s)' = ReplyTo(s)
  BY <1>2 DEF ReplyTo
<1>4. TypeInv'
  BY <1>1, <1>2 DEF SweepInv, TypeInv
<1>5. ProbeCurrent' /\ PassesTrue' /\ Unanswered'
  BY <1>2 DEF SweepInv, ProbeCurrent, PassesTrue, Unanswered
<1>6. InboxSmall'
  BY <1>1, <1>2 DEF InboxSmall
<1>7. HeardKept'
  <2>1. ASSUME NEW s \in Sweeps, Open(s), probe'[s].heard
        PROVE  inbox'[s] = <<ReplyTo(s)>> /\ probe[s].left > 0
    <3>1. probe[s].heard => inbox[s] = <<ReplyTo(s)>>
      BY <2>1 DEF SweepInv, HeardKept
    <3>2. <<ReplyTo(s)>> # <<>>
      OBVIOUS
    <3> QED BY <1>1, <1>2, <2>1, <3>1, <3>2
  <2>2. ASSUME NEW s \in Sweeps, ~Open(s), probe'[s].heard \/ probe[s].left > 0
        PROVE  latest[s].status = "pass"
    BY <1>2, <2>2 DEF SweepInv, HeardKept
  <2> QED BY <1>2, <1>3, <2>1, <2>2 DEF HeardKept
<1>8. IdsApart'
  <2>1. Begun \subseteq Begun'
    BY <1>2 DEF Begun
  <2>2. \A s \in Sweeps : Open(s)' => Open(s) /\ at'[s] = at[s] /\ probe'[s].id = probe[s].id
    BY <1>2
  <2>3. \A s \in Sweeps : inbox'[s] # <<>> =>
          Head(inbox'[s]) \in flight \/ Head(inbox'[s]).of \notin Sweeps
    BY <1>1
  <2> QED BY <2>1, <2>2, <2>3, IdsKept DEF SweepInv
<1> QED BY <1>4, <1>5, <1>6, <1>7, <1>8 DEF SweepInv

LEMMA ProbeArrivesKeeps ==
  ASSUME SweepInv, NEW p \in flight, ~p.answer, ProbeArrives(p)
  PROVE  SweepInv'
<1>1. UNCHANGED <<next_id, at, elapsed, latest, failures, errors>>
  BY DEF ProbeArrives
<1>2. OfSweeps(p) /\ p.fromDest /\ p.whole /\ p.type = Types[p.seq + 1]
  BY DEF SweepInv, FlightKnown, OfSweeps
<1>3. PICK r : r = Packet(Expected(p.type), p.id, p.seq, TRUE, p.of)
  OBVIOUS
<1>4. /\ r.of = p.of /\ r.seq = p.seq /\ r.id = p.id /\ r.answer /\ r.fromDest /\ r.whole
      /\ r.type = Expected(p.type)
  BY <1>3 DEF Packet
<1>5. \/ flight' \subseteq flight
      \/ r.type # NoType /\ flight' \subseteq flight \cup {r}
  BY <1>3, <1>4 DEF ProbeArrives
<1>6. FlightKnown'
  <2>1. r.type # NoType => OfSweeps(r)
    BY <1>2, <1>4 DEF OfSweeps
  <2> QED BY <1>4, <1>5, <2>1 DEF SweepInv, FlightKnown
<1>7. \A q \in flight' : \E u \in flight : q.of = u.of /\ q.seq = u.seq /\ q.id = u.id
  BY <1>4, <1>5
<1>8. CASE Local
  <2>1. Delivered(p)
    BY <1>8 DEF ProbeArrives
  <2> QED BY <1>1, <1>2, <1>6, <1>7, <2>1, DeliveredKeeps
<1>9. CASE ~Local
  <2>1. inbox' = inbox /\ probe' = probe
    BY <1>9 DEF ProbeArrives
  <2>2. /\ TypeInv' /\ ProbeCurrent' /\ InboxSmall' /\ PassesTrue' /\ Unanswered' /\ HeardKept'
    BY <1>1, <2>1
       DEF SweepInv, TypeInv, ProbeCurrent, InboxSmall, PassesTrue, Unanswered, HeardKept,
           Open, ReplyTo
  <2>3. Begun \subseteq Begun'
    BY <1>1, <2>1 DEF Begun, Open
  <2>4. IdsApart'
    BY <1>1, <1>7, <2>1, <2>3, IdsKept DEF SweepInv, Open
  <2> QED BY <1>6, <2>2, <2>4 DEF SweepInv
<1> QED BY <1>8, <1>9

LEMMA ReplyArrivesKeeps ==
  ASSUME SweepInv, NEW p \in flight, ReplyArrives(p)
  PROVE  SweepInv'
<1>1. /\ Delivered(p) /\ UNCHANGED <<next_id, at, elapsed, latest, failures, errors>>
      /\ flight' \subseteq flight
  BY DEF ReplyArrives
<1>2. OfSweeps(p) /\ FlightKnown'
  BY <1>1 DEF SweepInv, FlightKnown
<1>3. \A q \in flight' : \E u \in flight : q.of = u.of /\ q.seq = u.seq /\ q.id = u.id
  BY <1>1
<1> QED BY <1>1, <1>2, <1>3, DeliveredKeeps

LEMMA ForeignKeeps ==
  ASSUME SweepInv, Foreign
  PROVE  SweepInv'
<1>1. UNCHANGED <<next_id, at, elapsed, latest, failures, errors, flight>>
  BY DEF Foreign
<1>2. PICK p : Delivered(p) /\ OfOthers(p)
  <2>1. PICK s \in Sweeps :
          /\ Expected(probe[s].type) # NoType
          /\ LET twin == [ReplyTo(s) EXCEPT !.of = Others] IN
             \E p \in {twin, [twin EXCEPT !.fromDest = FALSE], [twin EXCEPT !.whole = FALSE],
                       [twin EXCEPT !.id = Ids], [twin EXCEPT !.seq = @ + 1],
                       [twin EXCEPT !.type = 3]} : Delivered(p)
    BY DEF Foreign
  <2>2. PICK twin : twin = [ReplyTo(s) EXCEPT !.of = Others]
    OBVIOUS
  <2>3. /\ twin.type = Expected(probe[s].type) /\ twin.answer /\ twin.of = Others
        /\ {"type", "of", "answer"} \subseteq DOMAIN twin
    <3>1. PICK r : r = ReplyTo(s)
      OBVIOUS
    <3>2. /\ r.type = Expected(probe[s].type) /\ r.answer
          /\ {"type", "of", "answer"} \subseteq DOMAIN r
      BY <3>1 DEF ReplyTo, Packet
    <3> QED BY <2>2, <3>1, <3>2
  <2>4. PICK p \in {twin, [twin EXCEPT !.fromDest = FALSE], [twin EXCEPT !.whole = FALSE],
                    [twin EXCEPT !.id = Ids], [twin EXCEPT !.seq = @ + 1],
                    [twin EXCEPT !.type = 3]} : Delivered(p)
    BY <2>1, <2>2
  <2>5. OfOthers(p)
    BY <2>1, <2>3, <2>4 DEF OfOthers, NoType
  <2> QED BY <2>4, <2>5
<1>3. FlightKnown'
  BY <1>1 DEF SweepInv, FlightKnown
<1>4. p.of \notin Sweeps
  BY <1>2, SweepAssumption DEF OfOthers
<1> QED BY <1>1, <1>2, <1>3, <1>4, DeliveredKeeps

-----------------------------------------------------------------------------
LEMMA TickKeeps ==
  ASSUME SweepInv, Tick
  PROVE  SweepInv'
<1>1. /\ \A s \in Sweeps : Open(s) => inbox[s] = <<>> /\ probe[s].left > 0
      /\ next_id' = next_id /\ at' = at /\ inbox' = inbox /\ latest' = latest
      /\ failures' = failures /\ errors' = errors /\ flight' = flight
      /\ probe' = [s \in Sweeps |->
                     [probe[s] EXCEPT !.left = IF @ > 0 THEN @ - 1 ELSE 0]]
      /\ elapsed' = [s \in Sweeps |->
                       IF elapsed[s] < Timeout THEN elapsed[s] + 1 ELSE elapsed[s]]
  BY DEF Tick
<1>2. ASSUME NEW s \in Sweeps
      PROVE  /\ probe'[s] \in Probes /\ Open(s)' = Open(s)
             /\ probe'[s].type = probe[s].type /\ probe'[s].id = probe[s].id
             /\ probe'[s].seq = probe[s].seq /\ probe'[s].heard = probe[s].heard
             /\ probe[s].left \in Nat
             /\ probe'[s].left = IF probe[s].left > 0 THEN probe[s].left - 1 ELSE 0
  <2>1. PICK e \in Probes : e = probe[s]
    BY DEF SweepInv, TypeInv
  <2>2. PICK left \in Nat : left = IF e.left > 0 THEN e.left - 1 ELSE 0
    BY DEF Probes
  <2>3. probe'[s] = [e EXCEPT !.left = left]
    BY <1>1, <2>1, <2>2
  <2> QED BY <2>1, <2>2, <2>3 DEF Probes, Open
<1>3. ASSUME NEW s \in Sweeps
      PROVE  /\ Timeout \in Nat /\ elapsed[s] \in 0 .. Timeout /\ elapsed'[s] \in 0 .. Timeout
             /\ elapsed'[s] <= elapsed[s] + 1
  BY <1>1, SweepAssumption DEF SweepInv, TypeInv
<1>4. \A s \in Sweeps : ReplyTo(s)' = ReplyTo(s)
  BY <1>2 DEF ReplyTo
<1>5. TypeInv'
  BY <1>1, <1>2, <1>3 DEF SweepInv, TypeInv
<1>6. ProbeCurrent'
  <2>1. ASSUME NEW s \in Sweeps, Open(s)
        PROVE  probe'[s].left <= Timeout - elapsed'[s]
    <3>1. probe[s].left > 0 /\ probe[s].left <= Timeout - elapsed[s]
      BY <1>1, <2>1 DEF SweepInv, ProbeCurrent
    <3> QED BY <1>2, <1>3, <3>1
  <2> QED BY <1>1, <1>2, <2>1 DEF SweepInv, ProbeCurrent
<1>7. FlightKnown' /\ InboxSmall' /\ PassesTrue' /\ Unanswered'
  BY <1>1, <1>2 DEF SweepInv, FlightKnown, InboxSmall, PassesTrue, Unanswered
<1>8. HeardKept'
  <2>1. ASSUME NEW s \in Sweeps, Open(s) PROVE ~probe[s].heard
    <3>1. probe[s].heard => inbox[s] = <<ReplyTo(s)>>
      BY <2>1 DEF SweepInv, HeardKept
    <3>2. <<ReplyTo(s)>> # <<>>
      OBVIOUS
    <3> QED BY <1>1, <2>1, <3>1, <3>2
  <2>2. \A s \in Sweeps : probe'[s].left > 0 => probe[s].left > 0
    BY <1>2
  <2> QED BY <1>1, <1>2, <2>1, <2>2 DEF SweepInv, HeardKept
<1>9. IdsApart'
  <2>1. Begun \subseteq Begun'
    BY <1>1, <1>2 DEF Begun
  <2> QED BY <1>1, <1>2, <2>1, IdsKept DEF SweepInv
<1> QED BY <1>5, <1>6, <1>7, <1>8, <1>9 DEF SweepInv

LEMMA StutterKeeps == SweepInv /\ UNCHANGED vars => SweepInv'
<1> SUFFICES ASSUME SweepInv, UNCHANGED vars PROVE SweepInv'
  OBVIOUS
<1>1. /\ next_id' = next_id /\ at' = at /\ elapsed' = elapsed /\ probe' = probe
      /\ inbox' = inbox /\ latest' = latest /\ failures' = failures /\ errors' = errors
      /\ flight' = flight
  BY DEF vars, sweepVars
<1>2. IdsApart'
  <2>1. Begun \subseteq Begun'
    BY <1>1 DEF Begun, Open
  <2> QED BY <1>1, <2>1, IdsKept DEF SweepInv, Open
<1> QED BY <1>1, <1>2
       DEF SweepInv, TypeInv, ProbeCurrent, FlightKnown, InboxSmall, PassesTrue, Unanswered,
           HeardKept, Open, ReplyTo

LEMMA SweepInductive == Spec => []SweepInv
<1>1. ASSUME SweepInv, [Next]_vars PROVE SweepInv'
  <2>1. ASSUME NEW s \in Sweeps, Worker(s) PROVE SweepInv'
    <3>1. CASE Sends(s)
      BY <1>1, <3>1, SendsKeeps
    <3>2. CASE Receives(s) /\ ~Matches(Head(inbox[s]), s)
      BY <1>1, <3>2, PassesOverKeeps
    <3>3. CASE \/ Unsent(s) \/ CannotSend(s) \/ TimesOut(s) \/ SocketFails(s)
               \/ Receives(s) /\ Matches(Head(inbox[s]), s)
      BY <1>1, <3>3, ResultsKeep
    <3> QED BY <2>1, <3>1, <3>2, <3>3 DEF Worker
  <2>2. ASSUME Arrives PROVE SweepInv'
    BY <1>1, <2>2, ProbeArrivesKeeps, ReplyArrivesKeeps DEF Arrives
  <2>3. CASE Foreign
    BY <1>1, <2>3, ForeignKeeps
  <2>4. CASE Tick
    BY <1>1, <2>4, TickKeeps
  <2>5. CASE UNCHANGED vars
    BY <1>1, <2>5, StutterKeeps
  <2> QED BY <1>1, <2>1, <2>2, <2>3, <2>4, <2>5 DEF Next, Done
<1> QED BY <1>1, SweepInvInit, PTL DEF Spec

-----------------------------------------------------------------------------
\* A type passes only on the destination's own reply to the probe this sweep
\* sent for it, or a second process under the same id and number, and a sweep
\* with a type nobody answers does not pass: any number of sweeps that share
\* the process's ids, any delay and any packets of others (send_icmp_echo_raw).
THEOREM PassesAreAnswered == Spec => []PassMeansAnswered
<1>1. SweepInv => PassMeansAnswered
  <2> SUFFICES ASSUME SweepInv, NEW s \in Sweeps, at[s] > Len(Types), Outcome(s) = "pass",
                      NEW i \in DOMAIN Types, Expected(Types[i]) = NoType
               PROVE  FALSE
    BY DEF PassMeansAnswered, SweepInv, PassesTrue
  <2>1. i < at[s]
    BY TypeAt DEF SweepInv, TypeInv
  <2>2. s \in failures \cup errors
    BY <2>1 DEF SweepInv, Unanswered
  <2> QED BY <2>2 DEF Outcome
<1> QED BY <1>1, SweepInductive, PTL

\* A reply that comes within the wait is not lost on a sweep: no packet of
\* others, no other sweep's reply and no probe seen on its way takes its place
\* (the loop over recv_from in send_icmp_echo_raw).
THEOREM RepliesAreHeard == Spec => []NoFalseFailure
<1>1. SweepInv => NoFalseFailure
  BY DEF SweepInv, HeardKept, NoFalseFailure
<1> QED BY <1>1, SweepInductive, PTL

\* The waits of a sweep's types end within its timeout however it is divided
\* among them, down to the second each type gets at least.
THEOREM WaitsEndInTime == Spec => []WaitsWithinTimeout
<1>1. SweepInv => WaitsWithinTimeout
  BY DEF SweepInv, ProbeCurrent, WaitsWithinTimeout
<1> QED BY <1>1, SweepInductive, PTL
=============================================================================
