--------------------------- MODULE ServerOpenProofs ---------------------------
(***************************************************************************)
(* Theorems about the server of modules ServerOpen and ServerLoop, for any *)
(* set of messages its clients may send, any number of clients and any     *)
(* outcomes of the tests.  The invariant accounts, id by id, for every     *)
(* test taken on: collected, running, being answered or answered.          *)
(***************************************************************************)
EXTENDS ServerLoop, FiniteSetTheorems, SequenceTheorems, TLAPS

\* The tests a client can name.
Named == {m.entry : m \in {x \in Inputs : x.type = "test"}}

\* The types, and what the place of the session says of its batch.
SessionAt ==
  /\ spc \in {"configure", "rejecting", "collect", "run", "bye", "ok", "err"}
  /\ toServer \in Seq(Inputs)
  /\ sbatch \in Seq(Named) /\ running \subseteq DOMAIN sbatch
  /\ taken \in [TestIds -> Nat] /\ answered \in [TestIds -> Nat] /\ reports \in Nat
  /\ scounts \in [Statuses -> Nat]
  /\ running # {} => spc = "run"
  /\ sout.type = "report" => spc = "run" /\ sout.id \in TestIds
  /\ spc = "configure" => sbatch = <<>>
  /\ spc \in {"ok", "err"} => sout = Nothing

\* The batch is within the limit of the Configure that was accepted.
WithinLimit ==
  spc \in {"collect", "run"} =>
    asked \in Nat /\ limit = LimitOf(asked) /\ Len(sbatch) <= limit

Collected(id) == Cardinality({i \in DOMAIN sbatch : sbatch[i].id = id})
Reporting == IF sout.type = "report" THEN 1 ELSE 0

\* Where the tests taken on are, and how many reports the server has counted.
Accounts ==
  /\ spc = "collect" => \A id \in TestIds : taken[id] = answered[id] + Collected(id)
  /\ spc = "run" => \A id \in TestIds : taken[id] = answered[id] + Unanswered(id)
  /\ spc \in {"configure", "bye", "ok"} => taken = answered
  /\ spc # "err" =>
       scounts["pass"] + scounts["fail"] + scounts["error"] = reports + Reporting

OpenInv == SessionAt /\ WithinLimit /\ Accounts

-----------------------------------------------------------------------------
\* What is in a queue after a message is taken, or added.
LEMMA SeqFacts ==
  ASSUME NEW S, NEW q \in Seq(S)
  PROVE  /\ q # <<>> => Head(q) \in S /\ Tail(q) \in Seq(S)
         /\ \A x \in S : Append(q, x) \in Seq(S)
         /\ \A x : /\ Len(Append(q, x)) = Len(q) + 1
                   /\ DOMAIN Append(q, x) = DOMAIN q \cup {Len(q) + 1}
                   /\ Append(q, x)[Len(q) + 1] = x
                   /\ \A k \in DOMAIN q : Append(q, x)[k] = q[k]
         /\ DOMAIN q = 1 .. Len(q) /\ Len(q) \in Nat /\ Len(q) + 1 \notin DOMAIN q
         /\ \A k \in DOMAIN q : q[k] \in S
OBVIOUS

\* The kinds of messages the server tells apart.
LEMMA Kinds ==
  /\ \A v : Hello(v).type = "hello"
  /\ \A ok : Ack(ok).type = "ack"
  /\ \A id, body : Report(id, body).type = "report" /\ Report(id, body).id = id
  /\ Bye.type = "bye" /\ Nothing.type = "nothing"
BY DEF Hello, Ack, Report, Bye, Nothing

\* A named test has an id that is counted.
LEMMA NamedIds == \A e \in Named : e.id \in TestIds
BY InputsAssumption DEF Named

\* The tests of a batch are finitely many, and so are those still running.
LEMMA Tests ==
  ASSUME SessionAt
  PROVE  /\ IsFiniteSet(DOMAIN sbatch) /\ IsFiniteSet(running)
         /\ Cardinality(running) <= Len(sbatch) /\ Cardinality(running) \in Nat
         /\ \A id : /\ IsFiniteSet({i \in DOMAIN sbatch : sbatch[i].id = id})
                    /\ IsFiniteSet({i \in running : sbatch[i].id = id})
                    /\ Collected(id) \in Nat
                    /\ Cardinality({i \in running : sbatch[i].id = id}) \in Nat
<1>1. DOMAIN sbatch = 1 .. Len(sbatch) /\ Len(sbatch) \in Nat
  BY SeqFacts DEF SessionAt
<1>2. IsFiniteSet(DOMAIN sbatch) /\ Cardinality(DOMAIN sbatch) = Len(sbatch)
  <2>1. IsFiniteSet(1 .. Len(sbatch)) /\ Cardinality(1 .. Len(sbatch)) = Len(sbatch)
    <3>1. 1 \in Int /\ Len(sbatch) \in Int
      BY <1>1
    <3>2. /\ IsFiniteSet(1 .. Len(sbatch))
          /\ Cardinality(1 .. Len(sbatch)) = IF 1 > Len(sbatch) THEN 0 ELSE Len(sbatch) - 1 + 1
      BY <3>1, FS_Interval, Zenon
    <3>. QED  BY <1>1, <3>2
  <2>. QED  BY <1>1, <2>1
<1>3. /\ IsFiniteSet(running) /\ Cardinality(running) <= Len(sbatch)
      /\ Cardinality(running) \in Nat
  BY <1>2, FS_Subset, FS_CardinalityType DEF SessionAt
<1>4. \A id : /\ IsFiniteSet({i \in DOMAIN sbatch : sbatch[i].id = id})
              /\ IsFiniteSet({i \in running : sbatch[i].id = id})
  BY <1>2, <1>3, FS_Subset
<1>. QED  BY <1>2, <1>3, <1>4, FS_CardinalityType DEF Collected

\* A message being sent is one report of one test, or none.
LEMMA Sending ==
  \A m, id : Cardinality({x \in {m} : x.type = "report" /\ x.id = id})
               = IF m.type = "report" /\ m.id = id THEN 1 ELSE 0
<1>. SUFFICES ASSUME NEW m, NEW id
              PROVE  Cardinality({x \in {m} : x.type = "report" /\ x.id = id})
                       = IF m.type = "report" /\ m.id = id THEN 1 ELSE 0
  OBVIOUS
<1>1. CASE m.type = "report" /\ m.id = id
  <2>1. {x \in {m} : x.type = "report" /\ x.id = id} = {m}
    BY <1>1
  <2>. QED  BY <1>1, <2>1, FS_Singleton
<1>2. CASE ~(m.type = "report" /\ m.id = id)
  <2>1. {x \in {m} : x.type = "report" /\ x.id = id} = {}
    BY <1>2
  <2>. QED  BY <1>2, <2>1, FS_EmptySet
<1>. QED  BY <1>1, <1>2

LEMMA OpenInit == Init => OpenInv
<1>. SUFFICES ASSUME Init PROVE OpenInv
  OBVIOUS
<1>1. /\ toServer = <<>> /\ spc = "configure" /\ sout = Hello(sversion) /\ sbatch = <<>>
      /\ running = {} /\ scounts = NoCounts /\ reports = 0
      /\ taken = [id \in TestIds |-> 0] /\ answered = [id \in TestIds |-> 0]
  BY DEF Init, ChannelInit, ServerInit
<1>2. SessionAt
  BY <1>1, Kinds DEF SessionAt, NoCounts
<1>3. WithinLimit /\ Accounts
  BY <1>1, Kinds DEF WithinLimit, Accounts, Reporting, NoCounts, Statuses
<1>. QED  BY <1>2, <1>3 DEF OpenInv

\* What the client does changes nothing of the session.
LEMMA OpenPeer ==
  ASSUME OpenInv, toServer' \in Seq(Inputs), UNCHANGED serverVars,
         UNCHANGED <<asked, taken, answered, reports>>
  PROVE  OpenInv'
<1>. USE DEF OpenInv, serverVars
<1>1. SessionAt' /\ WithinLimit'
  BY DEF SessionAt, WithinLimit
<1>2. Accounts'
  BY DEF Accounts, Collected, Unanswered, Reporting
<1>. QED  BY <1>1, <1>2

\* The session fails: nothing is promised any more.
LEMMA OpenFails ==
  ASSUME OpenInv, spc' = "err", sout' = Nothing, running' = {},
         toServer' \in Seq(Inputs), UNCHANGED <<sbatch, scounts, taken, answered, reports>>
  PROVE  OpenInv'
<1>1. SessionAt'
  BY Kinds DEF OpenInv, SessionAt
<1>2. WithinLimit' /\ Accounts'
  BY DEF WithinLimit, Accounts
<1>. QED  BY <1>1, <1>2 DEF OpenInv

-----------------------------------------------------------------------------
\* The first message: the limit becomes what the client asked for.
LEMMA OpenConfigures ==
  ASSUME OpenInv, Configures
  PROVE  OpenInv'
<1>. USE DEF OpenInv
<1>. DEFINE m == Head(toServer)
<1>1. /\ spc = "configure" /\ sout = Nothing /\ toServer # <<>> /\ toServer' = Tail(toServer)
      /\ UNCHANGED <<sbatch, scounts, taken, answered, reports>>
  BY DEF Configures, ServerConfigure, ServerTakes
<1>2. m \in Inputs /\ toServer' \in Seq(Inputs)
  BY <1>1, SeqFacts DEF SessionAt
<1>3. CASE m.type # "configure"
  <2>1. spc' = "err" /\ sout' = Nothing /\ running' = {}
    BY <1>3 DEF Configures, ServerConfigure, ServerReturns
  <2>. QED  BY <1>1, <1>2, <2>1, OpenFails
<1>4. CASE m.type = "configure"
  <2>1. /\ limit' = LimitOf(m.parallel) /\ m.parallel \in Nat
        /\ sout'.type = "ack" /\ running' = running /\ spc' \in {"collect", "rejecting"}
        /\ spc' = "collect" => asked' = m.parallel
    BY <1>2, <1>4, Kinds, InputsAssumption DEF Configures, ServerConfigure
  <2>2. sbatch = <<>> /\ DOMAIN sbatch = {} /\ Len(sbatch) = 0 /\ running = {}
    BY <1>1 DEF SessionAt
  <2>3. SessionAt'
    BY <1>1, <1>2, <2>1, <2>2 DEF SessionAt
  <2>4. WithinLimit'
    BY <1>1, <2>1, <2>2 DEF WithinLimit, LimitOf
  <2>5. \A id : Collected(id)' = 0
    BY <1>1, <2>2, FS_EmptySet DEF Collected
  <2>6. Accounts'
    BY <1>1, <2>1, <2>5, Kinds DEF Accounts, Reporting, SessionAt
  <2>. QED  BY <2>3, <2>4, <2>6
<1>. QED  BY <1>3, <1>4

\* A test is taken on if there is room for it.
LEMMA OpenTakesOn ==
  ASSUME OpenInv, TakesOn
  PROVE  OpenInv'
<1>. USE DEF OpenInv
<1>. DEFINE e == Head(toServer).entry
<1>1. /\ spc = "collect" /\ sout = Nothing /\ toServer # <<>> /\ toServer' = Tail(toServer)
      /\ Head(toServer).type = "test"
      /\ UNCHANGED <<asked, limit, scounts, answered, reports>>
  BY DEF TakesOn, ServerTest, ServerTakes
<1>2. /\ Head(toServer) \in Inputs /\ toServer' \in Seq(Inputs)
      /\ e \in Named /\ e.id \in TestIds
  <2>1. Head(toServer) \in Inputs /\ toServer' \in Seq(Inputs)
    BY <1>1, SeqFacts DEF SessionAt
  <2>. QED  BY <1>1, <2>1, NamedIds DEF Named
<1>3. CASE ~BatchFull /\ Runnable(e)
  <2>1. sbatch' = Append(sbatch, e) /\ UNCHANGED <<spc, running, sout>>
    BY <1>3 DEF TakesOn, ServerTest
  <2>2. /\ sbatch' \in Seq(Named) /\ Len(sbatch') = Len(sbatch) + 1 /\ Len(sbatch) \in Nat
        /\ DOMAIN sbatch' = DOMAIN sbatch \cup {Len(sbatch) + 1}
        /\ Len(sbatch) + 1 \notin DOMAIN sbatch
        /\ sbatch'[Len(sbatch) + 1] = e
        /\ \A k \in DOMAIN sbatch : sbatch'[k] = sbatch[k]
    BY <1>2, <2>1, SeqFacts DEF SessionAt
  <2>3. taken' = [taken EXCEPT ![e.id] = @ + 1]
    BY <2>2 DEF TakesOn
  <2>4. SessionAt'
    BY <1>1, <1>2, <2>1, <2>2, <2>3 DEF SessionAt
  <2>5. WithinLimit'
    BY <1>1, <1>3, <2>1, <2>2 DEF WithinLimit, BatchFull, LimitOf
  <2>6. ASSUME NEW id \in TestIds
        PROVE  Collected(id)' = Collected(id) + (IF id = e.id THEN 1 ELSE 0)
    <3>. DEFINE before == {i \in DOMAIN sbatch : sbatch[i].id = id}
                after == {i \in DOMAIN sbatch' : sbatch'[i].id = id}
    <3>1. /\ IsFiniteSet(before) /\ Cardinality(before) \in Nat
          /\ Collected(id) = Cardinality(before) /\ Collected(id)' = Cardinality(after)
      BY Tests DEF Collected
    <3>2. id = e.id => after = before \cup {Len(sbatch) + 1} /\ Len(sbatch) + 1 \notin before
      BY <2>2
    <3>3. id # e.id => after = before
      BY <2>2
    <3>. HIDE DEF before, after
    <3>. QED  BY <3>1, <3>2, <3>3, FS_AddElement
  <2>7. ASSUME NEW id \in TestIds
        PROVE  taken'[id] = answered'[id] + Collected(id)'
    <3>1. taken'[id] = taken[id] + (IF id = e.id THEN 1 ELSE 0)
      BY <1>2, <2>3 DEF SessionAt
    <3>2. taken[id] = answered[id] + Collected(id) /\ answered[id] \in Nat /\ Collected(id) \in Nat
      BY <1>1, Tests DEF Accounts, SessionAt
    <3>. QED  BY <1>1, <2>6, <3>1, <3>2
  <2>8. Accounts'
    BY <1>1, <2>1, <2>7 DEF Accounts, Reporting
  <2>. QED  BY <2>4, <2>5, <2>8
<1>4. CASE ~(~BatchFull /\ Runnable(e))
  <2>1. spc' = "err" /\ sout' = Nothing /\ running' = {} /\ sbatch' = sbatch
    BY <1>4 DEF TakesOn, ServerTest, ServerReturns
  <2>2. taken' = taken
    BY <2>1, SeqFacts DEF TakesOn, SessionAt
  <2>. QED  BY <1>1, <1>2, <2>1, <2>2, OpenFails
<1>. QED  BY <1>3, <1>4

\* A message is handed to the connection: a report answers its test.
LEMMA OpenFlushes ==
  ASSUME OpenInv, Flushes
  PROVE  OpenInv'
<1>. USE DEF OpenInv
<1>1. /\ sout # Nothing /\ sout' = Nothing /\ toServer' = toServer
      /\ UNCHANGED <<spc, limit, sbatch, running, scounts, asked, taken>>
      /\ answered' = IF sout.type = "report" THEN [answered EXCEPT ![sout.id] = @ + 1]
                     ELSE answered
      /\ reports' = reports + Reporting
  BY DEF Flushes, ServerFlush, ServerSends, Reporting, SessionAt
<1>2. SessionAt' /\ WithinLimit'
  BY <1>1, Kinds DEF SessionAt, WithinLimit, Reporting
<1>3. spc = "run" => \A id \in TestIds : taken'[id] = answered'[id] + Unanswered(id)'
  <2>. SUFFICES ASSUME spc = "run", NEW id \in TestIds
                PROVE  taken'[id] = answered'[id] + Unanswered(id)'
    OBVIOUS
  <2>. DEFINE left == Cardinality({i \in running : sbatch[i].id = id})
              now == IF sout.type = "report" /\ sout.id = id THEN 1 ELSE 0
  <2>1. left \in Nat /\ Unanswered(id) = left + now
    BY Tests, Sending DEF Unanswered
  <2>2. Unanswered(id)' = left
    <3>1. Unanswered(id)' = left + (IF sout'.type = "report" /\ sout'.id = id THEN 1 ELSE 0)
      BY <1>1, Sending DEF Unanswered
    <3>. QED  BY <1>1, <2>1, <3>1, Kinds
  <2>3. answered'[id] = answered[id] + now /\ answered[id] \in Nat
    BY <1>1 DEF SessionAt
  <2>. QED  BY <1>1, <2>1, <2>2, <2>3 DEF Accounts
<1>4. Accounts'
  BY <1>1, <1>3, Kinds DEF Accounts, Collected, Reporting, SessionAt
<1>. QED  BY <1>2, <1>4

\* A test ends: it is no longer running, and its report is being sent.
LEMMA OpenTestEnds ==
  ASSUME OpenInv, NEW k \in DOMAIN sbatch, NEW r \in Results, ServerTestEnds(k, r),
         UNCHANGED openVars
  PROVE  OpenInv'
<1>. USE DEF OpenInv
<1>1. /\ spc = "run" /\ sout = Nothing /\ k \in running /\ running' = running \ {k}
      /\ sout' = Report(sbatch[k].id, protocol_result_to_report(r))
      /\ scounts' = [scounts EXCEPT ![r.status] = @ + 1]
      /\ UNCHANGED <<toServer, spc, limit, sbatch, asked, taken, answered, reports>>
  BY DEF ServerTestEnds, channelVars, openVars
<1>2. sout'.type = "report" /\ sout'.id = sbatch[k].id /\ sbatch[k].id \in TestIds
  BY <1>1, Kinds, NamedIds, SeqFacts DEF SessionAt
<1>3. r.status \in Statuses
  BY ResultsAssumption DEF Observations, Pass, Fail, Error, Observed, Statuses
<1>4. SessionAt' /\ WithinLimit'
  BY <1>1, <1>2, <1>3 DEF SessionAt, WithinLimit
<1>5. ASSUME NEW id \in TestIds PROVE Unanswered(id)' = Unanswered(id)
  <2>. DEFINE before == {i \in running : sbatch[i].id = id}
              after == {i \in running' : sbatch'[i].id = id}
  <2>1. IsFiniteSet(before) /\ Cardinality(before) \in Nat
    BY Tests
  <2>2. Unanswered(id) = Cardinality(before)
                         + (IF sout.type = "report" /\ sout.id = id THEN 1 ELSE 0)
    BY Sending DEF Unanswered
  <2>3. Unanswered(id)' = Cardinality(after) + (IF sbatch[k].id = id THEN 1 ELSE 0)
    BY <1>2, Sending DEF Unanswered
  <2>4. sbatch[k].id = id => after = before \ {k} /\ k \in before
    BY <1>1
  <2>5. sbatch[k].id # id => after = before
    BY <1>1
  <2>. HIDE DEF before, after
  <2>6. sbatch[k].id = id => Cardinality(after) = Cardinality(before) - 1
    BY <2>1, <2>4, FS_RemoveElement
  <2>. QED  BY <1>1, <2>1, <2>2, <2>3, <2>5, <2>6, Kinds
<1>6. scounts'["pass"] + scounts'["fail"] + scounts'["error"] = reports' + Reporting'
  <2>1. scounts["pass"] + scounts["fail"] + scounts["error"] = reports
    BY <1>1, Kinds DEF Accounts, Reporting, SessionAt
  <2>. QED  BY <1>1, <1>2, <1>3, <2>1 DEF SessionAt, Statuses, Reporting
<1>7. Accounts'
  BY <1>1, <1>5, <1>6 DEF Accounts
<1>. QED  BY <1>4, <1>7

\* The batch starts: everything collected runs; or Done ends the session.
LEMMA OpenBatchEnd ==
  ASSUME OpenInv, ServerBatchEnd, UNCHANGED openVars
  PROVE  OpenInv'
<1>. USE DEF OpenInv
<1>1. /\ spc = "collect" /\ sout = Nothing /\ toServer # <<>> /\ toServer' = Tail(toServer)
      /\ UNCHANGED <<limit, sbatch, scounts, asked, taken, answered, reports>>
  BY DEF ServerBatchEnd, ServerTakes, openVars
<1>2. toServer' \in Seq(Inputs) /\ (sbatch = <<>> => DOMAIN sbatch = {})
  BY <1>1, SeqFacts DEF SessionAt
<1>3. CASE spc' = "run" /\ running' = DOMAIN sbatch /\ sout' = sout
  <2>1. SessionAt' /\ WithinLimit'
    BY <1>1, <1>2, <1>3, Kinds DEF SessionAt, WithinLimit
  <2>2. ASSUME NEW id \in TestIds PROVE Unanswered(id)' = Collected(id)
    <3>1. Unanswered(id)' = Cardinality({i \in running' : sbatch'[i].id = id})
                             + (IF sout'.type = "report" /\ sout'.id = id THEN 1 ELSE 0)
      BY Sending DEF Unanswered
    <3>2. Cardinality({i \in running' : sbatch'[i].id = id}) = Collected(id)
      BY <1>1, <1>3 DEF Collected
    <3>3. sout'.type # "report" /\ Collected(id) \in Nat
      BY <1>1, <1>3, Tests, Kinds
    <3>4. Unanswered(id)' = Collected(id) + 0
      BY <3>1, <3>2, <3>3, Zenon
    <3>. QED  BY <3>3, <3>4
  <2>3. Accounts'
    BY <1>1, <1>3, <2>2 DEF Accounts, Reporting
  <2>. QED  BY <2>1, <2>3
<1>4. CASE sbatch = <<>> /\ spc' = "bye" /\ sout' = Bye /\ running' = running
  <2>1. running = {}
    BY <1>1 DEF SessionAt
  <2>2. SessionAt' /\ WithinLimit'
    BY <1>1, <1>2, <1>4, <2>1, Kinds DEF SessionAt, WithinLimit
  <2>3. \A id \in TestIds : taken[id] = answered[id]
    <3>1. \A id : Collected(id) = 0
      BY <1>2, <1>4, FS_EmptySet DEF Collected
    <3>. QED  BY <1>1, <3>1 DEF Accounts, SessionAt
  <2>4. taken = answered
    BY <2>3 DEF SessionAt
  <2>5. Accounts'
    BY <1>1, <1>4, <2>4, Kinds DEF Accounts, Reporting
  <2>. QED  BY <2>2, <2>5
<1>5. CASE spc' = "err" /\ sout' = Nothing /\ running' = {}
  BY <1>1, <1>2, <1>5, OpenFails
<1>. QED  BY <1>3, <1>4, <1>5 DEF ServerBatchEnd, ServerReturns

\* The batch is over: nothing of it is owed.
LEMMA OpenBatchOver ==
  ASSUME OpenInv, ServerBatchOver, UNCHANGED openVars
  PROVE  OpenInv'
<1>. USE DEF OpenInv
<1>1. /\ spc = "run" /\ sout = Nothing /\ running = {} /\ running' = {} /\ sbatch' = <<>>
      /\ spc' \in {"bye", "collect"} /\ sout' \in {Bye, Nothing}
      /\ UNCHANGED <<toServer, limit, scounts, asked, taken, answered, reports>>
  BY DEF ServerBatchOver, BatchDone, channelVars, openVars
<1>2. sout'.type # "report" /\ DOMAIN sbatch' = {} /\ Len(sbatch') = 0
  BY <1>1, Kinds
<1>3. SessionAt'
  BY <1>1, <1>2 DEF SessionAt
<1>4. WithinLimit'
  BY <1>1, <1>2 DEF WithinLimit, LimitOf
<1>5. \A id \in TestIds : taken[id] = answered[id]
  <2>1. \A id : Unanswered(id) = 0
    <3>1. \A id : {i \in running : sbatch[i].id = id} = {}
      BY <1>1
    <3>2. \A id : Unanswered(id) = Cardinality({i \in running : sbatch[i].id = id})
                                   + (IF sout.type = "report" /\ sout.id = id THEN 1 ELSE 0)
      BY Sending DEF Unanswered
    <3>. QED  BY <1>1, <3>1, <3>2, Kinds, FS_EmptySet
  <2>. QED  BY <1>1, <2>1 DEF Accounts, SessionAt
<1>6. taken = answered
  BY <1>5 DEF SessionAt
<1>7. \A id \in TestIds : Collected(id)' = 0
  BY <1>2, FS_EmptySet DEF Collected
<1>8. Accounts'
  BY <1>1, <1>2, <1>5, <1>6, <1>7, Kinds DEF Accounts, Reporting, SessionAt
<1>. QED  BY <1>3, <1>4, <1>8

LEMMA OpenStep ==
  ASSUME OpenInv, PeerSends \/ PeerReads \/ PeerLeaves \/ ServerMoves
  PROVE  OpenInv'
<1>. USE DEF OpenInv
<1>1. CASE PeerSends
  <2>. PICK m \in Inputs : ClientSends(m)
    BY <1>1 DEF PeerSends
  <2>1. toServer' = toServer \/ toServer' = Append(toServer, m)
    BY DEF ClientSends
  <2>2. toServer' \in Seq(Inputs)
    BY <2>1 DEF SessionAt
  <2>. QED  BY <1>1, <2>2, OpenPeer DEF PeerSends
<1>2. CASE PeerReads \/ PeerLeaves
  BY <1>2, OpenPeer DEF PeerReads, PeerLeaves, SessionAt, openVars
<1>3. CASE OtherSteps
  <2>1. CASE ServerEnds
    <3>1. /\ spc \in {"bye", "rejecting"} /\ sout = Nothing /\ sout' = Nothing /\ running' = {}
          /\ spc' = IF spc = "bye" THEN "ok" ELSE "err"
          /\ UNCHANGED <<toServer, sbatch, scounts, taken, answered, reports>>
      BY <1>3, <2>1 DEF OtherSteps, ServerEnds, ServerReturns, openVars
    <3>2. SessionAt' /\ WithinLimit' /\ Accounts'
      BY <3>1, Kinds DEF SessionAt, WithinLimit, Accounts, Reporting
    <3>. QED  BY <3>2
  <2>2. CASE ServerLosesChannel
    BY <1>3, <2>2, OpenFails
       DEF OtherSteps, ServerLosesChannel, ServerReturns, openVars, SessionAt
  <2>. QED
    BY <1>3, <2>1, <2>2, OpenTestEnds, OpenBatchEnd, OpenBatchOver DEF OtherSteps
<1>. QED
  BY <1>1, <1>2, <1>3, OpenConfigures, OpenTakesOn, OpenFlushes DEF ServerMoves

\* The invariant holds through every session of the accept loop: the next
\* client finds the server as the first one did.
LEMMA OpenInductive == LoopSpec => []OpenInv
<1>1. LoopInit => OpenInv
  BY OpenInit DEF LoopInit
<1>2. OpenInv /\ [LoopNext]_allVars => OpenInv'
  <2>. SUFFICES ASSUME OpenInv, [LoopNext]_allVars PROVE OpenInv'
    OBVIOUS
  <2>1. CASE InSession
    BY <2>1, OpenStep DEF InSession
  <2>2. CASE SessionOver
    <3>1. /\ toServer' = <<>> /\ spc' = "configure" /\ sout'.type # "report" /\ sbatch' = <<>>
          /\ running' = {} /\ scounts' = NoCounts /\ reports' = 0
          /\ taken' = [id \in TestIds |-> 0] /\ answered' = [id \in TestIds |-> 0]
      BY <2>2, Kinds DEF SessionOver
    <3>2. SessionAt'
      BY <3>1 DEF SessionAt, NoCounts
    <3>3. WithinLimit' /\ Accounts'
      BY <3>1 DEF WithinLimit, Accounts, Reporting, NoCounts, Statuses
    <3>. QED  BY <3>2, <3>3 DEF OpenInv
  <2>3. CASE UNCHANGED vars
    BY <2>3, OpenPeer DEF vars, channelVars, openVars, OpenInv, SessionAt
  <2>. QED
    BY <2>1, <2>2, <2>3
       DEF LoopNext, allVars, CertificateFails, bind_with_reuse, Connects, GivesUp, Accepts,
           HandshakeSucceeds, HandshakeFails, Idle
<1>. QED  BY <1>1, <1>2, PTL DEF LoopSpec

-----------------------------------------------------------------------------
\* Whatever a client sends run_server, in whatever order, and whoever was
\* served before: every test taken on is running, being answered or answered
\* once, and the summary of a session that ends well counts every report.
THEOREM TestsAreAnswered == LoopSpec => []EveryTestAnswered
<1>1. OpenInv => EveryTestAnswered
  BY Kinds DEF OpenInv, SessionAt, Accounts, Reporting, EveryTestAnswered
<1>. QED  BY <1>1, OpenInductive, PTL

\* run_server never runs more tests at a time than the Configure it accepted
\* allows, whatever its client sends.
THEOREM ParallelIsBounded == LoopSpec => []ParallelBounded
<1>1. OpenInv => ParallelBounded
  <2>. SUFFICES ASSUME OpenInv, running # {}
                PROVE  /\ asked # NotAsked
                       /\ Cardinality(running) <= IF asked = 0 THEN 1 ELSE asked
    BY DEF ParallelBounded
  <2>1. /\ asked \in Nat /\ limit = LimitOf(asked) /\ Len(sbatch) <= limit /\ Len(sbatch) \in Nat
    BY SeqFacts DEF OpenInv, SessionAt, WithinLimit
  <2>2. Cardinality(running) <= Len(sbatch) /\ Cardinality(running) \in Nat
    BY Tests DEF OpenInv
  <2>. QED  BY <2>1, <2>2 DEF LimitOf, NotAsked
<1>. QED  BY <1>1, OpenInductive, PTL
===============================================================================
