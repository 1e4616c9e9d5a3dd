-------------------------- MODULE ClientOpenProofs --------------------------
(***************************************************************************)
(* Theorems about the client in front of an arbitrary server: each verdict *)
(* it emits rests on exactly one report, read while it was due.  The       *)
(* inductive invariant follows the reports through the batches of the      *)
(* plan: none heard for what is to come, at most one in the current batch, *)
(* one for every test that is over.                                        *)
(***************************************************************************)
EXTENDS ClientOpen, SequenceTheorems, TLAPS

\* The ids of a batch of the plan.
IdsOf(b) == {Plan[b][i].id : i \in DOMAIN Plan[b]}

Verdicts ==
  [entry        : Entries,
   result       : ProtocolResult \cup {NoResult},
   server_error : Reasons \cup {NoReason}]

TypeInv ==
  /\ toClient \in Seq(Inputs)
  /\ cpc \in {"hello", "ack", "send", "local", "reports", "bye", "ok", "err"}
  /\ bi \in 1 .. Len(Plan) + 1
  /\ expected \subseteq Ids
  /\ completed \in [Ids -> ProtocolResult \cup {NoResult}]
  /\ serverErrors \in [Ids -> Reasons \cup {NoReason}]
  /\ observed \in [Ids -> Results \cup {NoResult}]
  /\ heard \in [Ids -> Seq(ReportBody)]
  /\ results \in Seq(Verdicts)

Placed ==
  /\ cpc \in {"hello", "ack", "send", "local", "reports"} => bi \in DOMAIN Plan
  /\ cpc \in {"bye", "ok"} => bi = Len(Plan) + 1

-----------------------------------------------------------------------------
\* Nothing has happened to a test.
Untouched(id) == observed[id] = NoResult /\ heard[id] = <<>>

\* A test that has been run, and whose one report has been read; a client that
\* gave up may have read a second one, over which it did.
Reported(id) ==
  /\ observed[id] \in Results
  /\ IF cpc = "err" THEN Len(heard[id]) \in {1, 2} ELSE Len(heard[id]) = 1

\* What execute_batch makes of the test's run and its first report.
Reconciled(id) == Reconcile(observed[id], heard[id][1])

FutureUntouched ==
  cpc # "err" => \A b \in DOMAIN Plan : b > bi => \A id \in IdsOf(b) : Untouched(id)

CurrentFollowed ==
  /\ cpc \in {"hello", "ack", "send"} =>
       \A id \in IdsOf(bi) : Untouched(id) /\ completed[id] = NoResult
  /\ cpc = "local" =>
       \A id \in IdsOf(bi) : heard[id] = <<>> /\ completed[id] = observed[id]
  /\ cpc = "reports" =>
       /\ expected \subseteq IdsOf(bi)
       /\ \A id \in expected :
            /\ observed[id] \in Results
            /\ heard[id] = <<>> /\ completed[id] = observed[id]
       /\ \A id \in IdsOf(bi) \ expected :
            /\ Reported(id)
            /\ completed[id] = Reconciled(id)
            /\ serverErrors[id] = heard[id][1].error

PastReported == \A b \in DOMAIN Plan : b < bi => \A id \in IdsOf(b) : Reported(id)

\* A verdict is that of a past test.
Backed(v) ==
  /\ \E b \in DOMAIN Plan : b < bi /\ v.entry.id \in IdsOf(b)
  /\ v.result = Reconciled(v.entry.id)
  /\ v.server_error = heard[v.entry.id][1].error

EmittedBacked == \A k \in DOMAIN results : Backed(results[k])

HearInv ==
  /\ TypeInv /\ Placed
  /\ FutureUntouched /\ CurrentFollowed /\ PastReported /\ EmittedBacked

-----------------------------------------------------------------------------
\* What PlanAssumption says of ids: each is of one batch, and one test of it.
LEMMA PlanIds ==
  /\ Len(Plan) \in Nat \ {0} /\ DOMAIN Plan = 1 .. Len(Plan)
  /\ \A b \in DOMAIN Plan : Plan[b] \in Seq(Entries)
  /\ \A b \in DOMAIN Plan : IdsOf(b) \subseteq Ids
  /\ \A id \in Ids : \E b \in DOMAIN Plan : id \in IdsOf(b)
  /\ \A b, c \in DOMAIN Plan : \A id \in IdsOf(b) : id \in IdsOf(c) => b = c
<1>1. /\ Len(Plan) \in Nat \ {0} /\ DOMAIN Plan = 1 .. Len(Plan)
      /\ \A b \in DOMAIN Plan : Plan[b] \in Seq(Entries)
  BY PlanAssumption
<1>2. \A b \in DOMAIN Plan : \A i \in DOMAIN Plan[b] : Plan[b][i] \in Entries
  BY DEF Entries, EntriesOf
<1>3. \A b \in DOMAIN Plan : IdsOf(b) \subseteq Ids
  BY <1>2 DEF Ids, IdsOf
<1>4. ASSUME NEW id \in Ids PROVE \E b \in DOMAIN Plan : id \in IdsOf(b)
  <2>1. PICK e \in Entries : e.id = id
    BY DEF Ids
  <2>2. PICK b \in DOMAIN Plan : \E i \in DOMAIN Plan[b] : Plan[b][i] = e
    BY <2>1 DEF Entries, EntriesOf
  <2> QED BY <2>1, <2>2 DEF IdsOf
<1>5. ASSUME NEW b \in DOMAIN Plan, NEW c \in DOMAIN Plan,
             NEW id \in IdsOf(b), id \in IdsOf(c)
      PROVE  b = c
  <2>1. PICK i \in DOMAIN Plan[b] : Plan[b][i].id = id
    BY DEF IdsOf
  <2>2. PICK j \in DOMAIN Plan[c] : Plan[c][j].id = id
    BY <1>5 DEF IdsOf
  <2> QED BY <2>1, <2>2, PlanAssumption DEF WellFormed
<1> QED BY <1>1, <1>3, <1>4, <1>5

\* The types of results, and that a run that returned is told from none.
LEMMA ResultTypes ==
  /\ Results \subseteq ProtocolResult /\ NoResult \notin Results
  /\ \A body \in ReportBody : body.error \in Reasons \cup {NoReason}
  /\ \A l \in ProtocolResult \cup {NoResult}, body \in ReportBody :
       l # NoResult => Reconcile(l, body) \in ProtocolResult
<1>1. Pass \in ProtocolResult
  BY DEF ProtocolResult, Pass, Observed, Statuses
<1>2. \A r \in Reasons : Fail(r) \in ProtocolResult /\ Error(r) \in ProtocolResult
  BY DEF ProtocolResult, Fail, Error, Observed, Statuses
<1>3. Observations \subseteq ProtocolResult
  BY <1>1, <1>2 DEF Observations
<1>4. \A l \in ProtocolResult, body \in ReportBody : Reconcile(l, body) \in ProtocolResult
  BY DEF Reconcile, ReportBody, ProtocolResult, Statuses
<1>5. \A body \in ReportBody : body.error \in Reasons \cup {NoReason}
  BY DEF ReportBody
<1> QED BY <1>3, <1>4, <1>5, ResultsAssumption, NoResultAssumption

\* An element of two sequences put together is an element of one of them.
LEMMA ConcatElements ==
  ASSUME NEW S, NEW p \in Seq(S), NEW q \in Seq(S)
  PROVE  /\ p \o q \in Seq(S)
         /\ \A k \in DOMAIN (p \o q) :
              \/ \E i \in DOMAIN p : (p \o q)[k] = p[i]
              \/ \E i \in DOMAIN q : (p \o q)[k] = q[i]
<1>1. /\ p \o q \in Seq(S) /\ Len(p) \in Nat /\ Len(q) \in Nat
      /\ DOMAIN (p \o q) = 1 .. Len(p) + Len(q)
      /\ DOMAIN p = 1 .. Len(p) /\ DOMAIN q = 1 .. Len(q)
  BY ConcatProperties, LenProperties
<1>2. ASSUME NEW k \in 1 .. Len(p) + Len(q)
      PROVE  \/ \E i \in DOMAIN p : (p \o q)[k] = p[i]
             \/ \E i \in DOMAIN q : (p \o q)[k] = q[i]
  <2>1. CASE k <= Len(p)
    BY <1>1, <2>1, ConcatProperties
  <2>2. CASE ~(k <= Len(p))
    <3>1. k - Len(p) \in DOMAIN q
      BY <1>1, <2>2
    <3>2. (p \o q)[k] = q[k - Len(p)]
      BY <2>2, ConcatProperties
    <3> QED BY <3>1, <3>2
  <2> QED BY <2>1, <2>2
<1> QED BY <1>1, <1>2

\* A function on 1 .. n is a sequence of its values.
LEMMA FunctionIsSequence ==
  ASSUME NEW S, NEW n \in Nat, NEW f,
         f = [i \in 1 .. n |-> f[i]], \A i \in 1 .. n : f[i] \in S
  PROVE  f \in Seq(S) /\ DOMAIN f = 1 .. n
<1>1. f \in [1 .. n -> S]
  OBVIOUS
<1> QED BY <1>1, SeqDef

-----------------------------------------------------------------------------
LEMMA HearInvInit == Init => HearInv
<1> SUFFICES ASSUME Init PROVE HearInv
  OBVIOUS
<1> USE DEF Init, ChannelInit, ClientInit
<1>1. TypeInv /\ Placed
  BY PlanIds DEF TypeInv, Placed
<1>2. FutureUntouched /\ CurrentFollowed
  <2>1. \A id \in Ids : Untouched(id) /\ completed[id] = NoResult
    BY DEF Untouched
  <2>2. cpc = "hello" /\ bi \in DOMAIN Plan
    BY PlanIds
  <2> QED BY <2>1, <2>2, PlanIds DEF FutureUntouched, CurrentFollowed
<1>3. PastReported /\ EmittedBacked
  BY PlanIds DEF PastReported, EmittedBacked
<1> QED BY <1>1, <1>2, <1>3 DEF HearInv

\* What has been heard and made of it stays: the client moves on before its
\* tests run, ends, or gives up.
LEMMA QuietStep ==
  ASSUME HearInv, toClient' \in Seq(Inputs),
         UNCHANGED <<bi, expected, completed, serverErrors, observed, heard, results>>,
         \/ cpc' = cpc \/ cpc' = "err"
         \/ <<cpc, cpc'>> \in {<<"hello", "ack">>, <<"ack", "send">>,
                             <<"send", "local">>, <<"bye", "ok">>}
  PROVE  HearInv'
<1> USE DEF HearInv
<1>1. TypeInv' /\ Placed'
  BY DEF TypeInv, Placed
<1>2. \A id \in Ids : Untouched(id)' <=> Untouched(id)
  BY DEF Untouched
<1>3. ASSUME NEW id, Reported(id) PROVE Reported(id)'
  BY <1>3 DEF Reported, Placed
<1>4. FutureUntouched'
  BY <1>2, PlanIds DEF FutureUntouched
<1>5. CurrentFollowed'
  BY <1>3, PlanIds DEF CurrentFollowed, Untouched, Reconciled, Placed
<1>6. PastReported' /\ EmittedBacked'
  BY <1>3 DEF PastReported, EmittedBacked, Backed, Reconciled
<1> QED BY <1>1, <1>4, <1>5, <1>6

LEMMA ObservesKeeps == HearInv /\ Observes => HearInv'
<1> SUFFICES ASSUME HearInv, NEW id \in Ids, NEW result \in Results,
                    ClientTestEnds(id, result),
                    observed' = [observed EXCEPT ![id] = result],
                    UNCHANGED <<inputs, heard>>
             PROVE  HearInv'
  BY DEF Observes
<1> USE DEF HearInv
<1>1. /\ cpc = "local" /\ bi \in DOMAIN Plan /\ id \in IdsOf(bi)
      /\ completed' = [completed EXCEPT ![id] = result]
      /\ UNCHANGED <<toClient, cpc, bi, expected, serverErrors, results, heard>>
  BY DEF ClientTestEnds, Pending, BatchIds, batch, IdsOf, Placed, channelVars
<1>2. TypeInv' /\ Placed'
  BY <1>1, ResultTypes DEF TypeInv, Placed
<1>3. \A b \in DOMAIN Plan : b < bi \/ b > bi =>
        b # bi /\ \A u \in IdsOf(b) : u \in Ids /\ u # id /\ observed'[u] = observed[u]
  <2>1. \A b \in DOMAIN Plan : b < bi \/ b > bi => b # bi
    BY PlanIds DEF TypeInv
  <2> QED BY <1>1, <2>1, PlanIds DEF TypeInv
<1>4. FutureUntouched'
  BY <1>1, <1>3 DEF FutureUntouched, Untouched
<1>5. CurrentFollowed'
  <2>1. \A u \in IdsOf(bi) : heard'[u] = <<>> /\ completed'[u] = observed'[u]
    BY <1>1, PlanIds DEF CurrentFollowed, TypeInv
  <2> QED BY <1>1, <2>1 DEF CurrentFollowed
<1>6. PastReported'
  BY <1>1, <1>3 DEF PastReported, Reported
<1>7. EmittedBacked'
  BY <1>1, <1>3 DEF EmittedBacked, Backed, Reconciled
<1> QED BY <1>2, <1>4, <1>5, <1>6, <1>7

\* Once every test of the batch has ended, all its reports are due.
LEMMA AwaitsReportsKeeps == HearInv /\ ClientAwaitsReports /\ UNCHANGED openVars => HearInv'
<1> SUFFICES ASSUME HearInv, ClientAwaitsReports, UNCHANGED openVars PROVE HearInv'
  OBVIOUS
<1> USE DEF HearInv
<1>1. /\ cpc = "local" /\ cpc' = "reports" /\ bi \in DOMAIN Plan
      /\ expected' = IdsOf(bi) /\ \A id \in IdsOf(bi) : completed[id] # NoResult
      /\ UNCHANGED <<toClient, bi, completed, serverErrors, results, observed, heard>>
  BY DEF ClientAwaitsReports, Pending, BatchIds, batch, IdsOf, Placed, channelVars, openVars
<1>2. TypeInv' /\ Placed'
  BY <1>1, PlanIds DEF TypeInv, Placed
<1>3. CurrentFollowed'
  <2>1. \A id \in IdsOf(bi) :
          observed[id] \in Results /\ heard[id] = <<>> /\ completed[id] = observed[id]
    BY <1>1, PlanIds DEF CurrentFollowed, TypeInv
  <2> QED BY <1>1, <2>1 DEF CurrentFollowed
<1>4. FutureUntouched' /\ PastReported' /\ EmittedBacked'
  BY <1>1 DEF FutureUntouched, Untouched, PastReported, Reported, EmittedBacked, Backed,
              Reconciled
<1> QED BY <1>2, <1>3, <1>4

\* A report that is due is the first for its test; any other message ends the
\* client, and leaves what was heard first of each test as it was.
LEMMA HearsKeeps == HearInv /\ Hears => HearInv'
<1> SUFFICES ASSUME HearInv, Hears PROVE HearInv'
  OBVIOUS
<1> USE DEF HearInv
<1>1. PICK m : m = Head(toClient)
  OBVIOUS
<1>2. /\ cpc = "reports" /\ bi \in DOMAIN Plan /\ expected \subseteq IdsOf(bi)
      /\ m \in Inputs /\ toClient' \in Seq(Inputs)
      /\ UNCHANGED <<bi, results, observed>>
  BY <1>1, HeadTailProperties
     DEF Hears, ClientReport, ClientTakes, TypeInv, Placed, CurrentFollowed
<1>3. /\ m.type = "report" => m.body \in ReportBody
      /\ heard' = IF m.type = "report" /\ m.id \in Ids
                  THEN [heard EXCEPT ![m.id] = Append(@, m.body)] ELSE heard
  BY <1>1, <1>2, InputsAssumption DEF Hears
<1>4. heard' \in [Ids -> Seq(ReportBody)]
  <2>1. \A u \in Ids : heard[u] \in Seq(ReportBody)
    BY DEF TypeInv
  <2>2. CASE m.type = "report" /\ m.id \in Ids
    <3>1. Append(heard[m.id], m.body) \in Seq(ReportBody)
      BY <1>3, <2>1, <2>2
    <3> QED BY <1>3, <2>2, <3>1 DEF TypeInv
  <2>3. CASE ~(m.type = "report" /\ m.id \in Ids)
    BY <1>3, <2>3 DEF TypeInv
  <2> QED BY <2>2, <2>3
<1>5. \A u \in Ids : Reported(u) =>
        Len(heard'[u]) \in {1, 2} /\ heard'[u][1] = heard[u][1]
  <2> SUFFICES ASSUME NEW u \in Ids, Reported(u)
               PROVE  Len(heard'[u]) \in {1, 2} /\ heard'[u][1] = heard[u][1]
    OBVIOUS
  <2>1. heard[u] \in Seq(ReportBody) /\ Len(heard[u]) = 1
    BY <1>2 DEF Reported, TypeInv
  <2>2. CASE m.type = "report" /\ m.id = u
    <3>1. heard'[u] = Append(heard[u], m.body) /\ m.body \in ReportBody
      BY <1>3, <2>2 DEF TypeInv
    <3> QED BY <2>1, <3>1, AppendProperties
  <2>3. CASE ~(m.type = "report" /\ m.id = u)
    <3>1. heard'[u] = heard[u]
      BY <1>3, <2>3 DEF TypeInv
    <3> QED BY <2>1, <3>1
  <2> QED BY <2>2, <2>3
<1>6. CASE m.type = "report" /\ m.id \in expected
  <2>1. /\ UNCHANGED cpc /\ expected' = expected \ {m.id}
        /\ completed' = [completed EXCEPT ![m.id] = Reconcile(@, m.body)]
        /\ serverErrors' = [serverErrors EXCEPT ![m.id] = m.body.error]
    BY <1>1, <1>6 DEF Hears, ClientReport, Outstanding
  <2>2. m.id \in Ids /\ m.id \in IdsOf(bi) /\ m.body \in ReportBody
    BY <1>2, <1>3, <1>6, PlanIds
  <2>3. /\ heard[m.id] = <<>> /\ observed[m.id] \in Results
        /\ completed[m.id] = observed[m.id]
    BY <1>2, <1>6 DEF CurrentFollowed
  <2>4. heard'[m.id] = <<m.body>> /\ Len(heard'[m.id]) = 1 /\ heard'[m.id][1] = m.body
    <3>1. heard'[m.id] = Append(<<>>, m.body)
      BY <1>3, <1>6, <2>2, <2>3 DEF TypeInv
    <3> QED BY <3>1
  <2>5. \A u \in Ids : u # m.id => /\ heard'[u] = heard[u] /\ completed'[u] = completed[u]
                                  /\ serverErrors'[u] = serverErrors[u]
    BY <1>3, <2>1 DEF TypeInv
  <2>6. TypeInv' /\ Placed'
    <3>1. completed' \in [Ids -> ProtocolResult \cup {NoResult}]
      <4>1. Reconcile(completed[m.id], m.body) \in ProtocolResult
        BY <2>2, <2>3, ResultTypes
      <4> QED BY <2>1, <2>2, <4>1 DEF TypeInv
    <3>2. serverErrors' \in [Ids -> Reasons \cup {NoReason}]
      BY <2>1, <2>2, ResultTypes DEF TypeInv
    <3> QED BY <1>2, <1>4, <2>1, <3>1, <3>2 DEF TypeInv, Placed
  <2>7. \A b \in DOMAIN Plan : b < bi \/ b > bi =>
          \A u \in IdsOf(b) : u \in Ids /\ u # m.id /\ heard'[u] = heard[u]
    <3>1. \A b \in DOMAIN Plan : b < bi \/ b > bi => b # bi
      BY PlanIds DEF TypeInv
    <3> QED BY <1>2, <2>2, <2>5, <3>1, PlanIds
  <2>8. FutureUntouched' /\ PastReported'
    BY <1>2, <2>1, <2>7 DEF FutureUntouched, Untouched, PastReported, Reported
  <2>9. EmittedBacked'
    BY <1>2, <2>7 DEF EmittedBacked, Backed, Reconciled
  <2>10. CurrentFollowed'
    <3>1. ASSUME NEW u \in expected'
          PROVE  observed'[u] \in Results /\ heard'[u] = <<>> /\ completed'[u] = observed'[u]
      BY <1>2, <2>1, <2>5, PlanIds DEF CurrentFollowed
    <3>2. ASSUME NEW u \in IdsOf(bi) \ expected'
          PROVE  /\ Reported(u)' /\ completed'[u] = Reconciled(u)'
                 /\ serverErrors'[u] = heard'[u][1].error
      <4>1. CASE u = m.id
        BY <4>1, <1>2, <2>1, <2>2, <2>3, <2>4 DEF Reported, Reconciled, TypeInv
      <4>2. CASE u # m.id
        <5>1. /\ u \in Ids /\ Reported(u) /\ completed[u] = Reconciled(u)
              /\ serverErrors[u] = heard[u][1].error
          BY <4>2, <1>2, <2>1, PlanIds DEF CurrentFollowed
        <5> QED BY <4>2, <5>1, <1>2, <2>1, <2>5 DEF Reported, Reconciled
      <4> QED BY <4>1, <4>2
    <3> QED BY <1>2, <2>1, <3>1, <3>2 DEF CurrentFollowed
  <2> QED BY <2>6, <2>8, <2>9, <2>10
<1>7. CASE ~(m.type = "report" /\ m.id \in expected)
  <2>1. cpc' = "err" /\ UNCHANGED <<expected, completed, serverErrors>>
    BY <1>1, <1>7 DEF Hears, ClientReport, Outstanding, ClientReturns
  <2>2. TypeInv' /\ Placed'
    BY <1>2, <1>4, <2>1 DEF TypeInv, Placed
  <2>3. FutureUntouched' /\ CurrentFollowed'
    BY <2>1 DEF FutureUntouched, CurrentFollowed
  <2>4. PastReported'
    BY <1>2, <1>5, <2>1, PlanIds DEF PastReported, Reported
  <2>5. ASSUME NEW k \in DOMAIN results PROVE Backed(results[k])'
    <3>1. PICK b \in DOMAIN Plan : b < bi /\ results[k].entry.id \in IdsOf(b)
      BY DEF EmittedBacked, Backed
    <3>2. results[k].entry.id \in Ids /\ Reported(results[k].entry.id)
      BY <3>1, PlanIds DEF PastReported
    <3> QED BY <1>2, <1>5, <3>1, <3>2 DEF EmittedBacked, Backed, Reconciled
  <2> QED BY <1>2, <2>2, <2>3, <2>4, <2>5 DEF EmittedBacked
<1> QED BY <1>6, <1>7

\* The batch is over: all its tests are reported, and its verdicts are made of
\* those reports.
LEMMA TallyKeeps == HearInv /\ ClientTally /\ UNCHANGED openVars => HearInv'
<1> SUFFICES ASSUME HearInv, ClientTally, UNCHANGED openVars PROVE HearInv'
  OBVIOUS
<1> USE DEF HearInv
<1>1. /\ cpc = "reports" /\ bi \in DOMAIN Plan /\ expected = {}
      /\ results' = results \o BatchVerdicts
      /\ completed' = [id \in Ids |-> NoResult] /\ serverErrors' = [id \in Ids |-> NoReason]
      /\ bi' = bi + 1
      /\ IF bi < Len(Plan) THEN cpc' = "send" ELSE cpc' = "bye"
      /\ UNCHANGED <<toClient, expected, observed, heard>>
  BY DEF ClientTally, AllReported, Placed, channelVars, openVars
<1>2. \A id \in IdsOf(bi) : /\ id \in Ids /\ Reported(id) /\ completed[id] = Reconciled(id)
                           /\ serverErrors[id] = heard[id][1].error
  BY <1>1, PlanIds DEF CurrentFollowed
<1>3. ASSUME NEW i \in DOMAIN Plan[bi]
      PROVE  /\ BatchVerdicts[i] = TestEntry(Plan[bi][i])
             /\ TestEntry(Plan[bi][i]) \in Verdicts
             /\ Plan[bi][i].id \in IdsOf(bi)
  <2>1. Plan[bi][i] \in Entries /\ Plan[bi][i].id \in IdsOf(bi)
    BY <1>1 DEF Entries, EntriesOf, IdsOf
  <2>2. /\ completed[Plan[bi][i].id] \in ProtocolResult \cup {NoResult}
        /\ serverErrors[Plan[bi][i].id] \in Reasons \cup {NoReason}
    BY <1>2, <2>1 DEF TypeInv
  <2>3. BatchVerdicts[i] = TestEntry(Plan[bi][i])
    BY DEF BatchVerdicts, batch
  <2> QED BY <2>1, <2>2, <2>3 DEF TestEntry, Verdicts
<1>4. BatchVerdicts \in Seq(Verdicts) /\ DOMAIN BatchVerdicts = DOMAIN Plan[bi]
  <2>1. PICK n \in Nat : DOMAIN Plan[bi] = 1 .. n
    BY <1>1, PlanIds, LenProperties
  <2>2. PICK bv : bv = BatchVerdicts
    OBVIOUS
  <2>3. bv = [i \in 1 .. n |-> bv[i]]
    BY <2>1, <2>2 DEF BatchVerdicts, batch
  <2>4. \A i \in 1 .. n : bv[i] \in Verdicts
    BY <1>3, <2>1, <2>2
  <2> HIDE DEF Verdicts
  <2>5. bv \in Seq(Verdicts) /\ DOMAIN bv = 1 .. n
    BY <2>3, <2>4, FunctionIsSequence
  <2> QED BY <2>1, <2>2, <2>5
<1>5. /\ results' \in Seq(Verdicts)
      /\ \A k \in DOMAIN results' :
           \/ \E i \in DOMAIN results : results'[k] = results[i]
           \/ \E i \in DOMAIN Plan[bi] : results'[k] = BatchVerdicts[i]
  <2> HIDE DEF Verdicts
  <2>1. PICK p \in Seq(Verdicts), q \in Seq(Verdicts) : p = results /\ q = BatchVerdicts
    BY <1>4 DEF TypeInv
  <2>2. results' = p \o q /\ DOMAIN q = DOMAIN Plan[bi]
    BY <1>1, <1>4, <2>1
  <2> QED BY <2>1, <2>2, ConcatElements
<1>6. bi' \in 1 .. Len(Plan) + 1 /\ (bi < Len(Plan) => bi' \in DOMAIN Plan)
      /\ (~(bi < Len(Plan)) => bi' = Len(Plan) + 1)
  BY <1>1, PlanIds
<1>7. TypeInv' /\ Placed'
  BY <1>1, <1>5, <1>6 DEF TypeInv, Placed
<1>8. \A b \in DOMAIN Plan : /\ b > bi' => b > bi
                            /\ b < bi' => b < bi \/ b = bi
  BY <1>1, PlanIds
<1>9. FutureUntouched'
  BY <1>1, <1>8 DEF FutureUntouched, Untouched
<1>10. CurrentFollowed'
  <2>1. CASE bi < Len(Plan)
    <3>1. bi' \in DOMAIN Plan /\ bi' > bi /\ cpc' = "send"
      BY <1>1, <1>6, <2>1, PlanIds
    <3>2. \A id \in IdsOf(bi') : id \in Ids /\ Untouched(id)
      BY <1>1, <3>1, PlanIds DEF FutureUntouched
    <3> QED BY <1>1, <3>1, <3>2 DEF CurrentFollowed, Untouched
  <2>2. CASE ~(bi < Len(Plan))
    BY <1>1, <2>2 DEF CurrentFollowed
  <2> QED BY <2>1, <2>2
<1>11. PastReported'
  <2>1. \A id : Reported(id) => Reported(id)'
    BY <1>1 DEF Reported
  <2> QED BY <1>1, <1>2, <1>8, <2>1 DEF PastReported
<1>12. EmittedBacked'
  <2>1. ASSUME NEW v, Backed(v) PROVE Backed(v)'
    BY <1>1, <2>1, PlanIds DEF Backed, Reconciled
  <2>2. ASSUME NEW i \in DOMAIN Plan[bi], NEW v, v = BatchVerdicts[i] PROVE Backed(v)'
    <3>1. PICK e : e = Plan[bi][i]
      OBVIOUS
    <3>2. PICK id : id = e.id /\ id \in IdsOf(bi)
      BY <1>3, <3>1
    <3>4. v = TestEntry(e)
      BY <1>3, <2>2, <3>1
    <3>5. v.entry.id = id /\ v.result = completed[id] /\ v.server_error = serverErrors[id]
      BY <3>2, <3>4 DEF TestEntry
    <3>3. /\ v.result = Reconcile(observed[id], heard[id][1])
          /\ v.server_error = heard[id][1].error
      BY <1>2, <3>2, <3>5 DEF Reconciled
    <3>6. bi < bi'
      BY <1>1, PlanIds
    <3> QED BY <1>1, <3>2, <3>3, <3>5, <3>6 DEF Backed, Reconciled
  <2>3. ASSUME NEW k \in DOMAIN results', NEW v, v = results'[k] PROVE Backed(v)'
    BY <1>5, <2>1, <2>2, <2>3 DEF EmittedBacked
  <2> QED BY <2>3 DEF EmittedBacked
<1> QED BY <1>7, <1>9, <1>10, <1>11, <1>12

-----------------------------------------------------------------------------
LEMMA HearInductive == HearInv /\ [Next]_vars => HearInv'
<1> SUFFICES ASSUME HearInv, [Next]_vars PROVE HearInv'
  OBVIOUS
<1>1. /\ toClient \in Seq(Inputs)
      /\ toClient # <<>> => Tail(toClient) \in Seq(Inputs)
  BY HeadTailProperties DEF HearInv, TypeInv
<1>2. CASE PeerSends
  <2>1. PICK message \in Inputs : toClient' = Append(toClient, message) \/ toClient' = toClient
    BY <1>2 DEF PeerSends, ServerSends
  <2>2. toClient' \in Seq(Inputs)
    BY <1>1, <2>1
  <2> QED BY <1>2, <2>2, QuietStep DEF PeerSends, clientVars
<1>3. CASE PeerReads
  BY <1>1, <1>3, QuietStep DEF PeerReads, clientVars, openVars
<1>4. CASE PeerLeaves
  BY <1>1, <1>4, QuietStep DEF PeerLeaves, clientVars, openVars
<1>5. CASE Observes
  BY <1>5, ObservesKeeps
<1>6. CASE Hears
  BY <1>6, HearsKeeps
<1>7. CASE OtherSteps
  <2>1. UNCHANGED openVars
    BY <1>7 DEF OtherSteps
  <2> USE <2>1 DEF openVars
  <2>2. CASE ClientFlush
    BY <1>1, <2>2, QuietStep DEF ClientFlush, ClientSends
  <2>3. CASE ClientLosesChannel
    BY <1>1, <2>3, QuietStep DEF ClientLosesChannel, ClientReturns
  <2>4. CASE ClientHello
    <3>1. toClient' \in Seq(Inputs) /\ cpc = "hello" /\ (cpc' = "ack" \/ cpc' = "err")
      BY <1>1, <2>4 DEF ClientHello, ClientTakes, ClientReturns
    <3> QED BY <2>4, <3>1, QuietStep DEF ClientHello
  <2>5. CASE ClientAck
    <3>1. toClient' \in Seq(Inputs) /\ cpc = "ack" /\ (cpc' = "send" \/ cpc' = "err")
      BY <1>1, <2>5 DEF ClientAck, ClientTakes, ClientReturns
    <3> QED BY <2>5, <3>1, QuietStep DEF ClientAck
  <2>6. CASE ClientSendTest
    BY <1>1, <2>6, QuietStep DEF ClientSendTest, channelVars
  <2>7. CASE ClientSendBatchEnd
    BY <1>1, <2>7, QuietStep DEF ClientSendBatchEnd, channelVars
  <2>8. CASE ClientAwaitsReports
    BY <2>1, <2>8, AwaitsReportsKeeps
  <2>9. CASE ClientReportTimeout
    BY <1>1, <2>9, QuietStep DEF ClientReportTimeout, ClientReturns
  <2>10. CASE ClientTally
    BY <2>1, <2>10, TallyKeeps
  <2>11. CASE ClientBye
    <3>1. toClient' \in Seq(Inputs) /\ cpc = "bye" /\ (cpc' = "ok" \/ cpc' = "err")
      BY <1>1, <2>11 DEF ClientBye, ClientTakes, ClientReturns
    <3> QED BY <2>11, <3>1, QuietStep DEF ClientBye
  <2> QED BY <1>7, <2>2, <2>3, <2>4, <2>5, <2>6, <2>7, <2>8, <2>9, <2>10, <2>11
          DEF OtherSteps
<1>8. CASE Stops \/ UNCHANGED vars
  BY <1>1, <1>8, QuietStep DEF Stops, vars, clientVars, openVars, channelVars
<1> QED BY <1>2, <1>3, <1>4, <1>5, <1>6, <1>7, <1>8 DEF Next, ClientMoves

\* No verdict without its report (execute_batch): each verdict emitted rests
\* on exactly one report, which arrived while it was due; it is PASS only if
\* both ends say so, and a report without an error changes nothing.
THEOREM VerdictsAreBacked == Spec => []VerdictsBacked
<1>1. HearInv => VerdictsBacked
  <2> SUFFICES ASSUME HearInv, NEW k \in DOMAIN results, NEW v, v = results[k],
                      NEW id, id = v.entry.id
               PROVE  /\ IF cpc = "err" THEN Len(heard[id]) \in {1, 2}
                                        ELSE Len(heard[id]) = 1
                      /\ v.result.status = "pass" =>
                           observed[id] = Pass /\ heard[id][1].error = NoReason
                      /\ heard[id][1].error = NoReason => v.result = observed[id]
                      /\ v.server_error = heard[id][1].error
    BY DEF VerdictsBacked
  <2>1. /\ v.result = Reconcile(observed[id], heard[id][1])
        /\ v.server_error = heard[id][1].error
        /\ Reported(id)
    BY DEF HearInv, EmittedBacked, Backed, Reconciled, PastReported
  <2>2. observed[id] \in Observations
    BY <2>1, ResultsAssumption DEF Reported
  <2>3. \A o \in Observations : o.status = "pass" => o = Pass
    BY DEF Observations, Pass, Fail, Error, Observed
  <2>4. ASSUME NEW o, NEW body, Reconcile(o, body).status = "pass"
        PROVE  o.status = "pass" /\ body.error = NoReason
    BY <2>4 DEF Reconcile
  <2>5. \A o, body : body.error = NoReason => Reconcile(o, body) = o
    BY DEF Reconcile
  <2> QED BY <2>1, <2>2, <2>3, <2>4, <2>5 DEF Reported
<1> QED BY <1>1, HearInvInit, HearInductive, PTL DEF Spec

\* Reports nobody asked for, and duplicates ("unexpected or duplicate report
\* ID"), end the client; a successful end has heard exactly one per test.
THEOREM ReportsAreExpected == Spec => []OnlyExpectedReports
<1>1. HearInv => OnlyExpectedReports
  <2> SUFFICES ASSUME HearInv, NEW id \in Ids, cpc # "err"
               PROVE  Len(heard[id]) <= 1 /\ (cpc = "ok" => Len(heard[id]) = 1)
    BY DEF OnlyExpectedReports
  <2>1. PICK b \in DOMAIN Plan : id \in IdsOf(b)
    BY PlanIds
  <2>2. CASE b < bi
    <3>1. Len(heard[id]) = 1
      BY <2>1, <2>2 DEF HearInv, PastReported, Reported
    <3> QED BY <3>1
  <2>3. CASE b > bi
    <3>1. heard[id] = <<>>
      BY <2>1, <2>3 DEF HearInv, FutureUntouched, Untouched
    <3>2. cpc # "ok"
      BY <2>3, PlanIds DEF HearInv, Placed
    <3> QED BY <3>1, <3>2
  <2>4. CASE b = bi
    <3>1. cpc \in {"hello", "ack", "send", "local", "reports"}
      BY <2>4, PlanIds DEF HearInv, TypeInv, Placed
    <3>2. heard[id] = <<>> \/ Len(heard[id]) = 1
      BY <2>1, <2>4, <3>1 DEF HearInv, CurrentFollowed, Untouched, Reported
    <3>3. PICK n \in {0, 1} : Len(heard[id]) = n
      BY <3>2
    <3>4. n <= 1 /\ cpc # "ok"
      BY <3>1
    <3> QED BY <3>3, <3>4
  <2>5. b \in Nat /\ bi \in Nat
    BY <2>1, PlanIds DEF HearInv, TypeInv
  <2>6. b < bi \/ b > bi \/ b = bi
    BY <2>5
  <2> QED BY <2>2, <2>3, <2>4, <2>6
<1> QED BY <1>1, HearInvInit, HearInductive, PTL DEF Spec
=============================================================================
