---------------------------- MODULE SessionProofs ----------------------------
(***************************************************************************)
(* Theorems about module Session, for every plan, every registry, every    *)
(* set of outcomes and of faults.  The inductive invariant has six parts,  *)
(* each proved from those before it:                                       *)
(*   TypeInv    the types, and where the client is in its batch;           *)
(*   FlowInv    a test is at one place on its way from the plan to the     *)
(*              server's batch, and has not been run by the server before  *)
(*              it gets there;                                             *)
(*   ReportInv  a report says what the server observed;                    *)
(*   VerdictInv what the client holds and has emitted is what the two ends *)
(*              observed;                                                  *)
(*   ScanInv    what has been emitted is the plan up to the current batch, *)
(*              in order and counted;                                      *)
(*   OrderInv   what is in the connection is where both programs expect it.*)
(***************************************************************************)
EXTENDS Session, FiniteSetTheorems, FunctionTheorems, SequenceTheorems, TLAPS

-----------------------------------------------------------------------------
\* Where the client is in the plan, and in the batch.
ClientAt ==
  /\ cpc \in {"hello", "ack", "send", "local", "reports"} => bi \in DOMAIN Plan
  /\ cpc \in {"hello", "ack"} => sent = 0
  /\ cpc = "send" => sent <= Len(batch)
  /\ cpc \in {"local", "reports"} => sent = Len(batch)
  /\ cpc \in {"bye", "ok"} => bi = Len(Plan) + 1
  /\ cpc = "reports" =>
       /\ expected \subseteq BatchIds
       /\ \A id \in BatchIds : completed[id] # NoResult

TypeInv == TypeOK /\ ClientAt

-----------------------------------------------------------------------------
\* What PlanAssumption says of a batch and its tests, for run_client's plans.
LEMMA PlanFacts ==
  /\ Len(Plan) \in Nat \ {0} /\ DOMAIN Plan = 1 .. Len(Plan)
  /\ \A b \in DOMAIN Plan :
       /\ Plan[b] \in Seq(Entries)
       /\ Len(Plan[b]) \in Nat \ {0}
       /\ DOMAIN Plan[b] = 1 .. Len(Plan[b])
       /\ \A i \in DOMAIN Plan[b] : Plan[b][i] \in Entries /\ Plan[b][i].id \in Ids
  /\ \A e \in Entries : e.id \in Ids
  /\ \A b, c \in DOMAIN Plan : \A i \in DOMAIN Plan[b], j \in DOMAIN Plan[c] :
       Plan[b][i].id = Plan[c][j].id => b = c /\ i = j
<1>1. /\ Len(Plan) \in Nat \ {0} /\ DOMAIN Plan = 1 .. Len(Plan)
      /\ \A b \in DOMAIN Plan : Plan[b] \in Seq(Entries)
  BY PlanAssumption
<1>2. \A b \in DOMAIN Plan : Len(Plan[b]) \in Nat \ {0} /\ DOMAIN Plan[b] = 1 .. Len(Plan[b])
  <2>. SUFFICES ASSUME NEW b \in DOMAIN Plan
                PROVE  Len(Plan[b]) \in Nat \ {0} /\ DOMAIN Plan[b] = 1 .. Len(Plan[b])
    OBVIOUS
  <2>1. Len(Plan[b]) \in 1 .. BatchSize(Parallel)
    BY PlanAssumption DEF WellFormed
  <2>2. Plan[b] \in Seq(Entries)
    BY <1>1
  <2>. QED  BY <2>1, <2>2
<1>3. \A e \in Entries : e.id \in Ids
  BY DEF Ids
<1>4. \A b \in DOMAIN Plan : \A i \in DOMAIN Plan[b] : Plan[b][i] \in Entries
  BY <1>1, <1>2, ElementOfSeq
<1>5. \A b, c \in DOMAIN Plan : \A i \in DOMAIN Plan[b], j \in DOMAIN Plan[c] :
        Plan[b][i].id = Plan[c][j].id => b = c /\ i = j
  BY PlanAssumption DEF WellFormed
<1>. QED  BY <1>1, <1>2, <1>3, <1>4, <1>5

\* The fields of a message are of the types its kind gives them (msg.rs).
LEMMA MessageFields ==
  ASSUME NEW m \in Messages
  PROVE  /\ m.type = "configure" => m.parallel = Parallel
         /\ m.type = "test" => m.entry \in Entries /\ m = Test(m.entry)
         /\ m.type = "report" => m.id \in Ids /\ m.body \in ReportBody
         /\ m # Nothing
BY DEF Messages, Hello, Configure, Ack, Test, BatchEnd, Done, Bye, Report, Nothing

\* What is sent is a message.
LEMMA MessageKinds ==
  /\ \A v \in Versions : Hello(v) \in Messages /\ Configure(v, Parallel) \in Messages
  /\ \A ok \in BOOLEAN : Ack(ok) \in Messages
  /\ \A e \in Entries : Test(e) \in Messages
  /\ BatchEnd \in Messages /\ Done \in Messages /\ Bye \in Messages
  /\ \A id \in Ids, body \in ReportBody : Report(id, body) \in Messages
BY DEF Messages

\* protocol_result_to_report and the client's reconciliation are total.
LEMMA VerdictTypes ==
  /\ Observations \subseteq ProtocolResult
  /\ \A r \in Observations : protocol_result_to_report(r) \in ReportBody
  /\ \A l \in ProtocolResult, body \in ReportBody : Reconcile(l, body) \in ProtocolResult
  /\ NoResult \notin Observations
<1>1. Observations \subseteq ProtocolResult
  <2>1. Pass \in ProtocolResult
    BY DEF ProtocolResult, Pass, Observed, Statuses
  <2>2. \A r \in Reasons : Fail(r) \in ProtocolResult /\ Error(r) \in ProtocolResult
    BY DEF ProtocolResult, Fail, Error, Observed, Statuses
  <2>. QED  BY <2>1, <2>2 DEF Observations
<1>2. \A r \in Observations : protocol_result_to_report(r) \in ReportBody
  BY <1>1 DEF protocol_result_to_report, ReportBody, ProtocolResult
<1>3. \A l \in ProtocolResult, body \in ReportBody : Reconcile(l, body) \in ProtocolResult
  BY DEF Reconcile, ReportBody, ProtocolResult, Statuses
<1>. QED  BY <1>1, <1>2, <1>3, NoResultAssumption

\* The number of tests of a batch with a status is a number.
LEMMA CountOfType ==
  ASSUME bi \in DOMAIN Plan, NEW s
  PROVE  /\ CountOf(s) \in Nat
         /\ CountOf(s) = 0 => \A i \in DOMAIN batch : completed[batch[i].id].status # s
<1>. DEFINE S == {i \in DOMAIN batch : completed[batch[i].id].status = s}
<1>1. IsFiniteSet(DOMAIN batch)
  BY PlanFacts, FS_Interval DEF batch
<1>2. IsFiniteSet(S)
  BY <1>1, FS_Subset
<1>3. Cardinality(S) \in Nat /\ (Cardinality(S) = 0 => S = {})
  BY <1>2, FS_CardinalityType, FS_EmptySet
<1>. QED  BY <1>3 DEF CountOf

-----------------------------------------------------------------------------
LEMMA TypeInit == Init => TypeInv
<1>. SUFFICES ASSUME Init PROVE TypeInv
  OBVIOUS
<1>. USE DEF Init
<1>1. ChannelTypeOK
  BY DEF ChannelInit, ChannelTypeOK
<1>2. ServerTypeOK
  <2>1. sout \in Messages
    BY MessageKinds DEF ServerInit
  <2>2. scounts \in [Statuses -> Nat]
    BY DEF ServerInit, NoCounts
  <2>3. sbatch \in Seq(Entries) /\ running \subseteq DOMAIN sbatch
    BY DEF ServerInit
  <2>4. doneAfter \in BOOLEAN
    BY DEF ServerInit
  <2>5. limit \in Nat \ {0} /\ sversion \in Versions
    BY DEF ServerInit
  <2>6. spc = "configure" /\ serr = "none"
    BY DEF ServerInit
  <2>. QED  BY <2>1, <2>2, <2>3, <2>4, <2>5, <2>6 DEF ServerTypeOK
<1>3. ClientTypeOK
  <2>1. bi \in 1 .. Len(Plan) + 1
    BY PlanFacts DEF ClientInit
  <2>2. results \in Seq(Verdicts)
    BY DEF ClientInit
  <2>. QED  BY <2>1, <2>2 DEF ClientInit, ClientTypeOK
<1>4. ClientAt
  BY PlanFacts DEF ClientInit, ClientAt
<1>. QED  BY <1>1, <1>2, <1>3, <1>4 DEF TypeInv, TypeOK

\* The channel keeps its type, whatever an end does with it.
LEMMA ChannelSteps ==
  ASSUME ChannelTypeOK
  PROVE  /\ \A m \in Messages : ClientSends(m) \/ ServerSends(m) => ChannelTypeOK'
         /\ ClientTakes /\ UNCHANGED toServer /\ closed' \subseteq {"client", "server", "wire"}
              => ChannelTypeOK' /\ Head(toClient) \in Messages
         /\ ServerTakes /\ UNCHANGED toClient /\ closed' \subseteq {"client", "server", "wire"}
              => ChannelTypeOK' /\ Head(toServer) \in Messages
         /\ Cut => ChannelTypeOK'
         /\ \A u : Dropped("client", u) \/ Dropped("server", u)
              => closed' \subseteq {"client", "server", "wire"}
<1>. USE DEF ChannelTypeOK
<1>1. \A m \in Messages : ClientSends(m) \/ ServerSends(m) => ChannelTypeOK'
  <2>. SUFFICES ASSUME NEW m \in Messages, ClientSends(m) \/ ServerSends(m)
                PROVE  ChannelTypeOK'
    OBVIOUS
  <2>1. Append(toServer, m) \in Seq(Messages) /\ Append(toClient, m) \in Seq(Messages)
    OBVIOUS
  <2>2. CASE ClientSends(m)
    BY <2>1, <2>2 DEF ClientSends
  <2>3. CASE ServerSends(m)
    BY <2>1, <2>3 DEF ServerSends
  <2>. QED  BY <2>2, <2>3
<1>2. ClientTakes /\ UNCHANGED toServer /\ closed' \subseteq {"client", "server", "wire"}
        => ChannelTypeOK' /\ Head(toClient) \in Messages
  BY HeadTailProperties DEF ClientTakes
<1>3. ServerTakes /\ UNCHANGED toClient /\ closed' \subseteq {"client", "server", "wire"}
        => ChannelTypeOK' /\ Head(toServer) \in Messages
  BY HeadTailProperties DEF ServerTakes
<1>4. Cut => ChannelTypeOK'
  BY DEF Cut
<1>5. \A u : Dropped("client", u) \/ Dropped("server", u)
        => closed' \subseteq {"client", "server", "wire"}
  BY DEF Dropped
<1>. QED  BY <1>1, <1>2, <1>3, <1>4, <1>5

\* The server's steps keep the types of the channel and of the server.
LEMMA ServerTypes ==
  ASSUME TypeOK,
         ServerStep \/ ServerRun \/ ServerKilled
  PROVE  ChannelTypeOK' /\ ServerTypeOK'
<1>. USE DEF TypeOK
<1>1. CASE ServerFlush
  <2>1. sout \in Messages
    BY <1>1 DEF ServerFlush, ServerTypeOK
  <2>. QED  BY <1>1, <2>1, ChannelSteps DEF ServerFlush, ServerTypeOK
<1>2. CASE ServerEnds
  BY <1>2, ChannelSteps DEF ServerEnds, ServerReturns, ServerTypeOK, ChannelTypeOK
<1>3. CASE ServerLosesChannel
  BY <1>3, ChannelSteps DEF ServerLosesChannel, ServerReturns, ServerTypeOK, ChannelTypeOK
<1>4. CASE ServerConfigure
  <2>1. Head(toServer) \in Messages
    BY <1>4, HeadTailProperties DEF ServerConfigure, ServerTakes, ChannelTypeOK
  <2>2. CASE Head(toServer).type # "configure"
    BY <1>4, <2>2, ChannelSteps DEF ServerConfigure, ServerReturns, ServerTypeOK, ChannelTypeOK
  <2>3. CASE Head(toServer).type = "configure"
    <3>1. limit' \in Nat \ {0}
      BY <1>4, <2>1, <2>3, MessageFields, PlanAssumption DEF ServerConfigure, LimitOf
    <3>2. sout' \in Messages
      BY <1>4, <2>3, MessageKinds DEF ServerConfigure
    <3>. QED  BY <1>4, <2>3, <3>1, <3>2, ChannelSteps DEF ServerConfigure, ServerTypeOK, ChannelTypeOK
  <2>. QED  BY <2>2, <2>3
<1>5. CASE ServerTest
  <2>1. Head(toServer) \in Messages /\ Head(toServer).entry \in Entries
    BY <1>5, HeadTailProperties, MessageFields DEF ServerTest, ServerTakes, ChannelTypeOK
  <2>2. CASE ~BatchFull /\ Runnable(Head(toServer).entry)
    <3>1. sbatch' = Append(sbatch, Head(toServer).entry)
      BY <1>5, <2>2 DEF ServerTest
    <3>2. sbatch' \in Seq(Entries) /\ DOMAIN sbatch \subseteq DOMAIN sbatch'
      BY <2>1, <3>1 DEF ServerTypeOK
    <3>. QED  BY <1>5, <2>2, <3>2, ChannelSteps DEF ServerTest, ServerTypeOK, ChannelTypeOK
  <2>3. CASE ~(~BatchFull /\ Runnable(Head(toServer).entry))
    BY <1>5, <2>3, ChannelSteps DEF ServerTest, ServerReturns, ServerTypeOK, ChannelTypeOK
  <2>. QED  BY <2>2, <2>3
<1>6. CASE ServerBatchEnd
  BY <1>6, ChannelSteps, MessageKinds DEF ServerBatchEnd, ServerReturns, ServerTypeOK, ChannelTypeOK
<1>7. CASE ServerBatchOver
  BY <1>7, MessageKinds
     DEF ServerBatchOver, BatchDone, ServerTypeOK, ChannelTypeOK, channelVars
<1>8. CASE ServerRun
  <2>. PICK i \in DOMAIN sbatch, r \in Results : ServerTestEnds(i, r)
    BY <1>8 DEF ServerRun
  <2>1. sbatch[i].id \in Ids
    BY PlanFacts, ElementOfSeq DEF ServerTypeOK
  <2>2. r \in Observations /\ r.status \in Statuses
    BY ResultsAssumption, VerdictTypes DEF ProtocolResult
  <2>3. sout' \in Messages
    BY <2>1, <2>2, VerdictTypes, MessageKinds DEF ServerTestEnds
  <2>4. scounts' \in [Statuses -> Nat]
    BY <2>2 DEF ServerTestEnds, ServerTypeOK
  <2>. QED  BY <2>3, <2>4 DEF ServerTestEnds, ServerTypeOK, ChannelTypeOK, channelVars
<1>9. CASE ServerKilled
  BY <1>9, ChannelSteps DEF ServerKilled, ServerReturns, ServerTypeOK, ChannelTypeOK
<1>. QED  BY <1>1, <1>2, <1>3, <1>4, <1>5, <1>6, <1>7, <1>8, <1>9 DEF ServerStep

\* The client's steps keep the types of the channel and of the client, and the
\* client where it is in its batch.
LEMMA ClientTypes ==
  ASSUME TypeInv,
         ClientStep \/ ClientTest \/ ClientKilled \/ ClientReportTimeout
  PROVE  ChannelTypeOK' /\ ClientTypeOK' /\ ClientAt'
<1>. USE DEF TypeInv, TypeOK
<1>1. CASE ClientFlush
  <2>1. cout \in Messages
    BY <1>1 DEF ClientFlush, ClientTypeOK
  <2>2. ChannelTypeOK'
    BY <1>1, <2>1, ChannelSteps DEF ClientFlush
  <2>3. ClientTypeOK' /\ ClientAt'
    BY <1>1 DEF ClientFlush, ClientTypeOK, ClientAt, batch, BatchIds
  <2>. QED  BY <2>2, <2>3
<1>2. CASE ClientLosesChannel \/ ClientKilled \/ ClientReportTimeout
  BY <1>2, ChannelSteps
     DEF ClientLosesChannel, ClientKilled, ClientReportTimeout, ClientReturns,
         ClientTypeOK, ChannelTypeOK, ClientAt
<1>3. CASE ClientHello
  <2>1. ChannelTypeOK'
    BY <1>3, ChannelSteps DEF ClientHello, ClientReturns, ChannelTypeOK
  <2>2. ClientTypeOK'
    BY <1>3, MessageKinds DEF ClientHello, ClientReturns, ClientTypeOK
  <2>3. ClientAt'
    BY <1>3 DEF ClientHello, ClientReturns, ClientTypeOK, ClientAt
  <2>. QED  BY <2>1, <2>2, <2>3
<1>4. CASE ClientAck
  <2>1. ChannelTypeOK'
    BY <1>4, ChannelSteps DEF ClientAck, ClientReturns, ChannelTypeOK
  <2>2. ClientTypeOK'
    BY <1>4 DEF ClientAck, ClientReturns, ClientTypeOK
  <2>3. ClientAt'
    BY <1>4, PlanFacts DEF ClientAck, ClientReturns, ClientTypeOK, ClientAt, batch, BatchIds
  <2>. QED  BY <2>1, <2>2, <2>3
<1>5. CASE ClientSendTest
  <2>1. bi \in DOMAIN Plan /\ sent + 1 \in DOMAIN batch
    BY <1>5, PlanFacts DEF ClientSendTest, ClientAt, ClientTypeOK, batch
  <2>2. cout' \in Messages
    BY <1>5, <2>1, PlanFacts, MessageKinds DEF ClientSendTest, batch
  <2>3. ChannelTypeOK' /\ ClientTypeOK'
    BY <1>5, <2>2 DEF ClientSendTest, ClientTypeOK, ChannelTypeOK, channelVars
  <2>4. ClientAt'
    BY <1>5, <2>1, PlanFacts DEF ClientSendTest, ClientTypeOK, ClientAt, batch
  <2>. QED  BY <2>3, <2>4
<1>6. CASE ClientSendBatchEnd
  <2>1. ChannelTypeOK' /\ ClientTypeOK'
    BY <1>6, MessageKinds DEF ClientSendBatchEnd, ClientTypeOK, ChannelTypeOK, channelVars
  <2>2. ClientAt'
    BY <1>6 DEF ClientSendBatchEnd, ClientAt, batch
  <2>. QED  BY <2>1, <2>2
<1>7. CASE ClientTest
  <2>. PICK id \in Ids, r \in Results : ClientTestEnds(id, r)
    BY <1>7 DEF ClientTest
  <2>1. r \in ProtocolResult
    BY ResultsAssumption, VerdictTypes
  <2>2. ChannelTypeOK' /\ ClientTypeOK'
    BY <2>1 DEF ClientTestEnds, ClientTypeOK, ChannelTypeOK, channelVars
  <2>3. ClientAt'
    BY DEF ClientTestEnds, ClientAt, batch
  <2>. QED  BY <2>2, <2>3
<1>8. CASE ClientAwaitsReports
  <2>1. BatchIds \subseteq Ids
    BY <1>8, PlanFacts DEF ClientAwaitsReports, ClientAt, BatchIds, batch
  <2>2. ChannelTypeOK' /\ ClientTypeOK'
    BY <1>8, <2>1 DEF ClientAwaitsReports, ClientTypeOK, ChannelTypeOK, channelVars
  <2>3. ClientAt'
    BY <1>8 DEF ClientAwaitsReports, ClientAt, batch, BatchIds, Pending
  <2>. QED  BY <2>2, <2>3
<1>9. CASE ClientReport
  <2>. DEFINE m == Head(toClient)
  <2>1. m \in Messages /\ ChannelTypeOK'
    BY <1>9, ChannelSteps DEF ClientReport, ClientReturns, ChannelTypeOK
  <2>2. CASE ~(m.type = "report" /\ Outstanding(m.id))
    BY <1>9, <2>1, <2>2 DEF ClientReport, ClientReturns, ClientTypeOK, ClientAt
  <2>3. CASE m.type = "report" /\ Outstanding(m.id)
    <3>1. m.id \in BatchIds /\ m.id \in Ids /\ completed[m.id] \in ProtocolResult
      BY <1>9, <2>3 DEF ClientReport, ClientAt, ClientTypeOK, Outstanding
    <3>2. Reconcile(completed[m.id], m.body) \in ProtocolResult
      BY <2>1, <2>3, <3>1, MessageFields, VerdictTypes
    <3>3. m.body.error \in Reasons \cup {NoReason}
      BY <2>1, <2>3, MessageFields DEF ReportBody
    <3>4. ClientTypeOK'
      BY <1>9, <2>3, <3>1, <3>2, <3>3 DEF ClientReport, ClientTypeOK
    <3>5. ClientAt'
      <4>1. /\ UNCHANGED <<cpc, bi, sent>> /\ cpc = "reports"
            /\ expected' = expected \ {m.id}
            /\ completed' = [completed EXCEPT ![m.id] = Reconcile(@, m.body)]
        BY <1>9, <2>3 DEF ClientReport
      <4>2. BatchIds' = BatchIds
        BY <4>1 DEF BatchIds, batch
      <4>3. \A id \in BatchIds : completed'[id] # NoResult
        BY <4>1, <3>1, <3>2, NoResultAssumption DEF ClientAt, ClientTypeOK
      <4>. QED  BY <4>1, <4>2, <4>3 DEF ClientAt, batch
    <3>. QED  BY <2>1, <3>4, <3>5
  <2>. QED  BY <2>2, <2>3
<1>10. CASE ClientTally
  <2>1. bi \in DOMAIN Plan
    BY <1>10 DEF ClientTally, ClientAt
  <2>2. BatchVerdicts \in Seq(Verdicts)
    <3>1. \A i \in DOMAIN batch : batch[i] \in Entries /\ batch[i].id \in Ids
      BY <2>1, PlanFacts DEF batch
    <3>2. \A i \in DOMAIN batch : completed[batch[i].id] \in ProtocolResult
      BY <1>10, <3>1 DEF ClientTally, ClientAt, ClientTypeOK, BatchIds
    <3>3. \A i \in DOMAIN batch : TestEntry(batch[i]) \in Verdicts
      BY <3>1, <3>2 DEF TestEntry, Verdicts, ClientTypeOK
    <3>4. DOMAIN batch = 1 .. Len(batch) /\ Len(batch) \in Nat
      BY <2>1, PlanFacts DEF batch
    <3>. QED  BY <3>3, <3>4, IsASeq DEF BatchVerdicts
  <2>3. results' \in Seq(Verdicts)
    BY <1>10, <2>2, ConcatProperties DEF ClientTally, ClientTypeOK
  <2>4. counts' \in [Statuses -> Nat]
    BY <1>10, <2>1, CountOfType DEF ClientTally, ClientTypeOK
  <2>5. bi' \in 1 .. Len(Plan) + 1 /\ sent' = 0
    BY <1>10, <2>1, PlanFacts DEF ClientTally
  <2>6. ChannelTypeOK' /\ ClientTypeOK'
    BY <1>10, <2>3, <2>4, <2>5, MessageKinds
       DEF ClientTally, ClientTypeOK, ChannelTypeOK, channelVars
  <2>7. ClientAt'
    BY <1>10, <2>1, <2>5, PlanFacts DEF ClientTally, ClientAt, batch
  <2>. QED  BY <2>6, <2>7
<1>11. CASE ClientBye
  <2>1. ChannelTypeOK'
    BY <1>11, ChannelSteps DEF ClientBye, ClientReturns, ChannelTypeOK
  <2>2. ClientTypeOK' /\ ClientAt'
    BY <1>11 DEF ClientBye, ClientReturns, ClientTypeOK, ClientAt
  <2>. QED  BY <2>1, <2>2
<1>. QED
  BY <1>1, <1>2, <1>3, <1>4, <1>5, <1>6, <1>7, <1>8, <1>9, <1>10, <1>11 DEF ClientStep

\* An end that does not move keeps its part of the invariant.
LEMMA Idle ==
  /\ ServerTypeOK /\ UNCHANGED serverVars => ServerTypeOK'
  /\ ClientTypeOK /\ UNCHANGED clientVars => ClientTypeOK'
  /\ ClientAt /\ UNCHANGED clientVars => ClientAt'
<1>1. ServerTypeOK /\ UNCHANGED serverVars => ServerTypeOK'
  BY DEF serverVars, ServerTypeOK
<1>2. ClientTypeOK /\ UNCHANGED clientVars => ClientTypeOK'
  BY DEF clientVars, ClientTypeOK
<1>3. ClientAt /\ UNCHANGED clientVars => ClientAt'
  BY DEF clientVars, ClientAt, batch, BatchIds
<1>. QED  BY <1>1, <1>2, <1>3

\* Every step keeps the types.
LEMMA TypeStep == TypeInv /\ [Next]_vars => TypeInv'
<1>. SUFFICES ASSUME TypeInv, [Next]_vars PROVE TypeInv'
  OBVIOUS
<1>1. CASE \/ ClientStep
           \/ ClientReportTimeout /\ UNCHANGED <<serverVars, outcomeVars>>
           \/ ClientKilled /\ UNCHANGED <<serverVars, outcomeVars>>
  BY <1>1, ClientTypes, Idle DEF ClientStep, outcomeVars, TypeInv, TypeOK
<1>2. CASE ClientTest
  <2>1. localOutcome' \in [Ids -> Observations \cup {NoResult}] /\ UNCHANGED serverOutcome
    BY <1>2, ResultsAssumption DEF ClientTest, TypeInv, TypeOK
  <2>. QED  BY <1>2, <2>1, ClientTypes, Idle DEF ClientTest, TypeInv, TypeOK
<1>3. CASE \/ ServerStep
           \/ ServerKilled /\ UNCHANGED <<clientVars, outcomeVars>>
  BY <1>3, ServerTypes, Idle DEF ServerStep, outcomeVars, TypeInv, TypeOK
<1>4. CASE ServerRun
  <2>1. serverOutcome' \in [Ids -> Observations \cup {NoResult}] /\ UNCHANGED localOutcome
    BY <1>4, ResultsAssumption DEF ServerRun, TypeInv, TypeOK
  <2>. QED  BY <1>4, <2>1, ServerTypes, Idle DEF ServerRun, TypeInv, TypeOK
<1>5. CASE Cut /\ UNCHANGED <<serverVars, clientVars, outcomeVars>>
  BY <1>5, ChannelSteps, Idle DEF outcomeVars, TypeInv, TypeOK
<1>6. CASE UNCHANGED vars
  BY <1>6, Idle DEF vars, channelVars, outcomeVars, ChannelTypeOK, TypeInv, TypeOK
<1>7. CASE Fault
  BY <1>1, <1>3, <1>5, <1>7 DEF Fault
<1>8. CASE Finished
  BY <1>6, <1>8 DEF Finished
<1>9. CASE Next
  BY <1>1, <1>2, <1>3, <1>4, <1>7, <1>8, <1>9 DEF Next
<1>. QED  BY <1>6, <1>9

\* The types of every variable of run_server, run_client and execute_batch, in
\* every reachable state, for every plan, registry and set of outcomes.
THEOREM TypeCorrect == Spec => []TypeOK
<1>1. TypeInv => TypeOK
  BY DEF TypeInv
<1>. QED  BY TypeInit, TypeStep, <1>1, PTL DEF Spec

-----------------------------------------------------------------------------
(***************************************************************************)
(* The way of a test from the client's plan through the connection to the  *)
(* server's batch, and of its report back: no test is in two places, none  *)
(* is run by the server twice, and every report on its way is true.        *)
(***************************************************************************)
\* The places a test can be before the server runs it: not yet sent by the
\* client, being sent, in the connection, in the server's batch.
Unsent(id) ==
  \E b \in DOMAIN Plan : \E i \in DOMAIN Plan[b] :
    Plan[b][i].id = id /\ (b > bi \/ (b = bi /\ i > sent))
BeingSent(id) == cout.type = "test" /\ cout.entry.id = id
InTransit(id) ==
  \E k \in DOMAIN toServer : toServer[k].type = "test" /\ toServer[k].entry.id = id
InBatch(id) == \E i \in DOMAIN sbatch : sbatch[i].id = id

Fresh(id) == serverOutcome[id] = NoResult

OnePlace ==
  \A id \in Ids :
    /\ Unsent(id) => ~BeingSent(id) /\ ~InTransit(id) /\ ~InBatch(id)
    /\ BeingSent(id) => ~InTransit(id) /\ ~InBatch(id)
    /\ InTransit(id) => ~InBatch(id)

SentOnce ==
  \A k, l \in DOMAIN toServer :
    /\ toServer[k].type = "test" /\ toServer[l].type = "test"
    /\ toServer[k].entry.id = toServer[l].entry.id
    => k = l

CollectedOnce == \A i, j \in DOMAIN sbatch : sbatch[i].id = sbatch[j].id => i = j

NotYetRun ==
  /\ \A id \in Ids : Unsent(id) \/ BeingSent(id) \/ InTransit(id) => Fresh(id)
  /\ spc = "collect" => \A i \in DOMAIN sbatch : Fresh(sbatch[i].id)
  /\ \A i \in running : Fresh(sbatch[i].id)

FlowInv ==
  /\ OnePlace /\ SentOnce /\ CollectedOnce /\ NotYetRun
  /\ spc = "configure" => sbatch = <<>>

\* What a report on its way says is what the server observed.
Truthful(m) ==
  m.type = "report" =>
    /\ serverOutcome[m.id] \in Observations
    /\ m.body = protocol_result_to_report(serverOutcome[m.id])

ReportInv ==
  /\ \A k \in DOMAIN toClient : Truthful(toClient[k])
  /\ Truthful(sout)

-----------------------------------------------------------------------------
\* A queue after its first message is taken, and after one is added.
LEMMA QueueFacts ==
  ASSUME NEW S, NEW q \in Seq(S)
  PROVE  /\ q # <<>> =>
              /\ 1 \in DOMAIN q /\ Head(q) = q[1]
              /\ \A k \in DOMAIN Tail(q) : k + 1 \in DOMAIN q /\ Tail(q)[k] = q[k + 1] /\ k # 0
         /\ \A x : \A k \in DOMAIN Append(q, x) :
              \/ k \in DOMAIN q /\ Append(q, x)[k] = q[k]
              \/ k = Len(q) + 1 /\ k \notin DOMAIN q /\ Append(q, x)[k] = x
         /\ DOMAIN q = 1 .. Len(q) /\ Len(q) \in Nat
OBVIOUS

LEMMA FlowInit == Init => FlowInv /\ ReportInv
<1>. SUFFICES ASSUME Init PROVE FlowInv /\ ReportInv
  OBVIOUS
<1>1. toServer = <<>> /\ toClient = <<>> /\ sbatch = <<>> /\ running = {}
  BY DEF Init, ChannelInit, ServerInit
<1>2. cout.type # "test" /\ sout.type # "report"
  BY DEF Init, ClientInit, ServerInit, Nothing, Hello
<1>3. \A id \in Ids : Fresh(id)
  BY DEF Init, Fresh
<1>4. \A id \in Ids : ~BeingSent(id) /\ ~InTransit(id) /\ ~InBatch(id)
  BY <1>1, <1>2 DEF BeingSent, InTransit, InBatch
<1>5. FlowInv
  BY <1>1, <1>3, <1>4 DEF FlowInv, OnePlace, SentOnce, CollectedOnce, NotYetRun
<1>6. ReportInv
  BY <1>1, <1>2 DEF ReportInv, Truthful
<1>. QED  BY <1>5, <1>6

\* A step in which no test moves forward: tests may leave the connection or
\* the batch, and the server runs none.
LEMMA FlowShrinks ==
  ASSUME TypeOK, FlowInv,
         \A id \in Ids : /\ Unsent(id)' => Unsent(id)
                         /\ BeingSent(id)' => BeingSent(id),
         toServer' = toServer \/ ServerTakes,
         \/ sbatch' = sbatch /\ running' \subseteq running
         \/ sbatch' = <<>> /\ running' = {},
         spc' = "collect" => spc = "collect" \/ sbatch' = <<>>,
         spc' = "configure" => spc = "configure",
         serverOutcome' = serverOutcome
  PROVE  FlowInv'
<1>0. toServer \in Seq(Messages)
  BY DEF TypeOK, ChannelTypeOK
<1>1. \A k \in DOMAIN toServer' : \E l \in DOMAIN toServer :
        toServer'[k] = toServer[l] /\ (l = k \/ l = k + 1)
  BY <1>0, QueueFacts DEF ServerTakes
<1>2. \A id \in Ids : InTransit(id)' => InTransit(id)
  BY <1>1 DEF InTransit
<1>3. \A id \in Ids : InBatch(id)' => InBatch(id)
  BY DEF InBatch
<1>4. \A id \in Ids : Fresh(id)' = Fresh(id)
  BY DEF Fresh
<1>5. OnePlace'
  BY <1>2, <1>3 DEF FlowInv, OnePlace
<1>6. SentOnce'
  <2>1. CASE toServer' = toServer
    BY <2>1 DEF FlowInv, SentOnce
  <2>2. CASE ServerTakes
    <3>1. \A k \in DOMAIN toServer' :
            k \in Nat /\ k + 1 \in DOMAIN toServer /\ toServer'[k] = toServer[k + 1]
      BY <1>0, <2>2, QueueFacts DEF ServerTakes
    <3>. QED  BY <3>1 DEF FlowInv, SentOnce
  <2>. QED  BY <2>1, <2>2
<1>7. CollectedOnce'
  BY DEF FlowInv, CollectedOnce
<1>8. NotYetRun'
  <2>1. \A id \in Ids : (Unsent(id) \/ BeingSent(id) \/ InTransit(id))' => Fresh(id)'
    BY <1>2, <1>4 DEF FlowInv, NotYetRun
  <2>2. spc' = "collect" => \A i \in DOMAIN sbatch' : serverOutcome'[sbatch'[i].id] = NoResult
    BY DEF FlowInv, NotYetRun, Fresh
  <2>3. \A i \in running' : serverOutcome'[sbatch'[i].id] = NoResult
    BY DEF FlowInv, NotYetRun, Fresh
  <2>. QED  BY <2>1, <2>2, <2>3 DEF NotYetRun, Fresh
<1>9. spc' = "configure" => sbatch' = <<>>
  BY DEF FlowInv
<1>. QED  BY <1>5, <1>6, <1>7, <1>8, <1>9 DEF FlowInv

-----------------------------------------------------------------------------
\* The client's steps.  execute_batch takes the tests of its batch in order;
\* a message that has been sent, or is lost, is no longer being sent.
LEMMA FlowClient ==
  ASSUME TypeInv, FlowInv, UNCHANGED <<serverVars, outcomeVars>>,
         ClientStep \/ ClientKilled \/ ClientReportTimeout
  PROVE  FlowInv'
<1>. USE DEF TypeInv
<1>0. UNCHANGED <<spc, sbatch, running, serverOutcome>>
  BY DEF serverVars, outcomeVars
<1>1. CASE \/ ClientLosesChannel \/ ClientKilled \/ ClientReportTimeout
           \/ ClientHello \/ ClientAck \/ ClientReport \/ ClientBye
           \/ ClientSendBatchEnd \/ ClientAwaitsReports
  <2>1. UNCHANGED <<toServer, bi, sent>>
    BY <1>1 DEF ClientLosesChannel, ClientKilled, ClientReportTimeout, ClientHello,
         ClientAck, ClientReport, ClientBye, ClientSendBatchEnd, ClientAwaitsReports, channelVars
  <2>2. cout' = cout \/ cout'.type # "test"
    BY <1>1 DEF ClientLosesChannel, ClientKilled, ClientReportTimeout, ClientHello,
         ClientAck, ClientReport, ClientBye, ClientSendBatchEnd, ClientAwaitsReports,
         ClientReturns, Nothing, Configure, BatchEnd
  <2>3. \A id \in Ids : /\ Unsent(id)' => Unsent(id)
                        /\ BeingSent(id)' => BeingSent(id)
    BY <2>1, <2>2 DEF Unsent, BeingSent
  <2>. QED  BY <1>0, <2>1, <2>3, FlowShrinks
<1>2. CASE ClientTally
  <2>1. bi' = bi + 1 /\ sent' = 0 /\ toServer' = toServer /\ bi \in DOMAIN Plan
    BY <1>2 DEF ClientTally, channelVars, ClientAt
  <2>2. cout' = cout \/ cout'.type # "test"
    BY <1>2 DEF ClientTally, Done
  <2>3. \A id \in Ids : Unsent(id)' => Unsent(id)
    BY <2>1, PlanFacts DEF Unsent
  <2>4. \A id \in Ids : BeingSent(id)' => BeingSent(id)
    BY <2>2 DEF BeingSent
  <2>. QED  BY <1>0, <2>1, <2>3, <2>4, FlowShrinks
<1>3. CASE ClientSendTest
  <2>1. /\ bi \in DOMAIN Plan /\ sent + 1 \in DOMAIN Plan[bi]
        /\ sent' = sent + 1 /\ bi' = bi /\ toServer' = toServer
        /\ cout' = Test(Plan[bi][sent + 1]) /\ sent \in Nat
    BY <1>3, PlanFacts
       DEF ClientSendTest, ClientAt, TypeOK, ClientTypeOK, batch, channelVars
  <2>. DEFINE new == Plan[bi][sent + 1].id
  <2>2. new \in Ids /\ Unsent(new)
    BY <2>1, PlanFacts DEF Unsent
  <2>3. \A id \in Ids : BeingSent(id)' <=> id = new
    BY <2>1 DEF BeingSent, Test
  <2>4. \A id \in Ids : Unsent(id)' => Unsent(id) /\ id # new
    BY <2>1, PlanFacts DEF Unsent
  <2>5. \A id \in Ids : /\ InTransit(id)' = InTransit(id)
                        /\ InBatch(id)' = InBatch(id)
                        /\ Fresh(id)' = Fresh(id)
    BY <1>0, <2>1 DEF InTransit, InBatch, Fresh
  <2>6. OnePlace'
    BY <2>2, <2>3, <2>4, <2>5 DEF FlowInv, OnePlace
  <2>7. SentOnce' /\ CollectedOnce'
    BY <1>0, <2>1 DEF FlowInv, SentOnce, CollectedOnce
  <2>8. NotYetRun'
    <3>1. \A id \in Ids : (Unsent(id) \/ BeingSent(id) \/ InTransit(id))' => Fresh(id)'
      BY <2>2, <2>3, <2>4, <2>5 DEF FlowInv, NotYetRun
    <3>. QED  BY <1>0, <3>1 DEF FlowInv, NotYetRun, Fresh
  <2>. QED  BY <1>0, <2>6, <2>7, <2>8 DEF FlowInv
<1>4. CASE ClientFlush
  <2>1. UNCHANGED <<bi, sent>> /\ cout' = Nothing /\ cout \in Messages
    BY <1>4 DEF ClientFlush, TypeOK, ClientTypeOK
  <2>2. \A id \in Ids : Unsent(id)' = Unsent(id) /\ ~BeingSent(id)'
    BY <2>1 DEF Unsent, BeingSent, Nothing
  <2>3. CASE toServer' = toServer
    BY <1>0, <2>2, <2>3, FlowShrinks
  <2>4. CASE toServer' = Append(toServer, cout)
    <3>0. toServer \in Seq(Messages)
      BY DEF TypeOK, ChannelTypeOK
    <3>1. \A k \in DOMAIN toServer' :
            \/ k \in DOMAIN toServer /\ toServer'[k] = toServer[k]
            \/ k = Len(toServer) + 1 /\ k \notin DOMAIN toServer /\ toServer'[k] = cout
      BY <2>4, <3>0, QueueFacts
    <3>2. \A id \in Ids : InTransit(id)' => InTransit(id) \/ BeingSent(id)
      BY <3>1 DEF InTransit, BeingSent
    <3>3. \A id \in Ids : InBatch(id)' = InBatch(id) /\ Fresh(id)' = Fresh(id)
      BY <1>0 DEF InBatch, Fresh
    <3>4. OnePlace'
      BY <2>2, <3>2, <3>3 DEF FlowInv, OnePlace
    <3>5. SentOnce'
      <4>1. \A k \in DOMAIN toServer :
              toServer[k].type = "test" => toServer[k].entry.id \in Ids
        BY <3>0, ElementOfSeq, MessageFields, PlanFacts
      <4>2. \A k \in DOMAIN toServer :
              ~ /\ toServer[k].type = "test" /\ cout.type = "test"
                /\ toServer[k].entry.id = cout.entry.id
        BY <4>1 DEF FlowInv, OnePlace, InTransit, BeingSent
      <4>. QED  BY <3>1, <4>2 DEF FlowInv, SentOnce
    <3>6. CollectedOnce'
      BY <1>0 DEF FlowInv, CollectedOnce
    <3>7. NotYetRun'
      <4>1. \A id \in Ids : (Unsent(id) \/ BeingSent(id) \/ InTransit(id))' => Fresh(id)'
        BY <2>2, <3>2, <3>3 DEF FlowInv, NotYetRun
      <4>. QED  BY <1>0, <4>1 DEF FlowInv, NotYetRun, Fresh
    <3>. QED  BY <1>0, <3>4, <3>5, <3>6, <3>7 DEF FlowInv
  <2>. QED  BY <1>4, <2>3, <2>4 DEF ClientFlush, ClientSends
<1>. QED  BY <1>1, <1>2, <1>3, <1>4 DEF ClientStep

\* The server's steps.  A test that is taken from the connection joins the
\* batch or ends the session; a batch is started and cleared as a whole; a
\* test that ends was running, so it is nowhere on its way.
LEMMA FlowServer ==
  ASSUME TypeInv, FlowInv, UNCHANGED clientVars,
         \/ ServerStep
         \/ ServerRun
         \/ ServerKilled /\ UNCHANGED outcomeVars
  PROVE  FlowInv'
<1>. USE DEF TypeInv
<1>0. \A id \in Ids : Unsent(id)' = Unsent(id) /\ BeingSent(id)' = BeingSent(id)
  BY DEF clientVars, Unsent, BeingSent
<1>00. toServer \in Seq(Messages) /\ sbatch \in Seq(Entries) /\ running \subseteq DOMAIN sbatch
  BY DEF TypeOK, ChannelTypeOK, ServerTypeOK
<1>1. CASE /\ serverOutcome' = serverOutcome
           /\ \/ ServerFlush \/ ServerEnds \/ ServerLosesChannel
              \/ ServerKilled \/ ServerConfigure \/ ServerBatchOver
  <2>1. CASE ServerFlush \/ ServerEnds \/ ServerLosesChannel \/ ServerKilled \/ ServerConfigure
    <3>1. sbatch' = sbatch /\ running' \subseteq running
      BY <2>1 DEF ServerFlush, ServerEnds, ServerLosesChannel, ServerKilled, ServerConfigure,
           ServerReturns
    <3>2. toServer' = toServer \/ ServerTakes
      <4>1. CASE ServerFlush
        BY <4>1 DEF ServerFlush, ServerSends
      <4>. QED  BY <2>1, <4>1 DEF ServerEnds, ServerLosesChannel, ServerKilled, ServerConfigure
    <3>3. /\ spc' = "collect" => spc = "collect" \/ sbatch' = <<>>
          /\ spc' = "configure" => spc = "configure"
      BY <2>1, <3>1 DEF ServerFlush, ServerEnds, ServerLosesChannel, ServerKilled, ServerConfigure,
           ServerReturns, FlowInv
    <3>. QED  BY <1>0, <1>1, <3>1, <3>2, <3>3, FlowShrinks
  <2>2. CASE ServerBatchOver
    <3>1. /\ sbatch' = <<>> /\ running' = {} /\ toServer' = toServer
          /\ spc' # "configure"
      BY <2>2 DEF ServerBatchOver, BatchDone, channelVars
    <3>. QED  BY <1>0, <1>1, <3>1, FlowShrinks
  <2>. QED  BY <1>1, <2>1, <2>2
<1>2. CASE ServerTest /\ serverOutcome' = serverOutcome
  <2>. DEFINE entry == Head(toServer).entry
  <2>1. /\ spc = "collect" /\ ServerTakes /\ Head(toServer).type = "test"
        /\ toServer # <<>> /\ toServer' = Tail(toServer)
    BY <1>2 DEF ServerTest, ServerTakes
  <2>2. CASE ~(~BatchFull /\ Runnable(entry))
    <3>1. sbatch' = sbatch /\ running' = {} /\ spc' = "err"
      BY <1>2, <2>2 DEF ServerTest, ServerReturns
    <3>. QED  BY <1>0, <1>2, <2>1, <3>1, FlowShrinks
  <2>3. CASE ~BatchFull /\ Runnable(entry)
    <3>1. sbatch' = Append(sbatch, entry) /\ spc' = spc /\ running' = running
      BY <1>2, <2>3 DEF ServerTest
    <3>2. entry \in Entries /\ entry.id \in Ids /\ InTransit(entry.id)
      <4>1. Head(toServer) \in Messages /\ toServer[1] = Head(toServer) /\ 1 \in DOMAIN toServer
        BY <1>00, <2>1, HeadTailProperties, QueueFacts
      <4>. QED  BY <2>1, <4>1, MessageFields, PlanFacts DEF InTransit
    <3>3. \A k \in DOMAIN toServer' :
            k \in Nat /\ k # 0 /\ k + 1 \in DOMAIN toServer /\ toServer'[k] = toServer[k + 1]
      BY <1>00, <2>1, QueueFacts
    <3>4. \A id \in Ids : InTransit(id)' => InTransit(id) /\ id # entry.id
      <4>1. \A k \in DOMAIN toServer' :
              toServer'[k].type = "test" => toServer'[k].entry.id # entry.id
        <5>1. 1 \in DOMAIN toServer /\ Head(toServer) = toServer[1]
          BY <1>00, <2>1, QueueFacts
        <5>. QED  BY <2>1, <3>3, <5>1 DEF FlowInv, SentOnce
      <4>. QED  BY <3>3, <4>1 DEF InTransit
    <3>5. \A i \in DOMAIN sbatch' :
            \/ i \in DOMAIN sbatch /\ sbatch'[i] = sbatch[i]
            \/ i = Len(sbatch) + 1 /\ i \notin DOMAIN sbatch /\ sbatch'[i] = entry
      BY <1>00, <3>1, QueueFacts
    <3>6. \A id \in Ids : /\ InBatch(id)' => InBatch(id) \/ id = entry.id
                          /\ Fresh(id)' = Fresh(id)
      BY <1>2, <3>5 DEF InBatch, Fresh
    <3>7. OnePlace'
      BY <1>0, <3>2, <3>4, <3>6 DEF FlowInv, OnePlace
    <3>8. SentOnce'
      BY <3>3 DEF FlowInv, SentOnce
    <3>9. CollectedOnce'
      <4>1. \A i \in DOMAIN sbatch : sbatch[i].id # entry.id
        BY <3>2 DEF FlowInv, OnePlace, InBatch
      <4>. QED  BY <3>5, <4>1 DEF FlowInv, CollectedOnce
    <3>10. NotYetRun'
      <4>1. \A id \in Ids : (Unsent(id) \/ BeingSent(id) \/ InTransit(id))' => Fresh(id)'
        BY <1>0, <3>4, <3>6 DEF FlowInv, NotYetRun
      <4>2. Fresh(entry.id)
        BY <3>2 DEF FlowInv, NotYetRun
      <4>3. \A i \in DOMAIN sbatch' : serverOutcome'[sbatch'[i].id] = NoResult
        BY <1>2, <2>1, <3>5, <4>2 DEF FlowInv, NotYetRun, Fresh
      <4>4. running' \subseteq DOMAIN sbatch'
        BY <1>00, <3>1
      <4>. QED  BY <4>1, <4>3, <4>4 DEF NotYetRun, Fresh
    <3>. QED  BY <2>1, <3>1, <3>7, <3>8, <3>9, <3>10 DEF FlowInv
  <2>. QED  BY <2>2, <2>3
<1>3. CASE ServerBatchEnd /\ serverOutcome' = serverOutcome
  <2>1. spc = "collect" /\ ServerTakes /\ sbatch' = sbatch
    BY <1>3 DEF ServerBatchEnd
  <2>2. CASE running' \subseteq running /\ spc' \notin {"collect", "configure"}
    BY <1>0, <1>3, <2>1, <2>2, FlowShrinks
  <2>3. CASE spc' = "run" /\ running' = DOMAIN sbatch
    <3>1. \A k \in DOMAIN toServer' :
            k \in Nat /\ k + 1 \in DOMAIN toServer /\ toServer'[k] = toServer[k + 1]
      BY <1>00, <2>1, QueueFacts DEF ServerTakes
    <3>2. \A id \in Ids : /\ InTransit(id)' => InTransit(id)
                          /\ InBatch(id)' = InBatch(id)
                          /\ Fresh(id)' = Fresh(id)
      BY <1>3, <2>1, <3>1 DEF InTransit, InBatch, Fresh
    <3>3. OnePlace'
      BY <1>0, <3>2 DEF FlowInv, OnePlace
    <3>4. SentOnce' /\ CollectedOnce'
      BY <2>1, <3>1 DEF FlowInv, SentOnce, CollectedOnce
    <3>5. NotYetRun'
      <4>1. \A id \in Ids : (Unsent(id) \/ BeingSent(id) \/ InTransit(id))' => Fresh(id)'
        BY <1>0, <3>2 DEF FlowInv, NotYetRun
      <4>. QED  BY <1>3, <2>1, <2>3, <4>1 DEF FlowInv, NotYetRun, Fresh
    <3>. QED  BY <2>3, <3>3, <3>4, <3>5 DEF FlowInv
  <2>. QED  BY <1>3, <2>1, <2>2, <2>3 DEF ServerBatchEnd, ServerReturns
<1>4. CASE ServerRun
  <2>. PICK i \in DOMAIN sbatch, r \in Results :
         /\ ServerTestEnds(i, r)
         /\ serverOutcome' = [serverOutcome EXCEPT ![sbatch[i].id] = r]
    BY <1>4 DEF ServerRun
  <2>1. /\ i \in running /\ running' = running \ {i} /\ spc = "run"
        /\ UNCHANGED <<toServer, spc, sbatch>>
    BY DEF ServerTestEnds, channelVars
  <2>2. \A id \in Ids : InTransit(id)' = InTransit(id) /\ InBatch(id)' = InBatch(id)
    BY <2>1 DEF InTransit, InBatch
  <2>3. \A id \in Ids : id # sbatch[i].id => Fresh(id)' = Fresh(id)
    BY DEF Fresh, TypeOK
  <2>4. OnePlace' /\ SentOnce' /\ CollectedOnce'
    BY <1>0, <2>1, <2>2 DEF FlowInv, OnePlace, SentOnce, CollectedOnce
  <2>5. NotYetRun'
    <3>1. InBatch(sbatch[i].id)
      BY DEF InBatch
    <3>2. \A id \in Ids : (Unsent(id) \/ BeingSent(id) \/ InTransit(id))' => Fresh(id)'
      BY <1>0, <2>2, <2>3, <3>1 DEF FlowInv, OnePlace, NotYetRun
    <3>3. \A j \in running : j # i => sbatch[j].id # sbatch[i].id /\ sbatch[j].id \in Ids
      BY <1>00, PlanFacts, ElementOfSeq DEF FlowInv, CollectedOnce
    <3>4. \A j \in running' : Fresh(sbatch[j].id)'
      BY <2>1, <2>3, <3>3 DEF FlowInv, NotYetRun
    <3>. QED  BY <2>1, <3>2, <3>4 DEF NotYetRun, Fresh
  <2>. QED  BY <2>1, <2>4, <2>5 DEF FlowInv
<1>. QED  BY <1>1, <1>2, <1>3, <1>4 DEF ServerStep, outcomeVars

LEMMA FlowStep == TypeInv /\ FlowInv /\ [Next]_vars => FlowInv'
<1>. SUFFICES ASSUME TypeInv, FlowInv, [Next]_vars PROVE FlowInv'
  OBVIOUS
<1>1. CASE \/ ClientStep
           \/ ClientReportTimeout /\ UNCHANGED <<serverVars, outcomeVars>>
           \/ ClientKilled /\ UNCHANGED <<serverVars, outcomeVars>>
  BY <1>1, FlowClient DEF ClientStep
<1>2. CASE \/ ServerStep \/ ServerRun
           \/ ServerKilled /\ UNCHANGED <<clientVars, outcomeVars>>
  BY <1>2, FlowServer DEF ServerStep, ServerRun
<1>3. CASE /\ UNCHANGED <<toServer, serverVars, cout, bi, sent, serverOutcome>>
  <2>1. UNCHANGED <<toServer, sbatch, running, spc, cout, bi, sent, serverOutcome>>
    BY <1>3 DEF serverVars
  <2>2. \A id \in Ids : Unsent(id)' = Unsent(id) /\ BeingSent(id)' = BeingSent(id)
    BY <2>1 DEF Unsent, BeingSent
  <2>. QED  BY <2>1, <2>2, FlowShrinks DEF TypeInv
<1>4. CASE ClientTest
  BY <1>3, <1>4 DEF ClientTest, ClientTestEnds, channelVars
<1>5. CASE Cut /\ UNCHANGED <<serverVars, clientVars, outcomeVars>>
  BY <1>3, <1>5 DEF Cut, clientVars, outcomeVars
<1>6. CASE UNCHANGED vars
  BY <1>3, <1>6 DEF vars, channelVars, clientVars, outcomeVars
<1>7. CASE Fault
  BY <1>1, <1>2, <1>5, <1>7 DEF Fault
<1>8. CASE Finished
  BY <1>6, <1>8 DEF Finished
<1>9. CASE Next
  BY <1>1, <1>2, <1>4, <1>7, <1>8, <1>9 DEF Next
<1>. QED  BY <1>6, <1>9

-----------------------------------------------------------------------------
\* What the server observes of a test, it observes once: the report arm of
\* run_server and the reports on their way speak of the same observation.
LEMMA RunOnce ==
  ASSUME TypeInv, FlowInv, [Next]_vars
  PROVE  \A id \in Ids : serverOutcome[id] # NoResult => serverOutcome'[id] = serverOutcome[id]
<1>1. CASE ServerRun
  <2>. PICK i \in DOMAIN sbatch, r \in Results :
         /\ ServerTestEnds(i, r)
         /\ serverOutcome' = [serverOutcome EXCEPT ![sbatch[i].id] = r]
    BY <1>1 DEF ServerRun
  <2>1. serverOutcome[sbatch[i].id] = NoResult
    BY DEF ServerTestEnds, FlowInv, NotYetRun, Fresh
  <2>. QED  BY <2>1 DEF TypeInv, TypeOK
<1>2. CASE serverOutcome' = serverOutcome
  BY <1>2
<1>. QED
  BY <1>1, <1>2 DEF Next, ClientStep, ClientTest, ServerStep, Fault, Finished, vars, outcomeVars

LEMMA ReportStep == TypeInv /\ FlowInv /\ ReportInv /\ [Next]_vars => ReportInv'
<1>. SUFFICES ASSUME TypeInv, FlowInv, ReportInv, [Next]_vars PROVE ReportInv'
  OBVIOUS
<1>0. /\ toClient \in Seq(Messages) /\ sout \in Messages \cup {Nothing}
      /\ sbatch \in Seq(Entries)
  BY DEF TypeInv, TypeOK, ChannelTypeOK, ServerTypeOK
<1>1. \A m \in Messages \cup {Nothing} : Truthful(m) => Truthful(m)'
  <2>. SUFFICES ASSUME NEW m \in Messages, m.type = "report", Truthful(m)
                PROVE  Truthful(m)'
    BY DEF Truthful, Nothing
  <2>1. m.id \in Ids /\ serverOutcome[m.id] \in Observations
    BY MessageFields DEF Truthful
  <2>2. serverOutcome'[m.id] = serverOutcome[m.id]
    BY <2>1, RunOnce, VerdictTypes
  <2>. QED  BY <2>2 DEF Truthful
\* The client's messages and the server's others are not reports.
<1>2. \/ sout' = sout
      \/ sout'.type # "report"
      \/ ServerRun
  <2>1. CASE ServerStep
    BY <2>1 DEF ServerStep, ServerFlush, ServerEnds, ServerLosesChannel, ServerConfigure,
         ServerTest, ServerBatchEnd, ServerBatchOver, ServerReturns, Nothing, Ack, Bye
  <2>2. CASE ServerKilled
    BY <2>2 DEF ServerKilled, ServerReturns, Nothing
  <2>3. CASE UNCHANGED serverVars
    BY <2>3 DEF serverVars
  <2>. QED
    BY <2>1, <2>2, <2>3 DEF Next, ClientStep, ClientTest, Fault, Finished, vars
<1>3. Truthful(sout)'
  <2>1. CASE sout' = sout
    BY <1>0, <1>1, <2>1 DEF ReportInv, Truthful
  <2>2. CASE sout'.type # "report"
    BY <2>2 DEF Truthful
  <2>3. CASE ServerRun
    <3>. PICK i \in DOMAIN sbatch, r \in Results :
           /\ ServerTestEnds(i, r)
           /\ serverOutcome' = [serverOutcome EXCEPT ![sbatch[i].id] = r]
      BY <2>3 DEF ServerRun
    <3>1. sbatch[i].id \in Ids /\ r \in Observations
      BY <1>0, ElementOfSeq, PlanFacts, ResultsAssumption
    <3>2. serverOutcome'[sbatch[i].id] = r
      BY <3>1 DEF TypeInv, TypeOK
    <3>3. sout' = Report(sbatch[i].id, protocol_result_to_report(r))
      BY DEF ServerTestEnds
    <3>. QED  BY <3>1, <3>2, <3>3 DEF Truthful, Report
  <2>. QED  BY <1>2, <2>1, <2>2, <2>3
<1>4. \/ toClient' = toClient
      \/ ClientTakes
      \/ sout # Nothing /\ toClient' = Append(toClient, sout)
  <2>1. CASE ServerStep
    BY <2>1 DEF ServerStep, ServerFlush, ServerEnds, ServerLosesChannel, ServerConfigure,
         ServerTest, ServerBatchEnd, ServerBatchOver, ServerSends, channelVars
  <2>2. CASE ClientStep
    BY <2>2 DEF ClientStep, ClientFlush, ClientLosesChannel, ClientHello, ClientAck,
         ClientSendTest, ClientSendBatchEnd, ClientAwaitsReports, ClientReport, ClientTally,
         ClientBye, ClientSends, channelVars
  <2>3. CASE ClientTest \/ ServerRun \/ Fault \/ Finished
    BY <2>3 DEF ClientTest, ClientTestEnds, ServerRun, ServerTestEnds, Fault, Finished, Cut,
         ClientKilled, ServerKilled, ClientReportTimeout, channelVars, vars
  <2>. QED  BY <2>1, <2>2, <2>3 DEF Next, vars, channelVars
<1>5. \A k \in DOMAIN toClient' :
        \/ toClient'[k] = sout /\ sout # Nothing
        \/ \E l \in DOMAIN toClient : toClient'[k] = toClient[l]
  <2>1. CASE ClientTakes
    BY <1>0, <2>1, QueueFacts DEF ClientTakes
  <2>2. CASE sout # Nothing /\ toClient' = Append(toClient, sout)
    BY <1>0, <2>2, QueueFacts
  <2>. QED  BY <1>4, <2>1, <2>2
<1>6. (\A k \in DOMAIN toClient : Truthful(toClient[k]))'
  <2>1. \A l \in DOMAIN toClient : toClient[l] \in Messages /\ Truthful(toClient[l])
    BY <1>0, ElementOfSeq DEF ReportInv
  <2>2. \A k \in DOMAIN toClient' :
          toClient'[k] \in Messages \cup {Nothing} /\ Truthful(toClient'[k])
    BY <1>0, <1>5, <2>1 DEF ReportInv
  <2>3. \A m \in Messages \cup {Nothing} : Truthful(m) =>
          (m.type = "report" =>
             /\ serverOutcome'[m.id] \in Observations
             /\ m.body = protocol_result_to_report(serverOutcome'[m.id]))
    BY <1>1 DEF Truthful
  <2>. QED  BY <2>2, <2>3 DEF Truthful
<1>. QED  BY <1>3, <1>6 DEF ReportInv

-----------------------------------------------------------------------------
\* Both ends have run a test.
BothObserved(id) == localOutcome[id] \in Observations /\ serverOutcome[id] \in Observations

\* The verdict of a test, as execute_batch computes it.
Combined(id) == Combine(localOutcome[id], serverOutcome[id])

Judged(v) ==
  /\ v.entry \in Entries
  /\ BothObserved(v.entry.id)
  /\ v.result = Combined(v.entry.id)
  /\ v.server_error = serverOutcome[v.entry.id].reason

\* No test of a batch to come has been run by the client.
FutureUntouched ==
  \A b \in DOMAIN Plan : \A i \in DOMAIN Plan[b] :
    b > bi => localOutcome[Plan[b][i].id] = NoResult

\* Until reports are read, the client holds what it observed.
HoldsLocal ==
  cpc \in {"hello", "ack", "send", "local"} =>
    \A id \in BatchIds : completed[id] = localOutcome[id]

\* A report that has been read is reconciled with the client's observation.
HoldsReported ==
  cpc = "reports" =>
    \A id \in BatchIds :
      /\ localOutcome[id] \in Observations
      /\ id \in expected => completed[id] = localOutcome[id]
      /\ id \notin expected =>
           /\ serverOutcome[id] \in Observations
           /\ completed[id] = Combined(id)
           /\ serverErrors[id] = serverOutcome[id].reason

EmittedJudged == \A k \in DOMAIN results : Judged(results[k])

\* As long as nothing but passes has been counted, all tests of the batches
\* that are over have passed at both ends.
CountsTrue ==
  counts["fail"] = 0 /\ counts["error"] = 0 =>
    \A b \in DOMAIN Plan : b < bi =>
      \A i \in DOMAIN Plan[b] :
        localOutcome[Plan[b][i].id] = Pass /\ serverOutcome[Plan[b][i].id] = Pass

VerdictInv ==
  /\ FutureUntouched /\ HoldsLocal /\ HoldsReported
  /\ EmittedJudged /\ CountsTrue

IInv == TypeInv /\ FlowInv /\ ReportInv /\ VerdictInv

-----------------------------------------------------------------------------
\* execute_batch's reconciliation of two observations: a pass needs two, an
\* error comes from an end that reported one, the server's reason is taken
\* over only for a local pass.
LEMMA CombineFacts ==
  ASSUME NEW l \in Observations, NEW r \in Observations
  PROVE  /\ Combine(l, r).status = "pass" <=> l = Pass /\ r = Pass
         /\ Combine(l, r).status = "error" =>
              l.status = "error" \/ (l = Pass /\ r.status = "error")
         /\ IF Combine(l, r).relayed THEN l = Pass /\ Combine(l, r).reason = r.reason
                                     ELSE Combine(l, r) = l
         /\ Combine(l, r).status \in Statuses
<1>. USE DEF Observed
<1>1. /\ Pass.status = "pass" /\ Pass.reason = NoReason /\ Pass.relayed = FALSE
      /\ \A x \in Reasons :
           /\ Fail(x).status = "fail" /\ Fail(x).reason = x /\ Fail(x).relayed = FALSE
           /\ Error(x).status = "error" /\ Error(x).reason = x /\ Error(x).relayed = FALSE
           /\ x # NoReason
  BY ReasonsAssumption DEF Pass, Fail, Error
<1>2. \A o \in Observations :
        /\ o.status = "pass" <=> o = Pass
        /\ o.reason = NoReason <=> o = Pass
        /\ o.relayed = FALSE /\ o.status \in Statuses
  BY <1>1 DEF Observations, Statuses
<1>3. CASE r.reason = NoReason \/ l.status # "pass"
  <2>1. Combine(l, r) = l
    BY <1>3 DEF Combine, Reconcile, protocol_result_to_report
  <2>. QED  BY <1>2, <1>3, <2>1
<1>4. CASE ~(r.reason = NoReason \/ l.status # "pass")
  <2>1. Combine(l, r) = [status  |-> IF r.status # "error" THEN "fail" ELSE "error",
                         reason  |-> r.reason,
                         relayed |-> TRUE]
    BY <1>4 DEF Combine, Reconcile, protocol_result_to_report
  <2>. QED  BY <1>2, <1>4, <2>1 DEF Statuses
<1>. QED  BY <1>3, <1>4

LEMMA VerdictInit == Init => VerdictInv
<1>. SUFFICES ASSUME Init PROVE VerdictInv
  OBVIOUS
<1>1. /\ cpc = "hello" /\ bi = 1 /\ results = <<>>
      /\ completed = [id \in Ids |-> NoResult] /\ localOutcome = [id \in Ids |-> NoResult]
  BY DEF Init, ClientInit
<1>2. FutureUntouched
  BY <1>1, PlanFacts DEF FutureUntouched
<1>3. HoldsLocal /\ HoldsReported
  BY <1>1 DEF HoldsLocal, HoldsReported
<1>4. EmittedJudged /\ CountsTrue
  BY <1>1, PlanFacts DEF EmittedJudged, CountsTrue
<1>. QED  BY <1>2, <1>3, <1>4 DEF VerdictInv

\* A step that leaves the client's verdict state alone, whatever it does to
\* the channel and to the tests the server has not run before.
LEMMA VerdictQuiet ==
  ASSUME TypeInv, VerdictInv,
         UNCHANGED <<bi, completed, expected, serverErrors, counts, results, localOutcome>>,
         \A id \in Ids : serverOutcome[id] # NoResult => serverOutcome'[id] = serverOutcome[id],
         \/ cpc' = cpc
         \/ cpc' \in {"ack", "send", "local"} /\ cpc \in {"hello", "ack", "send", "local"}
         \/ cpc' \in {"bye", "ok", "err", "killed"}
  PROVE  VerdictInv'
<1>. USE DEF TypeInv
<1>0. BatchIds' = BatchIds /\ NoResult \notin Observations
  BY VerdictTypes DEF BatchIds, batch
<1>1. FutureUntouched'
  BY DEF VerdictInv, FutureUntouched
<1>2. HoldsLocal'
  BY <1>0 DEF VerdictInv, HoldsLocal
<1>3. HoldsReported'
  <2>. SUFFICES ASSUME cpc = "reports", cpc' = "reports", NEW id \in BatchIds
                PROVE  /\ localOutcome[id] \in Observations
                       /\ id \in expected => completed[id] = localOutcome[id]
                       /\ id \notin expected =>
                            /\ serverOutcome'[id] \in Observations
                            /\ completed[id] = Combined(id)'
                            /\ serverErrors[id] = serverOutcome'[id].reason
    BY <1>0 DEF HoldsReported
  <2>1. id \in Ids
    BY PlanFacts DEF ClientAt, BatchIds, batch
  <2>2. serverOutcome[id] \in Observations => serverOutcome'[id] = serverOutcome[id]
    BY <1>0, <2>1
  <2>. QED  BY <2>2 DEF VerdictInv, HoldsReported, Combined
<1>4. EmittedJudged'
  <2>. SUFFICES ASSUME NEW k \in DOMAIN results
                PROVE  Judged(results[k])'
    BY DEF EmittedJudged
  <2>1. Judged(results[k])
    BY DEF VerdictInv, EmittedJudged
  <2>2. results[k].entry.id \in Ids
    BY <2>1, PlanFacts DEF Judged
  <2>3. serverOutcome'[results[k].entry.id] = serverOutcome[results[k].entry.id]
    BY <1>0, <2>1, <2>2 DEF Judged, BothObserved
  <2>. QED  BY <2>1, <2>3 DEF Judged, BothObserved, Combined
<1>5. CountsTrue'
  <2>1. \A id \in Ids : serverOutcome[id] = Pass => serverOutcome'[id] = Pass
    BY <1>0 DEF Observations
  <2>. QED  BY <2>1, PlanFacts DEF VerdictInv, CountsTrue
<1>. QED  BY <1>1, <1>2, <1>3, <1>4, <1>5 DEF VerdictInv

\* A local test ends: it is of the current batch, and had not ended before.
LEMMA VerdictLocal ==
  ASSUME TypeInv, VerdictInv, ClientTest
  PROVE  VerdictInv'
<1>. USE DEF TypeInv
<1>. PICK id \in Ids, r \in Results :
       /\ ClientTestEnds(id, r)
       /\ localOutcome' = [localOutcome EXCEPT ![id] = r]
       /\ UNCHANGED <<serverVars, serverOutcome>>
  BY DEF ClientTest
<1>1. /\ cpc = "local" /\ id \in BatchIds /\ completed[id] = NoResult
      /\ completed' = [completed EXCEPT ![id] = r]
      /\ UNCHANGED <<cpc, bi, expected, serverErrors, counts, results>>
  BY DEF ClientTestEnds, Pending
<1>2. localOutcome[id] = NoResult /\ bi \in DOMAIN Plan
  BY <1>1 DEF VerdictInv, HoldsLocal, ClientAt
<1>3. /\ localOutcome'[id] = r /\ completed'[id] = r
      /\ \A x \in Ids : x # id => localOutcome'[x] = localOutcome[x]
                                  /\ completed'[x] = completed[x]
  BY <1>1 DEF TypeOK, ClientTypeOK
<1>4. BatchIds' = BatchIds /\ BatchIds \subseteq Ids
  BY <1>1, <1>2, PlanFacts DEF BatchIds, batch
<1>5. FutureUntouched'
  <2>1. \A b \in DOMAIN Plan : \A i \in DOMAIN Plan[b] :
          b > bi => Plan[b][i].id # id /\ Plan[b][i].id \in Ids
    BY <1>1, <1>2, PlanFacts DEF BatchIds, batch
  <2>. QED  BY <1>1, <1>3, <2>1 DEF VerdictInv, FutureUntouched
<1>6. HoldsLocal' /\ HoldsReported'
  BY <1>1, <1>3, <1>4 DEF VerdictInv, HoldsLocal, HoldsReported
<1>7. EmittedJudged'
  <2>. SUFFICES ASSUME NEW k \in DOMAIN results
                PROVE  Judged(results[k])'
    BY <1>1 DEF EmittedJudged
  <2>1. Judged(results[k])
    BY DEF VerdictInv, EmittedJudged
  <2>2. results[k].entry.id \in Ids /\ results[k].entry.id # id
    BY <1>2, <2>1, PlanFacts, VerdictTypes DEF Judged, BothObserved
  <2>3. localOutcome'[results[k].entry.id] = localOutcome[results[k].entry.id]
    BY <1>3, <2>2
  <2>. QED  BY <1>1, <2>1, <2>3 DEF Judged, BothObserved, Combined
<1>8. CountsTrue'
  <2>1. \A x \in Ids : localOutcome[x] = Pass => localOutcome'[x] = Pass
    BY <1>2, <1>3, VerdictTypes DEF Observations
  <2>. QED  BY <1>1, <2>1, PlanFacts DEF VerdictInv, CountsTrue
<1>. QED  BY <1>5, <1>6, <1>7, <1>8 DEF VerdictInv

\* All local tests have ended: every one of the batch has been observed.
LEMMA VerdictAwaits ==
  ASSUME TypeInv, VerdictInv, ClientAwaitsReports, UNCHANGED outcomeVars
  PROVE  VerdictInv'
<1>. USE DEF TypeInv
<1>1. /\ cpc = "local" /\ cpc' = "reports" /\ expected' = BatchIds
      /\ \A id \in BatchIds : completed[id] # NoResult
      /\ UNCHANGED <<bi, completed, serverErrors, counts, results, localOutcome, serverOutcome>>
  BY DEF ClientAwaitsReports, Pending, outcomeVars
<1>2. BatchIds' = BatchIds /\ BatchIds \subseteq Ids
  BY <1>1, PlanFacts DEF BatchIds, batch, ClientAt
<1>3. \A id \in BatchIds : completed[id] = localOutcome[id] /\ localOutcome[id] \in Observations
  BY <1>1, <1>2 DEF VerdictInv, HoldsLocal, TypeOK
<1>4. HoldsReported' /\ HoldsLocal'
  BY <1>1, <1>2, <1>3 DEF HoldsReported, HoldsLocal
<1>5. FutureUntouched' /\ EmittedJudged' /\ CountsTrue'
  BY <1>1 DEF VerdictInv, FutureUntouched, EmittedJudged, CountsTrue, Judged, BothObserved, Combined
<1>. QED  BY <1>4, <1>5 DEF VerdictInv

\* A report is read: it is true, so what the client now holds of its test is
\* the verdict of the two observations.
LEMMA VerdictReport ==
  ASSUME TypeInv, ReportInv, VerdictInv, ClientReport, UNCHANGED outcomeVars
  PROVE  VerdictInv'
<1>. USE DEF TypeInv
<1>. DEFINE m == Head(toClient)
<1>1. /\ cpc = "reports"
      /\ UNCHANGED <<bi, counts, results, localOutcome, serverOutcome>>
  BY DEF ClientReport, outcomeVars
<1>2. m \in Messages /\ Truthful(m)
  BY HeadTailProperties, QueueFacts
     DEF ClientReport, ClientTakes, TypeOK, ChannelTypeOK, ReportInv
<1>3. CASE ~(m.type = "report" /\ Outstanding(m.id))
  <2>1. UNCHANGED <<completed, expected, serverErrors>> /\ cpc' = "err"
    BY <1>3 DEF ClientReport, ClientReturns
  <2>. QED  BY <1>1, <2>1, VerdictQuiet
<1>4. CASE m.type = "report" /\ Outstanding(m.id)
  <2>1. /\ m.id \in expected /\ expected' = expected \ {m.id} /\ cpc' = "reports"
        /\ completed' = [completed EXCEPT ![m.id] = Reconcile(@, m.body)]
        /\ serverErrors' = [serverErrors EXCEPT ![m.id] = m.body.error]
    BY <1>4 DEF ClientReport, Outstanding
  <2>2. BatchIds' = BatchIds /\ BatchIds \subseteq Ids /\ m.id \in BatchIds
    BY <1>1, <2>1, PlanFacts DEF BatchIds, batch, ClientAt
  <2>3. /\ completed'[m.id] = Reconcile(completed[m.id], m.body)
        /\ serverErrors'[m.id] = m.body.error
        /\ \A x \in Ids : x # m.id => completed'[x] = completed[x]
                                      /\ serverErrors'[x] = serverErrors[x]
    BY <2>1, <2>2 DEF TypeOK, ClientTypeOK
  <2>4. /\ serverOutcome[m.id] \in Observations
        /\ m.body = protocol_result_to_report(serverOutcome[m.id])
    BY <1>2, <1>4 DEF Truthful
  <2>5. completed[m.id] = localOutcome[m.id]
    BY <1>1, <2>1, <2>2 DEF VerdictInv, HoldsReported
  <2>6. /\ completed'[m.id] = Combined(m.id)
        /\ serverErrors'[m.id] = serverOutcome[m.id].reason
    BY <2>3, <2>4, <2>5 DEF Combined, Combine, protocol_result_to_report
  <2>7. HoldsReported'
    <3>. SUFFICES ASSUME NEW id \in BatchIds
                  PROVE  /\ localOutcome[id] \in Observations
                         /\ id \in expected' => completed'[id] = localOutcome[id]
                         /\ id \notin expected' =>
                              /\ serverOutcome[id] \in Observations
                              /\ completed'[id] = Combined(id)
                              /\ serverErrors'[id] = serverOutcome[id].reason
      BY <1>1, <2>2 DEF HoldsReported, Combined
    <3>1. CASE id = m.id
      BY <1>1, <2>1, <2>4, <2>6, <3>1 DEF VerdictInv, HoldsReported
    <3>2. CASE id # m.id
      BY <1>1, <2>1, <2>2, <2>3, <3>2 DEF VerdictInv, HoldsReported
    <3>. QED  BY <3>1, <3>2
  <2>8. HoldsLocal' /\ FutureUntouched'
    BY <1>1, <2>1 DEF VerdictInv, HoldsLocal, FutureUntouched
  <2>9. EmittedJudged' /\ CountsTrue'
    BY <1>1 DEF VerdictInv, EmittedJudged, CountsTrue, Judged, BothObserved, Combined
  <2>. QED  BY <2>7, <2>8, <2>9 DEF VerdictInv
<1>. QED  BY <1>3, <1>4

\* The batch is tallied: its verdicts are emitted, and it is counted as all
\* passes only if each of its tests passed at both ends.
LEMMA VerdictTally ==
  ASSUME TypeInv, VerdictInv, ClientTally, UNCHANGED outcomeVars
  PROVE  VerdictInv'
<1>. USE DEF TypeInv
<1>1. /\ cpc = "reports" /\ expected = {} /\ cpc' \in {"send", "bye"}
      /\ results' = results \o BatchVerdicts
      /\ counts' = [s \in Statuses |-> counts[s] + CountOf(s)]
      /\ completed' = [id \in Ids |-> NoResult]
      /\ bi' = bi + 1
      /\ cpc' = "send" => bi < Len(Plan)
      /\ UNCHANGED <<localOutcome, serverOutcome>>
  BY DEF ClientTally, AllReported, outcomeVars
<1>2. bi \in DOMAIN Plan /\ bi \in Nat
  BY <1>1, PlanFacts DEF ClientAt
<1>3. \A i \in DOMAIN batch :
        /\ batch[i] \in Entries /\ batch[i].id \in Ids
        /\ BothObserved(batch[i].id)
        /\ completed[batch[i].id] = Combined(batch[i].id)
        /\ serverErrors[batch[i].id] = serverOutcome[batch[i].id].reason
  BY <1>1, <1>2, PlanFacts DEF VerdictInv, HoldsReported, BatchIds, batch, BothObserved
<1>4. FutureUntouched'
  BY <1>1, <1>2, PlanFacts DEF VerdictInv, FutureUntouched
<1>5. HoldsLocal'
  <2>. SUFFICES ASSUME cpc' = "send", NEW i \in DOMAIN Plan[bi + 1]
                PROVE  completed'[Plan[bi + 1][i].id] = localOutcome[Plan[bi + 1][i].id]
    BY <1>1 DEF HoldsLocal, BatchIds, batch
  <2>1. bi + 1 \in DOMAIN Plan
    BY <1>1, <1>2, PlanFacts
  <2>2. localOutcome[Plan[bi + 1][i].id] = NoResult
    BY <1>2, <2>1 DEF VerdictInv, FutureUntouched
  <2>3. Plan[bi + 1][i].id \in Ids
    BY <2>1, PlanFacts
  <2>. QED  BY <1>1, <2>2, <2>3
<1>6. HoldsReported'
  BY <1>1 DEF HoldsReported
<1>7. EmittedJudged'
  <2>1. \A i \in DOMAIN batch : Judged(TestEntry(batch[i]))
    BY <1>3 DEF Judged, TestEntry
  <2>2. \A k \in DOMAIN results' :
          \/ \E l \in DOMAIN results : results'[k] = results[l]
          \/ \E i \in DOMAIN batch : results'[k] = TestEntry(batch[i])
    <3>1. DOMAIN batch = 1 .. Len(batch) /\ Len(batch) \in Nat
      BY <1>2, PlanFacts DEF batch
    <3>2. BatchVerdicts \in Seq({TestEntry(batch[i]) : i \in DOMAIN batch})
      BY <3>1, IsASeq DEF BatchVerdicts
    <3>3. results \in Seq({results[l] : l \in DOMAIN results})
      BY IsASeq DEF TypeOK, ClientTypeOK
    <3>. QED  BY <1>1, <3>2, <3>3, ConcatProperties
  <2>3. \A k \in DOMAIN results' : Judged(results'[k])
    BY <2>1, <2>2 DEF VerdictInv, EmittedJudged
  <2>. QED  BY <1>1, <2>3 DEF EmittedJudged, Judged, BothObserved, Combined
<1>8. CountsTrue'
  <2>. SUFFICES ASSUME counts'["fail"] = 0, counts'["error"] = 0,
                       NEW b \in DOMAIN Plan, b < bi + 1, NEW i \in DOMAIN Plan[b]
                PROVE  localOutcome[Plan[b][i].id] = Pass /\ serverOutcome[Plan[b][i].id] = Pass
    BY <1>1 DEF CountsTrue
  <2>1. /\ counts["fail"] + CountOf("fail") = 0 /\ counts["error"] + CountOf("error") = 0
        /\ counts["fail"] \in Nat /\ counts["error"] \in Nat
    BY <1>1 DEF Statuses, TypeOK, ClientTypeOK
  <2>2. CountOf("fail") \in Nat /\ CountOf("error") \in Nat
    BY <1>2, CountOfType
  <2>3. counts["fail"] = 0 /\ counts["error"] = 0 /\ CountOf("fail") = 0 /\ CountOf("error") = 0
    BY <2>1, <2>2
  <2>4. CASE b < bi
    BY <2>3, <2>4 DEF VerdictInv, CountsTrue
  <2>5. CASE b = bi
    <3>1. i \in DOMAIN batch /\ batch[i].id = Plan[b][i].id
      BY <2>5 DEF batch
    <3>2. /\ Combined(batch[i].id).status # "fail" /\ Combined(batch[i].id).status # "error"
          /\ BothObserved(batch[i].id)
      BY <1>2, <1>3, <2>3, <3>1, CountOfType
    <3>3. Combined(batch[i].id).status \in Statuses
      BY <3>2, CombineFacts DEF Combined, BothObserved
    <3>4. Combined(batch[i].id).status = "pass"
      BY <3>2, <3>3 DEF Statuses
    <3>. QED  BY <3>1, <3>2, <3>4, CombineFacts DEF Combined, BothObserved
  <2>. QED  BY <1>2, <2>4, <2>5, PlanFacts
<1>. QED  BY <1>4, <1>5, <1>6, <1>7, <1>8 DEF VerdictInv

LEMMA VerdictStep == IInv /\ [Next]_vars => VerdictInv'
<1>. SUFFICES ASSUME IInv, [Next]_vars PROVE VerdictInv'
  OBVIOUS
<1>. USE DEF IInv
<1>0. \A id \in Ids : serverOutcome[id] # NoResult => serverOutcome'[id] = serverOutcome[id]
  BY RunOnce
<1>1. CASE UNCHANGED <<clientVars, localOutcome>>
  BY <1>0, <1>1, VerdictQuiet DEF clientVars
<1>2. CASE ClientTest
  BY <1>2, VerdictLocal
<1>3. CASE ClientStep
  <2>0. UNCHANGED outcomeVars
    BY <1>3 DEF ClientStep
  <2>1. CASE \/ ClientFlush \/ ClientLosesChannel \/ ClientHello \/ ClientAck
             \/ ClientSendTest \/ ClientSendBatchEnd \/ ClientBye
    <3>1. /\ UNCHANGED <<bi, completed, expected, serverErrors, counts, results>>
          /\ \/ cpc' = cpc
             \/ cpc' \in {"ack", "send", "local"} /\ cpc \in {"hello", "ack", "send", "local"}
             \/ cpc' \in {"bye", "ok", "err", "killed"}
      BY <2>1 DEF ClientFlush, ClientLosesChannel, ClientHello, ClientAck, ClientSendTest,
           ClientSendBatchEnd, ClientBye, ClientReturns
    <3>. QED  BY <1>0, <2>0, <3>1, VerdictQuiet DEF outcomeVars
  <2>2. CASE ClientAwaitsReports
    BY <2>0, <2>2, VerdictAwaits
  <2>3. CASE ClientReport
    BY <2>0, <2>3, VerdictReport
  <2>4. CASE ClientTally
    BY <2>0, <2>4, VerdictTally
  <2>. QED  BY <1>3, <2>1, <2>2, <2>3, <2>4 DEF ClientStep
<1>4. CASE (ClientKilled \/ ClientReportTimeout) /\ UNCHANGED outcomeVars
  <2>1. /\ UNCHANGED <<bi, completed, expected, serverErrors, counts, results, localOutcome>>
        /\ cpc' \in {"err", "killed"}
    BY <1>4 DEF ClientKilled, ClientReportTimeout, ClientReturns, outcomeVars
  <2>. QED  BY <1>0, <2>1, VerdictQuiet
<1>. QED
  BY <1>1, <1>2, <1>3, <1>4
     DEF Next, ServerStep, ServerRun, Fault, Finished, vars, outcomeVars

\* The invariant is inductive, hence holds in every reachable state.
LEMMA Inductive == Spec => []IInv
<1>1. Init => IInv
  BY TypeInit, FlowInit, VerdictInit DEF IInv
<1>2. IInv /\ [Next]_vars => IInv'
  BY TypeStep, FlowStep, ReportStep, VerdictStep DEF IInv
<1>. QED  BY <1>1, <1>2, PTL DEF Spec

-----------------------------------------------------------------------------
\* Every verdict execute_batch emits says what the two ends observed: PASS
\* exactly when both passed, ERR only when one could not run the test, the
\* server's reason beside it.
THEOREM VerdictsAreTrue == Spec => []VerdictsTrue
<1>1. IInv => VerdictsTrue
  <2>. SUFFICES ASSUME IInv, NEW k \in DOMAIN results
                PROVE  VerdictTrue(results[k])
    BY DEF VerdictsTrue
  <2>1. Judged(results[k])
    BY DEF IInv, VerdictInv, EmittedJudged
  <2>. QED  BY <2>1, CombineFacts DEF Judged, BothObserved, Combined, VerdictTrue, Outcome
<1>. QED  BY <1>1, Inductive, PTL

\* main's exit code 0 is told only of a scan whose every test passed at both
\* ends, for every plan of run_client's loops.
THEOREM ExitZero == Spec => []ExitZeroMeansAllPassed
<1>1. IInv => ExitZeroMeansAllPassed
  <2>. SUFFICES ASSUME IInv, ExitCode = 0, NEW id \in Ids
                PROVE  localOutcome[id] = Pass /\ serverOutcome[id] = Pass
    BY DEF ExitZeroMeansAllPassed
  <2>1. cpc = "ok" /\ counts["fail"] = 0 /\ counts["error"] = 0
    BY DEF ExitCode, IInv, TypeInv, TypeOK, ClientTypeOK, Statuses
  <2>2. bi = Len(Plan) + 1
    BY <2>1 DEF IInv, TypeInv, ClientAt
  <2>3. PICK b \in DOMAIN Plan : \E i \in DOMAIN Plan[b] : id = Plan[b][i].id
    BY DEF Ids, Entries, EntriesOf
  <2>4. PICK i \in DOMAIN Plan[b] : id = Plan[b][i].id
    BY <2>3
  <2>. QED  BY <2>1, <2>2, <2>4, PlanFacts DEF IInv, VerdictInv, CountsTrue
<1>. QED  BY <1>1, Inductive, PTL

\* What an end has observed stays observed, whatever step comes next.
LEMMA ObservedOnce ==
  ASSUME IInv, [Next]_vars
  PROVE  \A id \in Ids :
           /\ localOutcome[id] # NoResult => localOutcome'[id] = localOutcome[id]
           /\ serverOutcome[id] # NoResult => serverOutcome'[id] = serverOutcome[id]
<1>. SUFFICES ASSUME NEW id \in Ids
              PROVE  /\ localOutcome[id] # NoResult => localOutcome'[id] = localOutcome[id]
                     /\ serverOutcome[id] # NoResult => serverOutcome'[id] = serverOutcome[id]
  OBVIOUS
<1>1. serverOutcome[id] # NoResult => serverOutcome'[id] = serverOutcome[id]
  BY RunOnce DEF IInv
<1>2. CASE ClientTest
  <2>. PICK ended \in Ids, r \in Results :
         /\ ClientTestEnds(ended, r)
         /\ localOutcome' = [localOutcome EXCEPT ![ended] = r]
    BY <1>2 DEF ClientTest
  <2>1. localOutcome[ended] = NoResult
    BY DEF ClientTestEnds, Pending, IInv, VerdictInv, HoldsLocal
  <2>. QED  BY <1>1, <2>1 DEF IInv, TypeInv, TypeOK
<1>3. CASE localOutcome' = localOutcome
  BY <1>1, <1>3
<1>. QED
  BY <1>2, <1>3 DEF Next, ClientStep, ServerStep, ServerRun, Fault, Finished, vars, outcomeVars

\* No test is run to its end a second time at either end, whatever order the
\* messages and the tests take.
THEOREM TestsRunOnce == Spec => EachTestRunsOnce
<1>1. IInv /\ [Next]_vars =>
        [\A id \in Ids :
           /\ localOutcome[id] # NoResult => localOutcome'[id] = localOutcome[id]
           /\ serverOutcome[id] # NoResult => serverOutcome'[id] = serverOutcome[id]]_vars
  BY ObservedOnce
<1>. QED  BY <1>1, Inductive, PTL DEF Spec, EachTestRunsOnce
-----------------------------------------------------------------------------
(***************************************************************************)
(* What follows from the inductive invariant of Session once it is known   *)
(* that every test of a batch that is over has been run at both ends: the  *)
(* server only runs tests of the batch the client is in, opposite          *)
(* directions exclude each other, what has been emitted is the plan so     *)
(* far, and the session implements module Scan.                            *)
(***************************************************************************)

\* The batches that are over have been run at both ends.
PastObserved ==
  \A b \in DOMAIN Plan : b < bi =>
    \A i \in DOMAIN Plan[b] : BothObserved(Plan[b][i].id)

\* TalliesComplete, but for what is known of bi when Done has been said.
EmittedInOrder ==
  /\ {results[k].entry : k \in DOMAIN results} = TestsBefore(bi)
  /\ \A k, l \in DOMAIN results : k < l => Precedes(results[k].entry, results[l].entry)

Counted ==
  \A s \in Statuses : counts[s] =
    Cardinality({k \in DOMAIN results : results[k].result.status = s})

\* A client that has returned has nothing left to send.
ClientSilent == ClientOver => cout = Nothing

ScanInv == PastObserved /\ EmittedInOrder /\ Counted /\ ClientSilent

-----------------------------------------------------------------------------
\* The server runs no test of another batch than the client's: its tests have
\* been sent and have not been observed, and all before the client's have been.
LEMMA RunsCurrent ==
  ASSUME IInv, PastObserved, NEW k \in running
  PROVE  bi \in DOMAIN Plan /\ \E j \in DOMAIN Plan[bi] : sbatch[k] = Plan[bi][j]
<1>. USE DEF IInv, TypeInv
<1>1. k \in DOMAIN sbatch /\ sbatch[k] \in Entries /\ sbatch[k].id \in Ids
  BY ElementOfSeq, PlanFacts DEF TypeOK, ServerTypeOK
<1>2. PICK b \in DOMAIN Plan : \E j \in DOMAIN Plan[b] : sbatch[k] = Plan[b][j]
  BY <1>1 DEF Entries, EntriesOf
<1>3. PICK j \in DOMAIN Plan[b] : sbatch[k] = Plan[b][j]
  BY <1>2
<1>4. InBatch(sbatch[k].id) /\ Fresh(sbatch[k].id)
  BY <1>1 DEF InBatch, FlowInv, NotYetRun
<1>5. ~Unsent(sbatch[k].id)
  BY <1>1, <1>4 DEF FlowInv, OnePlace
<1>6. ~(b > bi)
  BY <1>3, <1>5 DEF Unsent
<1>7. ~(b < bi)
  <2>1. ~BothObserved(sbatch[k].id)
    BY <1>4, VerdictTypes DEF Fresh, BothObserved
  <2>. QED  BY <1>3, <2>1 DEF PastObserved
<1>8. b \in Nat /\ bi \in Nat
  BY PlanFacts DEF TypeOK, ClientTypeOK
<1>. QED  BY <1>3, <1>6, <1>7, <1>8

\* Two sequences joined, element by element.
LEMMA ConcatAt ==
  ASSUME NEW S, NEW p \in Seq(S), NEW q \in Seq(S)
  PROVE  /\ p \o q \in Seq(S)
         /\ DOMAIN (p \o q) = 1 .. Len(p) + Len(q)
         /\ \A k \in 1 .. Len(p) : (p \o q)[k] = p[k]
         /\ \A k \in Len(p) + 1 .. Len(p) + Len(q) :
              k - Len(p) \in DOMAIN q /\ (p \o q)[k] = q[k - Len(p)]
<1>1. Len(p) \in Nat /\ Len(q) \in Nat /\ DOMAIN q = 1 .. Len(q)
  BY LenProperties
<1>2. \A k \in Len(p) + 1 .. Len(p) + Len(q) :
        /\ k - Len(p) \in 1 .. Len(q)
        /\ k \in 1 .. Len(p) + Len(q) /\ ~(k <= Len(p))
  BY <1>1
<1>. QED  BY <1>1, <1>2, ConcatProperties, LenProperties

\* How many elements of a sequence are in T.
CountIn(s, T) == Cardinality({k \in DOMAIN s : s[k] \in T})

LEMMA CountConcat ==
  ASSUME NEW S, NEW p \in Seq(S), NEW q \in Seq(S), NEW T
  PROVE  CountIn(p \o q, T) = CountIn(p, T) + CountIn(q, T)
<1>. DEFINE r == p \o q
            n == Len(p)
            P == {k \in DOMAIN p : p[k] \in T}
            Q == {k \in DOMAIN q : q[k] \in T}
            R == {k \in DOMAIN r : r[k] \in T}
            shifted == {k \in R : k > n}
            shift == [k \in Q |-> k + n]
<1>1. /\ n \in Nat /\ Len(q) \in Nat
      /\ DOMAIN p = 1 .. n /\ DOMAIN q = 1 .. Len(q)
      /\ DOMAIN r = 1 .. n + Len(q)
      /\ \A k \in 1 .. n : r[k] = p[k]
      /\ \A k \in 1 .. Len(q) : r[k + n] = q[k]
  BY LenProperties, ConcatProperties
<1>2. IsFiniteSet(P) /\ IsFiniteSet(Q) /\ IsFiniteSet(R) /\ IsFiniteSet(shifted)
  <2>1. IsFiniteSet(1 .. n) /\ IsFiniteSet(1 .. Len(q)) /\ IsFiniteSet(1 .. n + Len(q))
    BY <1>1, FS_Interval
  <2>2. P \in SUBSET (1 .. n) /\ Q \in SUBSET (1 .. Len(q)) /\ R \in SUBSET (1 .. n + Len(q))
    BY <1>1
  <2>3. shifted \in SUBSET R
    OBVIOUS
  <2>4. IsFiniteSet(P) /\ IsFiniteSet(Q) /\ IsFiniteSet(R)
    BY <2>1, <2>2, FS_Subset
  <2>. QED  BY <2>3, <2>4, FS_Subset
<1>3. Cardinality(shifted) = Cardinality(Q)
  <2>1. \A k \in shifted : k - n \in Q /\ k = (k - n) + n
    <3>. SUFFICES ASSUME NEW k \in shifted PROVE k - n \in Q
      BY <1>1
    <3>1. k - n \in 1 .. Len(q) /\ (k - n) + n = k
      BY <1>1
    <3>. QED  BY <1>1, <3>1
  <2>2. \A k \in Q : k + n \in shifted
    BY <1>1
  <2>3. shift \in Bijection(Q, shifted)
    <3>1. shift \in [Q -> shifted]
      BY <2>2
    <3>2. \A k, l \in Q : shift[k] = shift[l] => k = l
      BY <1>1
    <3>3. \A k \in shifted : \E l \in Q : shift[l] = k
      BY <2>1
    <3>. QED  BY <3>1, <3>2, <3>3, Fun_IsBij
  <2>. QED  BY <1>2, <2>3, FS_Bijection DEF ExistsBijection
<1>4. R = P \cup shifted /\ P \cap shifted = {}
  BY <1>1
<1>5. Cardinality(P \cap shifted) = 0 /\ Cardinality(P) \in Nat /\ Cardinality(Q) \in Nat
  BY <1>2, <1>4, FS_EmptySet, FS_CardinalityType
<1>6. Cardinality(P \cup shifted)
        = Cardinality(P) + Cardinality(shifted) - Cardinality(P \cap shifted)
  BY <1>2, FS_Union
<1>. HIDE DEF P, Q, R, shifted
<1>7. Cardinality(R) = Cardinality(P) + Cardinality(Q)
  BY <1>3, <1>4, <1>5, <1>6
<1>. QED  BY <1>7 DEF P, Q, R, CountIn
-----------------------------------------------------------------------------
LEMMA ScanInvInit == Init => ScanInv
<1>. SUFFICES ASSUME Init PROVE ScanInv
  OBVIOUS
<1>1. bi = 1 /\ results = <<>> /\ counts = [s \in Statuses |-> 0]
  BY DEF Init, ClientInit
<1>2. PastObserved
  BY <1>1, PlanFacts DEF PastObserved
<1>3. EmittedInOrder
  <2>1. TestsBefore(bi) = {}
    BY <1>1 DEF TestsBefore
  <2>. QED  BY <1>1, <2>1 DEF EmittedInOrder
<1>4. Counted
  <2>1. \A s : {k \in DOMAIN results : results[k].result.status = s} = {}
    BY <1>1
  <2>. QED  BY <1>1, <2>1, FS_EmptySet DEF Counted
<1>5. ClientSilent
  BY DEF Init, ClientInit, ClientSilent, ClientOver
<1>. QED  BY <1>2, <1>3, <1>4, <1>5 DEF ScanInv

\* Returning drops what was being sent.
LEMMA ClientSilentStep == ClientSilent /\ [Next]_vars => ClientSilent'
<1>. SUFFICES ASSUME ClientSilent, [Next]_vars PROVE ClientSilent'
  OBVIOUS
<1>. USE DEF ClientSilent, ClientOver
<1>1. CASE ClientStep
  BY <1>1
     DEF ClientStep, ClientFlush, ClientLosesChannel, ClientHello, ClientAck, ClientSendTest,
         ClientSendBatchEnd, ClientAwaitsReports, ClientReport, ClientTally, ClientBye,
         ClientReturns
<1>2. CASE ClientTest
  BY <1>2 DEF ClientTest, ClientTestEnds
<1>3. CASE ClientKilled \/ ClientReportTimeout
  BY <1>3 DEF ClientKilled, ClientReportTimeout, ClientReturns
<1>4. CASE UNCHANGED clientVars
  BY <1>4 DEF clientVars
<1>. QED  BY <1>1, <1>2, <1>3, <1>4 DEF Next, ServerStep, ServerRun, Fault, Finished, vars

\* A step that emits nothing.
LEMMA ScanInvQuiet ==
  ASSUME IInv, ScanInv, [Next]_vars, UNCHANGED <<bi, results, counts>>
  PROVE  ScanInv'
<1>1. PastObserved'
  <2>. SUFFICES ASSUME NEW b \in DOMAIN Plan, b < bi, NEW i \in DOMAIN Plan[b]
                PROVE  BothObserved(Plan[b][i].id)'
    BY DEF PastObserved
  <2>1. BothObserved(Plan[b][i].id) /\ Plan[b][i].id \in Ids
    BY PlanFacts DEF ScanInv, PastObserved
  <2>2. /\ localOutcome'[Plan[b][i].id] = localOutcome[Plan[b][i].id]
        /\ serverOutcome'[Plan[b][i].id] = serverOutcome[Plan[b][i].id]
    BY <2>1, ObservedOnce, VerdictTypes DEF BothObserved
  <2>. QED  BY <2>1, <2>2 DEF BothObserved
<1>2. EmittedInOrder' /\ Counted'
  BY DEF ScanInv, EmittedInOrder, Counted, TestsBefore
<1>3. ClientSilent'
  BY ClientSilentStep DEF ScanInv
<1>. QED  BY <1>1, <1>2, <1>3 DEF ScanInv

\* The batch is tallied: its tests are emitted after all those before it.
LEMMA ScanInvTally ==
  ASSUME IInv, ScanInv, ClientTally, UNCHANGED outcomeVars
  PROVE  ScanInv'
<1>. USE DEF IInv, TypeInv
<1>1. /\ cpc = "reports" /\ expected = {}
      /\ results' = results \o BatchVerdicts
      /\ counts' = [s \in Statuses |-> counts[s] + CountOf(s)]
      /\ bi' = bi + 1
      /\ UNCHANGED <<localOutcome, serverOutcome>>
  BY DEF ClientTally, AllReported, outcomeVars
<1>2. bi \in DOMAIN Plan /\ bi \in Nat
  BY <1>1, PlanFacts DEF ClientAt
<1>3. \A i \in DOMAIN batch : BothObserved(batch[i].id)
  BY <1>1, <1>2, PlanFacts DEF VerdictInv, HoldsReported, BatchIds, batch, BothObserved
<1>4. /\ results \in Seq(Verdicts) /\ BatchVerdicts \in Seq({TestEntry(batch[i]) : i \in DOMAIN batch})
      /\ Len(results) \in Nat /\ DOMAIN results = 1 .. Len(results)
      /\ Len(BatchVerdicts) = Len(batch) /\ Len(batch) \in Nat
      /\ DOMAIN BatchVerdicts = 1 .. Len(batch) /\ DOMAIN batch = 1 .. Len(batch)
      /\ \A i \in DOMAIN batch : BatchVerdicts[i] = TestEntry(batch[i])
  <2>1. DOMAIN batch = 1 .. Len(batch) /\ Len(batch) \in Nat
    BY <1>2, PlanFacts DEF batch
  <2>2. BatchVerdicts \in Seq({TestEntry(batch[i]) : i \in DOMAIN batch})
    BY <2>1, IsASeq DEF BatchVerdicts
  <2>3. Len(BatchVerdicts) = Len(batch)
    BY <2>1, <2>2, LenProperties DEF BatchVerdicts
  <2>. QED  BY <2>1, <2>2, <2>3, LenProperties DEF BatchVerdicts, TypeOK, ClientTypeOK
<1>5. /\ DOMAIN results' = 1 .. Len(results) + Len(batch)
      /\ \A k \in 1 .. Len(results) : results'[k] = results[k]
      /\ \A k \in Len(results) + 1 .. Len(results) + Len(batch) :
           /\ k - Len(results) \in DOMAIN batch
           /\ results'[k].entry = batch[k - Len(results)]
  <2>. DEFINE S == Verdicts \cup {TestEntry(batch[i]) : i \in DOMAIN batch}
  <2>1. results \in Seq(S) /\ BatchVerdicts \in Seq(S)
    BY <1>4, SeqMonotonic
  <2>. HIDE DEF S
  <2>2. /\ DOMAIN results' = 1 .. Len(results) + Len(batch)
        /\ \A k \in 1 .. Len(results) : results'[k] = results[k]
        /\ \A k \in Len(results) + 1 .. Len(results) + Len(batch) :
             k - Len(results) \in DOMAIN batch /\ results'[k] = BatchVerdicts[k - Len(results)]
    <3>1. results' = results \o BatchVerdicts
      BY <1>1
    <3>2. /\ DOMAIN results' = 1 .. Len(results) + Len(BatchVerdicts)
          /\ \A k \in 1 .. Len(results) : results'[k] = results[k]
          /\ \A k \in Len(results) + 1 .. Len(results) + Len(BatchVerdicts) :
               /\ k - Len(results) \in DOMAIN BatchVerdicts
               /\ results'[k] = BatchVerdicts[k - Len(results)]
      BY <2>1, <3>1, ConcatAt
    <3>. QED  BY <1>4, <3>2
  <2>3. \A i \in DOMAIN batch : BatchVerdicts[i].entry = batch[i]
    BY <1>4 DEF TestEntry
  <2>. QED  BY <2>2, <2>3
<1>6. PastObserved'
  <2>. SUFFICES ASSUME NEW b \in DOMAIN Plan, b < bi + 1, NEW i \in DOMAIN Plan[b]
                PROVE  BothObserved(Plan[b][i].id)
    BY <1>1 DEF PastObserved, BothObserved
  <2>1. CASE b < bi
    BY <2>1 DEF ScanInv, PastObserved
  <2>2. CASE b = bi
    BY <1>3, <2>2 DEF batch
  <2>. QED  BY <1>2, <2>1, <2>2, PlanFacts
<1>7. TestsBefore(bi + 1) = TestsBefore(bi) \cup {batch[i] : i \in DOMAIN batch}
  <2>1. 1 .. bi + 1 - 1 = (1 .. bi - 1) \cup {bi}
    BY <1>2, PlanFacts
  <2>. QED  BY <2>1 DEF TestsBefore, batch
<1>8. EmittedInOrder'
  <2>1. {results'[k].entry : k \in DOMAIN results'}
          = {results[k].entry : k \in DOMAIN results} \cup {batch[i] : i \in DOMAIN batch}
    <3>1. \A k \in DOMAIN results' :
            \/ k \in DOMAIN results /\ results'[k] = results[k]
            \/ k - Len(results) \in DOMAIN batch /\ results'[k].entry = batch[k - Len(results)]
      BY <1>4, <1>5
    <3>2. \A i \in DOMAIN batch : i + Len(results) \in DOMAIN results'
                                  /\ results'[i + Len(results)].entry = batch[i]
      <4>. SUFFICES ASSUME NEW i \in DOMAIN batch
                    PROVE  i + Len(results) \in DOMAIN results'
                           /\ results'[i + Len(results)].entry = batch[i]
        OBVIOUS
      <4>1. /\ i + Len(results) \in Len(results) + 1 .. Len(results) + Len(batch)
            /\ i + Len(results) - Len(results) = i
        BY <1>4
      <4>. QED  BY <1>4, <1>5, <4>1
    <3>3. \A k \in DOMAIN results : k \in DOMAIN results' /\ results'[k] = results[k]
      BY <1>4, <1>5
    <3>. QED  BY <3>1, <3>2, <3>3
  <2>2. {results'[k].entry : k \in DOMAIN results'} = TestsBefore(bi')
    BY <1>1, <1>7, <2>1 DEF ScanInv, EmittedInOrder
  <2>3. ASSUME NEW k \in DOMAIN results', NEW l \in DOMAIN results', k < l
        PROVE  Precedes(results'[k].entry, results'[l].entry)
    <3>1. CASE l <= Len(results)
      <4>1. /\ k \in DOMAIN results /\ l \in DOMAIN results
            /\ results'[k] = results[k] /\ results'[l] = results[l]
        BY <1>4, <1>5, <2>3, <3>1
      <4>. QED  BY <2>3, <4>1 DEF ScanInv, EmittedInOrder
    <3>2. CASE k <= Len(results) /\ l > Len(results)
      <4>1. results'[k].entry \in TestsBefore(bi)
        BY <1>4, <1>5, <3>2 DEF ScanInv, EmittedInOrder
      <4>2. PICK b \in 1 .. bi - 1 : \E i \in DOMAIN Plan[b] : results'[k].entry = Plan[b][i]
        BY <4>1 DEF TestsBefore
      <4>3. b \in DOMAIN Plan /\ b < bi
        BY <1>2, <4>2, PlanFacts
      <4>4. \E j \in DOMAIN Plan[bi] : results'[l].entry = Plan[bi][j]
        BY <1>5, <3>2 DEF batch
      <4>. QED  BY <1>2, <4>2, <4>3, <4>4 DEF Precedes
    <3>3. CASE k > Len(results)
      <4>1. /\ k - Len(results) \in DOMAIN Plan[bi] /\ l - Len(results) \in DOMAIN Plan[bi]
            /\ results'[k].entry = Plan[bi][k - Len(results)]
            /\ results'[l].entry = Plan[bi][l - Len(results)]
            /\ k - Len(results) < l - Len(results)
        <5>1. /\ k \in Len(results) + 1 .. Len(results) + Len(batch)
              /\ l \in Len(results) + 1 .. Len(results) + Len(batch)
              /\ k - Len(results) < l - Len(results)
          BY <1>4, <1>5, <2>3, <3>3
        <5>. QED  BY <1>5, <5>1 DEF batch
      <4>. QED  BY <1>2, <4>1 DEF Precedes
    <3>. QED  BY <1>4, <1>5, <3>1, <3>2, <3>3
  <2>. QED  BY <2>2, <2>3 DEF EmittedInOrder
<1>9. Counted'
  <2>. SUFFICES ASSUME NEW s \in Statuses
                PROVE  counts'[s]
                         = Cardinality({k \in DOMAIN results' : results'[k].result.status = s})
    BY DEF Counted
  <2>. DEFINE S == Verdicts \cup {TestEntry(batch[i]) : i \in DOMAIN batch}
              T == {v \in S : v.result.status = s}
  <2>1. results \in Seq(S) /\ BatchVerdicts \in Seq(S)
    BY <1>4, SeqMonotonic
  <2>2. results' \in Seq(S)
    BY <1>1, <2>1, ConcatProperties
  <2>3. CountIn(results', T) = CountIn(results, T) + CountIn(BatchVerdicts, T)
    <3>. HIDE DEF S, T
    <3>. QED  BY <1>1, <2>1, CountConcat
  <2>4. {k \in DOMAIN results' : results'[k] \in T}
          = {k \in DOMAIN results' : results'[k].result.status = s}
    BY <2>2, ElementOfSeq
  <2>5. {k \in DOMAIN results : results[k] \in T}
          = {k \in DOMAIN results : results[k].result.status = s}
    BY <2>1, ElementOfSeq
  <2>6. {k \in DOMAIN BatchVerdicts : BatchVerdicts[k] \in T}
          = {i \in DOMAIN batch : completed[batch[i].id].status = s}
    <3>1. \A i \in DOMAIN batch :
            BatchVerdicts[i] \in S /\ BatchVerdicts[i].result = completed[batch[i].id]
      BY <1>4 DEF TestEntry
    <3>. QED  BY <1>4, <3>1
  <2>7. counts[s] = Cardinality({k \in DOMAIN results : results[k].result.status = s})
    BY DEF ScanInv, Counted
  <2>. QED  BY <1>1, <2>3, <2>4, <2>5, <2>6, <2>7 DEF CountIn, CountOf
<1>10. ClientSilent'
  BY DEF ClientTally, ClientSilent, ClientOver
<1>. QED  BY <1>6, <1>8, <1>9, <1>10 DEF ScanInv

LEMMA ScanStep == IInv /\ ScanInv /\ [Next]_vars => ScanInv'
<1>. SUFFICES ASSUME IInv, ScanInv, [Next]_vars PROVE ScanInv'
  OBVIOUS
<1>1. CASE UNCHANGED <<bi, results, counts>>
  BY <1>1, ScanInvQuiet
<1>2. CASE ClientTally /\ UNCHANGED outcomeVars
  BY <1>2, ScanInvTally
<1>3. CASE ClientStep
  BY <1>1, <1>2, <1>3
     DEF ClientStep, ClientFlush, ClientLosesChannel, ClientHello, ClientAck, ClientSendTest,
         ClientSendBatchEnd, ClientAwaitsReports, ClientReport, ClientBye
<1>4. CASE ClientTest \/ Fault
  BY <1>1, <1>4
     DEF ClientTest, ClientTestEnds, Fault, ClientKilled, ClientReportTimeout, clientVars
<1>. QED
  BY <1>1, <1>3, <1>4 DEF Next, ServerStep, ServerRun, Finished, vars, clientVars

LEMMA ScanInductive == Spec => [](IInv /\ ScanInv)
<1>1. Init => ScanInv
  BY ScanInvInit
<1>2. IInv /\ IInv' /\ ScanInv /\ [Next]_vars => ScanInv'
  BY ScanStep
<1>. QED  BY <1>1, <1>2, Inductive, PTL DEF Spec

-----------------------------------------------------------------------------
\* What run_client has emitted is each test of the batches that are over,
\* once, in plan order and counted by its status, for every plan; the whole
\* plan before Done is said.
THEOREM TalliesAreComplete == Spec => []TalliesComplete
<1>1. IInv /\ ScanInv => TalliesComplete
  <2>. SUFFICES ASSUME IInv, ScanInv PROVE TalliesComplete
    OBVIOUS
  <2>1. ASSUME cpc \in {"bye", "ok"} PROVE TestsBefore(bi) = Entries
    <3>1. 1 .. bi - 1 = DOMAIN Plan
      BY <2>1, PlanFacts DEF IInv, TypeInv, ClientAt
    <3>. QED  BY <3>1 DEF TestsBefore, Entries, EntriesOf
  <2>. QED  BY <2>1 DEF ScanInv, EmittedInOrder, Counted, TalliesComplete
<1>. QED  BY <1>1, ScanInductive, PTL

\* The two ends never serve the same loopback port at the same time, one for
\* a forward and one for a reverse test: what the server is running is of the
\* client's batch, and a batch has one direction.
THEOREM DirectionsExclusive == Spec => []OppositeDirectionsExclusive
<1>1. IInv /\ ScanInv => OppositeDirectionsExclusive
  <2>. SUFFICES ASSUME IInv, ScanInv, NEW e \in ClientRunning, NEW f \in ServerRunning
                PROVE  e.dir = f.dir
    BY DEF OppositeDirectionsExclusive, Ports
  <2>1. cpc = "local" /\ e \in Entries /\ e.id \in BatchIds
    BY DEF ClientRunning, Pending
  <2>2. PICK k \in running : f = sbatch[k]
    BY DEF ServerRunning
  <2>3. PICK j \in DOMAIN Plan[bi] : f = Plan[bi][j]
    BY <2>2, RunsCurrent DEF ScanInv
  <2>4. PICK i \in DOMAIN Plan[bi] : e.id = Plan[bi][i].id
    BY <2>1 DEF BatchIds, batch
  <2>5. bi \in DOMAIN Plan
    BY <2>2, RunsCurrent DEF ScanInv
  <2>6. PICK b \in DOMAIN Plan : \E n \in DOMAIN Plan[b] : e = Plan[b][n]
    BY <2>1 DEF Entries, EntriesOf
  <2>7. e = Plan[bi][i]
    BY <2>4, <2>5, <2>6, PlanFacts
  <2>. QED  BY <2>3, <2>5, <2>7, PlanAssumption DEF WellFormed
<1>. QED  BY <1>1, ScanInductive, PTL

-----------------------------------------------------------------------------
\* The state of the scan that a state of the session stands for.
ScanOutcome ==
  IF cpc = "ok" THEN "complete" ELSE IF cpc \in {"err", "killed"} THEN "aborted" ELSE "scanning"

LEMMA AbstractFacts ==
  /\ Abstract!Tests = Ids
  /\ \A l, r : Abstract!Combine(l, r) = Combine(l, r)
  /\ bi \in DOMAIN Plan => Abstract!Current = batch
<1>1. Abstract!Tests = Ids
  <2>1. \A id \in Ids : \E b \in DOMAIN Plan : \E i \in DOMAIN Plan[b] : id = Plan[b][i].id
    BY DEF Ids, Entries, EntriesOf
  <2>. QED  BY <2>1, PlanFacts DEF Abstract!Tests
<1>2. \A l, r : Abstract!Combine(l, r) = Combine(l, r)
  BY DEF Abstract!Combine, Abstract!Reconcile, Abstract!protocol_result_to_report,
         Combine, Reconcile, protocol_result_to_report
<1>. QED  BY <1>1, <1>2 DEF Abstract!Current, batch

\* A step of the protocol that neither observes nor emits anything is no step
\* of the scan, or gives it up.
LEMMA StepUnseen ==
  ASSUME UNCHANGED <<bi, localOutcome, serverOutcome, results>>,
         \/ ScanOutcome' = ScanOutcome
         \/ ScanOutcome = "scanning" /\ cpc' \in {"err", "killed"}
  PROVE  [Abstract!ScanNext]_(Abstract!scanVars)
<1>1. CASE ScanOutcome' = ScanOutcome
  BY <1>1 DEF ScanOutcome, Abstract!scanVars
<1>2. CASE ScanOutcome = "scanning" /\ cpc' \in {"err", "killed"}
  <2>1. Abstract!Abort
    BY <1>2 DEF ScanOutcome, Abstract!Abort
  <2>. QED  BY <2>1 DEF Abstract!ScanNext
<1>. QED  BY <1>1, <1>2

\* A local test ends: the client observes a test of the current batch.
LEMMA StepLocal ==
  ASSUME IInv, ClientTest
  PROVE  Abstract!ScanNext
<1>. PICK id \in Ids, r \in Results :
       /\ ClientTestEnds(id, r)
       /\ localOutcome' = [localOutcome EXCEPT ![id] = r]
       /\ UNCHANGED <<serverVars, serverOutcome>>
  BY DEF ClientTest
<1>1. /\ cpc = "local" /\ id \in BatchIds /\ completed[id] = NoResult
      /\ UNCHANGED <<cpc, bi, results>>
  BY DEF ClientTestEnds, Pending
<1>2. bi \in DOMAIN Plan /\ localOutcome[id] = NoResult
  BY <1>1 DEF IInv, TypeInv, ClientAt, VerdictInv, HoldsLocal
<1>3. PICK i \in DOMAIN batch : id = batch[i].id
  BY <1>1 DEF BatchIds
<1>4. Abstract!LocalRun(i, r)
  BY <1>1, <1>2, <1>3, AbstractFacts DEF Abstract!LocalRun
<1>. QED  BY <1>2, <1>4, AbstractFacts DEF Abstract!ScanNext

\* A test of the server's batch ends: it is of the client's batch too.
LEMMA StepRemote ==
  ASSUME IInv, ScanInv, ServerRun
  PROVE  Abstract!ScanNext
<1>. PICK k \in DOMAIN sbatch, r \in Results :
       /\ ServerTestEnds(k, r)
       /\ serverOutcome' = [serverOutcome EXCEPT ![sbatch[k].id] = r]
       /\ UNCHANGED <<clientVars, localOutcome>>
  BY DEF ServerRun
<1>1. k \in running /\ UNCHANGED <<cpc, bi, results>>
  BY DEF ServerTestEnds, clientVars
<1>2. bi \in DOMAIN Plan /\ serverOutcome[sbatch[k].id] = NoResult
  BY <1>1, RunsCurrent DEF ScanInv, IInv, FlowInv, NotYetRun, Fresh
<1>3. PICK i \in DOMAIN batch : sbatch[k] = batch[i]
  BY <1>1, RunsCurrent DEF ScanInv, batch
<1>4. Abstract!RemoteRun(i, r)
  BY <1>1, <1>2, <1>3, AbstractFacts DEF Abstract!RemoteRun
<1>. QED  BY <1>2, <1>3, <1>4, AbstractFacts DEF Abstract!ScanNext

\* The batch is tallied: the scan judges it, from what both ends observed.
LEMMA StepJudge ==
  ASSUME IInv, ClientTally, UNCHANGED outcomeVars
  PROVE  Abstract!ScanNext
<1>1. /\ cpc = "reports" /\ expected = {} /\ cpc' \in {"send", "bye"}
      /\ results' = results \o BatchVerdicts
      /\ bi' = bi + 1
      /\ UNCHANGED <<localOutcome, serverOutcome>>
  BY DEF ClientTally, AllReported, outcomeVars
<1>2. bi \in DOMAIN Plan
  BY <1>1 DEF IInv, TypeInv, ClientAt
<1>3. \A i \in DOMAIN batch :
        /\ localOutcome[batch[i].id] # NoResult /\ serverOutcome[batch[i].id] # NoResult
        /\ completed[batch[i].id] = Combined(batch[i].id)
        /\ serverErrors[batch[i].id] = serverOutcome[batch[i].id].reason
  BY <1>1, VerdictTypes DEF IInv, VerdictInv, HoldsReported, BatchIds
<1>4. BatchVerdicts =
        [i \in DOMAIN batch |->
           [entry        |-> batch[i],
            result       |-> Combine(localOutcome[batch[i].id], serverOutcome[batch[i].id]),
            server_error |-> serverOutcome[batch[i].id].reason]]
  BY <1>3 DEF BatchVerdicts, TestEntry, Combined
<1>5. Abstract!Judge
  BY <1>1, <1>2, <1>3, <1>4, AbstractFacts DEF Abstract!Judge
<1>. QED  BY <1>2, <1>5, AbstractFacts DEF Abstract!ScanNext

\* Bye is read, and the whole plan has been judged.
LEMMA StepBye ==
  ASSUME IInv, ClientBye, UNCHANGED outcomeVars
  PROVE  [Abstract!ScanNext]_(Abstract!scanVars)
<1>1. cpc = "bye" /\ UNCHANGED <<bi, localOutcome, serverOutcome, results>>
  BY DEF ClientBye, outcomeVars
<1>2. CASE cpc' = "ok"
  <2>1. bi = Len(Plan) + 1
    BY <1>1 DEF IInv, TypeInv, ClientAt
  <2>2. Abstract!Complete
    BY <1>1, <1>2, <2>1 DEF Abstract!Complete
  <2>. QED  BY <2>2 DEF Abstract!ScanNext
<1>3. CASE cpc' = "err"
  BY <1>1, <1>3, StepUnseen DEF ScanOutcome
<1>. QED  BY <1>2, <1>3 DEF ClientBye, ClientReturns

\* Every step of the session is a step of the scan its user sees, or none.
LEMMA StepImplemented ==
  ASSUME IInv, ScanInv, [Next]_vars
  PROVE  [Abstract!ScanNext]_(Abstract!scanVars)
<1>1. CASE ClientStep
  <2>0. UNCHANGED <<localOutcome, serverOutcome>>
    BY <1>1 DEF ClientStep, outcomeVars
  <2>1. CASE \/ ClientFlush \/ ClientSendTest \/ ClientSendBatchEnd \/ ClientAwaitsReports
    <3>1. UNCHANGED <<bi, results>> /\ ScanOutcome' = ScanOutcome
      BY <2>1 DEF ClientFlush, ClientSendTest, ClientSendBatchEnd, ClientAwaitsReports, ScanOutcome
    <3>. QED  BY <2>0, <3>1, StepUnseen
  <2>2. CASE ClientHello \/ ClientAck \/ ClientReport
    <3>1. /\ UNCHANGED <<bi, results>> /\ ScanOutcome = "scanning"
          /\ ScanOutcome' = "scanning" \/ cpc' \in {"err", "killed"}
      BY <2>2 DEF ClientHello, ClientAck, ClientReport, ClientReturns, ScanOutcome
    <3>. QED  BY <2>0, <3>1, StepUnseen
  <2>3. CASE ClientLosesChannel
    <3>1. cpc \notin {"ok", "err", "killed"}
      BY <2>3 DEF ClientLosesChannel, Receiving, ScanInv, ClientSilent, ClientOver
    <3>2. UNCHANGED <<bi, results>> /\ cpc' = "err"
      BY <2>3 DEF ClientLosesChannel, ClientReturns
    <3>. QED  BY <2>0, <3>1, <3>2, StepUnseen DEF ScanOutcome
  <2>4. CASE ClientTally
    BY <1>1, <2>4, StepJudge DEF ClientStep
  <2>5. CASE ClientBye
    BY <1>1, <2>5, StepBye DEF ClientStep
  <2>. QED  BY <1>1, <2>1, <2>2, <2>3, <2>4, <2>5 DEF ClientStep
<1>2. CASE ClientTest
  BY <1>2, StepLocal
<1>3. CASE ServerRun
  BY <1>3, StepRemote
<1>4. CASE UNCHANGED <<clientVars, outcomeVars>>
  BY <1>4, StepUnseen DEF clientVars, outcomeVars, ScanOutcome
<1>5. CASE (ClientKilled \/ ClientReportTimeout) /\ UNCHANGED outcomeVars
  <2>1. /\ UNCHANGED <<bi, results, localOutcome, serverOutcome>>
        /\ ScanOutcome = "scanning" /\ cpc' \in {"err", "killed"}
    BY <1>5
       DEF ClientKilled, ClientReportTimeout, ClientReturns, ClientOver, ScanOutcome, outcomeVars
  <2>. QED  BY <2>1, StepUnseen
<1>. QED
  BY <1>1, <1>2, <1>3, <1>4, <1>5 DEF Next, ServerStep, Fault, Finished, vars

\* run_server, run_client and execute_batch together, over a connection that
\* loses, delays and breaks, do what module Scan promises the user of a scan:
\* batch by batch, each test judged once by what its two ends observed.
THEOREM SessionImplementsScan == Spec => ImplementsScan
<1>1. Init => Abstract!ScanInit
  BY AbstractFacts DEF Init, ClientInit, Abstract!ScanInit
<1>2. IInv /\ ScanInv /\ [Next]_vars => [Abstract!ScanNext]_(Abstract!scanVars)
  BY StepImplemented
<1>. QED  BY <1>1, <1>2, ScanInductive, PTL DEF Spec, ImplementsScan, Abstract!ScanSpec
-----------------------------------------------------------------------------
(***************************************************************************)
(* The two programs never reject what the other says.  Either end reads    *)
(* from a queue that was filled long before, so the invariant says, for    *)
(* every point the two can be at, that what is still on its way is what    *)
(* the reader has to read next, whatever has been lost behind it.          *)
(***************************************************************************)

\* The messages of the current batch, in the order the client sends them.
BatchMessage(k) == IF k <= Len(batch) THEN Test(batch[k]) ELSE BatchEnd

\* How many of them the client has handed to the connection, and how many of
\* them the server, collecting, has read.
Given ==
  CASE cpc = "send"                      -> IF cout = Nothing THEN sent ELSE sent - 1
    [] cpc = "local" /\ cout # Nothing   -> Len(batch)
    [] OTHER                             -> Len(batch) + 1
Got == IF spc = "collect" THEN Len(sbatch) ELSE 0

\* What the client sends still reaches the server.
Reaches == closed \cap {"server", "wire"} = {}

\* Where the server can be while the client is where it is.
Phases ==
  /\ cpc = "hello" => spc \in {"configure", "ok", "err", "killed"}
  /\ cpc = "ack" => spc \in {"configure", "collect", "ok", "err", "killed"}
  /\ cpc \in {"send", "local", "reports"} => spc \in {"collect", "run", "ok", "err", "killed"}
  /\ cpc = "bye" => spc \in {"collect", "run", "bye", "ok", "err", "killed"}
  /\ cpc \in {"ack", "send", "local", "reports", "bye"} => cversion = sversion

\* What the client is sending.
ClientSays ==
  /\ cpc \in {"hello", "reports"} => cout = Nothing
  /\ cpc = "ack" => cout \in {Nothing, Configure(sversion, Parallel)}
  /\ cpc = "send" => cout = Nothing \/ (sent > 0 /\ cout = Test(batch[sent]))
  /\ cpc = "local" => cout \in {Nothing, BatchEnd}
  /\ cpc = "bye" => cout \in {Nothing, Done}

\* The server on its own.
ServerAt ==
  /\ spc # "rejecting" /\ ~doneAfter
  /\ running # {} => spc = "run"
  /\ spc \in {"collect", "run"} => limit = BatchSize(Parallel)
  /\ ServerOver => "server" \in closed /\ sout = Nothing

\* What is on its way to the server is what it has to read next.
Upstream ==
  /\ spc = "configure" => toServer \in {<<>>, <<Configure(sversion, Parallel)>>}
  /\ spc = "configure" /\ (cpc = "hello" \/ cout # Nothing) => toServer = <<>>
  /\ cpc = "ack" /\ cout # Nothing => spc \notin {"collect", "run"}
  /\ cpc = "ack" /\ spc = "collect" => toServer = <<>> /\ sbatch = <<>>
  /\ spc \in {"collect", "run"} /\ bi \in DOMAIN Plan =>
       /\ spc = "collect" => \A k \in DOMAIN sbatch : k \in DOMAIN batch /\ sbatch[k] = batch[k]
       /\ Got + Len(toServer) <= Given
       /\ \A k \in DOMAIN toServer : toServer[k] = BatchMessage(Got + k)
  /\ spc \in {"collect", "run"} /\ bi \notin DOMAIN Plan =>
       /\ spc = "collect" => sbatch = <<>>
       /\ toServer \in {<<>>, <<Done>>}
       /\ cpc = "bye" /\ cout # Nothing => toServer = <<>>

\* As long as its messages arrive, no message of the client is missing.
NothingLost ==
  Reaches /\ (cpc = "send" \/ (cpc = "local" /\ cout # Nothing)) =>
    Got + Len(toServer) = Given

\* The tests the client still has to hear of.
Owed == IF cpc = "reports" THEN expected ELSE BatchIds
OwedReport(m) == m.type = "report" /\ m.id \in Owed

\* What is on its way to the client is what it has to read next.
Downstream ==
  /\ cpc = "hello" =>
       /\ toClient \in {<<>>, <<Hello(sversion)>>}
       /\ sout \in {Nothing, Hello(sversion)} /\ (sout # Nothing => toClient = <<>>)
  /\ cpc = "ack" =>
       /\ toClient \in {<<>>, <<Ack(TRUE)>>}
       /\ sout \in {Nothing, Ack(TRUE)} /\ (sout # Nothing => toClient = <<>>)
       /\ spc = "configure" => toClient = <<>> /\ sout = Nothing
  /\ cpc = "send" => toClient = <<>> /\ sout = Nothing /\ running = {}
  /\ cpc \in {"local", "reports"} =>
       /\ \A k \in DOMAIN toClient : OwedReport(toClient[k])
       /\ \A k, l \in DOMAIN toClient : k # l => toClient[k].id # toClient[l].id
       /\ sout # Nothing =>
            /\ OwedReport(sout)
            /\ \A k \in DOMAIN toClient : toClient[k].id # sout.id
  /\ cpc = "bye" =>
       /\ toClient \in {<<>>, <<Bye>>}
       /\ sout \in {Nothing, Bye} /\ (sout # Nothing => toClient = <<>>)
       /\ spc \in {"collect", "run"} => toClient = <<>> /\ sout = Nothing

OrderInv ==
  /\ PeersAgree
  /\ Phases /\ ClientSays /\ ServerAt
  /\ Upstream /\ NothingLost /\ Downstream

-----------------------------------------------------------------------------
\* Messages of different kinds differ.
LEMMA MessageTypes ==
  /\ \A v : Hello(v).type = "hello" /\ Hello(v).version = v
  /\ \A v, p : /\ Configure(v, p).type = "configure"
               /\ Configure(v, p).client_version = v /\ Configure(v, p).parallel = p
  /\ \A ok : Ack(ok).type = "ack" /\ Ack(ok).ok = ok
  /\ \A e : Test(e).type = "test" /\ Test(e).entry = e
  /\ \A id, body : Report(id, body).type = "report" /\ Report(id, body).id = id
  /\ BatchEnd.type = "batch_end" /\ Done.type = "done" /\ Bye.type = "bye"
  /\ Nothing.type = "nothing"
BY DEF Hello, Configure, Ack, Test, Report, BatchEnd, Done, Bye, Nothing

\* A queue of one message.
LEMMA QueueOfOne ==
  /\ \A m : /\ <<m>> # <<>> /\ Head(<<m>>) = m /\ Tail(<<m>>) = <<>>
            /\ Append(<<>>, m) = <<m>>
  /\ Len(<<>>) = 0 /\ DOMAIN <<>> = {}
OBVIOUS

\* What the batch and its queue are, once the client is in the plan.
LEMMA BatchFacts ==
  ASSUME IInv
  PROVE  /\ toServer \in Seq(Messages) /\ Len(toServer) \in Nat
         /\ DOMAIN toServer = 1 .. Len(toServer)
         /\ sbatch \in Seq(Entries) /\ Len(sbatch) \in Nat /\ DOMAIN sbatch = 1 .. Len(sbatch)
         /\ Got \in Nat /\ sent \in Nat
         /\ bi \in DOMAIN Plan =>
              /\ Len(batch) \in Nat \ {0} /\ DOMAIN batch = 1 .. Len(batch)
              /\ Len(batch) <= BatchSize(Parallel)
              /\ Given <= Len(batch) + 1
              /\ Given \in Int
<1>. USE DEF IInv, TypeInv
<1>1. /\ toServer \in Seq(Messages) /\ sbatch \in Seq(Entries) /\ sent \in Nat
  BY DEF TypeOK, ChannelTypeOK, ServerTypeOK, ClientTypeOK
<1>2. /\ Len(toServer) \in Nat /\ DOMAIN toServer = 1 .. Len(toServer)
      /\ Len(sbatch) \in Nat /\ DOMAIN sbatch = 1 .. Len(sbatch)
  BY <1>1, LenProperties
<1>3. ASSUME bi \in DOMAIN Plan
      PROVE  /\ Len(batch) \in Nat \ {0} /\ DOMAIN batch = 1 .. Len(batch)
             /\ Len(batch) <= BatchSize(Parallel)
  BY <1>3, PlanFacts, PlanAssumption DEF WellFormed, batch, BatchSize
<1>4. ASSUME bi \in DOMAIN Plan PROVE Given <= Len(batch) + 1 /\ Given \in Int
  <2>1. cpc = "send" => sent <= Len(batch)
    BY DEF ClientAt
  <2>. QED  BY <1>1, <1>3, <1>4, <2>1 DEF Given
<1>. QED  BY <1>1, <1>2, <1>3, <1>4 DEF Got

LEMMA OrderInit == Init => OrderInv
<1>. SUFFICES ASSUME Init PROVE OrderInv
  OBVIOUS
<1>1. /\ toServer = <<>> /\ toClient = <<>> /\ closed = {}
      /\ cpc = "hello" /\ cout = Nothing /\ cerr = "none"
      /\ spc = "configure" /\ sout = Hello(sversion) /\ running = {} /\ serr = "none"
      /\ doneAfter = FALSE
  BY DEF Init, ChannelInit, ClientInit, ServerInit
<1>2. PeersAgree /\ Phases /\ ClientSays /\ ServerAt /\ Upstream
  BY <1>1 DEF PeersAgree, Phases, ClientSays, ServerAt, Upstream, ServerOver
<1>3. NothingLost /\ Downstream
  BY <1>1 DEF NothingLost, Downstream
<1>. QED  BY <1>2, <1>3 DEF OrderInv

-----------------------------------------------------------------------------
\* The client returns: nothing is said of it any more, and what it has sent
\* stays as it is.
LEMMA ClientReturning ==
  ASSUME IInv, OrderInv,
         cpc' \in {"ok", "err", "killed"}, cout' = Nothing, closed \subseteq closed',
         cerr' \in {"none", "closed", "timeout", "version"},
         cerr' = "version" => cversion # sversion,
         UNCHANGED <<serverVars, toServer, cversion, bi>>
  PROVE  OrderInv'
<1>. USE DEF OrderInv
<1>1. PeersAgree' /\ Phases' /\ ClientSays' /\ ServerAt'
  BY DEF PeersAgree, Phases, ClientSays, ServerAt, ServerOver, serverVars
<1>2. bi \in DOMAIN Plan => Given <= Given'
  BY BatchFacts DEF Given, batch
<1>3. Upstream'
  BY <1>2, BatchFacts DEF Upstream, Got, Given, BatchMessage, batch, serverVars
<1>4. NothingLost' /\ Downstream'
  BY DEF NothingLost, Downstream
<1>. QED  BY <1>1, <1>3, <1>4

\* The server returns: nothing reaches it any more.
LEMMA ServerReturning ==
  ASSUME IInv, OrderInv,
         spc' \in {"ok", "err", "killed"}, sout' = Nothing, running' = {},
         "server" \in closed', serr' \in {"none", "closed"},
         UNCHANGED <<clientVars, toClient, sversion, doneAfter>>
  PROVE  OrderInv'
<1>. USE DEF OrderInv, clientVars
<1>1. PeersAgree' /\ Phases' /\ ClientSays' /\ ServerAt'
  BY DEF PeersAgree, Phases, ClientSays, ServerAt, batch
<1>2. Upstream' /\ NothingLost'
  BY DEF Upstream, NothingLost, Reaches
<1>3. Downstream'
  BY DEF Downstream, Owed, OwedReport, BatchIds, batch
<1>. QED  BY <1>1, <1>2, <1>3

\* The connection breaks.
LEMMA OrderCut ==
  ASSUME IInv, OrderInv, UNCHANGED <<serverVars, clientVars, toServer, toClient>>,
         closed \subseteq closed'
  PROVE  OrderInv'
<1>. USE DEF OrderInv, clientVars, serverVars
<1>1. PeersAgree' /\ Phases' /\ ClientSays' /\ ServerAt'
  BY DEF PeersAgree, Phases, ClientSays, ServerAt, ServerOver, batch
<1>2. Upstream' /\ NothingLost'
  BY DEF Upstream, NothingLost, Reaches, Got, Given, BatchMessage, batch
<1>3. Downstream'
  BY DEF Downstream, Owed, OwedReport, BatchIds, batch
<1>. QED  BY <1>1, <1>2, <1>3

-----------------------------------------------------------------------------
\* What a message appended to the queue makes of it.
LEMMA Continued ==
  ASSUME IInv, Upstream, bi \in DOMAIN Plan, spc \in {"collect", "run"},
         NEW m, m = BatchMessage(Got + Len(toServer) + 1),
         toServer' = Append(toServer, m), UNCHANGED <<bi, spc, sbatch>>
  PROVE  /\ Got' = Got /\ Len(toServer') = Len(toServer) + 1
         /\ \A k \in DOMAIN toServer' : toServer'[k] = BatchMessage(Got + k)'
<1>1. toServer \in Seq(Messages) /\ Len(toServer) \in Nat /\ Got \in Nat
  BY BatchFacts
<1>2. \A k : BatchMessage(k)' = BatchMessage(k)
  BY DEF BatchMessage, batch
<1>3. Len(toServer') = Len(toServer) + 1
  BY <1>1
<1>4. Got' = Got
  BY DEF Got
<1>5. ASSUME NEW k \in DOMAIN toServer' PROVE toServer'[k] = BatchMessage(Got + k)
  <2>1. CASE k \in DOMAIN toServer
    BY <1>1, <2>1, QueueFacts DEF Upstream
  <2>2. CASE k = Len(toServer) + 1 /\ toServer'[k] = m
    <3>1. Got + k = Got + Len(toServer) + 1
      BY <1>1, <2>2
    <3>. QED  BY <2>2, <3>1
  <2>. QED  BY <1>1, <1>5, <2>1, <2>2, QueueFacts
<1>. QED  BY <1>2, <1>3, <1>4, <1>5

\* A message of the client is handed to the connection.
LEMMA OrderClientFlush ==
  ASSUME IInv, ScanInv, OrderInv, ClientFlush, UNCHANGED serverVars
  PROVE  OrderInv'
<1>. USE DEF OrderInv
<1>1. /\ cout # Nothing /\ cout' = Nothing
      /\ UNCHANGED <<toClient, cpc, cversion, bi, sent, expected, cerr>>
      /\ UNCHANGED <<spc, sversion, sout, limit, sbatch, running, doneAfter, serr>>
      /\ closed \subseteq closed'
  BY DEF ClientFlush, ClientSends, serverVars
<1>2. cpc \in {"ack", "send", "local", "bye"}
  BY <1>1 DEF ClientSays, ScanInv, ClientSilent, ClientOver, IInv, TypeInv, TypeOK, ClientTypeOK
<1>3. PeersAgree' /\ Phases' /\ ClientSays' /\ ServerAt'
  BY <1>1 DEF PeersAgree, Phases, ClientSays, ServerAt, ServerOver, batch
<1>4. Downstream'
  BY <1>1 DEF Downstream, Owed, OwedReport, BatchIds, batch
<1>5. CASE ~Reaches
  <2>1. toServer' = toServer /\ ~Reaches'
    BY <1>1, <1>5 DEF ClientFlush, ClientSends, Reaches
  <2>2. bi \in DOMAIN Plan => Given <= Given'
    BY <1>1, BatchFacts DEF Given, batch
  <2>3. Upstream'
    BY <1>1, <2>1, <2>2, BatchFacts DEF Upstream, Got, Given, BatchMessage, batch
  <2>4. NothingLost'
    BY <2>1 DEF NothingLost
  <2>. QED  BY <1>3, <1>4, <2>3, <2>4
<1>6. CASE Reaches
  <2>1. toServer' = Append(toServer, cout) /\ closed' = closed
    BY <1>6 DEF ClientFlush, ClientSends, Reaches
  <2>2. ~ServerOver
    BY <1>6 DEF ServerAt, Reaches
  <2>3. CASE cpc = "ack"
    <3>1. spc = "configure" /\ toServer = <<>> /\ cout = Configure(sversion, Parallel)
      BY <1>1, <2>2, <2>3 DEF Phases, Upstream, ClientSays, ServerOver
    <3>2. toServer' = <<Configure(sversion, Parallel)>>
      BY <2>1, <3>1, QueueOfOne
    <3>. QED  BY <1>1, <1>3, <1>4, <2>3, <3>1, <3>2 DEF Upstream, NothingLost
  <2>4. CASE cpc \in {"send", "local"}
    <3>1. bi \in DOMAIN Plan /\ spc \in {"collect", "run"}
      BY <2>2, <2>4 DEF Phases, ServerOver, IInv, TypeInv, ClientAt
    <3>2. Got + Len(toServer) = Given
      BY <1>1, <1>6, <2>4 DEF NothingLost
    <3>3. Given' = Given + 1 /\ cout = BatchMessage(Given + 1)
      <4>1. CASE cpc = "send"
        BY <1>1, <3>1, <4>1, BatchFacts DEF Given, ClientSays, BatchMessage, IInv, TypeInv, ClientAt
      <4>2. CASE cpc = "local"
        BY <1>1, <3>1, <4>2, BatchFacts DEF Given, ClientSays, BatchMessage, batch
      <4>. QED  BY <2>4, <4>1, <4>2
    <3>4. /\ Got' = Got /\ Len(toServer') = Len(toServer) + 1
          /\ \A k \in DOMAIN toServer' : toServer'[k] = BatchMessage(Got + k)'
      BY <1>1, <2>1, <3>1, <3>2, <3>3, Continued
    <3>5. Got' + Len(toServer') = Given'
      BY <3>1, <3>2, <3>3, <3>4, BatchFacts
    <3>6. Got' + Len(toServer') <= Given'
      BY <3>1, <3>3, <3>5, BatchFacts
    <3>7. Upstream'
      <4>1. spc = "collect" => \A k \in DOMAIN sbatch : k \in DOMAIN batch /\ sbatch[k] = batch[k]
        BY <3>1 DEF Upstream
      <4>2. \A k \in DOMAIN toServer' : toServer'[k] = BatchMessage(Got + k)'
        BY <3>4
      <4>. QED  BY <1>1, <2>4, <3>1, <3>4, <3>6, <4>1, <4>2 DEF Upstream, batch
    <3>. QED  BY <1>3, <1>4, <3>5, <3>7 DEF NothingLost
  <2>5. CASE cpc = "bye"
    <3>1. bi \notin DOMAIN Plan /\ cout = Done
      BY <1>1, <2>5, PlanFacts DEF ClientSays, IInv, TypeInv, ClientAt
    <3>2. spc \in {"collect", "run"} => toServer = <<>> /\ toServer' = <<Done>>
      BY <1>1, <2>1, <2>5, <3>1, QueueOfOne DEF Upstream
    <3>3. Upstream'
      BY <1>1, <2>2, <2>5, <3>1, <3>2 DEF Upstream, Phases, ServerOver
    <3>4. NothingLost'
      BY <1>1, <2>5 DEF NothingLost
    <3>. QED  BY <1>3, <1>4, <3>3, <3>4
  <2>. QED  BY <1>2, <2>3, <2>4, <2>5
<1>. QED  BY <1>5, <1>6

\* The Hello is of the client's version, or the client gives up.
LEMMA OrderClientHello ==
  ASSUME IInv, OrderInv, ClientHello, UNCHANGED serverVars
  PROVE  OrderInv'
<1>. USE DEF OrderInv
<1>1. /\ cpc = "hello" /\ toClient = <<Hello(sversion)>> /\ toClient' = <<>>
      /\ Head(toClient) = Hello(sversion) /\ cout = Nothing
      /\ UNCHANGED <<toServer, cversion, bi, sent>>
  BY QueueOfOne DEF ClientHello, ClientTakes, Downstream, ClientSays
<1>2. CASE cversion # sversion
  <2>1. ClientReturns("err", "version")
    BY <1>1, <1>2, MessageTypes DEF ClientHello
  <2>. QED  BY <1>1, <1>2, <2>1, ClientReturning DEF ClientReturns, Dropped
<1>3. CASE cversion = sversion
  <2>1. /\ cpc' = "ack" /\ cout' = Configure(sversion, Parallel)
        /\ UNCHANGED <<closed, cerr>>
        /\ UNCHANGED <<spc, sversion, sout, limit, sbatch, running, doneAfter, serr>>
    BY <1>1, <1>3, MessageTypes DEF ClientHello, serverVars
  <2>2. spc \in {"configure", "ok", "err", "killed"} /\ (spc = "configure" => toServer = <<>>)
    BY <1>1 DEF Phases, Upstream
  <2>3. PeersAgree' /\ Phases' /\ ClientSays' /\ ServerAt'
    BY <1>1, <1>3, <2>1, <2>2 DEF PeersAgree, Phases, ClientSays, ServerAt, ServerOver
  <2>4. Upstream' /\ NothingLost'
    BY <1>1, <2>1, <2>2 DEF Upstream, NothingLost
  <2>5. Downstream'
    BY <1>1, <2>1, <2>2, QueueOfOne DEF Downstream
  <2>. QED  BY <2>3, <2>4, <2>5
<1>. QED  BY <1>2, <1>3

\* The Ack accepts: the server has read Configure and waits for tests.
LEMMA OrderClientAck ==
  ASSUME IInv, OrderInv, ClientAck, UNCHANGED serverVars
  PROVE  OrderInv'
<1>. USE DEF OrderInv
<1>1. /\ cpc = "ack" /\ toClient = <<Ack(TRUE)>> /\ toClient' = <<>>
      /\ Head(toClient) = Ack(TRUE) /\ cout = Nothing
      /\ UNCHANGED <<toServer, cversion, bi, sent>>
  BY QueueOfOne DEF ClientAck, ClientTakes, Downstream
<1>2. /\ cpc' = "send" /\ UNCHANGED <<cout, closed, cerr>>
      /\ UNCHANGED <<spc, sversion, sout, limit, sbatch, running, doneAfter, serr>>
  <2>1. Ack(TRUE).type = "ack" /\ Ack(TRUE).ok
    BY DEF Ack
  <2>. QED  BY <1>1, <2>1 DEF ClientAck, serverVars
<1>3. /\ spc \in {"collect", "ok", "err", "killed"}
      /\ spc = "collect" => toServer = <<>> /\ sbatch = <<>>
  BY <1>1, QueueOfOne DEF Phases, Downstream, Upstream
<1>4. bi \in DOMAIN Plan /\ sent = 0 /\ Given' = 0
  BY <1>1, <1>2 DEF Given, IInv, TypeInv, ClientAt
<1>5. PeersAgree' /\ Phases' /\ ClientSays' /\ ServerAt'
  BY <1>1, <1>2, <1>3 DEF PeersAgree, Phases, ClientSays, ServerAt, ServerOver
<1>6. spc = "collect" => Got' = 0 /\ Len(toServer') = 0 /\ DOMAIN toServer' = {}
  BY <1>1, <1>2, <1>3, QueueOfOne DEF Got
<1>7. Upstream'
  BY <1>1, <1>2, <1>3, <1>4, <1>6, QueueOfOne DEF Upstream
<1>8. NothingLost'
  BY <1>2, <1>3, <1>4, <1>6 DEF NothingLost, ServerAt, ServerOver, Reaches
<1>9. Downstream'
  BY <1>1, <1>2, <1>3, QueueOfOne DEF Downstream, ServerAt
<1>. QED  BY <1>5, <1>7, <1>8, <1>9

\* The client moves on in its batch; the connection is not touched.
LEMMA OrderClientBatch ==
  ASSUME IInv, OrderInv, UNCHANGED serverVars,
         ClientSendTest \/ ClientSendBatchEnd \/ ClientAwaitsReports
  PROVE  OrderInv'
<1>. USE DEF OrderInv
<1>0. UNCHANGED <<spc, sversion, sout, limit, sbatch, running, doneAfter, serr>>
  BY DEF serverVars
<1>1. /\ UNCHANGED <<toServer, toClient, closed, cversion, bi, cerr>>
      /\ cout = Nothing /\ cpc \in {"send", "local"} /\ cpc' \in {"send", "local", "reports"}
      /\ cpc' = "send" => cpc = "send"
  BY DEF ClientSendTest, ClientSendBatchEnd, ClientAwaitsReports, channelVars
<1>2. bi \in DOMAIN Plan
  BY <1>1 DEF IInv, TypeInv, ClientAt
<1>3. PeersAgree' /\ Phases' /\ ServerAt'
  BY <1>0, <1>1 DEF PeersAgree, Phases, ServerAt, ServerOver
<1>4. ClientSays' /\ Given' = Given /\ (NothingLost' \/ ClientAwaitsReports)
      /\ (cpc' # "send" \/ (running = {} /\ toClient = <<>> /\ sout = Nothing))
  <2>1. CASE ClientSendTest
    <3>1. /\ cpc = "send" /\ cpc' = "send" /\ sent' = sent + 1 /\ cout' = Test(batch[sent + 1])
      BY <2>1 DEF ClientSendTest
    <3>2. cout' # Nothing /\ sent' > 0 /\ cout' = Test(batch[sent])'
      BY <1>1, <3>1, MessageTypes, BatchFacts DEF batch
    <3>3. Given' = Given
      BY <1>1, <3>1, <3>2, BatchFacts DEF Given
    <3>. QED  BY <1>0, <1>1, <3>1, <3>2, <3>3 DEF ClientSays, NothingLost, Reaches, Got, Downstream
  <2>2. CASE ClientSendBatchEnd
    <3>1. cpc = "send" /\ cpc' = "local" /\ cout' = BatchEnd /\ sent = Len(batch)
      BY <2>2 DEF ClientSendBatchEnd
    <3>2. cout' # Nothing
      BY <3>1, MessageTypes
    <3>3. Given' = Given
      BY <1>1, <3>1, <3>2 DEF Given, batch
    <3>. QED  BY <1>0, <1>1, <3>1, <3>2, <3>3 DEF ClientSays, NothingLost, Reaches, Got
  <2>3. CASE ClientAwaitsReports
    <3>1. cpc = "local" /\ cpc' = "reports" /\ cout' = Nothing
      BY <1>1, <2>3 DEF ClientAwaitsReports
    <3>. QED  BY <1>1, <2>3, <3>1 DEF ClientSays, Given, batch
  <2>. QED  BY <2>1, <2>2, <2>3
<1>5. NothingLost'
  BY <1>4 DEF NothingLost, ClientAwaitsReports
<1>6. Upstream'
  BY <1>0, <1>1, <1>2, <1>4 DEF Upstream, Phases, Got, BatchMessage, batch
<1>7. Downstream'
  <2>1. CASE cpc' = "send"
    BY <1>0, <1>1, <1>4, <2>1 DEF Downstream
  <2>2. CASE cpc' = "local"
    <3>1. cpc = "send"
      BY <2>2 DEF ClientSendTest, ClientSendBatchEnd, ClientAwaitsReports
    <3>. QED  BY <1>0, <1>1, <2>2, <3>1, QueueOfOne DEF Downstream
  <2>3. CASE cpc' = "reports"
    <3>1. cpc = "local" /\ expected' = BatchIds
      BY <1>1, <2>3 DEF ClientSendTest, ClientSendBatchEnd, ClientAwaitsReports
    <3>2. Owed' = Owed
      BY <2>3, <3>1 DEF Owed
    <3>. QED  BY <1>0, <1>1, <2>3, <3>1, <3>2 DEF Downstream, OwedReport
  <2>. QED  BY <1>1, <2>1, <2>2, <2>3
<1>. QED  BY <1>3, <1>4, <1>5, <1>6, <1>7

\* A local test ends: nothing is said or heard.
LEMMA OrderClientTest ==
  ASSUME IInv, OrderInv, ClientTest
  PROVE  OrderInv'
<1>. USE DEF OrderInv
<1>1. /\ UNCHANGED <<spc, sversion, sout, limit, sbatch, running, doneAfter, serr>>
      /\ UNCHANGED <<toServer, toClient, closed, cpc, cversion, cout, bi, sent, expected, cerr>>
  BY DEF ClientTest, ClientTestEnds, serverVars, channelVars
<1>2. PeersAgree' /\ Phases' /\ ClientSays' /\ ServerAt'
  BY <1>1 DEF PeersAgree, Phases, ClientSays, ServerAt, ServerOver, batch
<1>3. Upstream' /\ NothingLost'
  BY <1>1 DEF Upstream, NothingLost, Reaches, Got, Given, BatchMessage, batch
<1>4. Downstream'
  BY <1>1 DEF Downstream, Owed, OwedReport, BatchIds, batch
<1>. QED  BY <1>2, <1>3, <1>4

\* The report read is one the client waits for, and the last of its test.
LEMMA OrderClientReport ==
  ASSUME IInv, OrderInv, ClientReport, UNCHANGED serverVars
  PROVE  OrderInv'
<1>. USE DEF OrderInv
<1>. DEFINE m == Head(toClient)
<1>0. /\ UNCHANGED <<spc, sversion, sout, limit, sbatch, running, doneAfter, serr>>
      /\ cpc = "reports" /\ toClient # <<>> /\ toClient' = Tail(toClient)
      /\ UNCHANGED <<toServer, cversion, bi, sent>>
  BY DEF ClientReport, ClientTakes, serverVars
<1>1. /\ 1 \in DOMAIN toClient /\ m = toClient[1]
      /\ \A k \in DOMAIN Tail(toClient) :
           k + 1 \in DOMAIN toClient /\ Tail(toClient)[k] = toClient[k + 1] /\ k # 0
           /\ k \in Nat
  <2>1. toClient \in Seq(Messages)
    BY DEF IInv, TypeInv, TypeOK, ChannelTypeOK
  <2>. QED  BY <1>0, <2>1, QueueFacts
<1>2. m.type = "report" /\ m.id \in expected
  BY <1>0, <1>1 DEF Downstream, OwedReport, Owed
<1>3. /\ expected' = expected \ {m.id} /\ UNCHANGED <<cpc, cout, closed, cerr>>
  BY <1>2 DEF ClientReport, Outstanding
<1>4. PeersAgree' /\ Phases' /\ ClientSays' /\ ServerAt'
  BY <1>0, <1>3 DEF PeersAgree, Phases, ClientSays, ServerAt, ServerOver, batch
<1>5. Upstream' /\ NothingLost'
  BY <1>0, <1>3 DEF Upstream, NothingLost, Reaches, Got, Given, BatchMessage, batch
<1>6. Owed = expected /\ Owed' = expected \ {m.id}
  BY <1>0, <1>3 DEF Owed
<1>7. (\A k \in DOMAIN toClient : OwedReport(toClient[k]))'
  <2>. SUFFICES ASSUME NEW k \in DOMAIN toClient'
                PROVE  toClient'[k].type = "report" /\ toClient'[k].id \in expected \ {m.id}
    BY <1>6 DEF OwedReport
  <2>1. k + 1 \in DOMAIN toClient /\ toClient'[k] = toClient[k + 1] /\ k + 1 # 1
    BY <1>0, <1>1
  <2>. QED  BY <1>0, <1>1, <1>6, <2>1 DEF Downstream, OwedReport
<1>8. \A k, l \in DOMAIN toClient' : k # l => toClient'[k].id # toClient'[l].id
  <2>. SUFFICES ASSUME NEW k \in DOMAIN toClient', NEW l \in DOMAIN toClient', k # l
                PROVE  toClient'[k].id # toClient'[l].id
    OBVIOUS
  <2>1. /\ k + 1 \in DOMAIN toClient /\ toClient'[k] = toClient[k + 1]
        /\ l + 1 \in DOMAIN toClient /\ toClient'[l] = toClient[l + 1]
        /\ k + 1 # l + 1
    BY <1>0, <1>1
  <2>. QED  BY <1>0, <2>1 DEF Downstream
<1>9. ASSUME sout # Nothing
      PROVE  OwedReport(sout)' /\ \A k \in DOMAIN toClient' : toClient'[k].id # sout'.id
  <2>1. OwedReport(sout) /\ \A k \in DOMAIN toClient : toClient[k].id # sout.id
    BY <1>0, <1>9 DEF Downstream
  <2>2. sout.id # m.id
    BY <1>1, <2>1
  <2>3. \A k \in DOMAIN toClient' : toClient'[k].id # sout'.id
    BY <1>0, <1>1, <2>1
  <2>. QED  BY <1>0, <1>6, <2>1, <2>2, <2>3 DEF OwedReport
<1>10. Downstream'
  BY <1>0, <1>3, <1>7, <1>8, <1>9 DEF Downstream
<1>. QED  BY <1>4, <1>5, <1>10

\* The batch is tallied: every report of it has been sent and read, so the
\* server has read the whole batch and has nothing left to say.
LEMMA OrderClientTally ==
  ASSUME IInv, ScanInv, OrderInv, ClientTally, UNCHANGED serverVars
  PROVE  OrderInv'
<1>. USE DEF OrderInv
<1>1. /\ cpc = "reports" /\ expected = {} /\ cout = Nothing
      /\ bi' = bi + 1 /\ sent' = 0
      /\ UNCHANGED <<toServer, toClient, closed, cversion, cerr>>
      /\ UNCHANGED <<spc, sversion, sout, limit, sbatch, running, doneAfter, serr>>
  BY DEF ClientTally, AllReported, channelVars, serverVars, ClientSays
<1>2. bi \in DOMAIN Plan /\ bi \in Nat
  BY <1>1, PlanFacts DEF IInv, TypeInv, ClientAt
<1>3. \A i \in DOMAIN batch : batch[i].id \in Ids /\ ~Fresh(batch[i].id)
  <2>1. \A id \in BatchIds : serverOutcome[id] \in Observations
    BY <1>1 DEF IInv, VerdictInv, HoldsReported
  <2>. QED  BY <1>2, <2>1, PlanFacts, VerdictTypes DEF BatchIds, Fresh, batch
<1>4. running = {}
  <2>. SUFFICES ASSUME NEW k \in running PROVE FALSE
    OBVIOUS
  <2>1. Fresh(sbatch[k].id)
    BY DEF IInv, FlowInv, NotYetRun
  <2>2. \E j \in DOMAIN batch : sbatch[k] = batch[j]
    BY RunsCurrent DEF ScanInv, batch
  <2>. QED  BY <1>3, <2>1, <2>2
<1>5. toClient = <<>> /\ sout = Nothing
  <2>1. toClient = <<>>
    <3>1. toClient \in Seq(Messages)
      BY DEF IInv, TypeInv, TypeOK, ChannelTypeOK
    <3>2. DOMAIN toClient = {}
      BY <1>1 DEF Downstream, OwedReport, Owed
    <3>. QED  BY <3>1, <3>2, QueueFacts
  <2>2. sout = Nothing
    BY <1>1 DEF Downstream, OwedReport, Owed
  <2>. QED  BY <2>1, <2>2
<1>6. spc = "collect" => sbatch = <<>>
  <2>. SUFFICES ASSUME spc = "collect", sbatch # <<>> PROVE FALSE
    OBVIOUS
  <2>1. 1 \in DOMAIN sbatch
    BY BatchFacts, QueueFacts
  <2>2. Fresh(sbatch[1].id)
    BY <2>1 DEF IInv, FlowInv, NotYetRun
  <2>3. 1 \in DOMAIN batch /\ sbatch[1] = batch[1]
    BY <1>2, <2>1 DEF Upstream
  <2>. QED  BY <1>3, <2>2, <2>3
<1>7. spc \in {"collect", "run"} => toServer = <<>>
  <2>. SUFFICES ASSUME spc \in {"collect", "run"}, toServer # <<>> PROVE FALSE
    OBVIOUS
  <2>1. 1 \in DOMAIN toServer
    BY BatchFacts, QueueFacts
  <2>2. Got = 0
    BY <1>6, QueueOfOne DEF Got
  <2>3. toServer[1] = Test(batch[1]) /\ 1 \in DOMAIN batch
    <3>1. toServer[1] = BatchMessage(0 + 1)
      BY <1>2, <2>1, <2>2 DEF Upstream
    <3>2. 1 <= Len(batch) /\ 1 \in DOMAIN batch
      BY <1>2, BatchFacts
    <3>. QED  BY <3>1, <3>2 DEF BatchMessage
  <2>4. InTransit(batch[1].id)
    BY <2>1, <2>3, MessageTypes DEF InTransit
  <2>5. Fresh(batch[1].id)
    BY <1>3, <2>3, <2>4 DEF IInv, FlowInv, NotYetRun
  <2>. QED  BY <1>3, <2>3, <2>5
<1>8. spc \in {"collect", "run"} => Got' = 0 /\ Len(toServer') = 0 /\ DOMAIN toServer' = {}
  BY <1>1, <1>6, <1>7, QueueOfOne DEF Got
<1>9. \/ cpc' = "send" /\ cout' = Nothing /\ bi' \in DOMAIN Plan
      \/ cpc' = "bye" /\ cout' = Done /\ bi' \notin DOMAIN Plan
  <2>1. CASE bi < Len(Plan)
    BY <1>1, <1>2, <2>1, PlanFacts DEF ClientTally
  <2>2. CASE ~(bi < Len(Plan))
    BY <1>1, <1>2, <2>2, PlanFacts DEF ClientTally
  <2>. QED  BY <2>1, <2>2
<1>10. PeersAgree' /\ Phases' /\ ClientSays' /\ ServerAt'
  BY <1>1, <1>9 DEF PeersAgree, Phases, ClientSays, ServerAt, ServerOver
<1>11. cpc' = "send" => Given' = 0
  BY <1>1, <1>9 DEF Given
<1>12. spc \in {"collect", "run", "ok", "err", "killed"}
  BY <1>1 DEF Phases
<1>13. Upstream'
  BY <1>1, <1>6, <1>7, <1>8, <1>9, <1>11, <1>12, QueueOfOne DEF Upstream
<1>14. NothingLost'
  BY <1>1, <1>8, <1>9, <1>11, <1>12 DEF NothingLost, Reaches, ServerAt, ServerOver
<1>15. Downstream'
  BY <1>1, <1>4, <1>5, <1>9 DEF Downstream
<1>. QED  BY <1>10, <1>13, <1>14, <1>15

\* The answer to Done is Bye.
LEMMA OrderClientBye ==
  ASSUME IInv, OrderInv, ClientBye, UNCHANGED serverVars
  PROVE  OrderInv'
<1>1. Head(toClient) = Bye
  BY QueueOfOne DEF ClientBye, ClientTakes, OrderInv, Downstream
<1>2. ClientReturns("ok", "none") /\ UNCHANGED <<toServer, cversion, bi>>
  BY <1>1, MessageTypes DEF ClientBye
<1>. QED  BY <1>2, ClientReturning DEF ClientReturns, Dropped

-----------------------------------------------------------------------------
\* A message of the server is handed to the connection.
LEMMA OrderServerFlush ==
  ASSUME IInv, OrderInv, ServerFlush, UNCHANGED clientVars
  PROVE  OrderInv'
<1>. USE DEF OrderInv
<1>1. /\ sout # Nothing /\ sout' = Nothing
      /\ UNCHANGED <<toServer, cpc, cversion, cout, bi, sent, expected, cerr>>
      /\ UNCHANGED <<spc, sversion, limit, sbatch, running, doneAfter, serr>>
      /\ closed \subseteq closed'
      /\ toClient' = toClient \/ toClient' = Append(toClient, sout)
  BY DEF ServerFlush, ServerSends, clientVars
<1>2. PeersAgree' /\ Phases' /\ ClientSays' /\ ServerAt'
  BY <1>1 DEF PeersAgree, Phases, ClientSays, ServerAt, ServerOver, batch
<1>3. Upstream' /\ NothingLost'
  BY <1>1 DEF Upstream, NothingLost, Reaches, Got, Given, BatchMessage, batch
<1>4. Downstream'
  <2>1. CASE cpc \in {"hello", "ack", "bye"}
    <3>1. cpc = "hello" => toClient = <<>> /\ sout = Hello(sversion)
      BY <1>1 DEF Downstream
    <3>2. cpc = "ack" => toClient = <<>> /\ sout = Ack(TRUE) /\ spc # "configure"
      BY <1>1 DEF Downstream
    <3>3. cpc = "bye" => toClient = <<>> /\ sout = Bye /\ spc \notin {"collect", "run"}
      BY <1>1 DEF Downstream
    <3>. QED  BY <1>1, <2>1, <3>1, <3>2, <3>3, QueueOfOne DEF Downstream
  <2>2. CASE cpc = "send"
    BY <1>1, <2>2 DEF Downstream
  <2>3. CASE cpc \in {"local", "reports"}
    <3>1. /\ OwedReport(sout) /\ \A k \in DOMAIN toClient : toClient[k].id # sout.id
          /\ \A k \in DOMAIN toClient : OwedReport(toClient[k])
          /\ \A k, l \in DOMAIN toClient : k # l => toClient[k].id # toClient[l].id
      BY <1>1, <2>3 DEF Downstream
    <3>2. \A k \in DOMAIN toClient' :
            \/ k \in DOMAIN toClient /\ toClient'[k] = toClient[k]
            \/ k = Len(toClient) + 1 /\ k \notin DOMAIN toClient /\ toClient'[k] = sout
      BY <1>1, QueueFacts DEF IInv, TypeInv, TypeOK, ChannelTypeOK
    <3>3. Owed' = Owed
      BY <1>1 DEF Owed, BatchIds, batch
    <3>4. (\A k \in DOMAIN toClient : OwedReport(toClient[k]))'
      BY <3>1, <3>2, <3>3 DEF OwedReport
    <3>5. \A k, l \in DOMAIN toClient' : k # l => toClient'[k].id # toClient'[l].id
      BY <3>1, <3>2
    <3>. QED  BY <1>1, <2>3, <3>4, <3>5 DEF Downstream
  <2>4. CASE cpc \in {"ok", "err", "killed"}
    BY <1>1, <2>4 DEF Downstream
  <2>. QED  BY <2>1, <2>2, <2>3, <2>4 DEF IInv, TypeInv, TypeOK, ClientTypeOK
<1>. QED  BY <1>2, <1>3, <1>4

\* Configure is the first message read, and of the server's version.
LEMMA OrderServerConfigure ==
  ASSUME IInv, ScanInv, OrderInv, ServerConfigure, UNCHANGED clientVars
  PROVE  OrderInv'
<1>. USE DEF OrderInv
<1>1. /\ spc = "configure" /\ sout = Nothing
      /\ toServer = <<Configure(sversion, Parallel)>> /\ toServer' = <<>>
      /\ Head(toServer) = Configure(sversion, Parallel)
      /\ UNCHANGED <<toClient, sversion, sbatch, doneAfter>>
      /\ UNCHANGED <<cpc, cversion, cout, bi, sent, expected, cerr>>
  BY QueueOfOne DEF ServerConfigure, ServerTakes, Upstream, clientVars
<1>2. /\ limit' = BatchSize(Parallel) /\ sout' = Ack(TRUE) /\ spc' = "collect"
      /\ UNCHANGED <<closed, running, serr>>
  <2>1. /\ Head(toServer).type = "configure" /\ Head(toServer).parallel = Parallel
        /\ Head(toServer).client_version = sversion
    BY <1>1, MessageTypes
  <2>2. (Head(toServer).client_version = sversion) = TRUE
    BY <2>1
  <2>3. LimitOf(Parallel) = BatchSize(Parallel)
    BY DEF LimitOf, BatchSize
  <2>. QED  BY <2>1, <2>2, <2>3 DEF ServerConfigure
<1>3. cpc \in {"ack", "ok", "err", "killed"} /\ cout = Nothing
  BY <1>1 DEF Phases, Upstream, IInv, TypeInv, TypeOK, ClientTypeOK
<1>4. sbatch = <<>>
  BY <1>1 DEF IInv, FlowInv
<1>5. PeersAgree' /\ Phases' /\ ClientSays' /\ ServerAt'
  BY <1>1, <1>2, <1>3 DEF PeersAgree, Phases, ClientSays, ServerAt, ServerOver
<1>6. /\ Got' = 0 /\ Len(toServer') = 0 /\ DOMAIN toServer' = {} /\ DOMAIN sbatch' = {}
      /\ Given' = Given /\ (bi \in DOMAIN Plan => 0 <= Given)
  BY <1>1, <1>2, <1>3, <1>4, QueueOfOne, BatchFacts DEF Got, Given, batch
<1>7. Upstream' /\ NothingLost'
  BY <1>1, <1>2, <1>3, <1>4, <1>6, QueueOfOne DEF Upstream, NothingLost
<1>8. Downstream'
  BY <1>1, <1>2, <1>3 DEF Downstream
<1>. QED  BY <1>5, <1>7, <1>8

\* The test read is the next of the batch: there is room for it, and its
\* protocol is registered.
LEMMA OrderServerTest ==
  ASSUME IInv, OrderInv, ServerTest, UNCHANGED clientVars
  PROVE  OrderInv'
<1>. USE DEF OrderInv
<1>1. /\ spc = "collect" /\ sout = Nothing /\ toServer # <<>> /\ toServer' = Tail(toServer)
      /\ Head(toServer).type = "test"
      /\ UNCHANGED <<toClient, sversion, limit, doneAfter>>
      /\ UNCHANGED <<cpc, cversion, cout, bi, sent, expected, cerr>>
  BY DEF ServerTest, ServerTakes, clientVars
<1>2. /\ 1 \in DOMAIN toServer /\ Head(toServer) = toServer[1] /\ Len(toServer') = Len(toServer) - 1
      /\ \A k \in DOMAIN toServer' :
           k + 1 \in DOMAIN toServer /\ toServer'[k] = toServer[k + 1] /\ k \in Nat
  BY <1>1, BatchFacts, QueueFacts
<1>3. bi \in DOMAIN Plan
  BY <1>1, MessageTypes, QueueOfOne DEF Upstream
<1>4. Got = Len(sbatch) /\ Head(toServer) = BatchMessage(Len(sbatch) + 1)
  BY <1>1, <1>2, <1>3 DEF Upstream, Got
<1>5. Len(sbatch) + 1 \in DOMAIN batch /\ Head(toServer) = Test(batch[Len(sbatch) + 1])
  BY <1>1, <1>3, <1>4, MessageTypes, BatchFacts DEF BatchMessage
<1>6. ~BatchFull /\ Head(toServer).entry = batch[Len(sbatch) + 1]
      /\ Runnable(Head(toServer).entry)
  <2>1. batch[Len(sbatch) + 1] \in Entries
    BY <1>3, <1>5, PlanFacts DEF batch
  <2>2. ~BatchFull
    <3>1. limit \in Nat /\ limit = BatchSize(Parallel)
      BY <1>1 DEF ServerAt, IInv, TypeInv, TypeOK, ServerTypeOK
    <3>. QED  BY <1>3, <1>5, <3>1, BatchFacts DEF BatchFull
  <2>. QED  BY <1>5, <2>1, <2>2, MessageTypes, RegistryAssumption
<1>7. /\ sbatch' = Append(sbatch, batch[Len(sbatch) + 1])
      /\ UNCHANGED <<spc, running, sout, closed, serr>>
  BY <1>6 DEF ServerTest
<1>8. PeersAgree' /\ Phases' /\ ClientSays' /\ ServerAt'
  BY <1>1, <1>7 DEF PeersAgree, Phases, ClientSays, ServerAt, ServerOver, batch
<1>9. Got' = Got + 1 /\ Got' + Len(toServer') = Got + Len(toServer) /\ Given' = Given
  <2>1. Len(sbatch') = Len(sbatch) + 1
    BY <1>7, BatchFacts
  <2>. QED  BY <1>1, <1>2, <1>4, <1>7, <2>1, BatchFacts DEF Got, Given, batch
<1>10. Upstream'
  <2>1. \A k \in DOMAIN sbatch' : k \in DOMAIN batch /\ sbatch'[k] = batch[k]
    BY <1>1, <1>3, <1>5, <1>7, BatchFacts, QueueFacts DEF Upstream
  <2>2. (\A k \in DOMAIN toServer : toServer[k] = BatchMessage(Got + k))'
    <3>. SUFFICES ASSUME NEW k \in DOMAIN toServer'
                  PROVE  toServer'[k] = BatchMessage(Got + 1 + k)
      BY <1>1, <1>9 DEF BatchMessage, batch
    <3>1. toServer'[k] = BatchMessage(Got + (k + 1))
      BY <1>1, <1>2, <1>3 DEF Upstream
    <3>2. Got + (k + 1) = Got + 1 + k
      BY <1>2, BatchFacts
    <3>. QED  BY <3>1, <3>2
  <2>3. Got' + Len(toServer') <= Given'
    BY <1>1, <1>3, <1>9 DEF Upstream
  <2>4. cpc # "ack"
    BY <1>1 DEF Upstream
  <2>. QED  BY <1>1, <1>3, <1>7, <2>1, <2>2, <2>3, <2>4 DEF Upstream, batch
<1>11. NothingLost'
  BY <1>1, <1>7, <1>9 DEF NothingLost, Reaches
<1>12. Downstream'
  BY <1>1, <1>7 DEF Downstream, Owed, OwedReport, BatchIds, batch
<1>. QED  BY <1>8, <1>10, <1>11, <1>12

\* BatchEnd is read after all the tests of the batch, and Done after none.
LEMMA OrderServerBatchEnd ==
  ASSUME IInv, OrderInv, ServerBatchEnd, UNCHANGED clientVars
  PROVE  OrderInv'
<1>. USE DEF OrderInv
<1>1. /\ spc = "collect" /\ sout = Nothing /\ toServer # <<>> /\ toServer' = Tail(toServer)
      /\ Head(toServer).type # "test"
      /\ UNCHANGED <<toClient, sversion, limit, sbatch>>
      /\ UNCHANGED <<cpc, cversion, cout, bi, sent, expected, cerr>>
  BY DEF ServerBatchEnd, ServerTakes, clientVars
<1>2. /\ 1 \in DOMAIN toServer /\ Head(toServer) = toServer[1] /\ Len(toServer') = Len(toServer) - 1
  BY <1>1, BatchFacts, QueueFacts
<1>3. cpc \notin {"hello", "ack"}
  BY <1>1 DEF Upstream, Phases
<1>4. CASE bi \in DOMAIN Plan
  <2>1. Got = Len(sbatch) /\ Head(toServer) = BatchMessage(Len(sbatch) + 1)
    BY <1>1, <1>2, <1>4 DEF Upstream, Got
  <2>2. Len(sbatch) + 1 > Len(batch) /\ Head(toServer) = BatchEnd
    BY <1>1, <1>4, <2>1, MessageTypes, BatchFacts DEF BatchMessage
  <2>3. sbatch # <<>>
    BY <1>4, <2>2, BatchFacts, QueueOfOne
  <2>4. /\ spc' = "run" /\ doneAfter' = FALSE
        /\ UNCHANGED <<sout, closed, serr>>
    BY <2>2, <2>3, MessageTypes DEF ServerBatchEnd
  <2>5. Got + Len(toServer) <= Given
    BY <1>1, <1>4 DEF Upstream
  <2>6. Given = Len(batch) + 1 /\ Len(toServer) = 1
    BY <1>2, <1>4, <2>1, <2>2, <2>5, BatchFacts
  <2>7. toServer' = <<>> /\ Given' = Given
    BY <1>1, <1>2, <2>6, BatchFacts DEF Given, batch
  <2>8. cpc # "send" /\ ~(cpc = "local" /\ cout # Nothing)
    BY <1>4, <2>6, BatchFacts DEF Given, IInv, TypeInv, ClientAt
  <2>9. PeersAgree' /\ Phases' /\ ClientSays' /\ ServerAt'
    BY <1>1, <1>3, <2>4 DEF PeersAgree, Phases, ClientSays, ServerAt, ServerOver, batch
  <2>10. Upstream'
    <3>1. Got' = 0 /\ Len(toServer') = 0 /\ DOMAIN toServer' = {}
      BY <2>4, <2>7, QueueOfOne DEF Got
    <3>2. Got' + Len(toServer') <= Given'
      BY <1>4, <2>6, <2>7, <3>1, BatchFacts
    <3>. QED  BY <1>1, <1>3, <1>4, <2>4, <3>1, <3>2 DEF Upstream
  <2>11. NothingLost'
    BY <1>1, <2>8 DEF NothingLost
  <2>12. Downstream'
    BY <1>1, <1>3, <2>4, <2>8 DEF Downstream, Owed, OwedReport, BatchIds, batch
  <2>. QED  BY <2>9, <2>10, <2>11, <2>12
<1>5. CASE bi \notin DOMAIN Plan
  <2>1. sbatch = <<>> /\ Head(toServer) = Done
    BY <1>1, <1>5, QueueOfOne DEF Upstream
  <2>2. spc' = "bye" /\ sout' = Bye /\ UNCHANGED <<running, doneAfter, closed, serr>>
    BY <2>1, MessageTypes DEF ServerBatchEnd
  <2>3. cpc \in {"bye", "ok", "err", "killed"}
    BY <1>5 DEF IInv, TypeInv, TypeOK, ClientTypeOK, ClientAt
  <2>4. PeersAgree' /\ Phases' /\ ClientSays' /\ ServerAt'
    BY <1>1, <2>2, <2>3 DEF PeersAgree, Phases, ClientSays, ServerAt, ServerOver
  <2>5. Upstream' /\ NothingLost'
    BY <1>1, <2>2, <2>3 DEF Upstream, NothingLost
  <2>6. Downstream'
    BY <1>1, <2>2, <2>3 DEF Downstream
  <2>. QED  BY <2>4, <2>5, <2>6
<1>. QED  BY <1>4, <1>5

\* The batch is over: the server collects the next one.
LEMMA OrderServerBatchOver ==
  ASSUME IInv, OrderInv, ServerBatchOver, UNCHANGED clientVars
  PROVE  OrderInv'
<1>. USE DEF OrderInv
<1>1. /\ spc = "run" /\ spc' = "collect" /\ sout = Nothing /\ sout' = Nothing /\ sbatch' = <<>>
      /\ running = {}
      /\ UNCHANGED <<toServer, toClient, closed, sversion, limit, running, doneAfter, serr>>
      /\ UNCHANGED <<cpc, cversion, cout, bi, sent, expected, cerr>>
  BY DEF ServerBatchOver, BatchDone, ServerAt, channelVars, clientVars
<1>2. cpc \notin {"hello", "ack"}
  BY <1>1 DEF Phases
<1>3. PeersAgree' /\ Phases' /\ ClientSays' /\ ServerAt'
  BY <1>1, <1>2 DEF PeersAgree, Phases, ClientSays, ServerAt, ServerOver, batch
<1>4. Got = 0 /\ Got' = 0 /\ DOMAIN sbatch' = {} /\ Given' = Given
  BY <1>1, QueueOfOne DEF Got, Given, batch
<1>5. Upstream'
  BY <1>1, <1>2, <1>4 DEF Upstream, BatchMessage, batch
<1>6. NothingLost'
  BY <1>1, <1>4 DEF NothingLost, Reaches
<1>7. Downstream'
  BY <1>1, <1>2 DEF Downstream, Owed, OwedReport, BatchIds, batch
<1>. QED  BY <1>3, <1>5, <1>6, <1>7

\* A test of the server ends: the client is still owed its report.
LEMMA OrderServerRun ==
  ASSUME IInv, ScanInv, OrderInv, ServerRun
  PROVE  OrderInv'
<1>. USE DEF OrderInv
<1>. PICK i \in DOMAIN sbatch, r \in Results :
       ServerTestEnds(i, r) /\ UNCHANGED clientVars
  BY DEF ServerRun
<1>1. /\ spc = "run" /\ sout = Nothing /\ i \in running /\ running' = running \ {i}
      /\ sout' = Report(sbatch[i].id, protocol_result_to_report(r))
      /\ UNCHANGED <<toServer, toClient, closed, spc, sversion, limit, sbatch, doneAfter, serr>>
      /\ UNCHANGED <<cpc, cversion, cout, bi, sent, expected, cerr>>
  BY DEF ServerTestEnds, channelVars, clientVars
<1>2. bi \in DOMAIN Plan /\ sbatch[i].id \in BatchIds
  BY <1>1, RunsCurrent DEF ScanInv, BatchIds, batch
<1>3. Fresh(sbatch[i].id)
  BY <1>1 DEF IInv, FlowInv, NotYetRun
<1>4. cpc \in {"local", "reports", "ok", "err", "killed"}
  BY <1>1, <1>2, PlanFacts
     DEF Phases, Downstream, IInv, TypeInv, TypeOK, ClientTypeOK, ClientAt
<1>5. PeersAgree' /\ Phases' /\ ClientSays' /\ ServerAt'
  BY <1>1, <1>4 DEF PeersAgree, Phases, ClientSays, ServerAt, ServerOver, batch
<1>6. Upstream' /\ NothingLost'
  BY <1>1 DEF Upstream, NothingLost, Reaches, Got, Given, BatchMessage, batch
<1>7. sbatch[i].id \in Owed
  BY <1>2, <1>3, VerdictTypes DEF Owed, Fresh, IInv, VerdictInv, HoldsReported
<1>8. /\ sout'.type = "report" /\ sout'.id = sbatch[i].id
      /\ Owed' = Owed
  BY <1>1, MessageTypes DEF Owed, BatchIds, batch
<1>9. cpc \in {"local", "reports"} =>
        \A k \in DOMAIN toClient : OwedReport(toClient[k]) /\ toClient[k].id # sbatch[i].id
  <2>. SUFFICES ASSUME cpc \in {"local", "reports"}, NEW k \in DOMAIN toClient
                PROVE  OwedReport(toClient[k]) /\ toClient[k].id # sbatch[i].id
    OBVIOUS
  <2>1. OwedReport(toClient[k])
    BY DEF Downstream
  <2>2. serverOutcome[toClient[k].id] \in Observations
    BY <2>1 DEF OwedReport, IInv, ReportInv, Truthful
  <2>. QED  BY <1>3, <2>1, <2>2, VerdictTypes DEF Fresh
<1>10. Downstream'
  BY <1>1, <1>4, <1>7, <1>8, <1>9 DEF Downstream, OwedReport
<1>. QED  BY <1>5, <1>6, <1>10

-----------------------------------------------------------------------------
LEMMA OrderStep == IInv /\ ScanInv /\ OrderInv /\ [Next]_vars => OrderInv'
<1>. SUFFICES ASSUME IInv, ScanInv, OrderInv, [Next]_vars PROVE OrderInv'
  OBVIOUS
<1>1. CASE ClientStep
  <2>0. UNCHANGED serverVars
    BY <1>1 DEF ClientStep
  <2>1. CASE ClientLosesChannel
    BY <2>0, <2>1, ClientReturning DEF ClientLosesChannel, ClientReturns, Dropped
  <2>. QED
    BY <1>1, <2>0, <2>1, OrderClientFlush, OrderClientHello, OrderClientAck, OrderClientBatch,
       OrderClientReport, OrderClientTally, OrderClientBye
       DEF ClientStep
<1>2. CASE ServerStep
  <2>0. UNCHANGED clientVars
    BY <1>2 DEF ServerStep
  <2>1. CASE ServerEnds \/ ServerLosesChannel
    <3>1. serr' \in {"none", "closed"}
      BY <2>1 DEF ServerEnds, ServerLosesChannel, ServerReturns, OrderInv, ServerAt
    <3>. QED
      BY <2>0, <2>1, <3>1, ServerReturning DEF ServerEnds, ServerLosesChannel, ServerReturns, Dropped
  <2>. QED
    BY <1>2, <2>0, <2>1, OrderServerFlush, OrderServerConfigure, OrderServerTest,
       OrderServerBatchEnd, OrderServerBatchOver
       DEF ServerStep
<1>3. CASE Fault
  <2>1. CASE Cut /\ UNCHANGED <<serverVars, clientVars>>
    BY <2>1, OrderCut DEF Cut
  <2>2. CASE (ClientKilled \/ ClientReportTimeout) /\ UNCHANGED serverVars
    BY <2>2, ClientReturning DEF ClientKilled, ClientReportTimeout, ClientReturns, Dropped
  <2>3. CASE ServerKilled /\ UNCHANGED clientVars
    BY <2>3, ServerReturning DEF ServerKilled, ServerReturns, Dropped
  <2>. QED  BY <1>3, <2>1, <2>2, <2>3 DEF Fault
<1>4. CASE UNCHANGED vars
  BY <1>4, OrderCut DEF vars, channelVars
<1>. QED
  BY <1>1, <1>2, <1>3, <1>4, OrderClientTest, OrderServerRun DEF Next, Finished

\* run_client, execute_batch and run_server of one build never reject what
\* the other says, in whatever order the tests end and whatever breaks: the
\* queues between them hold what the reader has to read next.
THEOREM PeersAlwaysAgree == Spec => []PeersAgree
<1>1. Init => OrderInv
  BY OrderInit
<1>2. IInv /\ ScanInv /\ OrderInv /\ [Next]_vars => OrderInv'
  BY OrderStep
<1>3. OrderInv => PeersAgree
  BY DEF OrderInv
<1>. QED  BY <1>1, <1>2, <1>3, ScanInductive, PTL DEF Spec
=============================================================================
