------------------------------- MODULE Client -------------------------------
(***************************************************************************)
(* The client from the moment its TLS connection is up: main reads the     *)
(* Hello, run_client configures the server and executes the batches of the *)
(* plan one after the other (execute_batch), then says Done and waits for  *)
(* Bye.  Plan is what run_client's loops produce, see module ScanPlan.     *)
(***************************************************************************)
EXTENDS ControlChannel, FiniteSets, Batches

CONSTANTS
  Plan,       \* the batches of tests, in the order they are executed
  Parallel,   \* --parallel
  NoResult    \* no local result yet for a test

Entries == EntriesOf(Plan)
Ids == {e.id : e \in Entries}

\* What run_client's loops guarantee about the batches they flush.
ASSUME PlanAssumption ==
  /\ Parallel \in Nat
  /\ Plan \in Seq(Seq(Entries)) /\ Plan # <<>>
  /\ WellFormed(Plan, Parallel)

ASSUME NoResultAssumption == NoResult \notin ProtocolResult

VARIABLES
  cpc,          \* where the client is
  cversion,     \* PROTOCOL_VERSION of the client's build
  cout,         \* the message being sent, or Nothing
  bi,           \* the batch being executed, past the last one when done
  sent,         \* tests of the batch already handed to the channel
  completed,    \* local results by test id, NoResult when absent
  expected,     \* ids whose report has not arrived
  serverErrors, \* reasons reported by the server, by test id
  counts,       \* passed, failed, errors
  results,      \* the verdicts printed or kept for the summary, in order
  cerr          \* why the client failed, or "none"

clientVars == <<cpc, cversion, cout, bi, sent, completed, expected,
                serverErrors, counts, results, cerr>>

batch == Plan[bi]
BatchIds == {batch[i].id : i \in DOMAIN batch}

ClientInit ==
  /\ cpc = "hello"
  /\ cversion \in Versions
  /\ cout = Nothing
  /\ bi = 1
  /\ sent = 0
  /\ completed = [id \in Ids |-> NoResult]
  /\ expected = {}
  /\ serverErrors = [id \in Ids |-> NoReason]
  /\ counts = [s \in Statuses |-> 0]
  /\ results = <<>>
  /\ cerr = "none"

ClientOver == cpc \in {"ok", "err", "killed"}

\* The process exits and its channel is dropped.
ClientReturns(outcome, cause) ==
  /\ cpc' = outcome
  /\ cerr' = cause
  /\ cout' = Nothing
  /\ Dropped("client", toClient' # <<>>)

\* main's exit code once the client has returned.
ExitCode_IgnoresErrors ==
  IF cpc # "ok" THEN 3 ELSE IF counts["fail"] > 0 THEN 1 ELSE 0
ExitCode ==
  IF cpc # "ok" THEN 3
  ELSE IF counts["fail"] > 0 \/ counts["error"] > 0 THEN 1 ELSE 0

\* A send completes.
ClientFlush ==
  /\ cout # Nothing
  /\ ClientSends(cout)
  /\ cout' = Nothing
  /\ UNCHANGED <<cpc, cversion, bi, sent, completed, expected, serverErrors,
                 counts, results, cerr>>

\* The client is in channel.recv().await.
Receiving ==
  /\ cout = Nothing
  /\ \/ cpc \in {"hello", "ack", "bye"}
     \/ cpc = "reports" /\ expected # {}

\* A receive or a send fails.
ClientLosesChannel ==
  /\ \/ cout # Nothing /\ Broken
     \/ Receiving /\ ClientHearsEnd
  /\ UNCHANGED <<toServer, toClient, cversion, bi, sent, completed, expected,
                 serverErrors, counts, results>>
  /\ ClientReturns("err", "closed")

\* main: the Hello must carry the client's own version; then Configure.
ClientHello ==
  /\ cpc = "hello"
  /\ ClientTakes
  /\ LET m == Head(toClient) IN
       IF m.type = "hello" /\ m.version = cversion
       THEN /\ cpc' = "ack"
            /\ cout' = Configure(cversion, Parallel)
            /\ UNCHANGED <<closed, cerr>>
       ELSE ClientReturns("err", IF m.type = "hello" THEN "version" ELSE "protocol")
  /\ UNCHANGED <<toServer, cversion, bi, sent, completed, expected,
                 serverErrors, counts, results>>

\* The Ack of Configure; the first batch starts.
ClientAck ==
  /\ cpc = "ack" /\ cout = Nothing
  /\ ClientTakes
  /\ LET m == Head(toClient) IN
       IF m.type = "ack" /\ m.ok
       THEN cpc' = "send" /\ UNCHANGED <<cout, closed, cerr>>
       ELSE ClientReturns("err", IF m.type = "ack" THEN "rejected" ELSE "protocol")
  /\ UNCHANGED <<toServer, cversion, bi, sent, completed, expected,
                 serverErrors, counts, results>>

\* execute_batch sends its tests one by one, then BatchEnd; the local tests
\* start once BatchEnd is sent.
ClientSendTest ==
  /\ cpc = "send" /\ cout = Nothing
  /\ sent < Len(batch)
  /\ cout' = Test(batch[sent + 1])
  /\ sent' = sent + 1
  /\ UNCHANGED <<channelVars, cpc, cversion, bi, completed, expected,
                 serverErrors, counts, results, cerr>>

ClientSendBatchEnd ==
  /\ cpc = "send" /\ cout = Nothing
  /\ sent = Len(batch)
  /\ cout' = BatchEnd
  /\ cpc' = "local"
  /\ UNCHANGED <<channelVars, cversion, bi, sent, completed, expected,
                 serverErrors, counts, results, cerr>>

\* A test of the batch whose local run is not over.
Pending_Unchecked(id) == id \in BatchIds
Pending(id) == id \in BatchIds /\ completed[id] = NoResult

\* A local test of the batch ends, in any order.
ClientTestEnds(id, result) ==
  /\ cpc = "local" /\ cout = Nothing
  /\ Pending(id)
  /\ completed' = [completed EXCEPT ![id] = result]
  /\ UNCHANGED <<channelVars, cpc, cversion, cout, bi, sent, expected,
                 serverErrors, counts, results, cerr>>

\* Every local test has ended: the client turns to the reports.
ClientAwaitsReports ==
  /\ cpc = "local" /\ cout = Nothing
  /\ ~ \E id \in BatchIds : Pending(id)
  /\ cpc' = "reports"
  /\ expected' = BatchIds
  /\ UNCHANGED <<channelVars, cversion, cout, bi, sent, completed,
                 serverErrors, counts, results, cerr>>

Outstanding_AnyOfBatch(id) == id \in BatchIds
Outstanding(id) == id \in expected

\* One report: its id must be outstanding; an error in it is reconciled with
\* the local result and remembered.
ClientReport ==
  /\ cpc = "reports" /\ expected # {}
  /\ ClientTakes
  /\ LET m == Head(toClient) IN
       IF m.type = "report" /\ Outstanding(m.id)
       THEN /\ expected' = expected \ {m.id}
            /\ completed' =
                 [completed EXCEPT ![m.id] = Reconcile(@, m.body)]
            /\ serverErrors' = [serverErrors EXCEPT ![m.id] = m.body.error]
            /\ UNCHANGED <<cpc, cout, closed, cerr>>
       ELSE /\ ClientReturns("err", "protocol")
            /\ UNCHANGED <<expected, completed, serverErrors>>
  /\ UNCHANGED <<toServer, cversion, bi, sent, counts, results>>

\* No report within receive_timeout.
ClientReportTimeout_Never == FALSE
ClientReportTimeout ==
  /\ cpc = "reports" /\ expected # {}
  /\ UNCHANGED <<toServer, toClient, cversion, bi, sent, completed, expected,
                 serverErrors, counts, results>>
  /\ ClientReturns("err", "timeout")

\* The TestEntry of a finished test.
TestEntry(entry) ==
  [entry        |-> entry,
   result       |-> completed[entry.id],
   server_error |-> serverErrors[entry.id]]

\* The verdicts of a fully reported batch.
BatchVerdicts == [i \in DOMAIN batch |-> TestEntry(batch[i])]

\* How many tests of the batch have a status.
CountOf_Distinct(s) ==
  Cardinality({completed[batch[i].id].status : i \in DOMAIN batch} \cap {s})
CountOf(s) ==
  Cardinality({i \in DOMAIN batch : completed[batch[i].id].status = s})

AllReported_SomeReported == expected # BatchIds
AllReported == expected = {}

\* The batch is counted and its results emitted in batch order; then the
\* next batch, or Done after the last one.
ClientTally ==
  /\ cpc = "reports" /\ AllReported
  /\ results' = results \o BatchVerdicts
  /\ counts' = [s \in Statuses |-> counts[s] + CountOf(s)]
  /\ completed' = [id \in Ids |-> NoResult]
  /\ serverErrors' = [id \in Ids |-> NoReason]
  /\ bi' = bi + 1
  /\ sent' = 0
  /\ IF bi < Len(Plan)
     THEN cpc' = "send" /\ UNCHANGED cout
     ELSE cpc' = "bye" /\ cout' = Done
  /\ UNCHANGED <<channelVars, cversion, expected, cerr>>

\* The final Bye; its summary is not looked at.
ClientBye ==
  /\ cpc = "bye" /\ cout = Nothing
  /\ ClientTakes
  /\ IF Head(toClient).type = "bye" THEN ClientReturns("ok", "none")
                                    ELSE ClientReturns("err", "protocol")
  /\ UNCHANGED <<toServer, cversion, bi, sent, completed, expected,
                 serverErrors, counts, results>>

\* The client process is killed.
ClientKilled ==
  /\ ~ClientOver
  /\ UNCHANGED <<toServer, toClient, cversion, bi, sent, completed, expected,
                 serverErrors, counts, results>>
  /\ ClientReturns("killed", "none")

-----------------------------------------------------------------------------
\* The tests of the batches before batch n, and the order of the plan.
TestsBefore(n) == UNION {{Plan[b][i] : i \in DOMAIN Plan[b]} : b \in 1 .. n - 1}
Precedes(e, f) ==
  \E b, c \in DOMAIN Plan : \E i \in DOMAIN Plan[b], j \in DOMAIN Plan[c] :
    /\ e = Plan[b][i] /\ f = Plan[c][j]
    /\ b < c \/ (b = c /\ i < j)

\* run_client's loops with execute_batch's tally: what has been emitted is, in
\* plan order and hence once, each test of the batches before the current one,
\* counted by its status; the whole plan when Done has been said.
TalliesComplete ==
  /\ {results[k].entry : k \in DOMAIN results} = TestsBefore(bi)
  /\ \A k, l \in DOMAIN results : k < l => Precedes(results[k].entry, results[l].entry)
  /\ \A s \in Statuses : counts[s] =
       Cardinality({k \in DOMAIN results : results[k].result.status = s})
  /\ cpc \in {"bye", "ok"} => TestsBefore(bi) = Entries
=============================================================================
