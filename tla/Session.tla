------------------------------- MODULE Session -------------------------------
(***************************************************************************)
(* One client (module Client) and the server session that answers it       *)
(* (module Server) over one control connection.  The two ends run the same *)
(* tests at the same time; what a test returns at an end is any            *)
(* observation.  Next to the state of the two programs the specification   *)
(* records what each end observed, so that the verdicts can be compared    *)
(* with the observations they stand for.                                   *)
(***************************************************************************)
EXTENDS Server, Client

CONSTANTS
  Faults,     \* what may go wrong: "wire", "client", "server", "timeout"
  Results     \* what a run of a test may return at an end

ASSUME FaultsAssumption == Faults \subseteq {"wire", "client", "server", "timeout"}
ASSUME ResultsAssumption == Results \subseteq Observations

\* The two ends are of one build: run_client has found every test it plans in
\* the registry it shares with run_server, and its transports and directions
\* are those run_server parses.
ASSUME RegistryAssumption == \A entry \in Entries : Runnable(entry)

VARIABLES
  localOutcome,   \* what the client's run of each test returned
  serverOutcome   \* what the server's run of each test returned

outcomeVars == <<localOutcome, serverOutcome>>
vars == <<channelVars, serverVars, clientVars, outcomeVars>>

Init ==
  /\ ChannelInit
  /\ ServerInit
  /\ ClientInit
  /\ localOutcome = [id \in Ids |-> NoResult]
  /\ serverOutcome = [id \in Ids |-> NoResult]

-----------------------------------------------------------------------------
\* The steps of the client that are not the end of a local test.
ClientStep ==
  /\ \/ ClientFlush \/ ClientLosesChannel
     \/ ClientHello \/ ClientAck
     \/ ClientSendTest \/ ClientSendBatchEnd
     \/ ClientAwaitsReports \/ ClientReport \/ ClientTally
     \/ ClientBye
  /\ UNCHANGED <<serverVars, outcomeVars>>

ClientTest ==
  \E id \in Ids, result \in Results :
    /\ ClientTestEnds(id, result)
    /\ localOutcome' = [localOutcome EXCEPT ![id] = result]
    /\ UNCHANGED <<serverVars, serverOutcome>>

ServerStep ==
  /\ \/ ServerFlush \/ ServerEnds \/ ServerLosesChannel
     \/ ServerConfigure \/ ServerTest \/ ServerBatchEnd \/ ServerBatchOver
  /\ UNCHANGED <<clientVars, outcomeVars>>

ServerRun ==
  \E i \in DOMAIN sbatch, result \in Results :
    /\ ServerTestEnds(i, result)
    /\ serverOutcome' = [serverOutcome EXCEPT ![sbatch[i].id] = result]
    /\ UNCHANGED <<clientVars, localOutcome>>

\* What may go wrong around the two programs.
Fault ==
  \/ "wire" \in Faults /\ Cut /\ UNCHANGED <<serverVars, clientVars, outcomeVars>>
  \/ "client" \in Faults /\ ClientKilled /\ UNCHANGED <<serverVars, outcomeVars>>
  \/ "server" \in Faults /\ ServerKilled /\ UNCHANGED <<clientVars, outcomeVars>>
  \/ "timeout" \in Faults /\ ClientReportTimeout
                          /\ UNCHANGED <<serverVars, outcomeVars>>

\* Both ends have returned: the only states in which nothing happens.
Finished == ClientOver /\ ServerOver /\ UNCHANGED vars

Next ==
  ClientStep \/ ClientTest \/ ServerStep \/ ServerRun \/ Fault \/ Finished

\* Each end is one task the runtime keeps polling, and run_protocol's
\* deadline ends every test; nothing obliges a fault to happen.
Fairness ==
  /\ WF_vars(ClientStep) /\ WF_vars(ClientTest)
  /\ WF_vars(ServerStep) /\ WF_vars(ServerRun)

Spec == Init /\ [][Next]_vars
FairSpec == Spec /\ Fairness

-----------------------------------------------------------------------------
Messages ==
  {Hello(v) : v \in Versions} \cup {Configure(v, Parallel) : v \in Versions}
  \cup {Ack(ok) : ok \in BOOLEAN} \cup {Test(e) : e \in Entries}
  \cup {BatchEnd, Done, Bye}
  \cup {Report(id, body) : id \in Ids, body \in ReportBody}

Verdicts == [entry : Entries, result : ProtocolResult,
             server_error : Reasons \cup {NoReason}]

ChannelTypeOK ==
  /\ toServer \in Seq(Messages) /\ toClient \in Seq(Messages)
  /\ closed \subseteq {"client", "server", "wire"}

ServerTypeOK ==
  /\ spc \in {"configure", "rejecting", "collect", "run", "bye", "ok", "err", "killed"}
  /\ sversion \in Versions
  /\ sout \in Messages \cup {Nothing}
  /\ limit \in Nat \ {0}
  /\ sbatch \in Seq(Entries)
  /\ running \subseteq DOMAIN sbatch
  /\ doneAfter \in BOOLEAN
  /\ scounts \in [Statuses -> Nat]
  /\ serr \in {"none", "closed", "version", "protocol", "unknown", "limit"}

ClientTypeOK ==
  /\ cpc \in {"hello", "ack", "send", "local", "reports", "bye", "ok", "err", "killed"}
  /\ cversion \in Versions
  /\ cout \in Messages \cup {Nothing}
  /\ bi \in 1 .. Len(Plan) + 1
  /\ sent \in Nat
  /\ completed \in [Ids -> ProtocolResult \cup {NoResult}]
  /\ expected \subseteq Ids
  /\ serverErrors \in [Ids -> Reasons \cup {NoReason}]
  /\ counts \in [Statuses -> Nat]
  /\ results \in Seq(Verdicts)
  /\ cerr \in {"none", "closed", "version", "protocol", "rejected", "timeout"}

\* Every variable of the two programs (run_server, execute_batch, run_client)
\* has its type; the server's limit is never 0, whatever --parallel says.
TypeOK ==
  /\ ChannelTypeOK /\ ServerTypeOK /\ ClientTypeOK
  /\ localOutcome \in [Ids -> Observations \cup {NoResult}]
  /\ serverOutcome \in [Ids -> Observations \cup {NoResult}]

-----------------------------------------------------------------------------
Outcome(entry) == [local |-> localOutcome[entry.id], remote |-> serverOutcome[entry.id]]

\* A verdict is worth what its two ends observed (execute_batch's report
\* handling): PASS exactly when both ends passed, ERR only when one of them
\* could not run the test, the server's own reason beside it; the client's
\* observation is replaced by the server's only when it was a pass.
VerdictTrue(v) ==
  LET o == Outcome(v.entry) IN
    /\ v.result.status = "pass" <=> o.local = Pass /\ o.remote = Pass
    /\ v.result.status = "error" =>
         \/ o.local.status = "error"
         \/ o.local = Pass /\ o.remote.status = "error"
    /\ v.server_error = o.remote.reason
    /\ IF v.result.relayed THEN o.local = Pass /\ v.result.reason = o.remote.reason
                           ELSE v.result = o.local

\* Every verdict the client has emitted is true of the observations of the
\* test it is emitted for.
VerdictsTrue == \A k \in DOMAIN results : VerdictTrue(results[k])

\* main's exit code 0: every test of the plan passed at both ends.
ExitZeroMeansAllPassed ==
  ClientOver /\ ExitCode = 0 =>
    \A id \in Ids : localOutcome[id] = Pass /\ serverOutcome[id] = Pass

\* Tests in flight, and the ports of their target ends.
ClientRunning ==
  {e \in Entries : /\ cpc = "local" /\ cout = Nothing
                   /\ Pending(e.id)}
ServerRunning == {sbatch[i] : i \in running}
Ports(entries, direction) == {e.port : e \in {f \in entries : f.dir = direction}}

\* "Opposite directions must not bind the same loopback port concurrently"
\* (run_client): a port served by the server's end of a forward test is
\* never served at the same time by the client's end of a reverse one.
OppositeDirectionsExclusive ==
  Ports(ClientRunning, "<-") \cap Ports(ServerRunning, "->") = {}

\* The two programs of one build speak the same protocol: neither ever
\* rejects what the other says, whatever the tests return and whatever
\* breaks; a client gives up only on a lost or silent server, or on another
\* version.
PeersAgree ==
  /\ cerr \in {"none", "closed", "timeout", "version"}
  /\ serr \in {"none", "closed"}
  /\ cerr = "version" => cversion # sversion

\* A test of the plan is run to its end at most once at each end: what an
\* end has observed is never observed again.
EachTestRunsOnce ==
  [][\A id \in Ids :
       /\ localOutcome[id] # NoResult => localOutcome'[id] = localOutcome[id]
       /\ serverOutcome[id] # NoResult => serverOutcome'[id] = serverOutcome[id]]_vars

\* With its resources dropped or its messages answered, either end returns:
\* no exchange of messages, full buffer or lost peer leaves one waiting.
SessionEnds == <>(ClientOver /\ ServerOver)

\* Two ends of the same version finish the whole scan, unless one of them is
\* killed, their connection breaks or the client gives up on a report
\* (run_client returns Ok, and so does run_server).
ScanSucceeds ==
  ("wire" \notin Faults /\ cversion = sversion) =>
    <>(\/ cpc = "ok" /\ spc = "ok"
       \/ "killed" \in {cpc, spc} \/ cerr = "timeout")

\* The session implements the scan its user sees.
Abstract == INSTANCE Scan WITH
  batchNo  <- bi,
  local    <- localOutcome,
  remote   <- serverOutcome,
  verdicts <- results,
  outcome  <- IF cpc = "ok" THEN "complete"
              ELSE IF cpc \in {"err", "killed"} THEN "aborted" ELSE "scanning"

\* run_server, run_client and execute_batch together implement module Scan.
ImplementsScan == Abstract!ScanSpec

\* README: ERR is for a test bimap could not run, "for example because a port
\* was occupied": such a test is then never shown as FAIL.
SetupErrorShown ==
  \A k \in DOMAIN results :
    LET o == Outcome(results[k].entry) IN
      "error" \in {o.local.status, o.remote.status} => results[k].result.status = "error"
=============================================================================
