----------------------------- MODULE ClientOpen -----------------------------
(***************************************************************************)
(* The client facing a server of which only this is known: it sends        *)
(* well-formed messages, in any order, reads what it likes, and may leave  *)
(* at any time (the servers of tests/orchestrator_regressions.rs and       *)
(* tests/integration.rs are of this kind).  The specification records what *)
(* the client observed and every report it read.                           *)
(***************************************************************************)
EXTENDS Client

CONSTANTS
  Inputs,       \* the messages the server may send
  MaxInputs,    \* how many of them it sends at most
  Results       \* what a run of a test may return

ASSUME InputsAssumption ==
  \A m \in Inputs : m.type = "report" => m.body \in ReportBody
ASSUME ResultsAssumption == Results \subseteq Observations

VARIABLES
  inputs,       \* messages the server has sent so far
  observed,     \* what the client's run of each test returned
  heard         \* the bodies of the reports read for each test, in order

openVars == <<inputs, observed, heard>>
vars == <<channelVars, clientVars, openVars>>

Init ==
  /\ ChannelInit
  /\ ClientInit
  /\ inputs = 0
  /\ observed = [id \in Ids |-> NoResult]
  /\ heard = [id \in Ids |-> <<>>]

PeerSends ==
  /\ "server" \notin closed /\ inputs < MaxInputs
  /\ \E message \in Inputs : ServerSends(message)
  /\ inputs' = inputs + 1
  /\ UNCHANGED <<clientVars, observed, heard>>

PeerReads ==
  /\ "server" \notin closed
  /\ ServerTakes
  /\ UNCHANGED <<toClient, closed, clientVars, openVars>>

PeerLeaves ==
  /\ "server" \notin closed
  /\ Dropped("server", toServer # <<>>)
  /\ UNCHANGED <<toServer, toClient, clientVars, openVars>>

\* The steps of the client, with what it observes and hears.
Observes ==
  \E id \in Ids, result \in Results :
    /\ ClientTestEnds(id, result)
    /\ observed' = [observed EXCEPT ![id] = result]
    /\ UNCHANGED <<inputs, heard>>

Hears ==
  /\ ClientReport
  /\ LET m == Head(toClient) IN
       heard' = IF m.type = "report" /\ m.id \in Ids
                THEN [heard EXCEPT ![m.id] = Append(@, m.body)] ELSE heard
  /\ UNCHANGED <<inputs, observed>>

OtherSteps ==
  /\ \/ ClientFlush \/ ClientLosesChannel
     \/ ClientHello \/ ClientAck
     \/ ClientSendTest \/ ClientSendBatchEnd
     \/ ClientAwaitsReports \/ ClientReportTimeout \/ ClientTally
     \/ ClientBye
  /\ UNCHANGED openVars

Stops == ClientOver /\ UNCHANGED vars

ClientMoves == Observes \/ Hears \/ OtherSteps

Next == PeerSends \/ PeerReads \/ PeerLeaves \/ ClientMoves \/ Stops

Spec == Init /\ [][Next]_vars
FairSpec == Spec /\ WF_vars(ClientMoves)

-----------------------------------------------------------------------------
\* No verdict is emitted without its report (execute_batch): the client has
\* read exactly one for the test, while it was outstanding, and the verdict is
\* PASS only if the client's own run passed and the report carries no error;
\* a report without an error changes nothing.
VerdictsBacked ==
  \A k \in DOMAIN results :
    LET v == results[k]
        id == v.entry.id
    IN /\ IF cpc = "err" THEN Len(heard[id]) \in {1, 2} ELSE Len(heard[id]) = 1
       /\ v.result.status = "pass" =>
            observed[id] = Pass /\ heard[id][1].error = NoReason
       /\ heard[id][1].error = NoReason => v.result = observed[id]
       /\ v.server_error = heard[id][1].error

\* A report that was not asked for, or is given twice ("unexpected or
\* duplicate report ID"), ends the client with an error, and so does any
\* other message in its place: a successful end has heard one report per
\* test, and has read every answer of the protocol in its place.
OnlyExpectedReports ==
  /\ cpc # "err" => \A id \in Ids : Len(heard[id]) <= 1
  /\ cpc = "ok" => \A id \in Ids : Len(heard[id]) = 1

\* A server that stops answering cannot hold a batch open: receive_timeout,
\* or the end of the connection, ends the wait for reports.
ReportsBounded == (cpc = "reports") ~> (cpc # "reports")

\* A server that leaves does not keep the client waiting.
ClientReleased == ("server" \in closed) ~> ClientOver
=============================================================================
