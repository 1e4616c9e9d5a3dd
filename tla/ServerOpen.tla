----------------------------- MODULE ServerOpen -----------------------------
(***************************************************************************)
(* run_server facing a client of which only this is known: it sends        *)
(* well-formed messages, in any order, reads what it likes, and may leave  *)
(* at any time (the clients of tests/integration.rs are of this kind).     *)
(* The specification counts, id by id, the tests the server takes on and   *)
(* the reports it gives.                                                   *)
(***************************************************************************)
EXTENDS Server, Integers, FiniteSets

CONSTANTS
  Inputs,       \* the messages the client may send
  MaxInputs,    \* how many of them it sends at most
  Results,      \* what a run of a test may return
  TestIds       \* the ids used in Inputs

ASSUME InputsAssumption ==
  \A m \in Inputs :
    /\ m.type = "configure" => m.parallel \in Nat
    /\ m.type = "test" => m.entry.id \in TestIds
ASSUME ResultsAssumption == Results \subseteq Observations

VARIABLES
  inputs,       \* messages the client has sent so far
  asked,        \* parallel of a Configure of the server's version, if one came
  taken,        \* tests taken on, by id
  answered,     \* reports sent, by id
  reports       \* reports sent, of whatever id

openVars == <<inputs, asked, taken, answered, reports>>
NotAsked == -1
vars == <<channelVars, serverVars, openVars>>

Init ==
  /\ ChannelInit
  /\ ServerInit
  /\ inputs = 0
  /\ asked = NotAsked
  /\ taken = [id \in TestIds |-> 0]
  /\ answered = [id \in TestIds |-> 0]
  /\ reports = 0

PeerSends ==
  /\ "client" \notin closed /\ inputs < MaxInputs
  /\ \E message \in Inputs : ClientSends(message)
  /\ inputs' = inputs + 1
  /\ UNCHANGED <<serverVars, asked, taken, answered, reports>>

PeerReads ==
  /\ "client" \notin closed
  /\ ClientTakes
  /\ UNCHANGED <<toServer, closed, serverVars, openVars>>

PeerLeaves ==
  /\ "client" \notin closed
  /\ Dropped("client", toClient # <<>>)
  /\ UNCHANGED <<toServer, toClient, serverVars, openVars>>

\* The steps of run_server, with what they take on and answer.
TakesOn ==
  /\ ServerTest
  /\ taken' = IF Len(sbatch') > Len(sbatch)
              THEN [taken EXCEPT ![Head(toServer).entry.id] = @ + 1]
              ELSE taken
  /\ UNCHANGED <<inputs, asked, answered, reports>>

Flushes ==
  /\ ServerFlush
  /\ answered' = IF sout.type = "report" THEN [answered EXCEPT ![sout.id] = @ + 1]
                 ELSE answered
  /\ reports' = IF sout.type = "report" THEN reports + 1 ELSE reports
  /\ UNCHANGED <<inputs, asked, taken>>

Configures ==
  /\ ServerConfigure
  /\ LET m == Head(toServer) IN
       asked' = IF m.type = "configure" /\ m.client_version = sversion
                THEN m.parallel ELSE NotAsked
  /\ UNCHANGED <<inputs, taken, answered, reports>>

OtherSteps ==
  /\ \/ ServerEnds \/ ServerLosesChannel
     \/ ServerBatchEnd \/ ServerBatchOver
     \/ \E i \in DOMAIN sbatch, result \in Results : ServerTestEnds(i, result)
  /\ UNCHANGED openVars

Stops == ServerOver /\ UNCHANGED vars

ServerMoves == Configures \/ TakesOn \/ Flushes \/ OtherSteps

Next == PeerSends \/ PeerReads \/ PeerLeaves \/ ServerMoves \/ Stops

Spec == Init /\ [][Next]_vars
FairSpec == Spec /\ WF_vars(ServerMoves)

-----------------------------------------------------------------------------
\* Tests taken on and not answered yet, by id.
Unanswered(id) ==
  Cardinality({i \in running : sbatch[i].id = id})
  + Cardinality({m \in {sout} : m.type = "report" /\ m.id = id})

\* While a batch runs, what is owed to the client is exactly what is still
\* running or being sent (run_server's FuturesUnordered loop).  When the
\* session ends well nothing is owed, and the summary of Bye accounts for
\* every report: whatever ids the client used, twice or not, and whether
\* BatchEnd or Done closed the last batch.
EveryTestAnswered ==
  /\ spc = "run" => \A id \in TestIds : taken[id] = answered[id] + Unanswered(id)
  /\ spc \in {"bye", "ok"} =>
       /\ taken = answered
       /\ scounts["pass"] + scounts["fail"] + scounts["error"] = reports

\* "batch exceeds configured parallel limit" (run_server): the server never
\* runs more tests at a time than the client's Configure asked for, one when
\* it asked for none, and runs none for a client of another version.
ParallelBounded ==
  running # {} =>
    /\ asked # NotAsked
    /\ Cardinality(running) <= IF asked = 0 THEN 1 ELSE asked

\* A client that leaves, at whatever point of the exchange and whatever it
\* left unread, does not keep the session of the server alive.
ServerReleased == ("client" \in closed) ~> ServerOver
=============================================================================
