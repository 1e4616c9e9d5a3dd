-------------------------------- MODULE Scan --------------------------------
(***************************************************************************)
(* What a scan promises its user, without the protocol between the two     *)
(* ends: the batches of the plan are taken one after the other; each test  *)
(* of the batch is run once at either end; when all of them have been, the *)
(* batch is judged, every verdict from what the two ends observed.  The    *)
(* scan is complete only when every batch is judged; it may be given up at *)
(* any time, and then nothing more is printed.                             *)
(***************************************************************************)
EXTENDS Naturals, Sequences, Verdict

CONSTANTS
  Plan,       \* the batches of tests
  Results,    \* what a run of a test may return
  NoResult    \* the test has not been run

VARIABLES
  batchNo,    \* the batch being scanned, past the last one when done
  local,      \* what the client observed of each test
  remote,     \* what the server observed of each test
  verdicts,   \* what the user is told, test by test
  outcome     \* "scanning", "complete" or "aborted"

scanVars == <<batchNo, local, remote, verdicts, outcome>>

Current == Plan[batchNo]
Tests == UNION {{Plan[b][i].id : i \in DOMAIN Plan[b]} : b \in DOMAIN Plan}

ScanInit ==
  /\ batchNo = 1
  /\ local = [id \in Tests |-> NoResult]
  /\ remote = [id \in Tests |-> NoResult]
  /\ verdicts = <<>>
  /\ outcome = "scanning"

\* A test of the current batch is run, once, at the client.
LocalRun(i, result) ==
  /\ outcome = "scanning"
  /\ local[Current[i].id] = NoResult
  /\ local' = [local EXCEPT ![Current[i].id] = result]
  /\ UNCHANGED <<batchNo, remote, verdicts, outcome>>

\* And, once, at the server, which may go on after the scan is given up.
RemoteRun(i, result) ==
  /\ remote[Current[i].id] = NoResult
  /\ remote' = [remote EXCEPT ![Current[i].id] = result]
  /\ UNCHANGED <<batchNo, local, verdicts, outcome>>

\* The current batch is judged as a whole.
Judge ==
  /\ outcome = "scanning"
  /\ \A i \in DOMAIN Current :
       local[Current[i].id] # NoResult /\ remote[Current[i].id] # NoResult
  /\ verdicts' = verdicts \o
       [i \in DOMAIN Current |->
          [entry        |-> Current[i],
           result       |-> Combine(local[Current[i].id], remote[Current[i].id]),
           server_error |-> remote[Current[i].id].reason]]
  /\ batchNo' = batchNo + 1
  /\ UNCHANGED <<local, remote, outcome>>

Complete ==
  /\ outcome = "scanning" /\ batchNo = Len(Plan) + 1
  /\ outcome' = "complete"
  /\ UNCHANGED <<batchNo, local, remote, verdicts>>

Abort ==
  /\ outcome = "scanning"
  /\ outcome' = "aborted"
  /\ UNCHANGED <<batchNo, local, remote, verdicts>>

ScanNext ==
  \/ /\ batchNo \in DOMAIN Plan
     /\ \/ \E i \in DOMAIN Current, result \in Results :
             LocalRun(i, result) \/ RemoteRun(i, result)
        \/ Judge
  \/ Complete
  \/ Abort

ScanSpec == ScanInit /\ [][ScanNext]_scanVars
=============================================================================
