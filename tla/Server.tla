------------------------------- MODULE Server -------------------------------
(***************************************************************************)
(* One session of the server: the Hello of main's accept loop and then     *)
(* run_server.  Every channel.send(..).await is the pair of putting the    *)
(* message in sout and the action ServerFlush; while a send waits, nothing *)
(* else of the session is polled, its running tests included.              *)
(***************************************************************************)
EXTENDS ControlChannel

CONSTANTS
  Registry    \* the names of the registered test protocols

VARIABLES
  spc,        \* where the session is
  sversion,   \* PROTOCOL_VERSION of the server's build
  sout,       \* the message being sent, or Nothing
  limit,      \* parallel.max(1) of the accepted Configure
  sbatch,     \* the tests collected for the current batch
  running,    \* indices of the tests of sbatch that have not finished
  doneAfter,  \* Done arrived while the batch was being collected
  scounts,    \* tests by status, as counted by the server
  serr        \* why the session failed, or "none"

serverVars ==
  <<spc, sversion, sout, limit, sbatch, running, doneAfter, scounts, serr>>

NoCounts == [s \in Statuses |-> 0]

ServerInit ==
  /\ spc = "configure"
  /\ sversion \in Versions
  /\ sout = Hello(sversion)
  /\ limit = 1
  /\ sbatch = <<>>
  /\ running = {}
  /\ doneAfter = FALSE
  /\ scounts = NoCounts
  /\ serr = "none"

ServerOver == spc \in {"ok", "err", "killed"}

\* run_server returns: the channel and every unfinished test are dropped.
ServerReturns(outcome, cause) ==
  /\ spc' = outcome
  /\ serr' = cause
  /\ running' = {}
  /\ sout' = Nothing
  /\ Dropped("server", toServer' # <<>>)

\* A send completes.
ServerFlush ==
  /\ sout # Nothing
  /\ ServerSends(sout)
  /\ sout' = Nothing
  /\ UNCHANGED <<spc, sversion, limit, sbatch, running, doneAfter, scounts, serr>>

\* After Bye the session is over; after the rejecting Ack it has failed.
ServerEnds ==
  /\ spc \in {"bye", "rejecting"} /\ sout = Nothing
  /\ UNCHANGED <<toServer, toClient, sversion, limit, sbatch, doneAfter, scounts>>
  /\ IF spc = "bye" THEN ServerReturns("ok", "none")
                    ELSE ServerReturns("err", "version")

\* A send or a receive fails: `?` ends the session.
ServerLosesChannel ==
  /\ \/ sout # Nothing /\ Broken
     \/ sout = Nothing /\ spc \in {"configure", "collect"} /\ ServerHearsEnd
  /\ UNCHANGED <<toServer, toClient, sversion, limit, sbatch, doneAfter, scounts>>
  /\ ServerReturns("err", "closed")

\* What the server makes of --parallel.
LimitOf_OffByOne(parallel) == IF parallel > 2 THEN parallel - 1 ELSE 1
LimitOf(parallel) == IF parallel > 1 THEN parallel ELSE 1

\* The first message: Configure with the same version is acknowledged.
ServerConfigure ==
  /\ spc = "configure" /\ sout = Nothing
  /\ ServerTakes
  /\ LET m == Head(toServer) IN
       IF m.type # "configure"
       THEN ServerReturns("err", "protocol") /\ UNCHANGED limit
       ELSE /\ limit' = LimitOf(m.parallel)
            /\ sout' = Ack(m.client_version = sversion)
            /\ spc' = IF m.client_version = sversion THEN "collect" ELSE "rejecting"
            /\ UNCHANGED <<closed, running, serr>>
  /\ UNCHANGED <<toClient, sversion, sbatch, doneAfter, scounts>>

\* A test the server can run: its protocol, transport and direction parse.
Runnable(entry) ==
  /\ entry.proto \in Registry
  /\ entry.transport \in Transports
  /\ entry.dir \in Directions

BatchFull_OffByOne == Len(sbatch) > limit
BatchFull == Len(sbatch) >= limit

\* A Test joins the batch unless the batch is full or the test is unknown.
ServerTest ==
  /\ spc = "collect" /\ sout = Nothing
  /\ ServerTakes
  /\ Head(toServer).type = "test"
  /\ LET entry == Head(toServer).entry IN
       IF ~BatchFull /\ Runnable(entry)
       THEN /\ sbatch' = Append(sbatch, entry)
            /\ UNCHANGED <<spc, running, sout, closed, serr>>
       ELSE /\ ServerReturns("err", IF BatchFull THEN "limit" ELSE "unknown")
            /\ UNCHANGED sbatch
  /\ UNCHANGED <<toClient, sversion, limit, doneAfter, scounts>>

\* BatchEnd, or Done with tests collected, starts the batch; Done without
\* any ends the session with Bye; anything else is a protocol error.
ServerBatchEnd ==
  /\ spc = "collect" /\ sout = Nothing
  /\ ServerTakes
  /\ Head(toServer).type # "test"
  /\ LET type == Head(toServer).type IN
       IF sbatch # <<>> /\ type \in {"batch_end", "done"}
       THEN /\ spc' = "run"
            /\ running' = DOMAIN sbatch
            /\ doneAfter' = (type = "done")
            /\ UNCHANGED <<sout, closed, serr>>
       ELSE IF type = "done"
       THEN /\ spc' = "bye"
            /\ sout' = Bye
            /\ UNCHANGED <<running, doneAfter, closed, serr>>
       ELSE ServerReturns("err", "protocol") /\ UNCHANGED doneAfter
  /\ UNCHANGED <<toClient, sversion, limit, sbatch, scounts>>

\* A test of the batch ends, by itself or at run_protocol's deadline, is
\* counted and reported.  Tests end in any order.
ServerTestEnds(i, result) ==
  /\ spc = "run" /\ sout = Nothing
  /\ i \in running
  /\ running' = running \ {i}
  /\ scounts' = [scounts EXCEPT ![result.status] = @ + 1]
  /\ sout' = Report(sbatch[i].id, protocol_result_to_report(result))
  /\ UNCHANGED <<channelVars, spc, sversion, limit, sbatch, doneAfter, serr>>

BatchDone_AnyEnded == running # DOMAIN sbatch
BatchDone_AtDone == running = {} \/ doneAfter
BatchDone == running = {}

\* All tests of the batch are reported: next batch, or Bye after Done.
ServerBatchOver ==
  /\ spc = "run" /\ sout = Nothing
  /\ BatchDone
  /\ spc' = IF doneAfter THEN "bye" ELSE "collect"
  /\ sout' = IF doneAfter THEN Bye ELSE Nothing
  /\ sbatch' = <<>>
  /\ UNCHANGED <<channelVars, sversion, limit, running, doneAfter, scounts, serr>>

\* The server process is killed.
ServerKilled ==
  /\ ~ServerOver
  /\ UNCHANGED <<toServer, toClient, sversion, limit, sbatch, doneAfter, scounts>>
  /\ ServerReturns("killed", "none")
=============================================================================
