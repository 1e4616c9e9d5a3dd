# bimap: specification and proofs

TLA+ modules for bimap (`src/`), a bidirectional port scanner: a client and a
server agree over a TLS control connection on small protocol tests, run the two
halves of each test at the same time, and the client reconciles what the two
ends saw. The modules follow `src/src/`; every definition that models code is
mapped to its lines in `PROJECT.json`.

## The system

| component | code | state | operations |
|---|---|---|---|
| verdict | `orchestrator.rs` `ProtocolResult`, `protocol_result_to_report`, the report arm of `execute_batch` | none | turn a result into a report, reconcile a report with the local result |
| control channel | `control/mod.rs`, `control/msg.rs` | one framed TLS stream, the part of a frame read so far | `send`, `recv`, end of stream, reset |
| server session | `orchestrator.rs` `run_server`, `main.rs` (Hello) | limit, collected batch, running tests, counts, `done_after_batch` | Hello, Configure/Ack, Test, BatchEnd, Done, report, Bye |
| client session | `orchestrator.rs` `run_client`, `execute_batch`, `main.rs` (Hello, exit code) | batch position, local results, outstanding ids, server errors, counts | the client's half of the same exchange, receive timeout, tally |
| scan planning | `main.rs` 116-292, `cli.rs` `parse_port_ranges`, `run_client` 400-520 | port ranges, loop positions, the batch being filled | checks before connecting, parsing of port ranges, validation, the batching loops |
| server accept loop | `main.rs` 34-113, `control/tls.rs` | the one session being served, the clients in the listener's queue | certificate, bind, then accept, TLS, Hello, `run_server`, one client after the other |
| batch timing | `run_protocol`, `receive_timeout` | deadlines | end a test, give up a report |
| report rendering | `orchestrator.rs` 608-860, `output.rs` | entries of one batch | merge ports into ranges, filter payload differences |
| TCP, UDP, DNS exchanges | `test/exchange.rs`, `test/port.rs`, `test/tls_test.rs`, `test/dns.rs` | sockets, attempt counters, deadlines | the two halves of one test |
| ICMP tests | `test/icmp.rs`, `packet/icmp.rs` | raw sockets, sequence numbers | sweep types and codes, match replies |
| registry | `test/mod.rs` | the registered protocols | find by name, list |
| TLS set-up | `control/tls.rs` | certificates | pinning and handshake |

The parts interact as follows. `main` plans nothing: it checks the command line,
connects, reads the Hello and calls `run_client`, whose loops cut the scan into
batches and hand each to `execute_batch`. That sends the tests of the batch and
BatchEnd, runs all local halves at once, and only when *all* of them have ended
starts to read reports. The server collects tests until BatchEnd (or Done), runs
them at once and sends one report per test as each ends. It awaits that send in
the same task that polls the tests. The two programs share nothing but the
connection and the ports of the hosts they run on.

What is hard here, and which property answers it (the `hazards` of
`PROJECT.json` give the lines):

* the two ends finish their halves in any order, and a batch in one direction
  must not begin while the peer still serves the other on the same port:
  `OppositeDirectionsExclusive`;
* reports arrive in the server's order and may be early, repeated or for
  another batch: `VerdictsTrue`, `VerdictsBacked`, `OnlyExpectedReports`;
* a server failure overrides a local pass and nothing else:
  `VerdictsTrue`, `ExitZeroMeansAllPassed`;
* limits and versions are computed apart by the two ends: `PeersAgree`,
  `ParallelBounded`;
* sends block, tests are not polled while they do, and either end may vanish
  with messages unread: `SessionEnds`, `ScanSucceeds`, `ServerReleased`,
  `ClientReleased`, `ReportsBounded`;
* a batch may fail after others were printed: `TalliesComplete`,
  `ImplementsScan`;
* the planning loops have boundaries of ranges, batches, directions and tests:
  `BatchesWellFormed`, `PlanIsWhatWasAsked`, `ValidationExact`;
* the two halves of a test start apart, retry, and end at deadlines of their own,
  on a network that loses, doubles and alters: `PassMeansRoundTrip`,
  `NoFalseFailure`, `ReportInTime`, `PassNeedsBoth`;
* ranges of ports are extended in `u16` and over repeated ports:
  `RangesFaithful`, `RangesMaximal`, `FailLineExact`; five output options decide
  together what becomes of a result: `EveryResultTold`; and the report must be the
  scan that was asked for, six representations later: `ReportCoversScan`;
* a frame arrives in chunks of any size, and a receive may be dropped between two
  of them: `LinesWhole`, `LimitExact`, `EndTold`, `LinesArrive`, and
  `ImplementsQueue`, which says that nothing of it shows above the channel;
* one loop accepts, does the handshakes and serves, so what one client does must
  not keep the next from being served: `WaitingServed`;
* raw sockets are given every ICMP packet of the host, and all sweeps share them:
  `PassMeansAnswered`, `NoFalseFailure`, `WaitsWithinTimeout` of IcmpSweep.

## The modules

```
Verdict <- ControlChannel <- Server <-------- Session <- MCSession
                          <- Client <--------/   |   \<- SessionProofs
Batches <- Client             \                  |implements
Batches <- ScanPlan            \- ClientOpen    Scan
Server  <- ServerOpen <- ServerLoop <- ServerOpenProofs
ClientOpen <- ClientOpenProofs
Framing implements a queue of ControlChannel;  Framing <- FramingProofs
ScanPlan, Summary <- ScanReport <- ScanReportProofs
Verdict <- TestTiming <- TcpExchange <- TcpProofs
                      <- UdpExchange <- UdpProofs
DnsMessages <- TcpExchange, UdpExchange
IcmpSweep <- IcmpSweepProofs
```

**Verdict** is the pure part: observations, the report made of one, and
`Reconcile`. Byte counts are kept only as "the report carries transfers", which is
all the client asks; the prefix "server: " of a reason taken over is the field
`relayed`.

**ControlChannel** is the connection at the level of whole messages: two queues
of `CapToServer` and `CapToClient` messages. A send waits while the queue is full. An
end that is dropped with messages unread, or that is sent more, resets the connection
(`closed` then has `"wire"`): what is queued may still be read or may be lost. An
end that is dropped with nothing unread lets the peer read what is queued and
then hear the end. That is TCP's behaviour seen through the sockets, and is
marked external in the map.

**Server** is one session. Each `channel.send(..).await` is two steps, the
message put in `sout` and `ServerFlush`; every action of the session asks
`sout = Nothing`, because the code polls nothing else meanwhile. `spc` is the
place in `run_server`: `configure` (65-93), `collect` (103-161), `run`
(163-172), `bye`. Errors (`bail!`, `?`) are `ServerReturns("err", cause)`, which drops
the channel and the running tests as the return of the function does.

**Client** is the client after its handshake. `cpc` follows the code: `hello` in
`main`, `ack` in `run_client`, then per batch `send`, `local`, `reports` in
`execute_batch`, and `bye`. `completed` is a function with `NoResult` for what
the map of the code lacks. `ClientTally` is everything from the last report to
the next batch: results appended in batch order, counts, maps dropped.
`ExitCode` is `main`'s match on the result of `run_client`.

**Session** composes the two over one channel and records, beside the programs'
own state, what each end observed of each test (`localOutcome`,
`serverOutcome`). Those history variables are never read by an action. Faults are
a constant set: the connection breaks, either process is killed, a report does not
come within `receive_timeout`.

**ServerOpen** and **ClientOpen** put one end in front of an arbitrary peer that
sends well-formed messages in any order and may leave, as the peers of
`tests/integration.rs` and `tests/orchestrator_regressions.rs` do. A property that
needs a program's own peer is checked in Session, one that a program must
guarantee by itself is checked here.

**Framing** is `recv` on bytes. A byte is its position in the peer's stream, of which
only the newlines matter; `frame` is the length of `self.frame`, which always holds
the last bytes consumed. A round of `recv`'s loop is one action (`TakesPart`,
`TakesLine`, `TooLarge`, `EndOfStream`), because the only `await` in it is
`fill_buf`; `RecvCancelled` drops the future at that await, as `receive_timeout`
does. The queue of whole lines not yet returned is one of ControlChannel's queues
(`ImplementsQueue`). So what Session shows over that queue holds over the bytes,
as long as no message exceeds the limit. The largest a peer of this program sends is a
report with a long reason, far below 1 MiB.

**ServerLoop** is the server's side of `main` around ServerOpen: certificate and
listener, then accept, handshake and session, each with whoever is first in the
queue. `peer` may fail its handshake, give up before its session, or leave it;
`SessionOver` is the `continue` or the end of the loop's body, after which the
next session has fresh state. What a client sends within its session is
ServerOpen's, so its invariants are checked here for one session after another.

**ScanPlan** is the way from a command line to the batches: the checks of
`main`, with `--port-range` as `parse_port_ranges` reads it once it is split at its
slash and dash, the validation of `run_client` (which may add an ICMP range that later
tests see), and the four nested loops, one action per loop level.
**Batches** states the contract `WellFormed` between ScanPlan, where it is checked as
an invariant and proved (`BatchesAreWellFormed`), and Client, which assumes it of its constant
`Plan`. So the proofs about Session, which assume `WellFormed`, apply to what the loops produce.

**Scan** is what the user is promised: batches in order, every test once per end,
a batch judged as a whole from the two observations, complete only when all are.
Session implements it (`ImplementsScan`, proved in SessionProofs), with the client's `results`
as verdicts.

**TestTiming** is one test at its two ends against the clock: the client starts its
end after BatchEnd, the server when BatchEnd has arrived, `run_protocol` (and for dns
the test itself) puts a deadline on each, and the client waits `receive_timeout` for
the report. Time is discrete; a tick passes when nothing is due, and what is due in
one tick happens in any order. The model has no state from which time cannot
go on, which the deadlock check of its runs shows. **TcpExchange** and
**UdpExchange** extend it with what the ends do: one action per `await` that returns.
A segment or datagram arrives at any time within `Latency`. In TcpExchange `net`
says what the path does (carry, drop, reject, unreachable, stall after the
connection, alter a payload) and whether the port is taken; `wire` has the segments
in order. In UdpExchange `inbox` is what a socket has buffered while its owner sleeps,
and at most `MaxFaults` datagrams are lost, doubled or come from others. The
dns test takes part in both, with its own windows, deadline and validation. **DnsMessages** has
its messages as records: a middlebox may alter any one part, and what
`validate_dns_response` looks at decides whether it shows. It does not look at the
answer section, and the target answers any message that parses. A changed length
prefix over TCP is left out.

**Summary** is what becomes of the results: `Merge` is a round of
`merge_into_ranges`' loop over the results in their sorted order (the k-th is the one
that k - 1 others come before), and the live line is `format_port_ranges` of the ports
that `fail_map` has for a reason, both recursive functions over the batch.
A protocol, transport and direction are one number, as only their order matters.
**ScanReport** joins it to ScanPlan: the plan of a command line, executed batch by
batch with any outcome for each of its tests, and the ranges made of them; and the
conditions under which each form of the output prints or keeps a result (`HasLine`,
`Kept`, `Shown`).

**IcmpSweep** is `icmp-full`: each sweep sends a probe per type from a new raw
socket and passes over what does not match. The network delivers a copy of every packet to
every open socket, replies come late, twice, or for another sweep, and a foreign packet
differs from the expected reply in one respect at most. A worker may be held up between
two probes for any time; while its socket has something to read it is quick.

**SessionProofs**, **ServerOpenProofs**, **ClientOpenProofs**, **ScanReportProofs**,
**FramingProofs**, **TcpProofs**, **UdpProofs** and **IcmpSweepProofs** hold the theorems. The **MC** modules hold plans, inputs and
command lines for TLC. An operator named `X_Something` just before `X` is a
plausible mistake in `X`, used to confirm that a property can tell the difference;
nothing else uses it.

## The runs

| run | what it asks | bounds and why they suffice |
|---|---|---|
| `session_faults` | is everything the client prints and returns true, do the programs ever reject each other, is any test run twice, does either end always return | a full batch and a shorter one, 3 outcomes per test and end, 2 versions, all faults at any point, both capacities 1: sends block as early as they can. Two batches show state left over from one to the next; a batch of two shows reports out of order |
| `session_bidir` | are opposite directions exclusive; does Session implement Scan; does a scan nobody disturbs succeed, with no deadlock and every variable of its type | both directions of two ports. `CapToServer = 3` lets a whole batch and its BatchEnd wait in the connection, which is what the first hazard needs: the server can be a batch behind the client. `CapToClient = 1` makes the server wait with its second report until the client reads |
| `session_setup_errors` | finding, see below | |
| `server_loop` | are accepted tests answered once, is the limit kept, is the server released, is the next client served | two clients: one that is served and one that waits, or two sessions in a row. Five messages in all: a session with a batch of two, or two shorter sessions |
| `client_open` | are verdicts backed by exactly their report, does the wait for reports end, is the client released | six messages complete both batches of a plan of three tests but for the Bye, or one batch with repeated reports |
| `scan_report` | are batches well formed, is the plan what was asked, is validation exact; do the ranges say what the results say; is every result told; is the report the scan | up to 2 tests of 4 names and 2 of 5 ranges, and 7 lists that are malformed or at a boundary; batches of 1 and 2: a range that divides evenly, one with a rest, overlapping ranges, an inverted one. Reports of scans of up to four results: two ranges of two, a range broken by a repeated port, both directions; port 3 stands for `u16::MAX` |
| `scan_plan_exit_codes` | finding, see below | |
| `tcp_exchange` | is a pass a round trip; does any retry, window or deadline fail a test that could pass (open, 1kb, tls and dns) | ticks of 100 ms, the pause between attempts; `--timeout` 1 s; starts 0, 0.3, 1.8 and 2.3 s apart: at once, within the accept window, the last attempt in time, and beyond. Twenty refusals fit in the deadline, a delay of 1.8 s needs the last but one |
| `tcp_differences` | finding, see below | |
| `udp_exchange` | the same for udp (open, 1kb and dns); is the report in time; is a pass of one end alone never told | ticks of 20 ms, the pause between the attempts of dns; `--timeout` 0.5 s, its default, where a deadline cuts the fifth attempt; starts 40 and 180 ms apart, one within the margin of `receive_timeout` and one beyond; two faults: a lost request together with a lost or doubled one, or with a datagram of others |
| `framing` | are lines whole, in order and at last returned; is the limit exact; is the end told right; is it the queue of ControlChannel | six bytes with newlines anywhere, frames of at most three, a buffer of two: a line of exactly the limit needs two reads, one beyond it as well, and a second line follows either |
| `icmp_sweep` | does a type pass on its own reply only; does any other packet fail it; does a sweep stay within its timeout | two sweeps of two types, `echo-reply` and `echo-request`: one type's probe looks like the other's reply, which is what a host that sweeps itself sees. `Timeout = 4` gives each type two ticks and a held-up worker less. Four ids for four probes, starting in the middle: they wrap once. A packet may be late by one probe, and two are repeated or foreign |

`NoFalseFailure` has a precondition, `InTime`: the starts of the ends are so close
that an attempt falls into the time of both, and the segments waited for one after the other
(`Flights`; a handshake has two more) arrive before the deadline. It is computed from the
constants of the code, the delay and the latency, not from the run, and outside it
failures do happen: for example, with
`--timeout` of 5 s or more the udp target's five windows are over before a lost
request is sent again. A lost *reply* always fails the test, because the target
answers once.

The control connection's delay is a constant of a TestTiming run, and its loss is
left to Session. `ReportInTime` asks for a round trip below 100 ms, the margin
`receive_timeout` has over the server's deadline; the delay of 40 ms in
`udp_exchange` is the longest such on its ticks.

Deadlock is checked in every run: `Finished`, `Stops` and `Over` are the states in
which the programs have returned.

### Fairness

`Fairness` has weak fairness of each end's steps, and of its local tests. Each end
is one tokio task that is polled whenever something it waits for is ready;
`run_protocol` puts a deadline of timeout + 2 s around every test, so a test ends.
Nothing is assumed about faults, nor that a silent peer speaks: in ServerOpen and
ClientOpen the peer has no fairness at all, and the liveness properties there
are conditional on its leaving. `ReportsBounded` rests on the
`tokio::time::timeout` around the receive of a report, which is an action of the
client there.

In Framing a caller calls again (`WF` of `RecvCalled`), and a round of the loop that
is possible again and again is taken (`SF` of `Loop`): tokio's `timeout` polls the
receive before its own timer, so a call that is dropped has first taken what was
there. `SF` is needed because a dropped call disables the round. In ServerLoop the
loop's own steps are fair, and of a handshake only that it fails once its client
is gone. Neither TLS nor the Hello has a timeout there, so a silent client holds the
server for as long as it stays: `WaitingServed` says that whoever waits is accepted
*if no client holds the loop for good*. That clients leave is its premise, not an
assumption of the specification.

In `session_faults` the loss of the connection is noticed by both ends
(a read or write of a reset stream fails).

### Findings

* `session_setup_errors`: `README.MD` defines ERR as "could not run the test" and
  FAIL as an exchange that failed. If the client's own half failed, the server's
  "could not run it" is dropped from the status (`orchestrator.rs:300`): with an
  occupied port at the server both ends usually fail, and the user is shown FAIL.
* `scan_plan_exit_codes`: `README.MD` has exit code 2 for an invalid configuration
  and 3 for a control connection failure. A name that is not registered is only
  found by `run_client`, after connecting, and ends in 3 (`main.rs:306`).
* `tcp_differences`: `README.MD` says payload differences are reported separately.
  The filter (`orchestrator.rs:765`) asks for the words of the target's half,
  "mismatch: received payload differs", in the reason of the verdict. A difference
  seen by the initiator is called "mismatch" (`exchange.rs:86`), and what the server's
  target saw is not the verdict's reason when the client's initiator failed as well,
  as it does when the target closes without echoing. Then "No payload differences
  reported" is printed.

## What is proved

TLAPS checks thirty-three theorems, each for every value of the constants. Together they
state every invariant, every action property and both refinements that the passing runs
check; only liveness is left to the runs.

| theorem | says |
|---|---|
| **Session**: any plan, batch size, buffers, faults, versions and results | |
| `TypeCorrect` (SessionProofs) | `TypeOK` |
| `VerdictsAreTrue` (SessionProofs) | `VerdictsTrue`: an emitted verdict is what the ends observed, PASS exactly when both passed |
| `ExitZero` (SessionProofs) | `ExitZeroMeansAllPassed`: exit code 0 is told only of a scan whose tests all passed at both ends |
| `TestsRunOnce` (SessionProofs) | `EachTestRunsOnce`: no step changes an observation once made |
| `TalliesAreComplete` (SessionProofs) | `TalliesComplete`: what has been emitted is the plan before the current batch, in order, each test once and counted by its status |
| `DirectionsExclusive` (SessionProofs) | `OppositeDirectionsExclusive`: tests of opposite directions never run at once |
| `SessionImplementsScan` (SessionProofs) | `ImplementsScan`: every step of programs, connection and faults is a step of Scan or a stutter |
| `PeersAlwaysAgree` (SessionProofs) | `PeersAgree`: peers of one version never reject what the other says |
| **ServerLoop**: any clients, one after the other | |
| `TestsAreAnswered` (ServerOpenProofs) | `EveryTestAnswered`: accepted tests are answered once each, and none besides |
| `ParallelIsBounded` (ServerOpenProofs) | `ParallelBounded`: no more tests are collected or run than were agreed |
| **ClientOpen**: any server | |
| `VerdictsAreBacked` (ClientOpenProofs) | `VerdictsBacked`: a verdict rests on the one report read while it was due |
| `ReportsAreExpected` (ClientOpenProofs) | `OnlyExpectedReports`: a report that is not due ends the scan |
| **ScanPlan**: any command line | |
| `BatchesAreWellFormed` (ScanReportProofs) | `BatchesWellFormed`: the loops keep the contract of Batches |
| `ValidationIsExact` (ScanReportProofs) | `ValidationExact`: exactly the scans that cannot be served are refused |
| `PlanIsAsked` (ScanReportProofs) | `PlanIsWhatWasAsked`: the plan has each test as often as it was asked for, and no other |
| **ScanReport**: any command line, any outcome of every test, any largest port | |
| `RangesAreFaithful` (ScanReportProofs) | `RangesFaithful`: a port is in as many ranges of its group and outcome as it has results |
| `RangesAreMaximal` (ScanReportProofs) | `RangesMaximal`: with every port tested once, no two ranges could be one |
| `FailLinesAreExact` (ScanReportProofs) | `FailLineExact`: a batch's live line shows the ports that failed for the reason, and no others |
| `ResultsAreTold` (ScanReportProofs) | `EveryResultTold`: in each of the sixteen modes every result has a line or a range that is shown |
| `ReportIsTheScan` (ScanReportProofs) | `ReportCoversScan`: the ranges count each port as often as the command line asks for it |
| **Framing**: any stream, limit, chunks and dropped calls | |
| `LinesAreWhole` (FramingProofs) | `LinesWhole`: the lines returned are those of the stream, in order, none left out |
| `LimitIsExact` (FramingProofs) | `LimitExact`: a line is refused exactly when it exceeds the limit |
| `EndIsTold` (FramingProofs) | `EndTold`: how the stream ended is told correctly, after its last byte |
| `FramingIsAQueue` (FramingProofs) | `ImplementsQueue`: above the channel there is only a queue of ControlChannel |
| **TcpExchange**: any timeout, delay and latency, any path | |
| `PassesAreRoundTrips` (TcpProofs) | `PassMeansRoundTrip`: the initiator passes after the target, on an open path, with nothing altered that is looked at |
| `NoFailureOfItsOwn` (TcpProofs) | `NoFalseFailure`: with starts in time, no retry, window or deadline fails a test that could pass |
| **UdpExchange**: any timeout, delay and latency, any number of losses, doubles and foreign datagrams | |
| `PassesAreRoundTrips` (UdpProofs) | `PassMeansRoundTrip`, the same for datagrams |
| `NoFailureOfItsOwn` (UdpProofs) | `NoFalseFailure`: one attempt in time more than were lost or spoiled is enough |
| `ReportsInTime` (UdpProofs) | `ReportInTime`: a report is not given up while the round trip is below 100 ms |
| `PassNeedsBothEnds` (UdpProofs) | `PassNeedsBoth`: PASS is told only if both ends passed |
| **IcmpSweep**: any sweeps side by side, types, timeouts, delays and foreign packets | |
| `PassesAreAnswered` (IcmpSweepProofs) | `PassMeansAnswered`: a type passes on its own reply, and a sweep with an unanswered type does not pass |
| `RepliesAreHeard` (IcmpSweepProofs) | `NoFalseFailure`: a reply that comes in its wait is taken |
| `WaitsEndInTime` (IcmpSweepProofs) | `WaitsWithinTimeout`: the waits of all types end within the timeout |

**How they fit together.** The theorems about Session and ClientOpen assume that `Plan`
is `WellFormed`; `BatchesAreWellFormed` shows the loops of `run_client` make no other.
Session's connection is a pair of queues of messages; `FramingIsAQueue` shows that the bytes,
chunks and dropped receives beneath one of them cannot be told from it.
`SessionImplementsScan` then says what the user is promised. `ReportIsTheScan` runs from
the command line to the ranges, through the batches; in between it takes of a session
only what `TalliesAreComplete` shows, that the results come in plan order, each once.

**Assumptions.** Those of the modules, and TLC evaluates each in the runs of its module:

* Session: `Plan` is `WellFormed`; capacities and versions are naturals; "no reason"
  is not a reason and "no result" not a result. ServerOpen and ClientOpen: what
  the peer sends is made of messages of the protocol (`InputsAssumption`), and what tests
  return of results (`ResultsAssumption`).
* ScanPlan: a command line has names, ranges and a parallelism of their types
  (`CommandLineAssumption`), and every registered protocol has a transport.
* ScanReport: the order of the names has every registered name (`ReportAssumption`).
* TestTiming: a second is a positive number of ticks, ten of which parts are whole
  (`TimingAssumption`); TcpExchange and UdpExchange: latency is a natural, and the reasons the
  code gives are among the reasons (`TcpAssumption`, `UdpAssumption`). No timeout is
  related to a delay by an assumption: where a theorem needs that, its property says so
  (`InTime`, or the round trip of `ReportInTime`).
* Framing: constants are naturals, the limit and the buffer positive.
* IcmpSweep: the types are bytes, `NEXT_ICMP_ID` starts anywhere, and there are at least as
  many ids as probes in all sweeps together. Without the last, ids do repeat (see "Not
  modelled").

Nothing is assumed about fairness.

**Session.** None of the properties is inductive: each says something of verdicts or
counts, and nothing of the messages and the tests they come from. The invariant has six
parts, each a conjunction of named ones, each proved from those before it, and
checked by TLC before it was proved:

1. `TypeInv`: `TypeOK`, and where the client is in its plan in each of its states
   (`ClientAt`). Without it `batch` need not exist.
2. `FlowInv`: a Test of the plan is in one place, not yet sent, being sent, in transit,
   in the server's batch, or run (`OnePlace`, `SentOnce`, `CollectedOnce`), and what is
   not yet run has no observation at the server (`NotYetRun`). This gives `TestsRunOnce`.
3. `ReportInv`: a report, wherever it is, carries the server's observation of its
   test (`Truthful`). It needs part 2: a second run would make a report under way stale.
4. `VerdictInv`: the client's `completed` holds its own observation until the report,
   then the two reconciled; emitted verdicts are judged (`EmittedJudged`) and the counts
   count them (`CountsTrue`). `VerdictsAreTrue` and `ExitZero` follow.
5. `ScanInv`: the batches before the client's were run at both ends
   (`PastObserved`), and what has been emitted is those batches (`EmittedInOrder`,
   `Counted`). With part 2 it confines the server to the batch the client is in
   (`RunsCurrent`), and since a batch has one direction, `DirectionsExclusive` follows; so
   does the refinement, in which a `ClientTally` is a judged batch and a test
   run at either end an observation.
6. `OrderInv`: for each pair of places the two programs can be at
   (`Phases`), what is in either queue is exactly what its reader reads next: the rest of
   the batch's messages from where the server has got to (`Upstream`), or reports still
   owed, each once (`Downstream`). `NothingLost` ties the client's count of sent
   messages to them while nothing is broken; a BatchEnd can then only arrive after all
   its tests, and a limit is never passed.

Each part has a lemma per group of actions, the client's, the server's and the
channel's. All steps that only lose messages (a reset, a kill, a return) are treated
alike (`FlowShrinks`).

**ServerLoop.** `OpenInv` keeps an account for every test id: what was taken on is what
was answered, plus what is collected, running or being reported (`Accounts`), and
the batch is within the limit of the Configure accepted (`WithinLimit`). The account is
closed at the end of a session, which is why the next one starts even.

**ClientOpen.** `HearInv` follows the reports through the plan: none heard for a batch
to come (`FutureUntouched`), at most one per test of this batch, and exactly one where
the client no longer expects any (`CurrentFollowed`), one each in the batches that are over
(`PastReported`). A client that fails may have read one report more, over which it failed.

**ScanPlan.** `LoopInv` says where the loops are, that the batch being filled
`Fits`, and that ids have no gaps. `PlanTraced` adds a one-to-one map from the places in the
plan to the port, test and direction that were asked for and that the loops have passed.
At the end all have been passed, so plan and request have the same number of each test.

**ScanReport.** `ReportInv` continues `PlanInv` through the report. The results so far
correspond one-to-one to the places in the batches executed so far (`ResultsAnswer`), and
the sort is a permutation of them (`Sorting`): ranks are distinct and there are as many as
results. `RangesCount` says that for every set of outcomes, a port is in as many ranges of its
group as there are results taken; a round that extends a range adds one port to it, any
other adds a range of one. For a single outcome that is `RangesFaithful`; for all outcomes at once, with
the two correspondences, `ReportCoversScan`. `RangesPlaced` says that, with every port
tested once, the ranges are in sort order and apart and no two could be joined; it needs that the last range ends at the last result taken
(`LastTaken`). `fail_map` and `format_port_ranges` are recursive functions; `LoopRuns` shows that
such a function exists for any loop body, and what they compute (`FailsFirst`, `ShowsFirst`) is shown
by taking the first step at which it would be wrong, as the order of the naturals allows.
The operator form of induction is not needed for that.

**TcpExchange.** A pass is a claim about the other end, so `TripInv` says what a segment on
its way implies: a request is on an open path, a reply comes from a target that has
passed. For `NoFalseFailure`, `OnCourse` says that there is a time `now`, which both ends' clocks
agree with (`Clock`), and that the test is in one of twelve situations: not begun (`Idle`), a
connection asked for (`Asking`) and perhaps turned away by a port not yet bound (`TurnedAway`,
`Resting`), `Welcomed`, `Acknowledged`, the handshake (`Greeting`, `Greeted`, `Secured`),
`Requested`, `Replying`, `Through`. Each names the segments on the wire, what every timer has
left, and the time by which it is over: one latency per segment after `LastConnect`, the
last attempt that a refusal can make necessary. `InTime` puts all of them before the deadlines. There
is a lemma for each situation and the steps that can be taken in it.

**UdpExchange.** `ClockInv` bounds the time at which the server's report is there (`ReportDue`)
below what the client still waits (`ReportFirst`). It knows only the clock: every step of
the exchange is a step of the clock (`ClockStep`). `TripInv` is the one of TcpExchange for datagrams on
their way or in a socket's buffer. `OnCourse` has no fixed schedule, since any
request may be lost and others may spoil a receive; instead it counts. As long as the
target has heard nothing, the attempts in time up to the current one are no more than were lost
or spoiled (`Costs`), unless a request is on its way that will be heard in time (`Underway`), so one is left
(`Unheard`). Once it has heard, the reply is in time for the current attempt, or one more attempt will
be there to receive it (`Hopes`), through `Heard`, `Answering` and `Delivered`.

**Framing.** `FramingInv` adds what `self.frame` holds between two rounds: all that was
consumed since the last line returned, without a newline in it (`FrameInv`); that a failure
had its reason and is final (`FailedInv`); and that after a told end nothing is left
to read (`ToldInv`). A call that is dropped leaves the reader as it is
(`OutsideFraming`). For the refinement, a queue is the newlines not yet returned in order of
their ranks (`Ranks`): a write adds a last one (`LineAdded`), a return takes the first
(`LineTaken`), a chunk changes none (`QueueStays`).

**IcmpSweep.** That a reply with a probe's id and number is a reply to that probe rests
on the ids. `IdsApart` says there is a map from the types begun to ids, one-to-one, whose
values lie in one arc of the circle of ids that ends just before `next_id`, and that every
packet under way carries the id of its type. Since there are ids enough, the arc does
not close, and the next id is new (`IdTaken`). A packet that matches is then the probe
itself, which has another type than its reply (`ExpectedFacts`); an answer to it; or
someone else's. `HeardKept` says that a reply in time is in the socket or was
taken, and `ProbeCurrent` bounds the wait.

**Only model-checked.** Liveness (`SessionEnds`, `ScanSucceeds`, `LinesArrive`,
`WaitingServed`, `ServerReleased`, `ClientReleased`, `ReportsBounded`): TLAPS proves nothing of
fairness or `ENABLED`. That no run deadlocks is likewise TLC's finding.

## Not modelled, and why

* Cryptography, certificates and the text of a pin (`control/tls.rs`): no state after the
  handshake. That the handshake fails, for a wrong pin as for anything else, is an action
  at both ends.
* Terminal output, colours and log levels; the text of reasons and of JSON; clap's own
  parsing; name resolution beyond "resolved or not".
* `icmp-ping`, which runs the external program `ping`; an ICMP test that ends at once
  (the target end, IPv6, no permission); the blocking worker of a sweep whose session was
  dropped, which runs on unheard.
* Growth without bound: ids of a sweep that wrap while an earlier sweep still waits
  (65536 probes later), memory, the listener's queue of 1024.

In Session the protocols are not looked into: what a test returns is any
observation, so its properties hold whatever the protocols do.

Behaviour worth knowing that no document denies, met while modelling: a client that stays
connected and silent keeps the server from all others; `bimap client` without a server
exits with 2 before it would list the tests; the live line of failures calls a test that
could not be run FAIL; most ICMP types have no expected reply, so `icmp-full` never
passes; two bimap processes start their ICMP ids at the same number, and their sweeps
can be answered with each other's replies, which IcmpSweep's foreign packets include.

## Plan

Done: all modules above and their theorems. What the project would gain most from next:

1. **TestSequence**: several tests on one port one after the other, with datagrams
   left over from one to the next, composed from UdpExchange and the batches.
2. ScanReport as a refinement over Session: the results pushed there are those of
   `TalliesComplete`, which today connects the two modules by its statement only.
