------------------------------ MODULE ScanPlan ------------------------------
(***************************************************************************)
(* From the command line to the batches: the checks main makes before it   *)
(* connects, --port-range as parse_port_ranges reads it, the checks        *)
(* run_client makes before it configures the server, and run_client's      *)
(* loops over tests, port ranges, directions and ports, which cut the scan *)
(* into batches.  A batch counts as executed when it is handed to          *)
(* execute_batch, see module Client for what follows.                      *)
(***************************************************************************)
EXTENDS Batches, Integers, FiniteSets

CONSTANTS
  TransportsOf,   \* the registry: the transports of each test, by name
  L3,             \* the registered tests of layer 3
  TestLists,      \* what may be given with --test
  SpecLists,      \* what may be given with --port-range
  Parallels,      \* what may be given with --parallel
  MaxPort         \* u16::MAX

ASSUME ScanPlanAssumption ==
  /\ MaxPort \in Nat
  /\ \A name \in DOMAIN TransportsOf : TransportsOf[name] # {}

\* The command line as clap hands it over: lists of names, of port ranges as
\* they are written, and a usize.
ASSUME CommandLineAssumption ==
  /\ TestLists \subseteq Seq(STRING)
  /\ SpecLists \subseteq Seq([transport : STRING, ports : Seq(Int)])
  /\ Parallels \subseteq Nat

VARIABLES
  address,  \* whether the server's and the target's address were "resolved"
  tests, specs, parallel, bidir,    \* the rest of the command line
  ranges,   \* run_client's own copy of the port ranges, once they are parsed
  stage,    \* "start", "validate", "plan"; before any batch a scan may also
            \* end: "exit", or "unreachable" when the server is
  exit,     \* the exit code then
  ti, ri,   \* the test and the range the loops have come to
  dirs,     \* the directions still to do for them
  port,     \* the next port of the range
  id,       \* the next test id
  batch,    \* the batch being filled
  plan      \* the batches handed over

config == <<address, tests, specs, parallel, bidir>>
loops == <<ti, ri, dirs, port, id, batch, plan>>
vars == <<config, ranges, stage, exit, loops>>

PortRange(transport, start, end) == [transport |-> transport, start |-> start, end |-> end]

\* A port as it is written: a number, a word, or neither.
AnyPort == -1
Garbage == -2

\* A --port-range: its transport, and the one port or the two it names (none
\* when there is no slash).
Written(transport, ports) == [transport |-> transport, ports |-> ports]

AnyIcmp(spec) == spec.transport = "icmp" /\ spec.ports = <<AnyPort>>

\* parse_port_ranges accepts a specification, and what it makes of it.
Parses(spec) ==
  \/ AnyIcmp(spec)
  \/ /\ spec.transport \in {"tcp", "udp", "icmp"}
     /\ spec.ports # <<>>
     /\ \A k \in DOMAIN spec.ports : spec.ports[k] \in 0 .. MaxPort
     /\ spec.ports[1] <= spec.ports[Len(spec.ports)]
Parsed(spec) ==
  IF AnyIcmp(spec) THEN PortRange("icmp", 0, 0)
  ELSE PortRange(spec.transport, spec.ports[1], spec.ports[Len(spec.ports)])

given == [r \in DOMAIN specs |-> Parsed(specs[r])]

Registered == DOMAIN TransportsOf
Directions == IF bidir THEN <<"->", "<-">> ELSE <<"->">>

Init ==
  /\ address \in {"resolved", "unresolved"}
  /\ tests \in TestLists
  /\ specs \in SpecLists
  /\ ranges = <<>>
  /\ parallel \in Parallels
  /\ bidir \in BOOLEAN
  /\ stage = "start"
  /\ exit = 0
  /\ ti = 1 /\ ri = 1 /\ dirs = <<>> /\ port = 0
  /\ id = 0 /\ batch = <<>> /\ plan = <<>>

Exit(code) == stage' = "exit" /\ exit' = code

-----------------------------------------------------------------------------
\* main, before it connects: no address for the server or the target; a test
\* above layer 3 without any port range; a port range that does not parse.
Unresolved == address = "unresolved"
NeedsRange ==
  specs = <<>> /\ \E t \in DOMAIN tests : tests[t] \in Registered \ L3
Unparsable == \E r \in DOMAIN specs : ~Parses(specs[r])

RejectsCommandLine ==
  /\ stage = "start"
  /\ Unresolved \/ (tests # <<>> /\ (NeedsRange \/ Unparsable))
  /\ Exit(2)
  /\ UNCHANGED <<config, ranges, loops>>

\* Without a test the tests are listed.
ListsTests ==
  /\ stage = "start" /\ ~Unresolved /\ tests = <<>>
  /\ Exit(0)
  /\ UNCHANGED <<config, ranges, loops>>

\* The connection to the server, its TLS with the pinned fingerprint, and the
\* Hello may fail.
Accepted ==
  stage = "start" /\ ~Unresolved /\ tests # <<>> /\ ~NeedsRange /\ ~Unparsable

client_tls_connect_Fails ==
  /\ Accepted
  /\ stage' = "unreachable" /\ exit' = 3
  /\ UNCHANGED <<config, ranges, loops>>

\* ClientConfig: run_client gets the parsed ranges, in which its own
\* validate_port_ranges finds nothing to refuse.
StartsClient ==
  /\ Accepted
  /\ stage' = "validate"
  /\ ranges' = given
  /\ UNCHANGED <<config, exit, loops>>

Matching(test) == {r \in DOMAIN ranges : ranges[r].transport \in TransportsOf[test]}

NeedsIcmp_Always(test) == TRUE
NeedsIcmp(test) == "icmp" \in TransportsOf[test]

\* run_client's look at one test: it must be registered and have a range of
\* one of its transports; an ICMP test without any gets one, which later
\* tests see too.
Validate ==
  /\ stage = "validate" /\ ti <= Len(tests)
  /\ IF tests[ti] \notin Registered THEN Exit(3) /\ UNCHANGED <<ranges, ti>>
     ELSE IF Matching(tests[ti]) # {}
     THEN ti' = ti + 1 /\ UNCHANGED <<ranges, stage, exit>>
     ELSE IF NeedsIcmp(tests[ti])
     THEN /\ ranges' = Append(ranges, PortRange("icmp", 0, 0))
          /\ ti' = ti + 1
          /\ UNCHANGED <<stage, exit>>
     ELSE Exit(3) /\ UNCHANGED <<ranges, ti>>
  /\ UNCHANGED <<config, ri, dirs, port, id, batch, plan>>

\* Every test has passed: Configure and Ack, then the loops.
Configured ==
  /\ stage = "validate" /\ ti > Len(tests)
  /\ stage' = "plan"
  /\ ti' = 1
  /\ UNCHANGED <<config, ranges, exit, ri, dirs, port, id, batch, plan>>

\* The loops enter a range the test can use, or pass over it.
EnterRange ==
  /\ stage = "plan" /\ ti <= Len(tests) /\ ri <= Len(ranges) /\ dirs = <<>>
  /\ IF ri \in Matching(tests[ti])
     THEN /\ dirs' = Directions
          /\ port' = ranges[ri].start
          /\ UNCHANGED ri
     ELSE ri' = ri + 1 /\ UNCHANGED <<dirs, port>>
  /\ UNCHANGED <<config, ranges, stage, exit, ti, id, batch, plan>>

NewEntry ==
  [id |-> id, proto |-> tests[ti], transport |-> ranges[ri].transport,
   port |-> port, dir |-> Head(dirs)]

PortsLeft_Exclusive == port < ranges[ri].end
PortsLeft == port <= ranges[ri].end

\* One port joins the batch; a full batch is executed.
PushPort ==
  /\ stage = "plan" /\ dirs # <<>> /\ PortsLeft
  /\ port' = port + 1
  /\ id' = id + 1
  /\ LET filled == Append(batch, NewEntry) IN
       IF Len(filled) >= BatchSize(parallel)
       THEN plan' = Append(plan, filled) /\ batch' = <<>>
       ELSE plan' = plan /\ batch' = filled
  /\ UNCHANGED <<config, ranges, stage, exit, ti, ri, dirs>>

MustFlush_LastDirectionOnly == batch # <<>> /\ Len(dirs) = 1
MustFlush == batch # <<>>

\* The ports of a direction are through: what is left of the batch is
\* executed before the next direction, or the next range.
EndDirection ==
  /\ stage = "plan" /\ dirs # <<>> /\ ~PortsLeft
  /\ IF MustFlush THEN plan' = Append(plan, batch) /\ batch' = <<>>
                  ELSE UNCHANGED <<plan, batch>>
  /\ dirs' = Tail(dirs)
  /\ IF Len(dirs) > 1 THEN port' = ranges[ri].start /\ UNCHANGED ri
                      ELSE ri' = ri + 1 /\ UNCHANGED port
  /\ UNCHANGED <<config, ranges, stage, exit, ti, id>>

NextTest ==
  /\ stage = "plan" /\ ti <= Len(tests) /\ ri > Len(ranges)
  /\ ti' = ti + 1
  /\ ri' = 1
  /\ UNCHANGED <<config, ranges, stage, exit, dirs, port, id, batch, plan>>

Planned == stage = "plan" /\ ti > Len(tests)

Over == (stage \in {"exit", "unreachable"} \/ Planned) /\ UNCHANGED vars

Start == RejectsCommandLine \/ ListsTests \/ client_tls_connect_Fails \/ StartsClient

Next == \/ Start \/ Validate \/ Configured
        \/ EnterRange \/ PushPort \/ EndDirection \/ NextTest
        \/ Over

Spec == Init /\ [][Next]_vars

-----------------------------------------------------------------------------
\* execute_batch's contract, at every moment of run_client's loops: see
\* Batches!WellFormed, and one test protocol object serves a whole batch.
BatchesWellFormed == WellFormed(plan, parallel)

Key(proto, transport, p, dir) ==
  [proto |-> proto, transport |-> transport, port |-> p, dir |-> dir]
KeyOf(e) == Key(e.proto, e.transport, e.port, e.dir)

\* The tests the command line asks for: one for each way a test name, a range
\* of one of its transports and a direction give it.
Wanted(key) ==
  IF key.dir = "->" \/ bidir
  THEN Cardinality({tr \in (DOMAIN tests) \X (DOMAIN ranges) :
         /\ tests[tr[1]] = key.proto
         /\ tr[2] \in Matching(tests[tr[1]])
         /\ ranges[tr[2]].transport = key.transport
         /\ key.port \in ranges[tr[2]].start .. ranges[tr[2]].end})
  ELSE 0

\* When run_client's loops end, every test asked for is in a batch, as often
\* as it was asked for, under the ids 0, 1, 2...; no other test is; and every
\* name given with --test has at least one.
PlanIsWhatWasAsked ==
  Planned =>
    LET slots == UNION {{b} \X DOMAIN plan[b] : b \in DOMAIN plan}
        At(s) == plan[s[1]][s[2]]
    IN /\ \A s \in slots :
            Cardinality({u \in slots : KeyOf(At(u)) = KeyOf(At(s))}) = Wanted(KeyOf(At(s)))
       /\ \A t \in DOMAIN tests, r \in DOMAIN ranges :
            r \in Matching(tests[t]) =>
              \A p \in ranges[r].start .. ranges[r].end :
                \A k \in DOMAIN Directions : \E s \in slots :
                  KeyOf(At(s)) = Key(tests[t], ranges[r].transport, p, Directions[k])
       /\ {At(s).id : s \in slots} = 0 .. id - 1
       /\ Cardinality(slots) = id
       /\ \A t \in DOMAIN tests : \E s \in slots : At(s).proto = tests[t]

\* A test can be part of a scan with the port ranges given.
Servable(test) ==
  /\ test \in Registered
  /\ \/ "icmp" \in TransportsOf[test]
     \/ \E r \in DOMAIN given : given[r].transport \in TransportsOf[test]

\* run_client's validation lets a scan begin exactly when every test named
\* can be part of it, in whatever order they are named; it adds one ICMP range
\* at most, and only when the command line has none.
ValidationExact ==
  /\ stage = "plan" => \A t \in DOMAIN tests : Servable(tests[t])
  /\ stage = "exit" /\ exit = 3 => \E t \in DOMAIN tests : ~Servable(tests[t])
  /\ stage = "plan" /\ ranges # given =>
       /\ ranges = Append(given, PortRange("icmp", 0, 0))
       /\ \A r \in DOMAIN given : given[r].transport # "icmp"

\* README, exit codes: "2 invalid configuration", "3 control connection
\* failure".  A test that is not registered makes the configuration invalid.
InvalidTestExits2 ==
  stage = "exit" /\ (\E t \in DOMAIN tests : tests[t] \notin Registered) => exit = 2
=============================================================================
