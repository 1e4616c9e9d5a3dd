-------------------------- MODULE ScanReportProofs --------------------------
(***************************************************************************)
(* The plan: what main and run_client's loops make of a command line.  The *)
(* batches keep execute_batch's contract, validation lets exactly the      *)
(* servable scans begin, and the plan is what was asked for, no more, no   *)
(* less and nothing twice that was asked for once.                         *)
(*                                                                         *)
(* The report: what is made of the results of that plan.  The ranges count *)
(* each result once, are as long as they can be, and are the scan that was *)
(* asked for; no result is lost in any mode of the output; the live line   *)
(* of a batch shows the ports that failed.                                 *)
(***************************************************************************)
EXTENDS ScanReport, FiniteSetTheorems, FunctionTheorems, SequenceTheorems,
        WellFoundedInduction, TLAPS

USE ScanPlanAssumption, CommandLineAssumption

Specifications == [transport : STRING, ports : Seq(Int)]
Transports == {"tcp", "udp", "icmp"}
PortRanges == [transport : Transports, start : 0 .. MaxPort, end : 0 .. MaxPort]
TestEntries ==
  [id : Nat, proto : STRING, transport : Transports, port : Nat, dir : {"->", "<-"}]

TypeInv ==
  /\ tests \in Seq(STRING)
  /\ specs \in Seq(Specifications)
  /\ ranges \in Seq(PortRanges)
  /\ parallel \in Nat /\ bidir \in BOOLEAN
  /\ stage \in {"start", "validate", "plan", "exit", "unreachable"}
  /\ exit \in Nat
  /\ ti \in Nat \ {0} /\ ri \in Nat \ {0}
  /\ dirs \in {<<>>, Directions, <<"<-">>}
  /\ dirs = <<"<-">> => bidir
  /\ port \in Nat /\ id \in Nat
  /\ batch \in Seq(TestEntries)
  /\ plan \in Seq(Seq(TestEntries))

-----------------------------------------------------------------------------
\* The ranges run_client works with: those given, all parsed, and at most one
\* more, the ICMP range it adds when there is none.
AnyPortRange == PortRange("icmp", 0, 0)
Lacks(transport) == \A r \in DOMAIN given : given[r].transport # transport

RangesKnown ==
  stage \in {"validate", "plan"} =>
    /\ \A r \in DOMAIN specs : Parses(specs[r])
    /\ \A r \in DOMAIN ranges : ranges[r].start <= ranges[r].end
    /\ ranges = given \/ (ranges = Append(given, AnyPortRange) /\ Lacks("icmp"))

\* A test that has been looked at can be served, by a range that is there.
Accepts(test) == test \in Registered /\ Servable(test) /\ Matching(test) # {}

TestsValidated ==
  /\ stage = "validate" => \A t \in DOMAIN tests : t < ti => Accepts(tests[t])
  /\ stage = "plan" => \A t \in DOMAIN tests : Accepts(tests[t])
  /\ stage = "exit" /\ exit = 3 => \E t \in DOMAIN tests : ~Servable(tests[t])

-----------------------------------------------------------------------------
\* Where the loops are.
LoopsPlaced ==
  /\ stage # "plan" => dirs = <<>> /\ ri = 1 /\ id = 0 /\ plan = <<>>
  /\ stage = "start" => ti = 1
  /\ stage = "plan" => ti <= Len(tests) + 1 /\ ri <= Len(ranges) + 1
  /\ stage = "plan" /\ ti > Len(tests) => dirs = <<>> /\ ri = 1
  /\ dirs # <<>> =>
       /\ ti <= Len(tests) /\ ri \in Matching(tests[ti])
       /\ ranges[ri].start <= port /\ port <= ranges[ri].end + 1
  /\ dirs = <<>> => batch = <<>>

\* A batch that may be handed over.
Fits(entries) ==
  /\ Len(entries) \in 1 .. BatchSize(parallel)
  /\ \A i, j \in DOMAIN entries :
       /\ entries[i].proto = entries[j].proto
       /\ entries[i].transport = entries[j].transport
       /\ entries[i].dir = entries[j].dir
       /\ entries[i].port = entries[j].port => i = j

\* The batch being filled has room, and tests ports the loop is past, each
\* once, where the loops are.
BatchFills ==
  /\ Len(batch) < BatchSize(parallel)
  /\ \A i \in DOMAIN batch :
       /\ batch[i].proto = tests[ti]
       /\ batch[i].transport = ranges[ri].transport
       /\ batch[i].dir = Head(dirs)
       /\ batch[i].port < port
  /\ \A i, j \in DOMAIN batch : batch[i].port = batch[j].port => i = j

PlanFits == \A b \in DOMAIN plan : Fits(plan[b])

-----------------------------------------------------------------------------
\* A place in a plan p, the batch q being filled counted as its last.
BatchAt(p, q, b) == IF b = Len(p) + 1 THEN q ELSE p[b]
SlotsOf(p, q) ==
  {s \in (1 .. Len(p) + 1) \X (Nat \ {0}) : s[2] <= Len(BatchAt(p, q, s[1]))}
EntryAt(p, q, s) == BatchAt(p, q, s[1])[s[2]]

Slots == SlotsOf(plan, batch)
At(s) == EntryAt(plan, batch, s)

\* The ids up to the next are given out, each once.
IdsGiven ==
  /\ \A s \in Slots : At(s).id \in 0 .. id - 1
  /\ \A s, u \in Slots : At(s).id = At(u).id => s = u
  /\ \A n \in 0 .. id - 1 : \E s \in Slots : At(s).id = n

\* One test that is asked for: a name, a range, a direction and a port.
Ask(t, r, k, p) == [t |-> t, r |-> r, k |-> k, p |-> p]
Asked ==
  {a \in [t : DOMAIN tests, r : DOMAIN ranges, k : DOMAIN Directions, p : Nat] :
     a.r \in Matching(tests[a.t]) /\ ranges[a.r].start <= a.p /\ a.p <= ranges[a.r].end}
AskedKey(a) == Key(tests[a.t], ranges[a.r].transport, a.p, Directions[a.k])

\* The direction the loops are at, and what they are past.
Current == Len(Directions) - Len(dirs) + 1
Past(a) ==
  \/ a.t < ti
  \/ a.t = ti /\ a.r < ri
  \/ a.t = ti /\ a.r = ri /\ dirs # <<>> /\ (a.k < Current \/ (a.k = Current /\ a.p < port))
Done == IF stage = "plan" THEN {a \in Asked : Past(a)} ELSE {}

\* The places in the plan correspond one to one to what was asked for and is
\* past.
Traces(f) ==
  /\ f \in [Slots -> Done]
  /\ \A s, u \in Slots : f[s] = f[u] => s = u
  /\ \A a \in Done : \E s \in Slots : f[s] = a
  /\ \A s \in Slots : KeyOf(At(s)) = AskedKey(f[s])
PlanTraced == \E f : Traces(f)

LoopInv ==
  /\ TypeInv /\ RangesKnown /\ TestsValidated
  /\ LoopsPlaced /\ BatchFills /\ PlanFits /\ IdsGiven
PlanInv == LoopInv /\ PlanTraced

-----------------------------------------------------------------------------
\* parse_port_ranges: the range it makes of a specification it accepts has a
\* start no larger than its end, both ports.
LEMMA ParsedRange ==
  ASSUME NEW spec \in Specifications, Parses(spec)
  PROVE  /\ Parsed(spec) \in PortRanges
         /\ Parsed(spec).start <= Parsed(spec).end
<1>1. CASE AnyIcmp(spec)
  BY <1>1 DEF Parsed, PortRange, PortRanges, Transports
<1>2. CASE ~AnyIcmp(spec)
  <2>1. /\ spec.ports \in Seq(Int) /\ spec.ports # <<>> /\ spec.transport \in Transports
        /\ \A k \in DOMAIN spec.ports : spec.ports[k] \in 0 .. MaxPort
        /\ spec.ports[1] <= spec.ports[Len(spec.ports)]
    BY <1>2 DEF Parses, Specifications, Transports
  <2>2. 1 \in DOMAIN spec.ports /\ Len(spec.ports) \in DOMAIN spec.ports
    BY <2>1
  <2> QED BY <1>2, <2>1, <2>2 DEF Parsed, PortRange, PortRanges
<1> QED BY <1>1, <1>2

\* run_client starts from the ranges of the command line.
LEMMA GivenTyped ==
  ASSUME TypeInv, \A r \in DOMAIN specs : Parses(specs[r])
  PROVE  /\ given \in Seq(PortRanges)
         /\ Len(given) = Len(specs)
         /\ \A r \in DOMAIN given : given[r].start <= given[r].end
<1>1. \A r \in 1 .. Len(specs) : /\ Parsed(specs[r]) \in PortRanges
                                /\ Parsed(specs[r]).start <= Parsed(specs[r]).end
  <2>1. \A r \in 1 .. Len(specs) : specs[r] \in Specifications
    BY DEF TypeInv
  <2>2. DOMAIN specs = 1 .. Len(specs)
    BY DEF TypeInv
  <2> QED BY <2>1, <2>2, ParsedRange
<1>2. given = [r \in 1 .. Len(specs) |-> Parsed(specs[r])]
  BY DEF given, TypeInv
<1> HIDE DEF PortRanges, Parsed
<1>3. Len(specs) \in Nat
  BY DEF TypeInv
<1>4. given \in Seq(PortRanges) /\ Len(given) = Len(specs)
  BY <1>1, <1>2, <1>3
<1> QED BY <1>1, <1>2, <1>4

LEMMA DirectionsKnown ==
  ASSUME bidir \in BOOLEAN
  PROVE  /\ Directions \in Seq({"->", "<-"})
         /\ Len(Directions) \in {1, 2}
         /\ bidir <=> Len(Directions) = 2
         /\ Directions[1] = "->"
         /\ bidir => Directions[2] = "<-"
<1>1. CASE bidir
  <2>1. Directions = <<"->", "<-">>
    BY <1>1 DEF Directions
  <2> QED BY <1>1, <2>1
<1>2. CASE ~bidir
  <2>1. Directions = <<"->">>
    BY <1>2 DEF Directions
  <2> QED BY <1>2, <2>1
<1> QED BY <1>1, <1>2

\* batch_size is at least 1.
LEMMA BatchSizePositive ==
  ASSUME parallel \in Nat
  PROVE  BatchSize(parallel) \in Nat \ {0}
  BY DEF BatchSize

-----------------------------------------------------------------------------
LEMMA PlanInvInit == Init => PlanInv
<1> SUFFICES ASSUME Init PROVE PlanInv
  OBVIOUS
<1>1. TypeInv
  BY DEF Init, TypeInv, Specifications
<1>2. RangesKnown /\ TestsValidated /\ LoopsPlaced /\ PlanFits
  BY DEF Init, RangesKnown, TestsValidated, LoopsPlaced, PlanFits
<1>3. BatchFills
  BY <1>1, BatchSizePositive DEF Init, TypeInv, BatchFills
<1>4. Slots = {}
  BY DEF Init, Slots, SlotsOf, BatchAt
<1>5. IdsGiven
  BY <1>4 DEF IdsGiven, Init
<1>6. Traces([s \in {} |-> s])
  BY <1>4 DEF Traces, Done, Init
<1> QED BY <1>1, <1>2, <1>3, <1>5, <1>6 DEF PlanInv, LoopInv, PlanTraced

\* What is past stays traced while the plan and what is past do not change.
LEMMA TraceUnchanged ==
  ASSUME PlanTraced, UNCHANGED <<tests, bidir>>,
         Slots' = Slots, \A s \in Slots : At(s)' = At(s),
         Done' = Done, \A a \in Done : AskedKey(a)' = AskedKey(a)
  PROVE  PlanTraced'
<1>1. PICK f : Traces(f)
  BY DEF PlanTraced
<1>2. Traces(f)'
  BY <1>1 DEF Traces
<1> QED BY <1>2 DEF PlanTraced

\* A batch handed over keeps its places; the next one is filled after it.
LEMMA SlotsFlush ==
  ASSUME NEW T, NEW p \in Seq(Seq(T)), NEW q \in Seq(T)
  PROVE  /\ SlotsOf(Append(p, q), <<>>) = SlotsOf(p, q)
         /\ \A s \in SlotsOf(p, q) : EntryAt(Append(p, q), <<>>, s) = EntryAt(p, q, s)
<1> DEFINE flushed == Append(p, q)
<1>1. Len(p) \in Nat /\ flushed \in Seq(Seq(T)) /\ Len(flushed) = Len(p) + 1
  OBVIOUS
<1>2. \A b \in 1 .. Len(p) + 1 : BatchAt(flushed, <<>>, b) = BatchAt(p, q, b)
  BY DEF BatchAt
<1>3. BatchAt(flushed, <<>>, Len(p) + 2) = <<>>
  BY <1>1 DEF BatchAt
<1> HIDE DEF flushed
<1>4. ASSUME NEW s \in SlotsOf(p, q) PROVE s \in SlotsOf(flushed, <<>>)
  BY <1>1, <1>2 DEF SlotsOf
<1>5. ASSUME NEW s \in SlotsOf(flushed, <<>>) PROVE s \in SlotsOf(p, q)
  <2>1. s \in (1 .. Len(p) + 2) \X (Nat \ {0}) /\ s[2] <= Len(BatchAt(flushed, <<>>, s[1]))
    BY <1>1 DEF SlotsOf
  <2>2. s[1] # Len(p) + 2
    BY <2>1, <1>3
  <2>3. s[1] \in 1 .. Len(p) + 1
    BY <2>1, <2>2, <1>1
  <2> QED BY <2>1, <2>3, <1>2 DEF SlotsOf
<1>6. \A s \in SlotsOf(p, q) : EntryAt(flushed, <<>>, s) = EntryAt(p, q, s)
  BY <1>2 DEF EntryAt, SlotsOf
<1>7. SlotsOf(flushed, <<>>) = SlotsOf(p, q)
  BY <1>4, <1>5
<1> QED BY <1>6, <1>7 DEF flushed

\* A test that joins the batch takes the next place.
LEMMA SlotsPush ==
  ASSUME NEW T, NEW p \in Seq(Seq(T)), NEW q \in Seq(T), NEW e \in T,
         NEW next, next = <<Len(p) + 1, Len(q) + 1>>
  PROVE  /\ SlotsOf(p, Append(q, e)) = SlotsOf(p, q) \cup {next}
         /\ next \notin SlotsOf(p, q)
         /\ EntryAt(p, Append(q, e), next) = e
         /\ \A s \in SlotsOf(p, q) : EntryAt(p, Append(q, e), s) = EntryAt(p, q, s)
<1> DEFINE longer == Append(q, e)
<1>1. /\ Len(p) \in Nat /\ Len(q) \in Nat /\ Len(longer) = Len(q) + 1
      /\ longer[Len(q) + 1] = e /\ \A i \in 1 .. Len(q) : longer[i] = q[i]
  OBVIOUS
<1>2. /\ BatchAt(p, longer, Len(p) + 1) = longer /\ BatchAt(p, q, Len(p) + 1) = q
      /\ \A b : b # Len(p) + 1 => BatchAt(p, longer, b) = BatchAt(p, q, b)
  BY DEF BatchAt
<1> HIDE DEF longer
<1>3. /\ next \in (1 .. Len(p) + 1) \X (Nat \ {0})
      /\ next[1] = Len(p) + 1 /\ next[2] = Len(q) + 1
  BY <1>1
<1>4. next \in SlotsOf(p, longer) /\ next \notin SlotsOf(p, q)
  BY <1>1, <1>2, <1>3 DEF SlotsOf
<1>5. ASSUME NEW s \in (1 .. Len(p) + 1) \X (Nat \ {0}), s # next
      PROVE  /\ s \in SlotsOf(p, longer) <=> s \in SlotsOf(p, q)
             /\ s \in SlotsOf(p, q) => EntryAt(p, longer, s) = EntryAt(p, q, s)
  <2>1. CASE s[1] = Len(p) + 1
    <3>1. s[2] # Len(q) + 1
      BY <2>1, <1>5
    <3>2. s[2] \in Nat /\ (s[2] <= Len(longer) <=> s[2] <= Len(q))
      BY <3>1, <1>1
    <3>3. s \in SlotsOf(p, q) => s[2] \in 1 .. Len(q)
      BY <2>1, <1>1, <1>2 DEF SlotsOf
    <3> QED BY <2>1, <3>2, <3>3, <1>1, <1>2 DEF SlotsOf, EntryAt
  <2>2. CASE s[1] # Len(p) + 1
    BY <2>2, <1>2 DEF SlotsOf, EntryAt
  <2> QED BY <2>1, <2>2
<1>6. SlotsOf(p, longer) = SlotsOf(p, q) \cup {next}
  <2>1. \A s \in SlotsOf(p, longer) \cup SlotsOf(p, q) : s \in (1 .. Len(p) + 1) \X (Nat \ {0})
    BY DEF SlotsOf
  <2> QED BY <2>1, <1>4, <1>5
<1>7. EntryAt(p, longer, next) = e
  BY <1>1, <1>2, <1>3 DEF EntryAt
<1>8. \A s \in SlotsOf(p, q) : EntryAt(p, longer, s) = EntryAt(p, q, s)
  BY <1>4, <1>5 DEF SlotsOf
<1> QED BY <1>4, <1>6, <1>7, <1>8 DEF longer

-----------------------------------------------------------------------------
\* Before the loops nothing is planned.
LEMMA StopEarly ==
  ASSUME PlanInv, stage = "start", UNCHANGED <<config, ranges, loops>>,
         \/ stage' = "exit" /\ exit' \in {0, 2}
         \/ stage' = "unreachable" /\ exit' = 3
  PROVE  PlanInv'
<1> USE DEF PlanInv, LoopInv, config, loops
<1>1. TypeInv'
  BY DEF TypeInv, Directions
<1>2. RangesKnown' /\ TestsValidated' /\ LoopsPlaced'
  BY DEF RangesKnown, TestsValidated, LoopsPlaced
<1>3. BatchFills' /\ PlanFits'
  BY DEF BatchFills, PlanFits, Fits
<1>4. Slots' = Slots /\ \A s \in Slots : At(s)' = At(s)
  BY DEF Slots, At
<1>5. IdsGiven'
  BY <1>4 DEF IdsGiven
<1>6. Done' = Done /\ Done = {}
  BY DEF Done
<1>7. PlanTraced'
  BY <1>4, <1>6, TraceUnchanged
<1> QED BY <1>1, <1>2, <1>3, <1>5, <1>7

\* The command line stands, and so does what is made of it.
LEMMA ConfigKept ==
  ASSUME UNCHANGED config
  PROVE  /\ given' = given /\ Directions' = Directions
         /\ \A test : Servable(test)' <=> Servable(test)
         /\ Lacks("icmp")' <=> Lacks("icmp")
BY DEF config, given, Directions, Servable, Lacks

\* Until the loops no test is in a batch and nothing is past.
LEMMA NothingPlanned ==
  ASSUME PlanInv, TypeInv', stage # "plan", UNCHANGED <<config, ri, dirs, id, batch, plan>>,
         stage' # "plan" \/ ti' = 1
  PROVE  BatchFills' /\ PlanFits' /\ IdsGiven' /\ PlanTraced'
<1> USE DEF PlanInv, LoopInv
<1>1. dirs = <<>> /\ ri = 1 /\ id = 0 /\ plan = <<>> /\ batch = <<>>
  BY DEF LoopsPlaced
<1>2. BatchFills'
  BY <1>1 DEF BatchFills, config
<1>3. PlanFits'
  BY <1>1 DEF PlanFits
<1>4. Slots = {} /\ Slots' = {}
  BY <1>1 DEF Slots, SlotsOf, BatchAt
<1>5. IdsGiven'
  BY <1>1, <1>4 DEF IdsGiven
<1>6. Done' = {}
  <2>1. CASE stage' # "plan"
    BY <2>1 DEF Done
  <2>2. CASE stage' = "plan"
    <3>1. \A a \in Asked' : a.t \in Nat \ {0} /\ a.r \in Nat \ {0}
      BY DEF Asked, TypeInv, config
    <3> QED BY <2>2, <3>1, <1>1 DEF Done, Past
  <2> QED BY <2>1, <2>2
<1>7. Traces([s \in {} |-> s])'
  BY <1>4, <1>6 DEF Traces
<1> QED BY <1>2, <1>3, <1>5, <1>7 DEF PlanTraced

\* The ranges given are the first run_client has; any other is for ICMP.
LEMMA GivenFirst ==
  ASSUME TypeInv, RangesKnown, stage \in {"validate", "plan"}
  PROVE  /\ DOMAIN given \subseteq DOMAIN ranges
         /\ \A r \in DOMAIN given : ranges[r] = given[r]
         /\ \A r \in DOMAIN ranges : r \in DOMAIN given \/ ranges[r].transport = "icmp"
         /\ ranges # given => \E r \in DOMAIN ranges : ranges[r].transport = "icmp"
<1>1. given \in Seq(PortRanges)
  BY GivenTyped DEF RangesKnown
<1>2. CASE ranges = given
  BY <1>2
<1>3. CASE ranges = Append(given, AnyPortRange)
  <2>1. AnyPortRange.transport = "icmp"
    BY DEF AnyPortRange, PortRange
  <2>2. /\ DOMAIN ranges = 1 .. Len(given) + 1 /\ DOMAIN given = 1 .. Len(given)
        /\ Len(given) \in Nat
        /\ ranges[Len(given) + 1] = AnyPortRange
        /\ \A r \in 1 .. Len(given) : ranges[r] = given[r]
    BY <1>1, <1>3
  <2>3. \A r \in DOMAIN ranges : r \in DOMAIN given \/ r = Len(given) + 1
    BY <2>2
  <2> QED BY <2>1, <2>2, <2>3
<1> QED BY <1>2, <1>3 DEF RangesKnown

LEMMA StartsClientKeeps == PlanInv /\ StartsClient => PlanInv'
<1> SUFFICES ASSUME PlanInv, StartsClient PROVE PlanInv'
  OBVIOUS
<1> USE DEF PlanInv, LoopInv, StartsClient, Accepted, Unparsable
<1>1. /\ UNCHANGED <<config, loops>> /\ stage = "start" /\ stage' = "validate"
      /\ ranges' = given /\ exit' = exit
      /\ \A r \in DOMAIN specs : Parses(specs[r])
  OBVIOUS
<1>2. given \in Seq(PortRanges) /\ \A r \in DOMAIN given : given[r].start <= given[r].end
  BY <1>1, GivenTyped
<1>3. TypeInv'
  BY <1>1, <1>2 DEF TypeInv, Directions, config, loops
<1>4. given' = given
  BY <1>1, ConfigKept
<1>5. RangesKnown'
  BY <1>1, <1>2, <1>4 DEF RangesKnown, config
<1>6. TestsValidated' /\ LoopsPlaced'
  BY <1>1 DEF TestsValidated, LoopsPlaced, loops, config, TypeInv
<1>7. BatchFills' /\ PlanFits' /\ IdsGiven' /\ PlanTraced'
  BY <1>1, <1>3, NothingPlanned DEF loops
<1> QED BY <1>3, <1>5, <1>6, <1>7

\* run_client's look at one test: it goes on exactly when the test can be
\* part of the scan, and then has a range for it.
LEMMA ValidateKeeps == PlanInv /\ Validate => PlanInv'
<1> SUFFICES ASSUME PlanInv, Validate PROVE PlanInv'
  OBVIOUS
<1> USE DEF PlanInv, LoopInv
<1> PICK test : test = tests[ti]
  OBVIOUS
<1>1. /\ UNCHANGED <<config, ri, dirs, port, id, batch, plan>>
      /\ stage = "validate" /\ ti \in DOMAIN tests
  BY DEF Validate, TypeInv
<1>2. /\ given' = given /\ tests' = tests /\ specs' = specs
      /\ \A name : Servable(name)' <=> Servable(name)
      /\ Lacks("icmp")' <=> Lacks("icmp")
  BY <1>1, ConfigKept DEF config
<1>3. /\ DOMAIN given \subseteq DOMAIN ranges
      /\ \A r \in DOMAIN given : ranges[r] = given[r]
      /\ \A r \in DOMAIN ranges : r \in DOMAIN given \/ ranges[r].transport = "icmp"
      /\ ranges # given => \E r \in DOMAIN ranges : ranges[r].transport = "icmp"
  BY <1>1, GivenFirst
<1>4. Matching(test) # {} /\ test \in Registered => Servable(test)
  BY <1>3 DEF Matching, Servable
<1>5. CASE stage' = "exit"
  <2>1. /\ exit' = 3 /\ UNCHANGED <<ranges, ti>>
        /\ test \notin Registered \/ (Matching(test) = {} /\ ~NeedsIcmp(test))
    BY <1>1, <1>5 DEF Validate, Exit
  <2>2. ~Servable(test)
    BY <2>1, <1>3 DEF Servable, Matching, NeedsIcmp
  <2>3. TypeInv'
    BY <1>1, <1>5, <2>1 DEF TypeInv, Directions, config
  <2>4. RangesKnown' /\ LoopsPlaced'
    BY <1>1, <1>5, <2>1 DEF RangesKnown, LoopsPlaced
  <2>5. TestsValidated'
    BY <1>1, <1>2, <1>5, <2>2 DEF TestsValidated
  <2> QED BY <1>1, <1>5, <2>3, <2>4, <2>5, NothingPlanned
<1>6. CASE stage' # "exit"
  <2>1. /\ UNCHANGED <<stage, exit>> /\ ti' = ti + 1 /\ test \in Registered
        /\ \/ Matching(test) # {} /\ ranges' = ranges
           \/ Matching(test) = {} /\ NeedsIcmp(test) /\ ranges' = Append(ranges, AnyPortRange)
    BY <1>1, <1>6 DEF Validate, Exit, AnyPortRange
  <2>2. AnyPortRange \in PortRanges
    BY DEF AnyPortRange, PortRange, PortRanges, Transports
  <2>3. /\ ranges' \in Seq(PortRanges) /\ DOMAIN ranges \subseteq DOMAIN ranges'
        /\ \A r \in DOMAIN ranges : ranges'[r] = ranges[r]
    <3>1. ranges \in Seq(PortRanges)
      BY DEF TypeInv
    <3>2. CASE ranges' = ranges
      BY <3>1, <3>2
    <3>3. CASE ranges' = Append(ranges, AnyPortRange)
      BY <3>1, <3>3, <2>2
    <3> QED BY <2>1, <3>2, <3>3
  <2>4. TypeInv'
    BY <1>1, <2>1, <2>3 DEF TypeInv, Directions, config
  <2>5. \A name : Matching(name) \subseteq Matching(name)'
    BY <2>3 DEF Matching
  <2>6. Servable(test) /\ Matching(test)' # {}
    <3>1. CASE Matching(test) # {}
      BY <3>1, <2>1, <2>5, <1>4
    <3>2. CASE Matching(test) = {}
      <4>1. NeedsIcmp(test) /\ ranges' = Append(ranges, AnyPortRange)
        BY <3>2, <2>1
      <4>2. Len(ranges) + 1 \in DOMAIN ranges' /\ ranges'[Len(ranges) + 1].transport = "icmp"
        BY <4>1 DEF TypeInv, AnyPortRange, PortRange
      <4>3. Len(ranges) + 1 \in Matching(test)'
        BY <4>1, <4>2, <1>2 DEF Matching, NeedsIcmp
      <4> QED BY <4>1, <4>3, <2>1 DEF Servable, NeedsIcmp
    <3> QED BY <3>1, <3>2
  <2>7. RangesKnown'
    <3>1. CASE ranges' = ranges
      BY <3>1, <1>1, <1>2, <2>1 DEF RangesKnown
    <3>2. CASE ranges' # ranges
      <4>1. /\ Matching(test) = {} /\ NeedsIcmp(test)
            /\ ranges' = Append(ranges, AnyPortRange)
        BY <3>2, <2>1
      <4>2. \A r \in DOMAIN ranges : ranges[r].transport # "icmp"
        BY <4>1 DEF Matching, NeedsIcmp
      <4>3. ranges = given /\ Lacks("icmp")
        BY <4>2, <1>3 DEF Lacks
      <4>4. AnyPortRange.start <= AnyPortRange.end
        BY DEF AnyPortRange, PortRange
      <4>5. \A r \in DOMAIN ranges' : ranges'[r].start <= ranges'[r].end
        BY <4>1, <4>4, <1>1 DEF TypeInv, RangesKnown
      <4> QED BY <4>1, <4>3, <4>5, <1>1, <1>2, <2>1 DEF RangesKnown
    <3> QED BY <3>1, <3>2
  <2>8. TestsValidated'
    <3> SUFFICES ASSUME NEW t \in DOMAIN tests, t < ti + 1 PROVE Accepts(tests[t])'
      BY <1>1, <1>2, <2>1 DEF TestsValidated
    <3>1. CASE t = ti
      BY <3>1, <1>2, <2>1, <2>6 DEF Accepts
    <3>2. CASE t # ti
      <4>1. Accepts(tests[t])
        BY <3>2, <1>1 DEF TestsValidated, TypeInv
      <4> QED BY <4>1, <1>2, <2>5 DEF Accepts
    <3> QED BY <3>1, <3>2
  <2>9. LoopsPlaced'
    BY <1>1, <2>1 DEF LoopsPlaced
  <2> QED BY <1>1, <2>1, <2>7, <2>8, <2>9, <2>4, NothingPlanned
<1> QED BY <1>5, <1>6

LEMMA ConfiguredKeeps == PlanInv /\ Configured => PlanInv'
<1> SUFFICES ASSUME PlanInv, Configured PROVE PlanInv'
  OBVIOUS
<1> USE DEF PlanInv, LoopInv
<1>1. /\ UNCHANGED <<config, ranges, exit, ri, dirs, port, id, batch, plan>>
      /\ stage = "validate" /\ stage' = "plan" /\ ti > Len(tests) /\ ti' = 1
  BY DEF Configured
<1>2. TypeInv'
  BY <1>1 DEF TypeInv, Directions, config
<1>3. RangesKnown'
  BY <1>1, ConfigKept DEF RangesKnown, config
<1>4. \A name : Accepts(name)' <=> Accepts(name)
  BY <1>1, ConfigKept DEF Accepts, Matching
<1>5. \A t \in DOMAIN tests : Accepts(tests[t])
  BY <1>1 DEF TestsValidated, TypeInv
<1>6. TestsValidated' /\ LoopsPlaced'
  BY <1>1, <1>4, <1>5 DEF TestsValidated, LoopsPlaced, TypeInv, config
<1> QED BY <1>1, <1>2, <1>3, <1>6, NothingPlanned

-----------------------------------------------------------------------------
\* In the loops, what was validated and what is asked for do not change.
LEMMA LoopKeeps ==
  ASSUME LoopInv, stage = "plan", stage' = "plan", UNCHANGED <<config, ranges, exit>>
  PROVE  /\ RangesKnown' /\ TestsValidated'
         /\ \A name : Matching(name)' = Matching(name)
         /\ Directions' = Directions /\ Asked' = Asked
         /\ \A a : AskedKey(a)' = AskedKey(a)
<1> USE DEF LoopInv
<1>1. \A name : Matching(name)' = Matching(name)
  BY DEF Matching
<1>2. Directions' = Directions
  BY ConfigKept
<1>3. RangesKnown'
  BY ConfigKept DEF RangesKnown, config
<1>4. TestsValidated'
  BY <1>1, ConfigKept DEF TestsValidated, Accepts, config
<1>5. Asked' = Asked
  BY <1>1, <1>2 DEF Asked, config
<1>6. \A a : AskedKey(a)' = AskedKey(a)
  BY <1>2 DEF AskedKey, config
<1> QED BY <1>1, <1>2, <1>3, <1>4, <1>5, <1>6

\* A step that moves the loops on without a test joining the batch: the places
\* in the plan stay, and so does what they are traced to.
LEMMA PlacesKept ==
  ASSUME PlanInv, stage = "plan", stage' = "plan", UNCHANGED <<config, ranges, exit, id>>,
         \/ UNCHANGED <<plan, batch>>
         \/ plan' = Append(plan, batch) /\ batch' = <<>>,
         \A a \in Asked : Past(a)' <=> Past(a)
  PROVE  IdsGiven' /\ PlanTraced'
<1> USE DEF PlanInv, LoopInv
<1>1. Slots' = Slots /\ \A s \in Slots : At(s)' = At(s)
  <2>1. CASE UNCHANGED <<plan, batch>>
    BY <2>1 DEF Slots, At
  <2>2. CASE plan' = Append(plan, batch) /\ batch' = <<>>
    <3>1. plan \in Seq(Seq(TestEntries)) /\ batch \in Seq(TestEntries)
      BY DEF TypeInv
    <3> QED BY <3>1, <2>2, SlotsFlush DEF Slots, At
  <2> QED BY <2>1, <2>2
<1>2. IdsGiven'
  BY <1>1 DEF IdsGiven
<1>3. Done' = Done /\ \A a \in Done : AskedKey(a)' = AskedKey(a)
  BY LoopKeeps DEF Done
<1>4. PlanTraced'
  BY <1>1, <1>3, TraceUnchanged DEF config
<1> QED BY <1>2, <1>4

\* The loops pass a range over, or enter it.
LEMMA EnterRangeKeeps == PlanInv /\ EnterRange => PlanInv'
<1> SUFFICES ASSUME PlanInv, EnterRange PROVE PlanInv'
  OBVIOUS
<1> USE DEF PlanInv, LoopInv
<1>1. /\ UNCHANGED <<config, ranges, stage, exit, ti, id, batch, plan>>
      /\ stage = "plan" /\ ti \in DOMAIN tests /\ ri \in DOMAIN ranges
      /\ dirs = <<>> /\ batch = <<>>
  BY DEF EnterRange, TypeInv, LoopsPlaced
<1>2. /\ RangesKnown' /\ TestsValidated' /\ Directions' = Directions
      /\ \A name : Matching(name)' = Matching(name)
  BY <1>1, LoopKeeps
<1>3. ranges[ri] \in PortRanges /\ ranges[ri].start <= ranges[ri].end
  BY <1>1 DEF TypeInv, RangesKnown
<1>4. /\ ranges[ri].start \in Nat /\ ranges[ri].end \in Nat
      /\ ranges[ri].start <= ranges[ri].end + 1
  BY <1>3 DEF PortRanges
<1>5. /\ Len(Directions) \in {1, 2} /\ Directions # <<>> /\ Len(<<>>) = 0
      /\ (dirs' = Directions => dirs' # <<>>)
  BY DirectionsKnown DEF TypeInv
<1>6. CASE ri \in Matching(tests[ti])
  <2>1. dirs' = Directions /\ port' = ranges[ri].start /\ ri' = ri
    BY <1>6 DEF EnterRange
  <2>2. TypeInv'
    <3>1. ri' \in Nat \ {0} /\ port' \in Nat
      BY <1>4, <2>1 DEF TypeInv
    <3>2. dirs' \in {<<>>, Directions', <<"<-">>}
      BY <1>2, <2>1
    <3>3. dirs'[1] = "->"
      BY <2>1, DirectionsKnown DEF TypeInv
    <3>4. dirs' # <<"<-">>
      BY <3>3
    <3> QED BY <1>1, <2>1, <3>1, <3>2, <3>4 DEF TypeInv, config
  <2>3. LoopsPlaced'
    BY <1>1, <1>2, <1>4, <1>6, <2>1 DEF LoopsPlaced, TypeInv, config
  <2>4. ASSUME NEW a \in Asked PROVE Past(a)' <=> Past(a)
    <3>1. a.r = ri => ~(a.p < ranges[ri].start)
      BY <1>4 DEF Asked
    <3>2. a.k \in Nat /\ ~(a.k < 1)
      BY <1>5, DirectionsKnown DEF Asked, TypeInv
    <3>3. Current' = 1
      BY <1>2, <1>5, <2>1 DEF Current
    <3> QED BY <1>1, <2>1, <3>1, <3>2, <3>3 DEF Past
  <2>5. IdsGiven' /\ PlanTraced'
    BY <1>1, <2>4, PlacesKept
  <2>6. BatchFills' /\ PlanFits'
    BY <1>1 DEF BatchFills, PlanFits, Fits, config
  <2> QED BY <1>2, <2>2, <2>3, <2>5, <2>6
<1>7. CASE ri \notin Matching(tests[ti])
  <2>1. ri' = ri + 1 /\ UNCHANGED <<dirs, port>>
    BY <1>7 DEF EnterRange
  <2>2. TypeInv'
    <3>1. ri' \in Nat \ {0}
      BY <2>1 DEF TypeInv
    <3>2. dirs' \in {<<>>, Directions', <<"<-">>} /\ (dirs' = <<"<-">> => bidir')
      BY <1>1, <1>2, <2>1 DEF TypeInv, config
    <3> QED BY <1>1, <2>1, <3>1, <3>2 DEF TypeInv, config
  <2>3. LoopsPlaced'
    BY <1>1, <2>1 DEF LoopsPlaced, TypeInv, config
  <2>4. ASSUME NEW a \in Asked PROVE Past(a)' <=> Past(a)
    <3>1. a.r \in Nat /\ (a.t = ti => a.r # ri)
      BY <1>7 DEF Asked, TypeInv
    <3> QED BY <1>1, <2>1, <3>1 DEF Past, TypeInv
  <2>5. IdsGiven' /\ PlanTraced'
    BY <1>1, <2>4, PlacesKept
  <2>6. BatchFills' /\ PlanFits'
    BY <1>1 DEF BatchFills, PlanFits, Fits, config
  <2> QED BY <1>2, <2>2, <2>3, <2>5, <2>6
<1> QED BY <1>6, <1>7

LEMMA NextTestKeeps == PlanInv /\ NextTest => PlanInv'
<1> SUFFICES ASSUME PlanInv, NextTest PROVE PlanInv'
  OBVIOUS
<1> USE DEF PlanInv, LoopInv
<1>1. /\ UNCHANGED <<config, ranges, stage, exit, dirs, port, id, batch, plan>>
      /\ stage = "plan" /\ ti \in DOMAIN tests /\ ri > Len(ranges)
      /\ ti' = ti + 1 /\ ri' = 1
  BY DEF NextTest, TypeInv
<1>2. dirs = <<>> /\ batch = <<>>
  BY <1>1 DEF LoopsPlaced, Matching, TypeInv
<1>3. RangesKnown' /\ TestsValidated' /\ Directions' = Directions
  BY <1>1, LoopKeeps
<1>4. TypeInv'
  <2>1. ti' \in Nat \ {0} /\ ri' \in Nat \ {0}
    BY <1>1 DEF TypeInv
  <2>2. dirs' \in {<<>>, Directions', <<"<-">>} /\ (dirs' = <<"<-">> => bidir')
    BY <1>1, <1>3 DEF TypeInv, config
  <2> QED BY <1>1, <2>1, <2>2 DEF TypeInv, config
<1>5. LoopsPlaced'
  BY <1>1, <1>2 DEF LoopsPlaced, TypeInv, config
<1>6. ASSUME NEW a \in Asked PROVE Past(a)' <=> Past(a)
  <2>1. a.t \in Nat /\ a.r \in Nat /\ a.r >= 1 /\ a.r < ri
    BY <1>1 DEF Asked, TypeInv
  <2> QED BY <1>1, <1>2, <2>1 DEF Past, TypeInv
<1>7. IdsGiven' /\ PlanTraced'
  BY <1>1, <1>6, PlacesKept
<1>8. BatchFills' /\ PlanFits'
  BY <1>1, <1>2 DEF BatchFills, PlanFits, Fits, config
<1> QED BY <1>3, <1>4, <1>5, <1>7, <1>8

\* A direction is through when all its ports are past; the range, when its
\* directions are.
LEMMA EndDirectionKeeps == PlanInv /\ EndDirection => PlanInv'
<1> SUFFICES ASSUME PlanInv, EndDirection PROVE PlanInv'
  OBVIOUS
<1> USE DEF PlanInv, LoopInv
<1>1. /\ UNCHANGED <<config, ranges, stage, exit, ti, id>>
      /\ stage = "plan" /\ dirs # <<>> /\ ~(port <= ranges[ri].end)
      /\ dirs' = Tail(dirs)
      /\ \/ plan' = Append(plan, batch) /\ batch # <<>>
         \/ plan' = plan /\ batch = <<>>
      /\ batch' = <<>>
  BY DEF EndDirection, MustFlush, PortsLeft
<1>2. /\ RangesKnown' /\ TestsValidated' /\ Directions' = Directions
      /\ \A name : Matching(name)' = Matching(name)
  BY <1>1, LoopKeeps
<1>3. ti \in DOMAIN tests /\ ri \in Matching(tests[ti]) /\ ri \in DOMAIN ranges
  BY <1>1 DEF LoopsPlaced, TypeInv, Matching
<1>4. ranges[ri] \in PortRanges /\ ranges[ri].start <= ranges[ri].end
  BY <1>1, <1>3 DEF TypeInv, RangesKnown
<1>5. /\ ranges[ri].start \in Nat /\ ranges[ri].end \in Nat
      /\ ranges[ri].start <= ranges[ri].end + 1
  BY <1>4 DEF PortRanges
<1>6. /\ Len(Directions) \in {1, 2} /\ (dirs = Directions \/ dirs = <<"<-">>)
      /\ dirs = <<"<-">> => Len(Directions) = 2
      /\ Len(Directions) = 2 => bidir
      /\ Directions \in {<<"->">>, <<"->", "<-">>}
  BY <1>1, DirectionsKnown DEF TypeInv, Directions
<1>7. \A b \in DOMAIN plan' : Fits(plan'[b])
  <2>1. batch # <<>> => Fits(batch)
    <3>1. batch \in Seq(TestEntries) /\ parallel \in Nat
      BY DEF TypeInv
    <3>2. BatchSize(parallel) \in Nat \ {0}
      BY <3>1, BatchSizePositive
    <3>3. Len(batch) \in Nat /\ (batch # <<>> => Len(batch) >= 1)
      BY <3>1
    <3> QED BY <3>2, <3>3 DEF BatchFills, Fits
  <2>2. plan \in Seq(Seq(TestEntries))
    BY DEF TypeInv
  <2>3. CASE plan' = plan
    BY <2>3 DEF PlanFits
  <2>4. CASE plan' = Append(plan, batch) /\ batch # <<>>
    BY <2>1, <2>2, <2>4 DEF PlanFits
  <2> QED BY <1>1, <2>3, <2>4
<1>8. PlanFits'
  BY <1>1, <1>7 DEF PlanFits, Fits, config
<1>9. BatchFills'
  BY <1>1, BatchSizePositive DEF BatchFills, TypeInv, config
<1>10. plan' \in Seq(Seq(TestEntries)) /\ batch' \in Seq(TestEntries)
  <2>1. plan \in Seq(Seq(TestEntries)) /\ batch \in Seq(TestEntries)
    BY DEF TypeInv
  <2> QED BY <1>1, <2>1
<1>11. CASE Len(dirs) > 1
  <2>1. dirs = <<"->", "<-">> /\ dirs = Directions /\ Len(Directions) = 2
    <3>1. (dirs = <<"<-">> => Len(dirs) = 1) /\ (dirs = <<"->">> => Len(dirs) = 1)
      OBVIOUS
    <3>2. Len(dirs) # 1
      BY <1>11
    <3>3. dirs # <<"<-">> /\ dirs # <<"->">>
      BY <3>1, <3>2
    <3> QED BY <1>6, <3>3
  <2>2. /\ dirs' = <<"<-">> /\ port' = ranges[ri].start /\ ri' = ri
        /\ Len(dirs) = 2 /\ Len(dirs') = 1 /\ dirs' # <<>>
    BY <1>1, <1>11, <2>1 DEF EndDirection
  <2>3. TypeInv'
    BY <1>1, <1>2, <1>5, <1>6, <1>10, <2>1, <2>2 DEF TypeInv, config
  <2>4. LoopsPlaced'
    BY <1>1, <1>2, <1>3, <1>5, <2>2 DEF LoopsPlaced, TypeInv, config
  <2>5. Current = 1 /\ Current' = 2
    BY <1>2, <2>1, <2>2 DEF Current
  <2>6. ASSUME NEW a \in Asked PROVE Past(a)' <=> Past(a)
    <3>1. a.k \in {1, 2}
      BY <2>1 DEF Asked
    <3>2. a.r = ri => a.p < port /\ ~(a.p < ranges[ri].start)
      BY <1>1, <1>5 DEF Asked, TypeInv
    <3> QED BY <1>1, <2>2, <2>5, <3>1, <3>2 DEF Past
  <2>7. IdsGiven' /\ PlanTraced'
    BY <1>1, <2>6, PlacesKept
  <2> QED BY <1>2, <1>8, <1>9, <2>3, <2>4, <2>7
<1>12. CASE ~(Len(dirs) > 1)
  <2>1. Len(dirs) = 1 /\ dirs' = <<>>
    BY <1>1, <1>6, <1>12
  <2>2. ri' = ri + 1 /\ port' = port
    BY <1>12 DEF EndDirection
  <2>3. TypeInv'
    <3>1. ri' \in Nat \ {0}
      BY <2>2 DEF TypeInv
    <3>2. dirs' \in {<<>>, Directions', <<"<-">>} /\ (dirs' = <<"<-">> => bidir')
      BY <2>1
    <3> QED BY <1>1, <1>10, <2>2, <3>1, <3>2 DEF TypeInv, config
  <2>4. LoopsPlaced'
    BY <1>1, <1>3, <2>1, <2>2 DEF LoopsPlaced, TypeInv, config
  <2>5. Current = Len(Directions)
    BY <2>1, <1>6 DEF Current
  <2>6. ASSUME NEW a \in Asked PROVE Past(a)' <=> Past(a)
    <3>1. a.k \in Nat /\ a.k <= Len(Directions) /\ a.r \in Nat
      BY <1>6 DEF Asked, TypeInv
    <3>2. a.r = ri => a.p < port
      BY <1>1, <1>5 DEF Asked, TypeInv
    <3> QED BY <1>1, <1>6, <2>1, <2>2, <2>5, <3>1, <3>2 DEF Past, TypeInv
  <2>7. IdsGiven' /\ PlanTraced'
    BY <1>1, <2>6, PlacesKept
  <2> QED BY <1>2, <1>8, <1>9, <2>3, <2>4, <2>7
<1> QED BY <1>11, <1>12

\* A port joins the batch: its test takes the next place and the next id, and
\* is the one test more that is past.
LEMMA PushPortPlaces ==
  ASSUME PlanInv, PushPort
  PROVE  /\ UNCHANGED <<config, ranges, stage, exit, ti, ri, dirs>>
         /\ stage = "plan" /\ dirs # <<>> /\ port <= ranges[ri].end
         /\ port' = port + 1 /\ id' = id + 1
         /\ NewEntry \in TestEntries
         /\ plan \in Seq(Seq(TestEntries)) /\ batch \in Seq(TestEntries)
         /\ plan' \in Seq(Seq(TestEntries)) /\ batch' \in Seq(TestEntries)
         /\ \/ /\ Len(batch) + 1 < BatchSize(parallel)
               /\ plan' = plan /\ batch' = Append(batch, NewEntry)
            \/ /\ Len(batch) + 1 >= BatchSize(parallel)
               /\ plan' = Append(plan, Append(batch, NewEntry)) /\ batch' = <<>>
<1> USE DEF PlanInv, LoopInv
<1>1. /\ UNCHANGED <<config, ranges, stage, exit, ti, ri, dirs>>
      /\ stage = "plan" /\ dirs # <<>> /\ port <= ranges[ri].end
      /\ port' = port + 1 /\ id' = id + 1
  BY DEF PushPort, PortsLeft
<1>2. /\ plan \in Seq(Seq(TestEntries)) /\ batch \in Seq(TestEntries)
      /\ BatchSize(parallel) \in Nat /\ Len(batch) \in Nat
  BY BatchSizePositive DEF TypeInv
<1>3. NewEntry \in TestEntries
  <2>1. /\ ti \in DOMAIN tests /\ tests[ti] \in STRING
        /\ ri \in DOMAIN ranges /\ ranges[ri] \in PortRanges
    BY <1>1 DEF LoopsPlaced, Matching, TypeInv
  <2>2. Head(dirs) \in {"->", "<-"}
    <3>1. CASE dirs = Directions
      BY <3>1, <1>1, DirectionsKnown DEF TypeInv
    <3>2. CASE dirs = <<"<-">>
      BY <3>2
    <3> QED BY <1>1, <3>1, <3>2 DEF TypeInv
  <2>3. ranges[ri].transport \in Transports
    BY <2>1 DEF PortRanges
  <2> QED BY <2>1, <2>2, <2>3 DEF NewEntry, TestEntries, TypeInv
<1>4. PICK filled : filled = Append(batch, NewEntry)
  OBVIOUS
<1>5. filled \in Seq(TestEntries) /\ Len(filled) = Len(batch) + 1
  BY <1>2, <1>3, <1>4
<1>6. CASE Len(filled) >= BatchSize(parallel)
  <2>1. plan' = Append(plan, filled) /\ batch' = <<>>
    BY <1>4, <1>6 DEF PushPort
  <2>2. plan' \in Seq(Seq(TestEntries)) /\ batch' \in Seq(TestEntries)
    BY <1>2, <1>5, <2>1
  <2> QED BY <1>1, <1>2, <1>3, <1>4, <1>5, <1>6, <2>1, <2>2
<1>7. CASE ~(Len(filled) >= BatchSize(parallel))
  <2>1. plan' = plan /\ batch' = filled
    BY <1>4, <1>7 DEF PushPort
  <2>2. Len(batch) + 1 < BatchSize(parallel)
    BY <1>2, <1>5, <1>7
  <2> QED BY <1>1, <1>2, <1>3, <1>4, <1>5, <2>1, <2>2
<1> QED BY <1>6, <1>7

LEMMA PushPortTraces ==
  ASSUME PlanInv, PushPort
  PROVE  IdsGiven' /\ PlanTraced'
<1> USE DEF PlanInv, LoopInv
<1>1. /\ UNCHANGED <<config, ranges, stage, exit, ti, ri, dirs>>
      /\ stage = "plan" /\ dirs # <<>> /\ port <= ranges[ri].end
      /\ port' = port + 1 /\ id' = id + 1 /\ port \in Nat /\ id \in Nat
  BY PushPortPlaces DEF TypeInv
<1>2. PICK next : next = <<Len(plan) + 1, Len(batch) + 1>>
  OBVIOUS
<1>3. PICK e : e = NewEntry
  OBVIOUS
<1>4. /\ Slots' = Slots \cup {next} /\ next \notin Slots
      /\ At(next)' = e /\ \A s \in Slots : At(s)' = At(s)
  <2>1. /\ plan \in Seq(Seq(TestEntries)) /\ batch \in Seq(TestEntries)
        /\ e \in TestEntries /\ Append(batch, e) \in Seq(TestEntries)
    BY PushPortPlaces, <1>3
  <2>2. /\ SlotsOf(plan, Append(batch, e)) = Slots \cup {next} /\ next \notin Slots
        /\ EntryAt(plan, Append(batch, e), next) = e
        /\ \A s \in Slots : EntryAt(plan, Append(batch, e), s) = At(s)
    BY <1>2, <2>1, SlotsPush DEF Slots, At
  <2>3. CASE plan' = plan /\ batch' = Append(batch, e)
    BY <2>2, <2>3 DEF Slots, At
  <2>4. CASE plan' = Append(plan, Append(batch, e)) /\ batch' = <<>>
    <3>1. /\ Slots' = SlotsOf(plan, Append(batch, e))
          /\ \A s \in SlotsOf(plan, Append(batch, e)) :
               At(s)' = EntryAt(plan, Append(batch, e), s)
      BY <2>1, <2>4, SlotsFlush DEF Slots, At
    <3> QED BY <2>2, <3>1
  <2> QED BY <1>3, <2>3, <2>4, PushPortPlaces
<1>5. IdsGiven'
  <2>1. e.id = id
    BY <1>3 DEF NewEntry
  <2>2. \A s \in Slots : At(s).id \in 0 .. id - 1
    BY DEF IdsGiven
  <2>3. \A s \in Slots' : At(s)'.id \in 0 .. id
    BY <1>1, <1>4, <2>1, <2>2
  <2>4. ASSUME NEW s \in Slots', NEW u \in Slots', At(s)'.id = At(u)'.id PROVE s = u
    BY <1>1, <1>4, <2>1, <2>2, <2>4 DEF IdsGiven
  <2>5. ASSUME NEW n \in 0 .. id PROVE \E s \in Slots' : At(s)'.id = n
    BY <1>1, <1>4, <2>1 DEF IdsGiven
  <2> QED BY <1>1, <2>3, <2>4, <2>5 DEF IdsGiven
<1>6. PICK ask : ask = Ask(ti, ri, Current, port)
  OBVIOUS
<1>7. /\ Asked' = Asked /\ Directions' = Directions
      /\ \A a : AskedKey(a)' = AskedKey(a)
  BY <1>1, LoopKeeps
<1>8. ti \in DOMAIN tests /\ ri \in Matching(tests[ti]) /\ ranges[ri].start <= port
  BY <1>1 DEF LoopsPlaced, TypeInv
<1>9. /\ Current \in DOMAIN Directions /\ Directions[Current] = Head(dirs)
      /\ Current \in Nat
  <2>1. CASE dirs = Directions
    BY <2>1, <1>1, DirectionsKnown DEF Current, TypeInv
  <2>2. CASE dirs = <<"<-">>
    <3>1. bidir /\ Len(dirs) = 1 /\ Head(dirs) = "<-"
      BY <2>2 DEF TypeInv
    <3>2. Len(Directions) = 2 /\ Directions[2] = "<-" /\ DOMAIN Directions = 1 .. 2
      BY <3>1, DirectionsKnown
    <3> QED BY <3>1, <3>2 DEF Current
  <2> QED BY <1>1, <2>1, <2>2 DEF TypeInv
<1>10. ask \in Asked /\ ~Past(ask)
  <2>1. ri \in DOMAIN ranges
    BY <1>8 DEF Matching
  <2>2. ask \in Asked
    BY <1>1, <1>6, <1>8, <1>9, <2>1 DEF Asked, Ask
  <2>3. ~Past(ask)
    BY <1>1, <1>6, <1>9 DEF Past, Ask, TypeInv
  <2> QED BY <2>2, <2>3
<1>11. Done' = Done \cup {ask}
  <2>1. ASSUME NEW a \in Asked PROVE Past(a)' <=> Past(a) \/ a = ask
    <3>1. /\ a = [t |-> a.t, r |-> a.r, k |-> a.k, p |-> a.p]
          /\ a.p \in Nat /\ a.k \in Nat
      BY <1>9, DirectionsKnown DEF Asked, TypeInv
    <3>2. a = ask <=> a.t = ti /\ a.r = ri /\ a.k = Current /\ a.p = port
      BY <1>6, <3>1 DEF Ask
    <3>3. Current' = Current
      BY <1>1, <1>7 DEF Current
    <3> QED BY <1>1, <3>1, <3>2, <3>3 DEF Past
  <2> QED BY <1>1, <1>7, <1>10, <2>1 DEF Done
<1>12. ask \notin Done /\ KeyOf(e) = AskedKey(ask)
  BY <1>1, <1>3, <1>6, <1>9, <1>10 DEF Done, NewEntry, KeyOf, Key, AskedKey, Ask
<1>13. PICK f : Traces(f)
  BY DEF PlanTraced
<1>14. PICK g : g = [s \in Slots \cup {next} |-> IF s = next THEN ask ELSE f[s]]
  OBVIOUS
<1>15. Traces(g)'
  BY <1>4, <1>7, <1>11, <1>12, <1>13, <1>14 DEF Traces
<1> QED BY <1>5, <1>15 DEF PlanTraced

LEMMA PushPortKeeps == PlanInv /\ PushPort => PlanInv'
<1> SUFFICES ASSUME PlanInv, PushPort PROVE PlanInv'
  OBVIOUS
<1> USE DEF PlanInv, LoopInv
<1>1. /\ UNCHANGED <<config, ranges, stage, exit, ti, ri, dirs>>
      /\ stage = "plan" /\ dirs # <<>> /\ port <= ranges[ri].end
      /\ port' = port + 1 /\ id' = id + 1 /\ port \in Nat
      /\ batch \in Seq(TestEntries) /\ NewEntry \in TestEntries
      /\ BatchSize(parallel) \in Nat \ {0} /\ Len(batch) \in Nat
  BY PushPortPlaces, BatchSizePositive DEF TypeInv
<1>2. /\ RangesKnown' /\ TestsValidated' /\ Directions' = Directions
      /\ \A name : Matching(name)' = Matching(name)
  BY <1>1, LoopKeeps
<1>3. TypeInv'
  BY <1>1, <1>2, PushPortPlaces DEF TypeInv, config
<1>4. LoopsPlaced'
  <2>1. ranges[ri] \in PortRanges
    BY <1>1 DEF LoopsPlaced, Matching, TypeInv
  <2>2. ranges[ri].start \in Nat /\ ranges[ri].end \in Nat
    BY <2>1 DEF PortRanges
  <2> QED BY <1>1, <1>2, <2>2 DEF LoopsPlaced, config
<1>5. PICK filled : filled = Append(batch, NewEntry)
  OBVIOUS
<1>6. /\ Len(filled) = Len(batch) + 1 /\ DOMAIN filled = 1 .. Len(batch) + 1
      /\ filled[Len(batch) + 1] = NewEntry
      /\ \A i \in 1 .. Len(batch) : filled[i] = batch[i]
      /\ DOMAIN batch = 1 .. Len(batch)
  BY <1>1, <1>5
<1>7. \A i \in DOMAIN filled : /\ filled[i].proto = tests[ti]
                              /\ filled[i].transport = ranges[ri].transport
                              /\ filled[i].dir = Head(dirs)
                              /\ filled[i].port < port + 1
  <2>1. ASSUME NEW i \in 1 .. Len(batch) PROVE filled[i].port < port + 1
    <3>1. batch[i] \in TestEntries
      BY <1>1
    <3>2. batch[i].port \in Nat
      BY <3>1 DEF TestEntries
    <3>3. batch[i].port < port
      BY <1>6 DEF BatchFills
    <3> QED BY <1>1, <1>6, <3>2, <3>3
  <2>2. /\ NewEntry.proto = tests[ti] /\ NewEntry.transport = ranges[ri].transport
        /\ NewEntry.dir = Head(dirs) /\ NewEntry.port = port
    BY DEF NewEntry
  <2> QED BY <1>1, <1>6, <2>1, <2>2 DEF BatchFills
<1>8. \A i, j \in DOMAIN filled : filled[i].port = filled[j].port => i = j
  <2>1. NewEntry.port = port
    BY DEF NewEntry
  <2>2. \A i \in 1 .. Len(batch) : batch[i].port # port
    BY <1>1, <1>6 DEF BatchFills
  <2>3. \A i \in DOMAIN filled : i \in 1 .. Len(batch) \/ i = Len(batch) + 1
    BY <1>1, <1>6
  <2> QED BY <1>6, <2>1, <2>2, <2>3 DEF BatchFills
<1>9. CASE plan' = plan /\ batch' = filled /\ Len(filled) < BatchSize(parallel)
  <2>1. BatchFills'
    BY <1>1, <1>7, <1>8, <1>9 DEF BatchFills, config
  <2>2. PlanFits'
    BY <1>1, <1>9 DEF PlanFits, Fits, config
  <2> QED BY <1>2, <1>3, <1>4, <2>1, <2>2, PushPortTraces
<1>10. CASE /\ plan' = Append(plan, filled) /\ batch' = <<>>
            /\ Len(filled) >= BatchSize(parallel)
  <2>1. BatchFills'
    BY <1>1, <1>10 DEF BatchFills, config
  <2>2. Len(filled) = BatchSize(parallel)
    BY <1>1, <1>6, <1>10 DEF BatchFills
  <2>3. Fits(filled)
    BY <1>1, <1>7, <1>8, <2>2 DEF Fits
  <2>4. plan \in Seq(Seq(TestEntries))
    BY DEF TypeInv
  <2>5. \A b \in DOMAIN plan' : Fits(plan'[b])
    BY <1>10, <2>3, <2>4 DEF PlanFits
  <2>6. PlanFits'
    BY <1>1, <2>5 DEF PlanFits, Fits, config
  <2> QED BY <1>2, <1>3, <1>4, <2>1, <2>6, PushPortTraces
<1> QED BY <1>5, <1>6, <1>9, <1>10, PushPortPlaces

-----------------------------------------------------------------------------
LEMMA StutterKeeps == PlanInv /\ UNCHANGED vars => PlanInv'
<1> SUFFICES ASSUME PlanInv, UNCHANGED vars PROVE PlanInv'
  OBVIOUS
<1> USE DEF PlanInv, LoopInv, vars, config, loops
<1>1. /\ given' = given /\ Directions' = Directions
      /\ \A test : Servable(test)' <=> Servable(test)
      /\ Lacks("icmp")' <=> Lacks("icmp")
  BY ConfigKept
<1>2. \A name : Matching(name)' = Matching(name)
  BY DEF Matching
<1>3. TypeInv'
  BY <1>1 DEF TypeInv
<1>4. RangesKnown' /\ TestsValidated'
  BY <1>1, <1>2 DEF RangesKnown, TestsValidated, Accepts
<1>5. LoopsPlaced' /\ BatchFills' /\ PlanFits'
  BY <1>2 DEF LoopsPlaced, BatchFills, PlanFits, Fits
<1>6. Slots' = Slots /\ \A s \in Slots : At(s)' = At(s)
  BY DEF Slots, At
<1>7. IdsGiven'
  BY <1>6 DEF IdsGiven
<1>8. Asked' = Asked /\ \A a : AskedKey(a)' = AskedKey(a)
  BY <1>1, <1>2 DEF Asked, AskedKey
<1>9. Done' = Done
  BY <1>1, <1>8 DEF Done, Past, Current
<1>10. PlanTraced'
  BY <1>6, <1>8, <1>9, TraceUnchanged
<1> QED BY <1>3, <1>4, <1>5, <1>7, <1>10

LEMMA PlanInductive == PlanInv /\ [Next]_vars => PlanInv'
<1> SUFFICES ASSUME PlanInv, [Next]_vars PROVE PlanInv'
  OBVIOUS
<1>1. CASE RejectsCommandLine
  BY <1>1, StopEarly DEF RejectsCommandLine, Exit
<1>2. CASE ListsTests
  BY <1>2, StopEarly DEF ListsTests, Exit
<1>3. CASE client_tls_connect_Fails
  BY <1>3, StopEarly DEF client_tls_connect_Fails, Accepted
<1>4. CASE StartsClient
  BY <1>4, StartsClientKeeps
<1>5. CASE Validate
  BY <1>5, ValidateKeeps
<1>6. CASE Configured
  BY <1>6, ConfiguredKeeps
<1>7. CASE EnterRange
  BY <1>7, EnterRangeKeeps
<1>8. CASE PushPort
  BY <1>8, PushPortKeeps
<1>9. CASE EndDirection
  BY <1>9, EndDirectionKeeps
<1>10. CASE NextTest
  BY <1>10, NextTestKeeps
<1>11. CASE Over \/ UNCHANGED vars
  BY <1>11, StutterKeeps DEF Over
<1> QED
  BY <1>1, <1>2, <1>3, <1>4, <1>5, <1>6, <1>7, <1>8, <1>9, <1>10, <1>11 DEF Next, Start

LEMMA PlanInvariant == Spec => []PlanInv
<1>1. Init => PlanInv
  BY PlanInvInit
<1>2. PlanInv /\ [Next]_vars => PlanInv'
  BY PlanInductive
<1> QED BY <1>1, <1>2, PTL DEF Spec

\* Every batch handed to execute_batch, at every moment of run_client's loops
\* and for every command line, keeps its contract: it is not empty, within
\* --parallel, of one protocol, transport and direction, tests a port once, and
\* no id is used a second time in the whole scan.
THEOREM BatchesAreWellFormed == Spec => []BatchesWellFormed
<1>1. PlanInv => BatchesWellFormed
  <2> SUFFICES ASSUME PlanInv PROVE WellFormed(plan, parallel)
    BY DEF BatchesWellFormed
  <2> USE DEF PlanInv, LoopInv
  <2>1. ASSUME NEW b \in DOMAIN plan, NEW i \in DOMAIN plan[b]
        PROVE  <<b, i>> \in Slots /\ At(<<b, i>>) = plan[b][i]
    <3>1. plan \in Seq(Seq(TestEntries)) /\ plan[b] \in Seq(TestEntries)
      BY DEF TypeInv
    <3>2. /\ b \in 1 .. Len(plan) /\ b # Len(plan) + 1 /\ i \in 1 .. Len(plan[b])
          /\ BatchAt(plan, batch, b) = plan[b]
      BY <3>1 DEF BatchAt
    <3> QED BY <3>1, <3>2 DEF Slots, At, SlotsOf, EntryAt
  <2>2. ASSUME NEW b \in DOMAIN plan, NEW c \in DOMAIN plan,
               NEW i \in DOMAIN plan[b], NEW j \in DOMAIN plan[c],
               plan[b][i].id = plan[c][j].id
        PROVE  b = c /\ i = j
    <3>1. PICK s, u : s = <<b, i>> /\ u = <<c, j>>
      OBVIOUS
    <3>2. s \in Slots /\ u \in Slots /\ At(s) = plan[b][i] /\ At(u) = plan[c][j]
      BY <3>1, <2>1
    <3>3. s = u
      BY <3>2, <2>2 DEF IdsGiven
    <3> QED BY <3>1, <3>3
  <2>3. \A b \in DOMAIN plan : Fits(plan[b])
    BY DEF PlanFits
  <2> QED BY <2>2, <2>3 DEF WellFormed, Fits
<1> QED BY <1>1, PlanInvariant, PTL

\* For every command line: run_client's validation refuses a scan exactly when
\* one of its tests is not registered or has no port range of its transports,
\* and adds an ICMP range only to a command line that has none.
THEOREM ValidationIsExact == Spec => []ValidationExact
<1>1. PlanInv => ValidationExact
  <2> SUFFICES ASSUME PlanInv PROVE ValidationExact
    OBVIOUS
  <2> USE DEF PlanInv, LoopInv
  <2>1. stage = "plan" => \A t \in DOMAIN tests : Servable(tests[t])
    BY DEF TestsValidated, Accepts
  <2>2. stage = "exit" /\ exit = 3 => \E t \in DOMAIN tests : ~Servable(tests[t])
    BY DEF TestsValidated
  <2>3. stage = "plan" /\ ranges # given =>
          /\ ranges = Append(given, PortRange("icmp", 0, 0))
          /\ \A r \in DOMAIN given : given[r].transport # "icmp"
    BY DEF RangesKnown, Lacks, AnyPortRange
  <2> QED BY <2>1, <2>2, <2>3 DEF ValidationExact
<1> QED BY <1>1, PlanInvariant, PTL

-----------------------------------------------------------------------------
\* Two sets that correspond one to one have the same size.
LEMMA SameSize ==
  ASSUME NEW S, NEW T, IsFiniteSet(T), NEW g \in [S -> T],
         \A s, u \in S : g[s] = g[u] => s = u,
         \A t \in T : \E s \in S : g[s] = t
  PROVE  IsFiniteSet(S) /\ Cardinality(S) = Cardinality(T)
<1>1. PICK h : h = [t \in T |-> CHOOSE s \in S : g[s] = t]
  OBVIOUS
<1>2. \A t \in T : h[t] \in S /\ g[h[t]] = t
  BY <1>1
<1>3. h \in [T -> S]
  BY <1>1, <1>2
<1>4. \A t, v \in T : h[t] = h[v] => t = v
  BY <1>2
<1>5. \A s \in S : \E t \in T : h[t] = s
  BY <1>2
<1>6. h \in Bijection(T, S)
  BY <1>3, <1>4, <1>5 DEF Bijection, Injection, Surjection, IsInjective
<1> QED BY <1>6, FS_Bijection DEF ExistsBijection

\* The plan is complete when the loops end: its places correspond one to one
\* to all that was asked for.
LEMMA AllTraced ==
  ASSUME PlanInv, Planned
  PROVE  /\ batch = <<>> /\ Done = Asked
         /\ UNION {{b} \X DOMAIN plan[b] : b \in DOMAIN plan} = Slots
         /\ \A s \in Slots : At(s) = plan[s[1]][s[2]]
<1> USE DEF PlanInv, LoopInv
<1>1. stage = "plan" /\ ti > Len(tests) /\ dirs = <<>> /\ batch = <<>>
  BY DEF Planned, LoopsPlaced
<1>2. Done = Asked
  <2>1. \A a \in Asked : a.t < ti
    BY <1>1 DEF Asked, TypeInv
  <2> QED BY <1>1, <2>1 DEF Done, Past
<1>3. plan \in Seq(Seq(TestEntries)) /\ \A b \in 1 .. Len(plan) : plan[b] \in Seq(TestEntries)
  BY DEF TypeInv
<1>4. ASSUME NEW s \in Slots
      PROVE  /\ s \in UNION {{b} \X DOMAIN plan[b] : b \in DOMAIN plan}
             /\ At(s) = plan[s[1]][s[2]]
  <2>1. /\ s \in (1 .. Len(plan) + 1) \X (Nat \ {0})
        /\ s[2] <= Len(BatchAt(plan, batch, s[1]))
    BY DEF Slots, SlotsOf
  <2>2. s[1] # Len(plan) + 1
    BY <1>1, <2>1 DEF BatchAt
  <2>3. s[1] \in 1 .. Len(plan) /\ BatchAt(plan, batch, s[1]) = plan[s[1]]
    BY <1>3, <2>1, <2>2 DEF BatchAt
  <2>4. s[1] \in DOMAIN plan /\ s[2] \in DOMAIN plan[s[1]]
    BY <1>3, <2>1, <2>3
  <2>5. s \in {s[1]} \X DOMAIN plan[s[1]]
    BY <2>1, <2>4
  <2> QED BY <2>3, <2>4, <2>5 DEF At, EntryAt
<1>5. ASSUME NEW b \in DOMAIN plan, NEW s \in {b} \X DOMAIN plan[b] PROVE s \in Slots
  <2>1. /\ b \in 1 .. Len(plan) /\ s[1] = b /\ s[2] \in 1 .. Len(plan[b])
        /\ Len(plan[b]) \in Nat /\ Len(plan) \in Nat
    BY <1>3
  <2>2. BatchAt(plan, batch, b) = plan[b]
    BY <1>3, <2>1 DEF BatchAt
  <2>3. s \in (1 .. Len(plan) + 1) \X (Nat \ {0})
    BY <2>1
  <2> QED BY <2>1, <2>2, <2>3 DEF Slots, SlotsOf
<1> QED BY <1>1, <1>2, <1>4, <1>5

\* What is asked for under one key, name by name and range by range.
Askers(key) ==
  {tr \in (DOMAIN tests) \X (DOMAIN ranges) :
     /\ tests[tr[1]] = key.proto
     /\ tr[2] \in Matching(tests[tr[1]])
     /\ ranges[tr[2]].transport = key.transport
     /\ key.port \in ranges[tr[2]].start .. ranges[tr[2]].end}

LEMMA AskersFinite ==
  ASSUME TypeInv, NEW key
  PROVE  IsFiniteSet(Askers(key))
<1>1. DOMAIN tests = 1 .. Len(tests) /\ DOMAIN ranges = 1 .. Len(ranges)
      /\ Len(tests) \in Int /\ Len(ranges) \in Int
  BY DEF TypeInv
<1>2. IsFiniteSet(DOMAIN tests) /\ IsFiniteSet(DOMAIN ranges)
  BY <1>1, FS_Interval
<1>3. IsFiniteSet((DOMAIN tests) \X (DOMAIN ranges))
  BY <1>2, FS_Product
<1>4. Askers(key) \in SUBSET ((DOMAIN tests) \X (DOMAIN ranges))
  BY DEF Askers
<1> QED BY <1>3, <1>4, FS_Subset

\* The tests of one key that are asked for differ in the name or the range
\* they come from, and every name and range that give the key ask for one.
LEMMA AskedOfKey ==
  ASSUME TypeInv, NEW a \in Asked
  PROVE  /\ Wanted(AskedKey(a)) = Cardinality(Askers(AskedKey(a)))
         /\ \A c \in Asked : AskedKey(c) = AskedKey(a) =>
              /\ <<c.t, c.r>> \in Askers(AskedKey(a))
              /\ c.t = a.t /\ c.r = a.r => c = a
         /\ \A tr \in Askers(AskedKey(a)) :
              \E c \in Asked : AskedKey(c) = AskedKey(a) /\ <<c.t, c.r>> = tr
<1>1. PICK key : key = AskedKey(a)
  OBVIOUS
<1>2. /\ a.t \in DOMAIN tests /\ a.r \in Matching(tests[a.t]) /\ a.r \in DOMAIN ranges
      /\ a.k \in DOMAIN Directions /\ a.p \in Nat
      /\ ranges[a.r].start <= a.p /\ a.p <= ranges[a.r].end
      /\ a = Ask(a.t, a.r, a.k, a.p)
  BY DEF Asked, Ask
<1>3. /\ key.proto = tests[a.t] /\ key.transport = ranges[a.r].transport
      /\ key.port = a.p /\ key.dir = Directions[a.k]
  BY <1>1 DEF AskedKey, Key
<1>4. \A j, k \in DOMAIN Directions : Directions[j] = Directions[k] => j = k
  BY DirectionsKnown DEF TypeInv
<1>5. key.dir = "->" \/ bidir
  BY <1>2, <1>3, DirectionsKnown DEF TypeInv
<1>6. Wanted(key) = Cardinality(Askers(key))
  BY <1>5 DEF Wanted, Askers
<1>7. \A r \in DOMAIN ranges : ranges[r].start \in Nat /\ ranges[r].end \in Nat
  <2>1. \A r \in DOMAIN ranges : ranges[r] \in PortRanges
    BY DEF TypeInv
  <2> QED BY <2>1 DEF PortRanges
<1>8. ASSUME NEW c \in Asked, AskedKey(c) = key
      PROVE  <<c.t, c.r>> \in Askers(key) /\ (c.t = a.t /\ c.r = a.r => c = a)
  <2>1. /\ c.t \in DOMAIN tests /\ c.r \in Matching(tests[c.t]) /\ c.r \in DOMAIN ranges
        /\ c.k \in DOMAIN Directions /\ c.p \in Nat
        /\ ranges[c.r].start <= c.p /\ c.p <= ranges[c.r].end
        /\ c = Ask(c.t, c.r, c.k, c.p)
    BY DEF Asked, Ask
  <2>2. /\ key.proto = tests[c.t] /\ key.transport = ranges[c.r].transport
        /\ key.port = c.p /\ key.dir = Directions[c.k]
    BY <1>8 DEF AskedKey, Key
  <2>3. key.port \in ranges[c.r].start .. ranges[c.r].end
    BY <2>1, <2>2, <1>7
  <2>4. <<c.t, c.r>> \in Askers(key)
    BY <2>1, <2>2, <2>3 DEF Askers
  <2>5. c.k = a.k /\ c.p = a.p
    BY <2>1, <2>2, <1>2, <1>3, <1>4
  <2> QED BY <2>1, <2>4, <2>5, <1>2
<1>9. ASSUME NEW tr \in Askers(key)
      PROVE  \E c \in Asked : AskedKey(c) = key /\ <<c.t, c.r>> = tr
  <2>1. /\ tr[1] \in DOMAIN tests /\ tr[2] \in DOMAIN ranges /\ tr = <<tr[1], tr[2]>>
        /\ tests[tr[1]] = key.proto /\ tr[2] \in Matching(tests[tr[1]])
        /\ ranges[tr[2]].transport = key.transport
        /\ key.port \in ranges[tr[2]].start .. ranges[tr[2]].end
    BY DEF Askers
  <2>2. PICK c : c = Ask(tr[1], tr[2], a.k, a.p)
    OBVIOUS
  <2>3. c \in Asked
    BY <1>2, <1>3, <1>7, <2>1, <2>2 DEF Asked, Ask
  <2>4. AskedKey(c) = key
    BY <1>1, <1>3, <2>1, <2>2 DEF AskedKey, Key, Ask
  <2>5. <<c.t, c.r>> = tr
    BY <2>1, <2>2 DEF Ask
  <2> QED BY <2>3, <2>4, <2>5
<1> QED BY <1>1, <1>6, <1>8, <1>9

\* When the loops end, the plan is what was asked for: each place comes from
\* one thing asked for under its key.
LEMMA PlanAsked == PlanInv => PlanIsWhatWasAsked
<1> SUFFICES ASSUME PlanInv, Planned PROVE PlanIsWhatWasAsked
  BY DEF PlanIsWhatWasAsked
<1> USE DEF PlanInv, LoopInv
<1>1. /\ Done = Asked
      /\ UNION {{b} \X DOMAIN plan[b] : b \in DOMAIN plan} = Slots
      /\ \A s \in Slots : At(s) = plan[s[1]][s[2]]
  BY AllTraced
<1>2. PICK f : Traces(f)
  BY DEF PlanTraced
<1>3. /\ f \in [Slots -> Asked]
      /\ \A s, u \in Slots : f[s] = f[u] => s = u
      /\ \A a \in Asked : \E s \in Slots : f[s] = a
      /\ \A s \in Slots : KeyOf(At(s)) = AskedKey(f[s])
  BY <1>1, <1>2 DEF Traces
<1>4. ASSUME NEW v \in Slots
      PROVE  Cardinality({u \in Slots : KeyOf(At(u)) = KeyOf(At(v))}) = Wanted(KeyOf(At(v)))
  <2>1. PICK a \in Asked : a = f[v] /\ AskedKey(a) = KeyOf(At(v))
    BY <1>3
  <2>2. PICK key : key = AskedKey(a)
    OBVIOUS
  <2>3. PICK S : S = {u \in Slots : KeyOf(At(u)) = key}
    OBVIOUS
  <2>4. PICK g : g = [u \in S |-> <<f[u].t, f[u].r>>]
    OBVIOUS
  <2>5. \A u \in S : u \in Slots /\ f[u] \in Asked /\ AskedKey(f[u]) = key
    BY <1>3, <2>3
  <2>6. /\ Wanted(key) = Cardinality(Askers(key))
        /\ \A c \in Asked : AskedKey(c) = key => <<c.t, c.r>> \in Askers(key)
        /\ \A tr \in Askers(key) :
             \E c \in Asked : AskedKey(c) = key /\ <<c.t, c.r>> = tr
    BY <2>2, AskedOfKey
  <2>7. g \in [S -> Askers(key)]
    BY <2>4, <2>5, <2>6
  <2>8. ASSUME NEW s \in S, NEW u \in S, g[s] = g[u] PROVE s = u
    <3>1. f[s].t = f[u].t /\ f[s].r = f[u].r
      BY <2>4, <2>8
    <3>2. f[s] = f[u]
      BY <3>1, <2>5, AskedOfKey
    <3> QED BY <3>2, <1>3, <2>5
  <2>9. ASSUME NEW tr \in Askers(key) PROVE \E s \in S : g[s] = tr
    <3>1. PICK c \in Asked : AskedKey(c) = key /\ <<c.t, c.r>> = tr
      BY <2>6
    <3>2. PICK s \in Slots : f[s] = c
      BY <1>3
    <3>3. s \in S
      BY <3>1, <3>2, <1>3, <2>3
    <3> QED BY <3>1, <3>2, <3>3, <2>4
  <2>10. Cardinality(S) = Cardinality(Askers(key))
    <3>1. IsFiniteSet(Askers(key))
      BY AskersFinite
    <3> QED BY <3>1, <2>7, <2>8, <2>9, SameSize
  <2> QED BY <2>1, <2>2, <2>3, <2>6, <2>10
<1>5. ASSUME NEW t \in DOMAIN tests, NEW r \in DOMAIN ranges, r \in Matching(tests[t]),
             NEW p \in ranges[r].start .. ranges[r].end, NEW k \in DOMAIN Directions
      PROVE  \E s \in Slots :
               KeyOf(At(s)) = Key(tests[t], ranges[r].transport, p, Directions[k])
  <2>1. ranges[r] \in PortRanges
    BY DEF TypeInv
  <2>2. ranges[r].start \in Nat /\ ranges[r].end \in Nat
    BY <2>1 DEF PortRanges
  <2>3. PICK a : a = Ask(t, r, k, p)
    OBVIOUS
  <2>4. a \in Asked
    BY <1>5, <2>2, <2>3 DEF Asked, Ask
  <2>5. AskedKey(a) = Key(tests[t], ranges[r].transport, p, Directions[k])
    BY <2>3 DEF AskedKey, Ask
  <2> QED BY <1>3, <2>4, <2>5
<1>6. {At(s).id : s \in Slots} = 0 .. id - 1
  BY DEF IdsGiven
<1>7. Cardinality(Slots) = id
  <2>1. PICK ids : ids = 0 .. id - 1
    OBVIOUS
  <2>2. PICK g : g = [s \in Slots |-> At(s).id]
    OBVIOUS
  <2>3. /\ g \in [Slots -> ids]
        /\ \A s, u \in Slots : g[s] = g[u] => s = u
        /\ \A n \in ids : \E s \in Slots : g[s] = n
    BY <2>1, <2>2 DEF IdsGiven
  <2>4. id \in Nat
    BY DEF TypeInv
  <2>5. IsFiniteSet(ids) /\ Cardinality(ids) = id
    BY <2>1, <2>4, FS_Interval
  <2>6. Cardinality(Slots) = Cardinality(ids)
    BY <2>3, <2>5, SameSize
  <2> QED BY <2>5, <2>6
<1>8. ASSUME NEW t \in DOMAIN tests PROVE \E s \in Slots : At(s).proto = tests[t]
  <2>1. stage = "plan"
    BY DEF Planned
  <2>2. PICK r \in Matching(tests[t]) : TRUE
    BY <2>1 DEF TestsValidated, Accepts
  <2>3. r \in DOMAIN ranges /\ ranges[r] \in PortRanges /\ ranges[r].start <= ranges[r].end
    BY <2>1, <2>2 DEF Matching, TypeInv, RangesKnown
  <2>4. ranges[r].start \in ranges[r].start .. ranges[r].end
    BY <2>3 DEF PortRanges
  <2>5. 1 \in DOMAIN Directions
    BY DirectionsKnown DEF TypeInv
  <2>6. PICK s \in Slots :
          KeyOf(At(s)) = Key(tests[t], ranges[r].transport, ranges[r].start, Directions[1])
    BY <1>5, <2>2, <2>3, <2>4, <2>5
  <2> QED BY <2>6 DEF KeyOf, Key
<1>9. PICK slots : slots = UNION {{b} \X DOMAIN plan[b] : b \in DOMAIN plan} /\ slots = Slots
  BY <1>1
<1>10. /\ \A s \in slots :
            Cardinality({u \in slots : KeyOf(plan[u[1]][u[2]]) = KeyOf(plan[s[1]][s[2]])})
              = Wanted(KeyOf(plan[s[1]][s[2]]))
       /\ {plan[s[1]][s[2]].id : s \in slots} = 0 .. id - 1
       /\ \A t \in DOMAIN tests : \E s \in slots : plan[s[1]][s[2]].proto = tests[t]
  <2>1. ASSUME NEW s \in slots
        PROVE  {u \in slots : KeyOf(plan[u[1]][u[2]]) = KeyOf(plan[s[1]][s[2]])}
                 = {u \in Slots : KeyOf(At(u)) = KeyOf(At(s))}
    BY <1>1, <1>9
  <2>2. {plan[s[1]][s[2]].id : s \in slots} = {At(s).id : s \in Slots}
    BY <1>1, <1>9
  <2> QED BY <1>1, <1>4, <1>6, <1>8, <1>9, <2>1, <2>2
<1>11. \A t \in DOMAIN tests, r \in DOMAIN ranges :
         r \in Matching(tests[t]) =>
           \A p \in ranges[r].start .. ranges[r].end : \A k \in DOMAIN Directions :
             \E s \in slots : KeyOf(plan[s[1]][s[2]])
                              = Key(tests[t], ranges[r].transport, p, Directions[k])
  BY <1>1, <1>5, <1>9
<1> QED BY <1>7, <1>9, <1>10, <1>11 DEF PlanIsWhatWasAsked

\* For every command line: when run_client's loops end, each test is in the
\* plan as often as the names, port ranges and directions given ask for it, no
\* other test is, the ids are 0, 1, 2... without a gap, and no name is left out.
THEOREM PlanIsAsked == Spec => []PlanIsWhatWasAsked
BY PlanAsked, PlanInvariant, PTL
-----------------------------------------------------------------------------
(***************************************************************************)
(* The report.  The batches push their results, of which merge_into_ranges *)
(* takes one after the other, sorted.                                      *)
(***************************************************************************)
USE ReportAssumption

\* A strict total order on 1 .. n, given by what comes before each element,
\* ranks its elements: the rank of one is how many come before it.
Ordering(n, down) ==
  /\ down \in [1 .. n -> SUBSET (1 .. n)]
  /\ \A i \in 1 .. n : i \notin down[i]
  /\ \A i, j, k \in 1 .. n : i \in down[j] /\ j \in down[k] => i \in down[k]
  /\ \A i, j \in 1 .. n : i # j => i \in down[j] \/ j \in down[i]

Ranking(n, down, rank) ==
  /\ \A i \in 1 .. n : rank[i] \in 0 .. n - 1
  /\ \A i, j \in 1 .. n : i \in down[j] <=> rank[i] < rank[j]
  /\ \A i, j \in 1 .. n : rank[i] = rank[j] => i = j
  /\ \A k \in 0 .. n - 1 : \E i \in 1 .. n : rank[i] = k

LEMMA RanksOfOrder ==
  ASSUME NEW n \in Nat, NEW down, Ordering(n, down),
         NEW rank, rank = [i \in 1 .. n |-> Cardinality(down[i])]
  PROVE  Ranking(n, down, rank)
<1> USE DEF Ordering
<1> DEFINE D == 1 .. n
<1>1. IsFiniteSet(D) /\ Cardinality(D) = n
  BY FS_Interval
<1>2. ASSUME NEW i \in D
      PROVE  IsFiniteSet(down[i]) /\ rank[i] \in 0 .. n - 1
  <2>1. down[i] \in SUBSET D /\ i \notin down[i] /\ i \in D /\ rank[i] = Cardinality(down[i])
    OBVIOUS
  <2>2. IsFiniteSet(down[i]) /\ Cardinality(down[i]) <= n /\ Cardinality(down[i]) # n
    <3> HIDE DEF D
    <3> QED BY <1>1, <2>1, FS_Subset
  <2>3. Cardinality(down[i]) \in Nat
    BY <2>2, FS_CardinalityType
  <2> QED BY <2>1, <2>2, <2>3
<1>3. ASSUME NEW i \in D, NEW j \in D, i \in down[j]
      PROVE  rank[i] < rank[j]
  <2>1. down[i] \in SUBSET down[j] /\ i \notin down[i]
    BY <1>3
  <2>2. rank[i] = Cardinality(down[i]) /\ rank[j] = Cardinality(down[j])
    OBVIOUS
  <2>3. IsFiniteSet(down[j]) /\ rank[i] \in 0 .. n - 1 /\ rank[j] \in 0 .. n - 1
    BY <1>2
  <2>4. rank[i] <= rank[j] /\ rank[i] # rank[j]
    BY <1>3, <2>1, <2>2, <2>3, FS_Subset
  <2> QED BY <2>3, <2>4
<1>4. \A i \in D : rank[i] \in 0 .. n - 1 /\ rank[i] \in Int
  BY <1>2
<1>5. \A i, j \in D : rank[i] = rank[j] => i = j
  <2> SUFFICES ASSUME NEW i \in D, NEW j \in D, rank[i] = rank[j], i # j PROVE FALSE
    OBVIOUS
  <2>1. rank[i] < rank[j] \/ rank[j] < rank[i]
    BY <1>3
  <2> QED BY <2>1, <1>4
<1>6. \A i, j \in D : rank[i] < rank[j] => i \in down[j]
  <2> SUFFICES ASSUME NEW i \in D, NEW j \in D, rank[i] < rank[j], i \notin down[j]
               PROVE  FALSE
    OBVIOUS
  <2>1. i = j \/ rank[j] < rank[i]
    BY <1>3
  <2>2. rank[i] \in Int /\ rank[j] \in Int
    BY <1>4
  <2> QED BY <2>1, <2>2
<1>7. \A k \in 0 .. n - 1 : \E i \in D : rank[i] = k
  <2> HIDE DEF D
  <2>1. rank \in [D -> 0 .. n - 1]
    BY <1>4 DEF D
  <2>2. rank \in Injection(D, 0 .. n - 1)
    BY <2>1, <1>5, Fun_IsInj
  <2>3. IsFiniteSet(0 .. n - 1) /\ Cardinality(0 .. n - 1) = n
    <3>1. PICK m \in Int : m = n - 1
      OBVIOUS
    <3>2. IsFiniteSet(0 .. m) /\ Cardinality(0 .. m) = IF 0 > m THEN 0 ELSE m - 0 + 1
      BY FS_Interval
    <3> QED BY <3>1, <3>2
  <2>4. rank \in Surjection(D, 0 .. n - 1)
    BY <2>2, <2>3, <1>1, FS_Injection
  <2> QED BY <2>4 DEF Surjection
<1> QED BY <1>3, <1>4, <1>5, <1>6, <1>7 DEF Ranking

-----------------------------------------------------------------------------
\* The place of a name is one of the sorted names, and each name has its own.
LEMMA NamePlaces ==
  ASSUME NEW name \in Registered
  PROVE  /\ Index(NameOrder, name) \in Nat \ {0}
         /\ NameOrder[Index(NameOrder, name)] = name
<1>1. \E k \in DOMAIN NameOrder : NameOrder[k] = name
  OBVIOUS
<1>2. Index(NameOrder, name) \in DOMAIN NameOrder /\ NameOrder[Index(NameOrder, name)] = name
  BY <1>1 DEF Index
<1> QED BY <1>2

LEMMA TransportPlaces ==
  ASSUME NEW transport \in Transports
  PROVE  /\ Index(<<"icmp", "tcp", "udp">>, transport) \in 1 .. 3
         /\ <<"icmp", "tcp", "udp">>[Index(<<"icmp", "tcp", "udp">>, transport)] = transport
<1>1. PICK q : q = <<"icmp", "tcp", "udp">>
  OBVIOUS
<1>2. DOMAIN q = 1 .. 3 /\ q[1] = "icmp" /\ q[2] = "tcp" /\ q[3] = "udp"
  BY <1>1
<1>3. \E k \in DOMAIN q : q[k] = transport
  BY <1>2 DEF Transports
<1>4. Index(q, transport) \in DOMAIN q /\ q[Index(q, transport)] = transport
  BY <1>3 DEF Index
<1> QED BY <1>1, <1>2, <1>4

Dirs == {"->", "<-"}

LEMMA DirectionPlaces ==
  ASSUME NEW dir \in Dirs
  PROVE  /\ Index(<<"->", "<-">>, dir) \in 1 .. 2
         /\ <<"->", "<-">>[Index(<<"->", "<-">>, dir)] = dir
<1>1. PICK q : q = <<"->", "<-">>
  OBVIOUS
<1>2. DOMAIN q = 1 .. 2 /\ q[1] = "->" /\ q[2] = "<-"
  BY <1>1
<1>3. \E k \in DOMAIN q : q[k] = dir
  BY <1>2 DEF Dirs
<1>4. Index(q, dir) \in DOMAIN q /\ q[Index(q, dir)] = dir
  BY <1>3 DEF Index
<1> QED BY <1>1, <1>2, <1>4

\* Two results are of one group when their protocol, transport and direction
\* are the same.
LEMMA GroupsDiffer ==
  ASSUME NEW n \in Registered, NEW t \in Transports, NEW d \in Dirs,
         NEW m \in Registered, NEW u \in Transports, NEW e \in Dirs
  PROVE  /\ GroupOf(n, t, d) \in Nat
         /\ GroupOf(n, t, d) = GroupOf(m, u, e) => n = m /\ t = u /\ d = e
<1>1. PICK a, b, c : /\ a = Index(NameOrder, n)
                     /\ b = Index(<<"icmp", "tcp", "udp">>, t)
                     /\ c = Index(<<"->", "<-">>, d)
  OBVIOUS
<1>2. PICK x, y, z : /\ x = Index(NameOrder, m)
                     /\ y = Index(<<"icmp", "tcp", "udp">>, u)
                     /\ z = Index(<<"->", "<-">>, e)
  OBVIOUS
<1>3. /\ a \in Nat /\ b \in 1 .. 3 /\ c \in 1 .. 2
      /\ x \in Nat /\ y \in 1 .. 3 /\ z \in 1 .. 2
  BY <1>1, <1>2, NamePlaces, TransportPlaces, DirectionPlaces
<1>4. GroupOf(n, t, d) = 8 * a + 2 * b + c /\ GroupOf(m, u, e) = 8 * x + 2 * y + z
  BY <1>1, <1>2 DEF GroupOf
<1>5. 8 * a + 2 * b + c = 8 * x + 2 * y + z => a = x /\ b = y /\ c = z
  BY <1>3
<1>6. (a = x => n = m) /\ (b = y => t = u) /\ (c = z => d = e)
  BY <1>1, <1>2, NamePlaces, TransportPlaces, DirectionPlaces
<1> QED BY <1>3, <1>4, <1>5, <1>6

Groups ==
  {GroupOf(name, transport, dir) :
     name \in Registered, transport \in {"icmp", "tcp", "udp"}, dir \in {"->", "<-"}}

LEMMA GroupsTyped == Groups \subseteq Nat
<1> SUFFICES ASSUME NEW g \in Groups PROVE g \in Nat
  OBVIOUS
<1>1. PICK T, D : T = {"icmp", "tcp", "udp"} /\ D = {"->", "<-"}
  OBVIOUS
<1>2. Groups = {GroupOf(name, transport, dir) : name \in Registered, transport \in T, dir \in D}
  BY <1>1 DEF Groups
<1>3. PICK name \in Registered, transport \in T, dir \in D : g = GroupOf(name, transport, dir)
  BY <1>2
<1>4. transport \in Transports /\ dir \in Dirs
  BY <1>1 DEF Transports, Dirs
<1> QED BY <1>3, <1>4, GroupsDiffer

Entries == Report!Entries
LEMMA EntriesTyped ==
  ASSUME NEW e \in Entries
  PROVE  e.group \in Nat /\ e.port \in 0 .. MaxPort /\ e.outcome \in Outcomes /\ e.group \in Groups
         /\ e = Report!Entry(e.group, e.port, e.outcome)
BY GroupsTyped DEF Entries, Report!Entries, Report!Entry, Groups

-----------------------------------------------------------------------------
\* A set has the size Summary says it has.
LEMMA SameCardinality == \A S : Report!Cardinality(S) = Cardinality(S)
BY DEF Cardinality, Report!Cardinality

\* Results come before each other in one way: by group, by port, as they came.
LEMMA BeforeIsOrder ==
  ASSUME results \in Seq(Entries)
  PROVE  /\ \A i \in 1 .. Len(results) : ~Report!Before(i, i)
         /\ \A i, j, k \in 1 .. Len(results) :
              Report!Before(i, j) /\ Report!Before(j, k) => Report!Before(i, k)
         /\ \A i, j \in 1 .. Len(results) :
              i # j => Report!Before(i, j) \/ Report!Before(j, i)
<1>1. PICK n \in Nat : n = Len(results)
  OBVIOUS
<1>2. \A i \in 1 .. n : results[i].group \in Nat /\ results[i].port \in Nat
  <2> SUFFICES ASSUME NEW i \in 1 .. n PROVE results[i].group \in Nat /\ results[i].port \in Nat
    OBVIOUS
  <2>1. results[i] \in Entries
    BY <1>1
  <2> QED BY <2>1, EntriesTyped
<1>3. PICK g, p : /\ g = [i \in 1 .. n |-> results[i].group]
                  /\ p = [i \in 1 .. n |-> results[i].port]
  OBVIOUS
<1>4. \A i, j \in 1 .. n :
        Report!Before(i, j) <=>
          \/ g[i] < g[j]
          \/ g[i] = g[j] /\ p[i] < p[j]
          \/ g[i] = g[j] /\ p[i] = p[j] /\ i < j
  BY <1>3 DEF Report!Before
<1>5. \A i \in 1 .. n : i \in Nat /\ g[i] \in Nat /\ p[i] \in Nat
  BY <1>2, <1>3
<1> HIDE <1>3
<1>6. ASSUME NEW i \in 1 .. n, NEW j \in 1 .. n, NEW k \in 1 .. n
      PROVE  /\ ~Report!Before(i, i)
             /\ Report!Before(i, j) /\ Report!Before(j, k) => Report!Before(i, k)
             /\ i # j => Report!Before(i, j) \/ Report!Before(j, i)
  <2>1. /\ i \in Nat /\ g[i] \in Nat /\ p[i] \in Nat
        /\ j \in Nat /\ g[j] \in Nat /\ p[j] \in Nat
        /\ k \in Nat /\ g[k] \in Nat /\ p[k] \in Nat
    BY <1>5
  <2>2. ~Report!Before(i, i)
    BY <2>1, <1>4
  <2>3. i # j => Report!Before(i, j) \/ Report!Before(j, i)
    BY <2>1, <1>4
  <2>4. ASSUME Report!Before(i, j), Report!Before(j, k) PROVE Report!Before(i, k)
    <3>1. \/ g[i] < g[j]
          \/ g[i] = g[j] /\ p[i] < p[j]
          \/ g[i] = g[j] /\ p[i] = p[j] /\ i < j
      BY <2>4, <1>4
    <3>2. \/ g[j] < g[k]
          \/ g[j] = g[k] /\ p[j] < p[k]
          \/ g[j] = g[k] /\ p[j] = p[k] /\ j < k
      BY <2>4, <1>4
    <3>3. \/ g[i] < g[k]
          \/ g[i] = g[k] /\ p[i] < p[k]
          \/ g[i] = g[k] /\ p[i] = p[k] /\ i < k
      BY <2>1, <3>1, <3>2
    <3> QED BY <3>3, <1>4
  <2> QED BY <2>2, <2>3, <2>4
<1> QED BY <1>1, <1>6

\* The sorted results are the results, each once, in that order.
Sorting(place) ==
  /\ place \in [1 .. Len(results) -> 1 .. Len(results)]
  /\ \A k, l \in 1 .. Len(results) : place[k] = place[l] => k = l
  /\ \A i \in 1 .. Len(results) : \E k \in 1 .. Len(results) : place[k] = i
  /\ \A k, l \in 1 .. Len(results) : k < l => Report!Before(place[k], place[l])
  /\ Report!sorted = [k \in 1 .. Len(results) |-> results[place[k]]]

LEMMA SortedIsSorting ==
  ASSUME results \in Seq(Entries)
  PROVE  \E place : Sorting(place)
<1>1. PICK n \in Nat : n = Len(results)
  OBVIOUS
<1>2. DOMAIN results = 1 .. n
  BY <1>1
<1>3. PICK down : down = [i \in 1 .. n |-> {j \in 1 .. n : Report!Before(j, i)}]
  OBVIOUS
<1>4. /\ down \in [1 .. n -> SUBSET (1 .. n)]
      /\ \A i, j \in 1 .. n : i \in down[j] <=> Report!Before(i, j)
  BY <1>3
<1>5. PICK rank : rank = [i \in 1 .. n |-> Cardinality(down[i])]
  OBVIOUS
<1>6. ASSUME NEW i \in 1 .. n PROVE Report!Rank(i) = rank[i]
  BY <1>2, <1>3, <1>5, SameCardinality DEF Report!Rank
<1>7. Ranking(n, down, rank)
  <2>1. \A i \in 1 .. n : i \notin down[i]
    BY <1>1, <1>4, BeforeIsOrder
  <2>2. \A i, j, k \in 1 .. n : i \in down[j] /\ j \in down[k] => i \in down[k]
    <3> SUFFICES ASSUME NEW i \in 1 .. n, NEW j \in 1 .. n, NEW k \in 1 .. n,
                        i \in down[j], j \in down[k]
                 PROVE  i \in down[k]
      OBVIOUS
    <3>1. Report!Before(i, j) /\ Report!Before(j, k)
      BY <1>4
    <3>2. Report!Before(i, k)
      BY <3>1, <1>1, BeforeIsOrder
    <3> QED BY <3>2, <1>4
  <2>3. \A i, j \in 1 .. n : i # j => i \in down[j] \/ j \in down[i]
    BY <1>1, <1>4, BeforeIsOrder
  <2>4. Ordering(n, down)
    BY <2>1, <2>2, <2>3, <1>4 DEF Ordering
  <2> QED BY <2>4, <1>5, RanksOfOrder
<1>8. PICK place : place = [k \in 1 .. n |-> CHOOSE i \in DOMAIN results : Report!Rank(i) = k - 1]
  OBVIOUS
<1>9. ASSUME NEW k \in 1 .. n
      PROVE  place[k] \in 1 .. n /\ rank[place[k]] = k - 1
  <2>1. k - 1 \in 0 .. n - 1
    OBVIOUS
  <2>2. \E i \in 1 .. n : rank[i] = k - 1
    BY <2>1, <1>7 DEF Ranking
  <2>3. \E i \in DOMAIN results : Report!Rank(i) = k - 1
    BY <2>2, <1>2, <1>6
  <2>4. place[k] \in DOMAIN results /\ Report!Rank(place[k]) = k - 1
    BY <2>3, <1>8
  <2> QED BY <2>4, <1>2, <1>6
<1>10. place \in [1 .. n -> 1 .. n]
  BY <1>8, <1>9
<1>11. \A k, l \in 1 .. n : place[k] = place[l] => k = l
  <2> SUFFICES ASSUME NEW k \in 1 .. n, NEW l \in 1 .. n, place[k] = place[l] PROVE k = l
    OBVIOUS
  <2>1. k - 1 = l - 1
    BY <1>9
  <2> QED BY <2>1
<1>12. \A i \in 1 .. n : \E k \in 1 .. n : place[k] = i
  <2> SUFFICES ASSUME NEW i \in 1 .. n PROVE \E k \in 1 .. n : place[k] = i
    OBVIOUS
  <2>1. PICK r \in 0 .. n - 1 : r = rank[i]
    BY <1>7 DEF Ranking
  <2>2. PICK k \in 1 .. n : rank[i] = k - 1
    <3>1. r + 1 \in 1 .. n /\ r = (r + 1) - 1
      OBVIOUS
    <3> QED BY <2>1, <3>1
  <2>3. place[k] \in 1 .. n /\ rank[place[k]] = rank[i]
    BY <2>2, <1>9
  <2> QED BY <2>2, <2>3, <1>7 DEF Ranking
<1>13. \A k, l \in 1 .. n : k < l => Report!Before(place[k], place[l])
  <2> SUFFICES ASSUME NEW k \in 1 .. n, NEW l \in 1 .. n, k < l
               PROVE  Report!Before(place[k], place[l])
    OBVIOUS
  <2>1. rank[place[k]] < rank[place[l]] /\ place[k] \in 1 .. n /\ place[l] \in 1 .. n
    BY <1>9
  <2> QED BY <2>1, <1>4, <1>7 DEF Ranking
<1>14. Report!sorted = [k \in 1 .. n |-> results[place[k]]]
  BY <1>2, <1>8 DEF Report!sorted
<1>15. Sorting(place)
  BY <1>1, <1>10, <1>11, <1>12, <1>13, <1>14 DEF Sorting
<1> QED BY <1>15

-----------------------------------------------------------------------------
MergedRanges ==
  [group : Groups, outcome : Outcomes, start : 0 .. MaxPort, end : 0 .. MaxPort, count : Nat]

ReportType ==
  /\ executed \in 0 .. Len(plan)
  /\ ~Planned => executed = 0
  /\ results \in Seq(Entries)
  /\ executed = 0 => results = <<>>
  /\ taken \in 0 .. Len(results)
  /\ taken # 0 => executed = Len(plan)
  /\ merged \in Seq(MergedRanges)
  /\ taken = 0 => merged = <<>>

\* The ranges that have a port of a group, with an outcome that is in O; and
\* the results taken so far of that port and group, with such an outcome.
CoverOf(O, g, p) ==
  {m \in DOMAIN merged : /\ merged[m].group = g
                         /\ merged[m].outcome \in O
                         /\ p \in merged[m].start .. merged[m].end}
TakenOf(O, g, p) ==
  {k \in 1 .. taken : /\ Report!sorted[k].group = g
                      /\ Report!sorted[k].outcome \in O
                      /\ Report!sorted[k].port = p}

RangesSized ==
  \A m \in DOMAIN merged :
    /\ merged[m].start <= merged[m].end
    /\ merged[m].count = merged[m].end - merged[m].start + 1

RangesCount ==
  \A O \in SUBSET Outcomes, g \in Nat, p \in 0 .. MaxPort :
    Cardinality(CoverOf(O, g, p)) = Cardinality(TakenOf(O, g, p))

LEMMA SortedTyped ==
  ASSUME results \in Seq(Entries)
  PROVE  \A k \in 1 .. Len(results) : Report!sorted[k] \in Entries
<1>1. PICK place : Sorting(place)
  BY SortedIsSorting
<1> SUFFICES ASSUME NEW k \in 1 .. Len(results) PROVE Report!sorted[k] \in Entries
  OBVIOUS
<1>2. Report!sorted[k] = results[place[k]] /\ place[k] \in 1 .. Len(results)
  BY <1>1 DEF Sorting
<1> QED BY <1>2

\* What a round of merge_into_ranges does: it extends the last range by one
\* port, or starts a range of one port.
Extends(e) ==
  /\ Len(merged) # 0
  /\ LET last == merged[Len(merged)] IN
       /\ last.group = e.group /\ last.outcome = e.outcome /\ last.end + 1 = e.port
       /\ Len(merged') = Len(merged)
       /\ merged'[Len(merged)].group = last.group
       /\ merged'[Len(merged)].outcome = last.outcome
       /\ merged'[Len(merged)].start = last.start
       /\ merged'[Len(merged)].end = e.port
       /\ merged'[Len(merged)].count = last.count + 1
  /\ \A m \in 1 .. Len(merged) - 1 : merged'[m] = merged[m]
StartsRange(e) ==
  /\ Len(merged') = Len(merged) + 1
  /\ merged'[Len(merged) + 1]
       = [group |-> e.group, outcome |-> e.outcome, start |-> e.port, end |-> e.port, count |-> 1]
  /\ \A m \in 1 .. Len(merged) : merged'[m] = merged[m]
  /\ Len(merged) # 0 =>
       LET last == merged[Len(merged)] IN
         ~(last.group = e.group /\ last.outcome = e.outcome /\ last.end + 1 = e.port)

\* The last range, replaced by one of the same kind.
LEMMA LastReplaced ==
  ASSUME NEW S, NEW s \in Seq(S), s # <<>>, NEW x \in S
  PROVE  /\ Append(Front(s), x) \in Seq(S)
         /\ Len(Append(Front(s), x)) = Len(s)
         /\ Append(Front(s), x)[Len(s)] = x
         /\ \A i \in 1 .. Len(s) - 1 : Append(Front(s), x)[i] = s[i]
<1>1. PICK n \in Nat : n = Len(s) - 1
  OBVIOUS
<1>2. \A i \in 1 .. n : s[i] \in S
  BY <1>1
<1>3. PICK f : f = SubSeq(s, 1, n)
  OBVIOUS
<1>4. f \in Seq(S) /\ Len(f) = n /\ \A i \in 1 .. n : f[i] = s[i]
  <2>1. /\ f \in Seq(S) /\ Len(f) = (IF 1 <= n THEN n - 1 + 1 ELSE 0)
        /\ \A i \in 1 .. n - 1 + 1 : f[i] = s[1 + i - 1]
    BY <1>2, <1>3, SubSeqProperties
  <2> QED BY <2>1
<1>5. Front(s) = f
  BY <1>1, <1>3 DEF Front
<1> QED BY <1>1, <1>4, <1>5

\* A range, longer by a port.
Longer(r, p) == [r EXCEPT !.end = p, !.count = @ + 1]
LEMMA RangeExtended ==
  ASSUME NEW r \in MergedRanges, NEW p \in 0 .. MaxPort, NEW x, x = Longer(r, p)
  PROVE  /\ x \in MergedRanges /\ x.group = r.group /\ x.outcome = r.outcome
         /\ x.start = r.start /\ x.end = p /\ x.count = r.count + 1
<1>1. PICK n \in Nat : n = r.count + 1
  BY DEF MergedRanges
<1>2. PICK y : y = [r EXCEPT !.end = p]
  OBVIOUS
<1>3. /\ y \in MergedRanges /\ y.group = r.group /\ y.outcome = r.outcome
      /\ y.start = r.start /\ y.end = p /\ y.count = r.count
  BY <1>2 DEF MergedRanges
<1>4. x = [y EXCEPT !.count = n]
  BY <1>1, <1>2, <1>3 DEF Longer
<1> QED BY <1>1, <1>3, <1>4 DEF MergedRanges

LEMMA MergeStep ==
  ASSUME ReportType, Report!Merge
  PROVE  \E e \in Entries :
           /\ taken < Len(results) /\ taken' = taken + 1 /\ results' = results
           /\ e = Report!sorted[taken + 1]
           /\ merged' \in Seq(MergedRanges)
           /\ Extends(e) \/ StartsRange(e)
<1>1. taken < Len(results) /\ taken' = taken + 1 /\ results' = results
  BY DEF Report!Merge
<1>2. PICK e : e = Report!sorted[taken + 1]
  OBVIOUS
<1>3. e \in Entries
  <2>1. taken + 1 \in 1 .. Len(results)
    BY <1>1 DEF ReportType
  <2> QED BY <1>2, <2>1, SortedTyped DEF ReportType
<1>4. e.group \in Groups /\ e.port \in 0 .. MaxPort /\ e.outcome \in Outcomes
  BY <1>3, EntriesTyped
<1>5. merged \in Seq(MergedRanges)
  BY DEF ReportType
<1>6. CASE merged # <<>> /\ Report!Continues(Last(merged), e)
  <2>1. PICK last : last = merged[Len(merged)]
    OBVIOUS
  <2>2. last \in MergedRanges /\ Last(merged) = last /\ Len(merged) # 0
    BY <1>5, <1>6, <2>1 DEF Last
  <2>3. last.group = e.group /\ last.outcome = e.outcome /\ last.end + 1 = e.port
    BY <1>6, <2>2 DEF Report!Continues
  <2>4. PICK longer : longer = Longer(last, e.port)
    OBVIOUS
  <2>5. /\ longer \in MergedRanges
        /\ longer.group = last.group /\ longer.outcome = last.outcome
        /\ longer.start = last.start /\ longer.end = e.port /\ longer.count = last.count + 1
    BY <1>4, <2>2, <2>4, RangeExtended
  <2>6. merged' = Append(Front(merged), longer)
    BY <1>2, <1>6, <2>2, <2>4
    DEF Report!Merge, Report!Last, Report!Front, Last, Front, Longer
  <2>7. /\ merged' \in Seq(MergedRanges) /\ Len(merged') = Len(merged)
        /\ merged'[Len(merged)] = longer
        /\ \A m \in 1 .. Len(merged) - 1 : merged'[m] = merged[m]
    <3>1. PICK R, s : R = MergedRanges /\ s = Append(Front(merged), longer)
      OBVIOUS
    <3>2. merged \in Seq(R) /\ merged # <<>> /\ longer \in R
      BY <1>5, <1>6, <2>5, <3>1
    <3>3. /\ s \in Seq(R) /\ Len(s) = Len(merged) /\ s[Len(merged)] = longer
          /\ \A m \in 1 .. Len(merged) - 1 : s[m] = merged[m]
      BY <3>1, <3>2, LastReplaced
    <3> QED BY <2>6, <3>1, <3>3
  <2>8. Extends(e)
    BY <2>1, <2>2, <2>3, <2>5, <2>7 DEF Extends
  <2> QED BY <1>1, <1>2, <1>3, <2>7, <2>8
<1>7. CASE ~(merged # <<>> /\ Report!Continues(Last(merged), e))
  <2>1. PICK new : new = [group |-> e.group, outcome |-> e.outcome,
                          start |-> e.port, end |-> e.port, count |-> 1]
    OBVIOUS
  <2>2. new \in MergedRanges
    BY <1>4, <2>1 DEF MergedRanges
  <2>3. merged' = Append(merged, new)
    BY <1>2, <1>7, <2>1 DEF Report!Merge, Report!Last, Last
  <2>4. /\ merged' \in Seq(MergedRanges) /\ Len(merged') = Len(merged) + 1
        /\ merged'[Len(merged) + 1] = new
        /\ \A m \in 1 .. Len(merged) : merged'[m] = merged[m]
    BY <1>5, <2>2, <2>3, AppendProperties
  <2>5. ASSUME NEW last, last = merged[Len(merged)], Len(merged) # 0
        PROVE  ~(last.group = e.group /\ last.outcome = e.outcome /\ last.end + 1 = e.port)
    <3>1. merged # <<>> /\ Last(merged) = last /\ last \in MergedRanges
      BY <1>5, <2>5 DEF Last
    <3>2. last.end \in 0 .. MaxPort
      BY <3>1 DEF MergedRanges
    <3>3. last.end + 1 = e.port => last.end # MaxPort
      BY <1>4, <3>2
    <3> QED BY <1>7, <3>1, <3>3 DEF Report!Continues
  <2>6. StartsRange(e)
    BY <2>1, <2>4, <2>5 DEF StartsRange
  <2> QED BY <1>1, <1>2, <1>3, <2>4, <2>6
<1> QED BY <1>6, <1>7

LEMMA SortedKept ==
  ASSUME results' = results
  PROVE  Report!sorted' = Report!sorted
BY DEF Report!sorted, Report!Rank, Report!Before

LEMMA CoverFinite ==
  ASSUME ReportType, NEW O, NEW g, NEW p
  PROVE  IsFiniteSet(CoverOf(O, g, p)) /\ IsFiniteSet(TakenOf(O, g, p))
<1>1. DOMAIN merged = 1 .. Len(merged) /\ Len(merged) \in Int /\ taken \in Int
  BY DEF ReportType
<1>2. IsFiniteSet(1 .. Len(merged)) /\ IsFiniteSet(1 .. taken)
  BY <1>1, FS_Interval
<1>3. CoverOf(O, g, p) \in SUBSET (1 .. Len(merged)) /\ TakenOf(O, g, p) \in SUBSET (1 .. taken)
  BY <1>1 DEF CoverOf, TakenOf
<1> QED BY <1>2, <1>3, FS_Subset

\* Each round counts one result more, and covers it.
LEMMA MergeCounts ==
  ASSUME ReportType, RangesSized, RangesCount, Report!Merge
  PROVE  RangesSized' /\ RangesCount'
<1>1. PICK e \in Entries :
        /\ taken < Len(results) /\ taken' = taken + 1 /\ results' = results
        /\ e = Report!sorted[taken + 1]
        /\ merged' \in Seq(MergedRanges)
        /\ Extends(e) \/ StartsRange(e)
  BY MergeStep
<1>2. PICK n \in Nat : n = Len(merged)
  BY DEF ReportType
<1>3. PICK t \in Nat : t = taken
  BY DEF ReportType
<1>4. /\ DOMAIN merged = 1 .. n
      /\ \A m \in 1 .. n : merged[m] \in MergedRanges
      /\ DOMAIN merged' = 1 .. Len(merged')
      /\ \A m \in DOMAIN merged' : merged'[m] \in MergedRanges
  BY <1>1, <1>2 DEF ReportType
<1>5. e.port \in 0 .. MaxPort /\ e.outcome \in Outcomes
  BY EntriesTyped
<1>6. \A m \in 1 .. n : /\ merged[m].start \in Nat /\ merged[m].end \in Nat
                         /\ merged[m].start <= merged[m].end
                         /\ merged[m].count = merged[m].end - merged[m].start + 1
  <2> SUFFICES ASSUME NEW m \in 1 .. n
               PROVE  /\ merged[m].start \in Nat /\ merged[m].end \in Nat
                      /\ merged[m].start <= merged[m].end
                      /\ merged[m].count = merged[m].end - merged[m].start + 1
    OBVIOUS
  <2>1. merged[m] \in MergedRanges
    BY <1>4
  <2>2. merged[m].start \in Nat /\ merged[m].end \in Nat
    BY <2>1 DEF MergedRanges
  <2> QED BY <2>2, <1>4 DEF RangesSized
<1>7. RangesSized'
  <2> SUFFICES ASSUME NEW m \in DOMAIN merged'
               PROVE  /\ merged'[m].start <= merged'[m].end
                      /\ merged'[m].count = merged'[m].end - merged'[m].start + 1
    BY DEF RangesSized
  <2>1. CASE Extends(e)
    <3>1. Len(merged') = n /\ n # 0 /\ m \in 1 .. n
      BY <2>1, <1>2, <1>4 DEF Extends
    <3>2. CASE m # n
      <4>1. m \in 1 .. n - 1
        BY <3>1, <3>2
      <4>2. merged'[m] = merged[m]
        BY <4>1, <2>1, <1>2 DEF Extends
      <4> QED BY <3>1, <4>2, <1>6
    <3>3. CASE m = n
      <4>1. /\ merged'[m].start = merged[m].start /\ merged'[m].end = e.port
            /\ merged'[m].count = merged[m].count + 1 /\ merged[m].end + 1 = e.port
        BY <2>1, <3>3, <1>2 DEF Extends
      <4>2. PICK a \in Nat, b \in Nat :
              a = merged[m].start /\ b = merged[m].end /\ a <= b /\ merged[m].count = b - a + 1
        BY <3>1, <1>6
      <4>3. PICK x : x = merged'[m]
        OBVIOUS
      <4>4. x.start = a /\ x.end = b + 1 /\ x.count = b - a + 2
        BY <4>1, <4>2, <4>3
      <4>5. a <= b + 1
        BY <4>2
      <4>6. b - a + 2 = (b + 1) - a + 1
        OBVIOUS
      <4> QED BY <4>3, <4>4, <4>5, <4>6
    <3> QED BY <3>2, <3>3
  <2>2. CASE StartsRange(e)
    <3>1. Len(merged') = n + 1 /\ m \in 1 .. n + 1
      BY <2>2, <1>2, <1>4 DEF StartsRange
    <3>2. CASE m # n + 1
      <4>1. m \in 1 .. n
        BY <3>1, <3>2
      <4>2. merged'[m] = merged[m]
        BY <4>1, <2>2, <1>2 DEF StartsRange
      <4> QED BY <4>1, <4>2, <1>6
    <3>3. CASE m = n + 1
      <4>1. /\ merged'[m].start = e.port /\ merged'[m].end = e.port
            /\ merged'[m].count = 1
        BY <2>2, <3>3, <1>2 DEF StartsRange
      <4> QED BY <4>1, <1>5
    <3> QED BY <3>2, <3>3
  <2> QED BY <1>1, <2>1, <2>2
<1>8. RangesCount'
  <2> SUFFICES ASSUME NEW O \in SUBSET Outcomes, NEW g \in Nat, NEW p \in 0 .. MaxPort
               PROVE  Cardinality(CoverOf(O, g, p)') = Cardinality(TakenOf(O, g, p)')
    BY DEF RangesCount
  <2> DEFINE Hits == e.group = g /\ e.outcome \in O /\ e.port = p
  <2>1. PICK C, D, T : C = CoverOf(O, g, p) /\ D = CoverOf(O, g, p)' /\ T = TakenOf(O, g, p)
    OBVIOUS
  <2>2. IsFiniteSet(C) /\ IsFiniteSet(T) /\ Cardinality(C) = Cardinality(T)
    BY <2>1, CoverFinite DEF RangesCount
  <2>3. /\ t + 1 \notin T
        /\ Hits => TakenOf(O, g, p)' = T \cup {t + 1}
        /\ ~Hits => TakenOf(O, g, p)' = T
    <3>1. Report!sorted' = Report!sorted /\ e = Report!sorted[t + 1]
      BY <1>1, <1>3, SortedKept
    <3>2. TakenOf(O, g, p)' = {k \in 1 .. t + 1 : /\ Report!sorted[k].group = g
                                                  /\ Report!sorted[k].outcome \in O
                                                  /\ Report!sorted[k].port = p}
      BY <1>1, <1>3, <3>1 DEF TakenOf
    <3>3. 1 .. t + 1 = (1 .. t) \cup {t + 1}
      OBVIOUS
    <3>4. t + 1 \notin 1 .. t
      OBVIOUS
    <3> QED BY <1>3, <2>1, <3>1, <3>2, <3>3, <3>4 DEF TakenOf
  <2>4. \E new : /\ new \notin C
                 /\ Hits => D = C \cup {new}
                 /\ ~Hits => D = C
    <3>1. \A m : m \in C <=> /\ m \in 1 .. n
                             /\ merged[m].group = g /\ merged[m].outcome \in O
                             /\ p \in merged[m].start .. merged[m].end
      BY <1>4, <2>1 DEF CoverOf
    <3>2. \A m : m \in D <=>
            /\ m \in 1 .. Len(merged')
            /\ merged'[m].group = g /\ merged'[m].outcome \in O
            /\ p \in merged'[m].start .. merged'[m].end
      BY <1>4, <2>1 DEF CoverOf
    <3>3. CASE Extends(e)
      <4>1. /\ n \in 1 .. n /\ Len(merged') = n
            /\ \A m \in 1 .. n - 1 : merged'[m] = merged[m]
            /\ merged[n].group = e.group /\ merged[n].outcome = e.outcome
            /\ merged[n].end + 1 = e.port
            /\ merged'[n].group = e.group /\ merged'[n].outcome = e.outcome
            /\ merged'[n].start = merged[n].start /\ merged'[n].end = e.port
        BY <3>3, <1>2 DEF Extends
      <4>2. PICK a \in Nat, b \in Nat : a = merged[n].start /\ b = merged[n].end /\ a <= b
        BY <4>1, <1>6
      <4>3. /\ n \in C <=> e.group = g /\ e.outcome \in O /\ a <= p /\ p <= b
            /\ n \in D <=> e.group = g /\ e.outcome \in O /\ a <= p /\ p <= b + 1
        <5>1. p \in a .. b <=> a <= p /\ p <= b
          BY <4>2
        <5>2. p \in a .. b + 1 <=> a <= p /\ p <= b + 1
          BY <4>2
        <5>3. n \in C <=> e.group = g /\ e.outcome \in O /\ p \in a .. b
          BY <3>1, <4>1, <4>2
        <5>4. n \in D <=> e.group = g /\ e.outcome \in O /\ p \in a .. b + 1
          BY <3>2, <4>1, <4>2
        <5> QED BY <5>1, <5>2, <5>3, <5>4
      <4>4. Hits <=> e.group = g /\ e.outcome \in O /\ p = b + 1
        BY <4>1, <4>2
      <4>5. \A m : m # n => (m \in C <=> m \in D)
        <5> SUFFICES ASSUME NEW m \in 1 .. n, m # n PROVE m \in C <=> m \in D
          BY <3>1, <3>2, <4>1
        <5>1. m \in 1 .. n - 1
          OBVIOUS
        <5> QED BY <5>1, <3>1, <3>2, <4>1
      <4>6. CASE Hits
        <5>1. n \notin C /\ n \in D
          BY <4>2, <4>3, <4>4, <4>6
        <5>2. D = C \cup {n}
          BY <5>1, <4>5
        <5> QED BY <5>1, <5>2, <4>6
      <4>7. CASE ~Hits
        <5>1. n \in C <=> n \in D
          BY <4>2, <4>3, <4>4, <4>7
        <5>2. D = C
          <6>1. \A m : m \in C <=> m \in D
            BY <5>1, <4>5
          <6> QED BY <6>1
        <5>3. n + 1 \notin C
          BY <3>1
        <5> QED BY <5>2, <5>3, <4>7
      <4> QED BY <4>6, <4>7
    <3>4. CASE StartsRange(e)
      <4>1. /\ Len(merged') = n + 1
            /\ \A m \in 1 .. n : merged'[m] = merged[m]
            /\ merged'[n + 1].group = e.group /\ merged'[n + 1].outcome = e.outcome
            /\ merged'[n + 1].start = e.port /\ merged'[n + 1].end = e.port
        BY <3>4, <1>2 DEF StartsRange
      <4>2. n + 1 \notin C /\ n + 1 \in 1 .. n + 1
        BY <3>1
      <4>3. n + 1 \in D <=> Hits
        BY <3>2, <4>1, <4>2, <1>5
      <4>4. \A m : m # n + 1 => (m \in C <=> m \in D)
        <5> SUFFICES ASSUME NEW m \in 1 .. n + 1, m # n + 1
                     PROVE  m \in C <=> m \in D
          <6>1. \A m \in 1 .. n : m \in 1 .. n + 1
            OBVIOUS
          <6> QED BY <3>1, <3>2, <4>1, <6>1
        <5>1. m \in 1 .. n
          OBVIOUS
        <5> QED BY <5>1, <3>1, <3>2, <4>1
      <4>5. CASE Hits
        <5>1. D = C \cup {n + 1}
          BY <4>2, <4>3, <4>4, <4>5
        <5> QED BY <5>1, <4>2, <4>5
      <4>6. CASE ~Hits
        <5>1. D = C
          <6>1. \A m : m \in C <=> m \in D
            BY <4>2, <4>3, <4>4, <4>6
          <6> QED BY <6>1
        <5> QED BY <5>1, <4>2, <4>6
      <4> QED BY <4>5, <4>6
    <3> QED BY <1>1, <3>3, <3>4
  <2>5. PICK new : /\ new \notin C
                   /\ Hits => D = C \cup {new}
                   /\ ~Hits => D = C
    BY <2>4
  <2> HIDE DEF Hits
  <2>6. CASE Hits
    <3>1. /\ Cardinality(C \cup {new}) = Cardinality(C) + 1
          /\ Cardinality(T \cup {t + 1}) = Cardinality(T) + 1
      BY <2>2, <2>3, <2>5, FS_AddElement
    <3> QED BY <2>1, <2>2, <2>3, <2>5, <2>6, <3>1
  <2>7. CASE ~Hits
    BY <2>1, <2>2, <2>3, <2>5, <2>7
  <2> QED BY <2>6, <2>7
<1> QED BY <1>7, <1>8

-----------------------------------------------------------------------------
\* The places in the plan of the batches executed so far; the results
\* correspond to them one to one, each to its test.
ResultSlots == {s \in (1 .. executed) \X (Nat \ {0}) : s[2] <= Len(plan[s[1]])}
GroupAt(s) == GroupOf(plan[s[1]][s[2]].proto, plan[s[1]][s[2]].transport, plan[s[1]][s[2]].dir)
Answers(f) ==
  /\ f \in [1 .. Len(results) -> ResultSlots]
  /\ \A k, l \in 1 .. Len(results) : f[k] = f[l] => k = l
  /\ \A s \in ResultSlots : \E k \in 1 .. Len(results) : f[k] = s
  /\ \A k \in 1 .. Len(results) :
       /\ results[k].group = GroupAt(f[k])
       /\ results[k].port = plan[f[k][1]][f[k][2]].port
ResultsAnswer == \E f : Answers(f)

\* When the loops are through nothing of the plan changes any more.
LEMMA PlanStands ==
  ASSUME PlanInv, Planned, Next
  PROVE  UNCHANGED vars
<1>1. stage = "plan" /\ ti > Len(tests) /\ dirs = <<>> /\ ti \in Nat /\ Len(tests) \in Nat
  BY DEF PlanInv, LoopInv, LoopsPlaced, TypeInv, Planned
<1>2. ~(ti <= Len(tests))
  BY <1>1
<1> QED
  BY <1>1, <1>2
  DEF Next, Start, RejectsCommandLine, ListsTests, client_tls_connect_Fails, StartsClient,
      Accepted, Validate, Configured, EnterRange, PushPort, EndDirection, NextTest, Over

\* A test of the plan has a name, a transport, a direction and a port that the
\* report knows.
LEMMA PlanTested ==
  ASSUME PlanInv, Planned, NEW b \in 1 .. Len(plan), NEW k \in 1 .. Len(plan[b]),
         NEW e, e = plan[b][k]
  PROVE  /\ e.proto \in Registered /\ e.transport \in Transports /\ e.dir \in Dirs
         /\ e.port \in 0 .. MaxPort
         /\ <<b, k>> \in Slots /\ At(<<b, k>>) = e
<1> USE DEF PlanInv, LoopInv
<1>1. plan \in Seq(Seq(TestEntries))
  BY DEF TypeInv
<1>2. plan[b] \in Seq(TestEntries) /\ DOMAIN plan = 1 .. Len(plan)
  BY <1>1
<1>3. DOMAIN plan[b] = 1 .. Len(plan[b]) /\ e \in TestEntries
  BY <1>2
<1>4. e.transport \in Transports /\ e.dir \in Dirs
  BY <1>3 DEF TestEntries, Dirs
<1>5. PICK s : s = <<b, k>>
  OBVIOUS
<1>6. s \in Slots /\ At(s) = e
  <2>1. s \in {b} \X DOMAIN plan[b] /\ b \in DOMAIN plan /\ s[1] = b /\ s[2] = k
    BY <1>2, <1>3, <1>5
  <2>2. s \in UNION {{c} \X DOMAIN plan[c] : c \in DOMAIN plan}
    BY <2>1
  <2> QED BY <2>1, <2>2, AllTraced
<1>7. PICK f : Traces(f)
  BY DEF PlanTraced
<1>8. PICK a \in Asked : KeyOf(e) = AskedKey(a)
  BY <1>6, <1>7, AllTraced DEF Traces
<1>9. e.proto = tests[a.t] /\ e.port = a.p
  BY <1>8 DEF KeyOf, AskedKey, Key
<1>10. /\ a.t \in DOMAIN tests /\ a.p \in Nat /\ a.r \in DOMAIN ranges
       /\ a.p <= ranges[a.r].end
  BY DEF Asked
<1>11. ranges[a.r] \in PortRanges
  BY <1>10 DEF TypeInv
<1>12. e.port \in 0 .. MaxPort
  BY <1>9, <1>10, <1>11 DEF PortRanges
<1>13. e.proto \in Registered
  BY <1>9, <1>10 DEF TestsValidated, Accepts, Planned
<1> QED BY <1>4, <1>5, <1>6, <1>12, <1>13

\* The results of a batch follow those of the batches before.
LEMMA ExecutedKeeps ==
  ASSUME PlanInv, ReportType, ResultsAnswer, Executed
  PROVE  ReportType' /\ ResultsAnswer' /\ taken = 0
<1>1. /\ Planned /\ executed < Len(plan) /\ executed' = executed + 1
      /\ taken' = taken /\ merged' = merged /\ UNCHANGED vars
  BY DEF Executed, Report!PushResults
<1>2. PICK b \in Nat \ {0} : b = executed + 1 /\ b \in 1 .. Len(plan)
  BY <1>1 DEF ReportType, PlanInv, LoopInv, TypeInv
<1>3. PICK tested : tested = plan[executed + 1] /\ tested = plan[b]
  BY <1>2
<1>4. /\ plan \in Seq(Seq(TestEntries)) /\ tested \in Seq(TestEntries)
      /\ DOMAIN tested = 1 .. Len(tested)
  BY <1>2, <1>3 DEF PlanInv, LoopInv, TypeInv
<1>5. PICK m \in Nat : m = Len(tested)
  BY <1>4, LenProperties
<1>6. PICK outcome \in [DOMAIN tested -> Outcomes] :
        results' = results \o
          [k \in DOMAIN tested |->
             Report!Entry(GroupOf(tested[k].proto, tested[k].transport, tested[k].dir),
                          tested[k].port, outcome[k])]
  <2> DEFINE pushed == plan[executed + 1]
  <2>1. \E outcome \in [DOMAIN pushed -> Outcomes] :
          results' = results \o
            [k \in DOMAIN pushed |->
               Report!Entry(GroupOf(pushed[k].proto, pushed[k].transport, pushed[k].dir),
                            pushed[k].port, outcome[k])]
    BY DEF Executed, Report!PushResults
  <2>2. tested = pushed
    BY <1>3
  <2> HIDE DEF pushed
  <2> QED BY <2>1, <2>2
<1>7. PICK entries :
        entries = [k \in 1 .. m |->
                     Report!Entry(GroupOf(tested[k].proto, tested[k].transport, tested[k].dir),
                                  tested[k].port, outcome[k])]
  OBVIOUS
<1>8. results' = results \o entries
  BY <1>4, <1>5, <1>6, <1>7
<1>9. ASSUME NEW k \in 1 .. m
      PROVE  /\ entries[k] \in Entries
             /\ entries[k].group = GroupAt(<<b, k>>) /\ entries[k].port = tested[k].port
  <2>1. PICK e : e = tested[k]
    OBVIOUS
  <2>2. /\ e.proto \in Registered /\ e.transport \in Transports /\ e.dir \in Dirs
        /\ e.port \in 0 .. MaxPort
    BY <1>1, <1>2, <1>3, <1>5, <2>1, PlanTested
  <2>3. GroupOf(e.proto, e.transport, e.dir) \in Groups
    BY <2>2 DEF Groups, Transports, Dirs
  <2>4. outcome[k] \in Outcomes
    BY <1>4, <1>5
  <2>5. entries[k] = Report!Entry(GroupOf(e.proto, e.transport, e.dir), e.port, outcome[k])
    BY <1>7, <2>1
  <2>6. entries[k] \in Entries
    BY <2>2, <2>3, <2>4, <2>5 DEF Entries, Report!Entries, Groups
  <2>7. GroupAt(<<b, k>>) = GroupOf(e.proto, e.transport, e.dir)
    BY <1>3, <2>1 DEF GroupAt
  <2> QED BY <2>1, <2>5, <2>6, <2>7 DEF Report!Entry
<1>10. entries \in Seq(Entries) /\ Len(entries) = m
  <2>1. entries \in [1 .. m -> Entries]
    BY <1>7, <1>9
  <2> QED BY <2>1
<1>11. PICK n \in Nat : n = Len(results)
  BY DEF ReportType
<1>12. /\ results' \in Seq(Entries) /\ Len(results') = n + m
       /\ \A k \in 1 .. n : results'[k] = results[k]
       /\ \A k \in 1 .. m : results'[n + k] = entries[k]
  <2>1. results \in Seq(Entries)
    BY DEF ReportType
  <2>2. /\ results' \in Seq(Entries) /\ Len(results') = n + m
        /\ \A i \in 1 .. n + m : results'[i] = IF i <= n THEN results[i] ELSE entries[i - n]
    <3>1. PICK r, q : r = results /\ q = results'
      OBVIOUS
    <3>2. r \in Seq(Entries) /\ q = r \o entries /\ Len(r) = n
      BY <3>1, <2>1, <1>8, <1>11
    <3>3. /\ q \in Seq(Entries) /\ Len(q) = n + m
          /\ \A i \in 1 .. n + m : q[i] = IF i <= n THEN r[i] ELSE entries[i - n]
      <4>0. r \in Seq(Entries) /\ entries \in Seq(Entries)
        BY <3>2, <1>10
      <4>1. r \o entries \in Seq(Entries) /\ Len(r \o entries) = Len(r) + Len(entries)
        BY <4>0
      <4>2. \A i \in 1 .. Len(r) + Len(entries) :
              (r \o entries)[i] = IF i <= Len(r) THEN r[i] ELSE entries[i - Len(r)]
        BY <4>0
      <4> QED BY <4>1, <4>2, <3>2, <1>10
    <3> QED BY <3>1, <3>3
  <2>3. ASSUME NEW k \in 1 .. n PROVE results'[k] = results[k]
    <3>1. k \in 1 .. n + m /\ k <= n
      OBVIOUS
    <3> QED BY <2>2, <3>1
  <2>4. ASSUME NEW k \in 1 .. m PROVE results'[n + k] = entries[k]
    <3>1. n + k \in 1 .. n + m /\ ~(n + k <= n) /\ (n + k) - n = k
      OBVIOUS
    <3> QED BY <2>2, <3>1
  <2> QED BY <2>2, <2>3, <2>4
<1>13. taken = 0
  BY <1>1, <1>2 DEF ReportType
<1>14. ReportType'
  <2>1. executed' \in 0 .. Len(plan') /\ Planned' /\ executed' # 0
    BY <1>1, <1>2 DEF Planned, vars, config, loops
  <2>2. taken' = 0 /\ taken' \in 0 .. Len(results') /\ merged' = <<>>
    BY <1>1, <1>12, <1>13 DEF ReportType
  <2>3. merged' \in Seq(MergedRanges)
    BY <1>1 DEF ReportType
  <2> QED BY <1>12, <2>1, <2>2, <2>3 DEF ReportType
<1>15. ResultsAnswer'
  <2>1. PICK f : Answers(f)
    BY DEF ResultsAnswer
  <2>2. PICK g : g = [k \in 1 .. n + m |-> IF k <= n THEN f[k] ELSE <<b, k - n>>]
    OBVIOUS
  <2>3. plan' = plan
    BY <1>1 DEF vars, loops
  <2>4. /\ \A s \in ResultSlots : s \in ResultSlots' /\ s[1] # b
        /\ \A k \in 1 .. m : <<b, k>> \in ResultSlots'
        /\ \A s \in ResultSlots' : s \in ResultSlots \/ \E k \in 1 .. m : s = <<b, k>>
    <3>1. PICK x \in Nat : x = executed /\ b = x + 1
      BY <1>2 DEF ReportType
    <3>2. ResultSlots' = {s \in (1 .. b) \X (Nat \ {0}) : s[2] <= Len(plan[s[1]])}
      BY <1>1, <1>2, <2>3 DEF ResultSlots
    <3>3. ResultSlots = {s \in (1 .. x) \X (Nat \ {0}) : s[2] <= Len(plan[s[1]])}
      BY <3>1 DEF ResultSlots
    <3>4. ASSUME NEW s \in ResultSlots PROVE s \in ResultSlots' /\ s[1] # b
      BY <3>1, <3>2, <3>3
    <3>5. ASSUME NEW k \in 1 .. m PROVE <<b, k>> \in ResultSlots'
      BY <1>3, <1>5, <3>1, <3>2
    <3>6. ASSUME NEW s \in ResultSlots' PROVE s \in ResultSlots \/ \E k \in 1 .. m : s = <<b, k>>
      <4>1. s \in (1 .. b) \X (Nat \ {0}) /\ s[2] <= Len(plan[s[1]])
        BY <3>2
      <4>2. CASE s[1] = b
        <5>1. s[2] \in 1 .. m /\ s = <<b, s[2]>>
          BY <4>1, <4>2, <1>3, <1>5
        <5> QED BY <5>1
      <4>3. CASE s[1] # b
        <5>1. s[1] \in 1 .. x
          BY <4>1, <4>3, <3>1
        <5> QED BY <4>1, <5>1, <3>3
      <4> QED BY <4>2, <4>3
    <3> QED BY <3>4, <3>5, <3>6
  <2>5. \A k \in 1 .. n + m :
          \/ k \in 1 .. n /\ g[k] = f[k] /\ f[k] \in ResultSlots
          \/ k - n \in 1 .. m /\ ~(k \in 1 .. n) /\ g[k] = <<b, k - n>>
    <3> SUFFICES ASSUME NEW k \in 1 .. n + m
                 PROVE  \/ k \in 1 .. n /\ g[k] = f[k] /\ f[k] \in ResultSlots
                        \/ k - n \in 1 .. m /\ ~(k \in 1 .. n) /\ g[k] = <<b, k - n>>
      OBVIOUS
    <3>1. CASE k <= n
      <4>1. k \in 1 .. n /\ g[k] = f[k]
        BY <3>1, <2>2
      <4>2. f[k] \in ResultSlots
        BY <4>1, <2>1, <1>11 DEF Answers
      <4> QED BY <4>1, <4>2
    <3>2. CASE ~(k <= n)
      <4>1. k - n \in 1 .. m /\ ~(k \in 1 .. n)
        BY <3>2
      <4> QED BY <4>1, <3>2, <2>2
    <3> QED BY <3>1, <3>2
  <2>6. g \in [1 .. n + m -> ResultSlots']
    BY <2>2, <2>4, <2>5
  <2>7. ASSUME NEW k \in 1 .. n + m, NEW l \in 1 .. n + m, g[k] = g[l] PROVE k = l
    <3>1. CASE k \in 1 .. n /\ l \in 1 .. n
      BY <3>1, <2>1, <2>5, <2>7, <1>11 DEF Answers
    <3>2. CASE ~(k \in 1 .. n) /\ ~(l \in 1 .. n)
      <4>1. k - n = l - n
        BY <3>2, <2>5, <2>7
      <4> QED BY <4>1
    <3>3. CASE k \in 1 .. n /\ ~(l \in 1 .. n)
      BY <3>3, <2>4, <2>5, <2>7
    <3>4. CASE ~(k \in 1 .. n) /\ l \in 1 .. n
      BY <3>4, <2>4, <2>5, <2>7
    <3> QED BY <3>1, <3>2, <3>3, <3>4
  <2>8. ASSUME NEW s \in ResultSlots' PROVE \E k \in 1 .. n + m : g[k] = s
    <3>1. CASE s \in ResultSlots
      <4>1. PICK k \in 1 .. n : f[k] = s
        BY <3>1, <2>1, <1>11 DEF Answers
      <4>2. k \in 1 .. n + m /\ g[k] = s
        BY <4>1, <2>2
      <4> QED BY <4>2
    <3>2. CASE s \notin ResultSlots
      <4>1. PICK k \in 1 .. m : s = <<b, k>>
        BY <3>2, <2>4
      <4>2. n + k \in 1 .. n + m /\ ~(n + k <= n) /\ (n + k) - n = k
        OBVIOUS
      <4>3. g[n + k] = s
        BY <4>1, <4>2, <2>2
      <4> QED BY <4>2, <4>3
    <3> QED BY <3>1, <3>2
  <2>9. ASSUME NEW k \in 1 .. n + m
        PROVE  /\ results'[k].group = GroupAt(g[k])
               /\ results'[k].port = plan[g[k][1]][g[k][2]].port
    <3>1. CASE k \in 1 .. n
      BY <3>1, <1>11, <1>12, <2>1, <2>5 DEF Answers
    <3>2. CASE ~(k \in 1 .. n)
      <4>1. PICK j \in 1 .. m : j = k - n
        BY <3>2, <2>5
      <4>2. g[k] = <<b, j>> /\ k = n + j
        BY <3>2, <4>1, <2>5
      <4>3. results'[k] = entries[j]
        BY <4>2, <1>12
      <4> QED BY <4>2, <4>3, <1>3, <1>9
    <3> QED BY <3>1, <3>2
  <2>10. \A s : GroupAt(s)' = GroupAt(s)
    <3>1. \A name, transport, dir : GroupOf(name, transport, dir)' = GroupOf(name, transport, dir)
      BY DEF GroupOf, Index
    <3> QED BY <2>3 DEF GroupAt, GroupOf, Index
  <2>11. Answers(g)'
    BY <1>12, <2>3, <2>6, <2>7, <2>8, <2>9, <2>10 DEF Answers
  <2> QED BY <2>11 DEF ResultsAnswer
<1> QED BY <1>13, <1>14, <1>15

ReportInv == PlanInv /\ ReportType /\ ResultsAnswer /\ RangesSized /\ RangesCount

LEMMA GroupsKept == \A name, transport, dir : GroupOf(name, transport, dir)' = GroupOf(name, transport, dir)
BY DEF GroupOf, Index

LEMMA AnswersKept ==
  ASSUME ResultsAnswer, results' = results, executed' = executed,
         plan' = plan \/ (executed = 0 /\ results = <<>>)
  PROVE  ResultsAnswer'
<1>1. PICK f : Answers(f)
  BY DEF ResultsAnswer
<1>2. CASE plan' = plan
  <2>1. ResultSlots' = ResultSlots /\ \A s : GroupAt(s)' = GroupAt(s)
    BY <1>2 DEF ResultSlots, GroupAt, GroupOf, Index
  <2>2. Answers(f)'
    BY <1>1, <1>2, <2>1 DEF Answers
  <2> QED BY <2>2 DEF ResultsAnswer
<1>3. CASE executed = 0 /\ results = <<>>
  <2>1. ResultSlots' = {} /\ 1 .. Len(results') = {}
    BY <1>3 DEF ResultSlots
  <2>2. Answers([k \in {} |-> k])'
    BY <2>1 DEF Answers
  <2> QED BY <2>2 DEF ResultsAnswer
<1> QED BY <1>2, <1>3

\* Nothing is merged while nothing is taken.
LEMMA NothingMerged ==
  ASSUME taken = 0, merged = <<>>
  PROVE  RangesSized /\ RangesCount
<1>1. DOMAIN merged = {}
  OBVIOUS
<1>2. \A O, g, p : CoverOf(O, g, p) = {} /\ TakenOf(O, g, p) = {}
  BY <1>1 DEF CoverOf, TakenOf
<1> QED BY <1>1, <1>2 DEF RangesSized, RangesCount

\* The ranges say the same of the same results.
LEMMA RangesKept ==
  ASSUME RangesSized, RangesCount, UNCHANGED <<results, taken, merged>>
  PROVE  RangesSized' /\ RangesCount'
<1>1. \A O, g, p : CoverOf(O, g, p)' = CoverOf(O, g, p) /\ TakenOf(O, g, p)' = TakenOf(O, g, p)
  BY SortedKept DEF CoverOf, TakenOf
<1> QED BY <1>1 DEF RangesSized, RangesCount

LEMMA ReportInvInit == ReportInit => ReportInv
<1> SUFFICES ASSUME ReportInit PROVE ReportInv
  OBVIOUS
<1>1. PlanInv
  BY PlanInvInit DEF ReportInit
<1>2. executed = 0 /\ results = <<>> /\ taken = 0 /\ merged = <<>> /\ plan = <<>>
  BY DEF ReportInit, Report!SummaryInit, Init
<1>3. <<>> \in Seq(Entries) /\ <<>> \in Seq(MergedRanges)
  OBVIOUS
<1>4. ReportType
  BY <1>2, <1>3 DEF ReportType
<1>5. ResultSlots = {} /\ 1 .. Len(results) = {}
  BY <1>2 DEF ResultSlots
<1>6. Answers([k \in {} |-> k])
  BY <1>5 DEF Answers
<1> QED BY <1>1, <1>2, <1>4, <1>6, NothingMerged DEF ReportInv, ResultsAnswer

LEMMA PlansKeeps ==
  ASSUME ReportInv, Next \/ UNCHANGED vars, UNCHANGED reportVars
  PROVE  ReportInv'
<1> USE DEF ReportInv
<1>1. PlanInv'
  BY PlanInductive
<1>2. UNCHANGED <<executed, results, taken, merged>>
  BY DEF reportVars
<1>3. Planned => UNCHANGED vars
  BY PlanStands
<1>4. ReportType' /\ ResultsAnswer'
  <2>1. CASE Planned
    <3>1. plan' = plan /\ Planned'
      BY <1>3, <2>1 DEF vars, loops, config, Planned
    <3>2. ReportType'
      BY <1>2, <2>1, <3>1 DEF ReportType
    <3> QED BY <1>2, <3>1, <3>2, AnswersKept
  <2>2. CASE ~Planned
    <3>1. executed = 0 /\ results = <<>> /\ taken = 0
      BY <2>2 DEF ReportType
    <3>2. Len(plan') \in Nat
      BY <1>1 DEF LoopInv, PlanInv, TypeInv
    <3>3. ReportType'
      BY <1>2, <3>1, <3>2 DEF ReportType
    <3> QED BY <1>2, <3>1, <3>3, AnswersKept
  <2> QED BY <2>1, <2>2
<1> QED BY <1>1, <1>2, <1>4, RangesKept

LEMMA MergesKeeps ==
  ASSUME ReportInv, Merges
  PROVE  ReportInv'
<1> USE DEF ReportInv
<1>1. Report!Merge /\ executed = Len(plan) /\ UNCHANGED vars /\ executed' = executed
  BY DEF Merges
<1>2. PICK e \in Entries :
        /\ taken < Len(results) /\ taken' = taken + 1 /\ results' = results
        /\ merged' \in Seq(MergedRanges)
  BY <1>1, MergeStep
<1>3. PlanInv'
  BY <1>1, PlanInductive
<1>4. plan' = plan /\ (Planned' <=> Planned)
  BY <1>1 DEF vars, config, loops, Planned
<1>5. ReportType'
  <2>1. taken' \in 0 .. Len(results') /\ taken' # 0
    BY <1>2 DEF ReportType
  <2> QED BY <1>1, <1>2, <1>4, <2>1 DEF ReportType
<1>6. ResultsAnswer'
  BY <1>1, <1>2, <1>4, AnswersKept
<1>7. RangesSized' /\ RangesCount'
  BY <1>1, MergeCounts
<1> QED BY <1>3, <1>5, <1>6, <1>7

LEMMA ReportInductive == ReportInv /\ [ReportNext]_allVars => ReportInv'
<1> SUFFICES ASSUME ReportInv, [ReportNext]_allVars PROVE ReportInv'
  OBVIOUS
<1>1. CASE Plans
  BY <1>1, PlansKeeps DEF Plans
<1>2. CASE Executed
  <2>1. UNCHANGED vars
    BY <1>2 DEF Executed
  <2>2. PlanInv'
    BY <2>1, PlanInductive DEF ReportInv
  <2>3. ReportType' /\ ResultsAnswer' /\ taken = 0
    BY <1>2, ExecutedKeeps DEF ReportInv
  <2>4. taken' = 0 /\ merged' = <<>>
    BY <1>2, <2>3 DEF Executed, Report!PushResults, ReportInv, ReportType
  <2>5. DOMAIN merged' = {} /\ \A O, g, p : CoverOf(O, g, p)' = {} /\ TakenOf(O, g, p)' = {}
    BY <2>4 DEF CoverOf, TakenOf
  <2>6. RangesSized' /\ RangesCount'
    BY <2>5 DEF RangesSized, RangesCount
  <2> QED BY <2>2, <2>3, <2>6 DEF ReportInv
<1>3. CASE Merges
  BY <1>3, MergesKeeps
<1>4. CASE UNCHANGED allVars
  BY <1>4, PlansKeeps DEF allVars
<1> QED BY <1>1, <1>2, <1>3, <1>4 DEF ReportNext

LEMMA ReportInvariant == ReportSpec => []ReportInv
<1>1. ReportInit => ReportInv
  BY ReportInvInit
<1>2. ReportInv /\ [ReportNext]_allVars => ReportInv'
  BY ReportInductive
<1> QED BY <1>1, <1>2, PTL DEF ReportSpec

-----------------------------------------------------------------------------
LEMMA CoveringIsCover ==
  ASSUME NEW entry
  PROVE  Report!Covering(entry) = CoverOf({entry.outcome}, entry.group, entry.port)
BY DEF Report!Covering, CoverOf

\* The ranges and the results taken are the same, result by result.
LEMMA Faithful == ReportInv => RangesFaithful
<1> SUFFICES ASSUME ReportInv PROVE RangesFaithful
  OBVIOUS
<1> USE DEF ReportInv
<1>1. PICK done : done = SubSeq(Report!sorted, 1, taken)
  OBVIOUS
<1>2. taken \in Nat /\ taken <= Len(results) /\ results \in Seq(Entries) /\ Len(results) \in Nat
  BY DEF ReportType
<1>3. DOMAIN done = 1 .. taken /\ \A k \in 1 .. taken : done[k] = Report!sorted[k]
  <2>1. \A i \in 1 .. taken : Report!sorted[i] \in Entries
    BY <1>2, SortedTyped
  <2>2. /\ done \in Seq(Entries)
        /\ Len(done) = IF 1 <= taken THEN taken - 1 + 1 ELSE 0
        /\ \A i \in 1 .. taken - 1 + 1 : done[i] = Report!sorted[1 + i - 1]
    BY <1>1, <1>2, <2>1, SubSeqProperties
  <2>3. Len(done) = taken
    BY <1>2, <2>2
  <2> QED BY <1>2, <2>2, <2>3
<1>4. ASSUME NEW entry \in Report!Entries
      PROVE  Report!Cardinality(Report!Covering(entry))
               = Report!Cardinality({k \in DOMAIN done : done[k] = entry})
  <2>1. entry \in Entries
    BY DEF Entries
  <2>2. /\ entry.group \in Nat /\ entry.port \in 0 .. MaxPort /\ entry.outcome \in Outcomes
        /\ entry = Report!Entry(entry.group, entry.port, entry.outcome)
    BY <2>1, EntriesTyped
  <2>3. ASSUME NEW k \in 1 .. taken
        PROVE  done[k] = entry <=> /\ Report!sorted[k].group = entry.group
                                   /\ Report!sorted[k].outcome \in {entry.outcome}
                                   /\ Report!sorted[k].port = entry.port
    <3>1. PICK e : e = Report!sorted[k]
      OBVIOUS
    <3>2. e \in Entries
      BY <1>2, <3>1, SortedTyped
    <3>3. e = Report!Entry(e.group, e.port, e.outcome)
      BY <3>2, EntriesTyped
    <3> QED BY <1>3, <2>2, <3>1, <3>3
  <2>4. {k \in DOMAIN done : done[k] = entry} = TakenOf({entry.outcome}, entry.group, entry.port)
    BY <1>3, <2>3 DEF TakenOf
  <2>5. {entry.outcome} \in SUBSET Outcomes
    BY <2>2
  <2>6. Cardinality(CoverOf({entry.outcome}, entry.group, entry.port))
          = Cardinality(TakenOf({entry.outcome}, entry.group, entry.port))
    BY <2>2, <2>5 DEF RangesCount
  <2> QED BY <2>4, <2>6, CoveringIsCover, SameCardinality
<1> QED BY <1>1, <1>4 DEF RangesFaithful, Report!RangesFaithful, RangesSized

\* merge_into_ranges, for any results of any scan and at every moment of its
\* loop, neither loses nor invents a result: a port is in as many ranges of its
\* group and outcome as it has results, and each range counts its ports.
THEOREM RangesAreFaithful == ReportSpec => []RangesFaithful
BY Faithful, ReportInvariant, PTL

\* A result that is sorted last is covered by a range of its outcome.
LEMMA ResultCovered ==
  ASSUME ReportInv, Report!AllMerged, NEW k \in DOMAIN results
  PROVE  \E m \in Report!Covering(results[k]) : merged[m].outcome = results[k].outcome
<1> USE DEF ReportInv
<1>1. PICK e : e = results[k]
  OBVIOUS
<1>2. results \in Seq(Entries) /\ taken = Len(results) /\ k \in 1 .. Len(results)
  BY DEF ReportType, Report!AllMerged
<1>3. e \in Entries
  BY <1>1, <1>2
<1>4. e.group \in Nat /\ e.port \in 0 .. MaxPort /\ {e.outcome} \in SUBSET Outcomes
  BY <1>3, EntriesTyped
<1>5. PICK place : Sorting(place)
  BY <1>2, SortedIsSorting
<1>6. PICK j \in 1 .. Len(results) : place[j] = k
  BY <1>2, <1>5 DEF Sorting
<1>7. Report!sorted[j] = e
  BY <1>1, <1>5, <1>6 DEF Sorting
<1>8. PICK C, T : C = CoverOf({e.outcome}, e.group, e.port) /\ T = TakenOf({e.outcome}, e.group, e.port)
  OBVIOUS
<1>9. j \in T
  BY <1>2, <1>6, <1>7, <1>8 DEF TakenOf
<1>10. IsFiniteSet(C) /\ IsFiniteSet(T) /\ Cardinality(C) = Cardinality(T)
  BY <1>4, <1>8, CoverFinite DEF RangesCount
<1>11. C # {}
  BY <1>9, <1>10, FS_EmptySet
<1>12. PICK m \in C : TRUE
  BY <1>11
<1>13. m \in Report!Covering(e)
  BY <1>8, CoveringIsCover
<1> QED BY <1>1, <1>13 DEF Report!Covering

LEMMA Told == ReportInv => EveryResultTold
<1> SUFFICES ASSUME ReportInv, Reported, NEW mode \in Modes, NEW k \in DOMAIN results
             PROVE  \/ HasLine(mode, results[k].outcome.status)
                    \/ \E m \in Report!Covering(results[k]) : Shown(mode, merged[m])
  BY DEF EveryResultTold
<1>1. PICK m \in Report!Covering(results[k]) : merged[m].outcome = results[k].outcome
  BY ResultCovered DEF Reported
<1>2. CASE mode.json_export
  <2>1. Shown(mode, merged[m])
    BY <1>2 DEF Shown, Kept
  <2> QED BY <1>1, <2>1
<1>3. CASE ~mode.json_export
  <2>1. mode.json \/ results[k].outcome.status # "pass" => HasLine(mode, results[k].outcome.status)
    BY <1>3 DEF HasLine, Interactive
  <2>2. CASE ~mode.json /\ results[k].outcome.status = "pass"
    <3>1. Shown(mode, merged[m])
      BY <1>1, <2>2 DEF Shown, Kept
    <3> QED BY <1>1, <3>1
  <2> QED BY <2>1, <2>2
<1> QED BY <1>2, <1>3

\* However its output is asked for, run_client keeps no result of a finished
\* scan to itself: each has a line of its own or is in a range that is shown.
THEOREM ResultsAreTold == ReportSpec => []EveryResultTold
BY Told, ReportInvariant, PTL

-----------------------------------------------------------------------------
\* What no one asked for is wanted no times.
LEMMA NotWanted ==
  ASSUME PlanInv, Planned, NEW name, NEW transport, NEW p \in Nat, NEW dir \in {"->", "<-"},
         \A s \in Slots : KeyOf(At(s)) # Key(name, transport, p, dir)
  PROVE  Wanted(Key(name, transport, p, dir)) = 0
<1> USE DEF PlanInv, LoopInv
<1>1. PICK key : key = Key(name, transport, p, dir)
  OBVIOUS
<1>2. key.proto = name /\ key.transport = transport /\ key.port = p /\ key.dir = dir
  BY <1>1 DEF Key
<1>3. CASE ~(key.dir = "->" \/ bidir)
  BY <1>1, <1>3 DEF Wanted
<1>4. CASE key.dir = "->" \/ bidir
  <2>1. PICK k \in DOMAIN Directions : Directions[k] = dir
    <3>1. 1 \in DOMAIN Directions /\ Directions[1] = "->"
      BY DirectionsKnown DEF TypeInv
    <3>2. CASE dir = "->"
      BY <3>1, <3>2
    <3>3. CASE dir # "->"
      <4>1. bidir /\ dir = "<-"
        BY <1>2, <1>4, <3>3
      <4>2. 2 \in DOMAIN Directions /\ Directions[2] = "<-"
        BY <4>1, DirectionsKnown DEF TypeInv
      <4> QED BY <4>1, <4>2
    <3> QED BY <3>2, <3>3
  <2>2. ASSUME NEW tr \in Askers(key) PROVE FALSE
    <3>1. /\ tr[1] \in DOMAIN tests /\ tr[2] \in DOMAIN ranges
          /\ tests[tr[1]] = name /\ tr[2] \in Matching(tests[tr[1]])
          /\ ranges[tr[2]].transport = transport
          /\ p \in ranges[tr[2]].start .. ranges[tr[2]].end
      BY <1>2 DEF Askers
    <3>2. PICK a : a = Ask(tr[1], tr[2], k, p)
      OBVIOUS
    <3>3. ranges[tr[2]] \in PortRanges
      BY <3>1 DEF TypeInv
    <3>4. ranges[tr[2]].start \in Nat /\ ranges[tr[2]].end \in Nat
      BY <3>3 DEF PortRanges
    <3>5. a \in Asked
      BY <2>1, <3>1, <3>2, <3>4 DEF Asked, Ask
    <3>6. AskedKey(a) = key
      BY <1>1, <2>1, <3>1, <3>2 DEF AskedKey, Ask
    <3>7. PICK f : Traces(f)
      BY DEF PlanTraced
    <3>8. PICK s \in Slots : f[s] = a /\ KeyOf(At(s)) = AskedKey(a)
      BY <3>5, <3>7, AllTraced DEF Traces
    <3> QED BY <1>1, <3>6, <3>8
  <2>3. Askers(key) = {}
    BY <2>2
  <2>4. Wanted(key) = Cardinality(Askers(key))
    BY <1>4 DEF Wanted, Askers
  <2> QED BY <1>1, <2>3, <2>4, FS_EmptySet
<1> QED BY <1>3, <1>4

\* The places in the plan of the tests of one key.
KeySlots(key) == {s \in Slots : KeyOf(At(s)) = key}

\* When all has been executed and taken, the sorted results of a port are one
\* to one the places in the plan where it is tested.
LEMMA TakenIsPlanned ==
  ASSUME ReportInv, Reported,
         NEW name \in Registered, NEW transport \in Transports, NEW p \in 0 .. MaxPort,
         NEW dir \in Dirs
  PROVE  Cardinality(TakenOf(Outcomes, GroupOf(name, transport, dir), p))
           = Cardinality(KeySlots(Key(name, transport, p, dir)))
<1> USE DEF ReportInv
<1>1. PICK n \in Nat : n = Len(results)
  BY DEF ReportType
<1>2. /\ results \in Seq(Entries) /\ taken = n /\ executed = Len(plan) /\ executed # 0
      /\ Planned
  BY <1>1 DEF ReportType, Report!AllMerged, Reported
<1>3. PICK place : Sorting(place)
  BY <1>2, SortedIsSorting
<1>4. PICK f : Answers(f)
  BY DEF ResultsAnswer
<1>5. /\ \A j \in 1 .. n : place[j] \in 1 .. n /\ Report!sorted[j] = results[place[j]]
      /\ \A k, l \in 1 .. n : place[k] = place[l] => k = l
      /\ \A i \in 1 .. n : \E k \in 1 .. n : place[k] = i
  BY <1>1, <1>3 DEF Sorting
<1>6. PICK h : h = [j \in 1 .. n |-> f[place[j]]]
  OBVIOUS
<1>7. Slots = ResultSlots
  <2>1. batch = <<>> /\ plan \in Seq(Seq(TestEntries))
    BY <1>2, AllTraced DEF PlanInv, LoopInv, TypeInv
  <2>2. Len(plan) \in Nat /\ \A b \in 1 .. Len(plan) : BatchAt(plan, batch, b) = plan[b]
    BY <2>1 DEF BatchAt
  <2>3. BatchAt(plan, batch, Len(plan) + 1) = <<>>
    BY <2>1 DEF BatchAt
  <2>4. ASSUME NEW s \in Slots PROVE s \in ResultSlots
    <3>1. s \in (1 .. Len(plan) + 1) \X (Nat \ {0}) /\ s[2] <= Len(BatchAt(plan, batch, s[1]))
      BY DEF Slots, SlotsOf
    <3>2. s[1] # Len(plan) + 1
      BY <2>3, <3>1
    <3>3. s[1] \in 1 .. Len(plan)
      BY <2>2, <3>1, <3>2
    <3> QED BY <1>2, <2>2, <3>1, <3>3 DEF ResultSlots
  <2>5. ASSUME NEW s \in ResultSlots PROVE s \in Slots
    <3>1. s \in (1 .. Len(plan)) \X (Nat \ {0}) /\ s[2] <= Len(plan[s[1]])
      BY <1>2 DEF ResultSlots
    <3>2. s \in (1 .. Len(plan) + 1) \X (Nat \ {0}) /\ BatchAt(plan, batch, s[1]) = plan[s[1]]
      BY <2>2, <3>1
    <3> QED BY <3>1, <3>2 DEF Slots, SlotsOf
  <2> QED BY <2>4, <2>5
<1>8. /\ \A j \in 1 .. n : h[j] \in Slots
      /\ \A k, l \in 1 .. n : h[k] = h[l] => k = l
      /\ \A s \in Slots : \E j \in 1 .. n : h[j] = s
  <2>1. ASSUME NEW j \in 1 .. n PROVE h[j] \in Slots
    BY <1>1, <1>4, <1>5, <1>6, <1>7 DEF Answers
  <2>2. ASSUME NEW k \in 1 .. n, NEW l \in 1 .. n, h[k] = h[l] PROVE k = l
    <3>1. f[place[k]] = f[place[l]] /\ place[k] \in 1 .. n /\ place[l] \in 1 .. n
      BY <1>5, <1>6, <2>2
    <3>2. place[k] = place[l]
      BY <3>1, <1>1, <1>4 DEF Answers
    <3> QED BY <3>2, <1>5
  <2>3. ASSUME NEW s \in Slots PROVE \E j \in 1 .. n : h[j] = s
    <3>1. PICK i \in 1 .. n : f[i] = s
      BY <1>1, <1>4, <1>7 DEF Answers
    <3>2. PICK j \in 1 .. n : place[j] = i
      BY <1>5
    <3> QED BY <3>1, <3>2, <1>6
  <2> QED BY <2>1, <2>2, <2>3
<1>9. PICK T, K, key : /\ T = TakenOf(Outcomes, GroupOf(name, transport, dir), p)
                      /\ K = KeySlots(key)
                      /\ key = Key(name, transport, p, dir)
  OBVIOUS
<1>10. ASSUME NEW j \in 1 .. n PROVE j \in T <=> h[j] \in K
  <2>1. PICK s : s = h[j] /\ s \in Slots /\ s \in ResultSlots
    BY <1>7, <1>8
  <2>2. PICK e : e = plan[s[1]][s[2]]
    OBVIOUS
  <2>3. s[1] \in 1 .. Len(plan) /\ s[2] \in 1 .. Len(plan[s[1]]) /\ s = <<s[1], s[2]>>
    <3>1. s \in (1 .. Len(plan)) \X (Nat \ {0}) /\ s[2] <= Len(plan[s[1]])
      BY <1>2, <2>1 DEF ResultSlots
    <3>2. s[1] \in 1 .. Len(plan) /\ s[2] \in Nat \ {0}
      BY <3>1
    <3>3. plan[s[1]] \in Seq(TestEntries)
      BY <3>2 DEF PlanInv, LoopInv, TypeInv
    <3>4. Len(plan[s[1]]) \in Nat
      BY <3>3
    <3> QED BY <3>1, <3>2, <3>4
  <2>4. /\ e.proto \in Registered /\ e.transport \in Transports /\ e.dir \in Dirs
        /\ At(s) = e
    <3>1. PICK b \in 1 .. Len(plan) : b = s[1]
      BY <2>3
    <3>2. PICK k \in 1 .. Len(plan[b]) : k = s[2]
      BY <2>3, <3>1
    <3>3. e = plan[b][k] /\ s = <<b, k>>
      BY <2>2, <2>3, <3>1, <3>2
    <3>4. Planned /\ e = plan[b][k]
      BY <1>2, <3>3
    <3>5. At(<<b, k>>) = e
      BY <3>4, PlanTested
    <3> QED BY <3>3, <3>4, <3>5, PlanTested
  <2>5. PICK r : r = Report!sorted[j]
    OBVIOUS
  <2>6. r \in Entries /\ r.outcome \in Outcomes
    BY <1>1, <1>2, <2>5, SortedTyped, EntriesTyped
  <2>7. r.group = GroupOf(e.proto, e.transport, e.dir) /\ r.port = e.port
    <3>1. r = results[place[j]] /\ place[j] \in 1 .. n /\ f[place[j]] = s
      BY <1>5, <1>6, <2>1, <2>5
    <3> QED BY <3>1, <1>1, <1>4, <2>2 DEF Answers, GroupAt
  <2>8. j \in T <=> GroupOf(e.proto, e.transport, e.dir) = GroupOf(name, transport, dir) /\ e.port = p
    BY <1>2, <1>9, <2>5, <2>6, <2>7 DEF TakenOf
  <2>9. GroupOf(e.proto, e.transport, e.dir) = GroupOf(name, transport, dir)
          <=> e.proto = name /\ e.transport = transport /\ e.dir = dir
    <3>1. PICK m, u, d : m = e.proto /\ u = e.transport /\ d = e.dir
      OBVIOUS
    <3>2. m \in Registered /\ u \in Transports /\ d \in Dirs
      BY <2>4, <3>1
    <3>3. GroupOf(m, u, d) = GroupOf(name, transport, dir) => m = name /\ u = transport /\ d = dir
      BY <3>2, GroupsDiffer
    <3> QED BY <3>1, <3>3
  <2>10. s \in K <=> KeyOf(e) = key
    BY <1>9, <2>1, <2>4 DEF KeySlots
  <2>11. KeyOf(e) = key <=> e.proto = name /\ e.transport = transport /\ e.dir = dir /\ e.port = p
    BY <1>9 DEF KeyOf, Key
  <2> QED BY <2>1, <2>8, <2>9, <2>10, <2>11
<1>11. IsFiniteSet(T)
  BY <1>9, CoverFinite
<1>12. PICK g : g = [s \in K |-> CHOOSE j \in 1 .. n : h[j] = s]
  OBVIOUS
<1>13. \A s \in K : g[s] \in 1 .. n /\ h[g[s]] = s
  <2> SUFFICES ASSUME NEW s \in K PROVE g[s] \in 1 .. n /\ h[g[s]] = s
    OBVIOUS
  <2>1. \E j \in 1 .. n : h[j] = s
    BY <1>8, <1>9 DEF KeySlots
  <2> QED BY <2>1, <1>12
<1>14. g \in [K -> T]
  BY <1>10, <1>12, <1>13
<1>15. \A s, u \in K : g[s] = g[u] => s = u
  BY <1>13
<1>16. ASSUME NEW j \in T PROVE \E s \in K : g[s] = j
  <2>1. j \in 1 .. n
    BY <1>2, <1>9 DEF TakenOf
  <2>2. h[j] \in K
    BY <2>1, <1>10
  <2>3. g[h[j]] = j
    BY <2>1, <2>2, <1>8, <1>13
  <2> QED BY <2>2, <2>3
<1>17. Cardinality(K) = Cardinality(T)
  BY <1>11, <1>14, <1>15, <1>16, SameSize
<1> QED BY <1>9, <1>17

LEMMA CoversScan == ReportInv => ReportCoversScan
<1> SUFFICES ASSUME ReportInv, Reported,
                    NEW name \in Registered, NEW transport \in {"icmp", "tcp", "udp"},
                    NEW p \in 0 .. MaxPort, NEW dir \in {"->", "<-"}
             PROVE  Cardinality({m \in DOMAIN merged :
                                   /\ merged[m].group = GroupOf(name, transport, dir)
                                   /\ p \in merged[m].start .. merged[m].end})
                      = Wanted(Key(name, transport, p, dir))
  BY DEF ReportCoversScan
<1>1. PICK g, key : g = GroupOf(name, transport, dir) /\ key = Key(name, transport, p, dir)
  OBVIOUS
<1>2. transport \in Transports /\ dir \in Dirs
  BY DEF Transports, Dirs
<1>3. g \in Nat
  BY <1>1, <1>2, GroupsDiffer
<1>4. Planned
  <2>1. results # <<>>
    BY DEF Reported
  <2> QED BY <2>1 DEF ReportInv, ReportType
<1>5. {m \in DOMAIN merged : merged[m].group = g /\ p \in merged[m].start .. merged[m].end}
        = CoverOf(Outcomes, g, p)
  <2>1. \A m \in DOMAIN merged : merged[m] \in MergedRanges
    BY DEF ReportInv, ReportType
  <2>2. \A m \in DOMAIN merged : merged[m].outcome \in Outcomes
    BY <2>1 DEF MergedRanges
  <2> QED BY <2>2 DEF CoverOf
<1>6. Cardinality(CoverOf(Outcomes, g, p)) = Cardinality(TakenOf(Outcomes, g, p))
  <2>1. Outcomes \in SUBSET Outcomes
    OBVIOUS
  <2> QED BY <2>1, <1>3 DEF ReportInv, RangesCount
<1>7. PICK K : K = KeySlots(key)
  OBVIOUS
<1>8. Cardinality(TakenOf(Outcomes, g, p)) = Cardinality(K)
  BY <1>1, <1>2, <1>7, TakenIsPlanned
<1>9. Cardinality(K) = Wanted(key)
  <2>1. CASE K = {}
    <3>1. p \in Nat
      OBVIOUS
    <3>2. \A s \in Slots : KeyOf(At(s)) # key
      BY <1>7, <2>1 DEF KeySlots
    <3>3. Wanted(key) = 0
      BY <1>1, <1>4, <3>1, <3>2, NotWanted DEF ReportInv
    <3> QED BY <2>1, <3>3, FS_EmptySet
  <2>2. CASE K # {}
    <3>1. PICK u \in Slots : KeyOf(At(u)) = key
      BY <1>7, <2>2 DEF KeySlots
    <3>2. PICK slots : /\ slots = UNION {{b} \X DOMAIN plan[b] : b \in DOMAIN plan}
                       /\ slots = Slots
      BY <1>4, AllTraced DEF ReportInv
    <3>3. \A s \in Slots : At(s) = plan[s[1]][s[2]]
      BY <1>4, AllTraced DEF ReportInv
    <3>4. \A s \in slots :
            Cardinality({v \in slots : KeyOf(plan[v[1]][v[2]]) = KeyOf(plan[s[1]][s[2]])})
              = Wanted(KeyOf(plan[s[1]][s[2]]))
      BY <1>4, <3>2, PlanAsked DEF ReportInv, PlanIsWhatWasAsked
    <3>5. KeyOf(plan[u[1]][u[2]]) = key
      BY <3>1, <3>3
    <3>6. {v \in slots : KeyOf(plan[v[1]][v[2]]) = key} = K
      BY <1>7, <3>2, <3>3 DEF KeySlots
    <3> QED BY <3>1, <3>2, <3>4, <3>5, <3>6
  <2> QED BY <2>1, <2>2
<1> QED BY <1>1, <1>5, <1>6, <1>8, <1>9

\* For every command line, any outcomes of its tests and any --parallel, the
\* ranges of the report are the scan that was asked for: a port is in one for
\* each time a test name and a --port-range ask for it, and in no other.
THEOREM ReportIsTheScan == ReportSpec => []ReportCoversScan
BY CoversScan, ReportInvariant, PTL

-----------------------------------------------------------------------------
\* With every port tested once the sorted results ascend strictly.
LEMMA SortedAscends ==
  ASSUME results \in Seq(Entries), Report!PortsDistinct,
         NEW k \in 1 .. Len(results), NEW l \in 1 .. Len(results), k < l,
         NEW x, x = Report!sorted[k], NEW y, y = Report!sorted[l]
  PROVE  x.group < y.group \/ (x.group = y.group /\ x.port < y.port)
<1>1. PICK place : Sorting(place)
  BY SortedIsSorting
<1>2. PICK i \in 1 .. Len(results), j \in 1 .. Len(results) : i = place[k] /\ j = place[l]
  BY <1>1 DEF Sorting
<1>3. x = results[i] /\ y = results[j] /\ Report!Before(i, j)
  BY <1>1, <1>2 DEF Sorting
<1>4. \/ x.group < y.group
      \/ x.group = y.group /\ x.port < y.port
      \/ x.group = y.group /\ x.port = y.port /\ i < j
  BY <1>3 DEF Report!Before
<1>5. x.group = y.group /\ x.port = y.port => i = j
  <2>1. DOMAIN results = 1 .. Len(results)
    OBVIOUS
  <2> QED BY <1>2, <1>3, <2>1 DEF Report!PortsDistinct
<1>6. ~(i < i)
  OBVIOUS
<1> QED BY <1>4, <1>5, <1>6

\* The last range ends where the last result taken is.
LastTaken ==
  taken # 0 => /\ Len(merged) # 0
               /\ merged[Len(merged)].group = Report!sorted[taken].group
               /\ merged[Len(merged)].end = Report!sorted[taken].port

\* The ranges are in the order of the results, and apart.
Apart(r, q) == r.group < q.group \/ (r.group = q.group /\ r.end < q.start)
CouldJoin(r, q) == r.group = q.group /\ r.outcome = q.outcome /\ q.start = r.end + 1
RangesPlaced ==
  Report!PortsDistinct =>
    /\ \A i, j \in DOMAIN merged : i < j => Apart(merged[i], merged[j])
    /\ \A m, n \in DOMAIN merged : ~CouldJoin(merged[m], merged[n])

LEMMA MergeEnds ==
  ASSUME ReportType, Report!Merge
  PROVE  LastTaken'
<1>1. PICK e \in Entries :
        /\ taken' = taken + 1 /\ results' = results
        /\ e = Report!sorted[taken + 1]
        /\ Extends(e) \/ StartsRange(e)
  BY MergeStep
<1>2. Report!sorted'[taken'] = e
  BY <1>1, SortedKept
<1>3. PICK n \in Nat : n = Len(merged)
  BY DEF ReportType
<1>4. CASE Extends(e)
  BY <1>2, <1>3, <1>4 DEF Extends, LastTaken
<1>5. CASE StartsRange(e)
  BY <1>2, <1>3, <1>5 DEF StartsRange, LastTaken
<1> QED BY <1>1, <1>4, <1>5

LEMMA MergePlaces ==
  ASSUME ReportType, RangesSized, LastTaken, RangesPlaced, Report!Merge
  PROVE  RangesPlaced'
<1>1. PICK e \in Entries :
        /\ taken < Len(results) /\ taken' = taken + 1 /\ results' = results
        /\ e = Report!sorted[taken + 1]
        /\ merged' \in Seq(MergedRanges)
        /\ Extends(e) \/ StartsRange(e)
  BY MergeStep
<1>2. Report!PortsDistinct' <=> Report!PortsDistinct
  BY <1>1 DEF Report!PortsDistinct
<1> SUFFICES ASSUME Report!PortsDistinct PROVE RangesPlaced'
  BY <1>2 DEF RangesPlaced
<1>0. PICK n \in Nat : n = Len(merged)
  BY DEF ReportType
<1>3. PICK r, q : r = merged /\ q = merged' /\ n = Len(r)
  BY <1>0
<1>4. /\ DOMAIN r = 1 .. n /\ DOMAIN q = 1 .. Len(q)
      /\ \A m \in 1 .. n : r[m] \in MergedRanges
  BY <1>1, <1>3 DEF ReportType
<1>5. e.group \in Nat /\ e.port \in Nat
  BY EntriesTyped
<1>6. \A m \in 1 .. n : /\ r[m].group \in Nat /\ r[m].start \in Nat /\ r[m].end \in Nat
                         /\ r[m].start <= r[m].end
  <2> SUFFICES ASSUME NEW m \in 1 .. n
               PROVE  /\ r[m].group \in Nat /\ r[m].start \in Nat /\ r[m].end \in Nat
                      /\ r[m].start <= r[m].end
    OBVIOUS
  <2>1. r[m] \in MergedRanges
    BY <1>4
  <2>2. r[m].group \in Groups /\ r[m].start \in 0 .. MaxPort /\ r[m].end \in 0 .. MaxPort
    BY <2>1 DEF MergedRanges
  <2>3. r[m].group \in Nat
    BY <2>2, GroupsTyped
  <2>4. r[m].start \in Nat /\ r[m].end \in Nat
    BY <2>2
  <2>5. r[m].start <= r[m].end
    BY <1>3, <1>4 DEF RangesSized
  <2> QED BY <2>3, <2>4, <2>5
<1>7. /\ \A i, j \in 1 .. n : i < j => Apart(r[i], r[j])
      /\ \A i, j \in 1 .. n : ~CouldJoin(r[i], r[j])
  BY <1>3, <1>4 DEF RangesPlaced
<1>8. n # 0 => n \in 1 .. n /\ (r[n].group < e.group \/ (r[n].group = e.group /\ r[n].end < e.port))
  <2> SUFFICES ASSUME n # 0
               PROVE  r[n].group < e.group \/ (r[n].group = e.group /\ r[n].end < e.port)
    OBVIOUS
  <2>1. taken # 0 /\ taken \in Nat /\ Len(results) \in Nat /\ results \in Seq(Entries)
    BY <1>3 DEF ReportType
  <2>2. taken \in 1 .. Len(results) /\ taken + 1 \in 1 .. Len(results) /\ taken < taken + 1
    BY <1>1, <2>1
  <2>3. PICK x : x = Report!sorted[taken]
    OBVIOUS
  <2>4. x.group < e.group \/ (x.group = e.group /\ x.port < e.port)
    BY <1>1, <2>1, <2>2, <2>3, SortedAscends
  <2>5. r[n].group = x.group /\ r[n].end = x.port
    BY <1>3, <2>1, <2>3 DEF LastTaken
  <2> QED BY <2>4, <2>5
\* What lies before a range lies before the result.
<1>9. \A m \in 1 .. n : r[m].group < e.group \/ (r[m].group = e.group /\ r[m].end < e.port)
  <2> SUFFICES ASSUME NEW m \in 1 .. n
               PROVE  r[m].group < e.group \/ (r[m].group = e.group /\ r[m].end < e.port)
    OBVIOUS
  <2>1. n # 0 /\ n \in 1 .. n
    OBVIOUS
  <2>2. CASE m = n
    BY <2>1, <2>2, <1>8
  <2>3. CASE m # n
    <3>1. Apart(r[m], r[n])
      BY <2>1, <2>3, <1>7
    <3>2. /\ r[m].group \in Nat /\ r[m].end \in Nat
          /\ r[n].group \in Nat /\ r[n].start \in Nat /\ r[n].end \in Nat
          /\ r[n].start <= r[n].end
      BY <2>1, <1>6
    <3>3. r[n].group < e.group \/ (r[n].group = e.group /\ r[n].end < e.port)
      BY <2>1, <1>8
    <3> QED BY <3>1, <3>2, <3>3, <1>5 DEF Apart
  <2> QED BY <2>2, <2>3
<1>10. /\ \A i, j \in DOMAIN q : i < j => Apart(q[i], q[j])
       /\ \A i, j \in DOMAIN q : ~CouldJoin(q[i], q[j])
  <2>1. CASE Extends(e)
    <3>1. /\ n # 0 /\ n \in 1 .. n /\ DOMAIN q = 1 .. n
          /\ \A m \in 1 .. n - 1 : q[m] = r[m]
          /\ q[n].group = r[n].group /\ q[n].outcome = r[n].outcome
          /\ q[n].start = r[n].start /\ q[n].end = r[n].end + 1
      BY <2>1, <1>3, <1>4 DEF Extends
    <3>2. ASSUME NEW i \in 1 .. n, NEW j \in 1 .. n, i < j PROVE Apart(q[i], q[j])
      <4>1. i \in 1 .. n - 1 /\ q[i] = r[i]
        BY <3>1, <3>2
      <4>2. q[j].group = r[j].group /\ q[j].start = r[j].start
        <5>1. j = n \/ j \in 1 .. n - 1
          OBVIOUS
        <5> QED BY <5>1, <3>1
      <4>3. Apart(r[i], r[j])
        BY <3>2, <1>7
      <4> QED BY <4>1, <4>2, <4>3 DEF Apart
    <3>3. ASSUME NEW i \in 1 .. n, NEW j \in 1 .. n, CouldJoin(q[i], q[j]) PROVE FALSE
      <4>1. /\ q[j].group = r[j].group /\ q[j].outcome = r[j].outcome /\ q[j].start = r[j].start
        <5>1. j = n \/ j \in 1 .. n - 1
          OBVIOUS
        <5> QED BY <5>1, <3>1
      <4>2. CASE i # n
        <5>1. i \in 1 .. n - 1 /\ q[i] = r[i]
          BY <3>1, <4>2
        <5>2. CouldJoin(r[i], r[j])
          BY <3>3, <4>1, <5>1 DEF CouldJoin
        <5> QED BY <5>2, <1>7
      <4>3. CASE i = n
        <5>1. r[n].group = r[j].group /\ r[j].start = r[n].end + 1 + 1
          BY <3>1, <3>3, <4>1, <4>3 DEF CouldJoin
        <5>2. CASE j = n
          BY <5>1, <5>2, <3>1, <1>6
        <5>3. CASE j # n
          <6>1. Apart(r[j], r[n])
            BY <5>3, <3>1, <1>7
          <6>2. /\ r[j].group \in Nat /\ r[j].start \in Nat /\ r[j].end \in Nat
                /\ r[j].start <= r[j].end /\ r[n].group \in Nat
                /\ r[n].start \in Nat /\ r[n].end \in Nat /\ r[n].start <= r[n].end
            BY <3>1, <1>6
          <6>3. r[j].group < r[n].group \/ r[j].end < r[n].start
            BY <6>1 DEF Apart
          <6>4. PICK gn, gj, sn, en, sj, ej \in Nat :
                  /\ gn = r[n].group /\ gj = r[j].group /\ sn = r[n].start
                  /\ en = r[n].end /\ sj = r[j].start /\ ej = r[j].end
            BY <6>2
          <6>5. gn = gj /\ sj = en + 1 + 1 /\ sj <= ej /\ sn <= en /\ (gj < gn \/ ej < sn)
            BY <5>1, <6>2, <6>3, <6>4
          <6> QED BY <6>5
        <5> QED BY <5>2, <5>3
      <4> QED BY <4>2, <4>3
    <3> QED BY <3>1, <3>2, <3>3
  <2>2. CASE StartsRange(e)
    <3>1. /\ DOMAIN q = 1 .. n + 1
          /\ \A m \in 1 .. n : q[m] = r[m]
          /\ q[n + 1].group = e.group /\ q[n + 1].outcome = e.outcome
          /\ q[n + 1].start = e.port /\ q[n + 1].end = e.port
      BY <2>2, <1>3, <1>4 DEF StartsRange
    <3>2. \A m \in 1 .. n + 1 : m = n + 1 \/ (m \in 1 .. n /\ q[m] = r[m])
      BY <3>1
    <3>3. ASSUME NEW i \in 1 .. n + 1, NEW j \in 1 .. n + 1, i < j PROVE Apart(q[i], q[j])
      <4>1. i \in 1 .. n /\ q[i] = r[i]
        BY <3>2, <3>3
      <4>2. CASE j = n + 1
        BY <4>1, <4>2, <3>1, <1>9 DEF Apart
      <4>3. CASE j # n + 1
        BY <4>1, <4>3, <3>2, <3>3, <1>7
      <4> QED BY <4>2, <4>3
    <3>4. ASSUME NEW i \in 1 .. n + 1, NEW j \in 1 .. n + 1, CouldJoin(q[i], q[j]) PROVE FALSE
      <4>1. CASE i # n + 1 /\ j # n + 1
        BY <4>1, <3>2, <3>4, <1>7
      <4>2. CASE i = n + 1 /\ j = n + 1
        <5>1. e.port = e.port + 1
          BY <4>2, <3>1, <3>4 DEF CouldJoin
        <5> QED BY <5>1, <1>5
      <4>3. CASE i = n + 1 /\ j # n + 1
        <5>1. j \in 1 .. n /\ r[j].group = e.group /\ r[j].start = e.port + 1
          BY <4>3, <3>1, <3>2, <3>4 DEF CouldJoin
        <5>2. r[j].end < e.port \/ r[j].group < e.group
          BY <5>1, <1>9
        <5>3. r[j].start <= r[j].end /\ r[j].start \in Nat /\ r[j].end \in Nat /\ r[j].group \in Nat
          BY <5>1, <1>6
        <5>4. PICK s, en, gr, p, g \in Nat :
                s = r[j].start /\ en = r[j].end /\ gr = r[j].group /\ p = e.port /\ g = e.group
          BY <5>3, <1>5
        <5>5. gr = g /\ s = p + 1 /\ s <= en /\ (en < p \/ gr < g)
          BY <5>1, <5>2, <5>3, <5>4
        <5> QED BY <5>5
      <4>4. CASE i # n + 1 /\ j = n + 1
        <5>1. /\ i \in 1 .. n /\ r[i].group = e.group /\ r[i].outcome = e.outcome
              /\ e.port = r[i].end + 1
          BY <4>4, <3>1, <3>2, <3>4 DEF CouldJoin
        <5>2. n # 0 /\ n \in 1 .. n
          BY <5>1
        <5>3. CASE i = n
          BY <5>1, <5>2, <5>3, <2>2, <1>3 DEF StartsRange
        <5>4. CASE i # n
          <6>1. Apart(r[i], r[n])
            BY <5>1, <5>2, <5>4, <1>7
          <6>2. r[n].group < e.group \/ (r[n].group = e.group /\ r[n].end < e.port)
            BY <5>2, <1>8
          <6>3. /\ r[i].group \in Nat /\ r[i].end \in Nat /\ r[n].group \in Nat
                /\ r[n].start \in Nat /\ r[n].end \in Nat /\ r[n].start <= r[n].end
            BY <5>1, <5>2, <1>6
          <6>4. r[i].group < r[n].group \/ (r[i].group = r[n].group /\ r[i].end < r[n].start)
            BY <6>1 DEF Apart
          <6>5. PICK gn, gi, sn, en, ei, p, g \in Nat :
                  /\ gn = r[n].group /\ gi = r[i].group /\ sn = r[n].start
                  /\ en = r[n].end /\ ei = r[i].end /\ p = e.port /\ g = e.group
            BY <6>3, <1>5
          <6>6. /\ gi = g /\ p = ei + 1 /\ sn <= en
                /\ gn < g \/ (gn = g /\ en < p)
                /\ gi < gn \/ (gi = gn /\ ei < sn)
            BY <5>1, <6>2, <6>3, <6>4, <6>5
          <6> QED BY <6>6
        <5> QED BY <5>3, <5>4
      <4> QED BY <4>1, <4>2, <4>3, <4>4
    <3> QED BY <3>1, <3>3, <3>4
  <2> QED BY <1>1, <2>1, <2>2
<1> QED BY <1>3, <1>10 DEF RangesPlaced

PlacedInv == ReportInv /\ LastTaken /\ RangesPlaced

LEMMA PlacedInductive == PlacedInv /\ [ReportNext]_allVars => PlacedInv'
<1> SUFFICES ASSUME PlacedInv, [ReportNext]_allVars PROVE LastTaken' /\ RangesPlaced'
  BY ReportInductive DEF PlacedInv
<1> USE DEF PlacedInv
<1>1. CASE Merges
  BY <1>1, MergeEnds, MergePlaces DEF Merges, ReportInv
<1>2. CASE Executed
  <2>1. taken = 0
    BY <1>2, ExecutedKeeps DEF ReportInv
  <2>2. taken' = 0 /\ merged' = <<>>
    BY <1>2, <2>1 DEF Executed, Report!PushResults, ReportInv, ReportType
  <2>3. DOMAIN merged' = {}
    BY <2>2
  <2> QED BY <2>2, <2>3 DEF LastTaken, RangesPlaced
<1>3. CASE UNCHANGED reportVars
  <2>1. UNCHANGED <<results, taken, merged>>
    BY <1>3 DEF reportVars
  <2>2. LastTaken'
    BY <2>1, SortedKept DEF LastTaken
  <2>3. RangesPlaced'
    BY <2>1 DEF RangesPlaced, Report!PortsDistinct
  <2> QED BY <2>2, <2>3
<1> QED BY <1>1, <1>2, <1>3 DEF ReportNext, Plans, allVars

\* With every port tested once, no two ranges of the report could be one, for
\* any results of any scan: the candidate allow rules are as few as can be.
THEOREM RangesAreMaximal == ReportSpec => []RangesMaximal
<1>1. ReportInit => PlacedInv
  <2> SUFFICES ASSUME ReportInit PROVE LastTaken /\ RangesPlaced
    BY ReportInvInit DEF PlacedInv
  <2>1. taken = 0 /\ DOMAIN merged = {}
    BY DEF ReportInit, Report!SummaryInit
  <2> QED BY <2>1 DEF LastTaken, RangesPlaced
<1>2. PlacedInv => RangesMaximal
  BY DEF PlacedInv, RangesPlaced, CouldJoin, RangesMaximal, Report!RangesMaximal
<1> QED BY <1>1, <1>2, PlacedInductive, PTL DEF ReportSpec
-----------------------------------------------------------------------------
(***************************************************************************)
(* The live line of a batch.  fail_map and format_port_ranges each go      *)
(* through a sequence once: what they have after n rounds is shown by the  *)
(* least n at which it would be wrong.                                     *)
(***************************************************************************)

LEMMA LeastElement ==
  ASSUME NEW T, T \subseteq Nat, T # {}
  PROVE  \E x \in T : \A y \in T : x <= y
<1>1. IsWellFoundedOn(OpToRel(<, Nat), Nat)
  BY NatLessThanWellFounded
<1>2. PICK R : R = OpToRel(<, Nat)
  OBVIOUS
<1>3. IsWellFoundedOn(R, Nat)
  BY <1>1, <1>2
<1>4. \A a, b \in Nat : a < b => <<a, b>> \in R
  BY <1>2 DEF OpToRel
<1>5. PICK x \in T : \A y \in T : ~(<<y, x>> \in R)
  BY <1>3, WFMin
<1>6. \A y \in T : x <= y
  <2> SUFFICES ASSUME NEW y \in T PROVE x <= y
    OBVIOUS
  <2>1. ~(y < x)
    BY <1>4, <1>5
  <2>2. x \in Nat /\ y \in Nat
    OBVIOUS
  <2> QED BY <2>1, <2>2
<1> QED BY <1>6

\* f holds what a loop has after each of its n rounds.
Loop(f, n, a, g) == f[0] = a /\ \A k \in 1 .. n : f[k] = g[<<f[k - 1], k>>]

LEMMA LoopRuns ==
  ASSUME NEW S, NEW N \in Nat, NEW a \in S, NEW g \in [S \X (1 .. N) -> S]
  PROVE  \E f \in [0 .. N -> S] : Loop(f, N, a, g)
<1> DEFINE T == {n \in 0 .. N : ~\E f \in [0 .. n -> S] : Loop(f, n, a, g)}
<1> SUFFICES ASSUME T # {} PROVE FALSE
  <2>1. N \in 0 .. N
    OBVIOUS
  <2> QED BY <2>1
<1>1. T \subseteq Nat
  OBVIOUS
<1>2. PICK n \in T : \A m \in T : n <= m
  BY <1>1, LeastElement
<1>3. n \in 0 .. N
  OBVIOUS
<1>4. \A f \in [0 .. n -> S] : ~Loop(f, n, a, g)
  OBVIOUS
<1>5. CASE n = 0
  <2>1. PICK f : f = [k \in 0 .. n |-> a]
    OBVIOUS
  <2>2. f \in [0 .. n -> S] /\ f[0] = a
    BY <2>1, <1>5
  <2>3. \A k \in 1 .. n : FALSE
    BY <1>5
  <2> QED BY <2>2, <2>3, <1>4 DEF Loop
<1>6. CASE n # 0
  <2>1. n - 1 \in 0 .. N /\ ~(n <= n - 1)
    BY <1>3, <1>6
  <2>2. n - 1 \notin T
    BY <1>2, <2>1
  <2>3. PICK f \in [0 .. n - 1 -> S] : Loop(f, n - 1, a, g)
    BY <2>1, <2>2
  <2>4. PICK e : e = [k \in 0 .. n |-> IF k = n THEN g[<<f[n - 1], n>>] ELSE f[k]]
    OBVIOUS
  <2>5. g[<<f[n - 1], n>>] \in S
    <3>1. f[n - 1] \in S /\ n \in 1 .. N
      BY <1>3, <1>6
    <3> QED BY <3>1
  <2>6. e \in [0 .. n -> S]
    <3>1. \A k \in 0 .. n : k = n \/ k \in 0 .. n - 1
      BY <1>3
    <3> QED BY <2>4, <2>5, <3>1
  <2>7. e[0] = a
    BY <2>3, <2>4, <1>3, <1>6 DEF Loop
  <2>8. ASSUME NEW k \in 1 .. n PROVE e[k] = g[<<e[k - 1], k>>]
    <3>1. k - 1 \in 0 .. n /\ k \in 0 .. n /\ k - 1 # n
      BY <1>3
    <3>2. e[k - 1] = f[k - 1]
      BY <2>4, <3>1
    <3>3. CASE k = n
      BY <2>4, <3>1, <3>2, <3>3
    <3>4. CASE k # n
      <4>1. k \in 1 .. n - 1
        BY <3>4, <1>3
      <4>2. e[k] = f[k]
        BY <2>4, <3>1, <3>4
      <4> QED BY <2>3, <3>2, <4>1, <4>2 DEF Loop
    <3> QED BY <3>3, <3>4
  <2>9. Loop(e, n, a, g)
    BY <2>7, <2>8 DEF Loop
  <2> QED BY <1>4, <2>6, <2>9
<1> QED BY <1>5, <1>6

Ports == 0 .. MaxPort
LineRanges == [start : Ports, end : Ports]

LEMMA PortsOfFailMap ==
  ASSUME NEW entries \in Seq(Report!Entries), NEW reason
  PROVE  \E f :
           /\ f[0] = <<>>
           /\ \A n \in 1 .. Len(entries) :
                f[n] = IF Report!FailsFor(entries[n], reason)
                       THEN Append(f[n - 1], entries[n].port) ELSE f[n - 1]
           /\ Report!fail_map(entries, reason) = f[Len(entries)]
<1>1. PICK N \in Nat : N = Len(entries)
  OBVIOUS
<1>2. PICK S : S = Seq(Ports)
  OBVIOUS
<1>3. \A n \in 1 .. N : entries[n].port \in Ports
  BY <1>1 DEF Report!Entries, Report!Entry, Ports
<1>4. PICK g : g = [u \in S \X (1 .. N) |-> IF Report!FailsFor(entries[u[2]], reason)
                       THEN Append(u[1], entries[u[2]].port) ELSE u[1]]
  OBVIOUS
<1>5. g \in [S \X (1 .. N) -> S]
  <2> SUFFICES ASSUME NEW s \in Seq(Ports), NEW n \in 1 .. N
               PROVE  Append(s, entries[n].port) \in Seq(Ports)
    BY <1>2, <1>4
  <2>1. entries[n].port \in Ports
    BY <1>3
  <2> QED BY <2>1
<1>6. <<>> \in S
  BY <1>2
<1>7. PICK f \in [0 .. N -> S] : Loop(f, N, <<>>, g)
  BY <1>5, <1>6, LoopRuns
<1>8. f[0] = <<>>
  BY <1>7 DEF Loop
<1>9. \A n \in 1 .. N : f[n] = IF Report!FailsFor(entries[n], reason)
                       THEN Append(f[n - 1], entries[n].port) ELSE f[n - 1]
  <2> SUFFICES ASSUME NEW n \in 1 .. N
               PROVE f[n] = IF Report!FailsFor(entries[n], reason)
                       THEN Append(f[n - 1], entries[n].port) ELSE f[n - 1]
    OBVIOUS
  <2>1. f[n] = g[<<f[n - 1], n>>]
    BY <1>7 DEF Loop
  <2>2. f[n - 1] \in S
    OBVIOUS
  <2> QED BY <2>1, <2>2, <1>4
<1> DEFINE Is(h) == h = [n \in 0 .. Len(entries) |->
                           IF n = 0 THEN <<>>
                           ELSE IF Report!FailsFor(entries[n], reason)
                                THEN Append(h[n - 1], entries[n].port)
                           ELSE h[n - 1]]
<1>10. Is(f)
  <2>1. DOMAIN f = 0 .. N /\ f = [n \in DOMAIN f |-> f[n]]
    OBVIOUS
  <2> SUFFICES ASSUME NEW n \in 0 .. N
               PROVE  f[n] = IF n = 0 THEN <<>>
                             ELSE IF Report!FailsFor(entries[n], reason)
                                  THEN Append(f[n - 1], entries[n].port)
                             ELSE f[n - 1]
    BY <1>1, <2>1
  <2>2. CASE n = 0
    BY <2>2, <1>8
  <2>3. CASE n # 0
    <3>1. n \in 1 .. N
      BY <2>3
    <3> QED BY <2>3, <3>1, <1>9
  <2> QED BY <2>2, <2>3
<1>11. PICK h : h = CHOOSE c : Is(c)
  OBVIOUS
<1>12. h = [n \in 0 .. N |->
               IF n = 0 THEN <<>>
               ELSE IF Report!FailsFor(entries[n], reason)
                    THEN Append(h[n - 1], entries[n].port)
               ELSE h[n - 1]]
  BY <1>1, <1>10, <1>11
<1>13. Report!fail_map(entries, reason) = h[N]
  BY <1>1, <1>11 DEF Report!fail_map
<1>14. h[0] = <<>>
  <2>1. 0 \in 0 .. N
    OBVIOUS
  <2> QED BY <1>12, <2>1
<1>15. \A n \in 1 .. N :
         h[n] = IF Report!FailsFor(entries[n], reason)
                THEN Append(h[n - 1], entries[n].port) ELSE h[n - 1]
  <2> SUFFICES ASSUME NEW n \in 1 .. N
               PROVE  h[n] = IF Report!FailsFor(entries[n], reason)
                             THEN Append(h[n - 1], entries[n].port) ELSE h[n - 1]
    OBVIOUS
  <2>1. n \in 0 .. N /\ n # 0
    OBVIOUS
  <2> QED BY <1>12, <2>1
<1> QED BY <1>1, <1>13, <1>14, <1>15

LEMMA Modulo == ASSUME NEW x \in 0 .. MaxPort PROVE x % (MaxPort + 1) = x
<1>1. PICK m \in Nat : m = MaxPort
  BY ScanPlanAssumption
<1> QED BY <1>1

\* What a further q of a batch does to the line: it lengthens the last
\* range, or it starts one.
Lengthens(rs, q) ==
  rs # <<>> /\ q = Report!NextPort(rs[Len(rs)].end)

PortAdded(rs, q, line, n) ==
  /\ line \in Seq(LineRanges)
  /\ \/ /\ Lengthens(rs, q)
        /\ Len(line) = n
        /\ \A r \in 1 .. n - 1 : line[r] = rs[r]
        /\ line[n].start = rs[n].start /\ line[n].end = q
     \/ /\ ~Lengthens(rs, q)
        /\ Len(line) = n + 1
        /\ \A r \in 1 .. n : line[r] = rs[r]
        /\ line[n + 1].start = q /\ line[n + 1].end = q

LEMMA WithPortIs ==
  ASSUME NEW rs \in Seq(LineRanges), NEW q \in Ports,
         NEW line, line = Report!WithPort(rs, q), NEW n \in Nat, n = Len(rs)
  PROVE  PortAdded(rs, q, line, n)
<1>1. CASE Lengthens(rs, q)
  <2>1. n # 0 /\ n \in 1 .. n /\ n - 1 \in Nat
    BY <1>1 DEF Lengthens
  <2>2. PICK last \in LineRanges : last = rs[n]
    BY <2>1
  <2>3. PICK front : front = SubSeq(rs, 1, n - 1)
    OBVIOUS
  <2>4. front \in Seq(LineRanges) /\ Len(front) = n - 1 /\ \A r \in 1 .. n - 1 : front[r] = rs[r]
    BY <2>1, <2>3
  <2>5. PICK new : new = [last EXCEPT !.end = q]
    OBVIOUS
  <2>6. new \in LineRanges /\ new.start = last.start /\ new.end = q
    BY <2>5 DEF LineRanges
  <2>7. line = Append(front, new)
    BY <1>1, <2>2, <2>3, <2>5
    DEF Lengthens, Report!WithPort, Report!Last, Report!Front, Last, Front
  <2>8. /\ line \in Seq(LineRanges) /\ Len(line) = n
        /\ \A r \in 1 .. n - 1 : line[r] = front[r]
        /\ line[n] = new
    BY <2>1, <2>4, <2>6, <2>7
  <2> QED BY <1>1, <2>2, <2>4, <2>6, <2>8 DEF PortAdded
<1>2. CASE ~Lengthens(rs, q)
  <2>1. PICK new : new = [start |-> q, end |-> q]
    OBVIOUS
  <2>2. new \in LineRanges /\ new.start = q /\ new.end = q
    BY <2>1 DEF LineRanges
  <2>3. line = Append(rs, new)
    BY <1>2, <2>1 DEF Lengthens, Report!WithPort, Report!Last, Last
  <2>4. /\ line \in Seq(LineRanges) /\ Len(line) = n + 1
        /\ \A r \in 1 .. n : line[r] = rs[r]
        /\ line[n + 1] = new
    BY <2>2, <2>3
  <2> QED BY <1>2, <2>2, <2>4 DEF PortAdded
<1> QED BY <1>1, <1>2

LEMMA WithPortTyped ==
  ASSUME NEW rs \in Seq(LineRanges), NEW q \in Ports
  PROVE  Report!WithPort(rs, q) \in Seq(LineRanges)
<1>1. PICK n \in Nat : n = Len(rs)
  OBVIOUS
<1>2. PICK line : line = Report!WithPort(rs, q)
  OBVIOUS
<1>3. PortAdded(rs, q, line, n)
  BY <1>1, <1>2, WithPortIs
<1> QED BY <1>2, <1>3 DEF PortAdded

LEMMA RoundsOfLine ==
  ASSUME NEW ports \in Seq(Ports)
  PROVE  \E f :
           /\ f[0] = <<>>
           /\ \A n \in 1 .. Len(ports) : f[n] = Report!WithPort(f[n - 1], ports[n])
           /\ Report!format_port_ranges(ports) = f[Len(ports)]
<1>1. PICK N \in Nat : N = Len(ports)
  OBVIOUS
<1>2. PICK S : S = Seq(LineRanges)
  OBVIOUS
<1>3. PICK g : g = [u \in S \X (1 .. N) |-> Report!WithPort(u[1], ports[u[2]])]
  OBVIOUS
<1>4. g \in [S \X (1 .. N) -> S]
  <2> SUFFICES ASSUME NEW s \in Seq(LineRanges), NEW n \in 1 .. N
               PROVE  Report!WithPort(s, ports[n]) \in Seq(LineRanges)
    BY <1>2, <1>3
  <2>1. ports[n] \in Ports
    BY <1>1
  <2> QED BY <2>1, WithPortTyped
<1>5. <<>> \in S
  BY <1>2
<1>6. PICK f \in [0 .. N -> S] : Loop(f, N, <<>>, g)
  BY <1>4, <1>5, LoopRuns
<1>7. f[0] = <<>>
  BY <1>6 DEF Loop
<1>8. \A n \in 1 .. N : f[n] = Report!WithPort(f[n - 1], ports[n])
  <2> SUFFICES ASSUME NEW n \in 1 .. N PROVE f[n] = Report!WithPort(f[n - 1], ports[n])
    OBVIOUS
  <2>1. f[n] = g[<<f[n - 1], n>>]
    BY <1>6 DEF Loop
  <2>2. f[n - 1] \in S
    OBVIOUS
  <2> QED BY <2>1, <2>2, <1>3
<1> DEFINE Is(h) == h = [n \in 0 .. Len(ports) |->
                           IF n = 0 THEN <<>> ELSE Report!WithPort(h[n - 1], ports[n])]
<1>9. Is(f)
  <2>1. DOMAIN f = 0 .. N /\ f = [n \in DOMAIN f |-> f[n]]
    OBVIOUS
  <2> SUFFICES ASSUME NEW n \in 0 .. N
               PROVE  f[n] = IF n = 0 THEN <<>> ELSE Report!WithPort(f[n - 1], ports[n])
    BY <1>1, <2>1
  <2>2. CASE n = 0
    BY <2>2, <1>7
  <2>3. CASE n # 0
    <3>1. n \in 1 .. N
      BY <2>3
    <3> QED BY <2>3, <3>1, <1>8
  <2> QED BY <2>2, <2>3
<1>10. PICK h : h = CHOOSE c : Is(c)
  OBVIOUS
<1>11. h = [n \in 0 .. N |-> IF n = 0 THEN <<>> ELSE Report!WithPort(h[n - 1], ports[n])]
  BY <1>1, <1>9, <1>10
<1>12. Report!format_port_ranges(ports) = h[N]
  BY <1>1, <1>10 DEF Report!format_port_ranges
<1>13. h[0] = <<>>
  <2>1. 0 \in 0 .. N
    OBVIOUS
  <2> QED BY <1>11, <2>1
<1>14. \A n \in 1 .. N : h[n] = Report!WithPort(h[n - 1], ports[n])
  <2> SUFFICES ASSUME NEW n \in 1 .. N PROVE h[n] = Report!WithPort(h[n - 1], ports[n])
    OBVIOUS
  <2>1. n \in 0 .. N /\ n # 0
    OBVIOUS
  <2> QED BY <1>11, <2>1
<1> QED BY <1>1, <1>12, <1>13, <1>14
-----------------------------------------------------------------------------
Ascend(ps) == \A k, l \in DOMAIN ps : k < l => ps[k] < ps[l]

\* The line shows the first n of the ports.
ShowsFirst(line, ps, n) ==
  /\ line \in Seq(LineRanges)
  /\ n = 0 <=> Len(line) = 0
  /\ n # 0 => line[Len(line)].end = ps[n]
  /\ \A r \in DOMAIN line : line[r].start <= line[r].end
  /\ \A r \in DOMAIN line : r > 1 => line[r].start > line[r - 1].end + 1
  /\ \A p \in Nat :
       (\E r \in DOMAIN line : line[r].start <= p /\ p <= line[r].end) <=> (\E k \in 1 .. n : ps[k] = p)

LEMMA LineStep ==
  ASSUME NEW ps \in Seq(Ports), Ascend(ps), NEW n \in 1 .. Len(ps),
         NEW old, ShowsFirst(old, ps, n - 1),
         NEW line, line = Report!WithPort(old, ps[n])
  PROVE  ShowsFirst(line, ps, n)
<1>1. PICK len \in Nat : len = Len(old)
  BY DEF ShowsFirst
<1>2. PICK q \in Ports : q = ps[n]
  OBVIOUS
<1>3. old \in Seq(LineRanges) /\ DOMAIN old = 1 .. len
  BY <1>1 DEF ShowsFirst
<1>4. \A r \in 1 .. len : old[r].start \in Nat /\ old[r].end \in Nat /\ old[r].start <= old[r].end
  <2> SUFFICES ASSUME NEW r \in 1 .. len
               PROVE  old[r].start \in Nat /\ old[r].end \in Nat /\ old[r].start <= old[r].end
    OBVIOUS
  <2>1. old[r] \in LineRanges
    BY <1>3
  <2>2. old[r].start \in Nat /\ old[r].end \in Nat
    BY <2>1 DEF LineRanges, Ports
  <2>3. old[r].start <= old[r].end
    BY <1>3 DEF ShowsFirst
  <2> QED BY <2>2, <2>3
<1>5. q \in Nat /\ n \in Nat /\ n - 1 \in Nat
  BY DEF Ports
<1>6. len = 0 <=> n = 1
  BY <1>1, <1>5 DEF ShowsFirst
\* The port lies beyond the last range.
<1>7. len # 0 => /\ len \in 1 .. len /\ old[len].end < q
                 /\ Report!NextPort(old[len].end) = old[len].end + 1
  <2> SUFFICES ASSUME len # 0
               PROVE  old[len].end < q /\ Report!NextPort(old[len].end) = old[len].end + 1
    OBVIOUS
  <2>1. n - 1 \in DOMAIN ps /\ n \in DOMAIN ps /\ n - 1 < n
    BY <1>6
  <2>2. old[len].end = ps[n - 1]
    BY <1>1, <1>6 DEF ShowsFirst
  <2>3. old[len].end < q
    BY <1>2, <2>1, <2>2 DEF Ascend
  <2>4. PICK e \in Nat : e = old[len].end
    BY <1>4
  <2>5. e + 1 \in 0 .. MaxPort
    BY <2>3, <2>4 DEF Ports
  <2>6. (e + 1) % (MaxPort + 1) = e + 1
    BY <2>5, Modulo
  <2> QED BY <2>3, <2>4, <2>6 DEF Report!NextPort
<1>8. \A p \in Nat :
       (\E r \in 1 .. len : old[r].start <= p /\ p <= old[r].end) <=> (\E k \in 1 .. n - 1 : ps[k] = p)
  BY <1>3 DEF ShowsFirst
<1>9. \A p \in Nat :
       (\E k \in 1 .. n : ps[k] = p) <=> (p = q \/ \E r \in 1 .. len : old[r].start <= p /\ p <= old[r].end)
  <2> SUFFICES ASSUME NEW p \in Nat
               PROVE  (\E k \in 1 .. n : ps[k] = p) <=> (p = q \/ \E k \in 1 .. n - 1 : ps[k] = p)
    BY <1>8
  <2>1. \A k \in 1 .. n : k = n \/ k \in 1 .. n - 1
    OBVIOUS
  <2>2. n \in 1 .. n /\ \A k \in 1 .. n - 1 : k \in 1 .. n
    OBVIOUS
  <2> QED BY <2>1, <2>2, <1>2
<1>10. \A r \in 1 .. len : r > 1 => old[r].start > old[r - 1].end + 1
  BY <1>3 DEF ShowsFirst
<1>11. line = Report!WithPort(old, q)
  BY <1>2
<1>12. Lengthens(old, q) <=> len # 0 /\ q = old[len].end + 1
  BY <1>1, <1>3, <1>7 DEF Lengthens
<1>13. PortAdded(old, q, line, len)
  BY <1>1, <1>3, <1>11, WithPortIs
<1>14. CASE Lengthens(old, q)
  <2>1. len # 0 /\ len \in 1 .. len /\ q = old[len].end + 1
    BY <1>12, <1>14, <1>7
  <2>2. /\ Len(line) = len /\ DOMAIN line = 1 .. len
        /\ \A r \in 1 .. len - 1 : line[r] = old[r]
        /\ line[len].start = old[len].start /\ line[len].end = q
    BY <1>13, <1>14 DEF PortAdded
  <2>3. \A r \in 1 .. len : r = len \/ (r \in 1 .. len - 1 /\ line[r] = old[r])
    BY <2>2
  <2>4. \A r \in 1 .. len : line[r].start = old[r].start /\ line[r].start <= line[r].end
    <3> SUFFICES ASSUME NEW r \in 1 .. len
                 PROVE  line[r].start = old[r].start /\ line[r].start <= line[r].end
      OBVIOUS
    <3>1. CASE r = len
      BY <3>1, <2>1, <2>2, <1>4
    <3>2. CASE r # len
      BY <3>2, <2>3, <1>4
    <3> QED BY <3>1, <3>2
  <2>5. \A r \in 1 .. len : r > 1 => line[r].start > line[r - 1].end + 1
    <3> SUFFICES ASSUME NEW r \in 1 .. len, r > 1
                 PROVE  line[r].start > line[r - 1].end + 1
      OBVIOUS
    <3>1. r - 1 \in 1 .. len - 1 /\ line[r - 1] = old[r - 1]
      BY <2>2
    <3> QED BY <3>1, <2>4, <1>10
  <2>6. ASSUME NEW p \in Nat
        PROVE  (\E r \in 1 .. len : line[r].start <= p /\ p <= line[r].end)
                 <=> (\E k \in 1 .. n : ps[k] = p)
    <3>1. ASSUME NEW r \in 1 .. len, line[r].start <= p, p <= line[r].end
          PROVE  p = q \/ \E s \in 1 .. len : old[s].start <= p /\ p <= old[s].end
      <4>1. CASE r = len
        <5>1. old[len].start <= p /\ p <= q
          BY <3>1, <4>1, <2>2
        <5>2. p = q \/ p <= old[len].end
          BY <5>1, <2>1, <1>4, <1>5
        <5> QED BY <5>1, <5>2, <2>1
      <4>2. CASE r # len
        BY <3>1, <4>2, <2>3
      <4> QED BY <4>1, <4>2
    <3>2. ASSUME NEW s \in 1 .. len, old[s].start <= p, p <= old[s].end
          PROVE  line[s].start <= p /\ p <= line[s].end
      <4>1. CASE s = len
        <5>1. old[len].start <= p /\ p <= old[len].end /\ old[len].end \in Nat
          BY <3>2, <4>1, <1>4
        <5>2. p <= q
          BY <5>1, <2>1, <1>5
        <5> QED BY <5>1, <5>2, <4>1, <2>2
      <4>2. CASE s # len
        BY <3>2, <4>2, <2>3
      <4> QED BY <4>1, <4>2
    <3>3. line[len].start <= q /\ q <= line[len].end
      BY <2>1, <2>2, <2>4, <1>5
    <3>4. p = q \/ (\E s \in 1 .. len : old[s].start <= p /\ p <= old[s].end)
            => \E r \in 1 .. len : line[r].start <= p /\ p <= line[r].end
      BY <3>2, <3>3, <2>1
    <3>5. (\E r \in 1 .. len : line[r].start <= p /\ p <= line[r].end)
            => p = q \/ (\E s \in 1 .. len : old[s].start <= p /\ p <= old[s].end)
      BY <3>1
    <3> QED BY <3>4, <3>5, <1>9
  <2>7. n # 0 /\ line[Len(line)].end = ps[n]
    BY <2>2, <1>2
  <2>8. line \in Seq(LineRanges)
    BY <1>13 DEF PortAdded
  <2> QED BY <2>1, <2>2, <2>4, <2>5, <2>6, <2>7, <2>8 DEF ShowsFirst
<1>15. CASE ~Lengthens(old, q)
  <2>1. /\ Len(line) = len + 1 /\ DOMAIN line = 1 .. len + 1
        /\ \A r \in 1 .. len : line[r] = old[r]
        /\ line[len + 1].start = q /\ line[len + 1].end = q
    BY <1>13, <1>15 DEF PortAdded
  <2>2. \A r \in 1 .. len + 1 : r = len + 1 \/ (r \in 1 .. len /\ line[r] = old[r])
    BY <2>1
  <2>3. \A r \in 1 .. len + 1 : line[r].start <= line[r].end
    BY <2>1, <2>2, <1>4, <1>5
  <2>4. \A r \in 1 .. len + 1 : r > 1 => line[r].start > line[r - 1].end + 1
    <3> SUFFICES ASSUME NEW r \in 1 .. len + 1, r > 1
                 PROVE  line[r].start > line[r - 1].end + 1
      OBVIOUS
    <3>1. r - 1 \in 1 .. len /\ line[r - 1] = old[r - 1]
      BY <2>1
    <3>2. CASE r = len + 1
      <4>1. len # 0 /\ r - 1 = len /\ old[len].end \in Nat
        BY <3>1, <3>2, <1>4
      <4>2. old[len].end < q /\ q # old[len].end + 1
        BY <4>1, <1>7, <1>12, <1>15
      <4>3. q > old[len].end + 1
        BY <4>1, <4>2, <1>5
      <4> QED BY <4>1, <4>3, <3>1, <3>2, <2>1
    <3>3. CASE r # len + 1
      BY <3>1, <3>3, <2>2, <1>10
    <3> QED BY <3>2, <3>3
  <2>5. ASSUME NEW p \in Nat
        PROVE  (\E r \in 1 .. len + 1 : line[r].start <= p /\ p <= line[r].end)
                 <=> (\E k \in 1 .. n : ps[k] = p)
    <3>1. ASSUME NEW r \in 1 .. len + 1, line[r].start <= p, p <= line[r].end
          PROVE  p = q \/ \E s \in 1 .. len : old[s].start <= p /\ p <= old[s].end
      <4>1. CASE r = len + 1
        BY <3>1, <4>1, <2>1, <1>5
      <4>2. CASE r # len + 1
        BY <3>1, <4>2, <2>2
      <4> QED BY <4>1, <4>2
    <3>2. ASSUME NEW s \in 1 .. len, old[s].start <= p, p <= old[s].end
          PROVE  s \in 1 .. len + 1 /\ line[s].start <= p /\ p <= line[s].end
      BY <3>2, <2>1
    <3>3. len + 1 \in 1 .. len + 1 /\ line[len + 1].start <= q /\ q <= line[len + 1].end
      BY <2>1, <1>5
    <3>4. p = q \/ (\E s \in 1 .. len : old[s].start <= p /\ p <= old[s].end)
            => \E r \in 1 .. len + 1 : line[r].start <= p /\ p <= line[r].end
      BY <3>2, <3>3
    <3>5. (\E r \in 1 .. len + 1 : line[r].start <= p /\ p <= line[r].end)
            => p = q \/ (\E s \in 1 .. len : old[s].start <= p /\ p <= old[s].end)
      BY <3>1
    <3> QED BY <3>4, <3>5, <1>9
  <2>6. n # 0 /\ line[Len(line)].end = ps[n]
    BY <2>1, <1>2
  <2>7. line \in Seq(LineRanges)
    BY <1>13 DEF PortAdded
  <2>8. Len(line) # 0
    BY <2>1
  <2> QED BY <2>1, <2>3, <2>4, <2>5, <2>6, <2>7, <2>8 DEF ShowsFirst
<1> QED BY <1>14, <1>15

LEMMA LineExact ==
  ASSUME NEW ps \in Seq(Ports), Ascend(ps)
  PROVE  ShowsFirst(Report!format_port_ranges(ps), ps, Len(ps))
<1>1. PICK N \in Nat : N = Len(ps)
  OBVIOUS
<1>2. PICK f :
        /\ f[0] = <<>>
        /\ \A n \in 1 .. N : f[n] = Report!WithPort(f[n - 1], ps[n])
        /\ Report!format_port_ranges(ps) = f[N]
  BY <1>1, RoundsOfLine
<1> DEFINE T == {n \in 0 .. N : ~ShowsFirst(f[n], ps, n)}
<1> SUFFICES ASSUME T # {} PROVE FALSE
  <2>1. N \in 0 .. N
    OBVIOUS
  <2> QED BY <1>1, <1>2, <2>1
<1>3. T \subseteq Nat
  OBVIOUS
<1>4. PICK n \in T : \A m \in T : n <= m
  BY <1>3, LeastElement
<1>5. n \in 0 .. N /\ ~ShowsFirst(f[n], ps, n)
  OBVIOUS
<1>6. CASE n = 0
  <2>1. f[0] = <<>> /\ DOMAIN f[0] = {} /\ Len(f[0]) = 0 /\ f[0] \in Seq(LineRanges)
    BY <1>2
  <2>2. ShowsFirst(f[0], ps, 0)
    BY <2>1 DEF ShowsFirst
  <2> QED BY <2>2, <1>5, <1>6
<1>7. CASE n # 0
  <2>1. n - 1 \in 0 .. N /\ ~(n <= n - 1) /\ n \in 1 .. N
    BY <1>5, <1>7
  <2>2. ShowsFirst(f[n - 1], ps, n - 1)
    BY <2>1, <1>4
  <2>3. f[n] = Report!WithPort(f[n - 1], ps[n])
    BY <1>2, <2>1
  <2>4. ShowsFirst(f[n], ps, n)
    BY <1>1, <2>1, <2>2, <2>3, LineStep
  <2> QED BY <2>4, <1>5
<1> QED BY <1>6, <1>7
-----------------------------------------------------------------------------
PortsAscend(es) == \A k, l \in DOMAIN es : k < l => es[k].port < es[l].port

\* The ports are those of the first n entries that fail for the reason.
FailsFirst(ps, es, reason, n) ==
  /\ ps \in Seq(Ports)
  /\ \A x \in DOMAIN ps :
       \E k \in 1 .. n : Report!FailsFor(es[k], reason) /\ es[k].port = ps[x]
  /\ \A k \in 1 .. n :
       Report!FailsFor(es[k], reason) => \E x \in DOMAIN ps : ps[x] = es[k].port
  /\ Ascend(ps)

LEMMA FailStep ==
  ASSUME NEW es \in Seq(Report!Entries), PortsAscend(es), NEW n \in 1 .. Len(es),
         NEW reason, NEW old, FailsFirst(old, es, reason, n - 1),
         NEW ps, ps = IF Report!FailsFor(es[n], reason) THEN Append(old, es[n].port) ELSE old
  PROVE  FailsFirst(ps, es, reason, n)
<1>1. n \in Nat /\ n - 1 \in Nat /\ \A k \in 1 .. n : k = n \/ k \in 1 .. n - 1
  OBVIOUS
<1>2. \A k \in 1 .. n - 1 : k \in 1 .. n /\ k \in DOMAIN es /\ n \in DOMAIN es /\ k < n
  OBVIOUS
<1>3. CASE ~Report!FailsFor(es[n], reason)
  BY <1>1, <1>2, <1>3 DEF FailsFirst
<1>4. CASE Report!FailsFor(es[n], reason)
  <2>1. PICK q \in Ports : q = es[n].port
    BY DEF Report!Entries, Report!Entry, Ports
  <2>2. ps = Append(old, q) /\ old \in Seq(Ports)
    BY <1>4, <2>1 DEF FailsFirst
  <2>3. PICK len \in Nat : len = Len(old)
    BY <2>2
  <2>4. /\ ps \in Seq(Ports) /\ DOMAIN ps = 1 .. len + 1 /\ DOMAIN old = 1 .. len
        /\ \A x \in 1 .. len : ps[x] = old[x]
        /\ ps[len + 1] = q
    BY <2>2, <2>3
  <2>5. \A x \in 1 .. len + 1 : x = len + 1 \/ (x \in 1 .. len /\ ps[x] = old[x])
    BY <2>4
  <2>6. \A x \in 1 .. len :
          \E k \in 1 .. n - 1 : Report!FailsFor(es[k], reason) /\ es[k].port = old[x]
    BY <2>4 DEF FailsFirst
  <2>7. \A x \in 1 .. len : old[x] < q
    <3> SUFFICES ASSUME NEW x \in 1 .. len PROVE old[x] < q
      OBVIOUS
    <3>1. PICK k \in 1 .. n - 1 : es[k].port = old[x]
      BY <2>6
    <3>2. es[k].port < es[n].port
      BY <1>2 DEF PortsAscend
    <3> QED BY <3>1, <3>2, <2>1
  <2>8. ASSUME NEW x \in 1 .. len + 1
        PROVE  \E k \in 1 .. n : Report!FailsFor(es[k], reason) /\ es[k].port = ps[x]
    <3>1. CASE x = len + 1
      <4>1. n \in 1 .. n
        OBVIOUS
      <4> QED BY <3>1, <4>1, <2>1, <2>4, <1>4
    <3>2. CASE x # len + 1
      BY <3>2, <2>5, <2>6, <1>2
    <3> QED BY <3>1, <3>2
  <2>9. ASSUME NEW k \in 1 .. n, Report!FailsFor(es[k], reason)
        PROVE  \E x \in 1 .. len + 1 : ps[x] = es[k].port
    <3>1. CASE k = n
      <4>1. len + 1 \in 1 .. len + 1
        OBVIOUS
      <4> QED BY <3>1, <4>1, <2>1, <2>4
    <3>2. CASE k # n
      <4>1. k \in 1 .. n - 1
        BY <3>2
      <4>2. PICK x \in 1 .. len : old[x] = es[k].port
        BY <4>1, <2>4, <2>9 DEF FailsFirst
      <4>3. x \in 1 .. len + 1
        OBVIOUS
      <4> QED BY <4>2, <4>3, <2>4
    <3> QED BY <3>1, <3>2
  <2>10. ASSUME NEW x \in 1 .. len + 1, NEW y \in 1 .. len + 1, x < y PROVE ps[x] < ps[y]
    <3>1. x \in 1 .. len /\ ps[x] = old[x]
      BY <2>10, <2>4
    <3>2. CASE y = len + 1
      BY <3>1, <3>2, <2>4, <2>7
    <3>3. CASE y # len + 1
      <4>1. y \in 1 .. len /\ ps[y] = old[y]
        BY <3>3, <2>5
      <4> QED BY <3>1, <4>1, <2>4, <2>10 DEF FailsFirst, Ascend
    <3> QED BY <3>2, <3>3
  <2> QED BY <2>4, <2>8, <2>9, <2>10 DEF FailsFirst, Ascend
<1> QED BY <1>3, <1>4

LEMMA FailMapExact ==
  ASSUME NEW es \in Seq(Report!Entries), PortsAscend(es), NEW reason
  PROVE  FailsFirst(Report!fail_map(es, reason), es, reason, Len(es))
<1>1. PICK N \in Nat : N = Len(es)
  OBVIOUS
<1>2. PICK f :
        /\ f[0] = <<>>
        /\ \A n \in 1 .. N :
             f[n] = IF Report!FailsFor(es[n], reason)
                    THEN Append(f[n - 1], es[n].port) ELSE f[n - 1]
        /\ Report!fail_map(es, reason) = f[N]
  BY <1>1, PortsOfFailMap
<1> DEFINE T == {n \in 0 .. N : ~FailsFirst(f[n], es, reason, n)}
<1> SUFFICES ASSUME T # {} PROVE FALSE
  <2>1. N \in 0 .. N
    OBVIOUS
  <2> QED BY <1>1, <1>2, <2>1
<1>3. T \subseteq Nat
  OBVIOUS
<1>4. PICK n \in T : \A m \in T : n <= m
  BY <1>3, LeastElement
<1>5. n \in 0 .. N /\ ~FailsFirst(f[n], es, reason, n)
  OBVIOUS
<1>6. CASE n = 0
  <2>1. f[0] = <<>> /\ DOMAIN f[0] = {} /\ f[0] \in Seq(Ports)
    BY <1>2
  <2>2. \A k \in 1 .. 0 : FALSE
    OBVIOUS
  <2>3. FailsFirst(f[0], es, reason, 0)
    BY <2>1, <2>2 DEF FailsFirst, Ascend
  <2> QED BY <2>3, <1>5, <1>6
<1>7. CASE n # 0
  <2>1. n - 1 \in 0 .. N /\ ~(n <= n - 1) /\ n \in 1 .. N
    BY <1>5, <1>7
  <2>2. FailsFirst(f[n - 1], es, reason, n - 1)
    BY <2>1, <1>4
  <2>3. f[n] = IF Report!FailsFor(es[n], reason)
               THEN Append(f[n - 1], es[n].port) ELSE f[n - 1]
    BY <1>2, <2>1
  <2>4. FailsFirst(f[n], es, reason, n)
    BY <1>1, <2>1, <2>2, <2>3, FailStep
  <2> QED BY <2>4, <1>5
<1> QED BY <1>6, <1>7

LEMMA LineTold == results \in Seq(Report!Entries) => FailLineExact
<1> SUFFICES ASSUME results \in Seq(Report!Entries),
                    NEW i \in DOMAIN results, NEW j \in DOMAIN results,
                    i <= j, Report!IsBatch(i, j), NEW reason,
                    NEW es, es = SubSeq(results, i, j),
                    NEW line, line = Report!format_port_ranges(Report!fail_map(es, reason))
             PROVE  /\ UNION {line[r].start .. line[r].end : r \in DOMAIN line}
                          = {results[k].port : k \in {l \in i .. j : Report!FailsFor(results[l], reason)}}
                    /\ \A r \in DOMAIN line : r > 1 => line[r].start > line[r - 1].end + 1
  BY DEF FailLineExact, Report!FailLineExact
<1>1. i \in Nat /\ j \in Nat /\ 1 <= i /\ j <= Len(results) /\ Len(results) \in Nat
  OBVIOUS
<1>2. PICK N \in Nat : N = j - i + 1
  BY <1>1
<1>3. /\ es \in Seq(Report!Entries) /\ Len(es) = N /\ DOMAIN es = 1 .. N
      /\ \A k \in 1 .. N : es[k] = results[i + k - 1]
  BY <1>1, <1>2
<1>4. PortsAscend(es)
  <2> SUFFICES ASSUME NEW k \in 1 .. N, NEW l \in 1 .. N, k < l
               PROVE  es[k].port < es[l].port
    BY <1>3 DEF PortsAscend
  <2>1. i + k - 1 \in i .. j /\ i + l - 1 \in i .. j /\ i + k - 1 < i + l - 1
    <3>1. PICK a, b, x, y \in Nat : a = i /\ b = j /\ x = k /\ y = l
      BY <1>1
    <3>2. 1 <= x /\ x < y /\ y <= b - a + 1
      BY <3>1, <1>2
    <3>3. a + x - 1 \in a .. b /\ a + y - 1 \in a .. b /\ a + x - 1 < a + y - 1
      BY <3>2
    <3> QED BY <3>1, <3>3
  <2>2. results[i + k - 1].port < results[i + l - 1].port
    BY <2>1 DEF Report!IsBatch
  <2> QED BY <2>2, <1>3
<1>5. PICK ps : ps = Report!fail_map(es, reason)
  OBVIOUS
<1>6. FailsFirst(ps, es, reason, N)
  BY <1>3, <1>4, <1>5, FailMapExact
<1>7. ps \in Seq(Ports) /\ Ascend(ps) /\ Len(ps) \in Nat /\ DOMAIN ps = 1 .. Len(ps)
  BY <1>6 DEF FailsFirst
<1>8. ShowsFirst(line, ps, Len(ps))
  BY <1>5, <1>7, LineExact
<1>9. line \in Seq(LineRanges) /\ \A r \in DOMAIN line : r > 1 => line[r].start > line[r - 1].end + 1
  BY <1>8 DEF ShowsFirst
<1>10. PICK Failed : Failed = {l \in i .. j : Report!FailsFor(results[l], reason)}
  OBVIOUS
<1>11. \A l \in Failed : l \in i .. j /\ l \in DOMAIN results /\ results[l].port \in Nat
  <2> SUFFICES ASSUME NEW l \in Failed
               PROVE  l \in i .. j /\ l \in DOMAIN results /\ results[l].port \in Nat
    OBVIOUS
  <2>1. l \in i .. j /\ l \in DOMAIN results
    BY <1>1, <1>10
  <2>2. results[l] \in Report!Entries
    BY <2>1
  <2>3. PICK e \in Report!Entries : e = results[l]
    BY <2>2
  <2>4. e.port \in 0 .. MaxPort
    BY DEF Report!Entries, Report!Entry
  <2> QED BY <2>1, <2>3, <2>4
\* A port is in the line exactly if a result of the batch fails with it.
<1>12. ASSUME NEW p \in Nat
       PROVE  (\E r \in DOMAIN line : p \in line[r].start .. line[r].end)
                <=> (\E l \in Failed : results[l].port = p)
  <2>1. \A r \in DOMAIN line : line[r].start \in Nat /\ line[r].end \in Nat
    <3> SUFFICES ASSUME NEW r \in DOMAIN line PROVE line[r].start \in Nat /\ line[r].end \in Nat
      OBVIOUS
    <3>1. line[r] \in LineRanges
      BY <1>9
    <3> QED BY <3>1 DEF LineRanges, Ports
  <2>2. (\E r \in DOMAIN line : line[r].start <= p /\ p <= line[r].end)
          <=> (\E k \in DOMAIN ps : ps[k] = p)
    BY <1>7, <1>8 DEF ShowsFirst
  <2>3. (\E k \in DOMAIN ps : ps[k] = p)
          <=> \E k \in 1 .. N : Report!FailsFor(es[k], reason) /\ es[k].port = p
    <3>1. \A x \in DOMAIN ps :
            \E k \in 1 .. N : Report!FailsFor(es[k], reason) /\ es[k].port = ps[x]
      BY <1>6 DEF FailsFirst
    <3>2. \A k \in 1 .. N :
            Report!FailsFor(es[k], reason) => \E x \in DOMAIN ps : ps[x] = es[k].port
      BY <1>6 DEF FailsFirst
    <3>3. ASSUME NEW x \in DOMAIN ps, ps[x] = p
          PROVE  \E k \in 1 .. N : Report!FailsFor(es[k], reason) /\ es[k].port = p
      BY <3>1, <3>3
    <3>4. ASSUME NEW k \in 1 .. N, Report!FailsFor(es[k], reason), es[k].port = p
          PROVE  \E x \in DOMAIN ps : ps[x] = p
      BY <3>2, <3>4
    <3> QED BY <3>3, <3>4
  <2>4. ASSUME NEW k \in 1 .. N, Report!FailsFor(es[k], reason), es[k].port = p
        PROVE  \E l \in Failed : results[l].port = p
    <3>1. i + k - 1 \in i .. j
      BY <1>1, <1>2
    <3>2. es[k] = results[i + k - 1]
      BY <1>3
    <3>3. i + k - 1 \in Failed
      BY <3>1, <3>2, <2>4, <1>10
    <3> QED BY <3>2, <3>3, <2>4
  <2>5. ASSUME NEW l \in Failed, results[l].port = p
        PROVE  \E k \in 1 .. N : Report!FailsFor(es[k], reason) /\ es[k].port = p
    <3>1. l - i + 1 \in 1 .. N /\ i + (l - i + 1) - 1 = l
      BY <1>1, <1>2, <1>11
    <3>2. es[l - i + 1] = results[l]
      <4>1. PICK k \in 1 .. N : k = l - i + 1 /\ i + k - 1 = l
        BY <3>1
      <4> QED BY <4>1, <1>3
    <3>3. Report!FailsFor(results[l], reason)
      BY <1>10
    <3> QED BY <3>1, <3>2, <3>3, <2>5
  <2>6. (\E r \in DOMAIN line : p \in line[r].start .. line[r].end)
          <=> (\E r \in DOMAIN line : line[r].start <= p /\ p <= line[r].end)
    BY <2>1
  <2> QED BY <2>2, <2>3, <2>4, <2>5, <2>6
<1>13. UNION {line[r].start .. line[r].end : r \in DOMAIN line} = {results[k].port : k \in Failed}
  <2>1. PICK L : L = UNION {line[r].start .. line[r].end : r \in DOMAIN line}
    OBVIOUS
  <2>2. PICK D : D = {results[k].port : k \in Failed}
    OBVIOUS
  <2>3. \A p : p \in L <=> \E r \in DOMAIN line : p \in line[r].start .. line[r].end
    BY <2>1
  <2>4. \A p : p \in D <=> \E l \in Failed : results[l].port = p
    BY <2>2
  <2>5. \A p : p \in L => p \in Nat
    <3> SUFFICES ASSUME NEW p \in L PROVE p \in Nat
      OBVIOUS
    <3>1. PICK r \in DOMAIN line : p \in line[r].start .. line[r].end
      BY <2>3
    <3>2. line[r] \in LineRanges
      BY <1>9
    <3>3. line[r].start \in Nat /\ line[r].end \in Nat
      BY <3>2 DEF LineRanges, Ports
    <3> QED BY <3>1, <3>3
  <2>6. \A p : p \in D => p \in Nat
    BY <2>4, <1>11
  <2>7. \A p : p \in L <=> p \in D
    BY <2>3, <2>4, <2>5, <2>6, <1>12
  <2>8. L = D
    BY <2>7
  <2> QED BY <2>1, <2>2, <2>8
<1> QED BY <1>9, <1>10, <1>13

\* For any results of any scan, the live line of each batch shows for each
\* reason exactly the ports that failed for it, in ranges that could not be
\* longer.
THEOREM FailLinesAreExact == ReportSpec => []FailLineExact
<1>1. ReportInv => FailLineExact
  BY LineTold DEF ReportInv, ReportType, Entries
<1> QED BY <1>1, ReportInvariant, PTL
=============================================================================
