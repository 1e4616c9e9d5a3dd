------------------------------- MODULE Summary -------------------------------
(***************************************************************************)
(* What run_client makes of the results it kept: merge_into_ranges joins   *)
(* the ports of equal outcome into ranges, for the candidate allow rules   *)
(* and the JSON export; format_port_ranges does it for the live line of    *)
(* failures of one batch.  Texts are left out; a protocol, transport and   *)
(* direction are one group, numbered in the order of their sort.           *)
(***************************************************************************)
EXTENDS Naturals, SequencesExt

CONSTANTS
  Groups,       \* (protocol, transport, direction), in sort order
  MaxPort,      \* u16::MAX
  Outcomes      \* [status, reason, server_error] of a result

VARIABLES
  results,    \* the TestEntries in the order in which they were pushed
  taken,      \* how many of them, sorted, the loop has taken
  merged      \* the MergedEntries so far

summaryVars == <<results, taken, merged>>

Entry(group, port, outcome) == [group |-> group, port |-> port, outcome |-> outcome]
Entries == {Entry(g, p, o) : g \in Groups, p \in 0 .. MaxPort, o \in Outcomes}

SummaryInit ==
  /\ results = <<>>
  /\ taken = 0
  /\ merged = <<>>

\* execute_batch pushes the results of a batch.
PushResults(entries) ==
  /\ results' = results \o entries
  /\ UNCHANGED <<taken, merged>>

\* sort_by is stable: results of the same group and port stay as they came.
Before_GroupOnly(i, j) ==
  \/ results[i].group < results[j].group
  \/ results[i].group = results[j].group /\ i < j
Before(i, j) ==
  LET a == results[i]
      b == results[j]
  IN \/ a.group < b.group
     \/ a.group = b.group /\ a.port < b.port
     \/ a.group = b.group /\ a.port = b.port /\ i < j

\* The k-th of them is the result that k - 1 others come before.
Rank(i) == Cardinality({j \in DOMAIN results : Before(j, i)})
sorted ==
  [k \in DOMAIN results |-> results[CHOOSE i \in DOMAIN results : Rank(i) = k - 1]]

\* A result continues the last range: same group, same outcome, next port;
\* checked_add finds no next port after MaxPort.
Continues_AnyOutcome(last, entry) ==
  last.group = entry.group /\ last.end # MaxPort /\ last.end + 1 = entry.port
Continues_AnyGroup(last, entry) ==
  last.outcome = entry.outcome /\ last.end # MaxPort /\ last.end + 1 = entry.port
Continues(last, entry) ==
  /\ last.group = entry.group
  /\ last.outcome = entry.outcome
  /\ last.end # MaxPort /\ last.end + 1 = entry.port

\* One round of merge_into_ranges' loop.
Merge ==
  /\ taken < Len(results)
  /\ taken' = taken + 1
  /\ LET entry == sorted[taken + 1] IN
       merged' =
         IF merged # <<>> /\ Continues(Last(merged), entry)
         THEN Append(Front(merged),
                     [Last(merged) EXCEPT !.end = entry.port, !.count = @ + 1])
         ELSE Append(merged, [group |-> entry.group, outcome |-> entry.outcome,
                              start |-> entry.port, end |-> entry.port, count |-> 1])
  /\ UNCHANGED results

AllMerged == taken = Len(results)

\* format_port_ranges, with its u16 addition, on the ports of one batch.
NextPort_Same(port) == port
NextPort(port) == (port + 1) % (MaxPort + 1)
WithPort(ranges, port) ==
  IF ranges # <<>> /\ port = NextPort(Last(ranges).end)
  THEN Append(Front(ranges), [Last(ranges) EXCEPT !.end = port])
  ELSE Append(ranges, [start |-> port, end |-> port])
format_port_ranges(ports) ==
  LET line[n \in 0 .. Len(ports)] == IF n = 0 THEN <<>> ELSE WithPort(line[n - 1], ports[n])
  IN line[Len(ports)]

\* fail_map: the ports of the entries that failed for a reason, as they come.
FailsFor(entry, reason) == entry.outcome.status # "pass" /\ entry.outcome.reason = reason
fail_map(entries, reason) ==
  LET ports[n \in 0 .. Len(entries)] ==
        IF n = 0 THEN <<>>
        ELSE IF FailsFor(entries[n], reason) THEN Append(ports[n - 1], entries[n].port)
        ELSE ports[n - 1]
  IN ports[Len(entries)]

-----------------------------------------------------------------------------
Covering(entry) ==
  {m \in DOMAIN merged : /\ merged[m].group = entry.group
                         /\ merged[m].outcome = entry.outcome
                         /\ entry.port \in merged[m].start .. merged[m].end}

\* merge_into_ranges neither loses nor invents a result, at any moment of its
\* loop: a port is covered by as many ranges of its group and outcome as it
\* has results, also where overlapping --port-range options test a port twice
\* and the two tests end differently; count is the size of the range.
RangesFaithful ==
  LET done == SubSeq(sorted, 1, taken) IN
    /\ \A entry \in Entries :
         Cardinality(Covering(entry)) = Cardinality({k \in DOMAIN done : done[k] = entry})
    /\ \A m \in DOMAIN merged : merged[m].count = merged[m].end - merged[m].start + 1

PortsDistinct ==
  \A i, j \in DOMAIN results :
    results[i].group = results[j].group /\ results[i].port = results[j].port => i = j

\* With every port tested once the ranges are as long as they can be: "groups
\* successful tests into candidate allow rules" (README) leaves no two that
\* could be one.
RangesMaximal ==
  PortsDistinct =>
    \A m, n \in DOMAIN merged :
      merged[m].group = merged[n].group /\ merged[m].outcome = merged[n].outcome
        => merged[n].start # merged[m].end + 1

\* Results i to j are those of a batch: its ports are in ascending order.
IsBatch(i, j) ==
  \A k, l \in i .. j :
    k < l => results[k].group = results[l].group /\ results[k].port < results[l].port

\* The live line of a batch (fail_map, format_port_ranges) shows, for each
\* reason, exactly the ports that failed for it, up to port 65535, in ranges
\* that could not be longer.
FailLineExact ==
  \A i, j \in DOMAIN results : i <= j /\ IsBatch(i, j) =>
    \A reason \in {o.reason : o \in {x \in Outcomes : x.status # "pass"}} :
      LET line == format_port_ranges(fail_map(SubSeq(results, i, j), reason))
      IN /\ UNION {line[r].start .. line[r].end : r \in DOMAIN line}
              = {results[k].port : k \in {l \in i .. j : FailsFor(results[l], reason)}}
         /\ \A r \in DOMAIN line : r > 1 => line[r].start > line[r - 1].end + 1
=============================================================================
