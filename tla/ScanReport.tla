------------------------------ MODULE ScanReport ------------------------------
(***************************************************************************)
(* From the command line to what the user reads: the scan that module      *)
(* ScanPlan cuts into batches, any results of its tests, and the lines and *)
(* the summary that run_client makes of them (module Summary).  The        *)
(* batches are executed one after the other, their results kept in the     *)
(* order of the plan (see TalliesComplete in module Client).               *)
(***************************************************************************)
EXTENDS ScanPlan, SequencesExt

CONSTANTS
  Outcomes,      \* [status, reason, server_error] a test may end with
  NameOrder,     \* the registered names, sorted
  MaxReported    \* the largest scan whose results are looked at

ASSUME ReportAssumption ==
  /\ NameOrder \in Seq(Registered)
  /\ \A name \in Registered : \E k \in DOMAIN NameOrder : NameOrder[k] = name
  /\ MaxReported \in Nat

VARIABLES
  executed,                 \* how many batches of the plan are executed
  results, taken, merged    \* see module Summary

\* The place of a protocol, transport and direction in merge_into_ranges' sort.
Index(seq, x) == CHOOSE k \in DOMAIN seq : seq[k] = x
GroupOf(proto, transport, dir) ==
  8 * Index(NameOrder, proto) + 2 * Index(<<"icmp", "tcp", "udp">>, transport)
    + Index(<<"->", "<-">>, dir)

Report == INSTANCE Summary WITH
  Groups <- {GroupOf(name, transport, dir) :
               name \in Registered, transport \in {"icmp", "tcp", "udp"}, dir \in {"->", "<-"}}

reportVars == <<executed, results, taken, merged>>
allVars == <<vars, reportVars>>

ReportInit == Init /\ executed = 0 /\ Report!SummaryInit

Plans == Next /\ UNCHANGED reportVars

\* The next batch has come back, each of its tests with any outcome.
Executed ==
  /\ Planned /\ executed < Len(plan) /\ id <= MaxReported
  /\ executed' = executed + 1
  /\ LET tested == plan[executed + 1] IN
       \E outcome \in [DOMAIN tested -> Outcomes] :
         Report!PushResults([k \in DOMAIN tested |->
           Report!Entry(GroupOf(tested[k].proto, tested[k].transport, tested[k].dir),
                        tested[k].port, outcome[k])])
  /\ UNCHANGED vars

Merges == executed = Len(plan) /\ Report!Merge /\ UNCHANGED <<vars, executed>>

ReportNext == Plans \/ Executed \/ Merges

ReportSpec == ReportInit /\ [][ReportNext]_allVars

Reported == results # <<>> /\ executed = Len(plan) /\ Report!AllMerged

-----------------------------------------------------------------------------
\* The options of the output, and whether it goes to a terminal.
Modes == [json : BOOLEAN, json_export : BOOLEAN, quiet : BOOLEAN, terminal : BOOLEAN]

\* should_render_interactive: failures on one live line, nothing else.
Interactive(mode) ==
  mode.terminal /\ ~mode.quiet /\ ~mode.json /\ ~mode.json_export

\* A result has a line of its own, or a place on the live line.
HasLine(mode, status) ==
  /\ ~mode.json_export
  /\ IF Interactive(mode) THEN status # "pass"
     ELSE mode.json \/ ~mode.quiet \/ status # "pass"

\* A result is kept for the end of the scan.
Kept_NotForJson(mode) == ~mode.json
Kept(mode) == ~mode.json \/ mode.json_export

\* A range is shown at the end: by the export, or among the allow rules.
Shown(mode, range) ==
  /\ Kept(mode)
  /\ mode.json_export \/ range.outcome.status = "pass"

-----------------------------------------------------------------------------
RangesFaithful == Report!RangesFaithful
RangesMaximal == Report!RangesMaximal
FailLineExact == Report!FailLineExact

\* However the output is asked for, no result of a scan is lost: each has a
\* line, or is in a range of the export or of the allow rules (print_result,
\* print_fail_live, print_json_export, print_user_summary).
EveryResultTold ==
  Reported =>
    \A mode \in Modes, k \in DOMAIN results :
      \/ HasLine(mode, results[k].outcome.status)
      \/ \E m \in Report!Covering(results[k]) : Shown(mode, merged[m])

\* The ranges of the report are the scan the command line asked for: each
\* port is in one range for each time a test name and a --port-range ask for
\* it, and no other port is in any.
ReportCoversScan ==
  Reported =>
    \A name \in Registered, transport \in {"icmp", "tcp", "udp"}, p \in 0 .. MaxPort,
       dir \in {"->", "<-"} :
      Cardinality({m \in DOMAIN merged :
                     /\ merged[m].group = GroupOf(name, transport, dir)
                     /\ p \in merged[m].start .. merged[m].end})
        = Wanted(Key(name, transport, p, dir))
=============================================================================
