------------------------------- MODULE Batches -------------------------------
(***************************************************************************)
(* What run_client's loops hand to execute_batch, one batch after another: *)
(* the contract between module ScanPlan, which produces such plans, and    *)
(* module Client, which executes them.                                     *)
(***************************************************************************)
EXTENDS Naturals, Sequences

\* batch_size: --parallel 0 is taken as 1.
BatchSize(parallel) == IF parallel > 1 THEN parallel ELSE 1

\* All tests of a plan.
EntriesOf(plan) == UNION {{plan[b][i] : i \in DOMAIN plan[b]} : b \in DOMAIN plan}

\* No batch is empty or larger than batch_size, no id is used twice, and a
\* batch tests one protocol over one transport in one direction, every port
\* once.
WellFormed(plan, parallel) ==
  /\ \A b \in DOMAIN plan : Len(plan[b]) \in 1 .. BatchSize(parallel)
  /\ \A b, c \in DOMAIN plan : \A i \in DOMAIN plan[b], j \in DOMAIN plan[c] :
       plan[b][i].id = plan[c][j].id => b = c /\ i = j
  /\ \A b \in DOMAIN plan : \A i, j \in DOMAIN plan[b] :
       /\ plan[b][i].proto = plan[b][j].proto
       /\ plan[b][i].transport = plan[b][j].transport
       /\ plan[b][i].dir = plan[b][j].dir
       /\ plan[b][i].port = plan[b][j].port => i = j
=============================================================================
