------------------------------- MODULE Verdict -------------------------------
(***************************************************************************)
(* What one end of a test observes (ProtocolResult), how the server turns  *)
(* it into a report on the control channel, and how the client reconciles  *)
(* that report with its own observation.  Byte counts are abstracted to    *)
(* their presence: the client only asks whether a report carries any       *)
(* transfer at all.  Reasons are opaque; "server: ..." prefixing, which    *)
(* the client applies to a reason it takes over, is the field relayed.     *)
(***************************************************************************)
CONSTANTS
  Reasons,   \* the texts a Fail or an Error may carry
  NoReason   \* the absent Option<String>

ASSUME ReasonsAssumption == NoReason \notin Reasons /\ Reasons # {}

Statuses == {"pass", "fail", "error"}

Observed(status, reason) ==
  [status |-> status, reason |-> reason, relayed |-> FALSE]

Pass     == Observed("pass", NoReason)
Fail(r)  == Observed("fail", r)
Error(r) == Observed("error", r)

\* Everything a run of a test can return at one end.
Observations ==
  {Pass} \cup {Fail(r) : r \in Reasons} \cup {Error(r) : r \in Reasons}

\* Everything the client can hold for a test: an observation of its own, or
\* one taken over from the server.
ProtocolResult == [status  : Statuses,
                   reason  : Reasons \cup {NoReason},
                   relayed : BOOLEAN]

\* The parts of a Report besides its id.
ReportBody == [error : Reasons \cup {NoReason}, transfers : BOOLEAN]

\* protocol_result_to_report: a Fail carries its byte counts, an Error none.
protocol_result_to_report(result) ==
  [error |-> result.reason, transfers |-> result.status # "error"]

\* The client's rule: a server-side failure overrides a local pass, and
\* becomes an error when the report carries no transfer; a local failure or
\* error is kept as it is.
Reconcile_Always(local, body) ==
  IF body.error = NoReason THEN local
  ELSE [status |-> "fail", reason |-> body.error, relayed |-> TRUE]
Reconcile_Never(local, body) == local
Reconcile(local, body) ==
  IF body.error = NoReason \/ local.status # "pass"
  THEN local
  ELSE [status  |-> IF body.transfers THEN "fail" ELSE "error",
        reason  |-> body.error,
        relayed |-> TRUE]

\* The verdict of a test from what its two ends observed.
Combine(local, remote) == Reconcile(local, protocol_result_to_report(remote))
=============================================================================
