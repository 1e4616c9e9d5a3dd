---------------------------- MODULE MCClientOpen ----------------------------
(***************************************************************************)
(* The messages of an arbitrary server, for TLC.                           *)
(***************************************************************************)
EXTENDS ClientOpen

CONSTANTS r1

Entry(id, port) ==
  [id |-> id, proto |-> "echo", transport |-> "tcp", port |-> port, dir |-> "->"]

\* Two batches: two tests, then one.
ThreePorts == << <<Entry(0, 1), Entry(1, 2)>>, <<Entry(2, 3)>> >>

OK      == [error |-> NoReason, transfers |-> TRUE]
Failed  == [error |-> r1, transfers |-> TRUE]
NotRun  == [error |-> r1, transfers |-> FALSE]

\* 9 is the id of no test.
AnyInputs ==
  {Hello(3), Hello(2), Ack(TRUE), Ack(FALSE), Bye}
  \cup {Report(id, OK) : id \in {0, 1, 2, 9}}
  \cup {Report(0, Failed), Report(0, NotRun), Report(1, NotRun), Report(2, Failed)}

SomeResults == {Pass, Fail(r1)}
=============================================================================
