------------------------------ MODULE MCSession ------------------------------
(***************************************************************************)
(* Small scans for TLC.                                                    *)
(***************************************************************************)
EXTENDS Session

CONSTANTS r1, r2

Entry(id, port, dir) ==
  [id |-> id, proto |-> "echo", transport |-> "tcp", port |-> port, dir |-> dir]

\* --bidir on one port: one batch each way.
OnePortBothWays == << <<Entry(0, 1, "->")>>, <<Entry(1, 1, "<-")>> >>

\* --bidir on two ports with room for both in a batch.
TwoPortsBothWays ==
  << <<Entry(0, 1, "->"), Entry(1, 2, "->")>>,
     <<Entry(2, 1, "<-"), Entry(3, 2, "<-")>> >>

\* Three ports one way, two at a time: a full batch, then a shorter one.
ThreePorts ==
  << <<Entry(0, 1, "->"), Entry(1, 2, "->")>>, <<Entry(2, 3, "->")>> >>

AllResults == {Pass, Fail(r1), Error(r2)}
SomeResults == {Pass, Error(r1)}
=============================================================================
