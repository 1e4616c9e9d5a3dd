---------------------------- MODULE MCServerLoop ----------------------------
(***************************************************************************)
(* The messages of arbitrary clients, for TLC.                             *)
(***************************************************************************)
EXTENDS ServerLoop

CONSTANTS r1

Entry(id, proto) ==
  [id |-> id, proto |-> proto, transport |-> "tcp", port |-> 1, dir |-> "->"]

AnyInputs ==
  {Configure(3, 0), Configure(3, 2), Configure(2, 2), Hello(3),
   Test(Entry(0, "echo")), Test(Entry(1, "echo")), Test(Entry(1, "bogus")),
   BatchEnd, Done}

SomeResults == {Pass, Error(r1)}
=============================================================================
