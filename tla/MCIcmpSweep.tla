---------------------------- MODULE MCIcmpSweep ----------------------------
(***************************************************************************)
(* Types for TLC: one that no reply is expected to, which is itself the    *)
(* reply expected to the other one.                                        *)
(***************************************************************************)
EXTENDS IcmpSweep, TLC

TwoTypes == <<0, 8>>

Symmetry == Permutations(Sweeps)
=============================================================================
