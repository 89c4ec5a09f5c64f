----------------------------- MODULE MCSynthetic ----------------------------
(***************************************************************************)
(* Small instances of SyntheticBatch for TLC.                              *)
(***************************************************************************)
EXTENDS SyntheticBatch, TLC

MCFunds == <<2, 3>>
MCGateway == <<1, 2>>

MCCases == 1 .. 6
MCCounts == {1, 5}
MCOneBatch == {5}
=============================================================================
