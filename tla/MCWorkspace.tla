----------------------------- MODULE MCWorkspace ----------------------------
(***************************************************************************)
(* Small instances of WorkspaceView for TLC.                               *)
(***************************************************************************)
EXTENDS WorkspaceView, TLC

CONSTANTS all, revoked, expired_card, c1, c2

MCFilters == {all, revoked, expired_card}
MCRefused == {expired_card}
MCItemIds == {c1, c2}
MCNoItems == {}
=============================================================================
