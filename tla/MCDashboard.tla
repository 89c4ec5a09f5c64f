---------------------------- MODULE MCDashboard -----------------------------
(***************************************************************************)
(* Small instances of DashboardReads for TLC.                              *)
(***************************************************************************)
EXTENDS DashboardReads, TLC

CONSTANTS e1, e2, s1, s2, r1, w1

MCFunds == <<2, 3>>
MCGateway == <<1, 2>>

Failure(sub, matched) ==
    [sub |-> sub, status |-> "halted", amount |-> TRUE,
     signal |-> [cancelled |-> FALSE, matched |-> matched]]

MCEvents == {e1, e2}
MCPayments == {e1}
MCSubs == {s1, s2}
MCOneSub == {s1}
MCRunners == {r1}
MCWorkers == {w1}
MCNoWorkers == {}
MCIds == 1 .. 2
MCSkips == {0, 1}
MCNoSkips == {0}

MCBodies == {Failure(s1, {"bank_or_gateway_error"}), Failure(s1, {"mandate_revoked"}),
             Failure(s2, {})}
MCRetryBodies == {Failure(s1, {"bank_or_gateway_error"})}
MCManualBodies == {Failure(s1, {"mandate_revoked"}), Failure(s1, {})}

MCLive == {"halted", "active"}
MCActive == {"active"}
=============================================================================
