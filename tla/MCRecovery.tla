----------------------------- MODULE MCRecovery -----------------------------
(***************************************************************************)
(* Small instances of RecoverySystem for TLC.                              *)
(***************************************************************************)
EXTENDS RecoveryClaims, EpisodeRefinement, TLC

CONSTANTS e1, e2, e3, s1, s2, r1, r2, w1, w2

(* The back-off tables keep the order of the code's values relative to the *)
(* cooldown: only the first gateway delay is below it.                     *)
MCFunds == <<2, 3>>
MCGateway == <<1, 2>>

Signal(matched) == [cancelled |-> FALSE, matched |-> matched]

Failure(status, matched) ==
    [sub |-> s1, status |-> status, signal |-> Signal(matched), amount |-> TRUE]

MCEvents == {e1, e2}
MCOneEvent == {e1}
MCThreeEvents == {e1, e2, e3}
MCSubs == {s1}
MCRunners == {r1}
MCTwoRunners == {r1, r2}
MCWorkers == {w1}
MCTwoWorkers == {w1, w2}
MCNoWorkers == {}
MCFourIds == 1 .. 4
MCSixIds == 1 .. 6

GatewayFailure == Failure("halted", {"bank_or_gateway_error"})
FundsFailure == Failure("halted", {"insufficient_funds"})
CardFailure == Failure("pending", {"expired_or_invalid_card"})
RevokedFailure == Failure("halted", {"mandate_revoked", "insufficient_funds"})
UnknownFailure == Failure(None, {})
NoAmount == [CardFailure EXCEPT !.amount = FALSE]
NoSubscription == [UnknownFailure EXCEPT !.sub = None]

MCRetryBodies == {GatewayFailure, FundsFailure}
MCProgressBodies == {GatewayFailure, CardFailure}
MCGatewayBodies == {GatewayFailure}
MCMirrorBodies == {GatewayFailure, Failure("pending", {"insufficient_funds"})}
MCAllBodies == {GatewayFailure, FundsFailure, CardFailure, RevokedFailure,
                UnknownFailure, NoAmount, NoSubscription}

MCLive == {"halted", "active"}
MCWideLive == {"halted", "active", "cancelled", None}

Symmetry == Permutations(Workers) \cup Permutations(Runners) \cup Permutations(Events)
=============================================================================
