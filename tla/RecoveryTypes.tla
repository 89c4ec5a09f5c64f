--------------------------- MODULE RecoveryTypes ---------------------------
(***************************************************************************)
(* The enumerations of app/enums.py, and the constants every part of the   *)
(* recovery loop shares: the guardrail's bounds, the policy's back-off     *)
(* tables and the null value of the database columns.                      *)
(***************************************************************************)
EXTENDS Integers, Sequences

CONSTANTS
    None,            \* SQL NULL, Python's None
    MaxRetries,      \* GuardrailConfig.max_retries
    Cooldown,        \* GuardrailConfig.cooldown, in ticks of the clock
    FundsBackoff,    \* _FUNDS_BACKOFF, in ticks
    GatewayBackoff   \* _GATEWAY_BACKOFF, in ticks

SubscriptionStatus ==
    {"created", "authenticated", "active", "pending", "halted",
     "cancelled", "completed", "expired", "paused"}

(* "absent" is no value of the program: the row does not exist yet.        *)
EventProcessingStatus == {"pending", "processed", "failed"}

DiagnosisCategory ==
    {"insufficient_funds", "expired_or_invalid_card", "bank_or_gateway_error",
     "mandate_revoked", "other"}

ActionType == {"retry_charge", "send_payment_link", "escalate_manual", "mark_dead"}

(* ActionStatus.CANCELLED is declared by the program and never assigned.   *)
ActionStatus ==
    {"planned", "scheduled", "executing", "executed", "failed", "cancelled", "skipped"}

OutcomeStatus == {"recovered", "still_at_risk", "escalated", "dead"}

(* The webhook or the live API may carry no status, or one outside the     *)
(* enumeration: _to_sub_status turns both into None.                       *)
MaybeStatus == SubscriptionStatus \cup {None}

ASSUME NoneAssumption ==
    /\ None \notin SubscriptionStatus
    /\ None # "absent"
    /\ None \notin Nat

ASSUME ConfigAssumption ==
    /\ MaxRetries \in Nat
    /\ Cooldown \in Nat
    /\ FundsBackoff \in Seq(Nat) /\ FundsBackoff # << >>
    /\ GatewayBackoff \in Seq(Nat) /\ GatewayBackoff # << >>

(* What retry_scheduler.py 266-273 relies on: from the second entry on,    *)
(* every back-off is at least the cooldown.                                *)
ASSUME BackoffAssumption ==
    /\ Len(FundsBackoff) >= 2 /\ Len(GatewayBackoff) >= 2
    /\ \A i \in 2 .. Len(FundsBackoff) : FundsBackoff[i] >= Cooldown
    /\ \A i \in 2 .. Len(GatewayBackoff) : GatewayBackoff[i] >= Cooldown
=============================================================================
