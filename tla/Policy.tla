------------------------------- MODULE Policy ------------------------------
(***************************************************************************)
(* app/agent/policy.py: the action proposed for a diagnosis, given how     *)
(* many retries the subscription has used.                                 *)
(***************************************************************************)
EXTENDS RecoveryTypes

(* The retryable causes and the back-off each is given.                    *)
Schedule == [insufficient_funds |-> FundsBackoff,
             bank_or_gateway_error |-> GatewayBackoff]

(* What is proposed when the cause is not retryable or retries are used up.*)
Fallback == [insufficient_funds |-> "send_payment_link",
             bank_or_gateway_error |-> "escalate_manual",
             expired_or_invalid_card |-> "send_payment_link",
             mandate_revoked |-> "escalate_manual",
             other |-> "escalate_manual"]

Retryable == DOMAIN Schedule

(* Mutant: every retry waits as long as the first.                         *)
BackoffConstant(schedule, n) == schedule[1]

(* _backoff: the code's index is zero-based, and clamped to the last entry.*)
Backoff(schedule, n) ==
    IF n < Len(schedule) THEN schedule[n + 1] ELSE schedule[Len(schedule)]

(* decide: a delay of 0 stands for the code's None, "act now".             *)
Decide(category, n) ==
    IF category \in Retryable /\ n < MaxRetries
    THEN [type |-> "retry_charge", delay |-> Backoff(Schedule[category], n)]
    ELSE [type |-> Fallback[category], delay |-> 0]
=============================================================================
