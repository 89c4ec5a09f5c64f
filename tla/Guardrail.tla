------------------------------ MODULE Guardrail -----------------------------
(***************************************************************************)
(* app/agent/guardrail.py: the gate that every proposed action passes.     *)
(***************************************************************************)
EXTENDS RecoveryTypes

TerminalSafeActions == {"escalate_manual", "mark_dead"}

FrozenStates == {"cancelled", "expired", "completed"}

GuardrailCode ==
    {"ok", "post_cancellation_freeze", "max_retries_exceeded", "cooldown_active"}

(* GuardrailContext: last is None or the time of the last executed attempt.*)
Context(now, status, revoked, used, last) ==
    [now |-> now, status |-> status, revoked |-> revoked, used |-> used, last |-> last]

Frozen(ctx) == ctx.revoked \/ ctx.status \in FrozenStates

CoolingDown(ctx) == ctx.last # None /\ ctx.now - ctx.last < Cooldown

(* evaluate: the checks in the order the code makes them.                  *)
Evaluate(type, ctx) ==
    IF Frozen(ctx) /\ type \notin TerminalSafeActions THEN "post_cancellation_freeze"
    ELSE IF type = "retry_charge" /\ ctx.used >= MaxRetries THEN "max_retries_exceeded"
    ELSE IF type = "retry_charge" /\ CoolingDown(ctx) THEN "cooldown_active"
    ELSE "ok"
=============================================================================
