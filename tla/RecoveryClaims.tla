--------------------------- MODULE RecoveryClaims ---------------------------
(***************************************************************************)
(* What comments and docs of the repository say of the recovery loop, read *)
(* literally, and the code does not do. Each formula is refuted by a run   *)
(* of its own; the README says what the counterexample shows.              *)
(***************************************************************************)
EXTENDS RecoverySystem

(* executor.py 151-152: counting every retry row, "so the max-retries bound*)
(* holds across rapid re-failures".                                        *)
RetryBoundStrict == \A s \in Subs : Cardinality(RetryRows(s)) <= MaxRetries

(* guardrail.py 18: "a minimum spacing between retry attempts", taken over *)
(* the attempts of one subscription that have been executed.               *)
CooldownSpacing == \A s \in Subs : \A x, y \in RetryRows(s) :
    x # y /\ actions[x].exec # None /\ actions[y].exec # None =>
        \/ actions[x].exec - actions[y].exec >= Cooldown
        \/ actions[y].exec - actions[x].exec >= Cooldown

(* executor.py 373, "Idempotency: never re-process an event the loop has   *)
(* already handled": a session adds no action for an event that some other *)
(* session has marked as handled.                                          *)
NeverReprocessed == [][
    \A r \in Runners, id \in ActionIds :
        /\ job[r].pc = "decide" /\ job'[r] # job[r]
        /\ actions[id].status = "absent" /\ actions'[id].status # "absent"
        => events[job[r].ev].state = "pending"
    ]_vars

(* guardrail.py 14-16: "once a mandate is revoked ... no automated recovery*)
(* (retry or payment link) is permitted": no retry is scheduled and no link*)
(* requested for a subscription with a recorded mandate_revoked diagnosis. *)
RevokedStaysFrozen == [][
    \A id, revoked \in ActionIds :
        /\ actions[id].status = "absent"
        /\ actions'[id].status \in {"scheduled", "executing"}
        /\ actions[revoked].cat = "mandate_revoked"
        => actions[revoked].sub # actions'[id].sub
    ]_vars

(* retry_scheduler.py 211, "keep our mirror of Razorpay state fresh": when *)
(* an answered attempt is settled, the mirror shows the answer.            *)
MirrorKeptFresh == [][
    \A w \in Workers : LET id == job[w].act IN
        /\ job[w].pc \in {"fetched", "decide"} /\ job[w].status # None
        /\ actions[id].response = None /\ actions'[id].response # None
        => subs'[job[w].sub] = job[w].status
    ]_vars

(* retry_scheduler.py 201, "fetch error; left for a later poll": a retry   *)
(* whose call failed is called again, or followed up in its ladder.        *)
FetchFailed(id) ==
    /\ actions[id].type = "retry_charge" /\ actions[id].status = "failed"
    /\ actions[id].response = None

FollowedUp(id) == \E y \in ActionIds :
    actions[y].ev = actions[id].ev /\ actions[y].attempt > actions[id].attempt

FetchErrorIsPolledAgain == \A id \in ActionIds :
    FetchFailed(id) ~> (fetches[id] > 1 \/ FollowedUp(id))

(* retry_scheduler.py 343-344: after an error in one iteration "the next   *)
(* tick tries again": a claimed retry does not stay claimed for ever.      *)
Claimed(id) == actions[id].type = "retry_charge" /\ actions[id].status = "executing"

ClaimedIsTriedAgain == \A id \in ActionIds : Claimed(id) ~> ~Claimed(id)

(* retry_scheduler.py 165, "hand the retry back for later": a retry that is*)
(* deferred for want of a client is taken up once there is one.            *)
Deferred(id) == actions[id].type = "retry_charge" /\ actions[id].status = "planned"

DeferredIsTakenUp == \A id \in ActionIds : Deferred(id) ~> ~Deferred(id)
=============================================================================
