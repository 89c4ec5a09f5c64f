--------------------------- MODULE RetryScheduler ---------------------------
(***************************************************************************)
(* app/worker/retry_scheduler.py: workers claim due retries with SELECT ...*)
(* FOR UPDATE SKIP LOCKED, re-check each subscription at Razorpay, and     *)
(* either record the recovery or go down the same ladder as the executor.  *)
(***************************************************************************)
EXTENDS Executor

CONSTANT Limit       \* the batch size of claim_due_retries

ASSUME LimitAssumption == Limit \in Nat \ {0}

VARIABLES
    live,        \* the status Razorpay would answer for each subscription
    fetches      \* how often each retry row has made its Razorpay call

RecoveredStates == {"active", "authenticated", "completed"}

-----------------------------------------------------------------------------
(* claim_due_retries: the SELECT, then the commit of the flip.             *)

(* Mutant: the filter on the status is forgotten.                          *)
DueWhateverStatus == {id \in ActionIds :
    /\ actions[id].type = "retry_charge"
    /\ actions[id].sched # None /\ actions[id].sched <= clock}

Due == {id \in ActionIds :
    /\ actions[id].status = "scheduled"
    /\ actions[id].type = "retry_charge"
    /\ actions[id].sched <= clock}

Claimants == {w \in Workers : job[w].pc = "claim"}

(* Mutant: no row is locked by the SELECT.                                 *)
NoLocks == {}

LockedRows == UNION {job[w].queue : w \in Claimants}

(* The first Limit rows of S in the order of scheduled_at.                 *)
IsBatch(B, S) ==
    /\ IF Cardinality(S) <= Limit THEN B = S ELSE Cardinality(B) = Limit
    /\ \A x \in B, y \in S \ B : actions[x].sched <= actions[y].sched

ClaimSelect(w) ==
    /\ job[w].pc = "idle"
    /\ \E B \in (SUBSET (Due \ LockedRows)) \ {{}} :
          /\ IsBatch(B, Due \ LockedRows)
          /\ Set(w, [IdleJob EXCEPT !.pc = "claim", !.now = clock, !.queue = B])
    /\ UNCHANGED <<tables, links, wired, clock, live, fetches>>

ClaimCommit(w) ==
    /\ job[w].pc = "claim"
    /\ actions' = [id \in ActionIds |->
          IF id \in job[w].queue THEN [actions[id] EXCEPT !.status = "executing"]
          ELSE actions[id]]
    /\ Set(w, [job[w] EXCEPT !.pc = "next"])
    /\ UNCHANGED <<events, subs, outcomes, links, wired, clock, live, fetches>>

-----------------------------------------------------------------------------
(* execute_retry.                                                          *)

(* Load the rows, and commit the audit entry before the call.              *)
StartRetry(w) ==
    /\ job[w].pc = "next"
    /\ \E id \in job[w].queue :
          /\ \A y \in job[w].queue : actions[id].sched <= actions[y].sched
          /\ actions' = [actions EXCEPT ![id].aud = @ \cup {"recovery.retry.attempted"}]
          /\ Set(w, [IdleJob EXCEPT !.pc = "fetch", !.act = id, !.ev = actions[id].ev,
                                    !.sub = actions[id].sub, !.cat = actions[id].cat,
                                    !.status = subs[actions[id].sub],
                                    !.now = job[w].now, !.queue = job[w].queue \ {id}])
    /\ UNCHANGED <<events, subs, outcomes, links, wired, clock, live, fetches>>

EndRetry(w, status, exec, entries, response) ==
    /\ actions' = Settle(w, status, exec, entries, response)
    /\ Finish(w)
    /\ UNCHANGED <<events, links, wired, clock, live>>

DeferRetry(w) ==
    /\ job[w].pc = "fetch" /\ ~wired
    /\ EndRetry(w, "planned", None, {}, None)
    /\ UNCHANGED <<subs, outcomes, fetches>>

Call(w) ==
    /\ job[w].pc = "fetch" /\ wired
    /\ fetches' = [fetches EXCEPT ![job[w].act] = @ + 1]

(* The answer. The mirror is updated only when the answer differs from the *)
(* status loaded before the call, and not at all when it is no known status*)
Fetch(w) ==
    LET answer == live[job[w].sub]
    IN  /\ Call(w)
        /\ Set(w, [job[w] EXCEPT !.pc = "fetched", !.status = answer,
                                 !.dirty = answer # None /\ answer # job[w].status])
        /\ UNCHANGED <<tables, links, wired, clock, live>>

FetchError(w) ==
    /\ Call(w)
    /\ EndRetry(w, "failed", job[w].now, {"recovery.retry.failed"}, None)
    /\ UNCHANGED <<subs, outcomes>>

(* The flush of the mirror waits for its row lock.                         *)
MayFlush(w) == job[w].pc = "fetched" /\ (job[w].dirty => ~Held(job[w].sub))

Recover(w) ==
    /\ MayFlush(w)
    /\ job[w].status \in RecoveredStates
    /\ EndRetry(w, "executed", job[w].now, {"recovery.retry.recovered"}, "answer")
    /\ CommitMirror(w)
    /\ outcomes' = Append(outcomes, [act |-> job[w].act, ev |-> job[w].ev,
                                     kind |-> "recovered"])
    /\ UNCHANGED fetches

(* Mutant: the failed attempt is committed before the ladder is re-entered.*)
RelapseCommitted(w) ==
    /\ MayFlush(w)
    /\ job[w].status \notin RecoveredStates
    /\ actions' = Settle(w, "failed", job[w].now, {"recovery.retry.failed"}, "answer")
    /\ Set(w, [job[w] EXCEPT !.pc = "history"])
    /\ UNCHANGED <<events, subs, outcomes, links, wired, clock, live, fetches>>

(* Not recovered: flush the failed attempt, re-enter the ladder.           *)
Relapse(w) ==
    /\ MayFlush(w)
    /\ job[w].status \notin RecoveredStates
    /\ Set(w, [job[w] EXCEPT !.pc = "history"])
    /\ UNCHANGED <<tables, links, wired, clock, live, fetches>>

WorkerStep(w) ==
    \/ ClaimSelect(w)
    \/ ClaimCommit(w)
    \/ StartRetry(w)
    \/ DeferRetry(w)
    \/ Fetch(w)
    \/ FetchError(w)
    \/ Recover(w)
    \/ Relapse(w)
    \/ LadderStep(w) /\ UNCHANGED <<live, fetches>>
=============================================================================
