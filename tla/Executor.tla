------------------------------ MODULE Executor ------------------------------
(***************************************************************************)
(* app/agent/executor.py: Diagnose -> Decide -> Guardrail -> Act for one   *)
(* failed payment event, and the decision core (apply_decision) that the   *)
(* retry worker shares.                                                    *)
(*                                                                         *)
(* Postgres runs at READ COMMITTED. A step of the model ends where another *)
(* transaction can be seen: at a read of shared rows, at a flush that takes*)
(* a row lock, at a commit, and around a call to Razorpay. What a          *)
(* transaction has flushed but not committed is in its job, not in the     *)
(* tables. Abstracted: the diagnoses rows (a row's category and event stand*)
(* in the recovery action that refers to them), auth_attempts, wording of  *)
(* reasons and errors, amounts beyond being known or not.                  *)
(***************************************************************************)
EXTENDS Diagnosis, Policy, Guardrail, FiniteSets

CONSTANTS
    Events,      \* razorpay_event_id values: the rows payment_events may hold
    Subs,        \* Razorpay subscription ids
    Runners,     \* sessions that call run_recovery
    Workers,     \* processes that run poll_forever
    ActionIds,   \* the primary keys recovery_actions may use, a bound on its rows
    Bodies,      \* what the delivered webhooks may say
    ExclusiveHandOver   \* does the caller hand an event to one session at a time?

Actors == Runners \cup Workers

Body == [sub : Subs \cup {None}, status : MaybeStatus,
         signal : FailureSignal, amount : BOOLEAN]

ASSUME ExecutorAssumption ==
    /\ IsFiniteSet(Actors) /\ Actors # {}
    /\ IsFiniteSet(ActionIds) /\ ActionIds \subseteq Nat
    /\ Runners \cap Workers = {}
    /\ Bodies \subseteq Body
    /\ None \notin Subs \cup Events
    /\ ExclusiveHandOver \in BOOLEAN

VARIABLES
    events,      \* payment_events: processing_status, processed_at and body
    subs,        \* subscriptions: our mirror of the status, "absent" when no row
    actions,     \* recovery_actions, with the audit entries about each
    outcomes,    \* recovery_outcomes, append-only
    links,       \* payment links that exist at Razorpay, by the action they name
    job,         \* what each session is doing: its local variables
    wired,       \* is a Razorpay client configured?
    clock        \* datetime.now

tables == <<events, subs, actions, outcomes>>

-----------------------------------------------------------------------------
(* Rows and local variables.                                               *)

NoBody == [sub |-> None, status |-> None,
           signal |-> [cancelled |-> FALSE, matched |-> {}], amount |-> FALSE]

AbsentEvent == [state |-> "absent", at |-> None, body |-> NoBody]

AuditAction ==
    {"guardrail.allow", "guardrail.deny", "recovery.retry.scheduled",
     "recovery.escalated", "recovery.mark_dead", "razorpay.payment_link.requested",
     "razorpay.payment_link.created", "razorpay.payment_link.failed",
     "recovery.retry.attempted", "recovery.retry.failed", "recovery.retry.recovered"}

AbsentRow == [status |-> "absent", type |-> None, sub |-> None, ev |-> None,
              cat |-> "other", attempt |-> 0, sched |-> None, exec |-> None,
              aud |-> {}, response |-> None]

IdleJob == [pc |-> "idle", ev |-> None, act |-> None, sub |-> None, cat |-> "other",
            status |-> None, dirty |-> FALSE, n |-> 0, last |-> None, now |-> 0,
            queue |-> {}]

Set(a, j) == job' = [job EXCEPT ![a] = j]

(* Mutant: whoever waits for the row lock holds it already.                *)
HeldWaiting(s) == \E a \in Actors : job[a].sub = s /\ job[a].dirty

(* The refresh of a subscription row is flushed, and its row lock held     *)
(* until the commit, only when the status really differs.                  *)
Held(s) == \E a \in Actors :
    job[a].sub = s /\ job[a].dirty /\ job[a].pc \in {"history", "decide"}

RetryRows(s) == {id \in ActionIds :
    actions[id].type = "retry_charge" /\ actions[id].sub = s}

(* max(executed_at) over the retry rows, None over no value.               *)
LastAttempts(s) ==
    LET T == {actions[id].exec : id \in RetryRows(s)} \ {None}
    IN IF T = {} THEN {None} ELSE {t \in T : \A u \in T : u <= t}

-----------------------------------------------------------------------------
(* run_recovery up to the history read.                                    *)

(* run_recovery checks the status of the object it was given, and locks and*)
(* rereads nothing: that one session at a time has it is the caller's doing*)
Handed(e) ==
    ExclusiveHandOver /\ \E r \in Runners : job[r].pc # "idle" /\ job[r].ev = e

(* _resolve_subscription: the status after creating or refreshing the row. *)
ResolvedStatus(body) ==
    IF body.status = None /\ subs[body.sub] # "absent"
    THEN subs[body.sub] ELSE body.status

(* A pending event is loaded for a session. An object with another status  *)
(* is refused and nothing changes; what happens to the row from here on is *)
(* not seen by the session.                                                *)
HandOver(r, e) ==
    /\ job[r].pc = "idle"
    /\ events[e].state = "pending" /\ ~Handed(e)
    /\ Set(r, [IdleJob EXCEPT !.pc = "handed", !.ev = e, !.now = clock])
    /\ UNCHANGED <<tables, links, wired, clock>>

(* The call's now: taken after the object was loaded, before any waiting.  *)
CallTimes(r) == job[r].now .. clock

Stamp(e, state, now) == [events EXCEPT ![e] = [@ EXCEPT !.state = state, !.at = now]]

(* A payment-only event cannot be recovered.                               *)
SkipRun(r) ==
    /\ job[r].pc = "handed"
    /\ events[job[r].ev].body.sub = None
    /\ \E now \in CallTimes(r) : events' = Stamp(job[r].ev, "failed", now)
    /\ Set(r, IdleJob)
    /\ UNCHANGED <<subs, actions, outcomes, links, wired, clock>>

(* Resolve the subscription, diagnose, and flush both.                     *)
StartRun(r) ==
    LET body == events[job[r].ev].body
        dirty == ResolvedStatus(body) # subs[body.sub]
    IN  /\ job[r].pc = "handed"
        /\ body.sub # None
        /\ dirty => ~Held(body.sub)
        /\ \E c \in Diagnose(body.signal), now \in CallTimes(r) :
              Set(r, [IdleJob EXCEPT !.pc = "history", !.ev = job[r].ev, !.sub = body.sub,
                                     !.cat = c, !.status = ResolvedStatus(body),
                                     !.dirty = dirty, !.now = now])
        /\ UNCHANGED <<tables, links, wired, clock>>

(* Mutant: retries that are scheduled and not yet executed are not counted.*)
ReadExecuted(a) ==
    /\ job[a].pc = "history"
    /\ Set(a, [job[a] EXCEPT !.pc = "decide", !.last = None,
            !.n = Cardinality({id \in RetryRows(job[a].sub) : actions[id].exec # None})])
    /\ UNCHANGED <<tables, links, wired, clock>>

(* _retry_history: its two queries, read together. The worker passes None  *)
(* in the place of the last attempt.                                       *)
ReadHistory(a) ==
    /\ job[a].pc = "history"
    /\ \E t \in LastAttempts(job[a].sub) :
          Set(a, [job[a] EXCEPT !.pc = "decide",
                                !.n = Cardinality(RetryRows(job[a].sub)),
                                !.last = IF a \in Workers THEN None ELSE t])
    /\ UNCHANGED <<tables, links, wired, clock>>

-----------------------------------------------------------------------------
(* apply_decision.                                                         *)

Choice(a) == Decide(job[a].cat, job[a].n)

Verdict(a) ==
    Evaluate(Choice(a).type,
             Context(job[a].now, job[a].status, job[a].cat = "mandate_revoked",
                     job[a].n, job[a].last))

Proposes(a, type) == job[a].pc = "decide" /\ Choice(a).type = type /\ Verdict(a) = "ok"

(* Mutant: the caller's own audit entry is lost.                           *)
UnauditedRow(a, status, sched, exec, entries) ==
    [status |-> status, type |-> Choice(a).type, sub |-> job[a].sub, ev |-> job[a].ev,
     cat |-> job[a].cat, attempt |-> job[a].n + 1, sched |-> sched, exec |-> exec,
     aud |-> {"guardrail.allow"}, response |-> None]

NewRow(a, status, sched, exec, entries) ==
    [status |-> status, type |-> Choice(a).type, sub |-> job[a].sub, ev |-> job[a].ev,
     cat |-> job[a].cat, attempt |-> job[a].n + 1, sched |-> sched, exec |-> exec,
     aud |-> entries \cup {IF Verdict(a) = "ok" THEN "guardrail.allow" ELSE "guardrail.deny"},
     response |-> None]

(* The row the session works on, with its result.                          *)
Settle(a, status, exec, entries, response) ==
    LET row == actions[job[a].act]
    IN  [actions EXCEPT ![job[a].act] = [row EXCEPT !.status = status, !.exec = exec,
                                                    !.aud = row.aud \cup entries,
                                                    !.response = response]]

(* What the worker flushed before it decides: its own attempt has failed.  *)
Settled(a) ==
    IF a \in Workers
    THEN Settle(a, "failed", job[a].now, {"recovery.retry.failed"}, "answer")
    ELSE actions

(* Keys are uuids, all alike: the next row gets the least unused number.   *)
Fresh(id) ==
    /\ actions[id].status = "absent"
    /\ \A y \in ActionIds : actions[y].status = "absent" => id <= y

Insert(a, id, row) ==
    /\ Fresh(id)
    /\ actions' = [Settled(a) EXCEPT ![id] = row]

CommitMirror(a) ==
    subs' = IF job[a].dirty THEN [subs EXCEPT ![job[a].sub] = job[a].status] ELSE subs

(* Mutant: a follow-up of the worker reopens the event.                    *)
MarkReopened(a) ==
    events' = Stamp(job[a].ev, IF a \in Runners THEN "processed" ELSE "pending", job[a].now)

(* The event is marked without another look at its row.                    *)
MarkHandled(a) ==
    events' = IF a \in Runners THEN Stamp(job[a].ev, "processed", job[a].now) ELSE events

(* Mutant: the session closes with rows of its batch left.                 *)
FinishEarly(a) == Set(a, IdleJob)

(* Mutant: the session is never given back.                                *)
FinishOpen(a) == Set(a, [job[a] EXCEPT !.pc = "next"])

(* A worker goes on with its batch; with nothing left the session closes.  *)
Finish(a) ==
    Set(a, IF job[a].queue = {} THEN IdleJob
           ELSE [IdleJob EXCEPT !.pc = "next", !.now = job[a].now, !.queue = job[a].queue])

EndDecision(a) == CommitMirror(a) /\ MarkHandled(a) /\ Finish(a)

(* The guardrail denies: record and stop.                                  *)
Skip(a) ==
    /\ job[a].pc = "decide" /\ Verdict(a) # "ok"
    /\ \E id \in ActionIds : Insert(a, id, NewRow(a, "skipped", None, None, {}))
    /\ EndDecision(a)
    /\ UNCHANGED <<outcomes, links, wired, clock>>

ScheduleRetry(a) ==
    /\ Proposes(a, "retry_charge")
    /\ \E id \in ActionIds :
          Insert(a, id, NewRow(a, "scheduled", job[a].now + Choice(a).delay, None,
                               {"recovery.retry.scheduled"}))
    /\ EndDecision(a)
    /\ UNCHANGED <<outcomes, links, wired, clock>>

TerminalOutcome == [escalate_manual |-> "escalated", mark_dead |-> "dead"]
TerminalEntry == [escalate_manual |-> "recovery.escalated", mark_dead |-> "recovery.mark_dead"]

(* Escalate, or mark dead: the second is never proposed by the policy.     *)
Conclude(a) ==
    \E type \in DOMAIN TerminalOutcome, id \in ActionIds :
        /\ Proposes(a, type)
        /\ Insert(a, id, NewRow(a, "executed", None, job[a].now, {TerminalEntry[type]}))
        /\ outcomes' = Append(outcomes, [act |-> id, ev |-> job[a].ev,
                                         kind |-> TerminalOutcome[type]])
        /\ EndDecision(a)
        /\ UNCHANGED <<links, wired, clock>>

(* execute_payment_link with no amount on the event.                       *)
LinkWithoutAmount(a) ==
    /\ Proposes(a, "send_payment_link")
    /\ ~events[job[a].ev].body.amount
    /\ \E id \in ActionIds :
          Insert(a, id, NewRow(a, "failed", None, None, {"razorpay.payment_link.failed"}))
    /\ EndDecision(a)
    /\ UNCHANGED <<outcomes, links, wired, clock>>

(* The commit in the middle of the episode: the intent is durable.         *)
RequestLink(a) ==
    /\ Proposes(a, "send_payment_link")
    /\ events[job[a].ev].body.amount
    /\ \E id \in ActionIds :
          /\ Insert(a, id, NewRow(a, "executing", None, None,
                                  {"razorpay.payment_link.requested"}))
          /\ Set(a, [job[a] EXCEPT !.pc = "link", !.act = id, !.dirty = FALSE])
    /\ CommitMirror(a)
    /\ UNCHANGED <<events, outcomes, links, wired, clock>>

-----------------------------------------------------------------------------
(* execute_payment_link after that commit.                                 *)

EndLink(a, status, exec, entries, response) ==
    /\ actions' = Settle(a, status, exec, entries, response)
    /\ MarkHandled(a)
    /\ Finish(a)
    /\ UNCHANGED <<subs, outcomes, links, wired, clock>>

DeferLink(a) ==
    /\ job[a].pc = "link" /\ ~wired
    /\ EndLink(a, "planned", None, {}, None)

(* Razorpay creates the link and the answer arrives.                       *)
LinkCreated(a) ==
    /\ job[a].pc = "link" /\ wired
    /\ links' = links \cup {job[a].act}
    /\ Set(a, [job[a] EXCEPT !.pc = "linked"])
    /\ UNCHANGED <<tables, wired, clock>>

(* httpx.HTTPError: refused, or a time-out after the link was created.     *)
LinkError(a) ==
    /\ job[a].pc = "link" /\ wired
    /\ links' \in {links, links \cup {job[a].act}}
    /\ Set(a, [job[a] EXCEPT !.pc = "linkerror"])
    /\ UNCHANGED <<tables, wired, clock>>

RecordLink(a) ==
    /\ job[a].pc = "linked"
    /\ EndLink(a, "executed", job[a].now, {"razorpay.payment_link.created"}, "answer")

(* Mutant: after an error the link is decided on once more.                *)
RequestAgain(a) ==
    /\ job[a].pc = "linkerror"
    /\ Set(a, [job[a] EXCEPT !.pc = "decide"])
    /\ UNCHANGED <<tables, links, wired, clock>>

RecordLinkError(a) ==
    /\ job[a].pc = "linkerror"
    /\ EndLink(a, "failed", None, {"razorpay.payment_link.failed"}, None)

(* The steps that the executor and the worker share.                       *)
LadderStep(a) ==
    \/ ReadHistory(a)
    \/ Skip(a)
    \/ ScheduleRetry(a)
    \/ Conclude(a)
    \/ LinkWithoutAmount(a)
    \/ RequestLink(a)
    \/ DeferLink(a)
    \/ LinkCreated(a)
    \/ LinkError(a)
    \/ RecordLink(a)
    \/ RecordLinkError(a)

RunnerStep(r) ==
    \/ \E e \in Events : HandOver(r, e)
    \/ SkipRun(r)
    \/ StartRun(r)
    \/ LadderStep(r)
=============================================================================
