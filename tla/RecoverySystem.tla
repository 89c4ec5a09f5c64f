--------------------------- MODULE RecoverySystem ---------------------------
(***************************************************************************)
(* The whole recovery loop: webhooks arrive, executor sessions and retry   *)
(* workers run over one database, time passes, subscriptions change at     *)
(* Razorpay, and a process may die or throw between any two steps.         *)
(***************************************************************************)
EXTENDS RetryScheduler

CONSTANTS
    LiveStatuses,    \* what Razorpay may answer; None: no status we know
    WiredAtStart,    \* is a Razorpay client configured from the start?
    Horizon,         \* bound: the last value of the clock
    MaxFaults        \* bound: how many sessions may be lost

ASSUME SystemAssumption ==
    /\ LiveStatuses \subseteq MaybeStatus /\ LiveStatuses # {}
    /\ WiredAtStart \in BOOLEAN
    /\ Horizon \in Nat
    /\ MaxFaults \in Nat

VARIABLE faults

vars == <<events, subs, actions, outcomes, links, job, wired, clock, live, fetches, faults>>

Init ==
    /\ events = [e \in Events |-> AbsentEvent]
    /\ subs = [s \in Subs |-> "absent"]
    /\ actions = [id \in ActionIds |-> AbsentRow]
    /\ outcomes = << >>
    /\ links = {}
    /\ job = [a \in Actors |-> IdleJob]
    /\ wired = WiredAtStart
    /\ clock = 0
    /\ live \in [Subs -> LiveStatuses]
    /\ fetches = [id \in ActionIds |-> 0]
    /\ faults = 0

(* ingest_webhook_event: the first delivery of e is committed as pending;  *)
(* a redelivery changes nothing here.                                      *)
Ingest(e) ==
    /\ events[e].state = "absent"
    /\ \E body \in Bodies :
          events' = [events EXCEPT ![e] = [state |-> "pending", at |-> None, body |-> body]]
    /\ UNCHANGED <<subs, actions, outcomes, links, job, wired, clock, live, fetches, faults>>

Tick ==
    /\ clock < Horizon
    /\ clock' = clock + 1
    /\ UNCHANGED <<tables, links, job, wired, live, fetches, faults>>

(* A subscription that is over at Razorpay does not come back.             *)
LiveChange(s) ==
    /\ live[s] \notin FrozenStates
    /\ \E status \in LiveStatuses \ {live[s]} : live' = [live EXCEPT ![s] = status]
    /\ UNCHANGED <<tables, links, job, wired, clock, fetches, faults>>

(* Keys are added to the settings and the idle processes restarted.        *)
WireClient ==
    /\ ~wired
    /\ \A a \in Actors : job[a].pc = "idle"
    /\ wired' = TRUE
    /\ UNCHANGED <<tables, links, job, clock, live, fetches, faults>>

(* A process dies, or an exception that is no HTTPError leaves the session:*)
(* the open transaction rolls back and the rest of the batch is forgotten. *)
Abort(a) ==
    /\ faults < MaxFaults
    /\ job[a].pc # "idle"
    /\ Set(a, IdleJob)
    /\ faults' = faults + 1
    /\ UNCHANGED <<tables, links, wired, clock, live, fetches>>

RunnerNext(r) == RunnerStep(r) /\ UNCHANGED <<live, fetches, faults>>
WorkerNext(w) == WorkerStep(w) /\ UNCHANGED faults

Next ==
    \/ \E e \in Events : Ingest(e)
    \/ \E r \in Runners : RunnerNext(r)
    \/ \E w \in Workers : WorkerNext(w)
    \/ Tick
    \/ \E s \in Subs : LiveChange(s)
    \/ WireClient
    \/ \E a \in Actors : Abort(a)

Spec == Init /\ [][Next]_vars

(* poll_forever never stops polling and its awaits return; a call of       *)
(* run_recovery, once made, is awaited to its end; time passes; a missing  *)
(* client is wired some day. Nothing is assumed of webhooks, of Razorpay's *)
(* statuses, of faults, or of anybody calling run_recovery: nothing that is*)
(* deployed does (services/ingestion.py 9-12).                             *)
Fairness ==
    /\ WF_vars(Tick)
    /\ WF_vars(WireClient)
    /\ \A r \in Runners : WF_vars(job[r].pc # "idle" /\ RunnerNext(r))
    /\ \A w \in Workers : WF_vars(WorkerNext(w))

FairSpec == Spec /\ Fairness

-----------------------------------------------------------------------------
(* Type invariant.                                                         *)

PC == {"idle", "handed", "history", "decide", "link", "linked", "linkerror",
       "claim", "next", "fetch", "fetched"}

Time == Nat \cup {None}

MirrorStatus == MaybeStatus \cup {"absent"}

EventRow == [state : EventProcessingStatus \cup {"absent"}, at : Time,
             body : Bodies \cup {NoBody}]

ActionRow ==
    [status : ActionStatus \cup {"absent"}, type : ActionType \cup {None},
     sub : Subs \cup {None}, ev : Events \cup {None}, cat : DiagnosisCategory,
     attempt : Nat, sched : Time, exec : Time, aud : SUBSET AuditAction,
     response : {None, "answer"}]

Job == [pc : PC, ev : Events \cup {None}, act : ActionIds \cup {None},
        sub : Subs \cup {None}, cat : DiagnosisCategory, status : MirrorStatus,
        dirty : BOOLEAN, n : Nat, last : Time, now : Nat, queue : SUBSET ActionIds]

OutcomeRow == [act : ActionIds, ev : Events, kind : OutcomeStatus]

(* Every table and every session's local variables stay in their domains,  *)
(* and a session past its claim knows which event it is working for, then  *)
(* which subscription (a worker, and a session at Razorpay, also which     *)
(* action).                                                                *)
TypeOK ==
    /\ events \in [Events -> EventRow]
    /\ subs \in [Subs -> MirrorStatus]
    /\ actions \in [ActionIds -> ActionRow]
    /\ outcomes \in Seq(OutcomeRow)
    /\ links \subseteq ActionIds
    /\ job \in [Actors -> Job]
    /\ wired \in BOOLEAN
    /\ clock \in Nat
    /\ live \in [Subs -> LiveStatuses]
    /\ fetches \in [ActionIds -> Nat]
    /\ faults \in Nat
    /\ \A a \in Actors : job[a].pc \notin {"idle", "claim", "next"} =>
          /\ job[a].ev \in Events
          /\ job[a].pc # "handed" => job[a].sub \in Subs
          /\ a \in Workers \/ job[a].pc \in {"link", "linked", "linkerror"} =>
                job[a].act \in ActionIds
    /\ \A id \in ActionIds : actions[id].status # "absent" =>
          /\ actions[id].ev \in Events /\ actions[id].sub \in Subs
          /\ actions[id].type \in ActionType

-----------------------------------------------------------------------------
(* Safety.                                                                 *)

(* "A scheduled retry is executed by exactly one worker, never twice"      *)
(* (retry_scheduler.py 8-13): whatever workers claim at once, and whoever  *)
(* dies between claim and call, no row makes its Razorpay call twice.      *)
NeverTwice == \A id \in ActionIds : fetches[id] <= 1

(* "Audit precedes execution" (retry_scheduler.py 25, executor.py 512): a  *)
(* call that has reached Razorpay has its intent, and for a link also the  *)
(* guardrail's verdict, already committed, wherever the process died.      *)
AuditPrecedesCall ==
    /\ \A id \in ActionIds : fetches[id] > 0 =>
          "recovery.retry.attempted" \in actions[id].aud
    /\ \A id \in links :
          {"guardrail.allow", "razorpay.payment_link.requested"} \subseteq actions[id].aud

(* _retry_history counts committed rows only, and a decision in flight in  *)
(* another session is not one of them: the retries of one subscription can *)
(* pass max_retries, but by no more than the other sessions there are.     *)
RetryBound == \A s \in Subs :
    Cardinality(RetryRows(s)) < MaxRetries + Cardinality(Actors)

(* How many sessions may hold one pending event at once.                   *)
HandOvers == IF ExclusiveHandOver THEN 1 ELSE Cardinality(Runners)

(* A payment link is money asked of a customer: one failed payment leads to*)
(* at most one link at Razorpay for each session that has it (executor.py  *)
(* 373-383), and to one more for every session lost between the request's  *)
(* commit and the commit of its result.                                    *)
LinkBound == \A e \in Events :
    Cardinality({id \in links : actions[id].ev = e}) <= HandOvers + faults

(* However many sessions run one event at once (executor.py 373-383 checks *)
(* its status without a lock), each of the ladders they open ends in at    *)
(* most one outcome.                                                       *)
OutcomeBound == \A e \in Events :
    Cardinality({i \in 1 .. Len(outcomes) : outcomes[i].ev = e}) <= HandOvers

(* An episode ends once: however its steps are cut off, retried by the     *)
(* ladder or raced by other sessions, one failed payment never has two     *)
(* recorded outcomes (the dashboard sums them).                            *)
OneOutcomePerEvent ==
    \A i, j \in 1 .. Len(outcomes) : outcomes[i].ev = outcomes[j].ev => i = j

(* Spacing inside one ladder is kept by the schedule alone, since the      *)
(* worker passes no last attempt to the guardrail (retry_scheduler.py      *)
(* 266-273): a follow-up is due a cooldown or more after the attempt it    *)
(* follows, and never exists before that attempt has run.                  *)
LadderSpacing ==
    \A s \in Subs : \A x, y \in RetryRows(s) :
        /\ actions[x].ev = actions[y].ev
        /\ actions[x].attempt < actions[y].attempt
        /\ actions[y].sched # None
        => /\ actions[x].exec # None
           /\ actions[y].sched >= actions[x].exec + Cooldown

(* A session is the only one that will come back to the rows of its batch  *)
(* and to the row it works on, and no query of the loop selects an         *)
(* executing row (retry_scheduler.py 102-104, 112-115).                    *)
Stranded == {id \in ActionIds :
    /\ actions[id].status = "executing"
    /\ \A a \in Actors : id # job[a].act /\ id \notin job[a].queue}

(* Nothing is stranded but by a lost session, and a lost session strands   *)
(* no more than its batch: however batches, ladders and links end, every   *)
(* row that a session gives up has been settled.                           *)
StrandedBound == Cardinality(Stranded) <= faults * Limit

(* What may become of an episode: its row is yet to run, or was denied, or *)
(* was executed and shows for it an outcome or a link, or failed with no   *)
(* answer from Razorpay (no amount, an HTTPError).                         *)
Accounts(id) ==
    \/ actions[id].status \in {"scheduled", "executing", "planned", "skipped"}
    \/ /\ actions[id].status = "executed"
       /\ id \in links \/ \E i \in 1 .. Len(outcomes) : outcomes[i].act = id
    \/ actions[id].status = "failed" /\ actions[id].response = None

(* No failed payment drops out of sight: an event marked processed, which  *)
(* nobody runs again, has a row that accounts for it. An attempt answered  *)
(* "not recovered" does not, so it is failed and followed up at once       *)
(* (retry_scheduler.py 246-261, 291), wherever its session is cut off.     *)
HandledAccounted == \A e \in Events : events[e].state = "processed" =>
    \E id \in ActionIds : actions[id].ev = e /\ Accounts(id)

(* What the audit trail and the metrics rest on: a settled action and a    *)
(* recorded outcome are never rewritten, audit entries are never taken     *)
(* back, and a handled event is never reopened, nor turned from processed  *)
(* into failed or back. Its row may be written again: a second session that*)
(* was handed the same event stamps processed_at once more (executor.py    *)
(* 387-388, 481-485); under exclusive hand-over InboxImplemented says that *)
(* this does not happen.                                                   *)
Settlements == {"planned", "executed", "failed", "skipped"}

HistoryIsFinal == [][
    /\ \A id \in ActionIds :
          /\ actions[id].aud \subseteq actions'[id].aud
          /\ actions[id].status \in Settlements => actions'[id] = actions[id]
    /\ \A e \in Events : events[e].state \in {"processed", "failed"} =>
          events'[e].state = events[e].state /\ events'[e].body = events[e].body
    /\ \A i \in 1 .. Len(outcomes) : i <= Len(outcomes') /\ outcomes'[i] = outcomes[i]
    ]_vars

-----------------------------------------------------------------------------
(* Liveness.                                                               *)

(* Without faults every due retry is claimed by some worker, called, and   *)
(* settled, however the batches, the row locks and the sessions interleave.*)
DueRetriesSettle == \A id \in ActionIds :
    (id \in Due) ~> (actions[id].status \in Settlements)

(* Without faults every run of an event comes to its end, past the row lock*)
(* that another session of the subscription may hold (executor.py 139-143, *)
(* 442) and past what Razorpay answers, and leaves the event handled. Who  *)
(* calls run_recovery, and when, is open.                                  *)
RunsFinish == \A r \in Runners, e \in Events :
    (job[r].pc # "idle" /\ job[r].ev = e)
        ~> (job[r].pc = "idle" /\ events[e].state \in {"processed", "failed"})
=============================================================================
