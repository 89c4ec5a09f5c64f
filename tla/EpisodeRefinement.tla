-------------------------- MODULE EpisodeRefinement -------------------------
(***************************************************************************)
(* How the tables of RecoverySystem show the abstract episode of a failed  *)
(* payment, and the abstract inbox of webhook events.                      *)
(***************************************************************************)
EXTENDS RecoverySystem

(* The retries of one episode: skipped proposals carry no schedule.        *)
Retries(e) == {id \in ActionIds :
    actions[id].type = "retry_charge" /\ actions[id].ev = e /\ actions[id].sched # None}

RetryIn(e, status) == \E id \in Retries(e) : actions[id].status = status

EpisodePhase(e) ==
    CASE events[e].state = "absent" -> "unknown"
      [] events[e].state = "pending" -> "new"
      [] OTHER -> IF RetryIn(e, "scheduled") THEN "waiting"
                  ELSE IF RetryIn(e, "executing") THEN "trying" ELSE "over"

EpisodeVerdict(e) ==
    {outcomes[i].kind : i \in {j \in 1 .. Len(outcomes) : outcomes[j].ev = e}}

Episode == INSTANCE EpisodeLifecycle WITH
    Verdicts <- OutcomeStatus,
    phase <- [e \in Events |-> EpisodePhase(e)],
    tries <- [e \in Events |-> Cardinality(Retries(e))],
    verdict <- [e \in Events |-> EpisodeVerdict(e)]

(* executor.py 373-383 and retry_scheduler.py 8-13, taken together: every  *)
(* failed payment goes through the one lifecycle of EpisodeLifecycle, with *)
(* one live retry at a time, no more than max_retries of them, at most one *)
(* verdict, and no way back from its end, whatever the other sessions do.  *)
EpisodesImplemented == Episode!Spec

InboxOf(e) == <<events[e].state, events[e].at>>

Inbox == INSTANCE EventInbox WITH
    Unknown <- <<"absent", None>>,
    Pending <- <<"pending", None>>,
    Marks <- {"processed", "failed"} \X Nat,
    inbox <- [e \in Events |-> InboxOf(e)]

(* services/ingestion.py 9-12: the loop consumes pending rows, and, when   *)
(* one session at a time is handed an event, each of them once: a handled  *)
(* row is never marked again, processed_at included (executor.py 387-388,  *)
(* 481-485). With two sessions on one event it is.                         *)
InboxImplemented == Inbox!Spec
=============================================================================
