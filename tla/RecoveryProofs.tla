--------------------------- MODULE RecoveryProofs ---------------------------
(***************************************************************************)
(* Theorems about RecoverySystem for every set of events, subscriptions,   *)
(* sessions and rows, every bound and every back-off table.                *)
(***************************************************************************)
EXTENDS RecoverySystem, FiniteSetTheorems, TLAPS

(* The rows a session works on, or has still to work on, exist: no step    *)
(* removes a row. A worker reads the event and the subscription off them.  *)
RowsExist == \A a \in Actors :
    /\ \A id \in job[a].queue : actions[id].status # "absent"
    /\ job[a].act \in ActionIds => actions[job[a].act].status # "absent"

TypeInv == TypeOK /\ RowsExist

(* The assumptions on the constants, cited as one fact.                    *)
LEMMA Constants ==
    /\ MaxRetries \in Nat /\ Cooldown \in Nat /\ Limit \in Nat \ {0}
    /\ IsFiniteSet(Actors) /\ Actors # {}
    /\ IsFiniteSet(ActionIds) /\ ActionIds \subseteq Nat
    /\ Bodies \subseteq Body
    /\ None \notin Subs /\ None \notin Events /\ None \notin Nat /\ None # "absent"
    /\ None \notin ActionIds
    /\ LiveStatuses \subseteq MaybeStatus
    /\ WiredAtStart \in BOOLEAN
  BY NoneAssumption, ConfigAssumption, ExecutorAssumption, LimitAssumption, SystemAssumption

(* Whatever the signal, the diagnosis is a category of the enumeration.    *)
LEMMA DiagnoseType ==
    ASSUME NEW signal \in FailureSignal, NEW c \in Diagnose(signal)
    PROVE  c \in DiagnosisCategory
  <1>1. RuleCategories \subseteq DiagnosisCategory
    BY DEF RuleCategories, Rules, DiagnosisCategory
  <1>2. DiagnoseFromRules(signal) \subseteq DiagnosisCategory
    BY <1>1 DEF DiagnoseFromRules, FailureSignal, DiagnosisCategory
  <1> QED
    BY <1>2 DEF Diagnose, DiagnosisCategory

(* The policy always proposes an action of the enumeration, with a delay   *)
(* in the range of its tables.                                             *)
LEMMA DecideType ==
    ASSUME NEW cat \in DiagnosisCategory, NEW n \in Nat
    PROVE  /\ Decide(cat, n).type \in ActionType
           /\ Decide(cat, n).delay \in Nat
           /\ Decide(cat, n).type = "retry_charge" => n < MaxRetries
  <1>1. \A t \in Seq(Nat) : t # << >> => Backoff(t, n) \in Nat
    BY DEF Backoff
  <1>2. DOMAIN Schedule = {"insufficient_funds", "bank_or_gateway_error"}
    BY DEF Schedule
  <1>3. \A c \in DOMAIN Schedule : Backoff(Schedule[c], n) \in Nat
    BY <1>1, <1>2, ConfigAssumption DEF Schedule
  <1>4. Fallback[cat] \in ActionType \ {"retry_charge"}
    BY DEF Fallback, ActionType, DiagnosisCategory
  <1> QED
    BY <1>3, <1>4 DEF Decide, Retryable, ActionType

(* The empty values are of the types they stand in for.                    *)
LEMMA EmptyTypes ==
    /\ IdleJob \in Job /\ AbsentRow \in ActionRow /\ AbsentEvent \in EventRow
  BY Constants DEF IdleJob, AbsentRow, AbsentEvent, Job, ActionRow, EventRow, PC, Time,
     MirrorStatus, MaybeStatus, DiagnosisCategory, ActionStatus, EventProcessingStatus

LEMMA TypeInit == Init => TypeInv
  <1> SUFFICES ASSUME Init PROVE TypeInv
    OBVIOUS
  <1>1. outcomes \in Seq(OutcomeRow)
    BY DEF Init
  <1>2. /\ events \in [Events -> EventRow] /\ actions \in [ActionIds -> ActionRow]
        /\ job \in [Actors -> Job]
    BY EmptyTypes DEF Init
  <1>3. /\ \A a \in Actors : job[a].pc = "idle" /\ job[a].queue = {} /\ job[a].act = None
        /\ \A id \in ActionIds : actions[id].status = "absent"
    BY DEF Init, IdleJob, AbsentRow
  <1> QED
    BY <1>1, <1>2, <1>3, Constants DEF Init, TypeInv, TypeOK, RowsExist, MirrorStatus

-----------------------------------------------------------------------------
(* The type invariant, in the parts that a step can disturb separately.    *)

RowsTyped ==
    /\ actions \in [ActionIds -> ActionRow]
    /\ \A id \in ActionIds : actions[id].status # "absent" =>
          /\ actions[id].ev \in Events /\ actions[id].sub \in Subs
          /\ actions[id].type \in ActionType

JobsTyped ==
    /\ job \in [Actors -> Job]
    /\ \A a \in Actors : job[a].pc \notin {"idle", "claim", "next"} =>
          /\ job[a].ev \in Events
          /\ job[a].pc # "handed" => job[a].sub \in Subs
          /\ a \in Workers \/ job[a].pc \in {"link", "linked", "linkerror"} =>
                job[a].act \in ActionIds

RestTyped ==
    /\ events \in [Events -> EventRow]
    /\ subs \in [Subs -> MirrorStatus]
    /\ outcomes \in Seq(OutcomeRow)
    /\ links \subseteq ActionIds
    /\ wired \in BOOLEAN
    /\ clock \in Nat
    /\ live \in [Subs -> LiveStatuses]
    /\ fetches \in [ActionIds -> Nat]
    /\ faults \in Nat

LEMMA TypeParts == TypeInv <=> RowsTyped /\ JobsTyped /\ RestTyped /\ RowsExist
  BY DEF TypeInv, TypeOK, RowsTyped, JobsTyped, RestTyped

(* No step takes a row away.                                               *)
RowsStay == \A id \in ActionIds :
    actions[id].status # "absent" => actions'[id].status # "absent"

(* Set writes one session's local variables and leaves the others.         *)
LEMMA SetJob ==
    ASSUME job \in [Actors -> Job], NEW a \in Actors, NEW j \in Job, Set(a, j)
    PROVE  /\ job' \in [Actors -> Job] /\ job'[a] = j
           /\ \A b \in Actors \ {a} : job'[b] = job[b]
  BY DEF Set

(* A session that has ended its work holds no row but its queue.           *)
LEMMA FinishJob ==
    ASSUME job \in [Actors -> Job], NEW a \in Actors, Finish(a)
    PROVE  /\ job' \in [Actors -> Job]
           /\ job'[a].pc \in {"idle", "next"} /\ job'[a].act = None
           /\ job'[a].queue = job[a].queue
           /\ \A b \in Actors \ {a} : job'[b] = job[b]
  <1> DEFINE j == IF job[a].queue = {} THEN IdleJob
                  ELSE [IdleJob EXCEPT !.pc = "next", !.now = job[a].now,
                                       !.queue = job[a].queue]
  <1>1. job[a] \in Job
    OBVIOUS
  <1>2. /\ j \in Job /\ j.pc \in {"idle", "next"} /\ j.act = None
        /\ j.queue = job[a].queue
    BY <1>1, EmptyTypes DEF IdleJob, Job, PC
  <1>3. Set(a, j)
    BY DEF Finish
  <1> HIDE DEF j
  <1> QED
    BY <1>2, <1>3, SetJob

(* A row of payment_events that is marked keeps its body, and the others   *)
(* stay as they are.                                                       *)
LEMMA StampedRow ==
    ASSUME events \in [Events -> EventRow], NEW e,
           NEW state \in {"processed", "failed"}, NEW now \in Nat
    PROVE  /\ Stamp(e, state, now) \in [Events -> EventRow]
           /\ e \in Events => /\ Stamp(e, state, now)[e].state = state
                             /\ Stamp(e, state, now)[e].at = now
                             /\ Stamp(e, state, now)[e].body = events[e].body
           /\ \A f \in Events \ {e} : Stamp(e, state, now)[f] = events[f]
  <1> DEFINE row(f) == [events[f] EXCEPT !.state = state, !.at = now]
  <1>1. \A f \in Events :
          /\ row(f) \in EventRow /\ row(f).state = state /\ row(f).at = now
          /\ row(f).body = events[f].body
    BY DEF EventRow, EventProcessingStatus, Time
  <1>2. Stamp(e, state, now) = [events EXCEPT ![e] = row(e)]
    BY DEF Stamp
  <1> HIDE DEF row
  <1> QED
    BY <1>1, <1>2

(* What the end of an episode writes on its event: a runner marks it, and a*)
(* worker leaves it alone.                                                 *)
LEMMA MarkedRow ==
    ASSUME RestTyped, JobsTyped, NEW a \in Actors, MarkHandled(a)
    PROVE  /\ events' \in [Events -> EventRow]
           /\ a \notin Runners => events' = events
           /\ a \in Runners /\ job[a].ev \in Events =>
                 /\ events'[job[a].ev].state = "processed"
                 /\ events'[job[a].ev].at = job[a].now
                 /\ events'[job[a].ev].body = events[job[a].ev].body
           /\ \A e \in Events \ {job[a].ev} : events'[e] = events[e]
  <1>1. job[a].now \in Nat /\ events \in [Events -> EventRow]
    BY DEF JobsTyped, Job, RestTyped
  <1>2. CASE a \in Runners
    <2> DEFINE ev == job[a].ev
               now == job[a].now
    <2>1. events' = Stamp(ev, "processed", now) /\ now \in Nat
      BY <1>1, <1>2 DEF MarkHandled
    <2> HIDE DEF ev, now
    <2>2. events' \in [Events -> EventRow]
      BY <1>1, <2>1, StampedRow
    <2>3. ev \in Events => /\ events'[ev].state = "processed" /\ events'[ev].at = now
                          /\ events'[ev].body = events[ev].body
      BY <1>1, <2>1, StampedRow
    <2>4. \A f \in Events \ {ev} : events'[f] = events[f]
      BY <1>1, <2>1 DEF Stamp
    <2> QED
      BY <1>2, <2>2, <2>3, <2>4 DEF ev, now
  <1>3. CASE a \notin Runners
    BY <1>1, <1>3 DEF MarkHandled
  <1> QED
    BY <1>2, <1>3

(* The three steps before a session's first flush write no row but the     *)
(* event's, and hold none.                                                 *)
Begins(r) ==
    /\ job[r].pc \in {"idle", "handed"}
    /\ job' \in [Actors -> Job]
    /\ job'[r].pc \in {"idle", "handed", "history"}
    /\ job'[r].act = None /\ job'[r].queue = {}
    /\ \A b \in Actors \ {r} : job'[b] = job[b]
    /\ UNCHANGED <<subs, actions, outcomes, links, wired, clock>>

LEMMA HandOverBegins ==
    ASSUME RestTyped, JobsTyped, NEW r \in Runners, NEW e \in Events, HandOver(r, e)
    PROVE  /\ Begins(r) /\ events' = events
           /\ job[r].pc = "idle" /\ events[e].state = "pending"
           /\ job'[r].pc = "handed" /\ job'[r].ev = e /\ job'[r].sub = None
           /\ ~job'[r].dirty
  <1> DEFINE j == [IdleJob EXCEPT !.pc = "handed", !.ev = e, !.now = clock]
  <1>1. /\ j \in Job /\ j.pc = "handed" /\ j.ev = e /\ j.sub = None /\ ~j.dirty
        /\ j.act = None /\ j.queue = {}
    BY EmptyTypes DEF IdleJob, Job, PC, RestTyped
  <1>2. Set(r, j) /\ r \in Actors
    BY DEF HandOver, Actors
  <1> HIDE DEF j
  <1>3. job' \in [Actors -> Job] /\ job'[r] = j /\ \A b \in Actors \ {r} : job'[b] = job[b]
    BY <1>1, <1>2, SetJob DEF JobsTyped
  <1> QED
    BY <1>1, <1>3 DEF HandOver, Begins, tables

(* The time of the call lies between the hand-over and the present.        *)
LEMMA CallTimesType ==
    ASSUME RestTyped, JobsTyped, NEW r \in Actors, NEW now \in CallTimes(r)
    PROVE  now \in Nat
  BY DEF CallTimes, RestTyped, JobsTyped, Job

LEMMA SkipRunBegins ==
    ASSUME RestTyped, JobsTyped, NEW r \in Runners, SkipRun(r)
    PROVE  /\ Begins(r) /\ job'[r] = IdleJob /\ job[r].pc = "handed"
           /\ job[r].ev \in Events /\ events[job[r].ev].body.sub = None
           /\ events' \in [Events -> EventRow]
           /\ events'[job[r].ev].state = "failed" /\ events'[job[r].ev].at \in Nat
           /\ events'[job[r].ev].body = events[job[r].ev].body
           /\ \A f \in Events \ {job[r].ev} : events'[f] = events[f]
  <1>1. r \in Actors /\ job[r].pc = "handed" /\ job[r].ev \in Events
    BY DEF SkipRun, JobsTyped, Actors
  <1>2. PICK now \in Nat : events' = Stamp(job[r].ev, "failed", now)
    BY <1>1, CallTimesType DEF SkipRun
  <1>3. /\ job' \in [Actors -> Job] /\ job'[r] = IdleJob
        /\ \A b \in Actors \ {r} : job'[b] = job[b]
    BY <1>1, EmptyTypes, SetJob DEF SkipRun, JobsTyped
  <1>4. IdleJob.pc = "idle" /\ IdleJob.act = None /\ IdleJob.queue = {}
    BY DEF IdleJob
  <1>5. Begins(r)
    BY <1>1, <1>3, <1>4 DEF Begins, SkipRun
  <1>6. events \in [Events -> EventRow]
    BY DEF RestTyped
  <1>7. /\ events' \in [Events -> EventRow]
        /\ events'[job[r].ev].state = "failed" /\ events'[job[r].ev].at = now
        /\ events'[job[r].ev].body = events[job[r].ev].body
        /\ \A f \in Events \ {job[r].ev} : events'[f] = events[f]
    BY <1>1, <1>2, <1>6, StampedRow
  <1> QED
    BY <1>1, <1>2, <1>3, <1>5, <1>7 DEF SkipRun

LEMMA StartRunBegins ==
    ASSUME RestTyped, JobsTyped, NEW r \in Runners, StartRun(r)
    PROVE  LET body == events[job[r].ev].body IN
           /\ Begins(r) /\ events' = events
           /\ job[r].pc = "handed" /\ job[r].ev \in Events
           /\ body.sub \in Subs /\ body.sub # None /\ body.status \in MaybeStatus
           /\ job'[r].pc = "history" /\ job'[r].ev = job[r].ev /\ job'[r].sub = body.sub
           /\ job'[r].cat \in DiagnosisCategory
           /\ job'[r].status = ResolvedStatus(body)
           /\ job'[r].dirty = (ResolvedStatus(body) # subs[body.sub])
           /\ job'[r].dirty => ~Held(body.sub)
  <1> DEFINE body == events[job[r].ev].body
  <1>1. r \in Actors /\ job[r].pc = "handed" /\ job[r].ev \in Events
    BY DEF StartRun, JobsTyped, Actors
  <1>2. body \in Bodies \cup {NoBody} /\ body.sub # None
    BY <1>1 DEF RestTyped, EventRow, StartRun
  <1>3. body.sub \in Subs /\ body.status \in MaybeStatus /\ body.signal \in FailureSignal
    BY <1>2, Constants DEF Body, NoBody
  <1>4. ResolvedStatus(body) \in MirrorStatus
    BY <1>3 DEF ResolvedStatus, RestTyped, MirrorStatus
  <1> DEFINE dirty == ResolvedStatus(body) # subs[body.sub]
  <1>5. PICK c \in Diagnose(body.signal), now \in CallTimes(r) :
          Set(r, [IdleJob EXCEPT !.pc = "history", !.ev = job[r].ev, !.sub = body.sub,
                                 !.cat = c, !.status = ResolvedStatus(body),
                                 !.dirty = dirty, !.now = now])
    BY DEF StartRun
  <1>6. c \in DiagnosisCategory /\ now \in Nat /\ dirty \in BOOLEAN
    BY <1>1, <1>3, DiagnoseType, CallTimesType
  <1>7. dirty => ~Held(body.sub)
    BY DEF StartRun
  <1>8. UNCHANGED <<tables, links, wired, clock>>
    BY DEF StartRun
  <1> DEFINE status == ResolvedStatus(body)
             j == [IdleJob EXCEPT !.pc = "history", !.ev = job[r].ev, !.sub = body.sub,
                                  !.cat = c, !.status = status, !.dirty = dirty, !.now = now]
  <1>9. Set(r, j)
    BY <1>5
  <1> HIDE DEF body, dirty, status
  <1>10. /\ j \in Job /\ j.pc = "history" /\ j.ev = job[r].ev /\ j.sub = body.sub
         /\ j.cat = c /\ j.status = status /\ j.dirty = dirty
         /\ j.act = None /\ j.queue = {}
    BY <1>1, <1>3, <1>4, <1>6, EmptyTypes DEF Job, PC, IdleJob, status
  <1> HIDE DEF j
  <1>11. job' \in [Actors -> Job] /\ job'[r] = j /\ \A b \in Actors \ {r} : job'[b] = job[b]
    BY <1>1, <1>9, <1>10, SetJob DEF JobsTyped
  <1>12. Begins(r)
    BY <1>1, <1>8, <1>10, <1>11 DEF Begins, tables
  <1> QED
    BY <1>1, <1>2, <1>3, <1>6, <1>7, <1>8, <1>10, <1>11, <1>12 DEF body, dirty, status, tables

(* A runner's step is one of those three, or one of the ladder.            *)
LEMMA RunnerSteps ==
    ASSUME RestTyped, JobsTyped, NEW r \in Runners, RunnerStep(r)
    PROVE  Begins(r) \/ LadderStep(r)
  BY HandOverBegins, SkipRunBegins, StartRunBegins DEF RunnerStep

(* When a session's job is replaced by one that is well typed and holds    *)
(* only rows that exist, the invariant's parts about jobs are kept.        *)
LEMMA JobsKept ==
    ASSUME JobsTyped, RowsExist, RowsStay, NEW a \in Actors,
           job' \in [Actors -> Job],
           \A b \in Actors \ {a} : job'[b] = job[b],
           job'[a].pc \notin {"idle", "claim", "next"} =>
              /\ job'[a].ev \in Events
              /\ job'[a].pc # "handed" => job'[a].sub \in Subs
              /\ a \in Workers \/ job'[a].pc \in {"link", "linked", "linkerror"} =>
                    job'[a].act \in ActionIds,
           \A id \in job'[a].queue : actions'[id].status # "absent",
           job'[a].act \in ActionIds => actions'[job'[a].act].status # "absent"
    PROVE  JobsTyped' /\ RowsExist'
  <1>1. \A b \in Actors : job[b].queue \subseteq ActionIds
    BY DEF JobsTyped, Job
  <1>2. JobsTyped'
    BY DEF JobsTyped
  <1>3. RowsExist'
    BY <1>1 DEF RowsExist, RowsStay
  <1> QED
    BY <1>2, <1>3

(* A step that ends the work of a session keeps the parts about jobs.      *)
LEMMA FinishKept ==
    ASSUME JobsTyped, RowsExist, RowsStay, NEW a \in Actors, Finish(a)
    PROVE  JobsTyped' /\ RowsExist'
  <1>1. job[a].queue \subseteq ActionIds
    BY DEF JobsTyped, Job
  <1>2. /\ job' \in [Actors -> Job]
        /\ job'[a].pc \in {"idle", "next"} /\ job'[a].act = None
        /\ job'[a].queue = job[a].queue
        /\ \A b \in Actors \ {a} : job'[b] = job[b]
    BY FinishJob DEF JobsTyped
  <1>3. \A id \in job'[a].queue : actions'[id].status # "absent"
    BY <1>1, <1>2 DEF RowsExist, RowsStay
  <1>4. job'[a].act \notin ActionIds
    BY <1>2, Constants
  <1> QED
    BY <1>2, <1>3, <1>4, JobsKept

(* What writing a result keeps.                                            *)
SameSubject(t) == \A id \in ActionIds :
    /\ t[id].type = actions[id].type /\ t[id].sub = actions[id].sub
    /\ t[id].ev = actions[id].ev /\ t[id].cat = actions[id].cat
    /\ t[id].attempt = actions[id].attempt /\ t[id].sched = actions[id].sched
    /\ actions[id].status # "absent" <=> t[id].status # "absent"

(* A result written on a session's row stays within the types, and leaves  *)
(* every other row alone.                                                  *)
LEMMA SettleRow ==
    ASSUME RowsTyped, RowsExist, NEW a \in Actors, job[a].act \in ActionIds,
           NEW status \in ActionStatus, NEW exec \in Time,
           NEW entries, entries \subseteq AuditAction, NEW response \in {None, "answer"}
    PROVE  /\ Settle(a, status, exec, entries, response) \in [ActionIds -> ActionRow]
           /\ SameSubject(Settle(a, status, exec, entries, response))
           /\ Settle(a, status, exec, entries, response)[job[a].act].status = status
           /\ Settle(a, status, exec, entries, response)[job[a].act].exec = exec
           /\ Settle(a, status, exec, entries, response)[job[a].act].aud
                = actions[job[a].act].aud \cup entries
           /\ \A id \in ActionIds \ {job[a].act} :
                 Settle(a, status, exec, entries, response)[id] = actions[id]
  <1> DEFINE t == Settle(a, status, exec, entries, response)
             row == [actions[job[a].act] EXCEPT
                        !.status = status, !.exec = exec,
                        !.aud = actions[job[a].act].aud \cup entries,
                        !.response = response]
  <1>1. actions[job[a].act] \in ActionRow /\ actions[job[a].act].status # "absent"
    BY DEF RowsTyped, RowsExist
  <1>2. /\ row \in ActionRow
        /\ row.type = actions[job[a].act].type /\ row.sub = actions[job[a].act].sub
        /\ row.ev = actions[job[a].act].ev /\ row.cat = actions[job[a].act].cat
        /\ row.attempt = actions[job[a].act].attempt
        /\ row.sched = actions[job[a].act].sched
        /\ row.status = status /\ row.exec = exec
        /\ row.aud = actions[job[a].act].aud \cup entries
    BY <1>1 DEF ActionRow
  <1>3. t = [actions EXCEPT ![job[a].act] = row]
    BY DEF Settle
  <1> HIDE DEF t, row
  <1>4. t[job[a].act] = row /\ \A id \in ActionIds \ {job[a].act} : t[id] = actions[id]
    BY <1>3 DEF RowsTyped
  <1>5. t \in [ActionIds -> ActionRow]
    BY <1>2, <1>3 DEF RowsTyped
  <1>6. status # "absent"
    BY DEF ActionStatus
  <1>7. SameSubject(t)
    BY <1>1, <1>2, <1>4, <1>6 DEF SameSubject
  <1> QED
    BY <1>2, <1>4, <1>5, <1>7 DEF t

(* A new row is well typed.                                                *)
LEMMA NewRowType ==
    ASSUME JobsTyped, NEW a \in Actors, job[a].pc = "decide",
           NEW status \in ActionStatus, NEW sched \in Time, NEW exec \in Time,
           NEW entries, entries \subseteq AuditAction
    PROVE  /\ NewRow(a, status, sched, exec, entries) \in ActionRow
           /\ NewRow(a, status, sched, exec, entries).status # "absent"
           /\ NewRow(a, status, sched, exec, entries).ev \in Events
           /\ NewRow(a, status, sched, exec, entries).sub \in Subs
           /\ NewRow(a, status, sched, exec, entries).type \in ActionType
  <1>1. job[a] \in Job /\ job[a].ev \in Events /\ job[a].sub \in Subs
    BY DEF JobsTyped
  <1>2. job[a].cat \in DiagnosisCategory /\ job[a].n \in Nat
    BY <1>1 DEF Job
  <1>3. Choice(a).type \in ActionType
    BY <1>2, DecideType DEF Choice
  <1>4. job[a].n + 1 \in Nat
    BY <1>2
  <1>5. {"guardrail.allow", "guardrail.deny"} \subseteq AuditAction
    BY DEF AuditAction
  <1>6. status # "absent"
    BY DEF ActionStatus
  <1> QED
    BY <1>1, <1>2, <1>3, <1>4, <1>5, <1>6 DEF NewRow, ActionRow

(* What a decision writes: the worker's own attempt, and one new row.      *)
LEMMA InsertRow ==
    ASSUME TypeInv, NEW a \in Actors, job[a].pc = "decide", NEW id \in ActionIds,
           NEW status \in ActionStatus, NEW sched \in Time, NEW exec \in Time,
           NEW entries, entries \subseteq AuditAction,
           Insert(a, id, NewRow(a, status, sched, exec, entries))
    PROVE  /\ RowsTyped' /\ RowsStay
           /\ actions'[id] = NewRow(a, status, sched, exec, entries)
           /\ actions'[id].status # "absent"
           /\ \A y \in ActionIds \ {id} :
                 /\ actions'[y].type = actions[y].type
                 /\ actions'[y].sub = actions[y].sub
                 /\ y # job[a].act \/ a \notin Workers => actions'[y] = actions[y]
  <1>1. RowsTyped /\ JobsTyped /\ RowsExist
    BY TypeParts
  <1>2. job[a] \in Job /\ (a \in Workers => job[a].act \in ActionIds)
    BY <1>1 DEF JobsTyped
  <1>3. /\ "failed" \in ActionStatus /\ {"recovery.retry.failed"} \subseteq AuditAction
        /\ job[a].now \in Time
    BY <1>2 DEF ActionStatus, AuditAction, Job, Time
  <1>4. /\ Settled(a) \in [ActionIds -> ActionRow] /\ SameSubject(Settled(a))
        /\ \A y \in ActionIds :
              y # job[a].act \/ a \notin Workers => Settled(a)[y] = actions[y]
    <2>1. CASE a \in Workers
      <3>1. Settled(a) = Settle(a, "failed", job[a].now, {"recovery.retry.failed"}, "answer")
        BY <2>1 DEF Settled
      <3>2. job[a].act \in ActionIds
        BY <1>2, <2>1
      <3> QED
        BY <1>1, <1>3, <2>1, <3>1, <3>2, SettleRow
    <2>2. CASE a \notin Workers
      BY <2>2, <1>1 DEF Settled, RowsTyped, SameSubject
    <2> QED
      BY <2>1, <2>2
  <1> DEFINE row == NewRow(a, status, sched, exec, entries)
  <1>5. /\ row \in ActionRow /\ row.status # "absent"
        /\ row.ev \in Events /\ row.sub \in Subs /\ row.type \in ActionType
    BY <1>1, NewRowType
  <1>6. actions' = [Settled(a) EXCEPT ![id] = row]
    BY DEF Insert
  <1> HIDE DEF row
  <1>7. actions' \in [ActionIds -> ActionRow] /\ actions'[id] = row
        /\ \A y \in ActionIds \ {id} : actions'[y] = Settled(a)[y]
    BY <1>4, <1>5, <1>6
  <1>8. RowsTyped'
    BY <1>1, <1>4, <1>5, <1>7 DEF RowsTyped, SameSubject
  <1>9. RowsStay
    BY <1>4, <1>5, <1>7 DEF RowsStay, SameSubject
  <1> QED
    BY <1>4, <1>5, <1>7, <1>8, <1>9 DEF row, SameSubject

(* Marking the event handled and committing the mirror stay in the types.  *)
LEMMA CommitType ==
    ASSUME RestTyped, JobsTyped, NEW a \in Actors
    PROVE  /\ CommitMirror(a) => subs' \in [Subs -> MirrorStatus]
           /\ MarkHandled(a) => events' \in [Events -> EventRow]
  <1>1. job[a] \in Job
    BY DEF JobsTyped
  <1>2. CommitMirror(a) => subs' \in [Subs -> MirrorStatus]
    BY <1>1 DEF CommitMirror, RestTyped, Job
  <1>3. MarkHandled(a) => events' \in [Events -> EventRow]
    BY MarkedRow
  <1> QED
    BY <1>2, <1>3

(* A decision that ends the episode, whatever row it inserts.              *)
LEMMA EndDecisionType ==
    ASSUME TypeInv, NEW a \in Actors, RowsTyped', RowsStay, EndDecision(a),
           outcomes' \in Seq(OutcomeRow),
           UNCHANGED <<links, wired, clock, live, fetches, faults>>
    PROVE  TypeInv'
  <1>1. RowsTyped /\ JobsTyped /\ RestTyped /\ RowsExist
    BY TypeParts
  <1>2. JobsTyped' /\ RowsExist'
    BY <1>1, FinishKept DEF EndDecision
  <1>3. RestTyped'
    BY <1>1, CommitType DEF RestTyped, EndDecision
  <1> QED
    BY <1>2, <1>3, TypeParts, PTL

(* A session at Razorpay that settles its row.                             *)
LEMMA SettleType ==
    ASSUME TypeInv, NEW a \in Actors, job[a].act \in ActionIds,
           NEW status \in ActionStatus, NEW exec \in Time,
           NEW entries, entries \subseteq AuditAction, NEW response \in {None, "answer"},
           actions' = Settle(a, status, exec, entries, response)
    PROVE  RowsTyped' /\ RowsStay
  <1>1. RowsTyped /\ RowsExist
    BY TypeParts
  <1>2. actions' \in [ActionIds -> ActionRow] /\ SameSubject(actions')
    BY <1>1, SettleRow
  <1> QED
    BY <1>1, <1>2 DEF RowsTyped, RowsStay, SameSubject

LEMMA EndLinkType ==
    ASSUME TypeInv, NEW a \in Actors, job[a].pc \in {"link", "linked", "linkerror"},
           NEW status \in ActionStatus, NEW exec \in Time,
           NEW entries, entries \subseteq AuditAction, NEW response \in {None, "answer"},
           EndLink(a, status, exec, entries, response),
           UNCHANGED <<live, fetches, faults>>
    PROVE  TypeInv'
  <1>1. RowsTyped /\ JobsTyped /\ RestTyped /\ RowsExist
    BY TypeParts
  <1>2. job[a].act \in ActionIds
    BY <1>1 DEF JobsTyped
  <1>3. RowsTyped' /\ RowsStay
    BY <1>2, SettleType DEF EndLink
  <1>4. JobsTyped' /\ RowsExist'
    BY <1>1, <1>3, FinishKept DEF EndLink
  <1>5. RestTyped'
    BY <1>1, CommitType DEF RestTyped, EndLink
  <1> QED
    BY <1>3, <1>4, <1>5, TypeParts, PTL

(* A step that changes nothing but one session's job, and keeps the row,   *)
(* the queue, the event and the subscription that session has.             *)
LEMMA SameWorkType ==
    ASSUME TypeInv, NEW a \in Actors, NEW j \in Job, Set(a, j),
           j.act = job[a].act, j.queue = job[a].queue,
           j.ev = job[a].ev, j.sub = job[a].sub,
           job[a].pc \notin {"idle", "claim", "next", "handed"},
           j.pc \in {"link", "linked", "linkerror"} =>
               job[a].pc \in {"link", "linked", "linkerror"},
           links' \subseteq ActionIds, fetches' \in [ActionIds -> Nat],
           UNCHANGED <<tables, wired, clock, live, faults>>
    PROVE  TypeInv'
  <1>1. RowsTyped /\ JobsTyped /\ RestTyped /\ RowsExist
    BY TypeParts
  <1>2. /\ job' \in [Actors -> Job] /\ job'[a] = j
        /\ \A b \in Actors \ {a} : job'[b] = job[b]
    BY <1>1, SetJob DEF JobsTyped
  <1>3. RowsTyped' /\ RowsStay /\ RestTyped'
    BY <1>1 DEF RowsTyped, RowsStay, RestTyped, tables
  <1>4. /\ job[a].ev \in Events /\ job[a].sub \in Subs
        /\ a \in Workers \/ job[a].pc \in {"link", "linked", "linkerror"} =>
              job[a].act \in ActionIds
    BY <1>1 DEF JobsTyped
  <1>5. /\ \A id \in job'[a].queue : actions'[id].status # "absent"
        /\ job'[a].act \in ActionIds => actions'[job'[a].act].status # "absent"
    BY <1>1, <1>2 DEF RowsExist, tables
  <1>6. JobsTyped' /\ RowsExist'
    BY <1>1, <1>2, <1>3, <1>4, <1>5, JobsKept
  <1> QED
    BY <1>3, <1>6, TypeParts, PTL

(* The retry rows of a subscription are finitely many.                     *)
LEMMA RetryRowsFinite ==
    ASSUME NEW s
    PROVE  IsFiniteSet(RetryRows(s)) /\ Cardinality(RetryRows(s)) \in Nat
  <1>1. RetryRows(s) \subseteq ActionIds
    BY DEF RetryRows
  <1>2. IsFiniteSet(RetryRows(s))
    BY <1>1, Constants, FS_Subset
  <1> QED
    BY <1>2, FS_CardinalityType

(* The steps shared by the executor and the worker keep the types.         *)
LEMMA LadderType ==
    ASSUME TypeInv, NEW a \in Actors, LadderStep(a), UNCHANGED <<live, fetches, faults>>
    PROVE  TypeInv'
  <1>1. RowsTyped /\ JobsTyped /\ RestTyped /\ RowsExist
    BY TypeParts
  <1>2. /\ job[a] \in Job
        /\ job[a].pc \notin {"idle", "claim", "next", "handed"} =>
              job[a].ev \in Events /\ job[a].sub \in Subs
    BY <1>1 DEF JobsTyped
  <1>3. None \in Time /\ (\A t \in Nat : t \in Time)
    BY DEF Time
  <1>4. job[a].now \in Nat /\ job[a].n \in Nat /\ job[a].cat \in DiagnosisCategory
    BY <1>2 DEF Job
  <1>5. {"skipped", "scheduled", "executed", "failed", "executing", "planned"}
          \subseteq ActionStatus
    BY DEF ActionStatus
  <1>6. CASE ReadHistory(a)
    <2>1. PICK t \in LastAttempts(job[a].sub) :
            Set(a, [job[a] EXCEPT !.pc = "decide",
                                  !.n = Cardinality(RetryRows(job[a].sub)),
                                  !.last = IF a \in Workers THEN None ELSE t])
      BY <1>6 DEF ReadHistory
    <2>2. t \in Time
      <3>1. \A id \in RetryRows(job[a].sub) : actions[id].exec \in Time
        BY <1>1 DEF RetryRows, RowsTyped, ActionRow
      <3> QED
        BY <3>1, <1>3 DEF LastAttempts
    <2> DEFINE j == [job[a] EXCEPT !.pc = "decide",
                                   !.n = Cardinality(RetryRows(job[a].sub)),
                                   !.last = IF a \in Workers THEN None ELSE t]
    <2>3. Cardinality(RetryRows(job[a].sub)) \in Nat
      BY RetryRowsFinite
    <2>4. /\ j \in Job /\ j.pc = "decide" /\ j.act = job[a].act /\ j.queue = job[a].queue
          /\ j.ev = job[a].ev /\ j.sub = job[a].sub
      BY <1>2, <1>3, <2>2, <2>3 DEF Job, PC
    <2>5. Set(a, j)
      BY <2>1
    <2> HIDE DEF j
    <2>6. /\ job[a].pc \notin {"idle", "claim", "next", "handed"}
          /\ links' \subseteq ActionIds /\ fetches' \in [ActionIds -> Nat]
          /\ UNCHANGED <<tables, wired, clock, live, faults>>
      BY <1>1, <1>6 DEF ReadHistory, RestTyped
    <2> QED
      BY <2>4, <2>5, <2>6, SameWorkType
  <1>7. CASE Skip(a)
    <2>1. PICK id \in ActionIds : Insert(a, id, NewRow(a, "skipped", None, None, {}))
      BY <1>7 DEF Skip
    <2>2. RowsTyped' /\ RowsStay
      BY <1>3, <1>5, <1>7, <2>1, InsertRow DEF Skip
    <2> QED
      BY <1>1, <1>7, <2>2, EndDecisionType DEF Skip, RestTyped
  <1>8. CASE ScheduleRetry(a)
    <2>1. job[a].now + Choice(a).delay \in Time
      BY <1>3, <1>4, DecideType DEF Choice
    <2>2. PICK id \in ActionIds :
            Insert(a, id, NewRow(a, "scheduled", job[a].now + Choice(a).delay, None,
                                 {"recovery.retry.scheduled"}))
      BY <1>8 DEF ScheduleRetry
    <2>3. {"recovery.retry.scheduled"} \subseteq AuditAction
      BY DEF AuditAction
    <2>4. RowsTyped' /\ RowsStay
      BY <1>3, <1>5, <1>8, <2>1, <2>2, <2>3, InsertRow DEF ScheduleRetry, Proposes
    <2> QED
      BY <1>1, <1>8, <2>4, EndDecisionType DEF ScheduleRetry, RestTyped
  <1>9. CASE Conclude(a)
    <2>1. PICK type \in DOMAIN TerminalOutcome, id \in ActionIds :
            /\ Proposes(a, type)
            /\ Insert(a, id, NewRow(a, "executed", None, job[a].now, {TerminalEntry[type]}))
            /\ outcomes' = Append(outcomes, [act |-> id, ev |-> job[a].ev,
                                             kind |-> TerminalOutcome[type]])
            /\ EndDecision(a)
            /\ UNCHANGED <<links, wired, clock>>
      BY <1>9 DEF Conclude
    <2>2. /\ {TerminalEntry[type]} \subseteq AuditAction
          /\ TerminalOutcome[type] \in OutcomeStatus
      BY DEF TerminalEntry, TerminalOutcome, AuditAction, OutcomeStatus
    <2>3. job[a].now \in Time /\ job[a].pc = "decide" /\ job[a].ev \in Events
      BY <1>2, <1>3, <1>4, <2>1 DEF Proposes
    <2>4. RowsTyped' /\ RowsStay
      BY <1>3, <1>5, <2>1, <2>2, <2>3, InsertRow
    <2>5. outcomes' \in Seq(OutcomeRow)
      BY <1>1, <2>1, <2>2, <2>3 DEF RestTyped, OutcomeRow
    <2> QED
      BY <2>1, <2>4, <2>5, EndDecisionType
  <1>10. CASE LinkWithoutAmount(a)
    <2>1. PICK id \in ActionIds :
            Insert(a, id, NewRow(a, "failed", None, None, {"razorpay.payment_link.failed"}))
      BY <1>10 DEF LinkWithoutAmount
    <2>2. {"razorpay.payment_link.failed"} \subseteq AuditAction
      BY DEF AuditAction
    <2>3. RowsTyped' /\ RowsStay
      BY <1>3, <1>5, <1>10, <2>1, <2>2, InsertRow DEF LinkWithoutAmount, Proposes
    <2> QED
      BY <1>1, <1>10, <2>3, EndDecisionType DEF LinkWithoutAmount, RestTyped
  <1>11. CASE RequestLink(a)
    <2>1. PICK id \in ActionIds :
            /\ Insert(a, id, NewRow(a, "executing", None, None,
                                    {"razorpay.payment_link.requested"}))
            /\ Set(a, [job[a] EXCEPT !.pc = "link", !.act = id, !.dirty = FALSE])
      BY <1>11 DEF RequestLink
    <2>2. {"razorpay.payment_link.requested"} \subseteq AuditAction
      BY DEF AuditAction
    <2>3. job[a].pc = "decide"
      BY <1>11 DEF RequestLink, Proposes
    <2>4. RowsTyped' /\ RowsStay /\ actions'[id].status # "absent"
      BY <1>3, <1>5, <2>1, <2>2, <2>3, InsertRow
    <2> DEFINE j == [job[a] EXCEPT !.pc = "link", !.act = id, !.dirty = FALSE]
    <2>5. /\ j \in Job /\ j.pc = "link" /\ j.act = id /\ j.queue = job[a].queue
          /\ j.ev = job[a].ev /\ j.sub = job[a].sub
      BY <1>2 DEF Job, PC
    <2> HIDE DEF j
    <2>6. /\ job' \in [Actors -> Job] /\ job'[a] = j
          /\ \A b \in Actors \ {a} : job'[b] = job[b]
      BY <1>1, <2>1, <2>5, SetJob DEF j, JobsTyped
    <2>7. \A y \in job'[a].queue : actions'[y].status # "absent"
      BY <1>1, <1>2, <2>4, <2>5, <2>6 DEF RowsExist, RowsStay, Job
    <2>8. JobsTyped' /\ RowsExist'
      BY <1>1, <1>2, <2>3, <2>4, <2>5, <2>6, <2>7, JobsKept
    <2>9. RestTyped'
      BY <1>1, <1>11, CommitType DEF RestTyped, RequestLink
    <2> QED
      BY <2>4, <2>8, <2>9, TypeParts, PTL
  <1>12. CASE DeferLink(a)
    BY <1>3, <1>5, <1>12, EndLinkType DEF DeferLink
  <1>13. CASE LinkCreated(a) \/ LinkError(a)
    <2>1. PICK pc \in {"linked", "linkerror"} : Set(a, [job[a] EXCEPT !.pc = pc])
      BY <1>13 DEF LinkCreated, LinkError
    <2> DEFINE j == [job[a] EXCEPT !.pc = pc]
    <2>2. /\ j \in Job /\ j.act = job[a].act /\ j.queue = job[a].queue
          /\ j.ev = job[a].ev /\ j.sub = job[a].sub
      BY <1>2 DEF Job, PC
    <2>3. Set(a, j)
      BY <2>1
    <2> HIDE DEF j
    <2>4. job[a].pc = "link" /\ job[a].act \in ActionIds
      BY <1>1, <1>13 DEF LinkCreated, LinkError, JobsTyped
    <2>5. /\ links' \subseteq ActionIds /\ fetches' \in [ActionIds -> Nat]
          /\ UNCHANGED <<tables, wired, clock, live, faults>>
      BY <1>1, <1>13, <2>4 DEF LinkCreated, LinkError, RestTyped
    <2> QED
      BY <2>2, <2>3, <2>4, <2>5, SameWorkType
  <1>14. CASE RecordLink(a)
    <2>1. {"razorpay.payment_link.created"} \subseteq AuditAction
      BY DEF AuditAction
    <2> QED
      BY <1>3, <1>4, <1>5, <1>14, <2>1, EndLinkType DEF RecordLink
  <1>15. CASE RecordLinkError(a)
    <2>1. {"razorpay.payment_link.failed"} \subseteq AuditAction
      BY DEF AuditAction
    <2> QED
      BY <1>3, <1>5, <1>15, <2>1, EndLinkType DEF RecordLinkError
  <1> QED
    BY <1>6, <1>7, <1>8, <1>9, <1>10, <1>11, <1>12, <1>13, <1>14, <1>15 DEF LadderStep

(* An executor session's own steps keep the types.                         *)
LEMMA RunnerType ==
    ASSUME TypeInv, NEW r \in Runners, RunnerNext(r)
    PROVE  TypeInv'
  <1>1. RowsTyped /\ JobsTyped /\ RestTyped /\ RowsExist
    BY TypeParts
  <1>2. r \in Actors
    BY DEF Actors
  <1>3. ASSUME Begins(r), RestTyped',
               job'[r].pc # "idle" => job'[r].ev \in Events,
               job'[r].pc = "history" => job'[r].sub \in Subs
        PROVE  TypeInv'
    <2>1. RowsTyped' /\ RowsStay /\ None \notin ActionIds
      BY <1>1, <1>3, Constants DEF Begins, RowsTyped, RowsStay
    <2>2. r \notin Workers
      BY ExecutorAssumption
    <2>3. /\ job' \in [Actors -> Job] /\ job'[r].pc \in {"idle", "handed", "history"}
          /\ job'[r].act \notin ActionIds /\ \A b \in Actors \ {r} : job'[b] = job[b]
          /\ \A id \in job'[r].queue : actions'[id].status # "absent"
      BY <1>3, <2>1 DEF Begins
    <2>4. JobsTyped' /\ RowsExist'
      BY <1>1, <1>2, <1>3, <2>1, <2>2, <2>3, JobsKept
    <2> QED
      BY <1>3, <2>1, <2>4, TypeParts, PTL
  <1>4. ASSUME NEW e \in Events, HandOver(r, e) PROVE TypeInv'
    <2>1. Begins(r) /\ events' = events /\ job'[r].pc = "handed" /\ job'[r].ev = e
      BY <1>1, <1>4, HandOverBegins
    <2>2. RestTyped'
      BY <1>1, <2>1 DEF RestTyped, RunnerNext, Begins
    <2> QED
      BY <1>3, <2>1, <2>2
  <1>5. CASE SkipRun(r)
    <2>1. Begins(r) /\ events' \in [Events -> EventRow] /\ job'[r].pc = "idle"
      BY <1>1, <1>5, SkipRunBegins DEF IdleJob
    <2>2. RestTyped'
      BY <1>1, <2>1 DEF RestTyped, RunnerNext, Begins
    <2> QED
      BY <1>3, <2>1, <2>2
  <1>6. CASE StartRun(r)
    <2>1. /\ Begins(r) /\ events' = events
          /\ job'[r].ev \in Events /\ job'[r].sub \in Subs
      BY <1>1, <1>6, StartRunBegins
    <2>2. RestTyped'
      BY <1>1, <2>1 DEF RestTyped, RunnerNext, Begins
    <2> QED
      BY <1>3, <2>1, <2>2
  <1>7. CASE LadderStep(r)
    BY <1>2, <1>7, LadderType DEF RunnerNext
  <1> QED
    BY <1>4, <1>5, <1>6, <1>7 DEF RunnerNext, RunnerStep

(* A worker that settles its retry row.                                    *)
LEMMA EndRetryType ==
    ASSUME TypeInv, NEW w \in Workers, job[w].pc \in {"fetch", "fetched"},
           NEW status \in ActionStatus, NEW exec \in Time,
           NEW entries, entries \subseteq AuditAction, NEW response \in {None, "answer"},
           EndRetry(w, status, exec, entries, response),
           subs' \in [Subs -> MirrorStatus], outcomes' \in Seq(OutcomeRow),
           fetches' \in [ActionIds -> Nat], UNCHANGED faults
    PROVE  TypeInv'
  <1>1. RowsTyped /\ JobsTyped /\ RestTyped /\ RowsExist
    BY TypeParts
  <1>2. w \in Actors /\ job[w].act \in ActionIds
    BY <1>1 DEF Actors, JobsTyped
  <1>3. RowsTyped' /\ RowsStay
    BY <1>2, SettleType DEF EndRetry
  <1>4. JobsTyped' /\ RowsExist'
    BY <1>1, <1>2, <1>3, FinishKept DEF EndRetry
  <1>5. RestTyped'
    BY <1>1 DEF RestTyped, EndRetry
  <1> QED
    BY <1>3, <1>4, <1>5, TypeParts, PTL

(* A worker's steps keep the types.                                        *)
LEMMA WorkerType ==
    ASSUME TypeInv, NEW w \in Workers, WorkerNext(w)
    PROVE  TypeInv'
  <1>1. RowsTyped /\ JobsTyped /\ RestTyped /\ RowsExist
    BY TypeParts
  <1>2. w \in Actors /\ job[w] \in Job
    BY <1>1 DEF Actors, JobsTyped
  <1>3. faults' = faults
    BY DEF WorkerNext
  <1>4. None \in Time /\ job[w].now \in Time
    BY <1>2 DEF Time, Job
  <1>5. /\ {"executing", "planned", "failed", "executed"} \subseteq ActionStatus
        /\ {"recovery.retry.attempted", "recovery.retry.failed",
            "recovery.retry.recovered"} \subseteq AuditAction
    BY DEF ActionStatus, AuditAction
  <1>6. CASE ClaimSelect(w)
    <2>1. PICK B \in SUBSET (Due \ LockedRows) :
            Set(w, [IdleJob EXCEPT !.pc = "claim", !.now = clock, !.queue = B])
      BY <1>6 DEF ClaimSelect
    <2>2. B \subseteq ActionIds /\ \A id \in B : actions[id].status = "scheduled"
      BY DEF Due
    <2> DEFINE j == [IdleJob EXCEPT !.pc = "claim", !.now = clock, !.queue = B]
    <2>3. j \in Job /\ j.pc = "claim" /\ j.act = None /\ j.queue = B
      BY <1>1, <2>2, EmptyTypes DEF Job, PC, IdleJob, RestTyped
    <2>4. Set(w, j)
      BY <2>1
    <2> HIDE DEF j
    <2>5. /\ job' \in [Actors -> Job] /\ job'[w] = j
          /\ \A b \in Actors \ {w} : job'[b] = job[b]
      BY <1>1, <1>2, <2>3, <2>4, SetJob DEF JobsTyped
    <2>6. RowsTyped' /\ RowsStay /\ RestTyped' /\ actions' = actions
      BY <1>1, <1>3, <1>6 DEF RowsTyped, RowsStay, RestTyped, ClaimSelect, tables
    <2>7. None \notin ActionIds
      BY Constants
    <2>8. JobsTyped' /\ RowsExist'
      BY <1>1, <1>2, <2>2, <2>3, <2>5, <2>6, <2>7, JobsKept
    <2> QED
      BY <2>6, <2>8, TypeParts, PTL
  <1>7. CASE ClaimCommit(w)
    <2>1. \A id \in ActionIds : [actions[id] EXCEPT !.status = "executing"] \in ActionRow
      BY <1>1, <1>5 DEF RowsTyped, ActionRow
    <2>2. actions' \in [ActionIds -> ActionRow]
      BY <1>1, <1>7, <2>1 DEF ClaimCommit, RowsTyped
    <2>3. \A id \in ActionIds :
             /\ actions'[id].ev = actions[id].ev /\ actions'[id].sub = actions[id].sub
             /\ actions'[id].type = actions[id].type
             /\ actions'[id].status # "absent" <=> actions[id].status # "absent"
      <3>1. \A id \in job[w].queue : actions[id].status # "absent"
        BY <1>1, <1>2 DEF RowsExist
      <3>2. \A id \in ActionIds : actions[id] \in ActionRow
        BY <1>1 DEF RowsTyped
      <3> QED
        BY <1>7, <3>1, <3>2 DEF ClaimCommit, ActionRow
    <2>4. RowsTyped' /\ RowsStay
      BY <1>1, <2>2, <2>3 DEF RowsTyped, RowsStay
    <2> DEFINE j == [job[w] EXCEPT !.pc = "next"]
    <2>5. /\ j \in Job /\ j.pc = "next" /\ j.act = job[w].act
          /\ j.queue = job[w].queue /\ j.queue \subseteq ActionIds
      BY <1>2 DEF Job, PC
    <2>6. Set(w, j)
      BY <1>7 DEF ClaimCommit
    <2> HIDE DEF j
    <2>7. /\ job' \in [Actors -> Job] /\ job'[w] = j
          /\ \A b \in Actors \ {w} : job'[b] = job[b]
      BY <1>1, <1>2, <2>5, <2>6, SetJob DEF JobsTyped
    <2>8. /\ \A id \in job'[w].queue : actions'[id].status # "absent"
          /\ job'[w].act \in ActionIds => actions'[job'[w].act].status # "absent"
      BY <1>1, <1>2, <2>4, <2>5, <2>7 DEF RowsExist, RowsStay
    <2>9. JobsTyped' /\ RowsExist'
      BY <1>1, <1>2, <2>4, <2>5, <2>7, <2>8, JobsKept
    <2>10. RestTyped'
      BY <1>1, <1>3, <1>7 DEF RestTyped, ClaimCommit
    <2> QED
      BY <2>4, <2>9, <2>10, TypeParts, PTL
  <1>8. CASE StartRetry(w)
    <2>1. PICK id \in job[w].queue :
            /\ actions' = [actions EXCEPT ![id].aud = @ \cup {"recovery.retry.attempted"}]
            /\ Set(w, [IdleJob EXCEPT !.pc = "fetch", !.act = id, !.ev = actions[id].ev,
                                      !.sub = actions[id].sub, !.cat = actions[id].cat,
                                      !.status = subs[actions[id].sub],
                                      !.now = job[w].now, !.queue = job[w].queue \ {id}])
      BY <1>8 DEF StartRetry
    <2>2. id \in ActionIds /\ actions[id].status # "absent" /\ actions[id] \in ActionRow
      BY <1>1, <1>2 DEF RowsExist, Job, RowsTyped
    <2>3. /\ actions[id].ev \in Events /\ actions[id].sub \in Subs
          /\ actions[id].cat \in DiagnosisCategory
      BY <1>1, <2>2 DEF RowsTyped, ActionRow
    <2> DEFINE row == [actions[id] EXCEPT
                          !.aud = actions[id].aud \cup {"recovery.retry.attempted"}]
    <2>4. /\ row \in ActionRow /\ row.status = actions[id].status
          /\ row.ev = actions[id].ev /\ row.sub = actions[id].sub
          /\ row.type = actions[id].type
      BY <1>5, <2>2 DEF ActionRow
    <2>5. actions' = [actions EXCEPT ![id] = row]
      BY <2>1
    <2> HIDE DEF row
    <2>6. RowsTyped' /\ RowsStay
      BY <1>1, <2>2, <2>4, <2>5 DEF RowsTyped, RowsStay
    <2> DEFINE j == [IdleJob EXCEPT !.pc = "fetch", !.act = id, !.ev = actions[id].ev,
                                    !.sub = actions[id].sub, !.cat = actions[id].cat,
                                    !.status = subs[actions[id].sub],
                                    !.now = job[w].now, !.queue = job[w].queue \ {id}]
    <2>7. subs[actions[id].sub] \in MirrorStatus /\ job[w].now \in Nat
          /\ job[w].queue \subseteq ActionIds
      BY <1>1, <1>2, <2>3 DEF RestTyped, Job
    <2>8. /\ j \in Job /\ j.pc = "fetch" /\ j.act = id /\ j.ev = actions[id].ev
          /\ j.sub = actions[id].sub /\ j.queue = job[w].queue \ {id}
      BY <2>2, <2>3, <2>7, EmptyTypes DEF Job, PC, IdleJob
    <2>9. Set(w, j)
      BY <2>1
    <2> HIDE DEF j
    <2>10. /\ job' \in [Actors -> Job] /\ job'[w] = j
           /\ \A b \in Actors \ {w} : job'[b] = job[b]
      BY <1>1, <1>2, <2>8, <2>9, SetJob DEF JobsTyped
    <2>11. /\ \A y \in job'[w].queue : actions'[y].status # "absent"
           /\ actions'[job'[w].act].status # "absent"
      BY <1>1, <1>2, <2>2, <2>6, <2>7, <2>8, <2>10 DEF RowsExist, RowsStay
    <2>12. JobsTyped' /\ RowsExist'
      BY <1>1, <1>2, <2>2, <2>3, <2>6, <2>8, <2>10, <2>11, JobsKept
    <2>13. RestTyped'
      BY <1>1, <1>3, <1>8 DEF RestTyped, StartRetry
    <2> QED
      BY <2>6, <2>12, <2>13, TypeParts, PTL
  <1>9. CASE DeferRetry(w)
    BY <1>1, <1>3, <1>4, <1>5, <1>9, EndRetryType DEF DeferRetry, RestTyped
  <1>10. CASE Fetch(w)
    <2>1. /\ job[w].pc = "fetch" /\ job[w].act \in ActionIds /\ job[w].sub \in Subs
          /\ fetches' = [fetches EXCEPT ![job[w].act] = @ + 1]
      BY <1>1, <1>2, <1>10 DEF Fetch, Call, JobsTyped
    <2>2. fetches' \in [ActionIds -> Nat]
      BY <1>1, <2>1 DEF RestTyped
    <2> DEFINE answer == live[job[w].sub]
               j == [job[w] EXCEPT !.pc = "fetched", !.status = answer,
                                   !.dirty = (answer # None /\ answer # job[w].status)]
    <2>3. answer \in MirrorStatus
      BY <1>1, <2>1, Constants DEF RestTyped, MirrorStatus
    <2>4. Set(w, j)
      BY <1>10 DEF Fetch
    <2> HIDE DEF answer
    <2>5. /\ j \in Job /\ j.pc = "fetched" /\ j.act = job[w].act
          /\ j.queue = job[w].queue /\ j.ev = job[w].ev /\ j.sub = job[w].sub
      BY <1>2, <2>3 DEF Job, PC
    <2> HIDE DEF j
    <2>6. links' \subseteq ActionIds /\ UNCHANGED <<tables, wired, clock, live, faults>>
      BY <1>1, <1>3, <1>10 DEF Fetch, RestTyped
    <2> QED
      BY <1>2, <2>1, <2>2, <2>4, <2>5, <2>6, SameWorkType
  <1>11. CASE FetchError(w)
    <2>1. fetches' \in [ActionIds -> Nat] /\ job[w].pc = "fetch"
      <3>1. job[w].pc = "fetch" /\ job[w].act \in ActionIds
        BY <1>1, <1>2, <1>11 DEF FetchError, Call, JobsTyped
      <3> QED
        BY <1>1, <1>11, <3>1 DEF FetchError, Call, RestTyped
    <2> QED
      BY <1>1, <1>3, <1>4, <1>5, <1>11, <2>1, EndRetryType DEF FetchError, RestTyped
  <1>12. CASE Recover(w)
    <2>1. job[w].pc = "fetched" /\ job[w].act \in ActionIds /\ job[w].ev \in Events
      BY <1>1, <1>2, <1>12 DEF Recover, MayFlush, JobsTyped
    <2>2. outcomes' \in Seq(OutcomeRow)
      BY <1>1, <1>12, <2>1 DEF Recover, RestTyped, OutcomeRow, OutcomeStatus
    <2>3. subs' \in [Subs -> MirrorStatus]
      BY <1>1, <1>2, <1>12, CommitType DEF Recover
    <2>4. fetches' \in [ActionIds -> Nat]
      BY <1>1, <1>12 DEF Recover, RestTyped
    <2>5. EndRetry(w, "executed", job[w].now, {"recovery.retry.recovered"}, "answer")
      BY <1>12 DEF Recover
    <2> QED
      BY <1>3, <1>4, <1>5, <2>1, <2>2, <2>3, <2>4, <2>5, EndRetryType
  <1>13. CASE Relapse(w)
    <2> DEFINE j == [job[w] EXCEPT !.pc = "history"]
    <2>1. /\ j \in Job /\ j.pc = "history" /\ j.act = job[w].act
          /\ j.queue = job[w].queue /\ j.ev = job[w].ev /\ j.sub = job[w].sub
      BY <1>2 DEF Job, PC
    <2>2. Set(w, j) /\ job[w].pc = "fetched"
      BY <1>13 DEF Relapse, MayFlush
    <2> HIDE DEF j
    <2>3. /\ links' \subseteq ActionIds /\ fetches' \in [ActionIds -> Nat]
          /\ UNCHANGED <<tables, wired, clock, live, faults>>
      BY <1>1, <1>3, <1>13 DEF Relapse, RestTyped
    <2> QED
      BY <1>2, <2>1, <2>2, <2>3, SameWorkType
  <1>14. CASE LadderStep(w) /\ UNCHANGED <<live, fetches>>
    BY <1>2, <1>3, <1>14, LadderType
  <1> QED
    BY <1>6, <1>7, <1>8, <1>9, <1>10, <1>11, <1>12, <1>13, <1>14 DEF WorkerNext, WorkerStep

(* What happens around the sessions keeps the types; so does losing one.   *)
LEMMA EnvironmentType ==
    ASSUME TypeInv,
           \/ \E e \in Events : Ingest(e)
           \/ Tick
           \/ \E s \in Subs : LiveChange(s)
           \/ WireClient
           \/ \E a \in Actors : Abort(a)
    PROVE  TypeInv'
  <1>1. RowsTyped /\ JobsTyped /\ RestTyped /\ RowsExist
    BY TypeParts
  <1>2. CASE \E e \in Events : Ingest(e)
    <2>1. PICK e \in Events : Ingest(e)
      BY <1>2
    <2>2. \A body \in Bodies : [state |-> "pending", at |-> None, body |-> body] \in EventRow
      BY DEF EventRow, EventProcessingStatus, Time
    <2>3. events' \in [Events -> EventRow]
      BY <1>1, <2>1, <2>2 DEF RestTyped, Ingest
    <2> QED
      BY <1>1, <2>1, <2>3, TypeParts DEF Ingest, TypeInv, TypeOK, RowsExist
  <1>3. CASE Tick
    BY <1>3 DEF Tick, tables, TypeInv, TypeOK, RowsExist
  <1>4. CASE \E s \in Subs : LiveChange(s)
    <2>1. PICK s \in Subs : LiveChange(s)
      BY <1>4
    <2>2. live' \in [Subs -> LiveStatuses]
      BY <1>1, <2>1 DEF LiveChange, RestTyped
    <2> QED
      BY <2>1, <2>2 DEF LiveChange, tables, TypeInv, TypeOK, RowsExist
  <1>5. CASE WireClient
    BY <1>5 DEF WireClient, tables, TypeInv, TypeOK, RowsExist
  <1>6. CASE \E a \in Actors : Abort(a)
    <2>1. PICK a \in Actors : Abort(a)
      BY <1>6
    <2>2. /\ IdleJob \in Job /\ IdleJob.pc = "idle" /\ IdleJob.queue = {}
          /\ IdleJob.act \notin ActionIds
      BY EmptyTypes, Constants DEF IdleJob
    <2>3. Set(a, IdleJob)
      BY <2>1 DEF Abort
    <2>4. /\ job' \in [Actors -> Job] /\ job'[a] = IdleJob
          /\ \A b \in Actors \ {a} : job'[b] = job[b]
      BY <1>1, <2>2, <2>3, SetJob DEF JobsTyped
    <2>5. RowsTyped' /\ RowsStay /\ RestTyped'
      BY <1>1, <2>1 DEF RowsTyped, RowsStay, RestTyped, Abort, tables
    <2>6. JobsTyped' /\ RowsExist'
      BY <1>1, <2>2, <2>4, <2>5, JobsKept
    <2> QED
      BY <2>5, <2>6, TypeParts, PTL
  <1> QED
    BY <1>2, <1>3, <1>4, <1>5, <1>6

LEMMA TypeStep == TypeInv /\ [Next]_vars => TypeInv'
  <1> SUFFICES ASSUME TypeInv, [Next]_vars PROVE TypeInv'
    OBVIOUS
  <1>1. CASE Next
    BY <1>1, RunnerType, WorkerType, EnvironmentType DEF Next
  <1>2. CASE UNCHANGED vars
    BY <1>2 DEF vars, TypeInv, TypeOK, RowsExist
  <1> QED
    BY <1>1, <1>2

(* Every table row, local variable and clock value stays in its domain, and*)
(* no session ever works on a row, an event or a subscription that is not  *)
(* there.                                                                  *)
THEOREM TypeCorrect == Spec => []TypeOK
  <1>1. Spec => []TypeInv
    BY TypeInit, TypeStep, PTL DEF Spec
  <1>2. TypeInv => TypeOK
    BY DEF TypeInv
  <1> QED
    BY <1>1, <1>2, PTL

-----------------------------------------------------------------------------
(* The bound on retries. A decision in flight that has counted fewer than  *)
(* max_retries rows may add one more, whatever has been committed since;   *)
(* it is counted beside the rows themselves.                               *)

InFlight(s) == {a \in Actors :
    job[a].pc = "decide" /\ job[a].sub = s /\ job[a].n < MaxRetries}

BoundInv == \A s \in Subs :
    Cardinality(RetryRows(s)) + Cardinality(InFlight(s)) < MaxRetries + Cardinality(Actors)

LEMMA InFlightFinite ==
    ASSUME NEW s
    PROVE  /\ IsFiniteSet(InFlight(s)) /\ Cardinality(InFlight(s)) \in Nat
           /\ Cardinality(InFlight(s)) <= Cardinality(Actors)
           /\ Cardinality(Actors) \in Nat
  <1>1. InFlight(s) \subseteq Actors
    BY DEF InFlight
  <1>2. IsFiniteSet(InFlight(s)) /\ Cardinality(InFlight(s)) <= Cardinality(Actors)
    BY <1>1, Constants, FS_Subset
  <1> QED
    BY <1>2, Constants, FS_CardinalityType

(* No retry row is added and no decision begins.                           *)
Shrinks == \A s \in Subs :
    /\ RetryRows(s)' \subseteq RetryRows(s)
    /\ InFlight(s)' \subseteq InFlight(s)

LEMMA BoundShrinks ==
    ASSUME BoundInv, Shrinks
    PROVE  BoundInv'
  <1> SUFFICES ASSUME NEW s \in Subs
               PROVE  Cardinality(RetryRows(s)') + Cardinality(InFlight(s)')
                        < MaxRetries + Cardinality(Actors)
    BY DEF BoundInv
  <1>1. /\ RetryRows(s)' \subseteq RetryRows(s) /\ InFlight(s)' \subseteq InFlight(s)
        /\ IsFiniteSet(RetryRows(s)) /\ IsFiniteSet(InFlight(s))
    BY RetryRowsFinite, InFlightFinite DEF Shrinks
  <1>2. /\ Cardinality(RetryRows(s)') \in Nat /\ Cardinality(RetryRows(s)) \in Nat
        /\ Cardinality(InFlight(s)') \in Nat /\ Cardinality(InFlight(s)) \in Nat
        /\ MaxRetries \in Nat /\ Cardinality(Actors) \in Nat
    BY <1>1, FS_Subset, FS_CardinalityType, Constants
  <1>3. /\ Cardinality(RetryRows(s)') <= Cardinality(RetryRows(s))
        /\ Cardinality(InFlight(s)') <= Cardinality(InFlight(s))
    BY <1>1, FS_Subset
  <1>4. Cardinality(RetryRows(s)) + Cardinality(InFlight(s))
          < MaxRetries + Cardinality(Actors)
    BY DEF BoundInv
  <1> QED
    BY <1>2, <1>3, <1>4

(* A session that is not deciding after the step is no longer in flight.   *)
LEMMA LeavesFlight ==
    ASSUME NEW a \in Actors, job'[a].pc # "decide",
           \A b \in Actors \ {a} : job'[b] = job[b]
    PROVE  \A s \in Subs : InFlight(s)' \subseteq InFlight(s) \ {a}
  BY DEF InFlight

(* A step that keeps what every row is about adds no retry row.            *)
LEMMA SubjectsShrink ==
    ASSUME \A id \in ActionIds : actions'[id].type = actions[id].type
                                 /\ actions'[id].sub = actions[id].sub
    PROVE  \A s \in Subs : RetryRows(s)' \subseteq RetryRows(s)
  BY DEF RetryRows

(* A decision for another action than a retry adds no retry row.           *)
LEMMA OtherInsertShrinks ==
    ASSUME TypeInv, NEW a \in Actors, job[a].pc = "decide", NEW id \in ActionIds,
           NEW status \in ActionStatus, NEW sched \in Time, NEW exec \in Time,
           NEW entries, entries \subseteq AuditAction,
           Insert(a, id, NewRow(a, status, sched, exec, entries)),
           Choice(a).type # "retry_charge"
    PROVE  \A s \in Subs : RetryRows(s)' \subseteq RetryRows(s)
  <1>1. /\ actions'[id] = NewRow(a, status, sched, exec, entries)
        /\ \A y \in ActionIds \ {id} : actions'[y].type = actions[y].type
                                       /\ actions'[y].sub = actions[y].sub
    BY InsertRow
  <1>2. actions'[id].type # "retry_charge"
    BY <1>1 DEF NewRow
  <1> QED
    BY <1>1, <1>2 DEF RetryRows

(* A decision for a retry, scheduled or skipped, adds one.                 *)
LEMMA RetryInsertAddsOne ==
    ASSUME TypeInv, NEW a \in Actors, job[a].pc = "decide", NEW id \in ActionIds,
           NEW status \in ActionStatus, NEW sched \in Time, NEW exec \in Time,
           NEW entries, entries \subseteq AuditAction,
           Insert(a, id, NewRow(a, status, sched, exec, entries))
    PROVE  \A s \in Subs :
              /\ RetryRows(s)' \subseteq RetryRows(s) \cup {id}
              /\ s # job[a].sub => RetryRows(s)' \subseteq RetryRows(s)
  <1>1. /\ actions'[id] = NewRow(a, status, sched, exec, entries)
        /\ \A y \in ActionIds \ {id} : actions'[y].type = actions[y].type
                                       /\ actions'[y].sub = actions[y].sub
    BY InsertRow
  <1>2. actions'[id].sub = job[a].sub
    BY <1>1 DEF NewRow
  <1> QED
    BY <1>1, <1>2 DEF RetryRows

(* A deciding session exchanges its place in flight for the row it adds.   *)
LEMMA BoundInsert ==
    ASSUME TypeInv, BoundInv, NEW a \in Actors, job[a].pc = "decide",
           NEW id \in ActionIds,
           NEW status \in ActionStatus, NEW sched \in Time, NEW exec \in Time,
           NEW entries, entries \subseteq AuditAction,
           Insert(a, id, NewRow(a, status, sched, exec, entries)),
           job'[a].pc # "decide", \A b \in Actors \ {a} : job'[b] = job[b]
    PROVE  BoundInv'
  <1>1. \A s \in Subs : InFlight(s)' \subseteq InFlight(s) \ {a}
    BY LeavesFlight
  <1>2. CASE Choice(a).type # "retry_charge"
    <2>1. \A s \in Subs : RetryRows(s)' \subseteq RetryRows(s)
      BY <1>2, OtherInsertShrinks
    <2> QED
      BY <1>1, <2>1, BoundShrinks DEF Shrinks
  <1>3. CASE Choice(a).type = "retry_charge"
    <2>1. \A s \in Subs :
             /\ RetryRows(s)' \subseteq RetryRows(s) \cup {id}
             /\ s # job[a].sub => RetryRows(s)' \subseteq RetryRows(s)
      BY RetryInsertAddsOne
    <2>2. a \in InFlight(job[a].sub) /\ job[a].sub \in Subs
      <3>1. /\ job[a].cat \in DiagnosisCategory /\ job[a].n \in Nat /\ job[a].sub \in Subs
        BY TypeParts DEF JobsTyped, Job
      <3> QED
        BY <1>3, <3>1, DecideType DEF Choice, InFlight
    <2> SUFFICES ASSUME NEW s \in Subs
                 PROVE  Cardinality(RetryRows(s)') + Cardinality(InFlight(s)')
                          < MaxRetries + Cardinality(Actors)
      BY DEF BoundInv
    <2>3. /\ IsFiniteSet(RetryRows(s)) /\ IsFiniteSet(InFlight(s))
          /\ Cardinality(RetryRows(s)) \in Nat /\ Cardinality(InFlight(s)) \in Nat
          /\ MaxRetries \in Nat /\ Cardinality(Actors) \in Nat
          /\ Cardinality(RetryRows(s)) + Cardinality(InFlight(s))
               < MaxRetries + Cardinality(Actors)
      BY RetryRowsFinite, InFlightFinite, Constants DEF BoundInv
    <2>4. CASE s = job[a].sub
      <3>1. IsFiniteSet(RetryRows(s) \cup {id})
            /\ Cardinality(RetryRows(s) \cup {id}) <= Cardinality(RetryRows(s)) + 1
            /\ Cardinality(RetryRows(s) \cup {id}) \in Nat
        <4>1. /\ IsFiniteSet(RetryRows(s) \cup {id})
              /\ \/ Cardinality(RetryRows(s) \cup {id}) = Cardinality(RetryRows(s))
                 \/ Cardinality(RetryRows(s) \cup {id}) = Cardinality(RetryRows(s)) + 1
          <5> HIDE DEF RetryRows
          <5> QED
            BY <2>3, FS_AddElement, Zenon
        <4> QED
          BY <2>3, <4>1
      <3>2. IsFiniteSet(RetryRows(s)') /\ Cardinality(RetryRows(s)') \in Nat
            /\ Cardinality(RetryRows(s)') <= Cardinality(RetryRows(s) \cup {id})
        BY <2>1, <3>1, FS_Subset, FS_CardinalityType
      <3>3. IsFiniteSet(InFlight(s) \ {a})
            /\ Cardinality(InFlight(s) \ {a}) = Cardinality(InFlight(s)) - 1
        BY <2>2, <2>3, <2>4, FS_RemoveElement
      <3>4. Cardinality(InFlight(s)') \in Nat
            /\ Cardinality(InFlight(s)') <= Cardinality(InFlight(s)) - 1
        BY <1>1, <3>3, FS_Subset, FS_CardinalityType
      <3> QED
        BY <2>3, <3>1, <3>2, <3>4
    <2>5. CASE s # job[a].sub
      <3>1. RetryRows(s)' \subseteq RetryRows(s) /\ InFlight(s)' \subseteq InFlight(s)
        BY <1>1, <2>1, <2>5
      <3>2. Cardinality(RetryRows(s)') \in Nat
            /\ Cardinality(RetryRows(s)') <= Cardinality(RetryRows(s))
        BY <2>3, <3>1, FS_Subset, FS_CardinalityType
      <3>3. Cardinality(InFlight(s)') \in Nat
            /\ Cardinality(InFlight(s)') <= Cardinality(InFlight(s))
        BY <2>3, <3>1, FS_Subset, FS_CardinalityType
      <3> QED
        BY <2>3, <3>2, <3>3
    <2> QED
      BY <2>4, <2>5
  <1> QED
    BY <1>2, <1>3

(* After Finish a session is not deciding.                                 *)
LEMMA FinishLeaves ==
    ASSUME TypeInv, NEW a \in Actors, Finish(a)
    PROVE  job'[a].pc # "decide" /\ \A b \in Actors \ {a} : job'[b] = job[b]
  BY TypeParts, FinishJob DEF JobsTyped

(* So does a step that gives it another job than deciding.                 *)
LEMMA SetLeaves ==
    ASSUME TypeInv, NEW a \in Actors, NEW j, j.pc # "decide", Set(a, j)
    PROVE  job'[a].pc # "decide" /\ \A b \in Actors \ {a} : job'[b] = job[b]
  BY TypeParts DEF JobsTyped, Set

(* The result of a call changes no row's type or subscription.             *)
LEMMA SettleShrinks ==
    ASSUME TypeInv, NEW a \in Actors, job[a].act \in ActionIds,
           NEW status \in ActionStatus, NEW exec \in Time,
           NEW entries, entries \subseteq AuditAction, NEW response \in {None, "answer"},
           actions' = Settle(a, status, exec, entries, response)
    PROVE  \A s \in Subs : RetryRows(s)' \subseteq RetryRows(s)
  <1>1. SameSubject(actions')
    BY TypeParts, SettleRow
  <1> QED
    BY <1>1, SubjectsShrink DEF SameSubject

LEMMA LadderBound ==
    ASSUME TypeInv, BoundInv, NEW a \in Actors, LadderStep(a)
    PROVE  BoundInv'
  <1>1. RowsTyped /\ JobsTyped /\ RestTyped /\ RowsExist
    BY TypeParts
  <1>2. /\ job[a] \in Job /\ job[a].now \in Nat /\ job[a].n \in Nat
        /\ job[a].cat \in DiagnosisCategory
        /\ job[a].pc \in {"link", "linked", "linkerror"} => job[a].act \in ActionIds
    BY <1>1 DEF JobsTyped, Job
  <1>3. None \in Time /\ (\A t \in Nat : t \in Time)
    BY DEF Time
  <1>4. /\ {"skipped", "scheduled", "executed", "failed", "executing", "planned"}
             \subseteq ActionStatus
        /\ {"recovery.retry.scheduled", "razorpay.payment_link.failed",
            "razorpay.payment_link.requested", "razorpay.payment_link.created"}
             \subseteq AuditAction
    BY DEF ActionStatus, AuditAction
  <1>5. CASE ReadHistory(a)
    <2>1. PICK t \in LastAttempts(job[a].sub) :
            Set(a, [job[a] EXCEPT !.pc = "decide",
                                  !.n = Cardinality(RetryRows(job[a].sub)),
                                  !.last = IF a \in Workers THEN None ELSE t])
      BY <1>5 DEF ReadHistory
    <2>2. /\ job'[a].n = Cardinality(RetryRows(job[a].sub)) /\ job'[a].sub = job[a].sub
          /\ \A b \in Actors \ {a} : job'[b] = job[b]
      BY <1>1, <1>2, <2>1 DEF Set, JobsTyped, Job
    <2>3. \A s \in Subs : RetryRows(s)' = RetryRows(s)
      BY <1>5 DEF ReadHistory, RetryRows, tables
    <2> SUFFICES ASSUME NEW s \in Subs
                 PROVE  Cardinality(RetryRows(s)') + Cardinality(InFlight(s)')
                          < MaxRetries + Cardinality(Actors)
      BY DEF BoundInv
    <2>4. /\ Cardinality(RetryRows(s)) \in Nat /\ Cardinality(InFlight(s)) \in Nat
          /\ IsFiniteSet(InFlight(s))
          /\ MaxRetries \in Nat /\ Cardinality(Actors) \in Nat
          /\ Cardinality(RetryRows(s)) + Cardinality(InFlight(s))
               < MaxRetries + Cardinality(Actors)
      BY RetryRowsFinite, InFlightFinite, Constants DEF BoundInv
    <2>5. CASE a \in InFlight(s)'
      <3>1. Cardinality(RetryRows(s)) < MaxRetries
        BY <2>2, <2>5 DEF InFlight
      <3>2. InFlight(s)' \subseteq Actors
        BY DEF InFlight
      <3>3. Cardinality(InFlight(s)') \in Nat
            /\ Cardinality(InFlight(s)') <= Cardinality(Actors)
        BY <3>2, Constants, FS_Subset, FS_CardinalityType
      <3> QED
        BY <2>3, <2>4, <3>1, <3>3
    <2>6. CASE a \notin InFlight(s)'
      <3>1. InFlight(s)' \subseteq InFlight(s)
        BY <2>2, <2>6 DEF InFlight
      <3>2. Cardinality(InFlight(s)') \in Nat
            /\ Cardinality(InFlight(s)') <= Cardinality(InFlight(s))
        BY <2>4, <3>1, FS_Subset, FS_CardinalityType
      <3> QED
        BY <2>3, <2>4, <3>2
    <2> QED
      BY <2>5, <2>6
  <1>6. CASE Skip(a)
    <2>1. PICK id \in ActionIds : Insert(a, id, NewRow(a, "skipped", None, None, {}))
      BY <1>6 DEF Skip
    <2>2. job'[a].pc # "decide" /\ \A b \in Actors \ {a} : job'[b] = job[b]
      BY <1>6, FinishLeaves DEF Skip, EndDecision
    <2> QED
      BY <1>3, <1>4, <1>6, <2>1, <2>2, BoundInsert DEF Skip
  <1>7. CASE ScheduleRetry(a)
    <2>1. job[a].now + Choice(a).delay \in Time
      BY <1>2, <1>3, DecideType DEF Choice
    <2>2. PICK id \in ActionIds :
            Insert(a, id, NewRow(a, "scheduled", job[a].now + Choice(a).delay, None,
                                 {"recovery.retry.scheduled"}))
      BY <1>7 DEF ScheduleRetry
    <2>3. job'[a].pc # "decide" /\ \A b \in Actors \ {a} : job'[b] = job[b]
      BY <1>7, FinishLeaves DEF ScheduleRetry, EndDecision
    <2>4. {"recovery.retry.scheduled"} \subseteq AuditAction
      BY <1>4
    <2> QED
      BY <1>3, <1>4, <1>7, <2>1, <2>2, <2>3, <2>4, BoundInsert DEF ScheduleRetry, Proposes
  <1>8. CASE Conclude(a)
    <2>1. PICK type \in DOMAIN TerminalOutcome, id \in ActionIds :
            /\ Proposes(a, type)
            /\ Insert(a, id, NewRow(a, "executed", None, job[a].now, {TerminalEntry[type]}))
            /\ EndDecision(a)
      BY <1>8 DEF Conclude
    <2>2. {TerminalEntry[type]} \subseteq AuditAction
      BY DEF TerminalEntry, TerminalOutcome, AuditAction
    <2>3. job'[a].pc # "decide" /\ \A b \in Actors \ {a} : job'[b] = job[b]
      BY <2>1, FinishLeaves DEF EndDecision
    <2>4. job[a].pc = "decide" /\ job[a].now \in Time
      BY <1>2, <1>3, <2>1 DEF Proposes
    <2> QED
      BY <1>3, <1>4, <2>1, <2>2, <2>3, <2>4, BoundInsert
  <1>9. CASE LinkWithoutAmount(a)
    <2>1. PICK id \in ActionIds :
            Insert(a, id, NewRow(a, "failed", None, None, {"razorpay.payment_link.failed"}))
      BY <1>9 DEF LinkWithoutAmount
    <2>2. job'[a].pc # "decide" /\ \A b \in Actors \ {a} : job'[b] = job[b]
      BY <1>9, FinishLeaves DEF LinkWithoutAmount, EndDecision
    <2>3. {"razorpay.payment_link.failed"} \subseteq AuditAction
      BY <1>4
    <2> QED
      BY <1>3, <1>4, <1>9, <2>1, <2>2, <2>3, BoundInsert DEF LinkWithoutAmount, Proposes
  <1>10. CASE RequestLink(a)
    <2>1. PICK id \in ActionIds :
            /\ Insert(a, id, NewRow(a, "executing", None, None,
                                    {"razorpay.payment_link.requested"}))
            /\ Set(a, [job[a] EXCEPT !.pc = "link", !.act = id, !.dirty = FALSE])
      BY <1>10 DEF RequestLink
    <2>2. [job[a] EXCEPT !.pc = "link", !.act = id, !.dirty = FALSE].pc # "decide"
      BY <1>2 DEF Job
    <2>3. job'[a].pc # "decide" /\ \A b \in Actors \ {a} : job'[b] = job[b]
      BY <2>1, <2>2, SetLeaves
    <2>4. {"razorpay.payment_link.requested"} \subseteq AuditAction
      BY <1>4
    <2> QED
      BY <1>3, <1>4, <1>10, <2>1, <2>3, <2>4, BoundInsert DEF RequestLink, Proposes
  <1>11. CASE DeferLink(a) \/ RecordLink(a) \/ RecordLinkError(a)
    <2>1. PICK status \in ActionStatus, exec \in Time, entries \in SUBSET AuditAction,
               response \in {None, "answer"} : EndLink(a, status, exec, entries, response)
      <3>1. CASE DeferLink(a)
        BY <1>3, <1>4, <3>1 DEF DeferLink
      <3>2. CASE RecordLink(a)
        <4>1. {"razorpay.payment_link.created"} \in SUBSET AuditAction
          BY <1>4
        <4> QED
          BY <1>2, <1>3, <1>4, <3>2, <4>1 DEF RecordLink
      <3>3. CASE RecordLinkError(a)
        <4>1. {"razorpay.payment_link.failed"} \in SUBSET AuditAction
          BY <1>4
        <4> QED
          BY <1>3, <1>4, <3>3, <4>1 DEF RecordLinkError
      <3> QED
        BY <1>11, <3>1, <3>2, <3>3
    <2>2. job[a].act \in ActionIds
      BY <1>2, <1>11 DEF DeferLink, RecordLink, RecordLinkError
    <2>3. \A s \in Subs : RetryRows(s)' \subseteq RetryRows(s)
      BY <2>1, <2>2, SettleShrinks DEF EndLink
    <2>4. \A s \in Subs : InFlight(s)' \subseteq InFlight(s)
      BY <2>1, FinishLeaves, LeavesFlight DEF EndLink
    <2> QED
      BY <2>3, <2>4, BoundShrinks DEF Shrinks
  <1>12. CASE LinkCreated(a) \/ LinkError(a)
    <2>1. PICK pc \in {"linked", "linkerror"} : Set(a, [job[a] EXCEPT !.pc = pc])
      BY <1>12 DEF LinkCreated, LinkError
    <2>2. [job[a] EXCEPT !.pc = pc].pc # "decide"
      BY <1>2 DEF Job
    <2>3. \A s \in Subs : InFlight(s)' \subseteq InFlight(s)
      BY <2>1, <2>2, SetLeaves, LeavesFlight
    <2>4. \A s \in Subs : RetryRows(s)' \subseteq RetryRows(s)
      BY <1>12 DEF LinkCreated, LinkError, tables, RetryRows
    <2> QED
      BY <2>3, <2>4, BoundShrinks DEF Shrinks
  <1> QED
    BY <1>5, <1>6, <1>7, <1>8, <1>9, <1>10, <1>11, <1>12 DEF LadderStep

(* A step whose sessions do not begin a decision keeps the bound.          *)
LEMMA QuietStep ==
    ASSUME TypeInv, BoundInv, NEW a \in Actors, job'[a].pc # "decide",
           \A b \in Actors \ {a} : job'[b] = job[b],
           \A s \in Subs : RetryRows(s)' \subseteq RetryRows(s)
    PROVE  BoundInv'
  BY LeavesFlight, BoundShrinks DEF Shrinks

LEMMA RunnerBound ==
    ASSUME TypeInv, BoundInv, NEW r \in Runners, RunnerStep(r)
    PROVE  BoundInv'
  <1>1. r \in Actors
    BY DEF Actors
  <1>2. CASE Begins(r)
    <2>1. job'[r].pc # "decide" /\ \A b \in Actors \ {r} : job'[b] = job[b]
      BY <1>2 DEF Begins
    <2>2. \A s \in Subs : RetryRows(s)' \subseteq RetryRows(s)
      BY <1>2 DEF Begins, RetryRows
    <2> QED
      BY <1>1, <2>1, <2>2, QuietStep
  <1> QED
    BY <1>1, <1>2, LadderBound, RunnerSteps, TypeParts

LEMMA WorkerBound ==
    ASSUME TypeInv, BoundInv, NEW w \in Workers, WorkerStep(w)
    PROVE  BoundInv'
  <1>1. /\ w \in Actors /\ job[w] \in Job /\ job[w].now \in Nat
        /\ job[w].pc \in {"fetch", "fetched"} => job[w].act \in ActionIds
    BY TypeParts DEF Actors, JobsTyped, Job
  <1>2. CASE ClaimSelect(w) \/ Fetch(w) \/ Relapse(w)
    <2>1. PICK j : j.pc # "decide" /\ Set(w, j)
      BY <1>1, <1>2 DEF ClaimSelect, Fetch, Relapse, IdleJob, Job
    <2>2. job'[w].pc # "decide" /\ \A b \in Actors \ {w} : job'[b] = job[b]
      BY <1>1, <2>1, SetLeaves
    <2>3. \A s \in Subs : RetryRows(s)' \subseteq RetryRows(s)
      BY <1>2 DEF ClaimSelect, Fetch, Relapse, tables, RetryRows
    <2> QED
      BY <1>1, <2>2, <2>3, QuietStep
  <1>3. CASE ClaimCommit(w) \/ StartRetry(w)
    <2>1. PICK j : j.pc # "decide" /\ Set(w, j)
      BY <1>1, <1>3 DEF ClaimCommit, StartRetry, IdleJob, Job
    <2>2. job'[w].pc # "decide" /\ \A b \in Actors \ {w} : job'[b] = job[b]
      BY <1>1, <2>1, SetLeaves
    <2>3. \A id \in ActionIds : actions'[id].type = actions[id].type
                                /\ actions'[id].sub = actions[id].sub
      <3>1. actions \in [ActionIds -> ActionRow]
        BY TypeParts DEF RowsTyped
      <3>2. CASE ClaimCommit(w)
        <4> SUFFICES ASSUME NEW id \in ActionIds
                     PROVE  /\ actions'[id].type = actions[id].type
                            /\ actions'[id].sub = actions[id].sub
          OBVIOUS
        <4>1. actions[id] \in ActionRow
          BY <3>1
        <4>2. actions'[id] = actions[id]
              \/ actions'[id] = [actions[id] EXCEPT !.status = "executing"]
          BY <3>2 DEF ClaimCommit
        <4> QED
          BY <4>1, <4>2 DEF ActionRow
      <3>3. CASE StartRetry(w)
        <4>1. PICK id \in ActionIds : actions' =
                [actions EXCEPT ![id].aud = @ \cup {"recovery.retry.attempted"}]
          BY <1>1, <3>3 DEF StartRetry, Job
        <4> QED
          BY <3>1, <4>1 DEF ActionRow
      <3> QED
        BY <1>3, <3>2, <3>3
    <2> QED
      BY <1>1, <2>2, <2>3, SubjectsShrink, QuietStep
  <1>4. CASE DeferRetry(w) \/ FetchError(w) \/ Recover(w)
    <2>1. PICK status \in ActionStatus, exec \in Time, entries \in SUBSET AuditAction,
               response \in {None, "answer"} : EndRetry(w, status, exec, entries, response)
      <3>1. job[w].now \in Time /\ None \in Time
        BY <1>1 DEF Time
      <3>2. {"planned", "failed", "executed"} \subseteq ActionStatus
            /\ {} \in SUBSET AuditAction
            /\ {"recovery.retry.failed"} \in SUBSET AuditAction
            /\ {"recovery.retry.recovered"} \in SUBSET AuditAction
        BY DEF ActionStatus, AuditAction
      <3>3. CASE DeferRetry(w)
        BY <3>1, <3>2, <3>3 DEF DeferRetry
      <3>4. CASE FetchError(w)
        BY <3>1, <3>2, <3>4 DEF FetchError
      <3>5. CASE Recover(w)
        BY <3>1, <3>2, <3>5 DEF Recover
      <3> QED
        BY <1>4, <3>3, <3>4, <3>5
    <2>2. job[w].act \in ActionIds
      BY <1>1, <1>4 DEF DeferRetry, FetchError, Call, Recover, MayFlush
    <2>3. \A s \in Subs : RetryRows(s)' \subseteq RetryRows(s)
      BY <1>1, <2>1, <2>2, SettleShrinks DEF EndRetry
    <2>4. job'[w].pc # "decide" /\ \A b \in Actors \ {w} : job'[b] = job[b]
      BY <1>1, <2>1, FinishLeaves DEF EndRetry
    <2> QED
      BY <1>1, <2>3, <2>4, QuietStep
  <1> QED
    BY <1>1, <1>2, <1>3, <1>4, LadderBound DEF WorkerStep

LEMMA BoundStep ==
    ASSUME TypeInv, BoundInv, [Next]_vars
    PROVE  BoundInv'
  <1>1. CASE \E r \in Runners : RunnerNext(r)
    BY <1>1, RunnerBound DEF RunnerNext
  <1>2. CASE \E w \in Workers : WorkerNext(w)
    BY <1>2, WorkerBound DEF WorkerNext
  <1>3. ASSUME NEW a \in Actors, Abort(a)
        PROVE  BoundInv'
    <2>1. IdleJob.pc # "decide" /\ Set(a, IdleJob)
      BY <1>3 DEF Abort, IdleJob
    <2>2. job'[a].pc # "decide" /\ \A b \in Actors \ {a} : job'[b] = job[b]
      BY <2>1, SetLeaves
    <2>3. \A s \in Subs : RetryRows(s)' \subseteq RetryRows(s)
      BY <1>3 DEF Abort, tables, RetryRows
    <2> QED
      BY <2>2, <2>3, QuietStep
  <1>4. CASE \/ \E e \in Events : Ingest(e)
             \/ Tick \/ (\E s \in Subs : LiveChange(s)) \/ WireClient \/ UNCHANGED vars
    <2>1. actions' = actions /\ job' = job
      BY <1>4 DEF Ingest, Tick, LiveChange, WireClient, tables, vars
    <2> QED
      BY <2>1, BoundShrinks DEF Shrinks, RetryRows, InFlight
  <1> QED
    BY <1>1, <1>2, <1>3, <1>4 DEF Next

LEMMA BoundInit ==
    ASSUME Init
    PROVE  BoundInv
  <1> SUFFICES ASSUME NEW s \in Subs
               PROVE  Cardinality(RetryRows(s)) + Cardinality(InFlight(s))
                        < MaxRetries + Cardinality(Actors)
    BY DEF BoundInv
  <1>1. RetryRows(s) = {}
    BY Constants DEF Init, RetryRows, AbsentRow
  <1>2. InFlight(s) = {}
    BY DEF Init, InFlight, IdleJob
  <1>3. Cardinality(RetryRows(s)) = 0 /\ Cardinality(InFlight(s)) = 0
    BY <1>1, <1>2, FS_EmptySet
  <1>4. Cardinality(Actors) \in Nat /\ Cardinality(Actors) # 0 /\ MaxRetries \in Nat
    <2>1. IsFiniteSet(Actors) /\ Actors # {} /\ MaxRetries \in Nat
      BY Constants
    <2> HIDE DEF Actors
    <2> QED
      BY <2>1, FS_EmptySet, FS_CardinalityType, Zenon
  <1> QED
    BY <1>3, <1>4

(* _retry_history cannot see a decision in flight elsewhere, but a session *)
(* that decides to retry has seen fewer than max_retries rows; whatever the*)
(* numbers of sessions and events, the excess is less than the sessions.   *)
THEOREM RetryBoundHolds == Spec => []RetryBound
  <1>1. Spec => []TypeInv
    BY TypeInit, TypeStep, PTL DEF Spec
  <1>2. TypeInv /\ BoundInv => RetryBound
    <2> SUFFICES ASSUME BoundInv, NEW s \in Subs
                 PROVE  Cardinality(RetryRows(s)) < MaxRetries + Cardinality(Actors)
      BY DEF RetryBound
    <2>1. /\ Cardinality(RetryRows(s)) \in Nat /\ Cardinality(InFlight(s)) \in Nat
          /\ Cardinality(Actors) \in Nat /\ MaxRetries \in Nat
          /\ Cardinality(RetryRows(s)) + Cardinality(InFlight(s))
               < MaxRetries + Cardinality(Actors)
      BY RetryRowsFinite, InFlightFinite, Constants DEF BoundInv
    <2> QED
      BY <2>1
  <1> QED
    BY <1>1, <1>2, BoundInit, BoundStep, PTL DEF Spec
-----------------------------------------------------------------------------
(***************************************************************************)
(* No retry row makes its Razorpay call twice, whatever workers claim at   *)
(* once and whichever sessions are lost.                                   *)
(***************************************************************************)

(* A row that a claim may still select, or an insertion still create.      *)
Open(id) == actions[id].status \in {"absent", "scheduled"}

(* The rows whose call worker w has still to make.                         *)
Pending(w) == job[w].queue \cup (IF job[w].pc = "fetch" THEN {job[w].act} ELSE {})

(* A call closes its row for ever; what a worker has still to call has not *)
(* been called, is closed once its claim is committed, and is no one       *)
(* else's.                                                                 *)
CalledClosed == \A id \in ActionIds : fetches[id] <= 1 /\ (fetches[id] > 0 => ~Open(id))

PendingFresh == \A w \in Workers : \A id \in Pending(w) :
    fetches[id] = 0 /\ (job[w].pc # "claim" => ~Open(id))

PendingApart == \A v, w \in Workers : v # w => Pending(v) \cap Pending(w) = {}

CalledOnce == \A w \in Workers : job[w].pc = "fetch" => job[w].act \notin job[w].queue

ClaimInv == CalledClosed /\ PendingFresh /\ PendingApart /\ CalledOnce

-----------------------------------------------------------------------------
(* Closed rows stay closed.                                                *)

StaysClosed == \A id \in ActionIds : ~Open(id) => ~Open(id)'

LEMMA SettleCloses ==
    ASSUME TypeInv, NEW a \in Actors, job[a].act \in ActionIds,
           NEW status \in ActionStatus, status # "scheduled", NEW exec \in Time,
           NEW entries, entries \subseteq AuditAction, NEW response \in {None, "answer"}
    PROVE  \A id \in ActionIds :
              Settle(a, status, exec, entries, response)[id].status
                \in {actions[id].status, status}
  <1>1. RowsTyped /\ RowsExist
    BY TypeParts
  <1>2. /\ Settle(a, status, exec, entries, response)[job[a].act].status = status
        /\ \A id \in ActionIds \ {job[a].act} :
              Settle(a, status, exec, entries, response)[id] = actions[id]
    BY <1>1, SettleRow
  <1> QED
    BY <1>2

LEMMA SettlesStayClosed ==
    ASSUME TypeInv, NEW a \in Actors, job[a].act \in ActionIds,
           NEW status \in ActionStatus, status # "scheduled", NEW exec \in Time,
           NEW entries, entries \subseteq AuditAction, NEW response \in {None, "answer"},
           actions' = Settle(a, status, exec, entries, response)
    PROVE  StaysClosed
  <1>1. \A id \in ActionIds : actions'[id].status \in {actions[id].status, status}
    BY SettleCloses
  <1>2. status \notin {"absent", "scheduled"}
    BY DEF ActionStatus
  <1> QED
    BY <1>1, <1>2 DEF StaysClosed, Open

LEMMA InsertStaysClosed ==
    ASSUME TypeInv, NEW a \in Actors, job[a].pc = "decide", NEW id \in ActionIds,
           NEW row, Insert(a, id, row)
    PROVE  StaysClosed
  <1>1. RowsTyped /\ JobsTyped /\ RowsExist
    BY TypeParts
  <1>2. /\ a \in Workers => job[a].act \in ActionIds
        /\ job[a].now \in Time
    BY <1>1 DEF JobsTyped, Job, Time
  <1>3. \A y \in ActionIds : Settled(a)[y].status \in {actions[y].status, "failed"}
    <2>1. CASE a \in Workers
      <3>1. Settled(a) = Settle(a, "failed", job[a].now, {"recovery.retry.failed"}, "answer")
        BY <2>1 DEF Settled
      <3>2. "failed" \in ActionStatus /\ {"recovery.retry.failed"} \subseteq AuditAction
        BY DEF ActionStatus, AuditAction
      <3> QED
        BY <1>2, <2>1, <3>1, <3>2, SettleCloses
    <2>2. CASE a \notin Workers
      BY <2>2 DEF Settled
    <2> QED
      BY <2>1, <2>2
  <1>4. actions[id].status = "absent" /\ actions' = [Settled(a) EXCEPT ![id] = row]
    BY DEF Insert, Fresh
  <1>5. \A y \in ActionIds \ {id} : actions'[y] = Settled(a)[y]
    <2>1. DOMAIN Settled(a) = ActionIds
      BY <1>1 DEF Settled, Settle, RowsTyped
    <2> QED
      BY <1>4, <2>1
  <1> QED
    BY <1>3, <1>4, <1>5 DEF StaysClosed, Open

-----------------------------------------------------------------------------
(* The steps.                                                              *)

(* Other sessions are untouched and the stepping one takes on no call.     *)
TakesNoCall(a) ==
    /\ \A b \in Actors \ {a} : job'[b] = job[b]
    /\ job'[a].queue \subseteq job[a].queue
    /\ job'[a].pc # "fetch"
    /\ job'[a].queue = {} \/ job[a].pc # "claim"

LEMMA PendingRows ==
    ASSUME TypeInv
    PROVE  \A w \in Workers : Pending(w) \subseteq ActionIds
  BY TypeParts DEF JobsTyped, Job, Pending, Actors

LEMMA QuietClaims ==
    ASSUME TypeInv, ClaimInv, NEW a \in Actors, TakesNoCall(a), StaysClosed, fetches' = fetches
    PROVE  ClaimInv'
  <1>1. \A w \in Workers : w \in Actors
    BY DEF Actors
  <1>2. \A w \in Workers :
           /\ Pending(w)' \subseteq Pending(w)
           /\ Pending(w)' = {} \/ job'[w].pc = job[w].pc \/ job[w].pc # "claim"
    BY <1>1 DEF Pending, TakesNoCall
  <1>3. CalledClosed'
    BY DEF ClaimInv, CalledClosed, StaysClosed
  <1>4. PendingFresh'
    <2> SUFFICES ASSUME NEW w \in Workers, NEW id \in Pending(w)'
                 PROVE  fetches[id]' = 0 /\ (job'[w].pc # "claim" => ~Open(id)')
      BY DEF PendingFresh
    <2>1. id \in Pending(w) /\ id \in ActionIds
      BY <1>2, PendingRows
    <2>2. fetches[id] = 0 /\ (job[w].pc # "claim" => ~Open(id))
      BY <2>1 DEF ClaimInv, PendingFresh
    <2> QED
      BY <1>2, <2>1, <2>2 DEF StaysClosed
  <1>5. PendingApart'
    BY <1>2 DEF ClaimInv, PendingApart
  <1>6. CalledOnce'
    BY <1>1 DEF ClaimInv, CalledOnce, TakesNoCall
  <1> QED
    BY <1>3, <1>4, <1>5, <1>6 DEF ClaimInv

LEMMA FinishTakesNoCall ==
    ASSUME TypeInv, NEW a \in Actors, Finish(a), job[a].pc # "claim"
    PROVE  TakesNoCall(a)
  BY TypeParts, FinishJob DEF JobsTyped, TakesNoCall

LEMMA SetTakesNoCall ==
    ASSUME TypeInv, NEW a \in Actors, NEW j, Set(a, j), j.queue \subseteq job[a].queue,
           j.pc # "fetch", j.queue = {} \/ job[a].pc # "claim"
    PROVE  TakesNoCall(a)
  BY TypeParts DEF JobsTyped, TakesNoCall, Set

LEMMA LadderClaims ==
    ASSUME TypeInv, ClaimInv, NEW a \in Actors, LadderStep(a), fetches' = fetches
    PROVE  ClaimInv'
  <1>1. /\ JobsTyped /\ job[a] \in Job /\ None \in Time /\ job[a].now \in Time
        /\ job[a].pc \in {"link", "linked", "linkerror"} => job[a].act \in ActionIds
    BY TypeParts DEF JobsTyped, Job, Time
  <1>2. /\ {"planned", "executed", "failed"} \subseteq ActionStatus
        /\ {} \subseteq AuditAction
        /\ {"razorpay.payment_link.created"} \subseteq AuditAction
        /\ {"razorpay.payment_link.failed"} \subseteq AuditAction
    BY DEF ActionStatus, AuditAction
  <1>3. CASE ReadHistory(a) \/ LinkCreated(a) \/ LinkError(a)
    <2>1. CASE ReadHistory(a)
      <3>1. PICK n, last :
              Set(a, [job[a] EXCEPT !.pc = "decide", !.n = n, !.last = last])
        BY <2>1 DEF ReadHistory
      <3>2. TakesNoCall(a)
        <4>1. job[a].pc # "claim"
          BY <2>1 DEF ReadHistory
        <4> QED
          BY <1>1, <3>1, <4>1 DEF JobsTyped, Job, Set, TakesNoCall
      <3> QED
        BY <2>1, <3>2, QuietClaims DEF ReadHistory, tables, StaysClosed, Open
    <2>2. CASE LinkCreated(a) \/ LinkError(a)
      <3>1. PICK pc \in {"linked", "linkerror"} : Set(a, [job[a] EXCEPT !.pc = pc])
        BY <2>2 DEF LinkCreated, LinkError
      <3>2. TakesNoCall(a)
        <4>1. job[a].pc # "claim"
          BY <2>2 DEF LinkCreated, LinkError
        <4> QED
          BY <1>1, <3>1, <4>1 DEF JobsTyped, Job, Set, TakesNoCall
      <3> QED
        BY <2>2, <3>2, QuietClaims DEF LinkCreated, LinkError, tables, StaysClosed, Open
    <2> QED
      BY <1>3, <2>1, <2>2
  <1>4. CASE Skip(a) \/ ScheduleRetry(a) \/ Conclude(a) \/ LinkWithoutAmount(a)
    <2>1. PICK id, row : id \in ActionIds /\ Insert(a, id, row)
      BY <1>4 DEF Skip, ScheduleRetry, Conclude, LinkWithoutAmount
    <2>2. job[a].pc = "decide" /\ Finish(a)
      BY <1>4 DEF Skip, ScheduleRetry, Conclude, LinkWithoutAmount, Proposes, EndDecision
    <2>3. StaysClosed
      BY <2>1, <2>2, InsertStaysClosed
    <2> QED
      BY <2>2, <2>3, FinishTakesNoCall, QuietClaims
  <1>5. CASE RequestLink(a)
    <2>1. PICK id, row :
            id \in ActionIds /\ Insert(a, id, row)
            /\ Set(a, [job[a] EXCEPT !.pc = "link", !.act = id, !.dirty = FALSE])
      BY <1>5 DEF RequestLink
    <2>2. job[a].pc = "decide"
      BY <1>5 DEF RequestLink, Proposes
    <2>3. StaysClosed
      BY <2>1, <2>2, InsertStaysClosed
    <2>4. TakesNoCall(a)
      BY <1>1, <2>1, <2>2 DEF JobsTyped, Job, Set, TakesNoCall
    <2> QED
      BY <2>3, <2>4, QuietClaims
  <1>6. CASE DeferLink(a) \/ RecordLink(a) \/ RecordLinkError(a)
    <2>1. job[a].act \in ActionIds /\ job[a].pc # "claim" /\ Finish(a)
      BY <1>1, <1>6 DEF DeferLink, RecordLink, RecordLinkError, EndLink
    <2>2. CASE DeferLink(a)
      <3>1. StaysClosed
        BY <1>1, <1>2, <2>1, <2>2, SettlesStayClosed DEF DeferLink, EndLink
      <3> QED
        BY <2>1, <3>1, FinishTakesNoCall, QuietClaims
    <2>3. CASE RecordLink(a)
      <3>1. StaysClosed
        BY <1>1, <1>2, <2>1, <2>3, SettlesStayClosed DEF RecordLink, EndLink
      <3> QED
        BY <2>1, <3>1, FinishTakesNoCall, QuietClaims
    <2>4. CASE RecordLinkError(a)
      <3>1. StaysClosed
        BY <1>1, <1>2, <2>1, <2>4, SettlesStayClosed DEF RecordLinkError, EndLink
      <3> QED
        BY <2>1, <3>1, FinishTakesNoCall, QuietClaims
    <2> QED
      BY <1>6, <2>2, <2>3, <2>4
  <1> QED
    BY <1>3, <1>4, <1>5, <1>6 DEF LadderStep

LEMMA SelectClaims ==
    ASSUME TypeInv, ClaimInv, NEW w \in Workers, ClaimSelect(w)
    PROVE  ClaimInv'
  <1>1. /\ JobsTyped /\ w \in Actors /\ Workers \subseteq Actors
        /\ actions' = actions /\ fetches' = fetches
    BY TypeParts DEF Actors, ClaimSelect, tables
  <1>2. PICK B \in SUBSET (Due \ LockedRows) :
          Set(w, [IdleJob EXCEPT !.pc = "claim", !.now = clock, !.queue = B])
    BY DEF ClaimSelect
  <1>3. /\ job'[w].pc = "claim" /\ job'[w].queue = B
        /\ \A v \in Actors \ {w} : job'[v] = job[v]
    BY <1>1, <1>2 DEF JobsTyped, IdleJob, Set
  <1>4. /\ Pending(w)' = B
        /\ \A v \in Workers \ {w} : Pending(v)' = Pending(v)
    BY <1>1, <1>3 DEF Pending
  <1>5. \A id \in B : id \in ActionIds /\ Open(id) /\ fetches[id] = 0
    <2>1. \A id \in B : id \in ActionIds /\ Open(id)
      BY DEF Due, Open
    <2>2. \A id \in B : fetches[id] \in Nat
      BY <2>1, TypeParts DEF RestTyped
    <2> QED
      BY <2>1, <2>2 DEF ClaimInv, CalledClosed
  <1>6. \A v \in Workers \ {w} : B \cap Pending(v) = {}
    <2> SUFFICES ASSUME NEW v \in Workers \ {w}, NEW id \in B, id \in Pending(v)
                 PROVE  FALSE
      OBVIOUS
    <2>1. job[v].pc = "claim"
      BY <1>5 DEF ClaimInv, PendingFresh
    <2>2. id \in LockedRows
      BY <2>1 DEF Pending, LockedRows, Claimants
    <2> QED
      BY <2>2
  <1>7. CalledClosed'
    BY <1>1 DEF ClaimInv, CalledClosed, Open
  <1>8. PendingFresh'
    BY <1>1, <1>3, <1>4, <1>5 DEF ClaimInv, PendingFresh, Open
  <1>9. PendingApart'
    BY <1>4, <1>6 DEF ClaimInv, PendingApart
  <1>10. CalledOnce'
    BY <1>1, <1>3 DEF ClaimInv, CalledOnce
  <1> QED
    BY <1>7, <1>8, <1>9, <1>10 DEF ClaimInv

LEMMA CommitClaims ==
    ASSUME TypeInv, ClaimInv, NEW w \in Workers, ClaimCommit(w)
    PROVE  ClaimInv'
  <1>1. /\ JobsTyped /\ job[w] \in Job /\ Workers \subseteq Actors
        /\ RowsTyped /\ fetches' = fetches /\ job[w].pc = "claim"
    BY TypeParts DEF Actors, JobsTyped, ClaimCommit
  <1>2. /\ job'[w].pc = "next" /\ job'[w].queue = job[w].queue
        /\ \A v \in Actors \ {w} : job'[v] = job[v]
    BY <1>1 DEF ClaimCommit, Set, JobsTyped, Job
  <1>3. \A v \in Workers : Pending(v)' = Pending(v)
    BY <1>1, <1>2 DEF Pending
  <1>4. \A id \in ActionIds :
           IF id \in job[w].queue THEN actions'[id].status = "executing"
           ELSE actions'[id] = actions[id]
    BY <1>1 DEF ClaimCommit, RowsTyped, ActionRow
  <1>5. StaysClosed /\ \A id \in job[w].queue : ~Open(id)'
    <2>1. job[w].queue \subseteq ActionIds
      BY <1>1 DEF Job
    <2> QED
      BY <1>4, <2>1 DEF StaysClosed, Open
  <1>6. CalledClosed'
    BY <1>1, <1>5 DEF ClaimInv, CalledClosed, StaysClosed
  <1>7. PendingFresh'
    <2> SUFFICES ASSUME NEW v \in Workers, NEW id \in Pending(v)'
                 PROVE  fetches[id]' = 0 /\ (job'[v].pc # "claim" => ~Open(id)')
      BY DEF PendingFresh
    <2>1. id \in Pending(v) /\ id \in ActionIds
      BY <1>3, PendingRows
    <2>2. fetches[id] = 0 /\ (job[v].pc # "claim" => ~Open(id))
      BY <2>1 DEF ClaimInv, PendingFresh
    <2>3. CASE v = w
      BY <1>1, <1>5, <2>1, <2>2, <2>3 DEF Pending
    <2>4. CASE v # w
      BY <1>1, <1>2, <1>5, <2>1, <2>2, <2>4 DEF StaysClosed
    <2> QED
      BY <2>3, <2>4
  <1>8. PendingApart'
    BY <1>3 DEF ClaimInv, PendingApart
  <1>9. CalledOnce'
    BY <1>1, <1>2 DEF ClaimInv, CalledOnce
  <1> QED
    BY <1>6, <1>7, <1>8, <1>9 DEF ClaimInv

LEMMA StartClaims ==
    ASSUME TypeInv, ClaimInv, NEW w \in Workers, StartRetry(w)
    PROVE  ClaimInv'
  <1>1. /\ JobsTyped /\ job[w] \in Job /\ Workers \subseteq Actors /\ w \in Actors
        /\ RowsTyped /\ fetches' = fetches /\ job[w].pc = "next"
    BY TypeParts DEF Actors, JobsTyped, StartRetry
  <1>2. PICK id, ev, sub, cat, status :
          /\ id \in job[w].queue
          /\ actions' = [actions EXCEPT ![id].aud = @ \cup {"recovery.retry.attempted"}]
          /\ Set(w, [IdleJob EXCEPT !.pc = "fetch", !.act = id, !.ev = ev, !.sub = sub,
                                    !.cat = cat, !.status = status, !.now = job[w].now,
                                    !.queue = job[w].queue \ {id}])
    BY DEF StartRetry
  <1>3. /\ job'[w].pc = "fetch" /\ job'[w].act = id
        /\ job'[w].queue = job[w].queue \ {id}
        /\ \A v \in Actors \ {w} : job'[v] = job[v]
    BY <1>1, <1>2 DEF IdleJob, Set, JobsTyped
  <1>4. \A v \in Workers : Pending(v)' = Pending(v)
    BY <1>1, <1>2, <1>3 DEF Pending
  <1>5. \A y \in ActionIds : actions'[y].status = actions[y].status
    BY <1>1, <1>2 DEF RowsTyped, ActionRow
  <1>6. CalledClosed'
    BY <1>1, <1>5 DEF ClaimInv, CalledClosed, Open
  <1>7. PendingFresh'
    <2> SUFFICES ASSUME NEW v \in Workers, NEW y \in Pending(v)'
                 PROVE  fetches[y]' = 0 /\ (job'[v].pc # "claim" => ~Open(y)')
      BY DEF PendingFresh
    <2>1. y \in Pending(v) /\ y \in ActionIds
      BY <1>4, PendingRows
    <2>2. fetches[y] = 0 /\ (job[v].pc # "claim" => ~Open(y))
      BY <2>1 DEF ClaimInv, PendingFresh
    <2>3. job'[v].pc # "claim" => job[v].pc # "claim"
      BY <1>1, <1>3
    <2> QED
      BY <1>1, <1>5, <2>1, <2>2, <2>3 DEF Open
  <1>8. PendingApart'
    BY <1>4 DEF ClaimInv, PendingApart
  <1>9. CalledOnce'
    BY <1>1, <1>3 DEF ClaimInv, CalledOnce
  <1> QED
    BY <1>6, <1>7, <1>8, <1>9 DEF ClaimInv

(* The call itself: the row at hand is called, and leaves what is pending. *)
LEMMA CallClaims ==
    ASSUME TypeInv, ClaimInv, NEW w \in Workers, Call(w), TakesNoCall(w), StaysClosed
    PROVE  ClaimInv'
  <1>1. /\ JobsTyped /\ RestTyped /\ Workers \subseteq Actors /\ w \in Actors
        /\ job[w].pc = "fetch" /\ job[w].act \in ActionIds
    BY TypeParts DEF Actors, JobsTyped, Call
  <1> DEFINE id == job[w].act
  <1>2. id \in Pending(w) /\ id \notin job[w].queue
    BY <1>1 DEF Pending, ClaimInv, CalledOnce
  <1>3. fetches[id] = 0 /\ ~Open(id)
    BY <1>1, <1>2 DEF ClaimInv, PendingFresh
  <1>4. /\ fetches'[id] = 1
        /\ \A y \in ActionIds \ {id} : fetches'[y] = fetches[y]
    BY <1>1, <1>3 DEF Call, RestTyped
  <1>5. /\ Pending(w)' \subseteq Pending(w) \ {id}
        /\ \A v \in Workers \ {w} : Pending(v)' = Pending(v)
    BY <1>1, <1>2 DEF Pending, TakesNoCall
  <1>6. CalledClosed'
    BY <1>1, <1>3, <1>4 DEF ClaimInv, CalledClosed, StaysClosed
  <1>7. PendingFresh'
    <2> SUFFICES ASSUME NEW v \in Workers, NEW y \in Pending(v)'
                 PROVE  fetches[y]' = 0 /\ (job'[v].pc # "claim" => ~Open(y)')
      BY DEF PendingFresh
    <2>1. y \in Pending(v) /\ y \in ActionIds
      BY <1>5, PendingRows
    <2>2. fetches[y] = 0 /\ (job[v].pc # "claim" => ~Open(y))
      BY <2>1 DEF ClaimInv, PendingFresh
    <2>3. y # id
      <3>1. CASE v = w
        BY <1>5, <3>1
      <3>2. CASE v # w
        BY <1>2, <2>1, <3>2 DEF ClaimInv, PendingApart
      <3> QED
        BY <3>1, <3>2
    <2>4. job'[v].pc # "claim" => job[v].pc # "claim"
      BY <1>1 DEF TakesNoCall
    <2> QED
      BY <1>4, <2>1, <2>2, <2>3, <2>4 DEF StaysClosed
  <1>8. PendingApart'
    BY <1>5 DEF ClaimInv, PendingApart
  <1>9. CalledOnce'
    BY <1>1 DEF ClaimInv, CalledOnce, TakesNoCall
  <1> QED
    BY <1>6, <1>7, <1>8, <1>9 DEF ClaimInv

LEMMA WorkerClaims ==
    ASSUME TypeInv, ClaimInv, NEW w \in Workers, WorkerStep(w)
    PROVE  ClaimInv'
  <1>1. /\ JobsTyped /\ w \in Actors /\ job[w] \in Job
        /\ None \in Time /\ job[w].now \in Time
        /\ job[w].pc \in {"fetch", "fetched"} => job[w].act \in ActionIds
    BY TypeParts DEF Actors, JobsTyped, Job, Time
  <1>2. /\ {"planned", "executed", "failed"} \subseteq ActionStatus
        /\ {} \subseteq AuditAction
        /\ {"recovery.retry.failed"} \subseteq AuditAction
        /\ {"recovery.retry.recovered"} \subseteq AuditAction
    BY DEF ActionStatus, AuditAction
  <1>3. CASE DeferRetry(w)
    <2>1. job[w].pc = "fetch" /\ Finish(w)
      BY <1>3 DEF DeferRetry, EndRetry
    <2>2. StaysClosed
      BY <1>1, <1>2, <1>3, <2>1, SettlesStayClosed DEF DeferRetry, EndRetry
    <2> QED
      BY <1>1, <1>3, <2>1, <2>2, FinishTakesNoCall, QuietClaims DEF DeferRetry
  <1>4. CASE Fetch(w)
    <2>1. job[w].pc # "claim"
      BY <1>4 DEF Fetch, Call
    <2>2. TakesNoCall(w)
      BY <1>1, <1>4, <2>1 DEF Fetch, JobsTyped, Job, Set, TakesNoCall
    <2>3. StaysClosed /\ Call(w)
      BY <1>4 DEF Fetch, tables, StaysClosed, Open
    <2> QED
      BY <2>2, <2>3, CallClaims
  <1>5. CASE FetchError(w)
    <2>1. job[w].pc = "fetch" /\ Finish(w) /\ Call(w)
      BY <1>5 DEF FetchError, EndRetry, Call
    <2>2. StaysClosed
      BY <1>1, <1>2, <1>5, <2>1, SettlesStayClosed DEF FetchError, EndRetry
    <2> QED
      BY <1>1, <2>1, <2>2, FinishTakesNoCall, CallClaims
  <1>6. CASE Recover(w)
    <2>1. job[w].pc = "fetched" /\ Finish(w)
      BY <1>6 DEF Recover, MayFlush, EndRetry
    <2>2. StaysClosed
      BY <1>1, <1>2, <1>6, <2>1, SettlesStayClosed DEF Recover, EndRetry
    <2> QED
      BY <1>1, <1>6, <2>1, <2>2, FinishTakesNoCall, QuietClaims DEF Recover
  <1>7. CASE Relapse(w)
    <2>1. TakesNoCall(w)
      BY <1>1, <1>7 DEF Relapse, MayFlush, JobsTyped, Job, Set, TakesNoCall
    <2> QED
      BY <1>1, <1>7, <2>1, QuietClaims DEF Relapse, tables, StaysClosed, Open
  <1> QED
    BY <1>1, <1>3, <1>4, <1>5, <1>6, <1>7, SelectClaims, CommitClaims, StartClaims,
       LadderClaims DEF WorkerStep

LEMMA RunnerClaims ==
    ASSUME TypeInv, ClaimInv, NEW r \in Runners, RunnerNext(r)
    PROVE  ClaimInv'
  <1>1. r \in Actors /\ JobsTyped /\ fetches' = fetches
    BY TypeParts DEF Actors, RunnerNext
  <1>2. CASE Begins(r)
    <2>1. TakesNoCall(r)
      BY <1>1, <1>2 DEF Begins, TakesNoCall
    <2> QED
      BY <1>1, <1>2, <2>1, QuietClaims DEF Begins, StaysClosed, Open
  <1> QED
    BY <1>1, <1>2, LadderClaims, RunnerSteps, TypeParts DEF RunnerNext

LEMMA ClaimStep ==
    ASSUME TypeInv, ClaimInv, [Next]_vars
    PROVE  ClaimInv'
  <1>1. CASE \E w \in Workers : WorkerNext(w)
    BY <1>1, WorkerClaims DEF WorkerNext
  <1>2. ASSUME NEW a \in Actors, Abort(a)
        PROVE  ClaimInv'
    <2>1. TakesNoCall(a)
      BY <1>2, TypeParts DEF Abort, IdleJob, JobsTyped, Set, TakesNoCall
    <2> QED
      BY <1>2, <2>1, QuietClaims DEF Abort, tables, StaysClosed, Open
  <1>3. CASE \/ \E e \in Events : Ingest(e)
             \/ Tick \/ (\E s \in Subs : LiveChange(s)) \/ WireClient \/ UNCHANGED vars
    <2>1. actions' = actions /\ job' = job /\ fetches' = fetches
      BY <1>3 DEF Ingest, Tick, LiveChange, WireClient, tables, vars
    <2> QED
      BY <2>1 DEF ClaimInv, CalledClosed, PendingFresh, PendingApart, CalledOnce,
         Pending, Open
  <1> QED
    BY <1>1, <1>2, <1>3, RunnerClaims DEF Next

LEMMA ClaimInit ==
    ASSUME Init
    PROVE  ClaimInv
  <1>1. Workers \subseteq Actors
    BY DEF Actors
  <1>2. \A w \in Workers : Pending(w) = {} /\ job[w].pc = "idle"
    BY <1>1 DEF Init, IdleJob, Pending
  <1>3. \A id \in ActionIds : fetches[id] = 0
    BY DEF Init
  <1> QED
    BY <1>2, <1>3 DEF ClaimInv, CalledClosed, PendingFresh, PendingApart, CalledOnce

(* "A scheduled retry is executed by exactly one worker, never twice": for *)
(* any number of workers, batches, rows and lost sessions.                 *)
THEOREM CalledAtMostOnce == Spec => []NeverTwice
  <1>1. Spec => []TypeInv
    BY TypeInit, TypeStep, PTL DEF Spec
  <1>2. ClaimInv => NeverTwice
    BY DEF ClaimInv, CalledClosed, NeverTwice
  <1> QED
    BY <1>1, <1>2, ClaimInit, ClaimStep, PTL DEF Spec
=============================================================================
