--------------------------- MODULE DashboardProofs --------------------------
(***************************************************************************)
(* What the dashboard's answers are worth although every statement of a    *)
(* request sees another state of the loop. Rows of subscriptions and of    *)
(* outcomes are never taken away and an outcome is explained by its row    *)
(* for ever; so a later count covers an earlier page, and an earlier count *)
(* is covered by the present.                                              *)
(***************************************************************************)
EXTENDS DashboardReads, HistoryProofs

(* A refresh that is flushed brings a status.                              *)
MirrorKnown == \A a \in Actors : job[a].dirty => job[a].status # "absent"

(* A row that is not a denial has passed the guardrail.                    *)
RowsAllowed == \A id \in ActionIds :
    actions[id].status \notin {"absent", "skipped"} => "guardrail.allow" \in actions[id].aud

(* An outcome is of a row that was executed, and whose trail says why.     *)
Explained(o) ==
    /\ o.kind \in DOMAIN VerdictEntry
    /\ actions[o.act].status = "executed"
    /\ {"guardrail.allow", VerdictEntry[o.kind]} \subseteq actions[o.act].aud

OutcomesExplained == \A i \in 1 .. Len(outcomes) : Explained(outcomes[i])

LoopInv ==
    TypeInv /\ Ownership /\ Handling /\ MirrorKnown /\ RowsAllowed /\ OutcomesExplained

-----------------------------------------------------------------------------
(* What a step of session a does to the mirror, and to outcomes and rows.  *)

MirrorMove(a) ==
    /\ \A b \in Actors \ {a} : job'[b] = job[b]
    /\ subs' = subs \/ CommitMirror(a)
    /\ \/ ~job'[a].dirty \/ job'[a].status # "absent"
       \/ job'[a].dirty = job[a].dirty /\ job'[a].status = job[a].status

VerdictMove ==
    \/ outcomes' = outcomes
    \/ \E o \in OutcomeRow : outcomes' = Append(outcomes, o) /\ Explained(o)'

(* Rows are born as denials, or allowed.                                   *)
BirthMove == \A id \in ActionIds :
    actions[id].status = "absent" /\ actions'[id].status \notin {"absent", "skipped"}
        => "guardrail.allow" \in actions'[id].aud

LoopMove(a) == MirrorMove(a) /\ VerdictMove /\ BirthMove

SubsGrow == \A s \in Subs : subs[s] # "absent" => subs'[s] # "absent"

LEMMA MirrorKept ==
    ASSUME TypeInv, MirrorKnown, NEW a \in Actors, MirrorMove(a)
    PROVE  MirrorKnown' /\ SubsGrow
  <1>1. subs \in [Subs -> MirrorStatus]
    BY TypeParts DEF RestTyped
  <1>2. MirrorKnown'
    BY DEF MirrorMove, MirrorKnown
  <1>3. SubsGrow
    BY <1>1 DEF MirrorMove, CommitMirror, MirrorKnown, SubsGrow
  <1> QED
    BY <1>2, <1>3

LEMMA VerdictsKept ==
    ASSUME TypeInv, RowsAllowed, OutcomesExplained, FinalRows, VerdictMove, BirthMove
    PROVE  RowsAllowed' /\ OutcomesExplained'
  <1>1. /\ outcomes \in Seq(OutcomeRow)
        /\ \A i \in 1 .. Len(outcomes) : outcomes[i].act \in ActionIds
    <2>1. outcomes \in Seq(OutcomeRow)
      BY TypeParts DEF RestTyped
    <2>2. \A i \in 1 .. Len(outcomes) : outcomes[i] \in OutcomeRow
      BY <2>1
    <2> QED
      BY <2>1, <2>2 DEF OutcomeRow
  <1>2. RowsAllowed'
    BY DEF RowsAllowed, BirthMove, FinalRows, Settlements
  <1>3. \A i \in 1 .. Len(outcomes) : Explained(outcomes[i])
    BY DEF OutcomesExplained
  <1>4. \A i \in 1 .. Len(outcomes) : actions'[outcomes[i].act] = actions[outcomes[i].act]
    BY <1>1, <1>3 DEF Explained, FinalRows, Settlements
  <1>5. ASSUME NEW i \in 1 .. Len(outcomes)
        PROVE  /\ outcomes[i].kind \in DOMAIN VerdictEntry
               /\ actions'[outcomes[i].act].status = "executed"
               /\ {"guardrail.allow", VerdictEntry[outcomes[i].kind]}
                      \subseteq actions'[outcomes[i].act].aud
    BY <1>3, <1>4 DEF Explained
  <1>6. OutcomesExplained'
    <2>1. CASE outcomes' = outcomes
      BY <1>5, <2>1 DEF OutcomesExplained, Explained
    <2>2. ASSUME NEW o \in OutcomeRow, outcomes' = Append(outcomes, o), Explained(o)'
          PROVE  OutcomesExplained'
      <3>1. /\ Len(outcomes') = Len(outcomes) + 1 /\ Len(outcomes) \in Nat
            /\ \A i \in 1 .. Len(outcomes) : outcomes'[i] = outcomes[i]
            /\ outcomes'[Len(outcomes) + 1] = o
        BY <1>1, <2>2
      <3> SUFFICES ASSUME NEW i \in 1 .. Len(outcomes') PROVE Explained(outcomes[i])'
        BY DEF OutcomesExplained
      <3>2. CASE i \in 1 .. Len(outcomes)
        BY <1>5, <3>1, <3>2 DEF Explained
      <3>3. CASE i = Len(outcomes) + 1
        BY <2>2, <3>1, <3>3 DEF Explained
      <3> QED
        BY <3>1, <3>2, <3>3
    <2> QED
      BY <2>1, <2>2 DEF VerdictMove
  <1> QED
    BY <1>2, <1>6

(* Sessions that stop have nothing to flush.                               *)
LEMMA FinishFlushesNone ==
    ASSUME TypeInv, NEW a \in Actors, Finish(a)
    PROVE  ~job'[a].dirty /\ \A b \in Actors \ {a} : job'[b] = job[b]
  BY TypeParts DEF JobsTyped, Finish, Set, IdleJob

(* A result written on a session's row gives birth to no row.              *)
LEMMA SettleBearsNone ==
    ASSUME TypeInv, NEW a \in Actors, job[a].act \in ActionIds,
           NEW status \in ActionStatus, NEW exec \in Time,
           NEW entries, entries \subseteq AuditAction, NEW response \in {None, "answer"},
           actions' = Settle(a, status, exec, entries, response)
    PROVE  BirthMove
  <1>1. \A id \in ActionIds \ {job[a].act} : actions'[id] = actions[id]
    BY SettleRow, TypeParts
  <1>2. actions[job[a].act].status # "absent"
    BY TypeParts DEF RowsExist
  <1> QED
    BY <1>1, <1>2 DEF BirthMove

(* A decision inserts a denial, or a row that the guardrail has allowed.   *)
LEMMA InsertBears ==
    ASSUME TypeInv, NEW a \in Actors, job[a].pc = "decide", NEW id \in ActionIds,
           NEW status \in ActionStatus, NEW sched \in Time, NEW exec \in Time,
           NEW entries, entries \subseteq AuditAction,
           Insert(a, id, NewRow(a, status, sched, exec, entries)),
           status = "skipped" \/ Verdict(a) = "ok"
    PROVE  /\ BirthMove
           /\ actions'[id].status = status /\ entries \subseteq actions'[id].aud
           /\ status = "skipped" \/ "guardrail.allow" \in actions'[id].aud
  <1>1. /\ actions'[id] = NewRow(a, status, sched, exec, entries)
        /\ \A y \in ActionIds \ {id} :
              y # job[a].act \/ a \notin Workers => actions'[y] = actions[y]
    BY InsertRow
  <1>2. /\ actions'[id].status = status /\ entries \subseteq actions'[id].aud
        /\ status = "skipped" \/ "guardrail.allow" \in actions'[id].aud
    BY <1>1 DEF NewRow
  <1>3. \A y \in ActionIds \ {id} :
           actions[y].status = "absent" => actions'[y] = actions[y]
    BY <1>1, TypeParts DEF RowsExist
  <1> QED
    BY <1>2, <1>3 DEF BirthMove

(* The steps shared by the executor and the worker.                        *)
LEMMA LadderMoves ==
    ASSUME TypeInv, NEW a \in Actors, LadderStep(a)
    PROVE  LoopMove(a)
  <1>1. /\ JobsTyped /\ job[a] \in Job /\ None \in Time /\ job[a].now \in Time
        /\ job[a].n \in Nat /\ job[a].cat \in DiagnosisCategory
    BY TypeParts DEF JobsTyped, Job, Time
  <1>2. /\ {"planned", "executed", "failed", "skipped", "scheduled", "executing"}
              \subseteq ActionStatus
        /\ {} \subseteq AuditAction
        /\ {"razorpay.payment_link.created"} \subseteq AuditAction
        /\ {"razorpay.payment_link.failed"} \subseteq AuditAction
        /\ {"razorpay.payment_link.requested"} \subseteq AuditAction
        /\ {"recovery.retry.scheduled"} \subseteq AuditAction
        /\ \A type \in DOMAIN TerminalOutcome : {TerminalEntry[type]} \subseteq AuditAction
    BY DEF ActionStatus, AuditAction, TerminalOutcome, TerminalEntry
  <1>3. CASE ReadHistory(a)
    <2>1. PICK n, last : Set(a, [job[a] EXCEPT !.pc = "decide", !.n = n, !.last = last])
      BY <1>3 DEF ReadHistory
    <2>2. /\ job'[a].dirty = job[a].dirty /\ job'[a].status = job[a].status
          /\ \A b \in Actors \ {a} : job'[b] = job[b]
      BY <1>1, <2>1 DEF Set, JobsTyped, Job
    <2> QED
      BY <1>3, <2>2 DEF ReadHistory, tables, LoopMove, MirrorMove, VerdictMove, BirthMove
  <1>4. CASE LinkCreated(a) \/ LinkError(a)
    <2>1. PICK pc \in {"linked", "linkerror"} : Set(a, [job[a] EXCEPT !.pc = pc])
      BY <1>4 DEF LinkCreated, LinkError
    <2>2. /\ job'[a].dirty = job[a].dirty /\ job'[a].status = job[a].status
          /\ \A b \in Actors \ {a} : job'[b] = job[b]
      BY <1>1, <2>1 DEF Set, JobsTyped, Job
    <2> QED
      BY <1>4, <2>2
      DEF LinkCreated, LinkError, tables, LoopMove, MirrorMove, VerdictMove, BirthMove
  <1>5. ASSUME EndDecision(a), BirthMove, VerdictMove PROVE LoopMove(a)
    BY <1>5, FinishFlushesNone DEF EndDecision, LoopMove, MirrorMove
  <1>6. CASE Skip(a)
    <2>1. PICK id \in ActionIds : Insert(a, id, NewRow(a, "skipped", None, None, {}))
      BY <1>6 DEF Skip
    <2>2. BirthMove
      BY <1>1, <1>2, <1>6, <2>1, InsertBears DEF Skip
    <2> QED
      BY <1>5, <1>6, <2>2 DEF Skip, VerdictMove
  <1>7. CASE ScheduleRetry(a)
    <2>1. PICK id \in ActionIds :
            Insert(a, id, NewRow(a, "scheduled", job[a].now + Choice(a).delay, None,
                                 {"recovery.retry.scheduled"}))
      BY <1>7 DEF ScheduleRetry
    <2>2. job[a].now + Choice(a).delay \in Time
      BY <1>1, DecideType DEF Choice, Job, Time
    <2>3. BirthMove
      BY <1>1, <1>2, <1>7, <2>1, <2>2, InsertBears DEF ScheduleRetry, Proposes
    <2> QED
      BY <1>5, <1>7, <2>3 DEF ScheduleRetry, VerdictMove
  <1>8. CASE Conclude(a)
    <2>1. PICK type \in DOMAIN TerminalOutcome, id \in ActionIds :
            /\ Proposes(a, type) /\ EndDecision(a)
            /\ Insert(a, id, NewRow(a, "executed", None, job[a].now, {TerminalEntry[type]}))
            /\ outcomes' = Append(outcomes, [act |-> id, ev |-> job[a].ev,
                                             kind |-> TerminalOutcome[type]])
      BY <1>8 DEF Conclude
    <2>2. job[a].pc = "decide" /\ Verdict(a) = "ok"
      BY <2>1 DEF Proposes
    <2>3. /\ BirthMove /\ actions'[id].status = "executed"
          /\ {TerminalEntry[type]} \subseteq actions'[id].aud
          /\ "guardrail.allow" \in actions'[id].aud
      BY <1>1, <1>2, <2>1, <2>2, InsertBears
    <2>4. /\ TerminalOutcome[type] \in OutcomeStatus \cap DOMAIN VerdictEntry
          /\ VerdictEntry[TerminalOutcome[type]] = TerminalEntry[type]
      BY DEF TerminalOutcome, TerminalEntry, VerdictEntry, OutcomeStatus
    <2>5. [act |-> id, ev |-> job[a].ev, kind |-> TerminalOutcome[type]] \in OutcomeRow
      BY <1>1, <2>2, <2>4 DEF JobsTyped, OutcomeRow
    <2>6. PICK o \in OutcomeRow :
            outcomes' = Append(outcomes, o) /\ o.act = id /\ o.kind = TerminalOutcome[type]
      BY <2>1, <2>5
    <2>8. Explained(o)'
      BY <2>3, <2>4, <2>6 DEF Explained
    <2>9. VerdictMove
      BY <2>6, <2>8 DEF VerdictMove
    <2> QED
      BY <1>5, <2>1, <2>3, <2>9
  <1>9. CASE LinkWithoutAmount(a)
    <2>1. PICK id \in ActionIds :
            Insert(a, id, NewRow(a, "failed", None, None, {"razorpay.payment_link.failed"}))
      BY <1>9 DEF LinkWithoutAmount
    <2>2. BirthMove
      BY <1>1, <1>2, <1>9, <2>1, InsertBears DEF LinkWithoutAmount, Proposes
    <2> QED
      BY <1>5, <1>9, <2>2 DEF LinkWithoutAmount, VerdictMove
  <1>10. CASE RequestLink(a)
    <2>1. PICK id \in ActionIds :
            /\ Insert(a, id, NewRow(a, "executing", None, None,
                                    {"razorpay.payment_link.requested"}))
            /\ Set(a, [job[a] EXCEPT !.pc = "link", !.act = id, !.dirty = FALSE])
      BY <1>10 DEF RequestLink
    <2>2. BirthMove
      BY <1>1, <1>2, <1>10, <2>1, InsertBears DEF RequestLink, Proposes
    <2>3. ~job'[a].dirty /\ \A b \in Actors \ {a} : job'[b] = job[b]
      BY <1>1, <2>1 DEF Set, JobsTyped, Job
    <2> QED
      BY <1>10, <2>2, <2>3 DEF RequestLink, LoopMove, MirrorMove, VerdictMove
  <1>11. CASE DeferLink(a) \/ RecordLink(a) \/ RecordLinkError(a)
    <2>1. /\ job[a].pc \in {"link", "linked", "linkerror"} /\ Finish(a)
          /\ UNCHANGED <<subs, outcomes>>
      BY <1>11 DEF DeferLink, RecordLink, RecordLinkError, EndLink
    <2>2. PICK status \in ActionStatus, exec \in Time, entries \in SUBSET AuditAction,
               response \in {None, "answer"} :
            actions' = Settle(a, status, exec, entries, response)
      BY <1>1, <1>2, <1>11 DEF DeferLink, RecordLink, RecordLinkError, EndLink
    <2>3. BirthMove
      BY <1>1, <2>1, <2>2, SettleBearsNone DEF JobsTyped
    <2> QED
      BY <2>1, <2>3, FinishFlushesNone DEF LoopMove, MirrorMove, VerdictMove
  <1> QED
    BY <1>3, <1>4, <1>6, <1>7, <1>8, <1>9, <1>10, <1>11 DEF LadderStep

LEMMA RunnerMoves ==
    ASSUME TypeInv, NEW r \in Runners, RunnerStep(r)
    PROVE  LoopMove(r)
  <1>1. r \in Actors /\ JobsTyped /\ RestTyped
    BY TypeParts DEF Actors
  <1>2. ASSUME Begins(r), job'[r].dirty => job'[r].status # "absent" PROVE LoopMove(r)
    <2>1. job'[r] \in Job
      BY <1>1, <1>2 DEF Begins
    <2> QED
      BY <1>2, <2>1 DEF Begins, LoopMove, MirrorMove, VerdictMove, BirthMove, Job
  <1>3. CASE \E e \in Events : HandOver(r, e)
    BY <1>1, <1>2, <1>3, HandOverBegins
  <1>4. CASE SkipRun(r)
    BY <1>1, <1>2, <1>4, SkipRunBegins DEF IdleJob
  <1>5. CASE StartRun(r)
    <2> DEFINE body == events[job[r].ev].body
    <2>1. /\ Begins(r) /\ body.status \in MaybeStatus
          /\ job'[r].status = ResolvedStatus(body)
          /\ job'[r].dirty = (ResolvedStatus(body) # subs[body.sub])
      BY <1>1, <1>5, StartRunBegins
    <2>2. "absent" \notin MaybeStatus
      BY Constants DEF MaybeStatus, SubscriptionStatus
    <2>3. job'[r].dirty => job'[r].status # "absent"
      BY <2>1, <2>2 DEF ResolvedStatus
    <2> QED
      BY <1>2, <2>1, <2>3
  <1>6. CASE LadderStep(r)
    BY <1>1, <1>6, LadderMoves
  <1> QED
    BY <1>3, <1>4, <1>5, <1>6 DEF RunnerStep

(* A recovery is recorded on a retry that the guardrail had allowed.       *)
LEMMA RecoverMoves ==
    ASSUME TypeInv, Ownership, RowsAllowed, NEW w \in Workers, Recover(w)
    PROVE  BirthMove /\ VerdictMove
  <1>1. /\ w \in Actors /\ JobsTyped /\ RowsTyped /\ job[w] \in Job
        /\ job[w].pc = "fetched" /\ job[w].act \in ActionIds /\ job[w].ev \in Events
    BY TypeParts DEF Actors, JobsTyped, Recover, MayFlush
  <1>2. /\ job[w].now \in Time /\ "executed" \in ActionStatus
        /\ {"recovery.retry.recovered"} \subseteq AuditAction
        /\ "answer" \in {None, "answer"}
    BY <1>1 DEF ActionStatus, AuditAction, Job, Time
  <1>3. actions' = Settle(w, "executed", job[w].now, {"recovery.retry.recovered"}, "answer")
    BY DEF Recover, EndRetry
  <1>4. BirthMove
    BY <1>1, <1>2, <1>3, SettleBearsNone
  <1>5. actions[job[w].act].status = "executing"
    BY <1>1 DEF Ownership, OwnedExecuting, Owned, AtHand
  <1>6. "guardrail.allow" \in actions[job[w].act].aud
    BY <1>1, <1>5 DEF RowsAllowed
  <1>7. PICK id \in ActionIds : id = job[w].act
    BY <1>1
  <1>8. /\ actions'[id].status = "executed"
        /\ actions'[id].aud = actions[id].aud \cup {"recovery.retry.recovered"}
    BY <1>1, <1>2, <1>3, <1>7, SettleRow, TypeParts
  <1>9. [act |-> id, ev |-> job[w].ev, kind |-> "recovered"] \in OutcomeRow
    BY <1>1 DEF OutcomeRow, OutcomeStatus
  <1>10. PICK o \in OutcomeRow :
            outcomes' = Append(outcomes, o) /\ o.act = id /\ o.kind = "recovered"
    BY <1>7, <1>9 DEF Recover
  <1>11. Explained(o)'
    BY <1>6, <1>7, <1>8, <1>10 DEF Explained, VerdictEntry
  <1> QED
    BY <1>4, <1>10, <1>11 DEF VerdictMove

LEMMA WorkerMoves ==
    ASSUME TypeInv, Ownership, RowsAllowed, NEW w \in Workers, WorkerStep(w)
    PROVE  LoopMove(w)
  <1>1. /\ w \in Actors /\ JobsTyped /\ RowsTyped /\ RowsExist /\ job[w] \in Job
        /\ job[w].queue \subseteq ActionIds /\ None \in Time /\ job[w].now \in Time
    BY TypeParts DEF Actors, JobsTyped, Job, Time
  <1>2. CASE ClaimSelect(w)
    <2>1. PICK B : Set(w, [IdleJob EXCEPT !.pc = "claim", !.now = clock, !.queue = B])
      BY <1>2 DEF ClaimSelect
    <2>2. ~job'[w].dirty /\ \A b \in Actors \ {w} : job'[b] = job[b]
      BY <1>1, <2>1 DEF Set, IdleJob, JobsTyped
    <2> QED
      BY <1>2, <2>2 DEF ClaimSelect, tables, LoopMove, MirrorMove, VerdictMove, BirthMove
  <1>3. CASE ClaimCommit(w)
    <2>1. /\ job'[w].dirty = job[w].dirty /\ job'[w].status = job[w].status
          /\ \A b \in Actors \ {w} : job'[b] = job[b]
      BY <1>1, <1>3 DEF ClaimCommit, Set, JobsTyped, Job
    <2>2. \A id \in ActionIds : actions[id].status = "absent" => actions'[id] = actions[id]
      BY <1>1, <1>3 DEF ClaimCommit, RowsTyped, RowsExist
    <2>3. BirthMove
      BY <2>2 DEF BirthMove
    <2> QED
      BY <1>3, <2>1, <2>3 DEF ClaimCommit, LoopMove, MirrorMove, VerdictMove
  <1>4. CASE StartRetry(w)
    <2>1. PICK id, ev, sub, cat, status :
            /\ id \in job[w].queue
            /\ actions' = [actions EXCEPT ![id].aud = @ \cup {"recovery.retry.attempted"}]
            /\ Set(w, [IdleJob EXCEPT !.pc = "fetch", !.act = id, !.ev = ev, !.sub = sub,
                                      !.cat = cat, !.status = status, !.now = job[w].now,
                                      !.queue = job[w].queue \ {id}])
      BY <1>4 DEF StartRetry
    <2>2. ~job'[w].dirty /\ \A b \in Actors \ {w} : job'[b] = job[b]
      BY <1>1, <2>1 DEF IdleJob, Set, JobsTyped
    <2>3. BirthMove
      BY <1>1, <2>1 DEF BirthMove, RowsTyped, RowsExist
    <2> QED
      BY <1>4, <2>2, <2>3 DEF StartRetry, LoopMove, MirrorMove, VerdictMove
  <1>5. CASE DeferRetry(w) \/ FetchError(w)
    <2>1. /\ job[w].pc = "fetch" /\ Finish(w) /\ UNCHANGED <<subs, outcomes>>
      BY <1>5 DEF DeferRetry, FetchError, Call, EndRetry
    <2>2. PICK status \in ActionStatus, exec \in Time, entries \in SUBSET AuditAction,
               response \in {None, "answer"} :
            actions' = Settle(w, status, exec, entries, response)
      BY <1>1, <1>5 DEF DeferRetry, FetchError, EndRetry, ActionStatus, AuditAction
    <2>3. BirthMove
      BY <1>1, <2>1, <2>2, SettleBearsNone DEF JobsTyped
    <2> QED
      BY <1>1, <2>1, <2>3, FinishFlushesNone DEF LoopMove, MirrorMove, VerdictMove
  <1>6. CASE Fetch(w)
    <2> DEFINE answer == live[job[w].sub]
    <2>1. Set(w, [job[w] EXCEPT !.pc = "fetched", !.status = answer,
                                !.dirty = answer # None /\ answer # job[w].status])
      BY <1>6 DEF Fetch
    <2>2. /\ job'[w].status = answer
          /\ \A b \in Actors \ {w} : job'[b] = job[b]
      BY <1>1, <2>1 DEF Set, JobsTyped, Job
    <2>3. answer # "absent"
      <3>1. answer \in LiveStatuses
        BY <1>1, <1>6, TypeParts DEF RestTyped, JobsTyped, Fetch, Call
      <3> QED
        BY <3>1, Constants DEF MaybeStatus, SubscriptionStatus
    <2> QED
      BY <1>6, <2>2, <2>3 DEF Fetch, tables, LoopMove, MirrorMove, VerdictMove, BirthMove
  <1>7. CASE Recover(w)
    <2>1. Finish(w) /\ CommitMirror(w)
      BY <1>7 DEF Recover, EndRetry
    <2> QED
      BY <1>1, <1>7, <2>1, RecoverMoves, FinishFlushesNone DEF LoopMove, MirrorMove
  <1>8. CASE Relapse(w)
    <2>1. /\ job'[w].dirty = job[w].dirty /\ job'[w].status = job[w].status
          /\ \A b \in Actors \ {w} : job'[b] = job[b]
      BY <1>1, <1>8 DEF Relapse, Set, JobsTyped, Job
    <2> QED
      BY <1>8, <2>1 DEF Relapse, tables, LoopMove, MirrorMove, VerdictMove, BirthMove
  <1>9. CASE LadderStep(w)
    BY <1>1, <1>9, LadderMoves
  <1> QED
    BY <1>2, <1>3, <1>4, <1>5, <1>6, <1>7, <1>8, <1>9 DEF WorkerStep

(* Subscriptions are never forgotten, and what is recorded is explained.   *)
LEMMA LoopStep ==
    ASSUME LoopInv, [Next]_vars
    PROVE  LoopInv' /\ SubsGrow /\ FinalRows /\ FinalOutcomes
  <1>1. TypeInv' /\ Ownership' /\ FinalRows
    BY TypeStep, OwnershipNext, RowsAreFinal DEF LoopInv
  <1>2. Handling' /\ FinalOutcomes
    BY HandlingNext, HandlingKept, OutcomesAreFinal DEF LoopInv, HandlingMove
  <1>3. ASSUME NEW a \in Actors, LoopMove(a)
        PROVE  MirrorKnown' /\ SubsGrow /\ RowsAllowed' /\ OutcomesExplained'
    BY <1>1, <1>3, MirrorKept, VerdictsKept DEF LoopInv, LoopMove
  <1>4. ASSUME NEW a \in Actors, Abort(a) PROVE LoopMove(a)
    <2>1. ~job'[a].dirty /\ \A b \in Actors \ {a} : job'[b] = job[b]
      BY <1>4, TypeParts DEF LoopInv, Abort, Set, JobsTyped, IdleJob
    <2> QED
      BY <1>4, <2>1 DEF Abort, tables, LoopMove, MirrorMove, VerdictMove, BirthMove
  <1>5. ASSUME UNCHANGED <<subs, actions, outcomes, job>>
        PROVE  MirrorKnown' /\ SubsGrow /\ RowsAllowed' /\ OutcomesExplained'
    BY <1>5 DEF LoopInv, MirrorKnown, SubsGrow, RowsAllowed, OutcomesExplained, Explained
  <1>6. ASSUME NEW r \in Runners, RunnerNext(r) PROVE r \in Actors /\ LoopMove(r)
    BY <1>6, RunnerMoves DEF LoopInv, RunnerNext, Actors
  <1>7. ASSUME NEW w \in Workers, WorkerNext(w) PROVE w \in Actors /\ LoopMove(w)
    BY <1>7, WorkerMoves DEF LoopInv, WorkerNext, Actors
  <1>8. MirrorKnown' /\ SubsGrow /\ RowsAllowed' /\ OutcomesExplained'
    BY <1>3, <1>4, <1>5, <1>6, <1>7
    DEF Next, Ingest, Tick, LiveChange, WireClient, vars, tables
  <1> QED
    BY <1>1, <1>2, <1>8 DEF LoopInv

LEMMA LoopInit == Init => LoopInv
  <1> SUFFICES ASSUME Init PROVE LoopInv
    OBVIOUS
  <1>1. MirrorKnown /\ RowsAllowed /\ OutcomesExplained
    BY DEF Init, MirrorKnown, RowsAllowed, OutcomesExplained, IdleJob, AbsentRow
  <1> QED
    BY <1>1, TypeInit, OwnershipInit, HandlingInit DEF LoopInv

-----------------------------------------------------------------------------
(* The request: its place in its plan, and what it has read against what   *)
(* is there now.                                                           *)

SubRows == {s \in Subs : subs[s] # "absent"}

View == [pc : {"figures", "page", "total", "trail", "answered"},
         endpoint : DOMAIN Plan \cup {"none", "exceptions", "subscriptions", "audit"},
         next : Nat, got : [Figures -> SUBSET (Events \cup Subs \cup Nat)],
         kinds : SUBSET OutcomeStatus,
         filter : DiagnosisCategory \cup {None}, category : DiagnosisCategory \cup {None},
         skip : Nat, items : SUBSET (Nat \cup Subs \cup (ActionIds \X AuditAction)),
         total : Nat, subject : Nat \cup {None}]

Placed ==
    /\ view \in View /\ requests \in 0 .. MaxRequests
    /\ view.pc = "figures" =>
          view.endpoint \in DOMAIN Plan /\ view.next \in 1 .. Len(Plan[view.endpoint])
    /\ view.pc = "answered" /\ view.endpoint \in DOMAIN Plan =>
          view.next > Len(Plan[view.endpoint])
    /\ view.pc = "trail" => view.endpoint = "audit" /\ view.subject # None
    /\ view.endpoint # "audit" =>
          IsFiniteSet(view.items) /\ Cardinality(view.items) <= PageSize
    /\ view.subject \in (1 .. Len(outcomes)) \cup {None}

(* The rows a page was cut from are still there when they are counted.     *)
Covered ==
    /\ view.endpoint = "exceptions" /\ view.filter # None => view.category = view.filter
    /\ view.pc = "total" /\ view.endpoint = "subscriptions" /\ view.items # {} =>
          Cardinality(SubRows) >= view.skip + Cardinality(view.items)
    /\ view.pc = "total" /\ view.endpoint = "exceptions" /\ view.items # {} =>
          Cardinality(Matching(view.kinds, view.filter)) >= view.skip + Cardinality(view.items)

(* The stages are read from what there is still, and the sum of the amounts*)
(* recovered, the seventh statement, after the count of the recoveries.    *)
Counted == \A f \in Stages : view.got[f] \subseteq OutcomesOf({f})

Summed == view.endpoint = "metrics" /\ view.next > 7 =>
    view.got["recovered"] \subseteq view.got["amount_recovered"]

ViewInv ==
    Placed /\ Covered /\ TotalCoversPage /\ Counted /\ Summed /\ TrailExplainsOutcome

LEMMA PlanEndpoints ==
    /\ DOMAIN Plan \cap {"none", "exceptions", "subscriptions", "audit"} = {}
    /\ \A endpoint \in DOMAIN Plan :
          Len(Plan[endpoint]) \in Nat /\ Len(Plan[endpoint]) >= 1
    /\ "metrics" \in DOMAIN Plan /\ Len(Plan["metrics"]) = 8
  <1>1. DOMAIN Plan = {"summary", "overview", "metrics"}
    BY DEF Plan
  <1>2. /\ Len(Plan["summary"]) = 4 /\ Len(Plan["overview"]) = 5
        /\ Len(Plan["metrics"]) = 8
    BY DEF Plan
  <1> QED
    BY <1>1, <1>2

LEMMA OutcomeFields ==
    ASSUME TypeInv, NEW i \in 1 .. Len(outcomes)
    PROVE  outcomes[i].act \in ActionIds /\ outcomes[i].ev \in Events
  <1>1. outcomes \in Seq(OutcomeRow)
    BY TypeParts DEF RestTyped
  <1>2. outcomes[i] \in OutcomeRow
    BY <1>1
  <1> QED
    BY <1>2 DEF OutcomeRow

LEMMA OutcomesFinite ==
    ASSUME TypeInv, NEW kinds, NEW category
    PROVE  /\ IsFiniteSet(OutcomesOf(kinds)) /\ Cardinality(OutcomesOf(kinds)) \in Nat
           /\ IsFiniteSet(Matching(kinds, category))
           /\ Cardinality(Matching(kinds, category)) \in Nat
           /\ Len(outcomes) \in Nat
  <1>1. Len(outcomes) \in Nat
    BY TypeParts DEF RestTyped
  <1>2. IsFiniteSet(1 .. Len(outcomes))
    BY <1>1, FS_Interval
  <1>3. /\ OutcomesOf(kinds) \in SUBSET (1 .. Len(outcomes))
        /\ Matching(kinds, category) \in SUBSET (1 .. Len(outcomes))
    BY DEF OutcomesOf, Matching
  <1> QED
    BY <1>1, <1>2, <1>3, FS_Subset, FS_CardinalityType

LEMMA SubRowsFinite ==
    ASSUME DashboardAssumption
    PROVE  IsFiniteSet(SubRows) /\ Cardinality(SubRows) \in Nat
  <1>1. SubRows \in SUBSET Subs
    BY DEF SubRows
  <1> QED
    BY <1>1, FS_Subset, FS_CardinalityType DEF DashboardAssumption

(* What a later statement selects has what an earlier one selected.        *)
LEMMA OutcomesGrow ==
    ASSUME LoopInv, [Next]_vars, NEW kinds, NEW category
    PROVE  /\ Len(outcomes) <= Len(outcomes')
           /\ \A i \in 1 .. Len(outcomes) : outcomes'[i] = outcomes[i]
           /\ OutcomesOf(kinds) \subseteq OutcomesOf(kinds)'
           /\ Cardinality(Matching(kinds, category)) <= Cardinality(Matching(kinds, category)')
  <1>1. TypeInv /\ TypeInv' /\ FinalRows /\ FinalOutcomes /\ OutcomesExplained
    BY LoopStep DEF LoopInv
  <1>2. Len(outcomes) \in Nat /\ Len(outcomes') \in Nat
    <2>1. TypeOK /\ TypeOK'
      BY <1>1 DEF TypeInv
    <2>2. outcomes \in Seq(OutcomeRow) /\ outcomes' \in Seq(OutcomeRow)
      BY <2>1 DEF TypeOK
    <2> QED
      BY <2>2
  <1>3. Len(outcomes) <= Len(outcomes') /\ \A i \in 1 .. Len(outcomes) : outcomes'[i] = outcomes[i]
    BY <1>1, <1>2 DEF FinalOutcomes
  <1>4. \A i \in 1 .. Len(outcomes) : actions'[outcomes'[i].act] = actions[outcomes[i].act]
    <2>1. \A i \in 1 .. Len(outcomes) : outcomes[i].act \in ActionIds
      BY <1>1, OutcomeFields
    <2>2. \A i \in 1 .. Len(outcomes) : actions[outcomes[i].act].status = "executed"
      BY <1>1 DEF OutcomesExplained, Explained
    <2> QED
      BY <1>1, <1>3, <2>1, <2>2 DEF FinalRows, Settlements
  <1>5. /\ OutcomesOf(kinds) \in SUBSET (OutcomesOf(kinds)')
        /\ Matching(kinds, category) \in SUBSET (Matching(kinds, category)')
    BY <1>2, <1>3, <1>4 DEF OutcomesOf, Matching, Category
  <1>6. IsFiniteSet(Matching(kinds, category)')
    <2>1. IsFiniteSet(1 .. Len(outcomes'))
      BY <1>2, FS_Interval
    <2>2. Matching(kinds, category)' \in SUBSET (1 .. Len(outcomes'))
      BY DEF OutcomesOf, Matching
    <2> QED
      BY <2>1, <2>2, FS_Subset
  <1> QED
    BY <1>3, <1>5, <1>6, FS_Subset

LEMMA SubRowsGrow ==
    ASSUME DashboardAssumption, LoopInv, [Next]_vars
    PROVE  Cardinality(SubRows) <= Cardinality(SubRows')
  <1>1. SubRows \in SUBSET (SubRows')
    BY LoopStep DEF SubRows, SubsGrow
  <1>2. IsFiniteSet(SubRows')
    <2>1. SubRows' \in SUBSET Subs
      BY DEF SubRows
    <2> QED
      BY <2>1, FS_Subset DEF DashboardAssumption
  <1> QED
    BY <1>1, <1>2, FS_Subset

(* A page that has rows lies beyond all that were skipped.                 *)
LEMMA PageFits ==
    ASSUME NEW S, IsFiniteSet(S), NEW P \in SUBSET S, P # {}, NEW T \in SUBSET (S \ P),
           NEW skip \in Nat,
           Cardinality(T) = IF Cardinality(S) < skip THEN Cardinality(S) ELSE skip
    PROVE  Cardinality(S) >= skip + Cardinality(P)
  <1>1. /\ T \in SUBSET S /\ T \cup P \in SUBSET S /\ T \cap P = {}
    OBVIOUS
  <1>2. IsFiniteSet(T) /\ IsFiniteSet(P)
    BY <1>1, FS_Subset
  <1>3. Cardinality(T \cup P) = Cardinality(T) + Cardinality(P) - Cardinality({})
    BY <1>1, <1>2, FS_Union
  <1>4. Cardinality({}) = 0 /\ Cardinality(P) # 0
    BY <1>2, FS_EmptySet
  <1>5. Cardinality(T \cup P) <= Cardinality(S)
    BY <1>1, FS_Subset
  <1>6. /\ Cardinality(S) \in Nat /\ Cardinality(T) \in Nat /\ Cardinality(P) \in Nat
    BY <1>2, FS_CardinalityType
  <1> QED
    BY <1>3, <1>4, <1>5, <1>6

(* The loop goes on under a request.                                       *)
LEMMA LoopKeepsView ==
    ASSUME DashboardAssumption, LoopInv, ViewInv, [Next]_vars, UNCHANGED <<view, requests>>
    PROVE  ViewInv'
  <1>1. /\ view' = view /\ requests' = requests /\ TypeInv /\ TypeInv'
        /\ view \in View
    BY LoopStep DEF LoopInv, ViewInv, Placed
  <1>2. PICK kinds, filter : kinds = view.kinds /\ filter = view.filter
    OBVIOUS
  <1>3. /\ Len(outcomes) \in Nat /\ Len(outcomes') \in Nat
        /\ Len(outcomes) <= Len(outcomes')
        /\ \A i \in 1 .. Len(outcomes) : outcomes'[i] = outcomes[i]
    <2>1. TypeOK /\ TypeOK'
      BY <1>1 DEF TypeInv
    <2>2. outcomes \in Seq(OutcomeRow) /\ outcomes' \in Seq(OutcomeRow)
      BY <2>1 DEF TypeOK
    <2>3. /\ Len(outcomes) <= Len(outcomes')
          /\ \A i \in 1 .. Len(outcomes) : outcomes'[i] = outcomes[i]
      BY <1>1, OutcomesGrow
    <2>4. Len(outcomes) \in Nat /\ Len(outcomes') \in Nat
      BY <2>2
    <2> QED
      BY <2>3, <2>4
  <1>4. Placed'
    BY <1>1, <1>3 DEF ViewInv, Placed
  <1>5. Covered'
    <2>1. /\ Cardinality(SubRows) <= Cardinality(SubRows')
          /\ Cardinality(SubRows) \in Nat /\ Cardinality(SubRows)' \in Nat
      <3>1. SubRows' \in SUBSET Subs
        BY DEF SubRows
      <3> QED
        BY <3>1, SubRowsFinite, SubRowsGrow, FS_Subset, FS_CardinalityType
        DEF DashboardAssumption
    <2>2. /\ Cardinality(Matching(kinds, filter)) <= Cardinality(Matching(kinds, filter)')
          /\ Cardinality(Matching(kinds, filter)) \in Nat
          /\ Cardinality(Matching(kinds, filter)') \in Nat
      <3>1. Cardinality(Matching(kinds, filter)') \in Nat
        <4>1. Matching(kinds, filter)' \in SUBSET (1 .. Len(outcomes'))
          BY DEF Matching, OutcomesOf
        <4>2. IsFiniteSet(1 .. Len(outcomes'))
          BY <1>3, FS_Interval
        <4> QED
          BY <4>1, <4>2, FS_Subset, FS_CardinalityType
      <3> QED
        BY <1>1, <3>1, OutcomesGrow, OutcomesFinite
    <2>3. Matching(view.kinds, view.filter) = Matching(kinds, filter)
      BY <1>2
    <2>4. Matching(view.kinds, view.filter)' = Matching(kinds, filter)'
      BY <1>1, <1>2 DEF Matching, OutcomesOf, Category
    <2>5. /\ view.skip \in Nat
          /\ view.endpoint # "audit" => Cardinality(view.items) \in Nat
      BY <1>1, FS_CardinalityType DEF View, ViewInv, Placed
    <2>6. ASSUME view.pc = "total", view.endpoint = "subscriptions", view.items # {}
          PROVE  Cardinality(SubRows)' >= view.skip + Cardinality(view.items)
      <3>1. Cardinality(SubRows) >= view.skip + Cardinality(view.items)
        BY <2>6 DEF ViewInv, Covered
      <3> QED
        BY <2>1, <2>5, <2>6, <3>1
    <2>7. ASSUME view.pc = "total", view.endpoint = "exceptions", view.items # {}
          PROVE  Cardinality(Matching(view.kinds, view.filter))'
                     >= view.skip + Cardinality(view.items)
      <3>1. Cardinality(Matching(view.kinds, view.filter)) >= view.skip + Cardinality(view.items)
        BY <2>7 DEF ViewInv, Covered
      <3> QED
        BY <2>2, <2>3, <2>4, <2>5, <2>7, <3>1
    <2> QED
      BY <1>1, <2>6, <2>7 DEF ViewInv, Covered
  <1>6. TotalCoversPage'
    BY <1>1 DEF ViewInv, TotalCoversPage, Answered
  <1>7. Counted'
    <2> SUFFICES ASSUME NEW f \in Stages PROVE view.got[f] \subseteq OutcomesOf({f})'
      BY <1>1 DEF Counted
    <2>1. OutcomesOf({f}) \subseteq OutcomesOf({f})'
      BY OutcomesGrow
    <2> QED
      BY <2>1 DEF ViewInv, Counted
  <1>8. Summed'
    BY <1>1 DEF ViewInv, Summed
  <1>9. TrailExplainsOutcome'
    <2> SUFFICES ASSUME view.pc = "answered", view.endpoint = "audit", view.subject # None
                 PROVE  /\ <<outcomes'[view.subject].act, "guardrail.allow">> \in view.items
                        /\ <<outcomes'[view.subject].act,
                             VerdictEntry[outcomes'[view.subject].kind]>> \in view.items
      BY <1>1 DEF TrailExplainsOutcome, Answered
    <2>1. view.subject \in 1 .. Len(outcomes)
      BY DEF ViewInv, Placed
    <2>2. outcomes'[view.subject] = outcomes[view.subject]
      BY <1>3, <2>1
    <2> QED
      BY <2>2 DEF ViewInv, TrailExplainsOutcome, Answered
  <1> QED
    BY <1>4, <1>5, <1>6, <1>7, <1>8, <1>9 DEF ViewInv

(* A fresh request has read nothing.                                       *)
FreshView(v) ==
    /\ v \in View /\ v.items = {} /\ v.got = IdleView.got /\ v.category = v.filter
    /\ v.next = 1
    /\ v.pc = "figures" => v.endpoint \in DOMAIN Plan
    /\ v.pc = "answered" => v.endpoint = "audit" /\ v.subject = None
    /\ v.pc = "trail" => v.endpoint = "audit" /\ v.subject # None
    /\ v.subject \in (1 .. Len(outcomes)) \cup {None}

LEMMA FreshAnswers ==
    ASSUME DashboardAssumption, TypeInv, Loop, FreshView(view)', requests' \in 0 .. MaxRequests
    PROVE  ViewInv'
  <1>1. outcomes' = outcomes
    BY DEF Loop, vars
  <1>2. Cardinality({}) = 0 /\ IsFiniteSet({})
    BY FS_EmptySet
  <1>3. /\ view' \in View /\ view'.items = {} /\ view'.got = IdleView.got
        /\ view'.category = view'.filter /\ view'.next = 1
        /\ view'.pc = "figures" => view'.endpoint \in DOMAIN Plan
        /\ view'.pc = "answered" => view'.endpoint = "audit" /\ view'.subject = None
        /\ view'.pc = "trail" => view'.endpoint = "audit" /\ view'.subject # None
        /\ view'.subject \in (1 .. Len(outcomes')) \cup {None}
    BY DEF FreshView
  <1>4. Placed'
    <2>1. \A endpoint \in DOMAIN Plan : 1 \in 1 .. Len(Plan[endpoint])
      BY PlanEndpoints
    <2>2. PageSize \in Nat
      BY DEF DashboardAssumption
    <2> QED
      BY <1>2, <1>3, <2>1, <2>2, PlanEndpoints DEF Placed
  <1>5. Covered' /\ TotalCoversPage' /\ TrailExplainsOutcome' /\ Summed'
    BY <1>3 DEF Covered, TotalCoversPage, TrailExplainsOutcome, Summed, Answered
  <1>6. Counted'
    BY <1>3 DEF Counted, IdleView, Figures
  <1> QED
    BY <1>4, <1>5, <1>6 DEF ViewInv

LEMMA IdleIsView == IdleView \in View
  <1>1. None \in DiagnosisCategory \cup {None}
    OBVIOUS
  <1>2. [f \in Figures |-> {}] \in [Figures -> SUBSET (Events \cup Subs \cup Nat)]
    OBVIOUS
  <1> QED
    BY <1>1, <1>2 DEF IdleView, View

LEMMA AskKeepsView ==
    ASSUME DashboardAssumption, TypeInv, ViewInv,
           AskFigures \/ AskExceptions \/ AskSubscriptions \/ AskAudit
    PROVE  ViewInv'
  <1>1. requests \in 0 .. MaxRequests /\ MaxRequests \in Nat /\ Skips \subseteq Nat
    BY DEF ViewInv, Placed, DashboardAssumption
  <1>2. ASSUME NEW v, Ask(v), FreshView(v) PROVE ViewInv'
    <2>1. requests' \in 0 .. MaxRequests
      BY <1>1, <1>2 DEF Ask
    <2>2. FreshView(view)'
      BY <1>2 DEF Ask, Loop, vars, FreshView
    <2> QED
      BY <1>2, <2>1, <2>2, FreshAnswers DEF Ask
  <1>3. CASE AskFigures
    <2>1. PICK endpoint \in DOMAIN Plan :
            Ask([IdleView EXCEPT !.pc = "figures", !.endpoint = endpoint])
      BY <1>3 DEF AskFigures
    <2>2. FreshView([IdleView EXCEPT !.pc = "figures", !.endpoint = endpoint])
      <3>1. endpoint # "audit"
        BY DEF Plan
      <3> QED
        BY <3>1, IdleIsView DEF FreshView, View, IdleView
    <2> QED
      BY <1>2, <2>1, <2>2
  <1>4. CASE AskExceptions
    <2>1. PICK outcome \in OutcomeStatus \cup {None}, filter \in DiagnosisCategory \cup {None},
               skip \in Skips :
            Ask([IdleView EXCEPT !.pc = "page", !.endpoint = "exceptions", !.skip = skip,
                    !.kinds = IF outcome = None THEN ExceptionKinds ELSE {outcome},
                    !.filter = filter, !.category = filter])
      BY <1>4 DEF AskExceptions
    <2>2. PICK kinds \in SUBSET OutcomeStatus :
            kinds = IF outcome = None THEN ExceptionKinds ELSE {outcome}
      BY DEF ExceptionKinds, OutcomeStatus
    <2>3. FreshView([IdleView EXCEPT !.pc = "page", !.endpoint = "exceptions", !.skip = skip,
                    !.kinds = kinds, !.filter = filter, !.category = filter])
      BY <1>1, IdleIsView DEF FreshView, View, IdleView
    <2> QED
      BY <1>2, <2>1, <2>2, <2>3
  <1>5. CASE AskSubscriptions
    <2>1. PICK skip \in Skips :
            Ask([IdleView EXCEPT !.pc = "page", !.endpoint = "subscriptions", !.skip = skip])
      BY <1>5 DEF AskSubscriptions
    <2>2. FreshView([IdleView EXCEPT !.pc = "page", !.endpoint = "subscriptions", !.skip = skip])
      BY <1>1, IdleIsView DEF FreshView, View, IdleView
    <2> QED
      BY <1>2, <2>1, <2>2
  <1>6. CASE AskAudit
    <2>1. ASSUME NEW i \in 1 .. Len(outcomes)
          PROVE  FreshView([IdleView EXCEPT !.pc = "trail", !.endpoint = "audit", !.subject = i])
      <3>1. i \in Nat /\ i # None
        BY TypeParts, Constants DEF RestTyped
      <3> QED
        BY <3>1, IdleIsView DEF FreshView, View, IdleView
    <2>2. FreshView([IdleView EXCEPT !.endpoint = "audit"])
      BY IdleIsView DEF FreshView, View, IdleView
    <2> QED
      BY <1>2, <1>6, <2>1, <2>2 DEF AskAudit
  <1> QED
    BY <1>3, <1>4, <1>5, <1>6

(* What the statements select.                                             *)
LEMMA SelectedRows ==
    ASSUME DashboardAssumption, TypeInv, NEW figure \in Figures
    PROVE  /\ Selected(figure) \subseteq Events \cup Subs \cup Nat
           /\ figure \in Stages => Selected(figure) = OutcomesOf({figure})
           /\ figure = "amount_recovered" => Selected(figure) = OutcomesOf({"recovered"})
  <1>1. \A kinds : OutcomesOf(kinds) \subseteq Nat
    BY TypeParts DEF RestTyped, OutcomesOf
  <1>2. FailedPayments \subseteq Events /\ ActionIds \subseteq Nat
    BY Constants DEF DashboardAssumption
  <1> QED
    BY <1>1, <1>2 DEF Selected, Figures, Stages, Lists

LEMMA PlannedFigures ==
    ASSUME NEW endpoint \in DOMAIN Plan, NEW n \in 1 .. Len(Plan[endpoint])
    PROVE  /\ Plan[endpoint][n] \in Figures
           /\ endpoint = "metrics" /\ n >= 7 => Plan[endpoint][n] \notin Stages
           /\ endpoint = "metrics" /\ n = 7 => Plan[endpoint][n] = "amount_recovered"
           /\ endpoint = "metrics" /\ n > 7 => Plan[endpoint][n] # "amount_recovered"
  <1>1. endpoint \in {"summary", "overview", "metrics"}
    BY DEF Plan
  <1>2. CASE endpoint = "summary"
    BY <1>2 DEF Plan, Figures
  <1>3. CASE endpoint = "overview"
    BY <1>3 DEF Plan, Figures, Lists, Stages
  <1>4. CASE endpoint = "metrics"
    BY <1>4 DEF Plan, Figures, Stages
  <1> QED
    BY <1>1, <1>2, <1>3, <1>4

LEMMA FigureKept ==
    ASSUME NEW S, NEW f \in [Figures -> S], NEW figure, NEW rows \in S
    PROVE  [f EXCEPT ![figure] = rows] \in [Figures -> S]
  OBVIOUS

LEMMA ReadFigureKeepsView ==
    ASSUME DashboardAssumption, TypeInv, ViewInv, ReadFigure
    PROVE  ViewInv'
  <1>1. /\ view.pc = "figures" /\ view.endpoint \in DOMAIN Plan /\ view \in View
        /\ view.next \in 1 .. Len(Plan[view.endpoint])
        /\ requests' = requests /\ outcomes' = outcomes
    BY DEF ReadFigure, ViewInv, Placed, Loop, vars
  <1>2. PICK figure \in Figures : figure = Plan[view.endpoint][view.next]
    BY <1>1, PlannedFigures
  <1>3. PICK rows \in Result(figure), pc \in {"figures", "answered"} :
          /\ view' = [view EXCEPT !.got[figure] = rows, !.next = @ + 1, !.pc = pc]
          /\ pc = "figures" <=> view.next # Len(Plan[view.endpoint])
    BY <1>2 DEF ReadFigure
  <1>4. \A endpoint \in DOMAIN Plan : Len(Plan[endpoint]) \in Nat
    BY PlanEndpoints
  <1>5. /\ rows \in SUBSET (Events \cup Subs \cup Nat)
        /\ figure \in Stages => rows = OutcomesOf({figure})
        /\ figure = "amount_recovered" => rows = OutcomesOf({"recovered"})
    <2>1. rows \in SUBSET Selected(figure) /\ (figure \notin Lists => rows = Selected(figure))
      BY <1>3 DEF Result
    <2>2. (figure \in Stages \/ figure = "amount_recovered") => figure \notin Lists
      BY DEF Stages, Lists
    <2> QED
      BY <2>1, <2>2, SelectedRows
  <1>6. view.got \in [Figures -> SUBSET (Events \cup Subs \cup Nat)] /\ view.next \in Nat
    BY <1>1 DEF View
  <1>7. PICK got, next : /\ got = [view.got EXCEPT ![figure] = rows]
                         /\ next = view.next + 1
    OBVIOUS
  <1>8. /\ got \in [Figures -> SUBSET (Events \cup Subs \cup Nat)] /\ next \in Nat
        /\ got[figure] = rows /\ \A f \in Figures \ {figure} : got[f] = view.got[f]
    <2>1. got \in [Figures -> SUBSET (Events \cup Subs \cup Nat)]
      BY <1>5, <1>6, <1>7, FigureKept, Zenon
    <2> QED
      BY <1>6, <1>7, <2>1
  <1>9. view' = [view EXCEPT !.got = got, !.next = next, !.pc = pc]
    BY <1>1, <1>3, <1>7 DEF View
  <1>10. /\ view'.pc = pc /\ view'.endpoint = view.endpoint /\ view'.next = next
         /\ view'.got = got /\ view'.items = view.items /\ view'.subject = view.subject
         /\ view'.filter = view.filter /\ view'.category = view.category
    BY <1>1, <1>9 DEF View
  <1>11. view' \in View
    BY <1>1, <1>8, <1>9 DEF View
  <1>12. view.endpoint \notin {"none", "exceptions", "subscriptions", "audit"}
    BY <1>1, PlanEndpoints
  <1>13. Placed'
    BY <1>1, <1>3, <1>4, <1>7, <1>10, <1>11, <1>12 DEF ViewInv, Placed
  <1>14. Covered' /\ TotalCoversPage' /\ TrailExplainsOutcome'
    BY <1>10, <1>12 DEF Covered, TotalCoversPage, TrailExplainsOutcome, Answered
  <1>15. Counted'
    <2> SUFFICES ASSUME NEW f \in Stages PROVE got[f] \subseteq OutcomesOf({f})'
      BY <1>10 DEF Counted
    <2>1. OutcomesOf({f})' = OutcomesOf({f}) /\ f \in Figures
      BY <1>1 DEF OutcomesOf, Figures
    <2>2. view.got[f] \subseteq OutcomesOf({f})
      BY DEF ViewInv, Counted
    <2> QED
      BY <1>5, <1>8, <2>1, <2>2
  <1>16. Summed'
    <2> SUFFICES ASSUME view.endpoint = "metrics", next > 7
                 PROVE  got["recovered"] \subseteq got["amount_recovered"]
      BY <1>10 DEF Summed
    <2>1. /\ view.next >= 7 /\ figure # "recovered"
          /\ {"recovered", "amount_recovered"} \subseteq Figures
      BY <1>1, <1>2, <1>6, <1>7, PlannedFigures DEF Figures, Stages
    <2>2. CASE view.next = 7
      <3>1. figure = "amount_recovered"
        BY <1>1, <1>2, <2>2, PlannedFigures
      <3>2. got["amount_recovered"] = OutcomesOf({"recovered"})
        BY <1>5, <1>8, <3>1
      <3>3. view.got["recovered"] \subseteq OutcomesOf({"recovered"})
        BY DEF ViewInv, Counted, Stages
      <3> QED
        BY <1>8, <2>1, <3>2, <3>3
    <2>3. CASE view.next > 7
      <3>1. figure # "amount_recovered"
        BY <1>1, <1>2, <2>3, PlannedFigures
      <3> QED
        BY <1>8, <2>1, <2>3, <3>1 DEF ViewInv, Summed
    <2> QED
      BY <1>6, <2>1, <2>2, <2>3
  <1> QED
    BY <1>13, <1>14, <1>15, <1>16 DEF ViewInv

(* A statement that reads rows only: the figures of the plan stay.         *)
LEMMA FiguresKept ==
    ASSUME ViewInv, Loop, view'.got = view.got, view'.endpoint \notin DOMAIN Plan
    PROVE  Counted' /\ Summed'
  BY PlanEndpoints DEF ViewInv, Counted, Summed, Loop, vars, OutcomesOf

LEMMA ReadExceptionsKeepsView ==
    ASSUME DashboardAssumption, TypeInv, ViewInv, ReadExceptions
    PROVE  ViewInv'
  <1> DEFINE rows == Matching(view.kinds, view.filter)
  <1>1. /\ view.pc = "page" /\ view.endpoint = "exceptions" /\ view \in View
        /\ requests' = requests /\ outcomes' = outcomes /\ actions' = actions
        /\ PageSize \in Nat
    BY DEF ReadExceptions, ViewInv, Placed, Loop, vars, DashboardAssumption
  <1>2. PICK P, category :
          /\ P \in SUBSET rows
          /\ IsPage(P, rows, view.skip, ResolvedAt)
          /\ category \in
                IF P = {} THEN {view.filter}
                ELSE {Category(i) : i \in {j \in P : \A x \in P : ResolvedAt(j) <= ResolvedAt(x)}}
          /\ view' = [view EXCEPT !.pc = "total", !.items = P, !.category = category]
    BY DEF ReadExceptions
  <1>3. PICK T \in SUBSET (rows \ P) :
          /\ Cardinality(P) <= PageSize
          /\ Cardinality(T) = IF Cardinality(rows) < view.skip THEN Cardinality(rows) ELSE view.skip
    BY <1>2 DEF IsPage
  <1>4. P # {} => Cardinality(rows) >= view.skip + Cardinality(P)
    BY <1>1, <1>2, <1>3, OutcomesFinite, PageFits DEF View
  <1>5. category = view.filter \/ (view.filter = None /\ category \in DiagnosisCategory)
    <2>1. CASE P = {}
      BY <1>2, <2>1
    <2>2. CASE P # {}
      <3>1. PICK i \in rows : category = Category(i)
        BY <1>2, <2>2
      <3>2. outcomes[i].act \in ActionIds
        BY <3>1, OutcomeFields DEF Matching, OutcomesOf
      <3>3. Category(i) \in DiagnosisCategory
        BY <3>2, TypeParts DEF RowsTyped, ActionRow, Category
      <3> QED
        BY <3>1, <3>3 DEF Matching
    <2> QED
      BY <2>1, <2>2
  <1>6. P \subseteq Nat /\ IsFiniteSet(P)
    <2>1. IsFiniteSet(rows)
      BY OutcomesFinite
    <2>2. rows \subseteq Nat
      BY DEF Matching, OutcomesOf
    <2>3. P \in SUBSET rows
      BY <1>2
    <2> HIDE DEF rows
    <2> QED
      BY <2>1, <2>2, <2>3, FS_Subset
  <1>7. /\ view'.pc = "total" /\ view'.endpoint = "exceptions" /\ view'.got = view.got
        /\ view'.items = P /\ view'.subject = view.subject /\ view'.kinds = view.kinds
        /\ view'.filter = view.filter /\ view'.category = category /\ view'.skip = view.skip
    BY <1>1, <1>2 DEF View
  <1>8. view' \in View
    BY <1>1, <1>2, <1>5, <1>6 DEF View
  <1>9. Placed'
    BY <1>1, <1>3, <1>6, <1>7, <1>8 DEF ViewInv, Placed
  <1>10. Matching(view.kinds, view.filter)' = rows
    BY <1>1, <1>7 DEF Matching, OutcomesOf, Category
  <1>11. Covered'
    BY <1>4, <1>5, <1>7, <1>10 DEF Covered
  <1>12. TotalCoversPage' /\ TrailExplainsOutcome'
    BY <1>7 DEF TotalCoversPage, TrailExplainsOutcome, Answered
  <1> QED
    BY <1>7, <1>9, <1>11, <1>12, FiguresKept, PlanEndpoints DEF ViewInv, ReadExceptions

(* The total of exceptions is counted with the category the page left; it  *)
(* is the one asked for, when one was.                                     *)
LEMMA CountExceptionsKeepsView ==
    ASSUME DashboardAssumption, TypeInv, ViewInv, CountExceptions
    PROVE  ViewInv'
  <1>1. /\ view.pc = "total" /\ view.endpoint = "exceptions" /\ view \in View
        /\ requests' = requests /\ outcomes' = outcomes
        /\ view' = [view EXCEPT !.pc = "answered",
                        !.total = Cardinality(Matching(view.kinds, view.category))]
    BY DEF CountExceptions, ViewInv, Placed, Loop, vars
  <1>2. /\ view'.pc = "answered" /\ view'.endpoint = "exceptions" /\ view'.got = view.got
        /\ view'.items = view.items /\ view'.subject = view.subject
        /\ view'.filter = view.filter /\ view'.category = view.category
        /\ view'.skip = view.skip
        /\ view'.total = Cardinality(Matching(view.kinds, view.category))
    BY <1>1 DEF View
  <1>3. view' \in View
    BY <1>1, OutcomesFinite DEF View
  <1>4. Placed'
    BY <1>1, <1>2, <1>3, PlanEndpoints DEF ViewInv, Placed
  <1>5. Covered' /\ TrailExplainsOutcome'
    BY <1>1, <1>2 DEF ViewInv, Covered, TrailExplainsOutcome, Answered
  <1>6. TotalCoversPage'
    BY <1>1, <1>2 DEF ViewInv, Covered, TotalCoversPage, Answered
  <1> QED
    BY <1>2, <1>4, <1>5, <1>6, FiguresKept, PlanEndpoints DEF ViewInv, CountExceptions

LEMMA SubscriptionsKeepView ==
    ASSUME DashboardAssumption, TypeInv, ViewInv, ReadSubscriptions \/ CountSubscriptions
    PROVE  ViewInv'
  <1>1. /\ view.endpoint = "subscriptions" /\ view \in View /\ PageSize \in Nat
        /\ requests' = requests /\ outcomes' = outcomes /\ subs' = subs /\ Loop
    BY DEF ReadSubscriptions, CountSubscriptions, ViewInv, Placed, Loop, vars,
       DashboardAssumption
  <1>2. SubRows' = SubRows
    BY <1>1 DEF SubRows
  <1>3. CASE ReadSubscriptions
    <2>1. PICK P \in SUBSET SubRows :
            /\ IsPage(P, SubRows, view.skip, LAMBDA s : 0)
            /\ view' = [view EXCEPT !.pc = "total", !.items = P]
      BY <1>3 DEF ReadSubscriptions, Selected, SubRows
    <2>2. PICK T \in SUBSET (SubRows \ P) :
            /\ Cardinality(P) <= PageSize
            /\ Cardinality(T) = IF Cardinality(SubRows) < view.skip
                                THEN Cardinality(SubRows) ELSE view.skip
      BY <2>1 DEF IsPage
    <2>3. P # {} => Cardinality(SubRows) >= view.skip + Cardinality(P)
      BY <1>1, <2>2, SubRowsFinite, PageFits DEF View
    <2>4. P \subseteq Subs /\ IsFiniteSet(P)
      BY SubRowsFinite, FS_Subset DEF SubRows
    <2>5. /\ view'.pc = "total" /\ view'.endpoint = "subscriptions" /\ view'.got = view.got
          /\ view'.items = P /\ view'.subject = view.subject /\ view'.skip = view.skip
      BY <1>1, <2>1 DEF View
    <2>6. view' \in View
      BY <1>1, <2>1, <2>4 DEF View
    <2>7. Placed'
      BY <1>1, <2>2, <2>4, <2>5, <2>6 DEF ViewInv, Placed
    <2>8. Covered' /\ TotalCoversPage' /\ TrailExplainsOutcome'
      BY <1>2, <2>3, <2>5 DEF Covered, TotalCoversPage, TrailExplainsOutcome, Answered
    <2> QED
      BY <1>1, <2>5, <2>7, <2>8, FiguresKept, PlanEndpoints DEF ViewInv
  <1>4. CASE CountSubscriptions
    <2>1. view.pc = "total" /\ view' = [view EXCEPT !.pc = "answered", !.total = Cardinality(SubRows)]
      BY <1>4 DEF CountSubscriptions, Selected, SubRows
    <2>2. /\ view'.pc = "answered" /\ view'.endpoint = "subscriptions" /\ view'.got = view.got
          /\ view'.items = view.items /\ view'.subject = view.subject
          /\ view'.skip = view.skip /\ view'.total = Cardinality(SubRows)
      BY <1>1, <2>1 DEF View
    <2>3. view' \in View
      BY <1>1, <2>1, SubRowsFinite DEF View
    <2>4. Placed'
      BY <1>1, <2>2, <2>3, PlanEndpoints DEF ViewInv, Placed
    <2>5. Covered' /\ TrailExplainsOutcome' /\ TotalCoversPage'
      BY <1>1, <2>1, <2>2 DEF ViewInv, Covered, TrailExplainsOutcome, TotalCoversPage, Answered
    <2> QED
      BY <1>1, <2>2, <2>4, <2>5, FiguresKept, PlanEndpoints DEF ViewInv
  <1> QED
    BY <1>3, <1>4

(* What is asked for has its row among what is read of its subscription.   *)
LEMMA ReadTrailKeepsView ==
    ASSUME DashboardAssumption, LoopInv, ViewInv, ReadTrail
    PROVE  ViewInv'
  <1>1. /\ view.pc = "trail" /\ view.endpoint = "audit" /\ view \in View
        /\ view.subject \in 1 .. Len(outcomes)
        /\ requests' = requests /\ outcomes' = outcomes /\ Loop
    BY DEF ReadTrail, ViewInv, Placed, Loop, vars
  <1>2. PICK o : o = outcomes[view.subject]
    OBVIOUS
  <1>3. PICK items \in SUBSET (ActionIds \X AuditAction) :
          /\ items = Trail(actions[o.act].sub)
          /\ view' = [view EXCEPT !.pc = "answered", !.items = items]
    BY <1>2 DEF ReadTrail, Trail
  <1>4. {<<o.act, "guardrail.allow">>, <<o.act, VerdictEntry[o.kind]>>} \subseteq items
    <2>1. o.act \in ActionIds
      BY <1>1, <1>2, OutcomeFields DEF LoopInv
    <2>2. /\ o.kind \in DOMAIN VerdictEntry
          /\ {"guardrail.allow", VerdictEntry[o.kind]} \subseteq actions[o.act].aud
      BY <1>1, <1>2 DEF LoopInv, OutcomesExplained, Explained
    <2>3. {"guardrail.allow", VerdictEntry[o.kind]} \subseteq AuditAction
      BY <2>2 DEF VerdictEntry, AuditAction
    <2> QED
      BY <1>3, <2>1, <2>2, <2>3 DEF Trail
  <1>5. /\ view'.pc = "answered" /\ view'.endpoint = "audit" /\ view'.got = view.got
        /\ view'.items = items /\ view'.subject = view.subject
    BY <1>1, <1>3 DEF View
  <1>6. view' \in View
    BY <1>1, <1>3 DEF View
  <1>7. "audit" \notin DOMAIN Plan
    BY PlanEndpoints
  <1>8. Placed'
    BY <1>1, <1>5, <1>6, <1>7 DEF ViewInv, Placed
  <1>9. Covered' /\ TotalCoversPage'
    BY <1>5 DEF Covered, TotalCoversPage, Answered
  <1>10. TrailExplainsOutcome'
    BY <1>1, <1>2, <1>4, <1>5 DEF TrailExplainsOutcome, Answered
  <1> QED
    BY <1>1, <1>5, <1>7, <1>8, <1>9, <1>10, FiguresKept DEF ViewInv

-----------------------------------------------------------------------------
(* The theorems.                                                           *)

LEMMA DashReadsOnly == [DashNext]_dashVars => [Next]_vars
  BY DEF DashNext, dashVars, AskFigures, AskExceptions, AskSubscriptions, AskAudit, Ask,
     ReadFigure, ReadExceptions, CountExceptions, ReadSubscriptions, CountSubscriptions,
     ReadTrail, Loop

LEMMA DashStep ==
    ASSUME DashboardAssumption, LoopInv, ViewInv, [DashNext]_dashVars
    PROVE  LoopInv' /\ ViewInv' /\ [Next]_vars
  <1>1. [Next]_vars
    BY DashReadsOnly
  <1>2. LoopInv'
    BY <1>1, LoopStep
  <1>3. TypeInv
    BY DEF LoopInv
  <1>4. ASSUME UNCHANGED <<view, requests>> PROVE ViewInv'
    BY <1>1, <1>4, LoopKeepsView
  <1>5. ViewInv'
    BY <1>3, <1>4, AskKeepsView, ReadFigureKeepsView, ReadExceptionsKeepsView,
       CountExceptionsKeepsView, SubscriptionsKeepView, ReadTrailKeepsView
    DEF DashNext, dashVars
  <1> QED
    BY <1>1, <1>2, <1>5

LEMMA DashStart ==
    ASSUME DashboardAssumption, DashInit
    PROVE  LoopInv /\ ViewInv
  <1>1. LoopInv
    BY LoopInit DEF DashInit
  <1>2. view = IdleView /\ requests = 0 /\ MaxRequests \in Nat /\ PageSize \in Nat
    BY DEF DashInit, DashboardAssumption
  <1>3. Placed
    BY <1>2, IdleIsView, FS_EmptySet, PlanEndpoints DEF Placed, IdleView
  <1>4. Covered /\ TotalCoversPage /\ TrailExplainsOutcome
    BY <1>2 DEF Covered, TotalCoversPage, TrailExplainsOutcome, Answered, IdleView
  <1>5. Counted /\ Summed
    BY <1>2 DEF Counted, Summed, IdleView, Figures
  <1> QED
    BY <1>1, <1>3, <1>4, <1>5 DEF ViewInv

LEMMA DashHolds == DashSpec => [](LoopInv /\ ViewInv)
  <1>1. DashInit => LoopInv /\ ViewInv
    BY DashStart, DashboardAssumption
  <1>2. LoopInv /\ ViewInv /\ [DashNext]_dashVars => (LoopInv /\ ViewInv)'
    BY DashStep, DashboardAssumption
  <1> QED
    BY <1>1, <1>2, PTL DEF DashSpec

(* The endpoints write nothing (dashboard.py adds and commits no row):     *)
(* beside them the loop is the loop, with every theorem about it.          *)
THEOREM LoopBesideReaders == DashSpec => Spec
  <1>1. DashInit => Init
    BY DEF DashInit
  <1> QED
    BY <1>1, DashReadsOnly, PTL DEF DashSpec, Spec

(* A request keeps its parameters and its place (dashboard.py 106-337).    *)
THEOREM ViewTyped == DashSpec => []ViewTypeOK
  <1>1. LoopInv /\ ViewInv => ViewTypeOK
    BY DEF ViewInv, Placed, View, ViewTypeOK
  <1> QED
    BY <1>1, DashHolds, PTL

(* The total of the list of subscriptions, and of the exceptions of one    *)
(* category, covers the page and what was skipped (dashboard.py 130-156,   *)
(* 239-306), although the loop goes on between the two statements.         *)
THEOREM PageCovered == DashSpec => []TotalCoversPage
  <1>1. LoopInv /\ ViewInv => TotalCoversPage
    BY DEF ViewInv
  <1> QED
    BY <1>1, DashHolds, PTL

(* The trail of an exception (dashboard.py 309-337) holds the entry of its *)
(* verdict and the guardrail's allowance, of the action it is the end of.  *)
THEOREM TrailExplains == DashSpec => []TrailExplainsOutcome
  <1>1. LoopInv /\ ViewInv => TrailExplainsOutcome
    BY DEF ViewInv
  <1> QED
    BY <1>1, DashHolds, PTL

(* Two stages that hold outcomes of one event are one, with one outcome.   *)
LEMMA FunnelFits ==
    ASSUME ViewInv, EpisodeInv
    PROVE  FunnelCountsOnce
  <1> SUFFICES ASSUME Answered("metrics")
               PROVE  /\ \A f, g \in Stages : \A i \in view.got[f], j \in view.got[g] :
                            outcomes[i].ev = outcomes[j].ev => f = g /\ i = j
                      /\ view.got["recovered"] \subseteq view.got["amount_recovered"]
    BY DEF FunnelCountsOnce
  <1>1. \A i, j \in 1 .. Len(outcomes) : outcomes[i].ev = outcomes[j].ev => i = j
    BY DEF EpisodeInv, Episodes, OneOutcomePerEvent
  <1>2. ASSUME NEW f \in Stages, NEW g \in Stages, NEW i \in view.got[f],
               NEW j \in view.got[g], outcomes[i].ev = outcomes[j].ev
        PROVE  f = g /\ i = j
    <2>1. i \in OutcomesOf({f}) /\ j \in OutcomesOf({g})
      BY DEF ViewInv, Counted
    <2> QED
      BY <1>1, <1>2, <2>1 DEF OutcomesOf
  <1>3. view.next > 7
    <2>1. view.pc = "answered" /\ view.endpoint = "metrics" /\ view.next \in Nat
      BY DEF Answered, ViewInv, Placed, View
    <2> QED
      BY <2>1, PlanEndpoints DEF ViewInv, Placed
  <1>4. view.got["recovered"] \subseteq view.got["amount_recovered"]
    BY <1>3 DEF ViewInv, Summed, Answered
  <1> QED
    BY <1>2, <1>4

(* The stages of the funnel are counted one after the other (dashboard.py  *)
(* 171-201), and yet no failed payment is in two of them, nor twice in one,*)
(* and the amount recovered sums every payment that is counted as recovered*)
(* if the caller hands each event to one session at a time.                *)
THEOREM FunnelSound ==
    ASSUME ExclusiveHandOver
    PROVE  DashSpec => []FunnelCountsOnce
  <1>1. DashInit => LoopInv /\ ViewInv /\ EpisodeInv
    BY DashStart, EpisodeInit, DashboardAssumption DEF DashInit
  <1>2. LoopInv /\ ViewInv /\ EpisodeInv /\ [DashNext]_dashVars
            => (LoopInv /\ ViewInv /\ EpisodeInv)'
    BY DashStep, EpisodeStep, DashboardAssumption
  <1>3. LoopInv /\ ViewInv /\ EpisodeInv => FunnelCountsOnce
    BY FunnelFits
  <1> QED
    BY <1>1, <1>2, <1>3, PTL DEF DashSpec
=============================================================================
