--------------------------- MODULE EpisodeProofs ----------------------------
(***************************************************************************)
(* How the rows of one episode follow each other: the live retry is the    *)
(* last of its event, every other has been executed a cooldown or more     *)
(* before it is due, and a session that decides has counted them all.      *)
(***************************************************************************)
EXTENDS HistoryProofs

Live == {"scheduled", "executing"}

LinkPC == {"link", "linked", "linkerror"}

AtWork(a) == job[a].pc \in RetryPC \cup LinkPC

(* All retries proposed for an event, the skipped ones among them.         *)
RetriesOf(e) == {id \in ActionIds :
    actions[id].type = "retry_charge" /\ actions[id].ev = e}

(* A row and the session that adds it speak of the subscription of the     *)
(* event's body.                                                           *)
SubjectsAgree ==
    /\ \A id \in ActionIds : actions[id].status # "absent" =>
          /\ events[actions[id].ev].state # "absent"
          /\ actions[id].sub = events[actions[id].ev].body.sub
    /\ \A a \in Actors : AtWork(a) =>
          /\ events[job[a].ev].state # "absent"
          /\ job[a].sub = events[job[a].ev].body.sub

RowsInOrder ==
    /\ \A id \in ActionIds : actions[id].status = "absent" =>
          actions[id].ev = None /\ actions[id].sub = None
    /\ \A e \in Events : \A id \in RetriesOf(e) : Handled(e) /\ actions[id].attempt > 0
    /\ \A e \in Events : \A id \in LiveOf(e) : actions[id].sched # None

LinkRows == \A a \in Actors :
    job[a].pc \in LinkPC => actions[job[a].act].type # "retry_charge"

(* A worker's clock is not before the time of what it has claimed.         *)
ClaimedWhenDue == \A w \in Workers :
    /\ \A id \in job[w].queue : actions[id].sched <= job[w].now
    /\ job[w].pc \in RetryPC => actions[job[w].act].sched <= job[w].now

(* No retry has a higher number than there are retries; a session that     *)
(* decides has seen all of its event's and no more than there are.         *)
Numbered == \A s \in Subs : \A id \in RetryRows(s) :
    actions[id].attempt <= Cardinality(RetryRows(s))

Counted == \A a \in Actors : job[a].pc = "decide" =>
    /\ job[a].n <= Cardinality(RetryRows(job[a].sub))
    /\ \A id \in RetriesOf(job[a].ev) : actions[id].attempt <= job[a].n
    /\ Cardinality(RetriesOf(job[a].ev)) <= job[a].n

LiveIsLast == \A e \in Events : \A y \in LiveOf(e) : \A x \in RetriesOf(e) \ {y} :
    /\ actions[x].attempt < actions[y].attempt
    /\ actions[x].exec # None
    /\ actions[y].sched >= actions[x].exec + Cooldown

LadderInv ==
    /\ EpisodeInv
    /\ SubjectsAgree /\ RowsInOrder /\ LinkRows /\ ClaimedWhenDue
    /\ Numbered /\ Counted /\ LiveIsLast /\ LadderSpacing

-----------------------------------------------------------------------------
(* What a step does to the rows and to the sessions.                       *)

(* A row keeps what it is about; only a live one gets a result, for good.  *)
SameRow(id) ==
    /\ actions'[id].type = actions[id].type /\ actions'[id].ev = actions[id].ev
    /\ actions'[id].sub = actions[id].sub /\ actions'[id].attempt = actions[id].attempt
    /\ actions'[id].sched = actions[id].sched
    /\ actions'[id].status = "absent" <=> actions[id].status = "absent"
    /\ actions'[id].status \in Live => actions[id].status \in Live
    /\ actions[id].status \notin Live => actions'[id].exec = actions[id].exec

Born(a, id) ==
    /\ job[a].pc = "decide" /\ job'[a].pc # "decide"
    /\ actions[id].status = "absent" /\ actions'[id].status # "absent"
    /\ actions'[id].type = Choice(a).type
    /\ actions'[id].ev = job[a].ev /\ actions'[id].sub = job[a].sub
    /\ actions'[id].attempt = job[a].n + 1
    /\ \/ /\ actions'[id].type = "retry_charge" /\ actions'[id].status = "scheduled"
          /\ actions'[id].sched = job[a].now + Choice(a).delay
       \/ /\ actions'[id].type # "retry_charge" \/ actions'[id].status = "skipped"
          /\ actions'[id].sched = None
    /\ a \in Workers => /\ actions'[job[a].act].status = "failed"
                        /\ actions'[job[a].act].exec = job[a].now
    /\ actions'[id].type = "retry_charge" => \A e \in Events : e = job[a].ev => Handled(e)'
    /\ \A y \in ActionIds \ {id} : SameRow(y)

RowsMove ==
    \/ \A id \in ActionIds : SameRow(id)
    \/ \E a \in Actors, id \in ActionIds : Born(a, id)

GoesOn(a) ==
    /\ AtWork(a) /\ AtWork(a)'
    /\ job'[a].ev = job[a].ev /\ job'[a].sub = job[a].sub
    /\ job'[a].now = job[a].now /\ job'[a].queue = job[a].queue
    /\ job'[a].pc \in RetryPC => job[a].pc \in RetryPC /\ job'[a].act = job[a].act
    /\ job'[a].pc \in LinkPC =>
          /\ job'[a].act \in ActionIds
          /\ \/ job[a].pc \in LinkPC /\ job'[a].act = job[a].act
             \/ actions'[job'[a].act].type # "retry_charge"
    /\ job'[a].pc = "decide" =>
          UNCHANGED actions /\ job'[a].n = Cardinality(RetryRows(job[a].sub))

TakesRetry(w) ==
    /\ w \in Workers /\ job'[w].pc = "fetch"
    /\ job'[w].act \in job[w].queue /\ job'[w].queue \subseteq job[w].queue
    /\ job'[w].ev = actions[job'[w].act].ev /\ job'[w].sub = actions[job'[w].act].sub
    /\ job'[w].now = job[w].now

TakesEvent(r) ==
    /\ r \in Runners /\ job'[r].pc = "history"
    /\ job'[r].ev \in Events /\ events[job'[r].ev].state = "pending"
    /\ job'[r].sub = events[job'[r].ev].body.sub

Pauses(a) ==
    /\ job'[a].pc \in {"idle", "handed", "claim", "next"}
    /\ \/ job'[a].queue = {}
       \/ job'[a].queue \subseteq job[a].queue /\ job'[a].now = job[a].now
       \/ job'[a].queue \subseteq Due /\ job'[a].now = clock

JobMove(a) ==
    job'[a] = job[a] \/ Pauses(a) \/ GoesOn(a) \/ TakesRetry(a) \/ TakesEvent(a)

LadderMove == RowsMove /\ \A a \in Actors : JobMove(a)

-----------------------------------------------------------------------------
(* The steps make these moves.                                             *)

LEMMA OneJobMoves ==
    ASSUME NEW a \in Actors, \A b \in Actors \ {a} : job'[b] = job[b], JobMove(a)
    PROVE  \A b \in Actors : JobMove(b)
  BY DEF JobMove

LEMMA FinishPauses ==
    ASSUME TypeInv, NEW a \in Actors, Finish(a)
    PROVE  job'[a].pc # "decide" /\ \A b \in Actors : JobMove(b)
  <1>1. /\ job \in [Actors -> Job] /\ job[a] \in Job
        /\ \A b \in Actors \ {a} : job'[b] = job[b]
        /\ job'[a].pc \in {"idle", "next"} /\ job'[a].queue = job[a].queue
    BY TypeParts, FinishJob DEF JobsTyped
  <1>2. job[a].queue # {} => job'[a].now = job[a].now
    BY <1>1 DEF Finish, Set, IdleJob
  <1> QED
    BY <1>1, <1>2, OneJobMoves DEF JobMove, Pauses

LEMMA SettleMoves ==
    ASSUME TypeInv, Ownership, NEW a \in Actors, AtHand(a) = {job[a].act},
           NEW status \in {"planned", "executed", "failed"}, NEW exec \in Time,
           NEW entries, entries \subseteq AuditAction, NEW response \in {None, "answer"},
           actions' = Settle(a, status, exec, entries, response)
    PROVE  RowsMove
  <1>1. status \in ActionStatus
    BY DEF ActionStatus
  <1>2. /\ actions'[job[a].act].status = status
        /\ \A id \in ActionIds \ {job[a].act} : actions'[id] = actions[id]
        /\ SameSubject(actions')
    BY <1>1, SettleSteps
  <1>3. actions[job[a].act].status = "executing"
    <2>1. job[a].act \in Owned(a) /\ job[a].pc # "claim"
      BY DEF Owned, AtHand
    <2> QED
      BY <2>1 DEF Ownership, OwnedExecuting
  <1>4. \A id \in ActionIds : SameRow(id)
    BY <1>2, <1>3 DEF SameRow, SameSubject, Live
  <1> QED
    BY <1>4 DEF RowsMove

LEMMA InsertMoves ==
    ASSUME TypeInv, Ownership, NEW a \in Actors, job[a].pc = "decide", NEW id \in ActionIds,
           NEW status \in ActionStatus, NEW sched \in Time, NEW exec \in Time,
           NEW entries, entries \subseteq AuditAction,
           Insert(a, id, NewRow(a, status, sched, exec, entries)),
           job'[a].pc # "decide",
           \/ /\ Choice(a).type = "retry_charge" /\ status = "scheduled"
              /\ sched = job[a].now + Choice(a).delay
           \/ /\ Choice(a).type # "retry_charge" \/ status = "skipped"
              /\ sched = None,
           Choice(a).type = "retry_charge" => \A e \in Events : e = job[a].ev => Handled(e)'
    PROVE  RowsMove
  <1>1. /\ RowsTyped /\ RowsExist /\ JobsTyped
        /\ job[a] \in Job /\ (a \in Workers => job[a].act \in ActionIds)
    BY TypeParts DEF JobsTyped
  <1>2. /\ "failed" \in ActionStatus /\ {"recovery.retry.failed"} \subseteq AuditAction
        /\ job[a].now \in Time /\ status # "absent"
    BY <1>1 DEF ActionStatus, AuditAction, Job, Time
  <1>3. /\ SameSubject(Settled(a)) /\ DOMAIN Settled(a) = ActionIds
        /\ a \in Workers => /\ Settled(a)[job[a].act].status = "failed"
                            /\ Settled(a)[job[a].act].exec = job[a].now
        /\ \A y \in ActionIds : a \notin Workers \/ y # job[a].act => Settled(a)[y] = actions[y]
    <2>1. CASE a \in Workers
      BY <1>1, <1>2, <2>1, SettleRow DEF Settled
    <2>2. CASE a \notin Workers
      BY <1>1, <2>2 DEF Settled, RowsTyped, SameSubject
    <2> QED
      BY <2>1, <2>2
  <1>4. a \in Workers => actions[job[a].act].status = "executing"
    BY DEF Ownership, OwnedExecuting, Owned, AtHand
  <1>5. /\ actions[id].status = "absent"
        /\ actions'[id] = NewRow(a, status, sched, exec, entries)
        /\ \A y \in ActionIds \ {id} : actions'[y] = Settled(a)[y]
    BY <1>3 DEF Insert, Fresh
  <1>6. \A y \in ActionIds \ {id} : SameRow(y)
    BY <1>3, <1>4, <1>5 DEF SameRow, SameSubject, Live
  <1>7. a \in Workers => /\ actions'[job[a].act].status = "failed"
                         /\ actions'[job[a].act].exec = job[a].now
    BY <1>1, <1>3, <1>4, <1>5
  <1>8. /\ actions'[id].status = status /\ actions'[id].type = Choice(a).type
        /\ actions'[id].ev = job[a].ev /\ actions'[id].sub = job[a].sub
        /\ actions'[id].attempt = job[a].n + 1 /\ actions'[id].sched = sched
    BY <1>5 DEF NewRow
  <1>9. Born(a, id)
    BY <1>2, <1>5, <1>6, <1>7, <1>8 DEF Born
  <1> QED
    BY <1>9 DEF RowsMove

LEMMA LadderMoves ==
    ASSUME EpisodeInv, NEW a \in Actors, LadderStep(a)
    PROVE  LadderMove
  <1>1. /\ TypeInv /\ Ownership /\ JobsTyped /\ job[a] \in Job
        /\ None \in Time /\ job[a].now \in Time
        /\ job[a].n \in Nat /\ job[a].cat \in DiagnosisCategory
    BY TypeParts DEF EpisodeInv, JobsTyped, Job, Time
  <1>2. /\ {"planned", "executed", "failed", "skipped", "scheduled", "executing"}
              \subseteq ActionStatus
        /\ {} \subseteq AuditAction
        /\ {"razorpay.payment_link.created"} \subseteq AuditAction
        /\ {"razorpay.payment_link.failed"} \subseteq AuditAction
        /\ {"razorpay.payment_link.requested"} \subseteq AuditAction
        /\ {"recovery.retry.scheduled"} \subseteq AuditAction
        /\ \A type \in DOMAIN TerminalOutcome : {TerminalEntry[type]} \subseteq AuditAction
    BY DEF ActionStatus, AuditAction, TerminalOutcome, TerminalEntry
  <1>3. ASSUME UNCHANGED actions PROVE RowsMove
    BY <1>3 DEF RowsMove, SameRow
  <1>4. ASSUME Finish(a) PROVE job'[a].pc # "decide" /\ \A b \in Actors : JobMove(b)
    BY <1>1, <1>4, FinishPauses
  <1>5. CASE ReadHistory(a)
    <2>1. PICK last : Set(a, [job[a] EXCEPT !.pc = "decide",
                                  !.n = Cardinality(RetryRows(job[a].sub)), !.last = last])
      BY <1>5 DEF ReadHistory
    <2>2. job[a].pc = "history" /\ UNCHANGED actions
      BY <1>5 DEF ReadHistory, tables
    <2>3. /\ job'[a].pc = "decide" /\ job'[a].n = Cardinality(RetryRows(job[a].sub))
          /\ job'[a].ev = job[a].ev /\ job'[a].sub = job[a].sub /\ job'[a].now = job[a].now
          /\ job'[a].queue = job[a].queue /\ job'[a].act = job[a].act
          /\ \A b \in Actors \ {a} : job'[b] = job[b]
      BY <1>1, <2>1 DEF Set, JobsTyped, Job
    <2>4. GoesOn(a)
      BY <2>2, <2>3 DEF GoesOn, AtWork, RetryPC, LinkPC
    <2> QED
      BY <1>3, <2>2, <2>3, <2>4, OneJobMoves DEF LadderMove, JobMove
  <1>6. CASE LinkCreated(a) \/ LinkError(a)
    <2>1. PICK pc \in {"linked", "linkerror"} : Set(a, [job[a] EXCEPT !.pc = pc])
      BY <1>6 DEF LinkCreated, LinkError
    <2>2. job[a].pc = "link" /\ UNCHANGED actions
      BY <1>6 DEF LinkCreated, LinkError, tables
    <2>3. /\ job'[a].pc = pc /\ job'[a].act = job[a].act /\ job[a].act \in ActionIds
          /\ job'[a].ev = job[a].ev /\ job'[a].sub = job[a].sub /\ job'[a].now = job[a].now
          /\ job'[a].queue = job[a].queue
          /\ \A b \in Actors \ {a} : job'[b] = job[b]
      BY <1>1, <2>1, <2>2 DEF Set, JobsTyped, Job
    <2>4. GoesOn(a)
      BY <2>2, <2>3 DEF GoesOn, AtWork, RetryPC, LinkPC
    <2> QED
      BY <1>3, <2>2, <2>3, <2>4, OneJobMoves DEF LadderMove, JobMove
  <1>7. ASSUME NEW status \in ActionStatus, NEW exec \in Time,
               NEW entries, entries \subseteq AuditAction, NEW id \in ActionIds,
               job[a].pc = "decide", job'[a].pc # "decide",
               Insert(a, id, NewRow(a, status, None, exec, entries)),
               Choice(a).type # "retry_charge" \/ status = "skipped",
               Choice(a).type = "retry_charge" => \A e \in Events : e = job[a].ev => Handled(e)'
        PROVE  RowsMove
    BY <1>1, <1>7, InsertMoves
  <1>8. ASSUME EndDecision(a), job[a].pc = "decide"
        PROVE  \A e \in Events : e = job[a].ev => Handled(e)'
    BY <1>8, DecidedHandled DEF EndDecision, RetryPC
  <1>9. CASE Skip(a)
    <2>1. PICK id \in ActionIds : Insert(a, id, NewRow(a, "skipped", None, None, {}))
      BY <1>9 DEF Skip
    <2>2. job[a].pc = "decide" /\ EndDecision(a) /\ Finish(a)
      BY <1>9 DEF Skip, EndDecision
    <2> QED
      BY <1>1, <1>2, <1>4, <1>7, <1>8, <2>1, <2>2 DEF LadderMove
  <1>10. CASE LinkWithoutAmount(a)
    <2>1. PICK id \in ActionIds :
            Insert(a, id, NewRow(a, "failed", None, None, {"razorpay.payment_link.failed"}))
      BY <1>10 DEF LinkWithoutAmount
    <2>2. /\ job[a].pc = "decide" /\ Finish(a)
          /\ Choice(a).type # "retry_charge"
      BY <1>10 DEF LinkWithoutAmount, EndDecision, Proposes
    <2> QED
      BY <1>1, <1>2, <1>4, <1>7, <2>1, <2>2 DEF LadderMove
  <1>11. CASE RequestLink(a)
    <2>1. PICK id \in ActionIds :
            /\ Insert(a, id, NewRow(a, "executing", None, None,
                                 {"razorpay.payment_link.requested"}))
            /\ Set(a, [job[a] EXCEPT !.pc = "link", !.act = id, !.dirty = FALSE])
      BY <1>11 DEF RequestLink
    <2>2. job[a].pc = "decide" /\ Choice(a).type # "retry_charge"
      BY <1>11 DEF RequestLink, Proposes
    <2>3. /\ job'[a].pc = "link" /\ job'[a].act = id
          /\ job'[a].ev = job[a].ev /\ job'[a].sub = job[a].sub /\ job'[a].now = job[a].now
          /\ job'[a].queue = job[a].queue
          /\ \A b \in Actors \ {a} : job'[b] = job[b]
      BY <1>1, <2>1 DEF Set, JobsTyped, Job
    <2>4. RowsMove
      BY <1>1, <1>2, <1>7, <2>1, <2>2, <2>3
    <2>5. actions'[id].type # "retry_charge"
      <3> DEFINE entries == {"razorpay.payment_link.requested"}
      <3>1. /\ "executing" \in ActionStatus /\ entries \subseteq AuditAction
            /\ Insert(a, id, NewRow(a, "executing", None, None, entries))
        BY <1>2, <2>1
      <3> HIDE DEF entries
      <3>2. actions'[id] = NewRow(a, "executing", None, None, entries)
        BY <1>1, <2>2, <3>1, InsertSteps
      <3> QED
        BY <2>2, <3>2 DEF NewRow
    <2>6. GoesOn(a)
      BY <2>2, <2>3, <2>5 DEF GoesOn, AtWork, RetryPC, LinkPC
    <2> QED
      BY <2>3, <2>4, <2>6, OneJobMoves DEF LadderMove, JobMove
  <1>12. CASE ScheduleRetry(a)
    <2>1. PICK id \in ActionIds :
            Insert(a, id, NewRow(a, "scheduled", job[a].now + Choice(a).delay, None,
                                 {"recovery.retry.scheduled"}))
      BY <1>12 DEF ScheduleRetry
    <2>2. job[a].now + Choice(a).delay \in Time
      BY <1>1, DecideType DEF Choice, Job, Time
    <2>3. /\ job[a].pc = "decide" /\ EndDecision(a) /\ Finish(a)
          /\ Choice(a).type = "retry_charge"
      BY <1>12 DEF ScheduleRetry, Proposes, EndDecision
    <2>4. RowsMove
      <3>1. "scheduled" \in ActionStatus /\ {"recovery.retry.scheduled"} \subseteq AuditAction
        BY <1>2
      <3> QED
        BY <1>1, <1>4, <1>8, <2>1, <2>2, <2>3, <3>1, InsertMoves
    <2> QED
      BY <1>4, <2>3, <2>4 DEF LadderMove
  <1>13. CASE Conclude(a)
    <2>1. PICK type \in DOMAIN TerminalOutcome, id \in ActionIds :
            /\ Proposes(a, type) /\ EndDecision(a)
            /\ Insert(a, id, NewRow(a, "executed", None, job[a].now, {TerminalEntry[type]}))
      BY <1>13 DEF Conclude
    <2>2. /\ job[a].pc = "decide" /\ Finish(a)
          /\ Choice(a).type # "retry_charge"
      BY <2>1 DEF Proposes, EndDecision, TerminalOutcome
    <2> QED
      BY <1>1, <1>2, <1>4, <1>7, <2>1, <2>2 DEF LadderMove
  <1>14. CASE DeferLink(a) \/ RecordLink(a) \/ RecordLinkError(a)
    <2>1. job[a].pc \in {"link", "linked", "linkerror"} /\ Finish(a)
      BY <1>14 DEF DeferLink, RecordLink, RecordLinkError, EndLink
    <2>2. AtHand(a) = {job[a].act}
      BY <2>1 DEF AtHand
    <2>3. PICK status \in {"planned", "executed", "failed"}, exec \in Time,
               entries \in SUBSET AuditAction, response \in {None, "answer"} :
            actions' = Settle(a, status, exec, entries, response)
      BY <1>1, <1>2, <1>14 DEF DeferLink, RecordLink, RecordLinkError, EndLink
    <2>4. RowsMove
      BY <1>1, <2>2, <2>3, SettleMoves
    <2> QED
      BY <1>4, <2>1, <2>4 DEF LadderMove
  <1> QED
    BY <1>5, <1>6, <1>9, <1>10, <1>11, <1>12, <1>13, <1>14 DEF LadderStep

LEMMA WorkerMoves ==
    ASSUME EpisodeInv, NEW w \in Workers, WorkerStep(w)
    PROVE  LadderMove
  <1>1. /\ w \in Actors /\ TypeInv /\ Ownership /\ JobsTyped /\ RowsTyped
        /\ job[w] \in Job /\ None \in Time /\ job[w].now \in Time
        /\ job[w].queue \subseteq ActionIds
    BY TypeParts DEF EpisodeInv, Actors, JobsTyped, Job, Time
  <1>2. CASE LadderStep(w)
    BY <1>1, <1>2, LadderMoves
  <1>3. ASSUME UNCHANGED actions PROVE RowsMove
    BY <1>3 DEF RowsMove, SameRow
  <1>4. CASE ClaimSelect(w)
    <2>1. PICK B \in SUBSET (Due \ LockedRows) :
            Set(w, [IdleJob EXCEPT !.pc = "claim", !.now = clock, !.queue = B])
      BY <1>4 DEF ClaimSelect
    <2>2. /\ job'[w].pc = "claim" /\ job'[w].queue \subseteq Due /\ job'[w].now = clock
          /\ \A b \in Actors \ {w} : job'[b] = job[b]
      BY <1>1, <2>1 DEF Set, IdleJob, JobsTyped
    <2>3. UNCHANGED actions
      BY <1>4 DEF ClaimSelect, tables
    <2> QED
      BY <1>1, <1>3, <2>2, <2>3, OneJobMoves DEF LadderMove, JobMove, Pauses
  <1>5. CASE ClaimCommit(w)
    <2>1. /\ job'[w].pc = "next" /\ job'[w].queue = job[w].queue /\ job'[w].now = job[w].now
          /\ \A b \in Actors \ {w} : job'[b] = job[b]
      BY <1>1, <1>5 DEF ClaimCommit, Set, JobsTyped, Job
    <2>2. \A id \in ActionIds : id \in job[w].queue =>
             actions'[id] = [actions[id] EXCEPT !.status = "executing"]
      BY <1>5 DEF ClaimCommit
    <2>3. \A id \in ActionIds : id \notin job[w].queue => actions'[id] = actions[id]
      BY <1>5 DEF ClaimCommit
    <2>4. \A id \in job[w].queue : actions[id].status = "scheduled"
      BY <1>1, <1>5 DEF Ownership, OwnedExecuting, Owned, ClaimCommit
    <2>5. \A id \in ActionIds : actions[id] \in ActionRow
      BY <1>1 DEF RowsTyped
    <2>6. ASSUME NEW id \in ActionIds PROVE SameRow(id)
      <3>1. CASE id \in job[w].queue
        <4> DEFINE row == actions[id]
        <4>1. row \in ActionRow /\ row.status = "scheduled"
              /\ actions'[id] = [row EXCEPT !.status = "executing"]
          BY <2>2, <2>4, <2>5, <3>1
        <4> HIDE DEF row
        <4>2. /\ actions'[id].type = row.type /\ actions'[id].ev = row.ev
              /\ actions'[id].sub = row.sub /\ actions'[id].attempt = row.attempt
              /\ actions'[id].sched = row.sched /\ actions'[id].status = "executing"
          BY <4>1 DEF ActionRow
        <4> QED
          BY <4>1, <4>2 DEF SameRow, Live, row
      <3>2. CASE id \notin job[w].queue
        BY <2>3, <3>2 DEF SameRow
      <3> QED
        BY <3>1, <3>2
    <2> QED
      BY <1>1, <2>1, <2>6, OneJobMoves DEF LadderMove, RowsMove, JobMove, Pauses
  <1>6. CASE StartRetry(w)
    <2>1. PICK id, cat, status :
            /\ id \in job[w].queue
            /\ actions' = [actions EXCEPT ![id].aud = @ \cup {"recovery.retry.attempted"}]
            /\ Set(w, [IdleJob EXCEPT !.pc = "fetch", !.act = id, !.ev = actions[id].ev,
                                      !.sub = actions[id].sub, !.cat = cat, !.status = status,
                                      !.now = job[w].now, !.queue = job[w].queue \ {id}])
      BY <1>6 DEF StartRetry
    <2>2. /\ job'[w].act = id /\ job'[w].ev = actions[id].ev /\ job'[w].sub = actions[id].sub
          /\ job'[w].pc = "fetch" /\ job'[w].now = job[w].now
          /\ job'[w].queue \subseteq job[w].queue
          /\ \A b \in Actors \ {w} : job'[b] = job[b]
      BY <1>1, <2>1 DEF IdleJob, Set, JobsTyped
    <2>3. \A y \in ActionIds : SameRow(y)
      BY <1>1, <2>1 DEF RowsTyped, ActionRow, SameRow
    <2> QED
      BY <1>1, <2>1, <2>2, <2>3, OneJobMoves DEF LadderMove, RowsMove, JobMove, TakesRetry
  <1>7. CASE Fetch(w) \/ Relapse(w)
    <2>1. /\ job[w].pc \in RetryPC /\ job'[w].pc \in RetryPC \ {"decide"}
          /\ job'[w].act = job[w].act /\ job'[w].ev = job[w].ev /\ job'[w].sub = job[w].sub
          /\ job'[w].now = job[w].now /\ job'[w].queue = job[w].queue
          /\ \A b \in Actors \ {w} : job'[b] = job[b]
      <3>1. CASE Fetch(w)
        <4>1. PICK status, dirty :
                Set(w, [job[w] EXCEPT !.pc = "fetched", !.status = status, !.dirty = dirty])
          BY <3>1 DEF Fetch
        <4> QED
          BY <1>1, <3>1, <4>1 DEF Fetch, Call, Set, JobsTyped, Job, RetryPC
      <3>2. CASE Relapse(w)
        BY <1>1, <3>2 DEF Relapse, MayFlush, Set, JobsTyped, Job, RetryPC
      <3> QED
        BY <1>7, <3>1, <3>2
    <2>2. UNCHANGED actions
      BY <1>7 DEF Fetch, Relapse, tables
    <2>3. GoesOn(w)
      BY <2>1 DEF GoesOn, AtWork, RetryPC, LinkPC
    <2> QED
      BY <1>1, <1>3, <2>1, <2>2, <2>3, OneJobMoves DEF LadderMove, JobMove
  <1>8. CASE DeferRetry(w) \/ FetchError(w) \/ Recover(w)
    <2>1. job[w].pc \in {"fetch", "fetched"} /\ Finish(w)
      BY <1>8 DEF DeferRetry, FetchError, Recover, MayFlush, Call, EndRetry
    <2>2. AtHand(w) = {job[w].act}
      BY <2>1 DEF AtHand
    <2>3. PICK status \in {"planned", "executed", "failed"}, exec \in Time,
               entries \in SUBSET AuditAction, response \in {None, "answer"} :
            actions' = Settle(w, status, exec, entries, response)
      <3>1. /\ {"recovery.retry.failed"} \subseteq AuditAction
            /\ {"recovery.retry.recovered"} \subseteq AuditAction
        BY DEF AuditAction
      <3> QED
        BY <1>1, <1>8, <3>1 DEF DeferRetry, FetchError, Recover, EndRetry
    <2>4. RowsMove
      BY <1>1, <2>2, <2>3, SettleMoves
    <2> QED
      BY <1>1, <2>1, <2>4, FinishPauses DEF LadderMove
  <1> QED
    BY <1>2, <1>4, <1>5, <1>6, <1>7, <1>8 DEF WorkerStep

LEMMA RunnerMoves ==
    ASSUME EpisodeInv, NEW r \in Runners, RunnerStep(r)
    PROVE  LadderMove
  <1>1. r \in Actors /\ JobsTyped /\ RestTyped
    BY TypeParts DEF Actors, EpisodeInv
  <1>2. ASSUME UNCHANGED actions PROVE RowsMove
    BY <1>2 DEF RowsMove, SameRow
  <1>3. ASSUME Begins(r), Pauses(r) \/ TakesEvent(r) PROVE LadderMove
    <2>1. UNCHANGED actions /\ \A b \in Actors \ {r} : job'[b] = job[b]
      BY <1>3 DEF Begins
    <2> QED
      BY <1>1, <1>2, <1>3, <2>1, OneJobMoves DEF LadderMove, JobMove
  <1>4. ASSUME NEW e \in Events, HandOver(r, e) PROVE LadderMove
    <2>1. Begins(r) /\ job'[r].pc = "handed"
      BY <1>1, <1>4, HandOverBegins
    <2> QED
      BY <1>3, <2>1 DEF Begins, Pauses
  <1>5. CASE SkipRun(r)
    <2>1. Begins(r) /\ job'[r] = IdleJob
      BY <1>1, <1>5, SkipRunBegins
    <2> QED
      BY <1>3, <2>1 DEF Pauses, IdleJob
  <1>6. CASE StartRun(r)
    <2>1. /\ Begins(r) /\ job[r].pc = "handed" /\ job[r].ev \in Events
          /\ job'[r].pc = "history" /\ job'[r].ev = job[r].ev
          /\ job'[r].sub = events[job[r].ev].body.sub
      BY <1>1, <1>6, StartRunBegins
    <2>2. TakesEvent(r)
      BY <2>1 DEF TakesEvent, EpisodeInv, Exclusive
    <2> QED
      BY <1>3, <2>1, <2>2
  <1>7. CASE LadderStep(r)
    BY <1>1, <1>7, LadderMoves
  <1> QED
    BY <1>4, <1>5, <1>6, <1>7 DEF RunnerStep

LEMMA EnvironmentMoves ==
    ASSUME EpisodeInv,
           \/ \E e \in Events : Ingest(e)
           \/ Tick
           \/ \E s \in Subs : LiveChange(s)
           \/ WireClient
           \/ \E a \in Actors : Abort(a)
           \/ UNCHANGED vars
    PROVE  LadderMove
  <1>1. JobsTyped
    BY TypeParts DEF EpisodeInv
  <1>2. UNCHANGED actions
    BY DEF Ingest, Tick, LiveChange, WireClient, Abort, vars, tables
  <1>3. RowsMove
    BY <1>2 DEF RowsMove, SameRow
  <1>4. CASE UNCHANGED job
    BY <1>3, <1>4 DEF LadderMove, JobMove
  <1>5. ASSUME NEW a \in Actors, Abort(a) PROVE LadderMove
    <2>1. /\ job'[a].pc = "idle" /\ job'[a].queue = {}
          /\ \A b \in Actors \ {a} : job'[b] = job[b]
      BY <1>1, <1>5 DEF Abort, Set, JobsTyped, IdleJob
    <2> QED
      BY <1>3, <2>1, OneJobMoves DEF LadderMove, JobMove, Pauses
  <1> QED
    BY <1>4, <1>5 DEF Ingest, Tick, LiveChange, WireClient, vars, tables

LEMMA MovesNext ==
    ASSUME EpisodeInv, [Next]_vars
    PROVE  LadderMove
  BY RunnerMoves, WorkerMoves, EnvironmentMoves DEF Next, RunnerNext, WorkerNext

-----------------------------------------------------------------------------
(* What the invariant says of a row that exists, and of who decides.       *)

LEMMA Existing ==
    ASSUME LadderInv, NEW e \in Events
    PROVE  /\ \A id \in RetriesOf(e) :
                 /\ id \in ActionIds /\ actions[id].status # "absent"
                 /\ actions[id].sub = events[e].body.sub /\ actions[id].sub \in Subs
                 /\ id \in RetryRows(actions[id].sub)
                 /\ actions[id].attempt \in Nat \ {0} /\ Handled(e)
           /\ LiveOf(e) \subseteq RetriesOf(e)
           /\ \A x, y \in LiveOf(e) : x = y
           /\ \A y \in LiveOf(e) : actions[y].sched \in Nat
           /\ IsFiniteSet(RetriesOf(e)) /\ Cardinality(RetriesOf(e)) \in Nat
  <1>1. RowsTyped
    BY TypeParts DEF LadderInv, EpisodeInv
  <1>2. \A id \in ActionIds : actions[id].attempt \in Nat /\ actions[id].sched \in Time
    BY <1>1 DEF RowsTyped, ActionRow
  <1>3. LiveOf(e) \subseteq RetriesOf(e) /\ RetriesOf(e) \subseteq ActionIds
    BY DEF LiveOf, RetriesOf
  <1>4. ASSUME NEW id \in RetriesOf(e)
        PROVE  /\ id \in ActionIds /\ actions[id].status # "absent"
               /\ actions[id].sub = events[e].body.sub /\ actions[id].sub \in Subs
               /\ id \in RetryRows(actions[id].sub)
               /\ actions[id].attempt \in Nat \ {0} /\ Handled(e)
    <2>1. id \in ActionIds /\ actions[id].ev = e /\ actions[id].type = "retry_charge"
      BY DEF RetriesOf
    <2>2. actions[id].status # "absent"
      BY <2>1, Constants DEF LadderInv, RowsInOrder
    <2> QED
      BY <1>1, <1>2, <2>1, <2>2 DEF LadderInv, SubjectsAgree, RowsInOrder, RowsTyped, RetryRows
  <1>5. \A y \in LiveOf(e) : actions[y].sched \in Nat
    BY <1>2, <1>3 DEF LadderInv, RowsInOrder, Time
  <1>6. IsFiniteSet(RetriesOf(e)) /\ Cardinality(RetriesOf(e)) \in Nat
    BY <1>3, Constants, FS_Subset, FS_CardinalityType
  <1> QED
    BY <1>3, <1>4, <1>5, <1>6 DEF LadderInv, EpisodeInv, Episodes

(* Two sessions that work towards a decision do so for different events.   *)
LEMMA Alone ==
    ASSUME EpisodeInv, NEW a \in Actors, NEW b \in Actors, job[a].pc \in RetryPC,
           job[b].pc \in RetryPC, job[a].ev = job[b].ev
    PROVE  a = b
  <1>1. /\ job[a].ev \in Events /\ Entitled(a) /\ Entitled(b)
        /\ \A w \in Workers : job[w].pc \in RetryPC => job[w].act \in ActionIds
    BY TypeParts, EntitledTo DEF EpisodeInv, JobsTyped, RetryPC, Actors
  <1>2. ASSUME NEW w \in Workers, job[w].pc \in RetryPC, job[w].ev = job[a].ev
        PROVE  job[w].act \in LiveOf(job[a].ev) /\ job[w].act \in Owned(w)
    <2>1. job[w].act \in Owned(w) /\ w \in Actors
      BY <1>2 DEF Owned, AtHand, RetryPC, Actors
    <2>2. actions[job[w].act].status = "executing"
      BY <1>2, <2>1 DEF EpisodeInv, Ownership, OwnedExecuting, RetryPC
    <2> QED
      BY <1>1, <1>2, <2>1, <2>2 DEF EpisodeInv, WorkersRetry, LiveOf
  <1>3. CASE a \in Workers \/ b \in Workers
    <2>1. a \in Workers /\ b \in Workers /\ job[a].act = job[b].act
      BY <1>1, <1>2, <1>3 DEF Entitled
    <2> QED
      BY <1>2, <2>1 DEF EpisodeInv, Ownership, OwnedApart
  <1>4. CASE a \in Runners /\ b \in Runners
    BY <1>4 DEF EpisodeInv, Exclusive, RetryPC
  <1> QED
    BY <1>3, <1>4 DEF Actors

(* From the second retry on the policy's delay covers the cooldown.        *)
LEMMA DelayCools ==
    ASSUME NEW cat \in DiagnosisCategory, NEW n \in Nat \ {0},
           Decide(cat, n).type = "retry_charge"
    PROVE  Decide(cat, n).delay >= Cooldown
  <1>1. ASSUME NEW t \in Seq(Nat), Len(t) >= 2, \A i \in 2 .. Len(t) : t[i] >= Cooldown
        PROVE  Backoff(t, n) >= Cooldown
    BY <1>1 DEF Backoff
  <1>2. Backoff(FundsBackoff, n) >= Cooldown /\ Backoff(GatewayBackoff, n) >= Cooldown
    BY <1>1, ConfigAssumption, BackoffAssumption
  <1>3. cat \in Retryable /\ Decide(cat, n).delay = Backoff(Schedule[cat], n)
    BY DEF Decide, Fallback, DiagnosisCategory
  <1>4. Schedule[cat] = FundsBackoff \/ Schedule[cat] = GatewayBackoff
    BY <1>3 DEF Retryable, Schedule
  <1> QED
    BY <1>2, <1>3, <1>4

LEMMA ExistingStay ==
    ASSUME RowsMove, NEW id \in ActionIds, actions[id].status # "absent"
    PROVE  SameRow(id)
  BY DEF RowsMove, Born

LEMMA EventStays ==
    ASSUME EventsMove, NEW e \in Events, events[e].state # "absent"
    PROVE  events'[e].state # "absent" /\ events'[e].body = events[e].body
  BY DEF EventsMove, EventMove, EndState

(* The rows a session holds exist.                                         *)
LEMMA HeldExist ==
    ASSUME EpisodeInv, NEW a \in Actors
    PROVE  /\ \A id \in job[a].queue : id \in ActionIds /\ actions[id].status # "absent"
           /\ job[a].pc \in LinkPC \/ (a \in Workers /\ job[a].pc \in RetryPC) =>
                 job[a].act \in ActionIds /\ actions[job[a].act].status # "absent"
  <1>1. Owned(a) \subseteq ActionIds
    BY OwnedRows DEF EpisodeInv
  <1>2. \A id \in Owned(a) : actions[id].status # "absent"
    BY DEF EpisodeInv, Ownership, OwnedExecuting
  <1> QED
    BY <1>1, <1>2 DEF Owned, AtHand, LinkPC, RetryPC

-----------------------------------------------------------------------------
(* Each part of the invariant is kept.                                     *)

LEMMA SubjectsKept ==
    ASSUME LadderInv, LadderMove, EventsMove
    PROVE  SubjectsAgree'
  <1>1. RowsTyped /\ JobsTyped /\ EpisodeInv /\ RowsMove
    BY TypeParts DEF LadderInv, EpisodeInv, LadderMove
  <1>2. ASSUME NEW id \in ActionIds, actions'[id].status # "absent"
        PROVE  /\ events'[actions'[id].ev].state # "absent"
               /\ actions'[id].sub = events'[actions'[id].ev].body.sub
    <2>1. CASE actions[id].status # "absent"
      <3>1. /\ actions[id].ev \in Events /\ events[actions[id].ev].state # "absent"
            /\ actions[id].sub = events[actions[id].ev].body.sub
        BY <1>1, <2>1 DEF RowsTyped, LadderInv, SubjectsAgree
      <3> QED
        BY <1>1, <2>1, <3>1, ExistingStay, EventStays DEF SameRow
    <2>2. CASE actions[id].status = "absent"
      <3>1. PICK a \in Actors : Born(a, id)
        BY <1>1, <1>2, <2>2 DEF RowsMove, Born, SameRow
      <3>2. AtWork(a) /\ job[a].ev \in Events
        BY <1>1, <3>1 DEF Born, AtWork, RetryPC, JobsTyped
      <3> QED
        BY <3>1, <3>2, EventStays DEF Born, LadderInv, SubjectsAgree
    <2> QED
      BY <2>1, <2>2
  <1>3. ASSUME NEW a \in Actors, AtWork(a)'
        PROVE  /\ events'[job'[a].ev].state # "absent"
               /\ job'[a].sub = events'[job'[a].ev].body.sub
    <2>1. /\ job'[a].ev \in Events /\ events[job'[a].ev].state # "absent"
          /\ job'[a].sub = events[job'[a].ev].body.sub
      <3>1. CASE job'[a] = job[a] \/ GoesOn(a)
        <4>1. AtWork(a) /\ job'[a].ev = job[a].ev /\ job'[a].sub = job[a].sub
          BY <1>3, <3>1 DEF GoesOn, AtWork
        <4>2. job[a].ev \in Events
          BY <1>1, <4>1 DEF JobsTyped, AtWork, RetryPC, LinkPC
        <4> QED
          BY <4>1, <4>2 DEF LadderInv, SubjectsAgree
      <3>2. CASE TakesRetry(a)
        BY <1>1, <3>2, HeldExist DEF TakesRetry, RowsTyped, LadderInv, SubjectsAgree
      <3>3. CASE TakesEvent(a)
        BY <3>3 DEF TakesEvent
      <3> QED
        BY <1>3, <3>1, <3>2, <3>3
        DEF LadderMove, JobMove, Pauses, AtWork, RetryPC, LinkPC
    <2> QED
      BY <2>1, EventStays
  <1> QED
    BY <1>2, <1>3 DEF SubjectsAgree

(* The retries of an event after a step, by what becomes of the rows.      *)
LEMMA RetriesMove ==
    ASSUME LadderInv, LadderMove, NEW e \in Events, NEW id \in RetriesOf(e)'
    PROVE  \/ /\ id \in RetriesOf(e) /\ SameRow(id)
              /\ id \in LiveOf(e)' => id \in LiveOf(e)
           \/ \E a \in Actors : Born(a, id) /\ job[a].ev = e
  <1>1. id \in ActionIds /\ RowsMove
    BY DEF RetriesOf, LadderMove
  <1>2. CASE SameRow(id)
    BY <1>1, <1>2 DEF SameRow, RetriesOf, LiveOf, Live
  <1>3. CASE \E a \in Actors : Born(a, id)
    BY <1>3 DEF Born, RetriesOf
  <1> QED
    BY <1>1, <1>2, <1>3 DEF RowsMove, Born

LEMMA RowsInOrderKept ==
    ASSUME LadderInv, LadderMove, EventsMove
    PROVE  RowsInOrder'
  <1>1. EpisodeInv /\ RowsMove /\ JobsTyped
    BY TypeParts DEF LadderInv, LadderMove, EpisodeInv
  <1>2. \A a \in Actors : job[a].n \in Nat /\ job[a].now \in Nat
                          /\ job[a].cat \in DiagnosisCategory
    BY <1>1 DEF JobsTyped, Job
  <1>3. ASSUME NEW id \in ActionIds, actions'[id].status = "absent"
        PROVE  actions'[id].ev = None /\ actions'[id].sub = None
    <2>1. SameRow(id)
      BY <1>1, <1>3 DEF RowsMove, Born
    <2> QED
      BY <1>3, <2>1 DEF SameRow, LadderInv, RowsInOrder
  <1>4. ASSUME NEW e \in Events, NEW id \in RetriesOf(e)'
        PROVE  Handled(e)' /\ actions'[id].attempt > 0
    <2>1. CASE id \in RetriesOf(e) /\ SameRow(id)
      <3>1. Handled(e) /\ actions[id].attempt > 0
        BY <2>1, Existing
      <3>2. Handled(e)'
        BY <3>1 DEF Handled, EventsMove, EventMove, EndState
      <3> QED
        BY <2>1, <3>1, <3>2 DEF SameRow
    <2>2. ASSUME NEW a \in Actors, Born(a, id), job[a].ev = e
          PROVE  Handled(e)' /\ actions'[id].attempt > 0
      BY <1>2, <1>4, <2>2 DEF Born, RetriesOf
    <2> QED
      BY <2>1, <2>2, RetriesMove
  <1>5. ASSUME NEW e \in Events, NEW id \in LiveOf(e)'
        PROVE  actions'[id].sched # None
    <2>1. id \in RetriesOf(e)'
      BY DEF LiveOf, RetriesOf
    <2>2. CASE id \in LiveOf(e) /\ SameRow(id)
      BY <2>2, Existing, Constants DEF SameRow
    <2>3. ASSUME NEW a \in Actors, Born(a, id) PROVE actions'[id].sched # None
      <3>1. actions'[id].type = "retry_charge" /\ actions'[id].status \in Live
        BY DEF LiveOf, Live
      <3>2. actions'[id].sched = job[a].now + Choice(a).delay
        BY <2>3, <3>1 DEF Born, Live
      <3>3. Choice(a).delay \in Nat
        BY <1>2, DecideType DEF Choice
      <3> QED
        BY <1>2, <3>2, <3>3, Constants
    <2> QED
      BY <2>1, <2>2, <2>3, RetriesMove
  <1> QED
    BY <1>3, <1>4, <1>5 DEF RowsInOrder

LEMMA LinkRowsKept ==
    ASSUME LadderInv, LadderMove
    PROVE  LinkRows'
  <1> SUFFICES ASSUME NEW a \in Actors, job'[a].pc \in LinkPC
               PROVE  actions'[job'[a].act].type # "retry_charge"
    BY DEF LinkRows
  <1>1. EpisodeInv /\ RowsMove /\ JobMove(a)
    BY DEF LadderInv, LadderMove
  <1>2. CASE job[a].pc \in LinkPC /\ job'[a].act = job[a].act
    <2>1. job[a].act \in ActionIds /\ actions[job[a].act].status # "absent"
      BY <1>1, <1>2, HeldExist
    <2> QED
      BY <1>1, <1>2, <2>1, ExistingStay DEF LadderInv, LinkRows, SameRow
  <1> QED
    BY <1>1, <1>2 DEF JobMove, Pauses, GoesOn, TakesRetry, TakesEvent, LinkPC

LEMMA ClaimedKept ==
    ASSUME LadderInv, LadderMove
    PROVE  ClaimedWhenDue'
  <1> SUFFICES ASSUME NEW w \in Workers
               PROVE  /\ \A id \in job'[w].queue : actions'[id].sched <= job'[w].now
                      /\ job'[w].pc \in RetryPC => actions'[job'[w].act].sched <= job'[w].now
    BY DEF ClaimedWhenDue
  <1>1. w \in Actors /\ EpisodeInv /\ RowsMove
    BY DEF LadderInv, LadderMove, Actors
  <1>2. /\ \A id \in job[w].queue : actions'[id].sched = actions[id].sched
        /\ job[w].pc \in RetryPC => actions'[job[w].act].sched = actions[job[w].act].sched
        /\ \A id \in Due : actions'[id].sched = actions[id].sched
    BY <1>1, HeldExist, ExistingStay DEF SameRow, Due
  <1>3. /\ \A id \in job[w].queue : actions[id].sched <= job[w].now
        /\ job[w].pc \in RetryPC => actions[job[w].act].sched <= job[w].now
        /\ \A id \in Due : actions[id].sched <= clock
    BY DEF LadderInv, ClaimedWhenDue, Due
  <1>4. w \notin Runners
    BY ExecutorAssumption
  <1>5. CASE job'[w] = job[w] \/ GoesOn(w)
    BY <1>2, <1>3, <1>5 DEF GoesOn
  <1>6. CASE Pauses(w)
    BY <1>2, <1>3, <1>6 DEF Pauses, RetryPC
  <1>7. CASE TakesRetry(w)
    BY <1>2, <1>3, <1>7 DEF TakesRetry
  <1> QED
    BY <1>1, <1>4, <1>5, <1>6, <1>7 DEF LadderMove, JobMove, TakesEvent

(* The retries of a subscription, and their count, only grow.              *)
LEMMA RetryRowsGrow ==
    ASSUME LadderInv, LadderMove, NEW s \in Subs
    PROVE  /\ IsFiniteSet(RetryRows(s)) /\ Cardinality(RetryRows(s)) \in Nat
           /\ Cardinality(RetryRows(s)) <= Cardinality(RetryRows(s))'
           /\ Cardinality(RetryRows(s))' \in Nat
           /\ \A id \in RetryRows(s)' :
                 \/ id \in RetryRows(s) /\ SameRow(id)
                 \/ /\ \E a \in Actors : Born(a, id) /\ job[a].sub = s
                    /\ Cardinality(RetryRows(s))' = Cardinality(RetryRows(s)) + 1
  <1>1. /\ IsFiniteSet(RetryRows(s)) /\ Cardinality(RetryRows(s)) \in Nat
        /\ IsFiniteSet(RetryRows(s)') /\ Cardinality(RetryRows(s)') \in Nat
    <2>1. RetryRows(s)' \subseteq ActionIds
      BY DEF RetryRows
    <2> QED
      BY <2>1, RetryRowsFinite, Constants, FS_Subset, FS_CardinalityType
  <1>2. \A id \in RetryRows(s) : id \in ActionIds /\ actions[id].status # "absent"
    BY Constants DEF RetryRows, LadderInv, RowsInOrder
  <1>3. RowsMove
    BY DEF LadderMove
  <1>4. \A id \in RetryRows(s) : id \in RetryRows(s)'
    <2> SUFFICES ASSUME NEW id \in RetryRows(s) PROVE id \in RetryRows(s)'
      OBVIOUS
    <2>1. SameRow(id)
      BY <1>2, <1>3, ExistingStay
    <2> QED
      BY <1>2, <2>1 DEF SameRow, RetryRows
  <1>5. Cardinality(RetryRows(s)) <= Cardinality(RetryRows(s)')
    BY <1>1, <1>4, FS_Subset
  <1>6. ASSUME NEW id \in RetryRows(s)'
        PROVE  \/ id \in RetryRows(s) /\ SameRow(id)
               \/ /\ \E a \in Actors : Born(a, id) /\ job[a].sub = s
                  /\ Cardinality(RetryRows(s)') = Cardinality(RetryRows(s)) + 1
    <2>1. id \in ActionIds /\ actions'[id].type = "retry_charge" /\ actions'[id].sub = s
      BY DEF RetryRows
    <2>2. CASE SameRow(id)
      BY <2>1, <2>2 DEF SameRow, RetryRows
    <2>3. ASSUME NEW a \in Actors, Born(a, id)
          PROVE  /\ job[a].sub = s
                 /\ Cardinality(RetryRows(s)') = Cardinality(RetryRows(s)) + 1
      <3>1. id \notin RetryRows(s)
        BY <1>2, <2>3 DEF Born
      <3>2. \A y \in RetryRows(s)' : y = id \/ y \in RetryRows(s)
        BY <2>3 DEF Born, SameRow, RetryRows
      <3>3. RetryRows(s)' = RetryRows(s) \cup {id}
        BY <1>4, <3>2
      <3>4. Cardinality(RetryRows(s)') = Cardinality(RetryRows(s)) + 1
        BY <1>1, <3>1, <3>3, FS_AddElement
      <3> QED
        BY <2>1, <2>3, <3>4 DEF Born
    <2> QED
      BY <1>3, <2>1, <2>2, <2>3 DEF RowsMove, Born
  <1> QED
    BY <1>1, <1>5, <1>6

LEMMA NumberedKept ==
    ASSUME LadderInv, LadderMove
    PROVE  Numbered'
  <1> SUFFICES ASSUME NEW s \in Subs, NEW id \in RetryRows(s)'
               PROVE  actions'[id].attempt <= Cardinality(RetryRows(s))'
    BY DEF Numbered
  <1>1. RowsTyped /\ JobsTyped
    BY TypeParts DEF LadderInv, EpisodeInv
  <1>2. CASE id \in RetryRows(s) /\ SameRow(id)
    <2>1. actions[id].attempt <= Cardinality(RetryRows(s)) /\ actions[id].attempt \in Nat
      BY <1>1, <1>2 DEF LadderInv, Numbered, RetryRows, RowsTyped, ActionRow
    <2> QED
      BY <1>2, <2>1, RetryRowsGrow DEF SameRow
  <1>3. ASSUME NEW a \in Actors, Born(a, id), job[a].sub = s,
               Cardinality(RetryRows(s))' = Cardinality(RetryRows(s)) + 1
        PROVE  actions'[id].attempt <= Cardinality(RetryRows(s))'
    <2>1. job[a].n <= Cardinality(RetryRows(s)) /\ job[a].n \in Nat
      BY <1>1, <1>3 DEF LadderInv, Counted, Born, JobsTyped, Job
    <2> QED
      BY <1>3, <2>1, RetryRowsGrow DEF Born
  <1> QED
    BY <1>2, <1>3, RetryRowsGrow

LEMMA CountedKept ==
    ASSUME LadderInv, LadderMove, JobsTyped'
    PROVE  Counted'
  <1> SUFFICES ASSUME NEW a \in Actors, job'[a].pc = "decide", NEW s \in Subs,
                      NEW e \in Events, s = job'[a].sub, e = job'[a].ev
               PROVE  /\ job'[a].n <= Cardinality(RetryRows(s)')
                      /\ \A id \in RetriesOf(e)' : actions'[id].attempt <= job'[a].n
                      /\ Cardinality(RetriesOf(e)') <= job'[a].n
    BY DEF Counted, JobsTyped, RetryRows, RetriesOf
  <1>1. EpisodeInv /\ JobsTyped /\ RowsMove
    BY TypeParts DEF LadderInv, EpisodeInv, LadderMove
  <1>2. CASE GoesOn(a)
    <2>1. s = job[a].sub /\ e = job[a].ev
      BY <1>2 DEF GoesOn
    <2>2. UNCHANGED actions /\ job'[a].n = Cardinality(RetryRows(s))
      BY <1>2, <2>1 DEF GoesOn
    <2>3. RetryRows(s)' = RetryRows(s) /\ RetriesOf(e)' = RetriesOf(e)
      BY <2>2 DEF RetryRows, RetriesOf
    <2>4. events[e].body.sub = s
      BY <1>2, <2>1 DEF GoesOn, LadderInv, SubjectsAgree
    <2>5. RetriesOf(e) \subseteq RetryRows(s)
      BY <2>4, Existing
    <2>6. Cardinality(RetriesOf(e)) <= Cardinality(RetryRows(s))
      BY <2>5, RetryRowsFinite, FS_Subset
    <2>7. \A id \in RetriesOf(e) : actions[id].attempt <= Cardinality(RetryRows(s))
      BY <2>5 DEF LadderInv, Numbered
    <2>8. Cardinality(RetryRows(s)) \in Nat
      BY RetryRowsFinite
    <2> QED
      BY <2>2, <2>3, <2>6, <2>7, <2>8
  <1>3. CASE job'[a] = job[a]
    <2>1. s = job[a].sub /\ e = job[a].ev
      BY <1>3
    <2>2. /\ job[a].n <= Cardinality(RetryRows(s)) /\ job[a].n \in Nat
          /\ \A id \in RetriesOf(e) : actions[id].attempt <= job[a].n
          /\ Cardinality(RetriesOf(e)) <= job[a].n
      BY <1>1, <1>3, <2>1 DEF LadderInv, Counted, JobsTyped, Job
    <2>3. \A id \in RetriesOf(e)' : id \in RetriesOf(e) /\ SameRow(id)
      <3> SUFFICES ASSUME NEW b \in Actors, NEW id, Born(b, id), job[b].ev = e
                   PROVE  FALSE
        BY RetriesMove
      <3>1. a = b
        BY <1>1, <1>3, <2>1, Alone DEF Born, RetryPC
      <3> QED
        BY <1>3, <3>1 DEF Born
    <2>4. Cardinality(RetriesOf(e)') <= Cardinality(RetriesOf(e))
          /\ Cardinality(RetriesOf(e)') \in Nat /\ Cardinality(RetriesOf(e)) \in Nat
      <3>1. RetriesOf(e)' \subseteq RetriesOf(e)
        BY <2>3
      <3> QED
        BY <3>1, Existing, FS_Subset, FS_CardinalityType
    <2>5. \A id \in RetriesOf(e)' : actions'[id].attempt <= job[a].n
      BY <2>2, <2>3 DEF SameRow
    <2>6. job[a].n <= Cardinality(RetryRows(s)')
      BY <2>2, RetryRowsGrow
    <2> QED
      BY <1>3, <2>1, <2>2, <2>4, <2>5, <2>6
  <1> QED
    BY <1>2, <1>3 DEF LadderMove, JobMove, Pauses, TakesRetry, TakesEvent

LEMMA LiveIsLastKept ==
    ASSUME LadderInv, LadderMove
    PROVE  LiveIsLast'
  <1> SUFFICES ASSUME NEW e \in Events, NEW y \in LiveOf(e)', NEW x \in RetriesOf(e)' \ {y}
               PROVE  /\ actions'[x].attempt < actions'[y].attempt
                      /\ actions'[x].exec # None
                      /\ actions'[y].sched >= actions'[x].exec + Cooldown
    BY DEF LiveIsLast
  <1>1. EpisodeInv /\ JobsTyped /\ RowsTyped
    BY TypeParts DEF LadderInv, EpisodeInv
  <1>2. y \in RetriesOf(e)' /\ y \in ActionIds /\ x \in ActionIds
    BY DEF LiveOf, RetriesOf
  <1>3. ASSUME NEW z \in LiveOf(e), x \in RetriesOf(e) \ {z}, SameRow(x)
        PROVE  /\ actions[x].attempt < actions[z].attempt
               /\ actions'[x].exec = actions[x].exec /\ actions[x].exec \in Nat
               /\ actions[z].sched >= actions[x].exec + Cooldown
               /\ actions[z].sched \in Nat
    <2>1. x \notin LiveOf(e)
      BY <1>3, Existing
    <2>2. actions[x].status \notin Live
      BY <1>3, <2>1 DEF RetriesOf, LiveOf, Live
    <2>3. actions[x].exec \in Time
      BY <1>1, <1>2 DEF RowsTyped, ActionRow
    <2> QED
      BY <1>3, <2>2, <2>3, Existing DEF SameRow, LadderInv, LiveIsLast, Time
  <1>4. CASE y \in LiveOf(e) /\ SameRow(y) /\ x \in RetriesOf(e) /\ SameRow(x)
    BY <1>3, <1>4, Constants DEF SameRow
  <1>5. ASSUME NEW a \in Actors, Born(a, x), job[a].ev = e PROVE FALSE
    <2>1. y \in LiveOf(e)
      BY <1>2, <1>5, RetriesMove DEF Born, SameRow
    <2>2. Entitled(a)
      BY <1>1, <1>5, EntitledTo DEF Born, RetryPC
    <2>3. actions'[y].status = "failed"
      BY <1>5, <2>1, <2>2 DEF Entitled, Born
    <2> QED
      BY <2>3 DEF LiveOf
  <1>6. ASSUME NEW a \in Actors, Born(a, y), job[a].ev = e
        PROVE  /\ actions'[x].attempt < actions'[y].attempt
               /\ actions'[x].exec # None
               /\ actions'[y].sched >= actions'[x].exec + Cooldown
    <2>1. x \in RetriesOf(e) /\ SameRow(x)
      BY <1>2, <1>6, RetriesMove DEF Born, SameRow
    <2>2. /\ job[a].n \in Nat /\ job[a].now \in Nat /\ job[a].cat \in DiagnosisCategory
          /\ actions[x].attempt \in Nat \ {0} /\ actions[x].attempt <= job[a].n
          /\ actions'[x].attempt = actions[x].attempt
      BY <1>1, <1>6, <2>1, Existing DEF Born, JobsTyped, Job, LadderInv, Counted, SameRow
    <2>3. actions'[y].attempt = job[a].n + 1
      BY <1>6 DEF Born
    <2>4. /\ Choice(a).type = "retry_charge"
          /\ actions'[y].sched = job[a].now + Choice(a).delay
      BY <1>6 DEF Born, LiveOf
    <2>5. Choice(a).delay >= Cooldown /\ Choice(a).delay \in Nat /\ Cooldown \in Nat
      BY <2>2, <2>4, DelayCools, DecideType, Constants DEF Choice
    <2>6. a \in Workers
      <3>1. Handled(e)
        BY <2>1, Existing
      <3> QED
        BY <1>1, <1>6, <3>1 DEF Born, EpisodeInv, Exclusive, Handled, Actors
    <2>7. CASE x = job[a].act
      <3>1. actions'[x].exec = job[a].now
        BY <1>6, <2>6, <2>7 DEF Born
      <3> QED
        BY <2>2, <2>3, <2>4, <2>5, <3>1, Constants
    <2>8. CASE x # job[a].act
      <3>1. job[a].act \in LiveOf(e)
        <4>1. /\ job[a].act \in ActionIds /\ actions[job[a].act].type = "retry_charge"
              /\ actions[job[a].act].ev = e
          BY <1>1, <1>6, <2>6, HeldExist DEF Born, EpisodeInv, WorkersRetry, RetryPC
        <4>2. actions[job[a].act].status = "executing"
          BY <1>1, <1>6, <2>6
          DEF Born, EpisodeInv, Ownership, OwnedExecuting, Owned, AtHand
        <4> QED
          BY <4>1, <4>2 DEF LiveOf
      <3>2. /\ actions'[x].exec = actions[x].exec /\ actions[x].exec \in Nat
            /\ actions[job[a].act].sched >= actions[x].exec + Cooldown
            /\ actions[job[a].act].sched \in Nat
        BY <1>3, <2>1, <2>8, <3>1
      <3>3. actions[job[a].act].sched <= job[a].now
        BY <1>6, <2>6 DEF Born, LadderInv, ClaimedWhenDue, RetryPC
      <3> QED
        BY <2>2, <2>3, <2>4, <2>5, <3>2, <3>3, Constants
    <2> QED
      BY <2>7, <2>8
  <1>7. \/ y \in LiveOf(e) /\ SameRow(y)
        \/ \E a \in Actors : Born(a, y) /\ job[a].ev = e
    BY <1>2, RetriesMove
  <1>8. \/ x \in RetriesOf(e) /\ SameRow(x)
        \/ \E a \in Actors : Born(a, x) /\ job[a].ev = e
    BY RetriesMove
  <1> QED
    BY <1>4, <1>5, <1>6, <1>7, <1>8

LEMMA SpacingKept ==
    ASSUME LadderInv, LadderMove, LiveIsLast', RowsTyped'
    PROVE  LadderSpacing'
  <1> SUFFICES ASSUME NEW s \in Subs, NEW x \in RetryRows(s)', NEW y \in RetryRows(s)',
                      actions'[x].ev = actions'[y].ev,
                      actions'[x].attempt < actions'[y].attempt,
                      actions'[y].sched # None
               PROVE  /\ actions'[x].exec # None
                      /\ actions'[y].sched >= actions'[x].exec + Cooldown
    BY DEF LadderSpacing
  <1>1. EpisodeInv /\ RowsTyped /\ JobsTyped /\ RowsMove
    BY TypeParts DEF LadderInv, EpisodeInv, LadderMove
  <1>2. /\ x \in ActionIds /\ actions'[x].type = "retry_charge"
        /\ y \in ActionIds /\ actions'[y].type = "retry_charge"
    BY DEF RetryRows
  <1>3. PICK e \in Events : e = actions'[x].ev
    <2>1. actions'[x].status # "absent"
      <3>1. CASE x \in RetryRows(s) /\ SameRow(x)
        BY <3>1, Constants DEF RetryRows, LadderInv, RowsInOrder, SameRow
      <3>2. CASE \E a \in Actors : Born(a, x)
        BY <3>2 DEF Born
      <3> QED
        BY <3>1, <3>2, RetryRowsGrow
    <2> QED
      BY <1>2, <2>1 DEF RowsTyped
  <1>4. x \in RetriesOf(e)' /\ y \in RetriesOf(e)' /\ x # y
        /\ actions'[x].attempt \in Nat /\ actions'[y].attempt \in Nat
    BY <1>2, <1>3 DEF RetriesOf, RowsTyped, ActionRow
  <1>5. CASE x \in RetriesOf(e) /\ SameRow(x) /\ y \in RetriesOf(e) /\ SameRow(y)
    <2>1. x \notin LiveOf(e)
      <3> SUFFICES ASSUME x \in LiveOf(e) PROVE FALSE
        OBVIOUS
      <3>1. actions[y].attempt < actions[x].attempt
        BY <1>4, <1>5 DEF LadderInv, LiveIsLast
      <3> QED
        BY <1>4, <1>5, <3>1 DEF SameRow
    <2>2. actions'[x].exec = actions[x].exec
      BY <1>5, <2>1 DEF RetriesOf, LiveOf, Live, SameRow
    <2>3. x \in RetryRows(s) /\ y \in RetryRows(s)
      BY <1>2, <1>5 DEF RetryRows, SameRow
    <2> QED
      BY <1>5, <2>2, <2>3 DEF LadderInv, LadderSpacing, SameRow
  <1>6. ASSUME NEW a \in Actors, Born(a, x), job[a].ev = e PROVE FALSE
    <2>1. y \in RetriesOf(e) /\ SameRow(y)
      <3>1. SameRow(y)
        BY <1>2, <1>4, <1>6 DEF Born
      <3> QED
        BY <1>2, <1>4, <3>1 DEF RetriesOf, SameRow
    <2>2. actions[y].attempt <= job[a].n /\ job[a].n \in Nat /\ actions[y].attempt \in Nat
      BY <1>1, <1>6, <2>1, Existing DEF Born, LadderInv, Counted, JobsTyped, Job
    <2>3. actions'[x].attempt = job[a].n + 1 /\ actions'[y].attempt = actions[y].attempt
      BY <1>6, <2>1 DEF Born, SameRow
    <2> QED
      BY <2>2, <2>3
  <1>7. CASE \E a \in Actors : Born(a, y)
    <2>1. y \in LiveOf(e)'
      BY <1>2, <1>4, <1>7 DEF Born, LiveOf, RetriesOf
    <2> QED
      BY <1>4, <2>1 DEF LiveIsLast
  <1> QED
    BY <1>4, <1>5, <1>6, <1>7, RetriesMove

LEMMA LadderInit == Init => LadderInv
  <1> SUFFICES ASSUME Init PROVE LadderInv
    OBVIOUS
  <1>1. /\ \A a \in Actors : job[a].pc = "idle" /\ job[a].queue = {}
        /\ \A id \in ActionIds : /\ actions[id].status = "absent"
                                 /\ actions[id].ev = None /\ actions[id].sub = None
    BY DEF Init, IdleJob, AbsentRow
  <1>2. SubjectsAgree
    BY <1>1 DEF SubjectsAgree, AtWork, RetryPC, LinkPC
  <1>3. /\ \A e \in Events : RetriesOf(e) = {} /\ LiveOf(e) = {}
        /\ \A s \in Subs : RetryRows(s) = {}
    BY <1>1, Constants DEF RetriesOf, LiveOf, RetryRows
  <1>4. RowsInOrder /\ LiveIsLast /\ Numbered /\ LadderSpacing
    BY <1>1, <1>3 DEF RowsInOrder, LiveIsLast, Numbered, LadderSpacing
  <1>5. LinkRows /\ ClaimedWhenDue /\ Counted
    BY <1>1 DEF LinkRows, ClaimedWhenDue, Counted, LinkPC, RetryPC, Actors
  <1> QED
    BY <1>2, <1>4, <1>5, EpisodeInit DEF LadderInv

LEMMA LadderInvStep ==
    ASSUME ExclusiveHandOver, LadderInv, [Next]_vars
    PROVE  LadderInv'
  <1>1. EpisodeInv' /\ LadderMove
    BY EpisodeStep, MovesNext DEF LadderInv
  <1>2. EventsMove
    BY HandlingNext DEF LadderInv, EpisodeInv, HandlingMove
  <1>3. RowsTyped' /\ JobsTyped'
    BY <1>1, TypeParts, PTL DEF EpisodeInv
  <1>4. LiveIsLast' /\ LadderSpacing'
    BY <1>1, <1>3, LiveIsLastKept, SpacingKept
  <1>5. SubjectsAgree' /\ RowsInOrder' /\ LinkRows'
    BY <1>1, <1>2, SubjectsKept, RowsInOrderKept, LinkRowsKept
  <1>6. ClaimedWhenDue' /\ Numbered' /\ Counted'
    BY <1>1, <1>3, ClaimedKept, NumberedKept, CountedKept
  <1> QED
    BY <1>1, <1>4, <1>5, <1>6 DEF LadderInv

LEMMA LadderInvHolds ==
    ASSUME ExclusiveHandOver
    PROVE  Spec => []LadderInv
  <1>1. LadderInv /\ [Next]_vars => LadderInv'
    BY LadderInvStep
  <1> QED
    BY <1>1, LadderInit, PTL DEF Spec

(* The retries of one failed payment are spaced by the schedule alone      *)
(* (retry_scheduler.py 266-273): if the caller hands each event to one     *)
(* session at a time, a follow-up is always due a cooldown or more after   *)
(* the attempt it follows, and never exists before that attempt has run.   *)
THEOREM LadderSpaced ==
    ASSUME ExclusiveHandOver
    PROVE  Spec => []LadderSpacing
  <1>1. LadderInv => LadderSpacing
    BY DEF LadderInv
  <1> QED
    BY <1>1, LadderInvHolds, PTL
-----------------------------------------------------------------------------
(***************************************************************************)
(* RecoverySystem implements EpisodeLifecycle: what each step of a session *)
(* is for the one event it works for, and that it is nothing for others.   *)
(***************************************************************************)

phases == [e \in Events |-> EpisodePhase(e)]
counts == [e \in Events |-> Cardinality(Retries(e))]
verdicts == [e \in Events |-> EpisodeVerdict(e)]
episodes == <<phases, counts, verdicts>>

SameCount(e) == Cardinality(Retries(e))' = Cardinality(Retries(e))
SameVerdict(e) == EpisodeVerdict(e)' = EpisodeVerdict(e)
Unmoved(e) == EpisodePhase(e)' = EpisodePhase(e) /\ SameCount(e) /\ SameVerdict(e)
OnlyMoves(e) == \A f \in Events \ {e} : Unmoved(f)

-----------------------------------------------------------------------------
(* What makes an abstract step.                                            *)

LEMMA NothingMoves ==
    ASSUME \A e \in Events : Unmoved(e)
    PROVE  UNCHANGED episodes
  BY DEF Unmoved, SameCount, SameVerdict, episodes, phases, counts, verdicts

LEMMA Opened ==
    ASSUME NEW e \in Events, EpisodePhase(e) = "unknown", EpisodePhase(e)' = "new",
           SameCount(e), SameVerdict(e), OnlyMoves(e)
    PROVE  Episode!Next
  <1>1. /\ phases' = [phases EXCEPT ![e] = "new"] /\ phases[e] = "unknown"
        /\ counts' = counts /\ verdicts' = verdicts
    BY DEF OnlyMoves, Unmoved, SameCount, SameVerdict, phases, counts, verdicts
  <1>2. Episode!Open(e)
    BY <1>1 DEF Episode!Open, phases, counts, verdicts
  <1> QED
    BY <1>2 DEF Episode!Next

LEMMA Waited ==
    ASSUME NEW e \in Events, EpisodePhase(e) \in {"new", "trying"},
           EpisodePhase(e)' = "waiting", Cardinality(Retries(e)) < MaxRetries,
           Cardinality(Retries(e))' = Cardinality(Retries(e)) + 1,
           SameVerdict(e), OnlyMoves(e)
    PROVE  Episode!Next
  <1>1. /\ phases' = [phases EXCEPT ![e] = "waiting"] /\ phases[e] \in {"new", "trying"}
        /\ counts' = [counts EXCEPT ![e] = @ + 1] /\ counts[e] < MaxRetries
        /\ verdicts' = verdicts
    BY DEF OnlyMoves, Unmoved, SameCount, SameVerdict, phases, counts, verdicts
  <1>2. Episode!Wait(e)
    BY <1>1 DEF Episode!Wait, phases, counts, verdicts
  <1> QED
    BY <1>2 DEF Episode!Next

LEMMA Ended ==
    ASSUME NEW e \in Events, EpisodePhase(e) \in {"new", "trying"},
           EpisodePhase(e)' = "over", SameCount(e),
           SameVerdict(e) \/ \E v \in OutcomeStatus : EpisodeVerdict(e)' = {v},
           OnlyMoves(e)
    PROVE  Episode!Next
  <1>1. /\ phases' = [phases EXCEPT ![e] = "over"] /\ phases[e] \in {"new", "trying"}
        /\ counts' = counts
    BY DEF OnlyMoves, Unmoved, SameCount, phases, counts
  <1>2. verdicts' = verdicts \/ \E v \in OutcomeStatus : verdicts' = [verdicts EXCEPT ![e] = {v}]
    BY DEF OnlyMoves, Unmoved, SameVerdict, verdicts
  <1>3. Episode!End(e)
    BY <1>1, <1>2 DEF Episode!End, phases, counts, verdicts
  <1> QED
    BY <1>3 DEF Episode!Next

LEMMA Tried ==
    ASSUME \A e \in Events : /\ SameCount(e) /\ SameVerdict(e)
                             /\ \/ EpisodePhase(e)' = EpisodePhase(e)
                                \/ EpisodePhase(e) = "waiting" /\ EpisodePhase(e)' = "trying"
    PROVE  Episode!Next
  <1> DEFINE S == {e \in Events : EpisodePhase(e) = "waiting" /\ EpisodePhase(e)' = "trying"}
  <1>1. /\ phases' = [e \in Events |-> IF e \in S THEN "trying" ELSE phases[e]]
        /\ \A e \in S : phases[e] = "waiting"
        /\ counts' = counts /\ verdicts' = verdicts
    BY DEF SameCount, SameVerdict, phases, counts, verdicts
  <1>2. S \in SUBSET Events
    OBVIOUS
  <1> HIDE DEF S
  <1>3. Episode!Try(S)
    BY <1>1 DEF Episode!Try, phases, counts, verdicts
  <1> QED
    BY <1>2, <1>3 DEF Episode!Next

-----------------------------------------------------------------------------
(* How the tables show an episode.                                         *)

LEMMA VerdictMoves ==
    ASSUME TypeInv, NEW e \in Events
    PROVE  /\ outcomes' = outcomes => SameVerdict(e)
           /\ \A o \in OutcomeRow : outcomes' = Append(outcomes, o) =>
                 IF o.ev = e THEN ~Concluded(e) => EpisodeVerdict(e)' = {o.kind}
                 ELSE SameVerdict(e)
           /\ ~Concluded(e) => EpisodeVerdict(e) = {}
  <1>1. outcomes \in Seq(OutcomeRow)
    BY TypeParts DEF RestTyped
  <1>2. outcomes' = outcomes => SameVerdict(e)
    BY DEF SameVerdict, EpisodeVerdict
  <1>3. ~Concluded(e) => EpisodeVerdict(e) = {}
    BY DEF EpisodeVerdict, Concluded
  <1>4. ASSUME NEW o \in OutcomeRow, outcomes' = Append(outcomes, o)
        PROVE  IF o.ev = e THEN ~Concluded(e) => EpisodeVerdict(e)' = {o.kind}
               ELSE SameVerdict(e)
    <2>1. /\ Len(outcomes') = Len(outcomes) + 1 /\ Len(outcomes) \in Nat
          /\ \A i \in 1 .. Len(outcomes) : outcomes'[i] = outcomes[i]
          /\ outcomes'[Len(outcomes) + 1] = o
      BY <1>1, <1>4
    <2>2. 1 .. Len(outcomes') = (1 .. Len(outcomes)) \cup {Len(outcomes) + 1}
      BY <2>1
    <2>3. CASE o.ev # e
      <3>1. {j \in 1 .. Len(outcomes') : outcomes'[j].ev = e}
              = {j \in 1 .. Len(outcomes) : outcomes[j].ev = e}
        BY <2>1, <2>2, <2>3
      <3>2. \A j \in {j \in 1 .. Len(outcomes) : outcomes[j].ev = e} :
               outcomes'[j].kind = outcomes[j].kind
        BY <2>1
      <3> QED
        BY <2>3, <3>1, <3>2 DEF SameVerdict, EpisodeVerdict
    <2>4. CASE o.ev = e /\ ~Concluded(e)
      <3>1. {j \in 1 .. Len(outcomes') : outcomes'[j].ev = e} = {Len(outcomes) + 1}
        BY <2>1, <2>2, <2>4 DEF Concluded
      <3> QED
        BY <2>1, <2>4, <3>1 DEF EpisodeVerdict
    <2> QED
      BY <2>3, <2>4
  <1> QED
    BY <1>2, <1>3, <1>4

(* The phase of a handled event is the status of its one live retry.       *)
LEMMA PhaseOf ==
    ASSUME LadderInv, NEW e \in Events
    PROVE  /\ EpisodePhase(e) = "unknown" <=> events[e].state = "absent"
           /\ EpisodePhase(e) = "new" <=> events[e].state = "pending"
           /\ EpisodePhase(e) = "over" <=> Handled(e) /\ LiveOf(e) = {}
           /\ \A id \in LiveOf(e) : EpisodePhase(e)
                 = IF actions[id].status = "scheduled" THEN "waiting" ELSE "trying"
           /\ LiveOf(e) \subseteq Retries(e)
  <1>1. LiveOf(e) \subseteq Retries(e)
    BY Constants DEF LadderInv, RowsInOrder, LiveOf, Retries
  <1>2. \A id \in Retries(e) : actions[id].status \in Live <=> id \in LiveOf(e)
    BY DEF Retries, LiveOf, Live
  <1>3. /\ \A x, y \in LiveOf(e) : x = y
        /\ LiveOf(e) # {} => Handled(e)
    BY DEF LadderInv, EpisodeInv, Episodes
  <1>4. \A id \in LiveOf(e) :
           /\ RetryIn(e, "scheduled") <=> actions[id].status = "scheduled"
           /\ RetryIn(e, "executing") <=> actions[id].status = "executing"
           /\ actions[id].status \in {"scheduled", "executing"}
    BY <1>1, <1>2, <1>3 DEF RetryIn, LiveOf, Live
  <1>5. LiveOf(e) = {} => ~RetryIn(e, "scheduled") /\ ~RetryIn(e, "executing")
    BY <1>2 DEF RetryIn, Live
  <1> QED
    BY <1>1, <1>3, <1>4, <1>5 DEF EpisodePhase, Handled

PhasesShown == \A e \in Events :
    /\ EpisodePhase(e) = "new" <=> events[e].state = "pending"
    /\ EpisodePhase(e) = "over" <=> Handled(e) /\ LiveOf(e) = {}
    /\ \A id \in LiveOf(e) : EpisodePhase(e)
          = IF actions[id].status = "scheduled" THEN "waiting" ELSE "trying"
    /\ LiveOf(e) \subseteq Retries(e)

LEMMA PhaseOfAll == LadderInv => PhasesShown
  BY PhaseOf DEF PhasesShown

LEMMA PhaseAfter ==
    ASSUME LadderInv', NEW e \in Events
    PROVE  /\ EpisodePhase(e)' = "new" <=> events'[e].state = "pending"
           /\ EpisodePhase(e)' = "over" <=> Handled(e)' /\ LiveOf(e)' = {}
           /\ \A id \in LiveOf(e)' : EpisodePhase(e)'
                 = IF actions'[id].status = "scheduled" THEN "waiting" ELSE "trying"
           /\ LiveOf(e)' \subseteq Retries(e)'
  <1>1. PhasesShown'
    BY PhaseOfAll, PTL
  <1> QED
    BY <1>1 DEF PhasesShown

-----------------------------------------------------------------------------
(* What a step does: it only moves rows on to executing, or it works for   *)
(* the event of one session, or it hands an event in or back.              *)

StatusKept(id) == actions'[id].status = actions[id].status

Claiming ==
    /\ UNCHANGED <<events, outcomes>>
    /\ \A id \in ActionIds :
          \/ StatusKept(id)
          \/ actions[id].status = "scheduled" /\ actions'[id].status = "executing"

Working(a) ==
    /\ AtWork(a)
    /\ \A b \in Actors \ {a} : job'[b] = job[b]
    /\ \A e \in Events : e # job[a].ev \/ a \in Workers => events'[e] = events[e]
    /\ \/ outcomes' = outcomes
       \/ /\ job[a].pc \in RetryPC
          /\ \E o \in OutcomeRow : o.ev = job[a].ev /\ outcomes' = Append(outcomes, o)
    /\ \A id \in ActionIds : \/ StatusKept(id)
                             \/ actions[id].status = "absent"
                             \/ id \in AtHand(a) /\ actions'[id].status \notin Live

Handing(e) ==
    /\ UNCHANGED <<actions, outcomes>>
    /\ \A f \in Events \ {e} : events'[f] = events[f]
    /\ \/ events[e].state = "absent" /\ events'[e].state = "pending"
       \/ events[e].state = "pending" /\ events'[e].state = "failed"

LEMMA SettleWorks ==
    ASSUME TypeInv, NEW a \in Actors, AtHand(a) = {job[a].act},
           NEW status \in {"planned", "executed", "failed"}, NEW exec \in Time,
           NEW entries, entries \subseteq AuditAction, NEW response \in {None, "answer"},
           actions' = Settle(a, status, exec, entries, response)
    PROVE  \A id \in ActionIds : \/ StatusKept(id)
                                 \/ id \in AtHand(a) /\ actions'[id].status \notin Live
  <1>1. status \in ActionStatus
    BY DEF ActionStatus
  <1>2. /\ actions'[job[a].act].status = status
        /\ \A id \in ActionIds \ {job[a].act} : actions'[id] = actions[id]
    BY <1>1, SettleSteps
  <1> QED
    BY <1>2 DEF StatusKept, Live

LEMMA InsertWorks ==
    ASSUME TypeInv, Ownership, NEW a \in Actors, job[a].pc = "decide", NEW id \in ActionIds,
           NEW status \in ActionStatus, NEW sched \in Time, NEW exec \in Time,
           NEW entries, entries \subseteq AuditAction,
           Insert(a, id, NewRow(a, status, sched, exec, entries))
    PROVE  \A y \in ActionIds : \/ StatusKept(y)
                                \/ actions[y].status = "absent"
                                \/ y \in AtHand(a) /\ actions'[y].status \notin Live
  <1>1. /\ actions[id].status = "absent"
        /\ a \in Workers => actions'[job[a].act].status = "failed"
        /\ \A y \in ActionIds \ {id} :
              y # job[a].act \/ a \notin Workers => actions'[y] = actions[y]
    BY InsertSteps
  <1> QED
    BY <1>1 DEF StatusKept, Live, AtHand

LEMMA MarkWorks ==
    ASSUME TypeInv, NEW a \in Actors, MarkHandled(a)
    PROVE  \A e \in Events : e # job[a].ev \/ a \in Workers => events'[e] = events[e]
  <1>1. a \in Workers => a \notin Runners
    BY ExecutorAssumption
  <1> QED
    BY <1>1, MarkedRow, TypeParts

LEMMA LadderWorks ==
    ASSUME EpisodeInv, NEW a \in Actors, LadderStep(a)
    PROVE  Working(a)
  <1>1. /\ TypeInv /\ Ownership /\ JobsTyped /\ job[a] \in Job
        /\ None \in Time /\ job[a].now \in Time
        /\ job[a].n \in Nat /\ job[a].cat \in DiagnosisCategory
        /\ job[a].pc \notin {"idle", "claim", "next"} => job[a].ev \in Events
    BY TypeParts DEF EpisodeInv, JobsTyped, Job, Time
  <1>2. /\ {"planned", "executed", "failed", "skipped", "scheduled", "executing"}
              \subseteq ActionStatus
        /\ {} \subseteq AuditAction
        /\ {"razorpay.payment_link.created"} \subseteq AuditAction
        /\ {"razorpay.payment_link.failed"} \subseteq AuditAction
        /\ {"razorpay.payment_link.requested"} \subseteq AuditAction
        /\ {"recovery.retry.scheduled"} \subseteq AuditAction
        /\ \A type \in DOMAIN TerminalOutcome : {TerminalEntry[type]} \subseteq AuditAction
    BY DEF ActionStatus, AuditAction, TerminalOutcome, TerminalEntry
  <1>3. \A j : Set(a, j) => \A b \in Actors \ {a} : job'[b] = job[b]
    BY <1>1 DEF Set, JobsTyped
  <1>4. Finish(a) => \A b \in Actors \ {a} : job'[b] = job[b]
    BY <1>1, FinishJob DEF JobsTyped
  <1>5. CASE ReadHistory(a) \/ LinkCreated(a) \/ LinkError(a)
    <2>1. AtWork(a) /\ UNCHANGED <<events, actions, outcomes>>
      BY <1>5 DEF ReadHistory, LinkCreated, LinkError, tables, AtWork, RetryPC, LinkPC
    <2>2. \A b \in Actors \ {a} : job'[b] = job[b]
      BY <1>3, <1>5 DEF ReadHistory, LinkCreated, LinkError
    <2> QED
      BY <2>1, <2>2 DEF Working, StatusKept
  <1>6. ASSUME NEW status \in ActionStatus, NEW sched \in Time, NEW exec \in Time,
               NEW entries, entries \subseteq AuditAction, NEW id \in ActionIds,
               job[a].pc = "decide", MarkHandled(a) \/ UNCHANGED events,
               \A b \in Actors \ {a} : job'[b] = job[b],
               \/ outcomes' = outcomes
               \/ \E o \in OutcomeRow : o.ev = job[a].ev /\ outcomes' = Append(outcomes, o),
               Insert(a, id, NewRow(a, status, sched, exec, entries))
        PROVE  Working(a)
    <2>1. \A y \in ActionIds : \/ StatusKept(y)
                               \/ actions[y].status = "absent"
                               \/ y \in AtHand(a) /\ actions'[y].status \notin Live
      BY <1>1, <1>6, InsertWorks
    <2>2. \A e \in Events : e # job[a].ev \/ a \in Workers => events'[e] = events[e]
      BY <1>1, <1>6, MarkWorks
    <2> QED
      BY <1>6, <2>1, <2>2 DEF Working, AtWork, RetryPC
  <1>7. CASE Skip(a)
    <2>1. PICK id \in ActionIds : Insert(a, id, NewRow(a, "skipped", None, None, {}))
      BY <1>7 DEF Skip
    <2>2. job[a].pc = "decide" /\ MarkHandled(a) /\ Finish(a) /\ UNCHANGED outcomes
      BY <1>7 DEF Skip, EndDecision
    <2> QED
      BY <1>1, <1>2, <1>4, <1>6, <2>1, <2>2
  <1>8. CASE LinkWithoutAmount(a)
    <2>1. PICK id \in ActionIds :
            Insert(a, id, NewRow(a, "failed", None, None, {"razorpay.payment_link.failed"}))
      BY <1>8 DEF LinkWithoutAmount
    <2>2. job[a].pc = "decide" /\ MarkHandled(a) /\ Finish(a) /\ UNCHANGED outcomes
      BY <1>8 DEF LinkWithoutAmount, EndDecision, Proposes
    <2> QED
      BY <1>1, <1>2, <1>4, <1>6, <2>1, <2>2
  <1>9. CASE RequestLink(a)
    <2>1. PICK id \in ActionIds :
            /\ Insert(a, id, NewRow(a, "executing", None, None,
                                    {"razorpay.payment_link.requested"}))
            /\ Set(a, [job[a] EXCEPT !.pc = "link", !.act = id, !.dirty = FALSE])
      BY <1>9 DEF RequestLink
    <2>2. job[a].pc = "decide" /\ UNCHANGED <<events, outcomes>>
      BY <1>9 DEF RequestLink, Proposes
    <2> QED
      BY <1>1, <1>2, <1>3, <1>6, <2>1, <2>2
  <1>10. CASE ScheduleRetry(a)
    <2>1. PICK id \in ActionIds :
            Insert(a, id, NewRow(a, "scheduled", job[a].now + Choice(a).delay, None,
                                 {"recovery.retry.scheduled"}))
      BY <1>10 DEF ScheduleRetry
    <2>2. job[a].now + Choice(a).delay \in Time
      BY <1>1, DecideType DEF Choice, Job, Time
    <2>3. job[a].pc = "decide" /\ MarkHandled(a) /\ Finish(a) /\ UNCHANGED outcomes
      BY <1>10 DEF ScheduleRetry, Proposes, EndDecision
    <2> QED
      BY <1>1, <1>2, <1>4, <1>6, <2>1, <2>2, <2>3
  <1>11. CASE Conclude(a)
    <2>1. PICK type \in DOMAIN TerminalOutcome, id \in ActionIds :
            /\ Proposes(a, type) /\ EndDecision(a)
            /\ Insert(a, id, NewRow(a, "executed", None, job[a].now, {TerminalEntry[type]}))
            /\ outcomes' = Append(outcomes, [act |-> id, ev |-> job[a].ev,
                                             kind |-> TerminalOutcome[type]])
      BY <1>11 DEF Conclude
    <2>2. job[a].pc = "decide" /\ MarkHandled(a) /\ Finish(a)
      BY <2>1 DEF Proposes, EndDecision
    <2> DEFINE o == [act |-> id, ev |-> job[a].ev, kind |-> TerminalOutcome[type]]
    <2>3. o \in OutcomeRow /\ o.ev = job[a].ev /\ outcomes' = Append(outcomes, o)
      BY <1>1, <2>1, <2>2 DEF OutcomeRow, TerminalOutcome, OutcomeStatus
    <2> DEFINE entries == {TerminalEntry[type]}
    <2>4. /\ "executed" \in ActionStatus /\ entries \subseteq AuditAction
          /\ Insert(a, id, NewRow(a, "executed", None, job[a].now, entries))
      BY <1>2, <2>1
    <2> HIDE DEF o, entries
    <2> QED
      BY <1>1, <1>4, <1>6, <2>2, <2>3, <2>4
  <1>12. CASE DeferLink(a) \/ RecordLink(a) \/ RecordLinkError(a)
    <2>1. /\ job[a].pc \in LinkPC /\ UNCHANGED outcomes /\ MarkHandled(a) /\ Finish(a)
      BY <1>12 DEF DeferLink, RecordLink, RecordLinkError, EndLink, LinkPC
    <2>2. AtHand(a) = {job[a].act}
      BY <2>1 DEF AtHand, LinkPC
    <2>3. PICK status \in {"planned", "executed", "failed"}, exec \in Time,
               entries \in SUBSET AuditAction, response \in {None, "answer"} :
            actions' = Settle(a, status, exec, entries, response)
      BY <1>1, <1>2, <1>12 DEF DeferLink, RecordLink, RecordLinkError, EndLink
    <2>4. \A id \in ActionIds : \/ StatusKept(id)
                                \/ id \in AtHand(a) /\ actions'[id].status \notin Live
      BY <1>1, <2>2, <2>3, SettleWorks
    <2>5. \A e \in Events : e # job[a].ev \/ a \in Workers => events'[e] = events[e]
      BY <1>1, <2>1, MarkWorks
    <2> QED
      BY <1>4, <2>1, <2>4, <2>5 DEF Working, AtWork
  <1> QED
    BY <1>5, <1>7, <1>8, <1>9, <1>10, <1>11, <1>12 DEF LadderStep

LEMMA WorkerWorks ==
    ASSUME EpisodeInv, NEW w \in Workers, WorkerStep(w)
    PROVE  Claiming \/ Working(w)
  <1>1. /\ w \in Actors /\ TypeInv /\ Ownership /\ JobsTyped /\ RowsTyped
        /\ None \in Time /\ job[w].now \in Time
        /\ job[w].pc \notin {"idle", "claim", "next"} =>
              job[w].ev \in Events /\ job[w].act \in ActionIds
    BY TypeParts DEF EpisodeInv, Actors, JobsTyped, Job, Time
  <1>2. CASE LadderStep(w)
    BY <1>1, <1>2, LadderWorks
  <1>3. CASE ClaimSelect(w) \/ Fetch(w) \/ Relapse(w)
    <2>1. UNCHANGED <<events, actions, outcomes>>
      BY <1>3 DEF ClaimSelect, Fetch, Relapse, tables
    <2> QED
      BY <2>1 DEF Claiming, StatusKept
  <1>4. CASE ClaimCommit(w)
    <2>1. \A id \in ActionIds : actions'[id] =
            IF id \in job[w].queue THEN [actions[id] EXCEPT !.status = "executing"]
            ELSE actions[id]
      BY <1>4 DEF ClaimCommit
    <2>2. \A id \in ActionIds : IF id \in job[w].queue THEN actions'[id].status = "executing"
                                ELSE StatusKept(id)
      BY <1>1, <2>1 DEF RowsTyped, ActionRow, StatusKept
    <2>3. \A id \in job[w].queue : actions[id].status = "scheduled"
      BY <1>1, <1>4 DEF Ownership, OwnedExecuting, Owned, ClaimCommit
    <2> QED
      BY <1>4, <2>2, <2>3 DEF ClaimCommit, Claiming
  <1>5. CASE StartRetry(w)
    <2>1. PICK id : actions' = [actions EXCEPT ![id].aud = @ \cup {"recovery.retry.attempted"}]
      BY <1>5 DEF StartRetry
    <2>2. \A y \in ActionIds : StatusKept(y)
      BY <1>1, <2>1 DEF RowsTyped, ActionRow, StatusKept
    <2> QED
      BY <1>5, <2>2 DEF StartRetry, Claiming
  <1>6. CASE DeferRetry(w) \/ FetchError(w) \/ Recover(w)
    <2>1. job[w].pc \in {"fetch", "fetched"} /\ Finish(w) /\ UNCHANGED events
      BY <1>6 DEF DeferRetry, FetchError, Recover, MayFlush, Call, EndRetry
    <2>2. AtHand(w) = {job[w].act} /\ \A b \in Actors \ {w} : job'[b] = job[b]
      BY <1>1, <2>1, FinishJob DEF AtHand, JobsTyped
    <2>3. PICK status \in {"planned", "executed", "failed"}, exec \in Time,
               entries \in SUBSET AuditAction, response \in {None, "answer"} :
            actions' = Settle(w, status, exec, entries, response)
      <3>1. /\ {"recovery.retry.failed"} \subseteq AuditAction
            /\ {"recovery.retry.recovered"} \subseteq AuditAction
        BY DEF AuditAction
      <3> QED
        BY <1>1, <1>6, <3>1 DEF DeferRetry, FetchError, Recover, EndRetry
    <2>4. \A id \in ActionIds : \/ StatusKept(id)
                                \/ id \in AtHand(w) /\ actions'[id].status \notin Live
      BY <1>1, <2>2, <2>3, SettleWorks
    <2>5. \/ outcomes' = outcomes
          \/ \E o \in OutcomeRow : o.ev = job[w].ev /\ outcomes' = Append(outcomes, o)
      <3> DEFINE o == [act |-> job[w].act, ev |-> job[w].ev, kind |-> "recovered"]
      <3>1. o \in OutcomeRow /\ o.ev = job[w].ev
        BY <1>1, <2>1 DEF OutcomeRow, OutcomeStatus
      <3> QED
        BY <1>6, <3>1 DEF DeferRetry, FetchError, Recover
    <2> QED
      BY <2>1, <2>2, <2>4, <2>5 DEF Working, AtWork, RetryPC
  <1> QED
    BY <1>2, <1>3, <1>4, <1>5, <1>6 DEF WorkerStep

LEMMA NextKinds ==
    ASSUME EpisodeInv, [Next]_vars
    PROVE  Claiming \/ (\E a \in Actors : Working(a)) \/ \E e \in Events : Handing(e)
  <1>1. TypeInv /\ events \in [Events -> EventRow]
    BY TypeParts DEF EpisodeInv, RestTyped
  <1>2. ASSUME UNCHANGED <<events, actions, outcomes>> PROVE Claiming
    BY <1>2 DEF Claiming, StatusKept
  <1>3. ASSUME NEW e \in Events, Ingest(e) PROVE Handing(e)
    BY <1>1, <1>3 DEF Ingest, Handing
  <1>4. ASSUME NEW r \in Runners, RunnerStep(r)
        PROVE  Claiming \/ Working(r) \/ \E e \in Events : Handing(e)
    <2>1. ASSUME NEW e \in Events, HandOver(r, e) PROVE Claiming
      BY <1>2, <2>1 DEF HandOver, tables
    <2>2. CASE StartRun(r)
      BY <1>2, <2>2 DEF StartRun, tables
    <2>3. CASE SkipRun(r)
      <3>1. /\ job[r].pc = "handed" /\ job[r].ev \in Events
            /\ UNCHANGED <<actions, outcomes>>
            /\ events'[job[r].ev].state = "failed"
            /\ \A f \in Events \ {job[r].ev} : events'[f] = events[f]
        BY <1>1, <2>3, SkipRunBegins, TypeParts DEF Begins
      <3>2. events[job[r].ev].state = "pending"
        BY <3>1 DEF EpisodeInv, Exclusive
      <3> QED
        BY <3>1, <3>2 DEF Handing
    <2> QED
      BY <1>4, <2>1, <2>2, <2>3, LadderWorks DEF RunnerStep, Actors
  <1>5. ASSUME NEW w \in Workers, WorkerStep(w) PROVE Claiming \/ Working(w)
    BY <1>5, WorkerWorks
  <1>6. ASSUME \/ Tick
               \/ \E s \in Subs : LiveChange(s)
               \/ WireClient
               \/ \E a \in Actors : Abort(a)
               \/ UNCHANGED vars
        PROVE  Claiming
    BY <1>2, <1>6 DEF Tick, LiveChange, WireClient, Abort, vars, tables
  <1>7. CASE \E r \in Runners : RunnerNext(r)
    BY <1>4, <1>7 DEF RunnerNext, Actors
  <1>8. CASE \E w \in Workers : WorkerNext(w)
    BY <1>5, <1>8 DEF WorkerNext, Actors
  <1> QED
    BY <1>3, <1>6, <1>7, <1>8 DEF Next

-----------------------------------------------------------------------------
(* What that is for the episodes.                                          *)

LEMMA RetriesKept ==
    ASSUME LadderInv, LadderMove, NEW e \in Events,
           \A a \in Actors, id \in ActionIds :
              Born(a, id) /\ job[a].ev = e => actions'[id].sched = None
    PROVE  Retries(e)' = Retries(e) /\ \A id \in Retries(e) : SameRow(id)
  <1>1. RowsMove
    BY DEF LadderMove
  <1>2. \A id \in Retries(e)' : id \in Retries(e)
    <2> SUFFICES ASSUME NEW id \in Retries(e)' PROVE id \in Retries(e)
      OBVIOUS
    <2>1. id \in RetriesOf(e)' /\ id \in ActionIds /\ actions'[id].sched # None
      BY DEF Retries, RetriesOf
    <2>2. id \in RetriesOf(e) /\ SameRow(id)
      BY <2>1, RetriesMove
    <2> QED
      BY <2>1, <2>2 DEF Retries, RetriesOf, SameRow
  <1>3. \A id \in Retries(e) : id \in Retries(e)' /\ SameRow(id)
    <2> SUFFICES ASSUME NEW id \in Retries(e) PROVE id \in Retries(e)' /\ SameRow(id)
      OBVIOUS
    <2>1. id \in ActionIds /\ actions[id].status # "absent"
      BY Existing DEF Retries, RetriesOf
    <2>2. SameRow(id)
      BY <1>1, <2>1, ExistingStay
    <2> QED
      BY <2>1, <2>2 DEF Retries, SameRow
  <1> QED
    BY <1>2, <1>3

LEMMA OthersUnmoved ==
    ASSUME LadderInv, LadderMove, NEW e \in Events, events'[e].state = events[e].state,
           \A id \in LiveOf(e) : StatusKept(id),
           \A a \in Actors, id \in ActionIds :
              Born(a, id) /\ job[a].ev = e => actions'[id].sched = None
    PROVE  EpisodePhase(e)' = EpisodePhase(e) /\ SameCount(e)
  <1>1. Retries(e)' = Retries(e) /\ \A id \in Retries(e) : SameRow(id)
    BY RetriesKept
  <1>2. \A id \in Retries(e) : \A status \in Live :
           actions'[id].status = status <=> actions[id].status = status
    BY <1>1 DEF Retries, LiveOf, Live, StatusKept, SameRow
  <1>3. \A status \in Live : RetryIn(e, status)' <=> RetryIn(e, status)
    BY <1>1, <1>2 DEF RetryIn
  <1>4. EpisodePhase(e)' = EpisodePhase(e)
    BY <1>3 DEF EpisodePhase, Live
  <1> QED
    BY <1>1, <1>4 DEF SameCount

LEMMA ClaimingEpisodes ==
    ASSUME LadderInv, LadderMove, LadderInv', Claiming
    PROVE  Episode!Next
  <1>1. TypeInv
    BY DEF LadderInv, EpisodeInv
  <1>2. \A a \in Actors, id \in ActionIds : ~Born(a, id)
    BY DEF Claiming, StatusKept, Born
  <1>3. \A id \in ActionIds : SameRow(id)
    BY <1>2 DEF LadderMove, RowsMove
  <1> SUFFICES ASSUME NEW e \in Events
               PROVE  /\ SameCount(e) /\ SameVerdict(e)
                      /\ \/ EpisodePhase(e)' = EpisodePhase(e)
                         \/ EpisodePhase(e) = "waiting" /\ EpisodePhase(e)' = "trying"
    BY Tried
  <1>4. SameVerdict(e) /\ UNCHANGED events
    BY <1>1, VerdictMoves DEF Claiming
  <1>5. Retries(e)' = Retries(e)
    BY <1>3 DEF Retries, SameRow
  <1>6. CASE \A id \in LiveOf(e) : StatusKept(id)
    BY <1>2, <1>4, <1>6, OthersUnmoved
  <1>7. ASSUME NEW id \in LiveOf(e), ~StatusKept(id)
        PROVE  EpisodePhase(e) = "waiting" /\ EpisodePhase(e)' = "trying"
    <2>1. id \in ActionIds /\ actions[id].status = "scheduled" /\ actions'[id].status = "executing"
      BY <1>7 DEF Claiming, LiveOf
    <2>2. id \in LiveOf(e)'
      BY <1>3, <2>1 DEF LiveOf, SameRow
    <2>3. EpisodePhase(e) = "waiting"
      BY <2>1, PhaseOf
    <2>4. EpisodePhase(e)' = "trying"
      BY <2>1, <2>2, PhaseAfter
    <2> QED
      BY <2>3, <2>4
  <1> QED
    BY <1>4, <1>5, <1>6, <1>7 DEF SameCount

LEMMA HandingEpisodes ==
    ASSUME LadderInv, LadderMove, LadderInv', NEW e \in Events, Handing(e)
    PROVE  Episode!Next
  <1>1. TypeInv
    BY DEF LadderInv, EpisodeInv
  <1>2. UNCHANGED actions /\ \A f \in Events : SameVerdict(f)
    BY <1>1, VerdictMoves DEF Handing
  <1>3. \A a \in Actors, id \in ActionIds : ~Born(a, id)
    BY <1>2 DEF Born
  <1>4. OnlyMoves(e)
    <2> SUFFICES ASSUME NEW f \in Events \ {e} PROVE Unmoved(f)
      BY DEF OnlyMoves
    <2>1. events'[f] = events[f]
      BY DEF Handing
    <2> QED
      BY <1>2, <1>3, <2>1, OthersUnmoved DEF Unmoved, StatusKept
  <1>5. SameCount(e) /\ SameVerdict(e) /\ LiveOf(e)' = LiveOf(e)
    BY <1>2 DEF SameCount, Retries, LiveOf
  <1>6. CASE events[e].state = "absent" /\ events'[e].state = "pending"
    BY <1>4, <1>5, <1>6, PhaseOf, PhaseAfter, Opened
  <1>7. CASE events[e].state = "pending" /\ events'[e].state = "failed"
    <2>1. LiveOf(e) = {} /\ Handled(e)'
      BY <1>7 DEF LadderInv, EpisodeInv, Episodes, Handled
    <2>2. EpisodePhase(e) = "new" /\ EpisodePhase(e)' = "over"
      BY <1>5, <1>7, <2>1, PhaseOf, PhaseAfter
    <2> QED
      BY <1>4, <1>5, <2>2, Ended
  <1> QED
    BY <1>6, <1>7 DEF Handing

LEMMA WorkingOthers ==
    ASSUME LadderInv, LadderMove, NEW a \in Actors, Working(a)
    PROVE  /\ \A b \in Actors, id \in ActionIds : Born(b, id) => b = a
           /\ \A e \in Events : e # job[a].ev => Unmoved(e)
           /\ \A e \in Events : job[a].pc \in LinkPC /\ a \in Workers => Unmoved(e)
           /\ \A e \in Events : \A id \in LiveOf(e) :
                 ~StatusKept(id) => id \in AtHand(a) /\ actions'[id].status \notin Live
  <1>1. TypeInv /\ EpisodeInv
    BY DEF LadderInv, EpisodeInv
  <1>2. \A b \in Actors, id \in ActionIds : Born(b, id) => b = a
    BY DEF Working, Born
  <1>3. \A e \in Events : \A id \in LiveOf(e) :
           ~StatusKept(id) => id \in AtHand(a) /\ actions'[id].status \notin Live
    BY DEF Working, LiveOf
  <1>4. ASSUME NEW e \in Events, e # job[a].ev \/ (job[a].pc \in LinkPC /\ a \in Workers)
        PROVE  Unmoved(e)
    <2>1. events'[e] = events[e] /\ SameVerdict(e)
      <3>1. \/ outcomes' = outcomes
            \/ \E o \in OutcomeRow : o.ev # e /\ outcomes' = Append(outcomes, o)
        BY <1>4 DEF Working, RetryPC, LinkPC
      <3>2. SameVerdict(e)
        BY <1>1, <3>1, VerdictMoves
      <3> QED
        BY <1>4, <3>2 DEF Working
    <2>2. \A id \in LiveOf(e) : StatusKept(id)
      <3> SUFFICES ASSUME NEW id \in LiveOf(e), id \in AtHand(a) PROVE FALSE
        BY <1>3
      <3>1. id = job[a].act /\ actions[id].type = "retry_charge" /\ actions[id].ev = e
        BY DEF AtHand, LiveOf
      <3>2. job[a].pc \notin LinkPC
        BY <3>1 DEF LadderInv, LinkRows
      <3>3. a \in Workers /\ job[a].pc \in RetryPC
        BY <3>2 DEF AtHand, LinkPC, RetryPC
      <3> QED
        BY <1>1, <1>4, <3>1, <3>2, <3>3 DEF EpisodeInv, WorkersRetry
    <2>3. \A b \in Actors, id \in ActionIds : ~(Born(b, id) /\ job[b].ev = e)
      BY <1>2, <1>4 DEF Born, LinkPC
    <2> QED
      BY <2>1, <2>2, <2>3, OthersUnmoved DEF Unmoved
  <1> QED
    BY <1>2, <1>3, <1>4

(* The event a session works for is new or being tried, and has no verdict.*)
LEMMA WorkingFor ==
    ASSUME EpisodeInv, LadderInv, NEW a \in Actors, NEW e \in Events, e = job[a].ev,
           job[a].pc \in RetryPC \/ (job[a].pc \in LinkPC /\ a \in Runners)
    PROVE  /\ EpisodePhase(e) \in {"new", "trying"} /\ ~Concluded(e)
           /\ a \in Runners => events[e].state = "pending" /\ LiveOf(e) = {}
  <1>1. CASE a \in Runners
    <2>1. events[e].state = "pending"
      BY <1>1 DEF EpisodeInv, Exclusive, RetryPC, LinkPC
    <2>2. ~Handled(e)
      BY <2>1 DEF Handled
    <2> QED
      BY <2>1, <2>2, PhaseOf DEF EpisodeInv, Episodes
  <1>2. CASE a \in Workers
    <2>1. a \notin Runners /\ job[a].pc \in RetryPC
      BY <1>2, ExecutorAssumption
    <2>2. actions[job[a].act].status = "executing"
      BY <1>2, <2>1 DEF EpisodeInv, Ownership, OwnedExecuting, Owned, AtHand, RetryPC
    <2>3. job[a].act \in LiveOf(e)
      BY <1>2, <2>1, <2>2, HeldExist DEF EpisodeInv, WorkersRetry, LiveOf
    <2>4. ~Concluded(e)
      BY <2>3 DEF EpisodeInv, Episodes
    <2>5. EpisodePhase(e) = "trying"
      BY <2>2, <2>3, PhaseOf
    <2> QED
      BY <2>1, <2>4, <2>5
  <1> QED
    BY <1>1, <1>2 DEF Actors

(* A retry is born: its event waits for it.                                *)
LEMMA BornEpisodes ==
    ASSUME LadderInv, LadderMove, LadderInv', NEW a \in Actors, Working(a),
           NEW e \in Events, e = job[a].ev, NEW id \in LiveOf(e)', Born(a, id),
           OnlyMoves(e)
    PROVE  Episode!Next
  <1>1. EpisodeInv /\ JobsTyped /\ job[a].pc = "decide" /\ id \in ActionIds
    BY TypeParts DEF LadderInv, EpisodeInv, Born, LiveOf
  <1>2. EpisodePhase(e) \in {"new", "trying"} /\ ~Concluded(e)
    BY <1>1, WorkingFor DEF RetryPC
  <1>3. /\ actions'[id].type = "retry_charge" /\ actions'[id].status = "scheduled"
        /\ Choice(a).type = "retry_charge"
    BY <1>1 DEF Born, LiveOf
  <1>4. EpisodePhase(e)' = "waiting" /\ id \in Retries(e)'
    BY <1>3, PhaseAfter
  <1>5. SameVerdict(e)
    <2>1. ~Concluded(e)'
      BY DEF LadderInv, EpisodeInv, Episodes
    <2>2. EpisodeVerdict(e)' = {} /\ EpisodeVerdict(e) = {}
      BY <1>2, <2>1 DEF EpisodeVerdict, Concluded
    <2> QED
      BY <2>2 DEF SameVerdict
  <1>6. Cardinality(Retries(e)) < MaxRetries
    <2>1. Retries(e) \subseteq RetriesOf(e)
      BY DEF Retries, RetriesOf
    <2>2. /\ IsFiniteSet(Retries(e)) /\ Cardinality(Retries(e)) \in Nat
          /\ Cardinality(Retries(e)) <= Cardinality(RetriesOf(e))
          /\ Cardinality(RetriesOf(e)) \in Nat
      BY <2>1, Existing, FS_Subset, FS_CardinalityType
    <2>3. /\ Cardinality(RetriesOf(e)) <= job[a].n
          /\ job[a].n \in Nat /\ job[a].cat \in DiagnosisCategory
      BY <1>1 DEF LadderInv, Counted, JobsTyped, Job
    <2>4. job[a].n < MaxRetries
      BY <1>3, <2>3, DecideType DEF Choice
    <2> QED
      BY <2>2, <2>3, <2>4, Constants
  <1>7. Cardinality(Retries(e))' = Cardinality(Retries(e)) + 1
    <2>1. id \notin Retries(e)
      BY Existing DEF Retries, RetriesOf, Born
    <2>2. \A y \in Retries(e) : y \in Retries(e)'
      <3> SUFFICES ASSUME NEW y \in Retries(e) PROVE y \in Retries(e)'
        OBVIOUS
      <3>1. SameRow(y) /\ y \in ActionIds
        BY <2>1 DEF Born, Retries
      <3> QED
        BY <3>1 DEF Retries, SameRow
    <2>3. \A y \in Retries(e)' : y = id \/ y \in Retries(e)
      <3> SUFFICES ASSUME NEW y \in Retries(e)', y # id PROVE y \in Retries(e)
        OBVIOUS
      <3>1. SameRow(y) /\ y \in ActionIds
        BY DEF Born, Retries
      <3> QED
        BY <3>1 DEF Retries, SameRow
    <2>4. Retries(e)' = Retries(e) \cup {id}
      BY <1>4, <2>2, <2>3
    <2>5. IsFiniteSet(Retries(e))
      <3>1. Retries(e) \subseteq ActionIds
        BY DEF Retries
      <3> QED
        BY <3>1, Constants, FS_Subset
    <2>6. Cardinality(Retries(e)') = Cardinality(Retries(e)) + 1
      BY <2>1, <2>4, <2>5, FS_AddElement
    <2> QED
      BY <2>6
  <1> QED
    BY <1>2, <1>4, <1>5, <1>6, <1>7, Waited

LEMMA WorkingEpisodes ==
    ASSUME LadderInv, LadderMove, LadderInv', EventsMove, NEW a \in Actors, Working(a)
    PROVE  Episode!Next \/ UNCHANGED episodes
  <1>1. TypeInv /\ EpisodeInv /\ JobsTyped
    BY TypeParts DEF LadderInv, EpisodeInv
  <1>2. PICK e \in Events : e = job[a].ev
    BY <1>1 DEF Working, AtWork, JobsTyped, RetryPC, LinkPC
  <1>3. OnlyMoves(e)
    BY <1>2, WorkingOthers DEF OnlyMoves
  <1>4. CASE job[a].pc \in LinkPC /\ a \in Workers
    BY <1>4, WorkingOthers, NothingMoves
  <1>5. CASE ~(job[a].pc \in LinkPC /\ a \in Workers)
    <2>1. job[a].pc \in RetryPC \/ (job[a].pc \in LinkPC /\ a \in Runners)
      BY <1>5 DEF Working, AtWork, Actors
    <2>2. /\ EpisodePhase(e) \in {"new", "trying"} /\ ~Concluded(e)
          /\ a \in Runners => events[e].state = "pending" /\ LiveOf(e) = {}
      BY <1>1, <1>2, <2>1, WorkingFor
    <2>3. EpisodeVerdict(e) = {}
      BY <1>1, <2>2, VerdictMoves
    <2>4. SameVerdict(e) \/ \E v \in OutcomeStatus : EpisodeVerdict(e)' = {v}
      BY <1>1, <1>2, <2>2, VerdictMoves DEF Working, OutcomeRow
    <2>5. ~Concluded(e)' => SameVerdict(e)
      BY <2>3 DEF SameVerdict, EpisodeVerdict, Concluded
    <2>6. /\ LiveOf(e)' # {} => ~Concluded(e)'
          /\ Concluded(e)' => Handled(e)'
          /\ \A x, y \in LiveOf(e) : x = y
      BY <1>1 DEF LadderInv, EpisodeInv, Episodes
    <2>7. CASE \E id \in LiveOf(e)' : Born(a, id)
      BY <1>2, <1>3, <2>7, BornEpisodes
    <2>8. CASE \A id \in LiveOf(e)' : ~Born(a, id)
      <3>1. \A b \in Actors, id \in ActionIds :
               Born(b, id) /\ job[b].ev = e => actions'[id].sched = None
        <4> SUFFICES ASSUME NEW id \in ActionIds, Born(a, id) PROVE actions'[id].sched = None
          BY WorkingOthers
        <4>1. id \notin LiveOf(e)'
          BY <2>8
        <4> QED
          BY <1>2, <4>1 DEF Born, LiveOf
      <3>2. SameCount(e)
        BY <3>1, RetriesKept DEF SameCount
      <3>3. CASE LiveOf(e)' # {}
        <4>1. PICK y : y \in LiveOf(e)'
          BY <3>3
        <4>2. y \in LiveOf(e)
          <5>1. y \in RetriesOf(e)'
            BY <4>1 DEF LiveOf, RetriesOf
          <5>2. \A b \in Actors : ~Born(b, y)
            BY <2>8, <4>1, WorkingOthers DEF LiveOf
          <5> QED
            BY <4>1, <5>1, <5>2, RetriesMove
        <4>3. a \in Workers /\ events'[e] = events[e]
          BY <2>2, <4>2 DEF Working, Actors
        <4>4. StatusKept(y)
          BY <4>1, <4>2, WorkingOthers DEF LiveOf, Live
        <4>5. \A id \in LiveOf(e) : StatusKept(id)
          BY <2>6, <4>2, <4>4
        <4>6. Unmoved(e)
          BY <2>5, <2>6, <3>1, <3>2, <3>3, <4>3, <4>5, OthersUnmoved DEF Unmoved
        <4> QED
          BY <1>3, <4>6, NothingMoves DEF OnlyMoves
      <3>4. CASE LiveOf(e)' = {} /\ Handled(e)'
        BY <1>3, <2>2, <2>4, <3>2, <3>4, PhaseAfter, Ended
      <3>5. CASE LiveOf(e)' = {} /\ ~Handled(e)'
        <4>1. ~Handled(e)
          BY <3>5 DEF Handled, EventsMove, EventMove, EndState
        <4>2. EpisodePhase(e) = "new" /\ events[e].state = "pending"
          <5>1. EpisodePhase(e) # "trying"
            BY <4>1 DEF EpisodePhase, Handled
          <5> QED
            BY <2>2, <5>1, PhaseOf
        <4>3. events'[e].state = "pending"
          BY <3>5, <4>2 DEF Handled, EventsMove, EventMove, EndState
        <4>4. Unmoved(e)
          BY <2>5, <2>6, <3>2, <3>5, <4>2, <4>3, PhaseAfter DEF Unmoved
        <4> QED
          BY <1>3, <4>4, NothingMoves DEF OnlyMoves
      <3> QED
        BY <3>3, <3>4, <3>5
    <2> QED
      BY <2>7, <2>8
  <1> QED
    BY <1>4, <1>5

LEMMA EpisodesInit == Init => Episode!Init
  <1> SUFFICES ASSUME Init PROVE Episode!Init
    OBVIOUS
  <1>1. \A e \in Events : /\ EpisodePhase(e) = "unknown" /\ EpisodeVerdict(e) = {}
                          /\ Cardinality(Retries(e)) = 0
    <2>1. \A e \in Events : EpisodePhase(e) = "unknown"
      BY DEF Init, AbsentEvent, EpisodePhase
    <2>2. \A e \in Events : EpisodeVerdict(e) = {}
      BY DEF Init, EpisodeVerdict
    <2>3. \A e \in Events : Retries(e) = {}
      BY Constants DEF Init, AbsentRow, Retries
    <2> QED
      BY <2>1, <2>2, <2>3, FS_EmptySet
  <1> QED
    BY <1>1 DEF Episode!Init

(* Whatever the workers, the other sessions and the crashes do, and if the *)
(* caller hands each event to one session at a time (executor.py 373-383,  *)
(* retry_scheduler.py 8-13), each failed payment goes through the one      *)
(* lifecycle of EpisodeLifecycle: one live retry at a time, no more than   *)
(* max_retries of them, at most one verdict, and no way back from its end. *)
THEOREM EpisodeRefined ==
    ASSUME ExclusiveHandOver
    PROVE  Spec => EpisodesImplemented
  <1>1. LadderInv /\ LadderInv' /\ [Next]_vars => [Episode!Next]_episodes
    <2> SUFFICES ASSUME LadderInv, LadderInv', [Next]_vars PROVE [Episode!Next]_episodes
      OBVIOUS
    <2>1. LadderMove /\ EventsMove
      BY MovesNext, HandlingNext DEF LadderInv, EpisodeInv, HandlingMove
    <2>2. Claiming \/ (\E a \in Actors : Working(a)) \/ \E e \in Events : Handing(e)
      BY NextKinds DEF LadderInv
    <2> QED
      BY <2>1, <2>2, ClaimingEpisodes, WorkingEpisodes, HandingEpisodes
  <1>2. Spec => [][Episode!Next]_episodes
    BY <1>1, LadderInvHolds, PTL DEF Spec
  <1> QED
    BY <1>2, EpisodesInit, PTL
    DEF Spec, EpisodesImplemented, Episode!Spec, Episode!vars,
        episodes, phases, counts, verdicts
=============================================================================
