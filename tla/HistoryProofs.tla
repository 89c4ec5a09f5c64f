--------------------------- MODULE HistoryProofs ----------------------------
(***************************************************************************)
(* What is settled stays as it is, and no call is made before its audit    *)
(* entry is committed: both follow from who owns a row. A session owns the *)
(* rows it has claimed and the row it works on; they are nobody else's,    *)
(* and no step writes a row that is neither new nor its session's own.     *)
(* From it follows too, where an event is handed to one session at a time, *)
(* that a failed payment has one outcome, and that the inbox is consumed.  *)
(***************************************************************************)
EXTENDS RecoveryProofs, EpisodeRefinement

(* The row a session is going to write, if any. A runner has none until it *)
(* has requested a link; a worker keeps its attempt until it decides.      *)
AtHand(a) ==
    IF job[a].pc \in {"link", "linked", "linkerror"}
       \/ (a \in Workers /\ job[a].pc \in {"fetch", "fetched", "history", "decide"})
    THEN {job[a].act} ELSE {}

Owned(a) == job[a].queue \cup AtHand(a)

OwnedExecuting == \A a \in Actors : \A id \in Owned(a) :
    actions[id].status = IF job[a].pc = "claim" THEN "scheduled" ELSE "executing"

OwnedApart == \A a, b \in Actors : a # b => Owned(a) \cap Owned(b) = {}

NotTwiceOwned == \A a \in Actors : AtHand(a) \cap job[a].queue = {}

AbsentBlank == \A id \in ActionIds : actions[id].status = "absent" => actions[id].aud = {}

RunnersClaimNone == \A r \in Runners : job[r].queue = {}

Ownership ==
    OwnedExecuting /\ OwnedApart /\ NotTwiceOwned /\ AbsentBlank /\ RunnersClaimNone

(* What a step of session a does to the table of actions: it adds rows and *)
(* writes its own, takes back no audit entry and no row.                   *)
RowStep(a) == \A id \in ActionIds :
    /\ actions[id].aud \subseteq actions'[id].aud
    /\ actions'[id] = actions[id] \/ actions[id].status = "absent" \/ id \in Owned(a)
    /\ actions'[id].status = "absent" => actions'[id] = actions[id]

(* What it does to the owners: it gives rows up, or owns a new row, and the*)
(* others own what they owned.                                             *)
OwnerStep(a) ==
    /\ \A b \in Actors \ {a} : job'[b] = job[b]
    /\ \A id \in Owned(a)' : id \in Owned(a) \/ actions[id].status = "absent"
    /\ \A id \in Owned(a)' : actions'[id].status = "executing"
    /\ Owned(a)' = {} \/ job'[a].pc # "claim"
    /\ job'[a].queue \subseteq job[a].queue
    /\ AtHand(a)' \cap job'[a].queue = {}

LEMMA OwnedRows ==
    ASSUME TypeInv, NEW a \in Actors
    PROVE  Owned(a) \subseteq ActionIds /\ AtHand(a) \subseteq ActionIds
  BY TypeParts DEF Owned, AtHand, JobsTyped, Job

(* The rows of another session exist and are out of reach.                 *)
LEMMA OthersUntouched ==
    ASSUME TypeInv, Ownership, NEW a \in Actors, RowStep(a),
           NEW b \in Actors \ {a}, NEW id \in Owned(b)
    PROVE  actions'[id] = actions[id] /\ actions[id].status # "absent"
  <1>1. id \in ActionIds
    BY OwnedRows
  <1>2. actions[id].status # "absent"
    BY DEF Ownership, OwnedExecuting
  <1>3. id \notin Owned(a)
    BY DEF Ownership, OwnedApart
  <1> QED
    BY <1>1, <1>2, <1>3 DEF RowStep

LEMMA OwnershipStep ==
    ASSUME TypeInv, Ownership, NEW a \in Actors, RowStep(a), OwnerStep(a)
    PROVE  Ownership'
  <1>1. \A b \in Actors \ {a} : Owned(b)' = Owned(b) /\ AtHand(b)' = AtHand(b)
    BY DEF OwnerStep, Owned, AtHand
  <1>2. OwnedExecuting'
    <2> SUFFICES ASSUME NEW b \in Actors, NEW id \in Owned(b)'
                 PROVE  actions'[id].status
                            = IF job'[b].pc = "claim" THEN "scheduled" ELSE "executing"
      BY DEF OwnedExecuting
    <2>1. CASE b = a
      BY <2>1 DEF OwnerStep
    <2>2. CASE b # a
      BY <1>1, <2>2, OthersUntouched DEF OwnerStep, Ownership, OwnedExecuting
    <2> QED
      BY <2>1, <2>2
  <1>3. \A b \in Actors \ {a} : Owned(b)' \cap Owned(a)' = {}
    <2> SUFFICES ASSUME NEW b \in Actors \ {a}, NEW id \in Owned(b), id \in Owned(a)'
                 PROVE  FALSE
      BY <1>1
    <2>1. id \notin Owned(a)
      BY DEF Ownership, OwnedApart
    <2> QED
      BY <2>1, OthersUntouched DEF OwnerStep
  <1>4. OwnedApart'
    BY <1>1, <1>3 DEF Ownership, OwnedApart
  <1>5. NotTwiceOwned'
    BY <1>1 DEF Ownership, NotTwiceOwned, OwnerStep
  <1>6. AbsentBlank'
    BY DEF Ownership, AbsentBlank, RowStep
  <1>7. RunnersClaimNone'
    BY DEF Ownership, RunnersClaimNone, OwnerStep, Actors
  <1> QED
    BY <1>2, <1>4, <1>5, <1>6, <1>7 DEF Ownership

-----------------------------------------------------------------------------
(* The kinds of steps.                                                     *)

(* A result is written on the row at hand.                                 *)
LEMMA SettleSteps ==
    ASSUME TypeInv, NEW a \in Actors, AtHand(a) = {job[a].act},
           NEW status \in ActionStatus, NEW exec \in Time,
           NEW entries, entries \subseteq AuditAction, NEW response \in {None, "answer"},
           actions' = Settle(a, status, exec, entries, response)
    PROVE  /\ RowStep(a)
           /\ actions'[job[a].act].status = status
           /\ \A id \in ActionIds \ {job[a].act} : actions'[id] = actions[id]
           /\ SameSubject(actions')
  <1>1. job[a].act \in ActionIds
    BY OwnedRows
  <1>2. RowsTyped /\ RowsExist
    BY TypeParts
  <1>3. /\ actions'[job[a].act].status = status /\ status # "absent"
        /\ actions'[job[a].act].aud = actions[job[a].act].aud \cup entries
        /\ \A id \in ActionIds \ {job[a].act} : actions'[id] = actions[id]
        /\ SameSubject(actions')
    BY <1>1, <1>2, SettleRow DEF ActionStatus
  <1>4. job[a].act \in Owned(a)
    BY DEF Owned
  <1>5. RowStep(a)
    BY <1>3, <1>4 DEF RowStep
  <1> QED
    BY <1>3, <1>5

(* A decision adds a row, and a worker's own attempt has failed.           *)
LEMMA InsertSteps ==
    ASSUME TypeInv, Ownership, NEW a \in Actors, job[a].pc = "decide", NEW id \in ActionIds,
           NEW status \in ActionStatus, NEW sched \in Time, NEW exec \in Time,
           NEW entries, entries \subseteq AuditAction,
           Insert(a, id, NewRow(a, status, sched, exec, entries))
    PROVE  /\ RowStep(a)
           /\ actions[id].status = "absent"
           /\ actions'[id] = NewRow(a, status, sched, exec, entries)
           /\ actions'[id].status = status
           /\ a \in Workers => actions'[job[a].act].status = "failed"
           /\ \A y \in ActionIds \ {id} :
                 /\ actions'[y].type = actions[y].type /\ actions'[y].ev = actions[y].ev
                 /\ actions'[y].sched = actions[y].sched
                 /\ y # job[a].act \/ a \notin Workers => actions'[y] = actions[y]
  <1>1. /\ RowsTyped /\ RowsExist /\ JobsTyped
        /\ job[a] \in Job /\ (a \in Workers => job[a].act \in ActionIds)
    BY TypeParts DEF JobsTyped
  <1>2. /\ "failed" \in ActionStatus /\ {"recovery.retry.failed"} \subseteq AuditAction
        /\ job[a].now \in Time /\ status # "absent"
    BY <1>1 DEF ActionStatus, AuditAction, Job, Time
  <1>3. CASE a \in Workers
    <2>1. /\ Settled(a)[job[a].act].status = "failed"
          /\ actions[job[a].act].aud \subseteq Settled(a)[job[a].act].aud
          /\ \A y \in ActionIds \ {job[a].act} : Settled(a)[y] = actions[y]
          /\ SameSubject(Settled(a)) /\ DOMAIN Settled(a) = ActionIds
      BY <1>1, <1>2, <1>3, SettleRow DEF Settled
    <2>2. actions[id].status = "absent" /\ actions[job[a].act].status # "absent"
      BY <1>1, <1>3 DEF Insert, Fresh, RowsExist
    <2>3. /\ actions'[id] = NewRow(a, status, sched, exec, entries)
          /\ \A y \in ActionIds \ {id} : actions'[y] = Settled(a)[y]
      BY <2>1 DEF Insert
    <2>4. actions'[id].status = status /\ actions[id].aud = {}
      BY <2>2, <2>3 DEF NewRow, Ownership, AbsentBlank
    <2>5. job[a].act \in Owned(a)
      BY <1>3 DEF Owned, AtHand
    <2>6. RowStep(a)
      <3> SUFFICES ASSUME NEW y \in ActionIds
                   PROVE  /\ actions[y].aud \subseteq actions'[y].aud
                          /\ \/ actions'[y] = actions[y] \/ actions[y].status = "absent"
                             \/ y \in Owned(a)
                          /\ actions'[y].status = "absent" => actions'[y] = actions[y]
        BY DEF RowStep
      <3>1. CASE y = id
        BY <1>2, <2>2, <2>4, <3>1
      <3>2. CASE y = job[a].act
        BY <2>1, <2>2, <2>3, <2>5, <3>2
      <3>3. CASE y # id /\ y # job[a].act
        BY <2>1, <2>3, <3>3
      <3> QED
        BY <3>1, <3>2, <3>3
    <2> QED
      BY <1>1, <1>3, <2>1, <2>2, <2>3, <2>4, <2>6 DEF SameSubject
  <1>4. CASE a \notin Workers
    <2>1. Settled(a) = actions /\ actions[id].status = "absent"
      BY <1>4 DEF Settled, Insert, Fresh
    <2>2. /\ actions'[id] = NewRow(a, status, sched, exec, entries)
          /\ \A y \in ActionIds \ {id} : actions'[y] = actions[y]
      BY <1>1, <2>1 DEF Insert, RowsTyped
    <2>3. actions'[id].status = status /\ actions[id].aud = {}
      BY <2>1, <2>2 DEF NewRow, Ownership, AbsentBlank
    <2>4. RowStep(a)
      BY <1>2, <2>1, <2>2, <2>3 DEF RowStep
    <2> QED
      BY <1>4, <2>1, <2>2, <2>3, <2>4
  <1> QED
    BY <1>3, <1>4

(* The session ends this work, having left the rest of its batch alone.    *)
LEMMA FinishSteps ==
    ASSUME TypeInv, Ownership, NEW a \in Actors, Finish(a), job[a].pc # "claim",
           \A id \in job[a].queue : actions'[id] = actions[id]
    PROVE  OwnerStep(a)
  <1>1. /\ job'[a].pc \in {"idle", "next"} /\ job'[a].queue = job[a].queue
        /\ \A b \in Actors \ {a} : job'[b] = job[b]
    BY TypeParts, FinishJob DEF JobsTyped
  <1>2. AtHand(a)' = {} /\ Owned(a)' = job[a].queue
    BY <1>1 DEF AtHand, Owned
  <1>3. \A id \in job[a].queue : actions'[id].status = "executing"
    BY DEF Ownership, OwnedExecuting, Owned
  <1> QED
    BY <1>1, <1>2, <1>3 DEF OwnerStep, Owned

(* The session goes on with the rows it has.                               *)
LEMMA SameOwnerSteps ==
    ASSUME TypeInv, Ownership, NEW a \in Actors, UNCHANGED actions,
           \A b \in Actors \ {a} : job'[b] = job[b],
           job[a].pc # "claim", job'[a].pc # "claim",
           job'[a].queue = job[a].queue, AtHand(a)' = AtHand(a)
    PROVE  RowStep(a) /\ OwnerStep(a)
  <1>1. Owned(a)' = Owned(a)
    BY DEF Owned
  <1>2. \A id \in Owned(a) : actions'[id].status = "executing"
    BY DEF Ownership, OwnedExecuting
  <1>3. AtHand(a) \cap job[a].queue = {}
    BY DEF Ownership, NotTwiceOwned
  <1> QED
    BY <1>1, <1>2, <1>3 DEF OwnerStep, RowStep

LEMMA InsertsLeaveQueue ==
    ASSUME TypeInv, Ownership, NEW a \in Actors, job[a].pc = "decide", NEW id \in ActionIds,
           actions[id].status = "absent",
           \A y \in ActionIds \ {id} :
              y # job[a].act \/ a \notin Workers => actions'[y] = actions[y]
    PROVE  \A y \in job[a].queue : y # id /\ actions'[y] = actions[y]
  <1> SUFFICES ASSUME NEW y \in job[a].queue PROVE y # id /\ actions'[y] = actions[y]
    OBVIOUS
  <1>1. y \in ActionIds /\ y # id
    BY OwnedRows DEF Ownership, OwnedExecuting, Owned
  <1>2. y # job[a].act \/ a \notin Workers
    BY DEF Ownership, NotTwiceOwned, AtHand
  <1> QED
    BY <1>1, <1>2

-----------------------------------------------------------------------------
(* The steps of the sessions.                                              *)

LEMMA LadderOwns ==
    ASSUME TypeInv, Ownership, NEW a \in Actors, LadderStep(a)
    PROVE  RowStep(a) /\ OwnerStep(a)
  <1>1. /\ JobsTyped /\ job[a] \in Job /\ None \in Time /\ job[a].now \in Time
        /\ job[a].n \in Nat /\ job[a].cat \in DiagnosisCategory
    BY TypeParts DEF JobsTyped, Job, Time
  <1>2. /\ {"planned", "executed", "failed", "skipped", "scheduled", "executing"}
              \subseteq ActionStatus
        /\ {} \subseteq AuditAction
        /\ {"razorpay.payment_link.created"} \subseteq AuditAction
        /\ {"razorpay.payment_link.failed"} \subseteq AuditAction
        /\ {"razorpay.payment_link.requested"} \subseteq AuditAction
        /\ {"recovery.retry.scheduled"} \subseteq AuditAction
        /\ \A type \in DOMAIN TerminalOutcome : {TerminalEntry[type]} \subseteq AuditAction
    BY DEF ActionStatus, AuditAction, TerminalOutcome, TerminalEntry
  <1>3. CASE ReadHistory(a)
    <2>1. PICK n, last : Set(a, [job[a] EXCEPT !.pc = "decide", !.n = n, !.last = last])
      BY <1>3 DEF ReadHistory
    <2>2. /\ job'[a].pc = "decide" /\ job'[a].act = job[a].act
          /\ job'[a].queue = job[a].queue /\ job[a].pc = "history"
          /\ \A b \in Actors \ {a} : job'[b] = job[b]
      BY <1>1, <1>3, <2>1 DEF ReadHistory, Set, JobsTyped, Job
    <2>3. AtHand(a)' = AtHand(a)
      BY <2>2 DEF AtHand
    <2> QED
      BY <1>3, <2>2, <2>3, SameOwnerSteps DEF ReadHistory, tables
  <1>4. CASE LinkCreated(a) \/ LinkError(a)
    <2>1. PICK pc \in {"linked", "linkerror"} : Set(a, [job[a] EXCEPT !.pc = pc])
      BY <1>4 DEF LinkCreated, LinkError
    <2>2. /\ job'[a].pc = pc /\ job'[a].act = job[a].act
          /\ job'[a].queue = job[a].queue /\ job[a].pc = "link"
          /\ \A b \in Actors \ {a} : job'[b] = job[b]
      BY <1>1, <1>4, <2>1 DEF LinkCreated, LinkError, Set, JobsTyped, Job
    <2>3. AtHand(a)' = AtHand(a)
      BY <2>2 DEF AtHand
    <2> QED
      BY <1>4, <2>2, <2>3, SameOwnerSteps DEF LinkCreated, LinkError, tables
  <1>5. ASSUME NEW status \in ActionStatus, NEW sched \in Time, NEW exec \in Time,
               NEW entries, entries \subseteq AuditAction, NEW id \in ActionIds,
               job[a].pc = "decide",
               Insert(a, id, NewRow(a, status, sched, exec, entries)), Finish(a)
        PROVE  RowStep(a) /\ OwnerStep(a)
    <2>1. /\ RowStep(a) /\ actions[id].status = "absent"
          /\ \A y \in ActionIds \ {id} :
                y # job[a].act \/ a \notin Workers => actions'[y] = actions[y]
      BY <1>5, InsertSteps
    <2>2. \A y \in job[a].queue : actions'[y] = actions[y]
      BY <1>5, <2>1, InsertsLeaveQueue
    <2> QED
      BY <1>5, <2>1, <2>2, FinishSteps
  <1>6. CASE Skip(a)
    <2>1. PICK id \in ActionIds : Insert(a, id, NewRow(a, "skipped", None, None, {}))
      BY <1>6 DEF Skip
    <2> QED
      BY <1>1, <1>2, <1>5, <1>6, <2>1 DEF Skip, EndDecision
  <1>7. CASE ScheduleRetry(a)
    <2>1. PICK id \in ActionIds :
            Insert(a, id, NewRow(a, "scheduled", job[a].now + Choice(a).delay, None,
                                 {"recovery.retry.scheduled"}))
      BY <1>7 DEF ScheduleRetry
    <2>2. job[a].now + Choice(a).delay \in Time
      BY <1>1, DecideType DEF Choice, Job, Time
    <2> QED
      BY <1>1, <1>2, <1>5, <1>7, <2>1, <2>2 DEF ScheduleRetry, EndDecision, Proposes
  <1>8. CASE Conclude(a)
    <2>1. PICK type \in DOMAIN TerminalOutcome, id \in ActionIds :
            /\ Proposes(a, type) /\ EndDecision(a)
            /\ Insert(a, id, NewRow(a, "executed", None, job[a].now, {TerminalEntry[type]}))
      BY <1>8 DEF Conclude
    <2> QED
      BY <1>1, <1>2, <1>5, <2>1 DEF EndDecision, Proposes
  <1>9. CASE LinkWithoutAmount(a)
    <2>1. PICK id \in ActionIds :
            Insert(a, id, NewRow(a, "failed", None, None, {"razorpay.payment_link.failed"}))
      BY <1>9 DEF LinkWithoutAmount
    <2> QED
      BY <1>1, <1>2, <1>5, <1>9, <2>1 DEF LinkWithoutAmount, EndDecision, Proposes
  <1>10. CASE RequestLink(a)
    <2>1. PICK id \in ActionIds :
            /\ Insert(a, id, NewRow(a, "executing", None, None,
                                    {"razorpay.payment_link.requested"}))
            /\ Set(a, [job[a] EXCEPT !.pc = "link", !.act = id, !.dirty = FALSE])
      BY <1>10 DEF RequestLink
    <2>2. job[a].pc = "decide"
      BY <1>10 DEF RequestLink, Proposes
    <2>3. /\ RowStep(a) /\ actions[id].status = "absent"
          /\ actions'[id].status = "executing"
          /\ \A y \in ActionIds \ {id} :
                y # job[a].act \/ a \notin Workers => actions'[y] = actions[y]
      BY <1>1, <1>2, <2>1, <2>2, InsertSteps
    <2>4. \A y \in job[a].queue : y # id /\ actions'[y] = actions[y]
      BY <2>2, <2>3, InsertsLeaveQueue
    <2>5. /\ job'[a].pc = "link" /\ job'[a].act = id /\ job'[a].queue = job[a].queue
          /\ \A b \in Actors \ {a} : job'[b] = job[b]
      BY <1>1, <2>1 DEF Set, JobsTyped, Job
    <2>6. AtHand(a)' = {id} /\ Owned(a)' = job[a].queue \cup {id}
      BY <2>5 DEF AtHand, Owned
    <2>7. \A y \in job[a].queue : actions'[y].status = "executing"
      BY <2>2, <2>4 DEF Ownership, OwnedExecuting, Owned
    <2>8. OwnerStep(a)
      BY <2>3, <2>4, <2>5, <2>6, <2>7 DEF OwnerStep, Owned
    <2> QED
      BY <2>3, <2>8
  <1>11. CASE DeferLink(a) \/ RecordLink(a) \/ RecordLinkError(a)
    <2>1. /\ job[a].pc \in {"link", "linked", "linkerror"} /\ Finish(a)
          /\ AtHand(a) = {job[a].act}
      BY <1>11 DEF DeferLink, RecordLink, RecordLinkError, EndLink, AtHand
    <2>2. PICK status \in ActionStatus, exec \in Time, entries \in SUBSET AuditAction,
               response \in {None, "answer"} :
            actions' = Settle(a, status, exec, entries, response)
      BY <1>1, <1>2, <1>11 DEF DeferLink, RecordLink, RecordLinkError, EndLink
    <2>3. RowStep(a) /\ \A id \in ActionIds \ {job[a].act} : actions'[id] = actions[id]
      BY <2>1, <2>2, SettleSteps
    <2>4. \A id \in job[a].queue : actions'[id] = actions[id]
      BY <2>1, <2>3, OwnedRows DEF Ownership, NotTwiceOwned, Owned
    <2> QED
      BY <2>1, <2>3, <2>4, FinishSteps
  <1> QED
    BY <1>3, <1>4, <1>6, <1>7, <1>8, <1>9, <1>10, <1>11 DEF LadderStep

(* A claim takes scheduled rows that no other session has.                 *)
LEMMA SelectOwns ==
    ASSUME TypeInv, Ownership, NEW w \in Workers, ClaimSelect(w)
    PROVE  RowStep(w) /\ Ownership'
  <1>1. /\ JobsTyped /\ w \in Actors /\ Workers \subseteq Actors
        /\ actions' = actions
    BY TypeParts DEF Actors, ClaimSelect, tables
  <1>2. PICK B \in SUBSET (Due \ LockedRows) :
          Set(w, [IdleJob EXCEPT !.pc = "claim", !.now = clock, !.queue = B])
    BY DEF ClaimSelect
  <1>3. /\ job'[w].pc = "claim" /\ job'[w].queue = B
        /\ \A b \in Actors \ {w} : job'[b] = job[b]
    BY <1>1, <1>2 DEF JobsTyped, IdleJob, Set
  <1>4. /\ Owned(w)' = B /\ AtHand(w)' = {}
        /\ \A b \in Actors \ {w} : Owned(b)' = Owned(b) /\ AtHand(b)' = AtHand(b)
    BY <1>3 DEF Owned, AtHand
  <1>5. \A id \in B : actions[id].status = "scheduled"
    BY DEF Due
  <1>6. \A b \in Actors \ {w} : B \cap Owned(b) = {}
    <2> SUFFICES ASSUME NEW b \in Actors \ {w}, NEW id \in B, id \in Owned(b)
                 PROVE  FALSE
      OBVIOUS
    <2>1. job[b].pc = "claim"
      BY <1>5 DEF Ownership, OwnedExecuting
    <2>2. id \in job[b].queue
      BY <2>1 DEF Owned, AtHand
    <2>3. b \in Workers
      BY <2>2 DEF Ownership, RunnersClaimNone, Actors
    <2>4. id \in LockedRows
      BY <2>1, <2>2, <2>3 DEF LockedRows, Claimants
    <2> QED
      BY <2>4
  <1>7. OwnedExecuting' /\ NotTwiceOwned' /\ AbsentBlank'
    BY <1>1, <1>3, <1>4, <1>5
    DEF Ownership, OwnedExecuting, NotTwiceOwned, AbsentBlank
  <1>8. OwnedApart'
    BY <1>4, <1>6 DEF Ownership, OwnedApart
  <1>9. RunnersClaimNone'
    BY <1>3, ExecutorAssumption DEF Ownership, RunnersClaimNone, Actors
  <1>10. RowStep(w)
    BY <1>1 DEF RowStep
  <1> QED
    BY <1>7, <1>8, <1>9, <1>10 DEF Ownership

LEMMA WorkerOwns ==
    ASSUME TypeInv, Ownership, NEW w \in Workers, WorkerStep(w)
    PROVE  RowStep(w) /\ Ownership'
  <1>1. /\ JobsTyped /\ RowsTyped /\ w \in Actors /\ job[w] \in Job
        /\ None \in Time /\ job[w].now \in Time /\ job[w].queue \subseteq ActionIds
    BY TypeParts DEF Actors, JobsTyped, Job, Time
  <1>2. /\ {"planned", "executed", "failed"} \subseteq ActionStatus
        /\ {} \subseteq AuditAction
        /\ {"recovery.retry.failed"} \subseteq AuditAction
        /\ {"recovery.retry.recovered"} \subseteq AuditAction
    BY DEF ActionStatus, AuditAction
  <1>3. CASE ClaimCommit(w)
    <2>1. /\ job'[w].pc = "next" /\ job'[w].queue = job[w].queue
          /\ \A b \in Actors \ {w} : job'[b] = job[b]
      BY <1>1, <1>3 DEF ClaimCommit, Set, JobsTyped, Job
    <2>2. \A id \in ActionIds :
             IF id \in job[w].queue
             THEN actions'[id].status = "executing" /\ actions'[id].aud = actions[id].aud
             ELSE actions'[id] = actions[id]
      BY <1>1, <1>3 DEF ClaimCommit, RowsTyped, ActionRow
    <2>3. RowStep(w)
      BY <1>1, <2>2 DEF RowStep, Owned
    <2>4. AtHand(w)' = {} /\ Owned(w)' = job[w].queue
      BY <2>1 DEF AtHand, Owned
    <2>5. OwnerStep(w)
      BY <1>1, <2>1, <2>2, <2>4 DEF OwnerStep, Owned
    <2> QED
      BY <1>1, <2>3, <2>5, OwnershipStep
  <1>4. CASE StartRetry(w)
    <2>1. PICK id, ev, sub, cat, status :
            /\ id \in job[w].queue
            /\ actions' = [actions EXCEPT ![id].aud = @ \cup {"recovery.retry.attempted"}]
            /\ Set(w, [IdleJob EXCEPT !.pc = "fetch", !.act = id, !.ev = ev, !.sub = sub,
                                      !.cat = cat, !.status = status, !.now = job[w].now,
                                      !.queue = job[w].queue \ {id}])
      BY <1>4 DEF StartRetry
    <2>2. /\ job'[w].pc = "fetch" /\ job'[w].act = id
          /\ job'[w].queue = job[w].queue \ {id}
          /\ \A b \in Actors \ {w} : job'[b] = job[b]
      BY <1>1, <2>1 DEF IdleJob, Set, JobsTyped
    <2>3. /\ \A y \in ActionIds : actions'[y].status = actions[y].status
          /\ \A y \in ActionIds : actions[y].aud \subseteq actions'[y].aud
          /\ \A y \in ActionIds \ {id} : actions'[y] = actions[y]
      BY <1>1, <2>1 DEF RowsTyped, ActionRow
    <2>4. \A y \in Owned(w) : actions[y].status = "executing"
      BY <1>1, <1>4 DEF Ownership, OwnedExecuting, StartRetry
    <2>5. AtHand(w)' = {id} /\ Owned(w)' = job[w].queue /\ id \in Owned(w)
      BY <2>1, <2>2 DEF AtHand, Owned
    <2>6. RowStep(w)
      BY <2>3, <2>4, <2>5 DEF RowStep
    <2>7. OwnerStep(w)
      BY <1>1, <2>2, <2>3, <2>4, <2>5 DEF OwnerStep, Owned
    <2> QED
      BY <1>1, <2>6, <2>7, OwnershipStep
  <1>5. CASE Fetch(w) \/ Relapse(w)
    <2>1. /\ job'[w].pc \in {"fetched", "history"} /\ job[w].pc \in {"fetch", "fetched"}
          /\ job'[w].act = job[w].act /\ job'[w].queue = job[w].queue
          /\ \A b \in Actors \ {w} : job'[b] = job[b]
          /\ UNCHANGED actions
      <3>1. CASE Fetch(w)
        <4>1. PICK status, dirty :
                Set(w, [job[w] EXCEPT !.pc = "fetched", !.status = status, !.dirty = dirty])
          BY <3>1 DEF Fetch
        <4> QED
          BY <1>1, <3>1, <4>1 DEF Fetch, Call, Set, JobsTyped, Job, tables
      <3>2. CASE Relapse(w)
        BY <1>1, <3>2 DEF Relapse, MayFlush, Set, JobsTyped, Job, tables
      <3> QED
        BY <1>5, <3>1, <3>2
    <2>2. AtHand(w)' = AtHand(w)
      BY <2>1 DEF AtHand
    <2> QED
      BY <1>1, <2>1, <2>2, SameOwnerSteps, OwnershipStep
  <1>6. CASE DeferRetry(w) \/ FetchError(w) \/ Recover(w)
    <2>1. /\ job[w].pc \in {"fetch", "fetched"} /\ Finish(w) /\ AtHand(w) = {job[w].act}
      BY <1>6 DEF DeferRetry, FetchError, Recover, Call, MayFlush, EndRetry, AtHand
    <2>2. PICK status \in ActionStatus, exec \in Time, entries \in SUBSET AuditAction,
               response \in {None, "answer"} :
            actions' = Settle(w, status, exec, entries, response)
      BY <1>1, <1>2, <1>6 DEF DeferRetry, FetchError, Recover, EndRetry
    <2>3. RowStep(w) /\ \A id \in ActionIds \ {job[w].act} : actions'[id] = actions[id]
      BY <1>1, <2>1, <2>2, SettleSteps
    <2>4. \A id \in job[w].queue : actions'[id] = actions[id]
      BY <1>1, <2>1, <2>3 DEF Ownership, NotTwiceOwned
    <2> QED
      BY <1>1, <2>1, <2>3, <2>4, FinishSteps, OwnershipStep
  <1>7. CASE LadderStep(w)
    BY <1>1, <1>7, LadderOwns, OwnershipStep
  <1> QED
    BY <1>3, <1>4, <1>5, <1>6, <1>7, SelectOwns DEF WorkerStep

LEMMA RunnerOwns ==
    ASSUME TypeInv, Ownership, NEW r \in Runners, RunnerStep(r)
    PROVE  RowStep(r) /\ Ownership'
  <1>1. r \in Actors /\ r \notin Workers /\ JobsTyped
    BY TypeParts, ExecutorAssumption DEF Actors
  <1>2. CASE Begins(r)
    <2>1. /\ job'[r].queue = {} /\ job[r].queue = {}
          /\ job[r].pc # "claim" /\ job'[r].pc # "claim"
          /\ \A b \in Actors \ {r} : job'[b] = job[b]
      BY <1>2 DEF Begins, Ownership, RunnersClaimNone
    <2>2. AtHand(r)' = {} /\ AtHand(r) = {} /\ UNCHANGED actions
      BY <1>1, <1>2 DEF AtHand, Begins
    <2> QED
      BY <1>1, <2>1, <2>2, SameOwnerSteps, OwnershipStep
  <1>3. CASE LadderStep(r)
    BY <1>1, <1>3, LadderOwns, OwnershipStep
  <1> QED
    BY <1>2, <1>3, RunnerSteps, TypeParts

(* Outside the sessions nobody writes a row.                               *)
LEMMA EnvironmentOwns ==
    ASSUME TypeInv, Ownership,
           \/ \E e \in Events : Ingest(e)
           \/ Tick
           \/ \E s \in Subs : LiveChange(s)
           \/ WireClient
           \/ \E a \in Actors : Abort(a)
           \/ UNCHANGED vars
    PROVE  UNCHANGED actions /\ Ownership'
  <1>1. ASSUME NEW a \in Actors, Abort(a) PROVE UNCHANGED actions /\ Ownership'
    <2>1. /\ job'[a].pc = "idle" /\ job'[a].queue = {} /\ UNCHANGED actions
          /\ \A b \in Actors \ {a} : job'[b] = job[b]
      BY <1>1, TypeParts DEF Abort, Set, JobsTyped, IdleJob, tables
    <2>2. AtHand(a)' = {} /\ Owned(a)' = {}
      BY <2>1 DEF AtHand, Owned
    <2>3. RowStep(a) /\ OwnerStep(a)
      BY <2>1, <2>2 DEF RowStep, OwnerStep
    <2> QED
      BY <2>1, <2>3, OwnershipStep
  <1>2. CASE UNCHANGED <<actions, job>>
    BY <1>2 DEF Ownership, OwnedExecuting, OwnedApart, NotTwiceOwned,
            AbsentBlank, RunnersClaimNone, Owned, AtHand
  <1> QED
    BY <1>1, <1>2 DEF Ingest, Tick, LiveChange, WireClient, vars, tables

LEMMA OwnershipInit == Init => Ownership
  <1> SUFFICES ASSUME Init PROVE Ownership
    OBVIOUS
  <1>1. /\ \A a \in Actors : job[a].pc = "idle" /\ job[a].queue = {}
        /\ \A id \in ActionIds : actions[id].aud = {}
    BY DEF Init, IdleJob, AbsentRow
  <1>2. \A a \in Actors : Owned(a) = {} /\ AtHand(a) = {}
    BY <1>1 DEF Owned, AtHand
  <1> QED
    BY <1>1, <1>2 DEF Ownership, OwnedExecuting, OwnedApart, NotTwiceOwned,
       AbsentBlank, RunnersClaimNone, Actors

(* Every step is one session's, or leaves the table of actions alone.      *)
LEMMA OwnershipNext ==
    ASSUME TypeInv, Ownership, [Next]_vars
    PROVE  Ownership' /\ (UNCHANGED actions \/ \E a \in Actors : RowStep(a))
  <1>1. ASSUME NEW r \in Runners, RunnerNext(r)
        PROVE  Ownership' /\ \E a \in Actors : RowStep(a)
    BY <1>1, RunnerOwns DEF RunnerNext, Actors
  <1>2. ASSUME NEW w \in Workers, WorkerNext(w)
        PROVE  Ownership' /\ \E a \in Actors : RowStep(a)
    BY <1>2, WorkerOwns DEF WorkerNext, Actors
  <1> QED
    BY <1>1, <1>2, EnvironmentOwns DEF Next

THEOREM OwnershipHolds == Spec => [](TypeInv /\ Ownership)
  <1>1. Init => TypeInv /\ Ownership
    BY TypeInit, OwnershipInit
  <1>2. TypeInv /\ Ownership /\ [Next]_vars => (TypeInv /\ Ownership)'
    BY TypeStep, OwnershipNext
  <1> QED
    BY <1>1, <1>2, PTL DEF Spec

-----------------------------------------------------------------------------
(* Events and outcomes. How a run leaves its event depends on nothing but  *)
(* what the event says, so a second run of it leaves it the same way; a    *)
(* runner past the first check has an event with a subscription.           *)

RunnerPC == {"handed", "history", "decide", "link", "linked", "linkerror"}

EndState(body) == IF body.sub = None THEN "failed" ELSE "processed"

Handling ==
    /\ \A e \in Events :
          /\ events[e].state \in {"absent", "pending", EndState(events[e].body)}
          /\ events[e].state \in {"absent", "pending"} => events[e].at = None
    /\ \A r \in Runners : job[r].pc # "idle" =>
          /\ job[r].pc \in RunnerPC
          /\ events[job[r].ev].state # "absent"
          /\ job[r].pc # "handed" => events[job[r].ev].body.sub # None

EventMove(e) ==
    \/ events'[e] = events[e]
    \/ /\ events[e].state = "absent"
       /\ events'[e].state = "pending" /\ events'[e].at = None
    \/ /\ events[e].state # "absent" /\ events'[e].body = events[e].body
       /\ events'[e].state = EndState(events[e].body) /\ events'[e].at \in Nat

EventsMove ==
    /\ \A e \in Events : EventMove(e)
    /\ \A e, f \in Events : events'[e] # events[e] /\ events'[f] # events[f] => e = f

OutcomeMove == outcomes' = outcomes \/ \E o \in OutcomeRow : outcomes' = Append(outcomes, o)

RunnerMove(r) ==
    \/ job'[r] = job[r]
    \/ job'[r].pc = "idle"
    \/ /\ job[r].pc # "idle" /\ job'[r].pc \in RunnerPC /\ job'[r].ev = job[r].ev
       /\ job'[r].pc = "handed" \/ events[job[r].ev].body.sub # None
    \/ /\ job[r].pc = "idle" /\ job'[r].pc = "handed" /\ job'[r].ev \in Events
       /\ events[job'[r].ev].state = "pending"

HandlingMove ==
    /\ EventsMove
    /\ OutcomeMove
    /\ \A r \in Runners : RunnerMove(r)

LEMMA HandlingKept ==
    ASSUME TypeInv, Handling, HandlingMove
    PROVE  Handling'
  <1>1. \A r \in Runners : job[r].pc # "idle" => job[r].ev \in Events
    BY TypeParts DEF JobsTyped, Handling, RunnerPC, Actors
  <1>2. ASSUME NEW e \in Events
        PROVE  /\ events'[e].state \in {"absent", "pending", EndState(events'[e].body)}
               /\ events'[e].state \in {"absent", "pending"} => events'[e].at = None
    <2>1. EventMove(e)
      BY DEF HandlingMove, EventsMove
    <2> QED
      BY <2>1 DEF EventMove, Handling, EndState
  <1>3. ASSUME NEW r \in Runners, job'[r].pc # "idle"
        PROVE  /\ job'[r].pc \in RunnerPC
               /\ events'[job'[r].ev].state # "absent"
               /\ job'[r].pc # "handed" => events'[job'[r].ev].body.sub # None
    <2>1. /\ job'[r].pc \in RunnerPC /\ job'[r].ev \in Events
          /\ events[job'[r].ev].state # "absent"
          /\ job'[r].pc # "handed" => events[job'[r].ev].body.sub # None
      BY <1>1, <1>3 DEF HandlingMove, RunnerMove, Handling, RunnerPC
    <2>2. EventMove(job'[r].ev)
      BY <2>1 DEF HandlingMove, EventsMove
    <2> QED
      BY <2>1, <2>2 DEF EventMove, EndState
  <1> QED
    BY <1>2, <1>3 DEF Handling

LEMMA MarkHandledMoves ==
    ASSUME TypeInv, Handling, NEW a \in Actors, MarkHandled(a),
           job[a].pc \notin {"idle", "handed"}
    PROVE  EventsMove
  <1>1. CASE a \in Runners
    <2>1. /\ job[a].ev \in Events /\ job[a].now \in Nat
          /\ events[job[a].ev].state # "absent" /\ events[job[a].ev].body.sub # None
      BY <1>1, TypeParts DEF JobsTyped, Job, Handling, RunnerPC
    <2>2. /\ events'[job[a].ev].state = "processed"
          /\ events'[job[a].ev].at = job[a].now
          /\ events'[job[a].ev].body = events[job[a].ev].body
          /\ \A e \in Events \ {job[a].ev} : events'[e] = events[e]
      BY <1>1, <2>1, MarkedRow, TypeParts
    <2> QED
      BY <2>1, <2>2 DEF EventsMove, EventMove, EndState
  <1>2. CASE a \notin Runners
    BY <1>2 DEF MarkHandled, EventsMove, EventMove
  <1> QED
    BY <1>1, <1>2

(* A session that ends its work: a runner has nothing left to do.          *)
LEMMA FinishMoves ==
    ASSUME TypeInv, Ownership, NEW a \in Actors, Finish(a)
    PROVE  \A r \in Runners : RunnerMove(r)
  <1>1. \A b \in Actors \ {a} : job'[b] = job[b]
    BY FinishLeaves
  <1>2. a \in Runners => job'[a].pc = "idle"
    BY TypeParts DEF Ownership, RunnersClaimNone, Finish, Set, IdleJob, JobsTyped
  <1> QED
    BY <1>1, <1>2 DEF RunnerMove, Actors

LEMMA LadderHandles ==
    ASSUME TypeInv, Ownership, Handling, NEW a \in Actors, LadderStep(a)
    PROVE  HandlingMove
  <1>1. /\ JobsTyped /\ job[a] \in Job
        /\ job[a].pc \notin {"idle", "claim", "next"} => job[a].ev \in Events
    BY TypeParts DEF JobsTyped
  <1>2. UNCHANGED events => EventsMove
    BY DEF EventsMove, EventMove
  <1>3. UNCHANGED outcomes => OutcomeMove
    BY DEF OutcomeMove
  <1>4. ASSUME EndDecision(a), job[a].pc = "decide", OutcomeMove
        PROVE  HandlingMove
    BY <1>4, MarkHandledMoves, FinishMoves DEF EndDecision, HandlingMove
  <1>5. ASSUME NEW j, Set(a, j), job[a].pc \notin {"idle", "handed"}, j.pc \in RunnerPC,
               j.ev = job[a].ev, UNCHANGED <<events, outcomes>>
        PROVE  HandlingMove
    <2>1. \A r \in Runners : RunnerMove(r)
      BY <1>1, <1>5 DEF Set, JobsTyped, RunnerMove, Actors, Handling
    <2> QED
      BY <1>2, <1>3, <1>5, <2>1 DEF HandlingMove
  <1>6. CASE ReadHistory(a)
    <2>1. PICK n, last : Set(a, [job[a] EXCEPT !.pc = "decide", !.n = n, !.last = last])
      BY <1>6 DEF ReadHistory
    <2> QED
      BY <1>1, <1>5, <1>6, <2>1 DEF ReadHistory, tables, RunnerPC, Job
  <1>7. CASE LinkCreated(a) \/ LinkError(a)
    <2>1. PICK pc \in {"linked", "linkerror"} : Set(a, [job[a] EXCEPT !.pc = pc])
      BY <1>7 DEF LinkCreated, LinkError
    <2> QED
      BY <1>1, <1>5, <1>7, <2>1 DEF LinkCreated, LinkError, tables, RunnerPC, Job
  <1>8. CASE RequestLink(a)
    <2>1. PICK id \in ActionIds :
            Set(a, [job[a] EXCEPT !.pc = "link", !.act = id, !.dirty = FALSE])
      BY <1>8 DEF RequestLink
    <2> QED
      BY <1>1, <1>5, <1>8, <2>1 DEF RequestLink, Proposes, RunnerPC, Job
  <1>9. CASE Skip(a) \/ ScheduleRetry(a) \/ LinkWithoutAmount(a)
    BY <1>3, <1>4, <1>9 DEF Skip, ScheduleRetry, LinkWithoutAmount, Proposes
  <1>10. CASE Conclude(a)
    <2>1. PICK type \in DOMAIN TerminalOutcome, id \in ActionIds :
            /\ job[a].pc = "decide" /\ EndDecision(a)
            /\ outcomes' = Append(outcomes, [act |-> id, ev |-> job[a].ev,
                                             kind |-> TerminalOutcome[type]])
      BY <1>10 DEF Conclude, Proposes
    <2>2. [act |-> id, ev |-> job[a].ev, kind |-> TerminalOutcome[type]] \in OutcomeRow
      BY <1>1, <2>1 DEF OutcomeRow, TerminalOutcome, OutcomeStatus
    <2> QED
      BY <1>4, <2>1, <2>2 DEF OutcomeMove
  <1>11. CASE DeferLink(a) \/ RecordLink(a) \/ RecordLinkError(a)
    <2>1. /\ job[a].pc \in {"link", "linked", "linkerror"} /\ MarkHandled(a) /\ Finish(a)
          /\ UNCHANGED outcomes
      BY <1>11 DEF DeferLink, RecordLink, RecordLinkError, EndLink
    <2> QED
      BY <1>3, <2>1, MarkHandledMoves, FinishMoves DEF HandlingMove
  <1> QED
    BY <1>6, <1>7, <1>8, <1>9, <1>10, <1>11 DEF LadderStep

LEMMA RunnerHandles ==
    ASSUME TypeInv, Ownership, Handling, NEW r \in Runners, RunnerStep(r)
    PROVE  HandlingMove
  <1>1. r \in Actors /\ JobsTyped /\ RestTyped
    BY TypeParts DEF Actors
  <1>2. ASSUME Begins(r), EventsMove, RunnerMove(r)
        PROVE  HandlingMove
    BY <1>2 DEF Begins, HandlingMove, OutcomeMove, RunnerMove, Actors
  <1>3. ASSUME NEW e \in Events, HandOver(r, e) PROVE HandlingMove
    <2>1. /\ Begins(r) /\ events' = events /\ job[r].pc = "idle"
          /\ events[e].state = "pending" /\ job'[r].pc = "handed" /\ job'[r].ev = e
      BY <1>1, <1>3, HandOverBegins
    <2> QED
      BY <1>2, <2>1 DEF EventsMove, EventMove, RunnerMove
  <1>4. CASE SkipRun(r)
    <2> DEFINE e == job[r].ev
    <2>1. /\ Begins(r) /\ job'[r] = IdleJob /\ e \in Events /\ job[r].pc = "handed"
          /\ events[e].body.sub = None /\ events'[e].state = "failed"
          /\ events'[e].at \in Nat /\ events'[e].body = events[e].body
          /\ \A f \in Events \ {e} : events'[f] = events[f]
      BY <1>1, <1>4, SkipRunBegins
    <2>2. events[e].state # "absent"
      BY <2>1 DEF Handling
    <2>3. RunnerMove(r)
      BY <2>1 DEF RunnerMove, IdleJob
    <2> HIDE DEF e
    <2>4. EventsMove
      BY <2>1, <2>2 DEF EventsMove, EventMove, EndState
    <2> QED
      BY <1>2, <2>1, <2>3, <2>4
  <1>5. CASE StartRun(r)
    <2>1. /\ Begins(r) /\ events' = events /\ job[r].pc = "handed"
          /\ events[job[r].ev].body.sub # None
          /\ job'[r].pc = "history" /\ job'[r].ev = job[r].ev
      BY <1>1, <1>5, StartRunBegins
    <2> QED
      BY <1>2, <2>1 DEF EventsMove, EventMove, RunnerMove, RunnerPC
  <1> QED
    BY <1>1, <1>3, <1>4, <1>5, LadderHandles DEF RunnerStep

(* A worker writes no event.                                               *)
LEMMA WorkerHandles ==
    ASSUME TypeInv, Ownership, Handling, NEW w \in Workers, WorkerStep(w)
    PROVE  HandlingMove
  <1>1. /\ w \in Actors /\ w \notin Runners /\ JobsTyped /\ job[w] \in Job
        /\ job[w].pc \notin {"idle", "claim", "next"} =>
              job[w].ev \in Events /\ job[w].act \in ActionIds
    BY TypeParts, ExecutorAssumption DEF Actors, JobsTyped
  <1>2. CASE LadderStep(w)
    BY <1>1, <1>2, LadderHandles
  <1>3. ASSUME UNCHANGED events, OutcomeMove, \A b \in Actors \ {w} : job'[b] = job[b]
        PROVE  HandlingMove
    BY <1>1, <1>3 DEF HandlingMove, EventsMove, EventMove, RunnerMove, Actors
  <1>4. (\E j : Set(w, j)) => \A b \in Actors \ {w} : job'[b] = job[b]
    BY <1>1 DEF Set, JobsTyped
  <1>5. CASE ClaimSelect(w) \/ ClaimCommit(w) \/ StartRetry(w) \/ Fetch(w) \/ Relapse(w)
    <2>1. UNCHANGED <<events, outcomes>>
      BY <1>5 DEF ClaimSelect, ClaimCommit, StartRetry, Fetch, Relapse, tables
    <2>2. \E j : Set(w, j)
      BY <1>5 DEF ClaimSelect, ClaimCommit, StartRetry, Fetch, Relapse
    <2> QED
      BY <1>3, <1>4, <2>1, <2>2 DEF OutcomeMove
  <1>6. CASE DeferRetry(w) \/ FetchError(w)
    <2>1. UNCHANGED <<events, outcomes>> /\ Finish(w)
      BY <1>6 DEF DeferRetry, FetchError, EndRetry
    <2> QED
      BY <1>1, <1>3, <2>1, FinishLeaves DEF OutcomeMove
  <1>7. CASE Recover(w)
    <2>1. /\ UNCHANGED events /\ Finish(w) /\ job[w].pc = "fetched"
          /\ outcomes' = Append(outcomes, [act |-> job[w].act, ev |-> job[w].ev,
                                           kind |-> "recovered"])
      BY <1>7 DEF Recover, EndRetry, MayFlush
    <2>2. [act |-> job[w].act, ev |-> job[w].ev, kind |-> "recovered"] \in OutcomeRow
      BY <1>1, <2>1 DEF OutcomeRow, OutcomeStatus
    <2> QED
      BY <1>1, <1>3, <2>1, <2>2, FinishLeaves DEF OutcomeMove
  <1> QED
    BY <1>2, <1>5, <1>6, <1>7 DEF WorkerStep

LEMMA EnvironmentHandles ==
    ASSUME TypeInv, Handling,
           \/ \E e \in Events : Ingest(e)
           \/ Tick
           \/ \E s \in Subs : LiveChange(s)
           \/ WireClient
           \/ \E a \in Actors : Abort(a)
           \/ UNCHANGED vars
    PROVE  HandlingMove
  <1>1. JobsTyped /\ events \in [Events -> EventRow]
    BY TypeParts DEF RestTyped
  <1>2. ASSUME NEW e \in Events, Ingest(e) PROVE HandlingMove
    BY <1>1, <1>2 DEF Ingest, HandlingMove, EventsMove, EventMove, OutcomeMove, RunnerMove
  <1>3. ASSUME NEW a \in Actors, Abort(a) PROVE HandlingMove
    BY <1>1, <1>3 DEF Abort, Set, JobsTyped, IdleJob, tables, Actors,
       HandlingMove, EventsMove, EventMove, OutcomeMove, RunnerMove
  <1>4. CASE UNCHANGED <<events, outcomes, job>>
    BY <1>4 DEF HandlingMove, EventsMove, EventMove, OutcomeMove, RunnerMove
  <1> QED
    BY <1>2, <1>3, <1>4 DEF Tick, LiveChange, WireClient, vars, tables

LEMMA HandlingNext ==
    ASSUME TypeInv, Ownership, Handling, [Next]_vars
    PROVE  HandlingMove
  <1>1. ASSUME NEW r \in Runners, RunnerNext(r) PROVE HandlingMove
    BY <1>1, RunnerHandles DEF RunnerNext
  <1>2. ASSUME NEW w \in Workers, WorkerNext(w) PROVE HandlingMove
    BY <1>2, WorkerHandles DEF WorkerNext
  <1> QED
    BY <1>1, <1>2, EnvironmentHandles DEF Next

LEMMA HandlingInit == Init => Handling
  BY DEF Init, Handling, AbsentEvent, IdleJob, Actors

THEOREM HandlingHolds == Spec => [](TypeInv /\ Ownership /\ Handling)
  <1>1. Init => TypeInv /\ Ownership /\ Handling
    BY TypeInit, OwnershipInit, HandlingInit
  <1>2. TypeInv /\ Ownership /\ Handling /\ [Next]_vars => (TypeInv /\ Ownership /\ Handling)'
    BY TypeStep, OwnershipNext, HandlingNext, HandlingKept
  <1> QED
    BY <1>1, <1>2, PTL DEF Spec

-----------------------------------------------------------------------------
(* What the audit trail and the metrics rest on is never rewritten         *)
(* (executor.py 373-397, 481-485, retry_scheduler.py 8-13, 25): settled    *)
(* actions, outcomes, audit entries, and how a failed payment was handled. *)
(* A second session may stamp a handled event once more, but with the      *)
(* status it has: which one depends on the body alone (EndState).          *)

FinalRows == \A id \in ActionIds :
    /\ actions[id].aud \subseteq actions'[id].aud
    /\ actions[id].status \in Settlements => actions'[id] = actions[id]

FinalEvents == \A e \in Events :
    events[e].state \in {"processed", "failed"} =>
        events'[e].state = events[e].state /\ events'[e].body = events[e].body

FinalOutcomes == \A i \in 1 .. Len(outcomes) :
    i <= Len(outcomes') /\ outcomes'[i] = outcomes[i]

LEMMA RowsAreFinal ==
    ASSUME TypeInv, Ownership, UNCHANGED actions \/ \E a \in Actors : RowStep(a)
    PROVE  FinalRows
  <1>1. ASSUME NEW a \in Actors, RowStep(a) PROVE FinalRows
    <2>1. \A id \in Owned(a) : actions[id].status \notin Settlements
      BY DEF Ownership, OwnedExecuting, Settlements
    <2> QED
      BY <1>1, <2>1 DEF RowStep, FinalRows, Settlements
  <1> QED
    BY <1>1 DEF FinalRows

LEMMA OutcomesAreFinal ==
    ASSUME TypeInv, OutcomeMove
    PROVE  FinalOutcomes
  <1>1. outcomes \in Seq(OutcomeRow)
    BY TypeParts DEF RestTyped
  <1> QED
    BY <1>1 DEF OutcomeMove, FinalOutcomes

THEOREM HistoryFinal == Spec => HistoryIsFinal
  <1>1. TypeInv /\ Ownership /\ Handling /\ [Next]_vars
           => [FinalRows /\ FinalEvents /\ FinalOutcomes]_vars
    <2> SUFFICES ASSUME TypeInv, Ownership, Handling, [Next]_vars
                 PROVE  FinalRows /\ FinalEvents /\ FinalOutcomes
      OBVIOUS
    <2>1. FinalRows
      BY OwnershipNext, RowsAreFinal
    <2>2. HandlingMove
      BY HandlingNext
    <2>3. FinalEvents
      <3> SUFFICES ASSUME NEW e \in Events, events[e].state \in {"processed", "failed"}
                   PROVE  events'[e].state = events[e].state /\ events'[e].body = events[e].body
        BY DEF FinalEvents
      <3>1. EventMove(e) /\ events[e].state = EndState(events[e].body)
        BY <2>2 DEF HandlingMove, EventsMove, Handling
      <3> QED
        BY <3>1 DEF EventMove
    <2>4. FinalOutcomes
      BY <2>2, OutcomesAreFinal DEF HandlingMove
    <2> QED
      BY <2>1, <2>3, <2>4
  <1> QED
    BY <1>1, HandlingHolds, PTL
    DEF Spec, HistoryIsFinal, FinalRows, FinalEvents, FinalOutcomes

-----------------------------------------------------------------------------
(* The audit entry of a call stands in the committed row from the moment   *)
(* the session is about to make it.                                        *)

LinkEntries == {"guardrail.allow", "razorpay.payment_link.requested"}

Announced ==
    /\ AuditPrecedesCall
    /\ \A w \in Workers : job[w].pc = "fetch" =>
          "recovery.retry.attempted" \in actions[job[w].act].aud
    /\ \A a \in Actors : job[a].pc = "link" => LinkEntries \subseteq actions[job[a].act].aud

AuditGrows == \A id \in ActionIds : actions[id].aud \subseteq actions'[id].aud

(* A session makes the call it has announced, or announces one.            *)
CallMove(a) ==
    /\ \A b \in Actors \ {a} : job'[b] = job[b]
    /\ \A id \in ActionIds :
          \/ fetches'[id] = fetches[id]
          \/ a \in Workers /\ job[a].pc = "fetch" /\ id = job[a].act
    /\ links' \subseteq links \cup (IF job[a].pc = "link" THEN {job[a].act} ELSE {})
    /\ job'[a].pc = "fetch" => "recovery.retry.attempted" \in actions'[job'[a].act].aud
    /\ job'[a].pc = "link" => LinkEntries \subseteq actions'[job'[a].act].aud

LEMMA AnnouncedKept ==
    ASSUME TypeInv, Announced, AuditGrows, NEW a \in Actors, CallMove(a)
    PROVE  Announced'
  <1>1. \A b \in Actors :
           (b \in Workers /\ job[b].pc = "fetch") \/ job[b].pc = "link" => job[b].act \in ActionIds
    BY TypeParts DEF JobsTyped
  <1>2. ASSUME NEW id \in ActionIds, fetches'[id] > 0
        PROVE  "recovery.retry.attempted" \in actions'[id].aud
    BY <1>2 DEF CallMove, Announced, AuditPrecedesCall, AuditGrows
  <1>3. ASSUME NEW id \in links'
        PROVE  LinkEntries \subseteq actions'[id].aud
    <2>1. LinkEntries \subseteq actions[id].aud /\ id \in ActionIds
      BY <1>1, <1>3, TypeParts
      DEF CallMove, Announced, AuditPrecedesCall, LinkEntries, RestTyped
    <2> QED
      BY <2>1 DEF AuditGrows
  <1>4. ASSUME NEW w \in Workers, job'[w].pc = "fetch"
        PROVE  "recovery.retry.attempted" \in actions'[job'[w].act].aud
    BY <1>1, <1>4 DEF CallMove, Announced, AuditGrows, Actors
  <1>5. ASSUME NEW b \in Actors, job'[b].pc = "link"
        PROVE  LinkEntries \subseteq actions'[job'[b].act].aud
    BY <1>1, <1>5 DEF CallMove, Announced, AuditGrows
  <1> QED
    BY <1>2, <1>3, <1>4, <1>5 DEF Announced, AuditPrecedesCall, LinkEntries

(* Sessions that stop, or are not about to make a call.                    *)
LEMMA QuietCalls ==
    ASSUME TypeInv, NEW a \in Actors, UNCHANGED <<links, fetches>>,
           Finish(a) \/ \E j : Set(a, j) /\ j.pc \notin {"fetch", "link"}
    PROVE  CallMove(a)
  <1>1. /\ job'[a].pc \notin {"fetch", "link"}
        /\ \A b \in Actors \ {a} : job'[b] = job[b]
    BY TypeParts, FinishJob DEF JobsTyped, Set
  <1> QED
    BY <1>1 DEF CallMove

LEMMA LadderCalls ==
    ASSUME TypeInv, NEW a \in Actors, LadderStep(a), UNCHANGED fetches
    PROVE  CallMove(a)
  <1>1. JobsTyped /\ RowsTyped /\ job[a] \in Job
    BY TypeParts DEF JobsTyped
  <1>2. CASE ReadHistory(a)
    <2>1. PICK n, last : Set(a, [job[a] EXCEPT !.pc = "decide", !.n = n, !.last = last])
      BY <1>2 DEF ReadHistory
    <2>2. [job[a] EXCEPT !.pc = "decide", !.n = n, !.last = last].pc = "decide"
      BY <1>1 DEF Job
    <2> QED
      BY <1>2, <2>1, <2>2, QuietCalls DEF ReadHistory
  <1>3. CASE LinkCreated(a) \/ LinkError(a)
    <2>1. PICK pc \in {"linked", "linkerror"} : Set(a, [job[a] EXCEPT !.pc = pc])
      BY <1>3 DEF LinkCreated, LinkError
    <2>2. /\ job'[a].pc = pc /\ \A b \in Actors \ {a} : job'[b] = job[b]
      BY <1>1, <2>1 DEF Set, JobsTyped, Job
    <2>3. job[a].pc = "link" /\ links' \subseteq links \cup {job[a].act}
      BY <1>3 DEF LinkCreated, LinkError
    <2> QED
      BY <2>2, <2>3 DEF CallMove
  <1>4. CASE Skip(a) \/ ScheduleRetry(a) \/ LinkWithoutAmount(a) \/ Conclude(a)
    <2>1. Finish(a) /\ UNCHANGED links
      BY <1>4 DEF Skip, ScheduleRetry, LinkWithoutAmount, Conclude, EndDecision
    <2> QED
      BY <2>1, QuietCalls
  <1>5. CASE DeferLink(a) \/ RecordLink(a) \/ RecordLinkError(a)
    <2>1. Finish(a) /\ UNCHANGED links
      BY <1>5 DEF DeferLink, RecordLink, RecordLinkError, EndLink
    <2> QED
      BY <2>1, QuietCalls
  <1>6. CASE RequestLink(a)
    <2>1. PICK id \in ActionIds :
            /\ Insert(a, id, NewRow(a, "executing", None, None,
                                    {"razorpay.payment_link.requested"}))
            /\ Set(a, [job[a] EXCEPT !.pc = "link", !.act = id, !.dirty = FALSE])
      BY <1>6 DEF RequestLink
    <2>2. /\ job'[a].pc = "link" /\ job'[a].act = id
          /\ \A b \in Actors \ {a} : job'[b] = job[b]
      BY <1>1, <2>1 DEF Set, JobsTyped, Job
    <2>3. job[a].pc = "decide" /\ Verdict(a) = "ok" /\ UNCHANGED links
      BY <1>6 DEF RequestLink, Proposes
    <2>4. actions'[id] = NewRow(a, "executing", None, None,
                                {"razorpay.payment_link.requested"})
      BY <2>1, <2>3, InsertRow DEF ActionStatus, AuditAction, Time
    <2>5. LinkEntries \subseteq actions'[id].aud
      BY <2>3, <2>4 DEF NewRow, LinkEntries
    <2> QED
      BY <2>2, <2>3, <2>5 DEF CallMove
  <1> QED
    BY <1>2, <1>3, <1>4, <1>5, <1>6 DEF LadderStep

LEMMA WorkerCalls ==
    ASSUME TypeInv, NEW w \in Workers, WorkerStep(w)
    PROVE  CallMove(w)
  <1>1. /\ w \in Actors /\ JobsTyped /\ RowsTyped /\ job[w] \in Job
        /\ fetches \in [ActionIds -> Nat]
    BY TypeParts DEF Actors, JobsTyped, RestTyped
  <1>2. CASE ClaimSelect(w) \/ ClaimCommit(w) \/ Relapse(w)
    <2>1. \/ \E B : Set(w, [IdleJob EXCEPT !.pc = "claim", !.now = clock, !.queue = B])
          \/ \E pc \in {"next", "history"} : Set(w, [job[w] EXCEPT !.pc = pc])
      BY <1>2 DEF ClaimSelect, ClaimCommit, Relapse
    <2>2. /\ job'[w].pc \notin {"fetch", "link"}
          /\ \A b \in Actors \ {w} : job'[b] = job[b]
      <3>1. ASSUME NEW B,
                   Set(w, [IdleJob EXCEPT !.pc = "claim", !.now = clock, !.queue = B])
            PROVE  /\ job'[w].pc = "claim" /\ \A b \in Actors \ {w} : job'[b] = job[b]
        BY <1>1, <3>1 DEF Set, IdleJob, JobsTyped
      <3>2. ASSUME NEW pc \in {"next", "history"}, Set(w, [job[w] EXCEPT !.pc = pc])
            PROVE  /\ job'[w].pc = pc /\ \A b \in Actors \ {w} : job'[b] = job[b]
        BY <1>1, <3>2 DEF Set, JobsTyped, Job
      <3> QED
        BY <2>1, <3>1, <3>2
    <2>3. UNCHANGED <<links, fetches>>
      BY <1>2 DEF ClaimSelect, ClaimCommit, Relapse
    <2> QED
      BY <2>2, <2>3 DEF CallMove
  <1>3. CASE StartRetry(w)
    <2>1. PICK id, ev, sub, cat, status :
            /\ id \in job[w].queue
            /\ actions' = [actions EXCEPT ![id].aud = @ \cup {"recovery.retry.attempted"}]
            /\ Set(w, [IdleJob EXCEPT !.pc = "fetch", !.act = id, !.ev = ev, !.sub = sub,
                                      !.cat = cat, !.status = status, !.now = job[w].now,
                                      !.queue = job[w].queue \ {id}])
      BY <1>3 DEF StartRetry
    <2>2. /\ job'[w].pc = "fetch" /\ job'[w].act = id
          /\ \A b \in Actors \ {w} : job'[b] = job[b]
      BY <1>1, <2>1 DEF IdleJob, Set, JobsTyped
    <2>3. id \in ActionIds
      BY <1>1, <2>1 DEF Job
    <2>4. "recovery.retry.attempted" \in actions'[id].aud
      BY <1>1, <2>1, <2>3 DEF RowsTyped, ActionRow
    <2> QED
      BY <1>3, <2>2, <2>4 DEF StartRetry, CallMove
  <1>4. CASE DeferRetry(w)
    BY <1>1, <1>4, QuietCalls DEF DeferRetry, EndRetry
  <1>5. CASE Recover(w)
    BY <1>1, <1>5, QuietCalls DEF Recover, EndRetry
  <1>6. CASE Fetch(w) \/ FetchError(w)
    <2>1. /\ job'[w].pc \notin {"fetch", "link"}
          /\ \A b \in Actors \ {w} : job'[b] = job[b]
      <3>1. CASE Fetch(w)
        <4>1. PICK status, dirty :
                Set(w, [job[w] EXCEPT !.pc = "fetched", !.status = status, !.dirty = dirty])
          BY <3>1 DEF Fetch
        <4> QED
          BY <1>1, <4>1 DEF Set, JobsTyped, Job
      <3>2. CASE FetchError(w)
        <4>1. Finish(w) /\ job \in [Actors -> Job]
          BY <1>1, <3>2 DEF FetchError, EndRetry, JobsTyped
        <4> QED
          BY <1>1, <4>1, FinishJob
      <3> QED
        BY <1>6, <3>1, <3>2
    <2>2. /\ job[w].pc = "fetch" /\ UNCHANGED links
          /\ fetches' = [fetches EXCEPT ![job[w].act] = @ + 1]
      BY <1>6 DEF Fetch, FetchError, EndRetry, Call
    <2> QED
      BY <1>1, <2>1, <2>2 DEF CallMove
  <1>7. CASE LadderStep(w) /\ UNCHANGED <<live, fetches>>
    BY <1>1, <1>7, LadderCalls
  <1> QED
    BY <1>2, <1>3, <1>4, <1>5, <1>6, <1>7 DEF WorkerStep

LEMMA RunnerCalls ==
    ASSUME TypeInv, Ownership, NEW r \in Runners, RunnerStep(r), UNCHANGED fetches
    PROVE  CallMove(r)
  <1>1. r \in Actors /\ JobsTyped
    BY TypeParts DEF Actors
  <1>2. CASE Begins(r)
    BY <1>1, <1>2 DEF Begins, CallMove
  <1> QED
    BY <1>1, <1>2, LadderCalls, RunnerSteps, TypeParts

LEMMA AnnouncedNext ==
    ASSUME TypeInv, Ownership, Announced, [Next]_vars
    PROVE  Announced'
  <1>1. AuditGrows
    BY OwnershipNext DEF RowStep, AuditGrows
  <1>2. ASSUME NEW r \in Runners, RunnerNext(r) PROVE Announced'
    BY <1>1, <1>2, RunnerCalls, AnnouncedKept DEF RunnerNext, Actors
  <1>3. ASSUME NEW w \in Workers, WorkerNext(w) PROVE Announced'
    BY <1>1, <1>3, WorkerCalls, AnnouncedKept DEF WorkerNext, Actors
  <1>4. ASSUME NEW a \in Actors, Abort(a) PROVE Announced'
    <2>1. Set(a, IdleJob) /\ IdleJob.pc = "idle" /\ UNCHANGED <<links, fetches>>
      BY <1>4 DEF Abort, IdleJob
    <2>2. CallMove(a)
      BY <2>1, QuietCalls
    <2> QED
      BY <1>1, <2>2, AnnouncedKept
  <1>5. CASE UNCHANGED <<actions, links, fetches, job>>
    BY <1>5 DEF Announced, AuditPrecedesCall
  <1> QED
    BY <1>2, <1>3, <1>4, <1>5
    DEF Next, Ingest, Tick, LiveChange, WireClient, vars, tables

LEMMA AnnouncedInit == Init => Announced
  BY DEF Init, Announced, AuditPrecedesCall, IdleJob, Actors

(* "Audit precedes execution" (retry_scheduler.py 25, executor.py 512),    *)
(* wherever the process died.                                              *)
THEOREM AuditFirst == Spec => []AuditPrecedesCall
  <1>1. Init => TypeInv /\ Ownership /\ Announced
    BY TypeInit, OwnershipInit, AnnouncedInit
  <1>2. TypeInv /\ Ownership /\ Announced /\ [Next]_vars
           => (TypeInv /\ Ownership /\ Announced)'
    BY TypeStep, OwnershipNext, AnnouncedNext
  <1>3. Announced => AuditPrecedesCall
    BY DEF Announced
  <1> QED
    BY <1>1, <1>2, <1>3, PTL DEF Spec
-----------------------------------------------------------------------------
(***************************************************************************)
(* One outcome for a failed payment, and the abstract inbox: an event has  *)
(* at most one live retry, and once it has an outcome it has none; who     *)
(* adds a retry or an outcome holds the one live retry, or, as a runner    *)
(* that alone was handed the event, knows that there is none.              *)
(***************************************************************************)

Handled(e) == events[e].state \notin {"absent", "pending"}

LiveOf(e) == {id \in ActionIds :
    /\ actions[id].type = "retry_charge" /\ actions[id].ev = e
    /\ actions[id].status \in {"scheduled", "executing"}}

Concluded(e) == \E i \in 1 .. Len(outcomes) : outcomes[i].ev = e

Episodes ==
    /\ \A e \in Events : LiveOf(e) # {} \/ Concluded(e) => Handled(e)
    /\ \A e \in Events : LiveOf(e) # {} => ~Concluded(e)
    /\ \A e \in Events : \A x, y \in LiveOf(e) : x = y
    /\ OneOutcomePerEvent

(* The runners in flight have one pending event each.                      *)
Exclusive ==
    /\ \A r \in Runners : job[r].pc # "idle" => events[job[r].ev].state = "pending"
    /\ \A q, r \in Runners :
          job[q].pc # "idle" /\ job[r].pc # "idle" /\ job[q].ev = job[r].ev => q = r

(* What a worker has claimed are retries, and it works for the event of    *)
(* the retry it has taken up.                                              *)
RetryPC == {"fetch", "fetched", "history", "decide"}

WorkersRetry == \A w \in Workers :
    /\ \A id \in job[w].queue : actions[id].type = "retry_charge"
    /\ job[w].pc \in RetryPC =>
          actions[job[w].act].type = "retry_charge" /\ actions[job[w].act].ev = job[w].ev

EpisodeInv == TypeInv /\ Ownership /\ Handling /\ Exclusive /\ WorkersRetry /\ Episodes

-----------------------------------------------------------------------------
(* What a step does to the episodes.                                       *)

OthersShrink(e) == \A f \in Events \ {e} : LiveOf(f)' \subseteq LiveOf(f)

Quiet == (\A e \in Events : LiveOf(e)' \subseteq LiveOf(e)) /\ UNCHANGED outcomes

Schedules(e) ==
    /\ ~Concluded(e) /\ Handled(e)' /\ OthersShrink(e)
    /\ \A x, y \in LiveOf(e)' : x = y
    /\ UNCHANGED outcomes

Concludes(e) ==
    /\ ~Concluded(e) /\ Handled(e)' /\ OthersShrink(e)
    /\ LiveOf(e)' = {}
    /\ \E o \in OutcomeRow : o.ev = e /\ outcomes' = Append(outcomes, o)

EpisodeMove == Quiet \/ \E e \in Events : Schedules(e) \/ Concludes(e)

LEMMA EpisodesKept ==
    ASSUME TypeInv, Episodes, EventsMove, EpisodeMove
    PROVE  Episodes'
  <1>1. \A e \in Events : Handled(e) => Handled(e)'
    BY DEF EventsMove, EventMove, Handled, EndState
  <1>2. outcomes \in Seq(OutcomeRow)
    BY TypeParts DEF RestTyped
  <1>3. CASE Quiet
    <2>1. \A e \in Events : Concluded(e)' = Concluded(e)
      BY <1>3 DEF Quiet, Concluded
    <2>2. OneOutcomePerEvent'
      BY <1>3 DEF Quiet, Episodes, OneOutcomePerEvent
    <2> QED
      BY <1>1, <1>3, <2>1, <2>2 DEF Quiet, Episodes
  <1>4. ASSUME NEW e \in Events, Schedules(e) PROVE Episodes'
    <2>1. \A f \in Events : Concluded(f)' = Concluded(f)
      BY <1>4 DEF Schedules, Concluded
    <2>2. OneOutcomePerEvent'
      BY <1>4 DEF Schedules, Episodes, OneOutcomePerEvent
    <2> QED
      BY <1>1, <1>4, <2>1, <2>2 DEF Schedules, OthersShrink, Episodes
  <1>5. ASSUME NEW e \in Events, Concludes(e) PROVE Episodes'
    <2>1. PICK o \in OutcomeRow : o.ev = e /\ outcomes' = Append(outcomes, o)
      BY <1>5 DEF Concludes
    <2>2. /\ Len(outcomes') = Len(outcomes) + 1 /\ Len(outcomes) \in Nat
          /\ \A i \in 1 .. Len(outcomes) : outcomes'[i] = outcomes[i]
          /\ outcomes'[Len(outcomes) + 1] = o
      BY <1>2, <2>1
    <2>3. \A f \in Events \ {e} : Concluded(f)' => Concluded(f)
      BY <2>1, <2>2 DEF Concluded
    <2>4. \A i \in 1 .. Len(outcomes) : outcomes[i].ev # e
      BY <1>5 DEF Concludes, Concluded
    <2>5. OneOutcomePerEvent'
      <3> SUFFICES ASSUME NEW i \in 1 .. Len(outcomes'), NEW j \in 1 .. Len(outcomes'),
                          outcomes'[i].ev = outcomes'[j].ev
                   PROVE  i = j
        BY DEF OneOutcomePerEvent
      <3>1. CASE i \in 1 .. Len(outcomes) /\ j \in 1 .. Len(outcomes)
        BY <2>2, <3>1 DEF Episodes, OneOutcomePerEvent
      <3>2. CASE i = Len(outcomes) + 1 \/ j = Len(outcomes) + 1
        BY <2>1, <2>2, <2>4, <3>2
      <3> QED
        BY <2>2, <3>1, <3>2
    <2> QED
      BY <1>1, <1>5, <2>3, <2>5 DEF Concludes, OthersShrink, Episodes
  <1> QED
    BY <1>3, <1>4, <1>5 DEF EpisodeMove

-----------------------------------------------------------------------------
(* Who decides is entitled to: nobody else has the event.                  *)

Entitled(a) ==
    /\ ~Concluded(job[a].ev)
    /\ \A id \in LiveOf(job[a].ev) : a \in Workers /\ id = job[a].act
    /\ a \in Workers => Handled(job[a].ev)

LEMMA EntitledTo ==
    ASSUME EpisodeInv, NEW a \in Actors, job[a].pc \in RetryPC
    PROVE  Entitled(a)
  <1>1. job[a].ev \in Events /\ (a \in Workers => job[a].act \in ActionIds)
    BY TypeParts DEF EpisodeInv, JobsTyped, RetryPC
  <1>2. CASE a \in Workers
    <2>1. actions[job[a].act].status = "executing"
      BY <1>2 DEF EpisodeInv, Ownership, OwnedExecuting, Owned, AtHand, RetryPC
    <2>2. job[a].act \in LiveOf(job[a].ev)
      BY <1>1, <1>2, <2>1 DEF EpisodeInv, WorkersRetry, LiveOf
    <2> QED
      BY <1>1, <1>2, <2>2 DEF EpisodeInv, Episodes, Entitled
  <1>3. CASE a \notin Workers
    <2>1. ~Handled(job[a].ev)
      BY <1>3 DEF EpisodeInv, Exclusive, Handled, Actors, RetryPC
    <2> QED
      BY <1>1, <1>3, <2>1 DEF EpisodeInv, Episodes, Entitled
  <1> QED
    BY <1>2, <1>3

(* The event is handled once the decision is committed.                    *)
LEMMA DecidedHandled ==
    ASSUME EpisodeInv, NEW a \in Actors, job[a].pc \in RetryPC, MarkHandled(a),
           NEW e \in Events, e = job[a].ev
    PROVE  Handled(e)'
  <1>1. JobsTyped /\ RestTyped /\ job[a].ev \in Events
    BY TypeParts DEF EpisodeInv, JobsTyped, RetryPC
  <1>2. CASE a \in Runners
    <2>1. events'[e].state = "processed"
      BY <1>1, <1>2, MarkedRow
    <2> QED
      BY <2>1 DEF Handled
  <1>3. CASE a \notin Runners
    <2>1. a \in Workers /\ UNCHANGED events
      BY <1>3 DEF MarkHandled, Actors
    <2>2. Entitled(a)
      BY EntitledTo
    <2> QED
      BY <1>1, <2>1, <2>2 DEF Handled, Entitled
  <1> QED
    BY <1>2, <1>3

(* Rows keep what they are about.                                          *)
Keeps == \A id \in ActionIds : actions[id].status # "absent" =>
    actions'[id].type = actions[id].type /\ actions'[id].ev = actions[id].ev

LEMMA SettleEpisodes ==
    ASSUME TypeInv, NEW a \in Actors, AtHand(a) = {job[a].act},
           NEW status \in {"planned", "executed", "failed"}, NEW exec \in Time,
           NEW entries, entries \subseteq AuditAction, NEW response \in {None, "answer"},
           actions' = Settle(a, status, exec, entries, response)
    PROVE  Keeps /\ \A e \in Events : LiveOf(e)' \subseteq LiveOf(e) \ {job[a].act}
  <1>1. status \in ActionStatus
    BY DEF ActionStatus
  <1>2. /\ actions'[job[a].act].status = status
        /\ \A id \in ActionIds \ {job[a].act} : actions'[id] = actions[id]
        /\ SameSubject(actions')
    BY <1>1, SettleSteps
  <1> QED
    BY <1>2 DEF Keeps, LiveOf, SameSubject

LEMMA InsertEpisodes ==
    ASSUME EpisodeInv, NEW a \in Actors, job[a].pc = "decide", NEW id \in ActionIds,
           NEW status \in ActionStatus, NEW sched \in Time, NEW exec \in Time,
           NEW entries, entries \subseteq AuditAction,
           Insert(a, id, NewRow(a, status, sched, exec, entries)),
           NEW e \in Events, e = job[a].ev
    PROVE  /\ Keeps
           /\ LiveOf(e)' \subseteq {id}
           /\ OthersShrink(e)
           /\ Choice(a).type # "retry_charge" \/ status \notin {"scheduled", "executing"}
                 => \A f \in Events : LiveOf(f)' \subseteq LiveOf(f) \ {id}
  <1>1. /\ actions[id].status = "absent"
        /\ actions'[id] = NewRow(a, status, sched, exec, entries)
        /\ a \in Workers => actions'[job[a].act].status = "failed"
        /\ \A y \in ActionIds \ {id} :
              /\ actions'[y].type = actions[y].type /\ actions'[y].ev = actions[y].ev
              /\ y # job[a].act \/ a \notin Workers => actions'[y] = actions[y]
    BY InsertSteps DEF EpisodeInv
  <1>2. Keeps
    BY <1>1 DEF Keeps
  <1>3. \A f \in Events : \A y \in LiveOf(f)' : y # id => y \in LiveOf(f)
    BY <1>1 DEF LiveOf
  <1>4. \A y \in LiveOf(e)' : y = id
    <2>1. Entitled(a)
      BY EntitledTo DEF RetryPC
    <2>2. a \in Workers => job[a].act \notin LiveOf(e)'
      BY <1>1 DEF LiveOf
    <2>3. \A y \in LiveOf(e) : a \in Workers /\ y = job[a].act
      BY <2>1 DEF Entitled
    <2> QED
      BY <1>3, <2>1, <2>2, <2>3
  <1>5. /\ actions'[id].ev = e /\ actions'[id].type = Choice(a).type
        /\ actions'[id].status = status
    BY <1>1 DEF NewRow
  <1>6. OthersShrink(e)
    BY <1>3, <1>5 DEF OthersShrink, LiveOf
  <1>7. Choice(a).type # "retry_charge" \/ status \notin {"scheduled", "executing"}
            => \A f \in Events : id \notin LiveOf(f)'
    BY <1>5 DEF LiveOf
  <1> QED
    BY <1>2, <1>3, <1>4, <1>6, <1>7

-----------------------------------------------------------------------------
(* What a step does to the sessions: a worker takes up a retry of its      *)
(* queue and keeps to it; a runner takes a pending event nobody else has.  *)

WorkMove(a) ==
    /\ \A b \in Actors \ {a} : job'[b] = job[b]
    /\ a \in Workers =>
          /\ \A id \in job'[a].queue : id \in job[a].queue \/ id \in Due
          /\ job'[a].pc \in RetryPC =>
                \/ /\ job[a].pc \in RetryPC
                   /\ job'[a].act = job[a].act /\ job'[a].ev = job[a].ev
                \/ /\ job'[a].act \in job[a].queue
                   /\ actions[job'[a].act].ev = job'[a].ev

HandMove ==
    /\ \A e \in Events : events[e].state = "pending" /\ events'[e].state # "pending" =>
          \A q \in Runners : job'[q].pc # "idle" => job'[q].ev # e
    /\ \A q \in Runners : job'[q].pc # "idle" =>
          \/ job[q].pc # "idle" /\ job'[q].ev = job[q].ev
          \/ /\ job'[q].ev \in Events /\ events[job'[q].ev].state = "pending"
             /\ \A p \in Runners \ {q} : job'[p].pc # "idle" => job'[p].ev # job'[q].ev

LEMMA WorkersRetryKept ==
    ASSUME TypeInv, Ownership, WorkersRetry, Keeps, NEW a \in Actors, WorkMove(a)
    PROVE  WorkersRetry'
  <1> SUFFICES ASSUME NEW w \in Workers
               PROVE  /\ \A id \in job'[w].queue : actions'[id].type = "retry_charge"
                      /\ job'[w].pc \in RetryPC =>
                            /\ actions'[job'[w].act].type = "retry_charge"
                            /\ actions'[job'[w].act].ev = job'[w].ev
    BY DEF WorkersRetry
  <1>1. w \in Actors /\ Owned(w) \subseteq ActionIds
    BY OwnedRows DEF Actors
  <1>2. \A id \in Owned(w) : actions[id].status # "absent"
    BY <1>1 DEF Ownership, OwnedExecuting
  <1>3. \A id \in job[w].queue : /\ id \in ActionIds /\ actions[id].status # "absent"
                                 /\ actions[id].type = "retry_charge"
    BY <1>1, <1>2 DEF Owned, WorkersRetry
  <1>4. \A id \in Due : /\ id \in ActionIds /\ actions[id].status # "absent"
                        /\ actions[id].type = "retry_charge"
    BY DEF Due
  <1>5. job[w].pc \in RetryPC =>
           /\ job[w].act \in ActionIds /\ actions[job[w].act].status # "absent"
           /\ actions[job[w].act].type = "retry_charge"
           /\ actions[job[w].act].ev = job[w].ev
    BY <1>1, <1>2 DEF Owned, AtHand, RetryPC, WorkersRetry
  <1>6. \A id \in job'[w].queue : id \in job[w].queue \/ id \in Due
    BY <1>1 DEF WorkMove
  <1>7. job'[w].pc \in RetryPC =>
           \/ /\ job[w].pc \in RetryPC
              /\ job'[w].act = job[w].act /\ job'[w].ev = job[w].ev
           \/ /\ job'[w].act \in job[w].queue
              /\ actions[job'[w].act].ev = job'[w].ev
    BY <1>1 DEF WorkMove
  <1> QED
    BY <1>3, <1>4, <1>5, <1>6, <1>7 DEF Keeps

LEMMA ExclusiveKept ==
    ASSUME TypeInv, Handling, Exclusive, HandMove
    PROVE  Exclusive'
  <1>1. \A r \in Runners : job[r].pc # "idle" => job[r].ev \in Events
    BY TypeParts DEF JobsTyped, Handling, RunnerPC, Actors
  <1>2. ASSUME NEW r \in Runners, job'[r].pc # "idle"
        PROVE  events'[job'[r].ev].state = "pending"
    <2>1. job'[r].ev \in Events /\ events[job'[r].ev].state = "pending"
      BY <1>1, <1>2 DEF HandMove, Exclusive
    <2> QED
      BY <1>2, <2>1 DEF HandMove
  <1>3. ASSUME NEW q \in Runners, NEW r \in Runners, job'[q].pc # "idle",
               job'[r].pc # "idle", job'[q].ev = job'[r].ev, q # r
        PROVE  FALSE
    BY <1>3 DEF HandMove, Exclusive
  <1> QED
    BY <1>2, <1>3 DEF Exclusive

(* A session ends the work on its event, or goes on with it.               *)
LEMMA LadderEnds ==
    ASSUME TypeInv, NEW a \in Actors, LadderStep(a)
    PROVE  /\ job[a].pc # "idle"
           /\ \/ /\ UNCHANGED events /\ job'[a].ev = job[a].ev
                 /\ job'[a].queue = job[a].queue
                 /\ job'[a].pc \in RetryPC =>
                       job[a].pc \in RetryPC /\ job'[a].act = job[a].act
                 /\ \A b \in Actors \ {a} : job'[b] = job[b]
              \/ MarkHandled(a) /\ Finish(a)
  <1>1. JobsTyped /\ job[a] \in Job
    BY TypeParts DEF JobsTyped
  <1>2. CASE ReadHistory(a)
    <2>1. PICK n, last : Set(a, [job[a] EXCEPT !.pc = "decide", !.n = n, !.last = last])
      BY <1>2 DEF ReadHistory
    <2>2. job[a].pc = "history" /\ UNCHANGED events
      BY <1>2 DEF ReadHistory, tables
    <2> QED
      BY <1>1, <2>1, <2>2 DEF Set, JobsTyped, Job, RetryPC
  <1>3. CASE LinkCreated(a) \/ LinkError(a)
    <2>1. PICK pc \in {"linked", "linkerror"} : Set(a, [job[a] EXCEPT !.pc = pc])
      BY <1>3 DEF LinkCreated, LinkError
    <2>2. job[a].pc = "link" /\ UNCHANGED events
      BY <1>3 DEF LinkCreated, LinkError, tables
    <2> QED
      BY <1>1, <2>1, <2>2 DEF Set, JobsTyped, Job, RetryPC
  <1>4. CASE RequestLink(a)
    <2>1. PICK id \in ActionIds :
            Set(a, [job[a] EXCEPT !.pc = "link", !.act = id, !.dirty = FALSE])
      BY <1>4 DEF RequestLink
    <2>2. job[a].pc = "decide" /\ UNCHANGED events
      BY <1>4 DEF RequestLink, Proposes
    <2> QED
      BY <1>1, <2>1, <2>2 DEF Set, JobsTyped, Job, RetryPC
  <1>5. CASE Skip(a) \/ ScheduleRetry(a) \/ LinkWithoutAmount(a) \/ Conclude(a)
    BY <1>5 DEF Skip, ScheduleRetry, LinkWithoutAmount, Conclude, Proposes, EndDecision
  <1>6. CASE DeferLink(a) \/ RecordLink(a) \/ RecordLinkError(a)
    BY <1>6 DEF DeferLink, RecordLink, RecordLinkError, EndLink
  <1> QED
    BY <1>2, <1>3, <1>4, <1>5, <1>6 DEF LadderStep

LEMMA LadderHands ==
    ASSUME EpisodeInv, NEW a \in Actors, LadderStep(a)
    PROVE  HandMove /\ WorkMove(a)
  <1>1. TypeInv /\ job \in [Actors -> Job] /\ events \in [Events -> EventRow]
    BY TypeParts DEF EpisodeInv, JobsTyped, RestTyped
  <1>2. CASE /\ UNCHANGED events /\ job'[a].ev = job[a].ev
             /\ job'[a].queue = job[a].queue
             /\ job'[a].pc \in RetryPC =>
                   job[a].pc \in RetryPC /\ job'[a].act = job[a].act
             /\ \A b \in Actors \ {a} : job'[b] = job[b]
    BY <1>1, <1>2, LadderEnds DEF HandMove, WorkMove, Actors
  <1>3. CASE MarkHandled(a) /\ Finish(a)
    <2>1. /\ job'[a].pc \in {"idle", "next"} /\ job'[a].queue = job[a].queue
          /\ \A b \in Actors \ {a} : job'[b] = job[b]
      BY <1>1, <1>3, FinishJob
    <2>2. WorkMove(a)
      BY <2>1 DEF WorkMove, RetryPC
    <2>3. CASE a \notin Runners
      <3>1. UNCHANGED events
        BY <1>3, <2>3 DEF MarkHandled
      <3> QED
        BY <2>1, <2>2, <2>3, <3>1 DEF HandMove, Actors
    <2>4. CASE a \in Runners
      <3>1. job'[a].pc = "idle"
        BY <1>1, <1>3, <2>4
        DEF EpisodeInv, Ownership, RunnersClaimNone, Finish, Set, IdleJob
      <3>2. \A e \in Events : e # job[a].ev => events'[e] = events[e]
        BY <1>1, <1>3, <2>4, MarkedRow, TypeParts
      <3>3. job[a].pc # "idle"
        BY <1>1, LadderEnds
      <3>4. \A q \in Runners : job'[q].pc # "idle" =>
               q # a /\ job'[q] = job[q] /\ job[q].ev # job[a].ev
        BY <2>1, <2>4, <3>1, <3>3 DEF EpisodeInv, Exclusive, Actors
      <3> QED
        BY <2>2, <3>2, <3>4 DEF HandMove
    <2> QED
      BY <2>3, <2>4
  <1> QED
    BY <1>1, <1>2, <1>3, LadderEnds

-----------------------------------------------------------------------------
(* The steps.                                                              *)

LEMMA SameActions ==
    ASSUME UNCHANGED actions
    PROVE  Keeps /\ \A e \in Events : LiveOf(e)' \subseteq LiveOf(e)
  BY DEF Keeps, LiveOf

LEMMA LadderEpisodes ==
    ASSUME EpisodeInv, NEW a \in Actors, LadderStep(a)
    PROVE  EpisodeMove /\ Keeps
  <1>1. /\ TypeInv /\ JobsTyped /\ job[a] \in Job /\ None \in Time /\ job[a].now \in Time
        /\ job[a].n \in Nat /\ job[a].cat \in DiagnosisCategory
    BY TypeParts DEF EpisodeInv, JobsTyped, Job, Time
  <1>2. /\ {"planned", "executed", "failed", "skipped", "scheduled", "executing"}
              \subseteq ActionStatus
        /\ {} \subseteq AuditAction
        /\ {"razorpay.payment_link.created"} \subseteq AuditAction
        /\ {"razorpay.payment_link.failed"} \subseteq AuditAction
        /\ {"razorpay.payment_link.requested"} \subseteq AuditAction
        /\ {"recovery.retry.scheduled"} \subseteq AuditAction
        /\ \A type \in DOMAIN TerminalOutcome : {TerminalEntry[type]} \subseteq AuditAction
    BY DEF ActionStatus, AuditAction, TerminalOutcome, TerminalEntry
  <1>3. job[a].pc = "decide" => job[a].ev \in Events /\ Entitled(a)
    BY <1>1, EntitledTo DEF JobsTyped, RetryPC
  <1>4. ASSUME UNCHANGED <<actions, outcomes>> PROVE EpisodeMove /\ Keeps
    BY <1>4, SameActions DEF EpisodeMove, Quiet
  <1>5. CASE ReadHistory(a) \/ LinkCreated(a) \/ LinkError(a)
    BY <1>4, <1>5 DEF ReadHistory, LinkCreated, LinkError, tables
  <1>6. ASSUME NEW status \in ActionStatus, NEW sched \in Time, NEW exec \in Time,
               NEW entries, entries \subseteq AuditAction, NEW id \in ActionIds,
               job[a].pc = "decide", UNCHANGED outcomes,
               Insert(a, id, NewRow(a, status, sched, exec, entries)),
               Choice(a).type # "retry_charge" \/ status \notin {"scheduled", "executing"}
        PROVE  EpisodeMove /\ Keeps
    <2>1. Keeps /\ \A f \in Events : LiveOf(f)' \subseteq LiveOf(f)
      BY <1>3, <1>6, InsertEpisodes
    <2> QED
      BY <1>6, <2>1 DEF EpisodeMove, Quiet
  <1>7. CASE Skip(a)
    <2>1. PICK id \in ActionIds : Insert(a, id, NewRow(a, "skipped", None, None, {}))
      BY <1>7 DEF Skip
    <2>2. job[a].pc = "decide" /\ UNCHANGED outcomes
      BY <1>7 DEF Skip
    <2> QED
      BY <1>1, <1>2, <1>6, <2>1, <2>2
  <1>8. CASE LinkWithoutAmount(a)
    <2>1. PICK id \in ActionIds :
            Insert(a, id, NewRow(a, "failed", None, None, {"razorpay.payment_link.failed"}))
      BY <1>8 DEF LinkWithoutAmount
    <2>2. job[a].pc = "decide" /\ UNCHANGED outcomes
      BY <1>8 DEF LinkWithoutAmount, Proposes
    <2> QED
      BY <1>1, <1>2, <1>6, <2>1, <2>2
  <1>9. CASE RequestLink(a)
    <2>1. PICK id \in ActionIds :
            Insert(a, id, NewRow(a, "executing", None, None,
                                 {"razorpay.payment_link.requested"}))
      BY <1>9 DEF RequestLink
    <2>2. /\ job[a].pc = "decide" /\ UNCHANGED outcomes
          /\ Choice(a).type # "retry_charge"
      BY <1>9 DEF RequestLink, Proposes
    <2> QED
      BY <1>1, <1>2, <1>6, <2>1, <2>2
  <1>10. CASE ScheduleRetry(a)
    <2>1. PICK id \in ActionIds :
            Insert(a, id, NewRow(a, "scheduled", job[a].now + Choice(a).delay, None,
                                 {"recovery.retry.scheduled"}))
      BY <1>10 DEF ScheduleRetry
    <2>2. job[a].now + Choice(a).delay \in Time
      BY <1>1, DecideType DEF Choice, Job, Time
    <2>3. job[a].pc = "decide" /\ UNCHANGED outcomes /\ MarkHandled(a)
      BY <1>10 DEF ScheduleRetry, Proposes, EndDecision
    <2>4. PICK e \in Events : e = job[a].ev
      BY <1>3, <2>3
    <2>5. Keeps /\ LiveOf(e)' \subseteq {id} /\ OthersShrink(e)
      <3>1. "scheduled" \in ActionStatus /\ {"recovery.retry.scheduled"} \subseteq AuditAction
        BY <1>2
      <3> QED
        BY <1>1, <2>1, <2>2, <2>3, <2>4, <3>1, InsertEpisodes
    <2>6. ~Concluded(e) /\ Handled(e)'
      BY <1>3, <2>3, <2>4, DecidedHandled DEF Entitled, RetryPC
    <2>7. Schedules(e)
      BY <2>3, <2>5, <2>6 DEF Schedules
    <2> QED
      BY <2>5, <2>7 DEF EpisodeMove
  <1>11. CASE Conclude(a)
    <2>1. PICK type \in DOMAIN TerminalOutcome, id \in ActionIds :
            /\ Proposes(a, type) /\ EndDecision(a)
            /\ Insert(a, id, NewRow(a, "executed", None, job[a].now, {TerminalEntry[type]}))
            /\ outcomes' = Append(outcomes, [act |-> id, ev |-> job[a].ev,
                                             kind |-> TerminalOutcome[type]])
      BY <1>11 DEF Conclude
    <2>2. job[a].pc = "decide" /\ MarkHandled(a)
      BY <2>1 DEF Proposes, EndDecision
    <2>3. PICK e \in Events : e = job[a].ev
      BY <1>3, <2>2
    <2> DEFINE o == [act |-> id, ev |-> job[a].ev, kind |-> TerminalOutcome[type]]
    <2>4. o \in OutcomeRow /\ o.ev = e /\ outcomes' = Append(outcomes, o)
      BY <2>1, <2>3 DEF OutcomeRow, TerminalOutcome, OutcomeStatus
    <2>5. /\ Keeps /\ OthersShrink(e) /\ LiveOf(e)' \subseteq {id}
          /\ \A f \in Events : LiveOf(f)' \subseteq LiveOf(f) \ {id}
      <3> DEFINE entries == {TerminalEntry[type]}
      <3>1. /\ "executed" \in ActionStatus /\ entries \subseteq AuditAction
            /\ job[a].now \in Time /\ None \in Time
            /\ Insert(a, id, NewRow(a, "executed", None, job[a].now, entries))
        BY <1>1, <1>2, <2>1
      <3> HIDE DEF entries
      <3>2. /\ Keeps /\ LiveOf(e)' \subseteq {id} /\ OthersShrink(e)
            /\ Choice(a).type # "retry_charge" \/ "executed" \notin {"scheduled", "executing"}
                  => \A f \in Events : LiveOf(f)' \subseteq LiveOf(f) \ {id}
        BY <2>2, <2>3, <3>1, InsertEpisodes
      <3> QED
        BY <3>2
    <2>6. ~Concluded(e) /\ Handled(e)'
      BY <1>3, <2>2, <2>3, DecidedHandled DEF Entitled, RetryPC
    <2>7. Concludes(e)
      BY <2>4, <2>5, <2>6 DEF Concludes
    <2> QED
      BY <2>5, <2>7 DEF EpisodeMove
  <1>12. CASE DeferLink(a) \/ RecordLink(a) \/ RecordLinkError(a)
    <2>1. job[a].pc \in {"link", "linked", "linkerror"} /\ UNCHANGED outcomes
      BY <1>12 DEF DeferLink, RecordLink, RecordLinkError, EndLink
    <2>2. AtHand(a) = {job[a].act}
      BY <2>1 DEF AtHand
    <2>3. PICK status \in {"planned", "executed", "failed"}, exec \in Time,
               entries \in SUBSET AuditAction, response \in {None, "answer"} :
            actions' = Settle(a, status, exec, entries, response)
      BY <1>1, <1>2, <1>12 DEF DeferLink, RecordLink, RecordLinkError, EndLink
    <2>4. Keeps /\ \A e \in Events : LiveOf(e)' \subseteq LiveOf(e)
      BY <1>1, <2>2, <2>3, SettleEpisodes
    <2> QED
      BY <2>1, <2>4 DEF EpisodeMove, Quiet
  <1> QED
    BY <1>5, <1>7, <1>8, <1>9, <1>10, <1>11, <1>12 DEF LadderStep

LEMMA WorkerEpisodes ==
    ASSUME EpisodeInv, NEW w \in Workers, WorkerStep(w)
    PROVE  EpisodeMove /\ Keeps /\ HandMove /\ WorkMove(w)
  <1>1. /\ w \in Actors /\ w \notin Runners /\ TypeInv /\ JobsTyped /\ RowsTyped
        /\ job[w] \in Job /\ None \in Time /\ job[w].now \in Time
        /\ job[w].queue \subseteq ActionIds
        /\ job[w].pc \notin {"idle", "claim", "next"} =>
              job[w].ev \in Events /\ job[w].act \in ActionIds
    BY TypeParts, ExecutorAssumption DEF EpisodeInv, Actors, JobsTyped, Job, Time
  <1>2. CASE LadderStep(w)
    BY <1>1, <1>2, LadderEpisodes, LadderHands
  <1>3. ASSUME UNCHANGED events, \A b \in Actors \ {w} : job'[b] = job[b]
        PROVE  HandMove
    BY <1>1, <1>3 DEF HandMove, Actors
  <1>4. ASSUME Finish(w), UNCHANGED events PROVE HandMove /\ WorkMove(w)
    <2>1. /\ job'[w].pc \in {"idle", "next"} /\ job'[w].queue = job[w].queue
          /\ \A b \in Actors \ {w} : job'[b] = job[b]
      BY <1>1, <1>4, FinishJob DEF JobsTyped
    <2> QED
      BY <1>3, <1>4, <2>1 DEF WorkMove, RetryPC
  <1>5. CASE ClaimSelect(w)
    <2>1. PICK B \in SUBSET (Due \ LockedRows) :
            Set(w, [IdleJob EXCEPT !.pc = "claim", !.now = clock, !.queue = B])
      BY <1>5 DEF ClaimSelect
    <2>2. /\ job'[w].pc = "claim" /\ job'[w].queue \subseteq Due
          /\ \A b \in Actors \ {w} : job'[b] = job[b]
      BY <1>1, <2>1 DEF Set, IdleJob, JobsTyped
    <2>3. UNCHANGED <<events, actions, outcomes>>
      BY <1>5 DEF ClaimSelect, tables
    <2> QED
      BY <1>3, <2>2, <2>3, SameActions DEF EpisodeMove, Quiet, WorkMove, RetryPC
  <1>6. CASE ClaimCommit(w)
    <2>1. /\ job'[w].pc = "next" /\ job'[w].queue = job[w].queue
          /\ \A b \in Actors \ {w} : job'[b] = job[b]
      BY <1>1, <1>6 DEF ClaimCommit, Set, JobsTyped, Job
    <2>2. \A id \in ActionIds :
             /\ actions'[id].type = actions[id].type /\ actions'[id].ev = actions[id].ev
             /\ id \notin job[w].queue => actions'[id] = actions[id]
      BY <1>1, <1>6 DEF ClaimCommit, RowsTyped, ActionRow
    <2>3. \A id \in job[w].queue : actions[id].status = "scheduled"
      BY <1>1, <1>6 DEF EpisodeInv, Ownership, OwnedExecuting, Owned, ClaimCommit
    <2>4. Keeps /\ \A e \in Events : LiveOf(e)' \subseteq LiveOf(e)
      BY <2>2, <2>3 DEF Keeps, LiveOf
    <2>5. UNCHANGED <<events, outcomes>>
      BY <1>6 DEF ClaimCommit
    <2> QED
      BY <1>3, <2>1, <2>4, <2>5 DEF EpisodeMove, Quiet, WorkMove, RetryPC
  <1>7. CASE StartRetry(w)
    <2>1. PICK id, sub, cat, status :
            /\ id \in job[w].queue
            /\ actions' = [actions EXCEPT ![id].aud = @ \cup {"recovery.retry.attempted"}]
            /\ Set(w, [IdleJob EXCEPT !.pc = "fetch", !.act = id, !.ev = actions[id].ev,
                                      !.sub = sub, !.cat = cat, !.status = status,
                                      !.now = job[w].now, !.queue = job[w].queue \ {id}])
      BY <1>7 DEF StartRetry
    <2>2. /\ job'[w].act = id /\ job'[w].ev = actions[id].ev /\ id \in job[w].queue
          /\ job'[w].queue \subseteq job[w].queue
          /\ \A b \in Actors \ {w} : job'[b] = job[b]
      BY <1>1, <2>1 DEF IdleJob, Set, JobsTyped
    <2>3. \A y \in ActionIds : /\ actions'[y].status = actions[y].status
                               /\ actions'[y].type = actions[y].type
                               /\ actions'[y].ev = actions[y].ev
      BY <1>1, <2>1 DEF RowsTyped, ActionRow
    <2>4. Keeps /\ \A e \in Events : LiveOf(e)' \subseteq LiveOf(e)
      BY <2>3 DEF Keeps, LiveOf
    <2>5. UNCHANGED <<events, outcomes>>
      BY <1>7 DEF StartRetry
    <2> QED
      BY <1>3, <2>2, <2>4, <2>5 DEF EpisodeMove, Quiet, WorkMove
  <1>8. CASE Fetch(w) \/ Relapse(w)
    <2>1. /\ job[w].pc \in RetryPC /\ job'[w].act = job[w].act
          /\ job'[w].ev = job[w].ev /\ job'[w].queue = job[w].queue
          /\ \A b \in Actors \ {w} : job'[b] = job[b]
      <3>1. CASE Fetch(w)
        <4>1. PICK status, dirty :
                Set(w, [job[w] EXCEPT !.pc = "fetched", !.status = status, !.dirty = dirty])
          BY <3>1 DEF Fetch
        <4> QED
          BY <1>1, <3>1, <4>1 DEF Fetch, Call, Set, JobsTyped, Job, RetryPC
      <3>2. CASE Relapse(w)
        BY <1>1, <3>2 DEF Relapse, MayFlush, Set, JobsTyped, Job, RetryPC
      <3> QED
        BY <1>8, <3>1, <3>2
    <2>2. UNCHANGED <<events, actions, outcomes>>
      BY <1>8 DEF Fetch, Relapse, tables
    <2> QED
      BY <1>3, <2>1, <2>2, SameActions DEF EpisodeMove, Quiet, WorkMove
  <1>9. CASE DeferRetry(w) \/ FetchError(w)
    <2>1. job[w].pc = "fetch" /\ Finish(w) /\ UNCHANGED <<events, outcomes>>
      BY <1>9 DEF DeferRetry, FetchError, Call, EndRetry
    <2>2. AtHand(w) = {job[w].act}
      BY <2>1 DEF AtHand
    <2>3. PICK status \in {"planned", "failed"}, exec \in Time,
               entries \in SUBSET AuditAction, response \in {None, "answer"} :
            actions' = Settle(w, status, exec, entries, response)
      <3>1. {"recovery.retry.failed"} \subseteq AuditAction
        BY DEF AuditAction
      <3> QED
        BY <1>1, <1>9, <3>1 DEF DeferRetry, FetchError, EndRetry
    <2>4. Keeps /\ \A e \in Events : LiveOf(e)' \subseteq LiveOf(e)
      BY <1>1, <2>2, <2>3, SettleEpisodes
    <2> QED
      BY <1>4, <2>1, <2>4 DEF EpisodeMove, Quiet
  <1>10. CASE Recover(w)
    <2>1. job[w].pc = "fetched" /\ Finish(w) /\ UNCHANGED events
      BY <1>10 DEF Recover, MayFlush, EndRetry
    <2>2. AtHand(w) = {job[w].act}
      BY <2>1 DEF AtHand
    <2>3. PICK e \in Events : e = job[w].ev
      BY <1>1, <2>1
    <2>4. {"recovery.retry.recovered"} \subseteq AuditAction
      BY DEF AuditAction
    <2>5. actions' = Settle(w, "executed", job[w].now, {"recovery.retry.recovered"}, "answer")
      BY <1>10 DEF Recover, EndRetry
    <2>6. Keeps /\ \A f \in Events : LiveOf(f)' \subseteq LiveOf(f) \ {job[w].act}
      BY <1>1, <2>2, <2>4, <2>5, SettleEpisodes
    <2>7. Entitled(w)
      BY <1>1, <2>1, EntitledTo DEF RetryPC
    <2>8. LiveOf(e)' = {} /\ ~Concluded(e) /\ Handled(e)' /\ OthersShrink(e)
      BY <2>1, <2>3, <2>6, <2>7 DEF Entitled, Handled, OthersShrink
    <2> DEFINE o == [act |-> job[w].act, ev |-> job[w].ev, kind |-> "recovered"]
    <2>9. o \in OutcomeRow /\ o.ev = e
      BY <1>1, <2>1, <2>3 DEF OutcomeRow, OutcomeStatus
    <2>10. outcomes' = Append(outcomes, o)
      BY <1>10 DEF Recover
    <2>11. Concludes(e)
      BY <2>8, <2>9, <2>10 DEF Concludes
    <2> QED
      BY <1>4, <2>1, <2>6, <2>11 DEF EpisodeMove
  <1> QED
    BY <1>2, <1>5, <1>6, <1>7, <1>8, <1>9, <1>10 DEF WorkerStep

(* That the caller hands an event to one session at a time matters here.   *)
LEMMA RunnerEpisodes ==
    ASSUME ExclusiveHandOver, EpisodeInv, NEW r \in Runners, RunnerStep(r)
    PROVE  EpisodeMove /\ Keeps /\ HandMove /\ WorkMove(r)
  <1>1. r \in Actors /\ r \notin Workers /\ JobsTyped /\ RestTyped
    BY TypeParts, ExecutorAssumption DEF Actors, EpisodeInv
  <1>2. ASSUME Begins(r), HandMove
        PROVE  EpisodeMove /\ Keeps /\ HandMove /\ WorkMove(r)
    <2>1. UNCHANGED <<actions, outcomes>> /\ \A b \in Actors \ {r} : job'[b] = job[b]
      BY <1>2 DEF Begins
    <2> QED
      BY <1>1, <1>2, <2>1, SameActions DEF EpisodeMove, Quiet, WorkMove
  <1>3. ASSUME NEW e \in Events, HandOver(r, e)
        PROVE  Begins(r) /\ HandMove
    <2>1. \A q \in Runners : job[q].pc # "idle" => job[q].ev # e
      BY <1>3 DEF HandOver, Handed
    <2>2. /\ Begins(r) /\ events' = events /\ events[e].state = "pending"
          /\ job'[r].ev = e /\ \A b \in Actors \ {r} : job'[b] = job[b]
      BY <1>1, <1>3, HandOverBegins DEF Begins
    <2> QED
      BY <2>1, <2>2 DEF HandMove, Actors
  <1>4. CASE SkipRun(r)
    <2>1. /\ Begins(r) /\ job'[r].pc = "idle" /\ job[r].pc # "idle"
          /\ \A b \in Actors \ {r} : job'[b] = job[b]
          /\ \A f \in Events \ {job[r].ev} : events'[f] = events[f]
      BY <1>1, <1>4, SkipRunBegins DEF Begins, IdleJob
    <2>2. \A q \in Runners : job'[q].pc # "idle" =>
             q # r /\ job'[q] = job[q] /\ job[q].ev # job[r].ev
      BY <1>1, <2>1 DEF EpisodeInv, Exclusive, Actors
    <2> QED
      BY <1>2, <2>1, <2>2 DEF HandMove
  <1>5. CASE StartRun(r)
    <2>1. /\ Begins(r) /\ events' = events /\ job[r].pc = "handed"
          /\ job'[r].ev = job[r].ev /\ \A b \in Actors \ {r} : job'[b] = job[b]
      BY <1>1, <1>5, StartRunBegins DEF Begins
    <2> QED
      BY <1>2, <2>1 DEF HandMove, Actors
  <1>6. CASE LadderStep(r)
    BY <1>1, <1>6, LadderEpisodes, LadderHands
  <1> QED
    BY <1>2, <1>3, <1>4, <1>5, <1>6 DEF RunnerStep

(* The sessions write no event but their own, and a runner only the pending*)
(* one that it alone has.                                                  *)
LEMMA HandledStays ==
    ASSUME ExclusiveHandOver, EpisodeInv, [Next]_vars
    PROVE  \A e \in Events : events'[e] # events[e] => ~Handled(e)
  <1> DEFINE Written == \A e \in Events : events'[e] # events[e] => ~Handled(e)
  <1>1. JobsTyped /\ RestTyped /\ TypeInv
    BY TypeParts DEF EpisodeInv
  <1>2. ASSUME NEW a \in Actors, MarkHandled(a), job[a].pc # "idle" PROVE Written
    <2>1. \A e \in Events : events'[e] # events[e] => a \in Runners /\ e = job[a].ev
      BY <1>1, <1>2, MarkedRow
    <2> QED
      BY <1>2, <2>1 DEF EpisodeInv, Exclusive, Handled
  <1>3. UNCHANGED events => Written
    OBVIOUS
  <1>4. ASSUME NEW a \in Actors, LadderStep(a) PROVE Written
    BY <1>1, <1>2, <1>3, <1>4, LadderEnds
  <1>5. ASSUME NEW r \in Runners, RunnerNext(r) PROVE Written
    <2>1. ASSUME NEW e \in Events, HandOver(r, e) PROVE Written
      BY <1>3, <2>1 DEF HandOver, tables
    <2>2. CASE StartRun(r)
      BY <1>3, <2>2 DEF StartRun, tables
    <2>3. CASE SkipRun(r)
      <3>1. /\ job[r].pc = "handed"
            /\ \A e \in Events : events'[e] # events[e] => e = job[r].ev
        BY <1>1, <2>3, SkipRunBegins
      <3> QED
        BY <3>1 DEF EpisodeInv, Exclusive, Handled
    <2> QED
      BY <1>4, <1>5, <2>1, <2>2, <2>3 DEF RunnerNext, RunnerStep, Actors
  <1>6. ASSUME NEW w \in Workers, WorkerNext(w) PROVE Written
    <2>1. CASE UNCHANGED events
      BY <1>3, <2>1
    <2>2. CASE LadderStep(w)
      BY <1>4, <2>2 DEF Actors
    <2>3. UNCHANGED events \/ LadderStep(w)
      BY <1>6 DEF WorkerNext, WorkerStep, ClaimSelect, ClaimCommit, StartRetry, Fetch,
         Relapse, DeferRetry, FetchError, Recover, EndRetry, tables
    <2> QED
      BY <2>1, <2>2, <2>3
  <1>7. ASSUME NEW e \in Events, Ingest(e) PROVE Written
    BY <1>1, <1>7 DEF Ingest, RestTyped, Handled
  <1> QED
    BY <1>3, <1>5, <1>6, <1>7 DEF Next, Tick, LiveChange, WireClient, Abort, vars, tables

LEMMA EnvironmentEpisodes ==
    ASSUME EpisodeInv,
           \/ \E e \in Events : Ingest(e)
           \/ Tick
           \/ \E s \in Subs : LiveChange(s)
           \/ WireClient
           \/ \E a \in Actors : Abort(a)
           \/ UNCHANGED vars
    PROVE  EpisodeMove /\ Keeps /\ HandMove /\ \E a \in Actors : WorkMove(a)
  <1>1. /\ JobsTyped /\ events \in [Events -> EventRow] /\ Actors # {}
    BY TypeParts, Constants DEF EpisodeInv, RestTyped
  <1>2. UNCHANGED <<actions, outcomes>>
    BY DEF Ingest, Tick, LiveChange, WireClient, Abort, vars, tables
  <1>3. EpisodeMove /\ Keeps
    BY <1>2, SameActions DEF EpisodeMove, Quiet
  <1>4. ASSUME UNCHANGED job PROVE \E a \in Actors : WorkMove(a)
    BY <1>1, <1>4 DEF WorkMove
  <1>5. ASSUME NEW e \in Events, Ingest(e) PROVE HandMove /\ UNCHANGED job
    BY <1>1, <1>5 DEF Ingest, HandMove
  <1>6. ASSUME NEW a \in Actors, Abort(a) PROVE HandMove /\ WorkMove(a)
    <2>1. /\ job'[a].pc = "idle" /\ job'[a].queue = {} /\ UNCHANGED events
          /\ \A b \in Actors \ {a} : job'[b] = job[b]
      BY <1>1, <1>6 DEF Abort, Set, JobsTyped, IdleJob, tables
    <2> QED
      BY <2>1 DEF HandMove, WorkMove, RetryPC, Actors
  <1>7. ASSUME UNCHANGED <<events, job>> PROVE HandMove
    BY <1>7 DEF HandMove
  <1> QED
    BY <1>3, <1>4, <1>5, <1>6, <1>7 DEF Tick, LiveChange, WireClient, vars, tables

LEMMA EpisodeInit == Init => EpisodeInv
  <1> SUFFICES ASSUME Init PROVE EpisodeInv
    OBVIOUS
  <1>1. /\ \A a \in Actors : job[a].pc = "idle" /\ job[a].queue = {}
        /\ \A id \in ActionIds : actions[id].status = "absent"
        /\ outcomes = << >>
    BY DEF Init, IdleJob, AbsentRow
  <1>2. Episodes
    BY <1>1 DEF Episodes, LiveOf, Concluded, OneOutcomePerEvent
  <1>3. Exclusive /\ WorkersRetry
    BY <1>1 DEF Exclusive, WorkersRetry, RetryPC, Actors
  <1> QED
    BY <1>2, <1>3, TypeInit, OwnershipInit, HandlingInit DEF EpisodeInv

LEMMA EpisodeStep ==
    ASSUME ExclusiveHandOver, EpisodeInv, [Next]_vars
    PROVE  EpisodeInv'
  <1>1. EpisodeMove /\ Keeps /\ HandMove /\ \E a \in Actors : WorkMove(a)
    <2>1. ASSUME NEW r \in Runners, RunnerNext(r)
          PROVE  EpisodeMove /\ Keeps /\ HandMove /\ \E a \in Actors : WorkMove(a)
      BY <2>1, RunnerEpisodes DEF RunnerNext, Actors
    <2>2. ASSUME NEW w \in Workers, WorkerNext(w)
          PROVE  EpisodeMove /\ Keeps /\ HandMove /\ \E a \in Actors : WorkMove(a)
      BY <2>2, WorkerEpisodes DEF WorkerNext, Actors
    <2> QED
      BY <2>1, <2>2, EnvironmentEpisodes DEF Next
  <1>2. TypeInv' /\ Ownership'
    BY TypeStep, OwnershipNext DEF EpisodeInv
  <1>3. HandlingMove /\ Handling'
    BY HandlingNext, HandlingKept DEF EpisodeInv
  <1> QED
    BY <1>1, <1>2, <1>3, EpisodesKept, WorkersRetryKept, ExclusiveKept
    DEF EpisodeInv, HandlingMove

(* An episode ends once (executor.py 373-383, retry_scheduler.py 8-13): if *)
(* the caller hands each event to one session at a time, no failed payment *)
(* ever has two recorded outcomes.                                         *)
THEOREM OneOutcome ==
    ASSUME ExclusiveHandOver
    PROVE  Spec => []OneOutcomePerEvent
  <1>1. Init => EpisodeInv
    BY EpisodeInit
  <1>2. EpisodeInv /\ [Next]_vars => EpisodeInv'
    BY EpisodeStep
  <1>3. EpisodeInv => OneOutcomePerEvent
    BY DEF EpisodeInv, Episodes
  <1> QED
    BY <1>1, <1>2, <1>3, PTL DEF Spec

-----------------------------------------------------------------------------
(* The refinement of the inbox, by events that are handed to one session   *)
(* at a time.                                                              *)

inboxes == [e \in Events |-> InboxOf(e)]

inboxMarks == {"processed", "failed"} \X Nat

InboxStep(e) ==
    /\ inboxes' = [inboxes EXCEPT ![e] = inboxes'[e]]
    /\ \/ /\ inboxes[e] = <<"absent", None>>
          /\ inboxes'[e] = <<"pending", None>>
       \/ inboxes[e] = <<"pending", None>> /\ inboxes'[e] \in inboxMarks

(* A step leaves every row's mark alone, or stores an event, or marks one  *)
(* that waits: the session that marks it is the one that has it.           *)
LEMMA InboxMoves ==
    ASSUME EpisodeInv, HandlingMove,
           \A e \in Events : events'[e] # events[e] => ~Handled(e)
    PROVE  inboxes' = inboxes \/ \E e \in Events : InboxStep(e)
  <1>1. /\ \A e \in Events : inboxes[e] = InboxOf(e) /\ inboxes'[e] = InboxOf(e)'
        /\ DOMAIN inboxes = Events /\ DOMAIN inboxes' = Events
    BY DEF inboxes
  <1>2. CASE \A e \in Events : events'[e] = events[e]
    <2>1. \A e \in Events : InboxOf(e)' = InboxOf(e)
      BY <1>2 DEF InboxOf
    <2> QED
      BY <2>1 DEF inboxes
  <1>3. ASSUME NEW e \in Events, events'[e] # events[e]
        PROVE  InboxStep(e)
    <2>1. \A f \in Events \ {e} : InboxOf(f)' = InboxOf(f)
      BY <1>3 DEF HandlingMove, EventsMove, InboxOf
    <2>2. inboxes' = [inboxes EXCEPT ![e] = inboxes'[e]]
      BY <1>1, <2>1 DEF inboxes
    <2>3. /\ EventMove(e) /\ ~Handled(e)
          /\ events[e].state \in {"absent", "pending"} => events[e].at = None
      BY <1>3 DEF HandlingMove, EventsMove, EpisodeInv, Handling
    <2>4. \/ InboxOf(e) = <<"absent", None>> /\ InboxOf(e)' = <<"pending", None>>
          \/ InboxOf(e) = <<"pending", None>> /\ InboxOf(e)' \in inboxMarks
      BY <1>3, <2>3 DEF EventMove, Handled, EndState, InboxOf, inboxMarks
    <2> QED
      BY <1>1, <2>2, <2>4 DEF InboxStep
  <1> QED
    BY <1>2, <1>3

(* services/ingestion.py 9-12, executor.py 373-383, 481-485: if the caller *)
(* hands each event to one session at a time, the loop takes a webhook from*)
(* pending and marks it once; a row that is handled is not marked again,   *)
(* its processed_at included, and none is reopened. (With two sessions on  *)
(* one event the second marks it again: NeverReprocessed fails.)           *)
THEOREM InboxConsumed ==
    ASSUME ExclusiveHandOver
    PROVE  Spec => InboxImplemented
  <1>1. Init => inboxes = [e \in Events |-> <<"absent", None>>]
    BY DEF Init, inboxes, InboxOf, AbsentEvent
  <1>2. EpisodeInv /\ [Next]_vars => [\E e \in Events : InboxStep(e)]_inboxes
    <2> SUFFICES ASSUME EpisodeInv, [Next]_vars
                 PROVE  inboxes' = inboxes \/ \E e \in Events : InboxStep(e)
      OBVIOUS
    <2>1. HandlingMove
      BY HandlingNext DEF EpisodeInv
    <2>2. \A e \in Events : events'[e] # events[e] => ~Handled(e)
      BY HandledStays
    <2> QED
      BY <2>1, <2>2, InboxMoves
  <1>3. Init => EpisodeInv
    BY EpisodeInit
  <1>4. EpisodeInv /\ [Next]_vars => EpisodeInv'
    BY EpisodeStep
  <1>5. (\E e \in Events : InboxStep(e))
           => \E e \in Events : Inbox!Store(e) \/ Inbox!Handle(e)
    BY DEF InboxStep, inboxes, inboxMarks, Inbox!Store, Inbox!Handle
  <1> QED
    BY <1>1, <1>2, <1>3, <1>4, <1>5, PTL
    DEF Spec, InboxImplemented, Inbox!Spec, Inbox!Init, Inbox!Next, inboxes
=============================================================================
