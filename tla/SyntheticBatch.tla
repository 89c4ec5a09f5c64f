--------------------------- MODULE SyntheticBatch ---------------------------
(***************************************************************************)
(* scripts/run_synthetic_batch.py and app/synthetic.py: batches of made-up *)
(* failures, run one after the other against one database with a simulated *)
(* Razorpay client, which knows the cases of its own batch only. The       *)
(* executor and the worker run here in one session with nobody beside it,  *)
(* so that a step ends at a commit that changes the tables of this module; *)
(* Executor and RetryScheduler have the steps between. A tick of the clock *)
(* is the unit of the back-off tables. Abstracted: amounts, events,        *)
(* diagnoses (the texts of a case always give its category), the audit     *)
(* trail and the printed layout.                                           *)
(***************************************************************************)
EXTENDS Policy, Guardrail, FiniteSets

CONSTANTS
    Cases,          \* case ids in the order they are generated: 1 .. n, a bound
    Counts,         \* values of --count
    Ahead,          \* timedelta(days=8), in ticks
    LastTick,       \* bound: the last value of the clock
    Interrupts      \* bound: how many batches are interrupted

ASSUME BatchAssumption ==
    /\ Cases \subseteq Nat /\ IsFiniteSet(Cases)
    /\ Counts \subseteq Nat \ {0}
    /\ {Ahead, LastTick, Interrupts} \subseteq Nat
    /\ FundsBackoff[1] <= Ahead /\ GatewayBackoff[1] <= Ahead

VARIABLES
    cases,       \* case -> its category and recover_on_retry
    table,       \* recovery_actions: a sequence in the order of insertion
    resolved,    \* recovery_outcomes: case -> the kinds recorded
    batch,       \* the local variables of run_batch
    report,      \* case -> what the last batch that ended printed of it
    day,         \* datetime.now
    interrupted

batchVars == <<cases, table, resolved, batch, report, day, interrupted>>

-----------------------------------------------------------------------------
(* The order of the enumeration, and the categories with a retry rate.     *)
Categories == <<"insufficient_funds", "expired_or_invalid_card",
                "bank_or_gateway_error", "mandate_revoked", "other">>

MayRecover == {"insufficient_funds", "bank_or_gateway_error", "other"}

IdleBatch == [pc |-> "idle", cases |-> {}, todo |-> {}, scheduled |-> {}, now |-> 0,
              queue |-> << >>, executed |-> {}]

BatchInit ==
    /\ cases = [c \in {} |-> None]
    /\ table = << >>
    /\ resolved = [c \in Cases |-> {}]
    /\ batch = IdleBatch
    /\ report = [c \in Cases |-> None]
    /\ day = 0
    /\ interrupted = 0

(* generate_cases: categories in turn; whether a retry would recover is    *)
(* drawn where the category's rate is not zero.                            *)
Generate ==
    /\ batch.pc \in {"idle", "reported", "crashed"}
    /\ \E count \in Counts, lucky \in SUBSET Cases :
        LET first == Cardinality(DOMAIN cases)
            made == first + 1 .. first + count
            CategoryOf(c) == Categories[((c - first - 1) % Len(Categories)) + 1]
        IN  /\ made \subseteq Cases
            /\ lucky \subseteq {c \in made : CategoryOf(c) \in MayRecover}
            /\ cases' = [c \in DOMAIN cases \cup made |->
                  IF c \in made THEN [category |-> CategoryOf(c), recover |-> c \in lucky]
                  ELSE cases[c]]
            /\ batch' = [IdleBatch EXCEPT !.pc = "cases", !.cases = made,
                                          !.todo = made, !.now = day]
    /\ report' = [c \in Cases |-> None]
    /\ UNCHANGED <<table, resolved, day, interrupted>>

Attempts(c) == Cardinality({i \in DOMAIN table :
                                table[i].case = c /\ table[i].type = "retry_charge"})

(* The policy and the guardrail on case c, and the row that follows, when  *)
(* n attempts are in the table.                                            *)
Row(c, now, status, n) ==
    LET choice == Decide(cases[c].category, n)
        verdict == Evaluate(choice.type,
                            Context(now, status, cases[c].category = "mandate_revoked", n, None))
        retry == choice.type = "retry_charge"
    IN  [case |-> c, type |-> choice.type,
         status |-> IF verdict # "ok" THEN "skipped" ELSE IF retry THEN "scheduled" ELSE "executed",
         sched |-> IF verdict = "ok" /\ retry THEN now + choice.delay ELSE None]

Resolve(c, row) == [resolved EXCEPT ![c] =
    IF row.type = "escalate_manual" /\ row.status = "executed" THEN @ \cup {"escalated"} ELSE @]

(* A payment link is requested in a commit of its own, before the call.    *)
Requests(row) == row.type = "send_payment_link" /\ row.status = "executed"

Requested(row) == IF Requests(row) THEN [row EXCEPT !.status = "executing"] ELSE row

AfterCase(todo) == IF todo = {} THEN "claim" ELSE "cases"

(* run_recovery on the next case, and the lookup of what it scheduled. The *)
(* event carries no subscription status.                                   *)
RunCase ==
    /\ batch.pc = "cases"
    /\ \E c \in batch.todo :
        LET row == Row(c, batch.now, None, Attempts(c))
        IN  /\ \A d \in batch.todo : c <= d
            /\ table' = Append(table, Requested(row))
            /\ resolved' = Resolve(c, row)
            /\ batch' = [batch EXCEPT
                  !.pc = IF Requests(row) THEN "link" ELSE AfterCase(batch.todo \ {c}),
                  !.todo = @ \ {c},
                  !.scheduled = IF row.sched # None THEN @ \cup {Len(table) + 1} ELSE @]
    /\ UNCHANGED <<cases, report, day, interrupted>>

(* The simulated link, and the commit that ends run_recovery.              *)
RecordLink ==
    /\ batch.pc = "link"
    /\ table' = [table EXCEPT ![Len(table)].status = "executed"]
    /\ batch' = [batch EXCEPT !.pc = AfterCase(batch.todo)]
    /\ UNCHANGED <<cases, resolved, report, day, interrupted>>

Scheduled(i) == table[i].status = "scheduled" /\ table[i].type = "retry_charge"

(* Mutant: the retries are looked for as of today.                         *)
DueToday == {i \in DOMAIN table : Scheduled(i) /\ table[i].sched <= batch.now}

DueAhead == {i \in DOMAIN table : Scheduled(i) /\ table[i].sched <= batch.now + Ahead}

(* Mutant: the claimed rows are not flipped.                               *)
FlipNothing(taken) == table

Flip(taken) == [i \in DOMAIN table |->
    IF i \in taken THEN [table[i] EXCEPT !.status = "executing"] ELSE table[i]]

(* claim_due_retries: one row more than the batch has scheduled, whosever. *)
ClaimDue ==
    /\ batch.pc = "claim"
    /\ \E q \in UNION {[1 .. n -> DueAhead] : n \in 0 .. Cardinality(batch.scheduled) + 1} :
        LET taken == {q[k] : k \in DOMAIN q}
        IN  /\ Cardinality(taken) = Len(q)
            /\ \A k \in 2 .. Len(q) : table[q[k - 1]].sched <= table[q[k]].sched
            /\ \A i \in taken, j \in DueAhead \ taken : table[i].sched <= table[j].sched
            /\ DueAhead \subseteq taken \/ Len(q) = Cardinality(batch.scheduled) + 1
            /\ table' = Flip(taken)
            /\ batch' = [batch EXCEPT !.pc = "retries", !.queue = q]
    /\ UNCHANGED <<cases, resolved, report, day, interrupted>>

NextRetry == batch.pc = "retries" /\ batch.queue # << >>

RetriedCase == table[Head(batch.queue)].case

(* Mutant: the ladder goes on after a recovery.                            *)
RetriedAnyway(i, row) ==
    Append([table EXCEPT ![i].status = IF cases[row.case].recover THEN "executed" ELSE "failed"],
           row)

(* The attempt of row i settled, and the follow-up row of a failure.       *)
Retried(i, row) ==
    IF cases[row.case].recover THEN [table EXCEPT ![i].status = "executed"]
    ELSE Append([table EXCEPT ![i].status = "failed"], row)

(* execute_retry on a case of this batch: recovered, or down the ladder.   *)
(* The commit before the call (retry_scheduler.py 162) adds an audit entry *)
(* and changes none of these tables, so that a stop after it leaves what a *)
(* stop before it leaves. A batch only runs first retries, the next of     *)
(* which is a retry (max_retries is more than 1 in the configuration that  *)
(* the script uses), or an escalation: no link is requested here.          *)
ExecuteRetry ==
    /\ NextRetry
    /\ RetriedCase \in batch.cases
    /\ LET i == Head(batch.queue)
           c == RetriedCase
           row == Row(c, batch.now + Ahead, "halted", Attempts(c))
           recovers == cases[c].recover
       IN  /\ table' = Retried(i, row)
           /\ resolved' = IF recovers THEN [resolved EXCEPT ![c] = @ \cup {"recovered"}]
                          ELSE Resolve(c, row)
           /\ batch' = [batch EXCEPT !.queue = Tail(@),
                            !.executed = @ \cup {[row |-> i, recovered |-> recovers]}]
    /\ UNCHANGED <<cases, report, day, interrupted>>

(* The simulated client searches the cases of its own batch, and the search*)
(* ends in StopIteration: no HTTPError, so that the whole batch stops.     *)
UnknownCase ==
    /\ NextRetry
    /\ RetriedCase \notin batch.cases
    /\ batch' = [batch EXCEPT !.pc = "crashed"]
    /\ UNCHANGED <<cases, table, resolved, report, day, interrupted>>

Execution(i) == {x \in batch.executed : x.row = i}

(* Mutant: whatever was retried counts as recovered.                       *)
ResultIfTried(c) ==
    LET own == {i \in batch.scheduled : table[i].case = c}
    IN  IF own # {} THEN "recovered"
        ELSE IF cases[c].category = "mandate_revoked" THEN "mandate revoked"
        ELSE "payment link pending"

(* The loop over the cases: a scheduled one by the execution of its retry, *)
(* the others by their category.                                           *)
Result(c) ==
    LET own == {i \in batch.scheduled : table[i].case = c}
    IN  IF own # {}
        THEN IF \E i \in own : [row |-> i, recovered |-> TRUE] \in batch.executed
             THEN "recovered" ELSE "still at risk"
        ELSE IF cases[c].category = "mandate_revoked" THEN "mandate revoked"
        ELSE "payment link pending"

(* Every case has its result, unless a retry is missing among the executed.*)
Report ==
    /\ batch.pc = "retries" /\ batch.queue = << >>
    /\ IF \A i \in batch.scheduled : Execution(i) # {}
       THEN /\ batch' = [batch EXCEPT !.pc = "reported"]
            /\ report' = [c \in Cases |-> IF c \in batch.cases THEN Result(c) ELSE None]
       ELSE /\ batch' = [batch EXCEPT !.pc = "crashed"]
            /\ UNCHANGED report
    /\ UNCHANGED <<cases, table, resolved, day, interrupted>>

(* The script is stopped between two commits.                              *)
Interrupt ==
    /\ batch.pc \in {"cases", "link", "claim", "retries"} /\ interrupted < Interrupts
    /\ batch' = IdleBatch
    /\ interrupted' = interrupted + 1
    /\ UNCHANGED <<cases, table, resolved, report, day>>

NextDay ==
    /\ day < LastTick
    /\ day' = day + 1
    /\ UNCHANGED <<cases, table, resolved, batch, report, interrupted>>

BatchNext ==
    \/ Generate \/ RunCase \/ RecordLink \/ ClaimDue \/ ExecuteRetry \/ UnknownCase \/ Report
    \/ Interrupt \/ NextDay

BatchSpec == BatchInit /\ [][BatchNext]_batchVars

-----------------------------------------------------------------------------
(* Type invariant.                                                         *)

(* Every row belongs to a case, and what a batch queues, has scheduled or  *)
(* has executed are rows; a case is reported in words of the script's.     *)
BatchTypeOK ==
    /\ DOMAIN cases \subseteq Cases
    /\ \A i \in DOMAIN table :
          /\ table[i].case \in DOMAIN cases
          /\ table[i].type \in ActionType /\ table[i].status \in ActionStatus
          /\ table[i].sched \in Nat \cup {None}
    /\ resolved \in [Cases -> SUBSET OutcomeStatus]
    /\ batch.pc \in {"idle", "cases", "link", "claim", "retries", "reported", "crashed"}
    /\ batch.scheduled \subseteq DOMAIN table
    /\ \A k \in DOMAIN batch.queue : table[batch.queue[k]].status = "executing"
    /\ report \in [Cases -> {None, "recovered", "still at risk", "mandate revoked",
                             "payment link pending"}]

-----------------------------------------------------------------------------
(* Properties.                                                             *)

(* The recoveries the report counts (run_synthetic_batch.py 94-101,        *)
(* synthetic.py 90-96) are those in recovery_outcomes, neither more nor    *)
(* less, whatever batches came before and were interrupted.                *)
ReportCountsRecoveries == batch.pc = "reported" =>
    \A c \in batch.cases : report[c] = "recovered" <=> "recovered" \in resolved[c]

(* With 8 days ahead and one row more than it scheduled, a batch comes to  *)
(* its report unless another batch left rows behind: a batch only stops    *)
(* over a retry that is not its own.                                       *)
StopsOverLeftovers == batch.pc = "crashed" =>
    \E i \in DOMAIN table :
        /\ table[i].type = "retry_charge" /\ table[i].status = "executing"
        /\ table[i].case \notin batch.cases

(* No batch reopens a resolved case: one outcome, and nothing left to run. *)
ResolvedOnce == \A c \in Cases :
    /\ Cardinality(resolved[c]) <= 1
    /\ resolved[c] # {} => ~\E i \in DOMAIN table :
          table[i].case = c /\ table[i].status \in {"scheduled", "executing"}

-----------------------------------------------------------------------------
(* What the script says, and does not do.                                  *)

(* run_synthetic_batch.py 7-8: "due retries are then executed through the  *)
(* Phase-4 worker".                                                        *)
DueRetriesExecuted == batch.pc \in {"reported", "crashed"} =>
    \A i \in batch.scheduled : table[i].status \notin {"scheduled", "executing"}

(* run_synthetic_batch.py 104: "payment link pending".                     *)
PendingLinksExist == batch.pc = "reported" =>
    \A c \in batch.cases : report[c] = "payment link pending" =>
        \E i \in DOMAIN table : table[i].case = c /\ table[i].type = "send_payment_link"
=============================================================================
