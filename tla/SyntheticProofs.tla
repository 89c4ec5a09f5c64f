--------------------------- MODULE SyntheticProofs --------------------------
(***************************************************************************)
(* Why a batch counts what the database holds. A case belongs to the batch *)
(* that made it; it has one open row at a time and none once resolved; and *)
(* of the rows of its own cases a batch claims only those it scheduled,    *)
(* which are retries due within the days it looks ahead. A link that is    *)
(* requested is an open row too, which no claim takes.                     *)
(***************************************************************************)
EXTENDS SyntheticBatch, FiniteSetTheorems, SequenceTheorems, TLAPS

CaseRow == [category : DiagnosisCategory, recover : BOOLEAN]

TableRow == [case : Cases, type : ActionType, status : ActionStatus, sched : Nat \cup {None}]

Run == [pc : {"idle", "cases", "link", "claim", "retries", "reported", "crashed"},
        cases : SUBSET Cases, todo : SUBSET Cases, scheduled : SUBSET Nat, now : Nat,
        queue : Seq(Nat), executed : SUBSET [row : Nat, recovered : BOOLEAN]]

(* Cases are numbered as they are made; a batch is about cases and rows    *)
(* that exist.                                                             *)
Typed ==
    /\ cases \in [DOMAIN cases -> CaseRow] /\ DOMAIN cases \subseteq Cases
    /\ DOMAIN cases = 1 .. Cardinality(DOMAIN cases)
    /\ table \in Seq(TableRow)
    /\ \A i \in 1 .. Len(table) : table[i].case \in DOMAIN cases
    /\ resolved \in [Cases -> SUBSET OutcomeStatus]
    /\ report \in [Cases -> {None, "recovered", "still at risk", "mandate revoked",
                             "payment link pending"}]
    /\ day \in Nat
    /\ batch \in Run
    /\ batch.cases \subseteq DOMAIN cases /\ batch.scheduled \subseteq 1 .. Len(table)
    /\ \A k \in 1 .. Len(batch.queue) : batch.queue[k] \in 1 .. Len(table)

OpenRow(i) == table[i].status \in {"scheduled", "executing"}

(* One open row at a time, one outcome, and no open row beside it.         *)
OneLife ==
    /\ \A i, j \in 1 .. Len(table) :
          OpenRow(i) /\ OpenRow(j) /\ table[i].case = table[j].case => i = j
    /\ \A i \in 1 .. Len(table) : OpenRow(i) => resolved[table[i].case] = {}
    /\ \A c \in Cases : \A k, l \in resolved[c] : k = l

(* A case that is not made yet, or not run yet, has left nothing behind.   *)
Blank(c) == resolved[c] = {} /\ \A i \in 1 .. Len(table) : table[i].case # c

BlankCases ==
    /\ \A c \in Cases \ DOMAIN cases : Blank(c)
    /\ batch.todo \subseteq batch.cases
    /\ \A c \in batch.todo : Blank(c)

(* Up to the claim: the open retries of the batch are those it has         *)
(* scheduled, and they are due within the days ahead.                      *)
Planning ==
    /\ \A i \in batch.scheduled : table[i].case \in batch.cases
    /\ batch.pc \in {"cases", "link", "claim"} =>
          /\ batch.queue = << >> /\ batch.executed = {}
          /\ \A i \in 1 .. Len(table) :
                OpenRow(i) /\ table[i].type = "retry_charge" /\ table[i].case \in batch.cases
                   => i \in batch.scheduled
          /\ \A i \in batch.scheduled :
                table[i].status = "scheduled" /\ table[i].sched <= batch.now + Ahead

(* What is scheduled and what is queued are retries; the link that is      *)
(* being made is the last row, and none of them.                           *)
Kinds ==
    /\ \A i \in batch.scheduled : table[i].type = "retry_charge"
    /\ \A k \in 1 .. Len(batch.queue) : table[batch.queue[k]].type = "retry_charge"
    /\ batch.pc = "link" => Len(table) > 0 /\ table[Len(table)].type = "send_payment_link"

Waiting(i) == \E k \in 1 .. Len(batch.queue) : batch.queue[k] = i

(* From the claim on: what is queued is claimed, and queued once.          *)
Claimed ==
    /\ \A k \in 1 .. Len(batch.queue) :
          /\ table[batch.queue[k]].status = "executing"
          /\ table[batch.queue[k]].case \in batch.cases => batch.queue[k] \in batch.scheduled
    /\ \A k, l \in 1 .. Len(batch.queue) : batch.queue[k] = batch.queue[l] => k = l

Success(i) == [row |-> i, recovered |-> TRUE]

(* A recovery of the batch is one of a row that it has scheduled.          *)
Recoveries ==
    /\ \A i \in batch.scheduled :
          Success(i) \in batch.executed => "recovered" \in resolved[table[i].case]
    /\ \A c \in batch.cases : "recovered" \in resolved[c] =>
          \E i \in batch.scheduled : table[i].case = c /\ Success(i) \in batch.executed

Strange(k) == table[batch.queue[k]].case \notin batch.cases

(* No retry of the batch is missing, unless a row of another is queued.    *)
Complete == batch.pc = "retries" =>
    \/ \A i \in batch.scheduled : Execution(i) # {} \/ Waiting(i)
    \/ \E k \in 1 .. Len(batch.queue) : Strange(k)

BatchInv ==
    /\ Typed /\ OneLife /\ BlankCases /\ Planning /\ Kinds /\ Claimed /\ Recoveries
    /\ Complete
    /\ StopsOverLeftovers /\ ReportCountsRecoveries

-----------------------------------------------------------------------------
(* Operators.                                                              *)

LEMMA BatchConstants ==
    /\ MaxRetries \in Nat /\ Ahead \in Nat /\ None \notin Nat /\ None \notin FrozenStates
    /\ \A category \in Retryable :
          /\ Schedule[category] \in Seq(Nat) /\ Len(Schedule[category]) >= 2
          /\ Schedule[category][1] <= Ahead
    /\ Cases \subseteq Nat /\ IsFiniteSet(Cases) /\ Counts \subseteq Nat \ {0}
  BY NoneAssumption, ConfigAssumption, BackoffAssumption, BatchAssumption
  DEF SubscriptionStatus, FrozenStates, Retryable, Schedule

(* The guardrail lets a case through, which is scheduled or ends; a first  *)
(* retry is due within the days ahead.                                     *)
LEMMA RowType ==
    ASSUME NEW c, c \in DOMAIN cases, cases[c] \in CaseRow, c \in Cases,
           NEW now \in Nat, NEW status \in {None, "halted"}, NEW n \in Nat
    PROVE  /\ Row(c, now, status, n) \in TableRow
           /\ Row(c, now, status, n).case = c
           /\ \/ /\ Row(c, now, status, n).status = "scheduled"
                 /\ Row(c, now, status, n).type = "retry_charge"
                 /\ Row(c, now, status, n).sched \in Nat
                 /\ n = 0 => Row(c, now, status, n).sched <= now + Ahead
              \/ /\ Row(c, now, status, n).status = "executed"
                 /\ Row(c, now, status, n).type # "retry_charge"
                 /\ Row(c, now, status, n).sched = None
  <1> DEFINE category == cases[c].category
             choice == Decide(category, n)
             verdict == Evaluate(choice.type,
                            Context(now, status, category = "mandate_revoked", n, None))
  <1>1. category \in DiagnosisCategory
    BY DEF CaseRow
  <1>2. category \in Retryable /\ n < MaxRetries =>
           /\ choice.type = "retry_charge" /\ choice.delay \in Nat
           /\ n = 0 => choice.delay <= Ahead
    <2> SUFFICES ASSUME category \in Retryable, n < MaxRetries
                 PROVE  /\ choice.type = "retry_charge" /\ choice.delay \in Nat
                        /\ n = 0 => choice.delay <= Ahead
      OBVIOUS
    <2>1. PICK schedule \in Seq(Nat) : schedule = Schedule[category]
      BY BatchConstants
    <2>2. Len(schedule) >= 2 /\ schedule[1] <= Ahead
      BY <2>1, BatchConstants
    <2>3. Backoff(schedule, n) \in Nat /\ (n = 0 => Backoff(schedule, n) = schedule[1])
      <3>1. PICK len \in Nat : len = Len(schedule) /\ len >= 2
        BY <2>1, <2>2
      <3>2. \A k \in 1 .. len : schedule[k] \in Nat
        BY <2>1, <3>1
      <3>3. CASE n < len
        <4>1. n + 1 \in 1 .. len /\ Backoff(schedule, n) = schedule[n + 1]
          BY <3>1, <3>3 DEF Backoff
        <4> QED
          BY <3>2, <4>1
      <3>4. CASE ~(n < len)
        <4>1. len \in 1 .. len /\ n # 0 /\ Backoff(schedule, n) = schedule[len]
          BY <3>1, <3>4 DEF Backoff
        <4> QED
          BY <3>2, <4>1
      <3> QED
        BY <3>3, <3>4
    <2> QED
      BY <2>1, <2>2, <2>3 DEF Decide
  <1>3. ~(category \in Retryable /\ n < MaxRetries) =>
           /\ choice.type \in ActionType \ {"retry_charge"}
           /\ category = "mandate_revoked" => choice.type = "escalate_manual"
    BY <1>1 DEF Decide, Fallback, DiagnosisCategory, ActionType
  <1>4. category = "mandate_revoked" => category \notin Retryable
    BY DEF Retryable, Schedule
  <1>5. status \notin FrozenStates
    BY BatchConstants DEF FrozenStates
  <1>6. verdict = "ok"
    <2> DEFINE type == choice.type
               ctx == Context(now, status, category = "mandate_revoked", n, None)
    <2>1. type = "retry_charge" => n < MaxRetries /\ category # "mandate_revoked"
      BY <1>2, <1>3, <1>4
    <2>2. /\ ctx.status = status /\ ctx.used = n /\ ctx.last = None
          /\ ctx.revoked = (category = "mandate_revoked")
      BY DEF Context
    <2>3. category = "mandate_revoked" => type = "escalate_manual"
      BY <1>3, <1>4
    <2> HIDE DEF type, ctx, choice, category
    <2>4. ~(Frozen(ctx) /\ type \notin TerminalSafeActions)
      BY <1>5, <2>2, <2>3 DEF Frozen, TerminalSafeActions
    <2>5. ~(type = "retry_charge" /\ ctx.used >= MaxRetries) /\ ~CoolingDown(ctx)
      BY <2>1, <2>2, BatchConstants DEF CoolingDown
    <2>6. Evaluate(type, ctx) = "ok"
      BY <2>4, <2>5 DEF Evaluate
    <2> QED
      BY <2>6 DEF type, ctx
  <1>7. choice.type = "retry_charge" <=> category \in Retryable /\ n < MaxRetries
    BY <1>2, <1>3
  <1>8. Row(c, now, status, n) =
          [case |-> c, type |-> choice.type,
           status |-> IF choice.type = "retry_charge" THEN "scheduled" ELSE "executed",
           sched |-> IF choice.type = "retry_charge" THEN now + choice.delay ELSE None]
    BY <1>6 DEF Row
  <1> HIDE DEF category, choice, verdict
  <1>9. CASE choice.type = "retry_charge"
    <2>1. choice.delay \in Nat /\ (n = 0 => choice.delay <= Ahead)
      BY <1>2, <1>7, <1>9
    <2>2. Row(c, now, status, n) = [case |-> c, type |-> "retry_charge",
                                    status |-> "scheduled", sched |-> now + choice.delay]
      BY <1>8, <1>9
    <2>3. now + choice.delay \in Nat /\ (n = 0 => now + choice.delay <= now + Ahead)
      BY <2>1, BatchConstants
    <2>4. "retry_charge" \in ActionType /\ "scheduled" \in ActionStatus
      BY DEF ActionType, ActionStatus
    <2> QED
      BY <2>2, <2>3, <2>4 DEF TableRow
  <1>10. CASE choice.type # "retry_charge"
    BY <1>3, <1>7, <1>8, <1>10 DEF TableRow, ActionStatus
  <1> QED
    BY <1>9, <1>10

(* A requested link is the row of the policy, executing.                   *)
LEMMA RequestedType ==
    ASSUME NEW row \in TableRow
    PROVE  /\ Requested(row) \in TableRow
           /\ Requested(row).case = row.case /\ Requested(row).type = row.type
           /\ Requested(row).sched = row.sched
           /\ Requests(row) => /\ Requested(row).status = "executing"
                               /\ row.type = "send_payment_link"
           /\ ~Requests(row) => Requested(row) = row
  <1>1. CASE Requests(row)
    BY <1>1 DEF Requested, Requests, TableRow, ActionStatus
  <1>2. CASE ~Requests(row)
    BY <1>2 DEF Requested
  <1> QED
    BY <1>1, <1>2

LEMMA AttemptsType ==
    ASSUME table \in Seq(TableRow), NEW c
    PROVE  /\ Attempts(c) \in Nat
           /\ (\A i \in 1 .. Len(table) : table[i].case # c) => Attempts(c) = 0
  <1> DEFINE S == {i \in DOMAIN table : table[i].case = c /\ table[i].type = "retry_charge"}
  <1>1. S \in SUBSET (1 .. Len(table)) /\ Len(table) \in Nat
    OBVIOUS
  <1>2. Cardinality(S) \in Nat
    <2>1. IsFiniteSet(1 .. Len(table))
      BY <1>1, FS_Interval
    <2> QED
      BY <1>1, <2>1, FS_Subset, FS_CardinalityType
  <1>3. ASSUME \A i \in 1 .. Len(table) : table[i].case # c PROVE S = {}
    BY <1>3
  <1> QED
    BY <1>2, <1>3, FS_EmptySet DEF Attempts

(* What resolving c with a row adds.                                       *)
LEMMA ResolveType ==
    ASSUME resolved \in [Cases -> SUBSET OutcomeStatus], NEW c \in Cases, NEW row,
           resolved[c] = {}
    PROVE  /\ Resolve(c, row) \in [Cases -> SUBSET OutcomeStatus]
           /\ \A d \in Cases \ {c} : Resolve(c, row)[d] = resolved[d]
           /\ Resolve(c, row)[c] \in {{}, {"escalated"}}
           /\ row.status # "executed" => Resolve(c, row)[c] = {}
           /\ row.type # "escalate_manual" => Resolve(c, row)[c] = {}
  BY DEF Resolve, OutcomeStatus

LEMMA IntervalSeq ==
    ASSUME NEW S, NEW m \in Nat, NEW f \in [1 .. m -> S]
    PROVE  f \in Seq(S) /\ Len(f) = m /\ DOMAIN f = 1 .. m
  <1>1. f \in Seq(S)
    BY SeqDef
  <1>2. PICK n \in Nat : n = Len(f) /\ 1 .. n = 1 .. m
    BY <1>1, LenProperties
  <1>3. (m > n => m \notin 1 .. n /\ m \in 1 .. m) /\ (n > m => n \notin 1 .. m /\ n \in 1 .. n)
    OBVIOUS
  <1> QED
    BY <1>1, <1>2, <1>3

(* The rows of the table when one is added, and when one is settled.       *)
LEMMA TableAppend ==
    ASSUME NEW t \in Seq(TableRow), NEW row \in TableRow, NEW u, u = Append(t, row)
    PROVE  /\ u \in Seq(TableRow) /\ Len(t) \in Nat /\ Len(u) = Len(t) + 1
           /\ u[Len(t) + 1] = row /\ \A i \in 1 .. Len(t) : u[i] = t[i]
  OBVIOUS

Settle(t, i, status) == [t EXCEPT ![i].status = status]

LEMMA TableSettle ==
    ASSUME NEW t \in Seq(TableRow), NEW i \in 1 .. Len(t), NEW status \in ActionStatus
    PROVE  /\ Settle(t, i, status) \in Seq(TableRow)
           /\ Len(t) \in Nat /\ Len(Settle(t, i, status)) = Len(t)
           /\ \A j \in 1 .. Len(t) \ {i} : Settle(t, i, status)[j] = t[j]
           /\ Settle(t, i, status)[i].status = status
           /\ Settle(t, i, status)[i].case = t[i].case
           /\ Settle(t, i, status)[i].type = t[i].type
  <1>1. Len(t) \in Nat /\ \A j \in 1 .. Len(t) : t[j] \in TableRow
    OBVIOUS
  <1>2. [t[i] EXCEPT !.status = status] \in TableRow
    BY <1>1 DEF TableRow
  <1>3. Settle(t, i, status) = [t EXCEPT ![i] = [t[i] EXCEPT !.status = status]]
    BY DEF Settle
  <1>4. Settle(t, i, status) \in Seq(TableRow) /\ Len(Settle(t, i, status)) = Len(t)
    BY <1>2, <1>3
  <1>5. /\ \A j \in 1 .. Len(t) \ {i} : Settle(t, i, status)[j] = t[j]
        /\ Settle(t, i, status)[i] = [t[i] EXCEPT !.status = status]
    BY <1>3
  <1> QED
    BY <1>1, <1>4, <1>5 DEF TableRow

-----------------------------------------------------------------------------
(* The steps.                                                              *)

LEMMA BatchStarts == BatchInit => BatchInv
  <1> SUFFICES ASSUME BatchInit PROVE BatchInv
    OBVIOUS
  <1> USE DEF BatchInit, IdleBatch
  <1>1. Len(table) = 0 /\ Len(batch.queue) = 0 /\ DOMAIN cases = {}
    OBVIOUS
  <1>2. Typed
    <2>1. Cardinality(DOMAIN cases) = 0 /\ 1 .. 0 = {}
      BY <1>1, FS_EmptySet
    <2>2. batch \in Run
      BY DEF Run
    <2>3. /\ cases \in [DOMAIN cases -> CaseRow] /\ DOMAIN cases \subseteq Cases
          /\ table \in Seq(TableRow) /\ resolved \in [Cases -> SUBSET OutcomeStatus]
      OBVIOUS
    <2> QED
      BY <1>1, <2>1, <2>2, <2>3 DEF Typed
  <1> QED
    BY <1>1, <1>2 DEF BatchInv, OneLife, Blank, BlankCases, Planning, Kinds, Claimed, Recoveries,
       Complete, StopsOverLeftovers, ReportCountsRecoveries

(* The cases of a batch are new, so that nothing is known of them.         *)
LEMMA GenerateKeeps == BatchInv /\ Generate => BatchInv'
  <1> SUFFICES ASSUME BatchInv, Generate PROVE BatchInv'
    OBVIOUS
  <1> USE DEF BatchInv
  <1>a. PICK first : first = Cardinality(DOMAIN cases)
    OBVIOUS
  <1>b. PICK count \in Counts, lucky \in SUBSET Cases :
           LET made == Cardinality(DOMAIN cases) + 1 .. Cardinality(DOMAIN cases) + count
           IN  /\ made \subseteq Cases
               /\ cases' = [c \in DOMAIN cases \cup made |->
                      IF c \in made
                      THEN [category |-> Categories[((c - Cardinality(DOMAIN cases) - 1)
                                                        % Len(Categories)) + 1],
                            recover |-> c \in lucky]
                      ELSE cases[c]]
               /\ batch' = [IdleBatch EXCEPT !.pc = "cases", !.cases = made,
                                             !.todo = made, !.now = day]
    <2> HIDE DEF BatchInv
    <2> QED
      BY DEF Generate
  <1>c. PICK made : made = first + 1 .. first + count
    OBVIOUS
  <1>1. /\ made \subseteq Cases
        /\ cases' = [c \in DOMAIN cases \cup made |->
              IF c \in made
              THEN [category |-> Categories[((c - first - 1) % Len(Categories)) + 1],
                    recover |-> c \in lucky]
              ELSE cases[c]]
        /\ batch' = [IdleBatch EXCEPT !.pc = "cases", !.cases = made,
                                      !.todo = made, !.now = day]
    BY <1>a, <1>b, <1>c
  <1>2. /\ table' = table /\ resolved' = resolved /\ day' = day
        /\ report' = [c \in Cases |-> None]
    BY DEF Generate
  <1>3. /\ batch'.pc = "cases" /\ batch'.cases = made /\ batch'.todo = made
        /\ batch'.queue = << >> /\ batch'.scheduled = {} /\ batch'.executed = {}
        /\ batch'.now = day /\ Len(batch'.queue) = 0
    BY <1>1 DEF IdleBatch
  <1>4. first \in Nat /\ count \in Nat /\ count > 0 /\ DOMAIN cases = 1 .. first
    <2>1. DOMAIN cases \subseteq Cases /\ DOMAIN cases = 1 .. Cardinality(DOMAIN cases)
      BY DEF Typed
    <2>2. Cardinality(DOMAIN cases) \in Nat
      BY <2>1, BatchConstants, FS_Subset, FS_CardinalityType
    <2> QED
      BY <1>a, <2>1, <2>2, BatchConstants
  <1>5. made \cap DOMAIN cases = {} /\ DOMAIN cases' = 1 .. first + count
    <2>1. made \cap DOMAIN cases = {} /\ DOMAIN cases \cup made = 1 .. first + count
      BY <1>c, <1>4
    <2> QED
      BY <1>1, <2>1
  <1>6. Typed'
    <2>1. \A c \in made : Categories[((c - first - 1) % Len(Categories)) + 1] \in DiagnosisCategory
      <3>1. Len(Categories) = 5
        BY DEF Categories
      <3>2. \A k \in 1 .. 5 : Categories[k] \in DiagnosisCategory
        <4>1. \A k \in 1 .. 5 : k = 1 \/ k = 2 \/ k = 3 \/ k = 4 \/ k = 5
          OBVIOUS
        <4> QED
          BY <4>1 DEF Categories, DiagnosisCategory
      <3> SUFFICES ASSUME NEW c \in made
                   PROVE Categories[((c - first - 1) % Len(Categories)) + 1] \in DiagnosisCategory
        OBVIOUS
      <3>3. c - first - 1 \in Nat
        BY <1>c, <1>4
      <3>4. (c - first - 1) % 5 \in 0 .. 4
        BY <3>3
      <3>5. ((c - first - 1) % 5) + 1 \in 1 .. 5
        BY <3>4
      <3> QED
        BY <3>1, <3>2, <3>5
    <2>2. cases' \in [DOMAIN cases' -> CaseRow]
      <3>1. \A c \in DOMAIN cases \cup made : cases'[c] \in CaseRow
        <4>1. \A c \in made : cases'[c] \in CaseRow
          BY <1>1, <2>1 DEF CaseRow
        <4>2. \A c \in DOMAIN cases \ made : cases'[c] \in CaseRow
          BY <1>1 DEF Typed
        <4> QED
          BY <4>1, <4>2
      <3> QED
        BY <1>1, <3>1
    <2>3. DOMAIN cases' \subseteq Cases /\ DOMAIN cases \subseteq DOMAIN cases' /\ made \subseteq DOMAIN cases'
      BY <1>1 DEF Typed
    <2>4. Cardinality(DOMAIN cases') = first + count
      BY <1>4, <1>5, FS_Interval
    <2>5. batch' \in Run
      <3>1. batch' = [pc |-> "cases", cases |-> made, todo |-> made, scheduled |-> {},
                      now |-> day, queue |-> << >>, executed |-> {}]
        BY <1>1 DEF IdleBatch
      <3>2. day \in Nat
        BY DEF Typed
      <3>3. made \in SUBSET Cases
        BY <1>1
      <3>4. << >> \in Seq(Nat)
        OBVIOUS
      <3> QED
        BY <3>1, <3>2, <3>3, <3>4 DEF Run
    <2>6. /\ table \in Seq(TableRow) /\ \A i \in 1 .. Len(table) : table[i].case \in DOMAIN cases
          /\ resolved \in [Cases -> SUBSET OutcomeStatus] /\ day \in Nat
      BY DEF Typed
    <2>7. report' \in [Cases -> {None, "recovered", "still at risk", "mandate revoked",
                                 "payment link pending"}]
      BY <1>2
    <2>8. DOMAIN cases' = 1 .. Cardinality(DOMAIN cases')
      BY <1>5, <2>4
    <2>9. /\ \A i \in 1 .. Len(table') : table'[i].case \in DOMAIN cases'
          /\ \A k \in 1 .. Len(batch'.queue) : batch'.queue[k] \in 1 .. Len(table')
          /\ batch'.cases \subseteq DOMAIN cases' /\ batch'.scheduled \subseteq 1 .. Len(table')
      BY <1>2, <1>3, <2>3, <2>6
    <2> QED
      BY <1>2, <2>2, <2>3, <2>5, <2>6, <2>7, <2>8, <2>9 DEF Typed
  <1>7. OneLife'
    BY <1>2 DEF OneLife, OpenRow
  <1>8. \A c \in Cases \ DOMAIN cases : Blank(c)'
    BY <1>2 DEF BlankCases, Blank
  <1>9. \A c \in made : Blank(c)'
    BY <1>1, <1>5, <1>8
  <1>10. BlankCases'
    BY <1>1, <1>3, <1>8, <1>9 DEF BlankCases
  <1>11. Planning' /\ Kinds'
    BY <1>2, <1>3, <1>9 DEF Planning, Blank, Kinds
  <1>12. Claimed' /\ Recoveries' /\ Complete'
    BY <1>3, <1>9 DEF Claimed, Recoveries, Complete, Blank
  <1>13. StopsOverLeftovers' /\ ReportCountsRecoveries'
    BY <1>3 DEF StopsOverLeftovers, ReportCountsRecoveries
  <1> QED
    BY <1>6, <1>7, <1>10, <1>11, <1>12, <1>13

(* A retry of a case that the simulated client does not know.              *)
LEMMA UnknownKeeps == BatchInv /\ UnknownCase => BatchInv'
  <1> SUFFICES ASSUME BatchInv, UnknownCase PROVE BatchInv'
    OBVIOUS
  <1> USE DEF BatchInv
  <1>1. batch' = [batch EXCEPT !.pc = "crashed"]
        /\ UNCHANGED <<cases, table, resolved, report, day>>
    BY DEF UnknownCase
  <1>2. batch \in Run
    BY DEF Typed
  <1>3. /\ batch'.pc = "crashed" /\ batch'.cases = batch.cases /\ batch'.todo = batch.todo
        /\ batch'.queue = batch.queue /\ batch'.scheduled = batch.scheduled
        /\ batch'.executed = batch.executed
    BY <1>1, <1>2 DEF Run
  <1>4. batch' \in Run
    BY <1>1, <1>2 DEF Run
  <1>5. PICK i \in 1 .. Len(table) : /\ table[i].type = "retry_charge"
                                     /\ table[i].status = "executing"
                                     /\ table[i].case \notin batch.cases
    <2>1. batch.queue # << >> /\ batch.queue \in Seq(Nat)
      BY <1>2 DEF UnknownCase, NextRetry, Run
    <2>2. 1 \in 1 .. Len(batch.queue) /\ Head(batch.queue) = batch.queue[1]
      BY <2>1
    <2>3. /\ batch.queue[1] \in 1 .. Len(table) /\ table[batch.queue[1]].status = "executing"
          /\ table[batch.queue[1]].type = "retry_charge"
      BY <2>2 DEF Typed, Claimed, Kinds
    <2>4. table[batch.queue[1]].case \notin batch.cases
      BY <2>2 DEF UnknownCase, RetriedCase
    <2> QED
      BY <2>3, <2>4
  <1>6. DOMAIN table = 1 .. Len(table)
    <2>1. table \in Seq(TableRow)
      BY DEF Typed
    <2> QED
      BY <2>1
  <1>7. Typed'
    BY <1>1, <1>3, <1>4 DEF Typed
  <1>8. OneLife' /\ BlankCases' /\ Planning' /\ Kinds' /\ Claimed' /\ Recoveries'
    BY <1>1, <1>3 DEF OneLife, OpenRow, BlankCases, Blank, Planning, Kinds, Claimed, Recoveries
  <1>9. Complete' /\ StopsOverLeftovers' /\ ReportCountsRecoveries'
    BY <1>1, <1>3, <1>5, <1>6 DEF Complete, StopsOverLeftovers, ReportCountsRecoveries
  <1> QED
    BY <1>7, <1>8, <1>9

(* With nothing queued every scheduled retry has been executed, so that    *)
(* the report is printed, and counts the successes.                        *)
LEMMA ReportKeeps == BatchInv /\ Report => BatchInv'
  <1> SUFFICES ASSUME BatchInv, Report PROVE BatchInv'
    OBVIOUS
  <1> USE DEF BatchInv
  <1>1. batch.pc = "retries" /\ batch.queue = << >> /\ Len(batch.queue) = 0
        /\ UNCHANGED <<cases, table, resolved, day>>
    BY DEF Report
  <1>2. \A i \in batch.scheduled : Execution(i) # {}
    BY <1>1 DEF Complete, Waiting
  <1>3. /\ batch' = [batch EXCEPT !.pc = "reported"]
        /\ report' = [c \in Cases |-> IF c \in batch.cases THEN Result(c) ELSE None]
    BY <1>2 DEF Report
  <1>4. batch \in Run
    BY DEF Typed
  <1>5. /\ batch'.pc = "reported" /\ batch'.cases = batch.cases /\ batch'.todo = batch.todo
        /\ batch'.queue = batch.queue /\ batch'.scheduled = batch.scheduled
        /\ batch'.executed = batch.executed
    BY <1>3, <1>4 DEF Run
  <1>6. batch' \in Run
    BY <1>3, <1>4 DEF Run
  <1>7. \A c \in batch.cases : c \in Cases /\
           Result(c) \in {"recovered", "still at risk", "mandate revoked", "payment link pending"}
    BY DEF Typed, Result
  <1>8. Typed'
    <2>1. report' \in [Cases -> {None, "recovered", "still at risk", "mandate revoked",
                                 "payment link pending"}]
      BY <1>3, <1>7
    <2> QED
      BY <1>1, <1>5, <1>6, <2>1 DEF Typed
  <1>9. OneLife' /\ BlankCases' /\ Planning' /\ Kinds' /\ Claimed' /\ Recoveries'
    BY <1>1, <1>5 DEF OneLife, OpenRow, BlankCases, Blank, Planning, Kinds, Claimed, Recoveries
  <1>10. ReportCountsRecoveries'
    <2> SUFFICES ASSUME NEW c \in batch.cases
                 PROVE  report'[c] = "recovered" <=> "recovered" \in resolved[c]
      BY <1>1, <1>5 DEF ReportCountsRecoveries
    <2>1. report'[c] = Result(c)
      BY <1>3, <1>7
    <2>2. Result(c) = "recovered" <=>
             \E i \in batch.scheduled : table[i].case = c /\ Success(i) \in batch.executed
      BY DEF Result, Success
    <2>3. "recovered" \in resolved[c] <=>
             \E i \in batch.scheduled : table[i].case = c /\ Success(i) \in batch.executed
      BY DEF Recoveries
    <2> QED
      BY <2>1, <2>2, <2>3
  <1>11. Complete' /\ StopsOverLeftovers'
    BY <1>5 DEF Complete, StopsOverLeftovers
  <1> QED
    BY <1>8, <1>9, <1>10, <1>11

LEMMA InterruptKeeps == BatchInv /\ Interrupt => BatchInv'
  <1> SUFFICES ASSUME BatchInv, Interrupt PROVE BatchInv'
    OBVIOUS
  <1> USE DEF BatchInv
  <1>1. batch' = IdleBatch /\ UNCHANGED <<cases, table, resolved, report, day>>
    BY DEF Interrupt
  <1>2. /\ batch'.pc = "idle" /\ batch'.cases = {} /\ batch'.todo = {} /\ batch'.scheduled = {}
        /\ batch'.queue = << >> /\ Len(batch'.queue) = 0
    BY <1>1 DEF IdleBatch
  <1>3. batch' \in Run
    BY <1>1 DEF Run, IdleBatch
  <1>4. Typed'
    <2>1. /\ batch'.cases \subseteq DOMAIN cases /\ batch'.scheduled \subseteq 1 .. Len(table)
          /\ \A k \in 1 .. Len(batch'.queue) : batch'.queue[k] \in 1 .. Len(table)
      BY <1>2
    <2> QED
      BY <1>1, <1>3, <2>1 DEF Typed
  <1>5. OneLife'
    BY <1>1 DEF OneLife, OpenRow
  <1> QED
    BY <1>1, <1>2, <1>4, <1>5 DEF BlankCases, Blank, Planning, Kinds, Claimed, Recoveries, Complete,
       StopsOverLeftovers, ReportCountsRecoveries

LEMMA DayKeeps == BatchInv /\ (NextDay \/ UNCHANGED batchVars) => BatchInv'
  <1> SUFFICES ASSUME BatchInv, NextDay \/ UNCHANGED batchVars PROVE BatchInv'
    OBVIOUS
  <1>1. UNCHANGED <<cases, table, resolved, batch, report>> /\ day' \in Nat
    <2>1. day \in Nat
      BY DEF BatchInv, Typed
    <2> QED
      BY <2>1 DEF NextDay, batchVars
  <1>2. Typed'
    BY <1>1 DEF BatchInv, Typed
  <1>3. OneLife' /\ BlankCases' /\ Planning' /\ Kinds' /\ Claimed'
    BY <1>1 DEF BatchInv, OneLife, OpenRow, BlankCases, Blank, Planning, Kinds, Claimed
  <1>4. Recoveries' /\ Complete' /\ StopsOverLeftovers' /\ ReportCountsRecoveries'
    BY <1>1 DEF BatchInv, Recoveries, Complete, Waiting, Execution, Strange,
       StopsOverLeftovers, ReportCountsRecoveries
  <1> QED
    BY <1>2, <1>3, <1>4 DEF BatchInv

(* The first row of a case: it has none yet, so that no attempt is counted *)
(* and a retry is due within the days ahead.                               *)
LEMMA RunKeeps == BatchInv /\ RunCase => BatchInv'
  <1> SUFFICES ASSUME BatchInv, RunCase PROVE BatchInv'
    OBVIOUS
  <1> USE DEF BatchInv
  <1>a. /\ table \in Seq(TableRow) /\ batch \in Run /\ cases \in [DOMAIN cases -> CaseRow]
        /\ resolved \in [Cases -> SUBSET OutcomeStatus] /\ DOMAIN cases \subseteq Cases
        /\ batch.cases \subseteq DOMAIN cases /\ batch.scheduled \subseteq 1 .. Len(table)
    BY DEF Typed
  <1>b. batch.pc = "cases" /\ UNCHANGED <<cases, report, day>>
    BY DEF RunCase
  <1>1. PICK c \in batch.todo :
           LET row == Row(c, batch.now, None, Attempts(c))
           IN  /\ table' = Append(table, Requested(row)) /\ resolved' = Resolve(c, row)
               /\ batch' = [batch EXCEPT
                     !.pc = IF Requests(row) THEN "link" ELSE AfterCase(batch.todo \ {c}),
                     !.todo = @ \ {c},
                     !.scheduled = IF row.sched # None THEN @ \cup {Len(table) + 1} ELSE @]
    BY DEF RunCase
  <1>2. /\ c \in batch.cases /\ c \in DOMAIN cases /\ c \in Cases /\ cases[c] \in CaseRow
        /\ resolved[c] = {} /\ \A i \in 1 .. Len(table) : table[i].case # c
    BY <1>a DEF BlankCases, Blank
  <1>3. Attempts(c) = 0 /\ batch.now \in Nat
    BY <1>a, <1>2, AttemptsType DEF Run
  <1>4. PICK policy : policy = Row(c, batch.now, None, Attempts(c))
    OBVIOUS
  <1>c. PICK row : row = Requested(policy)
    OBVIOUS
  <1>d. /\ policy \in TableRow /\ policy.case = c
        /\ \/ /\ policy.status = "scheduled" /\ policy.type = "retry_charge"
              /\ policy.sched \in Nat /\ policy.sched <= batch.now + Ahead
           \/ /\ policy.status = "executed" /\ policy.type # "retry_charge"
              /\ policy.sched = None
    BY <1>2, <1>3, <1>4, RowType
  <1>e. /\ row \in TableRow /\ row.case = policy.case /\ row.type = policy.type
        /\ row.sched = policy.sched
        /\ Requests(policy) => row.status = "executing" /\ policy.type = "send_payment_link"
        /\ ~Requests(policy) => row = policy
    BY <1>c, <1>d, RequestedType
  <1>5. /\ row \in TableRow /\ row.case = c
        /\ \/ /\ row.status = "scheduled" /\ row.type = "retry_charge"
              /\ row.sched \in Nat /\ row.sched <= batch.now + Ahead
           \/ /\ row.status \in {"executed", "executing"} /\ row.type # "retry_charge"
              /\ row.sched = None
    <2>1. CASE Requests(policy)
      BY <1>d, <1>e, <2>1
    <2>2. CASE ~Requests(policy)
      BY <1>d, <1>e, <2>2
    <2> QED
      BY <2>1, <2>2
  <1>6. PICK n \in Nat : n = Len(table)
    BY <1>a
  <1>7. /\ table' \in Seq(TableRow) /\ Len(table') = n + 1
        /\ table'[n + 1] = row /\ \A i \in 1 .. n : table'[i] = table[i]
    BY <1>1, <1>a, <1>4, <1>c, <1>5, <1>6, TableAppend
  <1>8. /\ resolved' \in [Cases -> SUBSET OutcomeStatus]
        /\ \A d \in Cases \ {c} : resolved'[d] = resolved[d]
        /\ resolved'[c] \in {{}, {"escalated"}}
        /\ row.status # "executed" => resolved'[c] = {}
    <2>1. resolved' = Resolve(c, policy)
      BY <1>1, <1>4
    <2>2. /\ Resolve(c, policy) \in [Cases -> SUBSET OutcomeStatus]
          /\ \A d \in Cases \ {c} : Resolve(c, policy)[d] = resolved[d]
          /\ Resolve(c, policy)[c] \in {{}, {"escalated"}}
          /\ policy.status # "executed" => Resolve(c, policy)[c] = {}
          /\ policy.type # "escalate_manual" => Resolve(c, policy)[c] = {}
      <3>1. resolved \in [Cases -> SUBSET OutcomeStatus] /\ c \in Cases /\ resolved[c] = {}
        BY <1>a, <1>2
      <3> QED
        BY <3>1, ResolveType
    <2>3. ASSUME row.status # "executed" PROVE Resolve(c, policy)[c] = {}
      <3>1. CASE Requests(policy)
        BY <1>e, <2>2, <3>1
      <3>2. CASE ~Requests(policy)
        BY <1>e, <2>2, <2>3, <3>2
      <3> QED
        BY <3>1, <3>2
    <2> QED
      BY <2>1, <2>2, <2>3
  <1>f. PICK pc : pc = IF Requests(policy) THEN "link" ELSE AfterCase(batch.todo \ {c})
    OBVIOUS
  <1>g. pc \in {"cases", "link", "claim"} /\ (pc = "link" => row.type = "send_payment_link")
    BY <1>e, <1>f DEF AfterCase
  <1>9. batch' = [batch EXCEPT !.pc = pc, !.todo = @ \ {c},
                               !.scheduled = IF row.sched # None THEN @ \cup {n + 1} ELSE @]
    BY <1>1, <1>4, <1>6, <1>e, <1>f
  <1>10. /\ batch'.pc = pc /\ batch'.cases = batch.cases
         /\ batch'.todo = batch.todo \ {c} /\ batch'.queue = batch.queue
         /\ batch'.executed = batch.executed /\ batch'.now = batch.now
         /\ batch'.scheduled =
               IF row.sched # None THEN batch.scheduled \cup {n + 1} ELSE batch.scheduled
    BY <1>9, <1>a DEF Run
  <1>11. batch' \in Run
    <2>1. batch.scheduled \cup {n + 1} \in SUBSET Nat
      BY <1>a, <1>6 DEF Run
    <2> QED
      BY <1>9, <1>a, <1>g, <2>1 DEF Run
  <1>12. row.sched # None <=> row.status = "scheduled"
    BY <1>5, BatchConstants
  <1>13. batch.queue = << >> /\ Len(batch.queue) = 0 /\ batch.executed = {}
    BY <1>b DEF Planning
  <1>14. 1 .. Len(table') = (1 .. n) \cup {n + 1} /\ n + 1 \notin 1 .. n /\ 1 .. Len(table) = 1 .. n
    BY <1>6, <1>7
  <1> HIDE DEF BatchInv
  <1>15. Typed'
    <2>1. /\ \A i \in 1 .. n : table[i].case \in DOMAIN cases
          /\ DOMAIN cases = 1 .. Cardinality(DOMAIN cases) /\ day \in Nat
          /\ report \in [Cases -> {None, "recovered", "still at risk", "mandate revoked",
                                   "payment link pending"}]
      BY <1>6 DEF BatchInv, Typed
    <2>2. \A i \in 1 .. Len(table') : table'[i].case \in DOMAIN cases'
      BY <1>b, <1>2, <1>5, <1>7, <1>14, <2>1
    <2>3. batch'.cases \subseteq DOMAIN cases' /\ batch'.scheduled \subseteq 1 .. Len(table')
      BY <1>a, <1>b, <1>10, <1>14
    <2>4. \A k \in 1 .. Len(batch'.queue) : batch'.queue[k] \in 1 .. Len(table')
      BY <1>10, <1>13
    <2> QED
      BY <1>a, <1>b, <1>7, <1>8, <1>11, <2>1, <2>2, <2>3, <2>4 DEF Typed
  <1>16. OneLife'
    <2>1. \A i \in 1 .. n : table'[i].case \in Cases /\ table'[i].case # c
      <3>1. \A i \in 1 .. n : table[i].case \in DOMAIN cases
        BY <1>14 DEF BatchInv, Typed
      <3> QED
        BY <1>2, <1>7, <1>14, <1>a, <3>1
    <2>2. \A i, j \in 1 .. n : OpenRow(i)' /\ OpenRow(j)' /\ table'[i].case = table'[j].case => i = j
      BY <1>7, <1>14 DEF BatchInv, OneLife, OpenRow
    <2>3. \A i \in 1 .. n : OpenRow(i)' => resolved'[table'[i].case] = {}
      <3> SUFFICES ASSUME NEW i \in 1 .. n, OpenRow(i)'
                   PROVE  resolved'[table'[i].case] = {}
        OBVIOUS
      <3>1. OpenRow(i) /\ table[i].case = table'[i].case
        BY <1>7 DEF OpenRow
      <3>2. resolved[table[i].case] = {}
        BY <1>14, <3>1 DEF BatchInv, OneLife
      <3> QED
        BY <1>8, <2>1, <3>1, <3>2
    <2>4. OpenRow(n + 1)' => resolved'[table'[n + 1].case] = {}
      BY <1>5, <1>7, <1>8 DEF OpenRow
    <2>5. \A d \in Cases : \A k, l \in resolved'[d] : k = l
      BY <1>8 DEF BatchInv, OneLife
    <2>6. \A i, j \in 1 .. Len(table') :
             OpenRow(i)' /\ OpenRow(j)' /\ table'[i].case = table'[j].case => i = j
      BY <1>5, <1>7, <1>14, <2>1, <2>2
    <2> QED
      BY <1>14, <2>3, <2>4, <2>5, <2>6 DEF OneLife
  <1>17. BlankCases'
    <2>1. \A d \in Cases \ {c} : Blank(d) => Blank(d)'
      BY <1>5, <1>7, <1>8, <1>14 DEF Blank
    <2>2. /\ \A d \in Cases \ DOMAIN cases : Blank(d)
          /\ batch.todo \subseteq batch.cases /\ \A d \in batch.todo : Blank(d)
      BY DEF BatchInv, BlankCases
    <2>3. batch.todo \subseteq Cases
      BY <1>a, <2>2
    <2> QED
      BY <1>b, <1>2, <1>10, <2>1, <2>2, <2>3 DEF BlankCases
  <1>18. Planning'
    <2>1. /\ \A i \in batch.scheduled : /\ table[i].case \in batch.cases
                                       /\ table[i].status = "scheduled"
                                       /\ table[i].sched <= batch.now + Ahead
          /\ \A i \in 1 .. n :
                OpenRow(i) /\ table[i].type = "retry_charge" /\ table[i].case \in batch.cases
                => i \in batch.scheduled
      BY <1>b, <1>14 DEF BatchInv, Planning
    <2>2. \A i \in batch'.scheduled : i \in batch.scheduled \/ (i = n + 1 /\ row.sched # None)
      BY <1>10
    <2>3. \A i \in batch'.scheduled : /\ table'[i].case \in batch'.cases
                                     /\ table'[i].status = "scheduled"
                                     /\ table'[i].sched <= batch'.now + Ahead
      BY <1>2, <1>5, <1>7, <1>10, <1>12, <1>14, <1>a, <2>1, <2>2
    <2>4. \A i \in 1 .. n :
             OpenRow(i)' /\ table'[i].type = "retry_charge" /\ table'[i].case \in batch'.cases
                => i \in batch'.scheduled
      BY <1>7, <1>10, <2>1 DEF OpenRow
    <2>5. OpenRow(n + 1)' /\ table'[n + 1].type = "retry_charge" => n + 1 \in batch'.scheduled
      BY <1>5, <1>7, <1>10, <1>12 DEF OpenRow
    <2> QED
      BY <1>10, <1>13, <1>14, <2>3, <2>4, <2>5 DEF Planning
  <1>19. Recoveries'
    <2>1. \A d \in batch.cases : "recovered" \notin resolved[d]
      BY <1>13 DEF BatchInv, Recoveries
    <2>2. \A d \in batch.cases : "recovered" \notin resolved'[d]
      BY <1>8, <1>a, <2>1
    <2> QED
      BY <1>10, <1>13, <2>2 DEF Recoveries
  <1>20. Claimed' /\ Complete' /\ StopsOverLeftovers' /\ ReportCountsRecoveries'
    BY <1>g, <1>10, <1>13 DEF Claimed, Complete, StopsOverLeftovers, ReportCountsRecoveries
  <1>21. Kinds'
    <2>1. \A i \in batch.scheduled : i \in 1 .. n /\ table[i].type = "retry_charge"
      BY <1>a, <1>6 DEF BatchInv, Kinds
    <2>2. \A i \in batch'.scheduled : table'[i].type = "retry_charge"
      BY <1>5, <1>7, <1>10, <1>12, <2>1
    <2>3. batch'.pc = "link" => Len(table') > 0 /\ table'[Len(table')].type = "send_payment_link"
      BY <1>6, <1>7, <1>10, <1>g
    <2> QED
      BY <1>10, <1>13, <2>2, <2>3 DEF Kinds
  <1> QED
    BY <1>15, <1>16, <1>17, <1>18, <1>19, <1>20, <1>21 DEF BatchInv

(* The link is made: its row is settled, and it was no retry.              *)
LEMMA RecordLinkKeeps == BatchInv /\ RecordLink => BatchInv'
  <1> SUFFICES ASSUME BatchInv, RecordLink PROVE BatchInv'
    OBVIOUS
  <1>a. table \in Seq(TableRow) /\ batch \in Run /\ batch.scheduled \subseteq 1 .. Len(table)
    BY DEF BatchInv, Typed
  <1>b. batch.pc = "link" /\ UNCHANGED <<cases, resolved, report, day>>
    BY DEF RecordLink
  <1>1. PICK n \in Nat : n = Len(table)
    BY <1>a
  <1>2. n \in 1 .. n /\ table[n].type = "send_payment_link"
    BY <1>b, <1>1 DEF BatchInv, Kinds
  <1>3. table' = Settle(table, n, "executed")
    BY <1>1 DEF RecordLink, Settle
  <1>4. /\ table' \in Seq(TableRow) /\ Len(table') = n
        /\ \A i \in 1 .. n \ {n} : table'[i] = table[i]
        /\ table'[n].status = "executed" /\ table'[n].case = table[n].case
        /\ table'[n].type = table[n].type
    <2>1. table \in Seq(TableRow) /\ n \in 1 .. Len(table) /\ "executed" \in ActionStatus
      BY <1>a, <1>1, <1>2 DEF ActionStatus
    <2>2. /\ Settle(table, n, "executed") \in Seq(TableRow)
          /\ Len(Settle(table, n, "executed")) = Len(table)
          /\ \A i \in 1 .. Len(table) \ {n} : Settle(table, n, "executed")[i] = table[i]
          /\ Settle(table, n, "executed")[n].status = "executed"
          /\ Settle(table, n, "executed")[n].case = table[n].case
          /\ Settle(table, n, "executed")[n].type = table[n].type
      BY <2>1, TableSettle
    <2> QED
      BY <1>1, <1>3, <2>2
  <1>5. PICK pc \in {"cases", "claim"} : batch' = [batch EXCEPT !.pc = pc]
    BY DEF RecordLink, AfterCase
  <1>6. /\ batch'.pc = pc /\ batch'.cases = batch.cases /\ batch'.todo = batch.todo
        /\ batch'.scheduled = batch.scheduled /\ batch'.queue = batch.queue
        /\ batch'.executed = batch.executed /\ batch'.now = batch.now
    BY <1>5, <1>a DEF Run
  <1>7. batch' \in Run
    BY <1>5, <1>a DEF Run
  <1>8. batch.queue = << >> /\ Len(batch.queue) = 0
    BY <1>b DEF BatchInv, Planning
  <1>9. \A i \in 1 .. n : /\ table'[i].case = table[i].case /\ table'[i].type = table[i].type
                          /\ OpenRow(i)' => OpenRow(i)
                          /\ table[i].type = "retry_charge" => table'[i] = table[i]
    <2>1. \A i \in 1 .. n : i = n \/ i \in 1 .. n \ {n}
      OBVIOUS
    <2> QED
      BY <1>2, <1>4, <2>1 DEF OpenRow
  <1>10. \A i \in batch.scheduled : i \in 1 .. n /\ table'[i] = table[i]
    BY <1>a, <1>1, <1>9 DEF BatchInv, Kinds
  <1>11. Typed'
    <2>1. \A i \in 1 .. Len(table') : table'[i].case \in DOMAIN cases'
      BY <1>b, <1>1, <1>4, <1>9 DEF BatchInv, Typed
    <2>2. \A k \in 1 .. Len(batch'.queue) : batch'.queue[k] \in 1 .. Len(table')
      BY <1>6, <1>8
    <2>3. batch'.cases \subseteq DOMAIN cases' /\ batch'.scheduled \subseteq 1 .. Len(table')
      BY <1>a, <1>b, <1>1, <1>4, <1>6 DEF BatchInv, Typed
    <2>4. /\ cases \in [DOMAIN cases -> CaseRow] /\ DOMAIN cases \subseteq Cases
          /\ DOMAIN cases = 1 .. Cardinality(DOMAIN cases) /\ day \in Nat
          /\ resolved \in [Cases -> SUBSET OutcomeStatus]
          /\ report \in [Cases -> {None, "recovered", "still at risk", "mandate revoked",
                                   "payment link pending"}]
      BY DEF BatchInv, Typed
    <2> QED
      BY <1>b, <1>4, <1>7, <2>1, <2>2, <2>3, <2>4 DEF Typed
  <1>12. OneLife'
    <2>1. \A i, j \in 1 .. n : OpenRow(i)' /\ OpenRow(j)' /\ table'[i].case = table'[j].case => i = j
      BY <1>1, <1>9 DEF BatchInv, OneLife
    <2>2. \A i \in 1 .. n : OpenRow(i)' => resolved'[table'[i].case] = {}
      BY <1>b, <1>1, <1>9 DEF BatchInv, OneLife
    <2> QED
      BY <1>b, <1>4, <2>1, <2>2 DEF BatchInv, OneLife
  <1>13. BlankCases'
    <2>1. \A c \in Cases : Blank(c) => Blank(c)'
      BY <1>b, <1>1, <1>4, <1>9 DEF Blank
    <2>2. batch.todo \subseteq Cases
      BY <1>a DEF Run
    <2> QED
      BY <1>b, <1>6, <2>1, <2>2 DEF BatchInv, BlankCases
  <1>14. Planning'
    <2>1. /\ \A i \in batch.scheduled : /\ table[i].case \in batch.cases
                                       /\ table[i].status = "scheduled"
                                       /\ table[i].sched <= batch.now + Ahead
          /\ \A i \in 1 .. n :
                OpenRow(i) /\ table[i].type = "retry_charge" /\ table[i].case \in batch.cases
                   => i \in batch.scheduled
          /\ batch.executed = {}
      BY <1>b, <1>1 DEF BatchInv, Planning
    <2>2. \A i \in batch'.scheduled : /\ table'[i].case \in batch'.cases
                                     /\ table'[i].status = "scheduled"
                                     /\ table'[i].sched <= batch'.now + Ahead
      BY <1>6, <1>10, <2>1
    <2>3. \A i \in 1 .. n :
             OpenRow(i)' /\ table'[i].type = "retry_charge" /\ table'[i].case \in batch'.cases
                => i \in batch'.scheduled
      BY <1>6, <1>9, <2>1
    <2> QED
      BY <1>4, <1>6, <1>8, <2>1, <2>2, <2>3 DEF Planning
  <1>15. Recoveries'
    <2>1. /\ \A i \in batch.scheduled :
                Success(i) \in batch.executed => "recovered" \in resolved[table[i].case]
          /\ \A c \in batch.cases : "recovered" \in resolved[c] =>
                \E i \in batch.scheduled : table[i].case = c /\ Success(i) \in batch.executed
      BY DEF BatchInv, Recoveries
    <2> QED
      BY <1>b, <1>6, <1>10, <2>1 DEF Recoveries
  <1>16. Kinds'
    BY <1>6, <1>8, <1>10 DEF BatchInv, Kinds
  <1>17. Claimed' /\ Complete' /\ StopsOverLeftovers' /\ ReportCountsRecoveries'
    BY <1>6, <1>8 DEF Claimed, Complete, StopsOverLeftovers, ReportCountsRecoveries
  <1> QED
    BY <1>11, <1>12, <1>13, <1>14, <1>15, <1>16, <1>17 DEF BatchInv


(* The attempt at the head of the queue is the only open row of its case,  *)
(* which has no outcome yet: it is settled, and at most one row follows.   *)
Settled(i, c, recovers) ==
    /\ i = batch.queue[1] /\ table[i].case = c /\ OpenRow(i) /\ resolved[c] = {}
    /\ batch' = [batch EXCEPT !.queue = Tail(@),
                    !.executed = @ \cup {[row |-> i, recovered |-> recovers]}]
    /\ table' \in Seq(TableRow) /\ Len(table') \in {Len(table), Len(table) + 1}
    /\ \A j \in 1 .. Len(table) \ {i} : table'[j] = table[j]
    /\ table'[i].case = c /\ table'[i].type = table[i].type
    /\ table'[i].status \in {"executed", "failed"}
    /\ Len(table') = Len(table) + 1 =>
          /\ table'[Len(table) + 1].case = c
          /\ table'[Len(table) + 1].status \in {"scheduled", "executing"} => resolved'[c] = {}
    /\ resolved' \in [Cases -> SUBSET OutcomeStatus]
    /\ \A d \in Cases \ {c} : resolved'[d] = resolved[d]
    /\ \A k, l \in resolved'[c] : k = l
    /\ "recovered" \in resolved'[c] <=> recovers

LEMMA ExecuteSettles ==
    ASSUME BatchInv, ExecuteRetry
    PROVE  \E i \in 1 .. Len(table), c \in batch.cases, recovers \in BOOLEAN :
              Settled(i, c, recovers)
  <1>a. /\ table \in Seq(TableRow) /\ batch \in Run /\ cases \in [DOMAIN cases -> CaseRow]
        /\ resolved \in [Cases -> SUBSET OutcomeStatus] /\ DOMAIN cases \subseteq Cases
        /\ batch.cases \subseteq DOMAIN cases
    BY DEF BatchInv, Typed
  <1>b. batch.queue # << >> /\ batch.queue \in Seq(Nat) /\ batch.now \in Nat
    BY <1>a DEF ExecuteRetry, NextRetry, Run
  <1>1. PICK i : i = Head(batch.queue)
    OBVIOUS
  <1>2. i = batch.queue[1] /\ 1 \in 1 .. Len(batch.queue)
    BY <1>1, <1>b
  <1>3. i \in 1 .. Len(table) /\ table[i].status = "executing" /\ OpenRow(i)
    BY <1>2 DEF BatchInv, Typed, Claimed, OpenRow
  <1>4. PICK c : c = table[i].case
    OBVIOUS
  <1>5. c \in batch.cases /\ c \in DOMAIN cases /\ c \in Cases /\ cases[c] \in CaseRow
    BY <1>1, <1>4, <1>a DEF ExecuteRetry, RetriedCase
  <1>6. resolved[c] = {}
    BY <1>3, <1>4 DEF BatchInv, OneLife
  <1>7. PICK row : row = Row(c, batch.now + Ahead, "halted", Attempts(c))
    OBVIOUS
  <1>8. /\ row \in TableRow /\ row.case = c
        /\ row.status \in {"scheduled", "executed"}
    <2>1. batch.now + Ahead \in Nat /\ Attempts(c) \in Nat
      BY <1>a, <1>b, BatchConstants, AttemptsType
    <2> QED
      BY <1>5, <1>7, <2>1, RowType
  <1>9. PICK recovers \in BOOLEAN : recovers = cases[c].recover
    BY <1>5 DEF CaseRow
  <1>10. /\ table' = Retried(i, row)
         /\ resolved' = IF recovers THEN [resolved EXCEPT ![c] = @ \cup {"recovered"}]
                        ELSE Resolve(c, row)
         /\ batch' = [batch EXCEPT !.queue = Tail(@),
                         !.executed = @ \cup {[row |-> i, recovered |-> recovers]}]
    BY <1>1, <1>4, <1>7, <1>9 DEF ExecuteRetry, RetriedCase
  <1>11. PICK n \in Nat : n = Len(table)
    BY <1>a
  <1>12. "executed" \in ActionStatus /\ "failed" \in ActionStatus
    BY DEF ActionStatus
  <1>13. ASSUME recovers PROVE Settled(i, c, recovers)
    <2>1. table' = Settle(table, i, "executed")
      BY <1>4, <1>8, <1>9, <1>10, <1>13 DEF Retried, Settle
    <2>2. /\ table' \in Seq(TableRow) /\ Len(table') = n
          /\ \A j \in 1 .. n \ {i} : table'[j] = table[j]
          /\ table'[i].status = "executed" /\ table'[i].case = table[i].case
          /\ table'[i].type = table[i].type
      <3>1. table \in Seq(TableRow) /\ i \in 1 .. Len(table)
        BY <1>a, <1>3
      <3>2. /\ Settle(table, i, "executed") \in Seq(TableRow)
            /\ Len(Settle(table, i, "executed")) = Len(table)
            /\ \A j \in 1 .. Len(table) \ {i} : Settle(table, i, "executed")[j] = table[j]
            /\ Settle(table, i, "executed")[i].status = "executed"
            /\ Settle(table, i, "executed")[i].case = table[i].case
            /\ Settle(table, i, "executed")[i].type = table[i].type
        BY <1>12, <3>1, TableSettle
      <3> QED
        BY <1>11, <2>1, <3>2
    <2>3. Len(table') # n + 1
      BY <1>11, <2>2
    <2>4. /\ resolved' \in [Cases -> SUBSET OutcomeStatus]
          /\ \A d \in Cases \ {c} : resolved'[d] = resolved[d]
          /\ resolved'[c] = {"recovered"}
      BY <1>a, <1>5, <1>6, <1>10, <1>13 DEF OutcomeStatus
    <2> QED
      BY <1>2, <1>3, <1>4, <1>6, <1>10, <1>11, <1>13, <2>2, <2>3, <2>4 DEF Settled
  <1>14. ASSUME ~recovers PROVE Settled(i, c, recovers)
    <2>1. PICK t : t = Settle(table, i, "failed")
      OBVIOUS
    <2>2. table' = Append(t, row)
      BY <1>8, <1>9, <1>10, <1>14, <2>1 DEF Retried, Settle
    <2>3. /\ t \in Seq(TableRow) /\ Len(t) = n
          /\ \A j \in 1 .. n \ {i} : t[j] = table[j]
          /\ t[i].status = "failed" /\ t[i].case = c /\ t[i].type = table[i].type
      <3>1. table \in Seq(TableRow) /\ i \in 1 .. Len(table)
        BY <1>a, <1>3
      <3>2. /\ Settle(table, i, "failed") \in Seq(TableRow)
            /\ Len(Settle(table, i, "failed")) = Len(table)
            /\ \A j \in 1 .. Len(table) \ {i} : Settle(table, i, "failed")[j] = table[j]
            /\ Settle(table, i, "failed")[i].status = "failed"
            /\ Settle(table, i, "failed")[i].case = table[i].case
            /\ Settle(table, i, "failed")[i].type = table[i].type
        BY <1>12, <3>1, TableSettle
      <3> QED
        BY <1>4, <1>11, <2>1, <3>2
    <2>4. /\ table' \in Seq(TableRow) /\ Len(table') = n + 1
          /\ table'[n + 1] = row /\ \A j \in 1 .. n : table'[j] = t[j]
      BY <1>8, <2>2, <2>3, TableAppend
    <2>5. /\ \A j \in 1 .. n \ {i} : table'[j] = table[j]
          /\ table'[i].case = c /\ table'[i].status = "failed"
          /\ table'[i].type = table[i].type
      BY <1>3, <1>11, <2>3, <2>4
    <2>6. /\ Resolve(c, row) \in [Cases -> SUBSET OutcomeStatus]
          /\ \A d \in Cases \ {c} : Resolve(c, row)[d] = resolved[d]
          /\ Resolve(c, row)[c] \in {{}, {"escalated"}}
          /\ row.status # "executed" => Resolve(c, row)[c] = {}
      <3>1. resolved \in [Cases -> SUBSET OutcomeStatus] /\ c \in Cases /\ resolved[c] = {}
        BY <1>a, <1>5, <1>6
      <3> QED
        BY <3>1, ResolveType
    <2>7. resolved' = Resolve(c, row)
      BY <1>10, <1>14
    <2>8. row.status \in {"scheduled", "executing"} => resolved'[c] = {}
      BY <1>8, <2>6, <2>7
    <2>9. /\ \A k, l \in resolved'[c] : k = l
          /\ "recovered" \notin resolved'[c]
      BY <2>6, <2>7
    <2>10. /\ table' \in Seq(TableRow) /\ Len(table') = Len(table) + 1
           /\ table'[Len(table) + 1] = row
           /\ \A j \in 1 .. Len(table) \ {i} : table'[j] = table[j]
      BY <1>11, <2>4, <2>5
    <2>11. /\ i = batch.queue[1] /\ table[i].case = c /\ OpenRow(i) /\ resolved[c] = {}
           /\ batch' = [batch EXCEPT !.queue = Tail(@),
                           !.executed = @ \cup {[row |-> i, recovered |-> recovers]}]
      BY <1>2, <1>3, <1>4, <1>6, <1>10
    <2>12. /\ resolved' \in [Cases -> SUBSET OutcomeStatus]
           /\ \A d \in Cases \ {c} : resolved'[d] = resolved[d]
      BY <2>6, <2>7
    <2> QED
      BY <1>8, <1>14, <2>5, <2>8, <2>9, <2>10, <2>11, <2>12 DEF Settled
  <1> QED
    BY <1>3, <1>5, <1>13, <1>14

LEMMA ExecuteKeeps == BatchInv /\ ExecuteRetry => BatchInv'
  <1> SUFFICES ASSUME BatchInv, ExecuteRetry PROVE BatchInv'
    OBVIOUS
  <1>a. /\ table \in Seq(TableRow) /\ batch \in Run
        /\ resolved \in [Cases -> SUBSET OutcomeStatus] /\ DOMAIN cases \subseteq Cases
        /\ batch.cases \subseteq DOMAIN cases /\ batch.scheduled \subseteq 1 .. Len(table)
    BY DEF BatchInv, Typed
  <1>b. /\ batch.pc = "retries" /\ batch.queue # << >> /\ batch.queue \in Seq(Nat)
        /\ UNCHANGED <<cases, report, day>>
    BY <1>a DEF ExecuteRetry, NextRetry, Run
  <1>1. PICK n \in Nat : n = Len(table)
    BY <1>a
  <1>c. PICK i \in 1 .. n, c \in batch.cases, recovers \in BOOLEAN : Settled(i, c, recovers)
    BY <1>1, ExecuteSettles
  <1>2. /\ i = batch.queue[1] /\ table[i].case = c /\ OpenRow(i) /\ resolved[c] = {}
        /\ batch' = [batch EXCEPT !.queue = Tail(@),
                        !.executed = @ \cup {[row |-> i, recovered |-> recovers]}]
        /\ table' \in Seq(TableRow) /\ Len(table') \in {n, n + 1}
        /\ \A j \in 1 .. n \ {i} : table'[j] = table[j]
        /\ table'[i].case = c /\ table'[i].type = table[i].type /\ ~OpenRow(i)'
        /\ Len(table') = n + 1 =>
              /\ table'[n + 1].case = c
              /\ OpenRow(n + 1)' => resolved'[c] = {}
        /\ resolved' \in [Cases -> SUBSET OutcomeStatus]
        /\ \A d \in Cases \ {c} : resolved'[d] = resolved[d]
        /\ \A k, l \in resolved'[c] : k = l
        /\ "recovered" \in resolved'[c] <=> recovers
    BY <1>1, <1>c DEF Settled, OpenRow
  <1>3. PICK m \in Nat : m = Len(batch.queue)
    BY <1>b
  <1>4. /\ m > 0 /\ Tail(batch.queue) \in Seq(Nat) /\ Len(Tail(batch.queue)) = m - 1
        /\ \A k \in 1 .. m - 1 : k + 1 \in 1 .. m /\ Tail(batch.queue)[k] = batch.queue[k + 1]
    BY <1>b, <1>3
  <1>5. /\ batch'.pc = "retries" /\ batch'.cases = batch.cases /\ batch'.todo = batch.todo
        /\ batch'.scheduled = batch.scheduled /\ batch'.queue = Tail(batch.queue)
        /\ batch'.executed = batch.executed \cup {[row |-> i, recovered |-> recovers]}
    BY <1>2, <1>a, <1>b DEF Run
  <1>6. batch' \in Run
    <2>1. batch.executed \cup {[row |-> i, recovered |-> recovers]}
             \in SUBSET [row : Nat, recovered : BOOLEAN]
      BY <1>1, <1>2, <1>a DEF Run
    <2> QED
      BY <1>2, <1>4, <1>a, <2>1 DEF Run
  <1>7. /\ 1 .. n \subseteq 1 .. Len(table') /\ n + 1 \notin 1 .. n
        /\ \A j \in 1 .. Len(table') : j \in 1 .. n \/ (j = n + 1 /\ Len(table') = n + 1)
    BY <1>1, <1>2
  <1>8. /\ \A j \in 1 .. n : table[j].case \in DOMAIN cases /\ table'[j].case = table[j].case
        /\ c \in DOMAIN cases /\ c \in Cases
    <2>1. \A j \in 1 .. n : table[j].case \in DOMAIN cases
      BY <1>1 DEF BatchInv, Typed
    <2>2. \A j \in 1 .. n : j = i \/ j \in 1 .. n \ {i}
      OBVIOUS
    <2>3. \A j \in 1 .. n : table'[j].case = table[j].case
      BY <1>2, <2>2
    <2>4. c \in DOMAIN cases /\ c \in Cases
      BY <1>a
    <2> QED
      BY <2>1, <2>3, <2>4
  <1>9. \A k \in 1 .. m : batch.queue[k] \in 1 .. n /\ (k # 1 => batch.queue[k] # i)
    <2>1. \A k \in 1 .. m : batch.queue[k] \in 1 .. n
      BY <1>1, <1>3 DEF BatchInv, Typed
    <2>2. \A k, l \in 1 .. m : batch.queue[k] = batch.queue[l] => k = l
      BY <1>3 DEF BatchInv, Claimed
    <2>3. 1 \in 1 .. m /\ i = batch.queue[1]
      BY <1>2, <1>4
    <2> QED
      BY <2>1, <2>2, <2>3
  <1>10. \A k \in 1 .. m - 1 : Tail(batch.queue)[k] \in 1 .. n \ {i}
    BY <1>4, <1>9
  <1>11. \A j \in 1 .. n : j # i /\ OpenRow(j) => table[j].case # c
    BY <1>1, <1>2 DEF BatchInv, OneLife
  <1>12. Typed'
    <2>1. /\ cases \in [DOMAIN cases -> CaseRow]
          /\ DOMAIN cases = 1 .. Cardinality(DOMAIN cases) /\ day \in Nat
          /\ report \in [Cases -> {None, "recovered", "still at risk", "mandate revoked",
                                   "payment link pending"}]
      BY DEF BatchInv, Typed
    <2>2. \A j \in 1 .. Len(table') : table'[j].case \in DOMAIN cases'
      BY <1>b, <1>2, <1>7, <1>8
    <2>3. batch'.cases \subseteq DOMAIN cases' /\ batch'.scheduled \subseteq 1 .. Len(table')
      BY <1>a, <1>b, <1>1, <1>5, <1>7
    <2>4. \A k \in 1 .. Len(batch'.queue) : batch'.queue[k] \in 1 .. Len(table')
      BY <1>4, <1>5, <1>7, <1>10
    <2> QED
      BY <1>a, <1>b, <1>2, <1>6, <2>1, <2>2, <2>3, <2>4 DEF Typed
  <1>13. OneLife'
    <2>1. \A j \in 1 .. n : OpenRow(j)' => j # i /\ OpenRow(j) /\ table'[j].case # c
      BY <1>2, <1>8, <1>11 DEF OpenRow
    <2>2. \A j, k \in 1 .. Len(table') :
             OpenRow(j)' /\ OpenRow(k)' /\ table'[j].case = table'[k].case => j = k
      <3>1. \A j, k \in 1 .. n : OpenRow(j)' /\ OpenRow(k)' /\ table'[j].case = table'[k].case => j = k
        BY <1>1, <1>8, <2>1 DEF BatchInv, OneLife
      <3> QED
        BY <1>2, <1>7, <2>1, <3>1
    <2>3. \A j \in 1 .. n : OpenRow(j)' => resolved'[table'[j].case] = {}
      <3> SUFFICES ASSUME NEW j \in 1 .. n, OpenRow(j)' PROVE resolved'[table'[j].case] = {}
        OBVIOUS
      <3>1. OpenRow(j) /\ table[j].case # c /\ table[j].case \in Cases
        BY <1>a, <1>8, <2>1
      <3>2. resolved[table[j].case] = {}
        BY <1>1, <3>1 DEF BatchInv, OneLife
      <3> QED
        BY <1>2, <1>8, <3>1, <3>2
    <2>4. \A d \in Cases : \A k, l \in resolved'[d] : k = l
      BY <1>2 DEF BatchInv, OneLife
    <2>5. \A j \in 1 .. Len(table') : OpenRow(j)' => resolved'[table'[j].case] = {}
      BY <1>2, <1>7, <2>3
    <2> QED
      BY <2>2, <2>4, <2>5 DEF OneLife
  <1>14. BlankCases'
    <2>1. \A d \in Cases : Blank(d) => d # c /\ Blank(d)'
      <3> SUFFICES ASSUME NEW d \in Cases, Blank(d) PROVE d # c /\ Blank(d)'
        OBVIOUS
      <3>1. d # c
        BY <1>1, <1>2 DEF Blank
      <3>2. resolved'[d] = {}
        BY <1>2, <3>1 DEF Blank
      <3>3. \A j \in 1 .. Len(table') : table'[j].case # d
        BY <1>1, <1>2, <1>7, <1>8, <3>1 DEF Blank
      <3> QED
        BY <3>1, <3>2, <3>3 DEF Blank
    <2>2. /\ \A d \in Cases \ DOMAIN cases : Blank(d)
          /\ batch.todo \subseteq batch.cases /\ \A d \in batch.todo : Blank(d)
      BY DEF BatchInv, BlankCases
    <2>3. batch.todo \subseteq Cases
      BY <1>a, <2>2
    <2> QED
      BY <1>b, <1>5, <2>1, <2>2, <2>3 DEF BlankCases
  <1>15. Planning'
    <2>1. \A j \in batch.scheduled : table[j].case \in batch.cases
      BY DEF BatchInv, Planning
    <2>2. \A j \in batch'.scheduled : table'[j].case \in batch'.cases
      BY <1>a, <1>1, <1>5, <1>8, <2>1
    <2> QED
      BY <1>5, <2>2 DEF Planning
  <1>16. Claimed'
    <2>1. \A k \in 1 .. m - 1 :
             /\ table'[Tail(batch.queue)[k]] = table[batch.queue[k + 1]]
             /\ table[batch.queue[k + 1]].status = "executing"
             /\ table[batch.queue[k + 1]].case \in batch.cases =>
                   batch.queue[k + 1] \in batch.scheduled
      BY <1>2, <1>3, <1>4, <1>10 DEF BatchInv, Claimed
    <2>2. \A k, l \in 1 .. m - 1 : Tail(batch.queue)[k] = Tail(batch.queue)[l] => k = l
      <3> SUFFICES ASSUME NEW k \in 1 .. m - 1, NEW l \in 1 .. m - 1,
                          Tail(batch.queue)[k] = Tail(batch.queue)[l]
                   PROVE  k = l
        OBVIOUS
      <3>1. k + 1 \in 1 .. m /\ l + 1 \in 1 .. m /\ batch.queue[k + 1] = batch.queue[l + 1]
        BY <1>4
      <3>2. k + 1 = l + 1
        BY <1>3, <3>1 DEF BatchInv, Claimed
      <3> QED
        BY <1>3, <3>2
    <2>3. 1 .. Len(batch'.queue) = 1 .. m - 1
      BY <1>4, <1>5
    <2>4. \A k \in 1 .. m - 1 :
             /\ table'[batch'.queue[k]].status = "executing"
             /\ table'[batch'.queue[k]].case \in batch'.cases => batch'.queue[k] \in batch'.scheduled
      BY <1>4, <1>5, <2>1
    <2>5. \A k, l \in 1 .. m - 1 : batch'.queue[k] = batch'.queue[l] => k = l
      BY <1>5, <2>2
    <2> QED
      BY <2>3, <2>4, <2>5 DEF Claimed
  <1>17. i \in batch.scheduled
    <2>1. 1 \in 1 .. Len(batch.queue)
      BY <1>3, <1>4
    <2> QED
      BY <1>2, <2>1 DEF BatchInv, Claimed
  <1>18. Recoveries'
    <2>1. \A j \in 1 .. n : Success(j) \in batch'.executed <=>
             Success(j) \in batch.executed \/ (j = i /\ recovers)
      BY <1>1, <1>2, <1>5 DEF Success
    <2>2. ASSUME NEW j \in batch.scheduled, Success(j) \in batch'.executed
          PROVE  "recovered" \in resolved'[table'[j].case]
      <3>1. j \in 1 .. n
        BY <1>a, <1>1
      <3>2. CASE Success(j) \in batch.executed
        <4>1. "recovered" \in resolved[table[j].case]
          BY <3>2 DEF BatchInv, Recoveries
        <4>2. table[j].case # c
          BY <1>2, <4>1
        <4> QED
          BY <1>2, <1>8, <1>a, <3>1, <4>1, <4>2
      <3>3. CASE j = i /\ recovers
        BY <1>2, <3>3
      <3> QED
        BY <2>1, <2>2, <3>1, <3>2, <3>3
    <2>3. ASSUME NEW d \in batch.cases, "recovered" \in resolved'[d]
          PROVE  \E j \in batch.scheduled : table'[j].case = d /\ Success(j) \in batch'.executed
      <3>1. CASE d = c
        <4>1. recovers
          BY <1>2, <2>3, <3>1
        <4> QED
          BY <1>2, <1>17, <2>1, <3>1, <4>1
      <3>2. CASE d # c
        <4>1. "recovered" \in resolved[d]
          BY <1>2, <1>a, <2>3, <3>2
        <4>2. PICK j \in batch.scheduled : table[j].case = d /\ Success(j) \in batch.executed
          BY <4>1 DEF BatchInv, Recoveries
        <4>3. j \in 1 .. n
          BY <1>a, <1>1
        <4> QED
          BY <1>8, <2>1, <4>2, <4>3
      <3> QED
        BY <3>1, <3>2
    <2> QED
      BY <1>5, <2>2, <2>3 DEF Recoveries
  <1>19. Complete'
    <2>1. CASE \A j \in batch.scheduled : Execution(j) # {} \/ Waiting(j)
      <3> SUFFICES ASSUME NEW j \in batch.scheduled PROVE Execution(j)' # {} \/ Waiting(j)'
        BY <1>5 DEF Complete
      <3>1. CASE Execution(j) # {}
        <4>1. PICK x \in batch.executed : x.row = j
          BY <3>1 DEF Execution
        <4>2. x \in batch'.executed
          BY <1>5
        <4> QED
          BY <4>1, <4>2 DEF Execution
      <3>2. CASE Waiting(j)
        <4>1. PICK k \in 1 .. m : batch.queue[k] = j
          BY <1>3, <3>2 DEF Waiting
        <4>2. CASE k = 1
          <5>1. [row |-> i, recovered |-> recovers] \in batch'.executed /\ i = j
            BY <1>2, <1>5, <4>1, <4>2
          <5> QED
            BY <5>1 DEF Execution
        <4>3. CASE k # 1
          <5>1. k - 1 \in 1 .. m - 1 /\ (k - 1) + 1 = k
            BY <1>3, <4>3
          <5>2. batch'.queue[k - 1] = j /\ k - 1 \in 1 .. Len(batch'.queue)
            BY <1>4, <1>5, <4>1, <5>1
          <5> QED
            BY <5>2 DEF Waiting
        <4> QED
          BY <4>2, <4>3
      <3> QED
        BY <2>1, <3>1, <3>2
    <2>2. CASE \E k \in 1 .. Len(batch.queue) : Strange(k)
      <3>1. PICK k \in 1 .. m : Strange(k)
        BY <1>3, <2>2
      <3>2. k # 1
        BY <1>2, <3>1 DEF Strange
      <3>3. k - 1 \in 1 .. m - 1 /\ (k - 1) + 1 = k
        BY <1>3, <3>2
      <3>4. batch'.queue[k - 1] = batch.queue[k] /\ k - 1 \in 1 .. Len(batch'.queue)
        BY <1>4, <1>5, <3>3
      <3>5. Strange(k - 1)'
        BY <1>5, <1>8, <1>9, <3>1, <3>4 DEF Strange
      <3> QED
        BY <3>4, <3>5 DEF Complete
    <2> QED
      BY <1>b, <2>1, <2>2 DEF BatchInv, Complete
  <1>20. Kinds'
    <2>1. \A k \in 1 .. m - 1 : /\ table'[Tail(batch.queue)[k]] = table[batch.queue[k + 1]]
                                /\ table[batch.queue[k + 1]].type = "retry_charge"
      BY <1>2, <1>3, <1>4, <1>10 DEF BatchInv, Kinds
    <2>2. \A k \in 1 .. Len(batch'.queue) : table'[batch'.queue[k]].type = "retry_charge"
      BY <1>4, <1>5, <2>1
    <2>3. \A j \in batch.scheduled : table'[j].type = "retry_charge"
      <3>1. \A j \in batch.scheduled : j \in 1 .. n /\ table[j].type = "retry_charge"
        BY <1>a, <1>1 DEF BatchInv, Kinds
      <3> QED
        BY <1>2, <3>1
    <2> QED
      BY <1>5, <2>2, <2>3 DEF Kinds
  <1>21. StopsOverLeftovers' /\ ReportCountsRecoveries'
    BY <1>5 DEF StopsOverLeftovers, ReportCountsRecoveries
  <1> QED
    BY <1>12, <1>13, <1>14, <1>15, <1>16, <1>18, <1>19, <1>20, <1>21 DEF BatchInv

(* As many places as rows: none is queued twice.                           *)
LEMMA QueuedOnce ==
    ASSUME NEW m \in Nat, NEW T, NEW q \in Surjection(1 .. m, T), Cardinality(T) = m
    PROVE  \A k, l \in 1 .. m : q[k] = q[l] => k = l
  <1>1. IsFiniteSet(1 .. m) /\ Cardinality(1 .. m) = m
    BY FS_Interval
  <1>2. q \in Injection(1 .. m, T)
    BY <1>1, FS_Surjection
  <1> QED
    BY <1>2 DEF Injection, IsInjective

(* A claim takes one row more than the batch has scheduled: if it takes    *)
(* none of another batch, all that is due fits, the scheduled ones with it.*)
LEMMA ClaimKeeps == BatchInv /\ ClaimDue => BatchInv'
  <1> SUFFICES ASSUME BatchInv, ClaimDue PROVE BatchInv'
    OBVIOUS
  <1>a. /\ table \in Seq(TableRow) /\ batch \in Run
        /\ batch.scheduled \subseteq 1 .. Len(table)
    BY DEF BatchInv, Typed
  <1>b. batch.pc = "claim" /\ UNCHANGED <<cases, resolved, report, day>>
    BY DEF ClaimDue
  <1>1. PICK n \in Nat : n = Len(table)
    BY <1>a
  <1>2. DOMAIN table = 1 .. n
    BY <1>a, <1>1
  <1>3. PICK due : due = DueAhead
    OBVIOUS
  <1>4. /\ due \subseteq 1 .. n
        /\ \A i \in due : table[i].status = "scheduled" /\ table[i].type = "retry_charge"
        /\ \A i \in 1 .. n : /\ table[i].status = "scheduled" /\ table[i].type = "retry_charge"
                              /\ table[i].sched <= batch.now + Ahead
              => i \in due
    BY <1>2, <1>3 DEF DueAhead, Scheduled
  <1>5. IsFiniteSet(batch.scheduled) /\ Cardinality(batch.scheduled) \in Nat
    <2>1. IsFiniteSet(1 .. Len(table))
      BY <1>1, FS_Interval
    <2> QED
      BY <1>a, <2>1, FS_Subset, FS_CardinalityType
  <1>6. PICK m \in 0 .. Cardinality(batch.scheduled) + 1 : \E f \in [1 .. m -> due] :
           LET taken == {f[k] : k \in DOMAIN f}
           IN  /\ Cardinality(taken) = Len(f)
               /\ due \subseteq taken \/ Len(f) = Cardinality(batch.scheduled) + 1
               /\ table' = Flip(taken)
               /\ batch' = [batch EXCEPT !.pc = "retries", !.queue = f]
    BY <1>3 DEF ClaimDue
  <1>7. PICK q \in [1 .. m -> due] :
           LET taken == {q[k] : k \in DOMAIN q}
           IN  /\ Cardinality(taken) = Len(q)
               /\ due \subseteq taken \/ Len(q) = Cardinality(batch.scheduled) + 1
               /\ table' = Flip(taken)
               /\ batch' = [batch EXCEPT !.pc = "retries", !.queue = q]
    BY <1>6
  <1>8. PICK taken : taken = {q[k] : k \in 1 .. m}
    OBVIOUS
  <1>9. m \in Nat /\ q \in Seq(Nat) /\ Len(q) = m /\ DOMAIN q = 1 .. m
    <2>1. m \in Nat
      BY <1>5
    <2>2. due \subseteq Nat
      BY <1>4
    <2>3. q \in [1 .. m -> Nat]
      BY <2>2
    <2> QED
      BY <2>1, <2>3, IntervalSeq
  <1>10. /\ Cardinality(taken) = m
         /\ due \subseteq taken \/ m = Cardinality(batch.scheduled) + 1
         /\ table' = Flip(taken)
         /\ batch' = [batch EXCEPT !.pc = "retries", !.queue = q]
    BY <1>7, <1>8, <1>9
  <1>11. taken \subseteq due /\ \A k \in 1 .. m : q[k] \in taken /\ q[k] \in 1 .. n
    BY <1>4, <1>8
  <1>12. /\ batch'.pc = "retries" /\ batch'.cases = batch.cases /\ batch'.todo = batch.todo
         /\ batch'.scheduled = batch.scheduled /\ batch'.queue = q
         /\ batch'.executed = batch.executed
    BY <1>10, <1>a DEF Run
  <1>13. batch' \in Run
    BY <1>9, <1>10, <1>a DEF Run
  <1>14. /\ table' \in Seq(TableRow) /\ Len(table') = n
         /\ \A i \in 1 .. n : /\ table'[i].case = table[i].case
                              /\ table'[i].type = table[i].type
                              /\ i \in taken => table'[i].status = "executing"
                              /\ i \notin taken => table'[i] = table[i]
    <2>1. \A i \in 1 .. n : table[i] \in TableRow
      BY <1>a, <1>1
    <2>2. table' = [i \in 1 .. n |->
                      IF i \in taken THEN [table[i] EXCEPT !.status = "executing"] ELSE table[i]]
      BY <1>2, <1>10 DEF Flip
    <2>3. \A i \in 1 .. n : [table[i] EXCEPT !.status = "executing"] \in TableRow
      BY <2>1 DEF TableRow, ActionStatus
    <2>4. \A i \in 1 .. n : table'[i] \in TableRow
      BY <2>1, <2>2, <2>3
    <2>5. table' \in [1 .. n -> TableRow]
      BY <2>2, <2>4
    <2>6. table' \in Seq(TableRow) /\ Len(table') = n
      BY <2>5, IntervalSeq
    <2>7. \A i \in taken : /\ table'[i].case = table[i].case
                           /\ table'[i].type = table[i].type
                           /\ table'[i].status = "executing"
      BY <1>4, <1>11, <2>1, <2>2 DEF TableRow
    <2>8. \A i \in 1 .. n : i \notin taken => table'[i] = table[i]
      BY <2>2
    <2> QED
      BY <2>6, <2>7, <2>8
  <1>15. \A i \in 1 .. n : OpenRow(i)' <=> OpenRow(i)
    BY <1>4, <1>11, <1>14 DEF OpenRow
  <1>16. /\ \A i \in batch.scheduled : i \in due /\ table[i].case \in batch.cases
         /\ \A i \in 1 .. n :
               OpenRow(i) /\ table[i].type = "retry_charge" /\ table[i].case \in batch.cases
                  => i \in batch.scheduled
    BY <1>a, <1>b, <1>1, <1>4 DEF BatchInv, Planning, Kinds
  <1>17. /\ \A k, l \in 1 .. m : q[k] = q[l] => k = l
         /\ taken \subseteq batch.scheduled => batch.scheduled \subseteq taken
    <2>1. batch.scheduled \subseteq due
      BY <1>16
    <2>2. \A k, l \in 1 .. m : q[k] = q[l] => k = l
      <3>1. q \in [1 .. m -> taken] /\ \A t \in taken : \E k \in 1 .. m : q[k] = t
        BY <1>8
      <3>2. q \in Surjection(1 .. m, taken)
        BY <3>1 DEF Surjection
      <3> QED
        BY <1>9, <1>10, <3>2, QueuedOnce
    <2>3. ASSUME taken \subseteq batch.scheduled PROVE batch.scheduled \subseteq taken
      <3>1. Cardinality(taken) <= Cardinality(batch.scheduled)
        BY <1>5, <2>3, FS_Subset
      <3> QED
        BY <1>5, <1>9, <1>10, <2>1, <3>1
    <2> QED
      BY <2>2, <2>3
  <1>18. Typed'
    <2>1. /\ cases \in [DOMAIN cases -> CaseRow] /\ DOMAIN cases \subseteq Cases
          /\ DOMAIN cases = 1 .. Cardinality(DOMAIN cases) /\ day \in Nat
          /\ resolved \in [Cases -> SUBSET OutcomeStatus] /\ batch.cases \subseteq DOMAIN cases
          /\ report \in [Cases -> {None, "recovered", "still at risk", "mandate revoked",
                                   "payment link pending"}]
      BY DEF BatchInv, Typed
    <2>2. \A i \in 1 .. n : table[i].case \in DOMAIN cases
      BY <1>1 DEF BatchInv, Typed
    <2>3. \A i \in 1 .. Len(table') : table'[i].case \in DOMAIN cases'
      BY <1>b, <1>14, <2>2
    <2>4. batch'.cases \subseteq DOMAIN cases' /\ batch'.scheduled \subseteq 1 .. Len(table')
      BY <1>a, <1>b, <1>1, <1>12, <1>14, <2>1
    <2>5. \A k \in 1 .. Len(batch'.queue) : batch'.queue[k] \in 1 .. Len(table')
      BY <1>9, <1>11, <1>12, <1>14
    <2> QED
      BY <1>b, <1>13, <1>14, <2>1, <2>3, <2>4, <2>5 DEF Typed
  <1>19. OneLife'
    <2>1. \A i, j \in 1 .. n : OpenRow(i) /\ OpenRow(j) /\ table[i].case = table[j].case => i = j
      BY <1>1 DEF BatchInv, OneLife
    <2>2. \A i \in 1 .. n : OpenRow(i) => resolved[table[i].case] = {}
      BY <1>1 DEF BatchInv, OneLife
    <2>3. \A c \in Cases : \A k, l \in resolved[c] : k = l
      BY DEF BatchInv, OneLife
    <2>4. \A i, j \in 1 .. n : OpenRow(i)' /\ OpenRow(j)' /\ table'[i].case = table'[j].case => i = j
      BY <1>14, <1>15, <2>1
    <2>5. \A i \in 1 .. n : OpenRow(i)' => resolved'[table'[i].case] = {}
      BY <1>b, <1>14, <1>15, <2>2
    <2> QED
      BY <1>b, <1>14, <2>3, <2>4, <2>5 DEF OneLife
  <1>20. BlankCases'
    <2>1. \A c \in Cases : Blank(c) => Blank(c)'
      BY <1>b, <1>1, <1>14 DEF Blank
    <2>2. /\ \A c \in Cases \ DOMAIN cases : Blank(c)
          /\ batch.todo \subseteq batch.cases /\ \A c \in batch.todo : Blank(c)
      BY DEF BatchInv, BlankCases
    <2>3. batch.todo \subseteq Cases
      BY <1>a DEF Run
    <2> QED
      BY <1>b, <1>12, <2>1, <2>2, <2>3 DEF BlankCases
  <1>21. Planning'
    BY <1>a, <1>1, <1>12, <1>14, <1>16 DEF Planning
  <1>22. Claimed'
    <2>1. \A k \in 1 .. m : /\ table'[q[k]].status = "executing"
                            /\ table'[q[k]].case \in batch.cases => q[k] \in batch.scheduled
      <3>1. \A k \in 1 .. m : OpenRow(q[k]) /\ table[q[k]].type = "retry_charge"
        BY <1>4, <1>11 DEF OpenRow
      <3> QED
        BY <1>11, <1>14, <1>16, <3>1
    <2> QED
      BY <1>9, <1>12, <1>17, <2>1 DEF Claimed
  <1>23. Recoveries'
    <2>1. /\ \A i \in batch.scheduled :
                Success(i) \in batch.executed => "recovered" \in resolved[table[i].case]
          /\ \A c \in batch.cases : "recovered" \in resolved[c] =>
                \E i \in batch.scheduled : table[i].case = c /\ Success(i) \in batch.executed
      BY DEF BatchInv, Recoveries
    <2>2. \A i \in batch.scheduled : table'[i].case = table[i].case
      BY <1>a, <1>1, <1>14
    <2> QED
      BY <1>b, <1>12, <2>1, <2>2 DEF Recoveries
  <1>24. Complete'
    <2>1. CASE taken \subseteq batch.scheduled
      <3> SUFFICES ASSUME NEW i \in batch.scheduled PROVE Waiting(i)'
        BY <1>12 DEF Complete
      <3>1. PICK k \in 1 .. m : q[k] = i
        BY <1>8, <1>17, <2>1
      <3> QED
        BY <1>9, <1>12, <3>1 DEF Waiting
    <2>2. CASE ~(taken \subseteq batch.scheduled)
      <3>1. PICK k \in 1 .. m : q[k] \notin batch.scheduled
        BY <1>8, <2>2
      <3>2. table[q[k]].case \notin batch.cases
        BY <1>4, <1>11, <1>16, <3>1 DEF OpenRow
      <3>3. Strange(k)'
        BY <1>11, <1>12, <1>14, <3>2 DEF Strange
      <3> QED
        BY <1>9, <1>12, <3>3 DEF Complete
    <2> QED
      BY <2>1, <2>2
  <1>25. Kinds'
    <2>1. \A i \in batch.scheduled : i \in 1 .. n /\ table[i].type = "retry_charge"
      BY <1>a, <1>1 DEF BatchInv, Kinds
    <2>2. \A k \in 1 .. m : q[k] \in 1 .. n /\ table[q[k]].type = "retry_charge"
      BY <1>4, <1>11
    <2> QED
      BY <1>9, <1>12, <1>14, <2>1, <2>2 DEF Kinds
  <1>26. StopsOverLeftovers' /\ ReportCountsRecoveries'
    BY <1>12 DEF StopsOverLeftovers, ReportCountsRecoveries
  <1> QED
    BY <1>18, <1>19, <1>20, <1>21, <1>22, <1>23, <1>24, <1>25, <1>26 DEF BatchInv

-----------------------------------------------------------------------------
(* The theorems.                                                           *)

(* Every step of the script keeps the batch in order.                      *)
THEOREM BatchInOrder == BatchSpec => []BatchInv
  <1>1. BatchInv /\ [BatchNext]_batchVars => BatchInv'
    BY GenerateKeeps, RunKeeps, RecordLinkKeeps, ClaimKeeps, ExecuteKeeps, UnknownKeeps, ReportKeeps,
       InterruptKeeps, DayKeeps DEF BatchNext
  <1> QED
    BY BatchStarts, <1>1, PTL DEF BatchSpec

(* Every row, queue and report of the script has its type, and what is     *)
(* queued has been claimed.                                                *)
THEOREM BatchTyped == BatchSpec => []BatchTypeOK
  <1>1. BatchInv => BatchTypeOK
    <2> SUFFICES ASSUME BatchInv PROVE BatchTypeOK
      OBVIOUS
    <2>1. /\ table \in Seq(TableRow) /\ batch \in Run
          /\ \A i \in 1 .. Len(table) : table[i].case \in DOMAIN cases
          /\ batch.scheduled \subseteq 1 .. Len(table)
      BY DEF BatchInv, Typed
    <2>2. DOMAIN table = 1 .. Len(table) /\ \A i \in 1 .. Len(table) : table[i] \in TableRow
      BY <2>1
    <2>3. batch.queue \in Seq(Nat) /\ batch.pc \in
             {"idle", "cases", "link", "claim", "retries", "reported", "crashed"}
      BY <2>1 DEF Run
    <2>4. DOMAIN batch.queue = 1 .. Len(batch.queue)
      BY <2>3
    <2>5. \A i \in DOMAIN table : /\ table[i].case \in DOMAIN cases
                                  /\ table[i].type \in ActionType
                                  /\ table[i].status \in ActionStatus
                                  /\ table[i].sched \in Nat \cup {None}
      BY <2>1, <2>2 DEF TableRow
    <2>6. \A k \in DOMAIN batch.queue : table[batch.queue[k]].status = "executing"
      BY <2>4 DEF BatchInv, Claimed
    <2>7. /\ DOMAIN cases \subseteq Cases /\ resolved \in [Cases -> SUBSET OutcomeStatus]
          /\ report \in [Cases -> {None, "recovered", "still at risk", "mandate revoked",
                                   "payment link pending"}]
      BY DEF BatchInv, Typed
    <2> QED
      BY <2>1, <2>2, <2>3, <2>5, <2>6, <2>7 DEF BatchTypeOK
  <1> QED
    BY <1>1, BatchInOrder, PTL

(* No batch reopens a resolved case: the worker's claim and the ladder     *)
(* leave it one outcome and no row that could still run.                   *)
THEOREM CasesResolvedOnce == BatchSpec => []ResolvedOnce
  <1>1. BatchInv => ResolvedOnce
    <2> SUFFICES ASSUME BatchInv, NEW c \in Cases
                 PROVE  /\ Cardinality(resolved[c]) <= 1
                        /\ resolved[c] # {} => ~\E i \in DOMAIN table :
                              table[i].case = c /\ table[i].status \in {"scheduled", "executing"}
      BY DEF ResolvedOnce
    <2>1. Cardinality(resolved[c]) <= 1
      <3>1. \A k, l \in resolved[c] : k = l
        BY DEF BatchInv, OneLife
      <3>2. CASE resolved[c] = {}
        BY <3>2, FS_EmptySet
      <3>3. CASE resolved[c] # {}
        <4>1. PICK k : resolved[c] = {k}
          BY <3>1, <3>3
        <4> QED
          BY <4>1, FS_Singleton
      <3> QED
        BY <3>2, <3>3
    <2>2. table \in Seq(TableRow)
      BY DEF BatchInv, Typed
    <2>3. DOMAIN table = 1 .. Len(table)
      BY <2>2
    <2> QED
      BY <2>1, <2>3 DEF BatchInv, OneLife, OpenRow
  <1> QED
    BY <1>1, BatchInOrder, PTL

(* The report of run_synthetic_batch counts as recovered the cases that    *)
(* recovery_outcomes has as recovered, and no other.                       *)
THEOREM ReportSound == BatchSpec => []ReportCountsRecoveries
  <1>1. BatchInv => ReportCountsRecoveries
    BY DEF BatchInv
  <1> QED
    BY <1>1, BatchInOrder, PTL

(* A batch stops without a report only over a claimed row that another     *)
(* batch has left: never for a retry of its own that it did not claim.     *)
THEOREM OnlyLeftoversStop == BatchSpec => []StopsOverLeftovers
  <1>1. BatchInv => StopsOverLeftovers
    BY DEF BatchInv
  <1> QED
    BY <1>1, BatchInOrder, PTL
=============================================================================
