--------------------------- MODULE DashboardReads ---------------------------
(***************************************************************************)
(* app/api/dashboard.py: read-only requests over the tables of the loop.   *)
(* A request makes several statements; each has its own snapshot at READ   *)
(* COMMITTED, and the loop goes on between them. Requests write nothing,   *)
(* so one at a time shows all there is to see, and MaxRequests of them are *)
(* followed. Abstracted: identifiers and columns that are only shown; a    *)
(* count and a sum are the set of the rows they go over; the login stub.   *)
(***************************************************************************)
EXTENDS RecoverySystem

CONSTANTS
    FailedPayments,   \* the events whose type is payment.failed
    PageSize,         \* the limit of a list request
    Skips,            \* the offsets a list request may ask for
    MaxRequests       \* bound: requests followed

ASSUME DashboardAssumption ==
    /\ IsFiniteSet(Events) /\ IsFiniteSet(Subs)
    /\ FailedPayments \subseteq Events
    /\ PageSize \in Nat \ {0}
    /\ Skips \subseteq Nat
    /\ MaxRequests \in Nat

VARIABLES
    view,        \* the request being answered, or answered last
    requests     \* how many requests there were

dashVars == <<vars, view, requests>>

-----------------------------------------------------------------------------
(* The rows the statements select.                                         *)

OutcomesOf(kinds) == {i \in 1 .. Len(outcomes) : outcomes[i].kind \in kinds}

Category(i) == actions[outcomes[i].act].cat

(* The outcome is recorded with the same time as its action.               *)
ResolvedAt(i) == actions[outcomes[i].act].exec

ActiveStatuses == {"planned", "scheduled", "executing"}

(* The statements, by name: the counts, the sums of the amounts recovered  *)
(* and at risk, and the lists of the latest rows.                          *)
Stages == {"recovered", "escalated", "dead", "still_at_risk"}

Lists == {"recent_subscriptions", "recent_exceptions"}

Figures == Stages \cup Lists \cup {"failed", "actioned", "active", "subscriptions",
                                   "amount_recovered", "amount_at_risk"}

Selected(figure) ==
    CASE figure = "failed" -> {e \in FailedPayments : events[e].state # "absent"}
      [] figure = "actioned" -> {id \in ActionIds : actions[id].status # "absent"}
      [] figure = "active" -> {id \in ActionIds : actions[id].status \in ActiveStatuses}
      [] figure \in {"subscriptions", "recent_subscriptions"} ->
             {s \in Subs : subs[s] # "absent"}
      [] figure = "amount_recovered" -> OutcomesOf({"recovered"})
      [] figure = "amount_at_risk" -> OutcomesOf({"still_at_risk"})
      [] figure = "recent_exceptions" -> OutcomesOf(OutcomeStatus \ {"recovered"})
      [] OTHER -> OutcomesOf({figure})

(* Mutant: the sums are taken before the outcomes are counted.             *)
SumsFirst ==
    [summary |-> <<"failed", "amount_recovered", "amount_at_risk", "active">>,
     overview |-> <<"failed", "actioned", "recovered", "recent_subscriptions",
                    "recent_exceptions">>,
     metrics |-> <<"subscriptions", "failed", "amount_recovered", "amount_at_risk",
                   "recovered", "escalated", "dead", "still_at_risk">>]

(* The statements of each aggregate endpoint, in their order.              *)
Plan ==
    [summary |-> <<"failed", "amount_recovered", "amount_at_risk", "active">>,
     overview |-> <<"failed", "actioned", "recovered", "recent_subscriptions",
                    "recent_exceptions">>,
     metrics |-> <<"subscriptions", "failed", "recovered", "escalated", "dead",
                   "still_at_risk", "amount_recovered", "amount_at_risk">>]

(* An ordered page: the rows after the first skip, PageSize at most, where *)
(* rows with equal keys may come in any order.                             *)
IsPage(P, S, skip, Key(_)) ==
    /\ P \subseteq S
    /\ \E T \in SUBSET (S \ P) :
          /\ Cardinality(T) = IF Cardinality(S) < skip THEN Cardinality(S) ELSE skip
          /\ \A t \in T, x \in S \ T : Key(t) >= Key(x)
          /\ \A x \in P, y \in S \ (T \cup P) : Key(x) >= Key(y)
          /\ S \ (T \cup P) # {} => Cardinality(P) = PageSize
    /\ Cardinality(P) <= PageSize

(* What a statement returns. The order of a list is left open: neither     *)
(* updated_at nor created_at is modelled.                                  *)
Result(figure) ==
    {rows \in SUBSET Selected(figure) :
        IF figure \in Lists THEN IsPage(rows, Selected(figure), 0, LAMBDA x : 0)
        ELSE rows = Selected(figure)}

ExceptionKinds == {"still_at_risk", "escalated"}

Matching(kinds, category) ==
    {i \in OutcomesOf(kinds) : category \in {None, Category(i)}}

-----------------------------------------------------------------------------
(* Requests.                                                               *)

IdleView == [pc |-> "answered", endpoint |-> "none", next |-> 1,
             got |-> [f \in Figures |-> {}], kinds |-> {}, filter |-> None,
             category |-> None, skip |-> 0, items |-> {}, total |-> 0,
             subject |-> None]

DashInit == Init /\ view = IdleView /\ requests = 0

Loop == UNCHANGED vars

Ask(v) ==
    /\ view.pc = "answered" /\ requests < MaxRequests
    /\ view' = v
    /\ requests' = requests + 1
    /\ Loop

AskFigures == \E endpoint \in DOMAIN Plan :
    Ask([IdleView EXCEPT !.pc = "figures", !.endpoint = endpoint])

(* GET /exceptions: both filters are optional, and any outcome is accepted.*)
AskExceptions ==
    \E outcome \in OutcomeStatus \cup {None}, filter \in DiagnosisCategory \cup {None},
       skip \in Skips :
        Ask([IdleView EXCEPT !.pc = "page", !.endpoint = "exceptions", !.skip = skip,
                !.kinds = IF outcome = None THEN ExceptionKinds ELSE {outcome},
                !.filter = filter, !.category = filter])

AskSubscriptions == \E skip \in Skips :
    Ask([IdleView EXCEPT !.pc = "page", !.endpoint = "subscriptions", !.skip = skip])

(* GET /exceptions/{outcome_id}/audit: the outcome is loaded first, and the*)
(* trail of an unknown one is empty.                                       *)
AskAudit ==
    \/ \E i \in 1 .. Len(outcomes) :
          Ask([IdleView EXCEPT !.pc = "trail", !.endpoint = "audit", !.subject = i])
    \/ Ask([IdleView EXCEPT !.endpoint = "audit"])

(* One statement of the plan.                                              *)
ReadFigure ==
    /\ view.pc = "figures"
    /\ LET figure == Plan[view.endpoint][view.next]
           last == view.next = Len(Plan[view.endpoint])
       IN  \E rows \in Result(figure) :
              view' = [view EXCEPT !.got[figure] = rows, !.next = @ + 1,
                                   !.pc = IF last THEN "answered" ELSE "figures"]
    /\ Loop /\ UNCHANGED requests

(* The rows, and the parameter category, which the loop over the rows uses *)
(* as its own variable: it ends as the last row's.                         *)
ReadExceptions ==
    /\ view.pc = "page" /\ view.endpoint = "exceptions"
    /\ \E P \in SUBSET Matching(view.kinds, view.filter) :
          /\ IsPage(P, Matching(view.kinds, view.filter), view.skip, ResolvedAt)
          /\ \E category \in
                IF P = {} THEN {view.filter}
                ELSE {Category(i) : i \in {j \in P : \A x \in P : ResolvedAt(j) <= ResolvedAt(x)}} :
                view' = [view EXCEPT !.pc = "total", !.items = P, !.category = category]
    /\ Loop /\ UNCHANGED requests

(* Mutant: the count forgets one of the default outcomes.                  *)
CountStillAtRisk ==
    /\ view.pc = "total" /\ view.endpoint = "exceptions"
    /\ view' = [view EXCEPT !.pc = "answered",
                    !.total = Cardinality(Matching({"still_at_risk"}, view.category))]
    /\ Loop /\ UNCHANGED requests

CountExceptions ==
    /\ view.pc = "total" /\ view.endpoint = "exceptions"
    /\ view' = [view EXCEPT !.pc = "answered",
                    !.total = Cardinality(Matching(view.kinds, view.category))]
    /\ Loop /\ UNCHANGED requests

(* Mutant: the limit is forgotten.                                         *)
ReadAllSubscriptions ==
    /\ view.pc = "page" /\ view.endpoint = "subscriptions"
    /\ view' = [view EXCEPT !.pc = "total", !.items = Selected("subscriptions")]
    /\ Loop /\ UNCHANGED requests

(* No ORDER BY: any rows of the right number.                              *)
ReadSubscriptions ==
    /\ view.pc = "page" /\ view.endpoint = "subscriptions"
    /\ \E P \in SUBSET Selected("subscriptions") :
          /\ IsPage(P, Selected("subscriptions"), view.skip, LAMBDA s : 0)
          /\ view' = [view EXCEPT !.pc = "total", !.items = P]
    /\ Loop /\ UNCHANGED requests

CountSubscriptions ==
    /\ view.pc = "total" /\ view.endpoint = "subscriptions"
    /\ view' = [view EXCEPT !.pc = "answered", !.total = Cardinality(Selected("subscriptions"))]
    /\ Loop /\ UNCHANGED requests

(* Every audit entry of the outcome's subscription, with the action that it*)
(* names.                                                                  *)
Trail(s) == {entry \in ActionIds \X AuditAction :
    actions[entry[1]].sub = s /\ entry[2] \in actions[entry[1]].aud}

ReadTrail ==
    /\ view.pc = "trail"
    /\ view' = [view EXCEPT !.pc = "answered",
                    !.items = Trail(actions[outcomes[view.subject].act].sub)]
    /\ Loop /\ UNCHANGED requests

DashNext ==
    \/ Next /\ UNCHANGED <<view, requests>>
    \/ AskFigures \/ AskExceptions \/ AskSubscriptions \/ AskAudit
    \/ ReadFigure
    \/ ReadExceptions \/ CountExceptions
    \/ ReadSubscriptions \/ CountSubscriptions
    \/ ReadTrail

DashSpec == DashInit /\ [][DashNext]_dashVars

-----------------------------------------------------------------------------
(* Type invariant.                                                         *)

(* A request keeps its parameters, its place and what it has read.         *)
ViewTypeOK ==
    /\ view.pc \in {"figures", "page", "total", "trail", "answered"}
    /\ view.endpoint \in DOMAIN Plan \cup {"none", "exceptions", "subscriptions", "audit"}
    /\ view.got \in [Figures -> SUBSET (Events \cup Subs \cup Nat)]
    /\ view.kinds \subseteq OutcomeStatus
    /\ {view.filter, view.category} \subseteq DiagnosisCategory \cup {None}
    /\ Cardinality(view.items) <= PageSize \/ view.endpoint = "audit"
    /\ view.total \in Nat
    /\ view.subject \in (1 .. Len(outcomes)) \cup {None}
    /\ requests \in 0 .. MaxRequests

-----------------------------------------------------------------------------
(* Properties.                                                             *)

Answered(endpoint) == view.pc = "answered" /\ view.endpoint = endpoint

(* What test_dashboard.py 58 and 72 ask of a total, where the code gives it*)
(* (subscriptions, and exceptions of one category): it is counted after the*)
(* page, over rows that are only ever added and never change their kind, so*)
(* that it covers the page and what was skipped, whatever comes between.   *)
TotalCoversPage ==
    /\ Answered("subscriptions") \/ (Answered("exceptions") /\ view.filter # None)
    /\ view.items # {}
    => view.total >= view.skip + Cardinality(view.items)

(* dashboard.py 171-201: the stages of the funnel are counted one by one,  *)
(* with the loop going on between the counts, and yet no failed payment is *)
(* counted in two of them or twice in one; and the amount recovered, read  *)
(* after the counts, sums every payment that is counted as recovered.      *)
FunnelCountsOnce == Answered("metrics") =>
    /\ \A f, g \in Stages : \A i \in view.got[f], j \in view.got[g] :
          outcomes[i].ev = outcomes[j].ev => f = g /\ i = j
    /\ view.got["recovered"] \subseteq view.got["amount_recovered"]

(* The audit trail of an exception (dashboard.py 309-337) explains it: what*)
(* the request reads has the entry of the verdict itself and the           *)
(* guardrail's as soon as the outcome can be asked for, since all are      *)
(* committed together.                                                     *)
VerdictEntry == [recovered |-> "recovery.retry.recovered",
                 escalated |-> "recovery.escalated", dead |-> "recovery.mark_dead"]

TrailExplainsOutcome == Answered("audit") /\ view.subject # None =>
    LET outcome == outcomes[view.subject] IN
    {<<outcome.act, "guardrail.allow">>, <<outcome.act, VerdictEntry[outcome.kind]>>}
        \subseteq view.items

-----------------------------------------------------------------------------
(* What tests and docstrings say, and the code does not do.                *)

(* test_dashboard.py 72: the total is no less than the items of the page.  *)
ExceptionsTotal == Answered("exceptions") => view.total >= Cardinality(view.items)

(* test_dashboard.py 65, "recovery_rate <= 1.0".                           *)
RateWithinOne == Answered("metrics") /\ view.got["failed"] # {} =>
    Cardinality(view.got["recovered"]) <= Cardinality(view.got["failed"])

(* dashboard.py 239 and the README's list of endpoints: "unresolved cases":*)
(* a failure whose episode is over without a recovery is one of them.      *)
Over(e) ==
    /\ events[e].state = "processed"
    /\ \A id \in ActionIds : actions[id].ev = e => actions[id].status \notin ActiveStatuses

UnresolvedListed == \A e \in Events :
    Over(e) => \E i \in OutcomesOf(ExceptionKinds \cup {"recovered", "dead"}) : outcomes[i].ev = e

(* dashboard.py 314, "the ordered audit trail for one recovery exception". *)
TrailOfOneException == Answered("audit") /\ view.subject # None =>
    \A entry \in view.items : actions[entry[1]].ev = outcomes[view.subject].ev
=============================================================================
