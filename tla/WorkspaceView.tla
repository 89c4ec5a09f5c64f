---------------------------- MODULE WorkspaceView ---------------------------
(***************************************************************************)
(* frontend/src/App.tsx: the single page over the dashboard API. A handler *)
(* runs to its first await and is resumed by the answer; answers come in   *)
(* any order, and what is resumed sets the state whatever has happened to  *)
(* it since. Abstracted: both filter controls in one value, the contents   *)
(* of lists and trails (a list is known by the filters it was asked with,  *)
(* a trail by its case), toasts, search, export and layout.                *)
(***************************************************************************)
EXTENDS Naturals

CONSTANTS
    None,
    Filters,       \* what the filter controls of the exceptions page offer
    NoFilter,      \* the filters a page starts with
    Refused,       \* filters with a category the API does not know
    ItemIds,       \* outcome ids of exceptions
    MaxLoads,      \* bound: loads with the same filters in flight
    MaxAudits,     \* bound: audit requests of one case in flight
    MaxFailures    \* bound: requests that fail by accident

ASSUME ViewAssumption ==
    /\ None \notin Filters \cup ItemIds
    /\ NoFilter \in Filters \ Refused
    /\ Refused \subseteq Filters
    /\ MaxLoads \in Nat \ {0}
    /\ {MaxAudits, MaxFailures} \subseteq Nat

VARIABLES
    loggedIn, loginLoading,
    filters,        \* category and outcome
    timers,         \* the intervals that are set, by the filters they captured
    loads,          \* filters -> how many load() wait for their answers
    exceptions,     \* the filters of the list in the state, None before any
    error, loading,
    page, selected,
    audit,          \* the case whose trail is in the state, None for []
    auditLoading,
    requested,      \* case -> how many openAudit() wait for their answer
    failures

session == <<loggedIn, loginLoading>>
list == <<filters, timers, loads, exceptions, loading>>
case == <<page, selected, audit, auditLoading, requested>>
viewVars == <<session, list, error, case, failures>>

-----------------------------------------------------------------------------
Pages == {"overview", "subscriptions", "exceptions", "recovery", "audit"}

(* Every page that navigate() is called with.                              *)
Linked == Pages \ {"recovery"}

(* The tab may still hold a token: then the effect has run.                *)
ViewInit ==
    /\ loggedIn \in BOOLEAN /\ loginLoading = FALSE
    /\ filters = NoFilter /\ timers = IF loggedIn THEN {NoFilter} ELSE {}
    /\ loads = [f \in Filters |-> IF loggedIn /\ f = NoFilter THEN 1 ELSE 0]
    /\ exceptions = None
    /\ error = FALSE /\ loading = loggedIn
    /\ page = "overview" /\ selected = None
    /\ audit = None /\ auditLoading = FALSE
    /\ requested = [i \in ItemIds |-> 0]
    /\ failures = 0

Idle(f) == loads[f] < MaxLoads

(* load, up to its await.                                                  *)
Load(f) ==
    /\ Idle(f)
    /\ loads' = [loads EXCEPT ![f] = @ + 1]
    /\ loading' = TRUE

(* Mutant: the effect has no clean-up.                                     *)
KeepTimers(f) == timers' = timers \cup {f}

(* The clean-up clears the interval of the previous run of the effect.     *)
RestartTimer(f) == timers' = {f}

(* The effect on loggedIn, category and outcome.                           *)
Effect(f) == Load(f) /\ RestartTimer(f)

-----------------------------------------------------------------------------
(* Signing in and out.                                                     *)

Login ==
    /\ ~loggedIn /\ ~loginLoading
    /\ loginLoading' = TRUE /\ error' = FALSE
    /\ UNCHANGED <<loggedIn, list, case, failures>>

LoginAnswered ==
    /\ loginLoading
    /\ loginLoading' = FALSE /\ loggedIn' = TRUE
    /\ Effect(filters)
    /\ UNCHANGED <<filters, exceptions, error, case, failures>>

LoginFailed ==
    /\ loginLoading /\ failures < MaxFailures
    /\ failures' = failures + 1
    /\ loginLoading' = FALSE /\ error' = TRUE
    /\ UNCHANGED <<loggedIn, list, case>>

(* Lists, selection and filters stay in the state.                         *)
Logout ==
    /\ loggedIn
    /\ loggedIn' = FALSE /\ timers' = {}
    /\ UNCHANGED <<loginLoading, filters, loads, exceptions, error, loading, case, failures>>

-----------------------------------------------------------------------------
(* The lists.                                                              *)

SetFilters(f) ==
    /\ loggedIn /\ page = "exceptions" /\ f # filters
    /\ filters' = f
    /\ Effect(f)
    /\ UNCHANGED <<session, exceptions, error, case, failures>>

(* An interval fires, with the load of the render that set it.             *)
Interval(f) ==
    /\ f \in timers
    /\ Load(f)
    /\ UNCHANGED <<session, filters, timers, exceptions, error, case, failures>>

(* The top bar's button is disabled while loading, the error banner's not. *)
Refresh ==
    /\ loggedIn /\ (~loading \/ error)
    /\ Load(filters)
    /\ UNCHANGED <<session, filters, timers, exceptions, error, case, failures>>

(* All three requests of a load have answered.                             *)
Loaded(f) ==
    /\ loads[f] > 0 /\ f \notin Refused
    /\ loads' = [loads EXCEPT ![f] = @ - 1]
    /\ exceptions' = f /\ error' = FALSE /\ loading' = FALSE
    /\ UNCHANGED <<session, filters, timers, case, failures>>

LoadFailed(f) ==
    /\ loads[f] > 0
    /\ \/ f \in Refused /\ UNCHANGED failures
       \/ f \notin Refused /\ failures < MaxFailures /\ failures' = failures + 1
    /\ loads' = [loads EXCEPT ![f] = @ - 1]
    /\ error' = TRUE /\ loading' = FALSE
    /\ UNCHANGED <<session, filters, timers, exceptions, case>>

LoadEnds(f) == Loaded(f) \/ LoadFailed(f)

-----------------------------------------------------------------------------
(* One case.                                                               *)

(* A row of the list on the exceptions page.                               *)
OpenAudit(i) ==
    /\ loggedIn /\ exceptions # None /\ page = "exceptions"
    /\ requested[i] < MaxAudits
    /\ selected' = i /\ page' = "recovery"
    /\ audit' = None /\ auditLoading' = TRUE
    /\ requested' = [requested EXCEPT ![i] = @ + 1]
    /\ UNCHANGED <<session, list, error, failures>>

AuditAnswered(i) ==
    /\ requested[i] > 0
    /\ requested' = [requested EXCEPT ![i] = @ - 1]
    /\ audit' = i /\ auditLoading' = FALSE
    /\ UNCHANGED <<session, list, error, page, selected, failures>>

AuditFailed(i) ==
    /\ requested[i] > 0 /\ failures < MaxFailures
    /\ requested' = [requested EXCEPT ![i] = @ - 1]
    /\ failures' = failures + 1 /\ auditLoading' = FALSE
    /\ UNCHANGED <<session, list, error, page, selected, audit>>

AuditEnds(i) == AuditAnswered(i) \/ AuditFailed(i)

Navigate(p) ==
    /\ loggedIn /\ p \in Linked
    /\ page' = p
    /\ UNCHANGED <<session, list, error, selected, audit, auditLoading, requested, failures>>

(* Mutant: the case is closed and its page stays.                          *)
CloseInPlace ==
    /\ selected # None
    /\ selected' = None
    /\ UNCHANGED <<session, list, error, page, audit, auditLoading, requested, failures>>

(* Back, or Escape, which is listened to wherever a case is selected.      *)
Close ==
    /\ selected # None
    /\ selected' = None /\ page' = "exceptions"
    /\ UNCHANGED <<session, list, error, audit, auditLoading, requested, failures>>

ViewNext ==
    \/ Login \/ LoginAnswered \/ LoginFailed \/ Logout
    \/ Refresh
    \/ \E f \in Filters : SetFilters(f) \/ Interval(f) \/ LoadEnds(f)
    \/ \E i \in ItemIds : OpenAudit(i) \/ AuditEnds(i)
    \/ \E p \in Pages : Navigate(p)
    \/ Close

ViewSpec == ViewInit /\ [][ViewNext]_viewVars

(* The browser fires intervals and settles every request. Nothing is       *)
(* assumed of the user.                                                    *)
ViewFairness ==
    /\ \A f \in Filters : WF_viewVars(Interval(f)) /\ WF_viewVars(LoadEnds(f))
    /\ \A i \in ItemIds : WF_viewVars(AuditEnds(i))

FairViewSpec == ViewSpec /\ ViewFairness

-----------------------------------------------------------------------------
(* Type invariant.                                                         *)

(* Every piece of state keeps its domain, and the page that details a case *)
(* has one: App.tsx 256 would render nothing at all.                       *)
StateTypeOK ==
    /\ {loggedIn, loginLoading, error, loading, auditLoading} \subseteq BOOLEAN
    /\ filters \in Filters /\ timers \subseteq Filters
    /\ loads \in [Filters -> 0 .. MaxLoads]
    /\ exceptions \in Filters \cup {None}
    /\ page \in Pages /\ selected \in ItemIds \cup {None}
    /\ audit \in ItemIds \cup {None}
    /\ requested \in [ItemIds -> 0 .. MaxAudits]
    /\ failures \in 0 .. MaxFailures
    /\ page = "recovery" => selected # None

-----------------------------------------------------------------------------
(* Properties.                                                             *)

(* App.tsx 211: however filters are changed and sessions end, one interval *)
(* runs while someone is signed in, with the filters on the screen, and    *)
(* none afterwards.                                                        *)
OneTimer == timers = IF loggedIn THEN {filters} ELSE {}

Settled(f) == loggedIn /\ filters = f

(* "Data refreshes every 30 seconds" (App.tsx 256): answers of loads with  *)
(* older filters may overwrite the list, but once the user lets the        *)
(* filters be, the list becomes and stays the one that was asked for.      *)
ListCatchesUp == \A f \in Filters \ Refused :
    <>[]Settled(f) => <>[](exceptions = f)

-----------------------------------------------------------------------------
(* What the page says, and does not do.                                    *)

(* App.tsx 171, "match the current filters", of every filter on offer.     *)
EveryFilterApplies == \A f \in Filters : <>[]Settled(f) => <>[](exceptions = f)

(* App.tsx 265: under the heading "Selected case" stands its trail.        *)
AuditOfSelected == selected # None /\ audit # None => audit = selected
=============================================================================
