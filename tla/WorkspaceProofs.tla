--------------------------- MODULE WorkspaceProofs --------------------------
(***************************************************************************)
(* The page for every set of filters and cases and any number of requests  *)
(* in flight: its state keeps its types, the detail page has a case, and   *)
(* the one interval that runs has the filters on the screen.               *)
(***************************************************************************)
EXTENDS WorkspaceView, TLAPS

(* Loads and audit requests are counted up to their bounds.                *)
LEMMA LoadTyped ==
    ASSUME StateTypeOK, NEW f \in Filters, Load(f)
    PROVE  loads' \in [Filters -> 0 .. MaxLoads] /\ loading' = TRUE
<1>1. loads[f] \in 0 .. MaxLoads /\ loads[f] < MaxLoads /\ MaxLoads \in Nat
  BY ViewAssumption DEF StateTypeOK, Load, Idle
<1>2. loads[f] + 1 \in 0 .. MaxLoads
  BY <1>1
<1> QED
  BY <1>2 DEF StateTypeOK, Load

(* The initial state is that of a page just loaded, signed in or not.      *)
LEMMA WorkspaceInit == ViewInit => StateTypeOK /\ OneTimer
<1> SUFFICES ASSUME ViewInit PROVE StateTypeOK /\ OneTimer
  OBVIOUS
<1>1. NoFilter \in Filters /\ 1 \in 0 .. MaxLoads /\ 0 \in 0 .. MaxLoads
      /\ 0 \in 0 .. MaxAudits /\ 0 \in 0 .. MaxFailures
  BY ViewAssumption
<1>2. StateTypeOK
  BY <1>1 DEF ViewInit, StateTypeOK, Pages
<1>3. OneTimer
  BY DEF ViewInit, OneTimer
<1> QED
  BY <1>2, <1>3

(* Signing in and out sets and clears the interval with the session.       *)
LEMMA SessionKeeps ==
    ASSUME StateTypeOK, OneTimer, Login \/ LoginAnswered \/ LoginFailed \/ Logout
    PROVE  StateTypeOK' /\ OneTimer'
<1>1. CASE Login
  BY <1>1 DEF Login, list, case, StateTypeOK, OneTimer
<1>2. CASE LoginAnswered
  <2>1. filters \in Filters /\ Load(filters) /\ timers' = {filters} /\ filters' = filters
    BY <1>2 DEF LoginAnswered, Effect, RestartTimer, StateTypeOK
  <2>2. loads' \in [Filters -> 0 .. MaxLoads] /\ loading' = TRUE
    BY <2>1, LoadTyped
  <2> QED
    BY <1>2, <2>1, <2>2 DEF LoginAnswered, case, StateTypeOK, OneTimer
<1>3. CASE LoginFailed
  <2>1. failures' \in 0 .. MaxFailures
    BY <1>3, ViewAssumption DEF LoginFailed, StateTypeOK
  <2> QED
    BY <1>3, <2>1 DEF LoginFailed, list, case, StateTypeOK, OneTimer
<1>4. CASE Logout
  BY <1>4 DEF Logout, case, StateTypeOK, OneTimer
<1> QED
  BY <1>1, <1>2, <1>3, <1>4

(* A change of filters replaces the interval; nothing else touches it.     *)
LEMMA ListKeeps ==
    ASSUME StateTypeOK, OneTimer, NEW f \in Filters,
           Refresh \/ SetFilters(f) \/ Interval(f) \/ LoadEnds(f)
    PROVE  StateTypeOK' /\ OneTimer'
<1>1. CASE Refresh
  <2>1. filters \in Filters /\ Load(filters)
    BY <1>1 DEF Refresh, StateTypeOK
  <2>2. loads' \in [Filters -> 0 .. MaxLoads] /\ loading' = TRUE
    BY <2>1, LoadTyped
  <2> QED
    BY <1>1, <2>2 DEF Refresh, session, case, StateTypeOK, OneTimer
<1>2. CASE SetFilters(f)
  <2>1. loads' \in [Filters -> 0 .. MaxLoads] /\ loading' = TRUE
    BY <1>2, LoadTyped DEF SetFilters, Effect
  <2>2. timers' = {f} /\ filters' = f /\ loggedIn' = TRUE
    BY <1>2 DEF SetFilters, Effect, RestartTimer, session, StateTypeOK
  <2> QED
    BY <1>2, <2>1, <2>2 DEF SetFilters, session, case, StateTypeOK, OneTimer
<1>3. CASE Interval(f)
  <2>1. loads' \in [Filters -> 0 .. MaxLoads] /\ loading' = TRUE
    BY <1>3, LoadTyped DEF Interval
  <2> QED
    BY <1>3, <2>1 DEF Interval, session, case, StateTypeOK, OneTimer
<1>4. CASE LoadEnds(f)
  <2>1. loads[f] - 1 \in 0 .. MaxLoads
    BY <1>4, ViewAssumption DEF LoadEnds, Loaded, LoadFailed, StateTypeOK
  <2>2. loads' \in [Filters -> 0 .. MaxLoads]
    BY <1>4, <2>1 DEF LoadEnds, Loaded, LoadFailed, StateTypeOK
  <2>3. failures' \in 0 .. MaxFailures
    BY <1>4, ViewAssumption DEF LoadEnds, Loaded, LoadFailed, StateTypeOK
  <2>4. loading' = FALSE /\ error' \in BOOLEAN /\ exceptions' \in Filters \cup {None}
    BY <1>4 DEF LoadEnds, Loaded, LoadFailed, StateTypeOK
  <2>5. UNCHANGED <<session, filters, timers, case>>
    BY <1>4 DEF LoadEnds, Loaded, LoadFailed
  <2> QED
    BY <2>2, <2>3, <2>4, <2>5 DEF session, case, StateTypeOK, OneTimer
<1> QED
  BY <1>1, <1>2, <1>3, <1>4

(* The detail page is entered with a case and left with it.                *)
LEMMA CaseKeeps ==
    ASSUME StateTypeOK, OneTimer,
           \/ \E i \in ItemIds : OpenAudit(i) \/ AuditEnds(i)
           \/ \E p \in Pages : Navigate(p)
           \/ Close
    PROVE  StateTypeOK' /\ OneTimer'
<1>1. ASSUME NEW i \in ItemIds, OpenAudit(i) PROVE StateTypeOK'
  <2>1. requested[i] + 1 \in 0 .. MaxAudits
    BY <1>1, ViewAssumption DEF OpenAudit, StateTypeOK
  <2>2. requested' \in [ItemIds -> 0 .. MaxAudits]
    BY <1>1, <2>1 DEF OpenAudit, StateTypeOK
  <2>3. selected' # None
    BY <1>1, ViewAssumption DEF OpenAudit
  <2> QED
    BY <1>1, <2>2, <2>3 DEF OpenAudit, session, list, StateTypeOK, Pages
<1>2. ASSUME NEW i \in ItemIds, AuditEnds(i) PROVE StateTypeOK'
  <2>1. requested[i] - 1 \in 0 .. MaxAudits
    BY <1>2, ViewAssumption DEF AuditEnds, AuditAnswered, AuditFailed, StateTypeOK
  <2>2. requested' \in [ItemIds -> 0 .. MaxAudits]
    BY <1>2, <2>1 DEF AuditEnds, AuditAnswered, AuditFailed, StateTypeOK
  <2>3. failures' \in 0 .. MaxFailures
    BY <1>2, ViewAssumption DEF AuditEnds, AuditAnswered, AuditFailed, StateTypeOK
  <2> QED
    BY <1>2, <2>2, <2>3 DEF AuditEnds, AuditAnswered, AuditFailed, session, list, StateTypeOK
<1>3. ASSUME NEW p \in Pages, Navigate(p) PROVE StateTypeOK'
  BY <1>3 DEF Navigate, Linked, session, list, StateTypeOK
<1>4. ASSUME Close PROVE StateTypeOK'
  BY <1>4 DEF Close, session, list, StateTypeOK, Pages
<1>5. UNCHANGED <<timers, filters, loggedIn>>
  BY DEF OpenAudit, AuditEnds, AuditAnswered, AuditFailed, Navigate, Close, session, list
<1>6. OneTimer'
  BY <1>5 DEF OneTimer
<1> QED
  BY <1>1, <1>2, <1>3, <1>4, <1>6

LEMMA WorkspaceStep == StateTypeOK /\ OneTimer /\ [ViewNext]_viewVars => (StateTypeOK /\ OneTimer)'
<1> SUFFICES ASSUME StateTypeOK, OneTimer, [ViewNext]_viewVars
             PROVE  StateTypeOK' /\ OneTimer'
  OBVIOUS
<1>1. CASE Login \/ LoginAnswered \/ LoginFailed \/ Logout
  BY <1>1, SessionKeeps
<1>2. CASE Refresh
  <2>1. NoFilter \in Filters
    BY ViewAssumption
  <2> QED
    BY <1>2, <2>1, ListKeeps
<1>3. ASSUME NEW f \in Filters, SetFilters(f) \/ Interval(f) \/ LoadEnds(f)
      PROVE  StateTypeOK' /\ OneTimer'
  BY <1>3, ListKeeps
<1>4. CASE \/ \E i \in ItemIds : OpenAudit(i) \/ AuditEnds(i)
           \/ \E p \in Pages : Navigate(p)
           \/ Close
  BY <1>4, CaseKeeps
<1>5. CASE UNCHANGED viewVars
  BY <1>5 DEF viewVars, session, list, case, StateTypeOK, OneTimer
<1> QED
  BY <1>1, <1>2, <1>3, <1>4, <1>5 DEF ViewNext

LEMMA WorkspaceHolds == ViewSpec => [](StateTypeOK /\ OneTimer)
  BY WorkspaceInit, WorkspaceStep, PTL DEF ViewSpec

(* App.tsx 256: whatever answers come late and wherever the user goes, the *)
(* page that details a case has one, and all state keeps its type.         *)
THEOREM PageHasItsCase == ViewSpec => []StateTypeOK
  BY WorkspaceHolds, PTL

(* App.tsx 211: one interval while someone is signed in, with the filters  *)
(* on the screen, and none afterwards.                                     *)
THEOREM IntervalReplaced == ViewSpec => []OneTimer
  BY WorkspaceHolds, PTL
=============================================================================
