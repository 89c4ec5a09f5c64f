-------------------------- MODULE EpisodeLifecycle --------------------------
(***************************************************************************)
(* What one failed payment is promised, whatever else goes on: its episode *)
(* is opened once; it waits for one retry at a time, at most MaxRetries of *)
(* them, one after the other; it may end with one verdict; and once over   *)
(* it stays over. This is the abstract specification that RecoverySystem   *)
(* implements, for all the sessions, workers, races and crashes there are. *)
(***************************************************************************)
EXTENDS Naturals

CONSTANTS
    Events,      \* one episode for each
    Verdicts,    \* what an episode may end with
    MaxRetries

VARIABLES
    phase,       \* where the episode of each event is
    tries,       \* how many retries it has been given
    verdict      \* its recorded outcomes

vars == <<phase, tries, verdict>>

Phases == {"unknown", "new", "waiting", "trying", "over"}

Init ==
    /\ phase = [e \in Events |-> "unknown"]
    /\ tries = [e \in Events |-> 0]
    /\ verdict = [e \in Events |-> {}]

Open(e) ==
    /\ phase[e] = "unknown"
    /\ phase' = [phase EXCEPT ![e] = "new"]
    /\ UNCHANGED <<tries, verdict>>

(* A first retry is planned, or one more after an attempt has failed.      *)
Wait(e) ==
    /\ phase[e] \in {"new", "trying"}
    /\ tries[e] < MaxRetries
    /\ phase' = [phase EXCEPT ![e] = "waiting"]
    /\ tries' = [tries EXCEPT ![e] = @ + 1]
    /\ UNCHANGED verdict

(* Several episodes may begin their attempts together.                     *)
Try(S) ==
    /\ \A e \in S : phase[e] = "waiting"
    /\ phase' = [e \in Events |-> IF e \in S THEN "trying" ELSE phase[e]]
    /\ UNCHANGED <<tries, verdict>>

(* The end, with a verdict or without one.                                 *)
End(e) ==
    /\ phase[e] \in {"new", "trying"}
    /\ phase' = [phase EXCEPT ![e] = "over"]
    /\ \/ UNCHANGED verdict
       \/ \E v \in Verdicts : verdict' = [verdict EXCEPT ![e] = {v}]
    /\ UNCHANGED tries

Next ==
    \/ \E e \in Events : Open(e) \/ Wait(e) \/ End(e)
    \/ \E S \in SUBSET Events : Try(S)

Spec == Init /\ [][Next]_vars
=============================================================================
