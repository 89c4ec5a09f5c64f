----------------------------- MODULE Diagnosis -----------------------------
(***************************************************************************)
(* app/agent/diagnosis.py: the deterministic rule table, and the language  *)
(* model asked only when the table abstains.                               *)
(*                                                                         *)
(* A failure signal is abstracted to what the table can tell apart: is the *)
(* event itself "subscription.cancelled", and for which categories does    *)
(* some keyword occur in the decline text.                                 *)
(***************************************************************************)
EXTENDS RecoveryTypes

CONSTANT LLMWired    \* is an LLM classifier supplied to diagnose()?

ASSUME LLMAssumption == LLMWired \in BOOLEAN

(* The order of _RULES: the first category with a keyword present wins.    *)
Rules == <<"mandate_revoked", "insufficient_funds",
           "expired_or_invalid_card", "bank_or_gateway_error">>

RuleCategories == {Rules[i] : i \in 1 .. Len(Rules)}

FailureSignal == [cancelled : BOOLEAN, matched : SUBSET RuleCategories]

(* diagnose_from_rules: the set of its result, empty when it abstains.     *)
DiagnoseFromRules(signal) ==
    IF signal.cancelled
    THEN {"mandate_revoked"}
    ELSE {c \in signal.matched :
            \E i \in 1 .. Len(Rules) :
                /\ Rules[i] = c
                /\ \A j \in 1 .. i - 1 : Rules[j] \notin signal.matched}

(* Mutant: no category at all when the table abstains.                     *)
DiagnoseNothing(signal) ==
    IF DiagnoseFromRules(signal) # {} THEN DiagnoseFromRules(signal) ELSE {None}

(* diagnose: every category the call may return. The model's answer is not *)
(* determined by the signal, and may differ from one call to the next.     *)
Diagnose(signal) ==
    IF DiagnoseFromRules(signal) # {}
    THEN DiagnoseFromRules(signal)
    ELSE IF LLMWired THEN DiagnosisCategory ELSE {"other"}
=============================================================================
