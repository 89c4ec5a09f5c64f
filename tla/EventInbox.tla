----------------------------- MODULE EventInbox -----------------------------
(***************************************************************************)
(* What the ingestion side and the recovery side of Recover.ai promise     *)
(* each other about a webhook event: it is stored once, as pending, marked *)
(* as handled at most once, and never forgotten, reopened or marked again, *)
(* however often Razorpay delivers it (services/ingestion.py 3-12,         *)
(* agent/executor.py 373-383). WebhookIngestion implements it, and         *)
(* RecoverySystem does when an event is handed to one session at a time.   *)
(***************************************************************************)

CONSTANTS
    Events,
    Unknown,     \* what the inbox shows of an event that never arrived,
    Pending,     \* of one that waits,
    Marks        \* and of one that is handled: how, and when

VARIABLE inbox

Init == inbox = [e \in Events |-> Unknown]

Store(e) ==
    /\ inbox[e] = Unknown
    /\ inbox' = [inbox EXCEPT ![e] = Pending]

Handle(e) ==
    /\ inbox[e] = Pending
    /\ inbox'[e] \in Marks
    /\ inbox' = [inbox EXCEPT ![e] = inbox'[e]]

Next == \E e \in Events : Store(e) \/ Handle(e)

Spec == Init /\ [][Next]_inbox
=============================================================================
