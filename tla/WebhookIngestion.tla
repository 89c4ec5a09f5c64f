-------------------------- MODULE WebhookIngestion --------------------------
(***************************************************************************)
(* app/api/webhooks.py and app/services/ingestion.py: Razorpay delivers    *)
(* webhooks at least once, again and again until it receives a 200; any    *)
(* number of handlers serve deliveries at once, and each may be cut off.   *)
(*                                                                         *)
(* INSERT ... ON CONFLICT DO NOTHING waits for an uncommitted row with the *)
(* same key, then skips it when it is committed. A delivery is abstracted  *)
(* to its event id, whether it is signed, and whether its body is a valid  *)
(* envelope; what the row stores of it is left out.                        *)
(***************************************************************************)
EXTENDS Naturals, FiniteSets

CONSTANTS
    None,
    Events,      \* values of the X-Razorpay-Event-Id header
    Requests,    \* the deliveries that may arrive
    Handlers,    \* requests the API serves at once
    RowIds,      \* the primary keys payment_events may use, a bound on its rows
    MaxSends,    \* bound: verified deliveries of one event
    MaxLosses    \* bound: handlers killed and answers lost

Request == [ev : Events \cup {None}, signed : BOOLEAN, valid : BOOLEAN]

ASSUME IngestionAssumption ==
    /\ Requests \subseteq Request
    /\ IsFiniteSet(Handlers)
    /\ None \notin Events
    /\ RowIds \subseteq Nat /\ None \notin RowIds
    /\ MaxSends \in Nat
    /\ MaxLosses \in Nat

VARIABLES
    rows,        \* payment_events, committed
    trail,       \* audit_log: how many entries of each kind about each row
    job,         \* the local variables of each handler
    sent,        \* verified deliveries begun, for each event
    told,        \* what the 200 answers that arrived have said of each event
    acked,       \* how many such answers there were
    secret,      \* is the webhook secret configured?
    losses

vars == <<rows, trail, job, sent, told, acked, secret, losses>>

Entry == {"webhook.received", "webhook.duplicate"}

NoRequest == [ev |-> None, signed |-> FALSE, valid |-> FALSE]

IdleHandler == [pc |-> "idle", req |-> NoRequest, id |-> None, duplicate |-> FALSE]

Init ==
    /\ rows = {}
    /\ trail = [id \in RowIds |-> [n \in Entry |-> 0]]
    /\ job = [h \in Handlers |-> IdleHandler]
    /\ sent = [e \in Events |-> 0]
    /\ told = [e \in Events |-> {}]
    /\ acked = [e \in Events |-> 0]
    /\ secret \in BOOLEAN
    /\ losses = 0

Set(h, j) == job' = [job EXCEPT ![h] = j]

RowsOf(e) == {r \in rows : r.ev = e}

(* The event a handler works on.                                           *)
Event(h) == job[h].req.ev

Genuine(req) == req.signed /\ req.ev # None /\ req.valid

(* A delivery, the first, a retry or one more, reaches a free handler.     *)
Deliver(h, req) ==
    /\ job[h].pc = "idle"
    /\ req.ev # None => sent[req.ev] < MaxSends
    /\ Set(h, [IdleHandler EXCEPT !.pc = "verify", !.req = req])
    /\ UNCHANGED <<rows, trail, sent, told, acked, secret, losses>>

(* 503 without a secret; 400 without a signature, a key or a valid body.   *)
Refuse(h) ==
    /\ job[h].pc = "verify"
    /\ ~secret \/ ~Genuine(job[h].req)
    /\ Set(h, IdleHandler)
    /\ UNCHANGED <<rows, trail, sent, told, acked, secret, losses>>

(* Mutant: the signature and the body are not looked at.                   *)
AcceptUnchecked(h) ==
    /\ job[h].pc = "verify"
    /\ secret /\ job[h].req.ev # None
    /\ Set(h, [job[h] EXCEPT !.pc = "insert"])
    /\ sent' = [sent EXCEPT ![Event(h)] = @ + 1]
    /\ UNCHANGED <<rows, trail, told, acked, secret, losses>>

Accept(h) ==
    /\ job[h].pc = "verify"
    /\ secret /\ Genuine(job[h].req)
    /\ Set(h, [job[h] EXCEPT !.pc = "insert"])
    /\ sent' = [sent EXCEPT ![Event(h)] = @ + 1]
    /\ UNCHANGED <<rows, trail, told, acked, secret, losses>>

(* Mutant: a SELECT first, and no unique constraint to wait for.           *)
NeverBlocked(h) == FALSE

(* Another transaction has inserted the same key and is not over.          *)
Blocked(h) == \E g \in Handlers \ {h} :
    job[g].pc = "inserted" /\ Event(g) = Event(h)

(* A primary key in no row and in no transaction.                          *)
Unused(id) ==
    /\ \A r \in rows : r.id # id
    /\ \A g \in Handlers : job[g].id # id

Insert(h) ==
    /\ job[h].pc = "insert"
    /\ ~Blocked(h)
    /\ RowsOf(Event(h)) = {}
    /\ \E id \in RowIds :
          /\ Unused(id) /\ \A i \in RowIds : Unused(i) => id <= i
          /\ Set(h, [job[h] EXCEPT !.pc = "inserted", !.id = id])
    /\ UNCHANGED <<rows, trail, sent, told, acked, secret, losses>>

(* Mutant: a plain INSERT, and the integrity error is a 500.               *)
ConflictError(h) ==
    /\ job[h].pc = "insert"
    /\ ~Blocked(h)
    /\ RowsOf(Event(h)) # {}
    /\ Set(h, IdleHandler)
    /\ UNCHANGED <<rows, trail, sent, told, acked, secret, losses>>

(* DO NOTHING: no row comes back, and the existing one is looked up.       *)
Conflict(h) ==
    /\ job[h].pc = "insert"
    /\ ~Blocked(h)
    /\ \E r \in RowsOf(Event(h)) :
          Set(h, [job[h] EXCEPT !.pc = "conflict", !.id = r.id, !.duplicate = TRUE])
    /\ UNCHANGED <<rows, trail, sent, told, acked, secret, losses>>

Audit(h, n) == trail' = [trail EXCEPT ![job[h].id][n] = @ + 1]

CommitInsert(h) ==
    /\ job[h].pc = "inserted"
    /\ rows' = rows \cup {[id |-> job[h].id, ev |-> Event(h), state |-> "pending"]}
    /\ Audit(h, "webhook.received")
    /\ Set(h, [job[h] EXCEPT !.pc = "answer"])
    /\ UNCHANGED <<sent, told, acked, secret, losses>>

(* Mutant: DO UPDATE, which stores the delivery again as a pending event.  *)
CommitUpsert(h) ==
    /\ job[h].pc = "conflict"
    /\ rows' = {IF r.id = job[h].id THEN [r EXCEPT !.state = "pending"] ELSE r : r \in rows}
    /\ Audit(h, "webhook.duplicate")
    /\ Set(h, [job[h] EXCEPT !.pc = "answer"])
    /\ UNCHANGED <<sent, told, acked, secret, losses>>

(* Mutant: only a first delivery is audited.                               *)
CommitUnaudited(h) ==
    /\ job[h].pc = "conflict"
    /\ Set(h, [job[h] EXCEPT !.pc = "answer"])
    /\ UNCHANGED <<rows, trail, sent, told, acked, secret, losses>>

CommitDuplicate(h) ==
    /\ job[h].pc = "conflict"
    /\ Audit(h, "webhook.duplicate")
    /\ Set(h, [job[h] EXCEPT !.pc = "answer"])
    /\ UNCHANGED <<rows, sent, told, acked, secret, losses>>

(* The 200 arrives at Razorpay.                                            *)
Answer(h) ==
    /\ job[h].pc = "answer"
    /\ told' = [told EXCEPT ![Event(h)] = @ \cup {[id |-> job[h].id,
                                                   duplicate |-> job[h].duplicate]}]
    /\ acked' = [acked EXCEPT ![Event(h)] = @ + 1]
    /\ Set(h, IdleHandler)
    /\ UNCHANGED <<rows, trail, sent, secret, losses>>

(* The process dies, the database fails, or the answer comes after the 5 s *)
(* that Razorpay waits: an open transaction rolls back, a committed stays. *)
Lose(h) ==
    /\ losses < MaxLosses
    /\ job[h].pc \in {"insert", "inserted", "conflict", "answer"}
    /\ losses' = losses + 1
    /\ Set(h, IdleHandler)
    /\ UNCHANGED <<rows, trail, sent, told, acked, secret>>

(* The secret is configured and the API restarted.                         *)
SetSecret ==
    /\ ~secret
    /\ \A h \in Handlers : job[h].pc \in {"idle", "verify"}
    /\ secret' = TRUE
    /\ job' = [h \in Handlers |-> IdleHandler]
    /\ UNCHANGED <<rows, trail, sent, told, acked, losses>>

(* The recovery loop takes a pending row and settles it.                   *)
Handle(r) ==
    /\ r.state = "pending"
    /\ rows' = (rows \ {r}) \cup {[r EXCEPT !.state = "handled"]}
    /\ UNCHANGED <<trail, job, sent, told, acked, secret, losses>>

HandlerStep(h) ==
    \/ Refuse(h) \/ Accept(h)
    \/ Insert(h) \/ Conflict(h)
    \/ CommitInsert(h) \/ CommitDuplicate(h)
    \/ Answer(h)

Next ==
    \/ \E h \in Handlers : HandlerStep(h) \/ Lose(h)
    \/ \E h \in Handlers, req \in Requests : Deliver(h, req)
    \/ SetSecret
    \/ \E r \in rows : Handle(r)

Spec == Init /\ [][Next]_vars

(* Razorpay sends an event again until it is told 200.                     *)
Redeliver(req) ==
    /\ Genuine(req) /\ acked[req.ev] = 0
    /\ \E h \in Handlers : Deliver(h, req)

(* The server's tasks run; Razorpay's retries are not starved by other     *)
(* deliveries, since the API serves more at once than the model's Handlers.*)
Fairness ==
    /\ \A h \in Handlers : WF_vars(HandlerStep(h))
    /\ \A req \in Requests : SF_vars(Redeliver(req))
    /\ WF_vars(SetSecret)

FairSpec == Spec /\ Fairness

-----------------------------------------------------------------------------
(* Type invariant.                                                         *)

EventRow == [id : RowIds, ev : Events, state : {"pending", "handled"}]

Handler == [pc : {"idle", "verify", "insert", "inserted", "conflict", "answer"},
            req : Requests \cup {NoRequest}, id : RowIds \cup {None}, duplicate : BOOLEAN]

(* Tables and local variables stay in their domains; a handler past the    *)
(* checks has a genuine delivery, and past its first statement a row id.   *)
TypeOK ==
    /\ rows \subseteq EventRow
    /\ trail \in [RowIds -> [Entry -> Nat]]
    /\ job \in [Handlers -> Handler]
    /\ sent \in [Events -> Nat]
    /\ told \in [Events -> SUBSET [id : RowIds, duplicate : BOOLEAN]]
    /\ acked \in [Events -> Nat]
    /\ secret \in BOOLEAN
    /\ losses \in Nat
    /\ \A h \in Handlers :
          /\ job[h].pc \in {"insert", "inserted", "conflict", "answer"} => Genuine(job[h].req)
          /\ job[h].pc \in {"inserted", "conflict", "answer"} => job[h].id \in RowIds

-----------------------------------------------------------------------------
(* Safety.                                                                 *)

(* ingestion.py 3-7, "exactly one payment_events row": however many        *)
(* deliveries of one event run together, die or are repeated, the event has*)
(* one row, and the audit log shows one receipt of it and none of others.  *)
StoredOnce ==
    /\ \A r, q \in rows : r.ev = q.ev => r = q
    /\ \A id \in RowIds : trail[id]["webhook.received"] =
          IF \E r \in rows : r.id = id THEN 1 ELSE 0

(* test_webhook_ingestion.py 111, "Both responses point at the same stored *)
(* event": whatever Razorpay has been told of an event with a 200, it was  *)
(* told of one row, stored when it was told, and never of another's.       *)
AnswersAgree == \A e \in Events : \A a \in told[e] :
    /\ \E r \in rows : r.id = a.id /\ r.ev = e
    /\ \A b \in told[e] : a.id = b.id

(* ingestion.py 93-108: no 200 without its own audit entry, even when the  *)
(* process dies right after the commit or the delivery was a repetition.   *)
EveryAnswerAudited == \A e \in Events : \A r \in RowsOf(e) :
    acked[e] <= trail[r.id]["webhook.received"] + trail[r.id]["webhook.duplicate"]

(* webhooks.py 13-14 and 10-12: to the recovery loop, repeated deliveries  *)
(* are invisible; in particular none brings a handled event back.          *)
InboxOf(e) ==
    IF RowsOf(e) = {} THEN "unknown"
    ELSE IF \E r \in RowsOf(e) : r.state = "pending" THEN "pending" ELSE "handled"

Inbox == INSTANCE EventInbox WITH
    Unknown <- "unknown", Pending <- "pending", Marks <- {"handled"},
    inbox <- [e \in Events |-> InboxOf(e)]

InboxImplemented == Inbox!Spec

-----------------------------------------------------------------------------
(* Liveness.                                                               *)

(* webhooks.py 5-14: an event that Razorpay delivers is stored, and told so*)
(* with a 200, although handlers die, answers are lost and deliveries are  *)
(* refused for want of a secret; Razorpay does not retry for ever.         *)
Delivered(e) == \E h \in Handlers : Event(h) = e /\ Genuine(job[h].req)

EventsAcknowledged == \A e \in Events : Delivered(e) ~> acked[e] > 0
=============================================================================
